--------------------------- MODULE ExtensionFlow ---------------------------
(***************************************************************************)
(* The content script of one page (extension/content): the interceptor of  *)
(* clicks on file inputs, the orchestration of a pairing (index.js), the   *)
(* transfer to the server (transfer.js) and the overlay the user sees.     *)
(*                                                                         *)
(* Each call of handleInput starts a flow, which owns the session it       *)
(* creates, its WebSocket and its key.  The script itself keeps only one   *)
(* current input, one transfer.ws, one transfer.currentSession and one     *)
(* overlay, which the callbacks of every flow share.  A step is one task   *)
(* of the page's event loop; a microtask runs before the next task, though *)
(* a script of the page may click several times within one.                *)
(***************************************************************************)
EXTENDS Integers

CONSTANTS
    Inputs,     \* the <input type="file"> elements of the page
    None,       \* null
    MaxFlows,   \* bound on the intercepted clicks
    IsFirefox   \* browser.isFirefox

ASSUME FlowsAssumption ==
    MaxFlows \in Nat /\ None \notin Inputs /\ IsFirefox \in BOOLEAN

Flows == 1..MaxFlows

(* What may arrive: an image; what the flow's key decrypts to no image,    *)
(* such as the empty crop of web/app.js; what it does not decrypt.         *)
Files == {"photo", "notImage", "undecipherable"}

ASSUME NoneIsNoFlow == None \notin Flows

VARIABLES
    currentInput,  \* index.js currentInput
    allowNative,   \* interceptor.js allowNative
    flowInput,     \* per flow, the input handleInput was given
    flowPc,        \* per flow, where its asynchronous part is
    ws,            \* transfer.ws, the flow whose socket it is
    session,       \* transfer.currentSession, the flow whose session it is
    sock,          \* per flow, the readyState of its socket; "failing" is
                   \* CLOSING by a close() that came before it was open
    inbox,         \* per flow, the file that arrived and is not handled yet
    published,     \* the flows whose QR code was on show, and may be scanned
    cancelled,     \* the flows whose session DELETE was sent
    overlay,       \* what the overlay shows
    qr,            \* the flow whose QR code it shows, in whatever status
    received,      \* the flow whose photo it offers
    attached       \* the photos put into inputs: <<input, flow>>

transferVars == <<ws, session, sock, cancelled>>
overlayVars == <<overlay, qr, received>>
flowVars == <<flowInput, flowPc>>
vars == <<currentInput, allowNative, flowInput, flowPc, ws, session, sock,
          inbox, published, cancelled, overlay, qr, received, attached>>

ExtensionTypeOK ==
    /\ currentInput \in Inputs \cup {None}
    /\ allowNative \in BOOLEAN
    /\ flowInput \in [Flows -> Inputs \cup {None}]
    /\ flowPc \in [Flows -> {"unused", "mounting", "creating", "over"}]
    /\ ws \in Flows \cup {None} /\ session \in Flows \cup {None}
    /\ sock \in [Flows -> {"none", "connecting", "open", "failing", "closing", "closed"}]
    /\ inbox \in [Flows -> Files \cup {"empty"}]
    /\ published \subseteq Flows
    /\ cancelled \subseteq Flows
    /\ overlay \in {"closed", "loading", "waiting", "error", "received"}
    /\ qr \in Flows \cup {None} /\ received \in Flows \cup {None}
    /\ attached \subseteq Inputs \X Flows

Init ==
    /\ currentInput = None
    /\ allowNative = FALSE
    /\ flowInput = [f \in Flows |-> None]
    /\ flowPc = [f \in Flows |-> "unused"]
    /\ ws = None /\ session = None
    /\ sock = [f \in Flows |-> "none"]
    /\ inbox = [f \in Flows |-> "empty"]
    /\ published = {}
    /\ cancelled = {}
    /\ overlay = "closed"
    /\ qr = None /\ received = None
    /\ attached = {}
-----------------------------------------------------------------------------
(* Faulty variants of definitions below: one plausible slip each, to show  *)
(* that the properties notice it.                                          *)

(* The status line is redrawn over the received photo.                     *)
SetStateAlways(kind) == IF overlay = "closed" THEN overlay ELSE kind

(* The DELETE is sent although there is no session.                        *)
SessionEvenIfNull == {session}

(* transfer.ws keeps the socket that was closed.                           *)
WsKept == UNCHANGED ws

(* The user's cancel does not reset the current input.                     *)
CloseOnly == currentInput' = currentInput

(* The identity check after the await is left out.                         *)
AlwaysCurrent(f) == TRUE

(* The photo is rendered and not remembered as the one to attach.          *)
RenderOnly(f) ==
    IF overlay = "closed" THEN UNCHANGED <<overlay, received>>
                          ELSE overlay' = "received" /\ UNCHANGED received

(* A failed creation is swallowed.                                         *)
FailSilently(f) ==
    /\ flowPc[f] = "creating"
    /\ flowPc' = [flowPc EXCEPT ![f] = "over"]
    /\ UNCHANGED <<currentInput, allowNative, flowInput, transferVars, inbox,
                   published, overlayVars, attached>>
-----------------------------------------------------------------------------
(* transfer.js and overlay.js: what the handlers call.                     *)

CloseSocket(state) ==
    CASE state = "connecting" -> "failing"
      [] state = "open" -> "closing"
      [] OTHER -> state

HeldSession == {session} \ {None}
ForgetWs == ws' = None

(* transfer.cancel, up to its await: the DELETE is then under way.         *)
CancelTransfer ==
    /\ sock' = [f \in Flows |-> IF f = ws THEN CloseSocket(sock[f]) ELSE sock[f]]
    /\ ForgetWs
    /\ session' = None
    /\ cancelled' = cancelled \cup HeldSession

(* overlay.setState: without effect when the overlay is closed, and        *)
(* invisible once the received photo has replaced the card's content.      *)
SetState(kind) == IF overlay \in {"closed", "received"} THEN overlay ELSE kind

OpenOverlay == overlay' = "loading" /\ qr' = None /\ received' = None
CloseOverlay == overlay' = "closed" /\ qr' = None /\ received' = None

(* overlay.setQR: the earlier code is gone, and the QR library may refuse   *)
(* the text of the new one.  What is drawn can be scanned from then on.    *)
QRVisible == overlay \notin {"closed", "received"}

DrawQR(f) ==
    /\ overlay' = "waiting" /\ qr' = f
    /\ published' = published \cup {f}
RefuseQR == overlay' = "error" /\ qr' = None /\ UNCHANGED published

SetQR(f) ==
    IF QRVisible THEN DrawQR(f) \/ RefuseQR
                 ELSE UNCHANGED <<overlay, qr, published>>

RenderReceived(f) ==
    IF overlay = "closed" THEN UNCHANGED <<overlay, received>>
                          ELSE overlay' = "received" /\ received' = f

Reset == currentInput' = None

(* What a WebSocket's close event does to transfer.ws.                     *)
OnClose(f) == ws' = IF ws = f THEN None ELSE ws

IsCurrent(f) == currentInput = flowInput[f]

(* nacl.secretbox.open with the flow's key, and the image signatures.      *)
Decrypts(file) == file # "undecipherable"
DetectsType(file) == file = "photo"

(* attach: input.files in Chrome; in Firefox a drop that only a page with  *)
(* a handler of its own takes.                                             *)
InjectNative(f) == attached' = attached \cup {<<currentInput, f>>}
DropIgnored == IsFirefox /\ UNCHANGED attached
Attach(f) == InjectNative(f) \/ DropIgnored
-----------------------------------------------------------------------------
(* A click on a file input, by the user or by a script of the page.        *)

(* The click that openNative let through, or one after a let-through that  *)
(* never came.                                                             *)
ClickNative ==
    /\ allowNative
    /\ allowNative' = FALSE
    /\ UNCHANGED <<currentInput, flowVars, transferVars, inbox, published,
                   overlayVars, attached>>

StartFlow(f, i) ==
    /\ flowPc[f] = "unused" /\ \A g \in Flows : g < f => flowPc[g] # "unused"
    /\ flowInput' = [flowInput EXCEPT ![f] = i]
    /\ flowPc' = [flowPc EXCEPT ![f] = "mounting"]
    /\ IF currentInput # None THEN CancelTransfer ELSE UNCHANGED transferVars

(* handleInput: releases the earlier flow and opens the overlay.           *)
HandleInput(f, i) ==
    /\ ~allowNative
    /\ StartFlow(f, i)
    /\ currentInput' = i
    /\ OpenOverlay
    /\ UNCHANGED <<allowNative, inbox, published, attached>>

(* The microtask after overlay.open().                                     *)
FirstMounting(f) ==
    flowPc[f] = "mounting" /\ \A g \in Flows : g < f => flowPc[g] # "mounting"

Mount(f) ==
    /\ FirstMounting(f)
    /\ flowPc' = [flowPc EXCEPT ![f] = IF IsCurrent(f) THEN "creating" ELSE "over"]
    /\ UNCHANGED <<currentInput, allowNative, flowInput, transferVars, inbox,
                   published, overlayVars, attached>>

(* No microtask is pending: the event loop may take a task.                *)
Idle == \A f \in Flows : flowPc[f] # "mounting"
-----------------------------------------------------------------------------
(* The answer to POST /api/sessions.                                       *)

SessionUnwanted(f) ==
    /\ Idle /\ flowPc[f] = "creating"
    /\ ~IsCurrent(f)
    /\ flowPc' = [flowPc EXCEPT ![f] = "over"]
    /\ UNCHANGED <<currentInput, allowNative, flowInput, transferVars, inbox,
                   published, overlayVars, attached>>

(* openWS, whatever socket transfer.ws held, then setQR.                   *)
SessionCreated(f) ==
    /\ Idle /\ flowPc[f] = "creating"
    /\ IsCurrent(f)
    /\ flowPc' = [flowPc EXCEPT ![f] = "over"]
    /\ ws' = f /\ session' = f
    /\ sock' = [sock EXCEPT ![f] = "connecting"]
    /\ SetQR(f)
    /\ UNCHANGED <<currentInput, allowNative, flowInput, cancelled, inbox,
                   received, attached>>

(* The catch: no identity check here.                                      *)
CreateFails(f) ==
    /\ Idle /\ flowPc[f] = "creating"
    /\ flowPc' = [flowPc EXCEPT ![f] = "over"]
    /\ overlay' = SetState("error")
    /\ UNCHANGED <<currentInput, allowNative, flowInput, transferVars, inbox,
                   published, qr, received, attached>>
-----------------------------------------------------------------------------
(* The socket of a flow.                                                   *)

SocketOpens(f) ==
    /\ Idle /\ sock[f] = "connecting"
    /\ sock' = [sock EXCEPT ![f] = "open"]
    /\ UNCHANGED <<currentInput, allowNative, flowVars, ws, session, inbox,
                   published, cancelled, overlayVars, attached>>

(* error, then close: it never opened, was closed before it was open, or   *)
(* the connection was lost, which a closing socket may find as well.  What *)
(* had arrived is handled first, unless the script closed the socket.      *)
SocketFails(f) ==
    /\ Idle
    /\ \/ sock[f] \in {"connecting", "failing", "closing"}
       \/ sock[f] = "open" /\ inbox[f] = "empty"
    /\ sock' = [sock EXCEPT ![f] = "closed"]
    /\ overlay' = SetState("error")
    /\ OnClose(f)
    /\ UNCHANGED <<currentInput, allowNative, flowVars, session, inbox,
                   published, cancelled, qr, received, attached>>

(* The close event of a socket the script closed, or that the server or    *)
(* the network closed.                                                     *)
SocketCloses(f) ==
    /\ Idle
    /\ sock[f] = "closing" \/ (sock[f] = "open" /\ inbox[f] = "empty")
    /\ sock' = [sock EXCEPT ![f] = "closed"]
    /\ OnClose(f)
    /\ UNCHANGED <<currentInput, allowNative, flowVars, session, inbox,
                   published, cancelled, overlayVars, attached>>

(* A photo is relayed to the socket.  Whoever scanned the code sends as    *)
(* often as they like, and the server may relay two uploads, or one after  *)
(* the session ended there (see the relay): the script accepts them all.   *)
PhoneSends(f) ==
    /\ Idle /\ f \in published
    /\ sock[f] = "open" /\ inbox[f] = "empty"
    /\ \E file \in Files : inbox' = [inbox EXCEPT ![f] = file]
    /\ UNCHANGED <<currentInput, allowNative, flowVars, transferVars,
                   published, overlayVars, attached>>

(* onmessage with the bytes: a photo that decrypts with the flow's key and *)
(* is an image is offered; the transfer is cancelled, whosever it is.      *)
ReceivePhoto(f) ==
    /\ Idle /\ sock[f] = "open" /\ inbox[f] # "empty"
    /\ Decrypts(inbox[f]) /\ DetectsType(inbox[f])
    /\ inbox' = [inbox EXCEPT ![f] = "empty"]
    /\ CancelTransfer
    /\ RenderReceived(f)
    /\ UNCHANGED <<currentInput, allowNative, flowVars, published, qr,
                   attached>>

ReceiveGarbage(f) ==
    /\ Idle /\ sock[f] = "open" /\ inbox[f] # "empty"
    /\ ~(Decrypts(inbox[f]) /\ DetectsType(inbox[f]))
    /\ inbox' = [inbox EXCEPT ![f] = "empty"]
    /\ CancelTransfer
    /\ overlay' = SetState("error")
    /\ UNCHANGED <<currentInput, allowNative, flowVars, published, qr,
                   received, attached>>
-----------------------------------------------------------------------------
(* The user and the overlay.                                               *)

(* The cancel button, or a click beside the card, which stays possible     *)
(* when a photo is offered.                                                *)
PressCancel ==
    /\ Idle /\ overlay # "closed"
    /\ CancelTransfer /\ CloseOverlay /\ Reset
    /\ UNCHANGED <<allowNative, flowVars, inbox, published, attached>>

(* "Usar arquivo do PC": the synthetic click reaches the listener on the   *)
(* document, unless the page has detached the input meanwhile.             *)
PressNative ==
    /\ Idle /\ overlay \in {"loading", "waiting", "error"}
    /\ CancelTransfer /\ CloseOverlay /\ Reset
    /\ \E reached \in BOOLEAN : allowNative' = ~reached
    /\ UNCHANGED <<flowVars, inbox, published, attached>>

PressAttach ==
    /\ Idle /\ overlay = "received"
    /\ Attach(received)
    /\ CloseOverlay /\ Reset
    /\ UNCHANGED <<allowNative, flowVars, transferVars, inbox, published>>

(* The page clicks an input from its change handler, inside attach: the    *)
(* flow starts, and onAttach then closes its overlay.                      *)
PressAttachReentered(f, i) ==
    /\ Idle /\ overlay = "received" /\ ~allowNative
    /\ Attach(received)
    /\ StartFlow(f, i)
    /\ CloseOverlay /\ Reset
    /\ UNCHANGED <<allowNative, inbox, published>>

(* "Baixar" and "Fechar" leave the same state.                             *)
PressDownloadOrClose ==
    /\ Idle /\ overlay = "received"
    /\ CloseOverlay /\ Reset
    /\ UNCHANGED <<allowNative, flowVars, transferVars, inbox, published,
                   attached>>
-----------------------------------------------------------------------------
FetchSettles(f) == SessionUnwanted(f) \/ SessionCreated(f) \/ CreateFails(f)

Next ==
    \/ ClickNative
    \/ \E f \in Flows, i \in Inputs : HandleInput(f, i) \/ PressAttachReentered(f, i)
    \/ \E f \in Flows :
          \/ Mount(f) \/ FetchSettles(f)
          \/ SocketOpens(f) \/ SocketFails(f) \/ SocketCloses(f)
          \/ PhoneSends(f) \/ ReceivePhoto(f) \/ ReceiveGarbage(f)
    \/ PressCancel \/ PressNative \/ PressAttach \/ PressDownloadOrClose

Spec == Init /\ [][Next]_vars

(* Microtasks run, and the browser settles a fetch one way or the other.   *)
FairSpec ==
    Spec /\ \A f \in Flows : WF_vars(Mount(f)) /\ WF_vars(FetchSettles(f))
-----------------------------------------------------------------------------
(* Properties.                                                             *)

(* The overlay is on the page exactly while a flow is current: whatever    *)
(* callbacks of earlier flows still fire, none leaves a dead overlay over  *)
(* the page or a flow that the user cannot see.                            *)
OverlayFollowsInput == overlay = "closed" <=> currentInput = None

(* Whatever answers of earlier flows come late, the QR code on show was    *)
(* made for the current input, and is that of the session a cancel would   *)
(* end.  Only under an error may it be that of a cancelled session; never  *)
(* is it that of a session which the script forgot and the server keeps.   *)
(* "Aguarde o envio da foto" always has a code, and a live one, and no     *)
(* code is left from an earlier overlay.                                   *)
QRCodeOfOwnSession ==
    /\ overlay = "waiting" => qr # None
    /\ overlay \in {"closed", "loading"} => qr = None
    /\ qr # None /\ overlay # "received" =>
          /\ flowInput[qr] = currentInput
          /\ \/ session = qr /\ qr \notin cancelled
             \/ overlay = "error" /\ qr \in cancelled

(* transfer.ws and transfer.currentSession never belong to two flows: the  *)
(* socket that cancel closes is the one of the session it deletes.         *)
SocketOfSession == ws # None => session = ws

(* A photo offered to the user is not taken away by a late error, QR code  *)
(* or session of some flow.  While no reset and no click comes, it stays   *)
(* as it is, or another photo that has just been received and recognised   *)
(* is offered in its place.                                                *)
JustReceived(f) ==
    /\ inbox[f] = "photo" /\ inbox'[f] = "empty"
    /\ overlay' = "received" /\ received' = f

OfferedPhotoStays ==
    [][overlay = "received" =>
          \/ overlay' = "received" /\ received' = received
          \/ \E f \in Flows : JustReceived(f)
          \/ currentInput' = None
          \/ flowInput' # flowInput]_vars

(* "Gerando QR Code..." ends, in a QR code, in an error or by the user,    *)
(* although answers to earlier flows are dropped.                          *)
LoadingEnds == overlay = "loading" ~> overlay # "loading"

(* injector.js:1 and README.md:30, the photo goes into the original file   *)
(* input: the one whose click started the flow.                            *)
AttachedToItsInput == \A a \in attached : flowInput[a[2]] = a[1]
-----------------------------------------------------------------------------
(* The inductive invariant.                                                *)

(* A flow has an input from its start on, and a session only after its     *)
(* creation was answered: none is cancelled before.  An offered photo is   *)
(* that of a flow.                                                         *)
FlowsInv ==
    /\ \A f \in Flows : flowPc[f] = "unused" => flowInput[f] = None
    /\ \A f \in cancelled \cup HeldSession : flowPc[f] = "over"
    /\ overlay = "received" => received # None

(* The overlay, the current input, the session and the socket agree        *)
(* between any two tasks of the page, whichever flow's callback ran.       *)
ExtensionInv ==
    /\ ExtensionTypeOK
    /\ FlowsInv
    /\ OverlayFollowsInput
    /\ SocketOfSession
    /\ QRCodeOfOwnSession
============================================================================
