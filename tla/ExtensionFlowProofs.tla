------------------------ MODULE ExtensionFlowProofs ------------------------
(***************************************************************************)
(* Proofs about the content script, for any inputs of the page, any number *)
(* of flows and either browser.                                            *)
(***************************************************************************)
EXTENDS ExtensionFlow, TLAPS

LEMMA FlowsAreNotNull == Flows \subseteq Nat /\ None \notin Flows
  BY FlowsAssumption, NoneIsNoFlow DEF Flows

(* transfer.cancel leaves no socket and no session, and sends the DELETE   *)
(* of the session it held.                                                 *)
LEMMA CancelEnds ==
  ASSUME ExtensionTypeOK, FlowsInv, CancelTransfer
  PROVE  /\ ws' = None /\ session' = None
         /\ sock' \in [Flows -> {"none", "connecting", "open", "failing",
                                 "closing", "closed"}]
         /\ cancelled' \subseteq Flows
         /\ \A f \in cancelled' : flowPc[f] = "over"
<1>1. ws' = None /\ session' = None /\ cancelled' = cancelled \cup HeldSession
  BY DEF CancelTransfer, ForgetWs
<1>2. sock' \in [Flows -> {"none", "connecting", "open", "failing",
                           "closing", "closed"}]
  BY DEF CancelTransfer, CloseSocket, ExtensionTypeOK
<1>3. HeldSession \subseteq Flows
  BY DEF HeldSession, ExtensionTypeOK
<1>. QED BY <1>1, <1>2, <1>3 DEF ExtensionTypeOK, FlowsInv

(* The whole invariant of a page whose script was just injected.           *)
LEMMA ExtensionInit == Init => ExtensionInv
<1>. SUFFICES ASSUME Init PROVE ExtensionInv
  OBVIOUS
<1>1. ExtensionTypeOK
  <2>1. allowNative \in BOOLEAN
    BY Zenon DEF Init
  <2>. QED BY <2>1 DEF Init, ExtensionTypeOK
<1>2. FlowsInv
  BY FlowsAreNotNull DEF Init, FlowsInv, HeldSession
<1>. QED
  BY <1>1, <1>2 DEF Init, ExtensionInv, OverlayFollowsInput, SocketOfSession,
                    QRCodeOfOwnSession

(* A new flow leaves the transfer of the earlier one, if there was one.    *)
LEMMA StartFlowEnds ==
  ASSUME ExtensionTypeOK, FlowsInv, NEW f \in Flows, NEW i \in Inputs,
         StartFlow(f, i)
  PROVE  /\ \/ ws' = None /\ session' = None
            \/ ws' = ws /\ session' = session
         /\ sock' \in [Flows -> {"none", "connecting", "open", "failing",
                                 "closing", "closed"}]
         /\ cancelled' \subseteq Flows
         /\ \A g \in cancelled' : flowPc[g] = "over"
<1>1. CASE currentInput # None
  BY <1>1, CancelEnds DEF StartFlow
<1>2. CASE currentInput = None
  BY <1>2 DEF StartFlow, transferVars, ExtensionTypeOK, FlowsInv
<1>. QED BY <1>1, <1>2
-----------------------------------------------------------------------------
(* What is attached is the photo of a flow, and to an input.               *)
LEMMA AttachTypes ==
  ASSUME ExtensionInv, overlay = "received", Attach(received)
  PROVE  attached' \subseteq Inputs \X Flows
<1>1. currentInput \in Inputs /\ received \in Flows
  BY DEF ExtensionInv, ExtensionTypeOK, FlowsInv, OverlayFollowsInput
<1>2. attached \subseteq Inputs \X Flows
  BY DEF ExtensionInv, ExtensionTypeOK
<1>. QED BY <1>1, <1>2 DEF Attach, InjectNative, DropIgnored

LEMMA ExtensionTypeStep ==
  ASSUME ExtensionInv, [Next]_vars
  PROVE  ExtensionTypeOK'
<1>. ExtensionTypeOK /\ FlowsInv
  BY DEF ExtensionInv
<1>. USE DEF ExtensionTypeOK, flowVars, transferVars, overlayVars, SetState
<1>1. CASE UNCHANGED vars
  BY <1>1 DEF vars
<1>2. CASE ClickNative
  <2>1. allowNative' \in BOOLEAN
    <3>1. allowNative' = FALSE
      BY <1>2 DEF ClickNative
    <3>. QED BY ONLY <3>1, Zenon
  <2>. QED BY <1>2, <2>1 DEF ClickNative
<1>3. ASSUME NEW f \in Flows, NEW i \in Inputs, StartFlow(f, i)
      PROVE  /\ flowPc' \in [Flows -> {"unused", "mounting", "creating", "over"}]
             /\ flowInput' \in [Flows -> Inputs \cup {None}]
  BY <1>3 DEF StartFlow
<1>4. ASSUME NEW f \in Flows, NEW i \in Inputs, HandleInput(f, i)
      PROVE  ExtensionTypeOK'
  BY <1>3, <1>4, StartFlowEnds DEF HandleInput, OpenOverlay
<1>5. ASSUME NEW f \in Flows, NEW i \in Inputs, PressAttachReentered(f, i)
      PROVE  ExtensionTypeOK'
  BY <1>3, <1>5, StartFlowEnds, AttachTypes
  DEF PressAttachReentered, CloseOverlay, Reset
<1>6. ASSUME NEW f \in Flows, Mount(f) PROVE ExtensionTypeOK'
  BY <1>6 DEF Mount
<1>7. ASSUME NEW f \in Flows, FetchSettles(f) PROVE ExtensionTypeOK'
  BY <1>7 DEF FetchSettles, SessionUnwanted, SessionCreated, CreateFails, SetQR,
         DrawQR, RefuseQR, QRVisible
<1>8. ASSUME NEW f \in Flows, SocketOpens(f) \/ SocketFails(f) \/ SocketCloses(f)
      PROVE  ExtensionTypeOK'
  BY <1>8 DEF SocketOpens, SocketFails, SocketCloses, OnClose
<1>9. ASSUME NEW f \in Flows, PhoneSends(f)
      PROVE  ExtensionTypeOK'
  BY <1>9 DEF PhoneSends
<1>10. ASSUME NEW f \in Flows, ReceivePhoto(f) PROVE ExtensionTypeOK'
  BY <1>10, CancelEnds DEF ReceivePhoto, RenderReceived
<1>11. ASSUME NEW f \in Flows, ReceiveGarbage(f) PROVE ExtensionTypeOK'
  BY <1>11, CancelEnds DEF ReceiveGarbage
<1>12. CASE PressCancel
  BY <1>12, CancelEnds DEF PressCancel, CloseOverlay, Reset
<1>13. CASE PressNative
  <2>1. allowNative' \in BOOLEAN
    <3>1. PICK reached \in BOOLEAN : allowNative' = ~reached
      BY <1>13 DEF PressNative
    <3>. QED BY ONLY <3>1, Zenon
  <2>. QED BY <1>13, <2>1, CancelEnds DEF PressNative, CloseOverlay, Reset
<1>14. CASE PressAttach
  BY <1>14, AttachTypes DEF PressAttach, CloseOverlay, Reset
<1>15. CASE PressDownloadOrClose
  BY <1>15 DEF PressDownloadOrClose, CloseOverlay, Reset
<1>. QED
  BY <1>1, <1>2, <1>4, <1>5, <1>6, <1>7, <1>8, <1>9, <1>10, <1>11, <1>12,
     <1>13, <1>14, <1>15
  DEF Next

(* The flows whose session is held or was deleted stay "over": a flow ends *)
(* once, and only its end gives it a session.                              *)
LEMMA FlowsStep ==
  ASSUME ExtensionInv, [Next]_vars, ExtensionTypeOK'
  PROVE  FlowsInv'
<1>. ExtensionTypeOK /\ FlowsInv
  BY DEF ExtensionInv
<1>. USE FlowsAreNotNull
     DEF ExtensionTypeOK, FlowsInv, HeldSession, SetState, flowVars,
         transferVars, overlayVars
<1>1. ASSUME UNCHANGED <<flowInput, flowPc, session, cancelled>>,
             overlay' = "received" => overlay = "received" /\ received' = received
      PROVE  FlowsInv'
  BY <1>1
<1>2. ASSUME NEW f \in Flows, NEW i \in Inputs, StartFlow(f, i),
             overlay' # "received"
      PROVE  FlowsInv'
  <2>1. /\ flowInput' = [flowInput EXCEPT ![f] = i]
        /\ flowPc' = [flowPc EXCEPT ![f] = "mounting"] /\ flowPc[f] = "unused"
    BY <1>2 DEF StartFlow
  <2>2. \A g \in Flows : flowPc'[g] = "unused" => flowInput'[g] = None
    BY <2>1
  <2>3. \A g \in cancelled' \cup HeldSession' : flowPc'[g] = "over"
    BY <1>2, <2>1, StartFlowEnds
  <2>. QED BY <1>2, <2>2, <2>3
<1>3. ASSUME CancelTransfer, UNCHANGED <<flowInput, flowPc>>,
             overlay' = "received" => received' # None
      PROVE  FlowsInv'
  BY <1>3, CancelEnds
<1>4. ASSUME NEW f \in Flows, NEW i \in Inputs,
             HandleInput(f, i) \/ PressAttachReentered(f, i)
      PROVE  FlowsInv'
  BY <1>2, <1>4
  DEF HandleInput, PressAttachReentered, OpenOverlay, CloseOverlay
<1>5. ASSUME NEW f \in Flows, Mount(f) PROVE FlowsInv'
  BY <1>5 DEF Mount, FirstMounting
<1>6. ASSUME NEW f \in Flows, FetchSettles(f) PROVE FlowsInv'
  BY <1>6 DEF FetchSettles, SessionUnwanted, SessionCreated, CreateFails, SetQR,
         DrawQR, RefuseQR, QRVisible
<1>7. ASSUME NEW f \in Flows, ReceivePhoto(f) \/ ReceiveGarbage(f)
      PROVE  FlowsInv'
  BY <1>3, <1>7 DEF ReceivePhoto, ReceiveGarbage, RenderReceived
<1>8. CASE PressCancel \/ PressNative
  BY <1>3, <1>8 DEF PressCancel, PressNative, CloseOverlay
<1>9. \/ /\ UNCHANGED <<flowInput, flowPc, session, cancelled>>
         /\ overlay' = "received" => overlay = "received" /\ received' = received
      \/ \E f \in Flows, i \in Inputs :
            HandleInput(f, i) \/ PressAttachReentered(f, i)
      \/ \E f \in Flows :
            Mount(f) \/ FetchSettles(f) \/ ReceivePhoto(f) \/ ReceiveGarbage(f)
      \/ PressCancel \/ PressNative
  BY [Next]_vars
  DEF Next, vars, ClickNative, SocketOpens, SocketFails, SocketCloses,
      PhoneSends, PressAttach, PressDownloadOrClose, CloseOverlay
<1>. QED BY <1>1, <1>4, <1>5, <1>6, <1>7, <1>8, <1>9

(* The overlay and currentInput are set together, or the overlay keeps its *)
(* place on the page.                                                      *)
LEMMA OverlayStep ==
  ASSUME ExtensionInv, [Next]_vars
  PROVE  OverlayFollowsInput'
<1>. USE FlowsAssumption
     DEF ExtensionInv, ExtensionTypeOK, OverlayFollowsInput, SetState, flowVars,
         transferVars, overlayVars
<1>1. ASSUME currentInput' = currentInput,
             overlay' = "closed" <=> overlay = "closed"
      PROVE  OverlayFollowsInput'
  BY <1>1
<1>2. ASSUME CloseOverlay, Reset PROVE OverlayFollowsInput'
  BY <1>2 DEF CloseOverlay, Reset
<1>3. ASSUME NEW f \in Flows, NEW i \in Inputs, HandleInput(f, i)
      PROVE  OverlayFollowsInput'
  BY <1>3 DEF HandleInput, OpenOverlay
<1>4. \/ /\ currentInput' = currentInput
         /\ overlay' = "closed" <=> overlay = "closed"
      \/ CloseOverlay /\ Reset
      \/ \E f \in Flows, i \in Inputs : HandleInput(f, i)
  BY [Next]_vars
  DEF Next, vars, ClickNative, PressAttachReentered, Mount, FetchSettles,
      SessionUnwanted, SessionCreated, SetQR, DrawQR, RefuseQR, QRVisible,
      CreateFails, SocketOpens, SocketFails, SocketCloses, PhoneSends, ReceivePhoto,
      ReceiveGarbage, RenderReceived, PressCancel, PressNative, PressAttach,
      PressDownloadOrClose
<1>. QED BY <1>1, <1>2, <1>3, <1>4

(* transfer.ws is set with its session, and cleared before or with it.     *)
LEMMA SocketStep ==
  ASSUME ExtensionInv, [Next]_vars
  PROVE  SocketOfSession'
<1>. ExtensionTypeOK /\ FlowsInv /\ SocketOfSession
  BY DEF ExtensionInv
<1>. USE DEF SocketOfSession
<1>1. ASSUME session' = session, ws' = ws \/ ws' = None
      PROVE  SocketOfSession'
  BY <1>1
<1>2. ASSUME CancelTransfer PROVE SocketOfSession'
  BY <1>2, CancelEnds
<1>3. ASSUME NEW f \in Flows, NEW i \in Inputs, StartFlow(f, i)
      PROVE  SocketOfSession'
  BY <1>3, StartFlowEnds
<1>4. ASSUME NEW f \in Flows, SessionCreated(f) PROVE SocketOfSession'
  BY <1>4 DEF SessionCreated
<1>5. \/ session' = session /\ (ws' = ws \/ ws' = None)
      \/ CancelTransfer
      \/ \E f \in Flows, i \in Inputs : StartFlow(f, i)
      \/ \E f \in Flows : SessionCreated(f)
  BY [Next]_vars
  DEF Next, vars, transferVars, ClickNative, HandleInput, PressAttachReentered,
      Mount, FetchSettles, SessionUnwanted, CreateFails, SocketOpens,
      SocketFails, SocketCloses, OnClose, PhoneSends, ReceivePhoto,
      ReceiveGarbage, PressCancel, PressNative, PressAttach,
      PressDownloadOrClose
<1>. QED BY <1>1, <1>2, <1>3, <1>4, <1>5

(* A QR code appears with the session created for the current input.  What *)
(* replaces or forgets that session either cancels it under an error, or   *)
(* takes the code away.                                                    *)
LEMMA QRCodeStep ==
  ASSUME ExtensionInv, [Next]_vars
  PROVE  QRCodeOfOwnSession'
<1>. USE FlowsAreNotNull
     DEF ExtensionInv, ExtensionTypeOK, FlowsInv, QRCodeOfOwnSession,
         SetState, flowVars, transferVars, overlayVars
<1>1. ASSUME overlay' # "waiting", qr' = None \/ overlay' = "received"
      PROVE  QRCodeOfOwnSession'
  BY <1>1
<1>2. ASSUME overlay' = overlay \/ overlay' = "error",
             overlay = "received" => overlay' = "received",
             UNCHANGED <<qr, session, flowInput, currentInput, cancelled>>
      PROVE  QRCodeOfOwnSession'
  BY <1>2
<1>3. ASSUME NEW f \in Flows, SessionCreated(f)
      PROVE  QRCodeOfOwnSession'
  <2>1. CASE QRVisible
    BY <1>3, <2>1
    DEF SessionCreated, SetQR, DrawQR, RefuseQR, QRVisible, IsCurrent
  <2>2. CASE ~QRVisible
    BY <1>3, <2>2 DEF SessionCreated, SetQR, QRVisible
  <2>. QED BY <2>1, <2>2
<1>4. ASSUME NEW f \in Flows, ReceiveGarbage(f)
      PROVE  QRCodeOfOwnSession'
  <2>1. cancelled' = cancelled \cup HeldSession
    BY <1>4 DEF ReceiveGarbage, CancelTransfer
  <2>2. qr # None /\ overlay # "received" => qr \in cancelled'
    BY <2>1 DEF HeldSession
  <2>3. /\ UNCHANGED <<qr, flowInput, currentInput>>
        /\ overlay' = SetState("error")
    BY <1>4 DEF ReceiveGarbage
  <2>. QED BY <2>2, <2>3
<1>5. \/ overlay' # "waiting" /\ (qr' = None \/ overlay' = "received")
      \/ /\ overlay' = overlay \/ overlay' = "error"
         /\ overlay = "received" => overlay' = "received"
         /\ UNCHANGED <<qr, session, flowInput, currentInput, cancelled>>
      \/ \E f \in Flows : SessionCreated(f) \/ ReceiveGarbage(f)
  BY [Next]_vars
  DEF Next, vars, ClickNative, HandleInput, PressAttachReentered, OpenOverlay,
      CloseOverlay, Mount, FetchSettles, SessionUnwanted, CreateFails,
      SocketOpens, SocketFails, SocketCloses, PhoneSends, ReceivePhoto,
      RenderReceived, PressCancel, PressNative, PressAttach,
      PressDownloadOrClose
<1>. QED BY <1>1, <1>2, <1>3, <1>4, <1>5

LEMMA ExtensionStep == ExtensionInv /\ [Next]_vars => ExtensionInv'
<1>. SUFFICES ASSUME ExtensionInv, [Next]_vars PROVE ExtensionInv'
  OBVIOUS
<1>1. ExtensionTypeOK'
  BY ExtensionTypeStep
<1>2. FlowsInv' /\ OverlayFollowsInput' /\ SocketOfSession'
  BY <1>1, FlowsStep, OverlayStep, SocketStep
<1>. QED BY <1>1, <1>2, QRCodeStep DEF ExtensionInv

(* The inductive invariant holds in every reachable state.                 *)
THEOREM ExtensionInvariance == Spec => []ExtensionInv
  BY ExtensionInit, ExtensionStep, PTL DEF Spec
-----------------------------------------------------------------------------
(* Type correctness of the content script, for any inputs and flows.       *)
THEOREM ExtensionTypes == Spec => []ExtensionTypeOK
<1>1. ExtensionInv => ExtensionTypeOK
  BY DEF ExtensionInv
<1>. QED BY <1>1, ExtensionInvariance, PTL

(* overlay.js and index.js: no callback of an earlier flow leaves a dead   *)
(* overlay over the page, or a current input that the user cannot cancel.  *)
THEOREM NoDeadOverlay == Spec => []OverlayFollowsInput
<1>1. ExtensionInv => OverlayFollowsInput
  BY DEF ExtensionInv
<1>. QED BY <1>1, ExtensionInvariance, PTL

(* transfer.js: the socket that cancel closes is the one of the session    *)
(* that it deletes.                                                        *)
THEOREM CancelHitsOneFlow == Spec => []SocketOfSession
<1>1. ExtensionInv => SocketOfSession
  BY DEF ExtensionInv
<1>. QED BY <1>1, ExtensionInvariance, PTL

(* index.js and overlay.js: the QR code on show, in whatever status, was   *)
(* made for the current input, and its session is the one that a cancel    *)
(* would end or, under an error only, one that was cancelled.              *)
THEOREM QRCodeIsOwn == Spec => []QRCodeOfOwnSession
<1>1. ExtensionInv => QRCodeOfOwnSession
  BY DEF ExtensionInv
<1>. QED BY <1>1, ExtensionInvariance, PTL

(* overlay.js: no late error, QR code or session takes an offered photo    *)
(* away or puts another in its place; only a photo that has just come, a   *)
(* new click, or what resets the current input, does.                      *)
THEOREM OfferIsKept == Spec => OfferedPhotoStays
<1>. DEFINE Kept ==
       \/ overlay' = "received" /\ received' = received
       \/ \E f \in Flows : JustReceived(f)
       \/ currentInput' = None
       \/ flowInput' # flowInput
<1>1. ASSUME ExtensionInv, [Next]_vars, overlay = "received" PROVE Kept
  <2>. USE <1>1, FlowsAssumption
       DEF ExtensionInv, ExtensionTypeOK, FlowsInv, SetState, overlayVars
  <2>1. ASSUME NEW f \in Flows, NEW i \in Inputs, HandleInput(f, i)
        PROVE  flowInput' # flowInput
    <3>1. flowInput[f] = None /\ flowInput' = [flowInput EXCEPT ![f] = i]
      BY <2>1 DEF HandleInput, StartFlow
    <3>2. flowInput'[f] = i /\ i # None
      BY <3>1
    <3>. QED BY <3>1, <3>2
  <2>2. ASSUME Reset PROVE currentInput' = None
    BY <2>2 DEF Reset
  <2>3. ASSUME NEW f \in Flows, ReceivePhoto(f) PROVE JustReceived(f)
    BY <2>3
    DEF ReceivePhoto, JustReceived, RenderReceived, DetectsType
  <2>4. \/ overlay' = "received" /\ received' = received
        \/ Reset
        \/ \E f \in Flows, i \in Inputs : HandleInput(f, i)
        \/ \E f \in Flows : ReceivePhoto(f)
    BY [Next]_vars
    DEF Next, vars, ClickNative, PressAttachReentered, Mount, FetchSettles,
        SessionUnwanted, SessionCreated, SetQR, QRVisible, CreateFails,
        SocketOpens, SocketFails, SocketCloses, PhoneSends, ReceiveGarbage,
        PressCancel, PressNative, PressAttach, PressDownloadOrClose
  <2>. QED BY <2>1, <2>2, <2>3, <2>4
<1>2. ExtensionInv /\ [Next]_vars => [overlay = "received" => Kept]_vars
  BY <1>1
<1>. QED BY <1>2, ExtensionInvariance, PTL DEF Spec, OfferedPhotoStays, Kept
============================================================================
