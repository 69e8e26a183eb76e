------------------------------- MODULE Relay -------------------------------
(***************************************************************************)
(* The relay server: the HTTP handlers (server/internal/api) and the       *)
(* WebSocket read loop, over the session store and the hub.  The           *)
(* handlers of any number of requests interleave between their atomic      *)
(* steps, which are the critical sections of the two mutexes, the writes   *)
(* to a socket and the reads of a body or of a socket.                     *)
(***************************************************************************)
EXTENDS SessionStore, TransferHub

VARIABLES
    pc,      \* per request, what its goroutine does next
    answer,  \* per request, the answer sent: a code of httpx, or a success
    peer     \* per connection, what the PC at its other end did

vars == <<storeVars, hubVars, pc, answer, peer>>

UploadPCs == {"idle", "check", "expire", "body", "lookup", "lockReceiver",
              "writeMeta", "writeData", "writeDone",
              "unregister", "closing", "deleteSession", "finished"}
Writing == {"writeMeta", "writeData", "writeDone"}
CancelPCs == {"idle", "check", "expire", "unregister", "closing",
              "deleteSession", "finished"}
ConnPCs == {"idle", "check", "expire", "upgrade", "register", "replacing",
            "reading", "unregister", "closing", "closeConn", "finished"}
PagePCs == {"idle", "check", "expire", "finished"}

SessionErrors == {"session_not_found", "session_expired", "invalid_token"}
Answers == SessionErrors \cup
    {"none", "link_expired_or_invalid", "page",
     "bad_request", "file_too_large", "no_receiver", "internal",
     "ok", "no_content", "switching_protocols", "upgrade_failed"}

RelayTypeOK ==
    /\ StoreTypeOK
    /\ HubTypeOK
    /\ pc \in [Callers -> UploadPCs \cup CancelPCs \cup ConnPCs \cup PagePCs]
    /\ \A u \in Uploads : pc[u] \in UploadPCs
    /\ \A c \in Cancels : pc[c] \in CancelPCs
    /\ \A w \in Conns : pc[w] \in ConnPCs
    /\ \A g \in Pages : pc[g] \in PagePCs
    /\ answer \in [Callers -> Answers]
    /\ peer \in [Conns -> {"away", "up", "cancelled", "gone"}]

Init ==
    /\ StoreInit
    /\ HubInit
    /\ pc = [p \in Callers |-> "idle"]
    /\ answer = [p \in Callers |-> "none"]
    /\ peer = [w \in Conns |-> "away"]

At(p, label) == pc[p] = label
GoTo(p, label) == pc' = [pc EXCEPT ![p] = label]
Finish(p, code) ==
    /\ GoTo(p, "finished")
    /\ answer' = [answer EXCEPT ![p] = code]

IdOf(p) == call[p].id
-----------------------------------------------------------------------------
(* Faulty variants of actions below: one plausible slip each, to show that *)
(* the properties notice it.                                               *)

(* An expired session is reported and left for the cleanup.                *)
ReportExpiredOnly(p) ==
    /\ At(p, "expire")
    /\ Finish(p, IF p \in Pages THEN "link_expired_or_invalid" ELSE "session_expired")
    /\ UNCHANGED <<storeVars, hubVars, peer>>

(* handleUpload does not look at the error of Deliver.                     *)
DeliveryErrorIgnored(u) ==
    /\ pc[u] \in Writing
    /\ WriteFails(u)
    /\ GoTo(u, "unregister")
    /\ UNCHANGED <<storeVars, answer, peer>>

(* The read loop deletes the session of the connection it served.          *)
AlwaysDeleteSession(p) == "deleteSession"

(* The session is left in the store after its delivery or its cancel.      *)
AnswerWithoutDelete(p) ==
    /\ At(p, "deleteSession")
    /\ Finish(p, IF p \in Uploads THEN "ok" ELSE "no_content")
    /\ UNCHANGED <<storeVars, hubVars, peer>>

(* The read loop carries on after a read error.                            *)
ReadErrorIgnored(w) ==
    /\ At(w, "reading")
    /\ sock[w] = "open" /\ peer[w] = "gone" /\ ~broken[w]
    /\ Break(w)
    /\ UNCHANGED <<storeVars, pc, answer, peer>>
-----------------------------------------------------------------------------
(* The clock, the creation of sessions and the cleanup goroutine.          *)

TimePasses == Tick /\ UNCHANGED <<hubVars, pc, answer, peer>>

CreateSession(s) == Create(s) /\ UNCHANGED <<hubVars, pc, answer, peer>>

RunCleanup ==
    /\ \E s \in sessions : Expired(s)
    /\ Cleanup
    /\ UNCHANGED <<hubVars, pc, answer, peer>>
-----------------------------------------------------------------------------
(* How every handler starts: Store.Get on the id and token of the request. *)

Arrive(p) ==
    /\ At(p, "idle")
    /\ \E s \in SessionIds, good \in BOOLEAN : GetRead(p, s, good)
    /\ GoTo(p, "check")
    /\ UNCHANGED <<hubVars, answer, peer>>

(* The phone's page answers every error with the same HTML.                *)
MapSessionError(p, verdict) ==
    IF p \in Pages THEN "link_expired_or_invalid" ELSE verdict

Refuse(p) ==
    /\ At(p, "check")
    /\ GetVerdict(p) \in {"session_not_found", "invalid_token"}
    /\ Finish(p, MapSessionError(p, GetVerdict(p)))
    /\ UNCHANGED <<storeVars, hubVars, peer>>

FindExpired(p) ==
    /\ At(p, "check")
    /\ GetVerdict(p) = "session_expired"
    /\ GoTo(p, "expire")
    /\ UNCHANGED <<storeVars, hubVars, answer, peer>>

DropExpired(p) ==
    /\ At(p, "expire")
    /\ Delete(IdOf(p))
    /\ Finish(p, MapSessionError(p, "session_expired"))
    /\ UNCHANGED <<hubVars, peer>>

Admitted(p, label) ==
    /\ At(p, "check")
    /\ GetVerdict(p) = "ok"
    /\ GoTo(p, label)
    /\ UNCHANGED <<storeVars, hubVars, answer, peer>>

AdmitUpload(u) == Admitted(u, "body")
AdmitCancel(c) == Admitted(c, "unregister")
AdmitConn(w) == Admitted(w, "upgrade")

(* handleMobilePage: index.html is embedded in the binary, which is not    *)
(* built without it, so the answer 500 to a failing read never comes.      *)
ServePage(g) ==
    /\ At(g, "check")
    /\ GetVerdict(g) = "ok"
    /\ Finish(g, "page")
    /\ UNCHANGED <<storeVars, hubVars, peer>>
-----------------------------------------------------------------------------
(* handleUpload, after Store.Get.                                          *)

(* The body arrived whole and is within the limits.  No read timeout is    *)
(* configured: how long this takes is up to the phone.                     *)
BodyRead(u) ==
    /\ At(u, "body")
    /\ GoTo(u, "lookup")
    /\ UNCHANGED <<storeVars, hubVars, answer, peer>>

BodyRejected(u) ==
    /\ At(u, "body")
    /\ \E code \in {"bad_request", "file_too_large"} : Finish(u, code)
    /\ UNCHANGED <<storeVars, hubVars, peer>>

FindReceiver(u) ==
    /\ At(u, "lookup")
    /\ receivers[IdOf(u)] # NoConn
    /\ LookUp(u, IdOf(u))
    /\ GoTo(u, "lockReceiver")
    /\ UNCHANGED <<storeVars, answer, peer>>

FindNoReceiver(u) ==
    /\ At(u, "lookup")
    /\ receivers[IdOf(u)] = NoConn
    /\ LookUp(u, IdOf(u))
    /\ Finish(u, "no_receiver")
    /\ UNCHANGED <<storeVars, peer>>

StartDelivery(u) ==
    /\ At(u, "lockReceiver")
    /\ LockReceiver(u)
    /\ GoTo(u, "writeMeta")
    /\ UNCHANGED <<storeVars, answer, peer>>

WriteMeta(u) ==
    /\ At(u, "writeMeta")
    /\ Write(u, "meta")
    /\ GoTo(u, "writeData")
    /\ UNCHANGED <<storeVars, answer, peer>>

WriteData(u) ==
    /\ At(u, "writeData")
    /\ Write(u, "data")
    /\ GoTo(u, "writeDone")
    /\ UNCHANGED <<storeVars, answer, peer>>

WriteDone(u) ==
    /\ At(u, "writeDone")
    /\ WriteLast(u)
    /\ GoTo(u, "unregister")
    /\ UNCHANGED <<storeVars, answer, peer>>

DeliveryFails(u) ==
    /\ pc[u] \in Writing
    /\ WriteFails(u)
    /\ Finish(u, "internal")
    /\ UNCHANGED <<storeVars, peer>>
-----------------------------------------------------------------------------
(* Hub.Unregister, called by an upload after its delivery, by a cancel,    *)
(* and by the read loop of a connection when it ends.                      *)

AfterUnregister(p) == IF p \in Conns THEN "closeConn" ELSE "deleteSession"

UnregisterNone(p) ==
    /\ At(p, "unregister")
    /\ UnregisterNothing(IdOf(p))
    /\ GoTo(p, AfterUnregister(p))
    /\ UNCHANGED <<storeVars, answer, peer>>

UnregisterLocks(p) ==
    /\ At(p, "unregister")
    /\ LockToEvict(p, IdOf(p))
    /\ GoTo(p, "closing")
    /\ UNCHANGED <<storeVars, answer, peer>>

UnregisterCloses(p) ==
    /\ At(p, "closing")
    /\ UnregisterClosing(p, IdOf(p))
    /\ GoTo(p, AfterUnregister(p))
    /\ UNCHANGED <<storeVars, answer, peer>>

(* The end of handleUpload and of handleCancelSession.                     *)
DeleteSession(p) ==
    /\ At(p, "deleteSession")
    /\ Delete(IdOf(p))
    /\ Finish(p, IF p \in Uploads THEN "ok" ELSE "no_content")
    /\ UNCHANGED <<hubVars, peer>>
-----------------------------------------------------------------------------
(* handleTransferWS after Store.Get, and HandleConn.                       *)

Upgrade(w) ==
    /\ At(w, "upgrade")
    /\ Open(w)
    /\ GoTo(w, "register")
    /\ answer' = [answer EXCEPT ![w] = "switching_protocols"]
    /\ peer' = [peer EXCEPT ![w] = "up"]
    /\ UNCHANGED storeVars

UpgradeFails(w) ==
    /\ At(w, "upgrade")
    /\ Finish(w, "upgrade_failed")
    /\ UNCHANGED <<storeVars, hubVars, peer>>

Register(w) ==
    /\ At(w, "register")
    /\ RegisterFirst(w, IdOf(w))
    /\ GoTo(w, "reading")
    /\ UNCHANGED <<storeVars, answer, peer>>

RegisterLocks(w) ==
    /\ At(w, "register")
    /\ LockToEvict(w, IdOf(w))
    /\ GoTo(w, "replacing")
    /\ UNCHANGED <<storeVars, answer, peer>>

RegisterReplaces(w) ==
    /\ At(w, "replacing")
    /\ RegisterReplacing(w, IdOf(w))
    /\ GoTo(w, "reading")
    /\ UNCHANGED <<storeVars, answer, peer>>

(* ReadMessage fails (closed by the server, or the PC left) or returns the *)
(* cancel message; any other message is ignored.                           *)
ReadClosed(w) ==
    /\ At(w, "reading")
    /\ sock[w] = "closed"
    /\ GoTo(w, "unregister")
    /\ UNCHANGED <<storeVars, hubVars, answer, peer>>

ReadGone(w) ==
    /\ At(w, "reading")
    /\ sock[w] = "open" /\ peer[w] = "gone"
    /\ Break(w)
    /\ GoTo(w, "unregister")
    /\ UNCHANGED <<storeVars, answer, peer>>

ReadCancel(w) ==
    /\ At(w, "reading")
    /\ sock[w] = "open" /\ peer[w] = "cancelled"
    /\ GoTo(w, "unregister")
    /\ UNCHANGED <<storeVars, hubVars, answer, peer>>

CloseConn(w) ==
    /\ At(w, "closeConn")
    /\ Close(w)
    /\ GoTo(w, "finished")
    /\ UNCHANGED <<storeVars, answer, peer>>

(* The PC closes the socket or loses the network, or sends cancel.         *)
PeerLeaves(w) ==
    /\ sock[w] = "open" /\ peer[w] \in {"up", "cancelled"}
    /\ peer' = [peer EXCEPT ![w] = "gone"]
    /\ UNCHANGED <<storeVars, hubVars, pc, answer>>

PeerCancels(w) ==
    /\ sock[w] = "open" /\ peer[w] = "up"
    /\ peer' = [peer EXCEPT ![w] = "cancelled"]
    /\ UNCHANGED <<storeVars, hubVars, pc, answer>>
-----------------------------------------------------------------------------
(* The steps of a goroutine that the scheduler, and not a client, decides. *)
GetSteps(p) == Refuse(p) \/ FindExpired(p) \/ DropExpired(p)
UnregisterSteps(p) ==
    UnregisterNone(p) \/ UnregisterLocks(p) \/ UnregisterCloses(p)
WriteSteps(u) ==
    WriteMeta(u) \/ WriteData(u) \/ WriteDone(u) \/ DeliveryFails(u)

UploadSteps(u) ==
    \/ GetSteps(u) \/ AdmitUpload(u)
    \/ FindReceiver(u) \/ FindNoReceiver(u) \/ StartDelivery(u)
    \/ WriteSteps(u)
    \/ UnregisterSteps(u) \/ DeleteSession(u)
CancelSteps(c) ==
    GetSteps(c) \/ AdmitCancel(c) \/ UnregisterSteps(c) \/ DeleteSession(c)
ConnSteps(w) ==
    \/ GetSteps(w) \/ AdmitConn(w)
    \/ Upgrade(w) \/ UpgradeFails(w)
    \/ Register(w) \/ RegisterLocks(w) \/ RegisterReplaces(w)
    \/ ReadClosed(w) \/ ReadGone(w) \/ ReadCancel(w)
    \/ UnregisterSteps(w) \/ CloseConn(w)
PageSteps(g) == GetSteps(g) \/ ServePage(g)

(* Every request was served; the connections left wait for their PC.       *)
Quiet ==
    /\ \A p \in Callers : pc[p] = "finished" \/ (p \in Conns /\ At(p, "reading"))
    /\ UNCHANGED vars

(* Everything but a new request.                                           *)
Underway ==
    \/ TimePasses
    \/ \E s \in SessionIds : CreateSession(s)
    \/ RunCleanup
    \/ \E u \in Uploads : UploadSteps(u) \/ BodyRead(u) \/ BodyRejected(u)
    \/ \E c \in Cancels : CancelSteps(c)
    \/ \E w \in Conns : ConnSteps(w) \/ PeerLeaves(w) \/ PeerCancels(w)
    \/ \E g \in Pages : PageSteps(g)
    \/ Quiet

Next == (\E p \in Callers : Arrive(p)) \/ Underway

Spec == Init /\ [][Next]_vars

(* Goroutines are scheduled, mutexes are handed over and the cleanup       *)
(* ticker fires.  Nothing is assumed of the clients: a request need not    *)
(* arrive, a body need not end, a PC need not leave.                       *)
Fairness ==
    /\ WF_vars(TimePasses)
    /\ WF_vars(RunCleanup)
    /\ \A u \in Uploads : WF_vars(UploadSteps(u))
    /\ \A c \in Cancels : WF_vars(CancelSteps(c))
    /\ \A w \in Conns : WF_vars(ConnSteps(w))
    /\ \A g \in Pages : WF_vars(PageSteps(g))

FairSpec == Spec /\ Fairness
============================================================================
