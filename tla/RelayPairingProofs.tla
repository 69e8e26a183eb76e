------------------------- MODULE RelayPairingProofs -------------------------
(***************************************************************************)
(* The relay implements Pairing, for any number of sessions, requests and  *)
(* connections: every step of a handler, of the clock, of the cleanup or   *)
(* of a PC is one step of the promise, or leaves all of it as it is.       *)
(***************************************************************************)
EXTENDS RelayProofs, RelayPairing

(* What Pairing sees of the relay, as RelayPairing maps it.                *)
Life == [s \in SessionIds |-> LifeOf(s)]
Overdue == {s \in SessionIds : expiresAt[s] # 0 /\ now > expiresAt[s]}
Holds == [p \in Callers |-> HeldBy(p)]
Given == {d \in Uploads \X Conns : Relayed(d[1], d[2])}
Said == [p \in Callers |-> WordOf(p)]

(* The answers that tell a client no.                                      *)
Errors == Answers \ (Successes \cup {"none"})

LEMMA PromiseInit == Init => Promise!Init
<1>. SUFFICES ASSUME Init PROVE Promise!Init
  OBVIOUS
<1>. USE DEF Init, StoreInit, HubInit
<1>1. Life = [s \in SessionIds |-> "undrawn"] /\ Overdue = {}
  BY DEF Life, LifeOf, Overdue
<1>2. Holds = [p \in Callers |-> NoSession] /\ Said = [p \in Callers |-> "nothing"]
  BY DEF Holds, HeldBy, Said, WordOf
<1>3. Given = {}
  BY DEF Given, Relayed, Has
<1>4. Callers = Promise!Requests
  BY DEF Callers, Promise!Requests
<1>. QED
  BY <1>1, <1>2, <1>3, <1>4
  DEF Promise!Init, Life, Overdue, Holds, Given, Said
-----------------------------------------------------------------------------
(* What leaves the store, the deadlines, the arguments, the last frames    *)
(* and the answers alone, nobody sees.                                     *)
LEMMA Unseen ==
  ASSUME UNCHANGED <<now, sessions, expiresAt, call, answer>>,
         \A u \in Uploads, w \in Conns : Relayed(u, w)' <=> Relayed(u, w)
  PROVE  UNCHANGED Promise!vars
<1>1. Life' = Life /\ Overdue' = Overdue
  BY DEF Life, LifeOf, Overdue
<1>2. Holds' = Holds /\ Said' = Said
  BY DEF Holds, HeldBy, Said, WordOf
<1>3. Given' = Given
  BY DEF Given
<1>. QED
  BY <1>1, <1>2, <1>3 DEF Promise!vars, Life, Overdue, Holds, Given, Said

LEMMA WireKept ==
  ASSUME wire' = wire
  PROVE  \A u \in Uploads, w \in Conns : Relayed(u, w)' <=> Relayed(u, w)
  BY DEF Relayed, Has

(* Taking drawn sessions out of the store ends them, and no others.        *)
LEMMA StoreEnds ==
  ASSUME NEW S \in SUBSET SessionIds, \A s \in S : expiresAt[s] # 0,
         sessions' = sessions \ S, expiresAt' = expiresAt
  PROVE  Promise!Ends(S)
<1>1. ASSUME NEW s \in SessionIds
      PROVE  LifeOf(s)' = IF s \in S THEN "ended" ELSE LifeOf(s)
  BY <1>1 DEF LifeOf
<1>. QED BY <1>1 DEF Promise!Ends

(* A handler that has not answered yet was not given anything to answer    *)
(* for, unless its delivery is complete.                                   *)
LEMMA NothingGiven ==
  ASSUME RelayInv, NEW p \in Callers,
         pc[p] \in {"check", "expire", "body", "lookup", "upgrade"} \cup Writing
  PROVE  /\ answer[p] = "none"
         /\ \A w \in Conns \cup Pages : <<p, w>> \notin Given
<1>. USE ActorsAssumption DEF Callers
<1>1. answer[p] = "none"
  <2>1. CASE p \in Conns
    BY <2>1 DEF RelayInv, HoldersInv, RelayTypeOK, ConnPCs, Writing
  <2>2. CASE p \notin Conns
    BY <2>2 DEF RelayInv, HoldersInv, Writing
  <2>. QED BY <2>1, <2>2
<1>2. ASSUME NEW w \in Conns, p \in Uploads, Relayed(p, w) PROVE FALSE
  <2>1. Touched(p, w)
    BY <1>2 DEF Relayed, Has, Touched
  <2>2. pc[p] \notin Writing
    BY <1>2 DEF RelayInv, HoldersInv
  <2>3. target[p] = w
    BY <1>2, <2>1 DEF RelayInv, RelayedInv
  <2>4. pc[p] # "upgrade"
    BY <1>2 DEF RelayInv, RelayTypeOK, UploadPCs
  <2>. QED BY <1>2, <2>2, <2>3, <2>4 DEF RelayInv, RelayedInv
<1>3. \A w \in Conns \cup Pages : <<p, w>> \notin Given
  BY <1>2 DEF Given
<1>. QED BY <1>1, <1>3

(* The word of one request.                                                *)
LEMMA OneIsTold ==
  ASSUME RelayTypeOK, NEW p \in Callers, NEW code \in Answers \ {"none"},
         answer[p] = "none", answer' = [answer EXCEPT ![p] = code]
  PROVE  Promise!Told(p, IF code \in Successes THEN "ok" ELSE "no")
<1>. DEFINE word == IF code \in Successes THEN "ok" ELSE "no"
<1>1. ASSUME NEW q \in Callers
      PROVE  WordOf(q)' = IF q = p THEN word ELSE WordOf(q)
  BY <1>1 DEF WordOf, RelayTypeOK
<1>2. WordOf(p) = "nothing"
  BY DEF WordOf
<1>. QED BY <1>1, <1>2 DEF Promise!Told

(* A refusal leaves nothing behind, but for the end of an expired session. *)
LEMMA RefusalStep ==
  ASSUME RelayInv, NEW p \in Callers,
         pc[p] \in {"check", "expire", "body", "lookup", "upgrade"} \cup Writing,
         NEW code \in Errors,
         answer' = [answer EXCEPT ![p] = code],
         NEW S \in SUBSET Overdue, sessions' = sessions \ S,
         UNCHANGED <<now, expiresAt, call, wire>>
  PROVE  Promise!SayNo(p)
<1>1. Promise!Told(p, "no")
  BY OneIsTold, NothingGiven DEF RelayInv, Errors
<1>2. Promise!Ends(S)
  BY StoreEnds DEF Overdue
<1>3. Overdue' = Overdue /\ Holds' = Holds
  BY DEF Overdue, Holds, HeldBy
<1>4. Given' = Given
  BY WireKept DEF Given
<1>. QED
  BY <1>1, <1>2, <1>3, <1>4, NothingGiven DEF Promise!SayNo, Overdue, Holds, Given

(* A success: the caller holds its session, which ends unless it only let  *)
(* the caller in.                                                          *)
LEMMA SuccessStep ==
  ASSUME RelayInv, NEW p \in Callers, answer[p] = "none",
         call[p].found, call[p].tokenMatches, call[p].id \in SessionIds,
         p \in Uploads => \E w \in Conns : Relayed(p, w),
         NEW code \in Successes, answer' = [answer EXCEPT ![p] = code],
         sessions' = sessions \
                       (IF p \in Conns \cup Pages THEN {} ELSE {call[p].id}),
         UNCHANGED <<now, expiresAt, call, wire>>
  PROVE  Promise!SayOk(p)
<1>. DEFINE S == IF p \in Conns \cup Pages THEN {} ELSE {call[p].id}
<1>1. Promise!Told(p, "ok")
  <2>1. code \in Answers \ {"none"}
    BY DEF Successes, Answers, SessionErrors
  <2>. QED BY <2>1, OneIsTold DEF RelayInv
<1>2. Promise!Ends(S)
  <2>1. S \subseteq SessionIds /\ \A s \in S : expiresAt[s] # 0
    BY DEF RelayInv, SessionsInv
  <2>. QED BY <2>1, StoreEnds
<1>3. Overdue' = Overdue /\ Holds' = Holds
  BY DEF Overdue, Holds, HeldBy
<1>4. Given' = Given
  BY WireKept DEF Given
<1>5. HeldBy(p) = call[p].id /\ call[p].id # NoSession
  BY ActorsAssumption DEF HeldBy
<1>6. p \in Uploads => \E w \in Conns \cup Pages : <<p, w>> \in Given
  BY DEF Given
<1>. QED
  BY <1>1, <1>2, <1>3, <1>4, <1>5, <1>6 DEF Promise!SayOk, Overdue, Holds, Given
-----------------------------------------------------------------------------
(* The clock makes sessions overdue.                                       *)
LEMMA ClockStep == RelayInv /\ TimePasses => Promise!PassDeadlines
<1>. SUFFICES ASSUME RelayInv, TimePasses PROVE Promise!PassDeadlines
  OBVIOUS
<1>. USE DEF TimePasses, Tick, hubVars
<1>1. Overdue \subseteq Overdue' /\ Overdue' \subseteq SessionIds
  BY DEF Overdue, RelayInv, RelayTypeOK, StoreTypeOK
<1>2. \A s \in Overdue' : Life[s] # "undrawn"
  BY DEF Overdue, Life, LifeOf
<1>3. Life' = Life /\ Holds' = Holds /\ Said' = Said
  BY DEF Life, LifeOf, Holds, HeldBy, Said, WordOf
<1>4. Given' = Given
  BY WireKept DEF Given
<1>. QED
  BY <1>1, <1>2, <1>3, <1>4
  DEF Promise!PassDeadlines, Life, Overdue, Holds, Given, Said

(* POST /api/sessions draws a session.                                     *)
LEMMA CreateStep ==
  ASSUME RelayInv, NEW s \in SessionIds, CreateSession(s)
  PROVE  Promise!Draw(s)
<1>. USE ClockAssumption
     DEF CreateSession, Create, NewDeadline, hubVars, RelayInv, RelayTypeOK,
         StoreTypeOK
<1>1. ASSUME NEW r \in SessionIds
      PROVE  LifeOf(r)' = IF r = s THEN "live" ELSE LifeOf(r)
  BY <1>1 DEF LifeOf
<1>2. LifeOf(s) = "undrawn"
  BY DEF LifeOf
<1>3. Overdue' = Overdue
  BY DEF Overdue
<1>4. Holds' = Holds /\ Said' = Said
  BY DEF Holds, HeldBy, Said, WordOf
<1>5. Given' = Given
  BY WireKept DEF Given
<1>. QED
  BY <1>1, <1>2, <1>3, <1>4, <1>5
  DEF Promise!Draw, Overdue, Holds, Given, Said

(* The cleanup ends sessions that are overdue.                             *)
LEMMA CleanupStep == RelayInv /\ RunCleanup => Promise!Expire
<1>. SUFFICES ASSUME RelayInv, RunCleanup PROVE Promise!Expire
  OBVIOUS
<1>. DEFINE S == {s \in sessions : Expired(s)}
<1>. USE DEF RunCleanup, Cleanup, hubVars
<1>1. S \subseteq Overdue
  BY DEF Overdue, Expired, RelayInv, SessionsInv, RelayTypeOK, StoreTypeOK
<1>2. sessions' = sessions \ S
  BY DEF Expired
<1>3. Promise!Ends(S)
  <2>. HIDE DEF S
  <2>. QED BY <1>1, <1>2, StoreEnds DEF Overdue
<1>4. Overdue' = Overdue /\ Holds' = Holds /\ Said' = Said
  BY DEF Overdue, Holds, HeldBy, Said, WordOf
<1>5. Given' = Given
  BY WireKept DEF Given
<1>. QED
  BY <1>1, <1>3, <1>4, <1>5 DEF Promise!Expire, Overdue, Holds, Given, Said

(* Store.Get reads the map: with the right token and the session there,    *)
(* its caller holds the session from now on; otherwise nothing happened.   *)
LEMMA ArriveStep ==
  ASSUME RelayInv, NEW p \in Callers, Arrive(p)
  PROVE  (\E s \in SessionIds : Promise!Present(p, s)) \/ UNCHANGED Promise!vars
<1>. USE ActorsAssumption DEF RelayInv, RelayTypeOK, StoreTypeOK
<1>1. PICK s \in SessionIds, good \in BOOLEAN : GetRead(p, s, good)
  BY DEF Arrive
<1>2. /\ call' = [call EXCEPT ![p] = [id |-> s, tokenMatches |-> good,
                                      found |-> s \in sessions]]
      /\ UNCHANGED <<now, sessions, expiresAt, answer, wire>>
      /\ pc[p] = "idle"
  BY <1>1 DEF Arrive, GetRead, At, hubVars
<1>3. ~call[p].found /\ answer[p] = "none"
  BY <1>2 DEF HoldersInv, Callers
<1>4. Life' = Life /\ Overdue' = Overdue /\ Said' = Said
  BY <1>2 DEF Life, LifeOf, Overdue, Said, WordOf
<1>5. Given' = Given
  BY <1>2, WireKept DEF Given
<1>6. ASSUME NEW q \in Callers
      PROVE  HeldBy(q)' = IF q # p THEN HeldBy(q)
                          ELSE IF s \in sessions /\ good THEN s ELSE NoSession
  BY <1>2, <1>6 DEF HeldBy
<1>7. HeldBy(p) = NoSession /\ WordOf(p) = "nothing"
  BY <1>3 DEF HeldBy, WordOf
<1>8. CASE s \in sessions /\ good
  <2>1. LifeOf(s) = "live"
    BY <1>8 DEF LifeOf, SessionsInv
  <2>2. Holds' = [Holds EXCEPT ![p] = s] /\ Holds[p] = NoSession
    BY <1>6, <1>7, <1>8 DEF Holds
  <2>3. Said[p] = "nothing" /\ Life[s] = "live"
    BY <1>7, <2>1 DEF Said, Life
  <2>4. Promise!Present(p, s)
    BY ONLY <1>4, <1>5, <2>2, <2>3
    DEF Promise!Present, Life, Overdue, Holds, Given, Said
  <2>. QED BY <2>4
<1>9. CASE ~(s \in sessions /\ good)
  <2>1. Holds' = Holds
    BY <1>6, <1>7, <1>9 DEF Holds
  <2>. QED
    BY <1>4, <1>5, <2>1 DEF Promise!vars, Life, Overdue, Holds, Given, Said
<1>. QED BY <1>8, <1>9

(* The last frame of a delivery gives the photo.                           *)
LEMMA GiveStep ==
  ASSUME RelayInv, NEW u \in Uploads, WriteDone(u)
  PROVE  Promise!Give(u, target[u])
<1>. DEFINE w == target[u]
<1>1. /\ pc[u] = "writeDone" /\ pc[u] \in Writing /\ WriteLast(u)
      /\ UNCHANGED <<now, sessions, expiresAt, call, answer>>
  BY DEF WriteDone, At, Writing, storeVars
<1>2. w \in Conns
  BY <1>1 DEF RelayInv, ArgumentsInv
<1>3. /\ call[u].id \in SessionIds /\ call[u].found /\ call[u].tokenMatches
  BY <1>1 DEF RelayInv, ArgumentsInv, Callers
<1>4. call[w].id = call[u].id /\ call[w].found /\ call[w].tokenMatches
  BY <1>2 DEF RelayInv, RelayedInv, HoldersInv
<1>5. HeldBy(u) # NoSession /\ HeldBy(w) = HeldBy(u)
  BY <1>3, <1>4, ActorsAssumption DEF HeldBy
<1>6. WordOf(u) = "nothing" /\ \A v \in Conns \cup Pages : <<u, v>> \notin Given
  BY <1>1, NothingGiven DEF WordOf, Callers
<1>7. Given' = Given \cup {<<u, w>>}
  <2>1. ASSUME NEW v \in Uploads, NEW x \in Conns
        PROVE  Relayed(v, x)' <=> Relayed(v, x) \/ (v = u /\ x = w)
    BY <1>1, LastWriteRelays DEF RelayInv
  <2>2. ASSUME NEW d \in Uploads \X Conns
        PROVE  Relayed(d[1], d[2])' <=> Relayed(d[1], d[2]) \/ d = <<u, w>>
    <3>. HIDE DEF w
    <3>1. PICK v \in Uploads, x \in Conns : d = <<v, x>>
      BY <2>2
    <3>. QED BY <2>1, <3>1
  <2>. HIDE DEF w
  <2>. QED BY <1>2, <2>2 DEF Given
<1>8. Life' = Life /\ Overdue' = Overdue /\ Holds' = Holds /\ Said' = Said
  BY <1>1 DEF Life, LifeOf, Overdue, Holds, HeldBy, Said, WordOf
<1>. QED
  BY <1>2, <1>5, <1>6, <1>7, <1>8
  DEF Promise!Give, Life, Overdue, Holds, Given, Said, Callers
-----------------------------------------------------------------------------
(* The refusals, one by one.                                               *)
LEMMA Refusals ==
  ASSUME RelayInv, NEW p \in Callers,
         \/ Refuse(p) \/ DropExpired(p)
         \/ p \in Uploads /\ (BodyRejected(p) \/ FindNoReceiver(p) \/ DeliveryFails(p))
         \/ p \in Conns /\ UpgradeFails(p)
  PROVE  Promise!SayNo(p)
<1>. USE DEF At, Finish, storeVars, hubVars
<1>. {"link_expired_or_invalid", "bad_request", "file_too_large",
      "no_receiver", "internal", "upgrade_failed"} \cup SessionErrors \subseteq Errors
  BY DEF Errors, Answers, SessionErrors, Successes
<1>1. ASSUME NEW code \in Errors, answer' = [answer EXCEPT ![p] = code],
             pc[p] \in {"check", "expire", "body", "lookup", "upgrade"} \cup Writing,
             UNCHANGED <<now, sessions, expiresAt, call, wire>>
      PROVE  Promise!SayNo(p)
  <2>1. sessions' = sessions \ {} /\ {} \in SUBSET Overdue
    BY <1>1
  <2>. QED BY <1>1, <2>1, RefusalStep
<1>2. CASE Refuse(p)
  <2>1. PICK code \in Errors :
          answer' = [answer EXCEPT ![p] = code]
    BY <1>2 DEF Refuse, MapSessionError, SessionErrors
  <2>2. pc[p] = "check" /\ UNCHANGED <<now, sessions, expiresAt, call, wire>>
    BY <1>2 DEF Refuse
  <2>. QED BY <1>1, <2>1, <2>2
<1>3. CASE DropExpired(p)
  <2>1. PICK code \in Errors :
          answer' = [answer EXCEPT ![p] = code]
    BY <1>3 DEF DropExpired, MapSessionError, SessionErrors
  <2>2. /\ pc[p] = "expire" /\ sessions' = sessions \ {call[p].id}
        /\ UNCHANGED <<now, expiresAt, call, wire>>
    BY <1>3 DEF DropExpired, Delete, IdOf
  <2>3. {call[p].id} \subseteq Overdue
    BY <2>2 DEF RelayInv, SessionsInv, ArgumentsInv, Overdue, Expired
  <2>. QED BY <2>1, <2>2, <2>3, RefusalStep
<1>4. CASE p \in Uploads /\ BodyRejected(p)
  <2>1. PICK code \in {"bad_request", "file_too_large"} :
          answer' = [answer EXCEPT ![p] = code]
    BY <1>4 DEF BodyRejected
  <2>2. pc[p] = "body" /\ UNCHANGED <<now, sessions, expiresAt, call, wire>>
    BY <1>4 DEF BodyRejected
  <2>. QED BY <1>1, <2>1, <2>2
<1>5. CASE p \in Uploads /\ FindNoReceiver(p)
  <2>1. /\ answer' = [answer EXCEPT ![p] = "no_receiver"] /\ pc[p] = "lookup"
        /\ UNCHANGED <<now, sessions, expiresAt, call, wire>>
    BY <1>5 DEF FindNoReceiver, LookUp
  <2>. QED BY <1>1, <2>1
<1>6. CASE p \in Uploads /\ DeliveryFails(p)
  <2>1. /\ answer' = [answer EXCEPT ![p] = "internal"] /\ pc[p] \in Writing
        /\ UNCHANGED <<now, sessions, expiresAt, call, wire>>
    BY <1>6 DEF DeliveryFails, WriteFails
  <2>. QED BY <1>1, <2>1
<1>7. CASE p \in Conns /\ UpgradeFails(p)
  <2>1. /\ answer' = [answer EXCEPT ![p] = "upgrade_failed"] /\ pc[p] = "upgrade"
        /\ UNCHANGED <<now, sessions, expiresAt, call, wire>>
    BY <1>7 DEF UpgradeFails
  <2>. QED BY <1>1, <2>1
<1>. QED BY <1>2, <1>3, <1>4, <1>5, <1>6, <1>7

(* The page, the open socket, and the ends of an upload and of a cancel.   *)
LEMMA Successful ==
  ASSUME RelayInv, NEW p \in Callers,
         \/ p \in Pages /\ ServePage(p)
         \/ p \in Conns /\ Upgrade(p)
         \/ p \in Uploads \cup Cancels /\ DeleteSession(p)
  PROVE  Promise!SayOk(p)
<1>. USE ActorsAssumption
     DEF At, Finish, storeVars, hubVars, Successes, RelayInv, ArgumentsInv,
         HoldersInv
<1>1. CASE p \in Pages /\ ServePage(p)
  <2>1. /\ pc[p] = "check" /\ answer[p] = "none" /\ call[p].id \in SessionIds
        /\ call[p].found /\ call[p].tokenMatches /\ p \notin Uploads
        /\ answer' = [answer EXCEPT ![p] = "page"]
        /\ UNCHANGED <<now, sessions, expiresAt, call, wire>>
    BY <1>1 DEF ServePage, GetVerdict
  <2>2. sessions' = sessions \ {}
    BY <2>1
  <2>. QED BY <1>1, <2>1, <2>2, SuccessStep
<1>2. CASE p \in Conns /\ Upgrade(p)
  <2>1. /\ pc[p] = "upgrade" /\ answer[p] = "none" /\ call[p].id \in SessionIds
        /\ call[p].found /\ call[p].tokenMatches /\ p \notin Uploads
        /\ answer' = [answer EXCEPT ![p] = "switching_protocols"]
        /\ UNCHANGED <<now, sessions, expiresAt, call, wire>>
    BY <1>2 DEF Upgrade, Open
  <2>2. sessions' = sessions \ {}
    BY <2>1
  <2>. QED BY <1>2, <2>1, <2>2, SuccessStep
<1>3. CASE p \in Uploads \cup Cancels /\ DeleteSession(p)
  <2>1. /\ pc[p] = "deleteSession" /\ call[p].id \in SessionIds
        /\ call[p].found /\ call[p].tokenMatches /\ p \notin Conns \cup Pages
        /\ sessions' = sessions \ {call[p].id}
        /\ UNCHANGED <<now, expiresAt, call, wire>>
    BY <1>3 DEF DeleteSession, Delete, IdOf
  <2>2. answer[p] = "none"
    BY <2>1
  <2>3. PICK code \in Successes : answer' = [answer EXCEPT ![p] = code]
    BY <1>3 DEF DeleteSession
  <2>4. p \in Uploads => \E w \in Conns : Relayed(p, w)
    BY <2>1 DEF RelayedInv
  <2>. QED BY <2>1, <2>2, <2>3, <2>4, SuccessStep
<1>. QED BY <1>1, <1>2, <1>3

(* The steps that anybody sees.                                            *)
LEMMA SeenSteps ==
  ASSUME [Next]_vars
  PROVE  \/ UNCHANGED <<now, sessions, expiresAt, call, answer, wire>>
         \/ TimePasses \/ RunCleanup
         \/ \E s \in SessionIds : CreateSession(s)
         \/ \E p \in Callers : Arrive(p) \/ Refuse(p) \/ DropExpired(p)
         \/ \E u \in Uploads :
               \/ BodyRejected(u) \/ FindNoReceiver(u) \/ DeliveryFails(u)
               \/ WriteMeta(u) \/ WriteData(u) \/ WriteDone(u)
         \/ \E p \in Uploads \cup Cancels : DeleteSession(p)
         \/ \E w \in Conns : Upgrade(w) \/ UpgradeFails(w)
         \/ \E g \in Pages : ServePage(g)
  BY DEF Next, Underway, UploadSteps, CancelSteps, ConnSteps, PageSteps,
         GetSteps, UnregisterSteps, WriteSteps, Quiet, vars, storeVars, hubVars, Callers,
         FindExpired, Admitted, AdmitUpload, AdmitCancel, AdmitConn, BodyRead,
         FindReceiver, LookUp, StartDelivery, LockReceiver, UnregisterNone,
         UnregisterNothing, UnregisterLocks, LockToEvict, UnregisterCloses,
         UnregisterClosing, Register, RegisterFirst, RegisterLocks,
         RegisterReplaces, RegisterReplacing, ReadClosed, ReadGone, Break,
         ReadCancel, CloseConn, Close, PeerLeaves, PeerCancels

(* Every step is one of the promise, or invisible.                         *)
LEMMA PromiseStep ==
  RelayInv /\ [Next]_vars => [Promise!Next]_(Promise!vars)
<1>. SUFFICES ASSUME RelayInv, [Next]_vars PROVE [Promise!Next]_(Promise!vars)
  OBVIOUS
<1>. USE DEF Promise!Next
<1>1. Promise!Requests = Callers
  BY DEF Promise!Requests, Callers
<1>2. CASE UNCHANGED <<now, sessions, expiresAt, call, answer, wire>>
  BY <1>2, Unseen, WireKept
<1>3. CASE TimePasses
  BY <1>3, ClockStep
<1>4. CASE RunCleanup
  BY <1>4, CleanupStep
<1>5. ASSUME NEW s \in SessionIds, CreateSession(s)
      PROVE  Promise!Next
  BY <1>5, CreateStep
<1>6. ASSUME NEW p \in Callers, Arrive(p)
      PROVE  [Promise!Next]_(Promise!vars)
  BY <1>1, <1>6, ArriveStep
<1>7. ASSUME NEW p \in Callers, Promise!SayOk(p) \/ Promise!SayNo(p)
      PROVE  Promise!Next
  BY <1>1, <1>7
<1>8. ASSUME NEW u \in Uploads, WriteMeta(u) \/ WriteData(u)
      PROVE  UNCHANGED Promise!vars
  BY <1>8, Unseen, WriteRelaysNothing
  DEF WriteMeta, WriteData, At, Writing, storeVars, RelayInv
<1>9. ASSUME NEW u \in Uploads, WriteDone(u) PROVE Promise!Next
  <2>1. target[u] \in Conns \cup Pages
    BY <1>9 DEF WriteDone, At, Writing, RelayInv, ArgumentsInv
  <2>. QED BY <1>9, <2>1, GiveStep
<1>10. Uploads \cup Cancels \cup Conns \cup Pages = Callers
  BY DEF Callers
<1>. QED
  BY <1>2, <1>3, <1>4, <1>5, <1>6, <1>7, <1>8, <1>9, <1>10, SeenSteps, Refusals,
     Successful
-----------------------------------------------------------------------------
(* The handlers of server/internal/api, over the store and the hub, keep   *)
(* the promise of Pairing: a session is drawn, lives and ends once; who    *)
(* presents its token while it lives holds it; a photo is given whole, and *)
(* once, to a holder of its session; and every answer is true.             *)
THEOREM RelayKeepsPromise == Spec => KeepsPromise
<1>. QED
  BY PromiseInit, PromiseStep, RelayInvariance, PTL
  DEF Spec, KeepsPromise, Promise!Spec
=============================================================================
