---------------------------- MODULE RelayProofs ----------------------------
(***************************************************************************)
(* Proofs about the relay, for any number of sessions, requests and        *)
(* connections and any clock.  Each part of RelayInv has a lemma that says *)
(* every step preserves it, given the parts before it; RelayInvariance     *)
(* joins them, and the properties follow.                                  *)
(***************************************************************************)
EXTENDS RelayInvariants, TLAPS

(* The initial states satisfy every part of the invariant: no request has  *)
(* arrived and no session exists.                                          *)
LEMMA InitInv == Init => RelayInv
<1>. SUFFICES ASSUME Init PROVE RelayInv
  OBVIOUS
<1>. USE ActorsAssumption, ClockAssumption
       DEF Init, StoreInit, HubInit
<1>1. RelayTypeOK
  BY DEF RelayTypeOK, StoreTypeOK, HubTypeOK, Callers, Call,
         UploadPCs, CancelPCs, ConnPCs, PagePCs, Answers
<1>2. ArgumentsInv /\ LocksInv /\ SessionsInv
  BY DEF ArgumentsInv, LocksInv, SessionsInv, AnsweredSessionIsGone, Writing,
         Callers
<1>3. RegistryInv
  BY DEF RegistryInv, RegistryHoldsOpenReceivers, Callers
<1>4. FramesInv /\ RelayedInv /\ HoldersInv
  BY DEF FramesInv, FramesWhole, RelayedInv, HoldersInv, Touched, Relayed, Has,
         Callers
<1>. QED BY <1>1, <1>2, <1>3, <1>4 DEF RelayInv

(* A write to the receiver that was looked up appends a frame to its wire. *)
LEMMA WriteType ==
  ASSUME RelayTypeOK, ArgumentsInv, NEW u \in Uploads, pc[u] \in Writing,
         NEW kind \in {"meta", "data", "done"}, Write(u, kind)
  PROVE  wire' \in [Conns -> Seq(Frame)]
<1>1. target[u] \in Conns /\ [kind |-> kind, upload |-> u] \in Frame
  BY SMTT(30) DEF ArgumentsInv, Frame
<1>. QED BY <1>1 DEF Write, RelayTypeOK, HubTypeOK

(* Type correctness: no handler leaves the states it may be in, and no     *)
(* lock, registry entry or frame ever refers to something else than a      *)
(* request of the right kind.                                              *)
LEMMA TypeStep ==
  ASSUME RelayTypeOK, ArgumentsInv, [Next]_vars
  PROVE  RelayTypeOK'
<1>. USE ActorsAssumption, ClockAssumption
       DEF RelayTypeOK, StoreTypeOK, HubTypeOK, storeVars, hubVars, At, GoTo,
           Finish, IdOf, Callers, UploadPCs, CancelPCs, ConnPCs, PagePCs
<1>1. CASE UNCHANGED vars
  BY <1>1 DEF vars, Call, Frame
<1>2. CASE TimePasses
  BY <1>2 DEF TimePasses, Tick
<1>3. ASSUME NEW s \in SessionIds, CreateSession(s) PROVE RelayTypeOK'
  BY <1>3 DEF CreateSession, Create, NewDeadline
<1>4. CASE RunCleanup
  BY <1>4 DEF RunCleanup, Cleanup
<1>5. ASSUME NEW p \in Callers, Arrive(p) PROVE RelayTypeOK'
  BY <1>5 DEF Arrive, GetRead, Call
<1>6. ASSUME NEW p \in Callers, Refuse(p) PROVE RelayTypeOK'
  BY <1>6 DEF Refuse, MapSessionError, GetVerdict, Answers, SessionErrors
<1>7. ASSUME NEW p \in Callers, FindExpired(p) PROVE RelayTypeOK'
  BY <1>7 DEF FindExpired
<1>8. ASSUME NEW p \in Callers, DropExpired(p) PROVE RelayTypeOK'
  BY <1>8 DEF DropExpired, Delete, MapSessionError, Answers, SessionErrors
<1>9. ASSUME NEW u \in Uploads, AdmitUpload(u) PROVE RelayTypeOK'
  BY <1>9 DEF AdmitUpload, Admitted
<1>10. ASSUME NEW c \in Cancels, AdmitCancel(c) PROVE RelayTypeOK'
  BY <1>10 DEF AdmitCancel, Admitted
<1>11. ASSUME NEW w \in Conns, AdmitConn(w) PROVE RelayTypeOK'
  BY <1>11 DEF AdmitConn, Admitted
<1>12. ASSUME NEW g \in Pages, ServePage(g) PROVE RelayTypeOK'
  BY <1>12 DEF ServePage, Answers
<1>13. ASSUME NEW u \in Uploads, BodyRead(u) PROVE RelayTypeOK'
  BY <1>13 DEF BodyRead
<1>14. ASSUME NEW u \in Uploads, BodyRejected(u) PROVE RelayTypeOK'
  BY <1>14 DEF BodyRejected, Answers
<1>15. ASSUME NEW u \in Uploads, FindReceiver(u) PROVE RelayTypeOK'
  <2>1. receivers[call[u].id] \in Conns \cup {NoConn}
    BY <1>15 DEF FindReceiver, ArgumentsInv
  <2>. QED BY <1>15, <2>1 DEF FindReceiver, LookUp
<1>16. ASSUME NEW u \in Uploads, FindNoReceiver(u) PROVE RelayTypeOK'
  BY <1>16 DEF FindNoReceiver, LookUp, Answers
<1>17. ASSUME NEW u \in Uploads, StartDelivery(u) PROVE RelayTypeOK'
  BY <1>17 DEF StartDelivery, LockReceiver
<1>18. ASSUME NEW u \in Uploads, WriteMeta(u) PROVE RelayTypeOK'
  <2>1. wire' \in [Conns -> Seq(Frame)]
    BY <1>18, WriteType DEF WriteMeta, Writing
  <2>. QED BY <1>18, <2>1 DEF WriteMeta, Write
<1>19. ASSUME NEW u \in Uploads, WriteData(u) PROVE RelayTypeOK'
  <2>1. wire' \in [Conns -> Seq(Frame)]
    BY <1>19, WriteType DEF WriteData, Writing
  <2>. QED BY <1>19, <2>1 DEF WriteData, Write
<1>20. ASSUME NEW u \in Uploads, WriteDone(u) PROVE RelayTypeOK'
  <2>1. target[u] \in Conns /\ [kind |-> "done", upload |-> u] \in Frame
    BY <1>20 DEF WriteDone, ArgumentsInv, Writing, Frame
  <2>2. /\ wire' \in [Conns -> Seq(Frame)]
        /\ recvLock' \in [Conns -> Uploads \cup {Nobody}]
    BY <1>20, <2>1 DEF WriteDone, WriteLast
  <2>. QED BY <1>20, <2>2 DEF WriteDone, WriteLast
<1>21. ASSUME NEW u \in Uploads, DeliveryFails(u) PROVE RelayTypeOK'
  <2>1. /\ recvLock' \in [Conns -> Uploads \cup {Nobody}]
        /\ broken' \in [Conns -> BOOLEAN]
    BY <1>21 DEF DeliveryFails, WriteFails
  <2>. QED BY <1>21, <2>1 DEF DeliveryFails, WriteFails, Writing, Answers
<1>22. ASSUME NEW p \in Uploads \cup Cancels \cup Conns, UnregisterNone(p)
             PROVE RelayTypeOK'
  BY <1>22 DEF UnregisterNone, UnregisterNothing, AfterUnregister
<1>23. ASSUME NEW p \in Uploads \cup Cancels \cup Conns, UnregisterLocks(p)
             PROVE RelayTypeOK'
  BY <1>23 DEF UnregisterLocks, LockToEvict
<1>24. ASSUME NEW p \in Uploads \cup Cancels \cup Conns, UnregisterCloses(p)
             PROVE RelayTypeOK'
  <2>1. sock' \in [Conns -> {"none", "open", "closed"}]
    BY <1>24 DEF UnregisterCloses, UnregisterClosing
  <2>2. receivers' \in [SessionIds -> Conns \cup {NoConn}]
    BY <1>24 DEF UnregisterCloses, UnregisterClosing
  <2>. QED
    BY <1>24, <2>1, <2>2
    DEF UnregisterCloses, UnregisterClosing, AfterUnregister
<1>25. ASSUME NEW p \in Uploads \cup Cancels, DeleteSession(p)
             PROVE RelayTypeOK'
  BY <1>25 DEF DeleteSession, Delete, Answers
<1>26. ASSUME NEW w \in Conns, Upgrade(w) PROVE RelayTypeOK'
  BY <1>26 DEF Upgrade, Open, Answers
<1>27. ASSUME NEW w \in Conns, UpgradeFails(w) PROVE RelayTypeOK'
  BY <1>27 DEF UpgradeFails, Answers
<1>28. ASSUME NEW w \in Conns, Register(w) PROVE RelayTypeOK'
  BY <1>28 DEF Register, RegisterFirst
<1>29. ASSUME NEW w \in Conns, RegisterLocks(w) PROVE RelayTypeOK'
  BY <1>29 DEF RegisterLocks, LockToEvict
<1>30. ASSUME NEW w \in Conns, RegisterReplaces(w) PROVE RelayTypeOK'
  BY <1>30 DEF RegisterReplaces, RegisterReplacing
<1>31. ASSUME NEW w \in Conns, ReadClosed(w) PROVE RelayTypeOK'
  BY <1>31 DEF ReadClosed
<1>32. ASSUME NEW w \in Conns, ReadGone(w) PROVE RelayTypeOK'
  BY <1>32 DEF ReadGone, Break
<1>33. ASSUME NEW w \in Conns, ReadCancel(w) PROVE RelayTypeOK'
  BY <1>33 DEF ReadCancel
<1>34. ASSUME NEW w \in Conns, CloseConn(w) PROVE RelayTypeOK'
  BY <1>34 DEF CloseConn, Close
<1>35. ASSUME NEW w \in Conns, PeerLeaves(w) PROVE RelayTypeOK'
  BY <1>35 DEF PeerLeaves
<1>36. ASSUME NEW w \in Conns, PeerCancels(w) PROVE RelayTypeOK'
  BY <1>36 DEF PeerCancels
<1>. QED
  BY [Next]_vars,
     <1>1, <1>2, <1>3, <1>4, <1>5, <1>6, <1>7, <1>8, <1>9, <1>10, <1>11,
     <1>12, <1>13, <1>14, <1>15, <1>16, <1>17, <1>18, <1>19, <1>20,
     <1>21, <1>22, <1>23, <1>24, <1>25, <1>26, <1>27, <1>28, <1>29,
     <1>30, <1>31, <1>32, <1>33, <1>34, <1>35, <1>36
  DEF Next, Underway, UploadSteps, CancelSteps, ConnSteps, PageSteps,
      GetSteps, UnregisterSteps, WriteSteps, Quiet

(* A request keeps the arguments it was admitted with, and the receiver it *)
(* looked up.                                                              *)
LEMMA ArgumentsStep ==
  ASSUME RelayTypeOK, ArgumentsInv, [Next]_vars
  PROVE  ArgumentsInv'
<1>. USE ActorsAssumption
       DEF RelayTypeOK, StoreTypeOK, HubTypeOK, storeVars, hubVars, At, GoTo,
           Finish, IdOf, Callers,
           ArgumentsInv, Writing
<1>1. CASE UNCHANGED vars
  BY <1>1 DEF vars
<1>2. CASE TimePasses
  BY <1>2 DEF TimePasses, Tick
<1>3. ASSUME NEW s \in SessionIds, CreateSession(s) PROVE ArgumentsInv'
  BY <1>3 DEF CreateSession, Create, NewDeadline
<1>4. CASE RunCleanup
  BY <1>4 DEF RunCleanup, Cleanup
<1>5. ASSUME NEW p \in Callers, Arrive(p) PROVE ArgumentsInv'
  BY <1>5 DEF Arrive, GetRead
<1>6. ASSUME NEW p \in Callers, Refuse(p) PROVE ArgumentsInv'
  BY <1>6 DEF Refuse
<1>7. ASSUME NEW p \in Callers, FindExpired(p) PROVE ArgumentsInv'
  BY <1>7 DEF FindExpired
<1>8. ASSUME NEW p \in Callers, DropExpired(p) PROVE ArgumentsInv'
  BY <1>8 DEF DropExpired, Delete
<1>9. ASSUME NEW u \in Uploads, AdmitUpload(u) PROVE ArgumentsInv'
  BY <1>9 DEF AdmitUpload, Admitted, GetVerdict
<1>10. ASSUME NEW c \in Cancels, AdmitCancel(c) PROVE ArgumentsInv'
  BY <1>10 DEF AdmitCancel, Admitted, GetVerdict
<1>11. ASSUME NEW w \in Conns, AdmitConn(w) PROVE ArgumentsInv'
  BY <1>11 DEF AdmitConn, Admitted, GetVerdict
<1>12. ASSUME NEW g \in Pages, ServePage(g) PROVE ArgumentsInv'
  BY <1>12 DEF ServePage
<1>13. ASSUME NEW u \in Uploads, BodyRead(u) PROVE ArgumentsInv'
  BY <1>13 DEF BodyRead
<1>14. ASSUME NEW u \in Uploads, BodyRejected(u) PROVE ArgumentsInv'
  BY <1>14 DEF BodyRejected
<1>15. ASSUME NEW u \in Uploads, FindReceiver(u) PROVE ArgumentsInv'
  BY <1>15 DEF FindReceiver, LookUp
<1>16. ASSUME NEW u \in Uploads, FindNoReceiver(u) PROVE ArgumentsInv'
  BY <1>16 DEF FindNoReceiver, LookUp
<1>17. ASSUME NEW u \in Uploads, StartDelivery(u) PROVE ArgumentsInv'
  BY <1>17 DEF StartDelivery, LockReceiver
<1>18. ASSUME NEW u \in Uploads, WriteMeta(u) PROVE ArgumentsInv'
  BY <1>18 DEF WriteMeta, Write
<1>19. ASSUME NEW u \in Uploads, WriteData(u) PROVE ArgumentsInv'
  BY <1>19 DEF WriteData, Write
<1>20. ASSUME NEW u \in Uploads, WriteDone(u) PROVE ArgumentsInv'
  BY <1>20 DEF WriteDone, WriteLast
<1>21. ASSUME NEW u \in Uploads, DeliveryFails(u) PROVE ArgumentsInv'
  BY <1>21 DEF DeliveryFails, WriteFails
<1>22. ASSUME NEW p \in Uploads \cup Cancels \cup Conns, UnregisterNone(p)
             PROVE ArgumentsInv'
  BY <1>22 DEF UnregisterNone, UnregisterNothing, AfterUnregister
<1>23. ASSUME NEW p \in Uploads \cup Cancels \cup Conns, UnregisterLocks(p)
             PROVE ArgumentsInv'
  BY <1>23 DEF UnregisterLocks, LockToEvict
<1>24. ASSUME NEW p \in Uploads \cup Cancels \cup Conns, UnregisterCloses(p)
             PROVE ArgumentsInv'
  BY <1>24 DEF UnregisterCloses, UnregisterClosing, AfterUnregister
<1>25. ASSUME NEW p \in Uploads \cup Cancels, DeleteSession(p)
             PROVE ArgumentsInv'
  BY <1>25 DEF DeleteSession, Delete
<1>26. ASSUME NEW w \in Conns, Upgrade(w) PROVE ArgumentsInv'
  BY <1>26 DEF Upgrade, Open
<1>27. ASSUME NEW w \in Conns, UpgradeFails(w) PROVE ArgumentsInv'
  BY <1>27 DEF UpgradeFails
<1>28. ASSUME NEW w \in Conns, Register(w) PROVE ArgumentsInv'
  BY <1>28 DEF Register, RegisterFirst
<1>29. ASSUME NEW w \in Conns, RegisterLocks(w) PROVE ArgumentsInv'
  BY <1>29 DEF RegisterLocks, LockToEvict
<1>30. ASSUME NEW w \in Conns, RegisterReplaces(w) PROVE ArgumentsInv'
  BY <1>30 DEF RegisterReplaces, RegisterReplacing
<1>31. ASSUME NEW w \in Conns, ReadClosed(w) PROVE ArgumentsInv'
  BY <1>31 DEF ReadClosed
<1>32. ASSUME NEW w \in Conns, ReadGone(w) PROVE ArgumentsInv'
  BY <1>32 DEF ReadGone, Break
<1>33. ASSUME NEW w \in Conns, ReadCancel(w) PROVE ArgumentsInv'
  BY <1>33 DEF ReadCancel
<1>34. ASSUME NEW w \in Conns, CloseConn(w) PROVE ArgumentsInv'
  BY <1>34 DEF CloseConn, Close
<1>35. ASSUME NEW w \in Conns, PeerLeaves(w) PROVE ArgumentsInv'
  BY <1>35 DEF PeerLeaves
<1>36. ASSUME NEW w \in Conns, PeerCancels(w) PROVE ArgumentsInv'
  BY <1>36 DEF PeerCancels
<1>. QED
  BY [Next]_vars,
     <1>1, <1>2, <1>3, <1>4, <1>5, <1>6, <1>7, <1>8, <1>9, <1>10, <1>11,
     <1>12, <1>13, <1>14, <1>15, <1>16, <1>17, <1>18, <1>19, <1>20,
     <1>21, <1>22, <1>23, <1>24, <1>25, <1>26, <1>27, <1>28, <1>29,
     <1>30, <1>31, <1>32, <1>33, <1>34, <1>35, <1>36
  DEF Next, Underway, UploadSteps, CancelSteps, ConnSteps, PageSteps,
      GetSteps, UnregisterSteps, WriteSteps, Quiet

(* A mutex is held exactly between its lock and its unlock by one request. *)
LEMMA LocksStep ==
  ASSUME RelayTypeOK, ArgumentsInv, LocksInv, [Next]_vars
  PROVE  LocksInv'
<1>. USE ActorsAssumption
       DEF RelayTypeOK, StoreTypeOK, HubTypeOK, storeVars, hubVars, At, GoTo,
           Finish, IdOf, Callers,
           ArgumentsInv, LocksInv, Writing
<1>1. CASE UNCHANGED vars
  BY <1>1 DEF vars
<1>2. CASE TimePasses
  BY <1>2 DEF TimePasses, Tick
<1>3. ASSUME NEW s \in SessionIds, CreateSession(s) PROVE LocksInv'
  BY <1>3 DEF CreateSession, Create, NewDeadline
<1>4. CASE RunCleanup
  BY <1>4 DEF RunCleanup, Cleanup
<1>5. ASSUME NEW p \in Callers, Arrive(p) PROVE LocksInv'
  BY <1>5 DEF Arrive, GetRead
<1>6. ASSUME NEW p \in Callers, Refuse(p) PROVE LocksInv'
  BY <1>6 DEF Refuse
<1>7. ASSUME NEW p \in Callers, FindExpired(p) PROVE LocksInv'
  BY <1>7 DEF FindExpired
<1>8. ASSUME NEW p \in Callers, DropExpired(p) PROVE LocksInv'
  BY <1>8 DEF DropExpired, Delete
<1>9. ASSUME NEW u \in Uploads, AdmitUpload(u) PROVE LocksInv'
  BY <1>9 DEF AdmitUpload, Admitted
<1>10. ASSUME NEW c \in Cancels, AdmitCancel(c) PROVE LocksInv'
  <2>1. /\ pc[c] = "check" /\ pc' = [pc EXCEPT ![c] = "unregister"]
        /\ UNCHANGED <<hubLock, recvLock, target>>
    BY <1>10 DEF AdmitCancel, Admitted
  <2>2. \A q \in Callers : q # c => pc'[q] = pc[q]
    BY <2>1
  <2>3. pc'[c] = "unregister" /\ c \notin Uploads
    BY <2>1
  <2>4. \A u \in Uploads : u \in Callers /\ pc'[u] = pc[u]
    BY <2>2, <2>3
  <2>5. \A u \in Uploads, w \in Conns :
          recvLock'[w] = u <=> pc'[u] \in Writing /\ target'[u] = w
    BY <2>1, <2>4
  <2>6. \A p \in Callers : hubLock' = p <=> pc'[p] \in {"replacing", "closing"}
    BY <2>1, <2>2, <2>3
  <2>. QED BY <2>5, <2>6
<1>11. ASSUME NEW w \in Conns, AdmitConn(w) PROVE LocksInv'
  BY <1>11 DEF AdmitConn, Admitted
<1>12. ASSUME NEW g \in Pages, ServePage(g) PROVE LocksInv'
  BY <1>12 DEF ServePage
<1>13. ASSUME NEW u \in Uploads, BodyRead(u) PROVE LocksInv'
  BY <1>13 DEF BodyRead
<1>14. ASSUME NEW u \in Uploads, BodyRejected(u) PROVE LocksInv'
  BY <1>14 DEF BodyRejected
<1>15. ASSUME NEW u \in Uploads, FindReceiver(u) PROVE LocksInv'
  BY <1>15 DEF FindReceiver, LookUp
<1>16. ASSUME NEW u \in Uploads, FindNoReceiver(u) PROVE LocksInv'
  BY <1>16 DEF FindNoReceiver, LookUp
<1>17. ASSUME NEW u \in Uploads, StartDelivery(u) PROVE LocksInv'
  BY <1>17 DEF StartDelivery, LockReceiver
<1>18. ASSUME NEW u \in Uploads, WriteMeta(u) PROVE LocksInv'
  BY <1>18 DEF WriteMeta, Write
<1>19. ASSUME NEW u \in Uploads, WriteData(u) PROVE LocksInv'
  BY <1>19 DEF WriteData, Write
<1>20. ASSUME NEW u \in Uploads, WriteDone(u) PROVE LocksInv'
  BY <1>20 DEF WriteDone, WriteLast
<1>21. ASSUME NEW u \in Uploads, DeliveryFails(u) PROVE LocksInv'
  BY <1>21 DEF DeliveryFails, WriteFails
<1>22. ASSUME NEW p \in Uploads \cup Cancels \cup Conns, UnregisterNone(p)
             PROVE LocksInv'
  BY <1>22 DEF UnregisterNone, UnregisterNothing, AfterUnregister
<1>23. ASSUME NEW p \in Uploads \cup Cancels \cup Conns, UnregisterLocks(p)
             PROVE LocksInv'
  BY <1>23 DEF UnregisterLocks, LockToEvict
<1>24. ASSUME NEW p \in Uploads \cup Cancels \cup Conns, UnregisterCloses(p)
             PROVE LocksInv'
  BY <1>24 DEF UnregisterCloses, UnregisterClosing, AfterUnregister
<1>25. ASSUME NEW p \in Uploads \cup Cancels, DeleteSession(p)
             PROVE LocksInv'
  BY ZenonT(60), <1>25 DEF DeleteSession, Delete
<1>26. ASSUME NEW w \in Conns, Upgrade(w) PROVE LocksInv'
  BY ZenonT(60), <1>26 DEF Upgrade, Open
<1>27. ASSUME NEW w \in Conns, UpgradeFails(w) PROVE LocksInv'
  BY <1>27 DEF UpgradeFails
<1>28. ASSUME NEW w \in Conns, Register(w) PROVE LocksInv'
  BY <1>28 DEF Register, RegisterFirst
<1>29. ASSUME NEW w \in Conns, RegisterLocks(w) PROVE LocksInv'
  BY <1>29 DEF RegisterLocks, LockToEvict
<1>30. ASSUME NEW w \in Conns, RegisterReplaces(w) PROVE LocksInv'
  BY <1>30 DEF RegisterReplaces, RegisterReplacing
<1>31. ASSUME NEW w \in Conns, ReadClosed(w) PROVE LocksInv'
  BY <1>31 DEF ReadClosed
<1>32. ASSUME NEW w \in Conns, ReadGone(w) PROVE LocksInv'
  BY <1>32 DEF ReadGone, Break
<1>33. ASSUME NEW w \in Conns, ReadCancel(w) PROVE LocksInv'
  BY <1>33 DEF ReadCancel
<1>34. ASSUME NEW w \in Conns, CloseConn(w) PROVE LocksInv'
  BY SMTT(30), <1>34 DEF CloseConn, Close
<1>35. ASSUME NEW w \in Conns, PeerLeaves(w) PROVE LocksInv'
  BY <1>35 DEF PeerLeaves
<1>36. ASSUME NEW w \in Conns, PeerCancels(w) PROVE LocksInv'
  BY <1>36 DEF PeerCancels
<1>. QED
  BY [Next]_vars,
     <1>1, <1>2, <1>3, <1>4, <1>5, <1>6, <1>7, <1>8, <1>9, <1>10, <1>11,
     <1>12, <1>13, <1>14, <1>15, <1>16, <1>17, <1>18, <1>19, <1>20,
     <1>21, <1>22, <1>23, <1>24, <1>25, <1>26, <1>27, <1>28, <1>29,
     <1>30, <1>31, <1>32, <1>33, <1>34, <1>35, <1>36
  DEF Next, Underway, UploadSteps, CancelSteps, ConnSteps, PageSteps,
      GetSteps, UnregisterSteps, WriteSteps, Quiet

(* Register and Unregister keep the registry and the open sockets the      *)
(* same, whoever they evict; the read loop's own close comes after.        *)
LEMMA RegistryStep ==
  ASSUME RelayTypeOK, ArgumentsInv, LocksInv, RegistryInv, [Next]_vars
  PROVE  RegistryInv'
<1>. USE ActorsAssumption
       DEF RelayTypeOK, StoreTypeOK, HubTypeOK, storeVars, hubVars, At, GoTo,
           Finish, IdOf, Callers,
           ArgumentsInv, LocksInv, RegistryInv,
           RegistryHoldsOpenReceivers, Writing
<1>1. CASE UNCHANGED vars
  BY <1>1 DEF vars
<1>2. CASE TimePasses
  BY <1>2 DEF TimePasses, Tick
<1>3. ASSUME NEW s \in SessionIds, CreateSession(s) PROVE RegistryInv'
  BY <1>3 DEF CreateSession, Create, NewDeadline
<1>4. CASE RunCleanup
  BY <1>4 DEF RunCleanup, Cleanup
<1>5. ASSUME NEW p \in Callers, Arrive(p) PROVE RegistryInv'
  BY <1>5 DEF Arrive, GetRead
<1>6. ASSUME NEW p \in Callers, Refuse(p) PROVE RegistryInv'
  BY <1>6 DEF Refuse
<1>7. ASSUME NEW p \in Callers, FindExpired(p) PROVE RegistryInv'
  BY <1>7 DEF FindExpired
<1>8. ASSUME NEW p \in Callers, DropExpired(p) PROVE RegistryInv'
  BY <1>8 DEF DropExpired, Delete
<1>9. ASSUME NEW u \in Uploads, AdmitUpload(u) PROVE RegistryInv'
  BY <1>9 DEF AdmitUpload, Admitted
<1>10. ASSUME NEW c \in Cancels, AdmitCancel(c) PROVE RegistryInv'
  BY <1>10 DEF AdmitCancel, Admitted
<1>11. ASSUME NEW w \in Conns, AdmitConn(w) PROVE RegistryInv'
  BY <1>11 DEF AdmitConn, Admitted
<1>12. ASSUME NEW g \in Pages, ServePage(g) PROVE RegistryInv'
  BY <1>12 DEF ServePage
<1>13. ASSUME NEW u \in Uploads, BodyRead(u) PROVE RegistryInv'
  BY <1>13 DEF BodyRead
<1>14. ASSUME NEW u \in Uploads, BodyRejected(u) PROVE RegistryInv'
  BY <1>14 DEF BodyRejected
<1>15. ASSUME NEW u \in Uploads, FindReceiver(u) PROVE RegistryInv'
  BY <1>15 DEF FindReceiver, LookUp
<1>16. ASSUME NEW u \in Uploads, FindNoReceiver(u) PROVE RegistryInv'
  BY <1>16 DEF FindNoReceiver, LookUp
<1>17. ASSUME NEW u \in Uploads, StartDelivery(u) PROVE RegistryInv'
  BY <1>17 DEF StartDelivery, LockReceiver
<1>18. ASSUME NEW u \in Uploads, WriteMeta(u) PROVE RegistryInv'
  BY <1>18 DEF WriteMeta, Write
<1>19. ASSUME NEW u \in Uploads, WriteData(u) PROVE RegistryInv'
  BY <1>19 DEF WriteData, Write
<1>20. ASSUME NEW u \in Uploads, WriteDone(u) PROVE RegistryInv'
  BY <1>20 DEF WriteDone, WriteLast
<1>21. ASSUME NEW u \in Uploads, DeliveryFails(u) PROVE RegistryInv'
  BY <1>21 DEF DeliveryFails, WriteFails
<1>22. ASSUME NEW p \in Uploads \cup Cancels \cup Conns, UnregisterNone(p)
             PROVE RegistryInv'
  BY <1>22 DEF UnregisterNone, UnregisterNothing, AfterUnregister
<1>23. ASSUME NEW p \in Uploads \cup Cancels \cup Conns, UnregisterLocks(p)
             PROVE RegistryInv'
  BY <1>23 DEF UnregisterLocks, LockToEvict
<1>24. ASSUME NEW p \in Uploads \cup Cancels \cup Conns, UnregisterCloses(p)
             PROVE RegistryInv'
  <2>1. PICK s \in SessionIds, v \in Conns :
          call[p].id = s /\ receivers[s] = v /\ hubLock = p
    BY <1>24 DEF UnregisterCloses, UnregisterClosing
  <2>2. /\ pc[p] = "closing" /\ pc' = [pc EXCEPT ![p] = AfterUnregister(p)]
        /\ sock' = [sock EXCEPT ![v] = "closed"]
        /\ receivers' = [receivers EXCEPT ![s] = NoConn]
        /\ UNCHANGED call
    BY <1>24, <2>1 DEF UnregisterCloses, UnregisterClosing
  <2>3. AfterUnregister(p) \in {"closeConn", "deleteSession"}
    BY DEF AfterUnregister
  <2>4. /\ sock[v] = "open" /\ call[v].id = s
        /\ pc[v] \in {"reading", "unregister", "closing"}
    BY <2>1
  <2>5. \A q \in Callers : q # p => pc'[q] = pc[q] /\ pc[q] \notin {"replacing", "closing"}
    BY <2>1, <2>2
  <2>6. pc'[p] \in {"closeConn", "deleteSession"}
    BY <2>2, <2>3
  <2>7. \A w \in Conns : w # v => sock'[w] = sock[w]
    BY <2>2
  <2>8. \A t \in SessionIds : t # s => receivers'[t] = receivers[t]
    BY <2>2
  <2>9. sock'[v] = "closed" /\ receivers'[s] = NoConn
    BY <2>2
  <2>10. ASSUME NEW t \in SessionIds, NEW x \in Conns, receivers'[t] = x
         PROVE  /\ sock'[x] = "open" /\ call'[x].id = t /\ call'[x].tokenMatches
                /\ pc'[x] \in {"reading", "unregister", "closing"}
    <3>1. t # s /\ receivers[t] = x
      BY <2>8, <2>9, <2>10
    <3>2. x # v /\ x # p
      BY <2>1, <2>4, <3>1
    <3>. QED BY <2>2, <2>5, <2>7, <3>1, <3>2
  <2>11. ASSUME NEW x \in Conns, sock'[x] = "open",
                pc'[x] \notin {"register", "replacing"}
         PROVE  receivers'[call'[x].id] = x
    <3>1. x # v /\ sock[x] = "open" /\ pc[x] \notin {"register", "replacing"}
      BY <2>5, <2>6, <2>7, <2>9, <2>2, <2>11
    <3>2. receivers[call[x].id] = x /\ call[x].id \in SessionIds
      BY <3>1
    <3>. QED BY <2>1, <2>2, <2>8, <3>1, <3>2
  <2>. QED BY <2>2, <2>4, <2>5, <2>6, <2>7, <2>10, <2>11
<1>25. ASSUME NEW p \in Uploads \cup Cancels, DeleteSession(p)
             PROVE RegistryInv'
  BY <1>25 DEF DeleteSession, Delete
<1>26. ASSUME NEW w \in Conns, Upgrade(w) PROVE RegistryInv'
  <2>1. /\ sock[w] = "none" /\ call[w].tokenMatches
        /\ pc' = [pc EXCEPT ![w] = "register"]
        /\ sock' = [sock EXCEPT ![w] = "open"]
        /\ UNCHANGED <<receivers, call>>
    BY <1>26 DEF Upgrade, Open
  <2>. QED BY <2>1
<1>27. ASSUME NEW w \in Conns, UpgradeFails(w) PROVE RegistryInv'
  BY <1>27 DEF UpgradeFails
<1>28. ASSUME NEW w \in Conns, Register(w) PROVE RegistryInv'
  BY <1>28 DEF Register, RegisterFirst
<1>29. ASSUME NEW w \in Conns, RegisterLocks(w) PROVE RegistryInv'
  BY <1>29 DEF RegisterLocks, LockToEvict
<1>30. ASSUME NEW w \in Conns, RegisterReplaces(w) PROVE RegistryInv'
  <2>1. PICK s \in SessionIds, v \in Conns :
          call[w].id = s /\ receivers[s] = v /\ hubLock = w
    BY <1>30 DEF RegisterReplaces, RegisterReplacing
  <2>2. /\ pc[w] = "replacing" /\ pc' = [pc EXCEPT ![w] = "reading"]
        /\ sock' = [sock EXCEPT ![v] = "closed"]
        /\ receivers' = [receivers EXCEPT ![s] = w]
        /\ UNCHANGED call
    BY <1>30, <2>1 DEF RegisterReplaces, RegisterReplacing
  <2>3. /\ sock[v] = "open" /\ call[v].id = s /\ v # w
        /\ pc[v] \in {"reading", "unregister", "closing"}
    BY <2>1, <2>2
  <2>4. \A q \in Callers : q # w => pc'[q] = pc[q] /\ pc[q] \notin {"replacing", "closing"}
    BY <2>1, <2>2
  <2>5. \A x \in Conns : x # v => sock'[x] = sock[x]
    BY <2>2
  <2>6. \A t \in SessionIds : t # s => receivers'[t] = receivers[t]
    BY <2>2
  <2>7. sock'[v] = "closed" /\ receivers'[s] = w /\ pc'[w] = "reading"
    BY <2>2
  <2>8. sock[w] = "open" /\ call[w].tokenMatches
    BY <2>2
  <2>9. RegistryHoldsOpenReceivers'
    BY <2>1, <2>2, <2>3, <2>4, <2>5, <2>6, <2>7, <2>8
  <2>. QED BY <2>2, <2>3, <2>4, <2>5, <2>7, <2>9
<1>31. ASSUME NEW w \in Conns, ReadClosed(w) PROVE RegistryInv'
  BY <1>31 DEF ReadClosed
<1>32. ASSUME NEW w \in Conns, ReadGone(w) PROVE RegistryInv'
  BY <1>32 DEF ReadGone, Break
<1>33. ASSUME NEW w \in Conns, ReadCancel(w) PROVE RegistryInv'
  BY <1>33 DEF ReadCancel
<1>34. ASSUME NEW w \in Conns, CloseConn(w) PROVE RegistryInv'
  BY <1>34 DEF CloseConn, Close
<1>35. ASSUME NEW w \in Conns, PeerLeaves(w) PROVE RegistryInv'
  BY <1>35 DEF PeerLeaves
<1>36. ASSUME NEW w \in Conns, PeerCancels(w) PROVE RegistryInv'
  BY SMTT(30), <1>36 DEF PeerCancels
<1>. QED
  BY [Next]_vars,
     <1>1, <1>2, <1>3, <1>4, <1>5, <1>6, <1>7, <1>8, <1>9, <1>10, <1>11,
     <1>12, <1>13, <1>14, <1>15, <1>16, <1>17, <1>18, <1>19, <1>20,
     <1>21, <1>22, <1>23, <1>24, <1>25, <1>26, <1>27, <1>28, <1>29,
     <1>30, <1>31, <1>32, <1>33, <1>34, <1>35, <1>36
  DEF Next, Underway, UploadSteps, CancelSteps, ConnSteps, PageSteps,
      GetSteps, UnregisterSteps, WriteSteps, Quiet

(* A session leaves the store for good.                                    *)
LEMMA SessionsStep ==
  ASSUME RelayTypeOK, ArgumentsInv, SessionsInv, [Next]_vars
  PROVE  SessionsInv'
<1>. USE ActorsAssumption
       DEF RelayTypeOK, StoreTypeOK, HubTypeOK, storeVars, hubVars, At, GoTo,
           Finish, IdOf, Callers,
           ArgumentsInv, SessionsInv, AnsweredSessionIsGone, Expired
<1>1. CASE UNCHANGED vars
  BY <1>1 DEF vars
<1>2. CASE TimePasses
  BY <1>2 DEF TimePasses, Tick
<1>3. ASSUME NEW s \in SessionIds, CreateSession(s) PROVE SessionsInv'
  BY <1>3, ClockAssumption DEF CreateSession, Create, NewDeadline
<1>4. CASE RunCleanup
  BY <1>4 DEF RunCleanup, Cleanup
<1>5. ASSUME NEW p \in Callers, Arrive(p) PROVE SessionsInv'
  <2>1. PICK s \in SessionIds, good \in BOOLEAN : GetRead(p, s, good)
    BY <1>5 DEF Arrive
  <2>2. /\ call' = [call EXCEPT ![p] = [id |-> s, tokenMatches |-> good,
                                      found |-> s \in sessions]]
        /\ pc' = [pc EXCEPT ![p] = "check"] /\ pc[p] = "idle"
        /\ UNCHANGED <<now, sessions, expiresAt, answer>>
    BY <1>5, <2>1 DEF Arrive, GetRead
  <2>3. \A q \in Callers : q # p => call'[q] = call[q] /\ pc'[q] = pc[q]
    BY <2>2
  <2>4. call'[p].id = s /\ call'[p].found = (s \in sessions) /\ pc'[p] = "check"
    BY <2>2
  <2>. QED BY <2>2, <2>3, <2>4
<1>6. ASSUME NEW p \in Callers, Refuse(p) PROVE SessionsInv'
  BY <1>6 DEF Refuse, GetVerdict, MapSessionError
<1>7. ASSUME NEW p \in Callers, FindExpired(p) PROVE SessionsInv'
  BY <1>7 DEF FindExpired, GetVerdict, Expired
<1>8. ASSUME NEW p \in Callers, DropExpired(p) PROVE SessionsInv'
  BY <1>8 DEF DropExpired, Delete, MapSessionError
<1>9. ASSUME NEW u \in Uploads, AdmitUpload(u) PROVE SessionsInv'
  BY <1>9 DEF AdmitUpload, Admitted
<1>10. ASSUME NEW c \in Cancels, AdmitCancel(c) PROVE SessionsInv'
  BY <1>10 DEF AdmitCancel, Admitted
<1>11. ASSUME NEW w \in Conns, AdmitConn(w) PROVE SessionsInv'
  BY <1>11 DEF AdmitConn, Admitted
<1>12. ASSUME NEW g \in Pages, ServePage(g) PROVE SessionsInv'
  BY <1>12 DEF ServePage
<1>13. ASSUME NEW u \in Uploads, BodyRead(u) PROVE SessionsInv'
  BY <1>13 DEF BodyRead
<1>14. ASSUME NEW u \in Uploads, BodyRejected(u) PROVE SessionsInv'
  BY <1>14 DEF BodyRejected
<1>15. ASSUME NEW u \in Uploads, FindReceiver(u) PROVE SessionsInv'
  BY <1>15 DEF FindReceiver, LookUp
<1>16. ASSUME NEW u \in Uploads, FindNoReceiver(u) PROVE SessionsInv'
  BY <1>16 DEF FindNoReceiver, LookUp
<1>17. ASSUME NEW u \in Uploads, StartDelivery(u) PROVE SessionsInv'
  BY <1>17 DEF StartDelivery, LockReceiver
<1>18. ASSUME NEW u \in Uploads, WriteMeta(u) PROVE SessionsInv'
  BY <1>18 DEF WriteMeta, Write
<1>19. ASSUME NEW u \in Uploads, WriteData(u) PROVE SessionsInv'
  BY <1>19 DEF WriteData, Write
<1>20. ASSUME NEW u \in Uploads, WriteDone(u) PROVE SessionsInv'
  BY <1>20 DEF WriteDone, WriteLast
<1>21. ASSUME NEW u \in Uploads, DeliveryFails(u) PROVE SessionsInv'
  BY <1>21 DEF DeliveryFails, WriteFails
<1>22. ASSUME NEW p \in Uploads \cup Cancels \cup Conns, UnregisterNone(p)
             PROVE SessionsInv'
  BY <1>22 DEF UnregisterNone, UnregisterNothing, AfterUnregister
<1>23. ASSUME NEW p \in Uploads \cup Cancels \cup Conns, UnregisterLocks(p)
             PROVE SessionsInv'
  BY <1>23 DEF UnregisterLocks, LockToEvict
<1>24. ASSUME NEW p \in Uploads \cup Cancels \cup Conns, UnregisterCloses(p)
             PROVE SessionsInv'
  BY <1>24 DEF UnregisterCloses, UnregisterClosing, AfterUnregister
<1>25. ASSUME NEW p \in Uploads \cup Cancels, DeleteSession(p)
             PROVE SessionsInv'
  BY <1>25 DEF DeleteSession, Delete
<1>26. ASSUME NEW w \in Conns, Upgrade(w) PROVE SessionsInv'
  BY <1>26 DEF Upgrade, Open
<1>27. ASSUME NEW w \in Conns, UpgradeFails(w) PROVE SessionsInv'
  BY <1>27 DEF UpgradeFails
<1>28. ASSUME NEW w \in Conns, Register(w) PROVE SessionsInv'
  BY <1>28 DEF Register, RegisterFirst
<1>29. ASSUME NEW w \in Conns, RegisterLocks(w) PROVE SessionsInv'
  BY <1>29 DEF RegisterLocks, LockToEvict
<1>30. ASSUME NEW w \in Conns, RegisterReplaces(w) PROVE SessionsInv'
  BY <1>30 DEF RegisterReplaces, RegisterReplacing
<1>31. ASSUME NEW w \in Conns, ReadClosed(w) PROVE SessionsInv'
  BY <1>31 DEF ReadClosed
<1>32. ASSUME NEW w \in Conns, ReadGone(w) PROVE SessionsInv'
  BY <1>32 DEF ReadGone, Break
<1>33. ASSUME NEW w \in Conns, ReadCancel(w) PROVE SessionsInv'
  BY <1>33 DEF ReadCancel
<1>34. ASSUME NEW w \in Conns, CloseConn(w) PROVE SessionsInv'
  BY <1>34 DEF CloseConn, Close
<1>35. ASSUME NEW w \in Conns, PeerLeaves(w) PROVE SessionsInv'
  BY <1>35 DEF PeerLeaves
<1>36. ASSUME NEW w \in Conns, PeerCancels(w) PROVE SessionsInv'
  BY <1>36 DEF PeerCancels
<1>. QED
  BY [Next]_vars,
     <1>1, <1>2, <1>3, <1>4, <1>5, <1>6, <1>7, <1>8, <1>9, <1>10, <1>11,
     <1>12, <1>13, <1>14, <1>15, <1>16, <1>17, <1>18, <1>19, <1>20,
     <1>21, <1>22, <1>23, <1>24, <1>25, <1>26, <1>27, <1>28, <1>29,
     <1>30, <1>31, <1>32, <1>33, <1>34, <1>35, <1>36
  DEF Next, Underway, UploadSteps, CancelSteps, ConnSteps, PageSteps,
      GetSteps, UnregisterSteps, WriteSteps, Quiet

(* Appending a frame changes one wire, at its end.                         *)
LEMMA AppendFrame ==
  ASSUME RelayTypeOK, NEW w \in Conns, NEW f \in Frame,
         wire' = [wire EXCEPT ![w] = Append(@, f)]
  PROVE  /\ Len(wire[w]) \in Nat /\ Len(wire'[w]) = Len(wire[w]) + 1
         /\ wire'[w][Len(wire[w]) + 1] = f
         /\ \A i \in 1..Len(wire[w]) : wire'[w][i] = wire[w][i]
         /\ \A x \in Conns : x # w => wire'[x] = wire[x]
  BY SMTT(30) DEF RelayTypeOK, HubTypeOK

(* An upload keeps to the receiver it looked up, of its own session.       *)
LEMMA RelayedStep ==
  ASSUME RelayTypeOK, ArgumentsInv, LocksInv, RegistryInv, RelayedInv,
         [Next]_vars
  PROVE  RelayedInv'
<1>. USE ActorsAssumption
       DEF RelayTypeOK, StoreTypeOK, HubTypeOK, storeVars, hubVars, At, GoTo,
           Finish, IdOf, Callers,
           ArgumentsInv, RelayedInv, Writing, Touched, Relayed, Has
<1>1. CASE UNCHANGED vars
  BY SMTT(30), <1>1 DEF vars
<1>2. CASE TimePasses
  BY <1>2 DEF TimePasses, Tick
<1>3. ASSUME NEW s \in SessionIds, CreateSession(s) PROVE RelayedInv'
  BY <1>3 DEF CreateSession, Create, NewDeadline
<1>4. CASE RunCleanup
  BY <1>4 DEF RunCleanup, Cleanup
<1>5. ASSUME NEW p \in Callers, Arrive(p) PROVE RelayedInv'
  BY <1>5 DEF Arrive, GetRead
<1>6. ASSUME NEW p \in Callers, Refuse(p) PROVE RelayedInv'
  BY <1>6 DEF Refuse, MapSessionError, GetVerdict, SessionErrors
<1>7. ASSUME NEW p \in Callers, FindExpired(p) PROVE RelayedInv'
  BY <1>7 DEF FindExpired
<1>8. ASSUME NEW p \in Callers, DropExpired(p) PROVE RelayedInv'
  BY <1>8 DEF DropExpired, Delete, MapSessionError
<1>9. ASSUME NEW u \in Uploads, AdmitUpload(u) PROVE RelayedInv'
  BY <1>9 DEF AdmitUpload, Admitted
<1>10. ASSUME NEW c \in Cancels, AdmitCancel(c) PROVE RelayedInv'
  BY <1>10 DEF AdmitCancel, Admitted
<1>11. ASSUME NEW w \in Conns, AdmitConn(w) PROVE RelayedInv'
  BY <1>11 DEF AdmitConn, Admitted
<1>12. ASSUME NEW g \in Pages, ServePage(g) PROVE RelayedInv'
  BY <1>12 DEF ServePage
<1>13. ASSUME NEW u \in Uploads, BodyRead(u) PROVE RelayedInv'
  BY <1>13 DEF BodyRead
<1>14. ASSUME NEW u \in Uploads, BodyRejected(u) PROVE RelayedInv'
  BY <1>14 DEF BodyRejected
<1>15. ASSUME NEW u \in Uploads, FindReceiver(u) PROVE RelayedInv'
  <2>1. PICK w \in Conns : receivers[call[u].id] = w
    BY <1>15 DEF FindReceiver
  <2>2. /\ pc[u] = "lookup" /\ pc' = [pc EXCEPT ![u] = "lockReceiver"]
        /\ target' = [target EXCEPT ![u] = w]
        /\ UNCHANGED <<call, wire, answer>>
    BY <1>15, <2>1 DEF FindReceiver, LookUp
  <2>3. /\ call[w].id = call[u].id /\ call[w].tokenMatches
        /\ pc[w] \in {"reading", "unregister", "closing"}
    BY <2>1, <2>2 DEF RegistryInv, RegistryHoldsOpenReceivers
  <2>4. call[u].tokenMatches /\ answer[u] = "none"
    BY <2>2
  <2>5. ASSUME NEW x \in Conns, Touched(u, x) PROVE FALSE
    <3>1. target[u] = x
      BY <2>5
    <3>. QED BY <2>2, <3>1
  <2>. QED BY <2>2, <2>3, <2>4, <2>5
<1>16. ASSUME NEW u \in Uploads, FindNoReceiver(u) PROVE RelayedInv'
  BY <1>16 DEF FindNoReceiver, LookUp
<1>17. ASSUME NEW u \in Uploads, StartDelivery(u) PROVE RelayedInv'
  BY <1>17 DEF StartDelivery, LockReceiver
<1>18. ASSUME NEW u \in Uploads, WriteMeta(u) PROVE RelayedInv'
  BY <1>18 DEF WriteMeta, Write
<1>19. ASSUME NEW u \in Uploads, WriteData(u) PROVE RelayedInv'
  BY <1>19 DEF WriteData, Write
<1>20. ASSUME NEW u \in Uploads, WriteDone(u) PROVE RelayedInv'
  <2>1. PICK w \in Conns : target[u] = w
    BY <1>20 DEF WriteDone
  <2>2. /\ pc[u] = "writeDone" /\ pc' = [pc EXCEPT ![u] = "unregister"]
        /\ wire' = [wire EXCEPT ![w] = Append(@, [kind |-> "done", upload |-> u])]
        /\ UNCHANGED <<call, target, answer>>
    BY <1>20, <2>1 DEF WriteDone, WriteLast
  <2>. DEFINE n == Len(wire[w])  f == [kind |-> "done", upload |-> u]
  <2>3. /\ n \in Nat /\ Len(wire'[w]) = n + 1 /\ wire'[w][n + 1] = f
        /\ \A i \in 1..n : wire'[w][i] = wire[w][i]
        /\ \A x \in Conns : x # w => wire'[x] = wire[x]
    BY <2>2, AppendFrame DEF Frame
  <2>4. ASSUME NEW x \in Conns, NEW v \in Uploads, Touched(v, x)'
        PROVE  Touched(v, x) \/ (v = u /\ x = w)
    BY <2>3, <2>4
  <2>5. ASSUME NEW x \in Conns, NEW v \in Uploads, Relayed(v, x)
        PROVE  Relayed(v, x)'
    <3>1. PICK i \in 1..Len(wire[x]) : wire[x][i] = [kind |-> "done", upload |-> v]
      BY <2>5
    <3>2. i \in 1..Len(wire'[x]) /\ wire'[x][i] = wire[x][i]
      <4>1. CASE x = w
        BY <2>3, <3>1, <4>1
      <4>2. CASE x # w
        BY <2>3, <3>1, <4>2
      <4>. QED BY <4>1, <4>2
    <3>. QED BY <3>1, <3>2
  <2>6. Relayed(u, w)'
    BY <2>3
  <2>. QED BY <2>1, <2>2, <2>4, <2>5, <2>6
<1>21. ASSUME NEW u \in Uploads, DeliveryFails(u) PROVE RelayedInv'
  <2>1. /\ pc[u] \in Writing /\ answer[u] = "none"
        /\ pc' = [pc EXCEPT ![u] = "finished"]
        /\ answer' = [answer EXCEPT ![u] = "internal"]
        /\ UNCHANGED <<call, target, wire>>
    BY <1>21 DEF DeliveryFails, WriteFails
  <2>2. \A q \in Callers : q # u => pc'[q] = pc[q] /\ answer'[q] = answer[q]
    BY <2>1
  <2>3. pc'[u] = "finished" /\ answer'[u] = "internal"
    BY <2>1
  <2>. QED BY <2>1, <2>2, <2>3
<1>22. ASSUME NEW p \in Uploads \cup Cancels \cup Conns, UnregisterNone(p)
             PROVE RelayedInv'
  BY <1>22 DEF UnregisterNone, UnregisterNothing, AfterUnregister
<1>23. ASSUME NEW p \in Uploads \cup Cancels \cup Conns, UnregisterLocks(p)
             PROVE RelayedInv'
  BY <1>23 DEF UnregisterLocks, LockToEvict
<1>24. ASSUME NEW p \in Uploads \cup Cancels \cup Conns, UnregisterCloses(p)
             PROVE RelayedInv'
  BY <1>24 DEF UnregisterCloses, UnregisterClosing, AfterUnregister
<1>25. ASSUME NEW p \in Uploads \cup Cancels, DeleteSession(p)
             PROVE RelayedInv'
  BY <1>25 DEF DeleteSession, Delete
<1>26. ASSUME NEW w \in Conns, Upgrade(w) PROVE RelayedInv'
  BY <1>26 DEF Upgrade, Open
<1>27. ASSUME NEW w \in Conns, UpgradeFails(w) PROVE RelayedInv'
  BY <1>27 DEF UpgradeFails
<1>28. ASSUME NEW w \in Conns, Register(w) PROVE RelayedInv'
  BY <1>28 DEF Register, RegisterFirst
<1>29. ASSUME NEW w \in Conns, RegisterLocks(w) PROVE RelayedInv'
  BY <1>29 DEF RegisterLocks, LockToEvict
<1>30. ASSUME NEW w \in Conns, RegisterReplaces(w) PROVE RelayedInv'
  BY <1>30 DEF RegisterReplaces, RegisterReplacing
<1>31. ASSUME NEW w \in Conns, ReadClosed(w) PROVE RelayedInv'
  BY <1>31 DEF ReadClosed
<1>32. ASSUME NEW w \in Conns, ReadGone(w) PROVE RelayedInv'
  BY <1>32 DEF ReadGone, Break
<1>33. ASSUME NEW w \in Conns, ReadCancel(w) PROVE RelayedInv'
  BY <1>33 DEF ReadCancel
<1>34. ASSUME NEW w \in Conns, CloseConn(w) PROVE RelayedInv'
  BY <1>34 DEF CloseConn, Close
<1>35. ASSUME NEW w \in Conns, PeerLeaves(w) PROVE RelayedInv'
  BY <1>35 DEF PeerLeaves
<1>36. ASSUME NEW w \in Conns, PeerCancels(w) PROVE RelayedInv'
  BY <1>36 DEF PeerCancels
<1>. QED
  BY [Next]_vars,
     <1>1, <1>2, <1>3, <1>4, <1>5, <1>6, <1>7, <1>8, <1>9, <1>10, <1>11,
     <1>12, <1>13, <1>14, <1>15, <1>16, <1>17, <1>18, <1>19, <1>20,
     <1>21, <1>22, <1>23, <1>24, <1>25, <1>26, <1>27, <1>28, <1>29,
     <1>30, <1>31, <1>32, <1>33, <1>34, <1>35, <1>36
  DEF Next, Underway, UploadSteps, CancelSteps, ConnSteps, PageSteps,
      GetSteps, UnregisterSteps, WriteSteps, Quiet

(* One WriteMessage of Deliver that succeeds: f goes to w, the receiver u  *)
(* looked up and holds the lock of, and u goes on at label.                *)
DeliverStep(u, w, f, label) ==
    /\ pc[u] \in Writing /\ target[u] = w /\ f.upload = u
    /\ wire[w] = << >> => f.kind = "meta"
    /\ wire[w] # << >> => Follows(wire[w][Len(wire[w])], f)
    /\ \/ f.kind = "meta" /\ label = "writeData"
       \/ f.kind = "data" /\ label = "writeDone"
       \/ f.kind = "done" /\ label = "unregister"
    /\ wire' = [wire EXCEPT ![w] = Append(@, f)]
    /\ pc' = [pc EXCEPT ![u] = label]
    /\ recvLock' = IF f.kind = "done" THEN [recvLock EXCEPT ![w] = Nobody]
                                     ELSE recvLock
    /\ UNCHANGED <<target, broken>>

(* Deliver keeps the frames whole when it appends the next one, of its own *)
(* upload, under the lock of the receiver.                                 *)
LEMMA FramesAppend ==
  ASSUME RelayTypeOK, ArgumentsInv, LocksInv, FramesInv,
         NEW u \in Uploads, NEW w \in Conns, NEW f \in Frame, NEW label,
         DeliverStep(u, w, f, label)
  PROVE  FramesInv'
<1>. USE DEF DeliverStep
<1>. DEFINE n == Len(wire[w])
<1>1. /\ n \in Nat /\ Len(wire'[w]) = n + 1 /\ wire'[w][n + 1] = f
      /\ \A i \in 1..n : wire'[w][i] = wire[w][i]
      /\ \A x \in Conns : x # w => wire'[x] = wire[x]
  BY DEF RelayTypeOK, HubTypeOK
<1>2. recvLock[w] = u /\ \A x \in Conns : x # w => recvLock[x] # u /\ recvLock'[x] = recvLock[x]
  BY DEF LocksInv, RelayTypeOK, HubTypeOK
<1>3. pc'[u] = label /\ \A v \in Uploads : v # u => pc'[v] = pc[v]
  BY DEF RelayTypeOK, Callers
<1>4. wire \in [Conns -> Seq(Frame)] /\ (wire[w] = << >> <=> n = 0)
  BY DEF RelayTypeOK, HubTypeOK
<1>5. ASSUME NEW x \in Conns, x # w, Len(wire[x]) > 0,
             InProgress(x, wire[x][Len(wire[x])])
      PROVE  InProgress(x, wire[x][Len(wire[x])])'
  <2>1. wire[x][Len(wire[x])].upload \in Uploads
    <3>1. wire[x] \in Seq(Frame)
      BY <1>4
    <3>2. wire[x][Len(wire[x])] \in Frame
      BY <1>5, <3>1
    <3>. QED BY <3>2 DEF Frame
  <2>. QED BY <1>1, <1>2, <1>3, <1>5, <2>1 DEF InProgress
<1>6. f.kind # "done" => InProgress(w, f)'
  BY <1>2, <1>3 DEF InProgress
<1>7. wire'[w][1].kind = "meta"
  BY <1>1, <1>4 DEF FramesInv, FramesWhole
<1>8. ASSUME NEW i \in 1..n PROVE Follows(wire'[w][i], wire'[w][i + 1])
  <2>1. CASE i = n
    BY <1>1, <1>4, <1>8, <2>1
  <2>2. CASE i # n
    <3>1. i \in 1..(n - 1) /\ i + 1 \in 1..n
      BY <1>1, <2>2
    <3>. QED BY <1>1, <3>1 DEF FramesInv, FramesWhole
  <2>. QED BY <2>1, <2>2
<1>9. FramesWhole'
  <2>1. ASSUME NEW x \in Conns, x # w, Len(wire'[x]) > 0
        PROVE  /\ wire'[x][1].kind = "meta"
               /\ \A i \in 1..(Len(wire'[x]) - 1) : Follows(wire'[x][i], wire'[x][i + 1])
               /\ \/ wire'[x][Len(wire'[x])].kind = "done"
                  \/ InProgress(x, wire[x][Len(wire[x])])'
                  \/ broken'[x]
    BY <1>1, <1>5, <2>1 DEF FramesInv, FramesWhole
  <2>2. /\ \A i \in 1..(Len(wire'[w]) - 1) : Follows(wire'[w][i], wire'[w][i + 1])
        /\ wire'[w][Len(wire'[w])].kind = "done" \/ InProgress(w, f)'
    <3>1. Len(wire'[w]) - 1 = n /\ wire'[w][Len(wire'[w])] = f
      BY <1>1
    <3>. QED BY <1>6, <1>8, <3>1
  <2>. QED BY <1>1, <1>7, <2>1, <2>2 DEF FramesWhole, InProgress
<1>10. ASSUME NEW v \in Uploads
       PROVE  /\ pc'[v] = "writeData" => LastIs(target[v], "meta", v)'
              /\ pc'[v] = "writeDone" => LastIs(target[v], "data", v)'
  <2>1. CASE v = u
    <3>1. f = [kind |-> f.kind, upload |-> u]
      BY DEF Frame
    <3>. QED BY <1>1, <1>3, <2>1, <3>1 DEF LastIs
  <2>2. CASE v # u
    <3>1. pc'[v] \in Writing => target[v] \in Conns /\ target[v] # w
      BY SMTT(30), <1>2, <1>3, <2>2 DEF LocksInv, ArgumentsInv
    <3>. QED BY SMTT(30), <1>1, <1>3, <2>2, <3>1 DEF LastIs, FramesInv, Writing
  <2>. QED BY <2>1, <2>2
<1>. QED BY <1>9, <1>10 DEF FramesInv

(* Every frame continues the delivery before it.                           *)
LEMMA FramesStep ==
  ASSUME RelayTypeOK, ArgumentsInv, LocksInv, RegistryInv, FramesInv,
         [Next]_vars
  PROVE  FramesInv'
<1>. USE ActorsAssumption
       DEF RelayTypeOK, StoreTypeOK, HubTypeOK, storeVars, hubVars, At, GoTo,
           Finish, IdOf, Callers,
           ArgumentsInv, LocksInv, FramesInv, FramesWhole, InProgress,
           LastIs, Writing
<1>1. CASE UNCHANGED vars
  BY <1>1 DEF vars
<1>2. CASE TimePasses
  BY <1>2 DEF TimePasses, Tick
<1>3. ASSUME NEW s \in SessionIds, CreateSession(s) PROVE FramesInv'
  BY <1>3 DEF CreateSession, Create, NewDeadline
<1>4. CASE RunCleanup
  BY <1>4 DEF RunCleanup, Cleanup
<1>5. ASSUME NEW p \in Callers, Arrive(p) PROVE FramesInv'
  BY <1>5 DEF Arrive, GetRead
<1>6. ASSUME NEW p \in Callers, Refuse(p) PROVE FramesInv'
  BY <1>6 DEF Refuse
<1>7. ASSUME NEW p \in Callers, FindExpired(p) PROVE FramesInv'
  BY <1>7 DEF FindExpired
<1>8. ASSUME NEW p \in Callers, DropExpired(p) PROVE FramesInv'
  BY <1>8 DEF DropExpired, Delete
<1>9. ASSUME NEW u \in Uploads, AdmitUpload(u) PROVE FramesInv'
  BY <1>9 DEF AdmitUpload, Admitted
<1>10. ASSUME NEW c \in Cancels, AdmitCancel(c) PROVE FramesInv'
  BY <1>10 DEF AdmitCancel, Admitted
<1>11. ASSUME NEW w \in Conns, AdmitConn(w) PROVE FramesInv'
  BY <1>11 DEF AdmitConn, Admitted
<1>12. ASSUME NEW g \in Pages, ServePage(g) PROVE FramesInv'
  BY <1>12 DEF ServePage
<1>13. ASSUME NEW u \in Uploads, BodyRead(u) PROVE FramesInv'
  BY <1>13 DEF BodyRead
<1>14. ASSUME NEW u \in Uploads, BodyRejected(u) PROVE FramesInv'
  BY <1>14 DEF BodyRejected
<1>15. ASSUME NEW u \in Uploads, FindReceiver(u) PROVE FramesInv'
  BY <1>15 DEF FindReceiver, LookUp
<1>16. ASSUME NEW u \in Uploads, FindNoReceiver(u) PROVE FramesInv'
  BY <1>16 DEF FindNoReceiver, LookUp
<1>17. ASSUME NEW u \in Uploads, StartDelivery(u) PROVE FramesInv'
  <2>1. PICK w \in Conns : target[u] = w /\ recvLock[w] = Nobody
    BY <1>17 DEF StartDelivery, LockReceiver
  <2>2. /\ pc[u] = "lockReceiver" /\ pc' = [pc EXCEPT ![u] = "writeMeta"]
        /\ recvLock' = [recvLock EXCEPT ![w] = u]
        /\ UNCHANGED <<wire, target, broken>>
    BY <1>17, <2>1 DEF StartDelivery, LockReceiver
  <2>3. ASSUME NEW x \in Conns, Len(wire[x]) > 0, InProgress(x, wire[x][Len(wire[x])])
        PROVE  InProgress(x, wire[x][Len(wire[x])])'
    <3>1. wire[x][Len(wire[x])] \in Frame
      BY <2>3
    <3>. QED BY <2>1, <2>2, <2>3, <3>1 DEF Frame
  <2>. QED BY <2>2, <2>3
<1>18. ASSUME NEW u \in Uploads, WriteMeta(u) PROVE FramesInv'
  <2>1. PICK w \in Conns : target[u] = w
    BY <1>18 DEF WriteMeta
  <2>. DEFINE f == [kind |-> "meta", upload |-> u]
  <2>2. /\ pc[u] = "writeMeta" /\ pc' = [pc EXCEPT ![u] = "writeData"]
        /\ wire' = [wire EXCEPT ![w] = Append(@, f)] /\ ~broken[w]
        /\ UNCHANGED <<recvLock, target, broken>>
    BY <1>18, <2>1 DEF WriteMeta, Write, CanWrite
  <2>3. f \in Frame /\ wire[w] \in Seq(Frame)
    BY DEF Frame
  <2>4. ASSUME wire[w] # << >> PROVE wire[w][Len(wire[w])].kind = "done"
    <3>1. Len(wire[w]) > 0 /\ wire[w][Len(wire[w])] \in Frame
      BY <2>3, <2>4
    <3>2. ~InProgress(w, wire[w][Len(wire[w])])
      BY <2>1, <2>2, <3>1 DEF Frame
    <3>. QED BY <2>1, <2>2, <3>1, <3>2
  <2>5. DeliverStep(u, w, f, "writeData")
    BY <2>1, <2>2, <2>4 DEF DeliverStep, Follows
  <2>. QED BY <2>3, <2>5, FramesAppend
<1>19. ASSUME NEW u \in Uploads, WriteData(u) PROVE FramesInv'
  <2>1. PICK w \in Conns : target[u] = w
    BY <1>19 DEF WriteData
  <2>. DEFINE f == [kind |-> "data", upload |-> u]
  <2>2. /\ pc[u] = "writeData" /\ pc' = [pc EXCEPT ![u] = "writeDone"]
        /\ wire' = [wire EXCEPT ![w] = Append(@, f)]
        /\ UNCHANGED <<recvLock, target, broken>>
    BY <1>19, <2>1 DEF WriteData, Write
  <2>3. wire[w][Len(wire[w])] = [kind |-> "meta", upload |-> u] /\ wire[w] # << >>
    <3>1. LastIs(w, "meta", u)
      BY <2>1, <2>2
    <3>. QED BY <3>1
  <2>4. DeliverStep(u, w, f, "writeDone")
    BY <2>1, <2>2, <2>3 DEF DeliverStep, Follows
  <2>5. f \in Frame
    BY DEF Frame
  <2>. HIDE DEF f
  <2>. QED BY <2>4, <2>5, FramesAppend
<1>20. ASSUME NEW u \in Uploads, WriteDone(u) PROVE FramesInv'
  <2>1. PICK w \in Conns : target[u] = w
    BY <1>20 DEF WriteDone
  <2>. DEFINE f == [kind |-> "done", upload |-> u]
  <2>2. /\ pc[u] = "writeDone" /\ pc' = [pc EXCEPT ![u] = "unregister"]
        /\ wire' = [wire EXCEPT ![w] = Append(@, f)]
        /\ recvLock' = [recvLock EXCEPT ![w] = Nobody]
        /\ UNCHANGED <<target, broken>>
    BY <1>20, <2>1 DEF WriteDone, WriteLast
  <2>3. wire[w][Len(wire[w])] = [kind |-> "data", upload |-> u] /\ wire[w] # << >>
    <3>1. LastIs(w, "data", u)
      BY <2>1, <2>2
    <3>. QED BY <3>1
  <2>4. DeliverStep(u, w, f, "unregister")
    BY <2>1, <2>2, <2>3 DEF DeliverStep, Follows
  <2>5. f \in Frame
    BY DEF Frame
  <2>. HIDE DEF f
  <2>. QED BY <2>4, <2>5, FramesAppend
<1>21. ASSUME NEW u \in Uploads, DeliveryFails(u) PROVE FramesInv'
  BY <1>21 DEF DeliveryFails, WriteFails
<1>22. ASSUME NEW p \in Uploads \cup Cancels \cup Conns, UnregisterNone(p)
             PROVE FramesInv'
  BY <1>22 DEF UnregisterNone, UnregisterNothing, AfterUnregister
<1>23. ASSUME NEW p \in Uploads \cup Cancels \cup Conns, UnregisterLocks(p)
             PROVE FramesInv'
  BY <1>23 DEF UnregisterLocks, LockToEvict
<1>24. ASSUME NEW p \in Uploads \cup Cancels \cup Conns, UnregisterCloses(p)
             PROVE FramesInv'
  BY <1>24 DEF UnregisterCloses, UnregisterClosing, AfterUnregister
<1>25. ASSUME NEW p \in Uploads \cup Cancels, DeleteSession(p)
             PROVE FramesInv'
  BY <1>25 DEF DeleteSession, Delete
<1>26. ASSUME NEW w \in Conns, Upgrade(w) PROVE FramesInv'
  BY <1>26 DEF Upgrade, Open
<1>27. ASSUME NEW w \in Conns, UpgradeFails(w) PROVE FramesInv'
  BY <1>27 DEF UpgradeFails
<1>28. ASSUME NEW w \in Conns, Register(w) PROVE FramesInv'
  BY <1>28 DEF Register, RegisterFirst
<1>29. ASSUME NEW w \in Conns, RegisterLocks(w) PROVE FramesInv'
  BY <1>29 DEF RegisterLocks, LockToEvict
<1>30. ASSUME NEW w \in Conns, RegisterReplaces(w) PROVE FramesInv'
  BY <1>30 DEF RegisterReplaces, RegisterReplacing
<1>31. ASSUME NEW w \in Conns, ReadClosed(w) PROVE FramesInv'
  BY <1>31 DEF ReadClosed
<1>32. ASSUME NEW w \in Conns, ReadGone(w) PROVE FramesInv'
  <2>1. CASE broken' = broken
    BY <1>32, <2>1 DEF ReadGone, Break
  <2>2. CASE broken' = [broken EXCEPT ![w] = TRUE]
    <3>1. \A v \in Conns : broken[v] => broken'[v]
      BY <2>2
    <3>. QED BY <1>32, <3>1 DEF ReadGone, Break
  <2>. QED BY <1>32, <2>1, <2>2 DEF ReadGone, Break
<1>33. ASSUME NEW w \in Conns, ReadCancel(w) PROVE FramesInv'
  BY <1>33 DEF ReadCancel
<1>34. ASSUME NEW w \in Conns, CloseConn(w) PROVE FramesInv'
  BY <1>34 DEF CloseConn, Close
<1>35. ASSUME NEW w \in Conns, PeerLeaves(w) PROVE FramesInv'
  BY <1>35 DEF PeerLeaves
<1>36. ASSUME NEW w \in Conns, PeerCancels(w) PROVE FramesInv'
  BY <1>36 DEF PeerCancels
<1>. QED
  BY [Next]_vars,
     <1>1, <1>2, <1>3, <1>4, <1>5, <1>6, <1>7, <1>8, <1>9, <1>10, <1>11,
     <1>12, <1>13, <1>14, <1>15, <1>16, <1>17, <1>18, <1>19, <1>20,
     <1>21, <1>22, <1>23, <1>24, <1>25, <1>26, <1>27, <1>28, <1>29,
     <1>30, <1>31, <1>32, <1>33, <1>34, <1>35, <1>36
  DEF Next, Underway, UploadSteps, CancelSteps, ConnSteps, PageSteps,
      GetSteps, UnregisterSteps, WriteSteps, Quiet

-----------------------------------------------------------------------------
(* One more frame on a wire.                                               *)
Appends(w, f) == wire' = [wire EXCEPT ![w] = Append(@, f)]

(* A frame appended to a wire is there from then on, and no other.         *)
LEMMA HasAppended ==
  ASSUME RelayTypeOK, NEW w \in Conns, NEW f \in Frame, Appends(w, f),
         NEW x \in Conns, NEW g \in Frame
  PROVE  (\E i \in 1..Len(wire'[x]) : wire'[x][i] = g)
           <=> (\E i \in 1..Len(wire[x]) : wire[x][i] = g) \/ (x = w /\ f = g)
<1>1. /\ Len(wire[w]) \in Nat /\ Len(wire'[w]) = Len(wire[w]) + 1
      /\ wire'[w][Len(wire[w]) + 1] = f
      /\ \A i \in 1..Len(wire[w]) : wire'[w][i] = wire[w][i]
      /\ \A y \in Conns : y # w => wire'[y] = wire[y]
  BY AppendFrame DEF Appends
<1>2. CASE x # w
  BY <1>1, <1>2
<1>3. CASE x = w
  <2>1. ASSUME NEW i \in 1..Len(wire'[w]), wire'[w][i] = g
        PROVE  (\E j \in 1..Len(wire[w]) : wire[w][j] = g) \/ f = g
    <3>1. i \in 1..Len(wire[w]) \/ i = Len(wire[w]) + 1
      BY <1>1
    <3>. QED BY <1>1, <2>1, <3>1
  <2>2. ASSUME NEW i \in 1..Len(wire[w]), wire[w][i] = g
        PROVE  \E j \in 1..Len(wire'[w]) : wire'[w][j] = g
    <3>1. i \in 1..Len(wire'[w]) /\ wire'[w][i] = g
      BY <1>1, <2>2
    <3>. QED BY <3>1
  <2>3. f = g => \E j \in 1..Len(wire'[w]) : wire'[w][j] = g
    <3>1. Len(wire[w]) + 1 \in 1..Len(wire'[w])
      BY <1>1
    <3>. QED BY <1>1, <3>1
  <2>. QED BY <1>3, <2>1, <2>2, <2>3
<1>. QED BY <1>2, <1>3

(* A write that is not the last relays nothing yet.                        *)
LEMMA WriteRelaysNothing ==
  ASSUME RelayTypeOK, ArgumentsInv, NEW u \in Uploads, pc[u] \in Writing,
         NEW kind \in {"meta", "data"}, Write(u, kind),
         NEW v \in Uploads, NEW x \in Conns
  PROVE  Relayed(v, x)' <=> Relayed(v, x)
<1>1. target[u] \in Conns /\ [kind |-> kind, upload |-> u] \in Frame
  BY DEF ArgumentsInv, Frame
<1>2. /\ [kind |-> "done", upload |-> v] \in Frame
      /\ [kind |-> kind, upload |-> u] # [kind |-> "done", upload |-> v]
  BY DEF Frame
<1>3. Appends(target[u], [kind |-> kind, upload |-> u])
  BY DEF Write, Appends
<1>. QED BY <1>1, <1>2, <1>3, HasAppended DEF Relayed, Has

(* The last write relays its upload to the receiver it looked up.          *)
LEMMA LastWriteRelays ==
  ASSUME RelayTypeOK, ArgumentsInv, NEW u \in Uploads, pc[u] \in Writing,
         WriteLast(u), NEW v \in Uploads, NEW x \in Conns
  PROVE  Relayed(v, x)' <=> Relayed(v, x) \/ (v = u /\ x = target[u])
<1>. DEFINE f == [kind |-> "done", upload |-> u]
            g == [kind |-> "done", upload |-> v]
<1>1. target[u] \in Conns /\ f \in Frame /\ g \in Frame
  BY DEF ArgumentsInv, Frame
<1>2. f = g <=> v = u
  OBVIOUS
<1>3. Appends(target[u], f)
  BY DEF WriteLast, Appends
<1>4. (\E i \in 1..Len(wire'[x]) : wire'[x][i] = g)
        <=> (\E i \in 1..Len(wire[x]) : wire[x][i] = g) \/ (x = target[u] /\ f = g)
  <2>. HIDE DEF f, g
  <2>. QED BY <1>1, <1>3, HasAppended
<1>. QED BY <1>2, <1>4 DEF Relayed, Has

(* A request is answered when it finishes, or when its socket opens; what  *)
(* it holds is settled before anything is looked up or written for it.     *)
LEMMA HoldersStep ==
  ASSUME RelayTypeOK, ArgumentsInv, RegistryInv, RelayedInv, HoldersInv,
         [Next]_vars
  PROVE  HoldersInv'
<1>. USE ActorsAssumption
     DEF RelayTypeOK, StoreTypeOK, HubTypeOK, storeVars, hubVars, At, GoTo,
         Finish, IdOf, Callers, HoldersInv
<1>1. ASSUME UNCHANGED <<call, pc, answer, target, wire>>
      PROVE  HoldersInv'
  BY <1>1 DEF Relayed, Has
<1>2. ASSUME NEW p \in Callers, Arrive(p) PROVE HoldersInv'
  BY <1>2 DEF Arrive, GetRead, RelayedInv, Relayed, Has, Writing
<1>3. ASSUME NEW p \in Callers, NEW label, GoTo(p, label),
             label \notin {"idle"} \cup Writing,
             pc[p] \in {"check", "expire", "upgrade"} \/ p \notin Conns
                \/ label \notin {"check", "expire", "upgrade"},
             pc[p] # "finished",
             UNCHANGED <<call, answer, target, wire>>
      PROVE  HoldersInv'
  BY <1>3 DEF Relayed, Has, Writing
<1>4. ASSUME NEW p \in Callers, NEW code, Finish(p, code),
             UNCHANGED <<call, target, wire>>
      PROVE  HoldersInv'
  BY <1>4 DEF Relayed, Has, Writing
<1>5. ASSUME NEW u \in Uploads, FindReceiver(u) PROVE HoldersInv'
  <2>1. PICK w \in Conns : receivers[call[u].id] = w
    BY <1>5 DEF FindReceiver, ArgumentsInv
  <2>2. /\ pc[u] = "lookup" /\ pc' = [pc EXCEPT ![u] = "lockReceiver"]
        /\ target' = [target EXCEPT ![u] = w]
        /\ UNCHANGED <<call, wire, answer>>
    BY <1>5, <2>1 DEF FindReceiver, LookUp
  <2>3. call[w].found
    <3>1. call[u].id \in SessionIds
      BY <2>2 DEF ArgumentsInv
    <3>2. pc[w] \in {"reading", "unregister", "closing"}
      BY <2>1, <3>1 DEF RegistryInv, RegistryHoldsOpenReceivers
    <3>. QED BY <3>2 DEF ArgumentsInv
  <2>. QED BY <2>2, <2>3 DEF Relayed, Has, Writing
<1>6. ASSUME NEW u \in Uploads, StartDelivery(u) PROVE HoldersInv'
  <2>1. /\ pc[u] = "lockReceiver" /\ pc' = [pc EXCEPT ![u] = "writeMeta"]
        /\ UNCHANGED <<call, answer, target, wire>>
    BY <1>6 DEF StartDelivery, LockReceiver
  <2>2. \A x \in Conns : ~Relayed(u, x)
    BY <2>1 DEF RelayedInv, Touched, Relayed, Has
  <2>3. \A q \in Callers : q # u => pc'[q] = pc[q]
    BY <2>1
  <2>4. \A q \in Uploads, x \in Conns : Relayed(q, x)' <=> Relayed(q, x)
    BY <2>1 DEF Relayed, Has
  <2>. QED BY <2>1, <2>2, <2>3, <2>4 DEF Writing
<1>7. ASSUME NEW u \in Uploads, WriteMeta(u) \/ WriteData(u)
      PROVE  HoldersInv'
  BY ZenonT(60), <1>7, WriteRelaysNothing DEF WriteMeta, WriteData, Write, Writing
<1>8. ASSUME NEW u \in Uploads, WriteDone(u) PROVE HoldersInv'
  BY ZenonT(60), <1>8, LastWriteRelays DEF WriteDone, WriteLast, Writing
<1>9. ASSUME NEW w \in Conns, Upgrade(w) PROVE HoldersInv'
  BY <1>9 DEF Upgrade, Open, Relayed, Has, Writing
<1>10. ASSUME NEW u \in Uploads, FindNoReceiver(u) PROVE HoldersInv'
  BY SMTT(30), <1>10 DEF FindNoReceiver, LookUp, Relayed, Has, Writing
<1>11. ASSUME NEW p \in Callers, UnregisterSteps(p) PROVE HoldersInv'
  BY ZenonT(60), <1>3, <1>11
  DEF UnregisterSteps, UnregisterNone, UnregisterNothing, UnregisterLocks,
      LockToEvict, UnregisterCloses, UnregisterClosing, AfterUnregister, Writing
<1>12. ASSUME NEW p \in Callers, GetSteps(p) PROVE HoldersInv'
  BY <1>3, <1>4, <1>12
  DEF GetSteps, Refuse, FindExpired, DropExpired, Delete, Writing
<1>13. ASSUME NEW u \in Uploads, UploadSteps(u) \/ BodyRead(u) \/ BodyRejected(u)
       PROVE  HoldersInv'
  <2>1. CASE AdmitUpload(u)
    BY <1>3, <2>1 DEF AdmitUpload, Admitted, Writing
  <2>2. CASE BodyRead(u)
    BY <1>3, <2>2 DEF BodyRead, Writing
  <2>3. CASE BodyRejected(u)
    BY <1>4, <2>3 DEF BodyRejected
  <2>4. CASE DeliveryFails(u)
    BY <1>4, <2>4 DEF DeliveryFails, WriteFails
  <2>5. CASE DeleteSession(u)
    BY <1>4, <2>5 DEF DeleteSession, Delete
  <2>. QED
    BY <1>5, <1>6, <1>7, <1>8, <1>10, <1>11, <1>12, <1>13, <2>1, <2>2, <2>3,
       <2>4, <2>5
    DEF UploadSteps, WriteSteps
<1>14. ASSUME NEW c \in Cancels, CancelSteps(c) PROVE HoldersInv'
  <2>1. CASE AdmitCancel(c)
    BY <1>3, <2>1 DEF AdmitCancel, Admitted, Writing
  <2>2. CASE DeleteSession(c)
    BY <1>4, <2>2 DEF DeleteSession, Delete
  <2>. QED BY <1>11, <1>12, <1>14, <2>1, <2>2 DEF CancelSteps
<1>15. ASSUME NEW w \in Conns, ConnSteps(w) PROVE HoldersInv'
  <2>1. CASE AdmitConn(w)
    BY <1>3, <2>1 DEF AdmitConn, Admitted, Writing
  <2>2. CASE UpgradeFails(w)
    BY <1>4, <2>2 DEF UpgradeFails
  <2>3. CASE Register(w)
    BY <1>3, <2>3 DEF Register, RegisterFirst, Writing
  <2>4. CASE RegisterLocks(w)
    BY <1>3, <2>4 DEF RegisterLocks, LockToEvict, Writing
  <2>5. CASE RegisterReplaces(w)
    BY <1>3, <2>5 DEF RegisterReplaces, RegisterReplacing, Writing
  <2>6. CASE ReadClosed(w)
    BY <1>3, <2>6 DEF ReadClosed, Writing
  <2>7. CASE ReadGone(w)
    BY <1>3, <2>7 DEF ReadGone, Break, Writing
  <2>8. CASE ReadCancel(w)
    BY <1>3, <2>8 DEF ReadCancel, Writing
  <2>9. CASE CloseConn(w)
    BY <1>3, <2>9 DEF CloseConn, Close, Writing
  <2>. QED
    BY <1>9, <1>11, <1>12, <1>15, <2>1, <2>2, <2>3, <2>4, <2>5, <2>6, <2>7,
       <2>8, <2>9
    DEF ConnSteps
<1>16. ASSUME NEW g \in Pages, PageSteps(g) PROVE HoldersInv'
  <2>1. CASE ServePage(g)
    BY <1>4, <2>1 DEF ServePage
  <2>. QED BY <1>12, <1>16, <2>1 DEF PageSteps
<1>17. CASE \/ TimePasses \/ RunCleanup \/ Quiet \/ UNCHANGED vars
            \/ \E s \in SessionIds : CreateSession(s)
            \/ \E w \in Conns : PeerLeaves(w) \/ PeerCancels(w)
  BY <1>1, <1>17
  DEF TimePasses, Tick, RunCleanup, Cleanup, Quiet, vars, CreateSession, Create,
      PeerLeaves, PeerCancels
<1>. QED
  BY [Next]_vars, <1>2, <1>13, <1>14, <1>15, <1>16, <1>17 DEF Next, Underway

-----------------------------------------------------------------------------
(* Every step preserves the whole invariant.                               *)
LEMMA InvStep == RelayInv /\ [Next]_vars => RelayInv'
<1>. SUFFICES ASSUME RelayInv, [Next]_vars PROVE RelayInv'
  OBVIOUS
<1>1. RelayTypeOK'
  BY TypeStep DEF RelayInv
<1>2. ArgumentsInv'
  BY ArgumentsStep DEF RelayInv
<1>3. LocksInv'
  BY LocksStep DEF RelayInv
<1>4. RegistryInv'
  BY RegistryStep DEF RelayInv
<1>5. FramesInv'
  BY FramesStep DEF RelayInv
<1>6. SessionsInv'
  BY SessionsStep DEF RelayInv
<1>7. RelayedInv'
  BY RelayedStep DEF RelayInv
<1>8. HoldersInv'
  BY HoldersStep DEF RelayInv
<1>. QED BY <1>1, <1>2, <1>3, <1>4, <1>5, <1>6, <1>7, <1>8 DEF RelayInv

(* The inductive invariant holds in every reachable state.                 *)
THEOREM RelayInvariance == Spec => []RelayInv
<1>1. RelayInv /\ UNCHANGED vars => RelayInv'
  BY InvStep
<1>. QED BY InitInv, InvStep, PTL DEF Spec
-----------------------------------------------------------------------------
(* The types of every variable, and of the steps each handler may be at.   *)
THEOREM TypeCorrectness == Spec => []RelayTypeOK
<1>1. RelayInv => RelayTypeOK
  BY DEF RelayInv
<1>. QED BY <1>1, RelayInvariance, PTL

(* Deliver under receiver.mu: on every socket, whole deliveries only, none *)
(* mixed with another.                                                     *)
THEOREM FramesAreWhole == Spec => []FramesWhole
<1>1. RelayInv => FramesWhole
  BY DEF RelayInv, FramesInv
<1>. QED BY <1>1, RelayInvariance, PTL

(* Register and Unregister: no closed receiver in the registry, no open    *)
(* connection out of it.                                                   *)
THEOREM RegistryIsExact == Spec => []RegistryHoldsOpenReceivers
<1>1. RelayInv => RegistryHoldsOpenReceivers
  BY DEF RelayInv, RegistryInv
<1>. QED BY <1>1, RelayInvariance, PTL

(* A photo reaches only a PC that presented the token of the session it    *)
(* was uploaded to.                                                        *)
THEOREM RelayStaysInSession == Spec => []RelayedWithinSession
<1>1. RelayInv => RelayedWithinSession
  BY DEF RelayInv, RelayedInv, RelayedWithinSession
<1>. QED BY <1>1, RelayInvariance, PTL

(* What the phone is answered is what happened: ok means written to the    *)
(* end, a refusal means nothing was written, and one receiver got it all.  *)
THEOREM AnswersAreTrue == Spec => []AnswerTellsRelay
<1>1. ASSUME RelayInv PROVE AnswerTellsRelay
  <2>1. RelayedInv /\ NoConn \notin Conns
    BY <1>1, ActorsAssumption DEF RelayInv
  <2>2. ASSUME NEW u \in Uploads, answer[u] \notin {"none", "ok", "internal"},
               NEW w \in Conns, Touched(u, w)
        PROVE  FALSE
    BY <2>1, <2>2 DEF RelayedInv
  <2>3. ASSUME NEW u \in Uploads, NEW v \in Conns, NEW w \in Conns,
               Touched(u, v), Touched(u, w)
        PROVE  v = w
    BY <2>1, <2>3 DEF RelayedInv
  <2>4. ASSUME NEW u \in Uploads, answer[u] = "ok"
        PROVE  \E w \in Conns : Relayed(u, w)
    BY <2>1, <2>4 DEF RelayedInv
  <2>. QED BY <2>2, <2>3, <2>4 DEF AnswerTellsRelay
<1>. QED BY <1>1, RelayInvariance, PTL

(* A session that was used, cancelled or found expired never comes back.   *)
THEOREM AnsweredSessionsStayGone == Spec => []AnsweredSessionIsGone
<1>1. RelayInv => AnsweredSessionIsGone
  BY DEF RelayInv, SessionsInv
<1>. QED BY <1>1, RelayInvariance, PTL

(* The actions that open or close a socket.                                *)
LEMMA SocketSteps ==
  ASSUME [Next]_vars
  PROVE  \/ sock' = sock
         \/ \E v \in Conns : Upgrade(v) \/ RegisterReplaces(v) \/ CloseConn(v)
         \/ \E p \in Uploads \cup Cancels \cup Conns : UnregisterCloses(p)
  BY ZenonT(60)
     DEF Next, Underway, UploadSteps, CancelSteps, ConnSteps, PageSteps,
         GetSteps, UnregisterSteps, WriteSteps, Quiet, vars, hubVars, TimePasses,
         CreateSession, RunCleanup, Arrive, Refuse, FindExpired, DropExpired,
         Admitted, AdmitUpload, AdmitCancel, AdmitConn, ServePage, BodyRead,
         BodyRejected, FindReceiver, FindNoReceiver, LookUp, StartDelivery,
         LockReceiver, WriteMeta, WriteData, Write, WriteDone, WriteLast,
         DeliveryFails, WriteFails, UnregisterNone, UnregisterNothing,
         UnregisterLocks, LockToEvict, DeleteSession, UpgradeFails, Register,
         RegisterFirst, RegisterLocks, ReadClosed, ReadGone, Break, ReadCancel,
         PeerLeaves, PeerCancels

(* The actions that take a session out of the store.                       *)
LEMMA StoreSteps ==
  ASSUME [Next]_vars
  PROVE  \/ sessions \subseteq sessions'
         \/ RunCleanup
         \/ \E p \in Callers : DropExpired(p)
         \/ \E p \in Uploads \cup Cancels : DeleteSession(p)
  BY DEF Next, Underway, UploadSteps, CancelSteps, ConnSteps, PageSteps,
         GetSteps, UnregisterSteps, WriteSteps, Quiet, vars, storeVars, TimePasses, Tick,
         CreateSession, Create, Arrive, GetRead, Refuse, FindExpired, Callers,
         Admitted, AdmitUpload, AdmitCancel, AdmitConn, ServePage, BodyRead,
         BodyRejected, FindReceiver, FindNoReceiver, StartDelivery,
         WriteMeta, WriteData, WriteDone, DeliveryFails, UnregisterNone,
         UnregisterLocks, UnregisterCloses, Upgrade, UpgradeFails, Register,
         RegisterLocks, RegisterReplaces, ReadClosed, ReadGone, ReadCancel,
         CloseConn, PeerLeaves, PeerCancels

(* The mutexes never deadlock: every wait ends with a goroutine that needs *)
(* no other mutex, for any number of uploads, receivers and sessions.      *)
THEOREM WaitsEnd == Spec => []NoCircularWait
<1>1. ASSUME RelayInv PROVE NoCircularWait
  <2>. USE <1>1 DEF RelayInv
  <2>1. ASSUME NEW w \in Conns, recvLock[w] # Nobody
        PROVE  MovesOn(recvLock[w])
    <3>1. recvLock[w] \in Uploads
      BY <2>1 DEF RelayTypeOK, HubTypeOK
    <3>. QED BY <3>1 DEF LocksInv, MovesOn
  <2>2. ASSUME NEW q \in Callers, hubLock = q
        PROVE  \/ MovesOn(q)
               \/ Awaited(q) # Nobody /\ MovesOn(Awaited(q))
    <3>1. pc[q] \in {"replacing", "closing"}
      BY <2>2 DEF LocksInv
    <3>2. PICK w \in Conns : receivers[IdOf(q)] = w
      BY <3>1 DEF RegistryInv, IdOf
    <3>3. Awaited(q) = recvLock[w]
      BY <3>1, <3>2 DEF Awaited
    <3>4. recvLock[w] = Nobody => MovesOn(q)
      BY <3>1, <3>3 DEF MovesOn
    <3>5. recvLock[w] # Nobody => MovesOn(recvLock[w])
      BY <2>1
    <3>. QED BY <3>3, <3>4, <3>5
  <2>3. ASSUME NEW p \in Callers, Awaited(p) # Nobody
        PROVE  \/ MovesOn(Awaited(p))
               \/ /\ Awaited(Awaited(p)) # Nobody
                  /\ MovesOn(Awaited(Awaited(p)))
    <3>1. CASE pc[p] \in {"lookup", "register", "unregister"}
      <4>1. Awaited(p) = hubLock /\ hubLock \in Callers
        BY <2>3, <3>1 DEF Awaited, RelayTypeOK, HubTypeOK
      <4>. QED BY <2>2, <4>1
    <3>2. CASE pc[p] = "lockReceiver"
      <4>1. Awaited(p) = recvLock[target[p]]
        BY <3>2 DEF Awaited
      <4>2. target[p] \in Conns
        BY <3>2 DEF RelayTypeOK, ArgumentsInv, Callers, CancelPCs, ConnPCs,
                    PagePCs
      <4>. QED BY <2>1, <2>3, <4>1, <4>2
    <3>3. CASE pc[p] \in {"replacing", "closing"}
      <4>1. Awaited(p) = recvLock[receivers[IdOf(p)]]
        BY <3>3 DEF Awaited
      <4>2. receivers[IdOf(p)] \in Conns
        BY <3>3 DEF RegistryInv, IdOf
      <4>. QED BY <2>1, <2>3, <4>1, <4>2
    <3>4. CASE pc[p] \notin {"lookup", "register", "unregister", "lockReceiver",
                             "replacing", "closing"}
      BY <2>3, <3>4 DEF Awaited
    <3>. QED BY <3>1, <3>2, <3>3, <3>4
  <2>. QED BY <2>3 DEF NoCircularWait
<1>. QED BY <1>1, RelayInvariance, PTL

(* No socket is closed between two frames of a delivery to it, although    *)
(* the read loop closes its connection without receiver.mu: by then the    *)
(* registry has closed it.                                                 *)
THEOREM DeliveriesAreNotClosed == Spec => NoCloseDuringDelivery
<1>1. ASSUME RelayInv, [Next]_vars, NEW w \in Conns,
             sock[w] = "open", sock'[w] = "closed"
      PROVE  recvLock[w] = Nobody
  <2>. USE DEF RelayInv, RelayTypeOK, HubTypeOK, At, GoTo, IdOf, Callers
  <2>1. ASSUME NEW v \in Conns, Upgrade(v) PROVE FALSE
    BY <1>1, <2>1 DEF Upgrade, Open
  <2>2. ASSUME NEW v \in Conns, RegisterReplaces(v) PROVE recvLock[w] = Nobody
    BY <1>1, <2>2 DEF RegisterReplaces, RegisterReplacing
  <2>3. ASSUME NEW p \in Uploads \cup Cancels \cup Conns, UnregisterCloses(p)
        PROVE  recvLock[w] = Nobody
    BY <1>1, <2>3 DEF UnregisterCloses, UnregisterClosing
  <2>4. ASSUME NEW v \in Conns, CloseConn(v) PROVE FALSE
    <3>1. v = w /\ pc[w] = "closeConn"
      BY <1>1, <2>4 DEF CloseConn, Close
    <3>2. receivers[call[w].id] = w /\ call[w].id \in SessionIds
      BY <1>1, <3>1
      DEF RegistryInv, RegistryHoldsOpenReceivers, ArgumentsInv
    <3>. QED
      BY <1>1, <3>1, <3>2 DEF RegistryInv, RegistryHoldsOpenReceivers
  <2>5. \/ sock' = sock
        \/ \E v \in Conns : Upgrade(v) \/ RegisterReplaces(v) \/ CloseConn(v)
        \/ \E p \in Uploads \cup Cancels \cup Conns : UnregisterCloses(p)
    BY <1>1, SocketSteps
  <2>. QED BY <1>1, <2>1, <2>2, <2>3, <2>4, <2>5
<1>2. RelayInv /\ [Next]_vars
        => \A w \in Conns :
             sock[w] = "open" /\ sock'[w] = "closed" => recvLock[w] = Nobody
  BY <1>1
<1>. QED BY <1>2, RelayInvariance, PTL DEF Spec, NoCloseDuringDelivery

(* Only expiry, an authorised cancel or a complete delivery ends a session.*)
THEOREM SessionsEndForCause == Spec => SessionEndsForCause
<1>1. ASSUME RelayInv, [Next]_vars, NEW s \in sessions \ sessions'
      PROVE  EndsForCause(s)
  <2>. USE DEF At, GoTo, Finish, IdOf, Callers
  <2>1. ASSUME RunCleanup PROVE EndsForCause(s)
    BY <1>1, <2>1 DEF RunCleanup, Cleanup, Expired, EndsForCause
  <2>2. ASSUME NEW p \in Callers, DropExpired(p) PROVE EndsForCause(s)
    <3>1. s = call[p].id /\ pc[p] = "expire"
      BY <1>1, <2>2 DEF DropExpired, Delete
    <3>. QED BY <1>1, <3>1 DEF RelayInv, SessionsInv, Expired, EndsForCause
  <2>3. ASSUME NEW p \in Uploads \cup Cancels, DeleteSession(p)
        PROVE  EndsForCause(s)
    <3>1. s = call[p].id /\ pc[p] = "deleteSession"
      BY <1>1, <2>3 DEF DeleteSession, Delete
    <3>2. CASE p \in Cancels
      BY <1>1, <3>1, <3>2 DEF RelayInv, ArgumentsInv, EndsForCause
    <3>3. CASE p \in Uploads
      BY <1>1, <3>1, <3>3 DEF RelayInv, RelayedInv, EndsForCause
    <3>. QED BY <3>2, <3>3
  <2>. QED BY <1>1, <2>1, <2>2, <2>3, StoreSteps
<1>2. RelayInv /\ [Next]_vars => \A s \in sessions \ sessions' : EndsForCause(s)
  BY <1>1
<1>. QED BY <1>2, RelayInvariance, PTL DEF Spec, SessionEndsForCause
============================================================================
