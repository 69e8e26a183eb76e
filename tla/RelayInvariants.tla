-------------------------- MODULE RelayInvariants --------------------------
(***************************************************************************)
(* The inductive invariant of the relay: what the handlers know of each    *)
(* other between two of their steps, in parts that each rest on the parts  *)
(* before it.                                                              *)
(***************************************************************************)
EXTENDS RelayProperties

(* A handler past Store.Get carries the id, and past its verdict the right *)
(* to it; Deliver locks and writes to a receiver it did find.              *)
ArgumentsInv ==
    /\ \A p \in Callers : pc[p] # "idle" => call[p].id \in SessionIds
    /\ \A p \in Callers : pc[p] \notin {"idle", "check", "expire", "finished"} =>
           call[p].found /\ call[p].tokenMatches
    /\ \A u \in Uploads : pc[u] \in {"lockReceiver"} \cup Writing =>
           target[u] \in Conns

(* Who holds a mutex is at the steps between its lock and its unlock.      *)
LocksInv ==
    /\ \A p \in Callers : hubLock = p <=> pc[p] \in {"replacing", "closing"}
    /\ \A u \in Uploads, w \in Conns :
           recvLock[w] = u <=> pc[u] \in Writing /\ target[u] = w

(* RegistryHoldsOpenReceivers, and what a connection is before it is       *)
(* registered: nobody can close it yet.                                    *)
RegistryInv ==
    /\ RegistryHoldsOpenReceivers
    /\ \A w \in Conns : pc[w] \in {"register", "replacing"} =>
           sock[w] = "open" /\ call[w].tokenMatches
    /\ \A w \in Conns : pc[w] \in {"idle", "check", "expire", "upgrade"} =>
           sock[w] = "none"
    /\ \A p \in Callers : pc[p] \in {"replacing", "closing"} =>
           receivers[call[p].id] \in Conns

LastIs(w, kind, u) ==
    Len(wire[w]) > 0 /\ wire[w][Len(wire[w])] = [kind |-> kind, upload |-> u]

(* FramesWhole, and where an upload between two frames left its socket.    *)
FramesInv ==
    /\ FramesWhole
    /\ \A u \in Uploads :
           /\ pc[u] = "writeData" => LastIs(target[u], "meta", u)
           /\ pc[u] = "writeDone" => LastIs(target[u], "data", u)

(* An id that is, or was found, in the store was drawn before: deleting it *)
(* is for good.                                                            *)
SessionsInv ==
    /\ \A s \in sessions : expiresAt[s] # 0
    /\ \A p \in Callers : call[p].found => expiresAt[call[p].id] # 0
    /\ \A p \in Callers : pc[p] = "expire" => call[p].found /\ Expired(call[p].id)
    /\ \A p \in Callers : answer[p] \in {"ok", "no_content", "session_expired"} =>
           pc[p] = "finished" /\ call[p].found
    /\ AnsweredSessionIsGone

(* An upload writes to the one receiver it looked up, which had presented  *)
(* the token of the same session.                                          *)
RelayedInv ==
    /\ \A u \in Uploads, w \in Conns : target[u] = w =>
           /\ call[u].id = call[w].id
           /\ call[u].tokenMatches /\ call[w].tokenMatches
           /\ pc[w] # "idle"
    /\ \A u \in Uploads :
           pc[u] \in {"idle", "check", "expire", "body", "lookup"} => target[u] = NoConn
    /\ \A u \in Uploads, w \in Conns : Touched(u, w) =>
           target[u] = w /\ pc[u] \notin {"lockReceiver", "writeMeta"}
    /\ \A u \in Uploads : pc[u] # "finished" => answer[u] = "none"
    /\ \A u \in Uploads : answer[u] \notin {"none", "ok", "internal"} => target[u] = NoConn
    /\ \A u \in Uploads :
           pc[u] \in {"unregister", "closing", "deleteSession"} \/ answer[u] = "ok" =>
               target[u] \in Conns /\ Relayed(u, target[u])

(* What the promise of Pairing needs besides: a request is answered once,  *)
(* nobody holds a session before asking for it, a receiver holds the       *)
(* session it receives for, and an upload is written to the end once.      *)
HoldersInv ==
    /\ \A p \in Callers : pc[p] = "idle" => ~call[p].found
    /\ \A p \in Callers :
           \/ p \notin Conns /\ pc[p] # "finished"
           \/ pc[p] \in {"idle", "check", "expire", "upgrade"}
           => answer[p] = "none"
    /\ \A u \in Uploads, w \in Conns : target[u] = w => call[w].found
    /\ \A u \in Uploads, w \in Conns : Relayed(u, w) => pc[u] \notin Writing

(* The whole invariant.                                                    *)
RelayInv ==
    /\ RelayTypeOK
    /\ ArgumentsInv
    /\ LocksInv
    /\ RegistryInv
    /\ FramesInv
    /\ SessionsInv
    /\ RelayedInv
    /\ HoldersInv
============================================================================
