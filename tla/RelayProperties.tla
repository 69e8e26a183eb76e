-------------------------- MODULE RelayProperties --------------------------
(***************************************************************************)
(* What the relay promises to the phone and to the PC, and three           *)
(* statements of the sources that it does not keep.                        *)
(***************************************************************************)
EXTENDS Relay

Has(w, kind, u) ==
    \E i \in 1..Len(wire[w]) : wire[w][i] = [kind |-> kind, upload |-> u]

(* Upload u was written to the end on the socket of w.                     *)
Relayed(u, w) == Has(w, "done", u)

(* Some frame of u was written to w.                                       *)
Touched(u, w) == \E i \in 1..Len(wire[w]) : wire[w][i].upload = u
-----------------------------------------------------------------------------
(* Safety.                                                                 *)

Follows(f, g) ==
    \/ f.kind = "meta" /\ g = [kind |-> "data", upload |-> f.upload]
    \/ f.kind = "data" /\ g = [kind |-> "done", upload |-> f.upload]
    \/ f.kind = "done" /\ g.kind = "meta"

InProgress(w, f) ==
    /\ recvLock[w] = f.upload
    /\ pc[f.upload] = IF f.kind = "meta" THEN "writeData" ELSE "writeDone"

(* Deliver: whatever uploads, evictions and read loops interleave, a       *)
(* socket carries whole deliveries, meta, data and done of one upload each *)
(* and never mixed.  Only the last can be cut short, and then its upload   *)
(* still writes or the socket takes no more writes.                        *)
FramesWhole ==
    \A w \in Conns :
        LET n == Len(wire[w]) IN
        n > 0 =>
            /\ wire[w][1].kind = "meta"
            /\ \A i \in 1..(n - 1) : Follows(wire[w][i], wire[w][i + 1])
            /\ \/ wire[w][n].kind = "done"
               \/ InProgress(w, wire[w][n])
               \/ broken[w]

(* Register, Unregister: the registry holds exactly the open connections   *)
(* past their registration, each under the session it presented a valid    *)
(* token for, so no receiver is handed a photo after its socket was        *)
(* closed, no open socket is left that nothing will ever close, and a read *)
(* loop never ends leaving its socket open.                                *)
RegistryHoldsOpenReceivers ==
    /\ \A s \in SessionIds, w \in Conns :
         receivers[s] = w =>
            /\ sock[w] = "open"
            /\ call[w].id = s /\ call[w].tokenMatches
            /\ pc[w] \in {"reading", "unregister", "closing"}
    /\ \A w \in Conns :
         sock[w] = "open" /\ pc[w] \notin {"register", "replacing"}
            => receivers[call[w].id] = w

(* Deliver: an upload reaches only connections of its own session, and     *)
(* both sides had presented the token of that session.                     *)
RelayedWithinSession ==
    \A w \in Conns, u \in Uploads :
        Touched(u, w) =>
            /\ call[u].id = call[w].id
            /\ call[u].tokenMatches /\ call[w].tokenMatches

(* handleUpload: the phone is told ok only for an upload written to the    *)
(* end to one receiver; an upload that was refused left no frame at all;   *)
(* and no upload is spread over two receivers, whichever replaced which.   *)
AnswerTellsRelay ==
    \A u \in Uploads :
        /\ answer[u] = "ok" => \E w \in Conns : Relayed(u, w)
        /\ answer[u] \notin {"none", "ok", "internal"} =>
               \A w \in Conns : ~Touched(u, w)
        /\ \A v, w \in Conns : Touched(u, v) /\ Touched(u, w) => v = w

(* Once an upload was answered ok, a cancel answered or an expiry found,   *)
(* the session is gone and stays gone: no request that arrives later finds *)
(* it, in spite of whatever handlers were still under way.                 *)
AnsweredSessionIsGone ==
    \A p \in Callers :
        answer[p] \in {"ok", "no_content", "session_expired"} =>
            call[p].id \notin sessions

(* A session leaves the store only because it expired, because a cancel    *)
(* that presented its token is at its deletion, or because an upload of it *)
(* is, which was written to the end: no rejected, failed or foreign        *)
(* request ends it.                                                        *)
EndsForCause(s) ==
    \/ now > expiresAt[s]
    \/ \E c \in Cancels :
          At(c, "deleteSession") /\ call[c].id = s /\ call[c].tokenMatches
    \/ \E u \in Uploads, w \in Conns :
          At(u, "deleteSession") /\ call[u].id = s /\ Relayed(u, w)
SessionEndsForCause == [][\A s \in sessions \ sessions' : EndsForCause(s)]_vars

(* receiver.close waits for receiver.mu and the read loop closes its       *)
(* connection with no mutex at all: all the same, no socket is closed      *)
(* between the frames of a delivery to it.                                 *)
NoCloseDuringDelivery ==
    [][\A w \in Conns :
         sock[w] = "open" /\ sock'[w] = "closed" => recvLock[w] = Nobody]_vars

(* The holder of the mutex p stands at the Lock() of: Hub.mu, the          *)
(* receiver.mu of the receiver Deliver looked up, or, with Hub.mu in hand, *)
(* that of the receiver to evict.                                          *)
Awaited(p) ==
    CASE pc[p] \in {"lookup", "register", "unregister"} -> hubLock
      [] pc[p] = "lockReceiver" -> recvLock[target[p]]
      [] pc[p] \in {"replacing", "closing"} -> recvLock[receivers[IdOf(p)]]
      [] OTHER -> Nobody

(* At a write, which the deadline ends, or evicting a receiver whose       *)
(* receiver.mu is free.                                                    *)
MovesOn(p) ==
    \/ pc[p] \in Writing
    \/ pc[p] \in {"replacing", "closing"} /\ Awaited(p) = Nobody

(* Register and Unregister take receiver.mu inside Hub.mu, Deliver takes   *)
(* one after the other: whoever waits for a mutex waits for a goroutine    *)
(* that moves on, or for an eviction that waits for one that does.  No     *)
(* circle closes, and no mutex stays with a goroutine that left.           *)
NoCircularWait ==
    \A p \in Callers :
        LET q == Awaited(p) IN
        q # Nobody => \/ MovesOn(q)
                      \/ Awaited(q) # Nobody /\ MovesOn(Awaited(q))
-----------------------------------------------------------------------------
(* Liveness, under FairSpec.                                               *)

(* Once its body was read an upload is answered, however receivers come    *)
(* and go: no goroutine waits for ever on Hub.mu or receiver.mu.           *)
UploadAnswered == \A u \in Uploads : At(u, "lookup") ~> At(u, "finished")

(* A cancel is answered although Unregister may have to wait, holding      *)
(* Hub.mu, for a delivery to end.                                          *)
CancelAnswered == \A c \in Cancels : At(c, "check") ~> At(c, "finished")

(* The socket of a PC that left is closed and its goroutine ends.          *)
GoneReceiverReleased ==
    \A w \in Conns : (peer[w] = "gone") ~> (At(w, "finished") /\ sock[w] = "closed")

(* RunCleanup: a session past its expiry leaves the store although nobody  *)
(* asks for it.                                                            *)
ExpiredSessionRemoved ==
    \A s \in SessionIds : (s \in sessions /\ now > expiresAt[s]) ~> (s \notin sessions)
-----------------------------------------------------------------------------
(* Statements of the sources that the code does not keep.                  *)

(* handlers.go:150, "the session is single-use": two uploads of one        *)
(* session are never both answered ok.                                     *)
SingleUse ==
    \A u, v \in Uploads :
        u # v /\ answer[u] = "ok" /\ answer[v] = "ok" => call[u].id # call[v].id

(* ws.go:32, "reads frames from the receiver until it disconnects or       *)
(* cancels, then unregisters it": what a read loop closes when it          *)
(* unregisters is its own connection.                                      *)
UnregistersItself ==
    [][\A w, v \in Conns :
         At(v, "closing") /\ ~At(v, "closing")'
            /\ sock[w] = "open" /\ sock'[w] = "closed" => w = v]_vars

(* handlers.go:36, "releases a session and its receiver early": after a    *)
(* cancel was answered the session has no receiver.                        *)
CancelReleasesReceiver ==
    \A c \in Cancels : answer[c] = "no_content" => receivers[call[c].id] = NoConn
============================================================================
