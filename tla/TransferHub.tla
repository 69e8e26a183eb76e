---------------------------- MODULE TransferHub ----------------------------
(***************************************************************************)
(* The hub (server/internal/transfer): at most one waiting receiver per    *)
(* session, a mutex on the registry (Hub.mu) and one per receiver          *)
(* (receiver.mu).  Register and Unregister close the receiver they evict   *)
(* while they hold Hub.mu, and closing waits for receiver.mu; Deliver      *)
(* takes Hub.mu only to look the receiver up and writes its three frames   *)
(* under receiver.mu alone.                                                *)
(*                                                                         *)
(* A connection registers at most once, so the receiver that wraps it is   *)
(* identified with it.  A frame is on the wire once the write returned     *)
(* without error.  The library remembers a write error: after one, every   *)
(* write on that connection fails.                                         *)
(***************************************************************************)
EXTENDS Sequences, RelayActors

VARIABLES
    hubLock,    \* the holder of Hub.mu
    recvLock,   \* per connection, the holder of receiver.mu
    receivers,  \* Hub.receivers
    sock,       \* per connection: "none", "open", or "closed" by the server
    broken,     \* per connection, whether its writes fail for good
    wire,       \* per connection, the frames written to it
    target      \* per upload, the receiver Deliver looked up

hubVars == <<hubLock, recvLock, receivers, sock, broken, wire, target>>

Frame == [kind : {"meta", "data", "done"}, upload : Uploads]

HubTypeOK ==
    /\ hubLock \in Callers \cup {Nobody}
    /\ recvLock \in [Conns -> Uploads \cup {Nobody}]
    /\ receivers \in [SessionIds -> Conns \cup {NoConn}]
    /\ sock \in [Conns -> {"none", "open", "closed"}]
    /\ broken \in [Conns -> BOOLEAN]
    /\ wire \in [Conns -> Seq(Frame)]
    /\ target \in [Uploads -> Conns \cup {NoConn}]

HubInit ==
    /\ hubLock = Nobody
    /\ recvLock = [w \in Conns |-> Nobody]
    /\ receivers = [s \in SessionIds |-> NoConn]
    /\ sock = [w \in Conns |-> "none"]
    /\ broken = [w \in Conns |-> FALSE]
    /\ wire = [w \in Conns |-> << >>]
    /\ target = [u \in Uploads |-> NoConn]
-----------------------------------------------------------------------------
(* Faulty variants of operations below: one plausible slip each, to show   *)
(* that the properties notice it.                                          *)

(* Register overwrites the previous receiver and leaves its socket open.   *)
ReplaceWithoutClosing(w, s) ==
    /\ hubLock = w
    /\ recvLock[receivers[s]] = Nobody
    /\ receivers' = [receivers EXCEPT ![s] = w]
    /\ hubLock' = Nobody
    /\ UNCHANGED <<recvLock, sock, broken, wire, target>>

(* receiver.close does not take receiver.mu.                               *)
CloseWithoutReceiverLock(p, s) ==
    /\ hubLock = p
    /\ sock' = [sock EXCEPT ![receivers[s]] = "closed"]
    /\ receivers' = [receivers EXCEPT ![s] = NoConn]
    /\ hubLock' = Nobody
    /\ UNCHANGED <<recvLock, broken, wire, target>>

(* Unregister closes the receiver and leaves it in the map.                *)
CloseWithoutDeleting(p, s) ==
    /\ hubLock = p
    /\ recvLock[receivers[s]] = Nobody
    /\ sock' = [sock EXCEPT ![receivers[s]] = "closed"]
    /\ hubLock' = Nobody
    /\ UNCHANGED <<recvLock, receivers, broken, wire, target>>

(* Deliver does not take receiver.mu.                                      *)
DeliverWithoutLock(u) == target[u] # NoConn /\ UNCHANGED hubVars

(* Deliver returns an error without unlocking receiver.mu.                 *)
FailKeepingTheLock(u) ==
    /\ broken' = [broken EXCEPT ![target[u]] = TRUE]
    /\ UNCHANGED <<hubLock, recvLock, receivers, sock, wire, target>>
-----------------------------------------------------------------------------
(* upgrader.Upgrade: the handshake is done and the connection is open.     *)
Open(w) ==
    /\ sock' = [sock EXCEPT ![w] = "open"]
    /\ UNCHANGED <<hubLock, recvLock, receivers, broken, wire, target>>

(* conn.Close() outside any mutex.                                         *)
Close(w) ==
    /\ sock' = [sock EXCEPT ![w] = "closed"]
    /\ UNCHANGED <<hubLock, recvLock, receivers, broken, wire, target>>

(* The reader learnt that the peer is gone.  If the peer said goodbye, the *)
(* library answered and takes no more writes; if the stream just ended,    *)
(* writes may still reach a buffer.                                        *)
Break(w) ==
    /\ broken' \in {broken, [broken EXCEPT ![w] = TRUE]}
    /\ UNCHANGED <<hubLock, recvLock, receivers, sock, wire, target>>

(* Register with no previous receiver: one critical section of Hub.mu.     *)
RegisterFirst(w, s) ==
    /\ hubLock = Nobody
    /\ receivers[s] = NoConn
    /\ receivers' = [receivers EXCEPT ![s] = w]
    /\ UNCHANGED <<hubLock, recvLock, sock, broken, wire, target>>

(* Register, or Unregister, found a receiver to evict: Hub.mu stays held.  *)
LockToEvict(p, s) ==
    /\ hubLock = Nobody
    /\ receivers[s] # NoConn
    /\ hubLock' = p
    /\ UNCHANGED <<recvLock, receivers, sock, broken, wire, target>>

(* Register, once prev.close() got prev.mu.                                *)
RegisterReplacing(w, s) ==
    /\ hubLock = w
    /\ recvLock[receivers[s]] = Nobody
    /\ sock' = [sock EXCEPT ![receivers[s]] = "closed"]
    /\ receivers' = [receivers EXCEPT ![s] = w]
    /\ hubLock' = Nobody
    /\ UNCHANGED <<recvLock, broken, wire, target>>

UnregisterNothing(s) ==
    /\ hubLock = Nobody
    /\ receivers[s] = NoConn
    /\ UNCHANGED hubVars

(* Unregister, once r.close() got r.mu.                                    *)
UnregisterClosing(p, s) ==
    /\ hubLock = p
    /\ recvLock[receivers[s]] = Nobody
    /\ sock' = [sock EXCEPT ![receivers[s]] = "closed"]
    /\ receivers' = [receivers EXCEPT ![s] = NoConn]
    /\ hubLock' = Nobody
    /\ UNCHANGED <<recvLock, broken, wire, target>>

(* Deliver, up to the unlock of Hub.mu.                                    *)
LookUp(u, s) ==
    /\ hubLock = Nobody
    /\ target' = [target EXCEPT ![u] = receivers[s]]
    /\ UNCHANGED <<hubLock, recvLock, receivers, sock, broken, wire>>

(* Deliver, r.mu.Lock().                                                   *)
LockReceiver(u) ==
    /\ recvLock[target[u]] = Nobody
    /\ recvLock' = [recvLock EXCEPT ![target[u]] = u]
    /\ UNCHANGED <<hubLock, receivers, sock, broken, wire, target>>

CanWrite(w) == sock[w] = "open" /\ ~broken[w]

(* Deliver, one WriteMessage that succeeds and is not the last.            *)
Write(u, kind) ==
    LET w == target[u] IN
    /\ CanWrite(w)
    /\ wire' = [wire EXCEPT ![w] = Append(@, [kind |-> kind, upload |-> u])]
    /\ UNCHANGED <<hubLock, recvLock, receivers, sock, broken, target>>

(* Deliver, the last WriteMessage and the deferred unlock.                 *)
WriteLast(u) ==
    LET w == target[u] IN
    /\ CanWrite(w)
    /\ wire' = [wire EXCEPT ![w] = Append(@, [kind |-> "done", upload |-> u])]
    /\ recvLock' = [recvLock EXCEPT ![w] = Nobody]
    /\ UNCHANGED <<hubLock, receivers, sock, broken, target>>

(* Deliver, a WriteMessage that fails (closed or broken connection, or the *)
(* 30 s write deadline of a slow peer) and the deferred unlock.            *)
WriteFails(u) ==
    /\ broken' = [broken EXCEPT ![target[u]] = TRUE]
    /\ recvLock' = [recvLock EXCEPT ![target[u]] = Nobody]
    /\ UNCHANGED <<hubLock, receivers, sock, wire, target>>
============================================================================
