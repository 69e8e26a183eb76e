---------------------------- MODULE RelayActors ----------------------------
(***************************************************************************)
(* The goroutines that meet inside the relay server, one per HTTP request. *)
(* net/http gives every request a goroutine of its own; the one that       *)
(* upgrades a WebSocket lives on as the read loop of that connection.      *)
(***************************************************************************)
CONSTANTS
    SessionIds,  \* the ids session.New may draw; each is drawn at most once
    NoSession,   \* the id of a request that has not arrived yet
    Uploads,     \* requests POST /api/upload/{id}, from the phone
    Cancels,     \* requests DELETE /api/sessions/{id}, from the extension
    Conns,       \* requests GET /ws/transfer and the connections they become
    Pages,       \* requests GET /s/{id}, from the phone's browser
    Nobody,      \* the holder of a free mutex
    NoConn       \* the receiver of a session that has none

Callers == Uploads \cup Cancels \cup Conns \cup Pages

ASSUME ActorsAssumption ==
    /\ NoSession \notin SessionIds
    /\ Nobody \notin Callers
    /\ NoConn \notin Conns
    /\ Uploads \cap Cancels = {}
    /\ Uploads \cap Conns = {}
    /\ Uploads \cap Pages = {}
    /\ Cancels \cap Conns = {}
    /\ Cancels \cap Pages = {}
    /\ Conns \cap Pages = {}
============================================================================
