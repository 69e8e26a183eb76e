---------------------------- MODULE RelayPairing ----------------------------
(***************************************************************************)
(* The relay implements Pairing: the abstract state is read off the store, *)
(* the arguments of the handlers, the frames on the sockets and the        *)
(* answers.                                                                *)
(***************************************************************************)
EXTENDS RelayProperties

LifeOf(s) ==
    IF expiresAt[s] = 0 THEN "undrawn"
    ELSE IF s \in sessions THEN "live"
    ELSE "ended"

HeldBy(p) == IF call[p].found /\ call[p].tokenMatches THEN call[p].id ELSE NoSession

Successes == {"ok", "no_content", "switching_protocols", "page"}

WordOf(p) ==
    IF answer[p] = "none" THEN "nothing"
    ELSE IF answer[p] \in Successes THEN "ok"
    ELSE "no"

Promise == INSTANCE Pairing WITH
    Sessions <- SessionIds,
    Others <- Conns \cup Pages,
    None <- NoSession,
    life <- [s \in SessionIds |-> LifeOf(s)],
    overdue <- {s \in SessionIds : expiresAt[s] # 0 /\ now > expiresAt[s]},
    holds <- [p \in Callers |-> HeldBy(p)],
    given <- {d \in Uploads \X Conns : Relayed(d[1], d[2])},
    said <- [p \in Callers |-> WordOf(p)]

(* The handlers, their mutexes, the expiry and the sockets together keep   *)
(* the promise of Pairing: in any interleaving each of their steps is one  *)
(* abstract step or invisible to the phone and the PC.                     *)
KeepsPromise == Promise!Spec
============================================================================
