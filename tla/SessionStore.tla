---------------------------- MODULE SessionStore ----------------------------
(***************************************************************************)
(* The in-memory session store (server/internal/session).  A session is an *)
(* immutable record, so what Store.Get copied under the read lock is known *)
(* from the id alone; what may be stale is whether the id is still there.  *)
(*                                                                         *)
(* Every critical section of Store.mu is a plain map access, so each is    *)
(* one step; Store.Get is two or three: the read, the verdict (taken with  *)
(* no lock held), and the deletion of a session found expired.             *)
(***************************************************************************)
EXTENDS Integers, RelayActors

CONSTANTS
    TTL,      \* Store.ttl, in ticks
    MaxTime   \* bound on the clock

ASSUME ClockAssumption == TTL \in Nat \ {0} /\ MaxTime \in Nat

VARIABLES
    now,        \* time.Now()
    sessions,   \* the domain of Store.sessions
    expiresAt,  \* Session.ExpiresAt, 0 for an id not drawn yet
    call        \* per caller, the arguments of its Store.Get and what it read

storeVars == <<now, sessions, expiresAt, call>>

Call == [id : SessionIds \cup {NoSession},
         tokenMatches : BOOLEAN,   \* the token presented is the session's
         found : BOOLEAN]          \* the id was in the map under the read lock

StoreTypeOK ==
    /\ now \in 0..MaxTime
    /\ sessions \subseteq SessionIds
    /\ expiresAt \in [SessionIds -> Nat]
    /\ call \in [Callers -> Call]

StoreInit ==
    /\ now = 0
    /\ sessions = {}
    /\ expiresAt = [s \in SessionIds |-> 0]
    /\ call = [p \in Callers |-> [id |-> NoSession, tokenMatches |-> FALSE,
                                  found |-> FALSE]]
-----------------------------------------------------------------------------
(* Faulty variants of operations below: one plausible slip each, to show   *)
(* that the properties notice it.                                          *)

(* The deadline itself counts as past it.                                  *)
ExpiredAtDeadline(s) == now >= expiresAt[s]

(* Get forgets the token.                                                  *)
VerdictWithoutToken(p) ==
    IF ~call[p].found THEN "session_not_found"
    ELSE IF now > expiresAt[call[p].id] THEN "session_expired"
    ELSE "ok"

(* The cleanup adds the TTL to a deadline that already holds it.           *)
CleanupTTLTwice ==
    /\ sessions' = {s \in sessions : now <= expiresAt[s] + TTL}
    /\ UNCHANGED <<now, expiresAt, call>>
-----------------------------------------------------------------------------
Tick ==
    /\ now < MaxTime
    /\ now' = now + 1
    /\ UNCHANGED <<sessions, expiresAt, call>>

Expired(s) == now > expiresAt[s]

(* session.New: the deadline of a session created now.                     *)
NewDeadline == now + TTL

(* An id is 16 random bytes: it is never drawn twice.                      *)
Create(s) ==
    /\ expiresAt[s] = 0
    /\ expiresAt' = [expiresAt EXCEPT ![s] = NewDeadline]
    /\ sessions' = sessions \cup {s}
    /\ UNCHANGED <<now, call>>

(* Store.Get, first half: the map read between RLock and RUnlock.          *)
GetRead(p, s, good) ==
    /\ call' = [call EXCEPT ![p] = [id |-> s, tokenMatches |-> good,
                                    found |-> s \in sessions]]
    /\ UNCHANGED <<now, sessions, expiresAt>>

(* Store.Get, second half, on the copy it read: absence, then expiry, then *)
(* the token; "ok" is a nil error.                                         *)
GetVerdict(p) ==
    IF ~call[p].found THEN "session_not_found"
    ELSE IF Expired(call[p].id) THEN "session_expired"
    ELSE IF ~call[p].tokenMatches THEN "invalid_token"
    ELSE "ok"

Delete(s) ==
    /\ sessions' = sessions \ {s}
    /\ UNCHANGED <<now, expiresAt, call>>

(* The ticker's pass over the whole map, under the write lock.             *)
Cleanup ==
    /\ sessions' = {s \in sessions : ~Expired(s)}
    /\ UNCHANGED <<now, expiresAt, call>>
============================================================================
