------------------------------ MODULE Pairing ------------------------------
(***************************************************************************)
(* What the relay promises to those who use it, without locks, handlers,   *)
(* sockets or frames.  A session is drawn once, lives, and ends for good.  *)
(* A request that presents its token while it lives holds it from then on, *)
(* even after its end: that is all the relay looks at later.  A photo is   *)
(* given whole to one connection that holds the session of the upload, and *)
(* what each request is told is true.                                      *)
(***************************************************************************)
CONSTANTS
    Sessions,
    Uploads,    \* requests that bring a photo
    Cancels,    \* requests that end a session
    Others,     \* connections that wait for a photo, requests for the page
    None        \* the session of a request that holds none

VARIABLES
    life,       \* per session
    overdue,    \* the sessions past their deadline
    holds,      \* per request, the session it holds
    given,      \* <<upload, connection>>: the photo was given whole
    said        \* per request, what it was told

vars == <<life, overdue, holds, given, said>>

Requests == Uploads \cup Cancels \cup Others

Init ==
    /\ life = [s \in Sessions |-> "undrawn"]
    /\ overdue = {}
    /\ holds = [p \in Requests |-> None]
    /\ given = {}
    /\ said = [p \in Requests |-> "nothing"]

Ends(S) == life' = [s \in Sessions |-> IF s \in S THEN "ended" ELSE life[s]]
Told(p, word) == said[p] = "nothing" /\ said' = [said EXCEPT ![p] = word]
-----------------------------------------------------------------------------
Draw(s) ==
    /\ life[s] = "undrawn"
    /\ life' = [life EXCEPT ![s] = "live"]
    /\ UNCHANGED <<overdue, holds, given, said>>

(* A session may live on after its deadline, until somebody notices.       *)
PassDeadlines ==
    /\ overdue \subseteq overdue' /\ overdue' \subseteq Sessions
    /\ \A s \in overdue' : life[s] # "undrawn"
    /\ UNCHANGED <<life, holds, given, said>>

Expire ==
    /\ \E S \in SUBSET overdue : Ends(S)
    /\ UNCHANGED <<overdue, holds, given, said>>

Present(p, s) ==
    /\ life[s] = "live"
    /\ holds[p] = None /\ said[p] = "nothing"
    /\ holds' = [holds EXCEPT ![p] = s]
    /\ UNCHANGED <<life, overdue, given, said>>

(* A photo is given once, to a holder of the same session.                 *)
Give(u, w) ==
    /\ holds[u] # None /\ holds[w] = holds[u]
    /\ said[u] = "nothing" /\ \A v \in Others : <<u, v>> \notin given
    /\ given' = given \cup {<<u, w>>}
    /\ UNCHANGED <<life, overdue, holds, said>>

(* An upload is told ok once its photo was given, a cancel at any time, and *)
(* both end the session; the others are let in.                            *)
SayOk(p) ==
    /\ holds[p] # None
    /\ p \in Uploads => \E w \in Others : <<p, w>> \in given
    /\ Told(p, "ok")
    /\ Ends(IF p \in Others THEN {} ELSE {holds[p]})
    /\ UNCHANGED <<overdue, holds, given>>

(* Whoever is refused leaves nothing behind, but for the end of an overdue *)
(* session that its request brought to light.                              *)
SayNo(p) ==
    /\ \A w \in Others : <<p, w>> \notin given
    /\ Told(p, "no")
    /\ \E S \in SUBSET overdue : Ends(S)
    /\ UNCHANGED <<overdue, holds, given>>

Next ==
    \/ \E s \in Sessions : Draw(s) \/ \E p \in Requests : Present(p, s)
    \/ PassDeadlines \/ Expire
    \/ \E u \in Uploads, w \in Others : Give(u, w)
    \/ \E p \in Requests : SayOk(p) \/ SayNo(p)

Spec == Init /\ [][Next]_vars
============================================================================
