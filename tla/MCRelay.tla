------------------------------ MODULE MCRelay ------------------------------
(* Small instances of the relay for TLC.                                   *)
EXTENDS RelayInvariants, RelayPairing, FiniteSets, TLC

(* Requests of one kind differ only by their name.                         *)
RequestSymmetry ==
    Permutations(Uploads) \cup Permutations(Cancels)
        \cup Permutations(Conns) \cup Permutations(Pages)
SessionSymmetry == RequestSymmetry \cup Permutations(SessionIds)
-----------------------------------------------------------------------------
(* Three crowds of clients in one instance, for the liveness properties,   *)
(* which rule a symmetry set out: an upload, a cancel and a receiver while *)
(* the clock runs past a deadline; two uploads, a cancel and a receiver;   *)
(* an upload and two receivers.  The larger crowds come to a session that  *)
(* does not expire any more, and all of them find it: whoever is refused   *)
(* leaves a smaller crowd behind.                                          *)

Arrived(requests) == {p \in requests : ~At(p, "idle")}
AtMostOne(requests) == Cardinality(Arrived(requests)) <= 1

(* Of two requests of a kind the same one always comes first.              *)
InOrder(requests) ==
    Arrived(requests) # {} => ~At(CHOOSE p \in requests : TRUE, "idle")

AllAdmitted ==
    /\ now = MaxTime
    /\ \A p \in Arrived(Callers) :
          call[p].found /\ call[p].tokenMatches /\ expiresAt[call[p].id] > now

Crowd ==
    /\ InOrder(Uploads) /\ InOrder(Conns)
    /\ \/ AtMostOne(Uploads) /\ AtMostOne(Conns)
       \/ AllAdmitted /\ AtMostOne(Conns)
       \/ AllAdmitted /\ AtMostOne(Uploads) /\ Arrived(Cancels) = {}

(* The crowd limits arrivals only, of which no fairness is assumed; no     *)
(* other step enlarges it or lets its session expire.                      *)
CrowdArrives == \E p \in Callers : Arrive(p) /\ Crowd'
CrowdSpec == Init /\ [][CrowdArrives \/ Underway]_vars /\ Fairness
============================================================================
