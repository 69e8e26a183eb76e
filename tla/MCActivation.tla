---------------------------- MODULE MCActivation ----------------------------
(* Small instances of the background worker for TLC.  They have no symmetry *)
(* set, which is unsound for the liveness property.                         *)
EXTENDS Activation
============================================================================
