-------------------------- MODULE MCExtensionFlow --------------------------
(* Small instances of the content script for TLC.                          *)
EXTENDS ExtensionFlow, TLC

(* The inputs of the page differ only by their name.                       *)
InputSymmetry == Permutations(Inputs)
============================================================================
