----------------------------- MODULE MCEventQueue -----------------------------
(* Model values and symmetry for the runs of EventQueue.                   *)
EXTENDS EventQueue, TLC

ThreadSymmetry == Permutations(Consumer)
=============================================================================
