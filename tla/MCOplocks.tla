------------------------------- MODULE MCOplocks -------------------------------
(* Instances of Oplocks for TLC.                                           *)
EXTENDS Oplocks, TLC

\* Objects, entries and threads are not told apart.
OplockSymmetry ==
  Permutations(Thread) \cup Permutations(Object) \cup Permutations(Entry)
=============================================================================
