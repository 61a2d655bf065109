----------------------------- MODULE MCChangePool -----------------------------
(* Instances of ChangePool for TLC.                                        *)
EXTENDS ChangePool
=============================================================================
