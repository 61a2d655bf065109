--------------------------- MODULE MCAdminLifecycle ---------------------------
(* Instances of AdminLifecycle for TLC: a proxy of the sequence push class *)
(* next to two of the others, one of which is never connected.            *)
EXTENDS AdminLifecycle
=============================================================================
