------------------------------ MODULE MCPushTurns ------------------------------
(* Instances of PushTurns for TLC.                                         *)
EXTENDS PushTurns, TLC

\* Single events and no limit.
TurnsQos == {[size |-> 1, paced |-> FALSE, limit |-> 0]}

\* Neither the proxies nor the pool threads are told apart.
TurnsSymmetry == Permutations(PoolThread) \cup Permutations(Proxy)
=============================================================================
