------------------------------- MODULE PushTurns -------------------------------
(***************************************************************************)
(* The order in which the pool threads turn to the proxies: an observer of *)
(* PushDelivery that records, for each proxy with something to push, which *)
(* others got a thread while it kept waiting.                              *)
(***************************************************************************)
EXTENDS PushDelivery

VARIABLE passed  \* passed[p]: proxies that got a thread since p has waited

turnvars == <<vars, passed>>

\* p's entry is in the pool, nobody works on it and there is something to push.
Waiting(p) == p \in ToSet(entries) /\ Available(p)

\* The proxies that get a thread in this step.
Taken == {p \in Proxy : ~inuse[p] /\ inuse'[p]}

TurnsInit == Init /\ passed = [p \in Proxy |-> {}]
TurnsNext ==
  /\ Next
  /\ passed' = [p \in Proxy |-> IF Waiting(p)' THEN passed[p] \cup Taken ELSE {}]
TurnsSpec == TurnsInit /\ [][TurnsNext]_turnvars

\* Round robin (_next_available goes on behind _mylast_one): as long as a proxy
\* waits with something to push, no other proxy gets a thread twice.
RoundRobin ==
  [][\A p \in Proxy : Waiting(p) /\ Waiting(p)' => Taken \cap passed[p] = {}]_turnvars
=============================================================================
