------------------------------- MODULE EventFeed -------------------------------
(***************************************************************************)
(* What the queue of announced events promises to the admin dispatch       *)
(* threads, without lists, locks, reference counts or collection: a thread *)
(* enters the feed at some event already published and from there on gets  *)
(* every event, once, in the order of publication.  After the feed has     *)
(* closed nothing is published and a thread may be left where it is.       *)
(***************************************************************************)
EXTENDS Integers

CONSTANTS Consumer, MaxEvents

VARIABLES
  last,    \* number of events published
  cursor,  \* number of the event a thread got last, 0 before its first
  closed

vars == <<last, cursor, closed>>

Init == last = 0 /\ cursor = [c \in Consumer |-> 0] /\ closed = FALSE

Publish ==
  /\ ~closed /\ last < MaxEvents
  /\ last' = last + 1
  /\ UNCHANGED <<cursor, closed>>

Deliver(c) ==
  /\ cursor[c] < last
  /\ \E e \in 1..last :
       /\ cursor[c] # 0 => e = cursor[c] + 1
       /\ cursor' = [cursor EXCEPT ![c] = e]
  /\ UNCHANGED <<last, closed>>

Close == ~closed /\ closed' = TRUE /\ UNCHANGED <<last, cursor>>

Next == Publish \/ Close \/ \E c \in Consumer : Deliver(c)

Spec     == Init /\ [][Next]_vars
FairSpec == Spec /\ \A c \in Consumer : WF_vars(~closed /\ Deliver(c))
=============================================================================
