------------------------------- MODULE AdminFeed -------------------------------
(***************************************************************************)
(* What the dispatch threads of a channel promise to a consumer admin: it  *)
(* enters the stream of published events at some event, and from there on  *)
(* it is given every event meant for it, once, in the order of             *)
(* publication.  No groups, lists, queues, locks or threads.               *)
(***************************************************************************)
EXTENDS Integers

CONSTANTS
  Admin,
  MaxEvents,
  Meant      \* Meant[a]: the events meant for admin a

VARIABLES
  last,      \* number of events published
  cursor     \* cursor[a]: the event a was given last, 0 before its first

vars == <<last, cursor>>

Init == last = 0 /\ cursor = [a \in Admin |-> 0]

Publish == last < MaxEvents /\ last' = last + 1 /\ UNCHANGED cursor

Follows(a, e) == cursor[a] # 0 => \A d \in Meant[a] : d > cursor[a] => e <= d

Give(a) ==
  /\ \E e \in Meant[a] \cap (1..last) :
       /\ e > cursor[a] /\ Follows(a, e)
       /\ cursor' = [cursor EXCEPT ![a] = e]
  /\ UNCHANGED last

Next == Publish \/ \E a \in Admin : Give(a)
Spec == Init /\ [][Next]_vars
=============================================================================
