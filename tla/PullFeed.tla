------------------------------- MODULE PullFeed -------------------------------
(***************************************************************************)
(* What a pull supplier proxy promises to the consumers that pull from it, *)
(* without locks, waits and timers: events are handed out in the order in  *)
(* which they were accepted, each at most once, in batches of a bounded    *)
(* size; an accepted event is discarded only to keep the queue within its  *)
(* limit, the oldest first; after the disconnection nothing is accepted    *)
(* or handed out any more.                                                 *)
(***************************************************************************)
EXTENDS Integers, Sequences

VARIABLES
  accepted,      \* number of events accepted, which are numbered 1, 2, ...
  pending,       \* the events waiting to be pulled
  last,          \* the event handed out last
  closed,        \* has the proxy been disconnected?
  batch, limit   \* the greatest batch; the greatest length, or 0 for none

vars == <<accepted, pending, last, closed, batch, limit>>

Init ==
  /\ accepted = 0 /\ pending = <<>> /\ last = 0 /\ ~closed
  /\ batch \in Nat /\ limit \in Nat

\* Some of the oldest events may go, but only when the limit is then used up.
Accept ==
  /\ ~closed /\ accepted' = accepted + 1
  /\ \E n \in 0..Len(pending) :
       /\ pending' = Append(SubSeq(pending, n + 1, Len(pending)), accepted')
       /\ n > 0 => limit > 0 /\ Len(pending') = limit
       /\ limit > 0 => Len(pending') <= limit
  /\ UNCHANGED <<last, closed, batch, limit>>

HandOut ==
  /\ ~closed
  /\ \E n \in 1..Len(pending) :
       /\ n <= batch
       /\ last' = pending[n]
       /\ pending' = SubSeq(pending, n + 1, Len(pending))
  /\ UNCHANGED <<accepted, closed, batch, limit>>

\* set_qos: a longer queue is not cut.
Change == 
  /\ batch' \in Nat /\ limit' \in Nat
  /\ UNCHANGED <<accepted, pending, last, closed>>

Close ==
  /\ ~closed /\ closed' = TRUE /\ pending' = <<>>
  /\ UNCHANGED <<accepted, last, batch, limit>>

Next == Accept \/ HandOut \/ Change \/ Close
Spec == Init /\ [][Next]_vars
=============================================================================
