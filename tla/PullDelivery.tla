----------------------------- MODULE PullDelivery -----------------------------
(***************************************************************************)
(* One pull supplier proxy of a channel (ProxyPullSupplier_i, the          *)
(* structured and the sequence variant): its queue, the clients blocked in *)
(* a pull call, the dispatch threads that add events, changes of its       *)
(* quality of service, and its disposal.  Pullers sleep on the condition   *)
(* variable of the proxy's lock, so a section between two waits is one     *)
(* action.  A pull of one event is one of a batch of one without pacing.   *)
(***************************************************************************)
EXTENDS Integers, FiniteSets, Sequences

CONSTANTS
  Puller,      \* threads with calls of clients
  Kinds,       \* subset of {"any", "structured", "sequence"}
  Maxnums,     \* arguments of pull_structured_events: 0 means no bound
  Qos,         \* settings the clients choose from
  MaxEvents,   \* bound: events accepted
  MaxChanges   \* bound: calls of set_qos

\* MaximumBatchSize and MaxEventsPerConsumer may be 0; pacing stands for a
\* PacingInterval that is not 0; policy for the other four settings the local
\* queue keeps a copy of.
ASSUME PullAssumption ==
  /\ IsFiniteSet(Puller)
  /\ Kinds \subseteq {"any", "structured", "sequence"} /\ Maxnums \subseteq Nat
  /\ Qos \subseteq [batch : Nat, pacing : BOOLEAN, limit : Nat,
                    policy : {"fifo", "other"}]
  /\ MaxEvents \in Nat /\ MaxChanges \in Nat

VARIABLES
  kind, pxstate, \* the variant; _pxstate
  queue,     \* _ntfqueue
  qos,       \* *_qosprop
  sorted,    \* _order_policy and so on: the queue's copy of the policies
  timer,     \* _timeout_s and _timeout_n against the clock
  pc, maxnum, \* where each puller is, and its argument
  dis,       \* how far _disconnect_client_and_dispose has come
  crashed,   \* a null pointer has been used
  changes,   \* number of set_qos calls
  accepted, last \* history: events accepted, and the one handed out last

proxy == <<kind, pxstate>>
conf  == <<qos, sorted, changes>>
calls == <<pc, maxnum>>
hist  == <<accepted, last>>
vars  == <<proxy, queue, conf, timer, calls, dis, crashed, hist>>

\* The queue starts with its own policies; only the constructor of the "any"
\* variant has it take over those of the proxy.  That of the sequence variant
\* starts the timer.
Init ==
  /\ kind \in Kinds /\ qos \in Qos /\ pxstate = "NotConnected"
  /\ queue = <<>> /\ sorted = IF kind = "any" THEN qos.policy ELSE "fifo"
  /\ timer = IF kind = "sequence" /\ qos.pacing THEN "running" ELSE "unset"
  /\ pc = [p \in Puller |-> "idle"] /\ maxnum = [p \in Puller |-> 0]
  /\ dis = "no" /\ crashed = FALSE /\ changes = 0 /\ accepted = 0 /\ last = 0

-----------------------------------------------------------------------------
(* Helpers                                                                 *)

Waiting == {p \in Puller : pc[p] \in {"wait", "timed"}}
Woken   == {p \in Puller : pc[p] = "woken"}
Blocked == Waiting \cup Woken

Paced == kind = "sequence" /\ qos.pacing

\* bsize: at most maxnum events, if that is given.
Bsize(m) ==
  IF kind # "sequence" THEN 1
  ELSE IF m = 0 \/ m > qos.batch THEN qos.batch ELSE m

\* Wrong: the signal is forgotten.
Signal_none == UNCHANGED pc

\* RDI_OPLOCK_SIGNAL: one waiting puller, if there is one, is woken.
Signal ==
  IF Waiting = {} THEN UNCHANGED pc
  ELSE \E p \in Waiting : pc' = [pc EXCEPT ![p] = "woken"]

\* Wrong: only one puller is woken.
Broadcast_one == Signal

\* RDI_OPLOCK_BROADCAST
Broadcast == pc' = [p \in Puller |-> IF p \in Waiting THEN "woken" ELSE pc[p]]

\* Wrong: the events come from the end of the queue.
HandOver_newest(n) ==
  /\ queue' = SubSeq(queue, 1, Len(queue) - n)
  /\ last' = IF n = 0 THEN last ELSE queue[Len(queue)]
  /\ UNCHANGED accepted

\* The n oldest events go into the answer.
HandOver(n) ==
  /\ queue' = SubSeq(queue, n + 1, Len(queue))
  /\ last' = IF n = 0 THEN last ELSE queue[n]
  /\ UNCHANGED accepted

-----------------------------------------------------------------------------
(* The calls of the consumers                                              *)

\* connect_any_pull_consumer and its variants
Connect ==
  /\ pxstate = "NotConnected" /\ pxstate' = "Connected"
  /\ UNCHANGED <<kind, queue, conf, timer, calls, dis, crashed, hist>>

\* A pacing interval without a running timer starts it.
Timer ==
  IF ~Paced THEN IF kind = "sequence" THEN "unset" ELSE timer
  ELSE IF timer = "unset" THEN "running" ELSE timer

\* A full batch, or something after the pacing interval.
Ready(m) == Len(queue) >= Bsize(m) \/ (queue # <<>> /\ Paced /\ Timer = "passed")

\* The loop of pull and pull_structured_events up to its next wait or to the
\* return: with the batch, or with the exception Disconnected.
Loop(p, m) ==
  \/ /\ pxstate # "Connected"
     /\ pc' = [pc EXCEPT ![p] = "idle"]
     /\ timer' = Timer /\ UNCHANGED <<queue, hist>>
  \/ /\ pxstate = "Connected" /\ Ready(m)
     /\ pc' = [pc EXCEPT ![p] = "idle"]
     /\ HandOver(IF Len(queue) < Bsize(m) THEN Len(queue) ELSE Bsize(m))
     /\ timer' = IF Paced THEN "running" ELSE Timer
  \/ /\ pxstate = "Connected" /\ ~Ready(m)
     /\ pc' = [pc EXCEPT ![p] = IF queue # <<>> /\ Paced THEN "timed" ELSE "wait"]
     /\ timer' = Timer /\ UNCHANGED <<queue, hist>>

\* A call on a proxy that is not connected only throws.
Pull(p) ==
  /\ pc[p] = "idle" /\ pxstate = "Connected"
  /\ \E m \in Maxnums :
       /\ maxnum' = [maxnum EXCEPT ![p] = m]
       /\ Loop(p, m)
  /\ UNCHANGED <<proxy, conf, dis, crashed>>

\* A signal, the broadcast of the disconnection, or the end of a timed wait
\* has ended the wait.
Resume(p) ==
  /\ pc[p] = "woken" /\ Loop(p, maxnum[p])
  /\ UNCHANGED <<proxy, conf, maxnum, dis, crashed>>

\* try_pull and try_pull_structured_events: whatever is there.
TryPull ==
  /\ pxstate = "Connected" /\ queue # <<>>
  /\ \E m \in Maxnums :
       HandOver(IF Len(queue) < Bsize(m) THEN Len(queue) ELSE Bsize(m))
  /\ UNCHANGED <<proxy, conf, timer, calls, dis, crashed>>

TimePasses ==
  /\ timer = "running" /\ timer' = "passed"
  /\ UNCHANGED <<proxy, queue, conf, calls, dis, crashed, hist>>

\* The end of a timed wait.  The deadline waited for may be one that another
\* puller has meanwhile replaced: the timer need not have passed.
TimedWake(p) ==
  /\ pc[p] = "timed" /\ pc' = [pc EXCEPT ![p] = "woken"]
  /\ UNCHANGED <<proxy, queue, conf, timer, maxnum, dis, crashed, hist>>

-----------------------------------------------------------------------------
(* New events and changed settings                                         *)

\* _add_event: the oldest events go until the limit allows one more, whatever
\* DiscardPolicy says; the new one comes last, whatever OrderPolicy says.
Insert(e) ==
  LET n == IF qos.limit = 0 \/ Len(queue) < qos.limit THEN 0
           ELSE Len(queue) - qos.limit + 1
  IN queue' = Append(SubSeq(queue, n + 1, Len(queue)), e)

\* add_event
AddEvent ==
  /\ pxstate = "Connected" /\ accepted < MaxEvents
  /\ accepted' = accepted + 1
  /\ Insert(accepted')
  /\ Signal
  /\ UNCHANGED <<proxy, conf, timer, maxnum, dis, crashed, last>>

\* get_event: the loop ends one step early and has found nothing for i = 1.
GetEvent(q, i) == IF i = 1 THEN 0 ELSE q[i - 1]

\* qos_changed: a queue that is not empty is rebuilt, and the first event asked
\* for is the null pointer that _sort_val then uses.
QosChanged(policy) ==
  /\ sorted' = policy
  /\ crashed' = (policy # sorted /\ queue # <<>> /\ GetEvent(queue, 1) = 0)

\* set_qos of the proxy; nobody is woken.
SetQos ==
  /\ pxstate # "Disconnected" /\ changes < MaxChanges
  /\ changes' = changes + 1
  /\ qos' \in Qos /\ QosChanged(qos'.policy)
  /\ UNCHANGED <<proxy, queue, timer, calls, dis, hist>>

-----------------------------------------------------------------------------
(* Disposal                                                                *)

\* Wrong: the pullers are not waited for.
AwaitInuseOne_atOnce == dis' = "clean" /\ Broadcast

\* Blocked pullers are woken and waited for.
AwaitInuseOne ==
  IF Blocked = {} THEN dis' = "clean" /\ UNCHANGED pc ELSE dis' = "one" /\ Broadcast

\* disconnect_pull_supplier and its variants, the object collector or the admin
Disconnect ==
  /\ pxstate # "Disconnected" /\ pxstate' = "Disconnected"
  /\ AwaitInuseOne
  /\ UNCHANGED <<kind, queue, conf, timer, maxnum, crashed, hist>>

\* The last puller has left and wakes the thread that disposes.
InuseOne ==
  /\ dis = "one" /\ Blocked = {} /\ AwaitInuseOne
  /\ UNCHANGED <<proxy, queue, conf, timer, maxnum, crashed, hist>>

\* After the admin and the type map have forgotten the proxy, *_qosprop and
\* the events are given up, and the object too.
Dispose ==
  /\ dis = "clean" /\ dis' = "done" /\ queue' = <<>>
  /\ UNCHANGED <<proxy, conf, timer, calls, crashed, hist>>

-----------------------------------------------------------------------------
Up(A) == ~crashed /\ A

Next ==
  \/ \E p \in Puller : Up(Pull(p)) \/ Up(Resume(p)) \/ Up(TimedWake(p))
  \/ Up(Connect) \/ Up(TryPull) \/ Up(TimePasses) \/ Up(AddEvent) \/ Up(SetQos)
  \/ Up(Disconnect) \/ Up(InuseOne) \/ Up(Dispose)

Spec == Init /\ [][Next]_vars

\* A woken puller gets the lock, the clock runs, a timed wait ends, and a
\* disposal that has begun goes on.
Fairness ==
  /\ \A p \in Puller : WF_vars(Up(Resume(p))) /\ WF_vars(Up(TimedWake(p)))
  /\ WF_vars(Up(TimePasses)) /\ WF_vars(Up(InuseOne)) /\ WF_vars(Up(Dispose))

FairSpec == Spec /\ Fairness

-----------------------------------------------------------------------------
(* Properties                                                              *)

TypeOK ==
  /\ kind \in Kinds /\ pxstate \in {"NotConnected", "Connected", "Disconnected"}
  /\ queue \in Seq(1..MaxEvents)
  /\ qos \in Qos /\ sorted \in {"fifo", "other"} /\ changes \in 0..MaxChanges
  /\ timer \in {"unset", "running", "passed"}
  /\ pc \in [Puller -> {"idle", "wait", "timed", "woken"}]
  /\ maxnum \in [Puller -> Maxnums \cup {0}]
  /\ dis \in {"no", "one", "clean", "done"} /\ crashed \in BOOLEAN
  /\ accepted \in 0..MaxEvents /\ last \in 0..MaxEvents

\* add_event signals one puller per event, and calls that come meanwhile may be
\* faster: still no puller of single events sleeps while the queue holds more than
\* the woken ones will take.
NoLostWakeup ==
  kind # "sequence" /\ Waiting # {} => Len(queue) <= Cardinality(Woken)

\* _qosprop and the events are deleted when no puller is inside its call: it
\* would read them when it goes on.
NobodyInside == dis \in {"clean", "done"} => Blocked = {}

\* The proxy hands out what it accepted, in order, within batch and limit.
Feed == INSTANCE PullFeed WITH
          pending <- IF pxstate = "Disconnected" THEN <<>> ELSE queue,
          closed <- pxstate = "Disconnected",
          batch <- IF kind = "sequence" THEN qos.batch ELSE 1, limit <- qos.limit
FeedSpec == Feed!Spec

\* Events do not stay while a puller waits for them: a single event, a full batch, or
\* any event after the pacing interval.  (A sequence proxy whose settings change
\* under its sleeping pullers does not tell them.)  And a disconnected proxy lets
\* every blocked call return and is disposed of.
Enough == IF kind = "sequence" /\ ~Paced THEN Len(queue) >= qos.batch ELSE queue # <<>>
Starved == pxstate = "Connected" /\ Blocked # {} /\ Enough
Untold == kind = "sequence" /\ changes > 0
PullersServed ==
  /\ Starved ~> (~Starved \/ Untold \/ crashed)
  /\ pxstate = "Disconnected" ~> (dis = "done" \/ crashed)

\* A change of the quality of service is no reason to crash: "queue must be
\* rebuilt to reflect changes".
NoCrash == ~crashed
=============================================================================
