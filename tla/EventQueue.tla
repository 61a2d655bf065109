------------------------------ MODULE EventQueue ------------------------------
(***************************************************************************)
(* The queue of announced events of one event channel (RDI_EventQueue) and *)
(* its three kinds of users:                                               *)
(*   - suppliers' threads, which insert events;                            *)
(*   - the admin dispatch threads of the channel, each of which walks the  *)
(*     linked list with next_event and drops its reference on an event     *)
(*     once the following one is there;                                    *)
(*   - the garbage collection thread, which scans the list WITHOUT the     *)
(*     queue's lock and unlinks and deletes what only the queue refers to. *)
(* EventChannel_i::destroy shuts the queue down.                           *)
(*                                                                         *)
(* A section of code that holds _oplock and does not wait is one action;   *)
(* every access made without the lock is an action of its own.  Events are *)
(* numbered in the order of insertion; 0 is the null pointer.              *)
(***************************************************************************)
EXTENDS Integers, FiniteSets

CONSTANTS
  Consumer,         \* the admin dispatch threads; _numreg is their number
  MaxEvents,        \* bound: how many events may be inserted
  MaxAnnounce,      \* bound: how many calls of insert are made
  MaxExtra,         \* bound: with so many references on one event proxies take no more
  MaxQueueLengths,  \* values the MaxQueueLength property may take
  RejectNewEvents   \* the RejectNewEvents property

\* RDI_Assert(_server_qos->numAdminThreads) in the channel's constructor; a
\* limit is only accepted together with RejectNewEvents (CosNotification.cc).
ASSUME ConstantsAssumption ==
  /\ IsFiniteSet(Consumer) /\ Consumer # {}
  /\ MaxEvents \in Nat \ {0} /\ MaxAnnounce \in Nat /\ MaxExtra \in Nat
  /\ MaxQueueLengths \subseteq Nat /\ MaxQueueLengths # {}
  /\ RejectNewEvents \in BOOLEAN
  /\ RejectNewEvents \/ MaxQueueLengths = {0}

Event == 1..MaxEvents
Null  == 0
Ptr   == 0..MaxEvents

VARIABLES
  last,       \* number of events inserted so far
  freed,      \* events that have been deleted
  next,       \* _next of every event
  ref,        \* reference counter of every event
  newborn,    \* is the event's state NEWBORN?
  extra,      \* references held by proxies and proxy dispatch threads
  nmdrop,     \* _nmdrop: how many events gc1 has deleted
  raced,      \* history: has it done so during a pass of the collector?
  evhead, evtail, length, announ, numblk, gcdone,   \* members of the queue
  maxlen,     \* _maxQueueLength
  chan,       \* how far EventChannel_i::destroy has come
  pc, prev, got, start,            \* locals of the admin dispatch threads
  gcpc, cur, pre, cursize, evncntr \* locals of the garbage collection thread

qvars    == <<evhead, evtail, length, announ, numblk, gcdone, maxlen, chan>>
evars    == <<last, freed, next, ref, newborn, extra, nmdrop, raced>>
cvars    == <<pc, prev, got, start>>
gcvars   == <<gcpc, cur, pre, cursize, evncntr>>
vars     == <<qvars, evars, cvars, gcvars>>

shutmedown == chan # "open"
finish     == chan \notin {"open", "shut"}
NumReg     == Cardinality(Consumer)
Live       == (1..last) \ freed

Init ==
  /\ last = 0 /\ freed = {}
  /\ next    = [e \in Event |-> Null]
  /\ ref     = [e \in Event |-> 0]
  /\ newborn = [e \in Event |-> TRUE]
  /\ extra   = [e \in Event |-> 0]
  /\ nmdrop = 0 /\ raced = FALSE
  /\ evhead = Null /\ evtail = Null
  /\ length = 0 /\ announ = 0 /\ numblk = 0 /\ gcdone = TRUE
  /\ maxlen \in MaxQueueLengths
  /\ chan = "open"
  /\ pc    = [c \in Consumer |-> "call"]
  /\ prev  = [c \in Consumer |-> Null]
  /\ got   = [c \in Consumer |-> Null]
  /\ start = [c \in Consumer |-> Null]
  /\ gcpc = "top" /\ cur = Null /\ pre = Null /\ cursize = 0 /\ evncntr = 0

-----------------------------------------------------------------------------
(* insert, gc1 and the configuration of the queue                          *)

\* Wrong: _qempty.signal() instead of broadcast.
Broadcast_signal ==
  IF \E c \in Consumer : pc[c] = "wait"
  THEN pc' = [pc EXCEPT ![CHOOSE c \in Consumer : pc[c] = "wait"] = "woken"]
  ELSE UNCHANGED pc

\* A thread blocked in next_event is woken by _qempty.broadcast().
Broadcast == pc' = [c \in Consumer |-> IF pc[c] = "wait" THEN "woken" ELSE pc[c]]

Full == maxlen # 0 /\ length >= maxlen

\* Wrong: the reference counter is not looked at.
HeadIsGarbage_unreferenced == ~newborn[evhead]

\* gc1 finds the head of the list to be garbage.
HeadIsGarbage == ref[evhead] = 1 /\ ~newborn[evhead]

\* Shutting down, or no space and nothing to drop.  When RejectNewEvents is
\* off apply_discard_policy, which never frees anything, rejects as well.
InsertRejected ==
  /\ chan # "destroyed" /\ announ < MaxAnnounce
  /\ finish \/ (Full /\ ~HeadIsGarbage)
  /\ announ' = announ + 1
  /\ UNCHANGED <<evhead, evtail, length, numblk, gcdone, maxlen, chan>>
  /\ UNCHANGED <<evars, cvars, gcvars>>

\* The creator's reference becomes the queue's; n_incr_ref_counter adds one for
\* each admin thread.
InitialRef == 1 + NumReg

\* The event joins the list with one reference of the queue and one of each
\* admin thread.  A full queue first lets gc1 delete its head; gc1 does not
\* touch _length.
InsertAccepted ==
  LET e    == last + 1
      drop == IF Full THEN {evhead} ELSE {}
  IN
  /\ ~finish /\ announ < MaxAnnounce /\ last < MaxEvents
  /\ Full => HeadIsGarbage
  /\ announ' = announ + 1
  /\ last'   = e
  /\ ref'    = [ref EXCEPT ![e] = InitialRef]
  /\ freed'  = freed \cup drop
  /\ nmdrop' = nmdrop + Cardinality(drop)
  /\ raced' = (raced \/ (Full /\ ~gcdone))
  /\ length' = length + 1
  /\ next'   = IF evtail = Null THEN next ELSE [next EXCEPT ![evtail] = e]
  /\ evtail' = e
  /\ evhead' = IF evtail = Null THEN e
               ELSE IF Full THEN next[evhead] ELSE evhead
  /\ IF numblk # 0 THEN Broadcast ELSE UNCHANGED pc
  /\ UNCHANGED <<newborn, extra, numblk, gcdone, maxlen, chan>>
  /\ UNCHANGED <<prev, got, start, gcvars>>

\* The channel reacts to a change of its QoS or admin properties.
QosChanged ==
  /\ chan = "open"
  /\ maxlen' \in MaxQueueLengths
  /\ UNCHANGED <<evhead, evtail, length, announ, numblk, gcdone, chan>>
  /\ UNCHANGED <<evars, cvars, gcvars>>

-----------------------------------------------------------------------------
(* next_event, called by admin_dispatch                                    *)

\* Wrong: always the tail.
Offer_tail(c) == IF prev[c] = evtail THEN Null ELSE evtail

\* What the list offers a thread: first the tail, later the successor of the
\* event it holds; under the lock a first-time caller uses the head.
Offer(c)       == IF prev[c] = Null THEN evtail ELSE next[prev[c]]
LockedOffer(c) == IF prev[c] = Null THEN evhead ELSE next[prev[c]]

\* The thread has a pointer to its next event.  Its first event costs it no
\* reference; later it first drops the reference on the previous one.
Take(c, e) ==
  /\ got' = [got EXCEPT ![c] = e]
  /\ IF prev[c] = Null
     THEN /\ start' = [start EXCEPT ![c] = e]
          /\ prev'  = [prev EXCEPT ![c] = e]
          /\ pc'    = [pc EXCEPT ![c] = "mark"]
     ELSE /\ pc'    = [pc EXCEPT ![c] = "drop"]
          /\ UNCHANGED <<start, prev>>

\* A null event while the channel is not shutting down is RDI_Fatal.
ReturnNull(c) ==
  /\ pc' = [pc EXCEPT ![c] = IF shutmedown THEN "exit" ELSE "fatal"]
  /\ UNCHANGED <<got, start, prev>>

\* _shutmedown is seen before the call.
CallShut(c) ==
  /\ pc[c] = "call" /\ shutmedown
  /\ pc' = [pc EXCEPT ![c] = "exit"]
  /\ UNCHANGED <<qvars, evars, prev, got, start, gcvars>>

\* next_event entered: _finish is read without the lock ...
CallNext(c) ==
  /\ pc[c] = "call"
  /\ IF finish THEN ReturnNull(c)
     ELSE pc' = [pc EXCEPT ![c] = "look"] /\ UNCHANGED <<prev, got, start>>
  /\ UNCHANGED <<qvars, evars, gcvars>>

\* ... and so is the pointer, later.
LookNext(c) ==
  /\ pc[c] = "look"
  /\ IF Offer(c) # Null THEN Take(c, Offer(c))
     ELSE pc' = [pc EXCEPT ![c] = "lock"] /\ UNCHANGED <<prev, got, start>>
  /\ UNCHANGED <<qvars, evars, gcvars>>

\* Nothing was there: take _oplock and look again, or wait on _qempty.
LockNext(c) ==
  /\ pc[c] = "lock"
  /\ IF finish THEN ReturnNull(c) /\ UNCHANGED numblk
     ELSE IF LockedOffer(c) # Null
     THEN Take(c, LockedOffer(c)) /\ UNCHANGED numblk
     ELSE /\ numblk' = numblk + 1
          /\ pc' = [pc EXCEPT ![c] = "wait"]
          /\ UNCHANGED <<prev, got, start>>
  /\ UNCHANGED <<evhead, evtail, length, announ, gcdone, maxlen, chan>>
  /\ UNCHANGED <<evars, gcvars>>

\* The wait returns with _oplock; the loop looks again.
WokenNext(c) ==
  /\ pc[c] = "woken"
  /\ IF finish THEN ReturnNull(c) /\ numblk' = numblk - 1
     ELSE IF LockedOffer(c) # Null
     THEN Take(c, LockedOffer(c)) /\ numblk' = numblk - 1
     ELSE /\ pc' = [pc EXCEPT ![c] = "wait"]
          /\ UNCHANGED <<numblk, prev, got, start>>
  /\ UNCHANGED <<evhead, evtail, length, announ, gcdone, maxlen, chan>>
  /\ UNCHANGED <<evars, gcvars>>

\* RDI_SEVENT_DECR_REF_COUNTER(eprev).
DropPrev(c) ==
  /\ pc[c] = "drop"
  /\ ref'  = [ref EXCEPT ![prev[c]] = @ - 1]
  /\ prev' = [prev EXCEPT ![c] = got[c]]
  /\ pc'   = [pc EXCEPT ![c] = "mark"]
  /\ UNCHANGED <<last, freed, next, newborn, extra, nmdrop, raced, got, start>>
  /\ UNCHANGED <<qvars, gcvars>>

\* The event stops being NEWBORN (PENDING in next_event); back in
\* admin_dispatch, a thread that sees _shutmedown leaves.
MarkEvent(c) ==
  /\ pc[c] = "mark"
  /\ newborn' = [newborn EXCEPT ![got[c]] = FALSE]
  /\ pc' = [pc EXCEPT ![c] = IF shutmedown THEN "exit" ELSE "busy"]
  /\ UNCHANGED <<last, freed, next, ref, extra, nmdrop, raced, prev, got, start>>
  /\ UNCHANGED <<qvars, gcvars>>

\* While it dispatches, the thread hands references to proxies.
AddRef(c) ==
  /\ pc[c] = "busy" /\ \A e \in Event : extra[e] < MaxExtra
  /\ ref'   = [ref EXCEPT ![got[c]] = @ + 1]
  /\ extra' = [extra EXCEPT ![got[c]] = @ + 1]
  /\ UNCHANGED <<last, freed, next, newborn, nmdrop, raced, qvars, cvars, gcvars>>

\* Dispatching is over; after a shutdown the thread leaves.
DispatchDone(c) ==
  /\ pc[c] = "busy"
  /\ pc' = [pc EXCEPT ![c] = IF shutmedown THEN "exit" ELSE "call"]
  /\ UNCHANGED <<qvars, evars, prev, got, start, gcvars>>

\* A proxy has delivered or discarded the event.
DropExtra(e) ==
  /\ extra[e] > 0 /\ chan # "destroyed"
  /\ ref'   = [ref EXCEPT ![e] = @ - 1]
  /\ extra' = [extra EXCEPT ![e] = @ - 1]
  /\ UNCHANGED <<last, freed, next, newborn, nmdrop, raced, qvars, cvars, gcvars>>

-----------------------------------------------------------------------------
(* garbage_collect.  _qclean only shortens a timed wait, which may end at  *)
(* any moment anyway, so the condition variable needs no state.            *)

GCTop ==
  /\ gcpc = "top"
  /\ gcpc' = IF finish THEN "exit" ELSE "timedwait"
  /\ UNCHANGED <<qvars, evars, cvars, cur, pre, cursize, evncntr>>

GCWake ==
  /\ gcpc = "timedwait"
  /\ gcpc' = IF finish THEN "exit" ELSE "begin"
  /\ UNCHANGED <<qvars, evars, cvars, cur, pre, cursize, evncntr>>

GCBegin ==
  /\ gcpc = "begin"
  /\ cursize' = length /\ gcdone' = FALSE /\ evncntr' = 0
  /\ gcpc' = "init"
  /\ UNCHANGED <<evhead, evtail, length, announ, numblk, maxlen, chan>>
  /\ UNCHANGED <<evars, cvars, cur, pre>>

GCInit ==
  /\ gcpc = "init"
  /\ cur' = evhead /\ pre' = evhead
  /\ gcpc' = "test"
  /\ UNCHANGED <<qvars, evars, cvars, cursize, evncntr>>

\* Wrong: one event too few.
GCTest_short ==
  /\ gcpc = "test"
  /\ cursize' = cursize - 1
  /\ gcpc' = IF cursize <= 2 \/ cur = Null THEN "end"
             ELSE IF newborn[cur] THEN "end" ELSE "ref"
  /\ UNCHANGED <<qvars, evars, cvars, cur, pre, evncntr>>

\* while ( --cursize && cur && cur->get_state() != NEWBORN ).  cursize is
\* unsigned: 0 becomes 2^32-1, here -1, and the loop is not cut short.
GCTest ==
  /\ gcpc = "test"
  /\ cursize' = cursize - 1
  /\ gcpc' = IF cursize = 1 \/ cur = Null THEN "end"
             ELSE IF newborn[cur] THEN "end" ELSE "ref"
  /\ UNCHANGED <<qvars, evars, cvars, cur, pre, evncntr>>

\* An event somebody else refers to is stepped over.
GCAdvance ==
  /\ gcpc = "ref" /\ ref[cur] # 1
  /\ pre' = cur /\ cur' = next[cur]
  /\ gcpc' = "test"
  /\ UNCHANGED <<qvars, evars, cvars, cursize, evncntr>>

\* Wrong: one reference too many is taken for garbage.
GCFound_offByOne ==
  /\ gcpc = "ref" /\ ref[cur] <= 2
  /\ gcpc' = "free"
  /\ UNCHANGED <<qvars, evars, cvars, cur, pre, cursize, evncntr>>

GCFound ==
  /\ gcpc = "ref" /\ ref[cur] = 1
  /\ gcpc' = "free"
  /\ UNCHANGED <<qvars, evars, cvars, cur, pre, cursize, evncntr>>

\* Wrong: the head is unlinked like any other event, behind pre.
GCFree_headLikeOthers ==
  /\ gcpc = "free"
  /\ next' = [next EXCEPT ![pre] = next[cur]]
  /\ cur' = next[cur]
  /\ freed'   = freed \cup {cur}
  /\ evncntr' = evncntr + 1
  /\ gcpc'    = "test"
  /\ UNCHANGED <<last, ref, newborn, extra, nmdrop, raced, cursize, cvars, evhead, pre>>
  /\ UNCHANGED <<evtail, length, announ, numblk, gcdone, maxlen, chan>>

\* Unlink and delete: at the head of the list, or behind pre.
GCFree ==
  /\ gcpc = "free"
  /\ IF cur = evhead
     THEN /\ evhead' = next[evhead]
          /\ pre' = next[evhead] /\ cur' = next[evhead]
          /\ UNCHANGED next
     ELSE /\ next' = [next EXCEPT ![pre] = next[cur]]
          /\ cur' = next[cur]
          /\ UNCHANGED <<evhead, pre>>
  /\ freed'   = freed \cup {cur}
  /\ evncntr' = evncntr + 1
  /\ gcpc'    = "test"
  /\ UNCHANGED <<last, ref, newborn, extra, nmdrop, raced, cursize, cvars>>
  /\ UNCHANGED <<evtail, length, announ, numblk, gcdone, maxlen, chan>>

\* Wrong: _gcdone keeps its value.
GCEnd_neverDone ==
  /\ gcpc = "end"
  /\ length' = length - evncntr /\ evncntr' = 0
  /\ gcpc' = "top"
  /\ UNCHANGED <<evhead, evtail, announ, numblk, gcdone, maxlen, chan>>
  /\ UNCHANGED <<evars, cvars, cur, pre, cursize>>

GCEnd ==
  /\ gcpc = "end"
  /\ length' = length - evncntr /\ gcdone' = TRUE /\ evncntr' = 0
  /\ gcpc' = "top"
  /\ UNCHANGED <<evhead, evtail, announ, numblk, maxlen, chan>>
  /\ UNCHANGED <<evars, cvars, cur, pre, cursize>>

-----------------------------------------------------------------------------
(* EventChannel_i::destroy                                                 *)

Shutdown ==
  /\ chan = "open" /\ chan' = "shut"
  /\ UNCHANGED <<evhead, evtail, length, announ, numblk, gcdone, maxlen>>
  /\ UNCHANGED <<evars, cvars, gcvars>>

\* set_finished(1) raises _finish ...
SetFinished ==
  /\ chan = "shut" /\ chan' = "finishing"
  /\ Broadcast
  /\ UNCHANGED <<evhead, evtail, length, announ, numblk, gcdone, maxlen>>
  /\ UNCHANGED <<evars, prev, got, start, gcvars>>

\* ... and goes on signalling ...
FinishPoll ==
  /\ chan = "finishing" /\ ~(numblk = 0 /\ gcdone)
  /\ Broadcast
  /\ UNCHANGED <<qvars, evars, prev, got, start, gcvars>>

\* ... until nobody is blocked and the collector is not collecting.
FinishDone ==
  /\ chan = "finishing" /\ numblk = 0 /\ gcdone
  /\ chan' = "finished"
  /\ UNCHANGED <<evhead, evtail, length, announ, numblk, gcdone, maxlen>>
  /\ UNCHANGED <<evars, cvars, gcvars>>

\* ~EventChannelDispatch joins the admin threads.
JoinDispatch ==
  /\ chan = "finished" /\ \A c \in Consumer : pc[c] = "exit"
  /\ chan' = "joined"
  /\ UNCHANGED <<evhead, evtail, length, announ, numblk, gcdone, maxlen>>
  /\ UNCHANGED <<evars, cvars, gcvars>>

\* ~RDI_EventQueue: _finish is set, so it does not wait again; it walks the
\* list and deletes every event.
Destroy ==
  /\ chan = "joined" /\ chan' = "destroyed"
  /\ freed' = 1..last
  /\ evhead' = Null /\ evtail' = Null /\ length' = 0
  /\ UNCHANGED <<announ, numblk, gcdone, maxlen>>
  /\ UNCHANGED <<last, next, ref, newborn, extra, nmdrop, raced, cvars, gcvars>>

-----------------------------------------------------------------------------
NextEvent(c) ==
  \/ CallShut(c) \/ CallNext(c) \/ LookNext(c) \/ LockNext(c) \/ WokenNext(c)
  \/ DropPrev(c) \/ MarkEvent(c)

GarbageCollect ==
  GCTop \/ GCWake \/ GCBegin \/ GCInit \/ GCTest \/ GCAdvance \/ GCFound \/ GCFree \/ GCEnd

ChannelDestroy ==
  Shutdown \/ SetFinished \/ FinishPoll \/ FinishDone \/ JoinDispatch \/ Destroy

Next ==
  \/ InsertRejected \/ InsertAccepted \/ QosChanged
  \/ \E c \in Consumer : NextEvent(c) \/ AddRef(c) \/ DispatchDone(c)
  \/ \E e \in Event : DropExtra(e)
  \/ GarbageCollect
  \/ ChannelDestroy

Spec == Init /\ [][Next]_vars

\* Threads are scheduled; nobody is obliged to insert, to configure or to
\* destroy the channel, but a destroy that was begun is carried on, and a
\* proxy gets rid of every event it was given.
Fairness ==
  /\ \A c \in Consumer : WF_vars(NextEvent(c)) /\ WF_vars(DispatchDone(c))
  /\ \A e \in Event : WF_vars(DropExtra(e))
  /\ WF_vars(GarbageCollect)
  /\ WF_vars(SetFinished \/ FinishPoll \/ FinishDone \/ JoinDispatch \/ Destroy)

FairSpec == Spec /\ Fairness

-----------------------------------------------------------------------------
(* Properties                                                              *)

TypeOK ==
  /\ last \in 0..MaxEvents /\ freed \subseteq Event
  /\ next \in [Event -> Ptr] /\ ref \in [Event -> Nat]
  /\ newborn \in [Event -> BOOLEAN] /\ extra \in [Event -> Nat]
  /\ nmdrop \in Nat /\ raced \in BOOLEAN
  /\ evhead \in Ptr /\ evtail \in Ptr
  /\ length \in Int /\ announ \in Nat /\ numblk \in Int
  /\ gcdone \in BOOLEAN /\ maxlen \in MaxQueueLengths
  /\ chan \in {"open", "shut", "finishing", "finished", "joined", "destroyed"}
  /\ pc \in [Consumer -> {"call", "look", "lock", "wait", "woken", "drop",
                         "mark", "busy", "exit", "fatal"}]
  /\ prev \in [Consumer -> Ptr] /\ got \in [Consumer -> Ptr]
  /\ start \in [Consumer -> Ptr]
  /\ gcpc \in {"top", "timedwait", "begin", "init", "test", "ref", "free",
               "end", "exit"}
  /\ cur \in Ptr /\ pre \in Ptr /\ cursize \in Int /\ evncntr \in Nat

\* Neither the queue, nor a dispatch thread, nor the collector scanning
\* without the lock keeps a pointer to an event that has been deleted, and
\* what the collector is about to delete has not been deleted before.
NoDanglingPointer ==
  chan # "destroyed" =>
    /\ evhead \notin freed /\ evtail \notin freed
    /\ \A c \in Consumer : prev[c] \notin freed /\ got[c] \notin freed
    /\ gcpc \in {"test", "ref", "free"} => cur \notin freed
    /\ gcpc = "free" /\ cur # evhead => pre \notin freed

\* The list reached from _evhead is exactly the events not yet deleted, in the
\* order of insertion, and ends at _evtail: an unlink made while threads walk
\* and extend the list neither loses a live event nor leaves a deleted one in.
ListIsLiveEvents ==
  chan # "destroyed" /\ last > 0 =>
    /\ evhead \in Live /\ evtail = last /\ last \in Live
    /\ \A e \in Live : evhead <= e
    /\ \A e \in Live :
         IF e = last THEN next[e] = Null
         ELSE /\ next[e] \in Live /\ e < next[e]
              /\ \A f \in Live : f <= e \/ next[e] <= f

\* An event is not deleted before every dispatch thread that entered the queue
\* at or before it has gone past it, nor while a proxy refers to it.
NeededEventsLive ==
  chan # "destroyed" =>
    \A e \in 1..last :
      e \in freed => /\ extra[e] = 0
                    /\ \A c \in Consumer : prev[c] > e /\ start[c] <= e

\* A full queue changes none of this as long as gc1 stays out of the collector's
\* way: both delete the head of the list, one with the lock and one without.
PointersUnlessRaced == raced \/ (NoDanglingPointer /\ ListIsLiveEvents)
NeededUnlessRaced   == raced \/ NeededEventsLive

\* Outside a collection _length is the number of events in the list and of those
\* that gc1 has deleted; during one it exceeds that by what the collector has
\* deleted so far.
LengthIsExact ==
  chan # "destroyed" => length = Cardinality(Live) + evncntr + nmdrop

\* A dispatch thread never gets a null event from a channel that is not being
\* destroyed (RDI_Fatal "NULL event" in admin_dispatch).
NoNullEvent == \A c \in Consumer : pc[c] # "fatal"

\* Every thread sees the events it is entitled to: the queue implements the feed.
Feed == INSTANCE EventFeed WITH cursor <- got, closed <- finish
FeedSpec     == Feed!Spec
FeedFairSpec == Feed!FairSpec

\* An event everybody is done with is eventually deleted, provided no thread
\* entered the queue late (behind events it never released).
Garbage(e)   == e \in Live /\ ref[e] = 1 /\ ~newborn[e]
NobodyLate   == \A c \in Consumer : start[c] \in {0, 1}
GarbageCollected ==
  []NobodyLate => \A e \in Event : Garbage(e) ~> (e \in freed \/ finish)

\* A destroy that was begun gets to the point where the queue is deleted:
\* nobody stays blocked in next_event and the collector comes to rest.
DestroyCompletes == (chan = "shut") ~> (chan = "destroyed")

-----------------------------------------------------------------------------
(* The inductive invariant behind NoDanglingPointer, ListIsLiveEvents,     *)
(* NeededEventsLive, LengthIsExact and FeedSpec: it holds until gc1        *)
(* deletes an event during a pass of the collector, hence without a limit  *)
(* for good                                                                *)

Open == chan # "destroyed"

\* Thread c still has to drop its reference on e: it has not entered the
\* queue, entered it behind e, or has not gone past e.
Owes(c, e) == prev[c] = Null \/ e < start[c] \/ prev[c] <= e
Owers(e)   == {c \in Consumer : Owes(c, e)}

RefIsCount ==
  \A e \in Event :
    ref[e] = IF e <= last THEN 1 + Cardinality(Owers(e)) + extra[e] ELSE 0

ExtraInQueue == \A e \in Event : extra[e] > 0 => e <= last

\* Where the local pointers of a dispatch thread stand.
ThreadInv ==
  \A c \in Consumer :
    /\ start[c] <= prev[c] /\ prev[c] <= last
    /\ start[c] = Null => prev[c] = Null
    /\ pc[c] \in {"mark", "busy", "drop"} => prev[c] # Null
    /\ got[c] = IF pc[c] = "drop" THEN prev[c] + 1 ELSE prev[c]
    /\ got[c] <= last
    /\ chan \in {"joined", "destroyed"} => pc[c] = "exit"

FreedInQueue == Open => freed \subseteq 1..last
EmptyQueue   == Open /\ last = 0 => evhead = Null /\ evtail = Null /\ nmdrop = 0
FreshNext    == Open => \A e \in Event : e > last => next[e] = Null

\* Where the pointers of the collector stand while it scans.
ScanInv ==
  /\ gcpc \in {"ref", "free"} => cur # Null
  /\ Open /\ gcpc \in {"test", "ref", "free"} /\ cur # Null =>
       /\ cur \in Live
       /\ cur # evhead => pre \in Live /\ next[pre] = cur
  /\ Open /\ gcpc = "free" => Owers(cur) = {} /\ extra[cur] = 0
  /\ gcpc \notin {"init", "test", "ref", "free", "end"} => evncntr = 0
  /\ gcpc \in {"init", "test", "ref", "free", "end"} => ~gcdone

IInv ==
  /\ TypeOK
  /\ RefIsCount /\ ExtraInQueue /\ ThreadInv
  /\ FreedInQueue /\ EmptyQueue /\ FreshNext /\ ListIsLiveEvents /\ NeededEventsLive
  /\ ScanInv /\ LengthIsExact
=============================================================================
