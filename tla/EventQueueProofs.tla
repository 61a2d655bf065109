--------------------------- MODULE EventQueueProofs ---------------------------
(***************************************************************************)
(* Proofs about the queue of announced events, with and without a length   *)
(* limit.  With a limit, they hold until gc1, called by an insertion, has  *)
(* deleted the head of the list during a pass of the collector.            *)
(***************************************************************************)
EXTENDS EventQueue, FiniteSetTheorems, TLAPS

Unlimited == MaxQueueLengths = {0}

\* The owers of an event are finitely many.
LEMMA OwersCount ==
  ASSUME NEW S, S \subseteq Consumer
  PROVE  IsFiniteSet(S) /\ Cardinality(S) \in Nat
BY ConstantsAssumption, FS_Subset, FS_CardinalityType

\* A set of live events is finite.
LEMMA LiveCount ==
  ASSUME NEW n \in Nat, NEW F
  PROVE  IsFiniteSet((1..n) \ F) /\ Cardinality((1..n) \ F) \in Nat
<1>1. IsFiniteSet(1..n)
  BY FS_Interval
<1>2. IsFiniteSet((1..n) \ F)
  BY <1>1, FS_Subset, (1..n) \ F \in SUBSET (1..n)
<1> QED
  BY <1>2, FS_CardinalityType

LEMMA InitIInv == Init => IInv
<1> SUFFICES ASSUME Init PROVE IInv
  OBVIOUS
<1> USE ConstantsAssumption DEF Init, Event, Ptr, Null
<1>1. TypeOK
  <2>1. /\ nmdrop \in Nat /\ raced \in BOOLEAN /\ gcdone \in BOOLEAN
        /\ newborn \in [Event -> BOOLEAN]
    OBVIOUS
  <2> QED
    BY <2>1 DEF TypeOK
<1>2. RefIsCount /\ ExtraInQueue
  BY DEF RefIsCount, ExtraInQueue
<1>3. ThreadInv
  BY DEF ThreadInv
<1>4. Live = {}
  BY DEF Live
<1>5. FreedInQueue /\ EmptyQueue /\ FreshNext /\ ListIsLiveEvents /\ NeededEventsLive
  BY <1>4 DEF FreedInQueue, EmptyQueue, FreshNext, ListIsLiveEvents, NeededEventsLive
<1>6. ScanInv
  BY DEF ScanInv
<1>7. LengthIsExact
  BY <1>4, FS_EmptySet DEF LengthIsExact
<1> QED
  BY <1>1, <1>2, <1>3, <1>5, <1>6, <1>7 DEF IInv

-----------------------------------------------------------------------------
(* Facts about one state                                                   *)

\* The pointer a dispatch thread follows leads to the next event in order.
LEMMA Successor ==
  ASSUME IInv, Open, NEW c \in Consumer, prev[c] # Null
  PROVE  /\ prev[c] \in Live
         /\ next[prev[c]] = IF prev[c] = last THEN Null ELSE prev[c] + 1
<1> USE DEF IInv, TypeOK, ThreadInv, Event, Ptr, Null, Open
<1>1. prev[c] \in 1..last /\ last \in Nat
  OBVIOUS
<1>2. \A e \in prev[c]..last : e \in Live
  <2> TAKE e \in prev[c]..last
  <2>1. e \in 1..last /\ ~(prev[c] > e)
    BY <1>1
  <2> QED
    BY <2>1 DEF NeededEventsLive, Live
<1>3. prev[c] \in Live
  BY <1>1, <1>2
<1>4. CASE prev[c] = last
  BY <1>1, <1>3, <1>4 DEF ListIsLiveEvents
<1>5. CASE prev[c] # last
  <2>1. prev[c] + 1 \in Live
    BY <1>1, <1>2, <1>5
  <2>2. /\ next[prev[c]] \in Live /\ prev[c] < next[prev[c]]
        /\ prev[c] + 1 <= prev[c] \/ next[prev[c]] <= prev[c] + 1
    BY <1>1, <1>3, <1>5, <2>1 DEF ListIsLiveEvents
  <2>3. next[prev[c]] \in Nat
    BY <2>2 DEF Live
  <2> QED
    BY <1>1, <1>3, <1>5, <2>2, <2>3
<1> QED
  BY <1>4, <1>5

\* An event only the queue refers to has been passed by every thread.
LEMMA OnlyQueue ==
  ASSUME IInv, NEW e \in 1..last, ref[e] = 1
  PROVE  Owers(e) = {} /\ extra[e] = 0
<1>1. e \in Event /\ e <= last /\ extra[e] \in Nat
  BY ConstantsAssumption DEF IInv, TypeOK, Event
<1>2. Owers(e) \subseteq Consumer
  BY DEF Owers
<1>3. IsFiniteSet(Owers(e)) /\ Cardinality(Owers(e)) \in Nat
  BY <1>2, OwersCount
<1>4. ref[e] = 1 + Cardinality(Owers(e)) + extra[e]
  BY <1>1 DEF IInv, RefIsCount
<1>5. Cardinality(Owers(e)) = 0 /\ extra[e] = 0
  BY <1>1, <1>3, <1>4
<1> QED
  BY <1>3, <1>5, FS_EmptySet

\* The invariant excludes pointers to deleted events.
LEMMA IInvNoDangling == IInv => NoDanglingPointer
<1> SUFFICES ASSUME IInv, Open PROVE NoDanglingPointer
  BY DEF NoDanglingPointer, Open
<1> USE DEF IInv, TypeOK, ThreadInv, FreedInQueue, Event, Ptr, Null, Open
<1>1. Null \notin freed
  OBVIOUS
<1>2. evhead \notin freed /\ evtail \notin freed
  BY <1>1 DEF EmptyQueue, ListIsLiveEvents, Live
<1>3. ASSUME NEW c \in Consumer PROVE prev[c] \notin freed /\ got[c] \notin freed
  <2>1. \A e \in 1..last : e \in freed => prev[c] > e
    BY DEF NeededEventsLive
  <2>2. prev[c] \notin freed
    BY <1>1, <2>1
  <2>3. prev[c] + 1 \notin freed
    BY <2>1
  <2> QED
    BY <2>2, <2>3
<1>4. gcpc \in {"test", "ref", "free"} => cur \notin freed
  BY <1>1 DEF ScanInv, Live
<1>5. gcpc = "free" /\ cur # evhead => pre \notin freed
  BY DEF ScanInv, Live
<1> QED
  BY <1>2, <1>3, <1>4, <1>5 DEF NoDanglingPointer

-----------------------------------------------------------------------------
(* Preservation of the invariant, action by action                         *)

\* What is left to show of a step that touches neither the list, nor the
\* reference counts, nor the threads' positions in the list.
LEMMA QuietStep ==
  ASSUME IInv, TypeOK', ThreadInv', ScanInv', Open' => Open,
         UNCHANGED <<last, freed, next, ref, extra, nmdrop, evhead, evtail, length,
                     prev, start, evncntr>>
  PROVE  IInv'
<1> USE DEF IInv
<1>1. \A e \in Event : Owers(e)' = Owers(e)
  BY DEF Owers, Owes
<1>2. RefIsCount' /\ ExtraInQueue'
  BY <1>1 DEF RefIsCount, ExtraInQueue
<1>3. FreedInQueue' /\ EmptyQueue' /\ FreshNext' /\ Live' = Live
  BY DEF FreedInQueue, EmptyQueue, FreshNext, Live, Open
<1>4. ListIsLiveEvents' /\ LengthIsExact'
  BY <1>3 DEF ListIsLiveEvents, LengthIsExact, Open
<1>5. NeededEventsLive'
  BY DEF NeededEventsLive, Open
<1> QED
  BY <1>2, <1>3, <1>4, <1>5

\* insert turns an event away, the properties change, or destroy goes on.
LEMMA QueueQuietSteps ==
  ASSUME IInv,
         \/ InsertRejected \/ QosChanged \/ Shutdown \/ SetFinished
         \/ FinishPoll \/ FinishDone \/ JoinDispatch
  PROVE  IInv'
<1>1. TypeOK'
  BY ConstantsAssumption
  DEF IInv, TypeOK, InsertRejected, QosChanged, Shutdown, SetFinished,
      FinishPoll, FinishDone, JoinDispatch, Broadcast, qvars, evars, cvars, gcvars
<1>2. UNCHANGED <<last, freed, next, ref, extra, nmdrop, evhead, evtail, length, gcdone,
                  prev, got, start, gcpc, cur, pre, evncntr>>
  BY DEF InsertRejected, QosChanged, Shutdown, SetFinished, FinishPoll,
         FinishDone, JoinDispatch, qvars, evars, cvars, gcvars
<1>3. Open' => Open
  BY DEF InsertRejected, QosChanged, Shutdown, SetFinished, FinishPoll,
         FinishDone, JoinDispatch, Open, qvars
<1>4. \A c \in Consumer :
         pc'[c] \in {"mark", "busy", "drop"} <=> pc[c] \in {"mark", "busy", "drop"}
  BY DEF InsertRejected, QosChanged, Shutdown, SetFinished, FinishPoll,
         FinishDone, JoinDispatch, Broadcast, qvars, cvars, IInv, TypeOK
<1>5. \A c \in Consumer : pc'[c] = "drop" <=> pc[c] = "drop"
  BY DEF InsertRejected, QosChanged, Shutdown, SetFinished, FinishPoll,
         FinishDone, JoinDispatch, Broadcast, qvars, cvars, IInv, TypeOK
<1>6. ThreadInv'
  <2>1. \A c \in Consumer : pc[c] = "exit" => pc'[c] = "exit"
    BY DEF InsertRejected, QosChanged, Shutdown, SetFinished, FinishPoll, FinishDone,
           JoinDispatch, Broadcast, qvars, cvars, IInv, TypeOK
  <2>2. chan' \in {"joined", "destroyed"} =>
          \/ chan \in {"joined", "destroyed"}
          \/ \A c \in Consumer : pc'[c] = "exit"
    BY DEF InsertRejected, QosChanged, Shutdown, SetFinished, FinishPoll, FinishDone,
           JoinDispatch, qvars, cvars
  <2> QED
    BY <1>2, <1>4, <1>5, <2>1, <2>2 DEF IInv, ThreadInv
<1>7. ScanInv'
  <2>1. Live' = Live /\ Owers(cur)' = Owers(cur)
    BY <1>2 DEF Live, Owers, Owes
  <2> QED
    BY <1>2, <1>3, <2>1 DEF IInv, ScanInv
<1> QED
  BY <1>1, <1>2, <1>3, <1>6, <1>7, QuietStep

\* What a dispatch thread may find when it looks for its next event.
LEMMA Offered ==
  ASSUME IInv, Open, NEW c \in Consumer, NEW e \in {Offer(c), LockedOffer(c)},
         e # Null
  PROVE  /\ e \in Live
         /\ prev[c] # Null => e = prev[c] + 1
<1>1. CASE prev[c] = Null
  <2>1. e \in {evhead, evtail}
    BY <1>1 DEF Offer, LockedOffer
  <2> QED
    BY <1>1, <2>1 DEF IInv, TypeOK, EmptyQueue, FreshNext, ListIsLiveEvents, Open, Live
<1>2. CASE prev[c] # Null
  <2>1. e = next[prev[c]] /\ prev[c] \in Live
    BY <1>2, Successor DEF Offer, LockedOffer
  <2>2. prev[c] # last /\ e = prev[c] + 1
    BY <1>2, <2>1, Successor
  <2>3. last > 0
    BY <2>1 DEF Live, IInv, TypeOK
  <2>4. next[prev[c]] \in Live
    BY <2>1, <2>2, <2>3 DEF IInv, ListIsLiveEvents, Open
  <2> QED
    BY <2>1, <2>2, <2>4
<1> QED
  BY <1>1, <1>2

\* A thread takes what it is offered: its first event costs no reference, a
\* later one is only remembered.
LEMMA TakeStep ==
  ASSUME IInv, Open, TypeOK', NEW c \in Consumer, NEW e \in {Offer(c), LockedOffer(c)},
         e # Null, Take(c, e), pc[c] \notin {"drop", "mark", "busy", "exit"},
         UNCHANGED <<evhead, evtail, length, announ, gcdone, maxlen, chan>>,
         UNCHANGED <<evars, gcvars>>
  PROVE  IInv'
<1> USE DEF evars, gcvars
<1>1. e \in Live /\ e \in 1..last /\ (prev[c] # Null => e = prev[c] + 1)
  BY Offered DEF Live
<1>2. ThreadInv'
  <2> SUFFICES ASSUME NEW d \in Consumer
               PROVE  /\ start'[d] <= prev'[d] /\ prev'[d] <= last'
                      /\ start'[d] = Null => prev'[d] = Null
                      /\ pc'[d] \in {"mark", "busy", "drop"} => prev'[d] # Null
                      /\ got'[d] = IF pc'[d] = "drop" THEN prev'[d] + 1 ELSE prev'[d]
                      /\ got'[d] <= last'
                      /\ chan' \in {"joined", "destroyed"} => pc'[d] = "exit"
    BY DEF ThreadInv
  <2>1. CASE d # c
    BY <2>1 DEF IInv, TypeOK, ThreadInv, Take
  <2>2. CASE d = c
    BY <1>1, <2>2 DEF IInv, TypeOK, ThreadInv, Take, Null, Ptr, Event
  <2> QED
    BY <2>1, <2>2
<1>3. CASE prev[c] # Null
  <2>1. UNCHANGED <<prev, start>>
    BY <1>3 DEF Take
  <2>2. Live' = Live /\ Owers(cur)' = Owers(cur)
    BY <2>1 DEF Live, Owers, Owes
  <2>3. ScanInv'
    BY <2>2 DEF IInv, ScanInv, Open
  <2> QED
    BY <1>2, <2>1, <2>3, QuietStep DEF Open
<1>4. CASE prev[c] = Null
  <2>1. /\ start' = [start EXCEPT ![c] = e] /\ prev' = [prev EXCEPT ![c] = e]
        /\ prev \in [Consumer -> Ptr] /\ start \in [Consumer -> Ptr]
    BY <1>4 DEF Take, IInv, TypeOK
  <2>2. ASSUME NEW f \in Ptr, NEW d \in Consumer
        PROVE  Owes(d, f)' <=> Owes(d, f)
    <3>1. f \in Nat /\ e \in Nat
      BY <1>1, ConstantsAssumption DEF Ptr
    <3>2. CASE d = c
      BY <1>4, <2>1, <3>1, <3>2 DEF Owes
    <3>3. CASE d # c
      BY <2>1, <3>3 DEF Owes
    <3> QED
      BY <3>2, <3>3
  <2>3. \A f \in Ptr : Owers(f)' = Owers(f)
    BY <2>2 DEF Owers
  <2>4. RefIsCount' /\ ExtraInQueue'
    BY <2>3 DEF IInv, RefIsCount, ExtraInQueue, Event, Ptr
  <2>5. FreedInQueue' /\ EmptyQueue' /\ FreshNext' /\ Live' = Live
    BY DEF IInv, FreedInQueue, EmptyQueue, FreshNext, Live, Open
  <2>6. ListIsLiveEvents' /\ LengthIsExact'
    BY <2>5 DEF IInv, ListIsLiveEvents, LengthIsExact, Open
  <2>7. freed \cap (1..last) = {}
    <3> SUFFICES ASSUME NEW f \in 1..last, f \in freed PROVE FALSE
      OBVIOUS
    <3>1. prev[c] > f
      BY DEF IInv, NeededEventsLive, Open
    <3> QED
      BY <1>4, <3>1 DEF IInv, TypeOK, Null
  <2>8. NeededEventsLive'
    BY <2>7 DEF NeededEventsLive
  <2>9. ScanInv'
    <3>1. Owers(cur)' = Owers(cur)
      BY <2>3 DEF IInv, TypeOK
    <3> QED
      BY <2>5, <3>1 DEF IInv, ScanInv, Open
  <2> QED
    BY <1>2, <2>4, <2>5, <2>6, <2>8, <2>9 DEF IInv
<1> QED
  BY <1>3, <1>4

\* next_event without an event: the thread returns, locks, waits or loops.
LEMMA ThreadQuietSteps ==
  ASSUME IInv, TypeOK', NEW c \in Consumer,
         UNCHANGED <<evhead, evtail, length, announ, gcdone, maxlen, chan>>,
         \/ UNCHANGED evars
         \/ UNCHANGED <<last, freed, next, ref, extra, nmdrop>>,
         UNCHANGED <<prev, got, start>>, UNCHANGED gcvars,
         NEW s, pc' = [pc EXCEPT ![c] = s], s # "drop", pc[c] \notin {"drop", "exit"},
         s \in {"mark", "busy"} => pc[c] \in {"mark", "busy"}
  PROVE  IInv'
<1> USE DEF evars, gcvars
<1>1. ThreadInv'
  BY DEF IInv, TypeOK, ThreadInv
<1>2. Live' = Live /\ Owers(cur)' = Owers(cur)
  BY DEF Live, Owers, Owes
<1>3. ScanInv'
  BY <1>2 DEF IInv, ScanInv, Open
<1> QED
  BY <1>1, <1>3, QuietStep DEF Open

\* The calls of next_event and the two looks under the lock.
LEMMA NextEventSteps ==
  ASSUME IInv, NEW c \in Consumer,
         \/ CallShut(c) \/ CallNext(c) \/ LookNext(c) \/ LockNext(c) \/ WokenNext(c)
         \/ MarkEvent(c) \/ DispatchDone(c)
  PROVE  IInv'
<1>1. CASE CallShut(c) \/ DispatchDone(c)
  <2>1. TypeOK'
    BY <1>1 DEF IInv, TypeOK, CallShut, DispatchDone, qvars, evars, gcvars
  <2> QED
    BY <1>1, <2>1, ThreadQuietSteps DEF CallShut, DispatchDone, qvars
<1>2. CASE MarkEvent(c)
  <2>1. TypeOK'
    BY <1>2 DEF IInv, TypeOK, MarkEvent, qvars, gcvars
  <2> QED
    BY <1>2, <2>1, ThreadQuietSteps DEF MarkEvent, qvars
<1>3. CASE CallNext(c) \/ LookNext(c) \/ LockNext(c) \/ WokenNext(c)
  <2>1. /\ pc[c] \in {"call", "look", "lock", "woken"}
        /\ UNCHANGED <<evhead, evtail, length, announ, gcdone, maxlen, chan>>
        /\ UNCHANGED <<evars, gcvars>>
        /\ numblk' \in Int
    BY <1>3 DEF CallNext, LookNext, LockNext, WokenNext, qvars, IInv, TypeOK
  <2>2. CASE ReturnNull(c)
    <3>1. ReturnNull(c)
      BY <2>2
    <3>2. TypeOK'
      BY <2>1, <3>1 DEF IInv, TypeOK, ReturnNull, evars, gcvars
    <3> QED
      BY <2>1, <3>1, <3>2, ThreadQuietSteps DEF ReturnNull
  <2>3. CASE \E s \in {"look", "lock", "wait"} :
                pc' = [pc EXCEPT ![c] = s] /\ UNCHANGED <<prev, got, start>>
    <3>1. TypeOK'
      BY <2>1, <2>3 DEF IInv, TypeOK, evars, gcvars
    <3> QED
      BY <2>1, <2>3, <3>1, ThreadQuietSteps
  <2>4. CASE \E e \in {Offer(c), LockedOffer(c)} : e # Null /\ Take(c, e)
    <3>1. PICK e \in {Offer(c), LockedOffer(c)} : e # Null /\ Take(c, e)
      BY <2>4
    <3>2. Open
      BY <2>1 DEF Open, IInv, ThreadInv
    <3>3. e \in Ptr
      BY <3>1, <3>2, Offered, ConstantsAssumption DEF Live, IInv, TypeOK, Ptr
    <3>4. TypeOK'
      BY <2>1, <3>1, <3>3 DEF IInv, TypeOK, Take, evars, gcvars
    <3> QED
      BY <2>1, <3>1, <3>2, <3>4, TakeStep
  <2> QED
    BY <1>3, <2>2, <2>3, <2>4 DEF CallNext, LookNext, LockNext, WokenNext
<1> QED
  BY <1>1, <1>2, <1>3

\* A thread releases the event before the one it has got.
LEMMA DropPrevStep ==
  ASSUME IInv, NEW c \in Consumer, DropPrev(c)
  PROVE  IInv'
<1> USE DEF qvars, gcvars
<1> DEFINE p == prev[c]
<1>1. /\ pc[c] = "drop" /\ p \in 1..last /\ p + 1 <= last /\ got[c] = p + 1
      /\ start[c] <= p /\ p \in Event /\ p + 1 \in Ptr /\ start[c] # Null
      /\ last \in Nat /\ start[c] \in Nat
  BY ConstantsAssumption DEF DropPrev, IInv, TypeOK, ThreadInv, Ptr, Null, Event
<1>2. prev' = [prev EXCEPT ![c] = p + 1] /\ prev \in [Consumer -> Ptr]
  BY <1>1 DEF DropPrev, IInv, TypeOK
<1>3. ASSUME NEW f \in Ptr, NEW d \in Consumer
      PROVE  Owes(d, f)' <=> Owes(d, f) /\ ~(d = c /\ f = p)
  <2>1. f \in Nat /\ start' = start
    BY ConstantsAssumption DEF Ptr, DropPrev
  <2>2. CASE d = c
    BY <1>1, <1>2, <2>1, <2>2 DEF Owes, Null
  <2>3. CASE d # c
    BY <1>2, <2>1, <2>3 DEF Owes
  <2> QED
    BY <2>2, <2>3
<1>4. \A f \in Ptr : Owers(f)' = IF f = p THEN Owers(f) \ {c} ELSE Owers(f)
  BY <1>3 DEF Owers
<1>5. c \in Owers(p) /\ Owers(p) \subseteq Consumer
  BY <1>1 DEF Owers, Owes
<1>6. /\ IsFiniteSet(Owers(p)) /\ Cardinality(Owers(p)) \in Nat
      /\ Cardinality(Owers(p) \ {c}) = Cardinality(Owers(p)) - 1
      /\ Cardinality(Owers(p) \ {c}) \in Nat
  <2>1. Owers(p) \ {c} \subseteq Consumer
    BY <1>5
  <2> QED
    BY <1>5, <2>1, OwersCount, FS_RemoveElement
<1>7. ref[p] = 1 + Cardinality(Owers(p)) + extra[p] /\ extra[p] \in Nat
  BY <1>1 DEF IInv, TypeOK, RefIsCount
<1>8. ref' = [ref EXCEPT ![p] = ref[p] - 1] /\ ref[p] - 1 \in Nat
  BY <1>6, <1>7 DEF DropPrev
<1>9. TypeOK'
  BY <1>1, <1>2, <1>8 DEF IInv, TypeOK, DropPrev
<1>10. RefIsCount'
  <2> SUFFICES ASSUME NEW f \in Event
               PROVE  ref'[f] = IF f <= last' THEN 1 + Cardinality(Owers(f)') + extra'[f]
                                ELSE 0
    BY DEF RefIsCount
  <2>1. f \in Ptr /\ UNCHANGED <<last, extra>>
    BY DEF Event, Ptr, DropPrev
  <2>2. CASE f = p
    <3>1. Owers(f)' = Owers(f) \ {c}
      BY <1>4, <2>1, <2>2
    <3>2. Cardinality(Owers(f)') = Cardinality(Owers(f)) - 1
      BY <1>6, <2>2, <3>1
    <3>3. ref'[f] = ref[f] - 1 /\ f <= last
      BY <1>1, <1>8, <2>2 DEF IInv, TypeOK
    <3>4. ref[f] = 1 + Cardinality(Owers(f)) + extra[f] /\ extra[f] \in Nat
      BY <1>7, <2>2
    <3>5. Cardinality(Owers(f)) \in Nat
      BY <1>6, <2>2
    <3> QED
      BY <2>1, <3>2, <3>3, <3>4, <3>5
  <2>3. CASE f # p
    BY <1>4, <1>8, <2>1, <2>3 DEF IInv, TypeOK, RefIsCount
  <2> QED
    BY <2>2, <2>3
<1>11. ThreadInv'
  BY <1>1, <1>2 DEF IInv, TypeOK, ThreadInv, DropPrev, Ptr, Null
<1>12. /\ ExtraInQueue' /\ FreedInQueue' /\ EmptyQueue' /\ FreshNext' /\ ListIsLiveEvents'
       /\ LengthIsExact' /\ Live' = Live
  BY DEF IInv, DropPrev, ExtraInQueue, FreedInQueue, EmptyQueue, FreshNext, ListIsLiveEvents,
         LengthIsExact, Live, Open
<1>13. NeededEventsLive'
  <2> SUFFICES ASSUME Open, NEW e \in 1..last, e \in freed
               PROVE  extra[e] = 0 /\ \A d \in Consumer : prev'[d] > e /\ start[d] <= e
    BY DEF NeededEventsLive, DropPrev, Open
  <2>1. extra[e] = 0 /\ \A d \in Consumer : prev[d] > e /\ start[d] <= e
    BY DEF IInv, NeededEventsLive, Open
  <2> QED
    BY <1>1, <1>2, <2>1
<1>14. ScanInv'
  <2>1. cur \in Ptr /\ UNCHANGED <<gcpc, cur, pre, evncntr, next, evhead, extra, chan, gcdone>>
    BY DEF IInv, TypeOK, DropPrev
  <2>2. Owers(cur) = {} => Owers(cur)' = {}
    BY <1>4, <2>1
  <2> QED
    BY <1>12, <2>1, <2>2 DEF IInv, ScanInv, Open
<1> QED
  BY <1>9, <1>10, <1>11, <1>12, <1>13, <1>14 DEF IInv

\* Proxies get references on an event and give them back.
LEMMA ReferenceSteps ==
  ASSUME IInv, NEW e \in Event,
         \/ \E c \in Consumer : AddRef(c) /\ e = got[c]
         \/ DropExtra(e)
  PROVE  IInv'
<1> USE DEF qvars, cvars, gcvars
<1>1. /\ UNCHANGED <<last, freed, next, newborn, nmdrop, raced, qvars, cvars, gcvars>>
      /\ extra[e] \in Nat /\ ref[e] \in Nat /\ e \in Nat
  BY DEF AddRef, DropExtra, IInv, TypeOK, Event
<1>2. PICK r \in Int, x \in Nat :
        /\ ref' = [ref EXCEPT ![e] = r] /\ extra' = [extra EXCEPT ![e] = x]
        /\ r - ref[e] = x - extra[e]
        /\ \/ x > extra[e] /\ \E c \in Consumer : e = got[c] /\ pc[c] = "busy"
           \/ x < extra[e]
  <2>1. CASE DropExtra(e)
    <3>1. /\ extra[e] > 0 /\ ref' = [ref EXCEPT ![e] = ref[e] - 1]
          /\ extra' = [extra EXCEPT ![e] = extra[e] - 1]
      BY <2>1 DEF DropExtra
    <3>2. /\ ref[e] - 1 \in Int /\ extra[e] - 1 \in Nat /\ extra[e] - 1 < extra[e]
          /\ (ref[e] - 1) - ref[e] = (extra[e] - 1) - extra[e]
      BY <1>1, <3>1
    <3> USE <3>2
    <3> WITNESS ref[e] - 1 \in Int, extra[e] - 1 \in Nat
    <3> QED
      BY <3>1, <3>2
  <2>2. CASE \E c \in Consumer : AddRef(c) /\ e = got[c]
    <3>1. /\ \E c \in Consumer : e = got[c] /\ pc[c] = "busy"
          /\ ref' = [ref EXCEPT ![e] = ref[e] + 1]
          /\ extra' = [extra EXCEPT ![e] = extra[e] + 1]
      BY <2>2 DEF AddRef
    <3>2. /\ ref[e] + 1 \in Int /\ extra[e] + 1 \in Nat /\ extra[e] + 1 > extra[e]
          /\ (ref[e] + 1) - ref[e] = (extra[e] + 1) - extra[e]
      BY <1>1
    <3> USE <3>2
    <3> WITNESS ref[e] + 1 \in Int, extra[e] + 1 \in Nat
    <3> QED
      BY <3>1, <3>2
  <2> QED
    BY <2>1, <2>2
<1>4. x > extra[e] => \E c \in Consumer : c \in Owers(e) /\ prev[c] = e
  BY <1>1, <1>2 DEF Owers, Owes, IInv, TypeOK, ThreadInv, Ptr
<1>5. e <= last
  BY <1>1, <1>2 DEF IInv, TypeOK, ThreadInv, ExtraInQueue
<1>6. /\ ref[e] = 1 + Cardinality(Owers(e)) + extra[e]
      /\ Cardinality(Owers(e)) \in Nat
  BY <1>5, OwersCount DEF IInv, RefIsCount, Owers
<1>7. r = 1 + Cardinality(Owers(e)) + x /\ r \in Nat
  BY <1>1, <1>2, <1>6
<1>8. TypeOK'
  BY <1>1, <1>2, <1>7 DEF IInv, TypeOK
<1>9. \A f : Owers(f)' = Owers(f)
  BY <1>1 DEF Owers, Owes
<1>10. RefIsCount'
  <2> SUFFICES ASSUME NEW f \in Event
               PROVE  ref'[f] = IF f <= last THEN 1 + Cardinality(Owers(f)) + extra'[f]
                                ELSE 0
    BY <1>1, <1>9 DEF RefIsCount
  <2>1. CASE f = e
    BY <1>2, <1>5, <1>7, <2>1 DEF IInv, TypeOK
  <2>2. CASE f # e
    BY <1>2, <2>2 DEF IInv, TypeOK, RefIsCount
  <2> QED
    BY <2>1, <2>2
<1>11. ExtraInQueue'
  BY <1>1, <1>2, <1>5 DEF IInv, TypeOK, ExtraInQueue
<1>12. ThreadInv' /\ FreedInQueue' /\ EmptyQueue' /\ FreshNext' /\ ListIsLiveEvents' /\ LengthIsExact'
  BY <1>1 DEF IInv, ThreadInv, FreedInQueue, EmptyQueue, FreshNext, ListIsLiveEvents,
              LengthIsExact, Live, Open
<1>13. Open /\ e \in freed => extra[e] = 0 /\ Owers(e) = {}
  <2> SUFFICES ASSUME Open, e \in freed PROVE extra[e] = 0 /\ Owers(e) = {}
    OBVIOUS
  <2>1. extra[e] = 0 /\ \A c \in Consumer : prev[c] > e /\ start[c] <= e
    BY <1>5 DEF IInv, NeededEventsLive, Open, Event
  <2>2. \A c \in Consumer : prev[c] \in Nat /\ start[c] \in Nat
    BY DEF IInv, TypeOK, Ptr
  <2> QED
    BY <1>1, <2>1, <2>2 DEF Owers, Owes, Null
<1>14. Open => e \notin freed
  BY <1>1, <1>2, <1>4, <1>13
<1>15. NeededEventsLive'
  BY <1>1, <1>2, <1>14 DEF IInv, TypeOK, NeededEventsLive, Open
<1>16. ScanInv'
  <2>1. Open /\ gcpc = "free" => cur # e
    BY <1>1, <1>2, <1>4 DEF IInv, ScanInv
  <2>2. Live' = Live
    BY <1>1 DEF Live
  <2> QED
    BY <1>1, <1>2, <1>9, <2>1, <2>2 DEF IInv, TypeOK, ScanInv, Open
<1> QED
  BY <1>8, <1>10, <1>11, <1>12, <1>15, <1>16 DEF IInv

\* What gc1 deletes for a full queue is the head of the list, which nobody needs
\* and which is not the tail; the collector is not on its way.
LEMMA DropIsGarbage ==
  ASSUME IInv, InsertAccepted, Full, ~raced'
  PROVE  /\ last > 0 /\ evhead \in Live /\ evhead # last
         /\ next[evhead] \in Live /\ evhead < next[evhead]
         /\ \A f \in Live : f <= evhead \/ next[evhead] <= f
         /\ extra[evhead] = 0
         /\ \A c \in Consumer : prev[c] > evhead /\ start[c] <= evhead
         /\ gcpc \notin {"init", "test", "ref", "free", "end"}
<1>1. Open /\ gcdone /\ last \in Nat /\ length \in Int /\ maxlen # 0 /\ maxlen <= length
      /\ nmdrop \in Nat
  BY ConstantsAssumption DEF InsertAccepted, finish, Open, Full, IInv, TypeOK
<1>2. gcpc \notin {"init", "test", "ref", "free", "end"} /\ evncntr = 0
  BY <1>1 DEF IInv, ScanInv
<1>3. maxlen \in Nat
  BY ConstantsAssumption DEF IInv, TypeOK
<1>4. last > 0
  <2>1. CASE last = 0
    <3>1. Live = {} /\ nmdrop = 0
      BY <1>1, <2>1 DEF Live, IInv, EmptyQueue
    <3>2. length = 0
      BY <1>1, <1>2, <3>1, FS_EmptySet DEF IInv, LengthIsExact, Open
    <3> QED
      BY <1>1, <1>3, <3>2
  <2> QED
    BY <1>1, <2>1
<1>5. /\ evhead \in Live /\ evhead \in 1..last
      /\ \A e \in Live :
           IF e = last THEN next[e] = Null
           ELSE /\ next[e] \in Live /\ e < next[e]
                /\ \A f \in Live : f <= e \/ next[e] <= f
  BY <1>1, <1>4 DEF IInv, ListIsLiveEvents, Live, Open
<1>6. Owers(evhead) = {} /\ extra[evhead] = 0
  BY <1>5, OnlyQueue DEF InsertAccepted, HeadIsGarbage
<1>7. \A c \in Consumer : prev[c] > evhead /\ start[c] <= evhead /\ prev[c] <= last
  <2> TAKE c \in Consumer
  <2>1. ~Owes(c, evhead)
    BY <1>6 DEF Owers
  <2>2. prev[c] \in Nat /\ start[c] \in Nat /\ evhead \in Nat
    BY <1>5 DEF IInv, TypeOK, Ptr
  <2>3. prev[c] <= last
    BY DEF IInv, ThreadInv
  <2> QED
    BY <2>1, <2>2, <2>3 DEF Owes
<1>8. evhead # last
  <2>1. PICK c \in Consumer : TRUE
    BY ConstantsAssumption
  <2>2. prev[c] \in Nat
    BY <2>1 DEF IInv, TypeOK, Ptr
  <2> QED
    BY <1>1, <1>7, <2>1, <2>2
<1> QED
  BY <1>2, <1>4, <1>5, <1>6, <1>7, <1>8

\* The list grows at its tail, and at its head loses what gc1 deletes: kept is
\* what it keeps of the old events, and head the first of them.
LEMMA InsertStep ==
  ASSUME IInv, InsertAccepted, ~raced'
  PROVE  IInv'
<1> DEFINE new  == last + 1
           kept == IF Full THEN Live \ {evhead} ELSE Live
           head == IF Full THEN next[evhead] ELSE evhead
<1>2. Open /\ Open'
  BY DEF InsertAccepted, finish, Open
<1>3. /\ last \in Nat /\ new \in Event /\ new \in Ptr /\ last' = new
      /\ freed' = (IF Full THEN freed \cup {evhead} ELSE freed)
      /\ freed \subseteq Event /\ \A e \in freed : e <= last
  <2>1. last \in Nat /\ freed \subseteq Event /\ \A e \in freed : e <= last
    BY <1>2, ConstantsAssumption DEF IInv, TypeOK, FreedInQueue, Event
  <2>3. new \in Event /\ new \in Ptr /\ last' = new
    BY <2>1, ConstantsAssumption DEF InsertAccepted, Event, Ptr
  <2>2. freed' = (IF Full THEN freed \cup {evhead} ELSE freed)
    BY Zenon DEF InsertAccepted
  <2> QED
    BY <2>1, <2>2, <2>3
<1>21. Full => evhead \in 1..last /\ evhead \in Event
  <2>1. Full => evhead \in 1..last
    BY DropIsGarbage DEF Live
  <2>2. \A e \in 1..last : e \in Event
    BY <1>3, ConstantsAssumption DEF Event
  <2> QED
    BY <2>1, <2>2
<1>22. last # 0 => /\ head \in kept /\ last \in kept
                   /\ \A e \in kept : head <= e
                   /\ \A e \in kept :
                        IF e = last THEN next[e] = Null
                        ELSE /\ next[e] \in kept /\ e < next[e]
                             /\ \A f \in kept : f <= e \/ next[e] <= f
  <2> SUFFICES ASSUME last # 0
               PROVE  /\ head \in kept /\ last \in kept
                      /\ \A e \in kept : head <= e
                      /\ \A e \in kept :
                           IF e = last THEN next[e] = Null
                           ELSE /\ next[e] \in kept /\ e < next[e]
                                /\ \A f \in kept : f <= e \/ next[e] <= f
    OBVIOUS
  <2>1. /\ evhead \in Live /\ last \in Live
        /\ \A e \in Live : evhead <= e
        /\ \A e \in Live :
             IF e = last THEN next[e] = Null
             ELSE /\ next[e] \in Live /\ e < next[e]
                  /\ \A f \in Live : f <= e \/ next[e] <= f
    BY <1>2, <1>3 DEF IInv, ListIsLiveEvents, Open
  <2>2. \A e \in Live : e \in Nat
    BY DEF Live
  <2>3. CASE ~Full
    BY <2>1, <2>3
  <2>4. CASE Full
    <3>1. /\ next[evhead] \in Live /\ evhead < next[evhead] /\ evhead # last
          /\ \A f \in Live : f <= evhead \/ next[evhead] <= f
      BY <2>4, DropIsGarbage
    <3>2. kept = Live \ {evhead} /\ head = next[evhead]
      BY <2>4
    <3>3. head \in kept /\ last \in kept
      BY <2>1, <2>2, <3>1, <3>2
    <3>4. ASSUME NEW e \in kept PROVE head <= e
      BY <2>1, <2>2, <3>1, <3>2
    <3>5. ASSUME NEW e \in kept, e # last
          PROVE  /\ next[e] \in kept /\ e < next[e]
                 /\ \A f \in kept : f <= e \/ next[e] <= f
      <4>1. e \in Live /\ next[e] \in Live /\ e < next[e] /\ evhead <= e
            /\ \A f \in Live : f <= e \/ next[e] <= f
        BY <2>1, <3>2, <3>5
      <4>2. next[e] # evhead
        BY <2>1, <2>2, <4>1
      <4> QED
        BY <3>2, <4>1, <4>2
    <3>6. next[last] = Null
      BY <2>1
    <3> QED
      BY <3>3, <3>4, <3>5, <3>6
  <2> QED
    BY <2>3, <2>4
<1>23. kept \subseteq Live /\ (last = 0 => kept = {} /\ ~Full)
  <2>1. last = 0 => Live = {}
    BY DEF Live
  <2>2. last = 0 => ~Full
    BY DropIsGarbage
  <2> QED
    BY <2>1, <2>2
<1>4. UNCHANGED <<newborn, extra, gcdone, maxlen, chan, prev, got, start, gcpc, cur,
                  pre, cursize, evncntr>>
  BY DEF InsertAccepted, gcvars
<1>5. IsFiniteSet(Consumer) /\ Cardinality(Consumer) \in Nat
  BY OwersCount
<1>6. TypeOK'
  <2>1. /\ last' \in 0..MaxEvents /\ freed' \subseteq Event
        /\ ref' \in [Event -> Nat]
    BY <1>3, <1>5, <1>21, ConstantsAssumption
    DEF IInv, TypeOK, InsertAccepted, InitialRef, NumReg
  <2>2. next' \in [Event -> Ptr]
    BY <1>3 DEF IInv, TypeOK, InsertAccepted
  <2>3. evhead' \in Ptr /\ evtail' \in Ptr /\ length' \in Int /\ announ' \in Nat
    BY <1>3, <1>21 DEF IInv, TypeOK, InsertAccepted
  <2>4. pc' \in [Consumer -> {"call", "look", "lock", "wait", "woken",
                              "drop", "mark", "busy", "exit", "fatal"}]
    BY DEF IInv, TypeOK, InsertAccepted, Broadcast
  <2>5. numblk' = numblk /\ nmdrop' \in Nat /\ raced' \in BOOLEAN
    <3>1. Cardinality({}) = 0 /\ Cardinality({evhead}) = 1
      BY FS_EmptySet, FS_Singleton
    <3>2. nmdrop' = nmdrop + (IF Full THEN 1 ELSE 0)
      BY <3>1 DEF InsertAccepted
    <3>3. raced' = (raced \/ (Full /\ ~gcdone)) /\ numblk' = numblk
      BY DEF InsertAccepted
    <3> QED
      BY <3>2, <3>3 DEF IInv, TypeOK
  <2> QED
    BY <1>4, <2>1, <2>2, <2>3, <2>4, <2>5 DEF IInv, TypeOK
<1>7. Live' = kept \cup {new} /\ new \notin Live /\ Live \subseteq Event
  BY <1>3, <1>21, ConstantsAssumption DEF Live, IInv, TypeOK, Event
<1>8. \A f \in Ptr : Owers(f)' = Owers(f)
  BY <1>4 DEF Owers, Owes
<1>9. RefIsCount'
  <2> SUFFICES ASSUME NEW f \in Event
               PROVE  ref'[f] = IF f <= new THEN 1 + Cardinality(Owers(f)) + extra[f]
                                ELSE 0
    BY <1>3, <1>4, <1>8 DEF RefIsCount, Event, Ptr
  <2>1. CASE f = new
    <3>1. Owers(f) = Consumer
      <4> SUFFICES ASSUME NEW c \in Consumer PROVE Owes(c, f)
        BY DEF Owers
      <4>1. prev[c] <= last
        BY DEF IInv, ThreadInv
      <4> QED
        BY <1>3, <2>1, <4>1 DEF Owes, IInv, TypeOK, Ptr
    <3>2. extra[f] = 0
      BY <1>3, <2>1 DEF IInv, TypeOK, ExtraInQueue
    <3>3. ref'[f] = 1 + Cardinality(Consumer)
      BY <1>3, <2>1 DEF InsertAccepted, InitialRef, NumReg, IInv, TypeOK
    <3> QED
      BY <1>3, <1>5, <2>1, <3>1, <3>2, <3>3
  <2>2. CASE f # new
    <3>1. ref'[f] = ref[f] /\ (f <= new <=> f <= last)
      BY <1>3, <2>2 DEF InsertAccepted, IInv, TypeOK, Event
    <3> QED
      BY <3>1 DEF IInv, RefIsCount
  <2> QED
    BY <2>1, <2>2
<1>10. ExtraInQueue' /\ FreedInQueue'
  <2>1. ASSUME NEW e \in Event, extra[e] > 0 PROVE e <= new
    BY <1>3, <2>1 DEF IInv, ExtraInQueue, Event
  <2>2. freed' \subseteq 1..new
    <3>1. freed \subseteq 1..new
      BY <1>3 DEF Event
    <3>2. Full => evhead \in 1..new
      BY <1>3, <1>21
    <3> QED
      BY <1>3, <3>1, <3>2
  <2> QED
    BY <1>3, <1>4, <2>1, <2>2 DEF ExtraInQueue, FreedInQueue
<1>11. ThreadInv'
  <2>1. pc' = pc \/ pc' = [c \in Consumer |-> IF pc[c] = "wait" THEN "woken" ELSE pc[c]]
    BY DEF InsertAccepted, Broadcast
  <2>2. \A c \in Consumer : /\ pc'[c] = "drop" <=> pc[c] = "drop"
                            /\ pc'[c] = "mark" <=> pc[c] = "mark"
                            /\ pc'[c] = "busy" <=> pc[c] = "busy"
    BY <2>1
  <2>3. \A c \in Consumer : prev[c] \in Nat /\ got[c] \in Nat
    BY DEF IInv, TypeOK, Ptr
  <2> QED
    <3>1. chan' \notin {"joined", "destroyed"}
      BY <1>4 DEF InsertAccepted, finish, IInv, TypeOK
    <3> QED
      BY <1>3, <1>4, <2>2, <2>3, <3>1 DEF IInv, ThreadInv
<1>12. EmptyQueue'
  BY <1>3 DEF EmptyQueue
<1>13. evtail = (IF last = 0 THEN Null ELSE last)
  BY <1>2, <1>3 DEF IInv, TypeOK, EmptyQueue, ListIsLiveEvents, Open
<1>14. /\ last = 0 => next' = next /\ evhead' = new
       /\ last # 0 => next' = [next EXCEPT ![last] = new] /\ evhead' = head
       /\ evtail' = new
  BY <1>3, <1>13 DEF InsertAccepted, Null
<1>15. next[new] = Null /\ next \in [Event -> Ptr]
  BY <1>2, <1>3 DEF IInv, TypeOK, FreshNext, Open
<1>16. FreshNext'
  <2> SUFFICES ASSUME NEW e \in Event, e > new PROVE next'[e] = Null
    BY <1>3 DEF FreshNext
  <2>1. next[e] = Null /\ e # last
    BY <1>2, <1>3 DEF IInv, FreshNext, Event
  <2> QED
    BY <1>14, <1>15, <2>1
<1>17. ListIsLiveEvents'
  <2>1. CASE last = 0
    <3>1. evhead' = new /\ evtail' = new /\ next' = next /\ Live' = {new}
      BY <1>7, <1>14, <1>23, <2>1
    <3> QED
      BY <1>3, <1>15, <3>1 DEF ListIsLiveEvents
  <2>2. CASE last # 0
    <3>1. /\ head \in kept /\ last \in kept
          /\ \A e \in kept : head <= e
          /\ \A e \in kept :
               IF e = last THEN next[e] = Null
               ELSE /\ next[e] \in kept /\ e < next[e]
                    /\ \A f \in kept : f <= e \/ next[e] <= f
      BY <1>22, <2>2
    <3>2. \A e \in kept : e \in Nat /\ e < new
      BY <1>3, <1>23 DEF Live
    <3>3. /\ evhead' \in Live' /\ evtail' = last' /\ last' \in Live'
          /\ \A e \in Live' : evhead' <= e
      <4>1. evhead' = head /\ evtail' = new /\ last' = new /\ Live' = kept \cup {new}
        BY <1>3, <1>7, <1>14, <2>2
      <4>2. head < new /\ head \in Nat
        BY <3>1, <3>2
      <4> HIDE DEF head, kept
      <4>3. ASSUME NEW e \in Live' PROVE evhead' <= e
        BY <1>3, <3>1, <4>1, <4>2, <4>3
      <4> QED
        BY <3>1, <4>1, <4>3
    <3>4. ASSUME NEW e \in Live', e # new
          PROVE  /\ next'[e] \in Live' /\ e < next'[e]
                 /\ \A f \in Live' : f <= e \/ next'[e] <= f
      <4>1. e \in kept /\ e \in Event
        BY <1>3, <1>7, <1>23, <3>4
      <4>2. CASE e = last
        BY <1>3, <1>7, <1>14, <1>15, <2>2, <3>2, <4>1, <4>2
      <4>3. CASE e # last
        <5>1. next'[e] = next[e] /\ next[e] \in kept /\ e < next[e]
          BY <1>14, <1>15, <2>2, <3>1, <4>1, <4>3
        <5>2. \A f \in kept : f <= e \/ next[e] <= f
          BY <3>1, <4>1, <4>3
        <5>3. next[e] <= new
          BY <1>3, <3>2, <5>1
        <5> QED
          BY <1>7, <5>1, <5>2, <5>3
      <4> QED
        BY <4>2, <4>3
    <3>5. next'[new] = Null
      BY <1>3, <1>14, <1>15, <2>2
    <3> QED
      BY <1>3, <3>3, <3>4, <3>5 DEF ListIsLiveEvents
  <2> QED
    BY <2>1, <2>2
<1>18. NeededEventsLive'
  <2> SUFFICES ASSUME NEW e \in 1..new, e \in freed'
               PROVE  extra[e] = 0 /\ \A c \in Consumer : prev[c] > e /\ start[c] <= e
    BY <1>3, <1>4 DEF NeededEventsLive
  <2>1. CASE e \in freed
    <3>1. e \in 1..last
      BY <1>3, <2>1
    <3> QED
      BY <1>2, <2>1, <3>1 DEF IInv, NeededEventsLive, Open
  <2>2. CASE e \notin freed
    <3>1. Full /\ e = evhead
      BY <1>3, <2>2
    <3> QED
      BY <3>1, DropIsGarbage
  <2> QED
    BY <2>1, <2>2
<1>19. ScanInv'
  <2> SUFFICES ASSUME gcpc \in {"test", "ref", "free"}, cur # Null
               PROVE  /\ cur \in Live'
                      /\ cur # evhead' => pre \in Live' /\ next'[pre] = cur
                      /\ gcpc = "free" => Owers(cur)' = {} /\ extra[cur] = 0
    BY <1>2, <1>4 DEF IInv, ScanInv
  <2>6. ~Full /\ kept = Live /\ head = evhead
    BY DropIsGarbage
  <2>1. cur \in Live /\ (cur # evhead => pre \in Live /\ next[pre] = cur)
    BY <1>2 DEF IInv, ScanInv
  <2>2. last # 0
    BY <2>1 DEF Live
  <2>3. cur # evhead => pre # last
    BY <1>2, <1>3, <2>1, <2>2 DEF IInv, ListIsLiveEvents, Open
  <2>4. cur # evhead' => pre \in Live' /\ next'[pre] = cur
    <3>1. next'[pre] = next[pre] \/ pre = last \/ pre \notin Live
      BY <1>7, <1>14, <1>15, <2>2
    <3> QED
      BY <1>7, <1>14, <2>1, <2>2, <2>3, <2>6, <3>1
  <2>5. Owers(cur)' = Owers(cur)
    BY <1>4 DEF Owers, Owes
  <2> QED
    BY <1>2, <1>7, <2>1, <2>4, <2>5, <2>6 DEF IInv, ScanInv
<1>20. LengthIsExact'
  <2>1. IsFiniteSet(Live) /\ Cardinality(Live) \in Nat
    BY <1>3, LiveCount DEF Live
  <2>2. /\ IsFiniteSet(kept) /\ new \notin kept
        /\ Cardinality(kept) = Cardinality(Live) - (IF Full THEN 1 ELSE 0)
    <3>1. CASE Full
      <4>1. evhead \in Live /\ kept = Live \ {evhead}
        BY <3>1, DropIsGarbage
      <4> QED
        BY <1>7, <2>1, <3>1, <4>1, FS_RemoveElement
    <3>2. CASE ~Full
      BY <1>7, <2>1, <3>2
    <3> QED
      BY <3>1, <3>2
  <2>3. Cardinality(Live') = Cardinality(kept) + 1
    BY <1>7, <2>2, FS_AddElement
  <2>4. length' = length + 1 /\ evncntr' = evncntr
    BY DEF InsertAccepted, gcvars
  <2>5. nmdrop' = nmdrop + (IF Full THEN 1 ELSE 0)
    <3>1. Cardinality({}) = 0 /\ Cardinality({evhead}) = 1
      BY FS_EmptySet, FS_Singleton
    <3> QED
      BY <3>1 DEF InsertAccepted
  <2>6. length = Cardinality(Live) + evncntr + nmdrop
    BY <1>2 DEF IInv, LengthIsExact, Open
  <2> QED
    BY <2>1, <2>2, <2>3, <2>4, <2>5, <2>6 DEF IInv, TypeOK, LengthIsExact
<1> QED
  BY <1>6, <1>9, <1>10, <1>11, <1>12, <1>16, <1>17, <1>18, <1>19, <1>20 DEF IInv

\* The collector's steps that delete nothing.
LEMMA ScanSteps ==
  ASSUME IInv,
         GCTop \/ GCWake \/ GCBegin \/ GCInit \/ GCTest \/ GCAdvance \/ GCFound
  PROVE  IInv'
<1> USE DEF evars, cvars
<1>1. /\ UNCHANGED <<last, freed, next, ref, newborn, extra, nmdrop, raced, evhead, evtail,
                     length, announ, numblk, maxlen, chan, pc, prev, got, start>>
      /\ evncntr' = evncntr
  BY DEF GCTop, GCWake, GCBegin, GCInit, GCTest, GCAdvance, GCFound, qvars, IInv, ScanInv
<1>2. TypeOK'
  <2>1. gcpc' \in {"top", "timedwait", "begin", "init", "test", "ref", "free",
                  "end", "exit"}
    BY DEF GCTop, GCWake, GCBegin, GCInit, GCTest, GCAdvance, GCFound
  <2>2. cur' \in Ptr /\ pre' \in Ptr
    BY DEF GCTop, GCWake, GCBegin, GCInit, GCTest, GCAdvance, GCFound, IInv, TypeOK,
           ScanInv, Ptr, Event, Null
  <2>3. cursize' \in Int /\ gcdone' \in BOOLEAN
    <3>1. cursize \in Int /\ length \in Int /\ gcdone \in BOOLEAN
      BY DEF IInv, TypeOK
    <3>2. /\ cursize' = cursize \/ cursize' = length \/ cursize' = cursize - 1
          /\ gcdone' = gcdone \/ gcdone' = FALSE
      BY DEF GCTop, GCWake, GCBegin, GCInit, GCTest, GCAdvance, GCFound, qvars
    <3>3. cursize' \in Int
      BY <3>1, <3>2
    <3>4. gcdone' \in BOOLEAN
      BY <3>1, <3>2, Zenon
    <3> QED
      BY <3>3, <3>4
  <2> QED
    BY <1>1, <2>1, <2>2, <2>3 DEF IInv, TypeOK
<1>3. ThreadInv'
  BY <1>1 DEF IInv, ThreadInv
<1>4. Live' = Live /\ \A f : Owers(f)' = Owers(f)
  BY <1>1 DEF Live, Owers, Owes
<1>5. ScanInv'
  <2> HIDE DEF evars, cvars
  <2>6. gcpc' \in {"init", "test", "ref", "free", "end"} => ~gcdone'
    BY DEF GCTop, GCWake, GCBegin, GCInit, GCTest, GCAdvance, GCFound, qvars, IInv, ScanInv
  <2>1. CASE GCTop \/ GCWake \/ GCBegin
    BY <1>1, <2>1, <2>6 DEF GCTop, GCWake, GCBegin, IInv, ScanInv
  <2>2. CASE GCInit
    <3>1. gcpc' = "test" /\ cur' = evhead /\ evhead' = evhead
      BY <2>2 DEF GCInit, qvars
    <3>2. Open /\ evhead # Null => evhead \in Live
      BY DEF IInv, TypeOK, EmptyQueue, ListIsLiveEvents, Open
    <3> QED
      BY <1>1, <1>4, <2>6, <3>1, <3>2 DEF ScanInv, Open
  <2>3. CASE GCTest
    BY <1>1, <1>4, <2>3, <2>6 DEF GCTest, IInv, ScanInv, Open
  <2>4. CASE GCAdvance
    <3>1. gcpc = "ref" /\ gcpc' = "test" /\ cur # Null
      BY <2>4 DEF GCAdvance, IInv, ScanInv
    <3>2. pre' = cur /\ cur' = next[cur]
      BY <2>4 DEF GCAdvance
    <3>3. Open => cur \in Live /\ last > 0
      BY <3>1 DEF IInv, TypeOK, ScanInv, Live
    <3>4. Open /\ next[cur] # Null => next[cur] \in Live
      BY <3>3 DEF IInv, ListIsLiveEvents, Open
    <3> QED
      BY <1>1, <1>4, <2>6, <3>1, <3>2, <3>3, <3>4 DEF ScanInv, Open
  <2>5. CASE GCFound
    <3>1. gcpc = "ref" /\ gcpc' = "free" /\ ref[cur] = 1 /\ UNCHANGED <<cur, pre>>
      BY <2>5 DEF GCFound
    <3>2. Open => cur \in 1..last
      BY <3>1 DEF IInv, ScanInv, Live
    <3>3. Open => Owers(cur) = {} /\ extra[cur] = 0
      BY <3>1, <3>2, OnlyQueue
    <3>4. Owers(cur)' = Owers(cur)
      BY <1>1, <3>1 DEF Owers, Owes
    <3> QED
      BY <1>1, <1>4, <2>6, <3>1, <3>3, <3>4 DEF IInv, ScanInv, Open
  <2> QED
    BY <2>1, <2>2, <2>3, <2>4, <2>5
<1> QED
  BY <1>1, <1>2, <1>3, <1>5, QuietStep DEF Open

\* The event that is unlinked and deleted is one nobody needs, has a live
\* successor, and is the head of the list or the successor of pre.
LEMMA FreeStep ==
  ASSUME IInv, GCFree
  PROVE  IInv'
<1> USE DEF cvars
<1>1. /\ UNCHANGED <<last, ref, newborn, extra, nmdrop, raced, cursize, pc, prev, got, start, evtail,
                     length, announ, numblk, gcdone, maxlen, chan>>
      /\ freed' = freed \cup {cur} /\ evncntr' = evncntr + 1 /\ gcpc' = "test"
      /\ gcpc = "free"
  BY DEF GCFree
<1>2. cur \in Event /\ next[cur] \in Ptr /\ cur' = next[cur]
  <2>1. cur \in Event
    BY ConstantsAssumption DEF GCFree, IInv, TypeOK, ScanInv, Event, Ptr, Null
  <2> QED
    BY <2>1 DEF GCFree, IInv, TypeOK
<1>3. TypeOK'
  <2>1. freed' \subseteq Event
    BY <1>1, <1>2 DEF IInv, TypeOK
  <2>2. next' \in [Event -> Ptr] /\ evhead' \in Ptr /\ pre' \in Ptr
    BY <1>2 DEF GCFree, IInv, TypeOK
  <2> QED
    BY <1>1, <1>2, <2>1, <2>2 DEF IInv, TypeOK
<1>4. \A f : Owers(f)' = Owers(f)
  BY <1>1 DEF Owers, Owes
<1>5. RefIsCount' /\ ExtraInQueue' /\ ThreadInv'
  BY <1>1, <1>4 DEF IInv, RefIsCount, ExtraInQueue, ThreadInv
<1>6. CASE ~Open
  <2>1. ~Open'
    BY <1>1, <1>6 DEF Open
  <2> QED
    BY <1>1, <1>3, <1>5, <2>1
    DEF IInv, FreedInQueue, EmptyQueue, FreshNext, ListIsLiveEvents, NeededEventsLive,
        ScanInv, LengthIsExact, Open
<1>7. CASE Open
  <2>1. /\ Open' /\ last \in Nat /\ Live \subseteq Event
    BY <1>1, <1>7, ConstantsAssumption DEF Open, IInv, TypeOK, Live, Event
  <2>2. /\ cur \in Live /\ Owers(cur) = {} /\ extra[cur] = 0
        /\ cur # evhead => pre \in Live /\ next[pre] = cur
    BY <1>1, <1>7 DEF IInv, ScanInv
  <2>3. \A c \in Consumer : cur < prev[c] /\ start[c] <= cur /\ prev[c] <= last
    <3> TAKE c \in Consumer
    <3>1. ~Owes(c, cur)
      BY <2>2 DEF Owers
    <3>2. prev[c] \in Nat /\ start[c] \in Nat /\ cur \in Nat
      BY <1>2 DEF IInv, TypeOK, Ptr, Event
    <3>3. prev[c] <= last
      BY DEF IInv, ThreadInv
    <3> QED
      BY <3>1, <3>2, <3>3 DEF Owes
  <2>4. cur # last /\ last > 0
    <3>1. PICK c \in Consumer : TRUE
      BY ConstantsAssumption
    <3> QED
      BY <1>2, <2>1, <2>2, <2>3, <3>1 DEF IInv, TypeOK, Ptr, Live
  <2>5. /\ evhead \in Live /\ evtail = last /\ last \in Live
        /\ \A e \in Live : evhead <= e
        /\ \A e \in Live :
             IF e = last THEN next[e] = Null
             ELSE /\ next[e] \in Live /\ e < next[e]
                  /\ \A f \in Live : f <= e \/ next[e] <= f
    BY <1>7, <2>4 DEF IInv, ListIsLiveEvents, Open
  <2>6. Live' = Live \ {cur}
    BY <1>1 DEF Live
  <2>7. /\ next[cur] \in Live /\ cur < next[cur]
        /\ \A f \in Live : f <= cur \/ next[cur] <= f
    BY <2>2, <2>4, <2>5
  <2>8. next[cur] \in Live' /\ last \in Live'
    BY <1>2, <2>1, <2>4, <2>5, <2>6, <2>7 DEF Event
  <2>9. \/ /\ cur = evhead /\ evhead' = next[cur] /\ pre' = next[cur] /\ next' = next
        \/ /\ cur # evhead /\ evhead' = evhead /\ pre' = pre
           /\ next' = [next EXCEPT ![pre] = next[cur]]
    BY <1>1 DEF GCFree
  <2>10. FreedInQueue'
    BY <1>1, <1>7, <2>2 DEF IInv, FreedInQueue, Live
  <2>11. EmptyQueue'
    BY <1>1, <2>4 DEF EmptyQueue
  <2>12. FreshNext'
    <3>1. \A e \in Event : e > last => e \notin Live
      BY <2>1 DEF Live, Event
    <3>2. \A e \in Event : e > last => next'[e] = next[e]
      BY <2>2, <2>9, <3>1 DEF IInv, TypeOK
    <3> QED
      BY <1>1, <1>7, <3>2 DEF IInv, FreshNext
  <2>13. ListIsLiveEvents'
    <3>1. evhead' \in Live'
      BY <2>5, <2>6, <2>8, <2>9
    <3>2. ASSUME NEW e \in Live' PROVE evhead' <= e
      <4>1. e \in Live /\ e # cur /\ evhead <= e /\ (e <= cur \/ next[cur] <= e)
        BY <2>5, <2>6, <2>7
      <4> QED
        BY <1>2, <2>1, <2>9, <4>1 DEF Event, Ptr
    <3>3. ASSUME NEW e \in Live', e # last
          PROVE  /\ next'[e] \in Live' /\ e < next'[e]
                 /\ \A f \in Live' : f <= e \/ next'[e] <= f
      <4>1. /\ e \in Live /\ e # cur /\ e \in Event
            /\ next[e] \in Live /\ e < next[e]
            /\ \A f \in Live : f <= e \/ next[e] <= f
        BY <2>1, <2>5, <2>6, <3>3
      <4>2. CASE cur # evhead /\ e = pre
        <5>1. next'[e] = next[cur] /\ next[e] = cur
          BY <2>2, <2>9, <4>1, <4>2 DEF IInv, TypeOK
        <5>2. \A f \in Live' : f \in Live /\ f # cur /\ f \in Nat
          BY <2>1, <2>6 DEF Event
        <5>3. ASSUME NEW f \in Live' PROVE f <= e \/ next[cur] <= f
          <6>1. f \in Live /\ f # cur /\ f \in Nat
            BY <5>2
          <6>2. f <= e \/ cur <= f
            BY <4>1, <5>1, <6>1
          <6>3. f <= cur \/ next[cur] <= f
            BY <2>7, <6>1
          <6> QED
            BY <1>2, <6>1, <6>2, <6>3 DEF Event
        <5>4. e < next[cur]
          BY <1>2, <2>7, <4>1, <5>1 DEF Event, Ptr
        <5> QED
          BY <2>8, <5>1, <5>3, <5>4
      <4>3. CASE ~(cur # evhead /\ e = pre)
        <5>1. next'[e] = next[e]
          BY <2>9, <4>1, <4>3 DEF IInv, TypeOK
        <5>2. next[e] # cur
          <6>1. CASE cur = evhead
            BY <1>2, <2>5, <4>1, <6>1 DEF Event
          <6>2. CASE cur # evhead /\ e # pre /\ next[e] = cur
            <7>1. /\ pre \in Live /\ next[pre] = cur /\ pre # last
                  /\ pre < next[pre] /\ pre \in Event
                  /\ e <= pre \/ next[pre] <= e
                  /\ pre <= e \/ next[e] <= pre
              <8>1. pre \in Live /\ next[pre] = cur /\ cur # Null
                BY <1>2, <2>2, <6>2 DEF Event, Null
              <8>2. pre # last /\ pre \in Event
                BY <2>1, <2>5, <8>1
              <8> QED
                BY <2>5, <4>1, <8>1, <8>2
            <7> QED
              BY <1>2, <4>1, <6>2, <7>1 DEF Event
          <6> QED
            BY <4>3, <6>1, <6>2
        <5> QED
          BY <2>6, <4>1, <5>1, <5>2
      <4> QED
        BY <4>2, <4>3
    <3>4. next'[last] = Null
      <4>1. last \in Event /\ next[last] = Null
        BY <2>1, <2>5
      <4>2. cur # evhead => pre # last
        BY <1>2, <2>2, <2>5 DEF Event, Null
      <4> QED
        BY <2>9, <4>1, <4>2 DEF IInv, TypeOK
    <3> QED
      BY <1>1, <2>5, <2>8, <3>1, <3>2, <3>3, <3>4 DEF ListIsLiveEvents
  <2>14. NeededEventsLive'
    BY <1>1, <1>7, <2>2, <2>3 DEF IInv, NeededEventsLive, Open
  <2>15. ScanInv'
    <3>1. cur' # evhead' => pre' \in Live' /\ next'[pre'] = cur'
      <4> SUFFICES ASSUME cur' # evhead' PROVE pre' \in Live' /\ next'[pre'] = cur'
        OBVIOUS
      <4>1. cur # evhead /\ pre' = pre /\ next' = [next EXCEPT ![pre] = next[cur]]
        BY <1>2, <2>9
      <4>2. pre \in Live /\ next[pre] = cur /\ pre \in Event
        BY <2>1, <2>2, <4>1
      <4>3. pre # cur
        <5>1. next[pre] # Null
          BY <1>2, <4>2 DEF Event, Null
        <5>2. pre < next[pre]
          BY <2>5, <4>2, <5>1
        <5> QED
          BY <1>2, <4>2, <5>2 DEF Event
      <4> QED
        BY <1>2, <2>6, <4>1, <4>2, <4>3 DEF IInv, TypeOK
    <3>2. cur' \in Live'
      BY <1>2, <2>8
    <3>3. ~gcdone'
      BY <1>1 DEF IInv, ScanInv
    <3> QED
      BY <1>1, <3>1, <3>2, <3>3 DEF ScanInv
  <2>16. LengthIsExact'
    <3>1. IsFiniteSet(Live) /\ Cardinality(Live) \in Nat
      BY <2>1, LiveCount DEF Live
    <3>2. Cardinality(Live') = Cardinality(Live) - 1
      BY <2>2, <2>6, <3>1, FS_RemoveElement
    <3> QED
      BY <1>1, <1>7, <3>1, <3>2 DEF IInv, TypeOK, LengthIsExact, Open
  <2> QED
    BY <1>3, <1>5, <2>10, <2>11, <2>12, <2>13, <2>14, <2>15, <2>16 DEF IInv
<1> QED
  BY <1>6, <1>7

\* The collector comes to rest: the length is put right.
LEMMA CollectionEndStep ==
  ASSUME IInv, GCEnd
  PROVE  IInv'
<1> USE DEF evars, cvars
<1>1. /\ UNCHANGED <<last, freed, next, ref, newborn, extra, nmdrop, raced, evhead, evtail,
                     announ, numblk, maxlen, chan, pc, prev, got, start, cur, pre, cursize>>
      /\ gcdone' = TRUE /\ evncntr' = 0 /\ length' = length - evncntr /\ gcpc' = "top"
  BY DEF GCEnd
<1>2. TypeOK'
  BY <1>1 DEF IInv, TypeOK
<1>3. Live' = Live /\ \A f : Owers(f)' = Owers(f)
  BY <1>1 DEF Live, Owers, Owes
<1>4. RefIsCount' /\ ExtraInQueue' /\ ThreadInv'
  BY <1>1, <1>3 DEF IInv, RefIsCount, ExtraInQueue, ThreadInv
<1>5. /\ FreedInQueue' /\ EmptyQueue' /\ FreshNext' /\ ListIsLiveEvents'
      /\ NeededEventsLive' /\ ScanInv'
  BY <1>1, <1>3 DEF IInv, FreedInQueue, EmptyQueue, FreshNext, ListIsLiveEvents,
                    NeededEventsLive, ScanInv, Open
<1>6. LengthIsExact'
  <2>1. Open => Cardinality(Live) \in Nat
    <3>1. last \in Nat
      BY ConstantsAssumption DEF IInv, TypeOK
    <3> QED
      BY <3>1, LiveCount DEF Live
  <2> QED
    BY <1>1, <1>3, <2>1 DEF IInv, TypeOK, LengthIsExact, Open
<1> QED
  BY <1>2, <1>4, <1>5, <1>6 DEF IInv

\* After the queue has been deleted the invariant says nothing of the list.
LEMMA DestroyStep ==
  ASSUME IInv, Destroy
  PROVE  IInv'
<1>1. /\ chan' = "destroyed" /\ freed' = 1..last /\ evhead' = Null /\ evtail' = Null
      /\ length' = 0
      /\ UNCHANGED <<last, next, ref, newborn, extra, nmdrop, raced, announ, numblk, gcdone, maxlen>>
      /\ UNCHANGED <<pc, prev, got, start, gcpc, cur, pre, cursize, evncntr>>
  BY DEF Destroy, cvars, gcvars
<1>2. TypeOK'
  <2>1. freed' \subseteq Event
    BY <1>1, ConstantsAssumption DEF IInv, TypeOK, Event
  <2> QED
    BY <1>1, <2>1, ConstantsAssumption DEF IInv, TypeOK, Null, Ptr
<1>3. \A f : Owers(f)' = Owers(f)
  BY <1>1 DEF Owers, Owes
<1>4. RefIsCount' /\ ExtraInQueue' /\ ThreadInv'
  <2>1. ThreadInv'
    BY <1>1 DEF Destroy, IInv, ThreadInv
  <2> QED
    BY <1>1, <1>3, <2>1 DEF IInv, RefIsCount, ExtraInQueue
<1> QED
  BY <1>1, <1>2, <1>4
  DEF IInv, FreedInQueue, EmptyQueue, FreshNext, ListIsLiveEvents, NeededEventsLive,
      ScanInv, LengthIsExact, Open

\* A step in which nothing changes.
LEMMA StutterStep ==
  ASSUME IInv, UNCHANGED vars
  PROVE  IInv'
<1> USE DEF vars, qvars, evars, cvars, gcvars
<1>1. TypeOK' /\ ThreadInv'
  BY DEF IInv, TypeOK, ThreadInv
<1>2. ScanInv'
  BY DEF IInv, ScanInv, Owers, Owes, Live, Open
<1> QED
  BY <1>1, <1>2, QuietStep DEF Open

-----------------------------------------------------------------------------
(* The theorems                                                            *)

\* gc1 races with the collector only in a queue with a limit, and a race is not
\* forgotten.
LEMMA RacedStays == raced /\ [Next]_vars => raced'
BY DEF Next, vars, evars, NextEvent, GarbageCollect, ChannelDestroy, InsertRejected,
       InsertAccepted, QosChanged, CallShut, CallNext, LookNext, LockNext, WokenNext,
       DropPrev, MarkEvent, AddRef, DispatchDone, DropExtra, GCTop, GCWake, GCBegin,
       GCInit, GCTest, GCAdvance, GCFound, GCFree, GCEnd, Shutdown, SetFinished,
       FinishPoll, FinishDone, JoinDispatch, Destroy

LEMMA NeverRaced == ASSUME Unlimited PROVE Spec => []~raced
<1> DEFINE Calm == maxlen \in MaxQueueLengths /\ ~raced
<1>1. Init => Calm
  BY DEF Init
<1>2. Calm /\ [Next]_vars => Calm'
  <2> SUFFICES ASSUME Calm, [Next]_vars PROVE Calm'
    OBVIOUS
  <2>1. CASE InsertAccepted
    BY <2>1 DEF Unlimited, InsertAccepted, Full
  <2>2. CASE ~InsertAccepted
    BY <2>2
    DEF Next, vars, evars, qvars, NextEvent, GarbageCollect, ChannelDestroy, InsertRejected,
        QosChanged, CallShut, CallNext, LookNext, LockNext, WokenNext, DropPrev, MarkEvent,
        AddRef, DispatchDone, DropExtra, GCTop, GCWake, GCBegin, GCInit, GCTest, GCAdvance,
        GCFound, GCFree, GCEnd, Shutdown, SetFinished, FinishPoll, FinishDone,
        JoinDispatch, Destroy
  <2> QED
    BY <2>1, <2>2
<1>3. Calm => ~raced
  OBVIOUS
<1> QED
  BY <1>1, <1>2, <1>3, PTL DEF Spec

\* The inductive invariant holds of the queue for any limit, any number of
\* dispatch threads and any number of events, until gc1 has deleted an event
\* during a pass of the collector.
THEOREM Invariance == Spec => [](raced \/ IInv)
<1> DEFINE J == raced \/ IInv
<1>1. Init => J
  BY InitIInv
<1>2. J /\ [Next]_vars => J'
  <2> SUFFICES ASSUME IInv, ~raced', [Next]_vars PROVE IInv'
    BY RacedStays
  <2>1. CASE InsertRejected \/ QosChanged
    BY <2>1, QueueQuietSteps
  <2>2. CASE InsertAccepted
    BY <2>2, InsertStep
  <2>3. ASSUME NEW c \in Consumer, NextEvent(c) \/ AddRef(c) \/ DispatchDone(c)
        PROVE  IInv'
    <3>1. CASE DropPrev(c)
      BY <3>1, DropPrevStep
    <3>2. CASE AddRef(c)
      <4>1. got[c] \in Event
        BY <3>2 DEF AddRef, IInv, TypeOK, ThreadInv, Ptr, Event, Null
      <4> QED
        BY <3>2, <4>1, ReferenceSteps
    <3> QED
      BY <2>3, <3>1, <3>2, NextEventSteps DEF NextEvent
  <2>4. ASSUME NEW e \in Event, DropExtra(e) PROVE IInv'
    BY <2>4, ReferenceSteps
  <2>5. CASE GarbageCollect
    BY <2>5, ScanSteps, FreeStep, CollectionEndStep DEF GarbageCollect
  <2>6. CASE ChannelDestroy
    BY <2>6, QueueQuietSteps, DestroyStep DEF ChannelDestroy
  <2>7. CASE UNCHANGED vars
    BY <2>7, StutterStep
  <2> QED
    BY <2>1, <2>2, <2>3, <2>4, <2>5, <2>6, <2>7 DEF Next
<1> QED
  BY <1>1, <1>2, PTL DEF Spec

\* Whatever the limit, no pointer of the queue, of a dispatch thread or of the
\* collector leads to a deleted event, and the list is the events not deleted,
\* in order, as long as gc1 has not raced with the collector.
THEOREM PointersSafeUnlessRaced == Spec => []PointersUnlessRaced
<1>1. raced \/ IInv => PointersUnlessRaced
  BY IInvNoDangling DEF PointersUnlessRaced, IInv
<1> QED
  BY <1>1, Invariance, PTL

\* Whatever the limit, neither the collector nor gc1 deletes an event that a
\* dispatch thread or a proxy still needs, as long as they have not raced.
THEOREM NeededKeptUnlessRaced == Spec => []NeededUnlessRaced
<1>1. raced \/ IInv => NeededUnlessRaced
  BY DEF NeededUnlessRaced, IInv
<1> QED
  BY <1>1, Invariance, PTL

\* _length, the collector's count and gc1's together give the length of the list.
THEOREM LengthCorrect == Spec => [](raced \/ LengthIsExact)
<1>1. raced \/ IInv => raced \/ LengthIsExact
  BY DEF IInv
<1> QED
  BY <1>1, Invariance, PTL

\* Without a limit there is no race, and the invariant holds for good.
LEMMA InvarianceUnlimited == ASSUME Unlimited PROVE Spec => []IInv
BY NeverRaced, Invariance, PTL

\* Every variable keeps its type.
THEOREM TypeCorrect == ASSUME Unlimited PROVE Spec => []TypeOK
<1>1. IInv => TypeOK
  BY DEF IInv
<1> QED
  BY <1>1, InvarianceUnlimited, PTL

\* The collector, which scans without the lock, never deletes an event that the
\* queue, a dispatch thread or the collector itself still points to.
THEOREM PointersSafe == ASSUME Unlimited PROVE Spec => []NoDanglingPointer
BY IInvNoDangling, InvarianceUnlimited, PTL

\* Unlinking events while threads walk and extend the list leaves exactly the
\* events not yet deleted, in order.
THEOREM ListCorrect == ASSUME Unlimited PROVE Spec => []ListIsLiveEvents
<1>1. IInv => ListIsLiveEvents
  BY DEF IInv
<1> QED
  BY <1>1, InvarianceUnlimited, PTL

\* No event is deleted while a dispatch thread or a proxy still needs it.
THEOREM NeededEventsKept == ASSUME Unlimited PROVE Spec => []NeededEventsLive
<1>1. IInv => NeededEventsLive
  BY DEF IInv
<1> QED
  BY <1>1, InvarianceUnlimited, PTL

\* next_event returns no null event to admin_dispatch before a shutdown; this
\* needs no assumption on the length limit.
THEOREM NullOnlyAtShutdown == Spec => []NoNullEvent
<1> DEFINE Inv == pc \in [Consumer -> {"call", "look", "lock", "wait", "woken", "drop",
                                      "mark", "busy", "exit"}]
<1>1. Init => Inv
  BY DEF Init
<1>2. Inv /\ [Next]_vars => Inv'
  BY DEF Next, vars, cvars, NextEvent, GarbageCollect, ChannelDestroy, InsertRejected,
         InsertAccepted, QosChanged, Broadcast, CallShut, CallNext, LookNext, LockNext, WokenNext,
         DropPrev, MarkEvent, AddRef, DispatchDone, DropExtra, Take, ReturnNull, finish,
         shutmedown, GCTop, GCWake, GCBegin, GCInit, GCTest, GCAdvance, GCFound, GCFree,
         GCEnd, Shutdown, SetFinished, FinishPoll, FinishDone, JoinDispatch, Destroy
<1>3. Inv => NoNullEvent
  BY DEF NoNullEvent
<1> QED
  BY <1>1, <1>2, <1>3, PTL DEF Spec

\* What a thread takes is what the feed delivers next.
LEMMA TakeDelivers ==
  ASSUME IInv, NEW c \in Consumer, NEW e \in {Offer(c), LockedOffer(c)},
         e # Null, Take(c, e), pc[c] \notin {"drop", "exit"}, UNCHANGED <<last, chan>>
  PROVE  Feed!Deliver(c)
<1>1. Open
  BY DEF Open, IInv, ThreadInv
<1>2. e \in 1..last /\ (prev[c] # Null => e = prev[c] + 1)
  BY <1>1, Offered DEF Live
<1>3. got[c] = prev[c] /\ got' = [got EXCEPT ![c] = e] /\ finish' = finish
  BY DEF IInv, ThreadInv, Take, finish
<1>4. got[c] < last
  BY <1>2, <1>3, ConstantsAssumption DEF IInv, TypeOK, Null, Ptr
<1> QED
  BY <1>2, <1>3, <1>4 DEF Feed!Deliver, Null

\* The queue implements the feed: every dispatch thread gets the events
\* announced after it entered, each once and in order, whatever the collector
\* does meanwhile.
THEOREM QueueIsFeed == ASSUME Unlimited PROVE Spec => FeedSpec
<1>1. Init => Feed!Init
  BY DEF Init, Feed!Init, finish, Null
<1>2. IInv /\ [Next]_vars => [Feed!Next]_(Feed!vars)
  <2> SUFFICES ASSUME IInv, [Next]_vars
               PROVE  Feed!Next \/ UNCHANGED <<last, got, finish>>
    BY DEF Feed!vars
  <2>1. CASE InsertAccepted
    <3>1. Feed!Publish
      BY <2>1 DEF InsertAccepted, Feed!Publish, finish
    <3> QED
      BY <3>1 DEF Feed!Next
  <2>2. CASE SetFinished
    <3>1. Feed!Close
      BY <2>2 DEF SetFinished, Feed!Close, finish, evars
    <3> QED
      BY <3>1 DEF Feed!Next
  <2>3. ASSUME NEW c \in Consumer, CallNext(c) \/ LookNext(c) \/ LockNext(c) \/ WokenNext(c)
        PROVE  Feed!Next \/ UNCHANGED <<last, got, finish>>
    <3>1. UNCHANGED <<last, chan>> /\ pc[c] \notin {"drop", "exit"}
      BY <2>3 DEF CallNext, LookNext, LockNext, WokenNext, qvars, evars
    <3>2. CASE UNCHANGED got
      BY <3>1, <3>2 DEF finish
    <3>3. CASE \E e \in {Offer(c), LockedOffer(c)} : e # Null /\ Take(c, e)
      <4>1. Feed!Deliver(c)
        BY <3>1, <3>3, TakeDelivers
      <4> QED
        BY <4>1 DEF Feed!Next
    <3> QED
      BY <2>3, <3>2, <3>3 DEF CallNext, LookNext, LockNext, WokenNext, ReturnNull
  <2>4. CASE UNCHANGED vars
    BY <2>4 DEF vars, evars, cvars, qvars, finish
  <2>5. ASSUME NEW c \in Consumer,
               \/ CallShut(c) \/ DropPrev(c) \/ MarkEvent(c) \/ AddRef(c)
               \/ DispatchDone(c)
        PROVE  UNCHANGED <<last, got, finish>>
    BY <2>5 DEF CallShut, DropPrev, MarkEvent, AddRef, DispatchDone, qvars, evars, cvars,
                finish
  <2>6. CASE InsertRejected \/ QosChanged \/ \E e \in Event : DropExtra(e)
    BY <2>6 DEF InsertRejected, QosChanged, DropExtra, qvars, evars, cvars, finish
  <2>7. CASE GarbageCollect
    BY <2>7 DEF GarbageCollect, GCTop, GCWake, GCBegin, GCInit, GCTest, GCAdvance, GCFound,
                GCFree, GCEnd, qvars, evars, cvars, finish
  <2>8. CASE Shutdown \/ FinishPoll \/ FinishDone \/ JoinDispatch \/ Destroy
    BY <2>8 DEF Shutdown, FinishPoll, FinishDone, JoinDispatch, Destroy, qvars, evars,
                cvars, finish
  <2> QED
    BY <2>1, <2>2, <2>3, <2>4, <2>5, <2>6, <2>7, <2>8 DEF Next, NextEvent, ChannelDestroy
<1> QED
  BY <1>1, <1>2, InvarianceUnlimited, PTL DEF Spec, FeedSpec, Feed!Spec
=============================================================================
