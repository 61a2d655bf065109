------------------------- MODULE PullDeliveryProofs -------------------------
(***************************************************************************)
(* The wakeups, the disposal and the promise of a pull supplier proxy, for *)
(* any number of pullers, any settings and any number of events.           *)
(***************************************************************************)
EXTENDS PullDelivery, SequenceTheorems, FiniteSetTheorems, TLAPS

(***************************************************************************)
(* The invariant.  Stages: who may be blocked at which stage of the        *)
(* proxy's life.                                                           *)
(***************************************************************************)
Stages ==
  /\ dis = "no" <=> pxstate # "Disconnected"
  /\ dis = "one" => \A p \in Puller : pc[p] \in {"idle", "woken"}
  /\ dis \in {"clean", "done"} => \A p \in Puller : pc[p] = "idle"
  /\ pxstate = "NotConnected" => queue = <<>> /\ \A p \in Puller : pc[p] = "idle"
  /\ \A p \in Puller : pc[p] = "timed" => kind = "sequence"

IInv == TypeOK /\ Stages /\ NoLostWakeup

-----------------------------------------------------------------------------
(* Facts about the helpers                                                 *)

(* What is left of a queue without its n oldest events. *)
LEMMA Rest ==
  ASSUME NEW S, NEW s \in Seq(S), NEW n \in 0..Len(s)
  PROVE  /\ SubSeq(s, n + 1, Len(s)) \in Seq(S)
         /\ Len(SubSeq(s, n + 1, Len(s))) = Len(s) - n
<1>1. Len(s) \in Nat /\ \A i \in (n + 1)..Len(s) : s[i] \in S  BY LenProperties, ElementOfSeq
<1> QED  BY <1>1, SubSeqProperties

(* The new event comes last, and the limit holds then. *)
LEMMA InsertFact ==
  ASSUME TypeOK, NEW e \in 1..MaxEvents, Insert(e)
  PROVE  /\ queue' \in Seq(1..MaxEvents)
         /\ Len(queue') <= Len(queue) + 1
         /\ \E n \in 0..Len(queue) :
              /\ queue' = Append(SubSeq(queue, n + 1, Len(queue)), e)
              /\ n > 0 => qos.limit > 0 /\ Len(queue') = qos.limit
              /\ qos.limit > 0 => Len(queue') <= qos.limit
<1> DEFINE n == IF qos.limit = 0 \/ Len(queue) < qos.limit THEN 0 ELSE Len(queue) - qos.limit + 1
<1>1. /\ queue \in Seq(1..MaxEvents) /\ Len(queue) \in Nat
      /\ qos \in [batch : Nat, pacing : BOOLEAN, limit : Nat, policy : {"fifo", "other"}]
  BY PullAssumption, LenProperties DEF TypeOK
<1>2. qos.limit \in Nat  BY <1>1
<1>3. n \in 0..Len(queue)  BY <1>1, <1>2
<1> DEFINE r == SubSeq(queue, n + 1, Len(queue))
<1>4. r \in Seq(1..MaxEvents) /\ Len(r) = Len(queue) - n  BY <1>1, <1>3, Rest
<1>5. queue' = Append(r, e)  BY DEF Insert
<1>6. queue' \in Seq(1..MaxEvents) /\ Len(queue') = Len(queue) - n + 1
  BY <1>4, <1>5, AppendProperties
<1>7. n > 0 => qos.limit > 0 /\ Len(queue') = qos.limit  BY <1>1, <1>2, <1>6
<1>8. qos.limit > 0 => Len(queue') <= qos.limit  BY <1>1, <1>2, <1>6
<1>9. Len(queue') <= Len(queue) + 1  BY <1>1, <1>3, <1>6
<1> HIDE DEF n
<1> QED  BY <1>3, <1>5, <1>6, <1>7, <1>8, <1>9

(* The batch that is handed out. *)
Amount(m) == IF Len(queue) < Bsize(m) THEN Len(queue) ELSE Bsize(m)

LEMMA BatchBound ==
  ASSUME TypeOK, NEW m \in Nat
  PROVE  /\ Bsize(m) \in Nat /\ Amount(m) \in 0..Len(queue) /\ Amount(m) <= Bsize(m)
         /\ Bsize(m) <= (IF kind = "sequence" THEN qos.batch ELSE 1)
         /\ kind # "sequence" => Bsize(m) = 1
<1>1. /\ Len(queue) \in Nat
      /\ qos \in [batch : Nat, pacing : BOOLEAN, limit : Nat, policy : {"fifo", "other"}]
  BY PullAssumption, LenProperties DEF TypeOK
<1>2. qos.batch \in Nat  BY <1>1
<1> QED  BY <1>1, <1>2 DEF Bsize, Amount

LEMMA HandOverFact ==
  ASSUME TypeOK, NEW n \in 0..Len(queue), HandOver(n)
  PROVE  /\ queue' \in Seq(1..MaxEvents) /\ Len(queue') = Len(queue) - n
         /\ last' \in 0..MaxEvents /\ accepted' = accepted
<1>1. queue \in Seq(1..MaxEvents) /\ last \in 0..MaxEvents  BY DEF TypeOK
<1>2. n # 0 => queue[n] \in 1..MaxEvents
  <2>1. n # 0 => n \in 1..Len(queue)  BY <1>1, LenProperties
  <2> QED  BY <1>1, <2>1, ElementOfSeq
<1>3. MaxEvents \in Nat  BY PullAssumption
<1>4. queue' \in Seq(1..MaxEvents) /\ Len(queue') = Len(queue) - n
  BY <1>1, Rest DEF HandOver
<1>5. last' \in 0..MaxEvents
  <2>1. CASE n = 0  BY <1>1, <2>1 DEF HandOver
  <2>2. CASE n # 0  BY <1>2, <1>3, <2>2 DEF HandOver
  <2> QED  BY <2>1, <2>2
<1> QED  BY <1>4, <1>5 DEF HandOver

LEMMA Finite ==
  ASSUME TypeOK
  PROVE  /\ IsFiniteSet(Woken) /\ Cardinality(Woken) \in Nat
         /\ Len(queue) \in Nat /\ Woken \subseteq Puller /\ Waiting \subseteq Puller
BY PullAssumption, FS_Subset, FS_CardinalityType, LenProperties DEF Woken, Waiting, TypeOK

-----------------------------------------------------------------------------
(* The steps                                                               *)

LEMMA Start == ASSUME Init PROVE IInv
<1> USE PullAssumption DEF Init
<1>1. TypeOK
  <2>1. /\ kind \in Kinds /\ qos \in Qos /\ queue = <<>> /\ pxstate = "NotConnected"
        /\ dis = "no" /\ changes = 0 /\ accepted = 0 /\ last = 0
    OBVIOUS
  <2>2. pc \in [Puller -> {"idle", "wait", "timed", "woken"}]
        /\ maxnum \in [Puller -> Maxnums \cup {0}]
    OBVIOUS
  <2>3. timer \in {"unset", "running", "passed"}  OBVIOUS
  <2>4. qos.policy \in {"fifo", "other"}
    <3>1. qos \in [batch : Nat, pacing : BOOLEAN, limit : Nat, policy : {"fifo", "other"}]  OBVIOUS
    <3> QED  BY <3>1
  <2>5. sorted \in {"fifo", "other"}  BY <2>4
  <2>6. crashed \in BOOLEAN  OBVIOUS
  <2>7. MaxEvents \in Nat /\ MaxChanges \in Nat /\ <<>> \in Seq(1..MaxEvents)  BY EmptySeq
  <2> HIDE DEF Init
  <2> QED  BY <2>1, <2>2, <2>3, <2>5, <2>6, <2>7 DEF TypeOK
<1>2. Stages /\ NoLostWakeup
  BY DEF Stages, NoLostWakeup, Waiting
<1> QED  BY <1>1, <1>2 DEF IInv

(* A puller goes through the loop of its call. *)
LEMMA LoopSafe ==
  ASSUME IInv, NEW p \in Puller, NEW m \in Nat, Loop(p, m),
         \/ pc[p] = "idle" /\ pxstate = "Connected"
         \/ pc[p] = "woken",
         maxnum' \in [Puller -> Maxnums \cup {0}],
         UNCHANGED <<kind, pxstate, qos, sorted, changes, dis, crashed>>
  PROVE  IInv'
<1> USE DEF IInv
<1>1. pc \in [Puller -> {"idle", "wait", "timed", "woken"}] /\ timer \in {"unset", "running", "passed"}
  BY DEF TypeOK
<1>2. timer' \in {"unset", "running", "passed"}  BY <1>1 DEF Loop, Timer
<1>3. pc' = [pc EXCEPT ![p] = pc'[p]] /\ pc'[p] \in {"idle", "wait", "timed"}
  BY <1>1 DEF Loop
<1>4. \/ /\ pxstate # "Connected" /\ pc'[p] = "idle"
         /\ UNCHANGED <<queue, accepted, last>>
      \/ /\ pxstate = "Connected" /\ pc'[p] = "idle" /\ Ready(m) /\ HandOver(Amount(m))
      \/ /\ pxstate = "Connected" /\ ~Ready(m) /\ pc'[p] \in {"wait", "timed"}
         /\ pc'[p] = "timed" => kind = "sequence"
         /\ UNCHANGED <<queue, accepted, last>>
  BY <1>1 DEF Loop, hist, Amount, Paced
<1>5. /\ queue' \in Seq(1..MaxEvents) /\ last' \in 0..MaxEvents /\ accepted' = accepted
  BY <1>4, HandOverFact, BatchBound DEF TypeOK
<1>6. TypeOK'  BY <1>2, <1>3, <1>1, <1>5 DEF TypeOK
<1>7. Stages'
  <2>1. CASE pxstate # "Connected"  BY <1>1, <1>3, <1>4, <2>1 DEF Stages
  <2>2. CASE pxstate = "Connected"  BY <1>1, <1>3, <1>4, <2>2 DEF Stages
  <2> QED  BY <2>1, <2>2
<1>8. NoLostWakeup'
  <2> SUFFICES ASSUME kind # "sequence", Waiting' # {} PROVE Len(queue') <= Cardinality(Woken')
    BY DEF NoLostWakeup
  <2>1. Woken' = Woken \ {p}  BY <1>1, <1>3 DEF Woken
  <2>2. /\ IsFiniteSet(Woken) /\ Cardinality(Woken) \in Nat /\ Cardinality(Woken') \in Nat
        /\ Len(queue) \in Nat
        /\ Cardinality(Woken') = IF p \in Woken THEN Cardinality(Woken) - 1 ELSE Cardinality(Woken)
    <3>1. IsFiniteSet(Woken) /\ Cardinality(Woken) \in Nat /\ Len(queue) \in Nat  BY Finite
    <3>2. IsFiniteSet(Woken')  BY <2>1, <3>1, FS_Subset
    <3>3. Cardinality(Woken') \in Nat  BY <3>2, FS_CardinalityType
    <3> QED  BY <2>1, <3>1, <3>3, FS_RemoveElement
  <2>3. Bsize(m) = 1  BY BatchBound
  <2>4. CASE pxstate # "Connected"
    <3>1. \A q \in Puller : pc[q] \in {"idle", "woken"}  BY <2>4 DEF TypeOK, Stages
    <3> QED  BY <1>1, <1>3, <1>4, <2>4, <3>1 DEF Waiting
  <2>5. CASE pxstate = "Connected" /\ Ready(m)
    <3>1. pc'[p] = "idle" /\ HandOver(Amount(m))  BY <1>4, <2>5
    <3>2. Len(queue) >= 1  BY <2>3, <2>5, <2>2 DEF Ready, Paced
    <3>3. Amount(m) = 1  BY <2>2, <2>3, <3>2 DEF Amount
    <3>4. Len(queue') = Len(queue) - 1  BY <2>2, <3>1, <3>2, <3>3, HandOverFact
    <3>5. Waiting' = Waiting
      BY <1>1, <1>3, <2>5, <3>1 DEF Waiting
    <3> QED  BY <2>2, <3>2, <3>4, <3>5 DEF NoLostWakeup
  <2>6. CASE pxstate = "Connected" /\ ~Ready(m)
    <3>1. queue' = queue  BY <1>4, <2>6
    <3>2. Len(queue) = 0  BY <2>2, <2>3, <2>6 DEF Ready
    <3> QED  BY <2>2, <3>1, <3>2
  <2> QED  BY <2>4, <2>5, <2>6
<1> QED  BY <1>6, <1>7, <1>8

LEMMA PullSafe == ASSUME IInv, NEW p \in Puller, Pull(p) PROVE IInv'
<1>1. PICK m \in Maxnums : maxnum' = [maxnum EXCEPT ![p] = m] /\ Loop(p, m)  BY DEF Pull
<1>2. maxnum' \in [Puller -> Maxnums \cup {0}]  BY <1>1 DEF IInv, TypeOK
<1>3. m \in Nat  BY PullAssumption
<1> QED  BY <1>1, <1>2, <1>3, LoopSafe DEF Pull, proxy, conf

LEMMA ResumeBound == ASSUME IInv, NEW p \in Puller PROVE maxnum[p] \in Nat
<1>1. maxnum \in [Puller -> Maxnums \cup {0}]  BY DEF IInv, TypeOK
<1>2. maxnum[p] \in Maxnums \/ maxnum[p] = 0  BY <1>1
<1>3. Maxnums \subseteq Nat  BY PullAssumption
<1>4. CASE maxnum[p] \in Maxnums  BY <1>3, <1>4
<1>5. CASE maxnum[p] = 0  BY <1>5
<1> QED  BY <1>2, <1>4, <1>5

LEMMA ResumeSafe == ASSUME IInv, NEW p \in Puller, Resume(p) PROVE IInv'
<1>1. maxnum[p] \in Nat  BY ResumeBound
<1>2. maxnum' \in [Puller -> Maxnums \cup {0}]  BY DEF Resume, IInv, TypeOK
<1> QED  BY <1>1, <1>2, LoopSafe DEF Resume, proxy, conf

LEMMA TryPullSafe == ASSUME IInv, TryPull PROVE IInv'
<1> USE DEF IInv
<1>1. PICK m \in Maxnums : HandOver(Amount(m))  BY DEF TryPull, Amount
<1>2. /\ pxstate = "Connected"
      /\ UNCHANGED <<kind, pxstate, qos, sorted, changes, timer, pc, maxnum, dis, crashed>>
  BY DEF TryPull, proxy, conf, calls
<1>3. m \in Nat /\ Amount(m) \in 0..Len(queue)  BY PullAssumption, BatchBound
<1>4. /\ queue' \in Seq(1..MaxEvents) /\ Len(queue') <= Len(queue)
      /\ last' \in 0..MaxEvents /\ accepted' = accepted
  BY <1>1, <1>3, HandOverFact, Finite
<1>5. TypeOK'  BY <1>2, <1>4 DEF TypeOK
<1>6. Stages'  BY <1>2 DEF Stages
<1>7. Woken' = Woken /\ Waiting' = Waiting  BY <1>2 DEF Woken, Waiting
<1>8. Len(queue') \in Nat  BY <1>5, Finite
<1>9. NoLostWakeup'  BY <1>2, <1>4, <1>7, <1>8, Finite DEF NoLostWakeup
<1> QED  BY <1>5, <1>6, <1>9

LEMMA QuietSafe == ASSUME IInv, Connect \/ TimePasses PROVE IInv'
<1> USE DEF IInv, Connect, TimePasses, conf, proxy, calls, hist
<1>1. TypeOK'  BY DEF TypeOK
<1>2. Stages'  BY DEF Stages
<1>3. NoLostWakeup'  BY DEF NoLostWakeup, Waiting, Woken
<1> QED  BY <1>1, <1>2, <1>3

LEMMA TimedWakeSafe == ASSUME IInv, NEW p \in Puller, TimedWake(p) PROVE IInv'
<1> USE DEF IInv, TimedWake, conf, proxy, hist
<1>1. TypeOK'  BY DEF TypeOK
<1>2. kind = "sequence"  BY DEF Stages
<1>3. Stages'  BY DEF Stages, TypeOK
<1>4. NoLostWakeup'  BY <1>2 DEF NoLostWakeup
<1> QED  BY <1>1, <1>3, <1>4

LEMMA AddEventSafe == ASSUME IInv, AddEvent PROVE IInv'
<1> USE DEF IInv
<1>1. /\ pxstate = "Connected" /\ accepted' = accepted + 1 /\ Insert(accepted') /\ Signal
      /\ UNCHANGED <<kind, pxstate, qos, sorted, changes, timer, maxnum, dis, crashed, last>>
  BY DEF AddEvent, proxy, conf
<1>2. accepted' \in 1..MaxEvents  BY PullAssumption DEF AddEvent, TypeOK
<1>3. queue' \in Seq(1..MaxEvents) /\ Len(queue') <= Len(queue) + 1  BY <1>1, <1>2, InsertFact
<1>4. \/ Waiting = {} /\ pc' = pc
      \/ \E p \in Waiting : pc' = [pc EXCEPT ![p] = "woken"]
  BY <1>1 DEF Signal
<1>5. pc \in [Puller -> {"idle", "wait", "timed", "woken"}] /\ Waiting \subseteq Puller
  BY DEF TypeOK, Waiting
<1>6. pc' \in [Puller -> {"idle", "wait", "timed", "woken"}]  BY <1>4, <1>5
<1>7. TypeOK'  BY <1>1, <1>2, <1>3, <1>6 DEF TypeOK
<1>8. Stages'
  <2>1. dis = "no"  BY <1>1 DEF Stages
  <2>2. \A p \in Puller : pc'[p] = "timed" => pc[p] = "timed"  BY <1>4, <1>5
  <2> QED  BY <1>1, <2>1, <2>2 DEF Stages
<1>9. NoLostWakeup'
  <2>1. CASE Waiting = {} /\ pc' = pc  BY <2>1 DEF NoLostWakeup, Waiting
  <2>2. CASE \E p \in Waiting : pc' = [pc EXCEPT ![p] = "woken"]
    <3>1. PICK p \in Waiting : pc' = [pc EXCEPT ![p] = "woken"]  BY <2>2
    <3>2. Woken' = Woken \cup {p} /\ p \notin Woken  BY <1>5, <3>1 DEF Woken, Waiting
    <3>3. Cardinality(Woken') = Cardinality(Woken) + 1  BY <3>2, Finite, FS_AddElement
    <3>4. Len(queue') \in Nat /\ Len(queue) \in Nat /\ Cardinality(Woken) \in Nat  BY <1>7, Finite
    <3>5. kind # "sequence" => Len(queue) <= Cardinality(Woken)  BY <3>1 DEF NoLostWakeup
    <3> QED  BY <1>1, <1>3, <3>3, <3>4, <3>5 DEF NoLostWakeup
  <2> QED  BY <1>4, <2>1, <2>2
<1> QED  BY <1>7, <1>8, <1>9

LEMMA SetQosSafe == ASSUME IInv, SetQos PROVE IInv'
<1> USE DEF IInv
<1>1. /\ qos' \in Qos /\ changes' = changes + 1 /\ changes < MaxChanges
      /\ sorted' = qos'.policy /\ crashed' \in BOOLEAN
      /\ UNCHANGED <<kind, pxstate, queue, timer, pc, maxnum, dis, accepted, last>>
  BY DEF SetQos, QosChanged, proxy, calls, hist
<1>2. sorted' \in {"fifo", "other"}
  <2>1. qos' \in [batch : Nat, pacing : BOOLEAN, limit : Nat, policy : {"fifo", "other"}]
    BY <1>1, PullAssumption
  <2> QED  BY <1>1, <2>1
<1>3. TypeOK'  BY <1>1, <1>2, PullAssumption DEF TypeOK
<1>4. Stages'  BY <1>1 DEF Stages
<1>5. NoLostWakeup'  BY <1>1 DEF NoLostWakeup, Waiting, Woken
<1> QED  BY <1>3, <1>4, <1>5

(* The wait of the thread that disposes of the proxy. *)
LEMMA AwaitFact ==
  ASSUME TypeOK, AwaitInuseOne
  PROVE  /\ pc' \in [Puller -> {"idle", "wait", "timed", "woken"}]
         /\ dis' \in {"one", "clean"} /\ Waiting' = {}
         /\ dis' = "one" => \A p \in Puller : pc'[p] \in {"idle", "woken"}
         /\ dis' = "clean" => \A p \in Puller : pc'[p] = "idle"
<1>1. pc \in [Puller -> {"idle", "wait", "timed", "woken"}]  BY DEF TypeOK
<1>2. CASE Blocked = {}  BY <1>1, <1>2 DEF AwaitInuseOne, Blocked, Waiting, Woken
<1>3. CASE Blocked # {}
  <2>1. dis' = "one" /\ pc' = [p \in Puller |-> IF p \in Waiting THEN "woken" ELSE pc[p]]
    BY <1>3 DEF AwaitInuseOne, Broadcast
  <2>2. \A p \in Puller : pc'[p] \in {"idle", "woken"}  BY <1>1, <2>1 DEF Waiting
  <2> QED  BY <1>1, <2>1, <2>2 DEF Waiting
<1> QED  BY <1>2, <1>3

LEMMA DisposalSafe == ASSUME IInv, Disconnect \/ InuseOne PROVE IInv'
<1> USE DEF IInv
<1>1. /\ AwaitInuseOne /\ pxstate' = "Disconnected"
      /\ UNCHANGED <<kind, queue, qos, sorted, changes, timer, maxnum, crashed, accepted, last>>
  BY DEF Disconnect, InuseOne, proxy, conf, hist, Stages, TypeOK
<1>2. TypeOK'  BY <1>1, AwaitFact DEF TypeOK
<1>3. Stages'  BY <1>1, AwaitFact DEF Stages
<1>4. NoLostWakeup'  BY <1>1, AwaitFact DEF NoLostWakeup
<1> QED  BY <1>2, <1>3, <1>4

LEMMA DisposeSafe == ASSUME IInv, Dispose PROVE IInv'
<1> USE DEF IInv, Dispose, proxy, conf, calls, hist
<1>1. TypeOK'  BY EmptySeq DEF TypeOK
<1>2. Stages'  BY DEF Stages
<1>3. NoLostWakeup'  BY DEF NoLostWakeup, Waiting, Stages
<1> QED  BY <1>1, <1>2, <1>3

LEMMA Step == ASSUME IInv, [Next]_vars PROVE IInv'
<1>1. ASSUME NEW p \in Puller, Up(Pull(p)) \/ Up(Resume(p)) \/ Up(TimedWake(p))  PROVE IInv'
  BY <1>1, PullSafe, ResumeSafe, TimedWakeSafe DEF Up
<1>2. CASE Up(Connect) \/ Up(TimePasses)  BY <1>2, QuietSafe DEF Up
<1>3. CASE Up(TryPull)  BY <1>3, TryPullSafe DEF Up
<1>4. CASE Up(AddEvent)  BY <1>4, AddEventSafe DEF Up
<1>5. CASE Up(SetQos)  BY <1>5, SetQosSafe DEF Up
<1>6. CASE Up(Disconnect) \/ Up(InuseOne)  BY <1>6, DisposalSafe DEF Up
<1>7. CASE Up(Dispose)  BY <1>7, DisposeSafe DEF Up
<1>8. CASE UNCHANGED vars
  BY <1>8 DEF vars, proxy, conf, calls, hist, IInv, TypeOK, Stages, NoLostWakeup, Waiting, Woken
<1> QED  BY <1>1, <1>2, <1>3, <1>4, <1>5, <1>6, <1>7, <1>8 DEF Next

-----------------------------------------------------------------------------
(* The theorems                                                            *)

(* Every variable keeps its type. *)
THEOREM PullTypes == Spec => []TypeOK
<1>1. Init => IInv  BY Start
<1>2. IInv /\ [Next]_vars => IInv'  BY Step
<1>3. IInv => TypeOK  BY DEF IInv
<1> QED  BY <1>1, <1>2, <1>3, PTL DEF Spec

(* For any number of pullers: none of single events sleeps while the queue *)
(* holds more than the woken ones will take.                               *)
THEOREM WakeupsSuffice == Spec => []NoLostWakeup
<1>1. Init => IInv  BY Start
<1>2. IInv /\ [Next]_vars => IInv'  BY Step
<1>3. IInv => NoLostWakeup  BY DEF IInv
<1> QED  BY <1>1, <1>2, <1>3, PTL DEF Spec

(* The proxy is given up when no puller is inside its call. *)
THEOREM DisposedEmpty == Spec => []NobodyInside
<1>1. Init => IInv  BY Start
<1>2. IInv /\ [Next]_vars => IInv'  BY Step
<1>3. IInv => NobodyInside  BY DEF IInv, Stages, NobodyInside, Blocked, Waiting, Woken
<1> QED  BY <1>1, <1>2, <1>3, PTL DEF Spec

(***************************************************************************)
(* The proxy implements what PullFeed promises: a batch is an answer of    *)
(* HandOut, or a stutter if it is empty, and a new event is an Accept      *)
(* that discards as many of the oldest as the limit asks for.              *)
(***************************************************************************)
LEMMA HandOutMaps ==
  ASSUME IInv, NEW m \in Nat, HandOver(Amount(m)), pxstate = "Connected",
         UNCHANGED <<kind, pxstate, qos>>
  PROVE  Feed!Next \/ UNCHANGED Feed!vars
<1>1. /\ Amount(m) \in 0..Len(queue) /\ Len(queue) \in Nat
      /\ Amount(m) <= (IF kind = "sequence" THEN qos.batch ELSE 1)
  <2>1. qos \in [batch : Nat, pacing : BOOLEAN, limit : Nat, policy : {"fifo", "other"}]
    BY PullAssumption DEF IInv, TypeOK
  <2>2. qos.batch \in Nat  BY <2>1
  <2>3. /\ Bsize(m) \in Nat /\ Amount(m) \in 0..Len(queue) /\ Amount(m) <= Bsize(m)
        /\ Bsize(m) <= (IF kind = "sequence" THEN qos.batch ELSE 1)
    BY BatchBound DEF IInv
  <2>4. Len(queue) \in Nat /\ (IF kind = "sequence" THEN qos.batch ELSE 1) \in Nat
    BY <2>2, Finite DEF IInv
  <2> QED  BY <2>3, <2>4
<1>2. CASE Amount(m) = 0
  <2>1. queue \in Seq(1..MaxEvents)  BY DEF IInv, TypeOK
  <2>2. queue' = SubSeq(queue, 1, Len(queue))  BY <1>2 DEF HandOver
  <2>3. queue' = queue  BY <2>1, <2>2, SubSeqFull
  <2> QED  BY <1>2, <2>3 DEF HandOver, Feed!vars
<1>3. CASE Amount(m) # 0
  <2>1. Feed!HandOut
    BY <1>1, <1>3 DEF HandOver, Feed!HandOut
  <2> QED  BY <2>1 DEF Feed!Next
<1> QED  BY <1>2, <1>3

THEOREM ImplementsPullFeed == Spec => FeedSpec
<1>1. Init => IInv  BY Start
<1>2. IInv /\ [Next]_vars => IInv'  BY Step
<1>3. Init => Feed!Init
  <2> SUFFICES ASSUME Init PROVE Feed!Init  OBVIOUS
  <2>1. qos \in [batch : Nat, pacing : BOOLEAN, limit : Nat, policy : {"fifo", "other"}]
    BY PullAssumption DEF Init
  <2>2. qos.batch \in Nat /\ qos.limit \in Nat  BY <2>1
  <2> QED  BY <2>2 DEF Init, Feed!Init
<1>4. IInv /\ [Next]_vars => [Feed!Next]_Feed!vars
  <2> SUFFICES ASSUME IInv, [Next]_vars PROVE Feed!Next \/ UNCHANGED Feed!vars  OBVIOUS
  <2>1. ASSUME NEW p \in Puller, NEW m \in Nat, Loop(p, m), UNCHANGED <<kind, pxstate, qos>>
        PROVE  Feed!Next \/ UNCHANGED Feed!vars
    <3>1. UNCHANGED <<queue, accepted, last>> \/ (pxstate = "Connected" /\ HandOver(Amount(m)))
      BY <2>1 DEF Loop, Amount, hist
    <3>2. CASE UNCHANGED <<queue, accepted, last>>  BY <2>1, <3>2 DEF Feed!vars
    <3> QED  BY <2>1, <3>1, <3>2, HandOutMaps
  <2>2. ASSUME NEW p \in Puller, Pull(p)  PROVE Feed!Next \/ UNCHANGED Feed!vars
    <3>1. PICK m \in Maxnums : Loop(p, m)  BY <2>2 DEF Pull
    <3> QED  BY <2>1, <2>2, <3>1, PullAssumption DEF Pull, proxy, conf
  <2>3. ASSUME NEW p \in Puller, Resume(p)  PROVE Feed!Next \/ UNCHANGED Feed!vars
    <3>1. maxnum[p] \in Nat  BY <2>3, ResumeBound
    <3> QED  BY <2>1, <2>3, <3>1 DEF Resume, proxy, conf
  <2>4. CASE TryPull
    <3>1. PICK m \in Maxnums : HandOver(Amount(m))  BY <2>4 DEF TryPull, Amount
    <3> QED  BY <2>4, <3>1, HandOutMaps, PullAssumption DEF TryPull, proxy, conf
  <2>5. CASE Connect \/ TimePasses \/ (\E p \in Puller : TimedWake(p)) \/ InuseOne \/ UNCHANGED vars
    <3>1. /\ UNCHANGED <<kind, queue, qos, accepted, last>>
          /\ (pxstate' = "Disconnected") <=> (pxstate = "Disconnected")
      BY <2>5 DEF Connect, TimePasses, TimedWake, InuseOne, vars, proxy, conf, hist
    <3> QED  BY <3>1 DEF Feed!vars
  <2>6. CASE AddEvent
    <3>1. /\ pxstate = "Connected" /\ accepted' = accepted + 1 /\ Insert(accepted')
          /\ UNCHANGED <<kind, pxstate, qos, last>> /\ accepted' \in 1..MaxEvents
      BY <2>6, PullAssumption DEF AddEvent, proxy, conf, IInv, TypeOK
    <3>2. \E n \in 0..Len(queue) :
             /\ queue' = Append(SubSeq(queue, n + 1, Len(queue)), accepted')
             /\ n > 0 => qos.limit > 0 /\ Len(queue') = qos.limit
             /\ qos.limit > 0 => Len(queue') <= qos.limit
      BY <3>1, InsertFact DEF IInv
    <3>3. Feed!Accept  BY <3>1, <3>2 DEF Feed!Accept
    <3> QED  BY <3>3 DEF Feed!Next
  <2>7. CASE SetQos
    <3>1. /\ qos' \in Qos /\ UNCHANGED <<kind, pxstate, queue, accepted, last>>
      BY <2>7 DEF SetQos, proxy, hist
    <3>2. qos' \in [batch : Nat, pacing : BOOLEAN, limit : Nat, policy : {"fifo", "other"}]
      BY <3>1, PullAssumption
    <3>3. qos'.batch \in Nat /\ qos'.limit \in Nat  BY <3>2
    <3>4. Feed!Change  BY <3>1, <3>3 DEF Feed!Change
    <3> QED  BY <3>4 DEF Feed!Next
  <2>8. CASE Disconnect
    <3>1. /\ pxstate # "Disconnected" /\ pxstate' = "Disconnected"
          /\ UNCHANGED <<kind, queue, qos, accepted, last>>
      BY <2>8 DEF Disconnect, conf, hist
    <3>2. Feed!Close  BY <3>1 DEF Feed!Close
    <3> QED  BY <3>2 DEF Feed!Next
  <2>9. CASE Dispose
    <3>1. pxstate = "Disconnected" /\ UNCHANGED <<kind, pxstate, qos, accepted, last>>
      BY <2>9 DEF Dispose, proxy, conf, hist, IInv, Stages, TypeOK
    <3> QED  BY <3>1 DEF Feed!vars
  <2> QED  BY <2>2, <2>3, <2>4, <2>5, <2>6, <2>7, <2>8, <2>9 DEF Next, Up
<1> QED  BY <1>1, <1>2, <1>3, <1>4, PTL DEF Spec, FeedSpec, Feed!Spec

=============================================================================
