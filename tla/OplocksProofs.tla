----------------------------- MODULE OplocksProofs -----------------------------
(***************************************************************************)
(* The invariants of the lock entries, for any number of objects, threads  *)
(* and entries, and that they implement ObjectLife.                        *)
(***************************************************************************)
EXTENDS Oplocks, FiniteSetTheorems, TLAPS

Busy == Using \cup {"free"}

\* An object and its entry point to each other from construction to deletion.
Ownership ==
  /\ \A e \in Entry : ptr[e] # None => oplockptr[ptr[e]] = e /\ e \in made
  /\ \A o \in Object : life[o] = "alive" <=> oplockptr[o] # None
  /\ \A o \in Object : oplockptr[o] # None => ptr[oplockptr[o]] = o

\* A thread that has bumped an entry finds its object there.
UsersFit == \A t \in Thread :
  /\ pc[t] \in Busy \cup {"try"} => on[t] \in Object /\ ent[t] \in Entry
  /\ pc[t] \in Busy => ptr[ent[t]] = on[t]

\* The holder of an entry's lock is inside its object.
Locks == \A e \in Entry, t \in Thread :
  lock[e] = t <=> ent[t] = e /\ pc[t] \in {"held", "free"}

\* One thread at most disposes of an object; until then its entry is neither
\* disposed nor on the free list.
Disposal ==
  /\ \A t \in Thread : dsp[t] => pc[t] \in Busy /\ guard[on[t]] /\ ~disposed[ent[t]]
  /\ \A t, u \in Thread : dsp[t] /\ dsp[u] /\ on[t] = on[u] => t = u
  /\ \A t \in Thread : pc[t] \in {"one", "woken", "free"} => dsp[t]
  /\ \A e \in Entry : disposed[e] => ptr[e] # None /\ guard[ptr[e]]
  /\ \A e \in free : ptr[e] = None \/ disposed[e]

\* What the thread in alloc_entry knows.
Pool == \A t \in Thread :
  /\ glock = t <=> pc[t] \in {"alloc", "take"}
  /\ pc[t] \in {"alloc", "take"} => on[t] \in Object /\ life[on[t]] = "none"
  /\ pc[t] = "take" => ent[t] \in free /\ Reusable(ent[t])

\* inuse counts the threads that use the entry, those that wait twice.
Counts ==
  /\ \A e \in Entry : inuse[e] = Cardinality(Users(e)) + Cardinality(Waiters(e))
  /\ \A t \in Thread : wb[t] => pc[t] = "wait"

IInv == TypeOK /\ Ownership /\ UsersFit /\ Locks /\ Disposal /\ Pool /\ Counts
        /\ NoSleeperMissed /\ NoReacquireFailure

\* What alloc_entry has made sure of when it gives entry e to its new object.
Gives(t, e) ==
  /\ glock = t /\ pc[t] \in {"alloc", "take"} /\ e \in Entry
  /\ on[t] \in Object /\ life[on[t]] = "none"
  /\ ptr[e] = None \/ disposed[e]
  /\ \A u \in Thread : pc[u] \in Busy => ent[u] # e
  /\ Assign(t, e)

\* The objects, threads and entries that Init starts from satisfy the invariant.
LEMMA InitIInv == Init => IInv
<1> SUFFICES ASSUME Init PROVE IInv
  OBVIOUS
<1> USE OplocksAssumption DEF Init, Using, Busy
<1>1. TypeOK
  BY DEF TypeOK
<1>2. Ownership /\ UsersFit /\ Locks /\ Disposal
  BY DEF Ownership, UsersFit, Locks, Disposal
<1>3. Pool /\ NoSleeperMissed /\ NoReacquireFailure
  BY DEF Pool, NoSleeperMissed, NoReacquireFailure
<1>4. \A e \in Entry : Users(e) = {} /\ Waiters(e) = {}
  BY DEF Users, Waiters
<1>5. Counts
  <2>1. \A t \in Thread : ~wb[t]
    OBVIOUS
  <2>2. \A e \in Entry : inuse[e] = 0
    OBVIOUS
  <2> QED
    <3>1. Cardinality({}) = 0
      BY FS_EmptySet
    <3>2. \A e \in Entry : inuse[e] = Cardinality(Users(e)) + Cardinality(Waiters(e))
      <4>1. \A e \in Entry : Cardinality(Users(e)) = 0 /\ Cardinality(Waiters(e)) = 0
        BY <1>4, <3>1, Zenon
      <4> QED
        BY <2>2, <4>1
    <3> QED
      BY <2>1, <3>2 DEF Counts
<1> QED
  BY <1>1, <1>2, <1>3, <1>5 DEF IInv

\* Users and waiters of an entry are finitely many.
LEMMA UsersCount ==
  ASSUME NEW S, S \subseteq Thread
  PROVE  IsFiniteSet(S) /\ Cardinality(S) \in Nat
BY OplocksAssumption, FS_Subset, FS_CardinalityType

\* A thread that uses an entry is counted.
LEMMA UserCounted ==
  ASSUME IInv, NEW t \in Thread, pc[t] \in Using
  PROVE  ent[t] \in Entry /\ inuse[ent[t]] \in Nat /\ inuse[ent[t]] > 0
<1>1. ent[t] \in Entry
  BY DEF IInv, UsersFit, Busy
<1>2. t \in Users(ent[t]) /\ Users(ent[t]) \subseteq Thread /\ Waiters(ent[t]) \subseteq Thread
  BY DEF Users, Waiters
<1>3. Cardinality(Users(ent[t])) # 0 /\ Cardinality(Users(ent[t])) \in Nat
  BY <1>2, UsersCount, FS_EmptySet
<1>4. Cardinality(Waiters(ent[t])) \in Nat
  BY <1>2, UsersCount
<1>5. inuse[ent[t]] = Cardinality(Users(ent[t])) + Cardinality(Waiters(ent[t]))
  BY <1>1 DEF IInv, Counts
<1> QED
  BY <1>1, <1>3, <1>4, <1>5

\* Nobody is counted on an entry without owner.
LEMMA NoOwnerNoUser ==
  ASSUME IInv, NEW e \in Entry, ptr[e] = None
  PROVE  inuse[e] = 0 /\ \A t \in Thread : pc[t] \in Busy => ent[t] # e
<1>1. \A t \in Thread : pc[t] \in Busy => ent[t] # e
  BY OplocksAssumption DEF IInv, UsersFit
<1>2. Users(e) = {} /\ Waiters(e) = {}
  BY <1>1 DEF Users, Waiters, Busy
<1> QED
  BY <1>1, <1>2, FS_EmptySet DEF IInv, Counts

\* alloc_entry's test holds again once it has the lock, so it never gives an
\* entry away that is in use, and logs no error.
LEMMA TakeGives ==
  ASSUME IInv, NEW t \in Thread, AllocTake(t)
  PROVE  ent[t] \in Entry /\ Gives(t, ent[t])
<1> DEFINE e == ent[t]
<1>1. e \in free /\ e \in Entry /\ Reusable(e)
  BY DEF IInv, Pool, AllocTake, TypeOK
<1>2. \A u \in Thread : pc[u] \in Busy => ent[u] # e
  <2> SUFFICES ASSUME NEW u \in Thread, pc[u] \in Busy, ent[u] = e PROVE FALSE
    OBVIOUS
  <2>1. ptr[e] # None /\ disposed[e] /\ inuse[e] = 0
    BY <1>1, NoOwnerNoUser DEF Reusable
  <2>2. pc[u] # "free"
    BY <2>1 DEF IInv, Disposal
  <2> QED
    BY <2>1, <2>2, UserCounted DEF Busy
<1> QED
  BY <1>1, <1>2 DEF IInv, Pool, AllocTake, Reusable, Gives

\* A new entry has no users either.
LEMMA NewGives ==
  ASSUME IInv, NEW t \in Thread, NEW e \in Entry, AllocNew(t, e)
  PROVE  Gives(t, e)
<1>1. ptr[e] = None
  BY DEF IInv, Ownership, AllocNew
<1> QED
  BY <1>1, NoOwnerNoUser DEF IInv, Pool, AllocNew, Gives

\* The steps of the specification, one by one.
LEMMA StepCases ==
  ASSUME IInv, [Next]_vars
  PROVE  \/ \E t \in Thread, o \in Object : AllocBegin(t, o) \/ Call(t, o)
         \/ \E t \in Thread, e \in Entry : AllocPick(t, e) \/ Gives(t, e)
         \/ \E t \in Thread : Method(t)
         \/ UNCHANGED vars
BY TakeGives, NewGives DEF Next, Alloc

\* Every variable keeps its type.
LEMMA TypeNext == IInv /\ [Next]_vars => TypeOK'
<1> SUFFICES ASSUME IInv, [Next]_vars PROVE TypeOK'
  OBVIOUS
<1> USE OplocksAssumption DEF IInv, TypeOK, UsersFit, Pool, Using, Busy, evars, ovars, tvars
<1>1. ASSUME NEW t \in Thread, NEW o \in Object, AllocBegin(t, o) PROVE TypeOK'
  BY <1>1 DEF AllocBegin
<1>2. ASSUME NEW t \in Thread, NEW e \in Entry, AllocPick(t, e) PROVE TypeOK'
  BY <1>2 DEF AllocPick
<1>3. ASSUME NEW t \in Thread, NEW e \in Entry, Gives(t, e) PROVE TypeOK'
  BY <1>3 DEF Gives, Assign
<1>4. ASSUME NEW t \in Thread, NEW o \in Object, Call(t, o) PROVE TypeOK'
  BY <1>4 DEF Call
<1>5. ASSUME NEW t \in Thread, AcquireFails(t) PROVE TypeOK'
  BY <1>5 DEF AcquireFails, Back2Idle
<1>6. ASSUME NEW t \in Thread, Acquire(t) PROVE TypeOK'
  BY <1>6 DEF Acquire, Mine
<1>7. ASSUME NEW t \in Thread, Release(t) PROVE TypeOK'
  BY <1>7 DEF Release, InuseOneBroadcast, Debumped
<1>8. ASSUME NEW t \in Thread, TempRelease(t) PROVE TypeOK'
  BY <1>8 DEF TempRelease
<1>9. ASSUME NEW t \in Thread, Reacquire(t) PROVE TypeOK'
  BY <1>9 DEF Reacquire
<1>10. ASSUME NEW t \in Thread, Wait(t) PROVE TypeOK'
  <2>1. inuse' \in [Entry -> Nat]
    BY <1>10 DEF Wait
  <2>2. wb' \in [Thread -> BOOLEAN]
    BY <1>10 DEF Wait, WaitBumps
  <2> QED
    BY <1>10, <2>1, <2>2 DEF Wait
<1>11. ASSUME NEW t \in Thread, WaitEnds(t) PROVE TypeOK'
  <2>1. inuse[ent[t]] \in Nat /\ inuse[ent[t]] > 0 /\ ent[t] \in Entry
    BY <1>11, UserCounted DEF WaitEnds
  <2> QED
    BY <1>11, <2>1 DEF WaitEnds
<1>12. ASSUME NEW t \in Thread, DisposeBegin(t) PROVE TypeOK'
  BY <1>12 DEF DisposeBegin, FirstToDispose
<1>13. ASSUME NEW t \in Thread, InuseOneWait(t) PROVE TypeOK'
  BY <1>13 DEF InuseOneWait
<1>14. ASSUME NEW t \in Thread, InuseOneWaitEnds(t) PROVE TypeOK'
  BY <1>14 DEF InuseOneWaitEnds
<1>15. ASSUME NEW t \in Thread, FreeBegin(t) PROVE TypeOK'
  BY <1>15 DEF FreeBegin, InuseOneBroadcast, Debumped
<1>16. ASSUME NEW t \in Thread, FreeEntry(t) PROVE TypeOK'
  <2>1. ent[t] \in made
    BY <1>16 DEF FreeEntry, Ownership
  <2>2. disposed' \in [Entry -> BOOLEAN]
    <3>1. PICK d \in BOOLEAN : d = ~AtOnce(ent[t])
      OBVIOUS
    <3>2. disposed' = [disposed EXCEPT ![ent[t]] = d]
      BY <1>16, <3>1 DEF FreeEntry
    <3> QED
      BY <3>2
  <2> QED
    BY <1>16, <2>1, <2>2 DEF FreeEntry, Back2Idle
<1>17. CASE UNCHANGED vars
  BY <1>17 DEF vars, evars, ovars, tvars
<1> QED
  BY <1>1, <1>2, <1>3, <1>4, <1>5, <1>6, <1>7, <1>8, <1>9, <1>10, <1>11, <1>12, <1>13, <1>14, <1>15, <1>16, <1>17, StepCases DEF Method

\* Objects and entries keep pointing at each other.
LEMMA OwnershipNext == IInv /\ [Next]_vars => Ownership'
<1> SUFFICES ASSUME IInv, [Next]_vars PROVE Ownership'
  OBVIOUS
<1> USE OplocksAssumption DEF IInv, TypeOK, Ownership, UsersFit, Disposal, Pool, Using, Busy, evars, ovars, tvars
<1>1. ASSUME NEW t \in Thread, NEW o \in Object, AllocBegin(t, o) PROVE Ownership'
  BY <1>1 DEF AllocBegin
<1>2. ASSUME NEW t \in Thread, NEW e \in Entry, AllocPick(t, e) PROVE Ownership'
  BY <1>2 DEF AllocPick
<1>3. ASSUME NEW t \in Thread, NEW e \in Entry, Gives(t, e) PROVE Ownership'
  BY <1>3 DEF Gives, Assign
<1>4. ASSUME NEW t \in Thread, NEW o \in Object, Call(t, o) PROVE Ownership'
  BY <1>4 DEF Call
<1>5. ASSUME NEW t \in Thread, AcquireFails(t) PROVE Ownership'
  BY <1>5 DEF AcquireFails, Back2Idle
<1>6. ASSUME NEW t \in Thread, Acquire(t) PROVE Ownership'
  BY <1>6 DEF Acquire, Mine
<1>7. ASSUME NEW t \in Thread, Release(t) PROVE Ownership'
  BY <1>7 DEF Release, InuseOneBroadcast, Debumped
<1>8. ASSUME NEW t \in Thread, TempRelease(t) PROVE Ownership'
  BY <1>8 DEF TempRelease
<1>9. ASSUME NEW t \in Thread, Reacquire(t) PROVE Ownership'
  BY <1>9 DEF Reacquire
<1>10. ASSUME NEW t \in Thread, Wait(t) PROVE Ownership'
  BY <1>10 DEF Wait, WaitBumps
<1>11. ASSUME NEW t \in Thread, WaitEnds(t) PROVE Ownership'
  BY <1>11 DEF WaitEnds
<1>12. ASSUME NEW t \in Thread, DisposeBegin(t) PROVE Ownership'
  BY <1>12 DEF DisposeBegin, FirstToDispose
<1>13. ASSUME NEW t \in Thread, InuseOneWait(t) PROVE Ownership'
  BY <1>13 DEF InuseOneWait
<1>14. ASSUME NEW t \in Thread, InuseOneWaitEnds(t) PROVE Ownership'
  BY <1>14 DEF InuseOneWaitEnds
<1>15. ASSUME NEW t \in Thread, FreeBegin(t) PROVE Ownership'
  BY <1>15 DEF FreeBegin, InuseOneBroadcast, Debumped
<1>16. ASSUME NEW t \in Thread, FreeEntry(t) PROVE Ownership'
  BY <1>16 DEF FreeEntry, Back2Idle, AtOnce
<1>17. CASE UNCHANGED vars
  BY <1>17 DEF vars, evars, ovars, tvars
<1> QED
  BY <1>1, <1>2, <1>3, <1>4, <1>5, <1>6, <1>7, <1>8, <1>9, <1>10, <1>11, <1>12, <1>13, <1>14, <1>15, <1>16, <1>17, StepCases DEF Method

\* No step takes the object away from a thread that uses it.
LEMMA UsersFitNext == IInv /\ [Next]_vars => UsersFit'
<1> SUFFICES ASSUME IInv, [Next]_vars PROVE UsersFit'
  OBVIOUS
<1> USE OplocksAssumption DEF IInv, TypeOK, UsersFit, Ownership, Using, Busy, evars, ovars, tvars
<1>1. ASSUME NEW t \in Thread, NEW o \in Object, AllocBegin(t, o) PROVE UsersFit'
  BY <1>1 DEF AllocBegin
<1>2. ASSUME NEW t \in Thread, NEW e \in Entry, AllocPick(t, e) PROVE UsersFit'
  BY <1>2 DEF AllocPick
<1>3. ASSUME NEW t \in Thread, NEW e \in Entry, Gives(t, e) PROVE UsersFit'
  BY <1>3 DEF Gives, Assign
<1>4. ASSUME NEW t \in Thread, NEW o \in Object, Call(t, o) PROVE UsersFit'
  BY <1>4 DEF Call
<1>5. ASSUME NEW t \in Thread, AcquireFails(t) PROVE UsersFit'
  BY <1>5 DEF AcquireFails, Back2Idle
<1>6. ASSUME NEW t \in Thread, Acquire(t) PROVE UsersFit'
  BY <1>6 DEF Acquire, Mine
<1>7. ASSUME NEW t \in Thread, Release(t) PROVE UsersFit'
  BY <1>7 DEF Release, InuseOneBroadcast, Debumped
<1>8. ASSUME NEW t \in Thread, TempRelease(t) PROVE UsersFit'
  BY <1>8 DEF TempRelease
<1>9. ASSUME NEW t \in Thread, Reacquire(t) PROVE UsersFit'
  BY <1>9 DEF Reacquire
<1>10. ASSUME NEW t \in Thread, Wait(t) PROVE UsersFit'
  BY <1>10 DEF Wait, WaitBumps
<1>11. ASSUME NEW t \in Thread, WaitEnds(t) PROVE UsersFit'
  BY <1>11 DEF WaitEnds
<1>12. ASSUME NEW t \in Thread, DisposeBegin(t) PROVE UsersFit'
  BY <1>12 DEF DisposeBegin, FirstToDispose
<1>13. ASSUME NEW t \in Thread, InuseOneWait(t) PROVE UsersFit'
  BY <1>13 DEF InuseOneWait
<1>14. ASSUME NEW t \in Thread, InuseOneWaitEnds(t) PROVE UsersFit'
  BY <1>14 DEF InuseOneWaitEnds
<1>15. ASSUME NEW t \in Thread, FreeBegin(t) PROVE UsersFit'
  BY <1>15 DEF FreeBegin, InuseOneBroadcast, Debumped
<1>16. ASSUME NEW t \in Thread, FreeEntry(t) PROVE UsersFit'
  <2>1. ASSUME NEW u \in Thread, u # t, pc[u] \in Busy, AtOnce(ent[t]) PROVE ent[u] # ent[t]
    <3>1. pc[u] \in Using => ent[u] # ent[t]
      BY <2>1, UserCounted DEF AtOnce
    <3>2. pc[u] = "free" => ent[u] # ent[t]
      BY <1>16, <2>1 DEF FreeEntry, Disposal
    <3> QED
      BY <2>1, <3>1, <3>2
  <2> QED
    BY <1>16, <2>1 DEF FreeEntry, Back2Idle
<1>17. CASE UNCHANGED vars
  BY <1>17 DEF vars, evars, ovars, tvars
<1> QED
  BY <1>1, <1>2, <1>3, <1>4, <1>5, <1>6, <1>7, <1>8, <1>9, <1>10, <1>11, <1>12, <1>13, <1>14, <1>15, <1>16, <1>17, StepCases DEF Method

\* The lock of an entry stays with the thread inside.
LEMMA LocksNext == IInv /\ [Next]_vars => Locks'
<1> SUFFICES ASSUME IInv, [Next]_vars PROVE Locks'
  OBVIOUS
<1> USE OplocksAssumption DEF IInv, TypeOK, UsersFit, Locks, Pool, Using, Busy, evars, ovars, tvars
<1>1. ASSUME NEW t \in Thread, NEW o \in Object, AllocBegin(t, o) PROVE Locks'
  BY <1>1 DEF AllocBegin
<1>2. ASSUME NEW t \in Thread, NEW e \in Entry, AllocPick(t, e) PROVE Locks'
  BY <1>2 DEF AllocPick
<1>3. ASSUME NEW t \in Thread, NEW e \in Entry, Gives(t, e) PROVE Locks'
  BY <1>3 DEF Gives, Assign
<1>4. ASSUME NEW t \in Thread, NEW o \in Object, Call(t, o) PROVE Locks'
  BY <1>4 DEF Call
<1>5. ASSUME NEW t \in Thread, AcquireFails(t) PROVE Locks'
  BY <1>5 DEF AcquireFails, Back2Idle
<1>6. ASSUME NEW t \in Thread, Acquire(t) PROVE Locks'
  BY <1>6 DEF Acquire, Mine
<1>7. ASSUME NEW t \in Thread, Release(t) PROVE Locks'
  BY <1>7 DEF Release, InuseOneBroadcast, Debumped
<1>8. ASSUME NEW t \in Thread, TempRelease(t) PROVE Locks'
  BY <1>8 DEF TempRelease
<1>9. ASSUME NEW t \in Thread, Reacquire(t) PROVE Locks'
  BY <1>9 DEF Reacquire
<1>10. ASSUME NEW t \in Thread, Wait(t) PROVE Locks'
  BY <1>10 DEF Wait, WaitBumps
<1>11. ASSUME NEW t \in Thread, WaitEnds(t) PROVE Locks'
  BY <1>11 DEF WaitEnds
<1>12. ASSUME NEW t \in Thread, DisposeBegin(t) PROVE Locks'
  BY <1>12 DEF DisposeBegin, FirstToDispose
<1>13. ASSUME NEW t \in Thread, InuseOneWait(t) PROVE Locks'
  BY <1>13 DEF InuseOneWait
<1>14. ASSUME NEW t \in Thread, InuseOneWaitEnds(t) PROVE Locks'
  BY <1>14 DEF InuseOneWaitEnds
<1>15. ASSUME NEW t \in Thread, FreeBegin(t) PROVE Locks'
  BY <1>15 DEF FreeBegin, InuseOneBroadcast, Debumped
<1>16. ASSUME NEW t \in Thread, FreeEntry(t) PROVE Locks'
  BY <1>16 DEF FreeEntry, Back2Idle, AtOnce
<1>17. CASE UNCHANGED vars
  BY <1>17 DEF vars, evars, ovars, tvars
<1> QED
  BY <1>1, <1>2, <1>3, <1>4, <1>5, <1>6, <1>7, <1>8, <1>9, <1>10, <1>11, <1>12, <1>13, <1>14, <1>15, <1>16, <1>17, StepCases DEF Method

\* A second thread never disposes of the object.
LEMMA DisposalNext == IInv /\ [Next]_vars => Disposal'
<1> SUFFICES ASSUME IInv, [Next]_vars PROVE Disposal'
  OBVIOUS
<1> USE OplocksAssumption DEF IInv, TypeOK, UsersFit, Disposal, Pool, Using, Busy, evars, ovars, tvars
<1>1. ASSUME NEW t \in Thread, NEW o \in Object, AllocBegin(t, o) PROVE Disposal'
  BY <1>1 DEF AllocBegin
<1>2. ASSUME NEW t \in Thread, NEW e \in Entry, AllocPick(t, e) PROVE Disposal'
  BY <1>2 DEF AllocPick
<1>3. ASSUME NEW t \in Thread, NEW e \in Entry, Gives(t, e) PROVE Disposal'
  BY <1>3 DEF Gives, Assign
<1>4. ASSUME NEW t \in Thread, NEW o \in Object, Call(t, o) PROVE Disposal'
  BY <1>4 DEF Call
<1>5. ASSUME NEW t \in Thread, AcquireFails(t) PROVE Disposal'
  BY <1>5 DEF AcquireFails, Back2Idle
<1>6. ASSUME NEW t \in Thread, Acquire(t) PROVE Disposal'
  BY <1>6 DEF Acquire, Mine
<1>7. ASSUME NEW t \in Thread, Release(t) PROVE Disposal'
  BY <1>7 DEF Release, InuseOneBroadcast, Debumped
<1>8. ASSUME NEW t \in Thread, TempRelease(t) PROVE Disposal'
  BY <1>8 DEF TempRelease
<1>9. ASSUME NEW t \in Thread, Reacquire(t) PROVE Disposal'
  BY <1>9 DEF Reacquire
<1>10. ASSUME NEW t \in Thread, Wait(t) PROVE Disposal'
  BY <1>10 DEF Wait, WaitBumps
<1>11. ASSUME NEW t \in Thread, WaitEnds(t) PROVE Disposal'
  BY <1>11 DEF WaitEnds
<1>12. ASSUME NEW t \in Thread, DisposeBegin(t) PROVE Disposal'
  BY <1>12 DEF DisposeBegin, FirstToDispose
<1>13. ASSUME NEW t \in Thread, InuseOneWait(t) PROVE Disposal'
  BY <1>13 DEF InuseOneWait
<1>14. ASSUME NEW t \in Thread, InuseOneWaitEnds(t) PROVE Disposal'
  BY <1>14 DEF InuseOneWaitEnds
<1>15. ASSUME NEW t \in Thread, FreeBegin(t) PROVE Disposal'
  BY <1>15 DEF FreeBegin, InuseOneBroadcast, Debumped
<1>16. ASSUME NEW t \in Thread, FreeEntry(t) PROVE Disposal'
  BY <1>16 DEF FreeEntry, Back2Idle, AtOnce
<1>17. CASE UNCHANGED vars
  BY <1>17 DEF vars, evars, ovars, tvars
<1> QED
  BY <1>1, <1>2, <1>3, <1>4, <1>5, <1>6, <1>7, <1>8, <1>9, <1>10, <1>11, <1>12, <1>13, <1>14, <1>15, <1>16, <1>17, StepCases DEF Method

\* The entry alloc_entry has picked stays reusable.
LEMMA PoolNext == IInv /\ [Next]_vars => Pool'
<1> SUFFICES ASSUME IInv, [Next]_vars PROVE Pool'
  OBVIOUS
<1> USE OplocksAssumption DEF IInv, TypeOK, UsersFit, Disposal, Pool, Reusable, Using, Busy, evars, ovars, tvars
<1>1. ASSUME NEW t \in Thread, NEW o \in Object, AllocBegin(t, o) PROVE Pool'
  BY <1>1 DEF AllocBegin
<1>2. ASSUME NEW t \in Thread, NEW e \in Entry, AllocPick(t, e) PROVE Pool'
  BY <1>2 DEF AllocPick
<1>3. ASSUME NEW t \in Thread, NEW e \in Entry, Gives(t, e) PROVE Pool'
  BY <1>3 DEF Gives, Assign
<1>4. ASSUME NEW t \in Thread, NEW o \in Object, Call(t, o) PROVE Pool'
  BY <1>4 DEF Call
<1>5. ASSUME NEW t \in Thread, AcquireFails(t) PROVE Pool'
  BY <1>5 DEF AcquireFails, Back2Idle
<1>6. ASSUME NEW t \in Thread, Acquire(t) PROVE Pool'
  BY <1>6 DEF Acquire, Mine
<1>7. ASSUME NEW t \in Thread, Release(t) PROVE Pool'
  BY <1>7 DEF Release, InuseOneBroadcast, Debumped
<1>8. ASSUME NEW t \in Thread, TempRelease(t) PROVE Pool'
  BY <1>8 DEF TempRelease
<1>9. ASSUME NEW t \in Thread, Reacquire(t) PROVE Pool'
  BY <1>9 DEF Reacquire
<1>10. ASSUME NEW t \in Thread, Wait(t) PROVE Pool'
  <2>1. \A u \in Thread : pc[u] = "take" => ent[u] # ent[t]
    <3>1. ent[t] \in Entry /\ inuse[ent[t]] \in Nat /\ inuse[ent[t]] > 0 /\ ptr[ent[t]] # None
      BY <1>10, UserCounted DEF Wait
    <3> QED
      BY <3>1
  <2> QED
    BY <1>10, <2>1 DEF Wait
<1>11. ASSUME NEW t \in Thread, WaitEnds(t) PROVE Pool'
  <2>1. \A u \in Thread : pc[u] = "take" => ent[u] # ent[t]
    <3>1. ent[t] \in Entry /\ inuse[ent[t]] \in Nat /\ inuse[ent[t]] > 0 /\ ptr[ent[t]] # None
      BY <1>11, UserCounted DEF WaitEnds
    <3> QED
      BY <3>1
  <2> QED
    BY <1>11, <2>1 DEF WaitEnds
<1>12. ASSUME NEW t \in Thread, DisposeBegin(t) PROVE Pool'
  BY <1>12 DEF DisposeBegin, FirstToDispose
<1>13. ASSUME NEW t \in Thread, InuseOneWait(t) PROVE Pool'
  BY <1>13 DEF InuseOneWait
<1>14. ASSUME NEW t \in Thread, InuseOneWaitEnds(t) PROVE Pool'
  BY <1>14 DEF InuseOneWaitEnds
<1>15. ASSUME NEW t \in Thread, FreeBegin(t) PROVE Pool'
  BY <1>15 DEF FreeBegin, InuseOneBroadcast, Debumped
<1>16. ASSUME NEW t \in Thread, FreeEntry(t) PROVE Pool'
  BY <1>16 DEF FreeEntry, Back2Idle, AtOnce
<1>17. CASE UNCHANGED vars
  BY <1>17 DEF vars, evars, ovars, tvars
<1> QED
  BY <1>1, <1>2, <1>3, <1>4, <1>5, <1>6, <1>7, <1>8, <1>9, <1>10, <1>11, <1>12, <1>13, <1>14, <1>15, <1>16, <1>17, StepCases DEF Method

\* inuse stays exact.
LEMMA CountsNext == IInv /\ [Next]_vars => Counts'
<1> SUFFICES ASSUME IInv, [Next]_vars PROVE Counts'
  OBVIOUS
<1> USE OplocksAssumption DEF IInv, TypeOK, UsersFit, Pool, Counts, Using, Busy, evars, ovars, tvars
<1>1. ASSUME NEW t \in Thread, NEW o \in Object, AllocBegin(t, o) PROVE Counts'
  <2>1. \A f \in Entry : Users(f)' = Users(f) /\ Waiters(f)' = Waiters(f)
    BY <1>1 DEF AllocBegin, Users, Waiters
  <2>2. \A f \in Entry : /\ Cardinality(Users(f)') = Cardinality(Users(f))
                         /\ Cardinality(Waiters(f)') = Cardinality(Waiters(f))
    BY <2>1, Zenon
  <2> QED
    BY <1>1, <2>2 DEF AllocBegin
<1>2. ASSUME NEW t \in Thread, NEW e \in Entry, AllocPick(t, e) PROVE Counts'
  <2>1. \A f \in Entry : Users(f)' = Users(f) /\ Waiters(f)' = Waiters(f)
    BY <1>2 DEF AllocPick, Users, Waiters
  <2>2. \A f \in Entry : /\ Cardinality(Users(f)') = Cardinality(Users(f))
                         /\ Cardinality(Waiters(f)') = Cardinality(Waiters(f))
    BY <2>1, Zenon
  <2> QED
    BY <1>2, <2>2 DEF AllocPick
<1>3. ASSUME NEW t \in Thread, NEW e \in Entry, Gives(t, e) PROVE Counts'
  <2>1. \A f \in Entry : Users(f)' = Users(f) /\ Waiters(f)' = Waiters(f)
    BY <1>3 DEF Gives, Assign, Users, Waiters
  <2>2. Users(e) = {} /\ Waiters(e) = {}
    BY <1>3 DEF Gives, Users, Waiters
  <2>3. Cardinality(Users(e)) = 0 /\ Cardinality(Waiters(e)) = 0
    BY <2>2, FS_EmptySet, Zenon
  <2>4. \A f \in Entry : /\ Cardinality(Users(f)') = Cardinality(Users(f))
                         /\ Cardinality(Waiters(f)') = Cardinality(Waiters(f))
    BY <2>1, Zenon
  <2>5. \A f \in Entry : inuse'[f] = IF f = e THEN 0 ELSE inuse[f]
    BY <1>3 DEF Gives, Assign
  <2>6. \A u \in Thread : wb'[u] => pc'[u] = "wait"
    BY <1>3 DEF Gives, Assign
  <2> QED
    BY <1>3, <2>3, <2>4, <2>5, <2>6 DEF Gives
<1>4. ASSUME NEW t \in Thread, NEW o \in Object, Call(t, o) PROVE Counts'
  <2>1. \A f \in Entry : Users(f)' = Users(f) /\ Waiters(f)' = Waiters(f)
    BY <1>4 DEF Call, Users, Waiters
  <2>2. \A f \in Entry : /\ Cardinality(Users(f)') = Cardinality(Users(f))
                         /\ Cardinality(Waiters(f)') = Cardinality(Waiters(f))
    BY <2>1, Zenon
  <2> QED
    BY <1>4, <2>2 DEF Call
<1>5. ASSUME NEW t \in Thread, AcquireFails(t) PROVE Counts'
  <2>1. \A f \in Entry : Users(f)' = Users(f) /\ Waiters(f)' = Waiters(f)
    BY <1>5 DEF AcquireFails, Back2Idle, Users, Waiters
  <2>2. \A f \in Entry : /\ Cardinality(Users(f)') = Cardinality(Users(f))
                         /\ Cardinality(Waiters(f)') = Cardinality(Waiters(f))
    BY <2>1, Zenon
  <2> QED
    BY <1>5, <2>2 DEF AcquireFails, Back2Idle
<1>6. ASSUME NEW t \in Thread, Acquire(t) PROVE Counts'
  <2>e. PICK e \in Entry : e = ent[t]
    BY <1>6 DEF Acquire
  <2>1. t \notin Users(e) /\ Users(e) \subseteq Thread
    BY <1>6, <2>e DEF Acquire, Users, Waiters
  <2>2. Users(e)' = Users(e) \cup {t}
    BY <1>6, <2>e DEF Acquire, Users, Waiters
  <2>3. \A f \in Entry : f # e => Users(f)' = Users(f)
    BY <1>6, <2>e DEF Acquire, Users, Waiters
  <2>4. \A f \in Entry : Waiters(f)' = Waiters(f)
    BY <1>6, <2>e DEF Acquire, Users, Waiters
  <2>5. Cardinality(Users(e) \cup {t}) = Cardinality(Users(e)) + 1
    BY <2>1, UsersCount, FS_AddElement
  <2>6. Cardinality(Users(e)') = Cardinality(Users(e)) + 1
    BY <2>2, <2>5, Zenon
  <2>7. \A f \in Entry : f # e => Cardinality(Users(f)') = Cardinality(Users(f))
    BY <2>3, Zenon
  <2>8. \A f \in Entry : Cardinality(Waiters(f)') = Cardinality(Waiters(f))
    BY <2>4, Zenon
  <2>9. Cardinality(Users(e)) \in Nat /\ Cardinality(Waiters(e)) \in Nat
    BY UsersCount DEF Users, Waiters
  <2>10. \A f \in Entry : inuse'[f] = IF f = e THEN inuse[f] + 1 ELSE inuse[f]
    BY <1>6, <2>e DEF Acquire
  <2>11. \A u \in Thread : wb'[u] => pc'[u] = "wait"
    BY <1>6, <2>e DEF Acquire
  <2>12. inuse'[e] = Cardinality(Users(e)') + Cardinality(Waiters(e)')
    BY <2>1, <2>6, <2>7, <2>8, <2>9, <2>10
  <2>13. \A f \in Entry : f # e => inuse'[f] = Cardinality(Users(f)') + Cardinality(Waiters(f)')
    BY <2>7, <2>8, <2>10
  <2>14. \A f \in Entry : inuse'[f] = Cardinality(Users(f)') + Cardinality(Waiters(f)')
    BY <2>12, <2>13, Zenon
  <2> QED
    BY <2>11, <2>14
<1>7. ASSUME NEW t \in Thread, Release(t) PROVE Counts'
  <2>e. PICK e \in Entry : e = ent[t]
    BY <1>7 DEF Release
  <2>1. t \in Users(e) /\ Users(e) \subseteq Thread
    BY <1>7, <2>e DEF Release, Users, Waiters
  <2>2. Users(e)' = Users(e) \ {t}
    BY <1>7, <2>e DEF Release, InuseOneBroadcast, Debumped, Users, Waiters
  <2>3. \A f \in Entry : f # e => Users(f)' = Users(f)
    BY <1>7, <2>e DEF Release, InuseOneBroadcast, Debumped, Users, Waiters
  <2>4. \A f \in Entry : Waiters(f)' = Waiters(f)
    BY <1>7, <2>e DEF Release, InuseOneBroadcast, Debumped, Users, Waiters
  <2>5. Cardinality(Users(e) \ {t}) = Cardinality(Users(e)) - 1
    BY <2>1, UsersCount, FS_RemoveElement
  <2>6. Cardinality(Users(e)') = Cardinality(Users(e)) - 1
    BY <2>2, <2>5, Zenon
  <2>7. \A f \in Entry : f # e => Cardinality(Users(f)') = Cardinality(Users(f))
    BY <2>3, Zenon
  <2>8. \A f \in Entry : Cardinality(Waiters(f)') = Cardinality(Waiters(f))
    BY <2>4, Zenon
  <2>9. Cardinality(Users(e)) \in Nat /\ Cardinality(Waiters(e)) \in Nat
    BY UsersCount DEF Users, Waiters
  <2>10. \A f \in Entry : inuse'[f] = IF f = e THEN inuse[f] - 1 ELSE inuse[f]
    BY <1>7, <2>e, UserCounted DEF Release, InuseOneBroadcast, Debumped
  <2>11. \A u \in Thread : wb'[u] => pc'[u] = "wait"
    BY <1>7, <2>e DEF Release, InuseOneBroadcast, Debumped
  <2>12. inuse'[e] = Cardinality(Users(e)') + Cardinality(Waiters(e)')
    BY <2>1, <2>6, <2>7, <2>8, <2>9, <2>10
  <2>13. \A f \in Entry : f # e => inuse'[f] = Cardinality(Users(f)') + Cardinality(Waiters(f)')
    BY <2>7, <2>8, <2>10
  <2>14. \A f \in Entry : inuse'[f] = Cardinality(Users(f)') + Cardinality(Waiters(f)')
    BY <2>12, <2>13, Zenon
  <2> QED
    BY <2>11, <2>14
<1>8. ASSUME NEW t \in Thread, TempRelease(t) PROVE Counts'
  <2>1. \A f \in Entry : Users(f)' = Users(f) /\ Waiters(f)' = Waiters(f)
    BY <1>8 DEF TempRelease, Users, Waiters
  <2>2. \A f \in Entry : /\ Cardinality(Users(f)') = Cardinality(Users(f))
                         /\ Cardinality(Waiters(f)') = Cardinality(Waiters(f))
    BY <2>1, Zenon
  <2> QED
    BY <1>8, <2>2 DEF TempRelease
<1>9. ASSUME NEW t \in Thread, Reacquire(t) PROVE Counts'
  <2>1. \A f \in Entry : Users(f)' = Users(f) /\ Waiters(f)' = Waiters(f)
    BY <1>9 DEF Reacquire, Users, Waiters
  <2>2. \A f \in Entry : /\ Cardinality(Users(f)') = Cardinality(Users(f))
                         /\ Cardinality(Waiters(f)') = Cardinality(Waiters(f))
    BY <2>1, Zenon
  <2> QED
    BY <1>9, <2>2 DEF Reacquire
<1>10. ASSUME NEW t \in Thread, Wait(t) PROVE Counts'
  <2>e. PICK e \in Entry : e = ent[t]
    BY <1>10 DEF Wait
  <2>1. t \notin Waiters(e) /\ Waiters(e) \subseteq Thread
    BY <1>10, <2>e DEF Wait, Users, Waiters
  <2>2. WaitBumps(e) => Waiters(e)' = Waiters(e) \cup {t}
    BY <1>10, <2>e DEF Wait, Users, Waiters
  <2>3. \A f \in Entry : f # e \/ ~WaitBumps(e) => Waiters(f)' = Waiters(f)
    BY <1>10, <2>e DEF Wait, Users, Waiters
  <2>4. \A f \in Entry : Users(f)' = Users(f)
    BY <1>10, <2>e DEF Wait, Users, Waiters
  <2>5. Cardinality(Waiters(e) \cup {t}) = Cardinality(Waiters(e)) + 1
    BY <2>1, UsersCount, FS_AddElement
  <2>6. WaitBumps(e) => Cardinality(Waiters(e)') = Cardinality(Waiters(e)) + 1
    BY <2>2, <2>5, Zenon
  <2>7. \A f \in Entry : f # e \/ ~WaitBumps(e) => Cardinality(Waiters(f)') = Cardinality(Waiters(f))
    BY <2>3, Zenon
  <2>8. \A f \in Entry : Cardinality(Users(f)') = Cardinality(Users(f))
    BY <2>4, Zenon
  <2>9. Cardinality(Users(e)) \in Nat /\ Cardinality(Waiters(e)) \in Nat
    BY UsersCount DEF Users, Waiters
  <2>10. \A f \in Entry : inuse'[f] = IF f = e /\ WaitBumps(e) THEN inuse[f] + 1 ELSE inuse[f]
    BY <1>10, <2>e DEF Wait
  <2>11. \A u \in Thread : wb'[u] => pc'[u] = "wait"
    BY <1>10, <2>e DEF Wait
  <2>12. inuse'[e] = Cardinality(Users(e)') + Cardinality(Waiters(e)')
    BY <2>1, <2>6, <2>7, <2>8, <2>9, <2>10
  <2>13. \A f \in Entry : f # e => inuse'[f] = Cardinality(Users(f)') + Cardinality(Waiters(f)')
    BY <2>7, <2>8, <2>10
  <2>14. \A f \in Entry : inuse'[f] = Cardinality(Users(f)') + Cardinality(Waiters(f)')
    BY <2>12, <2>13, Zenon
  <2> QED
    BY <2>11, <2>14
<1>11. ASSUME NEW t \in Thread, WaitEnds(t) PROVE Counts'
  <2>e. PICK e \in Entry : e = ent[t]
    BY <1>11 DEF WaitEnds
  <2>1. (t \in Waiters(e) <=> wb[t]) /\ Waiters(e) \subseteq Thread
    BY <1>11, <2>e DEF WaitEnds, Users, Waiters
  <2>2. wb[t] => Waiters(e)' = Waiters(e) \ {t}
    BY <1>11, <2>e DEF WaitEnds, Users, Waiters
  <2>3. \A f \in Entry : f # e \/ ~wb[t] => Waiters(f)' = Waiters(f)
    BY <1>11, <2>e DEF WaitEnds, Users, Waiters
  <2>4. \A f \in Entry : Users(f)' = Users(f)
    BY <1>11, <2>e DEF WaitEnds, Users, Waiters
  <2>5. wb[t] => Cardinality(Waiters(e) \ {t}) = Cardinality(Waiters(e)) - 1
    BY <2>1, UsersCount, FS_RemoveElement
  <2>6. wb[t] => Cardinality(Waiters(e)') = Cardinality(Waiters(e)) - 1
    BY <2>2, <2>5, Zenon
  <2>7. \A f \in Entry : f # e \/ ~wb[t] => Cardinality(Waiters(f)') = Cardinality(Waiters(f))
    BY <2>3, Zenon
  <2>8. \A f \in Entry : Cardinality(Users(f)') = Cardinality(Users(f))
    BY <2>4, Zenon
  <2>9. Cardinality(Users(e)) \in Nat /\ Cardinality(Waiters(e)) \in Nat
    BY UsersCount DEF Users, Waiters
  <2>10. \A f \in Entry : inuse'[f] = IF f = e /\ wb[t] THEN inuse[f] - 1 ELSE inuse[f]
    BY <1>11, <2>e DEF WaitEnds
  <2>11. \A u \in Thread : wb'[u] => pc'[u] = "wait"
    BY <1>11, <2>e DEF WaitEnds
  <2>12. inuse'[e] = Cardinality(Users(e)') + Cardinality(Waiters(e)')
    BY <2>1, <2>6, <2>7, <2>8, <2>9, <2>10
  <2>13. \A f \in Entry : f # e => inuse'[f] = Cardinality(Users(f)') + Cardinality(Waiters(f)')
    BY <2>7, <2>8, <2>10
  <2>14. \A f \in Entry : inuse'[f] = Cardinality(Users(f)') + Cardinality(Waiters(f)')
    BY <2>12, <2>13, Zenon
  <2> QED
    BY <2>11, <2>14
<1>12. ASSUME NEW t \in Thread, DisposeBegin(t) PROVE Counts'
  <2>1. \A f \in Entry : Users(f)' = Users(f) /\ Waiters(f)' = Waiters(f)
    BY <1>12 DEF DisposeBegin, FirstToDispose, Users, Waiters
  <2>2. \A f \in Entry : /\ Cardinality(Users(f)') = Cardinality(Users(f))
                         /\ Cardinality(Waiters(f)') = Cardinality(Waiters(f))
    BY <2>1, Zenon
  <2> QED
    BY <1>12, <2>2 DEF DisposeBegin, FirstToDispose
<1>13. ASSUME NEW t \in Thread, InuseOneWait(t) PROVE Counts'
  <2>1. \A f \in Entry : Users(f)' = Users(f) /\ Waiters(f)' = Waiters(f)
    BY <1>13 DEF InuseOneWait, Users, Waiters
  <2>2. \A f \in Entry : /\ Cardinality(Users(f)') = Cardinality(Users(f))
                         /\ Cardinality(Waiters(f)') = Cardinality(Waiters(f))
    BY <2>1, Zenon
  <2> QED
    BY <1>13, <2>2 DEF InuseOneWait
<1>14. ASSUME NEW t \in Thread, InuseOneWaitEnds(t) PROVE Counts'
  <2>1. \A f \in Entry : Users(f)' = Users(f) /\ Waiters(f)' = Waiters(f)
    BY <1>14 DEF InuseOneWaitEnds, Users, Waiters
  <2>2. \A f \in Entry : /\ Cardinality(Users(f)') = Cardinality(Users(f))
                         /\ Cardinality(Waiters(f)') = Cardinality(Waiters(f))
    BY <2>1, Zenon
  <2> QED
    BY <1>14, <2>2 DEF InuseOneWaitEnds
<1>15. ASSUME NEW t \in Thread, FreeBegin(t) PROVE Counts'
  <2>e. PICK e \in Entry : e = ent[t]
    BY <1>15 DEF FreeBegin
  <2>1. t \in Users(e) /\ Users(e) \subseteq Thread
    BY <1>15, <2>e DEF FreeBegin, Users, Waiters
  <2>2. Users(e)' = Users(e) \ {t}
    BY <1>15, <2>e DEF FreeBegin, InuseOneBroadcast, Debumped, Users, Waiters
  <2>3. \A f \in Entry : f # e => Users(f)' = Users(f)
    BY <1>15, <2>e DEF FreeBegin, InuseOneBroadcast, Debumped, Users, Waiters
  <2>4. \A f \in Entry : Waiters(f)' = Waiters(f)
    BY <1>15, <2>e DEF FreeBegin, InuseOneBroadcast, Debumped, Users, Waiters
  <2>5. Cardinality(Users(e) \ {t}) = Cardinality(Users(e)) - 1
    BY <2>1, UsersCount, FS_RemoveElement
  <2>6. Cardinality(Users(e)') = Cardinality(Users(e)) - 1
    BY <2>2, <2>5, Zenon
  <2>7. \A f \in Entry : f # e => Cardinality(Users(f)') = Cardinality(Users(f))
    BY <2>3, Zenon
  <2>8. \A f \in Entry : Cardinality(Waiters(f)') = Cardinality(Waiters(f))
    BY <2>4, Zenon
  <2>9. Cardinality(Users(e)) \in Nat /\ Cardinality(Waiters(e)) \in Nat
    BY UsersCount DEF Users, Waiters
  <2>10. \A f \in Entry : inuse'[f] = IF f = e THEN inuse[f] - 1 ELSE inuse[f]
    BY <1>15, <2>e, UserCounted DEF FreeBegin, InuseOneBroadcast, Debumped
  <2>11. \A u \in Thread : wb'[u] => pc'[u] = "wait"
    BY <1>15, <2>e DEF FreeBegin, InuseOneBroadcast, Debumped
  <2>12. inuse'[e] = Cardinality(Users(e)') + Cardinality(Waiters(e)')
    BY <2>1, <2>6, <2>7, <2>8, <2>9, <2>10
  <2>13. \A f \in Entry : f # e => inuse'[f] = Cardinality(Users(f)') + Cardinality(Waiters(f)')
    BY <2>7, <2>8, <2>10
  <2>14. \A f \in Entry : inuse'[f] = Cardinality(Users(f)') + Cardinality(Waiters(f)')
    BY <2>12, <2>13, Zenon
  <2> QED
    BY <2>11, <2>14
<1>16. ASSUME NEW t \in Thread, FreeEntry(t) PROVE Counts'
  <2>1. \A f \in Entry : Users(f)' = Users(f) /\ Waiters(f)' = Waiters(f)
    BY <1>16 DEF FreeEntry, Back2Idle, AtOnce, Users, Waiters
  <2>2. \A f \in Entry : /\ Cardinality(Users(f)') = Cardinality(Users(f))
                         /\ Cardinality(Waiters(f)') = Cardinality(Waiters(f))
    BY <2>1, Zenon
  <2> QED
    BY <1>16, <2>2 DEF FreeEntry, Back2Idle, AtOnce
<1>17. CASE UNCHANGED vars
  <2>1. \A e \in Entry : Users(e)' = Users(e) /\ Waiters(e)' = Waiters(e)
    BY <1>17 DEF vars, Users, Waiters
  <2>2. \A e \in Entry : /\ Cardinality(Users(e)') = Cardinality(Users(e))
                         /\ Cardinality(Waiters(e)') = Cardinality(Waiters(e))
    BY <2>1, Zenon
  <2> QED
    BY <1>17, <2>2 DEF vars, evars, ovars, tvars
<1> QED
  BY <1>1, <1>2, <1>3, <1>4, <1>5, <1>6, <1>7, <1>8, <1>9, <1>10, <1>11, <1>12, <1>13, <1>14, <1>15, <1>16, <1>17, StepCases DEF Method

\* The disposer is woken when it is alone.
LEMMA NoSleeperNext == IInv /\ [Next]_vars => NoSleeperMissed'
<1> SUFFICES ASSUME IInv, [Next]_vars PROVE NoSleeperMissed'
  OBVIOUS
<1> USE OplocksAssumption DEF IInv, TypeOK, UsersFit, NoSleeperMissed, Pool, Using, Busy, evars, ovars, tvars
<1>1. ASSUME NEW t \in Thread, NEW o \in Object, AllocBegin(t, o) PROVE NoSleeperMissed'
  BY <1>1 DEF AllocBegin
<1>2. ASSUME NEW t \in Thread, NEW e \in Entry, AllocPick(t, e) PROVE NoSleeperMissed'
  BY <1>2 DEF AllocPick
<1>3. ASSUME NEW t \in Thread, NEW e \in Entry, Gives(t, e) PROVE NoSleeperMissed'
  BY <1>3 DEF Gives, Assign
<1>4. ASSUME NEW t \in Thread, NEW o \in Object, Call(t, o) PROVE NoSleeperMissed'
  BY <1>4 DEF Call
<1>5. ASSUME NEW t \in Thread, AcquireFails(t) PROVE NoSleeperMissed'
  BY <1>5 DEF AcquireFails, Back2Idle
<1>6. ASSUME NEW t \in Thread, Acquire(t) PROVE NoSleeperMissed'
  BY <1>6 DEF Acquire, Mine
<1>7. ASSUME NEW t \in Thread, Release(t) PROVE NoSleeperMissed'
  <2> SUFFICES ASSUME NEW u \in Thread, pc'[u] = "one" PROVE inuse'[ent'[u]] > 1
    BY DEF NoSleeperMissed
  <2>1. /\ pc[u] = "one" /\ ent'[u] = ent[u] /\ ent[u] \in Entry /\ inuse[ent[u]] > 1
        /\ ~(ent[u] = ent[t] /\ inuse[ent[t]] = 2)
    BY <1>7 DEF Release, InuseOneBroadcast
  <2> QED
    BY <1>7, <2>1 DEF Release, Debumped
<1>8. ASSUME NEW t \in Thread, TempRelease(t) PROVE NoSleeperMissed'
  BY <1>8 DEF TempRelease
<1>9. ASSUME NEW t \in Thread, Reacquire(t) PROVE NoSleeperMissed'
  BY <1>9 DEF Reacquire
<1>10. ASSUME NEW t \in Thread, Wait(t) PROVE NoSleeperMissed'
  BY <1>10 DEF Wait, WaitBumps
<1>11. ASSUME NEW t \in Thread, WaitEnds(t) PROVE NoSleeperMissed'
  <2> SUFFICES ASSUME NEW u \in Thread, pc'[u] = "one" PROVE inuse'[ent'[u]] > 1
    BY DEF NoSleeperMissed
  <2> DEFINE e == ent[t]
  <2>1. pc[u] = "one" /\ ent'[u] = ent[u] /\ inuse[ent[u]] > 1 /\ e \in Entry /\ ent[u] \in Entry
    BY <1>11 DEF WaitEnds
  <2>2. CASE ent[u] = e /\ wb[t]
    <3>1. t \in Users(e) /\ u \in Users(e) \ {t} /\ t \in Waiters(e)
      BY <1>11, <2>1, <2>2 DEF WaitEnds, Users, Waiters
    <3>2. Users(e) \subseteq Thread /\ Waiters(e) \subseteq Thread /\ Users(e) \ {t} \subseteq Thread
      BY DEF Users, Waiters
    <3>3. Cardinality(Users(e) \ {t}) # 0 /\ Cardinality(Waiters(e)) # 0
      BY <3>1, <3>2, UsersCount, FS_EmptySet
    <3>4. Cardinality(Users(e) \ {t}) = Cardinality(Users(e)) - 1
      BY <3>1, <3>2, UsersCount, FS_RemoveElement
    <3>5. /\ Cardinality(Users(e)) \in Nat /\ Cardinality(Waiters(e)) \in Nat
          /\ Cardinality(Users(e) \ {t}) \in Nat
      BY <3>2, UsersCount
    <3>6. inuse[e] > 2
      BY <2>1, <3>3, <3>4, <3>5 DEF Counts
    <3> QED
      BY <1>11, <2>1, <2>2, <3>6 DEF WaitEnds
  <2>3. CASE ~(ent[u] = e /\ wb[t])
    BY <1>11, <2>1, <2>3 DEF WaitEnds
  <2> QED
    BY <2>2, <2>3
<1>12. ASSUME NEW t \in Thread, DisposeBegin(t) PROVE NoSleeperMissed'
  BY <1>12 DEF DisposeBegin, FirstToDispose
<1>13. ASSUME NEW t \in Thread, InuseOneWait(t) PROVE NoSleeperMissed'
  BY <1>13 DEF InuseOneWait
<1>14. ASSUME NEW t \in Thread, InuseOneWaitEnds(t) PROVE NoSleeperMissed'
  BY <1>14 DEF InuseOneWaitEnds
<1>15. ASSUME NEW t \in Thread, FreeBegin(t) PROVE NoSleeperMissed'
  <2> SUFFICES ASSUME NEW u \in Thread, pc'[u] = "one" PROVE inuse'[ent'[u]] > 1
    BY DEF NoSleeperMissed
  <2>1. /\ pc[u] = "one" /\ ent'[u] = ent[u] /\ ent[u] \in Entry /\ inuse[ent[u]] > 1
        /\ ~(ent[u] = ent[t] /\ inuse[ent[t]] = 2)
    BY <1>15 DEF FreeBegin, InuseOneBroadcast
  <2> QED
    BY <1>15, <2>1 DEF FreeBegin, Debumped
<1>16. ASSUME NEW t \in Thread, FreeEntry(t) PROVE NoSleeperMissed'
  BY <1>16 DEF FreeEntry, Back2Idle, AtOnce
<1>17. CASE UNCHANGED vars
  BY <1>17 DEF vars, evars, ovars, tvars
<1> QED
  BY <1>1, <1>2, <1>3, <1>4, <1>5, <1>6, <1>7, <1>8, <1>9, <1>10, <1>11, <1>12, <1>13, <1>14, <1>15, <1>16, <1>17, StepCases DEF Method

\* A thread that comes back finds its object.
LEMMA NoReacquireFailureNext == IInv /\ [Next]_vars => NoReacquireFailure'
<1> SUFFICES ASSUME IInv, [Next]_vars PROVE NoReacquireFailure'
  OBVIOUS
<1> USE OplocksAssumption DEF IInv, TypeOK, UsersFit, NoReacquireFailure, Using, Busy, evars, ovars, tvars
<1>1. ASSUME NEW t \in Thread, NEW o \in Object, AllocBegin(t, o) PROVE NoReacquireFailure'
  BY <1>1 DEF AllocBegin
<1>2. ASSUME NEW t \in Thread, NEW e \in Entry, AllocPick(t, e) PROVE NoReacquireFailure'
  BY <1>2 DEF AllocPick
<1>3. ASSUME NEW t \in Thread, NEW e \in Entry, Gives(t, e) PROVE NoReacquireFailure'
  BY <1>3 DEF Gives, Assign
<1>4. ASSUME NEW t \in Thread, NEW o \in Object, Call(t, o) PROVE NoReacquireFailure'
  BY <1>4 DEF Call
<1>5. ASSUME NEW t \in Thread, AcquireFails(t) PROVE NoReacquireFailure'
  BY <1>5 DEF AcquireFails, Back2Idle
<1>6. ASSUME NEW t \in Thread, Acquire(t) PROVE NoReacquireFailure'
  BY <1>6 DEF Acquire, Mine
<1>7. ASSUME NEW t \in Thread, Release(t) PROVE NoReacquireFailure'
  BY <1>7 DEF Release, InuseOneBroadcast, Debumped
<1>8. ASSUME NEW t \in Thread, TempRelease(t) PROVE NoReacquireFailure'
  BY <1>8 DEF TempRelease
<1>9. ASSUME NEW t \in Thread, Reacquire(t) PROVE NoReacquireFailure'
  BY <1>9 DEF Reacquire
<1>10. ASSUME NEW t \in Thread, Wait(t) PROVE NoReacquireFailure'
  BY <1>10 DEF Wait, WaitBumps
<1>11. ASSUME NEW t \in Thread, WaitEnds(t) PROVE NoReacquireFailure'
  BY <1>11 DEF WaitEnds
<1>12. ASSUME NEW t \in Thread, DisposeBegin(t) PROVE NoReacquireFailure'
  BY <1>12 DEF DisposeBegin, FirstToDispose
<1>13. ASSUME NEW t \in Thread, InuseOneWait(t) PROVE NoReacquireFailure'
  BY <1>13 DEF InuseOneWait
<1>14. ASSUME NEW t \in Thread, InuseOneWaitEnds(t) PROVE NoReacquireFailure'
  BY <1>14 DEF InuseOneWaitEnds
<1>15. ASSUME NEW t \in Thread, FreeBegin(t) PROVE NoReacquireFailure'
  BY <1>15 DEF FreeBegin, InuseOneBroadcast, Debumped
<1>16. ASSUME NEW t \in Thread, FreeEntry(t) PROVE NoReacquireFailure'
  BY <1>16 DEF FreeEntry, Back2Idle, AtOnce
<1>17. CASE UNCHANGED vars
  BY <1>17 DEF vars, evars, ovars, tvars
<1> QED
  BY <1>1, <1>2, <1>3, <1>4, <1>5, <1>6, <1>7, <1>8, <1>9, <1>10, <1>11, <1>12, <1>13, <1>14, <1>15, <1>16, <1>17, StepCases DEF Method

-----------------------------------------------------------------------------
(* Safety                                                                  *)

\* The inductive invariant holds, for any number of objects, threads and entries.
THEOREM OplocksInvariance == Spec => []IInv
<1>1. IInv /\ [Next]_vars => IInv'
  BY TypeNext, OwnershipNext, UsersFitNext, LocksNext, DisposalNext, PoolNext, CountsNext,
     NoSleeperNext, NoReacquireFailureNext DEF IInv
<1> QED
  BY <1>1, InitIInv, PTL DEF Spec

\* Every variable of the lock entries keeps its type; in particular no count
\* gets negative.
THEOREM OplocksTypes == Spec => []TypeOK
<1>1. IInv => TypeOK
  BY DEF IInv
<1> QED
  BY <1>1, OplocksInvariance, PTL

\* An entry without owner is not in use.
THEOREM UnusedWithoutOwner == Spec => []NullMeansUnused
<1>1. IInv => NullMeansUnused
  BY NoOwnerNoUser DEF NullMeansUnused
<1> QED
  BY <1>1, OplocksInvariance, PTL

\* alloc_entry, free_entry and debump log no internal error.
THEOREM ErrorsImpossible == Spec => []NoInternalError
<1>1. IInv => NoInternalError
  <2> SUFFICES ASSUME IInv, NEW t \in Thread
               PROVE  /\ pc[t] = "take" => Reusable(ent[t])
                      /\ pc[t] = "free" =>
                           ptr[ent[t]] = on[t] /\ ~disposed[ent[t]] /\ ent[t] \notin free
                      /\ pc[t] = "held" => inuse[ent[t]] > 0
    BY DEF NoInternalError
  <2>1. pc[t] = "take" => Reusable(ent[t])
    BY DEF IInv, Pool
  <2>2. pc[t] = "free" =>
          ptr[ent[t]] = on[t] /\ ~disposed[ent[t]] /\ ent[t] \notin free
    BY OplocksAssumption DEF IInv, UsersFit, Disposal, Busy
  <2>3. pc[t] = "held" => inuse[ent[t]] > 0
    BY UserCounted DEF Using
  <2> QED
    BY <2>1, <2>2, <2>3
<1> QED
  BY <1>1, OplocksInvariance, PTL

\* reacquire after a temporary release never fails, so RDI_Fatal is not reached.
THEOREM ReacquireSucceeds == Spec => []NoReacquireFailure
<1>1. IInv => NoReacquireFailure
  BY DEF IInv
<1> QED
  BY <1>1, OplocksInvariance, PTL

\* alloc_entry, which locks the pool and then an entry, and free_entry, which does
\* it the other way round, never wait for each other.
THEOREM NoDeadlock == Spec => []NoLockCycle
<1>1. IInv => NoLockCycle
  <2> SUFFICES ASSUME IInv, NEW t \in Thread, NEW u \in Thread,
                      pc[t] = "take", pc[u] = "free"
               PROVE  ent[t] # ent[u]
    BY DEF NoLockCycle
  <2>1. ptr[ent[t]] = None \/ disposed[ent[t]]
    BY DEF IInv, Pool, Reusable
  <2>2. ptr[ent[u]] # None /\ ~disposed[ent[u]]
    BY OplocksAssumption DEF IInv, UsersFit, Disposal, Busy
  <2> QED
    BY <2>1, <2>2
<1> QED
  BY <1>1, OplocksInvariance, PTL

\* The thread that waits to be alone in its object does not miss that moment.
THEOREM SleepersWoken == Spec => []NoSleeperMissed
<1>1. IInv => NoSleeperMissed
  BY DEF IInv
<1> QED
  BY <1>1, OplocksInvariance, PTL

-----------------------------------------------------------------------------
(* The entries implement ObjectLife                                        *)

\* An object in use is alive and has the entry its users bumped.
LEMMA Home ==
  ASSUME IInv, NEW t \in Thread, pc[t] \in Busy
  PROVE  /\ on[t] \in Object /\ ent[t] \in Entry /\ ptr[ent[t]] = on[t]
         /\ oplockptr[on[t]] = ent[t] /\ life[on[t]] = "alive"
         /\ t \in In(on[t])
BY OplocksAssumption DEF IInv, UsersFit, Ownership, Busy, Using, In

\* The thread with the entry's lock is alone inside the object.
LEMMA AloneInside ==
  ASSUME IInv, NEW t \in Thread, pc[t] \in {"held", "free"}
  PROVE  Inside(on[t]) = {t}
<1>1. pc[t] \in Busy
  BY DEF Busy, Using
<1>2. ASSUME NEW u \in Inside(on[t]) PROVE u = t
  <2>1. u \in Thread /\ pc[u] \in {"held", "free"} /\ on[u] = on[t] /\ pc[u] \in Busy
    BY <1>2 DEF Inside, Busy, Using
  <2>2. ent[u] = ent[t] /\ ent[t] \in Entry
    BY <1>1, <2>1, Home
  <2> QED
    BY <2>1, <2>2 DEF IInv, Locks
<1>3. t \in Inside(on[t])
  BY DEF Inside
<1> QED
  BY <1>2, <1>3

\* Nobody is inside an object whose lock is free.
LEMMA NobodyInside ==
  ASSUME IInv, NEW e \in Entry, lock[e] = None, NEW o \in Object, ptr[e] = o
  PROVE  Inside(o) = {}
<1> SUFFICES ASSUME NEW u \in Inside(o) PROVE FALSE
  OBVIOUS
<1>1. u \in Thread /\ pc[u] \in {"held", "free"} /\ on[u] = o /\ pc[u] \in Busy
  BY DEF Inside, Busy, Using
<1>2. ent[u] = e
  BY <1>1, Home, OplocksAssumption DEF IInv, Ownership
<1> QED
  BY <1>1, <1>2, OplocksAssumption DEF IInv, Locks

\* What is seen of the objects, as the functions of ObjectLife.
lifeBar == [o \in Object |-> Phase(o)]
usersBar == [o \in Object |-> In(o)]
insideBar == [o \in Object |-> Inside(o)]

\* A step that is seen in one object only.
LEMMA Moved ==
  ASSUME NEW o \in Object, NEW U, NEW I, NEW ph,
         \A q \in Object : q # o =>
            /\ Phase(q)' = Phase(q) /\ In(q)' = In(q) /\ Inside(q)' = Inside(q),
         Phase(o)' = ph, In(o)' = U, Inside(o)' = I
  PROVE  /\ lifeBar' = [lifeBar EXCEPT ![o] = ph]
         /\ usersBar' = [usersBar EXCEPT ![o] = U]
         /\ insideBar' = [insideBar EXCEPT ![o] = I]
<1>1. lifeBar' = [lifeBar EXCEPT ![o] = ph]
  BY Zenon DEF lifeBar
<1>2. usersBar' = [usersBar EXCEPT ![o] = U]
  BY Zenon DEF usersBar
<1>3. insideBar' = [insideBar EXCEPT ![o] = I]
  BY Zenon DEF insideBar
<1> QED
  BY <1>1, <1>2, <1>3

\* A step nothing is seen of.
LEMMA Unmoved ==
  ASSUME \A q \in Object :
            /\ Phase(q)' = Phase(q) /\ In(q)' = In(q) /\ Inside(q)' = Inside(q)
  PROVE  UNCHANGED <<lifeBar, usersBar, insideBar>>
<1>1. lifeBar' = lifeBar
  BY Zenon DEF lifeBar
<1>2. usersBar' = usersBar
  BY Zenon DEF usersBar
<1>3. insideBar' = insideBar
  BY Zenon DEF insideBar
<1> QED
  BY <1>1, <1>2, <1>3


\* A thread enters.
LEMMA AcquireEnters ==
  ASSUME IInv, NEW t \in Thread, Acquire(t)
  PROVE  Life!Enter(t, on[t])
<1>1. PICK o \in Object : o = on[t]
  BY DEF Acquire, IInv, UsersFit
<1>2. PICK e \in Entry : e = ent[t]
  BY DEF Acquire, IInv, UsersFit
<1>3. lock[e] = None /\ ptr[e] = o /\ ~disposed[e] /\ pc[t] = "try"
  BY <1>1, <1>2 DEF Acquire, Mine
<1>4. oplockptr[o] = e /\ life[o] = "alive"
  BY <1>1, <1>3, OplocksAssumption DEF IInv, Ownership
<1>5. Phase(o) = "alive" /\ t \notin In(o) /\ Inside(o) = {}
  BY <1>3, <1>4, NobodyInside DEF Phase, In, Using
<1>6. \A q \in Object : Phase(q)' = Phase(q)
  BY DEF Acquire, Phase, ovars
<1>7. \A q \in Object : q # o => In(q)' = In(q) /\ Inside(q)' = Inside(q)
  BY <1>1 DEF Acquire, In, Inside, IInv, TypeOK, Using
<1>8. In(o)' = In(o) \cup {t} /\ Inside(o)' = Inside(o) \cup {t}
  BY <1>1 DEF Acquire, In, Inside, IInv, TypeOK, Using
<1>9. Inside(o)' = {t}
  BY <1>5, <1>8
<1>10. /\ lifeBar' = [lifeBar EXCEPT ![o] = Phase(o)]
       /\ usersBar' = [usersBar EXCEPT ![o] = In(o) \cup {t}]
       /\ insideBar' = [insideBar EXCEPT ![o] = {t}]
  BY <1>6, <1>7, <1>8, <1>9, Moved
<1> QED
  BY <1>1, <1>5, <1>10 DEF Life!Enter, lifeBar, usersBar, insideBar

\* A thread steps out of its object: it releases the lock for a while or waits.
LEMMA StepsOut ==
  ASSUME IInv, NEW t \in Thread, TempRelease(t) \/ Wait(t) \/ InuseOneWait(t)
  PROVE  Life!StepOut(t, on[t])
<1>1. pc[t] = "held" /\ pc[t] \in Busy
  BY DEF TempRelease, Wait, InuseOneWait, Busy, Using
<1>2. PICK o \in Object : o = on[t]
  BY <1>1, Home
<1>3. Inside(o) = {t} /\ t \in In(o)
  BY <1>1, <1>2, AloneInside, Home
<1>4. \A q \in Object : Phase(q)' = Phase(q)
  BY DEF TempRelease, Wait, InuseOneWait, Phase, ovars
<1>5. \A q \in Object : In(q)' = In(q)
  BY DEF TempRelease, Wait, InuseOneWait, In, IInv, TypeOK, Using
<1>6. \A q \in Object : Inside(q)' = Inside(q) \ {t}
  BY DEF TempRelease, Wait, InuseOneWait, Inside, IInv, TypeOK, Using
<1>7. Inside(o)' = {} /\ \A q \in Object : q # o => Inside(q)' = Inside(q)
  BY <1>2, <1>3, <1>6 DEF Inside
<1>8. /\ lifeBar' = [lifeBar EXCEPT ![o] = Phase(o)]
      /\ usersBar' = [usersBar EXCEPT ![o] = In(o)]
      /\ insideBar' = [insideBar EXCEPT ![o] = {}]
  BY <1>4, <1>5, <1>7, Moved
<1> QED
  BY <1>2, <1>3, <1>8 DEF Life!StepOut, lifeBar, usersBar, insideBar

\* ... and in again.
LEMMA StepsIn ==
  ASSUME IInv, NEW t \in Thread, Reacquire(t) \/ WaitEnds(t) \/ InuseOneWaitEnds(t)
  PROVE  Life!StepIn(t, on[t])
<1>1. pc[t] \in {"out", "wait", "woken"} /\ pc[t] \in Busy
  BY DEF Reacquire, WaitEnds, InuseOneWaitEnds, Busy, Using
<1>2. PICK o \in Object : o = on[t]
  BY <1>1, Home
<1>3. PICK e \in Entry : e = ent[t]
  BY <1>1, Home
<1>4. lock[e] = None /\ ptr[e] = o
  BY <1>1, <1>2, <1>3, Home DEF Reacquire, WaitEnds, InuseOneWaitEnds
<1>5. Inside(o) = {} /\ t \in In(o)
  BY <1>1, <1>2, <1>4, NobodyInside, Home
<1>6. \A q \in Object : Phase(q)' = Phase(q)
  BY DEF Reacquire, WaitEnds, InuseOneWaitEnds, Phase, ovars
<1>7. pc' = [pc EXCEPT ![t] = "held"] /\ on' = on
  BY <1>2, <1>3, <1>4 DEF Reacquire, WaitEnds, InuseOneWaitEnds
<1>8. \A q \in Object : In(q)' = In(q)
  BY <1>1, <1>7 DEF In, IInv, TypeOK, Using
<1>9. \A q \in Object : q # o => Inside(q)' = Inside(q)
  BY <1>2, <1>7 DEF Inside, IInv, TypeOK, Using
<1>10. Inside(o)' = Inside(o) \cup {t}
  BY <1>2, <1>7 DEF Inside, IInv, TypeOK, Using
<1>11. Inside(o)' = {t}
  BY <1>5, <1>10
<1>12. /\ lifeBar' = [lifeBar EXCEPT ![o] = Phase(o)]
       /\ usersBar' = [usersBar EXCEPT ![o] = In(o)]
       /\ insideBar' = [insideBar EXCEPT ![o] = {t}]
  BY <1>6, <1>8, <1>9, <1>11, Moved
<1> QED
  BY <1>2, <1>5, <1>12 DEF Life!StepIn, lifeBar, usersBar, insideBar

\* A thread leaves an object it does not dispose of.
LEMMA ReleaseLeaves ==
  ASSUME IInv, NEW t \in Thread, Release(t)
  PROVE  Life!Leave(t, on[t])
<1>1. pc[t] = "held" /\ pc[t] \in Busy
  BY DEF Release, Busy, Using
<1>2. PICK o \in Object : o = on[t]
  BY <1>1, Home
<1>3. Inside(o) = {t} /\ t \in In(o)
  BY <1>1, <1>2, AloneInside, Home
<1>4. \A q \in Object : Phase(q)' = Phase(q)
  BY DEF Release, Phase, ovars
<1>5. \A q \in Object : In(q)' = In(q) \ {t}
  BY OplocksAssumption DEF Release, InuseOneBroadcast, In, IInv, TypeOK, Using
<1>6. \A q \in Object : Inside(q)' = Inside(q) \ {t}
  BY OplocksAssumption DEF Release, InuseOneBroadcast, Inside, IInv, TypeOK, Using
<1>7. \A q \in Object : q # o => In(q)' = In(q) /\ Inside(q)' = Inside(q)
  BY <1>2, <1>5, <1>6 DEF In, Inside
<1>8. Inside(o)' = {}
  BY <1>3, <1>6
<1>9. /\ lifeBar' = [lifeBar EXCEPT ![o] = Phase(o)]
      /\ usersBar' = [usersBar EXCEPT ![o] = In(o) \ {t}]
      /\ insideBar' = [insideBar EXCEPT ![o] = {}]
  BY <1>4, <1>5, <1>7, <1>8, Moved
<1>10. lifeBar' = lifeBar
  BY <1>4 DEF lifeBar
<1> QED
  BY <1>2, <1>3, <1>9, <1>10 DEF Life!Leave, lifeBar, usersBar, insideBar

\* Nothing of these steps is seen: a thread that creates or calls an object is
\* not in it yet, one that disposes of an object is still inside.
LEMMA Unseen ==
  ASSUME IInv, NEW t \in Thread,
         \/ \E o \in Object : AllocBegin(t, o) \/ Call(t, o)
         \/ \E e \in Entry : AllocPick(t, e)
         \/ AcquireFails(t) \/ DisposeBegin(t) \/ FreeBegin(t)
  PROVE  UNCHANGED <<lifeBar, usersBar, insideBar>>
<1> USE DEF IInv, TypeOK, Using
<1>1. \A q \in Object : Phase(q)' = Phase(q)
  BY DEF AllocBegin, Call, AllocPick, AcquireFails, DisposeBegin, FreeBegin, Phase, ovars,
         evars
<1>2. CASE \E o \in Object : AllocBegin(t, o) \/ Call(t, o)
  <2>1. \A q \in Object : In(q)' = In(q) /\ Inside(q)' = Inside(q)
    BY <1>2 DEF AllocBegin, Call, In, Inside
  <2> QED
    BY <1>1, <2>1, Unmoved
<1>3. CASE \E e \in Entry : AllocPick(t, e)
  <2>1. \A q \in Object : In(q)' = In(q) /\ Inside(q)' = Inside(q)
    BY <1>3 DEF AllocPick, In, Inside
  <2> QED
    BY <1>1, <2>1, Unmoved
<1>4. CASE AcquireFails(t)
  <2>1. \A q \in Object : In(q)' = In(q) /\ Inside(q)' = Inside(q)
    BY <1>4 DEF AcquireFails, Back2Idle, In, Inside
  <2> QED
    BY <1>1, <2>1, Unmoved
<1>5. CASE DisposeBegin(t)
  <2>1. \A q \in Object : In(q)' = In(q) /\ Inside(q)' = Inside(q)
    BY <1>5 DEF DisposeBegin, In, Inside
  <2> QED
    BY <1>1, <2>1, Unmoved
<1>6. CASE FreeBegin(t)
  <2>1. \A q \in Object : In(q)' = In(q) /\ Inside(q)' = Inside(q)
    BY <1>6 DEF FreeBegin, InuseOneBroadcast, In, Inside
  <2> QED
    BY <1>1, <2>1, Unmoved
<1> QED
  BY <1>2, <1>3, <1>4, <1>5, <1>6

\* The thread that disposes of an object leaves it, and the object is deleted
\* if it was the last one.
LEMMA FreeEntryLeaves ==
  ASSUME IInv, NEW t \in Thread, FreeEntry(t)
  PROVE  Life!Leave(t, on[t])
<1>1. pc[t] = "free" /\ pc[t] \in Busy
  BY DEF FreeEntry, Busy
<1>2. PICK o \in Object : o = on[t]
  BY <1>1, Home
<1>3. PICK e \in Entry : e = ent[t]
  BY <1>1, Home
<1>4. ptr[e] = o /\ oplockptr[o] = e /\ life[o] = "alive"
  BY <1>1, <1>2, <1>3, Home
<1>5. ~disposed[e] /\ Phase(o) = "alive"
  BY <1>1, <1>3, <1>4 DEF IInv, Disposal, Phase
<1>6. Inside(o) = {t} /\ t \in In(o)
  BY <1>1, <1>2, AloneInside, Home
<1>7. AtOnce(e) <=> In(o) = {t}
  <2>1. ASSUME AtOnce(e), NEW u \in In(o) PROVE u = t
    <3>1. u \in Thread /\ on[u] = o /\ pc[u] \in Busy
      BY <2>1 DEF In, Busy
    <3>2. ent[u] = e
      BY <1>4, <3>1, Home
    <3>3. pc[u] \notin Using
      BY <2>1, <3>1, <3>2, UserCounted DEF AtOnce
    <3>4. u \in Inside(o)
      BY <3>1, <3>3 DEF Inside, Busy
    <3> QED
      BY <1>6, <3>4
  <2>2. ASSUME In(o) = {t} PROVE AtOnce(e)
    <3>1. Users(e) = {}
      <4> SUFFICES ASSUME NEW u \in Users(e) PROVE FALSE
        OBVIOUS
      <4>1. u \in Thread /\ ent[u] = e /\ pc[u] \in Using /\ pc[u] \in Busy
        BY DEF Users, Busy
      <4>2. u \in In(o)
        BY <1>4, <4>1, Home
      <4> QED
        BY <1>1, <2>2, <4>1, <4>2 DEF Using
    <3>2. Waiters(e) = {}
      BY <3>1 DEF Waiters
    <3>3. Cardinality(Users(e)) = 0 /\ Cardinality(Waiters(e)) = 0
      BY <3>1, <3>2, FS_EmptySet, Zenon
    <3> QED
      BY <3>3 DEF AtOnce, IInv, Counts
  <2> QED
    BY <1>6, <2>1, <2>2
<1>8. Phase(o)' = IF In(o) = {t} THEN "deleted" ELSE "disposed"
  <2>1. CASE AtOnce(e)
    <3>1. life'[o] = "deleted"
      BY <1>2, <1>3, <1>4, <2>1 DEF FreeEntry, IInv, TypeOK
    <3> QED
      BY <1>7, <2>1, <3>1 DEF Phase
  <2>2. CASE ~AtOnce(e)
    <3>1. life'[o] = "alive" /\ oplockptr'[o] = e
      BY <1>2, <1>3, <1>4, <2>2 DEF FreeEntry
    <3>2. disposed' = [disposed EXCEPT ![e] = TRUE]
      <4>1. ~AtOnce(e) = TRUE
        BY <2>2
      <4> QED
        BY <1>2, <1>3, <1>4, <4>1 DEF FreeEntry
    <3>3. disposed'[e]
      BY <3>2 DEF IInv, TypeOK
    <3> QED
      BY <1>7, <2>2, <3>1, <3>3 DEF Phase
  <2> QED
    BY <2>1, <2>2
<1>9. \A q \in Object : q # o => Phase(q)' = Phase(q)
  BY <1>2, <1>3, <1>4, OplocksAssumption DEF FreeEntry, Phase, IInv, TypeOK, Ownership
<1>10. \A q \in Object : In(q)' = In(q) \ {t} /\ Inside(q)' = Inside(q) \ {t}
  BY OplocksAssumption DEF FreeEntry, Back2Idle, In, Inside, IInv, TypeOK, Using
<1>11. \A q \in Object : q # o => In(q)' = In(q) /\ Inside(q)' = Inside(q)
  BY <1>2, <1>10 DEF In, Inside
<1>12. In(o)' = In(o) \ {t} /\ Inside(o)' = {}
  BY <1>6, <1>10
<1>13. /\ lifeBar' = [lifeBar EXCEPT ![o] = IF In(o) = {t} THEN "deleted" ELSE "disposed"]
       /\ usersBar' = [usersBar EXCEPT ![o] = In(o) \ {t}]
       /\ insideBar' = [insideBar EXCEPT ![o] = {}]
  BY <1>8, <1>9, <1>11, <1>12, Moved
<1> QED
  BY <1>2, <1>5, <1>6, <1>13 DEF Life!Leave, lifeBar, usersBar, insideBar

\* alloc_entry creates an object and deletes the former owner of the entry, if
\* that one's disposal had been deferred.
LEMMA GivesCreates ==
  ASSUME IInv, NEW t \in Thread, NEW e \in Entry, Gives(t, e)
  PROVE  Life!Next
<1>1. PICK q \in Object : q = on[t]
  BY DEF Gives
<1>2. life[q] = "none" /\ oplockptr[q] = None /\ Phase(q) = "none"
  BY <1>1 DEF Gives, IInv, Ownership, TypeOK, Phase
<1>3. Phase(q)' = "alive"
  BY <1>1 DEF Gives, Assign, Phase, IInv, TypeOK
<1>4. \A r \in Object : r # q /\ r # ptr[e] => Phase(r)' = Phase(r)
  BY <1>1, OplocksAssumption DEF Gives, Assign, Phase, IInv, TypeOK, Ownership
<1>5. \A r \in Object : In(r)' = In(r) /\ Inside(r)' = Inside(r)
  BY DEF Gives, Assign, In, Inside, IInv, TypeOK, Using
<1>6. usersBar' = usersBar /\ insideBar' = insideBar
  <2>1. usersBar' = usersBar
    BY <1>5, Zenon DEF usersBar
  <2>2. insideBar' = insideBar
    BY <1>5, Zenon DEF insideBar
  <2> QED
    BY <2>1, <2>2
<1>7. CASE ptr[e] = None
  <2>1. \A r \in Object : r # q => Phase(r)' = Phase(r)
    BY <1>4, <1>7, OplocksAssumption
  <2>2. lifeBar' = [lifeBar EXCEPT ![q] = "alive"]
    BY <1>3, <2>1 DEF lifeBar
  <2>3. Life!Create(q)
    BY <1>2, <1>6, <2>2 DEF Life!Create, lifeBar, usersBar, insideBar
  <2> QED
    BY <2>3 DEF Life!Next
<1>8. CASE ptr[e] # None
  <2>1. PICK o \in Object : o = ptr[e]
    BY <1>8 DEF IInv, TypeOK
  <2>2. disposed[e] /\ oplockptr[o] = e /\ life[o] = "alive"
    BY <1>8, <2>1, OplocksAssumption DEF Gives, IInv, Ownership
  <2>3. Phase(o) = "disposed" /\ o # q
    BY <1>2, <2>2 DEF Phase
  <2>4. In(o) = {}
    <3> SUFFICES ASSUME NEW u \in In(o) PROVE FALSE
      OBVIOUS
    <3>1. u \in Thread /\ on[u] = o /\ pc[u] \in Busy
      BY DEF In, Busy
    <3> QED
      BY <2>2, <3>1, Home DEF Gives
  <2>5. Phase(o)' = "deleted"
    BY <1>1, <2>1, <2>3 DEF Gives, Assign, Phase
  <2>6. lifeBar' = [lifeBar EXCEPT ![o] = "deleted", ![q] = "alive"]
    BY <1>3, <1>4, <2>1, <2>3, <2>5 DEF lifeBar
  <2> QED
    BY <1>2, <1>6, <2>3, <2>4, <2>6 DEF Life!Next, lifeBar, usersBar, insideBar
<1> QED
  BY <1>7, <1>8

\* The lock entries implement ObjectLife: threads run inside an object one at a
\* time, never in an object that is disposed of or another than they called, and
\* an object is deleted only when nobody uses it, however entries are reused.
THEOREM EntriesProtectObjects == Spec => LifeSpec
<1>1. Init => Life!Init
  BY DEF Init, Life!Init, Phase, In, Inside, Using
<1>2. IInv /\ [Next]_vars => [Life!Next]_(Life!vars)
  <2> SUFFICES ASSUME IInv, [Next]_vars
               PROVE  Life!Next \/ UNCHANGED <<lifeBar, usersBar, insideBar>>
    BY DEF Life!vars, lifeBar, usersBar, insideBar
  <2>1. ASSUME NEW t \in Thread, NEW e \in Entry, Gives(t, e)
        PROVE  Life!Next
    BY <2>1, GivesCreates
  <2>2. ASSUME NEW t \in Thread, Method(t), ~(AcquireFails(t) \/ DisposeBegin(t) \/ FreeBegin(t))
        PROVE  Life!Next
    <3>1. pc[t] \in Busy \cup {"try"}
      BY <2>2 DEF Method, Acquire, Release, TempRelease, Reacquire, Wait, WaitEnds, InuseOneWait,
                  InuseOneWaitEnds, FreeEntry, Busy, Using
    <3>2. on[t] \in Object
      BY <3>1 DEF IInv, UsersFit
    <3>3. \/ Life!Enter(t, on[t]) \/ Life!StepOut(t, on[t]) \/ Life!StepIn(t, on[t])
          \/ Life!Leave(t, on[t])
      BY <2>2, AcquireEnters, StepsOut, StepsIn, ReleaseLeaves, FreeEntryLeaves DEF Method
    <3> QED
      BY <3>2, <3>3 DEF Life!Next
  <2>3. CASE UNCHANGED vars
    BY <2>3 DEF vars, evars, ovars, tvars, lifeBar, usersBar, insideBar, Phase, In, Inside
  <2> QED
    BY <2>1, <2>2, <2>3, Unseen, StepCases
<1> QED
  BY <1>1, <1>2, OplocksInvariance, PTL DEF Spec, LifeSpec, Life!Spec

\* Once an object is disposed of, the count of its entry only falls.
THEOREM CountsDrain == Spec => DisposedOnlyDrains
<1>1. IInv /\ [Next]_vars =>
        [\A e \in Entry : disposed[e] /\ disposed'[e] => inuse'[e] <= inuse[e]]_vars
  <2> SUFFICES ASSUME IInv, [Next]_vars, NEW e \in Entry, disposed[e], disposed'[e]
               PROVE  inuse'[e] <= inuse[e]
    OBVIOUS
  <2> USE DEF IInv, TypeOK
  <2>1. ASSUME NEW t \in Thread, NEW f \in Entry, Gives(t, f) PROVE inuse'[e] <= inuse[e]
    BY <2>1 DEF Gives, Assign
  <2>2. ASSUME NEW t \in Thread, Method(t) PROVE inuse'[e] <= inuse[e]
    BY <2>2 DEF Method, AcquireFails, Acquire, Mine, Release, TempRelease, Reacquire, Wait,
                WaitBumps, WaitEnds, DisposeBegin, InuseOneWait, InuseOneWaitEnds, FreeBegin,
                FreeEntry, Debumped, evars
  <2>3. ASSUME NEW t \in Thread, NEW o \in Object, AllocBegin(t, o) \/ Call(t, o)
        PROVE  inuse'[e] <= inuse[e]
    BY <2>3 DEF AllocBegin, Call, evars
  <2>4. ASSUME NEW t \in Thread, NEW f \in Entry, AllocPick(t, f) PROVE inuse'[e] <= inuse[e]
    BY <2>4 DEF AllocPick, evars
  <2>5. CASE UNCHANGED vars
    BY <2>5 DEF vars, evars
  <2> QED
    BY <2>1, <2>2, <2>3, <2>4, <2>5, StepCases
<1> QED
  BY <1>1, OplocksInvariance, PTL DEF Spec, DisposedOnlyDrains
=============================================================================
