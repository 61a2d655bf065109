-------------------------------- MODULE Oplocks --------------------------------
(***************************************************************************)
(* RDIOplocks: the locks of the channel's objects (channel, admins,        *)
(* proxies, filters).  The lock of an object is an entry of a common pool, *)
(* so that threads may still wait for it when the object is disposed of:   *)
(* an entry that is in use keeps its object until it is no longer in use,  *)
(* and is then given to another object.  Threads call methods, which hold  *)
(* a bump scope lock (RDI_OplockBumpLock), release it for some time        *)
(* (RDI_OplockTempRelease), wait on its condition, or dispose of the       *)
(* object; others create objects.                                          *)
(***************************************************************************)
EXTENDS Integers, FiniteSets

CONSTANTS
  Object,  \* objects, each with a field _oplockptr
  Thread,
  Entry,   \* bound: entries the heap has room for
  None     \* the null pointer

ASSUME OplocksAssumption ==
  /\ None \notin Object \cup Thread \cup Entry
  /\ IsFiniteSet(Thread)

VARIABLES
  made,      \* entries that have been allocated from the heap
  free,      \* _freelist
  lock,      \* holder of an entry's _oplock
  inuse, ptr, disposed,  \* _inuse, _ptr and _disposed of every entry
  glock,     \* holder of RDIOplocks::_oplock
  oplockptr, \* _oplockptr of every object
  life,      \* has an object been constructed, deleted?
  guard,     \* has a thread taken upon itself to dispose of the object?
  pc, on, ent,  \* where a thread is, the object it calls and the entry it saw
  wb,        \* do_bump_debump in wait()
  dsp        \* is dispose_info set in the thread's scope lock?

evars == <<made, free, lock, inuse, ptr, disposed, glock>>
ovars == <<oplockptr, life, guard>>
tvars == <<pc, on, ent, wb, dsp>>
vars  == <<evars, ovars, tvars>>

\* Program counters of a thread between the bump and the debump.
Using == {"held", "out", "wait", "one", "woken"}

Users(e)   == {t \in Thread : ent[t] = e /\ pc[t] \in Using}
Waiters(e) == {t \in Users(e) : pc[t] = "wait" /\ wb[t]}

Init ==
  /\ made = {} /\ free = {} /\ glock = None
  /\ lock = [e \in Entry |-> None] /\ inuse = [e \in Entry |-> 0]
  /\ ptr = [e \in Entry |-> None] /\ disposed = [e \in Entry |-> FALSE]
  /\ oplockptr = [o \in Object |-> None]
  /\ life = [o \in Object |-> "none"] /\ guard = [o \in Object |-> FALSE]
  /\ pc = [t \in Thread |-> "idle"] /\ on = [t \in Thread |-> None]
  /\ ent = [t \in Thread |-> None] /\ wb = [t \in Thread |-> FALSE]
  /\ dsp = [t \in Thread |-> FALSE]

-----------------------------------------------------------------------------
(* alloc_entry, called by the constructor of an object                     *)

Reusable(e) == ptr[e] = None \/ (disposed[e] /\ inuse[e] = 0)

AllocBegin(t, o) ==
  /\ pc[t] = "idle" /\ life[o] = "none" /\ glock = None
  /\ \A u \in Thread : ~(pc[u] = "alloc" /\ on[u] = o)
  /\ glock' = t
  /\ pc' = [pc EXCEPT ![t] = "alloc"] /\ on' = [on EXCEPT ![t] = o]
  /\ UNCHANGED <<made, free, lock, inuse, ptr, disposed, ovars, ent, wb, dsp>>

\* An entry of the free list that looks reusable without its lock.
AllocPick(t, e) ==
  /\ pc[t] = "alloc" /\ e \in free /\ Reusable(e)
  /\ pc' = [pc EXCEPT ![t] = "take"] /\ ent' = [ent EXCEPT ![t] = e]
  /\ UNCHANGED <<evars, ovars, on, wb, dsp>>

\* The entry gets its new owner.  The former owner, if its disposal was
\* deferred, is disposed of now.
Assign(t, e) ==
  /\ ptr' = [ptr EXCEPT ![e] = on[t]]
  /\ inuse' = [inuse EXCEPT ![e] = 0]
  /\ disposed' = [disposed EXCEPT ![e] = FALSE]
  /\ free' = free \ {e} /\ made' = made \cup {e} /\ glock' = None
  /\ oplockptr' = [o \in Object |-> IF o = on[t] THEN e
                                    ELSE IF o = ptr[e] THEN None ELSE oplockptr[o]]
  /\ life' = [o \in Object |-> IF o = on[t] THEN "alive"
                               ELSE IF o = ptr[e] THEN "deleted" ELSE life[o]]
  /\ pc' = [pc EXCEPT ![t] = "idle"] /\ on' = [on EXCEPT ![t] = None]
  /\ ent' = [ent EXCEPT ![t] = None]
  /\ UNCHANGED <<lock, guard, wb, dsp>>

\* With the entry's lock the test is repeated; it logs an error and goes on to
\* the next entry if the answer has changed.
AllocTake(t) ==
  LET e == ent[t] IN
  /\ pc[t] = "take" /\ lock[e] = None
  /\ IF Reusable(e) THEN Assign(t, e)
     ELSE /\ pc' = [pc EXCEPT ![t] = "alloc"] /\ ent' = [ent EXCEPT ![t] = None]
          /\ UNCHANGED <<evars, ovars, on, wb, dsp>>

AllocNew(t, e) ==
  /\ pc[t] = "alloc" /\ \A f \in free : ~Reusable(f)
  /\ e \notin made /\ Assign(t, e)

-----------------------------------------------------------------------------
(* Scope locks                                                             *)

\* A call reaches an object that has not been deleted; the scope lock copies
\* its _oplockptr.
Call(t, o) ==
  /\ pc[t] = "idle" /\ life[o] = "alive"
  /\ pc' = [pc EXCEPT ![t] = "try"]
  /\ on' = [on EXCEPT ![t] = o] /\ ent' = [ent EXCEPT ![t] = oplockptr[o]]
  /\ UNCHANGED <<evars, ovars, wb, dsp>>

\* Wrong: an object that is being disposed of is entered.
Mine_ptrOnly(t) == ptr[ent[t]] = on[t]

\* (ptr == _ptr) && ! _disposed
Mine(t) == ptr[ent[t]] = on[t] /\ ~disposed[ent[t]]

Back2Idle(t) ==
  /\ pc' = [pc EXCEPT ![t] = "idle"] /\ on' = [on EXCEPT ![t] = None]
  /\ ent' = [ent EXCEPT ![t] = None]

\* acquire gives up at once, without the lock or right after it got it.
AcquireFails(t) ==
  /\ pc[t] = "try" /\ ~Mine(t) /\ Back2Idle(t)
  /\ UNCHANGED <<evars, ovars, wb, dsp>>

Acquire(t) ==
  LET e == ent[t] IN
  /\ pc[t] = "try" /\ lock[e] = None /\ Mine(t)
  /\ lock' = [lock EXCEPT ![e] = t]
  /\ inuse' = [inuse EXCEPT ![e] = @ + 1]
  /\ pc' = [pc EXCEPT ![t] = "held"]
  /\ UNCHANGED <<made, free, ptr, disposed, glock, ovars, on, ent, wb, dsp>>

\* Wrong: no broadcast of _inuseone.
InuseOneBroadcast_never(e, q) == q

\* debump to one (_inuseone.broadcast) wakes all that wait for inuse to be one.
InuseOneBroadcast(e, q) ==
  [t \in Thread |-> IF q[t] = "one" /\ ent[t] = e /\ inuse[e] = 2 THEN "woken" ELSE q[t]]

\* debump ignores a count of zero, with a message.
Debumped(e) == [inuse EXCEPT ![e] = IF @ = 0 THEN 0 ELSE @ - 1]

\* The scope ends.
Release(t) ==
  LET e == ent[t] IN
  /\ pc[t] = "held" /\ ~dsp[t]
  /\ inuse' = Debumped(e)
  /\ lock' = [lock EXCEPT ![e] = None]
  /\ pc' = InuseOneBroadcast(e, [pc EXCEPT ![t] = "idle"])
  /\ on' = [on EXCEPT ![t] = None] /\ ent' = [ent EXCEPT ![t] = None]
  /\ UNCHANGED <<made, free, ptr, disposed, glock, ovars, wb, dsp>>

TempRelease(t) ==
  /\ pc[t] = "held"
  /\ lock' = [lock EXCEPT ![ent[t]] = None]
  /\ pc' = [pc EXCEPT ![t] = "out"]
  /\ UNCHANGED <<made, free, inuse, ptr, disposed, glock, ovars, on, ent, wb, dsp>>

\* The end of a temporary release: reacquire looks only at _ptr.  Its failure is
\* fatal to every caller.
Reacquire(t) ==
  LET e == ent[t] IN
  /\ pc[t] = "out"
  /\ IF ptr[e] # on[t]
     THEN pc' = [pc EXCEPT ![t] = "fatal"] /\ UNCHANGED lock
     ELSE /\ lock[e] = None /\ lock' = [lock EXCEPT ![e] = t]
          /\ pc' = [pc EXCEPT ![t] = "held"]
  /\ UNCHANGED <<made, free, inuse, ptr, disposed, glock, ovars, on, ent, wb, dsp>>

\* Wrong: wait bumps an entry that has been disposed of.
WaitBumps_always(e) == TRUE

\* do_bump_debump
WaitBumps(e) == ~disposed[e]

Wait(t) ==
  LET e == ent[t] IN
  /\ pc[t] = "held"
  /\ wb' = [wb EXCEPT ![t] = WaitBumps(e)]
  /\ inuse' = IF WaitBumps(e) THEN [inuse EXCEPT ![e] = @ + 1] ELSE inuse
  /\ lock' = [lock EXCEPT ![e] = None]
  /\ pc' = [pc EXCEPT ![t] = "wait"]
  /\ UNCHANGED <<made, free, ptr, disposed, glock, ovars, on, ent, dsp>>

\* Signals and timeouts are left open: a wait may end at any time.  It debumps
\* without the broadcast.
WaitEnds(t) ==
  LET e == ent[t] IN
  /\ pc[t] = "wait" /\ lock[e] = None
  /\ lock' = [lock EXCEPT ![e] = t]
  /\ inuse' = IF wb[t] THEN [inuse EXCEPT ![e] = @ - 1] ELSE inuse
  /\ wb' = [wb EXCEPT ![t] = FALSE]
  /\ pc' = [pc EXCEPT ![t] = "held"]
  /\ UNCHANGED <<made, free, ptr, disposed, glock, ovars, on, ent, dsp>>

-----------------------------------------------------------------------------
(* Disposal                                                                *)

\* Wrong: every thread that asks for it disposes of the object.
FirstToDispose_unchecked(o) == TRUE

\* The object's state (_pxstate, _disposed, _shutmedown) lets one thread pass.
FirstToDispose(o) == ~guard[o]

DisposeBegin(t) ==
  /\ pc[t] = "held" /\ ~dsp[t] /\ FirstToDispose(on[t])
  /\ guard' = [guard EXCEPT ![on[t]] = TRUE]
  /\ dsp' = [dsp EXCEPT ![t] = TRUE]
  /\ UNCHANGED <<evars, oplockptr, life, pc, on, ent, wb>>

\* Most objects wait until no other thread is in use of them.
InuseOneWait(t) ==
  /\ pc[t] = "held" /\ dsp[t] /\ inuse[ent[t]] > 1
  /\ lock' = [lock EXCEPT ![ent[t]] = None]
  /\ pc' = [pc EXCEPT ![t] = "one"]
  /\ UNCHANGED <<made, free, inuse, ptr, disposed, glock, ovars, on, ent, wb, dsp>>

InuseOneWaitEnds(t) ==
  /\ pc[t] = "woken" /\ lock[ent[t]] = None
  /\ lock' = [lock EXCEPT ![ent[t]] = t]
  /\ pc' = [pc EXCEPT ![t] = "held"]
  /\ UNCHANGED <<made, free, inuse, ptr, disposed, glock, ovars, on, ent, wb, dsp>>

\* The scope of the disposing thread ends: it debumps and calls free_entry ...
FreeBegin(t) ==
  LET e == ent[t] IN
  /\ pc[t] = "held" /\ dsp[t]
  /\ inuse' = Debumped(e)
  /\ pc' = InuseOneBroadcast(e, [pc EXCEPT ![t] = "free"])
  /\ UNCHANGED <<made, free, lock, ptr, disposed, glock, ovars, on, ent, wb, dsp>>

\* Wrong: the object is disposed of although others use it.
AtOnce_always(e) == TRUE

\* May the disposal take place immediately?
AtOnce(e) == inuse[e] = 0

\* ... which locks the pool while it holds the entry.  Called for an entry that
\* has another owner it returns at once, with the entry still locked.
FreeEntry(t) ==
  LET e == ent[t] IN
  /\ pc[t] = "free" /\ glock = None
  /\ IF ptr[e] # on[t] THEN UNCHANGED <<free, lock, ptr, disposed, oplockptr, life>>
     ELSE /\ free' = free \cup {e}
          /\ disposed' = [disposed EXCEPT ![e] = ~AtOnce(e)]
          /\ lock' = [lock EXCEPT ![e] = None]
          /\ IF AtOnce(e)
             THEN /\ ptr' = [ptr EXCEPT ![e] = None]
                  /\ oplockptr' = [oplockptr EXCEPT ![on[t]] = None]
                  /\ life' = [life EXCEPT ![on[t]] = "deleted"]
             ELSE UNCHANGED <<ptr, oplockptr, life>>
  /\ Back2Idle(t) /\ dsp' = [dsp EXCEPT ![t] = FALSE]
  /\ UNCHANGED <<made, inuse, glock, guard, wb>>

-----------------------------------------------------------------------------
Method(t) ==
  \/ AcquireFails(t) \/ Acquire(t) \/ Release(t) \/ TempRelease(t) \/ Reacquire(t)
  \/ Wait(t) \/ WaitEnds(t)
  \/ DisposeBegin(t) \/ InuseOneWait(t) \/ InuseOneWaitEnds(t)
  \/ FreeBegin(t) \/ FreeEntry(t)

Alloc(t) == (\E e \in Entry : AllocPick(t, e) \/ AllocNew(t, e)) \/ AllocTake(t)

Next == \E t \in Thread :
  \/ \E o \in Object : AllocBegin(t, o) \/ Call(t, o)
  \/ Alloc(t) \/ Method(t)

Spec == Init /\ [][Next]_vars

-----------------------------------------------------------------------------
(* Properties                                                              *)

TypeOK ==
  /\ made \subseteq Entry /\ free \subseteq made
  /\ lock \in [Entry -> Thread \cup {None}] /\ inuse \in [Entry -> Nat]
  /\ ptr \in [Entry -> Object \cup {None}] /\ disposed \in [Entry -> BOOLEAN]
  /\ glock \in Thread \cup {None}
  /\ oplockptr \in [Object -> Entry \cup {None}]
  /\ life \in [Object -> {"none", "alive", "deleted"}]
  /\ guard \in [Object -> BOOLEAN]
  /\ pc \in [Thread -> Using \cup {"idle", "alloc", "take", "try", "free", "fatal"}]
  /\ on \in [Thread -> Object \cup {None}] /\ ent \in [Thread -> Entry \cup {None}]
  /\ wb \in [Thread -> BOOLEAN] /\ dsp \in [Thread -> BOOLEAN]

\* RDIOplocks.h: ptr is NULL => inuse is zero; inuse > 0 => ptr is non-NULL.
NullMeansUnused == \A e \in Entry : ptr[e] = None => inuse[e] = 0

\* RDIOplocks.h: once disposed is set, inuse is only decremented until the entry
\* is given to another object.
DisposedOnlyDrains ==
  [][\A e \in Entry : disposed[e] /\ disposed'[e] => inuse'[e] <= inuse[e]]_vars

\* None of the internal errors the code logs happens: alloc_entry's test of an
\* entry still holds once it has the lock, free_entry gets an entry that is its
\* caller's, not yet disposed of and not on the free list, debump one in use.
NoInternalError ==
  \A t \in Thread :
    /\ pc[t] = "take" => Reusable(ent[t])
    /\ pc[t] = "free" =>
         ptr[ent[t]] = on[t] /\ ~disposed[ent[t]] /\ ent[t] \notin free
    /\ pc[t] = "held" => inuse[ent[t]] > 0

\* The RDI_Fatal "unexpected REACQUIRE failure" of every caller is never reached.
NoReacquireFailure == \A t \in Thread : pc[t] # "fatal"

\* A thread that disposes of an object does not sleep while it is the only one
\* in use of it.
NoSleeperMissed ==
  \A t \in Thread : pc[t] = "one" => inuse[ent[t]] > 1

\* A thread runs inside an object only, which is not deleted as long as threads
\* use it, and alone, however the entries are reused.
Phase(o) == IF life[o] = "alive" /\ disposed[oplockptr[o]] THEN "disposed" ELSE life[o]
Inside(o) == {t \in Thread : pc[t] \in {"held", "free"} /\ on[t] = o}
In(o) == {t \in Thread : pc[t] \in Using \cup {"free"} /\ on[t] = o}

Life == INSTANCE ObjectLife WITH
          life <- [o \in Object |-> Phase(o)],
          users <- [o \in Object |-> In(o)],
          inside <- [o \in Object |-> Inside(o)]
LifeSpec == Life!Spec

\* free_entry locks the entry, then the pool; alloc_entry the pool, then an entry:
\* never the same one, so they do not wait for each other.
NoLockCycle ==
  \A t, u \in Thread : pc[t] = "take" /\ pc[u] = "free" => ent[t] # ent[u]
=============================================================================
