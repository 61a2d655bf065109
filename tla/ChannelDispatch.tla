---------------------------- MODULE ChannelDispatch ----------------------------
(***************************************************************************)
(* The dispatch of events inside a channel: the admin threads, which take  *)
(* the events from the queue of announced events and offer each of them to *)
(* the consumer admins of their groups; the queue between them and the     *)
(* proxy threads, which carry out the filtering for an admin's proxies;    *)
(* consumer admins that come and go meanwhile; and the destruction of the  *)
(* channel.                                                                *)
(*                                                                         *)
(* The queue of announced events is its abstract specification, EventFeed, *)
(* which EventQueue implements.  A section under an admin's lock is one    *)
(* action.  The other locks are held while waiting for the next one, and   *)
(* follow from where the threads are: the lock of a group (GroupFree), the *)
(* lock of the type map (TypeMapFree), which the "read" macro too takes    *)
(* exclusively, and _proxy_lock (ProxyLockFree).                           *)
(***************************************************************************)
EXTENDS Integers, FiniteSets, Sequences, SequencesExt

CONSTANTS
  AdminThread,   \* NumAdminThreads
  ProxyThread,   \* NumProxyThreads, unless none are configured (pooled)
  NumGroups,     \* NumAdminGroups
  MaxAdmins,     \* bound: admins created, the default admin included
  MaxEvents,     \* bound: events published
  MayDestroy,    \* bound: is the channel ever destroyed?
  Meant          \* Meant[a]: the events that pass the filters of admin a

Group == 0..(NumGroups - 1)
Admin == 0..(MaxAdmins - 1)
Event == 1..MaxEvents

\* The channel's constructor asserts that there are groups and threads, and the
\* parser of the server's properties lowers the number of threads to that of
\* the groups (CosNotification.cc).
ASSUME DispatchAssumption ==
  /\ NumGroups \in Nat \ {0} /\ MaxAdmins \in Nat \ {0} /\ MaxEvents \in Nat
  /\ IsFiniteSet(AdminThread) /\ Cardinality(AdminThread) \in 1..NumGroups
  /\ MayDestroy \in BOOLEAN /\ Meant \in [Admin -> SUBSET Event]

VARIABLES
  last, cursor, closed,    \* the queue of announced events (EventFeed)
  groups,                  \* _groups: a list with its iterator for each group
  nextgr, rmgrps, rmthrs,  \* CAdminGroupMgr: what allocate_range has left
  astate, hasproxy,        \* an admin's life; is _num_proxies > 0?
  serial,                  \* _admin_serial
  pooled,                  \* is numProxyThreads > 0?
  pxq,                     \* _proxy_events
  chanlock, phase,         \* who holds the channel's lock; progress of destroy
  pc, lo, hi, ix, adm,     \* locals of the admin threads
  ppc, pxdis,              \* locals of the proxy threads
  given, matched           \* the event given last to an admin's CosEvent
                           \* proxies, and to its other proxies

fvars == <<last, cursor, closed>>
mvars == <<nextgr, rmgrps, rmthrs>>
avars == <<astate, hasproxy, serial>>
tvars == <<pc, lo, hi, ix, adm>>
pvars == <<ppc, pxdis>>
hvars == <<given, matched>>
cvars == <<chanlock, phase>>
vars  == <<fvars, groups, mvars, avars, pooled, pxq, cvars, tvars, pvars, hvars>>

Feed == INSTANCE EventFeed WITH Consumer <- AdminThread

shutmedown == phase # "open"

-----------------------------------------------------------------------------
(* RDI_SafeList: a list with one built-in iterator that delivers a null    *)
(* pointer (an end marker) at the end of each round.                       *)

NoAdmin == -1

Insert(l, a) ==
  [elts |-> Append(l.elts, a),
   nxt  |-> IF l.mark THEN Len(l.elts) ELSE l.nxt,
   mark |-> FALSE]

\* Wrong: the element behind it.
IndexOf_next(l, a) ==
  LET i == CHOOSE i \in 0..(Len(l.elts) - 1) : l.elts[i + 1] = a
  IN  (i + 1) % Len(l.elts)
\* The position, counted from 0, of the element.
IndexOf(l, a) == CHOOSE i \in 0..(Len(l.elts) - 1) : l.elts[i + 1] = a

RemoveIdx(l, i) ==
  LET max  == Len(l.elts) - 1
      ends == l.nxt <= i /\ l.nxt = max
  IN  [elts |-> RemoveAt(l.elts, i + 1),
       nxt  |-> IF l.nxt > i THEN l.nxt - 1 ELSE IF ends THEN 0 ELSE l.nxt,
       mark |-> l.mark \/ (ends /\ max # 0)]

RemoveEntry(l, a) == IF Contains(l.elts, a) THEN RemoveIdx(l, IndexOf(l, a)) ELSE l

\* What iter_next returns, and what it leaves.
IterValue(l) == IF l.mark \/ l.elts = <<>> THEN NoAdmin ELSE l.elts[l.nxt + 1]
IterNext(l) ==
  IF l.mark THEN [l EXCEPT !.mark = FALSE]
  ELSE IF l.elts = <<>> THEN l
  ELSE LET n == (l.nxt + 1) % Len(l.elts)
       IN  [l EXCEPT !.nxt = n, !.mark = (n = 0)]

GroupOf(a) == a % NumGroups

-----------------------------------------------------------------------------
(* Who holds which lock                                                    *)

GroupFree(g)  == \A t \in AdminThread : ~(pc[t] = "admin" /\ ix[t] = g)
TypeMapFree ==
  /\ \A t \in AdminThread : pc[t] \notin {"list", "admin"}
  /\ \A p \in ProxyThread : ppc[p] # "admin"
  /\ \A a \in Admin : astate[a] # "update"
\* Wrong: _proxy_lock is given up before the admin's lock is taken.
ProxyLockFree_early == \A p \in ProxyThread : ppc[p] # "towait"
ProxyLockFree == \A p \in ProxyThread : ppc[p] \notin {"towait", "typemap", "admin"}
ChanFree == chanlock = "free"

-----------------------------------------------------------------------------
Init ==
  /\ Feed!Init
  /\ groups = [g \in Group |->
       [elts |-> IF g = 0 THEN <<0>> ELSE <<>>, nxt |-> 0, mark |-> FALSE]]
  /\ nextgr = 0 /\ rmgrps = NumGroups /\ rmthrs = Cardinality(AdminThread)
  /\ astate = [a \in Admin |-> IF a = 0 THEN "live" ELSE "none"]
  /\ hasproxy = [a \in Admin |-> FALSE] /\ serial = 1
  /\ pooled \in (IF ProxyThread = {} THEN {FALSE} ELSE BOOLEAN)
  /\ pxq = <<>>
  /\ chanlock = "free" /\ phase = "open"
  /\ pc = [t \in AdminThread |-> "start"]
  /\ lo = [t \in AdminThread |-> 0] /\ hi = lo /\ ix = lo
  /\ adm = [t \in AdminThread |-> NoAdmin]
  /\ ppc = [p \in ProxyThread |-> IF pooled THEN "test" ELSE "exit"]
  /\ pxdis = [p \in ProxyThread |-> [event |-> 0, admin |-> NoAdmin]]
  /\ given = [a \in Admin |-> 0] /\ matched = given

-----------------------------------------------------------------------------
(* Suppliers announce events; consumers create admins and proxies.         *)

\* The suppliers' threads test _shutmedown without a lock before they insert; any
\* number of them may have passed the test when destroy sets it, so events still
\* come in until the queue is finished.
Announce ==
  /\ Feed!Publish
  /\ UNCHANGED <<groups, mvars, avars, pooled, pxq, cvars, tvars, pvars, hvars>>

\* new_for_consumers, under the channel's lock.
NewForConsumers ==
  /\ ChanFree /\ ~shutmedown
  /\ serial < MaxAdmins /\ GroupFree(GroupOf(serial))
  /\ serial' = serial + 1
  /\ astate' = [astate EXCEPT ![serial] = "live"]
  /\ groups' = [groups EXCEPT ![GroupOf(serial)] = Insert(@, serial)]
  /\ UNCHANGED <<fvars, mvars, hasproxy, pooled, pxq, cvars, tvars, pvars, hvars>>

\* The admin gets its first proxy, which it keeps.
ObtainProxy(a) ==
  /\ astate[a] = "live" /\ ~hasproxy[a] /\ ~shutmedown
  /\ hasproxy' = [hasproxy EXCEPT ![a] = TRUE]
  /\ UNCHANGED <<fvars, groups, mvars, astate, serial, pooled, pxq, cvars>>
  /\ UNCHANGED <<tvars, pvars, hvars>>

-----------------------------------------------------------------------------
(* A client, or the collector of unused objects, destroys an admin.        *)

Becomes(a, s) ==
  /\ astate' = [astate EXCEPT ![a] = s]
  /\ UNCHANGED <<fvars, mvars, serial, pooled, pxq, phase, tvars, pvars, hvars>>

\* _disposed is set; the default admin cannot be destroyed.
AdminDestroy(a) ==
  /\ a # 0 /\ astate[a] = "live" /\ Becomes(a, "disposing")
  /\ UNCHANGED <<groups, hasproxy, chanlock>>

\* unregister: nothing is removed once the channel is being shut down ...
UnregisterShut(a) ==
  /\ astate[a] = "disposing" /\ ChanFree /\ shutmedown
  /\ Becomes(a, "unregistered")
  /\ UNCHANGED <<groups, hasproxy, chanlock>>

\* ... else the admin leaves its group, under the channel's and then the
\* group's lock.
UnregisterBegin(a) ==
  /\ astate[a] = "disposing" /\ ChanFree /\ ~shutmedown
  /\ Becomes(a, "leaving") /\ chanlock' = "client"
  /\ UNCHANGED <<groups, hasproxy>>

Unregister(a) ==
  /\ astate[a] = "leaving" /\ GroupFree(GroupOf(a))
  /\ Becomes(a, "unregistered") /\ chanlock' = "free"
  /\ groups' = [groups EXCEPT ![GroupOf(a)] = RemoveEntry(@, a)]
  /\ UNCHANGED hasproxy

\* The proxies are disposed of under the channel's, the type map's and the
\* admin's locks, in this order; this too is skipped during a shutdown.
SkipUpdate(a) ==
  /\ astate[a] = "unregistered" /\ ChanFree /\ shutmedown
  /\ Becomes(a, "cleared") /\ UNCHANGED <<groups, hasproxy, chanlock>>

UpdateBegin(a) ==
  /\ astate[a] = "unregistered" /\ ChanFree /\ ~shutmedown
  /\ Becomes(a, "updating") /\ chanlock' = "client"
  /\ UNCHANGED <<groups, hasproxy>>

UpdateTypeMap(a) ==
  /\ astate[a] = "updating" /\ TypeMapFree
  /\ Becomes(a, "update") /\ UNCHANGED <<groups, hasproxy, chanlock>>

DisposeProxies(a) ==
  /\ astate[a] = "update"
  /\ Becomes(a, "cleared") /\ chanlock' = "free"
  /\ hasproxy' = [hasproxy EXCEPT ![a] = FALSE]
  /\ UNCHANGED groups

\* The admin's oplock entry is given back and the admin is deleted.
AdminGone(a) ==
  /\ astate[a] = "cleared" /\ Becomes(a, "gone")
  /\ UNCHANGED <<groups, hasproxy, chanlock>>

DestroyAdmin(a) ==
  \/ UnregisterShut(a) \/ UnregisterBegin(a) \/ Unregister(a)
  \/ SkipUpdate(a) \/ UpdateBegin(a) \/ UpdateTypeMap(a) \/ DisposeProxies(a)
  \/ AdminGone(a)

-----------------------------------------------------------------------------
(* admin_dispatch                                                          *)

Goto(t, s) == pc' = [pc EXCEPT ![t] = s]
AdminThreadOnly == UNCHANGED <<mvars, avars, pooled, cvars, pvars>>

\* allocate_range: the thread's share of the groups.
AllocateRange(t) ==
  LET slice == rmgrps \div rmthrs IN
  /\ pc[t] = "start" /\ Goto(t, "top")
  /\ lo' = [lo EXCEPT ![t] = nextgr]
  /\ hi' = [hi EXCEPT ![t] = nextgr + slice - 1]
  /\ nextgr' = nextgr + slice /\ rmgrps' = rmgrps - slice /\ rmthrs' = rmthrs - 1
  /\ UNCHANGED <<fvars, groups, avars, pooled, pxq, cvars, ix, adm, pvars, hvars>>

\* Every test of _shutmedown on the way; locks held are released.
ShutExit(t) ==
  /\ pc[t] \in {"top", "group", "list", "queue"} /\ shutmedown /\ Goto(t, "exit")
  /\ AdminThreadOnly /\ UNCHANGED <<fvars, groups, pxq, lo, hi, ix, adm, hvars>>

CallNextEvent(t) ==
  /\ pc[t] = "top" /\ ~shutmedown /\ Goto(t, "next")
  /\ AdminThreadOnly /\ UNCHANGED <<fvars, groups, pxq, lo, hi, ix, adm, hvars>>

\* next_event returns an event, and the thread turns to its first group ...
NextEvent(t) ==
  /\ pc[t] = "next" /\ Feed!Deliver(t)
  /\ Goto(t, IF shutmedown THEN "exit" ELSE "group")
  /\ ix' = [ix EXCEPT ![t] = lo[t]]
  /\ AdminThreadOnly /\ UNCHANGED <<groups, pxq, lo, hi, adm, hvars>>

\* ... or null, since the queue has been shut down.
NextEventNull(t) ==
  /\ pc[t] = "next" /\ closed /\ Goto(t, "exit")
  /\ AdminThreadOnly /\ UNCHANGED <<fvars, groups, pxq, lo, hi, ix, adm, hvars>>

LockTypeMap(t) ==
  /\ pc[t] = "group" /\ ~shutmedown /\ TypeMapFree /\ Goto(t, "list")
  /\ AdminThreadOnly /\ UNCHANGED <<fvars, groups, pxq, lo, hi, ix, adm, hvars>>

\* With the group's lock: the next admin, which is locked while the group's
\* lock is still held, or the end of this group.
IterateGroup(t) ==
  LET l == groups[ix[t]]
      a == IterValue(l)
  IN
  /\ pc[t] = "list" /\ ~shutmedown
  /\ groups' = [groups EXCEPT ![ix[t]] = IterNext(l)]
  /\ \/ a # NoAdmin /\ adm' = [adm EXCEPT ![t] = a] /\ Goto(t, "admin")
        /\ UNCHANGED ix
     \/ a = NoAdmin /\ ix[t] < hi[t] /\ ix' = [ix EXCEPT ![t] = @ + 1]
        /\ Goto(t, "group") /\ UNCHANGED adm
     \/ a = NoAdmin /\ ix[t] = hi[t] /\ Goto(t, "top") /\ UNCHANGED <<ix, adm>>
  /\ AdminThreadOnly /\ UNCHANGED <<fvars, pxq, lo, hi, hvars>>

\* With the admin's lock.  An admin that cannot be locked, or has no proxies,
\* is passed over.  The others' CosEvent proxies get the event at once; if it
\* matches the admin's filters it is for the other proxies too.
OfferEvent(t) ==
  LET a == adm[t]  e == cursor[t] IN
  /\ pc[t] = "admin"
  /\ IF astate[a] = "gone" \/ ~hasproxy[a]
     THEN Goto(t, "group") /\ UNCHANGED hvars
     ELSE /\ given' = [given EXCEPT ![a] = e]
          /\ matched' = IF e \in Meant[a] /\ ~pooled
                        THEN [matched EXCEPT ![a] = e] ELSE matched
          /\ Goto(t, IF e \in Meant[a] /\ pooled THEN "queue" ELSE "group")
  /\ AdminThreadOnly /\ UNCHANGED <<fvars, groups, pxq, lo, hi, ix, adm>>

\* Wrong: the proxy threads are not woken.
QueueEvent_silent(t) ==
  /\ pc[t] = "queue" /\ ~shutmedown /\ ProxyLockFree
  /\ pxq' = Append(pxq, [event |-> cursor[t], admin |-> adm[t]])
  /\ Goto(t, "group")
  /\ UNCHANGED <<fvars, groups, mvars, avars, pooled, cvars>>
  /\ UNCHANGED <<lo, hi, ix, adm, pvars, hvars>>
\* use_proxy_threads, without the admin's lock.  Every insertion wakes them all.
QueueEvent(t) ==
  /\ pc[t] = "queue" /\ ~shutmedown /\ ProxyLockFree
  /\ pxq' = Append(pxq, [event |-> cursor[t], admin |-> adm[t]])
  /\ ppc' = [p \in ProxyThread |-> IF ppc[p] = "asleep" THEN "test" ELSE ppc[p]]
  /\ Goto(t, "group")
  /\ UNCHANGED <<fvars, groups, mvars, avars, pooled, cvars>>
  /\ UNCHANGED <<lo, hi, ix, adm, pxdis, hvars>>

AdminDispatch(t) ==
  \/ AllocateRange(t) \/ ShutExit(t) \/ CallNextEvent(t) \/ NextEvent(t)
  \/ NextEventNull(t) \/ LockTypeMap(t) \/ IterateGroup(t) \/ OfferEvent(t)
  \/ QueueEvent(t)

-----------------------------------------------------------------------------
(* proxy_dispatch                                                          *)

PGoto(p, s) == ppc' = [ppc EXCEPT ![p] = s]
ProxyThreadOnly == UNCHANGED <<fvars, groups, mvars, avars, pooled, cvars, tvars>>

\* With _proxy_lock: exit, go to sleep (the lock is still held), or take the
\* head of the queue.
TestQueue(p) ==
  /\ ppc[p] = "test" /\ ProxyLockFree
  /\ \/ shutmedown /\ PGoto(p, "exit") /\ UNCHANGED <<pxq, pxdis>>
     \/ ~shutmedown /\ pxq = <<>> /\ PGoto(p, "towait") /\ UNCHANGED <<pxq, pxdis>>
     \/ ~shutmedown /\ pxq # <<>> /\ PGoto(p, "typemap")
        /\ pxdis' = [pxdis EXCEPT ![p] = Head(pxq)] /\ pxq' = Tail(pxq)
  /\ ProxyThreadOnly /\ UNCHANGED hvars

WaitEmpty(p) ==
  /\ ppc[p] = "towait" /\ PGoto(p, "asleep")
  /\ ProxyThreadOnly /\ UNCHANGED <<pxq, pxdis, hvars>>

\* Still with _proxy_lock, so that no other thread gets to the same admin first.
PLockTypeMap(p) ==
  /\ ppc[p] = "typemap" /\ TypeMapFree /\ PGoto(p, "admin")
  /\ ProxyThreadOnly /\ UNCHANGED <<pxq, pxdis, hvars>>

\* With the admin's lock, if it can be had.
DispatchEvent(p) ==
  LET d == pxdis[p] IN
  /\ ppc[p] = "admin" /\ PGoto(p, "test")
  /\ matched' = IF astate[d.admin] # "gone" /\ hasproxy[d.admin]
                THEN [matched EXCEPT ![d.admin] = d.event] ELSE matched
  /\ pxdis' = [pxdis EXCEPT ![p] = [event |-> 0, admin |-> NoAdmin]]
  /\ ProxyThreadOnly /\ UNCHANGED <<pxq, given>>

ProxyDispatch(p) ==
  TestQueue(p) \/ WaitEmpty(p) \/ PLockTypeMap(p) \/ DispatchEvent(p)

-----------------------------------------------------------------------------
(* EventChannel_i::destroy                                                 *)

Destroying(from, to, lock) ==
  /\ phase = from /\ phase' = to /\ chanlock' = lock
  /\ UNCHANGED <<mvars, serial, pooled, pxq, tvars, pxdis, hvars>>

\* _shutmedown is set; then the lock is given up to wait for two other threads.
Shutdown ==
  /\ MayDestroy /\ ChanFree /\ Destroying("open", "stopping", "free")
  /\ UNCHANGED <<fvars, groups, astate, hasproxy, ppc>>

Stopped ==
  /\ ChanFree /\ Destroying("stopping", "stopped", "destroy")
  /\ UNCHANGED <<fvars, groups, astate, hasproxy, ppc>>

\* Wrong: the queue of events is not shut down.
SetFinished_not ==
  /\ Destroying("stopped", "finished", "destroy")
  /\ UNCHANGED <<fvars, groups, astate, hasproxy, ppc>>
SetFinished ==
  /\ Destroying("stopped", "finished", "destroy") /\ Feed!Close
  /\ UNCHANGED <<groups, astate, hasproxy, ppc>>

\* _proxy_empty.broadcast(), without _proxy_lock.
BroadcastEmpty ==
  /\ Destroying("finished", "joining", "destroy")
  /\ ppc' = [p \in ProxyThread |-> IF ppc[p] = "asleep" THEN "test" ELSE ppc[p]]
  /\ UNCHANGED <<fvars, groups, astate, hasproxy>>

\* ~EventChannelDispatch; the groups are deleted with their manager.
JoinThreads ==
  /\ \A t \in AdminThread : pc[t] = "exit"
  /\ \A p \in ProxyThread : ppc[p] = "exit"
  /\ Destroying("joining", "joined", "free")
  /\ groups' = [g \in Group |-> [elts |-> <<>>, nxt |-> 0, mark |-> FALSE]]
  /\ UNCHANGED <<fvars, astate, hasproxy, ppc>>

\* The admins that no client is destroying are disposed of one by one, each
\* without the channel's lock.
DisposeAdmin(a) ==
  /\ astate[a] = "live" /\ Destroying("joined", "joined", chanlock)
  /\ astate' = [astate EXCEPT ![a] = "gone"]
  /\ UNCHANGED <<fvars, groups, hasproxy, ppc>>

Destroyed ==
  /\ ChanFree /\ \A a \in Admin : astate[a] # "live"
  /\ Destroying("joined", "done", "free")
  /\ UNCHANGED <<fvars, groups, astate, hasproxy, ppc>>

DestroyChannel ==
  \/ Stopped \/ SetFinished \/ BroadcastEmpty \/ JoinThreads \/ Destroyed
  \/ \E a \in Admin : DisposeAdmin(a)

Next ==
  \/ Announce \/ NewForConsumers
  \/ \E a \in Admin : ObtainProxy(a) \/ AdminDestroy(a) \/ DestroyAdmin(a)
  \/ \E t \in AdminThread : AdminDispatch(t)
  \/ \E p \in ProxyThread : ProxyDispatch(p)
  \/ Shutdown \/ DestroyChannel

Spec == Init /\ [][Next]_vars

\* Threads run, and no lock or condition is asked for infinitely often.
Fairness ==
  /\ \A a \in Admin : WF_vars(DestroyAdmin(a))
  /\ \A t \in AdminThread : WF_vars(AdminDispatch(t))
  /\ \A p \in ProxyThread : WF_vars(ProxyDispatch(p))
  /\ WF_vars(DestroyChannel)

FairSpec == Spec /\ Fairness

-----------------------------------------------------------------------------
(* Properties                                                              *)

AdminState == {"none", "live", "disposing", "leaving", "unregistered",
               "updating", "update", "cleared", "gone"}

TypeOK ==
  /\ last \in 0..MaxEvents /\ cursor \in [AdminThread -> 0..MaxEvents]
  /\ closed \in BOOLEAN /\ pooled \in BOOLEAN
  /\ groups \in [Group -> [elts : Seq(Admin), nxt : Nat, mark : BOOLEAN]]
  /\ nextgr \in 0..NumGroups /\ rmgrps \in 0..NumGroups
  /\ rmthrs \in 0..Cardinality(AdminThread)
  /\ astate \in [Admin -> AdminState] /\ hasproxy \in [Admin -> BOOLEAN]
  /\ serial \in 1..MaxAdmins
  /\ pxq \in Seq([event : Event, admin : Admin])
  /\ chanlock \in {"free", "client", "destroy"}
  /\ phase \in {"open", "stopping", "stopped", "finished", "joining", "joined", "done"}
  /\ pc \in [AdminThread ->
       {"start", "top", "next", "group", "list", "admin", "queue", "exit"}]
  /\ lo \in [AdminThread -> Group] /\ hi \in [AdminThread -> Group]
  /\ ix \in [AdminThread -> Group] /\ adm \in [AdminThread -> Admin \cup {NoAdmin}]
  /\ ppc \in [ProxyThread -> {"test", "towait", "asleep", "typemap", "admin", "exit"}]
  /\ pxdis \in [ProxyThread ->
       [event : 0..MaxEvents, admin : Admin \cup {NoAdmin}]]
  /\ given \in [Admin -> 0..MaxEvents] /\ matched \in [Admin -> 0..MaxEvents]

\* Every group is served, and by one thread: the ranges that allocate_range
\* hands out do not overlap, and none is left when all threads have theirs
\* (ChannelDispatchProofs, for any number of groups and threads).
Served(t) == IF pc[t] = "start" THEN {} ELSE lo[t]..hi[t]
GroupsServedOnce ==
  /\ \A t, u \in AdminThread : t # u => Served(t) \cap Served(u) = {}
  /\ (\A t \in AdminThread : pc[t] # "start") =>
       Group = UNION {Served(t) : t \in AdminThread}

\* The admin that a thread takes from a group can be locked: it has not been
\* deleted, unless the channel is shutting down and unregister does nothing.
OfferedAdminExists ==
  \A t \in AdminThread : pc[t] = "admin" /\ ~shutmedown => astate[adm[t]] # "gone"

\* The admin of a queued dispatch can be locked ("Internal error: Unexpected
\* failure to grab admin lock" in proxy_dispatch).
QueuedAdminExists ==
  \A p \in ProxyThread : ppc[p] = "admin" => astate[pxdis[p].admin] # "gone"

\* Each admin sees the events it is entitled to, in order, whatever threads handle
\* them and whatever admins come and go: unfiltered for its CosEvent proxies,
\* filtered for the others.
Unfiltered == INSTANCE AdminFeed
                WITH cursor <- given, Meant <- [a \in Admin |-> Event]
Filtered   == INSTANCE AdminFeed WITH cursor <- matched
FeedSpec == Unfiltered!Spec /\ Filtered!Spec

\* A proxy thread that found the queue empty before _shutmedown was set, and went
\* to sleep after destroy's broadcast: nobody wakes it.
MissedBroadcast == phase = "joining" /\ \E p \in ProxyThread : ppc[p] = "asleep"

\* No event stays behind: an admin that has got an event gets all later ones and,
\* when no more are published, has caught up with the queue of events.
\* A meant event that went by before an admin's first one would count as left
\* behind until a later one is matched: in the run one always is.
CaughtUp(a) ==
  /\ given[a] = last
  /\ \A e \in Meant[a] \cap (1..last) : given[a] = 0 \/ e <= matched[a]
EventsArrive ==
  \A a \in Admin :
    given[a] # 0 ~> (CaughtUp(a) \/ astate[a] # "live" \/ shutmedown)

\* Destruction ends, of an admin and of the channel, unless a proxy thread has
\* missed the broadcast.
DestructionEnds ==
  /\ \A a \in Admin :
       astate[a] = "disposing" ~> (astate[a] = "gone" \/ MissedBroadcast)
  /\ shutmedown ~> (phase = "done" \/ MissedBroadcast)
=============================================================================
