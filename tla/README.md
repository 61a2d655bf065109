# A TLA+ verification of omniNotify

omniNotify is a CORBA Notification Service: suppliers push structured events into
an event channel, the channel matches them against the filters of its admins and
proxies and delivers them to the consumers. This project models the parts of
the server that are concurrent, checks them with TLC on small instances and
proves the central invariants with TLAPS.

## 1. The system

| part | source | state it keeps | operations | what is hard |
|---|---|---|---|---|
| Queue of announced events | `lib/RDIEventQueue.cc` | linked list of events with reference counters, `_length`, `_numblk`, `_gcdone`, `_finish` | `insert`, `next_event`, `garbage_collect` (a thread), `gc1`, `set_finished`, destructor | the collector and the readers work without the queue's lock |
| Event channel | `lib/EventChannel_i.cc` | admins, event types with reference counts, thread pools, `_shutmedown`, `_proxy_events` | admin creation and removal, `admin_dispatch`, `proxy_dispatch`, `destroy`, consumer/supplier counts | order of `destroy`, lock release between check and use, wake-ups |
| Channel utilities | `lib/RDIChannelUtil.cc` | admin groups; pools of push, pull and change threads with lists of proxies | `insert/remove_proxy...`, `notify`, `pull`, `insert_change`, `allocate_range` | threads share lists and update some flags without the lock; signals |
| Admins | `lib/ChannelAdmin_i.cc` | proxies by kind, subscriptions, filters | `dispatch_event`, proxy creation and removal, `propagate_schange`, disposal | admin, proxy and channel locks are released and reacquired |
| Proxies | `lib/ProxySupplier.cc`, `lib/ProxyConsumer.cc`, `lib/CosEventProxy.cc` | client reference, state, local queue | connect, suspend, resume, push, pull, disconnect, `add_event` | the lock is released around calls to the client |
| Local queue of a proxy | `lib/RDINotifQueue.cc` | events by priority/arrival, limits | `insert`, `remove`, `qos_changed` | ordering and discard policies, limits |
| Oplock entries | `lib/RDIOplocks.cc`, `include/RDIOplocks.h`, `include/RDIOplocksMacros.h` | a pool of lock entries with `inuse` and `disposed` | `acquire`, `reacquire`, `wait`, `bump`, `alloc_entry`, `free_entry` | an object is deleted while others wait for its lock |
| Containers | `include/RDISafeList.h`, `include/RDIList.h`, `include/RDIHash.h`, `include/RDIBitmap.h` | lists, hash tables | insert, remove, iterate | iterators that survive removals |
| Type maps | `lib/RDITypeMap.cc`, `include/TA_RDITypeMap.*`, `include/TA_TypeMap.*` | event type to admins and filters | `update`, `lookup`, reader/writer lock | stale entries |
| Filters | `lib/Filter_i.cc`, `lib/FilterAdmin_i.cc`, `lib/RDIConstraint.cc` | constraints, callbacks | add, modify, remove, match | concurrent modification and matching |
| Constraint language | `lib/RDIRVM.cc`, `lib/RDIOpSeq.cc`, `lib/RDI*Eval*`, `lib/RDIParser_*` | code sequences | parse, compile, evaluate | a pure evaluator |
| Server | `lib/RDINotifServer.cc`, `lib/RDIConfig.cc`, `lib/RDIInteractive.cc`, `lib/CosNotification.cc` | configuration, channels, properties | validation of QoS, interactive commands | mostly parsing and validation |
| Fork additions | `include/QueueProcessor*.h`, `include/ProxyDispatcheEentProcessorPool.h`, `include/SingleThreadBarrier.h`, `include/Thread*.h` | worker queues | `insert`, `callback`, barrier | a barrier that counts callbacks |

How the parts interact. A proxy consumer gets an event from a supplier and calls
the channel's `new_structured_event`, which inserts it into the queue of announced
events. Each of `numAdminThreads` threads walks that queue with `next_event` and
offers every event to the consumer admins of its range of admin groups; an admin
that matches passes the event, by a queue of its own if there are proxy threads,
to its proxies; a proxy keeps it in a local queue until a push thread (its own or
one of the pool `RDI_NotifyConsumer`) delivers it or a pull client fetches it.
Everything that holds an event counts a reference; an event with a single
reference, the queue's, is garbage. Proxies, admins and the channel each have an
oplock, and their handlers release locks around calls to clients.

What makes the parts correct: every consumer connected in time gets every matching
event, at most once and in order; nothing is freed while somebody uses it; limits
mean what they say; destroying an object terminates and wakes everybody up.

## 2. Modules

### EventQueue (with EventFeed and MCEventQueue)

`EventQueue` models one `RDI_EventQueue` and everybody who uses it: the suppliers'
threads (`InsertRejected`, `InsertAccepted`), the admin dispatch threads
(`NextEvent(c)`, `AddRef(c)`, `DispatchDone(c)`), the proxies that drop references
(`DropExtra(e)`), the collector thread (`GarbageCollect`) and the thread in
`EventChannel_i::destroy` (`ChannelDestroy`). Events are numbered in the order of
insertion, so a pointer is a number and 0 the null pointer; `next`, `ref`, `newborn`
are the fields of an event, `freed` the set of those deleted. `extra` is a
ghost: how many of an event's references belong to proxies; `start` is another: the
event at which a thread entered.

Grain of atomicity: a section that holds `_oplock` from its lock to its unlock or
its wait is one action. Whatever runs without it is split: `next_event` reads
`_finish` (`CallNext`), then `_evtail` or `eprev->_next` (`LookNext`), and only if
nothing is there takes the lock (`LockNext`, `WokenNext`); the decrement of
the previous event (`DropPrev`) and the state change (`MarkEvent`) are steps of
their own; the collector's loop is one step per condition, per reference
count read (an event has its own lock) and per unlink. A reference counter of 1
cannot be raised by anybody, so test and unlink need no lock: this is what
`NeededUnlessRaced` and `PointersUnlessRaced` check.

With a limit, `insert` drops the head of the list (`gc1`, a part of `InsertAccepted`) and may do so under
a collector that stands on it. `raced` records that it has done so during a pass: what the code does
from there on is undefined, and the model's steps after it mean nothing. So the properties of a queue with a limit,
`PointersUnlessRaced` and `NeededUnlessRaced`, speak of the time before; `nmdrop` is the code's `_nmdrop`.

`_qclean` only cuts short a timed wait and has no state in the model. `cursize` is
unsigned; its wrap-around at an empty queue is -1, which like 2^32-1 never
reaches 0 within a pass.

`EventFeed` is the abstract specification: published events, one cursor per
thread, each delivery moves a cursor by one (the first one anywhere in what is
published). `FeedSpec` and `FeedFairSpec` are the refinement with `cursor <- got`
and `closed <- finish`.

### PushDelivery (with ConsumerFeed, PushTurns, MCPushDelivery, MCPushTurns, PushDeliveryProofs)

`PushDelivery` composes the push supplier proxies (`ProxyPushSupplier_i`,
`StructuredProxyPushSupplier_i`, `SequenceProxyPushSupplier_i`) with what pushes for them:
the pool `RDI_NotifyConsumer` or, if `usePool` is false, one worker thread for each
proxy (`_push_event`). An entry of the pool's list is known by its proxy. `Create`,
`Connect`, `Suspend`, `Resume`, `SetQos`, `AddEvent` are the handlers of admin, client
and dispatch threads; `Disconnect`, `InuseOne`, `RemoveFromAdmin`, `Dispose` the steps
of `_disconnect_client_and_dispose`; `Notify(t)` a pool thread; `Worker(p)` a worker;
`Shutdown`, `TerminatePool`, `JoinPool`, `DestroyAdmins` the part of
`EventChannel_i::destroy` that matters here.

The variants differ in a few definitions. A sequence proxy pushes batches (`Size`,
`Batch`) when they are full or when its pacing interval is over (`HasEvents`, `Ready`);
the others push batches of one. `due` is `_timeout_s` and `_timeout_n` compared with the clock: not
set, still to come, passed. A search that meets a proxy with less than a batch sets the
timer and keeps the deadline in the thread's `wait_s` (`wait`: is it not zero?), which the
next sleep uses up, also when the search found another proxy first. A timed wait may
end at any time, because its deadline may be an old one; only `due` decides about a
push. The client's disconnection of a sequence proxy only marks it
(`DisconnectSequence`) and leaves the disposal to the collector or the admin. `push_event` on a
disposed proxy throws in the one variant and returns in the others, with `invalid` of
`notify` as it was, which is uninitialised at first (`Refused`). A call that the ORB reports as
TRANSIENT is made up to three times; the model takes the tries as one call: they
push the same events, in the same stretch without the lock, and only the last one's outcome counts. A consumer
that has got the events before such a failure gets them again, which `ConsumerFeed` does not see.

The pool's lock is a variable because a search holds it while it locks one proxy
after the other; `signal_push_threads` does not take it. `_deled` and `_inuse`
are tested and written without the lock, each in a step of its own (`Test`, `SetDeled`, `Reset`). The oplock's `inuse`
is not a variable but the number of users (`Users`) that bump it. `_ndeleted` is
written by several threads without a lock, so a removal collects or does not, by
choice. An exception that nobody catches in a pool thread ends the process
(`Aborted`). A queue is a sequence of event numbers, from which the oldest go at the
limit (`PullDelivery` says more about the local queue and its policies). Events for proxies outside
`Proxy` wake pool threads too (`OtherSignals`). The threads' exit
releases a worker's scope lock, as `pthread_exit` with stack unwinding does.

`ConsumerFeed` is the abstract specification: what a proxy accepted is pushed in order and
in batches, none twice, none skipped but the oldest at the limit, one call at a time; a failed call or the
disconnection closes the proxy, no call begins after that and the disposal awaits the one under way.
`PushTurns` adds an observer for the round robin.

### ChannelDispatch (with AdminFeed, MCChannelDispatch, ChannelDispatchProofs)

`ChannelDispatch` is the inside of a channel: `AdminDispatch(t)` is a thread in
`admin_dispatch`, `ProxyDispatch(p)` one in `proxy_dispatch`, with the queue
`_proxy_events` (`pxq`) between them if proxy threads are configured (`pooled`).
`NewForConsumers`, `ObtainProxy(a)` and `DestroyAdmin(a)` are clients that make
admins come and go, `DestroyChannel` the steps of `EventChannel_i::destroy`, and
`AllocateRange`, `Insert`, `RemoveEntry`, `IterNext` what the groups of admins
and their lists with a built-in iterator do.

It composes with the queue of announced events through that queue's abstract
specification: `Feed == INSTANCE EventFeed WITH Consumer <- AdminThread`.
`Announce` is `Feed!Publish`, `next_event` is `Feed!Deliver`, `set_finished` is
`Feed!Close`; that `EventQueue` implements `EventFeed` is checked and proved. Suppliers' threads test
`_shutmedown` and insert afterwards; as any number of them may be between the two, `Announce` goes on until
`set_finished`.

The locks. A section under an admin's lock does not wait, and is one action. The locks
of a group, of the type map and of the proxy queue are held while the next one is waited
for, so they follow from the places where threads can hold them (`GroupFree`, `TypeMapFree`,
`ProxyLockFree`). Only the channel's lock, which `destroy` and the clients take, is a variable.
It is given up in the first step of `destroy` (while it waits for two threads that
play no other part here), which is why admins can be unregistered, and skipped, between
the rise of `_shutmedown` and the end of the threads. Lock failure of a deleted admin is modelled
as the branch the code has for it; other outcomes of reading freed memory are not modelled.
Filters are the constant `Meant`, the events that match an admin's filters. An
admin keeps its first proxy until it is destroyed.

`AdminFeed` is the abstract specification: an admin enters the stream somewhere, and from there
on gets each event meant for it, once, in order. `ChannelDispatch` implements it twice: with all
events for an admin's CosEvent proxies, which are served on the spot (`given`), and with the filtered
ones for the others (`matched`), which go through the queue.

### Oplocks (with ObjectLife, MCOplocks)

`Oplocks` models the pool of lock entries `RDIOplocks` and the scope locks. A thread
creates an object (`AllocBegin`, `AllocPick`, `AllocTake`, `AllocNew`: `alloc_entry` with
the pool's lock and its test with and without the entry's), or calls one (`Call`,
`Acquire`: `RDI_OplockBumpLock`), releases the lock for a while (`TempRelease`,
`Reacquire`), waits on the condition (`Wait`, `WaitEnds`) and leaves (`Release`).
One thread may dispose of the object: it waits until it is alone (`InuseOneWait`; not
every class does, so the model does not insist) and its scope ends in `free_entry`
(`FreeBegin`, `FreeEntry`), which disposes of the object or defers it. The order of
the free list, the names kept for messages and the cleanup at exit are left out.

`ObjectLife` is the abstract specification, without entries: threads enter an object
not being disposed of, one at a time runs inside, and the object is deleted once it has
been disposed of and nobody is left in it.

### Matching (with FilterTypes, MCMatching, FilterProofs)

`FilterTypes` has the tables a filter keeps of the event types in its constraints
(`Filter_i.cc`): how often each is used, and the dominating ones, under which the type
map lists the filter. `UpdateEvTables` and `DropTypes` are the bodies of
`_update_ev_tables` and `_remove_constraint`, with the lists of added and removed types
they make; `NetAdd` and `NetRem` are what `notify_subscribers_i` leaves of these.

`Matching` models filters, the admins and proxies that hold them, and the type map. Each
thread carries out calls: of a filter (`AddConstraints`, `ModifyConstraints`,
`RemoveAllConstraints`), of a holder (`AddFilter`, `RemoveFilter`, `RemoveAllFilters`,
`SubscriptionChange`), or the garbage collection of a filter (`CleanupAndDispose`,
`Dispose`). Calls of a holder run under the locks of channel, type map and
holder and are one step. A call of a filter changes its tables in one step, under the filter's
lock, which is then released; the thread tells the holders in steps of their own
(`PropagateSchange`). Dispatching does not change this state: `MatchEvent` and `DispatchEvent` are
operators, which the properties compare with what the clients asked for (`Wants`). `Nested` and
`SimpleEdits` name what clients must keep to for the map to be right; the code does not see to
it, and goes wrong without them (section 3). Where the
code does nothing, neither does the model: a proxy's `remove_filter` and a filter's `destroy`
return at once, and `rem_filter_i` leaves a destroyed filter with its holders.

Left out: constraint expressions (taken to be true), the spellings `""` and `"%ALL"` of
wildcards, callbacks to clients, the types told to suppliers, the location map of
`TA_TypeMap` (for `$Region` constraints), and a filter added twice to one holder, which
a comment at `Filter_i.cc:601` rules out.

### PullDelivery (with PullFeed, MCPullDelivery, PullDeliveryProofs)

`PullDelivery` models one pull supplier proxy, of any of the three variants (`kind`), with its
local queue, the clients blocked in a pull call (`Pull(p)`, `Resume(p)`, `TimedWake(p)`), the
dispatch threads that bring events (`AddEvent`), `TryPull`, `SetQos`, and the disposal
(`Disconnect`, `InuseOne`, `Dispose`). All of it happens under the proxy's lock, which a
blocked puller gives up in its wait, so a section between two waits is one action; `Loop` is
what a puller does from one wait to the next. A sequence proxy hands out a full batch, or
what there is when the pacing timer has passed; the pullers share that timer, so the one who
sleeps on a deadline may find that another has restarted it.

The local queue of this fork is a FIFO that ignores order and discard policies
(`Insert`); a change of policy on a queue that is not empty asks `get_event` for
its first event and gets a null pointer (`GetEvent`, `QosChanged`, `crashed`). What
happens to the process afterwards is not modelled: nothing more does.

`PullFeed` is the abstract specification: accepted events are handed out in order, at most once,
in batches within the bound; only the limit discards any, the oldest first.

### AdminLifecycle (with MCAdminLifecycle, AdminLifecycleProofs)

`AdminLifecycle` is a consumer admin with its proxies, from the clients that create them
(`Create`), connect, get events (`PushBegins`, `PushEnds`: the consumer's call, made without the
proxy's lock), change its filters (`ChangeBegins`, `ChangeEnds`: in between the thread has bumped the
proxy and waits for the locks of channel and type map) and disconnect (`Disconnect`), to the destruction of the admin by its client
(`Destroy`), by the collector (`VisitEnds`) or with the channel (`DestroyAdmins`). A disposal of a
proxy goes through the steps of `_disconnect_client_and_dispose`: `Enter`, `InuseOne` (the wait
for the other users), `RemoveProxy` (the admin counts it out) and `UpdateAndDispose`. `at[t]` says
which of them thread t comes to next, `on[t]` in which proxy. The destruction of the admin
(`Unregister`, `AdminInuseOne`, `NextProxy`, `AllVisited`, `Clear`) goes through the proxies with the
locks of channel, type map and admin held; nobody else keeps one of these locks across steps, so
`Unlocked` is all there is to say of them.

`Visit` and `ObjGc` are the object collector, which notes an admin's proxies and calls them after it
has released the admin's lock; `SafeCleanup` is the operator's clean-up of proxies nobody has
connected to. `counted` and `twice` are history: the proxies the admin's destruction has counted
out, and those that counted themselves out once more.

The sequence push suppliers (`Batch`) differ: their `disconnect` only marks them, and their
disposal has the test for a second call commented out (`Guarded`).

### RVM and Constraint (with MCConstraint, FilterProofs)

`RVM` is the stack machine that evaluates the constraint of a filter on an event: one action per
group of opcodes, the stack, the program counter, `r_code` and `r_bool`. Values keep their
kind, numbers their width (`ShortBits`, `LongBits`, `LongLongBits`): a conversion keeps the low bits,
as the casts of the code do. A struct, union or sequence (`dynany`) is a record with
what the opcodes ask of it, the name and number of a union's member included; `Enums` are the enumeration
types, which `in` compares. `Demand`, `Pre` and `Effect` are the tables of stack types that the
compiler uses (`RDIEval.cc`), and `Typed` says what makes a program safe on the machine.

`Constraint` is the compiler (`RDI_Constraint` and `RDI_OpSeq`): `Gen` goes through a syntax
tree and appends operations with their static stack types, `NRequired`, `SRequired` and `BRequired`
put in conversions or change a pushed constant in place, `GenShort` compiles `and` and `or`
with a jump to a label, `Finalize` resolves the jumps. An assertion of `append` that fails (the
stack is not as the operation expects, or one of the arrays of `StackSize` types and `OpSeqSize` operations is full)
ends the compilation as `FATAL`. `Places` and `Operations` read off a tree what it needs of the two. `Means` is the reference: what an expression
means, by recursion over the tree and without stack, jumps or conversions in place.

Left out: floating point, `$curtime`, the well known components (they are pushed like any
other), opcodes the compiler never emits, and the lexer and parser. The text of a
constraint is its syntax tree.

### ChangePool (with ChangeFeed, MCChangePool, ChangePoolProofs)

`ChangePool` is one `RDI_ChangePool` with its threads (`Notify`), the proxies that register with
it and the channel whose table of event types the changes are about (`PropagateOchange`,
which inserts a change while it holds the channel's lock). The pool that tells suppliers
about subscriptions is the same class; only the defaults differ (`Defaults`). Entries are
numbered in the order of the changes, those freed included: `head` is the number of the first one left
and `CTail` that of the empty one at the end. A node is known by its proxy and the number of the
proxy's insertion, `at` is the entry it waits at, `deled` the nodes that are marked.

The sections under the pool's lock are actions: `Lock` (the search, or the wait), `Release`,
`InsertChange`, `InsertAndRemove` (what proxies call with their own lock). Between `Lock` and `Release`
a thread reads `_deled` (`Test`), locks the proxy and looks whether it is to be told (`Send`), releases that lock
again and calls the client (`Receive`, `CallReturns`) without
it. Collection happens at every tenth mark and eleventh change, but `_centryCount` is also
decremented below zero when entries are deleted; so here any mark or change may collect, or not.

What a client gets travels without locks. A change is received (`Receive`) at any time from the release of the
proxy's lock to the return of the call, more than once if the call is made again, or not at all. The snapshot
is taken in one step with the registration (`EnableUpdates`, under the channel's lock) and is then in
`answer` until the client gets it (`Answer`); a client makes one such call at a time. `asked`, `told`
and `crossed` are history: which clients asked for a snapshot with updates, what each believes to be offered,
and which of them got the snapshot and a change in the wrong order.

A proxy that is disconnected is disposed of (`Dispose`) when no thread is inside it, that is, between the bump of
`send_offer_change` and its end. A thread that is on its way there has no hold on the proxy. The sequence push
suppliers (`Batch`) may leave by setting `_pxstate` alone, and their node then stays.

`ChangeFeed` is the abstract specification: every registration is sent every change from
then on, once, in order, one at a time, and after its end at most the one that was on its way.

## 3. Runs

| run | instance | shows |
|---|---|---|
| `eq_safety` | 2 dispatch threads, 3 events, 3 calls of insert, 1 extra reference, a limit that changes between none and 1 | the list is the live events in order and `EventFeed` is implemented; until `gc1` has dropped an event during a pass of the collector no pointer dangles, and neither of the two deletes an event that a thread is entitled to or a proxy refers to |
| `eq_liveness` | 2 threads, 2 events, no references of proxies, limit changing between none and 1 | every thread gets the next event unless the queue closes, garbage is collected, `destroy` completes |

Bounds. A head becomes garbage only after a second event exists, so it takes a third insertion for `gc1` to drop
anything: at the limit of 1, after two insertions without a limit. Three events also let the collector unlink at the head and in the middle while
both threads are at different places and a further event arrives; two threads
suffice for one to be ahead of and one behind an event. The proxies refer to one event at a time (`MaxExtra`): references to two events
do not meet anywhere in the code. Threads are interchangeable, so the safety run uses their symmetry.

Fairness. Each dispatch thread, the collector, the proxies and a destroy that has
begun go on (they are threads, and the locks are only held for finite sections);
nobody is obliged to insert an event or to destroy the channel. `GarbageCollected`
assumes that no thread entered the queue late: a thread whose first call finds
`_evtail` behind earlier events never releases those, so they are never collected;
if it is the head that stays NEWBORN, nothing is collected at all. The code starts
the threads before the channel is handed out, which makes this unlikely and no more.

Seen in the model, and in no run: with a limit, `gc1` deletes an event that the collector
stands on (`RDIEventQueue.cc:327`), and `NoDanglingPointer` fails, which is why it is proved
for a queue without a limit, and checked and proved for others only until this happens (`PointersUnlessRaced`); with a limit, `_length` counts what
`gc1` has deleted, so a limited queue ends up turning events away although it is not full
(`RDIEventQueue.cc:326`); `_gcdone` is also set while the collector sleeps, so `destroy` may
delete the queue under that thread (`:171`), which `DestroyCompletes` does not object to; the collector does not stop at the first event still
needed as the comment at `:345` says, because `GC_WHOLE_EVENT_QUEUE` is defined.

| run | instance | shows |
|---|---|---|
| `push_safety` | 2 pool threads, 2 proxies of single events, 3 events | entries and cursor are not freed under a thread, no disposed proxy is searched, no proxy gets a thread twice while another one waits, `ConsumerFeed` is implemented |
| `push_liveness` | 1 proxy of each variant, 3 events, 3 settings and one change of them, a pool thread or a worker | `ConsumerFeed` is implemented with batches, pacing and limit; what can be pushed is pushed, disposal and destroy end |

Bounds. Two entries are the least that let the collector free the cursor's entry at the
head and behind it, two threads the least that compete for an entry or a wake-up, three events the
least that let one proxy come twice while another waits, and that leave a rest behind a batch of two.
Symmetry of proxies and threads is used in the safety runs only.

Seen in the model, and in no run:

- `NoAbort` fails: a proxy may be disposed of between the test of `_deled` and the call of
  `push_event` (`RDIChannelUtil.cc:755`), which then throws in a thread that catches nothing.
- The signal of `signal_push_threads` can fall between a pool thread's search and its wait
  (`RDIChannelUtil.h:245`), so `EventsPushed` is only claimed of a pool that is signalled again for
  other proxies; it does not detect this loss.
- `set_qos` tells nobody: a worker that sleeps may miss that a batch has become full or has got a
  pacing interval, so `EventsPushed` is only claimed of workers whose settings stay.
- With a `MaximumBatchSize` of 0 empty batches are pushed for ever and the events stay.
- A worker whose paced proxy is suspended with events in its queue does not sleep any more once the
  interval is over: it waits for a deadline that has passed, again and again (`ProxySupplier.cc:3138`).
- `destroy` sets `_shutmedown` first, and the admins then skip the disconnection of their proxies
  (`ChannelAdmin_i.cc:1266`), although step 5 of `destroy` is announced as destroying all of them.

Fairness. Pool threads get the pool's lock in the end (SF: it is released and taken
again), a consumer's call returns or fails, the clock runs and timed waits end, a disposal that was begun goes on. Clients
and dispatch threads owe nothing. The last part of
`EntriesLive` speaks of an open channel:
after `_shutmedown` `push_consumer()` is null, a proxy that disconnects stays in the
pool, and until the pool is destroyed a search may call it.

| run | instance | shows |
|---|---|---|
| `dispatch` | 1 admin thread, 2 proxy threads or none, 2 admins in 1 group, 2 events, destroy | `AdminFeed` is implemented while admins come and go; an admin taken from a group exists; an admin catches up with the queue; admins and the channel are destroyed in the end, unless the broadcast is missed |

Bounds. The default admin stays, the other one comes and goes while the iterator is before, at and behind it.
Two proxy threads are the least that could overtake each other, and two events the least to be
overtaken. One admin thread is enough because the type
map's lock serves one at a time and each group belongs to one thread: that is
`GroupsServedOnce`, which is proved for any number of groups and threads.

Fairness. Threads run, a waiter gets its lock or its wake-up (weak fairness of each
thread's next step; no lock is contended forever since events and admins are finite). Clients and
suppliers owe nothing, except that a destruction of an admin that was begun goes on.

Seen in the model, and in no run. A queued dispatch may name an admin that has been deleted
(`EventChannel_i.cc:1275`): `QueuedAdminExists` states the contrary and fails. `destroy` broadcasts `_proxy_empty` without
`_proxy_lock` (`EventChannel_i.cc:683`), and `_shutmedown` is raised without it: a proxy thread
between its test (`:1314`) and its wait (`:1317`) sleeps on, and `destroy` hangs in the join.
`DestructionEnds` names this state, `MissedBroadcast`, and claims the end of the destruction for
every other course of events. The type map's macros for readers pass 0, which takes the lock as a writer
does, although `RDITypeMap.h:142` explains the argument with "Use of 1 below means
read lock": dispatch threads run one after the other. `unregister` does nothing once `_shutmedown` is set
(`:815`), so an admin that a client destroys then can still be taken from its group after its
deletion, until the threads end: `OfferedAdminExists` speaks of an open channel.

| run | instance | shows |
|---|---|---|
| `oplocks_safety` | 3 objects, 3 threads, 2 entries | the invariants `RDIOplocks.h` states, none of the errors the code logs, no deadlock of opposite lock orders, `ObjectLife` is implemented |

Bounds. An entry has to be reused while threads of two former owners are late: three objects
on two entries; a user, a disposer and a creator are three threads. Objects, threads and
entries are symmetric. Objects are created once, so the state space ends: deadlock is not
checked.

Seen in the model, and not kept as a run: a deferred disposal is not carried out when the
count reaches zero, as `RDIOplocks.h:57-59` says, but by a later `alloc_entry` that reuses the
entry, if there is one.

| run | instance | shows |
|---|---|---|
| `matching_safety` | 2 threads, 2 filters (2 and 1 constraints ever), an admin, a proxy, 4 nested types, one edit per call | use counts and dominating types fit the constraints, the type map follows the filters, events go to the proxies that want them |
| `matching_destroyed` | 1 thread, 1 filter, 2 edits per call | violated: the type map lists a destroyed filter |

Bounds. Filters share an admin and a proxy, so both meet every combination of attached,
destroyed and subscribed; two constraints in one filter are what counts and revived types
need. The types nest (`*::*`, `A::*`, `A::T`) or are unrelated (`B::T`). `BeforeRaces`
ends a behaviour where a second change of a filter begins while the first is being told: from there
on nothing is promised of that filter (below). One edit per call, because with two the map goes
wrong, as the second run shows. `MCMatching` assumes that the types of the instances nest and are
listed with the wider type first (`MCAssumption`), as the theorems do that extend these results to
any instance (section 4), also after a race. The clients' calls may end: deadlock is not checked.

Seen in the model, and not kept as runs: (1) two clients that change one filter may have
their changes reach the type map in the wrong order, which leaves an entry too many or too few
for good. (2) With both `*::T` and `A::*` in a filter, an event `A::T` is found under both and
given to the proxy twice, as it is when two filters of the proxy match: the `continue` in the loops of
`dispatch_event` continues the inner loop (`ChannelAdmin_i.cc:1450`). `RightConsumers` asks whether the event is given, not how
often. (3) When `*::T` is removed, types that `A::*` dominates become dominating too.
(4) `remove_all_filters` stops with an exception at a destroyed filter, the filters before it detached
and released but still in the table. (5) `add_filter` with a destroyed filter drops the
holder's subscriptions and then fails. (6) A filter without constraints is evaluated as
true (`rdi_match`), but is listed nowhere, so its holder gets nothing.

| run | instance | shows |
|---|---|---|
| `pull_delivery` | 3 pullers, 4 events, 5 settings, 2 changes of settings, each variant of the proxy | no wake-up lost, nothing deleted under a puller, `PullFeed` is implemented, events are pulled and the disposal ends |

Bounds. `add_event` signals one waiting puller: three pullers are the least with one woken, one
asleep and one that comes in between and takes the event. Four events fill a batch of two or three
and leave a rest; the settings have every combination of pacing and limit that changes a guard, and
the empty batch (`MaximumBatchSize` 0, which the code accepts and which hands out empty
answers).

Fairness. A woken puller gets the lock, time passes, a timed wait ends, and a disposal
that has begun goes on. Clients and dispatch threads owe nothing. `PullersServed` makes no claim
for pullers of a sequence proxy whose settings have changed: `set_qos` wakes nobody, and one that
waits for a full batch without a timer stays asleep although a smaller batch would do now.

Known to be false of the code, and in no run: `NoCrash`.

| run | instance | shows |
|---|---|---|
| `lifecycle` | 3 proxies, one of them a sequence push supplier and one never connected, 2 consumers at most | the counts follow the tables up to recorded double decrements, one disposer per proxy, nobody stays connected, all destructions end or are `Stuck` |

Bounds. Two proxies are the least for one to be disconnected by its client while the admin's
destruction is at the other; the third has the second class. The channel's limit is 2, so that
`Room` refuses a creation. No sequence push supplier is among the proxies that the operator
cleans up (`Unconnected`); the theorem makes the same assumption.

Fairness. Consumers' calls return, and every thread goes on with what it has begun. Clients need
not do anything. Nothing need happen once everything is destroyed: deadlock is not checked.

The double decrement is in the code: a proxy that its client is disconnecting is counted out by the
admin's destruction (`ChannelAdmin_i.cc:1286`) and, if it comes to `remove_proxy` before the tables
are emptied, once more; `CountsFollow` says by exactly how much the counts are off.

Seen in the model, and in no run of its own:

- A deadlock. A client in `add_filter` (or `remove_filter`, `remove_all_filters`,
  `subscription_change`) of a proxy has bumped it, given up its lock and waits for the channel's
  (`ProxySupplier.cc:471`), which the thread that destroys the admin holds while it waits for the users of that
  proxy (`ProxySupplier.cc:2609`). `Stuck` describes the state; `DestructionEnds` promises that every
  destruction ends unless it is reached, and the only way to break the promise is this one.
- A sequence push supplier that the operator cleans up (`safe_cleanup`) can be disposed of a second time
  by the collector, which has noted the proxy: the commented-out guard (`ProxySupplier.cc:3345`) would have
  to be there for `OneDisposer` to hold of it.

| run | instance | shows |
|---|---|---|
| `constraint` | every operator on every pair of 23 leaves, trees of depth two and three, and large ones around the limits; 19 values of a component, or none | programs are well typed unless the constraint is too large, the machine's stack follows the compiler's types, outcomes are what the expressions mean |

Bounds. The leaves have a constant of every type of the compiler, and a component with every part,
the values one of every kind and shape. Widths of 2, 3 and 4 bits make overflows happen at once; the
stack has ten places, as in the code, and the program 40 operations (2048 in the code): sums that nest 8 to 11 deep and
chains of 5 to 8 disjunctions lie on both sides of the two limits. `Agrees` makes no claim where a number does not
fit the kind the machine computes in (`Unclear`): the code then compares what is left of the bits.
`CompilerTyped` says that the assertions fail for the constraints that need more than the limits, and for no
others. They do fail, with trees of the run: `AssertionsHold` states the contrary and is in no run. Nothing between
the parser and `append` limits a constraint such as `1+(1+(1+...)) < 2`, nested ten deep, although the assertion
(`RDIOpSeq.cc:410`) only tells the programmer to recompile; without assertions the array is overrun.
`OneCounter` says that labels are numbered one after the other; the counter is a static variable
without a lock, and with `OneCounter = FALSE` (two threads got the same number) `Agrees` fails.

| run | instance | shows |
|---|---|---|
| `changes` | 1 proxy with 2 registrations, 2 pool threads, 2 changes of one type | no node and no entry is freed in use, who asked for updates knows what is offered unless messages crossed, `ChangeFeed` with its fairness is implemented |

Bounds. Two registrations of one proxy are two nodes, so one thread can be busy with the old node while
another is with the new one; two changes let a node be at the tail, one behind and two behind, and a type
be offered and withdrawn. The proxy is a sequence push supplier, which may leave its node behind or not.
More changes or proxies exceed what TLC finishes in minutes; the theorems are for any number.

Fairness. A client's call returns, the threads go on, and so does whoever destroys the
channel. Nobody need offer anything.

Seen in the model, and in no run: three properties that the code's comments suggest fail. (1) `OnlySubsequent`. A client can be sent a change that its snapshot already reflects. A thread has
found the old node and read its `_deled`; `_enable_updates` marks it and inserts a new one "to make
offer_change msgs reflect only subsequent updates" (`ProxySupplier.cc:779`); then the thread locks
the proxy, finds it connected and enabled, and sends; or it has released that lock before (`:866`) and
its call arrives late. If the type has been withdrawn in between, the
client is left believing that it is offered. The other order is possible too: the snapshot is overtaken by the first change
after it. `ToldRight` excludes the clients to whom one of the two has happened (`crossed`), and no others.
(2) `Unregistered`: `disconnect_sequence_push_supplier` sets `_pxstate` and nothing else (`:3327`), and the disposal removes
the proxy from the pool only if it finds `_pxstate` unchanged (`:3352`), so that the node goes on pointing to a deleted proxy.
(3) `NoMoreMessages`: removal from the pool does not wait for the thread that has the node: between `_deled`
(`RDIChannelUtil.cc:1178`) and the bump (called at `:1195`) the disposal can delete the proxy under it. `EntriesKept` is about nodes and
entries, which are treated with more care.

## 4. Proofs

`EventQueueProofs` proves, for any numbers of threads, events and references:

- with any limits, `Invariance`: `Spec => [](raced \/ IInv)`, and from it `PointersSafeUnlessRaced`,
  `NeededKeptUnlessRaced` and `LengthCorrect`, each until `gc1` and a pass of the collector meet;
- for a queue without a limit (`Unlimited`, the default MaxQueueLength = 0), where they cannot meet, `TypeCorrect`, `PointersSafe`,
  `ListCorrect`, `NeededEventsKept`, and `QueueIsFeed`: `Spec => FeedSpec`, the refinement of `EventFeed`;
- `NullOnlyAtShutdown`, with any limits and whatever has happened.

`IInv` adds to the properties what makes them inductive. `RefIsCount`: a reference
counter is one for the queue, one for each thread that still owes the event
(`Owers`) and the proxies'. So a counter of 1 means that every thread is past the event
(`OnlyQueue`), and it stays so until the collector unlinks it (`ScanInv`). Since the
events from a thread's position on are all live, its `_next` leads to the very next event
(`Successor`): this carries the refinement. `gc1` needs no argument of its own: a head with a counter of 1 that is not
NEWBORN is as free of owers as what the collector finds. `FreshNext`, `EmptyQueue` and
`ExtraInQueue` say what events not yet inserted look like. The step proof
has a lemma per action or group of actions that touch the same parts.

Liveness is only model-checked.


`ChannelDispatchProofs` proves, for any numbers of threads, groups, admins and events, from
`DispatchAssumption` (there are groups, and at least one thread but not more than groups):

- `Invariance`: `Spec => []DispatchInv`, and from it `TypeCorrect`;
- `ServedOnce`: no group is without a thread and none has two;
- `OfferedExists`: the admin that a thread of an open channel is about to lock exists.

`DispatchInv` adds three parts to the types. `RangeInv`: the ranges handed out tile the groups before
`nextgr`, and there are at least as many groups left as threads without a range. That is what
makes the integer division of `allocate_range` give everybody something, and the last one
the rest (`Slice`). `ListInv`: a list holds admins of its own group, none
twice, all still registered while the channel is open, and its iterator stands on an element
(`InsertList`, `RemoveList`, `IterateList`). `ThreadInv`: from the list to the lock of the admin a thread
holds the group's lock, so `unregister` cannot pass it (`ThreadKept`).

`DispatchIsFeed` is the refinement of `AdminFeed` (`FeedSpec`), for the CosEvent proxies and for the others.
It needs a second invariant, `FeedInv` (`FeedInvariance`), which is inductive under `DispatchInv`:

- `RoundInv`: how a list's iterator relates to the thread that serves the list. An admin is one event behind
  the thread until the iterator has passed it, and then level with it (`Placed`, `Due`); a new admin is put
  where the iterator has yet to come, and a removal leaves what was passed passed (`InsertPlace`, `RemovePlace`,
  `IteratePlace`). Hence `OfferInv`: what a thread is about to offer comes next for that admin. The iterator is at the
  head again, without an end marker, when a pass is over: so it is a property of the open channel only.
- `LineInv` and `CarryInv`: the events on their way to an admin's filtered proxies, in the hand of a thread or in
  the queue between the threads, are in order, and none has been matched before. That one proxy thread
  at a time has an event in hand is what `_proxy_lock` is held for.
- `GapInv`: none is missing between those on their way, nor, while the channel is open, behind the last. A shutdown
  drops the end of that line (`ShutExit`), never a piece from the middle of it; an admin that a thread has locked
  before it is still served, so `Open` must count that thread in.

An admin without proxies misses events and must not count as fed: that it has been given none before its first
proxy, and gets none after its proxies are disposed of, is a part of `OfferInv`. That events do arrive (`EventsArrive`)
and that destruction ends is only model-checked.

`OplocksProofs` proves for any numbers of objects, threads and entries, from
`OplocksAssumption` (`None` is none of them and there are finitely many threads):

- `OplocksInvariance`: `Spec => []IInv`, with the types (`OplocksTypes`) and what the
  header promises as conclusions: `UnusedWithoutOwner`, `ErrorsImpossible`,
  `ReacquireSucceeds`, `SleepersWoken`, `NoDeadlock`, `CountsDrain`;
- `EntriesProtectObjects`: `Spec => ObjectLife!Spec` under the refinement mapping.

`IInv` has six parts. `Ownership` ties an object's pointer to the entry that points back: an
entry has one owner, or is on its way from or to the pool. `UsersFit` and
`Counts` say that `inuse` counts exactly the threads inside the object that owns the
entry, so nothing can be recycled under a thread that released the lock for a while;
`Locks` says who may hold the mutex, `Disposal` that a disposed object still owns its entry
until the last user leaves, `Pool` that a free entry has no user. None of the conclusions is
inductive without them: that `free_entry` finds no stranger, for example, rests on a
count that threads asleep on the condition or between two locks still contribute to.


`PullDeliveryProofs` proves, for any finite set of pullers, any settings and any number of
events, from `PullAssumption`: `PullTypes`, `WakeupsSuffice` (`NoLostWakeup`), `DisposedEmpty`
(`NobodyInside`) and `ImplementsPullFeed` (`FeedSpec`).

The invariant adds `Stages` to the types: who may be blocked before the connection, while the
disposal waits, and after it. `NoLostWakeup` is then inductive: a puller that goes to sleep has
found the queue empty, one that takes an event was woken or takes away an event too, and an
event that comes wakes one more, which is one more in the cardinality of the woken (`LoopSafe`,
`AddEventSafe`). The refinement rests on two facts about sequences: what `Insert` discards is what
the limit asks for (`InsertFact`), and a batch is at most the abstract one (`BatchBound`); an
empty batch is a stutter. Liveness is only model-checked.

`AdminLifecycleProofs` proves for any number of proxies, from `LifecycleAssumption`:
`LifecycleTypes`, `CountsCorrect` (`CountsFollow`), `NobodyLeft` (`NoneLeft`) and, if no
sequence push supplier is among those the operator may clean up, `OneDisposes` (`OneDisposer`).

The first three share `IInv`: `Tables` relates the states of the proxies to the admin's tables
and to whom its destruction has counted, `Places` says that whoever is in a disposal has found or
made the proxy disconnected. The counts are cardinalities, and every step that changes a table
changes them by one element. For `OneDisposes`, `Disposal` says why two threads cannot meet in one
proxy: clients come only to live proxies, the collector not while the admin is being destroyed by
somebody else (`AdminAlone` waits for it), and the two may pass the missing guard of a sequence push
supplier one after the other only. `Removal` says what a thread has achieved when it
reaches the admin: nobody pushes any more, and then the proxy is in no table.

`FilterProofs` is about both parts of a filter. For the machine it proves `StackSafety`: for every
well typed program (`Typed`), every event and every stack size, `EvalSpec => []StackTyped`. The machine
does not check its stack in a release build, so this is what keeps it within the array and keeps it
from reading a value as the wrong kind. That the static types never exceed the array is one of
the conditions of `Typed`, which the compiler's assertion is there to establish (`CompilerTyped`). The
invariant says that the stack is like the static types of the operation at `pc`, except that
below the end of a component whose part has failed only the value on top may be anything.
There is one lemma per action; `GoSafe` has what they share, and `ReplacesTop` that an operation which
takes n values and leaves one follows its row in `Effect`. That compiled programs are `Typed` is
checked, not proved: the compiler is recursive.

For the tables and the type map it proves, from `TypesAssumption` and `MatchingAssumption` and
for any filters, admins, proxies, threads, event types and constraints:

| theorem | under | establishes |
|---|---|---|
| `TablesSafety`, `MapTyped`, `SubscriptionsKept` | nothing else | the use counts are exact, every used type is under a dominating one, the map has the subscriptions and no entry is taken away that is not there |
| `CountsKept` | `Nested` | `TypesCounted`: dominating types are never comparable as well |
| `MapKept` | `Nested`, `SimpleEdits` | `MapFollows` |
| `ConsumersKept` | `Nested`, `SimpleEdits` | `RightConsumers` |

Both hypotheses are needed, and both are about clients. Without `Nested` ("`A::*`" and "`*::T`" both
in use), (2) and (3) of section 3 happen. Without `SimpleEdits` the lists of a call may
name a type both as added and as removed, which `notify_subscribers_i` takes for no change:
if `A::T` is replaced by the two types `A::T` and `*::*`, in this order, `A::T` is dropped, comes back, and is
replaced, and holders keep an entry under it.

The lemmas go from the inside out. Counts are sums over a finite set (`Uses`, and later `Listed` and
`Hits`) of which the proofs need how one element changes them (`SumTake`), when they are positive (`SumZero`)
and when at most one (`SumOne`). The calls are left folds, and `FoldSteps` turns a fold into the
sequence of the tables it goes through, so that an induction over the calls' lists is an
induction over the numbers (`SetInduction`, from the well-foundedness of `<`). For each operation of
`FilterTypes` there is a lemma that says what it does to the tables and what its two lists then say of each
type: `AddTypeStep` for a round of the loop of `_update_ev_tables`, where `Told` distinguishes types that
dominated before the call from new ones, `DropIs` for a removal, where `RevivedIs` shows that what comes back
covers what was under the dropped type. `AddAllIs`, `ModifyIs` and `RemoveAllIs` put them
together for whole calls: told to a holder with the old entries, the lists leave it with the new ones (`Faithful`).

The inductive invariant `MapInv` has five parts beside the types. `RowsOK`: each filter's tables are sound and its ids are below
the next one; `Subscribed`: the entries without a filter are the subscriptions; `Held`: who is called back
has the filter, and the other way round unless one of the holder's filters is destroyed;
`ThreadsOK`: about a filter that is not raced only one thread tells, and only those who hold it;
`Settled`: the map lists what is due and, for a holder still to be told, what is due once it has been told
(`After`). `MapFollows` alone is not inductive: a holder that has been told is up to date only because nobody else
has changed the filter since, and one that comes while others are being told finds the new tables.
A destroyed filter spoils the holders that have it and no others, which is why `Held` and `Settled` ask for
`DeadAt(h) = {}`: from `rem_filter_i`'s early return on, it stays with them for good.
`ConsumersKept` then has to show that what the map lists for an event is what the constraints admit (`AdmitIs`,
by transitivity of domination) and that looking both up decides as `Wants` does (`DispatchIs`).

`ChangePoolProofs` proves, for any proxies, threads and types and any bounds, from
`ChangeAssumption`: `ChangeTypes`, `NothingFreedInUse` (`EntriesKept`), `PoolIsFeed` (`FeedSpec`, the
safety part of `ChangeFeed`) and `ClientsToldRight` (`ToldRight`).

The inductive invariant `IInv` has four parts beside the types. `Threads`: a thread at work has a node that
exists, at the entry after the one the change is in, and no two have the same node; `Nodes`: nodes wait between
head and tail, and whatever was inserted is there or marked; `Registered`: a proxy has at most one node that is
not marked, and none if it thinks so; `Ending`: how far the destruction has come. `EntriesKept` alone is not
inductive: that a collection spares what is needed (`HeadsFact`, `MarkFact`) helps only if a thread's entry is
counted by the very thread that moves the node on, and a new node may take a place only if it is new.

The refinement needs for every registration how it stands: `Held` if a thread works on it, when the thread's
place alone decides, `Free` if nobody does. A step then concerns nobody (`Quiet`), one registration
(`OneChanges`) or, when a proxy has itself removed and inserted at once, two (`TwoChange`); all others keep
still (`OthersStill`, `SameStill`).

`ToldRight` says something only when a node has caught up. Its inductive form, `ToldInv`, says it at all times: the
changes that are still before a client's node (from `Onward`, the first that the client has not been told) turn
what the client knows into what is offered. What a list of changes turns a set into needs no recursion: for each
type the last change that mentions it decides (`Result`). So a change that is told moves from the front of that list
into what is known (`ResultFirst`), and a change recorded is one more at its end (`ResultLast`), which says exactly how
the offer moved (`PropagateFact`). The snapshot is the offer itself, with nothing before the new node; while it is still
on its way, `ToldInv` says the same of what the client will know once it has come (`WillKnow`). A
change whose call is under way has or has not been received, and may be received again: it is the first of those from
`Onward`, and to apply it once more changes nothing (`Knows`, `HeldKnows`). `ToldInv`
also needs that a node which is not marked belongs to a proxy that wants updates: `Send` never skips a change for it.
Nothing is claimed of a client in `crossed`, and `Crosses` puts one there exactly when a message comes that the argument does not allow for:
a change of a marked node after the snapshot, or one of the new node before it.

The liveness part of `ChangeFeed` is only model-checked.

`PushDeliveryProofs` proves for any proxies, pool threads, settings and numbers of events, with the
pool or with workers, from `ProxyAssumption`: `PushTypes`, `PushEntries` (`EntriesLive`), `PushIsFeed`
(`FeedSpec`) and, for the observer `PushTurns`, `PushTurnsFair` (`RoundRobin`).

The inductive invariant `IInv` has five parts beside the types. `Nodes`: a thread that has got an entry has
set its `inuse`, and no two have the same one, although `_inuse` is written without the pool's
lock. `Searching`: who searches has the lock, and the cursor is in the list. `Modes` says which threads a
channel has, `Lives` what is true of a proxy before its creation and from each stage of its disposal on;
its last part, that an entry which is not marked belongs to a proxy the admin still knows, holds in an open
channel only. `Tails`: a queue is the end of what the proxy has accepted, without gaps. `EntriesLive` alone is not
inductive: that a collection spares an entry in use helps only if `Reset` clears the `inuse` of nobody else.

A collection filters the list and moves the cursor back to the element before it that stays, or to the null pointer
(`Gcollect`). What the recursive function `Left` computes is proved by an induction over the naturals that needs
no operator as a parameter (`SetInduction`, from the well-foundedness of `<` on sets): `LeftFact` says that
the list which is left is in the old order and `GcollectFact` where the cursor ends up. For the refinement
`Tails` turns the concrete batch into the numbers that `ConsumerFeed` expects (`BatchFact`), and the limit
into its count (`AddFact`); a step changes what the feed sees of one proxy at most.

`RoundRobin` needs an order of the circular list. `Between` says which places lie between the
entry of a waiting proxy and the cursor going forward, and `Turns` that all that were passed lie there: the
search takes the first available entry behind the cursor, so it meets the waiting one before any of them
(`NextInTurn`, `TakesInTurn`). A collection keeps the order of what stays (`OrderFact`), and new entries come where
the cursor has already been (`HeadFact`).

## 5. What is left

What the project could be extended by, in the order of what matters most to a consumer.

| module | code | abstract specification, properties | runs |
|---|---|---|---|
| `LockOrder` | the order of the locks of channel, type map, admin and proxy: `ChannelAdmin_i.cc:284` against `ChannelAdmin_i.cc:660` and the dispatch threads | nobody waits in a cycle; the deadlock that `Stuck` of `AdminLifecycle` describes is one of several candidates | 3 threads, one call each |
| `PullPool` | `RDIChannelUtil.cc` pull threads, proxy pull consumers | the structure of `PushDelivery` with events going the other way | 2 threads, 2 proxies |
| `SupplierAdmin` | `ChannelAdmin_i.cc`, `ProxyConsumer.cc` | the counts and the disposal of `AdminLifecycle` for suppliers | 1 admin, 2 proxies |
| `QoS` | `CosNotification.cc` | inheritance and validation against a reference definition | bounded values |
| `QueueProcessor` | the fork's worker queues | everything inserted is processed, barrier | 2 workers |

What the modules there are leave out and could take in: `Matching` the location map of `TA_TypeMap`, the
types told to suppliers and the loop of `rdi_match` over the constraints of a filter (whose count of failed
evaluations is not reset from one constraint to the next, `Filter_i.cc:908`); `Constraint` floating
point numbers, `$curtime`, the components of well-known names and the opcodes the compiler never emits;
`ChangePool` what a thread does with a disposed proxy (it finds no lock there), clients with two calls of `obtain_offered_types` under way
at once, and the deletion of the pool under a proxy that has read `ochange_pool()` without the channel's
lock (`ProxySupplier.cc:2604`).

Only model-checked: everything about liveness, which the provers do not reach, and the two properties of
`Constraint` (`CompilerTyped`, `Agrees`), where the compiler and the reference are recursions over expressions (`RVM`, the
machine, is proved about for every well typed program).

Not modelled, and not planned: options and interactive commands (parsing and output), the lexer and
parser of the constraint language (generated), the containers used under their owners' locks, wrappers of
threads and streams, and generated stubs. PROJECT.json lists all parts with their status.
