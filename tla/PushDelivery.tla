----------------------------- MODULE PushDelivery -----------------------------
(***************************************************************************)
(* The push supplier proxies of one channel (ProxyPushSupplier_i, the      *)
(* structured and the sequence variant) and the threads that push their    *)
(* events to the consumers: the pool of push threads RDI_NotifyConsumer    *)
(* with its list of proxies or, when the channel has no such pool, a       *)
(* worker thread for each proxy.  Dispatch threads add events; clients     *)
(* connect, suspend, resume, change settings and disconnect; the admin or  *)
(* the object collector dispose of proxies; the channel is destroyed.      *)
(* A push of one event is one of a batch of one without pacing.            *)
(*                                                                         *)
(* A section that holds a proxy's lock is one action: nobody keeps that    *)
(* lock over a call of anything else but the pool's signal.  The pool's    *)
(* lock is a variable, because a thread holds it while it asks one proxy   *)
(* after the other for events.                                             *)
(***************************************************************************)
EXTENDS Integers, SequencesExt

CONSTANTS
  Proxy,       \* push supplier proxies that may be created
  PoolThread,  \* threads of the pool, if there is one
  Pooled,      \* subset of BOOLEAN: FALSE for NumPushThreads = 0, no pool
  Kinds,       \* subset of {"any", "structured", "sequence"}
  Qos,         \* settings the clients choose from
  Others,      \* has the channel push supplier proxies besides these?
  MaxEvents,   \* bound: events accepted by all proxies
  MaxSets,     \* bound: calls of set_qos
  NoProxy      \* the null pointer in the pool's list

\* MaximumBatchSize and MaxEventsPerConsumer may be 0; paced stands for a
\* PacingInterval that is not 0.
ASSUME ProxyAssumption ==
  /\ NoProxy \notin Proxy /\ MaxEvents \in Nat /\ MaxSets \in Nat
  /\ Pooled \subseteq BOOLEAN /\ Others \in BOOLEAN
  /\ Kinds \subseteq {"any", "structured", "sequence"}
  /\ Qos \subseteq [size : Nat, paced : BOOLEAN, limit : Nat]

VARIABLES
  entries,    \* _entries: the pool's list, an entry is known by its proxy
  mylast,     \* _mylast_one: the entry looked at last
  inuse, deled, \* _inuse and _deled of every entry
  terminate,  \* _terminate
  lock,       \* the pool threads that hold the pool's _oplock: at most one
  pc, iter, node, ev,       \* locals of the pool threads
  wait,       \* pool threads whose wait_s, wait_n are not zero
  pxstate, active, queue,   \* _pxstate, _active, _ntfqueue of every proxy
  kind, qos,  \* the variant of every proxy; its *_qosprop
  due,        \* _timeout_s and _timeout_n against the clock
  registered, \* proxies their admin knows
  dis,        \* how far the disposal of a proxy has come
  wpc, wev,   \* locals of the worker threads
  chan,       \* how far EventChannel_i::destroy has come
  usePool,    \* whether the channel was given a pool, or each proxy a worker
  sets,       \* number of set_qos calls
  added       \* history: events accepted by each proxy

pool  == <<entries, mylast, inuse, deled, terminate>>
locals == <<iter, node, ev, wait>>
proxy == <<pxstate, active, queue, registered, dis>>
work  == <<wpc, wev>>
conf  == <<kind, qos, sets>>
vars  == <<pool, lock, pc, locals, proxy, conf, due, work, chan, usePool, added>>

Init ==
  /\ entries = <<>> /\ mylast = NoProxy /\ terminate = FALSE
  /\ inuse = [p \in Proxy |-> FALSE] /\ deled = [p \in Proxy |-> FALSE]
  /\ usePool \in Pooled
  /\ lock = {} /\ iter = 0 /\ wait = {}
  /\ pc = [t \in PoolThread |-> IF usePool THEN "lock" ELSE "exit"]
  /\ node = [t \in PoolThread |-> NoProxy] /\ ev = [t \in PoolThread |-> <<>>]
  /\ pxstate = [p \in Proxy |-> "none"] /\ active = [p \in Proxy |-> FALSE]
  /\ queue = [p \in Proxy |-> <<>>] /\ registered = {}
  /\ dis = [p \in Proxy |-> "no"]
  /\ wpc = [p \in Proxy |-> "none"] /\ wev = [p \in Proxy |-> <<>>]
  /\ kind \in [Proxy -> Kinds] /\ qos \in [Proxy -> Qos] /\ sets = 0
  /\ due = [p \in Proxy |-> "unset"]
  /\ chan = "open" /\ added = [p \in Proxy |-> 0]

-----------------------------------------------------------------------------
(* Helpers                                                                 *)

Pushable(p) == pxstate[p] = "Connected" /\ active[p] /\ queue[p] # <<>>

\* bsize
Size(p)  == IF kind[p] = "sequence" THEN qos[p].size ELSE 1
Paced(p) == kind[p] = "sequence" /\ qos[p].paced
Short(p) == Len(queue[p]) < Size(p)

\* has_events: a full batch, or something when the pacing interval is over.
HasEvents(p) == Pushable(p) /\ (Short(p) => Paced(p) /\ due[p] = "passed")

\* A pacing interval without a running timer starts it.
Timer(p) == IF ~Paced(p) THEN "unset" ELSE IF due[p] = "unset" THEN "later" ELSE due[p]

\* The pacing interval begins anew.
Restarted(p) == IF Paced(p) THEN "later" ELSE "unset"

\* Wrong: a batch is all there is.
Batch_all(p) == queue[p]

Batch(p) == SubSeq(queue[p], 1, IF Short(p) THEN Len(queue[p]) ELSE Size(p))

\* The batch leaves the queue.
TakeBatch(p) == queue' = [queue EXCEPT ![p] = SubSeq(@, Len(Batch(p)) + 1, Len(@))]

Pushers(p) == {t \in PoolThread : pc[t] = "push" /\ node[t] = p}

\* Who keeps the proxy's inuse counter up: a pool thread during its push, the
\* worker thread as long as it runs.  (A waiting worker counts twice.)
Users(p) == Pushers(p) \cup (IF wpc[p] \in {"none", "exit"} THEN {} ELSE {p})

\* The pool to be used by proxies and admins; null once the channel shuts down.
PushConsumer == usePool /\ chan = "open"

\* _nonempty.signal(): one waiting pool thread, if there is one, is woken.
SignalPool ==
  LET waiting == {t \in PoolThread : pc[t] \in {"wait", "timed"}}
  IN IF waiting = {} THEN UNCHANGED pc
     ELSE \E t \in waiting : pc' = [pc EXCEPT ![t] = "lock"]

\* _nonempty.broadcast()
BroadcastPool ==
  pc' = [t \in PoolThread |-> IF pc[t] \in {"wait", "timed"} THEN "lock" ELSE pc[t]]

\* Wrong: the worker is left asleep.
WakeWorker_lost(p) == UNCHANGED wpc

\* Proxy p's worker waits for events: RDI_OPLOCK_SIGNAL wakes it.
WakeWorker(p) == wpc' = [wpc EXCEPT ![p] = IF @ \in {"wait", "timed"} THEN "top" ELSE @]

\* A change of the proxy's state that allows pushing.
SignalPushThreads(p) ==
  /\ WakeWorker(p)
  /\ IF PushConsumer THEN SignalPool ELSE UNCHANGED pc

\* Wrong: nobody is told that inuse has become one.
Debump_silent(p, u) == UNCHANGED dis

\* debump by p's user u: down to one, which is the thread that disposes of the
\* proxy, the counter wakes that thread.
Debump(p, u) ==
  dis' = IF dis[p] = "one" /\ Users(p) = {u} THEN [dis EXCEPT ![p] = "woken"] ELSE dis

-----------------------------------------------------------------------------
(* The proxies, called by admins, clients and dispatch threads             *)

\* The admin creates a proxy; the pool or a worker will serve it.  A pacing
\* interval begins.
Create(p) ==
  /\ pxstate[p] = "none" /\ chan = "open" /\ lock = {}
  /\ due' = [due EXCEPT ![p] = Restarted(p)]
  /\ pxstate' = [pxstate EXCEPT ![p] = "NotConnected"]
  /\ registered' = registered \cup {p}
  /\ IF usePool THEN /\ entries' = <<p>> \o entries
                     /\ SignalPool
                     /\ UNCHANGED wpc
     ELSE wpc' = [wpc EXCEPT ![p] = "top"] /\ UNCHANGED <<entries, pc>>
  /\ UNCHANGED <<mylast, inuse, deled, terminate, lock, locals>>
  /\ UNCHANGED <<active, queue, dis, conf, wev, chan, added>>

Connect(p) ==
  /\ pxstate[p] = "NotConnected"
  /\ pxstate' = [pxstate EXCEPT ![p] = "Connected"]
  /\ active' = [active EXCEPT ![p] = TRUE]
  /\ UNCHANGED <<pool, lock, pc, locals, queue, registered, dis, conf, due>>
  /\ UNCHANGED <<work, chan, added>>

Suspend(p) ==
  /\ pxstate[p] = "Connected" /\ active[p]
  /\ active' = [active EXCEPT ![p] = FALSE]
  /\ UNCHANGED <<pool, lock, pc, locals, pxstate, queue, registered, dis>>
  /\ UNCHANGED <<conf, due, work, chan, added>>

Resume(p) ==
  /\ pxstate[p] = "Connected" /\ ~active[p]
  /\ active' = [active EXCEPT ![p] = TRUE]
  /\ SignalPushThreads(p)
  /\ UNCHANGED <<pool, lock, locals, pxstate, queue, registered, dis, conf>>
  /\ UNCHANGED <<due, wev, chan, added>>

\* A dispatch thread reaches the proxy through its admin, and is joined
\* before the pool is destroyed.  Only a connected proxy accepts the event; the
\* oldest ones go until the limit allows one more.
AddEvent(p) ==
  LET over == IF qos[p].limit = 0 \/ Len(queue[p]) < qos[p].limit THEN 0
              ELSE Len(queue[p]) - qos[p].limit + 1
  IN
  /\ p \in registered /\ chan \in {"open", "shut"}
  /\ pxstate[p] = "Connected" /\ FoldFunction(+, 0, added) < MaxEvents
  /\ added' = [added EXCEPT ![p] = @ + 1]
  /\ queue' = [queue EXCEPT ![p] = Append(SubSeq(@, over + 1, Len(@)), added'[p])]
  /\ SignalPushThreads(p)
  /\ UNCHANGED <<pool, lock, locals, pxstate, active, registered, dis, conf>>
  /\ UNCHANGED <<due, wev, chan>>

\* set_qos: nobody who waits is told.
SetQos(p) ==
  /\ pxstate[p] \notin {"none", "Disconnected"} /\ sets < MaxSets
  /\ sets' = sets + 1
  /\ \E q \in Qos : qos' = [qos EXCEPT ![p] = q]
  /\ UNCHANGED <<pool, lock, pc, locals, proxy, kind, due, work, chan, added>>

\* The clock reaches the end of p's pacing interval.
TimePasses(p) ==
  /\ due[p] = "later" /\ due' = [due EXCEPT ![p] = "passed"]
  /\ UNCHANGED <<pool, lock, pc, locals, proxy, conf, work, chan, added>>

\* Events for other proxies, of which this module knows no more, wake pool threads.
OtherSignals ==
  /\ Others /\ PushConsumer /\ SignalPool /\ pc' # pc
  /\ UNCHANGED <<pool, lock, locals, proxy, conf, due, work, chan, added>>

-----------------------------------------------------------------------------
(* The pool's list of proxies                                              *)

\* Where the cursor is in the list.
Cursor == CHOOSE i \in DOMAIN entries : entries[i] = mylast

\* What is left of the first i entries of a list when all but those in K are
\* taken out of it.
Left(list, K) ==
  LET left[i \in 0..Len(list)] ==
        IF i = 0 THEN <<>>
        ELSE IF list[i] \in K THEN Append(left[i - 1], list[i]) ELSE left[i - 1]
  IN left

\* _gcollect: entries marked as deleted that no thread uses are freed; the
\* cursor steps back to the entry before the freed one.
Gcollect(marked) ==
  LET left   == Left(entries, {q \in Proxy : inuse[q] \/ ~marked[q]})
      before == left[IF mylast = NoProxy THEN 0 ELSE Cursor]
  IN
  /\ entries' = left[Len(entries)]
  /\ mylast' = IF before = <<>> THEN NoProxy ELSE Last(before)

\* remove_proxySupplier.  _ndeleted is also updated without the lock and may be
\* wrong in both directions: any removal may or may not collect.
RemoveProxySupplier(p) ==
  IF p \in ToSet(entries) /\ ~terminate
  THEN LET marked == [deled EXCEPT ![p] = TRUE] IN
       /\ deled' = marked
       /\ Gcollect(marked) \/ UNCHANGED <<entries, mylast>>
  ELSE UNCHANGED <<entries, mylast, deled>>

\* The admin forgets the proxy, and has the pool forget it.
Unregister(p) ==
  /\ registered' = registered \ {p}
  /\ IF p \in registered /\ PushConsumer
     THEN lock = {} /\ RemoveProxySupplier(p)
     ELSE UNCHANGED <<entries, mylast, deled>>
  /\ UNCHANGED <<inuse, terminate, lock, pc, locals, pxstate, active, queue>>
  /\ UNCHANGED <<conf, due, work, chan, added>>

-----------------------------------------------------------------------------
(* Disposal of a proxy                                                     *)

\* Wrong: the admin and the pool are not told.
AwaitInuseOne_notRemoved(p) ==
  IF Users(p) = {}
  THEN dis' = [dis EXCEPT ![p] = "clean"] /\ UNCHANGED wpc
  ELSE dis' = [dis EXCEPT ![p] = "one"] /\ WakeWorker(p)

\* Wrong: the other users of the proxy are not waited for.
AwaitInuseOne_atOnce(p) ==
  /\ dis' = [dis EXCEPT ![p] = IF p \in registered THEN "remove" ELSE "clean"]
  /\ WakeWorker(p)

\* With other users than this thread the workers are woken and the thread
\* waits until inuse is one; then it turns to the admin, unless it was the
\* admin that came here.
AwaitInuseOne(p) ==
  IF Users(p) = {}
  THEN /\ dis' = [dis EXCEPT ![p] = IF p \in registered THEN "remove" ELSE "clean"]
       /\ UNCHANGED wpc
  ELSE dis' = [dis EXCEPT ![p] = "one"] /\ WakeWorker(p)

\* disconnect_sequence_push_supplier leaves the disposal to the collector and
\* the admin, and wakes nobody.
DisconnectSequence(p) ==
  /\ kind[p] = "sequence" /\ pxstate[p] \notin {"none", "Disconnected"}
  /\ chan # "destroyed"
  /\ pxstate' = [pxstate EXCEPT ![p] = "Disconnected"]
  /\ UNCHANGED <<pool, lock, pc, locals, active, queue, registered, dis, conf, due>>
  /\ UNCHANGED <<work, chan, added>>

\* disconnect_push_supplier and the structured variant, obj_gc, safe_cleanup or
\* the admin: the first that comes goes on.
Disconnect(p) ==
  /\ pxstate[p] # "none" /\ dis[p] = "no" /\ chan # "destroyed"
  /\ pxstate' = [pxstate EXCEPT ![p] = "Disconnected"]
  /\ AwaitInuseOne(p)
  /\ UNCHANGED <<pool, lock, pc, locals, active, queue, registered, conf, due>>
  /\ UNCHANGED <<wev, chan, added>>

InuseOne(p) ==
  /\ dis[p] = "woken" /\ AwaitInuseOne(p)
  /\ UNCHANGED <<pool, lock, pc, locals, pxstate, active, queue, registered>>
  /\ UNCHANGED <<conf, due, wev, chan, added>>

RemoveFromAdmin(p) ==
  /\ dis[p] = "remove" /\ Unregister(p)
  /\ dis' = [dis EXCEPT ![p] = "clean"]

\* The rest of the queue is released and the proxy's memory given up.
Dispose(p) ==
  /\ dis[p] = "clean" /\ dis' = [dis EXCEPT ![p] = "done"]
  /\ active' = [active EXCEPT ![p] = FALSE]
  /\ queue' = [queue EXCEPT ![p] = <<>>]
  /\ UNCHANGED <<pool, lock, pc, locals, pxstate, registered, conf, due, work>>
  /\ UNCHANGED <<chan, added>>

\* An admin that is destroyed unregisters its proxies, then disconnects them.
AdminRemoves(p) ==
  /\ p \in registered /\ chan = "open" /\ Unregister(p) /\ UNCHANGED dis

-----------------------------------------------------------------------------
(* notify: the threads of the pool                                         *)

\* The wait ends at the first end of a pacing interval that was met with.
Sleep(t, deadlines) ==
  /\ pc' = [pc EXCEPT ![t] = IF t \in deadlines THEN "timed" ELSE "wait"]
  /\ wait' = deadlines \ {t}

\* The outer loop's entry and the end of a wait.
Lock(t) ==
  /\ pc[t] = "lock" /\ lock = {}
  /\ \/ /\ terminate /\ pc' = [pc EXCEPT ![t] = "exit"]
        /\ UNCHANGED <<lock, iter, wait>>
     \/ /\ ~terminate /\ entries = <<>> /\ Sleep(t, wait)
        /\ UNCHANGED <<lock, iter>>
     \/ /\ ~terminate /\ entries # <<>>
        /\ pc' = [pc EXCEPT ![t] = "scan"] /\ lock' = {t} /\ iter' = 1
        /\ UNCHANGED wait
  /\ UNCHANGED <<pool, node, ev, proxy, conf, due, work, chan, added>>

TimedWake(t) ==
  /\ pc[t] = "timed" /\ pc' = [pc EXCEPT ![t] = "lock"]
  /\ UNCHANGED <<pool, lock, locals, proxy, conf, due, work, chan, added>>

\* Wrong: every search starts at the head of the list.
Wraps_atOnce == iter = 1 \/ mylast = NoProxy \/ mylast = Last(entries)

\* Does the cursor start again at the head of the list?
Wraps == mylast = NoProxy \/ mylast = Last(entries)

NextEntry ==
  IF Wraps THEN Head(entries)
  ELSE entries[Cursor + 1]

\* Does the search ask the proxy for events?
Asked(p) == ~inuse[p] /\ ~deled[p]

Available(p) == Asked(p) /\ HasEvents(p)

\* numIter < 3
Rounds == 3

\* One round of the loop in _next_available.  The list is gone through from
\* the cursor to its end, from its head to its end, and once more at its head.
\* A proxy that has less than a batch sees to its timer, and its pacing
\* interval limits the wait to come.
Scan(t) ==
  LET p == NextEntry
      i == IF Wraps THEN iter + 1 ELSE iter
      found == Available(p)
      collecting == Asked(p) /\ Pushable(p) /\ Short(p)
      deadlines == IF collecting /\ Paced(p) /\ ~found THEN wait \cup {t} ELSE wait
  IN
  /\ pc[t] = "scan" /\ mylast' = p
  /\ due' = IF collecting THEN [due EXCEPT ![p] = Timer(p)] ELSE due
  /\ \/ /\ found
        /\ inuse' = [inuse EXCEPT ![p] = TRUE]
        /\ node' = [node EXCEPT ![t] = p]
        /\ pc' = [pc EXCEPT ![t] = "test"]
        /\ lock' = {} /\ iter' = 0 /\ UNCHANGED wait
     \/ /\ ~found /\ i < Rounds
        /\ iter' = i /\ wait' = deadlines /\ UNCHANGED <<inuse, node, pc, lock>>
     \/ /\ ~found /\ i >= Rounds
        /\ Sleep(t, deadlines)
        /\ lock' = {} /\ iter' = 0 /\ UNCHANGED <<inuse, node>>
  /\ UNCHANGED <<entries, deled, terminate, ev, proxy, conf, work, chan, added>>

\* _deled is read without the lock.
Test(t) ==
  /\ pc[t] = "test"
  /\ pc' = [pc EXCEPT ![t] = IF deled[node[t]] THEN "reset" ELSE "call"]
  /\ UNCHANGED <<pool, lock, locals, proxy, conf, due, work, chan, added>>

\* push_event without a batch to push: what the thread takes from it.  A proxy
\* disposed of throws, which nobody in this thread catches, or leaves the
\* thread's variable invalid as it was, which nobody has initialised.
Refused(p) ==
  IF dis[p] = "done" THEN IF kind[p] = "any" THEN {"abort"} ELSE {"invalid", "reset"}
  ELSE IF pxstate[p] \in {"Disconnected", "Exception"} THEN {"invalid"}
  ELSE {"reset"}

\* push_event up to the call of the consumer.
PushEvent(t) ==
  LET p == node[t] IN
  /\ pc[t] = "call"
  /\ \/ /\ dis[p] # "done" /\ HasEvents(p)
        /\ ev' = [ev EXCEPT ![t] = Batch(p)] /\ TakeBatch(p)
        /\ due' = [due EXCEPT ![p] = Restarted(p)]
        /\ pc' = [pc EXCEPT ![t] = "push"]
     \/ /\ dis[p] = "done" \/ ~HasEvents(p)
        /\ \E next \in Refused(p) : pc' = [pc EXCEPT ![t] = next]
        /\ due' = IF Pushable(p) /\ Paced(p) THEN [due EXCEPT ![p] = Timer(p)] ELSE due
        /\ UNCHANGED <<ev, queue>>
  /\ UNCHANGED <<pool, lock, iter, node, wait, pxstate, active, registered, dis>>
  /\ UNCHANGED <<conf, work, chan, added>>

\* A failed push takes the proxy out of service and drops what is queued.
AfterPush(p, failed) ==
  IF failed THEN /\ pxstate' = [pxstate EXCEPT ![p] = "Exception"]
                 /\ queue' = [queue EXCEPT ![p] = <<>>]
            ELSE UNCHANGED <<pxstate, queue>>

\* The consumer has answered, or failed to; a proxy disconnected meanwhile is
\* left alone.
PushReturns(t) ==
  LET p == node[t] IN
  /\ pc[t] = "push"
  /\ \E failed \in {FALSE, pxstate[p] = "Connected"} :
       /\ AfterPush(p, failed)
       /\ pc' = [pc EXCEPT ![t] = IF failed THEN "invalid" ELSE "reset"]
  /\ ev' = [ev EXCEPT ![t] = <<>>]
  /\ Debump(p, t)
  /\ UNCHANGED <<pool, lock, iter, node, wait, active, registered, conf, due, work>>
  /\ UNCHANGED <<chan, added>>

\* _deled, if the proxy is of no use any more, and then _inuse are written without
\* the lock.
SetDeled(t) ==
  /\ pc[t] = "invalid" /\ pc' = [pc EXCEPT ![t] = "reset"]
  /\ deled' = [deled EXCEPT ![node[t]] = TRUE]
  /\ UNCHANGED <<entries, mylast, inuse, terminate, lock, locals, proxy, conf, due>>
  /\ UNCHANGED <<work, chan, added>>

Reset(t) ==
  /\ pc[t] = "reset" /\ pc' = [pc EXCEPT ![t] = "lock"]
  /\ inuse' = [inuse EXCEPT ![node[t]] = FALSE]
  /\ node' = [node EXCEPT ![t] = NoProxy]
  /\ UNCHANGED <<entries, mylast, deled, terminate, lock, iter, ev, wait, proxy, conf>>
  /\ UNCHANGED <<due, work, chan, added>>

Notify(t) ==
  \/ Lock(t) \/ TimedWake(t) \/ Scan(t) \/ Test(t)
  \/ PushEvent(t) \/ PushReturns(t) \/ SetDeled(t) \/ Reset(t)

-----------------------------------------------------------------------------
(* _push_event: the worker thread of a proxy in a channel without pool     *)

\* What ends the inner loop while the proxy is connected.
Ready(p) ==
  /\ pxstate[p] = "Connected" /\ active[p]
  /\ Short(p) => queue[p] # <<>> /\ Paced(p) /\ due[p] = "passed"

WorkerWaits(p) ==
  /\ wpc[p] = "top"
  /\ pxstate[p] = "NotConnected" \/ (pxstate[p] = "Connected" /\ ~Ready(p))
  /\ due' = [due EXCEPT ![p] = Timer(p)]
  /\ wpc' = [wpc EXCEPT ![p] = IF queue[p] # <<>> /\ Paced(p) THEN "timed" ELSE "wait"]
  /\ UNCHANGED <<pool, lock, pc, locals, proxy, conf, wev, chan, added>>

WorkerWakes(p) ==
  /\ wpc[p] = "timed" /\ wpc' = [wpc EXCEPT ![p] = "top"]
  /\ UNCHANGED <<pool, lock, pc, locals, proxy, conf, due, wev, chan, added>>

WorkerPushes(p) ==
  /\ wpc[p] = "top" /\ Ready(p)
  /\ wev' = [wev EXCEPT ![p] = Batch(p)] /\ TakeBatch(p)
  /\ due' = [due EXCEPT ![p] = Timer(p)]
  /\ wpc' = [wpc EXCEPT ![p] = "push"]
  /\ UNCHANGED <<pool, lock, pc, locals, pxstate, active, registered, dis>>
  /\ UNCHANGED <<conf, chan, added>>

\* update_timeout
WorkerReturns(p) ==
  /\ wpc[p] = "push"
  /\ \E failed \in {FALSE, pxstate[p] = "Connected"} : AfterPush(p, failed)
  /\ wev' = [wev EXCEPT ![p] = <<>>]
  /\ due' = [due EXCEPT ![p] = Restarted(p)]
  /\ wpc' = [wpc EXCEPT ![p] = "top"]
  /\ UNCHANGED <<pool, lock, pc, locals, active, registered, dis, conf, chan>>
  /\ UNCHANGED <<added>>

\* Leaving the function gives up the bump.
WorkerExits(p) ==
  /\ wpc[p] = "top" /\ pxstate[p] \notin {"NotConnected", "Connected"}
  /\ wpc' = [wpc EXCEPT ![p] = "exit"]
  /\ Debump(p, p)
  /\ UNCHANGED <<pool, lock, pc, locals, pxstate, active, queue, registered>>
  /\ UNCHANGED <<conf, due, wev, chan, added>>

Worker(p) ==
  \/ WorkerWaits(p) \/ WorkerWakes(p) \/ WorkerPushes(p) \/ WorkerReturns(p)
  \/ WorkerExits(p)

-----------------------------------------------------------------------------
(* The channel is destroyed                                                *)

Shutdown ==
  /\ chan = "open" /\ chan' = "shut"
  /\ UNCHANGED <<pool, lock, pc, locals, proxy, conf, due, work, added>>

\* RDI_NotifyConsumer::destroy wakes the threads ...
TerminatePool ==
  /\ chan = "shut" /\ usePool /\ lock = {}
  /\ chan' = "terminated" /\ terminate' = TRUE
  /\ BroadcastPool
  /\ UNCHANGED <<entries, mylast, inuse, deled, lock, locals, proxy, conf, due>>
  /\ UNCHANGED <<work, added>>

\* ... joins them and frees the list.
JoinPool ==
  /\ chan = "terminated" \/ (chan = "shut" /\ ~usePool)
  /\ \A t \in PoolThread : pc[t] = "exit"
  /\ chan' = "joined" /\ entries' = <<>> /\ mylast' = NoProxy
  /\ UNCHANGED <<inuse, deled, terminate, lock, pc, locals, proxy, conf, due>>
  /\ UNCHANGED <<work, added>>

\* The admins drop their tables of proxies.  They skip the disconnection of
\* the proxies, because shutting_down() is true.
DestroyAdmins ==
  /\ chan = "joined" /\ chan' = "destroyed"
  /\ registered' = {}
  /\ UNCHANGED <<pool, lock, pc, locals, pxstate, active, queue, dis, conf>>
  /\ UNCHANGED <<due, work, added>>

-----------------------------------------------------------------------------
\* An exception nobody catches ends the process.
Aborted == \E t \in PoolThread : pc[t] = "abort"

Up(A) == ~Aborted /\ A /\ UNCHANGED usePool

Step ==
  \/ \E p \in Proxy :
       \/ Create(p) \/ Connect(p) \/ Suspend(p) \/ Resume(p) \/ AddEvent(p) \/ SetQos(p)
       \/ TimePasses(p) \/ AdminRemoves(p) \/ DisconnectSequence(p) \/ Disconnect(p)
       \/ InuseOne(p) \/ RemoveFromAdmin(p) \/ Dispose(p) \/ Worker(p)
  \/ \E t \in PoolThread : Notify(t)
  \/ OtherSignals \/ Shutdown \/ TerminatePool \/ JoinPool \/ DestroyAdmins

Next == Up(Step)

Spec == Init /\ [][Next]_vars

\* Threads that compete for the pool's lock get it in the end; consumers
\* answer; the clock runs; what was begun is carried on, such as the
\* disconnection of a proxy its admin has already unregistered.
Fairness ==
  /\ \A t \in PoolThread : SF_vars(Up(Notify(t)))
  /\ \A p \in Proxy :
       /\ WF_vars(Up(Worker(p))) /\ WF_vars(Up(TimePasses(p)))
       /\ WF_vars(Up(p \notin registered /\ Disconnect(p)))
       /\ SF_vars(Up(InuseOne(p) \/ RemoveFromAdmin(p) \/ Dispose(p)))
  /\ SF_vars(Up(TerminatePool \/ JoinPool \/ DestroyAdmins))

FairSpec == Spec /\ Fairness

-----------------------------------------------------------------------------
(* Properties                                                              *)

TypeOK ==
  /\ entries \in Seq(Proxy) /\ mylast \in Proxy \cup {NoProxy}
  /\ inuse \in [Proxy -> BOOLEAN] /\ deled \in [Proxy -> BOOLEAN]
  /\ terminate \in BOOLEAN /\ lock \subseteq PoolThread /\ iter \in 0..2
  /\ wait \subseteq PoolThread
  /\ pc \in [PoolThread -> {"lock", "scan", "wait", "timed", "test", "call", "push",
                           "invalid", "reset", "exit", "abort"}]
  /\ node \in [PoolThread -> Proxy \cup {NoProxy}]
  /\ ev \in [PoolThread -> Seq(Nat)]
  /\ pxstate \in [Proxy -> {"none", "NotConnected", "Connected", "Exception",
                           "Disconnected"}]
  /\ active \in [Proxy -> BOOLEAN] /\ queue \in [Proxy -> Seq(Nat)]
  /\ registered \subseteq Proxy
  /\ dis \in [Proxy -> {"no", "one", "woken", "remove", "clean", "done"}]
  /\ kind \in [Proxy -> Kinds] /\ qos \in [Proxy -> Qos] /\ sets \in 0..MaxSets
  /\ due \in [Proxy -> {"unset", "later", "passed"}]
  /\ wpc \in [Proxy -> {"none", "top", "wait", "timed", "push", "exit"}]
  /\ wev \in [Proxy -> Seq(Nat)]
  /\ chan \in {"open", "shut", "terminated", "joined", "destroyed"}
  /\ added \in [Proxy -> Nat]

\* A thread writes _inuse and _deled of its entry, and every search reads the
\* cursor and calls has_events of the proxies: neither entry has been freed by a
\* removal that went on at the same time, and while the channel is up no proxy
\* that is searched has been disposed of, although the pool keeps its entry.
EntriesLive ==
  /\ \A t \in PoolThread : node[t] # NoProxy => node[t] \in ToSet(entries)
  /\ mylast # NoProxy => mylast \in ToSet(entries)
  /\ chan = "open" => \A p \in ToSet(entries) : dis[p] = "done" => deled[p]

\* The proxy hands its consumer what it accepted, in order, in batches and one
\* call at a time, and is not disposed of during a call.
Inflight(p) ==
  {ev[t] : t \in Pushers(p)} \cup (IF wpc[p] = "push" THEN {wev[p]} ELSE {})

Feed == INSTANCE ConsumerFeed WITH
          accepted <- added,
          waiting <- [p \in Proxy |-> Len(queue[p])],
          inflight <- [p \in Proxy |-> Inflight(p)],
          size <- [p \in Proxy |-> Size(p)], limit <- [p \in Proxy |-> qos[p].limit],
          state <- [p \in Proxy |->
                     IF dis[p] = "done" THEN "gone"
                     ELSE IF pxstate[p] \in {"Exception", "Disconnected"} THEN "closed"
                     ELSE "open"]
FeedSpec == Feed!Spec

\* The pool threads survive: no push_event finds its proxy disposed of.
NoAbort == ~Aborted

\* What can be pushed is pushed, a full batch or whatever there is when the pacing
\* interval is over, or else the consumer suspends or leaves, or the channel goes: by
\* the proxy's worker, unless the settings change, which it is not told; or by a pool
\* that is signalled again for other proxies.  (Without more signals one event may
\* stay: the signal can pass between search and wait.)
Deliverable(p) == Pushable(p) /\ (Short(p) => Paced(p))
Reminded == \/ ~usePool /\ [](sets = 0)
            \/ usePool /\ WF_vars(Up(OtherSignals))
EventsPushed ==
  Reminded => \A p \in Proxy :
    Deliverable(p) ~> (~Deliverable(p) \/ chan # "open" \/ Aborted)

\* A disposal that was begun gets done, which the caller waits for, and
\* EventChannel_i::destroy does not hang in the join of the push threads.
DestructionEnds ==
  /\ \A p \in Proxy : dis[p] # "no" ~> (dis[p] = "done" \/ Aborted)
  /\ chan = "shut" ~> (chan = "destroyed" \/ Aborted)
=============================================================================
