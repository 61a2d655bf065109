------------------------------ MODULE ChangePool ------------------------------
(***************************************************************************)
(* How clients learn of changes: RDI_ChangePool with its threads, the      *)
(* proxies that have themselves inserted and removed, and the channel,     *)
(* whose table of event types the changes are about.  A consumer's proxy   *)
(* is told by offer_change which types are offered; a supplier's proxy by  *)
(* subscription_change, from a pool of its own of the same class.          *)
(*                                                                         *)
(* The pool is a chain of entries, one for each change and an empty one at *)
(* its end.  A proxy's node waits at the entry with the change it is to be *)
(* sent next, and is moved on to the next entry before that is done.       *)
(*                                                                         *)
(* Every section with the pool's lock, or a proxy's, is one action: the    *)
(* former is asked for under the latter, and nothing under it.  A call of  *)
(* the client is made without locks, and what its calls return travels     *)
(* likewise: when a change or a snapshot gets to it is a step of its own.  *)
(***************************************************************************)
EXTENDS Integers, Sequences, FiniteSets

CONSTANTS
  EventType, Proxy,
  Batch,         \* proxies whose disconnection leaves the pool alone
  PoolThread,    \* the threads of the pool
  Defaults,      \* subset of BOOLEAN: _oc_off is TRUE and _sc_off FALSE at first
  None,          \* the node of a thread that has none
  MaxUse,        \* bound: how often a type is offered
  MaxChanges,    \* bound: changes that the pool is given
  MaxInserts     \* bound: how often a proxy is inserted

ASSUME ChangeAssumption ==
  /\ MaxUse \in Nat /\ MaxChanges \in Nat /\ MaxInserts \in Nat
  /\ Defaults \subseteq BOOLEAN /\ Batch \subseteq Proxy
  /\ None \notin Proxy \X (1..MaxInserts)

\* The node of a proxy's i-th insertion.
Node == Proxy \X (1..MaxInserts)

VARIABLES
  evtypes,     \* _evtypes of the channel: how often each type is offered
  chan,        \* how far EventChannel_i::destroy has come
  pxstate, off, \* _pxstate, and _oc_off or _sc_off
  changes,     \* _added and _deled of the entries, those freed included
  head,        \* the number of the entry at _c_head
  nodes, at,   \* the nodes there are, and the number of the entry of each
  deled,       \* nodes with _deled set
  made,        \* how often each proxy has been inserted
  terminate,   \* _terminate
  pc, node, found, \* locals of the pool's threads
  answer,      \* the snapshot on its way to each client, if there is one
  asked, told, \* history: clients that asked for one, and what each has been told
  crossed      \* history: those that got it and a change in the wrong order

proxies == <<pxstate, off>>
chain   == <<head, nodes, at, deled, made>>
locals  == <<node, found>>
hist    == <<answer, asked, told, crossed>>
vars == <<evtypes, chan, proxies, changes, chain, terminate, pc, locals, hist>>

Init ==
  /\ evtypes = [t \in EventType |-> 0] /\ chan = "open"
  /\ pxstate = [p \in Proxy |-> "NotConnected"]
  /\ \E b \in Defaults : off = [p \in Proxy |-> b]
  /\ changes = <<>> /\ head = 1 /\ nodes = {} /\ at = [n \in Node |-> 0]
  /\ deled = {} /\ made = [p \in Proxy |-> 0] /\ terminate = FALSE
  /\ pc = [t \in PoolThread |-> "lock"]
  /\ node = [t \in PoolThread |-> None] /\ found = [t \in PoolThread |-> 0]
  /\ answer = [p \in Proxy |-> {}]
  /\ asked = {} /\ told = [p \in Proxy |-> {}] /\ crossed = {}

-----------------------------------------------------------------------------
(* The chain of entries                                                    *)

\* The number of _c_tail, where the nodes of proxies that are up to date wait.
CTail == Len(changes) + 1

\* Threads with a node: they keep the _inuse of the node and the
\* _inuseProxyCount of the entry where they found it up.
Busy == {t \in PoolThread : node[t] # None}

\* The node that is in charge of the proxy.
Valid(p) == {n \in nodes \ deled : n[1] = p}

\* Wrong: a node that a thread works on is freed.
Unfreed_unused(marked, busy) == nodes \ marked

\* What _poolGCollect leaves, when these nodes are marked and these threads busy.
Unfreed(marked, busy) == {n \in nodes : n \in marked => \E t \in busy : node[t] = n}

\* Is there anything that keeps an entry from being deleted?
Needed(k, left, busy) == (\E n \in left : at[n] = k) \/ (\E t \in busy : found[t] = k)

\* deleteHeadNoUseNode: up to the first entry that is needed, or the tail.
DeleteHeads(left, busy, tail) ==
  \E h \in head..tail :
    /\ head' = h
    /\ \A k \in head..(h - 1) : ~Needed(k, left, busy)
    /\ h < tail => Needed(h, left, busy)

\* Nodes are marked and others inserted.  Every tenth node that is marked has
\* what is marked freed; here any may.
Mark(out, in, busy) ==
  /\ deled' = deled \cup out
  /\ \/ nodes' = nodes \cup in /\ UNCHANGED head
     \/ /\ out # {} /\ nodes' = Unfreed(deled \cup out, busy) \cup in
        /\ DeleteHeads(Unfreed(deled \cup out, busy), busy, CTail)

\* _nonempty.signal()
Signal(woken) ==
  LET waiting == {t \in DOMAIN woken : woken[t] = "wait"}
  IN IF waiting = {} THEN pc' = woken
     ELSE \E t \in waiting : pc' = [woken EXCEPT ![t] = "lock"]

\* Wrong: one thread is woken where all should be.
Broadcast_signal == Signal(pc)

\* _nonempty.broadcast()
Broadcast == pc' = [t \in PoolThread |-> IF pc[t] = "wait" THEN "lock" ELSE pc[t]]

\* insert_change: recorded only if there is a proxy to be told.  Every eleventh
\* entry has those at the head deleted; here any may.
InsertChange(added, dropped) ==
  IF terminate \/ nodes \subseteq deled THEN UNCHANGED <<changes, head, pc>>
  ELSE /\ Len(changes) < MaxChanges
       /\ changes' = Append(changes, [added |-> added, deled |-> dropped])
       /\ UNCHANGED head \/ DeleteHeads(nodes, Busy, CTail + 1)
       /\ Broadcast

\* insert_proxy and remove_proxy, or their variants for the other kind.
InsertAndRemove(p, insert, remove) ==
  LET in  == IF insert THEN {<<p, made[p] + 1>>} ELSE {}
      out == IF remove THEN Valid(p) ELSE {}
  IN
  /\ insert => made[p] < MaxInserts
  /\ IF terminate THEN UNCHANGED chain
     ELSE /\ Mark(out, in, Busy)
          /\ made' = [made EXCEPT ![p] = IF insert THEN @ + 1 ELSE @]
          /\ at' = [n \in Node |-> IF n \in in THEN CTail ELSE at[n]]

-----------------------------------------------------------------------------
(* The channel and the proxies                                             *)

\* The types that are offered.
Offered == {t \in EventType : evtypes[t] > 0}

\* propagate_ochange: suppliers offer some types and withdraw others.
PropagateOchange(added, dropped) ==
  LET more == [t \in EventType |-> IF t \in added THEN evtypes[t] + 1 ELSE evtypes[t]]
      gone == {t \in dropped : more[t] = 1}
      new  == added \ Offered
  IN
  /\ chan = "open" /\ \A t \in EventType : more[t] <= MaxUse
  /\ evtypes' = [t \in EventType |->
                   IF t \in dropped /\ more[t] > 0 THEN more[t] - 1 ELSE more[t]]
  /\ IF new \cup gone = {} THEN UNCHANGED <<changes, head, pc>>
     ELSE InsertChange(new, gone)
  /\ UNCHANGED <<chan, proxies, nodes, at, deled, made, terminate, locals, hist>>

\* Calls of the proxy are accepted.
Usable(p) == pxstate[p] \in {"NotConnected", "Connected"}

\* The client connects: inserted if updates are enabled.
Connect(p) ==
  /\ pxstate[p] = "NotConnected" /\ chan # "joined"
  /\ pxstate' = [pxstate EXCEPT ![p] = "Connected"]
  /\ InsertAndRemove(p, ~off[p] /\ chan = "open", FALSE)
  /\ UNCHANGED <<evtypes, chan, off, changes, terminate, pc, locals, hist>>

\* Has the proxy been inserted already, as far as it knows?
WasOn(p) == pxstate[p] = "Connected" /\ ~off[p]

\* pxy_obtain_offered_types with updates on, for a client that makes one such call
\* at a time: the channel's lock makes one of the snapshot, which the client may
\* decline (NONE_NOW_UPDATES_ON), and the registration (_enable_updates).
EnableUpdates(p, now) ==
  /\ chan = "open" /\ Usable(p) /\ answer[p] = {}
  /\ off' = [off EXCEPT ![p] = FALSE]
  /\ IF pxstate[p] = "Connected"
     THEN /\ InsertAndRemove(p, TRUE, WasOn(p))
          /\ asked' = IF now THEN asked \cup {p} ELSE asked \ {p}
          /\ answer' = [answer EXCEPT ![p] = IF now THEN {Offered} ELSE {}]
          /\ crossed' = crossed \ {p} /\ UNCHANGED told
     ELSE UNCHANGED <<chain, hist>>
  /\ UNCHANGED <<evtypes, chan, pxstate, changes, terminate, pc, locals>>

\* The client gets the snapshot.
Answer(p) ==
  /\ \E types \in answer[p] : told' = [told EXCEPT ![p] = types]
  /\ answer' = [answer EXCEPT ![p] = {}]
  /\ UNCHANGED <<evtypes, chan, proxies, changes, chain, terminate, pc, locals>>
  /\ UNCHANGED <<asked, crossed>>

\* The same with updates off (_disable_updates).
DisableUpdates(p) ==
  /\ chan = "open" /\ Usable(p) /\ answer[p] = {}
  /\ off' = [off EXCEPT ![p] = TRUE]
  /\ InsertAndRemove(p, FALSE, WasOn(p))
  /\ UNCHANGED <<evtypes, chan, pxstate, changes, terminate, pc, locals, hist>>

\* The client disconnects, or a push to it fails, after which nothing can happen
\* here either.  A channel that is being destroyed has no pool to show: the node
\* stays then.  It stays too when a sequence push supplier's client disconnects,
\* which does no more than set _pxstate.
Leave(p) ==
  /\ Usable(p) /\ chan # "joined"
  /\ pxstate' = [pxstate EXCEPT ![p] = "Disconnected"]
  /\ \/ InsertAndRemove(p, FALSE, WasOn(p) /\ chan = "open")
     \/ p \in Batch /\ UNCHANGED chain
  /\ answer' = [answer EXCEPT ![p] = {}]
  /\ asked' = asked \ {p} /\ told' = [told EXCEPT ![p] = {}] /\ crossed' = crossed \ {p}
  /\ UNCHANGED <<evtypes, chan, off, changes, terminate, pc, locals>>

\* The proxy is disposed of, by the same call or by the collector, once no thread
\* is inside it.  _pxstate is no longer Connected then: no node is removed now.
Dispose(p) ==
  /\ pxstate[p] = "Disconnected" /\ chan # "joined"
  /\ \A t \in Busy : pc[t] \in {"call", "called"} => node[t][1] # p
  /\ pxstate' = [pxstate EXCEPT ![p] = "Disposed"]
  /\ UNCHANGED <<evtypes, chan, off, changes, chain, terminate, pc, locals, hist>>

-----------------------------------------------------------------------------
(* notify: the threads of the pool                                         *)

\* Wrong: the node goes on to the end of the chain, past the changes in between.
CSkip_tail(k) == CTail

\* _c_skip: the entry to which a node goes on.
CSkip(k) == k + 1

Available == {n \in nodes \ deled : at[n] < CTail /\ \A t \in PoolThread : node[t] # n}

\* _next_available: a node of the earliest entry that has one.
NextAvailable == {n \in Available : \A m \in Available : at[n] <= at[m]}

Lock(t) ==
  /\ pc[t] = "lock"
  /\ IF terminate \/ Available = {}
     THEN /\ pc' = [pc EXCEPT ![t] = IF terminate THEN "exit" ELSE "wait"]
          /\ UNCHANGED <<at, locals>>
     ELSE \E n \in NextAvailable :
            /\ pc' = [pc EXCEPT ![t] = "test"]
            /\ node' = [node EXCEPT ![t] = n]
            /\ found' = [found EXCEPT ![t] = at[n]]
            /\ at' = [at EXCEPT ![n] = CSkip(at[n])]
  /\ UNCHANGED <<evtypes, chan, proxies, changes, head, nodes, deled, made>>
  /\ UNCHANGED <<terminate, hist>>

\* _deled is read without the lock.
Test(t) ==
  /\ pc[t] = "test"
  /\ pc' = [pc EXCEPT ![t] = IF node[t] \in deled THEN "valid" ELSE "send"]
  /\ UNCHANGED <<evtypes, chan, proxies, changes, chain, terminate, locals, hist>>

\* What a client knows after a change.
Learnt(known, change) == (known \cup change.added) \ change.deled

\* send_offer_change, or send_subscription_change, up to the call of the client,
\* for which the proxy's lock is released.  A thread that got here for a proxy
\* disposed of since reads freed memory: it crashes, or finds no lock, as here.
Send(t) ==
  LET p == node[t][1] IN
  /\ pc[t] = "send"
  /\ pc' = [pc EXCEPT ![t] = IF WasOn(p) THEN "call" ELSE "invalid"]
  /\ UNCHANGED <<evtypes, chan, proxies, changes, chain, terminate, locals, hist>>

\* Has a client that knows its snapshot been sent a change from before it, or one
\* that waits for it a change from after it?
Crosses(t) ==
  LET p == node[t][1] IN p \in asked /\ (node[t] \in deled <=> answer[p] = {})

\* The client gets the change: perhaps more than once, as a call that has failed
\* TRANSIENT is made again, or not at all.
Receive(t) ==
  LET p == node[t][1] IN
  /\ pc[t] \in {"call", "called"}
  /\ pc' = [pc EXCEPT ![t] = "called"]
  /\ told' = IF p \in asked THEN [told EXCEPT ![p] = Learnt(@, changes[found[t]])]
             ELSE told
  /\ crossed' = IF Crosses(t) THEN crossed \cup {p} ELSE crossed
  /\ UNCHANGED <<evtypes, chan, proxies, changes, chain, terminate, locals, answer, asked>>

\* The client has answered, or the call has failed, before or after it got there.
CallReturns(t) ==
  /\ pc[t] \in {"call", "called"}
  /\ \E result \in {"valid", "invalid"} :
       /\ result = "valid" => pc[t] = "called"
       /\ pc' = [pc EXCEPT ![t] = result]
  /\ UNCHANGED <<evtypes, chan, proxies, changes, chain, terminate, locals, hist>>

\* Node and entry are released; a proxy that could not be told is marked.
Release(t) ==
  /\ pc[t] \in {"valid", "invalid"}
  /\ LET back == [pc EXCEPT ![t] = "lock"] IN
     IF pc[t] = "valid" THEN Signal(back) /\ UNCHANGED chain
     ELSE /\ pc' = back
          /\ Mark({node[t]} \ deled, {}, Busy \ {t}) /\ UNCHANGED <<at, made>>
  /\ node' = [node EXCEPT ![t] = None] /\ found' = [found EXCEPT ![t] = 0]
  /\ UNCHANGED <<evtypes, chan, proxies, changes, terminate, hist>>

Notify(t) == Lock(t) \/ Test(t) \/ Send(t) \/ CallReturns(t) \/ Release(t)

-----------------------------------------------------------------------------
(* The channel is destroyed                                                *)

Shutdown ==
  /\ chan = "open" /\ chan' = "shut"
  /\ UNCHANGED <<evtypes, proxies, changes, chain, terminate, pc, locals, hist>>

\* RDI_ChangePool::destroy wakes the threads ...
TerminatePool ==
  /\ chan = "shut" /\ ~terminate /\ terminate' = TRUE /\ Broadcast
  /\ UNCHANGED <<evtypes, chan, proxies, changes, chain, locals, hist>>

\* ... and joins them.
JoinPool ==
  /\ chan = "shut" /\ terminate /\ \A t \in PoolThread : pc[t] = "exit"
  /\ chan' = "joined"
  /\ UNCHANGED <<evtypes, proxies, changes, chain, terminate, pc, locals, hist>>

-----------------------------------------------------------------------------
Next ==
  \/ \E added \in SUBSET EventType : \E dropped \in SUBSET (EventType \ added) :
       PropagateOchange(added, dropped)
  \/ \E p \in Proxy : Connect(p) \/ DisableUpdates(p) \/ Leave(p) \/ Dispose(p)
  \/ \E p \in Proxy : \E now \in BOOLEAN : EnableUpdates(p, now)
  \/ \E p \in Proxy : Answer(p)
  \/ \E t \in PoolThread : Notify(t) \/ Receive(t)
  \/ Shutdown \/ TerminatePool \/ JoinPool

Spec == Init /\ [][Next]_vars

\* Calls return, well or not, threads go on, and so does whoever destroys the
\* channel; no client is obliged to get anything.
Fairness ==
  /\ \A t \in PoolThread : WF_vars(Notify(t))
  /\ WF_vars(TerminatePool) /\ WF_vars(JoinPool)

FairSpec == Spec /\ Fairness

-----------------------------------------------------------------------------
(* Properties                                                              *)

TypeOK ==
  /\ evtypes \in [EventType -> 0..MaxUse] /\ chan \in {"open", "shut", "joined"}
  /\ pxstate \in [Proxy -> {"NotConnected", "Connected", "Disconnected", "Disposed"}]
  /\ off \in [Proxy -> BOOLEAN]
  /\ changes \in Seq([added : SUBSET EventType, deled : SUBSET EventType])
  /\ head \in Nat /\ nodes \subseteq Node /\ at \in [Node -> Nat] /\ deled \subseteq Node
  /\ made \in [Proxy -> 0..MaxInserts] /\ terminate \in BOOLEAN
  /\ pc \in [PoolThread -> {"lock", "wait", "test", "send", "call", "called", "valid",
                            "invalid", "exit"}]
  /\ node \in [PoolThread -> Node \cup {None}] /\ found \in [PoolThread -> Nat]
  /\ answer \in [Proxy -> SUBSET SUBSET EventType]
  /\ asked \subseteq Proxy /\ told \in [Proxy -> SUBSET EventType]
  /\ crossed \subseteq Proxy

\* What a thread holds a pointer to without the lock has not been freed, neither the
\* node nor the entry with the change, and no node waits at an entry that has been.
EntriesKept ==
  /\ \A t \in Busy : node[t] \in nodes /\ found[t] \in head..Len(changes)
  /\ \A n \in nodes : at[n] \in head..CTail

\* A client that asked for a snapshot and for updates, and has got the snapshot, knows
\* what is offered as soon as its proxy's node is up to date, unless a change from
\* before the snapshot came after it, or one from after it before.
ToldRight ==
  chan = "open" =>
    \A p \in asked \ crossed : \A n \in Valid(p) :
      answer[p] = {} /\ at[n] = CTail /\ (\A t \in Busy : node[t] # n)
        => told[p] = Offered

\* "make offer_change msgs reflect only subsequent updates by removing 'this' before
\* re-inserting it" (_enable_updates): a client that has renewed its registration, and
\* got the snapshot, is sent nothing that was found for the old one. It does not hold: a
\* thread that has read _deled before the renewal goes on with the old node.
OnlySubsequent ==
  [][\A t \in PoolThread :
       LET p == node[t][1] IN
       Receive(t) /\ p \in asked /\ answer[p] = {} /\ Valid(p) # {} => node[t] \notin deled]_vars

\* "unregister this proxy -- no more offer_change msgs"
\* (_disconnect_client_and_dispose): a proxy that is disposed of has no node, ...
\* It does not hold of a sequence push supplier that left by setting _pxstate alone.
Unregistered == \A p \in Proxy : pxstate[p] = "Disposed" => Valid(p) = {}

\* ... and no thread is about to send it anything. It does not hold either: a thread
\* between the reading of _deled and the bump has no hold on the proxy.
NoMoreMessages ==
  \A t \in PoolThread : pc[t] = "send" => pxstate[node[t][1]] # "Disposed"

\* The pool keeps what ChangeFeed promises every registration.
Holders(n) == {t \in Busy : node[t] = n}
Chosen(n)  == {t \in Holders(n) : pc[t] \in {"test", "send"}}
Lost(n)    == \E t \in Holders(n) : pc[t] = "invalid"

StatusOf(n) ==
  IF made[n[1]] < n[2] THEN "none"
  ELSE IF n \notin deled THEN IF Lost(n) THEN "off" ELSE "on"
  ELSE IF \E t \in Holders(n) : pc[t] = "send" THEN "leaving" ELSE "off"

NextOf(n) ==
  IF StatusOf(n) \in {"none", "off"} THEN 0
  ELSE IF Chosen(n) # {} THEN at[n] - 1 ELSE at[n]

Status     == [n \in Node |-> StatusOf(n)]
NextChange == [n \in Node |-> NextOf(n)]
Calling    == {n \in Node : \E t \in Holders(n) : pc[t] \in {"call", "called"}}
Pool       == IF chan = "joined" THEN "gone" ELSE IF terminate THEN "closed" ELSE "open"

Feed == INSTANCE ChangeFeed WITH
          last <- Len(changes), next <- NextChange, status <- Status,
          calling <- Calling, pool <- Pool
FeedSpec     == Feed!Spec
FeedFairSpec == Feed!FairSpec
=============================================================================
