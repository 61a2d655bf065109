----------------------------- MODULE ConsumerFeed -----------------------------
(***************************************************************************)
(* What a push supplier proxy promises to its consumer, without threads,   *)
(* pools, locks, lists and timers: the events it accepted are pushed in    *)
(* the order of acceptance and in batches, none twice and none skipped but *)
(* the oldest where the limit says so, one call at a time; once the proxy  *)
(* is closed no call is begun, and it does not go during a call.           *)
(***************************************************************************)
EXTENDS Integers

CONSTANT Proxy

VARIABLES
  accepted,     \* number of events the proxy has accepted
  waiting,      \* how many of them, the last ones, wait to be pushed
  inflight,     \* the batches of the calls under way
  size, limit,  \* of a batch; of the queue, or 0 for none
  state         \* "open", "closed" or "gone"

vars == <<accepted, waiting, inflight, size, limit, state>>

Init ==
  /\ accepted = [p \in Proxy |-> 0] /\ waiting = [p \in Proxy |-> 0]
  /\ inflight = [p \in Proxy |-> {}] /\ state = [p \in Proxy |-> "open"]
  /\ size \in [Proxy -> Nat] /\ limit \in [Proxy -> Nat]

Accept(p) ==
  LET n == waiting[p] + 1 IN
  /\ state[p] = "open"
  /\ accepted' = [accepted EXCEPT ![p] = @ + 1]
  /\ waiting' = [waiting EXCEPT ![p] = IF limit[p] \in 1..n THEN limit[p] ELSE n]
  /\ UNCHANGED <<inflight, size, limit, state>>

\* The events next in turn: a full batch or, in a proxy with pacing, all there are.
Push(p) ==
  LET n == IF waiting[p] < size[p] THEN waiting[p] ELSE size[p]
      first == accepted[p] - waiting[p] + 1
  IN
  /\ state[p] = "open" /\ inflight[p] = {}
  /\ waiting' = [waiting EXCEPT ![p] = @ - n]
  /\ inflight' = [inflight EXCEPT ![p] = {[i \in 1..n |-> first + i - 1]}]
  /\ UNCHANGED <<accepted, size, limit, state>>

\* A call that failed closes the proxy.
Return(p) ==
  /\ inflight[p] # {}
  /\ inflight' = [inflight EXCEPT ![p] = {}]
  /\ \/ UNCHANGED <<waiting, state>>
     \/ /\ state[p] = "open" /\ state' = [state EXCEPT ![p] = "closed"]
        /\ waiting' = [waiting EXCEPT ![p] = 0]
  /\ UNCHANGED <<accepted, size, limit>>

Close(p) ==
  /\ state[p] = "open" /\ state' = [state EXCEPT ![p] = "closed"]
  /\ UNCHANGED <<accepted, waiting, inflight, size, limit>>

Dispose(p) ==
  /\ state[p] = "closed" /\ inflight[p] = {}
  /\ state' = [state EXCEPT ![p] = "gone"]
  /\ waiting' = [waiting EXCEPT ![p] = 0]
  /\ UNCHANGED <<accepted, inflight, size, limit>>

\* set_qos: a longer queue is not cut.
Change ==
  /\ UNCHANGED <<accepted, waiting, state, inflight>>
  /\ size' \in [Proxy -> Nat] /\ limit' \in [Proxy -> Nat]

Next ==
  \/ Change
  \/ \E p \in Proxy : Accept(p) \/ Push(p) \/ Return(p) \/ Close(p) \/ Dispose(p)
Spec == Init /\ [][Next]_vars
=============================================================================
