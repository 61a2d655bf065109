--------------------------- MODULE ChangePoolProofs ---------------------------
(***************************************************************************)
(* The memory of the pool of changes, its promise to the proxies and what  *)
(* their clients come to know, for any number of proxies, registrations,   *)
(* threads, types and changes.                                             *)
(***************************************************************************)
EXTENDS ChangePool, SequenceTheorems, TLAPS

(***************************************************************************)
(* The invariant.  Threads: what a thread that works on a node knows of    *)
(* it, with or without the lock.  Nodes: where they wait, and that those   *)
(* not marked exist.  Registered: a proxy in use that thinks it has no     *)
(* node has none, and nobody has two.  Ending: how far destroy has come.            *)
(***************************************************************************)
Threads ==
  /\ \A t \in PoolThread : node[t] = None <=> pc[t] \in {"lock", "wait", "exit"}
  /\ \A t \in Busy : /\ node[t] \in nodes /\ found[t] \in head..Len(changes)
                     /\ at[node[t]] = found[t] + 1
  /\ \A t, u \in Busy : node[t] = node[u] => t = u

Nodes ==
  /\ head \in 1..CTail
  /\ \A n \in nodes : at[n] \in head..CTail
  /\ \A n \in Node : n \in nodes \cup deled => n[2] <= made[n[1]]
  /\ \A n \in Node : n[2] <= made[n[1]] => n \in nodes \cup deled

Registered ==
  /\ \A n, m \in nodes \ deled : n[1] = m[1] => n = m
  /\ chan = "open" => \A p \in Proxy : Usable(p) /\ ~WasOn(p) => Valid(p) = {}

Ending ==
  /\ chan = "open" => ~terminate
  /\ chan = "joined" => terminate /\ \A t \in PoolThread : pc[t] = "exit"

IInv == TypeOK /\ Threads /\ Nodes /\ Registered /\ Ending

-----------------------------------------------------------------------------
(* Facts about nodes and entries                                           *)

LEMMA NodeParts ==
  ASSUME NEW n \in Node
  PROVE  n[1] \in Proxy /\ n[2] \in 1..MaxInserts /\ n = <<n[1], n[2]>> /\ n # None
BY ChangeAssumption DEF Node

LEMMA NodeMade ==
  ASSUME NEW p \in Proxy, NEW i \in 1..MaxInserts
  PROVE  <<p, i>> \in Node /\ <<p, i>>[1] = p /\ <<p, i>>[2] = i
BY DEF Node

LEMMA Numbers ==
  ASSUME TypeOK
  PROVE  /\ Len(changes) \in Nat /\ CTail \in Nat /\ CTail = Len(changes) + 1 /\ head \in Nat
         /\ MaxUse \in Nat /\ MaxChanges \in Nat /\ MaxInserts \in Nat
         /\ \A n \in Node : at[n] \in Nat
         /\ \A p \in Proxy : made[p] \in 0..MaxInserts
         /\ nodes \subseteq Node /\ deled \subseteq Node
BY ChangeAssumption, LenProperties DEF TypeOK, CTail

(* Whatever is needed is still there when the entries at the head have been deleted. *)
LEMMA HeadsFact ==
  ASSUME TypeOK, NEW left, NEW busy, NEW tail \in Nat, DeleteHeads(left, busy, tail)
  PROVE  /\ head' \in head..tail
         /\ \A n \in left : at[n] \in Nat /\ at[n] >= head => at[n] >= head'
         /\ \A t \in busy : found[t] \in Nat /\ found[t] >= head => found[t] >= head'
<1>1. PICK h \in head..tail :
        /\ head' = h
        /\ \A k \in head..(h - 1) : ~Needed(k, left, busy)
  BY DEF DeleteHeads
<1>2. head \in Nat /\ h \in Nat /\ h >= head  BY <1>1 DEF TypeOK
<1>3. ASSUME NEW n \in left, at[n] \in Nat, at[n] >= head  PROVE at[n] >= h
  <2>1. at[n] < h => Needed(at[n], left, busy)  BY DEF Needed
  <2> QED  BY <1>1, <1>2, <1>3, <2>1
<1>4. ASSUME NEW t \in busy, found[t] \in Nat, found[t] >= head  PROVE found[t] >= h
  <2>1. found[t] < h => Needed(found[t], left, busy)  BY DEF Needed
  <2> QED  BY <1>1, <1>2, <1>4, <2>1
<1> QED  BY <1>1, <1>3, <1>4

(* Marking and inserting: only what is marked and not worked on is freed. *)
LEMMA MarkFact ==
  ASSUME IInv, NEW out \in SUBSET nodes, NEW in \in SUBSET Node,
         NEW busy \in SUBSET Busy, Mark(out, in, busy)
  PROVE  /\ deled' = deled \cup out
         /\ nodes' \subseteq nodes \cup in /\ in \subseteq nodes'
         /\ \A n \in nodes : n \notin deled \cup out => n \in nodes'
         /\ \A t \in busy : node[t] \in nodes'
         /\ head' \in head..CTail
         /\ \A n \in nodes' \ in : at[n] >= head'
         /\ \A t \in busy : found[t] >= head'
<1> DEFINE left == Unfreed(deled \cup out, busy)
<1>1. /\ TypeOK /\ head \in 1..CTail /\ CTail \in Nat /\ CTail = Len(changes) + 1
      /\ \A n \in nodes : at[n] \in head..CTail
      /\ \A t \in busy : node[t] \in nodes /\ found[t] \in head..Len(changes)
  BY Numbers DEF IInv, Nodes, Threads
<1>2. CASE nodes' = nodes \cup in /\ head' = head
  BY <1>1, <1>2 DEF Mark
<1>3. CASE nodes' = left \cup in /\ DeleteHeads(left, busy, CTail)
  <2>1. left \subseteq nodes /\ (\A n \in nodes : n \notin deled \cup out => n \in left)
        /\ \A t \in busy : node[t] \in left
    BY <1>1 DEF Unfreed
  <2>2. /\ head' \in head..CTail
        /\ \A n \in left : at[n] >= head'
        /\ \A t \in busy : found[t] >= head'
    <3> HIDE DEF left
    <3>1. \A n \in left : at[n] \in Nat /\ at[n] >= head  BY <1>1, <2>1
    <3>2. \A t \in busy : found[t] \in Nat /\ found[t] >= head  BY <1>1
    <3> QED  BY <1>1, <1>3, <3>1, <3>2, HeadsFact
  <2> QED  BY <1>3, <2>1, <2>2 DEF Mark
<1> QED  BY <1>2, <1>3 DEF Mark

-----------------------------------------------------------------------------
(* The steps                                                               *)

LEMMA Start == ASSUME Init PROVE IInv
<1>1. TypeOK
  <2>1. changes \in Seq([added : SUBSET EventType, deled : SUBSET EventType])
    BY EmptySeq DEF Init
  <2>2. off \in [Proxy -> BOOLEAN]
    <3>1. PICK b \in Defaults : off = [p \in Proxy |-> b]  BY DEF Init
    <3> QED  BY <3>1, ChangeAssumption
  <2>3. /\ evtypes \in [EventType -> 0..MaxUse] /\ made \in [Proxy -> 0..MaxInserts]
        /\ told \in [Proxy -> SUBSET EventType] /\ at \in [Node -> Nat]
        /\ answer \in [Proxy -> SUBSET SUBSET EventType]
        /\ found \in [PoolThread -> Nat] /\ node \in [PoolThread -> Node \cup {None}]
    BY ChangeAssumption DEF Init
  <2>4. /\ pc \in [PoolThread -> {"lock", "wait", "test", "send", "call", "called", "valid",
                                  "invalid", "exit"}]
        /\ pxstate \in [Proxy -> {"NotConnected", "Connected", "Disconnected", "Disposed"}]
    BY DEF Init
  <2>5. /\ chan = "open" /\ head = 1 /\ nodes = {} /\ deled = {} /\ terminate = FALSE
        /\ asked = {} /\ crossed = {}
    BY DEF Init
  <2> QED  BY <2>1, <2>2, <2>3, <2>4, <2>5 DEF TypeOK
<1>2. Len(changes) = 0 /\ CTail = 1 /\ head = 1  BY EmptySeq DEF Init, CTail
<1>3. Busy = {} /\ Threads  BY DEF Init, Threads, Busy
<1>4. Nodes
  <2>1. \A n \in Node : n[2] >= 1 /\ made[n[1]] = 0  BY NodeParts DEF Init
  <2> QED  BY <1>2, <2>1, NodeParts DEF Init, Nodes
<1>5. Registered /\ Ending  BY DEF Init, Registered, Ending, Valid
<1> QED  BY <1>1, <1>3, <1>4, <1>5 DEF IInv

(* A proxy has itself inserted and removed: the node it gets, those marked. *)
NewNode(p) == <<p, made[p] + 1>>
In(p, i) == IF i THEN {NewNode(p)} ELSE {}
Out(p, r) == IF r THEN Valid(p) ELSE {}

LEMMA InsertRemoveFact ==
  ASSUME IInv, NEW p \in Proxy, NEW i \in BOOLEAN, NEW r \in BOOLEAN,
         InsertAndRemove(p, i, r), ~terminate
  PROVE  /\ \A n \in In(p, i) : /\ n = NewNode(p) /\ n \in Node /\ n[1] = p
                                /\ n[2] = made[p] + 1 /\ n \notin nodes \cup deled
         /\ Out(p, r) \in SUBSET nodes /\ In(p, i) \in SUBSET Node
         /\ deled' = deled \cup Out(p, r)
         /\ nodes' \subseteq nodes \cup In(p, i) /\ In(p, i) \subseteq nodes'
         /\ \A n \in nodes : n \notin deled \cup Out(p, r) => n \in nodes'
         /\ \A t \in Busy : node[t] \in nodes'
         /\ head' \in head..CTail
         /\ \A n \in nodes' \ In(p, i) : at[n] >= head'
         /\ \A t \in Busy : found[t] >= head'
         /\ \A n \in Node : n \notin In(p, i) => at'[n] = at[n]
         /\ \A n \in In(p, i) : at'[n] = CTail
         /\ \A n \in Node : n[2] <= made'[n[1]] <=> n[2] <= made[n[1]] \/ n \in In(p, i)
         /\ at' \in [Node -> Nat] /\ made' \in [Proxy -> 0..MaxInserts]
<1> DEFINE new == NewNode(p)
           in == In(p, i)
           out == Out(p, r)
<1>1. /\ Mark(out, in, Busy) /\ (i => made[p] < MaxInserts)
      /\ made' = [made EXCEPT ![p] = IF i THEN @ + 1 ELSE @]
      /\ at' = [n \in Node |-> IF n \in in THEN CTail ELSE at[n]]
  BY DEF InsertAndRemove, In, Out, NewNode
<1>2. i => new \in Node /\ new[1] = p /\ new[2] = made[p] + 1
  <2>1. i => made[p] + 1 \in 1..MaxInserts  BY <1>1, Numbers DEF IInv
  <2> QED  BY <2>1, NodeMade DEF NewNode
<1>3. i => new \notin nodes \cup deled
  BY <1>2, Numbers DEF IInv, Nodes
<1>4. out \in SUBSET nodes /\ in \in SUBSET Node  BY <1>2 DEF Valid, In, Out
<1>5. /\ deled' = deled \cup out
      /\ nodes' \subseteq nodes \cup in /\ in \subseteq nodes'
      /\ \A n \in nodes : n \notin deled \cup out => n \in nodes'
      /\ \A t \in Busy : node[t] \in nodes'
      /\ head' \in head..CTail
      /\ \A n \in nodes' \ in : at[n] >= head'
      /\ \A t \in Busy : found[t] >= head'
  <2> HIDE DEF in, out
  <2> QED  BY <1>1, <1>4, MarkFact
<1>6. \A n \in Node : n \notin in => at'[n] = at[n]  BY <1>1
<1>7. \A n \in in : at'[n] = CTail  BY <1>1, <1>4
<1>8. ASSUME NEW n \in Node
      PROVE  n[2] <= made'[n[1]] <=> n[2] <= made[n[1]] \/ n \in in
  <2>1. n[1] \in Proxy /\ n[2] \in Nat /\ n = <<n[1], n[2]>>  BY NodeParts
  <2>2. made[p] \in Nat /\ made \in [Proxy -> 0..MaxInserts] /\ made[n[1]] \in Nat
    BY <2>1, Numbers DEF IInv, TypeOK
  <2>3. CASE n[1] # p \/ ~i
    <3>1. made'[n[1]] = made[n[1]]  BY <1>1, <2>1, <2>2, <2>3
    <3>2. n \notin in  BY <2>3 DEF In, NewNode
    <3> QED  BY <3>1, <3>2
  <2>4. CASE n[1] = p /\ i
    <3>1. made'[n[1]] = made[p] + 1  BY <1>1, <2>1, <2>2, <2>4
    <3>2. in = {<<p, made[p] + 1>>}  BY <2>4 DEF In, NewNode
    <3> HIDE DEF in
    <3>3. n \in in <=> n[2] = made[p] + 1  BY <2>1, <2>4, <3>2
    <3> QED  BY <2>1, <2>2, <2>4, <3>1, <3>3
  <2> QED  BY <2>3, <2>4
<1>9. \A n \in in : n = new /\ n \in Node /\ n[1] = p /\ n[2] = made[p] + 1
                      /\ n \notin nodes \cup deled
  BY <1>2, <1>3 DEF In
<1>10. at' \in [Node -> Nat] /\ made' \in [Proxy -> 0..MaxInserts]
  <2>1. /\ CTail \in Nat /\ (\A n \in Node : at[n] \in Nat) /\ MaxInserts \in Nat
        /\ made \in [Proxy -> 0..MaxInserts]
    BY Numbers DEF IInv, TypeOK
  <2> QED  BY <1>1, <2>1
<1> QED  BY <1>4, <1>5, <1>6, <1>7, <1>8, <1>9, <1>10

LEMMA InsertRemoveStep ==
  ASSUME IInv, NEW p \in Proxy, NEW i \in BOOLEAN, NEW r \in BOOLEAN,
         InsertAndRemove(p, i, r), i => r \/ Valid(p) = {},
         UNCHANGED <<changes, terminate, pc, locals>>
  PROVE  /\ head' \in Nat /\ nodes' \subseteq Node /\ at' \in [Node -> Nat]
         /\ deled' \subseteq Node /\ made' \in [Proxy -> 0..MaxInserts]
         /\ Threads' /\ Nodes'
         /\ \A n, m \in nodes' \ deled' : n[1] = m[1] => n = m
         /\ \A q \in Proxy : (q # p \/ ~i) /\ Valid(q) = {} => Valid(q)' = {}
         /\ r /\ ~i /\ ~terminate => Valid(p)' = {}
<1>1. Busy' = Busy /\ node' = node /\ found' = found /\ CTail' = CTail
  BY DEF Busy, locals, CTail
<1>2. CASE terminate
  <2>1. UNCHANGED chain  BY <1>2 DEF InsertAndRemove
  <2> QED
    BY <1>1, <1>2, <2>1 DEF chain, IInv, TypeOK, Threads, Nodes, Registered, Valid, Busy
<1>3. CASE ~terminate
  <2> DEFINE new == NewNode(p)
             in == In(p, i)
             out == Out(p, r)
  <2>1. \A n \in in : n = new /\ n \in Node /\ n[1] = p /\ n[2] = made[p] + 1
                       /\ n \notin nodes \cup deled
    BY <1>3, InsertRemoveFact
  <2>2. i => new \in Node /\ new[1] = p /\ new[2] = made[p] + 1  BY <2>1 DEF In
  <2>3. i => new \notin nodes \cup deled  BY <2>1 DEF In
  <2>4. out \in SUBSET nodes /\ in \in SUBSET Node  BY <1>3, InsertRemoveFact
  <2>5. /\ deled' = deled \cup out
        /\ nodes' \subseteq nodes \cup in /\ in \subseteq nodes'
        /\ \A n \in nodes : n \notin deled \cup out => n \in nodes'
        /\ \A t \in Busy : node[t] \in nodes'
        /\ head' \in head..CTail
        /\ \A n \in nodes' \ in : at[n] >= head'
        /\ \A t \in Busy : found[t] >= head'
    BY <1>3, InsertRemoveFact
  <2>6. /\ \A n \in Node : n \notin in => at'[n] = at[n]
        /\ \A n \in in : at'[n] = CTail
        /\ \A n \in Node : n[2] <= made'[n[1]] <=> n[2] <= made[n[1]] \/ n \in in
    BY <1>3, InsertRemoveFact
  <2>7. /\ head' \in Nat /\ nodes' \subseteq Node /\ at' \in [Node -> Nat]
        /\ deled' \subseteq Node /\ made' \in [Proxy -> 0..MaxInserts]
    <3>1. head \in Nat /\ CTail \in Nat /\ nodes \subseteq Node /\ deled \subseteq Node
      BY Numbers DEF IInv
    <3>2. at' \in [Node -> Nat] /\ made' \in [Proxy -> 0..MaxInserts]
      BY <1>3, InsertRemoveFact
    <3> HIDE DEF in, out
    <3> QED  BY <2>4, <2>5, <3>1, <3>2
  <2> HIDE DEF new, in, out
  <2>8. Threads'
    <3>1. \A t \in Busy : /\ node[t] \in nodes /\ found[t] \in head..Len(changes)
                          /\ at[node[t]] = found[t] + 1 /\ node[t] \notin in
      BY <2>3 DEF IInv, Threads, In, in, new
    <3>2. \A t \in Busy : at'[node[t]] = at[node[t]]
      BY <2>6, <3>1, Numbers DEF IInv
    <3>3. Len(changes) \in Nat /\ head \in Nat /\ Len(changes') = Len(changes)
      BY Numbers DEF IInv
    <3> QED  BY <1>1, <2>5, <3>1, <3>2, <3>3 DEF IInv, Threads
  <2>9. Nodes'
    <3>1. /\ head \in 1..CTail /\ CTail \in Nat /\ nodes \subseteq Node /\ deled \subseteq Node
          /\ \A n \in nodes : at[n] \in head..CTail
      BY Numbers DEF IInv, Nodes
    <3>2. head' \in 1..CTail'  BY <1>1, <2>5, <3>1
    <3>3. \A n \in nodes' : at'[n] \in head'..CTail'
      BY <1>1, <2>4, <2>5, <2>6, <3>1
    <3>4. ASSUME NEW n \in Node, n \in nodes' \cup deled'  PROVE n[2] <= made'[n[1]]
      BY <2>4, <2>5, <2>6, <3>4 DEF IInv, Nodes
    <3>5. ASSUME NEW n \in Node, n[2] <= made'[n[1]]  PROVE n \in nodes' \cup deled'
      BY <2>5, <2>6, <3>5 DEF IInv, Nodes
    <3> QED  BY <3>2, <3>3, <3>4, <3>5 DEF Nodes
  <2>10. ASSUME NEW n \in nodes' \ deled', NEW m \in nodes' \ deled', n[1] = m[1]
         PROVE  n = m
    <3>1. CASE n \in nodes /\ m \in nodes
      BY <2>5, <2>10, <3>1 DEF IInv, Registered
    <3>2. ASSUME i, NEW k \in nodes' \ deled', k # new  PROVE k[1] # p
      <4>1. k \in nodes \ deled /\ k \notin out  BY <2>5, <3>2 DEF In, in, new
      <4> QED  BY <3>2, <4>1 DEF Valid, Out, out
    <3>3. CASE n \notin nodes \/ m \notin nodes
      <4>1. i /\ (n = new \/ m = new)  BY <2>5, <3>3 DEF In, in, new
      <4> QED  BY <2>2, <2>10, <3>2, <4>1
    <3> QED  BY <3>1, <3>3
  <2>11. ASSUME NEW q \in Proxy, q # p \/ ~i, Valid(q) = {}  PROVE Valid(q)' = {}
    <3>1. \A n \in in : n[1] # q  BY <2>2, <2>11 DEF In, in, new
    <3> QED  BY <2>5, <2>11, <3>1 DEF Valid
  <2>12. r /\ ~i => Valid(p)' = {}
    BY <2>5 DEF Valid, In, Out, in, out
  <2> QED  BY <2>7, <2>8, <2>9, <2>10, <2>11, <2>12
<1> QED  BY <1>2, <1>3

PcType == {"lock", "wait", "test", "send", "call", "called", "valid", "invalid", "exit"}
PxState == {"NotConnected", "Connected", "Disconnected", "Disposed"}
Change == [added : SUBSET EventType, deled : SUBSET EventType]

(* Waking threads changes nothing else: those that wait work on no node. *)
LEMMA Woken ==
  ASSUME TypeOK, Broadcast
  PROVE  /\ pc' \in [PoolThread -> PcType]
         /\ \A t \in PoolThread : pc'[t] = pc[t] \/ (pc[t] = "wait" /\ pc'[t] = "lock")
BY DEF Broadcast, TypeOK, PcType

(* A change is recorded. *)
LEMMA ChangeStep ==
  ASSUME IInv, NEW added \in SUBSET EventType, NEW dropped \in SUBSET EventType,
         InsertChange(added, dropped), UNCHANGED <<nodes, at, deled, made, locals>>
  PROVE  /\ changes' \in Seq(Change) /\ head' \in Nat /\ pc' \in [PoolThread -> PcType]
         /\ \A t \in PoolThread : pc'[t] = pc[t] \/ (pc[t] = "wait" /\ pc'[t] = "lock")
         /\ Threads' /\ Nodes'
         /\ Len(changes') = Len(changes) \/ Len(changes') = Len(changes) + 1
<1>1. /\ TypeOK /\ Len(changes) \in Nat /\ CTail = Len(changes) + 1 /\ head \in 1..CTail
      /\ changes \in Seq(Change) /\ pc \in [PoolThread -> PcType]
      /\ Busy' = Busy /\ node' = node /\ found' = found
  BY Numbers DEF IInv, TypeOK, Nodes, Busy, locals, Change, PcType
<1>2. CASE UNCHANGED <<changes, head, pc>>
  <2>1. CTail' = CTail  BY <1>2 DEF CTail
  <2>2. Threads'  BY <1>1, <1>2 DEF IInv, Threads
  <2>3. Nodes'  BY <1>2, <2>1 DEF IInv, Nodes
  <2> QED  BY <1>1, <1>2, <2>2, <2>3
<1>3. CASE ~UNCHANGED <<changes, head, pc>>
  <2>1. /\ changes' = Append(changes, [added |-> added, deled |-> dropped])
        /\ head' = head \/ DeleteHeads(nodes, Busy, CTail + 1)
        /\ Broadcast
    BY <1>3 DEF InsertChange
  <2>2. /\ changes' \in Seq(Change) /\ Len(changes') = Len(changes) + 1
        /\ CTail' = Len(changes) + 2
    <3>1. [added |-> added, deled |-> dropped] \in Change  BY DEF Change
    <3>2. changes' \in Seq(Change) /\ Len(changes') = Len(changes) + 1
      BY <1>1, <2>1, <3>1, AppendProperties
    <3> QED  BY <1>1, <3>2 DEF CTail
  <2>3. /\ pc' \in [PoolThread -> PcType]
        /\ \A t \in PoolThread : pc'[t] = pc[t] \/ (pc[t] = "wait" /\ pc'[t] = "lock")
    BY <1>1, <2>1, Woken
  <2>4. /\ \A n \in nodes : at[n] \in head..CTail
        /\ \A t \in Busy : found[t] \in head..Len(changes)
    BY DEF IInv, Nodes, Threads
  <2>5. /\ head' \in head..(CTail + 1)
        /\ \A n \in nodes : at[n] >= head'
        /\ \A t \in Busy : found[t] >= head'
    <3>1. CASE head' = head  BY <1>1, <2>4, <3>1
    <3>2. CASE DeleteHeads(nodes, Busy, CTail + 1)
      <4>1. CTail + 1 \in Nat /\ head \in Nat  BY <1>1
      <4>2. \A n \in nodes : at[n] \in Nat /\ at[n] >= head  BY <1>1, <2>4
      <4>3. \A t \in Busy : found[t] \in Nat /\ found[t] >= head  BY <1>1, <2>4
      <4> QED  BY <1>1, <3>2, <4>1, <4>2, <4>3, HeadsFact
    <3> QED  BY <2>1, <3>1, <3>2
  <2>6. Threads'
    BY <1>1, <2>2, <2>3, <2>4, <2>5 DEF IInv, Threads
  <2>7. Nodes'
    BY <1>1, <2>2, <2>4, <2>5 DEF IInv, Nodes
  <2>8. head' \in Nat  BY <1>1, <2>5
  <2> QED  BY <2>2, <2>3, <2>6, <2>7, <2>8
<1> QED  BY <1>2, <1>3

LEMMA PropagateStep ==
  ASSUME IInv, NEW added \in SUBSET EventType, NEW dropped \in SUBSET EventType,
         PropagateOchange(added, dropped)
  PROVE  IInv'
<1> DEFINE more == [t \in EventType |-> IF t \in added THEN evtypes[t] + 1 ELSE evtypes[t]]
           gone == {t \in dropped : more[t] = 1}
           new == added \ Offered
<1>1. /\ chan = "open" /\ (\A t \in EventType : more[t] <= MaxUse)
      /\ evtypes' = [t \in EventType |->
                       IF t \in dropped /\ more[t] > 0 THEN more[t] - 1 ELSE more[t]]
      /\ UNCHANGED <<changes, head, pc>> \/ InsertChange(new, gone)
      /\ UNCHANGED <<chan, proxies, nodes, at, deled, made, terminate, locals, hist>>
  BY DEF PropagateOchange
<1>2. evtypes' \in [EventType -> 0..MaxUse]
  <2>1. evtypes \in [EventType -> 0..MaxUse] /\ MaxUse \in Nat
    BY Numbers DEF IInv, TypeOK
  <2>2. \A t \in EventType : more[t] \in 0..MaxUse  BY <1>1, <2>1
  <2> HIDE DEF more
  <2> QED  BY <1>1, <2>1, <2>2
<1>3. new \in SUBSET EventType /\ gone \in SUBSET EventType  OBVIOUS
<1>4. CASE UNCHANGED <<changes, head, pc>>
  <2>1. TypeOK'  BY <1>1, <1>2, <1>4 DEF IInv, TypeOK, proxies, locals, hist
  <2>2. UNCHANGED <<chan, pxstate, off, changes, head, nodes, at, deled, made, terminate,
                    pc, node, found>>
    BY <1>1, <1>4 DEF proxies, locals
  <2>3. (Threads /\ Nodes /\ Registered /\ Ending)'
    BY <2>2 DEF IInv, Threads, Nodes, Registered, Ending, CTail, Busy, Valid, WasOn, Usable
  <2> QED  BY <2>1, <2>3 DEF IInv
<1>5. CASE InsertChange(new, gone)
  <2> HIDE DEF new, gone, more
  <2>1. UNCHANGED <<nodes, at, deled, made, locals>>  BY <1>1
  <2>2. /\ changes' \in Seq(Change) /\ head' \in Nat /\ pc' \in [PoolThread -> PcType]
        /\ Threads' /\ Nodes'
    BY <1>3, <1>5, <2>1, ChangeStep
  <2>3. TypeOK'
    BY <1>1, <1>2, <2>2 DEF IInv, TypeOK, proxies, locals, hist, Change, PcType
  <2>4. Registered'  BY <1>1 DEF IInv, Registered, Valid, WasOn, Usable, proxies
  <2>5. Ending'  BY <1>1 DEF IInv, Ending
  <2> QED  BY <2>2, <2>3, <2>4, <2>5 DEF IInv
<1> QED  BY <1>1, <1>4, <1>5

(* What a proxy does that may concern the chain, and what does not. *)
ProxyMove(p) ==
  \/ Connect(p) \/ DisableUpdates(p) \/ Leave(p)
  \/ \E now \in BOOLEAN : EnableUpdates(p, now)

Aside(p) == Answer(p) \/ Dispose(p)

(* What a proxy's step does to the chain, and what it thinks of its own node. *)
LEMMA ProxyFact ==
  ASSUME IInv, NEW p \in Proxy, ProxyMove(p)
  PROVE  /\ Usable(p)
         /\ \/ /\ UNCHANGED chain
               /\ (pxstate[p] # "Connected" /\ pxstate' = pxstate) \/ ~Usable(p)'
            \/ \E i, r \in BOOLEAN :
                 /\ InsertAndRemove(p, i, r)
                 /\ i => chan = "open" /\ (r \/ ~WasOn(p))
                 /\ chan = "open" =>
                      ~Usable(p)' \/ WasOn(p)' \/ ((r \/ ~WasOn(p)) /\ ~i)
                 /\ r => chan = "open"
<1>0. pxstate \in [Proxy -> PxState] /\ off \in [Proxy -> BOOLEAN]
  BY DEF IInv, TypeOK, PxState
<1>1. CASE Connect(p)
  <2>1. InsertAndRemove(p, ~off[p] /\ chan = "open", FALSE) /\ ~WasOn(p) /\ Usable(p)
        /\ pxstate' = [pxstate EXCEPT ![p] = "Connected"] /\ off' = off
    BY <1>1 DEF Connect, WasOn, Usable
  <2>2. WasOn(p)' <=> ~off[p]  BY <1>0, <2>1 DEF WasOn
  <2>3. (~off[p] /\ chan = "open") \in BOOLEAN  OBVIOUS
  <2> QED  BY <2>1, <2>2, <2>3
<1>2. ASSUME NEW now \in BOOLEAN, EnableUpdates(p, now)
      PROVE  /\ Usable(p)
             /\ \/ UNCHANGED chain /\ pxstate[p] # "Connected" /\ pxstate' = pxstate
                \/ /\ InsertAndRemove(p, TRUE, WasOn(p)) /\ WasOn(p) \in BOOLEAN
                   /\ chan = "open" /\ WasOn(p)'
  <2>1. CASE pxstate[p] = "Connected"
    <3>1. InsertAndRemove(p, TRUE, WasOn(p)) /\ chan = "open" /\ Usable(p)
          /\ pxstate' = pxstate /\ off' = [off EXCEPT ![p] = FALSE]
      BY <1>2, <2>1 DEF EnableUpdates
    <3>2. WasOn(p)'  BY <1>0, <2>1, <3>1 DEF WasOn
    <3>3. WasOn(p) \in BOOLEAN  BY <1>0 DEF WasOn
    <3> QED  BY <3>1, <3>2, <3>3
  <2>2. CASE pxstate[p] # "Connected"
    BY <1>2, <2>2 DEF EnableUpdates
  <2> QED  BY <2>1, <2>2
<1>3. CASE DisableUpdates(p)
  <2>1. InsertAndRemove(p, FALSE, WasOn(p)) /\ chan = "open" /\ Usable(p)
    BY <1>3 DEF DisableUpdates
  <2>2. WasOn(p) \in BOOLEAN  BY <1>0 DEF WasOn
  <2> QED  BY <2>1, <2>2
<1>4. CASE Leave(p)
  <2>1. /\ InsertAndRemove(p, FALSE, WasOn(p) /\ chan = "open") \/ UNCHANGED chain
        /\ Usable(p) /\ pxstate' = [pxstate EXCEPT ![p] = "Disconnected"]
    BY <1>4 DEF Leave
  <2>2. (WasOn(p) /\ chan = "open") \in BOOLEAN  BY <1>0 DEF WasOn
  <2>3. ~Usable(p)'  BY <1>0, <2>1 DEF Usable
  <2> QED  BY <2>1, <2>2, <2>3
<1>5. CASE \E now \in BOOLEAN : EnableUpdates(p, now)
  BY <1>2, <1>5
<1> QED  BY <1>1, <1>3, <1>4, <1>5 DEF ProxyMove

LEMMA ProxyTypes ==
  ASSUME TypeOK, NEW p \in Proxy, ProxyMove(p) \/ Aside(p)
  PROVE  /\ pxstate' \in [Proxy -> PxState] /\ off' \in [Proxy -> BOOLEAN]
         /\ answer' \in [Proxy -> SUBSET SUBSET EventType] /\ asked' \subseteq Proxy
         /\ told' \in [Proxy -> SUBSET EventType] /\ crossed' \subseteq Proxy
         /\ \A q \in Proxy : q # p => (WasOn(q)' <=> WasOn(q)) /\ (Usable(q)' <=> Usable(q))
         /\ UNCHANGED <<evtypes, chan, changes, terminate, pc, locals>>
<1>1. /\ pxstate \in [Proxy -> PxState] /\ off \in [Proxy -> BOOLEAN]
      /\ answer \in [Proxy -> SUBSET SUBSET EventType] /\ asked \subseteq Proxy
      /\ told \in [Proxy -> SUBSET EventType] /\ crossed \subseteq Proxy
      /\ Offered \in SUBSET EventType
  BY DEF TypeOK, PxState, Offered
<1>2. /\ \E x \in PxState : pxstate' = [pxstate EXCEPT ![p] = x]
      /\ \E b \in BOOLEAN : off' = [off EXCEPT ![p] = b]
      /\ UNCHANGED <<evtypes, chan, changes, terminate, pc, locals>>
  <2>1. [pxstate EXCEPT ![p] = pxstate[p]] = pxstate /\ [off EXCEPT ![p] = off[p]] = off
        /\ pxstate[p] \in PxState /\ off[p] \in BOOLEAN
    BY <1>1
  <2>2. CASE Aside(p)  BY <2>1, <2>2 DEF Aside, Answer, Dispose, proxies, PxState
  <2>3. CASE ProxyMove(p)
    BY <2>1, <2>3 DEF ProxyMove, Connect, EnableUpdates, DisableUpdates, Leave, PxState
  <2> QED  BY <2>2, <2>3
<1>3. /\ answer' \in [Proxy -> SUBSET SUBSET EventType] /\ asked' \subseteq Proxy
      /\ told' \in [Proxy -> SUBSET EventType] /\ crossed' \subseteq Proxy
  <2>1. CASE UNCHANGED hist  BY <1>1, <2>1 DEF hist
  <2>2. CASE Answer(p)
    <3>1. PICK types \in answer[p] : told' = [told EXCEPT ![p] = types]  BY <2>2 DEF Answer
    <3>2. types \in SUBSET EventType  BY <1>1, <3>1
    <3> QED  BY <1>1, <2>2, <3>1, <3>2 DEF Answer
  <2>3. CASE Leave(p)  BY <1>1, <2>3 DEF Leave
  <2>4. ASSUME NEW now \in BOOLEAN, EnableUpdates(p, now), ~UNCHANGED hist
        PROVE  /\ answer' = [answer EXCEPT ![p] = IF now THEN {Offered} ELSE {}]
               /\ asked' \subseteq asked \cup {p} /\ told' = told /\ crossed' \subseteq crossed
    BY <2>4 DEF EnableUpdates
  <2>5. ASSUME NEW now \in BOOLEAN
      PROVE  (IF now THEN {Offered} ELSE {}) \in SUBSET SUBSET EventType
    BY <1>1
  <2>6. CASE (\E now \in BOOLEAN : EnableUpdates(p, now)) /\ ~UNCHANGED hist
    BY <1>1, <2>4, <2>5, <2>6
  <2> QED
    BY <2>1, <2>2, <2>3, <2>6 DEF ProxyMove, Aside, Dispose, Connect, DisableUpdates
<1> QED  BY <1>1, <1>2, <1>3 DEF WasOn, Usable

(* The steps of the proxies. *)
LEMMA ProxyStep == ASSUME IInv, NEW p \in Proxy, ProxyMove(p) PROVE IInv'
<1>1. UNCHANGED <<evtypes, chan, changes, terminate, pc, locals>>
  BY ProxyTypes DEF IInv
<1>2. TypeOK /\ Registered /\ Ending  BY DEF IInv
<1>3. /\ pxstate' \in [Proxy -> PxState] /\ off' \in [Proxy -> BOOLEAN]
      /\ answer' \in [Proxy -> SUBSET SUBSET EventType] /\ asked' \subseteq Proxy
      /\ told' \in [Proxy -> SUBSET EventType] /\ crossed' \subseteq Proxy
      /\ \A q \in Proxy : q # p => (WasOn(q)' <=> WasOn(q)) /\ (Usable(q)' <=> Usable(q))
  BY <1>2, ProxyTypes
<1>4. /\ Usable(p)
      /\ \/ /\ UNCHANGED chain
            /\ (pxstate[p] # "Connected" /\ pxstate' = pxstate) \/ ~Usable(p)'
         \/ \E i, r \in BOOLEAN :
              /\ InsertAndRemove(p, i, r)
              /\ i => chan = "open" /\ (r \/ ~WasOn(p))
              /\ chan = "open" => ~Usable(p)' \/ WasOn(p)' \/ ((r \/ ~WasOn(p)) /\ ~i)
              /\ r => chan = "open"
  BY ProxyFact
<1>5. Ending'  BY <1>1, <1>2 DEF Ending
<1>6. CASE /\ UNCHANGED chain
           /\ (pxstate[p] # "Connected" /\ pxstate' = pxstate) \/ ~Usable(p)'
  <2>1. TypeOK'  BY <1>1, <1>2, <1>3, <1>6 DEF TypeOK, locals, chain, PxState
  <2>2. \A q : Valid(q)' = Valid(q)  BY <1>6 DEF Valid, chain
  <2>3. ASSUME chan' = "open", NEW q \in Proxy, Usable(q)', ~WasOn(q)'  PROVE Valid(q)' = {}
    <3>1. Usable(q) /\ ~WasOn(q)
      <4>1. CASE q # p  BY <1>3, <2>3, <4>1
      <4>2. CASE q = p
        <5>1. pxstate[p] # "Connected"  BY <1>6, <2>3, <4>2
        <5> QED  BY <1>4, <4>2, <5>1 DEF WasOn
      <4> QED  BY <4>1, <4>2
    <3> QED  BY <1>1, <1>2, <2>2, <2>3, <3>1 DEF Registered
  <2>4. Registered'  BY <1>2, <1>6, <2>3 DEF Registered, chain
  <2>5. (Threads /\ Nodes)'
    BY <1>1, <1>6 DEF IInv, Threads, Nodes, CTail, Busy, chain, locals
  <2> QED  BY <1>5, <2>1, <2>4, <2>5 DEF IInv
<1>7. ASSUME NEW i \in BOOLEAN, NEW r \in BOOLEAN, InsertAndRemove(p, i, r),
             i => chan = "open" /\ (r \/ ~WasOn(p)),
             chan = "open" => ~Usable(p)' \/ WasOn(p)' \/ ((r \/ ~WasOn(p)) /\ ~i),
             r => chan = "open"
      PROVE  IInv'
  <2>1. i => r \/ Valid(p) = {}  BY <1>2, <1>4, <1>7 DEF Registered
  <2>2. UNCHANGED <<changes, terminate, pc, locals>>  BY <1>1
  <2>3. /\ head' \in Nat /\ nodes' \subseteq Node /\ at' \in [Node -> Nat]
        /\ deled' \subseteq Node /\ made' \in [Proxy -> 0..MaxInserts]
        /\ Threads' /\ Nodes'
        /\ \A n, m \in nodes' \ deled' : n[1] = m[1] => n = m
        /\ \A q \in Proxy : (q # p \/ ~i) /\ Valid(q) = {} => Valid(q)' = {}
        /\ r /\ ~i /\ ~terminate => Valid(p)' = {}
    BY <1>7, <2>1, <2>2, InsertRemoveStep
  <2>4. TypeOK'  BY <1>1, <1>2, <1>3, <2>3 DEF TypeOK, locals, PxState
  <2>5. ASSUME chan' = "open", NEW q \in Proxy, Usable(q)', ~WasOn(q)'  PROVE Valid(q)' = {}
    <3>1. chan = "open" /\ ~terminate  BY <1>1, <1>2, <2>5 DEF Ending
    <3>2. CASE q # p
      <4>1. Usable(q) /\ ~WasOn(q)  BY <1>3, <2>5, <3>2
      <4>2. Valid(q) = {}  BY <1>2, <3>1, <4>1 DEF Registered
      <4> QED  BY <2>3, <3>2, <4>2
    <3>3. CASE q = p
      <4>1. (r \/ ~WasOn(p)) /\ ~i  BY <1>7, <2>5, <3>1, <3>3
      <4>2. CASE r  BY <2>3, <3>1, <3>3, <4>1, <4>2
      <4>3. CASE ~WasOn(p)
        <5>1. Valid(p) = {}  BY <1>2, <1>4, <3>1, <4>3 DEF Registered
        <5> QED  BY <2>3, <3>3, <4>1, <5>1
      <4> QED  BY <4>1, <4>2, <4>3
    <3> QED  BY <3>2, <3>3
  <2>6. Registered'  BY <2>3, <2>5 DEF Registered
  <2> QED  BY <1>5, <2>3, <2>4, <2>6 DEF IInv
<1> QED  BY <1>4, <1>6, <1>7

(* The steps that do not concern the chain. *)
LEMMA AsideStep == ASSUME IInv, NEW p \in Proxy, Aside(p) PROVE IInv'
<1>1. UNCHANGED chain /\ UNCHANGED <<evtypes, chan, changes, terminate, pc, locals>>
  BY ProxyTypes DEF IInv, Aside, Answer, Dispose
<1>2. /\ pxstate' \in [Proxy -> PxState] /\ off' \in [Proxy -> BOOLEAN]
      /\ answer' \in [Proxy -> SUBSET SUBSET EventType] /\ asked' \subseteq Proxy
      /\ told' \in [Proxy -> SUBSET EventType] /\ crossed' \subseteq Proxy
      /\ \A q \in Proxy : q # p => (WasOn(q)' <=> WasOn(q)) /\ (Usable(q)' <=> Usable(q))
  BY ProxyTypes DEF IInv
<1>3. Usable(p)' => UNCHANGED proxies
  <2>1. CASE Answer(p)  BY <2>1 DEF Answer
  <2>2. CASE Dispose(p)
    <3>1. pxstate' = [pxstate EXCEPT ![p] = "Disposed"]  BY <2>2 DEF Dispose
    <3>2. pxstate'[p] = "Disposed"  BY <3>1 DEF IInv, TypeOK
    <3> QED  BY <3>2 DEF Usable
  <2> QED  BY <2>1, <2>2 DEF Aside
<1>4. TypeOK'  BY <1>1, <1>2 DEF IInv, TypeOK, locals, chain, PxState
<1>5. (Threads /\ Nodes /\ Ending)'
  BY <1>1 DEF IInv, Threads, Nodes, Ending, CTail, Busy, chain, locals
<1>6. \A q : Valid(q)' = Valid(q)  BY <1>1 DEF Valid, chain
<1>7. ASSUME chan' = "open", NEW q \in Proxy, Usable(q)', ~WasOn(q)'  PROVE Valid(q)' = {}
  <2>1. Usable(q) /\ ~WasOn(q)  BY <1>2, <1>3, <1>7 DEF WasOn, Usable, proxies
  <2> QED  BY <1>1, <1>6, <1>7, <2>1 DEF IInv, Registered
<1>8. Registered'  BY <1>1, <1>7 DEF IInv, Registered, chain
<1> QED  BY <1>4, <1>5, <1>8 DEF IInv

(* A thread finds a node, or nothing. *)
LEMMA LockStep == ASSUME IInv, NEW t \in PoolThread, Lock(t) PROVE IInv'
<1>1. /\ pc[t] = "lock"
      /\ UNCHANGED <<evtypes, chan, proxies, changes, head, nodes, deled, made, terminate, hist>>
      /\ CTail' = CTail
  BY DEF Lock, CTail
<1>2. /\ TypeOK /\ Threads /\ Nodes /\ Registered /\ Ending /\ t \notin Busy
      /\ at \in [Node -> Nat] /\ nodes \subseteq Node
      /\ pc \in [PoolThread -> PcType]
      /\ node \in [PoolThread -> Node \cup {None}] /\ found \in [PoolThread -> Nat]
      /\ CTail = Len(changes) + 1 /\ Len(changes) \in Nat /\ head \in Nat
  BY <1>1, Numbers DEF IInv, TypeOK, Threads, PcType, Busy
<1>3. Registered'
  BY <1>1, <1>2 DEF Registered, Valid, WasOn, Usable, proxies
<1>4. CASE \E x \in {"exit", "wait"} : pc' = [pc EXCEPT ![t] = x] /\ UNCHANGED <<at, locals>>
  <2>1. PICK x \in {"exit", "wait"} : pc' = [pc EXCEPT ![t] = x] /\ UNCHANGED <<at, locals>>
    BY <1>4
  <2>2. pc' \in [PoolThread -> PcType]  BY <1>2, <2>1 DEF PcType
  <2>3. TypeOK'  BY <1>1, <1>2, <2>1, <2>2 DEF TypeOK, PcType, proxies, hist, locals
  <2>4. Threads'
    BY <1>1, <1>2, <2>1 DEF Threads, Busy, locals
  <2>5. Nodes'  BY <1>1, <1>2, <2>1 DEF Nodes
  <2>6. Ending'  BY <1>1, <1>2, <2>1 DEF Ending
  <2> QED  BY <1>3, <2>3, <2>4, <2>5, <2>6 DEF IInv
<1>5. ASSUME NEW n \in Available, ~terminate,
             pc' = [pc EXCEPT ![t] = "test"], node' = [node EXCEPT ![t] = n],
             found' = [found EXCEPT ![t] = at[n]], at' = [at EXCEPT ![n] = CSkip(at[n])]
      PROVE  IInv'
  <2>1. /\ n \in nodes /\ n \in Node /\ at[n] \in head..Len(changes) /\ n # None
        /\ \A u \in PoolThread : node[u] # n
    BY <1>2, <1>5, NodeParts DEF Available, Nodes
  <2>2. /\ at'[n] = at[n] + 1 /\ at' \in [Node -> Nat]
        /\ \A m \in Node : m # n => at'[m] = at[m]
    BY <1>2, <1>5, <2>1 DEF CSkip
  <2>3. /\ pc' \in [PoolThread -> PcType] /\ node' \in [PoolThread -> Node \cup {None}]
        /\ found' \in [PoolThread -> Nat]
        /\ pc'[t] = "test" /\ node'[t] = n /\ found'[t] = at[n]
        /\ \A u \in PoolThread :
             u # t => pc'[u] = pc[u] /\ node'[u] = node[u] /\ found'[u] = found[u]
        /\ Busy' = Busy \cup {t}
    <3>1. /\ pc' \in [PoolThread -> PcType] /\ node' \in [PoolThread -> Node \cup {None}]
          /\ found' \in [PoolThread -> Nat]
          /\ pc'[t] = "test" /\ node'[t] = n /\ found'[t] = at[n]
          /\ \A u \in PoolThread :
               u # t => pc'[u] = pc[u] /\ node'[u] = node[u] /\ found'[u] = found[u]
      BY <1>2, <1>5, <2>1 DEF PcType
    <3> QED  BY <2>1, <3>1 DEF Busy
  <2>4. TypeOK'  BY <1>1, <1>2, <2>2, <2>3 DEF TypeOK, PcType, proxies, hist
  <2>5. Threads'
    <3>1. \A u \in PoolThread : node'[u] = None <=> pc'[u] \in {"lock", "wait", "exit"}
      BY <1>2, <2>1, <2>3 DEF Threads
    <3>2. ASSUME NEW u \in Busy'
          PROVE  /\ node'[u] \in nodes' /\ found'[u] \in head'..Len(changes')
                 /\ at'[node'[u]] = found'[u] + 1
      <4>1. CASE u = t  BY <1>1, <2>1, <2>2, <2>3, <4>1
      <4>2. CASE u # t
        <5>1. u \in Busy /\ node[u] \in nodes /\ node[u] # n
          BY <1>2, <2>1, <2>3, <4>2 DEF Threads, Busy
        <5>2. /\ node'[u] = node[u] /\ found'[u] = found[u] /\ at'[node[u]] = at[node[u]]
          BY <1>2, <2>2, <2>3, <4>2, <5>1 DEF Busy
        <5> QED  BY <1>1, <1>2, <5>1, <5>2 DEF Threads
      <4> QED  BY <4>1, <4>2
    <3>3. \A u, v \in Busy' : node'[u] = node'[v] => u = v
      BY <1>2, <2>1, <2>3 DEF Threads, Busy
    <3> QED  BY <3>1, <3>2, <3>3 DEF Threads
  <2>6. Nodes'
    <3>1. \A m \in nodes' : at'[m] \in head'..CTail'
      BY <1>1, <1>2, <2>1, <2>2 DEF Nodes
    <3> QED  BY <1>1, <1>2, <3>1 DEF Nodes
  <2>7. Ending'  BY <1>1, <1>2 DEF Ending
  <2> QED  BY <1>3, <2>4, <2>5, <2>6, <2>7 DEF IInv
<1>6. CASE terminate \/ Available = {}
  BY <1>4, <1>6 DEF Lock
<1>7. CASE ~(terminate \/ Available = {})
  <2>1. \E n \in NextAvailable :
          /\ pc' = [pc EXCEPT ![t] = "test"] /\ node' = [node EXCEPT ![t] = n]
          /\ found' = [found EXCEPT ![t] = at[n]] /\ at' = [at EXCEPT ![n] = CSkip(at[n])]
    BY <1>7 DEF Lock
  <2> QED  BY <1>5, <1>7, <2>1 DEF NextAvailable
<1> QED  BY <1>6, <1>7

(* A thread goes on with its node, without the lock. *)
LEMMA OnwardStep ==
  ASSUME IInv, NEW t \in PoolThread, Test(t) \/ Send(t) \/ Receive(t) \/ CallReturns(t)
  PROVE  IInv'
<1>1. /\ UNCHANGED <<evtypes, chan, proxies, changes, chain, terminate, locals>>
      /\ UNCHANGED <<answer, asked>>
      /\ pc[t] \in {"test", "send", "call", "called"}
      /\ \E x \in {"send", "call", "called", "valid", "invalid"} : pc' = [pc EXCEPT ![t] = x]
  BY DEF Test, Send, Receive, CallReturns, hist
<1>2. TypeOK /\ Threads /\ Ending /\ pc \in [PoolThread -> PcType]
  BY DEF IInv, TypeOK, PcType
<1>3. PICK x \in {"send", "call", "called", "valid", "invalid"} : pc' = [pc EXCEPT ![t] = x]
  BY <1>1
<1>4. pc' \in [PoolThread -> PcType]  BY <1>2, <1>3 DEF PcType
<1>5. told' \in [Proxy -> SUBSET EventType] /\ crossed' \subseteq Proxy
  <2>1. told \in [Proxy -> SUBSET EventType] /\ crossed \subseteq Proxy
    BY <1>2 DEF TypeOK
  <2>2. CASE ~Receive(t)
    BY <2>1, <2>2 DEF Test, Send, CallReturns, hist
  <2>3. CASE Receive(t)
    <3>1. t \in Busy /\ node[t] \in nodes /\ found[t] \in head..Len(changes) /\ head \in 1..CTail
          /\ node[t] \in Node
      BY <1>1, <1>2 DEF Threads, Busy, IInv, Nodes, TypeOK
    <3>2. node[t][1] \in Proxy  BY <3>1, NodeParts
    <3>3. changes \in Seq(Change) /\ found[t] \in 1..Len(changes)
      BY <1>2, <3>1, Numbers DEF TypeOK, Change
    <3>4. changes[found[t]] \in Change  BY <3>3, ElementOfSeq
    <3>5. told[node[t][1]] \in SUBSET EventType  BY <2>1, <3>2
    <3>6. Learnt(told[node[t][1]], changes[found[t]]) \in SUBSET EventType
      BY <3>4, <3>5 DEF Learnt, Change
    <3>7. told' \in [Proxy -> SUBSET EventType]  BY <2>1, <2>3, <3>6 DEF Receive
    <3>8. crossed' \subseteq crossed \cup {node[t][1]}  BY <2>3 DEF Receive
    <3> QED  BY <2>1, <3>2, <3>7, <3>8
  <2> QED  BY <2>2, <2>3
<1>6. TypeOK'  BY <1>1, <1>2, <1>4, <1>5 DEF TypeOK, PcType, proxies, chain, locals
<1>7. Threads'  BY <1>1, <1>2, <1>3 DEF Threads, Busy, chain, locals, PcType
<1>8. Nodes' /\ Registered'
  BY <1>1 DEF IInv, Nodes, Registered, Valid, WasOn, Usable, CTail, chain, proxies
<1>9. Ending'  BY <1>1, <1>2, <1>3 DEF Ending
<1> QED  BY <1>6, <1>7, <1>8, <1>9 DEF IInv

(* What Release does to the threads: t is back, and at most one other woken. *)
LEMMA ReleaseFact ==
  ASSUME IInv, NEW t \in PoolThread, Release(t)
  PROVE  /\ pc' \in [PoolThread -> PcType] /\ pc'[t] = "lock"
         /\ \A u \in PoolThread :
              u # t => pc'[u] = pc[u] \/ (pc[u] = "wait" /\ pc'[u] = "lock")
         /\ node' = [node EXCEPT ![t] = None] /\ found' = [found EXCEPT ![t] = 0]
         /\ t \in Busy /\ node[t] \in nodes /\ Busy' = Busy \ {t}
<1>1. /\ pc \in [PoolThread -> PcType] /\ node \in [PoolThread -> Node \cup {None}]
      /\ Threads
  BY DEF IInv, TypeOK, PcType
<1> DEFINE back == [pc EXCEPT ![t] = "lock"]
<1>2. pc[t] \in {"valid", "invalid"} /\ (pc' = back \/ Signal(back))
  BY DEF Release
<1>3. back \in [PoolThread -> PcType] /\ back[t] = "lock"
      /\ \A u \in PoolThread : u # t => back[u] = pc[u]
  BY <1>1 DEF PcType
<1>4. pc' = back \/ \E u \in PoolThread : back[u] = "wait" /\ pc' = [back EXCEPT ![u] = "lock"]
  BY <1>2, <1>3 DEF Signal
<1>5. /\ pc' \in [PoolThread -> PcType] /\ pc'[t] = "lock"
      /\ \A u \in PoolThread :
           u # t => pc'[u] = pc[u] \/ (pc[u] = "wait" /\ pc'[u] = "lock")
  <2> HIDE DEF back
  <2> QED  BY <1>3, <1>4 DEF PcType
<1>6. t \in Busy /\ node[t] \in nodes  BY <1>1, <1>2 DEF Threads, Busy
<1>7. node' = [node EXCEPT ![t] = None] /\ found' = [found EXCEPT ![t] = 0]  BY DEF Release
<1>8. Busy' = Busy \ {t}  BY <1>1, <1>7 DEF Busy
<1> QED  BY <1>5, <1>6, <1>7, <1>8

LEMMA ReleaseStep == ASSUME IInv, NEW t \in PoolThread, Release(t) PROVE IInv'
<1> DEFINE out == {node[t]} \ deled
<1>1. /\ UNCHANGED <<evtypes, chan, proxies, changes, terminate, hist, at, made>>
      /\ UNCHANGED chain \/ Mark(out, {}, Busy \ {t})
      /\ pc[t] \in {"valid", "invalid"}
  BY DEF Release, chain
<1>2. /\ pc' \in [PoolThread -> PcType] /\ pc'[t] = "lock"
      /\ \A u \in PoolThread :
           u # t => pc'[u] = pc[u] \/ (pc[u] = "wait" /\ pc'[u] = "lock")
      /\ node' = [node EXCEPT ![t] = None] /\ found' = [found EXCEPT ![t] = 0]
      /\ t \in Busy /\ node[t] \in nodes /\ Busy' = Busy \ {t}
  BY ReleaseFact
<1>3. /\ TypeOK /\ Threads /\ Nodes /\ Registered /\ Ending /\ CTail' = CTail
      /\ CTail = Len(changes) + 1 /\ Len(changes) \in Nat /\ head \in 1..CTail
      /\ nodes \subseteq Node /\ deled \subseteq Node
      /\ node \in [PoolThread -> Node \cup {None}] /\ found \in [PoolThread -> Nat]
  BY <1>1, Numbers DEF IInv, TypeOK, Nodes, CTail
<1>4. /\ deled \subseteq deled' /\ deled' \subseteq deled \cup out /\ nodes' \subseteq nodes
      /\ \A n \in nodes : n \notin deled' => n \in nodes'
      /\ \A u \in Busy' : node[u] \in nodes' /\ found[u] >= head'
      /\ head' \in head..CTail /\ \A n \in nodes' : at[n] >= head'
  <2>1. CASE UNCHANGED chain
    BY <1>2, <1>3, <2>1, Numbers DEF chain, Threads, Nodes
  <2>2. CASE Mark(out, {}, Busy \ {t})
    <3> DEFINE busy == Busy \ {t}
    <3>1. IInv /\ Mark(out, {}, busy) /\ out \in SUBSET nodes /\ {} \in SUBSET Node
          /\ busy \in SUBSET Busy
      BY <1>2, <2>2
    <3> HIDE DEF out, busy
    <3>2. /\ deled' = deled \cup out
          /\ nodes' \subseteq nodes \cup {}
          /\ \A n \in nodes : n \notin deled \cup out => n \in nodes'
          /\ \A u \in busy : node[u] \in nodes'
          /\ head' \in head..CTail
          /\ \A n \in nodes' \ {} : at[n] >= head'
          /\ \A u \in busy : found[u] >= head'
      BY <3>1, MarkFact
    <3> USE DEF busy
    <3> QED  BY <1>2, <3>2
  <2> QED  BY <1>1, <2>1, <2>2
<1>5. node' \in [PoolThread -> Node \cup {None}] /\ found' \in [PoolThread -> Nat]
      /\ node'[t] = None
      /\ \A u \in PoolThread : u # t => node'[u] = node[u] /\ found'[u] = found[u]
  BY <1>2, <1>3
<1>6. TypeOK'
  <2>1. head' \in Nat /\ nodes' \subseteq Node /\ deled' \subseteq Node
    BY <1>2, <1>3, <1>4
  <2> QED  BY <1>1, <1>2, <1>3, <1>5, <2>1 DEF TypeOK, PcType, proxies, hist
<1>7. Threads'
  <2>1. \A u \in PoolThread : node'[u] = None <=> pc'[u] \in {"lock", "wait", "exit"}
    BY <1>2, <1>3, <1>5 DEF Threads
  <2>2. \A u \in Busy' : /\ node'[u] \in nodes' /\ found'[u] \in head'..Len(changes')
                         /\ at'[node'[u]] = found'[u] + 1
    BY <1>1, <1>2, <1>3, <1>4, <1>5 DEF Threads, Busy
  <2>3. \A u, v \in Busy' : node'[u] = node'[v] => u = v
    BY <1>2, <1>3, <1>5 DEF Threads, Busy
  <2> QED  BY <2>1, <2>2, <2>3 DEF Threads
<1>8. Nodes'
  <2>1. \A n \in nodes' : at'[n] \in head'..CTail'
    BY <1>1, <1>3, <1>4, Numbers DEF Nodes
  <2>2. head' \in 1..CTail'  BY <1>3, <1>4
  <2>3. ASSUME NEW n \in Node  PROVE n \in nodes' \cup deled' <=> n \in nodes \cup deled
    BY <1>2, <1>3, <1>4
  <2> QED  BY <1>1, <1>3, <2>1, <2>2, <2>3 DEF Nodes
<1>9. Registered'
  <2>1. nodes' \ deled' \subseteq nodes \ deled  BY <1>4
  <2>2. \A p \in Proxy : /\ Valid(p)' \subseteq Valid(p) /\ (WasOn(p)' <=> WasOn(p))
                         /\ (Usable(p)' <=> Usable(p))
    BY <1>1, <2>1 DEF Valid, WasOn, Usable, proxies
  <2> QED  BY <1>1, <1>3, <2>1, <2>2 DEF Registered
<1>10. Ending'  BY <1>1, <1>3 DEF Ending
<1> QED  BY <1>6, <1>7, <1>8, <1>9, <1>10 DEF IInv

(* The channel is destroyed. *)
LEMMA DestroyStep == ASSUME IInv, Shutdown \/ TerminatePool \/ JoinPool PROVE IInv'
<1>1. /\ UNCHANGED <<evtypes, proxies, changes, chain, locals, hist>>
      /\ TypeOK /\ Threads /\ Ending
  BY DEF IInv, Shutdown, TerminatePool, JoinPool
<1>2. /\ pc' \in [PoolThread -> PcType]
      /\ \A t \in PoolThread : pc'[t] = pc[t] \/ (pc[t] = "wait" /\ pc'[t] = "lock")
  <2>1. CASE Shutdown \/ JoinPool
    BY <1>1, <2>1 DEF Shutdown, JoinPool, TypeOK, PcType
  <2>2. CASE TerminatePool  BY <1>1, <2>2, Woken DEF TerminatePool
  <2> QED  BY <2>1, <2>2
<1>3. chan' \in {"open", "shut", "joined"} /\ terminate' \in BOOLEAN
      /\ (chan' = "open" => chan = "open") /\ chan' # "open"
  BY <1>1 DEF TypeOK, Shutdown, TerminatePool, JoinPool
<1>4. TypeOK'  BY <1>1, <1>2, <1>3 DEF TypeOK, PcType, proxies, chain, locals, hist
<1>5. Threads'  BY <1>1, <1>2 DEF Threads, Busy, chain, locals
<1>6. Nodes'  BY <1>1 DEF IInv, Nodes, CTail, chain
<1>7. Registered'
  BY <1>1, <1>3 DEF IInv, Registered, chain
<1>8. Ending'  BY <1>1 DEF Ending, Shutdown, TerminatePool, JoinPool
<1> QED  BY <1>4, <1>5, <1>6, <1>7, <1>8 DEF IInv

LEMMA Stutter == ASSUME IInv, UNCHANGED vars PROVE IInv'
BY DEF IInv, TypeOK, Threads, Nodes, Registered, Ending, CTail, Busy, Valid, WasOn, Usable,
       vars, proxies, chain, locals, hist

LEMMA Step == ASSUME IInv, [Next]_vars PROVE IInv'
<1>1. ASSUME NEW added \in SUBSET EventType, NEW dropped \in SUBSET (EventType \ added),
             PropagateOchange(added, dropped)
      PROVE  IInv'
  BY <1>1, PropagateStep
<1>2. ASSUME NEW p \in Proxy, ProxyMove(p) \/ Aside(p)  PROVE IInv'
  BY <1>2, ProxyStep, AsideStep
<1>3. ASSUME NEW t \in PoolThread, Notify(t) \/ Receive(t)  PROVE IInv'
  BY <1>3, LockStep, OnwardStep, ReleaseStep DEF Notify
<1>4. CASE Shutdown \/ TerminatePool \/ JoinPool  BY <1>4, DestroyStep
<1>5. CASE UNCHANGED vars  BY <1>5, Stutter
<1> QED  BY <1>1, <1>2, <1>3, <1>4, <1>5 DEF Next, ProxyMove, Aside

-----------------------------------------------------------------------------
(* The inductive invariant holds for any number of proxies, registrations, *)
(* threads, types and changes.                                             *)
THEOREM Invariance == Spec => []IInv
BY Start, Step, PTL DEF Spec

(* Every variable of the pool, the proxies and the channel keeps its type. *)
THEOREM ChangeTypes == Spec => []TypeOK
<1>1. IInv => TypeOK  BY DEF IInv
<1> QED  BY <1>1, Invariance, PTL

(* RDI_ChangePool never frees an entry or a node that one of its threads has a  *)
(* pointer to without the lock, nor an entry at which a node waits.             *)
THEOREM NothingFreedInUse == Spec => []EntriesKept
<1>1. IInv => EntriesKept  BY DEF IInv, Threads, Nodes, EntriesKept
<1> QED  BY <1>1, Invariance, PTL

-----------------------------------------------------------------------------
(* The promise of ChangeFeed: what a step does to each registration        *)

InCall(n) == \E t \in Holders(n) : pc[t] \in {"call", "called"}

(* Nothing happens to the registration n. *)
Same(n) ==
  /\ made'[n[1]] < n[2] <=> made[n[1]] < n[2]
  /\ n \in deled' <=> n \in deled
  /\ at'[n] = at[n]
  /\ \A t \in PoolThread : /\ node'[t] = n <=> node[t] = n
                           /\ node[t] = n => pc'[t] = pc[t]

Still(n) ==
  /\ StatusOf(n)' = StatusOf(n) /\ NextOf(n)' = NextOf(n) /\ (InCall(n)' <=> InCall(n))

LEMMA SameStill == ASSUME NEW n \in Node, Same(n) PROVE Still(n)
<1>1. n # None  BY NodeParts
<1>2. Holders(n)' = Holders(n)  BY <1>1 DEF Same, Holders, Busy
<1>3. \A t \in Holders(n) : pc'[t] = pc[t]  BY DEF Same, Holders, Busy
<1>4. Chosen(n)' = Chosen(n)  BY <1>2, <1>3 DEF Chosen
<1>5. (Lost(n)' <=> Lost(n)) /\ (InCall(n)' <=> InCall(n))
      /\ ((\E t \in Holders(n)' : pc'[t] = "send") <=> (\E t \in Holders(n) : pc[t] = "send"))
  BY <1>2, <1>3 DEF Lost, InCall
<1>6. StatusOf(n)' = StatusOf(n)  BY <1>5 DEF StatusOf, Same
<1>7. NextOf(n)' = NextOf(n)  BY <1>4, <1>6 DEF NextOf, Same
<1> QED  BY <1>5, <1>6, <1>7 DEF Still

(* The registration that a thread works on: the thread alone says how it stands. *)
Held(t, n) ==
  /\ at[n] = found[t] + 1 /\ found[t] \in 1..Len(changes)
  /\ \A u \in PoolThread : node[u] = n => u = t
  /\ StatusOf(n) = IF n \notin deled THEN IF pc[t] = "invalid" THEN "off" ELSE "on"
                   ELSE IF pc[t] = "send" THEN "leaving" ELSE "off"
  /\ NextOf(n) = IF StatusOf(n) = "off" THEN 0
                 ELSE IF pc[t] \in {"test", "send"} THEN found[t] ELSE found[t] + 1
  /\ InCall(n) <=> pc[t] \in {"call", "called"}

(* The registration that nobody works on. *)
Free(n) ==
  /\ StatusOf(n) = IF made[n[1]] < n[2] THEN "none"
                   ELSE IF n \notin deled THEN "on" ELSE "off"
  /\ NextOf(n) = IF StatusOf(n) = "on" THEN at[n] ELSE 0
  /\ ~InCall(n)

LEMMA HeldFact ==
  ASSUME IInv, NEW t \in PoolThread, NEW n \in Node, node[t] = n
  PROVE  Held(t, n)
<1>1. /\ t \in Busy /\ n \in nodes /\ n \in Node /\ at[n] = found[t] + 1
      /\ found[t] \in head..Len(changes) /\ head \in 1..CTail /\ Len(changes) \in Nat
      /\ CTail \in Nat
  BY Numbers, NodeParts DEF IInv, Threads, Nodes, Busy
<1>2. found[t] \in 1..Len(changes) /\ at[n] - 1 = found[t]  BY <1>1
<1>3. \A u \in PoolThread : node[u] = n => u = t  BY <1>1 DEF IInv, Threads, Busy
<1>4. Holders(n) = {t}  BY <1>1, <1>3 DEF Holders, Busy
<1>5. ~(made[n[1]] < n[2])
  <2>1. n[2] <= made[n[1]]  BY <1>1 DEF IInv, Nodes
  <2>2. made[n[1]] \in Nat /\ n[2] \in Nat  BY <1>1, NodeParts, Numbers DEF IInv
  <2> QED  BY <2>1, <2>2
<1>6. StatusOf(n) = IF n \notin deled THEN IF pc[t] = "invalid" THEN "off" ELSE "on"
                    ELSE IF pc[t] = "send" THEN "leaving" ELSE "off"
  BY <1>4, <1>5 DEF StatusOf, Lost
<1>7. NextOf(n) = IF StatusOf(n) = "off" THEN 0
                  ELSE IF pc[t] \in {"test", "send"} THEN found[t] ELSE found[t] + 1
  <2>1. Chosen(n) # {} <=> pc[t] \in {"test", "send"}  BY <1>4 DEF Chosen
  <2>2. StatusOf(n) # "none"  BY <1>6
  <2> QED  BY <1>1, <1>2, <2>1, <2>2 DEF NextOf
<1>8. InCall(n) <=> pc[t] \in {"call", "called"}  BY <1>4 DEF InCall
<1> QED  BY <1>1, <1>2, <1>3, <1>6, <1>7, <1>8 DEF Held

LEMMA FreeFact ==
  ASSUME NEW n \in Node, \A t \in PoolThread : node[t] # n
  PROVE  Free(n)
<1>1. Holders(n) = {}  BY DEF Holders, Busy
<1> QED  BY <1>1 DEF Free, StatusOf, NextOf, Lost, Chosen, InCall

LEMMA HeldNext ==
  ASSUME NEW t \in PoolThread, NEW n \in Node
  PROVE  IInv' /\ node'[t] = n => Held(t, n)'
<1>1. IInv /\ node[t] = n => Held(t, n)  BY HeldFact
<1>2. (IInv /\ node[t] = n => Held(t, n))'  BY <1>1, PTL
<1> QED  BY <1>2

LEMMA FreeNext ==
  ASSUME NEW n \in Node
  PROVE  (\A t \in PoolThread : node'[t] # n) => Free(n)'
<1>1. (\A t \in PoolThread : node[t] # n) => Free(n)  BY FreeFact
<1>2. ((\A t \in PoolThread : node[t] # n) => Free(n))'  BY <1>1, PTL
<1> QED  BY <1>2

(* How a step of the pool appears to ChangeFeed, when nothing, one or two of the    *)
(* registrations are concerned.                                                    *)
LEMMA Quiet ==
  ASSUME \A n \in Node : Still(n)
  PROVE  UNCHANGED <<Status, NextChange, Calling>>
BY DEF Still, Status, NextChange, Calling, InCall

LEMMA OneChanges ==
  ASSUME NEW m \in Node, \A n \in Node : n # m => Still(n)
  PROVE  /\ Status' = [Status EXCEPT ![m] = StatusOf(m)']
         /\ NextChange' = [NextChange EXCEPT ![m] = NextOf(m)']
         /\ Calling' = IF InCall(m)' THEN Calling \cup {m} ELSE Calling \ {m}
         /\ Status[m] = StatusOf(m) /\ NextChange[m] = NextOf(m)
         /\ m \in Calling <=> InCall(m)
<1>1. Status' = [Status EXCEPT ![m] = StatusOf(m)']  BY DEF Still, Status
<1>2. NextChange' = [NextChange EXCEPT ![m] = NextOf(m)']  BY DEF Still, NextChange
<1>3. Calling = {n \in Node : InCall(n)} /\ Calling' = {n \in Node : InCall(n)'}
  BY DEF Calling, InCall
<1>4. Calling' = IF InCall(m)' THEN Calling \cup {m} ELSE Calling \ {m}
  BY <1>3 DEF Still
<1> QED  BY <1>1, <1>2, <1>3, <1>4 DEF Status, NextChange

LEMMA TwoChange ==
  ASSUME NEW n \in Node, NEW m \in Node, n # m,
         \A k \in Node : m # k /\ n # k => Still(k),
         InCall(n)' <=> InCall(n), InCall(m)' <=> InCall(m)
  PROVE  /\ Status' = [Status EXCEPT ![n] = StatusOf(n)', ![m] = StatusOf(m)']
         /\ NextChange' = [NextChange EXCEPT ![n] = NextOf(n)', ![m] = NextOf(m)']
         /\ \A k \in Node : InCall(k)' <=> InCall(k)
         /\ Status[n] = StatusOf(n) /\ Status[m] = StatusOf(m)
         /\ NextChange[n] = NextOf(n)
<1>1. Status' = [Status EXCEPT ![n] = StatusOf(n)', ![m] = StatusOf(m)']
  BY DEF Still, Status
<1>2. NextChange' = [NextChange EXCEPT ![n] = NextOf(n)', ![m] = NextOf(m)']
  BY DEF Still, NextChange
<1>3. \A k \in Node : InCall(k)' <=> InCall(k)  BY DEF Still
<1> QED  BY <1>1, <1>2, <1>3 DEF Status, NextChange

FeedStep == [Feed!Next]_(Feed!vars)

LEMMA FeedStutter ==
  ASSUME UNCHANGED <<Status, NextChange, Calling, Pool>>, Len(changes') = Len(changes)
  PROVE  FeedStep
BY DEF FeedStep, Feed!vars

(* Registrations that no thread works on before and after keep still if the chain does. *)
LEMMA SameNode ==
  ASSUME NEW n \in Node, UNCHANGED <<made, deled, at, node>>,
         \A t \in PoolThread : node[t] = n => pc'[t] = pc[t]
  PROVE  Same(n)
BY DEF Same

(* Threads that are woken work on no node. *)
LEMMA WokenSame ==
  ASSUME IInv, UNCHANGED <<made, deled, at, node>>,
         \A t \in PoolThread : pc'[t] = pc[t] \/ pc[t] \in {"lock", "wait", "exit"}
  PROVE  \A n \in Node : Still(n)
<1>1. ASSUME NEW n \in Node  PROVE Still(n)
  <2>1. \A t \in PoolThread : node[t] = n => pc'[t] = pc[t]
    BY NodeParts DEF IInv, Threads
  <2> QED  BY <2>1, SameNode, SameStill
<1> QED  BY <1>1

LEMMA PropagateFeed ==
  ASSUME IInv, NEW added \in SUBSET EventType, NEW dropped \in SUBSET EventType,
         PropagateOchange(added, dropped)
  PROVE  FeedStep
<1> DEFINE more == [t \in EventType |-> IF t \in added THEN evtypes[t] + 1 ELSE evtypes[t]]
           gone == {t \in dropped : more[t] = 1}
           new == added \ Offered
<1>1. /\ UNCHANGED <<changes, head, pc>> \/ InsertChange(new, gone)
      /\ UNCHANGED <<chan, proxies, nodes, at, deled, made, terminate, locals, hist>>
  BY DEF PropagateOchange
<1>2. new \in SUBSET EventType /\ gone \in SUBSET EventType  OBVIOUS
<1>3. /\ Len(changes') = Len(changes) \/ Len(changes') = Len(changes) + 1
      /\ \A t \in PoolThread : pc'[t] = pc[t] \/ (pc[t] = "wait" /\ pc'[t] = "lock")
  <2> HIDE DEF new, gone
  <2>1. UNCHANGED <<nodes, at, deled, made, locals>>  BY <1>1
  <2> QED  BY <1>1, <1>2, <2>1, ChangeStep
<1>4. \A n \in Node : Still(n)  BY <1>1, <1>3, WokenSame DEF locals
<1>5. UNCHANGED <<Status, NextChange, Calling, Pool>>  BY <1>1, <1>4, Quiet DEF Pool
<1>6. CASE Len(changes') = Len(changes) + 1
  BY <1>5, <1>6 DEF FeedStep, Feed!Next, Feed!Change
<1> QED  BY <1>3, <1>5, <1>6, FeedStutter

(* A thread and its registration: nobody else's is concerned. *)
LEMMA OthersStill ==
  ASSUME IInv, NEW t \in PoolThread, NEW n \in Node, node[t] \in {n, None},
         node'[t] \in {n, None},
         \A u \in PoolThread : u # t => node'[u] = node[u],
         \A u \in PoolThread : u # t => pc'[u] = pc[u] \/ pc[u] \in {"lock", "wait", "exit"},
         UNCHANGED made,
         \A m \in Node : m # n => (m \in deled' <=> m \in deled) /\ at'[m] = at[m]
  PROVE  \A m \in Node : n # m => Still(m)
<1>1. ASSUME NEW m \in Node, n # m  PROVE Still(m)
  <2>1. m # None  BY NodeParts
  <2>2. node[t] # m /\ node'[t] # m  BY <1>1, <2>1
  <2>3. ASSUME NEW u \in PoolThread
        PROVE  (node'[u] = m <=> node[u] = m) /\ (node[u] = m => pc'[u] = pc[u])
    <3>1. node[u] = m => u # t /\ pc[u] \notin {"lock", "wait", "exit"}
      BY <2>1, <2>2 DEF IInv, Threads
    <3> QED  BY <2>2, <3>1
  <2>4. Same(m)  BY <1>1, <2>3 DEF Same
  <2> QED  BY <2>4, SameStill
<1> QED  BY <1>1

LEMMA LockFeed == ASSUME IInv, IInv', NEW t \in PoolThread, Lock(t) PROVE FeedStep
<1>1. /\ pc[t] = "lock" /\ node[t] = None
      /\ UNCHANGED <<chan, changes, nodes, deled, made, terminate>>
      /\ TypeOK /\ at \in [Node -> Nat] /\ nodes \subseteq Node
      /\ pc \in [PoolThread -> PcType]
      /\ node \in [PoolThread -> Node \cup {None}] /\ found \in [PoolThread -> Nat]
  BY DEF Lock, IInv, Threads, TypeOK, PcType
<1>2. CASE terminate \/ Available = {}
  <2>1. UNCHANGED <<made, deled, at, node>>
    BY <1>1, <1>2 DEF Lock, locals
  <2>2. \A u \in PoolThread : pc'[u] = pc[u] \/ pc[u] \in {"lock", "wait", "exit"}
    BY <1>1, <1>2 DEF Lock
  <2> QED  BY <1>1, <2>1, <2>2, WokenSame, Quiet, FeedStutter DEF Pool
<1>3. CASE ~(terminate \/ Available = {})
  <2>1. PICK n \in Available :
          /\ pc' = [pc EXCEPT ![t] = "test"] /\ node' = [node EXCEPT ![t] = n]
          /\ found' = [found EXCEPT ![t] = at[n]] /\ at' = [at EXCEPT ![n] = CSkip(at[n])]
    BY <1>3 DEF Lock, NextAvailable
  <2>2. n \in nodes /\ n \in Node /\ n \notin deled /\ (\A u \in PoolThread : node[u] # n)
    BY <1>1, <2>1 DEF Available
  <2>3. pc'[t] = "test" /\ node'[t] = n /\ found'[t] = at[n] /\ n \notin deled'
    BY <1>1, <2>1, <2>2
  <2>4. Free(n) /\ Held(t, n)'  BY <2>2, <2>3, FreeFact, HeldNext
  <2>5. ~(made[n[1]] < n[2])
    <3>1. n[2] <= made[n[1]]  BY <2>2 DEF IInv, Nodes
    <3>2. made[n[1]] \in Nat /\ n[2] \in Nat  BY <2>2, NodeParts, Numbers DEF IInv
    <3> QED  BY <3>1, <3>2
  <2>6. Still(n)  BY <2>2, <2>3, <2>4, <2>5 DEF Free, Held, Still
  <2>7. \A m \in Node : n # m => Still(m)
    <3>1. \A u \in PoolThread : u # t => node'[u] = node[u] /\ pc'[u] = pc[u]
      BY <1>1, <2>1, <2>2
    <3>2. \A m \in Node : m # n => at'[m] = at[m]  BY <1>1, <2>1
    <3> QED  BY <1>1, <2>2, <2>3, <3>1, <3>2, OthersStill
  <2>8. \A m \in Node : Still(m)  BY <2>6, <2>7
  <2> QED  BY <1>1, <2>8, Quiet, FeedStutter DEF Pool
<1> QED  BY <1>2, <1>3

LEMMA OnwardFeed ==
  ASSUME IInv, IInv', NEW t \in PoolThread, Test(t) \/ Send(t) \/ Receive(t) \/ CallReturns(t)
  PROVE  FeedStep
<1>1. /\ UNCHANGED <<chan, changes, chain, terminate, locals>>
      /\ pc[t] \in {"test", "send", "call", "called"} /\ pc \in [PoolThread -> PcType]
      /\ \E x \in {"send", "call", "called", "valid", "invalid"} : pc' = [pc EXCEPT ![t] = x]
  BY DEF Test, Send, Receive, CallReturns, IInv, TypeOK, PcType
<1>2. PICK n \in Node : node[t] = n
  <2>1. node[t] # None  BY <1>1 DEF IInv, Threads
  <2>2. node \in [PoolThread -> Node \cup {None}]  BY DEF IInv, TypeOK
  <2> QED  BY <2>1, <2>2
<1>3. /\ node'[t] = n /\ found'[t] = found[t] /\ deled' = deled
      /\ UNCHANGED Pool /\ changes' = changes /\ Len(changes') = Len(changes)
  BY <1>1, <1>2 DEF locals, chain, Pool
<1>4. Held(t, n) /\ Held(t, n)'
  BY <1>2, <1>3, HeldFact, HeldNext
<1>5. \A m \in Node : n # m => Still(m)
  <2>1. \A u \in PoolThread : u # t => node'[u] = node[u] /\ pc'[u] = pc[u]
    BY <1>1 DEF locals
  <2> QED  BY <1>1, <1>2, <1>3, <2>1, OthersStill DEF chain
<1>6. CASE Test(t) \/ Receive(t)
  <2>1. \/ pc[t] = "test" /\ pc'[t] = IF n \in deled THEN "valid" ELSE "send"
        \/ pc[t] \in {"call", "called"} /\ pc'[t] = "called"
    BY <1>1, <1>2, <1>6 DEF Test, Receive
  <2>2. Still(n)  BY <1>3, <1>4, <2>1 DEF Held, Still
  <2>3. \A m \in Node : Still(m)  BY <1>5, <2>2
  <2> QED  BY <1>3, <2>3, Quiet, FeedStutter
<1>7. /\ Status' = [Status EXCEPT ![n] = StatusOf(n)']
      /\ NextChange' = [NextChange EXCEPT ![n] = NextOf(n)']
      /\ Calling' = IF InCall(n)' THEN Calling \cup {n} ELSE Calling \ {n}
      /\ Status[n] = StatusOf(n) /\ NextChange[n] = NextOf(n)
      /\ n \in Calling <=> InCall(n)
  BY <1>2, <1>5, OneChanges
<1>8. found[t] \in 1..Len(changes) /\ Len(changes) \in Nat
  BY <1>4, Numbers DEF Held, IInv
<1>9. CASE Send(t)
  <2>1. pc[t] = "send" /\ pc'[t] \in {"call", "invalid"}  BY <1>1, <1>9 DEF Send
  <2>2. /\ Status[n] \in {"on", "leaving"} /\ (Status[n] = "on" <=> n \notin deled)
        /\ NextChange[n] = found[t] /\ n \notin Calling
    BY <1>4, <1>7, <2>1 DEF Held
  <2>3. CASE pc'[t] = "call"
    <3>1. Calling' = Calling \cup {n}  BY <1>4, <1>7, <2>3 DEF Held
    <3>2. CASE n \notin deled
      <4>1. StatusOf(n)' = "on" /\ NextOf(n)' = found[t] + 1
        BY <1>3, <1>4, <2>3, <3>2 DEF Held
      <4>2. NextChange' = [NextChange EXCEPT ![n] = NextChange[n] + 1]
        BY <1>7, <2>2, <4>1
      <4>3. Status' = Status
        <5>1. Status' = [Status EXCEPT ![n] = Status[n]]  BY <1>7, <2>2, <3>2, <4>1
        <5> QED  BY <5>1 DEF Status
      <4>4. Feed!Send(n)
        BY <1>3, <1>8, <2>2, <3>1, <3>2, <4>2, <4>3 DEF Feed!Send
      <4> QED  BY <1>2, <4>4 DEF FeedStep, Feed!Next
    <3>3. CASE n \in deled
      <4>1. StatusOf(n)' = "off" /\ NextOf(n)' = 0
        BY <1>3, <1>4, <2>3, <3>3 DEF Held
      <4>2. Feed!Send(n)
        BY <1>3, <1>7, <1>8, <2>2, <3>1, <3>3, <4>1 DEF Feed!Send
      <4> QED  BY <1>2, <4>2 DEF FeedStep, Feed!Next
    <3> QED  BY <3>2, <3>3
  <2>4. CASE pc'[t] = "invalid"
    <3>1. StatusOf(n)' = "off" /\ NextOf(n)' = 0 /\ ~InCall(n)'
      BY <1>3, <1>4, <2>4 DEF Held
    <3>2. Feed!End(n, "off")  BY <1>7, <3>1 DEF Feed!End
    <3>3. Feed!Leave(n)  BY <1>3, <1>7, <2>2, <3>1, <3>2 DEF Feed!Leave
    <3> QED  BY <1>2, <3>3 DEF FeedStep, Feed!Next
  <2> QED  BY <2>1, <2>3, <2>4
<1>10. CASE CallReturns(t)
  <2>1. pc[t] \in {"call", "called"} /\ pc'[t] \in {"valid", "invalid"}
    BY <1>1, <1>10 DEF CallReturns
  <2>2. n \in Calling /\ Calling' = Calling \ {n}  BY <1>4, <1>7, <2>1 DEF Held
  <2>3. \/ StatusOf(n)' = StatusOf(n) /\ NextOf(n)' = NextOf(n)
        \/ StatusOf(n)' = "off" /\ NextOf(n)' = 0
    BY <1>3, <1>4, <2>1 DEF Held
  <2>4. CASE StatusOf(n)' = StatusOf(n) /\ NextOf(n)' = NextOf(n)
    <3>1. UNCHANGED <<NextChange, Status>>
      BY <1>7, <2>4 DEF NextChange, Status
    <3>2. Feed!Return(n)  BY <1>3, <2>2, <3>1 DEF Feed!Return
    <3> QED  BY <1>2, <3>2 DEF FeedStep, Feed!Next
  <2>5. CASE StatusOf(n)' = "off" /\ NextOf(n)' = 0
    <3>1. Feed!Return(n)  BY <1>3, <1>7, <2>2, <2>5 DEF Feed!Return
    <3> QED  BY <1>2, <3>1 DEF FeedStep, Feed!Next
  <2> QED  BY <2>3, <2>4, <2>5
<1> QED  BY <1>6, <1>9, <1>10

LEMMA ReleaseFeed == ASSUME IInv, IInv', NEW t \in PoolThread, Release(t) PROVE FeedStep
<1>1. /\ UNCHANGED <<chan, changes, terminate, at, made>>
      /\ pc[t] \in {"valid", "invalid"}
      /\ IF pc[t] = "valid" THEN deled' = deled ELSE deled' = deled \cup ({node[t]} \ deled)
  BY DEF Release, chain, Mark
<1>2. /\ pc'[t] = "lock" /\ t \in Busy /\ node[t] \in nodes
      /\ \A u \in PoolThread :
           u # t => pc'[u] = pc[u] \/ (pc[u] = "wait" /\ pc'[u] = "lock")
      /\ node' = [node EXCEPT ![t] = None]
  BY ReleaseFact
<1>3. PICK n \in Node : node[t] = n /\ n \in nodes /\ n # None
  BY <1>2, NodeParts DEF IInv, TypeOK
<1>4. /\ node'[t] = None
      /\ \A u \in PoolThread : u # t => node'[u] = node[u]
  BY <1>2 DEF IInv, TypeOK
<1>5. \A u \in PoolThread : node[u] = n => u = t
  BY <1>2, <1>3 DEF IInv, Threads, Busy
<1>6. Held(t, n) /\ Free(n)'
  <2>1. \A u \in PoolThread : node'[u] # n  BY <1>3, <1>4, <1>5
  <2> QED  BY <1>2, <1>3, <2>1, HeldFact, FreeNext
<1>7. ~(made'[n[1]] < n[2])
  <2>1. n[2] <= made[n[1]]  BY <1>3 DEF IInv, Nodes
  <2>2. made[n[1]] \in Nat /\ n[2] \in Nat  BY <1>3, NodeParts, Numbers DEF IInv
  <2> QED  BY <1>1, <2>1, <2>2
<1>8. Still(n)  BY <1>1, <1>3, <1>6, <1>7 DEF Held, Free, Still
<1>9. \A m \in Node : n # m => Still(m)
  <2>1. \A m \in Node : m # n => (m \in deled' <=> m \in deled) /\ at'[m] = at[m]
    BY <1>1, <1>3
  <2>2. \A u \in PoolThread : u # t => pc'[u] = pc[u] \/ pc[u] \in {"lock", "wait", "exit"}
    BY <1>2
  <2>3. UNCHANGED made /\ node[t] \in {n, None} /\ node'[t] \in {n, None}
    BY <1>1, <1>3, <1>4
  <2> QED  BY <1>3, <1>4, <2>1, <2>2, <2>3, OthersStill
<1>10. \A m \in Node : Still(m)  BY <1>8, <1>9
<1> QED  BY <1>1, <1>10, Quiet, FeedStutter DEF Pool

LEMMA DestroyFeed ==
  ASSUME IInv, IInv', Shutdown \/ TerminatePool \/ JoinPool
  PROVE  FeedStep
<1>1. UNCHANGED <<changes, chain, locals>>
  BY DEF Shutdown, TerminatePool, JoinPool
<1>2. \A n \in Node : Still(n)
  <2>1. \A t \in PoolThread : pc'[t] = pc[t] \/ pc[t] \in {"lock", "wait", "exit"}
    <3>1. CASE Shutdown \/ JoinPool  BY <3>1 DEF Shutdown, JoinPool
    <3>2. CASE TerminatePool  BY <3>2, Woken DEF TerminatePool, IInv
    <3> QED  BY <3>1, <3>2
  <2> QED  BY <1>1, <2>1, WokenSame DEF chain, locals
<1>3. UNCHANGED <<Status, NextChange, Calling>> /\ Len(changes') = Len(changes)
  BY <1>1, <1>2, Quiet
<1>4. CASE Shutdown
  BY <1>3, <1>4, FeedStutter DEF Shutdown, Pool, IInv, Ending
<1>5. CASE TerminatePool
  <2>1. Feed!Close  BY <1>3, <1>5 DEF TerminatePool, Pool, Feed!Close
  <2> QED  BY <2>1 DEF FeedStep, Feed!Next
<1>6. CASE JoinPool
  <2>1. Calling = {}  BY <1>6 DEF JoinPool, Calling, Holders, Busy
  <2>2. Feed!Gone  BY <1>3, <1>6, <2>1 DEF JoinPool, Pool, Feed!Gone
  <2> QED  BY <2>2 DEF FeedStep, Feed!Next
<1> QED  BY <1>4, <1>5, <1>6

(* A registration that is marked ends, or is on its way out, if it had not ended before. *)
LEMMA MarkedFact ==
  ASSUME IInv, IInv', NEW n \in Node, n \in nodes \ deled, n \in deled', at'[n] = at[n],
         ~(made'[n[1]] < n[2]), UNCHANGED <<pc, locals>>
  PROVE  /\ InCall(n)' <=> InCall(n)
         /\ \/ StatusOf(n)' = StatusOf(n) /\ NextOf(n)' = NextOf(n)
            \/ StatusOf(n) = "on" /\ StatusOf(n)' = "off" /\ NextOf(n)' = 0
            \/ StatusOf(n) = "on" /\ StatusOf(n)' = "leaving" /\ NextOf(n)' = NextOf(n)
<1>1. CASE \E t \in PoolThread : node[t] = n
  <2>1. PICK t \in PoolThread : node[t] = n  BY <1>1
  <2>2. Held(t, n) /\ Held(t, n)'  BY <2>1, HeldFact, HeldNext DEF locals
  <2> QED  BY <2>2 DEF Held, locals
<1>2. CASE \A t \in PoolThread : node[t] # n
  <2>1. Free(n) /\ Free(n)'  BY <1>2, FreeFact, FreeNext DEF locals
  <2>2. ~(made[n[1]] < n[2])
    <3>1. n[2] <= made[n[1]]  BY DEF IInv, Nodes
    <3>2. made[n[1]] \in Nat /\ n[2] \in Nat  BY NodeParts, Numbers DEF IInv
    <3> QED  BY <3>1, <3>2
  <2> QED  BY <2>1, <2>2 DEF Free
<1> QED  BY <1>1, <1>2

LEMMA ProxyFeed == ASSUME IInv, IInv', NEW p \in Proxy, ProxyMove(p) PROVE FeedStep
<1>1. UNCHANGED <<chan, changes, terminate, pc, locals>>
  BY ProxyTypes DEF IInv
<1>2. UNCHANGED Pool /\ Len(changes') = Len(changes)  BY <1>1 DEF Pool
<1>3. ASSUME UNCHANGED chain  PROVE FeedStep
  <2>1. \A n \in Node : Still(n)  BY <1>1, <1>3, WokenSame DEF chain, locals
  <2> QED  BY <1>2, <2>1, Quiet, FeedStutter
<1>4. ASSUME NEW i \in BOOLEAN, NEW r \in BOOLEAN, InsertAndRemove(p, i, r), ~terminate,
             i => chan = "open"
      PROVE  FeedStep
  <2> DEFINE in == In(p, i)
             out == Out(p, r)
  <2>1. /\ \A n \in in : /\ n = NewNode(p) /\ n \in Node /\ n[1] = p
                         /\ n[2] = made[p] + 1 /\ n \notin nodes \cup deled
        /\ out \in SUBSET nodes /\ deled' = deled \cup out
        /\ \A n \in Node : n \notin in => at'[n] = at[n]
        /\ \A n \in in : at'[n] = CTail
        /\ \A n \in Node : n[2] <= made'[n[1]] <=> n[2] <= made[n[1]] \/ n \in in
    BY <1>4, InsertRemoveFact
  <2>2. /\ nodes \subseteq Node /\ \A n, m \in out : n = m
        /\ \A n \in out : n \in nodes \ deled
        /\ \A n \in Node : made[n[1]] \in Nat /\ made'[n[1]] \in Nat /\ n[2] \in Nat
    BY NodeParts DEF IInv, TypeOK, Registered, Out, Valid
  <2> HIDE DEF in, out
  <2>3. ASSUME NEW n \in Node, n \notin in, n \notin out  PROVE Still(n)
    BY <1>1, <2>1, <2>2, <2>3, SameStill DEF Same, locals
  <2>4. ASSUME NEW m \in Node, m \in in
        PROVE  /\ StatusOf(m) = "none" /\ StatusOf(m)' = "on" /\ ~InCall(m) /\ ~InCall(m)'
               /\ NextOf(m)' = Len(changes) + 1 /\ m \notin out
    <3>1. \A t \in PoolThread : node[t] # m /\ node'[t] # m
      BY <1>1, <2>1, <2>4, NodeParts DEF IInv, Threads, Busy, locals
    <3>2. Free(m) /\ Free(m)'  BY <3>1, FreeFact, FreeNext
    <3>3. m \notin deled' /\ m \notin out  BY <2>1, <2>4
    <3>4. made[m[1]] < m[2] /\ ~(made'[m[1]] < m[2])  BY <2>1, <2>2, <2>4
    <3> QED  BY <2>1, <2>4, <3>2, <3>3, <3>4 DEF Free, CTail
  <2>5. ASSUME NEW n \in Node, n \in out
        PROVE  /\ InCall(n)' <=> InCall(n)
               /\ \/ StatusOf(n)' = StatusOf(n) /\ NextOf(n)' = NextOf(n)
                  \/ StatusOf(n) = "on" /\ StatusOf(n)' = "off" /\ NextOf(n)' = 0
                  \/ StatusOf(n) = "on" /\ StatusOf(n)' = "leaving" /\ NextOf(n)' = NextOf(n)
    <3>1. n \in nodes \ deled /\ n \in deled' /\ n \notin in  BY <2>1, <2>2, <2>5
    <3>2. at'[n] = at[n]  BY <2>1, <3>1
    <3>3. ~(made'[n[1]] < n[2])
      <4>1. n[2] <= made[n[1]]  BY <3>1 DEF IInv, Nodes
      <4> QED  BY <2>1, <2>2, <4>1
    <3> QED  BY <1>1, <3>1, <3>2, <3>3, MarkedFact
  <2>6. CASE in = {} /\ \A n \in out : Still(n)
    <3>1. \A n \in Node : Still(n)  BY <2>3, <2>6
    <3> QED  BY <1>2, <3>1, Quiet, FeedStutter
  <2>7. ASSUME NEW n \in Node, n \in out, ~Still(n)
        PROVE  /\ StatusOf(n) = "on" /\ (InCall(n)' <=> InCall(n))
               /\ \/ StatusOf(n)' = "off" /\ NextOf(n)' = 0
                  \/ StatusOf(n)' = "leaving" /\ NextOf(n)' = NextOf(n)
    BY <2>5, <2>7 DEF Still
  <2>8. ASSUME in = {}, NEW n \in Node, n \in out, ~Still(n)  PROVE FeedStep
    <3>1. \A k \in Node : n # k => Still(k)  BY <2>2, <2>3, <2>8
    <3>2. /\ Status' = [Status EXCEPT ![n] = StatusOf(n)']
          /\ NextChange' = [NextChange EXCEPT ![n] = NextOf(n)']
          /\ Calling' = IF InCall(n)' THEN Calling \cup {n} ELSE Calling \ {n}
          /\ Status[n] = StatusOf(n) /\ NextChange[n] = NextOf(n)
          /\ n \in Calling <=> InCall(n)
      BY <3>1, OneChanges
    <3>3. UNCHANGED Calling /\ Status[n] = "on"  BY <2>7, <2>8, <3>2
    <3>4. Feed!End(n, "off") \/ Feed!End(n, "leaving")
      BY <2>7, <2>8, <3>2 DEF Feed!End
    <3>5. Feed!Leave(n)  BY <1>2, <3>3, <3>4 DEF Feed!Leave
    <3> QED  BY <3>5 DEF FeedStep, Feed!Next
  <2>9. ASSUME NEW m \in Node, m \in in  PROVE FeedStep
    <3>1. Pool = "open"
      BY <1>4, <2>9 DEF Pool, In, in
    <3>2. in = {m}  BY <2>9 DEF In, in
    <3>3. CASE \A n \in out : Still(n)
      <4>1. \A k \in Node : m # k => Still(k)  BY <2>3, <3>2, <3>3
      <4>2. /\ Status' = [Status EXCEPT ![m] = StatusOf(m)']
            /\ NextChange' = [NextChange EXCEPT ![m] = NextOf(m)']
            /\ Calling' = IF InCall(m)' THEN Calling \cup {m} ELSE Calling \ {m}
            /\ Status[m] = StatusOf(m) /\ (m \in Calling <=> InCall(m))
        BY <4>1, OneChanges
      <4>3. UNCHANGED Calling /\ Status[m] = "none"  BY <2>4, <2>9, <4>2
      <4>4. Feed!Register(m)
        BY <1>2, <2>4, <2>9, <3>1, <4>2, <4>3 DEF Feed!Register
      <4> QED  BY <4>4 DEF FeedStep, Feed!Next
    <3>4. ASSUME NEW n \in Node, n \in out, ~Still(n)  PROVE FeedStep
      <4>1. \A k \in Node : m # k /\ n # k => Still(k)  BY <2>2, <2>3, <3>2, <3>4
      <4>2. n # m  BY <2>4, <2>9, <3>4
      <4>3. /\ Status' = [Status EXCEPT ![n] = StatusOf(n)', ![m] = StatusOf(m)']
            /\ NextChange' = [NextChange EXCEPT ![n] = NextOf(n)', ![m] = NextOf(m)']
            /\ \A k \in Node : InCall(k)' <=> InCall(k)
            /\ Status[n] = StatusOf(n) /\ Status[m] = StatusOf(m)
            /\ NextChange[n] = NextOf(n)
        BY <2>4, <2>7, <2>9, <3>4, <4>1, <4>2, TwoChange
      <4>4. UNCHANGED Calling
        <5>1. Calling = {k \in Node : InCall(k)} /\ Calling' = {k \in Node : InCall(k)'}
          BY DEF Calling, InCall
        <5> QED  BY <4>3, <5>1
      <4>5. Status[n] = "on" /\ Status[m] = "none"  BY <2>4, <2>7, <2>9, <3>4, <4>3
      <4>6. CASE StatusOf(n)' = "off" /\ NextOf(n)' = 0
        <5>1. Feed!Renew(n, m)
          BY <1>2, <2>4, <2>9, <3>1, <4>3, <4>4, <4>5, <4>6 DEF Feed!Renew
        <5> QED  BY <5>1 DEF FeedStep, Feed!Next
      <4>7. CASE StatusOf(n)' = "leaving" /\ NextOf(n)' = NextOf(n)
        <5>1. Feed!Renew(n, m)
          BY <1>2, <2>4, <2>9, <3>1, <4>3, <4>4, <4>5, <4>7 DEF Feed!Renew
        <5> QED  BY <5>1 DEF FeedStep, Feed!Next
      <4> QED  BY <2>7, <3>4, <4>6, <4>7
    <3> QED  BY <2>1, <2>2, <3>3, <3>4
  <2> QED
    <3>1. \A n \in out : n \in Node  BY <2>1, <2>2
    <3>2. \A n \in in : n \in Node  BY <2>1
    <3> QED  BY <2>6, <2>8, <2>9, <3>1, <3>2
<1>5. UNCHANGED chain
      \/ \E i, r \in BOOLEAN :
           InsertAndRemove(p, i, r) /\ (i => chan = "open") /\ ~terminate
  <2>1. UNCHANGED chain
        \/ \E i, r \in BOOLEAN : InsertAndRemove(p, i, r) /\ (i => chan = "open")
    BY ProxyFact
  <2> QED  BY <2>1 DEF InsertAndRemove
<1> QED  BY <1>3, <1>4, <1>5

-----------------------------------------------------------------------------
LEMMA FeedStart == ASSUME Init PROVE Feed!Init
<1>1. \A n \in Node : n[1] \in Proxy /\ n[2] \in 1..MaxInserts  BY NodeParts
<1>2. Len(changes) = 0 /\ Pool = "open"  BY EmptySeq DEF Init, Pool
<1>3. \A n \in Node : StatusOf(n) = "none"
  <2>1. \A n \in Node : made[n[1]] = 0 /\ n[2] > 0  BY <1>1 DEF Init
  <2> QED  BY <2>1 DEF StatusOf
<1>4. \A n \in Node : NextOf(n) = 0  BY <1>3 DEF NextOf
<1>5. Calling = {}  BY DEF Calling, Holders, Busy, Init
<1> QED  BY <1>2, <1>3, <1>4, <1>5 DEF Feed!Init, Status, NextChange

LEMMA FeedNext == ASSUME IInv, IInv', [Next]_vars PROVE FeedStep
<1>1. ASSUME NEW added \in SUBSET EventType, NEW dropped \in SUBSET (EventType \ added),
             PropagateOchange(added, dropped)
      PROVE  FeedStep
  BY <1>1, PropagateFeed
<1>2. ASSUME NEW p \in Proxy, ProxyMove(p)  PROVE FeedStep
  BY <1>2, ProxyFeed
<1>3. ASSUME NEW t \in PoolThread, Notify(t) \/ Receive(t)  PROVE FeedStep
  BY <1>3, LockFeed, OnwardFeed, ReleaseFeed DEF Notify
<1>4. CASE Shutdown \/ TerminatePool \/ JoinPool  BY <1>4, DestroyFeed
<1>5. ASSUME UNCHANGED vars \/ \E p \in Proxy : Aside(p)  PROVE FeedStep
  <2>1. UNCHANGED <<changes, chain, chan, terminate, pc, locals>>
    BY <1>5 DEF vars, Aside, Answer, Dispose
  <2>2. \A n \in Node : Still(n)  BY <2>1, WokenSame DEF chain, locals
  <2> QED  BY <2>1, <2>2, Quiet, FeedStutter DEF Pool
<1> QED  BY <1>1, <1>2, <1>3, <1>4, <1>5 DEF Next, ProxyMove, Aside

(* The pool keeps its promise: with its chain of entries, its threads and its garbage *)
(* collection it does nothing that ChangeFeed does not allow, so each registration is *)
(* sent every change from then on, once and in order, and at most one after its end.  *)
THEOREM PoolIsFeed == Spec => FeedSpec
<1>1. Init => Feed!Init  BY FeedStart
<1>2. IInv /\ IInv' /\ [Next]_vars => [Feed!Next]_(Feed!vars)  BY FeedNext DEF FeedStep
<1> QED  BY <1>1, <1>2, Invariance, PTL DEF Spec, FeedSpec, Feed!Spec

-----------------------------------------------------------------------------
(* What the clients know                                                   *)

(* What somebody who knows the types in set S knows after the k-th and all *)
(* later changes of c: the last change that mentions a type decides.       *)
Result(c, S, k) ==
  {x \in EventType :
     \/ x \in S /\ \A i \in k..Len(c) : x \notin c[i].deled
     \/ \E j \in k..Len(c) : x \in c[j].added /\ \A i \in j..Len(c) : x \notin c[i].deled}

(* A client whose node goes on with the k-th change comes to know what is offered, from *)
(* what it knows or, as long as one is on its way, from the snapshot.                   *)
WillKnow(p, k) ==
  /\ answer[p] = {} => Result(changes, told[p], k) = Offered
  /\ \A types \in answer[p] : Result(changes, types, k) = Offered

(* The first change that the client of a thread's node has yet to get. *)
Place(t) == IF pc[t] \in {"test", "send", "call"} THEN found[t] ELSE found[t] + 1

(* How the client of a thread's node stands: nothing is said of it once the call has    *)
(* failed; when it has got the change it has the snapshot too, and may get it again.    *)
HeldKnows(p, t) ==
  pc[t] # "invalid" =>
    /\ WillKnow(p, Place(t))
    /\ pc[t] = "called" => answer[p] = {} /\ Learnt(told[p], changes[found[t]]) = told[p]

Knows(p, n) ==
  /\ (\A t \in PoolThread : node[t] # n) => WillKnow(p, at[n])
  /\ \A t \in PoolThread : node[t] = n => HeldKnows(p, t)

(* A client that asked for a snapshot is connected, and the changes its node has yet to *)
(* go through turn what the client knows into what is offered.                          *)
ToldInv ==
  /\ \A p \in Proxy : p \in asked \/ answer[p] # {} => pxstate[p] = "Connected"
  /\ chan = "open" => \A p \in asked \ crossed : \A n \in Valid(p) : Knows(p, n)

LEMMA ResultEnd ==
  ASSUME NEW c, Len(c) \in Nat, NEW S \in SUBSET EventType
  PROVE  Result(c, S, Len(c) + 1) = S
BY DEF Result

LEMMA ResultFirst ==
  ASSUME NEW c, Len(c) \in Nat, NEW S, NEW k \in 1..Len(c)
  PROVE  Result(c, S, k) = Result(c, Learnt(S, c[k]), k + 1)
<1>1. \A i : i \in k..Len(c) <=> i = k \/ i \in (k + 1)..Len(c)
  OBVIOUS
<1>2. ASSUME NEW x \in EventType, x \in Result(c, S, k)
      PROVE  x \in Result(c, Learnt(S, c[k]), k + 1)
  BY <1>1, <1>2 DEF Result, Learnt
<1>3. ASSUME NEW x \in EventType, x \in Result(c, Learnt(S, c[k]), k + 1)
      PROVE  x \in Result(c, S, k)
  BY <1>1, <1>3 DEF Result, Learnt
<1>4. /\ \A x \in Result(c, S, k) : x \in EventType
      /\ \A x \in Result(c, Learnt(S, c[k]), k + 1) : x \in EventType
  BY DEF Result
<1> QED  BY <1>2, <1>3, <1>4

LEMMA ResultLast ==
  ASSUME NEW c \in Seq(Change), NEW S, NEW k \in 1..(Len(c) + 1), NEW ch \in Change
  PROVE  Result(Append(c, ch), S, k) = Learnt(Result(c, S, k), ch)
<1>1. PICK d : d = Append(c, ch)  OBVIOUS
<1>2. /\ Len(c) \in Nat /\ Len(d) = Len(c) + 1 /\ d[Len(c) + 1] = ch
      /\ \A i \in 1..Len(c) : d[i] = c[i]
  BY <1>1, AppendProperties, LenProperties
<1>3. \A j \in k..(Len(c) + 1) : \A i : i \in j..Len(d) <=> i = Len(c) + 1 \/ i \in j..Len(c)
  BY <1>2
<1>4. \A i \in k..Len(c) : i \in 1..Len(c) /\ d[i] = c[i]
  BY <1>2
<1>5. \A j \in k..Len(c) : \A i \in j..Len(c) : d[i] = c[i]
  BY <1>2
<1>6. ASSUME NEW x \in EventType, x \in Result(d, S, k)
      PROVE  x \in Learnt(Result(c, S, k), ch)
  <2>1. x \notin ch.deled
    BY <1>2, <1>6 DEF Result
  <2>2. CASE x \in S /\ \A i \in k..Len(d) : x \notin d[i].deled
    <3>1. \A i \in k..Len(c) : x \notin c[i].deled
      BY <1>2, <1>4, <2>2
    <3> QED  BY <2>1, <2>2, <3>1 DEF Result, Learnt
  <2>3. ASSUME NEW j \in k..Len(d), x \in d[j].added, \A i \in j..Len(d) : x \notin d[i].deled
        PROVE  x \in Learnt(Result(c, S, k), ch)
    <3>1. CASE j = Len(c) + 1
      BY <1>2, <2>1, <2>3, <3>1 DEF Learnt
    <3>2. CASE j # Len(c) + 1
      <4>1. j \in k..Len(c) /\ x \in c[j].added
        BY <1>2, <1>4, <2>3, <3>2
      <4>2. \A i \in j..Len(c) : x \notin c[i].deled
        BY <1>2, <1>5, <2>3, <4>1
      <4> QED  BY <2>1, <4>1, <4>2 DEF Result, Learnt
    <3> QED  BY <3>1, <3>2
  <2> QED  BY <1>6, <2>2, <2>3 DEF Result
<1>7. ASSUME NEW x \in EventType, x \in Learnt(Result(c, S, k), ch)
      PROVE  x \in Result(d, S, k)
  <2>1. x \notin ch.deled
    BY <1>7 DEF Learnt
  <2>2. CASE x \in ch.added
    <3>1. Len(c) + 1 \in k..Len(d) /\ \A i \in (Len(c) + 1)..Len(d) : i = Len(c) + 1
      BY <1>2
    <3> QED  BY <1>2, <2>1, <2>2, <3>1 DEF Result
  <2>3. CASE x \in S /\ \A i \in k..Len(c) : x \notin c[i].deled
    <3>1. \A i \in k..Len(d) : x \notin d[i].deled
      BY <1>2, <1>4, <2>1, <2>3
    <3> QED  BY <2>3, <3>1 DEF Result
  <2>4. ASSUME NEW j \in k..Len(c), x \in c[j].added, \A i \in j..Len(c) : x \notin c[i].deled
        PROVE  x \in Result(d, S, k)
    <3>1. j \in k..Len(d) /\ x \in d[j].added
      BY <1>2, <1>4, <2>4
    <3>2. \A i \in j..Len(d) : x \notin d[i].deled
      BY <1>2, <1>5, <2>1, <2>4
    <3> QED  BY <3>1, <3>2 DEF Result
  <2> QED  BY <1>7, <2>2, <2>3, <2>4 DEF Result, Learnt
<1>8. /\ \A x \in Result(d, S, k) : x \in EventType
      /\ \A x \in Learnt(Result(c, S, k), ch) : x \in EventType
  BY DEF Result, Learnt, Change
<1> QED  BY <1>1, <1>6, <1>7, <1>8

(* A registration of types: what is offered changes as a change recorded says; it is *)
(* not recorded if it says nothing or there is nobody to be told.                    *)
LEMMA PropagateFact ==
  ASSUME IInv, NEW added \in SUBSET EventType, NEW dropped \in SUBSET (EventType \ added),
         PropagateOchange(added, dropped)
  PROVE  \/ UNCHANGED <<changes, pc>> /\ (Offered' = Offered \/ nodes \subseteq deled)
         \/ /\ Broadcast
            /\ \E ch \in Change :
                 changes' = Append(changes, ch) /\ Offered' = Learnt(Offered, ch)
<1> DEFINE more == [t \in EventType |-> IF t \in added THEN evtypes[t] + 1 ELSE evtypes[t]]
           gone == {t \in dropped : more[t] = 1}
           new == added \ Offered
<1>1. /\ evtypes' = [t \in EventType |->
                       IF t \in dropped /\ more[t] > 0 THEN more[t] - 1 ELSE more[t]]
      /\ IF new \cup gone = {} THEN UNCHANGED <<changes, head, pc>> ELSE InsertChange(new, gone)
      /\ chan = "open"
  BY DEF PropagateOchange
<1>0. ~terminate /\ \A t \in EventType : evtypes[t] \in Nat
  BY <1>1, Numbers DEF IInv, TypeOK, Ending
<1>2. \A t \in EventType : more[t] = IF t \in added THEN evtypes[t] + 1 ELSE evtypes[t]
  OBVIOUS
<1>3. gone \in SUBSET EventType /\ new \in SUBSET EventType /\ new \cap Offered = {}
      /\ \A t \in EventType : t \in gone <=> t \in dropped /\ evtypes[t] = 1
  BY <1>2
<1> HIDE DEF more, gone
<1>4. ASSUME NEW t \in EventType
      PROVE  evtypes'[t] > 0 <=> (evtypes[t] > 0 \/ t \in added) /\ t \notin gone
  <2>1. evtypes'[t] = IF t \in dropped /\ more[t] > 0 THEN more[t] - 1 ELSE more[t]
    BY <1>1
  <2> QED  BY <1>0, <1>2, <1>3, <2>1
<1>5. Offered' = {t \in EventType : evtypes'[t] > 0}
  BY DEF Offered
<1>6. Offered' = (Offered \cup new) \ gone
  BY <1>4, <1>5 DEF Offered
<1> HIDE DEF new
<1>7. CASE new \cup gone = {}
  BY <1>1, <1>6, <1>7
<1>8. CASE new \cup gone # {}
  <2>1. PICK ch \in Change : ch = [added |-> new, deled |-> gone]
    BY <1>3 DEF Change
  <2>2. Offered' = Learnt(Offered, ch)
    BY <1>6, <2>1 DEF Learnt
  <2> QED  BY <1>0, <1>1, <1>8, <2>1, <2>2 DEF InsertChange
<1> QED  BY <1>7, <1>8

(* Nothing happens to the client of a node. *)
LEMMA KnowsSame ==
  ASSUME NEW p, NEW n \in Node, Knows(p, n), UNCHANGED changes, Offered' = Offered,
         answer'[p] = answer[p], answer[p] = {} => told'[p] = told[p], at'[n] = at[n],
         \A t \in PoolThread : node'[t] = n <=> node[t] = n,
         \A t \in PoolThread : node[t] = n => pc'[t] = pc[t] /\ found'[t] = found[t]
  PROVE  Knows(p, n)'
<1>1. ASSUME NEW k, WillKnow(p, k)  PROVE WillKnow(p, k)'
  BY <1>1 DEF WillKnow
<1>2. ASSUME NEW t \in PoolThread, node[t] = n, HeldKnows(p, t)  PROVE HeldKnows(p, t)'
  <2>1. Place(t)' = Place(t)  BY <1>2 DEF Place
  <2>2. CASE pc[t] = "invalid"  BY <1>2, <2>2 DEF HeldKnows
  <2>3. CASE pc[t] # "invalid"
    <3>1. WillKnow(p, Place(t))'  BY <1>1, <1>2, <2>1, <2>3 DEF HeldKnows, WillKnow
    <3> QED  BY <1>2, <2>3, <3>1 DEF HeldKnows
  <2> QED  BY <2>2, <2>3
<1>3. CASE \A t \in PoolThread : node[t] # n
  <2>1. WillKnow(p, at[n])'  BY <1>3 DEF Knows, WillKnow
  <2> QED  BY <1>3, <2>1 DEF Knows
<1>4. CASE \E t \in PoolThread : node[t] = n
  BY <1>2, <1>4 DEF Knows
<1> QED  BY <1>3, <1>4

(* What is to be shown of a step. *)
LEMMA ToldNext ==
  ASSUME ToldInv, chan' = "open" => chan = "open", asked' \subseteq Proxy,
         \A p \in Proxy : p \in asked' \/ answer'[p] # {} => pxstate'[p] = "Connected",
         chan' = "open" =>
           \A p \in asked' \ crossed' : \A n \in nodes' \ deled' : n[1] = p =>
             \/ Knows(p, n)'
             \/ p \in asked \ crossed /\ n \in nodes \ deled /\ (Knows(p, n) => Knows(p, n)')
  PROVE  ToldInv'
<1>1. \A p : Valid(p)' = {n \in nodes' \ deled' : n[1] = p}
  BY DEF Valid
<1>2. ASSUME chan' = "open", NEW p \in asked' \ crossed', NEW n \in nodes' \ deled', n[1] = p
      PROVE  Knows(p, n)'
  <2>1. CASE p \in asked \ crossed /\ n \in nodes \ deled
    <3>1. Knows(p, n)  BY <1>2, <2>1 DEF ToldInv, Valid
    <3> QED  BY <1>2, <3>1
  <2> QED  BY <1>2, <2>1
<1>3. chan' = "open" => \A p \in asked' \ crossed' : \A n \in Valid(p)' : Knows(p, n)'
  BY <1>1, <1>2
<1> QED  BY <1>3 DEF ToldInv

LEMMA PropagateTold ==
  ASSUME IInv, ToldInv, NEW added \in SUBSET EventType,
         NEW dropped \in SUBSET (EventType \ added), PropagateOchange(added, dropped)
  PROVE  ToldInv'
<1>1. /\ chan = "open"
      /\ UNCHANGED <<chan, proxies, nodes, at, deled, made, terminate, locals, hist>>
      /\ UNCHANGED <<pxstate, node, found, asked, told, answer, crossed>>
      /\ TypeOK /\ nodes \subseteq Node /\ asked \subseteq Proxy
  BY DEF PropagateOchange, proxies, locals, hist, IInv, TypeOK
<1>2. \A p \in Proxy : p \in asked' \/ answer'[p] # {} => pxstate'[p] = "Connected"
  BY <1>1 DEF ToldInv
<1>3. CASE nodes \subseteq deled
  BY <1>1, <1>2, <1>3 DEF ToldInv, Valid
<1>4. CASE UNCHANGED <<changes, pc>> /\ Offered' = Offered
  <2>1. \A p \in asked' \ crossed' : \A n \in nodes' \ deled' : Knows(p, n) => Knows(p, n)'
    BY <1>1, <1>4, KnowsSame
  <2> QED  BY <1>1, <1>2, <2>1, ToldNext
<1>5. ASSUME Broadcast, NEW ch \in Change,
             changes' = Append(changes, ch), Offered' = Learnt(Offered, ch)
      PROVE  ToldInv'
  <2>1. changes \in Seq(Change) /\ Len(changes) \in Nat
        /\ \A k \in 1..Len(changes) : changes'[k] = changes[k]
    BY <1>1, <1>5, AppendProperties, LenProperties DEF TypeOK, Change
  <2>2. ASSUME NEW p \in Proxy, NEW k \in 1..(Len(changes) + 1), WillKnow(p, k)
        PROVE  WillKnow(p, k)'
    <3>1. ASSUME NEW S, Result(changes, S, k) = Offered  PROVE Result(changes', S, k) = Offered'
      BY <1>5, <2>1, <3>1, ResultLast
    <3> QED  BY <1>1, <2>2, <3>1 DEF WillKnow
  <2>3. ASSUME NEW p \in Proxy, NEW n \in nodes, Knows(p, n)  PROVE Knows(p, n)'
    <3>1. n \in Node /\ n # None /\ at[n] \in 1..(Len(changes) + 1)
      BY <1>1, NodeParts, Numbers DEF IInv, Nodes
    <3>2. CASE \A t \in PoolThread : node[t] # n
      <4>1. WillKnow(p, at[n])'
        <5>1. at'[n] = at[n]  BY <1>1
        <5>2. WillKnow(p, at[n])  BY <2>3, <3>2 DEF Knows
        <5>3. \A k \in 1..(Len(changes) + 1) : WillKnow(p, k) => WillKnow(p, k)'  BY <2>2
        <5> QED  BY <3>1, <5>1, <5>2, <5>3 DEF WillKnow
      <4> QED  BY <1>1, <3>2, <4>1 DEF Knows
    <3>3. ASSUME NEW t \in PoolThread, node[t] = n  PROVE HeldKnows(p, t)'
      <4>1. /\ found[t] \in 1..Len(changes) /\ pc'[t] = pc[t] /\ found'[t] = found[t]
            /\ changes'[found[t]] = changes[found[t]]
        <5>1. Held(t, n)  BY <3>1, <3>3, HeldFact
        <5>2. pc[t] \notin {"lock", "wait", "exit"}
          BY <3>1, <3>3 DEF IInv, Threads
        <5>3. pc'[t] = pc[t]  BY <1>1, <1>5, <5>2, Woken
        <5> QED  BY <1>1, <2>1, <5>1, <5>3 DEF Held
      <4>2. Place(t)' = Place(t) /\ Place(t) \in 1..(Len(changes) + 1)
        BY <2>1, <4>1 DEF Place
      <4>3. HeldKnows(p, t)  BY <2>3, <3>3 DEF Knows
      <4>4. CASE pc[t] # "invalid"
        <5>1. WillKnow(p, Place(t))  BY <4>3, <4>4 DEF HeldKnows
        <5>2. \A k \in 1..(Len(changes) + 1) : WillKnow(p, k) => WillKnow(p, k)'  BY <2>2
        <5>3. WillKnow(p, Place(t))'  BY <4>2, <5>1, <5>2 DEF WillKnow
        <5> QED  BY <1>1, <4>1, <4>3, <4>4, <5>3 DEF HeldKnows
      <4> QED  BY <4>1, <4>4 DEF HeldKnows
    <3> QED  BY <1>1, <3>2, <3>3 DEF Knows
  <2>4. \A p \in asked' \ crossed' : \A n \in nodes' \ deled' : Knows(p, n) => Knows(p, n)'
    BY <1>1, <2>3
  <2> QED  BY <1>1, <1>2, <2>4, ToldNext
<1> QED  BY <1>3, <1>4, <1>5, PropagateFact

LEMMA ProxyTold ==
  ASSUME IInv, IInv', ToldInv, NEW p \in Proxy, ProxyMove(p)
  PROVE  ToldInv'
<1>1. /\ UNCHANGED <<evtypes, chan, changes, terminate, pc, node, found>> /\ Offered' = Offered
      /\ TypeOK /\ (chan = "open" => ~terminate) /\ nodes \subseteq Node /\ asked \subseteq Proxy
      /\ asked' \subseteq Proxy
  BY ProxyTypes DEF locals, Offered, IInv, Ending, TypeOK
<1>2. ASSUME NEW n \in nodes' \ deled', n \in nodes, at'[n] = at[n], NEW q \in Proxy,
             answer'[q] = answer[q], told'[q] = told[q], Knows(q, n)
      PROVE  Knows(q, n)'
  BY <1>1, <1>2, KnowsSame
<1>3. ASSUME chan = "open", NEW i \in BOOLEAN, NEW r \in BOOLEAN, InsertAndRemove(p, i, r),
             NEW n \in nodes' \ deled'
      PROVE  \/ /\ i /\ n[1] = p /\ at'[n] = CTail /\ \A t \in PoolThread : node'[t] # n
             \/ n \in nodes \ deled /\ at'[n] = at[n] /\ (r => n[1] # p)
  <2>1. /\ \A m \in In(p, i) : m \in Node /\ m[1] = p /\ m \notin nodes \cup deled
        /\ deled' = deled \cup Out(p, r) /\ nodes' \subseteq nodes \cup In(p, i)
        /\ \A m \in Node : m \notin In(p, i) => at'[m] = at[m]
        /\ \A m \in In(p, i) : at'[m] = CTail
    BY <1>1, <1>3, InsertRemoveFact
  <2>2. CASE n \in In(p, i)
    <3>1. \A t \in PoolThread : node'[t] # n
      BY <1>1, <2>1, <2>2, NodeParts DEF IInv, Threads, Busy
    <3> QED  BY <2>1, <2>2, <3>1 DEF In
  <2>3. CASE n \notin In(p, i)
    <3>1. n \in nodes \ deled /\ n \in Node /\ (r => n \notin Valid(p))
      BY <1>1, <1>3, <2>1, <2>3 DEF Out
    <3> QED  BY <2>1, <2>3, <3>1 DEF Valid
  <2> QED  BY <2>2, <2>3
<1>4. CASE UNCHANGED chain /\ UNCHANGED hist /\ pxstate[p] # "Connected" /\ pxstate' = pxstate
  <2>1. UNCHANGED <<nodes, deled, at, asked, told, answer, crossed, pxstate>>
    BY <1>4 DEF chain, hist
  <2>2. chan' = "open" => \A q \in asked' \ crossed' : \A n \in nodes' \ deled' : n[1] = q =>
          q \in asked \ crossed /\ n \in nodes \ deled /\ (Knows(q, n) => Knows(q, n)')
    BY <1>1, <1>2, <2>1
  <2>3. \A q \in Proxy : q \in asked' \/ answer'[q] # {} => pxstate'[q] = "Connected"
    BY <2>1 DEF ToldInv
  <2> QED  BY <1>1, <2>2, <2>3, ToldNext
<1>5. CASE Connect(p) \/ DisableUpdates(p)
  <2>1. chan = "open" => \E r \in BOOLEAN, i \in BOOLEAN :
          InsertAndRemove(p, i, r) /\ (i => p \notin asked)
    <3>1. (~off[p] /\ chan = "open") \in BOOLEAN /\ WasOn(p) \in BOOLEAN
      BY <1>1 DEF WasOn, TypeOK
    <3> QED  BY <1>5, <3>1 DEF Connect, DisableUpdates, ToldInv
  <2>2. /\ UNCHANGED <<asked, told, answer, crossed>>
        /\ \A q \in Proxy : pxstate[q] = "Connected" => pxstate'[q] = "Connected"
    BY <1>1, <1>5 DEF Connect, DisableUpdates, hist, TypeOK
  <2>3. chan' = "open" => \A q \in asked' \ crossed' : \A n \in nodes' \ deled' : n[1] = q =>
          q \in asked \ crossed /\ n \in nodes \ deled /\ (Knows(q, n) => Knows(q, n)')
    BY <1>1, <1>2, <1>3, <2>1, <2>2
  <2>4. \A q \in Proxy : q \in asked' \/ answer'[q] # {} => pxstate'[q] = "Connected"
    BY <2>2 DEF ToldInv
  <2> QED  BY <1>1, <2>3, <2>4, ToldNext
<1>6. CASE Leave(p)
  <2>1. chan = "open" => UNCHANGED chain \/ \E r \in BOOLEAN : InsertAndRemove(p, FALSE, r)
    <3>1. (WasOn(p) /\ chan = "open") \in BOOLEAN  BY <1>1 DEF WasOn, TypeOK
    <3> QED  BY <1>6, <3>1 DEF Leave
  <2>2. /\ asked' = asked \ {p} /\ crossed' = crossed \ {p} /\ answer'[p] = {}
        /\ \A q \in Proxy : q # p => /\ told'[q] = told[q] /\ answer'[q] = answer[q]
                                     /\ pxstate'[q] = pxstate[q]
    BY <1>1, <1>6 DEF Leave, TypeOK
  <2>3. ASSUME chan = "open", NEW n \in nodes' \ deled'
        PROVE  n \in nodes \ deled /\ at'[n] = at[n]
    BY <1>3, <2>1, <2>3 DEF chain
  <2>4. chan' = "open" => \A q \in asked' \ crossed' : \A n \in nodes' \ deled' : n[1] = q =>
          q \in asked \ crossed /\ n \in nodes \ deled /\ (Knows(q, n) => Knows(q, n)')
    BY <1>1, <1>2, <2>2, <2>3
  <2>5. \A q \in Proxy : q \in asked' \/ answer'[q] # {} => pxstate'[q] = "Connected"
    BY <2>2 DEF ToldInv
  <2> QED  BY <1>1, <2>4, <2>5, ToldNext
<1>7. ASSUME NEW now \in BOOLEAN, EnableUpdates(p, now), pxstate[p] = "Connected"
      PROVE  ToldInv'
  <2>1. /\ chan = "open" /\ InsertAndRemove(p, TRUE, WasOn(p)) /\ WasOn(p) \in BOOLEAN
        /\ asked' = IF now THEN asked \cup {p} ELSE asked \ {p}
        /\ answer' = [answer EXCEPT ![p] = IF now THEN {Offered} ELSE {}]
        /\ crossed' = crossed \ {p} /\ told' = told /\ Usable(p) /\ pxstate' = pxstate
    BY <1>1, <1>7 DEF EnableUpdates, WasOn, TypeOK
  <2>2. ~WasOn(p) => Valid(p) = {}  BY <2>1 DEF IInv, Registered
  <2>3. /\ answer'[p] = IF now THEN {Offered} ELSE {}
        /\ \A q \in Proxy : q # p => answer'[q] = answer[q]
    BY <1>1, <2>1 DEF TypeOK
  <2>4. ASSUME NEW n \in nodes' \ deled', n[1] = p, now  PROVE Knows(p, n)'
    <3>1. at'[n] = CTail /\ \A t \in PoolThread : node'[t] # n
      BY <1>3, <2>1, <2>2, <2>4 DEF Valid
    <3>2. Offered \in SUBSET EventType /\ CTail = Len(changes) + 1 /\ Len(changes) \in Nat
      BY <1>1, Numbers DEF Offered
    <3>3. Result(changes', Offered', at'[n]) = Offered'
      BY <1>1, <3>1, <3>2, ResultEnd
    <3>4. answer'[p] = {Offered'}  BY <1>1, <2>3, <2>4
    <3>5. WillKnow(p, at[n])'  BY <3>3, <3>4 DEF WillKnow
    <3> QED  BY <3>1, <3>5 DEF Knows
  <2>5. ASSUME NEW q \in asked' \ crossed', NEW n \in nodes' \ deled', n[1] = q, q # p
        PROVE  q \in asked \ crossed /\ n \in nodes \ deled /\ (Knows(q, n) => Knows(q, n)')
    <3>1. n \in nodes \ deled /\ at'[n] = at[n]  BY <1>3, <2>1, <2>5
    <3> QED  BY <1>1, <1>2, <2>1, <2>3, <2>5, <3>1
  <2>6. \A q \in Proxy : q \in asked' \/ answer'[q] # {} => pxstate'[q] = "Connected"
    BY <1>7, <2>1, <2>3 DEF ToldInv
  <2>7. p \in asked' => now  BY <2>1
  <2>8. \A q \in asked' \ crossed' : \A n \in nodes' \ deled' : n[1] = q =>
          \/ Knows(q, n)'
          \/ q \in asked \ crossed /\ n \in nodes \ deled /\ (Knows(q, n) => Knows(q, n)')
    BY <2>4, <2>5, <2>7
  <2> QED  BY <1>1, <2>6, <2>8, ToldNext
<1>8. ASSUME NEW now \in BOOLEAN, EnableUpdates(p, now), pxstate[p] # "Connected"
      PROVE  ToldInv'
  BY <1>4, <1>8 DEF EnableUpdates
<1> QED  BY <1>5, <1>6, <1>7, <1>8 DEF ProxyMove

(* The snapshot arrives, or a proxy is disposed of. *)
LEMMA AsideTold == ASSUME IInv, ToldInv, NEW p \in Proxy, Aside(p) PROVE ToldInv'
<1>1. /\ UNCHANGED <<evtypes, chan, changes, nodes, deled, at, pc, node, found, asked, crossed>>
      /\ Offered' = Offered /\ TypeOK /\ nodes \subseteq Node /\ asked \subseteq Proxy
  BY DEF Aside, Answer, Dispose, chain, locals, hist, Offered, IInv, TypeOK
<1>2. CASE Dispose(p)
  <2>1. UNCHANGED <<told, answer>> /\ \A q \in Proxy : pxstate[q] = "Connected" => q # p
    BY <1>2 DEF Dispose, hist
  <2>2. \A q \in Proxy : pxstate[q] = "Connected" => pxstate'[q] = "Connected"
    BY <1>1, <1>2, <2>1 DEF Dispose, TypeOK
  <2>3. \A q \in Proxy : q \in asked' \/ answer'[q] # {} => pxstate'[q] = "Connected"
    BY <1>1, <2>1, <2>2 DEF ToldInv
  <2>4. \A q \in asked' \ crossed' : \A n \in nodes' \ deled' : Knows(q, n) => Knows(q, n)'
    BY <1>1, <2>1, KnowsSame
  <2> QED  BY <1>1, <2>3, <2>4, ToldNext
<1>3. CASE Answer(p)
  <2>1. PICK types \in answer[p] : told' = [told EXCEPT ![p] = types]  BY <1>3 DEF Answer
  <2>2. /\ told'[p] = types /\ answer'[p] = {} /\ pxstate' = pxstate
        /\ \A q \in Proxy : q # p => told'[q] = told[q] /\ answer'[q] = answer[q]
    BY <1>1, <1>3, <2>1 DEF Answer, TypeOK, proxies
  <2>3. \A q \in Proxy : q \in asked' \/ answer'[q] # {} => pxstate'[q] = "Connected"
    BY <1>1, <2>2 DEF ToldInv
  <2>4. ASSUME NEW k, WillKnow(p, k)  PROVE Result(changes, types, k) = Offered
    BY <2>1, <2>4 DEF WillKnow
  <2>5. ASSUME NEW n \in nodes' \ deled', Knows(p, n)  PROVE Knows(p, n)'
    <3>1. CASE \A t \in PoolThread : node[t] # n
      <4>1. Result(changes, types, at[n]) = Offered  BY <2>4, <2>5, <3>1 DEF Knows
      <4> QED  BY <1>1, <2>2, <3>1, <4>1 DEF Knows, WillKnow
    <3>2. ASSUME NEW t \in PoolThread, node[t] = n  PROVE HeldKnows(p, t)'
      <4>1. HeldKnows(p, t) /\ Place(t)' = Place(t)  BY <1>1, <2>5, <3>2 DEF Knows, Place
      <4>2. CASE pc[t] # "invalid"
        <5>1. Result(changes, types, Place(t)) = Offered /\ pc[t] # "called"
          BY <2>1, <2>4, <4>1, <4>2 DEF HeldKnows
        <5>2. WillKnow(p, Place(t))'  BY <1>1, <2>2, <4>1, <5>1 DEF WillKnow
        <5> QED  BY <1>1, <5>1, <5>2 DEF HeldKnows
      <4> QED  BY <1>1, <4>2 DEF HeldKnows
    <3> QED  BY <1>1, <3>1, <3>2 DEF Knows
  <2>6. ASSUME NEW q \in asked' \ crossed', NEW n \in nodes' \ deled', q # p, Knows(q, n)
        PROVE  Knows(q, n)'
    BY <1>1, <2>2, <2>6, KnowsSame
  <2>7. \A q \in asked' \ crossed' : \A n \in nodes' \ deled' : Knows(q, n) => Knows(q, n)'
    BY <2>5, <2>6
  <2> QED  BY <1>1, <2>3, <2>7, ToldNext
<1> QED  BY <1>2, <1>3 DEF Aside

LEMMA LockTold == ASSUME IInv, ToldInv, NEW t \in PoolThread, Lock(t) PROVE ToldInv'
<1>1. /\ UNCHANGED <<evtypes, chan, changes, nodes, deled, hist>> /\ pc[t] = "lock"
      /\ UNCHANGED <<pxstate, asked, told, answer, crossed>> /\ Offered' = Offered
      /\ TypeOK /\ nodes \subseteq Node /\ node[t] = None /\ asked \subseteq Proxy
  BY DEF Lock, proxies, hist, Offered, IInv, TypeOK, Threads
<1>2. ASSUME NEW p \in Proxy, NEW n \in nodes, Knows(p, n)  PROVE Knows(p, n)'
  <2>1. n \in Node /\ n # None  BY <1>1, NodeParts
  <2>2. CASE \E x \in {"exit", "wait"} : pc' = [pc EXCEPT ![t] = x] /\ UNCHANGED <<at, locals>>
    <3>1. /\ at' = at /\ node' = node /\ found' = found
          /\ \A u \in PoolThread : u # t => pc'[u] = pc[u]
      BY <1>1, <2>2 DEF locals, TypeOK
    <3> QED  BY <1>1, <1>2, <2>1, <3>1, KnowsSame
  <2>3. ASSUME NEW m \in NextAvailable,
               pc' = [pc EXCEPT ![t] = "test"], node' = [node EXCEPT ![t] = m],
               found' = [found EXCEPT ![t] = at[m]], at' = [at EXCEPT ![m] = CSkip(at[m])]
        PROVE  Knows(p, n)'
    <3>1. m \in nodes /\ m \in Node /\ m # None /\ \A u \in PoolThread : node[u] # m
      BY <1>1, NodeParts DEF NextAvailable, Available
    <3>2. /\ pc'[t] = "test" /\ node'[t] = m /\ found'[t] = at[m]
          /\ \A u \in PoolThread :
               u # t => pc'[u] = pc[u] /\ node'[u] = node[u] /\ found'[u] = found[u]
      BY <1>1, <2>3 DEF TypeOK
    <3>3. CASE n = m
      <4>1. WillKnow(p, at[n])  BY <1>2, <3>1, <3>3 DEF Knows
      <4>2. Place(t)' = at[n]  BY <3>2, <3>3 DEF Place
      <4>3. WillKnow(p, Place(t))'  BY <1>1, <4>1, <4>2 DEF WillKnow
      <4>4. HeldKnows(p, t)'  BY <3>2, <4>3 DEF HeldKnows
      <4>5. \A u \in PoolThread : node'[u] = n => u = t  BY <3>1, <3>2, <3>3
      <4> QED  BY <3>2, <3>3, <4>4, <4>5 DEF Knows
    <3>4. CASE n # m
      <4>1. at'[n] = at[n]  BY <1>1, <2>1, <2>3, <3>4 DEF TypeOK
      <4> QED  BY <1>1, <1>2, <2>1, <3>2, <3>4, <4>1, KnowsSame
    <3> QED  BY <3>3, <3>4
  <2> QED  BY <2>2, <2>3 DEF Lock
<1>3. \A p \in Proxy : p \in asked' \/ answer'[p] # {} => pxstate'[p] = "Connected"
  BY <1>1 DEF ToldInv
<1>4. \A p \in asked' \ crossed' : \A n \in nodes' \ deled' : Knows(p, n) => Knows(p, n)'
  BY <1>1, <1>2
<1> QED  BY <1>1, <1>3, <1>4, ToldNext

(* The steps of a thread at which no client gets anything. *)
LEMMA QuietTold ==
  ASSUME IInv, ToldInv, NEW t \in PoolThread, Test(t) \/ Send(t) \/ CallReturns(t)
  PROVE  ToldInv'
<1>1. /\ UNCHANGED <<evtypes, chan, changes, nodes, deled, at, node, found>>
      /\ UNCHANGED <<pxstate, asked, told, answer, crossed>> /\ Offered' = Offered
      /\ TypeOK /\ nodes \subseteq Node /\ asked \subseteq Proxy
      /\ \A u \in PoolThread : u # t => pc'[u] = pc[u]
  BY DEF Test, Send, CallReturns, chain, locals, proxies, hist, Offered, IInv, TypeOK
<1>2. ASSUME NEW p \in Proxy, NEW n \in nodes \ deled, Knows(p, n)  PROVE Knows(p, n)'
  <2>1. CASE node[t] # n
    BY <1>1, <1>2, <2>1, KnowsSame
  <2>2. CASE node[t] = n
    <3>1. \/ pc[t] \in {"test", "send"} /\ pc'[t] \in {"send", "call"}
          \/ pc[t] = "called" /\ pc'[t] = "valid"
          \/ pc'[t] = "invalid"
      BY <1>1, <1>2, <2>2 DEF Test, Send, CallReturns, TypeOK
    <3>2. HeldKnows(p, t)  BY <1>2, <2>2 DEF Knows
    <3>3. ASSUME pc'[t] # "invalid"  PROVE HeldKnows(p, t)'
      <4>1. Place(t)' = Place(t) /\ pc[t] # "invalid" /\ pc'[t] # "called"
        BY <1>1, <3>1, <3>3 DEF Place
      <4>2. WillKnow(p, Place(t))  BY <3>2, <4>1 DEF HeldKnows
      <4>3. WillKnow(p, Place(t))'  BY <1>1, <4>1, <4>2 DEF WillKnow
      <4> QED  BY <4>1, <4>3 DEF HeldKnows
    <3>4. HeldKnows(p, t)'  BY <3>3 DEF HeldKnows
    <3>5. \A u \in PoolThread : node'[u] = n => u = t
      BY <1>1, <2>2, HeldFact DEF Held
    <3> QED  BY <1>1, <2>2, <3>4, <3>5 DEF Knows
  <2> QED  BY <2>1, <2>2
<1>3. \A p \in Proxy : p \in asked' \/ answer'[p] # {} => pxstate'[p] = "Connected"
  BY <1>1 DEF ToldInv
<1>4. \A p \in asked' \ crossed' : \A n \in nodes' \ deled' : n[1] = p =>
        p \in asked \ crossed /\ n \in nodes \ deled /\ (Knows(p, n) => Knows(p, n)')
  BY <1>1, <1>2
<1> QED  BY <1>1, <1>3, <1>4, ToldNext

LEMMA ReleaseTold == ASSUME IInv, ToldInv, NEW t \in PoolThread, Release(t) PROVE ToldInv'
<1>1. /\ UNCHANGED <<evtypes, chan, changes, at>>
      /\ UNCHANGED <<pxstate, asked, told, answer, crossed>> /\ Offered' = Offered
      /\ TypeOK /\ nodes \subseteq Node /\ asked \subseteq Proxy
  BY DEF Release, chain, proxies, hist, Offered, IInv, TypeOK
<1>2. /\ nodes' \subseteq nodes /\ deled \subseteq deled'
      /\ pc[t] = "invalid" => node[t] \in deled'
  BY DEF Release, chain, Mark, Unfreed
<1>3. /\ pc'[t] = "lock" /\ pc[t] \in {"valid", "invalid"} /\ node'[t] = None
      /\ \A u \in PoolThread : u # t => node'[u] = node[u] /\ found'[u] = found[u]
      /\ \A u \in PoolThread : u # t => pc'[u] = pc[u] \/ (pc[u] = "wait" /\ pc'[u] = "lock")
  BY <1>1, ReleaseFact DEF Release, TypeOK
<1>4. ASSUME NEW p \in Proxy, NEW n \in nodes' \ deled', Knows(p, n)  PROVE Knows(p, n)'
  <2>1. n \in nodes \ deled /\ n \in Node /\ n # None  BY <1>1, <1>2, <1>4, NodeParts
  <2>2. CASE node[t] = n
    <3>1. HeldKnows(p, t) /\ pc[t] = "valid"  BY <1>2, <1>3, <1>4, <2>2 DEF Knows
    <3>2. Held(t, n)  BY <2>1, <2>2, HeldFact
    <3>3. Place(t) = at[n]  BY <3>1, <3>2 DEF Place, Held
    <3>4. WillKnow(p, at[n])  BY <3>1, <3>3 DEF HeldKnows
    <3>5. WillKnow(p, at[n])'  BY <1>1, <3>4 DEF WillKnow
    <3>6. \A u \in PoolThread : node'[u] # n  BY <1>3, <2>1, <2>2, <3>2 DEF Held
    <3> QED  BY <3>5, <3>6 DEF Knows
  <2>3. CASE node[t] # n
    <3>1. \A u \in PoolThread : node[u] = n => u # t /\ pc[u] # "wait"
      BY <2>1, <2>3 DEF IInv, Threads
    <3> QED  BY <1>1, <1>3, <1>4, <2>1, <2>3, <3>1, KnowsSame
  <2> QED  BY <2>2, <2>3
<1>5. \A p \in Proxy : p \in asked' \/ answer'[p] # {} => pxstate'[p] = "Connected"
  BY <1>1 DEF ToldInv
<1>6. \A p \in asked' \ crossed' : \A n \in nodes' \ deled' : n[1] = p =>
        p \in asked \ crossed /\ n \in nodes \ deled /\ (Knows(p, n) => Knows(p, n)')
  BY <1>1, <1>2, <1>4
<1>7. chan' = "open" => chan = "open"  BY <1>1
<1> QED  BY <1>1, <1>5, <1>6, <1>7, ToldNext

(* The client of the thread's node gets the change that comes next for it, or gets it   *)
(* again; what the node of an old registration brings it, or a change that overtakes    *)
(* the snapshot, puts the client among those that got something in the wrong order.     *)
LEMMA ReceiveTold ==
  ASSUME IInv, IInv', ToldInv, NEW t \in PoolThread, Receive(t)
  PROVE  ToldInv'
<1>1. PICK n, p : n = node[t] /\ p = n[1]  OBVIOUS
<1>2. /\ UNCHANGED <<evtypes, chan, changes, nodes, deled, at, node, found>>
      /\ UNCHANGED <<pxstate, asked, answer>> /\ Offered' = Offered
      /\ TypeOK /\ nodes \subseteq Node /\ asked \subseteq Proxy
      /\ pc[t] \in {"call", "called"} /\ pc'[t] = "called"
      /\ \A u \in PoolThread : u # t => pc'[u] = pc[u]
  BY DEF Receive, chain, locals, proxies, Offered, IInv, TypeOK
<1>3. n \in nodes /\ n \in Node /\ p \in Proxy /\ Held(t, n)
  <2>1. n \in nodes  BY <1>1, <1>2 DEF IInv, Threads, Busy
  <2> QED  BY <1>1, <1>2, <2>1, NodeParts, HeldFact
<1>4. \A q \in Proxy : q \in asked' \/ answer'[q] # {} => pxstate'[q] = "Connected"
  BY <1>2 DEF ToldInv
<1>5. /\ told' = IF p \in asked THEN [told EXCEPT ![p] = Learnt(told[p], changes[found[t]])]
                 ELSE told
      /\ crossed' = IF p \in asked /\ (n \in deled <=> answer[p] = {}) THEN crossed \cup {p}
                    ELSE crossed
  BY <1>1 DEF Receive, Crosses
<1>6. /\ \A q \in Proxy : q # p => told'[q] = told[q]
      /\ p \in asked => told'[p] = Learnt(told[p], changes[found[t]])
  BY <1>2, <1>3, <1>5 DEF TypeOK
<1>7. ASSUME NEW q \in asked' \ crossed', NEW m \in nodes \ deled, m # n, m[1] = q, Knows(q, m)
      PROVE  Knows(q, m)'
  <2>1. m \in Node /\ q \in Proxy /\ \A u \in PoolThread : node[u] = m => pc'[u] = pc[u]
    BY <1>1, <1>2, <1>7
  <2>2. CASE q # p  BY <1>2, <1>6, <1>7, <2>1, <2>2, KnowsSame
  <2>3. CASE q = p
    <3>1. n \in deled  BY <1>1, <1>3, <1>7, <2>3 DEF IInv, Registered
    <3>2. answer[q] # {}  BY <1>2, <1>5, <1>7, <2>3, <3>1
    <3> QED  BY <1>2, <1>7, <2>1, <3>2, KnowsSame
  <2> QED  BY <2>2, <2>3
<1>8. ASSUME p \in asked' \ crossed', n \notin deled, Knows(p, n)  PROVE Knows(p, n)'
  <2>1. answer[p] = {} /\ p \in asked  BY <1>2, <1>5, <1>8
  <2>2. HeldKnows(p, t)  BY <1>1, <1>8 DEF Knows
  <2>3. /\ found[t] \in 1..Len(changes) /\ Len(changes) \in Nat
        /\ \A u \in PoolThread : node[u] = n => u = t
    BY <1>2, <1>3, Numbers DEF Held
  <2>4. told'[p] = Learnt(told[p], changes[found[t]])  BY <1>6, <2>1
  <2>5. Learnt(told'[p], changes[found[t]]) = told'[p]  BY <2>4 DEF Learnt
  <2>6. Result(changes, told'[p], found[t] + 1) = Offered
    <3>1. CASE pc[t] = "call"
      <4>1. Result(changes, told[p], found[t]) = Offered
        BY <2>1, <2>2, <3>1 DEF HeldKnows, WillKnow, Place
      <4> QED  BY <2>3, <2>4, <4>1, ResultFirst
    <3>2. CASE pc[t] = "called"
      BY <2>1, <2>2, <2>4, <3>2 DEF HeldKnows, WillKnow, Place
    <3> QED  BY <1>2, <3>1, <3>2
  <2>7. Place(t)' = found[t] + 1  BY <1>2 DEF Place
  <2>8. WillKnow(p, Place(t))'  BY <1>2, <2>1, <2>6, <2>7 DEF WillKnow
  <2>9. HeldKnows(p, t)'  BY <1>2, <2>1, <2>5, <2>8 DEF HeldKnows
  <2> QED  BY <1>1, <1>2, <2>3, <2>9 DEF Knows
<1>9. \A q \in asked' \ crossed' : \A m \in nodes' \ deled' : m[1] = q =>
        q \in asked \ crossed /\ m \in nodes \ deled /\ (Knows(q, m) => Knows(q, m)')
  BY <1>1, <1>2, <1>5, <1>7, <1>8
<1>10. chan' = "open" => chan = "open"  BY <1>2
<1> QED  BY <1>2, <1>4, <1>9, <1>10, ToldNext

LEMMA DestroyTold ==
  ASSUME IInv, ToldInv, Shutdown \/ TerminatePool \/ JoinPool \/ UNCHANGED vars
  PROVE  ToldInv'
<1>1. /\ UNCHANGED <<changes, nodes, deled, at, node, found>>
      /\ UNCHANGED <<pxstate, asked, told, answer, crossed>>
      /\ chan' = "open" => chan = "open" /\ pc' = pc /\ Offered' = Offered
      /\ nodes \subseteq Node /\ asked \subseteq Proxy
  BY DEF Shutdown, TerminatePool, JoinPool, vars, chain, locals, proxies, hist, Offered,
         IInv, TypeOK
<1>2. chan' = "open" =>
        \A p \in asked' \ crossed' : \A n \in nodes' \ deled' : Knows(p, n) => Knows(p, n)'
  BY <1>1, KnowsSame
<1>3. \A p \in Proxy : p \in asked' \/ answer'[p] # {} => pxstate'[p] = "Connected"
  BY <1>1 DEF ToldInv
<1> QED  BY <1>1, <1>2, <1>3, ToldNext

(* A client that has asked for a snapshot knows, once it has got it and its node has      *)
(* caught up, exactly what is offered, unless it got a change from before the snapshot    *)
(* after it or one from after it before: then the one may undo the other.                 *)
THEOREM ClientsToldRight == Spec => []ToldRight
<1>1. Init => ToldInv
  BY DEF Init, ToldInv
<1>2. IInv /\ IInv' /\ ToldInv /\ [Next]_vars => ToldInv'
  <2> SUFFICES ASSUME IInv, IInv', ToldInv, [Next]_vars  PROVE ToldInv'  OBVIOUS
  <2>1. ASSUME NEW added \in SUBSET EventType, NEW dropped \in SUBSET (EventType \ added),
               PropagateOchange(added, dropped)
        PROVE  ToldInv'
    BY <2>1, PropagateTold
  <2>2. ASSUME NEW p \in Proxy, ProxyMove(p) \/ Aside(p)  PROVE ToldInv'
    BY <2>2, ProxyTold, AsideTold
  <2>3. ASSUME NEW t \in PoolThread, Notify(t) \/ Receive(t)  PROVE ToldInv'
    BY <2>3, LockTold, QuietTold, ReleaseTold, ReceiveTold DEF Notify
  <2>4. CASE Shutdown \/ TerminatePool \/ JoinPool \/ UNCHANGED vars
    BY <2>4, DestroyTold
  <2> QED  BY <2>1, <2>2, <2>3, <2>4 DEF Next, ProxyMove, Aside
<1>3. IInv /\ ToldInv => ToldRight
  <2> SUFFICES ASSUME IInv, ToldInv, chan = "open", NEW p \in asked \ crossed, NEW n \in Valid(p),
                      answer[p] = {}, at[n] = CTail, \A t \in Busy : node[t] # n
               PROVE  told[p] = Offered
    BY DEF ToldRight
  <2>1. n # None /\ p \in Proxy  BY NodeParts DEF IInv, TypeOK, Valid
  <2>2. \A t \in PoolThread : node[t] # n  BY <2>1 DEF Busy
  <2>3. Result(changes, told[p], Len(changes) + 1) = Offered
    BY <2>2 DEF ToldInv, Knows, WillKnow, CTail
  <2>4. told[p] \in SUBSET EventType /\ Len(changes) \in Nat  BY <2>1, Numbers DEF IInv, TypeOK
  <2> QED  BY <2>3, <2>4, ResultEnd
<1> QED  BY <1>1, <1>2, <1>3, Invariance, PTL DEF Spec
=============================================================================
