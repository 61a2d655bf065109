-------------------------- MODULE PushDeliveryProofs --------------------------
(***************************************************************************)
(* The push threads, their list of proxies and what the consumers are      *)
(* promised, for any number of proxies, threads and events and any         *)
(* settings.                                                               *)
(***************************************************************************)
EXTENDS PushTurns, SequenceTheorems, WellFoundedInduction, TLAPS

(***************************************************************************)
(* The invariant.  Nodes: a thread that has got an entry keeps it in use,  *)
(* so that nobody else gets it and no collection takes it.                 *)
(***************************************************************************)
Busy == {"test", "call", "push", "invalid", "reset", "abort"}

Nodes ==
  /\ \A t \in PoolThread : pc[t] \in Busy <=> node[t] # NoProxy
  /\ \A t \in PoolThread :
       node[t] # NoProxy => inuse[node[t]] /\ node[t] \in ToSet(entries)
  /\ \A t, u \in PoolThread : node[t] # NoProxy /\ node[t] = node[u] => t = u

(***************************************************************************)
(* Searching: the pool's lock belongs to the thread that searches, the     *)
(* list is not empty meanwhile, and the cursor is in it.                   *)
(***************************************************************************)
Searching ==
  /\ \A t \in PoolThread : pc[t] = "scan" <=> t \in lock
  /\ \A t, u \in lock : t = u
  /\ lock # {} => entries # <<>>
  /\ mylast # NoProxy => mylast \in ToSet(entries)

(***************************************************************************)
(* Modes: a channel has a pool or workers, and the pool ends with it.      *)
(***************************************************************************)
Modes ==
  /\ usePool \in BOOLEAN
  /\ usePool => \A p \in Proxy : wpc[p] = "none"
  /\ ~usePool => entries = <<>> /\ \A t \in PoolThread : pc[t] = "exit"
  /\ terminate => chan \notin {"open", "shut"}
  /\ chan \in {"joined", "destroyed"} => \A t \in PoolThread : pc[t] = "exit"

(***************************************************************************)
(* Lives: what is known of a proxy before it is created, once its disposal *)
(* has begun, and once the admin has forgotten it.                         *)
(***************************************************************************)
Lives ==
  /\ \A p \in Proxy : pxstate[p] = "none" =>
       /\ p \notin registered /\ p \notin ToSet(entries)
       /\ wpc[p] = "none" /\ ~inuse[p]
  /\ \A p \in Proxy : dis[p] # "no" => pxstate[p] = "Disconnected"
  /\ \A p \in Proxy : dis[p] \in {"clean", "done"} => p \notin registered
  /\ \A p \in Proxy : dis[p] \in {"remove", "clean", "done"} => Users(p) = {}
  /\ chan = "open" => \A p \in ToSet(entries) : p \in registered \/ deled[p]

(***************************************************************************)
(* Tails: a queue holds the events accepted last, in order.                *)
(***************************************************************************)
Tails ==
  \A p \in Proxy :
    /\ Len(queue[p]) <= added[p]
    /\ \A i \in 1..Len(queue[p]) : queue[p][i] = added[p] - Len(queue[p]) + i

IInv == TypeOK /\ Nodes /\ Searching /\ Modes /\ Lives /\ Tails

-----------------------------------------------------------------------------
(* Lists                                                                   *)

LEMMA SetInduction ==
  ASSUME NEW S, S \subseteq Nat, 0 \in S, \A n \in S : n + 1 \in S
  PROVE  S = Nat
<1> SUFFICES ASSUME Nat \ S # {} PROVE FALSE  OBVIOUS
<1> DEFINE T == Nat \ S  R == OpToRel(<, Nat)
<1>1. PICK x \in T : \A y \in T : ~ (<<y, x>> \in R)
  BY NatLessThanWellFounded, WFMin
<1>2. x # 0 /\ x \in Nat /\ x - 1 \in Nat  OBVIOUS
<1>3. x - 1 \in T  BY <1>2
<1>4. <<x - 1, x>> \in R  BY <1>2 DEF OpToRel
<1> QED  BY <1>1, <1>3, <1>4

(* The recursive function of Left exists, so it satisfies its equation. *)
LEMMA LeftDef ==
  ASSUME NEW S, NEW s \in Seq(S), NEW K
  PROVE  /\ Left(s, K)[0] = <<>>
         /\ \A i \in 1..Len(s) :
              Left(s, K)[i] = IF s[i] \in K THEN Append(Left(s, K)[i - 1], s[i])
                              ELSE Left(s, K)[i - 1]
<1> DEFINE Body(f, i) == IF i = 0 THEN <<>>
                         ELSE IF s[i] \in K THEN Append(f[i - 1], s[i]) ELSE f[i - 1]
           Def(n) == \E f : f = [i \in 0..n |-> Body(f, i)]
           Good == {n \in Nat : Def(n)}
<1>1. 0 \in Good
  <2> DEFINE f == [i \in 0..0 |-> <<>>]
  <2>1. f = [i \in 0..0 |-> Body(f, i)]  OBVIOUS
  <2>2. Def(0)  BY <2>1
  <2> QED  BY <2>2
<1>2. ASSUME NEW n \in Good PROVE n + 1 \in Good
  <2>1. n \in Nat /\ Def(n)  OBVIOUS
  <2>2. PICK f : f = [i \in 0..n |-> Body(f, i)]  BY <2>1
  <2> DEFINE g == [i \in 0..(n + 1) |-> IF i = n + 1 THEN Body(f, i) ELSE f[i]]
  <2>3. \A i \in 0..(n + 1) : g[i] = Body(g, i)
    <3> SUFFICES ASSUME NEW i \in 0..(n + 1) PROVE g[i] = Body(g, i)  OBVIOUS
    <3>1. g[i] = Body(f, i)
      <4>1. CASE i = n + 1  BY <2>1, <4>1
      <4>2. CASE i # n + 1
        <5>1. i \in 0..n  BY <2>1, <4>2
        <5>2. f[i] = Body(f, i)  BY <2>2, <5>1
        <5> QED  BY <4>2, <5>2
      <4> QED  BY <4>1, <4>2
    <3>2. i # 0 => g[i - 1] = f[i - 1]  BY <2>1
    <3> HIDE DEF g
    <3> QED  BY <3>1, <3>2
  <2>4. g = [i \in 0..(n + 1) |-> Body(g, i)]
    <3>1. g = [i \in 0..(n + 1) |-> g[i]]  OBVIOUS
    <3> HIDE DEF g, Body
    <3> QED  BY <2>3, <3>1
  <2>5. Def(n + 1)
    <3> HIDE DEF g, Body
    <3> QED  BY <2>4
  <2> HIDE DEF Def
  <2> QED  BY <2>1, <2>5
<1>3. Good = Nat
  <2> HIDE DEF Def
  <2>1. Good \subseteq Nat  OBVIOUS
  <2> HIDE DEF Good
  <2> QED  BY <1>1, <1>2, <2>1, SetInduction
<1>4. Len(s) \in Nat  BY LenProperties
<1>5. Def(Len(s))  BY <1>3, <1>4
<1>6. Left(s, K) = [i \in 0..Len(s) |-> Body(Left(s, K), i)]
  BY <1>5, Zenon DEF Left
<1> HIDE DEF Def, Good
<1> DEFINE l == Left(s, K)
<1>7. \A i \in 0..Len(s) : l[i] = Body(l, i)
  <2>1. l = [i \in 0..Len(s) |-> Body(l, i)]  BY <1>6
  <2> HIDE DEF l, Body
  <2> QED  BY <2>1
<1> HIDE DEF l
<1>8. l[0] = <<>>  BY <1>4, <1>7
<1>9. ASSUME NEW i \in 1..Len(s)
      PROVE  l[i] = IF s[i] \in K THEN Append(l[i - 1], s[i]) ELSE l[i - 1]
  BY <1>4, <1>7
<1> QED  BY <1>8, <1>9 DEF l

(* The j-th list is the beginning of the i-th. *)
Begins(l, i, j) == /\ Len(l[j]) <= Len(l[i])
                   /\ \A k \in 1..Len(l[j]) : l[i][k] = l[j][k]

(* Where the k-th element of the i-th list comes from. *)
Origin(s, K, l, i, k) ==
  \E j \in 1..i : s[j] \in K /\ l[i][k] = s[j] /\ Len(l[j]) = k

(* What was put into a part of the list stays where it is; whatever is in K *)
(* comes last in the part that ends with it; and nothing else is there.    *)
LEMMA LeftFact ==
  ASSUME NEW S, NEW s \in Seq(S), NEW K
  PROVE  /\ \A i \in 0..Len(s) : Left(s, K)[i] \in Seq(S)
         /\ \A i \in 0..Len(s) : \A j \in 0..i : Begins(Left(s, K), i, j)
         /\ \A i \in 1..Len(s) : s[i] \in K =>
              /\ Len(Left(s, K)[i]) = Len(Left(s, K)[i - 1]) + 1
              /\ Left(s, K)[i][Len(Left(s, K)[i])] = s[i]
         /\ \A i \in 0..Len(s) : \A k \in 1..Len(Left(s, K)[i]) : Origin(s, K, Left(s, K), i, k)
<1> DEFINE l == Left(s, K)
           Prefix(i) == \A j \in 0..i : Begins(l, i, j)
           Origins(i) == \A k \in 1..Len(l[i]) : Origin(s, K, l, i, k)
           P(i) == i <= Len(s) => l[i] \in Seq(S) /\ Prefix(i) /\ Origins(i)
           Good == {i \in Nat : P(i)}
<1>1. Len(s) \in Nat /\ \A i \in 1..Len(s) : s[i] \in S  BY LenProperties, ElementOfSeq
<1>2. l[0] = <<>>
      /\ \A i \in 1..Len(s) : l[i] = IF s[i] \in K THEN Append(l[i - 1], s[i]) ELSE l[i - 1]
  BY LeftDef
<1> HIDE DEF l
<1>3. P(0)
  <2>1. l[0] \in Seq(S) /\ Len(l[0]) = 0  BY <1>2, EmptySeq
  <2> QED  BY <2>1 DEF Begins
<1>4. ASSUME NEW n \in Nat, P(n), n + 1 <= Len(s)
      PROVE  /\ l[n + 1] \in Seq(S) /\ Prefix(n + 1) /\ Origins(n + 1)
             /\ s[n + 1] \in K => /\ Len(l[n + 1]) = Len(l[n]) + 1
                                  /\ l[n + 1][Len(l[n + 1])] = s[n + 1]
  <2>1. l[n] \in Seq(S) /\ Prefix(n) /\ Origins(n) /\ Len(l[n]) \in Nat
    BY <1>1, <1>4, LenProperties
  <2>2. n + 1 \in 1..Len(s) /\ n + 1 - 1 = n  BY <1>1, <1>4
  <2>3. CASE s[n + 1] \notin K
    <3>1. l[n + 1] = l[n]  BY <1>2, <2>2, <2>3
    <3>2. Prefix(n + 1)
      <4>1. \A j \in 0..(n + 1) : j \in 0..n \/ j = n + 1  OBVIOUS
      <4> QED  BY <2>1, <3>1, <4>1 DEF Begins
    <3>3. Origins(n + 1)
      <4> SUFFICES ASSUME NEW k \in 1..Len(l[n + 1])
                   PROVE  Origin(s, K, l, n + 1, k)
        OBVIOUS
      <4>1. Origin(s, K, l, n, k)  BY <2>1, <3>1
      <4> QED  BY <3>1, <4>1 DEF Origin
    <3> QED  BY <2>1, <2>3, <3>1, <3>2, <3>3
  <2>4. CASE s[n + 1] \in K
    <3>1. l[n + 1] = Append(l[n], s[n + 1])
      <4> DEFINE i == n + 1
      <4>1. i \in 1..Len(s) /\ s[i] \in K /\ i - 1 = n  BY <2>2, <2>4
      <4> HIDE DEF i
      <4>2. l[i] = Append(l[i - 1], s[i])  BY <1>2, <4>1
      <4>3. l[i] = Append(l[n], s[i])  BY <4>1, <4>2
      <4> QED  BY <4>3 DEF i
    <3>2. /\ l[n + 1] \in Seq(S) /\ Len(l[n + 1]) = Len(l[n]) + 1
          /\ \A k \in 1..Len(l[n]) : l[n + 1][k] = l[n][k]
          /\ l[n + 1][Len(l[n]) + 1] = s[n + 1]
      BY <1>1, <2>1, <2>2, <3>1, AppendProperties
    <3>3. Prefix(n + 1)
      <4> SUFFICES ASSUME NEW j \in 0..(n + 1)  PROVE Begins(l, n + 1, j)  OBVIOUS
      <4> USE DEF Begins
      <4>1. CASE j = n + 1  BY <2>1, <3>2, <4>1
      <4>2. CASE j \in 0..n
        <5>1. Len(l[j]) <= Len(l[n]) /\ \A k \in 1..Len(l[j]) : l[n][k] = l[j][k]
          BY <2>1, <4>2
        <5> QED  BY <2>1, <3>2, <5>1
      <4> QED  BY <4>1, <4>2
    <3>4. Origins(n + 1)
      <4> SUFFICES ASSUME NEW k \in 1..Len(l[n + 1])
                   PROVE  Origin(s, K, l, n + 1, k)
        OBVIOUS
      <4> USE DEF Origin
      <4>1. CASE k = Len(l[n]) + 1  BY <2>2, <2>4, <3>2, <4>1
      <4>2. CASE k \in 1..Len(l[n])
        <5>1. PICK j \in 1..n : s[j] \in K /\ l[n][k] = s[j] /\ Len(l[j]) = k  BY <2>1, <4>2
        <5> QED  BY <3>2, <4>2, <5>1
      <4>3. k = Len(l[n]) + 1 \/ k \in 1..Len(l[n])  BY <2>1, <3>2
      <4> QED  BY <4>1, <4>2, <4>3
    <3> QED  BY <2>1, <3>2, <3>3, <3>4
  <2> QED  BY <2>3, <2>4
<1>5. Good = Nat
  <2>1. ASSUME NEW n \in Good PROVE n + 1 \in Good  BY <1>1, <1>4
  <2>2. 0 \in Good  BY <1>3
  <2>3. Good \subseteq Nat  OBVIOUS
  <2> HIDE DEF Good
  <2> QED  BY <2>1, <2>2, <2>3, SetInduction
<1>6. \A i \in 0..Len(s) : l[i] \in Seq(S) /\ Prefix(i) /\ Origins(i)
  BY <1>1, <1>5
<1>7. \A i \in 1..Len(s) : s[i] \in K => /\ Len(l[i]) = Len(l[i - 1]) + 1
                                        /\ l[i][Len(l[i])] = s[i]
  <2> SUFFICES ASSUME NEW i \in 1..Len(s), s[i] \in K
               PROVE  Len(l[i]) = Len(l[i - 1]) + 1 /\ l[i][Len(l[i])] = s[i]
    OBVIOUS
  <2>1. i - 1 \in Nat /\ (i - 1) + 1 = i /\ i <= Len(s)  BY <1>1
  <2>2. P(i - 1)  BY <1>1, <1>6, <2>1
  <2> QED  BY <1>4, <2>1, <2>2
<1> QED  BY <1>6, <1>7 DEF l

LEMMA ToSetFact ==
  ASSUME NEW S, NEW s \in Seq(S)
  PROVE  /\ ToSet(s) \subseteq S
         /\ \A x : x \in ToSet(s) <=> \E i \in 1..Len(s) : s[i] = x
         /\ s = <<>> <=> ToSet(s) = {}
         /\ s = <<>> <=> Len(s) = 0
<1>1. Len(s) \in Nat /\ DOMAIN s = 1..Len(s) /\ s \in [1..Len(s) -> S]  BY LenProperties
<1>2. \A x : x \in ToSet(s) <=> \E i \in 1..Len(s) : s[i] = x  BY <1>1 DEF ToSet
<1>3. s # <<>> => Len(s) # 0  BY EmptySeq
<1>4. s = <<>> => Len(s) = 0  BY EmptySeq
<1>5. Len(s) = 0 <=> ToSet(s) = {}
  <2>1. Len(s) # 0 => 1 \in 1..Len(s)  BY <1>1
  <2>2. Len(s) = 0 => 1..Len(s) = {}  BY <1>1
  <2> QED  BY <1>2, <2>1, <2>2
<1> QED  BY <1>1, <1>2, <1>3, <1>4, <1>5

LEMMA CursorFact ==
  ASSUME TypeOK, mylast \in ToSet(entries)
  PROVE  Cursor \in 1..Len(entries) /\ entries[Cursor] = mylast
<1>1. entries \in Seq(Proxy) /\ DOMAIN entries = 1..Len(entries)  BY LenProperties DEF TypeOK
<1>2. \E i \in DOMAIN entries : entries[i] = mylast  BY <1>1, ToSetFact
<1> QED  BY <1>1, <1>2 DEF Cursor

(* Before the cursor steps back, the place it goes to. *)
Place == IF mylast = NoProxy THEN 0 ELSE Cursor

LEMMA PlaceFact ==
  ASSUME TypeOK, Searching
  PROVE  /\ Place \in 0..Len(entries) /\ Len(entries) \in Nat
         /\ Place = 0 <=> mylast = NoProxy
         /\ Place # 0 => entries[Place] = mylast
<1>1. Len(entries) \in Nat  BY LenProperties DEF TypeOK
<1> QED  BY <1>1, CursorFact DEF Place, Searching

(* A collection frees what nobody uses and nobody wants, and the cursor     *)
(* stays in the list.                                                      *)
LEMMA GcollectFact ==
  ASSUME TypeOK, Searching, NEW marked \in [Proxy -> BOOLEAN], Gcollect(marked)
  PROVE  /\ entries' \in Seq(Proxy)
         /\ \A p : p \in ToSet(entries') <=>
              p \in ToSet(entries) /\ (inuse[p] \/ ~marked[p])
         /\ mylast' # NoProxy => mylast' \in ToSet(entries')
<1> DEFINE K == {q \in Proxy : inuse[q] \/ ~marked[q]}  l == Left(entries, K)  n == Len(entries)
<1>1. entries \in Seq(Proxy) /\ n \in Nat  BY LenProperties DEF TypeOK
<1>2. \A i \in 0..n : l[i] \in Seq(Proxy)  BY <1>1, LeftFact
<1>3. \A i \in 0..n : \A j \in 0..i : Begins(l, i, j)  BY <1>1, LeftFact
<1>4. \A i \in 1..n : entries[i] \in K =>
              Len(l[i]) = Len(l[i - 1]) + 1 /\ l[i][Len(l[i])] = entries[i]
  BY <1>1, LeftFact
<1>5. \A i \in 0..n : \A k \in 1..Len(l[i]) : Origin(entries, K, l, i, k)  BY <1>1, LeftFact
<1>6. entries' = l[n] /\ mylast' = IF l[Place] = <<>> THEN NoProxy ELSE Last(l[Place])
  BY DEF Gcollect, Place
<1> HIDE DEF l
<1>7. Place \in 0..n /\ n \in 0..n /\ \A i \in 1..n : i \in 0..n  BY <1>1, PlaceFact
<1> HIDE DEF n
<1>8. \A j \in 0..n : Begins(l, n, j)  BY <1>7, <1>3
<1>9. \A i \in 0..n : Len(l[i]) \in Nat  BY <1>2, LenProperties
<1>10. entries' \in Seq(Proxy)  BY <1>1, <1>2, <1>6
<1>11. \A p : p \in ToSet(entries') <=> p \in ToSet(entries) /\ p \in K
  <2>1. ASSUME NEW p, p \in ToSet(entries') PROVE p \in ToSet(entries) /\ p \in K
    <3>1. PICK k \in 1..Len(l[n]) : l[n][k] = p  BY <1>6, <1>10, <2>1, ToSetFact
    <3>2. PICK j \in 1..n : entries[j] \in K /\ l[n][k] = entries[j]  BY <1>7, <1>5, <3>1 DEF Origin
    <3> QED  BY <1>1, <3>1, <3>2, ToSetFact DEF n
  <2>2. ASSUME NEW p, p \in ToSet(entries), p \in K PROVE p \in ToSet(entries')
    <3>1. PICK i \in 1..n : entries[i] = p  BY <1>1, <2>2, ToSetFact DEF n
    <3>2. Len(l[i]) = Len(l[i - 1]) + 1 /\ l[i][Len(l[i])] = p  BY <1>4, <2>2, <3>1
    <3>3. Len(l[i]) \in 1..Len(l[n]) /\ l[n][Len(l[i])] = p
      <4>1. Len(l[i]) \in Nat /\ Len(l[i - 1]) \in Nat /\ Len(l[n]) \in Nat  BY <1>1, <1>9, <3>1
      <4>2. Len(l[i]) <= Len(l[n]) /\ \A k \in 1..Len(l[i]) : l[n][k] = l[i][k]
        BY <1>7, <1>8, <3>1 DEF Begins
      <4>3. Len(l[i]) \in 1..Len(l[i])  BY <3>2, <4>1
      <4> QED  BY SMTT(30), <3>2, <4>1, <4>2, <4>3
    <3> QED  BY <1>6, <1>10, <3>3, ToSetFact
  <2> QED  BY <2>1, <2>2
<1>12. mylast' # NoProxy => mylast' \in ToSet(entries')
  <2> SUFFICES ASSUME l[Place] # <<>> PROVE Last(l[Place]) \in ToSet(entries')  BY <1>6
  <2>1. l[Place] \in Seq(Proxy) /\ Len(l[Place]) \in Nat /\ Len(l[n]) \in Nat
    BY <1>1, <1>2, <1>7, <1>9
  <2>2. Len(l[Place]) \in 1..Len(l[Place])  BY <2>1, ToSetFact
  <2>3. Len(l[Place]) <= Len(l[n]) /\ \A k \in 1..Len(l[Place]) : l[n][k] = l[Place][k]
    BY <1>7, <1>8 DEF Begins
  <2>4. Last(l[Place]) = l[n][Len(l[Place])] /\ Len(l[Place]) \in 1..Len(l[n])
    BY <2>1, <2>2, <2>3 DEF Last
  <2> QED  BY <1>6, <1>10, <2>4, ToSetFact
<1>13. \A p \in ToSet(entries) : p \in Proxy  BY <1>1, ToSetFact
<1> QED  BY <1>10, <1>11, <1>12, <1>13

-----------------------------------------------------------------------------
(* Queues and batches                                                      *)

LEMMA SettingFact ==
  ASSUME TypeOK, NEW p \in Proxy
  PROVE  /\ qos[p].size \in Nat /\ qos[p].limit \in Nat /\ qos[p].paced \in BOOLEAN
         /\ Size(p) \in Nat
<1>1. qos[p] \in Qos  BY DEF TypeOK
<1>2. qos[p] \in [size : Nat, paced : BOOLEAN, limit : Nat]  BY <1>1, ProxyAssumption
<1> QED  BY <1>2 DEF Size

(* How many events a batch has. *)
Amount(p) == IF Short(p) THEN Len(queue[p]) ELSE Size(p)

(* The end of a queue that is left without the first n. *)
LEMMA RestFact ==
  ASSUME NEW s \in Seq(Nat), NEW n \in 0..Len(s)
  PROVE  /\ SubSeq(s, n + 1, Len(s)) \in Seq(Nat)
         /\ Len(SubSeq(s, n + 1, Len(s))) = Len(s) - n
         /\ \A i \in 1..(Len(s) - n) : SubSeq(s, n + 1, Len(s))[i] = s[n + i]
<1>1. Len(s) \in Nat /\ \A i \in (n + 1)..Len(s) : s[i] \in Nat  BY LenProperties, ElementOfSeq
<1>2. /\ SubSeq(s, n + 1, Len(s)) \in Seq(Nat)
      /\ Len(SubSeq(s, n + 1, Len(s))) = IF n + 1 <= Len(s) THEN Len(s) - (n + 1) + 1 ELSE 0
      /\ \A i \in 1..(Len(s) - (n + 1) + 1) :
           SubSeq(s, n + 1, Len(s))[i] = s[(n + 1) + i - 1]
  BY <1>1, SubSeqProperties
<1> QED  BY <1>1, <1>2

LEMMA BatchFact ==
  ASSUME TypeOK, NEW p \in Proxy
  PROVE  /\ queue[p] \in Seq(Nat) /\ Len(queue[p]) \in Nat /\ Amount(p) \in 0..Len(queue[p])
         /\ Batch(p) \in Seq(Nat) /\ Len(Batch(p)) = Amount(p)
         /\ \A i \in 1..Amount(p) : Batch(p)[i] = queue[p][i]
         /\ SubSeq(queue[p], Len(Batch(p)) + 1, Len(queue[p])) \in Seq(Nat)
         /\ Len(SubSeq(queue[p], Len(Batch(p)) + 1, Len(queue[p]))) = Len(queue[p]) - Amount(p)
         /\ \A i \in 1..(Len(queue[p]) - Amount(p)) :
              SubSeq(queue[p], Len(Batch(p)) + 1, Len(queue[p]))[i] = queue[p][Amount(p) + i]
<1>1. queue[p] \in Seq(Nat) /\ Len(queue[p]) \in Nat  BY LenProperties DEF TypeOK
<1>2. Amount(p) \in 0..Len(queue[p])  BY <1>1, SettingFact DEF Amount, Short
<1>3. \A i \in 1..Amount(p) : queue[p][i] \in Nat
  <2>1. \A i \in 1..Len(queue[p]) : queue[p][i] \in Nat  BY <1>1, ElementOfSeq
  <2> QED  BY <1>2, <2>1
<1>4. Batch(p) = SubSeq(queue[p], 1, Amount(p))  BY DEF Batch, Amount
<1>5. /\ Batch(p) \in Seq(Nat)
      /\ Len(Batch(p)) = IF 1 <= Amount(p) THEN Amount(p) - 1 + 1 ELSE 0
      /\ \A i \in 1..(Amount(p) - 1 + 1) : Batch(p)[i] = queue[p][1 + i - 1]
  BY <1>2, <1>3, <1>4, SubSeqProperties
<1>6. /\ Batch(p) \in Seq(Nat) /\ Len(Batch(p)) = Amount(p)
      /\ \A i \in 1..Amount(p) : Batch(p)[i] = queue[p][i]
  BY <1>2, <1>5
<1> HIDE DEF Amount
<1> QED  BY <1>1, <1>2, <1>6, RestFact

(* What is left when the limit has been seen to. *)
Over(p) == IF qos[p].limit = 0 \/ Len(queue[p]) < qos[p].limit THEN 0
           ELSE Len(queue[p]) - qos[p].limit + 1

LEMMA AddFact ==
  ASSUME TypeOK, NEW p \in Proxy, AddEvent(p)
  PROVE  /\ Over(p) \in 0..Len(queue[p]) /\ Len(queue[p]) \in Nat /\ added[p] \in Nat
         /\ added' = [added EXCEPT ![p] = added[p] + 1]
         /\ queue' \in [Proxy -> Seq(Nat)] /\ added' \in [Proxy -> Nat]
         /\ \A q \in Proxy \ {p} : queue'[q] = queue[q] /\ added'[q] = added[q]
         /\ added'[p] = added[p] + 1
         /\ queue'[p] \in Seq(Nat) /\ Len(queue'[p]) = Len(queue[p]) - Over(p) + 1
         /\ queue'[p][Len(queue'[p])] = added[p] + 1
         /\ \A i \in 1..(Len(queue[p]) - Over(p)) : queue'[p][i] = queue[p][Over(p) + i]
<1> DEFINE r == SubSeq(queue[p], Over(p) + 1, Len(queue[p]))
<1>1. /\ queue[p] \in Seq(Nat) /\ Len(queue[p]) \in Nat /\ added[p] \in Nat
      /\ queue \in [Proxy -> Seq(Nat)] /\ added \in [Proxy -> Nat]
  BY LenProperties DEF TypeOK
<1>2. Over(p) \in 0..Len(queue[p])
  <2>1. qos[p].limit \in Nat  BY SettingFact
  <2> QED  BY <1>1, <2>1 DEF Over
<1>3. added' = [added EXCEPT ![p] = added[p] + 1]  BY DEF AddEvent
<1>4. added'[p] = added[p] + 1  BY <1>1, <1>3
<1>5. queue' = [queue EXCEPT ![p] = Append(r, added[p] + 1)]  BY <1>4 DEF AddEvent, Over
<1>6. /\ r \in Seq(Nat) /\ Len(r) = Len(queue[p]) - Over(p)
      /\ \A i \in 1..(Len(queue[p]) - Over(p)) : r[i] = queue[p][Over(p) + i]
  BY <1>1, <1>2, RestFact
<1> HIDE DEF r
<1>7. queue'[p] = Append(r, added[p] + 1)  BY <1>1, <1>5
<1>8. /\ queue'[p] \in Seq(Nat) /\ Len(queue'[p]) = Len(r) + 1
      /\ \A i \in 1..Len(r) : queue'[p][i] = r[i]
      /\ queue'[p][Len(r) + 1] = added[p] + 1
  BY <1>1, <1>6, <1>7, AppendProperties
<1> DEFINE a == Append(r, added[p] + 1)
<1>9. a \in Seq(Nat)  BY <1>7, <1>8
<1>10. queue' = [queue EXCEPT ![p] = a]  BY <1>5
<1> HIDE DEF a
<1>11. /\ queue' \in [Proxy -> Seq(Nat)]
       /\ \A q \in Proxy \ {p} : queue'[q] = queue[q]
  BY <1>1, <1>9, <1>10
<1>12. /\ added' \in [Proxy -> Nat] /\ \A q \in Proxy \ {p} : added'[q] = added[q]
  BY <1>1, <1>3
<1> QED  BY <1>1, <1>2, <1>3, <1>4, <1>6, <1>7, <1>8, <1>11, <1>12

-----------------------------------------------------------------------------
(* Types                                                                   *)

PCs == {"lock", "scan", "wait", "timed", "test", "call", "push", "invalid", "reset",
        "exit", "abort"}

LEMMA WakeType ==
  ASSUME TypeOK, NEW p \in Proxy
  PROVE  /\ SignalPushThreads(p) => pc' \in [PoolThread -> PCs]
         /\ SignalPool => pc' \in [PoolThread -> PCs]
         /\ BroadcastPool => pc' \in [PoolThread -> PCs]
         /\ WakeWorker(p) => wpc' \in [Proxy -> {"none", "top", "wait", "timed", "push", "exit"}]
         /\ SignalPushThreads(p) => WakeWorker(p)
<1> USE DEF TypeOK, PCs
<1>1. SignalPool => pc' \in [PoolThread -> PCs]  BY DEF SignalPool
<1>2. BroadcastPool => pc' \in [PoolThread -> PCs]  BY DEF BroadcastPool
<1>3. WakeWorker(p) => wpc' \in [Proxy -> {"none", "top", "wait", "timed", "push", "exit"}]
  BY DEF WakeWorker
<1>4. SignalPushThreads(p) => WakeWorker(p) /\ (SignalPool \/ UNCHANGED pc)
  BY DEF SignalPushThreads
<1> QED  BY <1>1, <1>2, <1>3, <1>4

LEMMA ClientTypes ==
  ASSUME TypeOK, UNCHANGED usePool, NEW p \in Proxy,
         \/ Create(p) \/ Connect(p) \/ Suspend(p) \/ Resume(p) \/ AddEvent(p) \/ SetQos(p)
         \/ TimePasses(p) \/ DisconnectSequence(p)
  PROVE  TypeOK'
<1> USE DEF pool, locals, proxy, work, conf
<1>1. CASE Create(p)
  <2>1. due' \in [Proxy -> {"unset", "later", "passed"}]  BY <1>1 DEF Create, TypeOK, Restarted
  <2>2. entries' \in Seq(Proxy)
    <3>1. entries \in Seq(Proxy) /\ <<p>> \in Seq(Proxy)  BY DEF TypeOK
    <3>2. <<p>> \o entries \in Seq(Proxy)  BY <3>1, ConcatProperties
    <3> QED  BY <1>1, <3>1, <3>2 DEF Create
  <2>3. pc' \in [PoolThread -> PCs]  BY <1>1, WakeType DEF Create, TypeOK, PCs
  <2>4. wpc' \in [Proxy -> {"none", "top", "wait", "timed", "push", "exit"}]
    BY <1>1 DEF Create, TypeOK
  <2> QED  BY <1>1, <2>1, <2>2, <2>3, <2>4 DEF Create, TypeOK, PCs
<1>2. CASE Connect(p)  BY <1>2 DEF Connect, TypeOK
<1>3. CASE Suspend(p)  BY <1>3 DEF Suspend, TypeOK
<1>4. CASE Resume(p)  BY <1>4, WakeType DEF Resume, TypeOK, PCs
<1>5. CASE AddEvent(p)
  <2>1. queue' \in [Proxy -> Seq(Nat)] /\ added' \in [Proxy -> Nat]  BY <1>5, AddFact
  <2> QED  BY <1>5, <2>1, WakeType DEF AddEvent, TypeOK, PCs
<1>6. CASE SetQos(p)
  <2>1. PICK q \in Qos : qos' = [qos EXCEPT ![p] = q]  BY <1>6 DEF SetQos
  <2>2. sets' \in 0..MaxSets  BY <1>6, ProxyAssumption DEF SetQos, TypeOK
  <2> QED  BY <1>6, <2>1, <2>2 DEF SetQos, TypeOK
<1>7. CASE TimePasses(p)  BY <1>7 DEF TimePasses, TypeOK
<1>8. CASE DisconnectSequence(p)  BY <1>8 DEF DisconnectSequence, TypeOK
<1> QED  BY <1>1, <1>2, <1>3, <1>4, <1>5, <1>6, <1>7, <1>8

LEMMA RemoveTypes ==
  ASSUME TypeOK, Searching, NEW p \in Proxy, Unregister(p), UNCHANGED usePool,
         dis' \in [Proxy -> {"no", "one", "woken", "remove", "clean", "done"}]
  PROVE  TypeOK'
<1> USE DEF pool, locals, proxy, work, conf
<1>1. /\ entries' \in Seq(Proxy) /\ mylast' \in Proxy \cup {NoProxy}
      /\ deled' \in [Proxy -> BOOLEAN]
  <2>1. CASE RemoveProxySupplier(p) /\ p \in ToSet(entries) /\ ~terminate
    <3> DEFINE marked == [deled EXCEPT ![p] = TRUE]
    <3>1. marked \in [Proxy -> BOOLEAN] /\ deled' = marked  BY <2>1 DEF RemoveProxySupplier, TypeOK
    <3>2. Gcollect(marked) \/ UNCHANGED <<entries, mylast>>  BY <2>1 DEF RemoveProxySupplier
    <3>3. CASE Gcollect(marked)
      <4> HIDE DEF marked
      <4>1. entries' \in Seq(Proxy) /\ (mylast' # NoProxy => mylast' \in ToSet(entries'))
        BY <3>1, <3>3, GcollectFact
      <4>2. ToSet(entries') \subseteq Proxy  BY <4>1, ToSetFact
      <4> QED  BY <3>1, <4>1, <4>2
    <3> QED  BY <3>1, <3>2, <3>3 DEF TypeOK
  <2>2. CASE UNCHANGED <<entries, mylast, deled>>  BY <2>2 DEF TypeOK
  <2> QED  BY <2>1, <2>2 DEF Unregister, RemoveProxySupplier
<1> QED  BY <1>1 DEF Unregister, TypeOK

LEMMA DisposalTypes ==
  ASSUME TypeOK, Searching, UNCHANGED usePool, NEW p \in Proxy,
         \/ Disconnect(p) \/ InuseOne(p) \/ RemoveFromAdmin(p) \/ AdminRemoves(p) \/ Dispose(p)
  PROVE  TypeOK'
<1> USE DEF pool, locals, proxy, work, conf
<1>1. AwaitInuseOne(p) => /\ dis' \in [Proxy -> {"no", "one", "woken", "remove", "clean", "done"}]
                          /\ wpc' \in [Proxy -> {"none", "top", "wait", "timed", "push", "exit"}]
  BY WakeType DEF AwaitInuseOne, TypeOK
<1>2. CASE Disconnect(p)  BY <1>1, <1>2 DEF Disconnect, TypeOK
<1>3. CASE InuseOne(p)  BY <1>1, <1>3 DEF InuseOne, TypeOK
<1>4. CASE RemoveFromAdmin(p)
  <2>1. dis' \in [Proxy -> {"no", "one", "woken", "remove", "clean", "done"}]
    BY <1>4 DEF RemoveFromAdmin, TypeOK
  <2> QED  BY <1>4, <2>1, RemoveTypes DEF RemoveFromAdmin
<1>5. CASE AdminRemoves(p)
  <2>1. dis' \in [Proxy -> {"no", "one", "woken", "remove", "clean", "done"}]
    BY <1>5 DEF AdminRemoves, TypeOK
  <2> QED  BY <1>5, <2>1, RemoveTypes DEF AdminRemoves
<1>6. CASE Dispose(p)  BY <1>6, EmptySeq DEF Dispose, TypeOK
<1> QED  BY <1>2, <1>3, <1>4, <1>5, <1>6

LEMMA SearchFact ==
  ASSUME TypeOK, Searching, NEW t \in PoolThread, pc[t] = "scan"
  PROVE  /\ NextEntry \in ToSet(entries) /\ NextEntry \in Proxy
         /\ entries # <<>> /\ Len(entries) \in Nat \ {0}
         /\ \E i \in 1..Len(entries) :
              /\ NextEntry = entries[i]
              /\ Wraps => i = 1
              /\ ~Wraps => Place \in 1..(Len(entries) - 1) /\ i = Place + 1
<1>1. entries \in Seq(Proxy) /\ entries # <<>> /\ Len(entries) \in Nat
  BY LenProperties DEF TypeOK, Searching
<1>2. Len(entries) \in Nat \ {0}  BY <1>1, EmptySeq
<1>3. CASE Wraps
  <2>1. NextEntry = entries[1]  BY <1>3 DEF NextEntry
  <2> QED  BY <1>1, <1>2, <1>3, <2>1, ToSetFact
<1>4. CASE ~Wraps
  <2>1. mylast # NoProxy /\ mylast # Last(entries) /\ Place = Cursor
    BY <1>4 DEF Wraps, Place
  <2>2. Cursor \in 1..Len(entries) /\ entries[Cursor] = mylast
    BY <2>1, CursorFact DEF Searching
  <2>3. Cursor # Len(entries)  BY <2>1, <2>2 DEF Last
  <2>4. NextEntry = entries[Cursor + 1]  BY <1>4 DEF NextEntry
  <2>5. Cursor + 1 \in 1..Len(entries) /\ Cursor \in 1..(Len(entries) - 1)  BY <1>1, <2>2, <2>3
  <2> QED  BY <1>1, <1>2, <1>4, <2>1, <2>4, <2>5, ToSetFact
<1> QED  BY <1>3, <1>4

(* What one round of a search does. *)
LEMMA ScanFact ==
  ASSUME NEW t \in PoolThread, Scan(t)
  PROVE  /\ pc[t] = "scan" /\ mylast' = NextEntry
         /\ due' = due \/ due' = [due EXCEPT ![NextEntry] = Timer(NextEntry)]
         /\ \/ /\ Available(NextEntry)
               /\ inuse' = [inuse EXCEPT ![NextEntry] = TRUE]
               /\ node' = [node EXCEPT ![t] = NextEntry]
               /\ pc' = [pc EXCEPT ![t] = "test"]
               /\ lock' = {} /\ iter' = 0 /\ wait' = wait
            \/ /\ ~Available(NextEntry)
               /\ iter' < 3 /\ iter' \in {iter, iter + 1} /\ wait' \in {wait, wait \cup {t}}
               /\ UNCHANGED <<inuse, node, pc, lock>>
            \/ /\ ~Available(NextEntry)
               /\ \/ pc' = [pc EXCEPT ![t] = "timed"] \/ pc' = [pc EXCEPT ![t] = "wait"]
               /\ wait' = wait \ {t} /\ lock' = {} /\ iter' = 0
               /\ UNCHANGED <<inuse, node>>
         /\ UNCHANGED <<entries, deled, terminate, ev, proxy, conf, work, chan, added>>
<1> DEFINE i == IF Wraps THEN iter + 1 ELSE iter
           c == Asked(NextEntry) /\ Pushable(NextEntry) /\ Short(NextEntry)
           d == IF c /\ Paced(NextEntry) /\ ~Available(NextEntry) THEN wait \cup {t} ELSE wait
<1>1. i \in {iter, iter + 1} /\ d \in {wait, wait \cup {t}}  OBVIOUS
<1>2. /\ pc[t] = "scan" /\ mylast' = NextEntry
      /\ due' = IF c THEN [due EXCEPT ![NextEntry] = Timer(NextEntry)] ELSE due
      /\ \/ /\ Available(NextEntry)
            /\ inuse' = [inuse EXCEPT ![NextEntry] = TRUE]
            /\ node' = [node EXCEPT ![t] = NextEntry]
            /\ pc' = [pc EXCEPT ![t] = "test"]
            /\ lock' = {} /\ iter' = 0 /\ wait' = wait
         \/ /\ ~Available(NextEntry) /\ i < 3
            /\ iter' = i /\ wait' = d /\ UNCHANGED <<inuse, node, pc, lock>>
         \/ /\ ~Available(NextEntry)
            /\ pc' = [pc EXCEPT ![t] = IF t \in d THEN "timed" ELSE "wait"] /\ wait' = d \ {t}
            /\ lock' = {} /\ iter' = 0 /\ UNCHANGED <<inuse, node>>
      /\ UNCHANGED <<entries, deled, terminate, ev, proxy, conf, work, chan, added>>
  BY Zenon DEF Scan, Sleep, Rounds
<1>3. d \ {t} = wait \ {t}  OBVIOUS
<1> HIDE DEF i, c, d
<1> QED  BY <1>1, <1>2, <1>3

(* What a thread finds when its consumer has answered. *)
LEMMA AfterFact ==
  ASSUME NEW p \in Proxy, NEW failed \in {FALSE, pxstate[p] = "Connected"}, AfterPush(p, failed)
  PROVE  \/ ~failed /\ UNCHANGED <<pxstate, queue>>
         \/ /\ failed /\ pxstate[p] = "Connected"
            /\ pxstate' = [pxstate EXCEPT ![p] = "Exception"]
            /\ queue' = [queue EXCEPT ![p] = <<>>]
BY Zenon DEF AfterPush

LEMMA ReturnFact ==
  ASSUME NEW t \in PoolThread, node[t] \in Proxy, PushReturns(t)
  PROVE  /\ pc[t] = "push" /\ ev' = [ev EXCEPT ![t] = <<>>] /\ Debump(node[t], t)
         /\ \/ pc' = [pc EXCEPT ![t] = "reset"] /\ UNCHANGED <<pxstate, queue>>
            \/ /\ pc' = [pc EXCEPT ![t] = "invalid"] /\ pxstate[node[t]] = "Connected"
               /\ pxstate' = [pxstate EXCEPT ![node[t]] = "Exception"]
               /\ queue' = [queue EXCEPT ![node[t]] = <<>>]
         /\ UNCHANGED <<pool, lock, iter, node, wait, active, registered, conf, due, work>>
         /\ UNCHANGED <<chan, added>>
<1> DEFINE p == node[t]
<1>1. PICK failed \in {FALSE, pxstate[p] = "Connected"} :
        AfterPush(p, failed) /\ pc' = [pc EXCEPT ![t] = IF failed THEN "invalid" ELSE "reset"]
  BY Zenon DEF PushReturns
<1>2. \/ ~failed /\ UNCHANGED <<pxstate, queue>>
      \/ /\ failed /\ pxstate[p] = "Connected"
         /\ pxstate' = [pxstate EXCEPT ![p] = "Exception"]
         /\ queue' = [queue EXCEPT ![p] = <<>>]
  BY <1>1, AfterFact
<1>3. \/ pc' = [pc EXCEPT ![t] = "reset"] /\ UNCHANGED <<pxstate, queue>>
      \/ /\ pc' = [pc EXCEPT ![t] = "invalid"] /\ pxstate[p] = "Connected"
         /\ pxstate' = [pxstate EXCEPT ![p] = "Exception"]
         /\ queue' = [queue EXCEPT ![p] = <<>>]
  BY <1>1, <1>2, Zenon
<1> QED  BY <1>3 DEF PushReturns

LEMMA WorkerReturnFact ==
  ASSUME NEW p \in Proxy, WorkerReturns(p)
  PROVE  \/ UNCHANGED <<pxstate, queue>>
         \/ /\ pxstate[p] = "Connected"
            /\ pxstate' = [pxstate EXCEPT ![p] = "Exception"]
            /\ queue' = [queue EXCEPT ![p] = <<>>]
<1>1. PICK failed \in {FALSE, pxstate[p] = "Connected"} : AfterPush(p, failed)
  BY Zenon DEF WorkerReturns
<1> QED  BY <1>1, AfterFact

LEMMA NotifyTypes ==
  ASSUME TypeOK, Nodes, Searching, UNCHANGED usePool, NEW t \in PoolThread, Notify(t)
  PROVE  TypeOK'
<1> USE DEF pool, locals, proxy, work, conf
<1>1. CASE Lock(t)
  <2>1. pc' \in [PoolThread -> PCs]
    <3>1. PICK to \in PCs : pc' = [pc EXCEPT ![t] = to]  BY <1>1, Zenon DEF Lock, Sleep, PCs
    <3>2. pc \in [PoolThread -> PCs]  BY DEF TypeOK, PCs
    <3> QED  BY <3>1, <3>2
  <2>2. lock' \subseteq PoolThread /\ wait' \subseteq PoolThread /\ iter' \in 0..2
    BY <1>1 DEF Lock, Sleep, TypeOK
  <2> QED  BY <1>1, <2>1, <2>2 DEF Lock, TypeOK, PCs
<1>2. CASE TimedWake(t)  BY <1>2 DEF TimedWake, TypeOK
<1>3. CASE Scan(t)
  <2>1. NextEntry \in Proxy  BY <1>3, SearchFact DEF Scan
  <2>2. mylast' \in Proxy \cup {NoProxy} /\ iter' \in 0..2
        /\ wait' \subseteq PoolThread /\ lock' \subseteq PoolThread
    <3>1. iter \in 0..2 /\ wait \subseteq PoolThread /\ lock \subseteq PoolThread  BY DEF TypeOK
    <3>2. /\ mylast' = NextEntry /\ lock' \in {lock, {}}
          /\ wait' \in {wait, wait \cup {t}, wait \ {t}}
          /\ iter' = 0 \/ (iter' < 3 /\ iter' \in {iter, iter + 1})
      BY <1>3, ScanFact
    <3> QED  BY <2>1, <3>1, <3>2
  <2>3. due' \in [Proxy -> {"unset", "later", "passed"}]
    <3>1. Timer(NextEntry) \in {"unset", "later", "passed"}  BY <2>1 DEF TypeOK, Timer
    <3>2. due' = due \/ due' = [due EXCEPT ![NextEntry] = Timer(NextEntry)]  BY <1>3, ScanFact
    <3> QED  BY <3>1, <3>2 DEF TypeOK
  <2>4. inuse' \in [Proxy -> BOOLEAN] /\ node' \in [PoolThread -> Proxy \cup {NoProxy}]
    <3>1. inuse \in [Proxy -> BOOLEAN] /\ node \in [PoolThread -> Proxy \cup {NoProxy}]
      BY DEF TypeOK
    <3>2. /\ inuse' = inuse \/ inuse' = [inuse EXCEPT ![NextEntry] = TRUE]
          /\ node' = node \/ node' = [node EXCEPT ![t] = NextEntry]
      BY <1>3, ScanFact
    <3> QED  BY <2>1, <3>1, <3>2
  <2>5. pc' \in [PoolThread -> PCs]
    <3>1. pc \in [PoolThread -> PCs] /\ {"test", "timed", "wait"} \subseteq PCs  BY DEF TypeOK, PCs
    <3>2. pc' = pc \/ \E to \in {"test", "timed", "wait"} : pc' = [pc EXCEPT ![t] = to]
      BY <1>3, ScanFact
    <3> QED  BY <3>1, <3>2
  <2>6. UNCHANGED <<entries, deled, terminate, ev, proxy, conf, work, chan, added>>
    BY <1>3, ScanFact
  <2> QED  BY <2>2, <2>3, <2>4, <2>5, <2>6 DEF TypeOK, PCs
<1>4. CASE Test(t)  BY <1>4 DEF Test, TypeOK
<1>5. ASSUME pc[t] \in Busy PROVE node[t] \in Proxy  BY <1>5 DEF Nodes, TypeOK
<1>6. CASE PushEvent(t)
  <2> DEFINE p == node[t]
  <2>1. p \in Proxy  BY <1>5, <1>6 DEF PushEvent, Busy
  <2> HIDE DEF p
  <2>2. due' \in [Proxy -> {"unset", "later", "passed"}]
    <3>1. Timer(p) \in {"unset", "later", "passed"} /\ Restarted(p) \in {"unset", "later", "passed"}
      BY <2>1 DEF TypeOK, Timer, Restarted
    <3>2. due' \in {due, [due EXCEPT ![p] = Timer(p)], [due EXCEPT ![p] = Restarted(p)]}
      BY <1>6 DEF PushEvent, p
    <3> QED  BY <3>1, <3>2 DEF TypeOK
  <2>3. ev' \in [PoolThread -> Seq(Nat)]
    <3>1. Batch(p) \in Seq(Nat)  BY <2>1, BatchFact
    <3>2. ev' = ev \/ ev' = [ev EXCEPT ![t] = Batch(p)]  BY <1>6 DEF PushEvent, p
    <3>3. ev \in [PoolThread -> Seq(Nat)]  BY DEF TypeOK
    <3> QED  BY <3>1, <3>2, <3>3
  <2>4. queue' \in [Proxy -> Seq(Nat)]
    <3> DEFINE r == SubSeq(queue[p], Len(Batch(p)) + 1, Len(queue[p]))
    <3>1. r \in Seq(Nat)  BY <2>1, BatchFact
    <3>2. queue' = [queue EXCEPT ![p] = r] \/ UNCHANGED queue  BY <1>6 DEF PushEvent, TakeBatch, p
    <3> HIDE DEF r
    <3> QED  BY <3>1, <3>2, <2>1 DEF TypeOK
  <2>5. pc' \in [PoolThread -> PCs]
    <3>1. Refused(p) \subseteq PCs  BY DEF Refused, PCs
    <3> QED  BY <1>6, <3>1 DEF PushEvent, TypeOK, PCs, p
  <2>6. /\ UNCHANGED <<pool, lock, iter, node, wait, pxstate, active, registered, dis>>
        /\ UNCHANGED <<conf, work, chan, added>>
    BY <1>6 DEF PushEvent
  <2> QED  BY <2>2, <2>3, <2>4, <2>5, <2>6 DEF TypeOK, PCs
<1>7. CASE PushReturns(t)
  <2> DEFINE p == node[t]
  <2>1. p \in Proxy  BY <1>5, <1>7 DEF PushReturns, Busy
  <2>2. /\ pxstate' \in [Proxy -> {"none", "NotConnected", "Connected", "Exception", "Disconnected"}]
        /\ queue' \in [Proxy -> Seq(Nat)]
    <3>1. /\ pxstate \in [Proxy -> {"none", "NotConnected", "Connected", "Exception", "Disconnected"}]
          /\ queue \in [Proxy -> Seq(Nat)] /\ <<>> \in Seq(Nat)
      BY EmptySeq DEF TypeOK
    <3>2. \/ UNCHANGED <<pxstate, queue>>
          \/ /\ pxstate' = [pxstate EXCEPT ![p] = "Exception"]
             /\ queue' = [queue EXCEPT ![p] = <<>>]
      BY <1>7, <2>1, ReturnFact
    <3> QED  BY <2>1, <3>1, <3>2
  <2>3. pc' \in [PoolThread -> PCs] /\ ev' \in [PoolThread -> Seq(Nat)]
    <3>1. /\ pc \in [PoolThread -> PCs] /\ {"reset", "invalid"} \subseteq PCs
          /\ ev \in [PoolThread -> Seq(Nat)] /\ <<>> \in Seq(Nat)
      BY EmptySeq DEF TypeOK, PCs
    <3>2. /\ \E to \in {"reset", "invalid"} : pc' = [pc EXCEPT ![t] = to]
          /\ ev' = [ev EXCEPT ![t] = <<>>]
      BY <1>7, <2>1, ReturnFact
    <3> QED  BY <3>1, <3>2
  <2>4. dis' \in [Proxy -> {"no", "one", "woken", "remove", "clean", "done"}]
    BY <1>7, <2>1 DEF PushReturns, Debump, TypeOK
  <2>5. /\ UNCHANGED <<pool, lock, iter, node, wait, active, registered, conf, due, work>>
        /\ UNCHANGED <<chan, added>>
    BY <1>7 DEF PushReturns
  <2> QED  BY <2>2, <2>3, <2>4, <2>5 DEF TypeOK, PCs
<1>8. CASE Reset(t)
  <2>1. node[t] \in Proxy  BY <1>5, <1>8 DEF Reset, Busy
  <2> QED  BY <1>8, <2>1 DEF Reset, TypeOK
<1>9. CASE SetDeled(t)
  <2>1. node[t] \in Proxy  BY <1>5, <1>9 DEF SetDeled, Busy
  <2> QED  BY <1>9, <2>1 DEF SetDeled, TypeOK
<1> QED  BY <1>1, <1>2, <1>3, <1>4, <1>6, <1>7, <1>8, <1>9 DEF Notify

LEMMA WorkerTypes ==
  ASSUME TypeOK, UNCHANGED usePool, NEW p \in Proxy, Worker(p)
  PROVE  TypeOK'
<1> USE DEF pool, locals, proxy, work, conf
<1>1. CASE WorkerWaits(p)  BY <1>1 DEF WorkerWaits, TypeOK, Timer
<1>2. CASE WorkerWakes(p)  BY <1>2 DEF WorkerWakes, TypeOK
<1>3. CASE WorkerPushes(p)
  <2> DEFINE r == SubSeq(queue[p], Len(Batch(p)) + 1, Len(queue[p]))
  <2>1. r \in Seq(Nat) /\ Batch(p) \in Seq(Nat)  BY BatchFact
  <2>2. queue' = [queue EXCEPT ![p] = r] /\ wev' = [wev EXCEPT ![p] = Batch(p)]
    BY <1>3 DEF WorkerPushes, TakeBatch
  <2> HIDE DEF r
  <2>3. queue' \in [Proxy -> Seq(Nat)] /\ wev' \in [Proxy -> Seq(Nat)]
    BY <2>1, <2>2 DEF TypeOK
  <2> QED  BY <1>3, <2>3 DEF WorkerPushes, TypeOK, Timer
<1>4. CASE WorkerReturns(p)
  <2>1. /\ pxstate' \in [Proxy -> {"none", "NotConnected", "Connected", "Exception", "Disconnected"}]
        /\ queue' \in [Proxy -> Seq(Nat)]
    <3>1. /\ pxstate \in [Proxy -> {"none", "NotConnected", "Connected", "Exception", "Disconnected"}]
          /\ queue \in [Proxy -> Seq(Nat)] /\ <<>> \in Seq(Nat)
      BY EmptySeq DEF TypeOK
    <3>2. \/ UNCHANGED <<pxstate, queue>>
          \/ /\ pxstate' = [pxstate EXCEPT ![p] = "Exception"]
             /\ queue' = [queue EXCEPT ![p] = <<>>]
      BY <1>4, WorkerReturnFact
    <3> QED  BY <3>1, <3>2
  <2> QED  BY <1>4, <2>1, EmptySeq DEF WorkerReturns, TypeOK, Restarted
<1>5. CASE WorkerExits(p)  BY <1>5 DEF WorkerExits, Debump, TypeOK
<1> QED  BY <1>1, <1>2, <1>3, <1>4, <1>5 DEF Worker

LEMMA DestroyTypes ==
  ASSUME TypeOK, UNCHANGED usePool, Shutdown \/ TerminatePool \/ JoinPool \/ DestroyAdmins
  PROVE  TypeOK'
<1> USE DEF pool, locals, proxy, work, conf
<1>1. CASE Shutdown  BY <1>1 DEF Shutdown, TypeOK
<1>2. CASE TerminatePool
  <2>1. pc' \in [PoolThread -> PCs]  BY <1>2 DEF TerminatePool, BroadcastPool, TypeOK, PCs
  <2> QED  BY <1>2, <2>1 DEF TerminatePool, TypeOK, PCs
<1>3. CASE JoinPool  BY <1>3, EmptySeq DEF JoinPool, TypeOK
<1>4. CASE DestroyAdmins  BY <1>4 DEF DestroyAdmins, TypeOK
<1> QED  BY <1>1, <1>2, <1>3, <1>4

-----------------------------------------------------------------------------
(* Steps that leave the list, the entries and the disposals alone          *)

(* Pool threads go to sleep and wake, workers run on, and nothing happens   *)
(* to the list or to who is disposed of.                                   *)
Resting == {"lock", "wait", "timed"}
Running == {"top", "wait", "timed", "push"}

Undisturbed ==
  /\ UNCHANGED <<entries, mylast, inuse, deled, terminate, lock, node>>
  /\ UNCHANGED <<registered, dis, chan, usePool>>
  /\ \A t \in PoolThread : pc'[t] = pc[t] \/ (pc[t] \in Resting /\ pc'[t] \in Resting)
  /\ \A p \in Proxy : wpc'[p] = wpc[p] \/ (wpc[p] \in Running /\ wpc'[p] \in Running)
  /\ \A p \in Proxy : pxstate'[p] = "none" => pxstate[p] = "none"
  /\ \A p \in Proxy : pxstate[p] = "Disconnected" => pxstate'[p] = "Disconnected"

LEMMA UndisturbedSafe ==
  ASSUME IInv, Undisturbed
  PROVE  Nodes' /\ Searching' /\ Modes' /\ Lives'
<1> USE DEF IInv, Undisturbed, Resting, Running
<1>1. Nodes'
  <2>1. \A t \in PoolThread : pc'[t] \in Busy <=> pc[t] \in Busy  BY DEF Busy
  <2> QED  BY <2>1 DEF Nodes
<1>2. Searching'
  <2>1. \A t \in PoolThread : pc'[t] = "scan" <=> pc[t] = "scan"  OBVIOUS
  <2> QED  BY <2>1 DEF Searching
<1>3. Modes'
  <2>1. \A t \in PoolThread : pc[t] = "exit" => pc'[t] = "exit"  OBVIOUS
  <2>2. \A p \in Proxy : wpc[p] = "none" => wpc'[p] = "none"  OBVIOUS
  <2> QED  BY <2>1, <2>2 DEF Modes
<1>4. ASSUME NEW p \in Proxy PROVE Users(p)' = Users(p)
  <2>1. \A t \in PoolThread : pc'[t] = "push" <=> pc[t] = "push"  OBVIOUS
  <2>2. wpc'[p] \in {"none", "exit"} <=> wpc[p] \in {"none", "exit"}  OBVIOUS
  <2>3. Pushers(p)' = Pushers(p)  BY <2>1 DEF Pushers
  <2> QED  BY <2>2, <2>3 DEF Users
<1>5. Lives'
  <2>1. \A p \in Proxy : wpc[p] = "none" => wpc'[p] = "none"  OBVIOUS
  <2> QED  BY <1>4, <2>1 DEF Lives
<1> QED  BY <1>1, <1>2, <1>3, <1>5

(* Who is woken by a signal was asleep. *)
LEMMA WakeFact ==
  ASSUME TypeOK, NEW p \in Proxy, SignalPushThreads(p) \/ (SignalPool /\ UNCHANGED wpc)
  PROVE  /\ \A t \in PoolThread : pc'[t] = pc[t] \/ (pc[t] \in Resting /\ pc'[t] \in Resting)
         /\ \A q \in Proxy : wpc'[q] = wpc[q] \/ (wpc[q] \in Running /\ wpc'[q] \in Running)
<1>1. pc \in [PoolThread -> PCs] /\ wpc \in [Proxy -> Running \cup {"none", "exit"}]
  BY DEF TypeOK, PCs, Running
<1>2. SignalPool => \A t \in PoolThread : pc'[t] = pc[t] \/ (pc[t] \in Resting /\ pc'[t] \in Resting)
  BY <1>1 DEF SignalPool, Resting
<1>3. WakeWorker(p) =>
        \A q \in Proxy : wpc'[q] = wpc[q] \/ (wpc[q] \in Running /\ wpc'[q] \in Running)
  BY <1>1 DEF WakeWorker, Running
<1> QED  BY <1>2, <1>3 DEF SignalPushThreads

LEMMA ClientUndisturbed ==
  ASSUME IInv, UNCHANGED usePool, NEW p \in Proxy,
         \/ Connect(p) \/ Suspend(p) \/ Resume(p) \/ AddEvent(p) \/ SetQos(p)
         \/ TimePasses(p) \/ DisconnectSequence(p)
  PROVE  Undisturbed
<1> USE DEF pool, locals, proxy, work, conf
<1>0. pxstate \in [Proxy -> {"none", "NotConnected", "Connected", "Exception", "Disconnected"}]
  BY DEF IInv, TypeOK
<1>1. CASE Connect(p)  BY <1>0, <1>1 DEF Connect, Undisturbed
<1>2. CASE Suspend(p)  BY <1>2 DEF Suspend, Undisturbed
<1>3. CASE Resume(p)  BY <1>3, WakeFact DEF Resume, Undisturbed, IInv
<1>4. CASE AddEvent(p)  BY <1>4, WakeFact DEF AddEvent, Undisturbed, IInv
<1>5. CASE SetQos(p)  BY <1>5 DEF SetQos, Undisturbed
<1>6. CASE TimePasses(p)  BY <1>6 DEF TimePasses, Undisturbed
<1>7. CASE DisconnectSequence(p)  BY <1>0, <1>7 DEF DisconnectSequence, Undisturbed
<1> QED  BY <1>1, <1>2, <1>3, <1>4, <1>5, <1>6, <1>7

LEMMA OthersUndisturbed ==
  ASSUME IInv, UNCHANGED usePool, OtherSignals
  PROVE  TypeOK' /\ Undisturbed
<1> USE DEF pool, locals, proxy, work, conf
<1>1. pc \in [PoolThread -> PCs]  BY DEF IInv, TypeOK, PCs
<1>2. PICK t \in PoolThread :
        pc[t] \in {"wait", "timed"} /\ pc' = [pc EXCEPT ![t] = "lock"]
  BY DEF OtherSignals, SignalPool
<1>3. pc' \in [PoolThread -> PCs]  BY <1>1, <1>2 DEF PCs
<1>4. TypeOK'  BY <1>3 DEF OtherSignals, IInv, TypeOK, PCs
<1>5. \A u \in PoolThread : pc'[u] = pc[u] \/ (pc[u] \in Resting /\ pc'[u] \in Resting)
  BY <1>1, <1>2 DEF Resting
<1> QED  BY <1>4, <1>5 DEF OtherSignals, Undisturbed

LEMMA ThreadUndisturbed ==
  ASSUME IInv, UNCHANGED usePool,
         \/ \E t \in PoolThread : TimedWake(t)
         \/ \E p \in Proxy :
              WorkerWaits(p) \/ WorkerWakes(p) \/ WorkerPushes(p) \/ WorkerReturns(p)
  PROVE  Undisturbed
<1> USE DEF pool, locals, proxy, work, conf
<1>0. /\ pxstate \in [Proxy -> {"none", "NotConnected", "Connected", "Exception", "Disconnected"}]
      /\ pc \in [PoolThread -> PCs] /\ wpc \in [Proxy -> Running \cup {"none", "exit"}]
  BY DEF IInv, TypeOK, PCs, Running
<1>1. ASSUME NEW t \in PoolThread, TimedWake(t) PROVE Undisturbed
  BY <1>0, <1>1 DEF TimedWake, Undisturbed, Resting
<1>2. ASSUME NEW p \in Proxy, WorkerWaits(p) PROVE Undisturbed
  BY <1>0, <1>2 DEF WorkerWaits, Undisturbed, Running
<1>3. ASSUME NEW p \in Proxy, WorkerWakes(p) PROVE Undisturbed
  BY <1>0, <1>3 DEF WorkerWakes, Undisturbed, Running
<1>4. ASSUME NEW p \in Proxy, WorkerPushes(p) PROVE Undisturbed
  BY <1>0, <1>4 DEF WorkerPushes, Undisturbed, Running
<1>5. ASSUME NEW p \in Proxy, WorkerReturns(p) PROVE Undisturbed
  <2>1. /\ \A q \in Proxy : pxstate'[q] = "none" => pxstate[q] = "none"
        /\ \A q \in Proxy : pxstate[q] = "Disconnected" => pxstate'[q] = "Disconnected"
    <3>1. pxstate' = pxstate
          \/ (pxstate[p] = "Connected" /\ pxstate' = [pxstate EXCEPT ![p] = "Exception"])
      BY <1>5, WorkerReturnFact
    <3> QED  BY <1>0, <3>1
  <2>2. \A q \in Proxy : wpc'[q] = wpc[q] \/ (wpc[q] \in Running /\ wpc'[q] \in Running)
    BY <1>0, <1>5 DEF WorkerReturns, Running
  <2> QED  BY <1>5, <2>1, <2>2 DEF WorkerReturns, Undisturbed
<1> QED  BY <1>1, <1>2, <1>3, <1>4, <1>5

(* The queue is emptied, loses a batch or is left alone. *)
LEMMA TailsKept ==
  ASSUME TypeOK, Tails, UNCHANGED added, NEW p \in Proxy,
         \/ queue' = queue
         \/ queue' = [queue EXCEPT ![p] = <<>>]
         \/ TakeBatch(p)
  PROVE  Tails'
<1>1. queue \in [Proxy -> Seq(Nat)] /\ added \in [Proxy -> Nat]  BY DEF TypeOK
<1>2. CASE queue' = queue  BY <1>2 DEF Tails
<1>3. CASE queue' = [queue EXCEPT ![p] = <<>>]
  <2> SUFFICES ASSUME NEW q \in Proxy
               PROVE  /\ Len(queue'[q]) <= added[q]
                      /\ \A i \in 1..Len(queue'[q]) : queue'[q][i] = added[q] - Len(queue'[q]) + i
    BY DEF Tails
  <2>1. CASE q = p  BY <1>1, <1>3, <2>1
  <2>2. CASE q # p  BY <1>1, <1>3, <2>2 DEF Tails
  <2> QED  BY <2>1, <2>2
<1>4. CASE TakeBatch(p)
  <2> DEFINE n == Amount(p)  r == SubSeq(queue[p], Len(Batch(p)) + 1, Len(queue[p]))
  <2>1. /\ n \in 0..Len(queue[p]) /\ Len(queue[p]) \in Nat /\ Len(r) = Len(queue[p]) - n
        /\ \A i \in 1..(Len(queue[p]) - n) : r[i] = queue[p][n + i]
    BY BatchFact
  <2>2. queue' = [queue EXCEPT ![p] = r]  BY <1>4 DEF TakeBatch
  <2> HIDE DEF n, r
  <2> SUFFICES ASSUME NEW q \in Proxy
               PROVE  /\ Len(queue'[q]) <= added[q]
                      /\ \A i \in 1..Len(queue'[q]) : queue'[q][i] = added[q] - Len(queue'[q]) + i
    BY DEF Tails
  <2>3. CASE q = p
    <3>1. queue'[q] = r  BY <1>1, <2>2, <2>3
    <3>2. /\ Len(queue[p]) <= added[p] /\ added[p] \in Nat
          /\ \A i \in 1..Len(queue[p]) : queue[p][i] = added[p] - Len(queue[p]) + i
      BY <1>1 DEF Tails
    <3>3. ASSUME NEW i \in 1..Len(r) PROVE r[i] = added[p] - Len(r) + i
      <4>1. n + i \in 1..Len(queue[p]) /\ i \in 1..(Len(queue[p]) - n)  BY <2>1
      <4>2. queue[p][n + i] = added[p] - Len(queue[p]) + (n + i)  BY <3>2, <4>1
      <4> QED  BY SMTT(30), <2>1, <3>2, <4>1, <4>2
    <3>4. Len(r) \in Nat /\ Len(r) <= added[p]  BY <2>1, <3>2
    <3>5. Len(r) <= added[p] /\ \A i \in 1..Len(r) : r[i] = added[p] - Len(r) + i  BY <3>3, <3>4
    <3> QED  BY <2>3, <3>1, <3>5
  <2>4. CASE q # p  BY <1>1, <2>2, <2>4 DEF Tails
  <2> QED  BY <2>3, <2>4
<1> QED  BY <1>2, <1>3, <1>4

LEMMA TailsAdd ==
  ASSUME TypeOK, Tails, NEW p \in Proxy, AddEvent(p)
  PROVE  Tails'
<1> SUFFICES ASSUME NEW q \in Proxy
             PROVE  /\ Len(queue'[q]) <= added'[q]
                    /\ \A i \in 1..Len(queue'[q]) : queue'[q][i] = added'[q] - Len(queue'[q]) + i
  BY DEF Tails
<1>1. CASE q = p
  <2> DEFINE r == queue'[p]  n == Over(p)
  <2>1. /\ n \in 0..Len(queue[p]) /\ Len(queue[p]) \in Nat /\ added[p] \in Nat
        /\ added'[p] = added[p] + 1
        /\ Len(r) = Len(queue[p]) - n + 1
        /\ r[Len(r)] = added[p] + 1
        /\ \A i \in 1..(Len(queue[p]) - n) : r[i] = queue[p][n + i]
    BY AddFact
  <2>2. /\ Len(queue[p]) <= added[p]
        /\ \A i \in 1..Len(queue[p]) : queue[p][i] = added[p] - Len(queue[p]) + i
    BY DEF Tails
  <2> HIDE DEF r, n
  <2> DEFINE m == Len(queue[p])  b == added'[p]  k == Len(r)
  <2>3. k \in Nat /\ m \in Nat /\ n \in 0..m /\ k = m - n + 1 /\ b = added[p] + 1 /\ k <= b
    BY <2>1, <2>2
  <2>4. ASSUME NEW i \in 1..k PROVE r[i] = b - k + i
    <3>1. CASE i = k  BY <2>1, <2>3, <3>1
    <3>2. CASE i # k
      <4>1. i \in 1..(m - n) /\ n + i \in 1..m  BY <2>3, <3>2
      <4>2. queue[p][n + i] = added[p] - m + (n + i)  BY <2>2, <4>1
      <4>3. r[i] = added[p] - m + (n + i)  BY <2>1, <4>1, <4>2
      <4> HIDE DEF m, b, k
      <4> QED  BY <2>1, <2>3, <4>3
    <3> QED  BY <3>1, <3>2
  <2> HIDE DEF b, k
  <2>5. k <= b /\ \A i \in 1..k : r[i] = b - k + i  BY <2>3, <2>4
  <2> QED  BY <1>1, <2>5 DEF r, b, k
<1>2. CASE q # p
  <2>1. queue'[q] = queue[q] /\ added'[q] = added[q]  BY <1>2, AddFact
  <2> QED  BY <2>1 DEF Tails
<1> QED  BY <1>1, <1>2

-----------------------------------------------------------------------------
(* The other steps                                                         *)

LEMMA UsersShrink ==
  ASSUME NEW p \in Proxy,
         \A t \in PoolThread :
           pc'[t] = "push" /\ node'[t] = p => pc[t] = "push" /\ node[t] = p,
         wpc[p] \in {"none", "exit"} => wpc'[p] \in {"none", "exit"}
  PROVE  Users(p)' \subseteq Users(p)
<1>1. Pushers(p)' \subseteq Pushers(p)  BY DEF Pushers
<1> QED  BY <1>1 DEF Users

(* Whoever is in the list after a new entry was put first. *)
LEMMA HeadFact ==
  ASSUME NEW s \in Seq(Proxy), NEW p \in Proxy
  PROVE  /\ <<p>> \o s \in Seq(Proxy) /\ <<p>> \o s # <<>>
         /\ Len(<<p>> \o s) = Len(s) + 1 /\ (<<p>> \o s)[1] = p
         /\ \A i \in 1..Len(s) : (<<p>> \o s)[i + 1] = s[i]
         /\ \A q : q \in ToSet(<<p>> \o s) <=> q = p \/ q \in ToSet(s)
<1> DEFINE one == <<p>>  r == one \o s
<1>1. one \in Seq(Proxy) /\ Len(one) = 1 /\ one[1] = p /\ Len(s) \in Nat  BY LenProperties
<1> HIDE DEF one
<1>2. /\ r \in Seq(Proxy) /\ Len(r) = Len(one) + Len(s)
      /\ \A i \in 1..(Len(one) + Len(s)) :
           r[i] = IF i <= Len(one) THEN one[i] ELSE s[i - Len(one)]
  BY <1>1, ConcatProperties
<1> HIDE DEF r
<1>3. Len(r) = Len(s) + 1 /\ r[1] = p /\ \A i \in 1..Len(s) : r[i + 1] = s[i]
  <2>1. \A i \in 1..(Len(s) + 1) : r[i] = IF i <= 1 THEN one[i] ELSE s[i - 1]
    BY <1>1, <1>2
  <2>2. ASSUME NEW i \in 1..Len(s) PROVE r[i + 1] = s[i]
    <3>1. i + 1 \in 1..(Len(s) + 1) /\ ~ (i + 1 <= 1) /\ i + 1 - 1 = i  BY <1>1
    <3> QED  BY <2>1, <3>1
  <2> QED  BY <1>1, <1>2, <2>1, <2>2
<1>4. ASSUME NEW q PROVE q \in ToSet(r) <=> q = p \/ q \in ToSet(s)
  <2>1. (\E i \in 1..Len(r) : r[i] = q) <=> q = p \/ \E i \in 1..Len(s) : s[i] = q
    <3>1. ASSUME NEW i \in 1..Len(r), i # 1, r[i] = q PROVE \E j \in 1..Len(s) : s[j] = q
      <4>1. i - 1 \in 1..Len(s) /\ i - 1 + 1 = i  BY <1>1, <1>3, <3>1
      <4> QED  BY <1>3, <3>1, <4>1
    <3>2. ASSUME NEW j \in 1..Len(s), s[j] = q PROVE \E i \in 1..Len(r) : r[i] = q
      <4>1. j + 1 \in 1..Len(r)  BY <1>1, <1>3
      <4> QED  BY <1>3, <3>2, <4>1
    <3>3. 1 \in 1..Len(r)  BY <1>1, <1>3
    <3> QED  BY <1>3, <3>1, <3>2, <3>3
  <2> QED  BY <1>2, <2>1, ToSetFact
<1>5. r # <<>>  BY <1>1, <1>2, <1>3, ToSetFact
<1> QED  BY <1>2, <1>3, <1>4, <1>5 DEF r, one

LEMMA CreateSafe ==
  ASSUME IInv, UNCHANGED usePool, NEW p \in Proxy, Create(p)
  PROVE  Nodes' /\ Searching' /\ Modes' /\ Lives' /\ Tails'
<1> USE DEF pool, locals, proxy, work, conf, IInv
<1>1. /\ pxstate[p] = "none" /\ chan = "open" /\ lock = {} /\ p \notin ToSet(entries)
      /\ wpc[p] = "none" /\ ~inuse[p]
  BY DEF Create, Lives
<1>2. /\ \A t \in PoolThread : pc'[t] = pc[t] \/ (pc[t] \in Resting /\ pc'[t] \in Resting)
      /\ \A q \in Proxy : q # p => wpc'[q] = wpc[q]
  <2>1. wpc' = wpc \/ wpc' = [wpc EXCEPT ![p] = "top"]  BY DEF Create
  <2>2. (SignalPool /\ UNCHANGED wpc) \/ UNCHANGED pc  BY DEF Create
  <2> QED  BY <2>1, <2>2, WakeFact DEF TypeOK
<1>3. \/ usePool /\ entries' = <<p>> \o entries /\ wpc' = wpc
      \/ ~usePool /\ entries' = entries /\ pc' = pc
  BY DEF Create
<1>4. \A q : q \in ToSet(entries') <=> q \in ToSet(entries) \/ (usePool /\ q = p)
  BY <1>3, HeadFact DEF TypeOK
<1>5. /\ UNCHANGED <<mylast, inuse, deled, terminate, lock, locals, dis, queue, added, chan>>
      /\ registered' = registered \cup {p}
      /\ \A q \in Proxy : q # p => pxstate'[q] = pxstate[q]
      /\ pxstate'[p] = "NotConnected"
  BY DEF Create, TypeOK
<1>6. Nodes'
  <2>1. \A t \in PoolThread : pc'[t] \in Busy <=> pc[t] \in Busy  BY <1>2 DEF Busy, Resting
  <2> QED  BY <1>4, <1>5, <2>1 DEF Nodes
<1>7. Searching'
  <2>1. \A t \in PoolThread : pc'[t] = "scan" <=> pc[t] = "scan"  BY <1>2 DEF Resting
  <2> QED  BY <1>1, <1>4, <1>5, <2>1 DEF Searching
<1>8. Modes'  BY <1>1, <1>3, <1>5 DEF Modes
<1>9. ASSUME NEW q \in Proxy, q # p PROVE Users(q)' \subseteq Users(q)
  <2>1. \A t \in PoolThread : pc'[t] = "push" => pc[t] = "push"  BY <1>2 DEF Resting
  <2> QED  BY <1>2, <1>5, <1>9, <2>1, UsersShrink
<1>10. Lives'
  <2>1. \A q \in Proxy : dis[q] # "no" => q # p  BY <1>1 DEF Lives
  <2> QED  BY <1>1, <1>2, <1>4, <1>5, <1>9, <2>1 DEF Lives
<1>11. Tails'  BY <1>5 DEF Tails
<1> QED  BY <1>6, <1>7, <1>8, <1>10, <1>11

(* What becomes of the list when the admin removes a proxy. *)
LEMMA RemoveFact ==
  ASSUME IInv, NEW p \in Proxy, Unregister(p)
  PROVE  /\ \A q : q \in ToSet(entries') => q \in ToSet(entries)
         /\ \A q \in ToSet(entries) : inuse[q] => q \in ToSet(entries')
         /\ \A q \in Proxy : deled'[q] = deled[q] \/ (q = p /\ deled'[q])
         /\ chan = "open" /\ p \in registered /\ p \in ToSet(entries) => deled'[p]
         /\ lock # {} => UNCHANGED entries
         /\ mylast' # NoProxy => mylast' \in ToSet(entries')
         /\ ~usePool => UNCHANGED entries
         /\ registered' = registered \ {p}
         /\ UNCHANGED <<inuse, terminate, lock, pc, locals, pxstate, active, queue>>
         /\ UNCHANGED <<conf, due, work, chan, added>>
<1> DEFINE marked == [deled EXCEPT ![p] = TRUE]
<1>1. CASE /\ p \in registered /\ PushConsumer /\ lock = {} /\ p \in ToSet(entries) /\ ~terminate
           /\ deled' = marked /\ Gcollect(marked)
  <2>1. marked \in [Proxy -> BOOLEAN] /\ \A q \in Proxy : marked[q] = deled[q] \/ (q = p /\ marked[q])
    BY DEF IInv, TypeOK
  <2>2. marked[p]  BY DEF IInv, TypeOK
  <2> HIDE DEF marked
  <2>3. /\ \A q : q \in ToSet(entries') <=> q \in ToSet(entries) /\ (inuse[q] \/ ~marked[q])
        /\ mylast' # NoProxy => mylast' \in ToSet(entries')
    BY <1>1, <2>1, GcollectFact DEF IInv
  <2> QED  BY <1>1, <2>1, <2>2, <2>3 DEF PushConsumer, Unregister
<1>2. CASE /\ p \in registered /\ PushConsumer /\ lock = {} /\ p \in ToSet(entries) /\ ~terminate
           /\ deled' = marked /\ UNCHANGED <<entries, mylast>>
  <2>1. \A q \in Proxy : marked[q] = deled[q] \/ (q = p /\ marked[q])
    BY DEF IInv, TypeOK
  <2>2. marked[p]  BY DEF IInv, TypeOK
  <2> HIDE DEF marked
  <2> QED  BY <1>2, <2>1, <2>2 DEF Unregister, IInv, Searching
<1>3. CASE /\ ~ (p \in registered /\ PushConsumer /\ p \in ToSet(entries) /\ ~terminate)
           /\ UNCHANGED <<entries, mylast, deled>>
  <2>1. chan = "open" /\ p \in ToSet(entries) => PushConsumer /\ ~terminate
    <3>1. p \in ToSet(entries) => entries # <<>>  BY ToSetFact DEF IInv, TypeOK
    <3> QED  BY <3>1 DEF IInv, Modes, PushConsumer
  <2> QED  BY <1>3, <2>1 DEF Unregister, IInv, Searching
<1> QED  BY <1>1, <1>2, <1>3, Zenon DEF Unregister, RemoveProxySupplier

LEMMA UnregisterSafe ==
  ASSUME IInv, UNCHANGED usePool, NEW p \in Proxy, Unregister(p),
         \/ UNCHANGED dis
         \/ dis[p] = "remove" /\ dis' = [dis EXCEPT ![p] = "clean"]
  PROVE  Nodes' /\ Searching' /\ Modes' /\ Lives' /\ Tails'
<1> USE DEF IInv
<1>1. /\ \A q : q \in ToSet(entries') => q \in ToSet(entries)
      /\ \A q \in ToSet(entries) : inuse[q] => q \in ToSet(entries')
      /\ \A q \in Proxy : deled'[q] = deled[q] \/ (q = p /\ deled'[q])
      /\ chan = "open" /\ p \in registered /\ p \in ToSet(entries) => deled'[p]
      /\ lock # {} => UNCHANGED entries
      /\ mylast' # NoProxy => mylast' \in ToSet(entries')
      /\ ~usePool => UNCHANGED entries
      /\ registered' = registered \ {p}
      /\ UNCHANGED <<inuse, terminate, lock, pc, node, pxstate, queue, chan, added, wpc>>
  BY RemoveFact DEF locals, work
<1>2. Nodes'  BY <1>1 DEF Nodes
<1>3. Searching'  BY <1>1 DEF Searching
<1>4. Modes'  BY <1>1 DEF Modes
<1>5. \A q \in Proxy : Users(q)' = Users(q)  BY <1>1 DEF Users, Pushers
<1>6. \A q \in Proxy : dis'[q] = dis[q] \/ (q = p /\ dis[q] = "remove" /\ dis'[q] = "clean")
  BY DEF TypeOK
<1>7. Lives'
  <2>1. \A q \in ToSet(entries) : q \in Proxy  BY ToSetFact DEF TypeOK
  <2>2. chan' = "open" => \A q \in ToSet(entries') : q \in registered' \/ deled'[q]
    BY <1>1, <2>1 DEF Lives
  <2>3. \A q \in Proxy : dis'[q] \in {"clean", "done"} => q \notin registered'
    BY <1>1, <1>6 DEF Lives
  <2> QED  BY <1>1, <1>5, <1>6, <2>2, <2>3 DEF Lives
<1>8. Tails'  BY <1>1 DEF Tails
<1> QED  BY <1>2, <1>3, <1>4, <1>7, <1>8

LEMMA AwaitSafe ==
  ASSUME IInv, NEW p \in Proxy, AwaitInuseOne(p), pxstate' = [pxstate EXCEPT ![p] = "Disconnected"],
         pxstate[p] # "none",
         UNCHANGED <<pool, lock, pc, node, queue, registered, chan, usePool, added>>
  PROVE  Nodes' /\ Searching' /\ Modes' /\ Lives' /\ Tails'
<1> USE DEF pool, IInv
<1>1. /\ \A q \in Proxy : wpc'[q] = wpc[q] \/ (wpc[q] \in Running /\ wpc'[q] \in Running)
      /\ \A q \in Proxy : dis'[q] = dis[q] \/ q = p
      /\ \/ dis'[p] = "one"
         \/ Users(p) = {} /\ dis'[p] \in {"remove", "clean"} /\ (p \in registered => dis'[p] = "remove")
      /\ \A q \in Proxy : pxstate'[q] = IF q = p THEN "Disconnected" ELSE pxstate[q]
  BY DEF TypeOK, AwaitInuseOne, WakeWorker, Running
<1>2. Nodes'  BY DEF Nodes
<1>3. Searching'  BY DEF Searching
<1>4. Modes'  BY <1>1 DEF Modes, Running
<1>5. ASSUME NEW q \in Proxy PROVE Users(q)' \subseteq Users(q)
  BY <1>1, <1>5, UsersShrink DEF Running
<1>6. Lives'
  <2>1. \A q \in Proxy : wpc[q] = "none" => wpc'[q] = "none"  BY <1>1 DEF Running
  <2> QED  BY <1>1, <1>5, <2>1 DEF Lives
<1>7. Tails'  BY DEF Tails
<1> QED  BY <1>2, <1>3, <1>4, <1>6, <1>7

LEMMA DisposalSafe ==
  ASSUME IInv, UNCHANGED usePool, NEW p \in Proxy,
         \/ Disconnect(p) \/ InuseOne(p) \/ RemoveFromAdmin(p) \/ AdminRemoves(p) \/ Dispose(p)
  PROVE  Nodes' /\ Searching' /\ Modes' /\ Lives' /\ Tails'
<1>1. CASE Disconnect(p)  BY <1>1, AwaitSafe DEF Disconnect, locals
<1>2. CASE InuseOne(p)
  <2>1. pxstate[p] = "Disconnected"  BY <1>2 DEF InuseOne, IInv, Lives
  <2>2. pxstate' = [pxstate EXCEPT ![p] = "Disconnected"]  BY <1>2, <2>1 DEF InuseOne, IInv, TypeOK
  <2> QED  BY <1>2, <2>1, <2>2, AwaitSafe DEF InuseOne, locals
<1>3. CASE RemoveFromAdmin(p)  BY <1>3, UnregisterSafe DEF RemoveFromAdmin
<1>4. CASE AdminRemoves(p)  BY <1>4, UnregisterSafe DEF AdminRemoves
<1>5. CASE Dispose(p)
  <2> USE DEF IInv, pool, work, locals
  <2>1. /\ UNCHANGED <<pool, lock, pc, node, pxstate, registered, work, chan, added>>
        /\ dis[p] = "clean" /\ queue' = [queue EXCEPT ![p] = <<>>]
        /\ \A q \in Proxy : dis'[q] = IF q = p THEN "done" ELSE dis[q]
    BY <1>5 DEF Dispose, TypeOK
  <2>2. Nodes'  BY <2>1 DEF Nodes
  <2>3. Searching'  BY <2>1 DEF Searching
  <2>4. Modes'  BY <2>1 DEF Modes
  <2>5. \A q \in Proxy : Users(q)' = Users(q)  BY <2>1 DEF Users, Pushers
  <2>6. Lives'  BY <2>1, <2>5 DEF Lives
  <2>7. Tails'  BY <2>1, TailsKept
  <2> QED  BY <2>2, <2>3, <2>4, <2>6, <2>7
<1> QED  BY <1>1, <1>2, <1>3, <1>4, <1>5

(* Steps of a pool thread that leave the entries, and who is with them.    *)
LEMMA LockSafe ==
  ASSUME IInv, UNCHANGED usePool, NEW t \in PoolThread, Lock(t)
  PROVE  Nodes' /\ Searching' /\ Modes' /\ Lives' /\ Tails'
<1> USE DEF IInv, pool, proxy, work
<1>1. /\ UNCHANGED <<pool, node, proxy, work, chan, added>>
      /\ pc[t] = "lock" /\ lock = {}
      /\ \/ terminate /\ pc'[t] = "exit" /\ lock' = {}
         \/ pc'[t] \in {"wait", "timed"} /\ lock' = {}
         \/ pc'[t] = "scan" /\ lock' = {t} /\ entries # <<>>
      /\ \A u \in PoolThread : u # t => pc'[u] = pc[u]
  <2>1. PICK to \in {"exit", "wait", "timed", "scan"} :
          /\ pc' = [pc EXCEPT ![t] = to]
          /\ \/ terminate /\ to = "exit" /\ lock' = {}
             \/ to \in {"wait", "timed"} /\ lock' = {}
             \/ to = "scan" /\ lock' = {t} /\ entries # <<>>
    BY Zenon DEF Lock, Sleep
  <2> QED  BY <2>1 DEF Lock, TypeOK
<1>2. Nodes'
  <2>1. \A u \in PoolThread : pc'[u] \in Busy <=> pc[u] \in Busy  BY <1>1 DEF Busy
  <2> QED  BY <1>1, <2>1 DEF Nodes
<1>3. Searching'  BY <1>1 DEF Searching
<1>4. Modes'
  <2>1. usePool  BY <1>1 DEF Modes
  <2> QED  BY <1>1, <2>1 DEF Modes
<1>5. ASSUME NEW q \in Proxy PROVE Users(q)' \subseteq Users(q)
  BY <1>1, <1>5, UsersShrink
<1>6. Lives'  BY <1>1, <1>5 DEF Lives
<1>7. Tails'  BY <1>1 DEF Tails
<1> QED  BY <1>2, <1>3, <1>4, <1>6, <1>7

LEMMA ScanSafe ==
  ASSUME IInv, UNCHANGED usePool, NEW t \in PoolThread, Scan(t)
  PROVE  Nodes' /\ Searching' /\ Modes' /\ Lives' /\ Tails'
<1> USE DEF IInv, pool, proxy, work
<1> DEFINE p == NextEntry
<1>1. /\ p \in Proxy /\ p \in ToSet(entries) /\ pc[t] = "scan" /\ entries # <<>>
      /\ mylast' = p
      /\ UNCHANGED <<entries, deled, terminate, proxy, work, chan, added>>
  BY SearchFact, ScanFact DEF Scan
<1>11. /\ pc \in [PoolThread -> PCs] /\ inuse \in [Proxy -> BOOLEAN]
      /\ node \in [PoolThread -> Proxy \cup {NoProxy}]
  BY DEF TypeOK, PCs
<1>12. \/ /\ ~inuse[p]
         /\ inuse' = [inuse EXCEPT ![p] = TRUE]
         /\ node' = [node EXCEPT ![t] = p]
         /\ pc' = [pc EXCEPT ![t] = "test"] /\ lock' = {}
      \/ UNCHANGED <<inuse, node, pc, lock>>
      \/ /\ \/ pc' = [pc EXCEPT ![t] = "timed"] \/ pc' = [pc EXCEPT ![t] = "wait"]
         /\ lock' = {} /\ UNCHANGED <<inuse, node>>
  BY ScanFact DEF Available, Asked
<1> HIDE DEF p
<1>2. \/ /\ ~inuse[p] /\ pc'[t] = "test" /\ node'[t] = p /\ lock' = {}
         /\ \A q \in Proxy : inuse'[q] = IF q = p THEN TRUE ELSE inuse[q]
         /\ \A u \in PoolThread : u # t => node'[u] = node[u]
      \/ /\ \/ pc'[t] \in {"wait", "timed"} /\ lock' = {}
            \/ pc' = pc /\ lock' = lock
         /\ UNCHANGED <<inuse, node>>
  BY <1>1, <1>11, <1>12
<1>3. \A u \in PoolThread : u # t => pc'[u] = pc[u]  BY <1>11, <1>12
<1>4. usePool  BY <1>1 DEF Modes
<1>5. Nodes'
  <2>1. \A u \in PoolThread : node[u] # NoProxy => inuse[node[u]]  BY DEF Nodes
  <2>2. p # NoProxy  BY <1>1, ProxyAssumption
  <2>3. \A u \in PoolThread : node[u] # NoProxy => node[u] \in Proxy  BY DEF TypeOK
  <2>4. CASE UNCHANGED <<inuse, node>> /\ pc'[t] \in {"wait", "timed", "scan"}
    <3>1. \A u \in PoolThread : pc'[u] \in Busy <=> pc[u] \in Busy
      BY <1>1, <1>3, <2>4 DEF Busy
    <3> QED  BY <1>1, <2>4, <3>1 DEF Nodes
  <2>5. CASE /\ ~inuse[p] /\ pc'[t] = "test" /\ node'[t] = p
             /\ \A q \in Proxy : inuse'[q] = IF q = p THEN TRUE ELSE inuse[q]
             /\ \A u \in PoolThread : u # t => node'[u] = node[u]
    <3>1. \A u \in PoolThread : u # t => (pc'[u] \in Busy <=> node'[u] # NoProxy)
      BY <1>3, <2>5 DEF Nodes
    <3>2. pc'[t] \in Busy  BY <2>5 DEF Busy
    <3>3. \A u \in PoolThread : u # t => node[u] # p  BY <2>1, <2>2, <2>5
    <3>4. \A u \in PoolThread : node'[u] # NoProxy => inuse'[node'[u]] /\ node'[u] \in ToSet(entries)
      BY <1>1, <2>1, <2>3, <2>5 DEF Nodes
    <3>5. \A u, v \in PoolThread : node'[u] # NoProxy /\ node'[u] = node'[v] => u = v
      BY <2>5, <3>3 DEF Nodes
    <3> QED  BY <1>1, <2>2, <2>5, <3>1, <3>2, <3>4, <3>5 DEF Nodes
  <2> QED  BY <1>1, <1>2, <2>4, <2>5
<1>6. Searching'
  <2>1. \A u \in PoolThread : u # t => u \notin lock /\ pc[u] # "scan"  BY <1>1 DEF Searching
  <2> QED  BY <1>1, <1>2, <1>3, <2>1 DEF Searching, TypeOK
<1>7. Modes'
  <2>1. pc[t] # "exit"  BY <1>1
  <2> QED  BY <1>1, <1>4, <2>1 DEF Modes
<1>8. ASSUME NEW q \in Proxy PROVE Users(q)' \subseteq Users(q)
  <2>1. pc'[t] # "push"  BY <1>1, <1>2
  <2>2. \A u \in PoolThread : u # t => node'[u] = node[u]  BY <1>2
  <2> QED  BY <1>1, <1>3, <2>1, <2>2, UsersShrink
<1>9. Lives'
  <2>1. \A q \in Proxy : pxstate[q] = "none" => ~inuse'[q]  BY <1>1, <1>2 DEF Lives
  <2> QED  BY <1>1, <1>8, <2>1 DEF Lives
<1>10. Tails'  BY <1>1 DEF Tails
<1> QED  BY <1>5, <1>6, <1>7, <1>9, <1>10

LEMMA TestSafe ==
  ASSUME IInv, UNCHANGED usePool, NEW t \in PoolThread, Test(t)
  PROVE  Nodes' /\ Searching' /\ Modes' /\ Lives' /\ Tails'
<1> USE DEF IInv, pool, proxy, work, locals
<1>1. /\ UNCHANGED <<pool, lock, node, proxy, work, chan, added>>
      /\ pc[t] = "test" /\ pc'[t] \in {"reset", "call"}
      /\ \A u \in PoolThread : u # t => pc'[u] = pc[u]
  BY DEF Test, TypeOK
<1>2. Nodes'
  <2>1. \A u \in PoolThread : pc'[u] \in Busy <=> pc[u] \in Busy  BY <1>1 DEF Busy
  <2> QED  BY <1>1, <2>1 DEF Nodes
<1>3. Searching'  BY <1>1 DEF Searching
<1>4. Modes'  BY <1>1 DEF Modes
<1>5. ASSUME NEW q \in Proxy PROVE Users(q)' \subseteq Users(q)
  BY <1>1, <1>5, UsersShrink
<1>6. Lives'  BY <1>1, <1>5 DEF Lives
<1>7. Tails'  BY <1>1 DEF Tails
<1> QED  BY <1>2, <1>3, <1>4, <1>6, <1>7

(* What a thread has got when it asks its proxy for a batch. *)
LEMMA AskFact ==
  ASSUME IInv, NEW t \in PoolThread, PushEvent(t)
  PROVE  /\ node[t] \in Proxy /\ pc[t] = "call"
         /\ \/ /\ dis[node[t]] # "done" /\ HasEvents(node[t]) /\ pc'[t] = "push"
               /\ ev' = [ev EXCEPT ![t] = Batch(node[t])] /\ TakeBatch(node[t])
            \/ pc'[t] \in {"abort", "invalid", "reset"} /\ UNCHANGED <<ev, queue>>
         /\ \A u \in PoolThread : u # t => pc'[u] = pc[u]
         /\ UNCHANGED <<pool, lock, iter, node, wait, pxstate, active, registered, dis>>
         /\ UNCHANGED <<conf, work, chan, added>>
<1>1. node[t] \in Proxy /\ pc[t] = "call"  BY DEF PushEvent, IInv, Nodes, Busy, TypeOK
<1>2. pc \in [PoolThread -> PCs]  BY DEF IInv, TypeOK, PCs
<1>3. CASE /\ dis[node[t]] # "done" /\ HasEvents(node[t])
           /\ ev' = [ev EXCEPT ![t] = Batch(node[t])] /\ TakeBatch(node[t])
           /\ pc' = [pc EXCEPT ![t] = "push"]
  BY <1>1, <1>2, <1>3 DEF PushEvent
<1>4. CASE UNCHANGED <<ev, queue>> /\ \E next \in Refused(node[t]) : pc' = [pc EXCEPT ![t] = next]
  <2>1. Refused(node[t]) \subseteq {"abort", "invalid", "reset"}  BY DEF Refused
  <2> QED  BY <1>1, <1>2, <1>4, <2>1 DEF PushEvent
<1> QED  BY <1>3, <1>4, Zenon DEF PushEvent

LEMMA PushEventSafe ==
  ASSUME IInv, UNCHANGED usePool, NEW t \in PoolThread, PushEvent(t)
  PROVE  Nodes' /\ Searching' /\ Modes' /\ Lives' /\ Tails'
<1> USE DEF IInv, pool, work
<1> DEFINE p == node[t]
<1>1. /\ p \in Proxy /\ pc[t] = "call" /\ pc'[t] \in {"push", "abort", "invalid", "reset"}
      /\ pc'[t] = "push" => HasEvents(p)
      /\ \A u \in PoolThread : u # t => pc'[u] = pc[u]
      /\ UNCHANGED <<pool, lock, node, pxstate, registered, dis, work, chan, added>>
  BY AskFact
<1>2. Nodes'
  <2>1. \A u \in PoolThread : pc'[u] \in Busy <=> pc[u] \in Busy  BY <1>1 DEF Busy
  <2> QED  BY <1>1, <2>1 DEF Nodes
<1>3. Searching'  BY <1>1 DEF Searching
<1>4. Modes'  BY <1>1 DEF Modes
<1>5. ASSUME NEW q \in Proxy, dis[q] # "no" PROVE Users(q)' \subseteq Users(q)
  <2>1. pc'[t] = "push" => q # p
    <3>1. HasEvents(p) => pxstate[p] = "Connected"  BY DEF HasEvents, Pushable
    <3> QED  BY <1>1, <1>5, <3>1 DEF Lives
  <2> QED  BY <1>1, <2>1, UsersShrink
<1>6. Lives'  BY <1>1, <1>5 DEF Lives
<1>7. Tails'
  <2>1. queue' = queue \/ TakeBatch(p)  BY AskFact
  <2> QED  BY <1>1, <2>1, TailsKept
<1> QED  BY <1>2, <1>3, <1>4, <1>6, <1>7

(* The thread that disposes of a proxy is told when it is alone with it. *)
LEMMA DebumpFact ==
  ASSUME TypeOK, NEW p \in Proxy, NEW u, Debump(p, u)
  PROVE  \A q \in Proxy : dis'[q] = dis[q] \/ (q = p /\ dis[q] = "one" /\ dis'[q] = "woken")
BY DEF TypeOK, Debump

LEMMA ReturnSafe ==
  ASSUME IInv, UNCHANGED usePool, NEW t \in PoolThread, PushReturns(t)
  PROVE  Nodes' /\ Searching' /\ Modes' /\ Lives' /\ Tails'
<1> USE DEF IInv, pool, work
<1> DEFINE p == node[t]
<1>1. p \in Proxy /\ pc[t] = "push"  BY DEF PushReturns, Nodes, Busy, TypeOK
<1>2. /\ pc \in [PoolThread -> PCs]
      /\ pxstate \in [Proxy -> {"none", "NotConnected", "Connected", "Exception", "Disconnected"}]
  BY DEF TypeOK, PCs
<1>3. /\ \/ pc' = [pc EXCEPT ![t] = "reset"] /\ UNCHANGED <<pxstate, queue>>
         \/ /\ pc' = [pc EXCEPT ![t] = "invalid"] /\ pxstate[p] = "Connected"
            /\ pxstate' = [pxstate EXCEPT ![p] = "Exception"]
            /\ queue' = [queue EXCEPT ![p] = <<>>]
      /\ UNCHANGED <<pool, lock, node, registered, work, chan, added>>
  BY <1>1, ReturnFact
<1>4. \A q \in Proxy : dis'[q] = dis[q] \/ (q = p /\ dis[q] = "one" /\ dis'[q] = "woken")
  BY <1>1, DebumpFact DEF PushReturns
<1> HIDE DEF p
<1>5. /\ pc'[t] \in {"reset", "invalid"}
      /\ \A u \in PoolThread : u # t => pc'[u] = pc[u]
      /\ \A q \in Proxy : pxstate'[q] = pxstate[q]
                          \/ (pxstate[q] = "Connected" /\ pxstate'[q] = "Exception")
  BY <1>1, <1>2, <1>3
<1>6. Nodes'
  <2>1. \A u \in PoolThread : pc'[u] \in Busy <=> pc[u] \in Busy  BY <1>1, <1>5 DEF Busy
  <2> QED  BY <1>3, <2>1 DEF Nodes
<1>7. Searching'  BY <1>1, <1>3, <1>5 DEF Searching
<1>8. Modes'  BY <1>1, <1>3, <1>5 DEF Modes
<1>9. ASSUME NEW q \in Proxy PROVE Users(q)' \subseteq Users(q)
  BY <1>3, <1>5, <1>9, UsersShrink
<1>10. Lives'  BY <1>3, <1>4, <1>5, <1>9 DEF Lives
<1>11. Tails'
  <2>1. queue' = queue \/ queue' = [queue EXCEPT ![p] = <<>>]  BY <1>3
  <2> QED  BY <1>1, <1>3, <2>1, TailsKept
<1> QED  BY <1>6, <1>7, <1>8, <1>10, <1>11

LEMMA SetDeledSafe ==
  ASSUME IInv, UNCHANGED usePool, NEW t \in PoolThread, SetDeled(t)
  PROVE  Nodes' /\ Searching' /\ Modes' /\ Lives' /\ Tails'
<1> USE DEF IInv, proxy, work, locals
<1>1. /\ UNCHANGED <<entries, mylast, inuse, terminate, lock, node, proxy, work, chan, added>>
      /\ pc[t] = "invalid" /\ pc'[t] = "reset"
      /\ \A u \in PoolThread : u # t => pc'[u] = pc[u]
      /\ \A q \in Proxy : deled[q] => deled'[q]
  BY DEF SetDeled, TypeOK
<1>2. Nodes'
  <2>1. \A u \in PoolThread : pc'[u] \in Busy <=> pc[u] \in Busy  BY <1>1 DEF Busy
  <2> QED  BY <1>1, <2>1 DEF Nodes
<1>3. Searching'  BY <1>1 DEF Searching
<1>4. Modes'  BY <1>1 DEF Modes
<1>5. ASSUME NEW q \in Proxy PROVE Users(q)' \subseteq Users(q)
  BY <1>1, <1>5, UsersShrink
<1>6. Lives'
  <2>1. \A q \in ToSet(entries) : q \in Proxy  BY ToSetFact DEF TypeOK
  <2> QED  BY <1>1, <1>5, <2>1 DEF Lives
<1>7. Tails'  BY <1>1 DEF Tails
<1> QED  BY <1>2, <1>3, <1>4, <1>6, <1>7

LEMMA ResetSafe ==
  ASSUME IInv, UNCHANGED usePool, NEW t \in PoolThread, Reset(t)
  PROVE  Nodes' /\ Searching' /\ Modes' /\ Lives' /\ Tails'
<1> USE DEF IInv, proxy, work
<1> DEFINE p == node[t]
<1>1. p \in Proxy /\ pc[t] = "reset"  BY DEF Reset, Nodes, Busy, TypeOK
<1>2. /\ pc'[t] = "lock" /\ \A u \in PoolThread : u # t => pc'[u] = pc[u]
      /\ node'[t] = NoProxy /\ \A u \in PoolThread : u # t => node'[u] = node[u]
      /\ \A q \in Proxy : inuse'[q] = IF q = p THEN FALSE ELSE inuse[q]
      /\ \A q \in Proxy : deled[q] => deled'[q]
      /\ UNCHANGED <<entries, mylast, terminate, lock, proxy, work, chan, added>>
  BY <1>1 DEF Reset, TypeOK
<1>3. \A u \in PoolThread : u # t => node[u] # p
  BY <1>1, ProxyAssumption DEF Nodes
<1> HIDE DEF p
<1>4. Nodes'
  <2>1. \A u \in PoolThread : node[u] # NoProxy => node[u] \in Proxy  BY DEF TypeOK
  <2>2. \A u \in PoolThread : pc'[u] \in Busy <=> node'[u] # NoProxy
    <3>1. pc'[t] \notin Busy  BY <1>2 DEF Busy
    <3> QED  BY <1>2, <3>1 DEF Nodes
  <2>3. ASSUME NEW u \in PoolThread, node'[u] # NoProxy
        PROVE  inuse'[node'[u]] /\ node'[u] \in ToSet(entries')
    <3>1. u # t /\ node'[u] = node[u] /\ node[u] \in Proxy /\ node[u] # p
      BY <1>2, <1>3, <2>1, <2>3
    <3>2. inuse[node[u]] /\ node[u] \in ToSet(entries)  BY <2>3, <3>1 DEF Nodes
    <3> QED  BY <1>2, <3>1, <3>2
  <2>4. \A u, v \in PoolThread : node'[u] # NoProxy /\ node'[u] = node'[v] => u = v
    BY <1>2 DEF Nodes
  <2> QED  BY <2>2, <2>3, <2>4 DEF Nodes
<1>5. Searching'  BY <1>1, <1>2 DEF Searching
<1>6. Modes'  BY <1>1, <1>2 DEF Modes
<1>7. ASSUME NEW q \in Proxy PROVE Users(q)' \subseteq Users(q)
  BY <1>2, <1>7, UsersShrink
<1>8. Lives'
  <2>1. \A q \in ToSet(entries) : q \in Proxy  BY ToSetFact DEF TypeOK
  <2> QED  BY <1>2, <1>7, <2>1 DEF Lives
<1>9. Tails'  BY <1>2 DEF Tails
<1> QED  BY <1>4, <1>5, <1>6, <1>8, <1>9

LEMMA ExitsSafe ==
  ASSUME IInv, UNCHANGED usePool, NEW p \in Proxy, WorkerExits(p)
  PROVE  Nodes' /\ Searching' /\ Modes' /\ Lives' /\ Tails'
<1> USE DEF IInv, pool, locals
<1>1. /\ wpc[p] = "top" /\ \A q \in Proxy : wpc'[q] = IF q = p THEN "exit" ELSE wpc[q]
      /\ UNCHANGED <<pool, lock, pc, node, pxstate, queue, registered, chan, added>>
  BY DEF WorkerExits, TypeOK
<1>2. \A q \in Proxy : dis'[q] = dis[q] \/ (q = p /\ dis[q] = "one" /\ dis'[q] = "woken")
  BY DebumpFact DEF WorkerExits
<1>3. Nodes'  BY <1>1 DEF Nodes
<1>4. Searching'  BY <1>1 DEF Searching
<1>5. Modes'  BY <1>1 DEF Modes
<1>6. ASSUME NEW q \in Proxy PROVE Users(q)' \subseteq Users(q)
  BY <1>1, <1>6, UsersShrink
<1>7. Lives'  BY <1>1, <1>2, <1>6 DEF Lives
<1>8. Tails'  BY <1>1 DEF Tails
<1> QED  BY <1>3, <1>4, <1>5, <1>7, <1>8

LEMMA DestroySafe ==
  ASSUME IInv, UNCHANGED usePool, Shutdown \/ TerminatePool \/ JoinPool \/ DestroyAdmins
  PROVE  Nodes' /\ Searching' /\ Modes' /\ Lives' /\ Tails'
<1> USE DEF IInv, pool, proxy, work, locals
<1>1. UNCHANGED <<inuse, deled, lock, node, pxstate, queue, dis, work, added>>
  BY DEF Shutdown, TerminatePool, JoinPool, DestroyAdmins
<1>2. \A t \in PoolThread : pc'[t] = pc[t] \/ (pc[t] \in Resting /\ pc'[t] \in Resting)
  BY DEF Shutdown, TerminatePool, BroadcastPool, JoinPool, DestroyAdmins, Resting
<1>3. \/ UNCHANGED <<entries, mylast>>
      \/ entries' = <<>> /\ mylast' = NoProxy /\ \A t \in PoolThread : pc[t] = "exit"
  BY DEF Shutdown, TerminatePool, JoinPool, DestroyAdmins
<1>4. chan' # "open" /\ registered' \in {registered, {}}
  BY DEF Shutdown, TerminatePool, JoinPool, DestroyAdmins
<1>5. Nodes'
  <2>1. \A u \in PoolThread : pc'[u] \in Busy <=> pc[u] \in Busy  BY <1>2 DEF Busy, Resting
  <2>2. (\A t \in PoolThread : pc[t] = "exit") => \A t \in PoolThread : node[t] = NoProxy
    BY DEF Nodes, Busy
  <2> QED  BY <1>1, <1>3, <2>1, <2>2 DEF Nodes
<1>6. Searching'
  <2>1. \A u \in PoolThread : pc'[u] = "scan" <=> pc[u] = "scan"  BY <1>2 DEF Resting
  <2>2. (\A t \in PoolThread : pc[t] = "exit") => lock = {}
    BY DEF Searching, TypeOK
  <2> QED  BY <1>1, <1>3, <2>1, <2>2 DEF Searching
<1>7. Modes'
  <2>1. \A t \in PoolThread : pc[t] = "exit" => pc'[t] = "exit"  BY <1>2 DEF Resting
  <2>2. CASE Shutdown  BY <2>2 DEF Shutdown, Modes
  <2>3. CASE TerminatePool  BY <2>3, <1>1, <2>1 DEF TerminatePool, Modes
  <2>4. CASE JoinPool  BY <2>4 DEF JoinPool, Modes
  <2>5. CASE DestroyAdmins  BY <2>5 DEF DestroyAdmins, Modes
  <2> QED  BY <2>2, <2>3, <2>4, <2>5
<1>8. ASSUME NEW q \in Proxy PROVE Users(q)' \subseteq Users(q)
  <2>1. \A u \in PoolThread : pc'[u] = "push" => pc[u] = "push"  BY <1>2 DEF Resting
  <2> QED  BY <1>1, <1>8, <2>1, UsersShrink
<1>9. Lives'
  <2>1. \A q : q \in ToSet(entries') => q \in ToSet(entries)
    <3>1. <<>> \in Seq(Proxy)  BY EmptySeq
    <3>2. ToSet(<<>>) = {}  BY <3>1, ToSetFact
    <3> QED  BY <1>3, <3>2
  <2> QED  BY <1>1, <1>4, <1>8, <2>1 DEF Lives
<1>10. Tails'  BY <1>1 DEF Tails
<1> QED  BY <1>5, <1>6, <1>7, <1>9, <1>10

-----------------------------------------------------------------------------
(* The invariant holds                                                     *)

LEMMA InitInv == Init => IInv
<1> SUFFICES ASSUME Init PROVE IInv  OBVIOUS
<1> USE DEF Init
<1>1. /\ ToSet(entries) = {} /\ entries \in Seq(Proxy) /\ <<>> \in Seq(Nat) /\ Len(<<>>) = 0
  <2>1. <<>> \in Seq(Proxy) /\ <<>> \in Seq(Nat) /\ Len(<<>>) = 0  BY EmptySeq
  <2> QED  BY <2>1, ToSetFact
<1>2. TypeOK
  <2>1. /\ pc \in [PoolThread -> {"lock", "exit"}]
        /\ node \in [PoolThread -> Proxy \cup {NoProxy}] /\ ev \in [PoolThread -> Seq(Nat)]
    BY <1>1
  <2>2. /\ pxstate \in [Proxy -> {"none"}] /\ active \in [Proxy -> BOOLEAN]
        /\ queue \in [Proxy -> Seq(Nat)] /\ dis \in [Proxy -> {"no"}]
        /\ wpc \in [Proxy -> {"none"}] /\ wev \in [Proxy -> Seq(Nat)]
    BY <1>1
  <2>3. /\ inuse \in [Proxy -> BOOLEAN] /\ deled \in [Proxy -> BOOLEAN]
        /\ due \in [Proxy -> {"unset"}] /\ added \in [Proxy -> Nat]
    OBVIOUS
  <2>4. sets \in 0..MaxSets /\ iter \in 0..2  BY ProxyAssumption
  <2> HIDE DEF Init
  <2>5. /\ entries \in Seq(Proxy) /\ mylast \in Proxy \cup {NoProxy}
        /\ terminate \in BOOLEAN /\ lock \subseteq PoolThread /\ wait \subseteq PoolThread
        /\ registered \subseteq Proxy /\ kind \in [Proxy -> Kinds] /\ qos \in [Proxy -> Qos]
        /\ chan = "open"
    BY <1>1 DEF Init
  <2> QED  BY <2>1, <2>2, <2>3, <2>4, <2>5 DEF TypeOK
<1>3. \A t \in PoolThread : pc[t] = IF usePool THEN "lock" ELSE "exit"  OBVIOUS
<1>4. Nodes
  <2>1. \A t \in PoolThread : node[t] = NoProxy /\ pc[t] \notin Busy  BY <1>3 DEF Busy
  <2> QED  BY <2>1 DEF Nodes
<1>5. Searching  BY <1>3 DEF Searching
<1>6. Modes  BY <1>3, ProxyAssumption DEF Modes
<1>7. Lives  BY <1>1 DEF Lives
<1>8. Tails
  <2> SUFFICES ASSUME NEW p \in Proxy
               PROVE  /\ Len(queue[p]) <= added[p]
                      /\ \A i \in 1..Len(queue[p]) : queue[p][i] = added[p] - Len(queue[p]) + i
    BY DEF Tails
  <2>1. queue[p] = <<>> /\ Len(queue[p]) = 0 /\ added[p] = 0  BY <1>1
  <2> QED  BY <2>1
<1> QED  BY <1>2, <1>4, <1>5, <1>6, <1>7, <1>8 DEF IInv

LEMMA UndisturbedTails ==
  ASSUME IInv, UNCHANGED usePool,
         \/ \E p \in Proxy :
              \/ Connect(p) \/ Suspend(p) \/ Resume(p) \/ AddEvent(p) \/ SetQos(p)
              \/ TimePasses(p) \/ DisconnectSequence(p)
              \/ WorkerWaits(p) \/ WorkerWakes(p) \/ WorkerPushes(p) \/ WorkerReturns(p)
         \/ OtherSignals
         \/ \E t \in PoolThread : TimedWake(t)
  PROVE  Tails'
<1> USE DEF IInv, proxy, pool, locals, conf, work
<1>1. ASSUME NEW p \in Proxy,
             \/ Connect(p) \/ Suspend(p) \/ Resume(p) \/ SetQos(p) \/ TimePasses(p)
             \/ DisconnectSequence(p) \/ WorkerWaits(p) \/ WorkerWakes(p)
      PROVE  Tails'
  <2>1. UNCHANGED <<queue, added>>
    BY <1>1 DEF Connect, Suspend, Resume, SetQos, TimePasses, DisconnectSequence,
                WorkerWaits, WorkerWakes
  <2> QED  BY <2>1 DEF Tails
<1>2. ASSUME NEW p \in Proxy, AddEvent(p) PROVE Tails'  BY <1>2, TailsAdd
<1>3. ASSUME NEW p \in Proxy, WorkerPushes(p) PROVE Tails'
  BY <1>3, TailsKept DEF WorkerPushes
<1>4. ASSUME NEW p \in Proxy, WorkerReturns(p) PROVE Tails'
  <2>1. queue' = queue \/ queue' = [queue EXCEPT ![p] = <<>>]  BY <1>4, WorkerReturnFact
  <2> QED  BY <1>4, <2>1, TailsKept DEF WorkerReturns
<1>5. ASSUME OtherSignals \/ \E t \in PoolThread : TimedWake(t) PROVE Tails'
  <2>1. UNCHANGED <<queue, added>>  BY <1>5 DEF OtherSignals, TimedWake
  <2> QED  BY <2>1 DEF Tails
<1> QED  BY <1>1, <1>2, <1>3, <1>4, <1>5

LEMMA StepInv == IInv /\ [Next]_vars => IInv'
<1> SUFFICES ASSUME IInv, [Next]_vars PROVE IInv'  OBVIOUS
<1>1. CASE UNCHANGED vars
  <2> USE <1>1 DEF vars, pool, locals, proxy, work, conf, IInv
  <2>1. TypeOK'  BY DEF TypeOK
  <2>2. Nodes' /\ Searching' /\ Modes' /\ Tails'  BY DEF Nodes, Searching, Modes, Tails
  <2>3. \A p \in Proxy : Users(p)' = Users(p)  BY DEF Users, Pushers
  <2>4. Lives'  BY <2>3 DEF Lives
  <2> QED  BY <2>1, <2>2, <2>4
<1>2. CASE Next
  <2> USE DEF IInv
  <2>0. UNCHANGED usePool /\ Step  BY <1>2 DEF Next, Up
  <2>1. ASSUME NEW p \in Proxy,
               \/ Connect(p) \/ Suspend(p) \/ Resume(p) \/ AddEvent(p) \/ SetQos(p)
               \/ TimePasses(p) \/ DisconnectSequence(p)
        PROVE  IInv'
    BY <2>0, <2>1, ClientTypes, ClientUndisturbed, UndisturbedSafe, UndisturbedTails
  <2>2. ASSUME NEW p \in Proxy, Create(p) PROVE IInv'
    BY <2>0, <2>2, ClientTypes, CreateSafe
  <2>3. ASSUME NEW p \in Proxy,
               \/ Disconnect(p) \/ InuseOne(p) \/ RemoveFromAdmin(p) \/ AdminRemoves(p) \/ Dispose(p)
        PROVE  IInv'
    BY <2>0, <2>3, DisposalTypes, DisposalSafe
  <2>4. ASSUME NEW p \in Proxy, Worker(p) PROVE IInv'
    <3>1. TypeOK'  BY <2>0, <2>4, WorkerTypes
    <3>2. CASE WorkerWaits(p) \/ WorkerWakes(p) \/ WorkerPushes(p) \/ WorkerReturns(p)
      BY <2>0, <3>1, <3>2, ThreadUndisturbed, UndisturbedSafe, UndisturbedTails
    <3>3. CASE WorkerExits(p)  BY <2>0, <3>1, <3>3, ExitsSafe
    <3> QED  BY <2>4, <3>2, <3>3 DEF Worker
  <2>5. ASSUME NEW t \in PoolThread, Notify(t) PROVE IInv'
    <3>1. TypeOK'  BY <2>0, <2>5, NotifyTypes
    <3>2. CASE TimedWake(t)
      BY <2>0, <3>1, <3>2, ThreadUndisturbed, UndisturbedSafe, UndisturbedTails
    <3>3. CASE \/ Lock(t) \/ Scan(t) \/ Test(t) \/ PushEvent(t) \/ PushReturns(t)
               \/ SetDeled(t) \/ Reset(t)
      BY <2>0, <3>1, <3>3, LockSafe, ScanSafe, TestSafe, PushEventSafe, ReturnSafe,
         SetDeledSafe, ResetSafe
    <3> QED  BY <2>5, <3>2, <3>3 DEF Notify
  <2>6. CASE OtherSignals
    BY <2>0, <2>6, OthersUndisturbed, UndisturbedSafe, UndisturbedTails
  <2>7. CASE Shutdown \/ TerminatePool \/ JoinPool \/ DestroyAdmins
    BY <2>0, <2>7, DestroyTypes, DestroySafe
  <2> QED  BY <2>0, <2>1, <2>2, <2>3, <2>4, <2>5, <2>6, <2>7 DEF Step
<1> QED  BY <1>1, <1>2

(* The pool's list, the threads, the queues and the settings are well       *)
(* typed: the counters in and out of the loops included.                   *)
THEOREM PushTypes == Spec => []TypeOK
<1>1. IInv => TypeOK  BY DEF IInv
<1> QED  BY <1>1, InitInv, StepInv, PTL DEF Spec

(* No thread works on an entry that was freed, the cursor never points to   *)
(* one, and no search reaches a proxy that has been disposed of.            *)
THEOREM PushEntries == Spec => []EntriesLive
<1>1. IInv => EntriesLive
  <2> SUFFICES ASSUME IInv PROVE EntriesLive  OBVIOUS
  <2>1. \A p \in ToSet(entries) : p \in Proxy  BY ToSetFact DEF IInv, TypeOK
  <2> QED  BY <2>1 DEF IInv, Nodes, Searching, Lives, EntriesLive
<1> QED  BY <1>1, InitInv, StepInv, PTL DEF Spec

-----------------------------------------------------------------------------
(* What the consumers are promised                                         *)

(* The state of ConsumerFeed.  *)
Held   == [p \in Proxy |-> Len(queue[p])]
Calls  == [p \in Proxy |-> Inflight(p)]
Sizes  == [p \in Proxy |-> Size(p)]
Limits == [p \in Proxy |-> qos[p].limit]
States == [p \in Proxy |-> IF dis[p] = "done" THEN "gone"
                           ELSE IF pxstate[p] \in {"Exception", "Disconnected"} THEN "closed"
                           ELSE "open"]

LEMMA FeedVars ==
  /\ Feed!vars = <<added, Held, Calls, Sizes, Limits, States>>
  /\ Feed!vars' = <<added, Held, Calls, Sizes, Limits, States>>'
BY DEF Feed!vars, Held, Calls, Sizes, Limits, States

LEMMA InflightSame ==
  ASSUME NEW p \in Proxy,
         \A t \in PoolThread :
           pc'[t] = "push" /\ node'[t] = p <=> pc[t] = "push" /\ node[t] = p,
         \A t \in PoolThread : pc[t] = "push" /\ node[t] = p => ev'[t] = ev[t],
         wpc'[p] = "push" <=> wpc[p] = "push",
         wpc[p] = "push" => wev'[p] = wev[p]
  PROVE  Inflight(p)' = Inflight(p)
<1>1. Pushers(p)' = Pushers(p)  BY DEF Pushers
<1>2. {ev'[t] : t \in Pushers(p)'} = {ev[t] : t \in Pushers(p)}
  BY <1>1 DEF Pushers
<1> QED  BY <1>2 DEF Inflight

LEMMA OneCaller ==
  ASSUME IInv, NEW p \in Proxy
  PROVE  /\ \A t \in PoolThread : node[t] = p => Pushers(p) = IF pc[t] = "push" THEN {t} ELSE {}
         /\ \A t \in PoolThread : node[t] = p => wpc[p] # "push"
         /\ wpc[p] = "push" => Pushers(p) = {}
<1>1. p # NoProxy  BY ProxyAssumption
<1>2. ASSUME NEW t \in PoolThread, node[t] = p
      PROVE  Pushers(p) = (IF pc[t] = "push" THEN {t} ELSE {}) /\ wpc[p] # "push"
  <2>1. \A u \in PoolThread : node[u] = p => u = t  BY <1>1, <1>2 DEF IInv, Nodes
  <2>2. pc[t] \in Busy  BY <1>1, <1>2 DEF IInv, Nodes
  <2>3. usePool  BY <2>2 DEF Busy, IInv, Modes
  <2> QED  BY <1>2, <2>1, <2>3 DEF IInv, Modes, Pushers
<1>3. ASSUME wpc[p] = "push" PROVE Pushers(p) = {}
  <2>1. \A t \in PoolThread : pc[t] = "exit"  BY <1>3 DEF IInv, Modes
  <2> QED  BY <2>1 DEF Pushers
<1> QED  BY <1>2, <1>3

(* A step of which the consumers do not learn. *)
LEMMA FeedStutter ==
  ASSUME UNCHANGED <<added, queue, kind, qos>>,
         \A p \in Proxy : Inflight(p)' = Inflight(p),
         \A p \in Proxy : States'[p] = States[p]
  PROVE  UNCHANGED Feed!vars
<1>1. Held' = Held  BY DEF Held
<1>2. Calls' = Calls  BY DEF Calls
<1>3. Sizes' = Sizes /\ Limits' = Limits  BY DEF Sizes, Limits, Size
<1>4. States' = States  BY DEF States
<1> QED  BY <1>1, <1>2, <1>3, <1>4, FeedVars

LEMMA UndisturbedFeed ==
  ASSUME IInv, UNCHANGED usePool,
         \/ \E p \in Proxy :
              \/ Create(p) \/ Connect(p) \/ Suspend(p) \/ Resume(p) \/ TimePasses(p)
              \/ WorkerWaits(p) \/ WorkerWakes(p)
         \/ OtherSignals
         \/ \E t \in PoolThread :
              Lock(t) \/ TimedWake(t) \/ Scan(t) \/ Test(t) \/ SetDeled(t) \/ Reset(t)
         \/ Shutdown \/ TerminatePool \/ JoinPool \/ DestroyAdmins
  PROVE  UNCHANGED Feed!vars
<1> USE DEF pool, locals, proxy, work, conf
<1>1. /\ pc \in [PoolThread -> PCs] /\ wpc \in [Proxy -> Running \cup {"none", "exit"}]
      /\ node \in [PoolThread -> Proxy \cup {NoProxy}]
      /\ pxstate \in [Proxy -> {"none", "NotConnected", "Connected", "Exception", "Disconnected"}]
  BY DEF IInv, TypeOK, PCs, Running
<1> DEFINE Same == /\ UNCHANGED <<added, queue, kind, qos, ev, wev, dis>>
                   /\ \A t \in PoolThread : pc'[t] = "push" <=> pc[t] = "push"
                   /\ \A t \in PoolThread : pc[t] = "push" => node'[t] = node[t]
                   /\ \A p \in Proxy : wpc'[p] = "push" <=> wpc[p] = "push"
                   /\ \A p \in Proxy : States'[p] = States[p]
<1>2. Same => UNCHANGED Feed!vars
  <2> SUFFICES ASSUME Same PROVE UNCHANGED Feed!vars  OBVIOUS
  <2>1. \A p \in Proxy : Inflight(p)' = Inflight(p)  BY InflightSame
  <2> QED  BY <2>1, FeedStutter
<1>3. UNCHANGED <<dis, pxstate>> => \A p \in Proxy : States'[p] = States[p]  BY DEF States
<1>4. ASSUME NEW p \in Proxy, Create(p) \/ Connect(p) PROVE Same
  <2>1. \A q \in Proxy : States'[q] = States[q]
    <3>1. pxstate[p] \in {"none", "NotConnected"}  BY <1>4 DEF Create, Connect
    <3>2. dis' = dis /\ \A q \in Proxy : pxstate'[q] = pxstate[q]
            \/ (q = p /\ pxstate'[q] \in {"NotConnected", "Connected"})
      BY <1>1, <1>4 DEF Create, Connect
    <3> QED  BY <3>1, <3>2 DEF States
  <2>2. \A t \in PoolThread : pc'[t] = "push" <=> pc[t] = "push"
    BY <1>1, <1>4 DEF Create, Connect, SignalPool
  <2>3. \A q \in Proxy : wpc'[q] = "push" <=> wpc[q] = "push"
    <3>1. Create(p) => wpc[p] = "none"  BY DEF Create, IInv, Lives
    <3> QED  BY <1>1, <1>4, <3>1 DEF Create, Connect
  <2> QED  BY <1>4, <2>1, <2>2, <2>3 DEF Create, Connect
<1>5. ASSUME NEW p \in Proxy, Suspend(p) \/ Resume(p) \/ TimePasses(p) PROVE Same
  <2>1. /\ \A t \in PoolThread : pc'[t] = "push" <=> pc[t] = "push"
        /\ \A q \in Proxy : wpc'[q] = "push" <=> wpc[q] = "push"
    BY <1>1, <1>5 DEF Suspend, Resume, TimePasses, SignalPushThreads, SignalPool, WakeWorker
  <2> QED  BY <1>3, <1>5, <2>1 DEF Suspend, Resume, TimePasses
<1>6. ASSUME NEW p \in Proxy, WorkerWaits(p) \/ WorkerWakes(p) PROVE Same
  BY <1>1, <1>3, <1>6 DEF WorkerWaits, WorkerWakes
<1>7. ASSUME OtherSignals PROVE Same
  BY <1>1, <1>3, <1>7 DEF OtherSignals, SignalPool
<1>8. ASSUME NEW t \in PoolThread, Lock(t) \/ TimedWake(t) \/ Test(t) PROVE Same
  <2>1. pc[t] # "push" /\ \E to \in {"exit", "wait", "timed", "scan", "lock", "reset", "call"} :
          pc' = [pc EXCEPT ![t] = to]
    BY <1>8, Zenon DEF Lock, Sleep, TimedWake, Test
  <2>2. \A u \in PoolThread : pc'[u] = "push" <=> pc[u] = "push"  BY <1>1, <2>1
  <2> QED  BY <1>3, <1>8, <2>2 DEF Lock, TimedWake, Test
<1>9. ASSUME NEW t \in PoolThread, Scan(t) PROVE Same
  <2>1. /\ pc[t] = "scan"
        /\ pc' = pc \/ \E to \in {"test", "wait", "timed"} : pc' = [pc EXCEPT ![t] = to]
        /\ node' = node \/ node' = [node EXCEPT ![t] = NextEntry]
        /\ UNCHANGED <<ev, proxy, conf, work, added>>
    BY <1>9, ScanFact
  <2>2. \A u \in PoolThread : pc'[u] = "push" <=> pc[u] = "push"  BY <1>1, <2>1
  <2>3. \A u \in PoolThread : pc[u] = "push" => node'[u] = node[u]  BY <1>1, <2>1
  <2> QED  BY <1>3, <2>1, <2>2, <2>3
<1>10. ASSUME NEW t \in PoolThread, SetDeled(t) \/ Reset(t) PROVE Same
  BY <1>1, <1>3, <1>10 DEF SetDeled, Reset
<1>11. ASSUME Shutdown \/ TerminatePool \/ JoinPool \/ DestroyAdmins PROVE Same
  <2>1. \A u \in PoolThread : pc'[u] = "push" <=> pc[u] = "push"
    BY <1>11 DEF Shutdown, TerminatePool, BroadcastPool, JoinPool, DestroyAdmins
  <2> QED  BY <1>3, <1>11, <2>1 DEF Shutdown, TerminatePool, JoinPool, DestroyAdmins
<1> QED  BY <1>2, <1>4, <1>5, <1>6, <1>7, <1>8, <1>9, <1>10, <1>11

LEMMA DisposalFeed ==
  ASSUME IInv, UNCHANGED usePool, NEW p \in Proxy,
         \/ DisconnectSequence(p) \/ Disconnect(p) \/ InuseOne(p) \/ RemoveFromAdmin(p)
         \/ AdminRemoves(p) \/ Dispose(p)
  PROVE  Feed!Next \/ UNCHANGED Feed!vars
<1> USE DEF pool, locals, proxy, work, conf
<1>1. /\ wpc \in [Proxy -> Running \cup {"none", "exit"}]
      /\ dis \in [Proxy -> {"no", "one", "woken", "remove", "clean", "done"}]
      /\ pxstate \in [Proxy -> {"none", "NotConnected", "Connected", "Exception", "Disconnected"}]
      /\ queue \in [Proxy -> Seq(Nat)]
  BY DEF IInv, TypeOK, Running
<1>2. dis[p] # "no" => pxstate[p] = "Disconnected"  BY DEF IInv, Lives
<1>3. /\ UNCHANGED <<added, kind, qos, ev, wev, pc, node>>
      /\ \A q \in Proxy : wpc'[q] = "push" <=> wpc[q] = "push"
  BY <1>1 DEF DisconnectSequence, Disconnect, InuseOne, RemoveFromAdmin, AdminRemoves, Dispose,
              AwaitInuseOne, WakeWorker, Unregister
<1>4. \A q \in Proxy : Inflight(q)' = Inflight(q)  BY <1>3, InflightSame
<1>5. Calls' = Calls /\ Sizes' = Sizes /\ Limits' = Limits
  BY <1>3, <1>4 DEF Calls, Sizes, Limits, Size
<1>6. CASE DisconnectSequence(p) \/ Disconnect(p)
  <2>1. /\ \A q \in Proxy : pxstate'[q] = IF q = p THEN "Disconnected" ELSE pxstate[q]
        /\ \A q \in Proxy : dis'[q] = "done" <=> dis[q] = "done"
        /\ dis[p] # "done" /\ UNCHANGED queue
    BY <1>1, <1>2, <1>6 DEF DisconnectSequence, Disconnect, AwaitInuseOne
  <2>2. Held' = Held  BY <2>1 DEF Held
  <2>3. States' = [States EXCEPT ![p] = "closed"]  BY <2>1 DEF States
  <2>4. States[p] \in {"open", "closed"} /\ States = [q \in Proxy |-> States[q]]
    BY <2>1 DEF States
  <2> HIDE DEF States
  <2>5. CASE States[p] = "open"
    <3>1. Feed!Close(p)  BY <1>3, <1>5, <2>2, <2>3, <2>5 DEF Feed!Close, Held, Calls, Sizes, Limits, States
    <3> QED  BY <3>1 DEF Feed!Next
  <2>6. CASE States[p] = "closed"
    <3>1. States' = States  BY <2>3, <2>4, <2>6
    <3> QED  BY <1>3, <1>5, <2>2, <3>1, FeedVars
  <2> QED  BY <2>4, <2>5, <2>6
<1>7. CASE InuseOne(p) \/ RemoveFromAdmin(p) \/ AdminRemoves(p)
  <2>1. /\ UNCHANGED <<pxstate, queue>>
        /\ \A q \in Proxy : dis'[q] = "done" <=> dis[q] = "done"
    BY <1>1, <1>7 DEF InuseOne, RemoveFromAdmin, AdminRemoves, AwaitInuseOne, Unregister
  <2>2. Held' = Held /\ States' = States  BY <2>1 DEF Held, States
  <2> QED  BY <1>3, <1>5, <2>2, FeedVars
<1>8. CASE Dispose(p)
  <2>1. /\ dis[p] = "clean" /\ pxstate[p] = "Disconnected" /\ UNCHANGED pxstate
        /\ \A q \in Proxy : dis'[q] = IF q = p THEN "done" ELSE dis[q]
        /\ \A q \in Proxy : queue'[q] = IF q = p THEN <<>> ELSE queue[q]
    BY <1>1, <1>2, <1>8 DEF Dispose
  <2>2. Held' = [Held EXCEPT ![p] = 0]
    <3>1. Len(<<>>) = 0  OBVIOUS
    <3>2. \A q \in Proxy : Len(queue'[q]) = IF q = p THEN 0 ELSE Len(queue[q])
      BY <2>1, <3>1
    <3> QED  BY <3>2 DEF Held
  <2>3. States[p] = "closed" /\ States' = [States EXCEPT ![p] = "gone"]  BY <2>1 DEF States
  <2>4. Calls[p] = {}
    <3>1. Users(p) = {}  BY <2>1 DEF IInv, Lives
    <3>2. Pushers(p) = {} /\ wpc[p] # "push"  BY <3>1 DEF Users
    <3> QED  BY <3>2 DEF Calls, Inflight
  <2>5. Feed!Dispose(p)
    BY <1>3, <1>5, <2>2, <2>3, <2>4 DEF Feed!Dispose, Held, Calls, Sizes, Limits, States
  <2> QED  BY <2>5 DEF Feed!Next
<1> QED  BY <1>6, <1>7, <1>8

LEMMA SetQosFeed ==
  ASSUME IInv, UNCHANGED usePool, NEW p \in Proxy, SetQos(p)
  PROVE  Feed!Next
<1> USE DEF pool, locals, proxy, work, conf
<1>1. UNCHANGED <<added, queue, pc, node, ev, wpc, wev, pxstate, dis, kind>>  BY DEF SetQos
<1>2. \A q \in Proxy : Inflight(q)' = Inflight(q)  BY <1>1, InflightSame
<1>3. Held' = Held /\ Calls' = Calls /\ States' = States  BY <1>1, <1>2 DEF Held, Calls, States
<1>4. \A q \in Proxy : qos'[q].size \in Nat /\ qos'[q].limit \in Nat
  <2>1. qos' \in [Proxy -> Qos]  BY DEF SetQos, IInv, TypeOK
  <2> QED  BY <2>1, ProxyAssumption
<1>5. Sizes' \in [Proxy -> Nat] /\ Limits' \in [Proxy -> Nat]
  <2>1. \A q \in Proxy : Size(q)' \in Nat  BY <1>4 DEF Size
  <2> QED  BY <1>4, <2>1 DEF Sizes, Limits
<1>6. Feed!Change  BY <1>1, <1>3, <1>5 DEF Feed!Change, Held, Calls, States, Sizes, Limits
<1> QED  BY <1>6 DEF Feed!Next

LEMMA AcceptFeed ==
  ASSUME IInv, UNCHANGED usePool, NEW p \in Proxy, AddEvent(p)
  PROVE  Feed!Next
<1> USE DEF pool, locals, proxy, work, conf
<1>1. /\ pc \in [PoolThread -> PCs] /\ wpc \in [Proxy -> Running \cup {"none", "exit"}]
  BY DEF IInv, TypeOK, PCs, Running
<1>2. /\ UNCHANGED <<kind, qos, ev, wev, node, dis, pxstate>> /\ pxstate[p] = "Connected"
      /\ \A t \in PoolThread : pc'[t] = "push" <=> pc[t] = "push"
      /\ \A q \in Proxy : wpc'[q] = "push" <=> wpc[q] = "push"
  BY <1>1 DEF AddEvent, SignalPushThreads, SignalPool, WakeWorker
<1>3. \A q \in Proxy : Inflight(q)' = Inflight(q)  BY <1>2, InflightSame
<1>4. Calls' = Calls /\ Sizes' = Sizes /\ Limits' = Limits /\ States' = States
  BY <1>2, <1>3 DEF Calls, Sizes, Limits, Size, States
<1>5. States[p] = "open"
  <2>1. dis[p] = "no"  BY <1>2 DEF IInv, Lives
  <2> QED  BY <1>2, <2>1 DEF States
<1> DEFINE n == Held[p] + 1
<1>6. Held' = [Held EXCEPT ![p] = IF Limits[p] \in 1..n THEN Limits[p] ELSE n]
  <2>1. /\ Len(queue[p]) \in Nat /\ Len(queue'[p]) = Len(queue[p]) - Over(p) + 1
        /\ \A q \in Proxy \ {p} : queue'[q] = queue[q]
    BY AddFact DEF IInv
  <2>2. qos[p].limit \in Nat  BY SettingFact DEF IInv
  <2>3. Held[p] = Len(queue[p]) /\ Limits[p] = qos[p].limit  BY DEF Held, Limits
  <2>4. Len(queue'[p]) = IF Limits[p] \in 1..n THEN Limits[p] ELSE n
    BY <2>1, <2>2, <2>3 DEF Over
  <2> HIDE DEF n
  <2> QED  BY <2>1, <2>4 DEF Held
<1>7. added' = [added EXCEPT ![p] = added[p] + 1]  BY AddFact DEF IInv
<1>8. Feed!Accept(p)
  BY <1>4, <1>5, <1>6, <1>7 DEF Feed!Accept, Held, Calls, Sizes, Limits, States
<1> QED  BY <1>8 DEF Feed!Next

(* A batch is what ConsumerFeed says: the events that are next. *)
LEMMA NextInTurn ==
  ASSUME IInv, NEW p \in Proxy, TakeBatch(p)
  PROVE  LET n == IF Held[p] < Sizes[p] THEN Held[p] ELSE Sizes[p]
             first == added[p] - Held[p] + 1
         IN /\ Held' = [Held EXCEPT ![p] = Held[p] - n]
            /\ Batch(p) = [i \in 1..n |-> first + i - 1]
<1> DEFINE n == IF Held[p] < Sizes[p] THEN Held[p] ELSE Sizes[p]
           first == added[p] - Held[p] + 1
<1>1. Held[p] = Len(queue[p]) /\ Sizes[p] = Size(p)  BY DEF Held, Sizes
<1>2. n = Amount(p)  BY <1>1 DEF Amount, Short
<1>3. /\ n \in 0..Len(queue[p]) /\ Len(queue[p]) \in Nat
      /\ Batch(p) \in Seq(Nat) /\ Len(Batch(p)) = n
      /\ \A i \in 1..n : Batch(p)[i] = queue[p][i]
  BY <1>2, BatchFact DEF IInv
<1>4. \A q \in Proxy : Len(queue'[q]) = IF q = p THEN Len(queue[p]) - n ELSE Len(queue[q])
  <2> DEFINE r == SubSeq(queue[p], Len(Batch(p)) + 1, Len(queue[p]))
  <2>1. Len(r) = Len(queue[p]) - n  BY <1>2, BatchFact DEF IInv
  <2>2. queue' = [queue EXCEPT ![p] = r]  BY DEF TakeBatch
  <2> HIDE DEF r, n
  <2>3. queue \in [Proxy -> Seq(Nat)]  BY DEF IInv, TypeOK
  <2> QED  BY <2>1, <2>2, <2>3
<1>5. added[p] \in Nat /\ \A i \in 1..Len(queue[p]) : queue[p][i] = added[p] - Len(queue[p]) + i
  BY DEF IInv, Tails, TypeOK
<1>6. Batch(p) = [i \in 1..n |-> first + i - 1]
  <2>1. Batch(p) = [i \in 1..n |-> Batch(p)[i]]
    <3>1. Batch(p) \in [1..n -> Nat]  BY <1>3, LenProperties
    <3> HIDE DEF n
    <3> QED  BY <3>1
  <2>2. \A i \in 1..n : Batch(p)[i] = first + i - 1
    <3>1. ASSUME NEW i \in 1..n PROVE Batch(p)[i] = first + i - 1
      <4>1. i \in 1..Len(queue[p])  BY <1>3
      <4> HIDE DEF n
      <4>2. Batch(p)[i] = queue[p][i]  BY <1>3
      <4>3. queue[p][i] = added[p] - Len(queue[p]) + i  BY <1>5, <4>1
      <4>4. first = added[p] - Len(queue[p]) + 1 /\ i \in Int /\ Len(queue[p]) \in Int /\ added[p] \in Int
        BY <1>1, <1>3, <1>5, <4>1
      <4> HIDE DEF first
      <4>5. added[p] - Len(queue[p]) + i = first + i - 1  BY <4>4
      <4> QED  BY <4>2, <4>3, <4>5
    <3> QED  BY <3>1
  <2> HIDE DEF n, first
  <2> QED  BY <2>1, <2>2
<1>7. Held' = [Held EXCEPT ![p] = Held[p] - n]
  <2> HIDE DEF n
  <2> QED  BY <1>1, <1>4 DEF Held
<1> QED  BY <1>6, <1>7

(* Whoever calls a consumer begins with the batch that is next, and nobody  *)
(* else is calling it. *)
LEMMA PushFeed ==
  ASSUME IInv, UNCHANGED usePool, NEW p \in Proxy, TakeBatch(p),
         pxstate[p] = "Connected", Inflight(p) = {}, Inflight(p)' = {Batch(p)},
         \A q \in Proxy \ {p} : Inflight(q)' = Inflight(q),
         UNCHANGED <<added, kind, qos, pxstate, dis>>
  PROVE  Feed!Next
<1> DEFINE n == IF Held[p] < Sizes[p] THEN Held[p] ELSE Sizes[p]
           first == added[p] - Held[p] + 1
           b == [i \in 1..n |-> first + i - 1]
<1>1. Held' = [Held EXCEPT ![p] = Held[p] - n] /\ Batch(p) = b  BY NextInTurn
<1>2. States[p] = "open"
  <2>1. dis[p] = "no"  BY DEF IInv, Lives
  <2> QED  BY <2>1 DEF States
<1>3. Sizes' = Sizes /\ Limits' = Limits /\ States' = States  BY DEF Sizes, Limits, Size, States
<1>4. Calls[p] = {} /\ Calls' = [Calls EXCEPT ![p] = {b}]
  <2> HIDE DEF b
  <2>1. \A q \in Proxy : Inflight(q)' = IF q = p THEN {b} ELSE Inflight(q)  BY <1>1
  <2> QED  BY <2>1 DEF Calls
<1>5. Feed!Push(p)
  BY <1>1, <1>2, <1>3, <1>4 DEF Feed!Push, Held, Calls, Sizes, Limits, States
<1> QED  BY <1>5 DEF Feed!Next

(* A call that returns was the only one, and closes the proxy if it failed. *)
LEMMA ReturnsFeed ==
  ASSUME IInv, UNCHANGED usePool, NEW p \in Proxy,
         Inflight(p) # {}, Inflight(p)' = {},
         \A q \in Proxy \ {p} : Inflight(q)' = Inflight(q),
         UNCHANGED <<added, kind, qos>>, \A q \in Proxy : dis'[q] = "done" <=> dis[q] = "done",
         \/ UNCHANGED <<pxstate, queue>>
         \/ /\ pxstate[p] = "Connected"
            /\ pxstate' = [pxstate EXCEPT ![p] = "Exception"]
            /\ queue' = [queue EXCEPT ![p] = <<>>]
  PROVE  Feed!Next
<1>1. Sizes' = Sizes /\ Limits' = Limits  BY DEF Sizes, Limits, Size
<1>2. Calls[p] # {} /\ Calls' = [Calls EXCEPT ![p] = {}]
  <2>1. \A q \in Proxy : Inflight(q)' = IF q = p THEN {} ELSE Inflight(q)  OBVIOUS
  <2> QED  BY <2>1 DEF Calls
<1>3. CASE UNCHANGED <<pxstate, queue>>
  <2>1. Held' = Held /\ States' = States  BY <1>3 DEF Held, States
  <2>2. Feed!Return(p)  BY <1>1, <1>2, <2>1 DEF Feed!Return, Held, Calls, Sizes, Limits, States
  <2> QED  BY <2>2 DEF Feed!Next
<1>4. CASE /\ pxstate[p] = "Connected"
           /\ pxstate' = [pxstate EXCEPT ![p] = "Exception"]
           /\ queue' = [queue EXCEPT ![p] = <<>>]
  <2>1. Held' = [Held EXCEPT ![p] = 0]
    <3>1. Len(<<>>) = 0 /\ queue \in [Proxy -> Seq(Nat)]  BY DEF IInv, TypeOK
    <3>2. \A q \in Proxy : Len(queue'[q]) = IF q = p THEN 0 ELSE Len(queue[q])
      BY <1>4, <3>1
    <3> QED  BY <3>2 DEF Held
  <2>2. States[p] = "open" /\ States' = [States EXCEPT ![p] = "closed"]
    <3>1. dis[p] = "no"  BY <1>4 DEF IInv, Lives
    <3>2. \A q \in Proxy : pxstate'[q] = IF q = p THEN "Exception" ELSE pxstate[q]
      BY <1>4 DEF IInv, TypeOK
    <3> QED  BY <1>4, <3>1, <3>2 DEF States
  <2>3. Feed!Return(p)
    BY <1>1, <1>2, <2>1, <2>2 DEF Feed!Return, Held, Calls, Sizes, Limits, States
  <2> QED  BY <2>3 DEF Feed!Next
<1> QED  BY <1>3, <1>4

LEMMA ThreadFeed ==
  ASSUME IInv, UNCHANGED usePool, NEW t \in PoolThread, PushEvent(t) \/ PushReturns(t)
  PROVE  Feed!Next \/ UNCHANGED Feed!vars
<1> USE DEF pool, locals, proxy, work, conf
<1>1. PICK p \in Proxy : p = node[t] /\ pc[t] \in {"call", "push"} /\ node' = node
  BY DEF PushEvent, PushReturns, IInv, Nodes, Busy, TypeOK
<1>2. /\ \A u \in PoolThread : node[u] = p => u = t
      /\ wpc[p] # "push" /\ Pushers(p) = IF pc[t] = "push" THEN {t} ELSE {}
  <2>1. p # NoProxy  BY <1>1, ProxyAssumption
  <2> QED  BY <1>1, <2>1, OneCaller DEF IInv, Nodes
<1>3. /\ pc \in [PoolThread -> PCs] /\ ev \in [PoolThread -> Seq(Nat)]  BY DEF IInv, TypeOK, PCs
<1>4. UNCHANGED work /\ UNCHANGED conf /\ UNCHANGED added  BY DEF PushEvent, PushReturns
<1>5. ASSUME NEW q \in Proxy \ {p},
             \A u \in PoolThread : u # t => pc'[u] = pc[u] /\ ev'[u] = ev[u]
      PROVE  Inflight(q)' = Inflight(q)
  <2>1. node[t] # q  BY <1>1, <1>5
  <2> QED  BY <1>1, <1>4, <1>5, <2>1, InflightSame
<1>6. CASE PushEvent(t) /\ pc'[t] = "push"
  <2>1. /\ pc[t] = "call" /\ HasEvents(p) /\ ev' = [ev EXCEPT ![t] = Batch(p)] /\ TakeBatch(p)
        /\ \A u \in PoolThread : u # t => pc'[u] = pc[u]
        /\ UNCHANGED <<pxstate, dis>>
    BY <1>1, <1>6, AskFact
  <2>2. \A u \in PoolThread : ev'[u] = IF u = t THEN Batch(p) ELSE ev[u]  BY <1>3, <2>1
  <2>3. Pushers(p)' = {t}
    <3>1. \A u \in PoolThread : pc'[u] = "push" /\ node[u] = p <=> u = t
      BY <1>1, <1>2, <1>6
    <3> QED  BY <1>1, <3>1 DEF Pushers
  <2>4. Inflight(p) = {} /\ Inflight(p)' = {Batch(p)}
    BY <1>2, <1>4, <2>1, <2>2, <2>3 DEF Inflight
  <2>5. \A q \in Proxy \ {p} : Inflight(q)' = Inflight(q)  BY <1>5, <2>1, <2>2
  <2>6. pxstate[p] = "Connected"  BY <2>1 DEF HasEvents, Pushable
  <2> QED  BY <1>1, <1>4, <2>1, <2>4, <2>5, <2>6, PushFeed
<1>7. CASE PushEvent(t) /\ pc'[t] # "push"
  <2>1. /\ pc[t] = "call" /\ \A u \in PoolThread : u # t => pc'[u] = pc[u]
        /\ UNCHANGED <<pxstate, dis, queue, ev>>
    BY <1>7, AskFact
  <2>2. \A q \in Proxy : Inflight(q)' = Inflight(q)
    BY <1>1, <1>4, <1>7, <2>1, InflightSame
  <2>3. \A q \in Proxy : States'[q] = States[q]  BY <2>1 DEF States
  <2> QED  BY <1>4, <2>1, <2>2, <2>3, FeedStutter
<1>8. CASE PushReturns(t)
  <2>1. /\ pc[t] = "push" /\ pc'[t] # "push" /\ ev' = [ev EXCEPT ![t] = <<>>]
        /\ \A u \in PoolThread : u # t => pc'[u] = pc[u]
        /\ \/ UNCHANGED <<pxstate, queue>>
           \/ /\ pxstate[p] = "Connected"
              /\ pxstate' = [pxstate EXCEPT ![p] = "Exception"]
              /\ queue' = [queue EXCEPT ![p] = <<>>]
    BY <1>1, <1>3, <1>8, ReturnFact
  <2>2. \A u \in PoolThread : u # t => ev'[u] = ev[u]  BY <1>3, <2>1
  <2>3. Pushers(p)' = {}
    <3>1. \A u \in PoolThread : ~(pc'[u] = "push" /\ node[u] = p)  BY <1>2, <2>1
    <3> QED  BY <1>1, <3>1 DEF Pushers
  <2>4. Inflight(p) # {} /\ Inflight(p)' = {}
    BY <1>2, <1>4, <2>1, <2>3 DEF Inflight
  <2>5. \A q \in Proxy \ {p} : Inflight(q)' = Inflight(q)  BY <1>5, <2>1, <2>2
  <2>6. \A q \in Proxy : dis'[q] = "done" <=> dis[q] = "done"
    BY <1>1, <1>8, DebumpFact DEF PushReturns, IInv
  <2> QED  BY <1>1, <1>4, <2>1, <2>4, <2>5, <2>6, ReturnsFeed
<1> QED  BY <1>6, <1>7, <1>8

LEMMA WorkerFeed ==
  ASSUME IInv, UNCHANGED usePool, NEW p \in Proxy, WorkerPushes(p) \/ WorkerReturns(p) \/ WorkerExits(p)
  PROVE  Feed!Next \/ UNCHANGED Feed!vars
<1> USE DEF pool, locals, proxy, work, conf
<1>1. /\ wpc \in [Proxy -> Running \cup {"none", "exit"}] /\ wev \in [Proxy -> Seq(Nat)]
  BY DEF IInv, TypeOK, Running
<1>2. /\ UNCHANGED <<pc, node, ev, added, kind, qos>>
      /\ \A q \in Proxy \ {p} : wpc'[q] = wpc[q] /\ wev'[q] = wev[q]
      /\ wpc[p] \in {"top", "push"}
  BY <1>1 DEF WorkerPushes, WorkerReturns, WorkerExits
<1>3. Pushers(p) = {} /\ Pushers(p)' = {}
  <2>1. ~usePool  BY <1>2 DEF IInv, Modes
  <2>2. \A t \in PoolThread : pc[t] = "exit"  BY <2>1 DEF IInv, Modes
  <2> QED  BY <1>2, <2>2 DEF Pushers
<1>4. \A q \in Proxy \ {p} : Inflight(q)' = Inflight(q)  BY <1>2, InflightSame
<1>5. CASE WorkerPushes(p)
  <2>1. /\ wpc[p] = "top" /\ wpc'[p] = "push" /\ wev'[p] = Batch(p) /\ TakeBatch(p)
        /\ pxstate[p] = "Connected" /\ UNCHANGED <<pxstate, dis>>
    BY <1>1, <1>5 DEF WorkerPushes, Ready
  <2>2. Inflight(p) = {} /\ Inflight(p)' = {Batch(p)}  BY <1>3, <2>1 DEF Inflight
  <2> QED  BY <1>2, <1>4, <2>1, <2>2, PushFeed
<1>6. CASE WorkerReturns(p)
  <2>1. wpc[p] = "push" /\ wpc'[p] # "push" /\ UNCHANGED dis  BY <1>1, <1>6 DEF WorkerReturns
  <2>2. Inflight(p) # {} /\ Inflight(p)' = {}  BY <1>3, <2>1 DEF Inflight
  <2> QED  BY <1>2, <1>4, <1>6, <2>1, <2>2, WorkerReturnFact, ReturnsFeed
<1>7. CASE WorkerExits(p)
  <2>1. wpc[p] = "top" /\ wpc'[p] = "exit" /\ UNCHANGED <<pxstate, queue, wev>>
    BY <1>1, <1>7 DEF WorkerExits
  <2>2. Inflight(p)' = Inflight(p)  BY <1>3, <2>1 DEF Inflight
  <2>3. \A q \in Proxy : dis'[q] = "done" <=> dis[q] = "done"
    BY <1>7, DebumpFact DEF WorkerExits, IInv
  <2>4. \A q \in Proxy : States'[q] = States[q]  BY <2>1, <2>3 DEF States
  <2>5. \A q \in Proxy : Inflight(q)' = Inflight(q)  BY <1>4, <2>2
  <2> QED  BY <1>2, <2>1, <2>4, <2>5, FeedStutter
<1> QED  BY <1>5, <1>6, <1>7

(* The pool of push threads, and the workers that replace it, deliver what  *)
(* ConsumerFeed promises.                                                   *)
THEOREM PushIsFeed == Spec => FeedSpec
<1>1. Init => Feed!Init
  <2> SUFFICES ASSUME Init PROVE Feed!Init  OBVIOUS
  <2>1. Held = [p \in Proxy |-> 0]
    <3>1. Len(<<>>) = 0  OBVIOUS
    <3> QED  BY <3>1 DEF Held, Init
  <2>2. Calls = [p \in Proxy |-> {}]  BY DEF Calls, Inflight, Pushers, Init
  <2>3. States = [p \in Proxy |-> "open"]  BY DEF States, Init
  <2>4. Sizes \in [Proxy -> Nat] /\ Limits \in [Proxy -> Nat]
    <3>1. TypeOK  BY InitInv DEF IInv
    <3> QED  BY <3>1, SettingFact DEF Sizes, Limits
  <2>5. added = [p \in Proxy |-> 0]  BY DEF Init
  <2> QED  BY <2>1, <2>2, <2>3, <2>4, <2>5 DEF Feed!Init, Held, Calls, States, Sizes, Limits
<1>2. IInv /\ [Next]_vars => [Feed!Next]_Feed!vars
  <2> SUFFICES ASSUME IInv, [Next]_vars PROVE Feed!Next \/ UNCHANGED Feed!vars  OBVIOUS
  <2>1. CASE UNCHANGED vars
    <3> USE <2>1 DEF vars, pool, locals, proxy, work, conf
    <3>1. \A p \in Proxy : Inflight(p)' = Inflight(p)  BY InflightSame
    <3>2. States' = States  BY DEF States
    <3> QED  BY <3>1, <3>2, FeedStutter
  <2>2. CASE Next
    <3>1. UNCHANGED usePool /\ Step  BY <2>2 DEF Next, Up
    <3>2. ASSUME NEW p \in Proxy,
                 \/ DisconnectSequence(p) \/ Disconnect(p) \/ InuseOne(p) \/ RemoveFromAdmin(p)
                 \/ AdminRemoves(p) \/ Dispose(p)
          PROVE  Feed!Next \/ UNCHANGED Feed!vars
      BY <3>1, <3>2, DisposalFeed
    <3>3. ASSUME NEW p \in Proxy, SetQos(p) \/ AddEvent(p)
          PROVE  Feed!Next
      BY <3>1, <3>3, SetQosFeed, AcceptFeed
    <3>4. ASSUME NEW p \in Proxy,
                 Create(p) \/ Connect(p) \/ Suspend(p) \/ Resume(p) \/ TimePasses(p)
          PROVE  UNCHANGED Feed!vars
      BY <3>1, <3>4, UndisturbedFeed
    <3>5. ASSUME NEW p \in Proxy, Worker(p) PROVE Feed!Next \/ UNCHANGED Feed!vars
      BY <3>1, <3>5, UndisturbedFeed, WorkerFeed DEF Worker
    <3>6. ASSUME NEW t \in PoolThread, Notify(t) PROVE Feed!Next \/ UNCHANGED Feed!vars
      BY <3>1, <3>6, UndisturbedFeed, ThreadFeed DEF Notify
    <3>7. ASSUME OtherSignals \/ Shutdown \/ TerminatePool \/ JoinPool \/ DestroyAdmins
          PROVE  UNCHANGED Feed!vars
      BY <3>1, <3>7, UndisturbedFeed
    <3> QED  BY <3>1, <3>2, <3>3, <3>4, <3>5, <3>6, <3>7 DEF Step
  <2> QED  BY <2>1, <2>2
<1> QED  BY <1>1, <1>2, InitInv, StepInv, PTL DEF Spec, FeedSpec, Feed!Spec

-----------------------------------------------------------------------------
(* Round robin                                                             *)

(* Is place k behind i, and not behind c, for who goes on from i at the end *)
(* of the list to its head?  (No place, 0, is as good as the last.)         *)
Between(i, k, c) == IF i <= c THEN i < k /\ k <= c ELSE k > i \/ k <= c

(* No proxy is in the list twice. *)
Listed == \A i, j \in 1..Len(entries) : entries[i] = entries[j] => i = j

(* Who passed a proxy that waits is, for the search, behind the proxy: the  *)
(* cursor comes to the proxy first.  Who has left the list does not return. *)
Turns ==
  /\ \A p \in Proxy : passed[p] # {} => Waiting(p)
  /\ \A p \in Proxy : \A q \in passed[p] : q \in Proxy /\ pxstate[q] # "none"
  /\ \A p \in Proxy : \A i, k \in 1..Len(entries) :
       entries[i] = p /\ entries[k] \in passed[p] => Between(i, k, Place)

TInv == Listed /\ Turns

LEMMA PlaceIs ==
  ASSUME NEW S, NEW s \in Seq(S), NEW k \in 1..Len(s),
         \A i, j \in 1..Len(s) : s[i] = s[j] => i = j
  PROVE  (CHOOSE i \in DOMAIN s : s[i] = s[k]) = k
<1>1. DOMAIN s = 1..Len(s)  BY LenProperties
<1>2. \A i \in 1..Len(s) : s[i] = s[k] => i = k  OBVIOUS
<1> QED  BY <1>1, <1>2

(* Where the cursor is after a step. *)
LEMMA NewPlace ==
  /\ mylast' = NoProxy => Place' = 0
  /\ mylast' # NoProxy => Place' = CHOOSE i \in DOMAIN entries' : entries'[i] = mylast'
BY DEF Place, Cursor

(* A collection keeps the order. *)
LEMMA OrderFact ==
  ASSUME NEW S, NEW s \in Seq(S), NEW K, NEW i \in 0..Len(s), NEW j \in 1..Len(s), i < j, s[j] \in K
  PROVE  /\ Len(Left(s, K)[i]) < Len(Left(s, K)[j])
         /\ Len(Left(s, K)[i]) \in Nat /\ Len(Left(s, K)[j]) \in Nat
<1> DEFINE l == Left(s, K)
<1>1. Len(s) \in Nat /\ i \in Nat /\ j \in Nat /\ i \in 0..(j - 1) /\ j - 1 \in 0..Len(s)
      /\ j \in 0..Len(s)
  BY LenProperties
<1>2. l[i] \in Seq(S) /\ l[j - 1] \in Seq(S) /\ l[j] \in Seq(S)  BY <1>1, LeftFact
<1>3. Len(l[j]) = Len(l[j - 1]) + 1  BY LeftFact
<1>4. Begins(l, j - 1, i)  BY <1>1, LeftFact
<1> HIDE DEF l
<1>5. Len(l[i]) \in Nat /\ Len(l[j - 1]) \in Nat /\ Len(l[j]) \in Nat  BY <1>2, LenProperties
<1> QED  BY <1>3, <1>4, <1>5 DEF Begins, l

LEMMA Observed ==
  ASSUME TurnsNext
  PROVE  \A p \in Proxy : /\ passed'[p] \subseteq passed[p] \cup Taken
                          /\ passed'[p] # {} => Waiting(p)'
<1>1. \A p \in Proxy : passed'[p] = IF Waiting(p)' THEN passed[p] \cup Taken ELSE {}
  BY DEF TurnsNext
<1> QED  BY <1>1

(* Nobody is taken, and the list stays. *)
LEMMA QuietTurns ==
  ASSUME TInv, TurnsNext, UNCHANGED <<entries, mylast>>, Taken = {},
         \A q \in Proxy : pxstate'[q] = "none" => pxstate[q] = "none"
  PROVE  TInv'
<1>1. \A p \in Proxy : passed'[p] \subseteq passed[p]  BY Observed
<1>2. Place' = Place  BY DEF Place, Cursor
<1>3. Listed'  BY DEF TInv, Listed
<1>4. Turns'  BY <1>1, <1>2, Observed DEF TInv, Turns
<1> QED  BY <1>3, <1>4 DEF TInv

(* A new proxy is put first; the others move on, and so does the cursor. *)
LEMMA CreateTurns ==
  ASSUME IInv, IInv', TInv, TurnsNext, NEW p \in Proxy, Create(p), usePool
  PROVE  TInv'
<1> USE DEF pool
<1>1. entries \in Seq(Proxy) /\ Len(entries) \in Nat  BY LenProperties DEF IInv, TypeOK
<1>2. pxstate[p] = "none" /\ p \notin ToSet(entries)  BY DEF Create, IInv, Lives
<1>3. entries' = <<p>> \o entries /\ UNCHANGED <<mylast, inuse>>  BY DEF Create
<1>4. /\ entries' \in Seq(Proxy) /\ Len(entries') = Len(entries) + 1 /\ entries'[1] = p
      /\ \A i \in 1..Len(entries) : entries'[i + 1] = entries[i]
  BY <1>1, <1>3, HeadFact
<1>5. \A i \in 1..Len(entries') : i # 1 =>
        i - 1 \in 1..Len(entries) /\ entries'[i] = entries[i - 1] /\ entries'[i] # p
  <2> SUFFICES ASSUME NEW i \in 1..Len(entries'), i # 1
               PROVE  /\ i - 1 \in 1..Len(entries) /\ entries'[i] = entries[i - 1]
                      /\ entries'[i] # p
    OBVIOUS
  <2>1. i - 1 \in 1..Len(entries) /\ (i - 1) + 1 = i  BY <1>1, <1>4
  <2>2. entries'[i] = entries[i - 1]  BY <1>4, <2>1
  <2>3. entries[i - 1] \in ToSet(entries)  BY <1>1, <2>1, ToSetFact
  <2> QED  BY <1>2, <2>1, <2>2, <2>3
<1>6. Listed'
  <2> SUFFICES ASSUME NEW i \in 1..Len(entries'), NEW j \in 1..Len(entries'),
                      entries'[i] = entries'[j]
               PROVE  i = j
    BY DEF Listed
  <2>1. CASE i = 1 \/ j = 1  BY <1>4, <1>5, <2>1
  <2>2. CASE i # 1 /\ j # 1
    <3>1. i - 1 = j - 1  BY <1>5, <2>2 DEF TInv, Listed
    <3> QED  BY <1>1, <1>4, <3>1
  <2> QED  BY <2>1, <2>2
<1>7. Place' = (IF Place = 0 THEN 0 ELSE Place + 1) /\ Place \in 0..Len(entries)
  <2>1. /\ Place \in 0..Len(entries)
        /\ Place = 0 <=> mylast = NoProxy
        /\ Place # 0 => entries[Place] = mylast
    BY PlaceFact DEF IInv
  <2>2. CASE Place = 0  BY <1>3, <2>1, <2>2, NewPlace
  <2>3. CASE Place # 0
    <3>1. PICK c \in 0..Len(entries) : c = Place  BY <2>1
    <3>2. c # 0 /\ entries[c] = mylast /\ mylast # NoProxy  BY <2>1, <2>3, <3>1
    <3>3. c + 1 \in 1..Len(entries') /\ entries'[c + 1] = mylast'
      BY <1>1, <1>3, <1>4, <3>2
    <3>4. \A i, j \in 1..Len(entries') : entries'[i] = entries'[j] => i = j
      BY <1>6 DEF Listed
    <3>5. (CHOOSE i \in DOMAIN entries' : entries'[i] = entries'[c + 1]) = c + 1
      BY <1>4, <3>3, <3>4, PlaceIs
    <3>6. mylast' # NoProxy  BY <1>3, <3>2
    <3>7. Place' = c + 1  BY <3>3, <3>5, <3>6, NewPlace
    <3> QED  BY <2>1, <2>3, <3>1, <3>7
  <2> QED  BY <2>2, <2>3
<1>8. \A q \in Proxy : passed'[q] \subseteq passed[q]
  <2>1. Taken = {}  BY <1>3 DEF Taken
  <2> QED  BY <2>1, Observed
<1>9. \A q \in Proxy : \A r \in passed'[q] : r \in Proxy /\ pxstate'[r] # "none"
  <2>1. pxstate' = [pxstate EXCEPT ![p] = "NotConnected"]  BY DEF Create
  <2> QED  BY <1>8, <2>1 DEF TInv, Turns, IInv, TypeOK
<1>10. ASSUME NEW q \in Proxy, NEW i \in 1..Len(entries'), NEW k \in 1..Len(entries'),
              entries'[i] = q, entries'[k] \in passed'[q]
       PROVE  Between(i, k, Place')
  <2>1. k # 1  BY <1>2, <1>4, <1>8, <1>10 DEF TInv, Turns
  <2>2. i # 1  BY <1>2, <1>4, <1>8, <1>10 DEF TInv, Turns, Waiting
  <2>3. /\ i - 1 \in 1..Len(entries) /\ k - 1 \in 1..Len(entries)
        /\ entries[i - 1] = q /\ entries[k - 1] \in passed[q]
    BY <1>5, <1>8, <1>10, <2>1, <2>2
  <2>4. Between(i - 1, k - 1, Place)  BY <2>3 DEF TInv, Turns
  <2>5. i \in Nat /\ k \in Nat /\ Place \in Nat /\ i - 1 >= 1 /\ k - 1 >= 1
    BY <1>1, <1>4, <1>7, <2>3
  <2>6. Place' = IF Place = 0 THEN 0 ELSE Place + 1  BY <1>7
  <2> QED  BY <2>4, <2>5, <2>6 DEF Between
<1>11. Turns'
  <2>1. \A q \in Proxy : passed'[q] # {} => Waiting(q)'  BY Observed
  <2> QED  BY <1>9, <1>10, <2>1 DEF Turns
<1> QED  BY <1>6, <1>11 DEF TInv

(* A removal keeps the order of those that stay, and the cursor in it. *)
LEMMA RemoveTurns ==
  ASSUME IInv, TInv, TurnsNext, NEW marked \in [Proxy -> BOOLEAN], Gcollect(marked),
         UNCHANGED <<pxstate, inuse>>
  PROVE  TInv'
<1> DEFINE K == {q \in Proxy : inuse[q] \/ ~marked[q]}  l == Left(entries, K)  n == Len(entries)
           At(i) == Len(l[i])
<1>1. entries \in Seq(Proxy) /\ n \in Nat  BY LenProperties DEF IInv, TypeOK
<1>2. /\ \A i \in 0..n : l[i] \in Seq(Proxy)
      /\ \A i \in 0..n : \A j \in 0..i : Begins(l, i, j)
      /\ \A i \in 1..n : entries[i] \in K => At(i) = At(i - 1) + 1 /\ l[i][At(i)] = entries[i]
      /\ \A i \in 0..n : \A k \in 1..At(i) : Origin(entries, K, l, i, k)
  BY <1>1, LeftFact
<1>3. \A i \in 0..n, j \in 1..n : i < j /\ entries[j] \in K => At(i) < At(j)
  BY <1>1, OrderFact
<1>4. entries' = l[n] /\ mylast' = IF l[Place] = <<>> THEN NoProxy ELSE Last(l[Place])
  BY DEF Gcollect, Place
<1> HIDE DEF l, K
<1>5. Place \in 0..n /\ n \in 0..n  BY <1>1, PlaceFact DEF IInv
<1> HIDE DEF n
<1>6. \A i \in 0..n : At(i) \in Nat  BY <1>2, LenProperties
<1>7. \A i \in 0..n, j \in 0..n : i <= j => At(i) <= At(j)
  <2> SUFFICES ASSUME NEW i \in 0..n, NEW j \in 0..n, i <= j PROVE At(i) <= At(j)  OBVIOUS
  <2>1. i \in 0..j  BY <1>1
  <2> QED  BY <1>2, <2>1 DEF Begins
<1>8. ASSUME NEW k \in 1..Len(entries')
      PROVE  \E j \in 1..n : entries[j] \in K /\ entries'[k] = entries[j] /\ At(j) = k
  BY <1>2, <1>4, <1>5, <1>8 DEF Origin
<1>9. Listed'
  <2> SUFFICES ASSUME NEW i \in 1..Len(entries'), NEW j \in 1..Len(entries'),
                      entries'[i] = entries'[j]
               PROVE  i = j
    BY DEF Listed
  <2>1. PICK a \in 1..n : entries'[i] = entries[a] /\ At(a) = i  BY <1>8
  <2>2. PICK b \in 1..n : entries'[j] = entries[b] /\ At(b) = j  BY <1>8
  <2>3. a = b  BY <2>1, <2>2 DEF TInv, Listed, n
  <2> QED  BY <2>1, <2>2, <2>3
<1>10. Place' = At(Place)
  <2>1. l[Place] \in Seq(Proxy) /\ entries' \in Seq(Proxy)  BY <1>2, <1>4, <1>5
  <2>2. CASE l[Place] = <<>>
    <3>1. At(Place) = 0  BY <2>1, <2>2, ToSetFact
    <3> QED  BY <1>4, <2>2, <3>1, NewPlace
  <2>3. CASE l[Place] # <<>>
    <3>1. PICK c : c = At(Place)  OBVIOUS
    <3>2. c \in Nat /\ c # 0 /\ mylast' = l[Place][c]
      BY <1>4, <1>5, <1>6, <2>1, <2>3, <3>1, ToSetFact DEF Last
    <3>3. c \in 1..Len(entries') /\ entries'[c] = mylast'
      <4>1. Begins(l, n, Place)  BY <1>1, <1>2, <1>5
      <4>2. At(n) \in Nat  BY <1>5, <1>6
      <4> QED  BY <1>4, <3>1, <3>2, <4>1, <4>2 DEF Begins
    <3>4. (CHOOSE i \in DOMAIN entries' : entries'[i] = entries'[c]) = c
      BY <1>9, <2>1, <3>3, PlaceIs DEF Listed
    <3>5. mylast' # NoProxy
      <4>1. entries'[c] \in Proxy  BY <2>1, <3>3, ElementOfSeq
      <4> QED  BY <3>3, <4>1, ProxyAssumption
    <3> QED  BY <3>1, <3>3, <3>4, <3>5, NewPlace
  <2> QED  BY <2>2, <2>3
<1>11. \A q \in Proxy : passed'[q] \subseteq passed[q]
  <2>1. Taken = {}  BY DEF Taken
  <2> QED  BY <2>1, Observed
<1>12. ASSUME NEW q \in Proxy, NEW i \in 1..Len(entries'), NEW k \in 1..Len(entries'),
              entries'[i] = q, entries'[k] \in passed'[q]
       PROVE  Between(i, k, Place')
  <2>1. PICK a \in 1..n : entries[a] \in K /\ q = entries[a] /\ At(a) = i  BY <1>8, <1>12
  <2>2. PICK b \in 1..n : entries[b] \in K /\ entries'[k] = entries[b] /\ At(b) = k  BY <1>8
  <2>3. PICK c \in 0..n : c = Place  BY <1>5
  <2>4. Between(a, b, c)  BY <1>11, <1>12, <2>1, <2>2, <2>3 DEF TInv, Turns, n
  <2>5. a \in Nat /\ b \in Nat /\ c \in Nat /\ a \in 0..n /\ b \in 0..n  BY <1>1
  <2>6. a < b => i < k  BY <1>3, <2>1, <2>2, <2>5
  <2>7. /\ a <= c => i <= At(c)
        /\ b <= c => k <= At(c)
    BY <1>7, <2>1, <2>2, <2>5
  <2>8. c < a => At(c) < i  BY <1>3, <2>1, <2>5
  <2>9. i \in Nat /\ k \in Nat /\ At(c) \in Nat  BY <1>6, <2>1, <2>2, <2>5
  <2>10. Between(i, k, At(c))
    <3>1. CASE a <= c  BY <2>4, <2>5, <2>6, <2>7, <2>9, <3>1 DEF Between
    <3>2. CASE c < a  BY <2>4, <2>5, <2>6, <2>7, <2>8, <2>9, <3>2 DEF Between
    <3> QED  BY <2>5, <3>1, <3>2
  <2> QED  BY <1>10, <2>3, <2>10
<1>13. Turns'
  <2>1. \A q \in Proxy : passed'[q] # {} => Waiting(q)'  BY Observed
  <2>2. \A q \in Proxy : \A r \in passed'[q] : r \in Proxy /\ pxstate'[r] # "none"
    BY <1>11 DEF TInv, Turns
  <2> QED  BY <1>12, <2>1, <2>2 DEF Turns
<1> QED  BY <1>9, <1>13 DEF TInv

(* A search: only the proxy behind the cursor can get the thread, and the   *)
(* cursor moves to it.                                                      *)
LEMMA SearchPlace ==
  ASSUME IInv, TInv, NEW t \in PoolThread, Scan(t)
  PROVE  \E k \in 1..Len(entries) :
           /\ entries[k] = NextEntry /\ Place' = k
           /\ \/ Place \in {0, Len(entries)} /\ k = 1
              \/ Place \in 1..(Len(entries) - 1) /\ k = Place + 1
<1>1. /\ entries \in Seq(Proxy) /\ Len(entries) \in Nat /\ pc[t] = "scan"
      /\ mylast' = NextEntry /\ entries' = entries
  BY ScanFact, LenProperties DEF IInv, TypeOK
<1>2. PICK k \in 1..Len(entries) :
        /\ NextEntry = entries[k]
        /\ Wraps => k = 1
        /\ ~Wraps => Place \in 1..(Len(entries) - 1) /\ k = Place + 1
  BY <1>1, SearchFact DEF IInv
<1>3. Place' = k
  <2>1. (CHOOSE i \in DOMAIN entries : entries[i] = entries[k]) = k
    BY <1>1, PlaceIs DEF TInv, Listed
  <2>2. NextEntry # NoProxy  BY <1>1, SearchFact, ProxyAssumption DEF IInv
  <2> QED  BY <1>1, <1>2, <2>1, <2>2, NewPlace
<1>4. Wraps => Place \in {0, Len(entries)}
  <2>1. mylast = NoProxy => Place = 0  BY DEF Place
  <2>2. CASE mylast # NoProxy /\ mylast = Last(entries)
    <3>1. Len(entries) \in 1..Len(entries) /\ entries[Len(entries)] = mylast
      BY <1>1, <1>2, <2>2 DEF Last
    <3>2. Cursor = Len(entries)  BY <1>1, <3>1, PlaceIs DEF TInv, Listed, Cursor
    <3> QED  BY <2>2, <3>2 DEF Place
  <2> QED  BY <2>1, <2>2 DEF Wraps
<1> QED  BY <1>2, <1>3, <1>4

(* Whom the search takes. *)
LEMMA TakenFact ==
  ASSUME IInv, NEW t \in PoolThread, Scan(t)
  PROVE  /\ Taken = {} \/ Taken = {NextEntry}
         /\ Available(NextEntry) => Taken = {NextEntry}
         /\ UNCHANGED <<entries, pxstate>> /\ NextEntry \in Proxy
<1>1. pc[t] = "scan"  BY ScanFact
<1>2. NextEntry \in Proxy  BY <1>1, SearchFact DEF IInv
<1>3. \/ Available(NextEntry) /\ inuse' = [inuse EXCEPT ![NextEntry] = TRUE]
      \/ ~Available(NextEntry) /\ inuse' = inuse
  BY ScanFact
<1>4. inuse \in [Proxy -> BOOLEAN]  BY DEF IInv, TypeOK
<1>5. Available(NextEntry) => ~inuse[NextEntry]  BY DEF Available, Asked
<1>6. UNCHANGED <<entries, pxstate>>  BY ScanFact DEF proxy
<1> QED  BY <1>2, <1>3, <1>4, <1>5, <1>6 DEF Taken

LEMMA ScanTurns ==
  ASSUME IInv, TInv, TurnsNext, NEW t \in PoolThread, Scan(t)
  PROVE  TInv'
<1>1. /\ entries' = entries /\ pxstate' = pxstate /\ NextEntry \in Proxy
      /\ Taken = {} \/ Taken = {NextEntry}
      /\ Available(NextEntry) => Taken = {NextEntry}
  BY TakenFact
<1>2. PICK k \in 1..Len(entries) :
        /\ entries[k] = NextEntry /\ Place' = k
        /\ \/ Place \in {0, Len(entries)} /\ k = 1
           \/ Place \in 1..(Len(entries) - 1) /\ k = Place + 1
  BY SearchPlace
<1>3. NextEntry \in ToSet(entries)  BY <1>2, ToSetFact DEF IInv, TypeOK
<1>4. Listed'  BY <1>1 DEF TInv, Listed
<1>5. \A p \in Proxy : \A q \in passed'[p] : q \in Proxy /\ pxstate'[q] # "none"
  <2>1. pxstate[NextEntry] # "none"  BY <1>1, <1>3 DEF IInv, Lives
  <2> QED  BY <1>1, <2>1, Observed DEF TInv, Turns
<1>6. ASSUME NEW p \in Proxy, NEW i \in 1..Len(entries), NEW j \in 1..Len(entries),
             entries[i] = p, entries[j] \in passed'[p]
      PROVE  Between(i, j, k)
  <2>1. p # NextEntry
    <3>1. Waiting(p)'  BY <1>6 DEF TurnsNext
    <3>2. ~inuse'[p]  BY <3>1 DEF Waiting, Available, Asked
    <3>3. p \notin Taken  BY <3>2 DEF Taken
    <3>4. ASSUME p = NextEntry PROVE FALSE
      <4>1. ~Available(p) /\ Taken = {}  BY <1>1, <3>3, <3>4
      <4>2. passed[p] # {}
        BY <1>6, <4>1, Observed
      <4> QED  BY <4>1, <4>2 DEF TInv, Turns, Waiting
    <3> QED  BY <3>4
  <2>2. i # k  BY <1>2, <1>6, <2>1
  <2>3. entries[j] \in passed[p] \/ j = k
    BY <1>1, <1>2, <1>6, Observed DEF TInv, Listed
  <2>4. Len(entries) \in Nat  BY LenProperties DEF IInv, TypeOK
  <2>5. CASE j = k  BY <2>2, <2>4, <2>5 DEF Between
  <2>6. CASE entries[j] \in passed[p]
    <3>1. Between(i, j, Place)  BY <1>6, <2>6 DEF TInv, Turns
    <3>2. PICK c : c = Place  OBVIOUS
    <3> QED  BY <1>2, <2>2, <2>4, <3>1, <3>2 DEF Between
  <2> QED  BY <2>3, <2>5, <2>6
<1>7. Turns'
  <2>1. \A q \in Proxy : passed'[q] # {} => Waiting(q)'  BY Observed
  <2> QED  BY <1>1, <1>2, <1>5, <1>6, <2>1 DEF Turns
<1> QED  BY <1>4, <1>7 DEF TInv

LEMMA OtherTurns ==
  ASSUME IInv, IInv', TInv, TurnsNext, \A t \in PoolThread : ~Scan(t)
  PROVE  TInv'
<1> USE DEF pool, locals, proxy, work, conf
<1>1. /\ pxstate \in [Proxy -> {"none", "NotConnected", "Connected", "Exception", "Disconnected"}]
      /\ inuse \in [Proxy -> BOOLEAN]
  BY DEF IInv, TypeOK
<1>2. UNCHANGED usePool /\ Step  BY DEF TurnsNext, Next, Up
<1> DEFINE Quiet == /\ UNCHANGED <<entries, mylast>> /\ Taken = {}
                    /\ \A q \in Proxy : pxstate'[q] = "none" => pxstate[q] = "none"
<1>3. UNCHANGED inuse => Taken = {}  BY DEF Taken
<1>4. Quiet => TInv'  BY QuietTurns
<1>5. Undisturbed => Quiet  BY <1>3 DEF Undisturbed
<1>6. ASSUME NEW p \in Proxy,
             \/ Connect(p) \/ Suspend(p) \/ Resume(p) \/ AddEvent(p) \/ SetQos(p)
             \/ TimePasses(p) \/ DisconnectSequence(p)
      PROVE  TInv'
  BY <1>2, <1>4, <1>5, <1>6, ClientUndisturbed
<1>7. ASSUME NEW p \in Proxy, Create(p) PROVE TInv'
  <2>1. CASE usePool  BY <1>7, <2>1, CreateTurns
  <2>2. CASE ~usePool
    <3>1. \A q \in Proxy : pxstate'[q] = "none" => pxstate[q] = "none"  BY <1>1, <1>7 DEF Create
    <3> QED  BY <1>3, <1>4, <1>7, <2>2, <3>1 DEF Create
  <2> QED  BY <2>1, <2>2
<1>8. ASSUME NEW p \in Proxy, Disconnect(p) \/ InuseOne(p) \/ Dispose(p) PROVE TInv'
  <2>1. \A q \in Proxy : pxstate'[q] = "none" => pxstate[q] = "none"
    BY <1>1, <1>8 DEF Disconnect, InuseOne, Dispose
  <2> QED  BY <1>3, <1>4, <1>8, <2>1 DEF Disconnect, InuseOne, Dispose
<1>9. ASSUME NEW p \in Proxy, RemoveFromAdmin(p) \/ AdminRemoves(p) PROVE TInv'
  <2>1. Unregister(p)  BY <1>9 DEF RemoveFromAdmin, AdminRemoves
  <2>2. UNCHANGED <<pxstate, inuse>>  BY <2>1 DEF Unregister
  <2>3. UNCHANGED <<entries, mylast>> \/ \E marked \in [Proxy -> BOOLEAN] : Gcollect(marked)
    <3>1. [deled EXCEPT ![p] = TRUE] \in [Proxy -> BOOLEAN]  BY DEF IInv, TypeOK
    <3> QED  BY <2>1, <3>1, Zenon DEF Unregister, RemoveProxySupplier
  <2> QED  BY <1>3, <1>4, <2>2, <2>3, RemoveTurns
<1>10. ASSUME NEW p \in Proxy, Worker(p) PROVE TInv'
  <2>1. CASE WorkerExits(p)  BY <1>3, <1>4, <2>1 DEF WorkerExits
  <2> QED  BY <1>2, <1>4, <1>5, <1>10, <2>1, ThreadUndisturbed DEF Worker
<1>11. ASSUME NEW t \in PoolThread, Notify(t) PROVE TInv'
  <2>1. CASE TimedWake(t)  BY <1>2, <1>4, <1>5, <2>1, ThreadUndisturbed
  <2>2. CASE Lock(t) \/ Test(t) \/ PushEvent(t)
    BY <1>3, <1>4, <2>2 DEF Lock, Test, PushEvent
  <2>3. CASE PushReturns(t)
    <3>1. node[t] \in Proxy  BY <2>3 DEF PushReturns, IInv, Nodes, Busy, TypeOK
    <3>2. pxstate' = pxstate \/ pxstate' = [pxstate EXCEPT ![node[t]] = "Exception"]
      BY <2>3, <3>1, ReturnFact
    <3>3. \A q \in Proxy : pxstate'[q] = "none" => pxstate[q] = "none"  BY <1>1, <3>1, <3>2
    <3> QED  BY <1>3, <1>4, <2>3, <3>3 DEF PushReturns
  <2>4. CASE Reset(t)
    <3>1. inuse' = [inuse EXCEPT ![node[t]] = FALSE]  BY <2>4 DEF Reset
    <3>2. Taken = {}  BY <1>1, <3>1 DEF Taken
    <3> QED  BY <1>4, <2>4, <3>2 DEF Reset
  <2>5. CASE SetDeled(t)
    BY <1>3, <1>4, <2>5 DEF SetDeled
  <2> QED  BY <1>11, <2>1, <2>2, <2>3, <2>4, <2>5 DEF Notify
<1>12. ASSUME OtherSignals \/ Shutdown \/ TerminatePool \/ DestroyAdmins PROVE TInv'
  BY <1>3, <1>4, <1>12 DEF OtherSignals, Shutdown, TerminatePool, DestroyAdmins
<1>13. ASSUME JoinPool PROVE TInv'
  <2>1. entries' = <<>> /\ UNCHANGED <<pxstate, inuse>>  BY <1>13 DEF JoinPool
  <2>2. Len(entries') = 0 /\ \A p \in Proxy : passed'[p] \subseteq passed[p]
    BY <1>3, <2>1, Observed
  <2>3. Listed'  BY <2>2 DEF Listed
  <2>4. Turns'
    <3>1. \A p \in Proxy : passed'[p] # {} => Waiting(p)'  BY Observed
    <3>2. 1..Len(entries') = {}  BY <2>2
    <3> QED  BY <2>1, <2>2, <3>1, <3>2 DEF TInv, Turns
  <2> QED  BY <2>3, <2>4 DEF TInv
<1> QED  BY <1>2, <1>6, <1>7, <1>8, <1>9, <1>10, <1>11, <1>12, <1>13 DEF Step

(* Only a search hands out proxies, and never one that has passed a waiting *)
(* proxy.                                                                   *)
LEMMA TakesInTurn ==
  ASSUME IInv, TInv, TurnsNext
  PROVE  \A p \in Proxy : Waiting(p) /\ Waiting(p)' => Taken \cap passed[p] = {}
<1>1. ASSUME NEW p \in Proxy, Waiting(p), Waiting(p)', NEW t \in PoolThread, Scan(t)
      PROVE  Taken \cap passed[p] = {}
  <2> SUFFICES ASSUME Taken = {NextEntry}, NextEntry \in passed[p] PROVE FALSE
    BY <1>1, TakenFact
  <2>1. p # NextEntry
    <3>1. ~inuse'[p]  BY <1>1 DEF Waiting, Available, Asked
    <3> QED  BY <3>1 DEF Taken
  <2>2. PICK k \in 1..Len(entries) :
          /\ entries[k] = NextEntry
          /\ \/ Place \in {0, Len(entries)} /\ k = 1
             \/ Place \in 1..(Len(entries) - 1) /\ k = Place + 1
    BY <1>1, SearchPlace
  <2>3. entries \in Seq(Proxy) /\ Len(entries) \in Nat  BY LenProperties DEF IInv, TypeOK
  <2>4. PICK i \in 1..Len(entries) : entries[i] = p  BY <1>1, <2>3, ToSetFact DEF Waiting
  <2>5. i # k  BY <2>1, <2>2, <2>4
  <2>6. PICK c : c = Place  OBVIOUS
  <2>7. Between(i, k, c)  BY <1>1, <2>2, <2>4, <2>6 DEF TInv, Turns
  <2> QED  BY <2>2, <2>3, <2>5, <2>6, <2>7 DEF Between
<1>2. ASSUME \A t \in PoolThread : ~Scan(t) PROVE Taken = {}
  <2> USE DEF pool, locals, proxy, work, conf
  <2>1. Step /\ UNCHANGED usePool  BY DEF TurnsNext, Next, Up
  <2>2. UNCHANGED inuse => Taken = {}  BY DEF Taken
  <2>3. ASSUME NEW t \in PoolThread, Notify(t) PROVE Taken = {}
    <3>1. CASE Reset(t)
      <4>1. inuse' = [inuse EXCEPT ![node[t]] = FALSE] /\ inuse \in [Proxy -> BOOLEAN]
        BY <3>1 DEF Reset, IInv, TypeOK
      <4> QED  BY <4>1 DEF Taken
    <3> QED  BY <1>2, <2>2, <2>3, <3>1 DEF Notify, Lock, TimedWake, Test, PushEvent,
                                           PushReturns, SetDeled
  <2>4. ASSUME NEW p \in Proxy, Worker(p) PROVE Taken = {}
    BY <2>2, <2>4 DEF Worker, WorkerWaits, WorkerWakes, WorkerPushes, WorkerReturns, WorkerExits
  <2>5. ASSUME NEW p \in Proxy,
             \/ Create(p) \/ Connect(p) \/ Suspend(p) \/ Resume(p) \/ AddEvent(p) \/ SetQos(p)
             \/ TimePasses(p) \/ AdminRemoves(p) \/ DisconnectSequence(p) \/ Disconnect(p)
             \/ InuseOne(p) \/ RemoveFromAdmin(p) \/ Dispose(p)
        PROVE  UNCHANGED inuse
    BY <2>5 DEF Create, Connect, Suspend, Resume, AddEvent, SetQos, TimePasses, AdminRemoves,
                DisconnectSequence, Disconnect, InuseOne, RemoveFromAdmin, Dispose, Unregister
  <2>6. ASSUME OtherSignals \/ Shutdown \/ TerminatePool \/ JoinPool \/ DestroyAdmins
        PROVE  UNCHANGED inuse
    BY <2>6 DEF OtherSignals, Shutdown, TerminatePool, JoinPool, DestroyAdmins
  <2> QED  BY <2>1, <2>2, <2>3, <2>4, <2>5, <2>6 DEF Step
<1> QED  BY <1>1, <1>2

(* The pool serves the proxies that have something to push in turn: while   *)
(* one of them waits, no other gets a thread twice.                         *)
THEOREM PushTurnsFair == TurnsSpec => RoundRobin
<1>1. TurnsInit => IInv /\ TInv
  <2> SUFFICES ASSUME TurnsInit PROVE TInv  BY InitInv DEF TurnsInit
  <2>1. Len(entries) = 0 /\ \A p \in Proxy : passed[p] = {}  BY DEF TurnsInit, Init
  <2> QED  BY <2>1 DEF TInv, Listed, Turns
<1>2. IInv /\ TInv /\ [TurnsNext]_turnvars => IInv' /\ TInv'
  <2> SUFFICES ASSUME IInv, TInv, [TurnsNext]_turnvars PROVE IInv' /\ TInv'  OBVIOUS
  <2>1. IInv'  BY StepInv DEF TurnsNext, turnvars
  <2>2. CASE UNCHANGED turnvars
    <3>1. UNCHANGED <<entries, mylast, pxstate, passed, inuse, deled, active, queue, kind, qos, due>>
      BY <2>2 DEF turnvars, vars, pool, proxy, conf
    <3>2. Place' = Place  BY <3>1 DEF Place, Cursor
    <3>3. \A p \in Proxy : Waiting(p)' <=> Waiting(p)
      BY <3>1 DEF Waiting, Available, Asked, HasEvents, Pushable, Short, Paced, Size
    <3> QED  BY <2>1, <3>1, <3>2, <3>3 DEF TInv, Listed, Turns
  <2>3. CASE TurnsNext  BY <2>1, <2>3, ScanTurns, OtherTurns
  <2> QED  BY <2>1, <2>2, <2>3
<1>3. IInv /\ TInv /\ [TurnsNext]_turnvars
      => [\A p \in Proxy : Waiting(p) /\ Waiting(p)' => Taken \cap passed[p] = {}]_turnvars
  BY TakesInTurn
<1> QED  BY <1>1, <1>2, <1>3, PTL DEF TurnsSpec, RoundRobin
=============================================================================
