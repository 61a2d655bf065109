------------------------- MODULE ChannelDispatchProofs -------------------------
(***************************************************************************)
(* Proofs about the dispatch inside a channel, for any number of threads,  *)
(* groups, admins and events.                                              *)
(***************************************************************************)
EXTENDS ChannelDispatch, SequenceTheorems, FiniteSetTheorems, TLAPS

List == [elts : Seq(Admin), nxt : Nat, mark : BOOLEAN]

\* A list has no element twice, and its iterator stands on an element.
ListOK(l) ==
  /\ l \in List
  /\ l.nxt < Len(l.elts) \/ l.nxt = 0
  /\ \A i, j \in 1..Len(l.elts) : l.elts[i] = l.elts[j] => i = j

Starting == {t \in AdminThread : pc[t] = "start"}

\* The ranges handed out tile the groups before nextgr, and what is left is
\* enough for the threads that have none yet.
RangeInv ==
  /\ nextgr + rmgrps = NumGroups
  /\ rmthrs = Cardinality(Starting) /\ rmgrps >= rmthrs
  /\ rmthrs = 0 => rmgrps = 0
  /\ \A t \in AdminThread : pc[t] # "start" => lo[t] <= hi[t] /\ hi[t] < nextgr
  /\ \A t, u \in AdminThread :
       t # u /\ pc[t] # "start" /\ pc[u] # "start" => hi[t] < lo[u] \/ hi[u] < lo[t]
  /\ \A g \in 0..(nextgr - 1) :
       \E t \in AdminThread : pc[t] # "start" /\ g \in lo[t]..hi[t]

\* The admins that unregister has not yet taken from their group.
Registered(a) == astate[a] \in {"live", "disposing", "leaving"}

\* A group's list holds registered admins of that group.
ListInv ==
  /\ \A g \in Group : ListOK(groups[g])
  /\ \A g \in Group : \A a \in Admin :
       Contains(groups[g].elts, a) => GroupOf(a) = g /\ (shutmedown \/ Registered(a))
  /\ \A a \in Admin : a >= serial => astate[a] = "none"

\* A thread works on an event and a group of its range; while it holds the lock
\* of the group the admin it found there stays registered.
ThreadInv ==
  \A t \in AdminThread :
    /\ pc[t] \in {"group", "list", "admin", "queue"} =>
         cursor[t] # 0 /\ ix[t] \in lo[t]..hi[t]
    /\ pc[t] \in {"admin", "queue"} => adm[t] # NoAdmin
    /\ pc[t] = "admin" /\ ~shutmedown => GroupOf(adm[t]) = ix[t] /\ Registered(adm[t])

DispatchInv == TypeOK /\ RangeInv /\ ListInv /\ ThreadInv

-----------------------------------------------------------------------------
(* Lists with an iterator                                                  *)

\* What insert adds.
LEMMA InsertList ==
  ASSUME NEW l, ListOK(l), NEW a \in Admin, ~Contains(l.elts, a)
  PROVE  /\ ListOK(Insert(l, a))
         /\ \A b : Contains(Insert(l, a).elts, b) => b = a \/ Contains(l.elts, b)
<1> DEFINE r == Insert(l, a)
<1> USE DEF ListOK, List
<1>1. /\ r.elts \in Seq(Admin) /\ Len(r.elts) = Len(l.elts) + 1
      /\ \A i \in 1..Len(r.elts) :
           r.elts[i] = IF i <= Len(l.elts) THEN l.elts[i] ELSE a
  BY DEF Insert
<1>2. r \in List /\ r.nxt < Len(r.elts)
  BY <1>1 DEF Insert
<1>3. \A i, j \in 1..Len(r.elts) : r.elts[i] = r.elts[j] => i = j
  BY <1>1 DEF Contains
<1>4. \A b : Contains(r.elts, b) => b = a \/ Contains(l.elts, b)
  BY <1>1 DEF Contains
<1> QED
  BY <1>2, <1>3, <1>4

\* The elements that are left when one is removed.
LEMMA RemoveElement ==
  ASSUME NEW s \in Seq(Admin), NEW k \in 1..Len(s)
  PROVE  /\ RemoveAt(s, k) \in Seq(Admin)
         /\ Len(RemoveAt(s, k)) = Len(s) - 1
         /\ \A i \in 1..(Len(s) - 1) :
              RemoveAt(s, k)[i] = IF i < k THEN s[i] ELSE s[i + 1]
<1> DEFINE h == SubSeq(s, 1, k - 1)  t == SubSeq(s, k + 1, Len(s))
<1>1. Len(s) \in Nat /\ k \in Nat /\ k >= 1 /\ k <= Len(s)
  OBVIOUS
<1>2. h \in Seq(Admin) /\ Len(h) = k - 1 /\ \A i \in 1..(k - 1) : h[i] = s[i]
  BY <1>1, SubSeqProperties, ElementOfSeq
<1>3. /\ t \in Seq(Admin) /\ Len(t) = Len(s) - k
      /\ \A i \in 1..(Len(s) - k) : t[i] = s[k + i]
  BY <1>1, SubSeqProperties, ElementOfSeq
<1> HIDE DEF h, t
<1>4. /\ h \o t \in Seq(Admin) /\ Len(h \o t) = Len(s) - 1
      /\ \A i \in 1..(Len(s) - 1) :
           (h \o t)[i] = IF i <= k - 1 THEN h[i] ELSE t[i - (k - 1)]
  <2>1. Len(h) + Len(t) = Len(s) - 1 /\ Len(h) = k - 1
    BY <1>1, <1>2, <1>3
  <2>2. h \in Seq(Admin) /\ t \in Seq(Admin)
    BY <1>2, <1>3
  <2>3. /\ h \o t \in Seq(Admin) /\ Len(h \o t) = Len(h) + Len(t)
        /\ \A i \in 1..(Len(h) + Len(t)) :
             (h \o t)[i] = IF i <= Len(h) THEN h[i] ELSE t[i - Len(h)]
    BY <2>2, ConcatProperties, Zenon
  <2> QED
    BY <2>1, <2>3
<1>5. \A i \in 1..(Len(s) - 1) : (h \o t)[i] = IF i < k THEN s[i] ELSE s[i + 1]
  <2> TAKE i \in 1..(Len(s) - 1)
  <2>1. CASE i < k
    <3>1. i \in 1..(k - 1) /\ i <= k - 1
      BY <2>1, <1>1
    <3> QED
      BY <2>1, <3>1, <1>2, <1>4
  <2>2. CASE i >= k
    <3>1. ~(i <= k - 1) /\ i - (k - 1) \in 1..(Len(s) - k) /\ k + (i - (k - 1)) = i + 1
      BY <2>2, <1>1
    <3>2. (h \o t)[i] = t[i - (k - 1)]
      BY <3>1, <1>4
    <3>3. PICK j : j = i - (k - 1)
      OBVIOUS
    <3>4. t[j] = s[k + j] /\ k + j = i + 1
      BY <3>1, <3>3, <1>3
    <3>5. ~(i < k)
      BY <2>2, <1>1
    <3> QED
      BY <3>2, <3>3, <3>4, <3>5
  <2>3. i < k \/ i >= k
    BY <1>1
  <2> QED
    BY <2>1, <2>2, <2>3, Zenon
<1> QED
  BY <1>4, <1>5 DEF RemoveAt, h, t

\* What remove takes away, wherever the iterator stands.
LEMMA RemoveList ==
  ASSUME NEW l, ListOK(l), NEW a
  PROVE  /\ ListOK(RemoveEntry(l, a))
         /\ \A b : Contains(RemoveEntry(l, a).elts, b) => b # a /\ Contains(l.elts, b)
<1> USE DEF ListOK, List
<1>1. CASE ~Contains(l.elts, a)
  BY <1>1 DEF RemoveEntry, Contains
<1>2. CASE Contains(l.elts, a)
  <2> DEFINE i == IndexOf(l, a)  r == RemoveIdx(l, i)  n == Len(l.elts)
  <2>1. i \in 0..(n - 1) /\ l.elts[i + 1] = a
    <3>1. \E j \in 0..(n - 1) : l.elts[j + 1] = a
      <4>1. PICK j \in 1..n : l.elts[j] = a
        BY <1>2 DEF Contains
      <4>2. j - 1 \in 0..(n - 1) /\ (j - 1) + 1 = j
        OBVIOUS
      <4> QED
        BY <4>1, <4>2
    <3> QED
      BY <3>1 DEF IndexOf
  <2> HIDE DEF i
  <2>2. /\ r.elts \in Seq(Admin) /\ Len(r.elts) = n - 1
        /\ \A j \in 1..(n - 1) :
             r.elts[j] = IF j < i + 1 THEN l.elts[j] ELSE l.elts[j + 1]
    <3>1. i + 1 \in 1..n
      BY <2>1
    <3>2. r.elts = RemoveAt(l.elts, i + 1)
      BY DEF RemoveIdx
    <3>3. l.elts \in Seq(Admin)
      OBVIOUS
    <3>4. /\ RemoveAt(l.elts, i + 1) \in Seq(Admin)
          /\ Len(RemoveAt(l.elts, i + 1)) = n - 1
          /\ \A j \in 1..(n - 1) : RemoveAt(l.elts, i + 1)[j] =
               IF j < i + 1 THEN l.elts[j] ELSE l.elts[j + 1]
      BY <3>1, <3>3, RemoveElement, Zenon
    <3> HIDE DEF r
    <3> QED
      BY <3>2, <3>4
  <2>3. r \in List /\ (r.nxt < n - 1 \/ r.nxt = 0)
    BY <2>1, <2>2 DEF RemoveIdx
  <2>4. \A j \in 1..(n - 1) :
          \E k \in 1..n : k # i + 1 /\ r.elts[j] = l.elts[k] /\ k = IF j < i + 1 THEN j ELSE j + 1
    BY <2>1, <2>2
  <2>5. \A j, k \in 1..(n - 1) : r.elts[j] = r.elts[k] => j = k
    BY <2>1, <2>4
  <2>6. \A b : Contains(r.elts, b) => b # a /\ Contains(l.elts, b)
    BY SMTT(30), <2>1, <2>2, <2>4 DEF Contains
  <2>7. RemoveEntry(l, a) = r
    BY <1>2 DEF RemoveEntry, i
  <2> QED
    BY <2>2, <2>3, <2>5, <2>6, <2>7
<1> QED
  BY <1>1, <1>2

\* The iterator delivers elements of the list and does not change them.
LEMMA IterateList ==
  ASSUME NEW l, ListOK(l)
  PROVE  /\ ListOK(IterNext(l)) /\ IterNext(l).elts = l.elts
         /\ IterValue(l) # NoAdmin =>
              IterValue(l) \in Admin /\ Contains(l.elts, IterValue(l))
<1> USE DEF ListOK, List
<1>1. CASE l.mark \/ l.elts = <<>>
  BY <1>1 DEF IterNext, IterValue
<1>2. CASE ~l.mark /\ l.elts # <<>>
  <2> DEFINE n == Len(l.elts)
  <2>1. n \in Nat /\ n >= 1 /\ l.nxt + 1 \in 1..n
    BY <1>2, EmptySeq
  <2>2. l.elts[l.nxt + 1] \in Admin
    BY <2>1, ElementOfSeq
  <2>3. (l.nxt + 1) % n \in 0..(n - 1)
    BY <2>1
  <2>4. IterNext(l) = [l EXCEPT !.nxt = (l.nxt + 1) % n, !.mark = ((l.nxt + 1) % n = 0)]
    BY <1>2 DEF IterNext
  <2>5. IterValue(l) = l.elts[l.nxt + 1]
    BY <1>2 DEF IterValue
  <2>6. ListOK(IterNext(l)) /\ IterNext(l).elts = l.elts
    <3> DEFINE k == (l.nxt + 1) % n
    <3>1. k \in Nat /\ k < n
      BY <2>1, <2>3
    <3>2. (k = 0) \in BOOLEAN
      OBVIOUS
    <3> HIDE DEF k
    <3>3. IterNext(l) = [l EXCEPT !.nxt = k, !.mark = (k = 0)]
      BY <2>4 DEF k
    <3>4. IterNext(l) = [elts |-> l.elts, nxt |-> k, mark |-> (k = 0)]
      BY <3>3
    <3> QED
      BY <3>1, <3>2, <3>4
  <2> QED
    BY <2>1, <2>2, <2>5, <2>6 DEF Contains
<1> QED
  BY <1>1, <1>2

-----------------------------------------------------------------------------
(* allocate_range                                                          *)

\* A share of n groups among m threads: at least one, all of them for the last
\* thread, and it leaves one for each thread to come.
LEMMA Slice ==
  ASSUME NEW n \in Nat, NEW m \in Nat, m >= 1, n >= m
  PROVE  /\ n \div m \in 1..n
         /\ n - (n \div m) >= m - 1
         /\ m = 1 => n \div m = n
<1> DEFINE q == n \div m  r == n % m
<1>1. q \in Int /\ r \in 0..(m - 1) /\ n = m * q + r
  OBVIOUS
<1> HIDE DEF q, r
<1>2. q >= 1
  <2>1. CASE q <= 0
    <3>1. m * q <= 0
      BY <1>1, <2>1
    <3> QED
      BY <1>1, <3>1
  <2> QED
    BY <1>1, <2>1
<1>3. m * q = (m - 1) * q + q
  BY <1>1
<1>4. (m - 1) * q >= m - 1
  BY <1>1, <1>2
<1>5. q <= n /\ n - q >= m - 1
  BY <1>1, <1>3, <1>4
<1>6. m = 1 => q = n
  BY <1>1
<1> QED
  BY <1>1, <1>2, <1>5, <1>6 DEF q

\* A thread that leaves a set of threads.
LEMMA OneLess ==
  ASSUME NEW S \in SUBSET AdminThread, NEW t \in S
  PROVE  /\ Cardinality(S) \in Nat /\ Cardinality(S) >= 1
         /\ Cardinality(S \ {t}) = Cardinality(S) - 1
<1>1. IsFiniteSet(S)
  BY DispatchAssumption, FS_Subset
<1>2. Cardinality(S) \in Nat /\ Cardinality(S \ {t}) = Cardinality(S) - 1
  BY <1>1, FS_CardinalityType, FS_RemoveElement
<1>3. IsFiniteSet(S \ {t})
  BY <1>1, FS_Subset
<1>4. Cardinality(S \ {t}) \in Nat
  BY <1>3, FS_CardinalityType
<1> QED
  BY <1>2, <1>4

-----------------------------------------------------------------------------
(* The initial state                                                       *)

LEMMA InitInv == Init => DispatchInv
<1> SUFFICES ASSUME Init PROVE DispatchInv
  OBVIOUS
<1>1. /\ Cardinality(AdminThread) \in Nat \ {0} /\ NumGroups \in Nat \ {0}
      /\ MaxAdmins \in Nat \ {0} /\ MaxEvents \in Nat
      /\ 0 \in Group /\ 0 \in Admin /\ GroupOf(0) = 0
  BY DispatchAssumption DEF Group, Admin, GroupOf
<1>2. ASSUME NEW g \in Group
      PROVE  /\ groups[g] \in List /\ ListOK(groups[g])
             /\ \A a \in Admin : Contains(groups[g].elts, a) => a = 0 /\ g = 0
  <2>1. CASE g = 0
    <3>1. groups[g] = [elts |-> <<0>>, nxt |-> 0, mark |-> FALSE]
      BY <1>2, <2>1 DEF Init
    <3>2. <<0>> \in Seq(Admin) /\ Len(<<0>>) = 1 /\ <<0>>[1] = 0
      BY <1>1
    <3> QED
      BY <2>1, <3>1, <3>2 DEF ListOK, List, Contains
  <2>2. CASE g # 0
    <3>1. groups[g] = [elts |-> <<>>, nxt |-> 0, mark |-> FALSE]
      BY <1>2, <2>2 DEF Init
    <3>2. <<>> \in Seq(Admin) /\ Len(<<>>) = 0
      BY EmptySeq
    <3> QED
      BY <3>1, <3>2 DEF ListOK, List, Contains
  <2> QED
    BY <2>1, <2>2
<1>3. TypeOK
  <2>1. groups \in [Group -> List]
    BY <1>2 DEF Init
  <2>2. pxdis \in [ProxyThread -> [event : 0..MaxEvents, admin : Admin \cup {NoAdmin}]]
    BY <1>1 DEF Init
  <2>3. nextgr \in 0..NumGroups /\ rmgrps \in 0..NumGroups /\ rmthrs \in 0..Cardinality(AdminThread)
    BY <1>1 DEF Init
  <2>4. last \in 0..MaxEvents /\ cursor \in [AdminThread -> 0..MaxEvents] /\ closed \in BOOLEAN
    <3>1. last = 0 /\ cursor = [c \in AdminThread |-> 0] /\ closed = FALSE
      BY Zenon DEF Init, Feed!Init
    <3>2. closed \in BOOLEAN
      BY <3>1, Zenon
    <3> QED
      BY <1>1, <3>1, <3>2
  <2>5. pooled \in BOOLEAN
    <3>1. pooled \in IF ProxyThread = {} THEN {FALSE} ELSE BOOLEAN
      BY Zenon DEF Init
    <3> QED
      BY <3>1, Zenon
  <2>6. pxq \in Seq([event : Event, admin : Admin])
    BY EmptySeq DEF Init
  <2>7. /\ astate \in [Admin -> AdminState] /\ hasproxy \in [Admin -> BOOLEAN]
        /\ given \in [Admin -> 0..MaxEvents] /\ matched \in [Admin -> 0..MaxEvents]
        /\ serial \in 1..MaxAdmins
    BY <1>1 DEF Init, AdminState
  <2>8. /\ chanlock \in {"free", "client", "destroy"} /\ phase = "open"
        /\ pc \in [AdminThread ->
             {"start", "top", "next", "group", "list", "admin", "queue", "exit"}]
        /\ lo \in [AdminThread -> Group] /\ hi \in [AdminThread -> Group]
        /\ ix \in [AdminThread -> Group] /\ adm \in [AdminThread -> Admin \cup {NoAdmin}]
        /\ ppc \in [ProxyThread -> {"test", "towait", "asleep", "typemap", "admin", "exit"}]
    BY <1>1 DEF Init
  <2> QED
    BY <2>1, <2>2, <2>3, <2>4, <2>5, <2>6, <2>7, <2>8 DEF TypeOK, List
<1>4. RangeInv
  <2>1. Starting = AdminThread
    BY DEF Starting, Init
  <2>2. Cardinality(AdminThread) <= NumGroups
    BY <1>1, DispatchAssumption
  <2>3. /\ nextgr = 0 /\ rmgrps = NumGroups /\ rmthrs = Cardinality(Starting)
        /\ \A t \in AdminThread : pc[t] = "start"
    BY <2>1 DEF Init
  <2> QED
    BY <1>1, <2>1, <2>2, <2>3 DEF RangeInv
<1>5. ListInv
  <2>1. Registered(0) /\ \A a \in Admin : a >= serial => astate[a] = "none"
    BY <1>1 DEF Init, Registered, Admin
  <2> QED
    BY <1>1, <1>2, <2>1 DEF ListInv
<1>6. ThreadInv
  BY DEF ThreadInv, Init
<1> QED
  BY <1>3, <1>4, <1>5, <1>6 DEF DispatchInv

-----------------------------------------------------------------------------
(* What keeps the parts of the invariant                                   *)

\* Nobody gets a range.
LEMMA RangeKept ==
  ASSUME RangeInv, UNCHANGED <<mvars, lo, hi>>,
         \A t \in AdminThread : pc'[t] = "start" <=> pc[t] = "start"
  PROVE  RangeInv'
<1>1. Starting' = Starting
  BY DEF Starting
<1> QED
  BY <1>1 DEF RangeInv, mvars

\* Groups are as before, and no admin of an open channel is unregistered.
LEMMA ListKept ==
  ASSUME ListInv, UNCHANGED <<groups, serial>>, shutmedown => shutmedown',
         \A a \in Admin : astate[a] = "none" => astate'[a] = "none",
         \A a \in Admin : Registered(a) => Registered(a)' \/ shutmedown'
  PROVE  ListInv'
BY DEF ListInv, ListOK, List

\* Threads stay where they are, and no admin of a locked group is unregistered.
LEMMA ThreadKept ==
  ASSUME TypeOK, ThreadInv, UNCHANGED <<cursor, tvars>>, shutmedown => shutmedown',
         \A a \in Admin :
           Registered(a) => Registered(a)' \/ shutmedown' \/ GroupFree(GroupOf(a))
  PROVE  ThreadInv'
<1> SUFFICES ASSUME NEW t \in AdminThread, pc[t] = "admin", ~shutmedown'
             PROVE  Registered(adm[t])'
  BY DEF ThreadInv, tvars
<1>1. adm[t] \in Admin /\ Registered(adm[t]) /\ GroupOf(adm[t]) = ix[t]
  BY DEF ThreadInv, TypeOK
<1>2. ~GroupFree(GroupOf(adm[t]))
  BY <1>1 DEF GroupFree
<1> QED
  BY <1>1, <1>2 DEF Registered, tvars

-----------------------------------------------------------------------------
(* The steps of an admin thread                                            *)

LEMMA QuietThreadSteps ==
  ASSUME DispatchInv, NEW t \in AdminThread,
         ShutExit(t) \/ CallNextEvent(t) \/ NextEventNull(t) \/ LockTypeMap(t)
  PROVE  DispatchInv'
<1> USE DEF ShutExit, CallNextEvent, NextEventNull, LockTypeMap, Goto, AdminThreadOnly,
            fvars, mvars, avars, cvars, pvars, hvars
<1>1. TypeOK /\ RangeInv /\ ListInv /\ ThreadInv
  BY DEF DispatchInv
<1>2. /\ UNCHANGED <<fvars, mvars, avars, cvars, pvars, hvars>>
      /\ UNCHANGED <<groups, pooled, pxq, lo, hi, ix, adm>>
  OBVIOUS
<1>3. \E s \in {"exit", "next", "list"} :
        pc' = [pc EXCEPT ![t] = s] /\ pc[t] # "start" /\ (s = "list" => pc[t] = "group")
  OBVIOUS
<1>4. pc' \in [AdminThread ->
        {"start", "top", "next", "group", "list", "admin", "queue", "exit"}]
  BY <1>1, <1>3 DEF TypeOK
<1>5. TypeOK'
  BY <1>1, <1>2, <1>4 DEF TypeOK
<1>6. RangeInv'
  BY <1>1, <1>2, <1>3, RangeKept DEF TypeOK
<1>7. ListInv'
  BY <1>1, <1>2, ListKept DEF Registered, shutmedown
<1>8. ThreadInv'
  <2>1. \A u \in AdminThread :
          pc'[u] \in {"group", "list", "admin", "queue"} =>
            /\ pc[u] \in {"group", "list", "admin", "queue"}
            /\ pc'[u] = pc[u] \/ pc'[u] = "list"
    <3>1. pc \in [AdminThread ->
            {"start", "top", "next", "group", "list", "admin", "queue", "exit"}]
      BY <1>1 DEF TypeOK
    <3> QED
      BY <1>3, <3>1
  <2>2. shutmedown' = shutmedown /\ \A a : Registered(a)' <=> Registered(a)
    BY <1>2 DEF shutmedown, Registered
  <2> QED
    BY <1>1, <1>2, <2>1, <2>2 DEF ThreadInv
<1> QED
  BY <1>5, <1>6, <1>7, <1>8 DEF DispatchInv

LEMMA AllocateRangeStep ==
  ASSUME DispatchInv, NEW t \in AdminThread, AllocateRange(t)
  PROVE  DispatchInv'
<1> DEFINE slice == rmgrps \div rmthrs
<1>1. TypeOK /\ RangeInv /\ ListInv /\ ThreadInv
  BY DEF DispatchInv
<1>2. /\ UNCHANGED <<fvars, avars, cvars, pvars, hvars>>
      /\ UNCHANGED <<groups, pooled, pxq, ix, adm>>
  BY DEF AllocateRange
<1>3. /\ pc[t] = "start" /\ pc' = [pc EXCEPT ![t] = "top"]
      /\ lo' = [lo EXCEPT ![t] = nextgr] /\ hi' = [hi EXCEPT ![t] = nextgr + slice - 1]
      /\ nextgr' = nextgr + slice /\ rmgrps' = rmgrps - slice /\ rmthrs' = rmthrs - 1
  BY DEF AllocateRange, Goto
<1>4. nextgr \in Nat /\ rmgrps \in Nat /\ rmthrs \in Nat /\ nextgr + rmgrps = NumGroups
  BY <1>1, DispatchAssumption DEF TypeOK, RangeInv
<1>5. /\ rmthrs >= 1 /\ rmthrs = Cardinality(Starting)
      /\ Starting' = Starting \ {t} /\ Cardinality(Starting') = rmthrs - 1
  <2>1. Starting \in SUBSET AdminThread /\ t \in Starting /\ Starting' = Starting \ {t}
    BY <1>1, <1>3 DEF Starting, TypeOK
  <2> QED
    BY <2>1, <1>1, OneLess DEF RangeInv
<1>6. slice \in 1..rmgrps /\ rmgrps - slice >= rmthrs - 1 /\ (rmthrs = 1 => slice = rmgrps)
  BY <1>1, <1>4, <1>5, Slice DEF RangeInv
<1> HIDE DEF slice
<1>7. TypeOK'
  <2>1. nextgr \in Group /\ nextgr + slice - 1 \in Group /\ NumGroups \in Nat
    BY <1>4, <1>6, DispatchAssumption DEF Group
  <2>2. lo' \in [AdminThread -> Group] /\ hi' \in [AdminThread -> Group]
    BY <1>1, <1>3, <2>1 DEF TypeOK
  <2>3. nextgr' \in 0..NumGroups /\ rmgrps' \in 0..NumGroups
    BY <1>3, <1>4, <1>6, <2>1
  <2>4. rmthrs' \in 0..Cardinality(AdminThread)
    <3>1. rmthrs \in 0..Cardinality(AdminThread) /\ Cardinality(AdminThread) \in Nat
      BY <1>1, DispatchAssumption, FS_CardinalityType DEF TypeOK
    <3> QED
      BY <1>3, <1>5, <3>1
  <2>5. pc' \in [AdminThread ->
          {"start", "top", "next", "group", "list", "admin", "queue", "exit"}]
    BY <1>1, <1>3 DEF TypeOK
  <2> QED
    BY <1>1, <1>2, <2>2, <2>3, <2>4, <2>5
       DEF TypeOK, fvars, avars, cvars, pvars, hvars
<1>8. RangeInv'
  <2>1. /\ lo'[t] = nextgr /\ hi'[t] = nextgr + slice - 1 /\ pc'[t] # "start"
        /\ \A u \in AdminThread : u # t =>
             pc'[u] = pc[u] /\ lo'[u] = lo[u] /\ hi'[u] = hi[u]
    BY <1>1, <1>3 DEF TypeOK
  <2>2. \A u \in AdminThread : lo[u] \in Int /\ hi[u] \in Int
    BY <1>1, DispatchAssumption DEF TypeOK, Group
  <2>3. /\ nextgr' + rmgrps' = NumGroups
        /\ rmthrs' = Cardinality(Starting') /\ rmgrps' >= rmthrs'
        /\ rmthrs' = 0 => rmgrps' = 0
    BY <1>3, <1>4, <1>5, <1>6
  <2>4. \A u \in AdminThread : pc'[u] # "start" => lo'[u] <= hi'[u] /\ hi'[u] < nextgr'
    BY <1>1, <1>3, <1>4, <1>6, <2>1, <2>2 DEF RangeInv
  <2>5. ASSUME NEW u \in AdminThread, NEW w \in AdminThread,
               u # w, pc'[u] # "start", pc'[w] # "start"
        PROVE  hi'[u] < lo'[w] \/ hi'[w] < lo'[u]
    <3>1. CASE u # t /\ w # t
      BY <1>1, <2>1, <2>5, <3>1 DEF RangeInv
    <3>2. CASE u = t
      BY <1>1, <2>1, <2>2, <2>5, <3>2 DEF RangeInv
    <3>3. CASE w = t
      BY <1>1, <2>1, <2>2, <2>5, <3>3 DEF RangeInv
    <3> QED
      BY <3>1, <3>2, <3>3
  <2>6. ASSUME NEW g \in 0..(nextgr' - 1)
        PROVE  \E u \in AdminThread : pc'[u] # "start" /\ g \in lo'[u]..hi'[u]
    <3>1. CASE g < nextgr
      <4>1. PICK u \in AdminThread : pc[u] # "start" /\ g \in lo[u]..hi[u]
        BY <1>1, <1>4, <3>1 DEF RangeInv
      <4> QED
        BY <1>3, <2>1, <4>1
    <3>2. CASE g >= nextgr
      BY <1>3, <1>4, <1>6, <2>1, <3>2
    <3> QED
      BY <1>4, <3>1, <3>2
  <2> QED
    BY <2>3, <2>4, <2>5, <2>6 DEF RangeInv
<1>9. ListInv'
  BY <1>1, <1>2, ListKept DEF Registered, shutmedown, avars, cvars
<1>10. ThreadInv'
  BY <1>1, <1>2, <1>3 DEF ThreadInv, TypeOK, Registered, shutmedown, fvars, avars, cvars
<1> QED
  BY <1>7, <1>8, <1>9, <1>10 DEF DispatchInv

LEMMA NextEventStep ==
  ASSUME DispatchInv, NEW t \in AdminThread, NextEvent(t)
  PROVE  DispatchInv'
<1>1. TypeOK /\ RangeInv /\ ListInv /\ ThreadInv
  BY DEF DispatchInv
<1>2. /\ UNCHANGED <<mvars, avars, cvars, pvars, hvars, last, closed>>
      /\ UNCHANGED <<groups, pooled, pxq, lo, hi, adm>>
  BY DEF NextEvent, AdminThreadOnly, Feed!Deliver
<1>3. /\ pc[t] = "next" /\ ix' = [ix EXCEPT ![t] = lo[t]]
      /\ \E s \in {"exit", "group"} : pc' = [pc EXCEPT ![t] = s]
      /\ \E e \in 1..last : cursor' = [cursor EXCEPT ![t] = e]
  BY DEF NextEvent, Goto, Feed!Deliver
<1>4. lo[t] \in Int /\ hi[t] \in Int /\ lo[t] <= hi[t] /\ last \in 0..MaxEvents /\ MaxEvents \in Nat
  BY SMTT(30), <1>1, <1>3, DispatchAssumption DEF TypeOK, RangeInv, Group
<1>5. TypeOK'
  <2>1. cursor' \in [AdminThread -> 0..MaxEvents] /\ ix' \in [AdminThread -> Group]
    BY SMTT(30), <1>1, <1>3, <1>4 DEF TypeOK
  <2>2. pc' \in [AdminThread ->
          {"start", "top", "next", "group", "list", "admin", "queue", "exit"}]
    BY <1>1, <1>3 DEF TypeOK
  <2> QED
    BY <1>1, <1>2, <2>1, <2>2 DEF TypeOK, mvars, avars, cvars, pvars, hvars
<1>6. RangeInv'
  BY <1>1, <1>2, <1>3, RangeKept DEF TypeOK
<1>7. ListInv'
  BY <1>1, <1>2, ListKept DEF Registered, shutmedown, avars, cvars
<1>8. ThreadInv'
  <2>1. ASSUME NEW u \in AdminThread, u # t
        PROVE  pc'[u] = pc[u] /\ ix'[u] = ix[u] /\ cursor'[u] = cursor[u]
    BY <1>1, <1>3, <2>1 DEF TypeOK
  <2>2. pc'[t] \in {"exit", "group"} /\ ix'[t] = lo[t] /\ cursor'[t] # 0
    BY <1>1, <1>3, <1>4 DEF TypeOK
  <2>3. UNCHANGED <<astate, shutmedown, lo, hi, adm>>
    BY <1>2 DEF avars, cvars, shutmedown
  <2> QED
    BY <1>1, <1>4, <2>1, <2>2, <2>3 DEF ThreadInv, Registered
<1> QED
  BY <1>5, <1>6, <1>7, <1>8 DEF DispatchInv

LEMMA IterateGroupStep ==
  ASSUME DispatchInv, NEW t \in AdminThread, IterateGroup(t)
  PROVE  DispatchInv'
<1> DEFINE g == ix[t]  a == IterValue(groups[g])
<1>1. TypeOK /\ RangeInv /\ ListInv /\ ThreadInv
  BY DEF DispatchInv
<1>2. /\ UNCHANGED <<fvars, mvars, avars, cvars, pvars, hvars>>
      /\ UNCHANGED <<pooled, pxq, lo, hi>>
  BY DEF IterateGroup, AdminThreadOnly
<1>3. /\ pc[t] = "list" /\ groups' = [groups EXCEPT ![g] = IterNext(groups[g])]
      /\ \/ a # NoAdmin /\ adm' = [adm EXCEPT ![t] = a] /\ pc' = [pc EXCEPT ![t] = "admin"]
            /\ ix' = ix
         \/ a = NoAdmin /\ g < hi[t] /\ ix' = [ix EXCEPT ![t] = g + 1]
            /\ pc' = [pc EXCEPT ![t] = "group"] /\ adm' = adm
         \/ a = NoAdmin /\ pc' = [pc EXCEPT ![t] = "top"] /\ ix' = ix /\ adm' = adm
  BY DEF IterateGroup, Goto
<1>4. g \in Group /\ g \in lo[t]..hi[t] /\ lo[t] \in Group /\ hi[t] \in Group
  BY <1>1, <1>3 DEF TypeOK, ThreadInv
<1>5. /\ ListOK(groups[g]) /\ ListOK(IterNext(groups[g]))
      /\ IterNext(groups[g]).elts = groups[g].elts
      /\ a # NoAdmin => a \in Admin /\ Contains(groups[g].elts, a)
  BY <1>1, <1>4, IterateList DEF ListInv
<1>6. a # NoAdmin => a \in Admin /\ GroupOf(a) = g /\ (shutmedown \/ Registered(a))
  BY <1>1, <1>4, <1>5 DEF ListInv
<1> HIDE DEF a
<1>7. TypeOK'
  <2>1. g < hi[t] => g + 1 \in Group
    BY <1>4, DispatchAssumption DEF Group
  <2>2. groups' \in [Group -> [elts : Seq(Admin), nxt : Nat, mark : BOOLEAN]]
    BY <1>1, <1>3, <1>5 DEF TypeOK, ListOK, List
  <2>3. pc' \in [AdminThread ->
          {"start", "top", "next", "group", "list", "admin", "queue", "exit"}]
    <3>1. \E s \in {"admin", "group", "top"} : pc' = [pc EXCEPT ![t] = s]
      BY <1>3
    <3> QED
      BY <1>1, <3>1 DEF TypeOK
  <2>4. ix' \in [AdminThread -> Group]
    <3>1. \E h \in Group : ix' = [ix EXCEPT ![t] = h] \/ ix' = ix
      BY <1>3, <1>4, <2>1
    <3> QED
      BY <1>1, <3>1 DEF TypeOK
  <2>5. adm' \in [AdminThread -> Admin \cup {NoAdmin}]
    <3>1. adm' = adm \/ (a \in Admin /\ adm' = [adm EXCEPT ![t] = a])
      BY <1>3, <1>6
    <3> QED
      BY <1>1, <3>1 DEF TypeOK
  <2> QED
    BY <1>1, <1>2, <2>2, <2>3, <2>4, <2>5 DEF TypeOK, fvars, mvars, avars, cvars, pvars, hvars
<1>8. RangeInv'
  BY <1>1, <1>2, <1>3, RangeKept DEF TypeOK
<1>9. ListInv'
  <2>1. \A h \in Group : groups'[h] = IF h = g THEN IterNext(groups[g]) ELSE groups[h]
    BY <1>1, <1>3 DEF TypeOK
  <2>2. ASSUME NEW h \in Group PROVE ListOK(groups'[h]) /\ groups'[h].elts = groups[h].elts
    <3>1. ListOK(groups[h])
      BY <1>1 DEF ListInv
    <3>2. groups'[h] = IterNext(groups[g]) \/ groups'[h] = groups[h]
      BY <2>1
    <3> QED
      BY <1>5, <2>1, <3>1, <3>2
  <2>3. UNCHANGED <<astate, serial, shutmedown>>
    BY <1>2 DEF avars, cvars, shutmedown
  <2>4. \A b \in Admin : Registered(b)' <=> Registered(b)
    BY <2>3 DEF Registered
  <2>5. ASSUME NEW h \in Group PROVE ListOK(groups[h])'
    BY <2>2 DEF ListOK, List
  <2> QED
    BY <1>1, <2>2, <2>3, <2>4, <2>5 DEF ListInv, Contains
<1>10. ThreadInv'
  <2>1. UNCHANGED <<astate, shutmedown, cursor, lo, hi>>
    BY <1>2 DEF avars, cvars, fvars, shutmedown
  <2>2. ASSUME NEW u \in AdminThread, u # t
        PROVE  pc'[u] = pc[u] /\ ix'[u] = ix[u] /\ adm'[u] = adm[u]
    BY <1>1, <1>3, <2>2 DEF TypeOK
  <2>3. \/ a # NoAdmin /\ pc'[t] = "admin" /\ ix'[t] = g /\ adm'[t] = a
        \/ pc'[t] = "group" /\ ix'[t] = g + 1 /\ g < hi[t]
        \/ pc'[t] = "top"
    BY <1>1, <1>3 DEF TypeOK
  <2>4. lo[t] \in Int /\ hi[t] \in Int /\ g \in Int
    BY <1>4, DispatchAssumption DEF Group
  <2> QED
    BY <1>1, <1>3, <1>4, <1>6, <2>1, <2>2, <2>3, <2>4 DEF ThreadInv, Registered
<1> QED
  BY <1>7, <1>8, <1>9, <1>10 DEF DispatchInv

LEMMA OfferSteps ==
  ASSUME DispatchInv, NEW t \in AdminThread, OfferEvent(t) \/ QueueEvent(t)
  PROVE  DispatchInv'
<1>1. TypeOK /\ RangeInv /\ ListInv /\ ThreadInv
  BY DEF DispatchInv
<1>2. /\ UNCHANGED <<fvars, mvars, avars, cvars>>
      /\ UNCHANGED <<groups, pooled, lo, hi, ix, adm, pxdis>>
  BY DEF OfferEvent, QueueEvent, AdminThreadOnly, pvars
<1>3. /\ pc[t] \in {"admin", "queue"}
      /\ \E s \in {"group", "queue"} : pc' = [pc EXCEPT ![t] = s]
  BY DEF OfferEvent, QueueEvent, Goto
<1>4. adm[t] \in Admin /\ cursor[t] \in Event
  BY <1>1, <1>3, DispatchAssumption DEF TypeOK, ThreadInv, Event
<1>5. TypeOK'
  <2>1. pc' \in [AdminThread ->
          {"start", "top", "next", "group", "list", "admin", "queue", "exit"}]
    BY <1>1, <1>3 DEF TypeOK
  <2>2. /\ given' \in [Admin -> 0..MaxEvents] /\ matched' \in [Admin -> 0..MaxEvents]
        /\ pxq' \in Seq([event : Event, admin : Admin])
        /\ ppc' \in [ProxyThread ->
             {"test", "towait", "asleep", "typemap", "admin", "exit"}]
    <3>1. CASE OfferEvent(t)
      <4>1. pxq' = pxq /\ ppc' = ppc
        BY <3>1 DEF OfferEvent, AdminThreadOnly, pvars
      <4>2. /\ given' = given \/ given' = [given EXCEPT ![adm[t]] = cursor[t]]
            /\ matched' = matched \/ matched' = [matched EXCEPT ![adm[t]] = cursor[t]]
        BY <3>1 DEF OfferEvent, hvars
      <4>3. cursor[t] \in 0..MaxEvents
        BY <1>1 DEF TypeOK
      <4> QED
        BY <1>1, <1>4, <4>1, <4>2, <4>3 DEF TypeOK
    <3>2. CASE QueueEvent(t)
      <4>1. /\ given' = given /\ matched' = matched
            /\ pxq' = Append(pxq, [event |-> cursor[t], admin |-> adm[t]])
            /\ ppc' = [p \in ProxyThread |-> IF ppc[p] = "asleep" THEN "test" ELSE ppc[p]]
        BY <3>2 DEF QueueEvent, hvars
      <4>2. pxq' \in Seq([event : Event, admin : Admin])
        BY <1>1, <1>4, <4>1 DEF TypeOK
      <4> QED
        BY <1>1, <4>1, <4>2 DEF TypeOK
    <3> QED
      BY <3>1, <3>2
  <2> QED
    BY <1>1, <1>2, <2>1, <2>2 DEF TypeOK, fvars, mvars, avars, cvars
<1>6. RangeInv'
  BY <1>1, <1>2, <1>3, RangeKept DEF TypeOK
<1>7. ListInv'
  BY <1>1, <1>2, ListKept DEF Registered, shutmedown, avars, cvars
<1>8. ThreadInv'
  <2>1. \A u \in AdminThread : u # t => pc'[u] = pc[u]
    BY <1>1, <1>3 DEF TypeOK
  <2>2. pc'[t] \in {"group", "queue"}
    BY <1>1, <1>3 DEF TypeOK
  <2>3. UNCHANGED <<astate, shutmedown, cursor>>
    BY <1>2 DEF avars, cvars, fvars, shutmedown
  <2>4. \A b \in Admin \cup {NoAdmin} : Registered(b)' <=> Registered(b)
    BY <2>3 DEF Registered
  <2> QED
    BY <1>1, <1>2, <1>3, <2>1, <2>2, <2>3, <2>4 DEF ThreadInv, TypeOK
<1> QED
  BY <1>5, <1>6, <1>7, <1>8 DEF DispatchInv

-----------------------------------------------------------------------------
(* The steps of proxy threads, suppliers and consumers                     *)

LEMMA ProxyDispatchStep ==
  ASSUME DispatchInv, NEW p \in ProxyThread, ProxyDispatch(p)
  PROVE  DispatchInv'
<1>1. TypeOK /\ RangeInv /\ ListInv /\ ThreadInv
  BY DEF DispatchInv
<1>2. UNCHANGED <<fvars, groups, mvars, avars, pooled, cvars, tvars, given>>
  BY DEF ProxyDispatch, TestQueue, WaitEmpty, PLockTypeMap, DispatchEvent,
         ProxyThreadOnly, hvars
<1>3. /\ pxq' \in Seq([event : Event, admin : Admin])
      /\ pxdis' \in [ProxyThread -> [event : 0..MaxEvents, admin : Admin \cup {NoAdmin}]]
  <2>1. CASE TestQueue(p) /\ pxq # <<>> /\ pxdis' = [pxdis EXCEPT ![p] = Head(pxq)]
             /\ pxq' = Tail(pxq)
    <3>1. Head(pxq) \in [event : Event, admin : Admin] /\ pxq' \in Seq([event : Event, admin : Admin])
      BY <1>1, <2>1, HeadTailProperties DEF TypeOK
    <3>2. Head(pxq) \in [event : 0..MaxEvents, admin : Admin \cup {NoAdmin}]
      BY <3>1, DispatchAssumption DEF Event
    <3> QED
      BY <1>1, <2>1, <3>1, <3>2 DEF TypeOK
  <2>2. CASE UNCHANGED <<pxq, pxdis>>
    BY <1>1, <2>2 DEF TypeOK
  <2>3. CASE DispatchEvent(p)
    <3>1. pxq' = pxq /\ pxdis' = [pxdis EXCEPT ![p] = [event |-> 0, admin |-> NoAdmin]]
      BY <2>3 DEF DispatchEvent
    <3>2. [event |-> 0, admin |-> NoAdmin] \in [event : 0..MaxEvents, admin : Admin \cup {NoAdmin}]
      BY DispatchAssumption
    <3> QED
      BY <1>1, <3>1, <3>2 DEF TypeOK
  <2> QED
    BY <2>1, <2>2, <2>3 DEF ProxyDispatch, TestQueue, WaitEmpty, PLockTypeMap
<1>4. ppc' \in [ProxyThread -> {"test", "towait", "asleep", "typemap", "admin", "exit"}]
  <2>1. \E s \in {"test", "towait", "asleep", "typemap", "admin", "exit"} :
          ppc' = [ppc EXCEPT ![p] = s]
    BY DEF ProxyDispatch, TestQueue, WaitEmpty, PLockTypeMap, DispatchEvent, PGoto
  <2> QED
    BY <1>1, <2>1 DEF TypeOK
<1>5. matched' \in [Admin -> 0..MaxEvents]
  <2>1. pxdis[p].event \in 0..MaxEvents
    BY <1>1 DEF TypeOK
  <2>2. matched' = matched \/ matched' = [matched EXCEPT ![pxdis[p].admin] = pxdis[p].event]
    BY DEF ProxyDispatch, TestQueue, WaitEmpty, PLockTypeMap, DispatchEvent, hvars
  <2> QED
    BY <1>1, <2>1, <2>2 DEF TypeOK
<1>6. TypeOK'
  BY <1>1, <1>2, <1>3, <1>4, <1>5 DEF TypeOK, fvars, mvars, avars, cvars, tvars
<1>7. RangeInv'
  BY <1>1, <1>2, RangeKept DEF tvars
<1>8. ListInv'
  BY <1>1, <1>2, ListKept DEF Registered, shutmedown, avars, cvars
<1>9. ThreadInv'
  <2>1. shutmedown' = shutmedown /\ \A a : Registered(a)' <=> Registered(a)
    BY <1>2 DEF Registered, shutmedown, avars, cvars
  <2> QED
    BY SMTT(30), <1>1, <1>2, <2>1, ThreadKept DEF fvars
<1> QED
  BY <1>6, <1>7, <1>8, <1>9 DEF DispatchInv

LEMMA ClientSteps ==
  ASSUME DispatchInv, Announce \/ \E a \in Admin : ObtainProxy(a)
  PROVE  DispatchInv'
<1>1. TypeOK /\ RangeInv /\ ListInv /\ ThreadInv
  BY DEF DispatchInv
<1>2. /\ UNCHANGED <<cursor, closed, groups, mvars, astate, serial, pooled, pxq, cvars>>
      /\ UNCHANGED <<tvars, pvars, hvars>>
  BY DEF Announce, ObtainProxy, Feed!Publish, fvars, avars
<1>3. last' \in 0..MaxEvents
  BY <1>1, DispatchAssumption DEF Announce, ObtainProxy, Feed!Publish, fvars, TypeOK
<1>4. hasproxy' \in [Admin -> BOOLEAN]
  BY <1>1 DEF Announce, ObtainProxy, avars, TypeOK
<1>5. TypeOK'
  BY <1>1, <1>2, <1>3, <1>4 DEF TypeOK, mvars, cvars, tvars, pvars, hvars
<1>6. RangeInv'
  BY <1>1, <1>2, RangeKept DEF tvars
<1>7. ListInv'
  BY <1>1, <1>2, ListKept DEF Registered, shutmedown, cvars
<1>8. ThreadInv'
  BY <1>1, <1>2, ThreadKept DEF Registered, shutmedown, cvars
<1> QED
  BY <1>5, <1>6, <1>7, <1>8 DEF DispatchInv

LEMMA NewForConsumersStep ==
  ASSUME DispatchInv, NewForConsumers
  PROVE  DispatchInv'
<1> DEFINE g == GroupOf(serial)
<1>1. TypeOK /\ RangeInv /\ ListInv /\ ThreadInv
  BY DEF DispatchInv
<1>2. /\ UNCHANGED <<fvars, mvars, hasproxy, pooled, pxq, cvars, tvars, pvars, hvars>>
      /\ ~shutmedown /\ ~shutmedown'
  BY DEF NewForConsumers, cvars, shutmedown
<1>3. /\ serial < MaxAdmins /\ serial' = serial + 1
      /\ astate' = [astate EXCEPT ![serial] = "live"]
      /\ groups' = [groups EXCEPT ![g] = Insert(groups[g], serial)]
  BY DEF NewForConsumers
<1>4. /\ serial \in Admin /\ serial \in Nat /\ serial' \in 1..MaxAdmins
      /\ astate[serial] = "none" /\ g \in Group
  <2>1. MaxAdmins \in Nat /\ NumGroups \in Nat \ {0} /\ serial \in 1..MaxAdmins
    BY <1>1, DispatchAssumption DEF TypeOK
  <2>2. serial \in Admin /\ serial' \in 1..MaxAdmins
    BY <1>3, <2>1 DEF Admin
  <2>3. g \in Group
    BY <2>1 DEF Group, GroupOf
  <2>4. astate[serial] = "none"
    BY <1>1, <2>1, <2>2 DEF ListInv
  <2> QED
    BY <2>1, <2>2, <2>3, <2>4
<1>5. ~Contains(groups[g].elts, serial)
  BY <1>1, <1>2, <1>4 DEF ListInv, Registered
<1>6. /\ ListOK(Insert(groups[g], serial))
      /\ \A b : Contains(Insert(groups[g], serial).elts, b) =>
                  b = serial \/ Contains(groups[g].elts, b)
  BY <1>1, <1>4, <1>5, InsertList DEF ListInv
<1>7. \A b \in Admin : astate'[b] = IF b = serial THEN "live" ELSE astate[b]
  BY <1>1, <1>3 DEF TypeOK
<1>8. TypeOK'
  <2>1. groups' \in [Group -> [elts : Seq(Admin), nxt : Nat, mark : BOOLEAN]]
    BY <1>1, <1>3, <1>6 DEF TypeOK, ListOK, List
  <2>2. astate' \in [Admin -> AdminState]
    BY <1>1, <1>3 DEF TypeOK, AdminState
  <2> QED
    BY <1>1, <1>2, <1>4, <2>1, <2>2 DEF TypeOK, fvars, mvars, cvars, tvars, pvars, hvars
<1>9. RangeInv'
  BY <1>1, <1>2, RangeKept DEF tvars
<1>10. ListInv'
  <2>1. ASSUME NEW h \in Group
        PROVE  /\ ListOK(groups'[h])
               /\ \A b \in Admin : Contains(groups'[h].elts, b) =>
                    (b = serial /\ h = g) \/ Contains(groups[h].elts, b)
    <3>1. ListOK(groups[h])
      BY <1>1 DEF ListInv
    <3>2. groups'[h] = IF h = g THEN Insert(groups[g], serial) ELSE groups[h]
      BY <1>1, <1>3 DEF TypeOK
    <3> QED
      BY <1>6, <3>1, <3>2
  <2>2. ASSUME NEW h \in Group, NEW b \in Admin, Contains(groups'[h].elts, b)
        PROVE  GroupOf(b) = h /\ Registered(b)'
    <3>1. CASE b = serial /\ h = g
      BY <1>7, <3>1 DEF Registered
    <3>2. CASE Contains(groups[h].elts, b)
      <4>1. GroupOf(b) = h /\ Registered(b)
        BY <1>1, <1>2, <3>2 DEF ListInv
      <4> QED
        BY <1>7, <4>1 DEF Registered
    <3> QED
      BY <2>1, <2>2, <3>1, <3>2
  <2>3. \A b \in Admin : b >= serial' => astate'[b] = "none"
    <3> TAKE b \in Admin
    <3> HAVE b >= serial'
    <3>1. b \in Int /\ b >= serial /\ b # serial
      BY <1>3, <1>4 DEF Admin
    <3> QED
      BY <1>1, <1>7, <3>1 DEF ListInv
  <2>4. ASSUME NEW h \in Group PROVE ListOK(groups[h])'
    BY <2>1 DEF ListOK, List
  <2>5. ASSUME NEW h \in Group, NEW b \in Admin PROVE Contains(groups[h].elts, b)' <=> Contains(groups'[h].elts, b)
    BY DEF Contains
  <2> QED
    BY <2>2, <2>3, <2>4, <2>5 DEF ListInv
<1>11. ThreadInv'
  <2>1. UNCHANGED <<cursor, tvars>> /\ (shutmedown => shutmedown')
    BY <1>2 DEF fvars
  <2>2. \A b \in Admin : Registered(b) => Registered(b)'
    BY <1>7 DEF Registered
  <2> QED
    BY <1>1, <2>1, <2>2, ThreadKept
<1> QED
  BY <1>8, <1>9, <1>10, <1>11 DEF DispatchInv

-----------------------------------------------------------------------------
(* The destruction of an admin and of the channel                          *)

LEMMA DestroyAdminSteps ==
  ASSUME DispatchInv, NEW a \in Admin, AdminDestroy(a) \/ DestroyAdmin(a)
  PROVE  DispatchInv'
<1> USE DEF AdminDestroy, DestroyAdmin, UnregisterShut, UnregisterBegin, Unregister,
            SkipUpdate, UpdateBegin, UpdateTypeMap, DisposeProxies, AdminGone, Becomes
<1>1. TypeOK /\ RangeInv /\ ListInv /\ ThreadInv
  BY DEF DispatchInv
<1>2. /\ UNCHANGED <<fvars, mvars, serial, pooled, pxq, phase, tvars, pvars, hvars>>
      /\ shutmedown' = shutmedown
  BY DEF shutmedown
<1>3. /\ astate[a] # "none"
      /\ \E s \in AdminState : s # "none" /\ astate' = [astate EXCEPT ![a] = s]
  BY DEF AdminState
<1>4. \/ Unregister(a)
      \/ groups' = groups /\ (Registered(a) => Registered(a)' \/ shutmedown')
  BY <1>1, <1>2 DEF Registered, TypeOK
<1>5. \A b \in Admin : b # a => astate'[b] = astate[b]
  BY <1>1, <1>3 DEF TypeOK
<1>6. Unregister(a) =>
        /\ GroupFree(GroupOf(a)) /\ GroupOf(a) \in Group
        /\ groups' = [groups EXCEPT ![GroupOf(a)] = RemoveEntry(groups[GroupOf(a)], a)]
        /\ ListOK(RemoveEntry(groups[GroupOf(a)], a))
        /\ \A b : Contains(RemoveEntry(groups[GroupOf(a)], a).elts, b) =>
                    b # a /\ Contains(groups[GroupOf(a)].elts, b)
  <2> SUFFICES ASSUME Unregister(a)
               PROVE  /\ GroupFree(GroupOf(a)) /\ GroupOf(a) \in Group
                      /\ groups' = [groups EXCEPT ![GroupOf(a)] = RemoveEntry(groups[GroupOf(a)], a)]
                      /\ ListOK(RemoveEntry(groups[GroupOf(a)], a))
                      /\ \A b : Contains(RemoveEntry(groups[GroupOf(a)], a).elts, b) =>
                                  b # a /\ Contains(groups[GroupOf(a)].elts, b)
    OBVIOUS
  <2>1. GroupOf(a) \in Group
    BY DispatchAssumption DEF GroupOf, Group, Admin
  <2>2. ListOK(groups[GroupOf(a)])
    BY <1>1, <2>1 DEF ListInv
  <2> QED
    BY <2>1, <2>2, RemoveList
<1>7. TypeOK'
  <2>1. groups' \in [Group -> [elts : Seq(Admin), nxt : Nat, mark : BOOLEAN]]
    BY <1>1, <1>4, <1>6 DEF TypeOK, ListOK, List
  <2>2. astate' \in [Admin -> AdminState]
    BY <1>1, <1>3 DEF TypeOK
  <2>3. chanlock' \in {"free", "client", "destroy"}
    BY <1>1 DEF TypeOK
  <2>4. hasproxy' \in [Admin -> BOOLEAN]
    BY <1>1 DEF TypeOK
  <2> QED
    BY <1>1, <1>2, <2>1, <2>2, <2>3, <2>4 DEF TypeOK, fvars, mvars, tvars, pvars, hvars
<1>8. RangeInv'
  BY <1>1, <1>2, RangeKept DEF tvars
<1>9. ListInv'
  <2>1. CASE Unregister(a)
    <3>1. ASSUME NEW h \in Group
          PROVE  /\ ListOK(groups'[h])
                 /\ \A b \in Admin : Contains(groups'[h].elts, b) =>
                      b # a /\ Contains(groups[h].elts, b)
      <4>1. groups'[h] = IF h = GroupOf(a) THEN RemoveEntry(groups[GroupOf(a)], a) ELSE groups[h]
        BY <1>1, <1>6, <2>1 DEF TypeOK
      <4>2. ListOK(groups[h])
        BY <1>1 DEF ListInv
      <4>3. Contains(groups[h].elts, a) => h = GroupOf(a)
        BY <1>1 DEF ListInv
      <4> QED
        BY <1>6, <2>1, <4>1, <4>2, <4>3
    <3>2. ASSUME NEW h \in Group, NEW b \in Admin, Contains(groups'[h].elts, b)
          PROVE  GroupOf(b) = h /\ (shutmedown' \/ Registered(b)')
      <4>1. b # a /\ GroupOf(b) = h /\ (shutmedown \/ Registered(b))
        BY <1>1, <3>1, <3>2 DEF ListInv
      <4> QED
        BY <1>2, <1>5, <4>1 DEF Registered
    <3>3. \A b \in Admin : b >= serial' => astate'[b] = "none"
      BY <1>1, <1>2, <1>3, <1>5 DEF ListInv
    <3>4. ASSUME NEW h \in Group PROVE ListOK(groups[h])'
      BY <3>1 DEF ListOK, List
    <3>5. ASSUME NEW h \in Group, NEW b \in Admin
          PROVE  Contains(groups[h].elts, b)' <=> Contains(groups'[h].elts, b)
      BY DEF Contains
    <3> QED
      BY <3>2, <3>3, <3>4, <3>5 DEF ListInv
  <2>2. CASE ~Unregister(a)
    <3>1. UNCHANGED <<groups, serial>>
      BY <1>2, <1>4, <2>2
    <3>2. \A b \in Admin : Registered(b) => Registered(b)' \/ shutmedown'
      BY <1>4, <1>5, <2>2 DEF Registered
    <3>3. \A b \in Admin : astate[b] = "none" => astate'[b] = "none"
      BY <1>3, <1>5
    <3> QED
      BY <1>1, <1>2, <3>1, <3>2, <3>3, ListKept
  <2> QED
    BY <2>1, <2>2
<1>10. ThreadInv'
  <2>1. \A b \in Admin : Registered(b) => Registered(b)' \/ shutmedown' \/ GroupFree(GroupOf(b))
    BY <1>4, <1>5, <1>6 DEF Registered
  <2>2. UNCHANGED <<cursor, tvars>>
    BY <1>2 DEF fvars
  <2> QED
    BY <1>1, <1>2, <2>1, <2>2, ThreadKept
<1> QED
  BY <1>7, <1>8, <1>9, <1>10 DEF DispatchInv

LEMMA DestroyChannelSteps ==
  ASSUME DispatchInv, Shutdown \/ DestroyChannel
  PROVE  DispatchInv'
<1> USE DEF Shutdown, DestroyChannel, Stopped, SetFinished, BroadcastEmpty,
            JoinThreads, DisposeAdmin, Destroyed, Destroying
<1>1. TypeOK /\ RangeInv /\ ListInv /\ ThreadInv
  BY DEF DispatchInv
<1>2. /\ UNCHANGED <<last, cursor, mvars, hasproxy, serial, pooled, pxq, tvars, pxdis, hvars>>
      /\ shutmedown'
  BY DEF Feed!Close, fvars, shutmedown
<1>3. TypeOK'
  <2>1. closed' \in BOOLEAN
    <3>1. closed' = TRUE \/ closed' = closed
      BY DEF fvars, Feed!Close
    <3>2. closed \in BOOLEAN
      BY <1>1 DEF TypeOK
    <3> QED
      BY <3>1, <3>2, Zenon
  <2>2. astate' \in [Admin -> AdminState]
    BY <1>1 DEF TypeOK, AdminState
  <2>3. groups' \in [Group -> [elts : Seq(Admin), nxt : Nat, mark : BOOLEAN]]
    <3>1. <<>> \in Seq(Admin)
      BY EmptySeq
    <3>2. groups' = groups \/ groups' = [h \in Group |-> [elts |-> <<>>, nxt |-> 0, mark |-> FALSE]]
      OBVIOUS
    <3>3. [elts |-> <<>>, nxt |-> 0, mark |-> FALSE]
            \in [elts : Seq(Admin), nxt : Nat, mark : BOOLEAN]
      BY <3>1
    <3>4. groups \in [Group -> [elts : Seq(Admin), nxt : Nat, mark : BOOLEAN]]
      BY <1>1 DEF TypeOK
    <3> QED
      BY <3>2, <3>3, <3>4, Zenon
  <2>4. ppc' \in [ProxyThread -> {"test", "towait", "asleep", "typemap", "admin", "exit"}]
    BY <1>1 DEF TypeOK
  <2>5. /\ chanlock' \in {"free", "client", "destroy"}
        /\ phase' \in {"open", "stopping", "stopped", "finished", "joining", "joined", "done"}
    BY <1>1 DEF TypeOK
  <2> QED
    BY <1>1, <1>2, <2>1, <2>2, <2>3, <2>4, <2>5 DEF TypeOK, mvars, tvars, hvars
<1>4. RangeInv'
  BY <1>1, <1>2, RangeKept DEF tvars
<1>5. ListInv'
  <2>1. \A b \in Admin : astate[b] = "none" => astate'[b] = "none"
    BY <1>1 DEF TypeOK
  <2>2. CASE JoinThreads
    <3>1. ASSUME NEW h \in Group
          PROVE  ListOK(groups[h])' /\ \A b \in Admin : ~Contains(groups[h].elts, b)'
      <4>1. groups'[h] = [elts |-> <<>>, nxt |-> 0, mark |-> FALSE]
        BY <2>2
      <4>2. <<>> \in Seq(Admin) /\ Len(<<>>) = 0
        BY EmptySeq
      <4> QED
        BY <4>1, <4>2 DEF ListOK, List, Contains
    <3> QED
      BY <1>1, <1>2, <2>1, <3>1 DEF ListInv
  <2>3. CASE ~JoinThreads
    <3>1. UNCHANGED <<groups, serial>>
      BY <1>2, <2>3
    <3> QED
      BY <1>1, <1>2, <2>1, <3>1, ListKept
  <2> QED
    BY <2>2, <2>3
<1>6. ThreadInv'
  BY <1>1, <1>2, ThreadKept
<1> QED
  BY <1>3, <1>4, <1>5, <1>6 DEF DispatchInv

LEMMA StutterStep == DispatchInv /\ UNCHANGED vars => DispatchInv'
<1> SUFFICES ASSUME DispatchInv, UNCHANGED vars PROVE DispatchInv'
  OBVIOUS
<1>1. TypeOK /\ RangeInv /\ ListInv /\ ThreadInv
  BY DEF DispatchInv
<1>2. UNCHANGED <<fvars, groups, mvars, avars, pooled, pxq, cvars, tvars, pvars, hvars>>
  BY DEF vars
<1>3. TypeOK'
  BY <1>1, <1>2 DEF TypeOK, fvars, mvars, avars, cvars, tvars, pvars, hvars
<1>4. RangeInv'
  BY <1>1, <1>2, RangeKept DEF tvars
<1>5. ListInv'
  BY <1>1, <1>2, ListKept DEF Registered, shutmedown, avars, cvars
<1>6. ThreadInv'
  BY <1>1, <1>2, ThreadKept DEF Registered, shutmedown, avars, cvars, fvars
<1> QED
  BY <1>3, <1>4, <1>5, <1>6 DEF DispatchInv

-----------------------------------------------------------------------------
(* The theorems                                                            *)

\* The inductive invariant: ranges, lists, threads.
THEOREM Invariance == Spec => []DispatchInv
<1>1. Init => DispatchInv
  BY InitInv
<1>2. DispatchInv /\ [Next]_vars => DispatchInv'
  <2> SUFFICES ASSUME DispatchInv, [Next]_vars PROVE DispatchInv'
    OBVIOUS
  <2>1. CASE Announce \/ \E a \in Admin : ObtainProxy(a)
    BY <2>1, ClientSteps
  <2>2. CASE NewForConsumers
    BY <2>2, NewForConsumersStep
  <2>3. ASSUME NEW a \in Admin, AdminDestroy(a) \/ DestroyAdmin(a) PROVE DispatchInv'
    BY <2>3, DestroyAdminSteps
  <2>4. ASSUME NEW t \in AdminThread, AdminDispatch(t) PROVE DispatchInv'
    <3>1. CASE ShutExit(t) \/ CallNextEvent(t) \/ NextEventNull(t) \/ LockTypeMap(t)
      BY <3>1, QuietThreadSteps
    <3>2. CASE OfferEvent(t) \/ QueueEvent(t)
      BY <3>2, OfferSteps
    <3> QED
      BY <2>4, <3>1, <3>2, AllocateRangeStep, NextEventStep, IterateGroupStep
         DEF AdminDispatch
  <2>5. ASSUME NEW p \in ProxyThread, ProxyDispatch(p) PROVE DispatchInv'
    BY <2>5, ProxyDispatchStep
  <2>6. CASE Shutdown \/ DestroyChannel
    BY <2>6, DestroyChannelSteps
  <2>7. CASE UNCHANGED vars
    BY <2>7, StutterStep
  <2> QED
    BY <2>1, <2>2, <2>3, <2>4, <2>5, <2>6, <2>7 DEF Next
<1> QED
  BY <1>1, <1>2, PTL DEF Spec

\* Every variable keeps its type; a range never leaves the groups.
THEOREM TypeCorrect == Spec => []TypeOK
<1>1. DispatchInv => TypeOK
  BY DEF DispatchInv
<1> QED
  BY <1>1, Invariance, PTL

\* Of the groups none is without a thread and none has two.
THEOREM ServedOnce == Spec => []GroupsServedOnce
<1>1. DispatchInv => GroupsServedOnce
  <2> SUFFICES ASSUME DispatchInv PROVE GroupsServedOnce
    OBVIOUS
  <2>1. TypeOK /\ RangeInv
    BY DEF DispatchInv
  <2>2. \A t \in AdminThread : lo[t] \in Group /\ hi[t] \in Group
    BY <2>1 DEF TypeOK
  <2>3. \A t, u \in AdminThread : t # u => Served(t) \cap Served(u) = {}
    <3> SUFFICES ASSUME NEW t \in AdminThread, NEW u \in AdminThread, t # u,
                        pc[t] # "start", pc[u] # "start"
                 PROVE  (lo[t]..hi[t]) \cap (lo[u]..hi[u]) = {}
      BY DEF Served
    <3>1. hi[t] < lo[u] \/ hi[u] < lo[t]
      BY <2>1 DEF RangeInv
    <3>2. lo[t] \in Int /\ hi[t] \in Int /\ lo[u] \in Int /\ hi[u] \in Int
      BY <2>2, DispatchAssumption DEF Group
    <3> QED
      BY <3>1, <3>2
  <2>4. ASSUME \A t \in AdminThread : pc[t] # "start"
        PROVE  Group = UNION {Served(t) : t \in AdminThread}
    <3>1. Starting = {}
      BY <2>4 DEF Starting
    <3>2. rmgrps = 0
      BY <2>1, <3>1, FS_EmptySet DEF RangeInv
    <3>3. nextgr = NumGroups
      BY <2>1, <3>2, DispatchAssumption DEF RangeInv, TypeOK
    <3>4. \A g \in Group : \E t \in AdminThread : g \in Served(t)
      BY <2>1, <3>3 DEF RangeInv, Served, Group
    <3>5. \A t \in AdminThread : \A g \in Served(t) : g \in Group
      BY <2>2, <2>4, DispatchAssumption DEF Served, Group
    <3> QED
      BY <3>4, <3>5
  <2> QED
    BY <2>3, <2>4 DEF GroupsServedOnce
<1> QED
  BY <1>1, Invariance, PTL

\* No admin thread of an open channel is about to lock a deleted admin.
THEOREM OfferedExists == Spec => []OfferedAdminExists
<1>1. DispatchInv => OfferedAdminExists
  BY DEF DispatchInv, ThreadInv, OfferedAdminExists, Registered
<1> QED
  BY <1>1, Invariance, PTL

-----------------------------------------------------------------------------
(* What the admins are given                                               *)

\* Has the iterator gone past the i-th element?
Passed(l, i) == l.mark \/ i <= l.nxt

\* An end marker is followed by the head of the list.
Turned(l) == l.mark => l.nxt = 0

\* An element put in comes last, and the iterator has yet to deliver it; what
\* it has delivered of the others stays delivered.
LEMMA InsertPlace ==
  ASSUME NEW l, ListOK(l), Turned(l), NEW a \in Admin
  PROVE  LET r == Insert(l, a) IN
         /\ Turned(r) /\ (r.mark \/ r.nxt # 0 => l.mark \/ l.nxt # 0)
         /\ Len(r.elts) = Len(l.elts) + 1 /\ r.elts[Len(l.elts) + 1] = a
         /\ \A i \in 1..Len(l.elts) :
              r.elts[i] = l.elts[i] /\ (Passed(r, i) <=> Passed(l, i))
<1> DEFINE r == Insert(l, a)
<1> USE DEF ListOK, List
<1>1. /\ r.elts \in Seq(Admin) /\ Len(r.elts) = Len(l.elts) + 1
      /\ \A i \in 1..Len(r.elts) :
           r.elts[i] = IF i <= Len(l.elts) THEN l.elts[i] ELSE a
  BY DEF Insert
<1>2. r.mark = FALSE /\ r.nxt = IF l.mark THEN Len(l.elts) ELSE l.nxt
  BY DEF Insert
<1>3. Len(l.elts) \in Nat /\ l.nxt \in Nat
  OBVIOUS
<1> HIDE DEF r
<1>4. \A i \in 1..Len(l.elts) :
        r.elts[i] = l.elts[i] /\ (Passed(r, i) <=> Passed(l, i))
  BY <1>1, <1>2, <1>3 DEF Passed
<1>5. Turned(r) /\ (r.mark \/ r.nxt # 0 => l.mark \/ l.nxt # 0)
  BY <1>2 DEF Turned
<1>6. r.elts[Len(l.elts) + 1] = a
  BY <1>1, <1>3
<1> QED
  BY <1>1, <1>4, <1>5, <1>6 DEF r

\* What is left when an element is removed has been delivered, or not, as before.
LEMMA RemovePlace ==
  ASSUME NEW l, ListOK(l), Turned(l), NEW a
  PROVE  LET r == RemoveEntry(l, a) IN
         /\ Turned(r) /\ (r.mark \/ r.nxt # 0 => l.mark \/ l.nxt # 0)
         /\ \A i \in 1..Len(r.elts) : \E j \in 1..Len(l.elts) :
              r.elts[i] = l.elts[j] /\ (Passed(r, i) <=> Passed(l, j))
<1> USE DEF ListOK, List
<1>1. CASE ~Contains(l.elts, a)
  BY <1>1 DEF RemoveEntry, Contains
<1>2. CASE Contains(l.elts, a)
  <2> DEFINE i == IndexOf(l, a)  r == RemoveIdx(l, i)  n == Len(l.elts)
  <2>1. i \in 0..(n - 1)
    <3>1. PICK j \in 1..n : l.elts[j] = a
      BY <1>2 DEF Contains
    <3>2. j - 1 \in 0..(n - 1) /\ (j - 1) + 1 = j
      OBVIOUS
    <3>3. \E k \in 0..(n - 1) : l.elts[k + 1] = a
      BY <3>1, <3>2
    <3> QED
      BY <3>3 DEF IndexOf
  <2> HIDE DEF i
  <2>2. i + 1 \in 1..n /\ l.elts \in Seq(Admin) /\ n \in Nat /\ l.nxt \in Nat
    BY <2>1
  <2>3. /\ r.elts = RemoveAt(l.elts, i + 1)
        /\ r.nxt = IF l.nxt > i THEN l.nxt - 1
                   ELSE IF l.nxt <= i /\ l.nxt = n - 1 THEN 0 ELSE l.nxt
        /\ r.mark <=> l.mark \/ (l.nxt <= i /\ l.nxt = n - 1 /\ n - 1 # 0)
    BY DEF RemoveIdx
  <2> HIDE DEF r
  <2>4. /\ Len(r.elts) = n - 1
        /\ \A j \in 1..(n - 1) :
             r.elts[j] = IF j < i + 1 THEN l.elts[j] ELSE l.elts[j + 1]
    <3>1. /\ Len(RemoveAt(l.elts, i + 1)) = n - 1
          /\ \A j \in 1..(n - 1) : RemoveAt(l.elts, i + 1)[j] =
               IF j < i + 1 THEN l.elts[j] ELSE l.elts[j + 1]
      BY <2>2, RemoveElement, Zenon
    <3> QED
      BY <2>3, <3>1
  <2>5. Turned(r) /\ (r.mark \/ r.nxt # 0 => l.mark \/ l.nxt # 0)
    <3>1. i \in Nat /\ (l.mark => l.nxt = 0)
      BY <2>1, <2>2 DEF Turned
    <3>2. r.mark => r.nxt = 0
      BY <2>2, <2>3, <3>1
    <3>3. ASSUME r.mark, ~l.mark PROVE l.nxt # 0
      BY <2>2, <2>3, <3>3
    <3>4. ASSUME r.nxt # 0 PROVE l.nxt # 0
      BY <2>2, <2>3, <3>1, <3>4
    <3> QED
      BY <3>2, <3>3, <3>4, Zenon DEF Turned
  <2>6. ASSUME NEW j \in 1..(n - 1)
        PROVE  \E k \in 1..n : r.elts[j] = l.elts[k] /\ (Passed(r, j) <=> Passed(l, k))
    <3> DEFINE k == IF j < i + 1 THEN j ELSE j + 1
    <3>1. k \in 1..n /\ r.elts[j] = l.elts[k]
      BY <2>2, <2>4
    <3>2. Passed(r, j) <=> Passed(l, k)
      BY <2>1, <2>2, <2>3 DEF Passed, Turned
    <3> QED
      BY <3>1, <3>2
  <2>7. RemoveEntry(l, a) = r
    BY <1>2 DEF RemoveEntry, i, r
  <2> QED
    BY <2>4, <2>5, <2>6, <2>7
<1> QED
  BY <1>1, <1>2

\* The iterator delivers the first element it has not gone past and, past the
\* last one, starts again.
LEMMA IteratePlace ==
  ASSUME NEW l, ListOK(l), Turned(l)
  PROVE  LET r == IterNext(l)  v == IterValue(l) IN
         /\ r.elts = l.elts /\ Turned(r)
         /\ v # NoAdmin => \E k \in 1..Len(l.elts) :
              /\ l.elts[k] = v /\ ~Passed(l, k) /\ Passed(r, k)
              /\ \A i \in 1..Len(l.elts) : i # k => (Passed(r, i) <=> Passed(l, i))
         /\ v = NoAdmin =>
              ~r.mark /\ r.nxt = 0 /\ \A i \in 1..Len(l.elts) : Passed(l, i)
<1> USE DEF ListOK, List
<1> DEFINE r == IterNext(l)  v == IterValue(l)  n == Len(l.elts)
<1>1. CASE l.mark
  <2>1. v = NoAdmin /\ r = [l EXCEPT !.mark = FALSE]
    BY <1>1 DEF IterNext, IterValue
  <2>2. r.elts = l.elts /\ ~r.mark /\ r.nxt = 0
    BY <1>1, <2>1 DEF Turned
  <2> QED
    BY <1>1, <2>1, <2>2 DEF Passed, Turned
<1>2. CASE ~l.mark /\ l.elts = <<>>
  <2>1. v = NoAdmin /\ r = l /\ n = 0 /\ l.nxt = 0
    BY <1>2 DEF IterNext, IterValue
  <2> QED
    BY <1>2, <2>1 DEF Turned
<1>3. CASE ~l.mark /\ l.elts # <<>>
  <2>1. n \in Nat /\ n >= 1 /\ l.nxt + 1 \in 1..n /\ l.nxt \in Nat
    BY <1>3, EmptySeq
  <2>2. v = l.elts[l.nxt + 1]
    BY <1>3 DEF IterValue
  <2>3. v \in Admin
    BY <2>1, <2>2, ElementOfSeq
  <2>4. v # NoAdmin
    BY <2>3, DispatchAssumption DEF Admin, NoAdmin
  <2> DEFINE k == (l.nxt + 1) % n
  <2>5. k = IF l.nxt + 1 = n THEN 0 ELSE l.nxt + 1
    BY SMTT(30), <2>1
  <2>6. r = [l EXCEPT !.nxt = k, !.mark = (k = 0)]
    BY <1>3 DEF IterNext
  <2> HIDE DEF k
  <2>7. r.elts = l.elts /\ r.nxt = k /\ (r.mark <=> k = 0)
    BY <2>6
  <2> HIDE DEF r, v
  <2>8. Turned(r) /\ ~Passed(l, l.nxt + 1) /\ Passed(r, l.nxt + 1)
    BY <1>3, <2>1, <2>5, <2>7 DEF Turned, Passed
  <2>9. \A i \in 1..n : i # l.nxt + 1 => (Passed(r, i) <=> Passed(l, i))
    BY <1>3, <2>1, <2>5, <2>7 DEF Passed
  <2> QED
    BY <2>1, <2>2, <2>4, <2>7, <2>8, <2>9 DEF r, v
<1> QED
  BY <1>1, <1>2, <1>3

Working == {"group", "list", "admin", "queue"}
AtWork(g) == \E t \in AdminThread : pc[t] \in Working /\ ix[t] = g

\* Has thread t, in its pass with the event it got last, gone past the i-th
\* admin of group g?
Seen(t, g, i) == pc[t] \notin Working \/ g < ix[t] \/ (g = ix[t] /\ Passed(groups[g], i))

\* An admin has been given nothing yet, or event e last.
Latest(a, e) == given[a] = 0 \/ given[a] = e

\* What a thread is about to offer comes next for the admin it has found; an
\* admin that has been given an event has proxies until they are disposed of.
OfferInv ==
  /\ closed => shutmedown
  /\ \A t \in AdminThread :
       /\ cursor[t] <= last
       /\ pc[t] = "exit" => shutmedown
       /\ pc[t] = "start" => cursor[t] = 0
       /\ pc[t] \in {"admin", "queue"} => GroupOf(adm[t]) = ix[t]
       /\ pc[t] = "admin" => Latest(adm[t], cursor[t] - 1)
  /\ \A a \in Admin :
       /\ given[a] # 0 /\ ~hasproxy[a] => astate[a] \in {"cleared", "gone"}
       /\ astate[a] = "none" => ~hasproxy[a]

\* In an open channel a list's iterator moves only while a thread works on the
\* list, and the admins of a thread's groups are one event behind it until it
\* has gone past them.
Due(t, g, i) == IF Seen(t, g, i) THEN cursor[t] ELSE cursor[t] - 1
Placed(g, i) ==
  /\ given[groups[g].elts[i]] # 0 => \E t \in AdminThread : g \in Served(t)
  /\ \A t \in AdminThread : pc[t] = "admin" /\ adm[t] = groups[g].elts[i] => Seen(t, g, i)
  /\ \A t \in AdminThread : g \in Served(t) =>
       \/ pc[t] = "admin" /\ adm[t] = groups[g].elts[i]
       \/ Latest(groups[g].elts[i], Due(t, g, i))
RoundAt(g) ==
  /\ Turned(groups[g])
  /\ groups[g].mark \/ groups[g].nxt # 0 => AtWork(g)
  /\ \A i \in 1..Len(groups[g].elts) : Placed(g, i)
RoundInv == ~shutmedown => \A g \in Group : RoundAt(g)

\* The events on their way to the proxies of admin a: in the hand of a proxy
\* thread, in the queue, or about to be put into it.
Carrying == {p \in ProxyThread : ppc[p] \in {"typemap", "admin"}}
Pending(a, x) ==
  \/ \E p \in Carrying : pxdis[p].admin = a /\ pxdis[p].event = x
  \/ \E i \in 1..Len(pxq) : pxq[i].admin = a /\ pxq[i].event = x
  \/ \E t \in AdminThread : pc[t] = "queue" /\ adm[t] = a /\ cursor[t] = x

\* One proxy thread has an event in hand, and the events of an admin are on
\* their way in order.
LineInv ==
  /\ \A p, q \in Carrying : p = q
  /\ \A p \in Carrying : pxdis[p].admin \in Admin /\ pxdis[p].event \in Event
  /\ \A p \in Carrying : \A i \in 1..Len(pxq) :
       pxdis[p].admin = pxq[i].admin => pxdis[p].event < pxq[i].event
  /\ \A i, j \in 1..Len(pxq) :
       i < j /\ pxq[i].admin = pxq[j].admin => pxq[i].event < pxq[j].event
  /\ \A t \in AdminThread : pc[t] = "queue" =>
       /\ given[adm[t]] = cursor[t]
       /\ \A i \in 1..Len(pxq) : pxq[i].admin = adm[t] => pxq[i].event < cursor[t]
       /\ \A p \in Carrying : pxdis[p].admin = adm[t] => pxdis[p].event < cursor[t]
  /\ ~pooled => \A a \in Admin : \A x \in Event : ~Pending(a, x)

\* What is on its way is meant for the admin, has been given to it and has not
\* been matched before.
CarryInv ==
  /\ \A a \in Admin : matched[a] <= given[a] /\ given[a] <= last
  /\ \A a \in Admin : \A x \in Event :
       Pending(a, x) => x \in Meant[a] /\ matched[a] < x /\ x <= given[a]

\* Nothing is missing on the way: what is meant for an admin with proxies, comes
\* behind an event that is on its way or has been matched, and before another
\* one or has been given to the admin, is on its way too.  After a shutdown the
\* end may be missing.
Open(a) == ~shutmedown \/ \E t \in AdminThread : pc[t] = "admin" /\ adm[t] = a
Alive(a) == hasproxy[a] /\ astate[a] # "gone"
Begun(a, b) == Pending(a, b) \/ b = matched[a]
Ahead(a, d) == \/ d <= given[a] /\ Open(a)
               \/ \E x \in Event : Pending(a, x) /\ d < x
GapInv ==
  \A a \in Admin : Alive(a) =>
    \A b \in Event : \A d \in Meant[a] :
      Begun(a, b) /\ b < d /\ Ahead(a, d) => Pending(a, d)

LineParts == LineInv /\ CarryInv /\ GapInv
FeedInv   == OfferInv /\ RoundInv /\ LineParts

LEMMA InitFeedInv == Init => FeedInv
<1> SUFFICES ASSUME Init PROVE FeedInv
  OBVIOUS
<1>1. MaxEvents \in Nat /\ \A x \in Event : x \in Nat /\ x # 0
  BY DispatchAssumption DEF Event
<1>2. /\ last = 0 /\ cursor = [c \in AdminThread |-> 0] /\ closed = FALSE
  BY Zenon DEF Init, Feed!Init
<1>3. /\ \A t \in AdminThread : pc[t] = "start"
      /\ \A p \in ProxyThread : ppc[p] = "test" \/ ppc[p] = "exit"
      /\ pxq = <<>> /\ Len(pxq) = 0
      /\ \A a \in Admin : given[a] = 0 /\ matched[a] = 0 /\ hasproxy[a] = FALSE
      /\ \A g \in Group : groups[g].nxt = 0 /\ groups[g].mark = FALSE
      /\ phase = "open"
  BY EmptySeq DEF Init
<1>4. OfferInv
  BY <1>2, <1>3 DEF OfferInv
<1>5. RoundInv
  <2> SUFFICES ASSUME NEW g \in Group, NEW i \in 1..Len(groups[g].elts)
               PROVE  given[groups[g].elts[i]] = 0
    BY <1>3 DEF RoundInv, RoundAt, Placed, Served, Turned
  <2>1. ListOK(groups[g])
    BY InitInv DEF DispatchInv, ListInv
  <2>2. groups[g].elts[i] \in Admin
    BY <2>1, ElementOfSeq DEF ListOK, List
  <2> QED
    BY <1>3, <2>2
<1>6. Carrying = {} /\ \A a \in Admin : \A x \in Event : ~Pending(a, x)
  BY <1>3 DEF Carrying, Pending
<1>7. LineInv
  BY <1>3, <1>6 DEF LineInv
<1>8. CarryInv
  BY <1>2, <1>3, <1>6 DEF CarryInv
<1>9. GapInv
  BY <1>1, <1>3, <1>6 DEF GapInv, Begun
<1> QED
  BY <1>4, <1>5, <1>7, <1>8, <1>9 DEF FeedInv, LineParts

-----------------------------------------------------------------------------
(* The way to the proxies                                                  *)

\* Nothing is put into the line of events or taken from it.
LEMMA LineKept ==
  ASSUME TypeOK, LineParts, UNCHANGED <<pxq, pxdis, pooled, hvars>>,
         Carrying' = Carrying, last <= last', last' \in Nat,
         \A t \in AdminThread : pc'[t] = "queue" <=> pc[t] = "queue",
         \A t \in AdminThread : pc[t] = "queue" => adm'[t] = adm[t] /\ cursor'[t] = cursor[t],
         \A a \in Admin : Open(a)' => Open(a),
         \A a \in Admin : Alive(a)' => Alive(a) \/ given[a] = 0
  PROVE  LineParts'
<1>1. LineInv /\ CarryInv /\ GapInv
  BY DEF LineParts
<1>2. /\ MaxEvents \in Nat /\ \A x \in Event : x \in Nat /\ x # 0
      /\ \A a \in Admin : Meant[a] \subseteq Event
  BY DispatchAssumption DEF Event
<1>3. \A a, x : Pending(a, x)' <=> Pending(a, x)
  BY DEF Pending
<1>4. LineInv'
  BY <1>1, <1>3 DEF LineInv, hvars
<1>5. CarryInv'
  BY <1>1, <1>3 DEF CarryInv, hvars, TypeOK
<1>6. GapInv'
  <2> SUFFICES ASSUME NEW a \in Admin, Alive(a)',
                      NEW b \in Event, NEW d \in Meant[a], Begun(a, b)', b < d, Ahead(a, d)'
               PROVE  Pending(a, d)
    BY <1>3 DEF GapInv
  <2>1. Begun(a, b) /\ Ahead(a, d)
    BY <1>3 DEF Begun, Ahead, hvars
  <2>2. CASE Alive(a)
    BY <1>1, <2>1, <2>2 DEF GapInv
  <2>3. CASE given[a] = 0
    BY <1>1, <1>2, <2>1, <2>3 DEF CarryInv, Begun, TypeOK
  <2> QED
    BY <2>2, <2>3
<1> QED
  BY <1>4, <1>5, <1>6 DEF LineParts

\* A group is worked on by one thread.
LEMMA OneServer ==
  ASSUME DispatchInv, NEW t \in AdminThread, NEW u \in AdminThread,
         pc[t] \in Working, pc[u] \in Working, ix[t] = ix[u]
  PROVE  t = u
<1>1. /\ ix[t] \in lo[t]..hi[t] /\ ix[t] \in lo[u]..hi[u]
      /\ pc[t] # "start" /\ pc[u] # "start"
  BY DEF DispatchInv, ThreadInv, Working
<1>2. t # u => hi[t] < lo[u] \/ hi[u] < lo[t]
  BY <1>1 DEF DispatchInv, RangeInv
<1>3. lo[t] \in Int /\ hi[t] \in Int /\ lo[u] \in Int /\ hi[u] \in Int
  BY DispatchAssumption DEF DispatchInv, TypeOK, Group
<1> QED
  BY <1>1, <1>2, <1>3

LEMMA QueueElement ==
  ASSUME TypeOK
  PROVE  \A i \in 1..Len(pxq) : pxq[i].event \in Event /\ pxq[i].admin \in Admin
<1>1. pxq \in Seq([event : Event, admin : Admin])
  BY DEF TypeOK
<1>2. \A i \in 1..Len(pxq) : pxq[i] \in [event : Event, admin : Admin]
  BY <1>1, ElementOfSeq
<1> QED
  BY <1>2

\* A shutdown stops a thread that was about to put an event into the queue.
LEMMA ShutExitLine ==
  ASSUME DispatchInv, FeedInv, NEW t \in AdminThread, ShutExit(t), pc[t] = "queue"
  PROVE  LineParts'
<1>1. TypeOK /\ LineInv /\ CarryInv /\ GapInv /\ OfferInv
  BY DEF DispatchInv, FeedInv, LineParts
<1>2. /\ MaxEvents \in Nat /\ \A x \in Event : x \in Nat /\ x # 0
      /\ \A b \in Admin : Meant[b] \subseteq Event
  BY DispatchAssumption DEF Event
<1>3. /\ shutmedown /\ shutmedown' /\ pc' = [pc EXCEPT ![t] = "exit"]
      /\ UNCHANGED <<pxq, pxdis, ppc, pooled, given, matched, adm, cursor, last, hasproxy, astate>>
  BY DEF ShutExit, Goto, AdminThreadOnly, fvars, avars, cvars, pvars, hvars, shutmedown
<1>4. \A u \in AdminThread : pc'[u] = IF u = t THEN "exit" ELSE pc[u]
  BY <1>1, <1>3 DEF TypeOK
<1>5. Carrying' = Carrying
  BY <1>3 DEF Carrying
<1>6. \A a, x : Pending(a, x)' => Pending(a, x)
  BY <1>3, <1>4, <1>5 DEF Pending
<1>7. \A a, x : Pending(a, x) => Pending(a, x)' \/ (a = adm[t] /\ x = cursor[t])
  BY <1>3, <1>4, <1>5 DEF Pending
<1>8. LineInv'
  BY <1>1, <1>3, <1>4, <1>5, <1>6 DEF LineInv
<1>9. CarryInv'
  BY <1>1, <1>3, <1>6 DEF CarryInv
<1>10. GapInv'
  <2> SUFFICES ASSUME NEW a \in Admin, Alive(a)',
                      NEW b \in Event, NEW d \in Meant[a], Begun(a, b)', b < d, Ahead(a, d)'
               PROVE  Pending(a, d)'
    BY DEF GapInv
  <2>1. ~Open(a)' \/ a # adm[t]
    <3> SUFFICES ASSUME NEW u \in AdminThread, pc'[u] = "admin", adm'[u] = adm[t]
                 PROVE  FALSE
      BY <1>3 DEF Open
    <3>1. pc[u] = "admin" /\ adm[u] = adm[t]
      BY <1>3, <1>4
    <3>2. ix[u] = ix[t]
      BY <1>1, <3>1 DEF OfferInv
    <3>3. u = t
      BY <3>1, <3>2, OneServer DEF Working
    <3> QED
      BY <3>1, <3>3
  <2>2. Begun(a, b) /\ Alive(a) /\ Ahead(a, d)
    BY <1>3, <1>4, <1>6 DEF Begun, Alive, Ahead, Open
  <2>3. Pending(a, d)
    BY <1>1, <2>2 DEF GapInv
  <2>4. a = adm[t] => \E x \in Event : Pending(a, x)' /\ d < x
    BY <1>3, <2>1 DEF Ahead
  <2>5. \A x \in Event : Pending(a, x)' => x <= given[a]
    BY <1>1, <1>6 DEF CarryInv
  <2>6. a = adm[t] => given[a] = cursor[t]
    BY <1>1 DEF LineInv
  <2>7. given[a] \in Nat /\ d \in Nat
    <3>1. given[a] \in 0..MaxEvents
      BY <1>1 DEF TypeOK
    <3>2. d \in Event
      BY <1>2
    <3> QED
      BY <1>2, <3>1, <3>2
  <2>8. a = adm[t] => d # cursor[t]
    <3> SUFFICES ASSUME a = adm[t] PROVE d # cursor[t]
      OBVIOUS
    <3>1. PICK x \in Event : Pending(a, x)' /\ d < x
      BY <2>4
    <3>2. x <= given[a] /\ x \in Nat
      BY <1>2, <2>5, <3>1
    <3> QED
      BY <2>6, <2>7, <3>1, <3>2
  <2> QED
    BY <1>7, <2>3, <2>8
<1> QED
  BY <1>8, <1>9, <1>10 DEF LineParts

\* The event is given to the admin's CosEvent proxies, and to the others or to
\* the end of the line.
LEMMA OfferEventLine ==
  ASSUME DispatchInv, FeedInv, NEW t \in AdminThread, OfferEvent(t)
  PROVE  LineParts'
<1> DEFINE a == adm[t]  e == cursor[t]
<1>1. TypeOK /\ ThreadInv /\ LineInv /\ CarryInv /\ GapInv /\ OfferInv
  BY DEF DispatchInv, FeedInv, LineParts
<1>2. /\ MaxEvents \in Nat /\ \A x \in Event : x \in Nat /\ x # 0
      /\ \A b \in Admin : Meant[b] \subseteq Event
  BY DispatchAssumption DEF Event
<1>3. /\ pc[t] = "admin" /\ (shutmedown' <=> shutmedown)
      /\ UNCHANGED <<pxq, pxdis, ppc, pooled, adm, cursor, last, hasproxy, astate>>
  BY DEF OfferEvent, AdminThreadOnly, fvars, avars, cvars, pvars, shutmedown
<1>4. Carrying' = Carrying
  BY <1>3 DEF Carrying
<1>5. a \in Admin /\ e \in Event /\ e <= last /\ Latest(a, e - 1)
  BY SMTT(30), <1>1, <1>3, DispatchAssumption DEF TypeOK, ThreadInv, OfferInv, Event
<1>6. \A c \in Admin : given[c] \in Nat /\ matched[c] \in Nat /\ matched[c] <= given[c]
  BY <1>1 DEF TypeOK, CarryInv
<1>7. last \in Nat
  BY <1>1 DEF TypeOK
<1>8. CASE pc' = [pc EXCEPT ![t] = "group"] /\ UNCHANGED hvars
  <2>1. \A u \in AdminThread : pc'[u] = IF u = t THEN "group" ELSE pc[u]
    BY <1>1, <1>8 DEF TypeOK
  <2>2. \A c \in Admin : Open(c)' => Open(c)
    BY <1>3, <2>1 DEF Open
  <2>3. \A u \in AdminThread : pc'[u] = "queue" <=> pc[u] = "queue"
    BY <1>3, <2>1
  <2>4. \A c \in Admin : Alive(c)' => Alive(c)
    BY <1>3 DEF Alive
  <2> HIDE DEF a, e
  <2> QED
    BY <1>1, <1>3, <1>4, <1>7, <1>8, <2>2, <2>3, <2>4, LineKept DEF LineParts
<1>9. CASE ~(astate[a] = "gone" \/ ~hasproxy[a])
  <2>1. /\ given' = [given EXCEPT ![a] = e]
        /\ matched' = IF e \in Meant[a] /\ ~pooled THEN [matched EXCEPT ![a] = e] ELSE matched
        /\ pc' = [pc EXCEPT ![t] = IF e \in Meant[a] /\ pooled THEN "queue" ELSE "group"]
    BY <1>9 DEF OfferEvent, Goto
  <2>2. Alive(a) /\ Open(a)
    BY <1>3, <1>9 DEF Alive, Open
  <2> HIDE DEF a, e
  <2>3. \A c \in Admin : given'[c] = IF c = a THEN e ELSE given[c]
    BY <1>1, <2>1 DEF TypeOK
  <2>4. \A c \in Admin : matched'[c] = IF c = a /\ e \in Meant[a] /\ ~pooled THEN e ELSE matched[c]
    BY <1>1, <2>1 DEF TypeOK
  <2>5. \A u \in AdminThread :
          pc'[u] = IF u # t THEN pc[u] ELSE IF e \in Meant[a] /\ pooled THEN "queue" ELSE "group"
    BY <1>1, <2>1 DEF TypeOK
  <2>6. \A c, x : Pending(c, x)' <=>
          Pending(c, x) \/ (c = a /\ x = e /\ e \in Meant[a] /\ pooled)
    <3> TAKE c, x
    <3>1. (\E u \in AdminThread : pc'[u] = "queue" /\ adm[u] = c /\ cursor[u] = x) <=>
            \/ \E u \in AdminThread : pc[u] = "queue" /\ adm[u] = c /\ cursor[u] = x
            \/ (c = a /\ x = e /\ e \in Meant[a] /\ pooled)
      BY <1>3, <2>5 DEF a, e
    <3> QED
      BY <1>3, <1>4, <3>1 DEF Pending
  <2>7. \A x \in Event : Pending(a, x) => x < e /\ given[a] = e - 1
    BY <1>1, <1>2, <1>5, <1>6 DEF CarryInv, Latest
  <2>8. LineInv'
    <3>1. \A p \in Carrying : pxdis[p].admin = a => Pending(a, pxdis[p].event)
      BY DEF Pending
    <3>2. \A i \in 1..Len(pxq) : pxq[i].admin = a => Pending(a, pxq[i].event)
      BY DEF Pending
    <3>3. \A i \in 1..Len(pxq) : pxq[i].event \in Event
      BY <1>1, QueueElement
    <3>4. \A p \in Carrying : pxdis[p].admin = a => pxdis[p].event < e
      BY <1>1, <2>7, <3>1 DEF LineInv
    <3>5. \A i \in 1..Len(pxq) : pxq[i].admin = a => pxq[i].event < e
      BY <2>7, <3>2, <3>3
    <3>6. ASSUME NEW u \in AdminThread, pc'[u] = "queue"
          PROVE  /\ given'[adm[u]] = cursor[u]
                 /\ \A i \in 1..Len(pxq) : pxq[i].admin = adm[u] => pxq[i].event < cursor[u]
                 /\ \A p \in Carrying : pxdis[p].admin = adm[u] => pxdis[p].event < cursor[u]
      <4>1. CASE u = t
        BY <1>5, <2>3, <3>4, <3>5, <4>1 DEF a, e
      <4>2. CASE u # t
        <5>1. pc[u] = "queue"
          BY <2>5, <3>6, <4>2
        <5>2. adm[u] # a
          BY <1>1, <1>3, <4>2, <5>1, OneServer DEF OfferInv, Working, a
        <5>3. adm[u] \in Admin
          BY <1>1, <5>1 DEF TypeOK, ThreadInv
        <5> QED
          BY <1>1, <2>3, <5>1, <5>2, <5>3 DEF LineInv
      <4> QED
        BY <4>1, <4>2
    <3>7. ~pooled => \A c \in Admin : \A x \in Event : ~Pending(c, x)'
      BY <1>1, <2>6 DEF LineInv
    <3> QED
      BY <1>1, <1>3, <1>4, <3>6, <3>7 DEF LineInv
  <2>9. CarryInv'
    <3>1. ASSUME NEW c \in Admin PROVE matched'[c] <= given'[c] /\ given'[c] <= last'
      BY <1>1, <1>2, <1>3, <1>5, <1>6, <2>3, <2>4 DEF CarryInv, Latest
    <3>2. ASSUME NEW c \in Admin, NEW x \in Event, Pending(c, x)'
          PROVE  x \in Meant[c] /\ matched'[c] < x /\ x <= given'[c]
      <4>1. CASE Pending(c, x)
        <5>1. x \in Meant[c] /\ matched[c] < x /\ x <= given[c] /\ pooled
          BY <1>1, <4>1 DEF CarryInv, LineInv
        <5>2. c = a => x < e
          BY <2>7, <4>1
        <5> QED
          BY <1>2, <1>5, <2>3, <2>4, <5>1, <5>2
      <4>2. CASE c = a /\ x = e /\ e \in Meant[a] /\ pooled
        BY <1>2, <1>5, <1>6, <2>3, <2>4, <4>2 DEF Latest
      <4> QED
        BY <2>6, <3>2, <4>1, <4>2
    <3> QED
      BY <3>1, <3>2 DEF CarryInv
  <2>10. GapInv'
    <3> SUFFICES ASSUME NEW c \in Admin, Alive(c)',
                        NEW b \in Event, NEW d \in Meant[c], Begun(c, b)', b < d, Ahead(c, d)'
                 PROVE  Pending(c, d)'
      BY DEF GapInv
    <3>1. Alive(c) /\ d \in Event
      BY <1>2, <1>3 DEF Alive
    <3>2. Open(c)' => Open(c)
      BY <1>3, <2>5 DEF Open
    <3>3. CASE c # a
      <4>1. Begun(c, b) /\ Ahead(c, d)
        BY <2>3, <2>4, <2>6, <3>2, <3>3 DEF Begun, Ahead
      <4> QED
        BY <1>1, <2>6, <3>1, <4>1 DEF GapInv
    <3>4. CASE c = a
      <4>1. d <= e
        <5>1. CASE d <= given'[a]
          BY <1>5, <2>3, <5>1
        <5>2. ASSUME NEW x \in Event, Pending(c, x)', d < x PROVE d <= e
          <6>1. x <= e
            BY <1>2, <1>5, <2>6, <2>7, <3>4, <5>2
          <6> QED
            BY <1>2, <1>5, <3>1, <5>2, <6>1
        <5> QED
          BY <3>4, <5>1, <5>2 DEF Ahead
      <4>2. b < e
        BY <1>2, <1>5, <3>1, <4>1
      <4>3. Begun(a, b)
        BY <2>4, <2>6, <3>4, <4>2, <1>2, <1>5 DEF Begun
      <4>4. given[a] = e - 1
        BY <1>1, <1>2, <1>5, <1>6, <2>7, <4>3 DEF Begun, Latest
      <4>5. CASE d = e
        <5>1. pooled
          <6>1. CASE Pending(c, b)'
            BY <1>1, <2>6, <6>1 DEF LineInv
          <6>2. CASE b = matched'[c] /\ ~pooled
            BY <1>2, <1>5, <2>4, <3>4, <4>2, <4>5, <6>2
          <6> QED
            BY <6>1, <6>2 DEF Begun
        <5> QED
          BY <2>6, <3>4, <4>5, <5>1
      <4>6. CASE d # e
        <5>1. Ahead(a, d)
          BY <1>2, <1>5, <2>2, <3>1, <4>1, <4>4, <4>6 DEF Ahead
        <5> QED
          BY <1>1, <2>2, <2>6, <3>4, <4>3, <5>1 DEF GapInv
      <4> QED
        BY <4>5, <4>6
    <3> QED
      BY <3>3, <3>4
  <2> QED
    BY <2>8, <2>9, <2>10 DEF LineParts
<1> QED
  BY <1>8, <1>9 DEF OfferEvent, Goto

\* Where the line changes without anything coming or going.
LEMMA SameLine ==
  ASSUME TypeOK, LineParts, UNCHANGED <<last, pooled, hvars, hasproxy, astate>>,
         \A a, x : Pending(a, x)' <=> Pending(a, x),
         \A a \in Admin : Open(a)' => Open(a)
  PROVE  CarryInv' /\ GapInv'
<1>1. CarryInv /\ GapInv
  BY DEF LineParts
<1>2. CarryInv'
  BY <1>1 DEF CarryInv, hvars
<1>3. GapInv'
  <2> SUFFICES ASSUME NEW a \in Admin, Alive(a)',
                      NEW b \in Event, NEW d \in Meant[a], Begun(a, b)', b < d, Ahead(a, d)'
               PROVE  Pending(a, d)
    BY DEF GapInv
  <2>1. Alive(a) /\ Begun(a, b) /\ Ahead(a, d)
    BY DEF Alive, Begun, Ahead, hvars
  <2> QED
    BY <1>1, <2>1 DEF GapInv
<1> QED
  BY <1>2, <1>3

LEMMA QueueEventLine ==
  ASSUME DispatchInv, FeedInv, NEW t \in AdminThread, QueueEvent(t)
  PROVE  LineParts'
<1> DEFINE r == [event |-> cursor[t], admin |-> adm[t]]
<1>1. TypeOK /\ ThreadInv /\ LineInv /\ OfferInv /\ LineParts
  BY DEF DispatchInv, FeedInv, LineParts
<1>2. /\ pc[t] = "queue" /\ pc' = [pc EXCEPT ![t] = "group"] /\ (shutmedown' <=> shutmedown)
      /\ pxq' = Append(pxq, r)
      /\ ppc' = [p \in ProxyThread |-> IF ppc[p] = "asleep" THEN "test" ELSE ppc[p]]
      /\ UNCHANGED <<pxdis, pooled, hvars, adm, cursor, last, hasproxy, astate>>
  BY DEF QueueEvent, Goto, fvars, avars, cvars, pvars, shutmedown
<1>3. Carrying' = Carrying
  BY <1>2 DEF Carrying
<1>4. \A u \in AdminThread : pc'[u] = IF u = t THEN "group" ELSE pc[u]
  BY <1>1, <1>2 DEF TypeOK
<1>5. cursor[t] \in Event /\ adm[t] \in Admin
  BY <1>1, <1>2, DispatchAssumption DEF TypeOK, ThreadInv, Event
<1>6. /\ Len(pxq) \in Nat /\ Len(pxq') = Len(pxq) + 1
      /\ \A i \in 1..Len(pxq) : pxq'[i] = pxq[i]
      /\ pxq'[Len(pxq) + 1] = r
  <2>1. pxq \in Seq([event : Event, admin : Admin]) /\ r \in [event : Event, admin : Admin]
    BY <1>1, <1>5 DEF TypeOK
  <2> HIDE DEF r
  <2> QED
    BY <1>2, <2>1, AppendProperties, LenProperties
<1>7. r.event = cursor[t] /\ r.admin = adm[t]
  OBVIOUS
<1> HIDE DEF r
<1>8. \A i \in 1..Len(pxq') : i \in 1..Len(pxq) \/ i = Len(pxq) + 1
  BY <1>6
<1>9. ASSUME NEW a, NEW x PROVE Pending(a, x)' <=> Pending(a, x)
  <2>1. (\E i \in 1..Len(pxq') : pxq'[i].admin = a /\ pxq'[i].event = x) <=>
          \/ \E i \in 1..Len(pxq) : pxq[i].admin = a /\ pxq[i].event = x
          \/ a = adm[t] /\ x = cursor[t]
    BY <1>6, <1>7, <1>8
  <2>2. (\E u \in AdminThread : pc[u] = "queue" /\ adm[u] = a /\ cursor[u] = x) <=>
          \/ \E u \in AdminThread : pc'[u] = "queue" /\ adm[u] = a /\ cursor[u] = x
          \/ a = adm[t] /\ x = cursor[t]
    BY <1>2, <1>4
  <2> QED
    BY <1>2, <1>3, <2>1, <2>2 DEF Pending
<1>10. \A a \in Admin : Open(a)' => Open(a)
  BY <1>2, <1>4 DEF Open
<1>11. LineInv'
  <2>1. \A p \in Carrying : pxdis[p].admin = r.admin => pxdis[p].event < r.event
    BY <1>1, <1>2, <1>7 DEF LineInv
  <2>2. \A i \in 1..Len(pxq) : pxq[i].admin = r.admin => pxq[i].event < r.event
    BY <1>1, <1>2, <1>7 DEF LineInv
  <2>3. \A p \in Carrying' : \A i \in 1..Len(pxq') :
          pxdis'[p].admin = pxq'[i].admin => pxdis'[p].event < pxq'[i].event
    BY <1>1, <1>2, <1>3, <1>6, <1>8, <2>1 DEF LineInv
  <2>4. \A i, j \in 1..Len(pxq') :
          i < j /\ pxq'[i].admin = pxq'[j].admin => pxq'[i].event < pxq'[j].event
    <3> SUFFICES ASSUME NEW i \in 1..Len(pxq'), NEW j \in 1..Len(pxq'), i < j,
                        pxq'[i].admin = pxq'[j].admin
                 PROVE  pxq'[i].event < pxq'[j].event
      OBVIOUS
    <3>1. i \in 1..Len(pxq)
      BY <1>6
    <3>2. CASE j \in 1..Len(pxq)
      BY <1>1, <1>6, <3>1, <3>2 DEF LineInv
    <3>3. CASE j = Len(pxq) + 1
      BY <1>6, <2>2, <3>1, <3>3
    <3> QED
      BY <1>8, <3>2, <3>3
  <2>5. ASSUME NEW u \in AdminThread, pc'[u] = "queue"
        PROVE  /\ given'[adm'[u]] = cursor'[u]
               /\ \A i \in 1..Len(pxq') : pxq'[i].admin = adm'[u] => pxq'[i].event < cursor'[u]
               /\ \A p \in Carrying' : pxdis'[p].admin = adm'[u] => pxdis'[p].event < cursor'[u]
    <3>1. pc[u] = "queue" /\ u # t
      BY <1>4, <2>5
    <3>2. adm[u] # adm[t]
      BY <1>1, <1>2, <3>1, OneServer DEF OfferInv, Working
    <3> QED
      BY <1>1, <1>2, <1>3, <1>6, <1>7, <1>8, <3>1, <3>2 DEF LineInv, hvars
  <2> QED
    BY <1>1, <1>2, <1>3, <1>9, <2>3, <2>4, <2>5 DEF LineInv
<1>12. CarryInv' /\ GapInv'
  BY <1>1, <1>2, <1>9, <1>10, SameLine
<1> QED
  BY <1>11, <1>12 DEF LineParts

\* A proxy thread takes the head of the queue.
LEMMA TakeHeadLine ==
  ASSUME DispatchInv, FeedInv, NEW p \in ProxyThread, TestQueue(p),
         ~shutmedown, pxq # <<>>
  PROVE  LineParts'
<1>1. TypeOK /\ LineInv /\ LineParts
  BY DEF DispatchInv, FeedInv, LineParts
<1>2. /\ ppc' = [ppc EXCEPT ![p] = "typemap"] /\ ProxyLockFree
      /\ pxdis' = [pxdis EXCEPT ![p] = Head(pxq)] /\ pxq' = Tail(pxq)
      /\ UNCHANGED <<pc, phase, pooled, hvars, adm, cursor, last, hasproxy, astate>>
  BY DEF TestQueue, PGoto, ProxyThreadOnly, fvars, avars, cvars, tvars
<1>3. /\ Len(pxq) \in Nat /\ Len(pxq) >= 1 /\ Len(pxq') = Len(pxq) - 1 /\ Head(pxq) = pxq[1]
      /\ \A i \in 1..Len(pxq') : pxq'[i] = pxq[i + 1]
  <2>1. pxq \in Seq([event : Event, admin : Admin])
    BY <1>1 DEF TypeOK
  <2>2. Len(pxq) \in Nat /\ Len(pxq) # 0
    BY <2>1, EmptySeq, LenProperties
  <2>3. Len(Tail(pxq)) = Len(pxq) - 1 /\ \A i \in 1..Len(Tail(pxq)) : Tail(pxq)[i] = pxq[i + 1]
    BY <2>1, HeadTailProperties
  <2>4. Head(pxq) = pxq[1]
    BY <2>1
  <2> QED
    BY <1>2, <2>2, <2>3, <2>4
<1>4. Carrying = {} /\ Carrying' = {p}
  BY <1>1, <1>2 DEF Carrying, ProxyLockFree, TypeOK
<1>5. pxdis'[p] = pxq[1]
  BY <1>1, <1>2, <1>3 DEF TypeOK
<1>6. \A i \in 1..Len(pxq) : i = 1 \/ \E j \in 1..Len(pxq') : i = j + 1 /\ pxq[i] = pxq'[j]
  <2> SUFFICES ASSUME NEW i \in 1..Len(pxq), i # 1
               PROVE  \E j \in 1..Len(pxq') : i = j + 1 /\ pxq[i] = pxq'[j]
    OBVIOUS
  <2>1. i - 1 \in 1..Len(pxq') /\ i = (i - 1) + 1
    BY <1>3
  <2> QED
    BY <1>3, <2>1
<1>7. \A i \in 1..Len(pxq') : i + 1 \in 1..Len(pxq) /\ i + 1 > 1
  BY <1>3
<1>8. 1 \in 1..Len(pxq)
  BY <1>3
<1>9. ASSUME NEW a, NEW x PROVE Pending(a, x)' <=> Pending(a, x)
  <2>1. (\E q \in Carrying' : pxdis'[q].admin = a /\ pxdis'[q].event = x) <=>
          pxq[1].admin = a /\ pxq[1].event = x
    BY <1>4, <1>5
  <2>2. (\E i \in 1..Len(pxq) : pxq[i].admin = a /\ pxq[i].event = x) <=>
          \/ \E i \in 1..Len(pxq') : pxq'[i].admin = a /\ pxq'[i].event = x
          \/ pxq[1].admin = a /\ pxq[1].event = x
    BY <1>3, <1>6, <1>7, <1>8
  <2> QED
    BY <1>2, <1>4, <2>1, <2>2 DEF Pending
<1>10. \A a \in Admin : Open(a)' => Open(a)
  BY <1>2 DEF Open, shutmedown
<1>11. LineInv'
  <2>1. pxq[1].event \in Event /\ pxq[1].admin \in Admin
    BY <1>1, <1>8, QueueElement
  <2>2. \A i \in 1..Len(pxq') : pxdis'[p].admin = pxq'[i].admin => pxdis'[p].event < pxq'[i].event
    BY <1>1, <1>3, <1>5, <1>7, <1>8 DEF LineInv
  <2>3. \A i, j \in 1..Len(pxq') :
          i < j /\ pxq'[i].admin = pxq'[j].admin => pxq'[i].event < pxq'[j].event
    BY SMTT(30), <1>1, <1>3, <1>7 DEF LineInv
  <2>4. ASSUME NEW t \in AdminThread, pc[t] = "queue"
        PROVE  /\ given[adm[t]] = cursor[t]
               /\ \A i \in 1..Len(pxq') : pxq'[i].admin = adm[t] => pxq'[i].event < cursor[t]
               /\ pxdis'[p].admin = adm[t] => pxdis'[p].event < cursor[t]
    BY <1>1, <1>3, <1>5, <1>7, <1>8, <2>4 DEF LineInv
  <2>5. ~pooled => \A a \in Admin : \A x \in Event : ~Pending(a, x)'
    BY <1>1, <1>9 DEF LineInv
  <2> QED
    BY <1>2, <1>4, <1>5, <2>1, <2>2, <2>3, <2>4, <2>5 DEF LineInv, hvars
<1>12. CarryInv' /\ GapInv'
  BY <1>1, <1>2, <1>9, <1>10, SameLine
<1> QED
  BY <1>11, <1>12 DEF LineParts

\* The event in hand is matched, if the admin can be locked: it was the first
\* one in the admin's line.
LEMMA DispatchEventLine ==
  ASSUME DispatchInv, FeedInv, NEW p \in ProxyThread, DispatchEvent(p)
  PROVE  LineParts'
<1>1. TypeOK /\ LineInv /\ CarryInv /\ GapInv
  BY DEF DispatchInv, FeedInv, LineParts
<1>2. /\ MaxEvents \in Nat /\ \A x \in Event : x \in Nat /\ x # 0
      /\ \A b \in Admin : Meant[b] \subseteq Event
  BY DispatchAssumption DEF Event
<1>3. PICK c, y : c = pxdis[p].admin /\ y = pxdis[p].event
  OBVIOUS
<1>4. /\ ppc[p] = "admin" /\ ppc' = [ppc EXCEPT ![p] = "test"]
      /\ matched' = IF astate[c] # "gone" /\ hasproxy[c] THEN [matched EXCEPT ![c] = y] ELSE matched
      /\ UNCHANGED <<pc, phase, pooled, pxq, given, adm, cursor, last, hasproxy, astate>>
  BY <1>3 DEF DispatchEvent, PGoto, ProxyThreadOnly, fvars, avars, cvars, tvars
<1>5. Carrying = {p} /\ Carrying' = {}
  <2>1. p \in Carrying
    BY <1>4 DEF Carrying
  <2>2. Carrying = {p}
    BY <1>1, <2>1 DEF LineInv
  <2>3. \A q \in ProxyThread : ppc'[q] = IF q = p THEN "test" ELSE ppc[q]
    BY <1>1, <1>4 DEF TypeOK
  <2> QED
    BY <2>2, <2>3 DEF Carrying
<1>6. c \in Admin /\ y \in Event /\ Pending(c, y)
  BY <1>1, <1>3, <1>5 DEF LineInv, Pending
<1>7. y \in Meant[c] /\ matched[c] < y /\ y <= given[c]
  BY <1>1, <1>6 DEF CarryInv
<1>8. \A a \in Admin : matched'[a] = IF a = c /\ Alive(c) THEN y ELSE matched[a]
  BY <1>1, <1>4, <1>6 DEF TypeOK, Alive
<1>9. \A a, x : Pending(a, x) <=> Pending(a, x)' \/ (a = c /\ x = y)
  BY <1>3, <1>4, <1>5 DEF Pending
<1>10. \A x \in Event : Pending(c, x)' => y < x
  <2>1. \A i \in 1..Len(pxq) : pxq[i].admin = c => y < pxq[i].event
    BY <1>1, <1>3, <1>5 DEF LineInv
  <2>2. \A t \in AdminThread : pc[t] = "queue" /\ adm[t] = c => y < cursor[t]
    BY <1>1, <1>3, <1>5 DEF LineInv
  <2> QED
    BY <1>4, <1>5, <2>1, <2>2 DEF Pending
<1>11. LineInv'
  BY <1>1, <1>4, <1>5, <1>9 DEF LineInv
<1>12. CarryInv'
  <2>1. ASSUME NEW a \in Admin PROVE matched'[a] <= given'[a] /\ given'[a] <= last'
    BY <1>1, <1>4, <1>7, <1>8 DEF CarryInv
  <2>2. ASSUME NEW a \in Admin, NEW x \in Event, Pending(a, x)'
        PROVE  x \in Meant[a] /\ matched'[a] < x /\ x <= given'[a]
    <3>1. x \in Meant[a] /\ matched[a] < x /\ x <= given[a]
      BY <1>1, <1>9, <2>2 DEF CarryInv
    <3> QED
      BY <1>4, <1>8, <1>10, <2>2, <3>1
  <2> QED
    BY <2>1, <2>2 DEF CarryInv
<1>13. GapInv'
  <2> SUFFICES ASSUME NEW a \in Admin, Alive(a)',
                      NEW b \in Event, NEW d \in Meant[a], Begun(a, b)', b < d, Ahead(a, d)'
               PROVE  Pending(a, d)'
    BY DEF GapInv
  <2>1. Alive(a) /\ Ahead(a, d)
    BY <1>4, <1>9 DEF Alive, Ahead, Open, shutmedown
  <2>2. Begun(a, b) /\ (a = c => y <= b)
    <3>1. CASE a = c /\ b = matched'[a]
      BY <1>2, <1>6, <1>8, <2>1, <3>1 DEF Begun
    <3>2. CASE a # c /\ b = matched'[a]
      BY <1>8, <3>2 DEF Begun
    <3>3. CASE Pending(a, b)'
      BY <1>2, <1>6, <1>9, <1>10, <3>3 DEF Begun
    <3> QED
      BY <3>1, <3>2, <3>3 DEF Begun
  <2>3. Pending(a, d)
    BY <1>1, <2>1, <2>2 DEF GapInv
  <2>4. ~(a = c /\ d = y)
    BY <1>2, <1>6, <2>2
  <2> QED
    BY <1>9, <2>3, <2>4
<1> QED
  BY <1>11, <1>12, <1>13 DEF LineParts

-----------------------------------------------------------------------------
(* The rounds of the admin threads                                         *)

LEMMA ServedApart ==
  ASSUME DispatchInv, NEW t \in AdminThread, NEW u \in AdminThread, t # u
  PROVE  /\ Served(t) \cap Served(u) = {}
         /\ pc[u] \in Working => ix[u] \in Served(u) /\ ix[u] \notin Served(t)
<1>1. Served(t) \cap Served(u) = {}
  <2> SUFFICES ASSUME pc[t] # "start", pc[u] # "start"
               PROVE  (lo[t]..hi[t]) \cap (lo[u]..hi[u]) = {}
    BY DEF Served
  <2>1. hi[t] < lo[u] \/ hi[u] < lo[t]
    BY DEF DispatchInv, RangeInv
  <2>2. lo[t] \in Int /\ hi[t] \in Int /\ lo[u] \in Int /\ hi[u] \in Int
    BY DispatchAssumption DEF DispatchInv, TypeOK, Group
  <2> QED
    BY <2>1, <2>2
<1>2. pc[u] \in Working => ix[u] \in Served(u)
  BY DEF DispatchInv, ThreadInv, Working, Served
<1> QED
  BY <1>1, <1>2

\* Nobody offers anything or finds an admin.
LEMMA OfferKept ==
  ASSUME OfferInv, UNCHANGED <<cursor, adm, given, ix>>,
         TypeOK, last <= last', last' \in Nat,
         closed' => closed \/ shutmedown', shutmedown => shutmedown',
         \A t \in AdminThread : pc'[t] = pc[t] \/ pc'[t] \notin {"start", "admin", "queue"},
         \A t \in AdminThread : pc'[t] = "exit" => pc[t] = "exit" \/ shutmedown',
         \A a \in Admin : given[a] # 0 /\ ~hasproxy'[a] => astate'[a] \in {"cleared", "gone"},
         \A a \in Admin : astate'[a] = "none" => ~hasproxy'[a]
  PROVE  OfferInv'
<1>1. \A t \in AdminThread : cursor[t] <= last'
  BY DEF OfferInv, TypeOK
<1> QED
  BY <1>1 DEF OfferInv, Latest

\* The threads stay in their groups.
LEMMA RoundKept ==
  ASSUME RoundInv, UNCHANGED <<groups, given, cursor, ix, lo, hi>>, shutmedown => shutmedown',
         \A t \in AdminThread : pc'[t] \in Working <=> pc[t] \in Working,
         \A t \in AdminThread : pc'[t] = "start" <=> pc[t] = "start",
         \A t \in AdminThread : (pc'[t] = "admin" <=> pc[t] = "admin") /\ adm'[t] = adm[t]
  PROVE  RoundInv'
<1>1. \A g : AtWork(g)' <=> AtWork(g)
  BY DEF AtWork
<1>2. \A t \in AdminThread : Served(t)' = Served(t)
  BY DEF Served
<1>3. \A t \in AdminThread : \A g, i : Seen(t, g, i)' <=> Seen(t, g, i)
  BY DEF Seen, Passed
<1>4. \A t \in AdminThread : \A g, i : Due(t, g, i)' = Due(t, g, i)
  BY <1>3 DEF Due
<1>5. ASSUME NEW g, NEW i PROVE Placed(g, i)' <=> Placed(g, i)
  BY <1>2, <1>3, <1>4 DEF Placed, Latest
<1> QED
  BY <1>1, <1>5 DEF RoundInv, RoundAt, Turned

\* A thread that starts finds its groups' admins without events.
LEMMA AllocateRound ==
  ASSUME DispatchInv, FeedInv, NEW t \in AdminThread, AllocateRange(t)
  PROVE  RoundInv'
<1>1. TypeOK /\ RangeInv /\ OfferInv /\ RoundInv
  BY DEF DispatchInv, FeedInv
<1>2. /\ pc[t] = "start" /\ pc' = [pc EXCEPT ![t] = "top"]
      /\ lo' = [lo EXCEPT ![t] = nextgr]
      /\ UNCHANGED <<groups, given, cursor, ix, adm, phase>>
  BY DEF AllocateRange, Goto, fvars, cvars, hvars
<1>3. \A u \in AdminThread : u # t => pc'[u] = pc[u] /\ Served(u)' = Served(u)
  BY <1>1 DEF AllocateRange, Goto, Served, TypeOK
<1>4. pc'[t] = "top" /\ lo'[t] = nextgr /\ cursor[t] = 0 /\ Served(t) = {}
  BY <1>1, <1>2 DEF TypeOK, OfferInv, Served
<1>5. \A g \in Served(t)' : \A u \in AdminThread : g \notin Served(u)
  <2> SUFFICES ASSUME NEW g \in Served(t)', NEW u \in AdminThread, g \in Served(u)
               PROVE  FALSE
    OBVIOUS
  <2>1. pc[u] # "start" /\ g \in lo[u]..hi[u]
    BY DEF Served
  <2>2. hi[u] < nextgr /\ lo[u] \in Int /\ hi[u] \in Int /\ nextgr \in Int
    BY <1>1, <2>1, DispatchAssumption DEF RangeInv, TypeOK, Group
  <2>3. g \in nextgr..hi'[t]
    BY <1>4 DEF Served
  <2>4. hi'[t] \in Int
    <3>1. hi' \in [AdminThread -> Group]
      BY AllocateRangeStep DEF DispatchInv, TypeOK
    <3> QED
      BY <3>1, DispatchAssumption DEF Group
  <2> QED
    BY <2>1, <2>2, <2>3, <2>4
<1>6. SUFFICES ASSUME ~shutmedown, NEW g \in Group PROVE RoundAt(g)'
  BY <1>2 DEF RoundInv, shutmedown
<1>7. RoundAt(g)
  BY <1>1, <1>6 DEF RoundInv
<1>8. \A h : AtWork(h) => AtWork(h)'
  BY <1>2, <1>3 DEF AtWork, Working
<1>9. ASSUME NEW i \in 1..Len(groups[g].elts) PROVE Placed(g, i)'
  <2> DEFINE a == groups[g].elts[i]
  <2>1. Placed(g, i)
    BY <1>7 DEF RoundAt
  <2>2. \A u \in AdminThread : u # t => (Seen(u, g, i)' <=> Seen(u, g, i))
    BY <1>2, <1>3 DEF Seen, Passed
  <2>3. \A u \in AdminThread : u # t => Due(u, g, i)' = Due(u, g, i)
    BY <1>2, <2>2 DEF Due
  <2>4. given[a] # 0 => \E u \in AdminThread : g \in Served(u)'
    BY <1>3, <1>4, <2>1 DEF Placed
  <2>5. g \in Served(t)' => given[a] = 0
    BY <1>5, <2>1 DEF Placed
  <2> HIDE DEF a
  <2>6. a = groups[g].elts[i] /\ a' = a
    BY <1>2 DEF a
  <2>7. ASSUME NEW u \in AdminThread, pc'[u] = "admin", adm'[u] = a PROVE Seen(u, g, i)'
    BY <1>2, <1>3, <1>4, <2>1, <2>2, <2>6, <2>7 DEF Placed
  <2>8. ASSUME NEW u \in AdminThread, g \in Served(u)'
        PROVE  (pc'[u] = "admin" /\ adm'[u] = a) \/ Latest(a, Due(u, g, i)')
    <3>1. CASE u = t
      BY <2>5, <2>8, <3>1 DEF Latest
    <3>2. CASE u # t
      BY <1>2, <1>3, <2>1, <2>3, <2>6, <2>8, <3>2 DEF Placed
    <3> QED
      BY <3>1, <3>2
  <2> QED
    BY <1>2, <2>4, <2>6, <2>7, <2>8 DEF Placed, Latest
<1> QED
  BY <1>2, <1>7, <1>8, <1>9 DEF RoundAt, Turned

\* A thread with a new event has it still to offer to all its admins, who have
\* got the one before.
LEMMA NextEventRound ==
  ASSUME DispatchInv, FeedInv, NEW t \in AdminThread, NextEvent(t)
  PROVE  OfferInv' /\ RoundInv'
<1>1. TypeOK /\ RangeInv /\ ListInv /\ OfferInv /\ RoundInv
  BY DEF DispatchInv, FeedInv
<1>2. /\ pc[t] = "next" /\ ix' = [ix EXCEPT ![t] = lo[t]]
      /\ pc' = [pc EXCEPT ![t] = IF shutmedown THEN "exit" ELSE "group"]
      /\ UNCHANGED <<groups, given, lo, hi, adm, phase, last, closed, hasproxy, astate>>
  BY DEF NextEvent, Goto, AdminThreadOnly, Feed!Deliver, avars, cvars, hvars
<1>3. PICK e \in 1..last :
        /\ cursor[t] # 0 => e = cursor[t] + 1
        /\ cursor' = [cursor EXCEPT ![t] = e]
  BY DEF NextEvent, Feed!Deliver
<1>4. /\ pc'[t] = (IF shutmedown THEN "exit" ELSE "group") /\ ix'[t] = lo[t] /\ cursor'[t] = e
      /\ \A u \in AdminThread :
           u # t => pc'[u] = pc[u] /\ ix'[u] = ix[u] /\ cursor'[u] = cursor[u]
  BY <1>1, <1>2, <1>3 DEF TypeOK
<1>5. shutmedown' <=> shutmedown
  BY <1>2 DEF shutmedown
<1>6. last \in Nat /\ e \in Nat /\ e <= last /\ e # 0
  BY <1>1 DEF TypeOK
<1>7. OfferInv'
  BY <1>1, <1>2, <1>4, <1>5, <1>6 DEF OfferInv, Latest
<1>8. \A u \in AdminThread : Served(u)' = Served(u)
  BY <1>2, <1>4 DEF Served
<1>9. lo[t] \in Int /\ hi[t] \in Int /\ \A g \in Group : g \in Int
  BY <1>1, DispatchAssumption DEF TypeOK, Group
<1>10. SUFFICES ASSUME ~shutmedown, NEW g \in Group PROVE RoundAt(g)'
  BY <1>5, <1>7 DEF RoundInv
<1>11. RoundAt(g)
  BY <1>1, <1>10 DEF RoundInv
<1>12. AtWork(g) => AtWork(g)'
  BY <1>2, <1>4 DEF AtWork, Working
<1>13. g \in Served(t) => groups[g].mark = FALSE /\ groups[g].nxt = 0
  <2> SUFFICES ASSUME g \in Served(t) PROVE ~AtWork(g)
    <3>1. groups[g].mark \in BOOLEAN
      BY <1>1 DEF TypeOK
    <3> QED
      BY <1>11, <3>1 DEF RoundAt
  <2> QED
    BY <1>2, ServedApart DEF AtWork, Working
<1>14. ASSUME NEW i \in 1..Len(groups[g].elts) PROVE Placed(g, i)'
  <2>1. Placed(g, i)
    BY <1>11 DEF RoundAt
  <2>2. \A u \in AdminThread : u # t => (Seen(u, g, i)' <=> Seen(u, g, i))
    BY <1>2, <1>4 DEF Seen, Passed
  <2>3. \A u \in AdminThread : u # t => Due(u, g, i)' = Due(u, g, i)
    BY <1>4, <2>2 DEF Due
  <2>4. PICK a : a = groups[g].elts[i]
    OBVIOUS
  <2>5. ASSUME g \in Served(t) PROVE Latest(a, Due(t, g, i)')
    <3>1. Seen(t, g, i)
      BY <1>2 DEF Seen, Working
    <3>2. Latest(a, cursor[t])
      BY <1>2, <2>1, <2>4, <2>5, <3>1 DEF Placed, Due
    <3>3. ~Seen(t, g, i)'
      <4>1. g >= lo[t]
        BY <1>9, <2>5 DEF Served
      <4>2. ~(i <= 0)
        OBVIOUS
      <4> QED
        BY <1>2, <1>4, <1>9, <1>10, <1>13, <2>5, <4>1, <4>2 DEF Seen, Passed, Working
    <3>4. Due(t, g, i)' = e - 1
      BY <1>4, <3>3 DEF Due
    <3>5. cursor[t] \in Nat
      BY <1>1 DEF TypeOK
    <3> QED
      BY <1>3, <1>6, <3>2, <3>4, <3>5 DEF Latest
  <2>6. ASSUME NEW u \in AdminThread, g \in Served(u)
        PROVE  (pc'[u] = "admin" /\ adm'[u] = a) \/ Latest(a, Due(u, g, i)')
    <3>1. CASE u = t
      BY <2>5, <2>6, <3>1
    <3>2. CASE u # t
      BY <1>2, <1>4, <2>1, <2>3, <2>4, <2>6, <3>2 DEF Placed
    <3> QED
      BY <3>1, <3>2
  <2>7. ASSUME NEW u \in AdminThread, pc'[u] = "admin", adm'[u] = a PROVE Seen(u, g, i)'
    BY <1>2, <1>4, <2>1, <2>2, <2>4, <2>7 DEF Placed
  <2> QED
    BY <1>2, <1>8, <2>1, <2>4, <2>6, <2>7 DEF Placed, Latest
<1> QED
  BY <1>2, <1>11, <1>12, <1>14 DEF RoundAt, Turned

\* The iterator delivers an admin that has still to get the thread's event, or
\* goes past the end of the group.
LEMMA IterateRound ==
  ASSUME DispatchInv, FeedInv, NEW t \in AdminThread, IterateGroup(t)
  PROVE  OfferInv' /\ RoundInv'
<1>1. TypeOK /\ RangeInv /\ ListInv /\ ThreadInv /\ OfferInv /\ RoundInv
  BY DEF DispatchInv, FeedInv
<1>2. PICK g, l, r, v : g = ix[t] /\ l = groups[g] /\ r = IterNext(l) /\ v = IterValue(l)
  OBVIOUS
<1>3. /\ pc[t] = "list" /\ ~shutmedown /\ groups' = [groups EXCEPT ![g] = r]
      /\ \/ v # NoAdmin /\ adm' = [adm EXCEPT ![t] = v] /\ pc' = [pc EXCEPT ![t] = "admin"]
            /\ ix' = ix
         \/ v = NoAdmin /\ g < hi[t] /\ ix' = [ix EXCEPT ![t] = g + 1]
            /\ pc' = [pc EXCEPT ![t] = "group"] /\ adm' = adm
         \/ v = NoAdmin /\ g = hi[t] /\ pc' = [pc EXCEPT ![t] = "top"] /\ ix' = ix /\ adm' = adm
      /\ UNCHANGED <<given, cursor, last, closed, lo, hi, phase, hasproxy, astate>>
  BY <1>2 DEF IterateGroup, Goto, AdminThreadOnly, fvars, avars, cvars, hvars
<1>4. /\ g \in Group /\ g \in lo[t]..hi[t] /\ g \in Int /\ hi[t] \in Int /\ lo[t] \in Int
      /\ Served(t) = lo[t]..hi[t] /\ hi[t] \in Group
  BY <1>1, <1>2, <1>3, DispatchAssumption DEF TypeOK, ThreadInv, Group, Served
<1>5. RoundAt(g) /\ ListOK(l)
  BY <1>1, <1>2, <1>3, <1>4 DEF RoundInv, ListInv
<1>6. /\ r.elts = l.elts /\ Turned(r)
      /\ v # NoAdmin => \E k \in 1..Len(l.elts) :
           /\ l.elts[k] = v /\ ~Passed(l, k) /\ Passed(r, k)
           /\ \A i \in 1..Len(l.elts) : i # k => (Passed(r, i) <=> Passed(l, i))
      /\ v = NoAdmin =>
           ~r.mark /\ r.nxt = 0 /\ \A i \in 1..Len(l.elts) : Passed(l, i)
  BY <1>2, <1>5, IteratePlace DEF RoundAt
<1>7. \A u \in AdminThread : u # t => pc'[u] = pc[u] /\ ix'[u] = ix[u] /\ adm'[u] = adm[u]
  BY <1>1, <1>3 DEF TypeOK
<1>8. \/ v # NoAdmin /\ adm'[t] = v /\ pc'[t] = "admin" /\ ix'[t] = g
      \/ v = NoAdmin /\ g < hi[t] /\ ix'[t] = g + 1 /\ pc'[t] = "group"
      \/ v = NoAdmin /\ g = hi[t] /\ pc'[t] = "top" /\ ix'[t] = g
  BY <1>1, <1>2, <1>3 DEF TypeOK
<1>9. \A h \in Group : groups'[h] = IF h = g THEN r ELSE groups[h]
  BY <1>1, <1>3 DEF TypeOK
<1>10. \A h \in Group : groups'[h].elts = groups[h].elts
  BY <1>2, <1>6, <1>9
<1>11. ~shutmedown' /\ \A u \in AdminThread : Served(u)' = Served(u)
  BY <1>3, <1>7, <1>8 DEF Served, shutmedown
<1>12. v # NoAdmin => GroupOf(v) = g /\ Latest(v, cursor[t] - 1)
  <2> SUFFICES ASSUME v # NoAdmin PROVE GroupOf(v) = g /\ Latest(v, cursor[t] - 1)
    OBVIOUS
  <2>1. PICK k \in 1..Len(l.elts) : l.elts[k] = v /\ ~Passed(l, k)
    BY <1>6
  <2>2. v \in Admin /\ GroupOf(v) = g
    <3>1. v \in Admin
      BY <1>5, <2>1, ElementOfSeq DEF ListOK, List
    <3>2. Contains(l.elts, v)
      BY <2>1 DEF Contains
    <3> QED
      BY <1>1, <1>2, <1>4, <3>1, <3>2 DEF ListInv
  <2>3. Placed(g, k)
    BY <1>2, <1>5, <2>1 DEF RoundAt
  <2>4. ~Seen(t, g, k)
    BY <1>2, <1>3, <1>4, <2>1 DEF Seen, Working
  <2> QED
    BY <1>2, <1>3, <1>4, <2>1, <2>2, <2>3, <2>4 DEF Placed, Due
<1>13. OfferInv'
  <2>1. ASSUME NEW u \in AdminThread
        PROVE  /\ pc'[u] = "exit" => pc[u] = "exit"
               /\ pc'[u] = "start" => pc[u] = "start"
               /\ pc'[u] \in {"admin", "queue"} => GroupOf(adm'[u]) = ix'[u]
               /\ pc'[u] = "admin" => Latest(adm'[u], cursor[u] - 1)
    BY <1>1, <1>3, <1>7, <1>8, <1>12 DEF OfferInv
  <2>2. \A c, e : Latest(c, e)' <=> Latest(c, e)
    BY <1>3 DEF Latest
  <2> QED
    BY <1>1, <1>3, <1>11, <2>1, <2>2 DEF OfferInv, Latest
<1>14. SUFFICES ASSUME NEW h \in Group PROVE RoundAt(h)'
  BY <1>13 DEF RoundInv
<1>15. RoundAt(h)
  BY <1>1, <1>3 DEF RoundInv
<1>16. AtWork(h) => AtWork(h)' \/ h = g
  BY <1>2, <1>7 DEF AtWork
<1>17. Turned(groups'[h]) /\ (groups'[h].mark \/ groups'[h].nxt # 0 => AtWork(h)')
  <2>1. CASE h # g
    BY <1>9, <1>15, <1>16, <2>1 DEF RoundAt
  <2>2. CASE h = g /\ v # NoAdmin
    <3>1. AtWork(h)'
      BY <1>8, <2>2 DEF AtWork, Working
    <3> QED
      BY <1>6, <1>9, <2>2, <3>1
  <2>3. CASE h = g /\ v = NoAdmin
    BY <1>6, <1>9, <2>3
  <2> QED
    BY <2>1, <2>2, <2>3
<1>18. ASSUME NEW i \in 1..Len(groups[h].elts), NEW a, a = groups[h].elts[i],
              h \in Served(t)
       PROVE  \/ v # NoAdmin /\ a = v
              \/ Seen(t, h, i)' <=> Seen(t, h, i)
  <2>1. Seen(t, h, i) <=> h < g \/ (h = g /\ Passed(l, i))
    BY <1>2, <1>3 DEF Seen, Working
  <2>2. h \in Int /\ h <= hi[t]
    BY <1>4, <1>18
  <2>3. CASE v # NoAdmin
    <3>1. Seen(t, h, i)' <=> h < g \/ (h = g /\ Passed(r, i))
      BY <1>8, <1>9, <2>3 DEF Seen, Working, Passed
    <3> QED
      BY <1>2, <1>6, <1>18, <2>1, <2>3, <3>1
  <2>4. CASE v = NoAdmin /\ pc'[t] = "top"
    <3>1. h <= g
      BY <1>8, <2>2, <2>4
    <3>2. Seen(t, h, i)'
      BY <2>4 DEF Seen, Working
    <3>3. h < g \/ h = g
      BY <1>4, <2>2, <3>1
    <3> QED
      BY <1>2, <1>6, <2>1, <2>4, <3>2, <3>3
  <2>5. CASE v = NoAdmin /\ pc'[t] = "group" /\ ix'[t] = g + 1
    <3>1. Seen(t, h, i)' <=> h < g + 1 \/ (h = g + 1 /\ Passed(groups'[h], i))
      BY <2>5 DEF Seen, Working, Passed
    <3>2. h = g + 1 => ~Passed(groups'[h], i)
      <4> SUFFICES ASSUME h = g + 1 PROVE ~Passed(groups'[h], i)
        OBVIOUS
      <4>1. h # g
        BY <1>4
      <4>2. ~AtWork(h)
        BY <1>2, <1>18, <4>1, ServedApart DEF AtWork
      <4>3. ~groups[h].mark /\ groups[h].nxt = 0
        BY <1>15, <4>2 DEF RoundAt
      <4> QED
        BY <1>9, <4>1, <4>3 DEF Passed
    <3>3. h < g + 1 <=> h < g \/ h = g
      BY <1>4, <2>2
    <3> QED
      BY <1>2, <1>6, <2>1, <2>5, <3>1, <3>2, <3>3
  <2> QED
    BY <1>8, <2>3, <2>4, <2>5
<1>19. ASSUME NEW i \in 1..Len(groups[h].elts) PROVE Placed(h, i)'
  <2>1. Placed(h, i)
    BY <1>15 DEF RoundAt
  <2>2. PICK a : a = groups[h].elts[i]
    OBVIOUS
  <2>3. ASSUME NEW u \in AdminThread, u # t, pc[u] = "admin", ix[u] = h
        PROVE  Seen(u, h, i)' <=> Seen(u, h, i)
    <3>1. h # g
      BY <1>2, <1>3, <1>4, <2>3, ServedApart DEF Working
    <3> QED
      BY <1>7, <1>9, <2>3, <3>1 DEF Seen, Passed
  <2>4. ASSUME NEW u \in AdminThread, pc'[u] = "admin", adm'[u] = a
        PROVE  Seen(u, h, i)'
    <3>1. GroupOf(a) = h
      <4>1. a \in Admin
        BY <1>1, <2>2, ElementOfSeq DEF ListInv, ListOK, List
      <4>2. Contains(groups[h].elts, a)
        BY <2>2 DEF Contains
      <4> QED
        BY <1>1, <4>1, <4>2 DEF ListInv
    <3>2. CASE u # t
      <4>1. pc[u] = "admin" /\ adm[u] = a /\ ix[u] = h
        BY <1>1, <1>7, <2>4, <3>1, <3>2 DEF OfferInv
      <4>2. Seen(u, h, i)
        BY <2>1, <2>2, <4>1 DEF Placed
      <4> QED
        BY <2>3, <3>2, <4>1, <4>2
    <3>3. CASE u = t
      <4>1. v # NoAdmin /\ a = v /\ ix'[t] = g
        BY <1>8, <2>4, <3>3
      <4>2. h = g
        BY <1>12, <3>1, <4>1
      <4>3. PICK k \in 1..Len(l.elts) : l.elts[k] = v /\ Passed(r, k)
        BY <1>6, <4>1
      <4>4. k = i
        BY <1>2, <1>5, <2>2, <4>1, <4>2, <4>3 DEF ListOK
      <4> QED
        BY <1>9, <3>3, <4>1, <4>2, <4>3, <4>4 DEF Seen, Passed
    <3> QED
      BY <3>2, <3>3
  <2>5. ASSUME NEW u \in AdminThread, h \in Served(u)
        PROVE  (pc'[u] = "admin" /\ adm'[u] = a) \/ Latest(a, Due(u, h, i)')
    <3>1. CASE u # t
      <4>1. Due(u, h, i)' = Due(u, h, i)
        <5>1. h # g
          BY <1>4, <2>5, <3>1, ServedApart
        <5>2. Seen(u, h, i)' <=> Seen(u, h, i)
          BY <1>7, <1>9, <3>1, <5>1 DEF Seen, Passed
        <5> QED
          BY <1>3, <5>2 DEF Due
      <4> QED
        BY <1>7, <2>1, <2>2, <2>5, <3>1, <4>1 DEF Placed
    <3>2. CASE u = t
      <4>1. Latest(a, Due(t, h, i))
        BY <1>3, <2>1, <2>2, <2>5, <3>2 DEF Placed
      <4>2. (v # NoAdmin /\ a = v) \/ Due(t, h, i)' = Due(t, h, i)
        BY <1>3, <1>18, <2>2, <2>5, <3>2 DEF Due
      <4> QED
        BY <1>8, <3>2, <4>1, <4>2
    <3> QED
      BY <3>1, <3>2
  <2> QED
    BY <1>3, <1>10, <1>11, <2>1, <2>2, <2>4, <2>5 DEF Placed, Latest
<1> QED
  BY <1>10, <1>17, <1>19 DEF RoundAt, Turned

\* The admin found gets the event, or goes without because it has no proxies.
LEMMA OfferEventRound ==
  ASSUME DispatchInv, FeedInv, NEW t \in AdminThread, OfferEvent(t)
  PROVE  OfferInv' /\ RoundInv'
<1>1. TypeOK /\ RangeInv /\ ListInv /\ ThreadInv /\ OfferInv /\ RoundInv
  BY DEF DispatchInv, FeedInv
<1>2. PICK a, e : a = adm[t] /\ e = cursor[t]
  OBVIOUS
<1>3. /\ pc[t] = "admin"
      /\ UNCHANGED <<groups, cursor, last, closed, lo, hi, ix, adm, phase, hasproxy, astate>>
  BY DEF OfferEvent, AdminThreadOnly, fvars, avars, cvars
<1>4. /\ pc'[t] \in {"group", "queue"}
      /\ \A u \in AdminThread : u # t => pc'[u] = pc[u]
  BY <1>1 DEF OfferEvent, Goto, TypeOK
<1>5. a \in Admin /\ e \in Nat /\ e # 0 /\ GroupOf(a) = ix[t] /\ ix[t] \in Group
  BY <1>1, <1>2, <1>3 DEF TypeOK, ThreadInv, OfferInv
<1>6. \A c \in Admin : c # a => given'[c] = given[c]
  BY <1>1, <1>2, <1>5 DEF OfferEvent, hvars, TypeOK
<1>7. \/ given'[a] = e /\ hasproxy[a]
      \/ given'[a] = given[a] /\ (astate[a] = "gone" \/ ~hasproxy[a])
  BY <1>1, <1>2, <1>5 DEF OfferEvent, hvars, TypeOK
<1>8. shutmedown' <=> shutmedown
  BY <1>3 DEF shutmedown
<1>9. ASSUME NEW u \in AdminThread, u # t, pc[u] \in {"admin", "queue"} PROVE adm[u] # a
  <2>1. GroupOf(adm[u]) = ix[u] /\ ix[u] # ix[t]
    BY <1>1, <1>3, <1>9, OneServer DEF OfferInv, Working
  <2> QED
    BY <1>5, <2>1
<1>10. OfferInv'
  <2>1. ASSUME NEW u \in AdminThread
        PROVE  /\ pc'[u] = "exit" => pc[u] = "exit"
               /\ pc'[u] = "start" => pc[u] = "start"
               /\ pc'[u] \in {"admin", "queue"} => GroupOf(adm[u]) = ix[u]
               /\ pc'[u] = "admin" => Latest(adm[u], cursor[u] - 1)'
    <3>1. CASE u = t
      BY <1>2, <1>4, <1>5, <3>1
    <3>2. CASE u # t
      <4>1. pc'[u] = "admin" => adm[u] # a /\ adm[u] \in Admin
        BY <1>1, <1>4, <1>9, <3>2 DEF TypeOK, ThreadInv
      <4> QED
        BY <1>1, <1>3, <1>4, <1>6, <3>2, <4>1 DEF OfferInv, Latest
    <3> QED
      BY <3>1, <3>2
  <2>2. ASSUME NEW c \in Admin, given'[c] # 0, ~hasproxy[c]
        PROVE  astate[c] \in {"cleared", "gone"}
    BY <1>1, <1>6, <1>7, <2>2 DEF OfferInv
  <2> QED
    BY <1>1, <1>3, <1>8, <2>1, <2>2 DEF OfferInv, Latest
<1>11. SUFFICES ASSUME ~shutmedown, NEW g \in Group PROVE RoundAt(g)'
  BY <1>8, <1>10 DEF RoundInv
<1>12. RoundAt(g)
  BY <1>1, <1>11 DEF RoundInv
<1>13. AtWork(g) => AtWork(g)'
  BY <1>3, <1>4 DEF AtWork, Working
<1>14. \A u \in AdminThread : Served(u)' = Served(u)
  BY <1>3, <1>4 DEF Served
<1>15. \A u \in AdminThread : \A i : Seen(u, g, i)' <=> Seen(u, g, i)
  BY <1>3, <1>4 DEF Seen, Passed, Working
<1>16. \A u \in AdminThread : \A i : Due(u, g, i)' = Due(u, g, i)
  BY <1>3, <1>15 DEF Due
<1>17. Latest(a, e)'
  <2>1. CASE given'[a] = e
    BY <2>1 DEF Latest
  <2>2. CASE given'[a] = given[a] /\ (astate[a] = "gone" \/ ~hasproxy[a])
    <3>1. Registered(a)
      BY <1>1, <1>2, <1>3, <1>11 DEF ThreadInv
    <3>2. given[a] = 0
      BY <1>1, <1>5, <2>2, <3>1 DEF OfferInv, Registered
    <3> QED
      BY <2>2, <3>2 DEF Latest
  <2> QED
    BY <1>7, <2>1, <2>2
<1>18. ASSUME NEW i \in 1..Len(groups[g].elts) PROVE Placed(g, i)'
  <2>1. Placed(g, i)
    BY <1>12 DEF RoundAt
  <2>2. PICK c : c = groups[g].elts[i]
    OBVIOUS
  <2>3. c \in Admin /\ GroupOf(c) = g
    <3>1. c \in Admin
      BY <1>1, <2>2, ElementOfSeq DEF ListInv, ListOK, List
    <3>2. Contains(groups[g].elts, c)
      BY <2>2 DEF Contains
    <3> QED
      BY <1>1, <3>1, <3>2 DEF ListInv
  <2>4. ASSUME NEW u \in AdminThread, pc'[u] = "admin", adm[u] = c PROVE Seen(u, g, i)'
    BY <1>4, <1>15, <2>1, <2>2, <2>4 DEF Placed
  <2>5. CASE c # a
    <3>1. \A x : Latest(c, x)' <=> Latest(c, x)
      BY <1>6, <2>3, <2>5 DEF Latest
    <3>2. ASSUME NEW u \in AdminThread, g \in Served(u)
          PROVE  (pc'[u] = "admin" /\ adm[u] = c) \/ Latest(c, Due(u, g, i))'
      BY <1>2, <1>4, <1>16, <2>1, <2>2, <2>5, <3>1, <3>2 DEF Placed, Latest
    <3>3. given'[c] # 0 => \E u \in AdminThread : g \in Served(u)
      BY <1>6, <2>1, <2>2, <2>3, <2>5 DEF Placed
    <3> QED
      BY <1>3, <1>14, <2>2, <2>4, <3>2, <3>3 DEF Placed, Latest
  <2>6. CASE c = a
    <3>1. g = ix[t] /\ g \in Served(t)
      BY <1>1, <1>3, <1>5, <2>3, <2>6 DEF ThreadInv, Served
    <3>2. Due(t, g, i)' = e
      <4>1. Seen(t, g, i)
        BY <1>2, <1>3, <2>1, <2>2, <2>6 DEF Placed
      <4> QED
        BY <1>2, <1>16, <4>1 DEF Due
    <3>3. ASSUME NEW u \in AdminThread, g \in Served(u) PROVE u = t
      BY <3>1, <3>3, ServedApart
    <3> QED
      BY <1>3, <1>14, <1>17, <2>2, <2>4, <2>6, <3>1, <3>2, <3>3 DEF Placed, Latest
  <2> QED
    BY <2>5, <2>6
<1> QED
  BY <1>3, <1>12, <1>13, <1>18 DEF RoundAt, Turned

\* Outside the lists' locks an admin joins a group, or leaves one.
LEMMA ListRound ==
  ASSUME DispatchInv, FeedInv, NEW g \in Group, GroupFree(g), NEW r,
         UNCHANGED <<cursor, given, lo, hi, ix, adm, pc>>, shutmedown => shutmedown',
         groups' = [groups EXCEPT ![g] = r], Turned(r),
         r.mark \/ r.nxt # 0 => groups[g].mark \/ groups[g].nxt # 0,
         \A i \in 1..Len(r.elts) :
           \/ \E j \in 1..Len(groups[g].elts) :
                r.elts[i] = groups[g].elts[j] /\ (Passed(r, i) <=> Passed(groups[g], j))
           \/ given[r.elts[i]] = 0 /\ \A t \in AdminThread : pc[t] = "admin" => adm[t] # r.elts[i]
  PROVE  RoundInv'
<1>1. TypeOK /\ OfferInv /\ RoundInv /\ ListInv
  BY DEF DispatchInv, FeedInv
<1>2. \A h \in Group : groups'[h] = IF h = g THEN r ELSE groups[h]
  BY <1>1 DEF TypeOK
<1>3. \A h : AtWork(h)' <=> AtWork(h)
  BY DEF AtWork
<1>4. \A t \in AdminThread : Served(t)' = Served(t)
  BY DEF Served
<1>5. SUFFICES ASSUME ~shutmedown, NEW h \in Group PROVE RoundAt(h)'
  BY DEF RoundInv
<1>6. RoundAt(h)
  BY <1>1, <1>5 DEF RoundInv
<1>7. CASE h # g
  <2>1. \A t \in AdminThread : \A i : Seen(t, h, i)' <=> Seen(t, h, i)
    BY <1>2, <1>7 DEF Seen, Passed
  <2>2. \A t \in AdminThread : \A i : Due(t, h, i)' = Due(t, h, i)
    BY <2>1 DEF Due
  <2>3. \A i : Placed(h, i) => Placed(h, i)'
    BY <1>2, <1>4, <1>7, <2>1, <2>2 DEF Placed, Latest
  <2> QED
    BY <1>2, <1>3, <1>6, <1>7, <2>3 DEF RoundAt, Turned
<1>8. CASE h = g
  <2>1. groups'[g] = r
    BY <1>2
  <2>2. ASSUME NEW i \in 1..Len(r.elts) PROVE Placed(g, i)'
    <3>1. PICK a : a = r.elts[i]
      OBVIOUS
    <3>2. \A t \in AdminThread : Seen(t, g, i)' <=>
            pc[t] \notin Working \/ g < ix[t] \/ (g = ix[t] /\ Passed(r, i))
      BY <2>1 DEF Seen, Passed
    <3>3. CASE given[a] = 0 /\ \A t \in AdminThread : pc[t] = "admin" => adm[t] # a
      BY <1>4, <2>1, <3>1, <3>3 DEF Placed, Latest
    <3>4. ASSUME NEW j \in 1..Len(groups[g].elts), a = groups[g].elts[j],
                 Passed(r, i) <=> Passed(groups[g], j)
          PROVE  Placed(g, i)'
      <4>1. Placed(g, j)
        BY <1>6, <1>8 DEF RoundAt
      <4>2. \A t \in AdminThread : Seen(t, g, i)' <=> Seen(t, g, j)
        BY <3>2, <3>4 DEF Seen
      <4>3. \A t \in AdminThread : Due(t, g, i)' = Due(t, g, j)
        BY <4>2 DEF Due
      <4> QED
        BY <1>4, <2>1, <3>1, <3>4, <4>1, <4>2, <4>3 DEF Placed, Latest
    <3> QED
      BY <3>1, <3>3, <3>4
  <2> QED
    BY <1>3, <1>6, <1>8, <2>1, <2>2 DEF RoundAt, Turned
<1> QED
  BY <1>7, <1>8

-----------------------------------------------------------------------------
(* The remaining steps                                                     *)

LEMMA QuietThreadFeed ==
  ASSUME DispatchInv, FeedInv, NEW t \in AdminThread,
         ShutExit(t) \/ CallNextEvent(t) \/ NextEventNull(t) \/ LockTypeMap(t)
  PROVE  FeedInv'
<1> USE DEF ShutExit, CallNextEvent, NextEventNull, LockTypeMap
<1>1. TypeOK /\ OfferInv /\ RoundInv /\ LineParts
  BY DEF DispatchInv, FeedInv
<1>2. /\ UNCHANGED <<last, cursor, closed, groups, lo, hi, ix, adm, given, matched, pxq, pxdis, ppc>>
      /\ UNCHANGED <<phase, pooled, hasproxy, astate>>
      /\ shutmedown' <=> shutmedown
  BY DEF AdminThreadOnly, fvars, avars, cvars, pvars, hvars, shutmedown
<1>3. /\ \A u \in AdminThread : u # t => pc'[u] = pc[u]
      /\ \/ pc'[t] = "exit" /\ shutmedown /\ pc[t] \notin {"start", "admin"}
         \/ pc[t] = "top" /\ pc'[t] = "next"
         \/ pc[t] = "group" /\ pc'[t] = "list"
  BY <1>1 DEF Goto, TypeOK, OfferInv
<1>4. OfferInv'
  <2>1. \A u \in AdminThread : pc'[u] = pc[u] \/ pc'[u] \notin {"start", "admin", "queue"}
    BY <1>3
  <2>2. \A u \in AdminThread : pc'[u] = "exit" => pc[u] = "exit" \/ shutmedown'
    BY <1>2, <1>3
  <2>3. \A a \in Admin : /\ given[a] # 0 /\ ~hasproxy'[a] => astate'[a] \in {"cleared", "gone"}
                         /\ astate'[a] = "none" => ~hasproxy'[a]
    BY <1>1, <1>2 DEF OfferInv
  <2>4. last \in Nat /\ last <= last' /\ last' \in Nat
    BY <1>1, <1>2 DEF TypeOK
  <2> QED
    BY <1>1, <1>2, <2>1, <2>2, <2>3, <2>4, OfferKept
<1>5. RoundInv'
  <2>1. CASE shutmedown
    BY <1>2, <2>1 DEF RoundInv
  <2>2. CASE ~shutmedown
    <3>1. \A u \in AdminThread :
            /\ pc'[u] \in Working <=> pc[u] \in Working
            /\ pc'[u] = "start" <=> pc[u] = "start"
            /\ pc'[u] = "admin" <=> pc[u] = "admin"
      BY <1>3, <2>2 DEF Working
    <3> QED
      BY <1>1, <1>2, <3>1, RoundKept
  <2> QED
    BY <2>1, <2>2
<1>6. LineParts'
  <2>1. CASE pc[t] = "queue"
    BY <2>1, ShutExitLine
  <2>2. CASE pc[t] # "queue"
    <3>1. \A u \in AdminThread : pc'[u] = "queue" <=> pc[u] = "queue"
      BY <1>3, <2>2
    <3>2. \A a \in Admin : Open(a)' => Open(a)
      BY <1>2, <1>3 DEF Open
    <3>3. \A a \in Admin : Alive(a)' => Alive(a)
      BY <1>2 DEF Alive
    <3>4. Carrying' = Carrying /\ UNCHANGED hvars /\ last <= last' /\ last' \in Nat
      BY <1>1, <1>2 DEF Carrying, hvars, TypeOK
    <3> QED
      BY <1>1, <1>2, <3>1, <3>2, <3>3, <3>4, LineKept
  <2> QED
    BY <2>1, <2>2
<1> QED
  BY <1>4, <1>5, <1>6 DEF FeedInv

LEMMA AdminThreadFeed ==
  ASSUME DispatchInv, FeedInv, NEW t \in AdminThread,
         AllocateRange(t) \/ NextEvent(t) \/ IterateGroup(t)
  PROVE  FeedInv'
<1>1. TypeOK /\ OfferInv /\ LineParts
  BY DEF DispatchInv, FeedInv
<1>2. /\ UNCHANGED <<last, closed, given, matched, pxq, pxdis, ppc>>
      /\ UNCHANGED <<phase, pooled, hasproxy, astate>>
      /\ shutmedown' <=> shutmedown
  BY DEF AllocateRange, NextEvent, IterateGroup, Feed!Deliver, AdminThreadOnly,
         fvars, avars, cvars, pvars, hvars, shutmedown
<1>3. \A u \in AdminThread : u # t =>
        pc'[u] = pc[u] /\ adm'[u] = adm[u] /\ cursor'[u] = cursor[u]
  BY <1>1 DEF AllocateRange, NextEvent, IterateGroup, Feed!Deliver, Goto, fvars, TypeOK
<1>4. /\ pc[t] \in {"start", "next", "list"} /\ pc'[t] \notin {"queue", "start"}
      /\ pc'[t] = "admin" => ~shutmedown
  BY <1>1 DEF AllocateRange, NextEvent, IterateGroup, Goto, TypeOK
<1>5. OfferInv' /\ RoundInv'
  <2>1. CASE AllocateRange(t)
    <3>1. UNCHANGED <<cursor, adm, ix>> /\ pc'[t] = "top"
      BY <1>1, <2>1 DEF AllocateRange, Goto, fvars, TypeOK
    <3>2. \A u \in AdminThread : pc'[u] = pc[u] \/ pc'[u] \notin {"start", "admin", "queue", "exit"}
      BY <1>3, <3>1
    <3>3. \A a \in Admin : /\ given[a] # 0 /\ ~hasproxy'[a] => astate'[a] \in {"cleared", "gone"}
                           /\ astate'[a] = "none" => ~hasproxy'[a]
      BY <1>1, <1>2 DEF OfferInv
    <3>4. last <= last' /\ last' \in Nat
      BY <1>1, <1>2 DEF TypeOK
    <3> QED
      BY <1>1, <1>2, <2>1, <3>1, <3>2, <3>3, <3>4, OfferKept, AllocateRound
  <2> QED
    BY <2>1, NextEventRound, IterateRound
<1>6. LineParts'
  <2>1. \A u \in AdminThread : pc'[u] = "queue" <=> pc[u] = "queue"
    BY <1>3, <1>4
  <2>2. \A u \in AdminThread : pc[u] = "queue" => adm'[u] = adm[u] /\ cursor'[u] = cursor[u]
    BY <1>3, <1>4
  <2>3. \A a \in Admin : Open(a)' => Open(a)
    BY <1>2, <1>3, <1>4 DEF Open
  <2>4. \A a \in Admin : Alive(a)' => Alive(a)
    BY <1>2 DEF Alive
  <2>5. Carrying' = Carrying /\ UNCHANGED hvars /\ last <= last' /\ last' \in Nat
    BY <1>1, <1>2 DEF Carrying, hvars, TypeOK
  <2> QED
    BY <1>1, <1>2, <2>1, <2>2, <2>3, <2>4, <2>5, LineKept
<1> QED
  BY <1>5, <1>6 DEF FeedInv

LEMMA OfferFeed ==
  ASSUME DispatchInv, FeedInv, NEW t \in AdminThread, OfferEvent(t) \/ QueueEvent(t)
  PROVE  FeedInv'
<1>1. CASE OfferEvent(t)
  BY <1>1, OfferEventRound, OfferEventLine DEF FeedInv
<1>2. CASE QueueEvent(t)
  <2>1. TypeOK /\ OfferInv /\ RoundInv
    BY DEF DispatchInv, FeedInv
  <2>2. /\ UNCHANGED <<last, cursor, closed, groups, lo, hi, ix, adm, given, hasproxy, astate>>
        /\ shutmedown' <=> shutmedown
    BY <1>2 DEF QueueEvent, fvars, avars, cvars, hvars, shutmedown
  <2>3. pc[t] = "queue" /\ pc'[t] = "group" /\ \A u \in AdminThread : u # t => pc'[u] = pc[u]
    BY <1>2, <2>1 DEF QueueEvent, Goto, TypeOK
  <2>4. \A u \in AdminThread :
          /\ pc'[u] = pc[u] \/ pc'[u] \notin {"start", "admin", "queue", "exit"}
          /\ pc'[u] \in Working <=> pc[u] \in Working
          /\ pc'[u] = "start" <=> pc[u] = "start"
          /\ pc'[u] = "admin" <=> pc[u] = "admin"
    BY <2>3 DEF Working
  <2>5. \A a \in Admin : /\ given[a] # 0 /\ ~hasproxy'[a] => astate'[a] \in {"cleared", "gone"}
                         /\ astate'[a] = "none" => ~hasproxy'[a]
    BY <2>1, <2>2 DEF OfferInv
  <2>6. last <= last' /\ last' \in Nat
    BY <2>1, <2>2 DEF TypeOK
  <2>7. OfferInv'
    BY <2>1, <2>2, <2>4, <2>5, <2>6, OfferKept
  <2>8. RoundInv'
    BY <2>1, <2>2, <2>4, RoundKept
  <2> QED
    BY <1>2, <2>7, <2>8, QueueEventLine DEF FeedInv
<1> QED
  BY <1>1, <1>2

\* Of the admins and the lists nothing changes that the threads rely on.
LEMMA OutsideFeed ==
  ASSUME DispatchInv, FeedInv, UNCHANGED <<cursor, groups, tvars, given>>,
         last <= last', last' \in Nat, shutmedown => shutmedown', closed' => closed \/ shutmedown',
         \A a \in Admin : given[a] # 0 /\ ~hasproxy'[a] => astate'[a] \in {"cleared", "gone"},
         \A a \in Admin : astate'[a] = "none" => ~hasproxy'[a]
  PROVE  OfferInv' /\ RoundInv'
<1>1. TypeOK /\ OfferInv /\ RoundInv /\ UNCHANGED <<pc, lo, hi, ix, adm>>
  BY DEF DispatchInv, FeedInv, tvars
<1>2. OfferInv'
  BY <1>1, OfferKept
<1>3. RoundInv'
  BY <1>1, RoundKept
<1> QED
  BY <1>2, <1>3

LEMMA ProxyFeed ==
  ASSUME DispatchInv, FeedInv, NEW p \in ProxyThread, ProxyDispatch(p)
  PROVE  FeedInv'
<1>1. TypeOK /\ OfferInv /\ LineParts
  BY DEF DispatchInv, FeedInv
<1>2. /\ UNCHANGED <<fvars, groups, avars, pooled, cvars, tvars, given>>
  BY DEF ProxyDispatch, TestQueue, WaitEmpty, PLockTypeMap, DispatchEvent,
         ProxyThreadOnly, hvars
<1>3. /\ UNCHANGED <<last, cursor, closed, hasproxy, astate, pc, adm>> /\ (shutmedown' <=> shutmedown)
  BY <1>2 DEF fvars, avars, cvars, tvars, shutmedown
<1>4. OfferInv' /\ RoundInv'
  <2>1. \A a \in Admin : /\ given[a] # 0 /\ ~hasproxy'[a] => astate'[a] \in {"cleared", "gone"}
                         /\ astate'[a] = "none" => ~hasproxy'[a]
    BY <1>1, <1>3 DEF OfferInv
  <2>2. last <= last' /\ last' \in Nat
    BY <1>1, <1>3 DEF TypeOK
  <2> QED
    BY <1>2, <1>3, <2>1, <2>2, OutsideFeed
<1>5. LineParts'
  <2>1. CASE TestQueue(p) /\ ~shutmedown /\ pxq # <<>>
    BY <2>1, TakeHeadLine
  <2>2. CASE DispatchEvent(p)
    BY <2>2, DispatchEventLine
  <2>3. CASE /\ UNCHANGED <<pxq, pxdis, hvars>>
             /\ \/ ppc[p] \notin {"typemap", "admin"} /\ PGoto(p, "exit")
                \/ ppc[p] \notin {"typemap", "admin"} /\ PGoto(p, "towait")
                \/ ppc[p] \notin {"typemap", "admin"} /\ PGoto(p, "asleep")
                \/ ppc[p] = "typemap" /\ PGoto(p, "admin")
    <3>1. /\ \A q \in ProxyThread : q # p => ppc'[q] = ppc[q]
          /\ ppc'[p] \in {"typemap", "admin"} <=> ppc[p] \in {"typemap", "admin"}
      BY <1>1, <2>3 DEF PGoto, TypeOK
    <3>2. Carrying' = Carrying
      BY <3>1 DEF Carrying
    <3>3. \A a \in Admin : (Open(a)' => Open(a)) /\ (Alive(a)' => Alive(a))
      BY <1>3 DEF Open, Alive
    <3>4. last <= last' /\ last' \in Nat
      BY <1>1, <1>3 DEF TypeOK
    <3> QED
      BY <1>1, <1>2, <1>3, <2>3, <3>2, <3>3, <3>4, LineKept
  <2>4. CASE TestQueue(p) /\ (shutmedown \/ pxq = <<>>)
    BY <2>3, <2>4 DEF TestQueue
  <2> QED
    BY <2>1, <2>2, <2>3, <2>4 DEF ProxyDispatch, WaitEmpty, PLockTypeMap
<1> QED
  BY <1>4, <1>5 DEF FeedInv

\* The threads stand still, and nobody gets an event.
LEMMA StillFeed ==
  ASSUME DispatchInv, FeedInv, RoundInv',
         UNCHANGED <<cursor, tvars, hvars, pxq, pxdis, pooled>>, Carrying' = Carrying,
         last <= last', last' \in Nat, shutmedown => shutmedown', closed' => closed \/ shutmedown',
         \A a \in Admin : given[a] # 0 /\ ~hasproxy'[a] => astate'[a] \in {"cleared", "gone"},
         \A a \in Admin : astate'[a] = "none" => ~hasproxy'[a],
         \A a \in Admin : Alive(a)' => Alive(a) \/ given[a] = 0
  PROVE  FeedInv'
<1>1. TypeOK /\ OfferInv /\ LineParts /\ UNCHANGED <<pc, lo, hi, ix, adm, given>>
  BY DEF DispatchInv, FeedInv, tvars, hvars
<1>2. OfferInv'
  BY <1>1, OfferKept
<1>3. \A a \in Admin : Open(a)' => Open(a)
  BY <1>1 DEF Open
<1>4. LineParts'
  BY <1>1, <1>3, LineKept
<1> QED
  BY <1>2, <1>4 DEF FeedInv

LEMMA ClientFeed ==
  ASSUME DispatchInv, FeedInv,
         Announce \/ (\E a \in Admin : ObtainProxy(a)) \/ UNCHANGED vars
  PROVE  FeedInv'
<1>1. TypeOK /\ OfferInv
  BY DEF DispatchInv, FeedInv
<1>2. /\ UNCHANGED <<cursor, closed, groups, tvars, hvars, pxq, pxdis, ppc, pooled, astate, phase>>
      /\ UNCHANGED given
  BY DEF Announce, ObtainProxy, Feed!Publish, fvars, cvars, avars, pvars, hvars, vars
<1>3. /\ last <= last' /\ last' \in Nat /\ Carrying' = Carrying
      /\ shutmedown' <=> shutmedown
  <2>1. last' = last \/ last' = last + 1
    BY DEF Announce, ObtainProxy, Feed!Publish, fvars, vars
  <2>2. last \in Nat
    BY <1>1 DEF TypeOK
  <2>3. last <= last' /\ last' \in Nat
    BY <2>1, <2>2
  <2> QED
    BY <1>2, <2>3 DEF Carrying, shutmedown
<1>4. ASSUME NEW a \in Admin
      PROVE  /\ given[a] # 0 /\ ~hasproxy'[a] => astate'[a] \in {"cleared", "gone"}
             /\ astate'[a] = "none" => ~hasproxy'[a]
             /\ Alive(a)' => Alive(a) \/ given[a] = 0
  <2>1. CASE hasproxy' = hasproxy
    BY <1>1, <1>2, <2>1 DEF OfferInv, Alive
  <2>2. ASSUME NEW b \in Admin, ObtainProxy(b)
        PROVE  /\ given[a] # 0 /\ ~hasproxy'[a] => astate'[a] \in {"cleared", "gone"}
               /\ astate'[a] = "none" => ~hasproxy'[a]
               /\ Alive(a)' => Alive(a) \/ given[a] = 0
    <3>1. /\ astate[b] = "live" /\ ~hasproxy[b]
          /\ hasproxy'[a] = IF a = b THEN TRUE ELSE hasproxy[a]
      BY <1>1, <2>2 DEF ObtainProxy, TypeOK
    <3>2. given[b] = 0
      BY <1>1, <3>1 DEF OfferInv
    <3> QED
      BY <1>1, <1>2, <3>1, <3>2 DEF OfferInv, Alive
  <2> QED
    BY <2>1, <2>2 DEF Announce, avars, vars
<1>5. RoundInv'
  BY <1>2, <1>3, <1>4, OutsideFeed
<1> QED
  BY <1>2, <1>3, <1>4, <1>5, StillFeed

LEMMA NewForConsumersFeed ==
  ASSUME DispatchInv, FeedInv, NewForConsumers
  PROVE  FeedInv'
<1>1. TypeOK /\ OfferInv /\ RoundInv /\ ListInv /\ ThreadInv
  BY DEF DispatchInv, FeedInv
<1>2. PICK g : g = GroupOf(serial)
  OBVIOUS
<1>3. /\ UNCHANGED <<last, cursor, closed, tvars, hvars, pxq, pxdis, ppc, pooled, hasproxy, phase>>
      /\ UNCHANGED <<given, pc, lo, hi, ix, adm>>
      /\ ~shutmedown /\ ~shutmedown' /\ GroupFree(g)
      /\ astate' = [astate EXCEPT ![serial] = "live"]
      /\ groups' = [groups EXCEPT ![g] = Insert(groups[g], serial)]
      /\ serial < MaxAdmins
  BY <1>2 DEF NewForConsumers, fvars, cvars, tvars, pvars, hvars, shutmedown
<1>4. serial \in Admin /\ g \in Group
  <2>1. MaxAdmins \in Nat /\ NumGroups \in Nat \ {0} /\ serial \in 1..MaxAdmins
    BY <1>1, DispatchAssumption DEF TypeOK
  <2>2. serial \in Admin
    BY <1>3, <2>1 DEF Admin
  <2> QED
    BY <1>2, <2>1, <2>2 DEF Group, GroupOf
<1>5. astate[serial] = "none"
  BY <1>1, <1>4 DEF ListInv, Admin
<1>6. ~hasproxy[serial] /\ given[serial] = 0
  BY <1>1, <1>4, <1>5 DEF OfferInv
<1>7. \A t \in AdminThread : pc[t] = "admin" => adm[t] # serial
  BY <1>1, <1>3, <1>5 DEF ThreadInv, Registered
<1>8. RoundInv'
  <2>1. ListOK(groups[g]) /\ Turned(groups[g])
    BY <1>1, <1>3, <1>4 DEF ListInv, RoundInv, RoundAt
  <2>2. PICK l, r : l = groups[g] /\ r = Insert(l, serial)
    OBVIOUS
  <2>3. /\ Turned(r) /\ (r.mark \/ r.nxt # 0 => l.mark \/ l.nxt # 0)
        /\ Len(r.elts) = Len(l.elts) + 1 /\ r.elts[Len(l.elts) + 1] = serial
        /\ \A i \in 1..Len(l.elts) :
             r.elts[i] = l.elts[i] /\ (Passed(r, i) <=> Passed(l, i))
    BY <1>4, <2>1, <2>2, InsertPlace
  <2>4. Len(l.elts) \in Nat
    BY <2>1, <2>2 DEF ListOK, List
  <2>5. ASSUME NEW i \in 1..Len(r.elts)
        PROVE  \/ \E j \in 1..Len(l.elts) :
                    r.elts[i] = l.elts[j] /\ (Passed(r, i) <=> Passed(l, j))
               \/ given[r.elts[i]] = 0 /\ \A t \in AdminThread : pc[t] = "admin" => adm[t] # r.elts[i]
    <3>1. i \in 1..Len(l.elts) \/ i = Len(l.elts) + 1
      BY <2>3, <2>4
    <3> QED
      BY <1>6, <1>7, <2>3, <3>1
  <2>6. /\ groups' = [groups EXCEPT ![g] = r] /\ Turned(r)
        /\ r.mark \/ r.nxt # 0 => groups[g].mark \/ groups[g].nxt # 0
        /\ \A i \in 1..Len(r.elts) :
             \/ \E j \in 1..Len(groups[g].elts) :
                  r.elts[i] = groups[g].elts[j] /\ (Passed(r, i) <=> Passed(groups[g], j))
             \/ given[r.elts[i]] = 0 /\ \A t \in AdminThread : pc[t] = "admin" => adm[t] # r.elts[i]
    BY <1>3, <2>2, <2>3, <2>5
  <2>7. UNCHANGED <<cursor, given, lo, hi, ix, adm, pc>>
    BY <1>3 DEF tvars
  <2> QED
    BY <1>3, <1>4, <2>6, <2>7, ListRound
<1>9. ASSUME NEW a \in Admin
      PROVE  /\ given[a] # 0 /\ ~hasproxy'[a] => astate'[a] \in {"cleared", "gone"}
             /\ astate'[a] = "none" => ~hasproxy'[a]
             /\ Alive(a)' => Alive(a) \/ given[a] = 0
  <2>1. astate'[a] = IF a = serial THEN "live" ELSE astate[a]
    BY <1>1, <1>3 DEF TypeOK
  <2> QED
    BY <1>1, <1>3, <1>6, <2>1 DEF OfferInv, Alive
<1>10. last <= last' /\ last' \in Nat /\ Carrying' = Carrying
  BY <1>1, <1>3 DEF TypeOK, Carrying
<1> QED
  BY <1>3, <1>8, <1>9, <1>10, StillFeed

LEMMA DestroyAdminFeed ==
  ASSUME DispatchInv, FeedInv, NEW a \in Admin, AdminDestroy(a) \/ DestroyAdmin(a)
  PROVE  FeedInv'
<1> USE DEF AdminDestroy, DestroyAdmin, UnregisterShut, UnregisterBegin, Unregister,
            SkipUpdate, UpdateBegin, UpdateTypeMap, DisposeProxies, AdminGone, Becomes
<1>1. TypeOK /\ OfferInv /\ RoundInv /\ ListInv
  BY DEF DispatchInv, FeedInv
<1>2. /\ UNCHANGED <<fvars, tvars, hvars, pxq, pvars, pooled, phase>>
      /\ \/ Unregister(a)
         \/ groups' = groups
  OBVIOUS
<1>3. /\ UNCHANGED <<last, cursor, closed, given, pc, lo, hi, ix, adm, ppc, pxdis>>
      /\ shutmedown' <=> shutmedown
  BY <1>2 DEF fvars, tvars, hvars, pvars, shutmedown
<1>4. /\ astate[a] # "none" /\ astate'[a] # "none" /\ astate[a] # "gone"
      /\ \A b \in Admin : b # a => astate'[b] = astate[b] /\ hasproxy'[b] = hasproxy[b]
  BY <1>1 DEF TypeOK
<1>5. \/ hasproxy'[a] = hasproxy[a] /\ (astate[a] = "cleared" => astate'[a] = "gone")
      \/ hasproxy'[a] = FALSE /\ astate'[a] = "cleared"
  BY <1>1 DEF TypeOK
<1>6. ASSUME NEW b \in Admin
      PROVE  /\ given[b] # 0 /\ ~hasproxy'[b] => astate'[b] \in {"cleared", "gone"}
             /\ astate'[b] = "none" => ~hasproxy'[b]
             /\ Alive(b)' => Alive(b)
  BY <1>1, <1>4, <1>5 DEF OfferInv, Alive
<1>7. last <= last' /\ last' \in Nat /\ Carrying' = Carrying
  BY <1>1, <1>3 DEF TypeOK, Carrying
<1>8. RoundInv'
  <2>1. CASE Unregister(a)
    <3>1. PICK g, l, r : g = GroupOf(a) /\ l = groups[g] /\ r = RemoveEntry(l, a)
      OBVIOUS
    <3>2. GroupFree(g) /\ groups' = [groups EXCEPT ![g] = r]
      BY <2>1, <3>1
    <3>3. g \in Group
      BY <3>1, DispatchAssumption DEF GroupOf, Group, Admin
    <3>4. CASE shutmedown
      BY <1>3, <3>4 DEF RoundInv
    <3>5. CASE ~shutmedown
      <4>1. ListOK(l) /\ Turned(l)
        BY <1>1, <3>1, <3>3, <3>5 DEF ListInv, RoundInv, RoundAt
      <4>2. /\ Turned(r) /\ (r.mark \/ r.nxt # 0 => l.mark \/ l.nxt # 0)
            /\ \A i \in 1..Len(r.elts) : \E j \in 1..Len(l.elts) :
                 r.elts[i] = l.elts[j] /\ (Passed(r, i) <=> Passed(l, j))
        BY SMTT(30), <3>1, <4>1, RemovePlace
      <4>3. \A i \in 1..Len(r.elts) : \E j \in 1..Len(groups[g].elts) :
              r.elts[i] = groups[g].elts[j] /\ (Passed(r, i) <=> Passed(groups[g], j))
        BY <3>1, <4>2
      <4>4. r.mark \/ r.nxt # 0 => groups[g].mark \/ groups[g].nxt # 0
        BY <3>1, <4>2
      <4>5. UNCHANGED <<cursor, given, lo, hi, ix, adm, pc>> /\ (shutmedown => shutmedown')
        BY <1>3
      <4> QED
        BY <3>2, <3>3, <4>2, <4>3, <4>4, <4>5, ListRound
    <3> QED
      BY <3>4, <3>5
  <2>2. CASE groups' = groups
    BY <1>2, <1>3, <1>6, <1>7, <2>2, OutsideFeed
  <2> QED
    BY <1>2, <2>1, <2>2
<1> QED
  BY <1>2, <1>3, <1>6, <1>7, <1>8, StillFeed

LEMMA DestroyChannelFeed ==
  ASSUME DispatchInv, FeedInv, Shutdown \/ DestroyChannel
  PROVE  FeedInv'
<1> USE DEF Shutdown, DestroyChannel, Stopped, SetFinished, BroadcastEmpty,
            JoinThreads, DisposeAdmin, Destroyed, Destroying
<1>1. TypeOK /\ OfferInv
  BY DEF DispatchInv, FeedInv
<1>2. /\ UNCHANGED <<last, cursor, hasproxy, pooled, pxq, tvars, pxdis, hvars>>
      /\ shutmedown' /\ UNCHANGED given
  BY DEF Feed!Close, fvars, shutmedown, hvars
<1>3. \A a \in Admin : astate'[a] = astate[a] \/ astate'[a] = "gone"
  BY <1>1 DEF TypeOK
<1>4. ASSUME NEW b \in Admin
      PROVE  /\ given[b] # 0 /\ ~hasproxy'[b] => astate'[b] \in {"cleared", "gone"}
             /\ astate'[b] = "none" => ~hasproxy'[b]
             /\ Alive(b)' => Alive(b)
  BY <1>1, <1>2, <1>3 DEF OfferInv, Alive
<1>5. Carrying' = Carrying
  <2>1. \A p \in ProxyThread : ppc'[p] \in {"typemap", "admin"} <=> ppc[p] \in {"typemap", "admin"}
    OBVIOUS
  <2> QED
    BY <2>1 DEF Carrying
<1>6. last <= last' /\ last' \in Nat
  BY <1>1, <1>2 DEF TypeOK
<1>7. RoundInv'
  BY <1>2 DEF RoundInv
<1> QED
  BY <1>2, <1>4, <1>5, <1>6, <1>7, StillFeed

\* The inductive invariant of what the admins and their proxies get.
THEOREM FeedInvariance == Spec => []FeedInv
<1>1. Init => FeedInv
  BY InitFeedInv
<1>2. DispatchInv /\ FeedInv /\ [Next]_vars => FeedInv'
  <2> SUFFICES ASSUME DispatchInv, FeedInv, [Next]_vars PROVE FeedInv'
    OBVIOUS
  <2>1. CASE Announce \/ (\E a \in Admin : ObtainProxy(a)) \/ UNCHANGED vars
    BY <2>1, ClientFeed
  <2>2. CASE NewForConsumers
    BY <2>2, NewForConsumersFeed
  <2>3. ASSUME NEW a \in Admin, AdminDestroy(a) \/ DestroyAdmin(a) PROVE FeedInv'
    BY <2>3, DestroyAdminFeed
  <2>4. ASSUME NEW t \in AdminThread, AdminDispatch(t) PROVE FeedInv'
    BY <2>4, QuietThreadFeed, AdminThreadFeed, OfferFeed DEF AdminDispatch
  <2>5. ASSUME NEW p \in ProxyThread, ProxyDispatch(p) PROVE FeedInv'
    BY <2>5, ProxyFeed
  <2>6. CASE Shutdown \/ DestroyChannel
    BY <2>6, DestroyChannelFeed
  <2> QED
    BY <2>1, <2>2, <2>3, <2>4, <2>5, <2>6 DEF Next
<1> QED
  BY <1>1, <1>2, Invariance, PTL DEF Spec

-----------------------------------------------------------------------------
(* The feeds of the admins                                                 *)

\* A step of a feed, or none.
FeedSteps ==
  [Unfiltered!Next]_(Unfiltered!vars) /\ [Filtered!Next]_(Filtered!vars)

LEMMA SameFeed ==
  ASSUME UNCHANGED <<last, given, matched>>
  PROVE  FeedSteps
BY DEF FeedSteps, Unfiltered!vars, Filtered!vars

LEMMA AnnounceFeed == Announce => FeedSteps
<1> SUFFICES ASSUME Announce PROVE FeedSteps
  OBVIOUS
<1>1. last < MaxEvents /\ last' = last + 1 /\ UNCHANGED <<given, matched>>
  BY DEF Announce, Feed!Publish, hvars
<1>2. Unfiltered!Publish /\ Filtered!Publish
  BY <1>1 DEF Unfiltered!Publish, Filtered!Publish
<1> QED
  BY <1>2 DEF FeedSteps, Unfiltered!Next, Filtered!Next

\* An admin's CosEvent proxies get the next event, and its other proxies too if
\* there are no proxy threads: then none is on its way that they should get first.
LEMMA OfferEventFeed ==
  ASSUME DispatchInv, FeedInv, NEW t \in AdminThread, OfferEvent(t)
  PROVE  FeedSteps
<1>1. TypeOK /\ OfferInv /\ LineInv /\ CarryInv /\ GapInv /\ ThreadInv
  BY DEF DispatchInv, FeedInv, LineParts
<1>2. PICK a, e : a = adm[t] /\ e = cursor[t]
  OBVIOUS
<1>3. CASE astate[a] = "gone" \/ ~hasproxy[a]
  BY <1>2, <1>3, SameFeed DEF OfferEvent, AdminThreadOnly, fvars, hvars
<1>4. CASE astate[a] # "gone" /\ hasproxy[a]
  <2>1. /\ pc[t] = "admin" /\ last' = last
        /\ given' = [given EXCEPT ![a] = e]
        /\ matched' = IF e \in Meant[a] /\ ~pooled
                      THEN [matched EXCEPT ![a] = e] ELSE matched
    BY <1>2, <1>4 DEF OfferEvent, fvars
  <2>2. /\ MaxEvents \in Nat /\ \A x \in Event : x \in 1..MaxEvents
        /\ \A b \in Admin : Meant[b] \subseteq Event
    BY DispatchAssumption DEF Event
  <2>3. a \in Admin /\ e \in 1..last /\ last \in 0..MaxEvents /\ e \in Event
    <3>1. a \in Admin /\ cursor[t] # 0
      BY <1>1, <1>2, <2>1 DEF TypeOK, ThreadInv
    <3>2. cursor[t] \in 0..MaxEvents /\ last \in 0..MaxEvents /\ cursor[t] <= last
      BY <1>1 DEF TypeOK, OfferInv
    <3> QED
      BY <1>2, <2>2, <3>1, <3>2 DEF Event
  <2>4. given[a] = 0 \/ given[a] = e - 1
    BY <1>1, <1>2, <2>1 DEF OfferInv, Latest
  <2>5. Unfiltered!Give(a)
    <3>1. e > given[a]
      BY <2>3, <2>4
    <3>2. Unfiltered!Follows(a, e)
      BY <2>2, <2>3, <2>4 DEF Unfiltered!Follows
    <3>3. e \in [b \in Admin |-> Event][a] \cap (1..last)
      BY <2>3
    <3> QED
      BY <2>1, <3>1, <3>2, <3>3 DEF Unfiltered!Give
  <2>6. CASE ~(e \in Meant[a] /\ ~pooled)
    <3>1. UNCHANGED Filtered!vars
      BY <2>1, <2>6 DEF Filtered!vars
    <3> QED
      BY <2>3, <2>5, <3>1 DEF FeedSteps, Unfiltered!Next
  <2>7. CASE e \in Meant[a] /\ ~pooled
    <3>1. \A x \in Event : ~Pending(a, x)
      BY <1>1, <2>3, <2>7 DEF LineInv
    <3>2. /\ matched[a] \in 0..MaxEvents /\ given[a] \in 0..MaxEvents
          /\ matched[a] <= given[a]
      BY <1>1, <2>3 DEF CarryInv, TypeOK
    <3>3. e > matched[a]
      BY <2>3, <2>4, <3>2
    <3>4. Filtered!Follows(a, e)
      <4> SUFFICES ASSUME matched[a] # 0, NEW d \in Meant[a], d > matched[a], ~(e <= d)
                   PROVE  FALSE
        BY DEF Filtered!Follows
      <4>1. d \in Event /\ d <= given[a]
        <5>0. Meant[a] \subseteq Event
          BY <2>2, <2>3
        <5>1. d \in Event /\ d \in Nat
          BY <2>2, <5>0
        <5>2. given[a] = e - 1
          BY <2>4, <3>2
        <5> QED
          BY <2>3, <5>1, <5>2
      <4>2. Alive(a) /\ Open(a) /\ matched[a] \in Event
        BY <1>2, <1>4, <2>1, <3>2 DEF Alive, Open, Event
      <4>3. Begun(a, matched[a]) /\ Ahead(a, d)
        BY <4>1, <4>2 DEF Begun, Ahead
      <4>4. Pending(a, d)
        BY <1>1, <2>2, <2>3, <3>2, <4>1, <4>2, <4>3 DEF GapInv
      <4> QED
        BY <3>1, <4>1, <4>4
    <3>5. Filtered!Give(a)
      BY <2>1, <2>3, <2>7, <3>3, <3>4 DEF Filtered!Give
    <3> QED
      BY <2>3, <2>5, <3>5 DEF FeedSteps, Unfiltered!Next, Filtered!Next
  <2> QED
    BY <2>6, <2>7
<1> QED
  BY <1>3, <1>4

\* The other proxies get the event a proxy thread has in hand, which is the first
\* on its way to the admin: none that is meant for them is missing before it.
LEMMA DispatchEventFeed ==
  ASSUME DispatchInv, FeedInv, NEW p \in ProxyThread, DispatchEvent(p)
  PROVE  FeedSteps
<1>1. TypeOK /\ LineInv /\ CarryInv /\ GapInv
  BY DEF DispatchInv, FeedInv, LineParts
<1>2. PICK c, y : c = pxdis[p].admin /\ y = pxdis[p].event
  OBVIOUS
<1>3. /\ ppc[p] = "admin"
      /\ matched' = IF astate[c] # "gone" /\ hasproxy[c] THEN [matched EXCEPT ![c] = y] ELSE matched
      /\ UNCHANGED <<last, given>>
  BY <1>2 DEF DispatchEvent, ProxyThreadOnly, fvars
<1>4. UNCHANGED Unfiltered!vars
  BY <1>3 DEF Unfiltered!vars
<1>5. CASE ~Alive(c)
  BY <1>3, <1>5, SameFeed DEF Alive
<1>6. CASE Alive(c)
  <2>1. /\ MaxEvents \in Nat /\ \A x \in Event : x \in 1..MaxEvents
        /\ \A b \in Admin : Meant[b] \subseteq Event
    BY DispatchAssumption DEF Event
  <2>2. p \in Carrying
    BY <1>3 DEF Carrying
  <2>3. c \in Admin /\ y \in Event /\ Pending(c, y)
    BY <1>1, <1>2, <2>2 DEF LineInv, Pending
  <2>4. /\ y \in Meant[c] /\ matched[c] < y /\ y <= given[c] /\ given[c] <= last
        /\ matched[c] \in 0..MaxEvents /\ last \in 0..MaxEvents /\ given[c] \in 0..MaxEvents
    BY <1>1, <2>3 DEF CarryInv, TypeOK
  <2>5. Filtered!Follows(c, y)
    <3> SUFFICES ASSUME matched[c] # 0, NEW d \in Meant[c], d > matched[c], ~(y <= d)
                 PROVE  FALSE
      BY DEF Filtered!Follows
    <3>1. d \in Event /\ d < y /\ matched[c] \in Event /\ matched[c] < d
      BY <2>1, <2>3, <2>4 DEF Event
    <3>2. Begun(c, matched[c]) /\ Ahead(c, d)
      BY <2>3, <3>1 DEF Begun, Ahead
    <3>3. Pending(c, d)
      BY <1>1, <1>6, <2>3, <3>1, <3>2 DEF GapInv
    <3>4. CASE \E q \in Carrying : pxdis[q].admin = c /\ pxdis[q].event = d
      <4>1. d = y
        BY <1>1, <1>2, <2>2, <3>4 DEF LineInv
      <4> QED
        BY <2>1, <2>3, <3>1, <4>1
    <3>5. CASE \E i \in 1..Len(pxq) : pxq[i].admin = c /\ pxq[i].event = d
      <4>1. y < d
        BY <1>1, <1>2, <2>2, <3>5 DEF LineInv
      <4> QED
        BY <2>1, <2>3, <3>1, <4>1
    <3>6. CASE \E t \in AdminThread : pc[t] = "queue" /\ adm[t] = c /\ cursor[t] = d
      <4>1. y < d
        BY <1>1, <1>2, <2>2, <3>6 DEF LineInv
      <4> QED
        BY <2>1, <2>3, <3>1, <4>1
    <3> QED
      BY <3>3, <3>4, <3>5, <3>6 DEF Pending
  <2>6. Filtered!Give(c)
    <3>1. y \in Meant[c] \cap (1..last) /\ y > matched[c]
      BY <2>1, <2>3, <2>4
    <3>2. matched' = [matched EXCEPT ![c] = y]
      BY <1>3, <1>6 DEF Alive
    <3> QED
      BY <1>3, <2>5, <3>1, <3>2 DEF Filtered!Give
  <2> QED
    BY <1>4, <2>3, <2>6 DEF FeedSteps, Filtered!Next
<1> QED
  BY <1>5, <1>6

\* Each admin's CosEvent proxies get all events, and its other proxies those that
\* match its filters, from some event on, each once and in order of publication:
\* whatever threads and groups there are, and whatever admins come and go.
THEOREM DispatchIsFeed == Spec => FeedSpec
<1>1. Init => Unfiltered!Init /\ Filtered!Init
  <2> SUFFICES ASSUME Init PROVE Unfiltered!Init /\ Filtered!Init
    OBVIOUS
  <2>1. last = 0
    BY Zenon DEF Init, Feed!Init
  <2>2. given = [a \in Admin |-> 0] /\ matched = [a \in Admin |-> 0]
    BY DEF Init
  <2> QED
    BY <2>1, <2>2 DEF Unfiltered!Init, Filtered!Init
<1>2. DispatchInv /\ FeedInv /\ [Next]_vars =>
        [Unfiltered!Next]_(Unfiltered!vars) /\ [Filtered!Next]_(Filtered!vars)
  <2> SUFFICES ASSUME DispatchInv, FeedInv, [Next]_vars PROVE FeedSteps
    BY DEF FeedSteps
  <2>1. CASE Announce
    BY <2>1, AnnounceFeed
  <2>2. ASSUME NEW t \in AdminThread, AdminDispatch(t) PROVE FeedSteps
    <3>1. CASE OfferEvent(t)
      BY <3>1, OfferEventFeed
    <3>2. CASE ~OfferEvent(t)
      BY <2>2, <3>2, SameFeed
         DEF AdminDispatch, AllocateRange, ShutExit, CallNextEvent, NextEvent, NextEventNull,
             LockTypeMap, IterateGroup, QueueEvent, Feed!Deliver, fvars, hvars
    <3> QED
      BY <3>1, <3>2
  <2>3. ASSUME NEW p \in ProxyThread, ProxyDispatch(p) PROVE FeedSteps
    <3>1. CASE DispatchEvent(p)
      BY <3>1, DispatchEventFeed
    <3>2. CASE ~DispatchEvent(p)
      BY <2>3, <3>2, SameFeed
         DEF ProxyDispatch, TestQueue, WaitEmpty, PLockTypeMap, ProxyThreadOnly, fvars, hvars
    <3> QED
      BY <3>1, <3>2
  <2>4. CASE \/ NewForConsumers \/ UNCHANGED vars
             \/ \E a \in Admin : ObtainProxy(a) \/ AdminDestroy(a) \/ DestroyAdmin(a)
    BY <2>4, SameFeed
       DEF NewForConsumers, ObtainProxy, AdminDestroy, DestroyAdmin, UnregisterShut,
           UnregisterBegin, Unregister, SkipUpdate, UpdateBegin, UpdateTypeMap,
           DisposeProxies, AdminGone, Becomes, fvars, hvars, vars
  <2>5. CASE Shutdown \/ DestroyChannel
    BY <2>5, SameFeed
       DEF Shutdown, DestroyChannel, Stopped, SetFinished, BroadcastEmpty, JoinThreads,
           DisposeAdmin, Destroyed, Destroying, Feed!Close, fvars, hvars
  <2> QED
    BY <2>1, <2>2, <2>3, <2>4, <2>5 DEF Next
<1> QED
  BY <1>1, <1>2, Invariance, FeedInvariance, PTL DEF Spec, FeedSpec, Unfiltered!Spec, Filtered!Spec
=============================================================================
