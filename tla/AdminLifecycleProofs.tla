------------------------ MODULE AdminLifecycleProofs ------------------------
(***************************************************************************)
(* The counters of an admin, the end of its proxies and the threads that   *)
(* dispose of them, for any number of proxies.                             *)
(***************************************************************************)
EXTENDS AdminLifecycle, FiniteSetTheorems, TLAPS

(***************************************************************************)
(* The invariant.  Tables: what the states of the proxies say about the    *)
(* tables of the admin and about those whom its destruction has counted.   *)
(***************************************************************************)
Tables ==
  /\ \A p \in registered : pxstate[p] # "none"
  /\ adm \in {"open", "unregister", "inuse"} => counted = {}
  /\ twice \subseteq counted /\ twice \cap registered = {}
  /\ \A p \in counted : pxstate[p] = "Disconnected"
  /\ adm # "done" => \A p \in Proxy : pxstate[p] = "live" => p \in registered
  /\ adm = "clear" /\ chan = "open" => registered \subseteq counted
  /\ (adm = "open") <=> (destroyer = "none")
  /\ \A p \in found : pxstate[p] # "none"

(* Places: who is in the disposal of a proxy. *)
Places ==
  /\ \A t \in Proxy : on[t] \in {t, "none"}
  /\ \A t \in Thread : (at[t] = "idle") <=> (on[t] = "none")
  /\ \A t \in Thread : on[t] # "none" => pxstate[on[t]] = "Disconnected"

IInv == TypeOK /\ Tables /\ Places /\ CountsFollow /\ NoneLeft

LEMMA Subsets ==
  ASSUME TypeOK
  PROVE  IsFiniteSet(registered \ counted) /\ IsFiniteSet(twice)
         /\ Cardinality(registered \ counted) \in Nat /\ Cardinality(twice) \in Nat
BY LifecycleAssumption, FS_Subset, FS_CardinalityType DEF TypeOK

LEMMA ProxyIsThread == Proxy \subseteq Thread /\ "gc" \in Thread
BY DEF Thread

LEMMA Start == ASSUME Init PROVE IInv
<1> USE DEF Init
<1>1. TypeOK
  <2>1. /\ pxstate \in [Proxy -> {"none", "live", "Disconnected"}]
        /\ at \in [Thread -> {"idle", "inuse", "remove", "update"}]
    OBVIOUS
  <2>2. on \in [Thread -> Proxy \cup {"none"}]  OBVIOUS
  <2>3. gc \in BOOLEAN /\ inTable \in BOOLEAN  OBVIOUS
  <2>4. /\ gone = {} /\ pushing = {} /\ changing = {} /\ registered = {} /\ counted = {} /\ twice = {} /\ found = {}
        /\ num = 0 /\ consumers = 0 /\ adm = "open" /\ destroyer = "none" /\ chan = "open"
    OBVIOUS
  <2> HIDE DEF Init
  <2> QED  BY <2>1, <2>2, <2>3, <2>4 DEF TypeOK
<1>2. Tables /\ NoneLeft  BY DEF Tables, NoneLeft
<1>3. Places  BY ProxyIsThread DEF Places
<1>4. CountsFollow
  <2>1. registered \ counted = {} /\ twice = {}  OBVIOUS
  <2>2. Cardinality({}) = 0  BY FS_EmptySet
  <2> QED  BY <2>1, <2>2 DEF CountsFollow
<1> QED  BY <1>1, <1>2, <1>3, <1>4 DEF IInv

(* The tables are not touched. *)
LEMMA SameCounts ==
  ASSUME CountsFollow, UNCHANGED <<registered, counted, twice, num, consumers>>,
         adm' # "done" => adm # "done", chan' = "open" => chan = "open"
  PROVE  CountsFollow'
BY DEF CountsFollow

LEMMA CreateSafe == ASSUME IInv, NEW p \in Proxy, Create(p) PROVE IInv'
<1> USE DEF IInv, Create, disposal, admin, collect, channel
<1>1. TypeOK'  BY DEF TypeOK
<1>2. Tables' /\ NoneLeft'  BY DEF Tables, NoneLeft, TypeOK, Open
<1>3. Places'  BY DEF Places, TypeOK
<1>4. CountsFollow'
  <2>1. p \notin registered \ counted /\ p \notin counted  BY DEF Tables, Open
  <2>2. registered' \ counted = (registered \ counted) \cup {p}  BY <2>1
  <2>3. Cardinality(registered' \ counted) = Cardinality(registered \ counted) + 1
    BY <2>1, <2>2, Subsets, FS_AddElement
  <2> QED  BY <2>3, Subsets DEF CountsFollow, Open, TypeOK
<1> QED  BY <1>1, <1>2, <1>3, <1>4

LEMMA PushSafe ==
  ASSUME IInv, NEW p \in Proxy,
         PushBegins(p) \/ PushEnds(p) \/ ChangeBegins(p) \/ ChangeEnds(p)
  PROVE  IInv'
<1> USE DEF IInv, PushBegins, PushEnds, ChangeBegins, ChangeEnds, counts, disposal, admin, collect, channel
<1>1. TypeOK'  BY DEF TypeOK
<1>2. Tables' /\ NoneLeft'  BY DEF Tables, NoneLeft
<1>3. Places'  BY DEF Places
<1>4. CountsFollow'  BY SameCounts
<1> QED  BY <1>1, <1>2, <1>3, <1>4

(* A thread enters the disposal of a proxy, or a proxy is disconnected. *)
LEMMA EnterPlaces ==
  ASSUME TypeOK, Places, NEW t \in Thread, NEW p \in Proxy, t \in Proxy => t = p, Enter(t, p)
  PROVE  /\ Places' /\ gone' = gone /\ pushing' = pushing /\ changing' = changing
         /\ pxstate' = [pxstate EXCEPT ![p] = "Disconnected"]
         /\ at' \in [Thread -> {"idle", "inuse", "remove", "update"}]
         /\ on' \in [Thread -> Proxy \cup {"none"}]
BY LifecycleAssumption DEF TypeOK, Places, Enter

(* What a disconnection leaves of the tables. *)
LEMMA Disconnected ==
  ASSUME TypeOK, Tables, NoneLeft, NEW p \in Proxy,
         \/ pxstate' = pxstate
         \/ pxstate[p] # "none" /\ pxstate' = [pxstate EXCEPT ![p] = "Disconnected"],
         UNCHANGED <<registered, counted, twice, adm, destroyer, chan>>, found' \subseteq found
  PROVE  Tables' /\ NoneLeft' /\ pxstate' \in [Proxy -> {"none", "live", "Disconnected"}]
BY DEF TypeOK, Tables, NoneLeft

LEMMA DisconnectSafe == ASSUME IInv, NEW p \in Proxy, Disconnect(p) \/ SafeCleanup(p) PROVE IInv'
<1> USE DEF IInv
<1>1. /\ pxstate[p] = "live"
      /\ \/ Enter(p, p)
         \/ pxstate' = [pxstate EXCEPT ![p] = "Disconnected"] /\ UNCHANGED <<gone, pushing, changing, at, on>>
      /\ UNCHANGED <<registered, num, consumers, adm, destroyer, counted, twice, gc, found, chan, inTable>>
  BY DEF Disconnect, SafeCleanup, counts, disposal, admin, collect, channel
<1>2. CountsFollow'  BY <1>1, SameCounts
<1>3. p \in Thread  BY ProxyIsThread
<1>4. pxstate' = [pxstate EXCEPT ![p] = "Disconnected"]  BY <1>1 DEF Enter
<1>5. Tables' /\ NoneLeft' /\ pxstate' \in [Proxy -> {"none", "live", "Disconnected"}]
  BY <1>1, <1>4, Disconnected
<1>6. CASE Enter(p, p)
  <2>1. TypeOK'  BY <1>1, <1>3, <1>5, <1>6, EnterPlaces DEF TypeOK
  <2> QED  BY <1>2, <1>3, <1>5, <1>6, <2>1, EnterPlaces
<1>7. CASE pxstate' = [pxstate EXCEPT ![p] = "Disconnected"] /\ UNCHANGED <<gone, pushing, changing, at, on>>
  <2>1. TypeOK'  BY <1>1, <1>5, <1>7 DEF TypeOK
  <2>2. Places'  BY <1>7 DEF Places, TypeOK
  <2> QED  BY <1>2, <1>5, <2>1, <2>2
<1> QED  BY <1>1, <1>6, <1>7

LEMMA InuseOneSafe == ASSUME IInv, NEW t \in Thread, InuseOne(t) PROVE IInv'
<1> USE DEF IInv, counts, admin, collect, channel
<1>1. /\ at[t] = "inuse" /\ UNCHANGED <<pxstate, pushing, changing, counts, admin, twice, collect, channel>>
      /\ \/ /\ at' = [at EXCEPT ![t] = "idle"] /\ on' = [on EXCEPT ![t] = "none"]
            /\ gone' = gone \cup {on[t]}
         \/ at' = [at EXCEPT ![t] = "remove"] /\ UNCHANGED <<on, gone>>
  BY DEF InuseOne
<1>2. on[t] \in Proxy  BY <1>1 DEF TypeOK, Places
<1>3. TypeOK'  BY <1>1, <1>2 DEF TypeOK
<1>4. Tables' /\ NoneLeft'  BY <1>1 DEF Tables, NoneLeft
<1>5. Places'  BY <1>1, ProxyIsThread DEF Places, TypeOK
<1>6. CountsFollow'  BY <1>1, SameCounts
<1> QED  BY <1>3, <1>4, <1>5, <1>6

LEMMA UpdateAndDisposeSafe == ASSUME IInv, NEW t \in Thread, UpdateAndDispose(t) PROVE IInv'
<1> USE DEF IInv, UpdateAndDispose, counts, admin, collect, channel
<1>1. on[t] \in Proxy  BY DEF TypeOK, Places
<1>2. TypeOK'  BY <1>1 DEF TypeOK
<1>3. Tables' /\ NoneLeft'  BY DEF Tables, NoneLeft
<1>4. Places'  BY DEF Places, TypeOK
<1>5. CountsFollow'  BY SameCounts
<1> QED  BY <1>2, <1>3, <1>4, <1>5

LEMMA RemoveProxySafe == ASSUME IInv, NEW t \in Thread, RemoveProxy(t) PROVE IInv'
<1> USE DEF IInv, RemoveProxy, proxies, counts, admin, collect, channel
<1>1. on[t] \in Proxy /\ pxstate[on[t]] = "Disconnected"  BY DEF TypeOK, Places
<1>2. TypeOK'  BY <1>1 DEF TypeOK, CountOut
<1>3. Tables' /\ NoneLeft'  BY <1>1 DEF Tables, NoneLeft, TypeOK
<1>4. Places'  BY DEF Places, TypeOK
<1>5. CountsFollow'
  <2> DEFINE p == on[t]
  <2>1. CASE p \notin registered  BY <2>1, SameCounts
  <2>2. CASE p \in registered \ counted
    <3>1. registered' \ counted = (registered \ counted) \ {p}  BY <2>2
    <3>2. IsFiniteSet(registered \ counted)  BY Subsets
    <3> HIDE DEF RemoveProxy, IInv, p
    <3>3. Cardinality((registered \ counted) \ {p}) = Cardinality(registered \ counted) - 1
      BY <2>2, <3>2, FS_RemoveElement
    <3>4. Cardinality(registered' \ counted) = Cardinality(registered \ counted) - 1  BY <3>1, <3>3
    <3> USE DEF RemoveProxy, IInv, p
    <3> QED  BY <2>2, <3>4, Subsets DEF CountsFollow, CountOut, TypeOK
  <2>3. CASE p \in registered /\ p \in counted
    <3>1. registered' \ counted = registered \ counted  BY <2>3
    <3>2. p \notin twice  BY <2>3 DEF Tables
    <3>3. Cardinality(twice \cup {p}) = Cardinality(twice) + 1  BY <3>2, Subsets, FS_AddElement
    <3>4. /\ twice' = twice \cup {p} /\ registered' \ counted' = registered \ counted
          /\ num' = num - 1 /\ chan' = chan /\ adm' = adm
          /\ chan = "open" => consumers' = consumers - 1
      BY <2>3, <3>1 DEF CountOut
    <3>5. Cardinality(twice') = Cardinality(twice) + 1  BY <3>3, <3>4
    <3>6. num \in Int /\ consumers \in Int  BY DEF TypeOK
    <3>7. /\ Cardinality(registered' \ counted') = Cardinality(registered \ counted)
          /\ Cardinality(registered \ counted) \in Nat /\ Cardinality(twice) \in Nat
      BY <3>4, Subsets
    <3>8. adm # "done" => num' = Cardinality(registered' \ counted') - Cardinality(twice')
      BY <3>4, <3>5, <3>6, <3>7 DEF CountsFollow
    <3> QED  BY <3>4, <3>6, <3>8 DEF CountsFollow
  <2> QED  BY <2>1, <2>2, <2>3
<1> QED  BY <1>2, <1>3, <1>4, <1>5

LEMMA NextProxySafe == ASSUME IInv, NextProxy PROVE IInv'
<1> USE DEF IInv
<1>1. PICK p \in registered \ counted :
        /\ counted' = counted \cup {p} /\ CountOut
        /\ IF Guarded(p) THEN UNCHANGED <<proxies, disposal>> ELSE Enter(destroyer, p)
  BY DEF NextProxy
<1>2. adm = "iterate" /\ UNCHANGED <<registered, adm, destroyer, twice, gc, found, chan, inTable>>
  BY DEF NextProxy, collect, channel
<1>3. p \in Proxy /\ pxstate[p] # "none"  BY DEF TypeOK, Tables
<1>4. destroyer \in Thread \ Proxy  BY <1>2, LifecycleAssumption DEF Tables, TypeOK, Thread
<1>5. \/ UNCHANGED <<pxstate, gone, pushing, changing, at, on>> /\ pxstate[p] = "Disconnected"
      \/ Enter(destroyer, p)
  BY <1>1 DEF Guarded, proxies, disposal
<1>6. /\ Places' /\ gone' = gone /\ pushing' = pushing /\ changing' = changing
      /\ at' \in [Thread -> {"idle", "inuse", "remove", "update"}]
      /\ on' \in [Thread -> Proxy \cup {"none"}]
  <2>1. CASE UNCHANGED <<pxstate, gone, pushing, changing, at, on>>  BY <2>1 DEF Places, TypeOK
  <2>2. CASE Enter(destroyer, p)  BY <1>3, <1>4, <2>2, EnterPlaces
  <2> QED  BY <1>5, <2>1, <2>2
<1>7. pxstate' = [pxstate EXCEPT ![p] = "Disconnected"]  BY <1>3, <1>5 DEF Enter, TypeOK
<1>8. TypeOK'  BY <1>1, <1>2, <1>3, <1>6, <1>7 DEF TypeOK, CountOut
<1>9. Tables' /\ NoneLeft'  BY <1>1, <1>2, <1>3, <1>7 DEF Tables, NoneLeft, TypeOK
<1>10. CountsFollow'
  <2>1. registered \ counted' = (registered \ counted) \ {p}  BY <1>1
  <2>2. Cardinality(registered \ counted') = Cardinality(registered \ counted) - 1
    BY <2>1, Subsets, FS_RemoveElement
  <2> QED  BY <1>1, <1>2, <2>2, Subsets DEF CountsFollow, CountOut, TypeOK
<1> QED  BY <1>6, <1>8, <1>9, <1>10

LEMMA AdminSafe ==
  ASSUME IInv, Destroy \/ Unregister \/ AdminInuseOne \/ AllVisited \/ Clear
  PROVE  IInv'
<1> USE DEF IInv, Destroy, Unregister, AdminInuseOne, AllVisited, Clear, Dispose,
            proxies, counts, disposal, admin, collect, channel
<1>1. TypeOK'  BY DEF TypeOK
<1>2. Tables'  BY DEF Tables, TypeOK
<1>3. NoneLeft'  BY DEF Tables, NoneLeft, TypeOK
<1>4. Places'  BY DEF Places
<1>5. CountsFollow'
  <2>1. CASE Clear  BY <2>1 DEF CountsFollow
  <2>2. CASE ~Clear  BY <2>2, SameCounts
  <2> QED  BY <2>1, <2>2
<1> QED  BY <1>1, <1>2, <1>3, <1>4, <1>5

LEMMA CollectorSafe == ASSUME IInv, Visit \/ Collector PROVE IInv'
<1> USE DEF IInv
<1>1. CASE Visit \/ VisitEnds \/ LeaveAdmin
  <2> USE DEF Visit, VisitEnds, LeaveAdmin, Deserted, Dispose, proxies, counts, disposal, admin, channel
  <2>1. TypeOK'  BY <1>1 DEF TypeOK
  <2>2. Tables' /\ NoneLeft'  BY <1>1 DEF Tables, NoneLeft
  <2>3. Places'  BY <1>1 DEF Places
  <2>4. CountsFollow'  BY <1>1, SameCounts
  <2> QED  BY <2>1, <2>2, <2>3, <2>4
<1>2. CASE ObjGc
  <2>1. PICK p \in found : /\ found' = found \ {p}
                           /\ \/ UNCHANGED <<proxies, disposal>>
                              \/ p \notin gone /\ ~Guarded(p) /\ Enter("gc", p)
    BY <1>2 DEF ObjGc
  <2>2. UNCHANGED <<registered, num, consumers, adm, destroyer, counted, twice, gc, chan, inTable>>
    BY <1>2 DEF ObjGc, counts, admin, channel
  <2>3. p \in Proxy /\ pxstate[p] # "none"  BY <2>1 DEF Tables, TypeOK
  <2>4. CASE UNCHANGED <<proxies, disposal>>
    <3>1. TypeOK' /\ Places'  BY <2>1, <2>2, <2>4 DEF TypeOK, Places, proxies, disposal
    <3>2. Tables' /\ NoneLeft'  BY <2>1, <2>2, <2>4 DEF Tables, NoneLeft, proxies
    <3> QED  BY <2>2, <3>1, <3>2, SameCounts
  <2>5. CASE Enter("gc", p)
    <3>1. "gc" \in Thread \ Proxy  BY LifecycleAssumption DEF Thread
    <3>2. /\ Places' /\ gone' = gone /\ pushing' = pushing /\ changing' = changing
          /\ pxstate' = [pxstate EXCEPT ![p] = "Disconnected"]
          /\ at' \in [Thread -> {"idle", "inuse", "remove", "update"}]
          /\ on' \in [Thread -> Proxy \cup {"none"}]
      BY <2>3, <2>5, <3>1, EnterPlaces
    <3>3. Tables' /\ NoneLeft' /\ pxstate' \in [Proxy -> {"none", "live", "Disconnected"}]
      BY <2>1, <2>2, <2>3, <3>2, Disconnected
    <3>4. TypeOK'  BY <2>1, <2>2, <3>2, <3>3 DEF TypeOK
    <3> QED  BY <2>2, <3>2, <3>3, <3>4, SameCounts
  <2> QED  BY <2>1, <2>4, <2>5
<1> QED  BY <1>1, <1>2 DEF Collector

LEMMA ChannelSafe == ASSUME IInv, Shutdown \/ DestroyAdmins \/ ChannelGone PROVE IInv'
<1> USE DEF IInv, Shutdown, DestroyAdmins, ChannelGone, Dispose,
            proxies, counts, disposal, admin, collect, channel
<1>1. TypeOK'  BY DEF TypeOK
<1>2. Tables' /\ NoneLeft'  BY DEF Tables, NoneLeft
<1>3. Places'  BY DEF Places
<1>4. CountsFollow'  BY SameCounts
<1> QED  BY <1>1, <1>2, <1>3, <1>4

LEMMA Step == ASSUME IInv, [Next]_vars PROVE IInv'
<1>1. ASSUME NEW p \in Proxy, Create(p)  PROVE IInv'  BY <1>1, CreateSafe
<1>2. ASSUME NEW p \in Proxy,
             PushBegins(p) \/ PushEnds(p) \/ ChangeBegins(p) \/ ChangeEnds(p)
      PROVE  IInv'
  BY <1>2, PushSafe
<1>3. ASSUME NEW p \in Proxy, Disconnect(p) \/ SafeCleanup(p)  PROVE IInv'  BY <1>3, DisconnectSafe
<1>4. ASSUME NEW t \in Thread, Disposes(t)  PROVE IInv'
  BY <1>4, InuseOneSafe, RemoveProxySafe, UpdateAndDisposeSafe DEF Disposes
<1>5. CASE Destroy \/ AdminEnds  BY <1>5, AdminSafe, NextProxySafe DEF AdminEnds
<1>6. CASE Visit \/ Collector  BY <1>6, CollectorSafe
<1>7. CASE Shutdown \/ DestroyAdmins \/ ChannelGone  BY <1>7, ChannelSafe
<1>8. CASE UNCHANGED vars
  BY <1>8 DEF vars, proxies, counts, disposal, admin, collect, channel,
              IInv, TypeOK, Tables, Places, CountsFollow, NoneLeft
<1> QED  BY <1>1, <1>2, <1>3, <1>4, <1>5, <1>6, <1>7, <1>8 DEF Next

(* Every variable keeps its type. *)
THEOREM LifecycleTypes == Spec => []TypeOK
<1>1. Init => IInv  BY Start
<1>2. IInv /\ [Next]_vars => IInv'  BY Step
<1>3. IInv => TypeOK  BY DEF IInv
<1> QED  BY <1>1, <1>2, <1>3, PTL DEF Spec

(* For any number of proxies: the admin's counter of proxies is what its   *)
(* tables say, less the proxies that its destruction and their own         *)
(* disconnection have both counted out, and so is the channel's.           *)
THEOREM CountsCorrect == Spec => []CountsFollow
<1>1. Init => IInv  BY Start
<1>2. IInv /\ [Next]_vars => IInv'  BY Step
<1>3. IInv => CountsFollow  BY DEF IInv
<1> QED  BY <1>1, <1>2, <1>3, PTL DEF Spec

(* For any number of proxies: when the destruction of an admin has ended   *)
(* in an open channel, none of its proxies is connected any more.          *)
THEOREM NobodyLeft == Spec => []NoneLeft
<1>1. Init => IInv  BY Start
<1>2. IInv /\ [Next]_vars => IInv'  BY Step
<1>3. IInv => NoneLeft  BY DEF IInv
<1> QED  BY <1>1, <1>2, <1>3, PTL DEF Spec

(***************************************************************************)
(* The threads in the disposal of a proxy.  Disposal: no two of them are   *)
(* in the same one; Removal: what they have achieved when they reach the   *)
(* admin, and when they are through.                                       *)
(***************************************************************************)
Disposal ==
  /\ \A t, u \in Thread : t # u /\ on[t] = on[u] => on[t] = "none"
  /\ \A p \in Proxy : on[p] # "none" => p \notin Batch
  /\ \A t \in {"adm", "chn"} : on[t] # "none" => t = destroyer /\ adm = "iterate"
  /\ on["gc"] # "none" => gc /\ (destroyer # "gc" \/ adm = "iterate")
  /\ adm = "iterate" /\ gc => destroyer = "gc"
  /\ destroyer = "gc" /\ adm # "done" => gc
  /\ adm = "iterate" /\ on[destroyer] # "none" => on[destroyer] \in counted

Removal ==
  /\ \A t \in Thread : at[t] \in {"remove", "update"} => on[t] \notin pushing \cup changing
  /\ \A t \in Thread : at[t] = "update" => on[t] \notin registered
  /\ \A p \in gone :
       /\ \A t \in Thread : on[t] # p
       /\ p \notin pushing \cup changing /\ p \notin registered \ counted /\ pxstate[p] = "Disconnected"

DInv == IInv /\ Disposal /\ Removal

LEMMA Threads == "adm" \in Thread /\ "chn" \in Thread /\ "gc" \in Thread /\ Proxy \subseteq Thread
                 /\ "none" \notin Thread /\ "none" \notin Proxy
BY LifecycleAssumption DEF Thread

LEMMA DStart == ASSUME Init PROVE Disposal /\ Removal
BY Threads DEF Init, Disposal, Removal

(* The step leaves the disposals alone. *)
LEMMA SameDisposal ==
  ASSUME DInv, UNCHANGED <<on, adm, destroyer, gc>>,
         adm = "iterate" => counted \subseteq counted'
  PROVE  Disposal'
BY DEF DInv, Disposal

LEMMA SameRemoval ==
  ASSUME DInv, UNCHANGED <<at, on, gone, pushing, changing, pxstate>>,
         registered' \subseteq registered, counted \subseteq counted'
  PROVE  Removal'
BY DEF DInv, Removal

(* A thread enters the disposal of a proxy that nobody disposes of. *)
LEMMA EnterSafe ==
  ASSUME DInv, NEW t \in Thread, NEW p \in Proxy \ gone, Enter(t, p),
         \A u \in Thread : on[u] # p, on[t] = "none",
         t \in Proxy => t = p /\ p \notin Batch,
         t \in {"adm", "chn"} => t = destroyer /\ adm = "iterate",
         t = "gc" => gc /\ (destroyer # "gc" \/ adm = "iterate"),
         adm = "iterate" /\ t = destroyer => p \in counted',
         UNCHANGED <<registered, adm, destroyer, gc>>, counted \subseteq counted'
  PROVE  Disposal' /\ Removal'
<1> USE DEF DInv, IInv, Enter
<1>1. /\ on' = [on EXCEPT ![t] = p] /\ at' = [at EXCEPT ![t] = "inuse"]
      /\ pxstate' = [pxstate EXCEPT ![p] = "Disconnected"]
      /\ on \in [Thread -> Proxy \cup {"none"}] /\ at \in [Thread -> {"idle", "inuse", "remove", "update"}]
      /\ pxstate \in [Proxy -> {"none", "live", "Disconnected"}] /\ gone \subseteq Proxy
      /\ destroyer \in {"none", "adm", "chn", "gc"}
  BY DEF TypeOK
<1>2. Disposal'
  <2>1. \A u, v \in Thread : u # v /\ on'[u] = on'[v] => on'[u] = "none"
    BY <1>1, Threads DEF Disposal
  <2>2. \A q \in Proxy : on'[q] # "none" => q \notin Batch  BY <1>1, Threads DEF Disposal
  <2>3. \A u \in {"adm", "chn"} : on'[u] # "none" => u = destroyer' /\ adm' = "iterate"
    BY <1>1, Threads DEF Disposal
  <2>4. on'["gc"] # "none" => gc' /\ (destroyer' # "gc" \/ adm' = "iterate")
    BY <1>1, Threads DEF Disposal
  <2>5. adm' = "iterate" /\ on'[destroyer'] # "none" => on'[destroyer'] \in counted'
    <3>1. adm = "iterate" => destroyer \in Thread  BY <1>1, Threads DEF Tables
    <3> QED  BY <1>1, <3>1 DEF Disposal
  <2> QED  BY <2>1, <2>2, <2>3, <2>4, <2>5 DEF Disposal
<1>3. Removal'
  <2>1. \A u \in Thread : u # t => on'[u] = on[u] /\ at'[u] = at[u]  BY <1>1
  <2>2. on'[t] = p /\ at'[t] = "inuse"  BY <1>1
  <2>3. \A q \in gone : q # p /\ pxstate'[q] = pxstate[q]  BY <1>1
  <2> QED  BY <2>1, <2>2, <2>3 DEF Removal
<1> QED  BY <1>2, <1>3

(* A thread leaves the disposal of a proxy that is then gone. *)
LEMMA LeaveSafe ==
  ASSUME DInv, NEW t \in Thread, on[t] # "none", on[t] \notin pushing \cup changing, on[t] \notin registered \ counted,
         at' = [at EXCEPT ![t] = "idle"], on' = [on EXCEPT ![t] = "none"], gone' = gone \cup {on[t]},
         UNCHANGED <<pxstate, pushing, changing, registered, adm, destroyer, counted, gc>>
  PROVE  Disposal' /\ Removal'
<1> USE DEF DInv, IInv
<1>1. /\ on \in [Thread -> Proxy \cup {"none"}] /\ at \in [Thread -> {"idle", "inuse", "remove", "update"}]
      /\ destroyer \in {"none", "adm", "chn", "gc"}
  BY DEF TypeOK
<1>2. \A u \in Thread : on'[u] = (IF u = t THEN "none" ELSE on[u])
                        /\ at'[u] = (IF u = t THEN "idle" ELSE at[u])
  BY <1>1
<1>3. Disposal'
  <2>1. adm = "iterate" => destroyer \in Thread  BY <1>1, Threads DEF Tables
  <2> QED  BY <1>2, <2>1, Threads DEF Disposal
<1>4. Removal'
  <2>1. pxstate[on[t]] = "Disconnected"  BY DEF Places
  <2>2. \A u \in Thread : on'[u] # on[t]  BY <1>2 DEF Disposal
  <2>3. /\ \A u \in Thread : at'[u] \in {"remove", "update"} => on'[u] \notin pushing' \cup changing'
        /\ \A u \in Thread : at'[u] = "update" => on'[u] \notin registered'
    BY <1>2 DEF Removal
  <2>4. \A p \in gone : /\ \A u \in Thread : on'[u] # p
                       /\ p \notin pushing' \cup changing' /\ p \notin registered' \ counted'
                       /\ pxstate'[p] = "Disconnected"
    <3>1. \A p \in gone : p # "none"  BY Threads DEF TypeOK
    <3> QED  BY <1>2, <3>1 DEF Removal
  <2> QED  BY <2>1, <2>2, <2>3, <2>4 DEF Removal
<1> QED  BY <1>3, <1>4

(* Nobody disposes of a proxy that is not disconnected, and it is not gone. *)
LEMMA Undisturbed ==
  ASSUME DInv, NEW p \in Proxy, pxstate[p] # "Disconnected"
  PROVE  p \notin gone /\ \A u \in Thread : on[u] # p
BY Threads DEF DInv, IInv, Places, Removal

LEMMA ProxyDSafe ==
  ASSUME DInv, Batch \cap Unconnected = {}, NEW p \in Proxy,
         \/ Create(p) \/ PushBegins(p) \/ PushEnds(p) \/ ChangeBegins(p) \/ ChangeEnds(p)
         \/ Disconnect(p) \/ SafeCleanup(p)
  PROVE  Disposal' /\ Removal'
<1> USE DEF counts, disposal, admin, collect, channel
<1>1. CASE Create(p)
  <2>1. Disposal'  BY <1>1, SameDisposal DEF Create
  <2>2. pxstate[p] = "none" /\ p \notin gone /\ \A u \in Thread : on[u] # p
    BY <1>1, Undisturbed DEF Create
  <2>3. Removal'  BY <1>1, <2>2 DEF Create, DInv, IInv, TypeOK, Removal
  <2> QED  BY <2>1, <2>3
<1>2. CASE PushBegins(p) \/ PushEnds(p) \/ ChangeBegins(p) \/ ChangeEnds(p)
  <2>1. Disposal'  BY <1>2, SameDisposal DEF PushBegins, PushEnds, ChangeBegins, ChangeEnds
  <2>2. PushBegins(p) \/ ChangeBegins(p) => p \notin gone /\ \A u \in Thread : on[u] # p
    BY Undisturbed DEF PushBegins, ChangeBegins
  <2>3. Removal'
    BY <1>2, <2>2 DEF PushBegins, PushEnds, ChangeBegins, ChangeEnds, Removal, DInv
  <2> QED  BY <2>1, <2>3
<1>3. CASE Disconnect(p) \/ SafeCleanup(p)
  <2>1. /\ pxstate[p] = "live" /\ p \notin gone /\ \A u \in Thread : on[u] # p
        /\ UNCHANGED <<registered, adm, destroyer, counted, gc>>
    BY <1>3, Undisturbed DEF Disconnect, SafeCleanup
  <2>2. \/ Enter(p, p) /\ p \notin Batch
        \/ pxstate' = [pxstate EXCEPT ![p] = "Disconnected"] /\ UNCHANGED <<gone, pushing, changing, at, on>>
    BY <1>3 DEF Disconnect, SafeCleanup
  <2>3. on[p] = "none"  BY <2>1, Threads DEF DInv, IInv, Places
  <2>4. CASE Enter(p, p) /\ p \notin Batch
    <3>1. p \in Thread /\ p \notin {"adm", "chn", "gc"}  BY Threads, LifecycleAssumption
    <3>2. p # destroyer \/ adm # "iterate"  BY <3>1, LifecycleAssumption DEF DInv, IInv, TypeOK
    <3> QED  BY <2>1, <2>3, <2>4, <3>1, <3>2, EnterSafe
  <2>5. CASE pxstate' = [pxstate EXCEPT ![p] = "Disconnected"] /\ UNCHANGED <<gone, pushing, changing, at, on>>
    <3>1. Disposal'  BY <2>1, <2>5, SameDisposal
    <3>2. Removal'  BY <2>1, <2>5 DEF Removal, DInv, IInv, TypeOK
    <3> QED  BY <3>1, <3>2
  <2> QED  BY <2>2, <2>4, <2>5
<1> QED  BY <1>1, <1>2, <1>3

LEMMA DisposesDSafe == ASSUME DInv, NEW t \in Thread, Disposes(t) PROVE Disposal' /\ Removal'
<1> USE DEF proxies, counts, admin, collect, channel
<1>1. on[t] # "none" /\ on[t] \in Proxy
  BY DEF Disposes, InuseOne, RemoveProxy, UpdateAndDispose, DInv, IInv, Places, TypeOK
<1>2. CASE InuseOne(t)
  <2>1. on[t] \notin pushing \cup changing
    <3>1. /\ on[t] \in pushing => "push" \in Users(on[t])
          /\ on[t] \in changing => "change" \in Users(on[t])
      BY DEF Users
    <3>2. "push" # t /\ "change" # t  BY LifecycleAssumption DEF Thread
    <3>3. Users(on[t]) = {t}  BY <1>2 DEF InuseOne, AloneIn
    <3> QED  BY <3>1, <3>2, <3>3
  <2>2. CASE t = destroyer /\ adm = "iterate"
    <3>1. on[t] \in counted  BY <1>1, <2>2 DEF DInv, Disposal
    <3> QED  BY <1>1, <1>2, <2>1, <2>2, <3>1, LeaveSafe DEF InuseOne
  <2>3. CASE ~(t = destroyer /\ adm = "iterate")
    <3>1. /\ at' = [at EXCEPT ![t] = "remove"]
          /\ UNCHANGED <<on, gone, pxstate, pushing, changing, registered, adm, destroyer, counted, gc>>
      BY <1>2, <2>3 DEF InuseOne
    <3>2. Disposal'  BY <3>1, SameDisposal
    <3>3. Removal'  BY <2>1, <3>1 DEF Removal, DInv, IInv, TypeOK
    <3> QED  BY <3>2, <3>3
  <2> QED  BY <2>2, <2>3
<1>3. CASE RemoveProxy(t)
  <2>1. /\ at[t] = "remove" /\ at' = [at EXCEPT ![t] = "update"]
        /\ UNCHANGED <<on, gone, pxstate, pushing, changing, adm, destroyer, counted, gc>>
        /\ registered' = registered \ {on[t]}
    BY <1>3 DEF RemoveProxy
  <2>2. Disposal'  BY <2>1, SameDisposal
  <2>3. Removal'  BY <2>1 DEF Removal, DInv, IInv, TypeOK
  <2> QED  BY <2>2, <2>3
<1>4. CASE UpdateAndDispose(t)
  <2>1. on[t] \notin pushing \cup changing /\ on[t] \notin registered  BY <1>4 DEF UpdateAndDispose, DInv, Removal
  <2> QED  BY <1>1, <1>4, <2>1, LeaveSafe DEF UpdateAndDispose
<1> QED  BY <1>2, <1>3, <1>4 DEF Disposes

LEMMA NextProxyDSafe == ASSUME DInv, NextProxy PROVE Disposal' /\ Removal'
<1> USE DEF disposal, proxies, collect, channel
<1>1. PICK p \in registered \ counted :
        /\ counted' = counted \cup {p}
        /\ IF Guarded(p) THEN UNCHANGED <<proxies, disposal>> ELSE Enter(destroyer, p)
  BY DEF NextProxy
<1>2. /\ adm = "iterate" /\ at[destroyer] = "idle"
      /\ UNCHANGED <<registered, adm, destroyer, gc>>
  BY DEF NextProxy
<1>3. destroyer \in {"adm", "chn", "gc"} /\ destroyer \in Thread
  BY <1>2, Threads DEF DInv, IInv, Tables, TypeOK
<1>4. on[destroyer] = "none" /\ p \in Proxy /\ p \notin gone
  BY <1>1, <1>2, <1>3 DEF DInv, IInv, Places, TypeOK, Removal
<1>5. CASE Guarded(p)  BY <1>1, <1>2, <1>5, SameDisposal, SameRemoval
<1>6. CASE ~Guarded(p)
  <2>1. Enter(destroyer, p)  BY <1>1, <1>6
  <2>2. \A u \in Thread : on[u] # p
    <3>1. CASE pxstate[p] # "Disconnected"  BY <1>4, <3>1, Undisturbed
    <3>2. CASE p \in Batch
      <4>1. \A u \in Proxy : on[u] # p
        BY <1>4, <3>2, Threads DEF DInv, IInv, Places, Disposal
      <4>2. \A u \in {"adm", "chn", "gc"} : on[u] # "none" => u = destroyer
        BY <1>2 DEF DInv, Disposal
      <4> QED  BY <1>4, <4>1, <4>2, Threads DEF Thread
    <3> QED  BY <1>6, <3>1, <3>2 DEF Guarded
  <2>3. /\ destroyer \notin Proxy
        /\ destroyer = "gc" => gc
    BY <1>2, <1>3, LifecycleAssumption DEF DInv, Disposal
  <2> QED  BY <1>1, <1>2, <1>3, <1>4, <2>1, <2>2, <2>3, EnterSafe
<1> QED  BY <1>5, <1>6

LEMMA AdminDSafe ==
  ASSUME DInv, Destroy \/ Unregister \/ AdminInuseOne \/ AllVisited \/ Clear
  PROVE  Disposal' /\ Removal'
<1> USE DEF Destroy, Unregister, AdminInuseOne, AllVisited, Clear, Dispose,
            proxies, counts, disposal, admin, collect, channel
<1>1. Removal'  BY SameRemoval DEF DInv, Removal
<1>2. /\ UNCHANGED <<on, gc, counted>>
      /\ destroyer' \in {destroyer, "adm"}
      /\ destroyer' # destroyer => destroyer = "none" /\ adm = "open" /\ adm' = "unregister"
      /\ adm' = "iterate" => adm = "inuse" /\ AdminAlone
  BY DEF DInv, IInv, Tables
<1>3. adm = "iterate" => at[destroyer] = "idle" /\ destroyer \in Thread
  BY Threads DEF DInv, IInv, Tables, TypeOK
<1>4. adm = "iterate" => on[destroyer] = "none"  BY <1>3 DEF DInv, IInv, Places
<1>5. Disposal'
  <2> HIDE DEF Destroy, Unregister, AdminInuseOne, AllVisited, Clear
  <2>1. adm' = "iterate" => adm = "inuse" /\ destroyer' = destroyer /\ (gc => destroyer = "gc")
    BY <1>2 DEF AdminAlone
  <2>2. \A t \in {"adm", "chn"} : on[t] = "none"  BY <1>4 DEF DInv, Disposal
  <2>3. on["gc"] # "none" => gc /\ destroyer' # "gc"  BY <1>2, <1>4 DEF DInv, Disposal
  <2>4. destroyer' = "gc" /\ adm' # "done" => gc'
    BY <1>2 DEF DInv, Disposal, Destroy, Unregister, AdminInuseOne, AllVisited, Clear
  <2>5. adm' = "iterate" => on'[destroyer'] = "none"
    <3>1. adm' = "iterate" => destroyer' \in {"adm", "chn", "gc"}
      BY <1>2, <2>1 DEF DInv, IInv, Tables, TypeOK
    <3> QED  BY <1>2, <2>2, <2>3, <3>1
  <2> QED  BY <1>2, <2>1, <2>2, <2>3, <2>4, <2>5 DEF DInv, Disposal
<1> QED  BY <1>1, <1>5

LEMMA CollectorDSafe == ASSUME DInv, Visit \/ Collector PROVE Disposal' /\ Removal'
<1> USE DEF counts, disposal, admin, channel, proxies
<1>1. CASE Visit \/ VisitEnds \/ LeaveAdmin
  <2> USE DEF Visit, VisitEnds, LeaveAdmin, Deserted, Dispose
  <2>1. Removal'  BY <1>1, SameRemoval
  <2>2. VisitEnds => on["gc"] = "none"  BY Threads DEF DInv, IInv, Places
  <2>3. Disposal'  BY <1>1, <2>2 DEF DInv, IInv, Tables, Disposal, Unlocked
  <2> QED  BY <2>1, <2>3
<1>2. CASE ObjGc
  <2>1. PICK p \in found : \/ UNCHANGED <<proxies, disposal>>
                           \/ p \notin gone /\ ~Guarded(p) /\ Enter("gc", p)
    BY <1>2 DEF ObjGc
  <2>2. /\ gc /\ at["gc"] = "idle" /\ destroyer # "gc"
        /\ UNCHANGED <<registered, adm, destroyer, counted, gc>>
    BY <1>2 DEF ObjGc
  <2>3. p \in Proxy /\ on["gc"] = "none"  BY <2>1, <2>2, Threads DEF DInv, IInv, TypeOK, Places
  <2>4. CASE UNCHANGED <<proxies, disposal>>  BY <2>2, <2>4, SameDisposal, SameRemoval
  <2>5. CASE p \notin gone /\ ~Guarded(p) /\ Enter("gc", p)
    <3>1. \A u \in Thread : on[u] # p
      <4>1. CASE pxstate[p] # "Disconnected"  BY <2>3, <4>1, Undisturbed
      <4>2. CASE p \in Batch
        <5>1. \A u \in Proxy : on[u] # p
          BY <2>3, <4>2, Threads DEF DInv, IInv, Places, Disposal
        <5>2. \A u \in {"adm", "chn"} : on[u] = "none"  BY <2>2 DEF DInv, Disposal
        <5> QED  BY <2>3, <5>1, <5>2, Threads DEF Thread
      <4> QED  BY <2>5, <4>1, <4>2 DEF Guarded
    <3>2. "gc" \notin Proxy  BY LifecycleAssumption
    <3> QED  BY <2>2, <2>3, <2>5, <3>1, <3>2, Threads, EnterSafe
  <2> QED  BY <2>1, <2>4, <2>5
<1> QED  BY <1>1, <1>2 DEF Collector

LEMMA ChannelDSafe ==
  ASSUME DInv, Shutdown \/ DestroyAdmins \/ ChannelGone PROVE Disposal' /\ Removal'
<1> USE DEF Shutdown, DestroyAdmins, ChannelGone, Dispose,
            proxies, counts, disposal, admin, collect, channel
<1>1. Removal'  BY SameRemoval
<1>2. Disposal'  BY DEF DInv, IInv, Tables, Disposal
<1> QED  BY <1>1, <1>2

(* If the operator cleans up no sequence push supplier: a proxy is disposed *)
(* of by one thread, which is alone in it when it deletes it, and which has *)
(* seen to it that the admin has counted the proxy out.                     *)
THEOREM OneDisposes == ASSUME Batch \cap Unconnected = {} PROVE Spec => []OneDisposer
<1>1. Init => DInv  BY Start, DStart DEF DInv
<1>2. DInv /\ [Next]_vars => DInv'
  <2> SUFFICES ASSUME DInv, [Next]_vars PROVE Disposal' /\ Removal'  BY Step DEF DInv
  <2>1. ASSUME NEW p \in Proxy,
               \/ Create(p) \/ PushBegins(p) \/ PushEnds(p) \/ ChangeBegins(p) \/ ChangeEnds(p)
         \/ Disconnect(p) \/ SafeCleanup(p)
        PROVE  Disposal' /\ Removal'
    BY <2>1, ProxyDSafe
  <2>2. ASSUME NEW t \in Thread, Disposes(t)  PROVE Disposal' /\ Removal'  BY <2>2, DisposesDSafe
  <2>3. CASE Destroy \/ AdminEnds  BY <2>3, AdminDSafe, NextProxyDSafe DEF AdminEnds
  <2>4. CASE Visit \/ Collector  BY <2>4, CollectorDSafe
  <2>5. CASE Shutdown \/ DestroyAdmins \/ ChannelGone  BY <2>5, ChannelDSafe
  <2>6. CASE UNCHANGED vars
    BY <2>6, SameDisposal, SameRemoval DEF vars, proxies, counts, disposal, admin, collect
  <2> QED  BY <2>1, <2>2, <2>3, <2>4, <2>5, <2>6 DEF Next
<1>3. DInv => OneDisposer
  <2> SUFFICES ASSUME DInv PROVE OneDisposer  OBVIOUS
  <2>1. ASSUME NEW p \in Proxy  PROVE Cardinality({t \in Thread : on[t] = p}) <= 1
    <3>1. CASE {t \in Thread : on[t] = p} = {}  BY <3>1, FS_EmptySet
    <3>2. CASE \E t \in Thread : on[t] = p
      <4>1. PICK t \in Thread : on[t] = p  BY <3>2
      <4>2. {u \in Thread : on[u] = p} = {t}  BY <4>1, Threads DEF DInv, Disposal
      <4>3. Cardinality({t}) = 1  BY FS_Singleton
      <4> QED  BY <4>2, <4>3
    <3> QED  BY <3>1, <3>2
  <2>2. \A p \in gone : Users(p) = {} /\ p \notin registered \ counted  BY DEF DInv, Removal, Users
  <2> QED  BY <2>1, <2>2 DEF OneDisposer
<1> QED  BY <1>1, <1>2, <1>3, PTL DEF Spec

=============================================================================
