-------------------------------- MODULE Matching --------------------------------
(***************************************************************************)
(* Filters (Filter_i), the consumer admins and proxy suppliers that hold   *)
(* them (FAdminHelper), and the type map of the channel (RDI_TypeMap), in  *)
(* which each holder is listed under the event types it wants, with the    *)
(* filter that wants them or, for types subscribed to without a filter,    *)
(* with NoFilter.  Dispatching looks an event's type up in the map and     *)
(* evaluates only the filters it finds there.                              *)
(*                                                                         *)
(* A client's call changes a filter's constraints under the filter's lock; *)
(* the lock is then released, and the thread tells the holders one by one, *)
(* each of them updating the map under the locks of the channel and of the *)
(* map.  Clients attach, detach and change filters meanwhile, and the      *)
(* garbage collector destroys filters that nobody holds.                   *)
(*                                                                         *)
(* Constraints differ in their event types only: their expressions are     *)
(* taken to be true.                                                       *)
(***************************************************************************)
EXTENDS FilterTypes

CONSTANTS
  Filters, Admins, Proxies,
  Threads,
  Shapes,      \* the sequences of event types that clients put in a constraint
  Subs,        \* the sets of event types that clients pass to subscription_change
  Events,      \* the event types of events
  MaxIds,      \* bound: constraints ever added to a filter, [Filters -> Nat]
  MaxEdits,    \* bound: constraints deleted or replaced by one modify_constraints
  NoFilter

Holders == Admins \union Proxies

ASSUME MatchingAssumption ==
  /\ Admins \intersect Proxies = {}
  /\ IsFiniteSet(Filters) /\ NoFilter \notin Filters
  /\ Shapes \subseteq Seq(Types) /\ Subs \subseteq SUBSET Types
  /\ MaxIds \in [Filters -> Nat] /\ MaxEdits \in Nat

VARIABLES
  flt,    \* per filter: its tables (cons, all, dom), the next constraint id, the
          \* holders it calls back (_callbacks_i), and whether it is destroyed
  fa,     \* per holder: its filters (_filters of its FAdminHelper)
  rqst,   \* per holder: _rqstypes
  tmap,   \* per holder, event type, filter: how often the map lists it
  thr,    \* per thread: idle, or what it still has to tell whom
  raced   \* history: filters changed while another change was being told

vars == <<flt, fa, rqst, tmap, thr, raced>>

Idle == [f |-> NoFilter, add |-> NoChange, rem |-> NoChange, todo |-> {}]

NewFilter == [cons |-> <<>>, all |-> NoChange, dom |-> {}, next |-> 1,
              cbs |-> {}, state |-> "live"]

Init ==
  /\ flt = [f \in Filters |-> NewFilter]
  /\ fa = [h \in Holders |-> {}]
  /\ rqst = [h \in Holders |-> {}]
  /\ tmap = [h \in Holders |-> [t \in Types |-> [f \in Filters \union {NoFilter} |-> 0]]]
  /\ thr = [i \in Threads |-> Idle]
  /\ raced = {}

-----------------------------------------------------------------------------
(* The type map                                                            *)

\* Each type removed takes away one entry of the filter, if there is one; then
\* each type added makes one.
Update(m, h, f, add, rem) ==
  [m EXCEPT ![h] = [t \in Types |->
     [m[h][t] EXCEPT ![f] = (IF @ > rem[t] THEN @ - rem[t] ELSE 0) + add[t]]]]

Once(S) == Plus(NoChange, S)

\* The map without what the holder has subscribed to without a filter.
Unsubscribed(h) == Update(tmap, h, NoFilter, NoChange, Once(rqst[h]))

-----------------------------------------------------------------------------
(* Changes of a filter's constraints                                       *)

InFlight(f) == \E i \in Threads : thr[i].f = f

\* A filter's tables as a change starts with them.
Tables(f) == [cons |-> flt[f].cons, all |-> flt[f].all, dom |-> flt[f].dom,
              add |-> NoChange, rem |-> NoChange, carry |-> {}]

HasNews(e) == NetAdd(e) # NoChange \/ NetRem(e) # NoChange

\* The tables get their new contents and, when something is left to be told, the
\* thread takes a copy of the callbacks with it and releases the filter.
SetTables(f, e) ==
  [flt[f] EXCEPT !.cons = e.cons, !.all = e.all, !.dom = e.dom]

Tell(i, f, e) ==
  /\ thr' = [thr EXCEPT ![i] =
       IF HasNews(e) /\ flt[f].cbs # {}
         THEN [f |-> f, add |-> NetAdd(e), rem |-> NetRem(e), todo |-> flt[f].cbs]
         ELSE Idle]
  /\ raced' = IF HasNews(e) /\ InFlight(f) THEN raced \union {f} ELSE raced

\* add_constraints; shapes is the list of their event types.
AddConstraints(i, f, shapes) ==
  LET n == flt[f].next
      e == AddAll(Tables(f), [k \in DOMAIN shapes |-> [id |-> n + k - 1, types |-> shapes[k]]])
  IN  /\ thr[i] = Idle
      /\ flt[f].state # "dead"
      /\ flt' = [flt EXCEPT ![f] = [SetTables(f, e) EXCEPT !.next = n + Len(shapes)]]
      /\ Tell(i, f, e)
      /\ UNCHANGED <<fa, rqst, tmap>>

ConstraintIds(f) == {flt[f].cons[k].id : k \in DOMAIN flt[f].cons}

\* modify_constraints, with constraint ids that exist and are listed once.
ModifyConstraints(i, f, del, mod) ==
  LET e == Modify(Tables(f), del, mod)
  IN  /\ thr[i] = Idle
      /\ flt[f].state # "dead"
      /\ flt' = [flt EXCEPT ![f] = SetTables(f, e)]
      /\ Tell(i, f, e)
      /\ UNCHANGED <<fa, rqst, tmap>>

RemoveAllConstraints(i, f) ==
  LET e == RemoveAll(Tables(f))
  IN  /\ thr[i] = Idle
      /\ flt[f].state # "dead"
      /\ flt' = [flt EXCEPT ![f] = SetTables(f, e)]
      /\ Tell(i, f, e)
      /\ UNCHANGED <<fa, rqst, tmap>>

\* One round of the loop over the copied callbacks: propagate_schange.
PropagateSchange(i, h) ==
  LET u == thr[i]
  IN  /\ h \in u.todo
      /\ tmap' = Update(tmap, h, u.f, u.add, u.rem)
      /\ thr' = [thr EXCEPT ![i] = IF u.todo = {h} THEN Idle ELSE [u EXCEPT !.todo = @ \ {h}]]
      /\ UNCHANGED <<flt, fa, rqst, raced>>

-----------------------------------------------------------------------------
(* Garbage collection of a filter                                          *)

Destroyed(f) == [NewFilter EXCEPT !.state = "dead", !.next = flt[f].next]

\* cleanup_and_dispose of a filter that nobody holds.  Telling nobody about the
\* removed constraints, the thread still releases the lock for a moment.
CleanupAndDispose(i, f) ==
  LET e == RemoveAll(Tables(f))
  IN  /\ thr[i] = Idle
      /\ flt[f].state = "live"
      /\ flt[f].cbs = {}
      /\ IF HasNews(e)
           THEN /\ flt' = [flt EXCEPT ![f] = [SetTables(f, e) EXCEPT !.state = "dying"]]
                /\ thr' = [thr EXCEPT ![i] = [Idle EXCEPT !.f = f]]
           ELSE /\ flt' = [flt EXCEPT ![f] = Destroyed(f)]
                /\ thr' = thr
      /\ raced' = IF InFlight(f) THEN raced \union {f} ELSE raced
      /\ UNCHANGED <<fa, rqst, tmap>>

\* The rest of it.  Holders that came meanwhile keep the filter: rem_filter_i
\* returns before it removes anything.
Dispose(i) ==
  LET f == thr[i].f
  IN  /\ f # NoFilter
      /\ thr[i].todo = {}
      /\ flt' = [flt EXCEPT ![f] = Destroyed(f)]
      /\ thr' = [thr EXCEPT ![i] = Idle]
      /\ UNCHANGED <<fa, rqst, tmap, raced>>

-----------------------------------------------------------------------------
(* Calls on a holder, each under the locks of channel, map and holder      *)

\* add_filter, of a filter that the holder does not have yet.
AddFilter(i, h, f) ==
  /\ thr[i] = Idle
  /\ f \notin fa[h]
  /\ rqst' = [rqst EXCEPT ![h] = {}]
  /\ IF flt[f].state = "dead"      \* the call fails
       THEN /\ tmap' = Unsubscribed(h)
            /\ UNCHANGED <<flt, fa>>
       ELSE /\ tmap' = Update(Unsubscribed(h), h, f, Once(flt[f].dom), NoChange)
            /\ flt' = [flt EXCEPT ![f].cbs = @ \union {h}]
            /\ fa' = [fa EXCEPT ![h] = @ \union {f}]
  /\ UNCHANGED <<thr, raced>>

BeingTold(h) == {f \in Filters : \E i \in Threads : thr[i].f = f /\ h \in thr[i].todo}

\* Wrong: the types of the filter are left in the map.
Detach_quiet(h, S) ==
  /\ flt' = [f \in Filters |-> IF f \in S THEN [flt[f] EXCEPT !.cbs = @ \ {h}] ELSE flt[f]]
  /\ tmap' = tmap
  /\ raced' = raced \union (S \intersect BeingTold(h))
\* fadmin_removal_i, of each of the filters in S.
Detach(h, S) ==
  /\ flt' = [f \in Filters |-> IF f \in S THEN [flt[f] EXCEPT !.cbs = @ \ {h}] ELSE flt[f]]
  /\ tmap' = [tmap EXCEPT ![h] = [t \in Types |-> [f \in Filters \union {NoFilter} |->
       IF f \in S /\ t \in flt[f].dom /\ @[t][f] > 0 THEN @[t][f] - 1 ELSE @[t][f]]]]
  /\ raced' = raced \union (S \intersect BeingTold(h))

\* remove_filter; a proxy's does nothing, and that of a destroyed filter fails.
RemoveFilter(i, h, f) ==
  /\ thr[i] = Idle
  /\ h \in Admins
  /\ f \in fa[h]
  /\ flt[f].state # "dead"
  /\ Detach(h, {f})
  /\ fa' = [fa EXCEPT ![h] = @ \ {f}]
  /\ UNCHANGED <<rqst, thr>>

DeadAt(h) == {f \in fa[h] : flt[f].state = "dead"}

\* remove_all_filters; it fails at a destroyed filter, with the filters before
\* it detached but still in the table.
RemoveAllFilters(i, h, S) ==
  /\ thr[i] = Idle
  /\ fa[h] # {}
  /\ IF DeadAt(h) = {} THEN S = fa[h] ELSE S \subseteq fa[h] \ DeadAt(h)
  /\ Detach(h, S)
  /\ fa' = IF DeadAt(h) = {} THEN [fa EXCEPT ![h] = {}] ELSE fa
  /\ UNCHANGED <<rqst, thr>>

\* subscription_change: compute_diff, then the map, then _rqstypes.
SubscriptionChange(i, h, added, deled) ==
  /\ thr[i] = Idle
  /\ fa[h] = {}
  /\ tmap' = Update(tmap, h, NoFilter, Once(added \ rqst[h]), Once((rqst[h] \intersect deled) \ added))
  /\ rqst' = [rqst EXCEPT ![h] = (@ \ deled) \union added]
  /\ UNCHANGED <<flt, fa, thr, raced>>

-----------------------------------------------------------------------------

\* The arguments of modify_constraints: the constraints in ids up to the k-th are
\* deleted, the others replaced.
EditLists(f) ==
  {s \in UNION {[1..n -> ConstraintIds(f)] : n \in 1..MaxEdits} :
     \A j, k \in DOMAIN s : s[j] = s[k] => j = k}

Edit(i, f) ==
  \E ids \in EditLists(f) : \E k \in 0..Len(ids) : \E sh \in [1..Len(ids) - k -> Shapes] :
    ModifyConstraints(i, f, SubSeq(ids, 1, k),
                      [j \in 1..Len(ids) - k |-> [id |-> ids[k + j], types |-> sh[j]]])

AddSome(i, f) ==
  \E n \in 1..(MaxIds[f] + 1 - flt[f].next) : \E sh \in [1..n -> Shapes] :
    AddConstraints(i, f, sh)

ChangeFilter(i, f) ==
  AddSome(i, f) \/ Edit(i, f) \/ RemoveAllConstraints(i, f) \/ CleanupAndDispose(i, f)

ChangeHolder(i, h) ==
  \/ \E f \in Filters : AddFilter(i, h, f) \/ RemoveFilter(i, h, f)
  \/ \E S \in SUBSET fa[h] : RemoveAllFilters(i, h, S)
  \/ \E added, deled \in Subs : SubscriptionChange(i, h, added, deled)

Next == \E i \in Threads :
  \/ \E f \in Filters : ChangeFilter(i, f)
  \/ \E h \in Holders : ChangeHolder(i, h) \/ PropagateSchange(i, h)
  \/ Dispose(i)

Spec == Init /\ [][Next]_vars

-----------------------------------------------------------------------------
(* Dispatching one event: what the map lists, and what is evaluated        *)

\* lookupFilter: how often the four lists for event type ev name the filter f.
Listed(h, f, ev) ==
  SumFunction([t \in {t \in Types : Dominates(t, ev)} |-> tmap[h][t][f]])

RdiMatch(f, ev) ==
  f = NoFilter \/ (flt[f].state # "dead" /\ Matches(flt[f].cons, ev))

\* How many of the entries found match: a proxy is given the event that often.
Hits(h, ev) ==
  SumFunction([f \in {f \in Filters \union {NoFilter} : RdiMatch(f, ev)} |-> Listed(h, f, ev)])

\* Wrong: subscriptions without a filter are not looked at.
HasFilters_tableOnly(h) == fa[h] # {}
HasFilters(h) == fa[h] # {} \/ rqst[h] # {}

\* EventChannel_i::match_event; "no" is when the admin is not offered the event.
MatchEvent(a, ev, op) ==
  CASE ~HasFilters(a) -> "NoFilters"
    [] HasFilters(a) /\ Hits(a, ev) > 0 -> IF op = "or" THEN "OrMatch" ELSE "AndMatch"
    [] OTHER -> IF op = "or" THEN "OrFailed" ELSE "no"

\* ConsumerAdmin_i::dispatch_event, for one of the admin's proxies: how many times
\* the event is added to the proxy's queue.
DispatchEvent(p, ev, astat) ==
  CASE astat = "no" -> 0
    [] astat = "OrMatch" -> 1
    [] astat \notin {"no", "OrMatch"} /\ ~HasFilters(p) -> IF astat = "OrFailed" THEN 0 ELSE 1
    [] OTHER -> Hits(p, ev)

-----------------------------------------------------------------------------
(* What dispatching promises                                               *)

\* Does a holder's client want events of type ev, by its filters' constraints and
\* its subscriptions?
WantedAt(h, ev) ==
  \/ IsDominated(rqst[h], ev)
  \/ \E f \in fa[h] : flt[f].cons # <<>> /\ Matches(flt[f].cons, ev)

\* A holder with neither filters nor subscriptions leaves it to the other one.
Indifferent(h) == fa[h] = {} /\ rqst[h] = {}

Wants(p, a, ev, op) ==
  \/ Indifferent(a) /\ Indifferent(p)
  \/ Indifferent(a) /\ WantedAt(p, ev)
  \/ Indifferent(p) /\ WantedAt(a, ev)
  \/ op = "or" /\ (WantedAt(a, ev) \/ WantedAt(p, ev))
  \/ op = "and" /\ WantedAt(a, ev) /\ WantedAt(p, ev)

-----------------------------------------------------------------------------
(* What clients must keep to for the map to be right; the properties below hold  *)
(* of other clients only in part.                                                *)

\* Two types that dominate one are comparable: "A::*" and "*::T" are not both in use.
Nested == \A s, t \in Types, u \in Types \union Events :
  Dominates(s, u) /\ Dominates(t, u) => Dominates(s, t) \/ Dominates(t, s)

\* In a constraint no type dominates one that is listed before it.
Ordered(l) == \A j, k \in DOMAIN l : j < k /\ Dominates(l[k], l[j]) => l[k] = l[j]

\* Of two edits in one call, or of types that replace each other, the lists of added
\* and of removed types may both name a type, which says nothing of it.
SimpleEdits == MaxEdits = 1 /\ \A l \in Shapes : Ordered(l)

-----------------------------------------------------------------------------
(* Properties                                                              *)

\* Every variable keeps its type; in particular no update of the map takes away an
\* entry that is not there.
TypeOK ==
  /\ flt \in [Filters -> [
       cons : Seq([id : Nat, types : Shapes \union {<<StarStar>>}]),
       all : [Types -> Nat], dom : SUBSET Types, next : Nat,
       cbs : SUBSET Holders, state : {"live", "dying", "dead"}]]
  /\ fa \in [Holders -> SUBSET Filters]
  /\ rqst \in [Holders -> SUBSET Types]
  /\ tmap \in [Holders -> [Types -> [Filters \union {NoFilter} -> Nat]]]
  /\ thr \in [Threads -> [f : Filters \union {NoFilter}, add : [Types -> Nat],
                          rem : [Types -> Nat], todo : SUBSET Holders]]
  /\ raced \subseteq Filters

\* A filter's use counts are what its constraints use, whatever was added, replaced
\* and removed: the code stops the server ("Corrupted data structures") when a
\* removal finds a type missing.  Its dominating types are types it uses, no two of
\* them comparable, and every type it uses is under one: no event is missed.
TypesCounted == \A f \in Filters :
  LET used == {t \in Types : flt[f].all[t] > 0}
      dom  == flt[f].dom
  IN  /\ \A t \in Types : flt[f].all[t] = Uses(flt[f].cons, t)
      /\ dom \subseteq used
      /\ \A t \in used : IsDominated(dom, t)
      /\ \A s, t \in dom : Dominates(s, t) => s = t

\* Nothing is left to be told to h about f, nothing was told to it out of order, and
\* no destroyed filter makes h's calls fail.
UpToDate(h, f) ==
  /\ f \notin raced
  /\ f \notin BeingTold(h)
  /\ DeadAt(h) = {}

\* The type map lists a holder under the dominating types of its filters and under
\* the types it subscribes to, once each, and under nothing else: what was attached,
\* changed, detached or collected by any thread leaves nothing behind.
MapFollows == \A h \in Holders, t \in Types :
  /\ \A f \in Filters : UpToDate(h, f) =>
       tmap[h][t][f] = IF f \in fa[h] /\ t \in flt[f].dom THEN 1 ELSE 0
  /\ tmap[h][t][NoFilter] = IF t \in rqst[h] THEN 1 ELSE 0

\* An event that is dispatched is given to the proxies whose clients want it, by the
\* constraints of the filters at the proxy and at its admin, and to no others; an
\* entry of the map makes a filter be evaluated at most once for it.
RightConsumers == \A a \in Admins, p \in Proxies, ev \in Events, op \in {"or", "and"} :
  (\A f \in Filters, h \in {a, p} : UpToDate(h, f)) =>
     /\ DispatchEvent(p, ev, MatchEvent(a, ev, op)) > 0 <=> Wants(p, a, ev, op)
     /\ \A f \in Filters, h \in {a, p} : Listed(h, f, ev) <= 1

\* No filter that the map lists is destroyed: rdi_match calls that something that
\* should not happen.
NoDestroyedFilter == \A h \in Holders, t \in Types, f \in Filters :
  tmap[h][t][f] > 0 => flt[f].state # "dead"
=============================================================================
