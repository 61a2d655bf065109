------------------------------ MODULE FilterTypes ------------------------------
(***************************************************************************)
(* Event types, and the tables that a filter keeps of the event types in   *)
(* its constraints: how often each is used (_flt_all_ev_types), and the    *)
(* "dominating" ones (_flt_dom_ev_types), under which the type map of a    *)
(* channel lists the filter.                                               *)
(*                                                                         *)
(* An event type is a pair of a domain and a name, each of them possibly   *)
(* the wildcard; the other spellings of wildcards ("" and "%ALL") are not  *)
(* modelled.  The operators work on a record e, a filter in the middle of  *)
(* a change of its constraints:                                            *)
(*   cons      _constraints: a sequence of [id, types]                     *)
(*   all, dom  the two tables                                              *)
(*   add, rem  how often each type is in add_types, del_types              *)
(*   carry     deltypes, a local of _update_ev_tables                      *)
(***************************************************************************)
EXTENDS Integers, FiniteSets, Sequences, SequencesExt

CONSTANT Types     \* the event types in use

Star == "*"
StarStar == <<Star, Star>>

ASSUME TypesAssumption ==
  StarStar \in Types /\ IsFiniteSet(Types) /\ \A t \in Types : t = <<t[1], t[2]>>

\* Does event type s dominate event type t?
Dominates(s, t) == s[1] \in {Star, t[1]} /\ s[2] \in {Star, t[2]}

IsDominated(dom, t) == \E d \in dom : Dominates(d, t)

NoChange == [t \in Types |-> 0]
Plus(bag, S) == [t \in Types |-> IF t \in S THEN bag[t] + 1 ELSE bag[t]]
Times(types, t) == Cardinality({i \in DOMAIN types : types[i] = t})

\* How often a list of constraints uses type t.
Uses(cons, t) == SumFunction([k \in DOMAIN cons |-> Times(cons[k].types, t)])

-----------------------------------------------------------------------------
(* Adding the types of a constraint                                        *)

\* The entries of the dominating table that a new type replaces.
Replaced(dom, t) == {d \in dom : Dominates(t, d)}

\* One round of the loop of _update_ev_tables.  What earlier rounds have replaced
\* is not forgotten (carry), and listed as removed once more.
AddType(e, t) ==
  LET del == e.carry \union Replaced(e.dom, t)
      e1  == [e EXCEPT !.all[t] = @ + 1]
  IN  IF e.all[t] > 0 \/ IsDominated(e.dom, t) THEN e1
      ELSE [e1 EXCEPT !.carry = del, !.dom = (@ \ del) \union {t},
                      !.rem = Plus(@, del), !.add[t] = @ + 1]

UpdateEvTables(e, types) == FoldLeft(AddType, [e EXCEPT !.carry = {}], types)

\* A constraint without event types is for all of them.
PutConstraint(e, c) ==
  LET types == IF c.types = <<>> THEN <<StarStar>> ELSE c.types
  IN  UpdateEvTables([e EXCEPT !.cons = Append(@, [c EXCEPT !.types = types])], types)

-----------------------------------------------------------------------------
(* Removing the types of a constraint                                      *)

\* The types that become dominating when the dominating type d is gone.  For
\* "*::T" and "D::*" the code does not look for another one that dominates them.
Revived(all, dom, d) ==
  LET used  == {t \in Types : all[t] > 0}
      stars == {t \in used : Star \in {t[1], t[2]}}
  IN  CASE d = StarStar  -> stars \union {t \in used : ~IsDominated(dom \union stars, t)}
        [] d # StarStar /\ d[1] = Star -> {t \in used : t[2] = d[2]}
        [] d # StarStar /\ d[2] = Star -> {t \in used : t[1] = d[1]}
        [] OTHER -> {}

\* Wrong: what the dropped types dominated is forgotten.
DropTypes_forget(e, types) ==
  LET all == [t \in Types |-> e.all[t] - Times(types, t)]
      del == {t \in e.dom : all[t] = 0 /\ Times(types, t) > 0}
  IN  [e EXCEPT !.all = all, !.dom = @ \ del, !.rem = Plus(@, del)]
DropTypes(e, types) ==
  LET all == [t \in Types |-> e.all[t] - Times(types, t)]
      del == {t \in e.dom : all[t] = 0 /\ Times(types, t) > 0}
      rev == [d \in del |-> Revived(all, e.dom \ del, d)]
  IN  [e EXCEPT !.all = all,
                !.dom = (@ \ del) \union UNION {rev[d] : d \in del},
                !.rem = Plus(@, del),
                !.add = [t \in Types |-> @[t] + Cardinality({d \in del : t \in rev[d]})]]

\* _remove_constraint: the last constraint takes the place of the removed one.
RemoveConstraint(e, id) ==
  LET n == Len(e.cons)
      i == CHOOSE i \in 1..n : e.cons[i].id = id
      e1 == DropTypes(e, e.cons[i].types)
  IN  [e1 EXCEPT !.cons = SubSeq(ReplaceAt(@, i, @[n]), 1, n - 1)]

ReplaceConstraint(e, c) == PutConstraint(RemoveConstraint(e, c.id), c)

-----------------------------------------------------------------------------
(* The changes of whole calls                                              *)

AddAll(e, cs)  == FoldLeft(PutConstraint, e, cs)
Modify(e, del, mod) ==
  FoldLeft(ReplaceConstraint, FoldLeft(RemoveConstraint, e, del), mod)
RemoveAll(e) == FoldLeft(RemoveConstraint, e, [i \in DOMAIN e.cons |-> e.cons[i].id])

\* What notify_subscribers_i leaves of the two lists: a type that is in both of
\* them is taken out of both.
NetAdd(e) == [t \in Types |-> IF e.rem[t] = 0 THEN e.add[t] ELSE 0]
NetRem(e) == [t \in Types |-> IF e.add[t] = 0 THEN e.rem[t] ELSE 0]

\* Does a constraint's list of event types admit an event of type ev?
Matches(cons, ev) ==
  cons = <<>> \/ \E i \in DOMAIN cons :
                   \E k \in DOMAIN cons[i].types : Dominates(cons[i].types[k], ev)
=============================================================================
