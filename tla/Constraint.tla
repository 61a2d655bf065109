----------------------------- MODULE Constraint -----------------------------
(***************************************************************************)
(* Filter constraints: the compiler that turns the tree of an expression   *)
(* into a program (RDI_Constraint, RDI_OpSeq), the machine that runs it    *)
(* (RVM), and, stated without either, what the expression means.           *)
(*                                                                         *)
(* A tree is one of                                                        *)
(*   <<"and", l, r>>, <<"or", l, r>>, <<"not", t>>,                        *)
(*   <<"==" or another comparison, l, r>>, <<"+" or another, l, r>>,       *)
(*   <<"~", l, r>>, <<"in", l, component>>,                                *)
(*   <<"comp", name, parts, end>> with parts <<operation, argument>>,      *)
(*   <<"const", operation, value>>,                                        *)
(*   <<"unsupported">>                      (an "in" with a plain name)    *)
(***************************************************************************)
EXTENDS RVM, SequencesExt, FiniteSetsExt

CONSTANTS Trees, Events,      \* the constraints and the events that are tried
          OpSeqSize,          \* RDI_Eval_OPSEQ_SIZE
          OneCounter          \* labels are numbered by one thread at a time

CompareOps == {"==", "!=", "<=", "<", ">=", ">"}
ZCmpCode(o) == CASE o = "==" -> "eqz_n2b" [] o = "!=" -> "nez_n2b" [] o = "<=" -> "lez_n2b"
                 [] o = "<" -> "ltz_n2b" [] o = ">=" -> "gez_n2b" [] o = ">" -> "gtz_n2b"
ArithOps == {"+", "-", "*", "/", "%"}
ArithCode(o) == CASE o = "+" -> "add_nn2n" [] o = "-" -> "sub_nn2n" [] o = "*" -> "mul_nn2n"
                  [] o = "/" -> "div_nn2n" [] o = "%" -> "rem_nn2n"

(***************************************************************************)
(* The compiler.  Its state: the operations so far, the stack types before *)
(* each of them, the types now (_stackT), the labels taken, and an error:  *)
(* "rejected" for a constraint that is refused with a message, "fatal" for *)
(* a failed assertion of append: of the stack before an operation, of the   *)
(* number of operations or of the size of the stack.  (A build without      *)
(* assertions goes on there, and writes beyond the end of _op or _stackT.)  *)
(***************************************************************************)
Empty == [ops |-> <<>>, types |-> <<>>, now |-> <<>>, labels |-> 0, err |-> "none"]

Emit(s, c, arg) ==
  IF s.err # "none" THEN s
  ELSE IF \/ ~Pre(c, s.now) \/ Len(s.ops) >= OpSeqSize
          \/ Len(Effect(c, s.now)) > StackSize THEN [s EXCEPT !.err = "fatal"]
  ELSE [s EXCEPT !.ops = Append(@, <<c, arg>>), !.types = Append(@, s.now),
                 !.now = Effect(c, s.now)]

(* The last operation is changed in place, and the type of what it pushed. *)
Become(s, c, arg, type) == [s EXCEPT !.ops[Len(s.ops)] = <<c, arg>>, !.now[Len(s.now)] = type]
Reject(s) == [s EXCEPT !.err = "rejected"]

NRequired(s) ==
  IF s.err # "none" THEN s
  ELSE LET t == Last(s.now) op == Last(s.ops)
       IN CASE t \in {"n", "N"} -> s
            [] t = "u" \/ (t = "b" /\ op[1] # "push_bC2b") -> Emit(s, "cvt_u2n", 0)
            [] t = "c" \/ (t = "b" /\ op[1] = "push_bC2b") -> Become(s, "push_NC2N", Force2num(op[2]), "n")
            [] OTHER -> Reject(s)
SRequired(s) ==
  IF s.err # "none" THEN s
  ELSE CASE Last(s.now) = "s" -> s
         [] Last(s.now) = "u" -> Emit(s, "cvt_u2s", 0)
         [] Last(s.now) = "c" -> Become(s, "push_sC2s", <<"string", Last(s.ops)[2][2]>>, "s")
         [] OTHER -> Reject(s)
BRequired(s) ==
  IF s.err # "none" THEN s
  ELSE CASE Last(s.now) = "b" -> s
         [] Last(s.now) = "u" -> Emit(s, "cvt_u2b", 0)
         [] OTHER -> Reject(s)

(* newlblnm: a new number for every label.  The counter has no lock: when  *)
(* other threads compile too, a number may come back.                      *)
LabelName(s, prefix) == <<prefix, IF OneCounter THEN s.labels ELSE 0>>
Labelled(s) == [s EXCEPT !.labels = @ + 1]

(* Fault: nothing marks the end of a component. *)
GenComponent_open(s, t) ==
  LET start == Emit(s, "special_sC2u", t[2])
      chain == FoldLeft(LAMBDA a, p : Emit(a, p[1], p[2]), start, t[3])
  IN IF t[4] = "compend" THEN chain ELSE Emit(chain, t[4], 0)
GenComponent(s, t) ==
  LET start == Emit(s, "special_sC2u", t[2])
      chain == FoldLeft(LAMBDA a, p : Emit(a, p[1], p[2]), start, t[3])
  IN Emit(chain, t[4], 0)

EndPart(p) == p[1] \in {"dot_len_u2n_l", "dot_d_u2u"} \cup Names
(* Nothing may follow an end part, neither another part nor "in". *)
WellFormed(t, last) == \A i \in 1..last : ~EndPart(t[3][i])

RECURSIVE Gen(_, _)
(* The left operand, a jump over the rest when it decides, and the right   *)
(* operand in its place otherwise. *)
GenShort(s, t, branch, prefix) ==
  LET name == LabelName(s, prefix)
      left == BRequired(Gen(Labelled(s), t[2]))
      skip == Emit(Emit(left, branch, name), "pop_u", 0)
  IN Emit(BRequired(Gen(skip, t[3])), "label", name)
GenBoth(s, t, c) == Emit(Gen(Gen(s, t[2]), t[3]), c, 0)
GenArith(s, t) == Emit(NRequired(Gen(NRequired(Gen(s, t[2])), t[3])), ArithCode(t[1]), 0)
GenSubStr(s, t) == Emit(SRequired(Gen(SRequired(Gen(s, t[2])), t[3])), "substr_ss2b", 0)
Gen(s, t) ==
  CASE s.err # "none" -> s
    [] s.err = "none" /\ t[1] = "or" -> GenShort(s, t, "ifT_b2b", "OrTrue")
    [] s.err = "none" /\ t[1] = "and" -> GenShort(s, t, "ifF_b2b", "AndFalse")
    [] s.err = "none" /\ t[1] = "not" -> Emit(BRequired(Gen(s, t[2])), "not_b2b", 0)
    [] s.err = "none" /\ t[1] \in CompareOps -> Emit(GenBoth(s, t, "cmp_uu2n"), ZCmpCode(t[1]), 0)
    [] s.err = "none" /\ t[1] \in ArithOps -> GenArith(s, t)
    [] s.err = "none" /\ t[1] = "~" -> GenSubStr(s, t)
    [] s.err = "none" /\ t[1] = "in" -> IF WellFormed(t[3], Len(t[3][3])) THEN GenBoth(s, t, "in_uu2b") ELSE Reject(s)
    [] s.err = "none" /\ t[1] = "comp" -> IF WellFormed(t, Len(t[3]) - 1) THEN GenComponent(s, t) ELSE Reject(s)
    [] s.err = "none" /\ t[1] = "const" -> Emit(s, t[2], t[3])
    [] s.err = "none" /\ t[1] = "unsupported" -> Emit(Emit(s, "push_NC2N", <<"ushort", 7>>), "signal_N", 0)

(* Fault: the first label ahead, whatever its name. *)
Target_anyLabel(p, i) ==
  LET at == Min({j \in i..Len(p) : p[j][1] = "label"})
  IN Min({j \in at..Len(p) : p[j][1] # "label"})
(* finalize: a jump goes to the nearest label of its name, ahead first,    *)
(* and on to the next operation that is not a label.                       *)
Target(p, i) ==
  LET labels == {j \in DOMAIN p : p[j] = <<"label", p[i][2]>>}
      ahead == {j \in labels : j > i}
      at == IF ahead # {} THEN Min(ahead) ELSE Max(labels)
  IN Min({j \in at..Len(p) : p[j][1] # "label"})
Finalize(p) == [i \in DOMAIN p |-> IF p[i][1] \in Branches THEN <<p[i][1], Target(p, i)>> ELSE p[i]]

(* do_codegen with a boolean required, then finalize. *)
Compile(t) ==
  LET s == Emit(BRequired(Gen(Empty, t)), "return_b", 0)
  IN IF s.err = "none" THEN [s EXCEPT !.ops = Finalize(@)] ELSE s

(***************************************************************************)
(* What an expression means on event e: a value, <<"error", code>>, or      *)
(* Unclear where the integers of the machine are too narrow for the        *)
(* numbers involved.                                                       *)
(***************************************************************************)
Error(c) == <<"error", c>>
Unclear == <<"unclear", 0>>
IsValue(m) == m[1] \notin {"error", "unclear"}
Fits(k, x) == Convert(k, x) = x

(* A boolean or a string; which component of a dynany is asked is open. *)
Asked(m, K) == \E v \in Components(m) : v[1] \in K
AsBool(m) == CASE ~IsValue(m) \/ m[1] = "boolean" -> m
               [] Asked(m, {"boolean"}) -> Unclear
               [] OTHER -> Error("TYPE_MISMATCH")
AsString(m) == CASE ~IsValue(m) -> m [] m[1] \in StringKind -> <<"string", m[2]>>
                 [] Asked(m, {"string"}) -> Unclear
                 [] OTHER -> Error("TYPE_MISMATCH")
(* A number; a component's own value may not have 64 bits. *)
AsNumber(m, t) == CASE ~IsValue(m) -> m
                    [] m[1] \notin Numeric -> Error("TYPE_MISMATCH")
                    [] t[1] = "comp" /\ m[1] \in {"ulonglong", "longlong"} -> Error("TYPE_MISMATCH")
                    [] OTHER -> Force2num(m)

(* The first of two operands that has no value, else f. *)
Strict(m, n, f) == IF ~IsValue(m) THEN m ELSE IF ~IsValue(n) THEN n ELSE f
MeansArith(o, m, n) ==
  LET k == ResultKind(m[1], n[1])
      w == WidenKind(k)
      x == Exact(ArithCode(o), m[2], n[2])
  IN CASE o \in {"/", "%"} /\ n[2] = 0 -> Error("DIVIDE_BY_ZERO")
       [] (o \in {"/", "%"} => n[2] # 0) /\ Fits(w, m[2]) /\ Fits(w, n[2]) /\ Fits(k, x) -> <<k, x>>
       [] OTHER -> Unclear
Holds(o, d) == CASE o = "==" -> d = 0 [] o = "!=" -> d # 0 [] o = "<=" -> d <= 0
                 [] o = "<" -> d < 0 [] o = ">=" -> d >= 0 [] o = ">" -> d > 0
MeansCompare(o, m, n) ==
  LET kinds == {m[1], n[1]}
      k == ResultKind(Force2num(m)[1], Force2num(n)[1])
  IN CASE kinds \subseteq StringKind -> Bool(Holds(o, m[2] - n[2]))
       [] kinds \subseteq Numeric ->
            IF Fits(WidenKind(k), NumberIn(m)) /\ Fits(WidenKind(k), NumberIn(n))
            THEN Bool(Holds(o, NumberIn(m) - NumberIn(n))) ELSE Unclear
       [] kinds \subseteq EnumKind /\ "enum_val" \in kinds /\ o \in {"==", "!="} ->
            Bool(Holds(o, m[2] - n[2]))
       [] OTHER -> Error("TYPE_MISMATCH")
(* Membership, between values that can be compared at all. *)
MeansIn(m, n) ==
  LET comparable(v) == \/ m[1] \in Numeric /\ v[1] \in Numeric
                       \/ m[1] \in StringKind /\ v[1] = "string"
                       \/ m[1] = "enum_ident" /\ v[1] = "enum_val"
                       \/ m[1] = "enum_val" /\ v[1] = "enum_val" /\ SameEnum(m[2], v[2])
      simple == m[1] \in Numeric \cup StringKind \cup EnumKind
  IN IF ~simple \/ Sort(n) # "seq" THEN Error("TYPE_MISMATCH")
     ELSE IF \E i \in DOMAIN n[2].elts : ~comparable(n[2].elts[i]) THEN Error("TYPE_MISMATCH")
     ELSE Bool(\E i \in DOMAIN n[2].elts : NumberIn(n[2].elts[i]) = NumberIn(m))

(* The value a path of parts leads to. *)
Follow(m, p) == IF ~IsValue(m) THEN m
                ELSE LET s == Selected(p[1], p[2], m) IN IF s[1] = Missing THEN Error(s[2]) ELSE s[1]
MeansComponent(t, e) ==
  LET root == IF e[t[2]] = Missing THEN Error("NONE_SUCH") ELSE e[t[2]]
      m == FoldLeft(Follow, root, t[3])
  IN CASE t[4] = "exist_X2b" -> Bool(IsValue(m))
       [] t[4] = "default_X2b" /\ IsValue(m) ->
            IF Sort(m) = "union" THEN Bool(m[2].dflt) ELSE Error("TYPE_MISMATCH")
       [] OTHER -> m

RECURSIVE Means(_, _)
Means(t, e) ==
  CASE t[1] = "const" -> t[3]
    [] t[1] = "comp" -> MeansComponent(t, e)
    [] t[1] = "unsupported" -> Error("NOT_SUPPORTED")
    [] t[1] = "not" -> LET m == AsBool(Means(t[2], e)) IN IF IsValue(m) THEN Bool(~m[2]) ELSE m
    [] t[1] \in {"or", "and"} ->
         LET m == AsBool(Means(t[2], e))
         IN IF ~IsValue(m) \/ m[2] = (t[1] = "or") THEN m ELSE AsBool(Means(t[3], e))
    [] t[1] \in CompareOps ->
         LET m == Means(t[2], e) n == Means(t[3], e) IN Strict(m, n, MeansCompare(t[1], m, n))
    [] t[1] \in ArithOps ->
         LET m == AsNumber(Means(t[2], e), t[2]) n == AsNumber(Means(t[3], e), t[3])
         IN Strict(m, n, MeansArith(t[1], m, n))
    [] t[1] = "~" ->
         LET m == AsString(Means(t[2], e)) n == AsString(Means(t[3], e))
         IN Strict(m, n, Bool(<<m[2], n[2]>> \in Within))
    [] t[1] = "in" -> LET m == Means(t[2], e) n == Means(t[3], e) IN Strict(m, n, MeansIn(m, n))

(***************************************************************************)
(* Constraints are compiled when a filter gets them and evaluated whenever *)
(* an event comes; those that are refused are not added.                   *)
(***************************************************************************)
VARIABLE tree
allVars == <<tree, machine>>

CInit ==
  \E t \in Trees :
    LET s == Compile(t)
    IN /\ s.err # "rejected"
       /\ tree = t /\ ops = s.ops /\ types = s.types
       /\ event \in Events
       /\ pc = (IF s.err = "fatal" THEN 0 ELSE 1)
       /\ r_code = (IF s.err = "fatal" THEN "FATAL" ELSE "UNDEFINED")
       /\ stack = <<>> /\ r_bool = FALSE
CNext == EvalNext /\ UNCHANGED tree
CSpec == CInit /\ [][CNext]_allVars

(***************************************************************************)
(* What a constraint takes, read off its tree: the type of what it leaves,  *)
(* the places on the stack, and the operations, conversions included.       *)
(***************************************************************************)
TypeOf(t) ==
  CASE t[1] = "comp" -> LET c == IF t[3] = <<>> \/ t[4] # "compend" THEN t[4] ELSE Last(t[3])[1]
                        IN CASE c \in {"default_X2b", "exist_X2b"} -> "b"
                             [] c = "dot_len_u2n_l" -> "n" [] c \in Names -> "s" [] OTHER -> "u"
    [] t[1] = "const" -> PushedType(t[2])
    [] t[1] = "unsupported" -> "N"
    [] t[1] \in ArithOps -> "n"
    [] OTHER -> "b"
AsWanted(t, want) ==
  IF TypeOf(t) = "u" \/ (want = "n" /\ TypeOf(t) = "b" /\ t[1] # "const") THEN 1 ELSE 0

RECURSIVE Places(_), Operations(_)
\* A second operand needs its places on top of the first, but not after a jump.
Places(t) ==
  CASE t[1] \in {"comp", "const", "unsupported"} -> 1
    [] t[1] = "not" -> Places(t[2])
    [] t[1] \in {"and", "or"} -> Max({Places(t[2]), Places(t[3])})
    [] OTHER -> Max({Places(t[2]), Places(t[3]) + 1})
Operations(t) ==
  LET want == IF t[1] \in ArithOps THEN "n" ELSE IF t[1] = "~" THEN "s" ELSE "b"
      of(u) == Operations(u) + IF t[1] \in CompareOps \cup {"in"} THEN 0 ELSE AsWanted(u, want)
  IN CASE t[1] = "comp" -> Len(t[3]) + 2
       [] t[1] = "const" -> 1
       [] t[1] = "unsupported" -> 2
       [] t[1] = "not" -> of(t[2]) + 1
       [] t[1] \in {"and", "or"} -> of(t[2]) + of(t[3]) + 3
       [] t[1] \in CompareOps -> of(t[2]) + of(t[3]) + 2
       [] OTHER -> of(t[2]) + of(t[3]) + 1

\* With return_b at the end.
Oversized(t) ==
  \/ Places(t) > StackSize
  \/ Operations(t) + AsWanted(t, "b") + 1 > OpSeqSize

(* The compiler's assertions fail for the constraints that need more than   *)
(* the two sizes allow, and for no others; what it makes of the rest is     *)
(* safe for the machine: the jumps of "and" and "or" meet the stack the     *)
(* label expects, every component is closed, and the stack suffices. *)
CompilerTyped ==
  /\ r_code = "FATAL" => Oversized(tree)
  /\ pc = 1 => ~Oversized(tree) /\ Typed(ops, types)

(* "recompile with greater RDI_Eval_STACK_SIZE" (model_effect) is said to   *)
(* nobody: no assertion of the compiler fails.  It does not hold, nothing   *)
(* limits the depth of a constraint before append. *)
AssertionsHold == r_code # "FATAL"

(* What the evaluation of an expression returns is what it means: jumps,   *)
(* conversions put in by the compiler and constants it changed in place    *)
(* make no difference, and an error is reported when and only when the     *)
(* expression needs the value that is missing. *)
Agrees ==
  pc = 0 => LET m == AsBool(Means(tree, event))
            IN CASE r_code = "FATAL" \/ m = Unclear -> TRUE
                 [] r_code # "FATAL" /\ m[1] = "error" -> r_code = m[2]
                 [] OTHER -> r_code = "OK" /\ r_bool = m[2]
=============================================================================
