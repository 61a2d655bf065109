-------------------------------- MODULE RVM --------------------------------
(***************************************************************************)
(* The machine that evaluates a compiled filter constraint on one event   *)
(* (RDI_RVM).  A program is a sequence of operations <<opcode, argument>>; *)
(* "types" holds, for every operation, the types the compiler expects on   *)
(* the stack when it is reached (RDI_OpSeq keeps them in _stackT).         *)
(* A runtime value is <<kind, content>>.  Strings are named by their rank   *)
(* in the lexicographic order; a string of one character is named by the   *)
(* code of that character.  The content of a dynany is a record; a union's  *)
(* has the name and the number of the member that is set.  Floating point   *)
(* kinds are not modelled.                                                 *)
(***************************************************************************)
EXTENDS Integers, Sequences

CONSTANTS
  Name, Value,   \* the components an event may have ($name), and their values
  Within,        \* pairs of strings, the first a substring of the second
  Enums,         \* the enumeration types, each a set of enumerators
  ShortBits, LongBits, LongLongBits,  \* widths of the integer kinds
  StackSize      \* RDI_Eval_STACK_SIZE

ASSUME RVMAssumption == StackSize \in Nat

VARIABLES
  ops, types,  \* the program, jump targets resolved, and its static types
  event,    \* value of every component of the event, or Missing
  pc,       \* _PC, 0 once eval has returned
  stack,    \* _stack[0.._top]
  r_code, r_bool

machine == <<ops, types, event, pc, stack, r_code, r_bool>>

Missing == <<"missing", 0>>
Null == <<"null", 0>>
Bool(b) == <<"boolean", b>>

(* Kinds of numbers in the order of their precedence. *)
Precedence == <<"ushort", "short", "ulong", "long", "ulonglong", "longlong">>
Number == {"ushort", "short", "ulong", "long", "ulonglong", "longlong"}
CanBeNumber == {"boolean", "char", "octet", "char_or_string"}
Numeric == Number \cup CanBeNumber
StringKind == {"string", "char_or_string"}
EnumKind == {"enum_ident", "enum_val"}
Signed == {"short", "long", "longlong"}
Rank(k) == CHOOSE i \in 1..6 : Precedence[i] = k
Bits(k) == CASE k \in {"ushort", "short"} -> ShortBits
             [] k \in {"ulong", "long"} -> LongBits
             [] OTHER -> LongLongBits

(* A conversion to kind k keeps the low bits of the number. *)
Convert(k, x) ==
  LET m == x % 2^Bits(k)
  IN IF k \in Signed /\ m >= 2^(Bits(k) - 1) THEN m - 2^Bits(k) ELSE m

(* The number in a value that is, or can be forced to be, a number. *)
NumberIn(v) == IF v[1] = "boolean" THEN (IF v[2] THEN 1 ELSE 0) ELSE v[2]
Force2num(v) == IF v[1] \in CanBeNumber THEN <<"ushort", Convert("ushort", NumberIn(v))>> ELSE v

(* The result is signed when either side is; short results are computed in *)
(* long. *)
ResultKind(k, l) ==
  LET m == Precedence[IF Rank(k) < Rank(l) THEN Rank(l) ELSE Rank(k)]
  IN IF {k, l} \cap Signed # {} THEN Precedence[2 * ((Rank(m) + 1) \div 2)] ELSE m
WidenKind(k) == CASE k = "ushort" -> "ulong" [] k = "short" -> "long" [] OTHER -> k

Quotient(a, b) == LET q == (IF a < 0 THEN -a ELSE a) \div (IF b < 0 THEN -b ELSE b)
                  IN IF (a < 0) = (b < 0) THEN q ELSE -q
Exact(op, a, b) == CASE op = "add_nn2n" -> a + b
                     [] op = "sub_nn2n" -> a - b
                     [] op = "mul_nn2n" -> a * b
                     [] op = "div_nn2n" -> Quotient(a, b)
                     [] op = "rem_nn2n" -> a - b * Quotient(a, b)

(***************************************************************************)
(* What the compiler knows of an operation: the types it asks for on the   *)
(* top of the stack, and the types it leaves there.                        *)
(***************************************************************************)
Consts == {"push_cC2c", "push_sC2s", "push_iC2i", "push_bC2b", "push_NC2N", "push_nC2n"}
PushedType(c) == CASE c = "push_cC2c" -> "c" [] c = "push_sC2s" -> "s" [] c = "push_iC2i" -> "i"
                   [] c = "push_bC2b" -> "b" [] c = "push_NC2N" -> "N" [] OTHER -> "n"
Tags == {"tagdef_u2u", "tagid_usC2u", "tagnum_ulC2u", "tagchar_usC2u", "tagbool_ubC2u"}
Names == {"dot_tid_u2s", "dot_rid_u2s"}
Selects == {"dot_id_usC2u", "dot_num_ulC2u", "index_ulC2u", "assoc_usC2u", "dot_d_u2u"} \cup Tags
Parts == Selects \cup Names \cup {"dot_len_u2n_l"}
Ends == {"compend", "default_X2b", "exist_X2b"}
Ariths == {"add_nn2n", "sub_nn2n", "mul_nn2n", "div_nn2n", "rem_nn2n"}
ZeroTests == {"eqz_n2b", "nez_n2b", "lez_n2b", "ltz_n2b", "gez_n2b", "gtz_n2b"}
Branches == {"ifT_b2b", "ifF_b2b"}

Opcode == Consts \cup Parts \cup Ends \cup Ariths \cup ZeroTests \cup Branches \cup
          {"special_sC2u", "pop_u", "label", "not_b2b", "cvt_u2b", "cvt_u2s", "cvt_u2n",
           "cmp_uu2n", "substr_ss2b", "in_uu2b", "return_b", "signal_N"}

Demand(c) ==
  CASE c \in {"return_b", "not_b2b"} \cup Branches -> <<{"b"}>>
    [] c = "signal_N" -> <<{"N"}>>
    [] c \in ZeroTests -> <<{"n", "N"}>>
    [] c \in {"cvt_u2b", "cvt_u2s"} \cup Parts -> <<{"u"}>>
    [] c \in {"pop_u", "cvt_u2n"} \cup Ends -> <<{"b", "c", "i", "n", "N", "s", "u"}>>
    [] c \in Ariths -> <<{"n", "N"}, {"n", "N"}>>
    [] c = "substr_ss2b" -> <<{"s"}, {"s"}>>
    [] c = "in_uu2b" -> <<{"b", "c", "i", "n", "N", "s", "u"}, {"u"}>>
    [] c = "cmp_uu2n" -> <<{"b", "c", "i", "n", "N", "s", "u"}, {"b", "c", "i", "n", "N", "s", "u"}>>
    [] OTHER -> <<>>
Pre(c, s) ==
  LET d == Demand(c)
  IN /\ Len(d) <= Len(s)
     /\ \A i \in 1..Len(d) : s[Len(s) - Len(d) + i] \in d[i]

Drop(s, n) == SubSeq(s, 1, Len(s) - n)
Effect(c, s) ==
  CASE c \in Consts -> Append(s, PushedType(c))
    [] c = "special_sC2u" -> Append(s, "u")
    [] c = "pop_u" -> Drop(s, 1)
    [] c \in {"cvt_u2b", "not_b2b", "default_X2b", "exist_X2b"} \cup ZeroTests -> Append(Drop(s, 1), "b")
    [] c \in {"cvt_u2n", "dot_len_u2n_l"} -> Append(Drop(s, 1), "n")
    [] c \in {"cvt_u2s"} \cup Names -> Append(Drop(s, 1), "s")
    [] c \in Selects -> Append(Drop(s, 1), "u")
    [] c \in Ariths \cup {"cmp_uu2n"} -> Append(Drop(s, 2), "n")
    [] c \in {"in_uu2b", "substr_ss2b"} -> Append(Drop(s, 2), "b")
    [] OTHER -> s

(* A constant that was forced to be a number is typed n, not N. *)
Follows(c, s, next) == next = Effect(c, s) \/ (c = "push_NC2N" /\ next = Append(s, "n"))

(* A value whose kind a static type announces. *)
HasKind(v, t) == CASE t = "b" -> v[1] = "boolean"
                   [] t = "c" -> v[1] = "char_or_string"
                   [] t = "i" -> v[1] = "enum_ident"
                   [] t = "n" -> v[1] \in Number
                   [] t = "N" -> v[1] = "ushort"
                   [] t = "s" -> v[1] = "string"
                   [] OTHER -> TRUE
(***************************************************************************)
(* Programs the machine is safe on.  Every operation finds the types it    *)
(* asks for, what it leaves is what is expected at the next operation, a    *)
(* jump goes to an operation that expects the stack as it is, and the      *)
(* operations of a component follow each other up to its end.              *)
(***************************************************************************)
InComponent == Parts \cup Ends
Final == {"return_b", "signal_N"}
Typed(p, ts) ==
  /\ Len(p) \in Nat \ {0} /\ DOMAIN p = 1..Len(p) /\ DOMAIN ts = DOMAIN p
  /\ ts[1] = <<>> /\ p[1][1] \notin InComponent
  /\ \A i \in DOMAIN p :
       LET c == p[i][1]
       IN /\ c \in Opcode
          /\ Pre(c, ts[i])
          /\ c \notin Final => /\ i < Len(p)
                              /\ Follows(c, ts[i], ts[i + 1])
                              /\ Len(ts[i + 1]) <= StackSize
                              /\ (p[i + 1][1] \in InComponent) = (c \in {"special_sC2u"} \cup Parts)
          /\ c \in Branches => /\ p[i][2] \in (i + 1)..Len(p)
                              /\ ts[p[i][2]] = ts[i]
                              /\ p[p[i][2]][1] \notin InComponent
          /\ c \in Consts => HasKind(p[i][2], PushedType(c))
          /\ c = "cmp_uu2n" => p[i + 1][1] \in ZeroTests
          /\ c = "special_sC2u" => p[i][2] \in Name

(***************************************************************************)
(* The operations.  Go continues with the next operation, Signal ends the   *)
(* evaluation with an error.                                               *)
(***************************************************************************)
Code == ops[pc][1]
Arg == ops[pc][2]
At(C) == pc # 0 /\ Code \in C
Top == stack[Len(stack)]
Second == stack[Len(stack) - 1]

Go(s) == pc' = pc + 1 /\ stack' = s /\ UNCHANGED <<ops, types, event, r_code, r_bool>>
Signal(c) == /\ pc' = 0 /\ stack' = <<>> /\ r_code' = c
             /\ UNCHANGED <<ops, types, event, r_bool>>

Push == At(Consts) /\ Go(Append(stack, Arg))
Pop == At({"pop_u"}) /\ Go(Drop(stack, 1))
Label == At({"label"}) /\ Go(stack)
Not == At({"not_b2b"}) /\ Go(Append(Drop(stack, 1), Bool(~Top[2])))

(* cvt_u2b and cvt_u2s ask a dynany too: get_boolean and get_string answer *)
(* with its current component, whichever that is since the last search.     *)
Components(v) ==
  CASE v[1] # "dynany" -> {}
    [] v[1] = "dynany" /\ v[2].sort = "seq" -> {v[2].elts[i] : i \in DOMAIN v[2].elts}
    [] v[1] = "dynany" /\ v[2].sort = "struct" -> {<<"string", v[2].name>>, v[2].member}
    [] v[1] = "dynany" /\ v[2].sort = "union" -> {v[2].disc, v[2].member}
CvtBool ==
  /\ At({"cvt_u2b"})
  /\ \/ Top[1] = "boolean" /\ Go(stack)
     \/ \E v \in Components(Top) : v[1] = "boolean" /\ Go(Append(Drop(stack, 1), v))
     \/ Top[1] # "boolean" /\ Signal("TYPE_MISMATCH")
CvtString ==
  /\ At({"cvt_u2s"})
  /\ \/ Top[1] \in StringKind /\ Go(Append(Drop(stack, 1), <<"string", Top[2]>>))
     \/ \E v \in Components(Top) : v[1] = "string" /\ Go(Append(Drop(stack, 1), v))
     \/ Top[1] \notin StringKind /\ Signal("TYPE_MISMATCH")

(* Fault: characters and booleans are left as they are. *)
CvtNumber_asIs == At({"cvt_u2n"}) /\ IF Top[1] \in Numeric \ {"ulonglong", "longlong"}
                                     THEN Go(stack) ELSE Signal("TYPE_MISMATCH")
(* cvt_u2n knows no 64 bit kinds. *)
CvtNumber == At({"cvt_u2n"}) /\ IF Top[1] \in Numeric \ {"ulonglong", "longlong"}
                                THEN Go(Append(Drop(stack, 1), Force2num(Top)))
                                ELSE Signal("TYPE_MISMATCH")

(* An operator on two numbers; dividing the least number by -1 traps. *)
Arith ==
  /\ At(Ariths)
  /\ LET k == ResultKind(Second[1], Top[1])
         w == WidenKind(k)
         a == Convert(w, Second[2])
         b == Convert(w, Top[2])
         division == Code \in {"div_nn2n", "rem_nn2n"}
     IN IF division /\ b = 0 THEN Signal("DIVIDE_BY_ZERO")
        ELSE IF division /\ w \in Signed /\ b = -1 /\ a = -(2^(Bits(w) - 1)) THEN Signal("SIGFPE")
        ELSE Go(Append(Drop(stack, 2), <<k, Convert(k, Exact(Code, a, b))>>))

Sign(a, b) == IF a < b THEN -1 ELSE IF a = b THEN 0 ELSE 1
Compared(v, w) ==
  LET k == WidenKind(ResultKind(v[1], w[1]))
  IN <<"short", Sign(Convert(k, v[2]), Convert(k, w[2]))>>

(* cmp_uu2n: strings, numbers, or enumerators for equality only. *)
Compare ==
  /\ At({"cmp_uu2n"})
  /\ LET kinds == {Second[1], Top[1]}
     IN CASE kinds \subseteq StringKind -> Go(Append(Drop(stack, 2), <<"long", Sign(Second[2], Top[2])>>))
          [] kinds \subseteq Numeric ->
               Go(Append(Drop(stack, 2), Compared(Force2num(Second), Force2num(Top))))
          [] /\ kinds \subseteq EnumKind /\ kinds # {"enum_ident"}
             /\ ops[pc + 1][1] \in {"eqz_n2b", "nez_n2b"} ->
               Go(Append(Drop(stack, 2), <<"long", Sign(Second[2], Top[2])>>))
          [] OTHER -> Signal("TYPE_MISMATCH")

HoldsOf(c, n) == CASE c = "eqz_n2b" -> n = 0 [] c = "nez_n2b" -> n # 0
                   [] c = "lez_n2b" -> n <= 0 [] c = "ltz_n2b" -> n < 0
                   [] c = "gez_n2b" -> n >= 0 [] c = "gtz_n2b" -> n > 0
ZeroTest == At(ZeroTests) /\ Go(Append(Drop(stack, 1), Bool(HoldsOf(Code, Top[2]))))

SubString == At({"substr_ss2b"}) /\ Go(Append(Drop(stack, 2), Bool(<<Second[2], Top[2]>> \in Within)))

SameEnum(a, b) == \E E \in Enums : {a, b} \subseteq E

(* in_uu2b: the type of the first element decides how a sequence is        *)
(* scanned; a character is taken as a number among numbers, and an          *)
(* enumerator (a bare name has no type) wants one of its own type.          *)
In ==
  /\ At({"in_uu2b"})
  /\ LET v == Second
         elts == Top[2].elts
         scan == CASE v[1] \in Numeric \ {"char_or_string"} -> Numeric
                   [] v[1] = "char_or_string" -> IF elts[1][1] \in Numeric THEN Numeric ELSE {"string"}
                   [] v[1] = "string" -> {"string"}
                   [] OTHER -> {"enum_val"}
         found == \E i \in DOMAIN elts : IF scan = Numeric THEN NumberIn(elts[i]) = NumberIn(v)
                                         ELSE elts[i][2] = v[2]
     IN IF v[1] \notin Numeric \cup StringKind \cup EnumKind \/ Top[1] # "dynany" THEN Signal("TYPE_MISMATCH")
        ELSE IF Top[2].sort # "seq" THEN Signal("TYPE_MISMATCH")
        ELSE IF elts = <<>> THEN Go(Append(Drop(stack, 2), Bool(FALSE)))
        ELSE IF elts[1][1] \notin scan \/ (v[1] = "enum_val" /\ ~SameEnum(v[2], elts[1][2]))
             THEN Signal("TYPE_MISMATCH")
        ELSE Go(Append(Drop(stack, 2), Bool(found)))

(* ifT_b2b and ifF_b2b jump over the right operand. *)
Branch ==
  /\ At(Branches)
  /\ IF Top[2] = (Code = "ifT_b2b")
     THEN pc' = Arg /\ UNCHANGED <<ops, types, event, stack, r_code, r_bool>>
     ELSE Go(stack)

(* Components.  A part that fails is noted in r_code and the operations up *)
(* to the end of the component are skipped; the end decides what it means. *)
Component ==
  /\ At({"special_sC2u"})
  /\ pc' = pc + 1
  /\ IF event[Arg] = Missing
     THEN stack' = Append(stack, Null) /\ r_code' = "NONE_SUCH"
     ELSE stack' = Append(stack, event[Arg]) /\ r_code' = r_code
  /\ UNCHANGED <<ops, types, event, r_bool>>

Sort(v) == IF v[1] = "dynany" THEN v[2].sort ELSE "simple"
(* Is the union v set to the member with the tag a? *)
TagIs(c, a, v) ==
  LET disc == v[2].disc
  IN CASE c = "tagdef_u2u" -> v[2].dflt
       [] c = "tagid_usC2u" -> disc = <<"enum_val", a>>
       [] OTHER -> disc[1] \in Numeric /\ NumberIn(disc) = a
(* The value of the first pair with the name a. *)
Associated(a, elts) ==
  LET hits == {i \in DOMAIN elts : Sort(elts[i]) = "struct" /\ elts[i][2].name = a}
  IN IF hits = {} THEN Missing ELSE elts[CHOOSE i \in hits : \A j \in hits : i <= j][2].member
(* The value part c with argument a selects, or Missing and the code it sets. *)
Selected(c, a, v) ==
  CASE c \in Names -> <<<<"string", 0>>, "NONE_SUCH">>
    [] c = "dot_len_u2n_l" -> <<IF Sort(v) = "seq" THEN <<"ulong", Len(v[2].elts)>> ELSE Missing, "NONE_SUCH">>
    [] c \in Selects /\ v[1] # "dynany" -> <<Missing, "TYPE_MISMATCH">>
    [] c \in Tags \cup {"dot_d_u2u"} /\ v[1] = "dynany" /\ Sort(v) # "union" -> <<Missing, "TYPE_MISMATCH">>
    [] c \in {"dot_id_usC2u", "dot_num_ulC2u"} /\ Sort(v) = "seq" -> <<Missing, "TYPE_MISMATCH">>
    [] c = "dot_d_u2u" /\ Sort(v) = "union" -> <<v[2].disc, "NONE_SUCH">>
    [] c \in Tags /\ Sort(v) = "union" -> <<IF TagIs(c, a, v) THEN v[2].member ELSE Missing, "NONE_SUCH">>
    [] c \in {"dot_id_usC2u", "dot_num_ulC2u"} /\ Sort(v) = "struct" -> <<v[2].member, "NONE_SUCH">>
    [] c = "dot_id_usC2u" /\ Sort(v) = "union" -> <<IF v[2].name = a THEN v[2].member ELSE Missing, "NONE_SUCH">>
    [] c = "dot_num_ulC2u" /\ Sort(v) = "union" -> <<IF v[2].num = a THEN v[2].member ELSE Missing, "NONE_SUCH">>
    [] c = "index_ulC2u" /\ Sort(v) = "seq" ->
         <<IF a \in 0..(Len(v[2].elts) - 1) THEN v[2].elts[a + 1] ELSE Missing, "NONE_SUCH">>
    [] c = "assoc_usC2u" /\ Sort(v) = "seq" -> <<Associated(a, v[2].elts), "NONE_SUCH">>
    [] OTHER -> <<Missing, "NONE_SUCH">>
Part ==
  /\ At(Parts)
  /\ pc' = pc + 1
  /\ LET s == Selected(Code, Arg, Top)
     IN CASE r_code # "UNDEFINED" -> UNCHANGED <<stack, r_code>>
          [] r_code = "UNDEFINED" /\ s[1] = Missing -> r_code' = s[2] /\ UNCHANGED stack
          [] OTHER -> stack' = Append(Drop(stack, 1), s[1]) /\ UNCHANGED r_code
  /\ UNCHANGED <<ops, types, event, r_bool>>

CompEnd == At({"compend"}) /\ IF r_code # "UNDEFINED" THEN Signal(r_code) ELSE Go(stack)
Default ==
  /\ At({"default_X2b"})
  /\ CASE r_code # "UNDEFINED" -> Signal(r_code)
       [] r_code = "UNDEFINED" /\ Sort(Top) # "union" -> Signal("TYPE_MISMATCH")
       [] OTHER -> Go(Append(Drop(stack, 1), Bool(Top[2].dflt)))
Exist ==
  /\ At({"exist_X2b"})
  /\ pc' = pc + 1 /\ r_code' = "UNDEFINED"
  /\ stack' = Append(Drop(stack, 1), Bool(r_code = "UNDEFINED"))
  /\ UNCHANGED <<ops, types, event, r_bool>>

ReturnB ==
  /\ At({"return_b"})
  /\ pc' = 0 /\ stack' = <<>> /\ r_code' = "OK" /\ r_bool' = Top[2]
  /\ UNCHANGED <<ops, types, event>>
(* The error codes by number. *)
RetCode == <<"UNDEFINED", "DIVIDE_BY_ZERO", "OVERFLOW", "OUT_OF_MEMORY",
             "TYPE_MISMATCH", "NONE_SUCH", "NOT_SUPPORTED">>
SignalN == At({"signal_N"}) /\ Signal(RetCode[Top[2]])

EvalNext == \/ Push \/ Pop \/ Label \/ Not \/ CvtBool \/ CvtString \/ CvtNumber \/ Arith \/ Compare
        \/ ZeroTest \/ SubString \/ In \/ Branch \/ Component \/ Part \/ CompEnd \/ Default
        \/ Exist \/ ReturnB \/ SignalN

EvalInit ==
  /\ Typed(ops, types)
  /\ event \in [Name -> Value \cup {Missing}]
  /\ pc = 1 /\ stack = <<>> /\ r_code = "UNDEFINED" /\ r_bool = FALSE

(***************************************************************************)
(* While an evaluation runs, the stack has the depth and the kinds the     *)
(* compiler computed for the operation that comes next, and an error is     *)
(* pending only inside the component that raised it, whose slot is then     *)
(* not to be used.  It is what every RDI_RVM_Assert and every "should not   *)
(* get here" of the evaluation relies on, and the size of the stack.        *)
(***************************************************************************)
StackTyped ==
  pc # 0 =>
    /\ pc \in DOMAIN ops
    /\ Len(stack) = Len(types[pc]) /\ Len(stack) <= StackSize
    /\ (r_code = "UNDEFINED" \/ Code \in InComponent)
    /\ \A i \in DOMAIN stack : \/ HasKind(stack[i], types[pc][i])
                              \/ (r_code # "UNDEFINED" /\ i = Len(stack))

EvalSpec == EvalInit /\ [][EvalNext]_machine
=============================================================================
