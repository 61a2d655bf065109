------------------------------ MODULE FilterProofs ------------------------------
(***************************************************************************)
(* Theorems about filters.                                                 *)
(*                                                                         *)
(* The machine that evaluates constraints never leaves the stack the       *)
(* compiler has computed: for every well typed program, every event and    *)
(* every size of the stack.                                                *)
(*                                                                         *)
(* The tables of event types that a filter keeps are sound after every     *)
(* call of a client, and the type map follows them, for every number of    *)
(* filters, admins, proxies and threads, and for all constraints; the last *)
(* two under the hypotheses that Matching names.                           *)
(***************************************************************************)
EXTENDS Matching, RVM, SequenceTheorems, FiniteSetTheorems, WellFoundedInduction, TLAPS

-----------------------------------------------------------------------------
(* The machine: stacks                                                     *)

(* A sequence, whatever its elements are. *)
IsSeq(s) == \E S : s \in Seq(S)

LEMMA AppendIsSeq ==
  ASSUME NEW s, IsSeq(s), NEW x
  PROVE  /\ IsSeq(Append(s, x)) /\ Len(Append(s, x)) = Len(s) + 1
         /\ \A i \in 1..Len(s) : Append(s, x)[i] = s[i]
         /\ Append(s, x)[Len(s) + 1] = x
<1>1. PICK S : s \in Seq(S)  BY DEF IsSeq
<1>2. s \in Seq(S \cup {x})  BY <1>1
<1>3. Append(s, x) \in Seq(S \cup {x})  BY <1>2
<1> QED  BY <1>2, <1>3 DEF IsSeq

LEMMA DropIsSeq ==
  ASSUME NEW s, IsSeq(s), NEW n \in 0..Len(s)
  PROVE  /\ IsSeq(Drop(s, n)) /\ Len(Drop(s, n)) = Len(s) - n
         /\ \A i \in 1..(Len(s) - n) : Drop(s, n)[i] = s[i]
<1>1. PICK S : s \in Seq(S)  BY DEF IsSeq
<1>2. Len(s) \in Nat  BY <1>1
<1>3. Drop(s, n) \in Seq(S) /\ Len(Drop(s, n)) = Len(s) - n
      /\ \A i \in 1..(Len(s) - n) : Drop(s, n)[i] = s[i]
  BY <1>1, <1>2, SubSeqProperties DEF Drop
<1> QED  BY <1>3 DEF IsSeq

LEMMA LenIsNat ==
  ASSUME NEW s, IsSeq(s)
  PROVE  Len(s) \in Nat /\ DOMAIN s = 1..Len(s)
BY DEF IsSeq

(***************************************************************************)
(* A stack whose values have the kinds that types announce; all of them, or *)
(* all but the one on top.                                                 *)
(***************************************************************************)
Like(st, ts) ==
  /\ IsSeq(st) /\ IsSeq(ts) /\ Len(st) = Len(ts)
  /\ \A i \in 1..Len(st) : HasKind(st[i], ts[i])
LikeBelow(st, ts) ==
  /\ IsSeq(st) /\ IsSeq(ts) /\ Len(st) = Len(ts) /\ Len(st) > 0
  /\ \A i \in 1..(Len(st) - 1) : HasKind(st[i], ts[i])

LEMMA LikePush ==
  ASSUME NEW st, NEW ts, Like(st, ts), NEW v, NEW t, HasKind(v, t)
  PROVE  Like(Append(st, v), Append(ts, t))
<1>1. Len(st) \in Nat /\ Len(ts) \in Nat  BY LenIsNat DEF Like
<1>2. IsSeq(Append(st, v)) /\ Len(Append(st, v)) = Len(st) + 1
      /\ (\A i \in 1..Len(st) : Append(st, v)[i] = st[i]) /\ Append(st, v)[Len(st) + 1] = v
  BY AppendIsSeq DEF Like
<1>3. IsSeq(Append(ts, t)) /\ Len(Append(ts, t)) = Len(ts) + 1
      /\ (\A i \in 1..Len(ts) : Append(ts, t)[i] = ts[i]) /\ Append(ts, t)[Len(ts) + 1] = t
  BY AppendIsSeq DEF Like
<1>4. ASSUME NEW i \in 1..(Len(st) + 1)  PROVE HasKind(Append(st, v)[i], Append(ts, t)[i])
  <2>1. CASE i \in 1..Len(st)  BY <2>1, <1>2, <1>3 DEF Like
  <2>2. CASE i = Len(st) + 1  BY <2>2, <1>2, <1>3 DEF Like
  <2>3. i \in 1..Len(st) \/ i = Len(st) + 1  BY <1>1
  <2> QED  BY <2>1, <2>2, <2>3
<1> QED  BY <1>2, <1>3, <1>4 DEF Like

LEMMA LikeDrop ==
  ASSUME NEW st, NEW ts, NEW n \in 0..Len(st), Like(st, ts) \/ (LikeBelow(st, ts) /\ n > 0)
  PROVE  Like(Drop(st, n), Drop(ts, n))
<1>1. IsSeq(st) /\ IsSeq(ts) /\ Len(st) = Len(ts)  BY DEF Like, LikeBelow
<1>2. Len(st) \in Nat  BY <1>1, LenIsNat
<1>3. IsSeq(Drop(st, n)) /\ Len(Drop(st, n)) = Len(st) - n
      /\ \A i \in 1..(Len(st) - n) : Drop(st, n)[i] = st[i]
  BY <1>1, DropIsSeq
<1>4. IsSeq(Drop(ts, n)) /\ Len(Drop(ts, n)) = Len(ts) - n
      /\ \A i \in 1..(Len(ts) - n) : Drop(ts, n)[i] = ts[i]
  BY <1>1, DropIsSeq
<1>5. \A i \in 1..(Len(st) - n) : HasKind(st[i], ts[i])
  BY <1>2 DEF Like, LikeBelow
<1>6. ASSUME NEW i \in 1..(Len(st) - n)  PROVE HasKind(Drop(st, n)[i], Drop(ts, n)[i])
  BY <1>1, <1>3, <1>4, <1>5
<1> QED  BY <1>1, <1>3, <1>4, <1>6 DEF Like

LEMMA LikeReplace ==
  ASSUME NEW st, NEW ts, NEW n \in 0..Len(st), Like(st, ts) \/ (LikeBelow(st, ts) /\ n > 0),
         NEW v, NEW t, HasKind(v, t)
  PROVE  Like(Append(Drop(st, n), v), Append(Drop(ts, n), t))
BY LikeDrop, LikePush

(***************************************************************************)
(* The invariant: the stack is like the types of the next operation, but   *)
(* for the slot of a component in which a part has failed.                 *)
(***************************************************************************)
Running ==
  /\ pc \in DOMAIN ops
  /\ Len(types[pc]) <= StackSize
  /\ \/ r_code = "UNDEFINED" /\ Like(stack, types[pc])
     \/ r_code # "UNDEFINED" /\ Code \in InComponent /\ LikeBelow(stack, types[pc])
StackInv == Typed(ops, types) /\ (pc # 0 => Running)

(* What the compiler guarantees of the next operation. *)
LEMMA NextTyped ==
  ASSUME StackInv, pc # 0
  PROVE  /\ pc \in 1..Len(ops) /\ Len(ops) \in Nat /\ Code \in Opcode
         /\ Pre(Code, types[pc])
         /\ Code \notin Final => /\ pc + 1 \in DOMAIN ops
                                /\ Follows(Code, types[pc], types[pc + 1])
                                /\ Len(types[pc + 1]) <= StackSize
                                /\ (ops[pc + 1][1] \in InComponent) = (Code \in {"special_sC2u"} \cup Parts)
         /\ Code \in Branches => /\ Arg \in DOMAIN ops /\ types[Arg] = types[pc]
         /\ Code \in Consts => HasKind(Arg, PushedType(Code))
<1>1. /\ pc \in DOMAIN ops /\ DOMAIN ops = 1..Len(ops) /\ Len(ops) \in Nat
      /\ Typed(ops, types)
  BY DEF StackInv, Running, Typed
<1>2. /\ Code \in Opcode /\ Pre(Code, types[pc])
      /\ Code \notin Final => /\ pc < Len(ops)
                             /\ Follows(Code, types[pc], types[pc + 1])
                             /\ Len(types[pc + 1]) <= StackSize
                             /\ (ops[pc + 1][1] \in InComponent) = (Code \in {"special_sC2u"} \cup Parts)
      /\ Code \in Branches => Arg \in (pc + 1)..Len(ops) /\ types[Arg] = types[pc]
      /\ Code \in Consts => HasKind(Arg, PushedType(Code))
  BY <1>1 DEF Typed, Code, Arg
<1> QED  BY <1>1, <1>2

(* An operation that goes on with a stack like the next types is safe. *)
LEMMA GoSafe ==
  ASSUME StackInv, pc # 0, r_code = "UNDEFINED", Code \notin Final,
         NEW s, Go(s), Like(s, types[pc + 1])
  PROVE  StackInv'
<1>1. /\ pc' = pc + 1 /\ stack' = s /\ ops' = ops /\ types' = types /\ r_code' = "UNDEFINED"
  BY DEF Go
<1>2. pc + 1 \in DOMAIN ops /\ Len(types[pc + 1]) <= StackSize  BY NextTyped
<1>3. Running'  BY <1>1, <1>2 DEF Running
<1> QED  BY <1>1, <1>3 DEF StackInv

LEMMA SignalSafe ==
  ASSUME StackInv, NEW c, Signal(c)
  PROVE  StackInv'
BY DEF StackInv, Signal

(* Outside the components no error is pending. *)
LEMMA NonePending ==
  ASSUME StackInv, pc # 0, Code \notin InComponent
  PROVE  r_code = "UNDEFINED" /\ Like(stack, types[pc])
BY DEF StackInv, Running

LEMMA StackDepth ==
  ASSUME StackInv, pc # 0
  PROVE  /\ Len(stack) \in Nat /\ Len(types[pc]) = Len(stack) /\ IsSeq(stack) /\ IsSeq(types[pc])
BY LenIsNat DEF StackInv, Running, Like, LikeBelow

(* How many places an operation needs. *)
Unary == {"pop_u", "not_b2b", "cvt_u2b", "cvt_u2s", "cvt_u2n"} \cup Parts \cup Ends \cup ZeroTests
Binary == Ariths \cup {"cmp_uu2n", "substr_ss2b", "in_uu2b"}
LEMMA Deep ==
  ASSUME StackInv, pc # 0
  PROVE  /\ Code \in Unary => 1 \in 0..Len(stack)
         /\ Code \in Binary => 2 \in 0..Len(stack)
<1>1. Len(Demand(Code)) <= Len(stack)  BY NextTyped, StackDepth DEF Pre
<1>2. Len(stack) \in Nat  BY StackDepth
<1>3. Code \in Unary => Len(Demand(Code)) = 1
  BY DEF Unary, Demand, Parts, Ends, ZeroTests, Selects, Names, Tags, Branches, Ariths
<1>4. Code \in Binary => Len(Demand(Code)) = 2
  BY DEF Binary, Demand, Parts, Ends, ZeroTests, Selects, Names, Tags, Branches, Ariths
<1> QED  BY <1>1, <1>2, <1>3, <1>4

(***************************************************************************)
(* What the compiler expects after an operation, group by group.           *)
(***************************************************************************)
LEMMA Effects ==
  ASSUME NEW c, NEW s
  PROVE  /\ c \in Consts => Effect(c, s) = Append(s, PushedType(c))
         /\ c = "special_sC2u" => Effect(c, s) = Append(s, "u")
         /\ c = "pop_u" => Effect(c, s) = Drop(s, 1)
         /\ c \in {"cvt_u2b", "not_b2b", "default_X2b", "exist_X2b"} \cup ZeroTests
              => Effect(c, s) = Append(Drop(s, 1), "b")
         /\ c \in {"cvt_u2n", "dot_len_u2n_l"} => Effect(c, s) = Append(Drop(s, 1), "n")
         /\ c \in {"cvt_u2s"} \cup Names => Effect(c, s) = Append(Drop(s, 1), "s")
         /\ c \in Selects => Effect(c, s) = Append(Drop(s, 1), "u")
         /\ c \in Ariths \cup {"cmp_uu2n"} => Effect(c, s) = Append(Drop(s, 2), "n")
         /\ c \in {"in_uu2b", "substr_ss2b"} => Effect(c, s) = Append(Drop(s, 2), "b")
         /\ c \in Branches \cup {"label", "compend"} => Effect(c, s) = s
BY DEF Effect, Consts, ZeroTests, Names, Selects, Tags, Ariths, Branches

(* The operation that runs leaves one value of the type t in n places. *)
LEMMA ReplaceSafe ==
  ASSUME StackInv, pc # 0, r_code = "UNDEFINED", Code \notin Final, Code # "push_NC2N",
         NEW n \in 0..Len(stack), NEW v, NEW t, HasKind(v, t),
         Effect(Code, types[pc]) = Append(Drop(types[pc], n), t),
         Go(Append(Drop(stack, n), v)), Like(stack, types[pc])
  PROVE  StackInv'
<1>1. types[pc + 1] = Append(Drop(types[pc], n), t)  BY NextTyped DEF Follows
<1>2. Like(Append(Drop(stack, n), v), types[pc + 1])  BY <1>1, LikeReplace
<1> QED  BY <1>2, GoSafe

LEMMA PushSafe == ASSUME StackInv, Push PROVE StackInv'
<1>1. /\ pc # 0 /\ Code \in Consts /\ Go(Append(stack, Arg))  BY DEF Push, At
<1>2. Code \notin InComponent /\ Code \notin Final
  BY <1>1 DEF Consts, InComponent, Parts, Selects, Tags, Names, Ends, Final
<1>3. r_code = "UNDEFINED" /\ Like(stack, types[pc])  BY <1>1, <1>2, NonePending
<1>4. types[pc + 1] = Append(types[pc], PushedType(Code))
      \/ (Code = "push_NC2N" /\ types[pc + 1] = Append(types[pc], "n"))
  BY <1>1, <1>2, NextTyped, Effects DEF Follows
<1>5. HasKind(Arg, PushedType(Code))  BY <1>1, NextTyped
<1>6. ASSUME Code = "push_NC2N"  PROVE HasKind(Arg, "n")
  BY <1>5, <1>6 DEF PushedType, HasKind, Number
<1>7. Like(Append(stack, Arg), types[pc + 1])  BY <1>3, <1>4, <1>5, <1>6, LikePush
<1> QED  BY <1>1, <1>2, <1>3, <1>7, GoSafe

LEMMA PopSafe == ASSUME StackInv, Pop PROVE StackInv'
<1>1. /\ pc # 0 /\ Code = "pop_u" /\ Go(Drop(stack, 1))  BY DEF Pop, At
<1>2. Code \notin InComponent /\ Code \notin Final /\ Code \in Unary /\ Code # "push_NC2N"
  BY <1>1 DEF InComponent, Parts, Selects, Tags, Names, Ends, Final, Unary
<1>3. r_code = "UNDEFINED" /\ Like(stack, types[pc])  BY <1>1, <1>2, NonePending
<1>4. types[pc + 1] = Drop(types[pc], 1)  BY <1>1, <1>2, NextTyped, Effects DEF Follows
<1>5. Like(Drop(stack, 1), types[pc + 1])  BY <1>1, <1>2, <1>3, <1>4, Deep, LikeDrop
<1> QED  BY <1>1, <1>2, <1>3, <1>5, GoSafe

LEMMA LabelSafe == ASSUME StackInv, Label PROVE StackInv'
<1>1. /\ pc # 0 /\ Code = "label" /\ Go(stack)  BY DEF Label, At
<1>2. Code \notin InComponent /\ Code \notin Final /\ Code # "push_NC2N"
  BY <1>1 DEF InComponent, Parts, Selects, Tags, Names, Ends, Final
<1>3. r_code = "UNDEFINED" /\ Like(stack, types[pc])  BY <1>1, <1>2, NonePending
<1>4. types[pc + 1] = types[pc]  BY <1>1, <1>2, NextTyped, Effects DEF Follows
<1> QED  BY <1>1, <1>2, <1>3, <1>4, GoSafe

(* An operation outside the components that leaves its value in n places. *)
Plain == {"not_b2b", "cvt_u2b", "cvt_u2s", "cvt_u2n", "cmp_uu2n", "substr_ss2b", "in_uu2b"}
           \cup ZeroTests \cup Ariths
LEMMA PlainCodes ==
  ASSUME Code \in Plain
  PROVE  Code \notin InComponent /\ Code \notin Final /\ Code # "push_NC2N"
BY DEF Plain, ZeroTests, Ariths, InComponent, Parts, Selects, Tags, Names, Ends, Final

LEMMA PlainSafe ==
  ASSUME StackInv, pc # 0, Code \in Plain,
         NEW n \in 1..2, n = IF Code \in Binary THEN 2 ELSE 1,
         NEW v, NEW t, HasKind(v, t),
         Effect(Code, types[pc]) = Append(Drop(types[pc], n), t),
         Go(Append(Drop(stack, n), v))
  PROVE  StackInv'
<1>1. Code \notin InComponent /\ Code \notin Final /\ Code # "push_NC2N"  BY PlainCodes
<1>2. r_code = "UNDEFINED" /\ Like(stack, types[pc])  BY <1>1, NonePending
<1>3. Code \in Unary \/ Code \in Binary  BY DEF Plain, Unary, Binary
<1>4. n \in 0..Len(stack)
  <2>1. CASE Code \in Binary  BY <2>1, Deep
  <2>2. CASE Code \notin Binary  BY <2>2, <1>3, Deep
  <2> QED  BY <2>1, <2>2
<1> QED  BY <1>1, <1>2, <1>4, ReplaceSafe

LEMMA NotSafe == ASSUME StackInv, Not PROVE StackInv'
<1>1. /\ pc # 0 /\ Code = "not_b2b" /\ Go(Append(Drop(stack, 1), Bool(~Top[2])))  BY DEF Not, At
<1>2. HasKind(Bool(~Top[2]), "b")  BY DEF HasKind, Bool
<1>3. Code \in Plain /\ Code \notin Binary  BY <1>1 DEF Plain, Binary, Ariths
<1>4. Effect(Code, types[pc]) = Append(Drop(types[pc], 1), "b")  BY <1>1, Effects
<1> QED  BY <1>1, <1>2, <1>3, <1>4, PlainSafe

(* The value on top is itself left there. *)
LEMMA ReplacesTop ==
  ASSUME StackInv, pc # 0, 1 \in 0..Len(stack)
  PROVE  stack = Append(Drop(stack, 1), Top)
<1>1. IsSeq(stack) /\ Len(stack) \in Nat /\ Len(stack) > 0  BY StackDepth
<1>2. IsSeq(Drop(stack, 1)) /\ Len(Drop(stack, 1)) = Len(stack) - 1
      /\ \A i \in 1..(Len(stack) - 1) : Drop(stack, 1)[i] = stack[i]
  BY <1>1, DropIsSeq
<1> DEFINE s == Append(Drop(stack, 1), Top)
<1>3. IsSeq(s) /\ Len(s) = Len(stack) /\ (\A i \in 1..(Len(stack) - 1) : s[i] = stack[i])
      /\ s[Len(stack)] = stack[Len(stack)]
  <2>1. IsSeq(s) /\ Len(s) = Len(Drop(stack, 1)) + 1
        /\ (\A i \in 1..Len(Drop(stack, 1)) : s[i] = Drop(stack, 1)[i])
        /\ s[Len(Drop(stack, 1)) + 1] = Top
    BY <1>2, AppendIsSeq
  <2> QED  BY <1>1, <1>2, <2>1 DEF Top
<1> HIDE DEF s
<1>4. \A i \in 1..Len(stack) : s[i] = stack[i]  BY <1>1, <1>3
<1>5. PICK S : stack \in Seq(S)  BY <1>1 DEF IsSeq
<1>6. PICK T : s \in Seq(T)  BY <1>3 DEF IsSeq
<1>7. stack \in Seq(S \cup T) /\ s \in Seq(S \cup T)  BY <1>5, <1>6
<1>8. s = stack  BY <1>3, <1>4, <1>7, SeqEqual
<1> QED  BY <1>8 DEF s

LEMMA CvtBoolSafe == ASSUME StackInv, CvtBool PROVE StackInv'
<1>1. /\ pc # 0 /\ Code = "cvt_u2b"
      /\ \/ Top[1] = "boolean" /\ Go(stack)
         \/ \E v \in Components(Top) : v[1] = "boolean" /\ Go(Append(Drop(stack, 1), v))
         \/ Signal("TYPE_MISMATCH")
  BY DEF CvtBool, At
<1>2. Code \in Plain /\ Code \notin Binary /\ Code \in Unary  BY <1>1 DEF Plain, Binary, Ariths, Unary
<1>3. Effect(Code, types[pc]) = Append(Drop(types[pc], 1), "b")  BY <1>1, Effects
<1>4. stack = Append(Drop(stack, 1), Top)  BY <1>1, <1>2, Deep, ReplacesTop
<1>5. CASE Top[1] = "boolean" /\ Go(stack)
  <2>1. HasKind(Top, "b") /\ Go(Append(Drop(stack, 1), Top))  BY <1>4, <1>5 DEF HasKind
  <2> QED  BY <1>1, <1>2, <1>3, <2>1, PlainSafe
<1>6. CASE \E v \in Components(Top) : v[1] = "boolean" /\ Go(Append(Drop(stack, 1), v))
  <2>1. PICK v : v[1] = "boolean" /\ Go(Append(Drop(stack, 1), v))  BY <1>6
  <2>2. HasKind(v, "b")  BY <2>1 DEF HasKind
  <2> QED  BY <1>1, <1>2, <1>3, <2>1, <2>2, PlainSafe
<1> QED  BY <1>1, <1>5, <1>6, SignalSafe

LEMMA CvtStringSafe == ASSUME StackInv, CvtString PROVE StackInv'
<1>1. /\ pc # 0 /\ Code = "cvt_u2s"
      /\ \/ \E v : v[1] = "string" /\ Go(Append(Drop(stack, 1), v))
         \/ Signal("TYPE_MISMATCH")
  <2>1. <<"string", Top[2]>>[1] = "string"  OBVIOUS
  <2> QED  BY <2>1 DEF CvtString, At
<1>2. Code \in Plain /\ Code \notin Binary  BY <1>1 DEF Plain, Binary, Ariths
<1>3. Effect(Code, types[pc]) = Append(Drop(types[pc], 1), "s")  BY <1>1, Effects
<1>4. CASE \E v : v[1] = "string" /\ Go(Append(Drop(stack, 1), v))
  <2>1. PICK v : v[1] = "string" /\ Go(Append(Drop(stack, 1), v))  BY <1>4
  <2>2. HasKind(v, "s")  BY <2>1 DEF HasKind
  <2> QED  BY <1>1, <1>2, <1>3, <2>1, <2>2, PlainSafe
<1> QED  BY <1>1, <1>4, SignalSafe

LEMMA CvtNumberSafe == ASSUME StackInv, CvtNumber PROVE StackInv'
<1>1. /\ pc # 0 /\ Code = "cvt_u2n"
      /\ \/ Top[1] \in Numeric /\ Go(Append(Drop(stack, 1), Force2num(Top)))
         \/ Signal("TYPE_MISMATCH")
  BY DEF CvtNumber, At
<1>2. Code \in Plain /\ Code \notin Binary  BY <1>1 DEF Plain, Binary, Ariths
<1>3. Effect(Code, types[pc]) = Append(Drop(types[pc], 1), "n")  BY <1>1, Effects
<1>4. CASE Top[1] \in Numeric /\ Go(Append(Drop(stack, 1), Force2num(Top)))
  <2>1. Force2num(Top)[1] \in Number
    <3>1. CASE Top[1] \in CanBeNumber  BY <3>1 DEF Force2num, Number
    <3>2. CASE Top[1] \notin CanBeNumber  BY <3>2, <1>4 DEF Force2num, Numeric
    <3> QED  BY <3>1, <3>2
  <2>2. HasKind(Force2num(Top), "n")  BY <2>1 DEF HasKind
  <2> QED  BY <1>1, <1>2, <1>3, <1>4, <2>2, PlainSafe
<1> QED  BY <1>1, <1>4, SignalSafe

LEMMA ZeroTestSafe == ASSUME StackInv, ZeroTest PROVE StackInv'
<1>1. /\ pc # 0 /\ Code \in ZeroTests
      /\ Go(Append(Drop(stack, 1), Bool(HoldsOf(Code, Top[2]))))
  BY DEF ZeroTest, At
<1>2. HasKind(Bool(HoldsOf(Code, Top[2])), "b")  BY DEF HasKind, Bool
<1>3. Code \in Plain /\ Code \notin Binary  BY <1>1 DEF Plain, Binary, Ariths, ZeroTests
<1>4. Effect(Code, types[pc]) = Append(Drop(types[pc], 1), "b")  BY <1>1, Effects
<1> QED  BY <1>1, <1>2, <1>3, <1>4, PlainSafe

LEMMA SubStringSafe == ASSUME StackInv, SubString PROVE StackInv'
<1>1. /\ pc # 0 /\ Code = "substr_ss2b"
      /\ Go(Append(Drop(stack, 2), Bool(<<Second[2], Top[2]>> \in Within)))
  BY DEF SubString, At
<1>2. HasKind(Bool(<<Second[2], Top[2]>> \in Within), "b")  BY DEF HasKind, Bool
<1>3. Code \in Plain /\ Code \in Binary  BY <1>1 DEF Plain, Binary
<1>4. Effect(Code, types[pc]) = Append(Drop(types[pc], 2), "b")  BY <1>1, Effects
<1> QED  BY <1>1, <1>2, <1>3, <1>4, PlainSafe

(***************************************************************************)
(* The kind of an arithmetic result is a number's.                         *)
(***************************************************************************)
LEMMA RankOf == ASSUME NEW k \in Number PROVE Rank(k) \in 1..6 /\ Precedence[Rank(k)] = k
<1>1. \E i \in 1..6 : Precedence[i] = k
  <2>1. CASE k = "ushort"  BY <2>1 DEF Precedence
  <2>2. CASE k = "short"  BY <2>2 DEF Precedence
  <2>3. CASE k = "ulong"  BY <2>3 DEF Precedence
  <2>4. CASE k = "long"  BY <2>4 DEF Precedence
  <2>5. CASE k = "ulonglong"  BY <2>5 DEF Precedence
  <2>6. CASE k = "longlong"  BY <2>6 DEF Precedence
  <2> QED  BY <2>1, <2>2, <2>3, <2>4, <2>5, <2>6 DEF Number
<1> QED  BY <1>1 DEF Rank

LEMMA PrecedenceKinds == \A i \in 1..6 : Precedence[i] \in Number
<1> TAKE i \in 1..6
<1>1. CASE i = 1  BY <1>1 DEF Precedence, Number
<1>2. CASE i = 2  BY <1>2 DEF Precedence, Number
<1>3. CASE i = 3  BY <1>3 DEF Precedence, Number
<1>4. CASE i = 4  BY <1>4 DEF Precedence, Number
<1>5. CASE i = 5  BY <1>5 DEF Precedence, Number
<1>6. CASE i = 6  BY <1>6 DEF Precedence, Number
<1> QED  BY <1>1, <1>2, <1>3, <1>4, <1>5, <1>6

LEMMA ResultIsNumber ==
  ASSUME NEW k \in Number, NEW l \in Number
  PROVE  ResultKind(k, l) \in Number
<1> DEFINE m == Precedence[IF Rank(k) < Rank(l) THEN Rank(l) ELSE Rank(k)]
<1>1. m \in Number  BY RankOf, PrecedenceKinds
<1> HIDE DEF m
<1>2. 2 * ((Rank(m) + 1) \div 2) \in 1..6  BY <1>1, RankOf
<1>3. Precedence[2 * ((Rank(m) + 1) \div 2)] \in Number  BY <1>2, PrecedenceKinds
<1>4. ResultKind(k, l) = IF {k, l} \cap Signed # {} THEN Precedence[2 * ((Rank(m) + 1) \div 2)] ELSE m
  BY DEF ResultKind, m
<1> QED  BY <1>1, <1>3, <1>4

(* The operands of an operator are numbers. *)
LEMMA Operands ==
  ASSUME StackInv, pc # 0, Code \in Ariths
  PROVE  Second[1] \in Number /\ Top[1] \in Number
<1>1. Code \in Plain /\ Code \in Binary  BY DEF Plain, Binary
<1>2. Like(stack, types[pc])  BY <1>1, PlainCodes, NonePending
<1>3. Len(stack) \in Nat /\ Len(stack) >= 2 /\ Len(types[pc]) = Len(stack)
  BY <1>1, Deep, StackDepth
<1>4. Demand(Code) = <<{"n", "N"}, {"n", "N"}>>
  BY DEF Demand, Ariths, Parts, Ends, ZeroTests, Selects, Names, Tags, Branches
<1>5. \A i \in 1..2 : types[pc][Len(types[pc]) - 2 + i] \in {"n", "N"}
  <2>1. Pre(Code, types[pc])  BY NextTyped
  <2>2. \A i \in 1..Len(Demand(Code)) : types[pc][Len(types[pc]) - Len(Demand(Code)) + i] \in Demand(Code)[i]
    BY <2>1 DEF Pre
  <2> QED  BY <1>4, <2>2
<1>6. types[pc][Len(stack) - 1] \in {"n", "N"} /\ types[pc][Len(stack)] \in {"n", "N"}
  <2>1. types[pc][Len(types[pc]) - 2 + 1] \in {"n", "N"} /\ types[pc][Len(types[pc]) - 2 + 2] \in {"n", "N"}
    BY <1>5
  <2>2. Len(types[pc]) - 2 + 1 = Len(stack) - 1 /\ Len(types[pc]) - 2 + 2 = Len(stack)  BY <1>3
  <2> QED  BY <2>1, <2>2
<1>7. HasKind(stack[Len(stack) - 1], types[pc][Len(stack) - 1]) /\ HasKind(stack[Len(stack)], types[pc][Len(stack)])
  <2>1. Len(stack) - 1 \in 1..Len(stack) /\ Len(stack) \in 1..Len(stack)  BY <1>3
  <2> QED  BY <1>2, <2>1 DEF Like
<1>8. \A v, t : t \in {"n", "N"} /\ HasKind(v, t) => v[1] \in Number  BY DEF HasKind, Number
<1> QED  BY <1>6, <1>7, <1>8 DEF Top, Second

LEMMA ArithSafe == ASSUME StackInv, Arith PROVE StackInv'
<1> DEFINE k == ResultKind(Second[1], Top[1])
<1>1. /\ pc # 0 /\ Code \in Ariths
      /\ \/ \E x : Go(Append(Drop(stack, 2), <<k, x>>))
         \/ \E c : Signal(c)
  BY DEF Arith, At
<1>2. Code \in Plain /\ Code \in Binary  BY <1>1 DEF Plain, Binary
<1>3. Effect(Code, types[pc]) = Append(Drop(types[pc], 2), "n")  BY <1>1, Effects
<1>4. k \in Number  BY <1>1, Operands, ResultIsNumber
<1> HIDE DEF k
<1>5. CASE \E x : Go(Append(Drop(stack, 2), <<k, x>>))
  <2>1. PICK x : Go(Append(Drop(stack, 2), <<k, x>>))  BY <1>5
  <2>2. HasKind(<<k, x>>, "n")  BY <1>4 DEF HasKind
  <2> QED  BY <1>1, <1>2, <1>3, <2>1, <2>2, PlainSafe
<1> QED  BY <1>1, <1>5, SignalSafe

LEMMA CompareSafe == ASSUME StackInv, Compare PROVE StackInv'
<1>1. /\ pc # 0 /\ Code = "cmp_uu2n"
      /\ \/ \E k \in {"long", "short"} : \E x : Go(Append(Drop(stack, 2), <<k, x>>))
         \/ Signal("TYPE_MISMATCH")
  BY DEF Compare, At, Compared
<1>2. Code \in Plain /\ Code \in Binary  BY <1>1 DEF Plain, Binary
<1>3. Effect(Code, types[pc]) = Append(Drop(types[pc], 2), "n")  BY <1>1, Effects
<1>4. CASE \E k \in {"long", "short"} : \E x : Go(Append(Drop(stack, 2), <<k, x>>))
  <2>1. PICK k \in {"long", "short"} : \E x : Go(Append(Drop(stack, 2), <<k, x>>))  BY <1>4
  <2>2. PICK x : Go(Append(Drop(stack, 2), <<k, x>>))  BY <2>1
  <2>3. HasKind(<<k, x>>, "n")  BY DEF HasKind, Number
  <2> QED  BY <1>1, <1>2, <1>3, <2>2, <2>3, PlainSafe
<1> QED  BY <1>1, <1>4, SignalSafe

LEMMA InSafe == ASSUME StackInv, In PROVE StackInv'
<1>1. /\ pc # 0 /\ Code = "in_uu2b"
      /\ \/ \E b : Go(Append(Drop(stack, 2), Bool(b)))
         \/ Signal("TYPE_MISMATCH")
  BY DEF In, At
<1>2. Code \in Plain /\ Code \in Binary  BY <1>1 DEF Plain, Binary
<1>3. Effect(Code, types[pc]) = Append(Drop(types[pc], 2), "b")  BY <1>1, Effects
<1>4. CASE \E b : Go(Append(Drop(stack, 2), Bool(b)))
  <2>1. PICK b : Go(Append(Drop(stack, 2), Bool(b)))  BY <1>4
  <2>2. HasKind(Bool(b), "b")  BY DEF HasKind, Bool
  <2> QED  BY <1>1, <1>2, <1>3, <2>1, <2>2, PlainSafe
<1> QED  BY <1>1, <1>4, SignalSafe

LEMMA BranchSafe == ASSUME StackInv, Branch PROVE StackInv'
<1>1. /\ pc # 0 /\ Code \in Branches
      /\ \/ pc' = Arg /\ UNCHANGED <<ops, types, stack, r_code>>
         \/ Go(stack)
  BY DEF Branch, At
<1>2. Code \notin InComponent /\ Code \notin Final /\ Code # "push_NC2N"
  BY <1>1 DEF Branches, InComponent, Parts, Selects, Tags, Names, Ends, Final
<1>3. r_code = "UNDEFINED" /\ Like(stack, types[pc])  BY <1>1, <1>2, NonePending
<1>4. CASE pc' = Arg /\ UNCHANGED <<ops, types, stack, r_code>>
  <2>1. Arg \in DOMAIN ops /\ types[Arg] = types[pc] /\ Len(types[pc]) <= StackSize
    BY <1>1, NextTyped DEF StackInv, Running
  <2>2. Running'  BY <1>3, <1>4, <2>1 DEF Running
  <2> QED  BY <1>4, <2>2 DEF StackInv
<1>5. CASE Go(stack)
  <2>1. types[pc + 1] = types[pc]  BY <1>1, <1>2, NextTyped, Effects DEF Follows
  <2> QED  BY <1>1, <1>2, <1>3, <1>5, <2>1, GoSafe
<1> QED  BY <1>1, <1>4, <1>5

(***************************************************************************)
(* Components.                                                             *)
(***************************************************************************)
(* What follows the start or a part of a component is still within it. *)
LEMMA StaysWithin ==
  ASSUME StackInv, pc # 0, Code \in {"special_sC2u"} \cup Parts,
         pc' = pc + 1, UNCHANGED <<ops, types>>,
         \/ r_code' = "UNDEFINED" /\ Like(stack', types[pc + 1])
         \/ r_code' # "UNDEFINED" /\ LikeBelow(stack', types[pc + 1])
  PROVE  StackInv'
<1>1. Code \notin Final  BY DEF Final, Parts, Selects, Names, Tags
<1>2. /\ pc + 1 \in DOMAIN ops /\ Len(types[pc + 1]) <= StackSize
      /\ ops[pc + 1][1] \in InComponent
  BY <1>1, NextTyped
<1>3. Code' = ops[pc + 1][1]  BY DEF Code
<1>4. Running'  BY <1>2, <1>3 DEF Running
<1> QED  BY <1>4 DEF StackInv

LEMMA LikeIsLikeBelow ==
  ASSUME NEW st, NEW ts, Like(st, ts), Len(st) > 0
  PROVE  LikeBelow(st, ts)
BY LenIsNat DEF Like, LikeBelow

LEMMA ComponentSafe == ASSUME StackInv, Component PROVE StackInv'
<1>1. /\ pc # 0 /\ Code = "special_sC2u" /\ pc' = pc + 1 /\ UNCHANGED <<ops, types>>
      /\ \E v : stack' = Append(stack, v)
      /\ r_code' \in {r_code, "NONE_SUCH"}
  BY DEF Component, At
<1>2. Code \notin InComponent /\ Code \notin Final /\ Code # "push_NC2N"
  BY <1>1 DEF InComponent, Parts, Selects, Tags, Names, Ends, Final
<1>3. r_code = "UNDEFINED" /\ Like(stack, types[pc])  BY <1>1, <1>2, NonePending
<1>4. types[pc + 1] = Append(types[pc], "u")  BY <1>1, <1>2, NextTyped, Effects DEF Follows
<1>5. PICK v : stack' = Append(stack, v)  BY <1>1
<1>6. HasKind(v, "u")  BY DEF HasKind
<1>7. Like(stack', types[pc + 1])  BY <1>3, <1>4, <1>5, <1>6, LikePush
<1>8. Len(stack') > 0  BY <1>5, AppendIsSeq, StackDepth, <1>1
<1>9. LikeBelow(stack', types[pc + 1])  BY <1>7, <1>8, LikeIsLikeBelow
<1>10. CASE r_code' = r_code  BY <1>1, <1>3, <1>7, <1>10, StaysWithin
<1>11. CASE r_code' = "NONE_SUCH"  BY <1>1, <1>9, <1>11, StaysWithin
<1> QED  BY <1>1, <1>10, <1>11

(* The types a part leaves: one type in the place of another. *)
PartType(c) == IF c = "dot_len_u2n_l" THEN "n" ELSE IF c \in Names THEN "s" ELSE "u"
LEMMA PartEffect ==
  ASSUME StackInv, pc # 0, Code \in Parts
  PROVE  types[pc + 1] = Append(Drop(types[pc], 1), PartType(Code))
<1>1. Code \notin Final /\ Code # "push_NC2N"  BY DEF Final, Parts, Selects, Names, Tags
<1>2. types[pc + 1] = Effect(Code, types[pc])  BY <1>1, NextTyped DEF Follows
<1>3. CASE Code = "dot_len_u2n_l"  BY <1>2, <1>3, Effects DEF PartType
<1>4. CASE Code \in Names
  <2>1. Code # "dot_len_u2n_l"  BY <1>4 DEF Names
  <2> QED  BY <1>2, <1>4, <2>1, Effects DEF PartType
<1>5. CASE Code \in Selects
  <2>1. Code # "dot_len_u2n_l" /\ Code \notin Names  BY <1>5 DEF Names, Selects, Tags
  <2> QED  BY <1>2, <1>5, <2>1, Effects DEF PartType
<1> QED  BY <1>3, <1>4, <1>5 DEF Parts

LEMMA SelectedMatches ==
  ASSUME NEW c \in Parts, NEW a, NEW v, Selected(c, a, v)[1] # Missing
  PROVE  HasKind(Selected(c, a, v)[1], PartType(c))
<1>1. CASE c = "dot_len_u2n_l"
  <2>1. Selected(c, a, v)[1] = <<"ulong", Len(v[2].elts)>>
    <3>1. c \notin Names /\ c \notin Selects /\ c \notin Tags
      BY <1>1 DEF Names, Selects, Tags
    <3>2. Selected(c, a, v) = <<IF Sort(v) = "seq" THEN <<"ulong", Len(v[2].elts)>> ELSE Missing, "NONE_SUCH">>
      BY <1>1, <3>1 DEF Selected
    <3> QED  BY <3>2
  <2>2. HasKind(<<"ulong", Len(v[2].elts)>>, "n")  BY DEF HasKind, Number
  <2> QED  BY <1>1, <2>1, <2>2 DEF PartType
<1>2. CASE c \in Names
  <2>2. c # "dot_len_u2n_l" /\ c \notin Selects /\ c \notin Tags /\ c \notin Tags \cup {"dot_d_u2u"}
        /\ c \notin {"dot_id_usC2u", "dot_num_ulC2u"} /\ c # "dot_d_u2u" /\ c # "index_ulC2u" /\ c # "assoc_usC2u"
    BY <1>2 DEF Names, Selects, Tags
  <2>1. Selected(c, a, v)[1] = <<"string", 0>>
    <3>1. Selected(c, a, v) = <<<<"string", 0>>, "NONE_SUCH">>  BY <1>2, <2>2, Zenon DEF Selected
    <3> QED  BY <3>1
  <2>3. HasKind(<<"string", 0>>, "s")  BY DEF HasKind
  <2> QED  BY <1>2, <2>1, <2>2, <2>3 DEF PartType
<1>3. CASE c # "dot_len_u2n_l" /\ c \notin Names  BY <1>3 DEF PartType, HasKind
<1> QED  BY <1>1, <1>2, <1>3

LEMMA SelectedCode == ASSUME NEW c, NEW a, NEW v PROVE Selected(c, a, v)[2] # "UNDEFINED"
BY DEF Selected, Names, Selects, Tags

LEMMA PartSafe == ASSUME StackInv, Part PROVE StackInv'
<1> DEFINE s == Selected(Code, Arg, Top)
<1>1. pc # 0 /\ Code \in Parts /\ pc' = pc + 1 /\ UNCHANGED <<ops, types>>  BY DEF Part, At
<1>2. types[pc + 1] = Append(Drop(types[pc], 1), PartType(Code))  BY <1>1, PartEffect
<1>3. 1 \in 0..Len(stack)  BY <1>1, Deep DEF Unary
<1>4. \/ r_code # "UNDEFINED" /\ UNCHANGED <<stack, r_code>>
      \/ r_code = "UNDEFINED" /\ r_code' = s[2] /\ UNCHANGED stack
      \/ r_code = "UNDEFINED" /\ s[1] # Missing /\ stack' = Append(Drop(stack, 1), s[1]) /\ UNCHANGED r_code
  BY DEF Part
<1> HIDE DEF s
<1>5. Like(stack, types[pc]) \/ LikeBelow(stack, types[pc])  BY <1>1 DEF StackInv, Running
<1>6. LikeBelow(stack, types[pc])
  <2>1. Len(stack) > 0  BY <1>1, <1>3, StackDepth
  <2> QED  BY <1>5, <2>1, LikeIsLikeBelow
<1>7. CASE UNCHANGED stack /\ r_code' # "UNDEFINED"
  <2>1. LikeBelow(stack, types[pc + 1])
    <3>1. IsSeq(stack) /\ IsSeq(types[pc]) /\ Len(stack) = Len(types[pc]) /\ Len(stack) \in Nat
      BY <1>1, StackDepth
    <3>2. IsSeq(Drop(types[pc], 1)) /\ Len(Drop(types[pc], 1)) = Len(stack) - 1
          /\ \A i \in 1..(Len(stack) - 1) : Drop(types[pc], 1)[i] = types[pc][i]
      <4>1. 1 \in 0..Len(types[pc])  BY <1>3, <3>1
      <4>2. /\ IsSeq(Drop(types[pc], 1)) /\ Len(Drop(types[pc], 1)) = Len(types[pc]) - 1
            /\ \A i \in 1..(Len(types[pc]) - 1) : Drop(types[pc], 1)[i] = types[pc][i]
        BY <3>1, <4>1, DropIsSeq
      <4> QED  BY <3>1, <4>2
    <3>3. IsSeq(types[pc + 1]) /\ Len(types[pc + 1]) = Len(stack)
          /\ \A i \in 1..(Len(stack) - 1) : types[pc + 1][i] = types[pc][i]
      <4>1. /\ IsSeq(types[pc + 1]) /\ Len(types[pc + 1]) = Len(Drop(types[pc], 1)) + 1
            /\ \A i \in 1..Len(Drop(types[pc], 1)) : types[pc + 1][i] = Drop(types[pc], 1)[i]
        BY <1>2, <3>2, AppendIsSeq
      <4> QED  BY <3>1, <3>2, <4>1
    <3> QED  BY <1>6, <3>1, <3>3 DEF LikeBelow
  <2> QED  BY <1>1, <1>7, <2>1, StaysWithin
<1>8. CASE s[1] # Missing /\ stack' = Append(Drop(stack, 1), s[1]) /\ r_code = "UNDEFINED" /\ UNCHANGED r_code
  <2>1. HasKind(s[1], PartType(Code))  BY <1>1, <1>8, SelectedMatches DEF s
  <2>3. Like(Append(Drop(stack, 1), s[1]), Append(Drop(types[pc], 1), PartType(Code)))
    <3>1. 1 > 0  OBVIOUS
    <3> QED  BY <1>3, <1>6, <2>1, <3>1, LikeReplace
  <2>2. Like(stack', types[pc + 1])  BY <1>2, <1>8, <2>3
  <2> QED  BY <1>1, <1>8, <2>2, StaysWithin
<1>9. s[2] # "UNDEFINED"  BY <1>1, SelectedCode DEF s
<1> QED  BY <1>4, <1>7, <1>8, <1>9

(* The end of a component takes its value, unless an error is pending. *)
LEMMA EndTyped ==
  ASSUME StackInv, pc # 0, Code \in Ends
  PROVE  /\ Code \notin Final /\ Code # "push_NC2N" /\ 1 \in 0..Len(stack)
         /\ IF r_code = "UNDEFINED" THEN Like(stack, types[pc]) ELSE LikeBelow(stack, types[pc])
         /\ types[pc + 1] = Effect(Code, types[pc]) /\ pc + 1 \in DOMAIN ops
         /\ Len(types[pc + 1]) <= StackSize
<1>1. Code \notin Final /\ Code # "push_NC2N" /\ Code \in Unary  BY DEF Ends, Final, Unary
<1>2. types[pc + 1] = Effect(Code, types[pc]) /\ pc + 1 \in DOMAIN ops /\ Len(types[pc + 1]) <= StackSize
  BY <1>1, NextTyped DEF Follows
<1> QED  BY <1>1, <1>2, Deep DEF StackInv, Running

LEMMA CompEndSafe == ASSUME StackInv, CompEnd PROVE StackInv'
<1>1. /\ pc # 0 /\ Code = "compend"
      /\ IF r_code # "UNDEFINED" THEN Signal(r_code) ELSE Go(stack)
  BY DEF CompEnd, At
<1>2. Code \in Ends  BY <1>1 DEF Ends
<1>3. CASE r_code = "UNDEFINED"
  <2>1. types[pc + 1] = types[pc]  BY <1>1, <1>2, EndTyped, Effects
  <2> QED  BY <1>1, <1>2, <1>3, <2>1, EndTyped, GoSafe
<1> QED  BY <1>1, <1>3, SignalSafe

LEMMA DefaultSafe == ASSUME StackInv, Default PROVE StackInv'
<1>1. /\ pc # 0 /\ Code = "default_X2b"
      /\ \/ \E c : Signal(c)
         \/ r_code = "UNDEFINED" /\ Go(Append(Drop(stack, 1), Bool(Top[2].dflt)))
  BY DEF Default, At
<1>2. Code \in Ends  BY <1>1 DEF Ends
<1>3. CASE r_code = "UNDEFINED" /\ Go(Append(Drop(stack, 1), Bool(Top[2].dflt)))
  <2>1. Effect(Code, types[pc]) = Append(Drop(types[pc], 1), "b")  BY <1>1, Effects
  <2>2. HasKind(Bool(Top[2].dflt), "b")  BY DEF HasKind, Bool
  <2> QED  BY <1>1, <1>2, <1>3, <2>1, <2>2, EndTyped, ReplaceSafe
<1> QED  BY <1>1, <1>3, SignalSafe

LEMMA ExistSafe == ASSUME StackInv, Exist PROVE StackInv'
<1> DEFINE b == Bool(r_code = "UNDEFINED")
<1>1. /\ pc # 0 /\ Code = "exist_X2b" /\ pc' = pc + 1 /\ r_code' = "UNDEFINED"
      /\ stack' = Append(Drop(stack, 1), b) /\ UNCHANGED <<ops, types>>
  BY DEF Exist, At
<1>2. Code \in Ends  BY <1>1 DEF Ends
<1>3. types[pc + 1] = Append(Drop(types[pc], 1), "b")  BY <1>1, <1>2, EndTyped, Effects
<1>4. HasKind(b, "b")  BY DEF HasKind, Bool
<1> HIDE DEF b
<1>5. Like(Append(Drop(stack, 1), b), Append(Drop(types[pc], 1), "b"))
  <2>1. 1 > 0  OBVIOUS
  <2> QED  BY <1>1, <1>2, <1>4, <2>1, EndTyped, LikeReplace
<1>6. Running'  BY <1>1, <1>2, <1>3, <1>5, EndTyped DEF Running
<1> QED  BY <1>1, <1>6 DEF StackInv

LEMMA FinalSafe == ASSUME StackInv, ReturnB \/ SignalN PROVE StackInv'
BY DEF StackInv, ReturnB, SignalN, Signal

(***************************************************************************)
(* Every step keeps the invariant, and the invariant is what StackTyped    *)
(* says.                                                                   *)
(***************************************************************************)
LEMMA EvalStart == ASSUME EvalInit PROVE StackInv
<1>1. Typed(ops, types) /\ pc = 1 /\ stack = <<>> /\ r_code = "UNDEFINED"  BY DEF EvalInit
<1>2. 1 \in DOMAIN ops /\ types[1] = <<>>  BY <1>1 DEF Typed
<1>3. IsSeq(<<>>) /\ Len(<<>>) = 0
  <2>1. <<>> \in Seq({})  OBVIOUS
  <2> QED  BY <2>1 DEF IsSeq
<1>4. Like(<<>>, <<>>)  BY <1>3 DEF Like
<1> QED  BY <1>1, <1>2, <1>3, <1>4, RVMAssumption DEF StackInv, Running

LEMMA EvalStep == ASSUME StackInv, [EvalNext]_machine PROVE StackInv'
<1>1. CASE Push  BY <1>1, PushSafe
<1>2. CASE Pop  BY <1>2, PopSafe
<1>3. CASE Label  BY <1>3, LabelSafe
<1>4. CASE Not  BY <1>4, NotSafe
<1>5. CASE CvtBool  BY <1>5, CvtBoolSafe
<1>6. CASE CvtString  BY <1>6, CvtStringSafe
<1>7. CASE CvtNumber  BY <1>7, CvtNumberSafe
<1>8. CASE Arith  BY <1>8, ArithSafe
<1>9. CASE Compare  BY <1>9, CompareSafe
<1>10. CASE ZeroTest  BY <1>10, ZeroTestSafe
<1>11. CASE SubString  BY <1>11, SubStringSafe
<1>12. CASE In  BY <1>12, InSafe
<1>13. CASE Branch  BY <1>13, BranchSafe
<1>14. CASE Component  BY <1>14, ComponentSafe
<1>15. CASE Part  BY <1>15, PartSafe
<1>16. CASE CompEnd  BY <1>16, CompEndSafe
<1>17. CASE Default  BY <1>17, DefaultSafe
<1>18. CASE Exist  BY <1>18, ExistSafe
<1>19. CASE ReturnB \/ SignalN  BY <1>19, FinalSafe
<1>20. CASE UNCHANGED machine
  BY <1>20 DEF StackInv, machine, Running, Code
<1> QED
  BY <1>1, <1>2, <1>3, <1>4, <1>5, <1>6, <1>7, <1>8, <1>9, <1>10, <1>11, <1>12, <1>13,
     <1>14, <1>15, <1>16, <1>17, <1>18, <1>19, <1>20
  DEF EvalNext

LEMMA InvariantTypesStack == ASSUME StackInv PROVE StackTyped
<1> SUFFICES ASSUME pc # 0
             PROVE  /\ pc \in DOMAIN ops
                    /\ Len(stack) = Len(types[pc]) /\ Len(stack) <= StackSize
                    /\ (r_code = "UNDEFINED" \/ Code \in InComponent)
                    /\ \A i \in DOMAIN stack : \/ HasKind(stack[i], types[pc][i])
                                              \/ (r_code # "UNDEFINED" /\ i = Len(stack))
  BY DEF StackTyped
<1>1. pc \in DOMAIN ops /\ Len(types[pc]) <= StackSize  BY DEF StackInv, Running
<1>2. Len(stack) = Len(types[pc]) /\ Len(stack) \in Nat /\ DOMAIN stack = 1..Len(stack)
  BY StackDepth, LenIsNat
<1>3. CASE r_code = "UNDEFINED" /\ Like(stack, types[pc])  BY <1>1, <1>2, <1>3 DEF Like
<1>4. CASE r_code # "UNDEFINED" /\ Code \in InComponent /\ LikeBelow(stack, types[pc])
  BY <1>1, <1>2, <1>4 DEF LikeBelow
<1> QED  BY <1>3, <1>4 DEF StackInv, Running

(* For every well typed program, every event, every width of the numbers   *)
(* and every size of the stack: each operation of the machine finds the    *)
(* operands it asserts, the stack never overflows nor runs empty, and an    *)
(* error is pending only inside the component that failed.                 *)
THEOREM StackSafety == EvalSpec => []StackTyped
<1>1. EvalInit => StackInv  BY EvalStart
<1>2. StackInv /\ [EvalNext]_machine => StackInv'  BY EvalStep
<1>3. StackInv => StackTyped  BY InvariantTypesStack
<1> QED  BY <1>1, <1>2, <1>3, PTL DEF EvalSpec

-----------------------------------------------------------------------------
(* Sums over finite sets                                                   *)

(* Induction over the numbers, for a set: the theorem of NaturalsInduction *)
(* takes an operator.                                                      *)
LEMMA SetInduction ==
  ASSUME NEW S, S \subseteq Nat, 0 \in S, \A n \in S : n + 1 \in S
  PROVE  S = Nat
<1> SUFFICES ASSUME Nat \ S # {} PROVE FALSE  OBVIOUS
<1> DEFINE T == Nat \ S  R == OpToRel(<, Nat)
<1>1. PICK x \in T : \A y \in T : ~ (<<y, x>> \in R)
  BY NatLessThanWellFounded, WFMin
<1>2. x # 0 /\ x \in Nat /\ x - 1 \in Nat  OBVIOUS
<1>3. x - 1 \in T  BY <1>2
<1>4. <<x - 1, x>> \in R  BY <1>2 DEF OpToRel
<1> QED  BY <1>1, <1>3, <1>4

(* What the recursive function under a sum does with a set.                *)
Pick(s) == CHOOSE x \in s : TRUE
SumBody(g, it, s) == IF s = {} THEN 0 ELSE g[Pick(s)] + it[s \ {Pick(s)}]

Sums(g, D, it) == it = [s \in SUBSET D |-> SumBody(g, it, s)]

(* A finite set is one smaller without one of its elements.                *)
LEMMA Smaller ==
  ASSUME NEW s, IsFiniteSet(s), NEW x \in s
  PROVE  /\ IsFiniteSet(s \ {x}) /\ Cardinality(s) \in Nat /\ Cardinality(s) # 0
         /\ Cardinality(s \ {x}) \in Nat /\ Cardinality(s \ {x}) = Cardinality(s) - 1
<1>1. IsFiniteSet(s \ {x}) /\ Cardinality(s \ {x}) = Cardinality(s) - 1
  BY FS_RemoveElement
<1>2. Cardinality(s) \in Nat /\ Cardinality(s \ {x}) \in Nat
  BY <1>1, FS_CardinalityType
<1> QED  BY <1>1, <1>2

(* The function exists.                                                    *)
LEMMA SumIter ==
  ASSUME NEW D, IsFiniteSet(D), NEW g
  PROVE  \E it : Sums(g, D, it) /\ SumFunctionOnSet(g, D) = it[D]
<1> DEFINE Upto(k) == {s \in SUBSET D : Cardinality(s) <= k}
           Def(k) == \E it : it = [s \in Upto(k) |-> SumBody(g, it, s)]
           Good == {k \in Nat : Def(k)}
<1>1. \A s \in SUBSET D : IsFiniteSet(s) /\ Cardinality(s) \in Nat
  BY FS_Subset, FS_CardinalityType
<1>2. \A s \in SUBSET D : s # {} =>
        /\ Pick(s) \in s
        /\ Cardinality(s \ {Pick(s)}) = Cardinality(s) - 1
  BY <1>1, Smaller DEF Pick
<1>3. 0 \in Good
  <2>1. \A s \in Upto(0) : s = {}
    BY <1>1, FS_EmptySet
  <2> DEFINE f == [s \in Upto(0) |-> 0]
  <2>2. f = [s \in Upto(0) |-> SumBody(g, f, s)]
    <3>1. \A s \in Upto(0) : SumBody(g, f, s) = 0
      BY <2>1 DEF SumBody
    <3> HIDE DEF Upto
    <3> QED  BY <3>1
  <2>3. Def(0)  BY <2>2
  <2> HIDE DEF Def
  <2> QED  BY <2>3
<1>4. ASSUME NEW k \in Good PROVE k + 1 \in Good
  <2>1. k \in Nat /\ Def(k)  OBVIOUS
  <2>2. PICK f : f = [s \in Upto(k) |-> SumBody(g, f, s)]  BY <2>1
  <2> DEFINE h == [s \in Upto(k + 1) |-> IF Cardinality(s) = k + 1 THEN SumBody(g, f, s) ELSE f[s]]
  <2>3. \A s \in Upto(k) : s \in Upto(k + 1) /\ h[s] = f[s]
    BY <1>1, <2>1
  <2>4. \A s \in Upto(k + 1) : h[s] = SumBody(g, f, s)
    <3> SUFFICES ASSUME NEW s \in Upto(k + 1), Cardinality(s) # k + 1
                 PROVE  f[s] = SumBody(g, f, s)
      OBVIOUS
    <3>1. s \in Upto(k)  BY <1>1, <2>1
    <3> HIDE DEF Upto
    <3> QED  BY <2>2, <3>1
  <2>5. \A s \in Upto(k + 1) : SumBody(g, f, s) = SumBody(g, h, s)
    <3> SUFFICES ASSUME NEW s \in Upto(k + 1), s # {}
                 PROVE  f[s \ {Pick(s)}] = h[s \ {Pick(s)}]
      BY DEF SumBody
    <3>1. s \ {Pick(s)} \in Upto(k)
      BY <1>1, <1>2, <2>1
    <3> HIDE DEF h, Upto
    <3> QED  BY <2>3, <3>1
  <2>6. h = [s \in Upto(k + 1) |-> h[s]]  OBVIOUS
  <2>7. Def(k + 1)
    <3> HIDE DEF h, Upto
    <3> QED  BY <2>4, <2>5, <2>6
  <2> HIDE DEF Def
  <2> QED  BY <2>1, <2>7
<1>5. Good = Nat
  <2> HIDE DEF Def
  <2>1. Good \subseteq Nat  OBVIOUS
  <2> HIDE DEF Good
  <2> QED  BY <1>3, <1>4, <2>1, SetInduction
<1>6. Cardinality(D) \in Nat /\ Upto(Cardinality(D)) = SUBSET D
  <2>1. \A s \in SUBSET D : Cardinality(s) <= Cardinality(D)  BY FS_Subset
  <2> QED  BY <1>1, <2>1
<1>7. \E it : it = [s \in SUBSET D |-> SumBody(g, it, s)]
  <2>1. Def(Cardinality(D))  BY <1>5, <1>6
  <2> HIDE DEF Upto
  <2> QED  BY <1>6, <2>1
<1> HIDE DEF Good, Def, Upto
<1> DEFINE it == CHOOSE it : it = [s \in SUBSET D |-> SumBody(g, it, s)]
<1>8. it = [s \in SUBSET D |-> SumBody(g, it, s)]
  BY <1>7, Zenon
<1>9. SumFunctionOnSet(g, D) = it[D]
  BY Zenon DEF SumFunctionOnSet, FoldFunctionOnSet, MapThenFoldSet, SumBody, Pick
<1> HIDE DEF it
<1> QED  BY <1>8, <1>9 DEF Sums

(* Two such functions agree where what they sum up agrees.                 *)
LEMMA SumAgree ==
  ASSUME NEW D, NEW g, NEW it, Sums(g, D, it), NEW E, NEW h, NEW jt, Sums(h, E, jt),
         NEW S, IsFiniteSet(S), S \subseteq D, S \subseteq E, \A x \in S : g[x] = h[x]
  PROVE  it[S] = jt[S]
<1> DEFINE Good == {k \in Nat : \A s \in SUBSET S : Cardinality(s) = k => it[s] = jt[s]}
<1>1. \A s \in SUBSET S : IsFiniteSet(s) /\ Cardinality(s) \in Nat
  BY FS_Subset, FS_CardinalityType
<1>2. \A s \in SUBSET S : it[s] = SumBody(g, it, s) /\ jt[s] = SumBody(h, jt, s)
  BY DEF Sums
<1>3. 0 \in Good
  <2> SUFFICES ASSUME NEW s \in SUBSET S, Cardinality(s) = 0 PROVE it[s] = jt[s]
    OBVIOUS
  <2>1. s = {}  BY <1>1, FS_EmptySet
  <2> QED  BY <1>2, <2>1 DEF SumBody
<1>4. ASSUME NEW k \in Good PROVE k + 1 \in Good
  <2> SUFFICES ASSUME NEW s \in SUBSET S, Cardinality(s) = k + 1 PROVE it[s] = jt[s]
    OBVIOUS
  <2>1. k \in Nat /\ s # {}  BY FS_EmptySet
  <2>2. Pick(s) \in s  BY <2>1 DEF Pick
  <2>3. s \ {Pick(s)} \in SUBSET S /\ Cardinality(s \ {Pick(s)}) = k
    BY <1>1, <2>1, <2>2, Smaller
  <2>4. it[s \ {Pick(s)}] = jt[s \ {Pick(s)}]
    BY <2>3
  <2>5. g[Pick(s)] = h[Pick(s)]  BY <2>2
  <2> QED  BY <1>2, <2>1, <2>4, <2>5 DEF SumBody
<1>5. Good = Nat
  <2>1. Good \subseteq Nat  OBVIOUS
  <2> HIDE DEF Good
  <2> QED  BY <1>3, <1>4, <2>1, SetInduction
<1> QED  BY <1>1, <1>5

(* Two functions that agree on a set have the same sum over it.            *)
LEMMA SumSame ==
  ASSUME NEW S, IsFiniteSet(S), NEW g, NEW h, \A x \in S : g[x] = h[x]
  PROVE  SumFunctionOnSet(g, S) = SumFunctionOnSet(h, S)
<1>1. PICK it : Sums(g, S, it) /\ SumFunctionOnSet(g, S) = it[S]  BY SumIter
<1>2. PICK jt : Sums(h, S, jt) /\ SumFunctionOnSet(h, S) = jt[S]  BY SumIter
<1> QED  BY <1>1, <1>2, SumAgree

(* A sum is a number, and any element can be taken out of it.              *)
LEMMA SumTake ==
  ASSUME NEW S, IsFiniteSet(S), NEW g, \A x \in S : g[x] \in Nat
  PROVE  /\ SumFunctionOnSet(g, S) \in Nat
         /\ S = {} => SumFunctionOnSet(g, S) = 0
         /\ \A y \in S : SumFunctionOnSet(g, S) = g[y] + SumFunctionOnSet(g, S \ {y})
<1>1. PICK it : Sums(g, S, it) /\ SumFunctionOnSet(g, S) = it[S]  BY SumIter
<1>2. \A s \in SUBSET S : IsFiniteSet(s) /\ Cardinality(s) \in Nat
  BY FS_Subset, FS_CardinalityType
<1>3. \A s \in SUBSET S : it[s] = SumBody(g, it, s)
  BY <1>1 DEF Sums
<1> DEFINE P(s) == it[s] \in Nat /\ \A y \in s : it[s] = g[y] + it[s \ {y}]
           Good == {k \in Nat : \A s \in SUBSET S : Cardinality(s) <= k => P(s)}
<1>4. 0 \in Good
  <2> SUFFICES ASSUME NEW s \in SUBSET S, Cardinality(s) <= 0 PROVE P(s)
    OBVIOUS
  <2>1. s = {}  BY <1>2, FS_EmptySet
  <2> QED  BY <1>3, <2>1 DEF SumBody
<1>5. ASSUME NEW k \in Good PROVE k + 1 \in Good
  <2>0. k \in Nat /\ \A s \in SUBSET S : Cardinality(s) <= k => P(s)
    OBVIOUS
  <2>9. ASSUME NEW s \in SUBSET S, Cardinality(s) = k + 1 PROVE P(s)
    <3>1. s # {}
      <4>1. Cardinality({}) = 0  BY FS_EmptySet
      <4>2. Cardinality(s) # 0  BY <2>0, <2>9
      <4> QED  BY <4>1, <4>2
    <3>2. \A u \in SUBSET S : Cardinality(u) <= k => it[u] \in Nat /\ \A y \in u : it[u] = g[y] + it[u \ {y}]
      BY <2>0
    <3>3. \A y \in s : /\ s \ {y} \in SUBSET S /\ IsFiniteSet(s \ {y})
                       /\ Cardinality(s \ {y}) = k
      BY <1>2, <2>0, <2>9, Smaller
    <3>4. \A y \in s : it[s \ {y}] \in Nat /\ \A z \in s \ {y} : it[s \ {y}] = g[z] + it[(s \ {y}) \ {z}]
      <4> HIDE DEF P
      <4> QED  BY <2>0, <3>2, <3>3
    <3>5. \A y \in s, z \in s : y # z => it[(s \ {y}) \ {z}] \in Nat
      <4> SUFFICES ASSUME NEW y \in s, NEW z \in s, y # z PROVE it[(s \ {y}) \ {z}] \in Nat
        OBVIOUS
      <4>1. z \in s \ {y} /\ IsFiniteSet(s \ {y}) /\ Cardinality(s \ {y}) = k
        BY <3>3
      <4> DEFINE u == s \ {y}
      <4>2. z \in u /\ IsFiniteSet(u) /\ Cardinality(u) = k /\ u \ {z} \in SUBSET S
        BY <4>1
      <4> HIDE DEF u
      <4>3. Cardinality(u \ {z}) <= k  BY <2>0, <4>2, Smaller
      <4>4. it[u \ {z}] \in Nat  BY <3>2, <4>2, <4>3
      <4> QED  BY <4>4 DEF u
    <3> DEFINE c == Pick(s)
    <3>6. c \in s  BY <3>1 DEF Pick
    <3>7. it[s] = g[c] + it[s \ {c}]  BY <1>3, <3>1 DEF SumBody
    <3> HIDE DEF c
    <3>8. \A y \in s : g[y] \in Nat  OBVIOUS
    <3>9. it[s] \in Nat  BY <3>4, <3>6, <3>7, <3>8
    <3>10. ASSUME NEW y \in s, y # c PROVE it[s] = g[y] + it[s \ {y}]
      <4>1. it[s \ {c}] = g[y] + it[(s \ {c}) \ {y}]
        BY <3>4, <3>6, <3>10
      <4>2. it[s \ {y}] = g[c] + it[(s \ {y}) \ {c}]
        BY <3>4, <3>6, <3>10
      <4>3. (s \ {c}) \ {y} = (s \ {y}) \ {c}  OBVIOUS
      <4>4. it[(s \ {c}) \ {y}] \in Nat  BY <3>5, <3>6, <3>10
      <4>5. g[c] \in Nat /\ g[y] \in Nat  BY <3>6, <3>8
      <4>6. it[(s \ {c}) \ {y}] = it[(s \ {y}) \ {c}]  BY <4>3
      <4> DEFINE m == it[(s \ {c}) \ {y}]
      <4>7. m \in Nat /\ it[s \ {c}] = g[y] + m /\ it[s \ {y}] = g[c] + m
        BY <4>1, <4>2, <4>4, <4>6
      <4> HIDE DEF m
      <4> QED  BY <3>7, <4>5, <4>7
    <3> QED  BY <3>7, <3>9, <3>10
  <2>10. \A s \in SUBSET S : Cardinality(s) <= k + 1 => P(s)
    <3> SUFFICES ASSUME NEW s \in SUBSET S, Cardinality(s) <= k + 1 PROVE P(s)
      BY Zenon
    <3>1. Cardinality(s) <= k \/ Cardinality(s) = k + 1  BY <1>2, <2>0
    <3> HIDE DEF P
    <3> QED  BY <2>0, <2>9, <3>1
  <2> HIDE DEF P
  <2> QED  BY <2>0, <2>10
<1>6. Good = Nat
  <2>1. Good \subseteq Nat  OBVIOUS
  <2> HIDE DEF Good
  <2> QED  BY <1>4, <1>5, <2>1, SetInduction
<1>7. P(S)
  <2> HIDE DEF P
  <2> QED  BY <1>2, <1>6
<1>8. \A y \in S : it[S \ {y}] = SumFunctionOnSet(g, S \ {y})
  <2> SUFFICES ASSUME NEW y \in S PROVE it[S \ {y}] = SumFunctionOnSet(g, S \ {y})
    OBVIOUS
  <2>1. IsFiniteSet(S \ {y})  BY <1>2
  <2>2. PICK jt : Sums(g, S \ {y}, jt) /\ SumFunctionOnSet(g, S \ {y}) = jt[S \ {y}]
    BY <2>1, SumIter
  <2> QED  BY <1>1, <2>1, <2>2, SumAgree
<1>9. S = {} => it[S] = 0  BY <1>3 DEF SumBody
<1> QED  BY <1>1, <1>7, <1>8, <1>9

(* A sum is zero exactly when nothing that is summed up is more; it is at  *)
(* most one when at most one element counts, and counts once.              *)
LEMMA SumZero ==
  ASSUME NEW S, IsFiniteSet(S), NEW g, \A x \in S : g[x] \in Nat
  PROVE  SumFunctionOnSet(g, S) > 0 <=> \E x \in S : g[x] > 0
<1>1. \A s \in SUBSET S : IsFiniteSet(s) /\ Cardinality(s) \in Nat
  BY FS_Subset, FS_CardinalityType
<1> DEFINE P(s) == (\A x \in s : g[x] = 0) => SumFunctionOnSet(g, s) = 0
           Good == {k \in Nat : \A s \in SUBSET S : Cardinality(s) = k => P(s)}
<1>2. 0 \in Good
  <2>1. \A s \in SUBSET S : Cardinality(s) = 0 => s = {}  BY <1>1, FS_EmptySet
  <2> QED  BY <2>1, <1>1, SumTake
<1>3. ASSUME NEW k \in Good PROVE k + 1 \in Good
  <2>0. k \in Nat /\ \A s \in SUBSET S : Cardinality(s) = k => P(s)
    OBVIOUS
  <2> SUFFICES ASSUME NEW s \in SUBSET S, Cardinality(s) = k + 1, \A x \in s : g[x] = 0
               PROVE  SumFunctionOnSet(g, s) = 0
    BY <2>0
  <2>1. PICK y \in s : TRUE  BY <2>0, FS_EmptySet
  <2>2. s \ {y} \in SUBSET S /\ Cardinality(s \ {y}) = k  BY <1>1, <2>0, Smaller
  <2>3. SumFunctionOnSet(g, s \ {y}) = 0  BY <2>0, <2>2
  <2>4. SumFunctionOnSet(g, s) = g[y] + SumFunctionOnSet(g, s \ {y})  BY <1>1, SumTake
  <2> QED  BY <2>3, <2>4
<1>4. Good = Nat
  <2>1. Good \subseteq Nat  OBVIOUS
  <2> HIDE DEF Good
  <2> QED  BY <1>2, <1>3, <2>1, SetInduction
<1>5. P(S)
  <2> HIDE DEF P
  <2> QED  BY <1>1, <1>4
<1>6. ASSUME NEW x \in S, g[x] > 0 PROVE SumFunctionOnSet(g, S) > 0
  <2>1. SumFunctionOnSet(g, S) = g[x] + SumFunctionOnSet(g, S \ {x})  BY SumTake
  <2>2. SumFunctionOnSet(g, S \ {x}) \in Nat  BY <1>1, SumTake
  <2> QED  BY <1>6, <2>1, <2>2
<1>7. (\A x \in S : ~(g[x] > 0)) => \A x \in S : g[x] = 0  OBVIOUS
<1> QED  BY <1>5, <1>6, <1>7

(* The sum of a function to 0 and 1 that is 1 at one point at most is at   *)
(* most 1.                                                                 *)
LEMMA SumOne ==
  ASSUME NEW S, IsFiniteSet(S), NEW g, \A x \in S : g[x] \in {0, 1},
         \A x, y \in S : g[x] = 1 /\ g[y] = 1 => x = y
  PROVE  SumFunctionOnSet(g, S) <= 1
<1>1. \A x \in S : g[x] \in Nat  OBVIOUS
<1>2. SumFunctionOnSet(g, S) \in Nat  BY <1>1, SumTake
<1>3. CASE \E x \in S : g[x] = 1
  <2>1. PICK x \in S : g[x] = 1  BY <1>3
  <2>2. IsFiniteSet(S \ {x}) /\ \A y \in S \ {x} : g[y] = 0  BY <2>1, FS_Subset
  <2>3. SumFunctionOnSet(g, S) = 1 + SumFunctionOnSet(g, S \ {x})  BY <1>1, <2>1, SumTake
  <2>4. SumFunctionOnSet(g, S \ {x}) \in Nat  BY <1>1, <2>2, SumTake
  <2>5. ~(SumFunctionOnSet(g, S \ {x}) > 0)  BY <1>1, <2>2, SumZero
  <2> QED  BY <2>3, <2>4, <2>5
<1>4. CASE \A x \in S : g[x] = 0
  <2>1. ~(SumFunctionOnSet(g, S) > 0)  BY <1>1, <1>4, SumZero
  <2> QED  BY <1>2, <2>1
<1> QED  BY <1>3, <1>4

-----------------------------------------------------------------------------
(* How often types are used                                                *)

(* What a filter's tables are made of.                                     *)
Con == [id : Nat, types : Seq(Types)]

(* A type is counted in a list if it is in it.                             *)
LEMMA TimesType ==
  ASSUME NEW l \in Seq(Types), NEW t
  PROVE  /\ Times(l, t) \in Nat
         /\ Times(l, t) > 0 <=> \E k \in 1..Len(l) : l[k] = t
<1> DEFINE S == {k \in DOMAIN l : l[k] = t}
<1>1. DOMAIN l = 1..Len(l) /\ Len(l) \in Nat  BY LenProperties
<1>2. IsFiniteSet(S)
  <2>1. IsFiniteSet(1..Len(l)) /\ S \subseteq 1..Len(l)  BY <1>1, FS_Interval
  <2> HIDE DEF S
  <2> QED  BY <2>1, FS_Subset
<1>3. Cardinality(S) \in Nat /\ (Cardinality(S) = 0 <=> S = {})
  BY <1>2, FS_CardinalityType, FS_EmptySet
<1>4. Times(l, t) = Cardinality(S)  BY DEF Times
<1>5. S = {} <=> ~ \E k \in 1..Len(l) : l[k] = t  BY <1>1
<1> HIDE DEF S
<1> QED  BY <1>3, <1>4, <1>5

(* The counts of the types up to the k-th.                                 *)
UpTo(l, k, t) == Cardinality({j \in 1..k : l[j] = t})

(* The count grows by one at each place where the type is.                 *)
LEMMA UpToStep ==
  ASSUME NEW l \in Seq(Types), NEW t
  PROVE  /\ UpTo(l, 0, t) = 0
         /\ UpTo(l, Len(l), t) = Times(l, t)
         /\ \A k \in Nat : /\ UpTo(l, k, t) \in Nat
                           /\ UpTo(l, k + 1, t) = UpTo(l, k, t) + (IF l[k + 1] = t THEN 1 ELSE 0)
<1>1. DOMAIN l = 1..Len(l)  BY LenProperties
<1>2. UpTo(l, 0, t) = 0
  <2>1. {j \in 1..0 : l[j] = t} = {}  OBVIOUS
  <2> QED  BY <2>1, FS_EmptySet DEF UpTo
<1>3. ASSUME NEW k \in Nat
      PROVE  /\ UpTo(l, k, t) \in Nat
             /\ UpTo(l, k + 1, t) = UpTo(l, k, t) + (IF l[k + 1] = t THEN 1 ELSE 0)
  <2> DEFINE A == {j \in 1..k : l[j] = t}  B == {j \in 1..(k + 1) : l[j] = t}
  <2>1. IsFiniteSet(A)
    <3>1. IsFiniteSet(1..k) /\ A \subseteq 1..k  BY FS_Interval
    <3> HIDE DEF A
    <3> QED  BY <3>1, FS_Subset
  <2>2. UpTo(l, k, t) = Cardinality(A) /\ UpTo(l, k + 1, t) = Cardinality(B)  BY DEF UpTo
  <2>3. k + 1 \notin A  OBVIOUS
  <2>4. B = IF l[k + 1] = t THEN A \union {k + 1} ELSE A
    <3>1. 1..(k + 1) = (1..k) \union {k + 1}  OBVIOUS
    <3> QED  BY <3>1
  <2> HIDE DEF A, B
  <2>5. Cardinality(A) \in Nat  BY <2>1, FS_CardinalityType
  <2>6. Cardinality(A \union {k + 1}) = Cardinality(A) + 1  BY <2>1, <2>3, FS_AddElement
  <2> QED  BY <2>2, <2>4, <2>5, <2>6
<1>4. UpTo(l, Len(l), t) = Times(l, t)  BY <1>1 DEF UpTo, Times
<1> QED  BY <1>2, <1>3, <1>4

(* The uses are a sum of naturals.                                         *)
LEMMA UsesSum ==
  ASSUME NEW cs \in Seq(Con), NEW t
  PROVE  /\ Uses(cs, t) = SumFunctionOnSet([k \in 1..Len(cs) |-> Times(cs[k].types, t)], 1..Len(cs))
         /\ IsFiniteSet(1..Len(cs))
         /\ \A k \in 1..Len(cs) : Times(cs[k].types, t) \in Nat
         /\ Uses(cs, t) \in Nat
<1>1. DOMAIN cs = 1..Len(cs) /\ Len(cs) \in Nat  BY LenProperties
<1>2. IsFiniteSet(1..Len(cs))  BY <1>1, FS_Interval
<1>3. \A k \in 1..Len(cs) : cs[k].types \in Seq(Types)
  <2>1. \A k \in 1..Len(cs) : cs[k] \in Con  BY ElementOfSeq
  <2> QED  BY <2>1 DEF Con
<1>4. \A k \in 1..Len(cs) : Times(cs[k].types, t) \in Nat  BY <1>3, TimesType
<1> DEFINE g == [k \in 1..Len(cs) |-> Times(cs[k].types, t)]
<1>5. Uses(cs, t) = SumFunctionOnSet(g, 1..Len(cs))
  <2>1. g = [k \in DOMAIN cs |-> Times(cs[k].types, t)]  BY <1>1
  <2>2. DOMAIN g = 1..Len(cs)  OBVIOUS
  <2> HIDE DEF g
  <2> QED  BY <2>1, <2>2 DEF Uses, SumFunction
<1>6. \A k \in 1..Len(cs) : g[k] \in Nat  BY <1>4
<1>7. SumFunctionOnSet(g, 1..Len(cs)) \in Nat
  <2> HIDE DEF g
  <2> QED  BY <1>2, <1>6, SumTake
<1> QED  BY <1>2, <1>4, <1>5, <1>7

(* Without constraints, no type is used.                                   *)
LEMMA UsesEmpty ==
  ASSUME NEW t
  PROVE  Uses(<<>>, t) = 0
<1>1. Len(<<>>) = 0 /\ 1..0 = {} /\ <<>> \in Seq(Con)  OBVIOUS
<1> DEFINE g == [k \in 1..0 |-> Times(<<>>[k].types, t)]
<1>2. Uses(<<>>, t) = SumFunctionOnSet(g, {})  BY <1>1, UsesSum
<1>3. IsFiniteSet({})  BY FS_EmptySet
<1> HIDE DEF g
<1> QED  BY <1>2, <1>3, SumTake

(* A constraint more: its types are counted on top.                        *)
LEMMA UsesAppend ==
  ASSUME NEW cs \in Seq(Con), NEW c \in Con, NEW t
  PROVE  Uses(Append(cs, c), t) = Uses(cs, t) + Times(c.types, t)
<1> DEFINE n == Len(cs)  ds == Append(cs, c)
           g == [k \in 1..n |-> Times(cs[k].types, t)]
           h == [k \in 1..Len(ds) |-> Times(ds[k].types, t)]
<1>1. /\ ds \in Seq(Con) /\ Len(ds) = n + 1 /\ n \in Nat
      /\ \A k \in 1..n : ds[k] = cs[k]
      /\ ds[n + 1] = c
  BY AppendProperties, LenProperties
<1>2. Uses(cs, t) = SumFunctionOnSet(g, 1..n) /\ IsFiniteSet(1..n)  BY UsesSum
<1> HIDE DEF ds
<1>3. /\ Uses(ds, t) = SumFunctionOnSet(h, 1..(n + 1))
      /\ IsFiniteSet(1..(n + 1)) /\ \A k \in 1..(n + 1) : Times(ds[k].types, t) \in Nat
  BY <1>1, UsesSum
<1>4. \A k \in 1..(n + 1) : h[k] \in Nat  BY <1>1, <1>3
<1>5. \A k \in 1..n : h[k] = g[k]  BY <1>1
<1>6. h[n + 1] = Times(c.types, t)  BY <1>1
<1>7. (1..(n + 1)) \ {n + 1} = 1..n /\ n + 1 \in 1..(n + 1)  BY <1>1
<1> HIDE DEF g, h, n
<1>8. SumFunctionOnSet(h, 1..(n + 1)) = h[n + 1] + SumFunctionOnSet(h, 1..n)
  <2> DEFINE S == 1..(n + 1)
  <2>1. IsFiniteSet(S) /\ \A k \in S : h[k] \in Nat  BY <1>3, <1>4
  <2>2. n + 1 \in S /\ S \ {n + 1} = 1..n  BY <1>7
  <2> HIDE DEF S
  <2>3. SumFunctionOnSet(h, S) = h[n + 1] + SumFunctionOnSet(h, S \ {n + 1})
    BY <2>1, <2>2, SumTake
  <2> QED  BY <2>2, <2>3 DEF S
<1>9. SumFunctionOnSet(h, 1..n) = SumFunctionOnSet(g, 1..n)
  BY <1>2, <1>5, SumSame
<1>10. Uses(cs, t) \in Nat /\ h[n + 1] \in Nat  BY <1>4, <1>7, UsesSum
<1>11. Uses(ds, t) = Uses(cs, t) + Times(c.types, t)
  BY <1>2, <1>3, <1>6, <1>8, <1>9, <1>10
<1> QED  BY <1>11 DEF ds

(* A type is used if it is in a constraint.                                *)
LEMMA UsesPositive ==
  ASSUME NEW cs \in Seq(Con), NEW t
  PROVE  Uses(cs, t) > 0 <=>
           \E k \in 1..Len(cs) : \E j \in 1..Len(cs[k].types) : cs[k].types[j] = t
<1> DEFINE g == [k \in 1..Len(cs) |-> Times(cs[k].types, t)]
<1>1. /\ Uses(cs, t) = SumFunctionOnSet(g, 1..Len(cs)) /\ IsFiniteSet(1..Len(cs))
      /\ \A k \in 1..Len(cs) : Times(cs[k].types, t) \in Nat
  BY UsesSum
<1>2. \A k \in 1..Len(cs) : g[k] = Times(cs[k].types, t) /\ g[k] \in Nat  BY <1>1
<1> HIDE DEF g
<1>3. Uses(cs, t) > 0 <=> \E k \in 1..Len(cs) : g[k] > 0
  BY <1>1, <1>2, SumZero
<1>4. \A k \in 1..Len(cs) : cs[k].types \in Seq(Types)
  <2>1. \A k \in 1..Len(cs) : cs[k] \in Con  BY ElementOfSeq
  <2> QED  BY <2>1 DEF Con
<1>5. \A k \in 1..Len(cs) : g[k] > 0 <=> \E j \in 1..Len(cs[k].types) : cs[k].types[j] = t
  BY <1>2, <1>4, TimesType
<1> QED  BY <1>3, <1>5

(* The list of constraints without the i-th, whose place the last one takes. *)
Without(cs, i) == SubSeq(ReplaceAt(cs, i, cs[Len(cs)]), 1, Len(cs) - 1)

(* The last constraint takes the place of the one removed.                 *)
LEMMA WithoutIs ==
  ASSUME NEW cs \in Seq(Con), NEW i \in 1..Len(cs)
  PROVE  /\ Without(cs, i) \in Seq(Con) /\ Len(Without(cs, i)) = Len(cs) - 1
         /\ \A k \in 1..(Len(cs) - 1) : Without(cs, i)[k] = IF k = i THEN cs[Len(cs)] ELSE cs[k]
<1> DEFINE n == Len(cs)  ds == ReplaceAt(cs, i, cs[n])
<1>1. n \in Nat /\ DOMAIN cs = 1..n /\ n \in 1..n /\ cs[n] \in Con
  BY LenProperties, ElementOfSeq
<1>2. ds = [cs EXCEPT ![i] = cs[n]]  BY DEF ReplaceAt
<1>3. /\ ds \in Seq(Con) /\ Len(ds) = n
      /\ \A k \in 1..n : ds[k] = IF k = i THEN cs[n] ELSE cs[k]
  BY <1>1, <1>2, ExceptSeq
<1> HIDE DEF ds
<1>4. /\ SubSeq(ds, 1, n - 1) \in Seq(Con) /\ Len(SubSeq(ds, 1, n - 1)) = n - 1
      /\ \A k \in 1..(n - 1) : SubSeq(ds, 1, n - 1)[k] = ds[k]
  <2>1. \A k \in 1..(n - 1) : ds[k] \in Con  BY <1>1, <1>3, ElementOfSeq
  <2>2. SubSeq(ds, 1, n - 1) = [k \in 1..(n - 1) |-> ds[k]]
    BY <1>1, <1>3
  <2>3. n - 1 \in Nat  BY <1>1
  <2> HIDE DEF n
  <2> QED  BY <2>1, <2>2, <2>3
<1>5. Without(cs, i) = SubSeq(ds, 1, n - 1)  BY DEF ds, Without
<1> QED  BY <1>1, <1>3, <1>4, <1>5

(* A constraint less: what its types counted for is gone.                  *)
LEMMA UsesWithout ==
  ASSUME NEW cs \in Seq(Con), NEW i \in 1..Len(cs), NEW t
  PROVE  /\ Uses(cs, t) = Times(cs[i].types, t) + Uses(Without(cs, i), t)
         /\ Times(cs[i].types, t) \in Nat /\ Uses(Without(cs, i), t) \in Nat
<1> DEFINE n == Len(cs)  ds == Without(cs, i)
           g == [k \in 1..n |-> Times(cs[k].types, t)]
           h == [k \in 1..Len(ds) |-> Times(ds[k].types, t)]
<1>1. /\ ds \in Seq(Con) /\ Len(ds) = n - 1 /\ n \in Nat /\ n \in 1..n
      /\ \A k \in 1..(n - 1) : ds[k] = IF k = i THEN cs[n] ELSE cs[k]
  <2>1. Len(cs) \in Nat /\ Len(cs) \in 1..Len(cs)  BY LenProperties
  <2>2. /\ Without(cs, i) \in Seq(Con) /\ Len(Without(cs, i)) = Len(cs) - 1
        /\ \A k \in 1..(Len(cs) - 1) : Without(cs, i)[k] = IF k = i THEN cs[Len(cs)] ELSE cs[k]
    BY WithoutIs
  <2> QED  BY <2>1, <2>2
<1>2. /\ Uses(cs, t) = SumFunctionOnSet(g, 1..n) /\ IsFiniteSet(1..n) /\ Uses(cs, t) \in Nat
      /\ \A k \in 1..n : Times(cs[k].types, t) \in Nat
  BY UsesSum
<1> HIDE DEF ds
<1>3. /\ Uses(ds, t) = SumFunctionOnSet(h, 1..(n - 1)) /\ Uses(ds, t) \in Nat
      /\ IsFiniteSet(1..(n - 1)) /\ \A k \in 1..(n - 1) : Times(ds[k].types, t) \in Nat
  BY <1>1, UsesSum
<1>4. \A k \in 1..n : g[k] = Times(cs[k].types, t) /\ g[k] \in Nat  BY <1>2
<1>5. \A k \in 1..(n - 1) : h[k] = (IF k = i THEN g[n] ELSE g[k]) /\ h[k] \in Nat
  BY <1>1, <1>3
<1>6. i \in 1..n  OBVIOUS
<1> HIDE DEF g, h, n
<1>7. SumFunctionOnSet(g, 1..n) = g[i] + SumFunctionOnSet(h, 1..(n - 1))
  <2>1. SumFunctionOnSet(g, 1..n) = g[n] + SumFunctionOnSet(g, 1..(n - 1))
    <3>1. (1..n) \ {n} = 1..(n - 1)  BY <1>1
    <3>2. SumFunctionOnSet(g, 1..n) = g[n] + SumFunctionOnSet(g, (1..n) \ {n})
      BY <1>1, <1>2, <1>4, SumTake
    <3> QED  BY <3>1, <3>2
  <2>2. CASE i = n
    <3>1. \A k \in 1..(n - 1) : h[k] = g[k]  BY <1>1, <1>5, <2>2
    <3>2. SumFunctionOnSet(h, 1..(n - 1)) = SumFunctionOnSet(g, 1..(n - 1))
      BY <1>3, <3>1, SumSame
    <3> QED  BY <2>1, <2>2, <3>2
  <2>3. CASE i # n
    <3> DEFINE S == (1..(n - 1)) \ {i}
    <3>1. i \in 1..(n - 1)  BY <1>1, <1>6, <2>3
    <3>2. IsFiniteSet(S)  BY <1>3, FS_Subset
    <3>3. \A k \in S : h[k] = g[k]  BY <1>5
    <3>4. \A k \in 1..(n - 1) : g[k] \in Nat  BY <1>1, <1>4
    <3>5. SumFunctionOnSet(g, 1..(n - 1)) = g[i] + SumFunctionOnSet(g, S)
      BY <1>3, <3>1, <3>4, SumTake
    <3>6. SumFunctionOnSet(h, 1..(n - 1)) = h[i] + SumFunctionOnSet(h, S)
      BY <1>3, <1>5, <3>1, SumTake
    <3>7. h[i] = g[n]  BY <1>5, <3>1
    <3>8. SumFunctionOnSet(h, S) = SumFunctionOnSet(g, S)  BY <3>2, <3>3, SumSame
    <3>9. SumFunctionOnSet(g, S) \in Nat
      <4>1. \A k \in S : g[k] \in Nat  BY <3>4
      <4> HIDE DEF S
      <4> QED  BY <3>2, <4>1, SumTake
    <3>10. g[i] \in Nat /\ g[n] \in Nat  BY <1>1, <1>4, <1>6
    <3> HIDE DEF S
    <3> QED  BY <2>1, <3>5, <3>6, <3>7, <3>8, <3>9, <3>10
  <2> QED  BY <2>2, <2>3
<1>8. g[i] = Times(cs[i].types, t) /\ g[i] \in Nat  BY <1>4, <1>6
<1>9. Uses(cs, t) = Times(cs[i].types, t) + Uses(ds, t)
  BY <1>2, <1>3, <1>7, <1>8
<1> QED  BY <1>3, <1>8, <1>9 DEF ds

-----------------------------------------------------------------------------
(* Left folds, step by step                                                *)

(* A set of numbers up to n has a largest one.                             *)
LEMMA MaxIs ==
  ASSUME NEW n \in Nat, NEW s \in SUBSET (1..n), s # {}
  PROVE  Max(s) \in s /\ \A x \in s : x <= Max(s)
<1> DEFINE Good == {k \in Nat : \A u \in SUBSET (1..k) : u # {} => \E x \in u : \A y \in u : y <= x}
<1>1. 0 \in Good
  <2>1. 1..0 = {}  OBVIOUS
  <2> QED  BY <2>1
<1>2. ASSUME NEW k \in Good PROVE k + 1 \in Good
  <2> SUFFICES ASSUME NEW u \in SUBSET (1..(k + 1)), u # {}
               PROVE  \E x \in u : \A y \in u : y <= x
    OBVIOUS
  <2>1. CASE k + 1 \in u  BY <2>1
  <2>2. CASE k + 1 \notin u
    <3>1. u \in SUBSET (1..k)  BY <2>2
    <3> QED  BY <3>1
  <2> QED  BY <2>1, <2>2
<1>3. Good = Nat
  <2>1. Good \subseteq Nat  OBVIOUS
  <2> HIDE DEF Good
  <2> QED  BY <1>1, <1>2, <2>1, SetInduction
<1>4. PICK x \in s : \A y \in s : y <= x  BY <1>3
<1>5. \A y \in s : y \in Nat  OBVIOUS
<1> HIDE DEF Good
<1>6. \A y \in s : x >= y  BY <1>4, <1>5
<1>7. Max(s) = CHOOSE y \in s : \A z \in s : y >= z  BY DEF Max
<1>8. Max(s) \in s /\ \A z \in s : Max(s) >= z  BY <1>6, <1>7
<1> QED  BY <1>5, <1>8

(* The steps that the left folds of FilterTypes repeat.                    *)
Do(kind, e, x) ==
  CASE kind = "type" -> AddType(e, x)
    [] kind = "put" -> PutConstraint(e, x)
    [] kind = "remove" -> RemoveConstraint(e, x)
    [] kind = "replace" -> ReplaceConstraint(e, x)

(* What the recursive function under a fold does with a set of places.     *)
FoldBody(kind, base, l, f, s) ==
  IF s = {} THEN base ELSE Do(kind, f[s \ {Max(s)}], l[Max(s)])

IsFold(kind, base, l, n, f) == f = [s \in SUBSET (1..n) |-> FoldBody(kind, base, l, f, s)]

(* The recursive function under a fold exists.                             *)
LEMMA FoldExists ==
  ASSUME NEW kind, NEW base, NEW l, NEW n \in Nat
  PROVE  \E f : IsFold(kind, base, l, n, f)
<1> DEFINE D == 1..n
           Upto(k) == {s \in SUBSET D : Cardinality(s) <= k}
           Def(k) == \E f : f = [s \in Upto(k) |-> FoldBody(kind, base, l, f, s)]
           Good == {k \in Nat : Def(k)}
<1>0. IsFiniteSet(D)  BY FS_Interval
<1>1. \A s \in SUBSET D : IsFiniteSet(s) /\ Cardinality(s) \in Nat
  BY <1>0, FS_Subset, FS_CardinalityType
<1>2. \A s \in SUBSET D : s # {} =>
        /\ Max(s) \in s
        /\ Cardinality(s \ {Max(s)}) = Cardinality(s) - 1
  BY <1>1, MaxIs, Smaller
<1>3. 0 \in Good
  <2>1. \A s \in Upto(0) : s = {}
    BY <1>1, FS_EmptySet
  <2> DEFINE f == [s \in Upto(0) |-> base]
  <2>2. f = [s \in Upto(0) |-> FoldBody(kind, base, l, f, s)]
    <3>1. \A s \in Upto(0) : FoldBody(kind, base, l, f, s) = base
      BY <2>1 DEF FoldBody
    <3> HIDE DEF Upto
    <3> QED  BY <3>1
  <2>3. Def(0)  BY <2>2
  <2> HIDE DEF Def
  <2> QED  BY <2>3
<1>4. ASSUME NEW k \in Good PROVE k + 1 \in Good
  <2>1. k \in Nat /\ Def(k)  OBVIOUS
  <2>2. PICK f : f = [s \in Upto(k) |-> FoldBody(kind, base, l, f, s)]  BY <2>1
  <2> DEFINE B(s) == FoldBody(kind, base, l, f, s)
             h == [s \in Upto(k + 1) |-> IF Cardinality(s) = k + 1 THEN B(s) ELSE f[s]]
  <2>3. \A s \in Upto(k) : s \in Upto(k + 1) /\ h[s] = f[s]
    BY <1>1, <2>1
  <2>4. \A s \in Upto(k + 1) : h[s] = B(s)
    <3> SUFFICES ASSUME NEW s \in Upto(k + 1), Cardinality(s) # k + 1
                 PROVE  f[s] = B(s)
      OBVIOUS
    <3>1. s \in Upto(k)  BY <1>1, <2>1
    <3> HIDE DEF Upto
    <3> QED  BY <2>2, <3>1
  <2>5. \A s \in Upto(k + 1) : B(s) = FoldBody(kind, base, l, h, s)
    <3> SUFFICES ASSUME NEW s \in Upto(k + 1), s # {}
                 PROVE  f[s \ {Max(s)}] = h[s \ {Max(s)}]
      BY DEF FoldBody
    <3>1. s \in SUBSET D /\ Cardinality(s) <= k + 1 /\ Cardinality(s) \in Nat
      BY <1>1
    <3>2. Cardinality(s \ {Max(s)}) = Cardinality(s) - 1 /\ s \ {Max(s)} \in SUBSET D
      BY <1>2, <3>1
    <3>3. s \ {Max(s)} \in Upto(k)
      BY <2>1, <3>1, <3>2
    <3> HIDE DEF h, Upto
    <3> QED  BY <2>3, <3>3
  <2>6. h = [s \in Upto(k + 1) |-> h[s]]  OBVIOUS
  <2>7. Def(k + 1)
    <3>1. \A s \in Upto(k + 1) : h[s] = FoldBody(kind, base, l, h, s)  BY <2>4, <2>5
    <3> HIDE DEF h, Upto, B
    <3>2. h = [s \in Upto(k + 1) |-> FoldBody(kind, base, l, h, s)]  BY <2>6, <3>1
    <3> QED  BY <3>2
  <2> HIDE DEF Def
  <2> QED  BY <2>1, <2>7
<1>5. Good = Nat
  <2> HIDE DEF Def
  <2>1. Good \subseteq Nat  OBVIOUS
  <2> HIDE DEF Good
  <2> QED  BY <1>3, <1>4, <2>1, SetInduction
<1>6. Cardinality(D) \in Nat /\ Upto(Cardinality(D)) = SUBSET D
  <2>1. \A s \in SUBSET D : Cardinality(s) <= Cardinality(D)  BY <1>0, FS_Subset
  <2> HIDE DEF D
  <2> QED  BY <1>1, <2>1
<1>7. Def(Cardinality(D))  BY <1>5, <1>6
<1>8. PICK f : f = [s \in Upto(Cardinality(D)) |-> FoldBody(kind, base, l, f, s)]  BY <1>7
<1> HIDE DEF Upto
<1>9. IsFold(kind, base, l, n, f)  BY <1>6, <1>8 DEF IsFold
<1> QED  BY <1>9

(* The values a fold goes through.                                         *)
IsRun(kind, base, l, n, r, end) ==
  /\ r[0] = base
  /\ \A k \in 1..n : r[k] = Do(kind, r[k - 1], l[k])
  /\ r[n] = end

(* A fold goes through the list from its first element to its last.        *)
LEMMA FoldSteps ==
  ASSUME NEW kind, NEW base, NEW l, NEW n \in Nat, NEW f, IsFold(kind, base, l, n, f)
  PROVE  \E r : IsRun(kind, base, l, n, r, f[1..n])
<1>0. f = [s \in SUBSET (1..n) |-> FoldBody(kind, base, l, f, s)]  BY DEF IsFold
<1> DEFINE r == [k \in 0..n |-> f[1..k]]
<1>1. r[0] = base
  <2>1. 1..0 = {} /\ {} \in SUBSET (1..n)  OBVIOUS
  <2>2. f[{}] = base  BY <1>0, <2>1 DEF FoldBody
  <2> QED  BY <2>1, <2>2
<1>2. ASSUME NEW k \in 1..n PROVE r[k] = Do(kind, r[k - 1], l[k])
  <2>1. 1..k \in SUBSET (1..n) /\ 1..k # {} /\ k \in 1..k /\ k \in Nat /\ k - 1 \in 0..n /\ k \in 0..n
    OBVIOUS
  <2>2. Max(1..k) = k
    <3>1. Max(1..k) \in 1..k /\ \A x \in 1..k : x <= Max(1..k)  BY <2>1, MaxIs
    <3> QED  BY <2>1, <3>1
  <2>3. (1..k) \ {k} = 1..(k - 1)  BY <2>1
  <2>4. f[1..k] = FoldBody(kind, base, l, f, 1..k)  BY <1>0, <2>1
  <2>5. f[1..k] = Do(kind, f[1..(k - 1)], l[k])  BY <2>1, <2>2, <2>3, <2>4 DEF FoldBody
  <2> QED  BY <2>1, <2>5
<1>3. r[n] = f[1..n]  OBVIOUS
<1> HIDE DEF r
<1>4. IsRun(kind, base, l, n, r, f[1..n])  BY <1>1, <1>2, <1>3 DEF IsRun
<1> QED  BY <1>4

(* The four folds, and their runs.                                         *)
TypeFold(base, l) == FoldLeft(AddType, base, l)
PutFold(base, l) == FoldLeft(PutConstraint, base, l)
RemoveFold(base, l) == FoldLeft(RemoveConstraint, base, l)
ReplaceFold(base, l) == FoldLeft(ReplaceConstraint, base, l)

TypeSteps(base, l, n, r) ==
  /\ r[0] = base
  /\ \A k \in 1..n : r[k] = AddType(r[k - 1], l[k])
  /\ TypeFold(base, l) = r[n]
PutSteps(base, l, n, r) ==
  /\ r[0] = base
  /\ \A k \in 1..n : r[k] = PutConstraint(r[k - 1], l[k])
  /\ PutFold(base, l) = r[n]
RemoveSteps(base, l, n, r) ==
  /\ r[0] = base
  /\ \A k \in 1..n : r[k] = RemoveConstraint(r[k - 1], l[k])
  /\ RemoveFold(base, l) = r[n]
ReplaceSteps(base, l, n, r) ==
  /\ r[0] = base
  /\ \A k \in 1..n : r[k] = ReplaceConstraint(r[k - 1], l[k])
  /\ ReplaceFold(base, l) = r[n]

(* Each of the folds, as a run from the first table to the last.           *)
LEMMA TypeRun ==
  ASSUME NEW base, NEW l, NEW n \in Nat, DOMAIN l = 1..n
  PROVE  \E r : TypeSteps(base, l, n, r)
<1> DEFINE B(f, s) == IF s = {} THEN base ELSE AddType(f[s \ {Max(s)}], l[Max(s)])
           g == CHOOSE f : f = [s \in SUBSET (1..n) |-> B(f, s)]
<1>1. \A e, x : Do("type", e, x) = AddType(e, x)  BY DEF Do
<1>2. \A f, s : FoldBody("type", base, l, f, s) = B(f, s)  BY <1>1 DEF FoldBody
<1>3. \E f : f = [s \in SUBSET (1..n) |-> B(f, s)]
  <2>1. PICK f : IsFold("type", base, l, n, f)  BY FoldExists
  <2> HIDE DEF B
  <2>2. f = [s \in SUBSET (1..n) |-> B(f, s)]  BY <1>2, <2>1 DEF IsFold
  <2> QED  BY <2>2
<1>4. g = [s \in SUBSET (1..n) |-> B(g, s)]
  <2> HIDE DEF B
  <2> QED  BY <1>3, Zenon
<1>5. TypeFold(base, l) = g[1..n]
  BY Zenon DEF TypeFold, FoldLeft, MapThenFoldSet
<1>6. IsFold("type", base, l, n, g)
  <2> HIDE DEF B, g
  <2> QED  BY <1>2, <1>4 DEF IsFold
<1> HIDE DEF g
<1>7. PICK r : IsRun("type", base, l, n, r, g[1..n])  BY <1>6, FoldSteps
<1>8. TypeSteps(base, l, n, r)  BY <1>1, <1>5, <1>7 DEF IsRun, TypeSteps
<1> QED  BY <1>8
(* The same for the constraints that add_constraints puts into the tables. *)
LEMMA PutRun ==
  ASSUME NEW base, NEW l, NEW n \in Nat, DOMAIN l = 1..n
  PROVE  \E r : PutSteps(base, l, n, r)
<1> DEFINE B(f, s) == IF s = {} THEN base ELSE PutConstraint(f[s \ {Max(s)}], l[Max(s)])
           g == CHOOSE f : f = [s \in SUBSET (1..n) |-> B(f, s)]
<1>1. \A e, x : Do("put", e, x) = PutConstraint(e, x)  BY DEF Do
<1>2. \A f, s : FoldBody("put", base, l, f, s) = B(f, s)  BY <1>1 DEF FoldBody
<1>3. \E f : f = [s \in SUBSET (1..n) |-> B(f, s)]
  <2>1. PICK f : IsFold("put", base, l, n, f)  BY FoldExists
  <2> HIDE DEF B
  <2>2. f = [s \in SUBSET (1..n) |-> B(f, s)]  BY <1>2, <2>1 DEF IsFold
  <2> QED  BY <2>2
<1>4. g = [s \in SUBSET (1..n) |-> B(g, s)]
  <2> HIDE DEF B
  <2> QED  BY <1>3, Zenon
<1>5. PutFold(base, l) = g[1..n]
  BY Zenon DEF PutFold, FoldLeft, MapThenFoldSet
<1>6. IsFold("put", base, l, n, g)
  <2> HIDE DEF B, g
  <2> QED  BY <1>2, <1>4 DEF IsFold
<1> HIDE DEF g
<1>7. PICK r : IsRun("put", base, l, n, r, g[1..n])  BY <1>6, FoldSteps
<1>8. PutSteps(base, l, n, r)  BY <1>1, <1>5, <1>7 DEF IsRun, PutSteps
<1> QED  BY <1>8
(* The same for the constraints that are removed.                          *)
LEMMA RemoveRun ==
  ASSUME NEW base, NEW l, NEW n \in Nat, DOMAIN l = 1..n
  PROVE  \E r : RemoveSteps(base, l, n, r)
<1> DEFINE B(f, s) == IF s = {} THEN base ELSE RemoveConstraint(f[s \ {Max(s)}], l[Max(s)])
           g == CHOOSE f : f = [s \in SUBSET (1..n) |-> B(f, s)]
<1>1. \A e, x : Do("remove", e, x) = RemoveConstraint(e, x)  BY DEF Do
<1>2. \A f, s : FoldBody("remove", base, l, f, s) = B(f, s)  BY <1>1 DEF FoldBody
<1>3. \E f : f = [s \in SUBSET (1..n) |-> B(f, s)]
  <2>1. PICK f : IsFold("remove", base, l, n, f)  BY FoldExists
  <2> HIDE DEF B
  <2>2. f = [s \in SUBSET (1..n) |-> B(f, s)]  BY <1>2, <2>1 DEF IsFold
  <2> QED  BY <2>2
<1>4. g = [s \in SUBSET (1..n) |-> B(g, s)]
  <2> HIDE DEF B
  <2> QED  BY <1>3, Zenon
<1>5. RemoveFold(base, l) = g[1..n]
  BY Zenon DEF RemoveFold, FoldLeft, MapThenFoldSet
<1>6. IsFold("remove", base, l, n, g)
  <2> HIDE DEF B, g
  <2> QED  BY <1>2, <1>4 DEF IsFold
<1> HIDE DEF g
<1>7. PICK r : IsRun("remove", base, l, n, r, g[1..n])  BY <1>6, FoldSteps
<1>8. RemoveSteps(base, l, n, r)  BY <1>1, <1>5, <1>7 DEF IsRun, RemoveSteps
<1> QED  BY <1>8
(* The same for the constraints that modify_constraints replaces.          *)
LEMMA ReplaceRun ==
  ASSUME NEW base, NEW l, NEW n \in Nat, DOMAIN l = 1..n
  PROVE  \E r : ReplaceSteps(base, l, n, r)
<1> DEFINE B(f, s) == IF s = {} THEN base ELSE ReplaceConstraint(f[s \ {Max(s)}], l[Max(s)])
           g == CHOOSE f : f = [s \in SUBSET (1..n) |-> B(f, s)]
<1>1. \A e, x : Do("replace", e, x) = ReplaceConstraint(e, x)  BY DEF Do
<1>2. \A f, s : FoldBody("replace", base, l, f, s) = B(f, s)  BY <1>1 DEF FoldBody
<1>3. \E f : f = [s \in SUBSET (1..n) |-> B(f, s)]
  <2>1. PICK f : IsFold("replace", base, l, n, f)  BY FoldExists
  <2> HIDE DEF B
  <2>2. f = [s \in SUBSET (1..n) |-> B(f, s)]  BY <1>2, <2>1 DEF IsFold
  <2> QED  BY <2>2
<1>4. g = [s \in SUBSET (1..n) |-> B(g, s)]
  <2> HIDE DEF B
  <2> QED  BY <1>3, Zenon
<1>5. ReplaceFold(base, l) = g[1..n]
  BY Zenon DEF ReplaceFold, FoldLeft, MapThenFoldSet
<1>6. IsFold("replace", base, l, n, g)
  <2> HIDE DEF B, g
  <2> QED  BY <1>2, <1>4 DEF IsFold
<1> HIDE DEF g
<1>7. PICK r : IsRun("replace", base, l, n, r, g[1..n])  BY <1>6, FoldSteps
<1>8. ReplaceSteps(base, l, n, r)  BY <1>1, <1>5, <1>7 DEF IsRun, ReplaceSteps
<1> QED  BY <1>8

-----------------------------------------------------------------------------
(* Adding one type                                                         *)

(* A filter in the middle of a change.                                     *)
Tabs == [cons : Seq(Con), all : [Types -> Nat], dom : SUBSET Types,
         add : [Types -> Nat], rem : [Types -> Nat], carry : SUBSET Types]

(* The types in use.                                                       *)
Used(all) == {t \in Types : all[t] > 0}

(* The dominating types are used, and every type in use is under one.      *)
Covers(all, dom) ==
  /\ dom \subseteq Used(all)
  /\ \A t \in Used(all) : IsDominated(dom, t)

(* What earlier rounds have replaced does not dominate.                    *)
Carried(e) ==
  /\ e.carry \intersect e.dom = {}
  /\ \A t \in e.carry : IsDominated(e.dom, t)

(* No two dominating types are comparable.                                 *)
Flat(dom) == \A s, t \in dom : Dominates(s, t) => s = t

(* What the two lists say of a type.  A type that dominated before the change *)
(* (dom0) and has been dropped may come back once (back): it is then in both  *)
(* lists, which say nothing, and must not be replaced any more.               *)
Told(e, dom0, back, done, t) ==
  /\ t \in dom0 /\ t \in e.dom =>
       (e.add[t] = 0 /\ e.rem[t] = 0) \/ (back /\ t \in done /\ e.add[t] = 1 /\ e.rem[t] > 0)
  /\ t \in dom0 /\ t \notin e.dom =>
       e.add[t] = 0 /\ e.rem[t] > 0 /\ (back \/ IsDominated(e.dom, t))
  /\ t \notin dom0 /\ t \in e.dom => e.add[t] = 1 /\ e.rem[t] = 0
  /\ t \notin dom0 /\ t \notin e.dom =>
       \/ e.add[t] = 0 /\ e.rem[t] = 0 /\ t \notin e.carry
       \/ e.add[t] = 1 /\ e.rem[t] > 0 /\ IsDominated(e.dom, t)

(* Domination is an order on the types.                                    *)
LEMMA DominatesOrder ==
  /\ \A t : Dominates(t, t)
  /\ \A s, t, u : Dominates(s, t) /\ Dominates(t, u) => Dominates(s, u)
  /\ \A s, t \in Types : Dominates(s, t) /\ Dominates(t, s) => s = t
<1>1. \A t \in Types : t = <<t[1], t[2]>>  BY TypesAssumption
<1>2. \A s, t \in Types : s[1] = t[1] /\ s[2] = t[2] => s = t  BY <1>1
<1> QED  BY <1>2 DEF Dominates

(* What one round of the loop of _update_ev_tables does.                   *)
LEMMA AddTypeIs ==
  ASSUME NEW e \in Tabs, NEW u \in Types
  PROVE  LET f == AddType(e, u)
             del == e.carry \union Replaced(e.dom, u)
         IN  /\ f \in Tabs /\ f.cons = e.cons
             /\ f.all = [t \in Types |-> IF t = u THEN e.all[t] + 1 ELSE e.all[t]]
             /\ e.all[u] > 0 \/ IsDominated(e.dom, u) =>
                  f.dom = e.dom /\ f.add = e.add /\ f.rem = e.rem /\ f.carry = e.carry
             /\ ~(e.all[u] > 0 \/ IsDominated(e.dom, u)) =>
                  /\ f.dom = (e.dom \ del) \union {u}
                  /\ f.carry = del
                  /\ \A t \in Types : /\ f.add[t] = IF t = u THEN e.add[t] + 1 ELSE e.add[t]
                                      /\ f.rem[t] = IF t \in del THEN e.rem[t] + 1 ELSE e.rem[t]
<1> DEFINE del == e.carry \union Replaced(e.dom, u)
<1>1. del \subseteq Types  BY DEF Replaced, Tabs
<1>2. Plus(e.rem, del) \in [Types -> Nat]
      /\ \A t \in Types : Plus(e.rem, del)[t] = IF t \in del THEN e.rem[t] + 1 ELSE e.rem[t]
  BY DEF Plus, Tabs
<1> DEFINE e1 == [e EXCEPT !.all[u] = @ + 1]
           f2 == [e1 EXCEPT !.carry = del, !.dom = (@ \ del) \union {u},
                            !.rem = Plus(@, del), !.add[u] = @ + 1]
<1>3. /\ e1 \in Tabs /\ e1.cons = e.cons /\ e1.dom = e.dom /\ e1.add = e.add
      /\ e1.rem = e.rem /\ e1.carry = e.carry
      /\ e1.all = [t \in Types |-> IF t = u THEN e.all[t] + 1 ELSE e.all[t]]
  <2> DEFINE a == [e.all EXCEPT ![u] = @ + 1]
  <2>1. e.all \in [Types -> Nat]  BY DEF Tabs
  <2>2. a \in [Types -> Nat] /\ a = [t \in Types |-> IF t = u THEN e.all[t] + 1 ELSE e.all[t]]
    BY <2>1
  <2>3. e1 = [e EXCEPT !.all = a]  BY DEF Tabs
  <2> HIDE DEF a, e1
  <2>4. /\ e1 \in Tabs /\ e1.cons = e.cons /\ e1.dom = e.dom /\ e1.add = e.add
        /\ e1.rem = e.rem /\ e1.carry = e.carry /\ e1.all = a
    BY <2>2, <2>3 DEF Tabs
  <2> QED  BY <2>2, <2>4
<1>4. AddType(e, u) = IF e.all[u] > 0 \/ IsDominated(e.dom, u) THEN e1 ELSE f2
  BY DEF AddType
<1> HIDE DEF del, e1
<1>5. /\ f2 \in Tabs /\ f2.cons = e1.cons /\ f2.all = e1.all
      /\ f2.dom = (e1.dom \ del) \union {u} /\ f2.carry = del
      /\ f2.rem = Plus(e1.rem, del)
      /\ f2.add = [e1.add EXCEPT ![u] = @ + 1]
  <2> DEFINE D == (e1.dom \ del) \union {u}  P == Plus(e1.rem, del)  A == [e1.add EXCEPT ![u] = @ + 1]
  <2>1. D \in SUBSET Types /\ del \in SUBSET Types  BY <1>1, <1>3 DEF Tabs
  <2>2. P \in [Types -> Nat]  BY <1>2, <1>3
  <2>3. A \in [Types -> Nat]  BY <1>3 DEF Tabs
  <2>4. f2 = [e1 EXCEPT !.carry = del, !.dom = D, !.rem = P, !.add = A]
    BY <1>3 DEF Tabs
  <2> HIDE DEF D, P, A, f2
  <2>5. /\ f2 \in Tabs /\ f2.cons = e1.cons /\ f2.all = e1.all
        /\ f2.dom = D /\ f2.carry = del /\ f2.rem = P /\ f2.add = A
    BY <1>3, <2>1, <2>2, <2>3, <2>4 DEF Tabs
  <2> QED  BY <2>5 DEF D, P, A
<1>6. \A t \in Types : f2.add[t] = IF t = u THEN e.add[t] + 1 ELSE e.add[t]
  BY <1>3, <1>5 DEF Tabs
<1> HIDE DEF f2
<1>7. CASE e.all[u] > 0 \/ IsDominated(e.dom, u)
  BY <1>3, <1>4, <1>7
<1>8. CASE ~(e.all[u] > 0 \/ IsDominated(e.dom, u))
  <2>1. AddType(e, u) = f2  BY <1>4, <1>8
  <2>2. \A t \in Types : f2.rem[t] = IF t \in del THEN e.rem[t] + 1 ELSE e.rem[t]
    BY <1>2, <1>3, <1>5
  <2>3. /\ f2 \in Tabs /\ f2.cons = e.cons
        /\ f2.all = [t \in Types |-> IF t = u THEN e.all[t] + 1 ELSE e.all[t]]
        /\ f2.dom = (e.dom \ del) \union {u} /\ f2.carry = del
    BY <1>3, <1>5
  <2> QED  BY <1>6, <1>8, <2>1, <2>2, <2>3 DEF del
<1> QED  BY <1>7, <1>8

(* A round keeps every used type under a dominating one, no two of them    *)
(* comparable if none were, and what the two lists say true.               *)
LEMMA AddTypeStep ==
  ASSUME NEW e \in Tabs, NEW u \in Types, Covers(e.all, e.dom), Carried(e)
  PROVE  LET f == AddType(e, u)
         IN  /\ Covers(f.all, f.dom) /\ Carried(f)
             /\ Flat(e.dom) => Flat(f.dom)
             /\ \A dom0 \in SUBSET Types, back \in BOOLEAN, done \in SUBSET Types :
                  /\ \A t \in Types : Told(e, dom0, back, done, t)
                  /\ back => \A t \in done : Dominates(u, t) => t = u
                  => \A t \in Types : Told(f, dom0, back, done \union {u}, t)
<1> DEFINE f == AddType(e, u)
           del == e.carry \union Replaced(e.dom, u)
<1>0. /\ e.dom \subseteq Types /\ e.carry \subseteq Types
      /\ e.all \in [Types -> Nat] /\ e.add \in [Types -> Nat] /\ e.rem \in [Types -> Nat]
  BY DEF Tabs
<1>1. CASE e.all[u] > 0 \/ IsDominated(e.dom, u)
  <2>1. /\ f.dom = e.dom /\ f.add = e.add /\ f.rem = e.rem /\ f.carry = e.carry
        /\ f.all = [t \in Types |-> IF t = u THEN e.all[t] + 1 ELSE e.all[t]]
    BY <1>1, AddTypeIs
  <2> HIDE DEF f
  <2>2. IsDominated(e.dom, u)  BY <1>1 DEF Covers, Used
  <2>3. Used(f.all) = Used(e.all) \union {u}  BY <1>0, <2>1 DEF Used
  <2>4. Covers(f.all, f.dom)  BY <2>1, <2>2, <2>3 DEF Covers
  <2>5. Carried(f)  BY <2>1 DEF Carried
  <2>6. ASSUME NEW dom0 \in SUBSET Types, NEW back \in BOOLEAN, NEW done \in SUBSET Types,
               NEW t \in Types, Told(e, dom0, back, done, t)
        PROVE  Told(f, dom0, back, done \union {u}, t)
    BY <2>1, <2>6 DEF Told
  <2> QED  BY <2>1, <2>4, <2>5, <2>6 DEF f
<1>2. CASE ~(e.all[u] > 0 \/ IsDominated(e.dom, u))
  <2>1. /\ f.all = [t \in Types |-> IF t = u THEN e.all[t] + 1 ELSE e.all[t]]
        /\ f.dom = (e.dom \ del) \union {u} /\ f.carry = del
        /\ \A t \in Types : /\ f.add[t] = IF t = u THEN e.add[t] + 1 ELSE e.add[t]
                            /\ f.rem[t] = IF t \in del THEN e.rem[t] + 1 ELSE e.rem[t]
    BY <1>2, AddTypeIs
  <2> DEFINE R == Replaced(e.dom, u)
  <2>2. del = e.carry \union R /\ \A t : t \in R <=> t \in e.dom /\ Dominates(u, t)
    BY DEF Replaced
  <2> HIDE DEF f, del, R
  <2>3. f.dom = (e.dom \ R) \union {u} /\ e.carry \intersect e.dom = {}
    BY <2>1, <2>2 DEF Carried
  <2>4. u \notin e.dom /\ u \notin e.carry /\ ~IsDominated(e.dom, u)
    BY <1>2, DominatesOrder DEF IsDominated, Carried
  <2>5. Used(f.all) = Used(e.all) \union {u}  BY <1>0, <2>1 DEF Used
  (* What was dominated still is. *)
  <2>6. \A t : IsDominated(e.dom, t) => IsDominated(f.dom, t)
    BY <2>2, <2>3, DominatesOrder DEF IsDominated
  <2>7. IsDominated(f.dom, u)  BY <2>3, DominatesOrder DEF IsDominated
  <2>8. Covers(f.all, f.dom)  BY <2>3, <2>5, <2>6, <2>7 DEF Covers
  <2>9. \A t \in R : IsDominated(f.dom, t)  BY <2>2, <2>3 DEF IsDominated
  <2>10. Carried(f)
    <3>1. \A t \in del : IsDominated(f.dom, t)  BY <2>2, <2>6, <2>9 DEF Carried
    <3>2. \A t \in del : t \notin f.dom  BY <2>2, <2>3, <2>4
    <3> QED  BY <2>1, <3>1, <3>2 DEF Carried
  <2>11. Flat(e.dom) => Flat(f.dom)
    <3> SUFFICES ASSUME Flat(e.dom), NEW s \in f.dom, NEW t \in f.dom, Dominates(s, t)
                 PROVE  s = t
      BY DEF Flat
    <3>1. s \in e.dom => t # u  BY <2>4 DEF IsDominated
    <3>2. s = u => t = u  BY <2>2, <2>3
    <3> QED  BY <2>3, <3>1, <3>2 DEF Flat
  <2>12. ASSUME NEW dom0 \in SUBSET Types, NEW back \in BOOLEAN, NEW done \in SUBSET Types,
                \A t \in Types : Told(e, dom0, back, done, t),
                back => \A t \in done : Dominates(u, t) => t = u,
                NEW t \in Types
         PROVE  Told(f, dom0, back, done \union {u}, t)
    <3>0. /\ f.add[t] = IF t = u THEN e.add[t] + 1 ELSE e.add[t]
          /\ f.rem[t] = IF t \in del THEN e.rem[t] + 1 ELSE e.rem[t]
          /\ e.add[t] \in Nat /\ e.rem[t] \in Nat /\ Told(e, dom0, back, done, t)
      BY <1>0, <2>1, <2>12
    <3>1. CASE t = u
      <4>1. /\ t \in f.dom /\ t \notin del /\ t \notin e.dom
            /\ ~IsDominated(e.dom, t) /\ f.add[t] = e.add[t] + 1 /\ f.rem[t] = e.rem[t]
        BY <2>2, <2>3, <2>4, <3>0, <3>1
      <4> QED  BY <3>0, <3>1, <4>1 DEF Told
    <3>2. CASE t # u /\ t \in R
      <4>1. /\ t \notin f.dom /\ t \in e.dom /\ IsDominated(f.dom, t) /\ Dominates(u, t)
            /\ f.add[t] = e.add[t] /\ f.rem[t] = e.rem[t] + 1
        BY <2>2, <2>3, <2>9, <3>0, <3>2
      <4>2. ~(back /\ t \in done)  BY <2>12, <3>2, <4>1
      <4> QED  BY <3>0, <4>1, <4>2 DEF Told
    <3>3. CASE t # u /\ t \in e.carry
      <4>1. /\ t \notin f.dom /\ t \notin e.dom /\ IsDominated(f.dom, t)
            /\ f.add[t] = e.add[t] /\ f.rem[t] = e.rem[t] + 1
        BY <2>2, <2>3, <2>6, <3>0, <3>3 DEF Carried
      <4> QED  BY <3>0, <3>3, <4>1 DEF Told
    <3>4. CASE t # u /\ t \notin del
      <4>1. /\ t \in f.dom <=> t \in e.dom
            /\ f.add[t] = e.add[t] /\ f.rem[t] = e.rem[t]
            /\ IsDominated(e.dom, t) => IsDominated(f.dom, t)
            /\ t \notin f.carry
        BY <2>1, <2>2, <2>3, <2>6, <3>0, <3>4
      <4> QED  BY <3>0, <4>1 DEF Told
    <3> QED  BY <2>2, <3>1, <3>2, <3>3, <3>4
  <2> QED  BY <2>8, <2>10, <2>11, <2>12 DEF f
<1> QED  BY <1>1, <1>2

-----------------------------------------------------------------------------
(* Adding the types of a constraint                                        *)

(* The same of all types.                                                  *)
Tells(e, dom0, back, done) == \A t \in Types : Told(e, dom0, back, done, t)

Reset(e) == [e EXCEPT !.carry = {}]

(* deltypes starts empty at each constraint.                               *)
LEMMA ResetIs ==
  ASSUME NEW e \in Tabs
  PROVE  /\ Reset(e) \in Tabs /\ Carried(Reset(e))
         /\ Reset(e).cons = e.cons /\ Reset(e).all = e.all /\ Reset(e).dom = e.dom
         /\ Reset(e).add = e.add /\ Reset(e).rem = e.rem /\ Reset(e).carry = {}
         /\ \A dom0, back, done : Tells(e, dom0, back, done) => Tells(Reset(e), dom0, back, done)
<1>1. /\ Reset(e) \in Tabs
      /\ Reset(e).cons = e.cons /\ Reset(e).all = e.all /\ Reset(e).dom = e.dom
      /\ Reset(e).add = e.add /\ Reset(e).rem = e.rem /\ Reset(e).carry = {}
  BY DEF Tabs, Reset
<1>2. Carried(Reset(e))  BY <1>1 DEF Carried
<1>3. ASSUME NEW dom0, NEW back, NEW done, Tells(e, dom0, back, done)
      PROVE  Tells(Reset(e), dom0, back, done)
  <2> SUFFICES ASSUME NEW t \in Types PROVE Told(Reset(e), dom0, back, done, t)
    BY DEF Tells
  <2>1. Told(e, dom0, back, done, t)  BY <1>3 DEF Tells
  <2> QED  BY <1>1, <2>1 DEF Told
<1> QED  BY <1>1, <1>2, <1>3

(* _update_ev_tables counts the types of a list, and keeps the tables      *)
(* sound.                                                                  *)
LEMMA UpdateIs ==
  ASSUME NEW e \in Tabs, NEW l \in Seq(Types), Covers(e.all, e.dom)
  PROVE  LET f == UpdateEvTables(e, l)
         IN  /\ f \in Tabs /\ f.cons = e.cons
             /\ \A t \in Types : f.all[t] = e.all[t] + Times(l, t)
             /\ Covers(f.all, f.dom)
             /\ Flat(e.dom) => Flat(f.dom)
             /\ \A dom0 \in SUBSET Types, back \in BOOLEAN :
                  /\ Tells(Reset(e), dom0, back, {})
                  /\ back => Ordered(l)
                  => \E done \in SUBSET Types : Tells(f, dom0, back, done)
<1> DEFINE n == Len(l)
<1>0. n \in Nat /\ DOMAIN l = 1..n /\ \A k \in 1..n : l[k] \in Types
  BY LenProperties, ElementOfSeq
<1> HIDE DEF n
<1>10. PICK r : TypeSteps(Reset(e), l, n, r)  BY <1>0, TypeRun
<1>1. /\ r[0] = Reset(e)
      /\ \A k \in 1..n : r[k] = AddType(r[k - 1], l[k])
      /\ TypeFold(Reset(e), l) = r[n]
  BY <1>10 DEF TypeSteps
<1>2. UpdateEvTables(e, l) = r[n]
  <2>1. UpdateEvTables(e, l) = TypeFold(Reset(e), l)  BY Zenon DEF UpdateEvTables, TypeFold, Reset
  <2> QED  BY <1>1, <2>1
<1> DEFINE Done(k) == {l[j] : j \in 1..k}
           Tell1(k) == \A dom0 \in SUBSET Types, back \in BOOLEAN :
                         /\ Tells(Reset(e), dom0, back, {})
                         /\ back => Ordered(l)
                         => Tells(r[k], dom0, back, Done(k))
           P(k) == /\ r[k] \in Tabs /\ r[k].cons = e.cons
                   /\ \A t \in Types : r[k].all[t] = e.all[t] + UpTo(l, k, t)
                   /\ Covers(r[k].all, r[k].dom) /\ Carried(r[k])
                   /\ Flat(e.dom) => Flat(r[k].dom)
                   /\ Tell1(k)
           Good == {k \in Nat : k <= n => P(k)}
<1>3. 0 \in Good
  <2>1. /\ Reset(e) \in Tabs /\ Carried(Reset(e)) /\ Reset(e).cons = e.cons
        /\ Reset(e).all = e.all /\ Reset(e).dom = e.dom
    BY ResetIs
  <2>2. \A t \in Types : e.all[t] = e.all[t] + UpTo(l, 0, t)
    <3>1. \A t \in Types : e.all[t] \in Nat /\ UpTo(l, 0, t) = 0  BY UpToStep DEF Tabs
    <3> QED  BY <3>1
  <2>3. Done(0) = {}  OBVIOUS
  <2>4. Tell1(0)  BY <1>1, <2>3
  <2> HIDE DEF Tell1
  <2> QED  BY <1>1, <2>1, <2>2, <2>4
<1>4. ASSUME NEW k \in Good PROVE k + 1 \in Good
  <2> SUFFICES ASSUME k + 1 <= n PROVE P(k + 1)
    OBVIOUS
  <2>0. k \in Nat  OBVIOUS
  <2>1. k \in Nat /\ k + 1 \in 1..n /\ (k + 1) - 1 = k /\ P(k)
    <3> HIDE DEF P
    <3> QED  BY <1>0
  <2>2. l[k + 1] \in Types /\ r[k + 1] = AddType(r[k], l[k + 1])
    <3> HIDE DEF P
    <3>1. r[k + 1] = AddType(r[(k + 1) - 1], l[k + 1])  BY <1>1, <2>1
    <3> QED  BY <1>0, <2>1, <3>1
  <2> DEFINE u == l[k + 1]  a == r[k]  b == r[k + 1]
  <2> HIDE DEF Tell1, u, a, b
  <2>3. /\ a \in Tabs /\ a.cons = e.cons /\ Covers(a.all, a.dom) /\ Carried(a)
        /\ Flat(e.dom) => Flat(a.dom)
        /\ \A t \in Types : a.all[t] = e.all[t] + UpTo(l, k, t)
        /\ u \in Types /\ b = AddType(a, u)
    BY <2>1, <2>2 DEF a, b, u
  <2>4. /\ b \in Tabs /\ b.cons = a.cons
        /\ b.all = [t \in Types |-> IF t = u THEN a.all[t] + 1 ELSE a.all[t]]
    BY <2>3, AddTypeIs
  <2>5. /\ Covers(b.all, b.dom) /\ Carried(b)
        /\ Flat(a.dom) => Flat(b.dom)
        /\ \A dom0 \in SUBSET Types, back \in BOOLEAN, done \in SUBSET Types :
                  /\ \A t \in Types : Told(a, dom0, back, done, t)
                  /\ back => \A t \in done : Dominates(u, t) => t = u
                  => \A t \in Types : Told(b, dom0, back, done \union {u}, t)
    BY <2>3, AddTypeStep
  <2>6. \A t \in Types : b.all[t] = e.all[t] + UpTo(l, k + 1, t)
    <3> SUFFICES ASSUME NEW t \in Types PROVE b.all[t] = e.all[t] + UpTo(l, k + 1, t)
      OBVIOUS
    <3>1. UpTo(l, k + 1, t) = UpTo(l, k, t) + (IF u = t THEN 1 ELSE 0) /\ UpTo(l, k, t) \in Nat
      <4>1. \A i \in Nat : /\ UpTo(l, i, t) \in Nat
                           /\ UpTo(l, i + 1, t) = UpTo(l, i, t) + (IF l[i + 1] = t THEN 1 ELSE 0)
        BY UpToStep
      <4> QED  BY <2>0, <4>1 DEF u
    <3>2. e.all[t] \in Nat /\ a.all[t] = e.all[t] + UpTo(l, k, t)  BY <2>3 DEF Tabs
    <3>3. b.all[t] = IF t = u THEN a.all[t] + 1 ELSE a.all[t]  BY <2>4
    <3> QED  BY <3>1, <3>2, <3>3
  <2>7. Tell1(k + 1)
    <3> SUFFICES ASSUME NEW dom0 \in SUBSET Types, NEW back \in BOOLEAN,
                        Tells(Reset(e), dom0, back, {}), back => Ordered(l)
                 PROVE  Tells(b, dom0, back, Done(k + 1))
      BY DEF Tell1, b
    <3>1. Tells(a, dom0, back, Done(k))  BY <2>1 DEF Tell1, a
    <3>2. Done(k) \in SUBSET Types /\ Done(k + 1) = Done(k) \union {u}
      <4>1. \A j \in 1..k : j \in 1..n  BY <1>0, <2>0
      <4>2. 1..(k + 1) = (1..k) \union {k + 1}  BY <2>1
      <4> QED  BY <1>0, <4>1, <4>2 DEF u
    <3>3. back => \A t \in Done(k) : Dominates(u, t) => t = u
      <4> SUFFICES ASSUME back, NEW j \in 1..k, Dominates(u, l[j]) PROVE l[j] = u
        OBVIOUS
      <4>1. j \in 1..n /\ j < k + 1 /\ k + 1 \in 1..n  BY <1>0, <2>0
      <4> QED  BY <1>0, <4>1 DEF Ordered, u
    <3> HIDE DEF Done
    <3> QED  BY <2>5, <3>1, <3>2, <3>3 DEF Tells
  <2>8. b.cons = e.cons /\ (Flat(e.dom) => Flat(b.dom))  BY <2>3, <2>4, <2>5
  <2> HIDE DEF Done
  <2> QED  BY <2>4, <2>5, <2>6, <2>7, <2>8 DEF b
<1>5. Good = Nat
  <2>1. Good \subseteq Nat  OBVIOUS
  <2> HIDE DEF Good
  <2> QED  BY <1>3, <1>4, <2>1, SetInduction
<1>6. P(n)
  <2>1. n \in Good  BY <1>0, <1>5
  <2> HIDE DEF P
  <2> QED  BY <1>0, <2>1
<1>7. \A t \in Types : UpTo(l, n, t) = Times(l, t)  BY UpToStep DEF n
<1>8. Done(n) \in SUBSET Types  BY <1>0
<1> HIDE DEF Done
<1> QED  BY <1>2, <1>6, <1>7, <1>8

-----------------------------------------------------------------------------
(* Adding one constraint                                                   *)

Sound(e) == Covers(e.all, e.dom) /\ \A t \in Types : e.all[t] = Uses(e.cons, t)

(* What is stored: a constraint without types is for all of them.          *)
Stored(c) == [c EXCEPT !.types = IF c.types = <<>> THEN <<StarStar>> ELSE c.types]

(* What is stored is a constraint with the same id.                        *)
LEMMA StoredIs ==
  ASSUME NEW c \in Con
  PROVE  /\ Stored(c) \in Con /\ Stored(c).id = c.id
         /\ Stored(c).types = IF c.types = <<>> THEN <<StarStar>> ELSE c.types
         /\ Ordered(c.types) => Ordered(Stored(c).types)
<1>1. <<StarStar>> \in Seq(Types)  BY TypesAssumption
<1>2. /\ Stored(c) \in Con /\ Stored(c).id = c.id
      /\ Stored(c).types = IF c.types = <<>> THEN <<StarStar>> ELSE c.types
  BY <1>1 DEF Con, Stored
<1>3. Ordered(<<StarStar>>)  BY DEF Ordered
<1> QED  BY <1>2, <1>3

(* A constraint that is added leaves sound tables, and lists that say what *)
(* has changed.                                                            *)
LEMMA PutIs ==
  ASSUME NEW e \in Tabs, Sound(e), NEW c \in Con
  PROVE  LET f == PutConstraint(e, c)
         IN  /\ f \in Tabs /\ f.cons = Append(e.cons, Stored(c))
             /\ Sound(f)
             /\ Flat(e.dom) => Flat(f.dom)
             /\ \A dom0 \in SUBSET Types, back \in BOOLEAN :
                  /\ Tells(Reset(e), dom0, back, {})
                  /\ back => Ordered(c.types)
                  => \E done \in SUBSET Types : Tells(f, dom0, back, done)
<1> DEFINE l == IF c.types = <<>> THEN <<StarStar>> ELSE c.types
           cs == Append(e.cons, Stored(c))
           b == [e EXCEPT !.cons = Append(@, [c EXCEPT !.types = l])]
           f == UpdateEvTables(b, l)
<1>1. PutConstraint(e, c) = f  BY DEF PutConstraint
<1>2. /\ Stored(c) \in Con /\ Stored(c).types = l /\ l \in Seq(Types)
      /\ Ordered(c.types) => Ordered(l)
  <2>1. Stored(c) \in Con /\ Stored(c).types = l /\ (Ordered(c.types) => Ordered(Stored(c).types))
    BY StoredIs
  <2>2. Stored(c).types \in Seq(Types)  BY <2>1 DEF Con
  <2> QED  BY <2>1, <2>2
<1>3. e.cons \in Seq(Con) /\ cs \in Seq(Con)  BY <1>2, AppendProperties DEF Tabs
<1>4. b = [e EXCEPT !.cons = cs]  BY DEF Stored, Tabs
<1> HIDE DEF b, cs
<1>5. /\ b \in Tabs /\ b.cons = cs /\ b.all = e.all /\ b.dom = e.dom /\ b.add = e.add /\ b.rem = e.rem
  BY <1>3, <1>4 DEF Tabs
<1> HIDE DEF l, f
<1>6. Covers(b.all, b.dom)  BY <1>5 DEF Sound
<1>7. /\ f \in Tabs /\ f.cons = cs
      /\ \A t \in Types : f.all[t] = e.all[t] + Times(l, t)
      /\ Covers(f.all, f.dom)
      /\ Flat(e.dom) => Flat(f.dom)
      /\ \A dom0 \in SUBSET Types, back \in BOOLEAN :
           /\ Tells(Reset(b), dom0, back, {})
           /\ back => Ordered(l)
           => \E done \in SUBSET Types : Tells(f, dom0, back, done)
  BY <1>2, <1>5, <1>6, UpdateIs DEF f
<1>8. \A t \in Types : f.all[t] = Uses(f.cons, t)
  <2> SUFFICES ASSUME NEW t \in Types PROVE f.all[t] = Uses(f.cons, t)
    OBVIOUS
  <2>1. Uses(cs, t) = Uses(e.cons, t) + Times(l, t)  BY <1>2, <1>3, UsesAppend DEF cs
  <2> QED  BY <1>7, <2>1 DEF Sound
<1>9. \A dom0, back : Tells(Reset(e), dom0, back, {}) => Tells(Reset(b), dom0, back, {})
  <2> SUFFICES ASSUME NEW dom0, NEW back, Tells(Reset(e), dom0, back, {}), NEW t \in Types
               PROVE  Told(Reset(b), dom0, back, {}, t)
    BY DEF Tells
  <2>1. Told(Reset(e), dom0, back, {}, t)  BY DEF Tells
  <2>2. /\ Reset(b).dom = Reset(e).dom /\ Reset(b).add = Reset(e).add
        /\ Reset(b).rem = Reset(e).rem /\ Reset(b).carry = Reset(e).carry
    BY <1>5, ResetIs
  <2> QED  BY <2>1, <2>2 DEF Told
<1> QED  BY <1>1, <1>2, <1>7, <1>8, <1>9 DEF Sound, cs

-----------------------------------------------------------------------------
(* Removing the types of a constraint                                      *)

(* The types that come back when a dominating one is gone cover those that *)
(* were under it.                                                          *)
LEMMA RevivedIs ==
  ASSUME NEW all \in [Types -> Nat], NEW dom \in SUBSET Types, NEW d \in Types, all[d] = 0
  PROVE  /\ Revived(all, dom, d) \subseteq Used(all)
         /\ \A t \in Revived(all, dom, d) : Dominates(d, t)
         /\ \A t \in Used(all) : Dominates(d, t) => IsDominated(dom \union Revived(all, dom, d), t)
         /\ Flat(Revived(all, dom, d))
<1> DEFINE used == {t \in Types : all[t] > 0}
           stars == {t \in used : Star \in {t[1], t[2]}}
           R == Revived(all, dom, d)
<1>0. /\ Used(all) = used /\ d \notin used
      /\ \A t \in Types : t = <<t[1], t[2]>>
      /\ \A s, t \in Types : s[1] = t[1] /\ s[2] = t[2] => s = t
      /\ \A t \in used : t \in Types
      /\ \A t \in R : Dominates(t, t)
  <2>1. \A t \in Types : t = <<t[1], t[2]>>  BY TypesAssumption
  <2>2. \A s, t \in Types : s[1] = t[1] /\ s[2] = t[2] => s = t  BY <2>1
  <2> QED  BY <2>1, <2>2, DominatesOrder DEF Used
<1>1. CASE d = StarStar
  <2>1. R = stars \union {t \in used : ~IsDominated(dom \union stars, t)}
    BY <1>1 DEF Revived
  <2>2. \A t \in stars : t \in used /\ (t[1] = Star \/ t[2] = Star)  OBVIOUS
  <2>3. \A t : Dominates(d, t)  BY <1>1 DEF Dominates, StarStar
  <2> HIDE DEF R, stars, used
  <2>4. R \subseteq used  BY <2>1, <2>2
  <2>5. \A t \in used : IsDominated(dom \union R, t)
    <3> SUFFICES ASSUME NEW t \in used PROVE IsDominated(dom \union R, t)
      OBVIOUS
    <3>1. CASE t \in R  BY <1>0, <3>1 DEF IsDominated
    <3>2. CASE IsDominated(dom \union stars, t)
      BY <2>1, <3>2 DEF IsDominated
    <3> QED  BY <2>1, <3>1, <3>2
  <2>6. ASSUME NEW s \in R, NEW t \in R, Dominates(s, t) PROVE s = t
    <3>0. s \in used /\ t \in used /\ s \in Types /\ t \in Types /\ s # d  BY <1>0, <2>4
    <3>1. CASE s \notin stars
      <4>1. s[1] # Star /\ s[2] # Star  BY <3>0, <3>1 DEF stars
      <4> QED  BY <1>0, <2>6, <3>0, <4>1 DEF Dominates
    <3>2. CASE s \in stars /\ t \in stars
      <4>1. ~(s[1] = Star /\ s[2] = Star)  BY <1>0, <1>1, <3>0 DEF StarStar
      <4>2. (s[1] = Star \/ s[2] = Star) /\ (t[1] = Star \/ t[2] = Star)  BY <2>2, <3>2
      <4>3. s[1] = t[1] /\ s[2] = t[2]  BY <2>6, <4>1, <4>2 DEF Dominates
      <4> QED  BY <1>0, <3>0, <4>3
    <3>3. CASE s \in stars /\ t \notin stars
      <4>1. ~IsDominated(dom \union stars, t)  BY <2>1, <3>3
      <4> QED  BY <2>6, <3>3, <4>1 DEF IsDominated
    <3> QED  BY <3>1, <3>2, <3>3
  <2> QED  BY <1>0, <2>3, <2>4, <2>5, <2>6 DEF R, Flat
<1>2. CASE d # StarStar /\ d[1] = Star
  <2>2. d[2] # Star /\ d \in Types
    <3>1. d = <<d[1], d[2]>>  BY <1>0
    <3> QED  BY <1>2, <3>1 DEF StarStar
  <2>1. R = {t \in used : t[2] = d[2]}
    BY <1>2, <2>2 DEF Revived
  <2> HIDE DEF used
  <2>3. \A t \in R : t \in used /\ Dominates(d, t)  BY <1>2, <2>1 DEF Dominates
  <2>4. \A t \in used : Dominates(d, t) => t \in R  BY <1>2, <2>1, <2>2 DEF Dominates
  <2>5. ASSUME NEW s \in R, NEW t \in R, Dominates(s, t) PROVE s = t
    <3>1. s[2] = t[2] /\ s \in Types /\ t \in Types /\ s # d /\ s[2] = d[2]  BY <1>0, <2>1
    <3>2. s[1] # Star  BY <1>0, <1>2, <3>1
    <3>3. s[1] = t[1]  BY <2>5, <3>2 DEF Dominates
    <3> QED  BY <1>0, <3>1, <3>3
  <2> HIDE DEF R
  <2>6. \A t \in R : IsDominated(dom \union R, t)  BY <1>0 DEF IsDominated
  <2> QED  BY <1>0, <2>3, <2>4, <2>5, <2>6 DEF R, Flat
<1>3. CASE d # StarStar /\ d[1] # Star /\ d[2] = Star
  <2>1. R = {t \in used : t[1] = d[1]}
    BY <1>3 DEF Revived
  <2> HIDE DEF used
  <2>3. \A t \in R : t \in used /\ Dominates(d, t)  BY <1>3, <2>1 DEF Dominates
  <2>4. \A t \in used : Dominates(d, t) => t \in R  BY <1>3, <2>1 DEF Dominates
  <2>5. ASSUME NEW s \in R, NEW t \in R, Dominates(s, t) PROVE s = t
    <3>1. s[1] = t[1] /\ s \in Types /\ t \in Types /\ s # d /\ s[1] = d[1] /\ d \in Types
      BY <1>0, <2>1
    <3>2. s[2] # Star  BY <1>0, <1>3, <3>1
    <3>3. s[2] = t[2]  BY <2>5, <3>2 DEF Dominates
    <3> QED  BY <1>0, <3>1, <3>3
  <2> HIDE DEF R
  <2>6. \A t \in R : IsDominated(dom \union R, t)  BY <1>0 DEF IsDominated
  <2> QED  BY <1>0, <2>3, <2>4, <2>5, <2>6 DEF R, Flat
<1>4. CASE d # StarStar /\ d[1] # Star /\ d[2] # Star
  <2>1. R = {}  BY <1>4 DEF Revived
  <2>2. \A t \in used : ~Dominates(d, t)
    <3>1. \A t \in Types : Dominates(d, t) => t = d  BY <1>0, <1>4 DEF Dominates
    <3> QED  BY <1>0, <3>1
  <2> HIDE DEF R
  <2> QED  BY <1>0, <2>1, <2>2 DEF R, Flat
<1> QED  BY <1>1, <1>2, <1>3, <1>4

(* What the two lists say of a type, after removals only: what has been    *)
(* dropped is not in use.                                                  *)
Gone(e, dom0, t) ==
  /\ t \in dom0 /\ t \in e.dom => e.add[t] = 0 /\ e.rem[t] = 0
  /\ t \in dom0 /\ t \notin e.dom => e.add[t] = 0 /\ e.rem[t] > 0 /\ e.all[t] = 0
  /\ t \notin dom0 /\ t \in e.dom => e.add[t] = 1 /\ e.rem[t] = 0
  /\ t \notin dom0 /\ t \notin e.dom =>
       \/ e.add[t] = 0 /\ e.rem[t] = 0
       \/ e.add[t] = 1 /\ e.rem[t] > 0 /\ e.all[t] = 0

(* Taking the types of a constraint out of the tables leaves every used    *)
(* type under a dominating one and, where types nest, the lists say which  *)
(* ones came and went.                                                     *)
LEMMA DropIs ==
  ASSUME NEW e \in Tabs, NEW l, Covers(e.all, e.dom),
         \A t \in Types : Times(l, t) \in Nat /\ Times(l, t) <= e.all[t]
  PROVE  LET f == DropTypes(e, l)
         IN  /\ f \in Tabs /\ f.cons = e.cons
             /\ \A t \in Types : f.all[t] = e.all[t] - Times(l, t)
             /\ Covers(f.all, f.dom)
             /\ Nested /\ Flat(e.dom) =>
                  /\ Flat(f.dom)
                  /\ \A t \in Types :
                       /\ f.rem[t] = IF t \in e.dom /\ t \notin f.dom THEN e.rem[t] + 1 ELSE e.rem[t]
                       /\ f.add[t] = IF t \in f.dom /\ t \notin e.dom THEN e.add[t] + 1 ELSE e.add[t]
                       /\ t \in e.dom /\ t \notin f.dom => f.all[t] = 0
                       /\ t \in f.dom => f.all[t] > 0
<1> DEFINE all == [t \in Types |-> e.all[t] - Times(l, t)]
           del == {t \in e.dom : all[t] = 0 /\ Times(l, t) > 0}
           rev == [d \in del |-> Revived(all, e.dom \ del, d)]
           news == UNION {rev[d] : d \in del}
           f == DropTypes(e, l)
<1>0. /\ e.dom \in SUBSET Types /\ e.all \in [Types -> Nat] /\ e.add \in [Types -> Nat]
      /\ e.rem \in [Types -> Nat]
  BY DEF Tabs
<1>1. all \in [Types -> Nat]  BY <1>0
<1>2. /\ f.cons = e.cons /\ f.all = all /\ f.dom = (e.dom \ del) \union news
      /\ f.rem = Plus(e.rem, del) /\ f.carry = e.carry
      /\ f.add = [t \in Types |-> e.add[t] + Cardinality({d \in del : t \in rev[d]})]
      /\ f = [e EXCEPT !.all = f.all, !.dom = f.dom, !.rem = f.rem, !.add = f.add]
  <2> HIDE DEF all, del, rev, news
  <2> DEFINE D == (e.dom \ del) \union news
             A == [t \in Types |-> e.add[t] + Cardinality({d \in del : t \in rev[d]})]
             P == Plus(e.rem, del)
  <2>1. f = [e EXCEPT !.all = all, !.dom = D, !.rem = P, !.add = A]
    BY Zenon DEF DropTypes, all, del, rev, news, Tabs
  <2> HIDE DEF D, A, P, f
  <2>2. f.cons = e.cons /\ f.all = all /\ f.dom = D /\ f.rem = P /\ f.carry = e.carry /\ f.add = A
    BY <2>1 DEF Tabs
  <2> QED  BY <2>1, <2>2 DEF D, A, P
<1>3. /\ del \subseteq Types /\ IsFiniteSet(del)
      /\ \A d \in del : d \in e.dom /\ all[d] = 0 /\ d \in Types
  <2>1. del \subseteq Types  BY <1>0
  <2>2. IsFiniteSet(Types)  BY TypesAssumption
  <2>3. IsFiniteSet(del)
    <3> HIDE DEF del
    <3> QED  BY <2>1, <2>2, FS_Subset
  <2> QED  BY <1>0, <2>1, <2>3
<1>4. \A d \in del : /\ rev[d] \subseteq Used(all)
                     /\ \A t \in rev[d] : Dominates(d, t)
                     /\ \A t \in Used(all) : Dominates(d, t) => IsDominated((e.dom \ del) \union rev[d], t)
                     /\ Flat(rev[d])
  <2> SUFFICES ASSUME NEW d \in del
               PROVE  /\ rev[d] \subseteq Used(all)
                      /\ \A t \in rev[d] : Dominates(d, t)
                      /\ \A t \in Used(all) : Dominates(d, t) => IsDominated((e.dom \ del) \union rev[d], t)
                      /\ Flat(rev[d])
    OBVIOUS
  <2>1. rev[d] = Revived(all, e.dom \ del, d) /\ e.dom \ del \in SUBSET Types /\ d \in Types /\ all[d] = 0
    BY <1>0, <1>3
  <2> DEFINE D == e.dom \ del
  <2> HIDE DEF del, all, rev, D
  <2>2. /\ Revived(all, D, d) \subseteq Used(all)
        /\ \A t \in Revived(all, D, d) : Dominates(d, t)
        /\ \A t \in Used(all) : Dominates(d, t) => IsDominated(D \union Revived(all, D, d), t)
        /\ Flat(Revived(all, D, d))
    BY <1>1, <2>1, RevivedIs DEF D
  <2> QED  BY <2>1, <2>2 DEF D
<1>5. \A t \in e.dom : t \notin del => all[t] > 0
  <2> SUFFICES ASSUME NEW t \in e.dom, t \notin del PROVE all[t] > 0
    OBVIOUS
  <2>1. e.all[t] > 0 /\ t \in Types /\ e.all[t] \in Nat  BY <1>0 DEF Covers, Used
  <2>2. all[t] = e.all[t] - Times(l, t) /\ Times(l, t) \in Nat /\ Times(l, t) <= e.all[t]  BY <2>1
  <2>3. all[t] # 0 \/ Times(l, t) = 0
    <3>1. ~(all[t] = 0 /\ Times(l, t) > 0)  OBVIOUS
    <3> HIDE DEF all
    <3> QED  BY <2>2, <3>1
  <2> HIDE DEF all
  <2> QED  BY <2>1, <2>2, <2>3
<1>6. Used(all) \subseteq Used(e.all)
  BY <1>0 DEF Used
<1> HIDE DEF all, del, rev, f
<1>7. news \subseteq Used(all) /\ Used(all) \subseteq Types
  <2>1. Used(all) \subseteq Types  BY DEF Used
  <2> QED  BY <1>4, <2>1
<1>8. /\ Plus(e.rem, del) \in [Types -> Nat]
      /\ \A t \in Types : Plus(e.rem, del)[t] = IF t \in del THEN e.rem[t] + 1 ELSE e.rem[t]
  BY <1>0 DEF Plus
<1>9. \A t : IsFiniteSet({d \in del : t \in rev[d]}) /\ Cardinality({d \in del : t \in rev[d]}) \in Nat
  BY <1>3, FS_Subset, FS_CardinalityType
<1>10. f \in Tabs
  <2>1. f.add \in [Types -> Nat]
    <3>1. \A t \in Types : e.add[t] + Cardinality({d \in del : t \in rev[d]}) \in Nat
      <4> DEFINE N(t) == Cardinality({d \in del : t \in rev[d]})
      <4>1. \A t : N(t) \in Nat  BY <1>9
      <4> HIDE DEF N
      <4>2. \A t \in Types : e.add[t] + N(t) \in Nat  BY <1>0, <4>1
      <4> QED  BY <4>2 DEF N
    <3> QED  BY <1>2, <3>1
  <2>2. f.dom \in SUBSET Types  BY <1>0, <1>2, <1>7
  <2>3. f.all \in [Types -> Nat] /\ f.rem \in [Types -> Nat]  BY <1>1, <1>2, <1>8
  <2> QED  BY <1>2, <2>1, <2>2, <2>3 DEF Tabs
<1>11. Covers(f.all, f.dom)
  <2>1. f.dom \subseteq Used(all)  BY <1>0, <1>2, <1>5, <1>7 DEF Used
  <2>2. ASSUME NEW t \in Used(all) PROVE IsDominated(f.dom, t)
    <3>1. PICK d \in e.dom : Dominates(d, t)  BY <1>6 DEF Covers, IsDominated
    <3>2. CASE d \notin del  BY <1>2, <3>1, <3>2 DEF IsDominated
    <3>3. CASE d \in del
      <4>1. IsDominated((e.dom \ del) \union rev[d], t)  BY <1>4, <3>1, <3>3
      <4>2. rev[d] \subseteq news  BY <3>3
      <4> QED  BY <1>2, <4>1, <4>2 DEF IsDominated
    <3> QED  BY <3>2, <3>3
  <2> QED  BY <1>2, <2>1, <2>2 DEF Covers
<1>12. ASSUME Nested, Flat(e.dom)
       PROVE  /\ Flat(f.dom)
              /\ \A t \in Types :
                   /\ f.rem[t] = IF t \in e.dom /\ t \notin f.dom THEN e.rem[t] + 1 ELSE e.rem[t]
                   /\ f.add[t] = IF t \in f.dom /\ t \notin e.dom THEN e.add[t] + 1 ELSE e.add[t]
                   /\ t \in e.dom /\ t \notin f.dom => f.all[t] = 0
                   /\ t \in f.dom => f.all[t] > 0
  <2>1. \A c, d \in e.dom, t \in Types : Dominates(c, t) /\ Dominates(d, t) => c = d
    BY <1>0, <1>12 DEF Nested, Flat
  <2>2. \A t \in news : \E d \in del : t \in rev[d] /\ Dominates(d, t) /\ t \in Types
    BY <1>4, <1>7
  <2>3. \A t \in news : t \notin e.dom
    <3> SUFFICES ASSUME NEW t \in news, t \in e.dom PROVE FALSE
      OBVIOUS
    <3>1. PICK d \in del : t \in rev[d] /\ Dominates(d, t) /\ t \in Types  BY <2>2
    <3>2. d = t  BY <1>3, <2>1, <3>1, DominatesOrder
    <3>3. t \in Used(all) /\ all[t] = 0  BY <1>3, <1>4, <3>1, <3>2
    <3> QED  BY <3>3 DEF Used
  <2>4. \A t \in Types, c, d \in del : t \in rev[c] /\ t \in rev[d] => c = d
    BY <1>3, <1>4, <2>1
  <2>5. Flat(f.dom)
    <3> SUFFICES ASSUME NEW s \in f.dom, NEW t \in f.dom, Dominates(s, t) PROVE s = t
      BY DEF Flat
    <3>0. s \in Types /\ t \in Types  BY <1>0, <1>2, <1>7
    <3>1. CASE s \in e.dom /\ t \in e.dom  BY <1>12, <3>1 DEF Flat
    <3>2. CASE t \in news
      <4>1. PICK d \in del : t \in rev[d] /\ Dominates(d, t)  BY <2>2, <3>2
      <4>2. CASE s \in e.dom \ del
        <5>1. s = d  BY <1>3, <2>1, <3>0, <4>1, <4>2
        <5> QED  BY <4>2, <5>1
      <4>3. CASE s \in news
        <5>1. PICK c \in del : s \in rev[c] /\ Dominates(c, s)  BY <2>2, <4>3
        <5>2. Dominates(c, t)  BY <5>1, DominatesOrder
        <5>3. c = d  BY <1>3, <2>1, <3>0, <4>1, <5>1, <5>2
        <5> QED  BY <1>4, <4>1, <5>1, <5>3 DEF Flat
      <4> QED  BY <1>2, <4>2, <4>3
    <3>3. CASE s \in news /\ t \in e.dom \ del
      <4>1. PICK c \in del : s \in rev[c] /\ Dominates(c, s)  BY <2>2, <3>3
      <4>2. Dominates(c, t)  BY <4>1, DominatesOrder
      <4>3. c = t  BY <1>3, <2>1, <3>0, <3>3, <4>1, <4>2, DominatesOrder
      <4> QED  BY <3>3, <4>3
    <3> QED  BY <1>2, <3>1, <3>2, <3>3
  <2>6. ASSUME NEW t \in Types
        PROVE  /\ f.rem[t] = IF t \in e.dom /\ t \notin f.dom THEN e.rem[t] + 1 ELSE e.rem[t]
               /\ t \in e.dom /\ t \notin f.dom => f.all[t] = 0
    <3>1. t \in del <=> t \in e.dom /\ t \notin f.dom  BY <1>2, <1>3, <2>3
    <3> QED  BY <1>2, <1>3, <1>8, <3>1
  <2>7. ASSUME NEW t \in Types
        PROVE  f.add[t] = IF t \in f.dom /\ t \notin e.dom THEN e.add[t] + 1 ELSE e.add[t]
    <3> DEFINE S == {d \in del : t \in rev[d]}
    <3>1. f.add[t] = e.add[t] + Cardinality(S)  BY <1>2
    <3>2. t \in news <=> t \in f.dom /\ t \notin e.dom  BY <1>2, <2>3
    <3>3. CASE t \in news
      <4>1. PICK d \in del : t \in rev[d]  BY <2>2, <3>3
      <4>2. S = {d}  BY <2>4, <4>1
      <4>3. Cardinality({d}) = 1  BY FS_Singleton
      <4> QED  BY <3>1, <3>2, <3>3, <4>2, <4>3
    <3>4. CASE t \notin news
      <4>1. S = {}  BY <3>4
      <4>2. Cardinality({}) = 0  BY FS_EmptySet
      <4>3. e.add[t] \in Nat  BY <1>0
      <4> HIDE DEF S
      <4>4. f.add[t] = e.add[t]  BY <3>1, <4>1, <4>2, <4>3
      <4> QED  BY <3>2, <3>4, <4>4
    <3> QED  BY <3>3, <3>4
  <2>8. \A t \in Types : t \in f.dom => f.all[t] > 0  BY <1>11 DEF Covers, Used
  <2> QED  BY <2>5, <2>6, <2>7, <2>8
<1>13. \A t \in Types : f.all[t] = e.all[t] - Times(l, t)  BY <1>2 DEF all
<1> QED  BY <1>2, <1>10, <1>11, <1>12, <1>13 DEF f

-----------------------------------------------------------------------------
(* Removing one constraint                                                 *)

(* The constraints' ids, each of them used once.                           *)
Ids(cs) == {cs[k].id : k \in 1..Len(cs)}
Distinct(cs) == \A j, k \in 1..Len(cs) : cs[j].id = cs[k].id => j = k

(* Without one constraint, the other ids are left.                         *)
LEMMA WithoutIds ==
  ASSUME NEW cs \in Seq(Con), Distinct(cs), NEW i \in 1..Len(cs)
  PROVE  Distinct(Without(cs, i)) /\ Ids(Without(cs, i)) = Ids(cs) \ {cs[i].id}
<1> DEFINE n == Len(cs)  ds == Without(cs, i)
<1>1. /\ Len(ds) = n - 1 /\ n \in Nat /\ i \in 1..n
      /\ \A k \in 1..(n - 1) : ds[k] = IF k = i THEN cs[n] ELSE cs[k]
  <2>1. Len(cs) \in Nat  BY LenProperties
  <2> QED  BY <2>1, WithoutIs
<1>2. \A j, k \in 1..n : cs[j].id = cs[k].id => j = k  BY DEF Distinct
<1>3. Ids(cs) = {cs[k].id : k \in 1..n} /\ Ids(ds) = {ds[k].id : k \in 1..(n - 1)}
  BY <1>1 DEF Ids
<1> HIDE DEF n, ds
<1>4. Distinct(ds)
  <2> SUFFICES ASSUME NEW j \in 1..(n - 1), NEW k \in 1..(n - 1), ds[j].id = ds[k].id PROVE j = k
    BY <1>1 DEF Distinct
  <2>1. j \in 1..n /\ k \in 1..n /\ n \in 1..n /\ j # n /\ k # n  BY <1>1
  <2> QED  BY <1>1, <1>2, <2>1
<1>5. \A x \in Ids(ds) : x \in Ids(cs) /\ x # cs[i].id
  <2> SUFFICES ASSUME NEW k \in 1..(n - 1) PROVE ds[k].id \in Ids(cs) /\ ds[k].id # cs[i].id
    BY <1>3
  <2>1. k \in 1..n /\ n \in 1..n /\ k # n  BY <1>1
  <2>2. CASE k = i
    <3>1. ds[k] = cs[n] /\ n # i  BY <1>1, <2>1, <2>2
    <3> QED  BY <1>1, <1>2, <1>3, <2>1, <3>1
  <2>3. CASE k # i
    <3>1. ds[k] = cs[k]  BY <1>1, <2>3
    <3> QED  BY <1>1, <1>2, <1>3, <2>1, <2>3, <3>1
  <2> QED  BY <2>2, <2>3
<1>6. \A k \in 1..n : k # i => cs[k].id \in Ids(ds)
  <2> SUFFICES ASSUME NEW k \in 1..n, k # i PROVE cs[k].id \in Ids(ds)
    OBVIOUS
  <2>1. CASE k = n
    <3>1. i \in 1..(n - 1) /\ ds[i] = cs[k]  BY <1>1, <2>1
    <3> QED  BY <1>3, <3>1
  <2>2. CASE k # n
    <3>1. k \in 1..(n - 1) /\ ds[k] = cs[k]  BY <1>1, <2>2
    <3> QED  BY <1>3, <3>1
  <2> QED  BY <2>1, <2>2
<1> QED  BY <1>3, <1>4, <1>5, <1>6 DEF ds

(* _remove_constraint leaves sound tables, whatever constraint goes.       *)
LEMMA RemoveIs ==
  ASSUME NEW e \in Tabs, Sound(e), Distinct(e.cons), NEW id \in Ids(e.cons)
  PROVE  LET f == RemoveConstraint(e, id)
         IN  /\ f \in Tabs /\ Sound(f) /\ Distinct(f.cons)
             /\ Ids(f.cons) = Ids(e.cons) \ {id}
             /\ \E i \in 1..Len(e.cons) : f.cons = Without(e.cons, i)
             /\ Nested /\ Flat(e.dom) =>
                  /\ Flat(f.dom)
                  /\ \A t \in Types :
                       /\ f.rem[t] = IF t \in e.dom /\ t \notin f.dom THEN e.rem[t] + 1 ELSE e.rem[t]
                       /\ f.add[t] = IF t \in f.dom /\ t \notin e.dom THEN e.add[t] + 1 ELSE e.add[t]
                       /\ t \in e.dom /\ t \notin f.dom => f.all[t] = 0
                       /\ t \in f.dom => f.all[t] > 0
                       /\ f.all[t] <= e.all[t]
<1> DEFINE n == Len(e.cons)
           i == CHOOSE i \in 1..n : e.cons[i].id = id
           l == e.cons[i].types
           d == DropTypes(e, l)
           ds == Without(e.cons, i)
           f == RemoveConstraint(e, id)
<1>1. e.cons \in Seq(Con) /\ \A t \in Types : e.all[t] = Uses(e.cons, t) /\ e.all[t] \in Nat
  BY DEF Tabs, Sound
<1>2. i \in 1..n /\ e.cons[i].id = id
  <2>1. \E k \in 1..n : e.cons[k].id = id  BY DEF Ids
  <2> QED  BY <2>1
<1> HIDE DEF i
<1>3. ds \in Seq(Con)  BY <1>1, <1>2, WithoutIs
<1>4. Distinct(ds) /\ Ids(ds) = Ids(e.cons) \ {id}  BY <1>1, <1>2, WithoutIds
<1>5. \A t \in Types : /\ e.all[t] = Times(l, t) + Uses(ds, t)
                       /\ Times(l, t) \in Nat /\ Uses(ds, t) \in Nat
  <2> SUFFICES ASSUME NEW t \in Types
               PROVE  /\ e.all[t] = Times(l, t) + Uses(ds, t)
                      /\ Times(l, t) \in Nat /\ Uses(ds, t) \in Nat
    OBVIOUS
  <2>1. /\ Uses(e.cons, t) = Times(l, t) + Uses(ds, t)
        /\ Times(l, t) \in Nat /\ Uses(ds, t) \in Nat
    BY <1>1, <1>2, UsesWithout
  <2> QED  BY <1>1, <2>1
<1>6. f = [d EXCEPT !.cons = SubSeq(ReplaceAt(d.cons, i, d.cons[n]), 1, n - 1)]
  BY Zenon DEF RemoveConstraint, i
<1> HIDE DEF l, ds, f, d
<1>7. \A t \in Types : Times(l, t) \in Nat /\ Times(l, t) <= e.all[t]  BY <1>5
<1>8. Covers(e.all, e.dom)  BY DEF Sound
<1>9. /\ d \in Tabs /\ d.cons = e.cons
      /\ \A t \in Types : d.all[t] = e.all[t] - Times(l, t)
      /\ Covers(d.all, d.dom)
      /\ Nested /\ Flat(e.dom) =>
           /\ Flat(d.dom)
           /\ \A t \in Types :
                /\ d.rem[t] = IF t \in e.dom /\ t \notin d.dom THEN e.rem[t] + 1 ELSE e.rem[t]
                /\ d.add[t] = IF t \in d.dom /\ t \notin e.dom THEN e.add[t] + 1 ELSE e.add[t]
                /\ t \in e.dom /\ t \notin d.dom => d.all[t] = 0
                /\ t \in d.dom => d.all[t] > 0
  BY <1>7, <1>8, DropIs DEF d
<1>10. f = [d EXCEPT !.cons = ds]  BY <1>6, <1>9 DEF ds, Without
<1>11. /\ f \in Tabs /\ f.cons = ds /\ f.all = d.all /\ f.dom = d.dom
       /\ f.add = d.add /\ f.rem = d.rem
  BY <1>3, <1>9, <1>10 DEF Tabs
<1>12. \A t \in Types : f.all[t] = Uses(f.cons, t) /\ f.all[t] <= e.all[t]
  BY <1>5, <1>9, <1>11
<1>13. Sound(f)  BY <1>9, <1>11, <1>12 DEF Sound
<1>14. \E k \in 1..Len(e.cons) : f.cons = Without(e.cons, k)  BY <1>2, <1>11 DEF ds
<1> QED  BY <1>4, <1>9, <1>11, <1>12, <1>13, <1>14 DEF f

-----------------------------------------------------------------------------
(* Constraints in a call                                                   *)

(* What the constraints of a filter are made of, besides what clients pass. *)
Kinds == Shapes \union {<<StarStar>>}

(* Tables between two steps of a call.                                     *)
Kept(e) ==
  /\ e \in Tabs /\ Sound(e) /\ Distinct(e.cons)
  /\ \A k \in 1..Len(e.cons) : e.cons[k].types \in Kinds

(* The lists as a change starts with them.                                 *)
Fresh(e) == e.add = NoChange /\ e.rem = NoChange /\ e.carry = {}

(* Telling the two lists to one who has the old dominating types leaves it *)
(* with the new ones.                                                      *)
Entry(dom, t) == IF t \in dom THEN 1 ELSE 0
After(n, rem, add) == (IF n > rem THEN n - rem ELSE 0) + add
Faithful(e, dom0) ==
  \A t \in Types : After(Entry(dom0, t), NetRem(e)[t], NetAdd(e)[t]) = Entry(e.dom, t)

(* Lists that say what has become of each type are faithful, after         *)
(* additions.                                                              *)
LEMMA ToldFaithful ==
  ASSUME NEW e \in Tabs, NEW dom0, NEW back, NEW done, Tells(e, dom0, back, done)
  PROVE  Faithful(e, dom0)
<1> SUFFICES ASSUME NEW t \in Types
             PROVE  After(Entry(dom0, t), NetRem(e)[t], NetAdd(e)[t]) = Entry(e.dom, t)
  BY DEF Faithful
<1>1. Told(e, dom0, back, done, t) /\ e.add[t] \in Nat /\ e.rem[t] \in Nat  BY DEF Tells, Tabs
<1>2. /\ NetAdd(e)[t] = IF e.rem[t] = 0 THEN e.add[t] ELSE 0
      /\ NetRem(e)[t] = IF e.add[t] = 0 THEN e.rem[t] ELSE 0
  BY DEF NetAdd, NetRem
<1> QED  BY <1>1, <1>2 DEF Told, After, Entry

(* The same after removals only.                                           *)
LEMMA GoneFaithful ==
  ASSUME NEW e \in Tabs, NEW dom0, \A t \in Types : Gone(e, dom0, t)
  PROVE  Faithful(e, dom0)
<1> SUFFICES ASSUME NEW t \in Types
             PROVE  After(Entry(dom0, t), NetRem(e)[t], NetAdd(e)[t]) = Entry(e.dom, t)
  BY DEF Faithful
<1>1. Gone(e, dom0, t) /\ e.add[t] \in Nat /\ e.rem[t] \in Nat  BY DEF Tabs
<1>2. /\ NetAdd(e)[t] = IF e.rem[t] = 0 THEN e.add[t] ELSE 0
      /\ NetRem(e)[t] = IF e.add[t] = 0 THEN e.rem[t] ELSE 0
  BY DEF NetAdd, NetRem
<1> QED  BY <1>1, <1>2 DEF Gone, After, Entry

(* Empty lists are faithful to tables that have not changed.               *)
LEMMA FreshIs ==
  ASSUME NEW e \in Tabs, Fresh(e)
  PROVE  /\ Reset(e) = e
         /\ \A back, done : Tells(e, e.dom, back, done)
         /\ \A t \in Types : Gone(e, e.dom, t)
<1>1. Reset(e) = e  BY DEF Tabs, Fresh, Reset
<1>2. \A t \in Types : e.add[t] = 0 /\ e.rem[t] = 0 /\ t \notin e.carry
  BY DEF Fresh, NoChange
<1> QED  BY <1>1, <1>2 DEF Tells, Told, Gone

-----------------------------------------------------------------------------

(* Adding a constraint with a new id.                                      *)
LEMMA PutKept ==
  ASSUME NEW e, Kept(e), NEW c \in Con, c.types \in Shapes, c.id \notin Ids(e.cons)
  PROVE  LET f == PutConstraint(e, c)
         IN  Kept(f) /\ Ids(f.cons) = Ids(e.cons) \union {c.id}
<1> DEFINE f == PutConstraint(e, c)  n == Len(e.cons)
<1>1. f \in Tabs /\ f.cons = Append(e.cons, Stored(c)) /\ Sound(f)  BY PutIs DEF Kept
<1>2. /\ Stored(c) \in Con /\ Stored(c).id = c.id
      /\ Stored(c).types = IF c.types = <<>> THEN <<StarStar>> ELSE c.types
  BY StoredIs
<1>3. e.cons \in Seq(Con)  BY DEF Kept, Tabs
<1> HIDE DEF f
<1>4. /\ Len(f.cons) = n + 1 /\ n \in Nat
      /\ \A k \in 1..n : f.cons[k] = e.cons[k]
      /\ f.cons[n + 1] = Stored(c)
  <2>1. n \in Nat  BY <1>3, LenProperties
  <2>2. /\ Len(f.cons) = n + 1
        /\ \A k \in 1..n : f.cons[k] = e.cons[k]
        /\ f.cons[n + 1] = Stored(c)
    BY <1>1, <1>2, <1>3, AppendProperties
  <2> QED  BY <2>1, <2>2
<1>5. \A k \in 1..n : e.cons[k].types \in Kinds  BY DEF Kept
<1>6. \A j, k \in 1..n : e.cons[j].id = e.cons[k].id => j = k  BY DEF Kept, Distinct
<1>7. \A k \in 1..n : e.cons[k].id # c.id  BY DEF Ids
<1>8. Ids(e.cons) = {e.cons[k].id : k \in 1..n}  BY DEF Ids
<1> HIDE DEF n
<1>9. \A k \in 1..(n + 1) : k \in 1..n \/ k = n + 1  BY <1>4
<1>10. \A k \in 1..Len(f.cons) : f.cons[k].types \in Kinds
  BY <1>2, <1>4, <1>5, <1>9 DEF Kinds
<1>11. Distinct(f.cons)
  BY <1>2, <1>4, <1>6, <1>7, <1>9 DEF Distinct
<1>12. Ids(f.cons) = Ids(e.cons) \union {c.id}
  <2>1. Ids(f.cons) = {f.cons[k].id : k \in 1..(n + 1)}  BY <1>4 DEF Ids
  <2>2. \A k \in 1..n : k \in 1..(n + 1) /\ f.cons[k].id = e.cons[k].id  BY <1>4
  <2>3. n + 1 \in 1..(n + 1) /\ f.cons[n + 1].id = c.id  BY <1>2, <1>4
  <2> QED  BY <1>8, <1>9, <2>1, <2>2, <2>3
<1> QED  BY <1>1, <1>10, <1>11, <1>12 DEF Kept, f

(* Removing a constraint, by its id.                                       *)
LEMMA RemoveKept ==
  ASSUME NEW e, Kept(e), NEW id \in Ids(e.cons)
  PROVE  LET f == RemoveConstraint(e, id)
         IN  /\ Kept(f) /\ Ids(f.cons) = Ids(e.cons) \ {id}
             /\ Nested /\ Flat(e.dom) =>
                  /\ Flat(f.dom)
                  /\ \A dom0 : (\A t \in Types : Gone(e, dom0, t)) => \A t \in Types : Gone(f, dom0, t)
                  /\ Fresh(e) => Tells(Reset(f), e.dom, TRUE, {})
<1> DEFINE f == RemoveConstraint(e, id)
<1>0. e \in Tabs /\ Sound(e) /\ Distinct(e.cons) /\ \A k \in 1..Len(e.cons) : e.cons[k].types \in Kinds
  BY DEF Kept
<1>1. /\ f \in Tabs /\ Sound(f) /\ Distinct(f.cons)
      /\ Ids(f.cons) = Ids(e.cons) \ {id}
      /\ \E i \in 1..Len(e.cons) : f.cons = Without(e.cons, i)
      /\ Nested /\ Flat(e.dom) =>
           /\ Flat(f.dom)
           /\ \A t \in Types :
                /\ f.rem[t] = IF t \in e.dom /\ t \notin f.dom THEN e.rem[t] + 1 ELSE e.rem[t]
                /\ f.add[t] = IF t \in f.dom /\ t \notin e.dom THEN e.add[t] + 1 ELSE e.add[t]
                /\ t \in e.dom /\ t \notin f.dom => f.all[t] = 0
                /\ t \in f.dom => f.all[t] > 0
                /\ f.all[t] <= e.all[t]
  BY <1>0, RemoveIs
<1> HIDE DEF f
<1>2. Kept(f)
  <2>1. PICK i \in 1..Len(e.cons) : f.cons = Without(e.cons, i)  BY <1>1
  <2>2. e.cons \in Seq(Con) /\ Len(e.cons) \in Nat  BY <1>0, LenProperties DEF Tabs
  <2>3. /\ Len(f.cons) = Len(e.cons) - 1
        /\ \A k \in 1..(Len(e.cons) - 1) : f.cons[k] = IF k = i THEN e.cons[Len(e.cons)] ELSE e.cons[k]
    <3>1. /\ Len(Without(e.cons, i)) = Len(e.cons) - 1
          /\ \A k \in 1..(Len(e.cons) - 1) :
               Without(e.cons, i)[k] = IF k = i THEN e.cons[Len(e.cons)] ELSE e.cons[k]
      BY <2>2, WithoutIs
    <3> QED  BY <2>1, <3>1
  <2>4. \A k \in 1..(Len(e.cons) - 1) : k \in 1..Len(e.cons) /\ Len(e.cons) \in 1..Len(e.cons)
    BY <2>2
  <2>5. \A k \in 1..Len(f.cons) : f.cons[k].types \in Kinds  BY <1>0, <2>3, <2>4
  <2> QED  BY <1>1, <2>5 DEF Kept
<1>3. ASSUME Nested, Flat(e.dom)
      PROVE  /\ Flat(f.dom)
             /\ \A dom0 : (\A t \in Types : Gone(e, dom0, t)) => \A t \in Types : Gone(f, dom0, t)
             /\ Fresh(e) => Tells(Reset(f), e.dom, TRUE, {})
  <2>1. Flat(f.dom) /\ \A t \in Types :
                /\ f.rem[t] = IF t \in e.dom /\ t \notin f.dom THEN e.rem[t] + 1 ELSE e.rem[t]
                /\ f.add[t] = IF t \in f.dom /\ t \notin e.dom THEN e.add[t] + 1 ELSE e.add[t]
                /\ t \in e.dom /\ t \notin f.dom => f.all[t] = 0
                /\ t \in f.dom => f.all[t] > 0
                /\ f.all[t] <= e.all[t]
    BY <1>1, <1>3
  <2>2. \A t \in Types : /\ e.add[t] \in Nat /\ e.rem[t] \in Nat /\ e.all[t] \in Nat
                         /\ f.all[t] \in Nat /\ f.add[t] \in Nat /\ f.rem[t] \in Nat
    BY <1>0, <1>1 DEF Tabs
  <2>3. ASSUME NEW dom0, NEW t \in Types, Gone(e, dom0, t) PROVE Gone(f, dom0, t)
    BY <2>1, <2>2, <2>3 DEF Gone
  <2>4. ASSUME Fresh(e) PROVE Tells(Reset(f), e.dom, TRUE, {})
    <3> SUFFICES ASSUME NEW t \in Types PROVE Told(Reset(f), e.dom, TRUE, {}, t)
      BY DEF Tells
    <3>1. e.add[t] = 0 /\ e.rem[t] = 0  BY <2>4 DEF Fresh, NoChange
    <3>2. /\ Reset(f).dom = f.dom /\ Reset(f).add = f.add /\ Reset(f).rem = f.rem
          /\ Reset(f).carry = {}
      BY <1>1, ResetIs
    <3> QED  BY <2>1, <3>1, <3>2 DEF Told
  <2> QED  BY <2>1, <2>3, <2>4
<1> QED  BY <1>1, <1>2, <1>3 DEF f

(* Replacing a constraint: the lists are faithful if none of its types     *)
(* takes the place of an earlier one.                                      *)
LEMMA ReplaceKept ==
  ASSUME NEW e, Kept(e), NEW c \in Con, c.types \in Shapes, c.id \in Ids(e.cons)
  PROVE  LET f == ReplaceConstraint(e, c)
         IN  /\ Kept(f) /\ Ids(f.cons) = Ids(e.cons)
             /\ Nested /\ Flat(e.dom) =>
                  /\ Flat(f.dom)
                  /\ Fresh(e) /\ Ordered(c.types) => Faithful(f, e.dom)
<1> DEFINE d == RemoveConstraint(e, c.id)  f == PutConstraint(d, c)
<1>1. ReplaceConstraint(e, c) = f  BY DEF ReplaceConstraint
<1>2. /\ Kept(d) /\ Ids(d.cons) = Ids(e.cons) \ {c.id}
      /\ Nested /\ Flat(e.dom) =>
           /\ Flat(d.dom)
           /\ Fresh(e) => Tells(Reset(d), e.dom, TRUE, {})
  BY RemoveKept
<1> HIDE DEF d
<1>3. Kept(f) /\ Ids(f.cons) = Ids(e.cons)
  <2>1. c.id \notin Ids(d.cons)  BY <1>2
  <2>2. Kept(f) /\ Ids(f.cons) = Ids(d.cons) \union {c.id}  BY <1>2, <2>1, PutKept
  <2> HIDE DEF f
  <2> QED  BY <1>2, <2>2
<1>4. d \in Tabs /\ Sound(d) /\ e.dom \in SUBSET Types  BY <1>2 DEF Kept, Tabs
<1>5. /\ f \in Tabs
      /\ Flat(d.dom) => Flat(f.dom)
      /\ \A dom0 \in SUBSET Types, back \in BOOLEAN :
           /\ Tells(Reset(d), dom0, back, {})
           /\ back => Ordered(c.types)
           => \E done \in SUBSET Types : Tells(f, dom0, back, done)
  BY <1>4, PutIs
<1> HIDE DEF f
<1>6. ASSUME Nested, Flat(e.dom), Fresh(e), Ordered(c.types) PROVE Faithful(f, e.dom)
  <2>1. PICK done \in SUBSET Types : Tells(f, e.dom, TRUE, done)  BY <1>2, <1>4, <1>5, <1>6
  <2> QED  BY <1>5, <2>1, ToldFaithful
<1> QED  BY <1>1, <1>2, <1>3, <1>5, <1>6

-----------------------------------------------------------------------------
(* The changes of whole calls                                              *)

(* add_constraints: all of its constraints are added, and the lists say    *)
(* what is new.                                                            *)
LEMMA AddAllIs ==
  ASSUME NEW e, Kept(e), NEW cs \in Seq(Con), Distinct(cs),
         Ids(cs) \intersect Ids(e.cons) = {}, \A k \in 1..Len(cs) : cs[k].types \in Shapes
  PROVE  LET f == AddAll(e, cs)
         IN  /\ Kept(f) /\ Ids(f.cons) = Ids(e.cons) \union Ids(cs)
             /\ Flat(e.dom) => Flat(f.dom)
             /\ Fresh(e) => Faithful(f, e.dom)
<1> DEFINE n == Len(cs)
<1>0. /\ n \in Nat /\ DOMAIN cs = 1..n
      /\ \A k \in 1..n : cs[k] \in Con /\ cs[k].types \in Shapes /\ cs[k].id \notin Ids(e.cons)
      /\ \A j, k \in 1..n : cs[j].id = cs[k].id => j = k
      /\ Ids(cs) = {cs[k].id : k \in 1..n}
  <2>1. n \in Nat /\ DOMAIN cs = 1..n /\ \A k \in 1..n : cs[k] \in Con
    BY LenProperties, ElementOfSeq
  <2>2. Ids(cs) = {cs[k].id : k \in 1..n}  BY DEF Ids
  <2> QED  BY <2>1, <2>2 DEF Distinct
<1> HIDE DEF n
<1>9. PICK r : PutSteps(e, cs, n, r)  BY <1>0, PutRun
<1>1. /\ r[0] = e
      /\ \A k \in 1..n : r[k] = PutConstraint(r[k - 1], cs[k])
      /\ PutFold(e, cs) = r[n]
  BY <1>9 DEF PutSteps
<1>2. AddAll(e, cs) = r[n]
  <2>1. AddAll(e, cs) = PutFold(e, cs)  BY Zenon DEF AddAll, PutFold
  <2> QED  BY <1>1, <2>1
<1> DEFINE Done(k) == {cs[j].id : j \in 1..k}
           P(k) == /\ Kept(r[k]) /\ Ids(r[k].cons) = Ids(e.cons) \union Done(k)
                   /\ Flat(e.dom) => Flat(r[k].dom)
                   /\ Fresh(e) => Tells(Reset(r[k]), e.dom, FALSE, {})
           Good == {k \in Nat : k <= n => P(k)}
<1>3. 0 \in Good
  <2>1. Done(0) = {}  OBVIOUS
  <2>2. e \in Tabs  BY DEF Kept
  <2>3. Fresh(e) => Tells(Reset(e), e.dom, FALSE, {})  BY <2>2, FreshIs
  <2> HIDE DEF Done
  <2> QED  BY <1>1, <2>1, <2>3
<1>4. ASSUME NEW k \in Good PROVE k + 1 \in Good
  <2> SUFFICES ASSUME k + 1 <= n PROVE P(k + 1)
    <3> HIDE DEF P
    <3> QED  OBVIOUS
  <2>0. k \in Nat /\ k + 1 \in 1..n /\ (k + 1) - 1 = k  BY <1>0
  <2>1. P(k)
    <3> HIDE DEF P
    <3> QED  BY <1>0, <2>0
  <2>2. r[k + 1] = PutConstraint(r[k], cs[k + 1])
    <3>1. r[k + 1] = PutConstraint(r[(k + 1) - 1], cs[k + 1])  BY <1>1, <2>0
    <3> QED  BY <2>0, <3>1
  <2> DEFINE c == cs[k + 1]  a == r[k]  b == r[k + 1]
  <2>3. c \in Con /\ c.types \in Shapes /\ c.id \notin Ids(a.cons)
    <3>1. c \in Con /\ c.types \in Shapes /\ c.id \notin Ids(e.cons)  BY <1>0, <2>0
    <3>2. c.id \notin Done(k)
      <4>1. \A j \in 1..k : j \in 1..n /\ j # k + 1  BY <1>0, <2>0
      <4> QED  BY <1>0, <2>0, <4>1
    <3> HIDE DEF Done, c
    <3> QED  BY <2>1, <3>1, <3>2
  <2>4. Done(k + 1) = Done(k) \union {c.id}
    <3>1. 1..(k + 1) = (1..k) \union {k + 1}  BY <2>0
    <3> QED  BY <3>1
  <2> HIDE DEF Done, a, b, c
  <2>5. /\ Kept(a) /\ Ids(a.cons) = Ids(e.cons) \union Done(k)
        /\ Flat(e.dom) => Flat(a.dom)
        /\ Fresh(e) => Tells(Reset(a), e.dom, FALSE, {})
        /\ b = PutConstraint(a, c)
    BY <2>1, <2>2 DEF a, b, c
  <2>6. Kept(b) /\ Ids(b.cons) = Ids(a.cons) \union {c.id}  BY <2>3, <2>5, PutKept
  <2>7. a \in Tabs /\ Sound(a) /\ b \in Tabs /\ e.dom \in SUBSET Types
    BY <2>5, <2>6 DEF Kept, Tabs
  <2>8. /\ Flat(a.dom) => Flat(b.dom)
        /\ \A dom0 \in SUBSET Types, back \in BOOLEAN :
             /\ Tells(Reset(a), dom0, back, {})
             /\ back => Ordered(c.types)
             => \E done \in SUBSET Types : Tells(b, dom0, back, done)
    <3>1. /\ Flat(a.dom) => Flat(PutConstraint(a, c).dom)
          /\ \A dom0 \in SUBSET Types, back \in BOOLEAN :
               /\ Tells(Reset(a), dom0, back, {})
               /\ back => Ordered(c.types)
               => \E done \in SUBSET Types : Tells(PutConstraint(a, c), dom0, back, done)
      BY <2>3, <2>7, PutIs
    <3> QED  BY <2>5, <3>1
  <2>9. ASSUME Fresh(e) PROVE Tells(Reset(b), e.dom, FALSE, {})
    <3>1. PICK done \in SUBSET Types : Tells(b, e.dom, FALSE, done)  BY <2>5, <2>7, <2>8, <2>9
    <3>2. Tells(Reset(b), e.dom, FALSE, done)  BY <2>7, <3>1, ResetIs
    <3> QED  BY <3>2 DEF Tells, Told
  <2>10. Ids(b.cons) = Ids(e.cons) \union Done(k + 1)  BY <2>4, <2>5, <2>6
  <2>11. Flat(e.dom) => Flat(b.dom)  BY <2>5, <2>8
  <2> QED  BY <2>6, <2>9, <2>10, <2>11 DEF b
<1>5. Good = Nat
  <2>1. Good \subseteq Nat  OBVIOUS
  <2> HIDE DEF Good
  <2> QED  BY <1>3, <1>4, <2>1, SetInduction
<1>6. P(n)
  <2>1. n \in Good  BY <1>0, <1>5
  <2> HIDE DEF P
  <2> QED  BY <1>0, <2>1
<1>7. Done(n) = Ids(cs)  BY <1>0
<1>8. ASSUME Fresh(e) PROVE Faithful(r[n], e.dom)
  <2>1. r[n] \in Tabs  BY <1>6 DEF Kept
  <2>2. Reset(r[n]) \in Tabs /\ Faithful(Reset(r[n]), e.dom)
    BY <1>6, <1>8, <2>1, ResetIs, ToldFaithful
  <2>3. /\ Reset(r[n]).dom = r[n].dom /\ Reset(r[n]).add = r[n].add /\ Reset(r[n]).rem = r[n].rem
    BY <2>1, ResetIs
  <2> QED  BY <2>2, <2>3 DEF Faithful, NetAdd, NetRem
<1> HIDE DEF Done
<1> QED  BY <1>2, <1>6, <1>7, <1>8

-----------------------------------------------------------------------------
(* Whole calls                                                             *)

(* The removals of one call, any number of them.                           *)
LEMMA RemoveSome ==
  ASSUME NEW e, Kept(e), NEW n \in Nat, NEW ids, DOMAIN ids = 1..n,
         \A k \in 1..n : ids[k] \in Ids(e.cons),
         \A j, k \in 1..n : ids[j] = ids[k] => j = k
  PROVE  LET f == RemoveFold(e, ids)
         IN  /\ Kept(f) /\ Ids(f.cons) = Ids(e.cons) \ {ids[k] : k \in 1..n}
             /\ Nested /\ Flat(e.dom) =>
                  /\ Flat(f.dom)
                  /\ Fresh(e) => \A t \in Types : Gone(f, e.dom, t)
             /\ n = 0 => f = e
<1>9. PICK r : RemoveSteps(e, ids, n, r)  BY RemoveRun
<1>1. /\ r[0] = e
      /\ \A k \in 1..n : r[k] = RemoveConstraint(r[k - 1], ids[k])
      /\ RemoveFold(e, ids) = r[n]
  BY <1>9 DEF RemoveSteps
<1> DEFINE Done(k) == {ids[j] : j \in 1..k}
           P(k) == /\ Kept(r[k]) /\ Ids(r[k].cons) = Ids(e.cons) \ Done(k)
                   /\ Nested /\ Flat(e.dom) =>
                        /\ Flat(r[k].dom)
                        /\ Fresh(e) => \A t \in Types : Gone(r[k], e.dom, t)
           Good == {k \in Nat : k <= n => P(k)}
<1>3. 0 \in Good
  <2>1. Done(0) = {}  OBVIOUS
  <2>2. e \in Tabs  BY DEF Kept
  <2>3. Fresh(e) => \A t \in Types : Gone(e, e.dom, t)  BY <2>2, FreshIs
  <2> HIDE DEF Done
  <2> QED  BY <1>1, <2>1, <2>3
<1>4. ASSUME NEW k \in Good PROVE k + 1 \in Good
  <2> SUFFICES ASSUME k + 1 <= n PROVE P(k + 1)
    <3> HIDE DEF P
    <3> QED  OBVIOUS
  <2>0. k \in Nat /\ k + 1 \in 1..n /\ (k + 1) - 1 = k  OBVIOUS
  <2>1. P(k)
    <3> HIDE DEF P
    <3> QED  BY <2>0
  <2>2. r[k + 1] = RemoveConstraint(r[k], ids[k + 1])
    <3>1. r[k + 1] = RemoveConstraint(r[(k + 1) - 1], ids[k + 1])  BY <1>1, <2>0
    <3> QED  BY <2>0, <3>1
  <2> DEFINE c == ids[k + 1]  a == r[k]  b == r[k + 1]
  <2>3. c \in Ids(a.cons)
    <3>1. c \in Ids(e.cons)  BY <2>0
    <3>2. c \notin Done(k)
      <4>1. \A j \in 1..k : j \in 1..n /\ j # k + 1  BY <2>0
      <4> QED  BY <2>0, <4>1
    <3> HIDE DEF Done, c
    <3> QED  BY <2>1, <3>1, <3>2
  <2>4. Done(k + 1) = Done(k) \union {c}
    <3>1. 1..(k + 1) = (1..k) \union {k + 1}  BY <2>0
    <3> QED  BY <3>1
  <2> HIDE DEF Done, a, b, c
  <2>5. /\ Kept(a) /\ Ids(a.cons) = Ids(e.cons) \ Done(k)
        /\ Nested /\ Flat(e.dom) =>
             /\ Flat(a.dom)
             /\ Fresh(e) => \A t \in Types : Gone(a, e.dom, t)
        /\ b = RemoveConstraint(a, c)
    BY <2>1, <2>2 DEF a, b, c
  <2>6. /\ Kept(b) /\ Ids(b.cons) = Ids(a.cons) \ {c}
        /\ Nested /\ Flat(a.dom) =>
             /\ Flat(b.dom)
             /\ \A dom0 : (\A t \in Types : Gone(a, dom0, t)) => \A t \in Types : Gone(b, dom0, t)
    <3>1. /\ Kept(RemoveConstraint(a, c)) /\ Ids(RemoveConstraint(a, c).cons) = Ids(a.cons) \ {c}
          /\ Nested /\ Flat(a.dom) =>
               /\ Flat(RemoveConstraint(a, c).dom)
               /\ \A dom0 : (\A t \in Types : Gone(a, dom0, t)) =>
                              \A t \in Types : Gone(RemoveConstraint(a, c), dom0, t)
      BY <2>3, <2>5, RemoveKept
    <3> QED  BY <2>5, <3>1
  <2>7. Ids(b.cons) = Ids(e.cons) \ Done(k + 1)  BY <2>4, <2>5, <2>6
  <2>8. Nested /\ Flat(e.dom) =>
             /\ Flat(b.dom)
             /\ Fresh(e) => \A t \in Types : Gone(b, e.dom, t)
    BY <2>5, <2>6
  <2> QED  BY <2>6, <2>7, <2>8 DEF b
<1>5. Good = Nat
  <2>1. Good \subseteq Nat  OBVIOUS
  <2> HIDE DEF Good
  <2> QED  BY <1>3, <1>4, <2>1, SetInduction
<1>6. P(n)
  <2>1. n \in Good  BY <1>5
  <2> HIDE DEF P
  <2> QED  BY <2>1
<1> QED  BY <1>1, <1>6

(* The replacements of one call, any number of them.                       *)
LEMMA ReplaceSome ==
  ASSUME NEW e, Kept(e), NEW n \in Nat, NEW cs, DOMAIN cs = 1..n,
         \A k \in 1..n : cs[k] \in Con /\ cs[k].types \in Shapes /\ cs[k].id \in Ids(e.cons)
  PROVE  LET f == ReplaceFold(e, cs)
         IN  /\ Kept(f) /\ Ids(f.cons) = Ids(e.cons)
             /\ Nested /\ Flat(e.dom) => Flat(f.dom)
             /\ n = 0 => f = e
             /\ n = 1 => f = ReplaceConstraint(e, cs[1])
<1>9. PICK r : ReplaceSteps(e, cs, n, r)  BY ReplaceRun
<1>1. /\ r[0] = e
      /\ \A k \in 1..n : r[k] = ReplaceConstraint(r[k - 1], cs[k])
      /\ ReplaceFold(e, cs) = r[n]
  BY <1>9 DEF ReplaceSteps
<1> DEFINE P(k) == /\ Kept(r[k]) /\ Ids(r[k].cons) = Ids(e.cons)
                   /\ Nested /\ Flat(e.dom) => Flat(r[k].dom)
           Good == {k \in Nat : k <= n => P(k)}
<1>3. 0 \in Good  BY <1>1
<1>4. ASSUME NEW k \in Good PROVE k + 1 \in Good
  <2> SUFFICES ASSUME k + 1 <= n PROVE P(k + 1)
    <3> HIDE DEF P
    <3> QED  OBVIOUS
  <2>0. k \in Nat /\ k + 1 \in 1..n /\ (k + 1) - 1 = k  OBVIOUS
  <2>1. P(k)
    <3> HIDE DEF P
    <3> QED  BY <2>0
  <2>2. r[k + 1] = ReplaceConstraint(r[k], cs[k + 1])
    <3>1. r[k + 1] = ReplaceConstraint(r[(k + 1) - 1], cs[k + 1])  BY <1>1, <2>0
    <3> QED  BY <2>0, <3>1
  <2> DEFINE c == cs[k + 1]  a == r[k]  b == r[k + 1]
  <2>3. c \in Con /\ c.types \in Shapes /\ c.id \in Ids(e.cons)  BY <2>0
  <2> HIDE DEF a, b, c
  <2>5. /\ Kept(a) /\ Ids(a.cons) = Ids(e.cons)
        /\ Nested /\ Flat(e.dom) => Flat(a.dom)
        /\ b = ReplaceConstraint(a, c)
    BY <2>1, <2>2 DEF a, b, c
  <2>6. /\ Kept(b) /\ Ids(b.cons) = Ids(a.cons)
        /\ Nested /\ Flat(a.dom) => Flat(b.dom)
    <3>1. /\ Kept(ReplaceConstraint(a, c)) /\ Ids(ReplaceConstraint(a, c).cons) = Ids(a.cons)
          /\ Nested /\ Flat(a.dom) => Flat(ReplaceConstraint(a, c).dom)
      BY <2>3, <2>5, ReplaceKept
    <3> QED  BY <2>5, <3>1
  <2> QED  BY <2>5, <2>6 DEF b
<1>5. Good = Nat
  <2>1. Good \subseteq Nat  OBVIOUS
  <2> HIDE DEF Good
  <2> QED  BY <1>3, <1>4, <2>1, SetInduction
<1>6. P(n)
  <2>1. n \in Good  BY <1>5
  <2> HIDE DEF P
  <2> QED  BY <2>1
<1>7. n = 1 => r[1] = ReplaceConstraint(r[1 - 1], cs[1])  BY <1>1
<1> HIDE DEF P
<1> QED  BY <1>1, <1>6, <1>7 DEF P

(* modify_constraints keeps the tables sound; its lists are faithful if it *)
(* only removes, or replaces one constraint and nothing else.              *)
LEMMA ModifyIs ==
  ASSUME NEW e, Kept(e), NEW m \in Nat, NEW n \in Nat,
         NEW del, DOMAIN del = 1..m, NEW mod, DOMAIN mod = 1..n,
         \A k \in 1..m : del[k] \in Ids(e.cons),
         \A j, k \in 1..m : del[j] = del[k] => j = k,
         \A k \in 1..n : mod[k] \in Con /\ mod[k].types \in Shapes /\ mod[k].id \in Ids(e.cons),
         \A j \in 1..m, k \in 1..n : del[j] # mod[k].id
  PROVE  LET f == Modify(e, del, mod)
         IN  /\ Kept(f) /\ Ids(f.cons) \subseteq Ids(e.cons)
             /\ Nested /\ Flat(e.dom) =>
                  /\ Flat(f.dom)
                  /\ Fresh(e) /\ (n = 0 \/ (m = 0 /\ n = 1 /\ Ordered(mod[1].types)))
                     => Faithful(f, e.dom)
<1> DEFINE d == RemoveFold(e, del)  f == ReplaceFold(d, mod)
<1>1. Modify(e, del, mod) = f  BY Zenon DEF Modify, RemoveFold, ReplaceFold
<1>2. /\ Kept(d) /\ Ids(d.cons) = Ids(e.cons) \ {del[k] : k \in 1..m}
      /\ Nested /\ Flat(e.dom) =>
           /\ Flat(d.dom)
           /\ Fresh(e) => \A t \in Types : Gone(d, e.dom, t)
      /\ m = 0 => d = e
  BY RemoveSome
<1> HIDE DEF d
<1>3. \A k \in 1..n : mod[k] \in Con /\ mod[k].types \in Shapes /\ mod[k].id \in Ids(d.cons)
  BY <1>2
<1>4. /\ Kept(f) /\ Ids(f.cons) = Ids(d.cons)
      /\ Nested /\ Flat(d.dom) => Flat(f.dom)
      /\ n = 0 => f = d
      /\ n = 1 => f = ReplaceConstraint(d, mod[1])
  BY <1>2, <1>3, ReplaceSome
<1> HIDE DEF f
<1>5. ASSUME Nested, Flat(e.dom), Fresh(e), n = 0 PROVE Faithful(f, e.dom)
  <2>1. f = d /\ d \in Tabs /\ \A t \in Types : Gone(d, e.dom, t)  BY <1>2, <1>4, <1>5 DEF Kept
  <2> QED  BY <2>1, GoneFaithful
<1>6. ASSUME Nested, Flat(e.dom), Fresh(e), m = 0, n = 1, Ordered(mod[1].types)
      PROVE  Faithful(f, e.dom)
  <2>1. f = ReplaceConstraint(e, mod[1]) /\ 1 \in 1..n  BY <1>2, <1>4, <1>6
  <2>2. mod[1] \in Con /\ mod[1].types \in Shapes /\ mod[1].id \in Ids(e.cons)  BY <2>1
  <2>3. Faithful(ReplaceConstraint(e, mod[1]), e.dom)  BY <1>6, <2>2, ReplaceKept
  <2> QED  BY <2>1, <2>3
<1> QED  BY <1>1, <1>2, <1>4, <1>5, <1>6

(* remove_all_constraints keeps the tables sound, and its lists are        *)
(* faithful.                                                               *)
LEMMA RemoveAllIs ==
  ASSUME NEW e, Kept(e)
  PROVE  LET f == RemoveAll(e)
         IN  /\ Kept(f) /\ Ids(f.cons) \subseteq Ids(e.cons)
             /\ Nested /\ Flat(e.dom) =>
                  /\ Flat(f.dom)
                  /\ Fresh(e) => Faithful(f, e.dom)
<1> DEFINE n == Len(e.cons)
<1>1. n \in Nat /\ DOMAIN e.cons = 1..n  BY LenProperties DEF Kept, Tabs
<1>2. PICK ids : ids = [k \in DOMAIN e.cons |-> e.cons[k].id]  OBVIOUS
<1> DEFINE f == RemoveFold(e, ids)
<1>3. RemoveAll(e) = f
  BY <1>2, Zenon DEF RemoveAll, RemoveFold
<1>4. /\ DOMAIN ids = 1..n /\ \A k \in 1..n : ids[k] \in Ids(e.cons)
      /\ \A j, k \in 1..n : ids[j] = ids[k] => j = k
  BY <1>1, <1>2 DEF Ids, Kept, Distinct
<1> HIDE DEF n
<1>5. /\ Kept(f) /\ Ids(f.cons) = Ids(e.cons) \ {ids[k] : k \in 1..n}
      /\ Nested /\ Flat(e.dom) =>
           /\ Flat(f.dom)
           /\ Fresh(e) => \A t \in Types : Gone(f, e.dom, t)
  <2>1. n \in Nat  BY <1>1
  <2>2. DOMAIN ids = 1..n  BY <1>4
  <2>3. \A k \in 1..n : ids[k] \in Ids(e.cons)  BY <1>4
  <2>4. \A j, k \in 1..n : ids[j] = ids[k] => j = k  BY <1>4
  <2>5. LET g == RemoveFold(e, ids)
        IN  /\ Kept(g) /\ Ids(g.cons) = Ids(e.cons) \ {ids[k] : k \in 1..n}
            /\ Nested /\ Flat(e.dom) =>
                 /\ Flat(g.dom)
                 /\ Fresh(e) => \A t \in Types : Gone(g, e.dom, t)
            /\ n = 0 => g = e
    BY <2>1, <2>2, <2>3, <2>4, RemoveSome
  <2> QED  BY <2>5
<1> HIDE DEF f
<1>6. f \in Tabs  BY <1>5 DEF Kept
<1>7. (\A t \in Types : Gone(f, e.dom, t)) => Faithful(f, e.dom)  BY <1>6, GoneFaithful
<1> QED  BY <1>3, <1>5, <1>7

-----------------------------------------------------------------------------
(* The invariant of the type map                                           *)

(* A filter's tables, with empty lists.                                    *)
TabsOf(x) == [cons |-> x.cons, all |-> x.all, dom |-> x.dom,
              add |-> NoChange, rem |-> NoChange, carry |-> {}]

(* The rows of the table of filters.                                       *)
Row == [cons : Seq(Con), all : [Types -> Nat], dom : SUBSET Types, next : Nat,
        cbs : SUBSET Holders, state : {"live", "dying", "dead"}]

(* A filter whose tables are sound and whose ids are below the next one.   *)
RowOK(x) ==
  /\ x \in Row
  /\ Kept(TabsOf(x))
  /\ \A id \in Ids(x.cons) : id < x.next
  /\ Nested => Flat(x.dom)

(* What a thread is doing.                                                 *)
Doing == [f : Filters \union {NoFilter}, add : [Types -> Nat],
          rem : [Types -> Nat], todo : SUBSET Holders]

(* The types of the variables, with the stronger type of the filters.      *)
Types1 ==
  /\ flt \in [Filters -> Row]
  /\ fa \in [Holders -> SUBSET Filters]
  /\ rqst \in [Holders -> SUBSET Types]
  /\ tmap \in [Holders -> [Types -> [Filters \union {NoFilter} -> Nat]]]
  /\ thr \in [Threads -> Doing]
  /\ raced \subseteq Filters

(* All filters are in order.                                               *)
RowsOK == \A f \in Filters : RowOK(flt[f])

(* The entries without a filter are the subscriptions.                     *)
Subscribed == \A h \in Holders, t \in Types : tmap[h][t][NoFilter] = Entry(rqst[h], t)

(* A filter calls back its holders, unless one of theirs is destroyed.     *)
Held == \A h \in Holders, f \in Filters :
  /\ h \in flt[f].cbs => f \in fa[h] /\ flt[f].state # "dead"
  /\ DeadAt(h) = {} /\ f \in fa[h] => h \in flt[f].cbs

(* Thread i has still to tell h about f.                                   *)
Telling(i, f, h) == thr[i].f = f /\ h \in thr[i].todo

(* Threads tell about filters; but for races, one thread per filter, and   *)
(* only who holds it is told.                                              *)
ThreadsOK ==
  /\ \A i \in Threads : thr[i].todo # {} => thr[i].f \in Filters
  /\ \A f \in Filters \ raced :
       /\ \A i, j \in Threads : thr[i].f = f /\ thr[j].f = f => i = j
       /\ \A i \in Threads, h \in Holders : Telling(i, f, h) => h \in flt[f].cbs

(* The types under which the map should list f for h.                      *)
Due(h, f) == IF f \in fa[h] THEN flt[f].dom ELSE {}

(* The map lists what is due, once what is being told has been told.       *)
Settled == \A h \in Holders, f \in Filters \ raced : DeadAt(h) = {} =>
  /\ f \notin BeingTold(h) => \A t \in Types : tmap[h][t][f] = Entry(Due(h, f), t)
  /\ \A i \in Threads : Telling(i, f, h) =>
       \A t \in Types : After(tmap[h][t][f], thr[i].rem[t], thr[i].add[t]) = Entry(Due(h, f), t)

(* The invariant.                                                          *)
MapInv ==
  /\ Types1 /\ RowsOK /\ Subscribed /\ Held /\ ThreadsOK
  /\ Nested /\ SimpleEdits => Settled

-----------------------------------------------------------------------------
(* Calls that change a filter's constraints                                *)

(* A change starts with the filter's tables and with empty lists.          *)
LEMMA TablesIs ==
  ASSUME NEW f \in Filters, RowOK(flt[f])
  PROVE  /\ Tables(f) = TabsOf(flt[f]) /\ Kept(Tables(f)) /\ Fresh(Tables(f))
         /\ Tables(f).cons = flt[f].cons /\ Tables(f).dom = flt[f].dom
         /\ Tables(f).all = flt[f].all
         /\ flt[f].next \in Nat /\ \A id \in Ids(flt[f].cons) : id < flt[f].next
         /\ Nested => Flat(Tables(f).dom)
<1>1. Tables(f) = TabsOf(flt[f])  BY DEF Tables, TabsOf
<1>2. Fresh(Tables(f)) /\ Tables(f).cons = flt[f].cons /\ Tables(f).dom = flt[f].dom
      /\ Tables(f).all = flt[f].all
  BY DEF Fresh, Tables
<1> QED  BY <1>1, <1>2 DEF RowOK, Row

(* What a call that changes a filter's constraints makes of them.          *)
CallOK(f, e, nx) ==
  /\ Kept(e) /\ nx \in Nat /\ \A id \in Ids(e.cons) : id < nx
  /\ Nested => Flat(e.dom)
  /\ Nested /\ SimpleEdits => Faithful(e, flt[f].dom)

(* Such a call of thread i, for filter f: the tables become those of e.    *)
TableCall(i, f, e, nx) ==
  /\ thr[i] = Idle /\ flt[f].state # "dead"
  /\ flt' = [flt EXCEPT ![f] = [SetTables(f, e) EXCEPT !.next = nx]]
  /\ Tell(i, f, e)
  /\ UNCHANGED <<fa, rqst, tmap>>

(* add_constraints is such a call: the new ids are above those in use.     *)
LEMMA AddCall ==
  ASSUME NEW i, NEW f \in Filters, RowOK(flt[f]), NEW n \in Nat, NEW sh \in [1..n -> Shapes],
         AddConstraints(i, f, sh)
  PROVE  \E e, nx : TableCall(i, f, e, nx) /\ CallOK(f, e, nx)
<1> DEFINE x == flt[f].next
<1>1. PICK cs : cs = [k \in DOMAIN sh |-> [id |-> x + k - 1, types |-> sh[k]]]  OBVIOUS
<1> DEFINE e == AddAll(Tables(f), cs)
<1>2. TableCall(i, f, e, x + Len(sh))  BY <1>1 DEF AddConstraints, TableCall
<1>3. /\ Kept(Tables(f)) /\ Fresh(Tables(f)) /\ Tables(f).cons = flt[f].cons
      /\ Tables(f).dom = flt[f].dom
      /\ x \in Nat /\ \A id \in Ids(flt[f].cons) : id < x
      /\ Nested => Flat(Tables(f).dom)
  BY TablesIs
<1>4. Shapes \subseteq Seq(Types)  BY MatchingAssumption
<1>5. Len(sh) = n /\ DOMAIN sh = 1..n  OBVIOUS
<1> HIDE DEF x
<1>6. /\ cs \in [1..n -> Con] /\ \A k \in 1..n : cs[k].id = x + k - 1 /\ cs[k].types \in Shapes
  <2>1. \A k \in 1..n : x + k - 1 \in Nat /\ sh[k] \in Seq(Types) /\ sh[k] \in Shapes
    BY <1>3, <1>4
  <2> QED  BY <1>1, <1>5, <2>1 DEF Con
<1>7. cs \in Seq(Con) /\ Len(cs) = n
  <2>1. cs \in Seq(Con)  BY <1>6
  <2>2. Len(cs) \in Nat /\ DOMAIN cs = 1..Len(cs)  BY <2>1, LenProperties
  <2>3. DOMAIN cs = 1..n  BY <1>6
  <2> QED  BY <1>6, <2>1
<1>8. Distinct(cs)  BY <1>3, <1>6, <1>7 DEF Distinct
<1>9. Ids(cs) = {cs[k].id : k \in 1..n}  BY <1>7 DEF Ids
<1>10. Ids(cs) \intersect Ids(flt[f].cons) = {}
  <2> SUFFICES ASSUME NEW k \in 1..n, cs[k].id \in Ids(flt[f].cons) PROVE FALSE
    BY <1>9
  <2>1. cs[k].id < x  BY <1>3
  <2> QED  BY <1>3, <1>6, <2>1
<1>11. /\ Kept(e) /\ Ids(e.cons) = Ids(flt[f].cons) \union Ids(cs)
       /\ Flat(Tables(f).dom) => Flat(e.dom)
       /\ Faithful(e, flt[f].dom)
  BY <1>3, <1>6, <1>7, <1>8, <1>10, AddAllIs
<1> HIDE DEF e
<1>12. \A id \in Ids(e.cons) : id < x + n
  <2>1. \A id \in Ids(flt[f].cons) : id \in Nat
    <3>1. flt[f].cons \in Seq(Con)  BY DEF RowOK, Row
    <3>2. \A k \in 1..Len(flt[f].cons) : flt[f].cons[k] \in Con  BY <3>1, ElementOfSeq
    <3> QED  BY <3>2 DEF Ids, Con
  <2>2. \A k \in 1..n : cs[k].id < x + n  BY <1>3, <1>6
  <2> QED  BY <1>3, <1>9, <1>11, <2>1, <2>2
<1>13. CallOK(f, e, x + n)  BY <1>3, <1>11, <1>12 DEF CallOK
<1> QED  BY <1>2, <1>5, <1>13

(* With nx = flt[f].next, the row keeps its next.                          *)
LEMMA SameNext ==
  ASSUME NEW f \in Filters, RowOK(flt[f]), NEW e
  PROVE  [SetTables(f, e) EXCEPT !.next = flt[f].next] = SetTables(f, e)
BY DEF RowOK, Row, SetTables

(* modify_constraints is such a call, whatever it removes and replaces.    *)
LEMMA EditCall ==
  ASSUME NEW i, NEW f \in Filters, RowOK(flt[f]), Edit(i, f)
  PROVE  \E e, nx : TableCall(i, f, e, nx) /\ CallOK(f, e, nx)
<1> DEFINE x == flt[f].next
<1>22. PICK b : b = Tables(f)  OBVIOUS
<1>23. PICK ids, k, sh :
         /\ ids \in EditLists(f) /\ k \in 0..Len(ids) /\ sh \in [1..(Len(ids) - k) -> Shapes]
         /\ ModifyConstraints(i, f, SubSeq(ids, 1, k),
              [j \in 1..(Len(ids) - k) |-> [id |-> ids[k + j], types |-> sh[j]]])
  BY DEF Edit
<1>24. PICK n \in 1..MaxEdits : ids \in [1..n -> ConstraintIds(f)]
  BY <1>23 DEF EditLists
<1>25. \A j, m \in DOMAIN ids : ids[j] = ids[m] => j = m  BY <1>23 DEF EditLists
<1>26. n \in Nat /\ Len(ids) = n  BY <1>24, MatchingAssumption
<1>27. PICK q : q = n - k  OBVIOUS
<1>21. /\ n \in 1..MaxEdits /\ ids \in [1..n -> ConstraintIds(f)]
       /\ k \in 0..n /\ sh \in [1..q -> Shapes]
  BY <1>23, <1>24, <1>26, <1>27
<1>1. /\ \A j, m \in DOMAIN ids : ids[j] = ids[m] => j = m
      /\ ModifyConstraints(i, f, SubSeq(ids, 1, k),
                           [j \in 1..q |-> [id |-> ids[k + j], types |-> sh[j]]])
  BY <1>23, <1>25, <1>26, <1>27
<1>2. n \in Nat /\ k \in Nat /\ q \in Nat /\ q = n - k /\ DOMAIN ids = 1..n
  BY <1>21, <1>26, <1>27
<1>3. PICK del : del = SubSeq(ids, 1, k)  OBVIOUS
<1>4. PICK mod : mod = [j \in 1..q |-> [id |-> ids[k + j], types |-> sh[j]]]  OBVIOUS
<1>28. PICK e : e = Modify(b, del, mod)  OBVIOUS
<1>5. /\ thr[i] = Idle /\ flt[f].state # "dead"
      /\ flt' = [flt EXCEPT ![f] = SetTables(f, e)]
      /\ Tell(i, f, e)
      /\ UNCHANGED <<fa, rqst, tmap>>
  BY <1>1, <1>3, <1>4, <1>22, <1>28 DEF ModifyConstraints
<1>6. TableCall(i, f, e, x)  BY <1>5, SameNext DEF TableCall
<1>7. /\ Kept(b) /\ Fresh(b) /\ b.cons = flt[f].cons
      /\ b.dom = flt[f].dom
      /\ x \in Nat /\ \A id \in Ids(flt[f].cons) : id < x
      /\ Nested => Flat(b.dom)
  BY <1>22, TablesIs
<1> HIDE DEF x
<1>8. Shapes \subseteq Seq(Types)  BY MatchingAssumption
<1>9. ConstraintIds(f) = Ids(b.cons) /\ \A id \in Ids(b.cons) : id \in Nat
  <2>1. b.cons \in Seq(Con)  BY <1>7 DEF Kept, Tabs
  <2>2. DOMAIN b.cons = 1..Len(b.cons) /\ \A j \in 1..Len(b.cons) : b.cons[j] \in Con
    BY <2>1, LenProperties, ElementOfSeq
  <2> QED  BY <1>7, <2>2 DEF ConstraintIds, Ids, Con
<1>10. DOMAIN del = 1..k /\ \A j \in 1..k : del[j] = ids[j] /\ j \in 1..n
  <2>1. del = [j \in 1..k |-> ids[j]]  BY <1>2, <1>3, <1>21
  <2> QED  BY <1>2, <1>21, <2>1
<1>11. DOMAIN mod = 1..q
       /\ \A j \in 1..q : /\ mod[j].id = ids[k + j] /\ k + j \in 1..n /\ mod[j].types = sh[j]
                                /\ mod[j] \in Con /\ sh[j] \in Shapes
  <2>1. \A j \in 1..q : k + j \in 1..n /\ ids[k + j] \in Nat /\ sh[j] \in Shapes /\ sh[j] \in Seq(Types)
    BY <1>2, <1>8, <1>9, <1>21
  <2> QED  BY <1>4, <2>1 DEF Con
<1>12. \A j, m \in 1..n : ids[j] = ids[m] => j = m  BY <1>1, <1>2
<1>13. \A j \in 1..n : ids[j] \in Ids(b.cons)  BY <1>9, <1>21
<1>14. \A j \in 1..k : del[j] \in Ids(b.cons)  BY <1>10, <1>13
<1>15. \A j, m \in 1..k : del[j] = del[m] => j = m  BY <1>10, <1>12
<1>16. \A j \in 1..q : mod[j] \in Con /\ mod[j].types \in Shapes /\ mod[j].id \in Ids(b.cons)
  BY <1>11, <1>13
<1>17. \A j \in 1..k, m \in 1..q : del[j] # mod[m].id
  <2> SUFFICES ASSUME NEW j \in 1..k, NEW m \in 1..q PROVE ids[j] # ids[k + m]
    BY <1>10, <1>11
  <2>1. j \in 1..n /\ k + m \in 1..n /\ j # k + m  BY <1>2, <1>10, <1>11
  <2> QED  BY <1>12, <2>1
<1>18. /\ Kept(e) /\ Ids(e.cons) \subseteq Ids(b.cons)
       /\ Nested /\ Flat(b.dom) =>
            /\ Flat(e.dom)
            /\ Fresh(b) /\ (q = 0 \/ (k = 0 /\ q = 1 /\ Ordered(mod[1].types)))
               => Faithful(e, b.dom)
  <2>1. k \in Nat /\ q \in Nat  BY <1>2
  <2>2. Kept(b)  BY <1>7
  <2>3. DOMAIN del = 1..k  BY <1>10
  <2>4. DOMAIN mod = 1..q  BY <1>11
  <2>5. LET g == Modify(b, del, mod)
        IN  /\ Kept(g) /\ Ids(g.cons) \subseteq Ids(b.cons)
            /\ Nested /\ Flat(b.dom) =>
                 /\ Flat(g.dom)
                 /\ Fresh(b) /\ (q = 0 \/ (k = 0 /\ q = 1 /\ Ordered(mod[1].types)))
                    => Faithful(g, b.dom)
    BY <2>1, <2>2, <2>3, <2>4, <1>14, <1>15, <1>16, <1>17, ModifyIs
  <2> QED  BY <2>5, <1>28
<1>19. SimpleEdits => (q = 0 \/ (k = 0 /\ q = 1 /\ Ordered(mod[1].types)))
  <2> SUFFICES ASSUME SimpleEdits, q # 0 PROVE k = 0 /\ q = 1 /\ Ordered(mod[1].types)
    OBVIOUS
  <2>1. n = 1  BY <1>21 DEF SimpleEdits
  <2>2. k = 0 /\ q = 1 /\ 1 \in 1..q  BY <1>2, <1>21, <2>1
  <2>3. mod[1].types \in Shapes  BY <1>16, <2>2
  <2> QED  BY <2>2, <2>3 DEF SimpleEdits
<1>20. CallOK(f, e, x)  BY <1>7, <1>18, <1>19 DEF CallOK
<1> QED  BY <1>6, <1>20

(* So is the removal of all constraints, also by the garbage collector.    *)
LEMMA RemoveAllCall ==
  ASSUME NEW f \in Filters, RowOK(flt[f])
  PROVE  CallOK(f, RemoveAll(Tables(f)), flt[f].next)
<1> DEFINE b == Tables(f)  e == RemoveAll(b)
<1>1. /\ Kept(b) /\ Fresh(b) /\ b.cons = flt[f].cons /\ b.dom = flt[f].dom
      /\ flt[f].next \in Nat /\ \A id \in Ids(flt[f].cons) : id < flt[f].next
      /\ Nested => Flat(b.dom)
  BY TablesIs
<1> HIDE DEF b
<1>2. /\ Kept(e) /\ Ids(e.cons) \subseteq Ids(b.cons)
      /\ Nested /\ Flat(b.dom) =>
           /\ Flat(e.dom)
           /\ Fresh(b) => Faithful(e, b.dom)
  BY <1>1, RemoveAllIs
<1> HIDE DEF e
<1>3. CallOK(f, e, flt[f].next)  BY <1>1, <1>2 DEF CallOK
<1> QED  BY <1>3 DEF e, b

(* Every call of a client that changes constraints is such a call.         *)
LEMMA CallIs ==
  ASSUME NEW i, NEW f \in Filters, RowOK(flt[f]),
         AddSome(i, f) \/ Edit(i, f) \/ RemoveAllConstraints(i, f)
  PROVE  \E e, nx : TableCall(i, f, e, nx) /\ CallOK(f, e, nx)
<1>1. CASE AddSome(i, f)
  <2>1. PICK n, sh : /\ n \in 1..(MaxIds[f] + 1 - flt[f].next) /\ sh \in [1..n -> Shapes]
                     /\ AddConstraints(i, f, sh)
    BY <1>1 DEF AddSome
  <2>2. MaxIds[f] \in Nat /\ flt[f].next \in Nat  BY MatchingAssumption DEF RowOK, Row
  <2>3. n \in Nat  BY <2>1, <2>2
  <2> QED  BY <2>1, <2>3, AddCall
<1>2. CASE Edit(i, f)  BY <1>2, EditCall
<1>3. CASE RemoveAllConstraints(i, f)
  <2> DEFINE e == RemoveAll(Tables(f))
  <2>1. TableCall(i, f, e, flt[f].next)  BY <1>3, SameNext DEF RemoveAllConstraints, TableCall
  <2>2. CallOK(f, e, flt[f].next)  BY RemoveAllCall
  <2> HIDE DEF e
  <2> QED  BY <2>1, <2>2
<1> QED  BY <1>1, <1>2, <1>3

-----------------------------------------------------------------------------
(* The start                                                               *)

(* Whether a row is sound depends on its tables only.                      *)
LEMMA RowIs ==
  ASSUME NEW x, x.cons \in Seq(Con), NEW e, Kept(e),
         x.cons = e.cons, x.all = e.all, x.dom = e.dom
  PROVE  Kept(TabsOf(x))
<1>1. e \in Tabs /\ Sound(e) /\ Distinct(e.cons)
      /\ \A k \in 1..Len(e.cons) : e.cons[k].types \in Kinds
  BY DEF Kept
<1>2. TabsOf(x) \in Tabs /\ TabsOf(x).cons = e.cons /\ TabsOf(x).all = e.all
      /\ TabsOf(x).dom = e.dom
  BY <1>1 DEF TabsOf, Tabs, NoChange
<1>3. Sound(TabsOf(x))  BY <1>1, <1>2 DEF Sound
<1> QED  BY <1>1, <1>2, <1>3 DEF Kept

(* What is told of a type is a number.                                     *)
LEMMA NetIs ==
  ASSUME NEW e \in Tabs
  PROVE  NetAdd(e) \in [Types -> Nat] /\ NetRem(e) \in [Types -> Nat]
BY DEF NetAdd, NetRem, Tabs

(* An idle thread has nothing to tell.                                     *)
LEMMA IdleIs ==
  /\ Idle \in Doing /\ Idle.f = NoFilter /\ Idle.todo = {}
  /\ NoFilter \notin Filters
BY MatchingAssumption DEF Idle, Doing, NoChange

(* A new filter is in order.                                               *)
LEMMA NewRow == RowOK(NewFilter)
<1>1. \A t \in Types : Uses(<<>>, t) = 0  BY UsesEmpty
<1> DEFINE e == TabsOf(NewFilter)
<1>2. /\ e \in Tabs /\ e.cons = <<>> /\ e.dom = {} /\ e.all = NoChange
  BY DEF TabsOf, NewFilter, Tabs, NoChange
<1>3. Sound(e)
  <2>1. \A t \in Types : NoChange[t] = 0  BY DEF NoChange
  <2>2. Covers(NoChange, {})  BY <2>1 DEF Covers, Used
  <2> QED  BY <1>1, <1>2, <2>1, <2>2 DEF Sound
<1>4. Len(e.cons) = 0  BY <1>2
<1> HIDE DEF e
<1>5. Kept(e)  BY <1>2, <1>3, <1>4 DEF Kept, Distinct
<1>6. NewFilter \in Row  BY DEF NewFilter, Row, NoChange
<1>7. Ids(<<>>) = {}  BY DEF Ids
<1>8. Flat({})  BY DEF Flat
<1> QED  BY <1>5, <1>6, <1>7, <1>8 DEF RowOK, NewFilter, e

(* The invariant holds at the start.                                       *)
LEMMA InitMap ==
  ASSUME Init PROVE MapInv
<1>1. Types1
  <2>1. flt \in [Filters -> Row]  BY NewRow DEF Init, RowOK
  <2>2. thr \in [Threads -> Doing]  BY IdleIs DEF Init
  <2> QED  BY <2>1, <2>2 DEF Init, Types1
<1>2. RowsOK  BY NewRow DEF Init, RowsOK
<1>3. Subscribed  BY DEF Init, Subscribed, Entry
<1>4. Held  BY DEF Init, Held, NewFilter
<1>5. ThreadsOK  BY IdleIs DEF Init, ThreadsOK, Telling
<1>6. Settled  BY IdleIs DEF Init, Settled, Telling, Due, Entry
<1> QED  BY <1>1, <1>2, <1>3, <1>4, <1>5, <1>6 DEF MapInv

-----------------------------------------------------------------------------
(* Steps: a filter changes                                                 *)

(* A call that changes a filter's constraints, and sets out to tell.       *)
LEMMA TableKeeps ==
  ASSUME MapInv, NEW i \in Threads, NEW f \in Filters, NEW e, NEW nx,
         TableCall(i, f, e, nx), CallOK(f, e, nx)
  PROVE  MapInv'
<1>1. PICK x : x = [SetTables(f, e) EXCEPT !.next = nx]  OBVIOUS
<1>2. flt[f] \in Row /\ flt \in [Filters -> Row]  BY DEF MapInv, Types1
<1>3. Kept(e) /\ e \in Tabs  BY DEF CallOK, Kept
<1>4. /\ x \in Row /\ x.cons = e.cons /\ x.all = e.all /\ x.dom = e.dom /\ x.next = nx
      /\ x.cbs = flt[f].cbs /\ x.state = flt[f].state /\ x.cons \in Seq(Con)
  BY <1>1, <1>2, <1>3 DEF CallOK, SetTables, Row, Tabs
<1>5. RowOK(x)  BY <1>3, <1>4, RowIs DEF RowOK, CallOK
<1>6. flt' = [flt EXCEPT ![f] = x]  BY <1>1 DEF TableCall
<1>7. \A g \in Filters : flt'[g] = IF g = f THEN x ELSE flt[g]  BY <1>2, <1>6
<1>8. PICK u : u = IF HasNews(e) /\ flt[f].cbs # {}
                     THEN [f |-> f, add |-> NetAdd(e), rem |-> NetRem(e), todo |-> flt[f].cbs]
                     ELSE Idle
  OBVIOUS
<1>9. /\ thr' = [thr EXCEPT ![i] = u] /\ thr[i] = Idle
      /\ raced' = IF HasNews(e) /\ InFlight(f) THEN raced \union {f} ELSE raced
      /\ fa' = fa /\ rqst' = rqst /\ tmap' = tmap
  BY <1>8 DEF TableCall, Tell
<1>10. thr \in [Threads -> Doing] /\ raced \subseteq Filters  BY DEF MapInv, Types1
<1>11. flt[f].cbs \subseteq Holders  BY <1>2 DEF Row
<1>12. u \in Doing  BY <1>3, <1>8, <1>11, NetIs, IdleIs DEF Doing
<1>13. \A j \in Threads : thr'[j] = IF j = i THEN u ELSE thr[j]  BY <1>9, <1>10
<1>14. Types1'
  <2>1. (flt \in [Filters -> Row])'  BY <1>2, <1>4, <1>6
  <2>2. (thr \in [Threads -> Doing])'  BY <1>9, <1>10, <1>12
  <2>3. (raced \subseteq Filters)'  BY <1>9, <1>10
  <2> QED  BY <1>9, <2>1, <2>2, <2>3 DEF MapInv, Types1
<1>15. RowsOK'  BY <1>5, <1>7 DEF MapInv, RowsOK
<1>16. Subscribed'  BY <1>9 DEF MapInv, Subscribed
<1>17. \A g \in Filters : flt'[g].cbs = flt[g].cbs /\ flt'[g].state = flt[g].state
  BY <1>4, <1>7
<1>18. \A h \in Holders : DeadAt(h)' = DeadAt(h) /\ fa[h] \subseteq Filters
  <2> SUFFICES ASSUME NEW h \in Holders PROVE DeadAt(h)' = DeadAt(h) /\ fa[h] \subseteq Filters
    OBVIOUS
  <2>1. fa[h] \subseteq Filters  BY DEF MapInv, Types1
  <2> QED  BY <1>9, <1>17, <2>1 DEF DeadAt
<1>19. Held'  BY <1>9, <1>17, <1>18 DEF MapInv, Held
<1>20. thr[i].f = NoFilter /\ thr[i].todo = {} /\ NoFilter \notin Filters  BY <1>9, IdleIs
<1>21. \A g \in Filters, j \in Threads : \A h : g # f => (Telling(j, g, h)' <=> Telling(j, g, h))
  <2> SUFFICES ASSUME NEW g \in Filters, g # f, NEW j \in Threads, NEW h
               PROVE  Telling(j, g, h)' <=> Telling(j, g, h)
    OBVIOUS
  <2>1. u.f # g  BY <1>8, IdleIs
  <2> QED  BY <1>13, <1>20, <2>1 DEF Telling
<1>22. HasNews(e) /\ f \notin raced' => \A j \in Threads : thr[j].f # f
  BY <1>9 DEF InFlight
<1>23. ~HasNews(e) \/ flt[f].cbs = {} => thr' = thr /\ u = Idle  BY <1>8, <1>9, <1>10
<1>24. ThreadsOK'
  <2>1. ThreadsOK  BY DEF MapInv
  <2>2. \A j \in Threads : thr'[j].todo # {} => thr'[j].f \in Filters
    BY <1>8, <1>13, <1>20, <2>1, IdleIs DEF ThreadsOK
  <2>3. ASSUME NEW g \in Filters, g \notin raced', NEW j \in Threads, NEW k \in Threads,
               thr'[j].f = g, thr'[k].f = g
        PROVE  j = k
    <3>1. g \notin raced  BY <1>9, <2>3
    <3>2. CASE g # f
      <4>1. u.f # g  BY <1>8, <3>2, IdleIs
      <4> QED  BY <1>13, <2>1, <2>3, <3>1, <4>1 DEF ThreadsOK
    <3>3. CASE g = f /\ HasNews(e)
      <4>1. \A m \in Threads : m # i => thr'[m].f # f  BY <1>13, <1>22, <2>3, <3>3
      <4> QED  BY <2>3, <3>3, <4>1
    <3>4. CASE g = f /\ ~HasNews(e)
      BY <1>23, <2>1, <2>3, <3>1, <3>4 DEF ThreadsOK
    <3> QED  BY <3>2, <3>3, <3>4
  <2>4. ASSUME NEW g \in Filters, g \notin raced', NEW j \in Threads, NEW h \in Holders,
               Telling(j, g, h)'
        PROVE  h \in flt'[g].cbs
    <3>1. g \notin raced  BY <1>9, <2>4
    <3>2. CASE Telling(j, g, h)
      BY <1>17, <2>1, <3>1, <3>2 DEF ThreadsOK
    <3>3. CASE ~Telling(j, g, h)
      <4>1. j = i  BY <1>13, <2>4, <3>3 DEF Telling
      <4>2. g = f  BY <1>21, <2>4, <3>3
      <4>3. h \in u.todo  BY <1>13, <2>4, <4>1 DEF Telling
      <4> QED  BY <1>8, <1>17, <4>2, <4>3, IdleIs
    <3> QED  BY <3>2, <3>3
  <2> QED  BY <2>2, <2>3, <2>4 DEF ThreadsOK
<1>25. ASSUME Nested, SimpleEdits PROVE Settled'
  <2>1. Settled  BY <1>25 DEF MapInv
  <2>2. Faithful(e, flt[f].dom)  BY <1>25 DEF CallOK
  <2>3. SUFFICES ASSUME NEW h \in Holders, NEW g \in Filters, g \notin raced', DeadAt(h)' = {}
        PROVE  /\ g \notin BeingTold(h)' =>
                    \A t \in Types : tmap'[h][t][g] = Entry(Due(h, g)', t)
               /\ \A j \in Threads : Telling(j, g, h)' =>
                    \A t \in Types :
                      After(tmap'[h][t][g], thr'[j].rem[t], thr'[j].add[t]) = Entry(Due(h, g)', t)
    BY DEF Settled
  <2>4. g \notin raced /\ DeadAt(h) = {}  BY <1>9, <1>18, <2>3
  <2>5. /\ g \notin BeingTold(h) => \A t \in Types : tmap[h][t][g] = Entry(Due(h, g), t)
        /\ \A j \in Threads : Telling(j, g, h) =>
             \A t \in Types :
               After(tmap[h][t][g], thr[j].rem[t], thr[j].add[t]) = Entry(Due(h, g), t)
    BY <2>1, <2>4 DEF Settled
  <2>6. /\ g \in BeingTold(h)' <=> \E j \in Threads : Telling(j, g, h)'
        /\ g \in BeingTold(h) <=> \E j \in Threads : Telling(j, g, h)
    BY DEF BeingTold, Telling
  <2>7. CASE g # f
    <3>1. Due(h, g)' = Due(h, g)  BY <1>7, <1>9, <2>7 DEF Due
    <3>2. \A j \in Threads : Telling(j, g, h)' => thr'[j] = thr[j] /\ Telling(j, g, h)
      <4> SUFFICES ASSUME NEW j \in Threads, Telling(j, g, h)' PROVE thr'[j] = thr[j] /\ Telling(j, g, h)
        OBVIOUS
      <4>1. u.f # g  BY <1>8, <2>7, IdleIs
      <4> QED  BY <1>13, <1>21, <2>7, <4>1 DEF Telling
    <3>3. g \notin BeingTold(h)' => g \notin BeingTold(h)  BY <1>21, <2>6, <2>7
    <3> QED  BY <1>9, <2>5, <3>1, <3>2, <3>3
  <2>8. CASE g = f /\ ~HasNews(e)
    <3>1. thr' = thr  BY <1>23, <2>8
    <3>2. \A t \in Types : Entry(Due(h, g), t) = Entry(Due(h, g)', t)
      <4> SUFFICES ASSUME NEW t \in Types PROVE Entry(Due(h, g), t) = Entry(Due(h, g)', t)
        OBVIOUS
      <4>1. NetRem(e)[t] = 0 /\ NetAdd(e)[t] = 0  BY <2>8 DEF HasNews, NoChange
      <4>2. Entry(flt[f].dom, t) = Entry(e.dom, t)
        BY <2>2, <4>1 DEF Faithful, After, Entry
      <4>3. flt'[f].dom = e.dom  BY <1>4, <1>7
      <4> QED  BY <1>9, <2>8, <4>2, <4>3 DEF Due
    <3>3. BeingTold(h)' = BeingTold(h)  BY <3>1 DEF BeingTold
    <3>4. \A j \in Threads : Telling(j, g, h)' => Telling(j, g, h)  BY <3>1 DEF Telling
    <3> QED  BY <1>9, <2>5, <3>1, <3>2, <3>3, <3>4
  <2>9. CASE g = f /\ HasNews(e)
    <3>1. \A j \in Threads : thr[j].f # f  BY <1>22, <2>3, <2>9
    <3>2. f \notin BeingTold(h)  BY <3>1 DEF BeingTold
    <3>3. \A t \in Types : tmap[h][t][f] = Entry(Due(h, f), t)  BY <2>5, <2>9, <3>2
    <3>4. h \in flt[f].cbs <=> f \in fa[h]  BY <2>4 DEF MapInv, Held
    <3>5. flt'[f].dom = e.dom  BY <1>4, <1>7
    <3>6. \A j \in Threads : Telling(j, f, h)' => j = i /\ h \in flt[f].cbs
      <4> SUFFICES ASSUME NEW j \in Threads, Telling(j, f, h)' PROVE j = i /\ h \in flt[f].cbs
        OBVIOUS
      <4>1. j = i  BY <1>13, <3>1 DEF Telling
      <4>2. h \in u.todo  BY <1>13, <4>1 DEF Telling
      <4> QED  BY <1>8, <4>1, <4>2, IdleIs
    <3>7. CASE h \in flt[f].cbs
      <4>1. u = [f |-> f, add |-> NetAdd(e), rem |-> NetRem(e), todo |-> flt[f].cbs]
        BY <1>8, <2>9, <3>7
      <4>2. Telling(i, f, h)'  BY <1>13, <3>7, <4>1 DEF Telling
      <4>3. Due(h, f) = flt[f].dom /\ Due(h, f)' = e.dom  BY <1>9, <3>4, <3>5, <3>7 DEF Due
      <4>4. \A t \in Types : After(Entry(flt[f].dom, t), NetRem(e)[t], NetAdd(e)[t]) = Entry(e.dom, t)
        BY <2>2 DEF Faithful
      <4>5. thr'[i].rem = NetRem(e) /\ thr'[i].add = NetAdd(e)  BY <1>13, <4>1
      <4> QED  BY <1>9, <2>6, <2>9, <3>3, <3>6, <4>2, <4>3, <4>4, <4>5
    <3>8. CASE h \notin flt[f].cbs
      <4>1. Due(h, f) = {} /\ Due(h, f)' = {}  BY <1>9, <3>4, <3>8 DEF Due
      <4> QED  BY <1>9, <2>9, <3>3, <3>6, <3>8, <4>1
    <3> QED  BY <3>7, <3>8
  <2> QED  BY <2>7, <2>8, <2>9
<1> QED  BY <1>14, <1>15, <1>16, <1>19, <1>24, <1>25 DEF MapInv

-----------------------------------------------------------------------------
(* Steps: a holder is told                                                 *)

(* w is the map m after an update for h and f.                             *)
Updated(w, m, h, f, add, rem) ==
  /\ w \in [Holders -> [Types -> [Filters \union {NoFilter} -> Nat]]]
  /\ \A k \in Holders, t \in Types, g \in Filters \union {NoFilter} :
       w[k][t][g] = IF k = h /\ g = f THEN After(m[h][t][f], rem[t], add[t]) ELSE m[k][t][g]

(* An update changes what the map lists for one holder and one filter.     *)
LEMMA MapUpdateIs ==
  ASSUME NEW m \in [Holders -> [Types -> [Filters \union {NoFilter} -> Nat]]],
         NEW h \in Holders, NEW f \in Filters \union {NoFilter},
         NEW add \in [Types -> Nat], NEW rem \in [Types -> Nat]
  PROVE  Updated(Update(m, h, f, add, rem), m, h, f, add, rem)
<1>1. PICK p : p = [t \in Types |->
         [m[h][t] EXCEPT ![f] = (IF m[h][t][f] > rem[t] THEN m[h][t][f] - rem[t] ELSE 0) + add[t]]]
  OBVIOUS
<1>2. Update(m, h, f, add, rem) = [m EXCEPT ![h] = p]
  BY <1>1 DEF Update
<1>3. \A t \in Types : /\ p[t] \in [Filters \union {NoFilter} -> Nat]
                       /\ \A g \in Filters \union {NoFilter} :
                            p[t][g] = IF g = f THEN After(m[h][t][f], rem[t], add[t]) ELSE m[h][t][g]
  <2> SUFFICES ASSUME NEW t \in Types
               PROVE  /\ p[t] \in [Filters \union {NoFilter} -> Nat]
                      /\ \A g \in Filters \union {NoFilter} :
                           p[t][g] = IF g = f THEN After(m[h][t][f], rem[t], add[t]) ELSE m[h][t][g]
    OBVIOUS
  <2>1. m[h][t] \in [Filters \union {NoFilter} -> Nat] /\ m[h][t][f] \in Nat
        /\ rem[t] \in Nat /\ add[t] \in Nat
    <3>1. m[h] \in [Types -> [Filters \union {NoFilter} -> Nat]]  OBVIOUS
    <3>2. m[h][t] \in [Filters \union {NoFilter} -> Nat]  BY <3>1
    <3> QED  BY <3>2
  <2>2. p[t] = [m[h][t] EXCEPT ![f] = After(m[h][t][f], rem[t], add[t])]  BY <1>1 DEF After
  <2>3. After(m[h][t][f], rem[t], add[t]) \in Nat  BY <2>1 DEF After
  <2> QED  BY <2>1, <2>2, <2>3
<1>4. p \in [Types -> [Filters \union {NoFilter} -> Nat]]  BY <1>1, <1>3
<1>5. \A k \in Holders : [m EXCEPT ![h] = p][k] = IF k = h THEN p ELSE m[k]  OBVIOUS
<1>6. [m EXCEPT ![h] = p] \in [Holders -> [Types -> [Filters \union {NoFilter} -> Nat]]]
  BY <1>4
<1>7. PICK w : w = Update(m, h, f, add, rem)  OBVIOUS
<1>8. /\ w \in [Holders -> [Types -> [Filters \union {NoFilter} -> Nat]]]
      /\ \A k \in Holders : w[k] = IF k = h THEN p ELSE m[k]
  BY <1>2, <1>5, <1>6, <1>7
<1>9. \A k \in Holders, t \in Types, g \in Filters \union {NoFilter} :
        w[k][t][g] = IF k = h /\ g = f THEN After(m[h][t][f], rem[t], add[t]) ELSE m[k][t][g]
  BY <1>3, <1>8
<1> QED  BY <1>7, <1>8, <1>9 DEF Updated

(* A list with each type of a set once.                                    *)
LEMMA OnceIs ==
  ASSUME NEW S
  PROVE  /\ Once(S) \in [Types -> Nat] /\ NoChange \in [Types -> Nat]
         /\ \A t \in Types : Once(S)[t] = Entry(S, t) /\ NoChange[t] = 0
BY DEF Once, Plus, NoChange, Entry

(* One holder is told what is new of a filter.                             *)
LEMMA PropagateKeeps ==
  ASSUME MapInv, NEW i \in Threads, NEW h \in Holders, PropagateSchange(i, h)
  PROVE  MapInv'
<1>1. PICK u : u = thr[i]  OBVIOUS
<1>2. PICK f : f = u.f  OBVIOUS
<1>3. PICK v : v = IF u.todo = {h} THEN Idle ELSE [u EXCEPT !.todo = @ \ {h}]  OBVIOUS
<1>4. /\ h \in u.todo
      /\ tmap' = Update(tmap, h, f, u.add, u.rem)
      /\ thr' = [thr EXCEPT ![i] = v]
      /\ flt' = flt /\ fa' = fa /\ rqst' = rqst /\ raced' = raced
  BY <1>1, <1>2, <1>3 DEF PropagateSchange
<1>5. thr \in [Threads -> Doing] /\ u \in Doing  BY <1>1 DEF MapInv, Types1
<1>6. f \in Filters  BY <1>1, <1>2, <1>4 DEF MapInv, ThreadsOK
<1>7. v \in Doing  BY <1>3, <1>5, IdleIs DEF Doing
<1>8. /\ v.f \in {f, NoFilter} /\ v.todo = u.todo \ {h}
      /\ v.todo # {} => v.f = f /\ v.add = u.add /\ v.rem = u.rem
  BY <1>2, <1>3, <1>5, IdleIs DEF Doing
<1>9. \A j \in Threads : thr'[j] = IF j = i THEN v ELSE thr[j]  BY <1>4, <1>5
<1>10. /\ tmap \in [Holders -> [Types -> [Filters \union {NoFilter} -> Nat]]]
       /\ u.add \in [Types -> Nat] /\ u.rem \in [Types -> Nat]
  BY <1>5 DEF MapInv, Types1, Doing
<1>11. /\ tmap' \in [Holders -> [Types -> [Filters \union {NoFilter} -> Nat]]]
       /\ \A k \in Holders, t \in Types, g \in Filters \union {NoFilter} :
            tmap'[k][t][g] = IF k = h /\ g = f THEN After(tmap[h][t][f], u.rem[t], u.add[t])
                                               ELSE tmap[k][t][g]
  <2>1. f \in Filters \union {NoFilter}  BY <1>6
  <2>2. Updated(Update(tmap, h, f, u.add, u.rem), tmap, h, f, u.add, u.rem)
    BY <1>10, <2>1, MapUpdateIs
  <2>3. Updated(tmap', tmap, h, f, u.add, u.rem)  BY <1>4, <2>2
  <2> QED  BY <2>3 DEF Updated
<1>12. Types1'
  <2>1. (thr \in [Threads -> Doing])'  BY <1>4, <1>5, <1>7
  <2> QED  BY <1>4, <1>11, <2>1 DEF MapInv, Types1
<1>13. RowsOK'  BY <1>4 DEF MapInv, RowsOK
<1>14. Subscribed'
  <2>1. \A k \in Holders, t \in Types : tmap'[k][t][NoFilter] = tmap[k][t][NoFilter]
    BY <1>6, <1>11, IdleIs
  <2> QED  BY <1>4, <2>1 DEF MapInv, Subscribed
<1>15. Held' /\ \A k : DeadAt(k)' = DeadAt(k)  BY <1>4 DEF MapInv, Held, DeadAt
<1>16. \A j \in Threads : \A g \in Filters : \A k :
         /\ Telling(j, g, k)' <=> Telling(j, g, k) /\ ~(j = i /\ g = f /\ k = h)
         /\ Telling(j, g, k)' => thr'[j].add = thr[j].add /\ thr'[j].rem = thr[j].rem
  <2> SUFFICES ASSUME NEW j \in Threads, NEW g \in Filters, NEW k
               PROVE  /\ Telling(j, g, k)' <=> Telling(j, g, k) /\ ~(j = i /\ g = f /\ k = h)
                      /\ Telling(j, g, k)' => thr'[j].add = thr[j].add /\ thr'[j].rem = thr[j].rem
    OBVIOUS
  <2>1. CASE j # i  BY <1>9, <2>1 DEF Telling
  <2>2. CASE j = i
    <3>1. thr'[j] = v /\ thr[j] = u  BY <1>1, <1>9, <2>2
    <3>2. Telling(j, g, k)' <=> v.f = g /\ k \in v.todo  BY <3>1 DEF Telling
    <3>3. Telling(j, g, k) <=> u.f = g /\ k \in u.todo  BY <3>1 DEF Telling
    <3> QED  BY <1>2, <1>8, <2>2, <3>1, <3>2, <3>3
  <2> QED  BY <2>1, <2>2
<1>17. ThreadsOK'
  <2>1. ThreadsOK  BY DEF MapInv
  <2>2. \A j \in Threads : thr'[j].todo # {} => thr'[j].f \in Filters
    BY <1>6, <1>8, <1>9, <2>1 DEF ThreadsOK
  <2>3. \A j \in Threads, g \in Filters : thr'[j].f = g => thr[j].f = g
    BY <1>1, <1>2, <1>8, <1>9, IdleIs
  <2>4. \A g \in Filters \ raced : \A j, k \in Threads : thr'[j].f = g /\ thr'[k].f = g => j = k
    BY <2>1, <2>3 DEF ThreadsOK
  <2>5. \A g \in Filters \ raced : \A j \in Threads, k \in Holders :
          Telling(j, g, k)' => k \in flt[g].cbs
    BY <1>16, <2>1 DEF ThreadsOK
  <2> QED  BY <1>4, <2>2, <2>4, <2>5 DEF ThreadsOK
<1>18. ASSUME Nested, SimpleEdits PROVE Settled'
  <2>1. Settled  BY <1>18 DEF MapInv
  <2>2. SUFFICES ASSUME NEW k \in Holders, NEW g \in Filters, g \notin raced', DeadAt(k)' = {}
        PROVE  /\ g \notin BeingTold(k)' =>
                    \A t \in Types : tmap'[k][t][g] = Entry(Due(k, g)', t)
               /\ \A j \in Threads : Telling(j, g, k)' =>
                    \A t \in Types :
                      After(tmap'[k][t][g], thr'[j].rem[t], thr'[j].add[t]) = Entry(Due(k, g)', t)
    BY DEF Settled
  <2>3. Due(k, g)' = Due(k, g)  BY <1>4 DEF Due
  <2>4. g \notin raced /\ DeadAt(k) = {}  BY <1>4, <1>15, <2>2
  <2>5. /\ g \notin BeingTold(k) => \A t \in Types : tmap[k][t][g] = Entry(Due(k, g), t)
        /\ \A j \in Threads : Telling(j, g, k) =>
             \A t \in Types :
               After(tmap[k][t][g], thr[j].rem[t], thr[j].add[t]) = Entry(Due(k, g), t)
    BY <2>1, <2>4 DEF Settled
  <2>6. /\ g \in BeingTold(k)' <=> \E j \in Threads : Telling(j, g, k)'
        /\ g \in BeingTold(k) <=> \E j \in Threads : Telling(j, g, k)
    BY DEF BeingTold, Telling
  <2>7. CASE ~(k = h /\ g = f)
    <3>1. \A t \in Types : tmap'[k][t][g] = tmap[k][t][g]  BY <1>11, <2>7
    <3>2. \A j \in Threads : Telling(j, g, k)' <=> Telling(j, g, k)  BY <1>16, <2>7
    <3> QED  BY <1>16, <2>3, <2>5, <2>6, <3>1, <3>2
  <2>8. CASE k = h /\ g = f
    <3>1. Telling(i, f, h)  BY <1>1, <1>2, <1>4 DEF Telling
    <3>2. \A j \in Threads : ~Telling(j, f, h)'
      <4>1. \A j \in Threads : Telling(j, f, h) => j = i
        BY <1>6, <2>4, <2>8, <3>1 DEF MapInv, ThreadsOK, Telling
      <4> QED  BY <1>6, <1>16, <4>1
    <3>3. \A t \in Types : tmap'[h][t][f] = Entry(Due(h, f), t)
      BY <1>1, <1>6, <1>11, <2>5, <2>8, <3>1
    <3> QED  BY <2>3, <2>8, <3>2, <3>3
  <2> QED  BY <2>7, <2>8
<1> QED  BY <1>12, <1>13, <1>14, <1>15, <1>17, <1>18 DEF MapInv

-----------------------------------------------------------------------------
(* Steps: a filter is collected                                            *)

(* A filter that nobody holds, or that is destroyed for those who do, and  *)
(* about which nobody is being told.                                       *)
LEMMA CollectKeeps ==
  ASSUME MapInv, NEW i \in Threads, NEW f \in Filters, NEW x, RowOK(x), x.cbs = {},
         NEW u \in Doing, u.todo = {}, thr[i].todo = {},
         x.state = "dead" \/ (x.state # "dead" /\ flt[f].state # "dead" /\ flt[f].cbs = {}),
         flt' = [flt EXCEPT ![f] = x], thr' = [thr EXCEPT ![i] = u],
         raced \subseteq raced', raced' \subseteq Filters,
         fa' = fa /\ rqst' = rqst /\ tmap' = tmap,
         f \notin raced' => \A j \in Threads, h \in Holders : ~Telling(j, f, h),
         \A g \in Filters \ raced' : \A j, k \in Threads : thr'[j].f = g /\ thr'[k].f = g => j = k
  PROVE  MapInv'
<1>1. /\ flt \in [Filters -> Row] /\ thr \in [Threads -> Doing] /\ x \in Row
  BY DEF MapInv, Types1, RowOK
<1>2. \A g \in Filters : flt'[g] = IF g = f THEN x ELSE flt[g]  BY <1>1
<1>3. \A j \in Threads : thr'[j] = IF j = i THEN u ELSE thr[j]  BY <1>1
<1>4. Types1'
  <2>1. (flt \in [Filters -> Row])'  BY <1>1
  <2>2. (thr \in [Threads -> Doing])'  BY <1>1
  <2> QED  BY <2>1, <2>2 DEF MapInv, Types1
<1>5. RowsOK'  BY <1>2 DEF MapInv, RowsOK
<1>6. Subscribed'  BY DEF MapInv, Subscribed
<1>7. \A h \in Holders : fa[h] \subseteq Filters  BY DEF MapInv, Types1
<1>8. Held  BY DEF MapInv
<1>9. \A h \in Holders : DeadAt(h)' = {} => DeadAt(h) = {} /\ f \notin fa[h]
  <2> SUFFICES ASSUME NEW h \in Holders, DeadAt(h)' = {}
               PROVE  DeadAt(h) = {} /\ f \notin fa[h]
    OBVIOUS
  <2>1. \A g \in fa[h] : flt'[g].state # "dead"  BY DEF DeadAt
  <2>2. \A g \in fa[h] : g # f => flt[g].state # "dead"  BY <1>2, <1>7, <2>1
  <2>3. CASE x.state = "dead"
    <3>1. f \notin fa[h]  BY <1>2, <2>1, <2>3
    <3> QED  BY <2>2, <3>1 DEF DeadAt
  <2>4. CASE x.state # "dead" /\ flt[f].state # "dead" /\ flt[f].cbs = {}
    <3>1. DeadAt(h) = {}  BY <2>2, <2>4 DEF DeadAt
    <3> QED  BY <1>8, <2>4, <3>1 DEF Held
  <2> QED  BY <2>3, <2>4
<1>10. Held'
  <2> SUFFICES ASSUME NEW h \in Holders, NEW g \in Filters
               PROVE  /\ h \in flt'[g].cbs => g \in fa[h] /\ flt'[g].state # "dead"
                      /\ DeadAt(h)' = {} /\ g \in fa[h] => h \in flt'[g].cbs
    BY DEF Held
  <2> QED  BY <1>2, <1>8, <1>9 DEF Held
<1>11. \A j \in Threads : \A g, h :
         /\ Telling(j, g, h)' <=> Telling(j, g, h)
         /\ Telling(j, g, h)' => thr'[j] = thr[j]
  BY <1>3 DEF Telling
<1>12. ThreadsOK'
  <2>1. ThreadsOK  BY DEF MapInv
  <2>2. \A j \in Threads : thr'[j].todo # {} => thr'[j].f \in Filters
    BY <1>3, <2>1 DEF ThreadsOK
  <2>3. ASSUME NEW g \in Filters, g \notin raced', NEW j \in Threads, NEW h \in Holders,
               Telling(j, g, h)'
        PROVE  h \in flt'[g].cbs
    <3>1. g # f /\ g \notin raced /\ Telling(j, g, h)  BY <1>11, <2>3
    <3> QED  BY <1>2, <2>1, <3>1 DEF ThreadsOK
  <2> QED  BY <2>2, <2>3 DEF ThreadsOK
<1>13. ASSUME Nested, SimpleEdits PROVE Settled'
  <2>1. Settled  BY <1>13 DEF MapInv
  <2>2. SUFFICES ASSUME NEW k \in Holders, NEW g \in Filters, g \notin raced', DeadAt(k)' = {}
        PROVE  /\ g \notin BeingTold(k)' =>
                    \A t \in Types : tmap[k][t][g] = Entry(Due(k, g)', t)
               /\ \A j \in Threads : Telling(j, g, k)' =>
                    \A t \in Types :
                      After(tmap[k][t][g], thr'[j].rem[t], thr'[j].add[t]) = Entry(Due(k, g)', t)
    BY DEF Settled
  <2>3. g \notin raced /\ DeadAt(k) = {} /\ f \notin fa[k]  BY <1>9, <2>2
  <2>4. Due(k, g)' = Due(k, g)  BY <1>2, <2>3 DEF Due
  <2>5. /\ g \notin BeingTold(k) => \A t \in Types : tmap[k][t][g] = Entry(Due(k, g), t)
        /\ \A j \in Threads : Telling(j, g, k) =>
             \A t \in Types :
               After(tmap[k][t][g], thr[j].rem[t], thr[j].add[t]) = Entry(Due(k, g), t)
    BY <2>1, <2>3 DEF Settled
  <2>6. /\ g \in BeingTold(k)' <=> \E j \in Threads : Telling(j, g, k)'
        /\ g \in BeingTold(k) <=> \E j \in Threads : Telling(j, g, k)
    BY DEF BeingTold, Telling
  <2> QED  BY <1>11, <2>4, <2>5, <2>6
<1> QED  BY <1>4, <1>5, <1>6, <1>10, <1>12, <1>13 DEF MapInv

(* A destroyed filter is as empty as a new one.                            *)
LEMMA DestroyedRow ==
  ASSUME NEW f \in Filters, RowOK(flt[f])
  PROVE  /\ RowOK(Destroyed(f)) /\ Destroyed(f).cbs = {} /\ Destroyed(f).state = "dead"
<1>1. PICK n : n = flt[f].next /\ n \in Nat  BY DEF RowOK, Row
<1>2. RowOK(NewFilter)  BY NewRow
<1>3. PICK x : x = Destroyed(f)  OBVIOUS
<1>4. /\ x \in Row /\ x.cons = NewFilter.cons /\ x.all = NewFilter.all
      /\ x.dom = NewFilter.dom /\ x.cbs = {} /\ x.state = "dead"
  <2>1. PICK y : y = NewFilter  OBVIOUS
  <2>2. y \in Row /\ y.cbs = {}  BY <1>2, <2>1 DEF RowOK, NewFilter
  <2>3. x = [y EXCEPT !.state = "dead", !.next = n]  BY <1>1, <1>3, <2>1 DEF Destroyed
  <2> QED  BY <1>1, <2>1, <2>2, <2>3 DEF Row
<1>5. TabsOf(x) = TabsOf(NewFilter)  BY <1>4 DEF TabsOf
<1>6. Ids(x.cons) = {}  BY <1>4 DEF Ids, NewFilter
<1>7. RowOK(x)  BY <1>2, <1>4, <1>5, <1>6 DEF RowOK
<1> QED  BY <1>3, <1>4, <1>7

(* cleanup_and_dispose, up to where the thread lets go of the filter.      *)
LEMMA CleanupKeeps ==
  ASSUME MapInv, NEW i \in Threads, NEW f \in Filters, CleanupAndDispose(i, f)
  PROVE  MapInv'
<1>1. /\ thr[i] = Idle /\ flt[f].state = "live" /\ flt[f].cbs = {}
      /\ raced' = IF InFlight(f) THEN raced \union {f} ELSE raced
      /\ fa' = fa /\ rqst' = rqst /\ tmap' = tmap
  BY DEF CleanupAndDispose
<1>2. RowOK(flt[f])  BY DEF MapInv, RowsOK
<1>3. /\ thr \in [Threads -> Doing] /\ raced \subseteq Filters /\ flt[f] \in Row
  BY DEF MapInv, Types1
<1>4. raced \subseteq raced' /\ raced' \subseteq Filters  BY <1>1, <1>3
<1>5. f \notin raced' => \A j \in Threads : thr[j].f # f  BY <1>1 DEF InFlight
<1>6. f \notin raced' => \A j \in Threads, h \in Holders : ~Telling(j, f, h)
  BY <1>5 DEF Telling
<1>7. ThreadsOK  BY DEF MapInv
<1>8. PICK e : e = RemoveAll(Tables(f))  OBVIOUS
<1>9. CASE HasNews(e)
  <2>1. PICK x : x = [SetTables(f, e) EXCEPT !.state = "dying"]  OBVIOUS
  <2>2. PICK u : u = [Idle EXCEPT !.f = f]  OBVIOUS
  <2>3. flt' = [flt EXCEPT ![f] = x] /\ thr' = [thr EXCEPT ![i] = u]
    BY <1>8, <1>9, <2>1, <2>2 DEF CleanupAndDispose
  <2>4. CallOK(f, e, flt[f].next)  BY <1>2, <1>8, RemoveAllCall
  <2>5. Kept(e) /\ e \in Tabs  BY <2>4 DEF CallOK, Kept
  <2>6. /\ x \in Row /\ x.cons = e.cons /\ x.all = e.all /\ x.dom = e.dom
        /\ x.next = flt[f].next /\ x.cbs = {} /\ x.state = "dying" /\ x.cons \in Seq(Con)
    BY <1>1, <1>3, <2>1, <2>5 DEF SetTables, Row, Tabs
  <2>7. RowOK(x)  BY <2>4, <2>5, <2>6, RowIs DEF RowOK, CallOK
  <2>8. u \in Doing /\ u.f = f /\ u.todo = {}  BY <2>2, IdleIs DEF Doing, Idle
  <2>9. \A g \in Filters \ raced' : \A j, k \in Threads : thr'[j].f = g /\ thr'[k].f = g => j = k
    <3>1. \A j \in Threads : thr'[j] = IF j = i THEN u ELSE thr[j]  BY <1>3, <2>3
    <3> QED  BY <1>4, <1>5, <1>7, <2>8, <3>1 DEF ThreadsOK
  <2>10. thr[i].todo = {} /\ x.state # "dead" /\ flt[f].state # "dead"
    BY <1>1, <2>6, IdleIs
  <2> QED  BY <1>1, <1>4, <1>6, <2>3, <2>6, <2>7, <2>8, <2>9, <2>10, CollectKeeps
<1>10. CASE ~HasNews(e)
  <2>1. PICK x : x = Destroyed(f)  OBVIOUS
  <2>2. flt' = [flt EXCEPT ![f] = x] /\ thr' = thr
    BY <1>8, <1>10, <2>1 DEF CleanupAndDispose
  <2>3. thr' = [thr EXCEPT ![i] = Idle]  BY <1>1, <1>3, <2>2
  <2>4. RowOK(x) /\ x.cbs = {} /\ x.state = "dead"  BY <1>2, <2>1, DestroyedRow
  <2>5. Idle \in Doing /\ Idle.todo = {} /\ thr[i].todo = {}  BY <1>1, IdleIs
  <2>6. \A g \in Filters \ raced' : \A j, k \in Threads : thr'[j].f = g /\ thr'[k].f = g => j = k
    BY <1>4, <1>7, <2>2 DEF ThreadsOK
  <2> QED  BY <1>1, <1>4, <1>6, <2>2, <2>3, <2>4, <2>5, <2>6, CollectKeeps
<1> QED  BY <1>9, <1>10

(* The rest of it: who has come meanwhile keeps a destroyed filter.        *)
LEMMA DisposeKeeps ==
  ASSUME MapInv, NEW i \in Threads, Dispose(i)
  PROVE  MapInv'
<1>1. PICK f : f = thr[i].f  OBVIOUS
<1>2. PICK x : x = Destroyed(f)  OBVIOUS
<1>3. /\ f # NoFilter /\ thr[i].todo = {}
      /\ flt' = [flt EXCEPT ![f] = x] /\ thr' = [thr EXCEPT ![i] = Idle]
      /\ fa' = fa /\ rqst' = rqst /\ tmap' = tmap /\ raced' = raced
  BY <1>1, <1>2 DEF Dispose
<1>4. thr \in [Threads -> Doing] /\ raced \subseteq Filters  BY DEF MapInv, Types1
<1>5. f \in Filters  BY <1>1, <1>3, <1>4 DEF Doing
<1>6. RowOK(x) /\ x.cbs = {} /\ x.state = "dead"
  BY <1>2, <1>5, DestroyedRow DEF MapInv, RowsOK
<1>7. ThreadsOK  BY DEF MapInv
<1>8. f \notin raced' => \A j \in Threads, h \in Holders : ~Telling(j, f, h)
  BY <1>1, <1>3, <1>5, <1>7 DEF ThreadsOK, Telling
<1>9. \A g \in Filters \ raced' : \A j, k \in Threads : thr'[j].f = g /\ thr'[k].f = g => j = k
  <2>1. \A j \in Threads : thr'[j] = IF j = i THEN Idle ELSE thr[j]  BY <1>3, <1>4
  <2> QED  BY <1>3, <1>7, <2>1, IdleIs DEF ThreadsOK
<1>10. Idle \in Doing /\ Idle.todo = {}  BY IdleIs
<1> QED  BY <1>3, <1>4, <1>5, <1>6, <1>8, <1>9, <1>10, CollectKeeps

-----------------------------------------------------------------------------
(* Steps: a filter is attached                                             *)

(* A holder gets a filter, and drops what it has subscribed to without one. *)
LEMMA AddFilterKeeps ==
  ASSUME MapInv, NEW i \in Threads, NEW h \in Holders, NEW f \in Filters, AddFilter(i, h, f)
  PROVE  MapInv'
<1>1. /\ f \notin fa[h] /\ rqst' = [rqst EXCEPT ![h] = {}]
      /\ thr' = thr /\ raced' = raced
      /\ flt[f].state = "dead" => tmap' = Unsubscribed(h) /\ flt' = flt /\ fa' = fa
      /\ flt[f].state # "dead" =>
           /\ tmap' = Update(Unsubscribed(h), h, f, Once(flt[f].dom), NoChange)
           /\ flt' = [flt EXCEPT ![f].cbs = @ \union {h}]
           /\ fa' = [fa EXCEPT ![h] = @ \union {f}]
  BY DEF AddFilter
<1>2. /\ flt \in [Filters -> Row] /\ fa \in [Holders -> SUBSET Filters]
      /\ rqst \in [Holders -> SUBSET Types]
      /\ tmap \in [Holders -> [Types -> [Filters \union {NoFilter} -> Nat]]]
      /\ thr \in [Threads -> Doing] /\ raced \subseteq Filters
  BY DEF MapInv, Types1
<1>3. \A k \in Holders : rqst'[k] = IF k = h THEN {} ELSE rqst[k]  BY <1>1, <1>2
<1>4. PICK m : m = Unsubscribed(h)  OBVIOUS
<1>5. Updated(m, tmap, h, NoFilter, NoChange, Once(rqst[h]))
  BY <1>2, <1>4, MapUpdateIs, OnceIs DEF Unsubscribed
<1>6. /\ m \in [Holders -> [Types -> [Filters \union {NoFilter} -> Nat]]]
      /\ \A k \in Holders, t \in Types :
           /\ m[k][t][NoFilter] = Entry(rqst'[k], t)
           /\ \A g \in Filters : m[k][t][g] = tmap[k][t][g]
  <2>1. \A k \in Holders, t \in Types : tmap[k][t][NoFilter] = Entry(rqst[k], t)
    BY DEF MapInv, Subscribed
  <2>2. \A t \in Types : After(Entry(rqst[h], t), Once(rqst[h])[t], NoChange[t]) = 0
    BY OnceIs DEF After, Entry
  <2>3. \A t : Entry({}, t) = 0  BY DEF Entry
  <2>4. \A k \in Holders, t \in Types, g \in Filters \union {NoFilter} :
          m[k][t][g] = IF k = h /\ g = NoFilter
                         THEN After(tmap[h][t][NoFilter], Once(rqst[h])[t], NoChange[t])
                         ELSE tmap[k][t][g]
    BY <1>5 DEF Updated
  <2>5. \A k \in Holders, t \in Types : m[k][t][NoFilter] = Entry(rqst'[k], t)
    <3> SUFFICES ASSUME NEW k \in Holders, NEW t \in Types
                 PROVE  m[k][t][NoFilter] = Entry(rqst'[k], t)
      OBVIOUS
    <3>1. CASE k = h  BY <1>3, <2>1, <2>2, <2>3, <2>4, <3>1
    <3>2. CASE k # h  BY <1>3, <2>1, <2>4, <3>2
    <3> QED  BY <3>1, <3>2
  <2>6. \A k \in Holders, t \in Types, g \in Filters : m[k][t][g] = tmap[k][t][g]
    BY <2>4, IdleIs
  <2>7. m \in [Holders -> [Types -> [Filters \union {NoFilter} -> Nat]]]
    BY <1>5 DEF Updated
  <2> QED  BY <2>5, <2>6, <2>7
<1>7. \A j \in Threads : \A g, k : Telling(j, g, k)' <=> Telling(j, g, k)
  BY <1>1 DEF Telling
<1>8. \A k : BeingTold(k)' = BeingTold(k)  BY <1>1 DEF BeingTold
<1>9. CASE flt[f].state = "dead"
  <2>1. tmap' = m /\ flt' = flt /\ fa' = fa  BY <1>1, <1>4, <1>9
  <2>2. (rqst \in [Holders -> SUBSET Types])'  BY <1>1, <1>2
  <2>3. Types1'  BY <1>1, <1>2, <1>6, <2>1, <2>2 DEF Types1
  <2>4. RowsOK'  BY <2>1 DEF MapInv, RowsOK
  <2>5. Subscribed'  BY <1>6, <2>1 DEF Subscribed
  <2>6. Held' /\ \A k : DeadAt(k)' = DeadAt(k)  BY <2>1 DEF MapInv, Held, DeadAt
  <2>7. ThreadsOK'  BY <1>1, <2>1 DEF MapInv, ThreadsOK, Telling
  <2>8. ASSUME Nested, SimpleEdits PROVE Settled'
    <3>1. Settled  BY <2>8 DEF MapInv
    <3>2. \A k, g : Due(k, g)' = Due(k, g)  BY <2>1 DEF Due
    <3>3. SUFFICES ASSUME NEW k \in Holders, NEW g \in Filters, g \notin raced', DeadAt(k)' = {}
          PROVE  /\ g \notin BeingTold(k)' =>
                      \A t \in Types : tmap'[k][t][g] = Entry(Due(k, g)', t)
                 /\ \A j \in Threads : Telling(j, g, k)' =>
                      \A t \in Types :
                        After(tmap'[k][t][g], thr'[j].rem[t], thr'[j].add[t]) = Entry(Due(k, g)', t)
      BY DEF Settled
    <3>4. /\ g \notin BeingTold(k) => \A t \in Types : tmap[k][t][g] = Entry(Due(k, g), t)
          /\ \A j \in Threads : Telling(j, g, k) =>
               \A t \in Types :
                 After(tmap[k][t][g], thr[j].rem[t], thr[j].add[t]) = Entry(Due(k, g), t)
      BY <1>1, <2>6, <3>1, <3>3 DEF Settled
    <3>5. \A t \in Types : tmap'[k][t][g] = tmap[k][t][g]  BY <1>6, <2>1
    <3>6. Due(k, g)' = Due(k, g)  BY <3>2
    <3> QED  BY <1>1, <1>7, <1>8, <3>4, <3>5, <3>6
  <2> QED  BY <2>3, <2>4, <2>5, <2>6, <2>7, <2>8 DEF MapInv
<1>10. CASE flt[f].state # "dead"
  <2>1. PICK x : x = [flt[f] EXCEPT !.cbs = @ \union {h}]  OBVIOUS
  <2>2. /\ tmap' = Update(m, h, f, Once(flt[f].dom), NoChange)
        /\ flt' = [flt EXCEPT ![f] = x]
        /\ fa' = [fa EXCEPT ![h] = @ \union {f}]
    BY <1>1, <1>4, <1>10, <2>1
  <2>3. flt[f] \in Row /\ RowOK(flt[f])  BY <1>2 DEF MapInv, RowsOK
  <2>4. /\ x \in Row /\ x.cons = flt[f].cons /\ x.all = flt[f].all /\ x.dom = flt[f].dom
        /\ x.next = flt[f].next /\ x.state = flt[f].state /\ x.cbs = flt[f].cbs \union {h}
    BY <2>1, <2>3 DEF Row
  <2>5. RowOK(x)
    <3>1. TabsOf(x) = TabsOf(flt[f])  BY <2>4 DEF TabsOf
    <3> QED  BY <2>3, <2>4, <3>1 DEF RowOK
  <2>6. \A g \in Filters : flt'[g] = IF g = f THEN x ELSE flt[g]  BY <1>2, <2>2
  <2>7. \A k \in Holders : fa'[k] = IF k = h THEN fa[h] \union {f} ELSE fa[k]  BY <1>2, <2>2
  <2>8. f \in Filters \union {NoFilter} /\ Once(flt[f].dom) \in [Types -> Nat]
        /\ NoChange \in [Types -> Nat]
    BY OnceIs
  <2>9. Updated(tmap', m, h, f, Once(flt[f].dom), NoChange)
    BY <1>6, <2>2, <2>8, MapUpdateIs
  <2>10. /\ tmap' \in [Holders -> [Types -> [Filters \union {NoFilter} -> Nat]]]
         /\ \A k \in Holders, t \in Types :
              /\ tmap'[k][t][NoFilter] = Entry(rqst'[k], t)
              /\ \A g \in Filters : ~(k = h /\ g = f) => tmap'[k][t][g] = tmap[k][t][g]
         /\ \A t \in Types : tmap'[h][t][f] = After(tmap[h][t][f], 0, Entry(flt[f].dom, t))
    <3>1. /\ Once(flt[f].dom) \in [Types -> Nat] /\ NoFilter \notin Filters
          /\ \A t \in Types : Once(flt[f].dom)[t] = Entry(flt[f].dom, t) /\ NoChange[t] = 0
      BY OnceIs, IdleIs
    <3>2. tmap' \in [Holders -> [Types -> [Filters \union {NoFilter} -> Nat]]]
      BY <2>9 DEF Updated
    <3>3. \A k \in Holders, t \in Types, g \in Filters \union {NoFilter} :
            tmap'[k][t][g] = IF k = h /\ g = f THEN After(m[h][t][f], NoChange[t], Once(flt[f].dom)[t])
                                              ELSE m[k][t][g]
      BY <2>9 DEF Updated
    <3>4. \A k \in Holders, t \in Types : tmap'[k][t][NoFilter] = Entry(rqst'[k], t)
      BY <1>6, <3>1, <3>3
    <3>5. \A k \in Holders, t \in Types, g \in Filters :
            ~(k = h /\ g = f) => tmap'[k][t][g] = tmap[k][t][g]
      BY <1>6, <3>3
    <3>6. \A t \in Types : tmap'[h][t][f] = After(tmap[h][t][f], 0, Entry(flt[f].dom, t))
      BY <1>6, <3>1, <3>3
    <3> QED  BY <3>2, <3>4, <3>5, <3>6
  <2>11. Types1'
    <3>1. (flt \in [Filters -> Row])'  BY <1>2, <2>2, <2>4
    <3>2. (fa \in [Holders -> SUBSET Filters])'  BY <1>2, <2>2
    <3>3. (rqst \in [Holders -> SUBSET Types])'  BY <1>1, <1>2
    <3> QED  BY <1>1, <1>2, <2>10, <3>1, <3>2, <3>3 DEF Types1
  <2>12. RowsOK'  BY <2>5, <2>6 DEF MapInv, RowsOK
  <2>13. Subscribed'  BY <2>10 DEF Subscribed
  <2>14. \A k \in Holders : DeadAt(k)' = DeadAt(k)
    <3> SUFFICES ASSUME NEW k \in Holders PROVE DeadAt(k)' = DeadAt(k)
      OBVIOUS
    <3>1. fa[k] \subseteq Filters  BY <1>2
    <3>2. \A g \in Filters : flt'[g].state = flt[g].state  BY <2>4, <2>6
    <3> QED  BY <1>10, <2>7, <3>1, <3>2 DEF DeadAt
  <2>15. Held'
    <3> SUFFICES ASSUME NEW k \in Holders, NEW g \in Filters
                 PROVE  /\ k \in flt'[g].cbs => g \in fa'[k] /\ flt'[g].state # "dead"
                        /\ DeadAt(k)' = {} /\ g \in fa'[k] => k \in flt'[g].cbs
      BY DEF Held
    <3>1. /\ k \in flt[g].cbs => g \in fa[k] /\ flt[g].state # "dead"
          /\ DeadAt(k) = {} /\ g \in fa[k] => k \in flt[g].cbs
      BY DEF MapInv, Held
    <3> QED  BY <1>10, <2>4, <2>6, <2>7, <2>14, <3>1
  <2>16. ThreadsOK'
    <3>1. \A g \in Filters : flt[g].cbs \subseteq flt'[g].cbs  BY <2>4, <2>6
    <3>2. ThreadsOK  BY DEF MapInv
    <3>3. \A g \in Filters \ raced : \A j \in Threads, k \in Holders :
            Telling(j, g, k)' => k \in flt'[g].cbs
      BY <1>7, <3>1, <3>2 DEF ThreadsOK
    <3> QED  BY <1>1, <3>2, <3>3 DEF ThreadsOK
  <2>17. ASSUME Nested, SimpleEdits PROVE Settled'
    <3>1. Settled  BY <2>17 DEF MapInv
    <3>2. SUFFICES ASSUME NEW k \in Holders, NEW g \in Filters, g \notin raced', DeadAt(k)' = {}
          PROVE  /\ g \notin BeingTold(k)' =>
                      \A t \in Types : tmap'[k][t][g] = Entry(Due(k, g)', t)
                 /\ \A j \in Threads : Telling(j, g, k)' =>
                      \A t \in Types :
                        After(tmap'[k][t][g], thr'[j].rem[t], thr'[j].add[t]) = Entry(Due(k, g)', t)
      BY DEF Settled
    <3>3. g \notin raced /\ DeadAt(k) = {}  BY <1>1, <2>14, <3>2
    <3>4. /\ g \notin BeingTold(k) => \A t \in Types : tmap[k][t][g] = Entry(Due(k, g), t)
          /\ \A j \in Threads : Telling(j, g, k) =>
               \A t \in Types :
                 After(tmap[k][t][g], thr[j].rem[t], thr[j].add[t]) = Entry(Due(k, g), t)
      BY <3>1, <3>3 DEF Settled
    <3>5. flt'[g].dom = flt[g].dom  BY <2>4, <2>6
    <3>6. CASE ~(k = h /\ g = f)
      <4>1. Due(k, g)' = Due(k, g)  BY <2>7, <3>5, <3>6 DEF Due
      <4>2. \A t \in Types : tmap'[k][t][g] = tmap[k][t][g]  BY <2>10, <3>6
      <4> QED  BY <1>1, <1>7, <1>8, <3>4, <4>1, <4>2
    <3>7. CASE k = h /\ g = f
      <4>1. h \notin flt[f].cbs  BY <1>1 DEF MapInv, Held
      <4>2. \A j \in Threads : ~Telling(j, f, h)
        BY <3>3, <3>7, <4>1 DEF MapInv, ThreadsOK
      <4>3. f \notin BeingTold(h)  BY <4>2 DEF BeingTold, Telling
      <4>4. Due(h, f) = {}  BY <1>1 DEF Due
      <4>5. \A t \in Types : tmap[h][t][f] = 0  BY <3>4, <3>7, <4>3, <4>4 DEF Entry
      <4>6. Due(h, f)' = flt[f].dom  BY <2>7, <3>5, <3>7 DEF Due
      <4>7. \A t \in Types : After(0, 0, Entry(flt[f].dom, t)) = Entry(flt[f].dom, t)
        BY DEF After, Entry
      <4>8. \A t \in Types : tmap'[h][t][f] = Entry(flt[f].dom, t)  BY <2>10, <4>5, <4>7
      <4> QED  BY <1>7, <3>7, <4>2, <4>6, <4>8
    <3> QED  BY <3>6, <3>7
  <2> QED  BY <2>11, <2>12, <2>13, <2>15, <2>16, <2>17 DEF MapInv
<1> QED  BY <1>9, <1>10

-----------------------------------------------------------------------------
(* Steps: filters are detached, subscriptions changed                      *)

(* A holder loses the filters in S, or fails at a destroyed one after them. *)
LEMMA DetachKeeps ==
  ASSUME MapInv, NEW h \in Holders, NEW S, S \subseteq fa[h] \ DeadAt(h), Detach(h, S),
         fa' = [fa EXCEPT ![h] = @ \ S] \/ (DeadAt(h) # {} /\ fa' = fa),
         rqst' = rqst /\ thr' = thr
  PROVE  MapInv'
<1>1. /\ flt \in [Filters -> Row] /\ fa \in [Holders -> SUBSET Filters]
      /\ tmap \in [Holders -> [Types -> [Filters \union {NoFilter} -> Nat]]]
      /\ raced \subseteq Filters /\ NoFilter \notin Filters
  BY IdleIs DEF MapInv, Types1
<1>2. S \subseteq Filters  BY <1>1
<1>3. /\ flt' = [g \in Filters |-> IF g \in S THEN [flt[g] EXCEPT !.cbs = @ \ {h}] ELSE flt[g]]
      /\ raced' = raced \union (S \intersect BeingTold(h))
  BY DEF Detach
<1>4. \A g \in Filters :
        /\ flt'[g] \in Row /\ flt'[g].cons = flt[g].cons /\ flt'[g].all = flt[g].all
        /\ flt'[g].dom = flt[g].dom /\ flt'[g].next = flt[g].next /\ flt'[g].state = flt[g].state
        /\ flt'[g].cbs = IF g \in S THEN flt[g].cbs \ {h} ELSE flt[g].cbs
  <2> SUFFICES ASSUME NEW g \in Filters
      PROVE  /\ flt'[g] \in Row /\ flt'[g].cons = flt[g].cons /\ flt'[g].all = flt[g].all
             /\ flt'[g].dom = flt[g].dom /\ flt'[g].next = flt[g].next
             /\ flt'[g].state = flt[g].state
             /\ flt'[g].cbs = IF g \in S THEN flt[g].cbs \ {h} ELSE flt[g].cbs
    OBVIOUS
  <2>1. PICK y : y = flt[g] /\ y \in Row  BY <1>1
  <2>2. flt'[g] = IF g \in S THEN [y EXCEPT !.cbs = @ \ {h}] ELSE y  BY <1>3, <2>1
  <2>3. LET z == [y EXCEPT !.cbs = @ \ {h}]
        IN  /\ z \in Row /\ z.cons = y.cons /\ z.all = y.all /\ z.dom = y.dom
            /\ z.next = y.next /\ z.state = y.state /\ z.cbs = y.cbs \ {h}
    BY <2>1 DEF Row
  <2> QED  BY <2>1, <2>2, <2>3
<1>5. PICK w : w = [t \in Types |-> [f \in Filters \union {NoFilter} |->
        IF f \in S /\ t \in flt[f].dom /\ tmap[h][t][f] > 0 THEN tmap[h][t][f] - 1 ELSE tmap[h][t][f]]]
  OBVIOUS
<1>6. tmap' = [tmap EXCEPT ![h] = w]  BY <1>5 DEF Detach
<1>7. /\ \A t \in Types : w[t] \in [Filters \union {NoFilter} -> Nat]
      /\ \A t \in Types, g \in Filters \union {NoFilter} :
           w[t][g] = IF g \in S /\ t \in flt[g].dom /\ tmap[h][t][g] > 0
                       THEN tmap[h][t][g] - 1 ELSE tmap[h][t][g]
  <2>1. \A t \in Types, g \in Filters \union {NoFilter} : tmap[h][t][g] \in Nat
    <3> SUFFICES ASSUME NEW t \in Types, NEW g \in Filters \union {NoFilter}
                 PROVE  tmap[h][t][g] \in Nat
      OBVIOUS
    <3>1. tmap[h][t] \in [Filters \union {NoFilter} -> Nat]
      <4>1. tmap[h] \in [Types -> [Filters \union {NoFilter} -> Nat]]  BY <1>1
      <4> QED  BY <4>1
    <3> QED  BY <3>1
  <2> QED  BY <1>5, <2>1
<1>8. w \in [Types -> [Filters \union {NoFilter} -> Nat]]  BY <1>5, <1>7
<1>9. /\ tmap' \in [Holders -> [Types -> [Filters \union {NoFilter} -> Nat]]]
      /\ \A k \in Holders : tmap'[k] = IF k = h THEN w ELSE tmap[k]
  BY <1>1, <1>6, <1>8
<1>10. /\ fa' \in [Holders -> SUBSET Filters]
       /\ \A k \in Holders : k # h => fa'[k] = fa[k]
       /\ fa'[h] = fa[h] \ S \/ (DeadAt(h) # {} /\ fa'[h] = fa[h])
  BY <1>1
<1>11. Types1'
  <2>1. (flt \in [Filters -> Row])'  BY <1>3, <1>4
  <2>2. (raced \subseteq Filters)'  BY <1>1, <1>2, <1>3
  <2> QED  BY <1>9, <1>10, <2>1, <2>2 DEF MapInv, Types1
<1>12. RowsOK'
  <2> SUFFICES ASSUME NEW g \in Filters PROVE RowOK(flt'[g])
    BY DEF RowsOK
  <2>1. RowOK(flt[g])  BY DEF MapInv, RowsOK
  <2>2. TabsOf(flt'[g]) = TabsOf(flt[g])  BY <1>4 DEF TabsOf
  <2> QED  BY <1>4, <2>1, <2>2 DEF RowOK
<1>13. Subscribed'
  <2>1. Subscribed  BY DEF MapInv
  <2>2. \A t \in Types : w[t][NoFilter] = tmap[h][t][NoFilter]  BY <1>1, <1>2, <1>7
  <2> QED  BY <1>9, <2>1, <2>2 DEF Subscribed
<1>14. \A k \in Holders : DeadAt(k)' = DeadAt(k)
  <2> SUFFICES ASSUME NEW k \in Holders PROVE DeadAt(k)' = DeadAt(k)
    OBVIOUS
  <2>1. fa[k] \subseteq Filters /\ fa'[k] \subseteq Filters  BY <1>1, <1>10
  <2>2. \A g \in S : flt[g].state # "dead"  BY DEF DeadAt
  <2>3. \A g \in Filters : flt'[g].state = flt[g].state  BY <1>4
  <2>4. \A g : g \in DeadAt(k)' <=> g \in fa'[k] /\ flt[g].state = "dead"
    BY <2>1, <2>3 DEF DeadAt
  <2>5. \A g : g \in DeadAt(k) <=> g \in fa[k] /\ flt[g].state = "dead"
    BY DEF DeadAt
  <2>6. fa'[k] = fa[k] \/ (k = h /\ fa'[k] = fa[k] \ S)  BY <1>10
  <2>7. \A g : g \in DeadAt(k)' <=> g \in DeadAt(k)  BY <2>2, <2>4, <2>5, <2>6
  <2> QED  BY <2>7 DEF DeadAt
<1>15. Held'
  <2> SUFFICES ASSUME NEW k \in Holders, NEW g \in Filters
               PROVE  /\ k \in flt'[g].cbs => g \in fa'[k] /\ flt'[g].state # "dead"
                      /\ DeadAt(k)' = {} /\ g \in fa'[k] => k \in flt'[g].cbs
    BY DEF Held
  <2>1. /\ k \in flt[g].cbs => g \in fa[k] /\ flt[g].state # "dead"
        /\ DeadAt(k) = {} /\ g \in fa[k] => k \in flt[g].cbs
    BY DEF MapInv, Held
  <2>2. /\ flt'[g].state = flt[g].state /\ DeadAt(k)' = DeadAt(k)
        /\ flt'[g].cbs = IF g \in S THEN flt[g].cbs \ {h} ELSE flt[g].cbs
    BY <1>4, <1>14
  <2>3. CASE k # h  BY <1>10, <2>1, <2>2, <2>3
  <2>4. CASE k = h /\ g \notin S  BY <1>10, <2>1, <2>2, <2>4
  <2>5. CASE k = h /\ g \in S  BY <1>10, <2>2, <2>5
  <2> QED  BY <2>3, <2>4, <2>5
<1>16. \A j \in Threads : \A g, k : Telling(j, g, k)' <=> Telling(j, g, k)
  BY DEF Telling
<1>17. \A g \in Filters, j \in Threads : Telling(j, g, h) => g \in BeingTold(h)
  BY DEF BeingTold, Telling
<1>18. ThreadsOK'
  <2>1. ThreadsOK  BY DEF MapInv
  <2>2. ASSUME NEW g \in Filters, g \notin raced', NEW j \in Threads, NEW k \in Holders,
               Telling(j, g, k)'
        PROVE  k \in flt'[g].cbs
    <3>1. g \notin raced /\ Telling(j, g, k)  BY <1>3, <1>16, <2>2
    <3>2. k \in flt[g].cbs  BY <2>1, <3>1 DEF ThreadsOK
    <3>3. k = h => g \notin S  BY <1>3, <1>17, <2>2, <3>1
    <3> QED  BY <1>4, <3>2, <3>3
  <2>3. raced \subseteq raced'  BY <1>3
  <2>4. \A g \in Filters \ raced' : \A j, k \in Threads : thr'[j].f = g /\ thr'[k].f = g => j = k
    BY <2>1, <2>3 DEF ThreadsOK
  <2>5. \A j \in Threads : thr'[j].todo # {} => thr'[j].f \in Filters
    BY <2>1 DEF ThreadsOK
  <2> QED  BY <2>2, <2>4, <2>5 DEF ThreadsOK
<1>19. ASSUME Nested, SimpleEdits PROVE Settled'
  <2>1. Settled  BY <1>19 DEF MapInv
  <2>2. SUFFICES ASSUME NEW k \in Holders, NEW g \in Filters, g \notin raced', DeadAt(k)' = {}
        PROVE  /\ g \notin BeingTold(k)' =>
                    \A t \in Types : tmap'[k][t][g] = Entry(Due(k, g)', t)
               /\ \A j \in Threads : Telling(j, g, k)' =>
                    \A t \in Types :
                      After(tmap'[k][t][g], thr'[j].rem[t], thr'[j].add[t]) = Entry(Due(k, g)', t)
    BY DEF Settled
  <2>3. g \notin raced /\ DeadAt(k) = {}  BY <1>3, <1>14, <2>2
  <2>4. /\ g \notin BeingTold(k) => \A t \in Types : tmap[k][t][g] = Entry(Due(k, g), t)
        /\ \A j \in Threads : Telling(j, g, k) =>
             \A t \in Types :
               After(tmap[k][t][g], thr[j].rem[t], thr[j].add[t]) = Entry(Due(k, g), t)
    BY <2>1, <2>3 DEF Settled
  <2>5. BeingTold(k)' = BeingTold(k)  BY DEF BeingTold
  <2>6. CASE ~(k = h /\ g \in S)
    <3>1. Due(k, g)' = Due(k, g)  BY <1>4, <1>10, <2>6 DEF Due
    <3>2. \A t \in Types : tmap'[k][t][g] = tmap[k][t][g]  BY <1>7, <1>9, <2>6
    <3> QED  BY <1>16, <2>4, <2>5, <3>1, <3>2
  <2>7. CASE k = h /\ g \in S
    <3>1. g \notin BeingTold(h)  BY <1>3, <2>2, <2>7
    <3>2. \A j \in Threads : ~Telling(j, g, h)  BY <1>17, <3>1
    <3>3. Due(h, g) = flt[g].dom  BY <2>7 DEF Due
    <3>4. Due(h, g)' = {}  BY <1>10, <2>3, <2>7 DEF Due
    <3>5. \A t \in Types : tmap[h][t][g] = Entry(flt[g].dom, t)  BY <2>4, <2>7, <3>1, <3>3
    <3>6. \A t \in Types : tmap'[h][t][g] = 0
      <4> SUFFICES ASSUME NEW t \in Types PROVE w[t][g] = 0
        BY <1>9
      <4> QED  BY <1>7, <2>7, <3>5 DEF Entry
    <3> QED  BY <1>16, <2>7, <3>2, <3>4, <3>6 DEF Entry
  <2> QED  BY <2>6, <2>7
<1> QED  BY <1>11, <1>12, <1>13, <1>15, <1>18, <1>19 DEF MapInv

(* remove_filter of an admin.                                              *)
LEMMA RemoveFilterKeeps ==
  ASSUME MapInv, NEW i, NEW h \in Holders, NEW f \in Filters, RemoveFilter(i, h, f)
  PROVE  MapInv'
<1>1. /\ f \in fa[h] /\ flt[f].state # "dead" /\ Detach(h, {f})
      /\ fa' = [fa EXCEPT ![h] = @ \ {f}] /\ rqst' = rqst /\ thr' = thr
  BY DEF RemoveFilter
<1>2. {f} \subseteq fa[h] \ DeadAt(h)  BY <1>1 DEF DeadAt
<1> QED  BY <1>1, <1>2, DetachKeeps

(* remove_all_filters, to the end or up to the first destroyed filter.     *)
LEMMA RemoveAllFiltersKeeps ==
  ASSUME MapInv, NEW i, NEW h \in Holders, NEW S \in SUBSET fa[h], RemoveAllFilters(i, h, S)
  PROVE  MapInv'
<1>1. /\ IF DeadAt(h) = {} THEN S = fa[h] ELSE S \subseteq fa[h] \ DeadAt(h)
      /\ Detach(h, S) /\ rqst' = rqst /\ thr' = thr
      /\ fa' = IF DeadAt(h) = {} THEN [fa EXCEPT ![h] = {}] ELSE fa
  BY DEF RemoveAllFilters
<1>2. S \subseteq fa[h] \ DeadAt(h)  BY <1>1
<1>3. fa' = [fa EXCEPT ![h] = @ \ S] \/ (DeadAt(h) # {} /\ fa' = fa)  BY <1>1
<1> QED  BY <1>1, <1>2, <1>3, DetachKeeps

(* Types that a holder takes or gives up without a filter.                 *)
LEMMA SubscriptionKeeps ==
  ASSUME MapInv, NEW i, NEW h \in Holders, NEW added \in Subs, NEW deled \in Subs,
         SubscriptionChange(i, h, added, deled)
  PROVE  MapInv'
<1>1. /\ added \subseteq Types /\ deled \subseteq Types /\ NoFilter \notin Filters
  BY MatchingAssumption
<1>2. PICK put, out : put = Once(added \ rqst[h]) /\ out = Once((rqst[h] \intersect deled) \ added)
  OBVIOUS
<1>3. /\ put \in [Types -> Nat] /\ out \in [Types -> Nat]
      /\ \A t \in Types : /\ put[t] = Entry(added \ rqst[h], t)
                          /\ out[t] = Entry((rqst[h] \intersect deled) \ added, t)
  BY <1>2, OnceIs
<1>4. /\ tmap' = Update(tmap, h, NoFilter, put, out)
      /\ rqst' = [rqst EXCEPT ![h] = (@ \ deled) \union added]
      /\ flt' = flt /\ fa' = fa /\ thr' = thr /\ raced' = raced
  BY <1>2 DEF SubscriptionChange
<1>5. /\ rqst \in [Holders -> SUBSET Types]
      /\ tmap \in [Holders -> [Types -> [Filters \union {NoFilter} -> Nat]]]
  BY DEF MapInv, Types1
<1>6. Updated(tmap', tmap, h, NoFilter, put, out)  BY <1>3, <1>4, <1>5, MapUpdateIs
<1>7. \A k \in Holders : rqst'[k] = IF k = h THEN (rqst[h] \ deled) \union added ELSE rqst[k]
  BY <1>4, <1>5
<1>8. Types1'
  <2>1. (rqst \in [Holders -> SUBSET Types])'  BY <1>1, <1>4, <1>5
  <2>2. (tmap \in [Holders -> [Types -> [Filters \union {NoFilter} -> Nat]]])'
    BY <1>6 DEF Updated
  <2> QED  BY <1>4, <2>1, <2>2 DEF MapInv, Types1
<1>9. RowsOK' /\ Held'  BY <1>4 DEF MapInv, RowsOK, Held, DeadAt
<1>10. ThreadsOK'  BY <1>4 DEF MapInv, ThreadsOK, Telling
<1>11. Subscribed'
  <2> SUFFICES ASSUME NEW k \in Holders, NEW t \in Types
               PROVE  tmap'[k][t][NoFilter] = Entry(rqst'[k], t)
    BY DEF Subscribed
  <2>1. tmap[k][t][NoFilter] = Entry(rqst[k], t)  BY DEF MapInv, Subscribed
  <2>2. tmap'[k][t][NoFilter] = IF k = h THEN After(tmap[h][t][NoFilter], out[t], put[t])
                                         ELSE tmap[k][t][NoFilter]
    BY <1>6 DEF Updated
  <2>3. After(Entry(rqst[h], t), out[t], put[t]) = Entry((rqst[h] \ deled) \union added, t)
    BY <1>3 DEF After, Entry
  <2> QED  BY <1>7, <2>1, <2>2, <2>3
<1>12. \A k \in Holders, t \in Types, g \in Filters : tmap'[k][t][g] = tmap[k][t][g]
  BY <1>1, <1>6 DEF Updated
<1>13. ASSUME Nested, SimpleEdits PROVE Settled'
  <2>1. Settled  BY <1>13 DEF MapInv
  <2>2. SUFFICES ASSUME NEW k \in Holders, NEW g \in Filters, g \notin raced', DeadAt(k)' = {}
        PROVE  /\ g \notin BeingTold(k)' =>
                    \A t \in Types : tmap'[k][t][g] = Entry(Due(k, g)', t)
               /\ \A j \in Threads : Telling(j, g, k)' =>
                    \A t \in Types :
                      After(tmap'[k][t][g], thr'[j].rem[t], thr'[j].add[t]) = Entry(Due(k, g)', t)
    BY DEF Settled
  <2>3. g \notin raced /\ DeadAt(k) = {}  BY <1>4, <2>2 DEF DeadAt
  <2>4. /\ g \notin BeingTold(k) => \A t \in Types : tmap[k][t][g] = Entry(Due(k, g), t)
        /\ \A j \in Threads : Telling(j, g, k) =>
             \A t \in Types :
               After(tmap[k][t][g], thr[j].rem[t], thr[j].add[t]) = Entry(Due(k, g), t)
    BY <2>1, <2>3 DEF Settled
  <2>5. /\ Due(k, g)' = Due(k, g) /\ BeingTold(k)' = BeingTold(k)
        /\ \A j \in Threads : Telling(j, g, k)' <=> Telling(j, g, k)
    BY <1>4 DEF Due, BeingTold, Telling
  <2> QED  BY <1>4, <1>12, <2>4, <2>5
<1> QED  BY <1>8, <1>9, <1>10, <1>11, <1>13 DEF MapInv

-----------------------------------------------------------------------------
(* Theorems about filters and the type map                                 *)

(* Every step keeps the invariant.                                         *)
LEMMA NextMap ==
  ASSUME MapInv, [Next]_vars
  PROVE  MapInv'
<1>1. ASSUME NEW i \in Threads, NEW f \in Filters, ChangeFilter(i, f)
      PROVE  MapInv'
  <2>1. CASE AddSome(i, f) \/ Edit(i, f) \/ RemoveAllConstraints(i, f)
    <3>1. RowOK(flt[f])  BY DEF MapInv, RowsOK
    <3>2. PICK e, nx : TableCall(i, f, e, nx) /\ CallOK(f, e, nx)
      BY <2>1, <3>1, CallIs
    <3> QED  BY <3>2, TableKeeps
  <2>2. CASE CleanupAndDispose(i, f)  BY <2>2, CleanupKeeps
  <2> QED  BY <1>1, <2>1, <2>2 DEF ChangeFilter
<1>2. ASSUME NEW i \in Threads, NEW h \in Holders, ChangeHolder(i, h)
      PROVE  MapInv'
  <2>1. ASSUME NEW f \in Filters, AddFilter(i, h, f) PROVE MapInv'
    BY <2>1, AddFilterKeeps
  <2>2. ASSUME NEW f \in Filters, RemoveFilter(i, h, f) PROVE MapInv'
    BY <2>2, RemoveFilterKeeps
  <2>3. ASSUME NEW S \in SUBSET fa[h], RemoveAllFilters(i, h, S) PROVE MapInv'
    BY <2>3, RemoveAllFiltersKeeps
  <2>4. ASSUME NEW added \in Subs, NEW deled \in Subs, SubscriptionChange(i, h, added, deled)
        PROVE  MapInv'
    BY <2>4, SubscriptionKeeps
  <2> QED  BY <1>2, <2>1, <2>2, <2>3, <2>4 DEF ChangeHolder
<1>3. ASSUME NEW i \in Threads, NEW h \in Holders, PropagateSchange(i, h)
      PROVE  MapInv'
  BY <1>3, PropagateKeeps
<1>4. ASSUME NEW i \in Threads, Dispose(i) PROVE MapInv'
  BY <1>4, DisposeKeeps
<1>5. CASE UNCHANGED vars
  <2>1. /\ flt' = flt /\ fa' = fa /\ rqst' = rqst /\ tmap' = tmap /\ thr' = thr /\ raced' = raced
    BY <1>5 DEF vars
  <2>2. Types1' /\ RowsOK' /\ Subscribed'  BY <2>1 DEF MapInv, Types1, RowsOK, Subscribed
  <2>3. Held'  BY <2>1 DEF MapInv, Held, DeadAt
  <2>4. ThreadsOK'  BY <2>1 DEF MapInv, ThreadsOK, Telling
  <2>5. Settled' = Settled  BY <2>1 DEF Settled, DeadAt, BeingTold, Telling, Due
  <2> QED  BY <2>2, <2>3, <2>4, <2>5 DEF MapInv
<1> QED  BY <1>1, <1>2, <1>3, <1>4, <1>5 DEF Next

(* The invariant that the theorems below rest on: the tables of each       *)
(* filter are sound, callbacks and attached filters agree, nobody else     *)
(* changes a filter about which holders are being told (unless it is       *)
(* raced), and the map lists what is due.                                  *)
THEOREM MapSafety == Spec => []MapInv
<1>1. Init => MapInv  BY InitMap
<1>2. MapInv /\ [Next]_vars => MapInv'  BY NextMap
<1> QED  BY <1>1, <1>2, PTL DEF Spec

(* Every variable keeps its type; in particular the updates of the map, by *)
(* whatever thread and in whatever order, take away no entry that is not   *)
(* there.                                                                  *)
THEOREM MapTyped == Spec => []TypeOK
<1>1. MapInv => TypeOK
  <2> SUFFICES ASSUME MapInv PROVE TypeOK
    OBVIOUS
  <2> DEFINE C == [id : Nat, types : Shapes \union {<<StarStar>>}]
             R == [cons : Seq(C), all : [Types -> Nat], dom : SUBSET Types, next : Nat,
                   cbs : SUBSET Holders, state : {"live", "dying", "dead"}]
  <2>1. Types1 /\ RowsOK  BY DEF MapInv
  <2>2. flt \in [Filters -> R]
    <3> SUFFICES ASSUME NEW f \in Filters PROVE flt[f] \in R
      BY <2>1 DEF Types1
    <3>1. PICK x : x = flt[f] /\ x \in Row /\ Kept(TabsOf(x))  BY <2>1 DEF RowsOK, RowOK
    <3>2. x.cons \in Seq(Con) /\ \A k \in 1..Len(x.cons) : x.cons[k].types \in Kinds
      BY <3>1 DEF Kept, TabsOf, Row
    <3>3. \A k \in 1..Len(x.cons) : x.cons[k] \in C
      <4>1. \A k \in 1..Len(x.cons) : x.cons[k] \in Con  BY <3>2, ElementOfSeq
      <4>2. \A y \in Con : y.types \in Kinds => y \in C  BY DEF Con, Kinds
      <4> HIDE DEF C
      <4> QED  BY <3>2, <4>1, <4>2
    <3>4. x.cons \in Seq(C)
      <4>1. Len(x.cons) \in Nat /\ x.cons \in [1..Len(x.cons) -> Con]  BY <3>2, LenProperties
      <4>2. x.cons \in [1..Len(x.cons) -> C]  BY <3>3, <4>1
      <4> HIDE DEF C
      <4> QED  BY <4>1, <4>2, IsASeq
    <3> HIDE DEF C
    <3>5. x \in R  BY <3>1, <3>4 DEF Row
    <3> QED  BY <3>1, <3>5
  <2> QED  BY <2>1, <2>2 DEF Types1, Doing, TypeOK
<1> QED  BY <1>1, MapSafety, PTL

(* What a filter's tables say of its constraints.                          *)
TablesSound == \A f \in Filters :
  /\ \A t \in Types : flt[f].all[t] = Uses(flt[f].cons, t)
  /\ flt[f].dom \subseteq Used(flt[f].all)
  /\ \A t \in Used(flt[f].all) : IsDominated(flt[f].dom, t)

(* The invariant implies it.                                               *)
LEMMA SoundTables ==
  ASSUME MapInv PROVE TablesSound
<1> SUFFICES ASSUME NEW f \in Filters
             PROVE  /\ \A t \in Types : flt[f].all[t] = Uses(flt[f].cons, t)
                    /\ flt[f].dom \subseteq Used(flt[f].all)
                    /\ \A t \in Used(flt[f].all) : IsDominated(flt[f].dom, t)
  BY DEF TablesSound
<1>1. PICK x : x = flt[f] /\ Kept(TabsOf(x))  BY DEF MapInv, RowsOK, RowOK
<1>2. TabsOf(x).cons = x.cons /\ TabsOf(x).all = x.all /\ TabsOf(x).dom = x.dom
  BY DEF TabsOf
<1>3. Sound(TabsOf(x))  BY <1>1 DEF Kept
<1> QED  BY <1>1, <1>2, <1>3 DEF Sound, Covers

(* Whatever event types clients put in constraints, and whatever they add, *)
(* replace and remove: the use counts are those of the constraints (no     *)
(* removal finds "Corrupted data structures"), and each used type is under *)
(* a dominating one, so that no event is missed.                           *)
THEOREM TablesSafety == Spec => []TablesSound
<1>1. MapInv => TablesSound  BY SoundTables
<1> QED  BY <1>1, MapSafety, PTL

(* With types that nest, the dominating types are in addition not          *)
(* comparable: the map lists a filter at most once for an event.           *)
THEOREM CountsKept == ASSUME Nested PROVE Spec => []TypesCounted
<1>1. MapInv => TypesCounted
  <2> SUFFICES ASSUME MapInv PROVE TypesCounted
    OBVIOUS
  <2>1. TablesSound  BY SoundTables
  <2>2. \A f \in Filters : Flat(flt[f].dom)  BY DEF MapInv, RowsOK, RowOK
  <2> QED  BY <2>1, <2>2 DEF TablesSound, TypesCounted, Flat, Used
<1> QED  BY <1>1, MapSafety, PTL

(* The map lists each holder under the types it has subscribed to without  *)
(* a filter, once each, however attaching filters and subscription changes *)
(* alternate.                                                              *)
THEOREM SubscriptionsKept ==
  Spec => [](\A h \in Holders, t \in Types : tmap[h][t][NoFilter] = IF t \in rqst[h] THEN 1 ELSE 0)
<1>1. MapInv => \A h \in Holders, t \in Types :
                  tmap[h][t][NoFilter] = IF t \in rqst[h] THEN 1 ELSE 0
  BY DEF MapInv, Subscribed, Entry
<1> QED  BY <1>1, MapSafety, PTL

(* What the map lists for a holder that is up to date.                     *)
LEMMA MapIs ==
  ASSUME Nested, SimpleEdits, MapInv
  PROVE  /\ \A h \in Holders, f \in Filters, t \in Types :
              UpToDate(h, f) => tmap[h][t][f] = Entry(Due(h, f), t)
         /\ \A h \in Holders, t \in Types : tmap[h][t][NoFilter] = Entry(rqst[h], t)
BY DEF MapInv, Settled, Subscribed, UpToDate

(* With types that nest and one edit per call, the map lists a holder      *)
(* under the dominating types of its filters, once each and under nothing  *)
(* else, whatever threads attach, detach, change, collect and tell in      *)
(* whatever order.                                                         *)
THEOREM MapKept == ASSUME Nested, SimpleEdits PROVE Spec => []MapFollows
<1>1. MapInv => MapFollows
  <2> SUFFICES ASSUME MapInv PROVE MapFollows
    OBVIOUS
  <2> QED  BY MapIs DEF MapFollows, Entry, Due
<1> QED  BY <1>1, MapSafety, PTL

-----------------------------------------------------------------------------
(* Dispatching                                                             *)

(* How often the map lists a filter, or a subscription, for an event.      *)
LEMMA ListedIs ==
  ASSUME MapInv, NEW h \in Holders, NEW f \in Filters \union {NoFilter}, NEW ev, NEW D,
         \A t \in Types : tmap[h][t][f] = Entry(D, t), D \subseteq Types
  PROVE  /\ Listed(h, f, ev) \in Nat
         /\ Listed(h, f, ev) > 0 <=> IsDominated(D, ev)
         /\ (\A s, t \in D : Dominates(s, ev) /\ Dominates(t, ev) => s = t) => Listed(h, f, ev) <= 1
<1> DEFINE S == {t \in Types : Dominates(t, ev)}
           g == [t \in S |-> tmap[h][t][f]]
<1>1. Listed(h, f, ev) = SumFunctionOnSet(g, S)
  <2>1. DOMAIN g = S  OBVIOUS
  <2>2. Listed(h, f, ev) = SumFunction(g)  BY DEF Listed
  <2> HIDE DEF g, S
  <2> QED  BY <2>1, <2>2 DEF SumFunction
<1>2. IsFiniteSet(S)
  <2>1. IsFiniteSet(Types) /\ S \subseteq Types  BY TypesAssumption
  <2> HIDE DEF S
  <2> QED  BY <2>1, FS_Subset
<1>3. \A t \in S : g[t] = IF t \in D THEN 1 ELSE 0  BY DEF Entry
<1>4. \A t \in S : t \in Types /\ Dominates(t, ev)  OBVIOUS
<1>5. \A t \in D : Dominates(t, ev) => t \in S  OBVIOUS
<1> HIDE DEF g, S
<1>6. \A t \in S : g[t] \in Nat /\ g[t] \in {0, 1}  BY <1>3
<1>7. SumFunctionOnSet(g, S) \in Nat  BY <1>2, <1>6, SumTake
<1>8. SumFunctionOnSet(g, S) > 0 <=> \E t \in S : g[t] > 0  BY <1>2, <1>6, SumZero
<1>9. (\E t \in S : g[t] > 0) <=> IsDominated(D, ev)
  <2>1. (\E t \in S : g[t] > 0) <=> \E t \in S : t \in D  BY <1>3
  <2> QED  BY <1>4, <1>5, <2>1 DEF IsDominated
<1>10. ASSUME \A s, t \in D : Dominates(s, ev) /\ Dominates(t, ev) => s = t
       PROVE  SumFunctionOnSet(g, S) <= 1
  <2>1. \A s, t \in S : g[s] = 1 /\ g[t] = 1 => s = t  BY <1>3, <1>4, <1>10
  <2> QED  BY <1>2, <1>6, <2>1, SumOne
<1> QED  BY <1>1, <1>7, <1>8, <1>9, <1>10

(* An event that a filter's constraints admit is under a dominating type.  *)
LEMMA AdmitIs ==
  ASSUME MapInv, NEW f \in Filters, NEW ev
  PROVE  IsDominated(flt[f].dom, ev) <=> flt[f].cons # <<>> /\ Matches(flt[f].cons, ev)
<1>1. PICK x : x = flt[f]  OBVIOUS
<1>2. x.cons \in Seq(Con) /\ x.dom \subseteq Types /\ x \in Row
  BY <1>1 DEF MapInv, Types1, Row
<1>3. /\ \A t \in Types : x.all[t] = Uses(x.cons, t)
      /\ x.dom \subseteq Used(x.all)
      /\ \A t \in Used(x.all) : IsDominated(x.dom, t)
  BY <1>1, SoundTables DEF TablesSound
<1>4. \A t \in Types : t \in Used(x.all) <=>
        \E k \in 1..Len(x.cons) : \E j \in 1..Len(x.cons[k].types) : x.cons[k].types[j] = t
  <2> SUFFICES ASSUME NEW t \in Types
               PROVE  x.all[t] > 0 <=>
                        \E k \in 1..Len(x.cons) : \E j \in 1..Len(x.cons[k].types) : x.cons[k].types[j] = t
    BY DEF Used
  <2>1. x.all[t] = Uses(x.cons, t)  BY <1>3
  <2>2. Uses(x.cons, t) > 0 <=>
          \E k \in 1..Len(x.cons) : \E j \in 1..Len(x.cons[k].types) : x.cons[k].types[j] = t
    BY <1>2, UsesPositive
  <2> QED  BY <2>1, <2>2
<1>5. /\ Len(x.cons) \in Nat /\ DOMAIN x.cons = 1..Len(x.cons)
      /\ \A k \in 1..Len(x.cons) : x.cons[k].types \in Seq(Types)
  <2>1. \A k \in 1..Len(x.cons) : x.cons[k] \in Con  BY <1>2, ElementOfSeq
  <2> QED  BY <1>2, <2>1, LenProperties DEF Con
<1>6. \A k \in 1..Len(x.cons) :
        /\ DOMAIN x.cons[k].types = 1..Len(x.cons[k].types)
        /\ \A j \in 1..Len(x.cons[k].types) : x.cons[k].types[j] \in Types
  BY <1>5, LenProperties, ElementOfSeq
<1>7. x.cons = <<>> <=> Len(x.cons) = 0  BY <1>2, EmptySeq
<1>8. ASSUME IsDominated(x.dom, ev)
      PROVE  x.cons # <<>> /\ Matches(x.cons, ev)
  <2>1. PICK d \in x.dom : Dominates(d, ev)  BY <1>8 DEF IsDominated
  <2>2. PICK k \in 1..Len(x.cons) : \E j \in 1..Len(x.cons[k].types) : x.cons[k].types[j] = d
    BY <1>2, <1>3, <1>4, <2>1
  <2>3. x.cons # <<>>  BY <1>5, <1>7, <2>2
  <2>4. \E j \in DOMAIN x.cons[k].types : Dominates(x.cons[k].types[j], ev)
    BY <1>6, <2>1, <2>2
  <2> QED  BY <1>5, <2>2, <2>3, <2>4 DEF Matches
<1>9. ASSUME x.cons # <<>>, Matches(x.cons, ev)
      PROVE  IsDominated(x.dom, ev)
  <2>1. PICK k \in 1..Len(x.cons) : \E j \in DOMAIN x.cons[k].types : Dominates(x.cons[k].types[j], ev)
    BY <1>5, <1>9 DEF Matches
  <2>2. PICK j \in 1..Len(x.cons[k].types) : Dominates(x.cons[k].types[j], ev)
    BY <1>6, <2>1
  <2>3. PICK s : s = x.cons[k].types[j]  OBVIOUS
  <2>4. s \in Types /\ s \in Used(x.all)  BY <1>4, <1>6, <2>3
  <2>5. PICK d \in x.dom : Dominates(d, s)  BY <1>3, <2>4 DEF IsDominated
  <2>6. Dominates(d, ev)  BY <2>2, <2>3, <2>5, DominatesOrder
  <2> QED  BY <2>6 DEF IsDominated
<1> QED  BY <1>1, <1>8, <1>9

(* Some entry matches an event if the holder's client wants it.            *)
LEMMA HitsIs ==
  ASSUME Nested, SimpleEdits, MapInv, NEW h \in Holders, NEW ev,
         \A f \in Filters : UpToDate(h, f)
  PROVE  Hits(h, ev) \in Nat /\ (Hits(h, ev) > 0 <=> WantedAt(h, ev))
<1>1. DeadAt(h) = {} \/ Filters = {}  BY DEF UpToDate
<1>2. fa[h] \subseteq Filters /\ rqst[h] \subseteq Types  BY DEF MapInv, Types1
<1>3. \A f \in fa[h] : flt[f].state # "dead"  BY <1>1, <1>2 DEF DeadAt
<1>4. \A f \in Filters : flt[f].dom \subseteq Types  BY DEF MapInv, Types1, Row
<1>5. \A f \in Filters : Due(h, f) \subseteq Types  BY <1>4 DEF Due
<1>6. \A f \in Filters : /\ Listed(h, f, ev) \in Nat
                         /\ Listed(h, f, ev) > 0 <=> IsDominated(Due(h, f), ev)
  <2> SUFFICES ASSUME NEW f \in Filters
               PROVE  /\ Listed(h, f, ev) \in Nat
                      /\ Listed(h, f, ev) > 0 <=> IsDominated(Due(h, f), ev)
    OBVIOUS
  <2>1. PICK D : D = Due(h, f)  OBVIOUS
  <2>2. \A t \in Types : tmap[h][t][f] = Entry(D, t)  BY <2>1, MapIs
  <2>3. f \in Filters \union {NoFilter} /\ D \subseteq Types  BY <1>5, <2>1
  <2> QED  BY <2>1, <2>2, <2>3, ListedIs
<1>7. /\ Listed(h, NoFilter, ev) \in Nat
      /\ Listed(h, NoFilter, ev) > 0 <=> IsDominated(rqst[h], ev)
  <2>1. \A t \in Types : tmap[h][t][NoFilter] = Entry(rqst[h], t)  BY MapIs
  <2>2. NoFilter \in Filters \union {NoFilter}  OBVIOUS
  <2> QED  BY <1>2, <2>1, <2>2, ListedIs
<1> DEFINE F == {f \in Filters \union {NoFilter} : RdiMatch(f, ev)}
           g == [f \in F |-> Listed(h, f, ev)]
<1>8. Hits(h, ev) = SumFunctionOnSet(g, F)
  <2>1. DOMAIN g = F  OBVIOUS
  <2>2. Hits(h, ev) = SumFunction(g)  BY DEF Hits
  <2> HIDE DEF g, F
  <2> QED  BY <2>1, <2>2 DEF SumFunction
<1>9. IsFiniteSet(F)
  <2>1. IsFiniteSet(Filters \union {NoFilter})  BY MatchingAssumption, FS_AddElement
  <2>2. F \subseteq Filters \union {NoFilter}  OBVIOUS
  <2> HIDE DEF F
  <2> QED  BY <2>1, <2>2, FS_Subset
<1>10. \A f : f \in F <=> f \in Filters \union {NoFilter} /\ RdiMatch(f, ev)  OBVIOUS
<1>11. \A f \in F : g[f] = Listed(h, f, ev)  OBVIOUS
<1> HIDE DEF F, g
<1>12. \A f \in F : g[f] \in Nat  BY <1>6, <1>7, <1>10, <1>11
<1>13. SumFunctionOnSet(g, F) \in Nat  BY <1>9, <1>12, SumTake
<1>14. SumFunctionOnSet(g, F) > 0 <=> \E f \in F : Listed(h, f, ev) > 0
  <2>1. SumFunctionOnSet(g, F) > 0 <=> \E f \in F : g[f] > 0  BY <1>9, <1>12, SumZero
  <2> QED  BY <1>11, <2>1
<1>15. NoFilter \in F  BY <1>10 DEF RdiMatch
<1>16. \A f \in Filters : f \in F /\ Listed(h, f, ev) > 0 <=>
         f \in fa[h] /\ flt[f].cons # <<>> /\ Matches(flt[f].cons, ev)
  <2> SUFFICES ASSUME NEW f \in Filters
               PROVE  f \in F /\ Listed(h, f, ev) > 0 <=>
                        f \in fa[h] /\ flt[f].cons # <<>> /\ Matches(flt[f].cons, ev)
    OBVIOUS
  <2>1. f \in F <=> flt[f].state # "dead" /\ Matches(flt[f].cons, ev)
    BY <1>10, IdleIs DEF RdiMatch
  <2>2. IsDominated(Due(h, f), ev) <=> f \in fa[h] /\ IsDominated(flt[f].dom, ev)
    BY DEF IsDominated, Due
  <2>3. IsDominated(flt[f].dom, ev) <=> flt[f].cons # <<>> /\ Matches(flt[f].cons, ev)
    BY AdmitIs
  <2> QED  BY <1>3, <1>6, <2>1, <2>2, <2>3
<1>17. (\E f \in F : Listed(h, f, ev) > 0) <=> WantedAt(h, ev)
  <2>1. (\E f \in F : Listed(h, f, ev) > 0) <=>
          \/ Listed(h, NoFilter, ev) > 0
          \/ \E f \in Filters : f \in F /\ Listed(h, f, ev) > 0
    BY <1>10, <1>15
  <2>2. WantedAt(h, ev) <=>
          \/ IsDominated(rqst[h], ev)
          \/ \E f \in Filters : f \in fa[h] /\ flt[f].cons # <<>> /\ Matches(flt[f].cons, ev)
    BY <1>2 DEF WantedAt
  <2> QED  BY <1>7, <1>16, <2>1, <2>2
<1> QED  BY <1>8, <1>13, <1>14, <1>17

(* How admin and proxy combine what they find, for both of the operators.  *)
LEMMA DispatchIs ==
  ASSUME NEW a, NEW p, NEW ev, NEW op \in {"or", "and"},
         Hits(a, ev) \in Nat, Hits(a, ev) > 0 <=> WantedAt(a, ev),
         Hits(p, ev) \in Nat, Hits(p, ev) > 0 <=> WantedAt(p, ev)
  PROVE  DispatchEvent(p, ev, MatchEvent(a, ev, op)) > 0 <=> Wants(p, a, ev, op)
<1>1. \A h : HasFilters(h) <=> ~Indifferent(h)  BY DEF HasFilters, Indifferent
<1>2. \A h : WantedAt(h, ev) => ~Indifferent(h)  BY DEF WantedAt, Indifferent, IsDominated
<1>3. PICK m : m = MatchEvent(a, ev, op)  OBVIOUS
<1>4. /\ Indifferent(a) => m = "NoFilters"
      /\ ~Indifferent(a) /\ WantedAt(a, ev) => m = IF op = "or" THEN "OrMatch" ELSE "AndMatch"
      /\ ~Indifferent(a) /\ ~WantedAt(a, ev) => m = IF op = "or" THEN "OrFailed" ELSE "no"
  BY <1>1, <1>3 DEF MatchEvent
<1>5. /\ m = "no" => DispatchEvent(p, ev, m) = 0
      /\ m = "OrMatch" => DispatchEvent(p, ev, m) = 1
      /\ m \notin {"no", "OrMatch"} /\ Indifferent(p) =>
           DispatchEvent(p, ev, m) = IF m = "OrFailed" THEN 0 ELSE 1
      /\ m \notin {"no", "OrMatch"} /\ ~Indifferent(p) => DispatchEvent(p, ev, m) = Hits(p, ev)
  BY <1>1 DEF DispatchEvent
<1>6. CASE Indifferent(a)
  <2>1. m = "NoFilters" /\ ~WantedAt(a, ev)  BY <1>2, <1>4, <1>6
  <2>2. Indifferent(p) => DispatchEvent(p, ev, m) = 1  BY <1>5, <2>1
  <2>3. ~Indifferent(p) => DispatchEvent(p, ev, m) = Hits(p, ev)  BY <1>5, <2>1
  <2>4. Wants(p, a, ev, op) <=> Indifferent(p) \/ WantedAt(p, ev)  BY <1>6, <2>1 DEF Wants
  <2> QED  BY <1>2, <1>3, <2>2, <2>3, <2>4
<1>7. CASE ~Indifferent(a) /\ op = "or"
  <2>1. Wants(p, a, ev, op) <=> WantedAt(a, ev) \/ WantedAt(p, ev)
    BY <1>7 DEF Wants
  <2>2. CASE WantedAt(a, ev)
    <3>1. DispatchEvent(p, ev, m) = 1  BY <1>4, <1>5, <1>7, <2>2
    <3> QED  BY <1>3, <2>1, <2>2, <3>1
  <2>3. CASE ~WantedAt(a, ev)
    <3>1. m = "OrFailed"  BY <1>4, <1>7, <2>3
    <3>2. Indifferent(p) => DispatchEvent(p, ev, m) = 0  BY <1>5, <3>1
    <3>3. ~Indifferent(p) => DispatchEvent(p, ev, m) = Hits(p, ev)  BY <1>5, <3>1
    <3> QED  BY <1>2, <1>3, <2>1, <2>3, <3>2, <3>3
  <2> QED  BY <2>2, <2>3
<1>8. CASE ~Indifferent(a) /\ op = "and"
  <2>1. Wants(p, a, ev, op) <=> WantedAt(a, ev) /\ (Indifferent(p) \/ WantedAt(p, ev))
    BY <1>8 DEF Wants
  <2>2. CASE WantedAt(a, ev)
    <3>1. m = "AndMatch"  BY <1>4, <1>8, <2>2
    <3>2. Indifferent(p) => DispatchEvent(p, ev, m) = 1  BY <1>5, <3>1
    <3>3. ~Indifferent(p) => DispatchEvent(p, ev, m) = Hits(p, ev)  BY <1>5, <3>1
    <3> QED  BY <1>2, <1>3, <2>1, <2>2, <3>2, <3>3
  <2>3. CASE ~WantedAt(a, ev)
    <3>1. m = "no"  BY <1>4, <1>8, <2>3
    <3>2. DispatchEvent(p, ev, m) = 0  BY <1>5, <3>1
    <3> QED  BY <1>3, <2>1, <2>3, <3>2
  <2> QED  BY <2>2, <2>3
<1> QED  BY <1>6, <1>7, <1>8

(* With types that nest and one edit per call, an event is given to the    *)
(* proxies whose clients want it and to no others, and no filter is        *)
(* evaluated twice for it.                                                 *)
THEOREM ConsumersKept == ASSUME Nested, SimpleEdits PROVE Spec => []RightConsumers
<1>1. MapInv => RightConsumers
  <2> SUFFICES ASSUME MapInv, NEW a \in Admins, NEW p \in Proxies, NEW ev \in Events,
                      NEW op \in {"or", "and"},
                      \A f \in Filters, h \in {a, p} : UpToDate(h, f)
               PROVE  /\ DispatchEvent(p, ev, MatchEvent(a, ev, op)) > 0 <=> Wants(p, a, ev, op)
                      /\ \A f \in Filters, h \in {a, p} : Listed(h, f, ev) <= 1
    BY DEF RightConsumers
  <2>1. a \in Holders /\ p \in Holders  BY DEF Holders
  <2>2. /\ Hits(a, ev) \in Nat /\ (Hits(a, ev) > 0 <=> WantedAt(a, ev))
        /\ Hits(p, ev) \in Nat /\ (Hits(p, ev) > 0 <=> WantedAt(p, ev))
    <3>1. (\A f \in Filters : UpToDate(a, f)) /\ (\A f \in Filters : UpToDate(p, f))  OBVIOUS
    <3> QED  BY <2>1, <3>1, HitsIs
  <2>3. DispatchEvent(p, ev, MatchEvent(a, ev, op)) > 0 <=> Wants(p, a, ev, op)
    BY <2>2, DispatchIs
  <2>4. ASSUME NEW f \in Filters, NEW h \in {a, p} PROVE Listed(h, f, ev) <= 1
    <3>1. h \in Holders /\ UpToDate(h, f)  BY <2>1
    <3>2. PICK D : D = Due(h, f)  OBVIOUS
    <3>3. \A t \in Types : tmap[h][t][f] = Entry(D, t)  BY <3>1, <3>2, MapIs
    <3>4. flt[f].dom \subseteq Types /\ Flat(flt[f].dom)
      BY DEF MapInv, Types1, RowsOK, RowOK, Row
    <3>5. D \subseteq Types /\ Flat(D)  BY <3>2, <3>4 DEF Due, Flat
    <3>6. ASSUME NEW s \in D, NEW t \in D, Dominates(s, ev), Dominates(t, ev) PROVE s = t
      <4>1. Dominates(s, t) \/ Dominates(t, s)  BY <3>5, <3>6 DEF Nested
      <4> QED  BY <3>5, <4>1 DEF Flat
    <3>7. f \in Filters \union {NoFilter}  OBVIOUS
    <3> QED  BY <3>1, <3>3, <3>5, <3>6, <3>7, ListedIs
  <2> QED  BY <2>3, <2>4
<1> QED  BY <1>1, MapSafety, PTL

=============================================================================
