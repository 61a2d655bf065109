---------------------------- MODULE MCConstraint ----------------------------
EXTENDS Constraint

(* Strings "a", "ab", "b" are 1, 2, 3; the characters a and b 1 and 3. *)
MCWithin == {<<1, 1>>, <<2, 2>>, <<3, 3>>, <<1, 2>>, <<3, 2>>}

Seqn(s) == <<"dynany", [sort |-> "seq", elts |-> s]>>
Struct(m) == <<"dynany", [sort |-> "struct", name |-> 1, member |-> m]>>
Union(d, n, m, b) == <<"dynany", [sort |-> "union", disc |-> d, name |-> n, num |-> n - 1, member |-> m, dflt |-> b]>>
MCValue == {Bool(TRUE), Bool(FALSE), <<"ushort", 1>>, <<"long", -1>>, <<"ulong", 7>>, <<"longlong", -5>>,
            <<"char", 1>>, <<"string", 2>>, <<"enum_val", 1>>, Seqn(<<>>), Seqn(<<<<"long", 1>>>>),
            Seqn(<<<<"string", 3>>, <<"string", 1>>>>), Struct(<<"long", -1>>), Struct(Missing),
            Seqn(<<Struct(<<"string", 2>>)>>), Union(<<"ushort", 1>>, 1, <<"long", -1>>, FALSE),
            Union(<<"enum_val", 1>>, 2, Bool(TRUE), TRUE),
            Seqn(<<<<"enum_val", 1>>>>), Seqn(<<<<"enum_val", 3>>, <<"enum_val", 2>>>>)}
\* Two enumeration types.
MCEnums == {{1}, {2, 3}}
\* y is an enumerator to be looked for in x.
MCEvents == {[x |-> v, y |-> <<"enum_val", 2>>] : v \in MCValue \cup {Missing}}

Comp(p, e) == <<"comp", "x", p, e>>
Y == <<"comp", "y", <<>>, "compend">>
Part1(c, e) == Comp(<<<<c, 1>>>>, e)
X == Comp(<<>>, "compend")
True == <<"const", "push_bC2b", Bool(TRUE)>>
Char == <<"const", "push_cC2c", <<"char_or_string", 1>>>>
Ident == <<"const", "push_iC2i", <<"enum_ident", 1>>>>
Two == <<"const", "push_nC2n", <<"ulong", 2>>>>
Minus == <<"const", "push_nC2n", <<"long", -1>>>>

Leaves == {X, True, Char, Two, Part1("dot_id_usC2u", "exist_X2b")}
More == {Ident, Minus, <<"const", "push_sC2s", <<"string", 2>>>>, <<"const", "push_nC2n", <<"longlong", -7>>>>,
         Part1("dot_len_u2n_l", "compend"), Part1("dot_id_usC2u", "compend"),
         Part1("dot_d_u2u", "compend"), Part1("dot_tid_u2s", "compend"),
         Comp(<<<<"index_ulC2u", 0>>>>, "compend"), Part1("assoc_usC2u", "compend"),
         Part1("tagid_usC2u", "compend"), Part1("tagnum_ulC2u", "exist_X2b"), Part1("tagdef_u2u", "compend"),
         Comp(<<<<"index_ulC2u", 0>>, <<"dot_num_ulC2u", 0>>>>, "compend"),
         Comp(<<<<"dot_len_u2n_l", 0>>, <<"dot_id_usC2u", 1>>>>, "compend"),
         Comp(<<>>, "default_X2b"), Comp(<<>>, "exist_X2b"), <<"unsupported">>}
Binary(O, L, R) == {<<o, l, r>> : o \in O, l \in L, r \in R}
Unary(L) == {<<"not", l>> : l \in L}
AllOps == CompareOps \cup ArithOps \cup {"and", "or", "~"}
(* Every operator on every pair of leaves, and trees of depth two and three. *)
Flat == Binary(AllOps, Leaves \cup More, Leaves \cup More) \cup Binary({"in"}, Leaves \cup More, {X})
Inner == Binary({"and", "or", "==", "+", "/"}, Leaves, Leaves) \cup Binary({"in"}, Leaves, {X}) \cup Unary({X, True})
Outer == Binary({"and", "or", "<", "-"}, Inner, Leaves) \cup Binary({"and", "or", "<", "-"}, Leaves, Inner) \cup Unary(Inner)
\* Sums that need n places, and disjunctions of n components.
Sum[n \in Nat] == IF n = 1 THEN Two ELSE <<"+", Two, Sum[n - 1]>>
Chain[n \in Nat] == IF n = 1 THEN X ELSE <<"or", Chain[n - 1], X>>
Large == Binary({"<"}, {Sum[n] : n \in 8..11}, {Two}) \cup Binary({"<"}, {X}, {Sum[n] : n \in 8..10})
         \cup {Chain[n] : n \in 5..8}
Deep == Binary({"or"}, Leaves, Unary(Binary({"or"}, Leaves, Leaves)))
MCTrees == Large \cup Deep \cup Binary({"in", "=="}, {Y}, {X}) \cup Leaves \cup More \cup Unary(Leaves \cup More) \cup Flat \cup Outer
=============================================================================
