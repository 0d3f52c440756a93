---- MODULE MC_Conditions ----
(***************************************************************************)
(* An instance of Conditions: a bool and two tristate symbols; conditions  *)
(* of one or two tests, negated or not.                                    *)
(***************************************************************************)
EXTENDS Conditions

Test(op, s, c) == expr_alloc_comp(op, s, c)
A == expr_alloc_symbol("A")
T == expr_alloc_symbol("T")

OfT == {T, Not(T)} \cup {Test(op, "T", c) : op \in {"eq", "neq"}, c \in Const}
OfA == {A, Not(A), Test("eq", "A", "n"), Test("neq", "A", "m")}
Tests == OfT \cup OfA \cup {Y, N, Test("eq", "T", "U")}

Few == {A, T, Not(T), Test("eq", "T", "m"), Test("neq", "T", "n")}
Pair(op, a, b) == Nary(op, << a, b >>)
PairsOf(s) == {Pair(op, a, b) : op \in AndOr, a \in s, b \in s}

MC_First == {Null} \cup Tests \cup PairsOf(Few)
MC_Second == Tests \cup PairsOf(Few) \cup {Not(e) : e \in PairsOf({A, T, Test("neq", "T", "n")})}
====
