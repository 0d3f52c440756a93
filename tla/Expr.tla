-------------------------------- MODULE Expr --------------------------------
(***************************************************************************)
(* The expressions of kconfig/expr.c and what it does to them: evaluation, *)
(* elimination of constants, of duplicates and of opposites, negation      *)
(* normal form, comparison, and the tests menu_finalize builds on them.    *)
(*                                                                         *)
(* An expression is a record.  The C functions walk a tree of binary ANDs  *)
(* and ORs leaf by leaf and never ask how it is bracketed, so that a tree  *)
(* of one operator is a sequence args of its leaves, none of which has     *)
(* that operator.  NULL is Null.  What C overwrites in place, the          *)
(* operators here return.                                                  *)
(***************************************************************************)
EXTENDS Integers, SequencesExt

CONSTANTS
    Bools, Tristates,   \* the symbols that are bool and tristate
    MaxDepth            \* bound: how deep expressions are nested

ASSUME DepthAssumption == MaxDepth \in Nat
ASSUME NamesAssumption == (Bools \cup Tristates) \cap {"n", "m", "y"} = {}

(* The fold over a sequence of what F does to a state, in the context c.   *)
Fold(F(_, _, _), c, base, s) ==
    LET st[k \in 0..Len(s)] == IF k = 0 THEN base ELSE F(c, st[k - 1], s[k])
    IN  st[Len(s)]

no == 0
mod == 1
yes == 2

Const == {"n", "m", "y"}
AndOr == {"and", "or"}
Dual(op) == IF op = "and" THEN "or" ELSE "and"
Flip(op) == IF op = "eq" THEN "neq" ELSE "eq"

Null == [op |-> "null"]
expr_alloc_symbol(s) == [op |-> "sym", sym |-> s]
expr_alloc_comp(op, s, c) == [op |-> op, sym |-> s, val |-> c]
Not(e) == [op |-> "not", arg |-> e]
Y == expr_alloc_symbol("y")
N == expr_alloc_symbol("n")
Neutral(op) == IF op = "and" THEN Y ELSE N
Absorbing(op) == Neutral(Dual(op))

Leaves(op, e) == IF e.op = op THEN e.args ELSE << e >>
Nary(op, es) ==
    IF Len(es) = 1
    THEN es[1]
    ELSE [op |-> op,
          args |-> FlattenSeq([i \in DOMAIN es |-> Leaves(op, es[i])])]

expr_alloc_and(e1, e2) ==
    IF e1 = Null THEN e2 ELSE IF e2 = Null THEN e1 ELSE Nary("and", << e1, e2 >>)

-----------------------------------------------------------------------------
(* The expressions, and their values for the values v of the symbols.  The *)
(* constant m is compared with, but no operand: a dependency m, of which   *)
(* menu_check_dep makes m && MODULES, is left out.                         *)
Symbols == Bools \cup Tristates
Names == Symbols \cup Const
Atoms == [op : {"sym"}, sym : Names \ {"m"}]
Comparisons == [op : {"eq", "neq"}, sym : Names, val : Names]
Trees(S) ==
    {e \in [op : AndOr, args : Seq(S)] :
        Len(e.args) > 1 /\ \A i \in DOMAIN e.args : e.args[i].op # e.op}

Depth[n \in Nat] ==
    IF n = 0
    THEN Atoms
    ELSE Atoms \cup Comparisons \cup [op : {"not"}, arg : Depth[n - 1]]
               \cup Trees(Depth[n - 1])
Exprs == Depth[MaxDepth]
Branches == {e \in Exprs : e.op \in AndOr}
Conds == Exprs \cup {Null}
Values == [Symbols -> no..yes]

ValueOf(s, v) ==
    CASE s = "n" -> no [] s = "m" -> mod [] s = "y" -> yes [] OTHER -> v[s]

expr_calc_value[e \in Conds] ==
    [v \in Values |->
        IF e.op = "null" THEN yes
        ELSE IF e.op = "sym" THEN ValueOf(e.sym, v)
        ELSE IF e.op = "not" THEN 2 - expr_calc_value[e.arg][v]
        ELSE IF e.op = "and"
             THEN Min({expr_calc_value[e.args[i]][v] : i \in DOMAIN e.args})
        ELSE IF e.op = "or"
             THEN Max({expr_calc_value[e.args[i]][v] : i \in DOMAIN e.args})
        ELSE IF (ValueOf(e.sym, v) = ValueOf(e.val, v)) = (e.op = "eq") THEN yes
        ELSE no]

-----------------------------------------------------------------------------
(* Constants                                                               *)

WithoutNeutral(op, es) ==
    FlattenSeq([i \in DOMAIN es |-> IF es[i] = Neutral(op) THEN << >> ELSE << es[i] >>])

(* Variant: an operator all of whose operands go is left without any.      *)
ReducedEmpty(op, es) ==
    IF Absorbing(op) \in Range(es) THEN Absorbing(op)
                                   ELSE Nary(op, WithoutNeutral(op, es))
Reduced(op, es) ==
    IF Absorbing(op) \in Range(es) THEN Absorbing(op)
    ELSE IF WithoutNeutral(op, es) = << >> THEN Neutral(op)
    ELSE Nary(op, WithoutNeutral(op, es))

expr_eliminate_yn[e \in Exprs] ==
    IF e.op \in AndOr
    THEN Reduced(e.op, [i \in DOMAIN e.args |-> expr_eliminate_yn[e.args[i]]])
    ELSE e

expr_is_yes(e) == e = Null \/ e = Y

-----------------------------------------------------------------------------
(* Equality: leaves that two expressions share cancel each other.          *)

(* All pairs <<i, j>>, row by row: the order in which the nested recursion *)
(* over two trees meets their leaves.                                      *)
Pairs(m, n) == [k \in 1 .. m * n |-> << 1 + ((k - 1) \div n), 1 + ((k - 1) % n) >>]

(* These take the function expr_eq as eq, which they are part of.          *)
Cancels(eq, a, b) == ~(a = b /\ a \in {Y, N}) /\ eq[<< a, b >>]

CancelAt(c, ls, p) ==
    IF Cancels(c.eq, ls[1][p[1]], ls[2][p[2]])
    THEN << [ls[1] EXCEPT ![p[1]] = Neutral(c.op)],
            [ls[2] EXCEPT ![p[2]] = Neutral(c.op)] >>
    ELSE ls

CancelLeaves(eq, op, l1, l2) ==
    Fold(CancelAt, [eq |-> eq, op |-> op], << l1, l2 >>, Pairs(Len(l1), Len(l2)))

AsExprs(op, ls) == << Nary(op, ls[1]), Nary(op, ls[2]) >>
Cancel(eq, op, es) ==
    AsExprs(op, CancelLeaves(eq, op, Leaves(op, es[1]), Leaves(op, es[2])))

CancelFirst(eq, es) == IF es[1].op \in AndOr THEN Cancel(eq, es[1].op, es) ELSE es
CancelSecond(eq, es) ==
    IF es[2].op \in AndOr \ {es[1].op} THEN Cancel(eq, es[2].op, es) ELSE es

Tidy(es) == << expr_eliminate_yn[es[1]], expr_eliminate_yn[es[2]] >>
Eliminated(eq, es) == Tidy(CancelSecond(eq, CancelFirst(eq, es)))

SameSymbol(es) == es[1].op = "sym" /\ es[1] = es[2]

expr_eq[es \in Exprs \X Exprs] ==
    /\ es[1].op = es[2].op
    /\ IF es[1].op \in AndOr THEN SameSymbol(Eliminated(expr_eq, es))
       ELSE IF es[1].op = "not" THEN expr_eq[<< es[1].arg, es[2].arg >>]
       ELSE es[1] = es[2]

expr_eliminate_eq(e1, e2) ==
    IF Null \in {e1, e2} THEN << e1, e2 >> ELSE Eliminated(expr_eq, << e1, e2 >>)

-----------------------------------------------------------------------------
(* Negation normal form                                                    *)

Opposite(s) == CASE s = "y" -> "n" [] s = "n" -> "y" [] OTHER -> s

(* What a comparison of a bool symbol with a constant comes to.            *)
BoolTest(e) ==
    IF e.val = "m" THEN (IF e.op = "eq" THEN N ELSE Y)
    ELSE IF (e.val = "y") = (e.op = "eq") THEN expr_alloc_symbol(e.sym)
    ELSE Not(expr_alloc_symbol(e.sym))

(* The negation of an expression in normal form, by the function transform *)
(* that this is part of.                                                   *)
Negated(transform, e) ==
    CASE e.op = "not" -> transform[e.arg]
      [] e.op \in {"eq", "neq"} -> [e EXCEPT !.op = Flip(@)]
      [] e.op \in AndOr ->
           Nary(Dual(e.op), [i \in DOMAIN e.args |-> transform[Not(e.args[i])]])
      [] e.op = "sym" /\ e.sym \in Const -> expr_alloc_symbol(Opposite(e.sym))
      [] OTHER -> Not(e)

expr_transform[e \in Conds] ==
    IF e.op \in AndOr
    THEN Nary(e.op, [i \in DOMAIN e.args |-> expr_transform[e.args[i]]])
    ELSE IF e.op = "not" THEN Negated(expr_transform, expr_transform[e.arg])
    ELSE IF e.op \in {"eq", "neq"} /\ e.sym \in Bools /\ e.val \in Const
         THEN BoolTest(e)
    ELSE e

-----------------------------------------------------------------------------
(* Joining two operands that speak about the same symbol                   *)

SymOf(e) == IF e.op = "not" THEN e.arg.sym ELSE e.sym

Joinable(e1, e2) ==
    /\ {e1.op, e2.op} \subseteq {"eq", "neq", "sym", "not"}
    /\ e1.op = "not" => e1.arg.op \in {"eq", "neq", "sym"}
    /\ e2.op = "not" => e2.arg.op = "sym"
    /\ SymOf(e1) = SymOf(e2)
    /\ SymOf(e1) \in Symbols

Other(a, b) == CHOOSE c \in Const : c \notin {a, b}

BothTest(op, e1, e2) ==
    /\ e1.op = op /\ e2.op = op
    /\ {e1.val, e2.val} \subseteq Const
    /\ e1.sym \in Tristates

JoinOrSame(e1, e2, s) ==
    CASE BothTest("eq", e1, e2) ->
           expr_alloc_comp("neq", s, Other(e1.val, e2.val))
      [] s \in Bools /\ {e1, e2} = {expr_alloc_symbol(s),
                                    Not(expr_alloc_symbol(s))} -> Y
      [] OTHER -> Null

expr_join_or(e1, e2) ==
    IF expr_eq[<< e1, e2 >>] THEN e1
    ELSE IF Joinable(e1, e2) THEN JoinOrSame(e1, e2, SymOf(e1))
    ELSE Null

(* (a = b) && (a != c), in either order, for constants b and c.            *)
EqualAndNot(e1, e2) ==
    /\ e1.op = "eq" /\ e2.op = "neq"
    /\ {e1.val, e2.val} \subseteq Const
    /\ e1.sym \in Tristates
IfDiffers(e1, e2) == IF e1.val # e2.val THEN e1 ELSE N

IsWith(e1, e2, s, op, c) ==
    {e1, e2} = {expr_alloc_symbol(s), expr_alloc_comp(op, s, c)}

(* Variant: (a != 'm') && (a != 'n') is taken for (a = 'm').               *)
JoinAndSameMod(e1, e2, s) ==
    CASE IsWith(e1, e2, s, "eq", "y") -> expr_alloc_comp("eq", s, "y")
      [] IsWith(e1, e2, s, "neq", "n") -> expr_alloc_symbol(s)
      [] IsWith(e1, e2, s, "neq", "m") -> expr_alloc_comp("eq", s, "y")
      [] EqualAndNot(e1, e2) -> IfDiffers(e1, e2)
      [] EqualAndNot(e2, e1) -> IfDiffers(e2, e1)
      [] BothTest("neq", e1, e2) ->
           expr_alloc_comp("eq", s, IF {e1.val, e2.val} = {"m", "n"}
                                    THEN "m" ELSE Other(e1.val, e2.val))
      [] OTHER -> Null
JoinAndSame(e1, e2, s) ==
    CASE IsWith(e1, e2, s, "eq", "y") -> expr_alloc_comp("eq", s, "y")
      [] IsWith(e1, e2, s, "neq", "n") -> expr_alloc_symbol(s)
      [] IsWith(e1, e2, s, "neq", "m") -> expr_alloc_comp("eq", s, "y")
      [] EqualAndNot(e1, e2) -> IfDiffers(e1, e2)
      [] EqualAndNot(e2, e1) -> IfDiffers(e2, e1)
      [] BothTest("neq", e1, e2) ->
           expr_alloc_comp("eq", s, Other(e1.val, e2.val))
      [] OTHER -> Null

expr_join_and(e1, e2) ==
    IF expr_eq[<< e1, e2 >>] THEN e1
    ELSE IF Joinable(e1, e2) THEN JoinAndSame(e1, e2, SymOf(e1))
    ELSE Null

Join(op, e1, e2) ==
    IF op = "and" THEN expr_join_and(e1, e2) ELSE expr_join_or(e1, e2)

-----------------------------------------------------------------------------
(* Duplicates and opposites.  A pass over the operands es of an operator   *)
(* also tells whether it changed any: trans_count is not 0.                *)

Inside(st, i, inner) ==
    [es |-> [st.es EXCEPT ![i].args = inner.es],
     trans |-> st.trans \/ inner.trans]

JoinedAt(op, st, i, j, e) ==
    IF e = Null
    THEN st
    ELSE [es |-> [st.es EXCEPT ![i] = Neutral(op), ![j] = e], trans |-> TRUE]

TryJoin(op, st, i, j) == JoinedAt(op, st, i, j, Join(op, st.es[i], st.es[j]))

Unchanged(es) == [es |-> es, trans |-> FALSE]

(* What is inside the operand i comes first, by the function dups1.        *)
InnerDups1(dups1, st, i) ==
    IF st.es[i].op \in AndOr THEN Inside(st, i, dups1[st.es[i]]) ELSE st

Dups1At(c, st, p) ==
    IF p[1] = p[2]
    THEN st
    ELSE TryJoin(c.op, InnerDups1(c.dups1, st, p[1]), p[1], p[2])

expr_eliminate_dups1[e \in Branches] ==
    Fold(Dups1At, [op |-> e.op, dups1 |-> expr_eliminate_dups1], Unchanged(e.args),
         Pairs(Len(e.args), Len(e.args)))

(* expr_extract_eq: operands of l1 that l2 has too are taken out of both.  *)
ExtractAt(op, ls, p) ==
    IF expr_eq[<< ls[1][p[1]], ls[2][p[2]] >>]
    THEN << [ls[1] EXCEPT ![p[1]] = Neutral(op)],
            [ls[2] EXCEPT ![p[2]] = Neutral(op)], TRUE >>
    ELSE ls

expr_extract_eq(op, l1, l2) ==
    Fold(ExtractAt, op, << l1, l2, FALSE >>, Pairs(Len(l1), Len(l2)))

(* Everything in l1 was found in l2.                                       *)
NothingLeft(op, ls) ==
    ls[3] /\ expr_eliminate_yn[Nary(op, ls[1])] = Neutral(op)
AllIn(op, e, es) == NothingLeft(op, expr_extract_eq(op, Leaves(op, e), es))

(* (FOO || BAR) && (!FOO && !BAR) -> n, and its dual.                      *)
IfOpposed(op, st, i) ==
    IF AllIn(op, expr_transform[Not(st.es[i])], st.es)
    THEN [es |-> [st.es EXCEPT ![i] = Absorbing(op)], trans |-> TRUE]
    ELSE st

Dups2At(c, st, i) ==
    IF st.es[i].op \in AndOr
    THEN IfOpposed(c.op, Inside(st, i, c.dups2[st.es[i]]), i)
    ELSE st

expr_eliminate_dups2[e \in Branches] ==
    Fold(Dups2At, [op |-> e.op, dups2 |-> expr_eliminate_dups2], Unchanged(e.args),
         [i \in 1 .. Len(e.args) |-> i])

-----------------------------------------------------------------------------
(* What menu_finalize asks and makes of a condition                        *)

expr_trans_bool[e \in Conds] ==
    IF e.op \in AndOr
    THEN [e EXCEPT !.args = [i \in DOMAIN e.args |-> expr_trans_bool[e.args[i]]]]
    ELSE IF e.op = "not" THEN Not(expr_trans_bool[e.arg])
    ELSE IF e.op = "neq" /\ e.sym \in Tristates /\ e.val = "n"
         THEN expr_alloc_symbol(e.sym)
    ELSE e

NotIf(cond, e) == IF cond THEN Not(e) ELSE e

(* A comparison of the value of e with s, of which op is "eq" or "neq".    *)
CompareTree(compare, e, s) ==
    IF s = "m"
    THEN e
    ELSE Nary(IF s = "y" THEN e.op ELSE Dual(e.op),
              [i \in DOMAIN e.args |-> compare[e.args[i]][<< "eq", s >>]])
CompareTest(e, op, s) ==
    IF s = "m" THEN (IF op = "eq" THEN N ELSE Y)
               ELSE NotIf((op = "eq") # (s = "y"), e)

expr_trans_compare[e \in Conds] ==
    [with \in {"eq", "neq"} \X Const |->
        IF e.op = "null"
        THEN NotIf(with[1] = "neq", expr_alloc_symbol(with[2]))
        ELSE IF e.op \in AndOr
             THEN NotIf(with[1] = "neq", CompareTree(expr_trans_compare, e, with[2]))
        ELSE IF e.op = "not"
             THEN expr_trans_compare[e.arg][<< Flip(with[1]), with[2] >>]
        ELSE IF e.op = "sym" THEN expr_alloc_comp(with[1], e.sym, with[2])
        ELSE CompareTest(e, with[1], with[2])]

expr_contains_symbol[e \in Conds] ==
    [s \in Symbols |->
        IF e.op \in AndOr
        THEN \E i \in DOMAIN e.args : expr_contains_symbol[e.args[i]][s]
        ELSE IF e.op = "not" THEN expr_contains_symbol[e.arg][s]
        ELSE IF e.op = "sym" THEN e.sym = s
        ELSE e.op \in {"eq", "neq"} /\ s \in {e.sym, e.val}]

expr_depends_symbol[e \in Conds] ==
    [s \in Symbols |->
        IF e.op = "and"
        THEN \E i \in DOMAIN e.args : expr_depends_symbol[e.args[i]][s]
        ELSE \/ e.op = "sym" /\ e.sym = s
             \/ e.op = "eq" /\ e.sym = s /\ e.val \in {"y", "m"}
             \/ e.op = "neq" /\ e.sym = s /\ e.val = "n"]

-----------------------------------------------------------------------------
(* How many leaves an expression has.                                      *)
AddLeaves(leaves, n, e) == n + leaves[e]
LeafCount[e \in Conds] ==
    IF e.op \in AndOr THEN Fold(AddLeaves, LeafCount, 0, e.args) ELSE 1
=============================================================================
