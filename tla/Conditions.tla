----------------------------- MODULE Conditions -----------------------------
(***************************************************************************)
(* What menu_finalize (kconfig/menu.c) makes of the conditions of menu     *)
(* entries, pass by pass.  Two conditions are finalised one after the      *)
(* other.  In the shape "nested" they are the dependencies of an entry and *)
(* the condition of a property of it, which inherits them; in the shape    *)
(* "siblings" they are the prompt conditions of an entry for the symbol    *)
(* Above and of the entry that follows, and the second entry becomes part   *)
(* of an implicit submenu of the first if it depends on it.                *)
(***************************************************************************)
EXTENDS Expr

CONSTANTS
    First, Second,   \* the conditions as they are parsed
    Above             \* the symbol of the first of two siblings

(* Joining conditions, and comparing them, nests by two levels at most.    *)
ASSUME ParsedAssumption ==
    MaxDepth > 1 /\ First \cup Second \subseteq Depth[MaxDepth - 2] \cup {Null}
ASSUME AboveAssumption == Above \in Symbols

Shape == {"nested", "siblings"}

VARIABLES
    raw,      \* the two conditions as parsed
    shape,
    type,     \* the type of the symbol the second condition is about
    done,     \* what has been made of them, and then of their comparisons
    cond,     \* the expression in work
    pc,       \* "transform", "dups", "next" or "end"
    opposed,  \* an operand was dropped as the opposite of others
    submenu   \* the second entry was put below the first

vars == << raw, shape, type, done, cond, pc, opposed, submenu >>

Init ==
    /\ raw \in First \X Second
    /\ shape \in Shape
    /\ type \in {"bool", "tristate"}
    /\ done = << >>
    /\ cond = raw[1]
    /\ pc = "transform"
    /\ opposed = FALSE
    /\ submenu = FALSE

(* The condition the one in work is joined with.                           *)
Outer == IF shape = "nested" /\ Len(done) = 1 THEN done[1] ELSE Null

Transform ==
    /\ pc = "transform"
    /\ cond' = expr_alloc_and(Outer, expr_transform[cond])
    /\ pc' = "dups"
    /\ UNCHANGED << raw, shape, type, done, opposed, submenu >>

-----------------------------------------------------------------------------
(* The loop of expr_eliminate_dups                                         *)

(* What the two passes make of e, one after the other.                     *)
Passes(e) ==
    LET first == expr_eliminate_dups1[e]
    IN  << first, expr_eliminate_dups2[[e EXCEPT !.args = first.es]] >>

(* Variant: constants are left in.                                         *)
AgainKeep ==
    /\ pc = "dups"
    /\ cond.op \in AndOr
    /\ \E p \in {Passes(cond)} :
          /\ p[1].trans \/ p[2].trans
          /\ cond' = [cond EXCEPT !.args = p[2].es]
          /\ opposed' = (opposed \/ p[2].trans)
    /\ UNCHANGED << raw, shape, type, done, pc, submenu >>
Again ==
    /\ pc = "dups"
    /\ cond.op \in AndOr
    /\ \E p \in {Passes(cond)} :
          /\ p[1].trans \/ p[2].trans
          /\ cond' = expr_eliminate_yn[[cond EXCEPT !.args = p[2].es]]
          /\ opposed' = (opposed \/ p[2].trans)
    /\ UNCHANGED << raw, shape, type, done, pc, submenu >>

Settled ==
    cond.op \in AndOr =>
        \A p \in {Passes(cond)} : ~p[1].trans /\ ~p[2].trans

IsProperty == shape = "siblings" \/ Len(done) = 1
OfBool == IF Len(done) = 0 THEN Above \in Bools ELSE type = "bool"

Finished ==
    IF Len(done) < 2 /\ IsProperty /\ OfBool THEN expr_trans_bool[cond] ELSE cond

Finish ==
    /\ pc = "dups"
    /\ Settled
    /\ done' = Append(done, Finished)
    /\ pc' = "next"
    /\ UNCHANGED << raw, shape, type, cond, opposed, submenu >>

-----------------------------------------------------------------------------
(* Which condition is next                                                 *)

NextCondition ==
    /\ pc = "next" /\ Len(done) = 1
    /\ cond' = raw[2]
    /\ pc' = "transform"
    /\ UNCHANGED << raw, shape, type, done, opposed, submenu >>

Compared(e) == expr_trans_compare[e][<< "neq", "n" >>]

CompareFirst ==
    /\ pc = "next" /\ Len(done) = 2 /\ shape = "siblings"
    /\ cond' = Compared(done[1])
    /\ pc' = "transform"
    /\ UNCHANGED << raw, shape, type, done, opposed, submenu >>

NoSubmenu ==
    /\ pc = "next" /\ Len(done) = 3
    /\ ~expr_contains_symbol[done[2]][Above]
    /\ pc' = "end"
    /\ UNCHANGED << raw, shape, type, done, cond, opposed, submenu >>

Submenu ==
    /\ pc = "next" /\ Len(done) = 3
    /\ expr_contains_symbol[done[2]][Above]
    /\ expr_depends_symbol[done[2]][Above]
    /\ submenu' = TRUE
    /\ pc' = "end"
    /\ UNCHANGED << raw, shape, type, done, cond, opposed >>

CompareSecond ==
    /\ pc = "next" /\ Len(done) = 3
    /\ expr_contains_symbol[done[2]][Above]
    /\ ~expr_depends_symbol[done[2]][Above]
    /\ cond' = Compared(done[2])
    /\ pc' = "transform"
    /\ UNCHANGED << raw, shape, type, done, opposed, submenu >>

(* Everything e2 asks for, e1 asks for too.                                *)
(* Variant: it is the other way round.                                     *)
CoverSwapped(e1, e2) == expr_is_yes(expr_eliminate_eq(e1, e2)[1])
Cover(e1, e2) == expr_is_yes(expr_eliminate_eq(e1, e2)[2])

Decide ==
    /\ pc = "next" /\ Len(done) = 4
    /\ submenu' = Cover(done[4], done[3])
    /\ pc' = "end"
    /\ UNCHANGED << raw, shape, type, done, cond, opposed >>

End ==
    /\ pc = "next" /\ Len(done) = 2 /\ shape = "nested"
    /\ pc' = "end"
    /\ UNCHANGED << raw, shape, type, done, cond, opposed, submenu >>

Stop == pc = "end" /\ UNCHANGED vars

Next ==
    \/ Transform \/ Again \/ Finish
    \/ NextCondition \/ CompareFirst \/ CompareSecond
    \/ NoSubmenu \/ Submenu \/ Decide \/ End \/ Stop

Spec == Init /\ [][Next]_vars

-----------------------------------------------------------------------------
(* Expressions stay trees of binary operators with operands, of which only *)
(* a whole condition may be absent.                                        *)
TypeOK ==
    /\ raw \in First \X Second
    /\ shape \in Shape /\ type \in {"bool", "tristate"}
    /\ cond \in Conds
    /\ Len(done) <= 4 /\ done \in Seq(Conds)
    /\ pc \in {"transform", "dups", "next", "end"}
    /\ opposed \in BOOLEAN /\ submenu \in BOOLEAN

Assignments == {v \in Values : \A s \in Bools : v[s] # mod}
TwoValued == [Symbols -> {no, yes}]

And(a, b) == Min({a, b})
NotNo(a) == IF a = no THEN no ELSE yes

(* What each of the finished expressions stands for.                       *)
Meaning(k, v) ==
    CASE k = 1 -> expr_calc_value[raw[1]][v]
      [] k = 2 -> IF shape = "nested"
                  THEN And(expr_calc_value[raw[1]][v], expr_calc_value[raw[2]][v])
                  ELSE expr_calc_value[raw[2]][v]
      [] OTHER -> NotNo(expr_calc_value[done[k - 2]][v])

(* The condition of a prompt of a bool symbol is n or not.                 *)
Same(k, a, b) ==
    IF (k = 1 /\ shape = "siblings" /\ Above \in Bools) \/ (k = 2 /\ type = "bool")
    THEN NotNo(a) = NotNo(b)
    ELSE a = b

(* Simplification keeps the value of a condition, for every value of the   *)
(* symbols; where it drops opposites, and where conditions are compared    *)
(* with n, for values other than m.                                        *)
MeaningKept ==
    \A k \in DOMAIN done :
        \A v \in (IF opposed \/ k > 2 THEN TwoValued ELSE Assignments) :
            Same(k, expr_calc_value[done[k]][v], Meaning(k, v))

(* An entry is put below another one only if it is invisible whenever the  *)
(* symbol above is n, or if it is invisible whenever the prompt above is.  *)
(* In both cases menu_is_visible shows the entry above where it is visible.*)
BelowSymbol ==
    \A v \in TwoValued : v[Above] = no => expr_calc_value[done[2]][v] = no
BelowPrompt ==
    \A v \in TwoValued :
        expr_calc_value[done[1]][v] = no => expr_calc_value[done[2]][v] = no
SubmenuDepends == submenu => BelowSymbol \/ BelowPrompt

(* The loop of expr_eliminate_dups ends, for every condition: each time    *)
(* round it leaves an expression with fewer leaves.                        *)
LoopShrinks ==
    [][pc = "dups" /\ pc' = "dups" => LeafCount[cond'] < LeafCount[cond]]_vars
=============================================================================
