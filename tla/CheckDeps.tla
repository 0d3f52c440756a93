----------------------------- MODULE CheckDeps -----------------------------
(***************************************************************************)
(* sym_check_deps (kconfig/symbol.c), the depth-first search for recursive *)
(* dependencies that conf_parse (kconfig/zconf.y) starts from each symbol  *)
(* of the symbol table, in hash order, once the Kconfig files are read.    *)
(* A symbol has SYMBOL_CHECK while the search is below it, and             *)
(* SYMBOL_CHECKED from then on; the values of a choice have them together  *)
(* with their choice.                                                      *)
(*                                                                         *)
(* The dependencies of a symbol are those sym_check_sym_deps follows: its  *)
(* reverse dependencies, the conditions of its properties, and, unless it  *)
(* is a choice, its defaults.  The order of the expressions is left open.  *)
(***************************************************************************)
EXTENDS Integers, Sequences

CONSTANTS
    Sym,     \* symbols
    None,    \* no symbol
    Choice,  \* the choice a choice value belongs to, or None
    Trees    \* the dependencies, [symbol -> symbols], of each Kconfig tree

ASSUME ConstantsAssumption ==
    /\ None \notin Sym
    /\ Choice \in [Sym -> Sym \cup {None}]
    /\ \A s \in Sym : Choice[s] # None => Choice[Choice[s]] = None
    /\ Trees \subseteq [Sym -> SUBSET Sym]

Members(c) == {s \in Sym : Choice[s] = c}
(* For choice groups the check starts with the choice.                     *)
Start(s) == IF Choice[s] = None THEN s ELSE Choice[s]
Group(s) == {s} \cup Members(s)

VARIABLES
    deps,      \* the tree
    todo,      \* symbols conf_parse has not come to
    check,     \* symbols flagged SYMBOL_CHECK
    checked,   \* symbols flagged SYMBOL_CHECKED
    stack,     \* calls of sym_check_deps, the innermost last
    found,     \* the symbol they return on the way back, or None
    reported,  \* "recursive dependency detected!" was printed
    errors,    \* zconfnerrs
    rank,      \* history: when the search was done with each symbol
    clock      \* history

vars == <<deps, todo, check, checked, stack, found, reported, errors, rank, clock>>

(* A call: its symbol, the dependencies it has not followed yet, and       *)
(* whether those are of the symbol itself or of the values of a choice.    *)
Frame == [sym : Sym, left : SUBSET Sym, own : BOOLEAN]
Top == stack[Len(stack)]
Pop == SubSeq(stack, 1, Len(stack) - 1)

Init ==
    /\ deps \in Trees
    /\ todo = Sym
    /\ check = {}
    /\ checked = {}
    /\ stack = << >>
    /\ found = None
    /\ reported = FALSE
    /\ errors = 0
    /\ rank = [s \in Sym |-> 0]
    /\ clock = 0

(* sym_check_deps on a symbol that has neither flag, called by the calls   *)
(* of rest.                                                                *)
Enter(s, rest) ==
    LET g == Start(s) IN
    /\ stack' = Append(rest, [sym |-> g, left |-> deps[g], own |-> TRUE])
    /\ check' = check \cup Group(g)
    /\ checked' = checked \cup Group(g)

(* The loop of conf_parse.                                                 *)
CheckSymbol(s) ==
    /\ stack = << >>
    /\ s \in todo
    /\ todo' = todo \ {s}
    /\ IF s \in checked
       THEN UNCHANGED <<check, checked, stack>>
       ELSE Enter(s, stack)
    /\ UNCHANGED <<deps, found, reported, errors, rank, clock>>

(* The innermost call has the dependency d to follow.                      *)
Follows(d) ==
    /\ stack # << >>
    /\ found = None
    /\ d \in Top.left
Followed(d) == [stack EXCEPT ![Len(stack)].left = @ \ {d}]

(* It is being checked already: the cycle is printed.                      *)
Recursive(d) ==
    /\ Follows(d)
    /\ d \in check
    /\ found' = d
    /\ reported' = TRUE
    /\ UNCHANGED <<deps, todo, check, checked, stack, errors, rank, clock>>

(* Variants: SYMBOL_CHECKED is looked at before SYMBOL_CHECK; the search   *)
(* does not go on to the next dependency.                                  *)
SkipFirst(d) ==
    /\ Follows(d)
    /\ d \in checked
    /\ stack' = Followed(d)
    /\ UNCHANGED <<deps, todo, check, checked, found, reported, errors, rank, clock>>

SkipKeep(d) ==
    /\ Follows(d)
    /\ d \in checked \ check
    /\ UNCHANGED vars

Skip(d) ==
    /\ Follows(d)
    /\ d \in checked \ check
    /\ stack' = Followed(d)
    /\ UNCHANGED <<deps, todo, check, checked, found, reported, errors, rank, clock>>

Descend(d) ==
    /\ Follows(d)
    /\ d \notin check \cup checked
    /\ Enter(d, Followed(d))
    /\ UNCHANGED <<deps, todo, found, reported, errors, rank, clock>>

(* sym_check_choice_deps is done with the choice and goes on to its values.*)
ToValues ==
    /\ stack # << >>
    /\ found = None
    /\ Top.left = {}
    /\ Top.own
    /\ Members(Top.sym) # {}
    /\ check' = check \ {Top.sym}
    /\ stack' = Append(Pop, [sym |-> Top.sym, own |-> FALSE,
                             left |-> UNION {deps[m] : m \in Members(Top.sym)}])
    /\ rank' = [rank EXCEPT ![Top.sym] = clock]
    /\ clock' = clock + 1
    /\ UNCHANGED <<deps, todo, checked, found, reported, errors>>

(* Variant: SYMBOL_CHECK is not cleared.                                   *)
ReturnKeepFlag ==
    /\ stack # << >>
    /\ found = None
    /\ Top.left = {}
    /\ Top.own => Members(Top.sym) = {}
    /\ stack' = Pop
    /\ UNCHANGED <<deps, todo, check, checked, found, reported, errors, rank, clock>>

(* The innermost call returns NULL.                                        *)
Return ==
    /\ stack # << >>
    /\ found = None
    /\ Top.left = {}
    /\ Top.own => Members(Top.sym) = {}
    /\ stack' = Pop
    /\ check' = check \ Group(Top.sym)
    /\ rank' = [s \in Sym |-> IF s \in check \cap Group(Top.sym) THEN clock ELSE rank[s]]
    /\ clock' = clock + 1
    /\ UNCHANGED <<deps, todo, checked, found, reported, errors>>

(* The innermost call is on the way back with a symbol a cycle was found   *)
(* at.  The call for that symbol, or for its choice, turns it into NULL;   *)
(* what is left of the others is not followed.                             *)
ReturnFound ==
    /\ stack # << >>
    /\ found # None
    /\ stack' = Pop
    /\ check' = check \ Group(Top.sym)
    /\ IF found \in Group(Top.sym)
       THEN found' = None /\ UNCHANGED errors
       ELSE IF Len(stack) = 1
       THEN found' = None /\ errors' = errors + 1
       ELSE UNCHANGED <<found, errors>>
    /\ UNCHANGED <<deps, todo, checked, reported, rank, clock>>

Next ==
    \/ \E s \in Sym : CheckSymbol(s) \/ Recursive(s) \/ Skip(s) \/ Descend(s)
    \/ ToValues
    \/ Return
    \/ ReturnFound

Spec == Init /\ [][Next]_vars
(* conf_parse is sequential and does not stop before its loop is over.     *)
FairSpec == Spec /\ WF_vars(Next)

-----------------------------------------------------------------------------
TypeOK ==
    /\ deps \in Trees
    /\ todo \in SUBSET Sym
    /\ checked \in SUBSET Sym
    /\ check \in SUBSET checked
    /\ stack \in Seq(Frame)
    /\ found \in Sym \cup {None}
    /\ reported \in BOOLEAN
    /\ errors \in Nat
    /\ rank \in [Sym -> Nat]
    /\ clock \in Nat

Finished == todo = {} /\ stack = << >>

(* No symbol of S can be calculated before another one of S.               *)
Cyclic(S, reads) == S # {} /\ \A s \in S : reads[s] \cap S # {}

(* When nothing is printed no symbol depends on itself, in whatever order  *)
(* the symbol table is walked: what sym_calc_value relies on.              *)
AcceptedIsAcyclic ==
    Finished /\ ~reported => \A S \in SUBSET Sym : ~Cyclic(S, deps)

(* What is read to calculate a symbol, the values of a choice taken        *)
(* together with their choice.                                             *)
GroupReads ==
    [g \in Sym |-> {Start(d) : d \in deps[g] \cup
                                     UNION {deps[m] \ {g} : m \in Members(g)}}]

(* No false alarm: when a cycle is printed there is one, flags left by an  *)
(* earlier search notwithstanding.                                         *)
ReportedIsCyclic == reported => \E S \in SUBSET Sym : Cyclic(S, GroupReads)

(* The symbol a cycle was found at is being checked further up until the   *)
(* cycle is closed, so that its path can be printed and the call for it is *)
(* reached.                                                                *)
CycleOnStack == found # None => \E i \in 1..Len(stack) : found \in Group(stack[i].sym)

(* zconf.y counts an error for a symbol sym_check_deps does not return     *)
(* NULL for, and stops; it is said to return NULL when dependencies are OK.*)
CyclesRejected == Finished /\ reported => errors > 0

(* The search ends, on trees with and without cycles.                      *)
CheckEnds == <>Finished
=============================================================================
