------------------------------ MODULE Symbols ------------------------------
(***************************************************************************)
(* The symbol engine of kconfig/symbol.c: bool and tristate symbols,       *)
(* choices, visibility, direct and reverse dependencies, and the memoised  *)
(* evaluation of their values.  The state of all symbols is one record,    *)
(* which the operators take and return the way the C functions update the  *)
(* symbols in place.                                                       *)
(*                                                                         *)
(* The Kconfig tree is the function K, one record for each symbol:         *)
(*   type      "bool" or "tristate"                                        *)
(*   prompts   conditions of its prompts                                   *)
(*   defaults  its default properties, [value, cond]                       *)
(*   depends   its direct dependencies (dir_dep)                           *)
(*   selected  who selects it (rev_dep)                                    *)
(*   members   the values of a choice, an empty sequence for others        *)
(*   choice    the choice a choice value belongs to, or None               *)
(* with conditions as menu_finalize leaves them.                           *)
(***************************************************************************)
EXTENDS Integers, SequencesExt

CONSTANTS
    K,        \* the Kconfig tree
    Modules,  \* the symbol with "option modules", or None
    None

Sym == DOMAIN K
no == 0
mod == 1
yes == 2
Tristate == no..yes
EXPR_AND(a, b) == IF a < b THEN a ELSE b
EXPR_OR(a, b) == IF a > b THEN a ELSE b
(* Variant: the complement is taken from 3.                                *)
EXPR_NOTThree(a) == 3 - a
EXPR_NOT(a) == 2 - a

IsChoice(s) == K[s].members # << >>
IsChoiceValue(s) == K[s].choice # None
MembersOf(s) == Range(K[s].members)

(* The fields of a symbol: flags as sets of symbols, values as functions.  *)
State ==
    [valid : SUBSET Sym,            \* SYMBOL_VALID
     write : SUBSET Sym,            \* SYMBOL_WRITE
     has : SUBSET Sym,              \* SYMBOL_DEF_USER
     user : [Sym -> Tristate],      \* def[S_DEF_USER].tri
     pick : [Sym -> Sym \cup {None}],  \* def[S_DEF_USER].val of a choice
     visible : [Sym -> Tristate],
     dir : [Sym -> Tristate],       \* dir_dep.tri
     rev : [Sym -> Tristate],       \* rev_dep.tri
     curr : [Sym -> Tristate],      \* curr.tri
     chosen : [Sym -> Sym \cup {None}],  \* curr.val of a choice
     need : SUBSET Sym,             \* SYMBOL_NEED_SET_CHOICE_VALUES
     modules : Tristate,            \* modules_val
     changed : BOOLEAN]             \* sym_change_count is not 0

InitState ==
    [valid |-> {}, write |-> {}, has |-> {},
     user |-> [s \in Sym |-> no], pick |-> [s \in Sym |-> None],
     visible |-> [s \in Sym |-> no], dir |-> [s \in Sym |-> no],
     rev |-> [s \in Sym |-> no], curr |-> [s \in Sym |-> no],
     chosen |-> [s \in Sym |-> None], need |-> {}, modules |-> no,
     changed |-> FALSE]

TypeOfSym(st, s) ==
    IF K[s].type = "tristate"
       /\ \/ IsChoiceValue(s) /\ st.visible[s] = yes
          \/ st.modules = no
    THEN "bool"
    ELSE K[s].type

RECURSIVE Calc(_, _), CalcEach(_, _), Eval(_, _), EvalMax(_, _), FirstVisible(_, _),
          VisibleDefault(_, _), CalcVisibilities(_, _)

(* A state and a value: what calculating something returns.                *)
Result(st, val) == [st |-> st, val |-> val]
CalcEach(st, names) ==
    IF names = << >> THEN st ELSE CalcEach(Calc(st, Head(names)), Tail(names))
Names(e) == IF e.op = "sym" THEN <<e.sym>> ELSE <<e.sym, e.other>>
Complement(r) == Result(r.st, EXPR_NOT(r.val))
Combined(op, a, r) ==
    Result(r.st, IF op = "and" THEN EXPR_AND(a, r.val) ELSE EXPR_OR(a, r.val))
Both(e, l) == Combined(e.op, l.val, Eval(l.st, e.right))
OfSymbols(st, e) ==
    Result(st, IF e.op = "sym" THEN st.curr[e.sym]
               ELSE IF (st.curr[e.sym] = st.curr[e.other]) = (e.op = "eq") THEN yes ELSE no)

(* expr_calc_value: the state after calculating the symbols e names, and   *)
(* the value of e.                                                         *)
Eval(st, e) ==
    CASE e.op = "const" -> Result(st, e.val)
      [] e.op = "not" -> Complement(Eval(st, e.arg))
      [] e.op \in {"and", "or"} -> Both(e, Eval(st, e.left))
      [] e.op \in {"sym", "eq", "neq"} -> OfSymbols(CalcEach(st, Names(e)), e)

(* The largest of r and the values of several conditions.                  *)
EvalMax(r, es) ==
    IF es = << >> THEN r
    ELSE EvalMax(Combined("or", r.val, Eval(r.st, Head(es))), Tail(es))

SetVisible(r, s) ==
    [r.st EXCEPT !.visible[s] =
        IF r.val = mod /\ (K[s].type # "tristate" \/ r.st.modules = no) THEN yes ELSE r.val]
SetDir(r, s) == [r.st EXCEPT !.dir[s] = IF r.val = mod THEN yes ELSE r.val]
Promoted(r, s) == IF r.val = mod /\ TypeOfSym(r.st, s) = "bool" THEN yes ELSE r.val
SetRev(r, s) == [r.st EXCEPT !.rev[s] = Promoted(r, s)]
CalcDeps(st, s) ==
    IF IsChoiceValue(s) THEN st
    ELSE SetRev(Eval(SetDir(Eval(st, K[s].depends), s), K[s].selected), s)

CalcVisibility(st, s) ==
    CalcDeps(SetVisible(EvalMax(Result(st, no), K[s].prompts), s), s)

Shown(st, s) == st.visible[s] # no
FirstShown(st, c) ==
    LET shown == SelectSeq(K[c].members, LAMBDA s : Shown(st, s))
    IN  IF shown = << >> THEN None ELSE shown[1]

(* sym_choice_default: the first default that is visible, or the first     *)
(* value that is.                                                          *)
OrNext(r, s, props) ==
    IF r.val # no /\ Shown(r.st, s) THEN Result(r.st, s) ELSE VisibleDefault(r.st, props)
VisibleDefault(st, props) ==
    IF props = << >> THEN Result(st, None)
    ELSE OrNext(Eval(st, Head(props).cond), Head(props).value.sym, Tail(props))

TakeDefault(r, c) ==
    LET def == IF r.val # None THEN r.val ELSE FirstShown(r.st, c)
    IN  [r.st EXCEPT !.chosen[c] = def, !.curr[c] = IF def = None THEN no ELSE @]

(* The choice stops being set by the user when a visible value is not.     *)
KeepSet(st, c) ==
    [st EXCEPT !.has = IF {s \in MembersOf(c) : Shown(st, s)} \subseteq @ THEN @ ELSE @ \ {c}]

(* Variant: the pick is taken whether it is visible or not.                *)
PickHidden(st, c) ==
    IF st.pick[c] # None THEN [st EXCEPT !.chosen[c] = st.pick[c]]
    ELSE TakeDefault(VisibleDefault(st, K[c].defaults), c)

Pick(st, c) ==
    IF st.pick[c] # None /\ Shown(st, st.pick[c])
    THEN [st EXCEPT !.chosen[c] = st.pick[c]]
    ELSE TakeDefault(VisibleDefault(st, K[c].defaults), c)

(* sym_calc_choice: visibilities of the choice values first.               *)
CalcVisibilities(st, members) ==
    IF members = << >> THEN st
    ELSE CalcVisibilities(CalcVisibility(st, Head(members)), Tail(members))
CalcChoice(st, c) == Pick(KeepSet(CalcVisibilities(st, K[c].members), c), c)

ByUser(st, s) == Shown(st, s) /\ s \in st.has
FromUser(st, s) ==
    EXPR_OR(IF ByUser(st, s) THEN EXPR_AND(st.user[s], st.visible[s]) ELSE no, st.rev[s])

(* The first default whose condition is not no is written, limited by the  *)
(* condition; what selects s can raise any value.                          *)
Limited(r, cond, s) == Result(r.st, EXPR_OR(EXPR_AND(r.val, cond), r.st.rev[s]))
FromDefault(d, s) ==
    IF d.found
    THEN Limited(Eval([d.st EXCEPT !.write = @ \cup {s}], d.value), d.cond, s)
    ELSE Result(d.st, d.st.rev[s])

(* The first property of props whose condition is not no, with its value.  *)
IfVisible(r, props) ==
    IF r.val # no
    THEN [st |-> r.st, found |-> TRUE, value |-> Head(props).value, cond |-> r.val]
    ELSE FirstVisible(r.st, Tail(props))
FirstVisible(st, props) ==
    IF props = << >> THEN [st |-> st, found |-> FALSE]
    ELSE IfVisible(Eval(st, Head(props).cond), props)

Flagged(st, s) ==
    IF Shown(st, s) \/ st.rev[s] # no THEN [st EXCEPT !.write = @ \cup {s}] ELSE st

(* Variant: a choice value is set like any other symbol.                   *)
NewValueOwn(st, s) == Result([st EXCEPT !.write = @ \cup {s}], FromUser(st, s))

(* The value of s from its choice, its user value or a default, and the    *)
(* symbols that select it.                                                 *)
NewValue(st, s) ==
    IF IsChoiceValue(s) /\ st.visible[s] = yes
    THEN Result(st, IF st.chosen[K[s].choice] = s THEN yes ELSE no)
    ELSE IF ByUser(st, s) \/ IsChoice(s)
    THEN Result(Flagged(st, s), FromUser(st, s))
    ELSE FromDefault(FirstVisible(Flagged(st, s), K[s].defaults), s)

Begun(st, s) ==
    [st EXCEPT !.valid = @ \cup {s}, !.write = IF IsChoiceValue(s) THEN @ ELSE @ \ {s}]
Reset(st, s) == [st EXCEPT !.curr[s] = no, !.chosen[s] = None]
SetCurr(r, s) ==
    [r.st EXCEPT !.chosen[s] = None,
                 !.curr[s] = Promoted(r, s)]
Chosen(st, s) == IF IsChoice(s) /\ st.curr[s] = yes THEN CalcChoice(st, s) ELSE st

(* A choice is flagged SYMBOL_AUTO: its values are written, not itself.    *)
Ended(st, s) ==
    [st EXCEPT
       !.modules = IF s = Modules THEN st.curr[s] ELSE @,
       !.write = IF ~IsChoice(s) \/ s \notin @ THEN @
                 ELSE (@ \cup {m \in MembersOf(s) : Shown(st, m)}) \ {s}]

(* set_all_choice_values, which is due once the choice is calculated.      *)
SetAllChoiceValues(st, c) ==
    [st EXCEPT !.user = [s \in Sym |-> IF s \in MembersOf(c) \ st.has THEN no ELSE @[s]],
               !.has = @ \cup {c}, !.valid = @ \ {c}, !.need = @ \ {c}]
NeedsSet(st, s) == IF s \in st.need THEN SetAllChoiceValues(st, s) ELSE st

(* The choice of a value that is flagged is calculated first.              *)
ChoiceFirst(st, s) ==
    IF IsChoiceValue(s) /\ s \in st.need
    THEN Calc([st EXCEPT !.need = @ \ {s}], K[s].choice) ELSE st

Calculated(st, s) ==
    Ended(Chosen(SetCurr(NewValue(Reset(CalcVisibility(Begun(st, s), s), s), s), s), s), s)

(* sym_calc_value.                                                         *)
Calc(st, s) ==
    IF s \in st.valid THEN st ELSE NeedsSet(Calculated(ChoiceFirst(st, s), s), s)

CalcAll(st, order) == FoldLeft(Calc, st, order)

(* sym_clear_all_valid also calculates the modules symbol at once.         *)
CalcModules(st) == IF Modules = None THEN st ELSE Calc(st, Modules)

(* Variant: only the modules symbol loses its value.                       *)
ClearAllValidModules(st) ==
    CalcModules([st EXCEPT !.valid = @ \ {Modules}, !.changed = TRUE])

ClearAllValid(st) == CalcModules([st EXCEPT !.valid = {}, !.changed = TRUE])

(* Variant: what selects the symbol is not looked at.                      *)
WithinRangeUnder(st, s, val) ==
    /\ val = mod => TypeOfSym(st, s) # "bool"
    /\ val <= st.visible[s]

(* sym_tristate_within_range, on what was last calculated.                 *)
WithinRange(st, s, val) ==
    /\ st.visible[s] # no
    /\ val = mod => TypeOfSym(st, s) # "bool"
    /\ st.visible[s] > st.rev[s]
    /\ IF IsChoiceValue(s) /\ st.visible[s] = yes
       THEN val = yes
       ELSE val \in st.rev[s]..st.visible[s]

(* sym_is_changable.                                                       *)
changable(st, s) == st.visible[s] > st.rev[s]

Settable(st, s, val) == st.curr[s] = val \/ WithinRange(st, s, val)

(* sym_set_tristate_value.  A choice value set to y becomes the pick of    *)
(* its choice, and the visible values of the choice are no longer new.     *)
SetUser(st, s, val) ==
    LET c == K[s].choice
        picked == IsChoiceValue(s) /\ val = yes
    IN  [st EXCEPT
           !.has = @ \cup {s} \cup
                   IF picked THEN {c} \cup {m \in MembersOf(c) : Shown(st, m)} ELSE {},
           !.pick = IF picked THEN [@ EXCEPT ![c] = s] ELSE @,
           !.user[s] = val]
SetTristate(st, s, val) ==
    IF ~Settable(st, s, val) THEN st
    ELSE IF st.curr[s] = val THEN SetUser(st, s, val)
    ELSE ClearAllValid(SetUser(st, s, val))

(* sym_toggle_tristate_value: the next value of the cycle n, m, y that can *)
(* be set, at worst the value the symbol already has.                      *)
Toggled(st, s) ==
    LET after(n) == (st.curr[s] + n) % 3
        n == CHOOSE i \in 1..3 : /\ Settable(st, s, after(i))
                                 /\ \A j \in 1..(i - 1) : ~Settable(st, s, after(j))
    IN  after(n)
Toggle(st, s) == SetTristate(st, s, Toggled(st, s))

-----------------------------------------------------------------------------
(* Saving and loading.  A configuration file is what its lines assign, in  *)
(* the order of the menus.                                                 *)
File == UNION {[S -> Tristate] : S \in SUBSET Sym}

Written(acc, st, s) ==
    IF s \in st.write
    THEN [st |-> [st EXCEPT !.write = @ \ {s}], file |-> (s :> st.curr[s]) @@ acc.file]
    ELSE [acc EXCEPT !.st = st]

(* Variant: a symbol that is n is left out.                                *)
WriteSymbolSet(acc, s) ==
    IF acc.st.curr[s] = no THEN acc ELSE Written(acc, Calc(acc.st, s), s)

(* The loop of conf_write: calculate a symbol, write it if it is to be     *)
(* written, and clear its flag so that a second menu does not repeat it.   *)
WriteSymbol(acc, s) == IF IsChoice(s) THEN acc ELSE Written(acc, Calc(acc.st, s), s)

NothingWritten(st) == [st |-> st, file |-> << >>]
Saved(acc) == [acc EXCEPT !.st.changed = FALSE]
Write(st, order) ==
    Saved(FoldLeft(WriteSymbol,
                   NothingWritten(IF st.changed THEN st ELSE ClearAllValid(st)), order))

(* Variant: the choice does not learn which value was stored as y.         *)
ReadLineAlone(st, s, val) == [st EXCEPT !.user[s] = val, !.has = @ \cup {s}]

(* conf_read_simple on one line: a choice value also sets its choice.  The *)
(* two warnings about choices make conf_read count a change.               *)
ReadLine(st, s, val) ==
    LET c == K[s].choice
        st1 == [st EXCEPT !.user[s] = val, !.has = @ \cup {s}]
        inconsistent == val = mod /\ st.user[c] = yes
        override == val = yes /\ st.user[c] # no
    IN  IF ~IsChoiceValue(s) THEN st1
        ELSE [st1 EXCEPT
                !.has = IF inconsistent THEN @ \ {c} ELSE @,
                !.pick = IF val = yes THEN [@ EXCEPT ![c] = s] ELSE @,
                !.user[c] = EXPR_OR(@, val),
                !.changed = @ \/ inconsistent \/ override]

(* Variant: values that the file does not assign stay.                     *)
ReadSimpleMerge(st, file, order) ==
    LET line(acc, s) == IF s \in DOMAIN file THEN ReadLine(acc, s, file[s]) ELSE acc
    IN  CalcModules(FoldLeft(line, [st EXCEPT !.valid = {}], order))

ReadSimple(st, file, order) ==
    LET line(acc, s) == IF s \in DOMAIN file THEN ReadLine(acc, s, file[s]) ELSE acc
    IN  CalcModules(FoldLeft(line,
          [st EXCEPT !.valid = {}, !.has = {s \in Sym : IsChoice(s)},
                     !.user = [s \in Sym |-> no], !.pick = [s \in Sym |-> None]], order))

(* conf_read_env: every symbol with a variable of its name is set to its   *)
(* value, as far as sym_set_tristate_value lets it.  Symbols have names,   *)
(* choices too: what the code does with one that has none is undefined.    *)
ReadEnv(st, env, hash) ==
    LET update(acc, s) == IF s \in DOMAIN env THEN SetTristate(acc, s, env[s]) ELSE acc
    IN  FoldLeft(update, st, hash)

(* conf_read.  The values of a file that agrees with the Kconfig tree are  *)
(* forgotten where the symbol is not visible.                              *)
Reconciled(st) ==
    LET agrees(s) == \/ s \in st.has /\ s \in st.write /\ st.user[s] = st.curr[s]
                     \/ s \notin st.has /\ s \notin st.write
        unsaved == \E s \in Sym : ~IsChoice(s) /\ ~agrees(s)
        gone == {s \in st.has : ~IsChoiceValue(s) /\ ~Shown(st, s)}
    IN  [st EXCEPT !.has = IF unsaved THEN @ ELSE @ \ gone, !.changed = @ \/ unsaved]
ReadFile(st, file, order, hash) ==
    Reconciled(CalcAll(ReadSimple([st EXCEPT !.changed = FALSE], file, order), hash))

(* conf_read(NULL) when there is no .config: the first of the files named  *)
(* by the visible defaults of the symbol with the option defconfig_list    *)
(* that are there, or None if there is no such symbol.                     *)
ReadNothing(st, defaults, order, hash) ==
    IF defaults = None THEN CalcModules([st EXCEPT !.changed = TRUE])
    ELSE IF defaults = << >> THEN [st EXCEPT !.changed = TRUE]
    ELSE [ReadFile(st, Head(defaults), order, hash) EXCEPT !.changed = TRUE]
=============================================================================
