----------------------------- MODULE ConfModes -----------------------------
(***************************************************************************)
(* Whole configurations at once: the operators of confdata.c behind the    *)
(* modes of kconfig/conf.c that ask nothing, and the minimal configuration *)
(* of savedefconfig.  States are those of Symbols.                         *)
(***************************************************************************)
EXTENDS Symbols, FiniteSets

CONSTANTS
    MenuOrder,   \* the symbols in the order of the menus
    AllNoConfigY \* the symbols with "option allnoconfig_y"

-----------------------------------------------------------------------------
(* conf_set_all_new_symbols.  The symbols in the order hash that have no   *)
(* value and are not valid get the one of the mode; in def_default they    *)
(* get none.                                                               *)
NewSymbols(st) == Sym \ (st.has \cup st.valid)
ModeValue(mode, s) ==
    CASE mode = "def_yes" -> yes
      [] mode = "def_mod" -> mod
      [] mode = "def_no" -> IF s \in AllNoConfigY THEN yes ELSE no

(* Variant: only symbols that are visible get one.                         *)
SetNewVisible(st, mode) ==
    [st EXCEPT !.user = [s \in Sym |-> IF s \in NewSymbols(st) /\ Shown(st, s)
                                        THEN ModeValue(mode, s) ELSE @[s]],
               !.has = @ \cup {s \in NewSymbols(st) : Shown(st, s)}]

SetNew(st, mode) ==
    IF mode = "def_default" THEN st
    ELSE [st EXCEPT !.user = [s \in Sym |-> IF s \in NewSymbols(st) THEN ModeValue(mode, s)
                                            ELSE @[s]],
                    !.has = @ \cup NewSymbols(st)]

(* The values of choices without a user value depend on the choice.        *)
FlagNeed(st) ==
    [st EXCEPT !.need = @ \cup {s \in Sym : \/ IsChoice(s) /\ s \notin st.has
                                            \/ IsChoiceValue(s)}]

SetChoice(st, c) ==
    IF IsChoice(c) /\ c \notin st.has THEN SetAllChoiceValues(Calc(st, c), c) ELSE st

SetAllNew(st, mode, hash) ==
    FoldLeft(SetChoice, FlagNeed(ClearAllValid(SetNew(st, mode))), hash)

(* In def_random every new symbol gets a value its type allows; a choice   *)
(* is not marked as set by this.                                           *)
RandomValues(st) ==
    {f \in [NewSymbols(st) -> Tristate] :
        \A s \in DOMAIN f : f[s] = mod => K[s].type = "tristate"}
SetRandom(st, f) ==
    [st EXCEPT !.user = f @@ @, !.has = @ \cup {s \in DOMAIN f : ~IsChoice(s)}]

(* randomize_choice_values: s becomes the value of the choice, in view or  *)
(* not.                                                                    *)
Randomize(st, c, s) ==
    [st EXCEPT !.user = [m \in Sym |-> IF m = s THEN yes
                                       ELSE IF m \in MembersOf(c) THEN no ELSE @[m]],
               !.pick[c] = s,
               !.has = @ \cup MembersOf(c) \cup {c},
               !.valid = @ \ (MembersOf(c) \cup {c})]

(* One call in def_random: the choices come one after the other, each with *)
(* the member draw picks.  What is returned is about the last choice.      *)
RandomChoice(r, c, s) ==
    IF r.st.curr[c] = yes THEN Result(Randomize(r.st, c, s), TRUE)
    ELSE Result(r.st, FALSE)
RandomPass(st, f, draw, hash) ==
    LET choice(r, c) ==
            IF ~IsChoice(c) \/ c \in r.st.has THEN r
            ELSE RandomChoice(Result(Calc(r.st, c), r.val), c, draw[c])
    IN  FoldLeft(choice, Result(ClearAllValid(SetRandom(st, f)), NewSymbols(st) # {}), hash)

-----------------------------------------------------------------------------
(* sym_get_string_default: the value s would have without a user value.    *)
OfDefault(d, s) ==
    IF d.found THEN Combined("and", d.cond, Eval(d.st, d.value)) ELSE Result(d.st, no)
Transposed(r, s) ==
    Result(r.st, IF /\ r.val = mod
                    /\ \/ K[s].type = "bool"
                       \/ ~IsChoiceValue(s) /\ r.st.modules = no
                 THEN yes ELSE r.val)
Raised(r, s) == Transposed(Result(r.st, EXPR_OR(r.val, r.st.rev[s])), s)
DefaultOf(st, s) ==
    Raised(OfDefault(FirstVisible(CalcModules(CalcVisibility(st, s)), K[s].defaults), s), s)

(* sym_choice_default for the choice of s.                                 *)
ChoiceDefault(st, c) ==
    LET r == VisibleDefault(st, K[c].defaults)
    IN  IF r.val # None THEN r ELSE Result(r.st, FirstShown(r.st, c))

Optional(c) == K[c].selected.op = "const" /\ K[c].selected.val = no
IsChoiceDefault(r, s) ==
    r.val = s /\ ~Optional(K[s].choice) /\ K[s].type = "bool" /\ r.st.curr[s] = yes

(* One symbol of conf_write_defconfig: what a default or a select gives it *)
(* anyway is left out.                                                     *)
Line(acc, s, st) == [st |-> st, file |-> (s :> st.curr[s]) @@ acc.file]
UnlessChoiceDefault(acc, s, r) ==
    IF IsChoiceDefault(r, s) THEN [acc EXCEPT !.st = r.st] ELSE Line(acc, s, r.st)
UnlessDefault(acc, s, r) ==
    IF r.val = r.st.curr[s] THEN [acc EXCEPT !.st = r.st]
    ELSE IF IsChoiceValue(s)
    THEN UnlessChoiceDefault(acc, s, ChoiceDefault(r.st, K[s].choice))
    ELSE Line(acc, s, r.st)
UnlessFixed(acc, s, st) ==
    IF s \notin st.write THEN [acc EXCEPT !.st = st]
    ELSE IF ~changable(st, s) THEN [acc EXCEPT !.st = [st EXCEPT !.write = @ \ {s}]]
    ELSE UnlessDefault(acc, s, DefaultOf([st EXCEPT !.write = @ \ {s}], s))

(* Variant: symbols whose value is n are left out.                         *)
MinimalYes(acc, s) ==
    IF IsChoice(s) \/ acc.st.curr[s] = no THEN acc ELSE UnlessFixed(acc, s, Calc(acc.st, s))
Minimal(acc, s) == IF IsChoice(s) THEN acc ELSE UnlessFixed(acc, s, Calc(acc.st, s))

WriteDefconfig(st) ==
    FoldLeft(Minimal, NothingWritten(ClearAllValid(st)), MenuOrder)
=============================================================================
