------------------------------ MODULE ConfAsk ------------------------------
(***************************************************************************)
(* The line-oriented program of kconfig/conf.c, started once with one of   *)
(* its options: it loads the configuration file, asks the questions of the *)
(* menus and saves.  check_conf looks for symbols without a value and has  *)
(* conf ask about their menu, which may bring up more of them, until there *)
(* are none.                                                               *)
(*                                                                         *)
(* The recursion of conf and check_conf is the sequence calls, the next    *)
(* call first.                                                             *)
(***************************************************************************)
EXTENDS ConfModes, MenuTree

CONSTANTS
    HashOrders,  \* orders in which the symbol table may be walked
    Files,       \* configuration files the program may find
    Defconfigs,  \* the files of defaults there may be, in order, or None
    Envs,        \* environments, as the CONFIG_ variables they set
    Missing      \* that there is no file

VARIABLES
    syms,        \* the symbols in the memory of the program
    file,        \* the configuration file
    defconfig,   \* the file savedefconfig writes
    input_mode,
    phase,       \* "start", "run", "sym", "choice", "random", "exited"
    calls,       \* pending calls [op, menu] of conf and check_conf
    conf_cnt,    \* has check_conf called conf in this round?
    rootEntry,
    is_new,      \* in conf_choice
    valid_stdin, sync_kconfig,
    asked        \* the symbols the user was asked about, or told of by listnewconfig

vars == <<syms, file, defconfig, input_mode, phase, calls, conf_cnt, rootEntry, is_new,
          valid_stdin, sync_kconfig, asked>>

AskModes == {"oldaskconfig", "oldconfig", "silentoldconfig", "listnewconfig", "olddefconfig"}
AllModes == "allnoconfig" :> "def_no" @@ "allyesconfig" :> "def_yes"
            @@ "allmodconfig" :> "def_mod" @@ "alldefconfig" :> "def_default"
Modes == AskModes \cup DOMAIN AllModes
         \cup {"updateconfig", "randconfig", "defconfig", "savedefconfig"}

-----------------------------------------------------------------------------
Call(op, m) == [op |-> op, menu |-> m]
CallEach(op, list) == [i \in 1..Len(list) |-> Call(op, list[i])]
Top == Head(calls).menu
TopSym == Tree[Top].sym

-----------------------------------------------------------------------------
(* Starting: conf_read, the environment, or the file of defaults.          *)
Read(f, defaults, env, hash) ==
    ReadEnv(IF f = Missing THEN ReadNothing(InitState, defaults, MenuOrder, hash)
            ELSE ReadFile(InitState, f, MenuOrder, hash), env, hash)

Exit(st) == phase' = "exited" /\ syms' = st /\ calls' = << >>

(* conf_write(NULL), by every mode but the three with their own rules.     *)
SaveAndExit(st) ==
    \E w \in {Write(st, MenuOrder)} : Exit(w.st) /\ file' = w.file /\ UNCHANGED defconfig

Started(mode) ==
    /\ phase = "start"
    /\ input_mode' = mode
    /\ UNCHANGED <<conf_cnt, is_new, asked>>

Unused == UNCHANGED <<rootEntry, valid_stdin, sync_kconfig>>

(* The modes that ask: silentoldconfig insists on a file, and only asks on *)
(* a terminal.  With KCONFIG_NOSILENTUPDATE it refuses to have anything to *)
(* update.                                                                 *)
StartAsking(mode, defaults, env, hash, tty, refuse) ==
    /\ Started(mode)
    /\ mode \in AskModes
    /\ rootEntry' = rootmenu
    /\ sync_kconfig' = (mode = "silentoldconfig")
    /\ valid_stdin' = (mode = "silentoldconfig" => tty)
    /\ UNCHANGED <<file, defconfig>>
    /\ IF mode = "silentoldconfig" /\ file = Missing
       THEN Exit(InitState)
       ELSE \E st \in {Read(file, defaults, env, hash)} :
              IF mode = "silentoldconfig" /\ refuse /\ st.changed
              THEN Exit(st)
              ELSE /\ syms' = st
                   /\ phase' = "run"
                   /\ calls' = <<Call(IF mode = "oldaskconfig" THEN "conf" ELSE "check",
                                      rootmenu)>>

(* The modes that give all new symbols a value, with or without a file of  *)
(* values named by KCONFIG_ALLCONFIG.                                      *)
Seeded(seed) == IF seed = Missing THEN InitState ELSE ReadSimple(InitState, seed, MenuOrder)
SetAll(mode, seed, hash) ==
    /\ mode \in DOMAIN AllModes
    /\ Started(mode)
    /\ SaveAndExit(SetAllNew(Seeded(seed), AllModes[mode], hash))
    /\ Unused

(* KCONFIG_ALLCONFIG names a file that is not there.                       *)
SeedMissing(mode) ==
    /\ mode \in DOMAIN AllModes \cup {"randconfig"}
    /\ Started(mode)
    /\ Exit(InitState)
    /\ Unused
    /\ UNCHANGED <<file, defconfig>>

Random(seed) ==
    /\ Started("randconfig")
    /\ syms' = Seeded(seed)
    /\ phase' = "random"
    /\ Unused
    /\ UNCHANGED <<file, defconfig, calls>>

(* conf_set_all_new_symbols is repeated as long as it says so.             *)
RandomStep(hash) ==
    /\ phase = "random"
    /\ \E f \in RandomValues(syms), c \in {c \in Sym : IsChoice(c)} :
       \E s \in MembersOf(c) :
       \E r \in {RandomPass(syms, f, [d \in Sym |-> IF d = c THEN s ELSE Head(K[d].members)],
                            hash)} :
          IF r.val
          THEN syms' = r.st /\ UNCHANGED <<phase, file, defconfig, calls>>
          ELSE SaveAndExit(r.st)
    /\ UNCHANGED <<input_mode, conf_cnt, is_new, asked>>
    /\ Unused

(* A file that defconfig names must be there.                              *)
Defaults(f, env, hash) == SetAllNew(Read(f, None, env, hash), "def_default", hash)
Defconfig(f, env, hash) ==
    /\ Started("defconfig")
    /\ IF f = Missing
       THEN Exit(InitState) /\ UNCHANGED <<file, defconfig>>
       ELSE SaveAndExit(Defaults(f, env, hash))
    /\ Unused

SaveDefconfig(defaults, env, hash) ==
    /\ Started("savedefconfig")
    /\ \E w \in {WriteDefconfig(Read(file, defaults, env, hash))} :
         Exit(w.st) /\ defconfig' = w.file
    /\ Unused
    /\ UNCHANGED file

(* conf_read has applied the environment already.                          *)
Update(defaults, env, hash) ==
    /\ Started("updateconfig")
    /\ SaveAndExit(ReadEnv(Read(file, defaults, env, hash), env, hash))
    /\ Unused

-----------------------------------------------------------------------------
(* conf and check_conf.                                                    *)
Running == phase = "run" /\ calls # << >>
Keep == UNCHANGED <<file, defconfig, input_mode, valid_stdin, sync_kconfig>>

(* A menu that is not the one to ask about is only looked at.              *)
OnlyChecked(m) ==
    /\ Tree[m].kind = "menu"
    /\ input_mode \in {"silentoldconfig", "listnewconfig", "olddefconfig"}
    /\ rootEntry # m

conf ==
    /\ Running
    /\ Head(calls).op = "conf"
    /\ \E v \in {MenuVisible(syms, Top)} :
         /\ syms' = v.st
         /\ \/ /\ v.val = no
               /\ calls' = Tail(calls)
               /\ UNCHANGED <<phase, is_new>>
            \/ /\ v.val # no /\ OnlyChecked(Top)
               /\ calls' = <<Call("check", Top)>> \o Tail(calls)
               /\ UNCHANGED <<phase, is_new>>
            \/ /\ v.val # no /\ ~OnlyChecked(Top) /\ TopSym = None
               /\ calls' = CallEach("conf", Tree[Top].list) \o Tail(calls)
               /\ UNCHANGED <<phase, is_new>>
            \/ /\ v.val # no /\ ~OnlyChecked(Top) /\ TopSym # None
               /\ phase' = IF IsChoice(TopSym) /\ ~changable(v.st, TopSym)
                           THEN "choice" ELSE "sym"
               /\ is_new' = (TopSym \notin v.st.has)
               /\ UNCHANGED calls
    /\ UNCHANGED <<conf_cnt, rootEntry, asked>>
    /\ Keep

(* What follows the question about a symbol: the entries below it, or the  *)
(* values of a choice.                                                     *)
AfterSym(st) ==
    /\ \E s \in {TopSym} :
       IF IsChoice(s)
       THEN syms' = Calc(st, s) /\ phase' = "choice" /\ UNCHANGED calls
       ELSE /\ syms' = st
            /\ phase' = "run"
            /\ calls' = CallEach("conf", Tree[Top].list) \o Tail(calls)
    /\ UNCHANGED <<conf_cnt, rootEntry, is_new>>
    /\ Keep

(* conf_askvalue: is the user asked?                                       *)
Known(s) == input_mode \in {"oldconfig", "silentoldconfig"} /\ s \in syms.has
Interactive(s) == changable(syms, s) /\ ~Known(s)

SymShown ==
    /\ phase = "sym"
    /\ ~Interactive(TopSym)
    /\ AfterSym(syms)
    /\ UNCHANGED asked

(* conf_sym repeats the question until there is a value the symbol takes.  *)
Answer(val) ==
    /\ phase = "sym"
    /\ Interactive(TopSym)
    /\ valid_stdin
    /\ Settable(syms, TopSym, val)
    /\ asked' = asked \cup {TopSym}
    /\ AfterSym(SetTristate(syms, TopSym, val))
Enter == phase = "sym" /\ Answer(syms.curr[TopSym])

(* conf_choice.  A choice that is not y ends it; at m its values are asked *)
(* for like other symbols.                                                 *)
ChoiceLeft ==
    /\ phase = "choice"
    /\ syms.curr[TopSym] # yes
    /\ phase' = "run"
    /\ calls' = (IF syms.curr[TopSym] = mod THEN CallEach("conf", Tree[Top].list) ELSE << >>)
                \o Tail(calls)
    /\ UNCHANGED <<syms, conf_cnt, rootEntry, is_new, asked>>
    /\ Keep

(* At y its visible values are numbered.                                   *)
VisibleValues(st, m) ==
    LET count(v, r, child) ==
            Result(v.st, IF v.val # no /\ Tree[child].sym # None
                         THEN Append(r.val, child) ELSE r.val)
        add(r, child) == count(MenuVisible(r.st, child), r, child)
    IN  FoldLeft(add, Result(st, << >>), Tree[m].list)

AskedChoice == is_new \/ input_mode = "oldaskconfig"
ChoiceValue(values) == {m \in Range(values.val) : Tree[m].sym = values.st.chosen[TopSym]}

(* The value taken is set, and what is below it asked for.                 *)
Take(values, child) ==
    /\ syms' = SetTristate(values.st, Tree[child].sym, yes)
    /\ calls' = CallEach("conf", Tree[child].list) \o Tail(calls)
    /\ phase' = "run"
    /\ asked' = IF AskedChoice THEN asked \cup {TopSym} ELSE asked
    /\ UNCHANGED <<conf_cnt, rootEntry, is_new>>
    /\ Keep

AtYes == phase = "choice" /\ syms.curr[TopSym] = yes

(* The only value, or the one the choice has; also the answer Enter.       *)
ChoiceDefaulted ==
    /\ AtYes
    /\ \E values \in {VisibleValues(syms, Top)} :
       \E child \in IF Len(values.val) = 1 THEN Range(values.val) ELSE ChoiceValue(values) :
          /\ Len(values.val) > 1 /\ AskedChoice => valid_stdin
          /\ Take(values, child)

(* The user names one of them.                                             *)
ChoiceAnswer(i) ==
    /\ AtYes
    /\ AskedChoice /\ valid_stdin
    /\ \E values \in {VisibleValues(syms, Top)} :
          Len(values.val) > 1 /\ i <= Len(values.val) /\ Take(values, values.val[i])

(* check_stdin exits in the middle of everything.                          *)
Abort ==
    /\ ~valid_stdin
    /\ \/ phase = "sym" /\ Interactive(TopSym)
       \/ AtYes /\ AskedChoice /\ Len(VisibleValues(syms, Top).val) > 1
    /\ Exit(syms)
    /\ UNCHANGED <<file, defconfig, input_mode, conf_cnt, rootEntry, is_new, valid_stdin,
                   sync_kconfig, asked>>

-----------------------------------------------------------------------------
IsNew(st, m) ==
    LET s == Tree[m].sym
    IN  /\ s # None
        /\ s \notin st.has
        /\ \/ changable(st, s)
           \/ IsChoice(s) /\ st.curr[s] = yes

(* check_conf.  listnewconfig lists the names of new symbols in asked.     *)
check_conf ==
    /\ Running
    /\ Head(calls).op = "check"
    /\ \E v \in {MenuVisible(syms, Top)} :
         /\ syms' = v.st
         /\ \/ /\ v.val = no
               /\ calls' = Tail(calls)
               /\ UNCHANGED <<conf_cnt, rootEntry, asked>>
            \/ /\ v.val # no
               /\ IsNew(v.st, Top) => input_mode \in {"listnewconfig", "olddefconfig"}
               /\ asked' = IF /\ IsNew(v.st, Top) /\ input_mode = "listnewconfig"
                              /\ ~IsChoice(TopSym) /\ ~IsChoiceValue(TopSym)
                           THEN asked \cup {TopSym} ELSE asked
               /\ calls' = CallEach("check", Tree[Top].list) \o Tail(calls)
               /\ UNCHANGED <<conf_cnt, rootEntry>>
            \/ /\ v.val # no
               /\ IsNew(v.st, Top) /\ input_mode \notin {"listnewconfig", "olddefconfig"}
               /\ conf_cnt' = TRUE
               /\ rootEntry' = menu_get_parent_menu(Top)
               /\ calls' = <<Call("conf", menu_get_parent_menu(Top))>>
                           \o CallEach("check", Tree[Top].list) \o Tail(calls)
               /\ UNCHANGED asked
    /\ UNCHANGED <<phase, is_new>>
    /\ Keep

(* Rounds of check_conf are repeated until one does not ask.               *)
Returned == phase = "run" /\ calls = << >>
AnotherRound ==
    \/ input_mode = "oldaskconfig"
    \/ conf_cnt /\ input_mode \notin {"listnewconfig", "olddefconfig"}

(* Variant: the count of questions is not reset.                           *)
NextRoundKeep ==
    /\ Returned
    /\ AnotherRound
    /\ input_mode' = IF input_mode = "oldaskconfig" THEN "silentoldconfig" ELSE input_mode
    /\ calls' = <<Call("check", rootmenu)>>
    /\ UNCHANGED <<syms, file, defconfig, phase, conf_cnt, rootEntry, is_new, valid_stdin,
                   sync_kconfig, asked>>
NextRound ==
    /\ Returned
    /\ AnotherRound
    /\ input_mode' = IF input_mode = "oldaskconfig" THEN "silentoldconfig" ELSE input_mode
    /\ conf_cnt' = FALSE
    /\ calls' = <<Call("check", rootmenu)>>
    /\ UNCHANGED <<syms, file, defconfig, phase, rootEntry, is_new, valid_stdin,
                   sync_kconfig, asked>>

(* Saving: silentoldconfig only when something changed, listnewconfig not  *)
(* at all.                                                                 *)
Finish ==
    /\ Returned
    /\ ~AnotherRound
    /\ IF input_mode = "listnewconfig" \/ (sync_kconfig /\ ~syms.changed)
       THEN Exit(syms) /\ UNCHANGED <<file, defconfig>>
       ELSE SaveAndExit(syms)
    /\ UNCHANGED <<input_mode, conf_cnt, rootEntry, is_new, valid_stdin, sync_kconfig, asked>>

-----------------------------------------------------------------------------
Init ==
    /\ syms = InitState
    /\ file \in Files \cup {Missing}
    /\ defconfig = Missing
    /\ input_mode = "oldaskconfig"
    /\ phase = "start"
    /\ calls = << >>
    /\ conf_cnt = FALSE
    /\ rootEntry = rootmenu
    /\ is_new = FALSE
    /\ valid_stdin = TRUE /\ sync_kconfig = FALSE
    /\ asked = {}

Start ==
    \E hash \in HashOrders, defaults \in Defconfigs :
        \/ \E mode \in AskModes, tty, refuse \in BOOLEAN :
              StartAsking(mode, defaults, << >>, hash, tty, refuse)
        \/ \E mode \in DOMAIN AllModes, seed \in Files \cup {Missing} : SetAll(mode, seed, hash)
        \/ \E f \in Files \cup {Missing} : Defconfig(f, << >>, hash)
        \/ \E mode \in Modes : SeedMissing(mode)
        \/ SaveDefconfig(defaults, << >>, hash)
        \/ \E env \in Envs : Update(defaults, env, hash)

Program ==
    \/ conf
    \/ SymShown
    \/ ChoiceLeft
    \/ ChoiceDefaulted
    \/ Abort
    \/ check_conf
    \/ NextRound
    \/ Finish
    \/ \E hash \in HashOrders : RandomStep(hash)

Next ==
    \/ Start
    \/ \E seed \in Files \cup {Missing} : Random(seed)
    \/ Program
    \/ \E val \in Tristate : Answer(val)
    \/ \E i \in 1..Cardinality(Sym) : ChoiceAnswer(i)

(* The program goes on, and a user who does not answer presses Enter in    *)
(* the end, which also is what it takes the end of its input for.  One of  *)
(* these is always possible until it exits (EnterAnswers), so that this is *)
(* WF_vars(Program \/ Enter).                                              *)
Busy == phase \notin {"start", "exited"}
Fairness == ([]<>~Busy) \/ []<><<Program \/ Enter>>_vars
Spec == Init /\ [][Next]_vars /\ Fairness

-----------------------------------------------------------------------------
TypeOK ==
    /\ syms \in State
    /\ file \in File \cup {Missing} /\ defconfig \in File \cup {Missing}
    /\ input_mode \in Modes
    /\ phase \in {"start", "run", "sym", "choice", "random", "exited"}
    /\ \A i \in DOMAIN calls : calls[i] \in [op : {"conf", "check"}, menu : DOMAIN Tree]
    /\ {conf_cnt, is_new, valid_stdin, sync_kconfig} \subseteq BOOLEAN
    /\ rootEntry \in DOMAIN Tree
    /\ asked \subseteq Sym

(* What is flagged SYMBOL_VALID is what calculating everything again would *)
(* give, in the middle of any questions, though menu_is_visible and the    *)
(* modes that set all symbols change flags behind the back of the engine.  *)
Scratch(st) ==
    CalcAll(CalcModules([InitState EXCEPT !.has = st.has, !.user = st.user,
                                          !.pick = st.pick]), MenuOrder)
Coherent ==
    syms.need = {} =>
        \E scratch \in {Scratch(syms)} :
            \A s \in syms.valid : /\ syms.curr[s] = scratch.curr[s]
                                  /\ syms.visible[s] = scratch.visible[s]

(* Enter is an answer to every question about a choice: the value it has   *)
(* is one of those on the list.  If it were not, conf would show the list  *)
(* again for ever (conf.c:339).                                            *)
EnterAnswers ==
    AtYes => \E values \in {VisibleValues(syms, Top)} : ChoiceValue(values) # {}

(* Every run ends, however the answers bring up new questions (conf.c:683). *)
RunEnds == (phase # "start") ~> (phase = "exited")

(* "Update until a loop caused no more changes" (conf.c:682): the file     *)
(* that an update leaves has a value for everything check_conf would ask   *)
(* about if it were started again.                                         *)
Settled ==
    [][(Finish /\ input_mode # "listnewconfig") =>
         \A hash \in HashOrders :
         \E st \in {ReadFile(InitState, file', MenuOrder, hash)} :
         \A m \in DOMAIN Tree : ~(MenuVisible(st, m).val # no /\ IsNew(st, m))]_vars

(* An update asks about what is new: a setting of the old file that the    *)
(* user was not asked about is in the new one, as far as it still can be.  *)
AloneInChoice(s) ==
    IsChoiceValue(s) => /\ K[s].choice \notin asked
                        /\ \A m \in MembersOf(K[s].choice) \cap DOMAIN file :
                              m # s => file[m] = no
OldKept ==
    [][(Finish /\ input_mode \in {"oldconfig", "olddefconfig"} /\ file # Missing) =>
         \A s \in (DOMAIN file \cap DOMAIN file') \ asked :
            (AloneInChoice(s) /\ WithinRange(CalcAll(syms', MenuOrder), s, file[s]))
              => file'[s] = file[s]]_vars

(* conf_write never stores two values of a choice as y, in whatever way    *)
(* they were set, and what it stores is loaded with the values it was      *)
(* saved with, whatever order the symbol table is walked in.               *)
OneChosen(f) ==
    \A c \in Sym : IsChoice(c) =>
        Cardinality({m \in MembersOf(c) \cap DOMAIN f : f[m] = yes}) <= 1
LoadedAs(f, now) ==
    \A hash \in HashOrders :
    \E loaded \in {CalcAll(ReadFile(InitState, f, MenuOrder, hash), MenuOrder)} :
    \A s \in Sym : ~IsChoice(s) => loaded.curr[s] = now.curr[s]
RoundTrip ==
    [][file' # file => OneChosen(file') /\ LoadedAs(file', CalcAll(syms', MenuOrder))]_vars

(* "Save the minimal current configuration" (conf.c:486): defconfig makes  *)
(* the same configuration of it.                                           *)
DefconfigKept ==
    [][\A hash \in HashOrders, defaults \in Defconfigs : SaveDefconfig(defaults, << >>, hash) =>
         \A again \in HashOrders :
            Write(Defaults(defconfig', << >>, again), MenuOrder).file
              = Write(ClearAllValid(syms'), MenuOrder).file]_vars

(* "New config where all options are answered with no", yes or mod         *)
(* (conf.c:487): no symbol could be set any lower or higher in the result, *)
(* or to m.                                                                *)
Better(mode, val, curr) ==
    CASE mode = "allnoconfig" -> val < curr
      [] mode = "allyesconfig" -> val > curr
      [] mode = "allmodconfig" -> val = mod /\ curr # mod
      [] mode = "alldefconfig" -> FALSE
AllAnswered ==
    [][\A mode \in DOMAIN AllModes, hash \in HashOrders : SetAll(mode, Missing, hash) =>
         \E now \in {CalcAll(syms', MenuOrder)} :
         \A s \in Sym \ AllNoConfigY, val \in Tristate :
            ~IsChoiceValue(s) /\ Better(mode, val, now.curr[s]) => ~WithinRange(now, s, val)
      ]_vars
=============================================================================
