--------------------------- MODULE SymbolSession ---------------------------
(***************************************************************************)
(* Runs of a configuration program over the symbol engine, one after the   *)
(* other, sharing the configuration file: the program loads the file or    *)
(* starts without one, applies the environment, calculates symbols as the  *)
(* menus show them, sets them at the user's request, loads again and       *)
(* saves.  The user may edit the file while no program runs.               *)
(***************************************************************************)
EXTENDS Symbols, FiniteSets

CONSTANTS
    MenuOrder,   \* the symbols in the order of the menus
    HashOrders,  \* orders in which the symbol table may be walked
    EditedFiles, \* files the user may leave for the program
    Defconfigs,  \* the files of defaults there may be, in order, or None
    Missing,     \* that there is no file
    Envs,        \* environments, as the CONFIG_ variables they set
    MaxSets      \* bound: how many values a run sets

VARIABLES
    syms,     \* the symbols in the memory of the program
    file,     \* the configuration file
    running,  \* is the program running
    sets      \* how many values this run has set

vars == <<syms, file, running, sets>>

TypeOK ==
    /\ syms \in State
    /\ file \in File \cup {Missing}
    /\ running \in BOOLEAN
    /\ sets \in 0..MaxSets

Init ==
    /\ syms = InitState
    /\ file \in EditedFiles \cup {Missing}
    /\ running = FALSE
    /\ sets = 0

(* What conf_read(NULL) makes of the configuration file, or of no file, and*)
(* the environment.                                                        *)
Read(st, f, defaults, env, hash) ==
    ReadEnv(IF f = Missing THEN ReadNothing(st, defaults, MenuOrder, hash)
            ELSE ReadFile(st, f, MenuOrder, hash), env, hash)

Start ==
    /\ running = FALSE
    /\ \E defaults \in Defconfigs, env \in Envs, hash \in HashOrders :
          syms' = Read(InitState, file, defaults, env, hash)
    /\ running' = TRUE
    /\ sets' = 0
    /\ UNCHANGED file

(* A menu shows s.                                                         *)
Show(s) ==
    /\ running
    /\ s \notin syms.valid
    /\ syms' = Calc(syms, s)
    /\ UNCHANGED <<file, running, sets>>

(* The user sets a symbol that a menu shows, is refused, or confirms the   *)
(* value it has.                                                           *)
Set(s, val) ==
    /\ running
    /\ sets < MaxSets
    /\ s \in syms.valid
    /\ syms.visible[s] # no
    /\ syms' = SetTristate(syms, s, val)
    /\ sets' = sets + 1
    /\ UNCHANGED <<file, running>>

ToggleIt(s) ==
    /\ running
    /\ sets < MaxSets
    /\ s \in syms.valid
    /\ syms.visible[s] # no
    /\ syms' = Toggle(syms, s)
    /\ sets' = sets + 1
    /\ UNCHANGED <<file, running>>

(* The user has the file loaded by its name, which mconf and nconf count as*)
(* a change.                                                               *)
Reload ==
    /\ running
    /\ file # Missing
    /\ \E env \in Envs, hash \in HashOrders :
       \E st \in {ReadEnv(ReadFile(syms, file, MenuOrder, hash), env, hash)} :
          syms' \in {st, [st EXCEPT !.changed = TRUE]}
    /\ UNCHANGED <<file, running, sets>>

(* There is no such file: conf_read forgets that there are changes, keeps  *)
(* the symbols and still applies the environment.                          *)
ReloadFails ==
    /\ running
    /\ file = Missing
    /\ \E env \in Envs, hash \in HashOrders :
          syms' = ReadEnv([syms EXCEPT !.changed = FALSE], env, hash)
    /\ UNCHANGED <<file, running, sets>>

Save ==
    /\ running
    /\ LET w == Write(syms, MenuOrder)
       IN  syms' = w.st /\ file' = w.file
    /\ UNCHANGED <<running, sets>>

Quit ==
    /\ running
    /\ running' = FALSE
    /\ syms' = InitState
    /\ UNCHANGED <<file, sets>>

(* conf --updateconfig, from start to end: conf_read has applied the       *)
(* environment already when it is applied again.                           *)
Updated(f, defaults, env, hash) ==
    Write(ReadEnv(Read(InitState, f, defaults, env, hash), env, hash), MenuOrder).file

Update(env) ==
    /\ running = FALSE
    /\ \E defaults \in Defconfigs, hash \in HashOrders :
          file' = Updated(file, defaults, env, hash)
    /\ UNCHANGED <<syms, running, sets>>

Next ==
    \/ \E env \in Envs : Update(env)
    \/ Start \/ Reload \/ ReloadFails \/ Save \/ Quit
    \/ \E s \in Sym : Show(s) \/ ToggleIt(s)
    \/ \E s \in Sym, val \in Tristate : Set(s, val)

Spec == Init /\ [][Next]_vars

-----------------------------------------------------------------------------
(* The symbols calculated from scratch: nothing is kept of what a program  *)
(* calculated before, but all of what the user set.                        *)
Scratch(st) ==
    CalcAll(CalcModules([InitState EXCEPT !.has = st.has, !.user = st.user,
                                          !.pick = st.pick]), MenuOrder)

(* A symbol that is flagged SYMBOL_VALID holds the value and the           *)
(* visibility that calculating everything again would give it: whatever    *)
(* was shown, set and loaded, in any order, no menu shows a stale value.   *)
Coherent ==
    LET scratch == Scratch(syms)
    IN  \A s \in syms.valid :
            /\ syms.curr[s] = scratch.curr[s]
            /\ syms.visible[s] = scratch.visible[s]

(* A program that loads what conf_write stored has the values the program  *)
(* had that stored it, in whatever order it walks the symbol table.        *)
RoundTrip ==
    [][Save => LET now == CalcAll(syms', MenuOrder) IN
         \A hash \in HashOrders :
           LET loaded == CalcAll(ReadFile(InitState, file', MenuOrder, hash), MenuOrder)
           IN  \A s \in Sym : ~IsChoice(s) => loaded.curr[s] = now.curr[s]]_vars

(* Loading a file discards the edits of the session: the result is that of *)
(* a program that has just been started on it.                             *)
LoadDiscards ==
    [][Reload =>
         LET now == CalcAll(syms', MenuOrder) IN
         \E env \in Envs, hash \in HashOrders :
           LET fresh == CalcAll(Read(InitState, file, None, env, hash), MenuOrder)
           IN  \A s \in Sym : fresh.curr[s] = now.curr[s]]_vars

(* A value that sym_set_tristate_value accepts is the value the symbol has *)
(* when everything is calculated again.                                    *)
SetTakes ==
    [][\A s \in Sym, val \in Tristate :
         Set(s, val) /\ Settable(syms, s, val)
           => CalcAll(syms', MenuOrder).curr[s] = val]_vars
=============================================================================
