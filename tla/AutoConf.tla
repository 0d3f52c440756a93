------------------------------ MODULE AutoConf ------------------------------
(***************************************************************************)
(* conf_write_autoconf (kconfig/confdata.c), which "conf --silentoldconfig"*)
(* runs during a build: it touches include/config/<symbol>.h for each      *)
(* symbol whose value changed since the last time (conf_split_config),     *)
(* then renames autoconf.h, tristate.conf and, last, auto.conf into place. *)
(* The build around it is not part of the repository; it is the one the    *)
(* comment before the last rename relies on: make runs the program while   *)
(* auto.conf is older than .config, then recompiles the objects that are   *)
(* older than the header of a symbol they depend on.                       *)
(*                                                                         *)
(* Another configurator may save .config at any time, during a run of conf *)
(* too.  rename() keeps the time of a file, which is that of its last      *)
(* write: .config is as old as its temporary file when that was closed,    *)
(* and so is auto.conf.  One such save is under way at a time.             *)
(*                                                                         *)
(* A file is a function from symbols to values; a symbol it has no line    *)
(* for, "n" and a missing file are all the value No.                       *)
(***************************************************************************)
EXTENDS Naturals

CONSTANTS
    Sym,        \* symbols; each has one object that depends on it
    Val,        \* values
    No,         \* the value of a symbol without a line
    None,       \* an object that was never compiled
    MaxEdits,   \* how often a configuration is saved
    MaxFailures \* how often the program fails or is killed

ASSUME ConstantsAssumption ==
    /\ No \in Val
    /\ None \notin Val
    /\ MaxEdits \in Nat
    /\ MaxFailures \in Nat

VARIABLES
    config,    \* .config
    draft,     \* the closed temporary file of a save, if there is one
    auto,      \* include/config/auto.conf
    header,    \* include/generated/autoconf.h
    tristate,  \* include/config/tristate.conf
    touched,   \* symbols whose header is newer than their object
    object,    \* the value each object was compiled with
    building,  \* make is compiling objects
    pc,        \* where conf_write_autoconf is
    curr,      \* the values it has calculated
    todo,      \* symbols conf_split_config has not visited
    edits, failures  \* how often each happened

files == <<auto, header, tristate>>
vars == <<config, draft, files, touched, object, building, pc, curr, todo,
          edits, failures>>

(* A file .config: its values, which of auto.conf and the temporary file   *)
(* that will become auto.conf it is newer than, and, as history, whether   *)
(* it was saved across the moment a run of conf read .config, or between   *)
(* that moment and the closing of the run's own temporary files.           *)
Times == {"auto", "temporary"}
ConfigFile == [val : [Sym -> Val], newer : SUBSET Times, raced : BOOLEAN]

(* make runs conf when .config is newer than auto.conf or there is none.   *)
stale == "auto" \in config.newer

Init ==
    /\ config \in [val : [Sym -> Val], newer : {Times}, raced : {FALSE}]
    /\ draft = {}
    /\ auto = [s \in Sym |-> No]
    /\ header = [s \in Sym |-> No]
    /\ tristate = [s \in Sym |-> No]
    /\ touched = {}
    /\ object = [s \in Sym |-> None]
    /\ building = FALSE
    /\ pc = "idle"
    /\ curr = [s \in Sym |-> No]
    /\ todo = {}
    /\ edits = 0
    /\ failures = 0

(* Another configurator has printed its temporary file and closed it.      *)
PrintConfig ==
    /\ draft = {}
    /\ edits < MaxEdits
    /\ \E c \in [Sym -> Val] :
           draft' = {[val |-> c, newer |-> Times, raced |-> pc \in {"read", "split"}]}
    /\ edits' = edits + 1
    /\ UNCHANGED <<config, files, touched, object, building, pc, curr, todo, failures>>

(* It renames it to .config, or is killed before it does.                  *)
InstallConfig ==
    /\ draft # {}
    /\ \/ config' \in draft
       \/ UNCHANGED config
    /\ draft' = {}
    /\ UNCHANGED <<files, touched, object, building, pc, curr, todo, edits, failures>>

(* conf_read: from here on what other processes save is not seen.          *)
Begin ==
    /\ pc = "idle"
    /\ stale
    /\ ~building
    /\ pc' = "read"
    /\ curr' = config.val
    /\ config' = [config EXCEPT !.raced = FALSE]
    /\ draft' = {[d EXCEPT !.raced = TRUE] : d \in draft}
    /\ UNCHANGED <<files, touched, object, building, todo, edits, failures>>

(* The questions are asked; when anything changed conf_write saves .config,*)
(* whatever it is by now.                                                  *)
Update ==
    /\ pc = "read"
    /\ pc' = "split"
    /\ \/ UNCHANGED <<config, curr, edits>>
       \/ /\ edits < MaxEdits
          /\ edits' = edits + 1
          /\ curr' \in [Sym -> Val]
          /\ config' = [val |-> curr', newer |-> Times, raced |-> FALSE]
    /\ todo' = Sym
    /\ UNCHANGED <<draft, files, touched, object, building, failures>>

(* Variants: symbols that are not n are touched, all symbols are touched.  *)
SplitSet(s) ==
    /\ pc = "split"
    /\ s \in todo
    /\ todo' = todo \ {s}
    /\ touched' = IF curr[s] # No THEN touched \cup {s} ELSE touched
    /\ UNCHANGED <<config, draft, files, object, building, pc, curr, edits, failures>>

SplitAll(s) ==
    /\ pc = "split"
    /\ s \in todo
    /\ todo' = todo \ {s}
    /\ touched' = touched \cup {s}
    /\ UNCHANGED <<config, draft, files, object, building, pc, curr, edits, failures>>

(* One symbol of conf_split_config: its header is touched when the value   *)
(* differs from the one in auto.conf.                                      *)
Split(s) ==
    /\ pc = "split"
    /\ s \in todo
    /\ todo' = todo \ {s}
    /\ touched' = IF curr[s] # auto[s] THEN touched \cup {s} ELSE touched
    /\ UNCHANGED <<config, draft, files, object, building, pc, curr, edits, failures>>

(* The three temporary files are printed and closed.                       *)
WriteTemporaries ==
    /\ pc = "split"
    /\ todo = {}
    /\ pc' = "header"
    /\ config' = [config EXCEPT !.newer = @ \ {"temporary"}]
    /\ draft' = {[d EXCEPT !.newer = @ \ {"temporary"}] : d \in draft}
    /\ UNCHANGED <<files, touched, object, building, curr, todo, edits, failures>>

(* Variant: tristate.conf is forgotten.                                    *)
RenameHeaderOnly ==
    /\ pc = "header"
    /\ header' = curr
    /\ pc' = "auto"
    /\ UNCHANGED <<config, draft, auto, tristate, touched, object, building,
                   curr, todo, edits, failures>>

RenameHeader ==
    /\ pc = "header"
    /\ header' = curr
    /\ pc' = "tristate"
    /\ UNCHANGED <<config, draft, auto, tristate, touched, object, building,
                   curr, todo, edits, failures>>

RenameTristate ==
    /\ pc = "tristate"
    /\ tristate' = curr
    /\ pc' = "auto"
    /\ UNCHANGED <<config, draft, auto, header, touched, object, building,
                   curr, todo, edits, failures>>

(* What was newer than the temporary file is newer than auto.conf now.     *)
Aged(f) == [f EXCEPT !.newer = IF "temporary" \in @ THEN Times ELSE {}]

(* Variant: an auto.conf that would not change is left alone.              *)
RenameAutoChanged ==
    /\ pc = "auto"
    /\ pc' = "idle"
    /\ IF auto = curr
       THEN UNCHANGED <<auto, config, draft>>
       ELSE /\ auto' = curr
            /\ config' = Aged(config)
            /\ draft' = {Aged(d) : d \in draft}
    /\ UNCHANGED <<header, tristate, touched, object, building, curr, todo,
                   edits, failures>>

(* The last step: auto.conf becomes newer than the .config that was read.  *)
RenameAuto ==
    /\ pc = "auto"
    /\ pc' = "idle"
    /\ auto' = curr
    /\ config' = Aged(config)
    /\ draft' = {Aged(d) : d \in draft}
    /\ UNCHANGED <<header, tristate, touched, object, building, curr, todo,
                   edits, failures>>

(* A system call fails and conf_write_autoconf returns 1, or the program   *)
(* is killed: what was done stays, and make stops.                         *)
Fail ==
    /\ pc # "idle"
    /\ failures < MaxFailures
    /\ failures' = failures + 1
    /\ pc' = "idle"
    /\ todo' = {}
    /\ UNCHANGED <<config, draft, files, touched, object, building, curr, edits>>

(* make goes on to the objects once auto.conf is up to date.               *)
OutOfDate(s) == object[s] = None \/ s \in touched
StartBuild ==
    /\ pc = "idle"
    /\ ~stale
    /\ ~building
    /\ \E s \in Sym : OutOfDate(s)
    /\ building' = TRUE
    /\ UNCHANGED <<config, draft, files, touched, object, pc, curr, todo, edits, failures>>

(* An object is compiled with what autoconf.h says, even when .config has  *)
(* changed since make looked.                                              *)
Compile(s) ==
    /\ building
    /\ OutOfDate(s)
    /\ object' = [object EXCEPT ![s] = header[s]]
    /\ touched' = touched \ {s}
    /\ UNCHANGED <<config, draft, files, building, pc, curr, todo, edits, failures>>

(* make is done, or is interrupted.                                        *)
StopBuild ==
    /\ building
    /\ building' = FALSE
    /\ UNCHANGED <<config, draft, files, touched, object, pc, curr, todo, edits, failures>>

Sync ==
    \/ Begin
    \/ Update
    \/ \E s \in Sym : Split(s)
    \/ WriteTemporaries
    \/ RenameHeader
    \/ RenameTristate
    \/ RenameAuto
Build ==
    \/ StartBuild
    \/ \E s \in Sym : Compile(s)
    \/ StopBuild
Next == PrintConfig \/ InstallConfig \/ Sync \/ Fail \/ Build

(* The user runs make again and again: each step of a run that can be      *)
(* taken is, and a build that is not interrupted forever compiles each     *)
(* object.                                                                 *)
Fairness ==
    /\ WF_vars(Sync)
    /\ WF_vars(StartBuild)
    /\ WF_vars(StopBuild)
    /\ \A s \in Sym : SF_vars(Compile(s))

Spec == Init /\ [][Next]_vars
FairSpec == Spec /\ Fairness

-----------------------------------------------------------------------------
TypeOK ==
    /\ config \in ConfigFile
    /\ draft \in SUBSET ConfigFile
    /\ \A d, e \in draft : d = e
    /\ auto \in [Sym -> Val]
    /\ header \in [Sym -> Val]
    /\ tristate \in [Sym -> Val]
    /\ touched \in SUBSET Sym
    /\ object \in [Sym -> Val \cup {None}]
    /\ building \in BOOLEAN
    /\ pc \in {"idle", "read", "split", "header", "tristate", "auto"}
    /\ curr \in [Sym -> Val]
    /\ todo \in SUBSET Sym
    /\ edits \in 0..MaxEdits
    /\ failures \in 0..MaxFailures

(* "This must be the last step, kbuild has a dependency on auto.conf and   *)
(* this marks the successful completion of the previous steps": once       *)
(* auto.conf is newer than .config, autoconf.h and tristate.conf say what  *)
(* it says, whatever failed before, and so does .config, unless it was     *)
(* saved by another process while conf was between reading it and closing  *)
(* its temporary files: that save make never sees.                         *)
AutoConfMarksCompletion ==
    ~stale => /\ header = auto
              /\ tristate = auto
              /\ config.raced \/ config.val = auto

(* An object that make takes for up to date was compiled with the value    *)
(* auto.conf has: failures, reruns, and values changed and changed back    *)
(* never lose the touch of a header.                                       *)
NoMissedRebuild ==
    \A s \in Sym : ~OutOfDate(s) => object[s] = auto[s]

(* A header is only touched for an object compiled with another value than *)
(* the symbol now has: what did not change is not recompiled.              *)
NoNeedlessRebuild ==
    [][\A s \in Sym : s \in touched' \ touched => object[s] # curr[s]]_vars

(* When .config stops changing and the program stops failing, make ends up *)
(* with every object compiled for auto.conf, and auto.conf made from       *)
(* .config unless that was saved in the middle of a run.                   *)
BuildCatchesUp ==
    <>[](/\ \A s \in Sym : ~OutOfDate(s) /\ object[s] = auto[s]
         /\ config.raced \/ config.val = auto)
=============================================================================
