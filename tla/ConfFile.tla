------------------------------ MODULE ConfFile ------------------------------
(***************************************************************************)
(* Configurators (conf, mconf, nconf, ...) that share one build directory: *)
(* a session loads a configuration file, edits values in memory and saves  *)
(* them with conf_write (kconfig/confdata.c).  conf_write prints into a    *)
(* temporary file named by the process id, moves the file in force aside   *)
(* to <name>.old and renames the temporary one into place; every system    *)
(* call is a step, so that processes interleave and may be killed between  *)
(* two of them.  A process that runs mconf also has a handler for SIGINT,  *)
(* which may call conf_write in the middle of another conf_write.          *)
(*                                                                         *)
(* What a symbol's value depends on is the business of SymCalc and         *)
(* Symbols.  Here a configuration is a function from symbols to values,    *)
(* and Written tells which symbols sym_calc_value flags SYMBOL_WRITE in    *)
(* it.                                                                     *)
(***************************************************************************)
EXTENDS ConfLines

CONSTANTS
    Proc,       \* configurator processes
    Dflt,       \* the name conf_get_configname() returns
    DefaultVal, \* what a symbol is worth when no file gives it a value
    Needs,      \* [symbol -> symbols sym_calc_value computes on the way]
    MenuOrder,  \* symbols in the order conf_write meets their menu entries
    Overwrite,  \* KCONFIG_OVERWRITECONFIG is set and not empty
    Defconfig,  \* the first file of sym_defconfig_list that can be opened
    Mconf,      \* the processes that run mconf, which handles SIGINT
    MaxSignals, \* how often SIGINT arrives
    Faults      \* what may go wrong

(* "missing": the user names a file to load that does not exist; "disk":   *)
(* the disk is full; "aside", "install": the first, the second rename of   *)
(* conf_write fails.                                                       *)
FaultKinds == {"missing", "disk", "aside", "install"}

ASSUME ConstantsAssumption ==
    /\ Dflt \in Name
    /\ DefaultVal \in Val
    /\ Needs \in [Sym -> SUBSET Sym]
    /\ MenuOrder \in Seq(Sym)
    /\ \A s \in Sym : \E i \in 1..Len(MenuOrder) : MenuOrder[i] = s
    /\ Overwrite \in BOOLEAN
    /\ Defconfig \in File
    /\ Mconf \subseteq Proc
    /\ MaxSignals \in Nat
    /\ Overwrite => Mconf = {} /\ \A p, q \in Proc : p = q
    /\ Faults \subseteq FaultKinds

VARIABLES
    conf,     \* the configuration files in force, by name
    old,      \* the .old files, by name
    tmp,      \* the .tmpconfig.<pid> file of each process
    pc,       \* where each process is
    user,     \* the values each process holds in memory
    valid,    \* symbols flagged SYMBOL_VALID
    toWrite,  \* symbols flagged SYMBOL_WRITE
    changed,  \* conf_get_changed(): the change count is not zero
    target,   \* the name conf_write was called with
    walk,     \* menu entries conf_write has passed
    signals,  \* how often SIGINT has arrived
    handler,  \* what SIGINT interrupted: nothing, no save, a save
    stream    \* what an interrupted conf_write has printed to a file still open

(* History, for the properties.                                            *)
VARIABLES
    saved,    \* the configuration last reported as saved under a name
    torn,     \* names last saved by a handler that interrupted a save
    synced    \* lines last loaded or saved by each process

memory == <<user, valid, toWrite>>
signal == <<signals, handler, stream>>
history == <<saved, torn, synced>>
vars == <<conf, old, tmp, pc, user, valid, toWrite, changed, target, walk,
          signal, history>>

SymsIn(f) == {l.sym : l \in Lines(f)}
(* conf_read_simple: the last line that names a symbol gives its value.    *)
LastLine(f, s) ==
    CHOOSE i \in 1..Len(f.lines) :
        /\ f.lines[i].sym = s
        /\ \A j \in 1..Len(f.lines) : f.lines[j].sym = s => j <= i
Parsed(f) ==
    [s \in Sym |-> IF s \in SymsIn(f) THEN f.lines[LastLine(f, s)].val
                                     ELSE DefaultVal]

(* sym_calc_value on every symbol of S: a symbol already valid is left as  *)
(* it is, the others become valid and their SYMBOL_WRITE is recomputed.    *)
Fresh(p, S) == S \ valid[p]
ValidAfter(p, S) == valid[p] \cup S
ToWriteAfter(p, S) ==
    (toWrite[p] \ Fresh(p, S)) \cup (Fresh(p, S) \cap Written[user[p]])

-----------------------------------------------------------------------------
(* A build directory without configuration files and nobody at work.       *)
Init ==
    /\ conf = [n \in Name |-> Missing]
    /\ old = [n \in Name |-> Missing]
    /\ tmp = [p \in Proc |-> Missing]
    /\ pc = [p \in Proc |-> "down"]
    /\ user = [p \in Proc |-> [s \in Sym |-> DefaultVal]]
    /\ valid = [p \in Proc |-> {}]
    /\ toWrite = [p \in Proc |-> {}]
    /\ changed = [p \in Proc |-> FALSE]
    /\ target = [p \in Proc |-> Dflt]
    /\ walk = [p \in Proc |-> 0]
    /\ signals = 0
    /\ handler = [p \in Proc |-> "none"]
    /\ stream = [p \in Proc |-> Missing]
    /\ saved = [n \in Name |-> {}]
    /\ torn = {}
    /\ synced = [p \in Proc |-> {}]

(* conf_read succeeds: conf_read_simple replaces every user value and      *)
(* clears SYMBOL_VALID, then every symbol is calculated.  The change count *)
(* says afterwards whether the file disagrees with what it would be saved  *)
(* as (conf_unsaved) or names a symbol twice (conf_warnings).              *)
Read(p, f) ==
    LET u == Parsed(f) IN
    /\ user' = [user EXCEPT ![p] = u]
    /\ valid' = [valid EXCEPT ![p] = Sym]
    /\ toWrite' = [toWrite EXCEPT ![p] = Written[u]]
    /\ synced' = [synced EXCEPT ![p] = Lines(f)]
Disagrees(f) ==
    \/ SymsIn(f) # Written[Parsed(f)]
    \/ ~OneLineEach(f)

(* A configurator starts: conf_read(NULL).  Without a file it counts a     *)
(* change and reads a file of defaults, which is not in the directory;     *)
(* without one of these either it has calculated nothing.                  *)
Start(p) ==
    /\ pc[p] = "down"
    /\ pc' = [pc EXCEPT ![p] = "ready"]
    /\ changed' = [changed EXCEPT ![p] = conf[Dflt].exists => Disagrees(conf[Dflt])]
    /\ IF conf[Dflt].exists THEN Read(p, conf[Dflt])
       ELSE IF Defconfig.exists THEN Read(p, Defconfig)
       ELSE UNCHANGED <<memory, synced>>
    /\ UNCHANGED <<conf, old, tmp, target, walk, signal, saved, torn>>

(* The user interface shows the menus: sym_calc_value on each symbol.      *)
Display(p) ==
    /\ pc[p] = "ready"
    /\ valid' = [valid EXCEPT ![p] = ValidAfter(p, Sym)]
    /\ toWrite' = [toWrite EXCEPT ![p] = ToWriteAfter(p, Sym)]
    /\ UNCHANGED <<conf, old, tmp, pc, user, changed, target, walk, signal, history>>

(* Variant of Edit: sym_clear_all_valid forgets to count the change.       *)
EditUncounted(p, s, v) ==
    /\ pc[p] = "ready"
    /\ s \in Written[user[p]]
    /\ v # user[p][s]
    /\ user' = [user EXCEPT ![p][s] = v]
    /\ valid' = [valid EXCEPT ![p] = {}]
    /\ UNCHANGED <<conf, old, tmp, pc, toWrite, changed, target, walk, signal, history>>

(* sym_set_tristate_value or sym_set_string_value with another value:      *)
(* sym_clear_all_valid also counts the change.                             *)
Edit(p, s, v) ==
    /\ pc[p] = "ready"
    /\ s \in Written[user[p]]
    /\ v # user[p][s]
    /\ user' = [user EXCEPT ![p][s] = v]
    /\ valid' = [valid EXCEPT ![p] = {}]
    /\ changed' = [changed EXCEPT ![p] = TRUE]
    /\ UNCHANGED <<conf, old, tmp, pc, toWrite, target, walk, signal, history>>

(* conf_load of the user interfaces.  conf_read zeroes the change count    *)
(* before it tries the file; only when there is one does it touch the      *)
(* values, and then conf_load counts a change of its own.                  *)
Load(p, n) ==
    /\ pc[p] = "ready"
    /\ IF conf[n].exists
       THEN /\ Read(p, conf[n])
            /\ changed' = [changed EXCEPT ![p] = TRUE]
       ELSE /\ "missing" \in Faults
            /\ changed' = [changed EXCEPT ![p] = FALSE]
            /\ UNCHANGED <<memory, synced>>
    /\ UNCHANGED <<conf, old, tmp, pc, target, walk, signal, saved, torn>>

(* conf_write opens its file: the walk begins.                             *)
OpenFile(p, n) ==
    /\ pc' = [pc EXCEPT ![p] = "print"]
    /\ target' = [target EXCEPT ![p] = n]
    /\ walk' = [walk EXCEPT ![p] = 0]
    /\ IF Overwrite
       THEN conf' = [conf EXCEPT ![n] = Empty] /\ UNCHANGED tmp
       ELSE tmp' = [tmp EXCEPT ![p] = Empty] /\ UNCHANGED conf
    /\ changed' = [changed EXCEPT ![p] = TRUE]
    /\ UNCHANGED <<old, user, toWrite, history>>

(* Variant of BeginWrite: the symbols are never invalidated, so that those *)
(* already printed once have lost SYMBOL_WRITE.                            *)
BeginWriteStale(p, n) ==
    /\ pc[p] = "ready"
    /\ OpenFile(p, n)
    /\ UNCHANGED <<valid, signal>>

(* conf_write up to the walk.  A file that cannot be opened returns 1      *)
(* before anything changes; sym_clear_all_valid counts a change.           *)
BeginWrite(p, n) ==
    /\ pc[p] = "ready"
    /\ OpenFile(p, n)
    /\ valid' = [valid EXCEPT ![p] = IF changed[p] THEN @ ELSE {}]
    /\ UNCHANGED signal

(* SIGINT arrives while mconf is at work, perhaps in the middle of a save. *)
(* When there are changes, as there always are in a save, handle_exit asks *)
(* and calls conf_write again, which calculates nothing anew.  The stream  *)
(* of the save it interrupts stays open; both have the same temporary file.*)
(* The signal is blocked while its handler runs.                           *)
Interrupt(p, n) ==
    /\ p \in Mconf
    /\ signals < MaxSignals
    /\ signals' = signals + 1
    /\ pc[p] # "down"
    /\ handler[p] = "none"
    /\ changed[p]
    /\ OpenFile(p, n)
    /\ handler' = [handler EXCEPT ![p] = IF pc[p] = "ready" THEN "idle" ELSE "save"]
    /\ stream' = [stream EXCEPT ![p] = IF pc[p] = "print" THEN tmp[p] ELSE Missing]
    /\ UNCHANGED valid

AddLine(f, l) == [f EXCEPT !.lines = Append(@, l)]
PrintLine(p, l) ==
    IF Overwrite
    THEN conf' = [conf EXCEPT ![target[p]] = AddLine(@, l)] /\ UNCHANGED tmp
    ELSE tmp' = [tmp EXCEPT ![p] = AddLine(@, l)] /\ UNCHANGED conf

(* Variant of PrintEntry: SYMBOL_WRITE is not cleared when the symbol is   *)
(* printed, so that a symbol with two menu entries is printed twice.       *)
PrintEntryKeepFlag(p) ==
    /\ pc[p] = "print"
    /\ walk[p] < Len(MenuOrder)
    /\ walk' = [walk EXCEPT ![p] = @ + 1]
    /\ LET s == MenuOrder[walk[p] + 1]
           flagged == ToWriteAfter(p, {s} \cup Needs[s])
       IN  /\ valid' = [valid EXCEPT ![p] = ValidAfter(p, {s} \cup Needs[s])]
           /\ toWrite' = [toWrite EXCEPT ![p] = flagged]
           /\ IF s \in flagged THEN PrintLine(p, LineOf(user[p], s))
                                ELSE UNCHANGED <<conf, tmp>>
    /\ UNCHANGED <<old, pc, user, changed, target, signal, history>>

(* One menu entry of the walk: calculate its symbol, and if it is flagged  *)
(* SYMBOL_WRITE clear the flag and print it.  Nobody looks at the result   *)
(* of fprintf or fclose: on a full disk the line is lost.                  *)
PrintEntry(p) ==
    /\ pc[p] = "print"
    /\ walk[p] < Len(MenuOrder)
    /\ walk' = [walk EXCEPT ![p] = @ + 1]
    /\ LET s == MenuOrder[walk[p] + 1]
           calc == {s} \cup Needs[s]
           flagged == ToWriteAfter(p, calc)
       IN  /\ valid' = [valid EXCEPT ![p] = ValidAfter(p, calc)]
           /\ toWrite' = [toWrite EXCEPT ![p] = flagged \ {s}]
           /\ IF s \in flagged
              THEN \/ PrintLine(p, LineOf(user[p], s))
                   \/ "disk" \in Faults /\ UNCHANGED <<conf, tmp>>
              ELSE UNCHANGED <<conf, tmp>>
    /\ UNCHANGED <<old, pc, user, changed, target, signal, history>>

(* The end of a process: what it knew is gone.  Nobody ever reads the      *)
(* temporary file it may leave behind.                                     *)
Gone(p) ==
    /\ pc' = [pc EXCEPT ![p] = "down"]
    /\ user' = [user EXCEPT ![p] = [s \in Sym |-> DefaultVal]]
    /\ valid' = [valid EXCEPT ![p] = {}]
    /\ toWrite' = [toWrite EXCEPT ![p] = {}]
    /\ changed' = [changed EXCEPT ![p] = FALSE]
    /\ target' = [target EXCEPT ![p] = Dflt]
    /\ walk' = [walk EXCEPT ![p] = 0]
    /\ tmp' = [tmp EXCEPT ![p] = Missing]
    /\ handler' = [handler EXCEPT ![p] = "none"]
    /\ stream' = [stream EXCEPT ![p] = Missing]
    /\ UNCHANGED signals
    /\ synced' = [synced EXCEPT ![p] = {}]

(* conf_write returns 0: sym_set_change_count(0).                          *)
Succeed(p, f) ==
    /\ saved' = [saved EXCEPT ![target[p]] = {user[p]}]
    /\ torn' = IF handler[p] = "save" THEN torn \cup {target[p]}
                                      ELSE torn \ {target[p]}
    /\ IF handler[p] = "none"
       THEN /\ pc' = [pc EXCEPT ![p] = "ready"]
            /\ changed' = [changed EXCEPT ![p] = FALSE]
            /\ synced' = [synced EXCEPT ![p] = Lines(f)]
            /\ tmp' = [tmp EXCEPT ![p] = Missing]
            /\ walk' = [walk EXCEPT ![p] = 0]
            /\ UNCHANGED <<memory, target, signal>>
       ELSE Gone(p)

(* The walk is over and the file closed.                                   *)
CloseFile(p) ==
    /\ pc[p] = "print"
    /\ walk[p] = Len(MenuOrder)
    /\ IF Overwrite
       THEN Succeed(p, conf[target[p]])
       ELSE /\ pc' = [pc EXCEPT ![p] = "aside"]
            /\ walk' = [walk EXCEPT ![p] = 0]
            /\ UNCHANGED <<tmp, memory, changed, target, signal, history>>
    /\ UNCHANGED <<conf, old>>

(* Variant of MoveAside: the .old file is replaced even when there is no   *)
(* file to move.                                                           *)
MoveAsideAlways(p) ==
    /\ pc[p] = "aside"
    /\ pc' = [pc EXCEPT ![p] = "install"]
    /\ old' = [old EXCEPT ![target[p]] = conf[target[p]]]
    /\ conf' = [conf EXCEPT ![target[p]] = Missing]
    /\ UNCHANGED <<tmp, memory, changed, target, walk, signal, history>>

(* rename(newname, <name>.old), whose result is ignored.                   *)
MoveAside(p) ==
    /\ pc[p] = "aside"
    /\ pc' = [pc EXCEPT ![p] = "install"]
    /\ LET n == target[p] IN
       \/ /\ conf[n].exists
          /\ old' = [old EXCEPT ![n] = conf[n]]
          /\ conf' = [conf EXCEPT ![n] = Missing]
       \/ /\ ~conf[n].exists \/ "aside" \in Faults
          /\ UNCHANGED <<conf, old>>
    /\ UNCHANGED <<tmp, memory, changed, target, walk, signal, history>>

(* exit() writes what is left in the buffer of a stream g that is still    *)
(* open, from its line k + 1 on, over the lines of the file f that has     *)
(* taken the place of the one it was opened for.                           *)
Flushed(f, g, k) ==
    LET m == Len(f.lines)
        least == IF k < m THEN k ELSE m
    IN  [f EXCEPT !.lines = SubSeq(f.lines, 1, least) \o SubSeq(g.lines, k + 1, Len(g.lines))
                              \o SubSeq(f.lines, Len(g.lines) + 1, m)]

(* rename(tmpname, newname), and what follows it: a handler exits.         *)
Install(p) ==
    /\ pc[p] = "install"
    /\ \/ /\ ~stream[p].exists
          /\ conf' = [conf EXCEPT ![target[p]] = tmp[p]]
       \/ /\ stream[p].exists
          /\ \E k \in 0..Len(stream[p].lines) :
                 conf' = [conf EXCEPT ![target[p]] = Flushed(tmp[p], stream[p], k)]
    /\ Succeed(p, tmp[p])
    /\ UNCHANGED old

(* The second rename fails: conf_write returns 1, and a handler exits.     *)
InstallFails(p) ==
    /\ pc[p] = "install"
    /\ "install" \in Faults
    /\ \/ /\ handler[p] = "none"
          /\ pc' = [pc EXCEPT ![p] = "ready"]
          /\ UNCHANGED <<tmp, memory, changed, target, walk, signal, synced>>
       \/ /\ handler[p] # "none"
          /\ Gone(p)
    /\ UNCHANGED <<conf, old, saved, torn>>

(* The process is killed between two system calls, or quits without saving:*)
(* with no changes, or because the user wants none of them.                *)
End(p) ==
    /\ pc[p] # "down"
    /\ Gone(p)
    /\ UNCHANGED <<conf, old, saved, torn>>

Step(p) ==
    \/ Start(p)
    \/ Display(p)
    \/ \E s \in Sym, v \in Val : Edit(p, s, v)
    \/ \E n \in Name : Load(p, n)
    \/ \E n \in Name : BeginWrite(p, n) \/ Interrupt(p, n)
    \/ PrintEntry(p)
    \/ CloseFile(p)
    \/ MoveAside(p)
    \/ Install(p)
    \/ InstallFails(p)
    \/ End(p)

Next == \E p \in Proc : Step(p)

Spec == Init /\ [][Next]_vars

-----------------------------------------------------------------------------
TypeOK ==
    /\ conf \in [Name -> File]
    /\ old \in [Name -> File]
    /\ tmp \in [Proc -> File]
    /\ pc \in [Proc -> {"down", "ready", "print", "aside", "install"}]
    /\ user \in [Proc -> Config]
    /\ valid \in [Proc -> SUBSET Sym]
    /\ toWrite \in [Proc -> SUBSET Sym]
    /\ changed \in [Proc -> BOOLEAN]
    /\ target \in [Proc -> Name]
    /\ walk \in [Proc -> 0..Len(MenuOrder)]
    /\ signals \in 0..MaxSignals
    /\ handler \in [Proc -> {"none", "idle", "save"}]
    /\ stream \in [Proc -> File]
    /\ saved \in [Name -> SUBSET Config]
    /\ torn \in SUBSET Name
    /\ synced \in [Proc -> SUBSET Line]

(* File f is what conf_write makes of configuration u.                     *)
Holds(f, u) == f.exists /\ OneLineEach(f) /\ Lines(f) = Image(u)

(* The configuration last reported as saved is still there, whole, under   *)
(* its name or as .old, whichever processes write, are interrupted or are  *)
(* killed between the two renames, except for a name that was last saved   *)
(* by a handler in the middle of another save.                             *)
LastSaveKept ==
    \A n \in Name \ torn : \A u \in saved[n] : Holds(conf[n], u) \/ Holds(old[n], u)

(* A configuration file under its name is never torn: it holds every       *)
(* symbol flagged SYMBOL_WRITE in one configuration, once each.  Only a    *)
(* handler that saves in the middle of another save leaves any other, and  *)
(* the next save makes up for it.                                          *)
FilesAreWhole ==
    \A n \in Name \ torn : conf[n].exists => Whole(conf[n])

(* When a user interface sees no change (and so quits without asking), the *)
(* values in memory are those it last loaded or saved.                     *)
UnchangedMeansSynced ==
    \A p \in Proc :
        pc[p] = "ready" /\ ~changed[p] => synced[p] = Image(user[p])

(* What is in force under a name, or can be restored from .old.            *)
InForce == [n \in Name |-> IF conf[n].exists THEN conf[n] ELSE old[n]]
Store == INSTANCE ConfStore WITH store <- InForce, torn <- torn

(* conf_write is atomic: the file in force, or its .old when there is      *)
(* none, only ever changes from one whole configuration to another, or to  *)
(* one that is marked as torn.                                             *)
AtomicSave == Store!Spec

(* Whenever the file in force changes, the one before is the .old: a save  *)
(* that fails or is killed takes nothing away, and neither a full disk nor *)
(* a handler that saves in the middle of another save, which leave less    *)
(* than the configuration, leave the user without the one before.          *)
PreviousKept ==
    [][\A n \in Name : InForce'[n] # InForce[n] /\ InForce[n].exists
                         => old'[n] = InForce[n]]_vars
=============================================================================
