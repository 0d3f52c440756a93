-------------------------- MODULE AutoConf_proofs --------------------------
(***************************************************************************)
(* Proofs about AutoConf, for any symbols and values and any number of     *)
(* saves and failures.                                                     *)
(***************************************************************************)
EXTENDS AutoConf, TLAPS

(* What the steps of a run make of a file .config.                         *)
Raced(f) == [f EXCEPT !.raced = TRUE]
Unraced(f) == [f EXCEPT !.raced = FALSE]
Older(f) == [f EXCEPT !.newer = @ \ {"temporary"}]

LEMMA FileSteps ==
    ASSUME NEW f \in ConfigFile
    PROVE  /\ Raced(f) \in ConfigFile
           /\ Unraced(f) \in ConfigFile
           /\ Older(f) \in ConfigFile
           /\ Aged(f) \in ConfigFile
<1> USE DEF ConfigFile, Times
<1>1. Raced(f) \in ConfigFile /\ Unraced(f) \in ConfigFile
  BY DEF Raced, Unraced
<1>2. Older(f) \in ConfigFile
  BY DEF Older
<1>3. Aged(f) \in ConfigFile
  BY DEF Aged
<1> QED BY <1>1, <1>2, <1>3

(* Every variable keeps its type.                                          *)
THEOREM TypeCorrect == Spec => []TypeOK
<1> USE ConstantsAssumption DEF TypeOK
<1>1. Init => TypeOK
  <2> SUFFICES ASSUME Init PROVE TypeOK
    OBVIOUS
  <2>1. edits \in 0..MaxEdits /\ failures \in 0..MaxFailures
    BY DEF Init
  <2>2. config \in ConfigFile
    BY DEF Init, ConfigFile
  <2> QED BY <2>1, <2>2 DEF Init
<1>2. TypeOK /\ [Next]_vars => TypeOK'
  <2> SUFFICES ASSUME TypeOK, [Next]_vars PROVE TypeOK'
    OBVIOUS
  <2>1. CASE UNCHANGED vars
    BY <2>1 DEF vars, files
  <2>2. CASE PrintConfig \/ InstallConfig
    <3>1. draft' \in SUBSET ConfigFile /\ (\A d, e \in draft' : d = e)
      <4>1. ASSUME NEW c \in [Sym -> Val]
            PROVE  [val |-> c, newer |-> Times, raced |-> pc \in {"read", "split"}] \in ConfigFile
        <5>1. (pc \in {"read", "split"}) \in BOOLEAN
          OBVIOUS
        <5> QED BY <5>1 DEF ConfigFile
      <4>2. CASE PrintConfig
        <5>1. PICK f \in ConfigFile : draft' = {f}
          BY <4>1, <4>2 DEF PrintConfig
        <5> QED BY <5>1
      <4>3. CASE InstallConfig
        BY <4>3 DEF InstallConfig
      <4> QED BY <2>2, <4>2, <4>3
    <3>2. config' \in ConfigFile /\ edits' \in 0..MaxEdits
      BY <2>2 DEF PrintConfig, InstallConfig
    <3> QED BY <2>2, <3>1, <3>2 DEF PrintConfig, InstallConfig, files
  <2>3. CASE Begin
    <3>1. config' = Unraced(config) /\ draft' = {Raced(d) : d \in draft}
      BY <2>3 DEF Begin, Raced, Unraced
    <3>2. config' \in ConfigFile /\ curr' \in [Sym -> Val]
      BY <2>3, <3>1, FileSteps DEF Begin, ConfigFile
    <3>3. draft' \in SUBSET ConfigFile /\ (\A d, e \in draft' : d = e)
      BY <3>1, FileSteps
    <3> QED BY <2>3, <3>2, <3>3 DEF Begin, files
  <2>12. CASE Update
    <3>1. config' \in ConfigFile /\ curr' \in [Sym -> Val] /\ edits' \in 0..MaxEdits
      <4>1. CASE UNCHANGED <<config, curr, edits>>
        BY <4>1
      <4>2. CASE ~UNCHANGED <<config, curr, edits>>
        <5>1. /\ edits < MaxEdits /\ edits' = edits + 1 /\ curr' \in [Sym -> Val]
              /\ config' = [val |-> curr', newer |-> Times, raced |-> FALSE]
          BY <2>12, <4>2 DEF Update
        <5> QED BY <5>1 DEF ConfigFile
      <4> QED BY <4>1, <4>2
    <3> QED BY <2>12, <3>1 DEF Update, files
  <2>4. ASSUME NEW s \in Sym, Split(s) PROVE TypeOK'
    BY <2>4 DEF Split, files
  <2>5. CASE WriteTemporaries
    <3>1. config' = Older(config) /\ draft' = {Older(d) : d \in draft}
      BY <2>5 DEF WriteTemporaries, Older
    <3>2. config' \in ConfigFile /\ draft' \in SUBSET ConfigFile /\ (\A d, e \in draft' : d = e)
      BY <3>1, FileSteps
    <3> QED BY <2>5, <3>2 DEF WriteTemporaries, files
  <2>6. CASE RenameHeader
    BY <2>6 DEF RenameHeader
  <2>7. CASE RenameTristate
    BY <2>7 DEF RenameTristate
  <2>8. CASE RenameAuto
    <3>1. config' \in ConfigFile /\ draft' \in SUBSET ConfigFile /\ (\A d, e \in draft' : d = e)
      BY <2>8, FileSteps DEF RenameAuto
    <3> QED BY <2>8, <3>1 DEF RenameAuto
  <2>9. CASE Fail
    BY <2>9 DEF Fail, files
  <2>10. CASE StartBuild \/ StopBuild
    BY <2>10 DEF StartBuild, StopBuild, files
  <2>11. ASSUME NEW s \in Sym, Compile(s) PROVE TypeOK'
    BY <2>11 DEF Compile, files
  <2> QED BY <2>1, <2>2, <2>3, <2>4, <2>5, <2>6, <2>7, <2>8, <2>9, <2>10,
             <2>11, <2>12 DEF Next, Sync, Build
<1> QED BY <1>1, <1>2, PTL DEF Spec

(* The inductive invariant.  While conf_write_autoconf runs, auto.conf is  *)
(* stale and nothing is compiled; each symbol it has visited is touched    *)
(* when its value changed; and the files it has renamed hold the new       *)
(* values.  While make compiles, autoconf.h and auto.conf agree.           *)
RunInv ==
    /\ pc # "idle" =>
         /\ stale /\ ~building
         /\ pc # "read" => \A s \in Sym \ todo : curr[s] # auto[s] => s \in touched
    /\ pc \in {"header", "tristate", "auto"} => todo = {}
    /\ pc \in {"tristate", "auto"} => header = curr
    /\ pc = "auto" => tristate = curr
    /\ building => header = auto

(* What the run did not read is marked: as raced while it may come out     *)
(* older than auto.conf, as newer than the temporary files afterwards.     *)
Marked(f) == f.raced \/ "temporary" \in f.newer
ConfigInv ==
    /\ pc \in {"read", "split"} =>
         /\ config.raced \/ config.val = curr
         /\ \A d \in draft : d.raced
    /\ pc \in {"header", "tristate", "auto"} =>
         /\ Marked(config) \/ config.val = curr
         /\ \A d \in draft : Marked(d)
         /\ "temporary" \in config.newer => \A d \in draft : "temporary" \in d.newer
    /\ \A d \in draft : "auto" \in d.newer \/ (d.raced /\ ~stale)

SyncInv == AutoConfMarksCompletion /\ NoMissedRebuild /\ RunInv /\ ConfigInv

LEMMA InitSyncInv == Init => SyncInv
BY DEF Init, SyncInv, AutoConfMarksCompletion, NoMissedRebuild, OutOfDate,
       RunInv, ConfigInv, stale, Times

LEMMA SyncInvInductive == TypeOK /\ SyncInv /\ [Next]_vars => SyncInv'
<1> SUFFICES ASSUME TypeOK, SyncInv, [Next]_vars PROVE SyncInv'
  OBVIOUS
<1> USE DEF TypeOK, SyncInv, AutoConfMarksCompletion, NoMissedRebuild, OutOfDate,
            RunInv, ConfigInv, Marked, ConfigFile, Times, stale
<1>1. CASE UNCHANGED vars
  BY <1>1 DEF vars, files
<1>2. CASE PrintConfig
  <2>1. PICK f : /\ draft' = {f} /\ f.newer = Times
                 /\ pc \in {"read", "split"} => f.raced = TRUE
    BY <1>2 DEF PrintConfig
  <2>2. UNCHANGED <<config, files, touched, object, building, pc, curr, todo>>
    BY <1>2 DEF PrintConfig
  <2>3. AutoConfMarksCompletion' /\ NoMissedRebuild' /\ RunInv'
    BY <2>2 DEF files
  <2>4. \A d \in draft' : "temporary" \in d.newer /\ "auto" \in d.newer
    BY <2>1
  <2>5. pc' \in {"read", "split"} => \A d \in draft' : d.raced
    BY <2>1, <2>2
  <2>6. ConfigInv'
    <3>1. pc' \in {"read", "split"} =>
            (config.raced \/ config.val = curr)' /\ \A d \in draft' : d.raced
      BY <2>2, <2>5
    <3>2. pc' \in {"header", "tristate", "auto"} => (Marked(config) \/ config.val = curr)'
      BY <2>2
    <3>3. \A d \in draft' : Marked(d) /\ "temporary" \in d.newer /\ "auto" \in d.newer
      BY <2>4
    <3> QED BY <3>1, <3>2, <3>3
  <2> QED BY <2>3, <2>6
<1>3. CASE InstallConfig
  BY <1>3 DEF InstallConfig, files
<1>4. CASE Begin
  BY <1>4 DEF Begin, files
<1>5. CASE Update
  BY <1>5 DEF Update, files
<1>6. ASSUME NEW s \in Sym, Split(s) PROVE SyncInv'
  BY <1>6 DEF Split, files
<1>7. CASE WriteTemporaries
  BY <1>7 DEF WriteTemporaries, files
<1>8. CASE RenameHeader
  BY <1>8 DEF RenameHeader
<1>9. CASE RenameTristate
  BY <1>9 DEF RenameTristate
<1>10. CASE RenameAuto
  BY <1>10 DEF RenameAuto, Aged
<1>11. CASE Fail
  BY <1>11 DEF Fail, files
<1>12. CASE StartBuild \/ StopBuild
  BY <1>12 DEF StartBuild, StopBuild, files
<1>13. ASSUME NEW s \in Sym, Compile(s) PROVE SyncInv'
  BY <1>13 DEF Compile, files
<1> QED BY <1>1, <1>2, <1>3, <1>4, <1>5, <1>6, <1>7, <1>8, <1>9, <1>10,
           <1>11, <1>12, <1>13 DEF Next, Sync, Build

(* Once auto.conf is newer than .config, the three generated files say the *)
(* same, whatever failed before, and so does .config unless it was saved   *)
(* while conf was between reading it and closing its temporary files.      *)
THEOREM CompletionSafe == Spec => []AutoConfMarksCompletion
<1>1. SyncInv => AutoConfMarksCompletion
  BY DEF SyncInv
<1> QED BY InitSyncInv, SyncInvInductive, TypeCorrect, <1>1, PTL DEF Spec

(* An object make takes for up to date was compiled with the value         *)
(* auto.conf has.                                                          *)
THEOREM RebuildSafe == Spec => []NoMissedRebuild
<1>1. SyncInv => NoMissedRebuild
  BY DEF SyncInv
<1> QED BY InitSyncInv, SyncInvInductive, TypeCorrect, <1>1, PTL DEF Spec

(* A header is only touched for an object compiled with another value.     *)
THEOREM RebuildMinimal == Spec => NoNeedlessRebuild
<1>1. TypeOK /\ SyncInv /\ [Next]_vars
        => [\A s \in Sym : s \in touched' \ touched => object[s] # curr[s]]_vars
  <2> SUFFICES ASSUME TypeOK, SyncInv, Next, NEW t \in touched' \ touched,
                      t \in Sym
               PROVE  object[t] # curr[t]
    OBVIOUS
  <2>1. PICK s \in Sym : Split(s) /\ s = t
    BY DEF TypeOK, Next, Sync, Build, PrintConfig, InstallConfig, Begin,
       Update, Split,
       WriteTemporaries, RenameHeader, RenameTristate, RenameAuto, Fail,
       StartBuild, Compile, StopBuild
  <2>2. curr[t] # auto[t] /\ curr[t] \in Val
    BY <2>1 DEF Split, TypeOK
  <2>3. CASE object[t] = None
    BY <2>2, <2>3, ConstantsAssumption
  <2>4. CASE object[t] # None
    BY <2>2, <2>4 DEF SyncInv, NoMissedRebuild, OutOfDate
  <2> QED BY <2>3, <2>4
<1> QED BY InitSyncInv, SyncInvInductive, TypeCorrect, <1>1, PTL
        DEF Spec, NoNeedlessRebuild
=============================================================================
