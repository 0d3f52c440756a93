-------------------------- MODULE ConfFile_proofs --------------------------
(***************************************************************************)
(* Proofs about ConfFile, for any number of processes, names, symbols and  *)
(* values.                                                                 *)
(***************************************************************************)
EXTENDS ConfFile, NatSets, SequenceTheorems, TLAPS

USE DEF Config

(* A file parses to a configuration: the last line that names a symbol     *)
(* exists, and its value is a value.                                       *)
LEMMA ParsedType ==
    ASSUME NEW f \in File
    PROVE  Parsed(f) \in Config
<1> DEFINE n == Len(f.lines)
<1>1. f.lines \in Seq(Line) /\ n \in Nat
  BY DEF File
<1>2. \A i \in 1..n : f.lines[i] \in Line
  BY <1>1
<1>3. ASSUME NEW s \in Sym, s \in SymsIn(f)
      PROVE  f.lines[LastLine(f, s)].val \in Val
  <2> DEFINE T == {i \in 1..n : f.lines[i].sym = s}
  <2>1. T \in SUBSET (0..n) /\ T # {}
    BY <1>1, <1>3 DEF SymsIn, Lines
  <2>2. \E i \in T : \A j \in T : j <= i
    <3> HIDE DEF T, n
    <3> QED BY <1>1, <2>1, NatGreatest
  <2>3. LastLine(f, s) \in 1..n
    BY <2>2 DEF LastLine
  <2> QED BY <1>2, <2>3 DEF Line
<1>4. DefaultVal \in Val
  BY ConstantsAssumption
<1> QED BY <1>3, <1>4 DEF Parsed

(* A file with one line for each symbol that is to be written says exactly *)
(* what the configuration read from it would be printed as.                *)
LEMMA ParsedImage ==
    ASSUME NEW f \in File, OneLineEach(f), SymsIn(f) = Written[Parsed(f)]
    PROVE  Lines(f) = Image(Parsed(f))
<1> DEFINE n == Len(f.lines)
<1>1. f.lines \in Seq(Line) /\ n \in Nat /\ \A i \in 1..n : f.lines[i] \in Line
  BY DEF File
<1>2. ASSUME NEW i \in 1..n
      PROVE  f.lines[i] = LineOf(Parsed(f), f.lines[i].sym)
  <2> DEFINE s == f.lines[i].sym
  <2>1. s \in Sym /\ s \in SymsIn(f)
    BY <1>1 DEF SymsIn, Lines, Line
  <2>2. LastLine(f, s) = i
    BY <1>1 DEF LastLine, OneLineEach
  <2>3. Parsed(f)[s] = f.lines[i].val
    BY <2>1, <2>2 DEF Parsed
  <2> QED BY <1>1, <2>3 DEF LineOf, Line
<1>3. ASSUME NEW l \in Lines(f) PROVE l \in Image(Parsed(f))
  BY <1>2 DEF Lines, Image, SymsIn
<1>4. ASSUME NEW l \in Image(Parsed(f)) PROVE l \in Lines(f)
  <2>1. PICK s \in Written[Parsed(f)] : l = LineOf(Parsed(f), s)
    BY DEF Image
  <2>2. PICK i \in 1..n : s = f.lines[i].sym
    BY <2>1 DEF SymsIn, Lines
  <2> QED BY <1>2, <2>1, <2>2 DEF Lines
<1> QED BY <1>3, <1>4

(* Printing a line adds it to the file, and keeps the lines distinct when  *)
(* the symbol has none yet.                                                *)
LEMMA AddLineProperties ==
    ASSUME NEW f \in File, NEW l \in Line
    PROVE  /\ AddLine(f, l) \in File
           /\ AddLine(f, l).exists = f.exists
           /\ Lines(AddLine(f, l)) = Lines(f) \cup {l}
           /\ OneLineEach(f) /\ l.sym \notin SymsIn(f)
                => OneLineEach(AddLine(f, l))
<1> DEFINE n == Len(f.lines)
           g == AddLine(f, l)
<1>1. f.lines \in Seq(Line) /\ n \in Nat
  BY DEF File
<1>2. g = [exists |-> f.exists, lines |-> Append(f.lines, l)]
  BY DEF AddLine, File
<1>3. /\ g.lines \in Seq(Line)
      /\ Len(g.lines) = n + 1
      /\ \A i \in 1..n : g.lines[i] = f.lines[i]
      /\ g.lines[n + 1] = l
  BY <1>1, <1>2
<1>4. g \in File
  BY <1>2, <1>3 DEF File
<1>5. 1..(n + 1) = 1..n \cup {n + 1}
  BY <1>1
<1>6. Lines(g) = Lines(f) \cup {l}
  BY <1>3, <1>5 DEF Lines
<1>7. ASSUME OneLineEach(f), l.sym \notin SymsIn(f)
      PROVE  OneLineEach(g)
  <2>1. \A i \in 1..n : g.lines[i].sym # g.lines[n + 1].sym
    BY <1>3, <1>7 DEF SymsIn, Lines
  <2>2. ASSUME NEW i \in 1..n, NEW j \in 1..n, g.lines[i].sym = g.lines[j].sym
        PROVE  i = j
    BY <1>3, <1>7, <2>2 DEF OneLineEach
  <2> HIDE DEF g, n
  <2> QED BY <1>3, <1>5, <2>1, <2>2 DEF OneLineEach
<1> QED BY <1>2, <1>4, <1>6, <1>7

(* What is left when a stream is flushed over a file is a file.            *)
LEMMA FlushedType ==
    ASSUME NEW f \in File, NEW g \in File, NEW k \in 0..Len(g.lines)
    PROVE  Flushed(f, g, k) \in File
<1> DEFINE m == Len(f.lines)
           n == Len(g.lines)
           least == IF k < m THEN k ELSE m
<1>1. /\ f.lines \in Seq(Line) /\ g.lines \in Seq(Line)
      /\ m \in Nat /\ n \in Nat /\ k \in Nat /\ least \in Nat
  BY DEF File
<1>2. SubSeq(f.lines, 1, least) \in Seq(Line)
  <2>1. least <= m
    BY <1>1
  <2> HIDE DEF least
  <2> QED BY <1>1, <2>1
<1>3. SubSeq(g.lines, k + 1, n) \in Seq(Line)
  BY <1>1
<1>4. SubSeq(f.lines, n + 1, m) \in Seq(Line)
  BY <1>1
<1>5. SubSeq(f.lines, 1, least) \o SubSeq(g.lines, k + 1, n) \o SubSeq(f.lines, n + 1, m) \in Seq(Line)
  <2> HIDE DEF least, m, n
  <2> QED BY <1>2, <1>3, <1>4
<1> QED BY <1>5 DEF Flushed, File

-----------------------------------------------------------------------------
(* Every variable keeps its type.                                          *)
THEOREM TypeCorrect == Spec => []TypeOK
<1> USE ConstantsAssumption, WrittenAssumption
<1>1. Init => TypeOK
  BY DEF Init, TypeOK, File, Missing
<1>2. TypeOK /\ [Next]_vars => TypeOK'
  <2> SUFFICES ASSUME TypeOK, [Next]_vars PROVE TypeOK'
    OBVIOUS
  <2> USE DEF TypeOK
  <2>1. \A u \in Config : Written[u] \in SUBSET Sym
    OBVIOUS
  <2>2. \A f \in File : Lines(f) \in SUBSET Line
    BY DEF Lines, File
  <2>3. Missing \in File /\ Empty \in File
    BY DEF Missing, Empty, File
  <2>4. \A u \in Config, s \in Sym : LineOf(u, s) \in Line
    BY DEF LineOf, Line
  <2>5. ASSUME NEW p \in Proc, NEW f \in File, Read(p, f)
        PROVE  /\ user' \in [Proc -> Config]
               /\ valid' \in [Proc -> SUBSET Sym]
               /\ toWrite' \in [Proc -> SUBSET Sym]
               /\ synced' \in [Proc -> SUBSET Line]
    <3>1. Parsed(f) \in Config
      BY ParsedType
    <3> HIDE DEF Config
    <3> QED BY <2>1, <2>2, <2>5, <3>1 DEF Read
  <2>6. ASSUME NEW p \in Proc, NEW S \in SUBSET Sym
        PROVE  ValidAfter(p, S) \in SUBSET Sym /\ ToWriteAfter(p, S) \in SUBSET Sym
    BY <2>1 DEF ValidAfter, ToWriteAfter, Fresh
  <2> DEFINE Local == <<tmp, pc, memory, changed, target, walk, signal, synced>>
             LocalOK == /\ tmp' \in [Proc -> File]
                        /\ pc' \in [Proc -> {"down", "ready", "print", "aside", "install"}]
                        /\ user' \in [Proc -> Config]
                        /\ valid' \in [Proc -> SUBSET Sym]
                        /\ toWrite' \in [Proc -> SUBSET Sym]
                        /\ changed' \in [Proc -> BOOLEAN]
                        /\ target' \in [Proc -> Name]
                        /\ walk' \in [Proc -> 0..Len(MenuOrder)]
                        /\ signals' \in 0..MaxSignals
                        /\ handler' \in [Proc -> {"none", "idle", "save"}]
                        /\ stream' \in [Proc -> File]
                        /\ synced' \in [Proc -> SUBSET Line]
  <2>7. ASSUME NEW p \in Proc, Gone(p) PROVE LocalOK
    BY <2>3, <2>7 DEF Gone
  <2>8. ASSUME NEW p \in Proc, NEW f \in File, Succeed(p, f)
        PROVE  LocalOK /\ saved' \in [Name -> SUBSET Config] /\ torn' \in SUBSET Name
    <3>1. saved' \in [Name -> SUBSET Config] /\ torn' \in SUBSET Name
      <4>1. user[p] \in Config
        OBVIOUS
      <4> HIDE DEF Config
      <4> QED BY <2>8, <4>1 DEF Succeed
    <3>2. CASE handler[p] = "none"
      <4>1. Lines(f) \in SUBSET Line
        BY <2>2
      <4>2. /\ pc' = [pc EXCEPT ![p] = "ready"]
            /\ changed' = [changed EXCEPT ![p] = FALSE]
            /\ synced' = [synced EXCEPT ![p] = Lines(f)]
            /\ tmp' = [tmp EXCEPT ![p] = Missing]
            /\ walk' = [walk EXCEPT ![p] = 0]
            /\ UNCHANGED <<user, valid, toWrite, target, signals, handler, stream>>
        BY <2>8, <3>2 DEF Succeed, memory, signal
      <4>3. walk' \in [Proc -> 0..Len(MenuOrder)]
        BY <4>2
      <4>4. tmp' \in [Proc -> File] /\ synced' \in [Proc -> SUBSET Line]
        BY <2>3, <4>1, <4>2
      <4>5. pc' \in [Proc -> {"down", "ready", "print", "aside", "install"}] /\ changed' \in [Proc -> BOOLEAN]
        BY <4>2
      <4> QED BY <3>1, <4>2, <4>3, <4>4, <4>5
    <3>3. CASE handler[p] # "none"
      <4> HIDE DEF LocalOK
      <4> QED BY <2>7, <2>8, <3>1, <3>3 DEF Succeed
    <3> QED BY <3>2, <3>3
  <2>9. ASSUME NEW p \in Proc, NEW n \in Name, OpenFile(p, n)
        PROVE  /\ conf' \in [Name -> File] /\ tmp' \in [Proc -> File]
               /\ pc' \in [Proc -> {"down", "ready", "print", "aside", "install"}]
               /\ changed' \in [Proc -> BOOLEAN]
               /\ target' \in [Proc -> Name]
               /\ walk' \in [Proc -> 0..Len(MenuOrder)]
    <3>1. conf' \in [Name -> File] /\ tmp' \in [Proc -> File]
      <4>1. CASE conf' = [conf EXCEPT ![n] = Empty] /\ tmp' = tmp
        BY <2>3, <4>1
      <4>2. CASE tmp' = [tmp EXCEPT ![p] = Empty] /\ conf' = conf
        BY <2>3, <4>2
      <4> QED BY <2>9, <4>1, <4>2 DEF OpenFile
    <3>2. walk' \in [Proc -> 0..Len(MenuOrder)]
      BY <2>9 DEF OpenFile
    <3>3. target' \in [Proc -> Name] /\ changed' \in [Proc -> BOOLEAN]
      BY <2>9 DEF OpenFile
    <3>4. pc' \in [Proc -> {"down", "ready", "print", "aside", "install"}]
      BY <2>9 DEF OpenFile
    <3> QED BY <3>1, <3>2, <3>3, <3>4
  <2>10. CASE UNCHANGED vars
    BY <2>10 DEF vars, memory, signal, history
  <2>11. ASSUME NEW p \in Proc, Start(p) PROVE TypeOK'
    <3>1. /\ user' \in [Proc -> Config]
          /\ valid' \in [Proc -> SUBSET Sym]
          /\ toWrite' \in [Proc -> SUBSET Sym]
          /\ synced' \in [Proc -> SUBSET Line]
      <4>1. conf[Dflt] \in File /\ Defconfig \in File
        OBVIOUS
      <4> QED BY <2>5, <2>11, <4>1 DEF Start, memory
    <3>2. changed' \in [Proc -> BOOLEAN]
      BY <2>11 DEF Start, Disagrees
    <3> QED BY <2>11, <3>1, <3>2 DEF Start, signal
  <2>12. ASSUME NEW p \in Proc, Display(p) PROVE TypeOK'
    BY <2>6, <2>12 DEF Display, signal, history
  <2>13. ASSUME NEW p \in Proc, NEW s \in Sym, NEW v \in Val, Edit(p, s, v)
         PROVE  TypeOK'
    BY <2>13 DEF Edit, signal, history
  <2>14. ASSUME NEW p \in Proc, NEW n \in Name, Load(p, n) PROVE TypeOK'
    BY <2>5, <2>14 DEF Load, memory, signal
  <2>15. ASSUME NEW p \in Proc, NEW n \in Name, BeginWrite(p, n) PROVE TypeOK'
    <3>1. valid' \in [Proc -> SUBSET Sym]
      BY <2>15 DEF BeginWrite
    <3>2. UNCHANGED <<old, user, toWrite, history, signal>>
      BY <2>15 DEF BeginWrite, OpenFile
    <3> QED BY <2>9, <2>15, <3>1, <3>2 DEF BeginWrite, signal, history
  <2>22. ASSUME NEW p \in Proc, NEW n \in Name, Interrupt(p, n) PROVE TypeOK'
    <3>1. handler' \in [Proc -> {"none", "idle", "save"}] /\ stream' \in [Proc -> File]
      BY <2>3, <2>22 DEF Interrupt
    <3>2. signals' \in 0..MaxSignals
      BY <2>22 DEF Interrupt
    <3>3. UNCHANGED <<old, user, valid, toWrite, history>>
      BY <2>22 DEF Interrupt, OpenFile
    <3> QED BY <2>9, <2>22, <3>1, <3>2, <3>3 DEF Interrupt, history
  <2>16. ASSUME NEW p \in Proc, PrintEntry(p) PROVE TypeOK'
    <3> DEFINE s == MenuOrder[walk[p] + 1]
               calc == {s} \cup Needs[s]
    <3>1. walk[p] + 1 \in 1..Len(MenuOrder) /\ s \in Sym /\ calc \in SUBSET Sym
      BY <2>16 DEF PrintEntry
    <3>2. LineOf(user[p], s) \in Line
      BY <2>4, <3>1
    <3>3. ASSUME PrintLine(p, LineOf(user[p], s))
          PROVE  conf' \in [Name -> File] /\ tmp' \in [Proc -> File]
      <4> DEFINE l == LineOf(user[p], s)
      <4>1. AddLine(conf[target[p]], l) \in File /\ AddLine(tmp[p], l) \in File
        BY <3>2, AddLineProperties
      <4>2. CASE Overwrite
        <5>1. conf' = [conf EXCEPT ![target[p]] = AddLine(conf[target[p]], l)] /\ tmp' = tmp
          BY <3>3, <4>2 DEF PrintLine
        <5> HIDE DEF l
        <5> QED BY <4>1, <5>1
      <4>3. CASE ~Overwrite
        <5>1. tmp' = [tmp EXCEPT ![p] = AddLine(tmp[p], l)] /\ conf' = conf
          BY <3>3, <4>3 DEF PrintLine
        <5> HIDE DEF l
        <5> QED BY <4>1, <5>1
      <4> QED BY <4>2, <4>3
    <3>4. conf' \in [Name -> File] /\ tmp' \in [Proc -> File]
      BY <2>16, <3>3 DEF PrintEntry
    <3>5. ValidAfter(p, calc) \in SUBSET Sym /\ ToWriteAfter(p, calc) \in SUBSET Sym
      BY <2>6, <3>1
    <3> HIDE DEF Config
    <3>6. valid' \in [Proc -> SUBSET Sym] /\ toWrite' \in [Proc -> SUBSET Sym]
      BY <2>16, <3>5 DEF PrintEntry
    <3>7. walk' \in [Proc -> 0..Len(MenuOrder)]
      BY <2>16, <3>1 DEF PrintEntry
    <3> QED BY <2>16, <3>4, <3>6, <3>7 DEF PrintEntry, signal, history
  <2>17. ASSUME NEW p \in Proc, CloseFile(p) PROVE TypeOK'
    <3>1. conf[target[p]] \in File
      OBVIOUS
    <3>2. CASE Overwrite
      <4>1. Succeed(p, conf[target[p]]) /\ UNCHANGED <<conf, old>>
        BY <2>17, <3>2 DEF CloseFile
      <4> QED BY <2>8, <3>1, <4>1
    <3>3. CASE ~Overwrite
      <4>1. /\ pc' = [pc EXCEPT ![p] = "aside"]
            /\ walk' = [walk EXCEPT ![p] = 0]
            /\ UNCHANGED <<conf, old, tmp, memory, changed, target, signal, history>>
        BY <2>17, <3>3 DEF CloseFile
      <4>2. walk' \in [Proc -> 0..Len(MenuOrder)]
        BY <4>1
      <4>3. pc' \in [Proc -> {"down", "ready", "print", "aside", "install"}]
        BY <4>1
      <4> QED BY <4>1, <4>2, <4>3 DEF memory, signal, history
    <3> QED BY <3>2, <3>3
  <2>18. ASSUME NEW p \in Proc, MoveAside(p) PROVE TypeOK'
    <3>1. conf' \in [Name -> File] /\ old' \in [Name -> File]
      <4>1. CASE UNCHANGED <<conf, old>>
        BY <4>1
      <4>2. CASE /\ old' = [old EXCEPT ![target[p]] = conf[target[p]]]
                 /\ conf' = [conf EXCEPT ![target[p]] = Missing]
        BY <2>3, <4>2
      <4> QED BY <2>18, <4>1, <4>2 DEF MoveAside
    <3> QED BY <2>18, <3>1 DEF MoveAside, memory, signal, history
  <2>19. ASSUME NEW p \in Proc, Install(p) PROVE TypeOK'
    <3>1. conf' \in [Name -> File]
      <4>1. tmp[p] \in File /\ stream[p] \in File
        OBVIOUS
      <4>2. \A k \in 0..Len(stream[p].lines) : Flushed(tmp[p], stream[p], k) \in File
        BY <4>1, FlushedType
      <4>3. PICK g \in File : conf' = [conf EXCEPT ![target[p]] = g]
        BY <2>19, <4>1, <4>2 DEF Install
      <4> QED BY <4>3
    <3>2. Succeed(p, tmp[p]) /\ tmp[p] \in File /\ old' = old
      BY <2>19 DEF Install
    <3> QED BY <2>8, <3>1, <3>2
  <2>20. ASSUME NEW p \in Proc, InstallFails(p) PROVE TypeOK'
    <3>1. CASE Gone(p)
      BY <2>7, <2>20, <3>1 DEF InstallFails
    <3>2. CASE ~Gone(p)
      <4>1. /\ pc' = [pc EXCEPT ![p] = "ready"]
            /\ UNCHANGED <<tmp, memory, changed, target, walk, signal, synced>>
            /\ UNCHANGED <<conf, old, saved, torn>>
        BY <2>20, <3>2 DEF InstallFails
      <4>2. UNCHANGED <<conf, old, tmp, user, valid, toWrite, changed, target, walk,
                        signals, handler, stream, saved, torn, synced>>
        BY <4>1 DEF memory, signal
      <4>3. pc' \in [Proc -> {"down", "ready", "print", "aside", "install"}]
        BY <4>1
      <4> QED BY <4>2, <4>3
    <3> QED BY <3>1, <3>2
  <2>21. ASSUME NEW p \in Proc, End(p) PROVE TypeOK'
    BY <2>7, <2>21 DEF End
  <2> QED BY <2>10, <2>11, <2>12, <2>13, <2>14, <2>15, <2>16, <2>17, <2>18,
             <2>19, <2>20, <2>21, <2>22 DEF Next, Step
<1> QED BY <1>1, <1>2, PTL DEF Spec

-----------------------------------------------------------------------------
(* The inductive invariant behind the properties of what is saved.         *)
(* FlagsExact says that the SYMBOL_WRITE flags of the valid symbols are    *)
(* what sym_calc_value left, but for the symbols the walk has passed.  Of  *)
(* a handler that saves in the middle of a save nothing is claimed.        *)
Passed(p) == {MenuOrder[i] : i \in 1..walk[p]}

FlagsExact(p, done) ==
    \A s \in valid[p] : s \in toWrite[p] <=> s \in Written[user[p]] \ done

Printed(p, S) ==
    /\ tmp[p].exists
    /\ OneLineEach(tmp[p])
    /\ Lines(tmp[p]) = {LineOf(user[p], s) : s \in S}

ProcInv(p) ==
    /\ pc[p] \in {"down", "ready"} => handler[p] = "none"
    /\ handler[p] # "save" => ~stream[p].exists
    /\ pc[p] = "down" => valid[p] = {}
    /\ pc[p] = "ready" /\ changed[p] => FlagsExact(p, {})
    /\ pc[p] = "ready" /\ ~changed[p] /\ "missing" \notin Faults
         => synced[p] = Image(user[p])
    /\ pc[p] = "print" /\ handler[p] # "save"
         => /\ FlagsExact(p, Passed(p))
            /\ Passed(p) \subseteq valid[p]
            /\ Printed(p, Written[user[p]] \cap Passed(p))
    /\ pc[p] \in {"aside", "install"} /\ handler[p] # "save"
         => Printed(p, Written[user[p]])

SaveInv == FilesAreWhole /\ \A p \in Proc : ProcInv(p)

(* What may go wrong without a file being torn.                            *)
NoLoss == ~Overwrite /\ Faults \subseteq {"missing", "aside"}

LEMMA InitSaveInv == Init => SaveInv
BY DEF Init, SaveInv, FilesAreWhole, ProcInv, Missing

(* A step of one process leaves the state of another one alone.            *)
LEMMA OthersUnchanged ==
    ASSUME TypeOK, NEW p \in Proc, NEW q \in Proc, p # q, Step(p), ProcInv(q)
    PROVE  ProcInv(q)'
<1> DEFINE Same == /\ pc'[q] = pc[q] /\ user'[q] = user[q] /\ valid'[q] = valid[q]
                   /\ toWrite'[q] = toWrite[q] /\ changed'[q] = changed[q]
                   /\ walk'[q] = walk[q] /\ synced'[q] = synced[q]
                   /\ tmp'[q] = tmp[q] /\ handler'[q] = handler[q]
                   /\ stream'[q] = stream[q]
<1>1. Same
  <2> USE DEF TypeOK, memory, signal, history
  <2>1. ASSUME NEW f, Read(p, f)
        PROVE  /\ user'[q] = user[q] /\ valid'[q] = valid[q]
               /\ toWrite'[q] = toWrite[q] /\ synced'[q] = synced[q]
    BY <2>1 DEF Read
  <2>2. CASE Start(p)
    BY <2>1, <2>2 DEF Start
  <2>3. CASE \E n \in Name : Load(p, n)
    BY <2>1, <2>3 DEF Load
  <2>4. ASSUME Gone(p) PROVE Same
    BY <2>4 DEF Gone
  <2>5. ASSUME NEW f, Succeed(p, f) PROVE Same
    <3>1. CASE handler[p] = "none"
      BY <2>5, <3>1 DEF Succeed
    <3>2. CASE handler[p] # "none"
      <4> HIDE DEF Same
      <4> QED BY <2>4, <2>5, <3>2 DEF Succeed
    <3> QED BY <3>1, <3>2
  <2>6. CASE CloseFile(p)
    <3>1. CASE Overwrite
      <4>1. Succeed(p, conf[target[p]])
        BY <2>6, <3>1 DEF CloseFile
      <4> HIDE DEF Same
      <4> QED BY <2>5, <4>1
    <3>2. CASE ~Overwrite
      BY <2>6, <3>2 DEF CloseFile
    <3> QED BY <3>1, <3>2
  <2>7. CASE PrintEntry(p)
    <3>1. tmp'[q] = tmp[q]
      BY <2>7 DEF PrintEntry, PrintLine
    <3> QED BY <2>7, <3>1 DEF PrintEntry
  <2>8. CASE Display(p) \/ \E s \in Sym, v \in Val : Edit(p, s, v)
    BY <2>8 DEF Display, Edit
  <2>9. ASSUME NEW n \in Name, OpenFile(p, n)
        PROVE  /\ pc'[q] = pc[q] /\ walk'[q] = walk[q] /\ tmp'[q] = tmp[q]
               /\ changed'[q] = changed[q] /\ user' = user /\ toWrite' = toWrite
               /\ synced' = synced
    BY <2>9 DEF OpenFile
  <2>10. CASE \E n \in Name : BeginWrite(p, n)
    BY <2>9, <2>10 DEF BeginWrite
  <2>11. CASE \E n \in Name : Interrupt(p, n)
    BY <2>9, <2>11 DEF Interrupt
  <2>12. CASE MoveAside(p)
    BY <2>12 DEF MoveAside
  <2>13. CASE Install(p)
    <3>1. Succeed(p, tmp[p])
      BY <2>13 DEF Install
    <3> HIDE DEF Same
    <3> QED BY <2>5, <3>1
  <2>14. CASE InstallFails(p)
    <3>1. CASE Gone(p)
      <4> HIDE DEF Same
      <4> QED BY <2>4, <3>1
    <3>2. CASE ~Gone(p)
      BY <2>14, <3>2 DEF InstallFails
    <3> QED BY <3>1, <3>2
  <2>15. CASE End(p)
    <3> HIDE DEF Same
    <3> QED BY <2>4, <2>15 DEF End
  <2> QED BY <2>2, <2>3, <2>6, <2>7, <2>8, <2>10, <2>11, <2>12, <2>13, <2>14,
             <2>15, Step(p) DEF Step
<1> QED BY <1>1 DEF ProcInv, FlagsExact, Passed, Printed

(* What loading a file leaves in memory.                                   *)
LEMMA ReadExact ==
    ASSUME TypeOK, NEW p \in Proc, NEW f \in File, Read(p, f)
    PROVE  /\ FlagsExact(p, {})'
           /\ ~Disagrees(f) => synced'[p] = Image(user'[p])
<1> USE DEF TypeOK
<1>1. user'[p] = Parsed(f) /\ synced'[p] = Lines(f)
  BY DEF Read
<1>2. valid'[p] = Sym /\ toWrite'[p] = Written[user'[p]]
  BY DEF Read
<1>3. ~Disagrees(f) => Lines(f) = Image(Parsed(f))
  BY ParsedImage DEF Disagrees
<1> QED BY <1>1, <1>2, <1>3 DEF FlagsExact

(* sym_calc_value keeps the flags of the valid symbols exact.              *)
LEMMA CalcExact ==
    ASSUME TypeOK, NEW p \in Proc, NEW S \in SUBSET Sym, NEW done,
           FlagsExact(p, done), done \subseteq valid[p]
    PROVE  \A s \in ValidAfter(p, S) :
               s \in ToWriteAfter(p, S) <=> s \in Written[user[p]] \ done
BY DEF FlagsExact, ValidAfter, ToWriteAfter, Fresh

(* The walk keeps the flags exact and prints what is to be written.        *)
LEMMA PrintEntryInv ==
    ASSUME NoLoss, TypeOK, NEW p \in Proc, ProcInv(p), PrintEntry(p), handler[p] # "save"
    PROVE  ProcInv(p)'
<1> DEFINE s == MenuOrder[walk[p] + 1]
           calc == {s} \cup Needs[s]
           flagged == ToWriteAfter(p, calc)
           W == Written[user[p]]
<1> USE DEF TypeOK
<1>1. /\ pc[p] = "print" /\ pc'[p] = "print"
      /\ user'[p] = user[p] /\ handler'[p] = handler[p] /\ stream'[p] = stream[p]
      /\ walk'[p] = walk[p] + 1
      /\ walk[p] + 1 \in 1..Len(MenuOrder)
      /\ valid'[p] = ValidAfter(p, calc)
      /\ toWrite'[p] = flagged \ {s}
  BY DEF PrintEntry, signal
<1>2. s \in Sym /\ calc \in SUBSET Sym /\ W \in SUBSET Sym
  <2>1. s \in Sym
    BY <1>1, ConstantsAssumption
  <2>2. Needs[s] \in SUBSET Sym
    BY <2>1, ConstantsAssumption
  <2>3. user[p] \in Config
    OBVIOUS
  <2>4. W \in SUBSET Sym
    <3> HIDE DEF Config
    <3> QED BY <2>3, WrittenAssumption
  <2> QED BY <2>1, <2>2, <2>4
<1>3. Passed(p)' = Passed(p) \cup {s}
  <2>1. walk[p] \in Nat /\ 1..(walk[p] + 1) = 1..walk[p] \cup {walk[p] + 1}
    BY ConstantsAssumption
  <2> QED BY <1>1, <2>1 DEF Passed
<1>4. /\ FlagsExact(p, Passed(p))
      /\ Passed(p) \subseteq valid[p]
      /\ Printed(p, W \cap Passed(p))
  BY <1>1 DEF ProcInv
<1>5. \A x \in ValidAfter(p, calc) : x \in flagged <=> x \in W \ Passed(p)
  <2> HIDE DEF calc, TypeOK
  <2> QED BY <1>2, <1>4, CalcExact
<1>6. s \in ValidAfter(p, calc)
  BY DEF ValidAfter
<1>7. FlagsExact(p, Passed(p))'
  <2> HIDE DEF calc, flagged
  <2> QED BY <1>1, <1>3, <1>5 DEF FlagsExact
<1>8. Passed(p)' \subseteq valid'[p]
  BY <1>1, <1>3, <1>4 DEF ValidAfter
<1>9. Printed(p, W \cap Passed(p))'
  <2>1. CASE s \in flagged
    <3> DEFINE l == LineOf(user[p], s)
    <3>1. tmp' = [tmp EXCEPT ![p] = AddLine(@, l)]
      BY <2>1 DEF PrintEntry, PrintLine, NoLoss
    <3>2. tmp[p] \in File /\ l \in Line
      BY <1>2 DEF LineOf, Line
    <3>3. l.sym = s
      BY DEF LineOf
    <3>4. s \notin SymsIn(tmp[p])
      BY <1>4, <1>5, <1>6, <2>1 DEF Printed, SymsIn, LineOf
    <3>5. /\ AddLine(tmp[p], l).exists
          /\ OneLineEach(AddLine(tmp[p], l))
          /\ Lines(AddLine(tmp[p], l)) = Lines(tmp[p]) \cup {l}
      <4> HIDE DEF l
      <4> QED BY <1>4, <3>2, <3>3, <3>4, AddLineProperties DEF Printed
    <3>6. W \cap (Passed(p) \cup {s}) = (W \cap Passed(p)) \cup {s}
      BY <1>5, <1>6, <2>1
    <3>7. tmp'[p] = AddLine(tmp[p], l)
      BY <3>1
    <3>8. Lines(tmp[p]) = {LineOf(user[p], x) : x \in W \cap Passed(p)}
      BY <1>4 DEF Printed
    <3>9. Lines(tmp'[p]) = {LineOf(user'[p], x) : x \in W \cap (Passed(p) \cup {s})}
      <4>1. Lines(tmp'[p]) = {LineOf(user[p], x) : x \in W \cap Passed(p)} \cup {LineOf(user[p], s)}
        BY <3>5, <3>7, <3>8
      <4> HIDE DEF W, s, TypeOK
      <4> QED BY <1>1, <3>6, <4>1
    <3> QED BY <1>1, <1>3, <3>5, <3>7, <3>9 DEF Printed
  <2>2. CASE s \notin flagged
    <3>1. tmp' = tmp
      BY <2>2 DEF PrintEntry
    <3>2. W \cap (Passed(p) \cup {s}) = W \cap Passed(p)
      BY <1>5, <1>6, <2>2
    <3> QED BY <1>1, <1>3, <1>4, <3>1, <3>2 DEF Printed
  <2> QED BY <2>1, <2>2
<1> QED BY <1>1, <1>7, <1>8, <1>9, ProcInv(p) DEF ProcInv

(* The end of a process keeps the invariant of the process.                *)
LEMMA GoneInv ==
    ASSUME TypeOK, NEW p \in Proc, Gone(p)
    PROVE  ProcInv(p)'
<1>1. /\ pc'[p] = "down" /\ handler'[p] = "none" /\ stream'[p] = Missing
      /\ valid'[p] = {}
  BY DEF Gone, TypeOK
<1> QED BY <1>1 DEF ProcInv, Missing

(* Every step keeps the invariant of its process.                          *)
LEMMA OwnStepInv ==
    ASSUME NoLoss, TypeOK, SaveInv, NEW p \in Proc, Step(p)
    PROVE  ProcInv(p)'
<1> USE DEF TypeOK, memory, signal, history
<1>1. ProcInv(p)
  BY DEF SaveInv
<1>2. CASE Start(p)
  <2>1. pc'[p] = "ready" /\ handler' = handler /\ stream' = stream /\ handler[p] = "none"
    BY <1>1, <1>2 DEF Start, ProcInv
  <2>2. ASSUME NEW f \in File, Read(p, f), changed'[p] = (conf[Dflt].exists => Disagrees(f))
        PROVE  ProcInv(p)'
    <3>1. FlagsExact(p, {})' /\ (~Disagrees(f) => synced'[p] = Image(user'[p]))
      <4> HIDE DEF TypeOK
      <4> QED BY <2>2, ReadExact
    <3> QED BY <1>1, <2>1, <2>2, <3>1 DEF ProcInv
  <2>3. CASE conf[Dflt].exists
    <3>1. conf[Dflt] \in File
      BY ConstantsAssumption
    <3>2. Read(p, conf[Dflt]) /\ changed'[p] = (conf[Dflt].exists => Disagrees(conf[Dflt]))
      BY <1>2, <2>3 DEF Start
    <3> QED BY <2>2, <3>1, <3>2
  <2>4. CASE ~conf[Dflt].exists /\ Defconfig.exists
    <3>1. Defconfig \in File
      BY ConstantsAssumption
    <3>2. Read(p, Defconfig) /\ changed'[p] = (conf[Dflt].exists => Disagrees(Defconfig))
      BY <1>2, <2>4 DEF Start
    <3> QED BY <2>2, <3>1, <3>2
  <2>5. CASE ~conf[Dflt].exists /\ ~Defconfig.exists
    <3>1. changed'[p] = TRUE /\ UNCHANGED <<user, valid, toWrite>>
      BY <1>2, <2>5 DEF Start
    <3>2. FlagsExact(p, {})
      BY <1>1, <1>2 DEF Start, ProcInv, FlagsExact
    <3> QED BY <1>1, <2>1, <3>1, <3>2 DEF ProcInv, FlagsExact
  <2> QED BY <2>3, <2>4, <2>5
<1>3. CASE Display(p)
  <2>1. /\ pc[p] = "ready" /\ pc'[p] = "ready" /\ handler' = handler /\ stream' = stream
        /\ changed' = changed /\ user' = user /\ synced' = synced
        /\ valid'[p] = ValidAfter(p, Sym) /\ toWrite'[p] = ToWriteAfter(p, Sym)
    BY <1>3 DEF Display
  <2>2. changed[p] => FlagsExact(p, {})'
    <3>1. SUFFICES ASSUME changed[p] PROVE FlagsExact(p, {})'
      OBVIOUS
    <3>2. FlagsExact(p, {})
      BY <1>1, <2>1, <3>1 DEF ProcInv
    <3>3. \A s \in ValidAfter(p, Sym) :
              s \in ToWriteAfter(p, Sym) <=> s \in Written[user[p]] \ {}
      <4> HIDE DEF TypeOK
      <4> QED BY <3>2, CalcExact
    <3> QED BY <2>1, <3>3 DEF FlagsExact
  <2> QED BY <1>1, <2>1, <2>2 DEF ProcInv, Image, LineOf
<1>4. ASSUME NEW s \in Sym, NEW v \in Val, Edit(p, s, v) PROVE ProcInv(p)'
  <2>1. pc[p] = "ready" /\ pc'[p] = "ready" /\ changed'[p] = TRUE /\ valid'[p] = {}
        /\ handler' = handler /\ stream' = stream
    BY <1>4 DEF Edit
  <2> QED BY <1>1, <2>1 DEF ProcInv, FlagsExact
<1>5. ASSUME NEW n \in Name, Load(p, n) PROVE ProcInv(p)'
  <2>1. pc[p] = "ready" /\ pc'[p] = "ready" /\ handler' = handler /\ stream' = stream
    BY <1>5 DEF Load
  <2>2. CASE conf[n].exists
    <3>1. Read(p, conf[n]) /\ changed'[p] = TRUE /\ conf[n] \in File
      BY <1>5, <2>2 DEF Load
    <3>2. FlagsExact(p, {})'
      BY <3>1, ReadExact
    <3> QED BY <1>1, <2>1, <3>1, <3>2 DEF ProcInv
  <2>3. CASE ~conf[n].exists
    <3>1. changed'[p] = FALSE /\ "missing" \in Faults
      BY <1>5, <2>3 DEF Load
    <3> QED BY <1>1, <2>1, <3>1 DEF ProcInv
  <2> QED BY <2>2, <2>3
<1>6. ASSUME NEW n \in Name, OpenFile(p, n), handler'[p] # "save", ~stream'[p].exists,
             \A s \in valid'[p] : s \in toWrite[p] <=> s \in Written[user[p]] \ {}
      PROVE  ProcInv(p)'
  <2>1. /\ pc'[p] = "print" /\ walk'[p] = 0 /\ tmp'[p] = Empty
        /\ user' = user /\ toWrite' = toWrite
    BY <1>6 DEF OpenFile, NoLoss
  <2>2. Passed(p)' = {}
    BY <2>1 DEF Passed
  <2>3. FlagsExact(p, {})'
    BY <1>6, <2>1 DEF FlagsExact
  <2>4. Printed(p, {})'
    BY <2>1 DEF Printed, Empty, OneLineEach, Lines
  <2> QED BY <1>6, <2>1, <2>2, <2>3, <2>4 DEF ProcInv, Printed, FlagsExact
<1>7. ASSUME NEW n \in Name, BeginWrite(p, n) PROVE ProcInv(p)'
  <2>1. /\ OpenFile(p, n) /\ pc[p] = "ready" /\ handler' = handler /\ stream' = stream
        /\ valid'[p] = IF changed[p] THEN valid[p] ELSE {}
    BY <1>7 DEF BeginWrite
  <2>2. handler[p] = "none" /\ ~stream[p].exists /\ (changed[p] => FlagsExact(p, {}))
    BY <1>1, <2>1 DEF ProcInv
  <2>3. handler'[p] # "save" /\ ~stream'[p].exists
    BY <2>1, <2>2
  <2>4. \A s \in valid'[p] : s \in toWrite[p] <=> s \in Written[user[p]] \ {}
    BY <2>1, <2>2 DEF FlagsExact
  <2> QED BY <1>6, <2>1, <2>3, <2>4
<1>8. ASSUME NEW n \in Name, Interrupt(p, n) PROVE ProcInv(p)'
  <2>1. /\ OpenFile(p, n) /\ valid' = valid /\ changed[p] /\ pc[p] # "down"
        /\ handler'[p] = IF pc[p] = "ready" THEN "idle" ELSE "save"
        /\ stream'[p] = IF pc[p] = "print" THEN tmp[p] ELSE Missing
    BY <1>8 DEF Interrupt
  <2>2. CASE pc[p] = "ready"
    <3>1. handler'[p] = "idle" /\ ~stream'[p].exists /\ FlagsExact(p, {})
      BY <1>1, <2>1, <2>2 DEF ProcInv, Missing
    <3>2. \A s \in valid'[p] : s \in toWrite[p] <=> s \in Written[user[p]] \ {}
      BY <2>1, <3>1 DEF FlagsExact
    <3> QED BY <1>6, <2>1, <3>1, <3>2
  <2>3. CASE pc[p] # "ready"
    <3>1. handler'[p] = "save" /\ pc'[p] = "print"
      BY <2>1, <2>3 DEF OpenFile
    <3> QED BY <3>1 DEF ProcInv
  <2> QED BY <2>2, <2>3
<1>9. CASE PrintEntry(p)
  <2>1. CASE handler[p] # "save"
    <3> HIDE DEF TypeOK
    <3> QED BY <1>1, <1>9, <2>1, PrintEntryInv
  <2>2. CASE handler[p] = "save"
    BY <1>1, <1>9, <2>2 DEF PrintEntry, ProcInv
  <2> QED BY <2>1, <2>2
<1>10. CASE CloseFile(p)
  <2>1. /\ pc[p] = "print" /\ pc'[p] = "aside" /\ walk[p] = Len(MenuOrder)
        /\ tmp' = tmp /\ user' = user /\ handler' = handler /\ stream' = stream
    BY <1>10 DEF CloseFile, NoLoss
  <2>2. Passed(p) = Sym
    BY <2>1, ConstantsAssumption DEF Passed
  <2>3. Written[user[p]] \subseteq Sym
    <3> HIDE DEF Config
    <3> QED BY WrittenAssumption
  <2>4. handler[p] # "save" => Printed(p, Written[user[p]])
    BY <1>1, <2>1, <2>2, <2>3 DEF ProcInv, Printed
  <2> QED BY <1>1, <2>1, <2>4 DEF ProcInv, Printed
<1>11. CASE MoveAside(p)
  <2>1. /\ pc[p] = "aside" /\ pc'[p] = "install" /\ handler' = handler /\ stream' = stream
        /\ tmp' = tmp /\ user' = user
    BY <1>11 DEF MoveAside
  <2> QED BY <1>1, <2>1 DEF ProcInv, Printed
<1>12. CASE Install(p)
  <2>1. pc[p] = "install" /\ Succeed(p, tmp[p])
    BY <1>12 DEF Install
  <2>2. CASE handler[p] = "none"
    <3>1. /\ pc'[p] = "ready" /\ changed'[p] = FALSE /\ handler' = handler /\ stream' = stream
          /\ synced'[p] = Lines(tmp[p]) /\ user' = user
      BY <2>1, <2>2 DEF Succeed
    <3>2. Lines(tmp[p]) = Image(user[p])
      BY <1>1, <2>1, <2>2 DEF ProcInv, Printed, Image
    <3> QED BY <1>1, <2>2, <3>1, <3>2 DEF ProcInv
  <2>3. CASE handler[p] # "none"
    <3> HIDE DEF TypeOK
    <3> QED BY <2>1, <2>3, GoneInv DEF Succeed
  <2> QED BY <2>2, <2>3
<1>13. ~InstallFails(p)
  BY DEF InstallFails, NoLoss
<1>14. CASE End(p)
  <2> HIDE DEF TypeOK
  <2> QED BY <1>14, GoneInv DEF End
<1> QED BY <1>2, <1>3, <1>4, <1>5, <1>7, <1>8, <1>9, <1>10, <1>11, <1>12,
           <1>13, <1>14, Step(p) DEF Step

(* What a process installs, unless its handler interrupted a save, is the  *)
(* whole configuration it holds.                                           *)
LEMMA InstallWhole ==
    ASSUME TypeOK, SaveInv, NEW p \in Proc, Install(p), handler[p] # "save"
    PROVE  /\ conf' = [conf EXCEPT ![target[p]] = tmp[p]]
           /\ Holds(tmp[p], user[p])
           /\ Whole(tmp[p])
<1>1. ProcInv(p) /\ pc[p] = "install"
  BY DEF SaveInv, Install
<1>2. Printed(p, Written[user[p]]) /\ ~stream[p].exists
  BY <1>1 DEF ProcInv
<1>3. user[p] \in Config
  BY DEF TypeOK
<1> HIDE DEF Config
<1> QED BY <1>2, <1>3 DEF Install, Printed, Holds, Whole, Image

(* A step leaves the configuration files alone, moves one aside or         *)
(* installs one.                                                           *)
LEMMA OnlyThese ==
    ASSUME ~Overwrite, NEW p \in Proc, Step(p)
    PROVE  \/ UNCHANGED <<conf, old, saved, torn>>
           \/ MoveAside(p)
           \/ Install(p)
<1> USE DEF history
<1>1. CASE Start(p) \/ Display(p) \/ \E s \in Sym, v \in Val : Edit(p, s, v)
  BY <1>1 DEF Start, Display, Edit
<1>2. CASE \E n \in Name : Load(p, n)
  BY <1>2 DEF Load
<1>3. CASE \E n \in Name : BeginWrite(p, n) \/ Interrupt(p, n)
  BY <1>3 DEF BeginWrite, Interrupt, OpenFile
<1>4. CASE PrintEntry(p) \/ CloseFile(p)
  BY <1>4 DEF PrintEntry, PrintLine, CloseFile
<1>5. CASE InstallFails(p) \/ End(p)
  BY <1>5 DEF InstallFails, End
<1> QED BY <1>1, <1>2, <1>3, <1>4, <1>5, Step(p) DEF Step

(* What Install does to the names saved.                                   *)
LEMMA InstallSaves ==
    ASSUME TypeOK, NEW p \in Proc, Install(p)
    PROVE  /\ \E f \in File : conf' = [conf EXCEPT ![target[p]] = f] /\ (tmp[p].exists => f.exists)
           /\ old' = old
           /\ saved' = [saved EXCEPT ![target[p]] = {user[p]}]
           /\ torn' = IF handler[p] = "save" THEN torn \cup {target[p]} ELSE torn \ {target[p]}
<1>1. tmp[p] \in File /\ stream[p] \in File
  BY DEF TypeOK
<1>2. \A k \in 0..Len(stream[p].lines) :
          /\ Flushed(tmp[p], stream[p], k) \in File
          /\ Flushed(tmp[p], stream[p], k).exists = tmp[p].exists
  <2>1. ASSUME NEW k \in 0..Len(stream[p].lines)
        PROVE  Flushed(tmp[p], stream[p], k).exists = tmp[p].exists
    BY <1>1 DEF Flushed, File
  <2> QED BY <1>1, <2>1, FlushedType
<1> QED BY <1>1, <1>2 DEF Install, Succeed

(* A step only ever puts a whole file under a name, or a torn one that is  *)
(* marked.                                                                 *)
LEMMA StepInstallsWhole ==
    ASSUME NoLoss, TypeOK, SaveInv, NEW p \in Proc, Step(p)
    PROVE  FilesAreWhole'
<1>1. FilesAreWhole /\ ~Overwrite
  BY DEF SaveInv, NoLoss
<1>2. CASE UNCHANGED <<conf, old, saved, torn>>
  BY <1>1, <1>2 DEF FilesAreWhole
<1>3. CASE MoveAside(p)
  <2>1. conf' = conf \/ conf' = [conf EXCEPT ![target[p]] = Missing]
    BY <1>3 DEF MoveAside
  <2>2. ~Missing.exists /\ torn' = torn
    BY <1>3 DEF Missing, MoveAside, history
  <2> QED BY <1>1, <2>1, <2>2 DEF FilesAreWhole, TypeOK
<1>4. CASE Install(p)
  <2>1. torn' = IF handler[p] = "save" THEN torn \cup {target[p]} ELSE torn \ {target[p]}
    BY <1>4, InstallSaves
  <2>2. PICK f \in File : conf' = [conf EXCEPT ![target[p]] = f]
    BY <1>4, InstallSaves
  <2>3. \A n \in Name \ {target[p]} : conf'[n] = conf[n]
    BY <2>2 DEF TypeOK
  <2>4. handler[p] # "save" => Whole(conf'[target[p]])
    BY <1>4, InstallWhole DEF TypeOK
  <2> QED BY <1>1, <2>1, <2>3, <2>4 DEF FilesAreWhole
<1> QED BY <1>1, <1>2, <1>3, <1>4, OnlyThese

(* SaveInv is inductive.                                                   *)
LEMMA SaveInvInductive ==
    ASSUME NoLoss, TypeOK, SaveInv, [Next]_vars
    PROVE  SaveInv'
<1>1. CASE UNCHANGED vars
  BY <1>1 DEF vars, memory, signal, history, SaveInv, FilesAreWhole, ProcInv,
              FlagsExact, Passed, Printed
<1>2. ASSUME NEW p \in Proc, Step(p) PROVE SaveInv'
  BY <1>2, OwnStepInv, OthersUnchanged, StepInstallsWhole DEF SaveInv
<1> QED BY <1>1, <1>2 DEF Next

-----------------------------------------------------------------------------
(* With a disk that takes what is written and a second rename that works,  *)
(* every file under a name is a whole configuration, whoever is killed or  *)
(* interrupted and however many processes save at once, but for those that *)
(* a handler saved in the middle of a save.                                *)
THEOREM WholeSafe ==
    ASSUME NoLoss
    PROVE  Spec => []FilesAreWhole
<1>1. TypeOK /\ SaveInv /\ [Next]_vars => SaveInv'
  BY SaveInvInductive
<1>2. SaveInv => FilesAreWhole
  BY DEF SaveInv
<1> QED BY InitSaveInv, <1>1, <1>2, TypeCorrect, PTL DEF Spec

(* Under the same assumptions, and when nobody asks for a file that is not *)
(* there, an interface that sees no change holds what it last loaded or    *)
(* saved.                                                                  *)
THEOREM SyncedSafe ==
    ASSUME NoLoss, "missing" \notin Faults
    PROVE  Spec => []UnchangedMeansSynced
<1>1. TypeOK /\ SaveInv /\ [Next]_vars => SaveInv'
  BY SaveInvInductive
<1>2. SaveInv => UnchangedMeansSynced
  BY DEF SaveInv, ProcInv, UnchangedMeansSynced
<1> QED BY InitSaveInv, <1>1, <1>2, TypeCorrect, PTL DEF Spec

-----------------------------------------------------------------------------
(* The invariant behind LastSaveKept: a file in force holds the            *)
(* configuration last reported as saved, and where there is none the .old  *)
(* does.                                                                   *)
Kept ==
    \A n \in Name \ torn : \A u \in saved[n] :
        /\ conf[n].exists => Holds(conf[n], u)
        /\ ~conf[n].exists => Holds(old[n], u)

(* Kept is inductive with the invariant of the processes.                  *)
LEMMA KeptInductive ==
    ASSUME NoLoss, TypeOK, SaveInv, Kept, [Next]_vars
    PROVE  Kept'
<1>1. ASSUME UNCHANGED <<conf, old, saved, torn>> PROVE Kept'
  BY <1>1 DEF Kept
<1>2. ASSUME NEW p \in Proc, MoveAside(p) PROVE Kept'
  <2>1. UNCHANGED <<saved, torn>> /\ target[p] \in Name
    BY <1>2 DEF MoveAside, history, TypeOK
  <2>2. CASE UNCHANGED <<conf, old>>
    BY <1>1, <2>1, <2>2
  <2>3. CASE /\ conf[target[p]].exists
             /\ old' = [old EXCEPT ![target[p]] = conf[target[p]]]
             /\ conf' = [conf EXCEPT ![target[p]] = Missing]
    <3>1. conf'[target[p]] = Missing /\ ~Missing.exists /\ old'[target[p]] = conf[target[p]]
      BY <2>1, <2>3 DEF TypeOK, Missing
    <3>2. \A n \in Name \ {target[p]} : conf'[n] = conf[n] /\ old'[n] = old[n]
      BY <2>3 DEF TypeOK
    <3> QED BY <2>1, <2>3, <3>1, <3>2 DEF Kept
  <2> QED BY <1>2, <2>2, <2>3 DEF MoveAside
<1>3. ASSUME NEW p \in Proc, Install(p) PROVE Kept'
  <2>1. /\ old' = old
        /\ saved' = [saved EXCEPT ![target[p]] = {user[p]}]
        /\ torn' = IF handler[p] = "save" THEN torn \cup {target[p]} ELSE torn \ {target[p]}
    BY <1>3, InstallSaves
  <2>2. PICK f \in File : conf' = [conf EXCEPT ![target[p]] = f]
    BY <1>3, InstallSaves
  <2>3. \A n \in Name \ {target[p]} : conf'[n] = conf[n] /\ saved'[n] = saved[n]
    BY <2>1, <2>2 DEF TypeOK
  <2>4. target[p] \in Name /\ saved'[target[p]] = {user[p]}
    BY <2>1 DEF TypeOK
  <2>5. handler[p] # "save" => Holds(conf'[target[p]], user[p])
    BY <1>3, InstallWhole DEF TypeOK
  <2>6. Holds(conf'[target[p]], user[p]) => conf'[target[p]].exists
    BY DEF Holds
  <2> QED BY <2>1, <2>3, <2>4, <2>5, <2>6 DEF Kept
<1>4. ~Overwrite
  BY DEF NoLoss
<1> QED BY <1>1, <1>2, <1>3, <1>4, OnlyThese DEF Next, vars, history

(* With a disk that takes what is written and a second rename that works,  *)
(* the configuration last reported as saved is under its name or in .old,  *)
(* whoever is killed or interrupted and however many processes save at     *)
(* once, but for a name that a handler saved in the middle of a save.      *)
THEOREM LastSaveSafe ==
    ASSUME NoLoss
    PROVE  Spec => []LastSaveKept
<1>1. Init => Kept
  BY DEF Init, Kept
<1>2. TypeOK /\ SaveInv /\ [Next]_vars => SaveInv'
  BY SaveInvInductive
<1>3. TypeOK /\ SaveInv /\ Kept /\ [Next]_vars => Kept'
  BY KeptInductive
<1>4. Kept => LastSaveKept
  BY DEF Kept, LastSaveKept
<1> QED BY InitSaveInv, <1>1, <1>2, <1>3, <1>4, TypeCorrect, PTL DEF Spec

-----------------------------------------------------------------------------
(* Moving a file aside does not change what is in force.                   *)
LEMMA AsideInForce ==
    ASSUME TypeOK, NEW p \in Proc, MoveAside(p)
    PROVE  InForce' = InForce
<1> USE DEF TypeOK
<1>1. CASE conf' = conf /\ old' = old
  BY <1>1 DEF InForce
<1>2. CASE /\ conf[target[p]].exists
           /\ old' = [old EXCEPT ![target[p]] = conf[target[p]]]
           /\ conf' = [conf EXCEPT ![target[p]] = Missing]
  <2>1. conf'[target[p]] = Missing /\ ~Missing.exists
    BY <1>2 DEF Missing
  <2>2. old'[target[p]] = conf[target[p]]
    BY <1>2
  <2>3. \A n \in Name \ {target[p]} : conf'[n] = conf[n] /\ old'[n] = old[n]
    BY <1>2
  <2> QED BY <1>2, <2>1, <2>2, <2>3 DEF InForce
<1> QED BY <1>1, <1>2 DEF MoveAside

(* A save has a file to install.                                           *)
Opened == \A p \in Proc : pc[p] \in {"print", "aside", "install"} => tmp[p].exists

(* Opened is inductive.                                                    *)
LEMMA OpenedInductive ==
    ASSUME ~Overwrite, TypeOK, Opened, [Next]_vars
    PROVE  Opened'
<1> USE DEF TypeOK
<1>1. CASE UNCHANGED vars
  BY <1>1 DEF vars, Opened
<1>2. ASSUME NEW p \in Proc, Gone(p) PROVE Opened'
  BY <1>2 DEF Gone, Opened
<1>3. ASSUME NEW p \in Proc, NEW n \in Name, OpenFile(p, n) PROVE Opened'
  BY <1>3 DEF OpenFile, Opened, Empty
<1>4. ASSUME NEW p \in Proc, NEW f, Succeed(p, f) PROVE Opened'
  <2>1. CASE handler[p] = "none"
    BY <1>4, <2>1 DEF Succeed, Opened
  <2>2. CASE handler[p] # "none"
    BY <1>2, <1>4, <2>2 DEF Succeed
  <2> QED BY <2>1, <2>2
<1>5. ASSUME NEW p \in Proc, PrintEntry(p) PROVE Opened'
  <2>1. pc' = pc
    BY <1>5 DEF PrintEntry
  <2>2. tmp' = tmp \/ \E l : tmp' = [tmp EXCEPT ![p] = AddLine(tmp[p], l)]
    BY <1>5 DEF PrintEntry, PrintLine
  <2>3. \A f \in File : \A l : AddLine(f, l).exists = f.exists
    BY DEF AddLine, File
  <2>4. \A q \in Proc : tmp'[q].exists = tmp[q].exists
    <3>1. CASE tmp' = tmp
      BY <3>1
    <3>2. ASSUME NEW l, tmp' = [tmp EXCEPT ![p] = AddLine(tmp[p], l)]
          PROVE  \A q \in Proc : tmp'[q].exists = tmp[q].exists
      <4>1. tmp \in [Proc -> File]
        BY DEF TypeOK
      <4>2. AddLine(tmp[p], l).exists = tmp[p].exists
        BY <2>3, <4>1
      <4> QED BY <3>2, <4>1, <4>2
    <3> QED BY <2>2, <3>1, <3>2
  <2> QED BY <2>1, <2>4 DEF Opened
<1>6. ASSUME NEW p \in Proc, CloseFile(p) PROVE Opened'
  BY <1>6 DEF CloseFile, Opened
<1>7. ASSUME NEW p \in Proc, MoveAside(p) PROVE Opened'
  BY <1>7 DEF MoveAside, Opened
<1>8. ASSUME NEW p \in Proc, Install(p) PROVE Opened'
  BY <1>4, <1>8 DEF Install
<1>9. ASSUME NEW p \in Proc, InstallFails(p) PROVE Opened'
  <2>1. CASE Gone(p)
    BY <1>2, <2>1
  <2>2. CASE ~Gone(p)
    BY <1>9, <2>2 DEF InstallFails, Opened
  <2> QED BY <2>1, <2>2
<1>10. ASSUME NEW p \in Proc, End(p) PROVE Opened'
  BY <1>2, <1>10 DEF End
<1>11. ASSUME NEW p \in Proc, Start(p) \/ Display(p) PROVE Opened'
  BY <1>11 DEF Start, Display, Opened
<1>12. ASSUME NEW p \in Proc, NEW s \in Sym, NEW v \in Val, Edit(p, s, v) PROVE Opened'
  BY <1>12 DEF Edit, Opened
<1>13. ASSUME NEW p \in Proc, NEW n \in Name, Load(p, n) PROVE Opened'
  BY <1>13 DEF Load, Opened
<1> QED BY <1>1, <1>3, <1>5, <1>6, <1>7, <1>8, <1>9, <1>10, <1>11, <1>12, <1>13
        DEF Next, Step, BeginWrite, Interrupt

(* Every step of a process leaves the file in force as it is, or is the    *)
(* second rename of conf_write and puts a configuration there, whole or    *)
(* marked.                                                                 *)
LEMMA StepSimulation ==
    ASSUME NoLoss, TypeOK, SaveInv, Opened, [Next]_vars
    PROVE  [Store!Next]_<<InForce, torn>>
<1> USE DEF TypeOK
<1>1. CASE conf' = conf /\ old' = old /\ torn' = torn
  BY <1>1 DEF InForce
<1>2. ASSUME NEW p \in Proc, MoveAside(p)
      PROVE  UNCHANGED <<InForce, torn>>
  BY <1>2, AsideInForce DEF MoveAside, history
<1>3. ASSUME NEW p \in Proc, Install(p)
      PROVE  Store!Next
  <2> DEFINE n == target[p]
  <2>1. /\ n \in Name /\ old' = old /\ tmp[p].exists
        /\ torn' = IF handler[p] = "save" THEN torn \cup {n} ELSE torn \ {n}
    <3> HIDE DEF TypeOK
    <3>1. n \in Name
      BY DEF TypeOK
    <3> QED BY <1>3, <3>1, InstallSaves DEF Opened, Install
  <2>2. PICK f \in File : conf' = [conf EXCEPT ![n] = f] /\ f.exists
    <3> HIDE DEF TypeOK
    <3> QED BY <1>3, <2>1, InstallSaves
  <2>3. InForce'[n] = f /\ InForce' = [InForce EXCEPT ![n] = f]
    BY <2>1, <2>2 DEF InForce
  <2>4. Store!Put(n)
    BY <2>2, <2>3 DEF Store!Put
  <2>5. CASE handler[p] = "save"
    BY <2>1, <2>4, <2>5 DEF Store!SaveInterrupted, Store!Next
  <2>6. CASE handler[p] # "save"
    <3>1. Whole(f)
      <4>1. conf' = [conf EXCEPT ![n] = tmp[p]] /\ Whole(tmp[p])
        <5> HIDE DEF TypeOK
        <5> QED BY <1>3, <2>6, InstallWhole
      <4>2. f = tmp[p]
        BY <2>1, <2>2, <4>1
      <4> QED BY <4>1, <4>2
    <3>2. Store!Whole(f)
      BY <3>1 DEF Store!Whole, Store!OneLineEach, Store!Lines, Store!Image,
         Store!LineOf, Store!Config, Whole, OneLineEach, Lines, Image, LineOf
    <3>3. Store!Save(n)
      BY <2>1, <2>3, <2>4, <2>6, <3>2 DEF Store!Save
    <3> QED BY <2>1, <3>3 DEF Store!Next
  <2> QED BY <2>5, <2>6
<1>4. ~Overwrite
  BY DEF NoLoss
<1> QED BY <1>1, <1>2, <1>3, <1>4, OnlyThese DEF Next, vars, history

(* conf_write, with its temporary file, its two renames, other processes,  *)
(* crashes and signals, implements a store that is saved to in one step.   *)
THEOREM SaveIsAtomic ==
    ASSUME NoLoss
    PROVE  Spec => AtomicSave
<1>1. Init => Store!Init
  BY DEF Init, Store!Init, InForce, Missing, Store!Missing
<1>2. Init => Opened
  BY DEF Init, Opened
<1>3. TypeOK /\ Opened /\ [Next]_vars => Opened'
  BY OpenedInductive DEF NoLoss
<1>4. TypeOK /\ SaveInv /\ [Next]_vars => SaveInv'
  BY SaveInvInductive
<1>5. TypeOK /\ Opened /\ SaveInv /\ [Next]_vars => [Store!Next]_<<InForce, torn>>
  BY StepSimulation
<1> QED BY InitSaveInv, <1>1, <1>2, <1>3, <1>4, <1>5, TypeCorrect, PTL
        DEF Spec, AtomicSave, Store!Spec

-----------------------------------------------------------------------------
(* One process at a time, and a first rename that works.                   *)
Alone == ~Overwrite /\ "aside" \notin Faults /\ \A p, q \in Proc : p = q

(* Before the second rename there is no file under the name.               *)
Cleared == \A p \in Proc : pc[p] = "install" => ~conf[target[p]].exists

(* Cleared is inductive.                                                   *)
LEMMA ClearedInductive ==
    ASSUME Alone, TypeOK, Cleared, [Next]_vars
    PROVE  Cleared'
<1> USE DEF TypeOK
<1>1. CASE UNCHANGED vars
  BY <1>1 DEF vars, Cleared
<1>2. ASSUME NEW p \in Proc, pc'[p] # "install" PROVE Cleared'
  BY <1>2 DEF Cleared, Alone
<1>3. ASSUME NEW p \in Proc, Step(p) PROVE Cleared'
  <2>1. CASE MoveAside(p)
    <3>1. target' = target /\ target[p] \in Name /\ ~Missing.exists
      BY <2>1 DEF MoveAside, Missing
    <3>2. CASE conf' = [conf EXCEPT ![target[p]] = Missing]
      <4>1. conf'[target[p]] = Missing
        BY <3>1, <3>2
      <4> QED BY <3>1, <4>1 DEF Cleared, Alone
    <3>3. CASE conf' = conf /\ ~conf[target[p]].exists
      BY <3>1, <3>3 DEF Cleared, Alone
    <3> QED BY <2>1, <3>2, <3>3 DEF MoveAside, Alone
  <2>2. CASE Gone(p)
    <3>1. pc'[p] = "down"
      BY <2>2 DEF Gone
    <3> QED BY <1>2, <3>1
  <2>3. CASE ~MoveAside(p) /\ ~Gone(p)
    <3>1. ASSUME NEW f, Succeed(p, f), ~Gone(p) PROVE pc'[p] = "ready"
      BY <3>1 DEF Succeed
    <3>2. ASSUME NEW n \in Name, OpenFile(p, n) PROVE pc'[p] = "print"
      BY <3>2 DEF OpenFile
    <3>3. CASE Start(p) \/ Display(p) \/ \E s \in Sym, v \in Val : Edit(p, s, v)
      <4>1. pc'[p] # "install"
        BY <3>3 DEF Start, Display, Edit
      <4> QED BY <1>2, <4>1
    <3>4. CASE \E n \in Name : Load(p, n)
      <4>1. pc'[p] # "install"
        BY <3>4 DEF Load
      <4> QED BY <1>2, <4>1
    <3>5. CASE \E n \in Name : BeginWrite(p, n) \/ Interrupt(p, n)
      <4>1. pc'[p] # "install"
        BY <3>2, <3>5 DEF BeginWrite, Interrupt
      <4> QED BY <1>2, <4>1
    <3>6. CASE PrintEntry(p) \/ CloseFile(p)
      <4>1. pc'[p] # "install"
        BY <3>6 DEF PrintEntry, CloseFile, Alone
      <4> QED BY <1>2, <4>1
    <3>7. CASE Install(p)
      <4>1. pc'[p] # "install"
        BY <2>3, <3>1, <3>7 DEF Install
      <4> QED BY <1>2, <4>1
    <3>8. CASE InstallFails(p)
      <4>1. pc'[p] # "install"
        BY <2>3, <3>8 DEF InstallFails
      <4> QED BY <1>2, <4>1
    <3> QED BY <1>3, <2>3, <3>3, <3>4, <3>5, <3>6, <3>7, <3>8 DEF Step, End
  <2> QED BY <2>1, <2>2, <2>3
<1> QED BY <1>1, <1>3 DEF Next

(* Whenever the file in force changes, the one before is the .old: with a  *)
(* full disk, a second rename that fails, kills and handlers that save in  *)
(* the middle of a save, as long as one process saves at a time.           *)
THEOREM PreviousSafe ==
    ASSUME Alone
    PROVE  Spec => PreviousKept
<1>1. Init => Cleared
  BY DEF Init, Cleared
<1>2. TypeOK /\ Cleared /\ [Next]_vars => Cleared'
  BY ClearedInductive
<1>3. TypeOK /\ Cleared /\ [Next]_vars
        => [\A n \in Name : InForce'[n] # InForce[n] /\ InForce[n].exists
                               => old'[n] = InForce[n]]_vars
  <2> SUFFICES ASSUME TypeOK, Cleared, Next, NEW n \in Name, InForce'[n] # InForce[n]
               PROVE  old'[n] = InForce[n]
    OBVIOUS
  <2>1. PICK p \in Proc : Step(p)
    BY DEF Next
  <2>2. ~UNCHANGED <<conf, old>>
    BY DEF InForce
  <2>3. ~MoveAside(p)
    BY AsideInForce
  <2>4. Install(p)
    BY <2>1, <2>2, <2>3, OnlyThese DEF Alone
  <2>5. PICK f \in File : conf' = [conf EXCEPT ![target[p]] = f]
    BY <2>4, InstallSaves
  <2>6. old' = old /\ ~conf[target[p]].exists
    BY <2>4, InstallSaves DEF Cleared, Install
  <2>7. n = target[p]
    BY <2>5, <2>6 DEF InForce, TypeOK
  <2> QED BY <2>6, <2>7 DEF InForce
<1> QED BY <1>1, <1>2, <1>3, TypeCorrect, PTL DEF Spec, PreviousKept
=============================================================================
