--------------------------- MODULE SymCalc_proofs ---------------------------
(***************************************************************************)
(* Proofs about SymCalc, for any symbols, values, dependencies and         *)
(* functions from what a symbol reads to what it is worth.                 *)
(***************************************************************************)
EXTENDS SymCalc, NatSets, SequenceTheorems, TLAPS

-----------------------------------------------------------------------------
(* Calculations keep their type.                                           *)
LEMMA NewFrameType ==
    ASSUME NEW s \in Sym
    PROVE  NewFrame(s) \in Frame /\ NewFrame(s).sym = s /\ NewFrame(s).done = {}
BY ConstantsAssumption DEF NewFrame, Frame, Values

LEMMA HavingType ==
    ASSUME NEW f \in Frame, NEW d \in Sym, NEW val \in Val
    PROVE  /\ Having(f, d, val) \in Frame
           /\ Having(f, d, val).sym = f.sym
           /\ Having(f, d, val).done = f.done \cup {d}
           /\ Having(f, d, val).read[d] = val
           /\ \A e \in Sym : e # d => Having(f, d, val).read[e] = f.read[e]
<1>1. f.read \in Values /\ [f.read EXCEPT ![d] = val] \in Values
  BY DEF Frame, Values
<1>2. /\ [f.read EXCEPT ![d] = val][d] = val
      /\ \A e \in Sym : e # d => [f.read EXCEPT ![d] = val][e] = f.read[e]
  BY <1>1 DEF Values
<1>3. Having(f, d, val) = [f EXCEPT !.done = f.done \cup {d}, !.read = [f.read EXCEPT ![d] = val]]
  BY DEF Having
<1>4. f.done \cup {d} \in SUBSET Sym
  BY DEF Frame
<1> QED BY <1>1, <1>2, <1>3, <1>4 DEF Frame

(* The stack as a sequence.                                                *)
LEMMA TopIn ==
    ASSUME stack \in Seq(Frame), stack # << >>
    PROVE  /\ Len(stack) \in Nat \ {0} /\ Len(stack) \in 1..Len(stack)
           /\ Top = stack[Len(stack)] /\ Top \in Frame /\ Top.sym \in Sym
           /\ Top.sym \in OnStack
<1>1. Len(stack) \in Nat \ {0}
  BY EmptySeq
<1>2. Len(stack) \in 1..Len(stack) /\ Top \in Frame
  BY <1>1 DEF Top
<1> QED BY <1>1, <1>2 DEF Top, OnStack, Frame

LEMMA StackOfSymbols ==
    ASSUME stack \in Seq(Frame)
    PROVE  OnStack \subseteq Sym
<1>1. \A i \in 1..Len(stack) : stack[i] \in Frame
  OBVIOUS
<1>2. \A f \in Frame : f.sym \in Sym
  BY DEF Frame
<1> QED BY <1>1, <1>2 DEF OnStack

LEMMA Pushed ==
    ASSUME stack \in Seq(Frame), NEW s \in Sym, stack' = Append(stack, NewFrame(s))
    PROVE  /\ stack' \in Seq(Frame)
           /\ Len(stack') = Len(stack) + 1
           /\ \A i \in 1..Len(stack) : stack'[i] = stack[i]
           /\ stack'[Len(stack) + 1] = NewFrame(s)
           /\ OnStack' = OnStack \cup {s}
<1>1. /\ stack' \in Seq(Frame)
      /\ Len(stack') = Len(stack) + 1
      /\ \A i \in 1..Len(stack) : stack'[i] = stack[i]
      /\ stack'[Len(stack) + 1] = NewFrame(s)
  BY NewFrameType
<1>2. OnStack' = OnStack \cup {s}
  <2>1. Len(stack) \in Nat
    OBVIOUS
  <2>2. 1..Len(stack') = (1..Len(stack)) \cup {Len(stack) + 1}
    BY <1>1, <2>1
  <2> QED BY <1>1, <2>2, NewFrameType DEF OnStack
<1> QED BY <1>1, <1>2

(* Another frame for the same symbol takes the place of the top.           *)
LEMMA Replaced ==
    ASSUME stack \in Seq(Frame), stack # << >>, NEW f \in Frame, f.sym = Top.sym,
           stack' = [stack EXCEPT ![Len(stack)] = f]
    PROVE  /\ stack' \in Seq(Frame)
           /\ Len(stack') = Len(stack)
           /\ stack'[Len(stack)] = f
           /\ \A i \in 1..Len(stack) : i # Len(stack) => stack'[i] = stack[i]
           /\ \A i \in 1..Len(stack) : stack'[i].sym = stack[i].sym
           /\ OnStack' = OnStack
<1>1. /\ stack' \in Seq(Frame)
      /\ Len(stack') = Len(stack)
      /\ stack'[Len(stack)] = f
      /\ \A i \in 1..Len(stack) : i # Len(stack) => stack'[i] = stack[i]
  BY TopIn
<1>2. \A i \in 1..Len(stack) : stack'[i].sym = stack[i].sym
  BY <1>1 DEF Top
<1> QED BY <1>1, <1>2 DEF OnStack

LEMMA Callers ==
    ASSUME stack \in Seq(Frame), stack # << >>
    PROVE  LET callers == SubSeq(stack, 1, Len(stack) - 1) IN
           /\ callers \in Seq(Frame)
           /\ Len(callers) = Len(stack) - 1
           /\ \A i \in 1..(Len(stack) - 1) : callers[i] = stack[i]
<1> DEFINE n == Len(stack)
           callers == SubSeq(stack, 1, n - 1)
<1>1. n \in Nat \ {0} /\ n - 1 \in Int
  BY EmptySeq
<1>2. \A i \in 1..(n - 1) : stack[i] \in Frame
  BY <1>1
<1>3. /\ callers \in Seq(Frame)
      /\ Len(callers) = IF 1 <= n - 1 THEN n - 1 - 1 + 1 ELSE 0
      /\ \A i \in 1..(n - 1 - 1 + 1) : callers[i] = stack[1 + i - 1]
  BY <1>1, <1>2, SubSeqProperties
<1> HIDE DEF callers
<1>4. Len(callers) = n - 1
  <2> HIDE DEF n
  <2> QED BY <1>1, <1>3
<1>5. ASSUME NEW i \in 1..(n - 1) PROVE callers[i] = stack[i]
  <2>1. i \in 1..(n - 1 - 1 + 1) /\ 1 + i - 1 = i
    BY <1>1
  <2> QED BY <1>3, <2>1
<1>6. callers \in Seq(Frame) /\ Len(callers) = n - 1
        /\ \A i \in 1..(n - 1) : callers[i] = stack[i]
  BY <1>3, <1>4, <1>5
<1> QED BY <1>6 DEF callers

-----------------------------------------------------------------------------
(* Every variable keeps its type.                                          *)
THEOREM TypeCorrect == Spec => []TypeOK
<1> USE ConstantsAssumption
<1>1. Init => TypeOK
  <2> SUFFICES ASSUME Init PROVE TypeOK
    OBVIOUS
  <2>1. [s \in Sym |-> Default] \in Values
    BY DEF Values
  <2>2. stack \in Seq(Frame)
    BY NewFrameType DEF Init
  <2> QED BY <2>1, <2>2 DEF Init, TypeOK
<1>2. TypeOK /\ [Next]_vars => TypeOK'
  <2> SUFFICES ASSUME TypeOK, [Next]_vars PROVE TypeOK'
    OBVIOUS
  <2>1. CASE UNCHANGED vars
    BY <2>1 DEF TypeOK, vars, signal
  <2>2. ASSUME NEW s \in Sym, Call(s) PROVE TypeOK'
    <3>1. stack' \in Seq(Frame) /\ valid' \in SUBSET Sym
      BY <2>2, Pushed DEF Call, Enter, TypeOK
    <3> QED BY <2>2, <3>1 DEF TypeOK, Call, signal
  <2>3. ASSUME NEW d \in Sym, CallDep(d) PROVE TypeOK'
    <3>1. stack' \in Seq(Frame) /\ valid' \in SUBSET Sym
      BY <2>3, Pushed DEF CallDep, Enter, TypeOK
    <3> QED BY <2>3, <3>1 DEF TypeOK, CallDep, signal
  <2>4. ASSUME stack # << >>, NEW d \in Sym, NEW val \in Val, Read(d, val) PROVE TypeOK'
    <3>1. Having(Top, d, val) \in Frame
      BY <2>4, TopIn, HavingType DEF TypeOK
    <3>2. stack' \in Seq(Frame)
      BY <2>4, <3>1, TopIn DEF TypeOK, Read, Top
    <3> QED BY <2>4, <3>2 DEF TypeOK, Read, signal
  <2>5. ASSUME NEW d \in Sym, ReadDep(d) PROVE TypeOK'
    BY <2>4, <2>5 DEF ReadDep, Wants, TypeOK, Values
  <2>6. CASE ReadModules
    BY <2>4, <2>6 DEF ReadModules, TypeOK
  <2>7. CASE VisibilityDone
    <3>1. Top \in Frame /\ Top.sym \in Sym /\ Len(stack) \in 1..Len(stack)
      BY <2>7, TopIn DEF TypeOK, VisibilityDone
    <3>2. [Top EXCEPT !.phase = "value"] \in Frame
      BY <3>1 DEF Frame
    <3>3. stack' \in Seq(Frame) /\ curr' \in Values
      BY <2>7, <3>1, <3>2 DEF TypeOK, VisibilityDone, Top, Values
    <3> QED BY <2>7, <3>3 DEF TypeOK, VisibilityDone, signal
  <2>8. CASE Return
    <3>1. PICK val \in Val :
            /\ curr' = [curr EXCEPT ![Top.sym] = val]
            /\ modules_val' = IF Top.sym = Modules THEN val ELSE modules_val
            /\ LET callers == SubSeq(stack, 1, Len(stack) - 1) IN
               stack' = IF Len(stack) = 1 THEN << >>
                        ELSE [callers EXCEPT ![Len(stack) - 1] = Having(@, Top.sym, val)]
      BY <2>8 DEF Return
    <3>2. Top.sym \in Sym /\ Len(stack) \in Nat \ {0} /\ stack # << >>
      BY <2>8, TopIn DEF TypeOK, Return
    <3>3. stack' \in Seq(Frame)
      <4> DEFINE callers == SubSeq(stack, 1, Len(stack) - 1)
      <4>1. callers \in Seq(Frame) /\ Len(callers) = Len(stack) - 1
        BY <3>2, Callers DEF TypeOK
      <4>2. stack' = IF Len(stack) = 1 THEN << >>
                     ELSE [callers EXCEPT ![Len(stack) - 1] = Having(callers[Len(stack) - 1], Top.sym, val)]
        BY <3>1
      <4> HIDE DEF callers
      <4>3. CASE Len(stack) # 1
        <5>1. Len(stack) - 1 \in 1..Len(callers) /\ callers[Len(stack) - 1] \in Frame
          BY <3>2, <4>1, <4>3
        <5>2. Having(callers[Len(stack) - 1], Top.sym, val) \in Frame
          BY <3>2, <5>1, HavingType
        <5> QED BY <4>1, <4>2, <4>3, <5>2
      <4> QED BY <4>2, <4>3
    <3>4. curr' \in Values /\ modules_val' \in Val
      BY <3>1, <3>2 DEF TypeOK, Values
    <3> QED BY <2>8, <3>3, <3>4 DEF TypeOK, Return, signal
  <2>9. ASSUME ClearAllValid PROVE stack' \in Seq(Frame) /\ valid' \in SUBSET Sym /\ confirmed' = {}
    BY <2>9, Pushed DEF ClearAllValid, Enter, TypeOK
  <2>10. ASSUME NEW s \in Sym, NEW val \in Type[s], Set(s, val) PROVE TypeOK'
    <3>1. user' \in UserValues
      BY <2>10 DEF TypeOK, UserValues, UserVal, Set
    <3>2. stack' \in Seq(Frame) /\ valid' \in SUBSET Sym /\ confirmed' \in SUBSET Sym
      BY <2>9, <2>10 DEF Set, TypeOK
    <3> QED BY <2>10, <3>1, <3>2 DEF TypeOK, Set, signal
  <2>11. CASE Load
    BY <2>9, <2>11 DEF TypeOK, Load, signal
  <2>12. CASE Interrupt
    BY <2>12, StackOfSymbols DEF TypeOK, Interrupt
  <2> QED BY <2>1, <2>2, <2>3, <2>5, <2>6, <2>7, <2>8, <2>10, <2>11, <2>12
             DEF Next, Calculate
<1> QED BY <1>1, <1>2, PTL DEF Spec

-----------------------------------------------------------------------------
(* The inductive invariant, for symbols U none of which depends on itself. *)

(* Each calculation on the stack was called by the one below it, for a     *)
(* symbol that was not valid until then: none is on it twice.              *)
StackInv ==
    /\ \A i \in 1..Len(stack) : stack[i].sym \in valid \ interrupted
    /\ \A i, j \in 1..Len(stack) : i # j => stack[i].sym # stack[j].sym
    /\ \A i \in 1..(Len(stack) - 1) : stack[i + 1].sym \in Deps(stack[i].sym)

(* Only the handler leaves calculations that never end.                    *)
SignalInv ==
    /\ interrupted \subseteq valid
    /\ ~handling => interrupted = {}

(* The copy of the value of the modules symbol is right once that is.      *)
ModulesInv ==
    /\ Modules \in valid
    /\ Modules \in Settled => modules_val = curr[Modules]

(* What a calculation in progress has read are values that are settled.    *)
ReadInv(U) ==
    \A i \in 1..Len(stack) : stack[i].sym \in U =>
        \A d \in stack[i].done :
            d \in Deps(stack[i].sym) /\ d \in Settled /\ stack[i].read[d] = curr[d]

(* A settled symbol has its value whatever the symbols are worth that are  *)
(* not settled: what it was calculated from still is.                      *)
Worth(s, r) == IF s \in confirmed THEN user[s] ELSE Value(s, user[s], r)
SettledInv(U) ==
    \A s \in Settled \cap U, r \in Values :
        (\A d \in Deps(s) \cap Settled : r[d] = curr[d]) => Worth(s, r) = curr[s]

CalcInv(U) ==
    /\ StackInv
    /\ SignalInv
    /\ ModulesInv
    /\ confirmed \subseteq Settled
    /\ \A s \in confirmed : user[s] \in Val
    /\ U \cap interrupted = {} => ReadInv(U) /\ SettledInv(U)

(* What a calculation of such a symbol wants next is not on the stack.     *)
LEMMA WantedBelow ==
    ASSUME NEW U, Grounded(U), TypeOK, StackInv, stack # << >>, Top.sym \in U,
           NEW d \in Deps(Top.sym)
    PROVE  d \in U /\ d \notin OnStack
<1>1. d \in U
  BY DEF Grounded
<1>2. ASSUME d \in OnStack PROVE FALSE
  <2>1. PICK k \in 1..Len(stack) : stack[k].sym = d
    BY <1>2 DEF OnStack
  <2> DEFINE W == {stack[i].sym : i \in k..Len(stack)} \cap U
  <2>2. Len(stack) \in Nat /\ k \in k..Len(stack) /\ Len(stack) \in k..Len(stack)
    BY <2>1, TopIn DEF TypeOK
  <2>3. d \in W
    BY <1>1, <2>1, <2>2
  <2>4. ASSUME NEW s \in W PROVE Deps(s) \cap W # {}
    <3>1. PICK i \in k..Len(stack) : stack[i].sym = s
      OBVIOUS
    <3>2. CASE i = Len(stack)
      BY <2>3, <3>1, <3>2 DEF Top
    <3>3. CASE i # Len(stack)
      <4>1. i \in 1..(Len(stack) - 1) /\ i + 1 \in k..Len(stack)
        BY <2>1, <2>2, <3>3
      <4>2. stack[i + 1].sym \in Deps(s)
        BY <3>1, <4>1 DEF StackInv
      <4>3. stack[i + 1].sym \in U
        BY <4>2 DEF Grounded
      <4> QED BY <4>1, <4>2, <4>3
    <3> QED BY <3>2, <3>3
  <2> HIDE DEF W
  <2>5. W \in SUBSET U
    BY DEF W
  <2> QED BY <2>3, <2>4, <2>5 DEF Grounded
<1> QED BY <1>1, <1>2

(* The invariant, one kind of step at a time.                              *)
LEMMA SameSymbols ==
    ASSUME StackInv, Len(stack) \in Nat, Len(stack') = Len(stack),
           \A i \in 1..Len(stack) : stack'[i].sym = stack[i].sym,
           UNCHANGED <<valid, interrupted>>
    PROVE  StackInv'
<1>1. \A i \in 1..Len(stack') : stack'[i].sym \in valid' \ interrupted'
  BY DEF StackInv
<1>2. \A i, j \in 1..Len(stack') : i # j => stack'[i].sym # stack'[j].sym
  BY DEF StackInv
<1>3. ASSUME NEW i \in 1..(Len(stack') - 1) PROVE stack'[i + 1].sym \in Deps(stack'[i].sym)
  <2>1. i \in 1..Len(stack) /\ i + 1 \in 1..Len(stack) /\ i \in 1..(Len(stack) - 1)
    OBVIOUS
  <2>2. stack[i + 1].sym \in Deps(stack[i].sym)
    BY <2>1 DEF StackInv
  <2> QED BY <2>1, <2>2
<1> QED BY <1>1, <1>2, <1>3 DEF StackInv, Deps

LEMMA PushInv ==
    ASSUME NEW U, TypeOK, CalcInv(U), NEW s \in Sym, s \notin valid,
           stack # << >> => s \in Deps(Top.sym),
           Enter(s, valid), UNCHANGED <<user, curr, modules_val, signal, confirmed>>
    PROVE  CalcInv(U)'
<1> USE DEF CalcInv, signal
<1>1. stack \in Seq(Frame) /\ Len(stack) \in Nat
  BY DEF TypeOK
<1>2. /\ Len(stack') = Len(stack) + 1
      /\ \A i \in 1..Len(stack) : stack'[i] = stack[i]
      /\ stack'[Len(stack) + 1].sym = s
      /\ stack'[Len(stack) + 1].done = {}
      /\ OnStack' = OnStack \cup {s}
  BY <1>1, Pushed, NewFrameType DEF Enter
<1>3. valid' = valid \cup {s}
  BY DEF Enter
<1>4. Settled' = Settled /\ s \notin Settled
  BY <1>2, <1>3 DEF Settled
<1>5. \A i \in 1..Len(stack') : i \in 1..Len(stack) \/ i = Len(stack) + 1
  BY <1>1, <1>2
<1>6. s \notin interrupted /\ \A i \in 1..Len(stack) : stack[i].sym # s
  BY DEF SignalInv, StackInv
<1>7. StackInv'
  <2>1. \A i \in 1..Len(stack') : stack'[i].sym \in valid' \ interrupted'
    BY <1>2, <1>3, <1>5, <1>6 DEF StackInv
  <2>2. \A i, j \in 1..Len(stack') : i # j => stack'[i].sym # stack'[j].sym
    BY <1>2, <1>5, <1>6 DEF StackInv
  <2>3. ASSUME NEW i \in 1..(Len(stack') - 1)
        PROVE  stack'[i + 1].sym \in Deps(stack'[i].sym)
    <3>1. i \in 1..Len(stack)
      BY <1>1, <1>2
    <3>2. CASE i = Len(stack)
      BY <1>1, <1>2, <3>1, <3>2 DEF Top
    <3>3. CASE i # Len(stack)
      <4>1. i \in 1..(Len(stack) - 1) /\ i + 1 \in 1..Len(stack)
        BY <1>1, <3>1, <3>3
      <4> QED BY <1>2, <3>1, <4>1 DEF StackInv
    <3> QED BY <3>2, <3>3
  <2> QED BY <2>1, <2>2, <2>3 DEF StackInv, Deps
<1>8. SignalInv'
  BY <1>3 DEF SignalInv
<1>9. ModulesInv'
  BY <1>3, <1>4 DEF ModulesInv
<1>10. ReadInv(U) => ReadInv(U)'
  <2> SUFFICES ASSUME ReadInv(U), NEW i \in 1..Len(stack'), stack'[i].sym \in U,
                      NEW d \in stack'[i].done
               PROVE  d \in Deps(stack'[i].sym) /\ d \in Settled' /\ stack'[i].read[d] = curr'[d]
    BY DEF ReadInv, Deps
  <2>1. i \in 1..Len(stack) /\ stack'[i] = stack[i]
    BY <1>2, <1>5
  <2> QED BY <1>4, <2>1 DEF ReadInv
<1>11. SettledInv(U) => SettledInv(U)'
  BY <1>4 DEF SettledInv, Worth, Deps
<1> QED BY <1>4, <1>7, <1>8, <1>9, <1>10, <1>11

(* Reading a symbol, which is settled when it is one of U that reads.      *)
LEMMA ReadKeepsInv ==
    ASSUME NEW U, TypeOK, CalcInv(U), stack # << >>, NEW d \in Sym, NEW val \in Val,
           Read(d, val), d \in Deps(Top.sym),
           U \cap interrupted = {} /\ Top.sym \in U => d \in Settled /\ val = curr[d]
    PROVE  CalcInv(U)'
<1> USE DEF CalcInv, signal
<1>1. /\ UNCHANGED <<user, curr, valid, modules_val, signal, confirmed>>
      /\ stack' = [stack EXCEPT ![Len(stack)] = Having(Top, d, val)]
  BY DEF Read, Top
<1>2. Top \in Frame /\ Len(stack) \in 1..Len(stack) /\ stack \in Seq(Frame)
  BY TopIn DEF TypeOK
<1>3. /\ Having(Top, d, val) \in Frame
      /\ Having(Top, d, val).sym = Top.sym
      /\ Having(Top, d, val).done = Top.done \cup {d}
      /\ Having(Top, d, val).read[d] = val
      /\ \A e \in Sym : e # d => Having(Top, d, val).read[e] = Top.read[e]
  BY <1>2, HavingType
<1>4. /\ Len(stack') = Len(stack)
      /\ stack'[Len(stack)] = Having(Top, d, val)
      /\ \A i \in 1..Len(stack) : i # Len(stack) => stack'[i] = stack[i]
      /\ \A i \in 1..Len(stack) : stack'[i].sym = stack[i].sym
      /\ OnStack' = OnStack
  BY <1>1, <1>2, <1>3, Replaced
<1>5. Settled' = Settled
  BY <1>1, <1>4 DEF Settled
<1>6. StackInv'
  <2>1. UNCHANGED <<valid, interrupted>> /\ Len(stack) \in Nat
    BY <1>1, <1>2
  <2> QED BY <1>4, <2>1, SameSymbols
<1>7. SignalInv' /\ ModulesInv' /\ (SettledInv(U) => SettledInv(U)')
  BY <1>1, <1>5 DEF SignalInv, ModulesInv, SettledInv, Worth, Deps
<1>8. U \cap interrupted = {} => ReadInv(U)'
  <2> SUFFICES ASSUME U \cap interrupted = {}, NEW i \in 1..Len(stack'), stack'[i].sym \in U,
                      NEW e \in stack'[i].done
               PROVE  e \in Deps(stack'[i].sym) /\ e \in Settled' /\ stack'[i].read[e] = curr'[e]
    BY DEF ReadInv, Deps
  <2> SUFFICES e \in Deps(stack[i].sym) /\ e \in Settled /\ stack'[i].read[e] = curr[e]
    BY <1>1, <1>4, <1>5
  <2>3. i \in 1..Len(stack) /\ stack[i].sym \in U
    BY <1>4
  <2>1. CASE i # Len(stack)
    BY <1>4, <2>1, <2>3 DEF ReadInv
  <2>2. CASE i = Len(stack)
    <3>1. stack[i] = Top /\ e \in Top.done \cup {d} /\ stack'[i] = Having(Top, d, val)
      BY <1>3, <1>4, <2>2 DEF Top
    <3>2. CASE e = d
      BY <1>3, <2>3, <3>1, <3>2
    <3>3. CASE e # d
      <4>1. e \in stack[i].done /\ e \in Sym
        BY <1>2, <3>1, <3>3 DEF Frame
      <4>2. e \in Deps(stack[i].sym) /\ e \in Settled /\ stack[i].read[e] = curr[e]
        BY <2>3, <4>1 DEF ReadInv
      <4> QED BY <1>3, <3>1, <3>3, <4>1, <4>2
    <3> QED BY <3>2, <3>3
  <2> QED BY <2>1, <2>2
<1> QED BY <1>1, <1>5, <1>6, <1>7, <1>8

(* Nothing is valid any more but the modules symbol, which is entered.     *)
LEMMA ClearInv ==
    ASSUME NEW U, TypeOK, SignalInv, stack = << >>, ~handling, ClearAllValid,
           UNCHANGED signal
    PROVE  CalcInv(U)'
<1> USE ConstantsAssumption DEF signal
<1>1. /\ Len(stack') = 1 /\ stack'[1] = NewFrame(Modules) /\ OnStack' = {Modules}
  <2>1. OnStack = {} /\ Len(stack) = 0
    BY DEF OnStack
  <2>2. Len(stack') = Len(stack) + 1 /\ stack'[Len(stack) + 1] = NewFrame(Modules)
        /\ OnStack' = OnStack \cup {Modules}
    BY Pushed DEF TypeOK, ClearAllValid, Enter
  <2> QED BY <2>1, <2>2
<1>2. stack'[1].sym = Modules /\ stack'[1].done = {}
  BY <1>1, NewFrameType
<1>3. valid' = {Modules} /\ interrupted' = {} /\ Settled' = {} /\ confirmed' = {}
  BY <1>1 DEF ClearAllValid, Enter, Settled, SignalInv
<1>4. StackInv'
  BY <1>1, <1>2, <1>3 DEF StackInv
<1>5. ReadInv(U)' /\ SettledInv(U)'
  BY <1>1, <1>2, <1>3 DEF ReadInv, SettledInv
<1>6. SignalInv' /\ ModulesInv'
  BY <1>3 DEF SignalInv, ModulesInv
<1> QED BY <1>3, <1>4, <1>5, <1>6 DEF CalcInv

LEMMA VisibilityInv ==
    ASSUME NEW U, TypeOK, CalcInv(U), VisibilityDone
    PROVE  CalcInv(U)'
<1> USE DEF CalcInv, signal
<1> DEFINE f == [Top EXCEPT !.phase = "value"]
<1>1. /\ UNCHANGED <<user, valid, modules_val, signal, confirmed>>
      /\ curr' = [curr EXCEPT ![Top.sym] = Default]
      /\ stack' = [stack EXCEPT ![Len(stack)] = f]
      /\ stack # << >>
  BY DEF VisibilityDone, Top
<1>2. /\ Top \in Frame /\ Top.sym \in OnStack /\ Len(stack) \in 1..Len(stack)
      /\ Top = stack[Len(stack)] /\ stack \in Seq(Frame)
  BY <1>1, TopIn DEF TypeOK
<1>3. f \in Frame /\ f.sym = Top.sym /\ f.done = Top.done /\ f.read = Top.read
  BY <1>2 DEF Frame
<1> HIDE DEF f
<1>4. /\ Len(stack') = Len(stack)
      /\ stack'[Len(stack)] = f
      /\ \A i \in 1..Len(stack) : i # Len(stack) => stack'[i] = stack[i]
      /\ OnStack' = OnStack
  BY <1>1, <1>2, <1>3, Replaced
<1>5. \A i \in 1..Len(stack) : /\ stack'[i].sym = stack[i].sym
                               /\ stack'[i].done = stack[i].done
                               /\ stack'[i].read = stack[i].read
  BY <1>2, <1>3, <1>4
<1>6. Settled' = Settled /\ \A s \in Settled : curr'[s] = curr[s]
  BY <1>1, <1>2, <1>4 DEF Settled, TypeOK, Values
<1>7. StackInv'
  <2>1. UNCHANGED <<valid, interrupted>> /\ Len(stack) \in Nat
    BY <1>1, <1>2
  <2> QED BY <1>4, <1>5, <2>1, SameSymbols
<1>8. SignalInv' /\ ModulesInv'
  BY <1>1, <1>6 DEF SignalInv, ModulesInv
<1>9. SettledInv(U) => SettledInv(U)'
  BY <1>1, <1>6 DEF SettledInv, Worth, Deps
<1>10. ReadInv(U) => ReadInv(U)'
  <2> SUFFICES ASSUME ReadInv(U), NEW i \in 1..Len(stack'), stack'[i].sym \in U,
                      NEW d \in stack'[i].done
               PROVE  d \in Deps(stack'[i].sym) /\ d \in Settled' /\ stack'[i].read[d] = curr'[d]
    BY DEF ReadInv, Deps
  <2>1. i \in 1..Len(stack) /\ stack[i].sym \in U /\ d \in stack[i].done
    BY <1>4, <1>5
  <2>2. d \in Deps(stack[i].sym) /\ d \in Settled /\ stack[i].read[d] = curr[d]
    BY <2>1 DEF ReadInv
  <2> QED BY <1>5, <1>6, <2>1, <2>2
<1> QED BY <1>1, <1>6, <1>7, <1>8, <1>9, <1>10

LEMMA ReturnInv ==
    ASSUME NEW U, Grounded(U), TypeOK, CalcInv(U), Return
    PROVE  CalcInv(U)'
<1> USE DEF CalcInv, signal
<1> DEFINE n == Len(stack)
           callers == SubSeq(stack, 1, n - 1)
           t == Top.sym
<1>1. /\ n \in Nat \ {0} /\ n \in 1..n /\ Top = stack[n] /\ Top \in Frame
      /\ t \in Sym /\ t \in OnStack /\ stack \in Seq(Frame) /\ stack # << >>
  BY TopIn DEF TypeOK, Return
<1>2. PICK val \in Val :
        /\ Determined(Top, val)
        /\ curr' = [curr EXCEPT ![t] = val]
        /\ modules_val' = IF t = Modules THEN val ELSE modules_val
        /\ stack' = IF n = 1 THEN << >>
                    ELSE [callers EXCEPT ![n - 1] = Having(callers[n - 1], t, val)]
  BY DEF Return
<1>3. UNCHANGED <<user, valid, signal, confirmed>>
  BY DEF Return
<1>4. /\ callers \in Seq(Frame) /\ Len(callers) = n - 1
      /\ \A i \in 1..(n - 1) : callers[i] = stack[i]
  BY <1>1, Callers
<1> HIDE DEF callers, n, t
<1>5. /\ Len(stack') = n - 1
      /\ \A i \in 1..(n - 1) : i # n - 1 => stack'[i] = stack[i]
      /\ n # 1 => stack'[n - 1] = Having(stack[n - 1], t, val) /\ stack[n - 1] \in Frame
  <2>1. CASE n = 1
    BY <1>1, <1>2, <2>1
  <2>2. CASE n # 1
    <3>1. n - 1 \in 1..(n - 1) /\ n - 1 \in 1..n
      BY <1>1, <2>2
    <3>2. stack[n - 1] \in Frame /\ callers[n - 1] = stack[n - 1]
      BY <1>1, <1>4, <3>1 DEF n
    <3>3. stack' = [callers EXCEPT ![n - 1] = Having(stack[n - 1], t, val)]
      BY <1>2, <2>2, <3>2
    <3> QED BY <1>4, <3>1, <3>2, <3>3
  <2> QED BY <2>1, <2>2
<1>6. n # 1 => /\ stack'[n - 1].sym = stack[n - 1].sym
               /\ stack'[n - 1].done = stack[n - 1].done \cup {t}
               /\ stack'[n - 1].read[t] = val
               /\ \A e \in Sym : e # t => stack'[n - 1].read[e] = stack[n - 1].read[e]
  BY <1>1, <1>5, HavingType
<1>7. \A i \in 1..(n - 1) : i \in 1..n /\ stack'[i].sym = stack[i].sym /\ stack[i].sym # t
  <2> SUFFICES ASSUME NEW i \in 1..(n - 1)
               PROVE  i \in 1..n /\ stack'[i].sym = stack[i].sym /\ stack[i].sym # t
    OBVIOUS
  <2>1. i \in 1..n /\ i # n
    BY <1>1
  <2>2. stack'[i].sym = stack[i].sym
    BY <1>1, <1>5, <1>6
  <2>3. stack[i].sym # stack[n].sym
    BY <1>1, <2>1 DEF StackInv, n
  <2> QED BY <1>1, <2>1, <2>2, <2>3 DEF t
<1>8. OnStack' = OnStack \ {t}
  <2>1. OnStack' = {stack[i].sym : i \in 1..(n - 1)}
    BY <1>5, <1>7 DEF OnStack
  <2>2. OnStack = {stack[i].sym : i \in 1..n}
    BY DEF OnStack, n
  <2>3. 1..n = (1..(n - 1)) \cup {n}
    BY <1>1
  <2>4. stack[n].sym = t
    BY <1>1 DEF t
  <2> QED BY <1>7, <2>1, <2>2, <2>3, <2>4
<1>9. t \in valid /\ t \notin interrupted /\ t \notin Settled
  <2>1. stack[n].sym \in valid \ interrupted
    BY <1>1 DEF StackInv, n
  <2> QED BY <1>1, <2>1 DEF t, Settled
<1>10. Settled' = Settled \cup {t}
  BY <1>3, <1>8, <1>9, <1>1 DEF Settled
<1>11. curr'[t] = val /\ \A s \in Settled : curr'[s] = curr[s]
  BY <1>1, <1>2, <1>9 DEF TypeOK, Values, Settled
<1>12. StackInv'
  <2>1. \A i \in 1..Len(stack') : stack'[i].sym \in valid' \ interrupted'
    BY <1>3, <1>5, <1>7 DEF StackInv, n
  <2>2. \A i, j \in 1..Len(stack') : i # j => stack'[i].sym # stack'[j].sym
    BY <1>5, <1>7 DEF StackInv, n
  <2>3. ASSUME NEW i \in 1..(Len(stack') - 1) PROVE stack'[i + 1].sym \in Deps(stack'[i].sym)
    <3>1. i \in 1..(n - 1) /\ i + 1 \in 1..(n - 1)
      BY <1>1, <1>5
    <3>2. stack[i + 1].sym \in Deps(stack[i].sym)
      BY <3>1 DEF StackInv, n
    <3> QED BY <1>7, <3>1, <3>2
  <2> QED BY <2>1, <2>2, <2>3 DEF StackInv, Deps
<1>13. SignalInv' /\ confirmed' \subseteq Settled'
  BY <1>3, <1>10 DEF SignalInv
<1>14. ModulesInv'
  BY <1>2, <1>3, <1>10, <1>11 DEF ModulesInv
<1> SUFFICES ASSUME U \cap interrupted = {} PROVE ReadInv(U)' /\ SettledInv(U)'
  BY <1>3, <1>12, <1>13, <1>14
<1>15. ReadInv(U) /\ SettledInv(U)
  OBVIOUS
<1>16. ReadInv(U)'
  <2> SUFFICES ASSUME NEW i \in 1..Len(stack'), stack'[i].sym \in U, NEW d \in stack'[i].done
               PROVE  d \in Deps(stack'[i].sym) /\ d \in Settled' /\ stack'[i].read[d] = curr'[d]
    BY DEF ReadInv, Deps
  <2>1. i \in 1..(n - 1) /\ i \in 1..n /\ stack'[i].sym = stack[i].sym
    BY <1>5, <1>7
  <2>2. ASSUME d \in stack[i].done
        PROVE  d \in Deps(stack[i].sym) /\ d \in Settled /\ stack[i].read[d] = curr[d]
    BY <1>15, <2>1, <2>2 DEF ReadInv, n
  <2>3. CASE i # n - 1
    BY <1>5, <1>10, <1>11, <2>1, <2>2, <2>3
  <2>4. CASE i = n - 1
    <3>1. n # 1 /\ d \in stack[i].done \cup {t}
      BY <1>1, <1>6, <2>1, <2>4
    <3>2. CASE d = t
      <4>1. stack[i + 1].sym \in Deps(stack[i].sym)
        BY <2>1 DEF StackInv, n
      <4>2. i + 1 = n /\ stack[n].sym = t
        BY <1>1, <2>4 DEF t
      <4>3. t \in Deps(stack[i].sym)
        BY <4>1, <4>2
      <4>4. stack'[i].read[t] = val
        BY <1>6, <2>4, <3>1
      <4> QED BY <1>10, <1>11, <2>1, <3>2, <4>3, <4>4
    <3>3. CASE d # t
      <4>1. d \in Deps(stack[i].sym) /\ d \in Settled /\ stack[i].read[d] = curr[d]
        BY <2>2, <3>1, <3>3
      <4>2. d \in Sym
        BY <4>1 DEF Settled, TypeOK
      <4>3. stack'[i].read[d] = stack[i].read[d]
        BY <1>6, <2>4, <3>1, <3>3, <4>2
      <4> QED BY <1>10, <1>11, <2>1, <4>1, <4>3
    <3> QED BY <3>2, <3>3
  <2> QED BY <2>3, <2>4
<1>17. SettledInv(U)'
  <2> SUFFICES ASSUME NEW s \in Settled \cup {t}, s \in U, NEW r \in Values,
                      \A d \in Deps(s) \cap (Settled \cup {t}) : r[d] = curr'[d]
               PROVE  Worth(s, r) = curr'[s]
    BY <1>3, <1>10 DEF SettledInv, Worth, Deps
  <2>1. CASE s \in Settled
    <3>1. \A d \in Deps(s) \cap Settled : r[d] = curr[d]
      BY <1>11
    <3> QED BY <1>11, <1>15, <2>1, <3>1 DEF SettledInv
  <2>2. CASE s = t
    <3>1. \A d \in Top.done : d \in Deps(t) /\ d \in Settled /\ Top.read[d] = curr[d]
      BY <1>1, <1>15, <2>2 DEF ReadInv, n, t
    <3>2. \A d \in Top.done : r[d] = Top.read[d]
      BY <1>11, <2>2, <3>1
    <3>3. Value(t, user[t], r) = val
      BY <1>2, <3>2 DEF Determined, t
    <3>4. t \notin confirmed
      BY <1>9
    <3> QED BY <1>11, <2>2, <3>3, <3>4 DEF Worth
  <2> QED BY <2>1, <2>2
<1> QED BY <1>16, <1>17

(* A symbol is set to the value it has.                                    *)
LEMMA ConfirmInv ==
    ASSUME NEW U, TypeOK, CalcInv(U), stack = << >>, ~handling,
           NEW s \in Sym, NEW val, curr[s] = val,
           user' = [user EXCEPT ![s] = val],
           confirmed' = confirmed \cup ({s} \cap valid),
           UNCHANGED <<curr, valid, modules_val, stack, signal>>
    PROVE  CalcInv(U)'
<1> USE DEF CalcInv, signal
<1>1. OnStack' = OnStack /\ Settled' = Settled
  BY DEF OnStack, Settled
<1>2. StackInv' /\ SignalInv' /\ ModulesInv'
  BY <1>1 DEF StackInv, SignalInv, ModulesInv, Deps
<1>3. confirmed' \subseteq Settled
  <2>1. OnStack = {} /\ interrupted = {}
    BY DEF OnStack, SignalInv
  <2> QED BY <2>1 DEF Settled
<1>4. ReadInv(U) => ReadInv(U)'
  BY <1>1 DEF ReadInv, Deps
<1>5. SettledInv(U) => SettledInv(U)'
  <2> SUFFICES ASSUME SettledInv(U), NEW t \in Settled \cap U, NEW r \in Values,
                      \A d \in Deps(t) \cap Settled : r[d] = curr[d]
               PROVE  Worth(t, r)' = curr[t]
    BY <1>1 DEF SettledInv, Deps
  <2>1. Worth(t, r) = curr[t]
    BY DEF SettledInv
  <2>2. t \in Sym /\ t \in valid
    BY DEF Settled, TypeOK
  <2>3. CASE t # s
    BY <2>1, <2>2, <2>3 DEF Worth, TypeOK, UserValues
  <2>4. CASE t = s
    BY <2>2, <2>4 DEF Worth, TypeOK, UserValues
  <2> QED BY <2>3, <2>4
<1>6. \A t \in confirmed' : user'[t] \in Val
  <2> SUFFICES ASSUME NEW t \in confirmed' PROVE user'[t] \in Val
    OBVIOUS
  <2>1. CASE t = s
    BY <2>1 DEF TypeOK, UserValues, Values
  <2>2. CASE t # s
    <3>1. t \in confirmed /\ t \in Sym
      BY <2>2 DEF TypeOK
    <3> QED BY <2>2, <3>1 DEF TypeOK, UserValues
  <2> QED BY <2>1, <2>2
<1> QED BY <1>1, <1>2, <1>3, <1>4, <1>5, <1>6

(* The handler leaves what is settled as it is.                            *)
LEMMA InterruptInv ==
    ASSUME NEW U, TypeOK, CalcInv(U), Interrupt
    PROVE  CalcInv(U)'
<1> USE DEF CalcInv
<1>1. /\ interrupted = {} /\ interrupted' = OnStack /\ handling'
      /\ Len(stack') = 0 /\ OnStack' = {}
      /\ UNCHANGED <<user, curr, valid, modules_val, confirmed>>
  BY DEF Interrupt, SignalInv, OnStack
<1>2. Settled' = Settled
  BY <1>1 DEF Settled
<1>3. StackInv' /\ ReadInv(U)'
  BY <1>1 DEF StackInv, ReadInv
<1>4. SignalInv'
  <2>1. OnStack \subseteq valid
    BY DEF OnStack, StackInv
  <2> QED BY <1>1, <2>1 DEF SignalInv
<1>5. ModulesInv' /\ SettledInv(U)'
  BY <1>1, <1>2 DEF ModulesInv, SettledInv, Worth, Deps
<1> QED BY <1>1, <1>2, <1>3, <1>4, <1>5

LEMMA InitInv ==
    ASSUME NEW U, Init
    PROVE  CalcInv(U)
<1>1. Len(stack) = 1 /\ stack[1].sym = Modules /\ stack[1].done = {}
  BY NewFrameType, ConstantsAssumption DEF Init
<1>2. OnStack = {Modules} /\ Settled = {}
  BY <1>1 DEF Init, OnStack, Settled
<1> QED BY <1>1, <1>2 DEF Init, CalcInv, StackInv, SignalInv, ReadInv, SettledInv, ModulesInv

LEMMA StepInv ==
    ASSUME NEW U, Grounded(U), TypeOK, CalcInv(U), [Next]_vars
    PROVE  CalcInv(U)'
<1>1. CASE UNCHANGED vars
  BY <1>1 DEF vars, signal, CalcInv, StackInv, SignalInv, ReadInv, SettledInv,
              ModulesInv, OnStack, Settled, Deps, Worth
<1>2. ASSUME NEW s \in Sym, Call(s) PROVE CalcInv(U)'
  BY <1>2, PushInv DEF Call
<1>3. ASSUME NEW d \in Sym, Wants(d) PROVE stack # << >> /\ d \in Deps(Top.sym)
  BY <1>3 DEF Wants, Deps
<1>4. ASSUME NEW d \in Sym, CallDep(d) PROVE CalcInv(U)'
  BY <1>3, <1>4, PushInv DEF CallDep
<1>5. ASSUME NEW d \in Sym, ReadDep(d) PROVE CalcInv(U)'
  <2>1. stack # << >> /\ d \in Deps(Top.sym) /\ d \in valid /\ Read(d, curr[d])
    BY <1>3, <1>5 DEF ReadDep
  <2>2. ASSUME U \cap interrupted = {}, Top.sym \in U PROVE d \in Settled
    BY <2>1, <2>2, WantedBelow DEF CalcInv, Settled
  <2>3. curr[d] \in Val
    BY DEF TypeOK, Values
  <2> QED BY <2>1, <2>2, <2>3, ReadKeepsInv
<1>6. CASE ReadModules
  <2>1. stack # << >> /\ Modules \in Deps(Top.sym) /\ Read(Modules, modules_val)
    BY <1>6 DEF ReadModules, Deps
  <2>2. ASSUME U \cap interrupted = {}, Top.sym \in U
        PROVE  Modules \in Settled /\ modules_val = curr[Modules]
    <3>1. Modules \in U /\ Modules \notin OnStack /\ Modules \in valid
      BY <2>1, <2>2, WantedBelow DEF CalcInv, ModulesInv
    <3> QED BY <2>2, <3>1 DEF CalcInv, ModulesInv, Settled
  <2>3. modules_val \in Val /\ Modules \in Sym
    BY ConstantsAssumption DEF TypeOK
  <2> QED BY <2>1, <2>2, <2>3, ReadKeepsInv
<1>7. CASE VisibilityDone
  BY <1>7, VisibilityInv
<1>8. CASE Return
  BY <1>8, ReturnInv
<1>9. ASSUME NEW s \in Sym, NEW val \in Type[s], Set(s, val) PROVE CalcInv(U)'
  <2>1. CASE curr[s] = val
    <3>1. /\ stack = << >> /\ ~handling
          /\ user' = [user EXCEPT ![s] = val]
          /\ confirmed' = confirmed \cup ({s} \cap valid)
          /\ UNCHANGED <<curr, valid, modules_val, stack, signal>>
      BY <1>9, <2>1 DEF Set
    <3> QED BY <2>1, <3>1, ConfirmInv
  <2>2. CASE curr[s] # val
    BY <1>9, <2>2, ClearInv DEF Set, CalcInv
  <2> QED BY <2>1, <2>2
<1>10. CASE Load
  BY <1>10, ClearInv DEF Load, CalcInv
<1>11. CASE Interrupt
  BY <1>11, InterruptInv
<1> QED BY <1>1, <1>2, <1>4, <1>5, <1>6, <1>7, <1>8, <1>9, <1>10, <1>11
           DEF Next, Calculate

(* The invariant of all such sets of symbols.                              *)
AllInv == \A U \in GroundedSets : CalcInv(U)

LEMMA InvInductive == Spec => [](TypeOK /\ AllInv)
<1>1. Init => AllInv
  BY InitInv DEF AllInv
<1>2. TypeOK /\ AllInv /\ [Next]_vars => AllInv'
  <2> SUFFICES ASSUME TypeOK, AllInv, [Next]_vars, NEW U \in GroundedSets PROVE CalcInv(U)'
    BY DEF AllInv, GroundedSets, Grounded, Deps
  <2>1. Grounded(U) /\ CalcInv(U)
    BY DEF AllInv, GroundedSets
  <2> QED BY <2>1, StepInv
<1> QED BY <1>1, <1>2, TypeCorrect, PTL DEF Spec

(* A settled symbol that is wrong would depend on another one.             *)
LEMMA InvCoherent ==
    ASSUME NEW U, Grounded(U), CalcInv(U), U \cap interrupted = {},
           NEW val \in Values, Solves(U, val)
    PROVE  \A s \in Settled \cap U : curr[s] = val[s]
<1> DEFINE W == {s \in Settled \cap U : curr[s] # val[s]}
<1>1. ASSUME W # {} PROVE FALSE
  <2>1. PICK s \in W : Deps(s) \cap W = {}
    BY <1>1 DEF Grounded
  <2>2. Deps(s) \subseteq U
    BY <2>1 DEF Grounded
  <2>3. \A d \in Deps(s) \cap Settled : val[d] = curr[d]
    BY <2>1, <2>2
  <2>4. Worth(s, val) = curr[s]
    BY <2>3 DEF CalcInv, SettledInv
  <2>5. val[s] = Worth(s, val)
    BY DEF Solves, Worth
  <2> QED BY <2>4, <2>5
<1> QED BY <1>1

(* A valid symbol that is not being calculated has the one value that the  *)
(* user values give it, for all symbols from which no cycle of             *)
(* dependencies is reached and whose calculation no signal cut off: in any *)
(* tree, and whatever is asked for, set, confirmed or loaded in any order. *)
THEOREM CalcCoherent == Spec => []Coherent
<1>1. AllInv => Coherent
  BY InvCoherent DEF AllInv, Coherent, GroundedSets
<1> QED BY <1>1, InvInductive, PTL

-----------------------------------------------------------------------------
(* What Coherent compares with exists, and there is one only: symbols that *)
(* can be ranked by their dependencies determine each other's values.      *)
Ranked(U, rank) ==
    /\ U \subseteq Sym /\ rank \in [Sym -> Nat]
    /\ \A s \in U : \A d \in Deps(s) : d \in U /\ rank[d] < rank[s]

UserKnown == \A s \in Sym : IF s \in confirmed THEN user[s] \in Val ELSE user[s] \in UserVal

SolvesBelow(U, rank, n, val) ==
    val \in Values /\ \A s \in U : rank[s] < n => val[s] = Worth(s, val)

LEMMA WorthType ==
    ASSUME UserKnown, NEW s \in Sym, NEW r \in Values
    PROVE  Worth(s, r) \in Val
BY ConstantsAssumption DEF UserKnown, Worth

LEMMA WorthLocal ==
    ASSUME UserKnown, Local, NEW s \in Sym, NEW r \in Values, NEW q \in Values,
           \A d \in Deps(s) : r[d] = q[d]
    PROVE  Worth(s, r) = Worth(s, q)
BY DEF UserKnown, Worth, Local

LEMMA PartialSolution ==
    ASSUME NEW U, NEW rank, Ranked(U, rank), Local, UserKnown
    PROVE  \A n \in Nat : \E val : SolvesBelow(U, rank, n, val)
<1> DEFINE R == {n \in Nat : \E val : SolvesBelow(U, rank, n, val)}
<1>1. 0 \in R
  <2>1. SolvesBelow(U, rank, 0, [s \in Sym |-> Default])
    BY ConstantsAssumption DEF Ranked, SolvesBelow, Values
  <2> QED BY <2>1
<1>2. ASSUME NEW n \in R PROVE n + 1 \in R
  <2>1. PICK val : SolvesBelow(U, rank, n, val)
    OBVIOUS
  <2> DEFINE next == [s \in Sym |-> IF rank[s] < n THEN val[s] ELSE Worth(s, val)]
  <2>2. val \in Values /\ n \in Nat
    BY <2>1 DEF SolvesBelow
  <2>3. next \in Values
    BY <2>2, WorthType DEF Values
  <2>4. ASSUME NEW s \in U, rank[s] < n + 1 PROVE next[s] = Worth(s, next)
    <3>1. s \in Sym
      BY DEF Ranked
    <3>2. ASSUME NEW d \in Deps(s) PROVE next[d] = val[d]
      <4>1. d \in Sym /\ rank[d] < rank[s] /\ rank[d] \in Nat /\ rank[s] \in Nat
        BY <3>1 DEF Ranked
      <4>2. rank[d] < n
        BY <2>2, <2>4, <4>1
      <4> QED BY <4>1, <4>2
    <3> HIDE DEF next
    <3>3. Worth(s, next) = Worth(s, val)
      BY <2>2, <2>3, <3>1, <3>2, WorthLocal
    <3>4. CASE rank[s] < n
      <4>1. next[s] = val[s]
        BY <3>1, <3>4 DEF next
      <4>2. val[s] = Worth(s, val)
        BY <2>1, <3>4 DEF SolvesBelow
      <4> QED BY <3>3, <4>1, <4>2
    <3>5. CASE ~(rank[s] < n)
      BY <3>1, <3>3, <3>5 DEF next
    <3> QED BY <3>4, <3>5
  <2> HIDE DEF next
  <2>5. SolvesBelow(U, rank, n + 1, next)
    BY <2>3, <2>4 DEF SolvesBelow
  <2> QED BY <2>2, <2>5
<1> HIDE DEF R
<1>3. R \in SUBSET Nat
  BY DEF R
<1>4. R = Nat
  BY <1>1, <1>2, <1>3, NatSetInduction
<1> QED BY <1>4 DEF R

LEMMA PartialUnique ==
    ASSUME NEW U, NEW rank, Ranked(U, rank), Local, UserKnown,
           NEW v, NEW w, NEW n \in Nat,
           SolvesBelow(U, rank, n, v), SolvesBelow(U, rank, n, w)
    PROVE  \A s \in U : rank[s] < n => v[s] = w[s]
<1> DEFINE R == {k \in Nat : \A s \in U : rank[s] < n /\ rank[s] < k => v[s] = w[s]}
<1>1. rank \in [Sym -> Nat] /\ U \subseteq Sym /\ v \in Values /\ w \in Values
  BY DEF Ranked, SolvesBelow
<1>2. 0 \in R
  BY <1>1
<1>3. ASSUME NEW k \in R PROVE k + 1 \in R
  <2> SUFFICES ASSUME NEW s \in U, rank[s] < n, rank[s] < k + 1 PROVE v[s] = w[s]
    OBVIOUS
  <2>1. ASSUME NEW d \in Deps(s) PROVE v[d] = w[d]
    <3>1. d \in U /\ rank[d] < rank[s] /\ rank[d] \in Nat /\ rank[s] \in Nat /\ k \in Nat
      BY <1>1 DEF Ranked
    <3>2. rank[d] < n /\ rank[d] < k
      BY <3>1
    <3> QED BY <3>1, <3>2
  <2>2. Worth(s, v) = Worth(s, w)
    BY <1>1, <2>1, WorthLocal
  <2> QED BY <2>2 DEF SolvesBelow
<1> HIDE DEF R
<1>4. R \in SUBSET Nat
  BY DEF R
<1>5. R = Nat
  BY <1>2, <1>3, <1>4, NatSetInduction
<1> QED BY <1>1, <1>5 DEF R

LEMMA OneSolution ==
    ASSUME NEW U, NEW rank, Ranked(U, rank), Local, UserKnown
    PROVE  \E val \in Values :
              /\ Solves(U, val)
              /\ \A w \in Values : Solves(U, w) => \A s \in U : w[s] = val[s]
<1> DEFINE below(n) == CHOOSE val : SolvesBelow(U, rank, n, val)
           sol == [s \in Sym |-> below(rank[s] + 1)[s]]
<1>1. rank \in [Sym -> Nat] /\ U \subseteq Sym
  BY DEF Ranked
<1>2. \A n \in Nat : SolvesBelow(U, rank, n, below(n))
  BY PartialSolution
<1> HIDE DEF below
<1>3. sol \in Values
  BY <1>1, <1>2 DEF SolvesBelow, Values
<1>4. ASSUME NEW s \in U PROVE sol[s] = Worth(s, sol)
  <2> DEFINE n == rank[s] + 1
  <2>1. n \in Nat /\ rank[s] < n /\ s \in Sym
    BY <1>1
  <2>2. SolvesBelow(U, rank, n, below(n)) /\ below(n) \in Values
    BY <1>2, <2>1 DEF SolvesBelow
  <2>3. ASSUME NEW d \in Deps(s) PROVE sol[d] = below(n)[d]
    <3> DEFINE m == rank[d] + 1
    <3>1. d \in U /\ d \in Sym
      BY <1>1 DEF Ranked
    <3>2. m \in Nat /\ rank[d] < m /\ m <= n
      BY <1>1, <2>1, <3>1 DEF Ranked
    <3>3. SolvesBelow(U, rank, m, below(m))
      BY <1>2, <3>2
    <3>4. SolvesBelow(U, rank, m, below(n))
      <4>1. \A t \in U : rank[t] < m => rank[t] < n
        BY <1>1, <2>1, <3>2
      <4> QED BY <2>2, <4>1 DEF SolvesBelow
    <3>5. below(m)[d] = below(n)[d]
      BY <3>1, <3>2, <3>3, <3>4, PartialUnique
    <3> QED BY <3>1, <3>5
  <2>4. Worth(s, sol) = Worth(s, below(n))
    <3> HIDE DEF sol
    <3> QED BY <1>3, <2>1, <2>2, <2>3, WorthLocal
  <2>5. sol[s] = below(n)[s]
    BY <2>1
  <2>6. below(n)[s] = Worth(s, below(n))
    BY <2>1, <2>2 DEF SolvesBelow
  <2> QED BY <2>4, <2>5, <2>6
<1> HIDE DEF sol
<1>5. ASSUME NEW w \in Values, Solves(U, w), NEW s \in U PROVE w[s] = sol[s]
  <2>1. rank[s] + 1 \in Nat /\ rank[s] < rank[s] + 1
    BY <1>1
  <2>2. SolvesBelow(U, rank, rank[s] + 1, w) /\ SolvesBelow(U, rank, rank[s] + 1, sol)
    BY <1>3, <1>4, <1>5 DEF SolvesBelow, Solves, Worth
  <2> QED BY <2>1, <2>2, PartialUnique
<1> QED BY <1>3, <1>4, <1>5 DEF Solves, Worth

(* In every state the values that Coherent compares with exist and are     *)
(* unique, for symbols that are ranked by their dependencies.              *)
THEOREM SolutionExists ==
    ASSUME NEW U, NEW rank, Ranked(U, rank), Local
    PROVE  Spec => [](\E val \in Values :
                         /\ Solves(U, val)
                         /\ \A w \in Values : Solves(U, w) => \A s \in U : w[s] = val[s])
<1>1. {} \in GroundedSets
  BY DEF GroundedSets, Grounded
<1>2. TypeOK /\ AllInv => UserKnown
  BY <1>1 DEF TypeOK, AllInv, CalcInv, UserKnown, UserValues
<1>3. UserKnown => \E val \in Values :
                     /\ Solves(U, val)
                     /\ \A w \in Values : Solves(U, w) => \A s \in U : w[s] = val[s]
  BY OneSolution
<1> QED BY <1>2, <1>3, InvInductive, PTL

=============================================================================
