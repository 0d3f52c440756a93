-------------------------- MODULE CheckDeps_proofs --------------------------
(***************************************************************************)
(* Proofs about CheckDeps, for any symbols, choices and Kconfig trees.     *)
(***************************************************************************)
EXTENDS CheckDeps, NatSets, SequenceTheorems, TLAPS

-----------------------------------------------------------------------------
(* Stacks of calls: a call is made, returns, or goes on.                   *)
LEMMA Pushed ==
    ASSUME NEW S \in Seq(Frame), NEW f \in Frame
    PROVE  LET T == Append(S, f) IN
           /\ T \in Seq(Frame)
           /\ Len(T) = Len(S) + 1
           /\ \A i \in 1..Len(S) : T[i] = S[i]
           /\ T[Len(T)] = f
OBVIOUS

LEMMA Popped ==
    ASSUME NEW S \in Seq(Frame), S # << >>
    PROVE  LET T == SubSeq(S, 1, Len(S) - 1) IN
           /\ T \in Seq(Frame)
           /\ Len(T) = Len(S) - 1
           /\ \A i \in 1..Len(T) : T[i] = S[i]
<1> DEFINE n == Len(S)
           T == SubSeq(S, 1, n - 1)
<1>1. n \in Nat \ {0}
  BY EmptySeq
<1>2. \A i \in 1..(n - 1) : S[i] \in Frame
  BY <1>1
<1>3. n - 1 \in Int
  BY <1>1
<1>4. /\ T \in Seq(Frame)
      /\ Len(T) = IF 1 <= n - 1 THEN n - 1 - 1 + 1 ELSE 0
      /\ \A i \in 1..(n - 1 - 1 + 1) : T[i] = S[1 + i - 1]
  BY <1>2, <1>3, SubSeqProperties
<1> HIDE DEF n, T
<1>5. Len(T) = n - 1
  BY <1>1, <1>4
<1>6. ASSUME NEW i \in 1..Len(T) PROVE T[i] = S[i]
  <2>1. i \in 1..(n - 1 - 1 + 1) /\ 1 + i - 1 = i
    BY <1>1, <1>5
  <2>2. T[i] = S[1 + i - 1]
    BY <1>4, <2>1
  <2> QED BY <2>1, <2>2
<1>7. T \in Seq(Frame) /\ Len(T) = n - 1 /\ \A i \in 1..Len(T) : T[i] = S[i]
  BY <1>4, <1>5, <1>6
<1> QED BY <1>7 DEF n, T

LEMMA Edited ==
    ASSUME NEW S \in Seq(Frame), S # << >>, NEW L \in SUBSET Sym
    PROVE  LET T == [S EXCEPT ![Len(S)].left = L] IN
           /\ T \in Seq(Frame)
           /\ Len(T) = Len(S)
           /\ T # << >>
           /\ \A i \in 1..(Len(S) - 1) : T[i] = S[i]
           /\ T[Len(T)] = [S[Len(S)] EXCEPT !.left = L]
<1> DEFINE T == [S EXCEPT ![Len(S)].left = L]
           f == [S[Len(S)] EXCEPT !.left = L]
<1>1. Len(S) \in 1..Len(S) /\ S[Len(S)] \in Frame
  BY EmptySeq
<1>2. f \in Frame
  BY <1>1 DEF Frame
<1>3. T = [S EXCEPT ![Len(S)] = f]
  OBVIOUS
<1> HIDE DEF f
<1>4. T \in Seq(Frame) /\ Len(T) = Len(S)
  BY <1>1, <1>2, <1>3, ExceptSeq
<1>5. \A i \in 1..Len(S) : T[i] = IF i = Len(S) THEN f ELSE S[i]
  BY <1>1, <1>3
<1>6. T # << >>
  BY <1>1, <1>4
<1> HIDE DEF T
<1>7. T[Len(T)] = f
  BY <1>1, <1>4, <1>5
<1>8. \A i \in 1..(Len(S) - 1) : T[i] = S[i]
  BY <1>1, <1>5
<1> QED BY <1>4, <1>6, <1>7, <1>8 DEF T, f

LEMMA TopFrame ==
    ASSUME stack \in Seq(Frame), stack # << >>
    PROVE  /\ Len(stack) \in Nat \ {0}
           /\ Len(stack) \in 1..Len(stack)
           /\ Top = stack[Len(stack)]
           /\ Top \in Frame
           /\ Top.sym \in Sym /\ Top.left \in SUBSET Sym /\ Top.own \in BOOLEAN
<1>1. Len(stack) \in Nat \ {0} /\ Len(stack) \in 1..Len(stack)
  BY EmptySeq
<1>2. stack[Len(stack)] \in Frame
  BY <1>1
<1>3. \A f \in Frame : f.sym \in Sym /\ f.left \in SUBSET Sym /\ f.own \in BOOLEAN
  BY DEF Frame
<1> QED BY <1>1, <1>2, <1>3 DEF Top

LEMMA StartGroup ==
    ASSUME NEW s \in Sym
    PROVE  /\ Start(s) \in Sym
           /\ s \in Group(Start(s))
           /\ Group(s) \in SUBSET Sym
           /\ Choice[Start(s)] = None
           /\ \A t \in Group(Start(s)) : Start(t) = Start(s)
BY ConstantsAssumption DEF Start, Group, Members

-----------------------------------------------------------------------------
(* The types of the variables, whatever the dependencies are.              *)
LEMMA EnterType ==
    ASSUME TypeOK, NEW s \in Sym, NEW rest \in Seq(Frame), Enter(s, rest)
    PROVE  /\ stack' \in Seq(Frame)
           /\ check' \in SUBSET checked'
           /\ checked' \in SUBSET Sym
<1> DEFINE g == Start(s)
           f == [sym |-> g, left |-> deps[g], own |-> TRUE]
<1>1. g \in Sym /\ Group(g) \in SUBSET Sym
  BY StartGroup
<1>2. deps[g] \in SUBSET Sym
  BY <1>1, ConstantsAssumption DEF TypeOK
<1>3. f \in Frame
  BY <1>1, <1>2 DEF Frame
<1>4. stack' = Append(rest, f)
  BY DEF Enter
<1> HIDE DEF f
<1>5. stack' \in Seq(Frame)
  BY <1>3, <1>4
<1> QED BY <1>1, <1>5 DEF Enter, TypeOK

LEMMA FollowedType ==
    ASSUME TypeOK, stack # << >>, NEW d
    PROVE  /\ Followed(d) \in Seq(Frame)
           /\ Followed(d) # << >>
           /\ Len(Followed(d)) = Len(stack)
           /\ \A i \in 1..(Len(stack) - 1) : Followed(d)[i] = stack[i]
           /\ Followed(d)[Len(stack)] = [Top EXCEPT !.left = @ \ {d}]
<1>1. stack \in Seq(Frame)
  BY DEF TypeOK
<1>2. Top.left \ {d} \in SUBSET Sym
  BY <1>1, TopFrame
<1>3. Followed(d) = [stack EXCEPT ![Len(stack)].left = Top.left \ {d}]
  BY DEF Followed, Top
<1> DEFINE L == Top.left \ {d}
           T == [stack EXCEPT ![Len(stack)].left = L]
<1>4. Followed(d) = T
  BY <1>3
<1>5. [Top EXCEPT !.left = @ \ {d}] = [stack[Len(stack)] EXCEPT !.left = L]
  BY DEF Top
<1>6. L \in SUBSET Sym
  BY <1>2
<1> HIDE DEF L
<1>7. /\ T \in Seq(Frame)
      /\ Len(T) = Len(stack)
      /\ T # << >>
      /\ \A i \in 1..(Len(stack) - 1) : T[i] = stack[i]
      /\ T[Len(T)] = [stack[Len(stack)] EXCEPT !.left = L]
  BY <1>1, <1>6, Edited
<1> HIDE DEF T
<1> QED BY <1>4, <1>5, <1>7

LEMMA TypeInit == Init => TypeOK
<1> SUFFICES ASSUME Init PROVE TypeOK
  OBVIOUS
<1>1. stack \in Seq(Frame) /\ rank \in [Sym -> Nat]
  BY DEF Init
<1> QED BY <1>1 DEF Init, TypeOK

LEMMA TypeNext == TypeOK /\ [Next]_vars => TypeOK'
<1> SUFFICES ASSUME TypeOK, [Next]_vars PROVE TypeOK'
  OBVIOUS
<1>0. stack \in Seq(Frame)
  BY DEF TypeOK
<1>1. ASSUME NEW s \in Sym, CheckSymbol(s) PROVE TypeOK'
  <2>1. CASE s \in checked
    BY <1>1, <2>1 DEF TypeOK, CheckSymbol
  <2>2. CASE s \notin checked
    <3>1. Enter(s, stack)
      BY <1>1, <2>2 DEF CheckSymbol
    <3>2. /\ stack' \in Seq(Frame)
          /\ check' \in SUBSET checked'
          /\ checked' \in SUBSET Sym
      BY <1>0, <3>1, EnterType
    <3> QED BY <1>1, <3>2 DEF TypeOK, CheckSymbol
  <2> QED BY <2>1, <2>2
<1>2. ASSUME NEW d \in Sym, Recursive(d) PROVE TypeOK'
  BY <1>2 DEF TypeOK, Recursive
<1>3. ASSUME NEW d \in Sym, Skip(d) PROVE TypeOK'
  <2>1. stack' \in Seq(Frame)
    BY <1>3, FollowedType DEF Skip, Follows
  <2> QED BY <1>3, <2>1 DEF TypeOK, Skip
<1>4. ASSUME NEW d \in Sym, Descend(d) PROVE TypeOK'
  <2>1. Enter(d, Followed(d)) /\ Followed(d) \in Seq(Frame)
    BY <1>4, FollowedType DEF Descend, Follows
  <2>2. /\ stack' \in Seq(Frame)
        /\ check' \in SUBSET checked'
        /\ checked' \in SUBSET Sym
    BY <2>1, EnterType
  <2> QED BY <1>4, <2>2 DEF TypeOK, Descend
<1>5. CASE ToValues
  <2> DEFINE f == [sym |-> Top.sym, own |-> FALSE,
                   left |-> UNION {deps[m] : m \in Members(Top.sym)}]
  <2>1. stack # << >>
    BY <1>5 DEF ToValues
  <2>2. Top.sym \in Sym /\ Pop \in Seq(Frame)
    BY <1>0, <2>1, TopFrame, Popped DEF Pop
  <2>3. deps \in [Sym -> SUBSET Sym] /\ Members(Top.sym) \in SUBSET Sym
    BY ConstantsAssumption DEF TypeOK, Members
  <2>4. UNION {deps[m] : m \in Members(Top.sym)} \in SUBSET Sym
    BY <2>3
  <2>5. f \in Frame
    BY <2>2, <2>4 DEF Frame
  <2>6. stack' = Append(Pop, f)
    BY <1>5 DEF ToValues
  <2> HIDE DEF f
  <2>7. stack' \in Seq(Frame)
    BY <2>2, <2>5, <2>6
  <2>8. rank' \in [Sym -> Nat] /\ clock' \in Nat
    <3>1. rank' = [rank EXCEPT ![Top.sym] = clock] /\ clock' = clock + 1
      BY <1>5 DEF ToValues
    <3>2. rank \in [Sym -> Nat] /\ clock \in Nat
      BY DEF TypeOK
    <3> QED BY <2>2, <3>1, <3>2
  <2> QED BY <1>5, <2>7, <2>8 DEF TypeOK, ToValues
<1>6. CASE Return
  <2>1. stack' \in Seq(Frame)
    BY <1>0, <1>6, Popped DEF Return, Pop
  <2>2. rank' \in [Sym -> Nat] /\ clock' \in Nat
    BY <1>6 DEF TypeOK, Return
  <2> QED BY <1>6, <2>1, <2>2 DEF TypeOK, Return
<1>7. CASE ReturnFound
  <2>1. stack' \in Seq(Frame)
    BY <1>0, <1>7, Popped DEF ReturnFound, Pop
  <2>2. found' \in Sym \cup {None} /\ errors' \in Nat
    BY <1>7 DEF TypeOK, ReturnFound
  <2> QED BY <1>7, <2>1, <2>2 DEF TypeOK, ReturnFound
<1>8. CASE UNCHANGED vars
  BY <1>8 DEF TypeOK, vars
<1> QED BY <1>1, <1>2, <1>3, <1>4, <1>5, <1>6, <1>7, <1>8 DEF Next

(* The variables keep their types: the flags are sets of symbols, the      *)
(* stack holds calls, the error count is a number.                         *)
THEOREM TypeCorrect == Spec => []TypeOK
<1> QED BY TypeInit, TypeNext, PTL DEF Spec
-----------------------------------------------------------------------------
(* What a call has to follow, and the symbols it has flagged SYMBOL_CHECK. *)
Needs(dd, s, own) == IF own THEN dd[s] ELSE UNION {dd[m] : m \in Members(s)}
Open(s, own) == IF own THEN Group(s) ELSE Members(s)

(* The calls are for different symbols, each read by the one before.       *)
StackInv ==
    /\ \A i \in 1..Len(stack) :
          /\ Choice[stack[i].sym] = None
          /\ Group(stack[i].sym) \subseteq checked
          /\ stack[i].left \subseteq Needs(deps, stack[i].sym, stack[i].own)
    /\ \A i, j \in 1..Len(stack) : stack[i].sym = stack[j].sym => i = j
    /\ \A i \in 1..(Len(stack) - 1) : stack[i + 1].sym \in GroupReads[stack[i].sym]

(* SYMBOL_CHECK tells what is on the stack.                                *)
FlagInv ==
    /\ \A s \in Sym :
          s \in check <=> \E i \in 1..Len(stack) : s \in Open(stack[i].sym, stack[i].own)
    /\ \A s \in checked : Group(Start(s)) \subseteq checked
    /\ Sym \ todo \subseteq checked

FoundInv ==
    /\ found # None => reported
    /\ CycleOnStack
    /\ ReportedIsCyclic
    /\ errors = 0

(* Until a cycle is found, what is flagged SYMBOL_CHECKED only has been    *)
(* ranked above its dependencies, and so will be the rest.                 *)
Done == checked \ check
DoneInv ==
    ~reported =>
      /\ \A s \in Done : /\ rank[s] < clock
                         /\ \A d \in deps[s] : d \in Done /\ rank[d] < rank[s]
      /\ \A i \in 1..Len(stack) :
           \A d \in Needs(deps, stack[i].sym, stack[i].own) \ stack[i].left :
             d \in Done \/ (i < Len(stack) /\ Start(d) = stack[i + 1].sym)

IInv == TypeOK /\ StackInv /\ FlagInv /\ FoundInv /\ DoneInv

LEMMA GroupsDisjoint ==
    ASSUME NEW a \in Sym, NEW b \in Sym, Choice[a] = None, Choice[b] = None,
           NEW x \in Group(a), x \in Group(b)
    PROVE  a = b
BY ConstantsAssumption DEF Group, Members

LEMMA OpenInGroup ==
    ASSUME NEW a, NEW own
    PROVE  Open(a, own) \subseteq Group(a)
BY DEF Open, Group

(* What the innermost call follows is read by its symbol; in the values of *)
(* a choice, the choice itself excepted.                                   *)
LEMMA NeedsAreRead ==
    ASSUME TypeOK, NEW s \in Sym, NEW own \in BOOLEAN, NEW d \in Needs(deps, s, own),
           ~own => d # s
    PROVE  d \in Sym /\ Start(d) \in GroupReads[s]
<1>1. deps \in [Sym -> SUBSET Sym] /\ Members(s) \in SUBSET Sym
  BY ConstantsAssumption DEF TypeOK, Members
<1>2. GroupReads[s] = {Start(e) : e \in deps[s] \cup UNION {deps[m] \ {s} : m \in Members(s)}}
  BY DEF GroupReads
<1>3. CASE own
  BY <1>1, <1>2, <1>3 DEF Needs
<1>4. CASE ~own
  <2>1. PICK m \in Members(s) : d \in deps[m]
    BY <1>4 DEF Needs
  <2>2. d \in deps[m] \ {s}
    BY <1>4, <2>1
  <2> QED BY <1>1, <1>2, <2>1, <2>2
<1> QED BY <1>3, <1>4

-----------------------------------------------------------------------------
(* Entering a call keeps the shape of the stack and the flags.             *)
LEMMA PushInv ==
    ASSUME TypeOK, StackInv, FlagInv, NEW s \in Sym, NEW rest \in Seq(Frame),
           Enter(s, rest), s \notin checked, deps' = deps,
           Len(rest) = Len(stack),
           \A i \in 1..Len(stack) : /\ rest[i].sym = stack[i].sym
                                   /\ rest[i].own = stack[i].own
                                   /\ rest[i].left \subseteq stack[i].left,
           stack # << >> => Start(s) \in GroupReads[stack[Len(stack)].sym],
           Sym \ todo' \subseteq checked \cup {s}
    PROVE  StackInv' /\ FlagInv' /\ Group(Start(s)) \cap checked = {}
<1> DEFINE g == Start(s)
           n == Len(stack)
<1>1. /\ g \in Sym /\ s \in Group(g) /\ Group(g) \in SUBSET Sym
      /\ Choice[g] = None /\ \A t \in Group(g) : Start(t) = g
  BY StartGroup
<1>2. n \in Nat /\ stack \in Seq(Frame)
  BY DEF TypeOK
<1>3. [sym |-> g, left |-> deps[g], own |-> TRUE] \in Frame
  <2>1. deps[g] \in SUBSET Sym
    BY <1>1, ConstantsAssumption DEF TypeOK
  <2> QED BY <1>1, <2>1 DEF Frame
<1>4. /\ Len(stack') = n + 1
      /\ \A i \in 1..n : stack'[i] = rest[i]
      /\ stack'[n + 1] = [sym |-> g, left |-> deps[g], own |-> TRUE]
  <2> DEFINE f == [sym |-> g, left |-> deps[g], own |-> TRUE]
  <2>1. stack' = Append(rest, f) /\ f \in Frame
    BY <1>3 DEF Enter
  <2> HIDE DEF f
  <2>2. Len(stack') = n + 1 /\ \A i \in 1..n : stack'[i] = rest[i]
    BY <2>1, Pushed
  <2>3. stack'[n + 1] = f
    BY <2>1, <2>2, Pushed
  <2> QED BY <2>2, <2>3 DEF f
<1>5. check' = check \cup Group(g) /\ checked' = checked \cup Group(g)
  BY DEF Enter
<1>6. Group(g) \cap checked = {}
  <2>1. ASSUME NEW t \in Group(g), t \in checked PROVE FALSE
    <3>1. Group(g) \subseteq checked
      BY <1>1, <2>1 DEF FlagInv
    <3> QED BY <1>1, <3>1
  <2> QED BY <2>1
<1>7. \A i \in 1..n : stack[i] \in Frame /\ stack[i].sym \in Sym /\ stack[i].sym # g
  <2> SUFFICES ASSUME NEW i \in 1..n
               PROVE  stack[i] \in Frame /\ stack[i].sym \in Sym /\ stack[i].sym # g
    OBVIOUS
  <2>1. stack[i] \in Frame /\ stack[i].sym \in Sym
    <3>1. stack[i] \in Frame
      BY <1>2
    <3> QED BY <3>1 DEF Frame
  <2>2. stack[i].sym \in Group(stack[i].sym) /\ Group(stack[i].sym) \subseteq checked
    BY DEF StackInv, Group
  <2>3. g \in Group(g)
    BY DEF Group
  <2> QED BY <1>6, <2>1, <2>2, <2>3
<1> HIDE DEF g
<1>8. StackInv'
  <2>1. ASSUME NEW i \in 1..Len(stack')
        PROVE  /\ Choice[stack'[i].sym] = None
               /\ Group(stack'[i].sym) \subseteq checked'
               /\ stack'[i].left \subseteq Needs(deps', stack'[i].sym, stack'[i].own)
    <3>1. CASE i \in 1..n
      BY <1>4, <1>5, <3>1 DEF StackInv
    <3>2. CASE i = n + 1
      BY <1>1, <1>4, <1>5, <3>2 DEF Needs
    <3> QED BY <1>2, <1>4, <3>1, <3>2
  <2>2. ASSUME NEW i \in 1..Len(stack'), NEW j \in 1..Len(stack'), stack'[i].sym = stack'[j].sym
        PROVE  i = j
    <3>1. CASE i \in 1..n /\ j \in 1..n
      BY <1>4, <2>2, <3>1 DEF StackInv
    <3>2. CASE i = n + 1 \/ j = n + 1
      <4>1. stack'[n + 1].sym = g
        BY <1>4
      <4> QED BY <1>2, <1>4, <1>7, <2>2, <3>2, <4>1
    <3> QED BY <1>2, <1>4, <3>1, <3>2
  <2>3. ASSUME NEW i \in 1..(Len(stack') - 1)
        PROVE  stack'[i + 1].sym \in GroupReads'[stack'[i].sym]
    <3>1. GroupReads' = GroupReads
      BY DEF GroupReads
    <3>2. CASE i < n
      <4>1. i \in 1..n /\ i + 1 \in 1..n /\ i \in 1..(n - 1)
        BY <1>2, <1>4, <3>2
      <4>2. stack'[i].sym = stack[i].sym /\ stack'[i + 1].sym = stack[i + 1].sym
        BY <1>4, <4>1
      <4> QED BY <3>1, <4>1, <4>2 DEF StackInv
    <3>3. CASE i = n
      <4>1. stack # << >> /\ n \in 1..n
        BY <1>2, <3>3
      <4>2. stack'[i].sym = stack[n].sym /\ stack'[i + 1].sym = g
        BY <1>4, <3>3, <4>1
      <4> QED BY <3>1, <4>1, <4>2 DEF g
    <3> QED BY <1>2, <1>4, <3>2, <3>3
  <2> QED BY <2>1, <2>2, <2>3 DEF StackInv
<1>9. FlagInv'
  <2>1. ASSUME NEW t \in Sym
        PROVE  t \in check' <=> \E i \in 1..Len(stack') : t \in Open(stack'[i].sym, stack'[i].own)
    <3>1. (\E i \in 1..Len(stack') : t \in Open(stack'[i].sym, stack'[i].own))
          <=> \/ \E i \in 1..n : t \in Open(stack'[i].sym, stack'[i].own)
              \/ t \in Open(stack'[n + 1].sym, stack'[n + 1].own)
      <4>1. 1..Len(stack') = (1..n) \cup {n + 1}
        BY <1>2, <1>4
      <4> QED BY <4>1
    <3>2. Open(stack'[n + 1].sym, stack'[n + 1].own) = Group(g)
      BY <1>4 DEF Open
    <3>3. (\E i \in 1..n : t \in Open(stack'[i].sym, stack'[i].own))
          <=> \E i \in 1..n : t \in Open(stack[i].sym, stack[i].own)
      BY <1>4
    <3> QED BY <1>5, <3>1, <3>2, <3>3 DEF FlagInv
  <2>2. ASSUME NEW t \in checked' PROVE Group(Start(t)) \subseteq checked'
    <3>1. CASE t \in checked
      BY <1>5, <3>1 DEF FlagInv
    <3>2. CASE t \in Group(g)
      BY <1>1, <1>5, <3>2 DEF g
    <3> QED BY <1>5, <2>2, <3>1, <3>2
  <2>3. Sym \ todo' \subseteq checked'
    BY <1>1, <1>5
  <2> QED BY <2>1, <2>2, <2>3 DEF FlagInv
<1> QED BY <1>6, <1>8, <1>9 DEF g
(* Leaving a call keeps them, too.                                         *)
LEMMA PopInv ==
    ASSUME TypeOK, StackInv, FlagInv, stack # << >>, stack' = Pop,
           check' = check \ Group(Top.sym), checked' = checked, deps' = deps, todo' = todo
    PROVE  /\ StackInv' /\ FlagInv'
           /\ Len(stack') = Len(stack) - 1
           /\ \A i \in 1..Len(stack') : stack'[i] = stack[i]
<1> DEFINE n == Len(stack)
           top == Top.sym
<1>1. /\ n \in Nat \ {0} /\ stack \in Seq(Frame)
      /\ n \in 1..n /\ Top = stack[n] /\ top \in Sym
  BY TopFrame DEF TypeOK
<1>2. Len(stack') = n - 1 /\ \A i \in 1..(n - 1) : stack'[i] = stack[i]
  BY <1>1, Popped DEF Pop
<1>3. 1..n = (1..(n - 1)) \cup {n}
  BY <1>1
<1>4. \A i \in 1..n : stack[i].sym \in Sym
  <2> SUFFICES ASSUME NEW i \in 1..n PROVE stack[i].sym \in Sym
    OBVIOUS
  <2>1. stack[i] \in Frame
    BY <1>1
  <2> QED BY <2>1 DEF Frame
<1>5. GroupReads' = GroupReads
  BY DEF GroupReads
<1>6. StackInv'
  <2>1. \A i \in 1..Len(stack') :
          /\ Choice[stack'[i].sym] = None
          /\ Group(stack'[i].sym) \subseteq checked'
          /\ stack'[i].left \subseteq Needs(deps', stack'[i].sym, stack'[i].own)
    BY <1>2, <1>3 DEF StackInv
  <2>2. \A i, j \in 1..Len(stack') : stack'[i].sym = stack'[j].sym => i = j
    BY <1>2, <1>3 DEF StackInv
  <2>3. \A i \in 1..(Len(stack') - 1) : stack'[i + 1].sym \in GroupReads'[stack'[i].sym]
    <3> SUFFICES ASSUME NEW i \in 1..(Len(stack') - 1)
                 PROVE  stack'[i + 1].sym \in GroupReads'[stack'[i].sym]
      OBVIOUS
    <3>1. i \in 1..(n - 1) /\ i + 1 \in 1..(n - 1)
      BY <1>1, <1>2
    <3> QED BY <1>2, <1>5, <3>1 DEF StackInv
  <2> QED BY <2>1, <2>2, <2>3 DEF StackInv
<1>7. FlagInv'
  <2>1. ASSUME NEW s \in Sym
        PROVE  s \in check' <=> \E i \in 1..Len(stack') : s \in Open(stack'[i].sym, stack'[i].own)
    <3>1. ASSUME NEW i \in 1..(n - 1), s \in Open(stack[i].sym, stack[i].own)
          PROVE  s \notin Group(top)
      <4>1. i \in 1..n /\ stack[i].sym # top
        BY <1>1, <1>3 DEF StackInv
      <4>2. Choice[stack[i].sym] = None /\ Choice[top] = None
        BY <1>1, <4>1 DEF StackInv
      <4> QED BY <1>1, <1>4, <3>1, <4>1, <4>2, GroupsDisjoint, OpenInGroup
    <3>2. Open(stack[n].sym, stack[n].own) \subseteq Group(top)
      BY <1>1, OpenInGroup
    <3>3. s \in check <=> \/ \E i \in 1..(n - 1) : s \in Open(stack[i].sym, stack[i].own)
                          \/ s \in Open(stack[n].sym, stack[n].own)
      BY <1>3 DEF FlagInv
    <3>4. (\E i \in 1..Len(stack') : s \in Open(stack'[i].sym, stack'[i].own))
          <=> \E i \in 1..(n - 1) : s \in Open(stack[i].sym, stack[i].own)
      BY <1>2
    <3> QED BY <3>1, <3>2, <3>3, <3>4
  <2> QED BY <2>1 DEF FlagInv
<1> QED BY <1>2, <1>6, <1>7

(* A symbol on the way back is one of a group on the stack.                *)
LEMMA FlaggedOnStack ==
    ASSUME TypeOK, FlagInv, NEW s \in check
    PROVE  \E i \in 1..Len(stack) : s \in Group(stack[i].sym)
BY OpenInGroup DEF TypeOK, FlagInv

LEMMA PushDone ==
    ASSUME TypeOK, StackInv, DoneInv, NEW s \in Sym, NEW rest \in Seq(Frame),
           Enter(s, rest), Group(Start(s)) \cap checked = {},
           Len(rest) = Len(stack),
           \A i \in 1..Len(stack) : /\ rest[i].sym = stack[i].sym
                                   /\ rest[i].own = stack[i].own,
           \A i \in 1..Len(stack) : \A d \in stack[i].left \ rest[i].left :
               i = Len(stack) /\ Start(d) = Start(s),
           UNCHANGED <<deps, reported, rank, clock>>
    PROVE  DoneInv'
<1> DEFINE g == Start(s)
           n == Len(stack)
           f == [sym |-> g, left |-> deps[g], own |-> TRUE]
<1>1. n \in Nat /\ g \in Sym /\ deps[g] \in SUBSET Sym
  BY StartGroup, ConstantsAssumption DEF TypeOK
<1>2. f \in Frame /\ stack' = Append(rest, f)
  BY <1>1 DEF Frame, Enter
<1> HIDE DEF f
<1>3. Len(stack') = n + 1 /\ (\A i \in 1..n : stack'[i] = rest[i]) /\ stack'[n + 1] = f
  <2>1. Len(stack') = n + 1 /\ \A i \in 1..n : stack'[i] = rest[i]
    BY <1>2, Pushed
  <2>2. stack'[n + 1] = f
    BY <1>2, <2>1, Pushed
  <2> QED BY <2>1, <2>2
<1>4. Done' = Done
  BY DEF Enter, Done
<1> SUFFICES ASSUME ~reported PROVE DoneInv'
  BY DEF DoneInv
<1>5. \A t \in Done' : /\ rank'[t] < clock'
                       /\ \A d \in deps'[t] : d \in Done' /\ rank'[d] < rank'[t]
  BY <1>4 DEF DoneInv
<1>6. ASSUME NEW i \in 1..Len(stack'),
             NEW d \in Needs(deps', stack'[i].sym, stack'[i].own) \ stack'[i].left
      PROVE  d \in Done' \/ (i < Len(stack') /\ Start(d) = stack'[i + 1].sym)
  <2>1. CASE i = n + 1
    BY <1>3, <1>6, <2>1 DEF Needs, f
  <2>2. CASE i \in 1..n /\ d \in stack[i].left
    <3>1. i = n /\ Start(d) = g
      BY <1>3, <1>6, <2>2
    <3> QED BY <1>1, <1>3, <3>1 DEF f
  <2>3. CASE i \in 1..n /\ d \notin stack[i].left
    <3>1. d \in Needs(deps, stack[i].sym, stack[i].own) \ stack[i].left
      BY <1>3, <1>6, <2>3
    <3>2. d \in Done \/ (i < n /\ Start(d) = stack[i + 1].sym)
      BY <2>3, <3>1 DEF DoneInv
    <3>3. CASE d \in Done
      BY <1>4, <3>3
    <3>4. CASE i < n /\ Start(d) = stack[i + 1].sym
      <4>1. i + 1 \in 1..n
        BY <1>1, <2>3, <3>4
      <4> QED BY <1>1, <1>3, <3>4, <4>1
    <3> QED BY <3>2, <3>3, <3>4
  <2> QED BY <1>1, <1>3, <2>1, <2>2, <2>3
<1> QED BY <1>5, <1>6 DEF DoneInv

-----------------------------------------------------------------------------
LEMMA SameReads ==
    ASSUME deps' = deps
    PROVE  GroupReads' = GroupReads
BY DEF GroupReads

LEMMA SameStack ==
    ASSUME StackInv, UNCHANGED <<deps, checked, stack>>
    PROVE  StackInv'
<1>1. GroupReads' = GroupReads
  BY SameReads
<1> QED BY <1>1 DEF StackInv

(* Every step keeps the invariant.                                         *)
LEMMA CheckSymbolInv ==
    ASSUME IInv, NEW s \in Sym, CheckSymbol(s)
    PROVE  StackInv' /\ FlagInv' /\ FoundInv' /\ DoneInv'
<1>1. FoundInv'
  <2>1. found = None /\ found' = found /\ reported' = reported /\ deps' = deps /\ errors' = errors
    BY DEF IInv, FoundInv, CycleOnStack, CheckSymbol
  <2> QED BY <2>1 DEF IInv, FoundInv, CycleOnStack, ReportedIsCyclic, GroupReads
<1>2. CASE s \in checked
  <2>1. /\ UNCHANGED <<deps, check, checked, stack, reported, rank, clock>>
        /\ todo' = todo \ {s}
    BY <1>2 DEF CheckSymbol
  <2>2. StackInv'
    BY <2>1, SameStack DEF IInv
  <2>3. FlagInv'
    BY <1>2, <2>1 DEF IInv, FlagInv
  <2>4. DoneInv'
    BY <2>1 DEF IInv, DoneInv, Done
  <2> QED BY <1>1, <2>2, <2>3, <2>4
<1>3. CASE s \notin checked
  <2>1. /\ Enter(s, stack) /\ stack = << >> /\ stack \in Seq(Frame)
        /\ UNCHANGED <<deps, reported, rank, clock>>
        /\ todo' = todo \ {s}
    BY <1>3 DEF CheckSymbol, IInv, TypeOK
  <2>2. Len(stack) = 0
    BY <2>1
  <2>3. Sym \ todo' \subseteq checked \cup {s}
    BY <2>1 DEF IInv, FlagInv
  <2>4. StackInv' /\ FlagInv' /\ Group(Start(s)) \cap checked = {}
    BY <1>3, <2>1, <2>2, <2>3, PushInv DEF IInv
  <2>5. DoneInv'
    BY <2>1, <2>2, <2>4, PushDone DEF IInv
  <2> QED BY <1>1, <2>4, <2>5
<1> QED BY <1>2, <1>3

(* The search meets a symbol flagged SYMBOL_CHECK: the calls from there up *)
(* are a cycle.                                                            *)
LEMMA RecursiveInv ==
    ASSUME IInv, NEW d \in Sym, Recursive(d)
    PROVE  StackInv' /\ FlagInv' /\ FoundInv' /\ DoneInv'
<1> DEFINE n == Len(stack)
<1>1. /\ UNCHANGED <<deps, todo, check, checked, stack, errors>>
      /\ found' = d /\ reported' = TRUE /\ d \in check /\ d \in Top.left
      /\ stack # << >>
  BY DEF Recursive, Follows
<1>2. StackInv' /\ FlagInv' /\ DoneInv'
  <2>1. StackInv'
    BY <1>1, SameStack DEF IInv
  <2>2. FlagInv'
    BY <1>1 DEF IInv, FlagInv
  <2>3. DoneInv'
    BY <1>1 DEF DoneInv
  <2> QED BY <2>1, <2>2, <2>3
<1>3. PICK k \in 1..n : d \in Group(stack[k].sym)
  BY <1>1, FlaggedOnStack DEF IInv
<1>4. /\ n \in Nat \ {0} /\ n \in 1..n /\ Top = stack[n]
      /\ \A i \in 1..n : stack[i].sym \in Sym /\ stack[i].own \in BOOLEAN
  <2>1. n \in Nat \ {0} /\ n \in 1..n /\ Top = stack[n]
    BY <1>1, TopFrame DEF IInv, TypeOK
  <2>2. \A i \in 1..n : stack[i] \in Frame
    BY DEF IInv, TypeOK
  <2> QED BY <2>1, <2>2 DEF Frame
<1>5. Start(d) = stack[k].sym
  <2>1. Choice[stack[k].sym] = None
    BY <1>3 DEF IInv, StackInv
  <2> QED BY <1>3, <1>4, <2>1, ConstantsAssumption DEF Start, Group, Members
<1>6. Start(d) \in GroupReads[Top.sym]
  <2>1. d \in Needs(deps, Top.sym, Top.own)
    BY <1>1, <1>4 DEF IInv, StackInv
  <2>2. ~Top.own => d # Top.sym
    <3> SUFFICES ASSUME ~Top.own, d = Top.sym PROVE FALSE
      OBVIOUS
    <3>1. PICK i \in 1..n : d \in Open(stack[i].sym, stack[i].own)
      BY <1>1 DEF IInv, FlagInv
    <3>2. d \in Group(stack[i].sym) /\ d \in Group(Top.sym)
      BY <3>1, OpenInGroup DEF Group
    <3>3. Choice[stack[i].sym] = None /\ Choice[Top.sym] = None
      BY <1>4, <3>1 DEF IInv, StackInv
    <3>4. stack[i].sym = Top.sym
      BY <1>4, <3>2, <3>3, GroupsDisjoint
    <3>5. i = n
      BY <1>4, <3>4 DEF IInv, StackInv
    <3>6. d \in Members(Top.sym)
      BY <1>4, <3>1, <3>5 DEF Open
    <3> QED BY <1>4, <3>3, <3>6, ConstantsAssumption DEF Members
  <2> QED BY <1>4, <2>1, <2>2, NeedsAreRead DEF IInv
<1>7. ReportedIsCyclic'
  <2> DEFINE S == {stack[i].sym : i \in k..n}
  <2>1. S \in SUBSET Sym /\ S # {}
    BY <1>4
  <2>2. ASSUME NEW i \in k..n PROVE GroupReads[stack[i].sym] \cap S # {}
    <3>1. CASE i = n
      <4>1. k \in k..n
        BY <1>4
      <4>2. stack[k].sym \in S
        BY <4>1
      <4>3. stack[i] = Top
        BY <1>4, <3>1
      <4> QED BY <1>5, <1>6, <4>2, <4>3
    <3>2. CASE i # n
      <4>1. i \in 1..(n - 1) /\ i + 1 \in k..n
        BY <1>4, <3>2
      <4>2. stack[i + 1].sym \in S
        BY <4>1
      <4>3. stack[i + 1].sym \in GroupReads[stack[i].sym]
        BY <4>1 DEF IInv, StackInv
      <4> QED BY <4>2, <4>3
    <3> QED BY <3>1, <3>2
  <2>3. Cyclic(S, GroupReads)
    BY <2>1, <2>2 DEF Cyclic
  <2>4. GroupReads' = GroupReads
    BY <1>1 DEF GroupReads
  <2> HIDE DEF S
  <2> QED BY <2>1, <2>3, <2>4 DEF ReportedIsCyclic
<1>8. CycleOnStack'
  BY <1>1, <1>3 DEF CycleOnStack
<1> QED BY <1>1, <1>2, <1>7, <1>8 DEF FoundInv, IInv
LEMMA SkipInv ==
    ASSUME IInv, NEW d \in Sym, Skip(d)
    PROVE  StackInv' /\ FlagInv' /\ FoundInv' /\ DoneInv'
<1> DEFINE n == Len(stack)
<1>1. /\ UNCHANGED <<deps, todo, check, checked, found, reported, errors, rank, clock>>
      /\ stack' = Followed(d) /\ stack # << >> /\ d \in Done /\ found = None
  BY DEF Skip, Follows, Done
<1>2. /\ n \in Nat \ {0} /\ n \in 1..n /\ Top = stack[n] /\ Top \in Frame
      /\ 1..n = (1..(n - 1)) \cup {n}
  BY <1>1, TopFrame DEF IInv, TypeOK
<1>3. /\ Len(stack') = n
      /\ \A i \in 1..(n - 1) : stack'[i] = stack[i]
      /\ stack'[n] = [Top EXCEPT !.left = @ \ {d}]
  BY <1>1, FollowedType DEF IInv
<1>4. /\ \A i \in 1..n : stack'[i].sym = stack[i].sym /\ stack'[i].own = stack[i].own
      /\ \A i \in 1..n : stack[i].left \ {d} \subseteq stack'[i].left
      /\ \A i \in 1..n : stack'[i].left \subseteq stack[i].left
  <2>1. /\ stack'[n].sym = Top.sym /\ stack'[n].own = Top.own
        /\ stack'[n].left = Top.left \ {d}
    BY <1>2, <1>3 DEF Frame
  <2> QED BY <1>2, <1>3, <2>1
<1>5. StackInv'
  <2>1. GroupReads' = GroupReads
    BY <1>1, SameReads
  <2>2. \A i \in 1..(n - 1) : i \in 1..n /\ i + 1 \in 1..n
    BY <1>2
  <2> QED BY <1>1, <1>3, <1>4, <2>1, <2>2 DEF IInv, StackInv
<1>6. FlagInv'
  BY <1>1, <1>3, <1>4 DEF IInv, FlagInv
<1>7. FoundInv'
  <2>1. GroupReads' = GroupReads
    BY <1>1, SameReads
  <2> QED BY <1>1, <2>1 DEF IInv, FoundInv, CycleOnStack, ReportedIsCyclic
<1>8. DoneInv'
  <2> SUFFICES ASSUME ~reported PROVE DoneInv'
    BY <1>1 DEF DoneInv
  <2>1. Done' = Done
    BY <1>1 DEF Done
  <2>2. ASSUME NEW i \in 1..n, NEW e \in Needs(deps, stack[i].sym, stack[i].own) \ stack'[i].left
        PROVE  e \in Done \/ (i < n /\ Start(e) = stack'[i + 1].sym)
    <3>1. CASE e = d
      BY <1>1, <3>1
    <3>2. CASE e # d
      <4>1. e \notin stack[i].left
        BY <1>4, <2>2, <3>2
      <4>2. e \in Done \/ (i < n /\ Start(e) = stack[i + 1].sym)
        BY <4>1 DEF IInv, DoneInv
      <4>3. i < n => i + 1 \in 1..n
        BY <1>2
      <4> QED BY <1>4, <4>2, <4>3
    <3> QED BY <3>1, <3>2
  <2> QED BY <1>1, <1>3, <1>4, <2>1, <2>2 DEF IInv, DoneInv
<1> QED BY <1>5, <1>6, <1>7, <1>8

LEMMA DescendInv ==
    ASSUME IInv, NEW d \in Sym, Descend(d)
    PROVE  StackInv' /\ FlagInv' /\ FoundInv' /\ DoneInv'
<1> DEFINE n == Len(stack)
           rest == Followed(d)
<1>1. /\ UNCHANGED <<deps, todo, found, reported, errors, rank, clock>>
      /\ Enter(d, rest) /\ stack # << >> /\ d \in Top.left /\ found = None
      /\ d \notin checked
  BY DEF Descend, Follows
<1>2. /\ n \in Nat \ {0} /\ n \in 1..n /\ Top = stack[n] /\ Top \in Frame
      /\ 1..n = (1..(n - 1)) \cup {n}
  BY <1>1, TopFrame DEF IInv, TypeOK
<1>3. /\ rest \in Seq(Frame) /\ Len(rest) = n
      /\ \A i \in 1..(n - 1) : rest[i] = stack[i]
      /\ rest[n] = [Top EXCEPT !.left = @ \ {d}]
  BY <1>1, FollowedType DEF IInv
<1> HIDE DEF rest
<1>4. \A i \in 1..n : rest[i].sym = stack[i].sym /\ rest[i].own = stack[i].own
                     /\ rest[i].left \subseteq stack[i].left
  <2>1. /\ rest[n].sym = Top.sym /\ rest[n].own = Top.own
        /\ rest[n].left = Top.left \ {d}
    BY <1>2, <1>3 DEF Frame
  <2> QED BY <1>2, <1>3, <2>1
<1>5. \A i \in 1..n : \A e \in stack[i].left \ rest[i].left : i = n /\ Start(e) = Start(d)
  <2>1. rest[n].left = Top.left \ {d}
    BY <1>2, <1>3 DEF Frame
  <2> QED BY <1>2, <1>3, <2>1
<1>6. Start(d) \in GroupReads[Top.sym]
  <2>1. d \in Needs(deps, Top.sym, Top.own) /\ Top.sym \in Sym /\ Top.own \in BOOLEAN
    BY <1>1, <1>2 DEF IInv, StackInv, Frame
  <2>2. Top.sym \in checked
    BY <1>2 DEF IInv, StackInv, Group
  <2> QED BY <1>1, <2>1, <2>2, NeedsAreRead DEF IInv
<1>7. Sym \ todo' \subseteq checked \cup {d}
  BY <1>1 DEF IInv, FlagInv
<1>8. StackInv' /\ FlagInv' /\ Group(Start(d)) \cap checked = {}
  BY <1>1, <1>2, <1>3, <1>4, <1>6, <1>7, PushInv DEF IInv
<1>9. DoneInv'
  BY <1>1, <1>3, <1>4, <1>5, <1>8, PushDone DEF IInv
<1>10. FoundInv'
  <2>1. GroupReads' = GroupReads
    BY <1>1, SameReads
  <2> QED BY <1>1, <2>1 DEF IInv, FoundInv, CycleOnStack, ReportedIsCyclic
<1> QED BY <1>8, <1>9, <1>10

(* Only what the innermost call has flagged is flagged in its group.       *)
LEMMA FlaggedByTop ==
    ASSUME TypeOK, StackInv, FlagInv, stack # << >>
    PROVE  /\ check \cap Group(Top.sym) = Open(Top.sym, Top.own)
           /\ \A i \in 1..(Len(stack) - 1) :
                 Open(stack[i].sym, stack[i].own) \cap Group(Top.sym) = {}
<1> DEFINE n == Len(stack)
<1>1. /\ n \in Nat \ {0} /\ n \in 1..n /\ Top = stack[n]
      /\ 1..n = (1..(n - 1)) \cup {n}
      /\ \A i \in 1..n : stack[i].sym \in Sym
  <2>1. n \in Nat \ {0} /\ n \in 1..n /\ Top = stack[n]
    BY TopFrame DEF TypeOK
  <2>2. \A i \in 1..n : stack[i] \in Frame
    BY DEF TypeOK
  <2> QED BY <2>1, <2>2 DEF Frame
<1>2. ASSUME NEW i \in 1..(n - 1), NEW x \in Open(stack[i].sym, stack[i].own), x \in Group(Top.sym)
      PROVE  FALSE
  <2>1. x \in Group(stack[i].sym)
    BY OpenInGroup
  <2>2. i \in 1..n /\ i # n
    BY <1>1
  <2>3. Choice[stack[i].sym] = None /\ Choice[Top.sym] = None
    BY <1>1, <2>2 DEF StackInv
  <2>4. stack[i].sym = Top.sym
    BY <1>1, <1>2, <2>1, <2>2, <2>3, GroupsDisjoint
  <2> QED BY <1>1, <2>2, <2>4 DEF StackInv
<1>3. Open(Top.sym, Top.own) \subseteq Group(Top.sym) /\ Group(Top.sym) \subseteq Sym
  BY <1>1, OpenInGroup DEF Group, Members
<1>4. ASSUME NEW x \in Group(Top.sym) PROVE x \in check <=> x \in Open(Top.sym, Top.own)
  BY <1>1, <1>2, <1>3 DEF FlagInv
<1> QED BY <1>2, <1>3, <1>4
(* The choice is ranked above what it depends on itself.                   *)
LEMMA ToValuesInv ==
    ASSUME IInv, ToValues
    PROVE  StackInv' /\ FlagInv' /\ FoundInv' /\ DoneInv'
<1> DEFINE n == Len(stack)
           c == Top.sym
           f == [sym |-> c, own |-> FALSE, left |-> UNION {deps[m] : m \in Members(c)}]
<1>1. /\ UNCHANGED <<deps, todo, checked, found, reported, errors>>
      /\ stack # << >> /\ found = None /\ Top.left = {} /\ Top.own
      /\ check' = check \ {c} /\ rank' = [rank EXCEPT ![c] = clock] /\ clock' = clock + 1
      /\ stack' = Append(Pop, f)
  BY DEF ToValues
<1>2. /\ n \in Nat \ {0} /\ n \in 1..n /\ Top = stack[n] /\ c \in Sym
      /\ 1..n = (1..(n - 1)) \cup {n} /\ stack \in Seq(Frame)
  BY <1>1, TopFrame DEF IInv, TypeOK
<1>3. f \in Frame
  <2>1. deps \in [Sym -> SUBSET Sym] /\ Members(c) \in SUBSET Sym
    BY ConstantsAssumption DEF IInv, TypeOK, Members
  <2>2. UNION {deps[m] : m \in Members(c)} \in SUBSET Sym
    BY <2>1
  <2> QED BY <1>2, <2>2 DEF Frame
<1>4. f.sym = c /\ f.own = FALSE /\ f.left = Needs(deps, c, FALSE)
  BY DEF Needs
<1> HIDE DEF f
<1>5. /\ Len(stack') = n /\ stack'[n] = f
      /\ \A i \in 1..(n - 1) : stack'[i] = stack[i]
  <2>1. /\ Pop \in Seq(Frame) /\ Len(Pop) = n - 1
        /\ \A i \in 1..(n - 1) : Pop[i] = stack[i]
    BY <1>1, <1>2, Popped DEF Pop
  <2>2. /\ Len(Append(Pop, f)) = n
        /\ \A i \in 1..(n - 1) : Append(Pop, f)[i] = Pop[i]
    BY <1>2, <1>3, <2>1, Pushed
  <2>3. Append(Pop, f)[n] = f
    BY <1>3, <2>1, <2>2, Pushed
  <2> HIDE DEF n
  <2> QED BY <1>1, <2>1, <2>2, <2>3
<1>6. \A i \in 1..n : stack'[i].sym = stack[i].sym
  BY <1>2, <1>4, <1>5
<1>7. GroupReads' = GroupReads
  BY <1>1, SameReads
<1>8. StackInv'
  <2>1. \A i \in 1..(n - 1) : i \in 1..n /\ i + 1 \in 1..n
    BY <1>2
  <2>2. \A i \in 1..n : stack'[i].left \subseteq Needs(deps, stack'[i].sym, stack'[i].own)
    BY <1>2, <1>4, <1>5 DEF IInv, StackInv
  <2>3. \A i \in 1..Len(stack') :
          /\ Choice[stack'[i].sym] = None
          /\ Group(stack'[i].sym) \subseteq checked'
          /\ stack'[i].left \subseteq Needs(deps', stack'[i].sym, stack'[i].own)
    <3>1. \A i \in 1..n : Choice[stack[i].sym] = None /\ Group(stack[i].sym) \subseteq checked
      BY DEF IInv, StackInv
    <3> QED BY <1>1, <1>5, <1>6, <2>2, <3>1
  <2>4. \A i, j \in 1..Len(stack') : stack'[i].sym = stack'[j].sym => i = j
    <3>1. \A i, j \in 1..n : stack[i].sym = stack[j].sym => i = j
      BY DEF IInv, StackInv
    <3> QED BY <1>5, <1>6, <3>1
  <2>5. \A i \in 1..(Len(stack') - 1) : stack'[i + 1].sym \in GroupReads'[stack'[i].sym]
    <3>1. \A i \in 1..(n - 1) : stack[i + 1].sym \in GroupReads[stack[i].sym]
      BY DEF IInv, StackInv
    <3> QED BY <1>5, <1>6, <1>7, <2>1, <3>1
  <2> QED BY <2>3, <2>4, <2>5 DEF StackInv
<1>9. Choice[c] = None /\ c \notin Members(c) /\ Group(c) \subseteq checked
  <2>1. Choice[c] = None /\ Group(c) \subseteq checked
    BY <1>2 DEF IInv, StackInv
  <2> QED BY <1>2, <2>1, ConstantsAssumption DEF Members
<1>10. check \cap Group(c) = Group(c)
  BY <1>1, FlaggedByTop DEF IInv, Open
<1>11. FlagInv'
  <2>1. ASSUME NEW t \in Sym
        PROVE  t \in check' <=> \E i \in 1..n : t \in Open(stack'[i].sym, stack'[i].own)
    <3>1. \A i \in 1..(n - 1) : c \notin Open(stack[i].sym, stack[i].own)
      BY <1>1, FlaggedByTop DEF IInv, Group
    <3>2. Open(stack[n].sym, stack[n].own) = {c} \cup Members(c)
      BY <1>1, <1>2 DEF Open, Group
    <3>3. Open(stack'[n].sym, stack'[n].own) = Members(c)
      BY <1>4, <1>5 DEF Open
    <3>4. t \in check <=> \/ \E i \in 1..(n - 1) : t \in Open(stack[i].sym, stack[i].own)
                          \/ t \in Open(stack[n].sym, stack[n].own)
      BY <1>2 DEF IInv, FlagInv
    <3>5. (\E i \in 1..n : t \in Open(stack'[i].sym, stack'[i].own))
          <=> \/ \E i \in 1..(n - 1) : t \in Open(stack[i].sym, stack[i].own)
              \/ t \in Open(stack'[n].sym, stack'[n].own)
      BY <1>2, <1>5
    <3> QED BY <1>1, <1>9, <3>1, <3>2, <3>3, <3>4, <3>5
  <2> QED BY <1>1, <1>5, <2>1 DEF IInv, FlagInv
<1>12. FoundInv'
  BY <1>1, <1>7 DEF IInv, FoundInv, CycleOnStack, ReportedIsCyclic
<1>13. DoneInv'
  <2> SUFFICES ASSUME ~reported PROVE DoneInv'
    BY <1>1 DEF DoneInv
  <2>1. Done' = Done \cup {c} /\ c \notin Done
    BY <1>1, <1>9, <1>10 DEF Done, Group
  <2>2. rank \in [Sym -> Nat] /\ clock \in Nat /\ checked \subseteq Sym /\ deps \in [Sym -> SUBSET Sym]
    BY ConstantsAssumption DEF IInv, TypeOK
  <2>3. \A t \in Sym : rank'[t] = IF t = c THEN clock ELSE rank[t]
    BY <1>1, <2>2
  <2>4. ASSUME NEW t \in Done'
        PROVE  rank'[t] < clock' /\ \A d \in deps'[t] : d \in Done' /\ rank'[d] < rank'[t]
    <3>1. CASE t = c
      <4>1. ASSUME NEW d \in deps[c] PROVE d \in Done /\ rank[d] < clock
        <5>1. d \in Needs(deps, stack[n].sym, stack[n].own) \ stack[n].left
          BY <1>1, <1>2 DEF Needs
        <5>2. d \in Done
          BY <1>2, <5>1 DEF IInv, DoneInv
        <5> QED BY <5>2 DEF IInv, DoneInv
      <4>2. Done \subseteq Sym
        BY <2>2 DEF Done
      <4> QED BY <1>1, <1>2, <2>1, <2>2, <2>3, <3>1, <4>1, <4>2
    <3>2. CASE t # c
      <4>1. t \in Done /\ t \in Sym
        BY <2>1, <2>2, <3>2 DEF Done
      <4>2. rank[t] < clock /\ \A d \in deps[t] : d \in Done /\ rank[d] < rank[t]
        BY <4>1 DEF IInv, DoneInv
      <4>3. \A d \in Done : d \in Sym /\ d # c
        BY <2>1, <2>2 DEF Done
      <4>4. rank[t] \in Nat /\ rank'[t] = rank[t] /\ \A d \in deps[t] : rank'[d] = rank[d]
        BY <2>2, <2>3, <3>2, <4>1, <4>2, <4>3
      <4> QED BY <1>1, <2>1, <2>2, <4>2, <4>4
    <3> QED BY <3>1, <3>2
  <2>5. ASSUME NEW i \in 1..n,
               NEW d \in Needs(deps, stack'[i].sym, stack'[i].own) \ stack'[i].left
        PROVE  d \in Done' \/ (i < n /\ Start(d) = stack'[i + 1].sym)
    <3>1. CASE i = n
      BY <1>4, <1>5, <2>5, <3>1
    <3>2. CASE i # n
      <4>1. i \in 1..(n - 1) /\ i + 1 \in 1..n
        BY <1>2, <3>2
      <4>2. d \in Needs(deps, stack[i].sym, stack[i].own) \ stack[i].left
        BY <1>5, <2>5, <4>1
      <4>3. d \in Done \/ (i < n /\ Start(d) = stack[i + 1].sym)
        BY <4>2 DEF IInv, DoneInv
      <4> QED BY <1>6, <2>1, <4>1, <4>3
    <3> QED BY <3>1, <3>2
  <2> QED BY <1>1, <1>5, <2>4, <2>5 DEF DoneInv
<1> QED BY <1>8, <1>11, <1>12, <1>13

(* The symbols of the call that returns are ranked above what they depend  *)
(* on.                                                                     *)
LEMMA ReturnInv ==
    ASSUME IInv, Return
    PROVE  StackInv' /\ FlagInv' /\ FoundInv' /\ DoneInv'
<1> DEFINE n == Len(stack)
           G == Group(Top.sym)
<1>1. /\ UNCHANGED <<deps, todo, checked, found, reported, errors>>
      /\ stack # << >> /\ found = None /\ Top.left = {}
      /\ Top.own => Members(Top.sym) = {}
      /\ check' = check \ G /\ stack' = Pop /\ clock' = clock + 1
      /\ rank' = [s \in Sym |-> IF s \in check \cap G THEN clock ELSE rank[s]]
  BY DEF Return
<1>2. /\ n \in Nat \ {0} /\ n \in 1..n /\ Top = stack[n] /\ Top.sym \in Sym
      /\ 1..n = (1..(n - 1)) \cup {n} /\ Top.own \in BOOLEAN
  BY <1>1, TopFrame DEF IInv, TypeOK
<1>3. /\ StackInv' /\ FlagInv' /\ Len(stack') = n - 1
      /\ \A i \in 1..(n - 1) : stack'[i] = stack[i]
  BY <1>1, PopInv DEF IInv
<1>4. FoundInv'
  <2>1. GroupReads' = GroupReads
    BY <1>1, SameReads
  <2> QED BY <1>1, <2>1 DEF IInv, FoundInv, CycleOnStack, ReportedIsCyclic
<1>5. DoneInv'
  <2> SUFFICES ASSUME ~reported PROVE DoneInv'
    BY <1>1 DEF DoneInv
  <2>1. G \subseteq checked
    BY <1>2 DEF IInv, StackInv
  <2>2. check \cap G = Open(Top.sym, Top.own)
    BY <1>1, FlaggedByTop DEF IInv
  <2>3. Done' = Done \cup (check \cap G) /\ Done \cap check = {} /\ G \subseteq Done'
    BY <1>1, <2>1 DEF Done
  <2>4. rank \in [Sym -> Nat] /\ clock \in Nat /\ checked \subseteq Sym /\ deps \in [Sym -> SUBSET Sym]
    BY ConstantsAssumption DEF IInv, TypeOK
  <2>5. Done \subseteq Sym /\ \A d \in Done : rank[d] < clock /\ rank[d] \in Nat
    BY <2>4 DEF IInv, DoneInv, Done
  <2>6. ASSUME NEW t \in check \cap G, NEW d \in deps[t] PROVE d \in Done
    <3>1. d \in Needs(deps, Top.sym, Top.own)
      <4>1. CASE Top.own
        BY <1>1, <2>2, <4>1 DEF Needs, Open, Group
      <4>2. CASE ~Top.own
        BY <2>2, <4>2 DEF Needs, Open
      <4> QED BY <4>1, <4>2
    <3> QED BY <1>1, <1>2, <3>1 DEF IInv, DoneInv
  <2>7. ASSUME NEW t \in Done'
        PROVE  rank'[t] < clock' /\ \A d \in deps'[t] : d \in Done' /\ rank'[d] < rank'[t]
    <3>1. \A d \in Done : rank'[d] = rank[d]
      BY <1>1, <2>3, <2>5
    <3>2. CASE t \in check \cap G
      <4>1. rank'[t] = clock
        BY <1>1, <2>1, <2>4, <3>2
      <4>2. \A d \in deps[t] : d \in Done
        BY <2>6, <3>2
      <4> QED BY <1>1, <2>3, <2>4, <2>5, <3>1, <4>1, <4>2
    <3>3. CASE t \in Done
      <4>1. \A d \in deps[t] : d \in Done /\ rank[d] < rank[t]
        BY <3>3 DEF IInv, DoneInv
      <4> QED BY <1>1, <2>3, <2>4, <2>5, <3>1, <3>3, <4>1
    <3> QED BY <2>3, <3>2, <3>3
  <2>8. ASSUME NEW i \in 1..(n - 1),
               NEW d \in Needs(deps, stack[i].sym, stack[i].own) \ stack[i].left
        PROVE  d \in Done' \/ (i < n - 1 /\ Start(d) = stack'[i + 1].sym)
    <3>1. i \in 1..n
      BY <1>2
    <3>2. d \in Done \/ (i < n /\ Start(d) = stack[i + 1].sym)
      BY <3>1 DEF IInv, DoneInv
    <3>3. CASE d \in Done
      BY <2>3, <3>3
    <3>4. CASE i = n - 1 /\ Start(d) = stack[n].sym
      <4>1. d \in Sym
        <5>1. stack[i] \in Frame
          BY <3>1 DEF IInv, TypeOK
        <5>2. stack[i].sym \in Sym /\ Members(stack[i].sym) \in SUBSET Sym
          BY <5>1 DEF Frame, Members
        <5> QED BY <2>4, <5>2 DEF Needs
      <4>2. d \in G
        BY <1>2, <3>4, <4>1, StartGroup
      <4> QED BY <2>3, <4>2
    <3>5. CASE i < n - 1 /\ Start(d) = stack[i + 1].sym
      <4>1. i + 1 \in 1..(n - 1)
        BY <1>2, <3>5
      <4> QED BY <1>3, <3>5, <4>1
    <3>6. i = n - 1 \/ i < n - 1
      BY <1>2
    <3>7. i = n - 1 => stack[i + 1] = stack[n]
      BY <1>2
    <3> QED BY <3>2, <3>3, <3>4, <3>5, <3>6, <3>7
  <2>9. \A i \in 1..Len(stack') :
          \A d \in Needs(deps', stack'[i].sym, stack'[i].own) \ stack'[i].left :
            d \in Done' \/ (i < Len(stack') /\ Start(d) = stack'[i + 1].sym)
    <3> SUFFICES ASSUME NEW i \in 1..(n - 1),
                        NEW d \in Needs(deps, stack[i].sym, stack[i].own) \ stack[i].left
                 PROVE  d \in Done' \/ (i < n - 1 /\ Start(d) = stack'[i + 1].sym)
      BY <1>1, <1>3
    <3> QED BY <2>8
  <2> QED BY <2>7, <2>9 DEF DoneInv
<1> QED BY <1>3, <1>4, <1>5

(* On the way back the call that turns the symbol into NULL is always      *)
(* there, so that no error is counted.                                     *)
LEMMA ReturnFoundInv ==
    ASSUME IInv, ReturnFound
    PROVE  StackInv' /\ FlagInv' /\ FoundInv' /\ DoneInv'
<1> DEFINE n == Len(stack)
<1>1. /\ UNCHANGED <<deps, todo, checked, reported, rank, clock>>
      /\ stack # << >> /\ found # None
      /\ check' = check \ Group(Top.sym) /\ stack' = Pop
  BY DEF ReturnFound
<1>2. /\ n \in Nat \ {0} /\ n \in 1..n /\ Top = stack[n]
      /\ 1..n = (1..(n - 1)) \cup {n}
  BY <1>1, TopFrame DEF IInv, TypeOK
<1>3. /\ StackInv' /\ FlagInv' /\ Len(stack') = n - 1
      /\ \A i \in 1..(n - 1) : stack'[i] = stack[i]
  BY <1>1, PopInv DEF IInv
<1>4. reported
  BY <1>1 DEF IInv, FoundInv
<1>5. DoneInv'
  BY <1>1, <1>4 DEF DoneInv
<1>6. ReportedIsCyclic'
  <2>1. GroupReads' = GroupReads
    BY <1>1, SameReads
  <2> QED BY <1>1, <2>1 DEF IInv, FoundInv, ReportedIsCyclic
<1>7. CycleOnStack' /\ errors' = errors
  <2>1. CASE found \in Group(Top.sym)
    BY <2>1 DEF ReturnFound, CycleOnStack
  <2>2. CASE found \notin Group(Top.sym)
    <3>1. PICK i \in 1..n : found \in Group(stack[i].sym)
      BY <1>1 DEF IInv, FoundInv, CycleOnStack
    <3>2. i \in 1..(n - 1) /\ n # 1
      BY <1>2, <2>2, <3>1
    <3>3. found' = found /\ errors' = errors
      BY <2>2, <3>2 DEF ReturnFound
    <3> QED BY <1>3, <3>1, <3>2, <3>3 DEF CycleOnStack
  <2> QED BY <2>1, <2>2
<1>8. FoundInv'
  BY <1>1, <1>4, <1>6, <1>7 DEF IInv, FoundInv
<1> QED BY <1>3, <1>5, <1>8

LEMMA InvInit == Init => IInv
<1> SUFFICES ASSUME Init PROVE IInv
  OBVIOUS
<1>1. TypeOK
  BY TypeInit
<1>2. Len(stack) = 0 /\ 1..Len(stack) = {} /\ 1..(Len(stack) - 1) = {}
  BY DEF Init
<1>3. StackInv /\ FlagInv /\ FoundInv /\ DoneInv
  BY <1>2 DEF Init, StackInv, FlagInv, FoundInv, CycleOnStack, ReportedIsCyclic, DoneInv, Done
<1> QED BY <1>1, <1>3 DEF IInv

LEMMA InvNext == IInv /\ [Next]_vars => IInv'
<1> SUFFICES ASSUME IInv, [Next]_vars PROVE IInv'
  OBVIOUS
<1>0. TypeOK'
  BY TypeNext DEF IInv
<1>1. CASE Next
  <2>1. StackInv' /\ FlagInv' /\ FoundInv' /\ DoneInv'
    BY <1>1, CheckSymbolInv, RecursiveInv, SkipInv, DescendInv, ToValuesInv, ReturnInv,
       ReturnFoundInv DEF Next
  <2> QED BY <1>0, <2>1 DEF IInv
<1>2. CASE UNCHANGED vars
  <2>1. GroupReads' = GroupReads
    BY <1>2, SameReads DEF vars
  <2>2. StackInv'
    BY <1>2, SameStack DEF IInv, vars
  <2>3. FlagInv' /\ FoundInv' /\ DoneInv'
    BY <1>2, <2>1 DEF IInv, FlagInv, FoundInv, CycleOnStack, ReportedIsCyclic, DoneInv, Done, vars
  <2> QED BY <1>0, <2>2, <2>3 DEF IInv
<1> QED BY <1>1, <1>2

LEMMA InvCorrect == Spec => []IInv
BY InvInit, InvNext, PTL DEF Spec

(* The dependencies of what is accepted go down in rank.                   *)
LEMMA AcceptedRanked ==
    ASSUME IInv, Finished, ~reported
    PROVE  /\ rank \in [Sym -> Nat]
           /\ \A s \in Sym : \A d \in deps[s] : rank[d] < rank[s]
<1>1. check = {} /\ Sym \subseteq checked
  BY DEF IInv, TypeOK, FlagInv, Finished
<1>2. \A s \in Sym : s \in Done
  BY <1>1 DEF Done
<1> QED BY <1>2 DEF IInv, TypeOK, DoneInv

-----------------------------------------------------------------------------
(* A Kconfig tree for which sym_check_deps prints nothing has no cyclic    *)
(* dependency, in whatever order the symbol table is walked.               *)
THEOREM AcceptedSafe == Spec => []AcceptedIsAcyclic
<1>1. ASSUME IInv PROVE AcceptedIsAcyclic
  <2> SUFFICES ASSUME Finished, ~reported, NEW S \in SUBSET Sym, Cyclic(S, deps) PROVE FALSE
    BY DEF AcceptedIsAcyclic
  <2>1. rank \in [Sym -> Nat] /\ \A s \in Sym : \A d \in deps[s] : rank[d] < rank[s]
    BY <1>1, AcceptedRanked
  <2> DEFINE R == {rank[s] : s \in S}
  <2>2. R \in SUBSET Nat /\ R # {}
    BY <2>1 DEF Cyclic
  <2>3. PICK x \in R : \A y \in R : x <= y
    <3> HIDE DEF R
    <3> QED BY <2>2, NatLeast
  <2>4. PICK s \in S : rank[s] = x
    BY <2>3
  <2>5. PICK d \in S : d \in deps[s]
    BY DEF Cyclic
  <2>6. rank[d] < rank[s] /\ rank[d] \in R /\ rank[d] \in Nat /\ rank[s] \in Nat
    BY <2>1, <2>5
  <2> QED BY <2>3, <2>4, <2>6
<1> QED BY <1>1, InvCorrect, PTL

(* sym_check_deps prints a cycle only where there is one.                  *)
THEOREM NoFalseAlarm == Spec => []ReportedIsCyclic
<1>1. IInv => ReportedIsCyclic
  BY DEF IInv, FoundInv
<1> QED BY <1>1, InvCorrect, PTL

(* The symbol of a cycle that is found is on the stack until the call for  *)
(* it, or for its choice, returns.                                         *)
THEOREM CycleStaysOnStack == Spec => []CycleOnStack
<1>1. IInv => CycleOnStack
  BY DEF IInv, FoundInv
<1> QED BY <1>1, InvCorrect, PTL

(* zconf.y never counts an error for a cycle: the call that is reached     *)
(* turns the symbol into NULL.                                             *)
THEOREM CyclesNeverCounted == Spec => [](errors = 0)
<1>1. IInv => errors = 0
  BY DEF IInv, FoundInv
<1> QED BY <1>1, InvCorrect, PTL
=============================================================================
