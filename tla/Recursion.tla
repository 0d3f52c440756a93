----------------------------- MODULE Recursion -----------------------------
(***************************************************************************)
(* Functions defined by recursion on a rank, and folds over sequences, for *)
(* any body and any step: the constants are operators, and an instance of  *)
(* this module gives them their definitions.  All may depend on a context  *)
(* c, so that one instance serves a family of functions.                   *)
(***************************************************************************)
EXTENDS NatSets

CONSTANTS
    Dom(_),       \* the domain of the function, in the context c
    rank(_, _),   \* the rank of an argument
    Body(_, _, _),\* what the definition makes of the function and an argument
    Good(_, _, _),\* what is promised of the value for an argument
    Step(_, _, _) \* what a fold makes of its state and an item, in the context c

(* What is of a lower rank than n; and that the body asks the function     *)
(* only for arguments of lower rank than its own, and keeps the promise if *)
(* the values for these do.                                                *)
Below(c, n) == {x \in Dom(c) : rank(c, x) < n}
Ranked(c) == \A x \in Dom(c) : rank(c, x) \in Nat
Local(c) ==
    \A x \in Dom(c) : \A f, g :
        (\A y \in Below(c, rank(c, x)) : f[y] = g[y] /\ Good(c, y, f[y]))
            => Body(c, f, x) = Body(c, g, x) /\ Good(c, x, Body(c, f, x))

(* The function up to rank n.                                              *)
Part(c, n, f) ==
    /\ f = [x \in Below(c, n) |-> Body(c, f, x)]
    /\ \A x \in Below(c, n) : Good(c, x, f[x])

(* Two parts of a function agree where both are defined.                   *)
LEMMA PartsAgree ==
    ASSUME NEW c, Ranked(c), Local(c), NEW n \in Nat, NEW m \in Nat, 
           NEW f, NEW g, Part(c, n, f), Part(c, m, g)
    PROVE  \A x \in Below(c, n) \cap Below(c, m) : f[x] = g[x]
<1> DEFINE Bad == {rank(c, x) : x \in {x \in Below(c, n) \cap Below(c, m) : f[x] # g[x]}}
<1> SUFFICES ASSUME Bad # {} PROVE FALSE
  OBVIOUS
<1>1. Bad \in SUBSET Nat
  BY DEF Ranked, Below
<1>2. PICK r \in Bad : \A q \in Bad : r <= q
  <2> HIDE DEF Bad
  <2> QED BY <1>1, NatLeast
<1>3. PICK x \in Below(c, n) \cap Below(c, m) : f[x] # g[x] /\ r = rank(c, x)
  BY <1>2
<1>4. x \in Dom(c) /\ rank(c, x) \in Nat /\ rank(c, x) < n /\ rank(c, x) < m
  BY <1>3 DEF Below, Ranked
<1>5. ASSUME NEW y \in Below(c, rank(c, x)) PROVE f[y] = g[y] /\ Good(c, y, f[y])
  <2>1. y \in Dom(c) /\ rank(c, y) \in Nat /\ rank(c, y) < rank(c, x)
    BY DEF Below, Ranked
  <2>2. y \in Below(c, n) /\ y \in Below(c, m)
    BY <2>1, <1>4 DEF Below
  <2>3. f[y] # g[y] => rank(c, y) \in Bad
    BY <2>2
  <2>4. f[y] # g[y] => FALSE
    <3> HIDE DEF Bad
    <3> QED BY <2>3, <2>1, <1>2, <1>3, <1>4
  <2> QED BY <2>2, <2>4 DEF Part
<1>6. Body(c, f, x) = Body(c, g, x)
  BY <1>4, <1>5 DEF Local
<1>7. f[x] = Body(c, f, x) /\ g[x] = Body(c, g, x)
  BY <1>3 DEF Part
<1> QED BY <1>3, <1>6, <1>7

(* There is a part for every rank: induction over the ranks.               *)
LEMMA PartsExist ==
    ASSUME NEW c, Ranked(c), Local(c)
    PROVE  \A n \in Nat : \E f : Part(c, n, f)
<1> DEFINE S == {n \in Nat : \E f : Part(c, n, f)}
<1>1. 0 \in S
  <2>1. Below(c, 0) = {}
    BY DEF Below, Ranked
  <2>2. Part(c, 0, [x \in {} |-> x])
    BY <2>1, Zenon DEF Part
  <2> QED BY <2>2
<1>2. ASSUME NEW n \in S PROVE n + 1 \in S
  <2>1. PICK f : Part(c, n, f)
    OBVIOUS
  <2> DEFINE g == [x \in Below(c, n + 1) |-> Body(c, f, x)]
  <2>2. ASSUME NEW x \in Below(c, n) PROVE g[x] = f[x] /\ x \in Below(c, n + 1)
    <3>1. x \in Below(c, n + 1)
      BY DEF Below, Ranked
    <3>2. f[x] = Body(c, f, x)
      BY <2>1 DEF Part
    <3> QED BY <3>1, <3>2
  <2>3. ASSUME NEW x \in Below(c, n + 1)
        PROVE  Body(c, f, x) = Body(c, g, x) /\ Good(c, x, Body(c, f, x))
    <3>1. x \in Dom(c) /\ rank(c, x) \in Nat /\ rank(c, x) <= n
      BY DEF Below, Ranked
    <3>2. ASSUME NEW y \in Below(c, rank(c, x)) PROVE f[y] = g[y] /\ Good(c, y, f[y])
      <4>1. y \in Below(c, n)
        BY <3>1 DEF Below, Ranked
      <4> QED BY <4>1, <2>1, <2>2 DEF Part
    <3> HIDE DEF g
    <3> QED BY <3>1, <3>2 DEF Local
  <2>4. g = [x \in Below(c, n + 1) |-> Body(c, g, x)]
    <3>1. \A x \in Below(c, n + 1) : Body(c, f, x) = Body(c, g, x)
      BY <2>3
    <3>2. [x \in Below(c, n + 1) |-> Body(c, f, x)] = [x \in Below(c, n + 1) |-> Body(c, g, x)]
      <4> HIDE DEF g
      <4> QED BY <3>1
    <3> QED BY <3>2
  <2>5. \A x \in Below(c, n + 1) : Good(c, x, g[x])
    BY <2>3
  <2>6. Part(c, n + 1, g)
    <3> HIDE DEF g
    <3> QED BY <2>4, <2>5 DEF Part
  <2> QED BY <2>6
<1>3. S = Nat
  <2> HIDE DEF S
  <2>1. S \in SUBSET Nat
    BY DEF S
  <2> QED BY <1>1, <1>2, <2>1, NatSetInduction
<1> QED BY <1>3

(* A function defined by recursion on parts of lower rank exists, and what *)
(* is promised of its values, provided that it is of those of lower ranks, *)
(* holds for every argument.  expr.c recurses on the parts of expressions. *)
THEOREM Defined ==
    ASSUME NEW c, Ranked(c), Local(c)
    PROVE  /\ \E f : f = [x \in Dom(c) |-> Body(c, f, x)]
           /\ \A f : f = [x \in Dom(c) |-> Body(c, f, x)] => \A x \in Dom(c) : Good(c, x, f[x])
<1> DEFINE part(n) == CHOOSE f : Part(c, n, f)
<1>1. \A n \in Nat : Part(c, n, part(n))
  BY PartsExist
<1> DEFINE whole == [x \in Dom(c) |-> part(rank(c, x) + 1)[x]]
<1>2. ASSUME NEW x \in Dom(c)
      PROVE  whole[x] = Body(c, whole, x)
  <2> DEFINE n == rank(c, x) + 1
             f == part(n)
  <2>1. n \in Nat /\ rank(c, x) \in Nat /\ x \in Below(c, n)
    BY DEF Ranked, Below
  <2>2. Part(c, n, f)
    BY <2>1, <1>1
  <2>3. f[x] = Body(c, f, x)
    <3> HIDE DEF f
    <3> QED BY <2>1, <2>2 DEF Part
  <2>4. ASSUME NEW y \in Below(c, rank(c, x)) PROVE f[y] = whole[y] /\ Good(c, y, f[y])
    <3>1. y \in Dom(c) /\ rank(c, y) \in Nat /\ rank(c, y) + 1 \in Nat
          /\ y \in Below(c, n) /\ y \in Below(c, rank(c, y) + 1)
      BY <2>1 DEF Ranked, Below
    <3>2. Part(c, rank(c, y) + 1, part(rank(c, y) + 1))
      BY <3>1, <1>1
    <3>3. f[y] = part(rank(c, y) + 1)[y]
      <4> HIDE DEF f, part, n
      <4> QED BY <3>1, <3>2, <2>1, <2>2, PartsAgree
    <3>4. whole[y] = part(rank(c, y) + 1)[y]
      <4> HIDE DEF part
      <4> QED BY <3>1
    <3>5. Good(c, y, f[y])
      <4> HIDE DEF f, n
      <4> QED BY <3>1, <2>2 DEF Part
    <3> QED BY <3>3, <3>4, <3>5
  <2>5. Body(c, f, x) = Body(c, whole, x)
    <3> HIDE DEF f, whole, n
    <3> QED BY <2>4, Zenon DEF Local
  <2>6. whole[x] = f[x]
    <3> HIDE DEF part
    <3> QED OBVIOUS
  <2> QED BY <2>3, <2>5, <2>6, Zenon
<1>3. \E f : f = [x \in Dom(c) |-> Body(c, f, x)]
  <2>1. whole = [x \in Dom(c) |-> whole[x]]
    <3> HIDE DEF part
    <3> QED OBVIOUS
  <2>2. [x \in Dom(c) |-> whole[x]] = [x \in Dom(c) |-> Body(c, whole, x)]
    <3> HIDE DEF whole
    <3> QED BY <1>2
  <2> HIDE DEF whole
  <2> QED BY <2>1, <2>2, Zenon
<1>4. ASSUME NEW f, f = [x \in Dom(c) |-> Body(c, f, x)], NEW z \in Dom(c)
      PROVE  Good(c, z, f[z])
  <2> DEFINE Bad == {rank(c, x) : x \in {x \in Dom(c) : ~Good(c, x, f[x])}}
  <2>0. Bad = {}
    <3> SUFFICES ASSUME Bad # {} PROVE FALSE
      OBVIOUS
    <3>1. Bad \in SUBSET Nat
      BY DEF Ranked
    <3>2. PICK r \in Bad : \A q \in Bad : r <= q
      <4> HIDE DEF Bad
      <4> QED BY <3>1, NatLeast
    <3>3. PICK x \in Dom(c) : ~Good(c, x, f[x]) /\ r = rank(c, x)
      BY <3>2
    <3>4. ASSUME NEW y \in Below(c, rank(c, x)) PROVE Good(c, y, f[y])
      <4>1. y \in Dom(c) /\ rank(c, y) \in Nat /\ rank(c, x) \in Nat /\ rank(c, y) < rank(c, x)
        BY DEF Below, Ranked
      <4>2. ~Good(c, y, f[y]) => rank(c, y) \in Bad
        BY <4>1
      <4> HIDE DEF Bad
      <4> QED BY <4>1, <4>2, <3>2, <3>3
    <3>5. Good(c, x, Body(c, f, x))
      BY <3>4, Zenon DEF Local
    <3>6. f[x] = Body(c, f, x)
      BY <1>4
    <3> QED BY <3>3, <3>5, <3>6
  <2>1. ~Good(c, z, f[z]) => rank(c, z) \in Bad
    OBVIOUS
  <2> QED BY <2>0, <2>1
<1> QED BY <1>3, <1>4

-----------------------------------------------------------------------------
(* The states of the fold over the first n items of s, as Fold of Expr     *)
(* defines them.                                                           *)
Runs(c, base, s, n, f) == f = [k \in 0..n |-> IF k = 0 THEN base ELSE Step(c, f[k - 1], s[k])]

(* Every fold has a run.                                                   *)
LEMMA RunsExist ==
    ASSUME NEW c, NEW base, NEW s
    PROVE  \A n \in Nat : \E f : Runs(c, base, s, n, f)
<1> DEFINE S == {n \in Nat : \E f : Runs(c, base, s, n, f)}
<1>1. 0 \in S
  <2>1. Runs(c, base, s, 0, [k \in 0..0 |-> base])
    BY DEF Runs
  <2> QED BY <2>1
<1>2. ASSUME NEW n \in S PROVE n + 1 \in S
  <2>1. PICK f : Runs(c, base, s, n, f)
    OBVIOUS
  <2> DEFINE g == [k \in 0..(n + 1) |-> IF k = 0 THEN base ELSE Step(c, f[k - 1], s[k])]
  <2>2. ASSUME NEW k \in 0..n PROVE g[k] = f[k]
    BY <2>1 DEF Runs
  <2>3. ASSUME NEW k \in 0..(n + 1)
        PROVE  g[k] = IF k = 0 THEN base ELSE Step(c, g[k - 1], s[k])
    <3>1. g[k] = IF k = 0 THEN base ELSE Step(c, f[k - 1], s[k])
      OBVIOUS
    <3>2. k # 0 => g[k - 1] = f[k - 1]
      <4> HIDE DEF g
      <4> QED BY <2>2
    <3> HIDE DEF g
    <3> QED BY <3>1, <3>2
  <2>4. g = [k \in 0..(n + 1) |-> g[k]]
    OBVIOUS
  <2>5. [k \in 0..(n + 1) |-> g[k]]
          = [k \in 0..(n + 1) |-> IF k = 0 THEN base ELSE Step(c, g[k - 1], s[k])]
    <3> HIDE DEF g
    <3> QED BY <2>3
  <2>6. Runs(c, base, s, n + 1, g)
    <3> HIDE DEF g
    <3> QED BY <2>4, <2>5, Zenon DEF Runs
  <2> QED BY <2>6
<1>3. S = Nat
  <2> HIDE DEF S
  <2>1. S \in SUBSET Nat
    BY DEF S
  <2> QED BY <1>1, <1>2, <2>1, NatSetInduction
<1> QED BY <1>3

(* A fold stays in a set that each of its steps keeps.                     *)
LEMMA RunsStay ==
    ASSUME NEW c, NEW base, NEW s, NEW n \in Nat, NEW f, Runs(c, base, s, n, f),
           NEW S, base \in S, \A k \in 1..n : \A st \in S : Step(c, st, s[k]) \in S
    PROVE  \A k \in 0..n : f[k] \in S
<1> DEFINE K == {k \in Nat : k \in 0..n => f[k] \in S}
<1>1. 0 \in K
  BY DEF Runs
<1>2. ASSUME NEW k \in K PROVE k + 1 \in K
  <2>1. CASE k + 1 \in 0..n
    <3>1. f[k + 1] = Step(c, f[k], s[k + 1])
      BY <2>1 DEF Runs
    <3>2. f[k] \in S /\ k + 1 \in 1..n
      BY <2>1
    <3> QED BY <3>1, <3>2
  <2> QED BY <2>1
<1>3. K = Nat
  <2> HIDE DEF K
  <2>1. K \in SUBSET Nat
    BY DEF K
  <2> QED BY <1>1, <1>2, <2>1, NatSetInduction
<1> QED BY <1>3

(* Two folds whose steps agree end alike.                                  *)
LEMMA RunsUnique ==
    ASSUME NEW c, NEW d, NEW base, NEW s, NEW n \in Nat, NEW f, Runs(c, base, s, n, f),
           NEW g, Runs(d, base, s, n, g),
           NEW S, base \in S, \A k \in 1..n : \A st \in S : Step(c, st, s[k]) \in S,
           \A k \in 1..n : \A st \in S : Step(c, st, s[k]) = Step(d, st, s[k])
    PROVE  f[n] = g[n]
<1> DEFINE K == {k \in Nat : k \in 0..n => f[k] = g[k]}
<1>0. \A k \in 0..n : f[k] \in S
  BY RunsStay
<1>1. 0 \in K
  BY DEF Runs
<1>2. ASSUME NEW k \in K PROVE k + 1 \in K
  <2>1. CASE k + 1 \in 0..n
    <3>1. f[k + 1] = Step(c, f[k], s[k + 1]) /\ g[k + 1] = Step(d, g[k], s[k + 1])
      BY <2>1 DEF Runs
    <3>2. f[k] \in S /\ k + 1 \in 1..n /\ f[k] = g[k]
      BY <2>1, <1>0
    <3> QED BY <3>1, <3>2
  <2> QED BY <2>1
<1>3. K = Nat
  <2> HIDE DEF K
  <2>1. K \in SUBSET Nat
    BY DEF K
  <2> QED BY <1>1, <1>2, <2>1, NatSetInduction
<1> QED BY <1>3

(* The last state of the fold over the first n items of s.                 *)
LastState(c, base, s, n) ==
    (CHOOSE f : f = [k \in 0..n |-> IF k = 0 THEN base ELSE Step(c, f[k - 1], s[k])])[n]

(* A fold has a run that ends in its last state.                           *)
LEMMA Unfolded ==
    ASSUME NEW c, NEW base, NEW s, NEW n \in Nat
    PROVE  \E f : Runs(c, base, s, n, f) /\ LastState(c, base, s, n) = f[n]
<1> DEFINE f == CHOOSE run : Runs(c, base, s, n, run)
<1>1. Runs(c, base, s, n, f)
  BY RunsExist
<1>2. LastState(c, base, s, n) = f[n]
  BY DEF Runs, LastState
<1> HIDE DEF f
<1> QED BY <1>1, <1>2

(* The last state of a fold is in a set that each of its steps keeps.  The *)
(* loops over operands in expr.c are such folds.                           *)
THEOREM Folded ==
    ASSUME NEW c, NEW base, NEW s, NEW n \in Nat, NEW S, base \in S,
           \A k \in 1..n : \A st \in S : Step(c, st, s[k]) \in S
    PROVE  LastState(c, base, s, n) \in S
<1> DEFINE f == CHOOSE run : Runs(c, base, s, n, run)
<1>1. Runs(c, base, s, n, f)
  BY RunsExist
<1>2. \A k \in 0..n : f[k] \in S
  <2> HIDE DEF f
  <2> QED BY <1>1, RunsStay, Zenon
<1>3. f[n] \in S
  <2> HIDE DEF f
  <2> QED BY <1>2
<1> QED BY <1>3 DEF Runs, LastState

(* In the contexts c and d the fold does the same.                         *)
Alike(c, d, base, s, n, S) ==
    /\ base \in S
    /\ \A k \in 1..n : \A st \in S : /\ Step(c, st, s[k]) \in S
                                     /\ Step(c, st, s[k]) = Step(d, st, s[k])

(* Folds whose steps agree have the same last state.                       *)
THEOREM FoldsAgree ==
    ASSUME NEW c, NEW d, NEW base, NEW s, NEW n \in Nat, NEW S,
           Alike(c, d, base, s, n, S)
    PROVE  LastState(c, base, s, n) = LastState(d, base, s, n)
<1> DEFINE f == CHOOSE run : Runs(c, base, s, n, run)
           g == CHOOSE run : Runs(d, base, s, n, run)
<1>0. /\ base \in S
      /\ \A k \in 1..n : \A st \in S : Step(c, st, s[k]) \in S
      /\ \A k \in 1..n : \A st \in S : Step(c, st, s[k]) = Step(d, st, s[k])
  BY DEF Alike
<1>1. Runs(c, base, s, n, f) /\ Runs(d, base, s, n, g)
  BY RunsExist
<1>2. f[n] = g[n]
  <2> HIDE DEF f, g
  <2> QED BY <1>0, <1>1, RunsUnique
<1> QED BY <1>2 DEF Runs, LastState
=============================================================================
