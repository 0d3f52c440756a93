-------------------------- MODULE Conditions_proofs --------------------------
(***************************************************************************)
(* Proofs about what menu_finalize makes of conditions.  First the sets of *)
(* expressions, by how deep they are nested, and what sequences of         *)
(* operands are; then each function of kconfig/expr.c: that it is defined, *)
(* what level its result is of, and what value; then the program that      *)
(* calls them.                                                             *)
(*                                                                         *)
(* Every function of Expr is a recursive function on expressions.  For     *)
(* each of them an instance of Recursion is given its body, with the ranks *)
(* of expressions and what is promised of a result; the theorems of the    *)
(* instance say that the function satisfies its definition and keeps the   *)
(* promise, given that one step of it does: the lemmas ...Made.            *)
(***************************************************************************)
EXTENDS Conditions, NatSets, TLAPS

(* An instance that folds nothing has no step.                             *)
NoStep(c, st, x) == st

-----------------------------------------------------------------------------
(* Expressions of depth n, when normal with no negation but of an atom.    *)
Kinds == {"any", "normal"}
Nots(kind, S) == [op : {"not"}, arg : IF kind = "normal" THEN Atoms ELSE S]
Layer(kind, S) == Atoms \cup Comparisons \cup Nots(kind, S) \cup Trees(S)
Levels[n \in Nat] ==
    [kind \in Kinds |-> IF n = 0 THEN Atoms ELSE Layer(kind, Levels[n - 1][kind])]
Level(kind, n) == Levels[n][kind]

Naturals0(c) == Nat
Itself(c, n) == n
LevelsBody(c, f, n) == [kind \in Kinds |-> IF n = 0 THEN Atoms ELSE Layer(kind, f[n - 1][kind])]
AnyValue(c, x, y) == TRUE
LevelsRec == INSTANCE Recursion
    WITH Dom <- Naturals0, rank <- Itself, Body <- LevelsBody, Good <- AnyValue, Step <- NoStep

USE DEF Kinds

(* The levels satisfy their recursive definition.                          *)
LEMMA LevelsStep ==
    \A kind \in Kinds :
        /\ Level(kind, 0) = Atoms
        /\ \A n \in Nat : Level(kind, n + 1) = Layer(kind, Level(kind, n))
<1>1. LevelsRec!Ranked(0)
  BY DEF LevelsRec!Ranked, Naturals0, Itself
<1>2. LevelsRec!Local(0)
  <2> SUFFICES ASSUME NEW n \in Nat, NEW f, NEW g,
                      \A y \in LevelsRec!Below(0, n) : f[y] = g[y]
               PROVE  LevelsBody(0, f, n) = LevelsBody(0, g, n)
    BY DEF LevelsRec!Local, Naturals0, Itself, AnyValue
  <2>1. n # 0 => f[n - 1] = g[n - 1]
    BY DEF LevelsRec!Below, Naturals0, Itself
  <2> QED BY <2>1, Zenon DEF LevelsBody
<1>3. \E f : f = [n \in Nat |-> LevelsBody(0, f, n)]
  BY <1>1, <1>2, LevelsRec!Defined DEF Naturals0
<1>4. Levels = [n \in Nat |-> LevelsBody(0, Levels, n)]
  BY <1>3 DEF Levels, LevelsBody
<1>5. \A n \in Nat : Levels[n] = LevelsBody(0, Levels, n)
  BY <1>4
<1>6. Levels[0] = [kind \in Kinds |-> Atoms]
  BY <1>5 DEF LevelsBody
<1>7. ASSUME NEW n \in Nat
      PROVE  Levels[n + 1] = [kind \in Kinds |-> Layer(kind, Levels[n][kind])]
  <2>1. n + 1 \in Nat /\ n + 1 # 0 /\ (n + 1) - 1 = n
    OBVIOUS
  <2>2. Levels[n + 1] = LevelsBody(0, Levels, n + 1)
    BY <2>1, <1>5
  <2> QED BY <2>1, <2>2, Zenon DEF LevelsBody
<1> QED BY <1>6, <1>7, Zenon DEF Level

DepthBody(c, f, n) ==
    IF n = 0
    THEN Atoms
    ELSE Atoms \cup Comparisons \cup [op : {"not"}, arg : f[n - 1]]
               \cup Trees(f[n - 1])
DepthRec == INSTANCE Recursion
    WITH Dom <- Naturals0, rank <- Itself, Body <- DepthBody, Good <- AnyValue, Step <- NoStep

(* The depths of Expr are the levels of any expression.                    *)
LEMMA DepthIsLevel == \A n \in Nat : Depth[n] = Level("any", n)
<1>1. DepthRec!Ranked(0)
  BY DEF DepthRec!Ranked, Naturals0, Itself
<1>2. DepthRec!Local(0)
  <2> SUFFICES ASSUME NEW n \in Nat, NEW f, NEW g,
                      \A y \in DepthRec!Below(0, n) : f[y] = g[y]
               PROVE  DepthBody(0, f, n) = DepthBody(0, g, n)
    BY DEF DepthRec!Local, Naturals0, Itself, AnyValue
  <2>1. n # 0 => f[n - 1] = g[n - 1]
    BY DEF DepthRec!Below, Naturals0, Itself
  <2> QED BY <2>1, Zenon DEF DepthBody
<1>3. \E f : f = [n \in Nat |-> DepthBody(0, f, n)]
  BY <1>1, <1>2, DepthRec!Defined DEF Naturals0
<1>4. Depth = [n \in Nat |-> DepthBody(0, Depth, n)]
  BY <1>3 DEF Depth, DepthBody
<1>5. \A n \in Nat : Depth[n] = DepthBody(0, Depth, n)
  BY <1>4
<1> DEFINE S == {n \in Nat : Depth[n] = Level("any", n)}
<1>6. 0 \in S
  BY <1>5, LevelsStep DEF DepthBody
<1>7. ASSUME NEW n \in S PROVE n + 1 \in S
  <2>1. Depth[n + 1] = DepthBody(0, Depth, n + 1)
    BY <1>5
  <2>0. n + 1 \in Nat /\ n + 1 # 0 /\ (n + 1) - 1 = n
    OBVIOUS
  <2>2. DepthBody(0, Depth, n + 1) = Layer("any", Depth[n])
    BY <2>0, Zenon DEF DepthBody, Layer, Nots
  <2>3. Level("any", n + 1) = Layer("any", Level("any", n))
    BY LevelsStep
  <2> QED BY <2>0, <2>1, <2>2, <2>3
<1>8. S = Nat
  <2> HIDE DEF S
  <2>1. S \in SUBSET Nat
    BY DEF S
  <2> QED BY <1>6, <1>7, <2>1, NatSetInduction
<1> QED BY <1>8

Shaped(kind, n, e) ==
    \/ e.op = "sym" /\ e \in Atoms
    \/ n > 0 /\ e.op \in {"eq", "neq"} /\ e \in Comparisons
    \/ /\ n > 0 /\ e.op = "not" /\ e = Not(e.arg)
       /\ e.arg \in Level(kind, n - 1)
       /\ kind = "normal" => e.arg \in Atoms
    \/ /\ n > 0 /\ e.op \in AndOr /\ e = [op |-> e.op, args |-> e.args]
       /\ e.args \in Seq(Level(kind, n - 1))
       /\ Len(e.args) > 1
       /\ \A i \in DOMAIN e.args : e.args[i].op # e.op

(* Symbols are of every level.                                             *)
LEMMA AtomsEverywhere == \A kind \in Kinds, n \in Nat : Atoms \subseteq Level(kind, n)
<1> SUFFICES ASSUME NEW kind \in Kinds, NEW n \in Nat PROVE Atoms \subseteq Level(kind, n)
  OBVIOUS
<1>1. CASE n = 0
  BY <1>1, LevelsStep
<1>2. CASE n # 0
  <2>1. n - 1 \in Nat /\ (n - 1) + 1 = n
    BY <1>2
  <2>2. Level(kind, n) = Layer(kind, Level(kind, n - 1))
    BY <2>1, LevelsStep
  <2> QED BY <2>2 DEF Layer
<1> QED BY <1>1, <1>2

(* What an expression of a level is made of.                               *)
LEMMA Shapes ==
    ASSUME NEW kind \in Kinds, NEW n \in Nat, NEW e \in Level(kind, n)
    PROVE  Shaped(kind, n, e)
<1>1. CASE n = 0
  <2>1. e \in Atoms
    BY <1>1, LevelsStep
  <2>2. e.op = "sym"
    BY <2>1 DEF Atoms
  <2> QED BY <2>1, <2>2 DEF Shaped
<1>2. CASE n # 0
  <2>1. n - 1 \in Nat /\ (n - 1) + 1 = n /\ n > 0
    BY <1>2
  <2>2. e \in Layer(kind, Level(kind, n - 1))
    BY <2>1, LevelsStep
  <2>3. CASE e \in Atoms
    <3>1. e.op = "sym"
      BY <2>3 DEF Atoms
    <3> QED BY <3>1, <2>3 DEF Shaped
  <2>4. CASE e \in Comparisons
    <3>1. e.op \in {"eq", "neq"}
      BY <2>4 DEF Comparisons
    <3> QED BY <3>1, <2>1, <2>4 DEF Shaped
  <2>5. CASE e \in Nots(kind, Level(kind, n - 1))
    <3>1. e.op = "not" /\ e = Not(e.arg) /\ e.arg \in IF kind = "normal" THEN Atoms ELSE Level(kind, n - 1)
      BY <2>5 DEF Nots, Not
    <3>2. e.arg \in Level(kind, n - 1) /\ (kind = "normal" => e.arg \in Atoms)
      BY <2>1, <3>1, AtomsEverywhere
    <3> QED BY <3>1, <3>2, <2>1 DEF Shaped
  <2>6. CASE e \in Trees(Level(kind, n - 1))
    <3>1. /\ e.op \in AndOr /\ e = [op |-> e.op, args |-> e.args]
          /\ e.args \in Seq(Level(kind, n - 1))
          /\ Len(e.args) > 1
          /\ \A i \in DOMAIN e.args : e.args[i].op # e.op
      BY <2>6 DEF Trees
    <3> QED BY <3>1, <2>1 DEF Shaped
  <2> QED BY <2>2, <2>3, <2>4, <2>5, <2>6 DEF Layer
<1> QED BY <1>1, <1>2

(* What is made of expressions of a level is of the next one.              *)
LEMMA Builds ==
    ASSUME NEW kind \in Kinds, NEW n \in Nat
    PROVE  /\ Comparisons \subseteq Level(kind, n + 1)
           /\ \A e \in Atoms : Not(e) \in Level(kind, n + 1)
           /\ \A e \in Level("any", n) : Not(e) \in Level("any", n + 1)
           /\ Trees(Level(kind, n)) \subseteq Level(kind, n + 1)
<1>1. /\ Level(kind, n + 1) = Layer(kind, Level(kind, n))
      /\ Level("any", n + 1) = Layer("any", Level("any", n))
  BY LevelsStep
<1>2. Comparisons \subseteq Level(kind, n + 1) /\ Trees(Level(kind, n)) \subseteq Level(kind, n + 1)
  BY <1>1 DEF Layer
<1>3. \A e \in Level("any", n) : Not(e) \in Nots("any", Level("any", n))
  BY DEF Nots, Not
<1>4. \A e \in Atoms : Not(e) \in Nots(kind, Level(kind, n))
  BY AtomsEverywhere DEF Nots, Not
<1> QED BY <1>1, <1>2, <1>3, <1>4 DEF Layer

(* Trees of more operands are more trees.                                  *)
LEMMA TreesGrow ==
    ASSUME NEW S, NEW T, S \subseteq T
    PROVE  Trees(S) \subseteq Trees(T)
<1> SUFFICES ASSUME NEW e \in Trees(S) PROVE e \in Trees(T)
  OBVIOUS
<1>1. e \in [op : AndOr, args : Seq(S)] /\ e.args \in Seq(S)
  BY DEF Trees
<1>2. e.args \in Seq(T)
  BY <1>1
<1>3. e \in [op : AndOr, args : Seq(T)]
  BY <1>1, <1>2
<1> QED BY <1>3 DEF Trees

(* A level is part of the next one.                                        *)
LEMMA LevelsRise ==
    ASSUME NEW kind \in Kinds, NEW n \in Nat
    PROVE  Level(kind, n) \subseteq Level(kind, n + 1)
<1> DEFINE S == {k \in Nat : Level(kind, k) \subseteq Level(kind, k + 1)}
<1>1. 0 \in S
  BY AtomsEverywhere, LevelsStep
<1>2. ASSUME NEW k \in S PROVE k + 1 \in S
  <2>1. Level(kind, k) \subseteq Level(kind, k + 1)
    OBVIOUS
  <2>2. /\ Level(kind, k + 1) = Layer(kind, Level(kind, k))
        /\ Level(kind, (k + 1) + 1) = Layer(kind, Level(kind, k + 1))
    BY LevelsStep
  <2>3. Trees(Level(kind, k)) \subseteq Trees(Level(kind, k + 1))
    BY <2>1, TreesGrow
  <2>4. Nots(kind, Level(kind, k)) \subseteq Nots(kind, Level(kind, k + 1))
    BY <2>1 DEF Nots
  <2>5. Level(kind, k + 1) \subseteq Level(kind, (k + 1) + 1)
    BY <2>2, <2>3, <2>4 DEF Layer
  <2> QED BY <2>5
<1>3. S = Nat
  <2> HIDE DEF S
  <2>1. S \in SUBSET Nat
    BY DEF S
  <2> QED BY <1>1, <1>2, <2>1, NatSetInduction
<1> QED BY <1>3

(* A level is part of every higher one.                                    *)
LEMMA LevelsNest ==
    ASSUME NEW kind \in Kinds, NEW m \in Nat, NEW n \in Nat, m <= n
    PROVE  Level(kind, m) \subseteq Level(kind, n)
<1> DEFINE S == {d \in Nat : Level(kind, m) \subseteq Level(kind, m + d)}
<1>1. 0 \in S
  OBVIOUS
<1>2. ASSUME NEW d \in S PROVE d + 1 \in S
  <2>1. Level(kind, m + d) \subseteq Level(kind, (m + d) + 1)
    BY LevelsRise
  <2>2. m + (d + 1) = (m + d) + 1
    OBVIOUS
  <2> QED BY <2>1, <2>2
<1>3. S = Nat
  <2> HIDE DEF S
  <2>1. S \in SUBSET Nat
    BY DEF S
  <2> QED BY <1>1, <1>2, <2>1, NatSetInduction
<1>4. n - m \in S /\ m + (n - m) = n
  <2> HIDE DEF S
  <2> QED BY <1>3
<1> QED BY <1>4

(* Normal expressions are expressions.                                     *)
LEMMA NormalOnes ==
    ASSUME NEW n \in Nat
    PROVE  Level("normal", n) \subseteq Level("any", n)
<1> DEFINE S == {k \in Nat : Level("normal", k) \subseteq Level("any", k)}
<1>1. 0 \in S
  BY LevelsStep
<1>2. ASSUME NEW k \in S PROVE k + 1 \in S
  <2>1. Level("normal", k) \subseteq Level("any", k)
    OBVIOUS
  <2>2. /\ Level("normal", k + 1) = Layer("normal", Level("normal", k))
        /\ Level("any", k + 1) = Layer("any", Level("any", k))
    BY LevelsStep
  <2>3. Trees(Level("normal", k)) \subseteq Trees(Level("any", k))
    BY <2>1, TreesGrow
  <2>4. Nots("normal", Level("normal", k)) \subseteq Nots("any", Level("any", k))
    BY AtomsEverywhere DEF Nots
  <2>5. Level("normal", k + 1) \subseteq Level("any", k + 1)
    BY <2>2, <2>3, <2>4 DEF Layer
  <2> QED BY <2>5
<1>3. S = Nat
  <2> HIDE DEF S
  <2>1. S \in SUBSET Nat
    BY DEF S
  <2> QED BY <1>1, <1>2, <2>1, NatSetInduction
<1> QED BY <1>3

-----------------------------------------------------------------------------
(* The least depth of an expression.                                       *)
IsRank(e, n) == e \in Level("any", n) /\ \A m \in Nat : e \in Level("any", m) => n <= m
rk(e) == CHOOSE n \in Nat : IsRank(e, n)

(* An expression has a least level.                                        *)
LEMMA Ranks ==
    ASSUME NEW n \in Nat, NEW e \in Level("any", n)
    PROVE  rk(e) \in Nat /\ rk(e) <= n /\ e \in Level("any", rk(e))
<1> DEFINE S == {m \in Nat : e \in Level("any", m)}
<1>1. S \in SUBSET Nat /\ n \in S
  OBVIOUS
<1>2. PICK m \in S : \A k \in S : m <= k
  <2> HIDE DEF S
  <2> QED BY <1>1, NatLeast
<1>3. m \in Nat /\ IsRank(e, m)
  BY <1>2 DEF IsRank
<1>4. rk(e) \in Nat /\ IsRank(e, rk(e))
  BY <1>3, Zenon DEF rk
<1> QED BY <1>4 DEF IsRank

(* Symbols are of the lowest level.                                        *)
LEMMA AtomRank == \A e \in Atoms : rk(e) = 0
<1> SUFFICES ASSUME NEW e \in Atoms PROVE rk(e) = 0
  OBVIOUS
<1>1. e \in Level("any", 0)
  BY LevelsStep
<1> QED BY <1>1, Ranks

(* The parts of an expression are of lower levels than it.                 *)
LEMMA PartRanks ==
    ASSUME NEW n \in Nat, NEW e \in Level("any", n)
    PROVE  /\ e.op \in AndOr => /\ 0 < rk(e)
                                /\ \A i \in DOMAIN e.args : /\ rk(e.args[i]) < rk(e)
                                                            /\ e.args[i] \in Level("any", n)
           /\ e.op = "not" => rk(e.arg) < rk(e) /\ e.arg \in Level("any", n)
<1> DEFINE m == rk(e)
<1>1. m \in Nat /\ m <= n /\ e \in Level("any", m)
  BY Ranks
<1>2. Shaped("any", m, e)
  <2> HIDE DEF m
  <2> QED BY <1>1, Shapes
<1> HIDE DEF m
<1>3. ASSUME e.op \in AndOr
      PROVE  0 < m /\ \A i \in DOMAIN e.args : rk(e.args[i]) < m /\ e.args[i] \in Level("any", n)
  <2>1. m > 0 /\ e.args \in Seq(Level("any", m - 1))
    BY <1>2, <1>3 DEF Shaped, AndOr
  <2>2. ASSUME NEW i \in DOMAIN e.args
        PROVE  rk(e.args[i]) < m /\ e.args[i] \in Level("any", n)
    <3>1. e.args[i] \in Level("any", m - 1) /\ m - 1 \in Nat
      BY <2>1, <1>1
    <3>2. rk(e.args[i]) <= m - 1 /\ rk(e.args[i]) \in Nat
      BY <3>1, Ranks
    <3>3. Level("any", m - 1) \subseteq Level("any", n)
      BY <3>1, <1>1, LevelsNest
    <3> QED BY <3>1, <3>2, <3>3, <1>1
  <2> QED BY <2>1, <2>2
<1>4. ASSUME e.op = "not" PROVE rk(e.arg) < m /\ e.arg \in Level("any", n)
  <2>1. m > 0 /\ e.arg \in Level("any", m - 1) /\ m - 1 \in Nat
    BY <1>1, <1>2, <1>4 DEF Shaped, AndOr
  <2>2. rk(e.arg) <= m - 1 /\ rk(e.arg) \in Nat
    BY <2>1, Ranks
  <2>3. Level("any", m - 1) \subseteq Level("any", n)
    BY <2>1, <1>1, LevelsNest
  <2> QED BY <2>1, <2>2, <2>3, <1>1
<1> QED BY <1>3, <1>4 DEF m

-----------------------------------------------------------------------------
(* Flattening.                                                             *)
Flat(c, f, i) == IF i = 1 THEN c.ss[i] ELSE f[i - 1] \o c.ss[i]
FlatDom(c) == 1..Len(c.ss)
FlatGood(c, i, s) ==
    /\ s \in Seq(c.S)
    /\ \A k \in DOMAIN s : \E j \in 1..i : \E l \in DOMAIN c.ss[j] : s[k] = c.ss[j][l]
    /\ \A j \in 1..i : \A l \in DOMAIN c.ss[j] : \E k \in DOMAIN s : s[k] = c.ss[j][l]
    /\ (\A j \in 1..i : Len(c.ss[j]) > 0) => Len(s) >= i
FlatRec == INSTANCE Recursion
    WITH Dom <- FlatDom, rank <- Itself, Body <- Flat, Good <- FlatGood, Step <- NoStep

Flattened(S, ss, s) ==
    /\ s \in Seq(S)
    /\ \A k \in DOMAIN s : \E j \in 1..Len(ss) : \E l \in DOMAIN ss[j] : s[k] = ss[j][l]
    /\ \A j \in 1..Len(ss) : \A l \in DOMAIN ss[j] : \E k \in DOMAIN s : s[k] = ss[j][l]
    /\ (\A j \in 1..Len(ss) : Len(ss[j]) > 0) => Len(s) >= Len(ss)

Joined(h, t, s) ==
    /\ \A k \in DOMAIN h : k \in DOMAIN s /\ s[k] = h[k]
    /\ \A l \in DOMAIN t : Len(h) + l \in DOMAIN s /\ s[Len(h) + l] = t[l]
    /\ \A k \in DOMAIN s :
          \/ k \in DOMAIN h /\ s[k] = h[k]
          \/ k - Len(h) \in DOMAIN t /\ s[k] = t[k - Len(h)]

(* The items of two sequences appended are the items of both.              *)
LEMMA Concatenated ==
    ASSUME NEW S, NEW h \in Seq(S), NEW t \in Seq(S)
    PROVE  Joined(h, t, h \o t)
<1> DEFINE s == h \o t
<1>1. /\ s \in Seq(S) /\ Len(s) = Len(h) + Len(t) /\ Len(h) \in Nat /\ Len(t) \in Nat
      /\ DOMAIN s = 1..Len(s) /\ DOMAIN h = 1..Len(h) /\ DOMAIN t = 1..Len(t)
  OBVIOUS
<1>2. \A k \in 1..(Len(h) + Len(t)) : s[k] = IF k <= Len(h) THEN h[k] ELSE t[k - Len(h)]
  OBVIOUS
<1> HIDE DEF s
<1>3. \A k \in DOMAIN h : k \in DOMAIN s /\ s[k] = h[k]
  BY <1>1, <1>2
<1>4. ASSUME NEW l \in DOMAIN t PROVE Len(h) + l \in DOMAIN s /\ s[Len(h) + l] = t[l]
  <2>1. Len(h) + l \in 1..(Len(h) + Len(t)) /\ ~(Len(h) + l <= Len(h)) /\ (Len(h) + l) - Len(h) = l
    BY <1>1
  <2> QED BY <2>1, <1>1, <1>2
<1>5. ASSUME NEW k \in DOMAIN s
      PROVE  \/ k \in DOMAIN h /\ s[k] = h[k]
             \/ k - Len(h) \in DOMAIN t /\ s[k] = t[k - Len(h)]
  BY <1>1, <1>2
<1>6. Joined(h, t, s)
  BY <1>3, <1>4, <1>5 DEF Joined
<1> QED BY <1>6 DEF s

(* The items of a flattened sequence are the items of its sequences.       *)
LEMMA Flattens ==
    ASSUME NEW S, NEW ss \in Seq(Seq(S))
    PROVE  Flattened(S, ss, FlattenSeq(ss))
<1> DEFINE c == [S |-> S, ss |-> ss]
<1>0. Len(ss) \in Nat /\ \A i \in 1..Len(ss) : ss[i] \in Seq(S)
  OBVIOUS
<1>1. CASE Len(ss) = 0
  <2>1. ss = << >> /\ FlattenSeq(ss) = ss
    BY <1>1 DEF FlattenSeq
  <2>2. Flattened(S, << >>, << >>)
    BY DEF Flattened
  <2> QED BY <2>1, <2>2
<1>2. CASE Len(ss) # 0
  <2>1. FlatRec!Ranked(c)
    BY <1>0 DEF FlatRec!Ranked, FlatDom, Itself
  <2>2. FlatRec!Local(c)
    <3> SUFFICES ASSUME NEW i \in 1..Len(ss), NEW f, NEW g,
                        \A y \in FlatRec!Below(c, i) : f[y] = g[y] /\ FlatGood(c, y, f[y])
                 PROVE  Flat(c, f, i) = Flat(c, g, i) /\ FlatGood(c, i, Flat(c, f, i))
      BY DEF FlatRec!Local, FlatDom, Itself
    <3>0. c.ss = ss /\ c.S = S
      OBVIOUS
    <3>1. CASE i = 1
      <4>1. Flat(c, f, i) = ss[1] /\ Flat(c, g, i) = ss[1] /\ ss[1] \in Seq(S)
        BY <3>1, <1>0 DEF Flat
      <4>2. FlatGood(c, 1, ss[1])
        BY <4>1, <3>0 DEF FlatGood
      <4> QED BY <4>1, <4>2, <3>1
    <3>2. CASE i # 1
      <4>1. i - 1 \in 1..Len(ss) /\ i - 1 < i /\ i \in Nat
        BY <3>2, <1>0
      <4>2. i - 1 \in FlatRec!Below(c, i)
        BY <4>1 DEF FlatRec!Below, FlatDom, Itself
      <4>3. f[i - 1] = g[i - 1] /\ FlatGood(c, i - 1, f[i - 1])
        BY <4>2
      <4>4. Flat(c, f, i) = f[i - 1] \o ss[i] /\ Flat(c, g, i) = f[i - 1] \o ss[i]
        BY <3>2, <4>3 DEF Flat
      <4> HIDE DEF c
      <4> DEFINE h == f[i - 1]
                 s == h \o ss[i]
      <4>5. h \in Seq(S) /\ ss[i] \in Seq(S) /\ s \in Seq(S) /\ Len(s) = Len(h) + Len(ss[i])
        BY <4>3, <1>0, <3>0 DEF FlatGood
      <4>6. /\ \A k \in DOMAIN h : k \in DOMAIN s /\ s[k] = h[k]
            /\ \A l \in DOMAIN ss[i] : Len(h) + l \in DOMAIN s /\ s[Len(h) + l] = ss[i][l]
            /\ \A k \in DOMAIN s :
                  \/ k \in DOMAIN h /\ s[k] = h[k]
                  \/ k - Len(h) \in DOMAIN ss[i] /\ s[k] = ss[i][k - Len(h)]
        <5>1. Joined(h, ss[i], s)
          <6>1. h \in Seq(S) /\ ss[i] \in Seq(S)
            BY <4>5
          <6> HIDE DEF h
          <6> QED BY <6>1, Concatenated
        <5> HIDE DEF h, s
        <5> QED BY <5>1, Zenon DEF Joined
      <4>7. FlatGood(c, i - 1, h)
        BY <4>3
      <4> HIDE DEF s, h
      <4>8. \A k \in DOMAIN s : \E j \in 1..i : \E l \in DOMAIN ss[j] : s[k] = ss[j][l]
        <5> SUFFICES ASSUME NEW k \in DOMAIN s
                     PROVE  \E j \in 1..i : \E l \in DOMAIN ss[j] : s[k] = ss[j][l]
          OBVIOUS
        <5>1. CASE k \in DOMAIN h /\ s[k] = h[k]
          <6>1. PICK j \in 1..(i - 1) : \E l \in DOMAIN ss[j] : h[k] = ss[j][l]
            BY <5>1, <4>7, <3>0 DEF FlatGood
          <6>2. j \in 1..i
            BY <4>1
          <6> QED BY <6>1, <6>2, <5>1
        <5>2. CASE k - Len(h) \in DOMAIN ss[i] /\ s[k] = ss[i][k - Len(h)]
          BY <5>2
        <5> QED BY <4>6, <5>1, <5>2
      <4>9. \A j \in 1..i : \A l \in DOMAIN ss[j] : \E k \in DOMAIN s : s[k] = ss[j][l]
        <5> SUFFICES ASSUME NEW j \in 1..i, NEW l \in DOMAIN ss[j]
                     PROVE  \E k \in DOMAIN s : s[k] = ss[j][l]
          OBVIOUS
        <5>1. CASE j = i
          BY <5>1, <4>6
        <5>2. CASE j # i
          <6>1. j \in 1..(i - 1)
            BY <5>2, <4>1
          <6>2. PICK k \in DOMAIN h : h[k] = ss[j][l]
            BY <6>1, <4>7, <3>0 DEF FlatGood
          <6> QED BY <6>2, <4>6
        <5> QED BY <5>1, <5>2
      <4>10. ASSUME \A j \in 1..i : Len(ss[j]) > 0 PROVE Len(s) >= i
        <5>1. \A j \in 1..(i - 1) : Len(ss[j]) > 0
          BY <4>10, <4>1
        <5>2. Len(h) >= i - 1
          BY <5>1, <4>7, <3>0 DEF FlatGood
        <5>3. Len(ss[i]) > 0 /\ Len(ss[i]) \in Nat /\ Len(h) \in Nat
          BY <4>10, <4>5
        <5> QED BY <5>2, <5>3, <4>5, <4>1
      <4>11. FlatGood(c, i, s)
        BY <3>0, <4>5, <4>8, <4>9, <4>10 DEF FlatGood
      <4> QED BY <4>4, <4>11 DEF s, h
    <3> QED BY <3>1, <3>2
  <2> DEFINE flatten == CHOOSE f : f = [i \in 1..Len(ss) |-> Flat(c, f, i)]
  <2>3. /\ \E f : f = [i \in 1..Len(ss) |-> Flat(c, f, i)]
        /\ \A f : f = [i \in 1..Len(ss) |-> Flat(c, f, i)]
                    => \A i \in 1..Len(ss) : FlatGood(c, i, f[i])
    BY <2>1, <2>2, FlatRec!Defined DEF FlatDom
  <2>4. flatten = [i \in 1..Len(ss) |-> Flat(c, flatten, i)]
    BY <2>3
  <2>5. FlatGood(c, Len(ss), flatten[Len(ss)])
    <3> HIDE DEF flatten, c
    <3>1. \A i \in 1..Len(ss) : FlatGood(c, i, flatten[i])
      BY <2>3, <2>4, Zenon
    <3>2. Len(ss) \in 1..Len(ss)
      BY <1>0, <1>2
    <3> QED BY <3>1, <3>2
  <2>6. FlattenSeq(ss) = flatten[Len(ss)]
    BY <1>2 DEF FlattenSeq, Flat
  <2> HIDE DEF flatten
  <2> QED BY <2>5, <2>6 DEF FlatGood, Flattened
<1> QED BY <1>1, <1>2

(* The operator of an expression, and the operands of a tree.              *)
LEMMA Shapes2 ==
    ASSUME NEW kind \in Kinds, NEW n \in Nat, NEW e \in Level(kind, n)
    PROVE  /\ e.op \in {"sym", "eq", "neq", "not", "and", "or"}
           /\ e.op \in AndOr => /\ n > 0 /\ e = [op |-> e.op, args |-> e.args]
                                /\ e.args \in Seq(Level(kind, n - 1))
                                /\ Len(e.args) > 1
                                /\ \A i \in DOMAIN e.args : e.args[i].op # e.op
BY Shapes DEF Shaped, AndOr

(* The leaves of an expression under an operator are no trees of it.       *)
LEMMA LeavesOf ==
    ASSUME NEW kind \in Kinds, NEW n \in Nat, NEW e \in Level(kind, n), NEW op \in AndOr
    PROVE  /\ Leaves(op, e) \in Seq(Level(kind, n))
           /\ Len(Leaves(op, e)) > 0
           /\ \A i \in DOMAIN Leaves(op, e) : Leaves(op, e)[i].op # op
<1>1. CASE e.op = op
  <2>1. /\ e.args \in Seq(Level(kind, n - 1)) /\ n > 0 /\ Len(e.args) > 1
        /\ \A i \in DOMAIN e.args : e.args[i].op # op
    BY <1>1, Shapes2
  <2>2. Level(kind, n - 1) \subseteq Level(kind, n) /\ n - 1 \in Nat
    BY <2>1, LevelsNest
  <2>3. e.args \in Seq(Level(kind, n))
    BY <2>1, <2>2
  <2> QED BY <1>1, <2>1, <2>3 DEF Leaves
<1>2. CASE e.op # op
  <2>1. Leaves(op, e) = << e >>
    BY <1>2 DEF Leaves
  <2> QED BY <2>1, <1>2
<1> QED BY <1>1, <1>2

LeavesAll(op, es) == [i \in DOMAIN es |-> Leaves(op, es[i])]

(* The leaves of all operands, flattened.                                  *)
LEMMA NaryFlat ==
    ASSUME NEW kind \in Kinds, NEW n \in Nat, NEW es \in Seq(Level(kind, n)), NEW op \in AndOr
    PROVE  /\ LeavesAll(op, es) \in Seq(Seq(Level(kind, n)))
           /\ Len(LeavesAll(op, es)) = Len(es)
           /\ DOMAIN es = 1..Len(es)
           /\ Flattened(Level(kind, n), LeavesAll(op, es), FlattenSeq(LeavesAll(op, es)))
<1>1. DOMAIN es = 1..Len(es) /\ Len(es) \in Nat
  OBVIOUS
<1>2. \A i \in DOMAIN es : Leaves(op, es[i]) \in Seq(Level(kind, n))
  BY LeavesOf
<1>3. LeavesAll(op, es) \in Seq(Seq(Level(kind, n))) /\ Len(LeavesAll(op, es)) = Len(es)
  BY <1>1, <1>2 DEF LeavesAll
<1> QED BY <1>1, <1>3, Flattens

(* Joining operands nests by one level at most.                            *)
LEMMA NaryLevel ==
    ASSUME NEW kind \in Kinds, NEW n \in Nat, NEW es \in Seq(Level(kind, n)), NEW op \in AndOr,
           Len(es) > 0
    PROVE  /\ Nary(op, es) \in Level(kind, n + 1)
           /\ Len(es) > 1 => Nary(op, es).op = op
<1>1. CASE Len(es) = 1
  <2>1. Nary(op, es) = es[1] /\ es[1] \in Level(kind, n)
    BY <1>1 DEF Nary
  <2> QED BY <2>1, <1>1, LevelsRise
<1>2. CASE Len(es) # 1
  <2> DEFINE ls == LeavesAll(op, es)
             s == FlattenSeq(ls)
  <2>1. Nary(op, es) = [op |-> op, args |-> s]
    BY <1>2 DEF Nary, LeavesAll
  <2>2. Flattened(Level(kind, n), ls, s) /\ Len(ls) = Len(es) /\ DOMAIN es = 1..Len(es)
    BY NaryFlat
  <2>3. \A i \in 1..Len(es) : ls[i] = Leaves(op, es[i]) /\ es[i] \in Level(kind, n)
    BY DEF LeavesAll
  <2> HIDE DEF s, ls
  <2>4. \A j \in 1..Len(ls) : Len(ls[j]) > 0 /\ \A l \in DOMAIN ls[j] : ls[j][l].op # op
    BY <2>2, <2>3, LeavesOf
  <2>5. s \in Seq(Level(kind, n)) /\ Len(s) > 1
    BY <2>2, <2>4, <1>2 DEF Flattened
  <2>6. \A k \in DOMAIN s : s[k].op # op
    BY <2>2, <2>4 DEF Flattened
  <2>7. [op |-> op, args |-> s] \in Trees(Level(kind, n))
    BY <2>5, <2>6 DEF Trees
  <2> QED BY <2>1, <2>7, Builds
<1> QED BY <1>1, <1>2

-----------------------------------------------------------------------------
(* The expressions, by their levels.                                       *)
LEMMA ExprsLevel == Exprs = Level("any", MaxDepth) /\ MaxDepth \in Nat
BY DepthIsLevel, DepthAssumption DEF Exprs

(* What an expression is made of are expressions of lower ranks.           *)
LEMMA ExprParts ==
    ASSUME NEW e \in Exprs
    PROVE  /\ rk(e) \in Nat
           /\ e.op \in {"sym", "eq", "neq", "not", "and", "or"}
           /\ e # Null
           /\ e.op = "sym" => e \in Atoms
           /\ e.op \in {"eq", "neq"} => e \in Comparisons
           /\ e.op = "not" => e = Not(e.arg) /\ e.arg \in Exprs /\ rk(e.arg) < rk(e)
           /\ e.op \in AndOr => /\ e = [op |-> e.op, args |-> e.args]
                                /\ e.args \in Seq(Exprs)
                                /\ Len(e.args) > 1
                                /\ \A i \in DOMAIN e.args : /\ e.args[i] \in Exprs
                                                            /\ rk(e.args[i]) < rk(e)
                                                            /\ e.args[i].op # e.op
<1>1. e \in Level("any", MaxDepth) /\ MaxDepth \in Nat
  BY ExprsLevel
<1>2. Shaped("any", MaxDepth, e) /\ rk(e) \in Nat
  BY <1>1, Shapes, Ranks
<1>3. /\ e.op \in AndOr => /\ 0 < rk(e)
                           /\ \A i \in DOMAIN e.args : /\ rk(e.args[i]) < rk(e)
                                                       /\ e.args[i] \in Level("any", MaxDepth)
      /\ e.op = "not" => rk(e.arg) < rk(e) /\ e.arg \in Level("any", MaxDepth)
  BY <1>1, PartRanks
<1>4. e.op \in {"sym", "eq", "neq", "not", "and", "or"} /\ e # Null
  BY <1>2 DEF Shaped, AndOr, Null
<1>5. (e.op = "sym" => e \in Atoms) /\ (e.op \in {"eq", "neq"} => e \in Comparisons)
  BY <1>2 DEF Shaped, AndOr
<1>6. e.op = "not" => e = Not(e.arg) /\ e.arg \in Exprs /\ rk(e.arg) < rk(e)
  BY <1>2, <1>3, ExprsLevel DEF Shaped, AndOr
<1>7. ASSUME e.op \in AndOr
      PROVE  /\ e = [op |-> e.op, args |-> e.args]
             /\ e.args \in Seq(Exprs)
             /\ Len(e.args) > 1
             /\ \A i \in DOMAIN e.args : /\ e.args[i] \in Exprs
                                         /\ rk(e.args[i]) < rk(e)
                                         /\ e.args[i].op # e.op
  <2>1. /\ e = [op |-> e.op, args |-> e.args]
        /\ MaxDepth > 0
        /\ e.args \in Seq(Level("any", MaxDepth - 1))
        /\ Len(e.args) > 1
        /\ \A i \in DOMAIN e.args : e.args[i].op # e.op
    BY <1>2, <1>7 DEF Shaped, AndOr
  <2>2. Level("any", MaxDepth - 1) \subseteq Level("any", MaxDepth)
    BY <2>1, <1>1, LevelsNest
  <2>3. e.args \in Seq(Exprs)
    BY <2>1, <2>2, ExprsLevel
  <2>4. \A i \in DOMAIN e.args : e.args[i] \in Exprs /\ rk(e.args[i]) < rk(e)
    BY <1>3, <1>7, ExprsLevel
  <2> QED BY <2>1, <2>3, <2>4
<1> QED BY <1>2, <1>4, <1>5, <1>6, <1>7

(* Symbols are expressions.                                                *)
LEMMA AtomsAreExprs == Atoms \subseteq Exprs /\ Y \in Atoms /\ N \in Atoms
<1>1. Atoms \subseteq Exprs
  BY ExprsLevel, AtomsEverywhere
<1>2. Y \in Atoms /\ N \in Atoms
  BY DEF Y, N, Atoms, expr_alloc_symbol, Names, Const
<1> QED BY <1>1, <1>2

condRank(c, e) == IF e = Null THEN 0 ELSE rk(e)
CondDom(c) == Conds
ExprDom(c) == Exprs
exprRank(c, e) == rk(e)

(* Conditions have ranks.                                                  *)
LEMMA CondRanks ==
    ASSUME NEW e \in Conds
    PROVE  condRank(0, e) \in Nat /\ (e \in Exprs => condRank(0, e) = rk(e))
BY ExprParts DEF Conds, condRank

-----------------------------------------------------------------------------
(* Values                                                                  *)
CalcBody(c, f, e) ==
    [v \in Values |->
        IF e.op = "null" THEN yes
        ELSE IF e.op = "sym" THEN ValueOf(e.sym, v)
        ELSE IF e.op = "not" THEN 2 - f[e.arg][v]
        ELSE IF e.op = "and"
             THEN Min({f[e.args[i]][v] : i \in DOMAIN e.args})
        ELSE IF e.op = "or"
             THEN Max({f[e.args[i]][v] : i \in DOMAIN e.args})
        ELSE IF (ValueOf(e.sym, v) = ValueOf(e.val, v)) = (e.op = "eq") THEN yes
        ELSE no]
CalcGood(c, e, x) == x \in [Values -> 0..2]
CalcRec == INSTANCE Recursion
    WITH Dom <- CondDom, rank <- condRank, Body <- CalcBody, Good <- CalcGood, Step <- NoStep

(* The least and the greatest of a set of values.                          *)
LEMMA MinMax ==
    ASSUME NEW S \in SUBSET (0..2), S # {}
    PROVE  /\ Min(S) \in S /\ \A x \in S : Min(S) <= x
           /\ Max(S) \in S /\ \A x \in S : x <= Max(S)
<1>1. \E x \in S : \A y \in S : x <= y
  BY NatLeast
<1>2. \E x \in S : \A y \in S : y <= x
  BY NatGreatest
<1>3. \E x \in S : \A y \in S : x >= y
  BY <1>2
<1>4. Min(S) \in S /\ \A x \in S : Min(S) <= x
  BY <1>1 DEF Min
<1>5. Max(S) \in S /\ \A x \in S : Max(S) >= x
  BY <1>3 DEF Max
<1> QED BY <1>4, <1>5

(* A symbol or constant has one of the three values.                       *)
LEMMA NameValues ==
    ASSUME NEW s \in Names, NEW v \in Values
    PROVE  ValueOf(s, v) \in 0..2
BY DEF Names, Values, ValueOf, Const, no, mod, yes

CalcIs(e) ==
    /\ expr_calc_value[e] \in [Values -> 0..2]
    /\ expr_calc_value[e] = CalcBody(0, expr_calc_value, e)

(* expr_calc_value satisfies its recursive definition, for every           *)
(* condition, and its values are 0, 1 and 2.                               *)
LEMMA Calculated == \A e \in Conds : CalcIs(e)
<1>1. CalcRec!Ranked(0)
  BY CondRanks DEF CalcRec!Ranked, CondDom
<1>2. CalcRec!Local(0)
  <2> SUFFICES ASSUME NEW e \in Conds, NEW f, NEW g,
                      \A y \in CalcRec!Below(0, condRank(0, e)) :
                          f[y] = g[y] /\ f[y] \in [Values -> 0..2]
               PROVE  CalcBody(0, f, e) = CalcBody(0, g, e) /\ CalcBody(0, f, e) \in [Values -> 0..2]
    BY DEF CalcRec!Local, CondDom, CalcGood
  <2>0. e = Null => e.op = "null"
    BY DEF Null
  <2>1. CASE e = Null
    <3>1. CalcBody(0, f, e) = [v \in Values |-> yes] /\ CalcBody(0, g, e) = [v \in Values |-> yes]
      BY <2>1, <2>0 DEF CalcBody
    <3> QED BY <3>1 DEF yes
  <2>2. CASE e \in Exprs /\ e.op = "sym"
    <3>1. e.sym \in Names
      BY <2>2, ExprParts DEF Atoms
    <3>2. CalcBody(0, f, e) = [v \in Values |-> ValueOf(e.sym, v)]
          /\ CalcBody(0, g, e) = [v \in Values |-> ValueOf(e.sym, v)]
      BY <2>2 DEF CalcBody
    <3> QED BY <3>1, <3>2, NameValues
  <2>3. CASE e \in Exprs /\ e.op = "not"
    <3>1. e.arg \in CalcRec!Below(0, condRank(0, e))
      BY <2>3, ExprParts, CondRanks DEF CalcRec!Below, CondDom, Conds
    <3>2. f[e.arg] = g[e.arg] /\ f[e.arg] \in [Values -> 0..2]
      BY <3>1
    <3>3. CalcBody(0, f, e) = [v \in Values |-> 2 - f[e.arg][v]]
          /\ CalcBody(0, g, e) = [v \in Values |-> 2 - g[e.arg][v]]
      BY <2>3 DEF CalcBody
    <3>4. \A v \in Values : 2 - f[e.arg][v] \in 0..2
      BY <3>2
    <3> QED BY <3>2, <3>3, <3>4
  <2>4. CASE e \in Exprs /\ e.op \in AndOr
    <3>1. \A i \in DOMAIN e.args : e.args[i] \in CalcRec!Below(0, condRank(0, e))
      BY <2>4, ExprParts, CondRanks DEF CalcRec!Below, CondDom, Conds
    <3>2. \A i \in DOMAIN e.args : f[e.args[i]] = g[e.args[i]] /\ f[e.args[i]] \in [Values -> 0..2]
      BY <3>1
    <3>3. \A v \in Values : {f[e.args[i]][v] : i \in DOMAIN e.args} = {g[e.args[i]][v] : i \in DOMAIN e.args}
      BY <3>2
    <3>4. 1 \in DOMAIN e.args
      BY <2>4, ExprParts
    <3>5. \A v \in Values : /\ {f[e.args[i]][v] : i \in DOMAIN e.args} \in SUBSET (0..2)
                            /\ {f[e.args[i]][v] : i \in DOMAIN e.args} # {}
      BY <3>2, <3>4
    <3>6. \A v \in Values : /\ Min({f[e.args[i]][v] : i \in DOMAIN e.args}) \in 0..2
                            /\ Max({f[e.args[i]][v] : i \in DOMAIN e.args}) \in 0..2
      BY <3>5, MinMax
    <3>7. CASE e.op = "and"
      <4>1. CalcBody(0, f, e) = [v \in Values |-> Min({f[e.args[i]][v] : i \in DOMAIN e.args})]
            /\ CalcBody(0, g, e) = [v \in Values |-> Min({g[e.args[i]][v] : i \in DOMAIN e.args})]
        BY <3>7 DEF CalcBody
      <4> QED BY <4>1, <3>3, <3>6
    <3>8. CASE e.op = "or"
      <4>1. CalcBody(0, f, e) = [v \in Values |-> Max({f[e.args[i]][v] : i \in DOMAIN e.args})]
            /\ CalcBody(0, g, e) = [v \in Values |-> Max({g[e.args[i]][v] : i \in DOMAIN e.args})]
        BY <3>8 DEF CalcBody
      <4> QED BY <4>1, <3>3, <3>6
    <3> QED BY <2>4, <3>7, <3>8 DEF AndOr
  <2>5. CASE e \in Exprs /\ e.op \in {"eq", "neq"}
    <3>1. CalcBody(0, f, e) = [v \in Values |-> IF (ValueOf(e.sym, v) = ValueOf(e.val, v)) = (e.op = "eq")
                      THEN yes ELSE no]
          /\ CalcBody(0, g, e) = [v \in Values |-> IF (ValueOf(e.sym, v) = ValueOf(e.val, v)) = (e.op = "eq")
                      THEN yes ELSE no]
      BY <2>5 DEF CalcBody
    <3> QED BY <3>1 DEF yes, no
  <2> QED BY <2>1, <2>2, <2>3, <2>4, <2>5, ExprParts DEF Conds, AndOr
<1>3. /\ \E f : f = [e \in Conds |-> CalcBody(0, f, e)]
      /\ \A f : f = [e \in Conds |-> CalcBody(0, f, e)] => \A e \in Conds : f[e] \in [Values -> 0..2]
  BY <1>1, <1>2, CalcRec!Defined DEF CondDom, CalcGood
<1>4. expr_calc_value = [e \in Conds |-> CalcBody(0, expr_calc_value, e)]
  <2> DEFINE h == CHOOSE f : f = [e \in Conds |-> CalcBody(0, f, e)]
  <2>1. h = [e \in Conds |-> CalcBody(0, h, e)]
    BY <1>3, Zenon
  <2>2. expr_calc_value = h
    BY DEF expr_calc_value, CalcBody
  <2> HIDE DEF h
  <2> QED BY <2>1, <2>2, Zenon
<1>5. \A e \in Conds : expr_calc_value[e] \in [Values -> 0..2]
  BY <1>3, <1>4, Zenon
<1>6. \A e \in Conds : expr_calc_value[e] = CalcBody(0, expr_calc_value, e)
  BY <1>4, Zenon
<1> QED BY <1>5, <1>6 DEF CalcIs

(* The value of e is at least t.                                           *)
T(e, v, t) == expr_calc_value[e][v] >= t
Holds(op, l, v, t) ==
    IF op = "and" THEN \A i \in DOMAIN l : T(l[i], v, t) ELSE \E i \in DOMAIN l : T(l[i], v, t)

(* A condition has one of the three values.                                *)
LEMMA ValueRange ==
    ASSUME NEW e \in Conds, NEW v \in Values
    PROVE  expr_calc_value[e][v] \in 0..2
<1>1. expr_calc_value[e] \in [Values -> 0..2]
  BY Calculated DEF CalcIs
<1> QED BY <1>1

(* Two conditions that reach the same values have the same value.          *)
LEMMA SameValue ==
    ASSUME NEW e \in Conds, NEW f \in Conds, NEW v \in Values, NEW w \in Values
    PROVE  (\A t \in 1..2 : T(e, v, t) <=> T(f, w, t)) <=> expr_calc_value[e][v] = expr_calc_value[f][w]
<1>1. expr_calc_value[e][v] \in 0..2 /\ expr_calc_value[f][w] \in 0..2
  BY ValueRange
<1> QED BY <1>1 DEF T

(* A missing condition is y.                                               *)
LEMMA NullHolds ==
    ASSUME NEW v \in Values, NEW t \in 1..2
    PROVE  T(Null, v, t)
<1>1. expr_calc_value[Null] = CalcBody(0, expr_calc_value, Null) /\ Null.op = "null"
  BY Calculated DEF CalcIs, Conds, Null
<1>2. expr_calc_value[Null][v] = yes
  BY <1>1, Zenon DEF CalcBody
<1> QED BY <1>2 DEF T, yes

(* A symbol reaches what its value reaches.                                *)
LEMMA SymHolds ==
    ASSUME NEW e \in Atoms, NEW v \in Values
    PROVE  /\ expr_calc_value[e][v] = ValueOf(e.sym, v)
           /\ \A t \in 1..2 : T(e, v, t) <=> ValueOf(e.sym, v) >= t
<1>1. e \in Conds /\ e.op = "sym"
  BY AtomsAreExprs DEF Conds, Atoms
<1>2. expr_calc_value[e] = CalcBody(0, expr_calc_value, e)
  BY <1>1, Calculated DEF CalcIs
<1>3. expr_calc_value[e][v] = ValueOf(e.sym, v)
  BY <1>1, <1>2 DEF CalcBody
<1> QED BY <1>3 DEF T

(* A negation reaches t if its operand does not reach 3 - t.               *)
LEMMA NotHolds ==
    ASSUME NEW e \in Exprs, e.op = "not", NEW v \in Values, NEW t \in 1..2
    PROVE  T(e, v, t) <=> ~T(e.arg, v, 3 - t)
<1>1. expr_calc_value[e] = CalcBody(0, expr_calc_value, e) /\ e.arg \in Conds
  BY ExprParts, Calculated DEF CalcIs, Conds
<1>2. expr_calc_value[e][v] = 2 - expr_calc_value[e.arg][v]
  BY <1>1 DEF CalcBody
<1>3. expr_calc_value[e.arg][v] \in 0..2
  BY <1>1, ValueRange
<1> QED BY <1>2, <1>3 DEF T

(* A comparison is y or n.                                                 *)
LEMMA TestHolds ==
    ASSUME NEW e \in Exprs, e.op \in {"eq", "neq"}, NEW v \in Values, NEW t \in 1..2
    PROVE  T(e, v, t) <=> ((ValueOf(e.sym, v) = ValueOf(e.val, v)) <=> e.op = "eq")
<1>1. expr_calc_value[e] = CalcBody(0, expr_calc_value, e)
  BY Calculated DEF CalcIs, Conds
<1>2. expr_calc_value[e][v] =
        IF (ValueOf(e.sym, v) = ValueOf(e.val, v)) = (e.op = "eq") THEN yes ELSE no
  BY <1>1 DEF CalcBody
<1>3. ((ValueOf(e.sym, v) = ValueOf(e.val, v)) = (e.op = "eq"))
        <=> ((ValueOf(e.sym, v) = ValueOf(e.val, v)) <=> e.op = "eq")
  BY Zenon
<1>4. CASE (ValueOf(e.sym, v) = ValueOf(e.val, v)) <=> e.op = "eq"
  <2>1. expr_calc_value[e][v] = yes
    BY <1>2, <1>3, <1>4, Zenon
  <2>2. T(e, v, t)
    BY <2>1 DEF T, yes
  <2> QED BY <1>4, <2>2, Zenon
<1>5. CASE ~((ValueOf(e.sym, v) = ValueOf(e.val, v)) <=> e.op = "eq")
  <2>1. expr_calc_value[e][v] = no
    BY <1>2, <1>3, <1>5, Zenon
  <2>2. ~T(e, v, t)
    BY <2>1 DEF T, no
  <2> QED BY <1>5, <2>2, Zenon
<1> QED BY <1>4, <1>5, Zenon

(* A tree holds if its operands do, all of them or one.                    *)
LEMMA TreeHolds ==
    ASSUME NEW e \in Exprs, e.op \in AndOr, NEW v \in Values, NEW t \in 1..2
    PROVE  T(e, v, t) <=> Holds(e.op, e.args, v, t)
<1>1. expr_calc_value[e] = CalcBody(0, expr_calc_value, e)
  BY Calculated DEF CalcIs, Conds
<1>2. \A i \in DOMAIN e.args : e.args[i] \in Conds
  BY ExprParts DEF Conds
<1> DEFINE S == {expr_calc_value[e.args[i]][v] : i \in DOMAIN e.args}
<1>3. \A i \in DOMAIN e.args : expr_calc_value[e.args[i]][v] \in 0..2
  BY <1>2, ValueRange
<1>4. 1 \in DOMAIN e.args
  BY ExprParts
<1>5. S \in SUBSET (0..2) /\ S # {}
  BY <1>3, <1>4
<1>6. /\ Min(S) \in S /\ \A x \in S : Min(S) <= x
      /\ Max(S) \in S /\ \A x \in S : x <= Max(S)
  <2> HIDE DEF S
  <2> QED BY <1>5, MinMax
<1>7. /\ \A i \in DOMAIN e.args : expr_calc_value[e.args[i]][v] \in S
      /\ \A x \in S : x \in 0..2 /\ \E i \in DOMAIN e.args : x = expr_calc_value[e.args[i]][v]
  BY <1>3
<1>8. CASE e.op = "and"
  <2>1. expr_calc_value[e][v] = Min(S)
    BY <1>1, <1>8 DEF CalcBody
  <2> HIDE DEF S
  <2>2. Min(S) >= t <=> \A i \in DOMAIN e.args : expr_calc_value[e.args[i]][v] >= t
    BY <1>6, <1>7
  <2> QED BY <2>1, <2>2, <1>8 DEF T, Holds
<1>9. CASE e.op = "or"
  <2>1. expr_calc_value[e][v] = Max(S)
    BY <1>1, <1>9 DEF CalcBody
  <2> HIDE DEF S
  <2>2. Max(S) >= t <=> \E i \in DOMAIN e.args : expr_calc_value[e.args[i]][v] >= t
    BY <1>6, <1>7
  <2> QED BY <2>1, <2>2, <1>9 DEF T, Holds
<1> QED BY <1>8, <1>9 DEF AndOr

(* An expression holds if its leaves under an operator do.                 *)
LEMMA LeavesHold ==
    ASSUME NEW e \in Exprs, NEW op \in AndOr, NEW v \in Values, NEW t \in 1..2
    PROVE  T(e, v, t) <=> Holds(op, Leaves(op, e), v, t)
<1>1. CASE e.op = op
  BY <1>1, TreeHolds DEF Leaves
<1>2. CASE e.op # op
  <2>1. Leaves(op, e) = << e >>
    BY <1>2 DEF Leaves
  <2> QED BY <2>1 DEF Holds
<1> QED BY <1>1, <1>2

(* An operator holds of the expressions made of operands if it holds of    *)
(* the operands.                                                           *)
LEMMA NaryHolds ==
    ASSUME NEW es \in Seq(Exprs), Len(es) > 0, NEW op \in AndOr, Nary(op, es) \in Exprs,
           NEW v \in Values, NEW t \in 1..2
    PROVE  T(Nary(op, es), v, t) <=> Holds(op, es, v, t)
<1>1. CASE Len(es) = 1
  <2>1. Nary(op, es) = es[1] /\ DOMAIN es = {1}
    BY <1>1 DEF Nary
  <2> QED BY <2>1 DEF Holds
<1>2. CASE Len(es) # 1
  <2> DEFINE ls == LeavesAll(op, es)
             s == FlattenSeq(ls)
  <2>1. Nary(op, es) = [op |-> op, args |-> s]
    BY <1>2 DEF Nary, LeavesAll
  <2>2. Flattened(Exprs, ls, s) /\ Len(ls) = Len(es) /\ DOMAIN es = 1..Len(es)
    BY NaryFlat, ExprsLevel
  <2>3. \A i \in 1..Len(es) : ls[i] = Leaves(op, es[i]) /\ es[i] \in Exprs
    BY DEF LeavesAll
  <2> HIDE DEF s, ls
  <2>4. T(Nary(op, es), v, t) <=> Holds(op, s, v, t)
    <3>1. Nary(op, es).op = op /\ Nary(op, es).args = s
      BY <2>1
    <3> QED BY <3>1, TreeHolds
  <2>5. \A i \in 1..Len(es) : T(es[i], v, t) <=> Holds(op, ls[i], v, t)
    BY <2>3, LeavesHold
  <2>6. CASE op = "and"
    <3>1. (\A k \in DOMAIN s : T(s[k], v, t)) <=> \A j \in 1..Len(es) : \A l \in DOMAIN ls[j] : T(ls[j][l], v, t)
      BY <2>2 DEF Flattened
    <3> QED BY <2>2, <2>4, <2>5, <2>6, <3>1 DEF Holds
  <2>7. CASE op = "or"
    <3>1. (\E k \in DOMAIN s : T(s[k], v, t)) <=> \E j \in 1..Len(es) : \E l \in DOMAIN ls[j] : T(ls[j][l], v, t)
      BY <2>2 DEF Flattened
    <3> QED BY <2>2, <2>4, <2>5, <2>7, <3>1 DEF Holds
  <2> QED BY <2>6, <2>7 DEF AndOr
<1> QED BY <1>1, <1>2

(* The constants y and n.                                                  *)
LEMMA ConstantsHold ==
    ASSUME NEW v \in Values, NEW t \in 1..2
    PROVE  T(Y, v, t) /\ ~T(N, v, t)
<1>1. Y \in Atoms /\ N \in Atoms /\ Y.sym = "y" /\ N.sym = "n"
  BY AtomsAreExprs DEF Y, N, expr_alloc_symbol
<1>2. ValueOf("y", v) = 2 /\ ValueOf("n", v) = 0
  BY DEF ValueOf, yes, no
<1>3. (T(Y, v, t) <=> ValueOf("y", v) >= t) /\ (T(N, v, t) <=> ValueOf("n", v) >= t)
  BY <1>1, SymHolds
<1> QED BY <1>2, <1>3

-----------------------------------------------------------------------------
(* What keeps the depth, the normal form and the value of an expression.   *)
KeepsLevel(e, x) == \A kind \in Kinds : \A n \in Nat : e \in Level(kind, n) => x \in Level(kind, n)
Equal(e, x) == \A v \in Values : \A t \in 1..2 : T(x, v, t) <=> T(e, v, t)

(* What keeps the level of an expression is one.                           *)
LEMMA KeptExpr ==
    ASSUME NEW e \in Exprs, NEW x, KeepsLevel(e, x)
    PROVE  x \in Exprs
BY ExprsLevel DEF KeepsLevel

(* An expression keeps its own level and value.                            *)
LEMMA SelfKept == \A e : KeepsLevel(e, e) /\ Equal(e, e)
BY DEF KeepsLevel, Equal

(* The neutral and the absorbing constant of an operator.                  *)
LEMMA NeutralAtoms ==
    ASSUME NEW op \in AndOr
    PROVE  /\ Neutral(op) \in Atoms /\ Absorbing(op) \in Atoms
           /\ Neutral(op).op = "sym" /\ Absorbing(op).op = "sym"
           /\ Neutral(op) \in Exprs /\ Absorbing(op) \in Exprs
           /\ \A kind \in Kinds, n \in Nat : Neutral(op) \in Level(kind, n) /\ Absorbing(op) \in Level(kind, n)
           /\ \A v \in Values, t \in 1..2 : /\ T(Neutral(op), v, t) <=> op = "and"
                                            /\ T(Absorbing(op), v, t) <=> op = "or"
<1>1. Neutral(op) \in Atoms /\ Absorbing(op) \in Atoms
  BY AtomsAreExprs DEF Neutral, Absorbing
<1>2. Neutral(op).op = "sym" /\ Absorbing(op).op = "sym"
  BY <1>1 DEF Atoms
<1>3. \A kind \in Kinds, n \in Nat : Neutral(op) \in Level(kind, n) /\ Absorbing(op) \in Level(kind, n)
  BY <1>1, AtomsEverywhere
<1>4. \A v \in Values, t \in 1..2 : /\ T(Neutral(op), v, t) <=> op = "and"
                                    /\ T(Absorbing(op), v, t) <=> op = "or"
  BY ConstantsHold DEF Neutral, Absorbing, Dual, AndOr
<1> QED BY <1>1, <1>2, <1>3, <1>4, AtomsAreExprs

(* Taking neutral operands out leaves the others.                          *)
LEMMA NeutralRemoved ==
    ASSUME NEW op \in AndOr, NEW S, NEW es \in Seq(S)
    PROVE  /\ WithoutNeutral(op, es) \in Seq(S)
           /\ \A k \in DOMAIN WithoutNeutral(op, es) :
                 \E i \in DOMAIN es : es[i] # Neutral(op) /\ WithoutNeutral(op, es)[k] = es[i]
           /\ \A i \in DOMAIN es : es[i] # Neutral(op) =>
                 \E k \in DOMAIN WithoutNeutral(op, es) : WithoutNeutral(op, es)[k] = es[i]
<1> DEFINE ss == [i \in DOMAIN es |-> IF es[i] = Neutral(op) THEN << >> ELSE << es[i] >>]
           w == WithoutNeutral(op, es)
<1>1. DOMAIN es = 1..Len(es) /\ Len(es) \in Nat /\ \A i \in DOMAIN es : es[i] \in S
  OBVIOUS
<1>2. \A i \in DOMAIN es : ss[i] \in Seq(S)
  BY <1>1
<1>3. ss \in Seq(Seq(S)) /\ Len(ss) = Len(es)
  BY <1>1, <1>2
<1>4. Flattened(S, ss, w)
  BY <1>3, Flattens DEF WithoutNeutral
<1>5. \A i \in 1..Len(es) : ss[i] = IF es[i] = Neutral(op) THEN << >> ELSE << es[i] >>
  BY <1>1
<1> HIDE DEF w, ss
<1>6. \A i \in 1..Len(es) : \A l \in DOMAIN ss[i] : es[i] # Neutral(op) /\ ss[i][l] = es[i]
  <2> SUFFICES ASSUME NEW i \in 1..Len(es), NEW l \in DOMAIN ss[i]
               PROVE  es[i] # Neutral(op) /\ ss[i][l] = es[i]
    OBVIOUS
  <2>1. CASE es[i] = Neutral(op)
    <3>1. ss[i] = << >>
      BY <1>5, <2>1
    <3> QED BY <3>1
  <2>2. CASE es[i] # Neutral(op)
    <3>1. ss[i] = << es[i] >>
      BY <1>5, <2>2
    <3> QED BY <3>1, <2>2
  <2> QED BY <2>1, <2>2
<1>7. ASSUME NEW i \in 1..Len(es), es[i] # Neutral(op)
      PROVE  1 \in DOMAIN ss[i] /\ ss[i][1] = es[i]
  <2>1. ss[i] = << es[i] >>
    BY <1>5, <1>7
  <2> QED BY <2>1
<1>8. w \in Seq(S)
  BY <1>4 DEF Flattened
<1>9. \A k \in DOMAIN w : \E i \in DOMAIN es : es[i] # Neutral(op) /\ w[k] = es[i]
  BY <1>1, <1>3, <1>4, <1>6 DEF Flattened
<1>10. ASSUME NEW i \in DOMAIN es, es[i] # Neutral(op)
       PROVE  \E k \in DOMAIN w : w[k] = es[i]
  <2>1. i \in 1..Len(ss) /\ 1 \in DOMAIN ss[i] /\ ss[i][1] = es[i]
    BY <1>1, <1>3, <1>7, <1>10
  <2>2. \E k \in DOMAIN w : w[k] = ss[i][1]
    BY <1>4, <2>1 DEF Flattened
  <2> QED BY <2>1, <2>2
<1> QED BY <1>8, <1>9, <1>10 DEF w

(* Operands without constants nest by one level at most.                   *)
LEMMA ReducedLevel ==
    ASSUME NEW kind \in Kinds, NEW n \in Nat, NEW op \in AndOr, NEW es \in Seq(Level(kind, n))
    PROVE  Reduced(op, es) \in Level(kind, n + 1)
<1> DEFINE w == WithoutNeutral(op, es)
<1>1. w \in Seq(Level(kind, n))
  BY NeutralRemoved
<1>2. Neutral(op) \in Level(kind, n + 1) /\ Absorbing(op) \in Level(kind, n + 1)
  BY NeutralAtoms
<1>3. CASE Absorbing(op) \in Range(es)
  BY <1>3, <1>2 DEF Reduced
<1>4. CASE Absorbing(op) \notin Range(es) /\ w = << >>
  BY <1>4, <1>2 DEF Reduced
<1>5. CASE Absorbing(op) \notin Range(es) /\ w # << >>
  <2>1. Reduced(op, es) = Nary(op, w)
    BY <1>5 DEF Reduced
  <2> HIDE DEF w
  <2>2. Len(w) > 0
    BY <1>1, <1>5
  <2> QED BY <1>1, <2>1, <2>2, NaryLevel
<1> QED BY <1>3, <1>4, <1>5

(* Operands without constants hold if the operands do.                     *)
LEMMA ReducedHolds ==
    ASSUME NEW op \in AndOr, NEW es \in Seq(Exprs), Reduced(op, es) \in Exprs,
           NEW v \in Values, NEW t \in 1..2
    PROVE  T(Reduced(op, es), v, t) <=> Holds(op, es, v, t)
<1> DEFINE w == WithoutNeutral(op, es)
<1>1. /\ w \in Seq(Exprs)
      /\ \A k \in DOMAIN w : \E i \in DOMAIN es : es[i] # Neutral(op) /\ w[k] = es[i]
      /\ \A i \in DOMAIN es : es[i] # Neutral(op) => \E k \in DOMAIN w : w[k] = es[i]
  BY NeutralRemoved
<1>2. /\ T(Neutral(op), v, t) <=> op = "and"
      /\ T(Absorbing(op), v, t) <=> op = "or"
  BY NeutralAtoms
<1>3. CASE Absorbing(op) \in Range(es)
  <2>1. PICK i \in DOMAIN es : es[i] = Absorbing(op)
    BY <1>3 DEF Range
  <2>2. Reduced(op, es) = Absorbing(op)
    BY <1>3 DEF Reduced
  <2> QED BY <2>1, <2>2, <1>2 DEF Holds, AndOr
<1>4. CASE Absorbing(op) \notin Range(es) /\ w = << >>
  <2>1. Reduced(op, es) = Neutral(op)
    BY <1>4 DEF Reduced
  <2>2. \A i \in DOMAIN es : es[i] = Neutral(op)
    <3>1. DOMAIN w = {}
      BY <1>4
    <3> HIDE DEF w
    <3> QED BY <3>1, <1>1
  <2> QED BY <2>1, <2>2, <1>2 DEF Holds, AndOr
<1>5. CASE Absorbing(op) \notin Range(es) /\ w # << >>
  <2>1. Reduced(op, es) = Nary(op, w)
    BY <1>5 DEF Reduced
  <2> HIDE DEF w
  <2>2. Len(w) > 0
    BY <1>1, <1>5
  <2>3. T(Reduced(op, es), v, t) <=> Holds(op, w, v, t)
    BY <1>1, <2>1, <2>2, NaryHolds
  <2>4. Holds(op, w, v, t) <=> Holds(op, es, v, t)
    <3>1. CASE op = "and"
      BY <3>1, <1>1, <1>2 DEF Holds
    <3>2. CASE op = "or"
      BY <3>2, <1>1, <1>2 DEF Holds
    <3> QED BY <3>1, <3>2 DEF AndOr
  <2> QED BY <2>3, <2>4
<1> QED BY <1>3, <1>4, <1>5

-----------------------------------------------------------------------------
(* expr_eliminate_yn                                                       *)
YnBody(c, f, e) ==
    IF e.op \in AndOr
    THEN Reduced(e.op, [i \in DOMAIN e.args |-> f[e.args[i]]])
    ELSE e
KeptGood(c, e, x) == KeepsLevel(e, x) /\ Equal(e, x)
YnRec == INSTANCE Recursion
    WITH Dom <- ExprDom, rank <- exprRank, Body <- YnBody, Good <- KeptGood, Step <- NoStep

(* Operands each replaced by one of the same depth and value.              *)
LEMMA OperandsKept ==
    ASSUME NEW e \in Exprs, e.op \in AndOr, NEW es, DOMAIN es = DOMAIN e.args,
           es = [i \in DOMAIN es |-> es[i]],
           \A i \in DOMAIN e.args : KeepsLevel(e.args[i], es[i])
    PROVE  /\ es \in Seq(Exprs) /\ Len(es) = Len(e.args)
           /\ \A kind \in Kinds : \A n \in Nat :
                 e \in Level(kind, n) => n > 0 /\ es \in Seq(Level(kind, n - 1))
<1>1. /\ e.args \in Seq(Exprs) /\ \A i \in DOMAIN e.args : e.args[i] \in Exprs
      /\ Len(e.args) \in Nat /\ DOMAIN e.args = 1..Len(e.args)
  BY ExprParts
<1>2. \A i \in DOMAIN es : es[i] \in Exprs
  BY <1>1, KeptExpr
<1>3. es \in Seq(Exprs) /\ Len(es) = Len(e.args)
  BY <1>1, <1>2
<1>4. ASSUME NEW kind \in Kinds, NEW n \in Nat, e \in Level(kind, n)
      PROVE  n > 0 /\ es \in Seq(Level(kind, n - 1))
  <2>1. n > 0 /\ e.args \in Seq(Level(kind, n - 1)) /\ n - 1 \in Nat
    BY <1>4, Shapes2
  <2>2. \A i \in DOMAIN es : es[i] \in Level(kind, n - 1)
    BY <2>1 DEF KeepsLevel
  <2> QED BY <2>1, <2>2, <1>1
<1> QED BY <1>3, <1>4

(* One step of the recursion of expr_eliminate_yn keeps level and value.   *)
LEMMA YnMade ==
    ASSUME NEW e \in Exprs, NEW f,
           e.op \in AndOr => \A i \in DOMAIN e.args : KeptGood(0, e.args[i], f[e.args[i]])
    PROVE  KeptGood(0, e, YnBody(0, f, e))
<1>1. CASE e.op \notin AndOr
  BY <1>1, SelfKept DEF YnBody, KeptGood
<1>2. CASE e.op \in AndOr
  <2> DEFINE es == [i \in DOMAIN e.args |-> f[e.args[i]]]
             r == Reduced(e.op, es)
  <2>1. YnBody(0, f, e) = r
    BY <1>2 DEF YnBody
  <2>2. DOMAIN es = DOMAIN e.args /\ es = [i \in DOMAIN es |-> es[i]]
    OBVIOUS
  <2>3. \A i \in DOMAIN e.args : KeepsLevel(e.args[i], es[i]) /\ Equal(e.args[i], es[i])
    BY <1>2 DEF KeptGood
  <2> HIDE DEF es
  <2>4. /\ es \in Seq(Exprs) /\ Len(es) = Len(e.args)
        /\ \A kind \in Kinds : \A n \in Nat :
              e \in Level(kind, n) => n > 0 /\ es \in Seq(Level(kind, n - 1))
    BY <1>2, <2>2, <2>3, OperandsKept
  <2>5. ASSUME NEW kind \in Kinds, NEW n \in Nat, e \in Level(kind, n)
        PROVE  r \in Level(kind, n)
    <3>1. n - 1 \in Nat /\ (n - 1) + 1 = n /\ es \in Seq(Level(kind, n - 1))
      BY <2>4, <2>5
    <3> QED BY <3>1, <1>2, ReducedLevel
  <2>6. KeepsLevel(e, r)
    BY <2>5 DEF KeepsLevel
  <2>7. ASSUME NEW v \in Values, NEW t \in 1..2
        PROVE  T(r, v, t) <=> T(e, v, t)
    <3>1. T(r, v, t) <=> Holds(e.op, es, v, t)
      BY <1>2, <2>4, <2>6, KeptExpr, ReducedHolds
    <3>2. T(e, v, t) <=> Holds(e.op, e.args, v, t)
      BY <1>2, TreeHolds
    <3>3. \A i \in DOMAIN e.args : T(es[i], v, t) <=> T(e.args[i], v, t)
      BY <2>3 DEF Equal
    <3> QED BY <3>1, <3>2, <3>3, <2>2 DEF Holds
  <2> HIDE DEF r
  <2> QED BY <2>1, <2>6, <2>7 DEF KeptGood, Equal
<1> QED BY <1>1, <1>2

(* expr_eliminate_yn keeps the level and the value of every expression.    *)
LEMMA YnKeeps == \A e \in Exprs : KeptGood(0, e, expr_eliminate_yn[e])
                               /\ expr_eliminate_yn[e] = YnBody(0, expr_eliminate_yn, e)
<1>1. YnRec!Ranked(0)
  BY ExprParts DEF YnRec!Ranked, ExprDom, exprRank
<1>2. YnRec!Local(0)
  <2> SUFFICES ASSUME NEW e \in Exprs, NEW f, NEW g,
                      \A y \in YnRec!Below(0, rk(e)) : f[y] = g[y] /\ KeptGood(0, y, f[y])
               PROVE  YnBody(0, f, e) = YnBody(0, g, e) /\ KeptGood(0, e, YnBody(0, f, e))
    BY DEF YnRec!Local, ExprDom, exprRank
  <2>1. e.op \in AndOr => \A i \in DOMAIN e.args : e.args[i] \in YnRec!Below(0, rk(e))
    BY ExprParts DEF YnRec!Below, ExprDom, exprRank
  <2>2. e.op \in AndOr => \A i \in DOMAIN e.args : f[e.args[i]] = g[e.args[i]] /\ KeptGood(0, e.args[i], f[e.args[i]])
    BY <2>1
  <2>3. e.op \in AndOr => [i \in DOMAIN e.args |-> f[e.args[i]]] = [i \in DOMAIN e.args |-> g[e.args[i]]]
    BY <2>2
  <2>4. YnBody(0, f, e) = YnBody(0, g, e)
    BY <2>3, Zenon DEF YnBody
  <2> QED BY <2>2, <2>4, YnMade
<1>3. /\ \E f : f = [e \in Exprs |-> YnBody(0, f, e)]
      /\ \A f : f = [e \in Exprs |-> YnBody(0, f, e)] => \A e \in Exprs : KeptGood(0, e, f[e])
  BY <1>1, <1>2, YnRec!Defined DEF ExprDom
<1>4. expr_eliminate_yn = [e \in Exprs |-> YnBody(0, expr_eliminate_yn, e)]
  BY <1>3, Zenon DEF expr_eliminate_yn, YnBody
<1>5. \A e \in Exprs : KeptGood(0, e, expr_eliminate_yn[e])
  BY <1>3, <1>4, Zenon
<1>6. \A e \in Exprs : expr_eliminate_yn[e] = YnBody(0, expr_eliminate_yn, e)
  BY <1>4, Zenon
<1> QED BY <1>5, <1>6

-----------------------------------------------------------------------------
(* All pairs of positions                                                  *)
LEMMA PairsIn ==
    ASSUME NEW m \in Nat, NEW n \in Nat
    PROVE  /\ m * n \in Nat /\ Len(Pairs(m, n)) = m * n
           /\ \A k \in 1..(m * n) : /\ Pairs(m, n)[k] \in (1..m) \X (1..n)
                                    /\ Pairs(m, n)[k][1] \in 1..m /\ Pairs(m, n)[k][2] \in 1..n
<1>1. m * n \in Nat
  OBVIOUS
<1>2. Len(Pairs(m, n)) = m * n
  BY <1>1 DEF Pairs
<1>3. ASSUME NEW k \in 1..(m * n)
      PROVE  1 + ((k - 1) \div n) \in 1..m /\ 1 + ((k - 1) % n) \in 1..n
  <2>1. n # 0
    BY <1>3
  <2> DEFINE q == (k - 1) \div n
             r == (k - 1) % n
  <2>2. q \in Int /\ r \in 0..(n - 1) /\ k - 1 = n * q + r
    BY <2>1
  <2>3. q >= 0
    BY <2>1, <2>2
  <2>4. q < m
    <3> HIDE DEF q, r
    <3>1. SUFFICES ASSUME q >= m PROVE FALSE
      BY <2>2
    <3>2. n * q >= n * m
      BY <3>1, <2>1, <2>2
    <3> QED BY <3>2, <2>2
  <2> QED BY <2>2, <2>3, <2>4
<1>4. \A k \in 1..(m * n) : Pairs(m, n)[k] = << 1 + ((k - 1) \div n), 1 + ((k - 1) % n) >>
  BY DEF Pairs
<1>5. ASSUME NEW k \in 1..(m * n)
      PROVE  /\ Pairs(m, n)[k] \in (1..m) \X (1..n)
             /\ Pairs(m, n)[k][1] \in 1..m /\ Pairs(m, n)[k][2] \in 1..n
  <2> DEFINE i == 1 + ((k - 1) \div n)
             j == 1 + ((k - 1) % n)
  <2>1. i \in 1..m /\ j \in 1..n /\ Pairs(m, n)[k] = << i, j >>
    BY <1>3, <1>4
  <2> HIDE DEF i, j
  <2> QED BY <2>1
<1> QED BY <1>1, <1>2, <1>5, Zenon

-----------------------------------------------------------------------------
(* The leaves of l, some of them replaced by the neutral constant.         *)
Erased(op, l, k) ==
    /\ k \in Seq(Exprs) /\ Len(k) = Len(l)
    /\ \A i \in DOMAIN l : k[i] \in {l[i], Neutral(op)}

Follows(op, a, b, v, t) == Holds(op, a, v, t) => Holds(op, b, v, t)

(* What follows from what is left of two lists, followed from the lists.   *)
Leave(op, l1, l2, k1, k2) ==
    \A v \in Values : \A t \in 1..2 :
        /\ Follows(op, k1, k2, v, t) => Follows(op, l1, l2, v, t)
        /\ Follows(op, k2, k1, v, t) => Follows(op, l2, l1, v, t)

Cancelled(op, l1, l2) ==
    {ls \in Seq(Exprs) \X Seq(Exprs) :
        Erased(op, l1, ls[1]) /\ Erased(op, l2, ls[2]) /\ Leave(op, l1, l2, ls[1], ls[2])}

(* An operand replaced by the neutral constant is taken from the others.   *)
LEMMA EraseHolds ==
    ASSUME NEW op \in AndOr, NEW l \in Seq(Exprs), NEW k, Erased(op, l, k), NEW i \in DOMAIN l
    PROVE  /\ Erased(op, l, [k EXCEPT ![i] = Neutral(op)])
           /\ \A v \in Values : \A t \in 1..2 :
                 /\ op = "and" => (Holds(op, k, v, t) <=> /\ Holds(op, [k EXCEPT ![i] = Neutral(op)], v, t)
                                                          /\ T(k[i], v, t))
                 /\ op = "or" => (Holds(op, k, v, t) <=> \/ Holds(op, [k EXCEPT ![i] = Neutral(op)], v, t)
                                                         \/ T(k[i], v, t))
<1> DEFINE k2 == [k EXCEPT ![i] = Neutral(op)]
<1>1. k \in Seq(Exprs) /\ DOMAIN k = DOMAIN l /\ Len(k) = Len(l) /\ Neutral(op) \in Exprs
  BY NeutralAtoms DEF Erased
<1>2. DOMAIN k2 = DOMAIN k /\ k2[i] = Neutral(op) /\ \A j \in DOMAIN k : j # i => k2[j] = k[j]
  BY <1>1
<1>3. k2 \in Seq(Exprs) /\ Len(k2) = Len(k)
  BY <1>1
<1>4. Erased(op, l, k2)
  BY <1>1, <1>2, <1>3 DEF Erased
<1> HIDE DEF k2
<1>5. ASSUME NEW v \in Values, NEW t \in 1..2, op = "and"
      PROVE  Holds(op, k, v, t) <=> Holds(op, k2, v, t) /\ T(k[i], v, t)
  <2>1. T(Neutral(op), v, t)
    BY <1>5, NeutralAtoms
  <2> QED BY <1>1, <1>2, <1>5, <2>1 DEF Holds
<1>6. ASSUME NEW v \in Values, NEW t \in 1..2, op = "or"
      PROVE  Holds(op, k, v, t) <=> Holds(op, k2, v, t) \/ T(k[i], v, t)
  <2>1. ~T(Neutral(op), v, t)
    BY <1>6, NeutralAtoms
  <2> QED BY <1>1, <1>2, <1>6, <2>1 DEF Holds
<1> QED BY <1>4, <1>5, <1>6 DEF k2

(* The comparison f tells expressions of one value, for the leaves l.      *)
Sound(f, op, l) ==
    \A a \in Range(l) \cup {Neutral(op)} : \A b \in Exprs : f[<< a, b >>] => Equal(a, b)

(* Cancelling one pair of equal leaves keeps what both sides promise.      *)
LEMMA CancelStep ==
    ASSUME NEW op \in AndOr, NEW l1 \in Seq(Exprs), NEW l2 \in Seq(Exprs), NEW f,
           Sound(f, op, l1), NEW ls \in Cancelled(op, l1, l2), NEW p,
           p[1] \in DOMAIN l1, p[2] \in DOMAIN l2
    PROVE  CancelAt([eq |-> f, op |-> op], ls, p) \in Cancelled(op, l1, l2)
<1> DEFINE a == ls[1][p[1]]
           b == ls[2][p[2]]
           k1 == [ls[1] EXCEPT ![p[1]] = Neutral(op)]
           k2 == [ls[2] EXCEPT ![p[2]] = Neutral(op)]
<1>1. /\ ls[1] \in Seq(Exprs) /\ ls[2] \in Seq(Exprs)
      /\ Erased(op, l1, ls[1]) /\ Erased(op, l2, ls[2]) /\ Leave(op, l1, l2, ls[1], ls[2])
  BY DEF Cancelled
<1>2. CASE ~Cancels(f, a, b)
  BY <1>2 DEF CancelAt
<1>3. CASE Cancels(f, a, b)
  <2>1. CancelAt([eq |-> f, op |-> op], ls, p) = << k1, k2 >>
    BY <1>3 DEF CancelAt
  <2>2. a \in Range(l1) \cup {Neutral(op)} /\ b \in Exprs
    BY <1>1, NeutralAtoms DEF Erased, Range
  <2>3. Equal(a, b)
    BY <1>3, <2>2 DEF Cancels, Sound
  <2>4. Erased(op, l1, k1) /\ Erased(op, l2, k2)
    BY <1>1, EraseHolds
  <2>5. ASSUME NEW v \in Values, NEW t \in 1..2
        PROVE  /\ Follows(op, k1, k2, v, t) => Follows(op, ls[1], ls[2], v, t)
               /\ Follows(op, k2, k1, v, t) => Follows(op, ls[2], ls[1], v, t)
    <3>1. T(a, v, t) <=> T(b, v, t)
      BY <2>3 DEF Equal
    <3>2. CASE op = "and"
      <4>1. Holds(op, ls[1], v, t) <=> Holds(op, k1, v, t) /\ T(a, v, t)
        BY <1>1, <3>2, EraseHolds
      <4>2. Holds(op, ls[2], v, t) <=> Holds(op, k2, v, t) /\ T(b, v, t)
        BY <1>1, <3>2, EraseHolds
      <4> QED BY <3>1, <4>1, <4>2, Zenon DEF Follows
    <3>3. CASE op = "or"
      <4>1. Holds(op, ls[1], v, t) <=> Holds(op, k1, v, t) \/ T(a, v, t)
        BY <1>1, <3>3, EraseHolds
      <4>2. Holds(op, ls[2], v, t) <=> Holds(op, k2, v, t) \/ T(b, v, t)
        BY <1>1, <3>3, EraseHolds
      <4> QED BY <3>1, <4>1, <4>2, Zenon DEF Follows
    <3> QED BY <3>2, <3>3 DEF AndOr
  <2>6. Leave(op, l1, l2, k1, k2)
    BY <2>5, <1>1, Zenon DEF Leave
  <2>7. k1 \in Seq(Exprs) /\ k2 \in Seq(Exprs)
    BY <2>4 DEF Erased
  <2> HIDE DEF k1, k2
  <2> QED BY <2>1, <2>4, <2>6, <2>7 DEF Cancelled
<1> QED BY <1>2, <1>3

-----------------------------------------------------------------------------
EqDom(c) == Exprs \X Exprs
eqRank(c, es) == rk(es[1])
EqBody(c, f, es) ==
    /\ es[1].op = es[2].op
    /\ IF es[1].op \in AndOr THEN SameSymbol(Eliminated(f, es))
       ELSE IF es[1].op = "not" THEN f[<< es[1].arg, es[2].arg >>]
       ELSE es[1] = es[2]
EqGood(c, es, x) == x \in BOOLEAN /\ (x => Equal(es[1], es[2]))
EqRec == INSTANCE Recursion
    WITH Dom <- EqDom, rank <- eqRank, Body <- EqBody, Good <- EqGood, Step <- CancelAt

(* Before anything is cancelled.                                           *)
LEMMA StartCancelled ==
    ASSUME NEW op \in AndOr, NEW l1 \in Seq(Exprs), NEW l2 \in Seq(Exprs)
    PROVE  << l1, l2 >> \in Cancelled(op, l1, l2)
<1>1. Erased(op, l1, l1) /\ Erased(op, l2, l2)
  BY DEF Erased
<1>2. Leave(op, l1, l2, l1, l2)
  BY DEF Leave
<1> QED BY <1>1, <1>2 DEF Cancelled

(* Cancelling all pairs of equal leaves keeps what both sides promise.     *)
LEMMA CancelledLeaves ==
    ASSUME NEW op \in AndOr, NEW l1 \in Seq(Exprs), NEW l2 \in Seq(Exprs), NEW f,
           Sound(f, op, l1)
    PROVE  CancelLeaves(f, op, l1, l2) \in Cancelled(op, l1, l2)
<1> DEFINE c == [eq |-> f, op |-> op]
           ps == Pairs(Len(l1), Len(l2))
           base == << l1, l2 >>
           S == Cancelled(op, l1, l2)
<1>1. /\ Len(l1) \in Nat /\ Len(l2) \in Nat
      /\ DOMAIN l1 = 1..Len(l1) /\ DOMAIN l2 = 1..Len(l2)
  OBVIOUS
<1>2. /\ Len(ps) \in Nat
      /\ \A k \in 1..Len(ps) : ps[k][1] \in DOMAIN l1 /\ ps[k][2] \in DOMAIN l2
  BY <1>1, PairsIn
<1>3. base \in S
  BY StartCancelled
<1>4. \A k \in 1..Len(ps) : \A st \in S : CancelAt(c, st, ps[k]) \in S
  <2> HIDE DEF ps
  <2> QED BY <1>2, CancelStep
<1>5. CancelLeaves(f, op, l1, l2) = Fold(CancelAt, c, base, ps)
  BY DEF CancelLeaves
<1> HIDE DEF c, ps, base, S
<1>6. Fold(CancelAt, c, base, ps) = EqRec!LastState(c, base, ps, Len(ps))
  BY DEF Fold, EqRec!LastState
<1>7. EqRec!LastState(c, base, ps, Len(ps)) \in S
  BY <1>2, <1>3, <1>4, EqRec!Folded
<1> QED BY <1>5, <1>6, <1>7 DEF S

(* Cancelling asks only for comparisons of leaves.                         *)
LEMMA CancelledAlike ==
    ASSUME NEW op \in AndOr, NEW l1 \in Seq(Exprs), NEW l2 \in Seq(Exprs), NEW f, NEW g,
           Sound(f, op, l1),
           \A a \in Range(l1) \cup {Neutral(op)} : \A b \in Exprs : f[<< a, b >>] = g[<< a, b >>]
    PROVE  CancelLeaves(f, op, l1, l2) = CancelLeaves(g, op, l1, l2)
<1> DEFINE c == [eq |-> f, op |-> op]
           d == [eq |-> g, op |-> op]
           ps == Pairs(Len(l1), Len(l2))
           base == << l1, l2 >>
           S == Cancelled(op, l1, l2)
<1>1. /\ Len(l1) \in Nat /\ Len(l2) \in Nat
      /\ DOMAIN l1 = 1..Len(l1) /\ DOMAIN l2 = 1..Len(l2)
  OBVIOUS
<1>2. /\ Len(ps) \in Nat
      /\ \A k \in 1..Len(ps) : ps[k][1] \in DOMAIN l1 /\ ps[k][2] \in DOMAIN l2
  BY <1>1, PairsIn
<1>3. base \in S
  BY StartCancelled
<1>4. \A k \in 1..Len(ps) : \A st \in S : CancelAt(c, st, ps[k]) \in S
  <2> HIDE DEF ps
  <2> QED BY <1>2, CancelStep
<1>5. CancelLeaves(f, op, l1, l2) = Fold(CancelAt, c, base, ps)
      /\ CancelLeaves(g, op, l1, l2) = Fold(CancelAt, d, base, ps)
  BY DEF CancelLeaves
<1>6. ASSUME NEW k \in 1..Len(ps), NEW st \in S
      PROVE  CancelAt(c, st, ps[k]) = CancelAt(d, st, ps[k])
  <2> DEFINE a == st[1][ps[k][1]]
             b == st[2][ps[k][2]]
  <2>1. a \in Range(l1) \cup {Neutral(op)} /\ b \in Exprs
    <3> HIDE DEF ps
    <3> QED BY <1>2, NeutralAtoms DEF Cancelled, Erased, Range
  <2>2. f[<< a, b >>] = g[<< a, b >>]
    <3> HIDE DEF a, b
    <3> QED BY <2>1
  <2>3. Cancels(f, a, b) <=> Cancels(g, a, b)
    BY <2>2, Zenon DEF Cancels
  <2>4. c.eq = f /\ c.op = op /\ d.eq = g /\ d.op = op
    OBVIOUS
  <2> HIDE DEF c, d, ps, S
  <2> QED BY <2>3, <2>4, Zenon DEF CancelAt
<1> HIDE DEF c, d, ps, base, S
<1>7. Fold(CancelAt, c, base, ps) = EqRec!LastState(c, base, ps, Len(ps))
      /\ Fold(CancelAt, d, base, ps) = EqRec!LastState(d, base, ps, Len(ps))
  BY DEF Fold, EqRec!LastState
<1>8. EqRec!LastState(c, base, ps, Len(ps)) = EqRec!LastState(d, base, ps, Len(ps))
  <2>1. EqRec!Alike(c, d, base, ps, Len(ps), S)
    BY <1>3, <1>4, <1>6, Zenon DEF EqRec!Alike
  <2> QED BY <1>2, <2>1, EqRec!FoldsAgree
<1> QED BY <1>5, <1>7, <1>8

(* Joining what is left of the leaves of e.                                *)
LEMMA LeftOver ==
    ASSUME NEW op \in AndOr, NEW e \in Exprs, NEW k, Erased(op, Leaves(op, e), k)
    PROVE  /\ KeepsLevel(e, Nary(op, k)) /\ Nary(op, k) \in Exprs
           /\ e.op = op => Nary(op, k).op = op
           /\ \A v \in Values : \A t \in 1..2 : T(Nary(op, k), v, t) <=> Holds(op, k, v, t)
<1> DEFINE l == Leaves(op, e)
<1>1. l \in Seq(Exprs) /\ Len(l) > 0
  BY ExprsLevel, LeavesOf
<1>2. k \in Seq(Exprs) /\ Len(k) = Len(l) /\ DOMAIN k = DOMAIN l
  BY <1>1 DEF Erased
<1>3. CASE e.op = op
  <2>1. l = e.args /\ Len(e.args) > 1
    BY <1>3, ExprParts DEF Leaves
  <2>2. ASSUME NEW kind \in Kinds, NEW n \in Nat, e \in Level(kind, n)
        PROVE  Nary(op, k) \in Level(kind, n)
    <3>1. n > 0 /\ e.args \in Seq(Level(kind, n - 1)) /\ n - 1 \in Nat /\ (n - 1) + 1 = n
      BY <2>2, <1>3, Shapes2
    <3>2. \A i \in DOMAIN k : k[i] \in Level(kind, n - 1)
      BY <3>1, <2>1, <1>2, NeutralAtoms DEF Erased
    <3>3. k \in Seq(Level(kind, n - 1))
      BY <3>2, <1>2
    <3> QED BY <3>1, <3>3, <1>2, <2>1, NaryLevel
  <2>3. KeepsLevel(e, Nary(op, k))
    BY <2>2 DEF KeepsLevel
  <2>4. Nary(op, k).op = op
    BY <1>2, <2>1, ExprsLevel, NaryLevel
  <2> QED BY <2>3, <2>4, <1>2, <2>1, KeptExpr, NaryHolds
<1>4. CASE e.op # op
  <2>1. l = << e >>
    BY <1>4 DEF Leaves
  <2>2. Nary(op, k) = k[1] /\ k[1] \in {e, Neutral(op)}
    BY <2>1, <1>2 DEF Nary, Erased
  <2>3. KeepsLevel(e, Nary(op, k))
    BY <2>2, NeutralAtoms DEF KeepsLevel
  <2>4. Len(k) > 0
    BY <1>1, <1>2
  <2> QED BY <2>3, <2>4, <1>2, <1>4, KeptExpr, NaryHolds
<1> QED BY <1>3, <1>4

(* What follows from what is made of two expressions, followed from them.  *)
Implies(a, b, v, t) == T(a, v, t) => T(b, v, t)
Leaving(a, b, x, y) ==
    \A v \in Values : \A t \in 1..2 :
        /\ Implies(x, y, v, t) => Implies(a, b, v, t)
        /\ Implies(y, x, v, t) => Implies(b, a, v, t)

(* One operator's leaves cancelled, each side is still an expression, and  *)
(* where one side implied the other it still does.                         *)
LEMMA CancelMade ==
    ASSUME NEW op \in AndOr, NEW es \in Exprs \X Exprs, NEW f,
           Sound(f, op, Leaves(op, es[1]))
    PROVE  LET xs == Cancel(f, op, es)
           IN  /\ xs \in Exprs \X Exprs
               /\ KeepsLevel(es[1], xs[1]) /\ KeepsLevel(es[2], xs[2])
               /\ es[1].op = op => xs[1].op = op
               /\ es[2].op = op => xs[2].op = op
               /\ Leaving(es[1], es[2], xs[1], xs[2])
<1> DEFINE l1 == Leaves(op, es[1])
           l2 == Leaves(op, es[2])
           ks == CancelLeaves(f, op, l1, l2)
           x == Nary(op, ks[1])
           y == Nary(op, ks[2])
<1>1. es[1] \in Exprs /\ es[2] \in Exprs
  OBVIOUS
<1>2. l1 \in Seq(Exprs) /\ l2 \in Seq(Exprs)
  BY <1>1, ExprsLevel, LeavesOf
<1>3. ks \in Cancelled(op, l1, l2)
  <2> HIDE DEF ks
  <2> QED BY <1>2, CancelledLeaves DEF ks
<1>4. Erased(op, l1, ks[1]) /\ Erased(op, l2, ks[2]) /\ Leave(op, l1, l2, ks[1], ks[2])
  <2> HIDE DEF ks
  <2> QED BY <1>3 DEF Cancelled
<1>5. Cancel(f, op, es) = << x, y >>
  BY DEF Cancel, AsExprs
<1> HIDE DEF ks
<1>6. /\ KeepsLevel(es[1], x) /\ x \in Exprs /\ (es[1].op = op => x.op = op)
      /\ \A v \in Values : \A t \in 1..2 : T(x, v, t) <=> Holds(op, ks[1], v, t)
  BY <1>1, <1>4, LeftOver, Zenon
<1>7. /\ KeepsLevel(es[2], y) /\ y \in Exprs /\ (es[2].op = op => y.op = op)
      /\ \A v \in Values : \A t \in 1..2 : T(y, v, t) <=> Holds(op, ks[2], v, t)
  BY <1>1, <1>4, LeftOver, Zenon
<1>8. ASSUME NEW v \in Values, NEW t \in 1..2
      PROVE  /\ T(es[1], v, t) <=> Holds(op, l1, v, t)
             /\ T(es[2], v, t) <=> Holds(op, l2, v, t)
  BY <1>1, LeavesHold
<1> HIDE DEF x, y, l1, l2
<1>9. Leaving(es[1], es[2], x, y)
  BY <1>4, <1>6, <1>7, <1>8, Zenon DEF Leaving, Leave, Implies, Follows
<1>10. /\ << x, y >>[1] = x /\ << x, y >>[2] = y
       /\ << x, y >> \in Exprs \X Exprs
  BY <1>6, <1>7
<1> QED BY <1>5, <1>6, <1>7, <1>9, <1>10, Zenon

(* Taking constants out of two expressions keeps their values.             *)
LEMMA SameTidy ==
    ASSUME NEW xs \in Exprs \X Exprs
    PROVE  /\ Tidy(xs)[1] \in Exprs /\ Tidy(xs)[2] \in Exprs
           /\ Equal(xs[1], Tidy(xs)[1]) /\ Equal(xs[2], Tidy(xs)[2])
<1>1. xs[1] \in Exprs /\ xs[2] \in Exprs
  OBVIOUS
<1>2. Tidy(xs)[1] = expr_eliminate_yn[xs[1]] /\ Tidy(xs)[2] = expr_eliminate_yn[xs[2]]
  BY DEF Tidy
<1>3. KeptGood(0, xs[1], expr_eliminate_yn[xs[1]]) /\ KeptGood(0, xs[2], expr_eliminate_yn[xs[2]])
  BY <1>1, YnKeeps
<1> QED BY <1>1, <1>2, <1>3, KeptExpr, Zenon DEF KeptGood

(* Two trees of one operator are cancelled once.                           *)
LEMMA SameOperator ==
    ASSUME NEW op \in AndOr, NEW es \in Exprs \X Exprs, NEW f,
           Sound(f, op, Leaves(op, es[1])), es[1].op = op, es[2].op = op
    PROVE  Eliminated(f, es) = Tidy(Cancel(f, op, es))
<1> DEFINE xs == Cancel(f, op, es)
<1>1. xs[1].op = op /\ xs[2].op = op
  BY CancelMade
<1>2. CancelFirst(f, es) = xs
  BY DEF CancelFirst
<1> HIDE DEF xs
<1>3. CancelSecond(f, xs) = xs
  BY <1>1 DEF CancelSecond
<1> QED BY <1>2, <1>3, Zenon DEF Eliminated, xs

(* One step of the recursion of expr_eq tells equal values.                *)
LEMMA EqMade ==
    ASSUME NEW es \in Exprs \X Exprs, NEW f, NEW g,
           \A y \in Exprs \X Exprs : rk(y[1]) < rk(es[1]) => f[y] = g[y] /\ EqGood(0, y, f[y])
    PROVE  EqBody(0, f, es) = EqBody(0, g, es) /\ EqGood(0, es, EqBody(0, f, es))
<1>1. es[1] \in Exprs /\ es[2] \in Exprs
  OBVIOUS
<1>2. CASE es[1].op # es[2].op
  BY <1>2 DEF EqBody, EqGood
<1>3. CASE es[1].op = es[2].op /\ es[1].op \in AndOr
  <2> DEFINE op == es[1].op
             l == Leaves(op, es[1])
             xs == Cancel(f, op, es)
             zs == Tidy(xs)
  <2>1. /\ l = es[1].args /\ l \in Seq(Exprs) /\ Len(l) > 0
        /\ \A i \in DOMAIN l : l[i] \in Exprs /\ rk(l[i]) < rk(es[1])
    BY <1>1, <1>3, ExprParts DEF Leaves
  <2>2. \A a \in Range(l) : a \in Exprs /\ rk(a) < rk(es[1])
    BY <2>1 DEF Range
  <2>3. Neutral(op) \in Exprs /\ rk(Neutral(op)) < rk(es[1])
    <3>1. 1 \in DOMAIN l
      BY <2>1
    <3>2. rk(l[1]) \in Nat /\ rk(l[1]) < rk(es[1]) /\ rk(es[1]) \in Nat
      BY <2>1, <3>1, <1>1, ExprParts
    <3>3. rk(Neutral(op)) = 0 /\ Neutral(op) \in Exprs
      BY <1>3, NeutralAtoms, AtomRank
    <3> QED BY <3>2, <3>3
  <2>4. \A a \in Range(l) \cup {Neutral(op)} : \A b \in Exprs :
          f[<< a, b >>] = g[<< a, b >>] /\ EqGood(0, << a, b >>, f[<< a, b >>])
    <3> HIDE DEF l, op
    <3> QED BY <2>2, <2>3
  <2>5. Sound(f, op, l)
    <3> HIDE DEF l, op
    <3> QED BY <2>4 DEF Sound, EqGood
  <2>6. Sound(g, op, l)
    <3> HIDE DEF l, op
    <3> QED BY <2>4 DEF Sound, EqGood
  <2>7. Eliminated(f, es) = zs
    BY <1>3, <2>5, SameOperator
  <2>8. Eliminated(g, es) = Tidy(Cancel(g, op, es))
    BY <1>3, <2>6, SameOperator
  <2>9. Cancel(f, op, es) = Cancel(g, op, es)
    <3> DEFINE l2 == Leaves(op, es[2])
    <3>1. l2 \in Seq(Exprs)
      BY <1>1, <1>3, ExprsLevel, LeavesOf
    <3>2. CancelLeaves(f, op, l, l2) = CancelLeaves(g, op, l, l2)
      <4>1. l \in Seq(Exprs) /\ op \in AndOr
        BY <1>3, <2>1
      <4>2. \A a \in Range(l) \cup {Neutral(op)} : \A b \in Exprs : f[<< a, b >>] = g[<< a, b >>]
        BY <2>4, Zenon
      <4> HIDE DEF l, l2, op
      <4> QED BY <4>1, <4>2, <2>5, <3>1, CancelledAlike
    <3> QED BY <3>2, Zenon DEF Cancel
  <2>10. /\ EqBody(0, f, es) <=> SameSymbol(zs)
         /\ EqBody(0, g, es) <=> SameSymbol(zs)
    <3> HIDE DEF zs, xs
    <3>1. Eliminated(g, es) = zs
      BY <2>8, <2>9, Zenon DEF zs, xs
    <3> QED BY <1>3, <2>7, <3>1, Zenon DEF EqBody
  <2>11. xs \in Exprs \X Exprs /\ Leaving(es[1], es[2], xs[1], xs[2])
    BY <1>3, <2>5, CancelMade
  <2>12. SameSymbol(zs) => Equal(es[1], es[2])
    <3> HIDE DEF zs, xs, op, l
    <3>1. SUFFICES ASSUME SameSymbol(zs) PROVE Equal(es[1], es[2])
      OBVIOUS
    <3>2. zs[1] = zs[2]
      BY <3>1 DEF SameSymbol
    <3>3. Equal(xs[1], zs[1]) /\ Equal(xs[2], zs[2])
      BY <2>11, SameTidy DEF zs
    <3>4. \A v \in Values : \A t \in 1..2 : T(xs[1], v, t) <=> T(xs[2], v, t)
      BY <3>2, <3>3, Zenon DEF Equal
    <3> QED BY <3>4, <2>11, Zenon DEF Equal, Leaving, Implies
  <2>13. EqBody(0, f, es) \in BOOLEAN /\ EqBody(0, g, es) \in BOOLEAN
    <3> HIDE DEF zs, xs, op, l
    <3> QED BY Zenon DEF EqBody
  <2>14. EqBody(0, f, es) = EqBody(0, g, es)
    <3> HIDE DEF zs, xs, op, l
    <3> QED BY <2>10, <2>13
  <2> HIDE DEF zs
  <2> QED BY <2>10, <2>12, <2>13, <2>14, Zenon DEF EqGood
<1>4. CASE es[1].op = es[2].op /\ es[1].op = "not"
  <2> DEFINE y == << es[1].arg, es[2].arg >>
  <2>1. /\ es[1].arg \in Exprs /\ es[2].arg \in Exprs /\ rk(es[1].arg) < rk(es[1])
        /\ y[1] = es[1].arg /\ y[2] = es[2].arg
    BY <1>1, <1>4, ExprParts
  <2>2. y \in Exprs \X Exprs
    BY <2>1
  <2>3. f[y] = g[y] /\ f[y] \in BOOLEAN /\ (f[y] => Equal(es[1].arg, es[2].arg))
    <3> HIDE DEF y
    <3> QED BY <2>1, <2>2 DEF EqGood
  <2>4. EqBody(0, f, es) = f[y] /\ EqBody(0, g, es) = g[y]
    <3>1. "not" \notin AndOr
      BY DEF AndOr
    <3> QED BY <1>4, <2>3, <3>1 DEF EqBody
  <2>5. Equal(es[1].arg, es[2].arg) => Equal(es[1], es[2])
    <3>1. \A v \in Values : \A t \in 1..2 :
             /\ (T(es[1], v, t) <=> ~T(es[1].arg, v, 3 - t))
             /\ (T(es[2], v, t) <=> ~T(es[2].arg, v, 3 - t))
      BY <1>1, <1>4, NotHolds
    <3>2. \A t \in 1..2 : 3 - t \in 1..2
      OBVIOUS
    <3> QED BY <3>1, <3>2, Zenon DEF Equal
  <2> HIDE DEF y
  <2> QED BY <2>3, <2>4, <2>5 DEF EqGood
<1>5. CASE es[1].op = es[2].op /\ es[1].op \notin AndOr /\ es[1].op # "not"
  <2>1. EqBody(0, f, es) = (es[1] = es[2]) /\ EqBody(0, g, es) = (es[1] = es[2])
    BY <1>5 DEF EqBody
  <2>2. es[1] = es[2] => Equal(es[1], es[2])
    BY SelfKept
  <2> QED BY <2>1, <2>2 DEF EqGood
<1> QED BY <1>2, <1>3, <1>4, <1>5

(* expr_eq satisfies its recursive definition.                             *)
LEMMA EqDefined ==
    \A es \in Exprs \X Exprs : /\ EqGood(0, es, expr_eq[es])
                               /\ expr_eq[es] = EqBody(0, expr_eq, es)
<1>1. EqRec!Ranked(0)
  BY ExprParts DEF EqRec!Ranked, EqDom, eqRank
<1>2. EqRec!Local(0)
  <2> SUFFICES ASSUME NEW es \in Exprs \X Exprs, NEW f, NEW g,
                      \A y \in EqRec!Below(0, eqRank(0, es)) : f[y] = g[y] /\ EqGood(0, y, f[y])
               PROVE  EqBody(0, f, es) = EqBody(0, g, es) /\ EqGood(0, es, EqBody(0, f, es))
    BY DEF EqRec!Local, EqDom
  <2>1. \A y \in Exprs \X Exprs : rk(y[1]) < rk(es[1]) => f[y] = g[y] /\ EqGood(0, y, f[y])
    BY DEF EqRec!Below, EqDom, eqRank
  <2> QED BY <2>1, EqMade
<1>3. /\ \E f : f = [es \in Exprs \X Exprs |-> EqBody(0, f, es)]
      /\ \A f : f = [es \in Exprs \X Exprs |-> EqBody(0, f, es)]
                => \A es \in Exprs \X Exprs : EqGood(0, es, f[es])
  BY <1>1, <1>2, EqRec!Defined DEF EqDom
<1>4. expr_eq = [es \in Exprs \X Exprs |-> EqBody(0, expr_eq, es)]
  BY <1>3, Zenon DEF expr_eq, EqBody
<1>5. \A es \in Exprs \X Exprs : EqGood(0, es, expr_eq[es])
  BY <1>3, <1>4, Zenon
<1>6. \A es \in Exprs \X Exprs : expr_eq[es] = EqBody(0, expr_eq, es)
  BY <1>4, Zenon
<1> QED BY <1>5, <1>6

(* Expressions that expr_eq takes for equal have the same values.          *)
LEMMA EqSound ==
    ASSUME NEW a \in Exprs, NEW b \in Exprs
    PROVE  expr_eq[<< a, b >>] \in BOOLEAN /\ (expr_eq[<< a, b >>] => Equal(a, b))
<1>1. << a, b >> \in Exprs \X Exprs /\ << a, b >>[1] = a /\ << a, b >>[2] = b
  OBVIOUS
<1>2. EqGood(0, << a, b >>, expr_eq[<< a, b >>])
  BY <1>1, EqDefined
<1> QED BY <1>1, <1>2 DEF EqGood

(* An expression made Y by cancelling holds wherever the other does.       *)
LEMMA EliminatedSound ==
    ASSUME NEW es \in Exprs \X Exprs, expr_is_yes(Eliminated(expr_eq, es)[2]),
           NEW v \in Values, NEW t \in 1..2, T(es[1], v, t)
    PROVE  T(es[2], v, t)
<1>1. \A op \in AndOr : \A xs \in Exprs \X Exprs : Sound(expr_eq, op, Leaves(op, xs[1]))
  <2> SUFFICES ASSUME NEW op \in AndOr, NEW xs \in Exprs \X Exprs,
                      NEW a \in Range(Leaves(op, xs[1])) \cup {Neutral(op)}, NEW b \in Exprs
               PROVE  expr_eq[<< a, b >>] => Equal(a, b)
    BY DEF Sound
  <2>1. Leaves(op, xs[1]) \in Seq(Exprs) /\ Neutral(op) \in Exprs
    BY ExprsLevel, LeavesOf, NeutralAtoms
  <2>2. a \in Exprs
    BY <2>1 DEF Range
  <2> QED BY <2>2, EqSound
<1> DEFINE xs == CancelFirst(expr_eq, es)
           ys == CancelSecond(expr_eq, xs)
<1>2. xs \in Exprs \X Exprs /\ Leaving(es[1], es[2], xs[1], xs[2])
  <2>1. CASE es[1].op \in AndOr
    BY <2>1, <1>1, CancelMade DEF CancelFirst
  <2>2. CASE es[1].op \notin AndOr
    BY <2>2 DEF CancelFirst, Leaving
  <2> QED BY <2>1, <2>2
<1>3. ys \in Exprs \X Exprs /\ Leaving(xs[1], xs[2], ys[1], ys[2])
  <2> HIDE DEF xs
  <2>1. CASE xs[2].op \in AndOr \ {xs[1].op}
    BY <2>1, <1>1, <1>2, CancelMade DEF CancelSecond
  <2>2. CASE xs[2].op \notin AndOr \ {xs[1].op}
    BY <2>2, <1>2 DEF CancelSecond, Leaving
  <2> QED BY <2>1, <2>2
<1>4. Eliminated(expr_eq, es) = Tidy(ys)
  BY DEF Eliminated
<1> HIDE DEF xs, ys
<1>5. /\ Tidy(ys)[1] \in Exprs /\ Tidy(ys)[2] \in Exprs
      /\ Equal(ys[1], Tidy(ys)[1]) /\ Equal(ys[2], Tidy(ys)[2])
  BY <1>3, SameTidy
<1>6. T(Tidy(ys)[2], v, t)
  <2>1. Tidy(ys)[2] = Null \/ Tidy(ys)[2] = Y
    BY <1>4 DEF expr_is_yes
  <2> QED BY <2>1, ConstantsHold, NullHolds
<1>7. T(ys[2], v, t)
  BY <1>5, <1>6, Zenon DEF Equal
<1> QED BY <1>2, <1>3, <1>7, Zenon DEF Leaving, Implies

-----------------------------------------------------------------------------
(* expr_transform                                                          *)
EqualOn(V, e, x) == \A v \in V : \A t \in 1..2 : T(x, v, t) <=> T(e, v, t)
Normalised(e, x) == \A n \in Nat : e \in Level("any", n) => x \in Level("normal", n)

TransformBody(c, f, e) ==
    IF e.op \in AndOr
    THEN Nary(e.op, [i \in DOMAIN e.args |-> f[e.args[i]]])
    ELSE IF e.op = "not" THEN Negated(f, f[e.arg])
    ELSE IF e.op \in {"eq", "neq"} /\ e.sym \in Bools /\ e.val \in Const
         THEN BoolTest(e)
    ELSE e
TransformGood(c, e, x) ==
    IF e = Null THEN x = Null ELSE Normalised(e, x) /\ EqualOn(Assignments, e, x)
TransformRec == INSTANCE Recursion
    WITH Dom <- CondDom, rank <- condRank, Body <- TransformBody, Good <- TransformGood, Step <- NoStep

(* The values a bool symbol can have are y and n.                          *)
LEMMA AssignmentValues ==
    /\ Assignments \subseteq Values
    /\ \A v \in Assignments : \A s \in Bools : v[s] \in {0, 2} /\ ValueOf(s, v) = v[s]
<1>1. Assignments \subseteq Values
  BY DEF Assignments
<1>2. ASSUME NEW v \in Assignments, NEW s \in Bools
      PROVE  v[s] \in {0, 2} /\ ValueOf(s, v) = v[s]
  <2>1. v[s] \in no..yes /\ v[s] # mod
    BY DEF Assignments, Values, Symbols
  <2>2. s \notin {"n", "m", "y"}
    BY NamesAssumption
  <2> QED BY <2>1, <2>2 DEF no, mod, yes, ValueOf
<1> QED BY <1>1, <1>2

(* What is normalised is an expression.                                    *)
LEMMA NormalisedExpr ==
    ASSUME NEW e \in Exprs, NEW x, Normalised(e, x)
    PROVE  x \in Exprs /\ x \in Level("normal", MaxDepth)
<1>1. x \in Level("normal", MaxDepth)
  BY ExprsLevel DEF Normalised
<1> QED BY <1>1, ExprsLevel, NormalOnes

(* The expression of a symbol has the symbol's value.                      *)
LEMMA SymAtoms ==
    /\ \A s \in Symbols : /\ expr_alloc_symbol(s) \in Atoms /\ expr_alloc_symbol(s).op = "sym"
                          /\ expr_alloc_symbol(s).sym = s
    /\ \A s \in Symbols, v \in Values : ValueOf(s, v) = v[s] /\ v[s] \in 0..2
<1>1. \A s \in Symbols : s \notin {"n", "m", "y"}
  BY NamesAssumption DEF Symbols
<1>2. \A s \in Symbols : /\ expr_alloc_symbol(s) \in Atoms /\ expr_alloc_symbol(s).op = "sym"
                         /\ expr_alloc_symbol(s).sym = s
  BY <1>1 DEF expr_alloc_symbol, Atoms, Names
<1>3. \A s \in Symbols, v \in Values : ValueOf(s, v) = v[s] /\ v[s] \in 0..2
  BY <1>1 DEF ValueOf, Values, no, yes
<1> QED BY <1>2, <1>3

(* The negation of an atom, of any level but the lowest.                   *)
LEMMA NotAtom ==
    ASSUME NEW a \in Atoms, NEW n \in Nat, NEW kind \in Kinds, n > 0
    PROVE  /\ Not(a) \in Level(kind, n) /\ Not(a).op = "not" /\ Not(a).arg = a
           /\ n <= MaxDepth => Not(a) \in Exprs
<1>1. n - 1 \in Nat /\ (n - 1) + 1 = n
  OBVIOUS
<1>2. Not(a) \in Level(kind, n) /\ Not(a) \in Level("any", n)
  BY <1>1, Builds
<1>3. n <= MaxDepth => Level("any", n) \subseteq Exprs
  BY ExprsLevel, LevelsNest
<1>4. Not(a).op = "not" /\ Not(a).arg = a
  BY DEF Not
<1> QED BY <1>2, <1>3, <1>4

(* A comparison of a bool symbol with a constant, case by case.            *)
LEMMA BoolTestCases ==
    ASSUME NEW e, e.op \in {"eq", "neq"}, e.val \in Const
    PROVE  /\ e.val = "m" => BoolTest(e) = (IF e.op = "eq" THEN N ELSE Y)
           /\ e.val = "y" => BoolTest(e) = (IF e.op = "eq" THEN expr_alloc_symbol(e.sym)
                                            ELSE Not(expr_alloc_symbol(e.sym)))
           /\ e.val = "n" => BoolTest(e) = (IF e.op = "eq" THEN Not(expr_alloc_symbol(e.sym))
                                            ELSE expr_alloc_symbol(e.sym))
<1>1. CASE e.val = "m"
  <2>1. "m" # "y" /\ "m" # "n"
    OBVIOUS
  <2> QED BY <1>1, <2>1, Zenon DEF BoolTest
<1>2. CASE e.val = "y"
  <2>1. e.val # "m" /\ "n" # "y"
    BY <1>2
  <2>2. ((e.val = "y") = (e.op = "eq")) <=> e.op = "eq"
    BY <1>2, Zenon
  <2> QED BY <1>2, <2>1, <2>2, Zenon DEF BoolTest
<1>3. CASE e.val = "n"
  <2>1. e.val # "m" /\ e.val # "y"
    BY <1>3
  <2>2. ((e.val = "y") = (e.op = "eq")) <=> e.op # "eq"
    BY <2>1, Zenon
  <2> QED BY <1>3, <2>1, <2>2, Zenon DEF BoolTest
<1> QED BY <1>1, <1>2, <1>3 DEF Const

(* A comparison of a bool symbol becomes a normal expression that has the  *)
(* same value wherever the symbol is y or n.                               *)
LEMMA BoolTestNormal ==
    ASSUME NEW e \in Exprs, e.op \in {"eq", "neq"}, e.sym \in Bools, e.val \in Const
    PROVE  Normalised(e, BoolTest(e)) /\ EqualOn(Assignments, e, BoolTest(e))
<1> DEFINE a == expr_alloc_symbol(e.sym)
           x == BoolTest(e)
<1>0. \A n \in Nat : e \in Level("any", n) => n > 0
  <2> SUFFICES ASSUME NEW n \in Nat, e \in Level("any", n) PROVE n > 0
    OBVIOUS
  <2>1. Shaped("any", n, e)
    BY Shapes
  <2> QED BY <2>1 DEF Shaped, AndOr
<1>1. a \in Atoms /\ a.op = "sym" /\ a.sym = e.sym
  BY SymAtoms DEF Symbols
<1>2. x = N \/ x = Y \/ x = a \/ x = Not(a)
  BY BoolTestCases DEF Const
<1>3. Normalised(e, x)
  <2> SUFFICES ASSUME NEW n \in Nat, e \in Level("any", n) PROVE x \in Level("normal", n)
    BY DEF Normalised
  <2>1. n > 0
    BY <1>0
  <2>2. Not(a) \in Level("normal", n)
    BY <1>1, <2>1, NotAtom
  <2>3. {N, Y, a} \subseteq Level("normal", n)
    BY <1>1, AtomsAreExprs, AtomsEverywhere
  <2> QED BY <1>2, <2>2, <2>3
<1>4. e \in Level("any", MaxDepth) /\ MaxDepth \in Nat
  BY ExprsLevel
<1>5. Not(a) \in Exprs /\ Not(a).op = "not" /\ Not(a).arg = a
  BY <1>0, <1>1, <1>4, NotAtom
<1>6. ASSUME NEW v \in Assignments, NEW t \in 1..2
      PROVE  T(x, v, t) <=> T(e, v, t)
  <2>0. v \in Values
    BY AssignmentValues
  <2>1. v[e.sym] \in {0, 2} /\ ValueOf(e.sym, v) = v[e.sym]
    BY AssignmentValues
  <2>2. T(e, v, t) <=> ((v[e.sym] = ValueOf(e.val, v)) <=> e.op = "eq")
    BY <2>0, <2>1, TestHolds
  <2>3. T(a, v, t) <=> v[e.sym] = 2
    <3>1. T(a, v, t) <=> v[e.sym] >= t
      BY <1>1, <2>0, <2>1, SymHolds
    <3> QED BY <3>1, <2>1
  <2>4. T(Not(a), v, t) <=> v[e.sym] = 0
    <3>1. T(Not(a), v, t) <=> ~T(a, v, 3 - t)
      BY <1>5, <2>0, NotHolds
    <3>2. T(a, v, 3 - t) <=> v[e.sym] >= 3 - t
      BY <1>1, <2>0, <2>1, SymHolds
    <3> QED BY <3>1, <3>2, <2>1
  <2>5. T(Y, v, t) /\ ~T(N, v, t)
    BY <2>0, ConstantsHold
  <2>6. CASE e.val = "m"
    <3>1. ValueOf(e.val, v) = 1
      BY <2>6 DEF ValueOf, mod
    <3>2. x = IF e.op = "eq" THEN N ELSE Y
      BY <2>6, BoolTestCases
    <3>3. v[e.sym] # ValueOf(e.val, v)
      BY <3>1, <2>1
    <3> QED BY <3>2, <3>3, <2>2, <2>5, Zenon
  <2>7. CASE e.val = "y"
    <3>1. ValueOf(e.val, v) = 2
      BY <2>7 DEF ValueOf, yes
    <3>2. x = IF e.op = "eq" THEN a ELSE Not(a)
      BY <2>7, BoolTestCases
    <3>3. (v[e.sym] = ValueOf(e.val, v)) <=> ~(v[e.sym] = 0)
      BY <3>1, <2>1
    <3>4. (v[e.sym] = ValueOf(e.val, v)) <=> (v[e.sym] = 2)
      BY <3>1, <2>1
    <3> QED BY <3>2, <3>3, <3>4, <2>2, <2>3, <2>4, Zenon
  <2>8. CASE e.val = "n"
    <3>1. ValueOf(e.val, v) = 0
      BY <2>8 DEF ValueOf, no
    <3>2. x = IF e.op = "eq" THEN Not(a) ELSE a
      BY <2>8, BoolTestCases
    <3>3. (v[e.sym] = ValueOf(e.val, v)) <=> ~(v[e.sym] = 2)
      BY <3>1, <2>1
    <3>4. (v[e.sym] = ValueOf(e.val, v)) <=> (v[e.sym] = 0)
      BY <3>1, <2>1
    <3> QED BY <3>2, <3>3, <3>4, <2>2, <2>3, <2>4, Zenon
  <2> QED BY <2>6, <2>7, <2>8 DEF Const
<1> QED BY <1>3, <1>6 DEF EqualOn

(* A function on 1..n is a sequence.                                       *)
LEMMA ListOf ==
    ASSUME NEW S, NEW n \in Nat, NEW k, k = [i \in 1..n |-> k[i]], \A i \in 1..n : k[i] \in S
    PROVE  k \in Seq(S) /\ Len(k) = n
OBVIOUS

(* A negation of which the operand is in normal form.                      *)
LEMMA NotParts ==
    ASSUME NEW e \in Exprs, e.op = "not", NEW x, Normalised(e.arg, x)
    PROVE  /\ x \in Exprs /\ e.arg \in Exprs /\ rk(e) \in Nat
           /\ \A n \in Nat : e \in Level("any", n) => n > 0 /\ x \in Level("normal", n - 1)
           /\ e \in Level("any", rk(e))
<1>1. e.arg \in Exprs /\ rk(e) \in Nat /\ x \in Exprs
  BY ExprParts, NormalisedExpr
<1>2. ASSUME NEW n \in Nat, e \in Level("any", n)
      PROVE  n > 0 /\ x \in Level("normal", n - 1)
  <2>1. Shaped("any", n, e)
    BY <1>2, Shapes
  <2>2. n > 0 /\ e.arg \in Level("any", n - 1)
    BY <2>1 DEF Shaped, AndOr
  <2> QED BY <2>2 DEF Normalised
<1>3. e \in Level("any", rk(e))
  BY ExprsLevel, Ranks
<1> QED BY <1>1, <1>2, <1>3

(* The operands of the negation of a normal tree are of a lower rank.      *)
LEMMA NegatedOperands ==
    ASSUME NEW e \in Exprs, e.op = "not", NEW x, Normalised(e.arg, x), x.op \in AndOr,
           NEW i \in DOMAIN x.args
    PROVE  /\ x.args[i] \in Exprs
           /\ Not(x.args[i]) \in Exprs /\ rk(Not(x.args[i])) < rk(e)
           /\ Not(x.args[i]).op = "not" /\ Not(x.args[i]).arg = x.args[i]
           /\ \A n \in Nat : e \in Level("any", n) => n - 1 \in Nat /\ Not(x.args[i]) \in Level("any", n - 1)
<1>1. /\ x \in Exprs /\ e.arg \in Exprs /\ rk(e) \in Nat
      /\ \A n \in Nat : e \in Level("any", n) => n > 0 /\ x \in Level("normal", n - 1)
      /\ e \in Level("any", rk(e))
  BY NotParts
<1>2. ASSUME NEW n \in Nat, e \in Level("any", n)
      PROVE  n - 1 \in Nat /\ Not(x.args[i]) \in Level("any", n - 1)
  <2>1. n - 1 \in Nat /\ x \in Level("normal", n - 1)
    BY <1>1, <1>2
  <2>2. x.args \in Seq(Level("normal", (n - 1) - 1)) /\ n - 1 > 0
    BY <2>1, Shapes2
  <2> DEFINE m == n - 2
  <2>3. m \in Nat /\ m + 1 = n - 1 /\ (n - 1) - 1 = m
    BY <2>1, <2>2
  <2>4. x.args[i] \in Level("normal", m)
    BY <2>2, <2>3
  <2> HIDE DEF m
  <2>5. x.args[i] \in Level("any", m)
    BY <2>3, <2>4, NormalOnes
  <2>6. Not(x.args[i]) \in Level("any", m + 1)
    BY <2>3, <2>5, Builds
  <2> QED BY <2>1, <2>3, <2>6
<1>3. rk(e) - 1 \in Nat /\ Not(x.args[i]) \in Level("any", rk(e) - 1)
  BY <1>1, <1>2
<1>4. rk(Not(x.args[i])) <= rk(e) - 1
  BY <1>3, Ranks
<1>5. e \in Level("any", MaxDepth) /\ MaxDepth \in Nat
  BY ExprsLevel
<1>6. MaxDepth - 1 \in Nat /\ Not(x.args[i]) \in Level("any", MaxDepth - 1)
  BY <1>2, <1>5
<1>7. Not(x.args[i]) \in Exprs
  BY <1>5, <1>6, ExprsLevel, LevelsNest
<1>8. x.args[i] \in Exprs
  BY <1>1, ExprParts
<1>9. rk(Not(x.args[i])) < rk(e)
  <2>1. rk(Not(x.args[i])) \in Nat
    BY <1>7, ExprParts
  <2> QED BY <2>1, <1>1, <1>4
<1>10. Not(x.args[i]).op = "not" /\ Not(x.args[i]).arg = x.args[i]
  BY DEF Not
<1> QED BY <1>2, <1>7, <1>8, <1>9, <1>10

(* De Morgan's law, for one of the values a tree may reach.                *)
LEMMA DualHolds ==
    ASSUME NEW op \in AndOr, NEW l \in Seq(Exprs), NEW k \in Seq(Exprs), Len(k) = Len(l),
           NEW v \in Values, NEW t \in 1..2,
           \A i \in DOMAIN l : T(k[i], v, t) <=> ~T(l[i], v, 3 - t)
    PROVE  Dual(op) \in AndOr /\ (Holds(Dual(op), k, v, t) <=> ~Holds(op, l, v, 3 - t))
<1>1. DOMAIN k = DOMAIN l
  OBVIOUS
<1>2. CASE op = "and"
  <2>1. Dual(op) = "or"
    BY <1>2 DEF Dual
  <2> QED BY <1>1, <1>2, <2>1 DEF Holds, AndOr
<1>3. CASE op = "or"
  <2>1. Dual(op) = "and"
    BY <1>3 DEF Dual
  <2> QED BY <1>1, <1>3, <2>1 DEF Holds, AndOr
<1> QED BY <1>2, <1>3 DEF AndOr

Negates(e, x, z) ==
    /\ Normalised(e, z)
    /\ \A v \in Assignments : \A t \in 1..2 : T(z, v, t) <=> ~T(x, v, 3 - t)

(* The negation of a normal tree.                                          *)
LEMMA NegatedTree ==
    ASSUME NEW e \in Exprs, e.op = "not", NEW x, Normalised(e.arg, x), x.op \in AndOr,
           NEW f, \A y \in Exprs : rk(y) < rk(e) => TransformGood(0, y, f[y])
    PROVE  Negates(e, x, Nary(Dual(x.op), [i \in DOMAIN x.args |-> f[Not(x.args[i])]]))
<1> DEFINE k == [i \in DOMAIN x.args |-> f[Not(x.args[i])]]
           z == Nary(Dual(x.op), k)
<1>1. /\ x \in Exprs /\ e.arg \in Exprs /\ rk(e) \in Nat
      /\ \A n \in Nat : e \in Level("any", n) => n > 0 /\ x \in Level("normal", n - 1)
  BY NotParts
<1>2. x.args \in Seq(Exprs) /\ Len(x.args) > 1 /\ DOMAIN x.args = 1..Len(x.args)
  BY <1>1, ExprParts
<1>3. \A i \in DOMAIN x.args :
        /\ x.args[i] \in Exprs
        /\ Not(x.args[i]) \in Exprs /\ rk(Not(x.args[i])) < rk(e)
        /\ Not(x.args[i]).op = "not" /\ Not(x.args[i]).arg = x.args[i]
        /\ \A n \in Nat : e \in Level("any", n) => n - 1 \in Nat /\ Not(x.args[i]) \in Level("any", n - 1)
  BY NegatedOperands
<1>4. \A i \in DOMAIN x.args : /\ Normalised(Not(x.args[i]), k[i])
                               /\ EqualOn(Assignments, Not(x.args[i]), k[i])
  BY <1>3, ExprParts DEF TransformGood
<1>5. DOMAIN k = DOMAIN x.args /\ k = [i \in 1..Len(x.args) |-> k[i]]
  BY <1>2
<1> HIDE DEF k
<1>6. Dual(x.op) \in AndOr
  BY DEF Dual, AndOr
<1>7. ASSUME NEW n \in Nat, e \in Level("any", n)
      PROVE  z \in Level("normal", n)
  <2>1. n - 1 \in Nat /\ (n - 1) + 1 = n
    BY <1>1, <1>7
  <2>2. \A i \in DOMAIN x.args : k[i] \in Level("normal", n - 1)
    BY <1>3, <1>4, <1>7 DEF Normalised
  <2> DEFINE S == Level("normal", n - 1)
  <2>3. k \in Seq(S) /\ Len(k) > 0
    <3>1. \A i \in 1..Len(x.args) : k[i] \in S
      BY <2>2, <1>2
    <3> HIDE DEF S
    <3>2. Len(x.args) \in Nat
      BY <1>2
    <3>3. k \in Seq(S) /\ Len(k) = Len(x.args)
      BY <3>1, <3>2, <1>5, ListOf
    <3> QED BY <3>3, <1>2
  <2> QED BY <2>1, <2>3, <1>6, NaryLevel
<1>8. Normalised(e, z)
  BY <1>7 DEF Normalised
<1>9. z \in Exprs
  BY <1>8, NormalisedExpr
<1>10. \A i \in DOMAIN x.args : k[i] \in Exprs
  BY <1>3, <1>4, NormalisedExpr
<1>11. k \in Seq(Exprs) /\ Len(k) = Len(x.args) /\ Len(k) > 0
  BY <1>2, <1>5, <1>10
<1>12. ASSUME NEW v \in Assignments, NEW t \in 1..2
       PROVE  T(z, v, t) <=> ~T(x, v, 3 - t)
  <2>1. v \in Values /\ 3 - t \in 1..2
    BY AssignmentValues
  <2>2. T(x, v, 3 - t) <=> Holds(x.op, x.args, v, 3 - t)
    BY <1>1, <2>1, TreeHolds
  <2>3. T(z, v, t) <=> Holds(Dual(x.op), k, v, t)
    BY <1>6, <1>9, <1>11, <2>1, NaryHolds
  <2>4. \A i \in DOMAIN x.args : T(k[i], v, t) <=> ~T(x.args[i], v, 3 - t)
    <3> SUFFICES ASSUME NEW i \in DOMAIN x.args PROVE T(k[i], v, t) <=> ~T(x.args[i], v, 3 - t)
      OBVIOUS
    <3>1. T(k[i], v, t) <=> T(Not(x.args[i]), v, t)
      BY <1>4 DEF EqualOn
    <3>2. T(Not(x.args[i]), v, t) <=> ~T(x.args[i], v, 3 - t)
      BY <1>3, <2>1, NotHolds
    <3> QED BY <3>1, <3>2
  <2>5. Holds(Dual(x.op), k, v, t) <=> ~Holds(x.op, x.args, v, 3 - t)
    BY <1>2, <1>11, <2>1, <2>4, DualHolds
  <2> QED BY <2>2, <2>3, <2>5
<1> HIDE DEF z
<1>13. Negates(e, x, z)
  BY <1>8, <1>12 DEF Negates
<1> QED BY <1>13 DEF z, k

(* The negation of a comparison.                                           *)
LEMMA NegatedTest ==
    ASSUME NEW e \in Exprs, e.op = "not", NEW x, Normalised(e.arg, x), x.op \in {"eq", "neq"}
    PROVE  Negates(e, x, [x EXCEPT !.op = Flip(@)])
<1> DEFINE z == [x EXCEPT !.op = Flip(@)]
<1>1. /\ x \in Exprs
      /\ \A n \in Nat : e \in Level("any", n) => n > 0
  BY NotParts
<1>2. x \in Comparisons
  BY <1>1, ExprParts
<1>3. /\ z \in Comparisons /\ z.sym = x.sym /\ z.val = x.val /\ z.op = Flip(x.op)
      /\ z.op \in {"eq", "neq"} /\ (z.op = "eq" <=> x.op # "eq")
  BY <1>2 DEF Comparisons, Flip
<1> HIDE DEF z
<1>4. ASSUME NEW n \in Nat, e \in Level("any", n)
      PROVE  z \in Level("normal", n)
  <2>1. n - 1 \in Nat /\ (n - 1) + 1 = n
    BY <1>1, <1>4
  <2> QED BY <2>1, <1>3, Builds
<1>5. Normalised(e, z)
  BY <1>4 DEF Normalised
<1>6. z \in Exprs
  BY <1>5, NormalisedExpr
<1>7. ASSUME NEW v \in Assignments, NEW t \in 1..2
      PROVE  T(z, v, t) <=> ~T(x, v, 3 - t)
  <2>1. v \in Values /\ 3 - t \in 1..2
    BY AssignmentValues
  <2>2. T(x, v, 3 - t) <=> ((ValueOf(x.sym, v) = ValueOf(x.val, v)) <=> x.op = "eq")
    BY <1>1, <2>1, TestHolds
  <2>3. T(z, v, t) <=> ((ValueOf(x.sym, v) = ValueOf(x.val, v)) <=> z.op = "eq")
    BY <1>3, <1>6, <2>1, TestHolds
  <2> QED BY <2>2, <2>3, <1>3, Zenon
<1> QED BY <1>5, <1>7 DEF Negates, z

(* The negation of a symbol or constant.                                   *)
LEMMA NegatedAtom ==
    ASSUME NEW e \in Exprs, e.op = "not", NEW x, Normalised(e.arg, x), x.op = "sym"
    PROVE  /\ x.sym \in Const => Negates(e, x, expr_alloc_symbol(Opposite(x.sym)))
           /\ Negates(e, x, Not(x))
<1>1. /\ x \in Exprs
      /\ \A n \in Nat : e \in Level("any", n) => n > 0
  BY NotParts
<1>2. x \in Atoms
  BY <1>1, ExprParts
<1>3. MaxDepth > 0
  BY <1>1, ExprsLevel
<1>4. ASSUME x.sym \in Const
      PROVE  Negates(e, x, expr_alloc_symbol(Opposite(x.sym)))
  <2> DEFINE z == expr_alloc_symbol(Opposite(x.sym))
  <2>1. x.sym \in {"n", "y"}
    BY <1>2, <1>4 DEF Atoms, Const
  <2>2. /\ x.sym = "n" => Opposite(x.sym) = "y"
        /\ x.sym = "y" => Opposite(x.sym) = "n"
    BY DEF Opposite
  <2>3. z \in Atoms /\ z.sym = Opposite(x.sym)
    BY <2>1, <2>2 DEF expr_alloc_symbol, Atoms, Names, Const
  <2> HIDE DEF z
  <2>4. Normalised(e, z)
    BY <2>3, AtomsEverywhere DEF Normalised
  <2>5. ASSUME NEW v \in Assignments, NEW t \in 1..2
        PROVE  T(z, v, t) <=> ~T(x, v, 3 - t)
    <3>1. v \in Values /\ 3 - t \in 1..2
      BY AssignmentValues
    <3>2. (T(z, v, t) <=> ValueOf(z.sym, v) >= t) /\ (T(x, v, 3 - t) <=> ValueOf(x.sym, v) >= 3 - t)
      BY <1>2, <2>3, <3>1, SymHolds
    <3>3. ValueOf("n", v) = 0 /\ ValueOf("y", v) = 2
      BY DEF ValueOf, no, yes
    <3> QED BY <3>1, <3>2, <3>3, <2>1, <2>2, <2>3
  <2> QED BY <2>4, <2>5 DEF Negates, z
<1>5. Negates(e, x, Not(x))
  <2>1. Normalised(e, Not(x))
    BY <1>1, <1>2, NotAtom DEF Normalised
  <2>2. Not(x) \in Exprs /\ Not(x).op = "not" /\ Not(x).arg = x
    BY <1>2, <1>3, ExprsLevel, NotAtom
  <2>3. ASSUME NEW v \in Assignments, NEW t \in 1..2
        PROVE  T(Not(x), v, t) <=> ~T(x, v, 3 - t)
    BY <2>2, AssignmentValues, NotHolds
  <2> QED BY <2>1, <2>3 DEF Negates
<1> QED BY <1>4, <1>5

(* The negation of a negation.                                             *)
LEMMA NegatedNot ==
    ASSUME NEW e \in Exprs, e.op = "not", NEW x, Normalised(e.arg, x), x.op = "not",
           NEW f, \A y \in Exprs : rk(y) < rk(e) => TransformGood(0, y, f[y])
    PROVE  x.arg \in Exprs /\ rk(x.arg) < rk(e) /\ Negates(e, x, f[x.arg])
<1>1. /\ x \in Exprs /\ rk(e) \in Nat
      /\ \A n \in Nat : e \in Level("any", n) => n > 0 /\ x \in Level("normal", n - 1)
      /\ e \in Level("any", rk(e))
  BY NotParts
<1>2. rk(e) > 0 /\ rk(e) - 1 \in Nat /\ x \in Level("normal", rk(e) - 1)
  BY <1>1
<1>3. x.arg \in Atoms
  <2>1. Shaped("normal", rk(e) - 1, x)
    BY <1>2, Shapes
  <2> QED BY <2>1 DEF Shaped, AndOr
<1>4. x.arg \in Exprs /\ rk(x.arg) = 0 /\ x.arg # Null
  BY <1>3, AtomsAreExprs, AtomRank, ExprParts
<1>5. Normalised(x.arg, f[x.arg]) /\ EqualOn(Assignments, x.arg, f[x.arg])
  BY <1>2, <1>4 DEF TransformGood
<1>6. Normalised(e, f[x.arg])
  BY <1>3, <1>5, AtomsEverywhere DEF Normalised
<1>7. ASSUME NEW v \in Assignments, NEW t \in 1..2
      PROVE  T(f[x.arg], v, t) <=> ~T(x, v, 3 - t)
  <2>1. v \in Values /\ 3 - t \in 1..2 /\ 3 - (3 - t) = t
    BY AssignmentValues
  <2>2. T(x, v, 3 - t) <=> ~T(x.arg, v, 3 - (3 - t))
    BY <1>1, <2>1, NotHolds
  <2>3. T(f[x.arg], v, t) <=> T(x.arg, v, t)
    BY <1>5 DEF EqualOn
  <2> QED BY <2>1, <2>2, <2>3
<1> QED BY <1>2, <1>4, <1>6, <1>7 DEF Negates

(* One step of the recursion of expr_transform.                            *)
LEMMA TransformMade ==
    ASSUME NEW e \in Conds, NEW f, NEW g,
           \A y \in Exprs : rk(y) < rk(e) => f[y] = g[y] /\ TransformGood(0, y, f[y])
    PROVE  TransformBody(0, f, e) = TransformBody(0, g, e) /\ TransformGood(0, e, TransformBody(0, f, e))
<1>1. CASE e = Null
  <2>1. e.op = "null"
    BY <1>1 DEF Null
  <2>2. TransformBody(0, f, e) = e /\ TransformBody(0, g, e) = e
    BY <2>1 DEF TransformBody, AndOr
  <2> QED BY <1>1, <2>2 DEF TransformGood
<1>2. CASE e \in Exprs /\ e.op = "not"
  <2> DEFINE x == f[e.arg]
  <2>1. e.arg \in Exprs /\ rk(e.arg) < rk(e) /\ e.arg # Null
    BY <1>2, ExprParts
  <2>2. x = g[e.arg] /\ Normalised(e.arg, x) /\ EqualOn(Assignments, e.arg, x)
    BY <2>1 DEF TransformGood
  <2> HIDE DEF x
  <2>3. x \in Exprs /\ rk(e) \in Nat
    BY <1>2, <2>2, NotParts
  <2>4. \A y \in Exprs : rk(y) < rk(e) => TransformGood(0, y, f[y])
    OBVIOUS
  <2>5. Negated(f, x) = Negated(g, x) /\ Negates(e, x, Negated(f, x))
    <3>1. CASE x.op = "not"
      <4>1. x.arg \in Exprs /\ rk(x.arg) < rk(e) /\ Negates(e, x, f[x.arg])
        BY <1>2, <2>2, <2>4, <3>1, NegatedNot
      <4>2. Negated(f, x) = f[x.arg] /\ Negated(g, x) = g[x.arg]
        BY <3>1 DEF Negated, AndOr
      <4> QED BY <4>1, <4>2
    <3>2. CASE x.op \in {"eq", "neq"}
      <4>1. Negated(f, x) = [x EXCEPT !.op = Flip(@)] /\ Negated(g, x) = [x EXCEPT !.op = Flip(@)]
        BY <3>2 DEF Negated, AndOr
      <4> QED BY <4>1, <1>2, <2>2, <3>2, NegatedTest
    <3>3. CASE x.op \in AndOr
      <4> DEFINE k == [i \in DOMAIN x.args |-> f[Not(x.args[i])]]
      <4>1. Negates(e, x, Nary(Dual(x.op), k))
        BY <1>2, <2>2, <2>4, <3>3, NegatedTree
      <4>2. \A i \in DOMAIN x.args : f[Not(x.args[i])] = g[Not(x.args[i])]
        BY <1>2, <2>2, <3>3, NegatedOperands
      <4>3. k = [i \in DOMAIN x.args |-> g[Not(x.args[i])]]
        BY <4>2
      <4>4. Negated(f, x) = Nary(Dual(x.op), [i \in DOMAIN x.args |-> f[Not(x.args[i])]])
            /\ Negated(g, x) = Nary(Dual(x.op), [i \in DOMAIN x.args |-> g[Not(x.args[i])]])
        BY <3>3 DEF Negated, AndOr
      <4> HIDE DEF k
      <4> QED BY <4>1, <4>3, <4>4 DEF k
    <3>4. CASE x.op = "sym"
      <4>1. /\ x.sym \in Const => Negates(e, x, expr_alloc_symbol(Opposite(x.sym)))
            /\ Negates(e, x, Not(x))
        BY <1>2, <2>2, <3>4, NegatedAtom
      <4>2. Negated(f, x) = Negated(g, x)
            /\ Negated(f, x) = IF x.sym \in Const THEN expr_alloc_symbol(Opposite(x.sym)) ELSE Not(x)
        <5>1. CASE x.sym \in Const
          <6>1. Negated(f, x) = expr_alloc_symbol(Opposite(x.sym))
                /\ Negated(g, x) = expr_alloc_symbol(Opposite(x.sym))
            BY <3>4, <5>1 DEF Negated, AndOr
          <6> QED BY <5>1, <6>1
        <5>2. CASE x.sym \notin Const
          <6>1. Negated(f, x) = Not(x) /\ Negated(g, x) = Not(x)
            BY <3>4, <5>2 DEF Negated, AndOr
          <6> QED BY <5>2, <6>1
        <5> QED BY <5>1, <5>2
      <4> QED BY <4>1, <4>2
    <3> QED BY <2>3, <3>1, <3>2, <3>3, <3>4, ExprParts DEF AndOr
  <2>6. TransformBody(0, f, e) = Negated(f, x) /\ TransformBody(0, g, e) = Negated(g, x)
    <3>1. "not" \notin AndOr
      BY DEF AndOr
    <3> QED BY <1>2, <2>2, <3>1 DEF TransformBody, x
  <2> DEFINE z == Negated(f, x)
  <2>7. EqualOn(Assignments, e, z)
    <3> SUFFICES ASSUME NEW v \in Assignments, NEW t \in 1..2
                 PROVE  T(z, v, t) <=> T(e, v, t)
      BY DEF EqualOn
    <3>1. v \in Values /\ 3 - t \in 1..2
      BY AssignmentValues
    <3>2. T(z, v, t) <=> ~T(x, v, 3 - t)
      BY <2>5 DEF Negates
    <3>3. T(x, v, 3 - t) <=> T(e.arg, v, 3 - t)
      BY <2>2, <3>1 DEF EqualOn
    <3>4. T(e, v, t) <=> ~T(e.arg, v, 3 - t)
      BY <1>2, <3>1, NotHolds
    <3> QED BY <3>2, <3>3, <3>4, Zenon
  <2>8. e # Null
    BY <1>2, ExprParts
  <2> QED BY <2>5, <2>6, <2>7, <2>8 DEF TransformGood, Negates
<1>3. CASE e \in Exprs /\ e.op \in AndOr
  <2> DEFINE k == [i \in DOMAIN e.args |-> f[e.args[i]]]
             z == Nary(e.op, k)
  <2>1. /\ e.args \in Seq(Exprs) /\ Len(e.args) > 1 /\ DOMAIN e.args = 1..Len(e.args)
        /\ \A i \in DOMAIN e.args : e.args[i] \in Exprs /\ rk(e.args[i]) < rk(e) /\ e.args[i] # Null
    BY <1>3, ExprParts
  <2>2. \A i \in DOMAIN e.args : f[e.args[i]] = g[e.args[i]]
    BY <2>1
  <2>3. [i \in DOMAIN e.args |-> f[e.args[i]]] = [i \in DOMAIN e.args |-> g[e.args[i]]]
    BY <2>2
  <2>4. TransformBody(0, f, e) = z /\ TransformBody(0, g, e) = z
    BY <1>3, <2>3, Zenon DEF TransformBody
  <2>5. \A i \in DOMAIN e.args : Normalised(e.args[i], k[i]) /\ EqualOn(Assignments, e.args[i], k[i])
    BY <2>1 DEF TransformGood
  <2>6. DOMAIN k = 1..Len(e.args) /\ k = [i \in 1..Len(e.args) |-> k[i]]
    BY <2>1
  <2> HIDE DEF k
  <2>7. ASSUME NEW n \in Nat, e \in Level("any", n)
        PROVE  z \in Level("normal", n)
    <3>1. n > 0 /\ e.args \in Seq(Level("any", n - 1))
      BY <1>3, <2>7, Shapes2
    <3>2. n - 1 \in Nat /\ (n - 1) + 1 = n
      BY <3>1
    <3> DEFINE S == Level("normal", n - 1)
    <3>3. \A i \in 1..Len(e.args) : k[i] \in S
      BY <2>1, <2>5, <3>1, <3>2 DEF Normalised
    <3>4. k \in Seq(S) /\ Len(k) > 0
      <4> HIDE DEF S
      <4>1. Len(e.args) \in Nat
        BY <2>1
      <4>2. k \in Seq(S) /\ Len(k) = Len(e.args)
        BY <3>3, <4>1, <2>6, ListOf
      <4> QED BY <4>2, <2>1
    <3> QED BY <1>3, <3>2, <3>4, NaryLevel
  <2>8. Normalised(e, z)
    BY <2>7 DEF Normalised
  <2>9. \A i \in 1..Len(e.args) : k[i] \in Exprs
    BY <2>1, <2>5, NormalisedExpr
  <2>10. k \in Seq(Exprs) /\ Len(k) > 0
    BY <2>1, <2>6, <2>9
  <2>11. ASSUME NEW v \in Assignments, NEW t \in 1..2
         PROVE  T(z, v, t) <=> T(e, v, t)
    <3>0. v \in Values
      BY AssignmentValues
    <3>1. T(z, v, t) <=> Holds(e.op, k, v, t)
      BY <1>3, <2>8, <2>10, <3>0, NormalisedExpr, NaryHolds
    <3>2. T(e, v, t) <=> Holds(e.op, e.args, v, t)
      BY <1>3, <3>0, TreeHolds
    <3>3. \A i \in DOMAIN e.args : T(k[i], v, t) <=> T(e.args[i], v, t)
      BY <2>5 DEF EqualOn
    <3> QED BY <3>1, <3>2, <3>3, <2>1, <2>6 DEF Holds
  <2>12. e # Null
    BY <1>3, ExprParts
  <2> HIDE DEF z
  <2> QED BY <2>4, <2>8, <2>11, <2>12 DEF TransformGood, EqualOn
<1>4. CASE e \in Exprs /\ e.op \in {"eq", "neq"} /\ e.sym \in Bools /\ e.val \in Const
  <2>1. TransformBody(0, f, e) = BoolTest(e) /\ TransformBody(0, g, e) = BoolTest(e)
    <3>1. e.op \notin AndOr /\ e.op # "not"
      BY <1>4 DEF AndOr
    <3> QED BY <1>4, <3>1, Zenon DEF TransformBody
  <2>2. e # Null
    BY <1>4, ExprParts
  <2> QED BY <1>4, <2>1, <2>2, BoolTestNormal DEF TransformGood
<1>5. CASE /\ e \in Exprs
           /\ e.op \in {"sym", "eq", "neq"}
           /\ ~(e.op \in {"eq", "neq"} /\ e.sym \in Bools /\ e.val \in Const)
  <2>1. TransformBody(0, f, e) = e /\ TransformBody(0, g, e) = e
    <3>1. e.op \notin AndOr /\ e.op # "not"
      BY <1>5 DEF AndOr
    <3> QED BY <1>5, <3>1, Zenon DEF TransformBody
  <2>2. e # Null
    BY <1>5, ExprParts
  <2>3. ASSUME NEW n \in Nat, e \in Level("any", n)
        PROVE  e \in Level("normal", n)
    <3>1. Shaped("any", n, e)
      BY <2>3, Shapes
    <3>2. e \in Atoms \/ (n > 0 /\ e \in Comparisons)
      BY <1>5, <3>1 DEF Shaped, AndOr
    <3>3. CASE n > 0 /\ e \in Comparisons
      <4>1. n - 1 \in Nat /\ (n - 1) + 1 = n
        BY <3>3
      <4> QED BY <3>3, <4>1, Builds
    <3> QED BY <3>2, <3>3, AtomsEverywhere
  <2> QED BY <2>1, <2>2, <2>3 DEF TransformGood, Normalised, EqualOn
<1>6. e = Null \/ (e \in Exprs /\ e.op \in {"sym", "eq", "neq", "not", "and", "or"})
  BY ExprParts DEF Conds
<1> QED BY <1>1, <1>2, <1>3, <1>4, <1>5, <1>6 DEF AndOr

(* expr_transform makes a normal expression, no deeper than the one it is  *)
(* given, that has the same value for all values the symbols can have.     *)
LEMMA Transformed ==
    \A e \in Conds : TransformGood(0, e, expr_transform[e])
<1>1. TransformRec!Ranked(0)
  BY CondRanks DEF TransformRec!Ranked, CondDom
<1>2. TransformRec!Local(0)
  <2> SUFFICES ASSUME NEW e \in Conds, NEW f, NEW g,
                      \A y \in TransformRec!Below(0, condRank(0, e)) :
                          f[y] = g[y] /\ TransformGood(0, y, f[y])
               PROVE  TransformBody(0, f, e) = TransformBody(0, g, e)
                      /\ TransformGood(0, e, TransformBody(0, f, e))
    BY DEF TransformRec!Local, CondDom
  <2>1. CASE e \in Exprs
    <3>1. \A y \in Exprs : rk(y) < rk(e) => f[y] = g[y] /\ TransformGood(0, y, f[y])
      <4> SUFFICES ASSUME NEW y \in Exprs, rk(y) < rk(e)
                   PROVE  f[y] = g[y] /\ TransformGood(0, y, f[y])
        OBVIOUS
      <4>1. y \in Conds /\ condRank(0, y) = rk(y) /\ condRank(0, e) = rk(e)
        BY <2>1, CondRanks DEF Conds
      <4> QED BY <4>1 DEF TransformRec!Below, CondDom
    <3> QED BY <3>1, TransformMade
  <2>2. CASE e = Null
    <3>1. TransformBody(0, f, e) = e /\ TransformBody(0, g, e) = e
      <4>1. e.op = "null"
        BY <2>2 DEF Null
      <4> QED BY <4>1 DEF TransformBody, AndOr
    <3> QED BY <2>2, <3>1 DEF TransformGood
  <2> QED BY <2>1, <2>2 DEF Conds
<1>3. /\ \E f : f = [e \in Conds |-> TransformBody(0, f, e)]
      /\ \A f : f = [e \in Conds |-> TransformBody(0, f, e)]
                => \A e \in Conds : TransformGood(0, e, f[e])
  BY <1>1, <1>2, TransformRec!Defined DEF CondDom
<1>4. expr_transform = [e \in Conds |-> TransformBody(0, expr_transform, e)]
  <2> DEFINE h == CHOOSE f : f = [e \in Conds |-> TransformBody(0, f, e)]
  <2>1. h = [e \in Conds |-> TransformBody(0, h, e)]
    BY <1>3, Zenon
  <2>2. expr_transform = h
    BY DEF expr_transform, TransformBody
  <2> HIDE DEF h
  <2> QED BY <2>1, <2>2, Zenon
<1> QED BY <1>3, <1>4, Zenon

-----------------------------------------------------------------------------
(* Joining two operands                                                    *)
LEMMA EqSelf ==
    ASSUME NEW a \in Exprs, a.op \in {"sym", "eq", "neq"}
    PROVE  expr_eq[<< a, a >>]
<1>1. << a, a >> \in Exprs \X Exprs /\ << a, a >>[1] = a /\ << a, a >>[2] = a
  OBVIOUS
<1>2. expr_eq[<< a, a >>] = EqBody(0, expr_eq, << a, a >>)
  BY <1>1, EqDefined
<1>3. a.op \notin AndOr /\ a.op # "not"
  BY DEF AndOr
<1>4. EqBody(0, expr_eq, << a, a >>)
  BY <1>1, <1>3, Zenon DEF EqBody
<1> QED BY <1>2, <1>4

(* The values of the constants.                                            *)
LEMMA Constants ==
    ASSUME NEW v
    PROVE  ValueOf("n", v) = 0 /\ ValueOf("m", v) = 1 /\ ValueOf("y", v) = 2
BY DEF ValueOf, no, mod, yes

(* A comparison of a symbol with a constant.                               *)
LEMMA CompHolds ==
    ASSUME NEW s \in Symbols, NEW c \in Const, NEW op \in {"eq", "neq"}
    PROVE  LET x == expr_alloc_comp(op, s, c)
           IN  /\ x.op = op /\ x.sym = s /\ x.val = c
               /\ \A kind \in Kinds, n \in Nat : n > 0 => x \in Level(kind, n)
               /\ MaxDepth > 0 =>
                    /\ x \in Exprs
                    /\ \A v \in Values, t \in 1..2 :
                          T(x, v, t) <=> ((v[s] = ValueOf(c, v)) <=> op = "eq")
<1> DEFINE x == expr_alloc_comp(op, s, c)
<1>1. x.op = op /\ x.sym = s /\ x.val = c /\ x \in Comparisons
  BY DEF expr_alloc_comp, Comparisons, Names
<1> HIDE DEF x
<1>2. ASSUME NEW kind \in Kinds, NEW n \in Nat, n > 0 PROVE x \in Level(kind, n)
  <2>1. n - 1 \in Nat /\ (n - 1) + 1 = n
    BY <1>2
  <2> QED BY <1>1, <2>1, Builds
<1>3. MaxDepth > 0 => x \in Exprs
  BY <1>2, ExprsLevel
<1>4. ASSUME MaxDepth > 0, NEW v \in Values, NEW t \in 1..2
      PROVE  T(x, v, t) <=> ((v[s] = ValueOf(c, v)) <=> op = "eq")
  <2>1. T(x, v, t) <=> ((ValueOf(x.sym, v) = ValueOf(x.val, v)) <=> x.op = "eq")
    BY <1>1, <1>3, <1>4, TestHolds
  <2>2. ValueOf(s, v) = v[s]
    BY SymAtoms
  <2> QED BY <1>1, <2>1, <2>2
<1> QED BY <1>1, <1>2, <1>3, <1>4 DEF x

Both(op, a, b) == IF op = "and" THEN a /\ b ELSE a \/ b
(* What a joined operand x has to be for operands e1 and e2 of op.         *)
Joins(op, e1, e2, x) ==
    /\ x.op # op
    /\ \A kind \in Kinds : \A n \in Nat :
          e1 \in Level(kind, n) /\ e2 \in Level(kind, n) => x \in Level(kind, n)
    /\ \A v \in Assignments : \A t \in 1..2 : T(x, v, t) <=> Both(op, T(e1, v, t), T(e2, v, t))

(* Two equal operands are one.                                             *)
LEMMA JoinSame ==
    ASSUME NEW op \in AndOr, NEW e1 \in Exprs, NEW e2 \in Exprs, e1.op # op, expr_eq[<< e1, e2 >>]
    PROVE  Joins(op, e1, e2, e1)
<1>1. Equal(e1, e2)
  BY EqSound
<1> QED BY <1>1, AssignmentValues, Zenon DEF Joins, Both, Equal

(* Two different tests of one tristate symbol with constants.              *)
Tests2(e1, e2, s) ==
    /\ e1.op \in {"eq", "neq"} /\ e2.op \in {"eq", "neq"}
    /\ e1.sym = s /\ e2.sym = s /\ s \in Symbols
    /\ e1.val \in Const /\ e2.val \in Const

(* A comparison is of any level but the lowest.                            *)
LEMMA TestLevels ==
    ASSUME NEW e \in Exprs, e.op \in {"eq", "neq"}
    PROVE  MaxDepth > 0 /\ \A kind \in Kinds : \A n \in Nat : e \in Level(kind, n) => n > 0
<1>1. ASSUME NEW kind \in Kinds, NEW n \in Nat, e \in Level(kind, n) PROVE n > 0
  <2>1. Shaped(kind, n, e)
    BY <1>1, Shapes
  <2> QED BY <2>1 DEF Shaped, AndOr
<1> QED BY <1>1, ExprsLevel

(* Two comparisons of one symbol with constants are joined to a third.     *)
LEMMA JoinTests ==
    ASSUME NEW op \in AndOr, NEW e1 \in Exprs, NEW e2 \in Exprs, NEW s, Tests2(e1, e2, s),
           NEW o \in {"eq", "neq"}, NEW c \in Const,
           \A v \in Assignments : \A t \in 1..2 :
              ((v[s] = ValueOf(c, v)) <=> o = "eq")
                <=> Both(op, (v[s] = ValueOf(e1.val, v)) <=> e1.op = "eq",
                             (v[s] = ValueOf(e2.val, v)) <=> e2.op = "eq")
    PROVE  Joins(op, e1, e2, expr_alloc_comp(o, s, c))
<1> DEFINE x == expr_alloc_comp(o, s, c)
<1>1. s \in Symbols /\ e1.sym = s /\ e2.sym = s
  BY DEF Tests2
<1>2. MaxDepth > 0 /\ \A kind \in Kinds : \A n \in Nat : e1 \in Level(kind, n) => n > 0
  BY TestLevels DEF Tests2
<1>3. /\ x.op = o
      /\ \A kind \in Kinds, n \in Nat : n > 0 => x \in Level(kind, n)
      /\ \A v \in Values, t \in 1..2 : T(x, v, t) <=> ((v[s] = ValueOf(c, v)) <=> o = "eq")
  BY <1>1, <1>2, CompHolds
<1> HIDE DEF x
<1>4. ASSUME NEW v \in Assignments, NEW t \in 1..2
      PROVE  T(x, v, t) <=> Both(op, T(e1, v, t), T(e2, v, t))
  <2>1. v \in Values /\ ValueOf(s, v) = v[s]
    BY <1>1, AssignmentValues, SymAtoms
  <2>2. T(e1, v, t) <=> ((v[s] = ValueOf(e1.val, v)) <=> e1.op = "eq")
    BY <1>1, <2>1, TestHolds DEF Tests2
  <2>3. T(e2, v, t) <=> ((v[s] = ValueOf(e2.val, v)) <=> e2.op = "eq")
    BY <1>1, <2>1, TestHolds DEF Tests2
  <2>4. T(x, v, t) <=> ((v[s] = ValueOf(c, v)) <=> o = "eq")
    BY <1>3, <2>1
  <2> QED BY <2>2, <2>3, <2>4, Zenon DEF Both
<1>5. x.op # op
  BY <1>3 DEF AndOr
<1> QED BY <1>2, <1>3, <1>4, <1>5, Zenon DEF Joins, x

(* Two comparisons of one symbol with two constants leave the third.       *)
LEMMA BothTests ==
    ASSUME NEW op \in {"eq", "neq"}, NEW e1 \in Exprs, NEW e2 \in Exprs,
           ~expr_eq[<< e1, e2 >>], Joinable(e1, e2), BothTest(op, e1, e2)
    PROVE  /\ Tests2(e1, e2, SymOf(e1)) /\ e1.op = op /\ e2.op = op
           /\ e1.val # e2.val
           /\ Other(e1.val, e2.val) \in Const \ {e1.val, e2.val}
<1>1. e1.op = op /\ e2.op = op /\ e1.val \in Const /\ e2.val \in Const
  BY DEF BothTest
<1>2. SymOf(e1) = e1.sym /\ SymOf(e2) = e2.sym
  BY <1>1 DEF SymOf
<1>3. Tests2(e1, e2, SymOf(e1))
  BY <1>1, <1>2 DEF Joinable, Tests2
<1>4. e1.val # e2.val
  <2>1. SUFFICES ASSUME e1.val = e2.val PROVE FALSE
    OBVIOUS
  <2>2. e1 \in Comparisons /\ e2 \in Comparisons
    BY <1>1, ExprParts
  <2>3. e1.sym = e2.sym
    BY <1>2 DEF Joinable
  <2>4. /\ e1 = [op |-> e1.op, sym |-> e1.sym, val |-> e1.val]
        /\ e2 = [op |-> e2.op, sym |-> e2.sym, val |-> e2.val]
    BY <2>2 DEF Comparisons
  <2>5. e1 = e2
    BY <2>1, <2>3, <2>4, <1>1, Zenon
  <2> QED BY <2>5, <1>1, EqSelf
<1>5. \E c \in Const : c \notin {e1.val, e2.val}
  BY <1>1 DEF Const
<1>6. Other(e1.val, e2.val) \in Const \ {e1.val, e2.val}
  BY <1>5 DEF Other
<1> QED BY <1>1, <1>3, <1>4, <1>6

(* Of three different constants a value is one.                            *)
LEMMA ThirdConstant ==
    ASSUME NEW a \in Const, NEW b \in Const, NEW c \in Const \ {a, b}, a # b,
           NEW s \in Symbols, NEW v \in Values
    PROVE  /\ v[s] # ValueOf(c, v) <=> v[s] = ValueOf(a, v) \/ v[s] = ValueOf(b, v)
           /\ v[s] = ValueOf(a, v) => v[s] # ValueOf(b, v)
<1>1. v[s] \in 0..2
  BY SymAtoms
<1>2. ValueOf("n", v) = 0 /\ ValueOf("m", v) = 1 /\ ValueOf("y", v) = 2
  BY Constants
<1> QED BY <1>1, <1>2 DEF Const

(* The two cases of expr_join_or.                                          *)
LEMMA JoinOrCases ==
    ASSUME NEW e1, NEW e2, NEW s, JoinOrSame(e1, e2, s) # Null
    PROVE  \/ /\ BothTest("eq", e1, e2)
              /\ JoinOrSame(e1, e2, s) = expr_alloc_comp("neq", s, Other(e1.val, e2.val))
           \/ /\ s \in Bools
              /\ {e1, e2} = {expr_alloc_symbol(s), Not(expr_alloc_symbol(s))}
              /\ JoinOrSame(e1, e2, s) = Y
<1>1. CASE BothTest("eq", e1, e2)
  <2>1. e1.op = "eq"
    BY <1>1 DEF BothTest
  <2>2. {e1, e2} # {expr_alloc_symbol(s), Not(expr_alloc_symbol(s))}
    BY <2>1 DEF expr_alloc_symbol, Not
  <2>3. JoinOrSame(e1, e2, s) = expr_alloc_comp("neq", s, Other(e1.val, e2.val))
    BY <1>1, <2>2 DEF JoinOrSame
  <2> QED BY <1>1, <2>3
<1>2. CASE ~BothTest("eq", e1, e2)
           /\ s \in Bools /\ {e1, e2} = {expr_alloc_symbol(s), Not(expr_alloc_symbol(s))}
  BY <1>2 DEF JoinOrSame
<1>3. CASE ~BothTest("eq", e1, e2)
           /\ ~(s \in Bools /\ {e1, e2} = {expr_alloc_symbol(s), Not(expr_alloc_symbol(s))})
  BY <1>3 DEF JoinOrSame
<1> QED BY <1>1, <1>2, <1>3

(* expr_join_or joins two operands to one of the value of both.            *)
LEMMA JoinOr ==
    ASSUME NEW e1 \in Exprs, NEW e2 \in Exprs, e1.op # "or", e2.op # "or",
           expr_join_or(e1, e2) # Null
    PROVE  Joins("or", e1, e2, expr_join_or(e1, e2))
<1> DEFINE s == SymOf(e1)
           x == expr_join_or(e1, e2)
<1>1. CASE expr_eq[<< e1, e2 >>]
  <2>1. x = e1
    BY <1>1 DEF expr_join_or
  <2> HIDE DEF x
  <2>2. "or" \in AndOr
    BY DEF AndOr
  <2>3. Joins("or", e1, e2, e1)
    BY <1>1, <2>2, JoinSame
  <2> QED BY <2>1, <2>3 DEF x
<1>2. CASE ~expr_eq[<< e1, e2 >>]
  <2>1. Joinable(e1, e2) /\ x = JoinOrSame(e1, e2, s)
    BY <1>2 DEF expr_join_or
  <2>2. s \in Symbols
    BY <2>1 DEF Joinable
  <2>3. CASE BothTest("eq", e1, e2) /\ x = expr_alloc_comp("neq", s, Other(e1.val, e2.val))
    <3> DEFINE c == Other(e1.val, e2.val)
    <3>1. /\ Tests2(e1, e2, s) /\ e1.op = "eq" /\ e2.op = "eq"
          /\ e1.val # e2.val /\ c \in Const \ {e1.val, e2.val}
      BY <1>2, <2>1, <2>3, BothTests
    <3>2. e1.val \in Const /\ e2.val \in Const
      BY <3>1 DEF Tests2
    <3> HIDE DEF c, s
    <3>3. ASSUME NEW v \in Assignments, NEW t \in 1..2
          PROVE  ((v[s] = ValueOf(c, v)) <=> "neq" = "eq")
                   <=> Both("or", (v[s] = ValueOf(e1.val, v)) <=> e1.op = "eq",
                                  (v[s] = ValueOf(e2.val, v)) <=> e2.op = "eq")
      <4>1. v \in Values
        BY AssignmentValues
      <4>2. v[s] # ValueOf(c, v) <=> v[s] = ValueOf(e1.val, v) \/ v[s] = ValueOf(e2.val, v)
        BY <3>1, <3>2, <4>1, <2>2, ThirdConstant
      <4>3. "neq" # "eq" /\ "or" # "and"
        OBVIOUS
      <4> QED BY <4>2, <4>3, <3>1, Zenon DEF Both
    <3>4. "or" \in AndOr /\ c \in Const
      BY <3>1 DEF AndOr
    <3>5. Joins("or", e1, e2, expr_alloc_comp("neq", s, c))
      BY <3>1, <3>3, <3>4, JoinTests
    <3> QED BY <2>3, <3>5 DEF c
  <2>4. CASE s \in Bools /\ {e1, e2} = {expr_alloc_symbol(s), Not(expr_alloc_symbol(s))} /\ x = Y
    <3> DEFINE a == expr_alloc_symbol(s)
    <3>1. a \in Atoms /\ a.op = "sym" /\ a.sym = s
      BY <2>2, SymAtoms
    <3>2. Not(a) \in Exprs /\ Not(a).op = "not" /\ Not(a).arg = a
      BY <2>4 DEF Not
    <3> HIDE DEF a, x
    <3>3. ASSUME NEW v \in Assignments, NEW t \in 1..2
          PROVE  T(Y, v, t) <=> Both("or", T(e1, v, t), T(e2, v, t))
      <4>1. v \in Values /\ v[s] \in {0, 2} /\ ValueOf(s, v) = v[s] /\ 3 - t \in 1..2
        BY <2>4, AssignmentValues
      <4>2. T(a, v, t) <=> v[s] >= t
        BY <3>1, <4>1, SymHolds
      <4>3. T(Not(a), v, t) <=> ~T(a, v, 3 - t)
        BY <3>2, <4>1, NotHolds
      <4>4. T(a, v, 3 - t) <=> v[s] >= 3 - t
        BY <3>1, <4>1, SymHolds
      <4>5. T(a, v, t) \/ T(Not(a), v, t)
        BY <4>1, <4>2, <4>3, <4>4
      <4>6. T(Y, v, t)
        BY <4>1, ConstantsHold
      <4>7. (e1 = a /\ e2 = Not(a)) \/ (e2 = a /\ e1 = Not(a))
        BY <2>4, <3>1, <3>2 DEF a
      <4>8. "or" # "and"
        OBVIOUS
      <4> QED BY <4>5, <4>6, <4>7, <4>8, Zenon DEF Both
    <3>4. Y.op # "or" /\ \A kind \in Kinds : \A n \in Nat : Y \in Level(kind, n)
      BY AtomsAreExprs, AtomsEverywhere DEF Y, expr_alloc_symbol
    <3>5. Joins("or", e1, e2, Y)
      BY <3>3, <3>4, Zenon DEF Joins
    <3> QED BY <2>4, <3>5, Zenon DEF x
  <2> QED BY <2>1, <2>3, <2>4, JoinOrCases
<1> QED BY <1>1, <1>2

(* The six cases of expr_join_and.                                         *)
LEMMA JoinAndCases ==
    ASSUME NEW e1 \in Exprs, NEW e2 \in Exprs, NEW s, JoinAndSame(e1, e2, s) # Null
    PROVE  \/ IsWith(e1, e2, s, "eq", "y") /\ JoinAndSame(e1, e2, s) = expr_alloc_comp("eq", s, "y")
           \/ IsWith(e1, e2, s, "neq", "n") /\ JoinAndSame(e1, e2, s) = expr_alloc_symbol(s)
           \/ IsWith(e1, e2, s, "neq", "m") /\ JoinAndSame(e1, e2, s) = expr_alloc_comp("eq", s, "y")
           \/ EqualAndNot(e1, e2) /\ JoinAndSame(e1, e2, s) = IfDiffers(e1, e2)
           \/ EqualAndNot(e2, e1) /\ JoinAndSame(e1, e2, s) = IfDiffers(e2, e1)
           \/ /\ BothTest("neq", e1, e2)
              /\ JoinAndSame(e1, e2, s) = expr_alloc_comp("eq", s, Other(e1.val, e2.val))
<1> DEFINE a == expr_alloc_symbol(s)
           b(op, c) == expr_alloc_comp(op, s, c)
           x == JoinAndSame(e1, e2, s)
<1>1. /\ a.op = "sym"
      /\ \A op, c : b(op, c).op = op /\ b(op, c).val = c
  BY DEF expr_alloc_symbol, expr_alloc_comp
<1>2. \A op, c : IsWith(e1, e2, s, op, c)
                  => (e1 = a /\ e2 = b(op, c)) \/ (e2 = a /\ e1 = b(op, c))
  BY DEF IsWith
<1> HIDE DEF a, b, x
<1>0. \A op, c, op2, c2 : IsWith(e1, e2, s, op, c) /\ IsWith(e1, e2, s, op2, c2)
                            /\ op # "sym" /\ op2 # "sym" => op = op2 /\ c = c2
  BY <1>1, <1>2
<1>3. /\ IsWith(e1, e2, s, "eq", "y") => ~IsWith(e1, e2, s, "neq", "n") /\ ~IsWith(e1, e2, s, "neq", "m")
      /\ IsWith(e1, e2, s, "neq", "n") => ~IsWith(e1, e2, s, "neq", "m")
  <2>1. "eq" # "neq" /\ "eq" # "sym" /\ "neq" # "sym" /\ "n" # "m"
    OBVIOUS
  <2> QED BY <1>0, <2>1, Zenon
<1>4. \A op, c : IsWith(e1, e2, s, op, c) =>
         ~EqualAndNot(e1, e2) /\ ~EqualAndNot(e2, e1) /\ ~BothTest("neq", e1, e2)
  BY <1>1, <1>2 DEF EqualAndNot, BothTest
<1>5. EqualAndNot(e1, e2) => ~EqualAndNot(e2, e1) /\ ~BothTest("neq", e1, e2)
  BY DEF EqualAndNot, BothTest
<1>6. EqualAndNot(e2, e1) => ~BothTest("neq", e1, e2)
  BY DEF EqualAndNot, BothTest
<1>7. CASE IsWith(e1, e2, s, "eq", "y")
  BY <1>7, <1>3, <1>4 DEF JoinAndSame
<1>8. CASE IsWith(e1, e2, s, "neq", "n")
  BY <1>8, <1>3, <1>4 DEF JoinAndSame
<1>9. CASE IsWith(e1, e2, s, "neq", "m")
  BY <1>9, <1>3, <1>4 DEF JoinAndSame
<1>10. CASE EqualAndNot(e1, e2)
  BY <1>10, <1>4, <1>5 DEF JoinAndSame
<1>11. CASE EqualAndNot(e2, e1)
  BY <1>11, <1>4, <1>5, <1>6 DEF JoinAndSame
<1>12. CASE BothTest("neq", e1, e2)
  BY <1>12, <1>4, <1>5, <1>6 DEF JoinAndSame
<1>13. CASE /\ ~IsWith(e1, e2, s, "eq", "y") /\ ~IsWith(e1, e2, s, "neq", "n")
            /\ ~IsWith(e1, e2, s, "neq", "m")
            /\ ~EqualAndNot(e1, e2) /\ ~EqualAndNot(e2, e1) /\ ~BothTest("neq", e1, e2)
  BY <1>13 DEF JoinAndSame
<1> QED BY <1>7, <1>8, <1>9, <1>10, <1>11, <1>12, <1>13

(* A symbol joined with a comparison of it.                                *)
LEMMA JoinWith ==
    ASSUME NEW e1 \in Exprs, NEW e2 \in Exprs, NEW s \in Symbols, NEW op \in {"eq", "neq"},
           NEW c \in Const, IsWith(e1, e2, s, op, c), NEW x, x.op # "and",
           \A kind \in Kinds : \A n \in Nat : n > 0 => x \in Level(kind, n),
           \A v \in Values : \A t \in 1..2 :
               MaxDepth > 0 =>
               (T(x, v, t) <=> v[s] >= t /\ ((v[s] = ValueOf(c, v)) <=> op = "eq"))
    PROVE  Joins("and", e1, e2, x)
<1> DEFINE a == expr_alloc_symbol(s)
           b == expr_alloc_comp(op, s, c)
<1>1. (e1 = a /\ e2 = b) \/ (e2 = a /\ e1 = b)
  BY DEF IsWith
<1>2. a \in Atoms /\ a.op = "sym" /\ a.sym = s /\ b.op = op
  BY SymAtoms DEF expr_alloc_comp
<1> HIDE DEF a, b
<1>3. b \in Exprs /\ b.op \in {"eq", "neq"}
  BY <1>1, <1>2
<1>4. MaxDepth > 0 /\ \A kind \in Kinds : \A n \in Nat : b \in Level(kind, n) => n > 0
  BY <1>3, TestLevels
<1>5. ASSUME NEW v \in Assignments, NEW t \in 1..2
      PROVE  T(x, v, t) <=> Both("and", T(e1, v, t), T(e2, v, t))
  <2>1. v \in Values /\ ValueOf(s, v) = v[s]
    BY AssignmentValues, SymAtoms
  <2>2. T(a, v, t) <=> v[s] >= t
    BY <1>2, <2>1, SymHolds
  <2>3. T(b, v, t) <=> ((v[s] = ValueOf(c, v)) <=> op = "eq")
    BY <1>4, <2>1, CompHolds DEF b
  <2>4. T(x, v, t) <=> v[s] >= t /\ ((v[s] = ValueOf(c, v)) <=> op = "eq")
    BY <1>4, <2>1
  <2> QED BY <1>1, <2>2, <2>3, <2>4, Zenon DEF Both
<1> QED BY <1>1, <1>4, <1>5, Zenon DEF Joins

(* (a = b) && (a != c), in either order.                                   *)
LEMMA JoinEqualNot ==
    ASSUME NEW e1 \in Exprs, NEW e2 \in Exprs, NEW s \in Symbols,
           e1.sym = s, e2.sym = s, EqualAndNot(e1, e2)
    PROVE  /\ Joins("and", e1, e2, IfDiffers(e1, e2))
           /\ Joins("and", e2, e1, IfDiffers(e1, e2))
<1> DEFINE x == IfDiffers(e1, e2)
<1>1. /\ e1.op = "eq" /\ e2.op = "neq"
      /\ e1.val \in Const /\ e2.val \in Const
  BY DEF EqualAndNot
<1>2. x.op # "and"
  BY <1>1, AtomsAreExprs DEF IfDiffers, Atoms
<1>3. \A kind \in Kinds : \A n \in Nat : e1 \in Level(kind, n) => x \in Level(kind, n)
  BY AtomsAreExprs, AtomsEverywhere DEF IfDiffers
<1>4. ASSUME NEW v \in Assignments, NEW t \in 1..2
      PROVE  T(x, v, t) <=> T(e1, v, t) /\ T(e2, v, t)
  <2>1. v \in Values /\ ValueOf(s, v) = v[s]
    BY AssignmentValues, SymAtoms
  <2>2. T(e1, v, t) <=> v[s] = ValueOf(e1.val, v)
    BY <1>1, <2>1, TestHolds
  <2>3. T(e2, v, t) <=> v[s] # ValueOf(e2.val, v)
    BY <1>1, <2>1, TestHolds
  <2>4. e1.val # e2.val => ValueOf(e1.val, v) # ValueOf(e2.val, v)
    BY <1>1, Constants DEF Const
  <2>5. ~T(N, v, t)
    BY <2>1, ConstantsHold
  <2> QED BY <2>2, <2>3, <2>4, <2>5 DEF IfDiffers
<1> HIDE DEF x
<1> QED BY <1>2, <1>3, <1>4, Zenon DEF Joins, Both, x

(* expr_join_and joins two operands to one of the value of both.           *)
LEMMA JoinAnd ==
    ASSUME NEW e1 \in Exprs, NEW e2 \in Exprs, e1.op # "and", e2.op # "and",
           expr_join_and(e1, e2) # Null
    PROVE  Joins("and", e1, e2, expr_join_and(e1, e2))
<1> DEFINE s == SymOf(e1)
           x == expr_join_and(e1, e2)
<1>1. CASE expr_eq[<< e1, e2 >>]
  <2>1. x = e1
    BY <1>1 DEF expr_join_and
  <2> HIDE DEF x
  <2>2. "and" \in AndOr
    BY DEF AndOr
  <2>3. Joins("and", e1, e2, e1)
    BY <1>1, <2>2, JoinSame
  <2> QED BY <2>1, <2>3 DEF x
<1>2. CASE ~expr_eq[<< e1, e2 >>]
  <2>1. Joinable(e1, e2) /\ x = JoinAndSame(e1, e2, s)
    BY <1>2 DEF expr_join_and
  <2>2. s \in Symbols
    BY <2>1 DEF Joinable
  <2>3. \A v \in Values : /\ v[s] \in 0..2 /\ ValueOf("n", v) = 0 /\ ValueOf("m", v) = 1
                          /\ ValueOf("y", v) = 2
    BY <2>2, SymAtoms, Constants
  <2> DEFINE ey == expr_alloc_comp("eq", s, "y")
             a == expr_alloc_symbol(s)
  <2>4. /\ ey.op = "eq"
        /\ \A kind \in Kinds : \A n \in Nat : n > 0 => ey \in Level(kind, n)
        /\ \A v \in Values : \A t \in 1..2 : MaxDepth > 0 => (T(ey, v, t) <=> v[s] = 2)
    <3>1. "y" \in Const /\ "eq" \in {"eq", "neq"}
      BY DEF Const
    <3>2. /\ ey.op = "eq"
          /\ \A kind \in Kinds, n \in Nat : n > 0 => ey \in Level(kind, n)
          /\ MaxDepth > 0 => \A v \in Values, t \in 1..2 :
                                 T(ey, v, t) <=> ((v[s] = ValueOf("y", v)) <=> "eq" = "eq")
      BY <2>2, <3>1, CompHolds
    <3> HIDE DEF ey
    <3> QED BY <3>2, <2>3
  <2>5. /\ a.op = "sym"
        /\ \A kind \in Kinds : \A n \in Nat : a \in Level(kind, n)
        /\ \A v \in Values : \A t \in 1..2 : T(a, v, t) <=> v[s] >= t
    <3>1. a \in Atoms /\ a.op = "sym" /\ a.sym = s
      BY <2>2, SymAtoms
    <3> HIDE DEF a
    <3> QED BY <3>1, <2>2, SymHolds, SymAtoms, AtomsEverywhere
  <2>6. "m" \in Const /\ "n" \in Const /\ "y" \in Const
    BY DEF Const
  <2> HIDE DEF s, x, a, ey
  <2>7. CASE IsWith(e1, e2, s, "eq", "y") /\ x = ey
    <3>1. \A v \in Values : \A t \in 1..2 : MaxDepth > 0 =>
             (T(ey, v, t) <=> v[s] >= t /\ ((v[s] = ValueOf("y", v)) <=> "eq" = "eq"))
      BY <2>3, <2>4
    <3> QED BY <2>2, <2>4, <2>6, <2>7, <3>1, JoinWith DEF x
  <2>8. CASE IsWith(e1, e2, s, "neq", "n") /\ x = a
    <3>1. \A v \in Values : \A t \in 1..2 : MaxDepth > 0 =>
             (T(a, v, t) <=> v[s] >= t /\ ((v[s] = ValueOf("n", v)) <=> "neq" = "eq"))
      BY <2>3, <2>5
    <3> QED BY <2>2, <2>5, <2>6, <2>8, <3>1, JoinWith DEF x
  <2>9. CASE IsWith(e1, e2, s, "neq", "m") /\ x = ey
    <3>1. \A v \in Values : \A t \in 1..2 : MaxDepth > 0 =>
             (T(ey, v, t) <=> v[s] >= t /\ ((v[s] = ValueOf("m", v)) <=> "neq" = "eq"))
      BY <2>3, <2>4
    <3> QED BY <2>2, <2>4, <2>6, <2>9, <3>1, JoinWith DEF x
  <2>10. (EqualAndNot(e1, e2) \/ EqualAndNot(e2, e1)) => e1.sym = s /\ e2.sym = s
    BY <2>1 DEF EqualAndNot, SymOf, Joinable, s
  <2>11. CASE EqualAndNot(e1, e2) /\ x = IfDiffers(e1, e2)
    BY <2>2, <2>10, <2>11, JoinEqualNot DEF x
  <2>12. CASE EqualAndNot(e2, e1) /\ x = IfDiffers(e2, e1)
    BY <2>2, <2>10, <2>12, JoinEqualNot DEF x
  <2>13. CASE BothTest("neq", e1, e2) /\ x = expr_alloc_comp("eq", s, Other(e1.val, e2.val))
    <3> DEFINE c == Other(e1.val, e2.val)
    <3>1. /\ Tests2(e1, e2, s) /\ e1.op = "neq" /\ e2.op = "neq"
          /\ e1.val # e2.val /\ c \in Const \ {e1.val, e2.val}
      BY <1>2, <2>1, <2>13, BothTests DEF s
    <3>2. e1.val \in Const /\ e2.val \in Const
      BY <3>1 DEF Tests2
    <3> HIDE DEF c
    <3>3. ASSUME NEW v \in Assignments, NEW t \in 1..2
          PROVE  ((v[s] = ValueOf(c, v)) <=> "eq" = "eq")
                   <=> Both("and", (v[s] = ValueOf(e1.val, v)) <=> e1.op = "eq",
                                   (v[s] = ValueOf(e2.val, v)) <=> e2.op = "eq")
      <4>1. v \in Values
        BY AssignmentValues
      <4>2. v[s] # ValueOf(c, v) <=> v[s] = ValueOf(e1.val, v) \/ v[s] = ValueOf(e2.val, v)
        BY <3>1, <3>2, <4>1, <2>2, ThirdConstant
      <4>3. "neq" # "eq"
        OBVIOUS
      <4> QED BY <4>2, <4>3, <3>1, Zenon DEF Both
    <3>4. "and" \in AndOr /\ c \in Const
      BY <3>1 DEF AndOr
    <3>5. Joins("and", e1, e2, expr_alloc_comp("eq", s, c))
      BY <3>1, <3>3, <3>4, JoinTests
    <3> QED BY <2>13, <3>5 DEF c, x
  <2> QED BY <2>1, <2>7, <2>8, <2>9, <2>11, <2>12, <2>13, JoinAndCases DEF a, ey, x
<1> QED BY <1>1, <1>2

(* What two operands of a tree are joined to has the value of both, and    *)
(* nests no deeper.                                                        *)
LEMMA Joining ==
    ASSUME NEW op \in AndOr, NEW e1 \in Exprs, NEW e2 \in Exprs, e1.op # op, e2.op # op,
           Join(op, e1, e2) # Null
    PROVE  Joins(op, e1, e2, Join(op, e1, e2))
<1>1. CASE op = "and"
  <2>1. Join(op, e1, e2) = expr_join_and(e1, e2)
    BY <1>1 DEF Join
  <2> QED BY <1>1, <2>1, JoinAnd
<1>2. CASE op = "or"
  <2>1. Join(op, e1, e2) = expr_join_or(e1, e2)
    BY <1>2 DEF Join
  <2> QED BY <1>2, <2>1, JoinOr
<1> QED BY <1>1, <1>2 DEF AndOr

-----------------------------------------------------------------------------
(* A pass over the operands of a tree                                      *)
(* A state of a pass over the operands of e: they nest no deeper, none is  *)
(* a tree of the operator of e, and together they hold, for the values V,  *)
(* where the operands of e do.                                             *)
PassState(V, e, st) ==
    /\ st \in [es : Seq(Exprs), trans : BOOLEAN]
    /\ Len(st.es) = Len(e.args)
    /\ \A i \in DOMAIN e.args : st.es[i].op # e.op
    /\ \A kind \in Kinds : \A n \in Nat : e \in Level(kind, n) => st.es \in Seq(Level(kind, n - 1))
    /\ \A v \in V : \A t \in 1..2 : Holds(e.op, st.es, v, t) <=> Holds(e.op, e.args, v, t)

Passed(V, e) == {st \in [es : Seq(Exprs), trans : BOOLEAN] : PassState(V, e, st)}

(* A pass starts with the operands of the tree.                            *)
LEMMA PassStart ==
    ASSUME NEW V, NEW e \in Branches
    PROVE  Unchanged(e.args) \in Passed(V, e)
<1>1. e \in Exprs /\ e.op \in AndOr
  BY DEF Branches
<1>2. /\ e.args \in Seq(Exprs)
      /\ \A i \in DOMAIN e.args : e.args[i].op # e.op
  BY <1>1, ExprParts
<1>3. \A kind \in Kinds : \A n \in Nat : e \in Level(kind, n) => e.args \in Seq(Level(kind, n - 1))
  BY <1>1, Shapes2
<1>4. Unchanged(e.args).es = e.args /\ Unchanged(e.args) \in [es : Seq(Exprs), trans : BOOLEAN]
  BY <1>2 DEF Unchanged
<1> QED BY <1>2, <1>3, <1>4 DEF Passed, PassState

(* In a pass, every operand is an expression of a lower rank.              *)
LEMMA PassParts ==
    ASSUME NEW V, NEW e \in Branches, NEW st, PassState(V, e, st)
    PROVE  /\ e \in Exprs /\ e.op \in AndOr /\ Len(e.args) \in Nat /\ Len(e.args) > 1
           /\ DOMAIN e.args = 1..Len(e.args) /\ DOMAIN st.es = DOMAIN e.args
           /\ st.es = [i \in 1..Len(e.args) |-> st.es[i]]
           /\ \A i \in DOMAIN e.args : st.es[i] \in Exprs /\ rk(st.es[i]) < rk(e) /\ rk(st.es[i]) \in Nat
<1>1. e \in Exprs /\ e.op \in AndOr
  BY DEF Branches
<1>2. e.args \in Seq(Exprs) /\ Len(e.args) > 1 /\ DOMAIN e.args = 1..Len(e.args) /\ Len(e.args) \in Nat
  BY <1>1, ExprParts
<1>3. st.es \in Seq(Exprs) /\ Len(st.es) = Len(e.args)
  BY DEF PassState
<1>4. e \in Level("any", rk(e)) /\ rk(e) \in Nat
  BY <1>1, ExprsLevel, Ranks
<1>5. rk(e) > 0 /\ rk(e) - 1 \in Nat
  BY <1>1, <1>4, Shapes2
<1>6. st.es \in Seq(Level("any", rk(e) - 1))
  BY <1>4 DEF PassState
<1>7. ASSUME NEW i \in DOMAIN e.args
      PROVE  st.es[i] \in Exprs /\ rk(st.es[i]) < rk(e) /\ rk(st.es[i]) \in Nat
  <2>1. st.es[i] \in Exprs /\ st.es[i] \in Level("any", rk(e) - 1)
    BY <1>2, <1>3, <1>6
  <2>2. rk(st.es[i]) \in Nat /\ rk(st.es[i]) <= rk(e) - 1
    BY <1>5, <2>1, Ranks
  <2> QED BY <2>1, <2>2, <1>4
<1> QED BY <1>1, <1>2, <1>3, <1>7

(* An operand that takes the place of another.                             *)
Replaces(V, op, y, x) ==
    /\ x.op # op
    /\ KeepsLevel(y, x)
    /\ \A v \in V : \A t \in 1..2 : T(x, v, t) <=> T(y, v, t)

(* Some operands are replaced, such that what holds of all is the same.    *)
LEMMA PassChanged ==
    ASSUME NEW V, NEW e \in Branches, NEW st, PassState(V, e, st),
           NEW es, es = [i \in 1..Len(e.args) |-> es[i]], NEW b \in BOOLEAN,
           \A i \in DOMAIN e.args :
              es[i].op # e.op /\ \A kind \in Kinds : \A n \in Nat :
                                    e \in Level(kind, n) => es[i] \in Level(kind, n - 1),
           \A v \in V : \A t \in 1..2 : Holds(e.op, es, v, t) <=> Holds(e.op, st.es, v, t)
    PROVE  PassState(V, e, [es |-> es, trans |-> b])
<1>1. /\ e \in Exprs /\ e.op \in AndOr /\ Len(e.args) \in Nat
      /\ DOMAIN e.args = 1..Len(e.args)
  BY PassParts
<1>2. ASSUME NEW kind \in Kinds, NEW n \in Nat, e \in Level(kind, n)
      PROVE  es \in Seq(Level(kind, n - 1)) /\ Len(es) = Len(e.args)
  <2> DEFINE S == Level(kind, n - 1)
  <2>1. \A i \in 1..Len(e.args) : es[i] \in S
    BY <1>1, <1>2
  <2>2. es \in Seq(S) /\ Len(es) = Len(e.args)
    <3> HIDE DEF S
    <3> QED BY <2>1, <1>1, ListOf
  <2> QED BY <2>2
<1>3. es \in Seq(Exprs) /\ Len(es) = Len(e.args)
  <2>1. e \in Level("any", MaxDepth) /\ MaxDepth > 0 /\ MaxDepth \in Nat
    BY <1>1, ExprsLevel, Shapes2
  <2>2. es \in Seq(Level("any", MaxDepth - 1)) /\ Len(es) = Len(e.args)
    BY <1>2, <2>1
  <2>3. Level("any", MaxDepth - 1) \subseteq Exprs
    BY <2>1, ExprsLevel, LevelsNest
  <2> QED BY <2>2, <2>3
<1> DEFINE z == [es |-> es, trans |-> b]
<1>4. z.es = es /\ z \in [es : Seq(Exprs), trans : BOOLEAN]
  BY <1>3
<1>5. \A v \in V : \A t \in 1..2 : Holds(e.op, es, v, t) <=> Holds(e.op, e.args, v, t)
  BY DEF PassState
<1>6. \A kind \in Kinds : \A n \in Nat : e \in Level(kind, n) => es \in Seq(Level(kind, n - 1))
  BY <1>2
<1> HIDE DEF z
<1> QED BY <1>3, <1>4, <1>5, <1>6 DEF PassState, z

(* One operand is replaced.                                                *)
LEMMA PassReplace ==
    ASSUME NEW V, NEW e \in Branches, NEW st, PassState(V, e, st), NEW i \in DOMAIN e.args,
           NEW x, Replaces(V, e.op, st.es[i], x), NEW b \in BOOLEAN
    PROVE  PassState(V, e, [es |-> [st.es EXCEPT ![i] = x], trans |-> b])
<1> DEFINE es == [st.es EXCEPT ![i] = x]
<1>1. /\ e \in Exprs /\ e.op \in AndOr /\ Len(e.args) \in Nat
      /\ DOMAIN e.args = 1..Len(e.args) /\ DOMAIN st.es = DOMAIN e.args
  BY PassParts
<1>2. /\ es[i] = x /\ \A j \in DOMAIN e.args : j # i => es[j] = st.es[j]
      /\ es = [j \in 1..Len(e.args) |-> es[j]] /\ DOMAIN es = DOMAIN st.es
  BY <1>1
<1> HIDE DEF es
<1>3. \A j \in DOMAIN e.args : es[j].op # e.op
  BY <1>2 DEF PassState, Replaces
<1>4. ASSUME NEW j \in DOMAIN e.args, NEW kind \in Kinds, NEW n \in Nat, e \in Level(kind, n)
      PROVE  es[j] \in Level(kind, n - 1)
  <2>1. st.es \in Seq(Level(kind, n - 1)) /\ n - 1 \in Nat
    BY <1>1, <1>4, Shapes2 DEF PassState
  <2>2. st.es[j] \in Level(kind, n - 1)
    BY <1>1, <2>1
  <2> QED BY <1>2, <2>1, <2>2 DEF Replaces, KeepsLevel
<1>5. ASSUME NEW v \in V, NEW t \in 1..2
      PROVE  Holds(e.op, es, v, t) <=> Holds(e.op, st.es, v, t)
  <2>1. \A j \in DOMAIN e.args : T(es[j], v, t) <=> T(st.es[j], v, t)
    BY <1>2 DEF Replaces
  <2> QED BY <2>1, <1>1, <1>2, Zenon DEF Holds
<1>6. PassState(V, e, [es |-> es, trans |-> b])
  BY <1>2, <1>3, <1>4, <1>5, PassChanged
<1> QED BY <1>6 DEF es

(* A tree with its operands passed over.                                   *)
LEMMA PassTree ==
    ASSUME NEW V \in SUBSET Values, NEW y \in Branches, NEW st, PassState(V, y, st)
    PROVE  /\ [y EXCEPT !.args = st.es] = [op |-> y.op, args |-> st.es]
           /\ KeepsLevel(y, [y EXCEPT !.args = st.es])
           /\ [y EXCEPT !.args = st.es] \in Branches
           /\ \A v \in V : \A t \in 1..2 : T([y EXCEPT !.args = st.es], v, t) <=> T(y, v, t)
<1> DEFINE x == [y EXCEPT !.args = st.es]
<1>1. /\ y \in Exprs /\ y.op \in AndOr /\ Len(y.args) > 1
      /\ DOMAIN st.es = DOMAIN y.args
  BY PassParts
<1>2. y = [op |-> y.op, args |-> y.args]
  BY <1>1, ExprParts
<1>3. x = [op |-> y.op, args |-> st.es]
  BY <1>2
<1>4. x.op = y.op /\ x.args = st.es
  BY <1>3
<1> HIDE DEF x
<1>5. ASSUME NEW kind \in Kinds, NEW n \in Nat, y \in Level(kind, n)
      PROVE  x \in Level(kind, n)
  <2>1. n > 0 /\ st.es \in Seq(Level(kind, n - 1))
    BY <1>1, <1>5, Shapes2 DEF PassState
  <2>2. n - 1 \in Nat /\ (n - 1) + 1 = n
    BY <2>1
  <2>3. x \in Trees(Level(kind, n - 1))
    BY <1>1, <1>3, <1>4, <2>1 DEF Trees, PassState
  <2> QED BY <2>2, <2>3, Builds
<1>6. KeepsLevel(y, x)
  BY <1>5 DEF KeepsLevel
<1>7. x \in Exprs
  BY <1>1, <1>6, KeptExpr
<1>8. ASSUME NEW v \in V, NEW t \in 1..2
      PROVE  T(x, v, t) <=> T(y, v, t)
  <2>1. T(x, v, t) <=> Holds(y.op, st.es, v, t)
    BY <1>1, <1>4, <1>7, TreeHolds
  <2>2. T(y, v, t) <=> Holds(y.op, y.args, v, t)
    BY <1>1, TreeHolds
  <2> QED BY <2>1, <2>2 DEF PassState
<1>9. x \in Branches
  BY <1>1, <1>4, <1>7 DEF Branches
<1> QED BY <1>3, <1>6, <1>8, <1>9 DEF x

(* A pass over what is inside an operand.                                  *)
LEMMA PassInside ==
    ASSUME NEW V \in SUBSET Values, NEW e \in Branches, NEW st, PassState(V, e, st),
           NEW i \in DOMAIN e.args, st.es[i].op \in AndOr,
           NEW inner, PassState(V, st.es[i], inner)
    PROVE  PassState(V, e, Inside(st, i, inner))
<1> DEFINE y == st.es[i]
           x == [y EXCEPT !.args = inner.es]
           b == (st.trans \/ inner.trans)
<1>1. /\ DOMAIN e.args = 1..Len(e.args) /\ DOMAIN st.es = DOMAIN e.args
      /\ y \in Exprs /\ y.op # e.op
  BY PassParts DEF PassState
<1>2. y \in Branches
  BY <1>1 DEF Branches
<1>3. /\ x = [op |-> y.op, args |-> inner.es]
      /\ KeepsLevel(y, x)
      /\ \A v \in V : \A t \in 1..2 : T(x, v, t) <=> T(y, v, t)
  BY <1>2, PassTree
<1>4. Inside(st, i, inner) = [es |-> [st.es EXCEPT ![i] = x], trans |-> b]
  BY <1>1 DEF Inside
<1> HIDE DEF x
<1>5. Replaces(V, e.op, y, x)
  <2>1. x.op = y.op
    BY <1>3
  <2> QED BY <1>1, <1>3, <2>1 DEF Replaces
<1>6. b \in BOOLEAN
  OBVIOUS
<1> HIDE DEF b
<1>7. PassState(V, e, [es |-> [st.es EXCEPT ![i] = x], trans |-> b])
  BY <1>5, <1>6, PassReplace
<1> QED BY <1>4, <1>7

(* Two operands that are joined: one goes, the other is both.              *)
LEMMA PassJoin ==
    ASSUME NEW e \in Branches, NEW st, PassState(Assignments, e, st),
           NEW i \in DOMAIN e.args, NEW j \in DOMAIN e.args, i # j,
           NEW x, Joins(e.op, st.es[i], st.es[j], x)
    PROVE  PassState(Assignments, e,
                     [es |-> [st.es EXCEPT ![i] = Neutral(e.op), ![j] = x], trans |-> TRUE])
<1> DEFINE es == [st.es EXCEPT ![i] = Neutral(e.op), ![j] = x]
<1>1. /\ e \in Exprs /\ e.op \in AndOr /\ Len(e.args) \in Nat
      /\ DOMAIN e.args = 1..Len(e.args) /\ DOMAIN st.es = DOMAIN e.args
  BY PassParts
<1>2. /\ es[i] = Neutral(e.op) /\ es[j] = x
      /\ \A k \in DOMAIN e.args : k # i /\ k # j => es[k] = st.es[k]
      /\ es = [k \in 1..Len(e.args) |-> es[k]] /\ DOMAIN es = DOMAIN st.es
  BY <1>1
<1> HIDE DEF es
<1>3. \A k \in DOMAIN e.args : es[k].op # e.op
  <2>1. Neutral(e.op).op # e.op
    BY <1>1, NeutralAtoms DEF AndOr
  <2> QED BY <2>1, <1>2 DEF PassState, Joins
<1>4. ASSUME NEW k \in DOMAIN e.args, NEW kind \in Kinds, NEW n \in Nat, e \in Level(kind, n)
      PROVE  es[k] \in Level(kind, n - 1)
  <2>1. st.es \in Seq(Level(kind, n - 1)) /\ n - 1 \in Nat
    BY <1>1, <1>4, Shapes2 DEF PassState
  <2>2. \A l \in DOMAIN e.args : st.es[l] \in Level(kind, n - 1)
    BY <1>1, <2>1
  <2>3. Neutral(e.op) \in Level(kind, n - 1)
    BY <1>1, <2>1, NeutralAtoms
  <2>4. x \in Level(kind, n - 1)
    BY <2>1, <2>2 DEF Joins
  <2> QED BY <1>2, <2>2, <2>3, <2>4
<1>5. ASSUME NEW v \in Assignments, NEW t \in 1..2
      PROVE  Holds(e.op, es, v, t) <=> Holds(e.op, st.es, v, t)
  <2>1. T(x, v, t) <=> Both(e.op, T(st.es[i], v, t), T(st.es[j], v, t))
    BY DEF Joins
  <2>2. T(Neutral(e.op), v, t) <=> e.op = "and"
    BY <1>1, AssignmentValues, NeutralAtoms
  <2>3. CASE e.op = "and"
    <3>1. T(x, v, t) <=> T(st.es[i], v, t) /\ T(st.es[j], v, t)
      BY <2>1, <2>3, Zenon DEF Both
    <3> QED BY <3>1, <2>2, <2>3, <1>1, <1>2 DEF Holds
  <2>4. CASE e.op = "or"
    <3>1. T(x, v, t) <=> T(st.es[i], v, t) \/ T(st.es[j], v, t)
      <4>1. e.op # "and"
        BY <2>4
      <4> QED BY <2>1, <4>1, Zenon DEF Both
    <3> QED BY <3>1, <2>2, <2>4, <1>1, <1>2 DEF Holds
  <2> QED BY <1>1, <2>3, <2>4 DEF AndOr
<1>6. PassState(Assignments, e, [es |-> es, trans |-> TRUE])
  BY <1>2, <1>3, <1>4, <1>5, PassChanged
<1> QED BY <1>6 DEF es

-----------------------------------------------------------------------------
(* expr_eliminate_dups1                                                    *)
BranchDom(c) == Branches
Dups1Body(c, f, e) ==
    Fold(Dups1At, [op |-> e.op, dups1 |-> f], Unchanged(e.args),
         Pairs(Len(e.args), Len(e.args)))
Dups1Good(c, e, x) == PassState(Assignments, e, x)
Dups1Rec == INSTANCE Recursion
    WITH Dom <- BranchDom, rank <- exprRank, Body <- Dups1Body, Good <- Dups1Good, Step <- Dups1At

(* One pair of operands in expr_eliminate_dups1.                           *)
LEMMA Dups1Step ==
    ASSUME NEW e \in Branches, NEW f, NEW g,
           \A y \in Branches : rk(y) < rk(e) => f[y] = g[y] /\ PassState(Assignments, y, f[y]),
           NEW st \in Passed(Assignments, e), NEW p, p[1] \in DOMAIN e.args, p[2] \in DOMAIN e.args
    PROVE  /\ Dups1At([op |-> e.op, dups1 |-> f], st, p) \in Passed(Assignments, e)
           /\ Dups1At([op |-> e.op, dups1 |-> f], st, p) = Dups1At([op |-> e.op, dups1 |-> g], st, p)
<1> DEFINE c == [op |-> e.op, dups1 |-> f]
           d == [op |-> e.op, dups1 |-> g]
           i == p[1]
           j == p[2]
           in == InnerDups1(f, st, i)
<1>1. PassState(Assignments, e, st)
  BY DEF Passed
<1>2. c.op = e.op /\ c.dups1 = f /\ d.op = e.op /\ d.dups1 = g
  OBVIOUS
<1>3. in = InnerDups1(g, st, i) /\ PassState(Assignments, e, in)
  <2>1. CASE st.es[i].op \in AndOr
    <3>1. st.es[i] \in Exprs /\ rk(st.es[i]) < rk(e)
      BY <1>1, PassParts
    <3>2. st.es[i] \in Branches
      BY <2>1, <3>1 DEF Branches
    <3>3. f[st.es[i]] = g[st.es[i]] /\ PassState(Assignments, st.es[i], f[st.es[i]])
      BY <3>1, <3>2
    <3>4. PassState(Assignments, e, Inside(st, i, f[st.es[i]]))
      BY <1>1, <2>1, <3>3, AssignmentValues, PassInside
    <3> QED BY <2>1, <3>3, <3>4, Zenon DEF InnerDups1
  <2>2. CASE st.es[i].op \notin AndOr
    BY <1>1, <2>2, Zenon DEF InnerDups1
  <2> QED BY <2>1, <2>2
<1> HIDE DEF c, d, in
<1>4. Dups1At(c, st, p) = Dups1At(d, st, p)
  BY <1>2, <1>3, Zenon DEF Dups1At, in
<1>5. PassState(Assignments, e, Dups1At(c, st, p))
  <2>1. CASE i = j
    <3>1. Dups1At(c, st, p) = st
      BY <2>1, Zenon DEF Dups1At
    <3> QED BY <1>1, <3>1
  <2>2. CASE i # j
    <3> DEFINE x == Join(e.op, in.es[i], in.es[j])
    <3>1. Dups1At(c, st, p) = JoinedAt(e.op, in, i, j, x)
      BY <1>2, <2>2, Zenon DEF Dups1At, TryJoin, in
    <3>2. CASE x = Null
      <4>1. Dups1At(c, st, p) = in
        BY <3>1, <3>2, Zenon DEF JoinedAt
      <4> QED BY <1>3, <4>1
    <3>3. CASE x # Null
      <4>1. Dups1At(c, st, p) = [es |-> [in.es EXCEPT ![i] = Neutral(e.op), ![j] = x], trans |-> TRUE]
        BY <3>1, <3>3, Zenon DEF JoinedAt
      <4>2. /\ in.es[i] \in Exprs /\ in.es[j] \in Exprs
            /\ in.es[i].op # e.op /\ in.es[j].op # e.op /\ e.op \in AndOr
        BY <1>3, PassParts DEF PassState
      <4>3. Joins(e.op, in.es[i], in.es[j], x)
        BY <3>3, <4>2, Joining
      <4> HIDE DEF x
      <4> QED BY <1>3, <2>2, <4>1, <4>3, PassJoin
    <3> QED BY <3>2, <3>3
  <2> QED BY <2>1, <2>2
<1>6. Dups1At(c, st, p) \in Passed(Assignments, e)
  BY <1>5 DEF Passed, PassState
<1> QED BY <1>4, <1>6 DEF c, d

(* One step of the recursion of expr_eliminate_dups1.                      *)
LEMMA Dups1Made ==
    ASSUME NEW e \in Branches, NEW f, NEW g,
           \A y \in Branches : rk(y) < rk(e) => f[y] = g[y] /\ PassState(Assignments, y, f[y])
    PROVE  Dups1Body(0, f, e) = Dups1Body(0, g, e) /\ PassState(Assignments, e, Dups1Body(0, f, e))
<1> DEFINE c == [op |-> e.op, dups1 |-> f]
           d == [op |-> e.op, dups1 |-> g]
           base == Unchanged(e.args)
           ps == Pairs(Len(e.args), Len(e.args))
           S == Passed(Assignments, e)
<1>1. base \in S
  BY PassStart
<1>2. Len(e.args) \in Nat /\ DOMAIN e.args = 1..Len(e.args)
  BY ExprParts DEF Branches
<1>3. /\ Len(ps) \in Nat
      /\ \A k \in 1..Len(ps) : ps[k][1] \in DOMAIN e.args /\ ps[k][2] \in DOMAIN e.args
  BY <1>2, PairsIn
<1>4. ASSUME NEW k \in 1..Len(ps), NEW st \in S
      PROVE  Dups1At(c, st, ps[k]) \in S /\ Dups1At(c, st, ps[k]) = Dups1At(d, st, ps[k])
  <2> HIDE DEF ps
  <2> QED BY <1>3, Dups1Step
<1> HIDE DEF c, d, base, ps, S
<1>5. Dups1Rec!Alike(c, d, base, ps, Len(ps), S)
  BY <1>1, <1>4, Zenon DEF Dups1Rec!Alike
<1>6. Dups1Rec!LastState(c, base, ps, Len(ps)) = Dups1Rec!LastState(d, base, ps, Len(ps))
  BY <1>3, <1>5, Dups1Rec!FoldsAgree
<1>7. Dups1Rec!LastState(c, base, ps, Len(ps)) \in S
  BY <1>1, <1>3, <1>4, Dups1Rec!Folded
<1>8. /\ Dups1Body(0, f, e) = Dups1Rec!LastState(c, base, ps, Len(ps))
      /\ Dups1Body(0, g, e) = Dups1Rec!LastState(d, base, ps, Len(ps))
  BY DEF Dups1Body, Fold, Dups1Rec!LastState, c, d, base, ps
<1> QED BY <1>6, <1>7, <1>8 DEF S, Passed

(* expr_eliminate_dups1 keeps the level and the value of every tree, for   *)
(* all values the symbols can have.                                        *)
LEMMA Dups1Keeps ==
    \A e \in Branches :
        /\ PassState(Assignments, e, expr_eliminate_dups1[e])
        /\ expr_eliminate_dups1[e] = Dups1Body(0, expr_eliminate_dups1, e)
<1>1. Dups1Rec!Ranked(0)
  BY ExprParts DEF Dups1Rec!Ranked, BranchDom, exprRank, Branches
<1>2. Dups1Rec!Local(0)
  <2> SUFFICES ASSUME NEW e \in Branches, NEW f, NEW g,
                      \A y \in Dups1Rec!Below(0, rk(e)) : f[y] = g[y] /\ PassState(Assignments, y, f[y])
               PROVE  Dups1Body(0, f, e) = Dups1Body(0, g, e)
                      /\ PassState(Assignments, e, Dups1Body(0, f, e))
    BY DEF Dups1Rec!Local, BranchDom, exprRank, Dups1Good
  <2>1. \A y \in Branches : rk(y) < rk(e) => f[y] = g[y] /\ PassState(Assignments, y, f[y])
    BY DEF Dups1Rec!Below, BranchDom, exprRank
  <2> QED BY <2>1, Dups1Made
<1>3. /\ \E f : f = [e \in Branches |-> Dups1Body(0, f, e)]
      /\ \A f : f = [e \in Branches |-> Dups1Body(0, f, e)]
                => \A e \in Branches : PassState(Assignments, e, f[e])
  BY <1>1, <1>2, Dups1Rec!Defined DEF BranchDom, Dups1Good
<1>4. expr_eliminate_dups1 = [e \in Branches |-> Dups1Body(0, expr_eliminate_dups1, e)]
  <2> DEFINE h == CHOOSE f : f = [e \in Branches |-> Dups1Body(0, f, e)]
  <2>1. h = [e \in Branches |-> Dups1Body(0, h, e)]
    BY <1>3, Zenon
  <2>2. expr_eliminate_dups1 = h
    BY DEF expr_eliminate_dups1, Dups1Body
  <2> HIDE DEF h
  <2> QED BY <2>1, <2>2, Zenon
<1>5. \A e \in Branches : PassState(Assignments, e, expr_eliminate_dups1[e])
  BY <1>3, <1>4, Zenon
<1>6. \A e \in Branches : expr_eliminate_dups1[e] = Dups1Body(0, expr_eliminate_dups1, e)
  BY <1>4, Zenon
<1> QED BY <1>5, <1>6

-----------------------------------------------------------------------------
(* Where no symbol is m, no expression is.                                 *)
Definite(e, v) == T(e, v, 1) <=> T(e, v, 2)

(* The values without m.                                                   *)
LEMMA TwoValues ==
    /\ TwoValued \subseteq Assignments /\ TwoValued \subseteq Values
    /\ \A v \in TwoValued : \A s \in Symbols : v[s] \in {0, 2}
BY DEF TwoValued, Assignments, Values, Symbols, no, mod, yes

(* Without m among the values of the symbols, no expression is m.          *)
LEMMA AllDefinite == \A e \in Exprs : \A v \in TwoValued : Definite(e, v)
<1> DEFINE K == {n \in Nat : \A e \in Exprs : rk(e) <= n => \A v \in TwoValued : Definite(e, v)}
<1>1. ASSUME NEW n \in Nat, NEW e \in Exprs, rk(e) <= n, NEW v \in TwoValued,
             \A y \in Exprs : rk(y) < rk(e) => Definite(y, v)
      PROVE  Definite(e, v)
  <2>0. v \in Values /\ 1 \in 1..2 /\ 2 \in 1..2 /\ 3 - 1 = 2 /\ 3 - 2 = 1
    BY TwoValues
  <2>1. CASE e.op = "sym"
    <3>1. e \in Atoms /\ e.sym \in Names \ {"m"}
      BY <2>1, ExprParts DEF Atoms
    <3>2. \A t \in 1..2 : T(e, v, t) <=> ValueOf(e.sym, v) >= t
      BY <2>0, <3>1, SymHolds
    <3>3. ValueOf(e.sym, v) \in {0, 2}
      BY <3>1, <2>0, Constants, SymAtoms, TwoValues DEF Names, Const
    <3> QED BY <2>0, <3>2, <3>3 DEF Definite
  <2>2. CASE e.op \in {"eq", "neq"}
    <3>1. \A t \in 1..2 : T(e, v, t) <=> ((ValueOf(e.sym, v) = ValueOf(e.val, v)) <=> e.op = "eq")
      BY <2>0, <2>2, TestHolds
    <3> QED BY <2>0, <3>1, Zenon DEF Definite
  <2>3. CASE e.op = "not"
    <3>1. \A t \in 1..2 : T(e, v, t) <=> ~T(e.arg, v, 3 - t)
      BY <2>0, <2>3, NotHolds
    <3>2. (T(e, v, 1) <=> ~T(e.arg, v, 2)) /\ (T(e, v, 2) <=> ~T(e.arg, v, 1))
      BY <2>0, <3>1
    <3>3. Definite(e.arg, v)
      BY <1>1, <2>3, ExprParts
    <3> QED BY <3>2, <3>3 DEF Definite
  <2>4. CASE e.op \in AndOr
    <3>1. \A t \in 1..2 : T(e, v, t) <=> Holds(e.op, e.args, v, t)
      BY <2>0, <2>4, TreeHolds
    <3>2. \A i \in DOMAIN e.args : Definite(e.args[i], v)
      BY <1>1, <2>4, ExprParts
    <3>3. Holds(e.op, e.args, v, 1) <=> Holds(e.op, e.args, v, 2)
      BY <3>2, Zenon DEF Holds, Definite
    <3> QED BY <2>0, <3>1, <3>3, Zenon DEF Definite
  <2> QED BY <2>1, <2>2, <2>3, <2>4, ExprParts DEF AndOr
<1>2. \A e \in Exprs : rk(e) \in Nat
  BY ExprParts
<1>3. 0 \in K
  <2>1. ASSUME NEW e \in Exprs, rk(e) <= 0, NEW v \in TwoValued PROVE Definite(e, v)
    <3>1. \A y \in Exprs : rk(y) < rk(e) => Definite(y, v)
      BY <1>2, <2>1
    <3> QED BY <1>1, <2>1, <3>1
  <2> QED BY <2>1
<1>4. ASSUME NEW n \in K PROVE n + 1 \in K
  <2>1. ASSUME NEW e \in Exprs, rk(e) <= n + 1, NEW v \in TwoValued PROVE Definite(e, v)
    <3>1. \A y \in Exprs : rk(y) < rk(e) => Definite(y, v)
      BY <1>2, <2>1
    <3> QED BY <1>1, <2>1, <3>1
  <2> QED BY <2>1
<1>5. K = Nat
  <2> HIDE DEF K
  <2>1. K \in SUBSET Nat
    BY DEF K
  <2> QED BY <1>3, <1>4, <2>1, NatSetInduction
<1> QED BY <1>2, <1>5

-----------------------------------------------------------------------------
(* expr_extract_eq                                                         *)
Within(op, a, b, c, v, t) ==
    IF op = "and" THEN Holds(op, b, v, t) /\ Holds(op, a, v, t) => Holds(op, c, v, t)
    ELSE Holds(op, c, v, t) => Holds(op, b, v, t) \/ Holds(op, a, v, t)

(* What is left of l1, with l2, holds only where l1 does; or else dually.  *)
Extracted(op, l1, l2) ==
    {ls \in Seq(Exprs) \X Seq(Exprs) \X BOOLEAN :
        /\ Erased(op, l1, ls[1]) /\ Erased(op, l2, ls[2])
        /\ \A v \in Values : \A t \in 1..2 : Within(op, ls[1], l2, l1, v, t)}

ExtractRec == INSTANCE Recursion
    WITH Dom <- BranchDom, rank <- exprRank, Body <- AnyValue, Good <- AnyValue, Step <- ExtractAt

(* One pair of operands in expr_extract_eq.                                *)
LEMMA ExtractStep ==
    ASSUME NEW op \in AndOr, NEW l1 \in Seq(Exprs), NEW l2 \in Seq(Exprs),
           NEW ls \in Extracted(op, l1, l2), NEW p,
           p[1] \in DOMAIN l1, p[2] \in DOMAIN l2
    PROVE  ExtractAt(op, ls, p) \in Extracted(op, l1, l2)
<1> DEFINE a == ls[1][p[1]]
           b == ls[2][p[2]]
           k1 == [ls[1] EXCEPT ![p[1]] = Neutral(op)]
           k2 == [ls[2] EXCEPT ![p[2]] = Neutral(op)]
<1>1. /\ ls[1] \in Seq(Exprs) /\ ls[2] \in Seq(Exprs)
      /\ Erased(op, l1, ls[1]) /\ Erased(op, l2, ls[2])
      /\ \A v \in Values : \A t \in 1..2 : Within(op, ls[1], l2, l1, v, t)
  BY DEF Extracted
<1>2. CASE ~expr_eq[<< a, b >>]
  BY <1>2 DEF ExtractAt
<1>3. CASE expr_eq[<< a, b >>]
  <2>1. ExtractAt(op, ls, p) = << k1, k2, TRUE >>
    BY <1>3 DEF ExtractAt
  <2>2. a \in Exprs /\ b \in Exprs /\ b \in {l2[p[2]], Neutral(op)}
    BY <1>1, NeutralAtoms DEF Erased
  <2>3. Equal(a, b)
    BY <1>3, <2>2, EqSound
  <2>4. Erased(op, l1, k1) /\ Erased(op, l2, k2)
    BY <1>1, EraseHolds
  <2>5. ASSUME NEW v \in Values, NEW t \in 1..2
        PROVE  Within(op, k1, l2, l1, v, t)
    <3>0. Within(op, ls[1], l2, l1, v, t)
      BY <1>1
    <3>1. T(a, v, t) <=> T(b, v, t)
      BY <2>3 DEF Equal
    <3>2. CASE op = "and"
      <4>1. Holds(op, ls[1], v, t) <=> Holds(op, k1, v, t) /\ T(a, v, t)
        BY <1>1, <3>2, EraseHolds
      <4>2. T(Neutral(op), v, t)
        BY <3>2, NeutralAtoms
      <4>3. Holds(op, l2, v, t) => T(b, v, t)
        BY <2>2, <3>2, <4>2 DEF Holds
      <4> QED BY <3>0, <3>1, <3>2, <4>1, <4>3, Zenon DEF Within
    <3>3. CASE op = "or"
      <4>0. op # "and"
        BY <3>3
      <4>1. Holds(op, ls[1], v, t) <=> Holds(op, k1, v, t) \/ T(a, v, t)
        BY <1>1, <3>3, EraseHolds
      <4>2. ~T(Neutral(op), v, t)
        BY <3>3, NeutralAtoms
      <4>3. T(b, v, t) => Holds(op, l2, v, t)
        BY <2>2, <3>3, <4>2 DEF Holds
      <4> QED BY <3>0, <3>1, <4>0, <4>1, <4>3, Zenon DEF Within
    <3> QED BY <3>2, <3>3 DEF AndOr
  <2>6. k1 \in Seq(Exprs) /\ k2 \in Seq(Exprs)
    BY <2>4 DEF Erased
  <2> HIDE DEF k1, k2
  <2> DEFINE r == << k1, k2, TRUE >>
  <2>7. r \in Seq(Exprs) \X Seq(Exprs) \X BOOLEAN /\ r[1] = k1 /\ r[2] = k2
    BY <2>6
  <2> HIDE DEF r
  <2>8. r \in Extracted(op, l1, l2)
    BY <2>4, <2>5, <2>7, Zenon DEF Extracted
  <2> QED BY <2>1, <2>8 DEF r
<1> QED BY <1>2, <1>3

(* What expr_extract_eq leaves of two lists of operands.                   *)
LEMMA ExtractedLeaves ==
    ASSUME NEW op \in AndOr, NEW l1 \in Seq(Exprs), NEW l2 \in Seq(Exprs)
    PROVE  expr_extract_eq(op, l1, l2) \in Extracted(op, l1, l2)
<1> DEFINE ps == Pairs(Len(l1), Len(l2))
           base == << l1, l2, FALSE >>
           S == Extracted(op, l1, l2)
<1>1. /\ Len(l1) \in Nat /\ Len(l2) \in Nat
      /\ DOMAIN l1 = 1..Len(l1) /\ DOMAIN l2 = 1..Len(l2)
  OBVIOUS
<1>2. /\ Len(ps) \in Nat
      /\ \A k \in 1..Len(ps) : ps[k][1] \in DOMAIN l1 /\ ps[k][2] \in DOMAIN l2
  BY <1>1, PairsIn
<1>3. base \in S
  <2>1. Erased(op, l1, l1) /\ Erased(op, l2, l2)
    BY DEF Erased
  <2>2. \A v \in Values : \A t \in 1..2 : Within(op, l1, l2, l1, v, t)
    BY Zenon DEF Within
  <2> QED BY <2>1, <2>2 DEF Extracted
<1>4. \A k \in 1..Len(ps) : \A st \in S : ExtractAt(op, st, ps[k]) \in S
  <2> HIDE DEF ps
  <2> QED BY <1>2, ExtractStep
<1>5. expr_extract_eq(op, l1, l2) = Fold(ExtractAt, op, base, ps)
  BY DEF expr_extract_eq
<1> HIDE DEF ps, base, S
<1>6. Fold(ExtractAt, op, base, ps) = ExtractRec!LastState(op, base, ps, Len(ps))
  BY DEF Fold, ExtractRec!LastState
<1>7. ExtractRec!LastState(op, base, ps, Len(ps)) \in S
  BY <1>2, <1>3, <1>4, ExtractRec!Folded
<1> QED BY <1>5, <1>6, <1>7 DEF S

(* All leaves of z were found among es: z follows from es, or dually.      *)
LEMMA AllFound ==
    ASSUME NEW op \in AndOr, NEW z \in Exprs, NEW es \in Seq(Exprs), AllIn(op, z, es),
           NEW v \in Values, NEW t \in 1..2
    PROVE  /\ op = "and" => (Holds(op, es, v, t) => T(z, v, t))
           /\ op = "or" => (T(z, v, t) => Holds(op, es, v, t))
<1> DEFINE l == Leaves(op, z)
           ls == expr_extract_eq(op, l, es)
           x == Nary(op, ls[1])
<1>1. l \in Seq(Exprs)
  BY ExprsLevel, LeavesOf
<1>2. ls \in Extracted(op, l, es)
  <2> HIDE DEF l
  <2> QED BY <1>1, ExtractedLeaves
<1>3. expr_eliminate_yn[x] = Neutral(op)
  BY DEF AllIn, NothingLeft
<1>4. Erased(op, l, ls[1]) /\ Within(op, ls[1], es, l, v, t)
  <2> HIDE DEF ls, l
  <2> QED BY <1>2 DEF Extracted
<1> HIDE DEF ls
<1>5. x \in Exprs /\ (T(x, v, t) <=> Holds(op, ls[1], v, t))
  BY <1>4, LeftOver
<1>6. T(z, v, t) <=> Holds(op, l, v, t)
  BY LeavesHold
<1> HIDE DEF x, l
<1>7. T(x, v, t) <=> T(Neutral(op), v, t)
  <2>1. KeptGood(0, x, expr_eliminate_yn[x])
    BY <1>5, YnKeeps
  <2> QED BY <1>3, <2>1 DEF KeptGood, Equal
<1>8. T(Neutral(op), v, t) <=> op = "and"
  BY NeutralAtoms
<1>9. op = "or" => op # "and"
  OBVIOUS
<1> QED BY <1>4, <1>5, <1>6, <1>7, <1>8, <1>9, Zenon DEF Within

-----------------------------------------------------------------------------
(* expr_eliminate_dups2                                                    *)
(* What expr_eliminate_dups2 drops changes the value where m occurs.       *)
Dups2State(e, st) ==
    /\ PassState(TwoValued, e, st)
    /\ ~st.trans => st.es = e.args
Dups2States(e) == {st \in [es : Seq(Exprs), trans : BOOLEAN] : Dups2State(e, st)}

Dups2Body(c, f, e) ==
    Fold(Dups2At, [op |-> e.op, dups2 |-> f], Unchanged(e.args),
         [i \in 1 .. Len(e.args) |-> i])
Dups2Good(c, e, x) == Dups2State(e, x)
Dups2Rec == INSTANCE Recursion
    WITH Dom <- BranchDom, rank <- exprRank, Body <- Dups2Body, Good <- Dups2Good, Step <- Dups2At

(* The negation of an operand is an expression, and what becomes of it.    *)
LEMMA Opposed ==
    ASSUME NEW e \in Branches, NEW st, PassState(TwoValued, e, st), NEW i \in DOMAIN e.args,
           AllIn(e.op, expr_transform[Not(st.es[i])], st.es)
    PROVE  PassState(TwoValued, e, [es |-> [st.es EXCEPT ![i] = Absorbing(e.op)], trans |-> TRUE])
<1> DEFINE y == st.es[i]
           z == expr_transform[Not(y)]
           es == [st.es EXCEPT ![i] = Absorbing(e.op)]
<1>1. /\ e \in Exprs /\ e.op \in AndOr /\ Len(e.args) \in Nat
      /\ DOMAIN e.args = 1..Len(e.args) /\ DOMAIN st.es = DOMAIN e.args
      /\ y \in Exprs
  BY PassParts
<1>2. Not(y) \in Exprs /\ Not(y).op = "not" /\ Not(y).arg = y
  <2>1. e \in Level("any", MaxDepth) /\ MaxDepth \in Nat
    BY <1>1, ExprsLevel
  <2>2. MaxDepth > 0
    BY <1>1, <2>1, Shapes2
  <2>3. st.es \in Seq(Level("any", MaxDepth - 1))
    BY <2>1 DEF PassState
  <2>4. y \in Level("any", MaxDepth - 1) /\ MaxDepth - 1 \in Nat /\ (MaxDepth - 1) + 1 = MaxDepth
    BY <2>2, <2>3, <2>1, <1>1
  <2>5. Not(y) \in Level("any", MaxDepth)
    BY <2>4, Builds
  <2> QED BY <2>5, ExprsLevel DEF Not
<1>3. z \in Exprs /\ EqualOn(Assignments, Not(y), z)
  <2>1. Not(y) \in Conds /\ Not(y) # Null
    BY <1>2, ExprParts DEF Conds
  <2>2. TransformGood(0, Not(y), z)
    BY <2>1, Transformed
  <2> QED BY <1>2, <2>1, <2>2, NormalisedExpr DEF TransformGood
<1>4. /\ es[i] = Absorbing(e.op)
      /\ \A k \in DOMAIN e.args : k # i => es[k] = st.es[k]
      /\ es = [k \in 1..Len(e.args) |-> es[k]] /\ DOMAIN es = DOMAIN st.es
  BY <1>1
<1> HIDE DEF es
<1>5. \A k \in DOMAIN e.args : es[k].op # e.op
  <2>1. Absorbing(e.op).op # e.op
    BY <1>1, NeutralAtoms DEF AndOr
  <2> QED BY <2>1, <1>4 DEF PassState
<1>6. ASSUME NEW k \in DOMAIN e.args, NEW kind \in Kinds, NEW n \in Nat, e \in Level(kind, n)
      PROVE  es[k] \in Level(kind, n - 1)
  <2>1. st.es \in Seq(Level(kind, n - 1)) /\ n - 1 \in Nat
    BY <1>1, <1>6, Shapes2 DEF PassState
  <2>2. st.es[k] \in Level(kind, n - 1)
    BY <1>1, <2>1
  <2>3. Absorbing(e.op) \in Level(kind, n - 1)
    BY <1>1, <2>1, NeutralAtoms
  <2> QED BY <1>4, <2>2, <2>3
<1>7. ASSUME NEW v \in TwoValued, NEW t \in 1..2
      PROVE  Holds(e.op, es, v, t) <=> Holds(e.op, st.es, v, t)
  <2>0. v \in Values /\ v \in Assignments /\ 3 - t \in 1..2 /\ (t = 1 \/ t = 2)
        /\ (t = 1 => 3 - t = 2) /\ (t = 2 => 3 - t = 1)
    BY TwoValues
  <2>1. T(z, v, t) <=> ~T(y, v, t)
    <3>1. T(z, v, t) <=> T(Not(y), v, t)
      BY <1>3, <2>0 DEF EqualOn
    <3>2. T(Not(y), v, t) <=> ~T(y, v, 3 - t)
      BY <1>2, <2>0, NotHolds
    <3>3. T(y, v, 1) <=> T(y, v, 2)
      BY <1>1, AllDefinite DEF Definite
    <3>4. T(y, v, 3 - t) <=> T(y, v, t)
      <4>1. CASE t = 1
        BY <2>0, <3>3, <4>1
      <4>2. CASE t = 2
        BY <2>0, <3>3, <4>2
      <4> QED BY <2>0, <4>1, <4>2
    <3> QED BY <3>1, <3>2, <3>4
  <2>2. T(Absorbing(e.op), v, t) <=> e.op = "or"
    BY <1>1, <2>0, NeutralAtoms
  <2>3. st.es \in Seq(Exprs)
    BY DEF PassState
  <2>4. /\ e.op = "and" => (Holds(e.op, st.es, v, t) => T(z, v, t))
        /\ e.op = "or" => (T(z, v, t) => Holds(e.op, st.es, v, t))
    <3> HIDE DEF z, y
    <3> QED BY <1>1, <1>3, <2>0, <2>3, AllFound DEF z, y
  <2> HIDE DEF z
  <2>5. CASE e.op = "and"
    <3>1. Holds(e.op, st.es, v, t) => T(y, v, t)
      BY <1>1, <2>5 DEF Holds
    <3>2. ~Holds(e.op, st.es, v, t)
      BY <2>1, <2>4, <2>5, <3>1
    <3>3. ~Holds(e.op, es, v, t)
      BY <2>2, <2>5, <1>1, <1>4 DEF Holds
    <3> QED BY <3>2, <3>3
  <2>6. CASE e.op = "or"
    <3>1. T(y, v, t) => Holds(e.op, st.es, v, t)
      BY <1>1, <2>6 DEF Holds
    <3>2. Holds(e.op, st.es, v, t)
      BY <2>1, <2>4, <2>6, <3>1
    <3>3. Holds(e.op, es, v, t)
      BY <2>2, <2>6, <1>1, <1>4 DEF Holds
    <3> QED BY <3>2, <3>3
  <2> QED BY <1>1, <2>5, <2>6 DEF AndOr
<1>8. PassState(TwoValued, e, [es |-> es, trans |-> TRUE])
  BY <1>4, <1>5, <1>6, <1>7, PassChanged
<1> QED BY <1>8 DEF es

(* One operand in expr_eliminate_dups2.                                    *)
LEMMA Dups2Step ==
    ASSUME NEW e \in Branches, NEW f, NEW g,
           \A y \in Branches : rk(y) < rk(e) => f[y] = g[y] /\ Dups2State(y, f[y]),
           NEW st \in Dups2States(e), NEW i \in DOMAIN e.args
    PROVE  /\ Dups2At([op |-> e.op, dups2 |-> f], st, i) \in Dups2States(e)
           /\ Dups2At([op |-> e.op, dups2 |-> f], st, i) = Dups2At([op |-> e.op, dups2 |-> g], st, i)
<1> DEFINE c == [op |-> e.op, dups2 |-> f]
           d == [op |-> e.op, dups2 |-> g]
           y == st.es[i]
           in == Inside(st, i, f[y])
<1>1. PassState(TwoValued, e, st) /\ (~st.trans => st.es = e.args)
      /\ st \in [es : Seq(Exprs), trans : BOOLEAN]
  BY DEF Dups2States, Dups2State
<1>2. c.op = e.op /\ c.dups2 = f /\ d.op = e.op /\ d.dups2 = g
  OBVIOUS
<1> HIDE DEF c, d
<1>3. CASE y.op \notin AndOr
  <2>1. Dups2At(c, st, i) = st /\ Dups2At(d, st, i) = st
    BY <1>3, Zenon DEF Dups2At
  <2> QED BY <2>1 DEF c, d
<1>4. CASE y.op \in AndOr
  <2>1. y \in Exprs /\ rk(y) < rk(e) /\ DOMAIN st.es = DOMAIN e.args
    BY <1>1, PassParts
  <2>2. y \in Branches
    BY <1>4, <2>1 DEF Branches
  <2>3. f[y] = g[y] /\ PassState(TwoValued, y, f[y]) /\ (~f[y].trans => f[y].es = y.args)
    BY <2>1, <2>2 DEF Dups2State
  <2>4. PassState(TwoValued, e, in)
    BY <1>1, <1>4, <2>3, TwoValues, PassInside
  <2>5. ~in.trans => in.es = e.args
    <3> SUFFICES ASSUME ~in.trans PROVE in.es = e.args
      OBVIOUS
    <3>1. in.es = [st.es EXCEPT ![i].args = f[y].es] /\ ~st.trans /\ ~f[y].trans
      BY DEF Inside
    <3>2. f[y].es = y.args /\ y = [op |-> y.op, args |-> y.args]
      BY <1>4, <2>1, <2>3, <3>1, ExprParts
    <3>3. in.es = [st.es EXCEPT ![i] = [y EXCEPT !.args = y.args]]
      BY <3>1, <3>2
    <3>4. [y EXCEPT !.args = y.args] = y
      BY <3>2
    <3>5. st.es \in Seq(Exprs)
      BY <1>1 DEF PassState
    <3>6. [st.es EXCEPT ![i] = y] = st.es
      BY <3>5, <2>1
    <3> QED BY <1>1, <3>1, <3>3, <3>4, <3>6
  <2> HIDE DEF in
  <2>6. Dups2At(c, st, i) = IfOpposed(e.op, in, i) /\ Dups2At(d, st, i) = IfOpposed(e.op, in, i)
    BY <1>2, <1>4, <2>3, Zenon DEF Dups2At, in
  <2>7. Dups2State(e, IfOpposed(e.op, in, i))
    <3>1. CASE AllIn(e.op, expr_transform[Not(in.es[i])], in.es)
      <4> DEFINE es == [in.es EXCEPT ![i] = Absorbing(e.op)]
      <4>1. IfOpposed(e.op, in, i) = [es |-> es, trans |-> TRUE]
        BY <3>1, Zenon DEF IfOpposed
      <4>2. PassState(TwoValued, e, [es |-> es, trans |-> TRUE])
        BY <2>4, <3>1, Opposed
      <4>3. [es |-> es, trans |-> TRUE].trans
        OBVIOUS
      <4> HIDE DEF es
      <4> QED BY <4>1, <4>2, <4>3 DEF Dups2State
    <3>2. CASE ~AllIn(e.op, expr_transform[Not(in.es[i])], in.es)
      <4>1. IfOpposed(e.op, in, i) = in
        BY <3>2, Zenon DEF IfOpposed
      <4> QED BY <2>4, <2>5, <4>1, Zenon DEF Dups2State
    <3> QED BY <3>1, <3>2
  <2>8. IfOpposed(e.op, in, i) \in [es : Seq(Exprs), trans : BOOLEAN]
    BY <2>7 DEF Dups2State, PassState
  <2>9. Dups2At(c, st, i) \in Dups2States(e) /\ Dups2At(c, st, i) = Dups2At(d, st, i)
    BY <2>6, <2>7, <2>8, Zenon DEF Dups2States
  <2> QED BY <2>9 DEF c, d
<1> QED BY <1>3, <1>4

(* One step of the recursion of expr_eliminate_dups2.                      *)
LEMMA Dups2Made ==
    ASSUME NEW e \in Branches, NEW f, NEW g,
           \A y \in Branches : rk(y) < rk(e) => f[y] = g[y] /\ Dups2State(y, f[y])
    PROVE  Dups2Body(0, f, e) = Dups2Body(0, g, e) /\ Dups2State(e, Dups2Body(0, f, e))
<1> DEFINE c == [op |-> e.op, dups2 |-> f]
           d == [op |-> e.op, dups2 |-> g]
           base == Unchanged(e.args)
           ps == [i \in 1 .. Len(e.args) |-> i]
           S == Dups2States(e)
<1>1. base \in S
  <2>1. base \in Passed(TwoValued, e)
    BY PassStart
  <2>2. base.es = e.args
    BY DEF Unchanged
  <2> HIDE DEF base
  <2> QED BY <2>1, <2>2 DEF Passed, Dups2States, Dups2State
<1>2. Len(e.args) \in Nat /\ DOMAIN e.args = 1..Len(e.args)
  BY ExprParts DEF Branches
<1>3. /\ Len(ps) \in Nat
      /\ \A k \in 1..Len(ps) : ps[k] \in DOMAIN e.args
  BY <1>2
<1>4. ASSUME NEW k \in 1..Len(ps), NEW st \in S
      PROVE  Dups2At(c, st, ps[k]) \in S /\ Dups2At(c, st, ps[k]) = Dups2At(d, st, ps[k])
  <2> HIDE DEF ps
  <2> QED BY <1>3, Dups2Step
<1> HIDE DEF c, d, base, ps, S
<1>5. Dups2Rec!Alike(c, d, base, ps, Len(ps), S)
  BY <1>1, <1>4, Zenon DEF Dups2Rec!Alike
<1>6. Dups2Rec!LastState(c, base, ps, Len(ps)) = Dups2Rec!LastState(d, base, ps, Len(ps))
  BY <1>3, <1>5, Dups2Rec!FoldsAgree
<1>7. Dups2Rec!LastState(c, base, ps, Len(ps)) \in S
  BY <1>1, <1>3, <1>4, Dups2Rec!Folded
<1>8. /\ Dups2Body(0, f, e) = Dups2Rec!LastState(c, base, ps, Len(ps))
      /\ Dups2Body(0, g, e) = Dups2Rec!LastState(d, base, ps, Len(ps))
  BY DEF Dups2Body, Fold, Dups2Rec!LastState, c, d, base, ps
<1> QED BY <1>6, <1>7, <1>8 DEF S, Dups2States

(* expr_eliminate_dups2 keeps the level of every tree, its value for all   *)
(* values without m, and if nothing was dropped the tree itself.           *)
LEMMA Dups2Keeps ==
    \A e \in Branches :
        /\ Dups2State(e, expr_eliminate_dups2[e])
        /\ expr_eliminate_dups2[e] = Dups2Body(0, expr_eliminate_dups2, e)
<1>1. Dups2Rec!Ranked(0)
  BY ExprParts DEF Dups2Rec!Ranked, BranchDom, exprRank, Branches
<1>2. Dups2Rec!Local(0)
  <2> SUFFICES ASSUME NEW e \in Branches, NEW f, NEW g,
                      \A y \in Dups2Rec!Below(0, rk(e)) : f[y] = g[y] /\ Dups2State(y, f[y])
               PROVE  Dups2Body(0, f, e) = Dups2Body(0, g, e)
                      /\ Dups2State(e, Dups2Body(0, f, e))
    BY DEF Dups2Rec!Local, BranchDom, exprRank, Dups2Good
  <2>1. \A y \in Branches : rk(y) < rk(e) => f[y] = g[y] /\ Dups2State(y, f[y])
    BY DEF Dups2Rec!Below, BranchDom, exprRank
  <2> QED BY <2>1, Dups2Made
<1>3. /\ \E f : f = [e \in Branches |-> Dups2Body(0, f, e)]
      /\ \A f : f = [e \in Branches |-> Dups2Body(0, f, e)]
                => \A e \in Branches : Dups2State(e, f[e])
  BY <1>1, <1>2, Dups2Rec!Defined DEF BranchDom, Dups2Good
<1>4. expr_eliminate_dups2 = [e \in Branches |-> Dups2Body(0, expr_eliminate_dups2, e)]
  <2> DEFINE h == CHOOSE f : f = [e \in Branches |-> Dups2Body(0, f, e)]
  <2>1. h = [e \in Branches |-> Dups2Body(0, h, e)]
    BY <1>3, Zenon
  <2>2. expr_eliminate_dups2 = h
    BY DEF expr_eliminate_dups2, Dups2Body
  <2> HIDE DEF h
  <2> QED BY <2>1, <2>2, Zenon
<1>5. \A e \in Branches : Dups2State(e, expr_eliminate_dups2[e])
  BY <1>3, <1>4, Zenon
<1>6. \A e \in Branches : expr_eliminate_dups2[e] = Dups2Body(0, expr_eliminate_dups2, e)
  BY <1>4, Zenon
<1> QED BY <1>5, <1>6

-----------------------------------------------------------------------------
(* expr_trans_bool                                                         *)
BoolBody(c, f, e) ==
    IF e.op \in AndOr
    THEN [e EXCEPT !.args = [i \in DOMAIN e.args |-> f[e.args[i]]]]
    ELSE IF e.op = "not" THEN Not(f[e.arg])
    ELSE IF e.op = "neq" /\ e.sym \in Tristates /\ e.val = "n"
         THEN expr_alloc_symbol(e.sym)
    ELSE e
SameSign(e, x) == \A v \in Values : T(x, v, 1) <=> T(e, v, 1)
BoolKept(e, x) ==
    /\ KeepsLevel(e, x)
    /\ x.op \in {e.op, "sym"}
    /\ e \in Atoms => x = e
    /\ e \in Level("normal", MaxDepth) => SameSign(e, x)
BoolGood(c, e, x) == IF e = Null THEN x = Null ELSE BoolKept(e, x)
BoolRec == INSTANCE Recursion
    WITH Dom <- CondDom, rank <- condRank, Body <- BoolBody, Good <- BoolGood, Step <- NoStep

(* The operands of a tree, each made bool.                                 *)
LEMMA BoolTree ==
    ASSUME NEW e \in Exprs, e.op \in AndOr, NEW f,
           \A y \in Exprs : rk(y) < rk(e) => BoolKept(y, f[y])
    PROVE  BoolKept(e, BoolBody(0, f, e))
<1> DEFINE k == [i \in DOMAIN e.args |-> f[e.args[i]]]
           x == [op |-> e.op, args |-> k]
<1>1. /\ e = [op |-> e.op, args |-> e.args]
      /\ e.args \in Seq(Exprs) /\ Len(e.args) > 1 /\ DOMAIN e.args = 1..Len(e.args)
      /\ \A i \in DOMAIN e.args : e.args[i] \in Exprs /\ rk(e.args[i]) < rk(e) /\ e.args[i].op # e.op
  BY ExprParts
<1>2. BoolBody(0, f, e) = x
  <2>1. BoolBody(0, f, e) = [e EXCEPT !.args = k]
    BY DEF BoolBody
  <2> HIDE DEF k
  <2> QED BY <1>1, <2>1
<1>3. \A i \in DOMAIN e.args : BoolKept(e.args[i], k[i])
  BY <1>1
<1>4. DOMAIN k = DOMAIN e.args /\ k = [i \in DOMAIN k |-> k[i]] /\ k = [i \in 1..Len(e.args) |-> k[i]]
  BY <1>1
<1> HIDE DEF k
<1>5. /\ k \in Seq(Exprs) /\ Len(k) = Len(e.args)
      /\ \A kind \in Kinds : \A n \in Nat :
            e \in Level(kind, n) => n > 0 /\ k \in Seq(Level(kind, n - 1))
  BY <1>3, <1>4, OperandsKept DEF BoolKept
<1>6. \A i \in DOMAIN k : k[i].op # e.op
  <2>1. "sym" \notin AndOr
    BY DEF AndOr
  <2> QED BY <1>1, <1>3, <1>4, <2>1 DEF BoolKept
<1>7. KeepsLevel(e, x)
  <2> SUFFICES ASSUME NEW kind \in Kinds, NEW n \in Nat, e \in Level(kind, n)
               PROVE  x \in Level(kind, n)
    BY DEF KeepsLevel
  <2>1. n > 0 /\ k \in Seq(Level(kind, n - 1))
    BY <1>5
  <2>2. n - 1 \in Nat /\ (n - 1) + 1 = n
    BY <2>1
  <2>3. x \in Trees(Level(kind, n - 1))
    BY <1>1, <1>5, <1>6, <2>1 DEF Trees
  <2> HIDE DEF x
  <2> QED BY <2>2, <2>3, Builds
<1>8. x \in Exprs
  BY <1>7, KeptExpr
<1>9. ASSUME e \in Level("normal", MaxDepth) PROVE SameSign(e, x)
  <2>1. MaxDepth \in Nat /\ MaxDepth > 0 /\ e.args \in Seq(Level("normal", MaxDepth - 1))
    BY <1>9, ExprsLevel, Shapes2
  <2>2. MaxDepth - 1 \in Nat /\ MaxDepth - 1 <= MaxDepth
    BY <2>1
  <2>3. Level("normal", MaxDepth - 1) \subseteq Level("normal", MaxDepth)
    BY <2>1, <2>2, LevelsNest
  <2>4. \A i \in DOMAIN e.args : e.args[i] \in Level("normal", MaxDepth)
    BY <2>1, <2>3
  <2>5. \A i \in DOMAIN e.args : SameSign(e.args[i], k[i])
    BY <1>3, <2>4 DEF BoolKept
  <2> SUFFICES ASSUME NEW v \in Values PROVE T(x, v, 1) <=> T(e, v, 1)
    BY DEF SameSign
  <2>6. T(x, v, 1) <=> Holds(e.op, k, v, 1)
    <3>1. x.op = e.op /\ x.args = k
      OBVIOUS
    <3> HIDE DEF x
    <3> QED BY <3>1, <1>8, TreeHolds
  <2>7. T(e, v, 1) <=> Holds(e.op, e.args, v, 1)
    BY TreeHolds
  <2> QED BY <1>4, <2>5, <2>6, <2>7 DEF Holds, SameSign
<1>10. x.op = e.op /\ e \notin Atoms
  BY DEF Atoms, AndOr
<1> HIDE DEF x
<1> QED BY <1>2, <1>7, <1>9, <1>10 DEF BoolKept

(* One step of the recursion of expr_trans_bool.                           *)
LEMMA BoolMade ==
    ASSUME NEW e \in Exprs, NEW f, NEW g,
           \A y \in Exprs : rk(y) < rk(e) => f[y] = g[y] /\ BoolKept(y, f[y])
    PROVE  BoolBody(0, f, e) = BoolBody(0, g, e) /\ BoolKept(e, BoolBody(0, f, e))
<1>1. CASE e.op \in AndOr
  <2>1. \A i \in DOMAIN e.args : e.args[i] \in Exprs /\ rk(e.args[i]) < rk(e)
    BY <1>1, ExprParts
  <2>2. [i \in DOMAIN e.args |-> f[e.args[i]]] = [i \in DOMAIN e.args |-> g[e.args[i]]]
    BY <2>1
  <2>3. BoolBody(0, f, e) = BoolBody(0, g, e)
    BY <1>1, <2>2, Zenon DEF BoolBody
  <2> QED BY <1>1, <2>3, BoolTree
<1>2. CASE e.op = "not"
  <2> DEFINE x == Not(f[e.arg])
  <2>1. e.arg \in Exprs /\ rk(e.arg) < rk(e) /\ e = Not(e.arg)
    BY <1>2, ExprParts
  <2>2. f[e.arg] = g[e.arg] /\ BoolKept(e.arg, f[e.arg])
    BY <2>1
  <2>3. BoolBody(0, f, e) = x /\ BoolBody(0, g, e) = x
    BY <1>2, <2>2 DEF BoolBody, AndOr
  <2>4. KeepsLevel(e, x)
    <3> SUFFICES ASSUME NEW kind \in Kinds, NEW n \in Nat, e \in Level(kind, n)
                 PROVE  x \in Level(kind, n)
      BY DEF KeepsLevel
    <3>1. Shaped(kind, n, e)
      BY Shapes
    <3>2. n > 0 /\ e.arg \in Level(kind, n - 1) /\ (kind = "normal" => e.arg \in Atoms)
      BY <1>2, <3>1 DEF Shaped, AndOr
    <3>3. n - 1 \in Nat /\ (n - 1) + 1 = n
      BY <3>2
    <3>4. f[e.arg] \in Level(kind, n - 1) /\ (kind = "normal" => f[e.arg] \in Atoms)
      BY <2>2, <3>2, <3>3 DEF BoolKept, KeepsLevel
    <3> QED BY <3>3, <3>4, Builds
  <2>5. ASSUME e \in Level("normal", MaxDepth) PROVE SameSign(e, x)
    <3>1. Shaped("normal", MaxDepth, e)
      BY <2>5, Shapes, ExprsLevel
    <3>2. e.arg \in Atoms
      BY <1>2, <3>1 DEF Shaped, AndOr
    <3>3. x = e
      BY <2>1, <2>2, <3>2 DEF BoolKept
    <3> QED BY <3>3 DEF SameSign
  <2>6. x.op = "not" /\ e \notin Atoms
    BY <1>2 DEF Not, Atoms
  <2> HIDE DEF x
  <2> QED BY <1>2, <2>3, <2>4, <2>5, <2>6 DEF BoolKept
<1>3. CASE e.op = "neq" /\ e.sym \in Tristates /\ e.val = "n"
  <2> DEFINE x == expr_alloc_symbol(e.sym)
  <2>1. x \in Atoms /\ x.op = "sym" /\ x.sym = e.sym
    BY <1>3, SymAtoms DEF Symbols
  <2>2. BoolBody(0, f, e) = x /\ BoolBody(0, g, e) = x
    BY <1>3 DEF BoolBody, AndOr
  <2> HIDE DEF x
  <2>3. KeepsLevel(e, x)
    BY <2>1, AtomsEverywhere DEF KeepsLevel
  <2>4. ASSUME NEW v \in Values PROVE T(x, v, 1) <=> T(e, v, 1)
    <3>1. ValueOf(e.sym, v) \in 0..2
      BY <1>3, SymAtoms DEF Symbols
    <3>2. T(x, v, 1) <=> ValueOf(e.sym, v) >= 1
      BY <2>1, SymHolds
    <3>3. T(e, v, 1) <=> ((ValueOf(e.sym, v) = ValueOf(e.val, v)) <=> e.op = "eq")
      BY <1>3, TestHolds
    <3>4. ValueOf(e.val, v) = 0
      BY <1>3 DEF ValueOf, no
    <3>5. T(e, v, 1) <=> ValueOf(e.sym, v) # 0
      BY <1>3, <3>3, <3>4
    <3> QED BY <3>1, <3>2, <3>5
  <2>5. e \notin Atoms
    BY <1>3 DEF Atoms
  <2> QED BY <2>1, <2>2, <2>3, <2>4, <2>5 DEF BoolKept, SameSign
<1>4. CASE /\ e.op \in {"sym", "eq", "neq"}
           /\ ~(e.op = "neq" /\ e.sym \in Tristates /\ e.val = "n")
  <2>1. BoolBody(0, f, e) = e /\ BoolBody(0, g, e) = e
    <3>1. e.op \notin AndOr /\ e.op # "not"
      BY <1>4 DEF AndOr
    <3> QED BY <1>4, <3>1, Zenon DEF BoolBody
  <2> QED BY <2>1, SelfKept DEF BoolKept, SameSign
<1> QED BY <1>1, <1>2, <1>3, <1>4, ExprParts DEF AndOr

(* expr_trans_bool keeps the level of an expression and, if no negation    *)
(* but of a symbol is in it, whether it is n.                              *)
LEMMA TransBool == \A e \in Conds : BoolGood(0, e, expr_trans_bool[e])
<1>1. BoolRec!Ranked(0)
  BY CondRanks DEF BoolRec!Ranked, CondDom
<1>2. BoolRec!Local(0)
  <2> SUFFICES ASSUME NEW e \in Conds, NEW f, NEW g,
                      \A y \in BoolRec!Below(0, condRank(0, e)) :
                          f[y] = g[y] /\ BoolGood(0, y, f[y])
               PROVE  BoolBody(0, f, e) = BoolBody(0, g, e)
                      /\ BoolGood(0, e, BoolBody(0, f, e))
    BY DEF BoolRec!Local, CondDom
  <2>1. CASE e \in Exprs
    <3>1. \A y \in Exprs : rk(y) < rk(e) => f[y] = g[y] /\ BoolKept(y, f[y])
      <4> SUFFICES ASSUME NEW y \in Exprs, rk(y) < rk(e)
                   PROVE  f[y] = g[y] /\ BoolKept(y, f[y])
        OBVIOUS
      <4>1. y \in Conds /\ condRank(0, y) = rk(y) /\ condRank(0, e) = rk(e) /\ y # Null
        BY <2>1, CondRanks, ExprParts DEF Conds
      <4>2. f[y] = g[y] /\ BoolGood(0, y, f[y])
        BY <4>1 DEF BoolRec!Below, CondDom
      <4> QED BY <4>1, <4>2 DEF BoolGood
    <3>2. e # Null
      BY <2>1, ExprParts
    <3> QED BY <2>1, <3>1, <3>2, BoolMade DEF BoolGood
  <2>2. CASE e = Null
    <3>1. BoolBody(0, f, e) = e /\ BoolBody(0, g, e) = e
      <4>1. e.op = "null"
        BY <2>2 DEF Null
      <4> QED BY <4>1 DEF BoolBody, AndOr
    <3> QED BY <2>2, <3>1 DEF BoolGood
  <2> QED BY <2>1, <2>2 DEF Conds
<1>3. /\ \E f : f = [e \in Conds |-> BoolBody(0, f, e)]
      /\ \A f : f = [e \in Conds |-> BoolBody(0, f, e)]
                => \A e \in Conds : BoolGood(0, e, f[e])
  BY <1>1, <1>2, BoolRec!Defined DEF CondDom
<1>4. expr_trans_bool = [e \in Conds |-> BoolBody(0, expr_trans_bool, e)]
  <2> DEFINE h == CHOOSE f : f = [e \in Conds |-> BoolBody(0, f, e)]
  <2>1. h = [e \in Conds |-> BoolBody(0, h, e)]
    BY <1>3, Zenon
  <2>2. expr_trans_bool = h
    BY DEF expr_trans_bool, BoolBody
  <2> HIDE DEF h
  <2> QED BY <2>1, <2>2, Zenon
<1> QED BY <1>3, <1>4, Zenon

-----------------------------------------------------------------------------
(* expr_trans_compare                                                      *)
CompareBody(c, f, e) ==
    [with \in {"eq", "neq"} \X Const |->
        IF e.op = "null"
        THEN NotIf(with[1] = "neq", expr_alloc_symbol(with[2]))
        ELSE IF e.op \in AndOr
             THEN NotIf(with[1] = "neq", CompareTree(f, e, with[2]))
        ELSE IF e.op = "not"
             THEN f[e.arg][<< Flip(with[1]), with[2] >>]
        ELSE IF e.op = "sym" THEN expr_alloc_comp(with[1], e.sym, with[2])
        ELSE CompareTest(e, with[1], with[2])]

IsNo(x) == x[<< "eq", "n" >>]
IsNotNo(x) == x[<< "neq", "n" >>]
Tells(e, x) == \A v \in TwoValued : \A t \in 1..2 : T(x, v, t) <=> T(e, v, 1)
Denies(e, x) == \A v \in TwoValued : \A t \in 1..2 : T(x, v, t) <=> ~T(e, v, 1)

(* The test for n nests one deeper than the expression, the other two.     *)
ComparedAt(e, x, n) ==
    /\ IsNo(x) \in Level("any", n + 1)
    /\ IsNotNo(x) \in Level("any", n + 2)
    /\ n + 1 <= MaxDepth => Denies(e, IsNo(x))
    /\ n + 2 <= MaxDepth => Tells(e, IsNotNo(x))
CompareGood(c, e, x) ==
    IF e = Null THEN IsNotNo(x) = Not(N)
    ELSE \A n \in Nat : e \in Level("any", n) => ComparedAt(e, x, n)
CompareRec == INSTANCE Recursion
    WITH Dom <- CondDom, rank <- condRank, Body <- CompareBody, Good <- CompareGood, Step <- NoStep

(* Without m, what is not n is y.                                          *)
LEMMA TwoValuedSigns ==
    ASSUME NEW e \in Exprs, NEW v \in TwoValued, NEW t \in 1..2
    PROVE  T(e, v, t) <=> T(e, v, 1)
<1>1. T(e, v, 1) <=> T(e, v, 2)
  BY AllDefinite DEF Definite
<1>2. t = 1 \/ t = 2
  OBVIOUS
<1> QED BY <1>1, <1>2

(* The expressions of the levels up to MaxDepth.                           *)
LEMMA LevelExprs ==
    ASSUME NEW n \in Nat, n <= MaxDepth
    PROVE  Level("any", n) \subseteq Exprs /\ Level("normal", n) \subseteq Exprs
BY ExprsLevel, LevelsNest, NormalOnes

(* The negation of what denies e tells it.                                 *)
LEMMA Denied ==
    ASSUME NEW e \in Exprs, NEW y \in Exprs, Not(y) \in Exprs
    PROVE  Denies(e, y) => Tells(e, Not(y))
<1> SUFFICES ASSUME Denies(e, y), NEW v \in TwoValued, NEW t \in 1..2
             PROVE  T(Not(y), v, t) <=> T(e, v, 1)
  BY DEF Tells
<1>1. Not(y).op = "not" /\ Not(y).arg = y
  BY DEF Not
<1>2. v \in Values /\ 3 - t \in 1..2
  BY TwoValues
<1>3. T(Not(y), v, t) <=> ~T(y, v, 3 - t)
  BY <1>1, <1>2, NotHolds
<1>4. T(y, v, 3 - t) <=> ~T(e, v, 1)
  BY <1>2 DEF Denies
<1> QED BY <1>3, <1>4, Zenon

CompareLeaves(f, e) == [i \in DOMAIN e.args |-> f[e.args[i]][<< "eq", "n" >>]]

(* A tree compared with n.                                                 *)
LEMMA ComparedTree ==
    ASSUME NEW e \in Exprs, e.op \in AndOr, NEW f, NEW n \in Nat, e \in Level("any", n),
           \A y \in Exprs : rk(y) < rk(e) => CompareGood(0, y, f[y])
    PROVE  /\ CompareTree(f, e, "n") \in Level("any", n + 1)
           /\ n + 1 <= MaxDepth => Denies(e, CompareTree(f, e, "n"))
<1> DEFINE k == CompareLeaves(f, e)
           x == CompareTree(f, e, "n")
<1>1. x = Nary(Dual(e.op), k)
  BY DEF CompareTree, CompareLeaves
<1>2. /\ e.args \in Seq(Exprs) /\ Len(e.args) > 1 /\ DOMAIN e.args = 1..Len(e.args)
      /\ Len(e.args) \in Nat
      /\ \A i \in DOMAIN e.args : e.args[i] \in Exprs /\ rk(e.args[i]) < rk(e) /\ e.args[i] # Null
  BY ExprParts
<1>3. n > 0 /\ e.args \in Seq(Level("any", n - 1))
  BY Shapes2
<1>4. n - 1 \in Nat /\ (n - 1) + 1 = n
  BY <1>3
<1>5. \A i \in DOMAIN e.args : ComparedAt(e.args[i], f[e.args[i]], n - 1)
  <2> SUFFICES ASSUME NEW i \in DOMAIN e.args
               PROVE  ComparedAt(e.args[i], f[e.args[i]], n - 1)
    OBVIOUS
  <2>1. e.args[i] \in Level("any", n - 1)
    BY <1>3
  <2>2. CompareGood(0, e.args[i], f[e.args[i]]) /\ e.args[i] # Null
    BY <1>2
  <2> QED BY <1>4, <2>1, <2>2, Zenon DEF CompareGood
<1>6. DOMAIN k = 1..Len(e.args) /\ k = [i \in 1..Len(e.args) |-> k[i]]
      /\ \A i \in DOMAIN e.args : k[i] = IsNo(f[e.args[i]])
  BY <1>2 DEF CompareLeaves, IsNo
<1> HIDE DEF k, x
<1>7. \A i \in 1..Len(e.args) : k[i] \in Level("any", n)
  BY <1>2, <1>4, <1>5, <1>6 DEF ComparedAt
<1> DEFINE S == Level("any", n)
<1>8. k \in Seq(S) /\ Len(k) = Len(e.args)
  <2> HIDE DEF S
  <2>1. \A i \in 1..Len(e.args) : k[i] \in S
    BY <1>7 DEF S
  <2> QED BY <1>2, <1>6, <2>1, ListOf
<1>9. Dual(e.op) \in AndOr
  BY DEF Dual, AndOr
<1>10. x \in Level("any", n + 1)
  BY <1>1, <1>2, <1>8, <1>9, NaryLevel
<1>11. ASSUME n + 1 <= MaxDepth PROVE Denies(e, x)
  <2> SUFFICES ASSUME NEW v \in TwoValued, NEW t \in 1..2
               PROVE  T(x, v, t) <=> ~T(e, v, 1)
    BY DEF Denies
  <2>1. x \in Exprs /\ MaxDepth \in Nat /\ n <= MaxDepth
    BY <1>10, <1>11, LevelExprs, ExprsLevel
  <2>2. k \in Seq(Exprs)
    <3>1. S \subseteq Exprs
      BY <2>1, LevelExprs
    <3> HIDE DEF S
    <3> QED BY <1>8, <3>1
  <2>3. v \in Values /\ 3 - t \in 1..2
    BY TwoValues
  <2>4. \A i \in DOMAIN e.args : T(k[i], v, t) <=> ~T(e.args[i], v, 3 - t)
    <3> SUFFICES ASSUME NEW i \in DOMAIN e.args
                 PROVE  T(k[i], v, t) <=> ~T(e.args[i], v, 3 - t)
      OBVIOUS
    <3>1. Denies(e.args[i], k[i])
      BY <1>4, <1>5, <1>6, <2>1 DEF ComparedAt
    <3>2. T(k[i], v, t) <=> ~T(e.args[i], v, 1)
      BY <3>1 DEF Denies
    <3>3. T(e.args[i], v, 3 - t) <=> T(e.args[i], v, 1)
      BY <1>2, <2>3, TwoValuedSigns
    <3> QED BY <3>2, <3>3
  <2>5. Holds(Dual(e.op), k, v, t) <=> ~Holds(e.op, e.args, v, 3 - t)
    BY <1>2, <1>8, <2>2, <2>3, <2>4, DualHolds
  <2>6. T(x, v, t) <=> Holds(Dual(e.op), k, v, t)
    BY <1>1, <1>2, <1>8, <1>9, <2>1, <2>2, <2>3, NaryHolds
  <2>7. T(e, v, 3 - t) <=> Holds(e.op, e.args, v, 3 - t)
    BY <2>3, TreeHolds
  <2>8. T(e, v, 3 - t) <=> T(e, v, 1)
    BY <2>3, TwoValuedSigns
  <2> QED BY <2>5, <2>6, <2>7, <2>8, Zenon
<1> QED BY <1>10, <1>11 DEF x

(* A test of the value of a leaf or of a comparison.                       *)
LEMMA ComparedLeaf ==
    ASSUME NEW e \in Exprs, NEW n \in Nat, e \in Level("any", n)
    PROVE  /\ e.op = "sym" => \A op \in {"eq", "neq"} :
                 /\ expr_alloc_comp(op, e.sym, "n") \in Level("any", n + 1)
                 /\ n + 1 <= MaxDepth => \A v \in TwoValued : \A t \in 1..2 :
                       T(expr_alloc_comp(op, e.sym, "n"), v, t) <=> (T(e, v, 1) <=> op = "neq")
           /\ Not(e) \in Level("any", n + 1)
           /\ n + 1 <= MaxDepth => Denies(e, Not(e))
           /\ Tells(e, e)
<1>1. ASSUME e.op = "sym", NEW op \in {"eq", "neq"}
      PROVE  /\ expr_alloc_comp(op, e.sym, "n") \in Level("any", n + 1)
             /\ n + 1 <= MaxDepth => \A v \in TwoValued : \A t \in 1..2 :
                   T(expr_alloc_comp(op, e.sym, "n"), v, t) <=> (T(e, v, 1) <=> op = "neq")
  <2> DEFINE x == expr_alloc_comp(op, e.sym, "n")
  <2>1. e \in Atoms /\ e.sym \in Names
    BY <1>1, ExprParts DEF Atoms
  <2>2. x \in Comparisons /\ x.op = op /\ x.sym = e.sym /\ x.val = "n"
    BY <2>1 DEF expr_alloc_comp, Comparisons, Names, Const
  <2> HIDE DEF x
  <2>3. x \in Level("any", n + 1)
    BY <2>2, Builds
  <2>4. ASSUME n + 1 <= MaxDepth, NEW v \in TwoValued, NEW t \in 1..2
        PROVE  T(x, v, t) <=> (T(e, v, 1) <=> op = "neq")
    <3>1. x \in Exprs
      BY <2>3, <2>4, LevelExprs
    <3>2. v \in Values
      BY TwoValues
    <3>3. ValueOf("n", v) = 0
      BY DEF ValueOf, no
    <3>4. T(x, v, t) <=> ((ValueOf(e.sym, v) = 0) <=> op = "eq")
      BY <2>2, <3>1, <3>2, <3>3, TestHolds
    <3>5. T(e, v, 1) <=> ValueOf(e.sym, v) >= 1
      BY <2>1, <3>2, SymHolds
    <3>6. ValueOf(e.sym, v) \in 0..2
      BY <2>1, <3>2, NameValues
    <3>7. T(e, v, 1) <=> ~(ValueOf(e.sym, v) = 0)
      BY <3>5, <3>6
    <3>8. op = "eq" <=> ~(op = "neq")
      OBVIOUS
    <3> QED BY <3>4, <3>7, <3>8, Zenon
  <2> QED BY <2>3, <2>4 DEF x
<1>2. Not(e) \in Level("any", n + 1)
  BY Builds
<1>3. ASSUME n + 1 <= MaxDepth PROVE Denies(e, Not(e))
  <2> SUFFICES ASSUME NEW v \in TwoValued, NEW t \in 1..2
               PROVE  T(Not(e), v, t) <=> ~T(e, v, 1)
    BY DEF Denies
  <2>1. Not(e) \in Exprs /\ Not(e).op = "not" /\ Not(e).arg = e
    BY <1>2, <1>3, LevelExprs DEF Not
  <2>2. v \in Values /\ 3 - t \in 1..2
    BY TwoValues
  <2>3. T(Not(e), v, t) <=> ~T(e, v, 3 - t)
    BY <2>1, <2>2, NotHolds
  <2>4. T(e, v, 3 - t) <=> T(e, v, 1)
    BY <2>2, TwoValuedSigns
  <2> QED BY <2>3, <2>4, Zenon
<1>4. Tells(e, e)
  BY TwoValuedSigns, Zenon DEF Tells
<1> QED BY <1>1, <1>2, <1>3, <1>4

CompareWith(f, e, op, s) ==
    IF e.op = "null"
    THEN NotIf(op = "neq", expr_alloc_symbol(s))
    ELSE IF e.op \in AndOr
         THEN NotIf(op = "neq", CompareTree(f, e, s))
    ELSE IF e.op = "not"
         THEN f[e.arg][<< Flip(op), s >>]
    ELSE IF e.op = "sym" THEN expr_alloc_comp(op, e.sym, s)
    ELSE CompareTest(e, op, s)

(* The comparisons with n that expr_trans_compare makes.                   *)
LEMMA CompareAt ==
    ASSUME NEW f, NEW e
    PROVE  /\ CompareBody(0, f, e) = [with \in {"eq", "neq"} \X Const |-> CompareWith(f, e, with[1], with[2])]
           /\ IsNo(CompareBody(0, f, e)) = CompareWith(f, e, "eq", "n")
           /\ IsNotNo(CompareBody(0, f, e)) = CompareWith(f, e, "neq", "n")
<1>1. CompareBody(0, f, e) = [with \in {"eq", "neq"} \X Const |-> CompareWith(f, e, with[1], with[2])]
  BY Zenon DEF CompareBody, CompareWith
<1>2. "n" \in Const
  BY DEF Const
<1>3. << "eq", "n" >> \in {"eq", "neq"} \X Const /\ << "neq", "n" >> \in {"eq", "neq"} \X Const
  BY <1>2
<1>4. /\ << "eq", "n" >>[1] = "eq" /\ << "eq", "n" >>[2] = "n"
      /\ << "neq", "n" >>[1] = "neq" /\ << "neq", "n" >>[2] = "n"
  OBVIOUS
<1>5. IsNo(CompareBody(0, f, e)) = CompareWith(f, e, "eq", "n")
  BY <1>1, <1>3, <1>4, Zenon DEF IsNo
<1>6. IsNotNo(CompareBody(0, f, e)) = CompareWith(f, e, "neq", "n")
  BY <1>1, <1>3, <1>4, Zenon DEF IsNotNo
<1> QED BY <1>1, <1>5, <1>6

(* expr_trans_compare asks only for the parts of an expression.            *)
LEMMA CompareAlike ==
    ASSUME NEW e \in Conds, NEW f, NEW g,
           \A y \in Exprs : rk(y) < rk(e) => f[y] = g[y]
    PROVE  CompareBody(0, f, e) = CompareBody(0, g, e)
<1>1. ASSUME NEW op \in {"eq", "neq"}, NEW s \in Const
      PROVE  CompareWith(f, e, op, s) = CompareWith(g, e, op, s)
  <2>1. CASE e.op \in AndOr
    <3>1. e \in Exprs
      BY <2>1 DEF Conds, Null, AndOr
    <3>2. \A i \in DOMAIN e.args : e.args[i] \in Exprs /\ rk(e.args[i]) < rk(e)
      BY <2>1, <3>1, ExprParts
    <3>3. [i \in DOMAIN e.args |-> f[e.args[i]][<< "eq", s >>]]
            = [i \in DOMAIN e.args |-> g[e.args[i]][<< "eq", s >>]]
      BY <3>2
    <3>4. CompareTree(f, e, s) = CompareTree(g, e, s)
      BY <3>3, Zenon DEF CompareTree
    <3> QED BY <2>1, <3>4, Zenon DEF CompareWith
  <2>2. CASE e.op = "not"
    <3>1. e \in Exprs
      BY <2>2 DEF Conds, Null
    <3>2. e.arg \in Exprs /\ rk(e.arg) < rk(e)
      BY <2>2, <3>1, ExprParts
    <3>3. f[e.arg] = g[e.arg]
      BY <3>2
    <3>4. /\ CompareWith(f, e, op, s) = f[e.arg][<< Flip(op), s >>]
          /\ CompareWith(g, e, op, s) = g[e.arg][<< Flip(op), s >>]
      BY <2>2 DEF CompareWith, AndOr
    <3> QED BY <3>3, <3>4
  <2>3. CASE e.op \notin AndOr /\ e.op # "not"
    BY <2>3, Zenon DEF CompareWith
  <2> QED BY <2>1, <2>2, <2>3
<1>2. \A with \in {"eq", "neq"} \X Const :
         CompareWith(f, e, with[1], with[2]) = CompareWith(g, e, with[1], with[2])
  <2> SUFFICES ASSUME NEW with \in {"eq", "neq"} \X Const
               PROVE  CompareWith(f, e, with[1], with[2]) = CompareWith(g, e, with[1], with[2])
    OBVIOUS
  <2>1. with[1] \in {"eq", "neq"} /\ with[2] \in Const
    OBVIOUS
  <2> QED BY <1>1, <2>1
<1>3. [with \in {"eq", "neq"} \X Const |-> CompareWith(f, e, with[1], with[2])]
        = [with \in {"eq", "neq"} \X Const |-> CompareWith(g, e, with[1], with[2])]
  BY <1>2
<1> QED BY <1>3, CompareAt

(* One step of the recursion of expr_trans_compare.                        *)
LEMMA CompareMade ==
    ASSUME NEW e \in Exprs, NEW f,
           \A y \in Exprs : rk(y) < rk(e) => CompareGood(0, y, f[y])
    PROVE  CompareGood(0, e, CompareBody(0, f, e))
<1> DEFINE x == CompareBody(0, f, e)
<1>0. e # Null /\ e.op # "null"
  BY ExprParts
<1> SUFFICES ASSUME NEW n \in Nat, e \in Level("any", n)
             PROVE  ComparedAt(e, x, n)
  BY <1>0 DEF CompareGood
<1>1. IsNo(x) = CompareWith(f, e, "eq", "n") /\ IsNotNo(x) = CompareWith(f, e, "neq", "n")
  BY CompareAt
<1>2. n + 1 \in Nat /\ n + 2 \in Nat /\ (n + 1) + 1 = n + 2
  OBVIOUS
<1>3. Level("any", n) \subseteq Level("any", n + 1) /\ Level("any", n + 1) \subseteq Level("any", n + 2)
  BY <1>2, LevelsNest
<1>4. "eq" # "neq" /\ Flip("eq") = "neq" /\ Flip("neq") = "eq"
  BY DEF Flip
<1> HIDE DEF x
<1>5. CASE e.op \in AndOr
  <2> DEFINE y == CompareTree(f, e, "n")
  <2>1. y \in Level("any", n + 1) /\ (n + 1 <= MaxDepth => Denies(e, y))
    BY <1>5, ComparedTree
  <2>2. IsNo(x) = y /\ IsNotNo(x) = Not(y)
    BY <1>0, <1>1, <1>4, <1>5, Zenon DEF CompareWith, NotIf
  <2> HIDE DEF y
  <2>3. Not(y) \in Level("any", n + 2)
    BY <1>2, <2>1, Builds
  <2>4. ASSUME n + 2 <= MaxDepth PROVE Tells(e, Not(y))
    <3>1. n + 1 <= MaxDepth
      BY <2>4, ExprsLevel
    <3>2. y \in Exprs /\ Not(y) \in Exprs
      BY <1>2, <2>1, <2>3, <2>4, <3>1, LevelExprs
    <3> QED BY <2>1, <3>1, <3>2, Denied
  <2> QED BY <2>1, <2>2, <2>3, <2>4 DEF ComparedAt
<1>6. CASE e.op = "not"
  <2> DEFINE a == e.arg
  <2>1. a \in Exprs /\ rk(a) < rk(e) /\ e = Not(a) /\ a # Null
    BY <1>6, ExprParts
  <2>2. Shaped("any", n, e)
    BY Shapes
  <2>3. n > 0 /\ a \in Level("any", n - 1)
    BY <1>6, <2>2 DEF Shaped, AndOr
  <2>4. n - 1 \in Nat /\ (n - 1) + 1 = n /\ (n - 1) + 2 = n + 1
    BY <2>3
  <2>5. ComparedAt(a, f[a], n - 1)
    BY <2>1, <2>3, <2>4, Zenon DEF CompareGood
  <2>6. IsNo(x) = IsNotNo(f[a]) /\ IsNotNo(x) = IsNo(f[a])
    <3>1. "not" \notin AndOr
      BY DEF AndOr
    <3> QED BY <1>0, <1>1, <1>4, <1>6, <3>1, Zenon DEF CompareWith, IsNo, IsNotNo
  <2>7. IsNo(x) \in Level("any", n + 1) /\ IsNotNo(x) \in Level("any", n + 2)
    BY <1>3, <2>4, <2>5, <2>6 DEF ComparedAt
  <2>8. ASSUME NEW v \in TwoValued PROVE T(e, v, 1) <=> ~T(a, v, 1)
    <3>1. v \in Values
      BY TwoValues
    <3>2. T(e, v, 1) <=> ~T(a, v, 3 - 1)
      BY <1>6, <3>1, NotHolds
    <3>3. T(a, v, 3 - 1) <=> T(a, v, 1)
      BY <2>1, TwoValuedSigns
    <3> QED BY <3>2, <3>3, Zenon
  <2>9. ASSUME n + 1 <= MaxDepth PROVE Denies(e, IsNo(x))
    <3>1. Tells(a, IsNotNo(f[a]))
      BY <2>4, <2>5, <2>9 DEF ComparedAt
    <3> QED BY <2>6, <2>8, <3>1, Zenon DEF Denies, Tells
  <2>10. ASSUME n + 2 <= MaxDepth PROVE Tells(e, IsNotNo(x))
    <3>1. (n - 1) + 1 <= MaxDepth
      BY <2>4, <2>10, ExprsLevel
    <3>2. Denies(a, IsNo(f[a]))
      BY <2>5, <3>1 DEF ComparedAt
    <3> QED BY <2>6, <2>8, <3>2, Zenon DEF Denies, Tells
  <2> QED BY <2>7, <2>9, <2>10 DEF ComparedAt
<1>7. CASE e.op = "sym"
  <2>1. IsNo(x) = expr_alloc_comp("eq", e.sym, "n") /\ IsNotNo(x) = expr_alloc_comp("neq", e.sym, "n")
    <3>1. "sym" \notin AndOr
      BY DEF AndOr
    <3> QED BY <1>0, <1>1, <1>7, <3>1, Zenon DEF CompareWith
  <2>2. \A op \in {"eq", "neq"} :
                 /\ expr_alloc_comp(op, e.sym, "n") \in Level("any", n + 1)
                 /\ n + 1 <= MaxDepth => \A v \in TwoValued : \A t \in 1..2 :
                       T(expr_alloc_comp(op, e.sym, "n"), v, t) <=> (T(e, v, 1) <=> op = "neq")
    BY <1>7, ComparedLeaf
  <2>3. n + 2 <= MaxDepth => n + 1 <= MaxDepth
    BY ExprsLevel
  <2>4. IsNo(x) \in Level("any", n + 1) /\ IsNotNo(x) \in Level("any", n + 2)
    BY <1>3, <2>1, <2>2
  <2>5. ASSUME n + 1 <= MaxDepth PROVE Denies(e, IsNo(x)) /\ Tells(e, IsNotNo(x))
    <3>1. \A v \in TwoValued : \A t \in 1..2 : /\ T(IsNo(x), v, t) <=> (T(e, v, 1) <=> "eq" = "neq")
                                               /\ T(IsNotNo(x), v, t) <=> (T(e, v, 1) <=> "neq" = "neq")
      BY <2>1, <2>2, <2>5, Zenon
    <3> QED BY <1>4, <3>1, Zenon DEF Denies, Tells
  <2> QED BY <2>3, <2>4, <2>5 DEF ComparedAt
<1>8. CASE e.op \in {"eq", "neq"}
  <2>1. IsNo(x) = Not(e) /\ IsNotNo(x) = e
    <3>1. e.op \notin AndOr /\ e.op # "not" /\ e.op # "sym"
      BY <1>8 DEF AndOr
    <3>2. CompareTest(e, "eq", "n") = Not(e) /\ CompareTest(e, "neq", "n") = e
      BY DEF CompareTest, NotIf
    <3> QED BY <1>0, <1>1, <3>1, <3>2, Zenon DEF CompareWith
  <2>2. Not(e) \in Level("any", n + 1) /\ (n + 1 <= MaxDepth => Denies(e, Not(e))) /\ Tells(e, e)
    BY ComparedLeaf
  <2>3. e \in Level("any", n + 2)
    BY <1>3
  <2> QED BY <2>1, <2>2, <2>3 DEF ComparedAt
<1> QED BY <1>5, <1>6, <1>7, <1>8, ExprParts DEF AndOr

(* expr_trans_compare makes of e an expression that is y where e is not n, *)
(* and one that is y where e is n, for all values without m.               *)
LEMMA TransCompare == \A e \in Conds : CompareGood(0, e, expr_trans_compare[e])
<1>1. CompareRec!Ranked(0)
  BY CondRanks DEF CompareRec!Ranked, CondDom
<1>2. CompareRec!Local(0)
  <2> SUFFICES ASSUME NEW e \in Conds, NEW f, NEW g,
                      \A y \in CompareRec!Below(0, condRank(0, e)) :
                          f[y] = g[y] /\ CompareGood(0, y, f[y])
               PROVE  CompareBody(0, f, e) = CompareBody(0, g, e)
                      /\ CompareGood(0, e, CompareBody(0, f, e))
    BY DEF CompareRec!Local, CondDom
  <2>1. CASE e \in Exprs
    <3>1. \A y \in Exprs : rk(y) < rk(e) => f[y] = g[y] /\ CompareGood(0, y, f[y])
      <4> SUFFICES ASSUME NEW y \in Exprs, rk(y) < rk(e)
                   PROVE  f[y] = g[y] /\ CompareGood(0, y, f[y])
        OBVIOUS
      <4>1. y \in Conds /\ condRank(0, y) = rk(y) /\ condRank(0, e) = rk(e)
        BY <2>1, CondRanks DEF Conds
      <4> QED BY <4>1 DEF CompareRec!Below, CondDom
    <3> QED BY <2>1, <3>1, CompareMade, CompareAlike
  <2>2. CASE e = Null
    <3>1. e.op = "null"
      BY <2>2 DEF Null
    <3>2. ASSUME NEW h, NEW op, NEW s
          PROVE  CompareWith(h, e, op, s) = NotIf(op = "neq", expr_alloc_symbol(s))
      BY <3>1, Zenon DEF CompareWith
    <3>3. CompareBody(0, f, e) = CompareBody(0, g, e)
      <4>1. ASSUME NEW with
            PROVE  CompareWith(f, e, with[1], with[2]) = CompareWith(g, e, with[1], with[2])
        <5>1. CompareWith(f, e, with[1], with[2]) = NotIf(with[1] = "neq", expr_alloc_symbol(with[2]))
          BY <3>2
        <5>2. CompareWith(g, e, with[1], with[2]) = NotIf(with[1] = "neq", expr_alloc_symbol(with[2]))
          BY <3>2
        <5> QED BY <5>1, <5>2, Zenon
      <4>2. [with \in {"eq", "neq"} \X Const |-> CompareWith(f, e, with[1], with[2])]
              = [with \in {"eq", "neq"} \X Const |-> CompareWith(g, e, with[1], with[2])]
        BY <4>1, Zenon
      <4> QED BY <4>2, CompareAt
    <3>4. IsNotNo(CompareBody(0, f, e)) = Not(N)
      <4>1. CompareWith(f, e, "neq", "n") = NotIf("neq" = "neq", expr_alloc_symbol("n"))
        BY <3>2
      <4>2. IsNotNo(CompareBody(0, f, e)) = CompareWith(f, e, "neq", "n")
        BY CompareAt
      <4> QED BY <4>1, <4>2, Zenon DEF NotIf, N
    <3> QED BY <2>2, <3>3, <3>4 DEF CompareGood
  <2> QED BY <2>1, <2>2 DEF Conds
<1>3. /\ \E f : f = [e \in Conds |-> CompareBody(0, f, e)]
      /\ \A f : f = [e \in Conds |-> CompareBody(0, f, e)]
                => \A e \in Conds : CompareGood(0, e, f[e])
  BY <1>1, <1>2, CompareRec!Defined DEF CondDom
<1>4. expr_trans_compare = [e \in Conds |-> CompareBody(0, expr_trans_compare, e)]
  <2> DEFINE h == CHOOSE f : f = [e \in Conds |-> CompareBody(0, f, e)]
  <2>1. h = [e \in Conds |-> CompareBody(0, h, e)]
    BY <1>3, Zenon
  <2>2. expr_trans_compare = h
    BY DEF expr_trans_compare, CompareBody
  <2> HIDE DEF h
  <2> QED BY <2>1, <2>2, Zenon
<1> QED BY <1>3, <1>4, Zenon

-----------------------------------------------------------------------------
(* expr_depends_symbol                                                     *)
DependsBody(c, f, e) ==
    [s \in Symbols |->
        IF e.op = "and"
        THEN \E i \in DOMAIN e.args : f[e.args[i]][s]
        ELSE \/ e.op = "sym" /\ e.sym = s
             \/ e.op = "eq" /\ e.sym = s /\ e.val \in {"y", "m"}
             \/ e.op = "neq" /\ e.sym = s /\ e.val = "n"]
Requires(e, x) ==
    \A s \in Symbols : x[s] => \A v \in Values : T(e, v, 1) => v[s] # no
DependsGood(c, e, x) == Requires(e, x)
DependsRec == INSTANCE Recursion
    WITH Dom <- CondDom, rank <- condRank, Body <- DependsBody, Good <- DependsGood, Step <- NoStep

DependsOn(f, e, s) ==
    IF e.op = "and"
    THEN \E i \in DOMAIN e.args : f[e.args[i]][s]
    ELSE \/ e.op = "sym" /\ e.sym = s
         \/ e.op = "eq" /\ e.sym = s /\ e.val \in {"y", "m"}
         \/ e.op = "neq" /\ e.sym = s /\ e.val = "n"

(* One step of the recursion of expr_depends_symbol.                       *)
LEMMA DependsMade ==
    ASSUME NEW e \in Conds, NEW f, NEW g,
           \A y \in Exprs : rk(y) < rk(e) => f[y] = g[y] /\ Requires(y, f[y])
    PROVE  DependsBody(0, f, e) = DependsBody(0, g, e) /\ Requires(e, DependsBody(0, f, e))
<1>1. /\ DependsBody(0, f, e) = [s \in Symbols |-> DependsOn(f, e, s)]
      /\ DependsBody(0, g, e) = [s \in Symbols |-> DependsOn(g, e, s)]
  BY Zenon DEF DependsBody, DependsOn
<1>2. ASSUME e.op = "and"
      PROVE  /\ e \in Exprs
             /\ \A i \in DOMAIN e.args : /\ e.args[i] \in Exprs
                                         /\ f[e.args[i]] = g[e.args[i]]
                                         /\ Requires(e.args[i], f[e.args[i]])
  <2>1. e \in Exprs /\ e.op \in AndOr
    BY <1>2 DEF Conds, Null, AndOr
  <2>2. \A i \in DOMAIN e.args : e.args[i] \in Exprs /\ rk(e.args[i]) < rk(e)
    BY <2>1, ExprParts
  <2> QED BY <2>1, <2>2
<1>3. ASSUME NEW s \in Symbols PROVE DependsOn(f, e, s) = DependsOn(g, e, s)
  <2>1. CASE e.op = "and"
    <3>1. DependsOn(f, e, s) = (\E i \in DOMAIN e.args : f[e.args[i]][s])
      BY <2>1, Zenon DEF DependsOn
    <3>2. DependsOn(g, e, s) = (\E i \in DOMAIN e.args : g[e.args[i]][s])
      BY <2>1, Zenon DEF DependsOn
    <3>3. (\E i \in DOMAIN e.args : f[e.args[i]][s]) <=> (\E i \in DOMAIN e.args : g[e.args[i]][s])
      BY <1>2, <2>1, Zenon
    <3> QED BY <3>1, <3>2, <3>3, Zenon
  <2>2. CASE e.op # "and"
    BY <2>2, Zenon DEF DependsOn
  <2> QED BY <2>1, <2>2
<1>4. DependsBody(0, f, e) = DependsBody(0, g, e)
  BY <1>1, <1>3, Zenon
<1>5. ASSUME NEW s \in Symbols, DependsOn(f, e, s), NEW v \in Values, T(e, v, 1)
      PROVE  v[s] # no
  <2>1. v[s] \in 0..2 /\ ValueOf(s, v) = v[s]
    BY SymAtoms
  <2>2. CASE e.op = "and"
    <3>1. \E i \in DOMAIN e.args : f[e.args[i]][s]
      BY <1>5, <2>2, Zenon DEF DependsOn
    <3>2. PICK i \in DOMAIN e.args : f[e.args[i]][s]
      BY <3>1
    <3>3. T(e.args[i], v, 1)
      <4>1. T(e, v, 1) <=> Holds(e.op, e.args, v, 1)
        BY <1>2, <2>2, TreeHolds DEF AndOr
      <4> QED BY <1>5, <2>2, <4>1, Zenon DEF Holds
    <3> QED BY <1>2, <2>2, <3>2, <3>3, Zenon DEF Requires
  <2>3. CASE e.op # "and"
    <3>1. \/ e.op = "sym" /\ e.sym = s
          \/ e.op = "eq" /\ e.sym = s /\ e.val \in {"y", "m"}
          \/ e.op = "neq" /\ e.sym = s /\ e.val = "n"
      BY <1>5, <2>3, Zenon DEF DependsOn
    <3>2. e \in Exprs
      BY <3>1 DEF Conds, Null
    <3>3. CASE e.op = "sym"
      <4>1. e \in Atoms /\ e.sym = s
        BY <3>1, <3>2, <3>3, ExprParts
      <4>2. ValueOf(e.sym, v) >= 1
        BY <1>5, <4>1, SymHolds
      <4> QED BY <2>1, <4>1, <4>2 DEF no
    <3>4. CASE e.op \in {"eq", "neq"}
      <4>1. (ValueOf(e.sym, v) = ValueOf(e.val, v)) <=> e.op = "eq"
        BY <1>5, <3>2, <3>4, TestHolds
      <4>2. ValueOf("y", v) = 2 /\ ValueOf("m", v) = 1 /\ ValueOf("n", v) = 0
        BY DEF ValueOf, yes, mod, no
      <4> QED BY <2>1, <3>1, <3>4, <4>1, <4>2 DEF no
    <3> QED BY <3>1, <3>3, <3>4
  <2> QED BY <2>2, <2>3
<1>6. Requires(e, DependsBody(0, f, e))
  BY <1>1, <1>5, Zenon DEF Requires
<1> QED BY <1>4, <1>6

(* A condition that depends on a symbol, as expr_depends_symbol tells, is  *)
(* n wherever the symbol is.                                               *)
LEMMA DependsSymbol == \A e \in Conds : Requires(e, expr_depends_symbol[e])
<1>1. DependsRec!Ranked(0)
  BY CondRanks DEF DependsRec!Ranked, CondDom
<1>2. DependsRec!Local(0)
  <2> SUFFICES ASSUME NEW e \in Conds, NEW f, NEW g,
                      \A y \in DependsRec!Below(0, condRank(0, e)) :
                          f[y] = g[y] /\ DependsGood(0, y, f[y])
               PROVE  DependsBody(0, f, e) = DependsBody(0, g, e)
                      /\ DependsGood(0, e, DependsBody(0, f, e))
    BY DEF DependsRec!Local, CondDom
  <2>1. CASE e \in Exprs
    <3>1. \A y \in Exprs : rk(y) < rk(e) => f[y] = g[y] /\ Requires(y, f[y])
      <4> SUFFICES ASSUME NEW y \in Exprs, rk(y) < rk(e)
                   PROVE  f[y] = g[y] /\ Requires(y, f[y])
        OBVIOUS
      <4>1. y \in Conds /\ condRank(0, y) = rk(y) /\ condRank(0, e) = rk(e)
        BY <2>1, CondRanks DEF Conds
      <4> QED BY <4>1 DEF DependsRec!Below, CondDom, DependsGood
    <3> QED BY <3>1, DependsMade DEF DependsGood
  <2>2. CASE e = Null
    <3>1. e.op = "null"
      BY <2>2 DEF Null
    <3>2. ASSUME NEW s \in Symbols, NEW h PROVE DependsOn(h, e, s) = FALSE
      BY <3>1 DEF DependsOn
    <3>3. /\ DependsBody(0, f, e) = [s \in Symbols |-> DependsOn(f, e, s)]
          /\ DependsBody(0, g, e) = [s \in Symbols |-> DependsOn(g, e, s)]
      BY Zenon DEF DependsBody, DependsOn
    <3>4. \A s \in Symbols : ~DependsOn(f, e, s) /\ DependsOn(f, e, s) = DependsOn(g, e, s)
      BY <3>2, Zenon
    <3>5. DependsBody(0, f, e) = DependsBody(0, g, e)
      BY <3>3, <3>4, Zenon
    <3>6. \A s \in Symbols : ~DependsBody(0, f, e)[s]
      BY <3>3, <3>4, Zenon
    <3> QED BY <3>5, <3>6, Zenon DEF DependsGood, Requires
  <2> QED BY <2>1, <2>2 DEF Conds
<1>3. /\ \E f : f = [e \in Conds |-> DependsBody(0, f, e)]
      /\ \A f : f = [e \in Conds |-> DependsBody(0, f, e)]
                => \A e \in Conds : DependsGood(0, e, f[e])
  BY <1>1, <1>2, DependsRec!Defined DEF CondDom
<1>4. expr_depends_symbol = [e \in Conds |-> DependsBody(0, expr_depends_symbol, e)]
  <2> DEFINE h == CHOOSE f : f = [e \in Conds |-> DependsBody(0, f, e)]
  <2>1. h = [e \in Conds |-> DependsBody(0, h, e)]
    BY <1>3, Zenon
  <2>2. expr_depends_symbol = h
    BY DEF expr_depends_symbol, DependsBody
  <2> HIDE DEF h
  <2> QED BY <2>1, <2>2, Zenon
<1> QED BY <1>3, <1>4, Zenon DEF DependsGood

-----------------------------------------------------------------------------
(* What the actions make of an expression.  Conditions that are absent or  *)
(* of the level n, parsed and in work:                                     *)
Parsed(n) == Level("any", n) \cup {Null}
Worked(n) == Level("normal", n) \cup {Null}

(* The conditions of the levels up to MaxDepth.                            *)
LEMMA LevelConds ==
    ASSUME NEW n \in Nat, n <= MaxDepth
    PROVE  Parsed(n) \subseteq Conds /\ Worked(n) \subseteq Conds /\ Worked(n) \subseteq Parsed(n)
BY LevelExprs, NormalOnes DEF Parsed, Worked, Conds

(* Conditions that reach the same values have the same value.              *)
LEMMA EqualValues ==
    ASSUME NEW a \in Conds, NEW b \in Conds, NEW v \in Values,
           \A t \in 1..2 : T(a, v, t) <=> T(b, v, t)
    PROVE  expr_calc_value[a][v] = expr_calc_value[b][v]
BY SameValue

(* A transformed condition is in normal form and has the same value.       *)
LEMMA TransformedCond ==
    ASSUME NEW n \in Nat, n <= MaxDepth, NEW e \in Parsed(n)
    PROVE  /\ expr_transform[e] \in Worked(n)
           /\ \A v \in Assignments : expr_calc_value[expr_transform[e]][v] = expr_calc_value[e][v]
<1> DEFINE x == expr_transform[e]
<1>1. e \in Conds
  BY LevelConds
<1>2. TransformGood(0, e, x)
  BY <1>1, Transformed
<1> HIDE DEF x
<1>3. CASE e = Null
  BY <1>2, <1>3 DEF TransformGood, Worked, x
<1>4. CASE e # Null
  <2>1. e \in Level("any", n) /\ e \in Exprs
    BY <1>1, <1>4 DEF Parsed, Conds
  <2>2. x \in Level("normal", n) /\ EqualOn(Assignments, e, x) /\ x \in Exprs
    BY <1>2, <1>4, <2>1, NormalisedExpr DEF TransformGood, Normalised
  <2>3. ASSUME NEW v \in Assignments PROVE expr_calc_value[x][v] = expr_calc_value[e][v]
    <3>1. v \in Values /\ x \in Conds
      BY <2>2, AssignmentValues DEF Conds
    <3>2. \A t \in 1..2 : T(x, v, t) <=> T(e, v, t)
      BY <2>2 DEF EqualOn
    <3> QED BY <1>1, <3>1, <3>2, EqualValues
  <2> QED BY <2>2, <2>3 DEF Worked, x
<1> QED BY <1>3, <1>4

(* The conjunction of two values.                                          *)
LEMMA AndMin ==
    ASSUME NEW a \in 0..2, NEW b \in 0..2
    PROVE  /\ And(a, b) \in 0..2
           /\ \A t \in 1..2 : And(a, b) >= t <=> (a >= t /\ b >= t)
<1>1. {a, b} \in SUBSET (0..2) /\ {a, b} # {}
  OBVIOUS
<1>2. And(a, b) \in {a, b} /\ And(a, b) <= a /\ And(a, b) <= b
  BY <1>1, MinMax DEF And
<1> QED BY <1>2

(* Two conditions joined have the conjunction of their values.             *)
LEMMA JoinedConds ==
    ASSUME NEW n \in Nat, n + 1 <= MaxDepth, NEW a \in Worked(n), NEW b \in Worked(n)
    PROVE  /\ expr_alloc_and(a, b) \in Worked(n + 1)
           /\ \A v \in Values : expr_calc_value[expr_alloc_and(a, b)][v]
                                   = And(expr_calc_value[a][v], expr_calc_value[b][v])
<1> DEFINE z == expr_alloc_and(a, b)
<1>0. MaxDepth \in Nat /\ n <= MaxDepth /\ n + 1 \in Nat
  BY ExprsLevel
<1>1. a \in Conds /\ b \in Conds /\ Worked(n) \subseteq Worked(n + 1) /\ Worked(n + 1) \subseteq Conds
  BY <1>0, LevelConds, LevelsRise DEF Worked
<1>2. ASSUME NEW v \in Values, \A t \in 1..2 : T(z, v, t) <=> T(a, v, t) /\ T(b, v, t), z \in Conds
      PROVE  expr_calc_value[z][v] = And(expr_calc_value[a][v], expr_calc_value[b][v])
  <2>1. expr_calc_value[a][v] \in 0..2 /\ expr_calc_value[b][v] \in 0..2 /\ expr_calc_value[z][v] \in 0..2
    BY <1>1, <1>2, ValueRange
  <2> DEFINE x == expr_calc_value[a][v]
             y == expr_calc_value[b][v]
             w == expr_calc_value[z][v]
  <2>2. \A t \in 1..2 : w >= t <=> (x >= t /\ y >= t)
    BY <1>2 DEF T
  <2> HIDE DEF x, y, w
  <2>3. x \in 0..2 /\ y \in 0..2 /\ w \in 0..2
    BY <2>1 DEF x, y, w
  <2>4. And(x, y) \in 0..2 /\ \A t \in 1..2 : And(x, y) >= t <=> (x >= t /\ y >= t)
    BY <2>3, AndMin
  <2>5. w = And(x, y)
    BY <2>2, <2>3, <2>4
  <2> QED BY <2>5 DEF x, y, w
<1>3. CASE a = Null \/ b = Null
  <2>1. z = IF a = Null THEN b ELSE a
    BY <1>3 DEF expr_alloc_and
  <2>2. z \in Worked(n + 1) /\ z \in Conds
    BY <1>1, <2>1
  <2>3. ASSUME NEW v \in Values, NEW t \in 1..2 PROVE T(z, v, t) <=> T(a, v, t) /\ T(b, v, t)
    BY <1>3, <2>1, NullHolds
  <2> HIDE DEF z
  <2>4. \A v \in Values : expr_calc_value[z][v] = And(expr_calc_value[a][v], expr_calc_value[b][v])
    BY <1>2, <2>2, <2>3
  <2> QED BY <2>2, <2>4 DEF z
<1>4. CASE a # Null /\ b # Null
  <2> DEFINE es == << a, b >>
             S == Level("normal", n)
  <2>1. a \in S /\ b \in S /\ S \subseteq Exprs
    BY <1>0, <1>4, LevelExprs DEF Worked
  <2>2. z = Nary("and", es)
    BY <1>4 DEF expr_alloc_and
  <2>3. es \in Seq(S) /\ es \in Seq(Exprs) /\ Len(es) = 2 /\ es[1] = a /\ es[2] = b /\ DOMAIN es = 1..2
    <3> HIDE DEF S
    <3> QED BY <2>1
  <2>4. "and" \in AndOr
    BY DEF AndOr
  <2> HIDE DEF es, z
  <2>5. z \in Level("normal", n + 1)
    BY <2>2, <2>3, <2>4, NaryLevel
  <2>6. z \in Exprs /\ z \in Conds /\ z \in Worked(n + 1)
    BY <1>0, <2>5, LevelExprs DEF Conds, Worked
  <2>7. ASSUME NEW v \in Values, NEW t \in 1..2 PROVE T(z, v, t) <=> T(a, v, t) /\ T(b, v, t)
    <3>1. T(z, v, t) <=> Holds("and", es, v, t)
      <4>1. es \in Seq(Exprs) /\ Len(es) > 0 /\ Nary("and", es) \in Exprs
        BY <2>2, <2>3, <2>6
      <4>2. T(Nary("and", es), v, t) <=> Holds("and", es, v, t)
        BY <2>4, <4>1, NaryHolds
      <4> QED BY <2>2, <4>2
    <3>2. Holds("and", es, v, t) <=> \A i \in 1..2 : T(es[i], v, t)
      BY <2>3 DEF Holds
    <3>3. (\A i \in 1..2 : T(es[i], v, t)) <=> T(es[1], v, t) /\ T(es[2], v, t)
      <4>1. \A i \in 1..2 : i = 1 \/ i = 2
        OBVIOUS
      <4>2. 1 \in 1..2 /\ 2 \in 1..2
        OBVIOUS
      <4> QED BY <4>1, <4>2, Zenon
    <3> QED BY <2>3, <3>1, <3>2, <3>3
  <2>8. \A v \in Values : expr_calc_value[z][v] = And(expr_calc_value[a][v], expr_calc_value[b][v])
    BY <1>2, <2>6, <2>7
  <2> QED BY <2>6, <2>8 DEF z
<1> QED BY <1>3, <1>4

(* Once round the loop of expr_eliminate_dups.                             *)
Rounded(e) == expr_eliminate_yn[[e EXCEPT !.args = Passes(e)[2].es]]

(* One round of the loop of expr_eliminate_dups keeps the level of a tree  *)
(* and its value; if opposites were dropped, for values without m.         *)
LEMMA RoundKeeps ==
    ASSUME NEW e \in Branches
    PROVE  /\ Rounded(e) \in Exprs /\ KeepsLevel(e, Rounded(e))
           /\ Passes(e)[2].trans \in BOOLEAN
           /\ \A v \in (IF Passes(e)[2].trans THEN TwoValued ELSE Assignments) :
                 expr_calc_value[Rounded(e)][v] = expr_calc_value[e][v]
<1> DEFINE first == expr_eliminate_dups1[e]
           y == [e EXCEPT !.args = first.es]
           second == expr_eliminate_dups2[y]
           z == [e EXCEPT !.args = second.es]
           V == IF second.trans THEN TwoValued ELSE Assignments
<1>1. Passes(e) = << first, second >> /\ Passes(e)[2] = second /\ Rounded(e) = expr_eliminate_yn[z]
  BY DEF Passes, Rounded
<1>2. PassState(Assignments, e, first)
  BY Dups1Keeps
<1>3. /\ y = [op |-> e.op, args |-> first.es]
      /\ KeepsLevel(e, y) /\ y \in Branches
      /\ \A v \in Assignments : \A t \in 1..2 : T(y, v, t) <=> T(e, v, t)
  <2> HIDE DEF first
  <2> QED BY <1>2, AssignmentValues, PassTree
<1>4. y.op = e.op /\ y.args = first.es
  <2> HIDE DEF first
  <2> QED BY <1>3
<1>5. z = [op |-> e.op, args |-> second.es] /\ [y EXCEPT !.args = second.es] = [op |-> e.op, args |-> second.es]
  <2>1. e = [op |-> e.op, args |-> e.args]
    BY ExprParts DEF Branches
  <2> DEFINE es == second.es
  <2> HIDE DEF first, second, y, es
  <2>2. [e EXCEPT !.args = es] = [op |-> e.op, args |-> es]
    BY <2>1
  <2>3. [y EXCEPT !.args = es] = [op |-> e.op, args |-> es]
    BY <1>3
  <2> QED BY <2>2, <2>3 DEF es
<1> HIDE DEF y
<1>6. Dups2State(y, second)
  BY <1>3, Dups2Keeps
<1> HIDE DEF second
<1>7. /\ KeepsLevel(y, z) /\ z \in Branches
      /\ \A v \in TwoValued : \A t \in 1..2 : T(z, v, t) <=> T(y, v, t)
  <2> HIDE DEF z
  <2>1. PassState(TwoValued, y, second) /\ TwoValued \in SUBSET Values
    BY <1>6, TwoValues DEF Dups2State
  <2>2. /\ KeepsLevel(y, [y EXCEPT !.args = second.es]) /\ [y EXCEPT !.args = second.es] \in Branches
        /\ \A v \in TwoValued : \A t \in 1..2 : T([y EXCEPT !.args = second.es], v, t) <=> T(y, v, t)
    BY <1>3, <2>1, PassTree
  <2>3. z = [y EXCEPT !.args = second.es]
    BY <1>5
  <2> QED BY <2>2, <2>3
<1>8. second.trans \in BOOLEAN /\ (~second.trans => z = y)
  BY <1>3, <1>4, <1>5, <1>6 DEF Dups2State, PassState
<1> HIDE DEF z, first
<1>9. KeptGood(0, z, expr_eliminate_yn[z])
  BY <1>7, YnKeeps DEF Branches
<1> DEFINE x == expr_eliminate_yn[z]
<1> HIDE DEF x
<1>10. KeepsLevel(z, x) /\ Equal(z, x)
  BY <1>9 DEF KeptGood, x
<1>11. KeepsLevel(e, x)
  BY <1>3, <1>7, <1>10 DEF KeepsLevel
<1>12. x \in Exprs
  BY <1>11, KeptExpr DEF Branches
<1>13. ASSUME NEW v \in V PROVE expr_calc_value[x][v] = expr_calc_value[e][v]
  <2>1. v \in Assignments /\ (second.trans => v \in TwoValued)
    BY TwoValues
  <2>2. v \in Values
    BY <2>1, AssignmentValues
  <2>3. \A t \in 1..2 : T(z, v, t) <=> T(y, v, t)
    BY <1>7, <1>8, <2>1
  <2>4. \A t \in 1..2 : T(x, v, t) <=> T(e, v, t)
    BY <1>3, <1>10, <2>1, <2>2, <2>3, Zenon DEF Equal
  <2> QED BY <1>12, <2>2, <2>4, EqualValues DEF Branches, Conds
<1> HIDE DEF V
<1>14. Rounded(e) = x
  BY <1>1 DEF x
<1> QED BY <1>1, <1>8, <1>11, <1>12, <1>13, <1>14 DEF V

(* Values of which only matters whether they are n.                        *)
LEMMA SameSigns ==
    ASSUME NEW a \in 0..2, NEW b \in 0..2
    PROVE  /\ (a >= 1 <=> b >= 1) => NotNo(a) = NotNo(b)
           /\ (\A t \in 1..2 : a >= t <=> b >= 1) => a = NotNo(b)
           /\ a >= 1 <=> a # no
           /\ NotNo(a) # no <=> a # no
<1>1. (\A t \in 1..2 : a >= t <=> b >= 1) => ((a >= 1 <=> b >= 1) /\ (a >= 2 <=> b >= 1))
  OBVIOUS
<1> QED BY <1>1 DEF NotNo, no, yes

(* A condition made bool is n where the condition is.                      *)
LEMMA SignKept ==
    ASSUME NEW n \in Nat, n <= MaxDepth, NEW e \in Worked(n)
    PROVE  /\ expr_trans_bool[e] \in Worked(n)
           /\ \A v \in Values : NotNo(expr_calc_value[expr_trans_bool[e]][v]) = NotNo(expr_calc_value[e][v])
<1> DEFINE x == expr_trans_bool[e]
<1>1. e \in Conds /\ Worked(n) \subseteq Conds
  BY LevelConds
<1>2. BoolGood(0, e, x)
  BY <1>1, TransBool
<1> HIDE DEF x
<1>3. CASE e = Null
  BY <1>2, <1>3 DEF BoolGood, x
<1>4. CASE e # Null
  <2>1. e \in Level("normal", n) /\ e \in Level("normal", MaxDepth)
    BY <1>4, ExprsLevel, LevelsNest DEF Worked
  <2>2. x \in Level("normal", n) /\ SameSign(e, x)
    BY <1>2, <1>4, <2>1 DEF BoolGood, BoolKept, KeepsLevel
  <2>3. x \in Worked(n) /\ x \in Conds
    BY <1>1, <2>2 DEF Worked
  <2>4. ASSUME NEW v \in Values PROVE NotNo(expr_calc_value[x][v]) = NotNo(expr_calc_value[e][v])
    <3>1. expr_calc_value[x][v] \in 0..2 /\ expr_calc_value[e][v] \in 0..2
      BY <1>1, <2>3, ValueRange
    <3>2. expr_calc_value[x][v] >= 1 <=> expr_calc_value[e][v] >= 1
      BY <2>2 DEF SameSign, T
    <3> QED BY <3>1, <3>2, SameSigns
  <2> QED BY <2>3, <2>4 DEF x
<1> QED BY <1>3, <1>4

(* The comparison of a condition with n is y where the condition is not n. *)
LEMMA ComparedCond ==
    ASSUME NEW n \in Nat, n + 2 <= MaxDepth, NEW e \in Worked(n)
    PROVE  /\ Compared(e) \in Parsed(MaxDepth)
           /\ \A v \in TwoValued : expr_calc_value[Compared(e)][v] = NotNo(expr_calc_value[e][v])
<1> DEFINE x == Compared(e)
<1>1. MaxDepth \in Nat /\ n <= MaxDepth /\ n + 2 \in Nat
  BY ExprsLevel
<1>2. e \in Conds /\ Parsed(MaxDepth) \subseteq Conds
  BY <1>1, LevelConds
<1>3. x = IsNotNo(expr_trans_compare[e])
  BY DEF Compared, IsNotNo
<1>4. CompareGood(0, e, expr_trans_compare[e])
  BY <1>2, TransCompare
<1> HIDE DEF x
<1>5. ASSUME x \in Level("any", MaxDepth), \A v \in TwoValued : \A t \in 1..2 : T(x, v, t) <=> T(e, v, 1)
      PROVE  \A v \in TwoValued : expr_calc_value[x][v] = NotNo(expr_calc_value[e][v])
  <2> SUFFICES ASSUME NEW v \in TwoValued PROVE expr_calc_value[x][v] = NotNo(expr_calc_value[e][v])
    OBVIOUS
  <2>1. v \in Values /\ x \in Conds
    BY <1>2, <1>5, TwoValues DEF Parsed
  <2>2. expr_calc_value[x][v] \in 0..2 /\ expr_calc_value[e][v] \in 0..2
    BY <1>2, <2>1, ValueRange
  <2>3. \A t \in 1..2 : expr_calc_value[x][v] >= t <=> expr_calc_value[e][v] >= 1
    BY <1>5 DEF T
  <2> QED BY <2>2, <2>3, SameSigns
<1>6. CASE e = Null
  <2>1. x = Not(N)
    BY <1>3, <1>4, <1>6 DEF CompareGood
  <2>2. N \in Level("any", 0) /\ 0 \in Nat /\ 0 + 1 <= MaxDepth /\ 0 + 1 \in Nat
    BY <1>1, AtomsAreExprs, AtomsEverywhere
  <2>3. Not(N) \in Level("any", 0 + 1)
    BY <2>2, Builds
  <2>4. Not(N) \in Level("any", MaxDepth)
    BY <1>1, <2>2, <2>3, LevelsNest
  <2>5. ASSUME NEW v \in TwoValued, NEW t \in 1..2 PROVE T(Not(N), v, t) /\ T(e, v, 1)
    <3>1. v \in Values /\ 3 - t \in 1..2
      BY TwoValues
    <3>2. Not(N) \in Exprs /\ Not(N).op = "not" /\ Not(N).arg = N
      BY <2>4, ExprsLevel DEF Not
    <3>3. T(Not(N), v, t) <=> ~T(N, v, 3 - t)
      BY <3>1, <3>2, NotHolds
    <3> QED BY <1>6, <3>1, <3>3, ConstantsHold, NullHolds
  <2> QED BY <1>5, <2>1, <2>4, <2>5 DEF x, Parsed
<1>7. CASE e # Null
  <2>1. e \in Level("any", n)
    BY <1>7, NormalOnes DEF Worked
  <2>2. ComparedAt(e, expr_trans_compare[e], n)
    BY <1>4, <1>7, <2>1, Zenon DEF CompareGood
  <2>3. x \in Level("any", n + 2) /\ Tells(e, x)
    BY <1>3, <2>2 DEF ComparedAt
  <2>4. x \in Level("any", MaxDepth)
    BY <1>1, <2>3, LevelsNest
  <2> QED BY <1>5, <2>3, <2>4 DEF Tells, x, Parsed
<1> QED BY <1>6, <1>7

(* What covers a condition holds wherever the condition does.              *)
LEMMA CoverSound ==
    ASSUME NEW a \in Conds, NEW b \in Conds, Cover(a, b), NEW v \in Values, T(a, v, 1)
    PROVE  T(b, v, 1)
<1>1. T(Null, v, 1) /\ T(Y, v, 1)
  BY NullHolds, ConstantsHold
<1>2. CASE Null \in {a, b}
  <2>1. expr_eliminate_eq(a, b)[2] = b
    BY <1>2 DEF expr_eliminate_eq
  <2>2. b = Null \/ b = Y
    BY <2>1 DEF Cover, expr_is_yes
  <2> QED BY <1>1, <2>2
<1>3. CASE Null \notin {a, b}
  <2> DEFINE es == << a, b >>
  <2>1. es \in Exprs \X Exprs /\ es[1] = a /\ es[2] = b
    BY <1>3 DEF Conds
  <2>2. expr_eliminate_eq(a, b) = Eliminated(expr_eq, es)
    BY <1>3, Zenon DEF expr_eliminate_eq
  <2> HIDE DEF es
  <2>3. expr_is_yes(Eliminated(expr_eq, es)[2])
    BY <2>2 DEF Cover
  <2>4. T(es[1], v, 1)
    BY <2>1
  <2> QED BY <2>1, <2>3, <2>4, EliminatedSound
<1> QED BY <1>2, <1>3

-----------------------------------------------------------------------------
(* The inductive invariant                                                 *)

(* How deep the condition number k is, once transformed.                   *)
(* How deep the condition k is nested, and for which values of the symbols *)
(* it keeps its meaning.                                                   *)
Bound(k) ==
    IF k > 2 THEN MaxDepth
    ELSE IF k = 2 /\ shape = "nested" THEN MaxDepth - 1
    ELSE MaxDepth - 2
Considered(k) == IF opposed \/ k > 2 THEN TwoValued ELSE Assignments

(* The condition k as it is begun, in work between expr_transform and the  *)
(* end of the loop of expr_eliminate_dups, and finished.                   *)
Begun(k, e) ==
    e = IF k = 1 THEN raw[1] ELSE IF k = 2 THEN raw[2] ELSE Compared(done[k - 2])
InWork(k, e) ==
    /\ e \in Worked(Bound(k))
    /\ \A v \in Considered(k) : expr_calc_value[e][v] = Meaning(k, v)
Made(k, e) ==
    /\ e \in Worked(Bound(k))
    /\ \A v \in Considered(k) : Same(k, expr_calc_value[e][v], Meaning(k, v))

(* The inductive invariant.  MeaningKept speaks of what is finished; that  *)
(* a step of the loop keeps a meaning can only be shown of the condition   *)
(* in work, that the result is finished in turn only if it nests no deeper *)
(* than the operators are defined, and that expr_trans_bool may be applied *)
(* only if no negation but of a symbol is left in it.                      *)
IInv ==
    /\ TypeOK
    /\ pc \in {"transform", "dups"} => Len(done) < 4 /\ (Len(done) > 1 => shape = "siblings")
    /\ Len(done) > 2 => shape = "siblings"
    /\ pc = "transform" => Begun(Len(done) + 1, cond)
    /\ pc = "dups" => InWork(Len(done) + 1, cond)
    /\ \A k \in DOMAIN done : Made(k, done[k])
    /\ submenu => pc = "end"
    /\ SubmenuDepends

(* Conditions are parsed two levels below the bound.                       *)
LEMMA RawLevels ==
    ASSUME raw \in First \X Second
    PROVE  raw[1] \in Parsed(MaxDepth - 2) /\ raw[2] \in Parsed(MaxDepth - 2)
<1>1. MaxDepth - 2 \in Nat
  BY ExprsLevel, ParsedAssumption
<1>2. Depth[MaxDepth - 2] = Level("any", MaxDepth - 2)
  BY <1>1, DepthIsLevel
<1> QED BY <1>2, ParsedAssumption DEF Parsed

(* The bounds of the levels.                                               *)
LEMMA Bounds ==
    /\ MaxDepth \in Nat /\ MaxDepth - 2 \in Nat /\ MaxDepth - 1 \in Nat
    /\ \A k \in Nat : Bound(k) \in Nat /\ Bound(k) <= MaxDepth
    /\ \A n \in Nat : \A m \in Nat : n <= m => Parsed(n) \subseteq Parsed(m) /\ Worked(n) \subseteq Worked(m)
    /\ Parsed(MaxDepth) = Conds
<1>1. MaxDepth \in Nat /\ MaxDepth - 2 \in Nat /\ MaxDepth - 1 \in Nat
  BY ExprsLevel, ParsedAssumption
<1>2. \A k \in Nat : Bound(k) \in Nat /\ Bound(k) <= MaxDepth
  BY <1>1 DEF Bound
<1>3. \A n \in Nat : \A m \in Nat : n <= m => Parsed(n) \subseteq Parsed(m) /\ Worked(n) \subseteq Worked(m)
  BY LevelsNest DEF Parsed, Worked
<1>4. Parsed(MaxDepth) = Conds
  BY ExprsLevel DEF Parsed, Conds
<1> QED BY <1>1, <1>2, <1>3, <1>4

(* The values for which a condition keeps its meaning.                     *)
LEMMA ConsideredValues ==
    \A k : /\ TwoValued \subseteq Considered(k)
           /\ Considered(k) \subseteq Assignments /\ Considered(k) \subseteq Values
           /\ k > 2 => Considered(k) = TwoValued
BY TwoValues, AssignmentValues DEF Considered

(* What the conditions stand for, case by case.                            *)
LEMMA Meanings ==
    ASSUME NEW v
    PROVE  /\ Meaning(1, v) = expr_calc_value[raw[1]][v]
           /\ shape = "nested" =>
                 Meaning(2, v) = And(expr_calc_value[raw[1]][v], expr_calc_value[raw[2]][v])
           /\ shape # "nested" => Meaning(2, v) = expr_calc_value[raw[2]][v]
           /\ \A k \in Nat : k > 2 => Meaning(k, v) = NotNo(expr_calc_value[done[k - 2]][v])
<1>1. ASSUME NEW k \in Nat, k > 2 PROVE Meaning(k, v) = NotNo(expr_calc_value[done[k - 2]][v])
  <2>1. k # 1 /\ k # 2
    BY <1>1
  <2> QED BY <2>1, Zenon DEF Meaning
<1>2. 1 # 2
  OBVIOUS
<1>3. Meaning(1, v) = expr_calc_value[raw[1]][v]
  BY <1>2, Zenon DEF Meaning
<1>4. Meaning(2, v) = IF shape = "nested"
                      THEN And(expr_calc_value[raw[1]][v], expr_calc_value[raw[2]][v])
                      ELSE expr_calc_value[raw[2]][v]
  BY <1>2, Zenon DEF Meaning
<1> QED BY <1>1, <1>3, <1>4

(* The invariant holds initially.                                          *)
LEMMA InitHolds == Init => IInv
<1> SUFFICES ASSUME Init PROVE IInv
  OBVIOUS
<1>1. done = << >> /\ Len(done) = 0 /\ DOMAIN done = {}
  BY DEF Init
<1>2. raw \in First \X Second /\ cond = raw[1] /\ pc = "transform" /\ ~submenu /\ opposed = FALSE /\ submenu = FALSE
      /\ shape \in Shape /\ type \in {"bool", "tristate"}
  BY DEF Init
<1>3. raw[1] \in Conds
  <2>1. raw[1] \in Parsed(MaxDepth - 2)
    BY <1>2, RawLevels
  <2> QED BY <2>1, Bounds, LevelConds
<1>4. TypeOK
  <2>1. done \in Seq(Conds) /\ Len(done) <= 4
    BY <1>1
  <2>2. opposed \in BOOLEAN /\ submenu \in BOOLEAN
    BY <1>2, Zenon
  <2>3. cond \in Conds /\ pc \in {"transform", "dups", "next", "end"}
    BY <1>2, <1>3
  <2> QED BY <1>2, <2>1, <2>2, <2>3, Zenon DEF TypeOK
<1>5. SubmenuDepends
  BY <1>2 DEF SubmenuDepends
<1>6. Begun(Len(done) + 1, cond)
  BY <1>1, <1>2 DEF Begun
<1> QED BY <1>1, <1>2, <1>4, <1>5, <1>6 DEF IInv

(* What follows from the invariant about the condition in work.            *)
LEMMA BegunCond ==
    ASSUME IInv, pc = "transform", NEW k, k = Len(done) + 1
    PROVE  /\ k \in 1..4
           /\ k <= 2 => cond \in Parsed(MaxDepth - 2) /\ cond = raw[k]
           /\ k > 2 => /\ cond \in Parsed(MaxDepth) /\ cond = Compared(done[k - 2])
                       /\ shape = "siblings"
                       /\ \A v \in TwoValued : expr_calc_value[cond][v] = Meaning(k, v)
<1>1. done \in Seq(Conds) /\ Len(done) \in Nat /\ Len(done) < 4 /\ DOMAIN done = 1..Len(done)
  BY DEF IInv, TypeOK
<1>2. k \in 1..4
  BY <1>1
<1>3. raw \in First \X Second /\ Begun(k, cond)
  BY DEF IInv, TypeOK
<1>4. ASSUME k <= 2 PROVE cond \in Parsed(MaxDepth - 2) /\ cond = raw[k]
  <2>1. k = 1 \/ k = 2
    BY <1>2, <1>4
  <2> QED BY <1>3, <2>1, RawLevels DEF Begun
<1>5. ASSUME k > 2
      PROVE  /\ cond \in Parsed(MaxDepth) /\ cond = Compared(done[k - 2])
             /\ shape = "siblings"
             /\ \A v \in TwoValued : expr_calc_value[cond][v] = Meaning(k, v)
  <2>1. cond = Compared(done[k - 2])
    BY <1>2, <1>3, <1>5 DEF Begun
  <2>2. shape = "siblings"
    BY <1>1, <1>5 DEF IInv
  <2>3. k - 2 \in DOMAIN done /\ k - 2 \in Nat /\ k - 2 <= 2
    BY <1>1, <1>2, <1>5
  <2>4. Bound(k - 2) = MaxDepth - 2
    BY <2>2, <2>3 DEF Bound
  <2>5. done[k - 2] \in Worked(MaxDepth - 2)
    BY <2>3, <2>4 DEF IInv, Made
  <2>6. (MaxDepth - 2) + 2 <= MaxDepth
    BY Bounds
  <2>7. /\ cond \in Parsed(MaxDepth)
        /\ \A v \in TwoValued : expr_calc_value[cond][v] = NotNo(expr_calc_value[done[k - 2]][v])
    BY <2>1, <2>5, <2>6, Bounds, ComparedCond
  <2>8. \A v \in TwoValued : Meaning(k, v) = NotNo(expr_calc_value[done[k - 2]][v])
    <3>1. k \in Nat
      BY <1>2
    <3> QED BY <1>5, <3>1, Meanings, Zenon
  <2> QED BY <2>1, <2>2, <2>7, <2>8
<1> QED BY <1>2, <1>4, <1>5

(* The transformed condition stands for what the condition does.           *)
LEMMA TransformWorks ==
    ASSUME IInv, pc = "transform"
    PROVE  InWork(Len(done) + 1, expr_alloc_and(Outer, expr_transform[cond]))
<1> DEFINE k == Len(done) + 1
           x == expr_transform[cond]
           z == expr_alloc_and(Outer, x)
<1>1. /\ k \in 1..4
      /\ k <= 2 => cond \in Parsed(MaxDepth - 2) /\ cond = raw[k]
      /\ k > 2 => /\ cond \in Parsed(MaxDepth) /\ cond = Compared(done[k - 2])
                  /\ shape = "siblings"
                  /\ \A v \in TwoValued : expr_calc_value[cond][v] = Meaning(k, v)
  BY BegunCond
<1>2. done \in Seq(Conds) /\ Len(done) \in Nat /\ k = Len(done) + 1 /\ DOMAIN done = 1..Len(done)
      /\ shape \in Shape
  BY DEF IInv, TypeOK
<1>3. MaxDepth \in Nat /\ MaxDepth - 2 \in Nat /\ MaxDepth - 1 \in Nat /\ (MaxDepth - 2) + 1 = MaxDepth - 1
  BY Bounds
<1> HIDE DEF k
<1>4. ASSUME NEW n \in Nat, n <= MaxDepth, cond \in Parsed(n)
      PROVE  /\ x \in Worked(n)
             /\ \A v \in Considered(k) : expr_calc_value[x][v] = expr_calc_value[cond][v]
  BY <1>4, TransformedCond, ConsideredValues
<1>5. CASE k = 2 /\ shape = "nested"
  <2>1. Outer = done[1] /\ Len(done) = 1 /\ 1 \in DOMAIN done
    BY <1>2, <1>5 DEF Outer
  <2>2. Bound(1) = MaxDepth - 2 /\ Bound(k) = MaxDepth - 1
    BY <1>5 DEF Bound
  <2>3. Made(1, done[1])
    BY <2>1 DEF IInv
  <2>4. done[1] \in Worked(MaxDepth - 2)
    BY <2>2, <2>3 DEF Made
  <2>5. \A v \in Considered(k) : expr_calc_value[done[1]][v] = expr_calc_value[raw[1]][v]
    <3>1. Considered(k) = Considered(1)
      BY <1>5 DEF Considered
    <3>2. \A a, b : Same(1, a, b) <=> a = b
      BY <1>5 DEF Same
    <3>3. \A v \in Considered(1) : Same(1, expr_calc_value[done[1]][v], Meaning(1, v))
      BY <2>3 DEF Made
    <3>4. \A v \in Considered(1) : expr_calc_value[done[1]][v] = Meaning(1, v)
      BY <3>2, <3>3
    <3> QED BY <3>1, <3>4, Meanings
  <2>6. x \in Worked(MaxDepth - 2)
        /\ \A v \in Considered(k) : expr_calc_value[x][v] = expr_calc_value[raw[2]][v]
    BY <1>1, <1>3, <1>4, <1>5
  <2>7. /\ z \in Worked(MaxDepth - 1)
        /\ \A v \in Values : expr_calc_value[z][v] = And(expr_calc_value[done[1]][v], expr_calc_value[x][v])
    <3>1. (MaxDepth - 2) + 1 <= MaxDepth
      BY <1>3
    <3> HIDE DEF x
    <3> QED BY <1>3, <2>1, <2>4, <2>6, <3>1, JoinedConds
  <2>8. \A v \in Considered(k) : Meaning(k, v) = And(expr_calc_value[raw[1]][v], expr_calc_value[raw[2]][v])
    BY <1>5, Meanings
  <2>9. \A v \in Considered(k) : expr_calc_value[z][v] = Meaning(k, v)
    BY <2>5, <2>6, <2>7, <2>8, ConsideredValues
  <2> QED BY <2>2, <2>7, <2>9 DEF InWork, k
<1>6. CASE ~(k = 2 /\ shape = "nested")
  <2>1. Outer = Null
    BY <1>2, <1>6 DEF Outer
  <2>2. z = x
    BY <2>1 DEF expr_alloc_and
  <2>3. Bound(k) \in Nat /\ Bound(k) <= MaxDepth /\ cond \in Parsed(Bound(k))
    BY <1>1, <1>3, <1>6 DEF Bound
  <2>4. x \in Worked(Bound(k)) /\ \A v \in Considered(k) : expr_calc_value[x][v] = expr_calc_value[cond][v]
    BY <1>4, <2>3
  <2>5. \A v \in Considered(k) : expr_calc_value[cond][v] = Meaning(k, v)
    <3>1. CASE k = 1
      BY <1>1, <3>1, Meanings
    <3>2. CASE k = 2
      BY <1>1, <1>6, <3>2, Meanings
    <3>3. CASE k > 2
      BY <1>1, <3>3, ConsideredValues
    <3> QED BY <1>1, <3>1, <3>2, <3>3
  <2> QED BY <2>2, <2>4, <2>5 DEF InWork, k
<1> QED BY <1>5, <1>6

(* What a condition stands for stays, while the program goes on.           *)
LEMMA Steady ==
    ASSUME TypeOK, raw' = raw, shape' = shape, type' = type, opposed' \in BOOLEAN, opposed => opposed',
           NEW k \in 1..4, k > 2 => done'[k - 2] = done[k - 2]
    PROVE  /\ Bound(k)' = Bound(k)
           /\ Considered(k)' \subseteq Considered(k)
           /\ \A v : Meaning(k, v)' = Meaning(k, v)
           /\ \A a, b : Same(k, a, b)' <=> Same(k, a, b)
<1>1. Bound(k)' = Bound(k)
  BY DEF Bound
<1>2. Considered(k)' \subseteq Considered(k)
  BY TwoValues DEF Considered
<1>3. ASSUME NEW v PROVE Meaning(k, v)' = Meaning(k, v)
  <2>1. CASE k = 1
    BY <2>1 DEF Meaning
  <2>2. CASE k = 2
    BY <2>2 DEF Meaning
  <2>3. CASE k > 2
    BY <2>3 DEF Meaning
  <2> QED BY <2>1, <2>2, <2>3
<1>4. ASSUME NEW a, NEW b PROVE Same(k, a, b)' <=> Same(k, a, b)
  BY DEF Same
<1> QED BY <1>1, <1>2, <1>3, <1>4

(* Finished conditions stay as good as they are.                           *)
LEMMA AllMadeStay ==
    ASSUME IInv, raw' = raw, shape' = shape, type' = type, opposed' \in BOOLEAN, opposed => opposed', done' = done
    PROVE  (\A k \in DOMAIN done : Made(k, done[k]))'
<1>1. TypeOK /\ \A k \in DOMAIN done : k \in 1..4 /\ Made(k, done[k])
  BY DEF IInv, TypeOK
<1> SUFFICES ASSUME NEW k \in DOMAIN done' PROVE Made(k, done[k])'
  OBVIOUS
<1>2. k \in 1..4 /\ Made(k, done[k]) /\ done'[k] = done[k]
  BY <1>1
<1>3. /\ Bound(k)' = Bound(k)
      /\ Considered(k)' \subseteq Considered(k)
      /\ \A v : Meaning(k, v)' = Meaning(k, v)
  BY <1>1, <1>2, Steady
<1> QED BY <1>2, <1>3 DEF Made, Same

(* A condition in work that is replaced by one as good.                    *)
LEMMA InWorkNow ==
    ASSUME TypeOK, raw' = raw, shape' = shape, type' = type, opposed' \in BOOLEAN, opposed => opposed',
           done' = done, NEW k \in 1..4, k = Len(done) + 1,
           cond' \in Worked(Bound(k)),
           \A v \in Considered(k)' : expr_calc_value[cond'][v] = Meaning(k, v)
    PROVE  InWork(Len(done) + 1, cond)'
<1>1. /\ Bound(k)' = Bound(k)
      /\ \A v : Meaning(k, v)' = Meaning(k, v)
  BY Steady
<1>2. InWork(k, cond)'
  BY <1>1 DEF InWork
<1>3. k = (Len(done) + 1)'
  OBVIOUS
<1> QED BY <1>2, <1>3, Zenon

(* The invariant, part by part.                                            *)
LEMMA InvParts ==
    ASSUME IInv
    PROVE  /\ TypeOK
           /\ raw \in First \X Second /\ shape \in Shape /\ type \in {"bool", "tristate"}
           /\ cond \in Conds /\ done \in Seq(Conds) /\ Len(done) \in 0..4 /\ DOMAIN done = 1..Len(done)
           /\ opposed \in BOOLEAN /\ submenu \in BOOLEAN
           /\ pc \in {"transform", "dups"} => Len(done) < 4 /\ (Len(done) > 1 => shape = "siblings")
           /\ Len(done) > 2 => shape = "siblings"
           /\ pc = "transform" => Begun(Len(done) + 1, cond)
           /\ pc = "dups" => InWork(Len(done) + 1, cond)
           /\ \A k \in DOMAIN done : Made(k, done[k])
           /\ submenu => pc = "end"
           /\ SubmenuDepends
<1>1. TypeOK
  BY Zenon DEF IInv
<1>2. done \in Seq(Conds) /\ Len(done) <= 4
  BY <1>1, Zenon DEF TypeOK
<1>3. Len(done) \in 0..4 /\ DOMAIN done = 1..Len(done)
  <2>1. Len(done) \in Nat /\ DOMAIN done = 1..Len(done)
    BY <1>2
  <2> QED BY <1>2, <2>1
<1>4. /\ raw \in First \X Second /\ shape \in Shape /\ type \in {"bool", "tristate"}
      /\ cond \in Conds /\ opposed \in BOOLEAN /\ submenu \in BOOLEAN
  BY <1>1, Zenon DEF TypeOK
<1> QED BY <1>1, <1>2, <1>3, <1>4, Zenon DEF IInv

(* Transform preserves the invariant.                                      *)
LEMMA TransformStep == IInv /\ Transform => IInv'
<1> SUFFICES ASSUME IInv, Transform PROVE IInv'
  OBVIOUS
<1> DEFINE z == expr_alloc_and(Outer, expr_transform[cond])
<1>1. /\ pc = "transform" /\ pc' = "dups" /\ cond' = z
      /\ raw' = raw /\ shape' = shape /\ type' = type /\ done' = done
      /\ opposed' = opposed /\ submenu' = submenu
  BY DEF Transform
<1>2. InWork(Len(done) + 1, z)
  BY <1>1, TransformWorks
<1>3. /\ raw \in First \X Second /\ shape \in Shape /\ type \in {"bool", "tristate"}
      /\ done \in Seq(Conds) /\ Len(done) \in 0..4 /\ Len(done) < 4
      /\ opposed \in BOOLEAN /\ submenu \in BOOLEAN /\ ~submenu
      /\ (Len(done) > 1 => shape = "siblings")
  BY <1>1, InvParts
<1>4. PICK k \in 1..4 : k = Len(done) + 1
  BY <1>3
<1> HIDE DEF z
<1>5. z \in Worked(Bound(k)) /\ \A v \in Considered(k) : expr_calc_value[z][v] = Meaning(k, v)
  BY <1>2, <1>4 DEF InWork
<1>6. z \in Conds
  <2>1. Bound(k) \in Nat /\ Bound(k) <= MaxDepth
    BY <1>4, Bounds
  <2> QED BY <1>5, <2>1, LevelConds
<1>0. opposed' \in BOOLEAN /\ submenu' \in BOOLEAN /\ (opposed => opposed') /\ ~submenu'
  BY <1>1, <1>3, Zenon
<1>7. TypeOK'
  <2>1. cond' \in Conds /\ Len(done') <= 4 /\ done' \in Seq(Conds) /\ pc' \in {"transform", "dups", "next", "end"}
    BY <1>1, <1>3, <1>6
  <2> QED BY <1>0, <1>1, <1>3, <2>1, Zenon DEF TypeOK
<1>8. InWork(Len(done) + 1, cond)'
  <2>1. Considered(k)' \subseteq Considered(k)
    <3>1. TypeOK /\ raw' = raw /\ shape' = shape /\ type' = type /\ (k > 2 => done'[k - 2] = done[k - 2])
      BY <1>1, InvParts
    <3> QED BY <1>0, <1>4, <3>1, Steady
  <2>2. /\ cond' \in Worked(Bound(k))
        /\ \A v \in Considered(k)' : expr_calc_value[cond'][v] = Meaning(k, v)
    BY <1>1, <1>5, <2>1
  <2>3. TypeOK /\ raw' = raw /\ shape' = shape /\ type' = type /\ done' = done
    BY <1>1, InvParts
  <2> QED BY <1>0, <1>4, <2>2, <2>3, InWorkNow
<1>9. (\A j \in DOMAIN done : Made(j, done[j]))'
  <2>1. raw' = raw /\ shape' = shape /\ type' = type /\ done' = done
    BY <1>1
  <2> QED BY <1>0, <2>1, AllMadeStay
<1>10. SubmenuDepends'
  BY <1>0 DEF SubmenuDepends
<1>11. Len(done') < 4 /\ (Len(done') > 1 => shape' = "siblings") /\ (Len(done') > 2 => shape' = "siblings")
       /\ pc' # "transform"
  BY <1>1, <1>3
<1> QED BY <1>0, <1>7, <1>8, <1>9, <1>10, <1>11 DEF IInv

(* Another round of the loop preserves the invariant.                      *)
LEMMA AgainStep == IInv /\ Again => IInv'
<1> SUFFICES ASSUME IInv, Again PROVE IInv'
  OBVIOUS
<1> DEFINE b == Passes(cond)[2].trans
           x == Rounded(cond)
<1>1. /\ pc = "dups" /\ pc' = "dups" /\ cond.op \in AndOr /\ cond' = x
      /\ raw' = raw /\ shape' = shape /\ type' = type /\ done' = done
  BY DEF Again, Rounded
<1>2. opposed' = (opposed \/ b) /\ submenu' = submenu
  BY Zenon DEF Again
<1>3. /\ raw \in First \X Second /\ shape \in Shape /\ type \in {"bool", "tristate"}
      /\ done \in Seq(Conds) /\ Len(done) \in 0..4 /\ Len(done) < 4
      /\ opposed \in BOOLEAN /\ submenu \in BOOLEAN /\ ~submenu
      /\ (Len(done) > 1 => shape = "siblings")
      /\ InWork(Len(done) + 1, cond) /\ cond \in Conds
  BY <1>1, InvParts
<1>4. PICK k \in 1..4 : k = Len(done) + 1
  BY <1>3
<1>5. cond \in Branches
  BY <1>1, <1>3 DEF Branches, Conds, Null, AndOr
<1>6. /\ x \in Exprs /\ KeepsLevel(cond, x) /\ b \in BOOLEAN
      /\ \A v \in (IF b THEN TwoValued ELSE Assignments) :
            expr_calc_value[x][v] = expr_calc_value[cond][v]
  BY <1>5, RoundKeeps
<1> HIDE DEF x, b
<1>0. opposed' \in BOOLEAN /\ submenu' \in BOOLEAN /\ (opposed => opposed') /\ (b => opposed') /\ ~submenu'
  BY <1>2, <1>3, <1>6, Zenon
<1>7. TypeOK'
  <2>1. cond' \in Conds /\ Len(done') <= 4 /\ done' \in Seq(Conds) /\ pc' \in {"transform", "dups", "next", "end"}
    BY <1>1, <1>3, <1>6 DEF Conds
  <2> QED BY <1>0, <1>1, <1>3, <2>1, Zenon DEF TypeOK
<1>8. InWork(Len(done) + 1, cond)'
  <2>1. TypeOK /\ raw' = raw /\ shape' = shape /\ type' = type /\ done' = done /\ (k > 2 => done'[k - 2] = done[k - 2])
    BY <1>1, InvParts
  <2>2. Considered(k)' \subseteq Considered(k)
    BY <1>0, <1>4, <2>1, Steady
  <2>3. cond \in Worked(Bound(k)) /\ \A v \in Considered(k) : expr_calc_value[cond][v] = Meaning(k, v)
    BY <1>3, <1>4 DEF InWork
  <2>4. x \in Worked(Bound(k))
    <3>1. cond \in Level("normal", Bound(k)) /\ Bound(k) \in Nat
      BY <1>4, <1>5, <2>3, Bounds, ExprParts DEF Worked, Branches
    <3> QED BY <1>6, <3>1 DEF KeepsLevel, Worked
  <2>5. ASSUME NEW v \in Considered(k)' PROVE v \in (IF b THEN TwoValued ELSE Assignments)
    <3>1. CASE b
      <4>1. opposed'
        BY <1>0, <3>1
      <4>2. Considered(k)' = TwoValued
        BY <4>1 DEF Considered
      <4> QED BY <3>1, <4>2
    <3>2. CASE ~b
      BY <2>2, <3>2, ConsideredValues
    <3> QED BY <3>1, <3>2
  <2>6. /\ cond' \in Worked(Bound(k))
        /\ \A v \in Considered(k)' : expr_calc_value[cond'][v] = Meaning(k, v)
    BY <1>1, <1>6, <2>2, <2>3, <2>4, <2>5
  <2> QED BY <1>0, <1>4, <2>1, <2>6, InWorkNow
<1>9. (\A j \in DOMAIN done : Made(j, done[j]))'
  <2>1. raw' = raw /\ shape' = shape /\ type' = type /\ done' = done
    BY <1>1
  <2> QED BY <1>0, <2>1, AllMadeStay
<1>10. SubmenuDepends'
  BY <1>0 DEF SubmenuDepends
<1>11. Len(done') < 4 /\ (Len(done') > 1 => shape' = "siblings") /\ (Len(done') > 2 => shape' = "siblings")
       /\ pc' # "transform"
  BY <1>1, <1>3
<1> QED BY <1>0, <1>7, <1>8, <1>9, <1>10, <1>11 DEF IInv

(* What is finished keeps what the condition stands for.                   *)
LEMMA FinishedMade ==
    ASSUME IInv, pc = "dups", NEW k \in 1..4, k = Len(done) + 1
    PROVE  Made(k, Finished) /\ Finished \in Conds
<1>1. cond \in Worked(Bound(k)) /\ \A v \in Considered(k) : expr_calc_value[cond][v] = Meaning(k, v)
  BY InvParts DEF InWork
<1>2. Bound(k) \in Nat /\ Bound(k) <= MaxDepth
  BY Bounds
<1>3. Worked(Bound(k)) \subseteq Conds /\ Considered(k) \subseteq Values
  BY <1>2, LevelConds, ConsideredValues
<1>4. CASE Len(done) < 2 /\ IsProperty /\ OfBool
  <2>1. Finished = expr_trans_bool[cond]
    BY <1>4, Zenon DEF Finished
  <2>2. /\ Finished \in Worked(Bound(k))
        /\ \A v \in Values : NotNo(expr_calc_value[Finished][v]) = NotNo(expr_calc_value[cond][v])
    BY <1>1, <1>2, <2>1, SignKept
  <2>3. (k = 1 /\ shape = "siblings" /\ Above \in Bools) \/ (k = 2 /\ type = "bool")
    <3>1. Len(done) \in 0..4
      BY InvParts
    <3>2. k = 1 \/ k = 2
      BY <1>4, <3>1
    <3> QED BY <1>4, <3>1, <3>2 DEF IsProperty, OfBool
  <2>4. \A v \in Considered(k) : Same(k, expr_calc_value[Finished][v], Meaning(k, v))
    BY <1>1, <1>3, <2>2, <2>3 DEF Same
  <2> QED BY <1>3, <2>2, <2>4 DEF Made
<1>5. CASE ~(Len(done) < 2 /\ IsProperty /\ OfBool)
  <2>1. Finished = cond
    BY <1>5, Zenon DEF Finished
  <2>2. \A v \in Considered(k) : Same(k, expr_calc_value[cond][v], Meaning(k, v))
    BY <1>1 DEF Same
  <2> QED BY <1>1, <1>3, <2>1, <2>2 DEF Made
<1> QED BY <1>4, <1>5

(* Finish preserves the invariant.                                         *)
LEMMA FinishStep == IInv /\ Finish => IInv'
<1> SUFFICES ASSUME IInv, Finish PROVE IInv'
  OBVIOUS
<1>1. /\ pc = "dups" /\ pc' = "next" /\ cond' = cond /\ done' = Append(done, Finished)
      /\ raw' = raw /\ shape' = shape /\ type' = type
  BY DEF Finish
<1>2. opposed' = opposed /\ submenu' = submenu
  BY Zenon DEF Finish
<1>3. /\ raw \in First \X Second /\ shape \in Shape /\ type \in {"bool", "tristate"}
      /\ done \in Seq(Conds) /\ Len(done) \in 0..4 /\ Len(done) < 4 /\ DOMAIN done = 1..Len(done)
      /\ opposed \in BOOLEAN /\ submenu \in BOOLEAN /\ ~submenu
      /\ (Len(done) > 1 => shape = "siblings")
      /\ cond \in Conds
      /\ \A j \in DOMAIN done : Made(j, done[j])
  BY <1>1, InvParts
<1>4. PICK k \in 1..4 : k = Len(done) + 1
  BY <1>3
<1> DEFINE x == Finished
<1>5. Made(k, x) /\ x \in Conds
  BY <1>1, <1>4, FinishedMade
<1> HIDE DEF x
<1>0. opposed' \in BOOLEAN /\ submenu' \in BOOLEAN /\ (opposed => opposed') /\ ~submenu'
  BY <1>2, <1>3, Zenon
<1>6. /\ done' \in Seq(Conds) /\ Len(done') = k /\ DOMAIN done' = 1..k
      /\ \A j \in 1..k : done'[j] = IF j = k THEN x ELSE done[j]
  <2>1. done' = Append(done, x)
    BY <1>1 DEF x
  <2> QED BY <1>3, <1>4, <1>5, <2>1
<1>7. TypeOK'
  <2>1. cond' \in Conds /\ Len(done') <= 4 /\ pc' \in {"transform", "dups", "next", "end"}
    BY <1>1, <1>3, <1>6
  <2> QED BY <1>0, <1>1, <1>3, <1>6, <2>1, Zenon DEF TypeOK
<1>8. (\A j \in DOMAIN done : Made(j, done[j]))'
  <2> SUFFICES ASSUME NEW j \in DOMAIN done' PROVE Made(j, done[j])'
    OBVIOUS
  <2>1. j \in 1..4 /\ j \in 1..k
    BY <1>6
  <2>2. PICK e : e = done'[j]
    OBVIOUS
  <2>3. Made(j, e)
    <3>1. CASE j = k
      BY <1>5, <1>6, <2>1, <2>2, <3>1
    <3>2. CASE j # k
      <4>1. j \in DOMAIN done /\ e = done[j]
        BY <1>3, <1>4, <1>6, <2>1, <2>2, <3>2
      <4> QED BY <1>3, <4>1
    <3> QED BY <3>1, <3>2
  <2>4. j > 2 => done'[j - 2] = done[j - 2]
    BY <1>6, <2>1
  <2>5. /\ Bound(j)' = Bound(j)
        /\ Considered(j)' \subseteq Considered(j)
        /\ \A v : Meaning(j, v)' = Meaning(j, v)
    <3>1. TypeOK /\ raw' = raw /\ shape' = shape /\ type' = type
      BY <1>1, InvParts
    <3> QED BY <1>0, <2>1, <2>4, <3>1, Steady
  <2> QED BY <1>1, <2>2, <2>3, <2>5 DEF Made, Same
<1>9. SubmenuDepends'
  BY <1>0 DEF SubmenuDepends
<1>10. (Len(done') > 2 => shape' = "siblings") /\ pc' \notin {"transform", "dups"}
  BY <1>1, <1>3, <1>4, <1>6
<1> QED BY <1>0, <1>7, <1>8, <1>9, <1>10 DEF IInv

(* The next condition is begun.                                            *)
LEMMA Begin ==
    ASSUME IInv, pc = "next", pc' = "transform",
           raw' = raw, shape' = shape, type' = type, done' = done,
           opposed' = opposed, submenu' = submenu,
           cond' \in Conds, Len(done) < 4, Len(done) > 1 => shape = "siblings",
           Begun(Len(done) + 1, cond')
    PROVE  IInv'
<1>3. /\ raw \in First \X Second /\ shape \in Shape /\ type \in {"bool", "tristate"}
      /\ done \in Seq(Conds) /\ Len(done) \in 0..4
      /\ opposed \in BOOLEAN /\ submenu \in BOOLEAN /\ ~submenu
  BY InvParts
<1>0. opposed' \in BOOLEAN /\ submenu' \in BOOLEAN /\ (opposed => opposed') /\ ~submenu'
  BY <1>3, Zenon
<1>7. TypeOK'
  <2>1. Len(done') <= 4 /\ done' \in Seq(Conds) /\ pc' \in {"transform", "dups", "next", "end"}
    BY <1>3
  <2> QED BY <1>0, <1>3, <2>1, Zenon DEF TypeOK
<1>8. Begun(Len(done) + 1, cond)'
  BY DEF Begun
<1>9. (\A j \in DOMAIN done : Made(j, done[j]))'
  BY <1>0, AllMadeStay
<1>10. SubmenuDepends'
  BY <1>0 DEF SubmenuDepends
<1>11. Len(done') < 4 /\ (Len(done') > 1 => shape' = "siblings") /\ (Len(done') > 2 => shape' = "siblings")
       /\ pc' # "dups"
  BY <1>3
<1> QED BY <1>0, <1>7, <1>8, <1>9, <1>10, <1>11 DEF IInv

(* The end, with or without a submenu, preserves the invariant.            *)
LEMMA Ends ==
    ASSUME IInv, pc' = "end",
           raw' = raw, shape' = shape, type' = type, done' = done, cond' = cond,
           opposed' = opposed, submenu' \in BOOLEAN,
           submenu' => BelowSymbol \/ BelowPrompt
    PROVE  IInv'
<1>3. /\ raw \in First \X Second /\ shape \in Shape /\ type \in {"bool", "tristate"}
      /\ done \in Seq(Conds) /\ Len(done) \in 0..4 /\ cond \in Conds
      /\ opposed \in BOOLEAN
      /\ Len(done) > 2 => shape = "siblings"
  BY InvParts
<1>0. opposed' \in BOOLEAN /\ (opposed => opposed')
  BY <1>3, Zenon
<1>7. TypeOK'
  <2>1. Len(done) <= 4
    BY InvParts, Zenon DEF TypeOK
  <2>2. pc' \in {"transform", "dups", "next", "end"} /\ cond' \in Conds
    BY <1>3
  <2> QED BY <1>0, <1>3, <2>1, <2>2, Zenon DEF TypeOK
<1>9. (\A j \in DOMAIN done : Made(j, done[j]))'
  BY <1>0, AllMadeStay
<1>10. SubmenuDepends'
  <2>1. BelowSymbol' <=> BelowSymbol
    BY DEF BelowSymbol
  <2>2. BelowPrompt' <=> BelowPrompt
    BY DEF BelowPrompt
  <2> QED BY <2>1, <2>2, Zenon DEF SubmenuDepends
<1>11. (Len(done') > 2 => shape' = "siblings") /\ pc' \notin {"transform", "dups"} /\ pc' = "end"
  BY <1>3
<1> QED BY <1>7, <1>9, <1>10, <1>11 DEF IInv

(* Finished conditions can be compared.                                    *)
LEMMA DonePlaces ==
    ASSUME IInv, Len(done) > 1, shape = "siblings"
    PROVE  /\ done[1] \in Worked(MaxDepth - 2) /\ done[2] \in Worked(MaxDepth - 2)
           /\ done[1] \in Conds /\ done[2] \in Conds
           /\ Compared(done[1]) \in Conds /\ Compared(done[2]) \in Conds
<1>1. Len(done) \in 0..4 /\ DOMAIN done = 1..Len(done) /\ done \in Seq(Conds)
      /\ \A k \in DOMAIN done : Made(k, done[k])
  BY InvParts
<1>2. 1 \in DOMAIN done /\ 2 \in DOMAIN done
  BY <1>1
<1>3. Bound(1) = MaxDepth - 2 /\ Bound(2) = MaxDepth - 2
  BY DEF Bound
<1>4. done[1] \in Worked(MaxDepth - 2) /\ done[2] \in Worked(MaxDepth - 2)
  BY <1>1, <1>2, <1>3 DEF Made
<1>5. (MaxDepth - 2) + 2 <= MaxDepth /\ MaxDepth - 2 \in Nat /\ Parsed(MaxDepth) = Conds
  BY Bounds
<1> QED BY <1>1, <1>2, <1>4, <1>5, ComparedCond

(* NextCondition preserves the invariant.                                  *)
LEMMA NextConditionStep == IInv /\ NextCondition => IInv'
<1> SUFFICES ASSUME IInv, NextCondition PROVE IInv'
  OBVIOUS
<1>1. /\ pc = "next" /\ pc' = "transform" /\ Len(done) = 1 /\ cond' = raw[2]
      /\ raw' = raw /\ shape' = shape /\ type' = type /\ done' = done
      /\ opposed' = opposed /\ submenu' = submenu
  BY DEF NextCondition
<1>2. raw[2] \in Conds
  BY InvParts, RawLevels, Bounds, LevelConds
<1>3. Begun(Len(done) + 1, cond')
  BY <1>1 DEF Begun
<1>4. cond' \in Conds /\ Len(done) < 4 /\ (Len(done) > 1 => shape = "siblings")
  BY <1>1, <1>2
<1> QED BY <1>1, <1>3, <1>4, Begin

(* CompareFirst preserves the invariant.                                   *)
LEMMA CompareFirstStep == IInv /\ CompareFirst => IInv'
<1> SUFFICES ASSUME IInv, CompareFirst PROVE IInv'
  OBVIOUS
<1>1. /\ pc = "next" /\ pc' = "transform" /\ Len(done) = 2 /\ shape = "siblings"
      /\ cond' = Compared(done[1])
      /\ raw' = raw /\ shape' = shape /\ type' = type /\ done' = done
      /\ opposed' = opposed /\ submenu' = submenu
  BY DEF CompareFirst
<1>2. cond' \in Conds
  BY <1>1, DonePlaces
<1>3. Begun(Len(done) + 1, cond')
  BY <1>1 DEF Begun
<1>4. Len(done) < 4 /\ (Len(done) > 1 => shape = "siblings")
  BY <1>1
<1> QED BY <1>1, <1>2, <1>3, <1>4, Begin

(* CompareSecond preserves the invariant.                                  *)
LEMMA CompareSecondStep == IInv /\ CompareSecond => IInv'
<1> SUFFICES ASSUME IInv, CompareSecond PROVE IInv'
  OBVIOUS
<1>1. /\ pc = "next" /\ pc' = "transform" /\ Len(done) = 3
      /\ cond' = Compared(done[2])
      /\ raw' = raw /\ shape' = shape /\ type' = type /\ done' = done
      /\ opposed' = opposed /\ submenu' = submenu
  BY DEF CompareSecond
<1>0. shape = "siblings" /\ Len(done) > 1
  BY <1>1, InvParts
<1>2. cond' \in Conds
  BY <1>0, <1>1, DonePlaces
<1>3. Begun(Len(done) + 1, cond')
  BY <1>1 DEF Begun
<1>4. Len(done) < 4 /\ (Len(done) > 1 => shape = "siblings")
  BY <1>0, <1>1
<1> QED BY <1>1, <1>2, <1>3, <1>4, Begin

(* An end without a submenu preserves the invariant.                       *)
LEMMA NoSubmenuStep == IInv /\ (NoSubmenu \/ End) => IInv'
<1> SUFFICES ASSUME IInv, NoSubmenu \/ End PROVE IInv'
  OBVIOUS
<1>1. /\ pc = "next" /\ pc' = "end" /\ cond' = cond
      /\ raw' = raw /\ shape' = shape /\ type' = type /\ done' = done
  BY DEF NoSubmenu, End
<1>2. opposed' = opposed /\ submenu' = submenu
  BY Zenon DEF NoSubmenu, End
<1>3. submenu' \in BOOLEAN /\ ~submenu'
  <2>1. submenu \in BOOLEAN /\ ~submenu
    BY <1>1, InvParts
  <2> QED BY <1>2, <2>1, Zenon
<1> QED BY <1>1, <1>2, <1>3, Ends

(* Having ended preserves the invariant.                                   *)
LEMMA StopStep == IInv /\ Stop => IInv'
<1> SUFFICES ASSUME IInv, Stop PROVE IInv'
  OBVIOUS
<1>1. /\ pc' = "end" /\ cond' = cond
      /\ raw' = raw /\ shape' = shape /\ type' = type /\ done' = done
  BY DEF Stop, vars
<1>2. opposed' = opposed /\ submenu' = submenu
  BY Zenon DEF Stop, vars
<1>3. submenu' \in BOOLEAN /\ (submenu' => BelowSymbol \/ BelowPrompt)
  <2>1. submenu \in BOOLEAN /\ (submenu => BelowSymbol \/ BelowPrompt)
    BY InvParts, Zenon DEF SubmenuDepends
  <2> QED BY <1>2, <2>1, Zenon
<1> QED BY <1>1, <1>2, <1>3, Ends

(* The second entry depends on the symbol of the first.                    *)
LEMMA SubmenuStep == IInv /\ Submenu => IInv'
<1> SUFFICES ASSUME IInv, Submenu PROVE IInv'
  OBVIOUS
<1>1. /\ pc = "next" /\ pc' = "end" /\ cond' = cond /\ Len(done) = 3
      /\ raw' = raw /\ shape' = shape /\ type' = type /\ done' = done
      /\ expr_depends_symbol[done[2]][Above]
  BY DEF Submenu
<1>2. opposed' = opposed /\ submenu' = TRUE
  BY Zenon DEF Submenu
<1>3. done[2] \in Conds
  BY <1>1, InvParts, DonePlaces
<1>4. ASSUME NEW v \in TwoValued, v[Above] = no PROVE expr_calc_value[done[2]][v] = no
  <2>1. v \in Values
    BY TwoValues
  <2>2. T(done[2], v, 1) => v[Above] # no
    BY <1>1, <1>3, <2>1, DependsSymbol, AboveAssumption DEF Requires
  <2>3. expr_calc_value[done[2]][v] \in 0..2
    BY <1>3, <2>1, ValueRange
  <2>4. ~T(done[2], v, 1) => expr_calc_value[done[2]][v] = no
    BY <2>3 DEF T, no
  <2> QED BY <1>4, <2>2, <2>4, Zenon
<1>5. BelowSymbol
  BY <1>4 DEF BelowSymbol
<1>6. submenu' \in BOOLEAN
  BY <1>2, Zenon
<1> QED BY <1>1, <1>2, <1>5, <1>6, Ends

(* What the second entry asks for covers what the first asks for.          *)
LEMMA DecideStep == IInv /\ Decide => IInv'
<1> SUFFICES ASSUME IInv, Decide PROVE IInv'
  OBVIOUS
<1>1. /\ pc = "next" /\ pc' = "end" /\ cond' = cond /\ Len(done) = 4
      /\ raw' = raw /\ shape' = shape /\ type' = type /\ done' = done
  BY DEF Decide
<1>2. opposed' = opposed /\ submenu' = Cover(done[4], done[3])
  BY Zenon DEF Decide
<1>3. /\ done \in Seq(Conds) /\ DOMAIN done = 1..4
      /\ \A k \in DOMAIN done : Made(k, done[k])
      /\ \A k \in 1..4 : done[k] \in Conds
  <2>1. done \in Seq(Conds) /\ DOMAIN done = 1..Len(done) /\ \A k \in DOMAIN done : Made(k, done[k])
    BY InvParts
  <2>2. DOMAIN done = 1..4
    BY <1>1, <2>1
  <2>3. \A k \in DOMAIN done : done[k] \in Conds
    BY <2>1
  <2> QED BY <2>1, <2>2, <2>3, Zenon
<1>4. ASSUME Cover(done[4], done[3]), NEW v \in TwoValued, expr_calc_value[done[1]][v] = no
      PROVE  expr_calc_value[done[2]][v] = no
  <2>1. v \in Values
    BY TwoValues
  <2>2. \A k \in 1..4 : expr_calc_value[done[k]][v] \in 0..2
    BY <1>3, <2>1, ValueRange
  <2>3. ASSUME NEW k \in {3, 4}
        PROVE  expr_calc_value[done[k]][v] = NotNo(expr_calc_value[done[k - 2]][v])
    <3>1. Made(k, done[k]) /\ k \in Nat /\ k > 2
      BY <1>3
    <3>2. v \in Considered(k)
      BY ConsideredValues
    <3>3. Same(k, expr_calc_value[done[k]][v], Meaning(k, v))
      BY <3>1, <3>2 DEF Made
    <3>4. expr_calc_value[done[k]][v] = Meaning(k, v)
      BY <3>3 DEF Same
    <3>5. Meaning(k, v) = NotNo(expr_calc_value[done[k - 2]][v])
      BY <3>1, Meanings, Zenon
    <3> QED BY <3>4, <3>5
  <2>4. /\ expr_calc_value[done[3]][v] = NotNo(expr_calc_value[done[1]][v])
        /\ expr_calc_value[done[4]][v] = NotNo(expr_calc_value[done[2]][v])
    <3>1. 3 - 2 = 1 /\ 4 - 2 = 2
      OBVIOUS
    <3> QED BY <2>3, <3>1
  <2>5. T(done[4], v, 1) => T(done[3], v, 1)
    BY <1>3, <1>4, <2>1, CoverSound
  <2>6. expr_calc_value[done[4]][v] >= 1 => expr_calc_value[done[3]][v] >= 1
    BY <2>5 DEF T
  <2>7. \A a \in 0..2 : (NotNo(a) >= 1) <=> a # no
    BY DEF NotNo, no, yes
  <2>8. expr_calc_value[done[2]][v] # no => expr_calc_value[done[1]][v] # no
    BY <2>2, <2>4, <2>6, <2>7
  <2> QED BY <1>4, <2>8, Zenon
<1>5. Cover(done[4], done[3]) \in BOOLEAN
  BY DEF Cover, expr_is_yes
<1>6. submenu' \in BOOLEAN /\ (submenu' => BelowPrompt)
  BY <1>2, <1>4, <1>5, Zenon DEF BelowPrompt
<1> QED BY <1>1, <1>2, <1>6, Ends

(* The invariant is inductive.                                             *)
LEMMA Inductive == IInv /\ [Next]_vars => IInv'
<1> SUFFICES ASSUME IInv, [Next]_vars PROVE IInv'
  OBVIOUS
<1>1. CASE UNCHANGED vars
  <2>1. /\ pc' = pc /\ cond' = cond
        /\ raw' = raw /\ shape' = shape /\ type' = type /\ done' = done
    BY <1>1 DEF vars
  <2>2. opposed' = opposed /\ submenu' = submenu
    BY <1>1, Zenon DEF vars
  <2>3. /\ TypeOK /\ opposed \in BOOLEAN /\ submenu \in BOOLEAN /\ Len(done) \in 0..4
        /\ pc \in {"transform", "dups"} => Len(done) < 4 /\ (Len(done) > 1 => shape = "siblings")
        /\ Len(done) > 2 => shape = "siblings"
        /\ pc = "transform" => Begun(Len(done) + 1, cond)
        /\ pc = "dups" => InWork(Len(done) + 1, cond)
        /\ submenu => pc = "end"
        /\ SubmenuDepends
    BY InvParts
  <2>4. opposed' \in BOOLEAN /\ (opposed => opposed')
    BY <2>2, <2>3, Zenon
  <2>5. TypeOK'
    BY <2>1, <2>2, <2>3, Zenon DEF TypeOK
  <2>6. (\A j \in DOMAIN done : Made(j, done[j]))'
    BY <2>1, <2>4, AllMadeStay
  <2>7. (pc = "transform" => Begun(Len(done) + 1, cond))'
    BY <2>1, <2>3 DEF Begun
  <2>8. (pc = "dups" => InWork(Len(done) + 1, cond))'
    <3> SUFFICES ASSUME pc = "dups" PROVE InWork(Len(done) + 1, cond)'
      BY <2>1
    <3>1. PICK k \in 1..4 : k = Len(done) + 1
      BY <2>3
    <3>2. cond \in Worked(Bound(k)) /\ \A v \in Considered(k) : expr_calc_value[cond][v] = Meaning(k, v)
      BY <2>3, <3>1 DEF InWork
    <3>3. Considered(k)' \subseteq Considered(k)
      BY <2>1, <2>3, <2>4, <3>1, Steady
    <3>4. /\ cond' \in Worked(Bound(k))
          /\ \A v \in Considered(k)' : expr_calc_value[cond'][v] = Meaning(k, v)
      BY <2>1, <3>2, <3>3
    <3> QED BY <2>1, <2>3, <2>4, <3>1, <3>4, InWorkNow
  <2>9. SubmenuDepends' /\ (submenu => pc = "end")'
    BY <2>1, <2>2, <2>3, Zenon DEF SubmenuDepends, BelowSymbol, BelowPrompt
  <2>10. (/\ pc \in {"transform", "dups"} => Len(done) < 4 /\ (Len(done) > 1 => shape = "siblings")
          /\ Len(done) > 2 => shape = "siblings")'
    BY <2>1, <2>3
  <2> QED BY <2>5, <2>6, <2>7, <2>8, <2>9, <2>10, Zenon DEF IInv
<1> QED BY <1>1, TransformStep, AgainStep, FinishStep, NextConditionStep, CompareFirstStep,
           CompareSecondStep, NoSubmenuStep, SubmenuStep, DecideStep, StopStep, Zenon DEF Next

(* The invariant holds.                                                    *)
LEMMA Invariant == Spec => []IInv
  BY InitHolds, Inductive, PTL DEF Spec

(* menu_finalize only ever works on trees of binary operators that have    *)
(* their operands, and a whole condition is all that can be absent:        *)
(* expr_transform, expr_eliminate_dups, expr_trans_bool and                *)
(* expr_trans_compare never leave an operand out, and nest no deeper.      *)
THEOREM ConditionsTyped == Spec => []TypeOK
<1>1. IInv => TypeOK
  BY InvParts
<1> QED BY <1>1, Invariant, PTL

(* What menu_finalize makes of a dependency, of a property's condition or  *)
(* of a comparison with n has the value of what was parsed, for every      *)
(* value of the symbols; where expr_eliminate_dups2 dropped an operand as  *)
(* the opposite of others, and in comparisons with n, for all values but   *)
(* m.                                                                      *)
THEOREM ConditionsKept == Spec => []MeaningKept
<1>1. IInv => MeaningKept
  BY InvParts DEF MeaningKept, Made, Considered
<1> QED BY <1>1, Invariant, PTL

(* menu_finalize puts an entry into the implicit submenu of the entry      *)
(* above only if it is invisible whenever the symbol above is n, or if it  *)
(* is invisible whenever the prompt above is, for all values but m.        *)
THEOREM SubmenusDepend == Spec => []SubmenuDepends
<1>1. IInv => SubmenuDepends
  BY InvParts
<1> QED BY <1>1, Invariant, PTL

-----------------------------------------------------------------------------
(* How many leaves an expression has                                       *)
LeafBody(c, f, e) == IF e.op \in AndOr THEN Fold(AddLeaves, f, 0, e.args) ELSE 1
LeafGood(c, e, n) == n \in Nat /\ n >= 1
LeafRec == INSTANCE Recursion
    WITH Dom <- CondDom, rank <- condRank, Body <- LeafBody, Good <- LeafGood, Step <- AddLeaves

(* The sums of the leaves of the first operands, by the function f.        *)
SumsOf(f, es, t) ==
    /\ t \in [0..Len(es) -> Nat]
    /\ t[0] = 0
    /\ \A k \in 1..Len(es) : t[k] = t[k - 1] + f[es[k]]

(* A fold of the numbers of leaves is their sum.                           *)
LEMMA LeavesSummed ==
    ASSUME NEW es, Len(es) \in Nat, NEW f, \A k \in 1..Len(es) : f[es[k]] \in Nat
    PROVE  \E t : SumsOf(f, es, t) /\ Fold(AddLeaves, f, 0, es) = t[Len(es)]
<1>1. PICK t : /\ LeafRec!Runs(f, 0, es, Len(es), t)
               /\ LeafRec!LastState(f, 0, es, Len(es)) = t[Len(es)]
  BY LeafRec!Unfolded
<1>2. t = [k \in 0..Len(es) |-> IF k = 0 THEN 0 ELSE t[k - 1] + f[es[k]]]
  BY <1>1 DEF LeafRec!Runs, AddLeaves
<1>3. /\ 0 \in Nat
      /\ \A k \in 1..Len(es) : \A n \in Nat : AddLeaves(f, n, es[k]) \in Nat
  BY DEF AddLeaves
<1>4. \A k \in 0..Len(es) : t[k] \in Nat
  BY <1>1, <1>3, LeafRec!RunsStay
<1>5. t[0] = 0 /\ \A k \in 1..Len(es) : t[k] = t[k - 1] + f[es[k]]
  BY <1>2
<1>6. t \in [0..Len(es) -> Nat]
  BY <1>2, <1>4
<1>7. Fold(AddLeaves, f, 0, es) = LeafRec!LastState(f, 0, es, Len(es))
  BY DEF Fold, LeafRec!LastState
<1> QED BY <1>1, <1>5, <1>6, <1>7 DEF SumsOf

(* Sums that start alike and grow by no more end no higher.                *)
LEMMA SumsCompared ==
    ASSUME NEW n \in Nat, NEW t \in [0..n -> Int], NEW u \in [0..n -> Int], t[0] <= u[0],
           \A k \in 1..n : t[k] - t[k - 1] <= u[k] - u[k - 1]
    PROVE  t[n] <= u[n]
<1> DEFINE S == {k \in Nat : k <= n => t[k] <= u[k]}
<1>1. 0 \in S
  OBVIOUS
<1>2. ASSUME NEW k \in S PROVE k + 1 \in S
  <2>1. CASE k + 1 <= n
    <3>1. k + 1 \in 1..n /\ (k + 1) - 1 = k /\ k \in 0..n /\ k + 1 \in 0..n
      BY <2>1
    <3>2. t[k + 1] - t[k] <= u[k + 1] - u[k]
      BY <3>1
    <3>3. t[k] <= u[k]
      BY <2>1
    <3>4. t[k] \in Int /\ u[k] \in Int /\ t[k + 1] \in Int /\ u[k + 1] \in Int
      BY <3>1
    <3>5. t[k + 1] <= u[k + 1]
      BY <3>2, <3>3, <3>4
    <3> QED BY <3>5
  <2>2. CASE ~(k + 1 <= n)
    BY <2>2
  <2> QED BY <2>1, <2>2
<1>3. S = Nat
  <2> HIDE DEF S
  <2>1. S \in SUBSET Nat
    BY DEF S
  <2> QED BY <1>1, <1>2, <2>1, NatSetInduction
<1>4. n \in S
  <2> HIDE DEF S
  <2> QED BY <1>3
<1> QED BY <1>4

(* One step of the recursion that counts leaves.                           *)
LEMMA LeafMade ==
    ASSUME NEW e \in Conds, NEW f, NEW g,
           e.op \in AndOr => \A i \in DOMAIN e.args :
                                f[e.args[i]] = g[e.args[i]] /\ LeafGood(0, e.args[i], f[e.args[i]])
    PROVE  LeafBody(0, f, e) = LeafBody(0, g, e) /\ LeafGood(0, e, LeafBody(0, f, e))
<1>1. CASE e.op \notin AndOr
  <2>1. LeafBody(0, f, e) = 1 /\ LeafBody(0, g, e) = 1
    BY <1>1 DEF LeafBody
  <2> QED BY <2>1 DEF LeafGood
<1>2. CASE e.op \in AndOr
  <2> DEFINE es == e.args
             n == Len(e.args)
  <2>0. e \in Exprs
    BY <1>2 DEF Conds, Null, AndOr
  <2>1. n \in Nat /\ n > 1 /\ DOMAIN es = 1..n
    BY <1>2, <2>0, ExprParts
  <2>2. \A k \in 1..n : f[es[k]] = g[es[k]] /\ f[es[k]] \in Nat /\ f[es[k]] >= 1
    BY <1>2, <2>1 DEF LeafGood
  <2> HIDE DEF n, es
  <2>3. Fold(AddLeaves, f, 0, es) = Fold(AddLeaves, g, 0, es)
    <3>1. \A k \in 1..n : \A m \in Nat : /\ AddLeaves(f, m, es[k]) \in Nat
                                         /\ AddLeaves(f, m, es[k]) = AddLeaves(g, m, es[k])
      BY <2>2 DEF AddLeaves
    <3>2. 0 \in Nat
      OBVIOUS
    <3>3. LeafRec!Alike(f, g, 0, es, n, Nat)
      BY <3>1, <3>2, Zenon DEF LeafRec!Alike
    <3>4. LeafRec!LastState(f, 0, es, n) = LeafRec!LastState(g, 0, es, n)
      BY <2>1, <3>3, LeafRec!FoldsAgree
    <3> QED BY <3>4 DEF Fold, LeafRec!LastState, n, es
  <2>4. Len(es) = n
    BY DEF n, es
  <2>5. PICK t : SumsOf(f, es, t) /\ Fold(AddLeaves, f, 0, es) = t[n]
    BY <2>1, <2>2, <2>4, LeavesSummed
  <2>6. t[n] \in Nat /\ t[n] >= 1
    <3>1. t[n] = t[n - 1] + f[es[n]] /\ t[n - 1] \in Nat /\ t[n] \in Nat
      BY <2>1, <2>4, <2>5 DEF SumsOf
    <3>2. f[es[n]] \in Nat /\ f[es[n]] >= 1
      BY <2>1, <2>2
    <3> QED BY <3>1, <3>2
  <2>7. /\ LeafBody(0, f, e) = Fold(AddLeaves, f, 0, es)
        /\ LeafBody(0, g, e) = Fold(AddLeaves, g, 0, es)
    BY <1>2 DEF LeafBody, es
  <2> QED BY <2>3, <2>5, <2>6, <2>7 DEF LeafGood
<1> QED BY <1>1, <1>2

(* The number of leaves satisfies its recursive definition.                *)
LEMMA Counted ==
    \A e \in Conds : LeafGood(0, e, LeafCount[e]) /\ LeafCount[e] = LeafBody(0, LeafCount, e)
<1>1. LeafRec!Ranked(0)
  BY CondRanks DEF LeafRec!Ranked, CondDom
<1>2. LeafRec!Local(0)
  <2> SUFFICES ASSUME NEW e \in Conds, NEW f, NEW g,
                      \A y \in LeafRec!Below(0, condRank(0, e)) : f[y] = g[y] /\ LeafGood(0, y, f[y])
               PROVE  LeafBody(0, f, e) = LeafBody(0, g, e) /\ LeafGood(0, e, LeafBody(0, f, e))
    BY DEF LeafRec!Local, CondDom
  <2>1. ASSUME e.op \in AndOr
        PROVE  \A i \in DOMAIN e.args : e.args[i] \in LeafRec!Below(0, condRank(0, e))
    <3>1. e \in Exprs
      BY <2>1 DEF Conds, Null, AndOr
    <3> QED BY <2>1, <3>1, ExprParts, CondRanks DEF LeafRec!Below, CondDom, Conds
  <2>2. e.op \in AndOr => \A i \in DOMAIN e.args :
            f[e.args[i]] = g[e.args[i]] /\ LeafGood(0, e.args[i], f[e.args[i]])
    BY <2>1
  <2> QED BY <2>2, LeafMade
<1>3. /\ \E f : f = [e \in Conds |-> LeafBody(0, f, e)]
      /\ \A f : f = [e \in Conds |-> LeafBody(0, f, e)] => \A e \in Conds : LeafGood(0, e, f[e])
  BY <1>1, <1>2, LeafRec!Defined DEF CondDom
<1>4. LeafCount = [e \in Conds |-> LeafBody(0, LeafCount, e)]
  <2> DEFINE h == CHOOSE f : f = [e \in Conds |-> LeafBody(0, f, e)]
  <2>1. h = [e \in Conds |-> LeafBody(0, h, e)]
    BY <1>3, Zenon
  <2>2. LeafCount = h
    BY DEF LeafCount, LeafBody
  <2> HIDE DEF h
  <2> QED BY <2>1, <2>2, Zenon
<1>5. \A e \in Conds : LeafGood(0, e, LeafCount[e])
  BY <1>3, <1>4, Zenon
<1>6. \A e \in Conds : LeafCount[e] = LeafBody(0, LeafCount, e)
  BY <1>4, Zenon
<1> QED BY <1>5, <1>6

(* The leaves of all operands.                                             *)
Total(es) == Fold(AddLeaves, LeafCount, 0, es)

(* The leaves of a tree are those of its operands.                         *)
LEMMA Counts ==
    ASSUME NEW e \in Exprs
    PROVE  /\ LeafCount[e] \in Nat /\ LeafCount[e] >= 1
           /\ e.op \in AndOr => LeafCount[e] = Total(e.args)
           /\ e.op \notin AndOr => LeafCount[e] = 1
<1>1. e \in Conds
  BY DEF Conds
<1>2. LeafGood(0, e, LeafCount[e]) /\ LeafCount[e] = LeafBody(0, LeafCount, e)
  BY <1>1, Counted
<1>3. LeafBody(0, LeafCount, e) = IF e.op \in AndOr THEN Total(e.args) ELSE 1
  BY Zenon DEF LeafBody, Total
<1> QED BY <1>2, <1>3 DEF LeafGood

(* Sums of leaves, operand by operand.                                     *)
LEMMA Totals ==
    ASSUME NEW es \in Seq(Exprs)
    PROVE  /\ \E t : SumsOf(LeafCount, es, t) /\ Total(es) = t[Len(es)]
           /\ Len(es) \in Nat /\ DOMAIN es = 1..Len(es)
           /\ \A k \in 1..Len(es) : es[k] \in Exprs /\ LeafCount[es[k]] \in Nat /\ LeafCount[es[k]] >= 1
           /\ Total(es) \in Nat
<1>1. Len(es) \in Nat /\ DOMAIN es = 1..Len(es) /\ \A k \in 1..Len(es) : es[k] \in Exprs
  OBVIOUS
<1>2. \A k \in 1..Len(es) : LeafCount[es[k]] \in Nat /\ LeafCount[es[k]] >= 1
  BY <1>1, Counts
<1>3. PICK t : SumsOf(LeafCount, es, t) /\ Fold(AddLeaves, LeafCount, 0, es) = t[Len(es)]
  BY <1>1, <1>2, LeavesSummed
<1>4. t[Len(es)] \in Nat
  BY <1>1, <1>3 DEF SumsOf
<1> QED BY <1>1, <1>2, <1>3, <1>4 DEF Total

(* A sum of leaves is bounded by what grows by no less.                    *)
LEMMA TotalBound ==
    ASSUME NEW es \in Seq(Exprs), NEW u \in [0..Len(es) -> Int], u[0] >= 0,
           \A k \in 1..Len(es) : LeafCount[es[k]] <= u[k] - u[k - 1]
    PROVE  Total(es) <= u[Len(es)]
<1>1. PICK t : SumsOf(LeafCount, es, t) /\ Total(es) = t[Len(es)]
  BY Totals
<1>2. Len(es) \in Nat
  OBVIOUS
<1>3. t \in [0..Len(es) -> Int] /\ t[0] <= u[0]
  BY <1>1 DEF SumsOf
<1>4. ASSUME NEW k \in 1..Len(es) PROVE t[k] - t[k - 1] <= u[k] - u[k - 1]
  <2>0. k - 1 \in 0..Len(es)
    BY <1>2
  <2>1. t[k] = t[k - 1] + LeafCount[es[k]] /\ t[k - 1] \in Int /\ LeafCount[es[k]] \in Nat
    BY <1>1, <1>3, <2>0, Totals DEF SumsOf
  <2>2. t[k] - t[k - 1] = LeafCount[es[k]]
    BY <2>1
  <2> QED BY <2>2
<1> QED BY <1>1, <1>2, <1>3, <1>4, SumsCompared

(* Operands that have more or fewer leaves by d in all.                    *)
LEMMA TotalsDiffer ==
    ASSUME NEW es \in Seq(Exprs), NEW fs \in Seq(Exprs), Len(fs) = Len(es),
           NEW d \in [0..Len(es) -> Int], d[0] = 0,
           \A k \in 1..Len(es) : LeafCount[fs[k]] <= LeafCount[es[k]] + (d[k] - d[k - 1])
    PROVE  Total(fs) <= Total(es) + d[Len(es)]
<1>1. PICK t : SumsOf(LeafCount, es, t) /\ Total(es) = t[Len(es)]
  BY Totals
<1>2. t \in [0..Len(es) -> Nat] /\ t[0] = 0 /\ Len(es) \in Nat
  BY <1>1 DEF SumsOf
<1> DEFINE u == [k \in 0..Len(es) |-> t[k] + d[k]]
<1>3. u \in [0..Len(fs) -> Int] /\ u[0] >= 0 /\ u[Len(fs)] = Total(es) + d[Len(es)]
  BY <1>1, <1>2
<1>4. ASSUME NEW k \in 1..Len(fs) PROVE LeafCount[fs[k]] <= u[k] - u[k - 1]
  <2>1. k \in 0..Len(es) /\ k - 1 \in 0..Len(es) /\ k \in 1..Len(es)
    BY <1>2
  <2>2. u[k] = t[k] + d[k] /\ u[k - 1] = t[k - 1] + d[k - 1]
    BY <2>1
  <2> HIDE DEF u
  <2>3. t[k] = t[k - 1] + LeafCount[es[k]]
    BY <1>1, <2>1 DEF SumsOf
  <2>4. /\ t[k] \in Int /\ t[k - 1] \in Int /\ d[k] \in Int /\ d[k - 1] \in Int
        /\ LeafCount[es[k]] \in Nat /\ LeafCount[fs[k]] \in Nat
    BY <1>2, <2>1, Totals
  <2>5. LeafCount[fs[k]] <= LeafCount[es[k]] + (d[k] - d[k - 1])
    BY <2>1
  <2> QED BY <2>2, <2>3, <2>4, <2>5
<1> HIDE DEF u
<1>5. Total(fs) <= u[Len(fs)]
  BY <1>3, <1>4, TotalBound
<1> QED BY <1>3, <1>5

(* Every operand has a leaf.                                               *)
LEMMA TotalLeast ==
    ASSUME NEW es \in Seq(Exprs)
    PROVE  Len(es) <= Total(es)
<1>1. PICK t : SumsOf(LeafCount, es, t) /\ Total(es) = t[Len(es)]
  BY Totals
<1>2. t \in [0..Len(es) -> Int] /\ t[0] = 0 /\ Len(es) \in Nat
  BY <1>1 DEF SumsOf
<1> DEFINE u == [k \in 0..Len(es) |-> k]
<1>3. u \in [0..Len(es) -> Int] /\ u[0] <= t[0] /\ u[Len(es)] = Len(es)
  BY <1>2
<1>4. ASSUME NEW k \in 1..Len(es) PROVE u[k] - u[k - 1] <= t[k] - t[k - 1]
  <2>1. k - 1 \in 0..Len(es) /\ k \in 0..Len(es)
    BY <1>2
  <2>2. u[k] - u[k - 1] = 1
    BY <2>1
  <2>3. t[k] = t[k - 1] + LeafCount[es[k]] /\ t[k - 1] \in Int
    BY <1>1, <1>2, <2>1 DEF SumsOf
  <2>4. LeafCount[es[k]] \in Nat /\ LeafCount[es[k]] >= 1
    BY Totals
  <2> HIDE DEF u
  <2> QED BY <2>2, <2>3, <2>4
<1> HIDE DEF u
<1>5. u[Len(es)] <= t[Len(es)]
  BY <1>2, <1>3, <1>4, SumsCompared
<1> QED BY <1>1, <1>3, <1>5

(* The leaves of one expression.                                           *)
LEMMA OneTotal ==
    ASSUME NEW e \in Exprs
    PROVE  Total(<< e >>) = LeafCount[e]
<1> DEFINE es == << e >>
<1>1. es \in Seq(Exprs) /\ Len(es) = 1 /\ es[1] = e
  OBVIOUS
<1> HIDE DEF es
<1>2. PICK t : SumsOf(LeafCount, es, t) /\ Total(es) = t[1]
  BY <1>1, Totals
<1>3. t[0] = 0 /\ t[1] = t[0] + LeafCount[e]
  BY <1>1, <1>2 DEF SumsOf
<1>4. LeafCount[e] \in Nat
  BY Counts
<1> QED BY <1>2, <1>3, <1>4 DEF es

(* The leaves of operands appended to others.                              *)
LEMMA AppendTotal ==
    ASSUME NEW h \in Seq(Exprs), NEW l \in Seq(Exprs)
    PROVE  Total(h \o l) <= Total(h) + Total(l)
<1> DEFINE s == h \o l
           m == Len(h)
           n == Len(l)
<1>1. s \in Seq(Exprs) /\ Len(s) = m + n /\ m \in Nat /\ n \in Nat
  OBVIOUS
<1>2. \A k \in 1..(m + n) : s[k] = IF k <= m THEN h[k] ELSE l[k - m]
  OBVIOUS
<1>3. PICK a : SumsOf(LeafCount, h, a) /\ Total(h) = a[m]
  BY Totals
<1>4. PICK b : SumsOf(LeafCount, l, b) /\ Total(l) = b[n]
  BY Totals
<1>5. /\ a \in [0..m -> Nat] /\ a[0] = 0 /\ \A k \in 1..m : a[k] = a[k - 1] + LeafCount[h[k]]
      /\ b \in [0..n -> Nat] /\ b[0] = 0 /\ \A k \in 1..n : b[k] = b[k - 1] + LeafCount[l[k]]
  BY <1>3, <1>4 DEF SumsOf
<1>6. /\ \A k \in 1..m : LeafCount[h[k]] \in Nat
      /\ \A k \in 1..n : LeafCount[l[k]] \in Nat
  BY Totals
<1> HIDE DEF s, m, n
<1> DEFINE u == [k \in 0..(m + n) |-> IF k <= m THEN a[k] ELSE a[m] + b[k - m]]
<1>7. a[m] \in Nat /\ b[n] \in Nat
  BY <1>1, <1>5
<1>8. u \in [0..Len(s) -> Int]
  <2>1. ASSUME NEW k \in 0..(m + n), ~(k <= m) PROVE a[m] + b[k - m] \in Int
    <3>1. k - m \in 0..n
      BY <1>1, <2>1
    <3>2. b[k - m] \in Nat
      BY <3>1, <1>5
    <3> QED BY <3>2, <1>7
  <2>2. ASSUME NEW k \in 0..(m + n), k <= m PROVE a[k] \in Int
    <3>1. k \in 0..m
      BY <1>1, <2>2
    <3> QED BY <3>1, <1>5
  <2> QED BY <1>1, <2>1, <2>2
<1>9. u[0] >= 0 /\ u[Len(s)] = Total(h) + Total(l)
  <2>1. u[0] = a[0]
    BY <1>1
  <2>2. u[m + n] = a[m] + b[n]
    <3>1. CASE n = 0
      <4>1. m + n = m /\ m \in 0..(m + n)
        BY <1>1, <3>1
      <4>2. u[m] = a[m]
        BY <4>1
      <4> QED BY <4>1, <4>2, <3>1, <1>5, <1>7
    <3>2. CASE n # 0
      <4>1. m + n \in 0..(m + n) /\ ~(m + n <= m) /\ (m + n) - m = n
        BY <1>1, <3>2
      <4> QED BY <4>1
    <3> QED BY <3>1, <3>2
  <2> HIDE DEF u
  <2> QED BY <2>1, <2>2, <1>1, <1>3, <1>4, <1>5
<1>10. ASSUME NEW k \in 1..Len(s) PROVE LeafCount[s[k]] <= u[k] - u[k - 1]
  <2>0. k \in 1..(m + n) /\ k \in 0..(m + n) /\ k - 1 \in 0..(m + n) /\ k \in Nat
    BY <1>1
  <2>1. CASE k <= m
    <3>1. k \in 1..m /\ k - 1 \in 0..m /\ k - 1 <= m
      BY <1>1, <2>0, <2>1
    <3>2. u[k] = a[k] /\ u[k - 1] = a[k - 1] /\ s[k] = h[k]
      BY <2>0, <2>1, <3>1, <1>2
    <3> HIDE DEF u
    <3>3. a[k] = a[k - 1] + LeafCount[h[k]] /\ a[k - 1] \in Nat /\ LeafCount[h[k]] \in Nat
      BY <3>1, <1>5, <1>6
    <3> QED BY <3>2, <3>3
  <2>2. CASE k = m + 1
    <3>1. ~(k <= m) /\ k - 1 = m /\ k - m = 1 /\ 1 \in 1..n /\ k - 1 <= m /\ 1 - 1 = 0
      BY <1>1, <2>0, <2>2
    <3>2. u[k] = a[m] + b[1] /\ u[k - 1] = a[m] /\ s[k] = l[1]
      BY <2>0, <3>1, <1>2
    <3> HIDE DEF u
    <3>3. b[1] = b[0] + LeafCount[l[1]] /\ LeafCount[l[1]] \in Nat
      BY <3>1, <1>5, <1>6
    <3> QED BY <3>2, <3>3, <1>5, <1>7
  <2>3. CASE k > m + 1
    <3>1. ~(k <= m) /\ ~(k - 1 <= m) /\ k - m \in 1..n /\ (k - 1) - m = (k - m) - 1
          /\ (k - m) - 1 \in 0..n
      BY <1>1, <2>0, <2>3
    <3>2. u[k] = a[m] + b[k - m] /\ u[k - 1] = a[m] + b[(k - m) - 1] /\ s[k] = l[k - m]
      BY <2>0, <3>1, <1>2
    <3> HIDE DEF u
    <3>3. b[k - m] = b[(k - m) - 1] + LeafCount[l[k - m]] /\ LeafCount[l[k - m]] \in Nat
          /\ b[(k - m) - 1] \in Nat
      BY <3>1, <1>5, <1>6
    <3> QED BY <3>2, <3>3, <1>7
  <2> QED BY <1>1, <2>0, <2>1, <2>2, <2>3
<1> HIDE DEF u
<1>11. Total(s) <= u[Len(s)]
  BY <1>1, <1>8, <1>9, <1>10, TotalBound
<1> QED BY <1>9, <1>11 DEF s

FlatSum(c, i, s) == s \in Seq(Exprs) /\ Total(s) <= c.t[i]
FlatSumRec == INSTANCE Recursion
    WITH Dom <- FlatDom, rank <- Itself, Body <- Flat, Good <- FlatSum, Step <- NoStep

(* The leaves of operands that are flattened are bounded by what grows by  *)
(* no less.                                                                *)
LEMMA FlatTotal ==
    ASSUME NEW ss \in Seq(Seq(Exprs)), NEW t \in [0..Len(ss) -> Int], t[0] >= 0,
           \A i \in 1..Len(ss) : Total(ss[i]) <= t[i] - t[i - 1]
    PROVE  Total(FlattenSeq(ss)) <= t[Len(ss)] /\ FlattenSeq(ss) \in Seq(Exprs)
<1> DEFINE c == [t |-> t, ss |-> ss]
<1>0. Len(ss) \in Nat /\ \A i \in 1..Len(ss) : ss[i] \in Seq(Exprs)
  OBVIOUS
<1>1. CASE Len(ss) = 0
  <2>1. FlattenSeq(ss) = ss /\ ss = << >>
    BY <1>1 DEF FlattenSeq
  <2>2. << >> \in Seq(Exprs) /\ Len(<< >>) = 0
    OBVIOUS
  <2>3. PICK u : SumsOf(LeafCount, << >>, u) /\ Total(<< >>) = u[0]
    BY <2>2, Totals
  <2>4. Total(<< >>) = 0
    BY <2>3 DEF SumsOf
  <2> QED BY <1>1, <2>1, <2>2, <2>4
<1>2. CASE Len(ss) # 0
  <2>0. c.ss = ss /\ c.t = t
    OBVIOUS
  <2> HIDE DEF c
  <2>1. FlatSumRec!Ranked(c)
    BY <1>0, <2>0 DEF FlatSumRec!Ranked, FlatDom, Itself
  <2>2. FlatSumRec!Local(c)
    <3> SUFFICES ASSUME NEW i \in 1..Len(ss), NEW f, NEW g,
                        \A y \in FlatSumRec!Below(c, i) : f[y] = g[y] /\ FlatSum(c, y, f[y])
                 PROVE  Flat(c, f, i) = Flat(c, g, i) /\ FlatSum(c, i, Flat(c, f, i))
      BY <2>0 DEF FlatSumRec!Local, FlatDom, Itself
    <3>1. CASE i = 1
      <4>1. Flat(c, f, i) = ss[1] /\ Flat(c, g, i) = ss[1] /\ ss[1] \in Seq(Exprs)
        BY <3>1, <1>0, <2>0 DEF Flat
      <4>2. Total(ss[1]) <= t[1] - t[0] /\ t[1] \in Int /\ t[0] \in Int /\ Total(ss[1]) \in Nat
        <5>1. 1 \in 1..Len(ss) /\ 1 - 1 = 0 /\ 1 \in 0..Len(ss) /\ 0 \in 0..Len(ss)
          BY <1>0, <1>2
        <5> QED BY <5>1, <4>1, Totals
      <4>3. Total(ss[1]) <= t[1]
        BY <4>2
      <4> QED BY <2>0, <3>1, <4>1, <4>3 DEF FlatSum
    <3>2. CASE i # 1
      <4>1. i - 1 \in 1..Len(ss) /\ i - 1 < i /\ i \in Nat /\ i \in 0..Len(ss) /\ i - 1 \in 0..Len(ss)
        BY <3>2, <1>0
      <4>2. i - 1 \in FlatSumRec!Below(c, i)
        BY <2>0, <4>1 DEF FlatSumRec!Below, FlatDom, Itself
      <4>3. f[i - 1] = g[i - 1] /\ FlatSum(c, i - 1, f[i - 1])
        BY <4>2
      <4>4. Flat(c, f, i) = f[i - 1] \o ss[i] /\ Flat(c, g, i) = f[i - 1] \o ss[i]
        BY <2>0, <3>2, <4>3 DEF Flat
      <4> DEFINE h == f[i - 1]
      <4>5. h \in Seq(Exprs) /\ Total(h) <= t[i - 1] /\ ss[i] \in Seq(Exprs)
        BY <2>0, <4>3, <1>0 DEF FlatSum
      <4> HIDE DEF h
      <4>6. Total(h \o ss[i]) <= Total(h) + Total(ss[i]) /\ h \o ss[i] \in Seq(Exprs)
        BY <4>5, AppendTotal
      <4>7. /\ Total(h) \in Nat /\ Total(ss[i]) \in Nat /\ Total(h \o ss[i]) \in Nat
            /\ t[i] \in Int /\ t[i - 1] \in Int /\ Total(ss[i]) <= t[i] - t[i - 1]
        BY <4>1, <4>5, <4>6, Totals
      <4>8. Total(h \o ss[i]) <= t[i]
        BY <4>5, <4>6, <4>7
      <4> QED BY <2>0, <4>4, <4>6, <4>8 DEF FlatSum, h
    <3> QED BY <3>1, <3>2
  <2> DEFINE flatten == CHOOSE f : f = [i \in 1..Len(ss) |-> Flat(c, f, i)]
  <2>3. /\ \E f : f = [i \in 1..Len(ss) |-> Flat(c, f, i)]
        /\ \A f : f = [i \in 1..Len(ss) |-> Flat(c, f, i)]
                    => \A i \in 1..Len(ss) : FlatSum(c, i, f[i])
    BY <2>0, <2>1, <2>2, FlatSumRec!Defined DEF FlatDom
  <2>4. flatten = [i \in 1..Len(ss) |-> Flat(c, flatten, i)]
    BY <2>3
  <2>5. FlatSum(c, Len(ss), flatten[Len(ss)])
    <3> HIDE DEF flatten
    <3>1. \A i \in 1..Len(ss) : FlatSum(c, i, flatten[i])
      BY <2>3, <2>4, Zenon
    <3>2. Len(ss) \in 1..Len(ss)
      BY <1>0, <1>2
    <3> QED BY <3>1, <3>2
  <2>6. FlattenSeq(ss) = flatten[Len(ss)]
    BY <1>2 DEF FlattenSeq, Flat, c
  <2> HIDE DEF flatten
  <2> QED BY <2>0, <2>5, <2>6 DEF FlatSum
<1> QED BY <1>1, <1>2

(* Operands each replaced by a list of them that has more or fewer leaves, *)
(* by d in all.                                                            *)
LEMMA FlatDiffers ==
    ASSUME NEW es \in Seq(Exprs), NEW ss \in Seq(Seq(Exprs)), Len(ss) = Len(es),
           NEW d \in [0..Len(es) -> Int], d[0] = 0,
           \A k \in 1..Len(es) : Total(ss[k]) <= LeafCount[es[k]] + (d[k] - d[k - 1])
    PROVE  Total(FlattenSeq(ss)) <= Total(es) + d[Len(es)]
<1>1. PICK t : SumsOf(LeafCount, es, t) /\ Total(es) = t[Len(es)]
  BY Totals
<1>2. t \in [0..Len(es) -> Nat] /\ t[0] = 0 /\ Len(es) \in Nat
  BY <1>1 DEF SumsOf
<1> DEFINE u == [k \in 0..Len(es) |-> t[k] + d[k]]
<1>3. u \in [0..Len(ss) -> Int] /\ u[0] >= 0 /\ u[Len(ss)] = Total(es) + d[Len(es)]
  BY <1>1, <1>2
<1>4. ASSUME NEW k \in 1..Len(ss) PROVE Total(ss[k]) <= u[k] - u[k - 1]
  <2>1. k \in 0..Len(es) /\ k - 1 \in 0..Len(es) /\ k \in 1..Len(es)
    BY <1>2
  <2>2. u[k] = t[k] + d[k] /\ u[k - 1] = t[k - 1] + d[k - 1]
    BY <2>1
  <2> HIDE DEF u
  <2>3. t[k] = t[k - 1] + LeafCount[es[k]]
    BY <1>1, <2>1 DEF SumsOf
  <2>4. /\ t[k] \in Int /\ t[k - 1] \in Int /\ d[k] \in Int /\ d[k - 1] \in Int
        /\ LeafCount[es[k]] \in Nat /\ Total(ss[k]) \in Nat
    <3>1. ss[k] \in Seq(Exprs)
      OBVIOUS
    <3>2. Total(ss[k]) \in Nat
      BY <3>1, Totals
    <3>3. LeafCount[es[k]] \in Nat
      BY <2>1, Totals
    <3>4. t[k] \in Nat /\ t[k - 1] \in Nat
      BY <1>2, <2>1
    <3>5. d[k] \in Int /\ d[k - 1] \in Int
      BY <2>1
    <3> QED BY <3>2, <3>3, <3>4, <3>5
  <2>5. Total(ss[k]) <= LeafCount[es[k]] + (d[k] - d[k - 1])
    BY <2>1
  <2>6. \A a, b, x, y, l, n \in Int : n <= l + (x - y) /\ a = b + l => n <= (a + x) - (b + y)
    OBVIOUS
  <2>7. Total(ss[k]) <= (t[k] + d[k]) - (t[k - 1] + d[k - 1])
    <3> HIDE DEF Total
    <3> QED BY <2>3, <2>4, <2>5, <2>6
  <2> QED BY <2>2, <2>7
<1> HIDE DEF u
<1>5. Total(FlattenSeq(ss)) <= u[Len(ss)]
  BY <1>3, <1>4, FlatTotal
<1> QED BY <1>3, <1>5

(* The leaves of an expression under an operator.                          *)
LEMMA LeavesTotal ==
    ASSUME NEW e \in Exprs, NEW op \in AndOr
    PROVE  Total(Leaves(op, e)) = LeafCount[e] /\ Leaves(op, e) \in Seq(Exprs)
<1>1. CASE e.op = op
  BY <1>1, Counts, ExprParts DEF Leaves
<1>2. CASE e.op # op
  <2>1. Leaves(op, e) = << e >>
    BY <1>2 DEF Leaves
  <2> QED BY <2>1, OneTotal
<1> QED BY <1>1, <1>2

(* Joining operands adds no leaf.                                          *)
LEMMA NaryCount ==
    ASSUME NEW es \in Seq(Exprs), Len(es) > 0, NEW op \in AndOr, Nary(op, es) \in Exprs
    PROVE  LeafCount[Nary(op, es)] <= Total(es)
<1>1. CASE Len(es) = 1
  <2>1. Nary(op, es) = es[1] /\ es = << es[1] >> /\ es[1] \in Exprs
    BY <1>1 DEF Nary
  <2>2. Total(es) = LeafCount[es[1]] /\ LeafCount[es[1]] \in Nat
    BY <2>1, OneTotal, Counts
  <2> QED BY <2>1, <2>2
<1>2. CASE Len(es) # 1
  <2> DEFINE ls == LeavesAll(op, es)
             s == FlattenSeq(ls)
             d == [k \in 0..Len(es) |-> 0]
  <2>1. Nary(op, es) = [op |-> op, args |-> s]
    BY <1>2 DEF Nary, LeavesAll
  <2>2. ls \in Seq(Seq(Exprs)) /\ Len(ls) = Len(es) /\ Len(es) \in Nat
    BY NaryFlat, ExprsLevel
  <2>3. \A k \in 1..Len(es) : ls[k] = Leaves(op, es[k]) /\ es[k] \in Exprs
    BY DEF LeavesAll
  <2>4. Nary(op, es).op = op /\ Nary(op, es).args = s
    BY <2>1
  <2> HIDE DEF ls, s
  <2>5. \A k \in 0..Len(es) : d[k] = 0
    OBVIOUS
  <2>6. d \in [0..Len(es) -> Int] /\ d[0] = 0 /\ d[Len(es)] = 0
    BY <2>2
  <2> HIDE DEF d
  <2>7. ASSUME NEW k \in 1..Len(es)
        PROVE  Total(ls[k]) <= LeafCount[es[k]] + (d[k] - d[k - 1])
    <3>1. k \in 0..Len(es) /\ k - 1 \in 0..Len(es)
      BY <2>2
    <3>2. d[k] = 0 /\ d[k - 1] = 0
      BY <2>5, <3>1
    <3>3. Total(ls[k]) = LeafCount[es[k]] /\ LeafCount[es[k]] \in Nat
      BY <2>3, LeavesTotal, Counts
    <3> QED BY <3>2, <3>3
  <2>8. Total(s) <= Total(es) + d[Len(es)]
    BY <2>2, <2>6, <2>7, FlatDiffers DEF s
  <2>9. LeafCount[Nary(op, es)] = Total(s)
    BY <2>4, Counts
  <2> QED BY <2>6, <2>8, <2>9, Totals
<1> QED BY <1>1, <1>2

(* Operands that are constants go, and no leaf is added; of several        *)
(* operands one of which is a constant, a leaf goes.                       *)
LEMMA ReducedCount ==
    ASSUME NEW op \in AndOr, NEW es \in Seq(Exprs), Len(es) > 1, Reduced(op, es) \in Exprs
    PROVE  /\ LeafCount[Reduced(op, es)] <= Total(es)
           /\ (\E i \in DOMAIN es : es[i] \in {Neutral(op), Absorbing(op)})
                 => LeafCount[Reduced(op, es)] < Total(es)
<1> DEFINE w == WithoutNeutral(op, es)
           ss == [i \in DOMAIN es |-> IF es[i] = Neutral(op) THEN << >> ELSE << es[i] >>]
<1>1. Len(es) \in Nat /\ DOMAIN es = 1..Len(es) /\ Total(es) \in Nat /\ Len(es) <= Total(es)
  BY Totals, TotalLeast
<1>2. /\ Neutral(op) \in Exprs /\ Neutral(op).op \notin AndOr
      /\ Absorbing(op) \in Exprs /\ Absorbing(op).op \notin AndOr
  BY NeutralAtoms DEF AndOr
<1>3. LeafCount[Neutral(op)] = 1 /\ LeafCount[Absorbing(op)] = 1
  BY <1>2, Counts
<1>4. CASE Absorbing(op) \in Range(es)
  <2>1. Reduced(op, es) = Absorbing(op)
    BY <1>4 DEF Reduced
  <2> QED BY <2>1, <1>1, <1>3
<1>5. CASE Absorbing(op) \notin Range(es) /\ w = << >>
  <2>1. Reduced(op, es) = Neutral(op)
    BY <1>5 DEF Reduced
  <2> QED BY <2>1, <1>1, <1>3
<1>6. CASE Absorbing(op) \notin Range(es) /\ w # << >>
  <2>1. Reduced(op, es) = Nary(op, w)
    BY <1>6 DEF Reduced
  <2>2. w \in Seq(Exprs)
    BY NeutralRemoved
  <2>3. LeafCount[Reduced(op, es)] <= Total(w)
    <3> HIDE DEF w
    <3>1. Len(w) > 0
      BY <2>2, <1>6
    <3> QED BY <2>1, <2>2, <3>1, NaryCount
  <2>4. Total(w) \in Nat /\ LeafCount[Reduced(op, es)] \in Nat
    <3> HIDE DEF w
    <3> QED BY <2>2, Totals, Counts
  <2>5. /\ \A i \in DOMAIN es : ss[i] \in Seq(Exprs)
        /\ \A i \in DOMAIN es : es[i] = Neutral(op) => ss[i] = << >>
        /\ \A i \in DOMAIN es : es[i] # Neutral(op) => ss[i] = << es[i] >>
    BY <1>1
  <2>6. ss \in Seq(Seq(Exprs)) /\ Len(ss) = Len(es)
    BY <1>1, <2>5
  <2>7. w = FlattenSeq(ss)
    BY DEF WithoutNeutral
  <2> HIDE DEF w, ss
  <2>8. Total(<< >>) = 0
    <3>1. << >> \in Seq(Exprs) /\ Len(<< >>) = 0
      OBVIOUS
    <3>2. PICK u : SumsOf(LeafCount, << >>, u) /\ Total(<< >>) = u[0]
      BY <3>1, Totals
    <3> QED BY <3>2 DEF SumsOf
  <2>9. ASSUME NEW k \in DOMAIN es
        PROVE  /\ Total(ss[k]) <= LeafCount[es[k]]
               /\ es[k] = Neutral(op) => Total(ss[k]) <= LeafCount[es[k]] - 1
               /\ LeafCount[es[k]] \in Nat /\ Total(ss[k]) \in Nat
    <3>1. es[k] \in Exprs /\ LeafCount[es[k]] \in Nat /\ Total(ss[k]) \in Nat
      BY <1>1, <2>5, Totals
    <3>2. CASE es[k] = Neutral(op)
      <4>1. Total(ss[k]) = 0 /\ LeafCount[es[k]] = 1
        BY <3>2, <2>5, <2>8, <1>3
      <4> QED BY <3>1, <4>1
    <3>3. CASE es[k] # Neutral(op)
      <4>1. Total(ss[k]) = LeafCount[es[k]]
        BY <3>1, <3>3, <2>5, OneTotal
      <4> QED BY <3>1, <3>3, <4>1
    <3> QED BY <3>2, <3>3
  <2>10. Total(w) <= Total(es)
    <3> DEFINE d == [k \in 0..Len(es) |-> 0]
    <3>1. \A k \in 0..Len(es) : d[k] = 0
      OBVIOUS
    <3>2. d \in [0..Len(es) -> Int] /\ d[0] = 0 /\ d[Len(es)] = 0
      BY <1>1
    <3> HIDE DEF d
    <3>3. ASSUME NEW k \in 1..Len(es)
          PROVE  Total(ss[k]) <= LeafCount[es[k]] + (d[k] - d[k - 1])
      <4>1. k \in 0..Len(es) /\ k - 1 \in 0..Len(es) /\ k \in DOMAIN es
        BY <1>1
      <4> QED BY <3>1, <4>1, <2>9
    <3>4. Total(w) <= Total(es) + d[Len(es)]
      BY <2>6, <2>7, <3>2, <3>3, FlatDiffers
    <3> QED BY <3>2, <3>4, <1>1, <2>4
  <2>11. ASSUME NEW i \in DOMAIN es, es[i] \in {Neutral(op), Absorbing(op)}
         PROVE  Total(w) < Total(es)
    <3>0. es[i] = Neutral(op)
      BY <2>11, <1>6 DEF Range
    <3> DEFINE d == [k \in 0..Len(es) |-> IF k >= i THEN 0 - 1 ELSE 0]
    <3>1. \A k \in 0..Len(es) : /\ k >= i => d[k] = 0 - 1
                                /\ ~(k >= i) => d[k] = 0
      OBVIOUS
    <3>2. d \in [0..Len(es) -> Int] /\ d[0] = 0 /\ d[Len(es)] = 0 - 1
      BY <1>1
    <3> HIDE DEF d
    <3>3. ASSUME NEW k \in 1..Len(es)
          PROVE  Total(ss[k]) <= LeafCount[es[k]] + (d[k] - d[k - 1])
      <4>1. /\ k \in 0..Len(es) /\ k - 1 \in 0..Len(es) /\ k \in DOMAIN es
            /\ i \in Nat /\ k \in Nat
        BY <1>1
      <4>2. CASE k = i
        <5>1. d[k] = 0 - 1 /\ d[k - 1] = 0
          BY <3>1, <4>1, <4>2
        <5> QED BY <4>1, <4>2, <5>1, <3>0, <2>9
      <4>3. CASE k > i
        <5>1. d[k] = 0 - 1 /\ d[k - 1] = 0 - 1
          BY <3>1, <4>1, <4>3
        <5> QED BY <4>1, <5>1, <2>9
      <4>4. CASE k < i
        <5>1. d[k] = 0 /\ d[k - 1] = 0
          BY <3>1, <4>1, <4>4
        <5> QED BY <4>1, <5>1, <2>9
      <4> QED BY <4>1, <4>2, <4>3, <4>4
    <3>4. Total(w) <= Total(es) + d[Len(es)]
      BY <2>6, <2>7, <3>2, <3>3, FlatDiffers
    <3> QED BY <3>2, <3>4, <1>1, <2>4
  <2> QED BY <2>3, <2>4, <2>10, <2>11, <1>1
<1> QED BY <1>4, <1>5, <1>6

(* Operands each of which has no more leaves.                              *)
LEMMA Fewer ==
    ASSUME NEW es \in Seq(Exprs), NEW fs \in Seq(Exprs), Len(fs) = Len(es),
           \A k \in 1..Len(es) : LeafCount[fs[k]] <= LeafCount[es[k]]
    PROVE  /\ Total(fs) <= Total(es)
           /\ (\E i \in 1..Len(es) : LeafCount[fs[i]] < LeafCount[es[i]]) => Total(fs) < Total(es)
<1>1. Len(es) \in Nat /\ Total(es) \in Nat /\ Total(fs) \in Nat
  BY Totals
<1>2. \A k \in 1..Len(es) : LeafCount[es[k]] \in Nat /\ LeafCount[fs[k]] \in Nat
  BY Totals
<1>3. Total(fs) <= Total(es)
  <2> DEFINE d == [k \in 0..Len(es) |-> 0]
  <2>1. \A k \in 0..Len(es) : d[k] = 0
    OBVIOUS
  <2>2. d \in [0..Len(es) -> Int] /\ d[0] = 0 /\ d[Len(es)] = 0
    BY <1>1
  <2> HIDE DEF d
  <2>3. ASSUME NEW k \in 1..Len(es)
        PROVE  LeafCount[fs[k]] <= LeafCount[es[k]] + (d[k] - d[k - 1])
    <3>1. k \in 0..Len(es) /\ k - 1 \in 0..Len(es)
      BY <1>1
    <3>2. d[k] = 0 /\ d[k - 1] = 0
      BY <2>1, <3>1
    <3> QED BY <3>2, <1>2
  <2>4. Total(fs) <= Total(es) + d[Len(es)]
    BY <2>2, <2>3, TotalsDiffer
  <2> QED BY <2>2, <2>4, <1>1
<1>4. ASSUME NEW i \in 1..Len(es), LeafCount[fs[i]] < LeafCount[es[i]]
      PROVE  Total(fs) < Total(es)
  <2> DEFINE d == [k \in 0..Len(es) |-> IF k >= i THEN 0 - 1 ELSE 0]
  <2>1. \A k \in 0..Len(es) : /\ k >= i => d[k] = 0 - 1
                              /\ ~(k >= i) => d[k] = 0
    OBVIOUS
  <2>2. d \in [0..Len(es) -> Int] /\ d[0] = 0 /\ d[Len(es)] = 0 - 1
    BY <1>1
  <2> HIDE DEF d
  <2>3. ASSUME NEW k \in 1..Len(es)
        PROVE  LeafCount[fs[k]] <= LeafCount[es[k]] + (d[k] - d[k - 1])
    <3>1. k \in 0..Len(es) /\ k - 1 \in 0..Len(es) /\ i \in Nat /\ k \in Nat
      BY <1>1
    <3>2. LeafCount[es[k]] \in Nat /\ LeafCount[fs[k]] \in Nat /\ LeafCount[fs[k]] <= LeafCount[es[k]]
      BY <1>2
    <3>3. CASE k = i
      <4>1. d[k] = 0 - 1 /\ d[k - 1] = 0
        BY <2>1, <3>1, <3>3
      <4> QED BY <3>2, <3>3, <4>1, <1>4
    <3>4. CASE k > i
      <4>1. d[k] = 0 - 1 /\ d[k - 1] = 0 - 1
        BY <2>1, <3>1, <3>4
      <4> QED BY <3>2, <4>1
    <3>5. CASE k < i
      <4>1. d[k] = 0 /\ d[k - 1] = 0
        BY <2>1, <3>1, <3>5
      <4> QED BY <3>2, <4>1
    <3> QED BY <3>1, <3>3, <3>4, <3>5
  <2>4. Total(fs) <= Total(es) + d[Len(es)]
    BY <2>2, <2>3, TotalsDiffer
  <2> QED BY <2>2, <2>4, <1>1
<1> QED BY <1>3, <1>4

YnArgs(e) == [i \in DOMAIN e.args |-> expr_eliminate_yn[e.args[i]]]

(* What expr_eliminate_yn makes of a tree, operand by operand.             *)
LEMMA YnTree ==
    ASSUME NEW e \in Exprs, e.op \in AndOr
    PROVE  /\ expr_eliminate_yn[e] = Reduced(e.op, YnArgs(e)) /\ expr_eliminate_yn[e] \in Exprs
           /\ YnArgs(e) \in Seq(Exprs) /\ Len(YnArgs(e)) = Len(e.args)
           /\ e.args \in Seq(Exprs) /\ Len(e.args) \in Nat /\ Len(e.args) > 1
           /\ \A i \in 1..Len(e.args) : /\ e.args[i] \in Exprs /\ rk(e.args[i]) < rk(e)
                                        /\ YnArgs(e)[i] = expr_eliminate_yn[e.args[i]]
<1>1. expr_eliminate_yn[e] = YnBody(0, expr_eliminate_yn, e) /\ KeptGood(0, e, expr_eliminate_yn[e])
  BY YnKeeps
<1>2. expr_eliminate_yn[e] = Reduced(e.op, YnArgs(e))
  BY <1>1, Zenon DEF YnBody, YnArgs
<1>3. expr_eliminate_yn[e] \in Exprs
  BY <1>1, KeptExpr DEF KeptGood
<1>4. /\ e.args \in Seq(Exprs) /\ Len(e.args) \in Nat /\ Len(e.args) > 1
      /\ DOMAIN e.args = 1..Len(e.args)
      /\ \A i \in 1..Len(e.args) : e.args[i] \in Exprs /\ rk(e.args[i]) < rk(e)
  BY ExprParts
<1>5. \A i \in 1..Len(e.args) : expr_eliminate_yn[e.args[i]] \in Exprs
  BY <1>4, YnKeeps, KeptExpr DEF KeptGood
<1>6. YnArgs(e) = [i \in 1..Len(e.args) |-> expr_eliminate_yn[e.args[i]]]
  BY <1>4, Zenon DEF YnArgs
<1>7. YnArgs(e) \in Seq(Exprs) /\ Len(YnArgs(e)) = Len(e.args)
  BY <1>4, <1>5, <1>6
<1>8. \A i \in 1..Len(e.args) : YnArgs(e)[i] = expr_eliminate_yn[e.args[i]]
  BY <1>6
<1> QED BY <1>2, <1>3, <1>4, <1>7, <1>8

(* expr_eliminate_yn adds no leaf.                                         *)
LEMMA YnCount == \A e \in Exprs : LeafCount[expr_eliminate_yn[e]] <= LeafCount[e]
<1> DEFINE Bad == {rk(e) : e \in {e \in Exprs : ~(LeafCount[expr_eliminate_yn[e]] <= LeafCount[e])}}
<1>1. Bad = {}
  <2> SUFFICES ASSUME Bad # {} PROVE FALSE
    OBVIOUS
  <2>1. Bad \in SUBSET Nat
    BY ExprParts
  <2>2. PICK r \in Bad : \A q \in Bad : r <= q
    <3> HIDE DEF Bad
    <3> QED BY <2>1, NatLeast
  <2>3. PICK e \in Exprs : ~(LeafCount[expr_eliminate_yn[e]] <= LeafCount[e]) /\ r = rk(e)
    BY <2>2
  <2>4. CASE e.op \notin AndOr
    <3>1. expr_eliminate_yn[e] = e
      BY <2>4, YnKeeps DEF YnBody
    <3>2. LeafCount[e] \in Nat
      BY Counts
    <3> QED BY <2>3, <3>1, <3>2
  <2>5. CASE e.op \in AndOr
    <3>1. /\ expr_eliminate_yn[e] = Reduced(e.op, YnArgs(e)) /\ expr_eliminate_yn[e] \in Exprs
          /\ YnArgs(e) \in Seq(Exprs) /\ Len(YnArgs(e)) = Len(e.args)
          /\ e.args \in Seq(Exprs) /\ Len(e.args) \in Nat /\ Len(e.args) > 1
          /\ \A i \in 1..Len(e.args) : /\ e.args[i] \in Exprs /\ rk(e.args[i]) < rk(e)
                                       /\ YnArgs(e)[i] = expr_eliminate_yn[e.args[i]]
      BY <2>5, YnTree
    <3>2. ASSUME NEW k \in 1..Len(e.args)
          PROVE  LeafCount[YnArgs(e)[k]] <= LeafCount[e.args[k]]
      <4>1. e.args[k] \in Exprs /\ rk(e.args[k]) < rk(e) /\ rk(e.args[k]) \in Nat /\ rk(e) \in Nat
        BY <3>1, ExprParts
      <4>2. ~(LeafCount[expr_eliminate_yn[e.args[k]]] <= LeafCount[e.args[k]]) => rk(e.args[k]) \in Bad
        BY <4>1
      <4> HIDE DEF Bad
      <4> QED BY <2>2, <2>3, <3>1, <4>1, <4>2
    <3>3. Total(YnArgs(e)) <= Total(e.args)
      BY <3>1, <3>2, Fewer
    <3>4. LeafCount[expr_eliminate_yn[e]] <= Total(YnArgs(e))
      BY <2>5, <3>1, ReducedCount
    <3>5. LeafCount[e] = Total(e.args) /\ LeafCount[e] \in Nat /\ LeafCount[expr_eliminate_yn[e]] \in Nat
      BY <2>5, <3>1, Counts
    <3>6. Total(YnArgs(e)) \in Nat
      BY <3>1, Totals
    <3> QED BY <2>3, <3>3, <3>4, <3>5, <3>6
  <2> QED BY <2>4, <2>5
<1> SUFFICES ASSUME NEW e \in Exprs PROVE LeafCount[expr_eliminate_yn[e]] <= LeafCount[e]
  OBVIOUS
<1>2. ~(LeafCount[expr_eliminate_yn[e]] <= LeafCount[e]) => rk(e) \in Bad
  OBVIOUS
<1> HIDE DEF Bad
<1> QED BY <1>1, <1>2

(* An operand in es that expr_eliminate_yn takes a leaf from.              *)
MarkAt(op, es, i) ==
    \/ es[i] \in {Neutral(op), Absorbing(op)}
    \/ LeafCount[expr_eliminate_yn[es[i]]] < LeafCount[es[i]]
Marked(op, es) == \E i \in 1..Len(es) : MarkAt(op, es, i)

(* expr_eliminate_yn takes a leaf from a tree with such an operand.        *)
LEMMA MarkShrinks ==
    ASSUME NEW e \in Exprs, e.op \in AndOr, Marked(e.op, e.args)
    PROVE  LeafCount[expr_eliminate_yn[e]] < LeafCount[e]
<1>1. /\ expr_eliminate_yn[e] = Reduced(e.op, YnArgs(e)) /\ expr_eliminate_yn[e] \in Exprs
      /\ YnArgs(e) \in Seq(Exprs) /\ Len(YnArgs(e)) = Len(e.args)
      /\ e.args \in Seq(Exprs) /\ Len(e.args) \in Nat /\ Len(e.args) > 1
      /\ \A i \in 1..Len(e.args) : /\ e.args[i] \in Exprs /\ rk(e.args[i]) < rk(e)
                                   /\ YnArgs(e)[i] = expr_eliminate_yn[e.args[i]]
  BY YnTree
<1>2. \A k \in 1..Len(e.args) : LeafCount[YnArgs(e)[k]] <= LeafCount[e.args[k]]
  BY <1>1, YnCount
<1>3. Total(YnArgs(e)) <= Total(e.args)
  BY <1>1, <1>2, Fewer
<1>4. LeafCount[expr_eliminate_yn[e]] <= Total(YnArgs(e))
  BY <1>1, ReducedCount
<1>5. LeafCount[e] = Total(e.args) /\ LeafCount[e] \in Nat /\ LeafCount[expr_eliminate_yn[e]] \in Nat
  BY <1>1, Counts
<1>6. Total(YnArgs(e)) \in Nat
  BY <1>1, Totals
<1>7. PICK i \in 1..Len(e.args) : MarkAt(e.op, e.args, i)
  BY DEF Marked
<1>8. CASE e.args[i] \in {Neutral(e.op), Absorbing(e.op)}
  <2>1. e.args[i].op \notin AndOr
    BY <1>8, NeutralAtoms DEF AndOr
  <2>2. expr_eliminate_yn[e.args[i]] = e.args[i]
    BY <1>1, <2>1, YnKeeps DEF YnBody
  <2>3. YnArgs(e)[i] \in {Neutral(e.op), Absorbing(e.op)} /\ i \in DOMAIN YnArgs(e)
    BY <1>1, <1>8, <2>2
  <2>4. LeafCount[expr_eliminate_yn[e]] < Total(YnArgs(e))
    BY <1>1, <2>3, ReducedCount
  <2> QED BY <1>3, <1>5, <1>6, <2>4
<1>9. CASE LeafCount[expr_eliminate_yn[e.args[i]]] < LeafCount[e.args[i]]
  <2>1. Total(YnArgs(e)) < Total(e.args)
    BY <1>1, <1>2, <1>9, Fewer
  <2> QED BY <1>4, <1>5, <1>6, <2>1
<1> QED BY <1>7, <1>8, <1>9 DEF MarkAt

(* Two operands are joined to the first of them or to a single leaf.       *)
LEMMA JoinedTo ==
    ASSUME NEW op \in AndOr, NEW e1 \in Exprs, NEW e2 \in Exprs, Join(op, e1, e2) # Null
    PROVE  Join(op, e1, e2) = e1 \/ Join(op, e1, e2).op \notin AndOr
<1> DEFINE s == SymOf(e1)
<1>1. \A o, c : expr_alloc_comp(o, s, c).op = o
  BY DEF expr_alloc_comp
<1>2. expr_alloc_symbol(s).op = "sym" /\ Y.op = "sym" /\ N.op = "sym"
  BY DEF expr_alloc_symbol, Y, N
<1>3. CASE expr_eq[<< e1, e2 >>]
  BY <1>3, Zenon DEF Join, expr_join_and, expr_join_or
<1>4. CASE ~expr_eq[<< e1, e2 >>] /\ op = "or"
  <2>1. Join(op, e1, e2) = IF Joinable(e1, e2) THEN JoinOrSame(e1, e2, s) ELSE Null
    BY <1>4 DEF Join, expr_join_or
  <2>2. Join(op, e1, e2) = JoinOrSame(e1, e2, s) /\ JoinOrSame(e1, e2, s) # Null
    BY <2>1
  <2> HIDE DEF s
  <2>3. \/ JoinOrSame(e1, e2, s) = expr_alloc_comp("neq", s, Other(e1.val, e2.val))
        \/ JoinOrSame(e1, e2, s) = Y
    BY <2>2, JoinOrCases
  <2> QED BY <1>1, <1>2, <2>2, <2>3 DEF AndOr
<1>5. CASE ~expr_eq[<< e1, e2 >>] /\ op = "and"
  <2>1. Join(op, e1, e2) = IF Joinable(e1, e2) THEN JoinAndSame(e1, e2, s) ELSE Null
    BY <1>5 DEF Join, expr_join_and
  <2>2. Join(op, e1, e2) = JoinAndSame(e1, e2, s) /\ JoinAndSame(e1, e2, s) # Null
    BY <2>1
  <2> HIDE DEF s
  <2>3. \/ \E c : JoinAndSame(e1, e2, s) = expr_alloc_comp("eq", s, c)
        \/ JoinAndSame(e1, e2, s) = expr_alloc_symbol(s)
        \/ EqualAndNot(e1, e2) /\ JoinAndSame(e1, e2, s) = IfDiffers(e1, e2)
        \/ EqualAndNot(e2, e1) /\ JoinAndSame(e1, e2, s) = IfDiffers(e2, e1)
    BY <2>2, JoinAndCases, Zenon
  <2>4. \A e, f : EqualAndNot(e, f) => IfDiffers(e, f).op \in {"eq", "sym"}
    BY <1>2 DEF EqualAndNot, IfDiffers
  <2> QED BY <1>1, <1>2, <2>2, <2>3, <2>4 DEF AndOr
<1> QED BY <1>3, <1>4, <1>5 DEF AndOr

(* One operand takes the place of another that has no fewer leaves.        *)
LEMMA OneReplaced ==
    ASSUME NEW es \in Seq(Exprs), NEW i \in 1..Len(es), NEW x \in Exprs,
           LeafCount[x] <= LeafCount[es[i]]
    PROVE  Total([es EXCEPT ![i] = x]) <= Total(es)
<1> DEFINE fs == [es EXCEPT ![i] = x]
<1>1. fs \in Seq(Exprs) /\ Len(fs) = Len(es)
  OBVIOUS
<1>2. \A k \in 1..Len(es) : fs[k] = IF k = i THEN x ELSE es[k]
  OBVIOUS
<1> HIDE DEF fs
<1>3. ASSUME NEW k \in 1..Len(es) PROVE LeafCount[fs[k]] <= LeafCount[es[k]]
  <2>1. LeafCount[es[k]] \in Nat
    BY Totals
  <2> QED BY <1>2, <2>1
<1>4. Total(fs) <= Total(es)
  BY <1>1, <1>3, Fewer
<1> QED BY <1>4 DEF fs

(* Two operands take the places of two others that have together no fewer  *)
(* leaves.                                                                 *)
LEMMA TwoReplaced ==
    ASSUME NEW es \in Seq(Exprs), NEW i \in 1..Len(es), NEW j \in 1..Len(es), i # j,
           NEW x \in Exprs, NEW y \in Exprs,
           LeafCount[x] + LeafCount[y] <= LeafCount[es[i]] + LeafCount[es[j]]
    PROVE  Total([es EXCEPT ![i] = x, ![j] = y]) <= Total(es)
<1> DEFINE fs == [es EXCEPT ![i] = x, ![j] = y]
           a == LeafCount[x] - LeafCount[es[i]]
           b == LeafCount[y] - LeafCount[es[j]]
           d == [k \in 0..Len(es) |-> (IF k >= i THEN a ELSE 0) + (IF k >= j THEN b ELSE 0)]
<1>1. fs \in Seq(Exprs) /\ Len(fs) = Len(es) /\ Len(es) \in Nat
  OBVIOUS
<1>2. \A k \in 1..Len(es) : fs[k] = IF k = j THEN y ELSE IF k = i THEN x ELSE es[k]
  OBVIOUS
<1> HIDE DEF fs
<1>3. /\ LeafCount[x] \in Nat /\ LeafCount[y] \in Nat
      /\ LeafCount[es[i]] \in Nat /\ LeafCount[es[j]] \in Nat
  BY Counts, Totals
<1>4. a \in Int /\ b \in Int /\ a + b <= 0
  BY <1>3
<1>5. /\ LeafCount[x] = LeafCount[es[i]] + a
      /\ LeafCount[y] = LeafCount[es[j]] + b
  BY <1>3
<1> HIDE DEF a, b
<1>6. \A k \in 0..Len(es) : d[k] = (IF k >= i THEN a ELSE 0) + (IF k >= j THEN b ELSE 0)
  OBVIOUS
<1>7. d \in [0..Len(es) -> Int]
  BY <1>4
<1> HIDE DEF d
<1>8. d[0] = 0
  BY <1>1, <1>6
<1>9. d[Len(es)] = a + b
  BY <1>1, <1>6
<1>10. ASSUME NEW k \in 1..Len(es)
       PROVE  LeafCount[fs[k]] <= LeafCount[es[k]] + (d[k] - d[k - 1])
  <2>1. k \in 0..Len(es) /\ k - 1 \in 0..Len(es) /\ i \in Nat /\ j \in Nat /\ k \in Nat
    BY <1>1
  <2>2. LeafCount[es[k]] \in Nat
    BY Totals
  <2>3. /\ d[k] = (IF k >= i THEN a ELSE 0) + (IF k >= j THEN b ELSE 0)
        /\ d[k - 1] = (IF k - 1 >= i THEN a ELSE 0) + (IF k - 1 >= j THEN b ELSE 0)
    BY <1>6, <2>1
  <2>4. CASE k = i
    <3>1. d[k] - d[k - 1] = a
      BY <1>4, <2>1, <2>3, <2>4
    <3>2. fs[k] = x
      BY <1>2, <2>4
    <3> QED BY <1>3, <1>5, <2>4, <3>1, <3>2
  <2>5. CASE k = j
    <3>1. d[k] - d[k - 1] = b
      BY <1>4, <2>1, <2>3, <2>5
    <3>2. fs[k] = y
      BY <1>2, <2>5
    <3> QED BY <1>3, <1>5, <2>5, <3>1, <3>2
  <2>6. CASE k # i /\ k # j
    <3>1. d[k] - d[k - 1] = 0
      BY <1>4, <2>1, <2>3, <2>6
    <3>2. fs[k] = es[k]
      BY <1>2, <2>6
    <3> QED BY <2>2, <3>1, <3>2
  <2> QED BY <2>4, <2>5, <2>6
<1>11. Total(fs) <= Total(es) + d[Len(es)]
  BY <1>1, <1>7, <1>8, <1>10, TotalsDiffer
<1>12. Total(fs) \in Nat /\ Total(es) \in Nat
  BY <1>1, Totals
<1>13. Total(fs) <= Total(es)
  BY <1>4, <1>9, <1>11, <1>12
<1> QED BY <1>13 DEF fs

(* What a pass makes of the operands of e has no more leaves; and if it    *)
(* changed any, expr_eliminate_yn takes a leaf from one of them.           *)
Shrunk(e, st) ==
    /\ Total(st.es) <= LeafCount[e]
    /\ ~st.trans => st.es = e.args
    /\ st.trans => Marked(e.op, st.es)

(* A pass starts with the operands of the tree.                            *)
LEMMA ShrunkStart ==
    ASSUME NEW e \in Branches
    PROVE  Shrunk(e, Unchanged(e.args))
<1>1. Unchanged(e.args).es = e.args /\ ~Unchanged(e.args).trans
  BY DEF Unchanged
<1>2. LeafCount[e] = Total(e.args) /\ LeafCount[e] \in Nat
  BY Counts DEF Branches
<1>3. Total(e.args) <= LeafCount[e]
  BY <1>2
<1> HIDE DEF Unchanged
<1> QED BY <1>1, <1>3, Zenon DEF Shrunk

(* A tree with its operands passed over has their leaves.                  *)
LEMMA ShrunkTree ==
    ASSUME NEW V \in SUBSET Values, NEW y \in Branches, NEW st, PassState(V, y, st), Shrunk(y, st)
    PROVE  /\ [y EXCEPT !.args = st.es] \in Branches
           /\ [y EXCEPT !.args = st.es] = [op |-> y.op, args |-> st.es]
           /\ LeafCount[[y EXCEPT !.args = st.es]] <= LeafCount[y]
           /\ ~st.trans => [y EXCEPT !.args = st.es] = y
           /\ st.trans => LeafCount[expr_eliminate_yn[[y EXCEPT !.args = st.es]]]
                            < LeafCount[[y EXCEPT !.args = st.es]]
<1> DEFINE x == [y EXCEPT !.args = st.es]
<1>1. x = [op |-> y.op, args |-> st.es] /\ x \in Branches
  BY PassTree
<1>2. y = [op |-> y.op, args |-> y.args] /\ y.op \in AndOr
  BY ExprParts DEF Branches
<1>3. x.op = y.op /\ x.args = st.es
  BY <1>1
<1> HIDE DEF x
<1>4. LeafCount[x] = Total(st.es)
  BY <1>1, <1>2, <1>3, Counts DEF Branches
<1>5. ~st.trans => x = y
  BY <1>1, <1>2 DEF Shrunk
<1>6. st.trans => LeafCount[expr_eliminate_yn[x]] < LeafCount[x]
  BY <1>1, <1>2, <1>3, MarkShrinks DEF Shrunk, Branches
<1> QED BY <1>1, <1>4, <1>5, <1>6 DEF Shrunk, x

(* A pass over what is inside an operand.                                  *)
LEMMA ShrunkInside ==
    ASSUME NEW V \in SUBSET Values, NEW e \in Branches, NEW st, PassState(V, e, st), Shrunk(e, st),
           NEW i \in DOMAIN e.args, st.es[i].op \in AndOr,
           NEW inner, PassState(V, st.es[i], inner), Shrunk(st.es[i], inner)
    PROVE  Shrunk(e, Inside(st, i, inner))
<1> DEFINE y == st.es[i]
           x == [y EXCEPT !.args = inner.es]
           fs == [st.es EXCEPT ![i] = x]
           b == (st.trans \/ inner.trans)
<1>1. /\ DOMAIN e.args = 1..Len(e.args) /\ DOMAIN st.es = DOMAIN e.args
      /\ y \in Exprs
  BY PassParts
<1>2. y \in Branches
  BY <1>1 DEF Branches
<1>3. /\ x \in Branches
      /\ LeafCount[x] <= LeafCount[y]
      /\ ~inner.trans => x = y
      /\ inner.trans => LeafCount[expr_eliminate_yn[x]] < LeafCount[x]
  BY <1>2, ShrunkTree
<1>4. Inside(st, i, inner) = [es |-> fs, trans |-> b]
  BY <1>1 DEF Inside
<1>5. st.es \in Seq(Exprs) /\ Len(st.es) = Len(e.args) /\ i \in 1..Len(st.es)
  BY <1>1 DEF PassState
<1>6. x \in Exprs
  BY <1>3 DEF Branches
<1> HIDE DEF x
<1>7. Total(fs) <= Total(st.es)
  BY <1>3, <1>5, <1>6, OneReplaced
<1>8. fs \in Seq(Exprs) /\ Len(fs) = Len(st.es) /\ fs[i] = x
  BY <1>5, <1>6
<1>9. ~inner.trans => fs = st.es
  <2> SUFFICES ASSUME ~inner.trans PROVE fs = st.es
    OBVIOUS
  <2>1. fs = [st.es EXCEPT ![i] = st.es[i]]
    BY <1>3
  <2> HIDE DEF fs
  <2> QED BY <2>1, <1>5
<1> HIDE DEF fs, y
<1>10. Total(fs) <= LeafCount[e]
  <2>1. Total(fs) \in Nat /\ Total(st.es) \in Nat /\ LeafCount[e] \in Nat
    BY <1>5, <1>8, Totals, Counts DEF Branches
  <2>2. Total(st.es) <= LeafCount[e]
    BY DEF Shrunk
  <2> QED BY <1>7, <2>1, <2>2
<1>11. CASE inner.trans
  <2>1. MarkAt(e.op, fs, i)
    BY <1>3, <1>8, <1>11 DEF MarkAt
  <2>2. i \in 1..Len(fs)
    BY <1>5, <1>8
  <2>3. Marked(e.op, fs)
    BY <2>1, <2>2 DEF Marked
  <2>4. b
    BY <1>11
  <2>5. [es |-> fs, trans |-> b].es = fs /\ [es |-> fs, trans |-> b].trans
    BY <2>4, Zenon
  <2> QED BY <1>4, <1>10, <2>3, <2>5, Zenon DEF Shrunk
<1>12. CASE ~inner.trans
  <2>1. fs = st.es /\ (b <=> st.trans)
    BY <1>9, <1>12, Zenon
  <2>2. [es |-> fs, trans |-> b].es = st.es /\ ([es |-> fs, trans |-> b].trans <=> st.trans)
    BY <2>1, Zenon
  <2> QED BY <1>4, <1>10, <2>1, <2>2, Zenon DEF Shrunk
<1> QED BY <1>11, <1>12

(* Two operands that are joined.                                           *)
LEMMA ShrunkJoin ==
    ASSUME NEW V, NEW e \in Branches, NEW st, PassState(V, e, st), Shrunk(e, st),
           NEW i \in DOMAIN e.args, NEW j \in DOMAIN e.args, i # j,
           Join(e.op, st.es[i], st.es[j]) # Null, Join(e.op, st.es[i], st.es[j]) \in Exprs
    PROVE  Shrunk(e, JoinedAt(e.op, st, i, j, Join(e.op, st.es[i], st.es[j])))
<1> DEFINE x == Join(e.op, st.es[i], st.es[j])
           fs == [st.es EXCEPT ![i] = Neutral(e.op), ![j] = x]
<1>1. /\ DOMAIN e.args = 1..Len(e.args) /\ DOMAIN st.es = DOMAIN e.args /\ e.op \in AndOr
      /\ st.es[i] \in Exprs /\ st.es[j] \in Exprs /\ e \in Exprs
  BY PassParts
<1>2. st.es \in Seq(Exprs) /\ Len(st.es) = Len(e.args) /\ i \in 1..Len(st.es) /\ j \in 1..Len(st.es)
  BY <1>1 DEF PassState
<1>3. Neutral(e.op) \in Exprs /\ LeafCount[Neutral(e.op)] = 1
  <2>1. Neutral(e.op) \in Exprs /\ Neutral(e.op).op \notin AndOr
    BY <1>1, NeutralAtoms DEF AndOr
  <2> QED BY <2>1, Counts
<1>4. x = st.es[i] \/ x.op \notin AndOr
  BY <1>1, JoinedTo
<1>5. JoinedAt(e.op, st, i, j, x) = [es |-> fs, trans |-> TRUE]
  BY Zenon DEF JoinedAt
<1> HIDE DEF x
<1>6. x \in Exprs
  BY DEF x
<1>7. LeafCount[Neutral(e.op)] + LeafCount[x] <= LeafCount[st.es[i]] + LeafCount[st.es[j]]
  <2>1. /\ LeafCount[st.es[i]] \in Nat /\ LeafCount[st.es[i]] >= 1
        /\ LeafCount[st.es[j]] \in Nat /\ LeafCount[st.es[j]] >= 1
    BY <1>1, Counts
  <2>2. CASE x = st.es[i]
    BY <1>3, <2>1, <2>2
  <2>3. CASE x.op \notin AndOr
    <3>1. LeafCount[x] = 1
      BY <1>6, <2>3, Counts
    <3> QED BY <1>3, <2>1, <3>1
  <2> QED BY <1>4, <2>2, <2>3
<1>8. Total(fs) <= Total(st.es)
  BY <1>2, <1>3, <1>6, <1>7, TwoReplaced
<1>9. fs \in Seq(Exprs) /\ Len(fs) = Len(st.es) /\ fs[i] = Neutral(e.op)
  BY <1>2, <1>3, <1>6
<1> HIDE DEF fs
<1>10. Total(fs) <= LeafCount[e]
  <2>1. Total(fs) \in Nat /\ Total(st.es) \in Nat /\ LeafCount[e] \in Nat
    BY <1>1, <1>2, <1>9, Totals, Counts
  <2>2. Total(st.es) <= LeafCount[e]
    BY DEF Shrunk
  <2> QED BY <1>8, <2>1, <2>2
<1>11. Marked(e.op, fs)
  <2>1. MarkAt(e.op, fs, i) /\ i \in 1..Len(fs)
    BY <1>2, <1>9 DEF MarkAt
  <2> QED BY <2>1 DEF Marked
<1>12. [es |-> fs, trans |-> TRUE].es = fs /\ [es |-> fs, trans |-> TRUE].trans
  OBVIOUS
<1>13. Shrunk(e, [es |-> fs, trans |-> TRUE])
  BY <1>10, <1>11, <1>12, Zenon DEF Shrunk
<1> QED BY <1>5, <1>13, Zenon DEF x

(* An operand that is dropped as the opposite of others.                   *)
LEMMA ShrunkOpposed ==
    ASSUME NEW V, NEW e \in Branches, NEW st, PassState(V, e, st), Shrunk(e, st), NEW i \in DOMAIN e.args
    PROVE  Shrunk(e, IfOpposed(e.op, st, i))
<1> DEFINE fs == [st.es EXCEPT ![i] = Absorbing(e.op)]
<1>1. /\ DOMAIN e.args = 1..Len(e.args) /\ DOMAIN st.es = DOMAIN e.args /\ e.op \in AndOr
      /\ st.es[i] \in Exprs /\ e \in Exprs
  BY PassParts
<1>2. st.es \in Seq(Exprs) /\ Len(st.es) = Len(e.args) /\ i \in 1..Len(st.es)
  BY <1>1 DEF PassState
<1>3. Absorbing(e.op) \in Exprs /\ LeafCount[Absorbing(e.op)] <= LeafCount[st.es[i]]
  <2>1. Absorbing(e.op) \in Exprs /\ Absorbing(e.op).op \notin AndOr
    BY <1>1, NeutralAtoms DEF AndOr
  <2>2. LeafCount[Absorbing(e.op)] = 1
    BY <2>1, Counts
  <2>3. LeafCount[st.es[i]] \in Nat /\ LeafCount[st.es[i]] >= 1
    BY <1>1, Counts
  <2> QED BY <2>1, <2>2, <2>3
<1>4. Total(fs) <= Total(st.es)
  BY <1>2, <1>3, OneReplaced
<1>5. fs \in Seq(Exprs) /\ Len(fs) = Len(st.es) /\ fs[i] = Absorbing(e.op)
  BY <1>2, <1>3
<1>6. IfOpposed(e.op, st, i) = st \/ IfOpposed(e.op, st, i) = [es |-> fs, trans |-> TRUE]
  BY Zenon DEF IfOpposed
<1> HIDE DEF fs
<1>7. Total(fs) <= LeafCount[e]
  <2>1. Total(fs) \in Nat /\ Total(st.es) \in Nat /\ LeafCount[e] \in Nat
    BY <1>1, <1>2, <1>5, Totals, Counts
  <2>2. Total(st.es) <= LeafCount[e]
    BY DEF Shrunk
  <2> QED BY <1>4, <2>1, <2>2
<1>8. Marked(e.op, fs)
  <2>1. MarkAt(e.op, fs, i) /\ i \in 1..Len(fs)
    BY <1>2, <1>5 DEF MarkAt
  <2> QED BY <2>1 DEF Marked
<1>9. [es |-> fs, trans |-> TRUE].es = fs /\ [es |-> fs, trans |-> TRUE].trans
  OBVIOUS
<1>10. Shrunk(e, [es |-> fs, trans |-> TRUE])
  BY <1>7, <1>8, <1>9, Zenon DEF Shrunk
<1> QED BY <1>6, <1>10, Zenon

(* One pair of operands in expr_eliminate_dups1.                           *)
LEMMA Dups1Shrinks ==
    ASSUME NEW e \in Branches, NEW f,
           \A y \in Branches : rk(y) < rk(e) => PassState(Assignments, y, f[y]) /\ Shrunk(y, f[y]),
           NEW st, PassState(Assignments, e, st), Shrunk(e, st),
           NEW p, p[1] \in DOMAIN e.args, p[2] \in DOMAIN e.args
    PROVE  Shrunk(e, Dups1At([op |-> e.op, dups1 |-> f], st, p))
<1> DEFINE c == [op |-> e.op, dups1 |-> f]
           i == p[1]
           j == p[2]
           in == InnerDups1(f, st, i)
<1>1. c.op = e.op /\ c.dups1 = f
  OBVIOUS
<1>2. PassState(Assignments, e, in) /\ Shrunk(e, in)
  <2>1. CASE st.es[i].op \in AndOr
    <3>1. st.es[i] \in Exprs /\ rk(st.es[i]) < rk(e)
      BY PassParts
    <3>2. st.es[i] \in Branches
      BY <2>1, <3>1 DEF Branches
    <3>3. PassState(Assignments, st.es[i], f[st.es[i]]) /\ Shrunk(st.es[i], f[st.es[i]])
      BY <3>1, <3>2
    <3>4. PassState(Assignments, e, Inside(st, i, f[st.es[i]]))
      BY <2>1, <3>3, AssignmentValues, PassInside
    <3>5. Shrunk(e, Inside(st, i, f[st.es[i]]))
      BY <2>1, <3>3, AssignmentValues, ShrunkInside
    <3> QED BY <2>1, <3>4, <3>5, Zenon DEF InnerDups1
  <2>2. CASE st.es[i].op \notin AndOr
    BY <2>2, Zenon DEF InnerDups1
  <2> QED BY <2>1, <2>2
<1> HIDE DEF c, in
<1>3. Shrunk(e, Dups1At(c, st, p))
  <2>1. CASE i = j
    <3>1. Dups1At(c, st, p) = st
      BY <2>1, Zenon DEF Dups1At
    <3> QED BY <3>1
  <2>2. CASE i # j
    <3> DEFINE x == Join(e.op, in.es[i], in.es[j])
    <3>1. Dups1At(c, st, p) = JoinedAt(e.op, in, i, j, x)
      BY <1>1, <2>2, Zenon DEF Dups1At, TryJoin, in
    <3>2. CASE x = Null
      <4>1. Dups1At(c, st, p) = in
        BY <3>1, <3>2, Zenon DEF JoinedAt
      <4> QED BY <1>2, <4>1
    <3>3. CASE x # Null
      <4>1. /\ in.es[i] \in Exprs /\ in.es[j] \in Exprs
            /\ in.es[i].op # e.op /\ in.es[j].op # e.op /\ e.op \in AndOr
        BY <1>2, PassParts DEF PassState
      <4>2. Joins(e.op, in.es[i], in.es[j], x)
        BY <3>3, <4>1, Joining
      <4>3. x \in Exprs
        <5> HIDE DEF x
        <5> QED BY <4>1, <4>2, ExprsLevel DEF Joins
      <4>4. Shrunk(e, JoinedAt(e.op, in, i, j, x))
        BY <1>2, <2>2, <3>3, <4>3, ShrunkJoin
      <4> QED BY <3>1, <4>4
    <3> QED BY <3>2, <3>3
  <2> QED BY <2>1, <2>2
<1> QED BY <1>3 DEF c

(* One step of the recursion of expr_eliminate_dups1.                      *)
LEMMA Dups1Shrunk ==
    ASSUME NEW e \in Branches, NEW f,
           \A y \in Branches : rk(y) < rk(e) => PassState(Assignments, y, f[y]) /\ Shrunk(y, f[y])
    PROVE  Shrunk(e, Dups1Body(0, f, e))
<1> DEFINE c == [op |-> e.op, dups1 |-> f]
           base == Unchanged(e.args)
           ps == Pairs(Len(e.args), Len(e.args))
           S == {st \in Passed(Assignments, e) : Shrunk(e, st)}
<1>1. base \in S
  BY PassStart, ShrunkStart
<1>2. Len(e.args) \in Nat /\ DOMAIN e.args = 1..Len(e.args)
  BY ExprParts DEF Branches
<1>3. /\ Len(ps) \in Nat
      /\ \A k \in 1..Len(ps) : ps[k][1] \in DOMAIN e.args /\ ps[k][2] \in DOMAIN e.args
  BY <1>2, PairsIn
<1>4. ASSUME NEW k \in 1..Len(ps), NEW st \in S
      PROVE  Dups1At(c, st, ps[k]) \in S
  <2>1. st \in Passed(Assignments, e) /\ PassState(Assignments, e, st) /\ Shrunk(e, st)
    BY DEF Passed
  <2> HIDE DEF ps
  <2>2. \A y \in Branches : rk(y) < rk(e) => f[y] = f[y] /\ PassState(Assignments, y, f[y])
    OBVIOUS
  <2>3. Dups1At(c, st, ps[k]) \in Passed(Assignments, e)
    BY <1>3, <2>1, <2>2, Dups1Step
  <2>4. Shrunk(e, Dups1At(c, st, ps[k]))
    BY <1>3, <2>1, Dups1Shrinks
  <2> QED BY <2>3, <2>4
<1> HIDE DEF c, base, ps, S
<1>5. Dups1Rec!LastState(c, base, ps, Len(ps)) \in S
  BY <1>1, <1>3, <1>4, Dups1Rec!Folded
<1>6. Dups1Body(0, f, e) = Dups1Rec!LastState(c, base, ps, Len(ps))
  BY DEF Dups1Body, Fold, Dups1Rec!LastState, c, base, ps
<1> QED BY <1>5, <1>6 DEF S

(* expr_eliminate_dups1 adds no leaf to a tree, and leaves one for         *)
(* expr_eliminate_yn to take if it changes the tree.                       *)
LEMMA ShrunkDups1 == \A e \in Branches : Shrunk(e, expr_eliminate_dups1[e])
<1> DEFINE Bad == {rk(e) : e \in {e \in Branches : ~Shrunk(e, expr_eliminate_dups1[e])}}
<1>1. Bad = {}
  <2> SUFFICES ASSUME Bad # {} PROVE FALSE
    OBVIOUS
  <2>1. Bad \in SUBSET Nat
    BY ExprParts DEF Branches
  <2>2. PICK r \in Bad : \A q \in Bad : r <= q
    <3> HIDE DEF Bad
    <3> QED BY <2>1, NatLeast
  <2>3. PICK e \in Branches : ~Shrunk(e, expr_eliminate_dups1[e]) /\ r = rk(e)
    BY <2>2
  <2>4. ASSUME NEW y \in Branches, rk(y) < rk(e)
        PROVE  PassState(Assignments, y, expr_eliminate_dups1[y]) /\ Shrunk(y, expr_eliminate_dups1[y])
    <3>1. rk(y) \in Nat /\ rk(e) \in Nat
      BY ExprParts DEF Branches
    <3>2. ~Shrunk(y, expr_eliminate_dups1[y]) => rk(y) \in Bad
      OBVIOUS
    <3>3. Shrunk(y, expr_eliminate_dups1[y])
      <4> HIDE DEF Bad
      <4> QED BY <2>2, <2>3, <2>4, <3>1, <3>2
    <3> QED BY <3>3, Dups1Keeps
  <2>5. Shrunk(e, Dups1Body(0, expr_eliminate_dups1, e))
    BY <2>4, Dups1Shrunk
  <2> QED BY <2>3, <2>5, Dups1Keeps
<1> SUFFICES ASSUME NEW e \in Branches PROVE Shrunk(e, expr_eliminate_dups1[e])
  OBVIOUS
<1>2. ~Shrunk(e, expr_eliminate_dups1[e]) => rk(e) \in Bad
  OBVIOUS
<1> HIDE DEF Bad
<1> QED BY <1>1, <1>2

(* One operand in expr_eliminate_dups2.                                    *)
LEMMA Dups2Shrinks ==
    ASSUME NEW e \in Branches, NEW f,
           \A y \in Branches : rk(y) < rk(e) => Dups2State(y, f[y]) /\ Shrunk(y, f[y]),
           NEW st, PassState(TwoValued, e, st), Shrunk(e, st), NEW i \in DOMAIN e.args
    PROVE  Shrunk(e, Dups2At([op |-> e.op, dups2 |-> f], st, i))
<1> DEFINE c == [op |-> e.op, dups2 |-> f]
           y == st.es[i]
           in == Inside(st, i, f[y])
<1>1. c.op = e.op /\ c.dups2 = f
  OBVIOUS
<1> HIDE DEF c
<1>2. CASE y.op \notin AndOr
  <2>1. Dups2At(c, st, i) = st
    BY <1>2, Zenon DEF Dups2At
  <2> QED BY <2>1 DEF c
<1>3. CASE y.op \in AndOr
  <2>1. y \in Exprs /\ rk(y) < rk(e)
    BY PassParts
  <2>2. y \in Branches
    BY <1>3, <2>1 DEF Branches
  <2>3. PassState(TwoValued, y, f[y]) /\ Shrunk(y, f[y])
    BY <2>1, <2>2 DEF Dups2State
  <2>4. PassState(TwoValued, e, in)
    BY <1>3, <2>3, TwoValues, PassInside
  <2>5. Shrunk(e, in)
    BY <1>3, <2>3, TwoValues, ShrunkInside
  <2>6. Dups2At(c, st, i) = IfOpposed(e.op, in, i)
    BY <1>1, <1>3, Zenon DEF Dups2At
  <2> HIDE DEF in
  <2>7. Shrunk(e, IfOpposed(e.op, in, i))
    BY <2>4, <2>5, ShrunkOpposed
  <2> QED BY <2>6, <2>7 DEF c
<1> QED BY <1>2, <1>3

(* One step of the recursion of expr_eliminate_dups2.                      *)
LEMMA Dups2Shrunk ==
    ASSUME NEW e \in Branches, NEW f,
           \A y \in Branches : rk(y) < rk(e) => Dups2State(y, f[y]) /\ Shrunk(y, f[y])
    PROVE  Shrunk(e, Dups2Body(0, f, e))
<1> DEFINE c == [op |-> e.op, dups2 |-> f]
           base == Unchanged(e.args)
           ps == [i \in 1 .. Len(e.args) |-> i]
           S == {st \in Dups2States(e) : Shrunk(e, st)}
<1>1. base \in S
  <2>1. base \in Passed(TwoValued, e) /\ Shrunk(e, base)
    BY PassStart, ShrunkStart
  <2>2. base.es = e.args
    BY DEF Unchanged
  <2> HIDE DEF base
  <2> QED BY <2>1, <2>2 DEF Passed, Dups2States, Dups2State
<1>2. Len(e.args) \in Nat /\ DOMAIN e.args = 1..Len(e.args)
  BY ExprParts DEF Branches
<1>3. /\ Len(ps) \in Nat
      /\ \A k \in 1..Len(ps) : ps[k] \in DOMAIN e.args
  BY <1>2
<1>4. ASSUME NEW k \in 1..Len(ps), NEW st \in S
      PROVE  Dups2At(c, st, ps[k]) \in S
  <2>1. st \in Dups2States(e) /\ PassState(TwoValued, e, st) /\ Shrunk(e, st)
    BY DEF Dups2States, Dups2State
  <2> HIDE DEF ps
  <2>2. \A y \in Branches : rk(y) < rk(e) => f[y] = f[y] /\ Dups2State(y, f[y])
    OBVIOUS
  <2>3. Dups2At(c, st, ps[k]) \in Dups2States(e)
    BY <1>3, <2>1, <2>2, Dups2Step
  <2>4. Shrunk(e, Dups2At(c, st, ps[k]))
    BY <1>3, <2>1, Dups2Shrinks
  <2> QED BY <2>3, <2>4
<1> HIDE DEF c, base, ps, S
<1>5. Dups2Rec!LastState(c, base, ps, Len(ps)) \in S
  BY <1>1, <1>3, <1>4, Dups2Rec!Folded
<1>6. Dups2Body(0, f, e) = Dups2Rec!LastState(c, base, ps, Len(ps))
  BY DEF Dups2Body, Fold, Dups2Rec!LastState, c, base, ps
<1> QED BY <1>5, <1>6 DEF S

(* expr_eliminate_dups2 adds no leaf to a tree, and leaves one for         *)
(* expr_eliminate_yn to take if it changes the tree.                       *)
LEMMA ShrunkDups2 == \A e \in Branches : Shrunk(e, expr_eliminate_dups2[e])
<1> DEFINE Bad == {rk(e) : e \in {e \in Branches : ~Shrunk(e, expr_eliminate_dups2[e])}}
<1>1. Bad = {}
  <2> SUFFICES ASSUME Bad # {} PROVE FALSE
    OBVIOUS
  <2>1. Bad \in SUBSET Nat
    BY ExprParts DEF Branches
  <2>2. PICK r \in Bad : \A q \in Bad : r <= q
    <3> HIDE DEF Bad
    <3> QED BY <2>1, NatLeast
  <2>3. PICK e \in Branches : ~Shrunk(e, expr_eliminate_dups2[e]) /\ r = rk(e)
    BY <2>2
  <2>4. ASSUME NEW y \in Branches, rk(y) < rk(e)
        PROVE  Dups2State(y, expr_eliminate_dups2[y]) /\ Shrunk(y, expr_eliminate_dups2[y])
    <3>1. rk(y) \in Nat /\ rk(e) \in Nat
      BY ExprParts DEF Branches
    <3>2. ~Shrunk(y, expr_eliminate_dups2[y]) => rk(y) \in Bad
      OBVIOUS
    <3>3. Shrunk(y, expr_eliminate_dups2[y])
      <4> HIDE DEF Bad
      <4> QED BY <2>2, <2>3, <2>4, <3>1, <3>2
    <3> QED BY <3>3, Dups2Keeps
  <2>5. Shrunk(e, Dups2Body(0, expr_eliminate_dups2, e))
    BY <2>4, Dups2Shrunk
  <2> QED BY <2>3, <2>5, Dups2Keeps
<1> SUFFICES ASSUME NEW e \in Branches PROVE Shrunk(e, expr_eliminate_dups2[e])
  OBVIOUS
<1>2. ~Shrunk(e, expr_eliminate_dups2[e]) => rk(e) \in Bad
  OBVIOUS
<1> HIDE DEF Bad
<1> QED BY <1>1, <1>2

(* A round of the loop of expr_eliminate_dups in which a pass changed      *)
(* operands leaves fewer leaves.                                           *)
LEMMA RoundShrinks ==
    ASSUME NEW e \in Branches, Passes(e)[1].trans \/ Passes(e)[2].trans
    PROVE  LeafCount[Rounded(e)] < LeafCount[e]
<1> DEFINE first == expr_eliminate_dups1[e]
           y == [e EXCEPT !.args = first.es]
           second == expr_eliminate_dups2[y]
           z == [y EXCEPT !.args = second.es]
<1>1. Passes(e)[1] = first /\ Passes(e)[2] = second /\ Rounded(e) = expr_eliminate_yn[[e EXCEPT !.args = second.es]]
  BY DEF Passes, Rounded
<1>2. PassState(Assignments, e, first) /\ Shrunk(e, first) /\ Assignments \in SUBSET Values
  BY Dups1Keeps, ShrunkDups1, AssignmentValues
<1> HIDE DEF first
<1>3. /\ y \in Branches
      /\ y = [op |-> e.op, args |-> first.es]
      /\ LeafCount[y] <= LeafCount[e]
      /\ ~first.trans => y = e
      /\ first.trans => LeafCount[expr_eliminate_yn[y]] < LeafCount[y]
  BY <1>2, ShrunkTree
<1>4. e = [op |-> e.op, args |-> e.args]
  BY ExprParts DEF Branches
<1>5. [e EXCEPT !.args = second.es] = z
  <2> DEFINE es == second.es
  <2> HIDE DEF second, y, es
  <2>1. [e EXCEPT !.args = es] = [op |-> e.op, args |-> es]
    BY <1>4
  <2>2. [y EXCEPT !.args = es] = [op |-> e.op, args |-> es]
    BY <1>3
  <2> QED BY <2>1, <2>2 DEF es
<1> HIDE DEF y
<1>6. PassState(TwoValued, y, second) /\ Shrunk(y, second) /\ TwoValued \in SUBSET Values
  BY <1>3, Dups2Keeps, ShrunkDups2, TwoValues DEF Dups2State
<1> HIDE DEF second
<1>7. /\ z \in Branches
      /\ LeafCount[z] <= LeafCount[y]
      /\ ~second.trans => z = y
      /\ second.trans => LeafCount[expr_eliminate_yn[z]] < LeafCount[z]
  BY <1>3, <1>6, ShrunkTree
<1> HIDE DEF z
<1>8. /\ LeafCount[e] \in Nat /\ LeafCount[y] \in Nat /\ LeafCount[z] \in Nat
      /\ LeafCount[expr_eliminate_yn[z]] \in Nat
  <2>1. e \in Exprs /\ y \in Exprs /\ z \in Exprs
    BY <1>3, <1>7 DEF Branches
  <2>2. expr_eliminate_yn[z] \in Exprs
    BY <2>1, YnKeeps, KeptExpr DEF KeptGood
  <2> QED BY <2>1, <2>2, Counts
<1>9. LeafCount[expr_eliminate_yn[z]] < LeafCount[z]
  <2>1. CASE second.trans
    BY <1>7, <2>1
  <2>2. CASE ~second.trans
    <3>1. first.trans /\ z = y
      BY <1>1, <1>7, <2>2
    <3> QED BY <1>3, <3>1
  <2> QED BY <2>1, <2>2
<1> QED BY <1>1, <1>3, <1>5, <1>7, <1>8, <1>9

(* The loop of expr_eliminate_dups goes round again only with fewer leaves *)
(* than before, for every condition: as a condition has at least one, the  *)
(* loop ends.                                                              *)
THEOREM LoopProgress == Spec => LoopShrinks
<1>1. IInv /\ [Next]_vars => [pc = "dups" /\ pc' = "dups" => LeafCount[cond'] < LeafCount[cond]]_vars
  <2> SUFFICES ASSUME IInv, Next, pc = "dups", pc' = "dups"
               PROVE  LeafCount[cond'] < LeafCount[cond] \/ UNCHANGED vars
    OBVIOUS
  <2>1. CASE Again
    <3>1. cond.op \in AndOr /\ cond' = Rounded(cond) /\ (Passes(cond)[1].trans \/ Passes(cond)[2].trans)
      BY <2>1 DEF Again, Rounded
    <3>2. cond \in Conds
      BY InvParts
    <3>3. cond \in Branches
      BY <3>1, <3>2 DEF Branches, Conds, Null, AndOr
    <3> QED BY <3>1, <3>3, RoundShrinks
  <2>2. CASE ~Again
    BY <2>2 DEF Next, Transform, Finish, NextCondition, CompareFirst, CompareSecond,
                NoSubmenu, Submenu, Decide, End, Stop
  <2> QED BY <2>1, <2>2
<1>2. Spec => [][Next]_vars
  BY DEF Spec
<1> QED BY <1>1, <1>2, Invariant, PTL DEF LoopShrinks
=============================================================================
