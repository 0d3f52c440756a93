---- MODULE MC_SymCalc ----
(***************************************************************************)
(* An instance of SymCalc.  MODULES; A, tristate; B, tristate, depends on  *)
(* A, default y if A is not n, so that it may be y where the user could    *)
(* only have m; D and E, bool without prompt, each the default of the      *)
(* other, D only while B is not n.                                         *)
(***************************************************************************)
EXTENDS SymCalc

Least(a, b) == IF a < b THEN a ELSE b

MC_Type == [s \in Sym |-> CASE s = "A" -> Val [] s = "B" -> {1, 2}
                              [] s = "MODULES" -> {0, 2} [] OTHER -> {}]
MC_VisDeps == [s \in Sym |-> CASE s = "B" -> {"A"} [] s = "D" -> {"B"} [] OTHER -> {}]
MC_ValDeps == [s \in Sym |-> CASE s = "B" -> {"A"} [] s = "D" -> {"E"}
                                 [] s = "E" -> {"D"} [] OTHER -> {}]

MC_Value(s, u, r) ==
    LET bool(v) == IF v = 1 THEN 2 ELSE v
        tri(v) == IF r["MODULES"] = 0 THEN bool(v) ELSE v
    IN  CASE s = "MODULES" -> IF u = Unset THEN 2 ELSE bool(u)
          [] s = "A" -> IF u = Unset THEN 0 ELSE tri(u)
          [] s = "B" -> IF r["A"] = 0 THEN 0
                        ELSE IF u = Unset THEN 2 ELSE tri(Least(u, tri(r["A"])))
          [] s = "D" -> IF r["B"] = 0 THEN 0 ELSE r["E"]
          [] OTHER -> 2 - bool(r["D"])

ASSUME Instance ==
    /\ {"MODULES", "A", "B"} \in GroundedSets
    /\ \A U \in GroundedSets : {"D", "E"} \cap U = {}
    /\ Local
====
