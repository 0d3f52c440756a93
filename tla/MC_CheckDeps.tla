---------------------------- MODULE MC_CheckDeps ----------------------------
(***************************************************************************)
(* An instance of CheckDeps: all trees with two symbols A and B and a      *)
(* choice CH with the values X and Z, in which the values depend on their  *)
(* choice, as menu_finalize leaves them, and nothing depends on Z but X    *)
(* and B.                                                                  *)
(***************************************************************************)
EXTENDS CheckDeps

MC_Choice == [s \in Sym |-> IF s \in {"X", "Z"} THEN "CH" ELSE None]
MC_Trees ==
    {d \in [Sym -> SUBSET Sym] :
        /\ d["A"] \subseteq {"A", "B", "CH", "X"}
        /\ d["B"] \subseteq {"A", "Z"}
        /\ d["CH"] \subseteq {"A", "X"}
        /\ "CH" \in d["X"] /\ d["X"] \subseteq {"CH", "A", "Z"}
        /\ "CH" \in d["Z"] /\ d["Z"] \subseteq {"CH", "B"}}
=============================================================================
