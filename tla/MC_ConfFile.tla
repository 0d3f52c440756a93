---------------------------- MODULE MC_ConfFile ----------------------------
(***************************************************************************)
(* Instances of ConfFile: symbol a is always written, b only when a is set *)
(* (b depends on a), and a has two menu entries.                           *)
(***************************************************************************)
EXTENDS ConfFile

CONSTANTS p1, p2, a, b

MC_Written == [u \in [Sym -> Val] |-> IF u[a] = 1 THEN {a, b} ELSE {a}]
MC_Needs == [s \in Sym |-> IF s = b THEN {a} ELSE {}]
MC_MenuOrder == <<a, b, a>>
MC_NoDefconfig == Missing
MC_Defconfig == [exists |-> TRUE, lines |-> <<[sym |-> b, val |-> 1], [sym |-> a, val |-> 1]>>]
=============================================================================
