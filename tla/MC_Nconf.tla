----------------------------- MODULE MC_Nconf -----------------------------
(* Values of the constants of NconfMenu for TLC: one menu of two items.   *)
EXTENDS NconfMenu

MC_Menus == {<< <<"a">>, <<"b">> >>}
=============================================================================
