--------------------------- MODULE UserInterface ---------------------------
(***************************************************************************)
(* The user interfaces together: the dialogs of mconf and nconf, and the   *)
(* lists in the window of qconf.  These are programs of their own, so that *)
(* a behaviour is one of the dialogs or one of the lists.                  *)
(***************************************************************************)
EXTENDS Dialogs

CONSTANTS K, Modules, None, Tree, rootmenu, MenuOrder, Files, Opts, Results, MaxSets

VARIABLES syms, menu_flags, lists, sets

qconfVars == <<syms, menu_flags, lists, sets>>

QL == INSTANCE ConfigLists

uiVars == <<dialogVars, qconfVars>>

InterfaceInit == dialog \in Kinds \cup {"qconf"} /\ Closed /\ QL!Init
InterfaceNext ==
    \/ DialogsNext /\ UNCHANGED qconfVars
    \/ dialog = "qconf" /\ QL!Next /\ UNCHANGED dialogVars
InterfaceSpec == InterfaceInit /\ [][InterfaceNext]_uiVars /\ NM!Fairness

(* The lists of qconf, which are changed item by item, are those that      *)
(* would be built from scratch.                                            *)
QconfListsTrue == dialog = "qconf" => QL!TypeOK /\ QL!ListsTrue
=============================================================================
