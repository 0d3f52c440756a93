---------------------------- MODULE MC_Dialogs ----------------------------
(* Values of the constants of UserInterface for TLC.                       *)
EXTENDS UserInterface, TLC

(* First letters of the items of a list: two are shared by several items,  *)
(* one is also a command.                                                  *)
MC_Hot(i) == IF i % 3 = 0 THEN "d" ELSE IF i = 4 THEN "s" ELSE "q"

(* One page, a little more, several pages; narrow and wide.                *)
MC_Texts == [lines : {1, 3, 15, 33}, longest : {10, 100}]
MC_Screens == [lines : {20, 24}, columns : {80}]

(* A pattern of two characters is in the second of two equal items.        *)
MC_Menus ==
    {<< <<"a">>, <<"b">>, <<"a", "b">>, <<"c">>, <<"a", "b">> >>,
     << <<"a">>, <<"b">> >>,
     << <<"b", "a">> >>}

(* A menu tree for the lists of qconf:                                     *)
(*   config A tristate                                                     *)
(*     config B bool, depends on A (a submenu of A)                        *)
(*   menuconfig NET bool                                                   *)
(*     config C tristate, depends on NET, selects A                        *)
(*     config H bool, no prompt, default A                                 *)
(*   menu "sub"                                                            *)
(*     menu "deep", visible if !B                                          *)
(*       comment, depends on A                                             *)
KT == INSTANCE KconfigTrees WITH K <- << >>, Modules <- None
Plain(t) == KT!Plain(t)
Is(s) == KT!Is(s)
Entry(kind, sym, prompt, list, parent) ==
    [kind |-> kind, sym |-> sym, prompt |-> prompt, visibility |-> KT!Y, list |-> list,
     parent |-> parent]
OfSym(s, list, parent) == Entry("symbol", s, KT!Y, list, parent)

MC_K ==
    KT!ModulesSym @@
    ("A" :> [Plain("tristate") EXCEPT !.selected = Is("C")]) @@
    ("B" :> [Plain("bool") EXCEPT !.prompts = <<Is("A")>>, !.depends = Is("A")]) @@
    ("NET" :> Plain("bool")) @@
    ("C" :> [Plain("tristate") EXCEPT !.prompts = <<Is("NET")>>, !.depends = Is("NET")]) @@
    ("H" :> [Plain("bool") EXCEPT !.prompts = << >>, !.depends = Is("NET"),
                                  !.defaults = <<KT!Default(Is("A"), Is("NET"))>>])
MC_Order == <<"MODULES", "A", "B", "NET", "C", "H">>

MC_Tree ==
    ("root" :> Entry("menu", None, KT!Y, <<"modules", "a", "net", "sub">>, None)) @@
    ("modules" :> OfSym("MODULES", << >>, "root")) @@
    ("a" :> OfSym("A", <<"b">>, "root")) @@
    ("b" :> OfSym("B", << >>, "a")) @@
    ("net" :> Entry("menu", "NET", KT!Y, <<"c", "h">>, "root")) @@
    ("c" :> OfSym("C", << >>, "net")) @@
    ("h" :> OfSym("H", << >>, "net")) @@
    ("sub" :> Entry("menu", None, KT!Y, <<"deep">>, "root")) @@
    ("deep" :> [Entry("menu", None, KT!Y, <<"comment">>, "sub")
                  EXCEPT !.visibility = KT!Not(Is("B"))]) @@
    ("comment" :> Entry("comment", None, KT!And(Is("A"), KT!Not(Is("B"))), << >>, "deep"))

MC_Files == {("MODULES" :> 2) @@ ("A" :> 1) @@ ("NET" :> 2) @@ ("C" :> 2)}
MC_Results == {<<"c", "b", "net">>}
=============================================================================
