---------------------------- MODULE MC_ConfAsk ----------------------------
(* A menu tree for ConfAsk over the symbols of AskKconfig: MODULES, A and a*)
(* menu with D and the choice.  A comment that needs A is below D, which is*)
(* set where its prompt is not visible.                                    *)
EXTENDS ConfAsk, KconfigTrees

Entry(kind, sym, prompt, list, parent) ==
    [kind |-> kind, sym |-> sym, prompt |-> prompt, visibility |-> Y, list |-> list,
     parent |-> parent]
OfSym(s, list, parent) == Entry("symbol", s, Y, list, parent)

MC_Tree ==
    ("root" :> Entry("menu", None, Y, <<"MODULES", "A", "menu">>, None)) @@
    ("MODULES" :> OfSym("MODULES", << >>, "root")) @@
    ("A" :> OfSym("A", << >>, "root")) @@
    ("menu" :> Entry("menu", None, Y, <<"D", "CH">>, "root")) @@
    ("D" :> OfSym("D", <<"comment">>, "menu")) @@
    ("comment" :> Entry("comment", None, Is("A"), << >>, "D")) @@
    ("CH" :> OfSym("CH", <<"X", "Z">>, "menu")) @@
    ("X" :> OfSym("X", << >>, "CH")) @@
    ("Z" :> OfSym("Z", << >>, "CH"))

BothWays == {MenuOrder, Reverse(MenuOrder)}
NoneSet == {}
MC_Defconfigs == {None, <<("A" :> mod) @@ ("Z" :> yes)>>}
MC_Envs == {("A" :> yes) @@ ("Z" :> yes)}

(* Nothing; without A; two values of the choice; complete, with each of    *)
(* the values of the choice.                                               *)
MC_Files ==
    {<< >>,
     ("MODULES" :> yes) @@ ("A" :> mod) @@ ("X" :> yes) @@ ("Z" :> no) @@ ("D" :> yes),
     ("MODULES" :> yes) @@ ("X" :> yes),
     ("A" :> mod) @@ ("X" :> yes) @@ ("Z" :> yes),
     ("MODULES" :> no) @@ ("A" :> yes) @@ ("X" :> no) @@ ("Z" :> yes)}
=============================================================================
