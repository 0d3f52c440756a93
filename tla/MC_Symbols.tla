---- MODULE MC_Symbols ----
(* Files and environments for SymbolSession. *)
EXTENDS SymbolSession, KconfigTrees

BothWays == {MenuOrder, Reverse(MenuOrder)}
NoEnv == {<< >>}
SelectEnv == NoEnv \cup {("A" :> yes) @@ ("B" :> mod) @@ ("D" :> yes)}

(* Any file whose values fit the types of the symbols.                     *)
AnyFile ==
  {f \in UNION {[S -> Tristate] : S \in SUBSET {s \in Sym : ~IsChoice(s)}} :
     \A s \in DOMAIN f : K[s].type = "bool" => f[s] # mod}
NoneOrFile == {None, <<("A" :> mod) @@ ("B" :> mod) @@ ("C" :> yes)>>}
FewFiles == {f \in AnyFile : DOMAIN f \subseteq {"MODULES", "A", "B"}}
====
