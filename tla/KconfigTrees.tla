---------------------------- MODULE KconfigTrees ----------------------------
(* Small Kconfig trees for Symbols.                                        *)
EXTENDS Symbols

Const(v) == [op |-> "const", val |-> v]
Is(s) == [op |-> "sym", sym |-> s]
And(a, b) == [op |-> "and", left |-> a, right |-> b]
Or(a, b) == [op |-> "or", left |-> a, right |-> b]
Not(a) == [op |-> "not", arg |-> a]
Y == Const(2)
M == Const(1)
N == Const(0)
Plain(t) == [type |-> t, prompts |-> <<Y>>, defaults |-> << >>, depends |-> Y,
             selected |-> N, members |-> << >>, choice |-> None]
Default(e, c) == [value |-> e, cond |-> c]

ModulesSym == "MODULES" :> [Plain("bool") EXCEPT !.defaults = <<Default(Y, Y)>>]

(* config A tristate
   config B tristate, depends on A, default y
   config C bool, select B
   config D bool, prompt only if !B, default y if A = B                    *)
SelectTree ==
  ModulesSym @@ ("A" :> Plain("tristate")) @@
  ("B" :> [Plain("tristate") EXCEPT
             !.prompts = <<Is("A")>>, !.depends = Is("A"),
             !.defaults = <<Default(Y, Is("A"))>>, !.selected = Is("C")]) @@
  ("C" :> Plain("bool")) @@
  ("D" :> [Plain("bool") EXCEPT
             !.prompts = <<Not(Is("B"))>>,
             !.defaults = <<Default(Y, [op |-> "eq", sym |-> "A", other |-> "B"])>>])
SelectOrder == <<"MODULES", "A", "B", "C", "D">>

(* config A tristate
   choice CH, default Z
     config X
     config Z, depends on A
   endchoice                                                               *)
ChoiceOf(type) ==
  ModulesSym @@ ("A" :> Plain("tristate")) @@
  ("CH" :> [Plain(type) EXCEPT !.members = <<"X", "Z">>, !.selected = M,
                               !.defaults = <<Default(Is("Z"), Y)>>]) @@
  ("X" :> [Plain(type) EXCEPT !.prompts = <<Is("CH")>>, !.choice = "CH"]) @@
  ("Z" :> [Plain(type) EXCEPT !.prompts = <<And(Is("A"), Is("CH"))>>, !.choice = "CH"])

(* config A tristate
   config D bool, prompt only if !Z, default y
   choice CH, default Z
     config X, depends on A
     config Z, depends on MODULES
   endchoice                                                               *)
AskKconfig ==
  [ChoiceOf("bool") EXCEPT !["X"].prompts = <<And(Is("A"), Is("CH"))>>,
                           !["Z"].prompts = <<And(Is("MODULES"), Is("CH"))>>] @@
  ("D" :> [Plain("bool") EXCEPT !.prompts = <<Not(Is("Z"))>>, !.defaults = <<Default(Y, Y)>>])
AskOrder == <<"MODULES", "A", "D", "CH", "X", "Z">>
=============================================================================
