------------------------------ MODULE SymCalc ------------------------------
(***************************************************************************)
(* The memoised evaluation of sym_calc_value (kconfig/symbol.c), step by   *)
(* step on the call stack: a symbol is flagged SYMBOL_VALID when its       *)
(* calculation begins, not when it ends; it reads the symbols its          *)
(* visibility and dependencies name, then those of its default, and each   *)
(* read calls sym_calc_value first.  modules_val is a copy of the value of *)
(* the modules symbol that is read without a call.  SIGINT may interrupt a *)
(* calculation for good: its handler (kconfig/mconf.c) saves, for which it *)
(* calculates, and exits.                                                  *)
(*                                                                         *)
(* What a symbol makes of the values it reads is the constant Value; the   *)
(* module Symbols has the real one, and choices.                           *)
(***************************************************************************)
EXTENDS Integers, Sequences

CONSTANTS
    Sym, Val,
    Type,            \* the values each symbol may be set to
    Default,         \* the value of a symbol that is being calculated
    Unset,           \* the user value of a symbol the user has not set
    Modules,         \* the modules symbol
    VisDeps,         \* symbols read by sym_calc_visibility
    ValDeps,         \* symbols read after it
    Looks,           \* symbols whose calculation looks at modules_val
    Value(_, _, _),  \* of a symbol, for its user value and what it reads
    MaxDepth         \* how deep calculations are nested

Deps(s) == VisDeps[s] \cup ValDeps[s] \cup (IF s \in Looks THEN {Modules} ELSE {})
UserVal == Val \cup {Unset}
UserValues == {u \in [Sym -> UserVal] : \A s \in Sym : u[s] \in Type[s] \cup {Unset}}
Values == [Sym -> Val]

ASSUME ConstantsAssumption ==
    /\ Type \in [Sym -> SUBSET Val]
    /\ Default \in Val
    /\ Modules \in Sym
    /\ VisDeps \in [Sym -> SUBSET Sym]
    /\ ValDeps \in [Sym -> SUBSET Sym]
    /\ Looks \subseteq Sym
    /\ MaxDepth \in Nat
    /\ \A s \in Sym, u \in UserVal, r \in Values : Value(s, u, r) \in Val

(* Symbols that depend on no others, and none of them on itself, be it     *)
(* indirectly.  A tree with such a symbol is only warned of.               *)
Grounded(U) ==
    /\ \A s \in U : Deps(s) \subseteq U
    /\ \A W \in SUBSET U : W # {} => \E s \in W : Deps(s) \cap W = {}
GroundedSets == {U \in SUBSET Sym : Grounded(U)}

(* A value is made of nothing but the values of what it depends on.        *)
Local ==
    \A s \in Sym, u \in UserVal, r, q \in Values :
        (\A d \in Deps(s) : r[d] = q[d]) => Value(s, u, r) = Value(s, u, q)

VARIABLES
    user,         \* def[S_DEF_USER] of each symbol
    curr,         \* curr of each symbol
    valid,        \* symbols flagged SYMBOL_VALID
    modules_val,
    stack,        \* the calculations that have begun, the innermost last
    handling,     \* the handler of SIGINT runs
    interrupted   \* symbols whose calculation it interrupted

(* History: valid symbols that were set to the value they had.             *)
VARIABLE confirmed

signal == <<handling, interrupted>>
vars == <<user, curr, valid, modules_val, stack, signal, confirmed>>

(* A calculation: of which symbol, where it is, which symbols it has read, *)
(* and the values it got.                                                  *)
Frame == [sym : Sym, phase : {"visibility", "value"}, done : SUBSET Sym, read : Values]
NewFrame(s) ==
    [sym |-> s, phase |-> "visibility", done |-> {}, read |-> [d \in Sym |-> Default]]
Having(f, d, val) == [f EXCEPT !.done = @ \cup {d}, !.read = [@ EXCEPT ![d] = val]]

Top == stack[Len(stack)]
OnStack == {stack[i].sym : i \in 1..Len(stack)}
Settled == valid \ (OnStack \cup interrupted)

(* Variant: the symbol is not flagged.                                     *)
EnterUnflagged(s, others) ==
    /\ valid' = others
    /\ stack' = Append(stack, NewFrame(s))

(* sym_calc_value on a symbol that is not valid, when others are: flag it, *)
(* and go on to its visibility.                                            *)
Enter(s, others) ==
    /\ valid' = others \cup {s}
    /\ stack' = Append(stack, NewFrame(s))

(* Variant: what was valid stays valid.                                    *)
ClearAllValidKeep ==
    /\ confirmed' = {}
    /\ Enter(Modules, valid)

(* The end of conf_read_simple and of sym_clear_all_valid: nothing is      *)
(* valid, and the modules symbol is calculated.                            *)
ClearAllValid ==
    /\ confirmed' = {}
    /\ Enter(Modules, {})

(* A configuration has just been read.                                     *)
Init ==
    /\ user \in UserValues
    /\ curr = [s \in Sym |-> Default]
    /\ valid = {Modules}
    /\ modules_val = Default
    /\ stack = <<NewFrame(Modules)>>
    /\ handling = FALSE
    /\ interrupted = {}
    /\ confirmed = {}

(* Another part of the program wants the value of s: an interface, a save, *)
(* or the save of the handler.                                             *)
Call(s) ==
    /\ stack = << >>
    /\ s \notin valid
    /\ Enter(s, valid)
    /\ UNCHANGED <<user, curr, modules_val, signal, confirmed>>

(* SIGINT.  The calculations on the stack will never be taken up again; the*)
(* save of the handler makes nothing invalid, for there are changes.       *)
Interrupt ==
    /\ ~handling
    /\ handling' = TRUE
    /\ interrupted' = OnStack
    /\ stack' = << >>
    /\ UNCHANGED <<user, curr, valid, modules_val, confirmed>>

Wants(d) ==
    /\ stack # << >>
    /\ d \notin Top.done
    /\ d \in IF Top.phase = "visibility" THEN VisDeps[Top.sym] ELSE ValDeps[Top.sym]

(* The innermost calculation needs d, whose calculation comes first.       *)
CallDep(d) ==
    /\ Wants(d)
    /\ d \notin valid
    /\ Len(stack) < MaxDepth
    /\ Enter(d, valid)
    /\ UNCHANGED <<user, curr, modules_val, signal, confirmed>>

(* The innermost calculation reads d, which is valid: calculated before,   *)
(* or its calculation has begun.                                           *)
Read(d, val) ==
    /\ stack' = [stack EXCEPT ![Len(stack)] = Having(@, d, val)]
    /\ UNCHANGED <<user, curr, valid, modules_val, signal, confirmed>>

ReadDep(d) == Wants(d) /\ d \in valid /\ Read(d, curr[d])

(* sym_get_type and sym_calc_visibility look at modules_val.               *)
ReadModules ==
    /\ stack # << >>
    /\ Top.sym \in Looks
    /\ Modules \notin Top.done
    /\ Read(Modules, modules_val)

(* The visibility is known: curr is the default from here, in case the     *)
(* symbol is read while it is still being calculated.                      *)
VisibilityDone ==
    /\ stack # << >>
    /\ Top.phase = "visibility"
    /\ VisDeps[Top.sym] \subseteq Top.done
    /\ stack' = [stack EXCEPT ![Len(stack)] = [@ EXCEPT !.phase = "value"]]
    /\ curr' = [curr EXCEPT ![Top.sym] = Default]
    /\ UNCHANGED <<user, valid, modules_val, signal, confirmed>>

(* Whatever the symbols are worth that a calculation has not read, its     *)
(* symbol has the value val.                                               *)
Determined(f, val) ==
    \A r \in Values :
        (\A d \in f.done : r[d] = f.read[d]) => Value(f.sym, user[f.sym], r) = val

(* The value is known, perhaps before every default was looked at.  The    *)
(* calculation that called this one reads it and goes on.                  *)
Return ==
    /\ stack # << >>
    /\ Top.phase = "value"
    /\ \E val \in Val :
          /\ Determined(Top, val)
          /\ curr' = [curr EXCEPT ![Top.sym] = val]
          /\ modules_val' = IF Top.sym = Modules THEN val ELSE modules_val
          /\ LET callers == SubSeq(stack, 1, Len(stack) - 1) IN
             stack' = IF Len(stack) = 1 THEN << >>
                      ELSE [callers EXCEPT ![Len(stack) - 1] = Having(@, Top.sym, val)]
    /\ UNCHANGED <<user, valid, signal, confirmed>>

(* sym_set_tristate_value: a value that is not the current one makes all   *)
(* others invalid; the current one is stored, and that is all.             *)
Set(s, val) ==
    /\ stack = << >>
    /\ ~handling
    /\ user' = [user EXCEPT ![s] = val]
    /\ IF curr[s] = val
       THEN /\ confirmed' = confirmed \cup ({s} \cap valid)
            /\ UNCHANGED <<valid, stack>>
       ELSE ClearAllValid
    /\ UNCHANGED <<curr, modules_val, signal>>

(* conf_read_simple replaces all user values.                              *)
Load ==
    /\ stack = << >>
    /\ ~handling
    /\ user' \in UserValues
    /\ ClearAllValid
    /\ UNCHANGED <<curr, modules_val, signal>>

Calculate ==
    \/ \E d \in Sym : CallDep(d) \/ ReadDep(d)
    \/ ReadModules
    \/ VisibilityDone
    \/ Return
Next ==
    \/ Calculate
    \/ Load
    \/ Interrupt
    \/ \E s \in Sym : Call(s) \/ \E val \in Type[s] : Set(s, val)

Spec == Init /\ [][Next]_vars
(* The program is sequential: a calculation that has begun goes on.        *)
FairSpec == Spec /\ WF_vars(Calculate)

-----------------------------------------------------------------------------
TypeOK ==
    /\ user \in UserValues
    /\ curr \in Values
    /\ valid \in SUBSET Sym
    /\ modules_val \in Val
    /\ stack \in Seq(Frame)
    /\ handling \in BOOLEAN
    /\ interrupted \in SUBSET Sym
    /\ confirmed \in SUBSET Sym

(* What the symbols of U are worth together: each has the value that it    *)
(* makes of its user value and of the others, or was confirmed to have.    *)
Solves(U, val) ==
    \A s \in U : val[s] = IF s \in confirmed THEN user[s] ELSE Value(s, user[s], val)

(* A valid symbol has the value a calculation without any memory would give*)
(* it, in whatever order symbols were asked for, set, and loaded, in what  *)
(* the handler of SIGINT saves too, unless it depends on a symbol that     *)
(* depends on itself or whose calculation was interrupted.                 *)
Coherent ==
    \A U \in GroundedSets :
        U \cap interrupted = {} =>
            \A val \in Values : Solves(U, val) => \A s \in Settled \cap U : curr[s] = val[s]

(* Every call of sym_calc_value returns, also where symbols depend on      *)
(* themselves.                                                             *)
CallsReturn == stack # << >> ~> stack = << >>
=============================================================================
