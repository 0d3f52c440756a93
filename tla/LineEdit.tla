------------------------------ MODULE LineEdit ------------------------------
(***************************************************************************)
(* What a one-line input field promises: a text and a position in it, and  *)
(* keys that insert and remove at the position.  The fields of mconf       *)
(* (InputBox) and of nconf (InputForm) implement this.                     *)
(***************************************************************************)
EXTENDS Integers, Sequences

CONSTANT Chars

VARIABLES editing, text, pos

editVars == <<editing, text, pos>>

Before(n) == SubSeq(text, 1, n)
After(n) == SubSeq(text, n + 1, Len(text))

(* The field is opened with some text, the cursor at its end, and closed   *)
(* without a change to the text.                                           *)
Start == ~editing /\ editing' /\ text' \in Seq(Chars) /\ pos' = Len(text')
Finish == editing /\ ~editing' /\ UNCHANGED <<text, pos>>

Edit(newText, newPos) == editing /\ text' = newText /\ pos' = newPos /\ UNCHANGED editing

Insert(c) == Edit(Before(pos) \o <<c>> \o After(pos), pos + 1)
Backspace == pos > 0 /\ Edit(Before(pos - 1) \o After(pos), pos - 1)
Delete == pos < Len(text) /\ Edit(Before(pos) \o After(pos + 1), pos)
Move == \E n \in {pos - 1, pos + 1, 0, Len(text)} \cap 0..Len(text) : Edit(text, n)

Init == ~editing /\ text = << >> /\ pos = 0
Next == Start \/ Finish \/ (\E c \in Chars : Insert(c)) \/ Backspace \/ Delete \/ Move
Spec == Init /\ [][Next]_editVars
=============================================================================
