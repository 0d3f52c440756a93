----------------------------- MODULE InputForm -----------------------------
(***************************************************************************)
(* dialog_inputbox of kconfig/nconf.gui.c, the input field of nconf.  The  *)
(* buffer of the text grows when it must; result_len is its size.  The     *)
(* field is drawn anew after every key, prompt_width characters from       *)
(* cursor_position - cursor_form_win on.                                   *)
(***************************************************************************)
EXTENDS Integers, Sequences

CONSTANTS Chars, prompt_width, MaxText   \* MaxText bounds the text

VARIABLES editing, result, result_len, cursor_position, cursor_form_win

formVars == <<editing, result, result_len, cursor_position, cursor_form_win>>

min(a, b) == IF a < b THEN a ELSE b
max(a, b) == IF a > b THEN a ELSE b

(* After every key the cursor is brought back into the field.              *)
InForm(x) == IF x < 0 THEN 0 ELSE min(x, prompt_width - 1)

To(pos, x) == editing /\ cursor_position' = pos /\ cursor_form_win' = InForm(x)
Step(n) == To(cursor_position + n, cursor_form_win + n)
Keep == UNCHANGED <<editing, result, result_len>>

Cut(n) == SubSeq(result, 1, n - 1) \o SubSeq(result, n + 1, Len(result))

Open(init) ==
    /\ ~editing
    /\ editing' = TRUE
    /\ result' = init
    /\ result_len' = max(result_len, Len(init) + 1)
    /\ cursor_position' = Len(init)
    /\ cursor_form_win' = min(Len(init), prompt_width - 1)

Backspace ==
    /\ cursor_position > 0
    /\ Step(-1)
    /\ result' = Cut(cursor_position)
    /\ UNCHANGED <<editing, result_len>>

(* Variant: Delete removes what Backspace would.                           *)
DeleteBefore ==
    /\ cursor_position < Len(result)
    /\ To(cursor_position, cursor_form_win)
    /\ result' = Cut(cursor_position)
    /\ UNCHANGED <<editing, result_len>>

(* The code moves len - cursor_position + 1 bytes from behind the cursor   *)
(* (nconf.gui.c:448), one more than the text and its NUL.  The byte that   *)
(* this brings in lies behind the NUL and is no part of the text modelled  *)
(* here; that it may lie behind the buffer is left out.                    *)
Delete ==
    /\ cursor_position < Len(result)
    /\ To(cursor_position, cursor_form_win)
    /\ result' = Cut(cursor_position + 1)
    /\ UNCHANGED <<editing, result_len>>

(* The arrows to the right and up, to the left and down.                   *)
Forward == cursor_position < Len(result) /\ Step(1) /\ Keep
Back == cursor_position > 0 /\ Step(-1) /\ Keep
Home == To(0, 0) /\ Keep
EndOfLine == To(Len(result), Len(result)) /\ Keep

(* Variant: the buffer is enlarged when the text itself no longer fits.    *)
TypeTight(c) ==
    /\ Len(result) < MaxText
    /\ Step(1)
    /\ result_len' = IF Len(result) + 1 > result_len THEN Len(result) + 1 ELSE result_len
    /\ result' = SubSeq(result, 1, cursor_position) \o <<c>>
                 \o SubSeq(result, cursor_position + 1, Len(result))
    /\ UNCHANGED editing

Type(c) ==
    /\ Len(result) < MaxText
    /\ Step(1)
    /\ result_len' = max(result_len, Len(result) + 2)
    /\ result' = SubSeq(result, 1, cursor_position) \o <<c>>
                 \o SubSeq(result, cursor_position + 1, Len(result))
    /\ UNCHANGED editing

(* Enter, F1 for help, Esc.                                                *)
Close ==
    /\ To(cursor_position, cursor_form_win)
    /\ editing' = FALSE
    /\ UNCHANGED <<result, result_len>>

Init ==
    /\ editing = FALSE
    /\ result = << >> /\ result_len = 0
    /\ cursor_position = 0 /\ cursor_form_win = 0

Next ==
    \/ \E n \in 0..MaxText : \E init \in [1..n -> Chars] : Open(init)
    \/ Backspace
    \/ Delete
    \/ Forward
    \/ Back
    \/ Home
    \/ EndOfLine
    \/ \E c \in Chars : Type(c)
    \/ Close

Spec == Init /\ [][Next]_formVars

-----------------------------------------------------------------------------
TypeOK ==
    /\ editing \in BOOLEAN
    /\ result \in UNION {[1..n -> Chars] : n \in 0..MaxText}
    /\ result_len \in 0..(MaxText + 1)
    /\ cursor_position \in 0..Len(result)
    /\ cursor_form_win \in Int

(* The field begins within the text and contains the cursor, and the text  *)
(* fits into its buffer with its NUL (nconf.gui.c:364).                    *)
FormOnText ==
    /\ cursor_form_win \in 0..min(cursor_position, prompt_width - 1)
    /\ editing => Len(result) < result_len

Edited == INSTANCE LineEdit WITH text <- result, pos <- cursor_position
ImplementsLineEdit == Edited!Spec
=============================================================================
