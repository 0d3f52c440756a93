----------------------------- MODULE ScrollWin -----------------------------
(***************************************************************************)
(* show_scroll_win of kconfig/nconf.gui.c, the window in which nconf shows *)
(* help texts and search results.  The text is drawn once on a pad of      *)
(* total_lines lines, the empty one behind its last newline included, and  *)
(* the part from (start_y, start_x) on is copied into the window, rows and *)
(* columns 2 to text_lines and text_cols.                                  *)
(***************************************************************************)
EXTENDS Integers

CONSTANTS
    Texts,     \* the lines and the longest line of the texts
    Screens    \* lines and columns of the terminal

VARIABLES reading, total_lines, total_cols, text_lines, text_cols, start_y, start_x

winVars == <<reading, total_lines, total_cols, text_lines, text_cols, start_y, start_x>>

min(a, b) == IF a < b THEN a ELSE b
max(a, b) == IF a > b THEN a ELSE b

Open(t, s) ==
    /\ ~reading
    /\ reading' = TRUE
    /\ total_lines' = t.lines + 1
    /\ total_cols' = t.longest + 2
    /\ text_lines' = max(min(t.lines + 1 + 4, s.lines - 2) - 4, 0)
    /\ text_cols' = max(min(t.longest + 2 + 2, s.columns - 2) - 2, 0)
    /\ start_y' = 0 /\ start_x' = 0

(* Variant: without the check at the beginning of the text.                *)
ClampedAbove(x, size, part) == IF x >= size - part THEN size - part ELSE x

(* Where the window is moved to is limited by both ends of the text.       *)
Clamped(x, size, part) ==
    LET y == IF x < 0 THEN 0 ELSE x
    IN  IF y >= size - part THEN size - part ELSE y

ScrollTo(y, x) ==
    /\ reading
    /\ start_y' = Clamped(y, total_lines, text_lines)
    /\ start_x' = Clamped(x, total_cols, text_cols)
    /\ UNCHANGED <<reading, total_lines, total_cols, text_lines, text_cols>>

(* Variant: one page down is all of text_lines.                            *)
PageDownAll == ScrollTo(start_y + text_lines, start_x)

PageDown == ScrollTo(start_y + text_lines - 2, start_x)
PageUp == ScrollTo(start_y - (text_lines + 2), start_x)
Home == ScrollTo(0, start_x)
EndOfText == ScrollTo(total_lines - text_lines, start_x)
LineBy(n) == ScrollTo(start_y + n, start_x)
ColumnBy(n) == ScrollTo(start_y, start_x + n)

Close ==
    /\ reading
    /\ reading' = FALSE
    /\ UNCHANGED <<total_lines, total_cols, text_lines, text_cols, start_y, start_x>>

Init ==
    /\ reading = FALSE
    /\ total_lines = 1 /\ total_cols = 2
    /\ text_lines = 0 /\ text_cols = 0
    /\ start_y = 0 /\ start_x = 0

Next ==
    \/ \E t \in Texts, s \in Screens : Open(t, s)
    \/ PageDown
    \/ PageUp
    \/ Home
    \/ EndOfText
    \/ \E n \in {-1, 1} : LineBy(n) \/ ColumnBy(n)
    \/ Close

Spec == Init /\ [][Next]_winVars

-----------------------------------------------------------------------------
(* The lines of the text that are in the window, from 0.                   *)
InWindow == start_y..(start_y + text_lines - 2)

(* The part copied from the pad never goes past the text, and what there   *)
(* is to see of the text is in reach: the last line is in the window when  *)
(* it is scrolled as far as it can be (nconf.gui.c:644).                   *)
PartOfText ==
    reading =>
        /\ start_y \in 0..(total_lines - text_lines)
        /\ start_x \in 0..(total_cols - text_cols)
        /\ start_y = total_lines - text_lines => total_lines - 2 \in InWindow

(* The next page begins with a line of this one or right behind it.        *)
PagesMeet == [][PageDown => start_y' <= start_y + text_lines - 1]_winVars
=============================================================================
