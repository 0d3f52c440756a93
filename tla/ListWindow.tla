----------------------------- MODULE ListWindow -----------------------------
(***************************************************************************)
(* The part of a list that is on the screen, for the lists of              *)
(* kconfig/lxdialog: the item each line of the window shows and whether it *)
(* is highlighted.  The code prints single lines and has curses scroll the *)
(* others; it never draws the whole window from the list again.            *)
(***************************************************************************)
EXTENDS Integers

MIN(a, b) == IF a < b THEN a ELSE b
MAX(a, b) == IF a > b THEN a ELSE b

Line(item, lit) == [item |-> item, lit |-> lit]

print_item(w, item, line, lit) == [w EXCEPT ![line] = Line(item, lit)]

(* The window after scrolling n lines up, or -n lines down, with each line *)
(* this exposes printed at once: the first line then shows item first.     *)
Scrolled(w, n, first) ==
    [l \in DOMAIN w |-> IF l + n \in DOMAIN w THEN w[l + n] ELSE Line(first + l, FALSE)]

(* All of a window of n lines.                                             *)
Printed(n, first, cursor) == [l \in 0..(n - 1) |-> Line(first + l, l = cursor)]

(* The lines show the items from scroll on, and line cursor is the one     *)
(* that is highlighted.                                                    *)
Shows(w, scroll, cursor) == \A l \in DOMAIN w : w[l] = Line(scroll + l, l = cursor)
=============================================================================
