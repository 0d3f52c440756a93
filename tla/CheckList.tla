----------------------------- MODULE CheckList -----------------------------
(***************************************************************************)
(* dialog_checklist of kconfig/lxdialog/checklist.c, the list in which     *)
(* mconf shows the values of a choice, and its caller conf_choice, which   *)
(* makes the list anew after each help text.  Unlike the lists of          *)
(* dialog_menu its height is fixed, and the cursor scrolls it only at its  *)
(* first and last line.                                                    *)
(***************************************************************************)
EXTENDS ListWindow, FiniteSetsExt

CONSTANTS
    ListSizes,    \* lengths of the list: a choice that is y shows a value
    list_height,
    Keys,         \* letters the user may type
    Hot(_)        \* the first letter of an item

VARIABLES
    listed,   \* is the dialog on the screen?
    items,    \* item_count()
    top,      \* scroll
    cursor,   \* choice
    help,     \* is the button Help selected?
    rows,     \* line of the window -> what it shows
    last      \* conf_choice's active, as the number of an item or -1

listVars == <<listed, items, top, cursor, help, rows, last>>

NoItem == -1
Rows(n) == MIN(list_height, n)
Last == Rows(items) - 1

(* The list is opened on the item selected, else on the one marked with an *)
(* X, which is the value of the choice.                                    *)
Open(n, x) ==
    LET sel == IF last # NoItem THEN last ELSE x
        below == MAX(sel - list_height + 1, 0)
    IN  /\ ~listed
        /\ listed' = TRUE
        /\ items' = n
        /\ top' = below
        /\ cursor' = sel - below
        /\ help' = FALSE
        /\ rows' = Printed(Rows(n), below, sel - below)
        /\ UNCHANGED last

(* KEY_RESIZE draws the list again where it is.                            *)
Resize ==
    /\ listed
    /\ rows' = Printed(Rows(items), top, cursor)
    /\ UNCHANGED <<listed, items, top, cursor, help, last>>

(* Scrolling by one line, which takes the highlight along: curses does not *)
(* scroll a window of one line, the only line is printed over.             *)
ScrollBy(n, line) ==
    LET old == print_item(rows, top + line, line, FALSE)
        moved == IF list_height > 1 THEN Scrolled(old, n, top + n) ELSE rows
    IN  /\ top' = top + n
        /\ rows' = print_item(moved, top + n + line, line, TRUE)
        /\ UNCHANGED cursor

(* Variant: the highlight of the old line stays.                           *)
GoToLit(line) ==
    /\ cursor' = line
    /\ rows' = print_item(rows, top + line, line, TRUE)
    /\ UNCHANGED top

GoTo(line) ==
    /\ cursor' = line
    /\ rows' = print_item(print_item(rows, top + cursor, cursor, FALSE),
                          top + line, line, TRUE)
    /\ UNCHANGED top

Moves == listed /\ UNCHANGED <<listed, items, help, last>>

(* A letter that is the first of an item on the screen takes precedence    *)
(* over its use as a command, and over a move.                             *)
RowsWith(letter) == {l \in 0..Last : Hot(top + l) = letter}
IsCommand(key) == key \in Keys => RowsWith(key) = {}

Up ==
    /\ Moves
    /\ \/ cursor > 0 /\ GoTo(cursor - 1)
       \/ cursor = 0 /\ top > 0 /\ ScrollBy(-1, 0)

Down ==
    /\ Moves
    /\ \/ cursor < Last /\ GoTo(cursor + 1)
       \/ cursor = Last /\ top + cursor < items - 1 /\ ScrollBy(1, Last)

Letter(letter) ==
    /\ Moves
    /\ RowsWith(letter) # {}
    /\ GoTo(Min(RowsWith(letter)))

(* TAB, KEY_LEFT and KEY_RIGHT.                                            *)
Button ==
    /\ listed
    /\ help' = ~help
    /\ UNCHANGED <<listed, items, top, cursor, rows, last>>

Close == listed /\ listed' = FALSE /\ UNCHANGED <<items, top, cursor, help, rows>>

(* Variant: the line of the window is remembered.                          *)
HelpLine(key) ==
    /\ Close
    /\ IsCommand(key)
    /\ key = "enter" => help
    /\ last' = cursor

(* Help on the item under the cursor; conf_choice then opens the list on   *)
(* this item again.                                                        *)
Help(key) ==
    /\ Close
    /\ IsCommand(key)
    /\ key = "enter" => help
    /\ last' = top + cursor

(* The item under the cursor becomes the value, or Esc.  The choice may be *)
(* entered again later.                                                    *)
Answer(key) == Close /\ IsCommand(key) /\ (key = "enter" => ~help) /\ last' = NoItem

Init ==
    /\ listed = FALSE
    /\ items = CHOOSE n \in ListSizes : TRUE
    /\ top = 0 /\ cursor = 0
    /\ help = FALSE
    /\ rows = Printed(0, 0, 0)
    /\ last = NoItem

Next ==
    \/ \E n \in ListSizes : \E x \in 0..(n - 1) :
          (last # NoItem => n = items) /\ Open(n, x)
    \/ Resize
    \/ Up
    \/ Down
    \/ \E k \in Keys : Letter(k)
    \/ Button
    \/ \E k \in {"enter", "h"} : Help(k)
    \/ \E k \in {"enter", "s", "esc"} : Answer(k)

Spec == Init /\ [][Next]_listVars

-----------------------------------------------------------------------------
TypeOK ==
    /\ listed \in BOOLEAN /\ help \in BOOLEAN
    /\ items \in ListSizes
    /\ top \in Nat /\ cursor \in Nat
    /\ DOMAIN rows \subseteq Nat
    /\ rows \in [DOMAIN rows -> [item : Nat, lit : BOOLEAN]]
    /\ last \in NoItem..(items - 1)

(* The list on the screen is always the one the cursor is moved over, and  *)
(* its one highlighted line the item an answer is about, within the list   *)
(* (dialog_checklist, checklist.c:115).                                    *)
ListMatches ==
    listed => /\ Shows(rows, top, cursor)
              /\ DOMAIN rows = 0..Last
              /\ top + Last < items
              /\ cursor <= Last

(* After the help text on an item the cursor is on that item again.        *)
HelpReturns ==
    [][(~listed /\ listed' /\ last # NoItem) => top' + cursor' = top + cursor]_listVars
=============================================================================
