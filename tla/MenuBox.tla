------------------------------ MODULE MenuBox ------------------------------
(***************************************************************************)
(* dialog_menu of kconfig/lxdialog/menubox.c, the list every menu of mconf *)
(* is shown in, together with its caller, conf() of mconf.c, which makes a *)
(* new list of items and opens the dialog again after every answer.        *)
(*                                                                         *)
(* Items are numbered from 0.  The window shows max_choice of them from    *)
(* item scroll on, and the cursor is on line choice of the window.  What   *)
(* is on the screen is kept apart, in lines: the code never draws it anew, *)
(* it prints single lines and lets curses scroll the others.               *)
(***************************************************************************)
EXTENDS ListWindow, FiniteSetsExt

CONSTANTS
    MaxItems,   \* bound on the length of a list
    Heights,    \* the heights the list may have on the screen
    Letters,    \* letters the user may type
    Hot(_)      \* the first letter of an item, which jumps to it

ASSUME HeightsAssumption == Heights \subseteq Nat \ {0} /\ Heights # {}
ASSUME MaxItemsAssumption == MaxItems \in Nat

VARIABLES
    open,        \* is the dialog on the screen?
    count,       \* item_count()
    height,      \* menu_height
    scroll, choice, first_item,
    button,      \* the button selected, from 0 to 4
    lines,       \* line of the window -> what it shows
    s_scroll,    \* conf()'s s_scroll
    active,      \* the item conf() passes as selected, -1 if there is none
    resized      \* was the terminal resized since the dialog was opened?

menuVars == <<open, count, height, scroll, choice, first_item, button, lines,
              s_scroll, active, resized>>

NoItem == -1
Visible(n, h) == MIN(h, n)
max_choice == Visible(count, height)

-----------------------------------------------------------------------------
(* Variant: the old line stays highlighted.                                *)
RedrawnLit(newScroll, newChoice) ==
    print_item(Scrolled(lines, newScroll - scroll, newScroll),
               newScroll + newChoice, newChoice, TRUE)

(* The highlight goes from the old line to the new one around a scroll.    *)
Redrawn(newScroll, newChoice) ==
    print_item(Scrolled(print_item(lines, scroll + choice, choice, FALSE),
                        newScroll - scroll, newScroll),
               newScroll + newChoice, newChoice, TRUE)

MoveTo(newScroll, newChoice) ==
    /\ open
    /\ count # 0
    /\ scroll' = newScroll
    /\ choice' = newChoice
    /\ lines' = Redrawn(newScroll, newChoice)
    /\ UNCHANGED <<open, count, height, first_item, button, s_scroll, active, resized>>

-----------------------------------------------------------------------------
(* Opening the dialog, at first or after a resize: c and f are what choice *)
(* and first_item were before.  The saved scroll is used if the default    *)
(* item is in view with it.                                                *)
Fits(n, max, c, s) == s <= c /\ s + max > c /\ s >= 0 /\ s + max <= n

Centred(n, max, c) == IF c >= n - max \div 2 THEN n - max ELSE c - max \div 2

Place(n, max, def, s, f) ==
    LET fits == Fits(n, max, def, s)
        c == IF fits THEN def - s ELSE def
        new == Centred(n, max, c)
    IN  IF c >= max
        THEN [scroll |-> new, first |-> new, choice |-> c - new]
        ELSE [scroll |-> IF fits THEN s ELSE 0,
              first |-> IF fits THEN s ELSE f,
              choice |-> c]

Default(sel, c) == IF sel # NoItem THEN sel ELSE c

Draw(n, h, sel, s, c, f) ==
    LET p == Place(n, Visible(n, h), Default(sel, c), s, f)
    IN  /\ scroll' = p.scroll
        /\ choice' = p.choice
        /\ first_item' = p.first
        /\ lines' = Printed(Visible(n, h), p.first, p.choice)

(* conf() has made n items, and item sel is the one used last, if it still *)
(* is there.                                                               *)
Open(n, h, sel) ==
    /\ ~open
    /\ open' = TRUE
    /\ count' = n
    /\ height' = h
    /\ active' = sel
    /\ button' = 0
    /\ Draw(n, h, sel, s_scroll, 0, 0)
    /\ resized' = FALSE
    /\ UNCHANGED s_scroll

(* KEY_RESIZE: choice and first_item still have their old values.          *)
Resize(h) ==
    /\ open
    /\ height' = h
    /\ Draw(count, h, active, s_scroll, choice, first_item)
    /\ resized' = TRUE
    /\ UNCHANGED <<open, count, button, s_scroll, active>>

-----------------------------------------------------------------------------
(* Keys that move the cursor.                                              *)
Up == IF choice < 2 /\ scroll > 0 THEN MoveTo(scroll - 1, choice)
      ELSE MoveTo(scroll, MAX(choice - 1, 0))

(* Variant: the list scrolls although its end is in view.                  *)
DownPast == IF choice > max_choice - 3 /\ scroll + max_choice <= count
            THEN MoveTo(scroll + 1, choice)
            ELSE MoveTo(scroll, MIN(choice + 1, max_choice - 1))

Down == IF choice > max_choice - 3 /\ scroll + max_choice < count
        THEN MoveTo(scroll + 1, choice)
        ELSE MoveTo(scroll, MIN(choice + 1, max_choice - 1))

(* A page is max_choice steps, each a scroll while there is something to   *)
(* scroll and a step of the cursor after that.                             *)
PageUp ==
    LET n == MIN(scroll, max_choice)
    IN  MoveTo(scroll - n, MAX(choice - (max_choice - n), 0))

PageDown ==
    LET n == MIN(count - max_choice - scroll, max_choice)
    IN  MoveTo(scroll + n, MIN(choice + (max_choice - n), max_choice - 1))

(* A letter goes to the next line whose item begins with it, from the top  *)
(* if there is none below.  The letters y, n, m and h never do.            *)
LinesWith(letter) == {l \in 0..(max_choice - 1) : Hot(scroll + l) = letter}
Letter(letter) ==
    LET below == {l \in LinesWith(letter) : l > choice}
    IN  /\ LinesWith(letter) # {}
        /\ MoveTo(scroll, Min(IF below # {} THEN below ELSE LinesWith(letter)))

(* KEY_LEFT, KEY_RIGHT and TAB.                                            *)
Button(n) ==
    /\ open
    /\ button' = (button + n) % 5
    /\ UNCHANGED <<open, count, height, scroll, choice, first_item, lines, s_scroll,
                   active, resized>>

(* Variant: first_item is remembered, which is not kept up when scrolling. *)
AnswerFirst(key) ==
    /\ open
    /\ key \in Letters => LinesWith(key) = {}
    /\ key = "enter" => button # 1
    /\ open' = FALSE
    /\ s_scroll' = first_item
    /\ active' = IF count = 0 THEN NoItem ELSE scroll + choice
    /\ UNCHANGED <<count, height, scroll, choice, first_item, button, lines, resized>>

(* An answer: Enter, a command letter no item takes, or space.  conf()     *)
(* remembers the item; Exit, button 1, ends it.                            *)
Answer(key) ==
    /\ open
    /\ key \in Letters => LinesWith(key) = {}
    /\ key = "enter" => button # 1
    /\ open' = FALSE
    /\ s_scroll' = scroll
    /\ active' = IF count = 0 THEN NoItem ELSE scroll + choice
    /\ UNCHANGED <<count, height, scroll, choice, first_item, button, lines, resized>>

(* Esc, e, x, or the Exit button; the next menu is another call of conf(). *)
Exit ==
    /\ open
    /\ open' = FALSE
    /\ s_scroll' = 0
    /\ active' = NoItem
    /\ UNCHANGED <<count, height, scroll, choice, first_item, button, lines, resized>>

-----------------------------------------------------------------------------
Init ==
    /\ open = FALSE
    /\ count = 0
    /\ height = CHOOSE h \in Heights : TRUE
    /\ scroll = 0 /\ choice = 0 /\ first_item = 0
    /\ button = 0
    /\ lines = [l \in {} |-> Line(0, FALSE)]
    /\ s_scroll = 0
    /\ active = NoItem
    /\ resized = FALSE

Next ==
    \/ \E n \in 0..MaxItems, h \in Heights : \E sel \in NoItem..(n - 1) : Open(n, h, sel)
    \/ \E h \in Heights : Resize(h)
    \/ Up
    \/ Down
    \/ PageUp
    \/ PageDown
    \/ \E k \in Letters : Letter(k)
    \/ \E n \in {-1, 1} : Button(n)
    \/ \E k \in {"enter", "space", "y", "n", "m", "s"} : Answer(k)
    \/ Exit

Spec == Init /\ [][Next]_menuVars

-----------------------------------------------------------------------------
TypeOK ==
    /\ open \in BOOLEAN /\ resized \in BOOLEAN
    /\ count \in 0..MaxItems
    /\ height \in Heights
    /\ scroll \in Nat /\ choice \in Nat /\ first_item \in Nat
    /\ button \in 0..4
    /\ s_scroll \in Nat
    /\ active \in Int /\ active >= NoItem
    /\ lines \in [0..(max_choice - 1) -> [item : Nat, lit : BOOLEAN]]

(* The cursor is always on an item and the window on the list, whatever    *)
(* the keys, the resizes and the lists opened with a scroll position saved *)
(* from another list (dialog_menu, menubox.c:180).                         *)
InView ==
    /\ scroll + max_choice <= count
    /\ count > 0 => choice < max_choice
    /\ count = 0 => choice = 0

(* Until the terminal is resized, the lines of the screen are the items    *)
(* the cursor is moved over, and the one highlighted is the one an answer  *)
(* is about, although the screen is only ever changed in parts.            *)
ScreenMatches ==
    (open /\ ~resized) => Shows(lines, scroll, choice)

(* Opening the menu again with the same items puts the item used last on   *)
(* the line it was on: s_scroll is there for that.                         *)
PlaceKept ==
    [][(~open /\ open' /\ active' = active /\ active # NoItem
        /\ count' = count /\ height' = height)
       => scroll' = scroll /\ choice' = choice]_menuVars

(* KEY_DOWN and KEY_UP go to the next and the previous item, scrolling or  *)
(* not, and do nothing only at the ends of the list.                       *)
MovesByOne ==
    [][/\ Down => scroll' + choice' = MIN(scroll + choice + 1, count - 1)
       /\ Up => scroll' + choice' = MAX(scroll + choice - 1, 0)]_menuVars
=============================================================================
