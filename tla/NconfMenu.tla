----------------------------- MODULE NconfMenu -----------------------------
(***************************************************************************)
(* A menu of nconf, kconfig/nconf.c: the list of items that conf() shows   *)
(* with curses' menu library, and the search for items in it: after / the  *)
(* characters typed are a pattern, and the arrows go to the next item that *)
(* contains it.  The loop of get_mext_match is taken step by step.         *)
(*                                                                         *)
(* Items are numbered from 0; of the menu library there are the current    *)
(* item and the first one in the window, top.  A behaviour follows one     *)
(* menu: what is done in those opened from it happens in Reopen.           *)
(***************************************************************************)
EXTENDS Integers, Sequences

CONSTANTS
    Menus,          \* lists of items, each item the characters of its text
    PatternChars,
    MaxPattern,     \* bound on the length of a pattern
    Windows         \* heights of the window, mwin_max_lines

VARIABLES
    items,          \* k_menu_items
    mwin_max_lines,
    current, top,
    last_top_row,   \* what center_item took for top
    in_search, pattern, match_direction,
    index, match_start,   \* of get_mext_match
    pc,             \* "key": waiting for one; "match": in get_mext_match
    found           \* what do_match had it return last: an item or -1

nconfVars == <<items, mwin_max_lines, current, top, last_top_row, in_search, pattern,
               match_direction, index, match_start, pc, found>>

min(a, b) == IF a < b THEN a ELSE b
max(a, b) == IF a > b THEN a ELSE b
items_num == Len(items)
Place == <<current, top, last_top_row>>
Search == <<in_search, pattern, match_direction>>
Loop == <<index, match_start, pc, found>>

(* strcasestr                                                              *)
Contains(text, part) ==
    \E i \in 0..(Len(text) - Len(part)) : SubSeq(text, i + 1, i + Len(part)) = part
Matches(i) == Contains(items[i + 1], pattern)

-----------------------------------------------------------------------------
(* Of the menu library, for n items in a window of h lines.  set_top_row   *)
(* refuses rows outside of the menu.                                       *)
RowOk(n, h, row) == row \in 0..max(n - h, 0)
set_top_row(n, h, row, toprow) == IF RowOk(n, h, row) THEN row ELSE toprow

(* The current item is kept in the window.                                 *)
Followed(h, i, toprow) ==
    IF i < toprow THEN i ELSE IF i >= toprow + h THEN i - h + 1 ELSE toprow

(* center_item: the window first goes back to the row remembered, which    *)
(* keys may have made stale, and moves if item i is not in it.  There is no*)
(* item i if the menu became shorter; the first one shown then is current, *)
(* which set_top_row makes it.                                             *)
Centred(n, h, i) ==
    LET middle == max(i - h \div 2, 0) IN IF middle >= n - h THEN n - h ELSE middle
Centre(n, h, i, row, shown) ==
    LET saved  == set_top_row(n, h, row, shown)
        toprow == IF i \in saved..(saved + h - 1) THEN saved ELSE Centred(n, h, i)
        window == set_top_row(n, h, toprow, saved)
    IN  /\ last_top_row' = toprow
        /\ current' = IF i < n THEN i ELSE window
        /\ top' = IF i < n THEN Followed(h, i, window) ELSE window

(* A list is built and show_menu shows it, from its beginning before       *)
(* center_item is called.                                                  *)
Show(m, h, i, row) ==
    /\ pc = "key"
    /\ items' = m
    /\ mwin_max_lines' = h
    /\ Centre(Len(m), h, i, row, 0)
    /\ UNCHANGED Loop

(* conf() begins with a menu, conf_choice with a choice, at its active     *)
(* value and the row of what was shown before.                             *)
NoSearch == in_search' = FALSE /\ pattern' = << >> /\ match_direction' = "PATTERN_DOWN"
Open(m, h) == Show(m, h, 0, 0) /\ NoSearch
OpenChoice(m, h, active) == active < Len(m) /\ Show(m, h, active, top) /\ NoSearch

(* A key that do_match does not know ends a search.                        *)
EndSearch == in_search' = FALSE /\ pattern' = << >> /\ UNCHANGED match_direction

(* Variant: the row is the one of the last search.                         *)
ReopenStale(m, h) ==
    /\ Show(m, h, current, last_top_row)
    /\ EndSearch \/ UNCHANGED Search

(* conf() comes round: a submenu was opened, a symbol changed, the window  *)
(* resized.  The item and the row are remembered; the list may be another. *)
(* A NUL does so without ending a search.                                  *)
Reopen(m, h) ==
    /\ Show(m, h, current, top)
    /\ EndSearch \/ UNCHANGED Search

(* menu_driver with REQ_DOWN_ITEM and so on.  In a search only Home is not *)
(* taken for part of it: the arrows search on, and the low bytes of the    *)
(* others are characters.                                                  *)
Move(i) ==
    /\ pc = "key"
    /\ current' = i
    /\ top' = Followed(mwin_max_lines, i, top)
    /\ UNCHANGED <<items, mwin_max_lines, last_top_row, Loop>>
Walk(i) == ~in_search /\ Move(i) /\ UNCHANGED Search
Down == current < items_num - 1 /\ Walk(current + 1)
Up == current > 0 /\ Walk(current - 1)
First == Move(0) /\ EndSearch
Last == Walk(items_num - 1)

(* REQ_SCR_DPAGE and REQ_SCR_UPAGE: item and window go by a page, or as far*)
(* as there is one.                                                        *)
Page(by) ==
    /\ pc = "key" /\ ~in_search
    /\ by # 0
    /\ current' = current + by
    /\ top' = top + by
    /\ UNCHANGED <<items, mwin_max_lines, last_top_row, Search, Loop>>
PageDown == Page(min(mwin_max_lines, max(items_num - mwin_max_lines - top, 0)))
PageUp == Page(-min(mwin_max_lines, top))

-----------------------------------------------------------------------------
(* do_match.  / begins a search, / and Esc end one.                        *)
Slash ==
    /\ pc = "key"
    /\ in_search' = ~in_search
    /\ pattern' = << >>
    /\ match_direction' = "PATTERN_DOWN"
    /\ found' = -1
    /\ UNCHANGED <<items, mwin_max_lines, Place, index, match_start, pc>>

adj_match_dir(d) ==
    IF d = "NEXT_DOWN" THEN "PATTERN_DOWN" ELSE IF d = "NEXT_UP" THEN "PATTERN_UP" ELSE d

(* get_mext_match begins.                                                  *)
Start(d) ==
    LET from == IF d = "NEXT_DOWN" THEN current + 1
                ELSE IF d = "NEXT_UP" THEN current - 1 ELSE current
    IN  /\ pc = "key" /\ in_search
        /\ match_direction' = d
        /\ match_start' = from
        /\ index' = (from + items_num) % items_num
        /\ pc' = "match"
        /\ UNCHANGED <<items, mwin_max_lines, Place, in_search, found>>

Type(c) ==
    /\ Len(pattern) < MaxPattern
    /\ Start(adj_match_dir(match_direction))
    /\ pattern' = Append(pattern, c)
Next_Match == Start("NEXT_DOWN") /\ UNCHANGED pattern
Previous_Match == Start("NEXT_UP") /\ UNCHANGED pattern

(* With an empty pattern the byte before it is cleared, a byte of the      *)
(* direction that is zero.                                                 *)
Backspace ==
    /\ pc = "key" /\ in_search
    /\ pattern' = SubSeq(pattern, 1, Len(pattern) - 1)
    /\ match_direction' = adj_match_dir(match_direction)
    /\ found' = -1
    /\ UNCHANGED <<items, mwin_max_lines, Place, in_search, index, match_start, pc>>

(* Variant: upward searches go down too.                                   *)
StepsDown(i) == (i + 1 + items_num) % items_num

(* Variant: the search stops at the ends of the list.                      *)
StepsEnd(i) ==
    IF match_direction \in {"NEXT_UP", "PATTERN_UP"} THEN max(i - 1, 0)
    ELSE IF i = items_num - 1 THEN i ELSE i + 1

Steps(i) ==
    ((IF match_direction \in {"NEXT_UP", "PATTERN_UP"} THEN i - 1 ELSE i + 1) + items_num)
    % items_num

(* The loop ends with an item that contains the pattern or back where it   *)
(* began; do_match's callers then go to the item.                          *)
Found(i) == pc' = "key" /\ found' = i
Match ==
    /\ pc = "match"
    /\ \/ Matches(index) /\ Found(index) /\ UNCHANGED index
          /\ Centre(items_num, mwin_max_lines, index, last_top_row, top)
       \/ ~Matches(index) /\ Steps(index) = match_start /\ Found(-1) /\ index' = Steps(index)
          /\ UNCHANGED Place
       \/ ~Matches(index) /\ Steps(index) # match_start /\ index' = Steps(index)
          /\ UNCHANGED <<pc, found, Place>>
    /\ UNCHANGED <<items, mwin_max_lines, Search, match_start>>

-----------------------------------------------------------------------------
Init ==
    /\ items = CHOOSE m \in Menus : TRUE
    /\ mwin_max_lines = CHOOSE n \in Windows : TRUE
    /\ current = 0 /\ top = 0 /\ last_top_row = 0
    /\ in_search = FALSE /\ pattern = << >> /\ match_direction = "PATTERN_DOWN"
    /\ index = 0 /\ match_start = 0
    /\ pc = "key"
    /\ found = -1

Next ==
    \/ \E m \in Menus, h \in Windows :
          \/ Open(m, h)
          \/ \E active \in 0..(Len(m) - 1) : OpenChoice(m, h, active)
          \/ Reopen(m, h)
    \/ Down
    \/ Up
    \/ First
    \/ Last
    \/ PageDown
    \/ PageUp
    \/ Slash
    \/ \E c \in PatternChars : Type(c)
    \/ Next_Match
    \/ Previous_Match
    \/ Backspace
    \/ Match

(* The program does not stop in the middle of its loop.                    *)
Fairness == WF_nconfVars(Match)
Spec == Init /\ [][Next]_nconfVars /\ Fairness

-----------------------------------------------------------------------------
TypeOK ==
    /\ items \in Menus /\ mwin_max_lines \in Windows
    /\ current \in 0..(items_num - 1) /\ top \in Nat /\ last_top_row \in Int
    /\ in_search \in BOOLEAN
    /\ pattern \in Seq(PatternChars) /\ Len(pattern) <= MaxPattern
    /\ match_direction \in {"PATTERN_UP", "PATTERN_DOWN", "NEXT_UP", "NEXT_DOWN"}
    /\ index \in 0..(items_num - 1) \/ pc = "key"
    /\ match_start \in Int
    /\ pc \in {"key", "match"}
    /\ found \in Int

(* The item the keys act on is in the window, wherever a search jumped and *)
(* whatever list comes back.                                               *)
CurrentInWindow == current \in top..(top + mwin_max_lines - 1)

(* conf() comes back to the item it left, unless the menu became too short *)
(* for it; and if the menu is the same, to the same lines of it (nconf.c:  *)
(* 1149, "remember location in the menu").                                 *)
PlaceKept ==
    [][\A m \in Menus, h \in Windows :
          Reopen(m, h) =>
              /\ current < Len(m) => current' = current
              /\ m = items /\ h = mwin_max_lines => top' = top]_nconfVars

(* How many items after the first one the search looks at item i.          *)
Distance(i) ==
    LET down == (i - match_start + 2 * items_num) % items_num
    IN  IF match_direction \in {"NEXT_UP", "PATTERN_UP"} THEN (items_num - down) % items_num
        ELSE down

(* A search goes to the first item in its direction that contains the      *)
(* pattern, around the end of the list if need be, and gives up only if    *)
(* there is none (get_mext_match, nconf.c:497).                            *)
FindsNearest ==
    [][(pc = "match" /\ pc' = "key") =>
         IF found' = -1 THEN \A i \in 0..(items_num - 1) : ~Matches(i)
         ELSE /\ current' = found' /\ Matches(found')
              /\ \A i \in 0..(items_num - 1) : Matches(i) => Distance(found') <= Distance(i)
      ]_nconfVars

(* A search for something the menu contains ends.                          *)
MatchEnds ==
    (pc = "match" /\ \E i \in 0..(items_num - 1) : Matches(i)) ~> (pc = "key")

(* "return the index of the matched item, or -1 if no such item exists"    *)
(* (nconf.c:496): a search ends whether there is an item or not.           *)
SearchEnds == (pc = "match") ~> (pc = "key")
=============================================================================
