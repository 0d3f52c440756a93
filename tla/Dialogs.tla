------------------------------ MODULE Dialogs ------------------------------
(***************************************************************************)
(* What the menu programs show: the dialogs of mconf, in kconfig/lxdialog, *)
(* and those of nconf, in nconf.c and nconf.gui.c.  Each is a loop of its  *)
(* own that takes all input while it is on the screen and shares nothing   *)
(* with the others, so a behaviour here opens one kind again and again,    *)
(* with whatever that dialog or its caller keeps from the last time.       *)
(***************************************************************************)
EXTENDS MenuBox, Sequences

CONSTANTS
    ListSizes, list_height, Keys,          \* CheckList
    Lengths, Boxes, Sideways,              \* TextBox
    Chars, MaxText, box_width,             \* InputBox and InputForm
    prompt_width,
    Texts, Screens,                        \* ScrollWin
    Menus, PatternChars, MaxPattern, Windows  \* NconfMenu

(* A choice that is y has values, menus of nconf items, texts a line, and  *)
(* what they are shown in has room for something.                          *)
ASSUME ListsAssumption ==
    /\ ListSizes \subseteq Nat \ {0} /\ ListSizes # {}
    /\ list_height \in Nat \ {0}
ASSUME BoxesAssumption ==
    /\ Lengths \subseteq Nat \ {0} /\ Lengths # {}
    /\ Boxes \subseteq Nat \ {0} /\ Boxes # {}
    /\ Sideways \in Nat
ASSUME InputsAssumption ==
    /\ MaxText \in Nat
    /\ box_width \in Nat \ {0} /\ prompt_width \in Nat \ {0}
    /\ "nul" \notin Chars
ASSUME MenusAssumption ==
    /\ Menus # {} /\ \A m \in Menus : m \in Seq(Seq(PatternChars)) /\ m # << >>
    /\ Windows \subseteq Nat \ {0} /\ Windows # {}
    /\ MaxPattern \in Nat

(* nconf asks for 20 lines of 75 columns (nconf.c:1507).                   *)
ASSUME ScreensAssumption ==
    /\ \A t \in Texts : t.lines \in Nat \ {0} /\ t.longest \in Nat
    /\ \A s \in Screens : /\ s.lines \in Nat /\ s.lines >= 20
                          /\ s.columns \in Nat /\ s.columns >= 75

VARIABLES
    dialog,
    listed, listItems, listTop, cursor, help, rows, last,
    shown, length, newline, search, boxh, page, begin_reached, end_reached,
    page_length, hscroll, first, vscroll,
    asked, instr, len, place, show_x, input_x, field, cells,
    editing, result, result_len, cursor_position, cursor_form_win,
    reading, total_lines, total_cols, text_lines, text_cols, start_y, start_x,
    items, mwin_max_lines, current, top, last_top_row, in_search, pattern, match_direction,
    index, match_start, pc, found

listVars == <<listed, listItems, listTop, cursor, help, rows, last>>
textVars == <<shown, length, newline, search, boxh, page, begin_reached, end_reached,
              page_length, hscroll, first, vscroll>>
boxVars == <<asked, instr, len, place, show_x, input_x, field, cells>>
formVars == <<editing, result, result_len, cursor_position, cursor_form_win>>
winVars == <<reading, total_lines, total_cols, text_lines, text_cols, start_y, start_x>>
nconfVars == <<items, mwin_max_lines, current, top, last_top_row, in_search, pattern,
               match_direction, index, match_start, pc, found>>

CL == INSTANCE CheckList WITH items <- listItems, top <- listTop
TB == INSTANCE TextBox WITH MAX_LEN <- Sideways
IB == INSTANCE InputBox WITH MAX_LEN <- MaxText
IF_ == INSTANCE InputForm
SW == INSTANCE ScrollWin
NM == INSTANCE NconfMenu

Kinds == {"menu", "checklist", "text", "input", "form", "scroll", "nconf"}

dialogVars == <<dialog, menuVars, listVars, textVars, boxVars, formVars,
                winVars, nconfVars>>

Closed == Init /\ CL!Init /\ TB!Init /\ IB!Init /\ IF_!Init /\ SW!Init /\ NM!Init
DialogsInit == dialog \in Kinds /\ Closed

DialogsNext ==
    \/ /\ dialog = "menu" /\ Next
       /\ UNCHANGED <<dialog, listVars, textVars, boxVars, formVars, winVars, nconfVars>>
    \/ /\ dialog = "checklist" /\ CL!Next
       /\ UNCHANGED <<dialog, menuVars, textVars, boxVars, formVars, winVars, nconfVars>>
    \/ /\ dialog = "text" /\ TB!Next
       /\ UNCHANGED <<dialog, menuVars, listVars, boxVars, formVars, winVars, nconfVars>>
    \/ /\ dialog = "input" /\ IB!Next
       /\ UNCHANGED <<dialog, menuVars, listVars, textVars, formVars, winVars, nconfVars>>
    \/ /\ dialog = "form" /\ IF_!Next
       /\ UNCHANGED <<dialog, menuVars, listVars, textVars, boxVars, winVars, nconfVars>>
    \/ /\ dialog = "scroll" /\ SW!Next
       /\ UNCHANGED <<dialog, menuVars, listVars, textVars, boxVars, formVars, nconfVars>>
    \/ /\ dialog = "nconf" /\ NM!Next
       /\ UNCHANGED <<dialog, menuVars, listVars, textVars, boxVars, formVars, winVars>>

(* A program does not stop in the middle of a search.                      *)
DialogsSpec == DialogsInit /\ [][DialogsNext]_dialogVars /\ NM!Fairness

-----------------------------------------------------------------------------
(* Every dialog keeps its variables in their types.                        *)
DialogsTypeOK ==
    TypeOK /\ CL!TypeOK /\ TB!TypeOK /\ IB!TypeOK /\ IF_!TypeOK /\ NM!TypeOK

(* The cursor is on the screen.  A menu shows a part of its list, with the *)
(* cursor on an item of it: dialog_menu, opened for one list after another *)
(* with the scroll of the last one and resized, and the menus of nconf,    *)
(* moved by searches.  An input line shows its cursor on its text, and the *)
(* text is in its buffer.                                                  *)
CursorInView ==
    /\ InView /\ NM!CurrentInWindow
    /\ IB!CursorRight /\ IF_!FormOnText

(* What redrawing single lines and characters leaves on the screen is what *)
(* drawing all of it would show, in menus, lists and input lines.          *)
DialogsOnScreen == ScreenMatches /\ CL!ListMatches /\ IB!FieldMatches

(* Who comes back is where he was: in a menu of mconf or nconf after a     *)
(* submenu, in a list after its help text, in a text after a search; and   *)
(* the arrows of a menu go by one item, whether it scrolls or not.         *)
PlacesKept ==
    /\ PlaceKept /\ MovesByOne /\ NM!PlaceKept
    /\ CL!HelpReturns /\ TB!SearchReturns

(* No line of a text is passed over by paging: in dialog_textbox, whose    *)
(* flags about its position stay true, and in show_scroll_win, which shows *)
(* nothing but the text.                                                   *)
TextsWhole ==
    /\ TB!NoLineSkipped /\ []TB!FlagsTrue
    /\ SW!PagesMeet /\ []SW!PartOfText

(* Both input lines edit their text as LineEdit says.                      *)
InputsAreLineEdit == IB!ImplementsLineEdit /\ IF_!ImplementsLineEdit

(* A search in a menu of nconf finds the nearest match.                    *)
NconfFinds == NM!FindsNearest

(* It ends if there is one.                                                *)
NconfSearchEnds == NM!MatchEnds
=============================================================================
