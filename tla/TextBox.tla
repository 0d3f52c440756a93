------------------------------ MODULE TextBox ------------------------------
(***************************************************************************)
(* dialog_textbox of kconfig/lxdialog/textbox.c, in which mconf shows help *)
(* texts and the results of a search.                                      *)
(*                                                                         *)
(* The code walks through the text with one pointer, page.  Between two    *)
(* keys it points behind the lines that are on the screen, and every key   *)
(* first walks back from there, using two flags that the last walks left.  *)
(* Here page is the number of the line it points to.  A text has Length    *)
(* lines and, when its last line ends with a newline, page can also be at  *)
(* the empty line behind it, Length + 1, where the string ends.  When the  *)
(* last line does not, Length + 1 stands for the end of that line.         *)
(***************************************************************************)
EXTENDS Integers

CONSTANTS
    Lengths,     \* numbers of lines of the texts
    Boxes,       \* heights of the box
    MAX_LEN      \* the furthest the text is scrolled to the side

VARIABLES
    shown,          \* is the box on the screen?
    length,         \* the number of lines of the text
    newline,        \* does the last one end with a newline?
    search,         \* does the caller update the text as it is shown?
    boxh,
    page, begin_reached, end_reached, page_length, hscroll,
    first,          \* the first line on the screen, 0 if this text was not shown
    vscroll         \* the caller's *_vscroll; its *_hscroll is hscroll

textVars == <<shown, length, newline, search, boxh, page, begin_reached, end_reached,
              page_length, hscroll, first, vscroll>>

End == length + 1
MAX(a, b) == IF a > b THEN a ELSE b
MIN(a, b) == IF a < b THEN a ELSE b

(* The pointer and its two flags.                                          *)
Walk(p, begin, end) == [page |-> p, begin |-> begin, end |-> end]
Here == Walk(page, begin_reached, end_reached)

(* get_line, n times: at the end of the text there only are empty lines.   *)
GetLines(w, n) ==
    LET p == MIN(w.page + n, End)
        read == IF newline THEN n > End - w.page ELSE n >= End - w.page
    IN  Walk(p, w.begin, IF n = 0 THEN w.end ELSE read)

(* Variant: walking back from the end takes no notice of end_reached.      *)
back_linesAll(w, n) ==
    IF n <= 0 THEN [w EXCEPT !.begin = FALSE]
    ELSE Walk(MAX(w.page - n, 1), w.page - n <= 1, w.end)

(* back_lines: the first line of it is the empty one at the end of the     *)
(* text, if that was reached.                                              *)
back_lines(w, n) ==
    LET skip == w.page = End /\ w.end
        m == IF skip THEN n - 1 ELSE n
    IN  IF n <= 0 THEN [w EXCEPT !.begin = FALSE]
        ELSE IF m = 0 THEN Walk(w.page, FALSE, FALSE)
        ELSE Walk(MAX(w.page - m, 1), w.page - m <= 1, w.end /\ ~skip)

(* print_page.  For a search the lines are first read to tell the caller   *)
(* where they are.                                                         *)
Start(w, h) == IF search THEN back_lines(GetLines(w, h), h) ELSE w
Counted(p, h) == MIN(h, IF newline THEN End - p + 1 ELSE End - p)
Refresh(w, h) ==
    LET start == Start(w, h)
        after == GetLines(start, h)
    IN  /\ first' = start.page
        /\ page' = after.page
        /\ begin_reached' = after.begin
        /\ end_reached' = after.end
        /\ page_length' = MAX(1, Counted(start.page, h))

Text == <<length, newline, search>>
Show(w) ==
    /\ shown
    /\ Refresh(w, boxh)
    /\ UNCHANGED <<shown, Text, boxh, vscroll>>
Scroll(w) == Show(w) /\ UNCHANGED hscroll

-----------------------------------------------------------------------------
(* The caller has a text of n lines for a box of h lines.  Only search_conf *)
(* comes back to where it was, with the vscroll it got.  The messages whose *)
(* last line has no newline fit into their box.                            *)
NewText(n, nl, s, h, again) ==
    /\ ~shown
    /\ s => nl
    /\ again => search /\ s
    /\ nl \/ n <= h
    /\ length' = n /\ newline' = nl /\ search' = s /\ boxh' = h
    /\ vscroll' = IF again THEN vscroll ELSE 0
    /\ hscroll' = IF again THEN hscroll ELSE 0
    /\ first' = IF again /\ n = length /\ h = boxh THEN first ELSE 0
    /\ UNCHANGED <<shown, page, begin_reached, end_reached, page_length>>

Open ==
    /\ ~shown
    /\ shown' = TRUE
    /\ Refresh(IF vscroll = 0 THEN Walk(1, TRUE, FALSE)
               ELSE GetLines(Walk(1, FALSE, FALSE), vscroll), boxh)
    /\ UNCHANGED <<Text, boxh, hscroll, vscroll>>

(* The keys.  g and Home, G and End, k, b, j, space:                       *)
Top == ~begin_reached /\ Scroll(Walk(1, TRUE, end_reached))
Bottom == Scroll(back_lines(Walk(End, begin_reached, TRUE), boxh))
Up == ~begin_reached /\ Scroll(back_lines(Here, page_length + 1))
PageUp == ~begin_reached /\ Scroll(back_lines(Here, page_length + boxh))

Down == ~end_reached /\ Scroll(back_lines(Here, page_length - 1))

(* Variant: the flag of the beginning is kept.                             *)
PageDownKeep == ~end_reached /\ Scroll(Here)
PageDown == ~end_reached /\ Scroll([Here EXCEPT !.begin = FALSE])

(* h and l, and 0 for the beginning of the line.                           *)
Aside(n) ==
    /\ hscroll' = n
    /\ Show(back_lines(Here, page_length))
Left(n) == hscroll > 0 /\ n \in {0, hscroll - 1} /\ Aside(n)
Right == hscroll < MAX_LEN /\ Aside(hscroll + 1)

(* KEY_RESIZE goes back by the height of the whole dialog, 4 lines more    *)
(* than the box.  Messages keep their size.                                *)
Resize(h) ==
    /\ shown
    /\ newline \/ h = boxh
    /\ boxh' = h
    /\ Refresh(back_lines(Here, boxh + 4), h)
    /\ UNCHANGED <<shown, Text, vscroll, hscroll>>

(* Variant: what is behind the page is counted.                            *)
CloseBehind ==
    /\ shown
    /\ shown' = FALSE
    /\ vscroll' = IF search THEN page - 1 ELSE vscroll
    /\ first' = IF search THEN first ELSE 0
    /\ hscroll' = IF search THEN hscroll ELSE 0
    /\ UNCHANGED <<Text, boxh, page, begin_reached, end_reached, page_length>>

(* Any of the keys that end it.  The caller of a search learns how many    *)
(* lines are above the page.                                               *)
Close ==
    LET w == back_lines(Here, page_length)
    IN  /\ shown
        /\ shown' = FALSE
        /\ vscroll' = IF search THEN w.page - 1 ELSE vscroll
        /\ first' = IF search THEN first ELSE 0
        /\ hscroll' = IF search THEN hscroll ELSE 0
        /\ UNCHANGED <<Text, boxh, page, begin_reached, end_reached, page_length>>

Init ==
    /\ shown = FALSE
    /\ length = CHOOSE n \in Lengths : TRUE
    /\ newline = TRUE /\ search = FALSE
    /\ boxh = CHOOSE h \in Boxes : TRUE
    /\ page = 1 /\ begin_reached = TRUE /\ end_reached = FALSE
    /\ page_length = 0 /\ hscroll = 0 /\ first = 0 /\ vscroll = 0

Next ==
    \/ \E n \in Lengths, h \in Boxes, nl, s, again \in BOOLEAN :
          NewText(n, nl, s, h, again)
    \/ Open
    \/ Top
    \/ Bottom
    \/ Up
    \/ PageUp
    \/ Down
    \/ PageDown
    \/ \E n \in 0..MAX_LEN : Left(n)
    \/ Right
    \/ \E h \in Boxes : Resize(h)
    \/ Close

Spec == Init /\ [][Next]_textVars

-----------------------------------------------------------------------------
TypeOK ==
    /\ {shown, newline, search, begin_reached, end_reached} \subseteq BOOLEAN
    /\ length \in Lengths /\ boxh \in Boxes
    /\ page \in Nat \ {0} /\ first \in Nat /\ page_length \in Nat
    /\ hscroll \in 0..MAX_LEN
    /\ vscroll \in Nat

(* The flags that refuse keys say what is on the screen, and the pointer   *)
(* is right behind it, whatever keys led there (textbox.c, back_lines).    *)
FlagsTrue ==
    (shown /\ newline) =>
        /\ begin_reached <=> first = 1
        /\ end_reached <=> first + boxh > End
        /\ page = MIN(first + boxh, End)

(* Up and down go by one line, pages meet without leaving out a line, and  *)
(* scrolling to the side changes nothing else.                             *)
NoLineSkipped ==
    [][(shown /\ newline) =>
         /\ Up => first' = first - 1
         /\ Down => first' = first + 1
         /\ PageDown => first' \in (first + 1)..(first + boxh)
         /\ PageUp => first' = MAX(1, first - boxh)
         /\ (hscroll' # hscroll /\ shown') => first' = first]_textVars

(* A search that is opened again after a jump shows the page it was left   *)
(* at.                                                                     *)
SearchReturns == [][(Open /\ first > 0) => first' = first]_textVars
=============================================================================
