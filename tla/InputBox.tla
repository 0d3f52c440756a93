------------------------------ MODULE InputBox ------------------------------
(***************************************************************************)
(* dialog_inputbox of kconfig/lxdialog/inputbox.c, the one-line input      *)
(* field of mconf.  The text is an array of characters ended by NUL that   *)
(* the code shifts in place.  The field shows box_width of its characters  *)
(* from show_x on, with the cursor in column input_x; like the lists, it   *)
(* is only drawn in parts.                                                 *)
(***************************************************************************)
EXTENDS Integers, Sequences

CONSTANTS
    Chars,       \* characters that can be typed
    MAX_LEN,     \* the longest text
    box_width

VARIABLES
    asked,       \* is the field on the screen?
    instr,       \* dialog_input_result
    len, place,  \* len and pos
    show_x, input_x,
    field,       \* -1: keys go to the field; 0, 1: to Ok and Help
    cells        \* column of the field -> character

boxVars == <<asked, instr, len, place, show_x, input_x, field, cells>>

NUL == "nul"
Blank == " "
Columns == 0..(box_width - 1)

(* The loop that draws the field stops behind the blank that ends it.      *)
Drawn(str, from) ==
    [i \in Columns |->
        IF \E j \in 0..i : str[from + j] = NUL
        THEN IF \A j \in 0..(i - 1) : str[from + j] # NUL THEN Blank ELSE cells[i]
        ELSE str[from + i]]

(* Variant: the column behind the text is not counted.                     *)
SetUpTight(str, n) ==
    LET from == IF n > box_width THEN n - box_width ELSE 0
    IN  /\ len' = n
        /\ place' = n
        /\ show_x' = from
        /\ input_x' = n - from
        /\ cells' = [i \in Columns |-> IF from + i < n THEN str[from + i] ELSE Blank]

(* Setting up the field, on an empty box: the cursor is behind the text.   *)
SetUp(str, n) ==
    LET from == IF n >= box_width THEN n - box_width + 1 ELSE 0
    IN  /\ len' = n
        /\ place' = n
        /\ show_x' = from
        /\ input_x' = n - from
        /\ cells' = [i \in Columns |-> IF from + i < n THEN str[from + i] ELSE Blank]

(* strcpy leaves what is behind the NUL as it was.                         *)
Copied(str) ==
    [i \in DOMAIN instr |->
        IF i < Len(str) THEN str[i + 1] ELSE IF i = Len(str) THEN NUL ELSE instr[i]]

(* strcpy (inputbox.c:56) asks nothing of its text.  Next only opens texts *)
(* of at most MAX_LEN characters: that this is so is an assumption about   *)
(* the values of the configuration, which no code establishes.             *)
Open(init) ==
    /\ ~asked
    /\ asked' = TRUE
    /\ instr' = Copied(init)
    /\ SetUp(instr', Len(init))
    /\ field' = -1

Resize == asked /\ SetUp(instr, len) /\ UNCHANGED <<asked, instr, field>>

InField == asked /\ field = -1 /\ UNCHANGED <<asked, field>>

(* Variant: the cursor does not leave its column while there is text       *)
(* hidden to the left.                                                     *)
BackspaceScroll ==
    /\ InField
    /\ place > 0
    /\ IF show_x > 0
       THEN show_x' = show_x - 1 /\ UNCHANGED input_x
       ELSE input_x' = input_x - 1 /\ UNCHANGED show_x
    /\ instr' = [i \in DOMAIN instr |->
                    IF i = len - 1 THEN NUL
                    ELSE IF i >= place - 1 /\ i < len THEN instr[i + 1] ELSE instr[i]]
    /\ place' = place - 1
    /\ len' = len - 1
    /\ UNCHANGED cells

Backspace ==
    /\ InField
    /\ place > 0
    /\ IF input_x = 0
       THEN show_x' = show_x - 1 /\ UNCHANGED input_x
       ELSE input_x' = input_x - 1 /\ UNCHANGED show_x
    /\ instr' = [i \in DOMAIN instr |->
                    IF i = len - 1 THEN NUL
                    ELSE IF place < len /\ i >= place - 1 /\ i < len THEN instr[i + 1]
                    ELSE instr[i]]
    /\ place' = place - 1
    /\ len' = len - 1
    /\ cells' = Drawn(instr', show_x')

(* Variant: the text does not move.                                        *)
LeftStay ==
    /\ InField
    /\ place > 0
    /\ place' = place - 1
    /\ \/ input_x > 0 /\ input_x' = input_x - 1 /\ UNCHANGED <<show_x, cells>>
       \/ input_x = 0 /\ cells' = Drawn(instr, show_x) /\ UNCHANGED <<show_x, input_x>>
    /\ UNCHANGED <<instr, len>>

(* The cursor moves in the field, or the text under it.                    *)
Left ==
    /\ InField
    /\ place > 0
    /\ place' = place - 1
    /\ \/ input_x > 0 /\ input_x' = input_x - 1 /\ UNCHANGED <<show_x, cells>>
       \/ input_x = 0 /\ show_x' = show_x - 1 /\ cells' = Drawn(instr, show_x') /\ UNCHANGED input_x
    /\ UNCHANGED <<instr, len>>

Right ==
    /\ InField
    /\ place < len
    /\ place' = place + 1
    /\ \/ input_x < box_width - 1 /\ input_x' = input_x + 1 /\ UNCHANGED <<show_x, cells>>
       \/ /\ input_x = box_width - 1
          /\ show_x' = show_x + 1
          /\ cells' = Drawn(instr, show_x')
          /\ UNCHANGED input_x
    /\ UNCHANGED <<instr, len>>

(* Variant: the characters are shifted from the left, which repeats one.   *)
TypeForward(c) ==
    /\ InField
    /\ len < MAX_LEN
    /\ instr' = [i \in DOMAIN instr |->
                    IF i = len + 1 THEN NUL
                    ELSE IF i = place THEN c
                    ELSE IF i > place /\ i <= len THEN instr[place] ELSE instr[i]]
    /\ place' = place + 1
    /\ len' = len + 1
    /\ IF input_x = box_width - 1
       THEN show_x' = show_x + 1 /\ UNCHANGED input_x
       ELSE input_x' = input_x + 1 /\ UNCHANGED show_x
    /\ cells' = Drawn(instr', show_x')

Type(c) ==
    /\ InField
    /\ len < MAX_LEN
    /\ instr' = [i \in DOMAIN instr |->
                    IF i = len + 1 THEN NUL
                    ELSE IF i = place THEN c
                    ELSE IF i > place /\ i <= len THEN instr[i - 1] ELSE instr[i]]
    /\ place' = place + 1
    /\ len' = len + 1
    /\ IF input_x = box_width - 1
       THEN show_x' = show_x + 1 /\ UNCHANGED input_x
       ELSE input_x' = input_x + 1 /\ UNCHANGED show_x
    /\ cells' = Drawn(instr', show_x')

(* TAB and the arrows, which stay in the field unless they go up or down,  *)
(* go through field, Ok and Help.                                          *)
Button(n) ==
    /\ asked
    /\ field' = ((field + 1 + n) % 3) - 1
    /\ UNCHANGED <<asked, instr, len, place, show_x, input_x, cells>>

(* Enter, Esc, or a letter when the keys do not go to the field.           *)
Close ==
    /\ asked
    /\ asked' = FALSE
    /\ UNCHANGED <<instr, len, place, show_x, input_x, field, cells>>

Init ==
    /\ asked = FALSE
    /\ instr = [i \in 0..MAX_LEN |-> NUL]
    /\ len = 0 /\ place = 0 /\ show_x = 0 /\ input_x = 0
    /\ field = -1
    /\ cells = [i \in Columns |-> Blank]

Next ==
    \/ \E n \in 0..MAX_LEN : \E init \in [1..n -> Chars] : Open(init)
    \/ Resize
    \/ Backspace
    \/ Left
    \/ Right
    \/ \E c \in Chars : Type(c)
    \/ \E n \in {-1, 1} : Button(n)
    \/ Close

Spec == Init /\ [][Next]_boxVars

-----------------------------------------------------------------------------
TypeOK ==
    /\ asked \in BOOLEAN
    /\ instr \in [0..MAX_LEN -> Chars \cup {NUL}]
    /\ len \in 0..MAX_LEN
    /\ place \in Nat /\ show_x \in Nat
    /\ input_x \in Int
    /\ field \in -1..1
    /\ cells \in [Columns -> Chars \cup {Blank}]

(* The cursor is in the field, in the column of its place in the text.     *)
CursorRight == place = show_x + input_x /\ place <= len /\ input_x \in Columns

(* The field shows the text around the cursor and nothing that was deleted *)
(* or scrolled out, although only its beginning is drawn after a key       *)
(* (dialog_inputbox, inputbox.c:118).                                      *)
FieldMatches ==
    asked => \A i \in Columns :
        cells[i] = IF show_x + i < len THEN instr[show_x + i] ELSE Blank

(* The array is the text of an input field, its NUL where len says.        *)
Edited == INSTANCE LineEdit WITH
    editing <- asked,
    text <- [i \in 1..len |-> IF instr[len] = NUL THEN instr[i - 1] ELSE NUL],
    pos <- place
ImplementsLineEdit == Edited!Spec
=============================================================================
