--------------------------- MODULE Dialogs_proofs ---------------------------
(***************************************************************************)
(* Proofs about the dialogs.  First their lists: dialog_menu (MenuBox),    *)
(* dialog_checklist (CheckList) and the menus of nconf (NconfMenu); then   *)
(* the texts of mconf (TextBox) and nconf (ScrollWin), the input lines of  *)
(* both (InputBox and InputForm), and all of them together.  Lists, texts, *)
(* windows and terminals are of any size, and every sequence of keys is    *)
(* considered.                                                             *)
(***************************************************************************)
EXTENDS Dialogs, NatSets, SequenceTheorems

-----------------------------------------------------------------------------
(* A line printed, and a window scrolled, still is a window of as many     *)
(* lines.                                                                  *)
Row == [item : Nat, lit : BOOLEAN]
Window(n) == [0..(n - 1) -> Row]

LEMMA PrintItemType ==
    ASSUME NEW n \in Nat, NEW w \in Window(n),
           NEW item \in Nat, NEW line
    PROVE  /\ print_item(w, item, line, TRUE) \in Window(n)
           /\ print_item(w, item, line, FALSE) \in Window(n)
BY DEF print_item, Line, Row, Window

LEMMA ScrolledType ==
    ASSUME NEW n \in Nat, NEW w \in Window(n), NEW by \in Int, NEW from \in Nat
    PROVE  Scrolled(w, by, from) \in Window(n)
BY DEF Scrolled, Line, Row, Window

LEMMA PrintedType ==
    ASSUME NEW n \in Nat, NEW from \in Nat, NEW lit \in Int
    PROVE  /\ Printed(n, from, lit) \in Window(n)
           /\ Shows(Printed(n, from, lit), from, lit)
BY DEF Printed, Line, Row, Window, Shows

(* The highlight put out, the window scrolled and the new line lit: the    *)
(* window shows the list from the new item on.                             *)
LEMMA RedrawnShows ==
    ASSUME NEW n \in Nat, NEW w \in Window(n),
           NEW s \in Nat, NEW c \in 0..(n - 1), Shows(w, s, c),
           NEW s2 \in Nat, NEW c2 \in 0..(n - 1)
    PROVE  Shows(print_item(Scrolled(print_item(w, s + c, c, FALSE), s2 - s, s2),
                            s2 + c2, c2, TRUE), s2, c2)
<1> DEFINE dark == print_item(w, s + c, c, FALSE)
           moved == Scrolled(dark, s2 - s, s2)
<1>1. /\ DOMAIN dark = 0..(n - 1)
      /\ \A l \in 0..(n - 1) : dark[l] = Line(s + l, FALSE)
  BY DEF print_item, Shows, Line, Window
<1>2. /\ DOMAIN moved = 0..(n - 1)
      /\ \A l \in 0..(n - 1) : moved[l] = Line(s2 + l, FALSE)
  <2>1. ASSUME NEW l \in 0..(n - 1) PROVE moved[l] = Line(s2 + l, FALSE)
    <3>1. s + (l + (s2 - s)) = s2 + l
      OBVIOUS
    <3> HIDE DEF dark
    <3> QED BY <1>1, <3>1 DEF Scrolled
  <2> HIDE DEF dark
  <2> QED BY <1>1, <2>1 DEF Scrolled
<1> SUFFICES Shows(print_item(moved, s2 + c2, c2, TRUE), s2, c2)
  OBVIOUS
<1> HIDE DEF moved
<1> QED BY <1>2 DEF print_item, Shows, Line

-----------------------------------------------------------------------------
(* dialog_menu.  Besides what InView and ScreenMatches say: the item conf() *)
(* remembers is one of the list, and with the position it saved that item  *)
(* is where the cursor was.                                                *)
MenuInv ==
    /\ TypeOK /\ InView /\ ScreenMatches
    /\ count > 0 => active < count
    /\ count = 0 => active = NoItem
    /\ (~open /\ active # NoItem) => s_scroll = scroll /\ active = scroll + choice

(* Where dialog_menu starts, max being the lines of the window: with the   *)
(* default item in the window, on the same line as before if the saved     *)
(* position is still good.                                                 *)
WellPlaced(p, n, max, def, s, f) ==
    /\ p.scroll \in Nat /\ p.choice \in Nat /\ p.first \in Nat
    /\ p.scroll + max <= n
    /\ IF n = 0 THEN p.choice = 0 ELSE p.choice < max
    /\ f = 0 => p.first = p.scroll
    /\ (s + max <= n /\ s <= def /\ def < s + max)
          => p.scroll = s /\ p.choice = def - s

LEMMA PlaceInView ==
    ASSUME NEW n \in Nat, NEW max \in 0..n, n > 0 => max > 0,
           NEW def \in Nat, IF n = 0 THEN def = 0 ELSE def < n,
           NEW s \in Nat, NEW f \in Nat
    PROVE  WellPlaced(Place(n, max, def, s, f), n, max, def, s, f)
<1> SUFFICES ASSUME NEW p, p = Place(n, max, def, s, f)
             PROVE  WellPlaced(p, n, max, def, s, f)
  OBVIOUS
<1> USE DEF WellPlaced
<1>1. Fits(n, max, def, s) <=> (s <= def /\ s + max > def /\ s + max <= n)
  BY DEF Fits
<1>2. CASE Fits(n, max, def, s)
  <2>1. def - s < max
    BY <1>1, <1>2
  <2>2. p = [scroll |-> s, first |-> s, choice |-> def - s]
    BY <1>2, <2>1 DEF Place
  <2> QED BY <1>1, <1>2, <2>1, <2>2
<1>3. CASE ~Fits(n, max, def, s) /\ def >= max
  <2> DEFINE new == Centred(n, max, def)
  <2>1. p = [scroll |-> new, first |-> new, choice |-> def - new]
    BY <1>3 DEF Place
  <2>2. /\ new \in Nat /\ new <= def /\ new + max <= n
        /\ IF n = 0 THEN def = new ELSE def < new + max
    BY <1>3 DEF Centred
  <2> HIDE DEF new
  <2> QED BY <1>1, <1>3, <2>1, <2>2
<1>4. CASE ~Fits(n, max, def, s) /\ def < max
  <2>1. p = [scroll |-> 0, first |-> f, choice |-> def]
    BY <1>4 DEF Place
  <2> QED BY <1>1, <1>4, <2>1
<1> QED BY <1>2, <1>3, <1>4

LEMMA VisibleRange ==
    ASSUME NEW n \in Nat, NEW h \in Heights
    PROVE  Visible(n, h) \in 0..n /\ (n > 0 => Visible(n, h) > 0)
BY HeightsAssumption DEF Visible, MIN

(* Opening the dialog or drawing it again, n items in a height of h.       *)
LEMMA DrawInView ==
    ASSUME NEW n \in Nat, NEW h \in Heights, NEW sel \in Int, sel >= NoItem, sel < n,
           s_scroll \in Nat, NEW c \in Nat, NEW f \in Nat,
           IF n = 0 THEN c = 0 ELSE c < n, n = 0 => sel = NoItem,
           Draw(n, h, sel, s_scroll, c, f)
    PROVE  /\ scroll' \in Nat /\ choice' \in Nat /\ first_item' \in Nat
           /\ lines' \in Window(Visible(n, h))
           /\ scroll' + Visible(n, h) <= n
           /\ IF n = 0 THEN choice' = 0 ELSE choice' < Visible(n, h)
           /\ f = 0 => Shows(lines', scroll', choice')
           /\ (sel # NoItem /\ s_scroll + Visible(n, h) <= n
               /\ s_scroll <= sel /\ sel < s_scroll + Visible(n, h))
                 => scroll' = s_scroll /\ choice' = sel - s_scroll
<1> DEFINE max == Visible(n, h)
           def == Default(sel, c)
           p == Place(n, max, def, s_scroll, f)
<1>1. max \in 0..n /\ (n > 0 => max > 0)
  BY VisibleRange
<1>2. def \in Nat /\ (IF n = 0 THEN def = 0 ELSE def < n) /\ (sel # NoItem => def = sel)
  BY DEF Default, NoItem
<1>3. scroll' = p.scroll /\ choice' = p.choice /\ first_item' = p.first
      /\ lines' = Printed(max, p.first, p.choice)
  BY DEF Draw
<1>4. WellPlaced(p, n, max, def, s_scroll, f)
  <2>1. max \in 0..n /\ def \in Nat /\ s_scroll \in Nat /\ f \in Nat /\ n \in Nat
        /\ (n > 0 => max > 0) /\ (IF n = 0 THEN def = 0 ELSE def < n)
    BY <1>1, <1>2
  <2> HIDE DEF max, def
  <2> QED BY <2>1, PlaceInView
<1> SUFFICES /\ scroll' \in Nat /\ choice' \in Nat /\ first_item' \in Nat
             /\ lines' \in Window(max)
             /\ scroll' + max <= n
             /\ IF n = 0 THEN choice' = 0 ELSE choice' < max
             /\ f = 0 => Shows(lines', scroll', choice')
             /\ (sel # NoItem /\ s_scroll + max <= n /\ s_scroll <= sel /\ sel < s_scroll + max)
                   => scroll' = s_scroll /\ choice' = sel - s_scroll
  OBVIOUS
<1> HIDE DEF max, def, p
<1>5. lines' \in Window(max) /\ Shows(lines', p.first, p.choice)
  BY <1>1, <1>3, <1>4, PrintedType DEF WellPlaced
<1> QED BY <1>2, <1>3, <1>4, <1>5 DEF WellPlaced

(* Moving the cursor and the window together.                              *)
LEMMA MoveToInView ==
    ASSUME MenuInv, NEW s \in Nat, NEW c \in Nat, MoveTo(s, c),
           s + max_choice <= count, c < max_choice
    PROVE  MenuInv'
<1>1. /\ open /\ count # 0 /\ scroll' = s /\ choice' = c /\ lines' = Redrawn(s, c)
      /\ UNCHANGED <<open, count, height, first_item, button, s_scroll, active, resized>>
  BY DEF MoveTo
<1>2. max_choice \in Nat /\ max_choice' = max_choice /\ choice < max_choice
  BY <1>1, VisibleRange DEF MenuInv, TypeOK, InView, max_choice
<1>3. /\ lines \in Window(max_choice) /\ scroll \in Nat /\ choice \in 0..(max_choice - 1)
  BY <1>2 DEF MenuInv, TypeOK, Row, Window
<1>4. lines' \in Window(max_choice)
  <2>1. scroll + choice \in Nat /\ s - scroll \in Int /\ s + c \in Nat
    BY <1>3
  <2>2. print_item(lines, scroll + choice, choice, FALSE) \in Window(max_choice)
    BY <1>2, <1>3, <2>1, PrintItemType, Zenon
  <2>3. Scrolled(print_item(lines, scroll + choice, choice, FALSE), s - scroll, s)
          \in Window(max_choice)
    BY <1>2, <2>1, <2>2, ScrolledType, Zenon
  <2> QED BY <1>1, <1>2, <2>1, <2>3, PrintItemType, Zenon DEF Redrawn
<1>5. ~resized => Shows(lines', s, c)
  <2>1. c \in 0..(max_choice - 1)
    BY <1>2
  <2>2. ~resized => Shows(lines, scroll, choice)
    BY <1>1 DEF MenuInv, ScreenMatches
  <2> QED BY <1>1, <1>2, <1>3, <2>1, <2>2, RedrawnShows, Zenon DEF Redrawn
<1>6. TypeOK'
  BY <1>1, <1>2, <1>4 DEF MenuInv, TypeOK, Row, Window
<1>7. InView' /\ ScreenMatches'
  BY <1>1, <1>2, <1>5 DEF InView, ScreenMatches
<1> QED BY <1>1, <1>6, <1>7 DEF MenuInv

-----------------------------------------------------------------------------
LEMMA MenuStarts == Init => MenuInv
<1> SUFFICES ASSUME Init PROVE MenuInv
  OBVIOUS
<1>1. height \in Heights
  BY HeightsAssumption DEF Init
<1>2. /\ open = FALSE /\ count = 0 /\ scroll = 0 /\ choice = 0 /\ first_item = 0
      /\ button = 0 /\ lines = [l \in {} |-> Line(0, FALSE)] /\ s_scroll = 0
      /\ active = NoItem /\ resized = FALSE
  BY Zenon DEF Init
<1>3. max_choice = 0
  BY <1>1, <1>2, HeightsAssumption DEF max_choice, Visible, MIN
<1>4. lines \in [0..(max_choice - 1) -> [item : Nat, lit : BOOLEAN]]
  <2>1. 0..(max_choice - 1) = {}
    BY <1>3
  <2> QED BY <1>2, <2>1
<1>5. TypeOK
  <2>1. /\ count \in 0..MaxItems /\ scroll \in Nat /\ choice \in Nat /\ first_item \in Nat
        /\ button \in 0..4 /\ s_scroll \in Nat /\ active \in Int /\ active >= NoItem
    <3> HIDE <1>1
    <3> QED BY <1>2, MaxItemsAssumption DEF NoItem
  <2> QED BY <1>1, <1>2, <1>4, <2>1, Zenon DEF TypeOK
<1> QED BY <1>2, <1>3, <1>5 DEF MenuInv, InView, ScreenMatches, NoItem

LEMMA OpenKeeps ==
    ASSUME MenuInv, NEW n \in 0..MaxItems, NEW h \in Heights, NEW sel \in NoItem..(n - 1),
           Open(n, h, sel)
    PROVE  MenuInv'
<1> DEFINE max == Visible(n, h)
<1>1. /\ open' = TRUE /\ count' = n /\ height' = h /\ active' = sel /\ button' = 0
      /\ resized' = FALSE /\ s_scroll' = s_scroll /\ Draw(n, h, sel, s_scroll, 0, 0)
  BY DEF Open
<1>2. n \in Nat /\ sel \in Int /\ sel >= NoItem /\ sel < n /\ s_scroll \in Nat
      /\ (n = 0 => sel = NoItem)
  BY MaxItemsAssumption DEF NoItem, MenuInv, TypeOK
<1>3. /\ scroll' \in Nat /\ choice' \in Nat /\ first_item' \in Nat
      /\ lines' \in Window(max)
      /\ scroll' + max <= n
      /\ IF n = 0 THEN choice' = 0 ELSE choice' < max
      /\ Shows(lines', scroll', choice')
  BY <1>1, <1>2, DrawInView
<1>4. max_choice' = max
  BY <1>1 DEF max_choice
<1> HIDE DEF max
<1>5. TypeOK'
  <2>1. button' \in 0..4 /\ active' \in Int /\ active' >= NoItem /\ count' \in 0..MaxItems
    BY <1>1, <1>2
  <2>2. lines' \in [0..(max_choice' - 1) -> [item : Nat, lit : BOOLEAN]]
    BY <1>3, <1>4 DEF Window, Row
  <2> QED BY <1>1, <1>2, <1>3, <2>1, <2>2 DEF TypeOK
<1>6. InView' /\ ScreenMatches'
  BY <1>1, <1>2, <1>3, <1>4 DEF InView, ScreenMatches
<1> QED BY <1>1, <1>2, <1>5, <1>6 DEF MenuInv

LEMMA ResizeKeeps ==
    ASSUME MenuInv, NEW h \in Heights, Resize(h)
    PROVE  MenuInv'
<1> DEFINE max == Visible(count, h)
<1>1. /\ open /\ open' = open /\ height' = h /\ resized' = TRUE
      /\ UNCHANGED <<count, button, s_scroll, active>>
      /\ Draw(count, h, active, s_scroll, choice, first_item)
  BY DEF Resize
<1>2. /\ count \in Nat /\ active \in Int /\ active >= NoItem /\ active < count
      /\ (count = 0 => active = NoItem) /\ s_scroll \in Nat /\ choice \in Nat
      /\ first_item \in Nat /\ (IF count = 0 THEN choice = 0 ELSE choice < count)
  <2>1. max_choice \in 0..count
    BY VisibleRange DEF max_choice, MenuInv, TypeOK
  <2> QED BY <2>1, MaxItemsAssumption DEF MenuInv, TypeOK, InView, NoItem
<1>3. /\ scroll' \in Nat /\ choice' \in Nat /\ first_item' \in Nat
      /\ lines' \in Window(max)
      /\ scroll' + max <= count
      /\ IF count = 0 THEN choice' = 0 ELSE choice' < max
  BY <1>1, <1>2, DrawInView
<1>4. max_choice' = max
  BY <1>1 DEF max_choice
<1> HIDE DEF max
<1>5. TypeOK'
  BY <1>1, <1>2, <1>3, <1>4 DEF MenuInv, TypeOK, Window, Row
<1>6. InView' /\ ScreenMatches'
  BY <1>1, <1>2, <1>3, <1>4 DEF InView, ScreenMatches
<1> QED BY <1>1, <1>2, <1>5, <1>6 DEF MenuInv

(* What the cursor keys pass to MoveTo is in the list.                     *)
LEMMA CursorKeysKeep ==
    ASSUME MenuInv, Up \/ Down \/ PageUp \/ PageDown
    PROVE  MenuInv'
<1>1. /\ count \in Nat /\ count # 0 /\ scroll \in Nat /\ choice \in Nat
      /\ max_choice \in 1..count /\ scroll + max_choice <= count /\ choice < max_choice
  <2>1. count # 0
    BY DEF Up, Down, PageUp, PageDown, MoveTo
  <2>2. max_choice \in 0..count /\ (count > 0 => max_choice > 0)
    BY VisibleRange DEF max_choice, MenuInv, TypeOK
  <2> QED BY <2>1, <2>2 DEF MenuInv, TypeOK, InView
<1>2. CASE Up
  <2>1. CASE choice < 2 /\ scroll > 0
    <3>1. MoveTo(scroll - 1, choice)
      BY <1>2, <2>1 DEF Up
    <3>2. scroll - 1 \in Nat /\ scroll - 1 + max_choice <= count
      BY <1>1, <2>1
    <3> QED BY <1>1, <3>1, <3>2, MoveToInView
  <2>2. CASE ~(choice < 2 /\ scroll > 0)
    <3>1. MoveTo(scroll, MAX(choice - 1, 0))
      BY <1>2, <2>2 DEF Up
    <3>2. MAX(choice - 1, 0) \in Nat /\ MAX(choice - 1, 0) < max_choice
      BY <1>1 DEF MAX
    <3> QED BY <1>1, <3>1, <3>2, MoveToInView
  <2> QED BY <2>1, <2>2
<1>3. CASE Down
  <2>1. CASE choice > max_choice - 3 /\ scroll + max_choice < count
    <3>1. MoveTo(scroll + 1, choice)
      BY <1>3, <2>1 DEF Down
    <3>2. scroll + 1 \in Nat /\ scroll + 1 + max_choice <= count
      BY <1>1, <2>1
    <3> QED BY <1>1, <3>1, <3>2, MoveToInView
  <2>2. CASE ~(choice > max_choice - 3 /\ scroll + max_choice < count)
    <3>1. MoveTo(scroll, MIN(choice + 1, max_choice - 1))
      BY <1>3, <2>2 DEF Down
    <3>2. MIN(choice + 1, max_choice - 1) \in Nat /\ MIN(choice + 1, max_choice - 1) < max_choice
      BY <1>1 DEF MIN
    <3> QED BY <1>1, <3>1, <3>2, MoveToInView
  <2> QED BY <2>1, <2>2
<1>4. CASE PageUp
  <2> DEFINE n == MIN(scroll, max_choice)
             c == MAX(choice - (max_choice - n), 0)
  <2>1. MoveTo(scroll - n, c)
    BY <1>4 DEF PageUp
  <2>2. scroll - n \in Nat /\ c \in Nat /\ scroll - n + max_choice <= count /\ c < max_choice
    BY <1>1 DEF MIN, MAX
  <2> HIDE DEF n, c
  <2> QED BY <2>1, <2>2, MoveToInView
<1>5. CASE PageDown
  <2> DEFINE n == MIN(count - max_choice - scroll, max_choice)
             c == MIN(choice + (max_choice - n), max_choice - 1)
  <2>1. MoveTo(scroll + n, c)
    BY <1>5 DEF PageDown
  <2>2. scroll + n \in Nat /\ c \in Nat /\ scroll + n + max_choice <= count /\ c < max_choice
    BY <1>1 DEF MIN
  <2> HIDE DEF n, c
  <2> QED BY <2>1, <2>2, MoveToInView
<1> QED BY <1>2, <1>3, <1>4, <1>5

(* The least line of those with the letter.                                *)
LEMMA MinIn ==
    ASSUME NEW S \in SUBSET Nat, S # {}
    PROVE  Min(S) \in S /\ \A x \in S : Min(S) <= x
<1>1. PICK m \in S : \A x \in S : m <= x
  BY NatLeast
<1> QED BY <1>1 DEF Min

LEMMA LetterKeeps ==
    ASSUME MenuInv, NEW letter, Letter(letter)
    PROVE  MenuInv'
<1> DEFINE below == {l \in LinesWith(letter) : l > choice}
           there == IF below # {} THEN below ELSE LinesWith(letter)
<1>1. MoveTo(scroll, Min(there)) /\ LinesWith(letter) # {}
  BY DEF Letter
<1>2. scroll \in Nat /\ max_choice \in Nat /\ scroll + max_choice <= count
  BY VisibleRange DEF MenuInv, TypeOK, InView, max_choice
<1>3. there # {} /\ there \in SUBSET Nat /\ there \subseteq 0..(max_choice - 1)
  BY <1>1, <1>2 DEF LinesWith
<1> HIDE DEF there
<1>4. Min(there) \in 0..(max_choice - 1)
  BY <1>3, MinIn
<1>5. Min(there) \in Nat /\ Min(there) < max_choice
  BY <1>2, <1>4
<1> QED BY <1>1, <1>2, <1>5, MoveToInView

(* The keys that leave the list as it is.                                  *)
LEMMA OthersKeep ==
    ASSUME MenuInv, (\E n \in {-1, 1} : Button(n)) \/ (\E k : Answer(k)) \/ Exit
                    \/ UNCHANGED menuVars
    PROVE  MenuInv'
<1>1. /\ max_choice' = max_choice /\ count' = count /\ scroll' = scroll /\ choice' = choice
      /\ lines' = lines /\ height' = height /\ first_item' = first_item /\ resized' = resized
      /\ open' \in BOOLEAN
  BY DEF Button, Answer, Exit, menuVars, max_choice, MenuInv, TypeOK
<1>2. button' \in 0..4
  BY DEF Button, Answer, Exit, menuVars, MenuInv, TypeOK
<1>3. /\ s_scroll' \in Nat /\ active' \in Int /\ active' >= NoItem
      /\ (count > 0 => active' < count) /\ (count = 0 => active' = NoItem)
      /\ (~open' /\ active' # NoItem) => s_scroll' = scroll /\ active' = scroll + choice
  <2>1. CASE \E k : Answer(k)
    <3>1. s_scroll' = scroll /\ active' = IF count = 0 THEN NoItem ELSE scroll + choice
      BY <2>1 DEF Answer
    <3>2. /\ scroll \in Nat /\ choice \in Nat /\ count \in Nat /\ max_choice \in Nat
          /\ (count > 0 => scroll + choice < count)
      BY VisibleRange, MaxItemsAssumption DEF MenuInv, TypeOK, InView, max_choice
    <3> QED BY <3>1, <3>2 DEF NoItem
  <2>2. CASE Exit
    BY <2>2, MaxItemsAssumption DEF Exit, NoItem, MenuInv, TypeOK
  <2>3. CASE (\E n \in {-1, 1} : Button(n)) \/ UNCHANGED menuVars
    BY <2>3 DEF Button, menuVars, MenuInv, TypeOK
  <2> QED BY <2>1, <2>2, <2>3
<1>4. TypeOK'
  BY <1>1, <1>2, <1>3 DEF MenuInv, TypeOK
<1>5. InView' /\ ScreenMatches'
  <2>1. open' => open
    BY DEF Button, Answer, Exit, menuVars
  <2> QED BY <1>1, <2>1 DEF MenuInv, InView, ScreenMatches
<1> QED BY <1>1, <1>3, <1>4, <1>5 DEF MenuInv

LEMMA MenuKept == MenuInv /\ [Next]_menuVars => MenuInv'
<1> SUFFICES ASSUME MenuInv, [Next]_menuVars PROVE MenuInv'
  OBVIOUS
<1>1. CASE \E n \in 0..MaxItems, h \in Heights : \E sel \in NoItem..(n - 1) : Open(n, h, sel)
  BY <1>1, OpenKeeps
<1>2. CASE \E h \in Heights : Resize(h)
  BY <1>2, ResizeKeeps
<1>3. CASE Up \/ Down \/ PageUp \/ PageDown
  BY <1>3, CursorKeysKeep
<1>4. CASE \E k \in Letters : Letter(k)
  BY <1>4, LetterKeeps
<1>5. CASE (\E n \in {-1, 1} : Button(n)) \/ (\E k : Answer(k)) \/ Exit
           \/ UNCHANGED menuVars
  BY <1>5, OthersKeep
<1> QED BY <1>1, <1>2, <1>3, <1>4, <1>5 DEF Next

(* The list of dialog_menu is on the screen as the cursor is moved over it,*)
(* with the cursor on an item.                                             *)
THEOREM MenuIsRight == Spec => [](TypeOK /\ InView /\ ScreenMatches)
<1>1. MenuInv => TypeOK /\ InView /\ ScreenMatches
  BY DEF MenuInv
<1> QED BY <1>1, MenuStarts, MenuKept, PTL DEF Spec

LEMMA ReopenedInPlace ==
    ASSUME MenuInv, [Next]_menuVars,
           ~open, open', active' = active, active # NoItem, count' = count, height' = height
    PROVE  scroll' = scroll /\ choice' = choice
<1>1. PICK n \in 0..MaxItems, h \in Heights : \E sel \in NoItem..(n - 1) : Open(n, h, sel)
  BY DEF Next, menuVars, Resize, Up, Down, PageUp, PageDown, Letter, MoveTo, Button, Answer, Exit
<1>2. /\ Open(n, h, active) /\ n = count /\ h = height
  BY <1>1 DEF Open
<1>3. /\ n \in Nat /\ active \in Int /\ active >= NoItem /\ active < n /\ s_scroll \in Nat
      /\ Draw(n, h, active, s_scroll, 0, 0)
  BY <1>2, MaxItemsAssumption DEF MenuInv, TypeOK, NoItem, Open
<1>4. /\ s_scroll = scroll /\ active = scroll + choice /\ scroll \in Nat /\ choice \in Nat
      /\ scroll + Visible(n, h) <= n /\ choice < Visible(n, h) /\ n # 0
  BY <1>2, <1>3 DEF MenuInv, TypeOK, InView, max_choice, NoItem
<1>5. Visible(n, h) \in Nat
  BY <1>3, VisibleRange
<1>6. scroll' = s_scroll /\ choice' = active - s_scroll
  <2>1. /\ active # NoItem /\ s_scroll + Visible(n, h) <= n
        /\ s_scroll <= active /\ active < s_scroll + Visible(n, h)
    BY <1>4, <1>5
  <2> QED BY <1>3, <1>4, <2>1, DrawInView
<1> QED BY <1>4, <1>6

LEMMA ArrowsByOne ==
    ASSUME MenuInv
    PROVE  /\ Down => scroll' + choice' = MIN(scroll + choice + 1, count - 1)
           /\ Up => scroll' + choice' = MAX(scroll + choice - 1, 0)
<1>1. /\ max_choice \in Nat /\ scroll \in Nat /\ choice \in Nat /\ count \in Nat
      /\ scroll + max_choice <= count /\ (count > 0 => choice < max_choice)
  BY VisibleRange, MaxItemsAssumption DEF MenuInv, TypeOK, InView, max_choice
<1>2. ASSUME Down PROVE scroll' + choice' = MIN(scroll + choice + 1, count - 1)
  <2>1. /\ count # 0
        /\ IF choice > max_choice - 3 /\ scroll + max_choice < count
           THEN scroll' = scroll + 1 /\ choice' = choice
           ELSE scroll' = scroll /\ choice' = MIN(choice + 1, max_choice - 1)
    BY <1>2 DEF Down, MoveTo
  <2> QED BY <1>1, <2>1 DEF MIN
<1>3. ASSUME Up PROVE scroll' + choice' = MAX(scroll + choice - 1, 0)
  <2>1. /\ count # 0
        /\ IF choice < 2 /\ scroll > 0
           THEN scroll' = scroll - 1 /\ choice' = choice
           ELSE scroll' = scroll /\ choice' = MAX(choice - 1, 0)
    BY <1>3 DEF Up, MoveTo
  <2> QED BY <1>1, <2>1 DEF MAX
<1> QED BY <1>2, <1>3

(* Who comes back to a list of the same items is where he was, and the     *)
(* arrows go by one item.                                                  *)
THEOREM MenuPlaces == Spec => PlaceKept /\ MovesByOne
<1>1. MenuInv /\ [Next]_menuVars =>
        ((~open /\ open' /\ active' = active /\ active # NoItem
          /\ count' = count /\ height' = height)
         => scroll' = scroll /\ choice' = choice)
  BY ReopenedInPlace
<1>2. MenuInv => /\ Down => scroll' + choice' = MIN(scroll + choice + 1, count - 1)
                 /\ Up => scroll' + choice' = MAX(scroll + choice - 1, 0)
  BY ArrowsByOne
<1> QED BY <1>1, <1>2, MenuStarts, MenuKept, PTL DEF Spec, PlaceKept, MovesByOne

-----------------------------------------------------------------------------
(* dialog_checklist.  Besides what ListMatches says: while the help text is *)
(* shown, conf_choice remembers the item the cursor was on.                *)
CheckListInv ==
    /\ CL!TypeOK /\ CL!ListMatches
    /\ (~listed /\ last # CL!NoItem) => last = listTop + cursor

LEMMA RowsRange ==
    ASSUME NEW n \in ListSizes
    PROVE  /\ n \in Nat /\ n > 0
           /\ CL!Rows(n) \in 1..n /\ CL!Rows(n) <= list_height
           /\ list_height > CL!Rows(n) => CL!Rows(n) = n
BY ListsAssumption DEF CL!Rows, MIN, CL!MIN

LEMMA ListShown ==
    ASSUME CheckListInv, listed
    PROVE  /\ listItems \in ListSizes /\ listTop \in Nat /\ cursor \in Nat
           /\ CL!Rows(listItems) \in Nat /\ CL!Rows(listItems) > 0
           /\ cursor < CL!Rows(listItems) /\ CL!Last = CL!Rows(listItems) - 1
           /\ listTop + CL!Rows(listItems) <= listItems
           /\ rows \in Window(CL!Rows(listItems)) /\ Shows(rows, listTop, cursor)
<1>1. /\ CL!Last = CL!Rows(listItems) - 1 /\ listItems \in Nat
      /\ CL!Rows(listItems) \in Nat /\ CL!Rows(listItems) > 0
  BY RowsRange DEF CheckListInv, CL!TypeOK, CL!Last
<1>2. CL!Shows(rows, listTop, cursor) /\ DOMAIN rows = 0..(CL!Rows(listItems) - 1)
  BY <1>1 DEF CheckListInv, CL!ListMatches
<1>3. rows \in Window(CL!Rows(listItems))
  BY <1>2 DEF CheckListInv, CL!TypeOK, Window, Row
<1>4. Shows(rows, listTop, cursor)
  BY <1>2 DEF CL!Shows, Shows, CL!Line, Line
<1> QED BY <1>1, <1>3, <1>4 DEF CheckListInv, CL!TypeOK, CL!ListMatches

(* A list on the screen that is drawn in its place keeps the invariant.    *)
LEMMA ListDrawn ==
    ASSUME listed' \in BOOLEAN, help' \in BOOLEAN, listItems' \in ListSizes,
           listTop' \in Nat, cursor' \in Nat, cursor' < CL!Rows(listItems'),
           listTop' + CL!Rows(listItems') <= listItems', listed',
           rows' \in Window(CL!Rows(listItems')), Shows(rows', listTop', cursor'),
           last' \in CL!NoItem..(listItems' - 1)
    PROVE  CheckListInv'
<1>1. /\ listItems' \in Nat /\ CL!Rows(listItems') \in Nat
      /\ CL!Last' = CL!Rows(listItems') - 1
  BY RowsRange DEF CL!Last
<1>2. /\ DOMAIN rows' = 0..(CL!Rows(listItems') - 1)
      /\ rows' \in [DOMAIN rows' -> [item : Nat, lit : BOOLEAN]]
      /\ DOMAIN rows' \subseteq Nat
  BY <1>1 DEF Window, Row
<1>3. CL!Shows(rows', listTop', cursor')
  BY DEF CL!Shows, Shows, CL!Line, Line
<1>4. CL!TypeOK'
  BY <1>2 DEF CL!TypeOK
<1>5. CL!ListMatches'
  BY <1>1, <1>2, <1>3 DEF CL!ListMatches
<1> QED BY <1>4, <1>5 DEF CheckListInv

LEMMA ListOpens ==
    ASSUME CheckListInv, NEW n \in ListSizes, NEW x \in 0..(n - 1),
           last # CL!NoItem => n = listItems, CL!Open(n, x)
    PROVE  /\ CheckListInv'
           /\ last # CL!NoItem => listTop' + cursor' = last
<1> DEFINE sel == IF last # CL!NoItem THEN last ELSE x
           below == MAX(sel - list_height + 1, 0)
<1>1. sel \in 0..(n - 1)
  BY DEF CheckListInv, CL!TypeOK, CL!NoItem
<1>2. /\ n \in Nat /\ CL!Rows(n) \in Nat /\ CL!Rows(n) <= list_height
      /\ list_height \in Nat /\ (list_height > CL!Rows(n) => CL!Rows(n) = n) /\ CL!Rows(n) <= n
  BY RowsRange, ListsAssumption
<1>3. /\ ~listed /\ listed' = TRUE /\ listItems' = n /\ listTop' = below
      /\ cursor' = sel - below /\ help' = FALSE /\ last' = last
      /\ rows' = Printed(CL!Rows(n), below, sel - below)
  BY Zenon DEF CL!Open, CL!MAX, MAX, CL!Printed, Printed, CL!Line, Line
<1> HIDE DEF sel
<1>4. /\ below \in Nat /\ sel - below \in Nat /\ sel - below < CL!Rows(n)
      /\ below + CL!Rows(n) <= n /\ below + (sel - below) = sel
  <2>1. sel \in Nat /\ sel < n
    BY <1>1, <1>2
  <2>2. CASE sel < list_height
    <3>1. below = 0
      BY <1>2, <2>1, <2>2 DEF MAX
    <3> HIDE DEF below
    <3> QED BY <1>2, <2>1, <2>2, <3>1
  <2>3. CASE sel >= list_height
    <3>1. below = sel - list_height + 1 /\ CL!Rows(n) = list_height
      BY <1>2, <2>1, <2>3 DEF MAX
    <3> HIDE DEF below
    <3> QED BY <1>2, <2>1, <2>3, <3>1, ListsAssumption
  <2> QED BY <1>2, <2>1, <2>2, <2>3
<1> HIDE DEF below
<1>5. rows' \in Window(CL!Rows(n)) /\ Shows(rows', below, sel - below)
  <2>1. sel - below \in Int
    BY <1>4
  <2> QED BY <1>2, <1>3, <1>4, <2>1, PrintedType
<1>6. last' \in CL!NoItem..(listItems' - 1)
  BY <1>2, <1>3 DEF CheckListInv, CL!TypeOK, CL!NoItem
<1>7. CheckListInv'
  BY <1>2, <1>3, <1>4, <1>5, <1>6, ListDrawn
<1>8. last # CL!NoItem => listTop' + cursor' = last
  BY <1>3, <1>4 DEF sel
<1> QED BY <1>7, <1>8

(* The old line put out and the new one lit.                               *)
LEMMA LitShows ==
    ASSUME NEW n \in Nat, NEW w \in Window(n),
           NEW s \in Nat, NEW c \in 0..(n - 1), Shows(w, s, c), NEW c2 \in 0..(n - 1)
    PROVE  /\ print_item(print_item(w, s + c, c, FALSE), s + c2, c2, TRUE) \in Window(n)
           /\ Shows(print_item(print_item(w, s + c, c, FALSE), s + c2, c2, TRUE), s, c2)
<1> DEFINE dark == print_item(w, s + c, c, FALSE)
<1>1. /\ DOMAIN dark = 0..(n - 1)
      /\ \A l \in 0..(n - 1) : dark[l] = Line(s + l, FALSE)
  BY DEF print_item, Shows, Line, Window
<1>2. dark \in Window(n)
  <2>1. s + c \in Nat
    OBVIOUS
  <2> QED BY <2>1, PrintItemType, Zenon
<1>3. print_item(dark, s + c2, c2, TRUE) \in Window(n)
  <2>1. s + c2 \in Nat
    OBVIOUS
  <2> HIDE DEF dark
  <2> QED BY <1>2, <2>1, PrintItemType, Zenon
<1>4. Shows(print_item(dark, s + c2, c2, TRUE), s, c2)
  <2> HIDE DEF dark
  <2> QED BY <1>1 DEF print_item, Shows, Line
<1> QED BY <1>3, <1>4

LEMMA GoToKeeps ==
    ASSUME CheckListInv, CL!Moves, NEW line \in 0..CL!Last, CL!GoTo(line)
    PROVE  CheckListInv'
<1>1. /\ cursor' = line /\ listTop' = listTop /\ listed /\ UNCHANGED <<listed, listItems, help, last>>
      /\ rows' = print_item(print_item(rows, listTop + cursor, cursor, FALSE),
                            listTop + line, line, TRUE)
  BY DEF CL!GoTo, CL!Moves, CL!print_item, print_item, CL!Line, Line
<1>2. /\ listItems \in ListSizes /\ listTop \in Nat /\ cursor \in Nat
      /\ CL!Rows(listItems) \in Nat /\ cursor \in 0..(CL!Rows(listItems) - 1)
      /\ line \in 0..(CL!Rows(listItems) - 1)
      /\ listTop + CL!Rows(listItems) <= listItems
      /\ rows \in Window(CL!Rows(listItems)) /\ Shows(rows, listTop, cursor)
  BY <1>1, ListShown
<1>3. rows' \in Window(CL!Rows(listItems)) /\ Shows(rows', listTop, line)
  BY <1>1, <1>2, LitShows, Zenon
<1>4. line \in Nat /\ line < CL!Rows(listItems)
  BY <1>2
<1>5. help \in BOOLEAN /\ last \in CL!NoItem..(listItems - 1)
  BY DEF CheckListInv, CL!TypeOK
<1> QED BY <1>1, <1>2, <1>3, <1>4, <1>5, ListDrawn

LEMMA ScrollByKeeps ==
    ASSUME CheckListInv, CL!Moves, NEW n \in {-1, 1}, CL!ScrollBy(n, cursor),
           listTop + n >= 0, listTop + n + CL!Rows(listItems) <= listItems
    PROVE  CheckListInv'
<1> DEFINE R == CL!Rows(listItems)
           old == print_item(rows, listTop + cursor, cursor, FALSE)
           moved == IF list_height > 1 THEN Scrolled(old, n, listTop + n) ELSE rows
<1>1. /\ cursor' = cursor /\ listTop' = listTop + n /\ listed
      /\ UNCHANGED <<listed, listItems, help, last>>
      /\ rows' = print_item(moved, listTop + n + cursor, cursor, TRUE)
  BY DEF CL!ScrollBy, CL!Moves, CL!print_item, print_item, CL!Scrolled, Scrolled, CL!Line, Line
<1>2. /\ listItems \in ListSizes /\ listTop \in Nat /\ cursor \in Nat
      /\ R \in Nat /\ cursor \in 0..(R - 1) /\ cursor < R
      /\ rows \in Window(R) /\ Shows(rows, listTop, cursor)
      /\ listTop + n \in Nat /\ listTop + cursor \in Nat /\ listTop + n + cursor \in Nat
      /\ n \in Int /\ R <= list_height
  BY <1>1, ListShown, RowsRange
<1>3. rows' \in Window(R) /\ Shows(rows', listTop + n, cursor)
  <2>1. CASE list_height > 1
    <3>1. n = (listTop + n) - listTop
      BY <1>2
    <3>2. Scrolled(old, n, listTop + n) \in Window(R)
      BY <1>2, PrintItemType, ScrolledType, Zenon
    <3>3. rows' = print_item(Scrolled(old, n, listTop + n), listTop + n + cursor, cursor, TRUE)
      BY <1>1, <2>1
    <3>4. rows' \in Window(R)
      BY <1>2, <3>2, <3>3, PrintItemType, Zenon
    <3>5. Shows(rows', listTop + n, cursor)
      BY <1>2, <3>1, <3>3, RedrawnShows, Zenon
    <3> QED BY <3>4, <3>5
  <2>2. CASE ~(list_height > 1)
    <3>1. rows' = print_item(rows, listTop + n + cursor, cursor, TRUE)
      BY <1>1, <2>2
    <3>2. R = 1 /\ cursor = 0
      BY <1>2, <2>2, ListsAssumption
    <3>3. rows' \in Window(R)
      BY <1>2, <3>1, PrintItemType, Zenon
    <3>4. Shows(rows', listTop + n, cursor)
      <4>1. DOMAIN rows = {0}
        BY <1>2, <3>2 DEF Window
      <4>2. DOMAIN rows' = {0} /\ rows'[0] = Line(listTop + n + cursor, TRUE)
        BY <3>1, <3>2, <4>1 DEF print_item
      <4> QED BY <1>2, <3>2, <4>2 DEF Shows, Line
    <3> QED BY <3>3, <3>4
  <2> QED BY <2>1, <2>2
<1>4. help \in BOOLEAN /\ last \in CL!NoItem..(listItems - 1)
  BY DEF CheckListInv, CL!TypeOK
<1> QED BY <1>1, <1>2, <1>3, <1>4, ListDrawn

LEMMA CheckListStarts == CL!Init => CheckListInv
<1> SUFFICES ASSUME CL!Init PROVE CheckListInv
  OBVIOUS
<1>1. listItems \in ListSizes
  BY ListsAssumption DEF CL!Init
<1>2. /\ listed = FALSE /\ listTop = 0 /\ cursor = 0 /\ help = FALSE /\ last = CL!NoItem
      /\ rows = CL!Printed(0, 0, 0)
  BY Zenon DEF CL!Init
<1>3. DOMAIN rows \subseteq Nat /\ rows \in [DOMAIN rows -> [item : Nat, lit : BOOLEAN]]
  BY <1>2 DEF CL!Printed, CL!Line
<1>4. last \in CL!NoItem..(listItems - 1)
  BY <1>1, <1>2, RowsRange DEF CL!NoItem
<1>5. CL!TypeOK
  BY <1>1, <1>2, <1>3, <1>4 DEF CL!TypeOK
<1> QED BY <1>2, <1>5 DEF CheckListInv, CL!ListMatches

LEMMA CheckListKept == CheckListInv /\ [CL!Next]_(CL!listVars) => CheckListInv'
<1> SUFFICES ASSUME CheckListInv, [CL!Next]_(CL!listVars) PROVE CheckListInv'
  OBVIOUS
<1>1. CASE \E n \in ListSizes : \E x \in 0..(n - 1) :
             (last # CL!NoItem => n = listItems) /\ CL!Open(n, x)
  BY <1>1, ListOpens
<1>2. CASE CL!Resize
  <2>1. /\ listed /\ UNCHANGED <<listed, listItems, listTop, cursor, help, last>>
        /\ rows' = Printed(CL!Rows(listItems), listTop, cursor)
    BY <1>2 DEF CL!Resize, CL!Printed, Printed, CL!Line, Line
  <2>2. rows' \in Window(CL!Rows(listItems)) /\ Shows(rows', listTop, cursor)
    <3>1. cursor \in Int
      BY <2>1, ListShown
    <3> QED BY <2>1, <3>1, ListShown, PrintedType
  <2>3. help \in BOOLEAN /\ last \in CL!NoItem..(listItems - 1)
    BY DEF CheckListInv, CL!TypeOK
  <2> QED BY <2>1, <2>2, <2>3, ListShown, ListDrawn
<1>3. CASE CL!Up \/ CL!Down
  <2>1. /\ CL!Moves /\ listed
        /\ \/ cursor > 0 /\ CL!GoTo(cursor - 1)
           \/ cursor < CL!Last /\ CL!GoTo(cursor + 1)
           \/ cursor = 0 /\ listTop > 0 /\ CL!ScrollBy(-1, cursor)
           \/ cursor = CL!Last /\ listTop + cursor < listItems - 1 /\ CL!ScrollBy(1, cursor)
    BY <1>3 DEF CL!Up, CL!Down, CL!Moves
  <2>2. /\ cursor \in 0..CL!Last /\ CL!Last \in Nat /\ CL!Last = CL!Rows(listItems) - 1
        /\ listTop \in Nat /\ listItems \in Nat /\ CL!Rows(listItems) \in Nat
        /\ listTop + CL!Rows(listItems) <= listItems
    BY <2>1, ListShown, RowsRange
  <2>3. CASE cursor > 0 /\ CL!GoTo(cursor - 1)
    BY <2>1, <2>2, <2>3, GoToKeeps
  <2>4. CASE cursor < CL!Last /\ CL!GoTo(cursor + 1)
    BY <2>1, <2>2, <2>4, GoToKeeps
  <2>5. CASE cursor = 0 /\ listTop > 0 /\ CL!ScrollBy(-1, cursor)
    <3>1. listTop + (-1) >= 0 /\ listTop + (-1) + CL!Rows(listItems) <= listItems
      BY <2>2, <2>5
    <3> QED BY <2>1, <2>5, <3>1, ScrollByKeeps
  <2>6. CASE cursor = CL!Last /\ listTop + cursor < listItems - 1 /\ CL!ScrollBy(1, cursor)
    <3>1. listTop + 1 >= 0 /\ listTop + 1 + CL!Rows(listItems) <= listItems
      BY <2>2, <2>6
    <3> QED BY <2>1, <2>6, <3>1, ScrollByKeeps
  <2> QED BY <2>1, <2>3, <2>4, <2>5, <2>6
<1>4. CASE \E k \in Keys : CL!Letter(k)
  <2>1. PICK k \in Keys : CL!Letter(k)
    BY <1>4
  <2>2. /\ CL!Moves /\ listed /\ CL!RowsWith(k) # {} /\ CL!GoTo(CL!Min(CL!RowsWith(k)))
    BY <2>1 DEF CL!Letter, CL!Moves
  <2>3. CL!RowsWith(k) \in SUBSET Nat /\ CL!RowsWith(k) \subseteq 0..CL!Last
    BY DEF CL!RowsWith
  <2>4. CL!Min(CL!RowsWith(k)) \in 0..CL!Last
    <3>1. CL!Min(CL!RowsWith(k)) = Min(CL!RowsWith(k))
      BY Zenon DEF CL!Min, Min
    <3> QED BY <2>2, <2>3, <3>1, MinIn
  <2> QED BY <2>2, <2>4, GoToKeeps
<1>5. CASE CL!Button \/ UNCHANGED CL!listVars
  <2>1. UNCHANGED <<listed, listItems, listTop, cursor, rows, last>> /\ help' \in BOOLEAN
    BY <1>5 DEF CL!Button, CL!listVars, CheckListInv, CL!TypeOK
  <2>2. CL!Last' = CL!Last
    BY <2>1 DEF CL!Last
  <2> QED BY <2>1, <2>2 DEF CheckListInv, CL!TypeOK, CL!ListMatches
<1>6. CASE \E k : CL!Help(k) \/ CL!Answer(k)
  <2>1. /\ listed /\ listed' = FALSE /\ UNCHANGED <<listItems, listTop, cursor, help, rows>>
        /\ last' = listTop + cursor \/ last' = CL!NoItem
    BY <1>6 DEF CL!Help, CL!Answer, CL!Close
  <2>2. last' \in CL!NoItem..(listItems - 1)
    BY <2>1, ListShown, RowsRange DEF CL!NoItem
  <2> QED BY <2>1, <2>2 DEF CheckListInv, CL!TypeOK, CL!ListMatches
<1> QED BY <1>1, <1>2, <1>3, <1>4, <1>5, <1>6 DEF CL!Next

(* dialog_checklist shows the list the cursor is moved over, with the      *)
(* cursor in it, and after a help text is on the same item again.          *)
THEOREM CheckListIsRight == CL!Spec => [](CL!TypeOK /\ CL!ListMatches) /\ CL!HelpReturns
<1>1. CheckListInv => CL!TypeOK /\ CL!ListMatches
  BY DEF CheckListInv
<1>2. CheckListInv /\ [CL!Next]_(CL!listVars) =>
        ((~listed /\ listed' /\ last # CL!NoItem) => listTop' + cursor' = listTop + cursor)
  <2> SUFFICES ASSUME CheckListInv, [CL!Next]_(CL!listVars), ~listed, listed', last # CL!NoItem
               PROVE  listTop' + cursor' = listTop + cursor
    OBVIOUS
  <2>1. PICK n \in ListSizes : \E x \in 0..(n - 1) :
               (last # CL!NoItem => n = listItems) /\ CL!Open(n, x)
    BY DEF CL!Next, CL!listVars, CL!Resize, CL!Up, CL!Down, CL!Moves, CL!Letter, CL!Button,
           CL!Help, CL!Answer, CL!Close
  <2>2. listTop' + cursor' = last
    BY <2>1, ListOpens
  <2> QED BY <2>2 DEF CheckListInv
<1> QED BY <1>1, <1>2, CheckListStarts, CheckListKept, PTL DEF CL!Spec, CL!HelpReturns

-----------------------------------------------------------------------------
(* A menu of nconf.  The window starts in the menu, and in a search none   *)
(* of the items nearer than the one looked at contains the pattern.        *)
NconfInv ==
    /\ NM!TypeOK /\ NM!CurrentInWindow
    /\ top <= NM!max(NM!items_num - mwin_max_lines, 0)
    /\ pc = "match" =>
         /\ match_start \in -1..NM!items_num
         /\ \A i \in 0..(NM!items_num - 1) :
              NM!Distance(i) < NM!Distance(index) => ~NM!Matches(i)

LEMMA ModOnce ==
    ASSUME NEW n \in Nat \ {0}, NEW x \in 0..(3 * n)
    PROVE  x % n = IF x < n THEN x ELSE IF x < 2 * n THEN x - n
                   ELSE IF x < 3 * n THEN x - 2 * n ELSE 0
OBVIOUS

LEMMA NconfItems ==
    ASSUME items \in Menus
    PROVE  NM!items_num \in Nat /\ NM!items_num > 0
BY MenusAssumption DEF NM!items_num

(* Where a search starts, and without the modulus how far the others are.  *)
Base(n, start) == IF start = -1 THEN n - 1 ELSE IF start = n THEN 0 ELSE start
Away(n, b, i) == IF i >= b THEN i - b ELSE i - b + n
Upwards == match_direction \in {"NEXT_UP", "PATTERN_UP"}

LEMMA BaseRange ==
    ASSUME NEW n \in Nat \ {0}, NEW start \in -1..n
    PROVE  /\ (start + n) % n = Base(n, start)
           /\ Base(n, start) \in 0..(n - 1)
BY ModOnce DEF Base

LEMMA DownIs ==
    ASSUME NEW n \in Nat \ {0}, NEW start \in -1..n, NEW i \in 0..(n - 1)
    PROVE  (i - start + 2 * n) % n = Away(n, Base(n, start), i)
<1>1. PICK x \in 0..(3 * n) : x = i - start + 2 * n
  OBVIOUS
<1>2. x % n = IF x < n THEN x ELSE IF x < 2 * n THEN x - n
              ELSE IF x < 3 * n THEN x - 2 * n ELSE 0
  BY ModOnce
<1>3. Away(n, Base(n, start), i) = IF x < n THEN x ELSE IF x < 2 * n THEN x - n
                                   ELSE IF x < 3 * n THEN x - 2 * n ELSE 0
  BY <1>1 DEF Away, Base
<1> QED BY <1>1, <1>2, <1>3

LEMMA UpIs ==
    ASSUME NEW n \in Nat \ {0}, NEW b \in 0..(n - 1), NEW i \in 0..(n - 1)
    PROVE  (n - Away(n, b, i)) % n = Away(n, i, b)
<1>1. PICK x \in 0..(3 * n) : x = n - Away(n, b, i)
  BY DEF Away
<1>2. x % n = IF x < n THEN x ELSE IF x < 2 * n THEN x - n
              ELSE IF x < 3 * n THEN x - 2 * n ELSE 0
  BY ModOnce
<1>3. Away(n, i, b) = IF x < n THEN x ELSE 0
  BY <1>1 DEF Away
<1>4. x <= n
  BY <1>1 DEF Away
<1> QED BY <1>1, <1>2, <1>3, <1>4

LEMMA DistanceIs ==
    ASSUME NM!items_num \in Nat \ {0}, match_start \in -1..NM!items_num,
           NEW i \in 0..(NM!items_num - 1)
    PROVE  NM!Distance(i) =
             IF Upwards THEN Away(NM!items_num, i, Base(NM!items_num, match_start))
             ELSE Away(NM!items_num, Base(NM!items_num, match_start), i)
<1> DEFINE n == NM!items_num
           b == Base(n, match_start)
           down == (i - match_start + 2 * n) % n
<1>1. NM!Distance(i) = IF Upwards THEN (n - down) % n ELSE down
  BY DEF NM!Distance, Upwards
<1>2. down = Away(n, b, i)
  BY DownIs
<1>3. b \in 0..(n - 1)
  BY BaseRange
<1>4. (n - Away(n, b, i)) % n = Away(n, i, b)
  <2> HIDE DEF b
  <2> QED BY <1>3, UpIs
<1> HIDE DEF down
<1> QED BY <1>1, <1>2, <1>4

LEMMA OneFurther ==
    ASSUME NEW n \in Nat \ {0}, NEW i \in 0..(n - 1)
    PROVE  /\ (i - 1 + n) % n = IF i = 0 THEN n - 1 ELSE i - 1
           /\ (i + 1 + n) % n = IF i = n - 1 THEN 0 ELSE i + 1
<1>1. PICK x \in 0..(3 * n) : x = i - 1 + n
  OBVIOUS
<1>2. PICK y \in 0..(3 * n) : y = i + 1 + n
  OBVIOUS
<1>3. x % n = (IF x < n THEN x ELSE x - n) /\ y % n = (IF y < 2 * n THEN y - n ELSE 0)
  <2>1. x < 2 * n /\ n <= y /\ y <= 2 * n
    BY <1>1, <1>2
  <2>2. x % n = IF x < n THEN x ELSE IF x < 2 * n THEN x - n
                ELSE IF x < 3 * n THEN x - 2 * n ELSE 0
    BY ModOnce
  <2>3. y % n = IF y < n THEN y ELSE IF y < 2 * n THEN y - n
                ELSE IF y < 3 * n THEN y - 2 * n ELSE 0
    BY ModOnce
  <2> QED BY <2>1, <2>2, <2>3
<1> QED BY <1>1, <1>2, <1>3

LEMMA StepsIs ==
    ASSUME NM!items_num \in Nat \ {0}, NEW i \in 0..(NM!items_num - 1)
    PROVE  NM!Steps(i) = IF Upwards THEN (IF i = 0 THEN NM!items_num - 1 ELSE i - 1)
                         ELSE (IF i = NM!items_num - 1 THEN 0 ELSE i + 1)
<1>1. NM!Steps(i) = IF Upwards THEN (i - 1 + NM!items_num) % NM!items_num
                    ELSE (i + 1 + NM!items_num) % NM!items_num
  BY DEF NM!Steps, Upwards
<1> QED BY <1>1, OneFurther

(* The items are at different distances.                                   *)
LEMMA AwayApart ==
    ASSUME NEW n \in Nat \ {0}, NEW b \in 0..(n - 1), NEW i \in 0..(n - 1), NEW j \in 0..(n - 1)
    PROVE  /\ Away(n, b, j) \in 0..(n - 1) /\ Away(n, j, b) \in 0..(n - 1)
           /\ Away(n, b, j) = Away(n, b, i) => j = i
           /\ Away(n, j, b) = Away(n, i, b) => j = i
BY DEF Away

(* A step of the search goes one item further, until it comes around.      *)
LEMMA StepsFurther ==
    ASSUME NM!items_num \in Nat \ {0}, match_start \in -1..NM!items_num,
           NEW i \in 0..(NM!items_num - 1)
    PROVE  /\ NM!Steps(i) \in 0..(NM!items_num - 1)
           /\ NM!Distance(i) \in 0..(NM!items_num - 1)
           /\ \/ NM!Distance(NM!Steps(i)) = NM!Distance(i) + 1
              \/ NM!Distance(NM!Steps(i)) = 0 /\ NM!Distance(i) = NM!items_num - 1
                 /\ NM!Steps(i) = Base(NM!items_num, match_start)
           /\ \A j \in 0..(NM!items_num - 1) :
                /\ NM!Distance(j) \in 0..(NM!items_num - 1)
                /\ NM!Distance(j) = NM!Distance(i) => j = i
<1> DEFINE n == NM!items_num
           b == Base(n, match_start)
           D(j) == IF Upwards THEN Away(n, j, b) ELSE Away(n, b, j)
           s == NM!Steps(i)
<1>1. n \in Nat \ {0} /\ b \in 0..(n - 1) /\ i \in 0..(n - 1)
  BY BaseRange
<1>2. \A j \in 0..(n - 1) : NM!Distance(j) = D(j)
  BY DistanceIs
<1>3. s = IF Upwards THEN (IF i = 0 THEN n - 1 ELSE i - 1) ELSE (IF i = n - 1 THEN 0 ELSE i + 1)
  BY StepsIs
<1>4. s \in 0..(n - 1)
  BY <1>1, <1>3
<1>5. \A j \in 0..(n - 1) : D(j) \in 0..(n - 1) /\ (D(j) = D(i) => j = i)
  <2> HIDE DEF n, b
  <2> QED BY <1>1, AwayApart
<1>6. D(s) = D(i) + 1 \/ (D(s) = 0 /\ D(i) = n - 1 /\ s = b)
  <2> HIDE DEF n, b, s
  <2> QED BY <1>1, <1>3, <1>4 DEF Away
<1> HIDE DEF n, b, s, D
<1>7. NM!Distance(i) = D(i) /\ NM!Distance(s) = D(s)
  BY <1>2, <1>4 DEF n
<1>8. /\ s \in 0..(n - 1)
      /\ NM!Distance(i) \in 0..(n - 1)
      /\ \/ NM!Distance(s) = NM!Distance(i) + 1
         \/ NM!Distance(s) = 0 /\ NM!Distance(i) = n - 1 /\ s = b
      /\ \A j \in 0..(n - 1) : NM!Distance(j) \in 0..(n - 1)
                               /\ (NM!Distance(j) = NM!Distance(i) => j = i)
  BY <1>2, <1>4, <1>5, <1>6, <1>7 DEF n
<1> QED BY <1>8 DEF n, b, s

LEMMA NconfStarts == NM!Init => NconfInv
<1> SUFFICES ASSUME NM!Init PROVE NconfInv
  OBVIOUS
<1>1. items \in Menus /\ mwin_max_lines \in Windows
  BY MenusAssumption DEF NM!Init
<1>2. /\ current = 0 /\ top = 0 /\ last_top_row = 0 /\ in_search = FALSE /\ pattern = << >>
      /\ match_direction = "PATTERN_DOWN" /\ match_start = 0 /\ pc = "key" /\ found = -1
  BY Zenon DEF NM!Init
<1>3. NM!items_num \in Nat /\ NM!items_num > 0 /\ mwin_max_lines \in Nat /\ mwin_max_lines > 0
      /\ MaxPattern \in Nat
  BY <1>1, NconfItems, MenusAssumption
<1>4. pattern \in Seq(PatternChars) /\ Len(pattern) <= MaxPattern
  BY <1>2, <1>3
<1>5. /\ current \in 0..(NM!items_num - 1) /\ top \in Nat /\ last_top_row \in Int
      /\ found \in Int /\ match_start \in Int
  BY <1>2, <1>3
<1>6. NM!TypeOK
  BY <1>1, <1>2, <1>4, <1>5 DEF NM!TypeOK
<1>7. NM!CurrentInWindow /\ top <= NM!max(NM!items_num - mwin_max_lines, 0)
  BY <1>2, <1>3 DEF NM!CurrentInWindow, NM!max
<1> QED BY <1>2, <1>6, <1>7 DEF NconfInv

(* What the invariant says of the window, as numbers.                      *)
WindowOn(n, h, i, t) ==
    /\ n \in Nat /\ n > 0 /\ h \in Nat /\ h > 0
    /\ i \in 0..(n - 1) /\ t \in Nat /\ i \in t..(t + h - 1)
    /\ t <= NM!max(n - h, 0)

LEMMA NconfWindow ==
    ASSUME NconfInv
    PROVE  WindowOn(NM!items_num, mwin_max_lines, current, top)
BY NconfItems, MenusAssumption DEF NconfInv, NM!TypeOK, NM!CurrentInWindow, WindowOn

LEMMA MoveInWindow ==
    ASSUME NconfInv, NEW i \in 0..(NM!items_num - 1), NM!Move(i)
    PROVE  WindowOn(NM!items_num, mwin_max_lines, current', top')
BY NconfWindow DEF WindowOn, NM!Move, NM!Followed, NM!max

(* Rows set_top_row accepts.                                               *)
LEMMA RowsOk ==
    ASSUME NEW n \in Nat, n > 0, NEW h \in Nat, h > 0, NEW row, NEW row0,
           NM!RowOk(n, h, row0)
    PROVE  /\ NM!RowOk(n, h, NM!set_top_row(n, h, row, row0))
           /\ NM!RowOk(n, h, row) => NM!set_top_row(n, h, row, row0) = row
BY DEF NM!set_top_row

LEMMA RowIs ==
    ASSUME NEW n \in Nat, n > 0, NEW h \in Nat, h > 0, NEW t
    PROVE  NM!RowOk(n, h, t) <=> t \in Nat /\ t < n /\ (t = 0 \/ t <= n - h)
BY DEF NM!RowOk, NM!max

(* center_item shows its item, and the row remembered if the item is in it.*)
LEMMA CentreInWindow ==
    ASSUME NEW n \in Nat, n > 0, NEW h \in Nat, h > 0, NEW i \in Nat, NEW row \in Int,
           NEW row0, NM!RowOk(n, h, row0), NM!Centre(n, h, i, row, row0)
    PROVE  /\ WindowOn(n, h, current', top')
           /\ last_top_row' \in Int
           /\ i < n => current' = i
           /\ i < n /\ NM!RowOk(n, h, row) /\ i \in row..(row + h - 1) => top' = row
<1> DEFINE saved  == NM!set_top_row(n, h, row, row0)
           toprow == IF i \in saved..(saved + h - 1) THEN saved ELSE NM!Centred(n, h, i)
           window == NM!set_top_row(n, h, toprow, saved)
<1>1. /\ last_top_row' = toprow
      /\ current' = IF i < n THEN i ELSE window
      /\ top' = IF i < n THEN NM!Followed(h, i, window) ELSE window
  BY DEF NM!Centre
<1>2. NM!RowOk(n, h, saved) /\ (NM!RowOk(n, h, row) => saved = row)
  BY RowsOk
<1> HIDE DEF saved
<1>3. saved \in Nat
  BY <1>2, RowIs
<1>4. NM!Centred(n, h, i) \in Int
  <2>1. h \div 2 \in Nat
    OBVIOUS
  <2> QED BY <2>1 DEF NM!Centred, NM!max
<1>5. toprow \in Int
  BY <1>3, <1>4
<1>6. NM!RowOk(n, h, window) /\ (NM!RowOk(n, h, toprow) => window = toprow)
  BY <1>2, RowsOk
<1> HIDE DEF window
<1>7. window \in Nat /\ window < n /\ (window = 0 \/ window <= n - h)
  BY <1>6, RowIs
<1>8. CASE i < n
  <2>1. current' = i /\ top' = NM!Followed(h, i, window)
    BY <1>1, <1>8
  <2>2. WindowOn(n, h, current', top')
    BY <1>7, <1>8, <2>1 DEF WindowOn, NM!Followed, NM!max
  <2>3. ASSUME NM!RowOk(n, h, row), i \in row..(row + h - 1) PROVE top' = row
    <3>1. saved = row /\ toprow = row /\ window = row
      BY <1>2, <1>6, <2>3
    <3> QED BY <2>1, <2>3, <3>1 DEF NM!Followed
  <2> QED BY <1>1, <1>5, <1>8, <2>1, <2>2, <2>3
<1>9. CASE ~(i < n)
  <2>1. current' = window /\ top' = window
    BY <1>1, <1>9
  <2>2. WindowOn(n, h, current', top')
    BY <1>7, <2>1 DEF WindowOn, NM!max
  <2> QED BY <1>1, <1>5, <1>9, <2>2
<1> QED BY <1>8, <1>9

(* Outside of get_mext_match.                                              *)
LEMMA NconfAtKey ==
    ASSUME items' \in Menus, mwin_max_lines' \in Windows,
           WindowOn(NM!items_num', mwin_max_lines', current', top'),
           in_search' \in BOOLEAN, pattern' \in Seq(PatternChars), Len(pattern') <= MaxPattern,
           match_direction' \in {"PATTERN_UP", "PATTERN_DOWN", "NEXT_UP", "NEXT_DOWN"},
           match_start' \in Int, found' \in Int, last_top_row' \in Int, pc' = "key"
    PROVE  NconfInv'
<1>1. NM!TypeOK'
  BY Zenon DEF NM!TypeOK, WindowOn
<1> QED BY <1>1 DEF NconfInv, WindowOn, NM!CurrentInWindow

(* What the keys find.                                                     *)
LEMMA NconfTypes ==
    ASSUME NconfInv
    PROVE  /\ items \in Menus /\ mwin_max_lines \in Windows /\ in_search \in BOOLEAN
           /\ match_direction \in {"PATTERN_UP", "PATTERN_DOWN", "NEXT_UP", "NEXT_DOWN"}
           /\ match_start \in Int /\ found \in Int /\ last_top_row \in Int
           /\ pattern \in Seq(PatternChars) /\ Len(pattern) <= MaxPattern
           /\ << >> \in Seq(PatternChars) /\ Len(<< >>) <= MaxPattern
<1>1. << >> \in Seq(PatternChars) /\ Len(<< >>) <= MaxPattern
  BY MenusAssumption
<1> QED BY <1>1, Zenon DEF NconfInv, NM!TypeOK

LEMMA NconfMovesKeep ==
    ASSUME NconfInv, NM!Down \/ NM!Up \/ NM!First \/ NM!Last
    PROVE  NconfInv'
<1>1. NM!items_num \in Nat /\ NM!items_num > 0 /\ current \in 0..(NM!items_num - 1)
  BY NconfWindow DEF WindowOn
<1>2. PICK i \in 0..(NM!items_num - 1) : NM!Move(i)
  <2>1. \/ NM!Move(current + 1) /\ current < NM!items_num - 1
        \/ NM!Move(current - 1) /\ current > 0
        \/ NM!Move(0) \/ NM!Move(NM!items_num - 1)
    BY DEF NM!Down, NM!Up, NM!First, NM!Last, NM!Walk
  <2>2. /\ current < NM!items_num - 1 => current + 1 \in 0..(NM!items_num - 1)
        /\ current > 0 => current - 1 \in 0..(NM!items_num - 1)
        /\ 0 \in 0..(NM!items_num - 1) /\ NM!items_num - 1 \in 0..(NM!items_num - 1)
    BY <1>1
  <2> QED BY <2>1, <2>2, Zenon
<1>3. /\ pc' = "key"
      /\ UNCHANGED <<items, mwin_max_lines, last_top_row, match_start, found>>
  BY <1>2 DEF NM!Move, NM!Loop
<1>4. /\ (in_search' = FALSE /\ pattern' = << >>) \/ UNCHANGED <<in_search, pattern>>
      /\ match_direction' = match_direction
  BY DEF NM!Down, NM!Up, NM!First, NM!Last, NM!Walk, NM!EndSearch, NM!Search
<1>5. WindowOn(NM!items_num', mwin_max_lines', current', top')
  BY <1>2, <1>3, MoveInWindow DEF NM!items_num
<1>6. in_search' \in BOOLEAN /\ pattern' \in Seq(PatternChars) /\ Len(pattern') <= MaxPattern
  BY <1>4, NconfTypes, Zenon
<1> QED BY <1>3, <1>4, <1>5, <1>6, NconfTypes, NconfAtKey

LEMMA NconfPagesKeep ==
    ASSUME NconfInv, NM!PageDown \/ NM!PageUp
    PROVE  NconfInv'
<1>1. WindowOn(NM!items_num, mwin_max_lines, current, top)
  BY NconfWindow
<1>2. PICK by \in Int :
        /\ NM!Page(by)
        /\ \/ by = NM!min(mwin_max_lines, NM!max(NM!items_num - mwin_max_lines - top, 0))
           \/ by = -NM!min(mwin_max_lines, top)
  <2>1. /\ NM!min(mwin_max_lines, NM!max(NM!items_num - mwin_max_lines - top, 0)) \in Int
        /\ -NM!min(mwin_max_lines, top) \in Int
    BY <1>1 DEF WindowOn, NM!min, NM!max
  <2> QED BY <2>1 DEF NM!PageDown, NM!PageUp
<1>3. /\ current' = current + by /\ top' = top + by /\ pc' = "key"
      /\ UNCHANGED <<items, mwin_max_lines, last_top_row, in_search, pattern, match_direction,
                     match_start, found>>
  BY <1>2 DEF NM!Page, NM!Search, NM!Loop
<1>4. WindowOn(NM!items_num', mwin_max_lines', current', top')
  <2>1. NM!items_num' = NM!items_num
    BY <1>3 DEF NM!items_num
  <2> QED BY <1>1, <1>2, <1>3, <2>1 DEF WindowOn, NM!min, NM!max
<1> QED BY <1>3, <1>4, NconfTypes, NconfAtKey

(* A list that is shown, whatever row and item were remembered.            *)
LEMMA NconfShows ==
    ASSUME NconfInv, NEW m \in Menus, NEW h \in Windows, NEW i \in Nat, NEW row \in Int,
           NM!Show(m, h, i, row),
           \/ in_search' = FALSE /\ pattern' = << >>
           \/ UNCHANGED <<in_search, pattern>>,
           match_direction' \in {"PATTERN_DOWN", match_direction}
    PROVE  NconfInv'
<1>1. /\ items' = m /\ mwin_max_lines' = h /\ NM!Centre(Len(m), h, i, row, 0)
      /\ pc' = "key" /\ match_start' = match_start /\ found' = found
  BY DEF NM!Show, NM!Loop
<1>2. Len(m) \in Nat /\ Len(m) > 0 /\ h \in Nat /\ h > 0
  BY MenusAssumption
<1>3. NM!RowOk(Len(m), h, 0)
  BY <1>2, RowIs
<1>4. WindowOn(Len(m), h, current', top') /\ last_top_row' \in Int
  BY <1>1, <1>2, <1>3, CentreInWindow
<1>5. WindowOn(NM!items_num', mwin_max_lines', current', top')
  BY <1>1, <1>4 DEF NM!items_num
<1>6. in_search' \in BOOLEAN /\ pattern' \in Seq(PatternChars) /\ Len(pattern') <= MaxPattern
  BY NconfTypes, Zenon
<1>7. match_direction' \in {"PATTERN_UP", "PATTERN_DOWN", "NEXT_UP", "NEXT_DOWN"}
  BY NconfTypes
<1> QED BY <1>1, <1>4, <1>5, <1>6, <1>7, NconfTypes, NconfAtKey

LEMMA NconfShownKeep ==
    ASSUME NconfInv, NEW m \in Menus, NEW h \in Windows,
           \/ NM!Open(m, h)
           \/ \E value0 \in 0..(Len(m) - 1) : NM!OpenChoice(m, h, value0)
           \/ NM!Reopen(m, h)
    PROVE  NconfInv'
<1>1. current \in Nat /\ top \in Int
  BY NconfWindow DEF WindowOn
<1>2. CASE NM!Open(m, h)
  <2>1. /\ NM!Show(m, h, 0, 0) /\ in_search' = FALSE /\ pattern' = << >>
        /\ match_direction' \in {"PATTERN_DOWN", match_direction}
    BY <1>2 DEF NM!Open, NM!NoSearch
  <2>2. 0 \in Nat /\ 0 \in Int
    OBVIOUS
  <2> QED BY <2>1, <2>2, NconfShows
<1>3. ASSUME NEW value0 \in 0..(Len(m) - 1), NM!OpenChoice(m, h, value0) PROVE NconfInv'
  <2>1. value0 \in Nat
    BY MenusAssumption
  <2>2. /\ NM!Show(m, h, value0, top) /\ in_search' = FALSE /\ pattern' = << >>
        /\ match_direction' \in {"PATTERN_DOWN", match_direction}
    BY <1>3 DEF NM!OpenChoice, NM!NoSearch
  <2> QED BY <1>1, <2>1, <2>2, NconfShows
<1>4. CASE NM!Reopen(m, h)
  BY <1>1, <1>4, NconfShows DEF NM!Reopen, NM!EndSearch, NM!Search
<1> QED BY <1>2, <1>3, <1>4

(* conf() comes back to where it was.                                      *)
LEMMA NconfReopens ==
    ASSUME NconfInv, NEW m \in Menus, NEW h \in Windows, NM!Reopen(m, h)
    PROVE  /\ current < Len(m) => current' = current
           /\ m = items /\ h = mwin_max_lines => top' = top
<1>1. WindowOn(NM!items_num, mwin_max_lines, current, top)
  BY NconfWindow
<1>2. Len(m) \in Nat /\ Len(m) > 0 /\ h \in Nat /\ h > 0
  BY MenusAssumption
<1>3. NM!RowOk(Len(m), h, 0) /\ current \in Nat /\ top \in Int
  BY <1>1, <1>2, RowIs DEF WindowOn
<1>4. NM!Centre(Len(m), h, current, top, 0)
  BY DEF NM!Reopen, NM!Show
<1>5. /\ current < Len(m) => current' = current
      /\ current < Len(m) /\ NM!RowOk(Len(m), h, top) /\ current \in top..(top + h - 1) => top' = top
  BY <1>2, <1>3, <1>4, CentreInWindow
<1>6. ASSUME m = items, h = mwin_max_lines
      PROVE  current < Len(m) /\ NM!RowOk(Len(m), h, top) /\ current \in top..(top + h - 1)
  <2>1. Len(m) = NM!items_num
    BY <1>6 DEF NM!items_num
  <2>2. NM!RowOk(NM!items_num, h, top)
    BY <1>1, <1>6 DEF WindowOn, NM!RowOk
  <2> QED BY <1>1, <1>6, <2>1, <2>2 DEF WindowOn
<1> QED BY <1>5, <1>6

LEMMA NconfSearchKeysKeep ==
    ASSUME NconfInv, NM!Slash \/ NM!Backspace
    PROVE  NconfInv'
<1>1. /\ UNCHANGED <<items, mwin_max_lines, current, top, last_top_row, match_start>>
      /\ pc' = "key" /\ found' = -1 /\ (in_search' = in_search \/ in_search' = ~in_search)
      /\ pattern' = << >> \/ pattern' = SubSeq(pattern, 1, Len(pattern) - 1)
      /\ match_direction' \in {"PATTERN_DOWN", NM!adj_match_dir(match_direction)}
  BY DEF NM!Slash, NM!Backspace, NM!Place
<1>2. /\ items \in Menus /\ mwin_max_lines \in Windows /\ in_search \in BOOLEAN
      /\ match_direction \in {"PATTERN_UP", "PATTERN_DOWN", "NEXT_UP", "NEXT_DOWN"}
      /\ match_start \in Int /\ last_top_row \in Int
      /\ pattern \in Seq(PatternChars) /\ Len(pattern) <= MaxPattern
  BY Zenon DEF NconfInv, NM!TypeOK
<1>3. WindowOn(NM!items_num', mwin_max_lines', current', top')
  BY <1>1, NconfWindow DEF NM!items_num
<1>4. match_direction' \in {"PATTERN_UP", "PATTERN_DOWN", "NEXT_UP", "NEXT_DOWN"}
  BY <1>1, <1>2 DEF NM!adj_match_dir
<1>5. pattern' \in Seq(PatternChars) /\ Len(pattern') <= MaxPattern
  <2>1. /\ Len(pattern) - 1 \in Int /\ Len(pattern) \in Nat
        /\ \A i \in 1..(Len(pattern) - 1) : pattern[i] \in PatternChars
    BY <1>2
  <2>2. /\ SubSeq(pattern, 1, Len(pattern) - 1) \in Seq(PatternChars)
        /\ Len(SubSeq(pattern, 1, Len(pattern) - 1)) =
             IF 1 <= Len(pattern) - 1 THEN Len(pattern) - 1 - 1 + 1 ELSE 0
    BY <2>1, SubSeqProperties
  <2>3. CASE pattern' = << >>
    BY <2>3, MenusAssumption
  <2>4. CASE pattern' = SubSeq(pattern, 1, Len(pattern) - 1)
    <3>1. Len(SubSeq(pattern, 1, Len(pattern) - 1)) <= MaxPattern
      BY <1>2, <2>1, <2>2, MenusAssumption
    <3> QED BY <2>2, <2>4, <3>1, Zenon
  <2> QED BY <1>1, <2>3, <2>4
<1>6. in_search' \in BOOLEAN /\ found' \in Int
  <2>1. in_search' \in BOOLEAN
    BY <1>1, <1>2, Zenon
  <2> QED BY <1>1, <2>1
<1> QED BY <1>1, <1>2, <1>3, <1>4, <1>5, <1>6, NconfAtKey

(* get_mext_match begins: nothing is nearer than the item it begins with.  *)
LEMMA NconfStartKeeps ==
    ASSUME NconfInv, NEW d \in {"PATTERN_UP", "PATTERN_DOWN", "NEXT_UP", "NEXT_DOWN"},
           NM!Start(d), pattern' \in Seq(PatternChars), Len(pattern') <= MaxPattern
    PROVE  NconfInv'
<1> DEFINE n == NM!items_num
           b == Base(n, match_start')
<1>1. /\ match_direction' = d /\ match_start' \in {current, current + 1, current - 1}
      /\ index' = (match_start' + n) % n /\ pc' = "match"
      /\ UNCHANGED <<items, mwin_max_lines, current, top, last_top_row, in_search, found>>
  BY DEF NM!Start, NM!Place
<1>2. WindowOn(n, mwin_max_lines, current, top)
  BY NconfWindow
<1>3. n \in Nat \ {0} /\ match_start' \in -1..n /\ match_start' \in Int
  BY <1>1, <1>2 DEF WindowOn
<1>4. index' = b /\ b \in 0..(n - 1)
  BY <1>1, <1>3, BaseRange
<1>5. NM!items_num' = n
  BY <1>1 DEF NM!items_num
<1>6. \A i \in 0..(n - 1) :
        ~(NM!Distance(i)' < NM!Distance(index)')
  <2> SUFFICES ASSUME NEW i \in 0..(n - 1) PROVE ~(NM!Distance(i)' < NM!Distance(index)')
    OBVIOUS
  <2> DEFINE up == match_direction' \in {"NEXT_UP", "PATTERN_UP"}
             dist(j) == IF up THEN Away(n, j, b) ELSE Away(n, b, j)
  <2>1. ASSUME NEW j \in 0..(n - 1)
        PROVE  (IF up THEN (n - ((j - match_start' + 2 * n) % n)) % n
                ELSE (j - match_start' + 2 * n) % n) = dist(j)
    <3>1. (j - match_start' + 2 * n) % n = Away(n, b, j)
      BY <1>3, DownIs
    <3>2. (n - Away(n, b, j)) % n = Away(n, j, b)
      <4> HIDE DEF n, b
      <4> QED BY <1>3, <1>4, <2>1, UpIs
    <3> QED BY <3>1, <3>2
  <2>2. NM!Distance(i)' = dist(i)
    BY <1>5, <2>1 DEF NM!Distance
  <2>3. NM!Distance(index)' = dist(b)
    BY <1>4, <1>5, <2>1 DEF NM!Distance
  <2>4. dist(b) = 0 /\ dist(i) \in Nat
    <3> HIDE DEF n, b
    <3>1. i \in 0..(n - 1)
      BY DEF n
    <3> QED BY <1>3, <1>4, <3>1 DEF Away
  <2> HIDE DEF dist, n, b
  <2> QED BY <2>2, <2>3, <2>4
<1>7. NM!TypeOK'
  <2>1. /\ items \in Menus /\ mwin_max_lines \in Windows /\ in_search \in BOOLEAN
        /\ current \in 0..(n - 1) /\ top \in Nat /\ last_top_row \in Int /\ found \in Int
    BY Zenon DEF NconfInv, NM!TypeOK
  <2> HIDE DEF n, b
  <2> QED BY <1>1, <1>3, <1>4, <1>5, <2>1 DEF NM!TypeOK
<1>8. NM!CurrentInWindow' /\ (top <= NM!max(n - mwin_max_lines, 0))'
  BY <1>1, <1>2, <1>5 DEF NM!CurrentInWindow, WindowOn
<1> QED BY <1>1, <1>3, <1>5, <1>6, <1>7, <1>8 DEF NconfInv

LEMMA NconfStartsKeep ==
    ASSUME NconfInv, (\E c \in PatternChars : NM!Type(c)) \/ NM!Next_Match \/ NM!Previous_Match
    PROVE  NconfInv'
<1>1. /\ match_direction \in {"PATTERN_UP", "PATTERN_DOWN", "NEXT_UP", "NEXT_DOWN"}
      /\ pattern \in Seq(PatternChars) /\ Len(pattern) <= MaxPattern
  BY Zenon DEF NconfInv, NM!TypeOK
<1>2. CASE \E c \in PatternChars : NM!Type(c)
  <2>1. PICK c \in PatternChars : NM!Type(c)
    BY <1>2
  <2>2. /\ Len(pattern) < MaxPattern /\ NM!Start(NM!adj_match_dir(match_direction))
        /\ pattern' = Append(pattern, c)
    BY <2>1 DEF NM!Type
  <2>3. pattern' \in Seq(PatternChars) /\ Len(pattern') <= MaxPattern
    BY <1>1, <2>2, MenusAssumption
  <2>4. NM!adj_match_dir(match_direction) \in {"PATTERN_UP", "PATTERN_DOWN", "NEXT_UP", "NEXT_DOWN"}
    BY <1>1 DEF NM!adj_match_dir
  <2> QED BY <2>2, <2>3, <2>4, NconfStartKeeps
<1>3. CASE NM!Next_Match
  BY <1>1, <1>3, NconfStartKeeps DEF NM!Next_Match
<1>4. CASE NM!Previous_Match
  BY <1>1, <1>4, NconfStartKeeps DEF NM!Previous_Match
<1> QED BY <1>2, <1>3, <1>4

LEMMA MatchKeeps ==
    ASSUME NconfInv, NM!Match
    PROVE  /\ NconfInv'
           /\ pc' = "key" =>
                IF found' = -1 THEN \A i \in 0..(NM!items_num - 1) : ~NM!Matches(i)
                ELSE /\ current' = found' /\ NM!Matches(found')
                     /\ \A i \in 0..(NM!items_num - 1) :
                          NM!Matches(i) => NM!Distance(found') <= NM!Distance(i)
<1> DEFINE n == NM!items_num
<1>1. /\ UNCHANGED <<items, mwin_max_lines, in_search, pattern, match_direction, match_start>>
      /\ pc = "match"
  BY DEF NM!Match, NM!Search
<1>2. WindowOn(n, mwin_max_lines, current, top) /\ n \in Nat \ {0}
  BY NconfWindow DEF WindowOn
<1>3. /\ items \in Menus /\ mwin_max_lines \in Windows /\ in_search \in BOOLEAN
      /\ match_direction \in {"PATTERN_UP", "PATTERN_DOWN", "NEXT_UP", "NEXT_DOWN"}
      /\ pattern \in Seq(PatternChars) /\ Len(pattern) <= MaxPattern
      /\ current \in 0..(n - 1) /\ top \in Nat /\ found \in Int /\ match_start \in Int
      /\ index \in 0..(n - 1) /\ last_top_row \in Int
  BY <1>1 DEF NconfInv, NM!TypeOK
<1>4. /\ match_start \in -1..n
      /\ \A i \in 0..(n - 1) : NM!Distance(i) < NM!Distance(index) => ~NM!Matches(i)
  BY <1>1 DEF NconfInv
<1>5. /\ NM!Steps(index) \in 0..(n - 1)
      /\ \/ NM!Distance(NM!Steps(index)) = NM!Distance(index) + 1
         \/ NM!Distance(NM!Steps(index)) = 0 /\ NM!Distance(index) = n - 1
            /\ NM!Steps(index) = Base(n, match_start)
      /\ \A j \in 0..(n - 1) :
           /\ NM!Distance(j) \in 0..(n - 1)
           /\ NM!Distance(j) = NM!Distance(index) => j = index
  BY <1>2, <1>3, <1>4, StepsFurther
<1>6. NM!items_num' = n
  BY <1>1 DEF NM!items_num
<1> HIDE DEF n
<1>7. CASE NM!Matches(index) /\ NM!Found(index)
           /\ NM!Centre(NM!items_num, mwin_max_lines, index, last_top_row, top)
  <2>0. /\ WindowOn(n, mwin_max_lines, current', top') /\ last_top_row' \in Int
        /\ current' = index
    <3>1. /\ mwin_max_lines \in Nat /\ mwin_max_lines > 0 /\ n \in Nat /\ n > 0
          /\ index \in Nat /\ index < n
      BY <1>2, <1>3 DEF WindowOn
    <3>2. NM!RowOk(n, mwin_max_lines, top)
      BY <1>2 DEF WindowOn, NM!RowOk
    <3>3. NM!Centre(n, mwin_max_lines, index, last_top_row, top)
      BY <1>7 DEF n
    <3> QED BY <1>3, <3>1, <3>2, <3>3, CentreInWindow
  <2>1. pc' = "key" /\ found' = index /\ current' = index
    BY <1>7, <2>0 DEF NM!Found
  <2>2. WindowOn(NM!items_num', mwin_max_lines', current', top')
    BY <1>1, <1>6, <2>0
  <2>3. found' \in Int /\ found' # -1
    BY <1>2, <1>3, <2>1
  <2>4. NconfInv'
    BY <1>1, <1>3, <2>0, <2>1, <2>2, <2>3, NconfAtKey
  <2>5. \A i \in 0..(n - 1) : NM!Matches(i) => NM!Distance(index) <= NM!Distance(i)
    <3>1. NM!Distance(index) \in Int /\ \A i \in 0..(n - 1) : NM!Distance(i) \in Int
      BY <1>3, <1>5
    <3> QED BY <1>4, <3>1
  <2> QED BY <1>7, <2>1, <2>3, <2>4, <2>5 DEF n
<1>8. CASE ~NM!Matches(index) /\ NM!Steps(index) = match_start /\ NM!Found(-1)
           /\ UNCHANGED NM!Place
  <2>1. /\ pc' = "key" /\ found' = -1
        /\ current' = current /\ top' = top /\ last_top_row' = last_top_row
    BY <1>8 DEF NM!Found, NM!Place
  <2>2. NconfInv'
    BY <1>1, <1>2, <1>3, <1>6, <2>1, NconfAtKey DEF n
  <2>3. NM!Distance(index) = n - 1
    <3>1. CASE NM!Distance(NM!Steps(index)) = NM!Distance(index) + 1
      <4>1. NM!Distance(match_start) = 0
        <5>1. match_start \in 0..(n - 1)
          BY <1>5, <1>8
        <5>2. Base(n, match_start) = match_start
          BY <1>2, <5>1 DEF Base
        <5>3. NM!Distance(match_start) = IF Upwards THEN Away(n, match_start, match_start)
                                         ELSE Away(n, match_start, match_start)
          BY <1>2, <1>4, <5>1, <5>2, DistanceIs DEF n
        <5> QED BY <5>1, <5>3 DEF Away
      <4> QED BY <1>3, <1>5, <1>8, <3>1, <4>1
    <3> QED BY <1>5, <3>1
  <2>4. ASSUME NEW i \in 0..(n - 1) PROVE ~NM!Matches(i)
    <3>1. CASE i = index
      BY <1>8, <3>1
    <3>2. CASE i # index
      <4>1. NM!Distance(i) < NM!Distance(index)
        BY <1>2, <1>5, <2>3, <3>2
      <4> QED BY <1>4, <4>1
    <3> QED BY <3>1, <3>2
  <2> QED BY <2>1, <2>2, <2>4 DEF n
<1>9. CASE ~NM!Matches(index) /\ index' = NM!Steps(index) /\ UNCHANGED <<pc, found, NM!Place>>
  <2>0. UNCHANGED <<pc, found, current, top, last_top_row>>
    BY <1>9 DEF NM!Place
  <2>1. NM!TypeOK'
    BY <1>1, <1>3, <1>5, <1>6, <1>9, <2>0 DEF NM!TypeOK
  <2>2. NM!CurrentInWindow' /\ (top <= NM!max(NM!items_num - mwin_max_lines, 0))'
    BY <1>1, <1>2, <1>6, <2>0 DEF NM!CurrentInWindow, WindowOn
  <2>3. ASSUME NEW i \in 0..(n - 1)
        PROVE  NM!Distance(i)' = NM!Distance(i) /\ NM!Matches(i)' = NM!Matches(i)
    BY <1>1, <1>6 DEF NM!Distance, NM!Matches, n
  <2>4. NM!Distance(index)' = NM!Distance(NM!Steps(index))
    BY <1>1, <1>6, <1>9 DEF NM!Distance, n
  <2>5. ASSUME NEW i \in 0..(n - 1), NM!Distance(i) < NM!Distance(NM!Steps(index))
        PROVE  ~NM!Matches(i)
    <3>1. NM!Distance(i) \in 0..(n - 1) /\ NM!Distance(index) \in 0..(n - 1)
      BY <1>3, <1>5
    <3>2. NM!Distance(i) < NM!Distance(index) \/ NM!Distance(i) = NM!Distance(index)
      <4>1. \/ NM!Distance(NM!Steps(index)) = NM!Distance(index) + 1
            \/ NM!Distance(NM!Steps(index)) = 0
        BY <1>5
      <4> QED BY <1>2, <2>5, <3>1, <4>1
    <3> QED BY <1>4, <1>5, <1>9, <3>2
  <2> QED BY <1>1, <1>4, <1>6, <2>0, <2>1, <2>2, <2>3, <2>4, <2>5 DEF NconfInv
<1> QED BY <1>7, <1>8, <1>9 DEF NM!Match

LEMMA NconfKept == NconfInv /\ [NM!Next]_(NM!nconfVars) => NconfInv'
<1> SUFFICES ASSUME NconfInv, [NM!Next]_(NM!nconfVars) PROVE NconfInv'
  OBVIOUS
<1>1. CASE \E m \in Menus, h \in Windows :
             \/ NM!Open(m, h)
             \/ \E value0 \in 0..(Len(m) - 1) : NM!OpenChoice(m, h, value0)
             \/ NM!Reopen(m, h)
  BY <1>1, NconfShownKeep
<1>2. CASE UNCHANGED NM!nconfVars
  <2>1. UNCHANGED <<items, mwin_max_lines, current, top, last_top_row, in_search, pattern,
                    match_direction, index, match_start, pc, found>>
    BY <1>2 DEF NM!nconfVars
  <2>2. NM!TypeOK' /\ NM!CurrentInWindow' /\ NM!items_num' = NM!items_num
    BY <2>1 DEF NconfInv, NM!TypeOK, NM!CurrentInWindow, NM!items_num
  <2>3. \A i : NM!Matches(i)' = NM!Matches(i) /\ NM!Distance(i)' = NM!Distance(i)
    BY <2>1, <2>2 DEF NM!Matches, NM!Distance
  <2>4. NM!Distance(index)' = NM!Distance(index)
    BY <2>1, <2>2 DEF NM!Distance
  <2> QED BY <2>1, <2>2, <2>3, <2>4 DEF NconfInv
<1> QED BY <1>1, <1>2, NconfMovesKeep, NconfPagesKeep, NconfSearchKeysKeep, NconfStartsKeep,
           MatchKeeps DEF NM!Next

(* A menu of nconf keeps its current item in its window, comes back with   *)
(* it, and a search goes to the nearest item that contains the pattern.    *)
THEOREM NconfIsRight ==
    NM!Spec => [](NM!TypeOK /\ NM!CurrentInWindow) /\ NM!PlaceKept /\ NM!FindsNearest
<1>1. NconfInv => NM!TypeOK /\ NM!CurrentInWindow
  BY DEF NconfInv
<1>2. NconfInv /\ [NM!Next]_(NM!nconfVars) =>
        ((pc = "match" /\ pc' = "key") =>
           IF found' = -1 THEN \A i \in 0..(NM!items_num - 1) : ~NM!Matches(i)
           ELSE /\ current' = found' /\ NM!Matches(found')
                /\ \A i \in 0..(NM!items_num - 1) :
                     NM!Matches(i) => NM!Distance(found') <= NM!Distance(i))
  <2> SUFFICES ASSUME NconfInv, [NM!Next]_(NM!nconfVars), pc = "match", pc' = "key"
               PROVE  NM!Match
    BY MatchKeeps
  <2> QED BY DEF NM!Next, NM!nconfVars, NM!Open, NM!OpenChoice, NM!Reopen, NM!Show, NM!Down,
                NM!Up, NM!First, NM!Last, NM!Walk, NM!Move, NM!PageDown, NM!PageUp, NM!Page,
                NM!Slash, NM!Type, NM!Next_Match, NM!Previous_Match, NM!Start, NM!Backspace
<1>3. NconfInv /\ [NM!Next]_(NM!nconfVars) =>
        \A m \in Menus, h \in Windows :
            NM!Reopen(m, h) =>
                /\ current < Len(m) => current' = current
                /\ m = items /\ h = mwin_max_lines => top' = top
  BY NconfReopens
<1> QED BY <1>1, <1>2, <1>3, NconfStarts, NconfKept, PTL
        DEF NM!Spec, NM!FindsNearest, NM!PlaceKept

-----------------------------------------------------------------------------
(* show_scroll_win.  The window is no larger than the text and shows at    *)
(* least two lines of the pad, as there are 20 on the terminal.            *)
ScrollInv ==
    reading =>
        /\ total_lines \in Nat /\ total_cols \in Nat
        /\ text_lines \in 2..total_lines /\ text_cols \in 0..total_cols
        /\ start_y \in 0..(total_lines - text_lines)
        /\ start_x \in 0..(total_cols - text_cols)

LEMMA ClampedRange ==
    ASSUME NEW size \in Nat, NEW part \in 0..size, NEW x \in Int
    PROVE  /\ SW!Clamped(x, size, part) \in 0..(size - part)
           /\ x >= 0 => SW!Clamped(x, size, part) <= x
BY DEF SW!Clamped

LEMMA ScrollToKeeps ==
    ASSUME ScrollInv, NEW y \in Int, NEW x \in Int, SW!ScrollTo(y, x)
    PROVE  /\ ScrollInv'
           /\ y >= 0 => start_y' <= y
<1>1. /\ reading /\ start_y' = SW!Clamped(y, total_lines, text_lines)
      /\ start_x' = SW!Clamped(x, total_cols, text_cols)
      /\ UNCHANGED <<reading, total_lines, total_cols, text_lines, text_cols>>
  BY DEF SW!ScrollTo
<1>2. /\ total_lines \in Nat /\ total_cols \in Nat
      /\ text_lines \in 2..total_lines /\ text_cols \in 0..total_cols
      /\ text_lines \in 0..total_lines
  BY <1>1 DEF ScrollInv
<1>3. /\ start_y' \in 0..(total_lines - text_lines) /\ (y >= 0 => start_y' <= y)
      /\ start_x' \in 0..(total_cols - text_cols)
  BY <1>1, <1>2, ClampedRange
<1> QED BY <1>1, <1>2, <1>3 DEF ScrollInv

LEMMA ScrollKept == ScrollInv /\ [SW!Next]_(SW!winVars) => ScrollInv'
<1> SUFFICES ASSUME ScrollInv, [SW!Next]_(SW!winVars) PROVE ScrollInv'
  OBVIOUS
<1>1. CASE \E t \in Texts, s \in Screens : SW!Open(t, s)
  <2>1. PICK t \in Texts, s \in Screens : SW!Open(t, s)
    BY <1>1
  <2>2. PICK l \in Nat \ {0}, k \in Nat, sl \in Nat, sc \in Nat :
          l = t.lines /\ k = t.longest /\ sl = s.lines /\ sc = s.columns /\ sl >= 20 /\ sc >= 75
    BY ScreensAssumption
  <2>3. /\ total_lines' = l + 1 /\ total_cols' = k + 2
        /\ text_lines' = SW!max(SW!min(l + 1 + 4, sl - 2) - 4, 0)
        /\ text_cols' = SW!max(SW!min(k + 2 + 2, sc - 2) - 2, 0)
        /\ start_y' = 0 /\ start_x' = 0
    BY <2>1, <2>2 DEF SW!Open
  <2>4. text_lines' \in 2..(l + 1) /\ text_cols' \in 0..(k + 2)
    BY <2>2, <2>3 DEF SW!max, SW!min
  <2> QED BY <2>3, <2>4 DEF ScrollInv
<1>2. CASE SW!Close \/ UNCHANGED SW!winVars
  BY <1>2 DEF SW!Close, SW!winVars, ScrollInv
<1>3. CASE SW!PageDown \/ SW!PageUp \/ SW!Home \/ SW!EndOfText
           \/ \E n \in {-1, 1} : SW!LineBy(n) \/ SW!ColumnBy(n)
  <2>1. PICK y, x : SW!ScrollTo(y, x) /\ (reading => y \in Int /\ x \in Int)
    <3>1. reading => /\ start_y \in Int /\ start_x \in Int /\ total_lines \in Int
                     /\ text_lines \in Int
      BY DEF ScrollInv
    <3> QED BY <1>3, <3>1 DEF SW!PageDown, SW!PageUp, SW!Home, SW!EndOfText, SW!LineBy, SW!ColumnBy
  <2>2. reading
    BY <2>1 DEF SW!ScrollTo
  <2> QED BY <2>1, <2>2, ScrollToKeeps
<1> QED BY <1>1, <1>2, <1>3 DEF SW!Next

(* Pages meet, and the window never shows anything but the text.           *)
THEOREM ScrollWinIsRight == SW!Spec => []SW!PartOfText /\ SW!PagesMeet
<1>1. SW!Init => ScrollInv
  BY DEF SW!Init, ScrollInv
<1>2. ScrollInv => SW!PartOfText
  BY DEF ScrollInv, SW!PartOfText, SW!InWindow
<1>3. ScrollInv /\ SW!PageDown => start_y' <= start_y + text_lines - 1
  <2> SUFFICES ASSUME ScrollInv, SW!PageDown PROVE start_y' <= start_y + text_lines - 1
    OBVIOUS
  <2>1. SW!ScrollTo(start_y + text_lines - 2, start_x) /\ reading
    BY DEF SW!PageDown, SW!ScrollTo
  <2>2. /\ start_y \in Nat /\ text_lines \in Nat /\ text_lines >= 2 /\ start_x \in Int
        /\ total_lines \in Nat /\ start_y \in 0..(total_lines - text_lines)
    BY <2>1 DEF ScrollInv
  <2>3. start_y' <= start_y + text_lines - 2 /\ start_y' \in Int
    <3>1. start_y + text_lines - 2 \in Int /\ start_y + text_lines - 2 >= 0
      BY <2>2
    <3>2. ScrollInv' /\ reading'
      BY <2>1, <2>2, <3>1, ScrollToKeeps DEF SW!ScrollTo
    <3> QED BY <2>1, <2>2, <3>1, <3>2, ScrollToKeeps DEF ScrollInv
  <2> QED BY <2>2, <2>3
<1> QED BY <1>1, <1>2, <1>3, ScrollKept, PTL DEF SW!Spec, SW!PagesMeet

-----------------------------------------------------------------------------
(* dialog_textbox.  What the flags say, how many lines page_length counts, *)
(* and that a text left at a line is opened at that line again.            *)
TextInv ==
    /\ TB!TypeOK
    /\ search => newline
    /\ (shown /\ newline) =>
         /\ first \in 1..TB!End
         /\ begin_reached <=> first = 1
         /\ end_reached <=> first + boxh > TB!End
         /\ page = TB!MIN(first + boxh, TB!End)
         /\ page_length = TB!MAX(1, TB!MIN(boxh, TB!End - first + 1))
    /\ (search /\ (shown \/ first > 0)) => first <= TB!MAX(1, TB!End - boxh + 1)
    /\ (~shown /\ first > 0) => search /\ vscroll = first - 1 /\ first \in 1..TB!End

(* A walk is at line p of the text, and its flag says whether that is the  *)
(* first.                                                                  *)
AtLine(w, p) ==
    \E e \in BOOLEAN : \/ p = 1 /\ w = TB!Walk(p, TRUE, e)
                       \/ p # 1 /\ w = TB!Walk(p, FALSE, e)

LEMMA EndRange ==
    ASSUME length \in Lengths
    PROVE  length \in Nat /\ TB!End \in Nat /\ TB!End >= 2
BY BoxesAssumption DEF TB!End

LEMMA WalkFlag ==
    ASSUME NEW p, NEW b, NEW e, NEW c
    PROVE  [TB!Walk(p, b, e) EXCEPT !.begin = c] = TB!Walk(p, c, e)
BY DEF TB!Walk

LEMMA WalkFlagOff ==
    ASSUME NEW p, NEW b, NEW e
    PROVE  [TB!Walk(p, b, e) EXCEPT !.begin = FALSE] = TB!Walk(p, FALSE, e)
BY WalkFlag

LEMMA WalkBack ==
    ASSUME TB!End \in Nat, TB!End >= 2,
           NEW p \in 1..TB!End, NEW b \in BOOLEAN, NEW e \in BOOLEAN, NEW n \in Nat, n > 0 \/ p > 1
    PROVE  AtLine(TB!back_lines(TB!Walk(p, b, e), n),
                  TB!MAX(1, p - (IF p = TB!End /\ e /\ n > 0 THEN n - 1 ELSE n)))
<1> DEFINE w == TB!Walk(p, b, e)
           skip == p = TB!End /\ e
           m == IF skip THEN n - 1 ELSE n
           to == TB!MAX(1, p - (IF p = TB!End /\ e /\ n > 0 THEN n - 1 ELSE n))
           back == TB!back_lines(w, n)
<1>1. w.page = p /\ w.end = e /\ [w EXCEPT !.begin = FALSE] = TB!Walk(p, FALSE, e)
  <2>1. w.page = p /\ w.end = e
    BY DEF TB!Walk
  <2>2. [w EXCEPT !.begin = FALSE] = TB!Walk(p, FALSE, e)
    BY WalkFlagOff, Zenon
  <2> QED BY <2>1, <2>2
<1>2. back = IF n <= 0 THEN TB!Walk(p, FALSE, e)
             ELSE IF m = 0 THEN TB!Walk(p, FALSE, FALSE)
             ELSE TB!Walk(TB!MAX(p - m, 1), p - m <= 1, e /\ ~skip)
  BY <1>1, Zenon DEF TB!back_lines
<1> SUFFICES AtLine(back, to)
  OBVIOUS
<1> HIDE DEF back
<1>3. CASE n <= 0
  <2>1. to = p /\ p # 1
    BY <1>3 DEF TB!MAX
  <2> HIDE DEF to
  <2> QED BY <1>2, <1>3, <2>1, Zenon DEF AtLine
<1>4. CASE ~(n <= 0) /\ m = 0
  <2>1. to = p /\ p # 1
    BY <1>4 DEF TB!MAX
  <2>2. back = TB!Walk(p, FALSE, FALSE)
    BY <1>2, <1>4, Zenon
  <2> HIDE DEF to
  <2> QED BY <2>1, <2>2, Zenon DEF AtLine
<1>5. CASE ~(n <= 0) /\ m # 0
  <2>1. to = TB!MAX(p - m, 1) /\ (IF p - m <= 1 THEN to = 1 ELSE to # 1)
    BY <1>5 DEF TB!MAX
  <2>2. back = TB!Walk(to, p - m <= 1, e /\ ~skip)
    BY <1>2, <1>5, <2>1, Zenon
  <2> HIDE DEF to, m, skip
  <2>3. CASE p - m <= 1
    <3>1. (p - m <= 1) = TRUE
      BY <2>3, Zenon
    <3> QED BY <2>1, <2>2, <2>3, <3>1, Zenon DEF AtLine
  <2>4. CASE ~(p - m <= 1)
    <3>1. (p - m <= 1) = FALSE
      BY <2>4
    <3> QED BY <2>1, <2>2, <2>4, <3>1, Zenon DEF AtLine
  <2> QED BY <2>3, <2>4
<1> QED BY <1>3, <1>4, <1>5

LEMMA WalkFields ==
    \A p, b, e :
      TB!Walk(p, b, e).page = p /\ TB!Walk(p, b, e).begin = b /\ TB!Walk(p, b, e).end = e
BY DEF TB!Walk

LEMMA WalkOn ==
    newline => \A n \in Nat \ {0} : \A p, b, e :
      TB!GetLines(TB!Walk(p, b, e), n) = TB!Walk(TB!MIN(p + n, TB!End), b, n > TB!End - p)
<1> SUFFICES ASSUME newline, NEW n \in Nat \ {0}, NEW p, NEW b, NEW e
             PROVE  TB!GetLines(TB!Walk(p, b, e), n) =
                      TB!Walk(TB!MIN(p + n, TB!End), b, n > TB!End - p)
  BY Zenon
<1> DEFINE w == TB!Walk(p, b, e)
           more == IF newline THEN n > TB!End - w.page ELSE n >= TB!End - w.page
<1>1. TB!GetLines(w, n) = TB!Walk(TB!MIN(w.page + n, TB!End), w.begin, IF n = 0 THEN w.end ELSE more)
  BY Zenon DEF TB!GetLines
<1>2. w.page = p /\ w.begin = b
  BY WalkFields
<1>3. n # 0
  OBVIOUS
<1> HIDE DEF w
<1>4. (IF n = 0 THEN w.end ELSE more) = more
  BY <1>3, Zenon
<1>5. more = (n > TB!End - w.page)
  BY Zenon
<1> HIDE DEF more
<1> SUFFICES TB!GetLines(w, n) = TB!Walk(TB!MIN(p + n, TB!End), b, n > TB!End - p)
  BY DEF w
<1> QED BY <1>1, <1>2, <1>4, <1>5, Zenon

(* The first line on the screen: a search reads ahead, and does not show   *)
(* less than a page of a text that has one.                                *)
Reading(p, h) == IF search THEN TB!MIN(p, TB!MAX(1, TB!End - h + 1)) ELSE p

LEMMA StartIs ==
    ASSUME TB!End \in Nat, TB!End >= 2, newline, NEW h \in Nat \ {0},
           NEW p \in 1..TB!End, NEW w, AtLine(w, p)
    PROVE  AtLine(TB!Start(w, h), Reading(p, h)) /\ Reading(p, h) \in 1..TB!End
<1>1. CASE search
  <2>1. PICK b \in BOOLEAN, e \in BOOLEAN : w = TB!Walk(p, b, e)
    BY Zenon DEF AtLine
  <2> DEFINE pp == TB!MIN(p + h, TB!End)
             ee == h > TB!End - p
  <2>2. TB!Start(w, h) = TB!back_lines(TB!Walk(pp, b, ee), h)
    BY <1>1, <2>1, WalkOn, Zenon DEF TB!Start
  <2>3. pp \in 1..TB!End /\ ee \in BOOLEAN /\ h \in Nat /\ (h > 0 \/ pp > 1)
    BY DEF TB!MIN
  <2>4. TB!MAX(1, pp - (IF pp = TB!End /\ ee /\ h > 0 THEN h - 1 ELSE h)) = Reading(p, h)
    BY <1>1 DEF TB!MIN, TB!MAX, Reading
  <2>5. Reading(p, h) \in 1..TB!End
    BY <1>1 DEF TB!MIN, TB!MAX, Reading
  <2>6. AtLine(TB!back_lines(TB!Walk(pp, b, ee), h),
               TB!MAX(1, pp - (IF pp = TB!End /\ ee /\ h > 0 THEN h - 1 ELSE h)))
    <3> HIDE DEF pp, ee
    <3> QED BY <2>1, <2>3, WalkBack, Zenon
  <2> HIDE DEF pp, ee
  <2> QED BY <2>2, <2>4, <2>5, <2>6, Zenon
<1>2. CASE ~search
  BY <1>2, Zenon DEF TB!Start, Reading
<1> QED BY <1>1, <1>2

LEMMA RefreshIs ==
    ASSUME TB!End \in Nat, TB!End >= 2, newline, NEW h \in Nat \ {0},
           NEW p \in 1..TB!End, NEW w, AtLine(w, p), TB!Refresh(w, h)
    PROVE  /\ first' = Reading(p, h) /\ first' \in 1..TB!End
           /\ begin_reached' \in BOOLEAN /\ end_reached' \in BOOLEAN
           /\ begin_reached' <=> first' = 1
           /\ end_reached' <=> first' + h > TB!End
           /\ page' = TB!MIN(first' + h, TB!End)
           /\ page_length' = TB!MAX(1, TB!MIN(h, TB!End - first' + 1))
<1> DEFINE start == TB!Start(w, h)
           q == Reading(p, h)
<1>1. AtLine(start, q) /\ q \in 1..TB!End
  BY StartIs
<1>2. /\ first' = start.page /\ page' = TB!GetLines(start, h).page
      /\ begin_reached' = TB!GetLines(start, h).begin
      /\ end_reached' = TB!GetLines(start, h).end
      /\ page_length' = TB!MAX(1, TB!Counted(start.page, h))
  BY DEF TB!Refresh
<1> HIDE DEF start, q
<1>3. PICK b \in BOOLEAN, e \in BOOLEAN : start = TB!Walk(q, b, e) /\ (b <=> q = 1)
  BY <1>1, Zenon DEF AtLine
<1>4. start = TB!Walk(q, b, e)
  BY <1>3
<1>5. /\ first' = q /\ page' = TB!MIN(q + h, TB!End) /\ begin_reached' = b
      /\ end_reached' = (h > TB!End - q)
      /\ page_length' = TB!MAX(1, TB!Counted(q, h))
  <2>1. start.page = q
    BY <1>4, WalkFields
  <2>2. TB!GetLines(start, h) = TB!Walk(TB!MIN(q + h, TB!End), b, h > TB!End - q)
    BY <1>4, WalkOn
  <2>3. /\ TB!GetLines(start, h).page = TB!MIN(q + h, TB!End)
        /\ TB!GetLines(start, h).begin = b /\ TB!GetLines(start, h).end = (h > TB!End - q)
    BY <2>2, WalkFields
  <2> QED BY <1>2, <2>1, <2>3, Zenon
<1>6. TB!Counted(q, h) = TB!MIN(h, TB!End - q + 1)
  BY DEF TB!Counted
<1>7. (h > TB!End - q) <=> (q + h > TB!End)
  BY <1>1
<1>8. begin_reached' \in BOOLEAN /\ (begin_reached' <=> first' = 1)
  BY <1>3, <1>5, Zenon
<1>9. end_reached' \in BOOLEAN /\ (end_reached' <=> first' + h > TB!End)
  <2>1. q + h = first' + h
    BY <1>5
  <2>2. end_reached' = (h > TB!End - q)
    BY <1>5
  <2>3. CASE h > TB!End - q
    <3>1. (h > TB!End - q) = TRUE
      BY <2>3
    <3> QED BY <1>7, <2>1, <2>2, <2>3, <3>1
  <2>4. CASE ~(h > TB!End - q)
    <3>1. (h > TB!End - q) = FALSE
      BY <2>4
    <3> QED BY <1>7, <2>1, <2>2, <2>4, <3>1
  <2> QED BY <2>3, <2>4
<1> QED BY <1>1, <1>5, <1>6, <1>8, <1>9, Zenon DEF q

(* The types of the pointer and its flags, of any text.                    *)
Walks == [page : Nat \ {0}, begin : BOOLEAN, end : BOOLEAN]

LEMMA WalkType ==
    ASSUME NEW p \in Nat \ {0}, NEW b \in BOOLEAN, NEW e \in BOOLEAN
    PROVE  TB!Walk(p, b, e) \in Walks
BY DEF TB!Walk, Walks

LEMMA WalkTypeOn ==
    ASSUME NEW p \in Nat \ {0}, NEW e \in BOOLEAN
    PROVE  TB!Walk(p, TRUE, e) \in Walks /\ TB!Walk(p, e, TRUE) \in Walks
BY DEF TB!Walk, Walks

LEMMA BackType ==
    ASSUME NEW w \in Walks, NEW n \in Int
    PROVE  TB!back_lines(w, n) \in Walks
<1> DEFINE skip == w.page = TB!End /\ w.end
           m == IF skip THEN n - 1 ELSE n
<1>1. w.page \in Nat \ {0} /\ w.begin \in BOOLEAN /\ w.end \in BOOLEAN
  BY DEF Walks
<1>2. [w EXCEPT !.begin = FALSE] \in Walks
  BY DEF Walks
<1>3. TB!Walk(w.page, FALSE, FALSE) \in Walks
  BY <1>1, WalkType
<1>4. TB!Walk(TB!MAX(w.page - m, 1), w.page - m <= 1, w.end /\ ~skip) \in Walks
  <2>1. TB!MAX(w.page - m, 1) \in Nat \ {0}
    BY <1>1 DEF TB!MAX
  <2>2. (w.page - m <= 1) \in BOOLEAN /\ (w.end /\ ~skip) \in BOOLEAN
    OBVIOUS
  <2> HIDE DEF m, skip
  <2> QED BY <2>1, <2>2, WalkType
<1> QED BY <1>2, <1>3, <1>4, Zenon DEF TB!back_lines

LEMMA GetType ==
    ASSUME TB!End \in Nat \ {0}, NEW w \in Walks, NEW n \in Nat
    PROVE  TB!GetLines(w, n) \in Walks
<1> DEFINE read == IF newline THEN n > TB!End - w.page ELSE n >= TB!End - w.page
           e == IF n = 0 THEN w.end ELSE read
<1>1. w.page \in Nat \ {0} /\ w.begin \in BOOLEAN /\ w.end \in BOOLEAN
  BY DEF Walks
<1>2. e \in BOOLEAN
  <2>1. read \in BOOLEAN
    <3>1. (n > TB!End - w.page) \in BOOLEAN /\ (n >= TB!End - w.page) \in BOOLEAN
      OBVIOUS
    <3> QED BY <3>1, Zenon
  <2> HIDE DEF read
  <2> QED BY <1>1, <2>1, Zenon
<1>3. TB!MIN(w.page + n, TB!End) \in Nat \ {0}
  BY <1>1 DEF TB!MIN
<1> HIDE DEF e
<1>4. TB!Walk(TB!MIN(w.page + n, TB!End), w.begin, e) \in Walks
  BY <1>1, <1>2, <1>3, WalkType
<1> QED BY <1>4, Zenon DEF TB!GetLines, e

LEMMA RefreshType ==
    ASSUME TB!End \in Nat \ {0}, NEW w \in Walks, NEW h \in Nat, TB!Refresh(w, h)
    PROVE  /\ page' \in Nat \ {0} /\ first' \in Nat /\ page_length' \in Nat
           /\ begin_reached' \in BOOLEAN /\ end_reached' \in BOOLEAN
<1> DEFINE start == TB!Start(w, h)
           after == TB!GetLines(start, h)
<1>1. start \in Walks
  <2>1. TB!back_lines(TB!GetLines(w, h), h) \in Walks
    BY GetType, BackType
  <2> QED BY <2>1, Zenon DEF TB!Start
<1> HIDE DEF start
<1>2. after \in Walks
  BY <1>1, GetType
<1>3. /\ first' = start.page /\ page' = after.page /\ begin_reached' = after.begin
      /\ end_reached' = after.end /\ page_length' = TB!MAX(1, TB!Counted(start.page, h))
  BY DEF TB!Refresh, start
<1> HIDE DEF after
<1>4. start.page \in Nat /\ after.page \in Nat \ {0} /\ after.begin \in BOOLEAN /\ after.end \in BOOLEAN
  BY <1>1, <1>2 DEF Walks
<1>5. TB!MAX(1, TB!Counted(start.page, h)) \in Nat
  BY <1>4 DEF TB!MAX, TB!MIN, TB!Counted
<1> QED BY <1>3, <1>4, <1>5, Zenon

-----------------------------------------------------------------------------
LEMMA TextTypes ==
    ASSUME TextInv
    PROVE  /\ length \in Nat /\ TB!End \in Nat /\ TB!End >= 2 /\ TB!End \in Nat \ {0}
           /\ boxh \in Nat \ {0} /\ page \in Nat \ {0} /\ page_length \in Nat
           /\ first \in Nat /\ vscroll \in Nat
           /\ begin_reached \in BOOLEAN /\ end_reached \in BOOLEAN /\ shown \in BOOLEAN
           /\ TB!Here \in Walks /\ hscroll \in 0..Sideways
<1>1. /\ length \in Lengths /\ boxh \in Boxes /\ page \in Nat \ {0} /\ first \in Nat
      /\ page_length \in Nat /\ vscroll \in Nat /\ hscroll \in 0..Sideways
      /\ begin_reached \in BOOLEAN /\ end_reached \in BOOLEAN /\ shown \in BOOLEAN
  BY DEF TextInv, TB!TypeOK
<1>2. length \in Nat /\ TB!End \in Nat /\ TB!End >= 2 /\ TB!End \in Nat \ {0}
  BY <1>1, EndRange
<1>3. boxh \in Nat \ {0}
  BY <1>1, BoxesAssumption
<1>4. TB!Here \in Walks
  BY <1>1, WalkType DEF TB!Here
<1> QED BY <1>1, <1>2, <1>3, <1>4

(* After a key that walks to line p and prints the page from there.        *)
LEMMA TextDrawn ==
    ASSUME TextInv, shown', NEW h \in Boxes, boxh' = h,
           UNCHANGED <<length, newline, search, vscroll>>, hscroll' \in 0..Sideways,
           NEW w \in Walks, TB!Refresh(w, h), newline => \E p \in 1..TB!End : AtLine(w, p)
    PROVE  TextInv'
<1>1. h \in Nat \ {0} /\ TB!End \in Nat /\ TB!End >= 2 /\ TB!End' = TB!End
  BY TextTypes, BoxesAssumption DEF TB!End
<1>2. /\ page' \in Nat \ {0} /\ first' \in Nat /\ page_length' \in Nat
      /\ begin_reached' \in BOOLEAN /\ end_reached' \in BOOLEAN
  BY <1>1, RefreshType
<1>3. TB!TypeOK'
  BY <1>2 DEF TextInv, TB!TypeOK
<1>4. CASE newline
  <2>1. PICK p \in 1..TB!End : AtLine(w, p)
    BY <1>4
  <2>2. /\ first' = Reading(p, h) /\ first' \in 1..TB!End
        /\ begin_reached' <=> first' = 1
        /\ end_reached' <=> first' + h > TB!End
        /\ page' = TB!MIN(first' + h, TB!End)
        /\ page_length' = TB!MAX(1, TB!MIN(h, TB!End - first' + 1))
    BY <1>1, <1>4, <2>1, RefreshIs
  <2>3. search => first' <= TB!MAX(1, TB!End - h + 1)
    BY <1>1, <2>1, <2>2 DEF Reading, TB!MIN, TB!MAX
  <2> QED BY <1>1, <1>3, <1>4, <2>2, <2>3 DEF TextInv
<1>5. CASE ~newline
  BY <1>3, <1>5 DEF TextInv
<1> QED BY <1>4, <1>5

LEMMA HereWalk ==
    ASSUME TextInv, shown, newline
    PROVE  /\ page \in 1..TB!End /\ first \in 1..TB!End
           /\ TB!Here = TB!Walk(page, begin_reached, end_reached)
           /\ IF end_reached THEN page = TB!End /\ page_length = TB!End - first + 1
              ELSE page = first + boxh /\ page_length = boxh /\ first + boxh <= TB!End
           /\ begin_reached <=> first = 1
<1>1. /\ first \in 1..TB!End /\ (begin_reached <=> first = 1)
      /\ end_reached <=> first + boxh > TB!End
      /\ page = TB!MIN(first + boxh, TB!End)
      /\ page_length = TB!MAX(1, TB!MIN(boxh, TB!End - first + 1))
  BY DEF TextInv
<1>2. TB!End \in Nat /\ boxh \in Nat \ {0}
  BY TextTypes
<1>3. TB!Here = TB!Walk(page, begin_reached, end_reached)
  BY Zenon DEF TB!Here
<1>4. /\ page \in 1..TB!End
      /\ IF first + boxh > TB!End THEN page = TB!End /\ page_length = TB!End - first + 1
         ELSE page = first + boxh /\ page_length = boxh /\ first + boxh <= TB!End
  BY <1>1, <1>2 DEF TB!MIN, TB!MAX
<1> QED BY <1>1, <1>3, <1>4

(* Walking back by n lines from behind the page.                           *)
LEMMA BackTo ==
    ASSUME TextInv, shown, newline, NEW n \in Nat, n > 0 \/ ~end_reached
    PROVE  /\ AtLine(TB!back_lines(TB!Here, n), TB!MAX(1, first + page_length - n))
           /\ TB!MAX(1, first + page_length - n) \in 1..TB!End
<1>1. /\ TB!End \in Nat /\ TB!End >= 2 /\ boxh \in Nat \ {0}
      /\ begin_reached \in BOOLEAN /\ end_reached \in BOOLEAN
  BY TextTypes
<1>2. /\ page \in 1..TB!End /\ first \in 1..TB!End
      /\ IF end_reached THEN page = TB!End /\ page_length = TB!End - first + 1
         ELSE page = first + boxh /\ page_length = boxh /\ first + boxh <= TB!End
  BY HereWalk
<1> DEFINE to == TB!MAX(1, page - (IF page = TB!End /\ end_reached /\ n > 0 THEN n - 1 ELSE n))
<1>3. n > 0 \/ page > 1
  BY <1>1, <1>2
<1>4. AtLine(TB!back_lines(TB!Walk(page, begin_reached, end_reached), n), to)
  BY <1>1, <1>2, <1>3, WalkBack
<1>5. to = TB!MAX(1, first + page_length - n) /\ to \in 1..TB!End
  BY <1>1, <1>2 DEF TB!MAX
<1> HIDE DEF to
<1> QED BY <1>4, <1>5, Zenon DEF TB!Here

(* Keys that show the page from line p.                                    *)
LEMMA TextShown ==
    ASSUME TextInv, NEW w \in Walks, TB!Show(w), hscroll' \in 0..Sideways,
           NEW p \in Int, newline => AtLine(w, p) /\ p \in 1..TB!End
    PROVE  /\ TextInv'
           /\ newline => first' = Reading(p, boxh)
<1>1. /\ shown /\ shown' /\ TB!Refresh(w, boxh)
      /\ UNCHANGED <<shown, length, newline, search, boxh, vscroll>>
  BY DEF TB!Show, TB!Text
<1>2. boxh \in Boxes /\ TB!End \in Nat /\ TB!End >= 2 /\ boxh \in Nat \ {0}
  BY TextTypes DEF TextInv, TB!TypeOK
<1>3. TextInv'
  BY <1>1, <1>2, TextDrawn
<1>4. newline => first' = Reading(p, boxh)
  BY <1>1, <1>2, RefreshIs
<1> QED BY <1>3, <1>4

(* No line before the page is further down than a search would start.      *)
LEMMA ReadingUp ==
    ASSUME TextInv, shown, newline, NEW p \in 1..TB!End, p <= first
    PROVE  Reading(p, boxh) = p
BY TextTypes DEF TextInv, Reading, TB!MIN, TB!MAX

LEMMA UpLine ==
    ASSUME TextInv, TB!Up
    PROVE  TextInv' /\ (newline => first' = first - 1)
<1>1. ~begin_reached /\ TB!Show(TB!back_lines(TB!Here, page_length + 1)) /\ hscroll' = hscroll /\ shown
  BY DEF TB!Up, TB!Scroll, TB!Show
<1>2. /\ TB!back_lines(TB!Here, page_length + 1) \in Walks
      /\ first \in Nat /\ page_length \in Nat /\ hscroll' \in 0..Sideways
  BY <1>1, TextTypes, BackType
<1>3. newline => /\ AtLine(TB!back_lines(TB!Here, page_length + 1), first - 1)
                 /\ first - 1 \in 1..TB!End
  <2> SUFFICES ASSUME newline
               PROVE  /\ AtLine(TB!back_lines(TB!Here, page_length + 1), first - 1)
                      /\ first - 1 \in 1..TB!End
    OBVIOUS
  <2>1. first \in 1..TB!End /\ first # 1
    BY <1>1, HereWalk
  <2>2. TB!MAX(1, first + page_length - (page_length + 1)) = first - 1
    BY <1>2, <2>1 DEF TB!MAX
  <2>3. page_length + 1 \in Nat /\ page_length + 1 > 0
    BY <1>2
  <2>4. /\ AtLine(TB!back_lines(TB!Here, page_length + 1),
                  TB!MAX(1, first + page_length - (page_length + 1)))
        /\ TB!MAX(1, first + page_length - (page_length + 1)) \in 1..TB!End
    BY <1>1, <2>3, BackTo
  <2> QED BY <2>2, <2>4
<1>4. TextInv' /\ (newline => first' = Reading(first - 1, boxh))
  <2>1. first - 1 \in Int
    BY <1>2
  <2> QED BY <1>1, <1>2, <1>3, <2>1, TextShown
<1>5. newline => Reading(first - 1, boxh) = first - 1
  <2>1. first - 1 <= first
    BY <1>2
  <2> QED BY <1>1, <1>3, <2>1, ReadingUp
<1> QED BY <1>4, <1>5

LEMMA PageUpLines ==
    ASSUME TextInv, TB!PageUp
    PROVE  TextInv' /\ (newline => first' = TB!MAX(1, first - boxh))
<1> DEFINE to == TB!MAX(1, first - boxh)
           n == page_length + boxh
<1>1. ~begin_reached /\ TB!Show(TB!back_lines(TB!Here, n)) /\ hscroll' = hscroll /\ shown
  BY DEF TB!PageUp, TB!Scroll, TB!Show
<1>2. /\ first \in Nat /\ page_length \in Nat /\ boxh \in Nat \ {0} /\ hscroll' \in 0..Sideways
      /\ TB!Here \in Walks
  BY <1>1, TextTypes
<1>3. n \in Nat /\ n > 0 /\ to \in Int /\ first + page_length - n = first - boxh
  BY <1>2 DEF TB!MAX
<1> HIDE DEF n
<1>4. TB!back_lines(TB!Here, n) \in Walks
  BY <1>2, <1>3, BackType
<1>5. newline => AtLine(TB!back_lines(TB!Here, n), to) /\ to \in 1..TB!End
  BY <1>1, <1>3, BackTo
<1>6. newline => to <= first
  <2> SUFFICES ASSUME newline PROVE to <= first
    OBVIOUS
  <2>1. first \in 1..TB!End
    BY <1>1, HereWalk
  <2> QED BY <1>2, <2>1 DEF TB!MAX
<1> HIDE DEF to
<1>7. TextInv' /\ (newline => first' = Reading(to, boxh))
  BY <1>1, <1>2, <1>3, <1>4, <1>5, TextShown
<1>8. newline => Reading(to, boxh) = to
  BY <1>1, <1>5, <1>6, ReadingUp
<1> QED BY <1>7, <1>8 DEF to

LEMMA DownLine ==
    ASSUME TextInv, TB!Down
    PROVE  TextInv' /\ (newline => first' = first + 1)
<1> DEFINE n == page_length - 1
<1>1. ~end_reached /\ TB!Show(TB!back_lines(TB!Here, n)) /\ hscroll' = hscroll /\ shown
  BY DEF TB!Down, TB!Scroll, TB!Show
<1>2. /\ first \in Nat /\ page_length \in Nat /\ boxh \in Nat \ {0} /\ hscroll' \in 0..Sideways
      /\ TB!Here \in Walks /\ TB!End \in Nat /\ first + 1 \in Int
  BY <1>1, TextTypes
<1>3. TB!back_lines(TB!Here, n) \in Walks
  BY <1>2, BackType
<1>4. newline => /\ AtLine(TB!back_lines(TB!Here, n), first + 1) /\ first + 1 \in 1..TB!End
                 /\ Reading(first + 1, boxh) = first + 1
  <2> SUFFICES ASSUME newline
               PROVE  /\ AtLine(TB!back_lines(TB!Here, n), first + 1) /\ first + 1 \in 1..TB!End
                      /\ Reading(first + 1, boxh) = first + 1
    OBVIOUS
  <2>1. page_length = boxh /\ first + boxh <= TB!End
    BY <1>1, HereWalk
  <2>2. n \in Nat /\ TB!MAX(1, first + page_length - n) = first + 1
    BY <1>2, <2>1 DEF TB!MAX
  <2>3. /\ AtLine(TB!back_lines(TB!Here, n), TB!MAX(1, first + page_length - n))
        /\ TB!MAX(1, first + page_length - n) \in 1..TB!End
    <3> HIDE DEF n
    <3> QED BY <1>1, <2>2, BackTo
  <2>4. Reading(first + 1, boxh) = first + 1
    BY <1>2, <2>1 DEF Reading, TB!MIN, TB!MAX
  <2> QED BY <2>2, <2>3, <2>4
<1> HIDE DEF n
<1>5. TextInv' /\ (newline => first' = Reading(first + 1, boxh))
  BY <1>1, <1>2, <1>3, <1>4, TextShown
<1> QED BY <1>4, <1>5

LEMMA PageDownLines ==
    ASSUME TextInv, TB!PageDown
    PROVE  TextInv' /\ (newline => first' \in (first + 1)..(first + boxh))
<1> DEFINE w == TB!Walk(page, FALSE, end_reached)
<1>1. ~end_reached /\ TB!Show(w) /\ hscroll' = hscroll /\ shown
  <2>1. [TB!Here EXCEPT !.begin = FALSE] = w
    BY WalkFlagOff, Zenon DEF TB!Here
  <2> QED BY <2>1 DEF TB!PageDown, TB!Scroll, TB!Show
<1>2. /\ first \in Nat /\ boxh \in Nat \ {0} /\ hscroll' \in 0..Sideways
      /\ page \in Nat \ {0} /\ page \in Int /\ end_reached \in BOOLEAN /\ TB!End \in Nat
  BY <1>1, TextTypes
<1>3. w \in Walks
  BY <1>2, WalkType
<1>4. newline => /\ AtLine(w, page) /\ page \in 1..TB!End
                 /\ Reading(page, boxh) \in (first + 1)..(first + boxh)
  <2> SUFFICES ASSUME newline
               PROVE  /\ AtLine(w, page) /\ page \in 1..TB!End
                      /\ Reading(page, boxh) \in (first + 1)..(first + boxh)
    OBVIOUS
  <2>1. page = first + boxh /\ first + boxh <= TB!End /\ page \in 1..TB!End /\ first \in 1..TB!End
    BY <1>1, HereWalk
  <2>2. page # 1
    BY <1>2, <2>1
  <2>3. AtLine(w, page)
    BY <1>2, <2>2, Zenon DEF AtLine
  <2>4. Reading(page, boxh) \in (first + 1)..(first + boxh)
    BY <1>2, <2>1 DEF Reading, TB!MIN, TB!MAX
  <2> QED BY <2>1, <2>3, <2>4
<1> HIDE DEF w
<1>5. TextInv' /\ (newline => first' = Reading(page, boxh))
  BY <1>1, <1>2, <1>3, <1>4, TextShown
<1> QED BY <1>4, <1>5

LEMMA EndKeysKeep ==
    ASSUME TextInv, TB!Top \/ TB!Bottom
    PROVE  TextInv'
<1>1. /\ boxh \in Nat \ {0} /\ boxh \in Nat /\ boxh > 0 /\ begin_reached \in BOOLEAN /\ end_reached \in BOOLEAN
      /\ TB!End \in Nat /\ TB!End >= 2 /\ TB!End \in Nat \ {0} /\ hscroll \in 0..Sideways
  BY TextTypes
<1>2. CASE TB!Top
  <2>1. TB!Show(TB!Walk(1, TRUE, end_reached)) /\ hscroll' = hscroll
    BY <1>2 DEF TB!Top, TB!Scroll
  <2>2. TB!Walk(1, TRUE, end_reached) \in Walks
    <3>1. 1 \in Nat \ {0} /\ TRUE \in BOOLEAN
      OBVIOUS
    <3> QED BY <1>1, <3>1, WalkType, Zenon
  <2>3. AtLine(TB!Walk(1, TRUE, end_reached), 1)
    BY <1>1, Zenon DEF AtLine
  <2>4. 1 \in Int /\ 1 \in 1..TB!End /\ hscroll' \in 0..Sideways
    BY <1>1, <2>1
  <2> QED BY <2>1, <2>2, <2>3, <2>4, TextShown
<1>3. CASE TB!Bottom
  <2> DEFINE w == TB!back_lines(TB!Walk(TB!End, begin_reached, TRUE), boxh)
             to == TB!MAX(1, TB!End - (IF TB!End = TB!End /\ TRUE /\ boxh > 0 THEN boxh - 1 ELSE boxh))
  <2>1. TB!Show(w) /\ hscroll' = hscroll
    BY <1>3 DEF TB!Bottom, TB!Scroll
  <2>2. w \in Walks
    <3>1. TRUE \in BOOLEAN
      OBVIOUS
    <3>2. TB!Walk(TB!End, begin_reached, TRUE) \in Walks
      BY <1>1, <3>1, WalkType, Zenon
    <3>3. boxh \in Int
      BY <1>1
    <3> QED BY <3>2, <3>3, BackType, Zenon
  <2>3. AtLine(w, to)
    <3>1. TB!End \in 1..TB!End /\ TRUE \in BOOLEAN
      BY <1>1
    <3> QED BY <1>1, <3>1, WalkBack, Zenon
  <2>4. to \in Int /\ to \in 1..TB!End
    BY <1>1 DEF TB!MAX
  <2> HIDE DEF w, to
  <2>5. hscroll' \in 0..Sideways
    BY <1>1, <2>1
  <2> QED BY <2>1, <2>2, <2>3, <2>4, <2>5, TextShown
<1> QED BY <1>2, <1>3

(* Scrolling to the side.                                                  *)
LEMMA AsideKeeps ==
    ASSUME TextInv, NEW n \in 0..Sideways, TB!Aside(n)
    PROVE  TextInv' /\ (newline => first' = first)
<1> DEFINE w == TB!back_lines(TB!Here, page_length)
<1>1. hscroll' \in 0..Sideways /\ TB!Show(w) /\ shown
  BY DEF TB!Aside, TB!Show
<1>2. /\ first \in Nat /\ page_length \in Nat /\ TB!Here \in Walks /\ TB!End \in Nat
      /\ boxh \in Nat \ {0}
  BY <1>1, TextTypes
<1>3. w \in Walks
  BY <1>2, BackType
<1>4. newline => AtLine(w, first) /\ first \in 1..TB!End
  <2> SUFFICES ASSUME newline PROVE AtLine(w, first) /\ first \in 1..TB!End
    OBVIOUS
  <2>1. first \in 1..TB!End /\ page_length > 0
    BY <1>1, <1>2, HereWalk
  <2>2. TB!MAX(1, first + page_length - page_length) = first
    BY <1>2, <2>1 DEF TB!MAX
  <2>3. AtLine(w, TB!MAX(1, first + page_length - page_length))
    BY <1>1, <1>2, <2>1, BackTo
  <2> QED BY <2>1, <2>2, <2>3
<1> HIDE DEF w
<1>5. TextInv' /\ (newline => first' = Reading(first, boxh))
  BY <1>1, <1>2, <1>3, <1>4, TextShown
<1>6. newline => Reading(first, boxh) = first
  BY <1>1, <1>2, <1>4, ReadingUp
<1> QED BY <1>5, <1>6

LEMMA SidewaysKeeps ==
    ASSUME TextInv, NEW n \in 0..Sideways, TB!Left(n) \/ TB!Right
    PROVE  TextInv' /\ (newline => first' = first)
<1>1. CASE TB!Left(n)
  BY <1>1, AsideKeeps DEF TB!Left
<1>2. CASE TB!Right
  <2>1. hscroll + 1 \in 0..Sideways /\ TB!Aside(hscroll + 1)
    BY <1>2, TextTypes, BoxesAssumption DEF TB!Right
  <2> QED BY <2>1, AsideKeeps
<1> QED BY <1>1, <1>2

(* A new size of the terminal goes back further than the page is long.     *)
LEMMA TextResized ==
    ASSUME TextInv, NEW h \in Boxes, TB!Resize(h)
    PROVE  TextInv'
<1> DEFINE w == TB!back_lines(TB!Here, boxh + 4)
<1>1. /\ shown /\ shown' /\ boxh' = h /\ TB!Refresh(w, h)
      /\ UNCHANGED <<length, newline, search, vscroll, hscroll>>
  BY DEF TB!Resize, TB!Text
<1>2. boxh \in Nat \ {0} /\ hscroll \in 0..Sideways /\ TB!Here \in Walks
  BY TextTypes
<1>3. w \in Walks
  <2>1. boxh + 4 \in Int
    BY <1>2
  <2> QED BY <1>2, <2>1, BackType
<1>4. newline => \E p \in 1..TB!End : AtLine(w, p)
  <2> SUFFICES ASSUME newline PROVE \E p \in 1..TB!End : AtLine(w, p)
    OBVIOUS
  <2>1. boxh + 4 \in Nat /\ boxh + 4 > 0
    BY <1>2
  <2>2. /\ AtLine(w, TB!MAX(1, first + page_length - (boxh + 4)))
        /\ TB!MAX(1, first + page_length - (boxh + 4)) \in 1..TB!End
    BY <1>1, <2>1, BackTo
  <2> QED BY <2>2
<1>5. hscroll' \in 0..Sideways
  BY <1>1, <1>2
<1> QED BY <1>1, <1>3, <1>4, <1>5, TextDrawn

(* A text is opened at its first line or below the lines that were above   *)
(* the page, which is where a search was left.                             *)
LEMMA TextOpened ==
    ASSUME TextInv, TB!Open
    PROVE  TextInv' /\ (first > 0 => first' = first)
<1> DEFINE w == IF vscroll = 0 THEN TB!Walk(1, TRUE, FALSE)
                ELSE TB!GetLines(TB!Walk(1, FALSE, FALSE), vscroll)
           p == TB!MIN(1 + vscroll, TB!End)
<1>1. /\ ~shown /\ shown' /\ TB!Refresh(w, boxh)
      /\ UNCHANGED <<length, newline, search, vscroll, hscroll, boxh>>
  BY DEF TB!Open, TB!Text
<1>2. /\ boxh \in Nat \ {0} /\ hscroll \in 0..Sideways /\ vscroll \in Nat
      /\ TB!End \in Nat /\ TB!End >= 2 /\ TB!End \in Nat \ {0} /\ first \in Nat
  BY TextTypes
<1>3. boxh \in Boxes
  BY DEF TextInv, TB!TypeOK
<1>4. 1 \in Nat \ {0} /\ TRUE \in BOOLEAN /\ FALSE \in BOOLEAN
  OBVIOUS
<1>5. w \in Walks
  <2>1. TB!Walk(1, TRUE, FALSE) \in Walks /\ TB!Walk(1, FALSE, FALSE) \in Walks
    BY <1>4, WalkType, Zenon
  <2> QED BY <1>2, <2>1, GetType, Zenon
<1>6. newline => AtLine(w, p) /\ p \in 1..TB!End
  <2> SUFFICES ASSUME newline PROVE AtLine(w, p) /\ p \in 1..TB!End
    OBVIOUS
  <2>1. p \in 1..TB!End /\ (vscroll = 0 => p = 1) /\ (vscroll # 0 => p # 1)
    BY <1>2 DEF TB!MIN
  <2>2. CASE vscroll = 0
    <3>1. w = TB!Walk(1, TRUE, FALSE)
      BY <2>2, Zenon
    <3> HIDE DEF w, p
    <3> QED BY <1>4, <2>1, <2>2, <3>1, Zenon DEF AtLine
  <2>3. CASE vscroll # 0
    <3>1. w = TB!GetLines(TB!Walk(1, FALSE, FALSE), vscroll)
      BY <2>3, Zenon
    <3>2. vscroll \in Nat \ {0}
      BY <1>2, <2>3
    <3>3. w = TB!Walk(p, FALSE, vscroll > TB!End - 1)
      BY <3>1, <3>2, WalkOn, Zenon
    <3>4. (vscroll > TB!End - 1) \in BOOLEAN
      OBVIOUS
    <3> HIDE DEF w, p
    <3> QED BY <2>1, <2>3, <3>3, <3>4, Zenon DEF AtLine
  <2> QED BY <2>2, <2>3
<1>7. first > 0 => newline /\ search /\ p = first /\ first <= TB!MAX(1, TB!End - boxh + 1)
  <2> SUFFICES ASSUME first > 0
               PROVE  newline /\ search /\ p = first /\ first <= TB!MAX(1, TB!End - boxh + 1)
    OBVIOUS
  <2>1. search /\ vscroll = first - 1 /\ first \in 1..TB!End
    BY <1>1 DEF TextInv
  <2>2. newline /\ first <= TB!MAX(1, TB!End - boxh + 1)
    BY <2>1 DEF TextInv
  <2> QED BY <1>2, <2>1, <2>2 DEF TB!MIN
<1> HIDE DEF w, p
<1>8. TextInv'
  <2>1. hscroll' \in 0..Sideways /\ (newline => \E q \in 1..TB!End : AtLine(w, q))
    BY <1>1, <1>2, <1>6
  <2> QED BY <1>1, <1>3, <1>5, <2>1, TextDrawn
<1>9. first > 0 => first' = first
  <2> SUFFICES ASSUME first > 0 PROVE first' = first
    OBVIOUS
  <2>1. first' = Reading(p, boxh)
    BY <1>1, <1>2, <1>6, <1>7, RefreshIs
  <2> QED BY <1>2, <1>7, <2>1 DEF Reading, TB!MIN, TB!MAX
<1> QED BY <1>8, <1>9

LEMMA NewTextKeeps ==
    ASSUME TextInv, NEW n \in Lengths, NEW h \in Boxes,
           NEW nl \in BOOLEAN, NEW s \in BOOLEAN, NEW again \in BOOLEAN,
           TB!NewText(n, nl, s, h, again)
    PROVE  TextInv'
<1>1. /\ ~shown /\ length' = n /\ newline' = nl /\ search' = s /\ boxh' = h
      /\ s => nl
      /\ again => search /\ s
      /\ vscroll' = (IF again THEN vscroll ELSE 0)
      /\ hscroll' = (IF again THEN hscroll ELSE 0)
      /\ first' = (IF again /\ n = length /\ h = boxh THEN first ELSE 0)
      /\ UNCHANGED <<shown, page, begin_reached, end_reached, page_length>>
  BY Zenon DEF TB!NewText
<1>2. /\ first \in Nat /\ vscroll \in Nat /\ hscroll \in 0..Sideways /\ Sideways \in Nat
  BY TextTypes, BoxesAssumption
<1>3. vscroll' \in Nat /\ hscroll' \in 0..Sideways /\ first' \in Nat
  BY <1>1, <1>2
<1>4. TB!TypeOK'
  BY <1>1, <1>3 DEF TextInv, TB!TypeOK
<1>5. (search' /\ (shown' \/ first' > 0)) =>
         first' <= TB!MAX(1, TB!End - boxh + 1)'
  BY <1>1, <1>2 DEF TextInv, TB!End, TB!MAX
<1>6. (~shown' /\ first' > 0) =>
         search' /\ vscroll' = first' - 1 /\ first' \in (1..TB!End)'
  BY <1>1, <1>2 DEF TextInv, TB!End
<1> QED BY <1>1, <1>4, <1>5, <1>6 DEF TextInv

(* Leaving a search tells the caller the lines above the page.             *)
LEMMA TextClosed ==
    ASSUME TextInv, TB!Close
    PROVE  TextInv'
<1> DEFINE w == TB!back_lines(TB!Here, page_length)
<1>1. /\ shown /\ shown' = FALSE
      /\ vscroll' = (IF search THEN w.page - 1 ELSE vscroll)
      /\ first' = (IF search THEN first ELSE 0)
      /\ hscroll' = (IF search THEN hscroll ELSE 0)
      /\ UNCHANGED <<length, newline, search, boxh, page, begin_reached, end_reached, page_length>>
  BY Zenon DEF TB!Close, TB!Text
<1>2. /\ TB!Here \in Walks /\ page_length \in Nat /\ first \in Nat /\ vscroll \in Nat
      /\ hscroll \in 0..Sideways /\ Sideways \in Nat /\ TB!End \in Nat
  BY TextTypes, BoxesAssumption
<1>3. w.page \in Nat \ {0}
  <2>1. page_length \in Int
    BY <1>2
  <2>2. w \in Walks
    BY <1>2, <2>1, BackType
  <2> QED BY <2>2 DEF Walks
<1>4. search => w.page = first
  <2> SUFFICES ASSUME search PROVE w.page = first
    OBVIOUS
  <2>1. newline
    BY DEF TextInv
  <2>2. first \in 1..TB!End /\ page_length > 0
    <3>1. boxh \in Nat \ {0}
      BY TextTypes
    <3> QED BY <1>1, <1>2, <2>1, <3>1, HereWalk
  <2>3. TB!MAX(1, first + page_length - page_length) = first
    BY <1>2, <2>2 DEF TB!MAX
  <2>4. AtLine(w, first)
    BY <1>1, <1>2, <2>1, <2>2, <2>3, BackTo
  <2> HIDE DEF w
  <2>5. PICK b : \E e : w = TB!Walk(first, b, e)
    BY <2>4, Zenon DEF AtLine
  <2>6. PICK e : w = TB!Walk(first, b, e)
    BY <2>5
  <2> QED BY <2>6, WalkFields, Zenon
<1> HIDE DEF w
<1>5. vscroll' \in Nat /\ first' \in Nat /\ hscroll' \in 0..Sideways
  BY <1>1, <1>2, <1>3
<1>6. TB!TypeOK'
  BY <1>1, <1>5 DEF TextInv, TB!TypeOK
<1>7. TB!End' = TB!End
  BY <1>1 DEF TB!End
<1>8. search' => newline'
  BY <1>1 DEF TextInv
<1>9. (search' /\ first' > 0) => first' <= TB!MAX(1, TB!End' - boxh' + 1)
  BY <1>1, <1>7 DEF TextInv
<1>10. first' > 0 => search' /\ vscroll' = first' - 1 /\ first' \in 1..TB!End'
  BY <1>1, <1>2, <1>4, <1>7 DEF TextInv
<1> QED BY <1>1, <1>6, <1>8, <1>9, <1>10 DEF TextInv

LEMMA TextStarts ==
    ASSUME TB!Init
    PROVE  TextInv
<1>1. length \in Lengths /\ boxh \in Boxes
  BY BoxesAssumption, Zenon DEF TB!Init
<1>2. /\ shown = FALSE /\ newline = TRUE /\ search = FALSE
      /\ page = 1 /\ begin_reached = TRUE /\ end_reached = FALSE
      /\ page_length = 0 /\ hscroll = 0 /\ first = 0 /\ vscroll = 0
  BY Zenon DEF TB!Init
<1>3. TB!TypeOK
  <2>1. /\ shown \in BOOLEAN /\ newline \in BOOLEAN /\ search \in BOOLEAN
        /\ begin_reached \in BOOLEAN /\ end_reached \in BOOLEAN
    BY <1>2, Zenon
  <2>2. /\ page \in Nat \ {0} /\ first \in Nat /\ page_length \in Nat
        /\ hscroll \in 0..Sideways /\ vscroll \in Nat
    BY <1>2, BoxesAssumption
  <2> QED BY <1>1, <2>1, <2>2, Zenon DEF TB!TypeOK
<1> QED BY <1>2, <1>3 DEF TextInv

LEMMA TextKept ==
    ASSUME TextInv, [TB!Next]_(TB!textVars)
    PROVE  TextInv' /\ ((hscroll' # hscroll /\ shown /\ shown' /\ newline) => first' = first)
<1>1. ASSUME NEW n \in Lengths, NEW h \in Boxes, NEW nl \in BOOLEAN, NEW s \in BOOLEAN,
             NEW again \in BOOLEAN, TB!NewText(n, nl, s, h, again)
      PROVE  TextInv' /\ ~shown
  BY <1>1, NewTextKeeps DEF TB!NewText
<1>2. CASE TB!Open
  BY <1>2, TextOpened DEF TB!Open
<1>3. CASE TB!Top \/ TB!Bottom
  BY <1>3, EndKeysKeep DEF TB!Top, TB!Bottom, TB!Scroll
<1>4. CASE TB!Up \/ TB!PageUp \/ TB!Down \/ TB!PageDown
  BY <1>4, UpLine, PageUpLines, DownLine, PageDownLines
     DEF TB!Up, TB!PageUp, TB!Down, TB!PageDown, TB!Scroll
<1>5. ASSUME NEW n \in 0..Sideways, TB!Left(n) \/ TB!Right
      PROVE  TextInv' /\ (newline => first' = first)
  BY <1>5, SidewaysKeeps
<1>6. ASSUME NEW h \in Boxes, TB!Resize(h)
      PROVE  TextInv' /\ hscroll' = hscroll
  BY <1>6, TextResized DEF TB!Resize
<1>7. CASE TB!Close
  BY <1>7, TextClosed DEF TB!Close
<1>8. CASE UNCHANGED TB!textVars
  BY <1>8 DEF TextInv, TB!TypeOK, TB!textVars, TB!End
<1>9. 0 \in 0..Sideways
  BY BoxesAssumption
<1> QED BY <1>1, <1>2, <1>3, <1>4, <1>5, <1>6, <1>7, <1>8, <1>9 DEF TB!Next

(* The texts of mconf, for every sequence of keys and sizes of the         *)
(* terminal: the pointer and the flags that refuse keys say what is on the *)
(* screen, paging passes over no line, and a search that is opened again   *)
(* shows the page it was left at (TextBox.FlagsTrue, NoLineSkipped and     *)
(* SearchReturns; dialog_textbox, textbox.c:56).                           *)
THEOREM TextBoxIsRight ==
    TB!Spec => [](TB!TypeOK /\ TB!FlagsTrue) /\ TB!NoLineSkipped /\ TB!SearchReturns
<1>1. TB!Init => TextInv
  BY TextStarts
<1>2. TextInv /\ [TB!Next]_(TB!textVars) => TextInv'
  BY TextKept
<1>3. TextInv => TB!TypeOK /\ TB!FlagsTrue
  BY DEF TextInv, TB!FlagsTrue
<1>4. TextInv /\ [TB!Next]_(TB!textVars) =>
        [(shown /\ newline) =>
           /\ TB!Up => first' = first - 1
           /\ TB!Down => first' = first + 1
           /\ TB!PageDown => first' \in (first + 1)..(first + boxh)
           /\ TB!PageUp => first' = TB!MAX(1, first - boxh)
           /\ (hscroll' # hscroll /\ shown') => first' = first]_(TB!textVars)
  BY TextKept, UpLine, DownLine, PageDownLines, PageUpLines
<1>5. TextInv /\ [TB!Next]_(TB!textVars) => [(TB!Open /\ first > 0) => first' = first]_(TB!textVars)
  BY TextOpened
<1> QED BY <1>1, <1>2, <1>3, <1>4, <1>5, PTL DEF TB!Spec, TB!NoLineSkipped, TB!SearchReturns

-----------------------------------------------------------------------------
(* One element put into a sequence, or taken out of it.                    *)
Inserted(s, p, c) == SubSeq(s, 1, p) \o <<c>> \o SubSeq(s, p + 1, Len(s))
Removed(s, p) == SubSeq(s, 1, p - 1) \o SubSeq(s, p + 1, Len(s))

LEMMA PartOfSeq ==
    ASSUME NEW S, NEW s \in Seq(S), NEW m \in Nat \ {0}, NEW n \in Nat, n <= Len(s)
    PROVE  /\ SubSeq(s, m, n) \in Seq(S)
           /\ Len(SubSeq(s, m, n)) = IF m <= n THEN n - m + 1 ELSE 0
           /\ \A i \in 1..(n - m + 1) : SubSeq(s, m, n)[i] = s[m + i - 1]
<1>1. \A i \in m..n : s[i] \in S
  BY LenProperties
<1> QED BY <1>1, SubSeqProperties

IsInserted(r, s, p, c, S) ==
    /\ r \in Seq(S)
    /\ Len(r) = Len(s) + 1
    /\ \A i \in 1..(Len(s) + 1) :
         r[i] = IF i <= p THEN s[i] ELSE IF i = p + 1 THEN c ELSE s[i - 1]

LEMMA InsertIs ==
    ASSUME NEW S, NEW s \in Seq(S), NEW p \in 0..Len(s), NEW c \in S
    PROVE  IsInserted(Inserted(s, p, c), s, p, c, S)
<1> DEFINE l == SubSeq(s, 1, p)
           r == SubSeq(s, p + 1, Len(s))
           lc == l \o <<c>>
<1>1. Len(s) \in Nat /\ p \in Nat /\ p <= Len(s)
  BY LenProperties
<1>2. l \in Seq(S) /\ Len(l) = p /\ \A i \in 1..p : l[i] = s[i]
  <2>1. l \in Seq(S) /\ Len(l) = (IF 1 <= p THEN p - 1 + 1 ELSE 0)
        /\ \A i \in 1..(p - 1 + 1) : l[i] = s[1 + i - 1]
    BY <1>1, PartOfSeq
  <2> HIDE DEF l
  <2> QED BY <1>1, <2>1
<1>3. r \in Seq(S) /\ Len(r) = Len(s) - p /\ \A i \in 1..(Len(s) - p) : r[i] = s[p + i]
  <2>1. p + 1 \in Nat \ {0} /\ Len(s) <= Len(s)
    BY <1>1
  <2>2. r \in Seq(S) /\ Len(r) = (IF p + 1 <= Len(s) THEN Len(s) - (p + 1) + 1 ELSE 0)
        /\ \A i \in 1..(Len(s) - (p + 1) + 1) : r[i] = s[(p + 1) + i - 1]
    BY <1>1, <2>1, PartOfSeq
  <2> HIDE DEF r
  <2> QED BY <1>1, <2>2
<1>4. <<c>> \in Seq(S) /\ Len(<<c>>) = 1 /\ <<c>>[1] = c
  OBVIOUS
<1> HIDE DEF l, r
<1>5. lc \in Seq(S) /\ Len(lc) = p + 1
      /\ \A i \in 1..(p + 1) : lc[i] = IF i <= p THEN s[i] ELSE c
  <2>1. lc \in Seq(S) /\ Len(lc) = Len(l) + Len(<<c>>)
        /\ \A i \in 1..(Len(l) + Len(<<c>>)) :
             lc[i] = IF i <= Len(l) THEN l[i] ELSE <<c>>[i - Len(l)]
    BY <1>2, <1>4, ConcatProperties
  <2> HIDE DEF lc
  <2> QED BY <1>1, <1>2, <1>4, <2>1
<1> HIDE DEF lc
<1>6. lc \o r \in Seq(S) /\ Len(lc \o r) = Len(lc) + Len(r)
      /\ \A i \in 1..(Len(lc) + Len(r)) : (lc \o r)[i] = IF i <= Len(lc) THEN lc[i] ELSE r[i - Len(lc)]
  BY <1>3, <1>5, ConcatProperties
<1>7. Inserted(s, p, c) = lc \o r
  BY DEF Inserted, lc, l, r
<1>8. lc \o r \in Seq(S) /\ Len(lc \o r) = Len(s) + 1
  BY <1>1, <1>3, <1>5, <1>6
<1>9. ASSUME NEW i \in 1..(Len(s) + 1)
      PROVE  (lc \o r)[i] = IF i <= p THEN s[i] ELSE IF i = p + 1 THEN c ELSE s[i - 1]
  <2>1. (lc \o r)[i] = IF i <= p + 1 THEN lc[i] ELSE r[i - (p + 1)]
    BY <1>1, <1>3, <1>5, <1>6
  <2>2. CASE i <= p + 1
    BY <1>1, <1>5, <2>1, <2>2
  <2>3. CASE i > p + 1
    <3>1. i - (p + 1) \in 1..(Len(s) - p) /\ p + (i - (p + 1)) = i - 1
      BY <1>1, <2>3
    <3>2. r[i - (p + 1)] = s[i - 1]
      BY <1>3, <3>1
    <3> QED BY <1>1, <2>1, <2>3, <3>2
  <2>4. i <= p + 1 \/ i > p + 1
    BY <1>1
  <2> QED BY <2>2, <2>3, <2>4, Zenon
<1> QED BY <1>7, <1>8, <1>9 DEF IsInserted

LEMMA RemoveIs ==
    ASSUME NEW S, NEW s \in Seq(S), NEW p \in 1..Len(s)
    PROVE  /\ Removed(s, p) \in Seq(S)
           /\ Len(Removed(s, p)) = Len(s) - 1
           /\ \A i \in 1..(Len(s) - 1) : Removed(s, p)[i] = IF i < p THEN s[i] ELSE s[i + 1]
<1> DEFINE l == SubSeq(s, 1, p - 1)
           r == SubSeq(s, p + 1, Len(s))
<1>1. Len(s) \in Nat /\ p \in Nat /\ p <= Len(s) /\ p >= 1
  BY LenProperties
<1>2. l \in Seq(S) /\ Len(l) = p - 1 /\ \A i \in 1..(p - 1) : l[i] = s[i]
  <2>1. p - 1 \in Nat /\ p - 1 <= Len(s)
    BY <1>1
  <2>2. l \in Seq(S) /\ Len(l) = (IF 1 <= p - 1 THEN (p - 1) - 1 + 1 ELSE 0)
        /\ \A i \in 1..((p - 1) - 1 + 1) : l[i] = s[1 + i - 1]
    BY <2>1, PartOfSeq
  <2> HIDE DEF l
  <2> QED BY <1>1, <2>2
<1>3. r \in Seq(S) /\ Len(r) = Len(s) - p /\ \A i \in 1..(Len(s) - p) : r[i] = s[p + i]
  <2>1. p + 1 \in Nat \ {0} /\ Len(s) <= Len(s)
    BY <1>1
  <2>2. r \in Seq(S) /\ Len(r) = (IF p + 1 <= Len(s) THEN Len(s) - (p + 1) + 1 ELSE 0)
        /\ \A i \in 1..(Len(s) - (p + 1) + 1) : r[i] = s[(p + 1) + i - 1]
    BY <1>1, <2>1, PartOfSeq
  <2> HIDE DEF r
  <2> QED BY <1>1, <2>2
<1> HIDE DEF l, r
<1>4. l \o r \in Seq(S) /\ Len(l \o r) = Len(l) + Len(r)
      /\ \A i \in 1..(Len(l) + Len(r)) : (l \o r)[i] = IF i <= Len(l) THEN l[i] ELSE r[i - Len(l)]
  BY <1>2, <1>3, ConcatProperties
<1>5. Removed(s, p) = l \o r
  BY DEF Removed, l, r
<1>6. l \o r \in Seq(S) /\ Len(l \o r) = Len(s) - 1
  BY <1>1, <1>2, <1>3, <1>4
<1>7. ASSUME NEW i \in 1..(Len(s) - 1)
      PROVE  (l \o r)[i] = IF i < p THEN s[i] ELSE s[i + 1]
  <2>1. (l \o r)[i] = IF i <= p - 1 THEN l[i] ELSE r[i - (p - 1)]
    BY <1>1, <1>2, <1>3, <1>4
  <2>2. CASE i < p
    BY <1>1, <1>2, <2>1, <2>2
  <2>3. CASE i >= p
    <3>1. i - (p - 1) \in 1..(Len(s) - p) /\ p + (i - (p - 1)) = i + 1
      BY <1>1, <2>3
    <3>2. r[i - (p - 1)] = s[i + 1]
      BY <1>3, <3>1
    <3> QED BY <1>1, <2>1, <2>3, <3>2
  <2>4. i < p \/ i >= p
    BY <1>1
  <2> QED BY <2>2, <2>3, <2>4, Zenon
<1> QED BY <1>5, <1>6, <1>7

-----------------------------------------------------------------------------
(* dialog_inputbox of nconf.  Its text is a sequence that keys change at   *)
(* the cursor, which is what LineEdit promises.                            *)
FormInv == IF_!TypeOK /\ IF_!FormOnText

LEMMA FormTexts ==
    ASSUME NEW s
    PROVE  s \in UNION {[1..n -> Chars] : n \in 0..MaxText} <=> s \in Seq(Chars) /\ Len(s) \in 0..MaxText
<1>1. ASSUME NEW n \in 0..MaxText, s \in [1..n -> Chars]
      PROVE  s \in Seq(Chars) /\ Len(s) \in 0..MaxText
  <2>1. n \in Nat
    BY InputsAssumption
  <2>2. s \in Seq(Chars) /\ Len(s) = n
    BY <1>1, <2>1
  <2> QED BY <2>2
<1>2. ASSUME s \in Seq(Chars), Len(s) \in 0..MaxText
      PROVE  \E n \in 0..MaxText : s \in [1..n -> Chars]
  BY <1>2, LenProperties
<1> QED BY <1>1, <1>2

LEMMA FormTypes ==
    ASSUME FormInv
    PROVE  /\ result \in Seq(Chars) /\ Len(result) \in 0..MaxText /\ Len(result) \in Nat
           /\ editing \in BOOLEAN /\ result_len \in 0..(MaxText + 1)
           /\ cursor_position \in 0..Len(result)
           /\ cursor_form_win \in Nat /\ cursor_form_win <= cursor_position
           /\ cursor_form_win <= prompt_width - 1
           /\ MaxText \in Nat /\ prompt_width \in Nat \ {0}
           /\ editing => Len(result) < result_len
<1>1. result \in Seq(Chars) /\ Len(result) \in 0..MaxText /\ MaxText \in Nat /\ prompt_width \in Nat \ {0}
  BY FormTexts, InputsAssumption DEF FormInv, IF_!TypeOK
<1>2. Len(result) \in Nat
  BY <1>1
<1>3. /\ editing \in BOOLEAN /\ result_len \in 0..(MaxText + 1)
      /\ cursor_position \in 0..Len(result)
      /\ cursor_form_win \in 0..IF_!min(cursor_position, prompt_width - 1)
      /\ editing => Len(result) < result_len
  BY DEF FormInv, IF_!TypeOK, IF_!FormOnText
<1>4. /\ cursor_form_win \in Nat /\ cursor_form_win <= cursor_position
      /\ cursor_form_win <= prompt_width - 1
  BY <1>1, <1>2, <1>3 DEF IF_!min
<1> QED BY <1>1, <1>2, <1>3, <1>4

(* After a key: the cursor and the column it is brought to.                *)
LEMMA FormMoved ==
    ASSUME FormInv, NEW p \in Int, NEW x \in Int, x <= p, IF_!To(p, x), editing' \in BOOLEAN,
           result' \in Seq(Chars), Len(result') \in 0..MaxText, p \in 0..Len(result'),
           result_len' \in 0..(MaxText + 1), editing' => Len(result') < result_len'
    PROVE  FormInv'
<1>1. cursor_position' = p /\ cursor_form_win' = IF_!InForm(x)
  BY DEF IF_!To
<1>2. result' \in UNION {[1..n -> Chars] : n \in 0..MaxText}
  BY FormTexts
<1>3. cursor_form_win' \in 0..IF_!min(p, prompt_width - 1)
  <2>1. p \in Nat /\ prompt_width \in Nat \ {0}
    BY FormTypes
  <2> QED BY <1>1, <2>1 DEF IF_!InForm, IF_!min
<1>4. cursor_form_win' \in Int
  <2>1. p \in Nat /\ prompt_width \in Nat \ {0}
    BY FormTypes
  <2> QED BY <1>1, <2>1 DEF IF_!InForm, IF_!min
<1>5. IF_!TypeOK'
  BY <1>1, <1>2, <1>4 DEF IF_!TypeOK
<1>6. IF_!FormOnText'
  BY <1>1, <1>3 DEF IF_!FormOnText
<1> QED BY <1>5, <1>6 DEF FormInv

LEMMA FormKeys ==
    ASSUME FormInv
    PROVE  /\ IF_!Backspace => FormInv'
           /\ IF_!Delete => FormInv'
           /\ \A c \in Chars : IF_!Type(c) => FormInv'
<1> USE FormTypes
<1>1. ASSUME IF_!Backspace PROVE FormInv'
  <2>1. /\ cursor_position > 0 /\ result' = Removed(result, cursor_position)
        /\ IF_!To(cursor_position + -1, cursor_form_win + -1)
        /\ UNCHANGED <<editing, result_len>>
    BY <1>1 DEF IF_!Backspace, IF_!Step, IF_!Cut, Removed
  <2>2. cursor_position \in 1..Len(result)
    BY <2>1
  <2>3. result' \in Seq(Chars) /\ Len(result') = Len(result) - 1
    BY <2>1, <2>2, RemoveIs
  <2> QED BY <2>1, <2>2, <2>3, FormMoved
<1>2. ASSUME IF_!Delete PROVE FormInv'
  <2>1. /\ cursor_position < Len(result) /\ result' = Removed(result, cursor_position + 1)
        /\ IF_!To(cursor_position, cursor_form_win)
        /\ UNCHANGED <<editing, result_len>>
    BY <1>2 DEF IF_!Delete, IF_!Cut, Removed
  <2>2. cursor_position + 1 \in 1..Len(result)
    BY <2>1
  <2>3. result' \in Seq(Chars) /\ Len(result') = Len(result) - 1
    BY <2>1, <2>2, RemoveIs
  <2> QED BY <2>1, <2>2, <2>3, FormMoved
<1>3. ASSUME NEW c \in Chars, IF_!Type(c) PROVE FormInv'
  <2>1. /\ Len(result) < MaxText /\ result' = Inserted(result, cursor_position, c)
        /\ IF_!To(cursor_position + 1, cursor_form_win + 1)
        /\ result_len' = IF_!max(result_len, Len(result) + 2)
        /\ UNCHANGED editing
    BY <1>3 DEF IF_!Type, IF_!Step, Inserted
  <2>2. result' \in Seq(Chars) /\ Len(result') = Len(result) + 1
    BY <2>1, InsertIs DEF IsInserted
  <2>3. result_len' \in 0..(MaxText + 1) /\ Len(result') < result_len'
    BY <2>1, <2>2 DEF IF_!max
  <2> QED BY <2>1, <2>2, <2>3, FormMoved
<1> QED BY <1>1, <1>2, <1>3

LEMMA FormStarts ==
    ASSUME IF_!Init
    PROVE  FormInv
<1>1. << >> \in Seq(Chars) /\ Len(<< >>) = 0
  OBVIOUS
<1>2. << >> \in UNION {[1..n -> Chars] : n \in 0..MaxText}
  BY <1>1, InputsAssumption, FormTexts
<1>3. 0 \in 0..IF_!min(0, prompt_width - 1) /\ 0 \in 0..(MaxText + 1)
  BY InputsAssumption DEF IF_!min
<1>4. /\ editing = FALSE /\ result = << >> /\ result_len = 0
      /\ cursor_position = 0 /\ cursor_form_win = 0
  BY DEF IF_!Init
<1>5. IF_!TypeOK
  <2>1. result_len \in 0..(MaxText + 1) /\ cursor_form_win \in Int
    BY <1>3, <1>4
  <2>3. editing \in BOOLEAN
    BY <1>4, Zenon
  <2>2. cursor_position \in 0..Len(result)
    BY <1>1, <1>4
  <2> QED BY <1>2, <1>4, <2>1, <2>2, <2>3, Zenon DEF IF_!TypeOK
<1>6. IF_!FormOnText
  BY <1>3, <1>4 DEF IF_!FormOnText
<1> QED BY <1>5, <1>6 DEF FormInv

LEMMA FormKept ==
    ASSUME FormInv, [IF_!Next]_(IF_!formVars)
    PROVE  FormInv'
<1> USE FormTypes
<1>1. ASSUME NEW n \in 0..MaxText, NEW init \in [1..n -> Chars], IF_!Open(init)
      PROVE  FormInv'
  <2>1. /\ editing' = TRUE /\ result' = init
        /\ result_len' = IF_!max(result_len, Len(init) + 1)
        /\ cursor_position' = Len(init)
        /\ cursor_form_win' = IF_!min(Len(init), prompt_width - 1)
    BY <1>1 DEF IF_!Open
  <2>2. init \in UNION {[1..k -> Chars] : k \in 0..MaxText}
    OBVIOUS
  <2>3. init \in Seq(Chars) /\ Len(init) \in 0..MaxText
    BY <2>2, FormTexts
  <2>4. /\ result_len' \in 0..(MaxText + 1) /\ Len(init) < result_len'
        /\ cursor_form_win' \in Int
        /\ cursor_form_win' \in 0..IF_!min(Len(init), prompt_width - 1)
    BY <2>1, <2>3 DEF IF_!max, IF_!min
  <2>5. Len(init) \in 0..Len(init)
    BY <2>3
  <2> QED BY <2>1, <2>2, <2>3, <2>4, <2>5 DEF FormInv, IF_!TypeOK, IF_!FormOnText
<1>2. CASE IF_!Backspace \/ IF_!Delete \/ \E c \in Chars : IF_!Type(c)
  BY <1>2, FormKeys
<1>3. CASE IF_!Forward
  <2>1. /\ cursor_position < Len(result) /\ IF_!To(cursor_position + 1, cursor_form_win + 1)
        /\ UNCHANGED <<editing, result, result_len>>
    BY <1>3 DEF IF_!Forward, IF_!Step, IF_!Keep
  <2> QED BY <2>1, FormMoved
<1>4. CASE IF_!Back
  <2>1. /\ cursor_position > 0 /\ IF_!To(cursor_position + -1, cursor_form_win + -1)
        /\ UNCHANGED <<editing, result, result_len>>
    BY <1>4 DEF IF_!Back, IF_!Step, IF_!Keep
  <2> QED BY <2>1, FormMoved
<1>5. CASE IF_!Home
  BY <1>5, FormMoved DEF IF_!Home, IF_!Keep
<1>6. CASE IF_!EndOfLine
  BY <1>6, FormMoved DEF IF_!EndOfLine, IF_!Keep
<1>7. CASE IF_!Close
  <2>1. /\ IF_!To(cursor_position, cursor_form_win) /\ editing' = FALSE
        /\ UNCHANGED <<result, result_len>>
    BY <1>7 DEF IF_!Close
  <2>2. editing' \in BOOLEAN /\ (editing' => Len(result') < result_len')
    BY <2>1
  <2> QED BY <2>1, <2>2, FormMoved
<1>8. CASE UNCHANGED IF_!formVars
  BY <1>8 DEF FormInv, IF_!TypeOK, IF_!FormOnText, IF_!formVars
<1> QED BY <1>1, <1>2, <1>3, <1>4, <1>5, <1>6, <1>7, <1>8 DEF IF_!Next

LEMMA FormImplements ==
    ASSUME FormInv, [IF_!Next]_(IF_!formVars)
    PROVE  [IF_!Edited!Next]_(IF_!Edited!editVars)
<1> USE FormTypes
<1>1. ASSUME NEW n \in 0..MaxText, NEW init \in [1..n -> Chars], IF_!Open(init)
      PROVE  IF_!Edited!Start
  <2>1. init \in UNION {[1..k -> Chars] : k \in 0..MaxText}
    OBVIOUS
  <2>2. init \in Seq(Chars)
    BY <2>1, FormTexts
  <2> QED BY <1>1, <2>2 DEF IF_!Open, IF_!Edited!Start
<1>2. ASSUME IF_!Backspace PROVE IF_!Edited!Backspace
  BY <1>2 DEF IF_!Backspace, IF_!Step, IF_!To, IF_!Cut, IF_!Edited!Backspace, IF_!Edited!Edit,
              IF_!Edited!Before, IF_!Edited!After
<1>3. ASSUME IF_!Delete PROVE IF_!Edited!Delete
  <2>1. PICK p : p = cursor_position + 1
    OBVIOUS
  <2>2. result' = SubSeq(result, 1, p - 1) \o SubSeq(result, p + 1, Len(result))
    BY <1>3, <2>1, Zenon DEF IF_!Delete, IF_!Cut
  <2>3. p - 1 = cursor_position
    BY <2>1
  <2>4. result' = IF_!Edited!Before(cursor_position) \o IF_!Edited!After(cursor_position + 1)
    BY <2>1, <2>2, <2>3, Zenon DEF IF_!Edited!Before, IF_!Edited!After
  <2> QED BY <1>3, <2>4 DEF IF_!Delete, IF_!To, IF_!Edited!Delete, IF_!Edited!Edit
<1>4. ASSUME NEW c \in Chars, IF_!Type(c) PROVE IF_!Edited!Insert(c)
  BY <1>4 DEF IF_!Type, IF_!Step, IF_!To, IF_!Edited!Insert, IF_!Edited!Edit,
              IF_!Edited!Before, IF_!Edited!After
<1>5. ASSUME IF_!Forward \/ IF_!Back \/ IF_!Home \/ IF_!EndOfLine PROVE IF_!Edited!Move
  BY <1>5 DEF IF_!Forward, IF_!Back, IF_!Home, IF_!EndOfLine, IF_!Keep, IF_!Step, IF_!To,
              IF_!Edited!Move, IF_!Edited!Edit
<1>6. ASSUME IF_!Close PROVE IF_!Edited!Finish
  BY <1>6 DEF IF_!Close, IF_!To, IF_!Edited!Finish
<1>7. CASE UNCHANGED IF_!formVars
  BY <1>7 DEF IF_!formVars, IF_!Edited!editVars
<1> QED BY <1>1, <1>2, <1>3, <1>4, <1>5, <1>6, <1>7 DEF IF_!Next, IF_!Edited!Next

(* The input field of nconf: its cursor is on its text and in the field,   *)
(* the text fits into its buffer, and keys edit the text at the cursor     *)
(* (InputForm.FormOnText, ImplementsLineEdit; dialog_inputbox,             *)
(* nconf.gui.c:357).                                                       *)
THEOREM InputFormIsRight ==
    IF_!Spec => [](IF_!TypeOK /\ IF_!FormOnText) /\ IF_!ImplementsLineEdit
<1>1. IF_!Init => FormInv
  BY FormStarts
<1>2. FormInv /\ [IF_!Next]_(IF_!formVars) => FormInv'
  BY FormKept
<1>3. IF_!Init => IF_!Edited!Init
  BY DEF IF_!Init, IF_!Edited!Init
<1>4. FormInv /\ [IF_!Next]_(IF_!formVars) => [IF_!Edited!Next]_(IF_!Edited!editVars)
  BY FormImplements
<1>5. FormInv => IF_!TypeOK /\ IF_!FormOnText
  BY DEF FormInv
<1> QED BY <1>1, <1>2, <1>3, <1>4, <1>5, PTL DEF IF_!Spec, IF_!ImplementsLineEdit, IF_!Edited!Spec

-----------------------------------------------------------------------------
(* dialog_inputbox of mconf.  The text of length n in an array.            *)
TextIs(str, n) ==
    /\ str \in [0..MaxText -> Chars \cup {"nul"}]
    /\ n \in 0..MaxText
    /\ str[n] = "nul"
    /\ \A i \in 0..(n - 1) : str[i] \in Chars

(* What the field shows of it.                                             *)
FieldShows(c, str, n, from) ==
    \A i \in IB!Columns : c[i] = IF from + i < n THEN str[from + i] ELSE IB!Blank

BoxInv ==
    /\ asked \in BOOLEAN /\ field \in -1..1
    /\ TextIs(instr, len)
    /\ show_x \in Nat /\ input_x \in IB!Columns /\ place = show_x + input_x /\ place <= len
    /\ cells \in [IB!Columns -> Chars \cup {IB!Blank}]
    /\ asked => FieldShows(cells, instr, len, show_x)

LEMMA ColumnsAre ==
    /\ box_width \in Nat \ {0} /\ MaxText \in Nat /\ "nul" \notin Chars
    /\ IB!NUL = "nul"
    /\ \A i : i \in IB!Columns <=> i \in 0..(box_width - 1)
    /\ \A i \in IB!Columns : i \in Nat
    /\ 0 \in IB!Columns /\ box_width - 1 \in IB!Columns
BY InputsAssumption DEF IB!Columns, IB!NUL

LEMMA BoxTypes ==
    ASSUME BoxInv
    PROVE  /\ len \in 0..MaxText /\ len \in Nat /\ place \in Nat /\ place <= len
           /\ show_x \in Nat /\ show_x <= len /\ input_x \in IB!Columns /\ input_x \in Nat
           /\ place = show_x + input_x /\ asked \in BOOLEAN /\ field \in -1..1
           /\ TextIs(instr, len) /\ box_width \in Nat \ {0} /\ MaxText \in Nat
<1>1. len \in 0..MaxText /\ TextIs(instr, len)
  BY DEF BoxInv, TextIs
<1>2. box_width \in Nat \ {0} /\ MaxText \in Nat /\ (input_x \in IB!Columns => input_x \in Nat)
  BY ColumnsAre
<1>3. /\ show_x \in Nat /\ input_x \in IB!Columns /\ place = show_x + input_x /\ place <= len
      /\ asked \in BOOLEAN /\ field \in -1..1
  BY DEF BoxInv
<1> QED BY <1>1, <1>2, <1>3

LEMMA BoxFacts ==
    ASSUME BoxInv
    PROVE  IB!TypeOK /\ IB!CursorRight /\ IB!FieldMatches
<1>1. IB!TypeOK
  <2>1. instr \in [0..MaxText -> Chars \cup {IB!NUL}]
    BY ColumnsAre, BoxTypes DEF TextIs
  <2>2. input_x \in Int /\ cells \in [IB!Columns -> Chars \cup {IB!Blank}]
    BY BoxTypes DEF BoxInv
  <2> QED BY <2>1, <2>2, BoxTypes DEF IB!TypeOK
<1>2. IB!CursorRight
  BY DEF BoxInv, IB!CursorRight
<1>3. IB!FieldMatches
  BY DEF BoxInv, FieldShows, IB!FieldMatches
<1> QED BY <1>1, <1>2, <1>3

(* The loop that draws a text from a column on reaches the blank behind it *)
(* and leaves the columns after that alone.                                *)
LEMMA DrawnIs ==
    ASSUME NEW str, NEW n, TextIs(str, n), NEW from \in 0..n, NEW i \in IB!Columns
    PROVE  IB!Drawn(str, from)[i] =
             IF from + i < n THEN str[from + i]
             ELSE IF from + i = n THEN IB!Blank ELSE cells[i]
<1>1. n \in Nat /\ i \in Nat /\ from \in Nat /\ str[n] = "nul"
      /\ (\A j \in 0..(n - 1) : str[j] \in Chars) /\ "nul" \notin Chars
  BY ColumnsAre DEF TextIs
<1> DEFINE ended == \E j \in 0..i : str[from + j] = IB!NUL
           before == \A j \in 0..(i - 1) : str[from + j] # IB!NUL
<1>2. IB!Drawn(str, from)[i] =
        IF ended THEN (IF before THEN IB!Blank ELSE cells[i]) ELSE str[from + i]
  BY DEF IB!Drawn
<1>3. CASE from + i < n
  <2>1. ~ended
    <3>1. \A j \in 0..i : from + j \in 0..(n - 1)
      BY <1>1, <1>3
    <3> QED BY <1>1, <3>1, ColumnsAre
  <2> QED BY <1>2, <1>3, <2>1
<1>4. CASE from + i >= n
  <2>1. n - from \in 0..i /\ from + (n - from) = n
    BY <1>1, <1>4
  <2>2. ended
    BY <1>1, <2>1, ColumnsAre
  <2>3. before <=> from + i = n
    <3>1. CASE from + i = n
      <4>1. \A j \in 0..(i - 1) : from + j \in 0..(n - 1)
        BY <1>1, <3>1
      <4> QED BY <1>1, <3>1, <4>1, ColumnsAre
    <3>2. CASE from + i > n
      <4>1. n - from \in 0..(i - 1)
        BY <1>1, <3>2
      <4> QED BY <1>1, <2>1, <3>2, <4>1, ColumnsAre
    <3> QED BY <1>1, <1>4, <3>1, <3>2
  <2> HIDE DEF ended, before
  <2>4. ~(from + i < n)
    BY <1>1, <1>4
  <2> QED BY <1>2, <2>2, <2>3, <2>4
<1> QED BY <1>1, <1>3, <1>4

LEMMA DrawnType ==
    ASSUME BoxInv, NEW str, NEW n, TextIs(str, n), NEW from \in 0..n
    PROVE  IB!Drawn(str, from) \in [IB!Columns -> Chars \cup {IB!Blank}]
<1>1. ASSUME NEW i \in IB!Columns
      PROVE  IB!Drawn(str, from)[i] \in Chars \cup {IB!Blank}
  <2>1. n \in Nat /\ i \in Nat /\ (\A j \in 0..(n - 1) : str[j] \in Chars)
    BY ColumnsAre DEF TextIs
  <2>2. cells[i] \in Chars \cup {IB!Blank}
    BY DEF BoxInv
  <2>3. from + i < n => from + i \in 0..(n - 1)
    BY <2>1
  <2> QED BY <2>1, <2>2, <2>3, DrawnIs
<1>2. IB!Drawn(str, from) = [i \in IB!Columns |-> IB!Drawn(str, from)[i]]
  BY DEF IB!Drawn
<1> QED BY <1>1, <1>2

(* Drawing is enough when no more than one column of the old text is       *)
(* behind the new one.                                                     *)
LEMMA DrawnShows ==
    ASSUME BoxInv, asked, NEW str, NEW n, TextIs(str, n), NEW from \in 0..n,
           len - show_x <= n - from + 1
    PROVE  FieldShows(IB!Drawn(str, from), str, n, from)
<1> SUFFICES ASSUME NEW i \in IB!Columns
             PROVE  IB!Drawn(str, from)[i] = IF from + i < n THEN str[from + i] ELSE IB!Blank
  BY DEF FieldShows
<1>1. n \in Nat /\ i \in Nat /\ show_x \in Nat /\ len \in Nat
  BY BoxTypes, ColumnsAre DEF TextIs
<1>2. cells[i] = IF show_x + i < len THEN instr[show_x + i] ELSE IB!Blank
  BY DEF BoxInv, FieldShows
<1>3. from + i > n => ~(show_x + i < len)
  BY <1>1
<1>4. from + i > n => cells[i] = IB!Blank
  BY <1>2, <1>3
<1>5. from + i < n \/ from + i = n \/ from + i > n
  BY <1>1
<1> QED BY <1>1, <1>4, <1>5, DrawnIs

LEMMA BoxDrawn ==
    ASSUME BoxInv, asked, asked' = asked, field' = field,
           TextIs(instr', len'), show_x' \in Nat, input_x' \in IB!Columns,
           place' = show_x' + input_x', place' <= len', len - show_x <= len' - show_x' + 1,
           cells' = IB!Drawn(instr', show_x')
    PROVE  BoxInv'
<1>1. show_x' \in 0..len'
  <2>1. len' \in Nat /\ input_x' \in Nat
    BY ColumnsAre DEF TextIs
  <2>2. show_x' + input_x' <= len'
    BY Zenon
  <2>3. \A a, b, n \in Nat : a + b <= n => a \in 0..n
    OBVIOUS
  <2> QED BY <2>1, <2>2, <2>3, Zenon
<1>2. FieldShows(cells', instr', len', show_x')
  BY <1>1, DrawnShows
<1>3. cells' \in [IB!Columns -> Chars \cup {IB!Blank}]
  BY <1>1, DrawnType
<1> QED BY <1>2, <1>3 DEF BoxInv

(* Keys that leave text and columns as they are.                           *)
LEMMA BoxMoved ==
    ASSUME BoxInv, asked' \in BOOLEAN, asked' => asked, field' \in -1..1,
           UNCHANGED <<instr, len, show_x, cells>>, input_x' \in IB!Columns,
           place' = show_x + input_x', place' <= len
    PROVE  BoxInv'
<1>1. TextIs(instr', len')
  BY DEF BoxInv
<1>2. asked' => FieldShows(cells', instr', len', show_x')
  BY DEF BoxInv
<1> QED BY <1>1, <1>2 DEF BoxInv

LEMMA BoxSetUp ==
    ASSUME NEW str, NEW n, TextIs(str, n), IB!SetUp(str, n), instr' = str,
           asked' \in BOOLEAN, field' \in -1..1
    PROVE  BoxInv' /\ len' = n /\ place' = n
<1> DEFINE from == IF n >= box_width THEN n - box_width + 1 ELSE 0
<1>1. /\ len' = n /\ place' = n /\ show_x' = from /\ input_x' = n - from
      /\ cells' = [i \in IB!Columns |-> IF from + i < n THEN str[from + i] ELSE IB!Blank]
  BY DEF IB!SetUp
<1>2. n \in Nat /\ (\A j \in 0..(n - 1) : str[j] \in Chars) /\ box_width \in Nat \ {0}
  BY ColumnsAre DEF TextIs
<1>3. from \in Nat /\ n - from \in 0..(box_width - 1) /\ n = from + (n - from)
  BY <1>2
<1>4. n - from \in IB!Columns
  BY <1>3, ColumnsAre
<1> HIDE DEF from
<1>5. cells' \in [IB!Columns -> Chars \cup {IB!Blank}]
  <2>1. ASSUME NEW i \in IB!Columns
        PROVE  (IF from + i < n THEN str[from + i] ELSE IB!Blank) \in Chars \cup {IB!Blank}
    <3>1. i \in Nat
      BY ColumnsAre
    <3>2. from + i < n => from + i \in 0..(n - 1)
      BY <1>2, <1>3, <3>1
    <3> QED BY <1>2, <3>2
  <2> QED BY <1>1, <2>1
<1>6. FieldShows(cells', instr', len', show_x')
  BY <1>1 DEF FieldShows
<1>7. place' <= len' /\ place' = show_x' + input_x' /\ input_x' \in IB!Columns /\ show_x' \in Nat
  BY <1>1, <1>2, <1>3, <1>4
<1> QED BY <1>1, <1>5, <1>6, <1>7 DEF BoxInv

(* The text a field is opened with, copied to the array.                   *)
LEMMA BoxOpened ==
    ASSUME BoxInv, NEW n \in 0..MaxText, NEW init \in [1..n -> Chars], IB!Open(init)
    PROVE  /\ BoxInv' /\ ~asked /\ asked' /\ len' = n /\ place' = n
           /\ \A i \in 0..(n - 1) : instr'[i] = init[i + 1]
<1>1. n \in Nat /\ n <= MaxText /\ MaxText \in Nat
  BY ColumnsAre
<1>2. Len(init) = n
  BY <1>1
<1>3. ~asked /\ asked' = TRUE /\ field' = -1 /\ instr' = IB!Copied(init) /\ IB!SetUp(instr', n)
  BY <1>2 DEF IB!Open
<1>4. instr \in [0..MaxText -> Chars \cup {"nul"}]
  BY DEF BoxInv, TextIs
<1>5. instr' = [i \in 0..MaxText |->
                  IF i < n THEN init[i + 1] ELSE IF i = n THEN "nul" ELSE instr[i]]
  BY <1>2, <1>3, <1>4, ColumnsAre DEF IB!Copied
<1>6. \A i \in 0..(n - 1) : instr'[i] = init[i + 1] /\ init[i + 1] \in Chars
  BY <1>1, <1>5
<1>7. TextIs(instr', n)
  <2>1. \A i \in 0..MaxText :
          (IF i < n THEN init[i + 1] ELSE IF i = n THEN "nul" ELSE instr[i]) \in Chars \cup {"nul"}
    BY <1>1, <1>4
  <2>2. instr' \in [0..MaxText -> Chars \cup {"nul"}]
    BY <1>5, <2>1
  <2>3. instr'[n] = "nul"
    BY <1>1, <1>5
  <2> QED BY <1>6, <2>2, <2>3 DEF TextIs
<1>8. asked' \in BOOLEAN /\ field' \in -1..1
  BY <1>3
<1> QED BY <1>3, <1>6, <1>7, <1>8, BoxSetUp

(* A character typed at the cursor moves the rest of the text.             *)
LEMMA BoxTyped ==
    ASSUME BoxInv, NEW c \in Chars, IB!Type(c)
    PROVE  /\ BoxInv' /\ asked /\ asked' /\ len' = len + 1 /\ place' = place + 1
           /\ \A i \in 0..len :
                instr'[i] = IF i < place THEN instr[i] ELSE IF i = place THEN c ELSE instr[i - 1]
<1> USE BoxTypes
<1>1. /\ asked /\ field = -1 /\ asked' = asked /\ field' = field /\ len < MaxText
      /\ instr' = [i \in DOMAIN instr |->
                    IF i = len + 1 THEN "nul"
                    ELSE IF i = place THEN c
                    ELSE IF i > place /\ i <= len THEN instr[i - 1] ELSE instr[i]]
      /\ place' = place + 1 /\ len' = len + 1
      /\ IF input_x = box_width - 1
         THEN show_x' = show_x + 1 /\ input_x' = input_x
         ELSE input_x' = input_x + 1 /\ show_x' = show_x
      /\ cells' = IB!Drawn(instr', show_x')
  BY ColumnsAre DEF IB!Type, IB!InField
<1>2. /\ instr \in [0..MaxText -> Chars \cup {"nul"}] /\ DOMAIN instr = 0..MaxText
      /\ \A i \in 0..(len - 1) : instr[i] \in Chars
  BY DEF TextIs
<1>3. \A i \in 0..len :
        instr'[i] = IF i < place THEN instr[i] ELSE IF i = place THEN c ELSE instr[i - 1]
  BY <1>1, <1>2
<1>4. TextIs(instr', len')
  <2>1. \A i \in 0..MaxText :
          (IF i = len + 1 THEN "nul"
           ELSE IF i = place THEN c
           ELSE IF i > place /\ i <= len THEN instr[i - 1] ELSE instr[i]) \in Chars \cup {"nul"}
    BY <1>2
  <2>2. instr' \in [0..MaxText -> Chars \cup {"nul"}]
    BY <1>1, <1>2, <2>1
  <2>3. len' \in 0..MaxText /\ instr'[len'] = "nul"
    BY <1>1, <1>2
  <2>4. \A i \in 0..len : instr'[i] \in Chars
    BY <1>2, <1>3
  <2> QED BY <1>1, <2>2, <2>3, <2>4 DEF TextIs
<1>5. /\ show_x' \in Nat /\ input_x' \in IB!Columns /\ place' = show_x' + input_x'
      /\ place' <= len' /\ len - show_x <= len' - show_x' + 1
  <2>1. CASE input_x = box_width - 1
    BY <1>1, <2>1
  <2>2. CASE input_x # box_width - 1
    <3>1. input_x + 1 \in IB!Columns
      BY <2>2, ColumnsAre
    <3> QED BY <1>1, <2>2, <3>1
  <2> QED BY <2>1, <2>2
<1>6. BoxInv'
  BY <1>1, <1>4, <1>5, BoxDrawn
<1> QED BY <1>1, <1>3, <1>6

LEMMA BoxErased ==
    ASSUME BoxInv, IB!Backspace
    PROVE  /\ BoxInv' /\ asked /\ asked' /\ place > 0 /\ len' = len - 1 /\ place' = place - 1
           /\ \A i \in 0..(len - 2) : instr'[i] = IF i < place - 1 THEN instr[i] ELSE instr[i + 1]
<1> USE BoxTypes
<1>1. /\ asked /\ field = -1 /\ asked' = asked /\ field' = field /\ place > 0
      /\ instr' = [i \in DOMAIN instr |->
                    IF i = len - 1 THEN "nul"
                    ELSE IF place < len /\ i >= place - 1 /\ i < len THEN instr[i + 1]
                    ELSE instr[i]]
      /\ place' = place - 1 /\ len' = len - 1
      /\ IF input_x = 0
         THEN show_x' = show_x - 1 /\ input_x' = input_x
         ELSE input_x' = input_x - 1 /\ show_x' = show_x
      /\ cells' = IB!Drawn(instr', show_x')
  BY ColumnsAre DEF IB!Backspace, IB!InField
<1>2. /\ instr \in [0..MaxText -> Chars \cup {"nul"}] /\ DOMAIN instr = 0..MaxText
      /\ \A i \in 0..(len - 1) : instr[i] \in Chars
  BY DEF TextIs
<1>3. \A i \in 0..(len - 2) : instr'[i] = IF i < place - 1 THEN instr[i] ELSE instr[i + 1]
  BY <1>1, <1>2
<1>4. TextIs(instr', len')
  <2>1. \A i \in 0..MaxText :
          (IF i = len - 1 THEN "nul"
           ELSE IF place < len /\ i >= place - 1 /\ i < len THEN instr[i + 1]
           ELSE instr[i]) \in Chars \cup {"nul"}
    BY <1>2
  <2>2. instr' \in [0..MaxText -> Chars \cup {"nul"}]
    BY <1>1, <1>2, <2>1
  <2>3. len' \in 0..MaxText /\ instr'[len'] = "nul"
    BY <1>1, <1>2
  <2>4. \A i \in 0..(len - 2) : instr'[i] \in Chars
    BY <1>2, <1>3
  <2>5. \A i \in 0..(len' - 1) : i \in 0..(len - 2)
    BY <1>1
  <2> QED BY <2>2, <2>3, <2>4, <2>5 DEF TextIs
<1>5. /\ show_x' \in Nat /\ input_x' \in IB!Columns /\ place' = show_x' + input_x'
      /\ place' <= len' /\ len - show_x <= len' - show_x' + 1
  <2>1. CASE input_x = 0
    BY <1>1, <2>1
  <2>2. CASE input_x # 0
    <3>1. input_x - 1 \in IB!Columns
      BY <2>2, ColumnsAre
    <3> QED BY <1>1, <2>2, <3>1
  <2> QED BY <2>1, <2>2
<1>6. BoxInv'
  BY <1>1, <1>4, <1>5, BoxDrawn
<1> QED BY <1>1, <1>3, <1>6

LEMMA BoxScrolled ==
    ASSUME BoxInv, IB!Left \/ IB!Right
    PROVE  /\ BoxInv' /\ asked /\ asked' = asked /\ UNCHANGED <<instr, len>>
           /\ place' \in {place - 1, place + 1} \cap 0..len
<1> USE BoxTypes
<1>1. CASE IB!Left
  <2>1. /\ asked /\ asked' = asked /\ field' = field /\ place > 0 /\ place' = place - 1
        /\ UNCHANGED <<instr, len>>
    BY <1>1 DEF IB!Left, IB!InField
  <2>2. CASE input_x > 0 /\ input_x' = input_x - 1 /\ UNCHANGED <<show_x, cells>>
    <3>1. input_x - 1 \in IB!Columns
      BY <2>2, ColumnsAre
    <3>2. place' = show_x + input_x' /\ place' <= len
      BY <2>1, <2>2
    <3> QED BY <2>1, <2>2, <3>1, <3>2, BoxMoved
  <2>3. CASE /\ input_x = 0 /\ show_x' = show_x - 1
             /\ cells' = IB!Drawn(instr, show_x') /\ input_x' = input_x
    <3>1. /\ show_x' \in Nat /\ place' = show_x' + input_x' /\ place' <= len'
          /\ len - show_x <= len' - show_x' + 1
      BY <2>1, <2>3
    <3>2. TextIs(instr', len') /\ cells' = IB!Drawn(instr', show_x')
      BY <2>1, <2>3
    <3> QED BY <2>1, <2>3, <3>1, <3>2, BoxDrawn
  <2> QED BY <1>1, <2>1, <2>2, <2>3 DEF IB!Left
<1>2. CASE IB!Right
  <2>1. /\ asked /\ asked' = asked /\ field' = field /\ place < len /\ place' = place + 1
        /\ UNCHANGED <<instr, len>>
    BY <1>2 DEF IB!Right, IB!InField
  <2>2. CASE input_x < box_width - 1 /\ input_x' = input_x + 1 /\ UNCHANGED <<show_x, cells>>
    <3>1. input_x + 1 \in IB!Columns
      BY <2>2, ColumnsAre
    <3>2. place' = show_x + input_x' /\ place' <= len
      BY <2>1, <2>2
    <3> QED BY <2>1, <2>2, <3>1, <3>2, BoxMoved
  <2>3. CASE /\ input_x = box_width - 1 /\ show_x' = show_x + 1
             /\ cells' = IB!Drawn(instr, show_x') /\ input_x' = input_x
    <3>1. /\ show_x' \in Nat /\ place' = show_x' + input_x' /\ place' <= len'
          /\ len - show_x <= len' - show_x' + 1
      BY <2>1, <2>3
    <3>2. TextIs(instr', len') /\ cells' = IB!Drawn(instr', show_x')
      BY <2>1, <2>3
    <3> QED BY <2>1, <2>3, <3>1, <3>2, BoxDrawn
  <2> QED BY <1>2, <2>1, <2>2, <2>3 DEF IB!Right
<1> QED BY <1>1, <1>2

LEMMA BoxResized ==
    ASSUME BoxInv, IB!Resize
    PROVE  BoxInv' /\ asked /\ asked' = asked /\ UNCHANGED <<instr, len>> /\ place' = len
<1>1. /\ asked /\ asked' = asked /\ field' = field /\ instr' = instr /\ IB!SetUp(instr, len)
  BY DEF IB!Resize
<1> QED BY <1>1, BoxTypes, BoxSetUp

LEMMA BoxLeft ==
    ASSUME BoxInv
    PROVE  /\ IB!Close => BoxInv'
           /\ \A n \in {-1, 1} : IB!Button(n) => BoxInv'
           /\ UNCHANGED IB!boxVars => BoxInv'
<1> USE BoxTypes
<1>1. ASSUME IB!Close PROVE BoxInv'
  <2>1. /\ asked' = FALSE
        /\ UNCHANGED <<instr, len, place, show_x, input_x, field, cells>>
    BY <1>1 DEF IB!Close
  <2>2. asked' \in BOOLEAN /\ (asked' => asked)
    BY <2>1, Zenon
  <2> QED BY <2>1, <2>2, BoxMoved
<1>2. ASSUME NEW n \in {-1, 1}, IB!Button(n) PROVE BoxInv'
  <2>1. /\ field' = ((field + 1 + n) % 3) - 1
        /\ UNCHANGED <<asked, instr, len, place, show_x, input_x, cells>>
    BY <1>2 DEF IB!Button
  <2>2. field' \in -1..1
    BY <2>1
  <2> QED BY <2>1, <2>2, BoxMoved
<1>3. ASSUME UNCHANGED IB!boxVars PROVE BoxInv'
  BY <1>3, BoxMoved DEF IB!boxVars
<1> QED BY <1>1, <1>2, <1>3

LEMMA BoxStarts ==
    ASSUME IB!Init
    PROVE  BoxInv
<1>1. /\ asked = FALSE /\ instr = [i \in 0..MaxText |-> "nul"]
      /\ len = 0 /\ place = 0 /\ show_x = 0 /\ input_x = 0 /\ field = -1
      /\ cells = [i \in IB!Columns |-> IB!Blank]
  BY ColumnsAre DEF IB!Init
<1>2. TextIs(instr, len)
  BY <1>1, ColumnsAre DEF TextIs
<1>3. asked \in BOOLEAN /\ ~asked
  BY <1>1, Zenon
<1>4. cells \in [IB!Columns -> Chars \cup {IB!Blank}]
  BY <1>1
<1>5. /\ field \in -1..1 /\ show_x \in Nat /\ input_x \in IB!Columns
      /\ place = show_x + input_x /\ place <= len
  BY <1>1, ColumnsAre
<1> QED BY <1>2, <1>3, <1>4, <1>5 DEF BoxInv

LEMMA BoxKept ==
    ASSUME BoxInv, [IB!Next]_(IB!boxVars)
    PROVE  BoxInv'
<1>1. ASSUME NEW n \in 0..MaxText, NEW init \in [1..n -> Chars], IB!Open(init) PROVE BoxInv'
  BY <1>1, BoxOpened
<1>2. ASSUME NEW c \in Chars, IB!Type(c) PROVE BoxInv'
  BY <1>2, BoxTyped
<1>3. CASE IB!Resize \/ IB!Backspace \/ IB!Left \/ IB!Right
  BY <1>3, BoxResized, BoxErased, BoxScrolled
<1>4. CASE IB!Close \/ (\E n \in {-1, 1} : IB!Button(n)) \/ UNCHANGED IB!boxVars
  BY <1>4, BoxLeft
<1> QED BY <1>1, <1>2, <1>3, <1>4 DEF IB!Next

(* The array as the sequence that LineEdit speaks of.                      *)
BoxText(str, n) == [i \in 1..n |-> str[i - 1]]

LEMMA BoxTextIs ==
    ASSUME NEW str, NEW n, TextIs(str, n)
    PROVE  /\ BoxText(str, n) \in Seq(Chars) /\ Len(BoxText(str, n)) = n /\ n \in Nat
           /\ \A i \in 1..n : BoxText(str, n)[i] = str[i - 1]
<1>1. n \in Nat /\ \A i \in 1..n : str[i - 1] \in Chars
  <2>1. n \in Nat
    BY ColumnsAre DEF TextIs
  <2>2. \A i \in 1..n : i - 1 \in 0..(n - 1)
    BY <2>1
  <2> QED BY <2>1, <2>2 DEF TextIs
<1>2. BoxText(str, n) \in [1..n -> Chars]
  BY <1>1 DEF BoxText
<1>3. BoxText(str, n) \in Seq(Chars) /\ Len(BoxText(str, n)) = n
  BY <1>1, <1>2
<1>4. \A i \in 1..n : BoxText(str, n)[i] = str[i - 1]
  BY DEF BoxText
<1> QED BY <1>1, <1>3, <1>4

(* What the refinement mapping of InputBox makes of it.                    *)
Mapped(str, n) == [i \in 1..n |-> IF str[n] = IB!NUL THEN str[i - 1] ELSE IB!NUL]

LEMMA MappedIs ==
    ASSUME NEW str, NEW n, TextIs(str, n)
    PROVE  Mapped(str, n) = BoxText(str, n)
<1>1. str[n] = IB!NUL
  BY ColumnsAre DEF TextIs
<1> QED BY <1>1 DEF Mapped, BoxText

LEMMA TypedIsInserted ==
    ASSUME BoxInv, NEW c \in Chars, IB!Type(c)
    PROVE  BoxText(instr', len') = Inserted(BoxText(instr, len), place, c)
<1> DEFINE t == BoxText(instr, len)
           u == BoxText(instr', len')
<1>1. /\ BoxInv' /\ len' = len + 1
      /\ \A i \in 0..len :
           instr'[i] = IF i < place THEN instr[i] ELSE IF i = place THEN c ELSE instr[i - 1]
  BY BoxTyped
<1>2. TextIs(instr, len) /\ TextIs(instr', len') /\ place \in 0..len
  BY <1>1, BoxTypes DEF BoxInv
<1>3. t \in Seq(Chars) /\ Len(t) = len /\ len \in Nat /\ \A i \in 1..len : t[i] = instr[i - 1]
  BY <1>2, BoxTextIs
<1>4. u \in Seq(Chars) /\ Len(u) = len + 1 /\ \A i \in 1..(len + 1) : u[i] = instr'[i - 1]
  <2>1. u \in Seq(Chars) /\ Len(u) = len' /\ \A i \in 1..len' : u[i] = instr'[i - 1]
    BY <1>2, BoxTextIs
  <2> QED BY <1>1, <2>1
<1> HIDE DEF t, u
<1>5. /\ Inserted(t, place, c) \in Seq(Chars)
      /\ Len(Inserted(t, place, c)) = len + 1
      /\ \A i \in 1..(len + 1) :
           Inserted(t, place, c)[i] = IF i <= place THEN t[i] ELSE IF i = place + 1 THEN c ELSE t[i - 1]
  <2>1. place \in 0..Len(t) /\ Len(t) = len /\ t \in Seq(Chars)
    BY <1>2, <1>3, Zenon
  <2>2. IsInserted(Inserted(t, place, c), t, place, c, Chars)
    BY <2>1, InsertIs, Zenon
  <2> QED BY <2>1, <2>2, Zenon DEF IsInserted
<1>6. ASSUME NEW i \in 1..(len + 1)
      PROVE  u[i] = Inserted(t, place, c)[i]
  <2>1. i - 1 \in 0..len /\ i \in Nat /\ place \in Nat
    BY <1>2, <1>3
  <2>2. u[i] = IF i - 1 < place THEN instr[i - 1] ELSE IF i - 1 = place THEN c ELSE instr[(i - 1) - 1]
    BY <1>1, <1>4, <2>1
  <2>3. i <= place => t[i] = instr[i - 1]
    BY <1>2, <1>3, <2>1
  <2>4. i > place + 1 => t[i - 1] = instr[(i - 1) - 1]
    <3>1. i > place + 1 => i - 1 \in 1..len
      BY <1>3, <2>1
    <3> QED BY <1>3, <3>1
  <2>5. (i - 1 < place <=> i <= place) /\ (i - 1 = place <=> i = place + 1)
    BY <2>1
  <2>6. i <= place \/ i = place + 1 \/ i > place + 1
    BY <2>1
  <2> QED BY <1>5, <2>1, <2>2, <2>3, <2>4, <2>5, <2>6
<1>7. u = Inserted(t, place, c)
  BY <1>4, <1>5, <1>6, SeqEqual
<1> QED BY <1>7 DEF t, u

LEMMA ErasedIsRemoved ==
    ASSUME BoxInv, IB!Backspace
    PROVE  BoxText(instr', len') = Removed(BoxText(instr, len), place)
<1> DEFINE t == BoxText(instr, len)
           u == BoxText(instr', len')
<1>1. /\ BoxInv' /\ len' = len - 1 /\ place > 0
      /\ \A i \in 0..(len - 2) : instr'[i] = IF i < place - 1 THEN instr[i] ELSE instr[i + 1]
  BY BoxErased
<1>2. TextIs(instr, len) /\ TextIs(instr', len') /\ place \in 1..len
  BY <1>1, BoxTypes DEF BoxInv
<1>3. t \in Seq(Chars) /\ Len(t) = len /\ len \in Nat /\ \A i \in 1..len : t[i] = instr[i - 1]
  BY <1>2, BoxTextIs
<1>4. u \in Seq(Chars) /\ Len(u) = len - 1 /\ \A i \in 1..(len - 1) : u[i] = instr'[i - 1]
  <2>1. u \in Seq(Chars) /\ Len(u) = len' /\ \A i \in 1..len' : u[i] = instr'[i - 1]
    BY <1>2, BoxTextIs
  <2> QED BY <1>1, <2>1
<1> HIDE DEF t, u
<1>5. /\ Removed(t, place) \in Seq(Chars)
      /\ Len(Removed(t, place)) = len - 1
      /\ \A i \in 1..(len - 1) : Removed(t, place)[i] = IF i < place THEN t[i] ELSE t[i + 1]
  BY <1>2, <1>3, RemoveIs
<1>6. ASSUME NEW i \in 1..(len - 1)
      PROVE  u[i] = Removed(t, place)[i]
  <2>1. i - 1 \in 0..(len - 2) /\ i \in 1..len /\ i + 1 \in 1..len /\ place \in Nat /\ i \in Nat
    BY <1>2, <1>3
  <2>2. u[i] = IF i - 1 < place - 1 THEN instr[i - 1] ELSE instr[(i - 1) + 1]
    BY <1>1, <1>4, <2>1
  <2>3. t[i] = instr[i - 1] /\ t[i + 1] = instr[(i + 1) - 1]
    BY <1>3, <2>1
  <2>4. (i - 1) + 1 = (i + 1) - 1 /\ (i - 1 < place - 1 <=> i < place)
    BY <2>1
  <2> QED BY <1>5, <2>2, <2>3, <2>4
<1>7. u = Removed(t, place)
  BY <1>4, <1>5, <1>6, SeqEqual
<1> QED BY <1>7 DEF t, u

LEMMA BoxImplements ==
    ASSUME BoxInv, [IB!Next]_(IB!boxVars)
    PROVE  [IB!Edited!Next]_(IB!Edited!editVars)
<1> DEFINE t == BoxText(instr, len)
           u == BoxText(instr', len')
<1> USE BoxTypes
<1>1. /\ TextIs(instr, len) /\ TextIs(instr', len')
      /\ Mapped(instr, len) = t /\ Mapped(instr', len') = u
      /\ t \in Seq(Chars) /\ Len(t) = len /\ u \in Seq(Chars) /\ Len(u) = len'
  <2>1. TextIs(instr, len) /\ TextIs(instr', len')
    BY BoxKept DEF BoxInv
  <2>2. Mapped(instr, len) = t /\ Mapped(instr', len') = u
    BY <2>1, MappedIs
  <2> QED BY <2>1, <2>2, BoxTextIs
<1> HIDE DEF t, u
<1>2. ASSUME NEW n \in 0..MaxText, NEW init \in [1..n -> Chars], IB!Open(init)
      PROVE  IB!Edited!Start
  <2>1. ~asked /\ asked' /\ len' = n /\ place' = n
    BY <1>2, BoxOpened
  <2> QED BY <1>1, <2>1, Zenon DEF IB!Edited!Start, Mapped
<1>3. ASSUME NEW c \in Chars, IB!Type(c) PROVE IB!Edited!Insert(c)
  <2>1. asked /\ asked' = asked /\ place' = place + 1
    BY <1>3 DEF IB!Type, IB!InField
  <2>2. u = SubSeq(t, 1, place) \o <<c>> \o SubSeq(t, place + 1, Len(t))
    BY <1>3, TypedIsInserted DEF t, u, Inserted
  <2> QED BY <1>1, <2>1, <2>2, Zenon
          DEF IB!Edited!Insert, IB!Edited!Edit, IB!Edited!Before, IB!Edited!After, Mapped
<1>4. ASSUME IB!Backspace PROVE IB!Edited!Backspace
  <2>1. asked /\ asked' = asked /\ place > 0 /\ place' = place - 1
    BY <1>4 DEF IB!Backspace, IB!InField
  <2>2. u = SubSeq(t, 1, place - 1) \o SubSeq(t, place + 1, Len(t))
    BY <1>4, ErasedIsRemoved DEF t, u, Removed
  <2> QED BY <1>1, <2>1, <2>2, Zenon
          DEF IB!Edited!Backspace, IB!Edited!Edit, IB!Edited!Before, IB!Edited!After, Mapped
<1>5. ASSUME IB!Left \/ IB!Right \/ IB!Resize PROVE IB!Edited!Move
  <2>1. /\ asked /\ asked' = asked /\ instr' = instr /\ len' = len
        /\ place' \in {place - 1, place + 1, 0, len} \cap 0..len
    BY <1>5, BoxScrolled, BoxResized
  <2>2. u = t
    BY <2>1 DEF t, u
  <2>3. place' \in {place - 1, place + 1, 0, Len(t)} \cap 0..Len(t)
    BY <1>1, <2>1, Zenon
  <2> QED BY <1>1, <2>1, <2>2, <2>3, Zenon DEF IB!Edited!Move, IB!Edited!Edit, Mapped
<1>6. ASSUME IB!Close PROVE IB!Edited!Finish
  <2>1. asked /\ asked' = FALSE /\ instr' = instr /\ len' = len /\ place' = place
    BY <1>6 DEF IB!Close
  <2>2. u = t
    BY <2>1 DEF t, u
  <2> QED BY <1>1, <2>1, <2>2, Zenon DEF IB!Edited!Finish, Mapped
<1>7. ASSUME (\E n \in {-1, 1} : IB!Button(n)) \/ UNCHANGED IB!boxVars
      PROVE  UNCHANGED IB!Edited!editVars
  <2>1. asked' = asked /\ instr' = instr /\ len' = len /\ place' = place
    BY <1>7 DEF IB!Button, IB!boxVars
  <2>2. u = t
    BY <2>1 DEF t, u
  <2> QED BY <1>1, <2>1, <2>2, Zenon DEF IB!Edited!editVars, Mapped
<1> QED BY <1>2, <1>3, <1>4, <1>5, <1>6, <1>7 DEF IB!Next, IB!Edited!Next

(* The input field of mconf: its cursor is in the field at its place in    *)
(* the text, what is drawn of the field after a key leaves it as drawing   *)
(* all of it would, and shifting the array is editing at the cursor        *)
(* (InputBox.CursorRight, FieldMatches, ImplementsLineEdit;                *)
(* dialog_inputbox, inputbox.c:44).                                        *)
THEOREM InputBoxIsRight ==
    IB!Spec => [](IB!TypeOK /\ IB!CursorRight /\ IB!FieldMatches) /\ IB!ImplementsLineEdit
<1>1. IB!Init => BoxInv
  BY BoxStarts
<1>2. BoxInv /\ [IB!Next]_(IB!boxVars) => BoxInv'
  BY BoxKept
<1>3. IB!Init => IB!Edited!Init
  <2>1. IB!Init => ~asked /\ len = 0 /\ place = 0
    BY DEF IB!Init
  <2>2. len = 0 => Mapped(instr, len) = << >>
    BY DEF Mapped
  <2> QED BY <2>1, <2>2, Zenon DEF IB!Edited!Init, Mapped
<1>4. BoxInv /\ [IB!Next]_(IB!boxVars) => [IB!Edited!Next]_(IB!Edited!editVars)
  BY BoxImplements
<1>5. BoxInv => IB!TypeOK /\ IB!CursorRight /\ IB!FieldMatches
  BY BoxFacts
<1> QED BY <1>1, <1>2, <1>3, <1>4, <1>5, PTL DEF IB!Spec, IB!ImplementsLineEdit, IB!Edited!Spec

-----------------------------------------------------------------------------
(* All of them.  A behaviour of the programs is one of each dialog, as     *)
(* they share nothing.                                                     *)
LEMMA DialogsAre ==
    DialogsSpec => Spec /\ CL!Spec /\ TB!Spec /\ IB!Spec /\ IF_!Spec /\ SW!Spec /\ NM!Spec
<1>1. DialogsInit => Init /\ CL!Init /\ TB!Init /\ IB!Init /\ IF_!Init /\ SW!Init /\ NM!Init
  BY DEF DialogsInit, Closed
<1>2. [DialogsNext]_dialogVars => [Next]_menuVars
  BY DEF DialogsNext, dialogVars, menuVars
<1>3. [DialogsNext]_dialogVars => [CL!Next]_(CL!listVars)
  BY DEF DialogsNext, dialogVars, listVars, CL!listVars
<1>4. [DialogsNext]_dialogVars => [TB!Next]_(TB!textVars)
  BY DEF DialogsNext, dialogVars, textVars, TB!textVars
<1>5. [DialogsNext]_dialogVars => [IB!Next]_(IB!boxVars)
  BY DEF DialogsNext, dialogVars, boxVars, IB!boxVars
<1>6. [DialogsNext]_dialogVars => [IF_!Next]_(IF_!formVars)
  BY DEF DialogsNext, dialogVars, formVars, IF_!formVars
<1>7. [DialogsNext]_dialogVars => [SW!Next]_(SW!winVars)
  BY DEF DialogsNext, dialogVars, winVars, SW!winVars
<1>8. [DialogsNext]_dialogVars => [NM!Next]_(NM!nconfVars)
  BY DEF DialogsNext, dialogVars, nconfVars, NM!nconfVars
<1> QED BY <1>1, <1>2, <1>3, <1>4, <1>5, <1>6, <1>7, <1>8, PTL
        DEF DialogsSpec, Spec, CL!Spec, TB!Spec, IB!Spec, IF_!Spec, SW!Spec, NM!Spec

(* Every dialog keeps its types (Dialogs.DialogsTypeOK).                   *)
THEOREM DialogsTypes == DialogsSpec => []DialogsTypeOK
<1>1. TypeOK /\ CL!TypeOK /\ TB!TypeOK /\ IB!TypeOK /\ IF_!TypeOK /\ NM!TypeOK => DialogsTypeOK
  BY DEF DialogsTypeOK
<1> QED BY <1>1, DialogsAre, MenuIsRight, CheckListIsRight, TextBoxIsRight, InputBoxIsRight,
           InputFormIsRight, NconfIsRight, PTL

(* The cursor of every dialog is on the screen, whatever its size and      *)
(* whatever was shown before (Dialogs.CursorInView; menubox.c:184,         *)
(* nconf.c:1068, inputbox.c:147, nconf.gui.c:479).                         *)
THEOREM CursorsInView == DialogsSpec => []CursorInView
<1>1. InView /\ NM!CurrentInWindow /\ IB!CursorRight /\ IF_!FormOnText => CursorInView
  BY DEF CursorInView
<1> QED BY <1>1, DialogsAre, MenuIsRight, NconfIsRight, InputBoxIsRight, InputFormIsRight, PTL

(* Drawing single lines and characters leaves on the screen what drawing   *)
(* all of it would (Dialogs.DialogsOnScreen; menubox.c:66, checklist.c:31, *)
(* inputbox.c:118).                                                        *)
THEOREM DialogsAreDrawn == DialogsSpec => []DialogsOnScreen
<1>1. ScreenMatches /\ CL!ListMatches /\ IB!FieldMatches => DialogsOnScreen
  BY DEF DialogsOnScreen
<1> QED BY <1>1, DialogsAre, MenuIsRight, CheckListIsRight, InputBoxIsRight, PTL

(* Who comes back to a menu, a list or a search is where he was, and the   *)
(* arrows of a menu go by one item (Dialogs.PlacesKept; mconf.c:644,       *)
(* checklist.c:117, textbox.c:56).                                         *)
THEOREM PlacesAreKept == DialogsSpec => PlacesKept
BY DialogsAre, MenuPlaces, NconfIsRight, CheckListIsRight, TextBoxIsRight, PTL DEF PlacesKept

(* Paging passes over no line of a text and the flags about the position   *)
(* in it are true (Dialogs.TextsWhole; textbox.c:56, nconf.gui.c:542).     *)
THEOREM TextsAreWhole == DialogsSpec => TextsWhole
BY DialogsAre, TextBoxIsRight, ScrollWinIsRight, PTL DEF TextsWhole

(* Both input fields implement LineEdit (Dialogs.InputsAreLineEdit;        *)
(* inputbox.c:44, nconf.gui.c:357).                                        *)
THEOREM InputsEditLines == DialogsSpec => InputsAreLineEdit
BY DialogsAre, InputBoxIsRight, InputFormIsRight, PTL DEF InputsAreLineEdit

(* A search in a menu of nconf finds the nearest match, if it finds one    *)
(* (Dialogs.NconfFinds; nconf.c:497).                                      *)
THEOREM NconfFindsNearest == DialogsSpec => NconfFinds
BY DialogsAre, NconfIsRight, PTL DEF NconfFinds
=============================================================================
