---------------------------- MODULE ConfigLists ----------------------------
(***************************************************************************)
(* The lists of kconfig/qconf.cc: the menus ("menu"), the entries of the   *)
(* current menu ("config") and what a search found ("search").  Each is a  *)
(* tree of items, one for a menu entry, that is not built again when a     *)
(* symbol changes: updateMenuList walks the menu tree along the items,     *)
(* puts in and takes out single ones, and draws an item again only when    *)
(* its entry is flagged MENU_CHANGED.  The first list that finds the flag  *)
(* clears it, and draws the items of the entry in all lists.               *)
(*                                                                         *)
(* Rows are what updateMenu writes but the name, the text "(NEW)" and the  *)
(* column Data.  An item that can be opened counts as open.                *)
(***************************************************************************)
EXTENDS MenuTree, FiniteSets

CONSTANTS
    MenuOrder,  \* the symbols in the order of the menus
    Files,      \* configuration files that may be loaded
    Opts,       \* options for what is shown, of "normal", "prompt", "all"
    Results,    \* sequences of entries that searches may find
    MaxSets     \* bound: how many values are set

VARIABLES
    syms,
    menu_flags, \* the entries flagged MENU_CHANGED
    lists,
    sets        \* how many values were set

listVars == <<syms, menu_flags, lists, sets>>

Views == {"search", "config", "menu"}
viewList == <<"search", "config", "menu">>
Top == "top"        \* the list itself, as the parent of items
GoParent == ".."    \* the item that leads back
Nothing == "nothing"  \* no pixmap, and no rootEntry

(* What a row shows: its pixmap, the columns N, M and Y, and whether it is *)
(* drawn as visible.                                                       *)
Pixmap == [of : {Nothing, "menu", "symbol", "choice"}, val : Tristate]
Pix(of, val) == [of |-> of, val |-> val]
NewRow == [pix |-> Pix(Nothing, no), range |-> [v \in Tristate |-> ""], visible |-> FALSE]
Row == [pix : Pixmap, range : [Tristate -> {"", "_", "value"}], visible : BOOLEAN]

(* Everything the handlers work on, to be handed from one to the next.     *)
World == [st |-> syms, flags |-> menu_flags, lists |-> lists]
Becomes(w) == syms' = w.st /\ menu_flags' = w.flags /\ lists' = w.lists

-----------------------------------------------------------------------------
(* sym_set_changed, by all that was calculated between two states.  The    *)
(* values of a choice are flagged with it.                                 *)
DiffersIn(a, b, s) ==
    \/ a.visible[s] # b.visible[s] \/ a.dir[s] # b.dir[s] \/ a.rev[s] # b.rev[s]
    \/ a.curr[s] # b.curr[s] \/ a.chosen[s] # b.chosen[s]

(* Variant: only new values count.                                         *)
ChangedValue(a, b) == {s \in Sym : a.curr[s] # b.curr[s]}

Changed(a, b) ==
    IF a.modules # b.modules THEN Sym
    ELSE {s \in Sym : \/ DiffersIn(a, b, s)
                      \/ IsChoiceValue(s) /\ DiffersIn(a, b, K[s].choice)}
Calculate(w, st) ==
    IF st = w.st THEN w ELSE
    [w EXCEPT !.st = st,
              !.flags = @ \cup {m \in Entries : Tree[m].sym \in Changed(w.st, st)}]

CalcItem(w, m) ==
    IF Tree[m].sym \in {None} \cup w.st.valid THEN w
    ELSE Calculate(w, Calc(w.st, Tree[m].sym))

-----------------------------------------------------------------------------
(* ConfigItem::updateMenu.  A menu is a heading, but for a menuconfig      *)
(* where it can be set.                                                    *)
WithMenus(list) == list.mode \in {"single", "symbol"}
IsHeading(list, m) ==
    \/ Tree[m].kind = "comment"
    \/ Tree[m].sym = None
    \/ IsMenu(m) /\ WithMenus(list) /\ list.rootEntry # m
Heading(list, m, row) ==
    [row EXCEPT !.pix = Pix(IF IsMenu(m) /\ WithMenus(list) THEN "menu" ELSE Nothing, no)]

InRange(st, s, v) ==
    IF v = st.curr[s] THEN "value" ELSE IF WithinRange(st, s, v) THEN "_" ELSE ""
SymbolPix(st, s) ==
    Pix(IF IsChoiceValue(s) /\ TypeOfSym(st, s) = "bool" THEN "choice" ELSE "symbol", st.curr[s])
DrawnSymbol(st, list, s, row) ==
    IF ~changable(st, s) /\ list.optMode = "normal" THEN [NewRow EXCEPT !.visible = row.visible]
    ELSE [row EXCEPT !.pix = SymbolPix(st, s), !.range = [v \in Tristate |-> InRange(st, s, v)]]
Drawn(st, list, m, row) ==
    IF IsHeading(list, m) THEN Heading(list, m, row)
    ELSE DrawnSymbol(st, list, Tree[m].sym, row)

(* The entries that have an item in a list, which menu->data leads to.     *)
Items(list) == UNION {Range(list.kids[p]) : p \in DOMAIN list.kids} \ {GoParent}
ListsWith(w, m) == {v \in Views : m \in Items(w.lists[v])}
DrawIn(w, v, m) == [w EXCEPT !.lists[v].row[m] = Drawn(w.st, w.lists[v], m, @)]
Draw(w, which, m) ==
    LET draw(v, acc) == DrawIn(acc, v, m) IN FoldSet(draw, w, which)

(* An item is calculated and, maybe, drawn when it is "new" (init) and by  *)
(* testUpdateMenu, in a list that updates "all" items or one that tests    *)
(* whether its entry changed.                                              *)
(*                                                                         *)
(* Variant: the flag is taken for that of one list.                        *)
ToDrawOne(w, v, m, why) == IF why # "test" \/ m \in w.flags THEN {v} ELSE {}

ToDraw(w, v, m, why) ==
    IF m \in w.flags /\ why # "new" THEN ListsWith(w, m)
    ELSE IF why # "test" THEN {v} ELSE {}
DrawItem(w, v, m, why) ==
    [Draw(w, ToDraw(w, v, m, why), m) EXCEPT !.flags = IF why = "new" THEN @ ELSE @ \ {m}]
SetItem(w, v, m, visible, why) ==
    DrawItem(CalcItem([w EXCEPT !.lists[v].row[m].visible = visible], m), v, m, why)
Test(updateAll) == IF updateAll THEN "all" ELSE "test"

(* Room for a new item, child i + 1 of p; delete, which takes what is      *)
(* below.                                                                  *)
Insert(w, v, p, i, m) == [w EXCEPT !.lists[v].kids[p] = InsertAt(@, i + 1, m)]
Gone(list, m) == [list EXCEPT !.kids[m] = << >>, !.row[m] = NewRow]
Delete(w, v, p, gone) ==
    LET all == UNION {{m} \cup Below(m) : m \in gone \ {GoParent}}
        forget(m, list) == Gone(list, m)
    IN  [w EXCEPT !.lists[v] =
            FoldSet(forget, [@ EXCEPT !.kids[p] = SelectSeq(@, LAMBDA m : m \notin gone)], all)]

-----------------------------------------------------------------------------
(* ConfigList.                                                             *)
menuSkip(list, m, visible) ==
    CASE list.optMode = "normal" -> ~visible
      [] list.optMode = "prompt" -> ~menu_has_prompt(m)
      [] list.optMode = "all" -> FALSE

(* The menu list shows menus, the other list of the split view the rest.   *)
HiddenByMode(list, m) ==
    \/ list.mode = "menu" /\ m \notin MENU_ROOT
    \/ list.mode = "symbol" /\ m \in MENU_ROOT
Unfolded(list, m) == list.mode \in {"full", "menu"} \/ ~IsMenu(m)

Asked(w, r) == [w |-> Calculate(w, r.st), visible |-> r.val # no]
Ask(w, m) == Asked(w, MenuVisible(w.st, m))
Clear(w, v, p) == Delete(w, v, p, Range(w.lists[v].kids[p]))

(* The loop of updateMenuList has reached the item at in the list v or in  *)
(* an item of it, and comes to the entry child.                            *)
IsAt(a, v, p, child) ==
    LET kids == a.w.lists[v].kids[p] IN a.at < Len(kids) /\ kids[a.at + 1] = child
Hide(a, v, p, child) ==
    IF IsAt(a, v, p, child) THEN [a EXCEPT !.w = Delete(a.w, v, p, {child})] ELSE a

RECURSIVE Walk(_, _, _, _, _)
updateMenuList(w, v, p, m, updateAll) ==
    LET kids == w.lists[v].kids[p]
        at == IF kids # << >> /\ Head(kids) = GoParent THEN 1 ELSE 0
    IN  Walk([w |-> w, at |-> at], v, p, Tree[m].list, updateAll)
Inside(w, v, child, updateAll) ==
    IF Unfolded(w.lists[v], child) THEN updateMenuList(w, v, child, child, updateAll)
    ELSE Clear(w, v, child)
Put(a, v, p, child, visible, updateAll) ==
    LET old == IsAt(a, v, p, child)
        with == IF old THEN a.w ELSE Insert(a.w, v, p, a.at, child)
        why == IF old THEN Test(updateAll) ELSE "new"
    IN  [w |-> Inside(SetItem(with, v, child, visible, why), v, child, updateAll),
         at |-> a.at + 1]
IfShown(asked, at, v, p, child, updateAll) ==
    LET a == [w |-> asked.w, at |-> at]
    IN  IF menuSkip(a.w.lists[v], child, asked.visible) THEN Hide(a, v, p, child)
        ELSE Put(a, v, p, child, asked.visible, updateAll)
Visit(a, v, p, child, updateAll) ==
    IF HiddenByMode(a.w.lists[v], child) THEN Hide(a, v, p, child)
    ELSE IfShown(Ask(a.w, child), a.at, v, p, child, updateAll)
Walk(a, v, p, rest, updateAll) ==
    IF rest = << >> THEN a.w
    ELSE Walk(Visit(a, v, p, Head(rest), updateAll), v, p, Tail(rest), updateAll)

(* Is there an item that leads back, and one for rootEntry itself?         *)
HasGoParent(list) ==
    /\ list.rootEntry # rootmenu
    /\ \/ list.mode = "single"
       \/ list.mode = "symbol" /\ Tree[list.rootEntry].parent # rootmenu
HasRootItem(list) ==
    /\ \/ list.mode = "single"
       \/ list.mode = "symbol" /\ list.rootEntry \notin MENU_ROOT
    /\ Tree[list.rootEntry].sym # None

RECURSIVE UpdateFound(_, _, _, _)
UpdateFoundItem(asked, v, m, updateAll) ==
    SetItem(asked.w, v, m, asked.visible, Test(updateAll))
UpdateFound(w, v, found, updateAll) ==
    IF found = << >> THEN w
    ELSE UpdateFound(UpdateFoundItem(Ask(w, Head(found)), v, Head(found), updateAll),
                     v, Tail(found), updateAll)
RootItem(w, v, at, updateAll) ==
    LET m == w.lists[v].rootEntry
        old == at < Len(w.lists[v].kids[Top])
    IN  SetItem(IF old THEN w ELSE Insert(w, v, Top, at, m), v, m, TRUE,
                IF old THEN Test(updateAll) ELSE "new")
UpdateRooted(w, v, updateAll) ==
    LET list == w.lists[v]
        at == IF HasGoParent(list) THEN 1 ELSE 0
    IN  updateMenuList(IF HasRootItem(list) THEN RootItem(w, v, at, updateAll) ELSE w, v,
                       IF HasRootItem(list) THEN list.rootEntry ELSE Top,
                       list.rootEntry, updateAll)

(* ConfigList::updateList, which redraws every item if updateAll is set.   *)
updateList(w, v, updateAll) ==
    LET list == w.lists[v]
    IN  IF list.rootEntry # Nothing
        THEN UpdateRooted(IF HasGoParent(list) /\ list.kids[Top] = << >>
                          THEN [w EXCEPT !.lists[v].kids[Top] = <<GoParent>>] ELSE w,
                          v, updateAll)
        ELSE IF list.mode = "list" THEN UpdateFound(w, v, list.kids[Top], updateAll) ELSE w

(* ConfigView::updateList and updateListAll: all the lists in turn.        *)
RECURSIVE UpdateAllOf(_, _, _)
UpdateAllOf(w, views, updateAll) ==
    IF views = << >> THEN w
    ELSE UpdateAllOf(updateList(w, Head(views), updateAll), Tail(views), updateAll)
UpdateViews(w, updateAll) == UpdateAllOf(w, viewList, updateAll)

(* Variant: the items of the last menu stay.                               *)
RerootedKeep(w, v, m) == [w EXCEPT !.lists[v].rootEntry = m]

(* setRootMenu takes nothing but menus.                                    *)
Rerooted(w, v, m) == [Clear(w, v, Top) EXCEPT !.lists[v].rootEntry = m]
setRootMenu(w, v, m) ==
    IF w.lists[v].rootEntry = m \/ ~IsMenu(m) THEN w
    ELSE updateList(Rerooted(w, v, m), v, TRUE)

-----------------------------------------------------------------------------
(* ConfigMainWindow.  A view of another mode starts at the root.           *)
AtRoot(w) ==
    updateList(IF w.lists["config"].rootEntry = rootmenu THEN w
               ELSE Rerooted(w, "config", rootmenu), "config", TRUE)
ShowMode(w, mode) == AtRoot([w EXCEPT !.lists["config"].mode = mode])

(* The split view has the menu list; the other views hide it, and tell it  *)
(* to show no menu, which setRootMenu refuses.                             *)
WithMenuList(w) == setRootMenu([w EXCEPT !.lists["menu"].mode = "menu"], "menu", rootmenu)
ShowMenus(w) == IF w.lists["config"].mode = "symbol" THEN WithMenuList(w) ELSE w
Show(w, mode) == ShowMenus(ShowMode(w, mode))

(* setMenuLink: the current menu is to be one that shows m.  Only the      *)
(* normal option asks menu_is_visible.                                     *)
MenuOf(mode, m) ==
    IF mode = "single" THEN menu_get_parent_menu(m)
    ELSE IF m \in MENU_ROOT THEN m ELSE menu_get_parent_menu(Tree[m].parent)
LinkTo(asked, m) ==
    LET list == asked.w.lists["config"]
    IN  IF menuSkip(list, m, asked.visible) \/ list.mode = "full" THEN asked.w
        ELSE setRootMenu(asked.w, "config", MenuOf(list.mode, m))
setMenuLink(w, m) ==
    LinkTo(IF w.lists["config"].optMode = "normal" THEN Ask(w, m)
           ELSE [w |-> w, visible |-> TRUE], m)

NewList(mode, opt) ==
    [mode |-> mode, rootEntry |-> Nothing, optMode |-> opt,
     kids |-> [p \in Entries \cup {Top} |-> << >>], row |-> [m \in Entries |-> NewRow]]
Init ==
    /\ syms = InitState
    /\ menu_flags = {}
    /\ lists = [v \in Views |-> NewList(Nothing, "normal")]
    /\ sets = 0

(* The program reads the configuration and makes its window, with the      *)
(* option of the last time and, before anything else can happen, the view. *)
Modes == {"single", "symbol", "full"}
Started == lists["search"].mode = "list"
Running == lists["config"].mode # Nothing
start(file, opt) ==
    /\ LET new(v) == IF v = "search" THEN NewList("list", "normal") ELSE NewList(Nothing, opt)
           read == Calculate(World, ReadFile(syms, file, MenuOrder, MenuOrder))
       IN  Becomes([read EXCEPT !.lists = [v \in Views |-> new(v)]])
    /\ UNCHANGED sets

(* The menu list is on the screen in the split view.                       *)
ListsOnScreen == {v \in Views : v = "menu" => lists["config"].mode = "symbol"}

(* setValue: a key, or a click on one of the columns N, M and Y.           *)
setValue(v, m, val) ==
    LET s == Tree[m].sym
    IN  /\ s # None
        /\ sets < MaxSets /\ sets' = sets + 1
        /\ Settable(syms, s, val)
        /\ Becomes(UpdateViews(Calculate(World, SetTristate(syms, s, val)), FALSE))

(* changeValue: the lists are only updated for another value.              *)
changeValue(v, m) ==
    LET s == Tree[m].sym
    IN  /\ s # None
        /\ sets < MaxSets /\ sets' = sets + 1
        /\ \E w \in {Calculate(World, Toggle(syms, s))} :
              Becomes(IF Toggled(syms, s) # syms.curr[s] THEN UpdateViews(w, FALSE) ELSE w)

(* changeMenu, from either list.                                           *)
changeMenu(v, m) ==
    /\ IsMenu(m)
    /\ v = "menu" \/ (v = "config" /\ WithMenus(lists[v]))
    /\ Becomes(setRootMenu(World, "config", m))
    /\ UNCHANGED sets

goBack ==
    /\ WithMenus(lists["config"])
    /\ lists["config"].rootEntry # rootmenu
    /\ Becomes(setRootMenu(World, "config",
                 menu_get_parent_menu(Tree[lists["config"].rootEntry].parent)))
    /\ UNCHANGED sets

showView(mode) == Becomes(Show(World, mode)) /\ UNCHANGED sets

WithOption(w, v, opt) == updateList([w EXCEPT !.lists[v].optMode = opt], v, TRUE)
setOptionMode(opt) ==
    /\ Becomes(WithOption(WithOption(World, "config", opt), "menu", opt))
    /\ UNCHANGED sets

loadConfig(file) ==
    /\ Becomes(UpdateViews(Calculate(World, ReadFile(syms, file, MenuOrder, MenuOrder)), TRUE))
    /\ UNCHANGED sets

(* The search window, and the entry chosen in it.                          *)
search(found) ==
    LET end(w) == Len(w.lists["search"].kids[Top])
        item(asked, m) == SetItem(Insert(asked.w, "search", Top, end(asked.w), m), "search", m,
                                  asked.visible, "new")
        add(w, m) == item(Ask(w, m), m)
    IN  /\ Becomes(FoldLeft(add, Clear(World, "search", Top), found))
        /\ UNCHANGED sets
selectFound(m) == Becomes(setMenuLink(World, m)) /\ UNCHANGED sets

Next ==
    \/ \E file \in IF Started THEN {} ELSE Files, opt \in Opts : start(file, opt)
    \/ \E v \in ListsOnScreen : \E m \in Items(lists[v]) :
          \/ \E val \in Tristate : setValue(v, m, val)
          \/ changeValue(v, m)
          \/ changeMenu(v, m)
    \/ goBack
    \/ \E mode \in IF Started THEN Modes ELSE {} : showView(mode)
    \/ \E opt \in IF Running THEN Opts ELSE {} : setOptionMode(opt)
    \/ \E file \in IF Running THEN Files ELSE {} : loadConfig(file)
    \/ \E found \in IF Running THEN Results ELSE {} : search(found)
    \/ \E m \in Items(lists["search"]) : selectFound(m)

Spec == Init /\ [][Next]_listVars

-----------------------------------------------------------------------------
TypeOK ==
    /\ syms \in State
    /\ menu_flags \subseteq Entries
    /\ \A v \in Views :
          /\ lists[v].mode \in {Nothing, "single", "symbol", "full", "menu", "list"}
          /\ lists[v].rootEntry \in Entries \cup {Nothing}
          /\ lists[v].optMode \in Opts \cup {"normal"}
          /\ \A p \in Entries \cup {Top} :
                Range(lists[v].kids[p]) \subseteq Entries \cup {GoParent}
          /\ lists[v].row \in [Entries -> Row]
    /\ sets \in 0..MaxSets

(* What a list has to show, for symbols calculated from scratch: which     *)
(* entries, in the order of the menus, ...                                 *)
Scratch ==
    CalcAll(CalcModules([InitState EXCEPT !.has = syms.has, !.user = syms.user,
                                          !.pick = syms.pick]), MenuOrder)
Visible(st, m) == MenuVisible(st, m).val # no
Wanted(st, list, m) ==
    SelectSeq(Tree[m].list, LAMBDA c :
        ~HiddenByMode(list, c) /\ ~menuSkip(list, c, Visible(st, c)))
WantedTop(st, list) ==
    (IF HasGoParent(list) THEN <<GoParent>> ELSE << >>)
    \o IF HasRootItem(list) THEN <<list.rootEntry>> ELSE Wanted(st, list, list.rootEntry)
OpensInList(list, m) == Unfolded(list, m) \/ m = list.rootEntry

(* ... and in which rows.  A heading keeps in the columns what was there   *)
(* when the entry could last be set.                                       *)
RowTrue(st, list, m) ==
    LET row == list.row[m]
        wanted == Drawn(st, list, m, NewRow)
    IN  /\ row.pix = wanted.pix
        /\ row.visible = (Visible(st, m) \/ (HasRootItem(list) /\ m = list.rootEntry))
        /\ IsHeading(list, m) \/ row.range = wanted.range

(* The lists that the walks of updateMenuList and the flags MENU_CHANGED   *)
(* keep up to date are those that would be built from scratch, on the      *)
(* screen or hidden, whatever was set, loaded, opened or searched in them. *)
Rooted == {v \in Views : lists[v].rootEntry # Nothing}
ListsTrue ==
    LET st == Scratch
    IN  /\ \A v \in Rooted :
              /\ lists[v].kids[Top] = WantedTop(st, lists[v])
              /\ \A m \in Items(lists[v]) :
                    lists[v].kids[m] = IF OpensInList(lists[v], m) THEN Wanted(st, lists[v], m)
                                       ELSE << >>
        /\ \A v \in Views : \A m \in Items(lists[v]) : RowTrue(st, lists[v], m)
=============================================================================
