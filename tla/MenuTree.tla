------------------------------ MODULE MenuTree ------------------------------
(***************************************************************************)
(* The tree of menu entries that the programs walk (kconfig/menu.c): a     *)
(* record for each entry of Tree,                                          *)
(*   kind    "menu" (a prompt of type P_MENU), "comment" or "symbol"       *)
(*   sym     its symbol, or None; a menuconfig is a menu with a symbol     *)
(*   prompt  the condition of its prompt, if it has no symbol              *)
(*   visibility  what its "visible if" says                                *)
(*   list    the entries in it                                             *)
(*   parent                                                                *)
(* A symbol has one entry.                                                 *)
(***************************************************************************)
EXTENDS Symbols

CONSTANTS Tree, rootmenu

Entries == DOMAIN Tree
IsMenu(m) == Tree[m].kind = "menu"
Children(m) == Range(Tree[m].list)
menu_has_prompt(m) == Tree[m].sym # None => K[Tree[m].sym].prompts # << >>

(* menu_is_visible, as a state and "no" or "yes".  An entry whose symbol   *)
(* is not visible but set can be there for the entries below it; its       *)
(* symbol then is marked as set by the user.                               *)
RECURSIVE MenuVisible(_, _), AnyVisible(_, _, _)
ForChildren(r, m, rest) ==
    IF r.val # no THEN Result([r.st EXCEPT !.has = @ \cup {Tree[m].sym}], yes)
    ELSE AnyVisible(r.st, m, rest)
AnyVisible(st, m, list) ==
    IF list = << >> THEN Result(st, no)
    ELSE ForChildren(MenuVisible(st, Head(list)), m, Tail(list))
OrChildren(st, m, s) ==
    IF Shown(st, s) THEN Result(st, yes)
    ELSE IF st.curr[s] = no THEN Result(st, no)
    ELSE AnyVisible(st, m, Tree[m].list)
PromptVisible(st, m) ==
    LET s == Tree[m].sym
    IN  IF s = None THEN Eval(st, Tree[m].prompt) ELSE OrChildren(Calc(st, s), m, s)
IfAllowed(r, m) == IF r.val = no THEN Result(r.st, no) ELSE PromptVisible(r.st, m)
MenuVisible(st, m) ==
    IF menu_has_prompt(m) THEN IfAllowed(Eval(st, Tree[m].visibility), m) ELSE Result(st, no)

RECURSIVE menu_get_parent_menu(_)
menu_get_parent_menu(m) ==
    IF m = rootmenu \/ Tree[m].kind = "menu" THEN m ELSE menu_get_parent_menu(Tree[m].parent)

(* fixup_rootmenu of qconf and gconf: MENU_ROOT is set on the menus in     *)
(* menus and on what is in none.                                           *)
RECURSIVE fixup_rootmenu(_, _)
fixup_rootmenu(m, menu_cnt) ==
    {m} \cup UNION {IF IsMenu(c) THEN fixup_rootmenu(c, menu_cnt + 1)
                    ELSE IF menu_cnt = 0 THEN fixup_rootmenu(c, 0) ELSE {} : c \in Children(m)}
MENU_ROOT == fixup_rootmenu(rootmenu, 0)

RECURSIVE Below(_)
Below(m) == Children(m) \cup UNION {Below(c) : c \in Children(m)}
=============================================================================
