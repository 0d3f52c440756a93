# A TLA+ verification of autoconf-kconfig

This directory models the Kconfig programs of this repository (`src/kconfig`)
in TLA+, checks the models with TLC on small instances, and proves the
properties that matter most with TLAPS for every value of their constants.
`PROJECT.json` lists components, runs, mutants, the map from definitions to
source lines, findings, hazards and theorems.

## 1. The system

The repository packages the Linux kernel's Kconfig programs for autoconf
projects. A tree of `Kconfig` files declares *symbols* (bool, tristate,
string, int, hex), *choices* among symbols, prompts, defaults, dependencies
and reverse dependencies (`select`). A *configurator* (`conf`, `mconf`,
`nconf`, `gconf`, `qconf`) parses the tree, loads `.config`, lets the user set
values and saves. `conf --silentoldconfig` derives the files a build reads.
The fork adds `conf --updateconfig`, which takes values from `CONFIG_*`
variables of the environment, the autoconf macros of
`m4/ax_enable_kconfig.m4` and the Docker wrapper `dk.sh`.

| Component | State | Operations | What is hard |
|---|---|---|---|
| Expressions, `expr.c` | expression trees | evaluate, simplify, compare | three-valued algebra; simplifications valid for bool only |
| Symbols, `symbol.c` | per symbol: user value, current value, visibility, reverse dependency, flags `VALID`, `WRITE`, `DEF_USER`; `modules_val` | `sym_calc_value`, `sym_set_*`, `sym_toggle_tristate_value`, `sym_clear_all_valid` | memoised recursion; values depending on each other; evaluation with side effects on choices |
| Dependency check, `symbol.c` 1046-1287, `zconf.y` 509-516 | flags `CHECK`, `CHECKED`; stack of symbols | `sym_check_deps` | depth-first search over a graph in which a choice and its values are one node; unwinding |
| Menus, `menu.c` | tree of entries with conditions | `menu_finalize`, `menu_is_visible` | propagation of conditions; a query that writes flags |
| Configuration files, `confdata.c` | `.config`, `.config.old`, temporary files; the change count | `conf_read`, `conf_write`, `conf_read_env`, `conf_write_defconfig`, `conf_set_all_new_symbols` | crashes and failures between renames; concurrent configurators; flags shared between calls; a second implementation of default values |
| Build synchronisation, `confdata.c` 947-1131 | `auto.conf`, `autoconf.h`, `tristate.conf`, `include/config/*.h` | `conf_write_autoconf`, `conf_split_config` | order of renames; reruns after a failure; incremental builds |
| Parser, `zconf.y`, `zconf.l`, `util.c` | include stack, token buffer | `zconf_nextfile`, `zconf_endfile`, `conf_parse` | recursive inclusion |
| `conf.c` | input mode, the menu asked about, the count of questions | `conf`, `check_conf`, `conf_sym`, `conf_choice`, `main` | a question loop that must end while answers bring up questions; fourteen modes that load, set and save differently |
| `mconf.c`, `nconf.c`, `gconf.c`, `qconf.cc` | current menu | show, set, toggle, load, save, quit | signals during a save; what counts as changed |
| `lxdialog`, `nconf.gui.c`, the menus of `nconf.c` | cursor, scroll, the text edited, what is on the screen | one per key | windows that redraw only what changed; positions kept from one list to the next; a search around a ring |
| the lists of `qconf.cc` | the items of three lists, the flag `MENU_CHANGED` of each entry, the current menu, the options | set, change the view or the option, open a menu, go back, follow a link, search, load | three lists updated item by item from one flag; lists that are hidden meanwhile |
| `m4/ax_enable_kconfig.m4` | shell and `CONFIG_` variables | load, update, reconfigure | configure-time loop |
| `dk.sh` | containers | start, stop, execute | races with the Docker daemon |

Interactions: the parser builds symbols and menus; the dependency check is what
entitles `sym_calc_value` to recurse; `confdata.c` reads and writes symbol
flags that `symbol.c` maintains (`VALID`, `WRITE`, `DEF_USER`, the change
count); the programs share `.config` with each other and with make, whose
incremental build relies on what `conf_write_autoconf` promises.

## 2. The modules

| Module | Models | State and actions |
|---|---|---|
| `ConfLines` | the contents of a configuration file | a file is a sequence of lines `[sym, val]`; `Image(u)` is what `conf_write` should print for the values `u`, `Whole(f)` says that `f` is an image |
| `ConfStore` | what `conf_write` promises (abstract) | `store`, the file under each name; `Save` replaces a whole file by a whole file, `SaveInterrupted` by one that is marked in `torn` |
| `ConfFile` | `conf_read` and `conf_write` of several configurators in one directory | `conf`, `old`, `tmp` are the files; `user`, `valid`, `toWrite`, `changed` the memory of each process; the actions are the calls of the user interface and, within `conf_write`, each system call. `Start` reads a file of defaults (`Defconfig`) where there is no `.config`. `End` kills a process at any point; `Interrupt` is SIGINT in a process that runs mconf: `handle_exit` calls `conf_write` again, perhaps in the middle of a save whose stream stays open (`handler`, `stream`), and exits. `saved`, `torn` and `synced` are history |
| `AutoConf` | `conf_write_autoconf` and the build around it | `auto`, `header`, `tristate` are the generated files, `touched` the headers newer than their objects; one action per touched symbol and per rename; `Fail` ends the program anywhere. `.config` has the time of its last write, which a rename keeps: `newer` says which of `auto.conf` and the temporary file that becomes it are older. Another configurator closes its file (`PrintConfig`, `draft`) and renames it (`InstallConfig`) at any time, during a run of conf too |
| `Symbols` | `symbol.c` and the reading and writing of symbols in `confdata.c` | the state of all symbols is one record that operators take and return as the C functions update symbols in place; the Kconfig tree is the constant `K` |
| `SymbolSession` | runs of a program over `Symbols` | `syms`, `file`, `running`; actions `Start`, `Show`, `Set`, `ToggleIt`, `Reload`, `ReloadFails`, `Save`, `Quit`, `Update` (`--updateconfig`) |
| `ConfModes` | what the modes of `conf` that ask nothing do to all symbols (`conf_set_all_new_symbols`, `randomize_choice_values`), and `savedefconfig` | operators on the state of `Symbols` |
| `ConfAsk` | a run of `conf` in any of its modes over a menu tree | `calls` is the recursion of `conf` and `check_conf`, `phase` the question in work, `asked` what the user was asked. `Answer`, `Enter`, `ChoiceAnswer` are the user's; `conf`, `check_conf`, `NextRound`, `Finish` and the like the program's |
| `MenuTree` | the tree of menu entries that the programs walk | operators: `MenuVisible` is `menu_is_visible`, with `visible if` and the flags it writes; `menu_get_parent_menu`; `MENU_ROOT` as `fixup_rootmenu` sets it |
| `ConfigLists` | the lists of qconf: the menus, the entries of the current menu, and what a search found | `syms`; `menu_flags`, the entries flagged `MENU_CHANGED`; `lists`, for each view its mode, `rootEntry`, option, the items (`kids`) and what their rows show (`row`). `updateMenuList` walks the entries along the items, as in the source, and `testUpdateMenu` is `SetItem`. One action per slot: `setValue`, `changeValue`, `changeMenu`, `goBack`, `showView`, `setOptionMode`, `loadConfig`, `search`, `selectFound` |
| `KconfigTrees` | small trees for `Symbols`, `ConfAsk` and `ConfigLists` | constants |
| `SymCalc` | `sym_calc_value`, call by call | `stack` of calculations, each a record of its symbol, phase and what it has read; `valid` the flag, `modules_val` the copy read without a call. `Interrupt` is SIGINT: the calculations on the stack are cut off, and the handler's save goes on calculating with the flags as they are. `confirmed` (history) are the symbols set to the value they had. What a symbol makes of its inputs is the constant operator `Value` |
| `CheckDeps` | `sym_check_deps`, call by call | `stack` of calls, each with the dependencies it has still to follow; `check` and `checked` are the flags, `found` the symbol returned on the way back, `errors` is `zconfnerrs` |
| `Expr` | the simplification of `expr.c` | an expression is a record; a tree of one binary operator is the sequence of its leaves, which is all the C functions look at. What C overwrites in place is returned: each C function that calls itself is a recursive function on expressions, each double loop over operands a `Fold` over the pairs of their places. `MaxDepth` bounds how deep expressions nest; how wide they are is not bounded. The constant `m` is compared with but is no operand (see the limits below) |
| `Conditions` | what `menu_finalize` makes of two conditions | `cond` is the expression in work, `done` the finished ones; each pass of the loop in `expr_eliminate_dups` is an action (`Again`), so that its progress can be checked; `opposed` remembers that the rule for opposites was used |
| `ListWindow` | `do_scroll`, `print_item`: a window on a list of items, and what is drawn on its lines | operators |
| `MenuBox` | `dialog_menu`, opened by mconf for one menu after another | `scroll`, `choice`, `s_scroll` kept by the program, `lines` what is on the screen; an action per key, `Resize` |
| `CheckList` | `dialog_checklist` and the loop around it in `mconf.c` | `top`, `cursor`, the lines drawn |
| `TextBox` | `dialog_textbox`: walking through a text line by line | `page`, `begin_reached`, `end_reached`, and the search that leaves it and returns |
| `LineEdit` | what an input line promises (abstract) | a text and a position |
| `InputBox`, `InputForm` | `dialog_inputbox` of mconf and of nconf | the text, offsets, what is drawn, the size of the buffer |
| `ScrollWin` | `show_scroll_win` | `start_y`, `start_x` |
| `NconfMenu` | a menu of nconf, what `conf` and `conf_choice` of nconf show, with `do_match` and the loop of `get_mext_match`, step by step | the current item, the window of the menu library, `last_top_row`, the pattern. `Open` and `OpenChoice` begin; `Reopen` is `conf` coming round with the item and the row it remembered, to the same list or another |
| `Dialogs` | the dialogs together: each behaviour opens one kind again and again; states their properties | `dialog` |
| `UserInterface` | the dialogs and the lists of qconf, for one run | adds the variables of `ConfigLists`, which is recursive and keeps `Dialogs` free of it |
| `Conditions_proofs` | (theorems) | what is proved about `Expr`, function by function, and about `Conditions` |
| `Dialogs_proofs` | (theorems) | what is proved about menus, lists and nconf; about texts and input lines, and about `Dialogs` |
| `Recursion` | (theorems) | functions defined by recursion on a rank, and folds, for any body: instantiated once for each function proved about |
| `NatSets` | (theorems) | least and greatest elements of sets of naturals, well-foundedness of `<` |

Operators and actions named as in the source are translations of that
function; an operator marked *Variant* is a plausible mistake in the one after
it, used to check that a property notices it.

`Symbols` is recursive and only model-checked. `SymCalc` and `CheckDeps`
replace its recursion by an explicit stack, so that the interleaving of flags
and calls can be both checked and proved. A tree with a cycle is only warned of
(the finding of `check_deps_cycle`), so that `SymCalc` does not assume that
there is none: what it says of values, it says of symbols from which no cycle is
reached.

## 3. What the runs show

| Run | Instance | Shows |
|---|---|---|
| `conf_file_shared` | 2 processes, one of them mconf with one SIGINT, 1 name, 2 symbols (one appears twice in the menus, one depends on the other), the first rename may fail | the last save is never lost, files are whole, a change count of 0 means memory and file agree, and `conf_write` implements `ConfStore`; all but under a name that the handler of SIGINT saved in the middle of another save (`torn`), which the next save makes good |
| `conf_file_faults` | 1 process, two SIGINTs, a file of defaults; a full disk, the second rename fails, a missing file is loaded | whenever the file in force changes, the one before is there as `.old`: what a full disk or an interrupting save leaves may be less than the configuration, but the one before can be restored |
| `conf_file_retry` | 1 process, the second rename may fail | **violation**: saving again after the failure installs a file without symbols |
| `auto_conf` | 2 symbols, 3 values, 2 saves of `.config` by conf or by another, 2 failures | the order of renames is right, no rebuild is missed, none is needless, and builds catch up with every `.config` but one that was saved across or after the moment conf read it and before its temporary files were closed |
| `symbols_select` | a tree with `MODULES`, a tristate, a selected and dependent tristate, a comparison; files over three of them; two environments; one set per run | values shown are those calculated from scratch; save and load is lossless; loading discards the session; what `sym_set_tristate_value` accepts takes effect |
| `sym_calc` | 5 symbols, two of which are each other's default, one that confirming may fix at another value than it would get; 3 values, any file, any order of reads and sets, a SIGINT at any time | every calculation ends, whatever depends on whatever, and gives the value a calculation without memory gives, in what the handler saves too |
| `check_deps` | all 2048 trees over two symbols and a choice of two within the bounds of `MC_Trees`, every order | the search ends, misses no cycle and invents none |
| `check_deps_cycle` | the same | **violation**: a cycle that is printed is not counted as an error |
| `conditions` | 66 first and 83 second conditions over a bool and two tristates, each of one or two tests, as dependency and property of one entry and as prompts of two siblings; every pair in both shapes, for a bool and a tristate symbol | each round of the loop leaves an expression with fewer leaves, so that the loop ends; the value of a condition is kept for every assignment, `m` included, except where opposites are dropped or conditions compared, where it is kept for `y` and `n`; an implicit submenu depends on its entry |
| `conf_ask` | a menu tree with a submenu that holds a bool choice, whose values depend on a tristate and on `MODULES`, and above it a symbol with a default, whose prompt a value of the choice hides and below which there is a comment that is shown with the tristate (so that `menu_is_visible` sets a symbol that was not asked about); every mode, five files or none for `.config`, one file of defaults or none, both orders of the symbol table, every sequence of answers, with and without a terminal | every run ends and leaves nothing a second run would ask; Enter always is an answer; old settings stay; no menu shows a stale value; at most one value of a choice is stored as `y` and a saved file is loaded as it was saved; `savedefconfig` followed by `defconfig` gives the same configuration; the `all*config` modes go as far as the tree allows |
| `dialogs` | lists of up to 6 items in windows of 1 to 6 lines, of changing sizes; texts of up to 7 lines; input lines of 2 columns with texts of up to 4 characters; three menus of nconf in windows of two heights, opened, left and come back to in any order; the lists of qconf over a tree with a submenu of a symbol, a menuconfig, a menu in a menu with a comment, and symbols that select, hide and default each other, one value set, one file, every view and option, one search | the cursor stays on an item in view; what partial redrawing leaves on the screen is what drawing all of it would show; texts have no gaps; the input lines implement `LineEdit`; a search of nconf finds the nearest match, and one that has a match ends; who comes back to a menu is on the item he left; and the lists of qconf, shown or hidden, are those that would be built from scratch |
| `nconf_search` | a menu of two items | **violation**: a search that no item matches, started at an end of the list, goes round for ever (the comment at nconf.c:496 promises -1) |

Bounds. Two processes are the fewest that interleave, and a third would only
repeat what the second does to the first; two symbols with one dependency and
one repeated menu entry are what the flags of `conf_write` tell apart. Two
failures and two changes let a run fail, be overtaken by a change back to the
old value, and fail again. One signal is all a process gets (its handler exits);
the second one of `conf_file_faults` meets the next process, started on what the
first one left. `MaxDepth` of `SymCalc` is more than its five symbols: the flag
that `Enter` sets keeps a symbol from being entered twice. The trees of `Symbols` are chosen so that each
branch of `sym_calc_value` for bool and tristate symbols is taken: default and
user value, prompt visible or not, `select`, `m` promoted to `y` without
modules, choice by user, default and first visible value. A session sets one
or two values between two loads because the flags a third one could see are
those a second can leave. In `check_deps` five symbols admit cycles within the
choice, through it, beside it, and two that share a symbol. Symmetry is not
used. The conditions of `conditions` contain every test of a tristate with a
constant, so that each line of the tables in `expr_join_or` and
`expr_join_and` is used, and pairs of pairs, so that equal, opposite and nested
operands meet.

The tree of `conf_ask` lets an answer bring up a question (A shows the comment
and, with it, a value of the choice), take one away (that value hides the prompt
of D), and change the choice behind a symbol that was asked already. The lists of `dialogs` are shorter, as
long as, and longer than their windows, by one line and by more than a page.
For qconf one value is set, before or after the file is loaded: what a second one
could meet that the first does not is a flag `MENU_CHANGED` left by the first,
and loading the file and showing other views, in any order and number, leave
such flags too. The tree has an entry that goes with its menu, one that moves
between a hidden and a shown menu, and symbols that change without being set.

Fairness. `AutoConf` assumes that a run of the program goes on (it is
sequential), that make is called again while something is out of date, and
that a build that is not interrupted forever compiles each object (strong
fairness, since `StopBuild` may interrupt it repeatedly). `SymCalc`,
`CheckDeps` and the search of `NconfMenu` assume only that a
sequential program goes on. `ConfAsk` assumes that and that a user who is asked
presses Enter at last, which is also what the program takes the end of its input
for; it is written as `([]<>~Busy) \/ []<><<Program \/ Enter>>_vars` because one
of these is enabled whenever the program is busy (`EnterAnswers` is the part of
this that is not obvious), so that it is weak fairness without the cost of
evaluating `ENABLED`. No other fairness is assumed of users.

### Limits met while modelling

These are disagreements and odd cases of the code that the passing runs leave
out, each with the place where it comes from.

* SIGINT in mconf in the middle of `conf_write` (mconf.c:997): the second
  `conf_write` calculates nothing anew, because there are changes, and finds
  `SYMBOL_WRITE` cleared of what the first one printed. It installs a file
  without those symbols and reports success; `exit` may then write what was left
  in the stream of the first one over it. The properties of `ConfFile` leave out a
  name so saved (`torn`) until it is saved again; `PreviousKept` does not. In a calculation, the symbols
  that were being calculated are flagged valid and are saved with the value
  they happened to have; `Coherent` leaves out what depends on them (`interrupted`).
  A signal in the middle of loading a file or of setting a symbol, and one with
  `KCONFIG_OVERWRITECONFIG`, is not modelled.
* On a full disk `conf_write` reports a truncated file as saved (confdata.c:931):
  the configuration is lost, and what `PreviousKept` promises is the one before.
  `LastSaveKept` and `FilesAreWhole` are checked and proved without this fault.
* A save of `.config` by another configurator between the `conf_read` of
  `conf --silentoldconfig` and the closing of its temporary files is never seen
  by make: `auto.conf` is newer than it afterwards (confdata.c:1127). The same
  holds if the save was closed before `conf_read` and renamed after it, since a
  rename keeps the time of the file. `AutoConfMarksCompletion` and
  `BuildCatchesUp` leave it out (`raced`).
* With a list of defaults files of which none is there, `conf_read_simple`
  returns without calculating the modules symbol (confdata.c:260-285), which it
  does if there is no such list: until the next change tristate symbols are
  calculated with the `modules_val` of before. `ReadNothing` has both cases; in the runs
  the list is absent or names a file that is there.
* `conf_update_symbol` builds a name with `strcat(sym->name)` (confdata.c:658) for
  every symbol. A choice without a name has none, for which this is undefined;
  choices have names in the models.
* Confirming the `y` of a symbol with a default `y` and a prompt visible as `m`
  stores a user value without invalidating (symbol.c:502): at the next
  recalculation it is `m`. `SymCalc` has such a symbol, whose confirmed value
  counts as right until then (`confirmed`); the trees of `Symbols` have none.
* A tristate or optional choice loses its mode, because calculating it clears
  its user flag (symbol.c:273); an optional choice goes back to `n` at the next
  recalculation. A tristate choice with one value `y` and another `m` is loaded
  differently than it was saved (confdata.c:386).
* A failed reload applies an environment to calculated choice values
  (confdata.c:415). `--updateconfig`, "Update configuration using env"
  (conf.c:481), passes over a variable whose symbol becomes visible by another
  variable (confdata.c:652).
* `expr_trans_bool` drops `!= n` from a tristate too, though its comment says
  "bool FOO!=n => FOO" (expr.c:315): a bool symbol that selects if `T != n`
  loses strength with T=m.
* The constant `m` as an operand: of a dependency `m` `menu_check_dep` makes
  `m && MODULES` (menu.c:98-100). `expr_eliminate_dups2` would make `n` of
  `(m || A) && (!m && !A)`, which is `m` if A is `n`; the conditions of
  `Conditions` have no operand `m`.
* `menu_is_visible` marks a symbol with a hidden prompt as set by the user when an
  entry below it is visible (menu.c:499); once visible it keeps the value `n`
  instead of its default, and nobody is asked. The run `conf_ask` meets this (D
  above its comment), and no property forbids it.
* An implicit submenu may hold an entry that depends on the symbol above but not on
  its prompt (menu.c:341-361), which is visible where the prompt is not;
  `menu_is_visible` shows the symbol above then. `SubmenuDepends` promises one of
  the two, not both.
* `savedefconfig` leaves out symbols that cannot be changed. A tristate whose
  default is above the limit of its prompt and that the user set to `m` comes
  back as `y`.
* With a file of values from `KCONFIG_ALLCONFIG` the modules symbol is
  calculated before the modes set new symbols, and is not set by them.
* `randconfig` with two choices that depend on each other may write values of
  the second that the first no longer allows.
* conf.c:710 is taken in the mode `updateconfig` too; the branch for it at
  conf.c:715 is never reached.
* `dialog_menu` opened again after a resize may keep a first item from the
  size before (menubox.c, KEY_RESIZE); `dialog_textbox` then goes back four
  lines too far, and treats the last line of a text without a newline
  differently.
* `center_item` of nconf says "prefer not to scroll the menu if possible"
  (nconf.c:928), but first goes to the row of the last search, which keys have
  left since (nconf.c:933): the window may jump even when the item found is in
  it. No property says otherwise; the item is in the window all the same.
* In a search of nconf the low bytes of some keys are characters (nconf.c:1023):
  End is typed as `h`, so that only Home and the likes end it. A NUL ends the
  loop over keys but not the search.
* `strcpy` into the field of mconf (inputbox.c:56) asks for no length: the model
  opens texts of at most `MAX_LEN` characters, which is an assumption about the values
  of the configuration. Delete in the field of nconf moves one byte more than
  the text and its NUL (nconf.gui.c:448), for a full buffer one from behind it; the
  byte is no part of the text, and reading it is not modelled.
* Page up in `show_scroll_win` moves four lines more than page down
  (nconf.gui.c:609-614), so that only paging down is promised to meet.
* nconf is not modelled with an empty menu, which `conf` leaves at once
  (nconf.c:1086) and for which its search divides by zero; nor a choice whose
  active value is not in its list.
* In the rows of qconf the column Data keeps its old value when an entry becomes
  unchangeable, and a heading keeps the columns N, M and Y it had as an entry
  (`updateMenu` returns before it clears them); the text "(NEW)" is only as
  fresh as the last change of the entry. The model leaves out the two texts and
  promises the columns of entries only.
* qconf's handlers may run while `showSplitView` calls `processEvents`; the model
  takes a change of view as one step.
* gconf takes the last row out of its tree and returns (gconf.c:1314), so that
  entries that became visible after it are missing until the next update; and
  loading a file appends a second copy of the tree to its list.

## 4. What is proved

All theorems hold for any sets of processes, names, symbols and values, any
menu and any Kconfig tree that satisfies the named assumptions of the module.

* `ConfFile_proofs`. `TypeCorrect`; `LastSaveSafe`, `WholeSafe`, `SyncedSafe` and
  the refinement `SaveIsAtomic` assume `NoLoss`: files are not written in place,
  no full disk, no failure of the second rename; `SyncedSafe` that no missing file
  is loaded, which leaves edits with a change count of zero (confdata.c:413).
  `conf_file_retry` shows the need for the failing rename to be excluded; on a full
  disk a file is truncated. All hold for any number of processes and signals, with
  what a handler saved in the middle of a save excepted. `PreviousSafe` excepts
  nothing and assumes no fault away but the first rename's, for one process
  that does not write in place (`Alone`): two may each move the file of the other
  aside. The
  inductive invariant `SaveInv` says, for each process, which of the symbols
  passed by the walk have been printed: the file in progress is the image of
  the values in memory restricted to them, the flags `WRITE` of valid symbols
  are exact for symbols not yet printed, and idle processes without changes
  hold what they loaded or saved. Of a
  save that interrupted another it says nothing but that it will be marked.
* `AutoConf_proofs`. `TypeCorrect`, `CompletionSafe`, `RebuildSafe` and
  `RebuildMinimal`, from `SyncInv`: a symbol whose object differs from what it
  will be compiled with is touched or still to be visited, at each point of
  the program; and for each file `.config` or draft of one, by the point the
  run is at, which times and values it may have (`ConfigInv`).
* `SymCalc_proofs`. `CalcCoherent` for every tree, cyclic or not, with sets that
  confirm a value and with the handler of SIGINT: `Coherent` speaks of the
  symbols from which no cycle is reached (`GroundedSets`). The invariant says that
  each calculation on the stack was begun for the one before, so that a
  calculation of a grounded symbol never meets itself: what it reads is settled,
  and what it has read is what every solution says. `SolutionExists` shows, by
  well-founded induction on the rank, that there is one and only one such solution
  for symbols that can be ranked by what they depend on (and with the locality
  `Local`), so that `Coherent` says something.
* `CheckDeps_proofs`. `AcceptedSafe`: when the search is over and printed
  nothing, no set of symbols is cyclic. The invariant ranks each symbol by the
  time the search was done with it (`rank`, `clock`): until a cycle is found,
  what is flagged `CHECKED` only is ranked above its dependencies. `NoFalseAlarm`:
  a printed cycle is one, from the invariant that each call on the stack is
  for a symbol the one before reads. `CycleStaysOnStack` and
  `CyclesNeverCounted`: the call that turns the symbol into NULL is always
  below, so that `zconfnerrs` is never counted.

* `Dialogs_proofs`, lists. For lists, windows and terminals of any size, and any sequence
  of keys: `MenuIsRight` and `MenuPlaces` for `dialog_menu`, `CheckListIsRight`
  for `dialog_checklist`, `NconfIsRight` for a menu of nconf and its search.
  `MenuInv` adds to the properties that the window lies within the list, that
  `choice` and `scroll` are those of the item the cursor is on, that each line
  holds its item, and that the position kept by the program is the one the list
  would be opened at again; redrawing one line keeps it because the other lines
  are where the terminal's scrolling left them (`print_item`, `do_scroll`).
  `NconfInv` says that the window begins at a row of the menu, wherever
  `center_item`, paging or coming back to a shorter list put it, and
  of each step of the search that no item between the start and
  `index` matches, going round: `Away(i)` counts the items from the start in the
  direction of the search, which turns the ring into an interval.
* `Dialogs_proofs`, texts: `TextBoxIsRight` and `ScrollWinIsRight`. `TextInv` says
  what the two flags, `page` and `page_length` are for the first line on the
  screen, that a search never shows less than a page of a text that has one,
  and where a search that was left will be opened. The lemmas `WalkBack` and
  `WalkOn` give what `back_lines` and `get_line` do to the pointer and its flags,
  and each key is one walk and a page printed from there (`TextShown`).
* `Dialogs_proofs`, input lines: `InputBoxIsRight` and `InputFormIsRight`, with
  the refinement of `LineEdit` by both. `BoxInv` says that the array is a text of
  `len` characters ended by NUL and that the field shows it from `show_x` on;
  `DrawnShows` is why the loop that stops at the end of the text is enough
  (a key shortens what is shown by one column at most). For the refinement,
  shifting the array is putting a character into a sequence or taking one out
  of it (`TypedIsInserted`, `ErasedIsRemoved`).
* `Dialogs_proofs`, together: a behaviour of `DialogsSpec` is one of each dialog
  (`DialogsAre`), which gives `DialogsTypes`, `CursorsInView`, `DialogsAreDrawn`,
  `PlacesAreKept`, `TextsAreWhole`, `InputsEditLines` and `NconfFindsNearest`, the
  properties that the run `dialogs` checks. The run adds the lists of qconf, whose
  behaviours leave the dialogs closed.

The dialogs are proved under the named assumptions of `Dialogs`. A check list is
not empty and has a line: it shows the values of a choice that is y, and mconf asks
for six lines. Menus of mconf may be empty; nconf's are not, which its search needs, and its windows have a line (see above). A text has a line (the empty one is a line of no characters) and a box
has one, since `dialog_textbox` refuses a smaller terminal (textbox.c:84,
`ERRDISPLAYTOOSMALL`); the fields of input lines have a column. `ScreensAssumption`
is the size nconf asks for, 20 lines of 75 columns (nconf.c:1507). That NUL is no
character that can be typed is what `isprint` checks.

* `Conditions_proofs`. `ConditionsTyped`, `ConditionsKept` and `SubmenusDepend` are
  the three invariants of the run `conditions`, for conditions of any width, any
  symbols, and any bound on the depth. `ParsedAssumption` says that what is parsed
  nests two levels less than the bound, because joining a property's condition with
  the dependencies of its entry nests by one level and so does comparing it with `n`
  (a condition that is compared has not been joined).

  Of each function of `Expr` a lemma says what it promises: `YnKeeps`
  (`expr_eliminate_yn`), `EqSound` (`expr_eq` is true only of expressions of equal
  value), `EliminatedSound` (`expr_eliminate_eq`), `Transformed`, `Joining`
  (`expr_join_or` and `expr_join_and`), `Dups1Keeps`, `Dups2Keeps`, `TransBool`,
  `TransCompare`, `DependsSymbol`. The promises have two parts. The first is about
  values: an expression reaches the value 1 or 2 (`T(e, v, t)`) where the original
  does; for `expr_eliminate_eq`, if `e1` is `y` afterwards it holds wherever `e2` does.
  The second is about levels: `Level(kind, n)` are the expressions of depth `n`, if
  `kind` is `"normal"` with no negation but of a symbol. It is needed twice. A
  function of `Expr` says something only of expressions within the bound, so that
  each pass must be shown to stay within it, though `expr_transform` and the joins
  build new expressions; and `expr_trans_bool`, which drops `!= n`, keeps
  what an expression is worth only where no negation is above it, which is what
  `expr_transform` has seen to.

  `MeaningKept` speaks of finished conditions only. The inductive invariant `IInv`
  adds that the condition in work stands for what it will stand for when it is
  finished (`InWork`), is normal and within the depth for its place (`Bound`), and
  that a submenu is only ever decided at the end.

  `LoopProgress` proves the action property `LoopShrinks`: the loop of
  `expr_eliminate_dups`, which repeats until a pass changes nothing, goes round again
  only with fewer leaves. That is not obvious, because a pass itself need not drop a
  leaf: where it joins two operands it puts the join in place of one and a constant
  in place of the other (`n` in a disjunction, `y` in a conjunction), where it finds
  an opposite it puts a constant in place of an operand, and either counts as a
  change whether or not `expr_eliminate_yn` finds something to drop afterwards. The
  argument follows the tree through the two passes and the clean-up. `LeafCount`
  never grows in a pass (`ShrunkDups1`, `ShrunkDups2`); if the pass changed anything,
  then some operand of the tree is a constant, or a tree that has such an operand
  further down (`Marked`), and `expr_eliminate_yn` takes at least a leaf from a tree
  that is so marked (`MarkShrinks`). Sums over the operands of a tree are folds, of
  which `Recursion`'s `Unfolded` gives the run of intermediate sums.

  Two things came out of the proof. `BoolTest` was a `CASE` whose arms overlapped,
  of which TLC always took the first, as the C code does; it is an `IF` chain now. And
  with the constant `m` as an operand the rule for opposites changes values even if no
  symbol is `m`, which is why the conditions have none (see the limits above).

  The run checked `IInv` on its instance too, before it was proved.

`Recursion` takes the place of the induction theorems of the library, whose
parameters are operators and which no prover here instantiates. It is a module
with constant operators (domain, rank, body, promise, step of a fold) whose
theorems are proved once; an `INSTANCE ... WITH` of it gives the theorems for the
body of one function. What is left to prove for a function is one step: that its
body looks at values for arguments of lower rank only, and keeps the promise if
they do.

`NatSets` holds the facts about sets of naturals these rest on.

Only model-checked: everything about `Symbols`, `ConfModes`, `MenuTree`,
`ConfAsk` and `ConfigLists` (recursive operators), the
liveness properties `BuildCatchesUp`, `CallsReturn`, `CheckEnds`, `RunEnds`
and `NconfSearchEnds` (liveness is out of the prover's reach), and the violations.
The type invariants of `ConfFile`, `AutoConf`, `CheckDeps`, `SymCalc` and the
dialogs, and `CycleOnStack`, are proved and no longer part of a run.

## 5. What is not modelled, and the plan

* String, int and hex symbols with their ranges (`sym_validate_range`,
  `conf_string`): the values are data without influence on other symbols except
  in comparisons and as ranges.
* The rows that `build_conf` of mconf and nconf makes of a menu, the jump keys
  of mconf's search results, and the dialogs that load and save. gconf beyond
  what it shares with mconf; it quits after a failed save (gconf.c:468) where
  mconf asks again.
* Of qconf: the selection, what is folded open, the names in the rows, the line
  edit, the info text (its links are `selectFound`), saving, and a choice in the
  tree of the run. A symbol counts as changed when its values did, while
  `sym_set_changed` may also be called for one that did not: qconf then draws a
  row again that the model leaves as it is.
* Message boxes, borders, colours and the wrapping of prompts in the dialogs.
* The grammar, and the include stack of `zconf.l`: only the check loop of
  `conf_parse` is modelled.
* Building the menu tree; `Conditions` models what `menu_finalize` makes of the
  conditions of two entries.
* The generated parser tables, the autoconf macros, `dk.sh`, the package recipes
  and the helper scripts.

Order of the work, the most important first:

1. `ConfFile`, `AutoConf`, `Symbols`, `SymCalc`, `CheckDeps` with their proofs
   (done).
2. The simplification of expressions, `Expr` and `Conditions` (done).
3. `conf.c` with its modes and questions, `ConfModes` and `ConfAsk` (done).
4. The dialogs, `MenuBox` to `Dialogs`, and the search of nconf, with their proofs
   (done).
5. The lists of qconf, `MenuTree` and `ConfigLists` (done); those of gconf.
6. String, int and hex symbols with ranges.
7. The include stack of `zconf.l`; the tree of menus as it is built.
8. The `reconfigure` loop of the autoconf macros; the container life cycle of
   `dk.sh`.
