----------------------------- MODULE ConfLines -----------------------------
(***************************************************************************)
(* Configurations and the files conf_write prints them into                *)
(* (kconfig/confdata.c).  Headings and comments are left out.              *)
(***************************************************************************)
EXTENDS Naturals, Sequences

CONSTANTS
    Name,    \* names of configuration files
    Sym,     \* symbols
    Val,     \* values
    Written  \* [configuration -> the symbols it flags SYMBOL_WRITE]

Config == [Sym -> Val]

ASSUME WrittenAssumption == Written \in [Config -> SUBSET Sym]

Line == [sym : Sym, val : Val]
File == [exists : BOOLEAN, lines : Seq(Line)]
Missing == [exists |-> FALSE, lines |-> << >>]
Empty == [exists |-> TRUE, lines |-> << >>]

Lines(f) == {f.lines[i] : i \in 1..Len(f.lines)}
OneLineEach(f) ==
    \A i, j \in 1..Len(f.lines) : f.lines[i].sym = f.lines[j].sym => i = j

(* conf_write_symbol prints a symbol with its value, and conf_write does   *)
(* so for each symbol flagged SYMBOL_WRITE.                                *)
LineOf(u, s) == [sym |-> s, val |-> u[s]]
Image(u) == {LineOf(u, s) : s \in Written[u]}

Whole(f) == OneLineEach(f) /\ \E u \in Config : Lines(f) = Image(u)
=============================================================================
