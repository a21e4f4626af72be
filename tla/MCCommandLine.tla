--------------------------- MODULE MCCommandLine ----------------------------
(***************************************************************************)
(* CommandLine with the kernel's file as its linker writes it, and with    *)
(* the section names' string table first.  Three setup functions, two of   *)
(* one name, after a symbol without a name, as every first symbol is.      *)
(* Room for two tokens and lines of up to five characters, so that a line  *)
(* may have a word too many.                                               *)
(***************************************************************************)
EXTENDS CommandLine

MCAdds ==
  [function \in {"setup peek", "setup q", "setup peek 2"} |->
     CASE function = "setup peek"   -> [name |-> <<"p">>, entry_addr |-> "peek"]
       [] function = "setup q"      -> [name |-> <<"q", "p">>, entry_addr |-> "q"]
       [] function = "setup peek 2" -> [name |-> <<"p">>, entry_addr |-> "peek 2"]]

(* Zeros, whose name is empty, or something no token equals. *)
MCUnwritten == {[name |-> <<>>, entry_addr |-> NULL], [name |-> <<",">>, entry_addr |-> NULL]}

NoStrings == [offset \in Offsets |-> OtherName]
Sym(name, value) == [st_name |-> name, st_value |-> value]
SymTab(link) ==
  [sh_type |-> "SHT_SYMTAB", sh_link |-> link, strings |-> NoStrings,
   symbols |-> <<Sym(0, NULL), Sym(1, "setup peek"), Sym(1, "setup q"), Sym(1, "setup peek 2")>>]
StrTab(setup) ==
  [sh_type |-> "SHT_STRTAB", sh_link |-> 0, symbols |-> <<>>,
   strings |-> [offset \in Offsets |-> IF offset = setup THEN SetupName ELSE OtherName]]
Text == [sh_type |-> "SHT_PROGBITS", sh_link |-> 0, symbols |-> <<>>, strings |-> NoStrings]

MCLayouts == {<<Text, SymTab(3), StrTab(1), StrTab(-1)>>, <<StrTab(-1), Text, SymTab(4), StrTab(1)>>}
=============================================================================
