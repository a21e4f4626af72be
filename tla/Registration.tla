---------------------------- MODULE Registration ----------------------------
(***************************************************************************)
(* How the table of commands is filled at the start                        *)
(* (initalize_symbol_table of c/elf.c, initalize_command_line and          *)
(* add_command of c/command_line.c): the kernel walks its own ELF sections *)
(* to its symbols, counts those whose names begin "vtos_cmd_setup", makes  *)
(* a table with room for that many commands, and calls each, which adds    *)
(* one.  Both loops over the symbols start from an uninitialised index.    *)
(*                                                                         *)
(* A section holds what it points to: a symbol table its symbols, a string *)
(* table its strings by offset.  Only the first 14 characters of a name    *)
(* count, so it is SetupName or OtherName.                                 *)
(***************************************************************************)
EXTENDS Integers, Sequences, FiniteSets

CONSTANTS
  Layouts,    \* what the boot loader may have loaded: sequences of sections
  Offsets,    \* offsets in a string table
  SetupName,  \* a name that begins "vtos_cmd_setup"
  OtherName,  \* a name that does not
  NULL,       \* no string table, and no function
  Adds,       \* the command each setup function passes to add_command
  Unwritten   \* what the entries of a new table may hold

Symbol == [st_name : Offsets, st_value : DOMAIN Adds \union {NULL}]
Strings == [Offsets -> {SetupName, OtherName}]
Section == [sh_type : {"SHT_SYMTAB", "SHT_STRTAB", "SHT_PROGBITS"},
            sh_link : Nat, symbols : Seq(Symbol), strings : Strings]

(* There is a string table, if only that of the sections' names, and       *)
(* whichever is taken, no function but a setup function is found under     *)
(* SetupName.                                                              *)
ASSUME RegistrationAssumption ==
  /\ Offsets \subseteq Nat
  /\ Layouts \subseteq Seq(Section)
  /\ SetupName # OtherName /\ NULL \notin DOMAIN Adds /\ NULL \notin Strings
  /\ \A layout \in Layouts : \E t \in DOMAIN layout : layout[t].sh_type = "SHT_STRTAB"
  /\ \A layout \in Layouts : \A s, t \in DOMAIN layout : \A y \in DOMAIN layout[s].symbols :
       LET symbol == layout[s].symbols[y] IN
       layout[t].strings[symbol.st_name] = SetupName => symbol.st_value \in DOMAIN Adds

VARIABLES
  pc,            \* the next step of the kernel
  sections,      \* external: the sections of the kernel's file
  x,             \* the next section
  sym_table,     \* the symbols of a symbol table
  string_table,  \* the strings of a string table
  ksym,          \* the symbols with their names
  z,             \* the next symbol of either loop
  starts,        \* history: what z held before each loop
  num_cmds,      \* setup functions counted; the room in the table
  current_cmd,   \* commands added
  cmds           \* the table

tableVars == <<sections, x, sym_table, string_table, ksym, z, starts,
               num_cmds, current_cmd, cmds>>
registrationVars == <<pc, tableVars>>

num_syms == Len(sym_table)

RegistrationInit ==
  /\ pc = "sections"
  /\ sections \in Layouts
  /\ x = 1 /\ sym_table = <<>> /\ string_table = NULL /\ ksym = <<>>
  /\ z = 1 /\ starts = <<>>
  /\ num_cmds = 0 /\ current_cmd = 0 /\ cmds = <<>>
-----------------------------------------------------------------------------
StringTableAfter_Last(section) ==
  IF section.sh_type = "SHT_STRTAB" THEN section.strings ELSE string_table

(* The first string table is kept, whichever the symbols refer to. *)
StringTableAfter(section) ==
  IF section.sh_type = "SHT_STRTAB" /\ string_table = NULL THEN section.strings
  ELSE string_table

NextSection ==
  /\ pc = "sections" /\ x <= Len(sections)
  /\ sym_table' = IF sections[x].sh_type = "SHT_SYMTAB" THEN sections[x].symbols ELSE sym_table
  /\ string_table' = StringTableAfter(sections[x])
  /\ x' = x + 1
  /\ UNCHANGED <<pc, sections, ksym, z, starts, num_cmds, current_cmd, cmds>>

(* A loop over the symbols starts wherever z happens to be; past the end,  *)
(* for the comparison is unsigned, if that is negative or too large.       *)
StartLoop ==
  /\ z' \in 1 .. num_syms + 1
  /\ starts' = Append(starts, z')

(* A symbol without a name is skipped: its entry is what malloc returned,  *)
(* and its name, which is read, that of no setup function.                 *)
Entry(symbol) ==
  IF symbol.st_name = 0 THEN [name |-> OtherName, entry_addr |-> NULL]
  ELSE [name |-> string_table[symbol.st_name], entry_addr |-> symbol.st_value]

ReadSymbols ==
  /\ pc = "sections" /\ x > Len(sections)
  /\ ksym' = [y \in 1 .. num_syms |-> Entry(sym_table[y])]
  /\ StartLoop
  /\ pc' = "count"
  /\ UNCHANGED <<sections, x, sym_table, string_table, num_cmds, current_cmd, cmds>>

IsSetup(y) == ksym[y].name = SetupName

Count ==
  /\ pc = "count" /\ z <= num_syms
  /\ num_cmds' = IF IsSetup(z) THEN num_cmds + 1 ELSE num_cmds
  /\ z' = z + 1
  /\ UNCHANGED <<pc, sections, x, sym_table, string_table, ksym, starts, current_cmd, cmds>>

MakeTable ==
  /\ pc = "count" /\ z > num_syms
  /\ \E entry \in Unwritten : cmds' = [n \in 1 .. num_cmds |-> entry]
  /\ StartLoop
  /\ pc' = "register"
  /\ UNCHANGED <<sections, x, sym_table, string_table, ksym, num_cmds, current_cmd>>

(* There is no check for room: past the end of the table the command is    *)
(* written into the heap and will not be found.                            *)
add_command(command) ==
  /\ cmds' = IF current_cmd < num_cmds THEN [cmds EXCEPT ![current_cmd + 1] = command] ELSE cmds
  /\ current_cmd' = current_cmd + 1

Register ==
  /\ pc = "register" /\ z <= num_syms
  /\ IF IsSetup(z) THEN add_command(Adds[ksym[z].entry_addr])
                   ELSE UNCHANGED <<cmds, current_cmd>>
  /\ z' = z + 1
  /\ UNCHANGED <<pc, sections, x, sym_table, string_table, ksym, starts, num_cmds>>

(* initalize_command_line returns, and its locals are gone. *)
Registered ==
  /\ pc = "register" /\ z > num_syms
  /\ pc' = "prompt"
  /\ z' = 1 /\ starts' = <<>>
  /\ UNCHANGED <<sections, x, sym_table, string_table, ksym, num_cmds, current_cmd, cmds>>

Registers == NextSection \/ ReadSymbols \/ Count \/ MakeTable \/ Register \/ Registered

RegistrationSpec == RegistrationInit /\ [][Registers]_registrationVars
-----------------------------------------------------------------------------
(* How many elements of a set of numbers are below n: the place of n in it, *)
(* from 0, if it is one of them.                                           *)
Place(n, S) == Cardinality({k \in S : k < n})

(* The string table the kernel takes for its symbols': the first. *)
FirstStrings ==
  LET t == CHOOSE t \in DOMAIN sections :
             /\ sections[t].sh_type = "SHT_STRTAB"
             /\ \A u \in DOMAIN sections : u < t => sections[u].sh_type # "SHT_STRTAB"
  IN  sections[t].strings

(* The setup functions among the symbols of a section, by the names there. *)
SetupsOf(section) ==
  {y \in DOMAIN section.symbols :
     /\ section.symbols[y].st_name # 0
     /\ FirstStrings[section.symbols[y].st_name] = SetupName}

(* The file has no symbols but those of a section. *)
HoldsSymbols(section) ==
  /\ section.sh_type = "SHT_SYMTAB"
  /\ \A t \in DOMAIN sections : sections[t].sh_type = "SHT_SYMTAB" => sections[t] = section

(* No command is written past the end of the table, unless the second loop *)
(* starts before the first did.                                            *)
TableNotOverrun ==
  pc = "register" /\ starts[1] <= starts[2] => current_cmd <= num_cmds

(* With both loops done, no entry the command line will look at is left as *)
(* malloc returned it, unless the second loop started after the first.     *)
TableIsFull ==
  pc = "register" /\ z > num_syms /\ starts[2] <= starts[1] => num_cmds <= current_cmd

(* If moreover both start with the first symbol, the table is the commands *)
(* of the setup functions, in the order of the symbols, wherever among the *)
(* sections symbols and strings are.  Names are those of the first string  *)
(* table, and so the symbols' own only when no other table comes before;   *)
(* otherwise the table may lack commands, or hold other functions'.        *)
TableIsComplete ==
  pc = "register" /\ z > num_syms /\ starts = <<1, 1>> =>
    \A s \in DOMAIN sections : HoldsSymbols(sections[s]) =>
      LET setups == SetupsOf(sections[s]) IN
      /\ Len(cmds) = Cardinality(setups)
      /\ \A y \in setups :
           cmds[Place(y, setups) + 1] = Adds[sections[s].symbols[y].st_value]

(* However the two indices that are not initialised start, as long as they *)
(* start alike the table holds just what was registered.                   *)
TableHoldsSetups == TableNotOverrun /\ TableIsFull /\ TableIsComplete
=============================================================================
