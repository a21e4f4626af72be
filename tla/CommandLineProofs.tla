-------------------------- MODULE CommandLineProofs --------------------------
(***************************************************************************)
(* Proofs about the registration of commands and about the command line.   *)
(* For every file of the kernel and wherever the two loops start: the      *)
(* table is never overrun, is full and holds the right commands whenever   *)
(* the loops start alike.  For every line, table and number of tokens: the *)
(* commands called are those the first word names, with the line's words.  *)
(*                                                                         *)
(* The counters are the sizes of sets of symbols: what was counted is the  *)
(* setup functions between the start of the first loop and z, what was     *)
(* added those between the start of the second and z.                      *)
(***************************************************************************)
EXTENDS CommandLine, FiniteSetTheorems, SequenceTheorems, WellFoundedInduction, TLAPS

(* The setup functions among the symbols from a to b - 1. *)
Found(a, b) == {y \in a .. b - 1 : IsSetup(y)}

(* Where the first loop started, and where both did. *)
StartedOne(s) == starts \in Seq(Nat) /\ Len(starts) = 1 /\ starts[1] = s
StartedTwo(s, t) == starts \in Seq(Nat) /\ Len(starts) = 2 /\ starts[1] = s /\ starts[2] = t

(* What the counters count. *)
CountInv ==
  /\ sections \in Seq(Section) /\ sym_table \in Seq(Symbol)
  /\ x \in Nat \ {0}
  /\ pc = "sections" => num_cmds = 0 /\ current_cmd = 0 /\ starts = <<>>
  /\ pc = "count" =>
       \E s \in 1 .. num_syms + 1 :
         /\ StartedOne(s) /\ z \in s .. num_syms + 1
         /\ num_cmds = Cardinality(Found(s, z)) /\ current_cmd = 0
  /\ pc = "register" =>
       \E s, t \in 1 .. num_syms + 1 :
         /\ StartedTwo(s, t) /\ z \in t .. num_syms + 1
         /\ num_cmds = Cardinality(Found(s, num_syms + 1))
         /\ current_cmd = Cardinality(Found(t, z))

(* What is known of the sections walked so far, and of the symbols read.   *)
SectionsInv ==
  /\ sections \in Layouts
  /\ x \in 1 .. Len(sections) + 1
  /\ sym_table \in Seq(Symbol)
  /\ \/ sym_table = <<>> /\ \A t \in 1 .. x - 1 : sections[t].sh_type # "SHT_SYMTAB"
     \/ \E t \in 1 .. x - 1 :
          sections[t].sh_type = "SHT_SYMTAB" /\ sym_table = sections[t].symbols
  /\ \/ string_table = NULL /\ \A t \in 1 .. x - 1 : sections[t].sh_type # "SHT_STRTAB"
     \/ \E t \in 1 .. x - 1 :
          /\ sections[t].sh_type = "SHT_STRTAB" /\ string_table = sections[t].strings
          /\ \A u \in 1 .. t - 1 : sections[u].sh_type # "SHT_STRTAB"
  /\ pc # "sections" =>
       /\ x = Len(sections) + 1
       /\ ksym = [y \in 1 .. num_syms |-> Entry(sym_table[y])]

(* What has been added is in the table, where its turn puts it. *)
Added(t) ==
  \A y \in Found(t, z) :
    LET p == Cardinality(Found(t, y + 1)) IN
    p <= num_cmds => cmds[p] = Adds[ksym[y].entry_addr]

TableInv ==
  /\ z \in 1 .. num_syms + 1
  /\ num_cmds \in 0 .. num_syms /\ current_cmd \in 0 .. num_syms
  /\ pc = "sections" => z = 1
  /\ pc \in {"sections", "count"} => cmds = <<>> /\ current_cmd = 0
  /\ pc \notin {"sections", "count"} =>
       /\ cmds \in Seq(Range(Adds) \union Unwritten) /\ Len(cmds) = num_cmds
       /\ \A n \in 1 .. num_cmds : n <= current_cmd => cmds[n] \in Range(Adds)
  /\ pc = "register" => Added(starts[2])
-----------------------------------------------------------------------------
(* Found grows by one with a setup function and not otherwise. *)
LEMMA FoundNext ==
  ASSUME NEW a \in Nat, NEW b \in Nat, a <= b
  PROVE  /\ IsFiniteSet(Found(a, b)) /\ Cardinality(Found(a, b)) \in Nat
         /\ Cardinality(Found(a, b + 1)) =
              IF IsSetup(b) THEN Cardinality(Found(a, b)) + 1 ELSE Cardinality(Found(a, b))
<1>1. IsFiniteSet(Found(a, b))
  <2>1. IsFiniteSet(a .. b - 1)
    BY FS_Interval
  <2> QED BY <2>1, FS_Subset DEF Found
<1>2. b \notin Found(a, b)
  BY DEF Found
<1>3. Found(a, b + 1) = IF IsSetup(b) THEN Found(a, b) \cup {b} ELSE Found(a, b)
  BY DEF Found
<1> QED BY <1>1, <1>2, <1>3, FS_AddElement, FS_CardinalityType

(* Nothing is found before a loop's first step. *)
LEMMA FoundNone == ASSUME NEW a \in Nat PROVE Cardinality(Found(a, a)) = 0
<1>1. Found(a, a) = {}
  BY DEF Found
<1> QED BY <1>1, FS_EmptySet

(* A loop that starts later and ends earlier finds no more. *)
LEMMA FoundFewer ==
  ASSUME NEW a \in Nat, NEW b \in Nat, NEW c \in Nat, NEW d \in Nat, a <= c, d <= b
  PROVE  Cardinality(Found(c, d)) <= Cardinality(Found(a, b))
<1>1. IsFiniteSet(Found(a, b))
  <2>1. IsFiniteSet(a .. b - 1)
    BY FS_Interval
  <2> QED BY <2>1, FS_Subset DEF Found
<1>2. Found(c, d) \in SUBSET Found(a, b)
  BY DEF Found
<1> QED BY <1>1, <1>2, FS_Subset

LEMMA AppendToOne ==
  ASSUME NEW seq \in Seq(Nat), NEW elt \in Nat, Len(seq) = 1
  PROVE  /\ Append(seq, elt) \in Seq(Nat) /\ Len(Append(seq, elt)) = 2
         /\ Append(seq, elt)[1] = seq[1] /\ Append(seq, elt)[2] = elt
<1>1. /\ Append(seq, elt) \in Seq(Nat) /\ Len(Append(seq, elt)) = Len(seq) + 1
  BY AppendProperties
<1>2. \A n \in 1 .. Len(seq) : Append(seq, elt)[n] = seq[n]
  BY AppendProperties
<1>3. Append(seq, elt)[Len(seq) + 1] = elt
  BY AppendProperties
<1> QED BY <1>1, <1>2, <1>3
-----------------------------------------------------------------------------
LEMMA CountInit == CommandLineInit => CountInv
<1> SUFFICES ASSUME CommandLineInit PROVE CountInv
  OBVIOUS
<1>1. sections \in Seq(Section) /\ sym_table \in Seq(Symbol) /\ x \in Nat \ {0}
  BY RegistrationAssumption DEF CommandLineInit, RegistrationInit
<1> QED BY <1>1 DEF CommandLineInit, RegistrationInit, CountInv

LEMMA CountStep == CountInv /\ [CommandLineNext]_commandVars => CountInv'
<1> SUFFICES ASSUME CountInv, [CommandLineNext]_commandVars PROVE CountInv'
  OBVIOUS
<1> USE DEF num_syms
<1>0. sections \in Seq(Section) /\ sym_table \in Seq(Symbol) /\ Len(sym_table) \in Nat
  BY DEF CountInv
<1>1. CASE NextSection
  <2>1. x \in 1 .. Len(sections)
    BY <1>1 DEF NextSection, CountInv
  <2>2. sections[x] \in Section
    BY <1>0, <2>1
  <2>3. sym_table' \in Seq(Symbol)
    BY <1>0, <1>1, <2>2 DEF NextSection, Section
  <2> QED BY <1>1, <2>3 DEF NextSection, CountInv
<1>2. CASE ReadSymbols
  <2>1. PICK s \in 1 .. Len(sym_table) + 1 : z' = s /\ StartedOne(s)'
    BY <1>0, <1>2 DEF ReadSymbols, StartLoop, CountInv, StartedOne, StartedTwo
  <2>2. Cardinality(Found(s, s))' = 0
    BY <1>0, FoundNone DEF Found, IsSetup
  <2> QED
    BY <1>0, <1>2, <2>1, <2>2 DEF ReadSymbols, CountInv
<1>3. CASE Count
  <2>1. PICK s \in 1 .. Len(sym_table) + 1 :
          /\ StartedOne(s) /\ z \in s .. Len(sym_table) + 1
          /\ num_cmds = Cardinality(Found(s, z)) /\ current_cmd = 0
    BY <1>3 DEF Count, CountInv, StartedOne, StartedTwo
  <2>2. s \in Nat /\ z \in Nat /\ s <= z /\ z <= Len(sym_table)
    BY <1>0, <1>3, <2>1 DEF Count
  <2>3. num_cmds' = Cardinality(Found(s, z + 1))
    BY <1>3, <2>1, <2>2, FoundNext DEF Count
  <2>4. Found(s, z)' = Found(s, z + 1)
    BY <1>3 DEF Count, Found, IsSetup
  <2>5. /\ StartedOne(s)' /\ z' \in s .. Len(sym_table') + 1 /\ s \in 1 .. Len(sym_table') + 1
        /\ num_cmds' = Cardinality(Found(s, z))' /\ current_cmd' = 0
    BY <1>0, <1>3, <2>1, <2>2, <2>3, <2>4 DEF Count, StartedOne, StartedTwo
  <2> QED BY <1>0, <1>3, <2>2, <2>5 DEF Count, CountInv, StartedOne, StartedTwo
<1>4. CASE MakeTable
  <2>1. PICK s \in 1 .. Len(sym_table) + 1 :
          /\ StartedOne(s) /\ z \in s .. Len(sym_table) + 1
          /\ num_cmds = Cardinality(Found(s, z)) /\ current_cmd = 0
    BY <1>4 DEF MakeTable, CountInv
  <2>2. PICK t \in 1 .. Len(sym_table) + 1 : z' = t /\ starts' = Append(starts, t)
    BY <1>4 DEF MakeTable, StartLoop
  <2>6. starts' \in Seq(Nat) /\ Len(starts') = 2 /\ starts'[1] = s /\ starts'[2] = t
    <3>1. starts \in Seq(Nat) /\ Len(starts) = 1 /\ starts[1] = s /\ t \in Nat
      BY <1>0, <2>1, <2>2 DEF StartedOne
    <3> QED BY <2>2, <3>1, AppendToOne
  <2>3. z = Len(sym_table) + 1
    BY <1>0, <1>4, <2>1 DEF MakeTable
  <2>4. Found(s, Len(sym_table) + 1)' = Found(s, z)
    BY <1>4, <2>3 DEF MakeTable, Found, IsSetup
  <2>5. Cardinality(Found(t, t))' = 0
    BY <1>0, FoundNone DEF Found, IsSetup
  <2> QED BY <1>0, <1>4, <2>1, <2>2, <2>4, <2>5, <2>6 DEF MakeTable, CountInv, StartedTwo
<1>5. CASE Register
  <2>1. PICK s \in 1 .. Len(sym_table) + 1, t \in 1 .. Len(sym_table) + 1 :
          /\ StartedTwo(s, t) /\ z \in t .. Len(sym_table) + 1
          /\ num_cmds = Cardinality(Found(s, Len(sym_table) + 1))
          /\ current_cmd = Cardinality(Found(t, z))
    BY <1>5 DEF Register, CountInv
  <2>2. current_cmd' = Cardinality(Found(t, z + 1))
    <3>1. t \in Nat /\ z \in Nat /\ t <= z
      BY <1>0, <2>1
    <3> QED BY <1>5, <2>1, <3>1, FoundNext DEF Register, add_command
  <2>3. \A a, b : Found(a, b)' = Found(a, b)
    BY <1>5 DEF Register, Found, IsSetup
  <2>4. z' = z + 1 /\ z' \in t .. Len(sym_table) + 1
    BY <1>0, <1>5, <2>1 DEF Register
  <2> QED BY <1>0, <1>5, <2>1, <2>2, <2>3, <2>4 DEF Register, CountInv, StartedOne, StartedTwo
<1>6. CASE Registered
  BY <1>0, <1>6 DEF Registered, CountInv
<1>7. CASE (\E line \in Lines : ReadLine(line)) \/ Loop
  <2>1. UNCHANGED tableVars /\ pc' \notin {"sections", "count", "register"}
    BY <1>7 DEF ReadLine, StrtokFrom, Loop, Strspn, NoToken, Token, Dispatch, TryCommand, Done
  <2> QED BY <2>1 DEF CountInv, tableVars
<1>8. CASE UNCHANGED commandVars
  BY <1>8, ZenonT(40) DEF CountInv, commandVars, registrationVars, tableVars, Found, IsSetup, StartedOne, StartedTwo
<1> QED
  BY <1>1, <1>2, <1>3, <1>4, <1>5, <1>6, <1>7, <1>8 DEF CommandLineNext, Registers
-----------------------------------------------------------------------------
(* The sections. *)
LEMMA SectionsInit == CommandLineInit => SectionsInv
<1> SUFFICES ASSUME CommandLineInit PROVE SectionsInv
  OBVIOUS
<1>1. sections \in Layouts /\ sections \in Seq(Section)
  BY RegistrationAssumption DEF CommandLineInit, RegistrationInit
<1>2. Len(sections) \in Nat
  BY <1>1
<1> QED BY <1>1, <1>2 DEF CommandLineInit, RegistrationInit, SectionsInv

LEMMA SectionsStep == SectionsInv /\ [CommandLineNext]_commandVars => SectionsInv'
<1> SUFFICES ASSUME SectionsInv, [CommandLineNext]_commandVars PROVE SectionsInv'
  OBVIOUS
<1> USE DEF num_syms
<1>0. sections \in Layouts /\ sections \in Seq(Section) /\ Len(sections) \in Nat
  BY RegistrationAssumption DEF SectionsInv
<1>1. CASE NextSection
  <2>1. x \in 1 .. Len(sections) /\ x' = x + 1 /\ UNCHANGED <<pc, sections, ksym>>
    BY <1>1 DEF NextSection, SectionsInv
  <2>2. sections[x] \in Section
    BY <1>0, <2>1
  <2>3. /\ sym_table' \in Seq(Symbol)
        /\ \/ sym_table' = <<>> /\ \A t \in 1 .. x : sections[t].sh_type # "SHT_SYMTAB"
           \/ \E t \in 1 .. x :
                sections[t].sh_type = "SHT_SYMTAB" /\ sym_table' = sections[t].symbols
    <3>1. CASE sections[x].sh_type = "SHT_SYMTAB"
      BY <1>1, <2>1, <2>2, <3>1 DEF NextSection, Section
    <3>2. CASE sections[x].sh_type # "SHT_SYMTAB"
      <4>1. sym_table' = sym_table
        BY <1>1, <3>2 DEF NextSection
      <4> QED BY <2>1, <3>2, <4>1 DEF SectionsInv
    <3> QED BY <3>1, <3>2
  <2>4. \/ string_table' = NULL /\ \A t \in 1 .. x : sections[t].sh_type # "SHT_STRTAB"
        \/ \E t \in 1 .. x :
             /\ sections[t].sh_type = "SHT_STRTAB" /\ string_table' = sections[t].strings
             /\ \A u \in 1 .. t - 1 : sections[u].sh_type # "SHT_STRTAB"
    <3>1. CASE string_table = NULL /\ \A t \in 1 .. x - 1 : sections[t].sh_type # "SHT_STRTAB"
      BY <1>1, <2>1, <3>1 DEF NextSection, StringTableAfter
    <3>2. CASE \E t \in 1 .. x - 1 :
                 /\ sections[t].sh_type = "SHT_STRTAB" /\ string_table = sections[t].strings
                 /\ \A u \in 1 .. t - 1 : sections[u].sh_type # "SHT_STRTAB"
      <4>1. PICK t \in 1 .. x - 1 :
              /\ sections[t].sh_type = "SHT_STRTAB" /\ string_table = sections[t].strings
              /\ \A u \in 1 .. t - 1 : sections[u].sh_type # "SHT_STRTAB"
        BY <3>2
      <4>2. sections[t] \in Section
        BY <1>0, <2>1
      <4>3. string_table' = string_table
        BY <1>1, <4>1, <4>2, RegistrationAssumption DEF NextSection, StringTableAfter, Section
      <4>4. t \in 1 .. x
        BY <2>1
      <4> QED BY <4>1, <4>3, <4>4
    <3> QED BY <3>1, <3>2 DEF SectionsInv
  <2>5. pc' = "sections" /\ x' - 1 = x /\ x' \in 1 .. Len(sections') + 1
    BY <1>0, <1>1, <2>1 DEF NextSection
  <2> QED BY <1>0, <2>1, <2>3, <2>4, <2>5 DEF SectionsInv
<1>2. CASE ReadSymbols
  BY <1>0, <1>2 DEF ReadSymbols, SectionsInv, Entry
<1>3. CASE /\ UNCHANGED <<sections, x, sym_table, string_table, ksym>>
           /\ pc # "sections"
  BY <1>3 DEF SectionsInv, Entry
<1>4. CASE UNCHANGED commandVars
  BY <1>4 DEF SectionsInv, Entry, commandVars, registrationVars, tableVars
<1>5. CASE Count \/ MakeTable \/ Register \/ Registered
  BY <1>3, <1>5 DEF Count, MakeTable, Register, Registered
<1>6. CASE (\E line \in Lines : ReadLine(line)) \/ Loop
  BY <1>3, <1>6 DEF ReadLine, Loop, Strspn, NoToken, Token, TryCommand, Done, tableVars
<1> QED BY <1>1, <1>2, <1>4, <1>5, <1>6 DEF CommandLineNext, Registers

(* With all sections walked a string table has been found. *)
LEMMA TablesFound ==
  ASSUME SectionsInv, pc # "sections"
  PROVE  \E t \in DOMAIN sections :
           /\ sections[t].sh_type = "SHT_STRTAB" /\ string_table = sections[t].strings
           /\ \A u \in DOMAIN sections : u < t => sections[u].sh_type # "SHT_STRTAB"
<1>0. sections \in Layouts /\ sections \in Seq(Section) /\ Len(sections) \in Nat
  BY RegistrationAssumption DEF SectionsInv
<1>1. PICK u \in DOMAIN sections : sections[u].sh_type = "SHT_STRTAB"
  BY <1>0, RegistrationAssumption
<1>2. DOMAIN sections = 1 .. x - 1
  BY <1>0 DEF SectionsInv
<1>3. PICK t \in 1 .. x - 1 :
        /\ sections[t].sh_type = "SHT_STRTAB" /\ string_table = sections[t].strings
        /\ \A v \in 1 .. t - 1 : sections[v].sh_type # "SHT_STRTAB"
  BY <1>1, <1>2 DEF SectionsInv
<1> QED BY <1>2, <1>3

(* What is found under SetupName is a setup function. *)
LEMMA SetupIsOne ==
  ASSUME SectionsInv, pc # "sections", NEW y \in 1 .. num_syms, IsSetup(y)
  PROVE  ksym[y].entry_addr \in DOMAIN Adds
<1>0. sections \in Layouts /\ sections \in Seq(Section) /\ sym_table \in Seq(Symbol)
  BY RegistrationAssumption DEF SectionsInv
<1>1. ksym[y] = Entry(sym_table[y])
  BY DEF SectionsInv
<1>2. /\ string_table[sym_table[y].st_name] = SetupName
      /\ ksym[y].entry_addr = sym_table[y].st_value
  BY <1>1, RegistrationAssumption DEF Entry, IsSetup
<1>3. PICK t \in DOMAIN sections : string_table = sections[t].strings
  BY TablesFound
<1>4. sym_table # <<>>
  BY <1>0 DEF num_syms
<1>5. PICK s \in DOMAIN sections : sym_table = sections[s].symbols
  BY <1>0, <1>4 DEF SectionsInv
<1>6. y \in DOMAIN sections[s].symbols
  BY <1>0, <1>5 DEF num_syms
<1> QED BY <1>0, <1>2, <1>3, <1>5, <1>6, RegistrationAssumption
-----------------------------------------------------------------------------
-----------------------------------------------------------------------------
(* The table. *)
LEMMA CountersFit ==
  CountInv /\ pc \in {"count", "register"} =>
    num_cmds \in 0 .. num_syms /\ current_cmd \in 0 .. num_syms
<1> SUFFICES ASSUME CountInv, pc \in {"count", "register"}
             PROVE  num_cmds \in 0 .. num_syms /\ current_cmd \in 0 .. num_syms
  OBVIOUS
<1>0. num_syms \in Nat
  BY DEF CountInv, num_syms
<1>1. ASSUME NEW a \in 1 .. num_syms + 1, NEW b \in 1 .. num_syms + 1
      PROVE  Cardinality(Found(a, b)) \in 0 .. num_syms
  <2>1. Found(a, b) \in SUBSET (1 .. num_syms)
    BY <1>0 DEF Found
  <2>2. IsFiniteSet(1 .. num_syms) /\ Cardinality(1 .. num_syms) = num_syms
    BY <1>0, FS_Interval
  <2>3. IsFiniteSet(Found(a, b)) /\ Cardinality(Found(a, b)) <= num_syms
    BY <2>1, <2>2, FS_Subset
  <2> QED BY <1>0, <2>3, FS_CardinalityType
<1>2. CASE pc = "count"
  <2>1. PICK s \in 1 .. num_syms + 1 :
          /\ z \in s .. num_syms + 1
          /\ num_cmds = Cardinality(Found(s, z)) /\ current_cmd = 0
    BY <1>2 DEF CountInv
  <2>2. z \in 1 .. num_syms + 1
    BY <1>0, <2>1
  <2>3. num_cmds \in 0 .. num_syms
    BY <1>1, <2>1, <2>2
  <2> QED BY <1>0, <2>1, <2>3
<1>3. CASE pc = "register"
  <2>1. PICK s \in 1 .. num_syms + 1, t \in 1 .. num_syms + 1 :
          /\ z \in t .. num_syms + 1
          /\ num_cmds = Cardinality(Found(s, num_syms + 1))
          /\ current_cmd = Cardinality(Found(t, z))
    BY <1>3 DEF CountInv
  <2>2. z \in 1 .. num_syms + 1 /\ num_syms + 1 \in 1 .. num_syms + 1
    BY <1>0, <2>1
  <2> QED BY <1>1, <2>1, <2>2
<1> QED BY <1>2, <1>3

LEMMA TableInit == CommandLineInit => TableInv
<1> SUFFICES ASSUME CommandLineInit PROVE TableInv
  OBVIOUS
<1> QED BY DEF CommandLineInit, RegistrationInit, TableInv, num_syms

(* A table of one entry throughout. *)
LEMMA NewTable ==
  ASSUME NEW n \in Nat, NEW S, NEW entry \in S
  PROVE  /\ [k \in 1 .. n |-> entry] \in Seq(S)
         /\ Len([k \in 1 .. n |-> entry]) = n
<1>1. [k \in 1 .. n |-> entry] \in [1 .. n -> S]
  OBVIOUS
<1>2. [k \in 1 .. n |-> entry] \in Seq(S)
  BY <1>1, SeqDef
<1> QED BY <1>2, LenProperties

LEMMA RegisterKeepsTable ==
  ASSUME CountInv, CountInv', SectionsInv, TableInv, Register
  PROVE  TableInv'
<1> USE DEF num_syms
<1> DEFINE Entries == Range(Adds) \union Unwritten
<1>0. /\ Len(sym_table) \in Nat /\ z \in 1 .. Len(sym_table) /\ num_cmds \in Nat
      /\ current_cmd \in Nat
      /\ cmds \in Seq(Entries) /\ Len(cmds) = num_cmds
      /\ \A n \in 1 .. num_cmds : n <= current_cmd => cmds[n] \in Range(Adds)
  BY DEF CountInv, TableInv, Register
<1>1. PICK t \in 1 .. Len(sym_table) + 1 :
        starts[2] = t /\ z >= t /\ current_cmd = Cardinality(Found(t, z))
  BY <1>0 DEF Register, CountInv, StartedTwo
<1>2. /\ pc' = "register" /\ z' = z + 1
      /\ UNCHANGED <<sections, x, sym_table, string_table, ksym, starts, num_cmds>>
  BY DEF Register
<1>3. num_cmds' \in 0 .. num_syms' /\ current_cmd' \in 0 .. num_syms'
  <2>1. (CountInv /\ pc \in {"count", "register"} =>
           num_cmds \in 0 .. num_syms /\ current_cmd \in 0 .. num_syms)'
    BY CountersFit, PTL
  <2> QED BY <1>2, <2>1
<1>4. \A a, b : Found(a, b)' = Found(a, b)
  BY <1>2 DEF Found, IsSetup
<1>5. ASSUME NEW y \in Found(t, z)
      PROVE  /\ y \in Nat /\ y + 1 <= z /\ Cardinality(Found(t, y + 1)) \in Nat
             /\ 1 <= Cardinality(Found(t, y + 1))
             /\ Cardinality(Found(t, y + 1)) <= current_cmd
  <2>1. y \in Nat /\ t <= y /\ y < z /\ IsSetup(y) /\ t \in Nat
    BY <1>0, <1>1 DEF Found
  <2>2. /\ Cardinality(Found(t, y)) \in Nat
        /\ Cardinality(Found(t, y + 1)) = Cardinality(Found(t, y)) + 1
    BY <2>1, FoundNext
  <2>3. Cardinality(Found(t, y + 1)) <= Cardinality(Found(t, z))
    BY <1>0, <2>1, FoundFewer
  <2> QED BY <1>0, <1>1, <2>1, <2>2, <2>3
<1>6. Added(t)
  BY <1>1 DEF Register, TableInv
<1>7. /\ cmds' \in Seq(Entries) /\ Len(cmds') = num_cmds
      /\ \A n \in 1 .. num_cmds : n <= current_cmd' => cmds'[n] \in Range(Adds)
      /\ Added(t)'
  <2>1. CASE ~IsSetup(z)
    <3>1. UNCHANGED <<cmds, current_cmd>>
      BY <2>1 DEF Register
    <3>2. Found(t, z + 1) = Found(t, z)
      BY <1>0, <1>1, <2>1 DEF Found
    <3>3. Added(t)'
      BY <1>2, <1>4, <1>6, <3>1, <3>2 DEF Added
    <3> QED BY <1>0, <3>1, <3>3
  <2>2. CASE IsSetup(z)
    <3> DEFINE command == Adds[ksym[z].entry_addr]
    <3>1. command \in Range(Adds)
      BY <1>0, <2>2, SetupIsOne DEF Register, Range
    <3>2. /\ current_cmd' = current_cmd + 1
          /\ cmds' = IF current_cmd < num_cmds THEN [cmds EXCEPT ![current_cmd + 1] = command]
                     ELSE cmds
      BY <2>2 DEF Register, add_command
    <3>3. Cardinality(Found(t, z + 1)) = current_cmd + 1
      BY <1>0, <1>1, <2>2, FoundNext
    <3>4. Found(t, z + 1) = Found(t, z) \cup {z}
      BY <1>0, <1>1, <2>2 DEF Found
    <3> HIDE DEF command
    <3>5. CASE current_cmd < num_cmds
      <4>1. current_cmd + 1 \in 1 .. Len(cmds) /\ command \in Entries
        BY <1>0, <3>1, <3>5
      <4>2. /\ cmds' \in Seq(Entries) /\ Len(cmds') = num_cmds
            /\ \A n \in 1 .. num_cmds :
                 cmds'[n] = IF n = current_cmd + 1 THEN command ELSE cmds[n]
        <5> HIDE DEF Entries
        <5> QED BY <1>0, <3>2, <3>5, <4>1, ExceptSeq
      <4>3. ASSUME NEW n \in 1 .. num_cmds, n <= current_cmd' PROVE cmds'[n] \in Range(Adds)
        BY <1>0, <3>1, <3>2, <4>2, <4>3
      <4>4. ASSUME NEW y \in Found(t, z + 1), Cardinality(Found(t, y + 1)) <= num_cmds
            PROVE  cmds'[Cardinality(Found(t, y + 1))] = Adds[ksym[y].entry_addr]
        <5>1. CASE y = z
          BY <1>0, <3>3, <3>5, <4>2, <5>1 DEF command
        <5>2. CASE y \in Found(t, z)
          <6>1. cmds[Cardinality(Found(t, y + 1))] = Adds[ksym[y].entry_addr]
            BY <1>6, <4>4, <5>2 DEF Added
          <6>2. /\ Cardinality(Found(t, y + 1)) \in 1 .. num_cmds
                /\ Cardinality(Found(t, y + 1)) # current_cmd + 1
            BY <1>0, <1>5, <4>4, <5>2
          <6> QED BY <4>2, <6>1, <6>2
        <5> QED BY <3>4, <5>1, <5>2
      <4>5. Added(t)'
        BY <1>2, <1>4, <4>4 DEF Added
      <4> QED BY <4>2, <4>3, <4>5
    <3>6. CASE ~(current_cmd < num_cmds)
      <4>1. cmds' = cmds
        BY <3>2, <3>6
      <4>2. ASSUME NEW y \in Found(t, z + 1), Cardinality(Found(t, y + 1)) <= num_cmds
            PROVE  cmds[Cardinality(Found(t, y + 1))] = Adds[ksym[y].entry_addr]
        <5>1. y # z
          BY <1>0, <3>3, <3>6, <4>2
        <5> QED BY <1>6, <3>4, <4>2, <5>1 DEF Added
      <4>3. Added(t)'
        BY <1>2, <1>4, <4>1, <4>2 DEF Added
      <4>4. ASSUME NEW n \in 1 .. num_cmds PROVE cmds[n] \in Range(Adds)
        BY <1>0, <3>6
      <4> QED BY <1>0, <4>1, <4>3, <4>4
    <3> QED BY <3>5, <3>6
  <2> QED BY <2>1, <2>2
<1>8. z' \in 1 .. Len(sym_table') + 1 /\ starts'[2] = t
  BY <1>0, <1>1, <1>2
<1> QED BY <1>2, <1>3, <1>7, <1>8 DEF TableInv

LEMMA TableStep ==
  CountInv /\ CountInv' /\ SectionsInv /\ TableInv /\ [CommandLineNext]_commandVars => TableInv'
<1> SUFFICES ASSUME CountInv, CountInv', SectionsInv, TableInv, [CommandLineNext]_commandVars
             PROVE  TableInv'
  OBVIOUS
<1> USE DEF num_syms
<1>0. Len(sym_table) \in Nat
  BY DEF CountInv
<1>1. CASE NextSection
  <2>1. Len(sym_table') \in Nat
    BY DEF CountInv
  <2>2. UNCHANGED <<pc, z, num_cmds, current_cmd, cmds>> /\ pc = "sections"
    BY <1>1 DEF NextSection
  <2>3. z = 1 /\ num_cmds = 0 /\ current_cmd = 0 /\ cmds = <<>>
    BY <2>2 DEF CountInv, TableInv
  <2> QED BY <2>1, <2>2, <2>3 DEF TableInv
<1>2. CASE ReadSymbols
  BY <1>0, <1>2 DEF ReadSymbols, StartLoop, TableInv
<1>3. CASE Count
  <2>1. pc' = "count" /\ pc = "count" /\ UNCHANGED <<sym_table, cmds, current_cmd>>
    BY <1>3 DEF Count
  <2>2. num_cmds' \in 0 .. Len(sym_table') /\ current_cmd' \in 0 .. Len(sym_table')
    <3>1. (CountInv /\ pc \in {"count", "register"} =>
             num_cmds \in 0 .. num_syms /\ current_cmd \in 0 .. num_syms)'
      BY CountersFit, PTL
    <3> QED BY <2>1, <3>1
  <2>3. z' \in 1 .. Len(sym_table) + 1
    BY <1>0, <1>3 DEF Count, TableInv
  <2> QED BY <2>1, <2>2, <2>3 DEF TableInv
<1>4. CASE MakeTable
  <2>1. /\ pc' = "register" /\ UNCHANGED <<sym_table, ksym, num_cmds, current_cmd>>
        /\ current_cmd = 0 /\ num_cmds \in 0 .. Len(sym_table)
    BY <1>4 DEF MakeTable, TableInv
  <2>2. PICK entry \in Unwritten : cmds' = [n \in 1 .. num_cmds |-> entry]
    BY <1>4 DEF MakeTable
  <2>3. cmds' \in Seq(Range(Adds) \union Unwritten) /\ Len(cmds') = num_cmds
    <3>1. num_cmds \in Nat /\ entry \in Range(Adds) \union Unwritten
      BY <1>0, <2>1
    <3> QED BY <2>2, <3>1, NewTable
  <2>4. z' \in 1 .. Len(sym_table) + 1
    BY <1>4 DEF MakeTable, StartLoop
  <2>5. PICK s \in 1 .. Len(sym_table') + 1, t \in 1 .. Len(sym_table') + 1 :
          /\ StartedTwo(s, t)' /\ z' \in t .. Len(sym_table') + 1
          /\ current_cmd' = Cardinality(Found(t, z))'
    BY <2>1 DEF CountInv
  <2>6. Found(t, z)' = {}
    <3>1. z' \in Nat /\ t \in Nat
      BY <1>0, <2>1, <2>4
    <3>2. IsFiniteSet(Found(t, z)')
      <4>1. IsFiniteSet(t .. z' - 1)
        BY <3>1, FS_Interval
      <4>2. Found(t, z)' \in SUBSET (t .. z' - 1)
        BY DEF Found
      <4> QED BY <4>1, <4>2, FS_Subset
    <3>3. Cardinality(Found(t, z)') = 0
      BY <2>1, <2>5
    <3> QED BY <3>2, <3>3, FS_EmptySet
  <2>7. Added(starts[2])'
    <3>1. starts'[2] = t
      BY <2>5 DEF StartedTwo
    <3> QED BY <2>6, <3>1 DEF Added
  <2> QED BY <1>0, <2>1, <2>3, <2>4, <2>7 DEF TableInv
<1>5. CASE Register
  BY <1>5, RegisterKeepsTable
<1>6. CASE Registered
  BY <1>0, <1>6 DEF Registered, TableInv
<1>7. CASE (\E line \in Lines : ReadLine(line)) \/ Loop
  <2>1. UNCHANGED tableVars /\ pc \notin {"sections", "count", "register"}
                          /\ pc' \notin {"sections", "count", "register"}
    BY <1>7 DEF ReadLine, StrtokFrom, Loop, Strspn, NoToken, Token, Dispatch, TryCommand, Done
  <2> QED BY <2>1 DEF TableInv, tableVars
<1>8. CASE UNCHANGED commandVars
  BY <1>8 DEF TableInv, commandVars, registrationVars, tableVars, Added, Found, IsSetup
<1> QED
  BY <1>1, <1>2, <1>3, <1>4, <1>5, <1>6, <1>7, <1>8 DEF CommandLineNext, Registers

(* The counters count the setup functions the two loops have passed. *)
THEOREM CountersCount == CommandLineSpec => []CountInv
BY CountInit, CountStep, PTL DEF CommandLineSpec

(* However many setup functions there are, none is added past the end of   *)
(* the table unless the second loop starts before the first.               *)
THEOREM TableIsNotOverrun == CommandLineSpec => []TableNotOverrun
<1>1. CountInv => TableNotOverrun
  <2> SUFFICES ASSUME CountInv, pc = "register", starts[1] <= starts[2]
               PROVE  current_cmd <= num_cmds
    BY DEF TableNotOverrun
  <2>1. PICK s \in 1 .. num_syms + 1, t \in 1 .. num_syms + 1 :
          /\ StartedTwo(s, t) /\ z \in t .. num_syms + 1
          /\ num_cmds = Cardinality(Found(s, num_syms + 1))
          /\ current_cmd = Cardinality(Found(t, z))
    BY DEF CountInv
  <2>2. num_syms \in Nat
    BY DEF CountInv, num_syms
  <2> QED BY <2>1, <2>2, FoundFewer DEF StartedOne, StartedTwo
<1> QED BY <1>1, CountersCount, PTL

(* Every entry the command line looks at has been written, unless the      *)
(* second loop starts after the first.                                     *)
THEOREM TableIsFilled == CommandLineSpec => []TableIsFull
<1>1. CountInv => TableIsFull
  <2> SUFFICES ASSUME CountInv, pc = "register", z > num_syms, starts[2] <= starts[1]
               PROVE  num_cmds <= current_cmd
    BY DEF TableIsFull
  <2>1. PICK s \in 1 .. num_syms + 1, t \in 1 .. num_syms + 1 :
          /\ StartedTwo(s, t) /\ z \in t .. num_syms + 1
          /\ num_cmds = Cardinality(Found(s, num_syms + 1))
          /\ current_cmd = Cardinality(Found(t, z))
    BY DEF CountInv
  <2>2. num_syms \in Nat
    BY DEF CountInv, num_syms
  <2> QED BY <2>1, <2>2, FoundFewer DEF StartedOne, StartedTwo
<1> QED BY <1>1, CountersCount, PTL

(* The kernel, its symbols and its table together. *)
RegisteredInv == CountInv /\ SectionsInv /\ TableInv

THEOREM TableInvariant == CommandLineSpec => []RegisteredInv
<1>1. CommandLineInit => RegisteredInv
  BY CountInit, SectionsInit, TableInit DEF RegisteredInv
<1>2. RegisteredInv /\ [CommandLineNext]_commandVars => RegisteredInv'
  BY CountStep, SectionsStep, TableStep DEF RegisteredInv
<1> QED BY <1>1, <1>2, PTL DEF CommandLineSpec

(* Symbols found between the first and the last are those of the section. *)
LEMMA SetupsFound ==
  ASSUME SectionsInv, pc # "sections", NEW s \in DOMAIN sections, HoldsSymbols(sections[s])
  PROVE  /\ sym_table = sections[s].symbols
         /\ \A y \in 1 .. num_syms :
              /\ y \in SetupsOf(sections[s]) <=> IsSetup(y)
              /\ IsSetup(y) => ksym[y].entry_addr = sym_table[y].st_value
<1>0. sections \in Layouts /\ sections \in Seq(Section) /\ Len(sections) \in Nat
  BY RegistrationAssumption DEF SectionsInv
<1>1. DOMAIN sections = 1 .. x - 1
  BY <1>0 DEF SectionsInv
<1>2. sym_table = sections[s].symbols
  <2>1. sections[s].sh_type = "SHT_SYMTAB"
    BY DEF HoldsSymbols
  <2>2. PICK t \in DOMAIN sections :
          sections[t].sh_type = "SHT_SYMTAB" /\ sym_table = sections[t].symbols
    BY <1>1, <2>1 DEF SectionsInv
  <2> QED BY <2>2 DEF HoldsSymbols
<1>3. string_table = FirstStrings
  <2>1. PICK t \in DOMAIN sections :
          /\ sections[t].sh_type = "SHT_STRTAB" /\ string_table = sections[t].strings
          /\ \A u \in DOMAIN sections : u < t => sections[u].sh_type # "SHT_STRTAB"
    BY TablesFound
  <2>2. \A u \in DOMAIN sections :
          /\ sections[u].sh_type = "SHT_STRTAB"
          /\ \A v \in DOMAIN sections : v < u => sections[v].sh_type # "SHT_STRTAB"
          => u = t
    BY <1>0, <1>1, <2>1
  <2> QED BY <2>1, <2>2 DEF FirstStrings
<1>4. ASSUME NEW y \in 1 .. num_syms
      PROVE  /\ y \in SetupsOf(sections[s]) <=> IsSetup(y)
             /\ IsSetup(y) => ksym[y].entry_addr = sym_table[y].st_value
  <2>1. ksym[y] = Entry(sym_table[y])
    BY DEF SectionsInv
  <2>2. y \in DOMAIN sections[s].symbols
    BY <1>2 DEF num_syms, SectionsInv
  <2> QED BY <1>2, <1>3, <2>1, <2>2, RegistrationAssumption DEF Entry, IsSetup, SetupsOf
<1> QED BY <1>2, <1>4

(* With both loops begun at the first symbol, the table is the commands of *)
(* the setup functions, each in its place, whatever the sections hold      *)
(* besides.                                                                *)
LEMMA TableComplete == RegisteredInv => TableIsComplete
<1> SUFFICES ASSUME RegisteredInv, pc = "register", z > num_syms, starts = <<1, 1>>,
                    NEW s \in DOMAIN sections, HoldsSymbols(sections[s])
             PROVE  LET setups == SetupsOf(sections[s]) IN
                    /\ Len(cmds) = Cardinality(setups)
                    /\ \A y \in setups :
                         cmds[Place(y, setups) + 1] = Adds[sections[s].symbols[y].st_value]
  BY DEF TableIsComplete
<1> DEFINE setups == SetupsOf(sections[s])
<1>0. num_syms \in Nat /\ z = num_syms + 1
  BY DEF RegisteredInv, CountInv, TableInv, num_syms
<1>1. /\ sym_table = sections[s].symbols
      /\ \A y \in 1 .. num_syms :
           /\ y \in setups <=> IsSetup(y)
           /\ IsSetup(y) => ksym[y].entry_addr = sym_table[y].st_value
  BY SetupsFound DEF RegisteredInv
<1>2. setups \subseteq 1 .. num_syms
  BY <1>1 DEF SetupsOf, num_syms, RegisteredInv, SectionsInv
<1>3. setups = Found(1, num_syms + 1)
  BY <1>0, <1>1, <1>2 DEF Found
<1>4. /\ num_cmds = Cardinality(setups) /\ current_cmd = num_cmds
      /\ Len(cmds) = num_cmds
  BY <1>0, <1>3 DEF RegisteredInv, CountInv, TableInv, StartedTwo
<1>5. ASSUME NEW y \in setups
      PROVE  cmds[Place(y, setups) + 1] = Adds[sections[s].symbols[y].st_value]
  <2>1. y \in 1 .. num_syms /\ y \in Nat /\ IsSetup(y)
    BY <1>0, <1>1, <1>2
  <2>2. {k \in setups : k < y} = Found(1, y)
    BY <1>0, <1>3, <2>1 DEF Found
  <2>3. /\ Cardinality(Found(1, y)) \in Nat
        /\ Cardinality(Found(1, y + 1)) = Cardinality(Found(1, y)) + 1
    BY <2>1, FoundNext
  <2>4. Cardinality(Found(1, y + 1)) <= num_cmds
    BY <1>0, <1>3, <1>4, <2>1, FoundFewer
  <2>5. cmds[Cardinality(Found(1, y + 1))] = Adds[ksym[y].entry_addr]
    <3>1. Added(1)
      BY DEF RegisteredInv, TableInv
    <3> QED BY <1>0, <1>3, <2>4, <3>1 DEF Added
  <2> QED BY <1>1, <2>1, <2>2, <2>3, <2>5 DEF Place
<1> QED BY <1>4, <1>5

(* For every file and however long its symbols, the table is not overrun   *)
(* and is full as long as the two loops start alike; and if they start at  *)
(* the first symbol and the file has one symbol table, it holds the        *)
(* commands of just those symbols whose names, read in the file's first    *)
(* string table, begin "vtos_cmd_setup".  That these are the kernel's      *)
(* setup functions is not said of a file with another string table first.  *)
THEOREM TableHoldsWhatWasSetUp == CommandLineSpec => []TableHoldsSetups
<1>1. RegisteredInv => TableIsComplete
  BY TableComplete
<1> QED BY <1>1, TableInvariant, TableIsNotOverrun, TableIsFilled, PTL DEF TableHoldsSetups
-----------------------------------------------------------------------------
(* The words of a line, and the tokens.                                    *)

Call(n) == [entry |-> cmds[n].entry_addr, argc |-> j, argv |-> tokens]
CallsOfTable == {Call(n) : n \in 1 .. num_cmds}

(* The entries that have the name the first token holds. *)
Named == {n \in 1 .. num_cmds : cmds[n].name = tokens[0]}

LineTypes ==
  /\ pc \in {"sections", "count", "register", "prompt", "strspn", "strtok", "dispatch"}
  /\ typed \in Lines
  /\ command_line \in Seq(Letters \union {Separator, NUL})
  /\ Len(command_line) = Len(typed)
  /\ s1 \in 1 .. Len(command_line) + 1
  /\ prevS1 \in 0 .. MaxLine + 1
  /\ found \in BOOLEAN
  /\ tokens \in [Tokens -> Seq(Letters)]
  /\ j \in 0 .. MaxTokens /\ i \in 1 .. num_cmds + 1

(* The line from s1 on is as it was typed, and what is before s1 is in the *)
(* tokens, word by word.                                                   *)
Scanned ==
  /\ calls = <<>>
  /\ \A p \in s1 .. Len(typed) : command_line[p] = typed[p]
  /\ s1 = 1 \/ typed[s1 - 1] = Separator
  /\ j = Place(s1, Starts(typed))
  /\ tokens = [k \in Tokens |-> IF k < j THEN Word(typed, k) ELSE <<>>]

(* The whole line is in the tokens, or as much as there is room for. *)
Dispatched == j = Argc(typed) /\ tokens = Argv(typed)

(* The entries before i have been called if they have the name. *)
Called ==
  /\ calls \in Seq(CallsOfTable)
  /\ Len(calls) = Place(i, Named)
  /\ \A n \in Named : n < i => calls[Place(n, Named) + 1] = Call(n)

LineInv ==
  /\ LineTypes
  /\ pc \in {"sections", "count", "register"} => typed = <<>> /\ calls = <<>> /\ i = 1
  /\ pc \in {"strspn", "strtok"} => Scanned
  /\ pc = "strtok" => CharAt(s1) # Separator
  /\ pc = "dispatch" => Dispatched /\ Called
  /\ pc = "prompt" =>
       \/ typed = <<>> /\ calls = <<>>
       \/ Dispatched /\ Called /\ i = num_cmds + 1
-----------------------------------------------------------------------------
(* Places. *)
LEMMA LeastNumber ==
  ASSUME NEW T, T \subseteq Nat, T # {}
  PROVE  \E n \in T : \A k \in T : n <= k
<1>1. PICK n \in T : \A k \in T : ~(<<k, n>> \in OpToRel(<, Nat))
  BY NatLessThanWellFounded, WFMin
<1>2. \A k \in T : ~(k < n)
  BY <1>1 DEF OpToRel
<1> QED BY <1>2

LEMMA PlaceFinite ==
  ASSUME NEW S, S \subseteq Nat, NEW n \in Nat
  PROVE  IsFiniteSet({k \in S : k < n}) /\ Place(n, S) \in Nat
<1>1. IsFiniteSet(0 .. n)
  BY FS_Interval
<1>2. {k \in S : k < n} \in SUBSET (0 .. n)
  <2>1. ASSUME NEW k \in S, k < n PROVE k \in 0 .. n
    <3>1. k \in Nat
      OBVIOUS
    <3> QED BY <2>1, <3>1
  <2> QED BY <2>1
<1> QED BY <1>1, <1>2, FS_Subset, FS_CardinalityType DEF Place

(* The place of what follows an element is the next, and of what follows   *)
(* no element the same.                                                    *)
LEMMA PlaceNext ==
  ASSUME NEW S, S \subseteq Nat, NEW m \in Nat, NEW n \in Nat, m < n,
         \A k \in S : k < n => k <= m
  PROVE  Place(n, S) = IF m \in S THEN Place(m, S) + 1 ELSE Place(m, S)
<1>1. IsFiniteSet({k \in S : k < m})
  BY PlaceFinite
<1>2. m \notin {k \in S : k < m}
  OBVIOUS
<1>3. {k \in S : k < n} = IF m \in S THEN {k \in S : k < m} \cup {m} ELSE {k \in S : k < m}
  <2>1. ASSUME NEW k \in S PROVE k < n <=> k < m \/ k = m
    <3>1. k \in Nat
      OBVIOUS
    <3> QED BY <2>1, <3>1
  <2> QED BY <2>1
<1> QED BY <1>1, <1>2, <1>3, FS_AddElement DEF Place

(* An element has a lower place than what is above it. *)
LEMMA PlaceGrows ==
  ASSUME NEW S, S \subseteq Nat, NEW m \in S, NEW n \in Nat, m < n
  PROVE  Place(m, S) < Place(n, S)
<1>1. IsFiniteSet({k \in S : k < n}) /\ Place(n, S) \in Nat /\ Place(m, S) \in Nat
  BY PlaceFinite
<1>2. {k \in S : k < m} \in SUBSET {k \in S : k < n}
  <2>1. ASSUME NEW k \in S, k < m PROVE k < n
    <3>1. k \in Nat /\ m \in Nat
      OBVIOUS
    <3> QED BY <2>1, <3>1
  <2> QED BY <2>1
<1>3. m \in {k \in S : k < n} /\ m \notin {k \in S : k < m}
  OBVIOUS
<1>4. Place(m, S) <= Place(n, S) /\ Place(m, S) # Place(n, S)
  BY <1>1, <1>2, <1>3, FS_Subset DEF Place
<1> QED BY <1>1, <1>4

(* Above all of a set is its size. *)
LEMMA PlaceAbove ==
  ASSUME NEW S, NEW n \in Nat, \A k \in S : k < n
  PROVE  Place(n, S) = Cardinality(S)
<1>1. {k \in S : k < n} = S
  OBVIOUS
<1> QED BY <1>1 DEF Place

LEMMA PlaceFirst ==
  ASSUME NEW S, NEW n, \A k \in S : ~(k < n)
  PROVE  Place(n, S) = 0
<1>1. {k \in S : k < n} = {}
  OBVIOUS
<1> QED BY <1>1, FS_EmptySet DEF Place

(* No more elements are below a number than there are. *)
LEMMA PlaceAtMost ==
  ASSUME NEW S, S \subseteq Nat, IsFiniteSet(S), NEW n \in Nat
  PROVE  Cardinality(S) \in Nat /\ Place(n, S) <= Cardinality(S)
<1>1. {k \in S : k < n} \in SUBSET S
  OBVIOUS
<1> QED BY <1>1, FS_Subset, FS_CardinalityType DEF Place
-----------------------------------------------------------------------------
(* Lines. *)
LEMMA LineIsSeq ==
  ASSUME NEW line \in Lines
  PROVE  /\ line \in Seq(Letters \union {Separator})
         /\ Len(line) \in Nat /\ Len(line) <= MaxLine
<1>1. PICK n \in 0 .. MaxLine : line \in [1 .. n -> Letters \union {Separator}]
  BY DEF Lines, SeqOf
<1>2. n \in Nat /\ n <= MaxLine
  BY CommandLineAssumption
<1>3. line \in Seq(Letters \union {Separator})
  BY <1>1, <1>2, SeqDef
<1>4. Len(line) = n
  <2>1. DOMAIN line = 1 .. n /\ DOMAIN line = 1 .. Len(line) /\ Len(line) \in Nat
    BY <1>1, <1>3, LenProperties
  <2> QED BY <1>2, <2>1
<1> QED BY <1>2, <1>3, <1>4

LEMMA EmptyLine == <<>> \in Lines /\ Starts(<<>>) = {}
<1>1. <<>> \in [1 .. 0 -> Letters \union {Separator}]
  BY EmptySeq, LenProperties
<1>2. 0 \in 0 .. MaxLine
  BY CommandLineAssumption
<1>3. <<>> \in Lines
  BY <1>1, <1>2 DEF Lines, SeqOf
<1>4. Bounds(<<>>) = {}
  BY EmptySeq DEF Bounds
<1> QED BY <1>3, <1>4 DEF Starts

LEMMA StartsOfLine ==
  ASSUME NEW line \in Lines
  PROVE  /\ Starts(line) \subseteq 1 .. Len(line) /\ Starts(line) \subseteq Nat
         /\ IsFiniteSet(Starts(line))
         /\ \A p \in Starts(line) : /\ line[p] \in Letters
                                    /\ p = 1 \/ line[p - 1] = Separator
<1>0. Len(line) \in Nat
  BY LineIsSeq
<1>1. Starts(line) \subseteq 1 .. Len(line)
  BY DEF Starts, Bounds
<1>2. IsFiniteSet(Starts(line))
  <2>1. IsFiniteSet(1 .. Len(line))
    BY <1>0, FS_Interval
  <2> QED BY <1>1, <2>1, FS_Subset
<1>3. ASSUME NEW p \in Starts(line)
      PROVE  line[p] \in Letters /\ (p = 1 \/ line[p - 1] = Separator)
  <2>1. PICK b \in Bounds(line) : p = b[1]
    BY DEF Starts
  <2>2. b[1] \in b[1] .. b[2]
    BY <1>0, <2>1 DEF Bounds
  <2> QED BY <2>1, <2>2 DEF Bounds
<1> QED BY <1>0, <1>1, <1>2, <1>3

(* A word ends where the next separator is, so that no two begin alike. *)
LEMMA WordEnds ==
  ASSUME NEW line \in Lines, NEW b \in Bounds(line), NEW c \in Bounds(line), b[1] = c[1]
  PROVE  b[2] <= c[2]
<1>0. Len(line) \in Nat /\ b[1] \in Nat /\ b[2] \in Nat /\ c[2] \in Nat
  BY LineIsSeq DEF Bounds
<1>1. ASSUME c[2] < b[2] PROVE FALSE
  <2>1. c[2] + 1 \in b[1] .. b[2] /\ c[2] # Len(line)
    BY <1>0, <1>1 DEF Bounds
  <2>2. line[c[2] + 1] \in Letters /\ line[c[2] + 1] = Separator
    BY <2>1 DEF Bounds
  <2> QED BY <2>2, CommandLineAssumption
<1> QED BY <1>0, <1>1

LEMMA SameWord ==
  ASSUME NEW line \in Lines, NEW b \in Bounds(line), NEW c \in Bounds(line), b[1] = c[1]
  PROVE  b = c
<1>1. b[2] <= c[2] /\ c[2] <= b[2]
  BY WordEnds
<1> QED BY <1>1 DEF Bounds

(* The word at a place is the one whose start has it. *)
LEMMA WordAtPlace ==
  ASSUME NEW line \in Lines, NEW b \in Bounds(line)
  PROVE  Word(line, Place(b[1], Starts(line))) = SubSeq(line, b[1], b[2])
<1> DEFINE k == Place(b[1], Starts(line))
           c == CHOOSE c \in Bounds(line) : Place(c[1], Starts(line)) = k
<1>1. c \in Bounds(line) /\ Place(c[1], Starts(line)) = k
  OBVIOUS
<1>2. Starts(line) \subseteq Nat /\ b[1] \in Starts(line) /\ c[1] \in Starts(line)
  BY <1>1, StartsOfLine DEF Starts
<1>3. c[1] = b[1]
  <2>1. Place(c[1], Starts(line)) \in Nat /\ Place(b[1], Starts(line)) \in Nat
    BY <1>2, PlaceFinite
  <2>2. ~(c[1] < b[1]) /\ ~(b[1] < c[1])
    BY <1>1, <1>2, <2>1, PlaceGrows
  <2> QED BY <1>2, <2>2
<1>4. c = b
  BY <1>1, <1>3, SameWord
<1> QED BY <1>4 DEF Word
-----------------------------------------------------------------------------
(* strcspn finds the end of the token. *)
LEMMA TokenEndIs ==
  ASSUME LineTypes
  PROVE  /\ TokenEnd \in s1 .. Len(command_line) + 1
         /\ CharAt(TokenEnd) \in {Separator, NUL}
         /\ \A p \in s1 .. TokenEnd - 1 : CharAt(p) \in Letters
<1> DEFINE Ends(q) == /\ CharAt(q) \in {Separator, NUL}
                      /\ \A p \in s1 .. q - 1 : CharAt(p) \in Letters
           T == {q \in s1 .. Len(command_line) + 1 : CharAt(q) \in {Separator, NUL}}
<1>0. Len(command_line) \in Nat /\ s1 \in Nat \ {0} /\ s1 <= Len(command_line) + 1
  BY DEF LineTypes
<1>1. \E q \in s1 .. Len(command_line) + 1 : Ends(q)
  <2>1. T \subseteq Nat
    BY <1>0
  <2>2. Len(command_line) + 1 \in T
    BY <1>0 DEF CharAt
  <2>3. PICK q \in T : \A n \in T : q <= n
    <3> HIDE DEF T
    <3> QED BY <2>1, <2>2, LeastNumber
  <2>4. ASSUME NEW p \in s1 .. q - 1 PROVE CharAt(p) \in Letters
    <3>0. q \in Nat /\ q <= Len(command_line) + 1 /\ p \in Nat /\ 1 <= p /\ s1 <= p /\ p < q
      BY <1>0, <2>1, <2>3
    <3>1. p \in 1 .. Len(command_line) /\ p < q /\ p \notin T
      <4>1. p \in 1 .. Len(command_line)
        BY <1>0, <3>0
      <4>2. p \notin T
        <5> HIDE DEF T
        <5> QED BY <2>3, <3>0
      <4> QED BY <3>0, <4>1, <4>2
    <3>2. CharAt(p) \in Letters \union {Separator, NUL}
      <4>1. CharAt(p) = command_line[p]
        BY <1>0, <3>1 DEF CharAt
      <4>2. command_line[p] \in Letters \union {Separator, NUL}
        BY <3>1, ElementOfSeq DEF LineTypes
      <4> QED BY <4>1, <4>2
    <3>3. p \in s1 .. Len(command_line) + 1
      BY <1>0, <3>1
    <3> QED BY <3>1, <3>2, <3>3
  <2> QED BY <2>3, <2>4
<1>2. TokenEnd = CHOOSE q \in s1 .. Len(command_line) + 1 : Ends(q)
  BY DEF TokenEnd
<1>3. TokenEnd \in s1 .. Len(command_line) + 1 /\ Ends(TokenEnd)
  <2> HIDE DEF Ends
  <2> QED BY <1>1, <1>2
<1> QED BY <1>3

(* From s1 on a character of the line is the one typed. *)
LEMMA CharTyped ==
  ASSUME LineTypes, Scanned, NEW p \in s1 .. Len(typed)
  PROVE  /\ CharAt(p) = typed[p] /\ typed[p] \in Letters \union {Separator}
         /\ p \in 1 .. Len(typed)
<1>0. Len(typed) \in Nat /\ s1 \in Nat \ {0} /\ Len(command_line) = Len(typed)
      /\ typed \in Seq(Letters \union {Separator})
  BY LineIsSeq DEF LineTypes
<1>1. CharAt(p) = command_line[p]
  BY <1>0 DEF CharAt
<1>2. command_line[p] = typed[p]
  BY DEF Scanned
<1>3. p \in 1 .. Len(typed)
  BY <1>0
<1> QED BY <1>0, <1>1, <1>2, <1>3, ElementOfSeq

(* The token at s1 is the next word of the line. *)
LEMMA TokenIsWord ==
  ASSUME LineTypes, Scanned, CharAt(s1) # Separator, ~AtEnd, NEW q, q = TokenEnd
  PROVE  /\ q \in Nat /\ s1 < q /\ q <= Len(typed) + 1
         /\ q <= Len(typed) => typed[q] = Separator
         /\ SubSeq(command_line, s1, q - 1) \in Seq(Letters)
         /\ SubSeq(command_line, s1, q - 1) = Word(typed, j)
         /\ Place(q + 1, Starts(typed)) = j + 1
<1>0. /\ Len(typed) \in Nat /\ s1 \in Nat \ {0} /\ Len(command_line) = Len(typed)
      /\ typed \in Seq(Letters \union {Separator}) /\ typed \in Lines
  BY LineIsSeq DEF LineTypes
<1>1. /\ q \in Nat /\ s1 <= q /\ q <= Len(typed) + 1 /\ CharAt(q) \in {Separator, NUL}
      /\ \A p \in s1 .. q - 1 : CharAt(p) \in Letters
  BY <1>0, TokenEndIs
<1>2. s1 < q
  BY <1>0, <1>1 DEF AtEnd
<1>3. q <= Len(typed) => typed[q] = Separator
  <2>1. SUFFICES ASSUME q <= Len(typed) PROVE typed[q] = Separator
    OBVIOUS
  <2>2. q \in s1 .. Len(typed)
    BY <1>0, <1>1, <2>1
  <2> QED BY <1>1, <2>2, CharTyped, CommandLineAssumption
<1>4. ASSUME NEW p \in s1 .. q - 1
      PROVE  typed[p] \in Letters /\ command_line[p] = typed[p] /\ p \in 1 .. Len(typed)
  <2>1. p \in s1 .. Len(typed) /\ p \in 1 .. Len(typed)
    BY <1>0, <1>1, <1>2
  <2>2. command_line[p] = typed[p]
    BY <2>1 DEF Scanned
  <2> QED BY <1>1, <2>1, <2>2, CharTyped
<1>5. /\ SubSeq(command_line, s1, q - 1) \in Seq(Letters)
      /\ SubSeq(command_line, s1, q - 1) = SubSeq(typed, s1, q - 1)
  <2> DEFINE u == SubSeq(command_line, s1, q - 1)
             v == SubSeq(typed, s1, q - 1)
  <2>1. /\ s1 \in Int /\ q - 1 \in Int
        /\ \A n \in s1 .. q - 1 : command_line[n] \in Letters
        /\ \A n \in s1 .. q - 1 : typed[n] \in Letters
    BY <1>0, <1>1, <1>4
  <2>2. /\ u \in Seq(Letters) /\ Len(u) = IF s1 <= q - 1 THEN q - 1 - s1 + 1 ELSE 0
        /\ \A n \in 1 .. q - 1 - s1 + 1 : u[n] = command_line[s1 + n - 1]
    BY ONLY <2>1, SubSeqProperties
  <2>3. /\ v \in Seq(Letters) /\ Len(v) = IF s1 <= q - 1 THEN q - 1 - s1 + 1 ELSE 0
        /\ \A n \in 1 .. q - 1 - s1 + 1 : v[n] = typed[s1 + n - 1]
    BY ONLY <2>1, SubSeqProperties
  <2>4. Len(u) = Len(v)
    BY <2>2, <2>3
  <2>5. ASSUME NEW n \in 1 .. Len(u) PROVE u[n] = v[n]
    <3>1. n \in 1 .. q - 1 - s1 + 1 /\ s1 + n - 1 \in s1 .. q - 1
      BY <1>0, <1>1, <1>2, <2>2
    <3> QED BY <1>4, <2>2, <2>3, <3>1
  <2> HIDE DEF u, v
  <2>6. u = v
    BY <2>2, <2>3, <2>4, <2>5, SeqEqual
  <2> QED BY <2>2, <2>6 DEF u, v
<1> DEFINE w == <<s1, q - 1>>
<1>6. w \in Bounds(typed)
  <2>1. w \in (1 .. Len(typed)) \X (1 .. Len(typed)) /\ w[1] = s1 /\ w[2] = q - 1
    BY <1>0, <1>1, <1>2
  <2>2. \A p \in w[1] .. w[2] : typed[p] \in Letters
    BY <1>4
  <2>3. w[1] = 1 \/ typed[w[1] - 1] = Separator
    BY DEF Scanned
  <2>4. w[2] = Len(typed) \/ typed[w[2] + 1] = Separator
    <3>1. w[2] + 1 = q /\ (q <= Len(typed) \/ w[2] = Len(typed))
      BY <1>0, <1>1
    <3> QED BY <1>3, <3>1
  <2> QED BY <1>2, <1>0, <1>1, <2>1, <2>2, <2>3, <2>4 DEF Bounds
<1>7. Word(typed, j) = SubSeq(typed, s1, q - 1)
  <2>1. j = Place(w[1], Starts(typed))
    BY DEF Scanned
  <2> HIDE DEF w
  <2>2. Word(typed, j) = SubSeq(typed, w[1], w[2])
    BY <1>0, <1>6, <2>1, WordAtPlace
  <2> QED BY <2>2 DEF w
<1>8. Place(q + 1, Starts(typed)) = j + 1
  <2>1. s1 \in Starts(typed)
    <3>1. w[1] = s1
      OBVIOUS
    <3> QED BY <1>6, <3>1 DEF Starts
  <2>2. ASSUME NEW p \in Starts(typed), p < q + 1 PROVE p <= s1
    <3>1. /\ p \in 1 .. Len(typed) /\ typed[p] \in Letters
          /\ p = 1 \/ typed[p - 1] = Separator
      BY <1>0, StartsOfLine
    <3>2. p # q
      BY <1>3, <3>1, CommandLineAssumption
    <3>3. ASSUME s1 < p PROVE FALSE
      <4>1. p - 1 \in s1 .. q - 1 /\ p # 1
        BY <1>0, <1>1, <2>2, <3>1, <3>2, <3>3
      <4> QED BY <1>4, <3>1, <4>1, CommandLineAssumption
    <3> QED BY <1>0, <3>1, <3>3
  <2>3. Place(q + 1, Starts(typed)) = Place(s1, Starts(typed)) + 1
    <3>1. Starts(typed) \subseteq Nat /\ q + 1 \in Nat /\ s1 \in Nat /\ s1 < q + 1
      BY <1>0, <1>1, <1>2, StartsOfLine
    <3> QED BY <2>1, <2>2, <3>1, PlaceNext
  <2> QED BY <2>3 DEF Scanned
<1> QED BY <1>1, <1>2, <1>3, <1>5, <1>7, <1>8

(* What is past the line's last character has all its words before it. *)
LEMMA WordsBeforeEnd ==
  ASSUME NEW line \in Lines, NEW n \in Nat, Len(line) < n
  PROVE  Place(n, Starts(line)) = Cardinality(Starts(line))
<1>1. ASSUME NEW p \in Starts(line) PROVE p < n
  <2>1. p \in 1 .. Len(line) /\ Len(line) \in Nat
    BY StartsOfLine, LineIsSeq
  <2> QED BY <2>1
<1> QED BY <1>1, PlaceAbove

(* With as many tokens as there are words, or as there is room for, the    *)
(* tokens are what is passed.                                              *)
LEMMA TokensAreArguments ==
  ASSUME NEW line \in Lines, NEW n \in 0 .. MaxTokens,
         \/ n = Cardinality(Starts(line))
         \/ n = MaxTokens /\ n < Cardinality(Starts(line))
  PROVE  /\ n = Argc(line)
         /\ Argv(line) = [k \in Tokens |-> IF k < n THEN Word(line, k) ELSE <<>>]
<1>1. Cardinality(Starts(line)) \in Nat /\ MaxTokens \in Nat
  BY StartsOfLine, FS_CardinalityType, CommandLineAssumption
<1>2. n = Argc(line)
  BY <1>1 DEF Argc
<1> QED BY <1>2 DEF Argv
-----------------------------------------------------------------------------
(* The steps of the command line. *)
LEMMA LineInit == CommandLineInit => LineInv
<1> SUFFICES ASSUME CommandLineInit PROVE LineInv
  OBVIOUS
<1>1. /\ pc = "sections" /\ num_cmds = 0 /\ command_line = <<>> /\ prevS1 = 0 /\ s1 = 1
      /\ found = FALSE /\ tokens = [k \in Tokens |-> <<>>] /\ j = 0 /\ i = 1
      /\ typed = <<>> /\ calls = <<>>
  BY DEF CommandLineInit, RegistrationInit
<1>2. LineTypes
  <2>1. typed \in Lines /\ Len(typed) = 0 /\ command_line \in Seq(Letters \union {Separator, NUL})
    BY <1>1, EmptyLine, EmptySeq
  <2>2. tokens \in [Tokens -> Seq(Letters)]
    BY <1>1, EmptySeq
  <2>3. MaxLine \in Nat /\ MaxTokens \in Nat
    BY CommandLineAssumption
  <2>4. /\ Len(command_line) = 0 /\ s1 \in 1 .. Len(command_line) + 1
        /\ prevS1 \in 0 .. MaxLine + 1 /\ j \in 0 .. MaxTokens /\ i \in 1 .. num_cmds + 1
    BY <1>1, <2>1, <2>3
  <2> QED BY <1>1, <2>1, <2>2, <2>4 DEF LineTypes
<1> QED BY <1>1, <1>2 DEF LineInv

LEMMA ReadLineStep ==
  ASSUME LineInv, NEW line \in Lines, ReadLine(line), num_cmds \in Nat
  PROVE  LineInv'
<1>1. /\ pc' = "strspn" /\ typed' = line /\ command_line' = line /\ tokens' = Cleared
      /\ j' = 0 /\ calls' = <<>> /\ s1' = 1 /\ found' = FALSE
      /\ UNCHANGED <<num_cmds, prevS1, i>>
  BY DEF ReadLine, StrtokFrom, tableVars
<1>2. line \in Seq(Letters \union {Separator}) /\ Len(line) \in Nat
  BY LineIsSeq
<1>3. LineTypes'
  <2>1. command_line' \in Seq(Letters \union {Separator, NUL})
    BY <1>1, <1>2, SeqMonotonic
  <2>2. tokens' \in [Tokens -> Seq(Letters)]
    BY <1>1, EmptySeq DEF Cleared
  <2>3. MaxLine \in Nat /\ MaxTokens \in Nat
    BY CommandLineAssumption
  <2>4. s1' \in 1 .. Len(command_line') + 1 /\ j' \in 0 .. MaxTokens /\ found' \in BOOLEAN
    <3>1. s1' \in 1 .. Len(line) + 1
      BY <1>1, <1>2
    <3>2. j' \in 0 .. MaxTokens
      BY <1>1, <2>3
    <3> QED BY <1>1, <3>1, <3>2
  <2>5. prevS1' \in 0 .. MaxLine + 1 /\ i' \in 1 .. num_cmds' + 1
    BY <1>1 DEF LineInv, LineTypes
  <2> QED BY <1>1, <2>1, <2>2, <2>4, <2>5 DEF LineTypes
<1>4. Scanned'
  <2>1. Place(1, Starts(line)) = 0
    <3>1. ASSUME NEW p \in Starts(line) PROVE ~(p < 1)
      BY <1>2, StartsOfLine
    <3> QED BY <3>1, PlaceFirst
  <2>2. tokens' = [n \in Tokens |-> IF n < 0 THEN Word(line, n) ELSE <<>>]
    BY <1>1, CommandLineAssumption DEF Cleared, Tokens
  <2> QED BY <1>1, <2>1, <2>2 DEF Scanned
<1> QED BY <1>1, <1>3, <1>4 DEF LineInv

LEMMA StrspnStep ==
  ASSUME LineInv, Strspn, num_cmds \in Nat
  PROVE  LineInv'
<1>1. /\ pc = "strspn" /\ pc' \in {"strspn", "strtok"}
      /\ found' = (found \/ AtSeparator)
      /\ UNCHANGED <<num_cmds, command_line, prevS1, tokens, j, i, typed, calls>>
  BY DEF Strspn, tableVars
<1>2. LineTypes /\ Scanned
  BY <1>1 DEF LineInv
<1>3. Len(typed) \in Nat /\ s1 \in 1 .. Len(typed) + 1 /\ typed \in Lines
  BY <1>2, LineIsSeq DEF LineTypes
<1>4. CASE AtSeparator
  <2>1. s1' = s1 + 1 /\ pc' = "strspn"
    BY <1>4 DEF Strspn, SpanEnds
  <2>2. s1 \in s1 .. Len(typed) /\ s1 \in 1 .. Len(typed)
    BY <1>2, <1>3, <1>4, CommandLineAssumption DEF AtSeparator, CharAt, LineTypes
  <2>3. typed[s1] = Separator
    BY <1>2, <1>4, <2>2, CharTyped DEF AtSeparator
  <2>4. LineTypes'
    BY <1>1, <1>2, <1>3, <2>1, <2>2 DEF LineTypes
  <2>5. Place(s1 + 1, Starts(typed)) = Place(s1, Starts(typed))
    <3>1. s1 \notin Starts(typed) /\ Starts(typed) \subseteq Nat
      BY <1>3, <2>3, StartsOfLine, CommandLineAssumption
    <3>2. ASSUME NEW p \in Starts(typed), p < s1 + 1 PROVE p <= s1
      <4>1. p \in 1 .. Len(typed)
        BY <1>3, StartsOfLine
      <4> QED BY <1>3, <3>2, <4>1
    <3>3. s1 \in Nat /\ s1 + 1 \in Nat /\ s1 < s1 + 1
      BY <1>3
    <3> QED BY <3>1, <3>2, <3>3, PlaceNext
  <2>6. Scanned'
    <3>1. s1' - 1 = s1 /\ \A p \in s1' .. Len(typed) : p \in s1 .. Len(typed)
      BY <1>3, <2>1
    <3> QED BY <1>1, <1>2, <2>1, <2>3, <2>5, <3>1 DEF Scanned
  <2> QED BY <2>1, <2>4, <2>6 DEF LineInv
<1>5. CASE ~AtSeparator
  <2>1. s1' = s1
    BY <1>5 DEF Strspn
  <2>2. LineTypes' /\ Scanned'
    BY <1>1, <1>2, <2>1 DEF LineTypes, Scanned
  <2>3. (CharAt(s1) # Separator)'
    BY <1>1, <1>5, <2>1 DEF AtSeparator, CharAt
  <2> QED BY <1>1, <2>2, <2>3 DEF LineInv
<1> QED BY <1>4, <1>5

(* Where calls begin nothing has been called. *)
LEMMA NoneCalled ==
  ASSUME LineTypes, calls = <<>>, i = 1, num_cmds \in Nat
  PROVE  Called
<1>1. Named \subseteq 1 .. num_cmds
  BY DEF Named
<1>2. \A n \in Named : ~(n < 1)
  BY <1>1
<1>3. Place(1, Named) = 0
  BY <1>2, PlaceFirst
<1> QED BY <1>2, <1>3, EmptySeq DEF Called

LEMMA NoTokenStep ==
  ASSUME LineInv, NoToken, num_cmds \in Nat
  PROVE  LineInv'
<1>1. /\ pc = "strtok" /\ AtEnd /\ pc' = "dispatch" /\ i' = 1
      /\ UNCHANGED <<num_cmds, command_line, prevS1, s1, found, tokens, j, typed, calls, cmds>>
  BY DEF NoToken, Dispatch, tableVars
<1>2. LineTypes /\ Scanned
  BY <1>1 DEF LineInv
<1>3. Len(typed) \in Nat /\ s1 \in 1 .. Len(typed) + 1 /\ typed \in Lines
  BY <1>2, LineIsSeq DEF LineTypes
<1>4. LineTypes'
  BY <1>1, <1>2 DEF LineTypes
<1>5. s1 = Len(typed) + 1
  <2>1. ASSUME s1 <= Len(typed) PROVE FALSE
    <3>1. s1 \in s1 .. Len(typed)
      BY <1>3, <2>1
    <3>2. CharAt(s1) \in Letters \union {Separator}
      BY <1>2, <3>1, CharTyped
    <3> QED BY <1>1, <3>2, CommandLineAssumption DEF AtEnd
  <2> QED BY <1>3, <2>1
<1>6. j = Cardinality(Starts(typed))
  BY <1>2, <1>3, <1>5, WordsBeforeEnd DEF Scanned
<1>7. Dispatched
  <2>1. j \in 0 .. MaxTokens /\ tokens = [n \in Tokens |-> IF n < j THEN Word(typed, n) ELSE <<>>]
    BY <1>2 DEF LineTypes, Scanned
  <2> QED BY <1>3, <1>6, <2>1, TokensAreArguments DEF Dispatched
<1>8. Dispatched'
  BY <1>1, <1>7 DEF Dispatched
<1>9. Called'
  <2>1. calls' = <<>> /\ i' = 1 /\ num_cmds' \in Nat
    BY <1>1, <1>2 DEF Scanned
  <2>2. (LineTypes /\ calls = <<>> /\ i = 1 /\ num_cmds \in Nat => Called)'
    BY NoneCalled, PTL
  <2> QED BY <1>4, <2>1, <2>2
<1> QED BY <1>1, <1>4, <1>8, <1>9 DEF LineInv

(* Storing a token where the next belongs. *)
LEMMA StoreToken ==
  ASSUME NEW n \in Nat, n < MaxTokens, NEW line,
         tokens = [k \in Tokens |-> IF k < n THEN Word(line, k) ELSE <<>>]
  PROVE  [tokens EXCEPT ![n] = Word(line, n)] =
           [k \in Tokens |-> IF k < n + 1 THEN Word(line, k) ELSE <<>>]
<1>1. n \in Tokens
  BY CommandLineAssumption DEF Tokens
<1>2. ASSUME NEW k \in Tokens
      PROVE  [tokens EXCEPT ![n] = Word(line, n)][k] =
               IF k < n + 1 THEN Word(line, k) ELSE <<>>
  <2>1. k \in Nat
    BY CommandLineAssumption DEF Tokens
  <2>2. CASE k = n
    BY <1>1, <2>1, <2>2
  <2>3. CASE k # n
    <3>1. k < n + 1 <=> k < n
      BY <2>1, <2>3
    <3>2. [tokens EXCEPT ![n] = Word(line, n)][k] = tokens[k]
      BY <2>3
    <3> QED BY <3>1, <3>2
  <2> QED BY <2>2, <2>3
<1> QED BY <1>2

LEMMA TokenStep ==
  ASSUME LineInv, Token, num_cmds \in Nat
  PROVE  LineInv'
<1> DEFINE q == TokenEnd
<1>1. /\ pc = "strtok" /\ ~AtEnd
      /\ prevS1' = AfterToken(q)
      /\ command_line' = IF q > Len(command_line) THEN command_line
                         ELSE [command_line EXCEPT ![q] = NUL]
      /\ UNCHANGED <<num_cmds, cmds, typed, calls>>
  BY DEF Token, tableVars
<1>2. LineTypes /\ Scanned /\ CharAt(s1) # Separator
  BY <1>1 DEF LineInv
<1>3. /\ Len(typed) \in Nat /\ s1 \in 1 .. Len(typed) + 1 /\ typed \in Lines
      /\ Len(command_line) = Len(typed) /\ Len(typed) <= MaxLine
      /\ MaxLine \in Nat /\ MaxTokens \in Nat /\ j \in 0 .. MaxTokens
      /\ j = Place(s1, Starts(typed)) /\ calls = <<>>
      /\ tokens = [k \in Tokens |-> IF k < j THEN Word(typed, k) ELSE <<>>]
  BY <1>2, LineIsSeq, CommandLineAssumption DEF LineTypes, Scanned
<1>4. /\ q \in Nat /\ s1 < q /\ q <= Len(typed) + 1
      /\ q <= Len(typed) => typed[q] = Separator
      /\ SubSeq(command_line, s1, q - 1) \in Seq(Letters)
      /\ SubSeq(command_line, s1, q - 1) = Word(typed, j)
      /\ Place(q + 1, Starts(typed)) = j + 1
  BY <1>1, <1>2, TokenIsWord
<1> HIDE DEF q
<1>5. /\ command_line' \in Seq(Letters \union {Separator, NUL})
      /\ Len(command_line') = Len(typed)
      /\ \A p \in q + 1 .. Len(typed) : command_line'[p] = command_line[p]
  <2>1. command_line \in Seq(Letters \union {Separator, NUL})
    BY <1>2 DEF LineTypes
  <2>2. CASE q > Len(command_line)
    BY <1>1, <1>3, <2>1, <2>2
  <2>3. CASE ~(q > Len(command_line))
    <3>1. q \in 1 .. Len(command_line)
      BY <1>3, <1>4, <2>3
    <3>2. /\ command_line' \in Seq(Letters \union {Separator, NUL})
          /\ Len(command_line') = Len(command_line)
          /\ \A p \in 1 .. Len(command_line) :
               command_line'[p] = IF p = q THEN NUL ELSE command_line[p]
      <4>1. NUL \in Letters \union {Separator, NUL}
        OBVIOUS
      <4>2. command_line' = [command_line EXCEPT ![q] = NUL]
        BY <1>1, <2>3
      <4> QED BY <2>1, <3>1, <4>1, <4>2, ExceptSeq
    <3>3. \A p \in q + 1 .. Len(typed) : p \in 1 .. Len(command_line) /\ p # q
      BY <1>3, <1>4
    <3> QED BY <1>3, <3>2, <3>3
  <2> QED BY <2>2, <2>3
<1>6. prevS1' = (IF q > Len(typed) THEN 0 ELSE q + 1) /\ prevS1' \in 0 .. MaxLine + 1
  <2>1. prevS1' = IF q > Len(typed) THEN 0 ELSE q + 1
    BY <1>1, <1>3 DEF AfterToken
  <2> QED BY <1>3, <1>4, <2>1
<1>7. CASE j < MaxTokens
  <2>1. /\ tokens' = [tokens EXCEPT ![j] = SubSeq(command_line, s1, q - 1)]
        /\ j' = j + 1
        /\ IF prevS1' = 0 THEN Dispatch /\ UNCHANGED <<s1, found>>
                          ELSE StrtokFrom(prevS1') /\ UNCHANGED i
    BY <1>7 DEF Token, q
  <2>2. tokens' = [k \in Tokens |-> IF k < j + 1 THEN Word(typed, k) ELSE <<>>]
    <3>1. j \in Nat
      BY <1>3
    <3>2. tokens = [k \in Tokens |-> IF k < j THEN Word(typed, k) ELSE <<>>]
      BY <1>3
    <3>3. [tokens EXCEPT ![j] = Word(typed, j)] =
            [k \in Tokens |-> IF k < j + 1 THEN Word(typed, k) ELSE <<>>]
      BY ONLY <1>7, <3>1, <3>2, StoreToken
    <3>4. tokens' = [tokens EXCEPT ![j] = Word(typed, j)]
      BY <1>4, <2>1
    <3> QED BY <3>3, <3>4
  <2>3. tokens' \in [Tokens -> Seq(Letters)] /\ j' \in 0 .. MaxTokens
    <3>1. tokens' \in [Tokens -> Seq(Letters)]
      BY <1>2, <1>4, <2>1 DEF LineTypes
    <3> QED BY <1>3, <1>7, <2>1, <3>1
  <2>4. CASE q > Len(typed)
    <3>1. pc' = "dispatch" /\ i' = 1 /\ UNCHANGED <<s1, found>>
      BY <1>6, <2>1, <2>4 DEF Dispatch
    <3>2. LineTypes'
      <4>1. s1' \in 1 .. Len(command_line') + 1 /\ i' \in 1 .. num_cmds' + 1
        BY <1>1, <1>3, <1>5, <3>1
      <4> QED BY <1>1, <1>2, <1>5, <1>6, <2>3, <3>1, <4>1 DEF LineTypes
    <3>3. j' = Cardinality(Starts(typed))
      <4>1. q + 1 \in Nat /\ Len(typed) < q + 1
        BY <1>3, <1>4, <2>4
      <4> QED BY <1>3, <1>4, <2>1, <4>1, WordsBeforeEnd
    <3>4. Dispatched'
      <4>1. j' = Argc(typed) /\ tokens' = Argv(typed)
        BY <1>3, <2>1, <2>2, <2>3, <3>3, TokensAreArguments
      <4> QED BY <1>1, <4>1 DEF Dispatched
    <3>5. Called'
      <4>1. calls' = <<>> /\ num_cmds' \in Nat
        BY <1>1, <1>3
      <4>2. (LineTypes /\ calls = <<>> /\ i = 1 /\ num_cmds \in Nat => Called)'
        BY NoneCalled, PTL
      <4> QED BY <3>1, <3>2, <4>1, <4>2
    <3> QED BY <3>1, <3>2, <3>4, <3>5 DEF LineInv
  <2>5. CASE ~(q > Len(typed))
    <3>1. pc' = "strspn" /\ s1' = q + 1 /\ found' = FALSE /\ i' = i
      BY <1>4, <1>6, <2>1, <2>5 DEF StrtokFrom
    <3>2. LineTypes'
      <4>1. s1' \in 1 .. Len(command_line') + 1
        BY <1>3, <1>4, <1>5, <2>5, <3>1, SMTT(30)
      <4>2. i' \in 1 .. num_cmds' + 1
        BY <1>1, <1>2, <3>1 DEF LineTypes
      <4> QED BY <1>1, <1>2, <1>5, <1>6, <2>3, <3>1, <4>1, <4>2 DEF LineTypes
    <3>3. \A p \in s1' .. Len(typed) : command_line'[p] = typed[p]
      <4>1. ASSUME NEW p \in q + 1 .. Len(typed) PROVE command_line'[p] = typed[p]
        <5>1. p \in s1 .. Len(typed)
          BY <1>3, <1>4
        <5> QED BY <1>2, <1>5, <5>1 DEF Scanned
      <4> QED BY <3>1, <4>1
    <3>4. typed[s1' - 1] = Separator
      <4>1. s1' - 1 = q /\ q <= Len(typed)
        BY <1>3, <1>4, <2>5, <3>1
      <4> QED BY <1>4, <4>1
    <3>5. Scanned'
      BY <1>1, <1>3, <1>4, <2>1, <2>2, <3>1, <3>3, <3>4 DEF Scanned
    <3> QED BY <3>1, <3>2, <3>5 DEF LineInv
  <2> QED BY <2>4, <2>5
<1>8. CASE ~(j < MaxTokens)
  <2>1. pc' = "dispatch" /\ i' = 1 /\ UNCHANGED <<tokens, j, s1, found>>
    BY <1>8 DEF Token, Dispatch
  <2>2. LineTypes'
    <3>1. s1' \in 1 .. Len(command_line') + 1 /\ i' \in 1 .. num_cmds' + 1
      BY <1>1, <1>3, <1>5, <2>1
    <3> QED BY <1>1, <1>2, <1>5, <1>6, <2>1, <3>1 DEF LineTypes
  <2>3. j = MaxTokens /\ j < Cardinality(Starts(typed))
    <3>1. Cardinality(Starts(typed)) \in Nat /\ Place(q + 1, Starts(typed)) <= Cardinality(Starts(typed))
      <4>1. Starts(typed) \subseteq Nat /\ IsFiniteSet(Starts(typed)) /\ q + 1 \in Nat
        BY <1>3, <1>4, StartsOfLine
      <4> QED BY <4>1, PlaceAtMost
    <3> QED BY <1>3, <1>4, <1>8, <3>1
  <2>4. Dispatched'
    <3>1. j = Argc(typed) /\ tokens = Argv(typed)
      BY <1>3, <2>3, TokensAreArguments
    <3> QED BY <1>1, <2>1, <3>1 DEF Dispatched
  <2>5. Called'
    <3>1. calls' = <<>> /\ num_cmds' \in Nat
      BY <1>1, <1>3
    <3>2. (LineTypes /\ calls = <<>> /\ i = 1 /\ num_cmds \in Nat => Called)'
      BY NoneCalled, PTL
    <3> QED BY <2>1, <2>2, <3>1, <3>2
  <2> QED BY <2>1, <2>2, <2>4, <2>5 DEF LineInv
<1> QED BY <1>7, <1>8

LEMMA TryCommandStep ==
  ASSUME LineInv, TryCommand, num_cmds \in Nat
  PROVE  LineInv'
<1>1. /\ pc = "dispatch" /\ pc' = "dispatch" /\ i <= num_cmds /\ i' = i + 1
      /\ calls' = IF tokens[0] = cmds[i].name THEN Append(calls, Call(i)) ELSE calls
      /\ UNCHANGED <<num_cmds, cmds, command_line, prevS1, s1, found, tokens, j, typed>>
  BY DEF TryCommand, tableVars, Call
<1>2. LineTypes /\ Dispatched /\ Called
  BY <1>1 DEF LineInv
<1>3. i \in 1 .. num_cmds /\ i' \in 1 .. num_cmds + 1 /\ i \in Nat
  BY <1>1, <1>2 DEF LineTypes
<1>4. LineTypes'
  BY <1>1, <1>2, <1>3 DEF LineTypes
<1>5. Dispatched'
  BY <1>1, <1>2 DEF Dispatched
<1>6. Named \subseteq Nat /\ Named' = Named /\ \A n : Call(n)' = Call(n)
  BY <1>1 DEF Named, Call
<1>7. /\ Place(i + 1, Named) = IF i \in Named THEN Place(i, Named) + 1 ELSE Place(i, Named)
      /\ Place(i, Named) \in Nat
  <2>1. \A n \in Named : n < i + 1 => n <= i
    BY <1>3, <1>6
  <2>2. i + 1 \in Nat /\ i < i + 1
    BY <1>3
  <2> QED BY <1>3, <1>6, <2>1, <2>2, PlaceNext, PlaceFinite
<1>8. /\ calls \in Seq(CallsOfTable) /\ Len(calls) = Place(i, Named)
      /\ \A n \in Named : n < i => calls[Place(n, Named) + 1] = Call(n)
  BY <1>2 DEF Called
<1>9. CASE i \in Named
  <2>1. calls' = Append(calls, Call(i)) /\ Call(i) \in CallsOfTable
    BY <1>1, <1>3, <1>9 DEF Named, CallsOfTable
  <2>2. /\ calls' \in Seq(CallsOfTable) /\ Len(calls') = Len(calls) + 1
        /\ calls'[Len(calls) + 1] = Call(i)
        /\ \A n \in 1 .. Len(calls) : calls'[n] = calls[n]
    <3> HIDE DEF Call, CallsOfTable
    <3> QED BY <1>8, <2>1, AppendProperties
  <2>3. ASSUME NEW n \in Named, n < i + 1
        PROVE  calls'[Place(n, Named) + 1] = Call(n)
    <3>1. CASE n = i
      BY <1>8, <2>2, <3>1
    <3>2. CASE n # i
      <4>1. n \in Nat /\ n < i
        BY <1>3, <1>6, <2>3, <3>2
      <4>2. Place(n, Named) < Place(i, Named) /\ Place(n, Named) \in Nat
        BY <1>3, <1>6, <4>1, PlaceGrows, PlaceFinite
      <4>3. Place(n, Named) + 1 \in 1 .. Len(calls)
        BY <1>7, <1>8, <4>2
      <4> QED BY <1>8, <2>2, <4>1, <4>3
    <3> QED BY <3>1, <3>2
  <2>4. CallsOfTable' = CallsOfTable
    BY <1>1, <1>6 DEF CallsOfTable
  <2> QED BY <1>1, <1>4, <1>5, <1>6, <1>7, <1>8, <1>9, <2>2, <2>3, <2>4 DEF LineInv, Called
<1>10. CASE i \notin Named
  <2>1. calls' = calls
    BY <1>1, <1>3, <1>10 DEF Named
  <2>2. ASSUME NEW n \in Named, n < i + 1 PROVE n < i
    BY <1>3, <1>6, <1>10, <2>2
  <2>3. CallsOfTable' = CallsOfTable
    BY <1>1, <1>6 DEF CallsOfTable
  <2> QED BY <1>1, <1>4, <1>5, <1>6, <1>7, <1>8, <1>10, <2>1, <2>2, <2>3 DEF LineInv, Called
<1> QED BY <1>9, <1>10

LEMMA DoneStep ==
  ASSUME LineInv, Done, num_cmds \in Nat
  PROVE  LineInv'
<1>1. /\ pc = "dispatch" /\ pc' = "prompt" /\ i > num_cmds
      /\ UNCHANGED <<num_cmds, cmds, command_line, prevS1, s1, found, tokens, j, i, typed, calls>>
  BY DEF Done, tableVars
<1>2. LineTypes /\ Dispatched /\ Called
  BY <1>1 DEF LineInv
<1>3. i = num_cmds + 1
  BY <1>1, <1>2 DEF LineTypes
<1>4. LineTypes' /\ Dispatched' /\ Called' /\ i' = num_cmds' + 1
  BY <1>1, <1>2, <1>3 DEF LineTypes, Dispatched, Called, Named, CallsOfTable, Call
<1> QED BY <1>1, <1>4 DEF LineInv

LEMMA LineStep ==
  LineInv /\ RegisteredInv /\ RegisteredInv' /\ [CommandLineNext]_commandVars => LineInv'
<1> SUFFICES ASSUME LineInv, RegisteredInv, RegisteredInv', [CommandLineNext]_commandVars
             PROVE  LineInv'
  OBVIOUS
<1>1. num_cmds \in Nat /\ num_cmds' \in Nat
  BY DEF RegisteredInv, TableInv
<1>2. CASE Registers /\ UNCHANGED lineVars
  <2>1. /\ pc \in {"sections", "count", "register"}
        /\ pc' \in {"sections", "count", "register", "prompt"}
    BY <1>2 DEF Registers, NextSection, ReadSymbols, Count, MakeTable, Register, Registered
  <2>2. LineTypes /\ typed = <<>> /\ calls = <<>> /\ i = 1
    BY <2>1 DEF LineInv
  <2>3. i' \in 1 .. num_cmds' + 1
    <3>1. i' = 1
      BY <1>2, <2>2 DEF lineVars
    <3>2. \A n \in Nat : 1 \in 1 .. n + 1
      OBVIOUS
    <3> QED BY <1>1, <3>1, <3>2
  <2>4. LineTypes'
    BY <1>2, <2>1, <2>2, <2>3 DEF LineTypes, lineVars
  <2>5. typed' = <<>> /\ calls' = <<>> /\ i' = 1
    BY <1>2, <2>2 DEF lineVars
  <2> QED BY <2>1, <2>4, <2>5 DEF LineInv
<1>3. CASE \E line \in Lines : ReadLine(line)
  BY <1>1, <1>3, ReadLineStep
<1>4. CASE Loop
  BY <1>1, <1>4, StrspnStep, NoTokenStep, TokenStep, TryCommandStep, DoneStep DEF Loop
<1>5. CASE UNCHANGED commandVars
  <2>1. /\ UNCHANGED <<pc, num_cmds, cmds, command_line, prevS1, s1, found, tokens, j, i, typed, calls>>
    BY <1>5 DEF commandVars, registrationVars, tableVars, lineVars
  <2>2. LineTypes' /\ (Scanned' <=> Scanned) /\ (Dispatched' <=> Dispatched)
    BY <2>1 DEF LineInv, LineTypes, Scanned, Dispatched
  <2>3. (Called' <=> Called) /\ CharAt(s1)' = CharAt(s1)
    BY <2>1 DEF Called, Named, CallsOfTable, Call, CharAt
  <2> QED BY <2>1, <2>2, <2>3 DEF LineInv
<1> QED BY <1>2, <1>3, <1>4, <1>5 DEF CommandLineNext
-----------------------------------------------------------------------------
(* What the command line knows of the line at every step of strtok, of the *)
(* loop over the tokens and of the search of the table.                    *)
THEOREM LineIsCut == CommandLineSpec => []LineInv
<1>1. LineInv /\ RegisteredInv /\ RegisteredInv' /\ [CommandLineNext]_commandVars => LineInv'
  BY LineStep
<1> QED BY <1>1, LineInit, TableInvariant, PTL DEF CommandLineSpec

(* No position, counter or token leaves its range, for every line, table   *)
(* and number of tokens.                                                   *)
THEOREM CommandLineTypeCorrect == CommandLineSpec => []CommandLineTypeOK
<1>1. RegisteredInv /\ LineInv => CommandLineTypeOK
  <2> SUFFICES ASSUME RegisteredInv, LineInv PROVE CommandLineTypeOK
    OBVIOUS
  <2>1. cmds \in Seq(Range(Adds) \union Unwritten)
    <3>1. CASE pc \in {"sections", "count"}
      BY <3>1, EmptySeq DEF RegisteredInv, TableInv
    <3>2. CASE pc \notin {"sections", "count"}
      BY <3>2 DEF RegisteredInv, TableInv
    <3> QED BY <3>1, <3>2
  <2>2. /\ x \in 1 .. Len(sections) + 1 /\ z \in 1 .. num_syms + 1
        /\ num_cmds \in 0 .. num_syms /\ current_cmd \in 0 .. num_syms
    BY DEF RegisteredInv, SectionsInv, TableInv
  <2> QED BY <2>1, <2>2 DEF LineInv, LineTypes, CommandLineTypeOK
<1> QED BY <1>1, TableInvariant, LineIsCut, PTL

(* The commands called for a line are those its first word names, in the   *)
(* order of the table, with the words of the line as arguments, for every  *)
(* line, table and number of tokens.                                       *)
THEOREM CommandsRunAsTyped == CommandLineSpec => []RunsWhatWasTyped
<1>1. RegisteredInv /\ LineInv => RunsWhatWasTyped
  <2> SUFFICES ASSUME RegisteredInv, LineInv, pc = "prompt", num_cmds <= current_cmd
               PROVE  LET named == {n \in 1 .. num_cmds :
                                     Starts(typed) # {} /\ cmds[n].name = Word(typed, 0)}
                      IN /\ Len(calls) = Cardinality(named)
                         /\ \A n \in named :
                              calls[Place(n, named) + 1] =
                                [entry |-> cmds[n].entry_addr, argc |-> Argc(typed),
                                 argv |-> Argv(typed)]
    BY DEF RunsWhatWasTyped
  <2> DEFINE named == {n \in 1 .. num_cmds : Starts(typed) # {} /\ cmds[n].name = Word(typed, 0)}
  <2>1. CASE typed = <<>> /\ calls = <<>>
    <3>1. named = {} /\ Len(calls) = 0
      BY <2>1, EmptyLine
    <3> QED BY <3>1, FS_EmptySet
  <2>2. CASE Dispatched /\ Called /\ i = num_cmds + 1
    <3>1. num_cmds \in Nat /\ typed \in Lines /\ 0 \in Tokens /\ MaxTokens \in Nat \ {0}
      BY CommandLineAssumption DEF RegisteredInv, TableInv, LineInv, LineTypes, Tokens
    <3>2. Cardinality(Starts(typed)) \in Nat /\ (Cardinality(Starts(typed)) = 0 <=> Starts(typed) = {})
      BY <3>1, StartsOfLine, FS_CardinalityType, FS_EmptySet
    <3>3. named = Named
      <4>1. CASE Starts(typed) # {}
        <5>1. 0 < Argc(typed)
          BY <3>1, <3>2, <4>1 DEF Argc
        <5>2. tokens[0] = Word(typed, 0)
          BY <2>2, <3>1, <5>1 DEF Dispatched, Argv
        <5> QED BY <4>1, <5>2 DEF Named
      <4>2. CASE Starts(typed) = {}
        <5>1. ~(0 < Argc(typed))
          BY <3>1, <3>2, <4>2 DEF Argc
        <5>2. tokens[0] = <<>>
          BY <2>2, <3>1, <5>1 DEF Dispatched, Argv
        <5>3. ASSUME NEW n \in 1 .. num_cmds PROVE cmds[n].name # <<>>
          <6>1. n <= current_cmd
            BY <3>1 DEF RegisteredInv, TableInv
          <6>2. cmds[n] \in Range(Adds)
            BY <6>1 DEF RegisteredInv, TableInv
          <6> QED BY <6>2, CommandLineAssumption DEF Range
        <5> QED BY <4>2, <5>2, <5>3 DEF Named
      <4> QED BY <4>1, <4>2
    <3>4. Len(calls) = Cardinality(Named)
      <4>1. \A n \in Named : n < num_cmds + 1
        BY <3>1 DEF Named
      <4>2. Place(num_cmds + 1, Named) = Cardinality(Named)
        BY <3>1, <4>1, PlaceAbove
      <4> QED BY <2>2, <4>2 DEF Called
    <3>5. ASSUME NEW n \in Named
          PROVE  calls[Place(n, Named) + 1] =
                   [entry |-> cmds[n].entry_addr, argc |-> Argc(typed), argv |-> Argv(typed)]
      <4>1. n < i
        BY <2>2, <3>1 DEF Named
      <4> QED BY <2>2, <4>1 DEF Called, Call, Dispatched
    <3> QED BY <3>3, <3>4, <3>5
  <2> QED BY <2>1, <2>2 DEF LineInv
<1> QED BY <1>1, TableInvariant, LineIsCut, PTL
=============================================================================
