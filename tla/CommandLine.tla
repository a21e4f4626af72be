---------------------------- MODULE CommandLine -----------------------------
(***************************************************************************)
(* The command line (run_command_line of c/command_line.c) with the        *)
(* strtok, strspn and strcspn it is built on (libc/string.c): a line is    *)
(* cut into tokens and every command of that name is called with them.     *)
(*                                                                         *)
(* A line is a sequence of letters and separators, without its final 0; a  *)
(* position past its end is the 0.  The table is the one Registration      *)
(* leaves.                                                                 *)
(***************************************************************************)
EXTENDS Registration, SequencesExt

CONSTANTS
  Letters,
  Separator,  \* ' ' and ','
  NUL,        \* the 0 strtok writes
  MaxTokens,  \* tokens of a line: 20
  MaxLine     \* bound: characters of a line

ASSUME CommandLineAssumption ==
  /\ Separator \notin Letters /\ NUL \notin Letters /\ NUL # Separator
  /\ \A f \in DOMAIN Adds : Adds[f].name \in Seq(Letters) \ {<<>>}
  /\ MaxTokens \in Nat \ {0} /\ MaxLine \in Nat

VARIABLES
  command_line, \* the line, with the 0s strtok writes in it
  prevS1,       \* strtok's static variable; 0 is NULL
  s1,           \* strtok's position in the line
  found,        \* strspn's local
  tokens,       \* the strings in the token buffers
  j,            \* how many tokens the line has
  i,            \* the next entry of the table
  typed,        \* history: the line as typed
  calls         \* history: the entries called for it, with their arguments

lineVars == <<command_line, prevS1, s1, found, tokens, j, i, typed, calls>>
commandVars == <<registrationVars, lineVars>>

Tokens == 0 .. MaxTokens - 1
Lines == SeqOf(Letters \union {Separator}, MaxLine)

CommandLineInit ==
  /\ RegistrationInit
  /\ command_line = <<>> /\ prevS1 = 0 /\ s1 = 1 /\ found = FALSE
  /\ tokens = [k \in Tokens |-> <<>>]
  /\ j = 0 /\ i = 1
  /\ typed = <<>> /\ calls = <<>>
-----------------------------------------------------------------------------
Cleared_FirstOnly == [tokens EXCEPT ![0] = <<>>]

(* The token buffers when a line is asked for. *)
Cleared == [k \in Tokens |-> <<>>]

(* strtok starts to look for a token at a position. *)
StrtokFrom(position) ==
  /\ s1' = position
  /\ found' = FALSE
  /\ pc' = "strspn"

(* get_string returns a line. *)
ReadLine(line) ==
  /\ pc = "prompt"
  /\ typed' = line
  /\ command_line' = line
  /\ tokens' = Cleared
  /\ j' = 0
  /\ calls' = <<>>
  /\ StrtokFrom(1)
  /\ UNCHANGED <<tableVars, prevS1, i>>

(* The character at a position; the 0 past the end. *)
CharAt(p) == IF p > Len(command_line) THEN NUL ELSE command_line[p]

AtEnd == CharAt(s1) = NUL
AtSeparator == CharAt(s1) = Separator

SpanEnds_OnceFound(match) == match \/ found

SpanEnds(match) == ~match /\ ~found

(* An iteration of strspn's outer loop: a separator is skipped, and once   *)
(* one has been the loop goes on for ever.                                 *)
Strspn ==
  /\ pc = "strspn"
  /\ s1' = IF AtSeparator THEN s1 + 1 ELSE s1
  /\ found' = (found \/ AtSeparator)
  /\ pc' = IF SpanEnds(AtSeparator) THEN "strtok" ELSE "strspn"
  /\ UNCHANGED <<tableVars, command_line, prevS1, tokens, j, i, typed, calls>>

(* strcspn: the end of the token that starts at s1. *)
TokenEnd ==
  CHOOSE q \in s1 .. Len(command_line) + 1 :
    /\ CharAt(q) \in {Separator, NUL}
    /\ \A p \in s1 .. q - 1 : CharAt(p) \in Letters

Dispatch ==
  /\ pc' = "dispatch"
  /\ i' = 1

(* strtok returns NULL. *)
NoToken ==
  /\ pc = "strtok" /\ AtEnd
  /\ Dispatch
  /\ UNCHANGED <<tableVars, command_line, prevS1, s1, found, tokens, j, typed, calls>>

AfterToken_PastTheEnd(q) == q + 1

(* Where the next token is looked for; 0 at the end of the line. *)
AfterToken(q) == IF q > Len(command_line) THEN 0 ELSE q + 1

(* strtok returns a token.  It is stored while there is room, and the next *)
(* is looked for; the line is dispatched when there is none, or no room.   *)
Token ==
  /\ pc = "strtok" /\ ~AtEnd
  /\ prevS1' = AfterToken(TokenEnd)
  /\ command_line' = IF TokenEnd > Len(command_line) THEN command_line
                     ELSE [command_line EXCEPT ![TokenEnd] = NUL]
  /\ IF j < MaxTokens
       THEN /\ tokens' = [tokens EXCEPT ![j] = SubSeq(command_line, s1, TokenEnd - 1)]
            /\ j' = j + 1
            /\ IF prevS1' = 0 THEN Dispatch /\ UNCHANGED <<s1, found>>
                              ELSE StrtokFrom(prevS1') /\ UNCHANGED i
       ELSE Dispatch /\ UNCHANGED <<tokens, j, s1, found>>
  /\ UNCHANGED <<tableVars, typed, calls>>

(* The next entry of the table is called if the first token is its name.   *)
TryCommand ==
  /\ pc = "dispatch" /\ i <= num_cmds
  /\ calls' = IF tokens[0] = cmds[i].name
                THEN Append(calls, [entry |-> cmds[i].entry_addr, argc |-> j, argv |-> tokens])
                ELSE calls
  /\ i' = i + 1
  /\ UNCHANGED <<tableVars, pc, command_line, prevS1, s1, found, tokens, j, typed>>

Done ==
  /\ pc = "dispatch" /\ i > num_cmds
  /\ pc' = "prompt"
  /\ UNCHANGED <<tableVars, command_line, prevS1, s1, found, tokens, j, i, typed, calls>>

Loop == Strspn \/ NoToken \/ Token \/ TryCommand \/ Done

CommandLineNext ==
  \/ Registers /\ UNCHANGED lineVars
  \/ \E line \in Lines : ReadLine(line)
  \/ Loop

(* The one thread runs on; only the user may keep it waiting. *)
CommandLineSpec ==
  /\ CommandLineInit /\ [][CommandLineNext]_commandVars
  /\ WF_commandVars(Registers /\ UNCHANGED lineVars) /\ WF_commandVars(Loop)
-----------------------------------------------------------------------------
CommandLineTypeOK ==
  /\ pc \in {"sections", "count", "register", "prompt", "strspn", "strtok", "dispatch"}
  /\ x \in 1 .. Len(sections) + 1 /\ z \in 1 .. num_syms + 1
  /\ num_cmds \in 0 .. num_syms /\ current_cmd \in 0 .. num_syms
  /\ cmds \in Seq(Range(Adds) \union Unwritten)
  /\ command_line \in Seq(Letters \union {Separator, NUL})
  /\ s1 \in 1 .. Len(command_line) + 1
  /\ prevS1 \in 0 .. MaxLine + 1
  /\ found \in BOOLEAN
  /\ tokens \in [Tokens -> Seq(Letters)]
  /\ j \in 0 .. MaxTokens /\ i \in 1 .. num_cmds + 1

(* The words of a line, by what a word is: letters between separators. *)
Bounds(line) ==
  {b \in (1 .. Len(line)) \X (1 .. Len(line)) :
     /\ b[1] <= b[2]
     /\ \A k \in b[1] .. b[2] : line[k] \in Letters
     /\ b[1] = 1 \/ line[b[1] - 1] = Separator
     /\ b[2] = Len(line) \/ line[b[2] + 1] = Separator}
Starts(line) == {b[1] : b \in Bounds(line)}

(* The word of a line that has k words before it. *)
Word(line, k) ==
  LET b == CHOOSE b \in Bounds(line) : Place(b[1], Starts(line)) = k
  IN SubSeq(line, b[1], b[2])

(* What a command called for a line is passed: the words of the line, as   *)
(* many as there are tokens for, and empty strings after them.             *)
Argc(line) ==
  LET words == Cardinality(Starts(line)) IN IF words < MaxTokens THEN words ELSE MaxTokens
Argv(line) == [k \in Tokens |-> IF k < Argc(line) THEN Word(line, k) ELSE <<>>]

(* A line with a separator where strspn finds one. *)
HasGap(line) ==
  \E k \in 1 .. Len(line) : line[k] = Separator /\ (k = 1 \/ line[k - 1] = Separator)

(* When the prompt is back, the commands called are those named by the     *)
(* first word, each once and in the order of the table, with the words of  *)
(* the line as arguments, as many as there are tokens for, and empty       *)
(* strings after them, whatever the lines before held; a line without a    *)
(* word calls nothing, if the table has no entry left unwritten.           *)
RunsWhatWasTyped ==
  pc = "prompt" /\ num_cmds <= current_cmd =>
    LET named == {n \in 1 .. num_cmds :
                    Starts(typed) # {} /\ cmds[n].name = Word(typed, 0)}
    IN /\ Len(calls) = Cardinality(named)
       /\ \A n \in named :
            calls[Place(n, named) + 1] =
              [entry |-> cmds[n].entry_addr, argc |-> Argc(typed), argv |-> Argv(typed)]

(* A command called with fewer words than there are tokens finds NULL      *)
(* after the last, if the table has no entry left unwritten: cmd_peek.c:16 *)
(* prints "Usage: peek <hex address> <lines> <debug>" if argv[1] == NULL.  *)
(* The code does not keep to it, since every token is a buffer.            *)
MissingWordIsNull ==
  num_cmds <= current_cmd =>
    \A n \in DOMAIN calls :
      calls[n].argc < MaxTokens => calls[n].argv[calls[n].argc] = NULL

(* The prompt comes back, unless a line starts with a separator or has two *)
(* together: then strspn does not return.                                  *)
PromptReturns == pc = "strspn" /\ ~HasGap(typed) ~> pc = "prompt"
=============================================================================
