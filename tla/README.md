# VersionTwo: specifications, checks and proofs

VersionTwo is a small 32-bit x86 kernel: one thread in ring 0, 4 MiB pages, the
liballoc heap, a text screen, a polled keyboard fed by one interrupt handler, and
a command line.  This directory holds TLA+ models of its parts, TLC
configurations that check them on small instances, and TLAPS proofs.

## 1. Inventory

One thread runs `kernel_main` from start to `run_command_line`, which never
returns.  Interrupt handlers run on the same stack with interrupts disabled.
Nothing is persistent; there is no network and no second processor.

| component | source | state | operations | modelled by |
|---|---|---|---|---|
| page allocator | c/memory.c | `page_directory`, `current_page`, `real_mem_base`, `mem_current`, `allocator_has_run`, `malloc_lock` | `initalize_memory`, `get_free_page`, `liballoc_alloc`, `liballoc_free` | Paging, PagingProofs |
| heap | c/liballoc.c | list of majors, lists of minors, `l_memRoot`, `l_bestBet`, counters | `kmalloc`, `kfree`, `krealloc`, `kcalloc` | Liballoc, HeapSpec, LiballocProofs |
| terminal | c/term.c | VGA cells, cursor, `is_debug_output` | `term_put_char`, `term_clear_last_char`, `set_debug_output` | Terminal, TerminalProofs |
| keyboard | c/keyboard.c | `current_scancode`, `is_shift` | `initalize_keyboard`, interrupt handler, `get_scancode`, `get_character` | Keyboard |
| line input | libc/stdio.c | locals of `get_string` | `get_string` (`getchar`, `scanf` are dead code) | LineInput, LineInputProofs |
| interrupts | c/interrupts.c, asm/interruptsasm.asm | the controllers, IF, IDT | start, default handler, acknowledgement, exceptions | Interrupts, InterruptsProofs |
| debug log | c/serial.c, include/base.h, libc/stdio.c | `default_port`, `is_debug_output` | `debug_f`, `debug_f2`, `serial_write_port`, the handlers of faults | KernelLog, KernelLogProofs |
| symbol table | c/elf.c | `sym_table`, `string_table`, `ksym` | `initalize_symbol_table` | Registration, CommandLineProofs |
| command line | c/command_line.c, commands/ | `cmds`, `num_cmds`, `current_cmd`, tokens | registration, tokens, dispatch | Registration, CommandLine, CommandLineProofs |
| string functions | libc/string.c | strtok's position | `strtok`, `strspn`, `strcspn` | CommandLine, CommandLineProofs |
| formatted output | libc/stdio.c | locals of `tfp_format` and `ui2a` | `printf`; `hex2int` and `atoi` read back | Printing, NumbersProofs |
| 64-bit division | c/base.c | locals of `__udivmoddi4` | `/` and `%` on `long long` | Division, NumbersProofs |
| user mode, GDT, TSS | c/memory.c | descriptor tables | one jump, never called | not modelled |
| boot, multiboot | asm/boot.asm, c/multiboot.c, c/kernel.c | | fixed sequence | not modelled |
| formatted input, mathematics | libc/vsscanf.c, libc/math.c | none | no live caller | not modelled |
| Duktape | duktape/ | | not built | not modelled |

How they interact.  `kmalloc` calls `liballoc_alloc` for regions and
`liballoc_free` to return them (Liballoc EXTENDS Paging).  The keyboard
interrupt writes one variable that `get_string` polls; `get_string` echoes on the
terminal (LineInput EXTENDS Keyboard and Terminal).  `debug_f` prints through the
terminal's own `term_put_char`, with a flag that sends characters to the serial
port, and so do the handlers that may interrupt it (KernelLog EXTENDS Terminal).
The interrupt stubs call one default handler, which calls the keyboard's and
acknowledges the controllers.  The table filled at the start from the kernel's
own ELF sections is the one the command line searches (CommandLine EXTENDS
Registration).

What is hard: the order of any number of heap calls; memory running out at each
place a call can ask for more; the two-statement `get_scancode` under
interrupts; two edits of one line, in memory and on the screen; a fault in the
middle of a routine that switches the output; acknowledgement of two cascaded
controllers; two loops that must agree although neither initialises its index;
shifts and multiplications that must not leave a word.  PROJECT.json lists the
hazards at their lines.

## 2. Modules

**Paging** (c/memory.c).  Addresses are numbers of 4 MiB pages, entries keep
present, user and frame.  `initalize_memory`, `Allocate` (liballoc_alloc at
liballoc's call site) and `Release` are the actions.  The code has no limit on
`current_page`; neither has the model: past `NumPages` a write leaves the
directory alone (it lands in another variable, which is not modelled) and
addresses wrap as 32-bit shifts do.  `regions` and `released` are history.

**HeapSpec**.  What callers may rely on: a set of blocks handed out, and `request`,
the call in progress with its arguments.  A call is made (`Call`) and then answered:
malloc with NULL or a fresh block of the size in the request; free takes away the
block whose pointer is in the request and no other, or none if no live block has that
pointer; realloc shortens that block, or asks malloc and then gives it up.  A step
that dropped or moved another block would be none of these.  `Stop` is the end of the
kernel, after which nothing is promised.

**Liballoc** (c/liballoc.c) EXTENDS Paging.  Headers are records in two functions
from addresses, `majors` and `minors`; pointers between them are addresses, NULL
is 0.  `call` is the record of kmalloc's locals and its program point.  Each case
of the search (CASE 1 to 5 of the source) is an action or two, and a step of the
search is a step of the model.  `CallMalloc`, `CallFree` and `CallRealloc` record a call and its
arguments; kfree and krealloc's in-place part are then one step each,
since nothing runs between their statements; krealloc's kmalloc runs through the
same steps, and `CopyAndFree` is what follows it; `CopyFits` looks there: a new block
that is not the old one, with room for all that is copied.  A request is placed
byte by byte as in the code, with the alignment
(16) and the header sizes (24) of the 32-bit build.

Callers pass the pointer of any header that is in memory, freed ones included, or one
that malloc never returned (`Foreign`).  `BadPointer` is what the code does with one
that leads to no magic number: it returns, or reads an unmapped
page and hangs in the page fault handler (`halted`).  After a kmalloc that returned
NULL krealloc copies to address 0, where the user program's page is, and the frame of
that page is also the heap's second (`user_frame_shared`): `CopyGoesAstray` compares the
places byte by byte, and a copy over a header, or off the page, ends the model
(`stray`).  `Request` maps `call` to HeapSpec's `request`.

**MCHeapReplay** runs the start-up calls (`mem_tests`, the command line's) with
the real sizes and compares the pointers with src/serial_out.txt.

**Terminal** (c/term.c).  Cells by row and column, `text` is history: the rows
printed.  `TextWith` and `TextWithoutLast` say what the text becomes, the code's
arithmetic says what the cells become, and `ScreenShowsText` relates the two.

**KernelLog** (libc/stdio.c, include/base.h, c/serial.c, the handlers of
c/interrupts.c and asm/interruptsasm.asm) EXTENDS Terminal.  A routine that prints
is a sequence of steps (`Debug`, `Port`, `Put`, `Spin`, `Iret`) on a stack
`routines`: `debug_f` turns the flag on, prints and turns it off, `debug_f2`
changes the port around it, and a handler is one more routine on top.  `Faults`
may push an exception's or a page fault's between any two steps, of another
handler too.  The stub of the page fault leaves the error code on the stack, so
`ReturnFromFault` never goes back to what was interrupted: that, and the endless
loop of the others, is why the missing nesting does no harm, and
`GoesWhereMeant` fails with a return that works.  What lies at port 0, the
default before `initalize_serial`, is external: ready always or never.

**Keyboard** (c/keyboard.c) and **LineInput** (libc/stdio.c).  Interrupts are on
before `initalize_keyboard` runs, which is an action: a key pressed before is
forgotten.  `ReadScancode` and
`TakeScancode` are the two statements of get_scancode; `Type` and `LetGo`, the
interrupt, may come between any two steps.  An iteration of get_string after
get_scancode is one step: the only variable it shares with the handler,
`is_shift`, is read once in it.  `ideal` is history: the line a perfect editor
would hold; `paced` says that the typist waited for each key to be dealt with.

**Interrupts** (c/interrupts.c).  The two 8259A controllers and the processor's
IF are external and modelled from how the code programs them: fully nested, non-
specific end of interrupt.  `Remap`, `Sti`, `SoftwareInt` are the start;
`Accept`, `Handle` an interrupt; `Exception` the endless loop of the handler.
The firmware's mask, saved and restored by remap_pic, is any set.

**Registration** (c/elf.c, c/command_line.c).  `NextSection` is an iteration over
the sections the boot loader lists, `Count` and `Register` one of the loops over
the symbols.  Both loops start from an index nobody sets, so `StartLoop` is any
start; `starts` is history.  A table is made with room for what was counted and
`add_command` does not look at the room.  A name is `SetupName` or `OtherName`:
the fourteen characters compared are all that counts.

**CommandLine** (c/command_line.c, libc/string.c).  A line is a sequence of
letters and separators; `Strspn` is an iteration of strspn's outer loop, `Token`
and `NoToken` the rest of strtok with the statements that store a token,
`TryCommand` an entry of the table.  strtok writes its 0s into `command_line` and
keeps `prevS1`, as in the code; `Words` says independently what the words of a
line are.  `typed` and `calls` are history.  strtok is called by nothing else.
It EXTENDS Registration: its table is the one registration has left.

**Division** (c/base.c).  An iteration of either loop of `__udivmoddi4` is a step
(`Justify`, `Subtract`), on words of `LongBits` bits; what is shifted or added out
of a word is cut.  `__divmoddi4` is the magnitudes before and the sign after.
`Bit[k]` is 2^k: **Powers** defines powers as a recursive function, since the
built-in ^ means nothing to the prover.

**Printing** (libc/stdio.c).  `tfp_format` a character or a conversion a step,
`Grow` and `PutDigit` the iterations of ui2a's loops on an int of `IntBits` bits,
`putchw` the padding.  Characters of formats are strings of length one, what is
printed are codes.  `hex2int` and `atoi` are operators: `ReadsBack` applies them to
what has been printed.  A format has one conversion at most (`FormatsAssumption`), since
nothing but the position in the format passes from one to the next.  The other
assumptions are that the codes are ASCII's, as far as the arithmetic on
characters uses them, and that `bf` has room for the digits of the largest int,
for those of the most negative one with its sign, and for the final 0: 12 is
exactly what 32 bits need.

**Numbers** puts the two side by side: one call after another, by the one thread.

**MC\*** modules instantiate them for TLC.  Operators named `<definition>_<How>`
beside a definition are plausible bugs of it; each property of a passing run is
violated when one of them takes the definition's place.

## 3. Runs

| run | shows |
|---|---|
| paging | nothing is handed out twice or unmapped while the directory lasts, frames are distinct, mappings never change |
| heap | lists in order and consistent with the best bet in them, blocks inside their majors and apart, usage adds up, realloc copies into room enough, memory grows only when no major has room, every call ends, callers see HeapSpec, though they may pass stale and foreign pointers too, pages are used as Paging says |
| heap_startup | real sizes give the pointers of the boot log and take one region |
| terminal | printing, logging, erasing and faults together: the screen is a window on the text, what is logged never shows on it and each log stays on its port, flag and port are restored between calls, a fault is reported, and all of it is TerminalSpec |
| line_input | keys once and in order, shift never sticks, a paced line is exact, the echo is the line, Enter ends it, the line fits |
| interrupts | all but input 8 is acknowledged on both controllers, by its own handler; the keyboard is always served; the slave too until input 8 has interrupted |
| command_line | the table is neither overrun nor left unwritten if both loops start alike, and from the first symbol on it holds the commands of the symbols whose names, in the first string table, are those of setup functions; the commands called are those the first word names, in the table's order, with the line's words as arguments and nothing of earlier lines; the prompt comes back, unless a line starts with a separator or has two together |
| numbers | quotient and remainder are exact for every pair of operands, printf prints every int it is given in the field asked for, hex2int and atoi read it back, every loop ends and no number outgrows its buffer |
| heap_page_not_mapped | finding: no failure is ever reported at the end of the directory, though the comment promises NULL |
| user_frame_shared | finding: the second heap page has the frame of the user program's page |
| best_bet_stale | finding: `l_bestBet` is not the major with the most free memory |
| peek_without_address | finding: a command called without arguments has an empty string where peek tests for NULL |

The four findings contradict comments and code quoted in PROJECT.json.  `RegionsBacked`,
`FramesDistinct` and `RegionsDisjoint` hold with the directory not yet exhausted
(`InDirectory`) or the user page set aside; the findings are what lies beyond.

Behaviours that no text of the repository contradicts are written into
properties as exceptions:

- `NothingLeftInService` and `AcknowledgesItsOwn` except the real-time clock
  (input 8, vector 0x28, and the code tests `> 0x28`); `SlaveIsServed` ends there.
- `EchoIsLine` ends where the line leaves the row of its prompt, since
  term_clear_last_char never erases over a row's start.
- `PromptReturns` excepts lines where strspn meets a separator: `found` is never
  reset, so its loop does not end and the kernel hangs.
- `TableHoldsSetups` excepts loops that start at different symbols: if the second
  starts earlier it overruns the table, if later it leaves entries unset.  Its
  contents are said for files with one symbol table, and names are those of the first
  string table, as the code takes them: when another table comes before the symbols'
  own, the commands registered are not those of the kernel's setup functions.
- `CopyFits` excepts a kmalloc that returned NULL, which krealloc does not look at,
  and HeapSpec has a reallocation give up its block even then: its caller gets NULL
  and no longer has the block.
- liballoc_free does nothing, so no property has memory come back to the page
  allocator, although its comment says that it frees (memory.c:260).
- `TakenInOrder` allows a key to be lost, between the statements of get_scancode or
  under a later one in the mailbox, and `PacedLineIsExact` supposes a typist who
  waits for each key to be dealt with; `EnterEndsLine` begins with an Enter read.
- `FaultIsReported` begins with initalize_serial; before it, the wait for port 0
  may not end.
- `DivisionIsExact` states the remainder by a negative divisor with the sign the
  code gives it, and leaves out the one quotient that is no int64_t.
- `PrintsValue` states that padding comes before a minus sign, even padding with
  zeros, and reads back upper case only: hex2int takes a lower case digit for 32
  more than it is.

### Bounds

- paging: 16 directory entries, 10 of them the heap's; `MaxPage` (19) lies past
  the end, so the end and what follows are reached.  `MaxChunk` (5) is more than
  two kernel pages of two liballoc pages.
- heap: a liballoc page of 96 bytes (a multiple of 16 that holds one small block
  or a few), 4 pages of directory left for it, requests of 1 and 150 bytes: one
  fits in any gap, the other needs a major of its own or the whole of one.  With
  these, all cases of the search, growth at each of its places, failure at each
  of them and the loss of a major in the middle of the list occur.  Of the pointers freed
  callers keep one, and pass it, or one that malloc never returned, as often as they
  like.
  `RequestsAssumption`: the region of a request has at most `MaxChunk` pages, fewer
  than a kernel page has (768 in the code).  `WithinBounds` leaves out a request
  that would move `current_page` past `MaxPage`, and `RunsOverEnd` one whose region
  straddles the end of the address space, where headers would be written through
  unmapped pages.
- heap_startup: the real page size, 0x40000, in a directory of 16 entries, since one
  region is all the run takes; one run of calls, in order.
- terminal: 3 rows, 3 columns, `MaxRows` 4 rows of text: the screen scrolls, a
  middle row is copied, and a row is ended by a newline or by its last cell.
  `MaxFaults` (2): a fault in the handler of another.  A message is one
  character: what a fault can come between are the steps around it.
- line_input: a line of at most 4 characters on a screen of 4 columns, so that it
  fills, and goes over the end of a row; `MaxKeys` (5) presses: four letters and
  one more, or letters, shift and erasures; `MaxRows` bounds the calls.
- interrupts: clock, keyboard, real-time clock, another input of the slave, and
  input 14, whose vector is that of int 0x2E; `MaxRaises` (4) requests.  It also
  stands for the rate of the clock: without a bound the clock, the highest
  priority, could starve everyone, which at 100 Hz it does not.
- command_line: two tokens (`MaxTokens`, 20 in the code) and lines of up to five
  characters (`MaxLine`), so that a line can have one word too many; three setup
  functions, two of one name, behind a symbol without a name; the sections in the order the
  linker writes them and with another string table first; loops from any symbol.
- numbers: a long long of 5 bits and an int of 8, every value of each: any bit of
  a word may be the first of a divisor, and 8 bits are two digits in base 16 and
  three, with a sign, in base 10.  `BufferSize` (5) holds, as the code's 12 does,
  the longest number, its sign and the final 0.  Fifteen formats, the kernel's
  kinds and malformed ones.

### Fairness

`CallStep` (heap), `KernelStep` (line input), `Loop` (command line), `RoutineStep`
(terminal), `NumbersStep` (numbers) and `Boot`, `Handle`, `Accept` (interrupts) are
weakly fair: the one thread runs on when it can, handlers are finite, and the
processor takes an interrupt that is offered when IF is set.  That handlers are finite
has one exception, which Interrupts leaves out: the handler of int 0x30 calls debug_f
if eax happens to hold 0x8844, and before `initalize_serial` debug_f may wait for port 0
for ever.  KernelLog has it; `KeyboardIsServed` and `SlaveIsServed` suppose it away.  A serial port that
`ready` holds takes a character sooner or later.  Nothing is assumed of callers,
typists, devices or faults.

## 4. Proofs

**PagingProofs.**  For every layout `PagingAssumption` admits, the real one among
them, and every bound: type correctness, FramesDistinct, RegionsBacked,
RegionsDisjoint, MappingIsStable, and that the next page is ready (which no run
checks).  The properties are not
inductive; `PagingInv` says exactly what the directory holds (initalize_paging's
entries, then consecutive frames from `HeapBasePage`), that `mem_current` is
`current_page - 1`, and that regions lie below it and apart.  The heart is
`CoversBounds`: a region of n >= 2 liballoc pages extends over at most n - 1
kernel pages, because a kernel page holds at least two liballoc pages.  This is
why the first call may map one page fewer than it was asked for.

**LiballocProofs.** For every layout, size of page and set of requests that the
assumptions of Paging and Liballoc admit, and any number of calls: the six
invariants of the heap run, `GrowsOnlyWhenFull`, and both refinements. `HeapInv`
is an invariant of every step, in the middle of a call too:

- the directory is as `PagingInv` says, and beyond its end addresses wrap round to
  pages that are not mapped (`WrapsToNothing`), so a new header is written to the
  region asked for or the kernel halts;
- every major is a region handed out and not returned (`MajorsPlaced`), every
  block is inside its major with the room it was given, apart from the others
  (`BlocksPlaced`);
- `next` and `prev` are the neighbours by address (`MajorsListed`,
  `BlocksListed`). Lists are compared with sets: `Above(S, a)` is the least
  element over a, and a handful of lemmas say what it becomes when S gains or
  loses one;
- only the last major can be without blocks, and only while a call is about to
  fill it (`EmptyIsFilled`);
- what the call in progress holds is what it has found (`CallInv`): its major is
  in the list, its block is in that major, and the block that krealloc replaces is
  still in use.

`CountsInv` is about sums over sets, which are the library's fold. That a sum
gains what is added and loses what is removed would be an induction over the size
of the set; the proof takes instead the least size at which it fails, of which
well-foundedness of the naturals makes a smaller one. `SearchInv` says that majors
passed by in a search from the first one have no room. A major is passed by when
its free bytes are too few, which is enough since a gap is never more than the
free bytes (`PackedFits`, `GapIsFree`), or when each of its gaps has been looked
at. Growth happens at the end of such a search, or with an empty list: hence
`GrowsOnlyWhenFull`, although the search begins at a best bet that may be stale.

`HeapUsesPaging` maps every step to one of PagingSpec or to none, so what is
proved of Paging holds of the heap. `HeapImplementsHeapSpec` maps the live blocks
to HeapSpec's set and the call to its request (`RequestIs`): making a call is the
abstract Call, the steps of the search are stutters, the one that writes a
block's header is the abstract Malloc, and the one that takes a header out is the
abstract Free. That one is right for stale pointers only because a freed header never
has the pointer of a block in use: `PointersInv`, which holds since the block that
comes to have it overwrites that header (`Overwritten`).

**TerminalProofs.**  For every size of screen of at least two columns and one
row: `TerminalTypeOK` and `ScreenShowsText` together are inductive, and
`BlankAfterCursor` follows.  One lemma says what a character does to the rows of
text; the main one compares, cell by cell, the buffer before a scroll with the
text that has the character in it, then splits on the three outcomes: within the
row, on to the next row, and a scroll, which moves the window by one row.

**KernelLogProofs.**  For every screen, and faults at any step and to any depth: the
three invariants of the log, and that it implements TerminalSpec
(`LogImplementsTerminal`), whence ScreenShowsText holds with logs and faults among
the characters (`LogKeepsScreen`).  `StackInv` says which of the few routines the top of
the stack is and how far it has got, with the flag and the port that this implies:
they decide where a character goes.  Of the routines below it keeps the form only: a
handler does change their flag, but one
that a fault has interrupted never runs again; this is where a page fault that
returned would break the proof.

**LineInputProofs.**  For every keyboard, screen and length of line, and an
interrupt between any two steps: all four invariants of the run.  `LineInv` has
four parts.  `KernelInv` holds the terminal's invariant, which carries over from
TerminalProofs by its lemmas on one character printed and one erased, and that
the row is empty when the prompt is printed; `RowIsLine` that the prompt's row is
the prompt and the line; `MailInv` that a key in the mailbox has not been taken,
unless get_scancode is about to clear it; `PacedInv` that a paced typist has one
key at most on its way, so that the ideal line is the line after that key.
`EchoIsLine` then follows from `RowIsLine` and `ScreenShowsText`.  The assumption
used of the keyboard is the tables': the shift keys have no character.

**InterruptsProofs.**  For every set of devices and every mask: types (handlers do
not nest), `NothingLeftInService` and `AcknowledgesItsOwn`.  `HandlerInv` says what
is in service while a vector is handled: its own bits, and perhaps the real-time
clock's, in which case it is no vector of the slave, because that bit keeps every
other input of the slave out.  `MinOfInputs` says that the controllers' choice
exists.

**CommandLineProofs.**  For every file of the kernel that has a string table, every
start of the two loops, every line and any number of tokens: all three invariants
of the run.  Of the registration, the counters are the numbers of setup functions
between the loops' starts and their indices (`CountInv`), so the table is not
overrun and is full if they start alike; `SectionsInv` says which tables have been
found among the sections walked so far, hence whose names the symbols get: those in
the file's first string table; `TableInv` that each command is where its turn has put it.
Of a line, `LineInv` says that what lies before strtok's position is in the
tokens, word by word, that what lies after it is as typed, and that the entries
before `i` have been called if they have the name.  `TokenIsWord` is the heart: what strcspn
ends is a word of the line, and the next one, by the definition of words that
knows nothing of strtok.  The properties order words, entries and symbols by how many come before
(`Place`), which can be reasoned about by counting, where filtering a sequence would
take an induction.

**NumbersProofs.**  For every width of words and of ints, every format of one
conversion and every `BufferSize` that has room (`PrintingAssumption`): both
invariants of the composition's parts, and its types.

Division (`DivisionInv`): while the first loop runs, divisor and `qbit` have been
shifted by the same count; while the second runs, the quotient's multiple of the
divisor and the rest make the dividend, and the rest is less than twice the
shifted divisor.

printf (`PrintingInv`): a call is before its conversion, at it, or past it.  While
`d` grows it is a power of the base, and 1 or no greater than the number; when the
loop ends the number is less than `d` times the base, so `d * base` has not
overflowed (`Growing`).  While digits are written (`Partly`), those in `bf` spell a
q with number = q * (base * d) + left and left < base * d: hence the next digit is
less than the base, the first one written is not 0 unless it is the only one, `n`
plus the digits to come fit in `bf`, and when `d` is 0 what `bf` spells is the number
(`Written`).  `SpaceForDigits` is why eleven digits never come: the weight of a
number's first digit is at most the number, and powers grow.  Past the conversion
`out` is the padded field and what the format has after it (`FieldPrinted`).
`FieldIsRight` then compares that field with the property: its worth by
definition, and what hex2int and atoi make of it.

Both rest on recursive functions (the powers, the library's folds), and induction
in the library takes an operator as a parameter.  The module has an induction of
its own over sets of numbers, from the least element of a set, which
well-foundedness of the naturals gives; with it `PowersOf`, `FoldExists` and
`FoldIs` show that powers and folds have the values their equations say.  That
digits spell a number is stated by a sequence of values, one after each digit
(`Spelling`), which a digit more extends; each reader's fold is then shown to go
through the same values.

Model-checked only:

- every liveness property (`CallReturns`, `FaultIsReported`, `EnterEndsLine`,
  `KeyboardIsServed`, `SlaveIsServed`, `PromptReturns`, `CallEnds`): the prover
  does not deal with ENABLED, so not with fairness;
- `LogReproduced`, one run of calls at the real sizes: a fact about that run, not
  an invariant that holds for others.

## 5. Not modelled

- Duktape, an engine taken from elsewhere: 101,000 of the 107,000 lines of the
  repository, its build commented out of the Makefile, called by nothing.  The
  rest is some 6,000 lines, many of them headers and tables.
- Dead code: getchar, scanf and vsscanf, vsnprintf, printfcomma, mask_irq and
  unmask_irq, the GUI branches of the terminal, the mathematics, strstr, strncat,
  strrchr, memmove; the jump to user mode, whose call is commented out.
- Boot, the GDT and TSS, programming of the serial ports: fixed sequences of writes
  to the processor and to ports; where their order matters it is in the other
  modules' first actions.
- Payloads of blocks, so the bytes krealloc copies and kcalloc clears; what a
  write past `page_directory` overwrites; the amount of RAM (the allocator does
  not know it); the allocator's warning and overrun counters; colours; spurious
  interrupts; the twenty-first token pointer, written past an array of twenty and
  never read; the length of a token's buffer (255 bytes, though a word of 255
  characters is followed by a 0 at index 256: outside the block when alignment took
  all of its 15 bytes); memory that is no header and happens to hold liballoc's magic
  number; what the heap does once krealloc has copied over its headers;
  liballoc_lock, which does nothing: no handler allocates.

## 6. Plan

1. LineInput in place of the prompt of CommandLine, and the keyboard behind the
   controllers of Interrupts, if the state space allows.
2. Formats of several conversions in Printing: PrintingInv would carry the fields
   already printed.
