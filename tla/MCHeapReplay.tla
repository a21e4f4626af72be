---------------------------- MODULE MCHeapReplay ----------------------------
(***************************************************************************)
(* The kernel's own start-up on the heap, with the real page sizes: every  *)
(* allocation from mem_tests to the prompt of run_command_line, in order.  *)
(* serial_out.txt is the log of such a start, and prints the addresses     *)
(* mem_tests received and every call of get_free_page.                     *)
(***************************************************************************)
EXTENDS Liballoc, Sequences

VARIABLES at,      \* the next entry of StartUp
          results  \* the pointers the calls of malloc have returned

malloc(n) == [op |-> "malloc", n |-> n]
free(k) == [op |-> "free", n |-> k]

num_syms == 350  \* about as many as build/symbols.txt lists
num_cmds == 2    \* peek and q

StartUp ==
  <<malloc(1), malloc(2 * 1024), malloc(4 * 4096), malloc(1), malloc(1),
    free(5), malloc(262144),                        \* mem_tests
    malloc(8 * num_syms),                           \* initalize_symbol_table
    malloc(256), malloc(260 * num_cmds)>>           \* initalize_command_line
  \o [n \in 1 .. 21 |-> malloc(255)]                \* run_command_line

(* mem_a .. mem_f as logged, above the base of the heap. *)
Logged == <<64, 128, 2240, 18672, 18736, 18736>>

ReplayInit == HeapInit /\ at = 1 /\ results = <<>>

Start ==
  /\ call.pc = "idle" /\ at <= Len(StartUp)
  /\ at' = at + 1
  /\ UNCHANGED results
  /\ \/ StartUp[at].op = "malloc" /\ CallMalloc(StartUp[at].n)
     \/ /\ StartUp[at].op = "free"
        /\ \E h \in Live : Pointer(h) = results[StartUp[at].n] /\ CallFree(h)

Run ==
  /\ CallStep
  /\ results' = IF \E h \in DOMAIN minors' : h \notin Live /\ minors'[h].magic = "MAGIC"
                THEN LET h == CHOOSE x \in DOMAIN minors' :
                                x \notin Live /\ minors'[x].magic = "MAGIC"
                     IN  Append(results, h + MINOR + minors'[h].info)
                ELSE results
  /\ UNCHANGED at

ReplayNext == (Boot /\ UNCHANGED <<at, results>>) \/ Start \/ Run

ReplaySpec == ReplayInit /\ [][ReplayNext]_<<vars, at, results>>

(* The addresses malloc hands to mem_tests are those of serial_out.txt: in *)
(* particular mem_f is where the freed mem_e was.  And from boot to the    *)
(* prompt the heap needs one region of l_pageCount pages, as the log shows *)
(* a single liballoc_alloc.                                                *)
LogReproduced ==
  /\ \A i \in DOMAIN results \cap DOMAIN Logged :
       results[i] = HeapBasePage * PageSize + Logged[i]
  /\ \A r \in regions : r.pages = l_pageCount /\ regions = {r}
=============================================================================
