------------------------------ MODULE Liballoc ------------------------------
(***************************************************************************)
(* The kernel heap (c/liballoc.c) on top of the page allocator: majors,    *)
(* each one region obtained from liballoc_alloc, hold minors, each one     *)
(* block handed to a caller.  Both are doubly linked lists of headers      *)
(* stored in the memory they manage, so an address is a number of bytes    *)
(* and a header occupies some.                                             *)
(*                                                                         *)
(* A caller makes a call; kmalloc then runs as the steps of its loops, one *)
(* action per case of the source, kfree and krealloc's own parts in one    *)
(* step each.  The kernel has one thread and no interrupt handler          *)
(* allocates, so only one call is in progress.                             *)
(***************************************************************************)
EXTENDS Paging, FiniteSetsExt

CONSTANTS
  l_pageSize,  \* bytes in a liballoc page: 0x40000
  Requests     \* the sizes callers ask for

ASSUME LiballocAssumption ==
  /\ l_pageSize \in Nat /\ 0 < l_pageSize
  /\ Requests \subseteq Nat

VARIABLES
  majors,       \* address -> header, for every major in the list
  minors,       \* address -> header, for the minors in use and a freed one
  l_memRoot,    \* the first major, or NULL
  l_bestBet,    \* the major malloc tries first, or NULL
  l_allocated,  \* running total of allocated memory
  l_inuse,      \* running total of used memory
  call          \* the call in progress

heapVars == <<majors, minors, l_memRoot, l_bestBet, l_allocated, l_inuse, call>>
vars == <<pagingVars, heapVars>>

ALIGNMENT == 16
ALIGN_INFO == 16
MAJOR == 24  \* sizeof( struct liballoc_major )
MINOR == 24  \* sizeof( struct liballoc_minor )

PageSize == PageUnits * l_pageSize

Live == {h \in DOMAIN minors : minors[h].magic = "MAGIC"}
Dead == {h \in DOMAIN minors : minors[h].magic = "DEAD"}

(* The call in progress and where it stands: idle; free and realloc, at    *)
(* their entries; start, at malloc's; major, at the top of its outer loop; *)
(* minor, at the top of the inner one; full, at CASE 5; copy, back in      *)
(* realloc; halted, after a page fault, whose handler cannot return;       *)
(* stray, after a copy over the heap's own headers.  The pointer free and  *)
(* realloc are given is the one that came with the header old.  new is,    *)
(* once malloc is back in realloc, the header of the block the old one     *)
(* moves to, or NULL.  The rest are malloc's argument and locals.          *)
Idle == [pc |-> "idle", req_size |-> 0, maj |-> NULL, min |-> NULL,
         startedBet |-> FALSE, bestSize |-> 0, old |-> NULL, new |-> NULL]

Hung == [Idle EXCEPT !.pc = "halted"]

(* old of a call that is given a pointer malloc never returned. *)
Foreign == NULL

HeapInit ==
  /\ PagingInit
  /\ majors = <<>> /\ minors = <<>>
  /\ l_memRoot = NULL /\ l_bestBet = NULL
  /\ l_allocated = 0 /\ l_inuse = 0
  /\ call = Idle
-----------------------------------------------------------------------------
(* Sizes and addresses. *)

(* malloc: the size it works with for a request. *)
SizeOf(req) == req + ALIGNMENT + ALIGN_INFO

Need_NoHeader(req) == SizeOf(req)

(* The room a request takes in a major. *)
Need(req) == SizeOf(req) + MINOR

AlignInfo_AlwaysPads(p) == ALIGN_INFO + (ALIGNMENT - (p % ALIGNMENT))

(* ALIGN: the distance from the end of a header to the pointer returned,   *)
(* which is also the byte ALIGN leaves 16 bytes below that pointer.        *)
AlignInfo(p) == ALIGN_INFO + ((ALIGNMENT - (p % ALIGNMENT)) % ALIGNMENT)

Pointer(h) == h + MINOR + minors[h].info

PagesFor_NoMinimum(req) ==
  (SizeOf(req) + MAJOR + MINOR + l_pageSize - 1) \div l_pageSize

(* allocate_new_page: the liballoc pages it asks for. *)
PagesFor(req) ==
  LET st == (SizeOf(req) + MAJOR + MINOR + l_pageSize - 1) \div l_pageSize
  IN  IF st < l_pageCount THEN l_pageCount ELSE st

(* Bounds: the region a request needs is within Paging's bound, and maps   *)
(* fewer pages than lie below the kernel (768 of them, 3 GiB).             *)
ASSUME RequestsAssumption ==
  /\ \A req \in Requests : PagesFor(req) <= MaxChunk
  /\ MaxChunk < KernelPage

FreeBytes(m) == majors[m].size - majors[m].usage
EndOf(m) == m + majors[m].size
EndOfMinor(h) == h + MINOR + minors[h].size

(* The gaps CASE 3, 4.1 and 4.2 look at. *)
FrontGap(m) == majors[m].first - m - MAJOR
GapAfter(m, h) ==
  (IF minors[h].next = NULL THEN EndOf(m) ELSE minors[h].next) - EndOfMinor(h)
-----------------------------------------------------------------------------
(* allocate_new_page.  Its three outcomes: liballoc_alloc returns NULL;    *)
(* writing the header faults, because the region is not mapped; or the     *)
(* header is written.                                                      *)
NewAddress == mem_current * PageSize
OutOfMemory == mem_current = NULL
Unmapped == mem_current # NULL /\ ~page_directory[mem_current].present

NewMajor(req) == [prev |-> NULL, next |-> NULL, pages |-> PagesFor(req),
                  size |-> PagesFor(req) * l_pageSize, usage |-> MAJOR,
                  first |-> NULL]

allocate_new_page(req) ==
  /\ ~OutOfMemory /\ ~Unmapped
  /\ liballoc_alloc(PagesFor(req))
  /\ l_allocated' = l_allocated + PagesFor(req) * l_pageSize

(* maj->next = allocate_new_page( size ); maj->next->prev = maj; *)
Linked(m, req) ==
  [a \in DOMAIN majors \cup {NewAddress} |->
     CASE a = NewAddress -> [NewMajor(req) EXCEPT !.prev = m]
       [] a = m          -> [majors[m] EXCEPT !.next = NewAddress]
       [] OTHER          -> majors[a]]

(* malloc hands its result, the block with header h or NULL, to its        *)
(* caller: the kernel, or realloc.                                         *)
Return(h) == call' = IF call.old = NULL THEN Idle
                     ELSE [Idle EXCEPT !.pc = "copy", !.old = call.old, !.new = h]

(* No page, no header: malloc returns NULL, or the kernel hangs in the     *)
(* handler of the page fault.                                              *)
GrowthFails ==
  /\ liballoc_alloc(PagesFor(call.req_size))
  /\ \/ OutOfMemory /\ Return(NULL)
     \/ Unmapped /\ call' = Hung
  /\ UNCHANGED <<majors, minors, l_memRoot, l_allocated, l_inuse>>
-----------------------------------------------------------------------------
(* The end of every successful CASE: a minor for the request at address a  *)
(* of major m of majs, between the minors p and n (or NULL).  What is left *)
(* of dead headers there is overwritten.                                   *)
Overwritten(h, a, req) == h < a + Need(req) /\ a < h + MINOR + minors[h].info

Place(majs, m, a, p, n, nPrev) ==
  LET req == call.req_size
      new == [prev |-> p, next |-> n, block |-> m, magic |-> "MAGIC",
              size |-> SizeOf(req), req_size |-> req, info |-> AlignInfo(a + MINOR)]
      kept == {h \in DOMAIN minors : h \in Live \/ ~Overwritten(h, a, req)} \ {a}
  IN  /\ minors' = [h \in kept \cup {a} |->
                      CASE h = a -> new
                        [] h = p -> [minors[h] EXCEPT !.next = a]
                        [] h = n -> [minors[h] EXCEPT !.prev = nPrev]
                        [] OTHER -> minors[h]]
      /\ majors' = [majs EXCEPT ![m].usage = @ + Need(req),
                                ![m].first = IF p = NULL THEN a ELSE @]
      /\ l_inuse' = l_inuse + SizeOf(req)
      /\ Return(a)

PlaceBetween_KeepsPrev(m, a, p, n) ==
  Place(majors, m, a, p, n, IF n = NULL THEN NULL ELSE minors[n].prev)

(* The same, in a major of the list. *)
PlaceBetween(m, a, p, n) == Place(majors, m, a, p, n, a)
-----------------------------------------------------------------------------
(* kmalloc. *)

(* Bounds: a request is not made when the region it might need would run   *)
(* over the end of the address space (NullWhenNotAllocated of Paging says  *)
(* what happens then), nor when it would move current_page past MaxPage.   *)
RunsOverEnd(req) ==
  \E p \in Covers([base |-> mem_current, pages |-> PagesFor(req)]) : p >= NumPages

WithinBounds(req) == current_page + PagesMapped(PagesFor(req)) <= MaxPage

(* The kernel, once it has booted, makes a call. *)
Begin(c) ==
  /\ call.pc = "idle" /\ ~malloc_lock
  /\ call' = c
  /\ UNCHANGED <<pagingVars, majors, minors, l_memRoot, l_bestBet, l_allocated,
                 l_inuse>>

CallMalloc(req) ==
  /\ ~RunsOverEnd(req) /\ WithinBounds(req)
  /\ Begin([Idle EXCEPT !.pc = "start", !.req_size = req])

(* "This is the first time we are being used." *)
FirstUse ==
  /\ call.pc = "start" /\ l_memRoot = NULL
  /\ \/ GrowthFails
     \/ /\ allocate_new_page(call.req_size)
        /\ majors' = [a \in {NewAddress} |-> NewMajor(call.req_size)]
        /\ l_memRoot' = NewAddress
        /\ UNCHANGED <<minors, l_inuse, call>>
  /\ UNCHANGED l_bestBet

(* "Start at the best bet....", if it has room to spare. *)
StartSearch ==
  /\ call.pc = "start" /\ l_memRoot # NULL
  /\ LET best == IF l_bestBet = NULL THEN 0 ELSE FreeBytes(l_bestBet)
         bet == l_bestBet # NULL /\ best > Need(call.req_size)
     IN  call' = [call EXCEPT !.pc = "major", !.startedBet = bet,
                              !.maj = IF bet THEN l_bestBet ELSE l_memRoot,
                              !.bestSize = best]
  /\ UNCHANGED <<pagingVars, majors, minors, l_memRoot, l_bestBet, l_allocated,
                 l_inuse>>

(* The top of the outer loop: "Hmm.. this one has more memory then our     *)
(* bestBet. Remember!"                                                     *)
Roomier == call.bestSize < FreeBytes(call.maj)
NoteBestBet == l_bestBet' = IF Roomier THEN call.maj ELSE l_bestBet
BestSize == IF Roomier THEN FreeBytes(call.maj) ELSE call.bestSize

(* CASE 1: not enough space in this major: hop to the next, or start over  *)
(* from the root, or add a major and put the block into it (CASE 2).       *)
Short == FreeBytes(call.maj) < Need(call.req_size)

MayRestart_Never == FALSE

(* At the end of the list, the majors before the best bet are still to be  *)
(* tried.                                                                  *)
MayRestart == call.startedBet

Restarted_StillBetting == [call EXCEPT !.pc = "major", !.maj = l_memRoot]

Restarted == [call EXCEPT !.pc = "major", !.maj = l_memRoot, !.startedBet = FALSE]

Case1Move ==
  /\ call.pc = "major" /\ Short
  /\ \/ /\ majors[call.maj].next # NULL
        /\ call' = [call EXCEPT !.maj = majors[call.maj].next, !.bestSize = BestSize]
     \/ /\ majors[call.maj].next = NULL /\ MayRestart
        /\ call' = [Restarted EXCEPT !.bestSize = BestSize]
  /\ NoteBestBet
  /\ UNCHANGED <<pagingVars, majors, minors, l_memRoot, l_allocated, l_inuse>>

Case1Grow ==
  /\ call.pc = "major" /\ Short
  /\ majors[call.maj].next = NULL /\ ~MayRestart
  /\ \/ GrowthFails
     \/ /\ allocate_new_page(call.req_size)
        /\ Place(Linked(call.maj, call.req_size), NewAddress, NewAddress + MAJOR,
                 NULL, NULL, NULL)
        /\ UNCHANGED l_memRoot
  /\ NoteBestBet

(* CASE 2: "It's a brand new block." *)
Case2 ==
  /\ call.pc = "major" /\ ~Short /\ majors[call.maj].first = NULL
  /\ PlaceBetween(call.maj, call.maj + MAJOR, NULL, NULL)
  /\ NoteBestBet
  /\ UNCHANGED <<pagingVars, l_memRoot, l_allocated>>

InUse == call.pc = "major" /\ ~Short /\ majors[call.maj].first # NULL

(* CASE 3: "enough space at the start of the block." *)
Case3 ==
  /\ InUse /\ FrontGap(call.maj) >= Need(call.req_size)
  /\ PlaceBetween(call.maj, call.maj + MAJOR, NULL, majors[call.maj].first)
  /\ NoteBestBet
  /\ UNCHANGED <<pagingVars, l_memRoot, l_allocated>>

(* CASE 4: "enough space in this block. But is it contiguous?" *)
Case4Enter ==
  /\ InUse /\ FrontGap(call.maj) < Need(call.req_size)
  /\ NoteBestBet
  /\ call' = [call EXCEPT !.pc = "minor", !.min = majors[call.maj].first,
                          !.bestSize = BestSize]
  /\ UNCHANGED <<pagingVars, majors, minors, l_memRoot, l_allocated, l_inuse>>

(* CASE 4.1, after the last minor, and 4.2, between two. *)
Case4Fit ==
  /\ call.pc = "minor" /\ GapAfter(call.maj, call.min) >= Need(call.req_size)
  /\ PlaceBetween(call.maj, EndOfMinor(call.min), call.min, minors[call.min].next)
  /\ UNCHANGED <<pagingVars, l_memRoot, l_bestBet, l_allocated>>

Case4Next ==
  /\ call.pc = "minor" /\ GapAfter(call.maj, call.min) < Need(call.req_size)
  /\ call' = [call EXCEPT !.pc = IF minors[call.min].next = NULL THEN "full" ELSE "minor",
                          !.min = minors[call.min].next]
  /\ UNCHANGED <<pagingVars, majors, minors, l_memRoot, l_bestBet, l_allocated,
                 l_inuse>>

(* CASE 5: "Block full! Ensure next block and loop." *)
Case5Move ==
  /\ call.pc = "full"
  /\ \/ /\ majors[call.maj].next # NULL
        /\ call' = [call EXCEPT !.pc = "major", !.maj = majors[call.maj].next]
     \/ /\ majors[call.maj].next = NULL /\ MayRestart
        /\ call' = Restarted
  /\ UNCHANGED <<pagingVars, majors, minors, l_memRoot, l_bestBet, l_allocated,
                 l_inuse>>

Case5Grow ==
  /\ call.pc = "full" /\ majors[call.maj].next = NULL /\ ~MayRestart
  /\ \/ GrowthFails
     \/ /\ allocate_new_page(call.req_size)
        /\ majors' = Linked(call.maj, call.req_size)
        /\ call' = [call EXCEPT !.pc = "major", !.maj = NewAddress]
        /\ UNCHANGED <<minors, l_memRoot, l_inuse>>
  /\ UNCHANGED l_bestBet
-----------------------------------------------------------------------------
(* kfree. *)

(* UNALIGN, then one header back: the minor that the pointer of h leads to.*)
HeaderOf(h) ==
  (IF minors[h].info < ALIGNMENT + ALIGN_INFO THEN Pointer(h) - minors[h].info
   ELSE Pointer(h)) - MINOR

LeadsToBlock_IgnoresMagic(h) == h # Foreign

(* The pointer leads to the magic of a block in use. *)
LeadsToBlock(h) == h # Foreign /\ HeaderOf(h) \in Live

(* It does not.  "being lied to...": the call ends, and changes nothing    *)
(* but statistics; or, there being memory that is not mapped, the pointer  *)
(* leads there and reading the magic faults.                               *)
BadPointer(h) ==
  /\ ~LeadsToBlock(h)
  /\ \/ call' = Idle
     \/ /\ h = Foreign /\ \E p \in Pages : ~page_directory[p].present
        /\ call' = Hung
  /\ UNCHANGED <<pagingVars, majors, minors, l_memRoot, l_bestBet, l_allocated, l_inuse>>

(* The minors once h is out of the list.  Of a dead header only the magic  *)
(* and ALIGN's byte are read again; and, bound, callers keep one stale     *)
(* pointer, to the block freed last.                                       *)
Unlinked(h) ==
  [x \in Live |->
     CASE x = h              -> [minors[x] EXCEPT !.magic = "DEAD", !.prev = NULL,
                                                  !.next = NULL, !.size = 0, !.req_size = 0]
       [] x = minors[h].next -> [minors[x] EXCEPT !.prev = minors[h].prev]
       [] x = minors[h].prev -> [minors[x] EXCEPT !.next = minors[h].next]
       [] OTHER              -> minors[x]]

FirstAfter(h) == IF minors[h].prev = NULL THEN minors[h].next
                 ELSE majors[minors[h].block].first

(* The bytes of its major that h gives back. *)
Freed(h) == minors[h].size + MINOR

(* The major still has blocks, and may now be the best bet. *)
KeepMajor(h) ==
  LET m == minors[h].block
      usage == majors[m].usage - Freed(h)
      free(b) == majors[b].size - (IF b = m THEN usage ELSE majors[b].usage)
  IN  /\ majors' = [majors EXCEPT ![m].usage = usage, ![m].first = FirstAfter(h)]
      /\ minors' = Unlinked(h)
      /\ l_bestBet' = IF l_bestBet # NULL /\ free(m) > free(l_bestBet) THEN m
                      ELSE l_bestBet
      /\ UNCHANGED <<pagingVars, l_memRoot, l_allocated>>

BestBetAfterDrop(m) == IF l_bestBet = m THEN NULL ELSE l_bestBet

PrevAfterDrop_Stays(x, m) == majors[x].prev
PrevAfterDrop(x, m) == IF x = majors[m].next THEN majors[m].prev ELSE majors[x].prev

(* "Block completely unused."  Its region goes back to the page allocator, *)
(* and with it whatever headers are left in it.                            *)
DropMajor(h) ==
  LET m == minors[h].block
  IN  /\ l_memRoot' = IF l_memRoot = m THEN majors[m].next ELSE l_memRoot
      /\ l_bestBet' = BestBetAfterDrop(m)
      /\ majors' = [x \in DOMAIN majors \ {m} |->
                      [majors[x] EXCEPT
                         !.next = IF x = majors[m].prev THEN majors[m].next ELSE @,
                         !.prev = PrevAfterDrop(x, m)]]
      /\ minors' = [x \in {y \in DOMAIN minors : minors[y].block # m} |-> minors[x]]
      /\ l_allocated' = l_allocated - majors[m].size
      /\ liballoc_free([base |-> m \div PageSize, pages |-> majors[m].pages])

LastBlock(h) == FirstAfter(h) = NULL

FreeBlock(h) ==
  /\ IF LastBlock(h) THEN DropMajor(h) ELSE KeepMajor(h)
  /\ l_inuse' = l_inuse - minors[h].size

CallFree(h) ==
  Begin([Idle EXCEPT !.pc = "free", !.old = h])

kfree ==
  /\ call.pc = "free"
  /\ \/ LeadsToBlock(call.old) /\ FreeBlock(HeaderOf(call.old)) /\ call' = Idle
     \/ BadPointer(call.old)
-----------------------------------------------------------------------------
(* krealloc.  A size of 0 frees and a NULL pointer allocates; both are     *)
(* CallFree and CallMalloc.                                                *)

ShrinksInPlace_Reversed(h, req) == minors[h].req_size <= req
ShrinksInPlace(h, req) == minors[h].req_size >= req

(* Bounds: as for malloc, if it comes to that. *)
CallRealloc(h, req) ==
  /\ LeadsToBlock(h) =>
       ShrinksInPlace(HeaderOf(h), req) \/ (~RunsOverEnd(req) /\ WithinBounds(req))
  /\ Begin([Idle EXCEPT !.pc = "realloc", !.old = h, !.req_size = req])

krealloc ==
  /\ call.pc = "realloc"
  /\ LET g == HeaderOf(call.old) IN
     \/ /\ LeadsToBlock(call.old) /\ ShrinksInPlace(g, call.req_size)
        /\ minors' = [minors EXCEPT ![g].req_size = call.req_size]
        /\ call' = Idle
        /\ UNCHANGED <<pagingVars, majors, l_memRoot, l_bestBet, l_allocated,
                       l_inuse>>
     \/ /\ LeadsToBlock(call.old) /\ ~ShrinksInPlace(g, call.req_size)
        /\ call' = [call EXCEPT !.pc = "start"]
        /\ UNCHANGED <<pagingVars, majors, minors, l_memRoot, l_bestBet, l_allocated,
                       l_inuse>>
     \/ BadPointer(call.old)

(* The bytes malloc and free go by: every header that is left in memory,   *)
(* and the byte ALIGN leaves between it and its block.                     *)
HeaderBytes ==
  UNION ({m .. m + MAJOR - 1 : m \in DOMAIN majors}
         \cup {(h .. h + MINOR - 1) \cup {Pointer(h) - ALIGN_INFO} : h \in DOMAIN minors})

Mapped(x) == page_directory[x \div PageSize].present
SamePlace(x, y) ==
  /\ page_directory[x \div PageSize].frame = page_directory[y \div PageSize].frame
  /\ x % PageSize = y % PageSize

(* realloc does not look whether malloc returned NULL: the old contents    *)
(* then go to address 0 and up.  There the user page is mapped, to a frame *)
(* that is also the heap's second page.                                    *)
CopyGoesAstray ==
  /\ call.new = NULL
  /\ \E x \in 0 .. minors[call.old].req_size - 1 :
       ~Mapped(x) \/ \E y \in HeaderBytes : SamePlace(x, y)

CopyAndFree_FreesNew ==
  /\ call.pc = "copy"
  /\ FreeBlock(IF call.new = NULL THEN call.old ELSE call.new)
  /\ call' = Idle

(* After malloc: copy the old contents, whether or not there is a new      *)
(* block to copy them to, and free the old block.  A copy that runs off    *)
(* the mapped page, or over headers of the heap, is the end of the heap:   *)
(* what the callers' bytes make of it is followed no further.              *)
CopyAndFree ==
  /\ call.pc = "copy"
  /\ \/ ~CopyGoesAstray /\ FreeBlock(HeaderOf(call.old)) /\ call' = Idle
     \/ /\ CopyGoesAstray /\ call' = [Idle EXCEPT !.pc = "stray"]
        /\ UNCHANGED <<pagingVars, majors, minors, l_memRoot, l_bestBet, l_allocated,
                       l_inuse>>
-----------------------------------------------------------------------------
Boot == initalize_memory /\ UNCHANGED heapVars

(* The steps of the call in progress. *)
CallStep ==
  \/ FirstUse \/ StartSearch
  \/ Case1Move \/ Case1Grow \/ Case2 \/ Case3
  \/ Case4Enter \/ Case4Fit \/ Case4Next
  \/ Case5Move \/ Case5Grow
  \/ kfree \/ krealloc \/ CopyAndFree

HeapNext ==
  \/ Boot
  \/ \E req \in Requests : CallMalloc(req)
  \/ \E h \in DOMAIN minors \cup {Foreign} :
       CallFree(h) \/ \E req \in Requests \ {0} : CallRealloc(h, req)
  \/ CallStep

HeapSafety == HeapInit /\ [][HeapNext]_vars

(* The processor carries on with a call it has begun. *)
HeapSpec == HeapSafety /\ WF_vars(CallStep)
-----------------------------------------------------------------------------
(* The element of S next above, or next below, a; NULL when there is none. *)
Above(S, a) == IF \E x \in S : x > a
               THEN CHOOSE x \in S : x > a /\ \A y \in S : y > a => x <= y
               ELSE NULL
Below(S, a) == IF \E x \in S : x < a
               THEN CHOOSE x \in S : x < a /\ \A y \in S : y < a => y <= x
               ELSE NULL

MinorsOf(m) == {h \in Live : minors[h].block = m}

RegionOf(m) == [base |-> m \div PageSize, pages |-> majors[m].pages]

(* Every header field holds a value of its type, and malloc's locals point *)
(* at headers that are in the lists they walk.                             *)
LiballocTypeOK ==
  /\ \A m \in DOMAIN majors :
       majors[m] \in [prev : Nat, next : Nat, pages : Nat, size : Nat, usage : Nat,
                      first : Nat]
  /\ \A h \in DOMAIN minors :
       minors[h] \in [prev : Nat, next : Nat, block : Nat, magic : {"MAGIC", "DEAD"},
                      size : Nat, req_size : Nat,
                      info : ALIGN_INFO .. ALIGN_INFO + ALIGNMENT - 1]
  /\ l_allocated \in Nat /\ l_inuse \in Nat
  /\ call.pc \in {"idle", "free", "realloc", "start", "major", "minor", "full", "copy",
                  "halted", "stray"}
  /\ call.pc \in {"major", "minor", "full"} => call.maj \in DOMAIN majors
  /\ call.pc = "minor" => call.min \in MinorsOf(call.maj)
  /\ call.old # NULL =>
       call.old \in IF call.pc \in {"free", "realloc"} THEN DOMAIN minors ELSE Live

(* The majors are listed in the order of their addresses, both ways round, *)
(* from l_memRoot, and none is lost: freeing a major anywhere in the list  *)
(* and adding one at its end both keep it so.  l_bestBet points at one of  *)
(* them, never at a major that has been freed.                             *)
MajorsInOrder ==
  /\ l_memRoot = Above(DOMAIN majors, 0)
  /\ \A m \in DOMAIN majors : /\ majors[m].next = Above(DOMAIN majors, m)
                              /\ majors[m].prev = Below(DOMAIN majors, m)
  /\ l_bestBet # NULL => l_bestBet \in DOMAIN majors

(* So are the blocks of a major, whichever case of malloc placed them and  *)
(* in whatever order they were freed; freed headers are in no list.  A     *)
(* major without blocks exists only while malloc is about to fill it: CASE *)
(* 2 would otherwise put a block over whatever is there.                   *)
MinorsInOrder ==
  /\ \A h \in Live : minors[h].block \in DOMAIN majors
  /\ \A m \in DOMAIN majors :
       /\ majors[m].first = Above(MinorsOf(m), 0)
       /\ \A h \in MinorsOf(m) : /\ minors[h].next = Above(MinorsOf(m), h)
                                 /\ minors[h].prev = Below(MinorsOf(m), h)
       /\ majors[m].first = NULL =>
            call.pc \in {"start", "major"} /\ majors[m].next = NULL

(* The bytes of a block, header included, are inside its major and touch   *)
(* no other block; the caller's part is aligned, inside the block, and     *)
(* leads UNALIGN back to the header.  A major is memory the page allocator *)
(* gave out and has not been given back.                                   *)
BlocksApart ==
  /\ \A h \in Live :
       LET m == minors[h].block IN
       /\ m + MAJOR <= h /\ EndOfMinor(h) <= EndOf(m)
       /\ Pointer(h) % ALIGNMENT = 0
       /\ h + MINOR < Pointer(h) /\ Pointer(h) + minors[h].req_size <= EndOfMinor(h)
       /\ HeaderOf(h) = h
  /\ \A g, h \in Live : g < h => EndOfMinor(g) <= h
  /\ \A m \in DOMAIN majors : RegionOf(m) \in regions \ released

(* The counts malloc decides by: a major's usage is its header and its     *)
(* blocks with theirs, and the totals are those of the lists.              *)
UsageAdds ==
  /\ \A m \in DOMAIN majors :
       majors[m].usage =
         MAJOR + MapThenSumSet(LAMBDA h : MINOR + minors[h].size, MinorsOf(m))
  /\ l_inuse = MapThenSumSet(LAMBDA h : minors[h].size, Live)
  /\ l_allocated = MapThenSumSet(LAMBDA m : majors[m].size, DOMAIN majors)

(* malloc asks for more pages only when no gap of any major, before or     *)
(* after the best bet, would have held the block.                          *)
GrowsOnlyWhenFull ==
  [][current_page' # current_page =>
       \A m \in DOMAIN majors :
         /\ majors[m].first # NULL
         /\ FrontGap(m) < Need(call.req_size)
         /\ \A h \in MinorsOf(m) : GapAfter(m, h) < Need(call.req_size)]_vars

(* When realloc copies, the block that malloc gave it is in use, is not    *)
(* the old one, and has room for all the bytes of the old.  The exception  *)
(* is a malloc that returned NULL, for which see CopyGoesAstray.           *)
CopyFits ==
  call.pc = "copy" /\ call.new # NULL =>
    /\ call.new \in Live \ {call.old}
    /\ Pointer(call.new) + minors[call.old].req_size <= EndOfMinor(call.new)

(* Every call returns, unless it hangs in the page fault handler or copies *)
(* over the heap's headers: the search that starts at the best bet and may *)
(* start over does end.                                                    *)
CallReturns == call.pc # "idle" ~> call.pc \in {"idle", "halted", "stray"}

(* The call in progress, as its caller made it. *)
Request ==
  [op   |-> CASE call.pc = "idle"               -> "none"
              [] call.pc \in {"free", "copy"}    -> "free"
              [] call.pc = "realloc"            -> "realloc"
              [] call.pc \in {"halted", "stray"} -> "over"
              [] OTHER -> IF call.old = NULL THEN "malloc" ELSE "move",
   ptr  |-> IF call.old = NULL THEN 0 ELSE Pointer(call.old),
   size |-> call.req_size]

(* The heap keeps its promises to its callers: malloc returns fresh memory *)
(* of the size asked for, aligned; free takes away the block whose pointer *)
(* it was given and no other, and nothing for a stale or foreign pointer;  *)
(* realloc shortens, or moves and gives up, the block it was given and no  *)
(* other.                                                                  *)
Heap == INSTANCE HeapSpec WITH
          Sizes <- Requests, Alignment <- ALIGNMENT, request <- Request,
          blocks <- {[ptr |-> Pointer(h), len |-> minors[h].req_size] : h \in Live}
ImplementsHeapSpec == Heap!Spec

(* The heap calls liballoc_alloc and liballoc_free as Paging assumes: what *)
(* is proved of PagingSpec holds of the kernel's heap.                     *)
UsesPagingAsSpecified == PagingSpec

(* "The major with the most free memory." (liballoc.c:91) *)
BestBetIsRoomiest ==
  l_bestBet # NULL /\ call.pc = "idle" =>
    \A m \in DOMAIN majors : FreeBytes(m) <= FreeBytes(l_bestBet)
=============================================================================
