------------------------------- MODULE Paging -------------------------------
(***************************************************************************)
(* The page directory and the page allocator of the kernel (c/memory.c):   *)
(* initalize_memory, initalize_paging, get_free_page and the two hooks     *)
(* through which the heap obtains and returns pages, liballoc_alloc and    *)
(* liballoc_free.                                                          *)
(*                                                                         *)
(* A virtual address is the number of its 4 MiB page (address >> 22) and a *)
(* physical one the number of its 4 MiB frame; both are 32 bits wide, so   *)
(* they count modulo NumPages (2^32 / 2^22).  NULL is page 0.              *)
(***************************************************************************)
EXTENDS Integers

CONSTANTS
  NumPages,       \* entries of page_directory: 1024
  KernelPage,     \* kernel_memory_base >> 22: 768
  HeapBasePage,   \* 0xD0000000 >> 22, the load-time value of current_page: 832
  FirstFreeFrame, \* 0x00800000 >> 22, the load-time value of real_mem_base: 2
  UserFrame,      \* 0x00C00000 >> 22, the frame of the user program's page: 3
  PageUnits,      \* liballoc pages (0x40000) in one kernel page (0x400000): 16
  l_pageCount,    \* the fewest pages liballoc requests at once: 2
  MaxPage,        \* bound: no request is made that moves current_page past it
  MaxChunk        \* bound: the most liballoc pages of one request

(* The layout the code is compiled with, and as much of it as matters: the *)
(* kernel's two pages lie between the user page and the heap, and a        *)
(* liballoc page is at most half a kernel page.                            *)
ASSUME PagingAssumption ==
  /\ NumPages \in Nat /\ KernelPage \in Nat /\ HeapBasePage \in Nat
  /\ 0 < KernelPage /\ KernelPage + 1 < HeapBasePage /\ HeapBasePage < NumPages
  /\ FirstFreeFrame \in Nat /\ 2 <= FirstFreeFrame /\ FirstFreeFrame < HeapBasePage
  /\ UserFrame \in 0 .. NumPages - 1
  /\ PageUnits \in Nat /\ 2 <= PageUnits
  /\ l_pageCount \in Nat /\ 2 <= l_pageCount
  /\ MaxPage \in Nat /\ MaxChunk \in Nat

VARIABLES
  page_directory,    \* page_directory[p]: the entry of virtual page p
  current_page,      \* the next directory index get_free_page will fill
  real_mem_base,     \* the next frame get_free_page will hand out
  mem_current,       \* the page the next liballoc_alloc will return
  allocator_has_run, \* FALSE until the first liballoc_alloc
  malloc_lock,       \* TRUE until initalize_memory has run
  regions,           \* history: the regions liballoc_alloc has returned
  released           \* history: the regions passed to liballoc_free

pagingVars == <<page_directory, current_page, real_mem_base, mem_current,
                allocator_has_run, malloc_lock, regions, released>>

NULL == 0

Pages == 0 .. NumPages - 1
HeapPages == HeapBasePage .. NumPages - 1

(* A directory entry, without the bits nothing depends on. *)
Entries == [present : BOOLEAN, user : BOOLEAN, frame : Pages]
NotPresent == [present |-> FALSE, user |-> FALSE, frame |-> 0]
Kernel(frame) == [present |-> TRUE, user |-> FALSE, frame |-> frame]  \* | 0x83
User(frame) == [present |-> TRUE, user |-> TRUE, frame |-> frame]     \* | 0x87

(* What liballoc_alloc(pages) returned: `pages` liballoc pages from `base`.*)
Regions == [base : Nat, pages : Nat]

(* The kernel pages a region extends over. *)
Covers(r) == {r.base + i : i \in {j \in 0 .. r.pages : j * PageUnits < r.pages}}
-----------------------------------------------------------------------------
PagingInit ==
  /\ page_directory = [p \in Pages |-> NotPresent]
  /\ current_page = HeapBasePage
  /\ real_mem_base = FirstFreeFrame
  /\ mem_current = NULL
  /\ allocator_has_run = FALSE
  /\ malloc_lock = TRUE
  /\ regions = {}
  /\ released = {}

(* The directory initalize_paging loads. *)
initalize_paging ==
  [p \in Pages |-> CASE p = 0              -> User(UserFrame)
                     [] p = KernelPage     -> Kernel(0)
                     [] p = KernelPage + 1 -> Kernel(1)
                     [] OTHER              -> NotPresent]

(* The k pages from current_page are mapped to the k frames from           *)
(* real_mem_base, in a directory that was dir; then the two counters move. *)
(* A write past the end of the array lands in another variable and leaves  *)
(* the directory as it was.                                                *)
MapPages(dir, k, pagesTaken, framesTaken) ==
  /\ page_directory' =
       [p \in Pages |->
          IF p \in current_page .. current_page + k - 1
            THEN Kernel((real_mem_base + (p - current_page)) % NumPages)
            ELSE dir[p]]
  /\ real_mem_base' = (real_mem_base + framesTaken) % NumPages
  /\ current_page' = current_page + pagesTaken

get_free_page_KeepsFrame(dir, k) == MapPages(dir, k, k, 0)
get_free_page_KeepsPage(dir, k) == MapPages(dir, k, k - 1, k)

(* k calls of get_free_page. *)
get_free_page(dir, k) == MapPages(dir, k, k, k)

FreePageAddress_NoWrap(k) == current_page + k - 1

(* The address the k-th of those calls returns. *)
FreePageAddress(k) == (current_page + k - 1) % NumPages

initalize_memory ==
  /\ malloc_lock
  /\ get_free_page(initalize_paging, 1)
  /\ mem_current' = FreePageAddress(1)
  /\ malloc_lock' = FALSE
  /\ UNCHANGED <<allocator_has_run, regions, released>>

PagesMapped_FirstMapsNone(pages) == IF allocator_has_run THEN pages ELSE 0
PagesMapped_RoundsDown(pages) == pages \div PageUnits

(* get_free_page runs once per liballoc page, save in the first iteration  *)
(* of the first call: initalize_memory has mapped that page.               *)
PagesMapped(pages) == IF allocator_has_run THEN pages ELSE pages - 1

(* The value returned is mem_current before the call. *)
liballoc_alloc(pages) ==
  LET k == PagesMapped(pages) IN
  /\ get_free_page(page_directory, k)
  /\ mem_current' = IF k = 0 THEN mem_current ELSE FreePageAddress(k)
  /\ allocator_has_run' = TRUE
  /\ regions' = IF mem_current = NULL THEN regions
                ELSE regions \cup {[base |-> mem_current, pages |-> pages]}
  /\ UNCHANGED <<malloc_lock, released>>

(* Returns 0 and does nothing else. *)
liballoc_free(r) ==
  /\ released' = released \cup {r}
  /\ UNCHANGED <<page_directory, current_page, real_mem_base, mem_current,
                 allocator_has_run, malloc_lock, regions>>
-----------------------------------------------------------------------------
(* The heap's use of the two hooks: allocate_new_page never asks for fewer *)
(* than l_pageCount pages, and free returns a region it was given, once.   *)
Allocate ==
  \E pages \in l_pageCount .. MaxChunk :
    /\ ~malloc_lock
    /\ current_page + PagesMapped(pages) <= MaxPage
    /\ liballoc_alloc(pages)

Release == \E r \in regions \ released : liballoc_free(r)

PagingNext == initalize_memory \/ Allocate \/ Release

PagingSpec == PagingInit /\ [][PagingNext]_pagingVars
-----------------------------------------------------------------------------
(* Every variable holds a value of its C type. *)
PagingTypeOK ==
  /\ page_directory \in [Pages -> Entries]
  /\ current_page \in Nat
  /\ real_mem_base \in Pages
  /\ mem_current \in Pages
  /\ allocator_has_run \in BOOLEAN
  /\ malloc_lock \in BOOLEAN
  /\ regions \subseteq Regions
  /\ released \subseteq regions

(* get_free_page has stayed inside page_directory, which it never checks.  *)
InDirectory == current_page <= NumPages

(* Two supervisor pages never share a frame: neither two heap pages, nor a *)
(* heap page and one of the kernel's, whatever mixture of initalize_memory *)
(* and liballoc_alloc mapped them.                                         *)
FramesDistinct ==
  InDirectory =>
    \A p, q \in Pages \ {0} :
      /\ page_directory[p].present /\ page_directory[q].present
      /\ page_directory[p].frame = page_directory[q].frame
      => p = q

(* The memory the heap was given is mapped, although the first call maps   *)
(* one page fewer than it was asked for.                                   *)
RegionsBacked ==
  InDirectory =>
    \A r \in regions : \A p \in Covers(r) :
      p \in HeapPages /\ page_directory[p].present

(* The heap is never given the same memory twice: no later region starts   *)
(* inside an earlier one, nor in the page the next call will return.       *)
RegionsDisjoint ==
  InDirectory =>
    /\ \A r, s \in regions : r # s => Covers(r) \cap Covers(s) = {}
    /\ \A r \in regions : mem_current \notin Covers(r)

(* The page handed out next is already mapped when it is promised.         *)
NextPageReady ==
  InDirectory /\ ~malloc_lock =>
    mem_current \in HeapPages /\ page_directory[mem_current].present

(* A mapped page keeps its frame: no step of the allocator moves or unmaps *)
(* memory that is in use.                                                  *)
MappingIsStable ==
  [][\A p \in Pages : page_directory[p].present =>
                        page_directory'[p] = page_directory[p]]_pagingVars
-----------------------------------------------------------------------------
(* "NULL if the pages were not allocated. / A pointer to the allocated     *)
(* memory" (memory.c:238-239): a region that was returned is mapped,       *)
(* however many pages were asked for before.                               *)
NullWhenNotAllocated ==
  \A r \in regions : \A p \in Covers(r) :
    p \in Pages /\ page_directory[p].present

(* "loaded binary file from linker, mapped to 0" (memory.c:86): the frame  *)
(* of the user program's page is that program's, and the heap's pages are  *)
(* in other frames.                                                        *)
UserFrameIsPrivate ==
  \A p \in HeapPages : page_directory[p].present =>
                         page_directory[p].frame # page_directory[0].frame
=============================================================================
