---------------------------- MODULE PagingProofs ----------------------------
(***************************************************************************)
(* The page allocator's invariants for every layout PagingAssumption       *)
(* admits, the real one (1024, 768, 832, 2, 3, 16, 2) among them, and for  *)
(* every value of the bounds.                                              *)
(***************************************************************************)
EXTENDS Paging, TLAPS

(* The directory while current_page is inside it: initalize_paging's       *)
(* entries, and the heap's pages mapped to consecutive frames.             *)
DirectoryWhenBooted ==
  [p \in Pages |-> IF p \in HeapBasePage .. current_page - 1
                     THEN Kernel(FirstFreeFrame + (p - HeapBasePage))
                     ELSE initalize_paging[p]]

BeforeBoot ==
  malloc_lock =>
    /\ page_directory = [p \in Pages |-> NotPresent]
    /\ current_page = HeapBasePage
    /\ real_mem_base = FirstFreeFrame
    /\ ~allocator_has_run
    /\ regions = {}

AfterBoot ==
  ~malloc_lock =>
    /\ HeapBasePage < current_page
    /\ InDirectory =>
         /\ page_directory = DirectoryWhenBooted
         /\ real_mem_base = FirstFreeFrame + (current_page - HeapBasePage)
         /\ mem_current = current_page - 1

(* Regions lie below the page that is handed out next, and apart. *)
RegionsBelow ==
  InDirectory =>
    \A r \in regions : \A p \in Covers(r) : p \in HeapBasePage .. current_page - 2

RegionsApart ==
  InDirectory =>
    \A r, s \in regions : r # s => Covers(r) \cap Covers(s) = {}

(* The inductive invariant. *)
PagingInv ==
  /\ PagingTypeOK
  /\ BeforeBoot
  /\ AfterBoot
  /\ RegionsBelow
  /\ RegionsApart
-----------------------------------------------------------------------------
(* A liballoc page being at most half a kernel page, the region of n >= 2  *)
(* of them extends over at most n - 1 kernel pages.  This is why the first *)
(* call may map one page fewer than it was asked for.                      *)
LEMMA CoversBounds ==
  ASSUME NEW r \in Regions, 2 <= r.pages, NEW p \in Covers(r)
  PROVE  p \in r.base .. r.base + r.pages - 2
<1> DEFINE n == r.pages
<1>1. r.base \in Nat /\ n \in Nat /\ 2 <= n /\ PageUnits \in Nat /\ 2 <= PageUnits
  BY PagingAssumption DEF Regions
<1>2. PICK i \in 0 .. n : i * PageUnits < n /\ p = r.base + i
  BY DEF Covers
<1>3. 2 * i <= i * PageUnits
  <2>1. PICK d \in Nat : PageUnits = 2 + d
    <3>1. PageUnits - 2 \in Nat /\ PageUnits = 2 + (PageUnits - 2)
      BY <1>1
    <3> QED BY <3>1
  <2>2. i * PageUnits = 2 * i + i * d /\ 0 <= i * d
    BY <1>2, <2>1
  <2> QED BY <1>2, <2>1, <2>2
<1>4. i <= n - 2
  <2> HIDE DEF n
  <2>1. i \in Int /\ n \in Int /\ 2 <= n /\ 2 * i < n
    <3>1. i * PageUnits \in Int
      BY <1>1, <1>2
    <3> QED BY <1>1, <1>2, <1>3, <3>1
  <2> QED BY <2>1
<1> QED BY <1>1, <1>2, <1>4

(* Addresses and frames wrap at 32 bits, and only there. *)
LEMMA ModRange ==
  ASSUME NEW a \in Int, NEW b \in Nat, 0 < b
  PROVE  a % b \in 0 .. b - 1
  OBVIOUS

LEMMA ModSmall ==
  ASSUME NEW a \in Nat, NEW b \in Nat, a < b
  PROVE  a % b = a
  OBVIOUS

(* The types of what k calls of get_free_page leave behind. *)
LEMMA GetFreePagesTypes ==
  ASSUME PagingTypeOK, NEW k \in Nat, NEW dir \in [Pages -> Entries],
         get_free_page(dir, k)
  PROVE  /\ page_directory' \in [Pages -> Entries]
         /\ real_mem_base' \in Pages
         /\ current_page' \in Nat
         /\ current_page' = current_page + k
         /\ FreePageAddress(k) \in Pages
<1>1. NumPages \in Nat /\ 0 < NumPages /\ Pages = 0 .. NumPages - 1
  BY PagingAssumption DEF Pages
<1>2. \A a \in Int : a % NumPages \in Pages
  BY <1>1, ModRange
<1>3. current_page \in Nat /\ real_mem_base \in Nat
  BY <1>1 DEF PagingTypeOK
<1>4. \A p \in Pages : Kernel((real_mem_base + (p - current_page)) % NumPages) \in Entries
  <2> TAKE p \in Pages
  <2>1. (real_mem_base + (p - current_page)) % NumPages \in Pages
    BY <1>1, <1>2, <1>3
  <2> QED BY <2>1 DEF Kernel, Entries
<1>5. page_directory' \in [Pages -> Entries]
  BY <1>4 DEF get_free_page, MapPages
<1>6. (real_mem_base + k) % NumPages \in Pages /\ (current_page + k - 1) % NumPages \in Pages
  BY <1>2, <1>3
<1> QED BY <1>3, <1>5, <1>6 DEF get_free_page, MapPages, FreePageAddress

LEMMA InitialDirectoryType == initalize_paging \in [Pages -> Entries]
<1>1. 0 \in Pages /\ 1 \in Pages /\ UserFrame \in Pages
  BY PagingAssumption DEF Pages
<1> QED BY <1>1 DEF initalize_paging, Entries, User, Kernel, NotPresent

(* How many calls one liballoc_alloc makes. *)
LEMMA PagesMappedBounds ==
  ASSUME PagingTypeOK, NEW pages \in l_pageCount .. MaxChunk
  PROVE  /\ pages \in Nat /\ 2 <= pages
         /\ PagesMapped(pages) \in Nat
         /\ pages - 1 <= PagesMapped(pages)
  BY PagingAssumption DEF PagesMapped, PagingTypeOK
-----------------------------------------------------------------------------
(* Types are right initially, and every step keeps them so. *)
LEMMA PagingInitTypes ==
  ASSUME PagingInit
  PROVE  PagingTypeOK
<1>1. 0 \in Pages /\ FirstFreeFrame \in Pages /\ HeapBasePage \in Nat
  BY PagingAssumption DEF Pages
<1>2. NotPresent \in Entries
  BY <1>1 DEF NotPresent, Entries
<1> QED BY <1>1, <1>2 DEF PagingInit, PagingTypeOK, NULL

LEMMA PagingStepTypes ==
  ASSUME PagingTypeOK, [PagingNext]_pagingVars
  PROVE  PagingTypeOK'
<1>1. CASE initalize_memory
  <2>1. get_free_page(initalize_paging, 1) /\ 1 \in Nat
    BY <1>1 DEF initalize_memory
  <2>2. /\ page_directory' \in [Pages -> Entries]
        /\ real_mem_base' \in Pages /\ current_page' \in Nat
        /\ FreePageAddress(1) \in Pages
    BY <2>1, InitialDirectoryType, GetFreePagesTypes
  <2> QED BY <1>1, <2>2 DEF initalize_memory, PagingTypeOK
<1>2. CASE Allocate
  <2>1. PICK pages \in l_pageCount .. MaxChunk : liballoc_alloc(pages)
    BY <1>2 DEF Allocate
  <2>2. pages \in Nat /\ PagesMapped(pages) \in Nat
    BY <2>1, PagesMappedBounds
  <2>3. /\ get_free_page(page_directory, PagesMapped(pages))
        /\ page_directory \in [Pages -> Entries]
    BY <2>1 DEF liballoc_alloc, PagingTypeOK
  <2>4. /\ page_directory' \in [Pages -> Entries]
        /\ real_mem_base' \in Pages /\ current_page' \in Nat
        /\ FreePageAddress(PagesMapped(pages)) \in Pages
    BY <2>2, <2>3, GetFreePagesTypes
  <2>5. mem_current' \in Pages
    BY <2>1, <2>4 DEF liballoc_alloc, PagingTypeOK
  <2>6. mem_current \in Nat
    BY PagingAssumption DEF PagingTypeOK, Pages
  <2>7. regions' \subseteq Regions /\ regions \subseteq regions'
    BY <2>1, <2>2, <2>6 DEF liballoc_alloc, PagingTypeOK, Regions
  <2> QED BY <2>1, <2>4, <2>5, <2>7 DEF liballoc_alloc, PagingTypeOK
<1>3. CASE Release
  BY <1>3 DEF Release, liballoc_free, PagingTypeOK
<1>4. CASE UNCHANGED pagingVars
  BY <1>4 DEF pagingVars, PagingTypeOK
<1> QED BY <1>1, <1>2, <1>3, <1>4 DEF PagingNext

(* Every variable holds a value of its C type in every reachable state of  *)
(* initalize_memory, liballoc_alloc and liballoc_free.                     *)
THEOREM PagingTypeCorrect == PagingSpec => []PagingTypeOK
BY PagingInitTypes, PagingStepTypes, PTL DEF PagingSpec
-----------------------------------------------------------------------------
(* k calls of get_free_page while the result stays in the directory: the   *)
(* next frames in order, no wrap, and nothing else changed.                *)
LEMMA GetFreePagesInDirectory ==
  ASSUME PagingTypeOK, NEW k \in Nat, NEW dir \in [Pages -> Entries],
         get_free_page(dir, k), InDirectory',
         HeapBasePage <= current_page,
         real_mem_base = FirstFreeFrame + (current_page - HeapBasePage)
  PROVE  /\ InDirectory
         /\ current_page' = current_page + k
         /\ real_mem_base' = FirstFreeFrame + (current_page' - HeapBasePage)
         /\ 0 < k => FreePageAddress(k) = current_page' - 1
         /\ page_directory' =
              [p \in Pages |-> IF p \in current_page .. current_page' - 1
                                 THEN Kernel(FirstFreeFrame + (p - HeapBasePage))
                                 ELSE dir[p]]
<1>1. /\ NumPages \in Nat /\ 0 < NumPages /\ Pages = 0 .. NumPages - 1
      /\ HeapBasePage \in Nat /\ FirstFreeFrame \in Nat
      /\ FirstFreeFrame < HeapBasePage
  BY PagingAssumption DEF Pages
<1>2. current_page \in Nat /\ current_page' = current_page + k
  BY DEF PagingTypeOK, get_free_page, MapPages
<1>3. current_page <= NumPages /\ current_page' <= NumPages
  BY <1>1, <1>2 DEF InDirectory
<1>4. real_mem_base' = FirstFreeFrame + (current_page' - HeapBasePage)
  <2>1. /\ real_mem_base + k \in Nat /\ real_mem_base + k < NumPages
        /\ real_mem_base + k = FirstFreeFrame + (current_page' - HeapBasePage)
    BY <1>1, <1>2, <1>3
  <2> QED BY <1>1, <2>1, ModSmall DEF get_free_page, MapPages
<1>5. 0 < k => FreePageAddress(k) = current_page' - 1
  <2> SUFFICES ASSUME 0 < k PROVE FreePageAddress(k) = current_page' - 1
    OBVIOUS
  <2>1. current_page + k - 1 \in Nat /\ current_page + k - 1 < NumPages
    BY <1>1, <1>2, <1>3
  <2> QED BY <1>1, <1>2, <2>1, ModSmall DEF FreePageAddress
<1>6. \A p \in current_page .. current_page' - 1 :
        (real_mem_base + (p - current_page)) % NumPages
          = FirstFreeFrame + (p - HeapBasePage)
  <2> TAKE p \in current_page .. current_page' - 1
  <2>1. /\ real_mem_base + (p - current_page) \in Nat
        /\ real_mem_base + (p - current_page) < NumPages
        /\ real_mem_base + (p - current_page) = FirstFreeFrame + (p - HeapBasePage)
    BY <1>1, <1>2, <1>3
  <2> QED BY <1>1, <2>1, ModSmall
<1>7. page_directory' =
        [p \in Pages |-> IF p \in current_page .. current_page' - 1
                           THEN Kernel(FirstFreeFrame + (p - HeapBasePage))
                           ELSE dir[p]]
  BY <1>2, <1>6 DEF get_free_page, MapPages
<1>8. InDirectory
  BY <1>3 DEF InDirectory
<1> QED BY <1>2, <1>4, <1>5, <1>7, <1>8

LEMMA BootPreservesInv ==
  ASSUME PagingInv, PagingTypeOK', initalize_memory
  PROVE  PagingInv'
<1>1. /\ NumPages \in Nat /\ HeapBasePage \in Nat /\ HeapBasePage < NumPages
      /\ Pages = 0 .. NumPages - 1
  BY PagingAssumption DEF Pages
<1>2. /\ current_page = HeapBasePage /\ real_mem_base = FirstFreeFrame
      /\ regions = {} /\ regions' = {} /\ malloc_lock' = FALSE
      /\ mem_current' = FreePageAddress(1)
      /\ get_free_page(initalize_paging, 1) /\ 1 \in Nat
  BY DEF PagingInv, BeforeBoot, initalize_memory
<1>3. current_page' = HeapBasePage + 1
  BY <1>2 DEF get_free_page, MapPages
<1>4. real_mem_base = FirstFreeFrame + (current_page - HeapBasePage)
  BY <1>1, <1>2, PagingAssumption
<1>5. AfterBoot'
  <2>1. InDirectory'
    BY <1>1, <1>3 DEF InDirectory
  <2>2. /\ real_mem_base' = FirstFreeFrame + (current_page' - HeapBasePage)
        /\ FreePageAddress(1) = current_page' - 1
        /\ page_directory' =
             [p \in Pages |-> IF p \in current_page .. current_page' - 1
                                THEN Kernel(FirstFreeFrame + (p - HeapBasePage))
                                ELSE initalize_paging[p]]
    BY <1>1, <1>2, <1>4, <2>1, InitialDirectoryType, GetFreePagesInDirectory
       DEF PagingInv
  <2>3. page_directory' = DirectoryWhenBooted'
    BY <1>2, <2>2 DEF DirectoryWhenBooted
  <2> QED BY <1>1, <1>2, <1>3, <2>2, <2>3 DEF AfterBoot
<1> QED BY <1>2, <1>5 DEF PagingInv, BeforeBoot, RegionsBelow, RegionsApart

LEMMA AllocatePreservesInv ==
  ASSUME PagingInv, PagingTypeOK', Allocate
  PROVE  PagingInv'
<1>1. /\ NumPages \in Nat /\ HeapBasePage \in Nat /\ 0 < HeapBasePage
      /\ HeapBasePage < NumPages /\ Pages = 0 .. NumPages - 1
  BY PagingAssumption DEF Pages
<1>2. PICK pages \in l_pageCount .. MaxChunk : ~malloc_lock /\ liballoc_alloc(pages)
  BY DEF Allocate
<1> DEFINE k == PagesMapped(pages)
           r == [base |-> mem_current, pages |-> pages]
<1>3. pages \in Nat /\ 2 <= pages /\ k \in Nat /\ pages - 1 <= k /\ 0 < k
  BY <1>2, PagesMappedBounds DEF PagingInv
<1>4. /\ get_free_page(page_directory, k)
      /\ page_directory \in [Pages -> Entries]
      /\ malloc_lock' = malloc_lock
      /\ mem_current' = FreePageAddress(k)
      /\ regions' = IF mem_current = NULL THEN regions ELSE regions \cup {r}
  BY <1>2, <1>3 DEF liballoc_alloc, PagingInv, PagingTypeOK
<1>5. current_page \in Nat /\ HeapBasePage < current_page /\ current_page' = current_page + k
  BY <1>2, <1>4 DEF PagingInv, AfterBoot, PagingTypeOK, get_free_page, MapPages
<1>6. ASSUME InDirectory'
      PROVE  InDirectory /\ mem_current = current_page - 1
             /\ real_mem_base = FirstFreeFrame + (current_page - HeapBasePage)
             /\ page_directory = DirectoryWhenBooted
  <2>1. InDirectory
    BY <1>1, <1>3, <1>5, <1>6 DEF InDirectory
  <2> QED BY <1>2, <2>1 DEF PagingInv, AfterBoot
<1>7. AfterBoot'
  <2>1. HeapBasePage < current_page'
    BY <1>1, <1>3, <1>5
  <2>2. ASSUME InDirectory'
        PROVE  /\ page_directory' = DirectoryWhenBooted'
               /\ real_mem_base' = FirstFreeFrame + (current_page' - HeapBasePage)
               /\ mem_current' = current_page' - 1
    <3>1. /\ real_mem_base' = FirstFreeFrame + (current_page' - HeapBasePage)
          /\ FreePageAddress(k) = current_page' - 1
          /\ page_directory' =
               [p \in Pages |-> IF p \in current_page .. current_page' - 1
                                  THEN Kernel(FirstFreeFrame + (p - HeapBasePage))
                                  ELSE page_directory[p]]
      <4> HIDE DEF k
      <4> QED BY <1>1, <1>3, <1>4, <1>5, <1>6, <2>2, GetFreePagesInDirectory
                 DEF PagingInv
    <3>2. page_directory' = DirectoryWhenBooted'
      <4>1. \A p \in Pages : page_directory'[p] =
              IF p \in HeapBasePage .. current_page' - 1
                THEN Kernel(FirstFreeFrame + (p - HeapBasePage))
                ELSE initalize_paging[p]
        <5> HIDE DEF k
        <5> QED BY <1>1, <1>3, <1>5, <1>6, <2>2, <3>1 DEF DirectoryWhenBooted
      <4>2. page_directory' = [p \in Pages |-> page_directory'[p]]
        BY <3>1
      <4> QED BY <4>1, <4>2 DEF DirectoryWhenBooted
    <3> QED BY <1>4, <3>1, <3>2
  <2> QED BY <2>1, <2>2 DEF AfterBoot
<1>8. ASSUME InDirectory', r \in regions'
      PROVE  \A p \in Covers(r) : p \in current_page - 1 .. current_page' - 2
  <2>1. r \in Regions /\ 2 <= r.pages
    BY <1>3, <1>8 DEF PagingTypeOK
  <2> TAKE p \in Covers(r)
  <2>2. p \in r.base .. r.base + r.pages - 2
    BY <2>1, CoversBounds
  <2> HIDE DEF k
  <2> QED BY <1>3, <1>5, <1>6, <1>8, <2>2
<1>9. ASSUME InDirectory'
      PROVE  \A s \in regions : \A p \in Covers(s) : p \in HeapBasePage .. current_page - 2
  BY <1>6, <1>9 DEF PagingInv, RegionsBelow
<1> HIDE DEF k, r
<1>10. RegionsBelow'
  <2> SUFFICES ASSUME InDirectory', NEW s \in regions', NEW p \in Covers(s)
               PROVE  p \in HeapBasePage .. current_page' - 2
    BY DEF RegionsBelow, Covers
  <2>1. CASE s \in regions
    BY <1>1, <1>3, <1>5, <1>9, <2>1
  <2>2. CASE s = r
    BY <1>1, <1>3, <1>5, <1>8, <2>2
  <2> QED BY <1>4, <2>1, <2>2
<1>11. RegionsApart'
  <2> SUFFICES ASSUME InDirectory', NEW s \in regions', NEW t \in regions', s # t,
                      NEW p \in Covers(s), p \in Covers(t)
               PROVE  FALSE
    BY DEF RegionsApart, Covers
  <2>1. CASE s \in regions /\ t \in regions
    BY <1>6, <2>1 DEF PagingInv, RegionsApart
  <2>2. CASE s = r /\ t \in regions
    BY <1>5, <1>8, <1>9, <2>2
  <2>3. CASE t = r /\ s \in regions
    BY <1>5, <1>8, <1>9, <2>3
  <2> QED BY <1>4, <2>1, <2>2, <2>3
<1> QED BY <1>2, <1>4, <1>7, <1>10, <1>11 DEF PagingInv, BeforeBoot

LEMMA ReleasePreservesInv ==
  ASSUME PagingInv, PagingTypeOK', Release
  PROVE  PagingInv'
<1>1. UNCHANGED <<page_directory, current_page, real_mem_base, mem_current,
                  allocator_has_run, malloc_lock, regions>>
  BY DEF Release, liballoc_free
<1> QED
  BY <1>1 DEF PagingInv, BeforeBoot, AfterBoot, InDirectory, DirectoryWhenBooted,
              RegionsBelow, RegionsApart, Covers

(* The inductive invariant holds initially, every step preserves it, and   *)
(* so it holds of every reachable state.                                   *)
LEMMA PagingInitInv ==
  ASSUME PagingInit
  PROVE  PagingInv
  BY PagingInitTypes
     DEF PagingInit, PagingInv, BeforeBoot, AfterBoot, RegionsBelow, RegionsApart

LEMMA PagingStepInv ==
  ASSUME PagingInv, [PagingNext]_pagingVars
  PROVE  PagingInv'
<1>1. PagingTypeOK'
  BY PagingStepTypes DEF PagingInv
<1>2. CASE UNCHANGED pagingVars
  BY <1>2 DEF pagingVars, PagingInv, PagingTypeOK, BeforeBoot, AfterBoot, InDirectory,
              DirectoryWhenBooted, RegionsBelow, RegionsApart, Covers
<1> QED BY <1>1, <1>2, BootPreservesInv, AllocatePreservesInv, ReleasePreservesInv
           DEF PagingNext

THEOREM PagingInvariant == PagingSpec => []PagingInv
BY PagingInitInv, PagingStepInv, PTL DEF PagingSpec
-----------------------------------------------------------------------------
(* Where the directory maps what, in the terms of PagingInv. *)
LEMMA DirectoryContents ==
  ASSUME PagingInv, InDirectory, ~malloc_lock, NEW p \in Pages
  PROVE  /\ p \in HeapBasePage .. current_page - 1 =>
              /\ page_directory[p].present
              /\ page_directory[p].frame = FirstFreeFrame + (p - HeapBasePage)
         /\ p \notin HeapBasePage .. current_page - 1 =>
              page_directory[p] = initalize_paging[p]
<1>1. page_directory = DirectoryWhenBooted
  BY DEF PagingInv, AfterBoot
<1>2. page_directory[p] = IF p \in HeapBasePage .. current_page - 1
                            THEN Kernel(FirstFreeFrame + (p - HeapBasePage))
                            ELSE initalize_paging[p]
  BY <1>1 DEF DirectoryWhenBooted
<1>3. \A f : Kernel(f).present /\ Kernel(f).frame = f
  BY DEF Kernel
<1> QED BY <1>2, <1>3

(* No two pages other than the user's share a frame, before the directory  *)
(* is full (get_free_page, initalize_paging).                              *)
THEOREM FramesAreDistinct == PagingSpec => []FramesDistinct
<1>1. PagingInv => FramesDistinct
  <2> SUFFICES ASSUME PagingInv, InDirectory,
                      NEW p \in Pages \ {0}, NEW q \in Pages \ {0},
                      page_directory[p].present, page_directory[q].present,
                      page_directory[p].frame = page_directory[q].frame
               PROVE  p = q
    BY DEF FramesDistinct
  <2>1. CASE malloc_lock
    BY <2>1 DEF PagingInv, BeforeBoot, NotPresent
  <2>2. CASE ~malloc_lock
    <3>1. /\ p \in Nat /\ q \in Nat /\ HeapBasePage \in Nat
          /\ FirstFreeFrame \in Nat /\ 2 <= FirstFreeFrame
          /\ current_page \in Nat
      BY PagingAssumption DEF PagingInv, PagingTypeOK, Pages
    <3>2. \A x \in Pages \ {0} :
            page_directory[x].present =>
              \/ /\ x \in HeapBasePage .. current_page - 1
                 /\ page_directory[x].frame = FirstFreeFrame + (x - HeapBasePage)
              \/ x = KernelPage /\ page_directory[x].frame = 0
              \/ x = KernelPage + 1 /\ page_directory[x].frame = 1
      <4> TAKE x \in Pages \ {0}
      <4>1. CASE x \in HeapBasePage .. current_page - 1
        BY <2>2, <4>1, DirectoryContents DEF Kernel
      <4>2. CASE x \notin HeapBasePage .. current_page - 1
        <5>1. page_directory[x] = initalize_paging[x]
          BY <2>2, <4>2, DirectoryContents
        <5>2. KernelPage # 0 /\ KernelPage + 1 # 0 /\ KernelPage + 1 # KernelPage
          BY PagingAssumption
        <5> QED BY <5>1, <5>2 DEF initalize_paging, Kernel, NotPresent
      <4> QED BY <4>1, <4>2
    <3> QED BY <3>1, <3>2
  <2> QED BY <2>1, <2>2
<1> QED BY <1>1, PagingInvariant, PTL

(* Every page of every region liballoc_alloc returned is mapped, although  *)
(* its first call maps one page fewer than the number it was given.        *)
THEOREM RegionsAreBacked == PagingSpec => []RegionsBacked
<1>1. PagingInv => RegionsBacked
  <2> SUFFICES ASSUME PagingInv, InDirectory, NEW r \in regions, NEW p \in Covers(r)
               PROVE  p \in HeapPages /\ page_directory[p].present
    BY DEF RegionsBacked
  <2>1. ~malloc_lock
    BY DEF PagingInv, BeforeBoot
  <2>2. p \in HeapBasePage .. current_page - 2
    BY DEF PagingInv, RegionsBelow
  <2>3. p \in Pages /\ p \in HeapPages /\ p \in HeapBasePage .. current_page - 1
    BY <2>2, PagingAssumption
       DEF PagingInv, PagingTypeOK, InDirectory, Pages, HeapPages
  <2> QED BY <2>1, <2>3, DirectoryContents DEF Kernel
<1> QED BY <1>1, PagingInvariant, PTL

(* liballoc_alloc never returns memory twice, nor the page it has set      *)
(* aside for the next call.                                                *)
THEOREM RegionsAreDisjoint == PagingSpec => []RegionsDisjoint
<1>1. PagingInv => RegionsDisjoint
  <2> SUFFICES ASSUME PagingInv, InDirectory PROVE RegionsDisjoint
    BY DEF RegionsDisjoint
  <2>1. \A r, s \in regions : r # s => Covers(r) \cap Covers(s) = {}
    BY DEF PagingInv, RegionsApart
  <2>2. ASSUME NEW r \in regions PROVE mem_current \notin Covers(r)
    <3>1. ~malloc_lock
      BY DEF PagingInv, BeforeBoot
    <3>2. mem_current = current_page - 1 /\ current_page \in Nat
      BY <3>1 DEF PagingInv, AfterBoot, PagingTypeOK
    <3>3. \A p \in Covers(r) : p \in HeapBasePage .. current_page - 2
      BY DEF PagingInv, RegionsBelow
    <3> QED BY <3>2, <3>3, PagingAssumption
  <2> QED BY <2>1, <2>2 DEF RegionsDisjoint
<1> QED BY <1>1, PagingInvariant, PTL

(* The page the next liballoc_alloc returns is mapped before it is         *)
(* returned.                                                               *)
THEOREM NextPageIsReady == PagingSpec => []NextPageReady
<1>1. PagingInv => NextPageReady
  <2> SUFFICES ASSUME PagingInv, InDirectory, ~malloc_lock
               PROVE  mem_current \in HeapPages /\ page_directory[mem_current].present
    BY DEF NextPageReady
  <2>1. mem_current = current_page - 1 /\ HeapBasePage < current_page
    BY DEF PagingInv, AfterBoot
  <2>2. /\ mem_current \in Pages /\ mem_current \in HeapPages
        /\ mem_current \in HeapBasePage .. current_page - 1
    BY <2>1, PagingAssumption
       DEF PagingInv, PagingTypeOK, InDirectory, Pages, HeapPages
  <2> QED BY <2>2, DirectoryContents DEF Kernel
<1> QED BY <1>1, PagingInvariant, PTL

(* No step of the allocator remaps a mapped page, even once current_page   *)
(* has left the directory.                                                 *)
THEOREM MappingStays == PagingSpec => MappingIsStable
<1> DEFINE Stable == \A p \in Pages : page_directory[p].present =>
                                        page_directory'[p] = page_directory[p]
<1>1. PagingInv /\ [PagingNext]_pagingVars => [Stable]_pagingVars
  <2> SUFFICES ASSUME PagingInv, PagingNext, NEW p \in Pages, page_directory[p].present
               PROVE  page_directory'[p] = page_directory[p]
    BY DEF pagingVars
  <2>1. CASE initalize_memory
    <3>1. page_directory[p] = NotPresent
      BY <2>1 DEF PagingInv, BeforeBoot, initalize_memory
    <3> QED BY <3>1 DEF NotPresent
  <2>2. CASE Allocate
    <3>1. PICK pages \in l_pageCount .. MaxChunk : ~malloc_lock /\ liballoc_alloc(pages)
      BY <2>2 DEF Allocate
    <3>2. page_directory'[p] =
            IF p \in current_page .. current_page + PagesMapped(pages) - 1
              THEN Kernel((real_mem_base + (p - current_page)) % NumPages)
              ELSE page_directory[p]
      BY <3>1 DEF liballoc_alloc, get_free_page, MapPages
    <3>3. current_page \in Nat /\ HeapBasePage \in Nat /\ NumPages \in Nat
          /\ p \in 0 .. NumPages - 1 /\ HeapBasePage < current_page
      BY <3>1, PagingAssumption DEF PagingInv, PagingTypeOK, AfterBoot, Pages
    <3>4. p < current_page
      <4>1. CASE InDirectory /\ current_page <= p
        <5>1. p \notin HeapBasePage .. current_page - 1
          BY <3>3, <4>1
        <5>2. page_directory[p] = initalize_paging[p]
          BY <3>1, <4>1, <5>1, DirectoryContents
        <5>3. p # 0 /\ p # KernelPage /\ p # KernelPage + 1
          BY <3>3, <4>1, PagingAssumption
        <5> QED BY <5>2, <5>3 DEF initalize_paging, NotPresent
      <4> QED BY <3>3, <4>1 DEF InDirectory
    <3> QED BY <3>2, <3>3, <3>4
  <2>3. CASE Release
    BY <2>3 DEF Release, liballoc_free
  <2> QED BY <2>1, <2>2, <2>3 DEF PagingNext
<1> QED BY <1>1, PagingInvariant, PTL DEF PagingSpec, MappingIsStable
=============================================================================
