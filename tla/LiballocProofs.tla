--------------------------- MODULE LiballocProofs ---------------------------
(***************************************************************************)
(* The heap's lists, blocks and calls, for every layout the assumptions    *)
(* admit and every set of requests: majors and minors stay in order and    *)
(* apart, realloc has room for what it copies, usages and totals count     *)
(* what is there, malloc grows the heap only when it must, and the heap is *)
(* a user of the page allocator as Paging describes it and an              *)
(* implementation of HeapSpec.                                             *)
(***************************************************************************)
EXTENDS Liballoc, PagingProofs, FiniteSetTheorems, WellFoundedInduction

MajorRecords == [prev : Nat, next : Nat, pages : Nat, size : Nat, usage : Int,
                 first : Nat]
MinorRecords == [prev : Nat, next : Nat, block : Nat, magic : {"MAGIC", "DEAD"},
                 size : Nat, req_size : Nat,
                 info : ALIGN_INFO .. ALIGN_INFO + ALIGNMENT - 1]
Searching == {"start", "major", "minor", "full"}
Calls == [pc : Searching \cup {"idle", "free", "realloc", "copy", "halted", "stray"},
          req_size : Nat, maj : Nat, min : Nat, startedBet : BOOLEAN, bestSize : Int,
          old : Nat, new : Nat]

HeapTypes ==
  /\ majors \in [DOMAIN majors -> MajorRecords] /\ DOMAIN majors \subseteq Nat \ {0}
  /\ minors \in [DOMAIN minors -> MinorRecords] /\ DOMAIN minors \subseteq Nat \ {0}
  /\ call \in Calls

(* x is the element of S next above a, or NULL if there is none; next      *)
(* below.  Of a = 0 below stands for the root of a list.                   *)
IsAbove(S, a, x) ==
  /\ x # NULL => x \in S /\ a < x
  /\ \A y \in S : a < y => x # NULL /\ x <= y
IsBelow(S, a, x) ==
  /\ x # NULL => x \in S /\ x < a
  /\ \A y \in S : y < a => x # NULL /\ y <= x

(* Beyond its end the directory wraps to pages that are not mapped.        *)
WrapsToNothing ==
  /\ \A p \in 1 .. KernelPage - 1 : ~page_directory[p].present
  /\ ~malloc_lock => mem_current = (current_page - 1) % NumPages
  /\ ~malloc_lock /\ ~InDirectory /\ call.pc # "halted" => mem_current < KernelPage

(* The majors of the table mj are regions that are out, and the next one   *)
(* will lie above them.                                                    *)
MajorsPlaced(mj) ==
  /\ malloc_lock => DOMAIN mj = {}
  /\ \A m \in DOMAIN mj :
       /\ m = (m \div PageSize) * PageSize
       /\ [base |-> m \div PageSize, pages |-> mj[m].pages] \in regions \ released
       /\ 2 <= mj[m].pages /\ mj[m].size = mj[m].pages * l_pageSize
       /\ InDirectory => m + mj[m].size <= NewAddress
  /\ \A m, n \in DOMAIN mj : m < n => m + mj[m].size <= n

MajorsListed(mj) ==
  /\ IsAbove(DOMAIN mj, 0, l_memRoot)
  /\ \A m \in DOMAIN mj : /\ IsAbove(DOMAIN mj, m, mj[m].next)
                          /\ IsBelow(DOMAIN mj, m, mj[m].prev)

(* The blocks in use lie in the majors of the table mj, in order.          *)
BlocksPlaced(mj) ==
  \A h \in Live :
    /\ minors[h].block \in DOMAIN mj
    /\ minors[h].block + MAJOR <= h
    /\ EndOfMinor(h) <= minors[h].block + mj[minors[h].block].size
    /\ minors[h].info = AlignInfo(h + MINOR)
    /\ SizeOf(minors[h].req_size) <= minors[h].size

BlocksListed(mj) ==
  \A m \in DOMAIN mj :
    /\ IsAbove(MinorsOf(m), 0, mj[m].first)
    /\ \A h \in MinorsOf(m) : /\ IsAbove(MinorsOf(m), h, minors[h].next)
                              /\ IsBelow(MinorsOf(m), h, minors[h].prev)
    /\ \A g, h \in MinorsOf(m) : g < h => EndOfMinor(g) <= h

BlocksIn(mj) == BlocksPlaced(mj) /\ BlocksListed(mj)

(* A major without blocks is the last, and malloc is about to fill it.     *)
EmptyIsFilled ==
  \A m \in DOMAIN majors :
    majors[m].first = NULL =>
      /\ majors[m].next = NULL
      /\ majors[m].usage = MAJOR /\ MAJOR + Need(call.req_size) <= majors[m].size
      /\ \/ call.pc = "start" /\ DOMAIN majors = {m}
         \/ call.pc = "major" /\ call.maj = m

NoneEmpty == \A m \in DOMAIN majors : majors[m].first # NULL

CallInv ==
  /\ call.pc \in {"major", "minor", "full"} => call.maj \in DOMAIN majors
  /\ call.pc = "minor" => call.min \in MinorsOf(call.maj)
  /\ call.pc \in Searching =>
       /\ ~malloc_lock /\ call.req_size \in Requests
       /\ NoneEmpty => WithinBounds(call.req_size)
       /\ call.old # NULL => minors[call.old].req_size < call.req_size
  /\ call.pc = "realloc" =>
       /\ ~malloc_lock /\ call.req_size \in Requests
       /\ call.old \in Live /\ minors[call.old].req_size < call.req_size =>
            WithinBounds(call.req_size)
  /\ call.pc = "copy" => call.old # NULL
  /\ call.pc \in Searching \cup {"copy"} /\ call.old # NULL => call.old \in Live
  /\ call.pc \in {"free", "realloc"} /\ call.old # Foreign => call.old \in DOMAIN minors
  /\ call.pc \in {"idle", "halted", "stray"} => call.old = NULL

(* The inductive invariant of the heap, with the page allocator's. *)
HeapInv ==
  /\ PagingInv
  /\ HeapTypes
  /\ WrapsToNothing
  /\ MajorsPlaced(majors)
  /\ MajorsListed(majors)
  /\ l_bestBet # NULL => l_bestBet \in DOMAIN majors
  /\ BlocksIn(majors)
  /\ EmptyIsFilled
  /\ CallInv
  /\ CopyFits
-----------------------------------------------------------------------------
(* Lists of addresses.                                                     *)

(* An address has one next above and one next below. *)
LEMMA AboveIs ==
  ASSUME NEW S, S \subseteq Nat \ {0}, NEW a \in Nat, NEW x, IsAbove(S, a, x)
  PROVE  x = Above(S, a)
<1>1. CASE x = NULL
  BY <1>1 DEF IsAbove, Above
<1>2. CASE x # NULL
  <2>1. /\ x \in S /\ x > a
        /\ \A y \in S : y > a => x <= y
    BY <1>2 DEF IsAbove
  <2>2. \A z \in S : z > a /\ (\A y \in S : y > a => z <= y) => z = x
    BY <2>1
  <2> QED BY <2>1, <2>2 DEF Above
<1> QED BY <1>1, <1>2

LEMMA BelowIs ==
  ASSUME NEW S, S \subseteq Nat \ {0}, NEW a \in Nat, NEW x, IsBelow(S, a, x)
  PROVE  x = Below(S, a)
<1>1. CASE x = NULL
  BY <1>1 DEF IsBelow, Below
<1>2. CASE x # NULL
  <2>1. /\ x \in S /\ x < a
        /\ \A y \in S : y < a => y <= x
    BY <1>2 DEF IsBelow
  <2>2. \A z \in S : z < a /\ (\A y \in S : y < a => y <= z) => z = x
    BY <2>1
  <2> QED BY <2>1, <2>2 DEF Below
<1> QED BY <1>1, <1>2

(* A new address a between p, or the root when p is NULL, and the address  *)
(* n that was next above it: only the links on either side change.         *)
LEMMA InsertLinks ==
  ASSUME NEW S, S \subseteq Nat \ {0}, NEW a \in Nat \ {0}, NEW p \in S \cup {0}, NEW n,
         IsAbove(S, p, n), p < a, n # NULL => a < n
  PROVE  /\ IsAbove(S \cup {a}, p, a)
         /\ IsAbove(S \cup {a}, a, n)
         /\ IsBelow(S \cup {a}, a, p)
         /\ n # NULL => IsBelow(S \cup {a}, n, a)
         /\ \A h \in S \cup {0} : \A x :
              h # p /\ IsAbove(S, h, x) => IsAbove(S \cup {a}, h, x)
         /\ \A h \in S : \A x : h # n /\ IsBelow(S, h, x) => IsBelow(S \cup {a}, h, x)
<1>1. /\ \A y \in S : y \in Nat /\ 0 < y
      /\ a \in Nat /\ 0 < a /\ p \in Nat /\ (p # 0 => p \in S)
      /\ n # 0 => n \in S /\ n \in Nat /\ p < n /\ a < n
  <2>1. \A y \in S : y \in Nat /\ 0 < y
    OBVIOUS
  <2>2. n # 0 => n \in S /\ p < n /\ a < n
    BY DEF IsAbove, NULL
  <2>3. p \in Nat /\ (p # 0 => p \in S)
    BY <2>1
  <2>4. a \in Nat /\ 0 < a
    OBVIOUS
  <2> QED BY <2>1, <2>2, <2>3, <2>4
<1>2. \A y \in S : p < y => n # 0 /\ n <= y
  BY DEF IsAbove, NULL
<1>3. \A y \in S : y <= p \/ (a < y /\ p < y)
  BY <1>1, <1>2
<1>4. IsAbove(S \cup {a}, p, a)
  BY <1>1, <1>3 DEF IsAbove, NULL
<1>5. IsAbove(S \cup {a}, a, n)
  BY <1>1, <1>2 DEF IsAbove, NULL
<1>6. IsBelow(S \cup {a}, a, p)
  BY <1>1, <1>3 DEF IsBelow, NULL
<1>7. n # NULL => IsBelow(S \cup {a}, n, a)
  <2> SUFFICES ASSUME n # 0, NEW y \in S, y < n PROVE y <= a
    BY <1>1 DEF IsBelow, NULL
  <2> QED BY <1>1, <1>2, <1>3
<1>8. ASSUME NEW h \in S \cup {0}, NEW x, h # p, IsAbove(S, h, x)
      PROVE  IsAbove(S \cup {a}, h, x)
  <2>1. h \in Nat /\ (x # 0 => x \in S /\ x \in Nat /\ h < x)
    <3>1. h \in Nat /\ (x # 0 => x \in S /\ h < x)
      BY <1>8 DEF IsAbove, NULL
    <3> QED BY <1>1, <3>1
  <2>2. \A y \in S : h < y => x # 0 /\ x <= y
    BY <1>8 DEF IsAbove, NULL
  <2>3. h < a => x # 0 /\ x <= a
    <3> SUFFICES ASSUME h < a PROVE x # 0 /\ x <= a
      OBVIOUS
    <3>1. p \in S /\ h < p
      BY <1>1, <1>3, <1>8, <2>1
    <3> QED BY <1>1, <2>1, <2>2, <3>1
  <2> QED BY <1>1, <2>1, <2>2, <2>3 DEF IsAbove, NULL
<1>9. ASSUME NEW h \in S, NEW x, h # n, IsBelow(S, h, x)
      PROVE  IsBelow(S \cup {a}, h, x)
  <2>1. h \in Nat /\ (x # 0 => x \in S /\ x \in Nat /\ x < h)
    BY <1>1, <1>9 DEF IsBelow, NULL
  <2>2. \A y \in S : y < h => x # 0 /\ y <= x
    BY <1>9 DEF IsBelow, NULL
  <2>3. a < h => x # 0 /\ a <= x
    <3> SUFFICES ASSUME a < h PROVE x # 0 /\ a <= x
      OBVIOUS
    <3>1. p < h
      BY <1>1, <2>1
    <3>2. n \in S /\ n < h /\ a < n
      BY <1>1, <1>2, <1>9, <2>1, <3>1
    <3> QED BY <1>1, <2>1, <2>2, <3>2
  <2> QED BY <1>1, <2>1, <2>2, <2>3 DEF IsBelow, NULL
<1> QED BY <1>4, <1>5, <1>6, <1>7, <1>8, <1>9

(* An address c is taken out: the links on either side meet. *)
LEMMA RemoveLinks ==
  ASSUME NEW S, S \subseteq Nat \ {0}, NEW c \in S, NEW p, NEW n,
         IsAbove(S, c, n), IsBelow(S, c, p)
  PROVE  /\ p # NULL => p \in S \ {c}
         /\ n # NULL => n \in S \ {c}
         /\ n # NULL => n # p
         /\ IsAbove(S \ {c}, p, n)
         /\ n # NULL => IsBelow(S \ {c}, n, p)
         /\ \A h \in (S \ {c}) \cup {0} : \A x :
              h # p /\ IsAbove(S, h, x) => IsAbove(S \ {c}, h, x)
         /\ \A h \in S \ {c} : \A x : h # n /\ IsBelow(S, h, x) => IsBelow(S \ {c}, h, x)
         /\ \A x : IsAbove(S, 0, x) => (x = c <=> p = NULL)
<1>1. /\ \A y \in S : y \in Nat /\ 0 < y
      /\ n # 0 => n \in S /\ n \in Nat /\ c < n
      /\ p # 0 => p \in S /\ p \in Nat /\ p < c
  <2>1. \A y \in S : y \in Nat /\ 0 < y
    OBVIOUS
  <2>2. (n # 0 => n \in S /\ c < n) /\ (p # 0 => p \in S /\ p < c)
    BY DEF IsAbove, IsBelow, NULL
  <2> QED BY <2>1, <2>2
<1>2. /\ \A y \in S : c < y => n # 0 /\ n <= y
      /\ \A y \in S : y < c => p # 0 /\ y <= p
  BY DEF IsAbove, IsBelow, NULL
<1>3. \A y \in S \ {c} : (p # 0 /\ y <= p) \/ (n # 0 /\ n <= y)
  BY <1>1, <1>2
<1>4. IsAbove(S \ {c}, p, n)
  BY <1>1, <1>3 DEF IsAbove, NULL
<1>5. n # NULL => IsBelow(S \ {c}, n, p)
  BY <1>1, <1>3 DEF IsBelow, NULL
<1>6. ASSUME NEW h \in (S \ {c}) \cup {0}, NEW x, h # p, IsAbove(S, h, x)
      PROVE  IsAbove(S \ {c}, h, x)
  <2>1. h \in Nat /\ h # c /\ (x # 0 => x \in S /\ x \in Nat /\ h < x)
    <3>1. h \in Nat /\ h # c /\ (x # 0 => x \in S /\ h < x)
      BY <1>1, <1>6 DEF IsAbove, NULL
    <3> QED BY <1>1, <3>1
  <2>2. \A y \in S : h < y => x # 0 /\ x <= y
    BY <1>6 DEF IsAbove, NULL
  <2>3. x # c
    <3> SUFFICES ASSUME x = c PROVE FALSE
      OBVIOUS
    <3>1. p \in S /\ p < c /\ h < p
      BY <1>1, <1>2, <1>6, <2>1
    <3> QED BY <1>1, <2>2, <3>1
  <2> QED BY <1>1, <2>1, <2>2, <2>3 DEF IsAbove, NULL
<1>7. ASSUME NEW h \in S \ {c}, NEW x, h # n, IsBelow(S, h, x)
      PROVE  IsBelow(S \ {c}, h, x)
  <2>1. h \in Nat /\ h # c /\ (x # 0 => x \in S /\ x \in Nat /\ x < h)
    BY <1>1, <1>7 DEF IsBelow, NULL
  <2>2. \A y \in S : y < h => x # 0 /\ y <= x
    BY <1>7 DEF IsBelow, NULL
  <2>3. x # c
    <3> SUFFICES ASSUME x = c PROVE FALSE
      OBVIOUS
    <3>1. n \in S /\ c < n /\ n < h
      BY <1>1, <1>2, <1>7, <2>1
    <3> QED BY <1>1, <2>2, <3>1
  <2> QED BY <1>1, <2>1, <2>2, <2>3 DEF IsBelow, NULL
<1>8. ASSUME NEW x, IsAbove(S, 0, x) PROVE x = c <=> p = NULL
  <2>1. x \in S /\ \A y \in S : x <= y
    BY <1>1, <1>8 DEF IsAbove, NULL
  <2> QED BY <1>1, <1>2, <2>1 DEF NULL
<1>9. /\ p # NULL => p \in S \ {c}
      /\ n # NULL => n \in S \ {c}
      /\ n # NULL => n # p
  BY <1>1 DEF NULL
<1> QED BY <1>4, <1>5, <1>6, <1>7, <1>8, <1>9
-----------------------------------------------------------------------------
(* Sums over finite sets.  The library's induction theorems are about      *)
(* operators; that every non-empty set of numbers has a least one is about *)
(* sets, and carries the same inductions.                                  *)
LEMMA LeastNumber ==
  ASSUME NEW T, T \subseteq Nat, T # {}
  PROVE  \E n \in T : \A k \in T : n <= k
<1>1. PICK n \in T : \A k \in T : ~(<<k, n>> \in OpToRel(<, Nat))
  BY NatLessThanWellFounded, WFMin
<1>2. \A k \in T : ~(k < n)
  BY <1>1 DEF OpToRel
<1> QED BY <1>2

(* it[s] is the sum of the w[x] over s, for each part s of S, added up in  *)
(* the order of the library's fold; v is the sum over S.                   *)
Part(it, w, s) == LET x == CHOOSE x \in s : TRUE IN w[x] + it[s \ {x}]
Sums(it, w, S) == it = [s \in SUBSET S |-> IF s = {} THEN 0 ELSE Part(it, w, s)]
AddsUp(w, S, v) == \E it : Sums(it, w, S) /\ v = it[S]

(* What the CHOOSE takes from a set leaves a smaller one.                  *)
LEMMA OneLess ==
  ASSUME NEW S, IsFiniteSet(S), NEW s \in SUBSET S, s # {}, NEW x \in s
  PROVE  /\ IsFiniteSet(s) /\ s \ {x} \in SUBSET S
         /\ Cardinality(s) \in Nat /\ Cardinality(s \ {x}) \in Nat
         /\ Cardinality(s \ {x}) = Cardinality(s) - 1 /\ Cardinality(s) # 0
<1>1. IsFiniteSet(s)
  BY FS_Subset
<1>2. IsFiniteSet(s \ {x}) /\ Cardinality(s \ {x}) = Cardinality(s) - 1
  BY <1>1, FS_RemoveElement
<1>3. Cardinality(s) \in Nat /\ Cardinality(s \ {x}) \in Nat
  BY <1>1, <1>2, FS_CardinalityType
<1> QED BY <1>1, <1>2, <1>3

LEMMA SumsExist ==
  ASSUME NEW S, IsFiniteSet(S), NEW w \in [S -> Nat]
  PROVE  \E it \in [SUBSET S -> Nat] : Sums(it, w, S)
<1> DEFINE Upto(n, it) == \A s \in SUBSET S :
                            Cardinality(s) <= n =>
                              it[s] = IF s = {} THEN 0 ELSE Part(it, w, s)
           T == {n \in Nat : ~\E it \in [SUBSET S -> Nat] : Upto(n, it)}
<1>1. T = {}
  <2> SUFFICES ASSUME T # {} PROVE FALSE
    OBVIOUS
  <2>1. PICK n \in T : \A k \in T : n <= k
    BY LeastNumber
  <2>2. CASE n = 0
    <3>1. PICK it \in [SUBSET S -> Nat] : it = [s \in SUBSET S |-> 0]
      OBVIOUS
    <3>2. ASSUME NEW s \in SUBSET S, Cardinality(s) <= 0 PROVE s = {}
      BY <3>2, FS_Subset, FS_CardinalityType, FS_EmptySet
    <3>3. Upto(0, it)
      BY <3>1, <3>2
    <3> QED BY <2>1, <2>2, <3>3
  <2>3. CASE n # 0
    <3>1. n - 1 \in Nat /\ n - 1 \notin T
      <4>1. n \in Nat
        OBVIOUS
      <4> HIDE DEF T
      <4> QED BY <2>1, <2>3, <4>1
    <3>2. PICK it \in [SUBSET S -> Nat] : Upto(n - 1, it)
      BY <3>1
    <3> DEFINE jt == [s \in SUBSET S |->
                        IF Cardinality(s) = n THEN Part(it, w, s) ELSE it[s]]
    <3>3. ASSUME NEW s \in SUBSET S, s # {}
          PROVE  /\ Part(it, w, s) \in Nat
                 /\ Cardinality(s) <= n => Part(jt, w, s) = Part(it, w, s)
      <4>1. PICK x \in s : x = CHOOSE y \in s : TRUE
        BY <3>3
      <4>2. /\ s \ {x} \in SUBSET S /\ Cardinality(s) \in Nat
            /\ Cardinality(s \ {x}) = Cardinality(s) - 1
        BY <3>3, OneLess
      <4>3. w[x] \in Nat /\ it[s \ {x}] \in Nat
        BY <4>2
      <4>4. ASSUME Cardinality(s) <= n PROVE jt[s \ {x}] = it[s \ {x}]
        <5>1. Cardinality(s \ {x}) # n
          BY <2>1, <4>2, <4>4
        <5> QED BY <4>2, <5>1
      <4> HIDE DEF jt
      <4>5. Part(it, w, s) = w[x] + it[s \ {x}] /\ Part(jt, w, s) = w[x] + jt[s \ {x}]
        BY <4>1 DEF Part
      <4> QED BY <4>3, <4>4, <4>5
    <3>4. jt \in [SUBSET S -> Nat]
      <4>1. \A s \in SUBSET S : Cardinality(s) = n => s # {}
        BY <2>3, FS_EmptySet
      <4> QED BY <3>3, <4>1
    <3>5. ASSUME NEW s \in SUBSET S, Cardinality(s) <= n
          PROVE  jt[s] = IF s = {} THEN 0 ELSE Part(jt, w, s)
      <4>1. Cardinality(s) \in Nat /\ (s = {} => Cardinality(s) # n)
        BY <2>3, FS_Subset, FS_CardinalityType, FS_EmptySet
      <4>2. CASE s = {}
        <5>1. it[s] = 0
          BY <2>1, <2>3, <3>2, <4>2, FS_EmptySet
        <5> QED BY <4>1, <4>2, <5>1
      <4>3. CASE s # {} /\ Cardinality(s) = n
        BY <3>3, <3>5, <4>3
      <4>4. CASE s # {} /\ Cardinality(s) # n
        <5>1. Cardinality(s) <= n - 1
          BY <2>1, <3>5, <4>1, <4>4
        <5>2. jt[s] = Part(it, w, s)
          BY <3>2, <4>4, <5>1
        <5> QED BY <3>3, <3>5, <4>4, <5>2
      <4> QED BY <4>2, <4>3, <4>4
    <3>6. Upto(n, jt)
      BY <3>5
    <3> QED BY <2>1, <3>4, <3>6
  <2> QED BY <2>2, <2>3
<1>2. PICK it \in [SUBSET S -> Nat] : Upto(Cardinality(S), it)
  BY <1>1, FS_CardinalityType
<1>3. \A s \in SUBSET S : Cardinality(s) <= Cardinality(S)
  BY FS_Subset
<1>4. Sums(it, w, S)
  BY <1>2, <1>3 DEF Sums
<1> QED BY <1>4

(* The sum of a part is a number, and grows by what is put in.             *)
LEMMA SumsOfParts ==
  ASSUME NEW S, IsFiniteSet(S), NEW w \in [S -> Nat], NEW it, Sums(it, w, S)
  PROVE  /\ it[{}] = 0
         /\ \A s \in SUBSET S : it[s] \in Nat
         /\ \A s \in SUBSET S : \A x \in s : it[s] = it[s \ {x}] + w[x]
<1>0. it[{}] = 0
  BY DEF Sums
<1>1. \A s \in SUBSET S : s # {} => it[s] = Part(it, w, s)
  BY DEF Sums
<1>2. ASSUME NEW s \in SUBSET S, s # {}
      PROVE  \E c \in s : it[s] = w[c] + it[s \ {c}]
  <2>1. PICK c \in s : c = CHOOSE y \in s : TRUE
    BY <1>2
  <2>2. it[s] = w[c] + it[s \ {c}]
    BY <1>1, <1>2, <2>1 DEF Part
  <2> QED BY <2>2
<1> DEFINE N == {n \in Nat : \E s \in SUBSET S : Cardinality(s) = n /\ it[s] \notin Nat}
<1>3. N = {}
  <2> SUFFICES ASSUME N # {} PROVE FALSE
    OBVIOUS
  <2>1. PICK n \in N : \A k \in N : n <= k
    BY LeastNumber
  <2>2. PICK s \in SUBSET S : n \in Nat /\ Cardinality(s) = n /\ it[s] \notin Nat
    OBVIOUS
  <2> HIDE DEF N
  <2>3. s # {}
    BY <1>0, <2>2
  <2>4. PICK c \in s : it[s] = w[c] + it[s \ {c}]
    BY <1>2, <2>3
  <2>5. /\ s \ {c} \in SUBSET S /\ Cardinality(s \ {c}) \in Nat
        /\ Cardinality(s \ {c}) = n - 1
    BY <2>2, <2>3, OneLess
  <2>6. Cardinality(s \ {c}) \notin N
    BY <2>1, <2>2, <2>5
  <2>7. it[s \ {c}] \in Nat /\ w[c] \in Nat
    BY <2>5, <2>6 DEF N
  <2> QED BY <2>2, <2>4, <2>7
<1>4. ASSUME NEW s \in SUBSET S PROVE it[s] \in Nat
  BY <1>3, FS_Subset, FS_CardinalityType
<1> DEFINE M == {n \in Nat : \E s \in SUBSET S : \E x \in s :
                               Cardinality(s) = n /\ it[s] # it[s \ {x}] + w[x]}
<1>5. M = {}
  <2> SUFFICES ASSUME M # {} PROVE FALSE
    OBVIOUS
  <2>1. PICK n \in M : \A k \in M : n <= k
    BY LeastNumber
  <2>2. PICK s \in SUBSET S, x \in S :
          n \in Nat /\ x \in s /\ Cardinality(s) = n /\ it[s] # it[s \ {x}] + w[x]
    OBVIOUS
  <2> HIDE DEF N, M
  <2>3. PICK c \in s : it[s] = w[c] + it[s \ {c}]
    <3>1. s # {}
      BY <2>2
    <3> QED BY <1>2, <3>1
  <2>4. /\ w[c] \in Nat /\ w[x] \in Nat /\ s \ {c} \in SUBSET S /\ s \ {x} \in SUBSET S
        /\ it[s \ {c}] \in Nat /\ it[s \ {x}] \in Nat
    BY <1>4
  <2>5. c # x
    <3> SUFFICES ASSUME c = x PROVE FALSE
      OBVIOUS
    <3>1. it[s] = w[x] + it[s \ {x}]
      BY <2>3
    <3> QED BY <2>2, <2>4, <3>1
  <2>6. /\ Cardinality(s \ {c}) \in Nat /\ Cardinality(s \ {c}) = n - 1
        /\ Cardinality(s \ {x}) \in Nat /\ Cardinality(s \ {x}) = n - 1
    BY <2>2, OneLess
  <2>7. Cardinality(s \ {c}) \notin M /\ Cardinality(s \ {x}) \notin M
    BY <2>1, <2>2, <2>6
  <2>8. x \in s \ {c} /\ c \in s \ {x}
    BY <2>2, <2>5
  <2>9. it[s \ {c}] = it[(s \ {c}) \ {x}] + w[x]
    BY <2>4, <2>6, <2>7, <2>8 DEF M
  <2>10. it[s \ {x}] = it[(s \ {x}) \ {c}] + w[c]
    BY <2>4, <2>6, <2>7, <2>8 DEF M
  <2>11. (s \ {c}) \ {x} = (s \ {x}) \ {c} /\ it[(s \ {x}) \ {c}] \in Nat
    BY <1>4
  <2> QED BY <2>2, <2>3, <2>4, <2>9, <2>10, <2>11, SMTT(30)
<1>6. ASSUME NEW s \in SUBSET S, NEW x \in s PROVE it[s] = it[s \ {x}] + w[x]
  BY <1>5, FS_Subset, FS_CardinalityType
<1> QED BY <1>0, <1>4, <1>6

LEMMA SumsGrow ==
  ASSUME NEW S, IsFiniteSet(S), NEW w \in [S -> Nat], NEW it, Sums(it, w, S),
         NEW s \in SUBSET S, NEW x \in s
  PROVE  it[s] = it[s \ {x}] + w[x]
  BY SumsOfParts

(* What is asked of a sum, in a form that other facts do not obscure.      *)
Totals(it, w, S) ==
  /\ it[{}] = 0 /\ \A s \in SUBSET S : it[s] \in Nat
  /\ \A s \in SUBSET S : \A x \in s : it[s] = it[s \ {x}] + w[x]

LEMMA SumsAreTotals ==
  ASSUME NEW S, IsFiniteSet(S), NEW w \in [S -> Nat], NEW it, Sums(it, w, S)
  PROVE  Totals(it, w, S)
<1>1. it[{}] = 0 /\ \A s \in SUBSET S : it[s] \in Nat
  BY SumsOfParts
<1> SUFFICES ASSUME NEW s \in SUBSET S, NEW x \in s PROVE it[s] = it[s \ {x}] + w[x]
  BY <1>1 DEF Totals
<1> QED BY SumsGrow

(* Where two tables agree, so do their sums.                               *)
LEMMA SumsAgree ==
  ASSUME NEW S, IsFiniteSet(S), NEW w \in [S -> Nat], NEW it, Sums(it, w, S),
         NEW R, IsFiniteSet(R), NEW u \in [R -> Nat], NEW jt, Sums(jt, u, R),
         NEW t, t \in SUBSET S, t \in SUBSET R,
         \A x \in t : w[x] = u[x]
  PROVE  it[t] = jt[t]
<1>0. Totals(it, w, S) /\ Totals(jt, u, R)
  BY SumsAreTotals
<1>1. it[{}] = 0 /\ jt[{}] = 0
  BY <1>0 DEF Totals
<1> DEFINE N == {n \in Nat : \E s \in SUBSET t : Cardinality(s) = n /\ it[s] # jt[s]}
<1>2. N = {}
  <2> SUFFICES ASSUME N # {} PROVE FALSE
    OBVIOUS
  <2>1. PICK n \in N : \A k \in N : n <= k
    BY LeastNumber
  <2>2. PICK s \in SUBSET t : n \in Nat /\ Cardinality(s) = n /\ it[s] # jt[s]
    OBVIOUS
  <2> HIDE DEF N
  <2>3. s # {}
    BY <1>1, <2>2
  <2>4. PICK c : c \in s
    BY <2>3
  <2>5. s \in SUBSET S /\ s \in SUBSET R /\ s \ {c} \in SUBSET t /\ w[c] = u[c]
    BY <2>4
  <2>6. Cardinality(s \ {c}) \in Nat /\ Cardinality(s \ {c}) = n - 1
    BY <2>2, <2>3, <2>4, <2>5, OneLess
  <2>7. Cardinality(s \ {c}) \notin N
    BY <2>1, <2>2, <2>6
  <2>8. it[s \ {c}] = jt[s \ {c}]
    BY <2>5, <2>6, <2>7 DEF N
  <2>9. it[s] = it[s \ {c}] + w[c]
    BY <1>0, <2>4, <2>5 DEF Totals
  <2>10. jt[s] = jt[s \ {c}] + u[c]
    BY <1>0, <2>4, <2>5 DEF Totals
  <2> QED BY <2>2, <2>5, <2>8, <2>9, <2>10
<1>3. Cardinality(t) \in Nat
  BY FS_Subset, FS_CardinalityType
<1> QED BY <1>2, <1>3

LEMMA AddsUpEmpty ==
  ASSUME NEW w \in [{} -> Nat]
  PROVE  AddsUp(w, {}, 0)
<1>1. PICK it : Sums(it, w, {})
  BY FS_EmptySet, SumsExist
<1>2. it[{}] = 0
  BY <1>1 DEF Sums
<1> QED BY <1>1, <1>2 DEF AddsUp

LEMMA AddsUpIs ==
  ASSUME NEW S, IsFiniteSet(S), NEW w \in [S -> Nat], NEW v, AddsUp(w, S, v)
  PROVE  v \in Nat /\ \A x : AddsUp(w, S, x) => x = v
<1>1. PICK it : Sums(it, w, S) /\ v = it[S]
  BY DEF AddsUp
<1>2. v \in Nat
  BY <1>1, SumsOfParts
<1>3. ASSUME NEW x, AddsUp(w, S, x) PROVE x = v
  <2>1. PICK jt : Sums(jt, w, S) /\ x = jt[S]
    BY <1>3 DEF AddsUp
  <2>2. it[S] = jt[S]
    BY <1>1, <2>1, SumsAgree
  <2> QED BY <1>1, <2>1, <2>2
<1> QED BY <1>2, <1>3

LEMMA AddsUpInsert ==
  ASSUME NEW S, IsFiniteSet(S), NEW w \in [S -> Nat], NEW v, AddsUp(w, S, v),
         NEW a, a \notin S, NEW u \in [S \cup {a} -> Nat], \A x \in S : u[x] = w[x]
  PROVE  IsFiniteSet(S \cup {a}) /\ AddsUp(u, S \cup {a}, v + u[a])
<1> DEFINE R == S \cup {a}
<1>1. IsFiniteSet(R)
  BY FS_AddElement
<1>2. PICK it : Sums(it, w, S) /\ v = it[S]
  BY DEF AddsUp
<1>3. PICK jt : Sums(jt, u, R)
  BY <1>1, SumsExist
<1>4. jt[R] = jt[R \ {a}] + u[a]
  <2>1. Totals(jt, u, R)
    BY <1>1, <1>3, SumsAreTotals
  <2> QED BY <2>1 DEF Totals
<1>5. R \ {a} = S
  OBVIOUS
<1>6. it[S] = jt[S]
  <2>1. u \in [R -> Nat] /\ S \in SUBSET R /\ \A x \in S : w[x] = u[x]
    OBVIOUS
  <2> HIDE DEF R
  <2> QED BY <1>1, <1>2, <1>3, <1>5, <2>1, SumsAgree
<1> QED BY <1>1, <1>2, <1>3, <1>4, <1>5, <1>6 DEF AddsUp

LEMMA AddsUpRemove ==
  ASSUME NEW S, IsFiniteSet(S), NEW w \in [S -> Nat], NEW v, AddsUp(w, S, v),
         NEW c \in S, NEW u \in [S \ {c} -> Nat], \A x \in S \ {c} : u[x] = w[x]
  PROVE  IsFiniteSet(S \ {c}) /\ AddsUp(u, S \ {c}, v - w[c])
<1> DEFINE R == S \ {c}
<1>1. IsFiniteSet(R)
  BY FS_RemoveElement
<1>2. PICK it : Sums(it, w, S) /\ v = it[S]
  BY DEF AddsUp
<1>3. PICK jt : Sums(jt, u, R)
  BY <1>1, SumsExist
<1>4. it[S] = it[R] + w[c] /\ it[R] \in Nat
  <2>1. Totals(it, w, S)
    BY <1>2, SumsAreTotals
  <2> QED BY <2>1 DEF Totals
<1>5. w[c] \in Nat
  OBVIOUS
<1>6. it[R] = jt[R]
  <2>1. u \in [R -> Nat] /\ R \in SUBSET S /\ \A x \in R : w[x] = u[x]
    OBVIOUS
  <2> HIDE DEF R
  <2> QED BY <1>1, <1>2, <1>3, <2>1, SumsAgree
<1> QED BY <1>1, <1>2, <1>3, <1>4, <1>5, <1>6 DEF AddsUp

(* The library's fold adds up the sum, whether of sizes or of the room     *)
(* that blocks take.                                                       *)
SizesFold(it, f, S) ==
  it = [s \in SUBSET S |-> IF s = {} THEN 0
                           ELSE LET x == CHOOSE x \in s : TRUE
                                IN  f[x].size + it[s \ {x}]]
RoomsFold(it, k, f, S) ==
  it = [s \in SUBSET S |-> IF s = {} THEN 0
                           ELSE LET x == CHOOSE x \in s : TRUE
                                IN  k + f[x].size + it[s \ {x}]]

LEMMA FoldOfSizes ==
  ASSUME NEW S, IsFiniteSet(S), NEW f, \A x \in S : f[x].size \in Nat,
         NEW v, AddsUp([x \in S |-> f[x].size], S, v)
  PROVE  /\ \E it : SizesFold(it, f, S)
         /\ \A it : SizesFold(it, f, S) => it[S] = v
<1> DEFINE w == [x \in S |-> f[x].size]
<1>1. \A it : Sums(it, w, S) <=> SizesFold(it, f, S)
  <2> SUFFICES ASSUME NEW it, NEW s \in SUBSET S, s # {}
               PROVE  Part(it, w, s) = LET x == CHOOSE x \in s : TRUE
                                       IN  f[x].size + it[s \ {x}]
    BY ZenonT(40) DEF Sums, SizesFold
  <2>1. PICK x \in s : x = CHOOSE y \in s : TRUE
    OBVIOUS
  <2>2. w[x] = f[x].size
    OBVIOUS
  <2> HIDE DEF w
  <2> QED BY <2>1, <2>2 DEF Part
<1>2. w \in [S -> Nat] /\ AddsUp(w, S, v)
  OBVIOUS
<1> HIDE DEF w
<1>3. \E it : Sums(it, w, S)
  BY <1>2, SumsExist
<1>4. \A it : Sums(it, w, S) => it[S] = v
  BY <1>2, AddsUpIs DEF AddsUp
<1> QED BY <1>1, <1>3, <1>4

LEMMA FoldOfRooms ==
  ASSUME NEW S, IsFiniteSet(S), NEW f, NEW k \in Nat, \A x \in S : f[x].size \in Nat,
         NEW v, AddsUp([x \in S |-> k + f[x].size], S, v)
  PROVE  /\ \E it : RoomsFold(it, k, f, S)
         /\ \A it : RoomsFold(it, k, f, S) => it[S] = v
<1> DEFINE w == [x \in S |-> k + f[x].size]
<1>1. \A it : Sums(it, w, S) <=> RoomsFold(it, k, f, S)
  <2> SUFFICES ASSUME NEW it, NEW s \in SUBSET S, s # {}
               PROVE  Part(it, w, s) = LET x == CHOOSE x \in s : TRUE
                                       IN  k + f[x].size + it[s \ {x}]
    BY ZenonT(40) DEF Sums, RoomsFold
  <2>1. PICK x \in s : x = CHOOSE y \in s : TRUE
    OBVIOUS
  <2>2. w[x] = k + f[x].size
    OBVIOUS
  <2> HIDE DEF w
  <2> QED BY <2>1, <2>2 DEF Part
<1>2. w \in [S -> Nat] /\ AddsUp(w, S, v)
  OBVIOUS
<1> HIDE DEF w
<1>3. \E it : Sums(it, w, S)
  BY <1>2, SumsExist
<1>4. \A it : Sums(it, w, S) => it[S] = v
  BY <1>2, AddsUpIs DEF AddsUp
<1> QED BY <1>1, <1>3, <1>4
-----------------------------------------------------------------------------
(* Sizes and addresses.                                                    *)

LEMMA DivBounds ==
  ASSUME NEW a \in Nat, NEW b \in Nat, 0 < b
  PROVE  /\ a \div b \in Nat
         /\ (a \div b) * b <= a /\ a < (a \div b) * b + b
  OBVIOUS

LEMMA DivExact ==
  ASSUME NEW a \in Nat, NEW b \in Nat, 0 < b
  PROVE  (a * b) \div b = a
  OBVIOUS

LEMMA ProductsGrow ==
  ASSUME NEW a \in Nat, NEW b \in Nat, NEW c \in Nat, a <= b
  PROVE  a * c \in Nat /\ a * c <= b * c
<1>1. PICK d \in Nat : b = a + d
  <2>1. b - a \in Nat /\ b = a + (b - a)
    OBVIOUS
  <2> QED BY <2>1
<1>2. b * c = a * c + d * c /\ d * c \in Nat /\ a * c \in Nat
  BY <1>1
<1> QED BY <1>1, <1>2

LEMMA ModOnce ==
  ASSUME NEW a \in Nat, NEW n \in Nat, n <= a, a < n + n
  PROVE  a % n = a - n
  OBVIOUS

LEMMA ModFromZero ==
  ASSUME NEW a \in Nat, NEW n \in Nat, NEW k \in Nat, a % n = 0, k < n
  PROVE  (a + k) % n = k
<1>1. PICK q \in Nat : a = q * n
  <2>1. a \div n \in Nat /\ a = (a \div n) * n
    OBVIOUS
  <2> QED BY <2>1
<1>2. q * n + k >= 0 /\ (q * n + k) % n = k
  OBVIOUS
<1> QED BY <1>1, <1>2

(* ALIGN leaves the pointer aligned and the byte UNALIGN reads below it.   *)
LEMMA AlignBounds ==
  ASSUME NEW p \in Nat
  PROVE  /\ AlignInfo(p) \in ALIGN_INFO .. ALIGN_INFO + ALIGNMENT - 1
         /\ (p + AlignInfo(p)) % ALIGNMENT = 0
  BY DEF AlignInfo, ALIGN_INFO, ALIGNMENT

LEMMA PageSizeNat == PageSize \in Nat /\ 0 < PageSize /\ l_pageSize \in Nat /\ 0 < l_pageSize
<1>1. PageUnits \in Nat /\ 0 < PageUnits /\ l_pageSize \in Nat /\ 0 < l_pageSize
  BY PagingAssumption, LiballocAssumption
<1>2. PageUnits * l_pageSize \in Nat /\ 0 < PageUnits * l_pageSize
  BY <1>1
<1> QED BY <1>1, <1>2 DEF PageSize

(* allocate_new_page asks for enough, and as Paging says. *)
LEMMA PagesForEnough ==
  ASSUME NEW req \in Requests
  PROVE  /\ req \in Nat
         /\ PagesFor(req) \in l_pageCount .. MaxChunk
         /\ PagesFor(req) \in Nat /\ 2 <= PagesFor(req)
         /\ PagesFor(req) * l_pageSize \in Nat
         /\ MAJOR + Need(req) <= PagesFor(req) * l_pageSize
<1> DEFINE x == SizeOf(req) + MAJOR + MINOR
           st == (x + l_pageSize - 1) \div l_pageSize
<1>1. /\ req \in Nat /\ l_pageSize \in Nat /\ 0 < l_pageSize
      /\ l_pageCount \in Nat /\ 2 <= l_pageCount /\ MaxChunk \in Nat
  BY LiballocAssumption, PagingAssumption
<1>2. x \in Nat /\ x = MAJOR + Need(req)
  BY <1>1 DEF SizeOf, Need, MAJOR, MINOR, ALIGNMENT, ALIGN_INFO
<1>3. PagesFor(req) = IF st < l_pageCount THEN l_pageCount ELSE st
  BY DEF PagesFor
<1> HIDE DEF x
<1>4. st \in Nat /\ x <= st * l_pageSize
  <2>1. x + l_pageSize - 1 \in Nat
    BY <1>1, <1>2
  <2>2. st \in Nat /\ x + l_pageSize - 1 < st * l_pageSize + l_pageSize
    BY <1>1, <2>1, DivBounds
  <2>3. st * l_pageSize \in Nat
    BY <1>1, <2>2
  <2> HIDE DEF st
  <2> QED BY <1>1, <1>2, <2>2, <2>3
<1> HIDE DEF st
<1>5. /\ PagesFor(req) \in Nat /\ 2 <= PagesFor(req)
      /\ l_pageCount <= PagesFor(req) /\ st <= PagesFor(req)
  BY <1>1, <1>3, <1>4
<1>6. PagesFor(req) <= MaxChunk
  BY RequestsAssumption
<1>7. st * l_pageSize <= PagesFor(req) * l_pageSize /\ st * l_pageSize \in Nat
  BY <1>1, <1>4, <1>5, ProductsGrow
<1>8. PagesFor(req) * l_pageSize \in Nat
  BY <1>1, <1>5
<1> QED BY <1>1, <1>2, <1>4, <1>5, <1>6, <1>7, <1>8

(* A region ends before the next one the allocator will give out: n >= 2   *)
(* liballoc pages fit in n - 1 kernel pages.                               *)
LEMMA RegionEndsBefore ==
  ASSUME NEW b \in Nat, NEW n \in Nat, 2 <= n, NEW k \in Nat, n - 1 <= k
  PROVE  /\ b * PageSize + n * l_pageSize <= (b + k) * PageSize
         /\ b * PageSize \in Nat /\ n * l_pageSize \in Nat
<1>1. PageUnits \in Nat /\ 2 <= PageUnits /\ l_pageSize \in Nat /\ PageSize \in Nat
  BY PagingAssumption, PageSizeNat
<1>2. n <= k * PageUnits /\ k * PageUnits \in Nat
  <2>1. 2 * k <= PageUnits * k
    BY <1>1, ProductsGrow
  <2>2. PageUnits * k = k * PageUnits /\ k * PageUnits \in Nat
    BY <1>1
  <2> QED BY <2>1, <2>2
<1>3. n * l_pageSize <= (k * PageUnits) * l_pageSize
  BY <1>1, <1>2, ProductsGrow
<1>4. (k * PageUnits) * l_pageSize = k * PageSize
  BY <1>1 DEF PageSize
<1>5. /\ (b + k) * PageSize = b * PageSize + k * PageSize
      /\ b * PageSize \in Nat /\ k * PageSize \in Nat /\ n * l_pageSize \in Nat
  BY <1>1
<1> QED BY <1>3, <1>4, <1>5

LEMMA NextRegion ==
  ASSUME NEW b \in Nat, NEW c \in Nat, NEW n \in Nat, 2 <= n, n - 1 <= c - b
  PROVE  /\ b * PageSize \in Nat /\ c * PageSize \in Nat /\ b * PageSize <= c * PageSize
         /\ b * PageSize + n * l_pageSize <= c * PageSize
<1>1. PICK k \in Nat : c = b + k /\ n - 1 <= k
  <2>1. c - b \in Nat /\ c = b + (c - b)
    OBVIOUS
  <2> QED BY <2>1
<1>2. b * PageSize + n * l_pageSize <= c * PageSize
  BY <1>1, RegionEndsBefore
<1>3. b <= c /\ PageSize \in Nat
  BY <1>1, PageSizeNat
<1>4. b * PageSize <= c * PageSize /\ b * PageSize \in Nat /\ c * PageSize \in Nat
  BY <1>3, ProductsGrow
<1> QED BY <1>2, <1>4
-----------------------------------------------------------------------------
(* The page allocator under the heap.                                      *)

LEMMA HeapInitInv ==
  ASSUME HeapInit
  PROVE  HeapInv
<1>1. PagingInv
  BY PagingInitInv DEF HeapInit
<1>2. HeapTypes
  BY DEF HeapInit, HeapTypes, Idle, Calls, NULL
<1>3. Live = {} /\ DOMAIN majors = {} /\ DOMAIN minors = {}
  BY DEF HeapInit, Live
<1>4. WrapsToNothing
  BY PagingAssumption DEF HeapInit, PagingInit, WrapsToNothing, NotPresent, Pages
<1>5. MajorsPlaced(majors) /\ MajorsListed(majors) /\ l_bestBet = NULL /\ EmptyIsFilled
  BY <1>3 DEF HeapInit, MajorsPlaced, MajorsListed, EmptyIsFilled, IsAbove
<1>6. BlocksIn(majors)
  BY <1>3 DEF BlocksIn, BlocksPlaced, BlocksListed
<1>7. CallInv /\ CopyFits
  BY DEF HeapInit, Idle, CallInv, CopyFits, Searching
<1> QED BY <1>1, <1>2, <1>4, <1>5, <1>6, <1>7 DEF HeapInv

(* A search that finds every major full asks for pages as Paging says, and *)
(* what it obtains is above every major, or beyond the directory's end.    *)
LEMMA GrowthStep ==
  ASSUME HeapInv, call.pc \in Searching, NoneEmpty,
         liballoc_alloc(PagesFor(call.req_size))
  PROVE  /\ Allocate
         /\ ~malloc_lock /\ malloc_lock' = malloc_lock
         /\ \A p \in 1 .. KernelPage - 1 : ~page_directory'[p].present
         /\ mem_current' = (current_page' - 1) % NumPages
         /\ InDirectory' => InDirectory /\ mem_current < mem_current'
                            /\ PagesFor(call.req_size) - 1 <= mem_current' - mem_current
         /\ OutOfMemory \/ Unmapped => ~InDirectory
         /\ ~OutOfMemory /\ ~Unmapped => InDirectory
         /\ ~InDirectory' /\ ~Unmapped => mem_current' < KernelPage
         /\ regions \subseteq regions' /\ released' = released
<1> DEFINE pages == PagesFor(call.req_size)
           k == PagesMapped(pages)
<1>1. /\ PagingInv /\ PagingTypeOK /\ ~malloc_lock /\ call.req_size \in Requests
      /\ current_page + k <= MaxPage
  BY DEF HeapInv, PagingInv, CallInv, WithinBounds
<1>2. pages \in l_pageCount .. MaxChunk /\ pages \in Nat /\ 2 <= pages
  BY <1>1, PagesForEnough
<1>3. k \in Nat /\ pages - 1 <= k /\ k <= pages
  <2>1. k \in Nat /\ pages - 1 <= k
    BY <1>1, <1>2, PagesMappedBounds
  <2>2. k <= pages
    BY <1>2 DEF PagesMapped
  <2> QED BY <2>1, <2>2
<1>4. Allocate
  BY <1>1, <1>2 DEF Allocate
<1> HIDE DEF pages, k
<1>5. /\ NumPages \in Nat /\ KernelPage \in Nat /\ HeapBasePage \in Nat
      /\ 0 < KernelPage /\ KernelPage + 1 < HeapBasePage /\ HeapBasePage < NumPages
      /\ MaxChunk \in Nat /\ MaxChunk < KernelPage /\ Pages = 0 .. NumPages - 1
  BY PagingAssumption, RequestsAssumption DEF Pages
<1>6. 0 < k /\ k < KernelPage
  BY <1>2, <1>3, <1>5
<1>7. /\ current_page \in Nat /\ HeapBasePage < current_page /\ mem_current \in Nat
      /\ page_directory \in [Pages -> Entries]
  BY <1>1, <1>5 DEF PagingInv, PagingTypeOK, AfterBoot
<1>8. /\ get_free_page(page_directory, k) /\ mem_current' = FreePageAddress(k)
      /\ malloc_lock' = malloc_lock /\ regions \subseteq regions' /\ released' = released
  BY <1>6 DEF liballoc_alloc, pages, k
<1>9. current_page' = current_page + k
  BY <1>8 DEF get_free_page, MapPages
<1>10. /\ mem_current' = (current_page + k - 1) % NumPages
       /\ mem_current' = (current_page' - 1) % NumPages
  BY <1>3, <1>5, <1>7, <1>8, <1>9 DEF FreePageAddress
<1>11. \A p \in 1 .. KernelPage - 1 : ~page_directory'[p].present
  <2> TAKE p \in 1 .. KernelPage - 1
  <2>1. p \in Pages /\ p \notin current_page .. current_page + k - 1
    BY <1>3, <1>5, <1>7
  <2>2. page_directory'[p] = page_directory[p]
    BY <1>8, <2>1 DEF get_free_page, MapPages
  <2> QED BY <2>2 DEF HeapInv, WrapsToNothing
<1>12. PagingInv'
  BY <1>1, <1>4, PagingStepInv DEF PagingNext
<1>13. ASSUME InDirectory
       PROVE  mem_current = current_page - 1 /\ ~OutOfMemory /\ ~Unmapped
  <2>1. mem_current = current_page - 1
    BY <1>1, <1>13 DEF PagingInv, AfterBoot
  <2>2. mem_current \in Pages /\ mem_current \in HeapBasePage .. current_page - 1
    BY <1>1, <1>5, <1>7, <2>1 DEF PagingTypeOK
  <2>3. page_directory[mem_current].present
    BY <1>1, <1>13, <2>2, DirectoryContents
  <2> QED BY <1>5, <2>1, <2>2, <2>3 DEF OutOfMemory, Unmapped, NULL
<1>14. InDirectory' => InDirectory /\ mem_current' = current_page' - 1
  BY <1>1, <1>3, <1>5, <1>7, <1>8, <1>9, <1>12 DEF InDirectory, PagingInv, AfterBoot
<1>15. InDirectory' => InDirectory /\ mem_current < mem_current'
                       /\ pages - 1 <= mem_current' - mem_current
  BY <1>2, <1>3, <1>6, <1>7, <1>9, <1>13, <1>14
<1>16. ~OutOfMemory /\ ~Unmapped => InDirectory
  <2> SUFFICES ASSUME ~InDirectory, ~OutOfMemory, ~Unmapped PROVE FALSE
    OBVIOUS
  <2>1. mem_current < KernelPage
    BY <1>1 DEF HeapInv, WrapsToNothing, Searching
  <2>2. mem_current \in 1 .. KernelPage - 1
    BY <1>5, <1>7, <2>1 DEF OutOfMemory, NULL
  <2> QED BY <2>2 DEF HeapInv, WrapsToNothing, Unmapped, OutOfMemory
<1>17. ASSUME ~InDirectory', ~Unmapped PROVE mem_current' < KernelPage
  <2>1. CASE InDirectory
    <3>1. current_page <= NumPages /\ NumPages < current_page + k
      BY <1>3, <1>5, <1>7, <1>9, <1>17, <2>1 DEF InDirectory
    <3>2. /\ current_page + k - 1 \in Nat /\ NumPages <= current_page + k - 1
          /\ current_page + k - 1 < NumPages + NumPages
      BY <1>3, <1>5, <1>6, <1>7, <3>1
    <3>3. mem_current' = current_page + k - 1 - NumPages
      <4>1. PICK a \in Nat : a = current_page + k - 1
        BY <3>2
      <4>2. a % NumPages = a - NumPages
        BY <1>5, <3>2, <4>1, ModOnce
      <4>3. mem_current' = a % NumPages
        BY <1>10, <4>1, Zenon
      <4> QED BY <1>3, <1>5, <1>7, <4>1, <4>2, <4>3
    <3> QED BY <1>3, <1>5, <1>6, <1>7, <3>1, <3>3
  <2>2. CASE ~InDirectory
    <3>1. mem_current = 0
      BY <1>16, <1>17, <2>2 DEF OutOfMemory, NULL
    <3>2. (current_page - 1) % NumPages = 0
      BY <1>1, <3>1 DEF HeapInv, WrapsToNothing
    <3>3. current_page - 1 \in Nat /\ k < NumPages
      BY <1>3, <1>5, <1>6, <1>7
    <3>4. (current_page - 1 + k) % NumPages = k
      BY <1>3, <1>5, <3>2, <3>3, ModFromZero
    <3>5. current_page' - 1 = current_page - 1 + k
      BY <1>3, <1>7, <1>9
    <3> QED BY <1>6, <1>10, <3>4, <3>5
  <2> QED BY <2>1, <2>2
<1> QED BY <1>1, <1>4, <1>8, <1>10, <1>11, <1>13, <1>15, <1>16, <1>17 DEF pages
-----------------------------------------------------------------------------
(* A block is placed: in major m of the table mj, at a, above the block p  *)
(* or the header of m, and with room for the request below the block n or  *)
(* the end of m.                                                           *)
Gap(mj, m, a, p, n) ==
  /\ m + MAJOR <= a
  /\ p \in MinorsOf(m) \cup {NULL}
  /\ IsAbove(MinorsOf(m), p, n)
  /\ p # NULL => EndOfMinor(p) <= a
  /\ n # NULL => a + Need(call.req_size) <= n
  /\ n = NULL => a + Need(call.req_size) <= m + mj[m].size

(* malloc places a block, in a major of the table mj. *)
Places(mj, m, a, p, n) ==
  /\ mj \in [DOMAIN mj -> MajorRecords] /\ DOMAIN mj \subseteq Nat \ {0}
  /\ BlocksIn(mj) /\ \A x, y \in DOMAIN mj : x < y => x + mj[x].size <= y
  /\ m \in DOMAIN mj /\ a \in Nat
  /\ Gap(mj, m, a, p, n) /\ Place(mj, m, a, p, n, a)

(* What the headers are afterwards. *)
LEMMA PlaceFields ==
  ASSUME HeapTypes, NEW mj, mj \in [DOMAIN mj -> MajorRecords],
         DOMAIN mj \subseteq Nat \ {0}, BlocksIn(mj),
         \A x, y \in DOMAIN mj : x < y => x + mj[x].size <= y,
         NEW m \in DOMAIN mj, NEW a \in Nat, NEW p, NEW n,
         Gap(mj, m, a, p, n), Place(mj, m, a, p, n, a)
  PROVE  /\ a \notin Live /\ Live' = Live \cup {a}
         /\ MinorsOf(m)' = MinorsOf(m) \cup {a}
         /\ \A x : x # m => MinorsOf(x)' = MinorsOf(x)
         /\ \A h \in Live :
              /\ minors'[h].block = minors[h].block /\ minors'[h].size = minors[h].size
              /\ minors'[h].info = minors[h].info
              /\ minors'[h].req_size = minors[h].req_size
              /\ minors'[h].next = IF h = p THEN a ELSE minors[h].next
              /\ minors'[h].prev = IF h = n THEN a ELSE minors[h].prev
         /\ minors'[a].block = m /\ minors'[a].size = SizeOf(call.req_size)
         /\ minors'[a].info = AlignInfo(a + MINOR)
         /\ minors'[a].req_size = call.req_size
         /\ minors'[a].next = n /\ minors'[a].prev = p
         /\ minors' \in [DOMAIN minors' -> MinorRecords]
         /\ DOMAIN minors' \subseteq Nat \ {0}
         /\ majors' \in [DOMAIN mj -> MajorRecords] /\ DOMAIN majors' = DOMAIN mj
         /\ \A x \in DOMAIN mj :
              /\ majors'[x].pages = mj[x].pages /\ majors'[x].size = mj[x].size
              /\ majors'[x].next = mj[x].next /\ majors'[x].prev = mj[x].prev
              /\ majors'[x].first = IF x = m /\ p = NULL THEN a ELSE mj[x].first
         /\ 0 < a /\ (n # NULL => n \in MinorsOf(m) /\ a < n) /\ p < a
<1> DEFINE req == call.req_size
           kept == {h \in DOMAIN minors : h \in Live \/ ~Overwritten(h, a, req)} \ {a}
           new == [prev |-> p, next |-> n, block |-> m, magic |-> "MAGIC",
                   size |-> SizeOf(req), req_size |-> req, info |-> AlignInfo(a + MINOR)]
<1>1. /\ minors' = [h \in kept \cup {a} |->
                      CASE h = a -> new
                        [] h = p -> [minors[h] EXCEPT !.next = a]
                        [] h = n -> [minors[h] EXCEPT !.prev = a]
                        [] OTHER -> minors[h]]
      /\ majors' = [mj EXCEPT ![m].usage = @ + Need(req),
                              ![m].first = IF p = NULL THEN a ELSE @]
  BY DEF Place
<1>2. req \in Nat /\ m \in Nat /\ 0 < m /\ Need(req) \in Nat /\ SizeOf(req) \in Nat
      /\ 56 <= Need(req) /\ m + 24 <= a /\ 0 < a
  BY DEF HeapTypes, Calls, Need, SizeOf, MINOR, MAJOR, ALIGNMENT, ALIGN_INFO, Gap
<1>3. \A h \in DOMAIN minors : minors[h] \in MinorRecords /\ h \in Nat /\ 0 < h
  BY DEF HeapTypes
<1>4. Live \subseteq DOMAIN minors /\ \A x : MinorsOf(x) \subseteq Live
  BY DEF Live, MinorsOf
<1>5. /\ p # NULL => p \in MinorsOf(m) /\ EndOfMinor(p) <= a
      /\ n # NULL => n \in MinorsOf(m) /\ a + Need(req) <= n
  BY DEF Gap, IsAbove
<1>6. p \in Nat /\ p < a
  <2>1. CASE p = NULL
    BY <1>2, <2>1 DEF NULL
  <2>2. CASE p # NULL
    <3>1. p \in DOMAIN minors
      BY <1>4, <1>5, <2>2
    <3>2. p \in Nat /\ minors[p].size \in Nat
      BY <1>3, <3>1 DEF MinorRecords
    <3> QED BY <1>2, <1>5, <2>2, <3>2 DEF EndOfMinor, MINOR
  <2> QED BY <2>1, <2>2
<1>7. n \in Nat /\ (n # NULL => a < n)
  <2>1. n # NULL => n \in Nat
    BY <1>3, <1>4, <1>5
  <2> QED BY <1>2, <1>5, <2>1 DEF NULL
<1>8. a \notin Live
  <2> SUFFICES ASSUME a \in Live PROVE FALSE
    OBVIOUS
  <2>1. PICK x : x = minors[a].block
    OBVIOUS
  <2>2. /\ x \in DOMAIN mj /\ x \in Nat /\ mj[x].size \in Nat
        /\ x + 24 <= a /\ a + 24 <= x + mj[x].size
    <3>1. minors[a].size \in Nat /\ mj[x].size \in Nat /\ x \in DOMAIN mj /\ x \in Nat
      BY <1>3, <1>4, <2>1 DEF MinorRecords, MajorRecords, BlocksIn, BlocksPlaced
    <3>2. x + 24 <= a /\ a + (24 + minors[a].size) <= x + mj[x].size
      BY <1>3, <1>4, <2>1, <3>1 DEF BlocksIn, BlocksPlaced, MAJOR, EndOfMinor, MINOR
    <3> QED BY <3>1, <3>2
  <2>3. CASE x = m
    <3>1. a \in MinorsOf(m)
      BY <2>1, <2>3 DEF MinorsOf
    <3>2. n # NULL /\ n <= a
      BY <1>6, <3>1 DEF Gap, IsAbove
    <3> QED BY <1>7, <3>2
  <2>4. CASE x # m
    <3>1. a + 56 <= m + mj[m].size /\ mj[m].size \in Nat
      <4>1. mj[m].size \in Nat
        BY DEF MajorRecords
      <4>2. CASE n = NULL
        BY <1>2, <4>1, <4>2 DEF Gap
      <4>3. CASE n # NULL
        <5>1. n \in Live /\ minors[n].block = m /\ minors[n].size \in Nat
          BY <1>3, <1>4, <1>5, <4>3 DEF MinorsOf, MinorRecords
        <5>2. n + (24 + minors[n].size) <= m + mj[m].size
          BY <5>1, <1>7 DEF BlocksIn, BlocksPlaced, EndOfMinor, MINOR
        <5> QED BY <1>2, <1>5, <1>7, <4>1, <4>3, <5>1, <5>2
      <4> QED BY <4>2, <4>3
    <3>2. x < m \/ m < x
      BY <1>2, <2>2, <2>4
    <3> QED BY <1>2, <2>2, <3>1, <3>2
  <2> QED BY <2>3, <2>4
<1> HIDE DEF kept, new, req
<1>9. DOMAIN minors' = kept \cup {a} /\ Live \subseteq kept /\ kept \subseteq DOMAIN minors
  BY <1>1, <1>4, <1>8 DEF kept
<1>10. minors'[a] = new
  <2>1. a # p /\ a # n
    BY <1>2, <1>6, <1>7 DEF NULL
  <2> QED BY <1>1, <2>1
<1>11. new.magic = "MAGIC" /\ new \in MinorRecords
  <2>1. AlignInfo(a + MINOR) \in ALIGN_INFO .. ALIGN_INFO + ALIGNMENT - 1
    BY <1>2, AlignBounds DEF MINOR
  <2> QED BY <1>2, <1>6, <1>7, <2>1 DEF new, MinorRecords
<1>12. ASSUME NEW h \in kept
       PROVE  /\ minors'[h] \in MinorRecords
              /\ minors'[h].magic = minors[h].magic
              /\ minors'[h].block = minors[h].block /\ minors'[h].size = minors[h].size
              /\ minors'[h].info = minors[h].info
              /\ minors'[h].req_size = minors[h].req_size
              /\ minors'[h].next = IF h = p THEN a ELSE minors[h].next
              /\ minors'[h].prev = IF h = n THEN a ELSE minors[h].prev
  <2>1. h # a /\ minors[h] \in MinorRecords /\ h # 0
    BY <1>3, <1>9 DEF kept
  <2>2. minors'[h] = CASE h = p -> [minors[h] EXCEPT !.next = a]
                       [] h = n -> [minors[h] EXCEPT !.prev = a]
                       [] OTHER -> minors[h]
    BY <1>1, <2>1
  <2>3. n = p => n = NULL
    BY <1>6, <1>7
  <2>4. CASE h = p
    BY <2>1, <2>2, <2>3, <2>4 DEF MinorRecords, NULL
  <2>5. CASE h # p /\ h = n
    BY <2>1, <2>2, <2>5 DEF MinorRecords
  <2>6. CASE h # p /\ h # n
    BY <2>1, <2>2, <2>6 DEF MinorRecords
  <2> QED BY <2>4, <2>5, <2>6
<1>13. Live' = Live \cup {a}
  <2>1. \A h \in kept : h \in Live' <=> h \in Live
    BY <1>9, <1>12 DEF Live
  <2>2. a \in Live'
    BY <1>9, <1>10, <1>11 DEF Live
  <2>3. Live' \subseteq kept \cup {a}
    BY <1>9 DEF Live
  <2> QED BY <1>9, <2>1, <2>2, <2>3
<1>14. minors'[a].block = m
  BY <1>10 DEF new
<1>15. \A x : MinorsOf(x)' = {h \in Live \cup {a} : minors'[h].block = x}
  BY <1>13 DEF MinorsOf
<1>16. MinorsOf(m)' = MinorsOf(m) \cup {a}
  BY <1>9, <1>12, <1>14, <1>15, ZenonT(40) DEF MinorsOf
<1>17. ASSUME NEW x, x # m PROVE MinorsOf(x)' = MinorsOf(x)
  BY <1>9, <1>12, <1>14, <1>15, <1>17 DEF MinorsOf
<1>18. minors' \in [DOMAIN minors' -> MinorRecords] /\ DOMAIN minors' \subseteq Nat \ {0}
  <2>1. \A h \in DOMAIN minors' : minors'[h] \in MinorRecords /\ h \in Nat \ {0}
    BY <1>2, <1>3, <1>9, <1>10, <1>11, <1>12
  <2>2. minors' = [h \in DOMAIN minors' |-> minors'[h]]
    BY <1>1
  <2> QED BY <2>1, <2>2
<1>19. \A x \in DOMAIN mj : mj[x] \in MajorRecords
  OBVIOUS
<1>20. DOMAIN majors' = DOMAIN mj /\ majors' = [x \in DOMAIN mj |-> majors'[x]]
  BY <1>1
<1>21. /\ \A x \in DOMAIN mj \ {m} : majors'[x] = mj[x]
       /\ majors'[m] = [mj[m] EXCEPT !.usage = @ + Need(req), !.first = IF p = NULL THEN a ELSE @]
  BY <1>1
<1>22. ASSUME NEW x \in DOMAIN mj
       PROVE  /\ majors'[x] \in MajorRecords
              /\ majors'[x].pages = mj[x].pages /\ majors'[x].size = mj[x].size
              /\ majors'[x].next = mj[x].next /\ majors'[x].prev = mj[x].prev
              /\ majors'[x].first = IF x = m /\ p = NULL THEN a ELSE mj[x].first
  <2>1. mj[x] \in MajorRecords
    BY <1>19
  <2>2. CASE x # m
    BY <1>21, <2>1, <2>2 DEF MajorRecords
  <2>3. CASE x = m
    <3>1. PICK u \in Int : u = mj[x].usage + Need(req)
      BY <1>2, <2>1 DEF MajorRecords
    <3>2. PICK f \in Nat : f = IF p = NULL THEN a ELSE mj[x].first
      BY <2>1 DEF MajorRecords
    <3>3. majors'[x] = [mj[x] EXCEPT !.usage = u, !.first = f]
      BY <1>21, <2>3, <3>1, <3>2
    <3> QED BY <2>1, <2>3, <3>2, <3>3 DEF MajorRecords
  <2> QED BY <2>2, <2>3
<1>23. majors' \in [DOMAIN mj -> MajorRecords]
  BY <1>20, <1>22
<1>24. /\ minors'[a].block = m /\ minors'[a].size = SizeOf(req)
       /\ minors'[a].info = AlignInfo(a + MINOR)
       /\ minors'[a].req_size = req
       /\ minors'[a].next = n /\ minors'[a].prev = p
  BY <1>10 DEF new
<1> USE DEF req
<1>25. \A h \in Live :
         /\ minors'[h].block = minors[h].block /\ minors'[h].size = minors[h].size
         /\ minors'[h].info = minors[h].info
         /\ minors'[h].req_size = minors[h].req_size
         /\ minors'[h].next = IF h = p THEN a ELSE minors[h].next
         /\ minors'[h].prev = IF h = n THEN a ELSE minors[h].prev
  BY <1>9, <1>12
<1>26. 0 < a /\ (n # NULL => n \in MinorsOf(m) /\ a < n) /\ p < a
  BY <1>2, <1>5, <1>6, <1>7
<1> QED
  BY <1>8, <1>13, <1>16, <1>17, <1>18, <1>20, <1>22, <1>23, <1>24, <1>25, <1>26

(* The lists and the layout are right afterwards. *)
LEMMA PlaceKeepsBlocks ==
  ASSUME HeapTypes, NEW mj, mj \in [DOMAIN mj -> MajorRecords],
         DOMAIN mj \subseteq Nat \ {0}, BlocksIn(mj),
         \A x, y \in DOMAIN mj : x < y => x + mj[x].size <= y,
         NEW m \in DOMAIN mj, NEW a \in Nat, NEW p, NEW n,
         Gap(mj, m, a, p, n), Place(mj, m, a, p, n, a)
  PROVE  BlocksIn(majors)'
<1>1. /\ a \notin Live /\ Live' = Live \cup {a}
      /\ MinorsOf(m)' = MinorsOf(m) \cup {a}
      /\ \A x : x # m => MinorsOf(x)' = MinorsOf(x)
      /\ \A h \in Live :
           /\ minors'[h].block = minors[h].block /\ minors'[h].size = minors[h].size
           /\ minors'[h].info = minors[h].info
           /\ minors'[h].req_size = minors[h].req_size
           /\ minors'[h].next = IF h = p THEN a ELSE minors[h].next
           /\ minors'[h].prev = IF h = n THEN a ELSE minors[h].prev
      /\ minors'[a].block = m /\ minors'[a].size = SizeOf(call.req_size)
      /\ minors'[a].info = AlignInfo(a + MINOR)
      /\ minors'[a].req_size = call.req_size
      /\ minors'[a].next = n /\ minors'[a].prev = p
      /\ DOMAIN majors' = DOMAIN mj
      /\ \A x \in DOMAIN mj :
           /\ majors'[x].size = mj[x].size
           /\ majors'[x].first = IF x = m /\ p = NULL THEN a ELSE mj[x].first
      /\ 0 < a /\ (n # NULL => n \in MinorsOf(m) /\ a < n) /\ p < a
  BY PlaceFields
<1>2. /\ \A h \in Live : /\ h \in Nat \ {0} /\ minors[h].size \in Nat
                         /\ minors[h].block \in DOMAIN mj /\ minors[h].block \in Nat
      /\ \A x \in DOMAIN mj : x \in Nat \ {0} /\ mj[x].size \in Nat
      /\ call.req_size \in Nat /\ Need(call.req_size) \in Nat
      /\ \A x : MinorsOf(x) \subseteq Live
  <2>1. \A h \in Live : h \in DOMAIN minors
    BY DEF Live
  <2> QED BY <2>1 DEF HeapTypes, MinorRecords, MajorRecords, Calls, BlocksIn, BlocksPlaced,
             Need, SizeOf, ALIGNMENT, ALIGN_INFO, MINOR, MinorsOf
<1>3. a + Need(call.req_size) <= m + mj[m].size
  <2>1. CASE n = NULL
    BY <2>1 DEF Gap
  <2>2. CASE n # NULL
    <3>1. n \in Live /\ minors[n].block = m
      BY <1>1, <2>2 DEF MinorsOf
    <3>2. n + 24 + minors[n].size <= m + mj[m].size
      BY <3>1 DEF BlocksIn, BlocksPlaced, EndOfMinor, MINOR
    <3>3. a + Need(call.req_size) <= n
      BY <2>2 DEF Gap
    <3> QED BY <1>2, <3>1, <3>2, <3>3
  <2> QED BY <2>1, <2>2
<1>4. BlocksPlaced(majors)'
  <2> SUFFICES ASSUME NEW h \in Live'
               PROVE  /\ minors'[h].block \in DOMAIN majors'
                      /\ minors'[h].block + MAJOR <= h
                      /\ h + MINOR + minors'[h].size
                           <= minors'[h].block + majors'[minors'[h].block].size
                      /\ minors'[h].info = AlignInfo(h + MINOR)
                      /\ SizeOf(minors'[h].req_size) <= minors'[h].size
    BY DEF BlocksPlaced, EndOfMinor
  <2>1. CASE h \in Live
    BY <1>1, <1>2, <2>1 DEF BlocksIn, BlocksPlaced, EndOfMinor
  <2>2. CASE h = a
    <3>1. SizeOf(call.req_size) \in Nat /\ Need(call.req_size) = SizeOf(call.req_size) + 24
      BY <1>2 DEF SizeOf, Need, MINOR, ALIGNMENT, ALIGN_INFO
    <3>2. m + MAJOR <= a
      BY DEF Gap
    <3> QED BY <1>1, <1>2, <1>3, <2>2, <3>1, <3>2 DEF MINOR
  <2> QED BY <1>1, <2>1, <2>2
<1>5. /\ IsAbove(MinorsOf(m)', p, a) /\ IsAbove(MinorsOf(m)', a, n)
      /\ IsBelow(MinorsOf(m)', a, p) /\ (n # NULL => IsBelow(MinorsOf(m)', n, a))
      /\ \A h \in MinorsOf(m) \cup {0} : \A x :
           h # p /\ IsAbove(MinorsOf(m), h, x) => IsAbove(MinorsOf(m)', h, x)
      /\ \A h \in MinorsOf(m) : \A x :
           h # n /\ IsBelow(MinorsOf(m), h, x) => IsBelow(MinorsOf(m)', h, x)
  <2>1. PICK S : S = MinorsOf(m)
    OBVIOUS
  <2>2. /\ S \subseteq Nat \ {0} /\ a \in Nat \ {0} /\ p \in S \cup {0}
        /\ IsAbove(S, p, n) /\ p < a /\ (n # NULL => a < n)
    BY <1>1, <1>2, <2>1 DEF Gap, NULL
  <2>3. /\ IsAbove(S \cup {a}, p, a)
        /\ IsAbove(S \cup {a}, a, n)
        /\ IsBelow(S \cup {a}, a, p)
        /\ n # NULL => IsBelow(S \cup {a}, n, a)
        /\ \A h \in S \cup {0} : \A x : h # p /\ IsAbove(S, h, x) => IsAbove(S \cup {a}, h, x)
        /\ \A h \in S : \A x : h # n /\ IsBelow(S, h, x) => IsBelow(S \cup {a}, h, x)
    BY <2>2, InsertLinks
  <2>4. MinorsOf(m)' = S \cup {a}
    BY <1>1, <2>1
  <2> QED BY <2>1, <2>3, <2>4
<1>6. ASSUME NEW x \in DOMAIN mj, x # m
      PROVE  /\ IsAbove(MinorsOf(x)', 0, majors'[x].first)
             /\ \A h \in MinorsOf(x)' : /\ IsAbove(MinorsOf(x)', h, minors'[h].next)
                                        /\ IsBelow(MinorsOf(x)', h, minors'[h].prev)
             /\ \A g, h \in MinorsOf(x)' : g < h => g + MINOR + minors'[g].size <= h
  <2>1. MinorsOf(x)' = MinorsOf(x) /\ MinorsOf(x) \subseteq Live
    BY <1>1, <1>2, <1>6
  <2>2. majors'[x].first = mj[x].first
    BY <1>1, <1>6
  <2>3. ASSUME NEW h \in MinorsOf(x)
        PROVE  minors'[h].next = minors[h].next /\ minors'[h].prev = minors[h].prev
               /\ minors'[h].size = minors[h].size
    <3>1. h \in Live /\ minors[h].block = x /\ h # 0
      BY <1>2, <2>1 DEF MinorsOf
    <3>2. h # p /\ h # n
      BY <1>1, <1>6, <3>1 DEF Gap, MinorsOf, NULL
    <3> QED BY <1>1, <3>1, <3>2
  <2>4. /\ IsAbove(MinorsOf(x), 0, mj[x].first)
        /\ \A h \in MinorsOf(x) : /\ IsAbove(MinorsOf(x), h, minors[h].next)
                                  /\ IsBelow(MinorsOf(x), h, minors[h].prev)
        /\ \A g, h \in MinorsOf(x) : g < h => g + MINOR + minors[g].size <= h
    BY <1>6 DEF BlocksIn, BlocksListed, EndOfMinor
  <2> QED BY <2>1, <2>2, <2>3, <2>4
<1>7. /\ IsAbove(MinorsOf(m), 0, mj[m].first)
      /\ \A h \in MinorsOf(m) : /\ IsAbove(MinorsOf(m), h, minors[h].next)
                                /\ IsBelow(MinorsOf(m), h, minors[h].prev)
      /\ \A g, h \in MinorsOf(m) : g < h => g + MINOR + minors[g].size <= h
  BY DEF BlocksIn, BlocksListed, EndOfMinor
<1>8. IsAbove(MinorsOf(m)', 0, majors'[m].first)
  <2>1. CASE p = NULL
    BY <1>1, <1>5, <2>1 DEF NULL
  <2>2. CASE p # NULL
    BY <1>1, <1>5, <1>7, <2>2 DEF NULL
  <2> QED BY <2>1, <2>2
<1>9. ASSUME NEW h \in MinorsOf(m)'
      PROVE  /\ IsAbove(MinorsOf(m)', h, minors'[h].next)
             /\ IsBelow(MinorsOf(m)', h, minors'[h].prev)
  <2>1. CASE h = a
    BY <1>1, <1>5, <2>1
  <2>2. CASE h \in MinorsOf(m)
    <3>1. /\ minors'[h].next = IF h = p THEN a ELSE minors[h].next
          /\ minors'[h].prev = IF h = n THEN a ELSE minors[h].prev
          /\ h # NULL
      BY <1>1, <1>2, <2>2 DEF NULL
    <3>2. IsAbove(MinorsOf(m)', h, minors'[h].next)
      BY <1>5, <1>7, <2>2, <3>1
    <3>3. IsBelow(MinorsOf(m)', h, minors'[h].prev)
      BY <1>5, <1>7, <2>2, <3>1
    <3> QED BY <3>2, <3>3
  <2> QED BY <1>1, <2>1, <2>2
<1>10. ASSUME NEW g \in MinorsOf(m)', NEW h \in MinorsOf(m)', g < h
       PROVE  g + MINOR + minors'[g].size <= h
  <2>1. \A y \in MinorsOf(m) : y \in Nat /\ minors[y].size \in Nat /\ minors'[y].size = minors[y].size
    BY <1>1, <1>2
  <2>2. p \in Nat /\ (p # NULL => p \in MinorsOf(m))
    BY <1>1, <2>1 DEF Gap, NULL
  <2>3. \A y \in MinorsOf(m) : p < y => n # NULL /\ n <= y
    BY DEF Gap, IsAbove
  <2>4. CASE g = a /\ h \in MinorsOf(m)
    <3>1. n # NULL /\ n <= h /\ n \in Nat
      BY <1>1, <1>10, <2>1, <2>2, <2>3, <2>4
    <3>2. a + Need(call.req_size) <= n
      BY <3>1 DEF Gap
    <3>3. /\ SizeOf(call.req_size) \in Nat /\ minors'[a].size = SizeOf(call.req_size)
          /\ Need(call.req_size) = SizeOf(call.req_size) + 24
      BY <1>1, <1>2 DEF SizeOf, Need, MINOR, ALIGNMENT, ALIGN_INFO
    <3> QED BY <2>1, <2>4, <3>1, <3>2, <3>3 DEF MINOR
  <2>5. CASE h = a /\ g \in MinorsOf(m)
    <3>1. g <= p
      <4> SUFFICES ASSUME p < g PROVE FALSE
        BY <2>1, <2>2, <2>5
      <4>1. n # NULL /\ n <= g /\ n \in Nat
        BY <1>1, <2>1, <2>3, <2>5
      <4> QED BY <1>1, <1>10, <2>1, <2>5, <4>1
    <3>2. p # NULL /\ p \in MinorsOf(m)
      BY <1>2, <2>1, <2>2, <2>5, <3>1 DEF NULL
    <3>3. CASE g = p
      BY <2>1, <2>5, <3>2, <3>3 DEF Gap, EndOfMinor
    <3>4. CASE g < p
      <4>1. g + MINOR + minors[g].size <= p
        BY <1>7, <2>5, <3>2, <3>4
      <4> QED BY <1>1, <2>1, <2>2, <2>5, <4>1 DEF MINOR
    <3> QED BY <2>1, <2>2, <2>5, <3>1, <3>3, <3>4
  <2>6. CASE g \in MinorsOf(m) /\ h \in MinorsOf(m)
    BY <1>7, <1>10, <2>1, <2>6
  <2> QED BY <1>1, <1>2, <1>10, <2>4, <2>5, <2>6
<1> QED
  <2> SUFFICES ASSUME NEW x \in DOMAIN mj
               PROVE  /\ IsAbove(MinorsOf(x)', 0, majors'[x].first)
                      /\ \A h \in MinorsOf(x)' : /\ IsAbove(MinorsOf(x)', h, minors'[h].next)
                                                 /\ IsBelow(MinorsOf(x)', h, minors'[h].prev)
                      /\ \A g, h \in MinorsOf(x)' : g < h => g + MINOR + minors'[g].size <= h
    BY <1>1, <1>4 DEF BlocksIn, BlocksListed, EndOfMinor
  <2> QED BY <1>6, <1>8, <1>9, <1>10

(* malloc returns the block, to the kernel or to realloc. *)
LEMMA PlaceReturns ==
  ASSUME HeapTypes, NEW mj, mj \in [DOMAIN mj -> MajorRecords],
         DOMAIN mj \subseteq Nat \ {0}, BlocksIn(mj),
         \A x, y \in DOMAIN mj : x < y => x + mj[x].size <= y,
         NEW m \in DOMAIN mj, NEW a \in Nat, NEW p, NEW n,
         Gap(mj, m, a, p, n), Place(mj, m, a, p, n, a),
         \A x \in DOMAIN mj \ {m} : mj[x].first # NULL,
         CallInv, call.pc \in Searching
  PROVE  /\ HeapTypes' /\ BlocksIn(majors)' /\ EmptyIsFilled' /\ CallInv' /\ CopyFits'
         /\ call'.pc # "halted"
         /\ majors' \in [DOMAIN mj -> MajorRecords] /\ DOMAIN majors' = DOMAIN mj
         /\ \A x \in DOMAIN mj :
              /\ majors'[x].pages = mj[x].pages /\ majors'[x].size = mj[x].size
              /\ majors'[x].next = mj[x].next /\ majors'[x].prev = mj[x].prev
<1>1. /\ a \notin Live /\ Live' = Live \cup {a} /\ 0 < a
      /\ \A h \in Live : minors'[h].req_size = minors[h].req_size
      /\ minors'[a].size = SizeOf(call.req_size)
      /\ minors'[a].info = AlignInfo(a + MINOR)
      /\ minors' \in [DOMAIN minors' -> MinorRecords]
      /\ DOMAIN minors' \subseteq Nat \ {0}
      /\ majors' \in [DOMAIN mj -> MajorRecords] /\ DOMAIN majors' = DOMAIN mj
      /\ \A x \in DOMAIN mj :
           /\ majors'[x].pages = mj[x].pages /\ majors'[x].size = mj[x].size
           /\ majors'[x].next = mj[x].next /\ majors'[x].prev = mj[x].prev
           /\ majors'[x].first = IF x = m /\ p = NULL THEN a ELSE mj[x].first
  BY PlaceFields
<1>2. BlocksIn(majors)'
  BY PlaceKeepsBlocks
<1>3. /\ call' = IF call.old = NULL THEN Idle
                 ELSE [Idle EXCEPT !.pc = "copy", !.old = call.old, !.new = a]
  BY DEF Place, Return
<1>4. /\ call.old \in Nat /\ call.req_size \in Nat
      /\ call.old # NULL => call.old \in Live /\ minors[call.old].req_size < call.req_size
      /\ \A h \in Live : minors[h].req_size \in Nat
  BY DEF HeapTypes, Calls, CallInv, Live, MinorRecords
<1>5. HeapTypes'
  <2>1. CASE call.old = NULL
    <3>1. call' \in Calls
      BY <1>3, <2>1 DEF Idle, Calls, Searching, NULL
    <3> QED BY <1>1, <1>3, <1>4, <3>1 DEF HeapTypes
  <2>2. CASE call.old # NULL
    <3>1. call' = [Idle EXCEPT !.pc = "copy", !.old = call.old, !.new = a]
      BY <1>3, <2>2
    <3>2. call' = [pc |-> "copy", req_size |-> 0, maj |-> NULL, min |-> NULL,
                   startedBet |-> FALSE, bestSize |-> 0, old |-> call.old, new |-> a]
      BY <3>1 DEF Idle
    <3>3. call' \in Calls
      BY <1>4, <3>2 DEF Calls, NULL
    <3> QED BY <1>1, <1>3, <1>4, <3>3 DEF HeapTypes
  <2> QED BY <2>1, <2>2
<1>6. \A x \in DOMAIN mj : majors'[x].first # NULL
  <2>1. p # NULL => mj[m].first # NULL
    <3> SUFFICES ASSUME p # NULL PROVE mj[m].first # NULL
      OBVIOUS
    <3>1. p \in MinorsOf(m) /\ 0 < p
      BY DEF Gap, MinorsOf, Live, HeapTypes
    <3>2. IsAbove(MinorsOf(m), 0, mj[m].first)
      BY DEF BlocksIn, BlocksListed
    <3> QED BY <3>1, <3>2 DEF IsAbove
  <2> QED BY <1>1, <2>1 DEF NULL
<1>7. EmptyIsFilled'
  BY <1>1, <1>6 DEF EmptyIsFilled
<1>8. CASE call.old = NULL
  <2>1. CallInv' /\ CopyFits'
    BY <1>3, <1>8 DEF CallInv, CopyFits, Idle, Searching
  <2> QED BY <1>1, <1>2, <1>3, <1>5, <1>7, <1>8, <2>1 DEF Idle
<1>9. CASE call.old # NULL
  <2>1. call'.pc = "copy" /\ call'.old = call.old /\ call'.new = a
    BY <1>3, <1>9 DEF Idle
  <2>2. CallInv'
    BY <1>1, <1>4, <1>9, <2>1 DEF CallInv, Searching
  <2>3. CopyFits'
    <3>1. call'.new \in Live' \ {call'.old}
      BY <1>1, <1>4, <1>9, <2>1
    <3>2. AlignInfo(a + MINOR) \in ALIGN_INFO .. ALIGN_INFO + ALIGNMENT - 1
      BY AlignBounds DEF MINOR
    <3>3. minors'[call.old].req_size \in Nat /\ minors'[call.old].req_size < call.req_size
      BY <1>1, <1>4, <1>9
    <3>4. a + MINOR + minors'[a].info + minors'[call.old].req_size <= a + MINOR + minors'[a].size
      BY <1>1, <1>4, <3>2, <3>3 DEF SizeOf, MINOR, ALIGNMENT, ALIGN_INFO
    <3> QED BY <2>1, <3>1, <3>4 DEF CopyFits, Pointer, EndOfMinor
  <2> QED BY <1>1, <1>2, <1>5, <1>7, <2>1, <2>2, <2>3
<1> QED BY <1>8, <1>9
-----------------------------------------------------------------------------
(* Steps that leave the heap's tables alone. *)

LEMMA SameBlocks ==
  ASSUME UNCHANGED minors, NEW mj, BlocksIn(mj)
  PROVE  BlocksIn(mj)'
<1>1. Live' = Live /\ \A x : MinorsOf(x)' = MinorsOf(x)
  BY DEF Live, MinorsOf
<1> QED BY <1>1 DEF BlocksIn, BlocksPlaced, BlocksListed, EndOfMinor

LEMMA SameMajors ==
  ASSUME UNCHANGED <<pagingVars, l_memRoot>>, NEW mj, MajorsPlaced(mj), MajorsListed(mj),
         NEW mk, DOMAIN mk = DOMAIN mj,
         \A x \in DOMAIN mj :
           /\ mk[x].pages = mj[x].pages /\ mk[x].size = mj[x].size
           /\ mk[x].next = mj[x].next /\ mk[x].prev = mj[x].prev
  PROVE  MajorsPlaced(mk)' /\ MajorsListed(mk)'
  BY DEF pagingVars, MajorsPlaced, MajorsListed, InDirectory, NewAddress

(* A step that only moves call or notes a best bet. *)
LEMMA SearchStep ==
  ASSUME HeapInv, UNCHANGED <<pagingVars, majors, minors, l_memRoot>>,
         l_bestBet' # NULL => l_bestBet' \in DOMAIN majors,
         call' \in Calls, call'.pc # "copy", call.pc # "halted",
         EmptyIsFilled', CallInv'
  PROVE  HeapInv'
<1>1. PagingInv'
  BY PagingStepInv DEF HeapInv
<1>2. HeapTypes'
  BY DEF HeapInv, HeapTypes
<1>3. WrapsToNothing'
  BY DEF HeapInv, WrapsToNothing, pagingVars, InDirectory
<1>4. MajorsPlaced(majors)' /\ MajorsListed(majors)'
  <2>1. PICK mj : mj = majors
    OBVIOUS
  <2>2. MajorsPlaced(mj)' /\ MajorsListed(mj)'
    BY <2>1, SameMajors DEF HeapInv
  <2>3. majors' = mj
    BY <2>1
  <2> QED BY <2>2, <2>3 DEF MajorsPlaced, MajorsListed
<1>5. BlocksIn(majors)'
  <2>1. PICK mj : mj = majors
    OBVIOUS
  <2>2. BlocksIn(mj)'
    BY <2>1, SameBlocks DEF HeapInv
  <2>3. majors' = mj
    BY <2>1
  <2> QED BY <2>2, <2>3 DEF BlocksIn, BlocksPlaced, BlocksListed
<1>6. CopyFits'
  BY DEF CopyFits
<1> QED BY <1>1, <1>2, <1>3, <1>4, <1>5, <1>6 DEF HeapInv

(* What the search knows of the lists it walks. *)
LEMMA MajorFacts ==
  ASSUME HeapInv, NEW m \in DOMAIN majors
  PROVE  /\ majors[m] \in MajorRecords /\ m \in Nat /\ m # 0
         /\ majors[m].next # NULL => majors[m].next \in DOMAIN majors
         /\ MinorsOf(m) \subseteq DOMAIN minors
         /\ l_memRoot \in DOMAIN majors
<1>1. majors[m] \in MajorRecords /\ m \in Nat /\ m # 0
  BY DEF HeapInv, HeapTypes
<1>2. IsAbove(DOMAIN majors, 0, l_memRoot)
  BY DEF HeapInv, MajorsListed
<1>3. l_memRoot \in DOMAIN majors
  BY <1>1, <1>2 DEF IsAbove
<1>4. majors[m].next # NULL => majors[m].next \in DOMAIN majors
  BY DEF HeapInv, MajorsListed, IsAbove
<1> QED BY <1>1, <1>3, <1>4 DEF MinorsOf, Live

LEMMA MinorFacts ==
  ASSUME HeapInv, NEW h \in DOMAIN minors
  PROVE  minors[h] \in MinorRecords /\ h \in Nat /\ h # 0
  BY DEF HeapInv, HeapTypes

LEMMA RootFacts ==
  ASSUME HeapInv
  PROVE  /\ l_memRoot # NULL => l_memRoot \in DOMAIN majors
         /\ l_memRoot = NULL => DOMAIN majors = {}
<1>1. IsAbove(DOMAIN majors, 0, l_memRoot)
  BY DEF HeapInv, MajorsListed
<1>2. \A m \in DOMAIN majors : m \in Nat /\ 0 < m
  BY DEF HeapInv, HeapTypes
<1> QED BY <1>1, <1>2 DEF IsAbove

(* Where a search looks for more, no major is empty. *)
LEMMA NoneEmptyWhen ==
  ASSUME HeapInv,
         \/ call.pc \notin {"start", "major"}
         \/ call.pc = "start" /\ l_memRoot = NULL
         \/ call.pc = "major" /\ (Short \/ majors[call.maj].first # NULL)
  PROVE  NoneEmpty
<1> SUFFICES ASSUME NEW m \in DOMAIN majors, majors[m].first = NULL PROVE FALSE
  BY DEF NoneEmpty
<1>1. /\ majors[m].usage = MAJOR /\ MAJOR + Need(call.req_size) <= majors[m].size
      /\ \/ call.pc = "start" /\ DOMAIN majors = {m}
         \/ call.pc = "major" /\ call.maj = m
  BY DEF HeapInv, EmptyIsFilled
<1>2. call.pc = "start" => l_memRoot # NULL
  BY RootFacts DEF NULL
<1>3. call.pc = "major" /\ call.maj = m /\ Short
  BY <1>1, <1>2
<1>4. Need(call.req_size) \in Nat /\ majors[m].size \in Nat
  <2>1. majors[m] \in MajorRecords /\ call.req_size \in Nat
    BY MajorFacts DEF HeapInv, HeapTypes, Calls
  <2> QED BY <2>1 DEF MajorRecords, Need, SizeOf, MINOR, ALIGNMENT, ALIGN_INFO
<1> QED BY <1>1, <1>3, <1>4 DEF Short, FreeBytes, MAJOR

(* UNALIGN finds the header that a pointer came from. *)
LEMMA HeaderOfIs ==
  ASSUME HeapInv, NEW h \in DOMAIN minors
  PROVE  HeaderOf(h) = h
<1>1. minors[h].info \in 16 .. 31 /\ h \in Nat
  BY MinorFacts DEF MinorRecords, ALIGN_INFO, ALIGNMENT
<1> QED BY <1>1 DEF HeaderOf, Pointer, ALIGN_INFO, ALIGNMENT, MINOR

(* A call begins. *)
LEMMA BeginKeepsInv ==
  ASSUME HeapInv, NEW c \in Calls, Begin(c), c.pc # "copy", CallInv'
  PROVE  HeapInv'
<1>1. /\ UNCHANGED <<pagingVars, majors, minors, l_memRoot, l_bestBet>>
      /\ call.pc = "idle" /\ call' = c
  BY DEF Begin
<1>2. EmptyIsFilled'
  BY <1>1, NoneEmptyWhen DEF EmptyIsFilled, NoneEmpty
<1> QED BY <1>1, <1>2, SearchStep DEF HeapInv, HeapTypes

LEMMA CallMallocKeepsInv ==
  ASSUME HeapInv, NEW req \in Requests, CallMalloc(req)
  PROVE  HeapInv'
<1>1. PICK c : c = [pc |-> "start", req_size |-> req, maj |-> NULL, min |-> NULL,
                    startedBet |-> FALSE, bestSize |-> 0, old |-> NULL, new |-> NULL]
  OBVIOUS
<1>2. Begin(c) /\ WithinBounds(req)
  <2>1. PICK d : d = [Idle EXCEPT !.pc = "start", !.req_size = req]
    OBVIOUS
  <2>2. c = d
    BY <1>1, <2>1 DEF Idle, NULL
  <2> QED BY <2>1, <2>2 DEF CallMalloc
<1>3. c \in Calls
  BY <1>1, LiballocAssumption DEF Calls, Searching, NULL
<1>4. CallInv'
  BY <1>1, <1>2 DEF Begin, CallInv, Searching, WithinBounds, PagesMapped, pagingVars
<1> QED BY <1>1, <1>2, <1>3, <1>4, BeginKeepsInv

LEMMA CallFreeKeepsInv ==
  ASSUME HeapInv, NEW h \in DOMAIN minors \cup {Foreign}, CallFree(h)
  PROVE  HeapInv'
<1>1. PICK c : c = [pc |-> "free", req_size |-> 0, maj |-> NULL, min |-> NULL,
                    startedBet |-> FALSE, bestSize |-> 0, old |-> h, new |-> NULL]
  OBVIOUS
<1>2. Begin(c)
  <2>1. PICK d : d = [Idle EXCEPT !.pc = "free", !.old = h]
    OBVIOUS
  <2>2. c = d
    BY <1>1, <2>1 DEF Idle, NULL
  <2> QED BY <2>1, <2>2 DEF CallFree
<1>3. c \in Calls
  BY <1>1, MinorFacts DEF Calls, Foreign, NULL
<1>4. CallInv'
  BY <1>1, <1>2 DEF Begin, CallInv, Searching
<1> QED BY <1>1, <1>2, <1>3, <1>4, BeginKeepsInv

LEMMA CallReallocKeepsInv ==
  ASSUME HeapInv, NEW h \in DOMAIN minors \cup {Foreign}, NEW req \in Requests,
         CallRealloc(h, req)
  PROVE  HeapInv'
<1>1. PICK c : c = [pc |-> "realloc", req_size |-> req, maj |-> NULL, min |-> NULL,
                    startedBet |-> FALSE, bestSize |-> 0, old |-> h, new |-> NULL]
  OBVIOUS
<1>2. Begin(c)
  <2>1. PICK d : d = [Idle EXCEPT !.pc = "realloc", !.old = h, !.req_size = req]
    OBVIOUS
  <2>2. c = d
    BY <1>1, <2>1 DEF Idle, NULL
  <2> QED BY <2>1, <2>2 DEF CallRealloc
<1>3. c \in Calls
  BY <1>1, MinorFacts, LiballocAssumption DEF Calls, Foreign, NULL
<1>4. h \in Live /\ minors[h].req_size < req => WithinBounds(req)
  <2> SUFFICES ASSUME h \in Live, minors[h].req_size < req PROVE WithinBounds(req)
    OBVIOUS
  <2>1. /\ h \in DOMAIN minors /\ h # Foreign /\ minors[h] \in MinorRecords /\ req \in Nat
    BY MinorFacts, LiballocAssumption DEF Live, Foreign, NULL
  <2>2. HeaderOf(h) = h
    BY <2>1, HeaderOfIs
  <2> QED BY <2>1, <2>2 DEF CallRealloc, LeadsToBlock, ShrinksInPlace, MinorRecords
<1>5. CallInv'
  <2>1. /\ ~malloc_lock' /\ minors' = minors /\ Live' = Live
        /\ WithinBounds(req)' = WithinBounds(req)
        /\ call' = c
    BY <1>2 DEF Begin, Live, WithinBounds, PagesMapped, pagingVars
  <2> QED BY <1>1, <1>4, <2>1 DEF CallInv, Searching
<1> QED BY <1>1, <1>2, <1>3, <1>5, BeginKeepsInv

(* A step from one header to another, in one call. *)
LEMMA MoveKeepsInv ==
  ASSUME HeapInv, UNCHANGED <<pagingVars, majors, minors, l_memRoot>>,
         l_bestBet' # NULL => l_bestBet' \in DOMAIN majors,
         call.pc \in Searching, call' \in Calls,
         call'.pc \in {"major", "minor", "full"}, call'.maj \in DOMAIN majors,
         call'.pc = "minor" => call'.min \in MinorsOf(call'.maj),
         call'.req_size = call.req_size, call'.old = call.old,
         NoneEmpty \/ (call.pc = "start" /\ call'.pc = "major")
  PROVE  HeapInv'
<1>1. EmptyIsFilled'
  BY DEF EmptyIsFilled, NoneEmpty, HeapInv
<1>2. CallInv'
  <2>1. Live' = Live /\ MinorsOf(call'.maj) = MinorsOf(call.maj)'
    BY DEF Live, MinorsOf
  <2> QED BY <2>1 DEF HeapInv, CallInv, Searching, pagingVars, WithinBounds, PagesMapped,
                     NoneEmpty
<1>3. call'.pc # "copy" /\ call.pc # "halted"
  BY DEF Searching, HeapInv, HeapTypes
<1> QED BY <1>1, <1>2, <1>3, SearchStep

LEMMA StartSearchKeepsInv ==
  ASSUME HeapInv, StartSearch
  PROVE  HeapInv'
<1>1. PICK best, bet :
        /\ best = IF l_bestBet = NULL THEN 0 ELSE FreeBytes(l_bestBet)
        /\ bet = (l_bestBet # NULL /\ best > Need(call.req_size))
        /\ call' = [call EXCEPT !.pc = "major", !.startedBet = bet,
                                !.maj = IF bet THEN l_bestBet ELSE l_memRoot,
                                !.bestSize = best]
  BY DEF StartSearch
<1>2. PICK m : m = IF bet THEN l_bestBet ELSE l_memRoot
  OBVIOUS
<1>3. m \in DOMAIN majors
  BY <1>1, <1>2, RootFacts DEF StartSearch, HeapInv
<1>4. best \in Int /\ bet \in BOOLEAN
  <2>1. best \in Int
    <3>1. l_bestBet # NULL => majors[l_bestBet] \in MajorRecords
      BY MajorFacts DEF HeapInv
    <3> QED BY <1>1, <3>1 DEF FreeBytes, MajorRecords
  <2> QED BY <1>1, <2>1
<1>5. call' = [call EXCEPT !.pc = "major", !.startedBet = bet, !.maj = m, !.bestSize = best]
  BY <1>1, <1>2
<1>6. call \in Calls /\ m \in Nat
  BY <1>3, MajorFacts DEF HeapInv, HeapTypes
<1>7. /\ call' \in Calls /\ call'.pc = "major" /\ call'.maj = m
      /\ call'.req_size = call.req_size /\ call'.old = call.old
  BY <1>4, <1>5, <1>6 DEF Calls, Searching
<1>8. /\ UNCHANGED <<pagingVars, majors, minors, l_memRoot, l_bestBet>>
      /\ call.pc = "start"
  BY DEF StartSearch
<1> QED BY <1>3, <1>7, <1>8, MoveKeepsInv DEF HeapInv, Searching

(* The best bet a major's turn may leave. *)
LEMMA NotedBet ==
  ASSUME HeapInv, call.pc = "major", NoteBestBet
  PROVE  /\ l_bestBet' # NULL => l_bestBet' \in DOMAIN majors
         /\ BestSize \in Int
<1>1. call.maj \in DOMAIN majors /\ call \in Calls
  BY DEF HeapInv, CallInv, HeapTypes
<1>2. majors[call.maj] \in MajorRecords
  BY <1>1, MajorFacts
<1>3. FreeBytes(call.maj) \in Int /\ call.bestSize \in Int
  BY <1>1, <1>2 DEF FreeBytes, MajorRecords, Calls
<1> QED BY <1>1, <1>3 DEF NoteBestBet, BestSize, HeapInv

LEMMA Case1MoveKeepsInv ==
  ASSUME HeapInv, Case1Move
  PROVE  HeapInv'
<1>1. /\ UNCHANGED <<pagingVars, majors, minors, l_memRoot>>
      /\ call.pc = "major" /\ Short /\ NoteBestBet /\ call \in Calls
      /\ call.maj \in DOMAIN majors
  BY DEF Case1Move, HeapInv, CallInv, HeapTypes
<1>2. NoneEmpty
  BY <1>1, NoneEmptyWhen
<1>3. (l_bestBet' # NULL => l_bestBet' \in DOMAIN majors) /\ BestSize \in Int
  BY <1>1, NotedBet
<1>4. PICK m \in DOMAIN majors, bet \in BOOLEAN :
        call' = [call EXCEPT !.pc = "major", !.maj = m, !.startedBet = bet,
                             !.bestSize = BestSize]
  <2>1. CASE majors[call.maj].next # NULL
                /\ call' = [call EXCEPT !.maj = majors[call.maj].next, !.bestSize = BestSize]
    <3>1. majors[call.maj].next \in DOMAIN majors
      BY <1>1, <2>1, MajorFacts
    <3>2. call' = [call EXCEPT !.pc = "major", !.maj = majors[call.maj].next,
                               !.startedBet = call.startedBet, !.bestSize = BestSize]
      BY <1>1, <2>1 DEF Calls
    <3>3. call.startedBet \in BOOLEAN
      BY <1>1 DEF Calls
    <3> QED BY <3>1, <3>2, <3>3
  <2>2. CASE call' = [Restarted EXCEPT !.bestSize = BestSize]
    <3>1. l_memRoot \in DOMAIN majors
      BY <1>1, MajorFacts
    <3>2. call' = [call EXCEPT !.pc = "major", !.maj = l_memRoot, !.startedBet = FALSE,
                               !.bestSize = BestSize]
      BY <1>1, <2>2 DEF Restarted, Calls
    <3> QED BY <3>1, <3>2
  <2> QED BY <2>1, <2>2 DEF Case1Move
<1>5. m \in Nat
  BY MajorFacts
<1>6. /\ call' \in Calls /\ call'.pc = "major" /\ call'.maj = m
      /\ call'.req_size = call.req_size /\ call'.old = call.old
  BY <1>1, <1>3, <1>4, <1>5 DEF Calls
<1> QED BY <1>1, <1>2, <1>3, <1>6, MoveKeepsInv DEF Searching

LEMMA Case4EnterKeepsInv ==
  ASSUME HeapInv, Case4Enter
  PROVE  HeapInv'
<1>1. /\ UNCHANGED <<pagingVars, majors, minors, l_memRoot>>
      /\ call.pc = "major" /\ InUse /\ NoteBestBet /\ call \in Calls
      /\ call.maj \in DOMAIN majors /\ majors[call.maj].first # NULL
      /\ call' = [call EXCEPT !.pc = "minor", !.min = majors[call.maj].first,
                              !.bestSize = BestSize]
  BY DEF Case4Enter, InUse, HeapInv, CallInv, HeapTypes
<1>2. NoneEmpty
  BY <1>1, NoneEmptyWhen
<1>3. (l_bestBet' # NULL => l_bestBet' \in DOMAIN majors) /\ BestSize \in Int
  BY <1>1, NotedBet
<1>4. PICK f : f = majors[call.maj].first
  OBVIOUS
<1>5. f \in MinorsOf(call.maj) /\ f \in Nat
  <2>1. IsAbove(MinorsOf(call.maj), 0, f)
    BY <1>1, <1>4 DEF HeapInv, BlocksIn, BlocksListed
  <2>2. f \in MinorsOf(call.maj)
    BY <1>1, <1>4, <2>1 DEF IsAbove
  <2> QED BY <1>1, <2>2, MajorFacts, MinorFacts
<1>6. PICK b \in Int : b = BestSize
  BY <1>3
<1>7. call' = [call EXCEPT !.pc = "minor", !.min = f, !.bestSize = b]
  BY <1>1, <1>4, <1>6
<1>8. /\ call' \in Calls /\ call'.pc = "minor" /\ call'.maj = call.maj /\ call'.min = f
      /\ call'.req_size = call.req_size /\ call'.old = call.old
  BY <1>1, <1>5, <1>7 DEF Calls, Searching
<1> QED BY <1>1, <1>2, <1>3, <1>5, <1>8, MoveKeepsInv DEF Searching

LEMMA Case4NextKeepsInv ==
  ASSUME HeapInv, Case4Next
  PROVE  HeapInv'
<1>1. /\ UNCHANGED <<pagingVars, majors, minors, l_memRoot, l_bestBet>>
      /\ call.pc = "minor" /\ call \in Calls
      /\ call.maj \in DOMAIN majors /\ call.min \in MinorsOf(call.maj)
      /\ call' = [call EXCEPT !.pc = IF minors[call.min].next = NULL THEN "full" ELSE "minor",
                              !.min = minors[call.min].next]
  BY DEF Case4Next, HeapInv, CallInv, HeapTypes
<1>2. NoneEmpty
  BY <1>1, NoneEmptyWhen
<1>3. PICK n : n = minors[call.min].next
  OBVIOUS
<1>4. n \in Nat /\ (n # NULL => n \in MinorsOf(call.maj))
  <2>1. IsAbove(MinorsOf(call.maj), call.min, n)
    BY <1>1, <1>3 DEF HeapInv, BlocksIn, BlocksListed
  <2>2. n # NULL => n \in MinorsOf(call.maj)
    BY <2>1 DEF IsAbove
  <2>3. minors[call.min] \in MinorRecords
    BY <1>1, MajorFacts, MinorFacts
  <2> QED BY <1>3, <2>2, <2>3 DEF MinorRecords
<1>5. PICK pc \in {"full", "minor"} : pc = IF n = NULL THEN "full" ELSE "minor"
  OBVIOUS
<1>6. call' = [call EXCEPT !.pc = pc, !.min = n]
  BY <1>1, <1>3, <1>5
<1>7. /\ call' \in Calls /\ call'.pc = pc /\ call'.maj = call.maj /\ call'.min = n
      /\ call'.req_size = call.req_size /\ call'.old = call.old
  BY <1>1, <1>4, <1>6 DEF Calls, Searching
<1> QED BY <1>1, <1>2, <1>4, <1>5, <1>7, MoveKeepsInv DEF Searching, HeapInv

LEMMA Case5MoveKeepsInv ==
  ASSUME HeapInv, Case5Move
  PROVE  HeapInv'
<1>1. /\ UNCHANGED <<pagingVars, majors, minors, l_memRoot, l_bestBet>>
      /\ call.pc = "full" /\ call \in Calls /\ call.maj \in DOMAIN majors
  BY DEF Case5Move, HeapInv, CallInv, HeapTypes
<1>2. NoneEmpty
  BY <1>1, NoneEmptyWhen
<1>3. PICK m \in DOMAIN majors, bet \in BOOLEAN :
        call' = [call EXCEPT !.pc = "major", !.maj = m, !.startedBet = bet]
  <2>1. CASE majors[call.maj].next # NULL
                /\ call' = [call EXCEPT !.pc = "major", !.maj = majors[call.maj].next]
    <3>1. majors[call.maj].next \in DOMAIN majors
      BY <1>1, <2>1, MajorFacts
    <3>2. call' = [call EXCEPT !.pc = "major", !.maj = majors[call.maj].next,
                               !.startedBet = call.startedBet]
      BY <1>1, <2>1 DEF Calls
    <3>3. call.startedBet \in BOOLEAN
      BY <1>1 DEF Calls
    <3> QED BY <3>1, <3>2, <3>3
  <2>2. CASE call' = Restarted
    <3>1. l_memRoot \in DOMAIN majors
      BY <1>1, MajorFacts
    <3> QED BY <2>2, <3>1 DEF Restarted
  <2> QED BY <2>1, <2>2 DEF Case5Move
<1>4. m \in Nat
  BY MajorFacts
<1>5. /\ call' \in Calls /\ call'.pc = "major" /\ call'.maj = m
      /\ call'.req_size = call.req_size /\ call'.old = call.old
  BY <1>1, <1>3, <1>4 DEF Calls, Searching
<1> QED BY <1>1, <1>2, <1>5, MoveKeepsInv DEF Searching, HeapInv
-----------------------------------------------------------------------------
(* CASE 2, 3, 4.1 and 4.2: a block is placed in a major of the list.       *)

LEMMA PlaceKeepsInv ==
  ASSUME HeapInv, UNCHANGED <<pagingVars, l_memRoot>>,
         l_bestBet' # NULL => l_bestBet' \in DOMAIN majors,
         call.pc \in Searching,
         NEW m, NEW a, NEW p, NEW n, Places(majors, m, a, p, n),
         \A x \in DOMAIN majors \ {m} : majors[x].first # NULL
  PROVE  HeapInv'
<1>1. PICK mj : mj = majors
  OBVIOUS
<1>2. /\ HeapTypes /\ mj \in [DOMAIN mj -> MajorRecords] /\ DOMAIN mj \subseteq Nat \ {0}
      /\ BlocksIn(mj) /\ CallInv /\ m \in DOMAIN mj /\ a \in Nat
      /\ Gap(mj, m, a, p, n) /\ Place(mj, m, a, p, n, a)
      /\ MajorsPlaced(mj) /\ MajorsListed(mj)
      /\ \A x \in DOMAIN mj \ {m} : mj[x].first # NULL
  BY <1>1 DEF HeapInv, HeapTypes, Places
<1>3. \A x, y \in DOMAIN mj : x < y => x + mj[x].size <= y
  BY <1>2 DEF MajorsPlaced
<1>4. /\ HeapTypes' /\ BlocksIn(majors)' /\ EmptyIsFilled' /\ CallInv' /\ CopyFits'
      /\ call'.pc # "halted"
      /\ DOMAIN majors' = DOMAIN mj
      /\ \A x \in DOMAIN mj :
           /\ majors'[x].pages = mj[x].pages /\ majors'[x].size = mj[x].size
           /\ majors'[x].next = mj[x].next /\ majors'[x].prev = mj[x].prev
  BY <1>2, <1>3, PlaceReturns
<1>5. MajorsPlaced(majors)' /\ MajorsListed(majors)'
  <2>1. PICK mk : mk = majors'
    OBVIOUS
  <2>2. MajorsPlaced(mk)' /\ MajorsListed(mk)'
    BY <1>2, <1>4, <2>1, SameMajors
  <2> QED BY <2>1, <2>2 DEF MajorsPlaced, MajorsListed
<1>6. PagingInv'
  BY PagingStepInv DEF HeapInv
<1>7. WrapsToNothing'
  BY <1>4 DEF HeapInv, WrapsToNothing, pagingVars, InDirectory, Searching
<1> QED BY <1>1, <1>4, <1>5, <1>6, <1>7 DEF HeapInv

(* The room a major has as long as it has not been filled. *)
LEMMA NeedBounds ==
  ASSUME HeapInv
  PROVE  Need(call.req_size) \in Nat /\ Need(call.req_size) = SizeOf(call.req_size) + 24
         /\ SizeOf(call.req_size) = call.req_size + 32 /\ call.req_size \in Nat
<1>1. call.req_size \in Nat
  BY DEF HeapInv, HeapTypes, Calls
<1> QED BY <1>1 DEF Need, SizeOf, MINOR, ALIGNMENT, ALIGN_INFO

(* Each case of the search that finds room finds it in a gap. *)
LEMMA FitPlaces ==
  ASSUME HeapInv, NEW m \in DOMAIN majors, NEW a \in Nat, NEW p, NEW n,
         Gap(majors, m, a, p, n), PlaceBetween(m, a, p, n)
  PROVE  Places(majors, m, a, p, n)
  BY DEF HeapInv, HeapTypes, MajorsPlaced, PlaceBetween, Places

LEMMA Case2Places ==
  ASSUME HeapInv, Case2
  PROVE  Places(majors, call.maj, call.maj + MAJOR, NULL, NULL)
<1>1. PICK m : m = call.maj
  OBVIOUS
<1>2. /\ m \in DOMAIN majors /\ majors[m].first = NULL
      /\ PlaceBetween(m, m + MAJOR, NULL, NULL)
  BY <1>1 DEF Case2, HeapInv, CallInv
<1>3. /\ m \in Nat /\ m + MAJOR \in Nat /\ Need(call.req_size) \in Nat
      /\ majors[m].size \in Nat
  BY <1>2, MajorFacts, NeedBounds DEF MajorRecords, MAJOR
<1>4. MAJOR + Need(call.req_size) <= majors[m].size
  BY <1>2 DEF HeapInv, EmptyIsFilled
<1>5. IsAbove(MinorsOf(m), 0, majors[m].first)
  BY <1>2 DEF HeapInv, BlocksIn, BlocksListed
<1>6. Gap(majors, m, m + MAJOR, NULL, NULL)
  BY <1>2, <1>3, <1>4, <1>5 DEF Gap, NULL, MAJOR
<1> QED BY <1>1, <1>2, <1>3, <1>6, FitPlaces

LEMMA Case2KeepsInv ==
  ASSUME HeapInv, Case2
  PROVE  HeapInv'
<1>1. /\ call.pc = "major" /\ call.maj \in DOMAIN majors
      /\ NoteBestBet /\ UNCHANGED <<pagingVars, l_memRoot>>
  BY DEF Case2, HeapInv, CallInv
<1>2. l_bestBet' # NULL => l_bestBet' \in DOMAIN majors
  BY <1>1, NotedBet
<1>3. \A x \in DOMAIN majors \ {call.maj} : majors[x].first # NULL
  BY <1>1 DEF HeapInv, EmptyIsFilled
<1> QED BY <1>1, <1>2, <1>3, Case2Places, PlaceKeepsInv DEF Searching

LEMMA Case3Places ==
  ASSUME HeapInv, Case3
  PROVE  Places(majors, call.maj, call.maj + MAJOR, NULL, majors[call.maj].first)
<1>1. PICK m, n : m = call.maj /\ n = majors[m].first
  OBVIOUS
<1>2. /\ m \in DOMAIN majors /\ n # NULL
      /\ PlaceBetween(m, m + MAJOR, NULL, n)
      /\ n - m - MAJOR >= Need(call.req_size)
  BY <1>1 DEF Case3, InUse, FrontGap, HeapInv, CallInv
<1>3. IsAbove(MinorsOf(m), 0, n)
  BY <1>1, <1>2 DEF HeapInv, BlocksIn, BlocksListed
<1>4. m \in Nat /\ m + MAJOR \in Nat /\ Need(call.req_size) \in Nat /\ n \in Nat
  BY <1>1, <1>2, MajorFacts, NeedBounds DEF MajorRecords, MAJOR
<1>5. Gap(majors, m, m + MAJOR, NULL, n)
  BY <1>2, <1>3, <1>4 DEF Gap, NULL, MAJOR
<1>6. Places(majors, m, m + MAJOR, NULL, n)
  BY <1>2, <1>4, <1>5, FitPlaces
<1> QED BY <1>1, <1>6

LEMMA Case3KeepsInv ==
  ASSUME HeapInv, Case3
  PROVE  HeapInv'
<1>1. /\ call.pc = "major" /\ call.maj \in DOMAIN majors /\ majors[call.maj].first # NULL
      /\ NoteBestBet /\ UNCHANGED <<pagingVars, l_memRoot>>
  BY DEF Case3, InUse, HeapInv, CallInv
<1>2. l_bestBet' # NULL => l_bestBet' \in DOMAIN majors
  BY <1>1, NotedBet
<1>3. NoneEmpty
  BY <1>1, NoneEmptyWhen
<1> QED BY <1>1, <1>2, <1>3, Case3Places, PlaceKeepsInv DEF Searching, NoneEmpty

LEMMA Case4FitPlaces ==
  ASSUME HeapInv, Case4Fit
  PROVE  Places(majors, call.maj, EndOfMinor(call.min), call.min, minors[call.min].next)
<1>1. PICK m, p, n, a : m = call.maj /\ p = call.min /\ n = minors[p].next
                       /\ a = p + MINOR + minors[p].size
  OBVIOUS
<1>2. /\ m \in DOMAIN majors /\ p \in MinorsOf(m)
      /\ PlaceBetween(m, a, p, n)
      /\ (IF n = NULL THEN m + majors[m].size ELSE n) - a >= Need(call.req_size)
  BY <1>1 DEF Case4Fit, GapAfter, EndOf, EndOfMinor, HeapInv, CallInv
<1>3. /\ IsAbove(MinorsOf(m), p, n) /\ p \in Live /\ minors[p].block = m
      /\ m + MAJOR <= p
  BY <1>1, <1>2 DEF HeapInv, BlocksIn, BlocksListed, BlocksPlaced, MinorsOf
<1>4. /\ m \in Nat /\ Need(call.req_size) \in Nat /\ majors[m].size \in Nat
      /\ p \in Nat /\ p # NULL /\ minors[p].size \in Nat /\ n \in Nat
  <2>1. m \in Nat /\ majors[m].size \in Nat
    BY <1>2, MajorFacts DEF MajorRecords
  <2>2. p \in DOMAIN minors
    BY <1>3 DEF Live
  <2>3. p \in Nat /\ p # NULL /\ minors[p].size \in Nat /\ n \in Nat
    BY <1>1, <2>2, MinorFacts DEF MinorRecords, NULL
  <2> QED BY <2>1, <2>3, NeedBounds
<1>5. a \in Nat /\ p <= a
  BY <1>1, <1>4 DEF MINOR
<1>6. Gap(majors, m, a, p, n)
  <2>1. m + MAJOR <= a /\ EndOfMinor(p) <= a
    BY <1>1, <1>3, <1>4, <1>5 DEF EndOfMinor, MAJOR, MINOR
  <2> QED BY <1>2, <1>3, <1>4, <1>5, <2>1 DEF Gap
<1>7. Places(majors, m, a, p, n)
  BY <1>2, <1>5, <1>6, FitPlaces
<1> QED BY <1>1, <1>7 DEF EndOfMinor

LEMMA Case4FitKeepsInv ==
  ASSUME HeapInv, Case4Fit
  PROVE  HeapInv'
<1>1. call.pc = "minor" /\ UNCHANGED <<pagingVars, l_memRoot, l_bestBet>>
  BY DEF Case4Fit
<1>2. NoneEmpty
  BY <1>1, NoneEmptyWhen
<1> QED BY <1>1, <1>2, Case4FitPlaces, PlaceKeepsInv DEF Searching, NoneEmpty, HeapInv
-----------------------------------------------------------------------------
(* allocate_new_page: a major is added above all others.                   *)

LEMMA NewMajorPlaced ==
  ASSUME HeapInv, call.pc \in Searching, NoneEmpty,
         liballoc_alloc(PagesFor(call.req_size)), ~OutOfMemory, ~Unmapped,
         NEW mj, DOMAIN mj = DOMAIN majors \cup {NewAddress},
         \A x \in DOMAIN majors :
           mj[x].pages = majors[x].pages /\ mj[x].size = majors[x].size,
         mj[NewAddress].pages = PagesFor(call.req_size),
         mj[NewAddress].size = PagesFor(call.req_size) * l_pageSize
  PROVE  /\ MajorsPlaced(mj)'
         /\ NewAddress \in Nat /\ 0 < NewAddress
         /\ \A x \in DOMAIN majors : x < NewAddress
         /\ \A x, y \in DOMAIN mj : x < y => x + mj[x].size <= y
<1> DEFINE new == NewAddress
           pages == PagesFor(call.req_size)
<1>1. /\ InDirectory /\ ~malloc_lock /\ malloc_lock' = malloc_lock
      /\ InDirectory' => mem_current < mem_current' /\ pages - 1 <= mem_current' - mem_current
      /\ regions \subseteq regions' /\ released' = released /\ Allocate
  BY GrowthStep
<1>2. PagingInv /\ PagingTypeOK /\ call.req_size \in Requests
  BY DEF HeapInv, PagingInv, CallInv
<1>3. PagingTypeOK'
  BY <1>1, <1>2, PagingStepTypes DEF PagingNext
<1>4. /\ mem_current \in Nat /\ 0 < mem_current /\ mem_current' \in Nat
      /\ mem_current = current_page - 1 /\ current_page \in Nat
  <2>1. mem_current \in Nat /\ mem_current' \in Nat
    BY <1>2, <1>3, PagingAssumption DEF PagingTypeOK, Pages
  <2> QED BY <1>1, <1>2, <2>1 DEF PagingInv, AfterBoot, PagingTypeOK, OutOfMemory, NULL
<1>5. pages \in Nat /\ 2 <= pages /\ pages * l_pageSize \in Nat
  BY <1>2, PagesForEnough
<1>6. PageSize \in Nat /\ 0 < PageSize /\ l_pageSize \in Nat /\ 0 < l_pageSize
  BY PageSizeNat
<1>7. new = mem_current * PageSize /\ NewAddress' = mem_current' * PageSize
  BY DEF NewAddress
<1> HIDE DEF new, pages
<1>8. new \in Nat /\ 0 < new /\ new \div PageSize = mem_current
  <2>1. new \in Nat /\ 0 < new
    BY <1>4, <1>6, <1>7
  <2> QED BY <1>4, <1>6, <1>7, <2>1, DivExact
<1>9. ASSUME NEW x \in DOMAIN majors
      PROVE  /\ x \in Nat /\ majors[x].size \in Nat /\ 0 < majors[x].size
             /\ x = (x \div PageSize) * PageSize
             /\ [base |-> x \div PageSize, pages |-> majors[x].pages] \in regions' \ released'
             /\ 2 <= majors[x].pages /\ majors[x].size = majors[x].pages * l_pageSize
             /\ x + majors[x].size <= new
             /\ \A y \in DOMAIN majors : x < y => x + majors[x].size <= y
  <2>1. x \in Nat /\ majors[x].size \in Nat /\ majors[x].pages \in Nat
    BY MajorFacts DEF MajorRecords
  <2>2. /\ x = (x \div PageSize) * PageSize
        /\ [base |-> x \div PageSize, pages |-> majors[x].pages] \in regions \ released
        /\ 2 <= majors[x].pages /\ majors[x].size = majors[x].pages * l_pageSize
        /\ x + majors[x].size <= new
        /\ \A y \in DOMAIN majors : x < y => x + majors[x].size <= y
    BY <1>1 DEF HeapInv, MajorsPlaced, new
  <2>3. 2 * l_pageSize <= majors[x].pages * l_pageSize
    BY <1>6, <2>1, <2>2, ProductsGrow
  <2> QED BY <1>1, <1>6, <2>1, <2>2, <2>3
<1>10. [base |-> mem_current, pages |-> pages] \in regions' \ released'
  <2>1. [base |-> mem_current, pages |-> pages] \in regions'
    BY <1>4 DEF liballoc_alloc, NULL, pages
  <2>2. ASSUME [base |-> mem_current, pages |-> pages] \in regions PROVE FALSE
    <3>1. mem_current \in Covers([base |-> mem_current, pages |-> pages])
      <4>1. 0 \in 0 .. pages /\ 0 * PageUnits < pages /\ mem_current = mem_current + 0
        BY <1>4, <1>5, PagingAssumption
      <4> QED BY <4>1 DEF Covers
    <3>2. mem_current \in HeapBasePage .. current_page - 2
      BY <1>1, <1>2, <2>2, <3>1 DEF PagingInv, RegionsBelow
    <3> QED BY <1>4, <3>2, PagingAssumption
  <2>3. released \subseteq regions
    BY <1>2 DEF PagingTypeOK
  <2> QED BY <1>1, <2>1, <2>2, <2>3
<1>11. ASSUME InDirectory'
       PROVE  new + pages * l_pageSize <= NewAddress' /\ NewAddress' \in Nat /\ new <= NewAddress'
  <2>1. PICK b, c : b = mem_current /\ c = mem_current'
    OBVIOUS
  <2>2. b \in Nat /\ c \in Nat /\ pages - 1 <= c - b
    BY <1>1, <1>4, <1>11, <2>1
  <2>3. /\ b * PageSize \in Nat /\ c * PageSize \in Nat /\ b * PageSize <= c * PageSize
        /\ b * PageSize + pages * l_pageSize <= c * PageSize
    BY <1>5, <2>2, NextRegion
  <2> QED BY <1>7, <2>1, <2>3
<1>12. /\ \A x \in DOMAIN majors : mj[x].pages = majors[x].pages /\ mj[x].size = majors[x].size
       /\ mj[new].pages = pages /\ mj[new].size = pages * l_pageSize
       /\ DOMAIN mj = DOMAIN majors \cup {new}
  BY DEF new, pages
<1>13. ASSUME NEW x \in DOMAIN majors PROVE x \in Nat /\ x < new
  <2>1. PICK n \in Nat : n = majors[x].size /\ 0 < n /\ x + n <= new
    BY <1>9
  <2>2. x \in Nat
    BY <1>9
  <2> QED BY <1>8, <2>1, <2>2
<1>14. \A x, y \in DOMAIN mj : x < y => x + mj[x].size <= y
  <2> SUFFICES ASSUME NEW x \in DOMAIN mj, NEW y \in DOMAIN mj, x < y
               PROVE  x + mj[x].size <= y
    OBVIOUS
  <2>1. CASE x = new
    <3>1. y # new
      BY <1>8, <2>1
    <3>2. y \in DOMAIN majors
      BY <1>12, <3>1
    <3>3. y \in Nat /\ y < new
      BY <1>13, <3>2
    <3> QED BY <1>8, <2>1, <3>3
  <2>2. CASE x \in DOMAIN majors /\ y = new
    BY <1>9, <1>12, <2>2
  <2>3. CASE x \in DOMAIN majors /\ y \in DOMAIN majors
    BY <1>9, <1>12, <2>3
  <2> QED BY <1>12, <2>1, <2>2, <2>3
<1>15. ASSUME NEW x \in DOMAIN mj
       PROVE  /\ x = (x \div PageSize) * PageSize
              /\ [base |-> x \div PageSize, pages |-> mj[x].pages] \in regions' \ released'
              /\ 2 <= mj[x].pages /\ mj[x].size = mj[x].pages * l_pageSize
              /\ InDirectory' => x + mj[x].size <= NewAddress'
  <2>1. CASE x = new
    BY <1>5, <1>7, <1>8, <1>10, <1>11, <1>12, <2>1
  <2>2. CASE x \in DOMAIN majors
    <3>1. x + majors[x].size <= new /\ x \in Nat /\ majors[x].size \in Nat
      BY <1>9, <2>2
    <3>2. InDirectory' => x + majors[x].size <= NewAddress'
      BY <1>8, <1>11, <3>1
    <3> QED BY <1>9, <1>12, <2>2, <3>2
  <2> QED BY <1>12, <2>1, <2>2
<1>16. MajorsPlaced(mj)'
  BY <1>1, <1>14, <1>15 DEF MajorsPlaced
<1> QED BY <1>8, <1>13, <1>14, <1>16 DEF new

(* The list with a major linked to its end. *)
LEMMA LinkedMajor ==
  ASSUME HeapInv, NEW m \in DOMAIN majors, majors[m].next = NULL,
         NewAddress \in Nat, 0 < NewAddress, \A x \in DOMAIN majors : x < NewAddress,
         NEW req \in Requests, NEW mj, mj = Linked(m, req)
  PROVE  /\ mj \in [DOMAIN mj -> MajorRecords] /\ DOMAIN mj \subseteq Nat \ {0}
         /\ DOMAIN mj = DOMAIN majors \cup {NewAddress} /\ NewAddress \notin DOMAIN majors
         /\ \A x \in DOMAIN majors :
              /\ mj[x].pages = majors[x].pages /\ mj[x].size = majors[x].size
              /\ mj[x].first = majors[x].first
         /\ mj[NewAddress].pages = PagesFor(req)
         /\ mj[NewAddress].size = PagesFor(req) * l_pageSize
         /\ mj[NewAddress].usage = MAJOR /\ mj[NewAddress].first = NULL
         /\ mj[NewAddress].next = NULL
         /\ MajorsListed(mj) /\ BlocksIn(mj) /\ MinorsOf(NewAddress) = {}
<1> DEFINE D == DOMAIN majors
           a == NewAddress
<1>1. /\ a \in Nat \ {0} /\ a \notin D /\ m # a /\ m < a
      /\ \A x \in D : x \in Nat \ {0} /\ majors[x] \in MajorRecords
  BY MajorFacts
<1>2. /\ mj = [x \in D \cup {a} |->
                 CASE x = a -> [NewMajor(req) EXCEPT !.prev = m]
                   [] x = m -> [majors[m] EXCEPT !.next = a]
                   [] OTHER -> majors[x]]
      /\ DOMAIN mj = D \cup {a}
  BY DEF Linked
<1>3. PagesFor(req) \in Nat /\ PagesFor(req) * l_pageSize \in Nat
  BY PagesForEnough
<1> HIDE DEF D, a
<1>4. mj[a] = [NewMajor(req) EXCEPT !.prev = m]
  BY <1>1, <1>2
<1>5. /\ mj[a] \in MajorRecords /\ mj[a].prev = m /\ mj[a].next = NULL
      /\ mj[a].pages = PagesFor(req) /\ mj[a].size = PagesFor(req) * l_pageSize
      /\ mj[a].usage = MAJOR /\ mj[a].first = NULL
  <2>1. m \in Nat
    BY <1>1 DEF D
  <2>2. mj[a] = [prev |-> m, next |-> NULL, pages |-> PagesFor(req),
                 size |-> PagesFor(req) * l_pageSize, usage |-> MAJOR, first |-> NULL]
    BY <1>4 DEF NewMajor
  <2> QED BY <1>3, <2>1, <2>2 DEF MajorRecords, NULL, MAJOR
<1>6. ASSUME NEW x \in D
      PROVE  /\ mj[x] \in MajorRecords
             /\ mj[x].pages = majors[x].pages /\ mj[x].size = majors[x].size
             /\ mj[x].first = majors[x].first /\ mj[x].prev = majors[x].prev
             /\ mj[x].next = IF x = m THEN a ELSE majors[x].next
  <2>1. mj[x] = IF x = m THEN [majors[x] EXCEPT !.next = a] ELSE majors[x]
    BY <1>1, <1>2
  <2>2. majors[x] \in MajorRecords /\ a \in Nat
    BY <1>1
  <2>3. CASE x = m
    BY <2>1, <2>2, <2>3 DEF MajorRecords
  <2>4. CASE x # m
    BY <2>1, <2>2, <2>4 DEF MajorRecords
  <2> QED BY <2>3, <2>4
<1>7. mj \in [D \cup {a} -> MajorRecords]
  BY <1>2, <1>5, <1>6
<1>8. MajorsListed(mj)
  <2>1. /\ IsAbove(D, 0, l_memRoot)
        /\ \A x \in D : IsAbove(D, x, majors[x].next) /\ IsBelow(D, x, majors[x].prev)
    BY DEF HeapInv, MajorsListed, D
  <2>2. m \in D \cup {0} /\ IsAbove(D, m, NULL) /\ D \subseteq Nat \ {0} /\ m # 0
    BY <1>1, <2>1 DEF D
  <2>3. /\ IsAbove(D \cup {a}, m, a) /\ IsAbove(D \cup {a}, a, NULL)
        /\ IsBelow(D \cup {a}, a, m)
        /\ \A h \in D \cup {0} : \A x : h # m /\ IsAbove(D, h, x) => IsAbove(D \cup {a}, h, x)
        /\ \A h \in D : \A x : h # NULL /\ IsBelow(D, h, x) => IsBelow(D \cup {a}, h, x)
    BY <1>1, <2>2, InsertLinks
  <2>4. IsAbove(D \cup {a}, 0, l_memRoot)
    BY <2>1, <2>2, <2>3
  <2>5. ASSUME NEW x \in D
        PROVE  IsAbove(D \cup {a}, x, mj[x].next) /\ IsBelow(D \cup {a}, x, mj[x].prev)
    BY <1>1, <1>6, <2>1, <2>3 DEF NULL
  <2>6. IsAbove(D \cup {a}, a, mj[a].next) /\ IsBelow(D \cup {a}, a, mj[a].prev)
    BY <1>5, <2>3
  <2> QED BY <1>2, <2>4, <2>5, <2>6 DEF MajorsListed
<1>9. \A h \in Live : minors[h].block \in D
  BY DEF HeapInv, BlocksIn, BlocksPlaced, D
<1>10. MinorsOf(a) = {}
  BY <1>1, <1>9 DEF MinorsOf
<1>11. BlocksPlaced(mj)
  BY <1>2, <1>6, <1>9 DEF HeapInv, BlocksIn, BlocksPlaced, D
<1>12. BlocksListed(mj)
  <2> SUFFICES ASSUME NEW x \in D \cup {a}
               PROVE  /\ IsAbove(MinorsOf(x), 0, mj[x].first)
                      /\ \A h \in MinorsOf(x) : /\ IsAbove(MinorsOf(x), h, minors[h].next)
                                                /\ IsBelow(MinorsOf(x), h, minors[h].prev)
                      /\ \A g, h \in MinorsOf(x) : g < h => EndOfMinor(g) <= h
    BY <1>2 DEF BlocksListed
  <2>1. CASE x = a
    BY <1>5, <1>10, <2>1 DEF IsAbove
  <2>2. CASE x \in D
    BY <1>6, <2>2 DEF HeapInv, BlocksIn, BlocksListed, D
  <2> QED BY <2>1, <2>2
<1> QED BY <1>1, <1>2, <1>5, <1>6, <1>7, <1>8, <1>10, <1>11, <1>12 DEF BlocksIn, D, a

(* A growth that succeeds leaves the page allocator and its end in order.  *)
LEMMA GrowthKeepsPaging ==
  ASSUME HeapInv, call.pc \in Searching, NoneEmpty,
         liballoc_alloc(PagesFor(call.req_size))
  PROVE  /\ PagingInv' /\ (~Unmapped => WrapsToNothing')
         /\ call'.pc = "halted" => WrapsToNothing'
<1>1. PagingInv'
  BY GrowthStep, PagingStepInv DEF HeapInv, PagingNext
<1> QED BY <1>1, GrowthStep DEF WrapsToNothing

LEMMA GrowthFailsKeepsInv ==
  ASSUME HeapInv, call.pc \in Searching, NoneEmpty, GrowthFails,
         l_bestBet' # NULL => l_bestBet' \in DOMAIN majors
  PROVE  HeapInv'
<1>1. /\ liballoc_alloc(PagesFor(call.req_size))
      /\ UNCHANGED <<majors, minors, l_memRoot>>
      /\ \/ OutOfMemory /\ Return(NULL)
         \/ Unmapped /\ call' = Hung
  BY DEF GrowthFails
<1>2. /\ ~malloc_lock' /\ ~InDirectory /\ ~InDirectory'
      /\ regions \subseteq regions' /\ released' = released
  BY <1>1, GrowthStep
<1>3. PagingInv' /\ WrapsToNothing'
  <2>1. Unmapped => call'.pc = "halted"
    BY <1>1 DEF OutOfMemory, Unmapped, Idle, Hung
  <2> QED BY <1>1, <2>1, GrowthKeepsPaging
<1>4. call.old \in Nat /\ (call.old # NULL => call.old \in Live)
  BY DEF HeapInv, HeapTypes, Calls, CallInv
<1>5. \/ call' = Idle
      \/ /\ call.old # NULL
         /\ call' = [Idle EXCEPT !.pc = "copy", !.old = call.old, !.new = NULL]
      \/ call' = Hung
  BY <1>1 DEF Return
<1>6. PICK pc \in {"idle", "copy", "halted"}, old \in Nat :
        /\ call' = [pc |-> pc, req_size |-> 0, maj |-> NULL, min |-> NULL,
                    startedBet |-> FALSE, bestSize |-> 0, old |-> old, new |-> NULL]
        /\ pc = "copy" => old # NULL /\ old \in Live
        /\ pc # "copy" => old = NULL
  <2>1. CASE call' = Idle
    BY <2>1 DEF Idle, NULL
  <2>2. CASE /\ call.old # NULL
             /\ call' = [Idle EXCEPT !.pc = "copy", !.old = call.old, !.new = NULL]
    BY <1>4, <2>2 DEF Idle
  <2>3. CASE call' = Hung
    BY <2>3 DEF Idle, Hung, NULL
  <2> QED BY <1>5, <2>1, <2>2, <2>3
<1>7. call' \in Calls
  BY <1>6 DEF Calls, NULL
<1>8. HeapTypes'
  BY <1>1, <1>7 DEF HeapInv, HeapTypes
<1>9. MajorsPlaced(majors)' /\ MajorsListed(majors)'
  BY <1>1, <1>2 DEF HeapInv, MajorsPlaced, MajorsListed
<1>10. BlocksIn(majors)'
  <2>1. PICK mj : mj = majors
    OBVIOUS
  <2>2. BlocksIn(mj)'
    BY <1>1, <2>1, SameBlocks DEF HeapInv
  <2>3. majors' = mj
    BY <1>1, <2>1
  <2> QED BY <2>2, <2>3 DEF BlocksIn, BlocksPlaced, BlocksListed
<1>11. EmptyIsFilled'
  BY <1>1 DEF EmptyIsFilled, NoneEmpty
<1>12. CallInv' /\ CopyFits'
  <2>1. Live' = Live
    BY <1>1 DEF Live
  <2> QED BY <1>6, <2>1 DEF CallInv, CopyFits, Searching
<1> QED BY <1>1, <1>3, <1>8, <1>9, <1>10, <1>11, <1>12 DEF HeapInv

LEMMA FirstUseKeepsInv ==
  ASSUME HeapInv, FirstUse
  PROVE  HeapInv'
<1>1. call.pc = "start" /\ call.pc \in Searching /\ DOMAIN majors = {} /\ l_bestBet' = l_bestBet
  BY RootFacts DEF FirstUse, Searching
<1>2. NoneEmpty /\ l_bestBet = NULL
  BY <1>1 DEF NoneEmpty, HeapInv
<1>3. CASE GrowthFails
  BY <1>1, <1>2, <1>3, GrowthFailsKeepsInv
<1>4. CASE /\ allocate_new_page(call.req_size)
           /\ majors' = [a \in {NewAddress} |-> NewMajor(call.req_size)]
           /\ l_memRoot' = NewAddress
           /\ UNCHANGED <<minors, l_inuse, call>>
  <2>1. PICK mj, a : mj = majors' /\ a = NewAddress
    OBVIOUS
  <2>2. /\ liballoc_alloc(PagesFor(call.req_size)) /\ ~OutOfMemory /\ ~Unmapped
        /\ DOMAIN mj = {a} /\ mj[a] = NewMajor(call.req_size) /\ mj = [x \in {a} |-> mj[a]]
    BY <1>4, <2>1 DEF allocate_new_page
  <2>3. call.req_size \in Requests
    BY <1>1 DEF HeapInv, CallInv
  <2>4. /\ PagesFor(call.req_size) \in Nat /\ PagesFor(call.req_size) * l_pageSize \in Nat
        /\ MAJOR + Need(call.req_size) <= PagesFor(call.req_size) * l_pageSize
    BY <2>3, PagesForEnough
  <2>5. /\ mj[a].pages = PagesFor(call.req_size)
        /\ mj[a].size = PagesFor(call.req_size) * l_pageSize
        /\ mj[a].next = NULL /\ mj[a].prev = NULL /\ mj[a].first = NULL
        /\ mj[a].usage = MAJOR /\ mj[a] \in MajorRecords
    BY <2>2, <2>4 DEF NewMajor, MajorRecords, NULL, MAJOR
  <2>6. /\ MajorsPlaced(mj)' /\ a \in Nat /\ 0 < a
    BY <1>1, <1>2, <2>1, <2>2, <2>5, NewMajorPlaced
  <2>7. MajorsListed(mj)'
    BY <1>4, <2>1, <2>2, <2>5, <2>6 DEF MajorsListed, IsAbove, IsBelow, NULL
  <2>8. Live = {}
    BY <1>1 DEF HeapInv, BlocksIn, BlocksPlaced
  <2>9. Live' = {} /\ \A x : MinorsOf(x)' = {}
    BY <1>4, <2>8 DEF Live, MinorsOf
  <2>10. BlocksIn(majors)'
    BY <2>1, <2>2, <2>5, <2>9 DEF BlocksIn, BlocksPlaced, BlocksListed, IsAbove
  <2>11. HeapTypes'
    <3>1. majors' \in [{a} -> MajorRecords] /\ {a} \subseteq Nat \ {0}
      BY <2>1, <2>2, <2>5, <2>6
    <3> QED BY <1>4, <2>1, <2>2, <3>1 DEF HeapInv, HeapTypes
  <2>12. EmptyIsFilled'
    BY <1>1, <1>4, <2>1, <2>2, <2>4, <2>5 DEF EmptyIsFilled
  <2>13. CallInv' /\ CopyFits'
    <3>1. ~NoneEmpty' /\ ~malloc_lock' /\ call.old = NULL
      <4>1. call.old = NULL
        BY <1>1, <2>8 DEF HeapInv, CallInv, Searching
      <4> QED BY <1>1, <1>2, <2>1, <2>2, <2>5, <4>1, GrowthStep DEF NoneEmpty
    <3> QED BY <1>1, <1>4, <2>3, <3>1 DEF CallInv, CopyFits, Searching
  <2>14. PagingInv' /\ WrapsToNothing'
    BY <1>1, <1>2, <2>2, GrowthKeepsPaging
  <2> QED BY <1>1, <1>2, <2>1, <2>6, <2>7, <2>10, <2>11, <2>12, <2>13, <2>14
             DEF HeapInv, MajorsPlaced, MajorsListed
<1> QED BY <1>3, <1>4 DEF FirstUse

LEMMA NewAddressAbove ==
  ASSUME HeapInv, call.pc \in Searching, NoneEmpty,
         liballoc_alloc(PagesFor(call.req_size)), ~OutOfMemory, ~Unmapped
  PROVE  /\ NewAddress \in Nat /\ 0 < NewAddress
         /\ \A x \in DOMAIN majors : x < NewAddress
<1>1. InDirectory
  BY GrowthStep
<1>2. NewAddress \in Nat /\ 0 < NewAddress
  <2>1. mem_current \in Nat /\ 0 < mem_current
    BY PagingAssumption DEF HeapInv, PagingInv, PagingTypeOK, Pages, OutOfMemory, NULL
  <2> QED BY <2>1, PageSizeNat DEF NewAddress
<1>3. ASSUME NEW x \in DOMAIN majors PROVE x < NewAddress
  <2>1. /\ x \in Nat /\ majors[x].size \in Nat /\ majors[x].pages \in Nat
        /\ x + majors[x].size <= NewAddress
        /\ 2 <= majors[x].pages /\ majors[x].size = majors[x].pages * l_pageSize
    BY <1>1, MajorFacts DEF HeapInv, MajorsPlaced, MajorRecords
  <2>2. 2 * l_pageSize <= majors[x].pages * l_pageSize
    BY <2>1, PageSizeNat, ProductsGrow
  <2>3. 0 < majors[x].size
    BY <2>1, <2>2, PageSizeNat
  <2> QED BY <1>2, <2>1, <2>3
<1> QED BY <1>2, <1>3

(* A new major at the end of the list, before it has a block. *)
LEMMA Case5GrowKeepsInv ==
  ASSUME HeapInv, Case5Grow
  PROVE  HeapInv'
<1>1. PICK m, req : m = call.maj /\ req = call.req_size
  OBVIOUS
<1>2. /\ call.pc = "full" /\ call.pc \in Searching /\ m \in DOMAIN majors
      /\ majors[m].next = NULL /\ l_bestBet' = l_bestBet /\ req \in Requests
      /\ NoneEmpty /\ call \in Calls /\ (l_bestBet # NULL => l_bestBet \in DOMAIN majors)
  BY <1>1, NoneEmptyWhen DEF Case5Grow, Searching, HeapInv, CallInv, HeapTypes
<1>3. CASE GrowthFails
  BY <1>2, <1>3, GrowthFailsKeepsInv
<1>4. CASE /\ allocate_new_page(call.req_size)
           /\ majors' = Linked(call.maj, call.req_size)
           /\ call' = [call EXCEPT !.pc = "major", !.maj = NewAddress]
           /\ UNCHANGED <<minors, l_memRoot, l_inuse>>
  <2>1. PICK mj : mj = Linked(m, req)
    OBVIOUS
  <2>2. /\ liballoc_alloc(PagesFor(req)) /\ ~OutOfMemory /\ ~Unmapped
        /\ majors' = mj /\ call' = [call EXCEPT !.pc = "major", !.maj = NewAddress]
        /\ UNCHANGED <<minors, l_memRoot>>
    BY <1>1, <1>4, <2>1 DEF allocate_new_page
  <2>3. /\ NewAddress \in Nat /\ 0 < NewAddress /\ \A x \in DOMAIN majors : x < NewAddress
    BY <1>1, <1>2, <2>2, NewAddressAbove
  <2>4. /\ mj \in [DOMAIN mj -> MajorRecords] /\ DOMAIN mj \subseteq Nat \ {0}
        /\ DOMAIN mj = DOMAIN majors \cup {NewAddress} /\ NewAddress \notin DOMAIN majors
        /\ \A x \in DOMAIN majors :
             /\ mj[x].pages = majors[x].pages /\ mj[x].size = majors[x].size
             /\ mj[x].first = majors[x].first
        /\ mj[NewAddress].pages = PagesFor(req) /\ mj[NewAddress].size = PagesFor(req) * l_pageSize
        /\ mj[NewAddress].usage = MAJOR /\ mj[NewAddress].first = NULL /\ mj[NewAddress].next = NULL
        /\ MajorsListed(mj) /\ BlocksIn(mj)
    <3>1. /\ m \in DOMAIN majors /\ majors[m].next = NULL /\ req \in Requests
          /\ NewAddress \in Nat /\ 0 < NewAddress
          /\ \A x \in DOMAIN majors : x < NewAddress
      BY <1>2, <2>3
    <3>2. mj \in [DOMAIN mj -> MajorRecords] /\ DOMAIN mj \subseteq Nat \ {0}
      BY <2>1, <3>1, LinkedMajor
    <3>3. DOMAIN mj = DOMAIN majors \cup {NewAddress} /\ NewAddress \notin DOMAIN majors
      BY <2>1, <3>1, LinkedMajor
    <3>4. \A x \in DOMAIN majors : /\ mj[x].pages = majors[x].pages
                                  /\ mj[x].size = majors[x].size
                                  /\ mj[x].first = majors[x].first
      BY <2>1, <3>1, LinkedMajor
    <3>5. /\ mj[NewAddress].pages = PagesFor(req)
          /\ mj[NewAddress].size = PagesFor(req) * l_pageSize
          /\ mj[NewAddress].usage = MAJOR /\ mj[NewAddress].first = NULL
          /\ mj[NewAddress].next = NULL
      BY <2>1, <3>1, LinkedMajor
    <3>6. MajorsListed(mj) /\ BlocksIn(mj)
      BY <2>1, <3>1, LinkedMajor
    <3> QED BY <3>2, <3>3, <3>4, <3>5, <3>6
  <2>5. MajorsPlaced(mj)'
    BY <1>1, <1>2, <2>2, <2>4, NewMajorPlaced
  <2>6. MajorsListed(mj)'
    BY <2>2, <2>4 DEF MajorsListed
  <2>7. BlocksIn(mj)'
    BY <2>2, <2>4, SameBlocks
  <2>8. MajorsPlaced(majors)' /\ MajorsListed(majors)' /\ BlocksIn(majors)'
    BY <2>2, <2>5, <2>6, <2>7
       DEF MajorsPlaced, MajorsListed, BlocksIn, BlocksPlaced, BlocksListed
  <2>9. /\ call' \in Calls /\ call'.pc = "major" /\ call'.maj = NewAddress
        /\ call'.req_size = req /\ call'.old = call.old
    BY <1>1, <1>2, <2>2, <2>3 DEF Calls, Searching
  <2>10. HeapTypes'
    BY <2>2, <2>4, <2>9 DEF HeapInv, HeapTypes
  <2>11. EmptyIsFilled'
    <3>1. MAJOR + Need(req) <= PagesFor(req) * l_pageSize
      BY <1>2, PagesForEnough
    <3> QED BY <1>2, <2>2, <2>4, <2>9, <3>1 DEF EmptyIsFilled, NoneEmpty
  <2>12. CallInv' /\ CopyFits'
    <3>1. ~NoneEmpty' /\ ~malloc_lock'
      BY <1>1, <1>2, <2>2, <2>4, GrowthStep DEF NoneEmpty
    <3>2. Live' = Live
      BY <2>2 DEF Live
    <3> QED BY <1>1, <1>2, <2>2, <2>4, <2>9, <3>1, <3>2
               DEF HeapInv, CallInv, CopyFits, Searching
  <2>13. PagingInv' /\ WrapsToNothing'
    BY <1>1, <1>2, <2>2, GrowthKeepsPaging
  <2> QED BY <1>2, <2>2, <2>4, <2>8, <2>10, <2>11, <2>12, <2>13 DEF HeapInv
<1> QED BY <1>3, <1>4 DEF Case5Grow

(* At the end of a major there is no next header to link back.             *)
LEMMA PlaceLast ==
  ASSUME HeapTypes, NEW mj, NEW m, NEW a \in Nat, 0 < a, NEW p, NEW q,
         Place(mj, m, a, p, NULL, q)
  PROVE  Place(mj, m, a, p, NULL, a)
<1> DEFINE req == call.req_size
           kept == {h \in DOMAIN minors : h \in Live \/ ~Overwritten(h, a, req)} \ {a}
           new == [prev |-> p, next |-> NULL, block |-> m, magic |-> "MAGIC",
                   size |-> SizeOf(req), req_size |-> req, info |-> AlignInfo(a + MINOR)]
<1>1. \A h \in kept \cup {a} : h # NULL
  BY DEF HeapTypes, NULL
<1>2. minors' = [h \in kept \cup {a} |->
                   CASE h = a -> new
                     [] h = p -> [minors[h] EXCEPT !.next = a]
                     [] h = NULL -> [minors[h] EXCEPT !.prev = q]
                     [] OTHER -> minors[h]]
  BY DEF Place
<1>3. \A h \in kept \cup {a} :
        (CASE h = a -> new
           [] h = p -> [minors[h] EXCEPT !.next = a]
           [] h = NULL -> [minors[h] EXCEPT !.prev = q]
           [] OTHER -> minors[h])
        = (CASE h = a -> new
             [] h = p -> [minors[h] EXCEPT !.next = a]
             [] h = NULL -> [minors[h] EXCEPT !.prev = a]
             [] OTHER -> minors[h])
  <2> HIDE DEF kept, new
  <2> QED BY <1>1
<1>4. minors' = [h \in kept \cup {a} |->
                   CASE h = a -> new
                     [] h = p -> [minors[h] EXCEPT !.next = a]
                     [] h = NULL -> [minors[h] EXCEPT !.prev = a]
                     [] OTHER -> minors[h]]
  <2> HIDE DEF kept, new
  <2> QED BY <1>2, <1>3
<1> QED BY <1>4 DEF Place

(* A new major at the end of the list, with its first block in it. *)
LEMMA Case1GrowPlaces ==
  ASSUME HeapInv, Case1Grow, ~GrowthFails
  PROVE  /\ call.maj \in DOMAIN majors
         /\ allocate_new_page(call.req_size)
         /\ NewAddress \in Nat /\ NewAddress \notin DOMAIN majors
         /\ Places(Linked(call.maj, call.req_size), NewAddress, NewAddress + MAJOR,
                   NULL, NULL)
<1>1. PICK m, a, req : m = call.maj /\ a = NewAddress /\ req = call.req_size
  OBVIOUS
<1>2. /\ call.pc = "major" /\ call.pc \in Searching /\ m \in DOMAIN majors
      /\ majors[m].next = NULL /\ req \in Requests
      /\ NoneEmpty
  BY <1>1, NoneEmptyWhen DEF Case1Grow, Searching, HeapInv, CallInv
<1>3. PICK mj : mj = Linked(m, req)
  OBVIOUS
<1>4. /\ liballoc_alloc(PagesFor(req)) /\ ~OutOfMemory /\ ~Unmapped
      /\ Place(mj, a, a + MAJOR, NULL, NULL, NULL)
      /\ allocate_new_page(call.req_size)
  BY <1>1, <1>3 DEF Case1Grow, allocate_new_page
<1>5. /\ NewAddress \in Nat /\ 0 < NewAddress
      /\ \A x \in DOMAIN majors : x < NewAddress
  BY <1>1, <1>2, <1>4, NewAddressAbove
<1>6. mj \in [DOMAIN mj -> MajorRecords] /\ DOMAIN mj \subseteq Nat \ {0}
  BY <1>2, <1>3, <1>5, LinkedMajor
<1>7. DOMAIN mj = DOMAIN majors \cup {NewAddress} /\ NewAddress \notin DOMAIN majors
  BY <1>2, <1>3, <1>5, LinkedMajor
<1>8. \A x \in DOMAIN majors : mj[x].pages = majors[x].pages /\ mj[x].size = majors[x].size
  BY <1>2, <1>3, <1>5, LinkedMajor
<1>9. mj[NewAddress].pages = PagesFor(req) /\ mj[NewAddress].size = PagesFor(req) * l_pageSize
  BY <1>2, <1>3, <1>5, LinkedMajor
<1>10. BlocksIn(mj) /\ MinorsOf(NewAddress) = {}
  BY <1>2, <1>3, <1>5, LinkedMajor
<1>11. \A x, y \in DOMAIN mj : x < y => x + mj[x].size <= y
  BY <1>1, <1>2, <1>4, <1>7, <1>8, <1>9, NewMajorPlaced
<1>12. MAJOR + Need(req) <= PagesFor(req) * l_pageSize /\ PagesFor(req) * l_pageSize \in Nat
  BY <1>2, PagesForEnough
<1>13. a \in Nat /\ 0 < a /\ a + MAJOR \in Nat /\ 0 < a + MAJOR
  BY <1>1, <1>5 DEF MAJOR
<1>14. Place(mj, a, a + MAJOR, NULL, NULL, a + MAJOR)
  BY <1>4, <1>13, PlaceLast DEF HeapInv
<1>15. Gap(mj, a, a + MAJOR, NULL, NULL)
  <2>1. MinorsOf(a) = {} /\ mj[a].size = PagesFor(req) * l_pageSize
    BY <1>1, <1>9, <1>10
  <2>2. Need(req) \in Nat /\ Need(req) = Need(call.req_size)
    BY <1>1, NeedBounds
  <2>3. a + MAJOR + Need(call.req_size) <= a + mj[a].size
    BY <1>12, <1>13, <2>1, <2>2 DEF MAJOR
  <2> QED BY <1>13, <2>1, <2>3 DEF Gap, IsAbove
<1>16. a \in DOMAIN mj
  BY <1>1, <1>7
<1>17. Places(mj, a, a + MAJOR, NULL, NULL)
  BY <1>6, <1>10, <1>11, <1>13, <1>14, <1>15, <1>16 DEF Places
<1> QED BY <1>1, <1>2, <1>3, <1>4, <1>7, <1>13, <1>17

LEMMA Case1GrowKeepsInv ==
  ASSUME HeapInv, Case1Grow
  PROVE  HeapInv'
<1>1. PICK m, a, req : m = call.maj /\ a = NewAddress /\ req = call.req_size
  OBVIOUS
<1>2. /\ call.pc = "major" /\ call.pc \in Searching /\ m \in DOMAIN majors
      /\ majors[m].next = NULL /\ req \in Requests /\ NoneEmpty /\ NoteBestBet
  BY <1>1, NoneEmptyWhen DEF Case1Grow, Searching, HeapInv, CallInv
<1>3. l_bestBet' # NULL => l_bestBet' \in DOMAIN majors
  BY <1>2, NotedBet
<1>4. CASE GrowthFails
  BY <1>2, <1>3, <1>4, GrowthFailsKeepsInv
<1>5. CASE ~GrowthFails
  <2>1. PICK mj : mj = Linked(m, req)
    OBVIOUS
  <2>2. /\ liballoc_alloc(PagesFor(req)) /\ ~OutOfMemory /\ ~Unmapped
        /\ Places(mj, a, a + MAJOR, NULL, NULL) /\ UNCHANGED l_memRoot
    BY <1>1, <1>5, <2>1, Case1GrowPlaces DEF Case1Grow, allocate_new_page
  <2>3. /\ NewAddress \in Nat /\ 0 < NewAddress
        /\ \A x \in DOMAIN majors : x < NewAddress
    BY <1>1, <1>2, <2>2, NewAddressAbove
  <2>4. DOMAIN mj = DOMAIN majors \cup {NewAddress} /\ NewAddress \notin DOMAIN majors
    BY <1>2, <2>1, <2>3, LinkedMajor
  <2>5. \A x \in DOMAIN majors : /\ mj[x].pages = majors[x].pages
                                 /\ mj[x].size = majors[x].size
                                 /\ mj[x].first = majors[x].first
    BY <1>2, <2>1, <2>3, LinkedMajor
  <2>6. /\ mj[NewAddress].pages = PagesFor(req)
        /\ mj[NewAddress].size = PagesFor(req) * l_pageSize
    BY <1>2, <2>1, <2>3, LinkedMajor
  <2>7. MajorsListed(mj)
    BY <1>2, <2>1, <2>3, LinkedMajor
  <2>8. MajorsPlaced(mj)'
    BY <1>1, <1>2, <2>2, <2>4, <2>5, <2>6, NewMajorPlaced
  <2>9. \A x \in DOMAIN mj \ {a} : mj[x].first # NULL
    BY <1>1, <1>2, <2>4, <2>5 DEF NoneEmpty
  <2>10. HeapTypes /\ CallInv
    BY DEF HeapInv
  <2>11. /\ HeapTypes' /\ BlocksIn(majors)' /\ EmptyIsFilled' /\ CallInv' /\ CopyFits'
         /\ DOMAIN majors' = DOMAIN mj
         /\ \A x \in DOMAIN mj :
              /\ majors'[x].pages = mj[x].pages /\ majors'[x].size = mj[x].size
              /\ majors'[x].next = mj[x].next /\ majors'[x].prev = mj[x].prev
    <3>1. /\ mj \in [DOMAIN mj -> MajorRecords] /\ DOMAIN mj \subseteq Nat \ {0}
          /\ BlocksIn(mj) /\ \A x, y \in DOMAIN mj : x < y => x + mj[x].size <= y
          /\ a \in DOMAIN mj /\ a + MAJOR \in Nat
          /\ Gap(mj, a, a + MAJOR, NULL, NULL)
          /\ Place(mj, a, a + MAJOR, NULL, NULL, a + MAJOR)
      BY <2>2 DEF Places
    <3> QED BY <1>2, <2>9, <2>10, <3>1, PlaceReturns
  <2>12. MajorsPlaced(majors)' /\ MajorsListed(majors)'
    BY <2>2, <2>7, <2>8, <2>11 DEF MajorsPlaced, MajorsListed
  <2>13. PagingInv' /\ WrapsToNothing'
    BY <1>1, <1>2, <2>2, GrowthKeepsPaging
  <2>14. l_bestBet' # NULL => l_bestBet' \in DOMAIN majors'
    BY <1>3, <2>4, <2>11
  <2> QED BY <2>11, <2>12, <2>13, <2>14 DEF HeapInv
<1> QED BY <1>4, <1>5
-----------------------------------------------------------------------------
(* kfree.                                                                  *)

(* What is known of a block in use. *)
LEMMA BlockFacts ==
  ASSUME HeapInv, NEW h \in Live
  PROVE  /\ h \in DOMAIN minors /\ h \in Nat /\ h # 0 /\ minors[h] \in MinorRecords
         /\ minors[h].block \in DOMAIN majors /\ h \in MinorsOf(minors[h].block)
         /\ IsAbove(MinorsOf(minors[h].block), h, minors[h].next)
         /\ IsBelow(MinorsOf(minors[h].block), h, minors[h].prev)
<1>1. h \in DOMAIN minors /\ h \in Nat /\ h # 0 /\ minors[h] \in MinorRecords
  BY MinorFacts DEF Live
<1>2. minors[h].block \in DOMAIN majors /\ h \in MinorsOf(minors[h].block)
  BY DEF HeapInv, BlocksIn, BlocksPlaced, MinorsOf
<1> QED BY <1>1, <1>2 DEF HeapInv, BlocksIn, BlocksListed

(* The last block of a major is its only one.                              *)
LEMMA LastIsAlone ==
  ASSUME HeapInv, NEW h \in Live
  PROVE  LastBlock(h) <=> MinorsOf(minors[h].block) = {h}
<1>1. PICK m, S : m = minors[h].block /\ S = MinorsOf(m)
  OBVIOUS
<1>2. /\ h \in S /\ IsAbove(S, h, minors[h].next) /\ IsBelow(S, h, minors[h].prev)
      /\ IsAbove(S, 0, majors[m].first) /\ h \in Nat /\ h # 0
  BY <1>1, BlockFacts DEF HeapInv, BlocksIn, BlocksListed
<1>3. \A y \in S : y \in Nat
  BY <1>1, MinorFacts DEF MinorsOf, Live
<1>4. majors[m].first # NULL
  BY <1>2 DEF IsAbove
<1>5. ASSUME LastBlock(h) PROVE S = {h}
  <2>1. minors[h].prev = NULL /\ minors[h].next = NULL
    BY <1>1, <1>4, <1>5 DEF LastBlock, FirstAfter
  <2>2. \A y \in S : ~(h < y) /\ ~(y < h)
    BY <1>2, <2>1 DEF IsAbove, IsBelow
  <2>3. \A y \in S : y = h
    BY <1>2, <1>3, <2>2
  <2> QED BY <1>2, <2>3
<1>6. ASSUME S = {h} PROVE LastBlock(h)
  <2>1. minors[h].prev = NULL /\ minors[h].next = NULL
    BY <1>2, <1>6 DEF IsAbove, IsBelow
  <2> QED BY <2>1 DEF LastBlock, FirstAfter
<1> QED BY <1>1, <1>5, <1>6

(* What the headers are when a major keeps other blocks. *)
LEMMA KeepFields ==
  ASSUME HeapInv, NEW h \in Live, NEW m, m = minors[h].block,
         KeepMajor(h), ~LastBlock(h)
  PROVE  /\ Live' = Live \ {h} /\ MinorsOf(m)' = MinorsOf(m) \ {h}
         /\ \A x : x # m => MinorsOf(x)' = MinorsOf(x)
         /\ \A x \in Live \ {h} :
              /\ minors'[x].block = minors[x].block /\ minors'[x].size = minors[x].size
              /\ minors'[x].info = minors[x].info
              /\ minors'[x].req_size = minors[x].req_size
              /\ minors'[x].next = IF x = minors[h].prev THEN minors[h].next
                                   ELSE minors[x].next
              /\ minors'[x].prev = IF x = minors[h].next THEN minors[h].prev
                                   ELSE minors[x].prev
         /\ minors' \in [DOMAIN minors' -> MinorRecords]
         /\ DOMAIN minors' \subseteq Nat \ {0}
         /\ majors' \in [DOMAIN majors -> MajorRecords] /\ DOMAIN majors' = DOMAIN majors
         /\ \A x \in DOMAIN majors :
              /\ majors'[x].pages = majors[x].pages /\ majors'[x].size = majors[x].size
              /\ majors'[x].next = majors[x].next /\ majors'[x].prev = majors[x].prev
              /\ majors'[x].first = IF x = m THEN FirstAfter(h) ELSE majors[x].first
<1>1. PICK p, n, S : p = minors[h].prev /\ n = minors[h].next /\ S = MinorsOf(m)
  OBVIOUS
<1>2. /\ h \in S /\ IsAbove(S, h, n) /\ IsBelow(S, h, p) /\ h \in Nat /\ h # 0
      /\ S \subseteq Nat \ {0} /\ m \in DOMAIN majors /\ minors[h] \in MinorRecords
  <2>1. S \subseteq Nat \ {0}
    BY <1>1, MinorFacts DEF MinorsOf, Live
  <2> QED BY <1>1, <2>1, BlockFacts
<1>3. (p # NULL => p \in S \ {h}) /\ (n # NULL => n \in S \ {h}) /\ (n # NULL => n # p)
  BY <1>2, RemoveLinks
<1>4. \A x \in Live : minors[x] \in MinorRecords /\ x \in Nat \ {0} /\ minors[x].magic = "MAGIC"
  BY MinorFacts DEF Live
<1>5. p \in Nat /\ n \in Nat
  BY <1>1, <1>2 DEF MinorRecords
<1>6. /\ DOMAIN minors' = Live /\ minors' = [x \in Live |-> minors'[x]]
      /\ minors'[h] = [minors[h] EXCEPT !.magic = "DEAD", !.prev = NULL,
                                        !.next = NULL, !.size = 0, !.req_size = 0]
      /\ \A x \in Live \ {h} :
           minors'[x] = CASE x = n -> [minors[x] EXCEPT !.prev = p]
                          [] x = p -> [minors[x] EXCEPT !.next = n]
                          [] OTHER -> minors[x]
  <2>1. minors' = Unlinked(h)
    BY DEF KeepMajor
  <2> DEFINE V(x) == CASE x = h -> [minors[x] EXCEPT !.magic = "DEAD", !.prev = NULL,
                                      !.next = NULL, !.size = 0, !.req_size = 0]
                       [] x = minors[h].next -> [minors[x] EXCEPT !.prev = minors[h].prev]
                       [] x = minors[h].prev -> [minors[x] EXCEPT !.next = minors[h].next]
                       [] OTHER -> minors[x]
  <2>2. minors' = [x \in Live |-> V(x)]
    BY <2>1 DEF Unlinked
  <2>3. V(h) = [minors[h] EXCEPT !.magic = "DEAD", !.prev = NULL,
                                 !.next = NULL, !.size = 0, !.req_size = 0]
    <3>1. h # minors[h].next /\ h # minors[h].prev
      BY <1>1, <1>2, <1>3 DEF NULL
    <3> QED BY <3>1
  <2>4. \A x \in Live \ {h} : V(x) = CASE x = n -> [minors[x] EXCEPT !.prev = p]
                                      [] x = p -> [minors[x] EXCEPT !.next = n]
                                      [] OTHER -> minors[x]
    BY <1>1
  <2> HIDE DEF V
  <2>5. /\ DOMAIN minors' = Live /\ minors' = [x \in Live |-> minors'[x]]
        /\ \A x \in Live : minors'[x] = V(x)
    BY <2>2
  <2> QED BY <2>3, <2>4, <2>5
<1>7. minors'[h] \in MinorRecords /\ minors'[h].magic = "DEAD"
  <2>1. PICK d \in MinorRecords : d = minors[h]
    BY <1>2
  <2>2. minors'[h] = [prev |-> 0, next |-> 0, block |-> d.block, magic |-> "DEAD",
                      size |-> 0, req_size |-> 0, info |-> d.info]
    BY <1>6, <2>1 DEF MinorRecords, NULL
  <2> QED BY <2>2 DEF MinorRecords
<1>8. ASSUME NEW x \in Live \ {h}
      PROVE  /\ minors'[x] \in MinorRecords /\ minors'[x].magic = "MAGIC"
             /\ minors'[x].block = minors[x].block /\ minors'[x].size = minors[x].size
             /\ minors'[x].info = minors[x].info
             /\ minors'[x].req_size = minors[x].req_size
             /\ minors'[x].next = IF x = p THEN n ELSE minors[x].next
             /\ minors'[x].prev = IF x = n THEN p ELSE minors[x].prev
  <2>1. /\ minors[x] \in MinorRecords /\ x # 0 /\ minors[x].magic = "MAGIC"
        /\ minors'[x] = CASE x = n -> [minors[x] EXCEPT !.prev = p]
                          [] x = p -> [minors[x] EXCEPT !.next = n]
                          [] OTHER -> minors[x]
    BY <1>4, <1>6
  <2>2. CASE x = n
    BY <1>3, <1>5, <2>1, <2>2 DEF MinorRecords, NULL
  <2>3. CASE x # n /\ x = p
    BY <1>3, <1>5, <2>1, <2>3 DEF MinorRecords
  <2>4. CASE x # n /\ x # p
    BY <2>1, <2>4 DEF MinorRecords
  <2> QED BY <2>2, <2>3, <2>4
<1>9. Live' = Live \ {h}
  BY <1>6, <1>7, <1>8 DEF Live
<1>10. \A x : MinorsOf(x)' = {y \in Live \ {h} : minors'[y].block = x}
  BY <1>9 DEF MinorsOf
<1>11. MinorsOf(m)' = MinorsOf(m) \ {h}
  BY <1>8, <1>10 DEF MinorsOf
<1>12. ASSUME NEW x, x # m PROVE MinorsOf(x)' = MinorsOf(x)
  BY <1>8, <1>10, <1>12 DEF MinorsOf
<1>13. minors' \in [DOMAIN minors' -> MinorRecords] /\ DOMAIN minors' \subseteq Nat \ {0}
  <2>1. \A x \in Live : minors'[x] \in MinorRecords
    BY <1>7, <1>8
  <2> QED BY <1>4, <1>6, <2>1
<1>14. PICK u, f : u = majors[m].usage - Freed(h) /\ f = FirstAfter(h)
  OBVIOUS
<1>15. u \in Int /\ f \in Nat
  <2>1. majors[m] \in MajorRecords
    BY <1>2, MajorFacts
  <2>2. Freed(h) \in Int
    BY <1>2 DEF Freed, MINOR, MinorRecords
  <2>3. u \in Int
    BY <1>14, <2>1, <2>2 DEF MajorRecords
  <2>4. f = IF p = NULL THEN n ELSE majors[m].first
    BY <1>1, <1>14 DEF FirstAfter
  <2> QED BY <1>5, <2>1, <2>3, <2>4 DEF MajorRecords
<1>16. majors' = [majors EXCEPT ![m].usage = u, ![m].first = f]
  BY <1>14 DEF KeepMajor
<1>17. /\ majors' = [x \in DOMAIN majors |-> majors'[x]] /\ DOMAIN majors' = DOMAIN majors
       /\ \A x \in DOMAIN majors :
            majors'[x] = IF x = m THEN [majors[x] EXCEPT !.usage = u, !.first = f]
                         ELSE majors[x]
  <2>1. majors = [x \in DOMAIN majors |-> majors[x]]
    BY DEF HeapInv, HeapTypes
  <2> QED BY <1>2, <1>16, <2>1
<1>18. ASSUME NEW x \in DOMAIN majors
       PROVE  /\ majors'[x] \in MajorRecords
              /\ majors'[x].pages = majors[x].pages /\ majors'[x].size = majors[x].size
              /\ majors'[x].next = majors[x].next /\ majors'[x].prev = majors[x].prev
              /\ majors'[x].first = IF x = m THEN f ELSE majors[x].first
  <2>1. majors[x] \in MajorRecords
    BY MajorFacts
  <2>2. CASE x = m
    BY <1>15, <1>17, <2>1, <2>2 DEF MajorRecords
  <2>3. CASE x # m
    BY <1>17, <2>1, <2>3
  <2> QED BY <2>2, <2>3
<1>19. majors' \in [DOMAIN majors -> MajorRecords]
  BY <1>17, <1>18
<1> QED BY <1>1, <1>8, <1>9, <1>11, <1>12, <1>13, <1>14, <1>17, <1>18, <1>19

(* The lists and the layout are right afterwards. *)
LEMMA KeepMajorKeepsBlocks ==
  ASSUME HeapInv, NEW h \in Live, KeepMajor(h), ~LastBlock(h)
  PROVE  BlocksIn(majors)'
<1>1. PICK m, p, n, S, mj : /\ m = minors[h].block /\ p = minors[h].prev
                            /\ n = minors[h].next /\ S = MinorsOf(m) /\ mj = majors
  OBVIOUS
<1>2. /\ h \in S /\ IsAbove(S, h, n) /\ IsBelow(S, h, p) /\ S \subseteq Nat \ {0}
  <2>1. S \subseteq Nat \ {0}
    BY <1>1, MinorFacts DEF MinorsOf, Live
  <2> QED BY <1>1, <2>1, BlockFacts
<1>3. /\ Live' = Live \ {h} /\ MinorsOf(m)' = S \ {h}
      /\ \A x : x # m => MinorsOf(x)' = MinorsOf(x)
      /\ \A x \in Live \ {h} :
           /\ minors'[x].block = minors[x].block /\ minors'[x].size = minors[x].size
           /\ minors'[x].info = minors[x].info
           /\ minors'[x].req_size = minors[x].req_size
           /\ minors'[x].next = IF x = p THEN n ELSE minors[x].next
           /\ minors'[x].prev = IF x = n THEN p ELSE minors[x].prev
      /\ DOMAIN majors' = DOMAIN mj
      /\ \A x \in DOMAIN mj :
           /\ majors'[x].size = mj[x].size
           /\ majors'[x].first = IF x = m THEN FirstAfter(h) ELSE mj[x].first
  <2>1. Live' = Live \ {h} /\ MinorsOf(m)' = MinorsOf(m) \ {h}
    BY <1>1, KeepFields
  <2>2. \A x : x # m => MinorsOf(x)' = MinorsOf(x)
    BY <1>1, KeepFields
  <2>3. \A x \in Live \ {h} :
          /\ minors'[x].block = minors[x].block /\ minors'[x].size = minors[x].size
          /\ minors'[x].info = minors[x].info
          /\ minors'[x].req_size = minors[x].req_size
    BY <1>1, KeepFields
  <2>4. \A x \in Live \ {h} :
          /\ minors'[x].next = IF x = minors[h].prev THEN minors[h].next
                               ELSE minors[x].next
          /\ minors'[x].prev = IF x = minors[h].next THEN minors[h].prev
                               ELSE minors[x].prev
    BY <1>1, KeepFields
  <2>5. /\ DOMAIN majors' = DOMAIN majors
        /\ \A x \in DOMAIN majors :
             /\ majors'[x].size = majors[x].size
             /\ majors'[x].first = IF x = m THEN FirstAfter(h) ELSE majors[x].first
    BY <1>1, KeepFields
  <2> QED BY <1>1, <2>1, <2>2, <2>3, <2>4, <2>5
<1>4. /\ p # NULL => p \in S \ {h}
      /\ n # NULL => n \in S \ {h}
      /\ IsAbove(S \ {h}, p, n)
      /\ n # NULL => IsBelow(S \ {h}, n, p)
      /\ \A y \in (S \ {h}) \cup {0} : \A x :
           y # p /\ IsAbove(S, y, x) => IsAbove(S \ {h}, y, x)
      /\ \A y \in S \ {h} : \A x : y # n /\ IsBelow(S, y, x) => IsBelow(S \ {h}, y, x)
  <2>1. /\ p # NULL => p \in S \ {h}
        /\ n # NULL => n \in S \ {h}
        /\ IsAbove(S \ {h}, p, n)
        /\ n # NULL => IsBelow(S \ {h}, n, p)
    BY <1>2, RemoveLinks
  <2>2. \A y \in (S \ {h}) \cup {0} : \A x :
          y # p /\ IsAbove(S, y, x) => IsAbove(S \ {h}, y, x)
    BY <1>2, RemoveLinks
  <2>3. ASSUME NEW y \in S \ {h}, NEW x, y # n, IsBelow(S, y, x)
        PROVE  IsBelow(S \ {h}, y, x)
    BY <1>2, <2>3, RemoveLinks
  <2> QED BY <2>1, <2>2, <2>3
<1>5. \A x : MinorsOf(x) = {y \in Live : minors[y].block = x}
  BY DEF MinorsOf
<1>6. BlocksPlaced(mj) /\ BlocksListed(mj)
  BY <1>1 DEF HeapInv, BlocksIn
<1>7. BlocksPlaced(majors)'
  <2> SUFFICES ASSUME NEW x \in Live'
               PROVE  /\ minors'[x].block \in DOMAIN majors'
                      /\ minors'[x].block + MAJOR <= x
                      /\ x + MINOR + minors'[x].size
                           <= minors'[x].block + majors'[minors'[x].block].size
                      /\ minors'[x].info = AlignInfo(x + MINOR)
                      /\ SizeOf(minors'[x].req_size) <= minors'[x].size
    BY DEF BlocksPlaced, EndOfMinor
  <2>1. x \in Live \ {h}
    BY <1>3
  <2> QED BY <1>3, <1>6, <2>1 DEF BlocksPlaced, EndOfMinor
<1>8. ASSUME NEW x \in DOMAIN mj, x # m
      PROVE  /\ IsAbove(MinorsOf(x)', 0, majors'[x].first)
             /\ \A y \in MinorsOf(x)' : /\ IsAbove(MinorsOf(x)', y, minors'[y].next)
                                        /\ IsBelow(MinorsOf(x)', y, minors'[y].prev)
             /\ \A g, y \in MinorsOf(x)' : g < y => g + MINOR + minors'[g].size <= y
  <2>1. MinorsOf(x)' = MinorsOf(x) /\ majors'[x].first = mj[x].first
    BY <1>3, <1>8
  <2>2. ASSUME NEW y \in MinorsOf(x)
        PROVE  minors'[y].next = minors[y].next /\ minors'[y].prev = minors[y].prev
               /\ minors'[y].size = minors[y].size
    <3>1. y \in Live /\ minors[y].block = x /\ y # 0
      BY <1>5, BlockFacts
    <3>2. y # p /\ y # n /\ y # h
      BY <1>1, <1>4, <1>5, <1>8, <3>1 DEF NULL
    <3> QED BY <1>3, <3>1, <3>2
  <2>3. /\ IsAbove(MinorsOf(x), 0, mj[x].first)
        /\ \A y \in MinorsOf(x) : /\ IsAbove(MinorsOf(x), y, minors[y].next)
                                  /\ IsBelow(MinorsOf(x), y, minors[y].prev)
        /\ \A g, y \in MinorsOf(x) : g < y => g + MINOR + minors[g].size <= y
    BY <1>6 DEF BlocksListed, EndOfMinor
  <2> QED BY <2>1, <2>2, <2>3
<1>9. /\ IsAbove(S, 0, mj[m].first)
      /\ \A y \in S : /\ IsAbove(S, y, minors[y].next)
                      /\ IsBelow(S, y, minors[y].prev)
      /\ \A g, y \in S : g < y => g + MINOR + minors[g].size <= y
      /\ m \in DOMAIN mj /\ S \subseteq Live
  <2>1. m \in DOMAIN mj
    BY <1>1, BlockFacts
  <2> QED BY <1>1, <1>5, <1>6, <2>1 DEF BlocksListed, EndOfMinor
<1>10. IsAbove(S \ {h}, 0, majors'[m].first)
  <2>1. majors'[m].first = IF p = NULL THEN n ELSE mj[m].first
    BY <1>1, <1>3, <1>9 DEF FirstAfter
  <2>2. CASE p = NULL
    BY <1>4, <2>1, <2>2 DEF NULL
  <2>3. CASE p # NULL
    BY <1>4, <1>9, <2>1, <2>3 DEF NULL
  <2> QED BY <2>2, <2>3
<1>11. ASSUME NEW y \in S \ {h}
       PROVE  /\ IsAbove(S \ {h}, y, minors'[y].next)
              /\ IsBelow(S \ {h}, y, minors'[y].prev)
              /\ minors'[y].size = minors[y].size
  <2>1. /\ minors'[y].next = IF y = p THEN n ELSE minors[y].next
        /\ minors'[y].prev = IF y = n THEN p ELSE minors[y].prev
        /\ minors'[y].size = minors[y].size /\ y # NULL
    BY <1>2, <1>3, <1>9 DEF NULL
  <2>2. IsAbove(S \ {h}, y, minors'[y].next)
    BY <1>4, <1>9, <2>1
  <2>3. IsBelow(S \ {h}, y, minors'[y].prev)
    BY <1>4, <1>9, <2>1
  <2> QED BY <2>1, <2>2, <2>3
<1>12. /\ IsAbove(MinorsOf(m)', 0, majors'[m].first)
       /\ \A y \in MinorsOf(m)' : /\ IsAbove(MinorsOf(m)', y, minors'[y].next)
                                  /\ IsBelow(MinorsOf(m)', y, minors'[y].prev)
       /\ \A g, y \in MinorsOf(m)' : g < y => g + MINOR + minors'[g].size <= y
  BY <1>3, <1>9, <1>10, <1>11, ZenonT(40)
<1> QED
  <2> SUFFICES ASSUME NEW x \in DOMAIN mj
               PROVE  /\ IsAbove(MinorsOf(x)', 0, majors'[x].first)
                      /\ \A y \in MinorsOf(x)' : /\ IsAbove(MinorsOf(x)', y, minors'[y].next)
                                                 /\ IsBelow(MinorsOf(x)', y, minors'[y].prev)
                      /\ \A g, y \in MinorsOf(x)' : g < y => g + MINOR + minors'[g].size <= y
    BY <1>3, <1>7 DEF BlocksIn, BlocksListed, EndOfMinor
  <2> QED BY <1>8, <1>12

(* The list of majors without m: its neighbours meet. *)
LEMMA DropFields ==
  ASSUME HeapInv, NEW h \in Live, NEW m, m = minors[h].block,
         DropMajor(h), LastBlock(h)
  PROVE  /\ Live' = Live \ {h}
         /\ \A x \in Live \ {h} : minors'[x] = minors[x] /\ minors[x].block # m
         /\ minors' \in [DOMAIN minors' -> MinorRecords]
         /\ DOMAIN minors' \subseteq Nat \ {0}
         /\ majors' \in [DOMAIN majors' -> MajorRecords]
         /\ DOMAIN majors' = DOMAIN majors \ {m}
         /\ \A x \in DOMAIN majors \ {m} :
              /\ majors'[x].pages = majors[x].pages /\ majors'[x].size = majors[x].size
              /\ majors'[x].first = majors[x].first
<1>1. /\ m \in DOMAIN majors /\ majors[m] \in MajorRecords
      /\ \A x \in DOMAIN majors : majors[x] \in MajorRecords
  BY BlockFacts, MajorFacts
<1>2. MinorsOf(m) = {h}
  BY LastIsAlone
<1>3. /\ minors' = [x \in {y \in DOMAIN minors : minors[y].block # m} |-> minors[x]]
      /\ majors' = [x \in DOMAIN majors \ {m} |->
                      [majors[x] EXCEPT
                         !.next = IF x = majors[m].prev THEN majors[m].next ELSE @,
                         !.prev = PrevAfterDrop(x, m)]]
  BY DEF DropMajor
<1>4. \A x \in Live : minors[x].block = m <=> x = h
  BY <1>2 DEF MinorsOf
<1>5. \A x \in DOMAIN minors' : x \in DOMAIN minors /\ minors'[x] = minors[x] /\ minors[x].block # m
  BY <1>3
<1>6. \A x \in DOMAIN minors : minors[x].block # m => x \in DOMAIN minors'
  BY <1>3
<1>7. Live' = Live \ {h}
  BY <1>4, <1>5, <1>6 DEF Live
<1>8. \A x \in Live \ {h} : minors'[x] = minors[x] /\ minors[x].block # m
  BY <1>4, <1>5, <1>6 DEF Live
<1>9. minors' \in [DOMAIN minors' -> MinorRecords] /\ DOMAIN minors' \subseteq Nat \ {0}
  <2>1. \A x \in DOMAIN minors' : minors'[x] \in MinorRecords /\ x \in Nat \ {0}
    BY <1>5, MinorFacts
  <2>2. minors' = [x \in DOMAIN minors' |-> minors'[x]]
    BY <1>3
  <2> QED BY <2>1, <2>2
<1>10. DOMAIN majors' = DOMAIN majors \ {m} /\ majors' = [x \in DOMAIN majors' |-> majors'[x]]
  BY <1>3
<1>11. ASSUME NEW x \in DOMAIN majors \ {m}
       PROVE  /\ majors'[x] \in MajorRecords
              /\ majors'[x].pages = majors[x].pages /\ majors'[x].size = majors[x].size
              /\ majors'[x].first = majors[x].first
  <2>1. PICK d \in MajorRecords : d = majors[x]
    BY <1>1
  <2>2. PICK e \in Nat, f \in Nat :
          /\ e = IF x = majors[m].prev THEN majors[m].next ELSE majors[x].next
          /\ f = IF x = majors[m].next THEN majors[m].prev ELSE majors[x].prev
    BY <1>1 DEF MajorRecords
  <2>3. majors'[x] = [d EXCEPT !.next = e, !.prev = f]
    BY <1>3, <2>1, <2>2 DEF PrevAfterDrop
  <2> QED BY <2>1, <2>2, <2>3 DEF MajorRecords
<1>12. majors' \in [DOMAIN majors' -> MajorRecords]
  BY <1>10, <1>11
<1> QED BY <1>7, <1>8, <1>9, <1>10, <1>11, <1>12

LEMMA DropLinks ==
  ASSUME HeapInv, NEW h \in Live, NEW m, m = minors[h].block,
         NEW p, p = majors[m].prev, NEW n, n = majors[m].next, DropMajor(h),
         NEW x \in DOMAIN majors \ {m}
  PROVE  /\ majors'[x].next = IF x = p THEN n ELSE majors[x].next
         /\ majors'[x].prev = IF x = n THEN p ELSE majors[x].prev
<1>1. PICK d \in MajorRecords : d = majors[x]
  BY MajorFacts
<1>2. PICK e, f : /\ e = IF x = p THEN n ELSE majors[x].next
                  /\ f = IF x = n THEN p ELSE majors[x].prev
  OBVIOUS
<1>3. majors' = [y \in DOMAIN majors \ {m} |->
                   [majors[y] EXCEPT
                      !.next = IF y = majors[m].prev THEN majors[m].next ELSE @,
                      !.prev = PrevAfterDrop(y, m)]]
  BY DEF DropMajor
<1>4. majors'[x] = [d EXCEPT !.next = e, !.prev = f]
  BY <1>1, <1>2, <1>3 DEF PrevAfterDrop
<1> QED BY <1>1, <1>2, <1>4 DEF MajorRecords

(* A major given back is one the page allocator gave out, and has not been *)
(* given back before; the others are still out.                            *)
LEMMA DropReleases ==
  ASSUME HeapInv, NEW h \in Live, DropMajor(h), LastBlock(h)
  PROVE  Release /\ MajorsPlaced(majors)'
<1>1. PICK m, r : m = minors[h].block /\ r = [base |-> m \div PageSize, pages |-> majors[m].pages]
  OBVIOUS
<1>2. m \in DOMAIN majors /\ MajorsPlaced(majors)
  BY <1>1, BlockFacts DEF HeapInv
<1>3. liballoc_free(r) /\ r \in regions \ released /\ m = (m \div PageSize) * PageSize
  BY <1>1, <1>2 DEF DropMajor, MajorsPlaced
<1>4. Release
  BY <1>3 DEF Release
<1>5. /\ released' = released \cup {r} /\ regions' = regions /\ malloc_lock' = malloc_lock
      /\ current_page' = current_page /\ mem_current' = mem_current
  BY <1>3 DEF liballoc_free
<1>6. /\ DOMAIN majors' = DOMAIN majors \ {m}
      /\ \A x \in DOMAIN majors \ {m} :
           majors'[x].pages = majors[x].pages /\ majors'[x].size = majors[x].size
  BY <1>1, DropFields
<1>7. ASSUME NEW x \in DOMAIN majors \ {m}
      PROVE  [base |-> x \div PageSize, pages |-> majors[x].pages] # r
  <2>1. x = (x \div PageSize) * PageSize
    BY <1>2 DEF MajorsPlaced
  <2>2. x \div PageSize # m \div PageSize
    BY <1>3, <2>1
  <2> QED BY <1>1, <2>2
<1>8. MajorsPlaced(majors)'
  BY <1>2, <1>5, <1>6, <1>7 DEF MajorsPlaced, InDirectory, NewAddress
<1> QED BY <1>4, <1>8

LEMMA DropKeepsLists ==
  ASSUME HeapInv, NEW h \in Live, DropMajor(h), LastBlock(h)
  PROVE  MajorsListed(majors)' /\ BlocksIn(majors)'
<1>1. PICK m, p, n, D : /\ m = minors[h].block /\ p = majors[m].prev
                        /\ n = majors[m].next /\ D = DOMAIN majors
  OBVIOUS
<1>2. /\ m \in D /\ D \subseteq Nat \ {0} /\ IsAbove(D, m, n) /\ IsBelow(D, m, p)
      /\ IsAbove(D, 0, l_memRoot)
      /\ \A x \in D : IsAbove(D, x, majors[x].next) /\ IsBelow(D, x, majors[x].prev)
  BY <1>1, BlockFacts DEF HeapInv, HeapTypes, MajorsListed
<1>3. /\ DOMAIN majors' = D \ {m}
      /\ \A x \in D \ {m} :
           /\ majors'[x].next = IF x = p THEN n ELSE majors[x].next
           /\ majors'[x].prev = IF x = n THEN p ELSE majors[x].prev
           /\ majors'[x].size = majors[x].size /\ majors'[x].first = majors[x].first
  <2>1. DOMAIN majors' = DOMAIN majors \ {m}
    BY <1>1, DropFields
  <2>2. ASSUME NEW x \in DOMAIN majors \ {m}
        PROVE  /\ majors'[x].next = IF x = p THEN n ELSE majors[x].next
               /\ majors'[x].prev = IF x = n THEN p ELSE majors[x].prev
    BY <1>1, DropLinks
  <2>3. \A x \in DOMAIN majors \ {m} :
          majors'[x].size = majors[x].size /\ majors'[x].first = majors[x].first
    BY <1>1, DropFields
  <2> QED BY <1>1, <2>1, <2>2, <2>3
<1>4. l_memRoot' = IF l_memRoot = m THEN n ELSE l_memRoot
  BY <1>1 DEF DropMajor
<1>5. /\ IsAbove(D \ {m}, p, n)
      /\ n # NULL => IsBelow(D \ {m}, n, p)
      /\ l_memRoot = m <=> p = NULL
  <2>1. /\ D \subseteq Nat \ {0} /\ m \in D /\ IsAbove(D, m, n) /\ IsBelow(D, m, p)
        /\ IsAbove(D, 0, l_memRoot)
    BY <1>2
  <2> QED BY <2>1, RemoveLinks
<1>6. ASSUME NEW x \in (D \ {m}) \cup {0}, NEW y, x # p, IsAbove(D, x, y)
      PROVE  IsAbove(D \ {m}, x, y)
  BY <1>2, <1>6, RemoveLinks, ZenonT(40)
<1>7. ASSUME NEW x \in D \ {m}, NEW y, x # n, IsBelow(D, x, y)
      PROVE  IsBelow(D \ {m}, x, y)
  BY <1>2, <1>7, RemoveLinks
<1>8. IsAbove(D \ {m}, 0, l_memRoot')
  <2>1. CASE p = NULL
    BY <1>4, <1>5, <2>1 DEF NULL
  <2>2. CASE p # NULL
    BY <1>2, <1>4, <1>5, <1>6, <2>2 DEF NULL
  <2> QED BY <2>1, <2>2
<1>9. ASSUME NEW x \in D \ {m}
      PROVE  /\ IsAbove(D \ {m}, x, majors'[x].next)
             /\ IsBelow(D \ {m}, x, majors'[x].prev)
  <2>1. IsAbove(D \ {m}, x, majors'[x].next)
    BY <1>2, <1>3, <1>5, <1>6
  <2>2. IsBelow(D \ {m}, x, majors'[x].prev)
    <3>1. x # NULL
      BY <1>2 DEF NULL
    <3> QED BY <1>2, <1>3, <1>5, <1>7, <3>1
  <2> QED BY <2>1, <2>2
<1>10. MajorsListed(majors)'
  BY <1>3, <1>8, <1>9 DEF MajorsListed
<1>11. /\ Live' = Live \ {h}
       /\ \A x \in Live \ {h} : minors'[x] = minors[x] /\ minors[x].block # m
  BY <1>1, DropFields
<1>12. \A x : x # m => MinorsOf(x)' = MinorsOf(x)
  BY <1>1, <1>11 DEF MinorsOf
<1>13. BlocksPlaced(majors)'
  <2>1. \A x \in Live : minors[x].block \in D
    BY <1>1, BlockFacts
  <2> QED BY <1>3, <1>11, <2>1 DEF HeapInv, BlocksIn, BlocksPlaced, EndOfMinor
<1>14. BlocksListed(majors)'
  <2> SUFFICES ASSUME NEW x \in D \ {m}
               PROVE  /\ IsAbove(MinorsOf(x)', 0, majors'[x].first)
                      /\ \A y \in MinorsOf(x)' : /\ IsAbove(MinorsOf(x)', y, minors'[y].next)
                                                 /\ IsBelow(MinorsOf(x)', y, minors'[y].prev)
                      /\ \A g, y \in MinorsOf(x)' : g < y => g + MINOR + minors'[g].size <= y
    BY <1>3 DEF BlocksListed, EndOfMinor
  <2>1. MinorsOf(x)' = MinorsOf(x) /\ majors'[x].first = majors[x].first
    BY <1>3, <1>12
  <2>2. \A y \in MinorsOf(x) : minors'[y] = minors[y]
    <3>1. \A y \in MinorsOf(x) : y \in Live /\ minors[y].block = x
      BY DEF MinorsOf
    <3> QED BY <1>1, <1>11, <3>1
  <2>3. /\ IsAbove(MinorsOf(x), 0, majors[x].first)
        /\ \A y \in MinorsOf(x) : /\ IsAbove(MinorsOf(x), y, minors[y].next)
                                  /\ IsBelow(MinorsOf(x), y, minors[y].prev)
        /\ \A g, y \in MinorsOf(x) : g < y => g + MINOR + minors[g].size <= y
    BY <1>1 DEF HeapInv, BlocksIn, BlocksListed, EndOfMinor
  <2> QED BY <2>1, <2>2, <2>3
<1> QED BY <1>10, <1>13, <1>14 DEF BlocksIn

LEMMA FreeBlockKeepsInv ==
  ASSUME HeapInv, call.pc \in {"free", "copy"}, NEW h \in Live, FreeBlock(h),
         call' = Idle
  PROVE  HeapInv'
<1>1. NoneEmpty
  BY NoneEmptyWhen
<1>2. /\ CallInv' /\ CopyFits'
      /\ call' \in Calls /\ call'.pc = "idle" /\ call'.old = NULL
  BY DEF CallInv, CopyFits, Searching, FreeBlock, Idle, Calls, NULL
<1>3. PICK m : m = minors[h].block
  OBVIOUS
<1>4. CASE LastBlock(h)
  <2>1. DropMajor(h)
    BY <1>4 DEF FreeBlock
  <2>2. Release /\ MajorsPlaced(majors)' /\ MajorsListed(majors)' /\ BlocksIn(majors)'
    BY <1>4, <2>1, DropReleases, DropKeepsLists
  <2>3. PagingInv'
    BY <2>2, PagingStepInv DEF HeapInv, PagingNext
  <2>4. WrapsToNothing'
    BY <2>2 DEF HeapInv, WrapsToNothing, Release, liballoc_free, InDirectory
  <2>5. /\ minors' \in [DOMAIN minors' -> MinorRecords]
        /\ DOMAIN minors' \subseteq Nat \ {0}
        /\ majors' \in [DOMAIN majors' -> MajorRecords]
        /\ DOMAIN majors' = DOMAIN majors \ {m}
        /\ \A x \in DOMAIN majors \ {m} : majors'[x].first = majors[x].first
    BY <1>3, <1>4, <2>1, DropFields
  <2>6. HeapTypes'
    BY <1>2, <2>5 DEF HeapInv, HeapTypes
  <2>7. EmptyIsFilled'
    BY <1>1, <2>5 DEF EmptyIsFilled, NoneEmpty
  <2>8. l_bestBet' # NULL => l_bestBet' \in DOMAIN majors'
    BY <1>3, <2>1, <2>5 DEF DropMajor, BestBetAfterDrop, HeapInv
  <2> QED BY <1>2, <2>2, <2>3, <2>4, <2>6, <2>7, <2>8 DEF HeapInv
<1>5. CASE ~LastBlock(h)
  <2>1. KeepMajor(h)
    BY <1>5 DEF FreeBlock
  <2>2. UNCHANGED <<pagingVars, l_memRoot>> /\ m \in DOMAIN majors
        /\ l_bestBet' \in {m, l_bestBet}
    BY <1>3, <2>1, BlockFacts DEF KeepMajor
  <2>3. /\ minors' \in [DOMAIN minors' -> MinorRecords]
        /\ DOMAIN minors' \subseteq Nat \ {0}
        /\ majors' \in [DOMAIN majors -> MajorRecords] /\ DOMAIN majors' = DOMAIN majors
    BY <1>3, <1>5, <2>1, KeepFields
  <2>4. \A x \in DOMAIN majors :
           /\ majors'[x].pages = majors[x].pages /\ majors'[x].size = majors[x].size
           /\ majors'[x].next = majors[x].next /\ majors'[x].prev = majors[x].prev
           /\ majors'[x].first = IF x = m THEN FirstAfter(h) ELSE majors[x].first
    BY <1>3, <1>5, <2>1, KeepFields
  <2>5. BlocksIn(majors)'
    BY <1>5, <2>1, KeepMajorKeepsBlocks
  <2>6. MajorsPlaced(majors)' /\ MajorsListed(majors)'
    <3>1. PICK mj, mk : mj = majors /\ mk = majors'
      OBVIOUS
    <3>2. MajorsPlaced(mk)' /\ MajorsListed(mk)'
      BY <2>2, <2>3, <2>4, <3>1, SameMajors DEF HeapInv
    <3> QED BY <3>1, <3>2 DEF MajorsPlaced, MajorsListed
  <2>7. PagingInv'
    BY <2>2, PagingStepInv DEF HeapInv
  <2>8. WrapsToNothing'
    BY <2>2 DEF HeapInv, WrapsToNothing, pagingVars, InDirectory
  <2>9. HeapTypes'
    BY <1>2, <2>3 DEF HeapInv, HeapTypes
  <2>10. EmptyIsFilled'
    BY <1>1, <1>5, <2>3, <2>4 DEF EmptyIsFilled, NoneEmpty, LastBlock
  <2>11. l_bestBet' # NULL => l_bestBet' \in DOMAIN majors'
    BY <2>2, <2>3 DEF HeapInv
  <2> QED BY <1>2, <2>5, <2>6, <2>7, <2>8, <2>9, <2>10, <2>11 DEF HeapInv
<1> QED BY <1>4, <1>5

(* Nothing changes that the heap goes by. *)
LEMMA SameHeap ==
  ASSUME HeapInv, UNCHANGED <<pagingVars, majors, minors, l_memRoot, l_bestBet, call>>
  PROVE  HeapInv'
<1>1. PagingInv'
  BY PagingStepInv DEF HeapInv
<1>2. HeapTypes' /\ EmptyIsFilled'
  BY DEF HeapInv, HeapTypes, EmptyIsFilled
<1>3. WrapsToNothing'
  BY DEF HeapInv, WrapsToNothing, pagingVars, InDirectory
<1>4. PICK mj : mj = majors
  OBVIOUS
<1>5. MajorsPlaced(mj)' /\ MajorsListed(mj)' /\ BlocksIn(mj)' /\ majors' = mj
  BY <1>4, SameMajors, SameBlocks DEF HeapInv
<1>6. MajorsPlaced(majors)' /\ MajorsListed(majors)' /\ BlocksIn(majors)'
  BY <1>5 DEF MajorsPlaced, MajorsListed, BlocksIn, BlocksPlaced, BlocksListed
<1>7. Live' = Live /\ \A x : MinorsOf(x)' = MinorsOf(x)
  BY DEF Live, MinorsOf
<1>8. CallInv'
  <2>1. MinorsOf(call.maj)' = MinorsOf(call.maj)
    BY DEF Live, MinorsOf
  <2>2. NoneEmpty' = NoneEmpty /\ WithinBounds(call.req_size)' = WithinBounds(call.req_size)
        /\ malloc_lock' = malloc_lock
    BY DEF NoneEmpty, WithinBounds, PagesMapped, pagingVars
  <2> QED BY <1>7, <2>1, <2>2 DEF HeapInv, CallInv
<1>9. CopyFits'
  BY <1>7 DEF HeapInv, CopyFits, Pointer, EndOfMinor
<1> QED BY <1>1, <1>2, <1>3, <1>6, <1>8, <1>9 DEF HeapInv

(* A call that is given no block ends, or hangs the kernel. *)
LEMMA IdleOrOver ==
  ASSUME NEW pc \in {"idle", "halted", "stray"}, call' = [Idle EXCEPT !.pc = pc]
  PROVE  /\ call' \in Calls /\ call'.pc = pc /\ call'.old = NULL /\ call'.req_size = 0
         /\ CallInv' /\ CopyFits'
<1>1. call' = [pc |-> pc, req_size |-> 0, maj |-> NULL, min |-> NULL,
               startedBet |-> FALSE, bestSize |-> 0, old |-> NULL, new |-> NULL]
  BY DEF Idle
<1>2. PICK c, nul : c = call' /\ nul = NULL
  OBVIOUS
<1>3. c \in Calls
  <2>1. c = [pc |-> pc, req_size |-> 0, maj |-> nul, min |-> nul,
             startedBet |-> FALSE, bestSize |-> 0, old |-> nul, new |-> nul]
    BY <1>1, <1>2
  <2>2. nul \in Nat
    BY <1>2 DEF NULL
  <2> QED BY <2>1, <2>2 DEF Calls
<1>4. call'.pc = pc /\ call'.old = NULL /\ call'.req_size = 0
  BY <1>1
<1>5. CallInv' /\ CopyFits'
  BY <1>4 DEF CallInv, CopyFits, Searching
<1> QED BY <1>2, <1>3, <1>4, <1>5

LEMMA EndKeepsInv ==
  ASSUME HeapInv, call.pc \in {"free", "realloc", "copy"},
         UNCHANGED <<pagingVars, majors, minors, l_memRoot, l_bestBet>>,
         NEW pc \in {"idle", "halted", "stray"}, call' = [Idle EXCEPT !.pc = pc]
  PROVE  HeapInv'
<1>1. NoneEmpty
  BY NoneEmptyWhen
<1>2. EmptyIsFilled'
  BY <1>1 DEF EmptyIsFilled, NoneEmpty
<1>3. call' \in Calls /\ call'.pc # "copy" /\ CallInv'
  BY IdleOrOver
<1>4. l_bestBet' # NULL => l_bestBet' \in DOMAIN majors
  BY DEF HeapInv
<1> QED BY <1>2, <1>3, <1>4, SearchStep

LEMMA BadPointerKeepsInv ==
  ASSUME HeapInv, call.pc \in {"free", "realloc"}, BadPointer(call.old)
  PROVE  HeapInv'
<1>1. UNCHANGED <<pagingVars, majors, minors, l_memRoot, l_bestBet>>
  BY DEF BadPointer
<1>2. Idle = [Idle EXCEPT !.pc = "idle"]
  BY DEF Idle, NULL
<1>3. PICK pc \in {"idle", "halted", "stray"} : call' = [Idle EXCEPT !.pc = pc]
  BY <1>2 DEF BadPointer, Hung
<1> QED BY <1>1, <1>3, EndKeepsInv

(* The pointer of a call leads to a block when its header is in use. *)
LEMMA LeadsToOld ==
  ASSUME HeapInv, call.pc \in {"free", "realloc", "copy"}
  PROVE  /\ LeadsToBlock(call.old) <=> call.old \in Live
         /\ call.old # Foreign => HeaderOf(call.old) = call.old
<1>1. call.old # Foreign => call.old \in DOMAIN minors
  BY DEF HeapInv, CallInv, Live, Foreign
<1>2. Foreign \notin Live
  BY DEF HeapInv, HeapTypes, Live, Foreign, NULL
<1> QED BY <1>1, <1>2, HeaderOfIs DEF LeadsToBlock

(* A block that keeps its place for a smaller request. *)
LEMMA ShrinkKeepsInv ==
  ASSUME HeapInv, call.pc = "realloc", NEW g \in Live, NEW req \in Requests,
         ShrinksInPlace(g, req), minors' = [minors EXCEPT ![g].req_size = req],
         UNCHANGED <<pagingVars, majors, l_memRoot, l_bestBet>>, call' = Idle
  PROVE  HeapInv'
<1>1. /\ g \in DOMAIN minors /\ req \in Nat /\ req <= minors[g].req_size
      /\ \A x \in DOMAIN minors : minors[x] \in MinorRecords
  BY BlockFacts, MinorFacts, LiballocAssumption DEF ShrinksInPlace, MinorRecords
<1>2. /\ DOMAIN minors' = DOMAIN minors /\ minors' = [x \in DOMAIN minors |-> minors'[x]]
      /\ \A x \in DOMAIN minors :
           minors'[x] = IF x = g THEN [minors[x] EXCEPT !.req_size = req] ELSE minors[x]
  <2>1. minors = [x \in DOMAIN minors |-> minors[x]]
    BY DEF HeapInv, HeapTypes
  <2> QED BY <1>1, <2>1
<1>3. ASSUME NEW x \in DOMAIN minors
      PROVE  /\ minors'[x] \in MinorRecords /\ minors'[x].magic = minors[x].magic
             /\ minors'[x].block = minors[x].block /\ minors'[x].size = minors[x].size
             /\ minors'[x].info = minors[x].info
             /\ minors'[x].next = minors[x].next /\ minors'[x].prev = minors[x].prev
             /\ minors'[x].req_size \in Nat /\ minors[x].req_size \in Nat
             /\ minors'[x].req_size <= minors[x].req_size
  BY <1>1, <1>2 DEF MinorRecords
<1>4. Live' = Live /\ Live \subseteq DOMAIN minors
  BY <1>2, <1>3 DEF Live
<1>5. \A x : MinorsOf(x)' = MinorsOf(x) /\ MinorsOf(x) \subseteq DOMAIN minors
  BY <1>3, <1>4 DEF MinorsOf
<1>6. BlocksPlaced(majors)'
  <2>1. BlocksPlaced(majors)
    BY DEF HeapInv, BlocksIn
  <2> SUFFICES ASSUME NEW x \in Live
               PROVE  /\ minors'[x].block \in DOMAIN majors
                      /\ minors'[x].block + MAJOR <= x
                      /\ x + MINOR + minors'[x].size
                           <= minors'[x].block + majors[minors'[x].block].size
                      /\ minors'[x].info = AlignInfo(x + MINOR)
                      /\ SizeOf(minors'[x].req_size) <= minors'[x].size
    BY <1>4 DEF BlocksPlaced, EndOfMinor
  <2>2. x \in DOMAIN minors /\ minors[x].size \in Nat /\ SizeOf(minors[x].req_size) <= minors[x].size
    BY <1>1, <1>4, <2>1 DEF BlocksPlaced, MinorRecords
  <2>3. SizeOf(minors'[x].req_size) <= minors'[x].size
    BY <1>3, <2>2 DEF SizeOf, ALIGNMENT, ALIGN_INFO
  <2> QED BY <1>3, <2>1, <2>2, <2>3 DEF BlocksPlaced, EndOfMinor
<1>7. BlocksListed(majors)'
  <2> SUFFICES ASSUME NEW x \in DOMAIN majors
               PROVE  /\ IsAbove(MinorsOf(x)', 0, majors[x].first)
                      /\ \A y \in MinorsOf(x)' : /\ IsAbove(MinorsOf(x)', y, minors'[y].next)
                                                 /\ IsBelow(MinorsOf(x)', y, minors'[y].prev)
                      /\ \A b, y \in MinorsOf(x)' : b < y => b + MINOR + minors'[b].size <= y
    BY DEF BlocksListed, EndOfMinor
  <2>1. /\ IsAbove(MinorsOf(x), 0, majors[x].first)
        /\ \A y \in MinorsOf(x) : /\ IsAbove(MinorsOf(x), y, minors[y].next)
                                  /\ IsBelow(MinorsOf(x), y, minors[y].prev)
        /\ \A b, y \in MinorsOf(x) : b < y => b + MINOR + minors[b].size <= y
    BY DEF HeapInv, BlocksIn, BlocksListed, EndOfMinor
  <2> QED BY <1>3, <1>5, <2>1
<1>8. PagingInv'
  BY PagingStepInv DEF HeapInv
<1>9. WrapsToNothing'
  BY DEF HeapInv, WrapsToNothing, pagingVars, InDirectory
<1>10. MajorsPlaced(majors)' /\ MajorsListed(majors)'
  <2>1. PICK mj : mj = majors
    OBVIOUS
  <2>2. MajorsPlaced(mj)' /\ MajorsListed(mj)' /\ majors' = mj
    BY <2>1, SameMajors DEF HeapInv
  <2> QED BY <2>2 DEF MajorsPlaced, MajorsListed
<1>11. HeapTypes'
  <2>1. minors' \in [DOMAIN minors' -> MinorRecords]
    BY <1>2, <1>3
  <2>2. call' \in Calls
    BY DEF Idle, Calls, NULL
  <2> QED BY <1>2, <2>1, <2>2 DEF HeapInv, HeapTypes
<1>12. EmptyIsFilled'
  BY NoneEmptyWhen DEF EmptyIsFilled, NoneEmpty
<1>13. CallInv' /\ CopyFits'
  BY DEF Idle, CallInv, CopyFits, Searching
<1> QED BY <1>6, <1>7, <1>8, <1>9, <1>10, <1>11, <1>12, <1>13 DEF HeapInv, BlocksIn

LEMMA KreallocKeepsInv ==
  ASSUME HeapInv, krealloc
  PROVE  HeapInv'
<1>1. PICK g, req : g = call.old /\ req = call.req_size
  OBVIOUS
<1>2. call.pc = "realloc" /\ req \in Requests /\ ~malloc_lock
  BY <1>1 DEF krealloc, HeapInv, CallInv
<1>3. /\ LeadsToBlock(g) <=> g \in Live
      /\ g \in Live => HeaderOf(g) = g
  BY <1>1, <1>2, LeadsToOld DEF LeadsToBlock
<1>4. CASE /\ LeadsToBlock(g) /\ ShrinksInPlace(HeaderOf(g), req)
           /\ minors' = [minors EXCEPT ![HeaderOf(g)].req_size = req]
           /\ call' = Idle
           /\ UNCHANGED <<pagingVars, majors, l_memRoot, l_bestBet>>
  BY <1>2, <1>3, <1>4, ShrinkKeepsInv
<1>5. CASE /\ LeadsToBlock(g) /\ ~ShrinksInPlace(HeaderOf(g), req)
           /\ call' = [call EXCEPT !.pc = "start"]
           /\ UNCHANGED <<pagingVars, majors, minors, l_memRoot, l_bestBet>>
  <2>1. g \in Live /\ minors[g].req_size < req
    BY <1>2, <1>3, <1>5, BlockFacts, LiballocAssumption DEF ShrinksInPlace, MinorRecords
  <2>2. /\ call' \in Calls /\ call'.pc = "start" /\ call'.old = g /\ call'.req_size = req
    BY <1>1, <1>5 DEF HeapInv, HeapTypes, Calls, Searching
  <2>3. WithinBounds(req)
    BY <1>1, <1>2, <2>1 DEF HeapInv, CallInv
  <2>4. Live' = Live /\ WithinBounds(req)' = WithinBounds(req) /\ malloc_lock' = malloc_lock
    BY <1>5 DEF Live, WithinBounds, PagesMapped, pagingVars
  <2>5. CallInv'
    BY <1>2, <1>5, <2>1, <2>2, <2>3, <2>4 DEF CallInv, Searching
  <2>6. EmptyIsFilled'
    BY <1>2, <1>5, NoneEmptyWhen DEF EmptyIsFilled, NoneEmpty
  <2> QED BY <1>2, <1>5, <2>2, <2>5, <2>6, SearchStep DEF HeapInv, HeapTypes
<1>6. CASE BadPointer(g)
  BY <1>1, <1>2, <1>6, BadPointerKeepsInv
<1> QED BY <1>1, <1>4, <1>5, <1>6 DEF krealloc

LEMMA KfreeKeepsInv ==
  ASSUME HeapInv, kfree
  PROVE  HeapInv'
<1>1. call.pc = "free"
  BY DEF kfree
<1>2. CASE BadPointer(call.old)
  BY <1>1, <1>2, BadPointerKeepsInv
<1>3. CASE LeadsToBlock(call.old) /\ FreeBlock(HeaderOf(call.old)) /\ call' = Idle
  <2>1. call.old \in Live /\ HeaderOf(call.old) = call.old
    BY <1>1, <1>3, LeadsToOld DEF LeadsToBlock
  <2> QED BY <1>1, <1>3, <2>1, FreeBlockKeepsInv
<1> QED BY <1>2, <1>3 DEF kfree

(* What realloc frees is the block it was given. *)
LEMMA CopyFrees ==
  ASSUME HeapInv, CopyAndFree
  PROVE  /\ call.pc = "copy" /\ call.old \in Live
         /\ \/ FreeBlock(call.old) /\ call' = Idle
            \/ /\ call' = [Idle EXCEPT !.pc = "stray"]
               /\ UNCHANGED <<pagingVars, majors, minors, l_memRoot, l_bestBet, l_allocated,
                              l_inuse>>
<1>1. call.pc = "copy" /\ call.old \in Live
  BY DEF CopyAndFree, HeapInv, CallInv
<1>2. HeaderOf(call.old) = call.old
  BY <1>1, HeaderOfIs DEF Live
<1> QED BY <1>1, <1>2 DEF CopyAndFree

LEMMA CopyKeepsInv ==
  ASSUME HeapInv, CopyAndFree
  PROVE  HeapInv'
<1> QED BY CopyFrees, FreeBlockKeepsInv, EndKeepsInv

LEMMA BootKeepsInv ==
  ASSUME HeapInv, Boot
  PROVE  HeapInv'
<1>1. /\ initalize_memory /\ malloc_lock /\ ~malloc_lock'
      /\ UNCHANGED <<majors, minors, l_memRoot, l_bestBet, call>>
  BY DEF Boot, heapVars, initalize_memory
<1>2. DOMAIN majors = {}
  BY <1>1 DEF HeapInv, MajorsPlaced
<1>3. /\ PagingInv /\ PagingTypeOK /\ current_page = HeapBasePage
      /\ NumPages \in Nat /\ KernelPage \in Nat /\ HeapBasePage \in Nat
      /\ KernelPage + 1 < HeapBasePage /\ HeapBasePage < NumPages /\ 0 < KernelPage
  BY <1>1, PagingAssumption DEF HeapInv, PagingInv, BeforeBoot
<1>4. PagingInv'
  BY <1>1, <1>3, PagingStepInv DEF PagingNext
<1>5. /\ get_free_page(initalize_paging, 1) /\ mem_current' = FreePageAddress(1)
  BY <1>1 DEF initalize_memory
<1>6. /\ current_page' = HeapBasePage + 1 /\ mem_current' = (current_page' - 1) % NumPages
  BY <1>3, <1>5 DEF get_free_page, MapPages, FreePageAddress
<1>7. WrapsToNothing'
  <2>1. ASSUME NEW p \in 1 .. KernelPage - 1 PROVE ~page_directory'[p].present
    <3>1. p \in Pages /\ p \notin current_page .. current_page + 1 - 1
      BY <1>3 DEF Pages
    <3>2. page_directory'[p] = initalize_paging[p]
      BY <1>5, <3>1 DEF get_free_page, MapPages
    <3>3. p # 0 /\ p # KernelPage /\ p # KernelPage + 1
      BY <1>3
    <3>4. initalize_paging[p] = NotPresent
      BY <3>1, <3>3 DEF initalize_paging
    <3> QED BY <3>2, <3>4 DEF NotPresent
  <2>2. InDirectory'
    BY <1>3, <1>6 DEF InDirectory
  <2> QED BY <1>6, <2>1, <2>2 DEF WrapsToNothing
<1>8. HeapTypes' /\ EmptyIsFilled' /\ MajorsPlaced(majors)' /\ MajorsListed(majors)'
  BY <1>1, <1>2 DEF HeapInv, HeapTypes, EmptyIsFilled, MajorsPlaced, MajorsListed
<1>9. Live = {} /\ Live' = {}
  BY <1>1, <1>2 DEF HeapInv, BlocksIn, BlocksPlaced, Live
<1>10. BlocksIn(majors)'
  BY <1>1, <1>2, <1>9 DEF BlocksIn, BlocksPlaced, BlocksListed
<1>11. CallInv' /\ CopyFits'
  BY <1>1, <1>2, <1>9 DEF HeapInv, CallInv, CopyFits, Searching
<1>12. l_bestBet' # NULL => l_bestBet' \in DOMAIN majors'
  BY <1>1 DEF HeapInv
<1> QED BY <1>4, <1>7, <1>8, <1>10, <1>11, <1>12 DEF HeapInv

LEMMA HeapStepInv ==
  ASSUME HeapInv, [HeapNext]_vars
  PROVE  HeapInv'
<1>1. CASE UNCHANGED vars
  BY <1>1, SameHeap DEF vars, heapVars, HeapInv, HeapTypes
<1>2. CASE Boot
  BY <1>2, BootKeepsInv
<1>3. CASE \E req \in Requests : CallMalloc(req)
  BY <1>3, CallMallocKeepsInv
<1>4. CASE \E h \in DOMAIN minors \cup {Foreign} :
             CallFree(h) \/ \E req \in Requests \ {0} : CallRealloc(h, req)
  BY <1>4, CallFreeKeepsInv, CallReallocKeepsInv
<1> QED
  BY <1>1, <1>2, <1>3, <1>4, FirstUseKeepsInv, StartSearchKeepsInv,
     Case1MoveKeepsInv, Case1GrowKeepsInv, Case2KeepsInv, Case3KeepsInv,
     Case4EnterKeepsInv, Case4FitKeepsInv, Case4NextKeepsInv, Case5MoveKeepsInv,
     Case5GrowKeepsInv, KfreeKeepsInv, KreallocKeepsInv, CopyKeepsInv
     DEF HeapNext, CallStep
-----------------------------------------------------------------------------
(* What holds of the heap, whatever is asked of it. *)

(* The inductive invariant of the heap holds of every reachable state.     *)
THEOREM HeapInvariant == HeapSpec => []HeapInv
<1>1. HeapInit => HeapInv
  BY HeapInitInv
<1>2. HeapInv /\ [HeapNext]_vars => HeapInv'
  BY HeapStepInv
<1> QED BY <1>1, <1>2, PTL DEF HeapSpec, HeapSafety

(* The majors are listed in the order of their addresses, both ways round, *)
(* whichever is freed and wherever malloc adds one; l_bestBet is one of    *)
(* them.                                                                   *)
LEMMA MajorsOrdered ==
  ASSUME HeapInv
  PROVE  MajorsInOrder
<1>1. DOMAIN majors \subseteq Nat \ {0} /\ MajorsListed(majors)
  BY DEF HeapInv, HeapTypes
<1>2. l_memRoot = Above(DOMAIN majors, 0)
  BY <1>1, AboveIs DEF MajorsListed
<1>3. \A m \in DOMAIN majors : /\ majors[m].next = Above(DOMAIN majors, m)
                               /\ majors[m].prev = Below(DOMAIN majors, m)
  BY <1>1, AboveIs, BelowIs DEF MajorsListed
<1> QED BY <1>2, <1>3 DEF MajorsInOrder, HeapInv

(* The majors stay listed in the order of their addresses, both ways       *)
(* round, none is lost, and the best bet is never one that was freed.      *)
THEOREM MajorsStayInOrder == HeapSpec => []MajorsInOrder
<1>1. HeapInv => MajorsInOrder
  BY MajorsOrdered
<1> QED BY <1>1, HeapInvariant, PTL

(* So are the blocks of a major, and a major without blocks exists only    *)
(* while malloc is about to fill it.                                       *)
LEMMA MinorsOrdered ==
  ASSUME HeapInv
  PROVE  MinorsInOrder
<1>1. \A h \in Live : minors[h].block \in DOMAIN majors
  BY BlockFacts
<1>2. ASSUME NEW m \in DOMAIN majors
      PROVE  /\ majors[m].first = Above(MinorsOf(m), 0)
             /\ \A h \in MinorsOf(m) : /\ minors[h].next = Above(MinorsOf(m), h)
                                       /\ minors[h].prev = Below(MinorsOf(m), h)
  <2>1. PICK S : S = MinorsOf(m)
    OBVIOUS
  <2>2. S \subseteq Nat \ {0}
    BY <2>1, MajorFacts, MinorFacts
  <2>3. /\ IsAbove(S, 0, majors[m].first)
        /\ \A h \in S : IsAbove(S, h, minors[h].next) /\ IsBelow(S, h, minors[h].prev)
    BY <2>1 DEF HeapInv, BlocksIn, BlocksListed
  <2>4. majors[m].first = Above(S, 0)
    BY <2>2, <2>3, AboveIs
  <2>5. \A h \in S : minors[h].next = Above(S, h) /\ minors[h].prev = Below(S, h)
    BY <2>2, <2>3, AboveIs, BelowIs
  <2> QED BY <2>1, <2>4, <2>5
<1>3. \A m \in DOMAIN majors :
        majors[m].first = NULL => call.pc \in {"start", "major"} /\ majors[m].next = NULL
  BY DEF HeapInv, EmptyIsFilled
<1> QED BY <1>1, <1>2, <1>3 DEF MinorsInOrder

(* The blocks of a major stay so too, wherever malloc places them and in   *)
(* whatever order they are freed.                                          *)
THEOREM MinorsStayInOrder == HeapSpec => []MinorsInOrder
<1>1. HeapInv => MinorsInOrder
  BY MinorsOrdered
<1> QED BY <1>1, HeapInvariant, PTL

(* No block reaches into another, or out of its major; the caller's part   *)
(* is aligned and UNALIGN leads from it back to the header; a major is     *)
(* memory that the page allocator gave out and still counts as in use.     *)
LEMMA BlocksAreApart ==
  ASSUME HeapInv
  PROVE  BlocksApart
<1>1. BlocksPlaced(majors) /\ BlocksListed(majors) /\ MajorsPlaced(majors)
  BY DEF HeapInv, BlocksIn
<1>2. ASSUME NEW h \in Live
      PROVE  /\ h \in Nat /\ minors[h].size \in Nat /\ minors[h].block \in DOMAIN majors
             /\ minors[h].block \in Nat /\ majors[minors[h].block].size \in Nat
             /\ minors[h].block + 24 <= h
             /\ h + 24 + minors[h].size <= minors[h].block + majors[minors[h].block].size
  <2>1. /\ h \in Nat /\ minors[h].size \in Nat /\ minors[h].block \in DOMAIN majors
        /\ minors[h].block \in Nat
    BY BlockFacts DEF MinorRecords
  <2>2. majors[minors[h].block].size \in Nat
    BY <2>1, MajorFacts DEF MajorRecords
  <2> QED BY <1>1, <2>1, <2>2 DEF BlocksPlaced, EndOfMinor, MAJOR, MINOR
<1>3. ASSUME NEW h \in Live
      PROVE  LET m == minors[h].block IN
             /\ m + MAJOR <= h /\ EndOfMinor(h) <= EndOf(m)
             /\ Pointer(h) % ALIGNMENT = 0
             /\ h + MINOR < Pointer(h) /\ Pointer(h) + minors[h].req_size <= EndOfMinor(h)
             /\ HeaderOf(h) = h
  <2>1. minors[h].block + MAJOR <= h /\ EndOfMinor(h) <= EndOf(minors[h].block)
    BY <1>1 DEF BlocksPlaced, EndOf
  <2>2. h + MINOR \in Nat /\ minors[h].req_size \in Nat /\ minors[h].info \in 16 .. 31
    BY BlockFacts DEF MinorRecords, MINOR, ALIGN_INFO, ALIGNMENT
  <2>3. Pointer(h) = h + MINOR + AlignInfo(h + MINOR)
    BY <1>1 DEF BlocksPlaced, Pointer
  <2>4. Pointer(h) % ALIGNMENT = 0
    BY <2>2, <2>3, AlignBounds
  <2>5. h + MINOR < Pointer(h) /\ Pointer(h) + minors[h].req_size <= EndOfMinor(h)
    <3>1. minors[h].req_size + 32 <= minors[h].size
      BY <1>1, <2>2 DEF BlocksPlaced, SizeOf, ALIGNMENT, ALIGN_INFO
    <3> QED BY <1>2, <2>2, <3>1 DEF Pointer, EndOfMinor, MINOR
  <2>6. HeaderOf(h) = h
    BY BlockFacts, HeaderOfIs
  <2> QED BY <2>1, <2>4, <2>5, <2>6
<1>4. ASSUME NEW g \in Live, NEW h \in Live, g < h PROVE EndOfMinor(g) <= h
  <2>1. PICK a, b : a = minors[g].block /\ b = minors[h].block
    OBVIOUS
  <2>2. CASE a = b
    <3>1. g \in MinorsOf(a) /\ h \in MinorsOf(a)
      BY <2>1, <2>2 DEF MinorsOf
    <3> QED BY <1>1, <1>2, <1>4, <2>1, <3>1 DEF BlocksListed
  <2>3. CASE a # b
    <3>1. /\ a \in DOMAIN majors /\ b \in DOMAIN majors /\ a \in Nat /\ b \in Nat
          /\ majors[a].size \in Nat /\ majors[b].size \in Nat
          /\ g \in Nat /\ h \in Nat /\ minors[g].size \in Nat /\ minors[h].size \in Nat
          /\ a + 24 <= g /\ g + 24 + minors[g].size <= a + majors[a].size
          /\ b + 24 <= h /\ h + 24 + minors[h].size <= b + majors[b].size
      BY <1>2, <2>1
    <3>2. (a < b => a + majors[a].size <= b) /\ (b < a => b + majors[b].size <= a)
      BY <1>1, <3>1 DEF MajorsPlaced
    <3> QED BY <1>4, <2>3, <3>1, <3>2 DEF EndOfMinor, MINOR
  <2> QED BY <2>2, <2>3
<1>5. \A m \in DOMAIN majors : RegionOf(m) \in regions \ released
  BY <1>1 DEF MajorsPlaced, RegionOf
<1> QED BY <1>3, <1>4, <1>5 DEF BlocksApart

(* Blocks never touch, never leave their major, and start where the        *)
(* pointer that malloc returns leads back to; majors are regions that the  *)
(* page allocator gave out and has not been given back.                    *)
THEOREM BlocksStayApart == HeapSpec => []BlocksApart
<1>1. HeapInv => BlocksApart
  BY BlocksAreApart
<1> QED BY <1>1, HeapInvariant, PTL

(* When realloc copies, the new block has room for all of the old.         *)
THEOREM CopyAlwaysFits == HeapSpec => []CopyFits
<1>1. HeapInv => CopyFits
  BY DEF HeapInv
<1> QED BY <1>1, HeapInvariant, PTL
-----------------------------------------------------------------------------
(* The heap as a user of the page allocator.                               *)

(* A failed search grows the heap by one call of liballoc_alloc.           *)
LEMMA GrowthAllocates ==
  ASSUME HeapInv, FirstUse \/ Case1Grow \/ Case5Grow
  PROVE  Allocate
<1>1. call.pc \in Searching /\ NoneEmpty
  BY NoneEmptyWhen DEF FirstUse, Case1Grow, Case5Grow, Searching
<1>2. liballoc_alloc(PagesFor(call.req_size))
  BY DEF FirstUse, Case1Grow, Case5Grow, GrowthFails, allocate_new_page
<1> QED BY <1>1, <1>2, GrowthStep

(* free returns a region, or leaves the page allocator alone. *)
LEMMA FreeReleases ==
  ASSUME HeapInv, NEW h \in Live, FreeBlock(h)
  PROVE  Release \/ UNCHANGED pagingVars
<1>1. CASE LastBlock(h)
  BY <1>1, DropReleases DEF FreeBlock
<1>2. CASE ~LastBlock(h)
  BY <1>2 DEF FreeBlock, KeepMajor
<1> QED BY <1>1, <1>2

LEMMA HeapStepIsPagingStep ==
  ASSUME HeapInv, [HeapNext]_vars
  PROVE  [PagingNext]_pagingVars
<1>1. CASE Boot
  BY <1>1 DEF Boot, PagingNext
<1>2. CASE FirstUse \/ Case1Grow \/ Case5Grow
  BY <1>2, GrowthAllocates DEF PagingNext
<1>3. CASE kfree
  <2>1. /\ LeadsToBlock(call.old) => call.old \in Live
        /\ LeadsToBlock(call.old) => HeaderOf(call.old) = call.old
    BY <1>3, LeadsToOld DEF kfree, LeadsToBlock
  <2> QED BY <1>3, <2>1, FreeReleases DEF kfree, BadPointer, PagingNext
<1>4. CASE CopyAndFree
  BY <1>4, CopyFrees, FreeReleases DEF PagingNext
<1>5. CASE UNCHANGED vars
  BY <1>5 DEF vars
<1>6. CASE krealloc \/ \E c : Begin(c)
  BY <1>6 DEF krealloc, Begin, BadPointer
<1>7. CASE \/ StartSearch \/ Case1Move \/ Case2 \/ Case3
           \/ Case4Enter \/ Case4Fit \/ Case4Next \/ Case5Move
  BY <1>7 DEF StartSearch, Case1Move, Case2, Case3, Case4Enter, Case4Fit, Case4Next,
              Case5Move
<1> QED
  BY <1>1, <1>2, <1>3, <1>4, <1>5, <1>6, <1>7
     DEF HeapNext, CallStep, CallMalloc, CallFree, CallRealloc

(* Every step of the heap is a step the page allocator allows for, so what *)
(* is proved of PagingSpec holds of the heap's pages: malloc asks for what *)
(* Paging assumes, and free returns a region it was given, once.           *)
THEOREM HeapUsesPaging == HeapSpec => UsesPagingAsSpecified
<1>1. HeapInit => PagingInit
  BY DEF HeapInit
<1>2. HeapInv /\ [HeapNext]_vars => [PagingNext]_pagingVars
  BY HeapStepIsPagingStep
<1> QED
  BY <1>1, <1>2, HeapInvariant, PTL
     DEF HeapSpec, HeapSafety, UsesPagingAsSpecified, PagingSpec
-----------------------------------------------------------------------------
(* The heap as an implementation of HeapSpec. *)

(* What the caller of malloc holds of the block with header h. *)
Handed(h) == [ptr |-> Pointer(h), len |-> minors[h].req_size]
Held == {Handed(h) : h \in Live}

HandedApart ==
  \A g, h \in Live : /\ Handed(h).ptr > 0 /\ Handed(h).ptr % ALIGNMENT = 0
                     /\ g # h => Heap!Separate(Handed(g), Handed(h))

(* Two live blocks have no byte in common. *)
LEMMA HandedSeparate == HeapInv => HandedApart
<1> SUFFICES ASSUME HeapInv, NEW g \in Live, NEW h \in Live
             PROVE  /\ Handed(h).ptr > 0 /\ Handed(h).ptr % ALIGNMENT = 0
                    /\ g # h => Heap!Separate(Handed(g), Handed(h))
  BY DEF HandedApart
<1>1. ASSUME NEW x \in Live
      PROVE  /\ x \in Nat /\ Pointer(x) \in Nat /\ minors[x].req_size \in Nat
             /\ EndOfMinor(x) \in Nat
             /\ x < Pointer(x) /\ Pointer(x) + minors[x].req_size <= EndOfMinor(x)
             /\ Pointer(x) % ALIGNMENT = 0
  <2>1. x \in Nat /\ minors[x] \in MinorRecords
    BY BlockFacts
  <2>2. /\ minors[x].info \in 16 .. 31 /\ minors[x].req_size \in Nat /\ minors[x].size \in Nat
    BY <2>1 DEF MinorRecords, ALIGN_INFO, ALIGNMENT
  <2>3. Pointer(x) % ALIGNMENT = 0 /\ Pointer(x) + minors[x].req_size <= EndOfMinor(x)
    BY BlocksAreApart DEF BlocksApart
  <2> QED BY <2>1, <2>2, <2>3 DEF Pointer, EndOfMinor, MINOR
<1>2. ASSUME NEW x \in Live, NEW y \in Live, x < y
      PROVE  Pointer(x) < Pointer(y) /\ Pointer(x) + minors[x].req_size <= Pointer(y)
  <2>1. EndOfMinor(x) <= y
    BY <1>2, BlocksAreApart DEF BlocksApart
  <2> QED BY <1>1, <2>1
<1>3. g # h => g < h \/ h < g
  BY <1>1
<1>4. g # h => Heap!Separate(Handed(g), Handed(h))
  <2> SUFFICES ASSUME g # h
               PROVE  /\ Pointer(g) # Pointer(h)
                      /\ (Pointer(g) .. Pointer(g) + minors[g].req_size - 1)
                           \cap (Pointer(h) .. Pointer(h) + minors[h].req_size - 1) = {}
    BY DEF Heap!Separate, Heap!Bytes, Handed
  <2> QED BY <1>1, <1>2, <1>3
<1>5. Handed(h).ptr > 0 /\ Handed(h).ptr % ALIGNMENT = 0
  BY <1>1 DEF Handed
<1> QED BY <1>4, <1>5

(* What a call that has not ended was asked: a header that is no block's   *)
(* any more came with a pointer no block has.                              *)
PointersInv ==
  /\ \A g \in Live, h \in DOMAIN minors \ Live : Pointer(g) # Pointer(h)
  /\ call.pc \notin Searching \cup {"realloc"} => call.req_size = 0

LEMMA SamePointers ==
  ASSUME PointersInv, minors' = minors,
         call'.pc \notin Searching \cup {"realloc"} => call'.req_size = 0
  PROVE  PointersInv'
  BY DEF PointersInv, Live, Pointer

(* A block is placed over every dead header whose pointer it takes. *)
LEMMA PlacePointers ==
  ASSUME HeapInv, PointersInv, call.pc \in Searching,
         NEW mj, NEW m, NEW a, NEW p, NEW n, Places(mj, m, a, p, n)
  PROVE  PointersInv'
<1>1. /\ a \notin Live /\ Live' = Live \cup {a}
      /\ \A h \in Live : minors'[h].info = minors[h].info
      /\ minors'[a].info = AlignInfo(a + MINOR)
  BY PlaceFields DEF Places, HeapInv
<1>2. /\ call.req_size \in Nat /\ a \in Nat
      /\ AlignInfo(a + MINOR) \in ALIGN_INFO .. ALIGN_INFO + ALIGNMENT - 1
  BY AlignBounds DEF HeapInv, HeapTypes, Calls, Places, MINOR
<1>3. PICK kept : /\ kept = {h \in DOMAIN minors : h \in Live \/ ~Overwritten(h, a, call.req_size)} \ {a}
                  /\ DOMAIN minors' = kept \cup {a}
                  /\ \A h \in kept \ Live : minors'[h].info = minors[h].info
  <2>1. Place(mj, m, a, p, n, a)
    BY DEF Places
  <2> DEFINE req == call.req_size
             kept == {h \in DOMAIN minors : h \in Live \/ ~Overwritten(h, a, req)} \ {a}
             new == [prev |-> p, next |-> n, block |-> m, magic |-> "MAGIC",
                     size |-> SizeOf(req), req_size |-> req, info |-> AlignInfo(a + MINOR)]
  <2>2. minors' = [h \in kept \cup {a} |->
                     CASE h = a -> new
                       [] h = p -> [minors[h] EXCEPT !.next = a]
                       [] h = n -> [minors[h] EXCEPT !.prev = a]
                       [] OTHER -> minors[h]]
    BY <2>1 DEF Place
  <2>3. ASSUME NEW h \in kept PROVE minors'[h].info = minors[h].info
    <3>1. h # a /\ h \in kept \cup {a} /\ minors[h] \in MinorRecords
      BY <2>2, MinorFacts
    <3>2. minors'[h] = CASE h = p -> [minors[h] EXCEPT !.next = a]
                         [] h = n -> [minors[h] EXCEPT !.prev = a]
                         [] OTHER -> minors[h]
      BY <2>2, <3>1
    <3> QED BY <3>1, <3>2 DEF MinorRecords
  <2>4. DOMAIN minors' = kept \cup {a}
    BY <2>2
  <2> HIDE DEF new
  <2> QED BY <2>3, <2>4
<1>4. ASSUME NEW g \in Live', NEW h \in DOMAIN minors' \ Live'
      PROVE  g + MINOR + minors'[g].info # h + MINOR + minors'[h].info
  <2>1. /\ h \in DOMAIN minors \ Live /\ minors'[h].info = minors[h].info
        /\ ~Overwritten(h, a, call.req_size)
    BY <1>1, <1>3
  <2>2. CASE g \in Live
    BY <1>1, <2>1, <2>2 DEF PointersInv, Pointer
  <2>3. CASE g = a
    <3>1. h \in Nat /\ minors[h].info \in ALIGN_INFO .. ALIGN_INFO + ALIGNMENT - 1
      BY <2>1, MinorFacts DEF MinorRecords
    <3>2. ~(h < a + Need(call.req_size) /\ a < h + MINOR + minors[h].info)
      BY <2>1 DEF Overwritten
    <3> QED BY <1>1, <1>2, <2>1, <2>3, <3>1, <3>2
            DEF Need, SizeOf, MINOR, ALIGNMENT, ALIGN_INFO
  <2> QED BY <1>1, <2>2, <2>3
<1>5. call'.pc \notin Searching \cup {"realloc"} => call'.req_size = 0
  BY DEF Places, Place, Return, Idle
<1> QED BY <1>4, <1>5 DEF PointersInv, Pointer

(* A block that is freed leaves a header whose pointer no other block has. *)
LEMMA FreePointers ==
  ASSUME HeapInv, PointersInv, NEW h \in Live, FreeBlock(h), call' = Idle
  PROVE  PointersInv'
<1>1. call'.req_size = 0
  BY DEF Idle
<1>2. \A g \in Live \ {h} : Pointer(g) # Pointer(h)
  BY HandedSeparate DEF HandedApart, Heap!Separate, Handed
<1>3. CASE LastBlock(h)
  <2>1. DropMajor(h)
    BY <1>3 DEF FreeBlock
  <2>2. minors' = [x \in {y \in DOMAIN minors : minors[y].block # minors[h].block} |-> minors[x]]
    BY <2>1 DEF DropMajor
  <2> QED BY <1>1, <2>2 DEF PointersInv, Live, Pointer
<1>4. CASE ~LastBlock(h)
  <2>1. KeepMajor(h)
    BY <1>4 DEF FreeBlock
  <2>2. minors' = Unlinked(h)
    BY <2>1 DEF KeepMajor
  <2>3. DOMAIN minors' = Live /\ \A x \in Live : minors'[x].info = minors[x].info
    <3>1. DOMAIN minors' = Live
      BY <2>2 DEF Unlinked
    <3>2. ASSUME NEW x \in Live PROVE minors'[x].info = minors[x].info
      BY <2>2, BlockFacts DEF Unlinked, MinorRecords
    <3> QED BY <3>1, <3>2
  <2>4. Live' = Live \ {h}
    BY <1>4, <2>1, KeepFields
  <2> QED BY <1>1, <1>2, <2>3, <2>4 DEF PointersInv, Pointer
<1> QED BY <1>3, <1>4

LEMMA PointersStep ==
  ASSUME HeapInv, PointersInv, [HeapNext]_vars
  PROVE  PointersInv'
<1>1. CASE UNCHANGED vars \/ Boot
  BY <1>1, SamePointers DEF vars, heapVars, Boot, PointersInv
<1>2. CASE \/ \E req : CallMalloc(req)
           \/ \E h : CallFree(h) \/ \E req : CallRealloc(h, req)
  BY <1>2, SamePointers
     DEF CallMalloc, CallFree, CallRealloc, Begin, Idle, Searching
<1>3. ASSUME GrowthFails PROVE PointersInv'
  <2>1. minors' = minors
    BY <1>3 DEF GrowthFails
  <2>2. \/ call' = Idle
        \/ call' = [Idle EXCEPT !.pc = "copy", !.old = call.old, !.new = NULL]
        \/ call' = [Idle EXCEPT !.pc = "halted"]
    BY <1>3 DEF GrowthFails, Return, Hung
  <2>3. /\ Idle.req_size = 0 /\ [Idle EXCEPT !.pc = "halted"].req_size = 0
        /\ [Idle EXCEPT !.pc = "copy", !.old = call.old, !.new = NULL].req_size = 0
    BY DEF Idle
  <2> QED BY <2>1, <2>2, <2>3, SamePointers
<1>4. ASSUME minors' = minors, call'.pc \in Searching PROVE PointersInv'
  BY <1>4, SamePointers
<1>5. call \in Calls
  BY DEF HeapInv, HeapTypes
<1>6. CASE FirstUse \/ StartSearch \/ Case1Move \/ Case4Enter \/ Case4Next \/ Case5Move \/ Case5Grow
  <2>1. CASE GrowthFails
    BY <1>3, <2>1
  <2>2. CASE ~GrowthFails
    <3>1. minors' = minors
      BY <1>6, <2>2 DEF FirstUse, StartSearch, Case1Move, Case4Enter, Case4Next, Case5Move,
                        Case5Grow
    <3>2. call'.pc \in Searching
      BY <1>5, <1>6, <2>2
         DEF FirstUse, StartSearch, Case1Move, Case4Enter, Case4Next, Case5Move, Case5Grow,
             Restarted, Calls, Searching
    <3> QED BY <1>4, <3>1, <3>2
  <2> QED BY <2>1, <2>2
<1>7. CASE Case1Grow
  <2>1. call.pc \in Searching
    BY <1>7 DEF Case1Grow, Searching
  <2> QED BY <1>3, <1>7, <2>1, Case1GrowPlaces, PlacePointers
<1>8. CASE Case2 \/ Case3 \/ Case4Fit
  <2>1. call.pc \in Searching
    BY <1>8 DEF Case2, Case3, Case4Fit, InUse, Searching
  <2> QED BY <1>8, <2>1, Case2Places, Case3Places, Case4FitPlaces, PlacePointers
<1>9. ASSUME BadPointer(call.old) PROVE PointersInv'
  BY <1>9, SamePointers DEF BadPointer, Idle, Hung
<1>10. CASE kfree
  <2>1. /\ LeadsToBlock(call.old) => call.old \in Live
        /\ LeadsToBlock(call.old) => HeaderOf(call.old) = call.old
    BY <1>10, LeadsToOld DEF kfree, LeadsToBlock
  <2> QED BY <1>9, <1>10, <2>1, FreePointers DEF kfree
<1>11. CASE CopyAndFree
  <2>1. [Idle EXCEPT !.pc = "stray"].req_size = 0
    BY DEF Idle
  <2> QED BY <1>11, <2>1, CopyFrees, FreePointers, SamePointers
<1>12. CASE krealloc
  <2>1. CASE LeadsToBlock(call.old) /\ ShrinksInPlace(HeaderOf(call.old), call.req_size)
    <3>1. PICK g, req : /\ g \in DOMAIN minors /\ call' = Idle
                        /\ minors' = [minors EXCEPT ![g].req_size = req]
      BY <1>12, <2>1 DEF krealloc, BadPointer, LeadsToBlock, Live
    <3>2. /\ DOMAIN minors' = DOMAIN minors
          /\ \A x \in DOMAIN minors :
               minors'[x].info = minors[x].info /\ minors'[x].magic = minors[x].magic
      <4>1. /\ DOMAIN minors' = DOMAIN minors
            /\ \A x \in DOMAIN minors :
                 minors'[x] = IF x = g THEN [minors[x] EXCEPT !.req_size = req] ELSE minors[x]
        BY <3>1 DEF HeapInv, HeapTypes
      <4> QED BY <4>1, MinorFacts DEF MinorRecords
    <3>3. Live' = Live
      BY <3>2 DEF Live
    <3>4. call'.req_size = 0
      BY <3>1 DEF Idle
    <3> QED BY <3>2, <3>3, <3>4 DEF PointersInv, Pointer, Live
  <2>2. CASE LeadsToBlock(call.old) /\ ~ShrinksInPlace(HeaderOf(call.old), call.req_size)
    <3>1. minors' = minors /\ call' = [call EXCEPT !.pc = "start"]
      BY <1>12, <2>2 DEF krealloc, BadPointer
    <3> QED BY <1>4, <1>5, <3>1 DEF Calls, Searching
  <2> QED BY <1>9, <1>12, <2>1, <2>2 DEF krealloc
<1> QED
  BY <1>1, <1>2, <1>6, <1>7, <1>8, <1>10, <1>11, <1>12 DEF HeapNext, CallStep

(* However callers use it, no pointer that is to be refused is a block's.  *)
THEOREM PointersInvariant == HeapSpec => []PointersInv
<1>1. HeapInit => PointersInv
  BY DEF HeapInit, PointersInv, Idle, Live
<1> QED
  BY <1>1, PointersStep, HeapInvariant, PTL DEF HeapSpec, HeapSafety

(* The call in progress, for each place it may stand at. *)
Asked(h) == IF h = NULL THEN 0 ELSE Pointer(h)

RequestIs ==
  /\ call.pc = "idle" => Request = Heap!None
  /\ call.pc \in {"halted", "stray"} => Request = [Heap!None EXCEPT !.op = "over"]
  /\ call.pc \in {"free", "copy"} => Request = Heap!FreeOf(Asked(call.old))
  /\ call.pc = "realloc" =>
       Request = [op |-> "realloc", ptr |-> Asked(call.old), size |-> call.req_size]
  /\ call.pc \in Searching =>
       Request = [op |-> IF call.old = NULL THEN "malloc" ELSE "move",
                  ptr |-> Asked(call.old), size |-> call.req_size]

LEMMA RequestHolds == HeapInv /\ PointersInv => RequestIs
<1> SUFFICES ASSUME HeapInv, PointersInv PROVE RequestIs
  OBVIOUS
<1>1. /\ call.pc \notin Searching \cup {"realloc"} => call.req_size = 0
      /\ call.pc \in {"idle", "halted", "stray"} => call.old = NULL
      /\ call.pc = "copy" => call.old # NULL
  BY DEF HeapInv, CallInv, PointersInv
<1>2. PICK op :
        /\ Request = [op |-> op, ptr |-> Asked(call.old), size |-> call.req_size]
        /\ call.pc = "idle" => op = "none"
        /\ call.pc \in {"free", "copy"} => op = "free"
        /\ call.pc = "realloc" => op = "realloc"
        /\ call.pc \in {"halted", "stray"} => op = "over"
        /\ call.pc \in Searching => op = IF call.old = NULL THEN "malloc" ELSE "move"
  BY DEF Request, Asked, Searching
<1>3. Searching = {"start", "major", "minor", "full"}
  BY DEF Searching
<1> QED BY <1>1, <1>2, <1>3 DEF RequestIs, Asked, Heap!None, Heap!FreeOf

(* The state of HeapSpec that stands for the heap's. *)
LEMMA SameHeld == ASSUME minors' = minors
                  PROVE  Held' = Held /\ \A h : Asked(h)' = Asked(h)
  BY DEF Held, Handed, Live, Pointer, Asked

(* A call begins. *)
LEMMA BeginCalls ==
  ASSUME RequestIs, RequestIs', call.pc = "idle", minors' = minors,
         call'.pc \in {"start", "free", "realloc"},
         call'.pc = "start" => call'.old = NULL,
         call'.pc # "free" => call'.req_size \in Requests
  PROVE  Heap!Call
<1>1. Request = Heap!None /\ Held' = Held
  BY SameHeld DEF RequestIs
<1>2. PICK p, s, r :
        /\ r = Request'
        /\ \/ r = [op |-> "malloc", ptr |-> 0, size |-> s] /\ s \in Requests
           \/ r = [op |-> "realloc", ptr |-> p, size |-> s] /\ s \in Requests
           \/ r = [op |-> "free", ptr |-> p, size |-> 0]
  BY DEF RequestIs, Searching, Asked, Heap!FreeOf
<1>3. \/ r = [Heap!None EXCEPT !.op = "malloc", !.size = r.size]
      \/ r = Heap!FreeOf(r.ptr)
      \/ r = [Heap!None EXCEPT !.op = "realloc", !.ptr = r.ptr, !.size = r.size]
  <2>2. CASE r = [op |-> "malloc", ptr |-> 0, size |-> s]
    <3>1. r.size = s
      BY <2>2
    <3>2. PICK d : d = [Heap!None EXCEPT !.op = "malloc", !.size = s]
      OBVIOUS
    <3>3. r = d
      BY <2>2, <3>2 DEF Heap!None
    <3> QED BY <3>1, <3>2, <3>3
  <2>3. CASE r = [op |-> "realloc", ptr |-> p, size |-> s]
    <3>1. r.ptr = p /\ r.size = s
      BY <2>3
    <3>2. PICK d : d = [Heap!None EXCEPT !.op = "realloc", !.ptr = p, !.size = s]
      OBVIOUS
    <3>3. r = d
      BY <2>3, <3>2 DEF Heap!None
    <3> QED BY <3>1, <3>2, <3>3
  <2>4. CASE r = [op |-> "free", ptr |-> p, size |-> 0]
    BY <2>4 DEF Heap!FreeOf
  <2> QED BY <1>2, <2>2, <2>3, <2>4
<1>4. r.op # "free" => r.size \in Requests
  BY <1>2
<1> QED BY <1>1, <1>2, <1>3, <1>4 DEF Heap!Call, Held, Handed

(* malloc looks on: nothing its caller can tell. *)
LEMMA SearchUnseen ==
  ASSUME RequestIs, RequestIs', call.pc \in Searching, call'.pc \in Searching,
         minors' = minors, call'.old = call.old, call'.req_size = call.req_size
  PROVE  Held' = Held /\ Request' = Request
<1>1. Held' = Held /\ Asked(call.old)' = Asked(call.old)
  BY DEF Asked, Pointer, Held, Handed, Live
<1> QED BY <1>1 DEF RequestIs

(* malloc is back in its caller. *)
LEMMA ReturnAnswers ==
  ASSUME HeapInv, RequestIs, RequestIs', call.pc \in Searching, NEW a, Return(a),
         NEW h, h = call.old, Asked(h)' = Asked(h)
  PROVE  Request.op \in {"malloc", "move"} /\ Heap!Return
<1>1. call.pc \notin {"idle", "free", "copy", "realloc", "halted", "stray"}
  BY DEF Searching
<1>2. PICK op, p : /\ Request = [op |-> op, ptr |-> p, size |-> call.req_size]
                   /\ op = (IF call.old = NULL THEN "malloc" ELSE "move")
                   /\ p = Asked(h)
  BY DEF RequestIs
<1>3. CASE call.old = NULL
  <2>1. call'.pc = "idle"
    BY <1>3 DEF Return, Idle
  <2> QED BY <1>2, <1>3, <2>1 DEF RequestIs, Heap!Return
<1>4. CASE call.old # NULL
  <2>1. call'.pc = "copy" /\ call'.old = h
    BY <1>4 DEF Return, Idle
  <2>2. Request' = Heap!FreeOf(p)
    BY <1>2, <2>1 DEF RequestIs, Asked, Pointer
  <2> QED BY <1>2, <1>4, <2>2 DEF Heap!Return
<1> QED BY <1>3, <1>4

(* The kernel stops in the middle of a call. *)
LEMMA EndStops ==
  ASSUME RequestIs, RequestIs', minors' = minors,
         call.pc \in Searching \cup {"free", "realloc", "copy"},
         call'.pc \in {"halted", "stray"}
  PROVE  Heap!Stop
<1>1. Held' = Held /\ Request' = [Heap!None EXCEPT !.op = "over"]
  BY SameHeld DEF RequestIs
<1>2. Request.op # "none"
  BY DEF RequestIs, Searching, Heap!FreeOf
<1>3. Request # Heap!None
  BY <1>2 DEF Heap!None
<1> QED BY <1>1, <1>3 DEF Heap!Stop, Held, Handed

LEMMA GrowthAnswers ==
  ASSUME HeapInv, RequestIs, RequestIs', call.pc \in Searching, GrowthFails
  PROVE  Heap!NoMemory \/ Heap!Stop
<1>1. minors' = minors /\ (Return(NULL) \/ call' = Hung)
  BY DEF GrowthFails
<1>2. PICK h : h = call.old /\ Asked(h)' = Asked(h) /\ Held' = Held
  BY <1>1, SameHeld
<1>3. CASE Return(NULL)
  BY <1>2, <1>3, ReturnAnswers DEF Heap!NoMemory, Held, Handed
<1>4. CASE call' = Hung
  <2>1. call'.pc = "halted"
    BY <1>4 DEF Hung, Idle
  <2> QED BY <1>1, <2>1, EndStops
<1> QED BY <1>1, <1>3, <1>4

(* A block that malloc places is one more block for the caller. *)
LEMMA PlaceHands ==
  ASSUME HeapInv, HeapInv', RequestIs, RequestIs', call.pc \in Searching,
         NEW mj, NEW m, NEW a, NEW p, NEW n, Places(mj, m, a, p, n)
  PROVE  Heap!Malloc
<1>1. /\ a \notin Live /\ Live' = Live \cup {a}
      /\ \A h \in Live : /\ minors'[h].info = minors[h].info
                         /\ minors'[h].req_size = minors[h].req_size
      /\ minors'[a].req_size = call.req_size
  BY PlaceFields DEF Places, HeapInv
<1>2. \A h \in Live : Handed(h)' = Handed(h)
  BY <1>1 DEF Handed, Pointer
<1>3. PICK b : b = Handed(a)'
  OBVIOUS
<1>4. HandedApart'
  BY HandedSeparate, PTL
<1>5. Held' = Held \cup {b}
  BY <1>1, <1>2, <1>3 DEF Held
<1>6. b.ptr > 0 /\ b.ptr % ALIGNMENT = 0
  BY <1>1, <1>3, <1>4 DEF HandedApart
<1>7. \A c \in Held : Heap!Separate(b, c)
  BY <1>1, <1>2, <1>3, <1>4 DEF Held, HandedApart, Heap!Separate, Heap!Bytes
<1>8. b \in Held' \ Held
  BY <1>5, <1>7 DEF Heap!Separate
<1>9. Return(a)
  BY DEF Places, Place
<1>10. PICK h : h = call.old
  OBVIOUS
<1>11. Request.op \in {"malloc", "move"} /\ Heap!Return
  <2>1. h # NULL => h \in Live
    BY <1>10 DEF HeapInv, CallInv
  <2>2. Asked(h)' = Asked(h)
    BY <1>1, <2>1 DEF Asked, Pointer
  <2> QED BY <1>9, <1>10, <2>2, ReturnAnswers
<1>12. b.len = Request.size
  BY <1>1, <1>3 DEF Handed, RequestIs
<1> QED
  BY <1>5, <1>6, <1>7, <1>8, <1>11, <1>12 DEF Heap!Malloc, Held, Handed

(* A block that is freed is the caller's no longer. *)
LEMMA FreeTakes ==
  ASSUME HeapInv, RequestIs, RequestIs', call.pc \in {"free", "copy"},
         call.old \in Live, FreeBlock(call.old), call' = Idle
  PROVE  Heap!Free
<1>1. PICK h \in Live : h = call.old
  OBVIOUS
<1>2. /\ Live' = Live \ {h}
      /\ \A x \in Live \ {h} : /\ minors'[x].info = minors[x].info
                               /\ minors'[x].req_size = minors[x].req_size
  <2>1. CASE LastBlock(h)
    <3>1. DropMajor(h)
      BY <1>1, <2>1 DEF FreeBlock
    <3> QED BY <2>1, <3>1, DropFields
  <2>2. CASE ~LastBlock(h)
    <3>1. KeepMajor(h)
      BY <1>1, <2>2 DEF FreeBlock
    <3> QED BY <2>2, <3>1, KeepFields
  <2> QED BY <2>1, <2>2
<1>3. \A x \in Live \ {h} : Handed(x)' = Handed(x)
  BY <1>2 DEF Handed, Pointer
<1>4. \A x \in Live \ {h} : Handed(x).ptr # Handed(h).ptr
  BY HandedSeparate DEF HandedApart, Heap!Separate
<1>5. Held' = {b \in Held : b.ptr # Handed(h).ptr}
  BY <1>2, <1>3, <1>4 DEF Held
<1>6. Request = Heap!FreeOf(Handed(h).ptr)
  <2>1. h # NULL
    BY BlockFacts DEF NULL
  <2> QED BY <1>1, <2>1 DEF RequestIs, Asked, Handed
<1>7. Request' = Heap!None
  BY DEF RequestIs, Idle
<1> QED
  BY <1>5, <1>6, <1>7 DEF Heap!Free, Heap!FreeOf, Heap!None, Held, Handed

(* A pointer to no block in use is no block's pointer. *)
LEMMA NobodyHolds ==
  ASSUME HeapInv, PointersInv, RequestIs, call.pc \in {"free", "realloc"},
         ~LeadsToBlock(call.old)
  PROVE  \A b \in Held : b.ptr # Request.ptr
<1>1. Request.ptr = Asked(call.old)
  BY DEF RequestIs, Heap!FreeOf
<1>2. call.old \notin Live
  BY LeadsToOld
<1>3. ASSUME NEW g \in Live PROVE Handed(g).ptr # Request.ptr
  <2>1. CASE call.old = NULL
    BY <1>1, <2>1, HandedSeparate DEF HandedApart, Asked
  <2>2. CASE call.old # NULL
    <3>1. call.old \in DOMAIN minors \ Live
      BY <1>2, <2>2 DEF HeapInv, CallInv, Foreign
    <3> QED BY <1>1, <2>2, <3>1 DEF PointersInv, Asked, Handed
  <2> QED BY <2>1, <2>2
<1> QED BY <1>3 DEF Held

LEMMA BadPointerAnswers ==
  ASSUME HeapInv, PointersInv, RequestIs, RequestIs', call.pc \in {"free", "realloc"},
         BadPointer(call.old)
  PROVE  Heap!Free \/ Heap!Refuse \/ Heap!Stop
<1>1. minors' = minors /\ ~LeadsToBlock(call.old) /\ (call' = Idle \/ call' = Hung)
  BY DEF BadPointer
<1>2. Held' = Held /\ \A b \in Held : b.ptr # Request.ptr
  BY <1>1, SameHeld, NobodyHolds
<1>3. CASE call' = Hung
  <2>1. call'.pc = "halted"
    BY <1>3 DEF Hung, Idle
  <2> QED BY <1>1, <2>1, EndStops
<1>4. CASE call' = Idle
  <2>1. Request' = Heap!None
    BY <1>4 DEF RequestIs, Idle
  <2>2. CASE call.pc = "free"
    <3>1. Request.op = "free"
      BY <2>2 DEF RequestIs, Heap!FreeOf
    <3>2. Held' = {b \in Held : b.ptr # Request.ptr}
      BY <1>2
    <3> QED BY <2>1, <3>1, <3>2 DEF Heap!Free, Held, Handed
  <2>3. CASE call.pc = "realloc"
    <3>1. Request.op = "realloc"
      BY <2>3 DEF RequestIs
    <3> QED BY <1>2, <2>1, <3>1 DEF Heap!Refuse, Held, Handed
  <2> QED BY <2>2, <2>3
<1> QED BY <1>1, <1>3, <1>4

(* A block shrinks where it is. *)
LEMMA ShrinkShortens ==
  ASSUME HeapInv, RequestIs, RequestIs', call.pc = "realloc", call.old \in Live,
         ShrinksInPlace(call.old, call.req_size), call' = Idle,
         minors' = [minors EXCEPT ![call.old].req_size = call.req_size]
  PROVE  Heap!Shrink
<1>1. PICK g, req : g = call.old /\ req = call.req_size
  OBVIOUS
<1>2. /\ g \in DOMAIN minors /\ minors[g] \in MinorRecords /\ g # NULL
      /\ req \in Nat /\ req <= minors[g].req_size
  BY <1>1, BlockFacts, LiballocAssumption
     DEF ShrinksInPlace, MinorRecords, HeapInv, CallInv, NULL
<1>3. /\ DOMAIN minors' = DOMAIN minors
      /\ \A x \in DOMAIN minors \ {g} : minors'[x] = minors[x]
      /\ minors'[g] = [minors[g] EXCEPT !.req_size = req]
  BY <1>1, <1>2
<1>4. /\ minors'[g].info = minors[g].info /\ minors'[g].req_size = req
      /\ minors'[g].magic = minors[g].magic
  BY <1>2, <1>3 DEF MinorRecords
<1>5. Live' = Live
  BY <1>3, <1>4 DEF Live
<1>6. \A x \in Live \ {g} : Handed(x)' = Handed(x)
  BY <1>3 DEF Handed, Pointer, Live
<1>7. Handed(g)' = [Handed(g) EXCEPT !.len = req]
  BY <1>4 DEF Handed, Pointer
<1>8. \A x \in Live \ {g} : Handed(x) # Handed(g)
  BY <1>1, HandedSeparate DEF HandedApart, Heap!Separate
<1>9. PICK b : b = Handed(g)
  OBVIOUS
<1>10. /\ Held' = (Held \ {b}) \cup {[b EXCEPT !.len = req]}
       /\ b \in Held /\ req <= b.len /\ b.ptr = Asked(g)
  <2>1. Held' = (Held \ {b}) \cup {[b EXCEPT !.len = req]}
    BY <1>1, <1>5, <1>6, <1>7, <1>8, <1>9 DEF Held
  <2>2. b \in Held /\ req <= b.len
    BY <1>1, <1>2, <1>9 DEF Held, Handed
  <2>3. b.ptr = Asked(g)
    BY <1>2, <1>9 DEF Handed, Asked
  <2> QED BY <2>1, <2>2, <2>3
<1>11. Request = [op |-> "realloc", ptr |-> Asked(g), size |-> req] /\ Request' = Heap!None
  BY <1>1 DEF RequestIs, Idle
<1> QED BY <1>10, <1>11 DEF Heap!Shrink, Held, Handed

(* A block moves: realloc turns to malloc. *)
LEMMA ReallocMoves ==
  ASSUME HeapInv, RequestIs, RequestIs', call.pc = "realloc", call.old \in Live,
         ~ShrinksInPlace(call.old, call.req_size), call' = [call EXCEPT !.pc = "start"],
         minors' = minors
  PROVE  Heap!Move
<1>1. PICK g, req : g = call.old /\ req = call.req_size
  OBVIOUS
<1>2. g \in Live /\ g # NULL /\ minors[g].req_size < req
  BY <1>1, BlockFacts, LiballocAssumption
     DEF ShrinksInPlace, MinorRecords, HeapInv, CallInv, NULL
<1>3. /\ call'.pc = "start" /\ call'.old = g /\ call'.req_size = req
  BY <1>1 DEF HeapInv, HeapTypes, Calls
<1>4. Held' = Held /\ Asked(g)' = Asked(g)
  BY SameHeld DEF Asked, Pointer
<1>5. /\ Request = [op |-> "realloc", ptr |-> Asked(g), size |-> req]
      /\ Request' = [op |-> "move", ptr |-> Asked(g), size |-> req]
  <2>1. Request = [op |-> "realloc", ptr |-> Asked(g), size |-> req]
    BY <1>1 DEF RequestIs
  <2>2. Request' = [op |-> "move", ptr |-> Asked(g), size |-> req]
    BY <1>2, <1>3, <1>4 DEF RequestIs, Searching, Asked
  <2> QED BY <2>1, <2>2
<1>6. Handed(g) \in Held /\ Handed(g).ptr = Asked(g) /\ Handed(g).len < req
  BY <1>2 DEF Held, Handed, Asked
<1>7. /\ Request.op = "realloc" /\ Request' = [Request EXCEPT !.op = "move"]
      /\ \E b \in Held : b.ptr = Request.ptr /\ b.len < Request.size
  BY <1>5, <1>6
<1> QED BY <1>4, <1>7 DEF Heap!Move, Held, Handed

LEMMA CallAnswers ==
  ASSUME HeapInv, PointersInv, RequestIs, RequestIs', kfree \/ krealloc \/ CopyAndFree
  PROVE  Heap!Next
<1>1. call.pc \in {"free", "realloc", "copy"}
  BY DEF kfree, krealloc, CopyAndFree
<1>2. /\ LeadsToBlock(call.old) <=> call.old \in Live
      /\ call.old \in Live => HeaderOf(call.old) = call.old
  BY <1>1, LeadsToOld DEF LeadsToBlock
<1>3. CASE kfree
  BY <1>2, <1>3, FreeTakes, BadPointerAnswers DEF kfree, Heap!Next
<1>4. CASE krealloc
  <2>1. call.pc = "realloc"
    BY <1>4 DEF krealloc
  <2>2. \/ /\ call.old \in Live /\ ShrinksInPlace(call.old, call.req_size) /\ call' = Idle
           /\ minors' = [minors EXCEPT ![call.old].req_size = call.req_size]
        \/ /\ call.old \in Live /\ ~ShrinksInPlace(call.old, call.req_size)
           /\ call' = [call EXCEPT !.pc = "start"] /\ minors' = minors
        \/ BadPointer(call.old)
    BY <1>2, <1>4 DEF krealloc
  <2> QED BY <2>1, <2>2, ShrinkShortens, ReallocMoves, BadPointerAnswers DEF Heap!Next
<1>5. CASE CopyAndFree
  <2>1. call.pc = "copy" /\ call.old \in Live
    BY <1>5, CopyFrees
  <2>2. CASE FreeBlock(call.old) /\ call' = Idle
    BY <2>1, <2>2, FreeTakes DEF Heap!Next
  <2>3. CASE call' = [Idle EXCEPT !.pc = "stray"] /\ minors' = minors
    <3>1. call'.pc = "stray"
      BY <2>3 DEF Idle
    <3> QED BY <2>1, <2>3, <3>1, EndStops DEF Heap!Next
  <2> QED BY <1>5, <2>2, <2>3, CopyFrees
<1> QED BY <1>3, <1>4, <1>5

LEMMA SearchAnswers ==
  ASSUME HeapInv, HeapInv', RequestIs, RequestIs',
         \/ FirstUse \/ StartSearch \/ Case1Move \/ Case1Grow \/ Case2 \/ Case3
         \/ Case4Enter \/ Case4Fit \/ Case4Next \/ Case5Move \/ Case5Grow
  PROVE  Heap!Next \/ (Held' = Held /\ Request' = Request)
<1>1. call.pc \in Searching
  BY DEF FirstUse, StartSearch, Case1Move, Case1Grow, Case2, Case3, InUse, Case4Enter,
         Case4Fit, Case4Next, Case5Move, Case5Grow, Searching
<1>2. CASE GrowthFails
  BY <1>1, <1>2, GrowthAnswers DEF Heap!Next
<1>3. CASE Case1Grow /\ ~GrowthFails
  BY <1>1, <1>3, Case1GrowPlaces, PlaceHands DEF Heap!Next
<1>4. CASE Case2 \/ Case3 \/ Case4Fit
  BY <1>1, <1>4, Case2Places, Case3Places, Case4FitPlaces, PlaceHands DEF Heap!Next
<1>5. CASE /\ ~GrowthFails
           /\ \/ FirstUse \/ StartSearch \/ Case1Move \/ Case4Enter \/ Case4Next
              \/ Case5Move \/ Case5Grow
  <2>1. minors' = minors
    BY <1>5 DEF FirstUse, StartSearch, Case1Move, Case4Enter, Case4Next, Case5Move, Case5Grow
  <2>2. call \in Calls
    BY DEF HeapInv, HeapTypes
  <2>3. call'.pc \in Searching /\ call'.old = call.old /\ call'.req_size = call.req_size
    <3>1. CASE FirstUse \/ StartSearch
      BY <1>1, <1>5, <2>2, <3>1 DEF FirstUse, StartSearch, Calls, Searching
    <3>2. CASE Case1Move \/ Case5Move
      BY <1>1, <2>2, <3>2 DEF Case1Move, Case5Move, Restarted, Calls, Searching
    <3>3. CASE Case4Enter \/ Case4Next
      BY <1>1, <2>2, <3>3 DEF Case4Enter, Case4Next, Calls, Searching
    <3>4. CASE Case5Grow
      BY <1>1, <1>5, <2>2, <3>4 DEF Case5Grow, Calls, Searching
    <3> QED BY <1>5, <3>1, <3>2, <3>3, <3>4
  <2> QED BY <1>1, <2>1, <2>3, SearchUnseen
<1> QED BY <1>2, <1>3, <1>4, <1>5

LEMMA HeapStepImplements ==
  ASSUME HeapInv, HeapInv', PointersInv, PointersInv', [HeapNext]_vars
  PROVE  Heap!Next \/ (Held' = Held /\ Request' = Request)
<1>1. RequestIs /\ RequestIs'
  BY RequestHolds, PTL
<1>2. CASE Boot \/ UNCHANGED vars
  <2>1. minors' = minors /\ call' = call
    BY <1>2 DEF Boot, vars, heapVars
  <2>2. Request' = Request
    BY <2>1 DEF Request, Pointer
  <2> QED BY <2>1, <2>2, SameHeld
<1>3. CASE \/ \E req \in Requests : CallMalloc(req)
           \/ \E h \in DOMAIN minors \cup {Foreign} :
                CallFree(h) \/ \E req \in Requests \ {0} : CallRealloc(h, req)
  <2>1. PICK c : /\ Begin(c) /\ c.pc \in {"start", "free", "realloc"}
                 /\ c.pc = "start" => c.old = NULL
                 /\ c.pc # "free" => c.req_size \in Requests
    <3>1. ASSUME NEW req \in Requests PROVE
            LET c == [Idle EXCEPT !.pc = "start", !.req_size = req]
            IN  c.pc = "start" /\ c.old = NULL /\ c.req_size = req
      BY DEF Idle
    <3>2. ASSUME NEW h PROVE [Idle EXCEPT !.pc = "free", !.old = h].pc = "free"
      BY DEF Idle
    <3>3. ASSUME NEW h, NEW req \in Requests PROVE
            LET c == [Idle EXCEPT !.pc = "realloc", !.old = h, !.req_size = req]
            IN  c.pc = "realloc" /\ c.req_size = req
      BY DEF Idle
    <3>4. CASE \E req \in Requests : CallMalloc(req)
      BY <3>1, <3>4 DEF CallMalloc
    <3>5. CASE \E h \in DOMAIN minors \cup {Foreign} : CallFree(h)
      BY <3>2, <3>5 DEF CallFree
    <3>6. CASE \E h \in DOMAIN minors \cup {Foreign}, req \in Requests \ {0} : CallRealloc(h, req)
      <4>1. PICK h \in DOMAIN minors \cup {Foreign}, req \in Requests \ {0} : CallRealloc(h, req)
        BY <3>6
      <4>2. PICK c : c = [Idle EXCEPT !.pc = "realloc", !.old = h, !.req_size = req]
        OBVIOUS
      <4>3. Begin(c)
        BY <4>1, <4>2 DEF CallRealloc
      <4>4. c.pc = "realloc" /\ c.req_size \in Requests
        BY <3>3, <4>1, <4>2
      <4> QED BY <4>3, <4>4
    <3> QED BY <1>3, <3>4, <3>5, <3>6
  <2>2. call.pc = "idle" /\ minors' = minors /\ call' = c
    BY <2>1 DEF Begin
  <2> QED BY <1>1, <2>1, <2>2, BeginCalls DEF Heap!Next
<1>4. CASE kfree \/ krealloc \/ CopyAndFree
  BY <1>1, <1>4, CallAnswers
<1>5. CASE \/ FirstUse \/ StartSearch \/ Case1Move \/ Case1Grow \/ Case2 \/ Case3
           \/ Case4Enter \/ Case4Fit \/ Case4Next \/ Case5Move \/ Case5Grow
  BY <1>1, <1>5, SearchAnswers
<1> QED BY <1>2, <1>3, <1>4, <1>5 DEF HeapNext, CallStep

(* The heap keeps its promises to its callers.  malloc returns memory of   *)
(* the size asked for that no other live block touches, aligned.  free     *)
(* takes away the block whose pointer it was given, and no other; given a  *)
(* pointer to no live block, a stale one among them, it takes away none.   *)
(* realloc shortens the block it was given, or takes it away once malloc   *)
(* has answered, and leaves every other block alone.  No other step        *)
(* changes what any caller holds.                                          *)
THEOREM HeapImplementsHeapSpec == HeapSpec => ImplementsHeapSpec
<1>1. HeapInit => Heap!Init
  BY DEF HeapInit, Heap!Init, Heap!None, Live, Request, Idle
<1>2. HeapInv /\ HeapInv' /\ PointersInv /\ PointersInv' /\ [HeapNext]_vars =>
        [Heap!Next]_(Heap!vars)
  BY HeapStepImplements DEF Heap!vars, Held, Handed
<1> QED
  BY <1>1, <1>2, HeapInvariant, PointersInvariant, PTL
     DEF HeapSpec, HeapSafety, ImplementsHeapSpec, Heap!Spec
-----------------------------------------------------------------------------
(* The counts malloc decides by.                                           *)

(* The blocks, with the majors of the table mj, and its majors.            *)
BlocksCounted(mj) ==
  /\ IsFiniteSet(Live) /\ AddsUp([h \in Live |-> minors[h].size], Live, l_inuse)
  /\ \A m \in DOMAIN mj : AddsUp([h \in MinorsOf(m) |-> MINOR + minors[h].size],
                                 MinorsOf(m), mj[m].usage - MAJOR)
MajorsCounted(mj, total) ==
  /\ IsFiniteSet(DOMAIN mj)
  /\ AddsUp([m \in DOMAIN mj |-> mj[m].size], DOMAIN mj, total)

CountsInv == BlocksCounted(majors) /\ MajorsCounted(majors, l_allocated)

LEMMA CountsInitially == HeapInit => CountsInv
<1> SUFFICES ASSUME HeapInit PROVE CountsInv
  OBVIOUS
<1>1. DOMAIN majors = {} /\ Live = {} /\ l_inuse = 0 /\ l_allocated = 0
  BY DEF HeapInit, Live
<1>2. IsFiniteSet({})
  BY FS_EmptySet
<1>3. AddsUp([h \in {} |-> minors[h].size], {}, 0) /\ AddsUp([m \in {} |-> majors[m].size], {}, 0)
  BY AddsUpEmpty
<1> QED BY <1>1, <1>2, <1>3 DEF CountsInv, BlocksCounted, MajorsCounted

(* The sizes that are added up are numbers.                                *)
LEMMA CountedSizes ==
  ASSUME HeapTypes
  PROVE  /\ [h \in Live |-> minors[h].size] \in [Live -> Nat]
         /\ \A m : /\ [h \in MinorsOf(m) |-> MINOR + minors[h].size] \in [MinorsOf(m) -> Nat]
                   /\ MinorsOf(m) \subseteq Live
         /\ \A h \in Live : minors[h].size \in Nat /\ MINOR + minors[h].size \in Nat
         /\ \A m \in DOMAIN majors : majors[m].size \in Nat /\ majors[m].usage \in Int
<1>1. \A h \in Live : minors[h].size \in Nat /\ MINOR + minors[h].size \in Nat
  <2>1. \A h \in Live : minors[h].size \in Nat
    BY DEF HeapTypes, Live, MinorRecords
  <2> QED BY <2>1 DEF MINOR
<1>2. \A m : MinorsOf(m) \subseteq Live
  BY DEF MinorsOf
<1>3. \A m \in DOMAIN majors : majors[m].size \in Nat /\ majors[m].usage \in Int
  BY DEF HeapTypes, MajorRecords
<1> QED BY <1>1, <1>2, <1>3

(* Hence the counts are what UsageAdds says.                               *)
LEMMA CountsAddUp ==
  ASSUME HeapInv, CountsInv
  PROVE  /\ UsageAdds
         /\ l_inuse \in Nat /\ l_allocated \in Nat
         /\ \A m \in DOMAIN majors : majors[m].usage \in Nat
<1>1. HeapTypes
  BY DEF HeapInv
<1>2. l_inuse \in Nat /\ l_inuse = MapThenSumSet(LAMBDA h : minors[h].size, Live)
  <2>1. IsFiniteSet(Live) /\ AddsUp([h \in Live |-> minors[h].size], Live, l_inuse)
    BY DEF CountsInv, BlocksCounted
  <2>2. l_inuse \in Nat
    BY <1>1, <2>1, CountedSizes, AddsUpIs
  <2>3. /\ \E it : SizesFold(it, minors, Live)
        /\ \A it : SizesFold(it, minors, Live) => it[Live] = l_inuse
    BY <1>1, <2>1, CountedSizes, FoldOfSizes
  <2>4. MapThenSumSet(LAMBDA h : minors[h].size, Live)
          = (CHOOSE it : SizesFold(it, minors, Live))[Live]
    BY DEF MapThenSumSet, MapThenFoldSet, SizesFold
  <2> QED BY <2>2, <2>3, <2>4
<1>3. l_allocated \in Nat /\ l_allocated = MapThenSumSet(LAMBDA m : majors[m].size, DOMAIN majors)
  <2>1. /\ IsFiniteSet(DOMAIN majors)
        /\ AddsUp([m \in DOMAIN majors |-> majors[m].size], DOMAIN majors, l_allocated)
    BY DEF CountsInv, MajorsCounted
  <2>2. [m \in DOMAIN majors |-> majors[m].size] \in [DOMAIN majors -> Nat]
    BY <1>1, CountedSizes
  <2>3. l_allocated \in Nat
    BY <2>1, <2>2, AddsUpIs
  <2>4. /\ \E it : SizesFold(it, majors, DOMAIN majors)
        /\ \A it : SizesFold(it, majors, DOMAIN majors) => it[DOMAIN majors] = l_allocated
    BY <1>1, <2>1, CountedSizes, FoldOfSizes
  <2>5. MapThenSumSet(LAMBDA m : majors[m].size, DOMAIN majors)
          = (CHOOSE it : SizesFold(it, majors, DOMAIN majors))[DOMAIN majors]
    BY DEF MapThenSumSet, MapThenFoldSet, SizesFold
  <2> QED BY <2>3, <2>4, <2>5
<1>4. ASSUME NEW m \in DOMAIN majors
      PROVE  /\ majors[m].usage \in Nat
             /\ majors[m].usage =
                  MAJOR + MapThenSumSet(LAMBDA h : MINOR + minors[h].size, MinorsOf(m))
  <2>1. PICK S : S = MinorsOf(m)
    OBVIOUS
  <2>2. AddsUp([h \in S |-> MINOR + minors[h].size], S, majors[m].usage - MAJOR)
    BY <2>1 DEF CountsInv, BlocksCounted
  <2>3. IsFiniteSet(S)
    <3>1. IsFiniteSet(Live) /\ S \in SUBSET Live
      BY <2>1 DEF CountsInv, BlocksCounted, MinorsOf
    <3> QED BY <3>1, FS_Subset
  <2>4. /\ [h \in S |-> MINOR + minors[h].size] \in [S -> Nat] /\ MINOR \in Nat
        /\ \A h \in S : minors[h].size \in Nat
    BY <1>1, <2>1, CountedSizes DEF MINOR
  <2>5. majors[m].usage - MAJOR \in Nat
    BY <2>2, <2>3, <2>4, AddsUpIs
  <2>6. /\ \E it : RoomsFold(it, MINOR, minors, S)
        /\ \A it : RoomsFold(it, MINOR, minors, S) => it[S] = majors[m].usage - MAJOR
    BY <2>2, <2>3, <2>4, FoldOfRooms
  <2>7. MapThenSumSet(LAMBDA h : MINOR + minors[h].size, S)
          = (CHOOSE it : RoomsFold(it, MINOR, minors, S))[S]
    BY DEF MapThenSumSet, MapThenFoldSet, RoomsFold
  <2>8. majors[m].usage \in Int
    BY <1>1, CountedSizes
  <2>9. MapThenSumSet(LAMBDA h : MINOR + minors[h].size, S) = majors[m].usage - MAJOR
    BY <2>6, <2>7
  <2>10. MapThenSumSet(LAMBDA h : MINOR + minors[h].size, MinorsOf(m))
           = majors[m].usage - MAJOR
    BY <2>1, <2>9
  <2>11. \A u \in Int : u - MAJOR \in Nat => u \in Nat /\ u = MAJOR + (u - MAJOR)
    BY DEF MAJOR
  <2> HIDE DEF MAJOR
  <2> QED BY <2>5, <2>8, <2>10, <2>11
<1> QED BY <1>2, <1>3, <1>4 DEF UsageAdds

(* Nothing that is counted changes. *)
LEMMA SameBlocksCounted ==
  ASSUME NEW mj, BlocksCounted(mj), l_inuse' = l_inuse, Live' = Live,
         \A h \in Live : minors'[h].size = minors[h].size /\ minors'[h].block = minors[h].block
  PROVE  BlocksCounted(mj)'
<1>1. [h \in Live' |-> minors'[h].size] = [h \in Live |-> minors[h].size]
  OBVIOUS
<1>2. ASSUME NEW m PROVE MinorsOf(m)' = MinorsOf(m) /\ MinorsOf(m) \subseteq Live
  BY DEF MinorsOf
<1>3. ASSUME NEW m
      PROVE  [h \in MinorsOf(m)' |-> MINOR + minors'[h].size]
               = [h \in MinorsOf(m) |-> MINOR + minors[h].size]
  BY <1>2
<1> QED BY <1>1, <1>2, <1>3 DEF BlocksCounted

LEMMA SameCounts ==
  ASSUME CountsInv, UNCHANGED <<majors, l_inuse, l_allocated>>, Live' = Live,
         \A h \in Live : minors'[h].size = minors[h].size /\ minors'[h].block = minors[h].block
  PROVE  CountsInv'
<1>1. PICK mj, n : mj = majors /\ n = l_allocated
  OBVIOUS
<1>2. BlocksCounted(mj)' /\ MajorsCounted(mj, n)'
  BY <1>1, SameBlocksCounted DEF CountsInv, MajorsCounted
<1> QED BY <1>1, <1>2 DEF CountsInv, BlocksCounted, MajorsCounted

(* A block that malloc places adds its size, and its room to its major. *)
LEMMA PlaceCounts ==
  ASSUME HeapTypes, NEW mj, NEW m, NEW a, NEW p, NEW n, Places(mj, m, a, p, n),
         BlocksCounted(mj), MajorsCounted(mj, l_allocated')
  PROVE  CountsInv'
<1>1. /\ a \notin Live /\ Live' = Live \cup {a}
      /\ MinorsOf(m)' = MinorsOf(m) \cup {a}
      /\ \A x : x # m => MinorsOf(x)' = MinorsOf(x)
      /\ \A h \in Live : minors'[h].size = minors[h].size
      /\ minors'[a].size = SizeOf(call.req_size)
      /\ DOMAIN majors' = DOMAIN mj
      /\ \A x \in DOMAIN mj : majors'[x].size = mj[x].size
  BY PlaceFields DEF Places
<1>2. /\ \A x \in DOMAIN mj : majors'[x].usage =
                                IF x = m THEN mj[x].usage + Need(call.req_size) ELSE mj[x].usage
      /\ \A x \in DOMAIN mj : mj[x].usage \in Int
      /\ l_inuse' = l_inuse + SizeOf(call.req_size)
      /\ m \in DOMAIN mj
  <2>1. \A x \in DOMAIN mj : mj[x] \in MajorRecords
    BY DEF Places
  <2>2. /\ majors' = [mj EXCEPT ![m].usage = @ + Need(call.req_size),
                                ![m].first = IF p = NULL THEN a ELSE @]
        /\ mj = [x \in DOMAIN mj |-> mj[x]] /\ m \in DOMAIN mj
    BY DEF Places, Place
  <2>3. PICK u, f : /\ u = mj[m].usage + Need(call.req_size)
                    /\ f = IF p = NULL THEN a ELSE mj[m].first
    OBVIOUS
  <2>4. /\ \A x \in DOMAIN mj \ {m} : majors'[x] = mj[x]
        /\ majors'[m] = [mj[m] EXCEPT !.usage = u, !.first = f]
    BY <2>2, <2>3
  <2>5. majors'[m].usage = u
    BY <2>1, <2>2, <2>4 DEF MajorRecords
  <2> QED BY <2>1, <2>2, <2>3, <2>4, <2>5 DEF Places, Place, MajorRecords
<1>3. /\ SizeOf(call.req_size) \in Nat
      /\ MINOR + SizeOf(call.req_size) = Need(call.req_size)
      /\ MINOR + SizeOf(call.req_size) \in Nat
  <2>1. call.req_size \in Nat
    BY DEF HeapTypes, Calls
  <2> QED BY <2>1 DEF SizeOf, Need, MINOR, ALIGNMENT, ALIGN_INFO
<1>4. /\ [h \in Live |-> minors[h].size] \in [Live -> Nat]
      /\ \A h \in Live : minors[h].size \in Nat /\ MINOR + minors[h].size \in Nat
      /\ \A x : MinorsOf(x) \subseteq Live
      /\ \A x : [h \in MinorsOf(x) |-> MINOR + minors[h].size] \in [MinorsOf(x) -> Nat]
      /\ IsFiniteSet(Live)
  BY CountedSizes DEF BlocksCounted
<1>5. IsFiniteSet(Live)' /\ AddsUp([h \in Live' |-> minors'[h].size], Live', l_inuse')
  <2>1. PICK S, w, u : /\ S = Live /\ w = [h \in Live |-> minors[h].size]
                       /\ u = [h \in Live' |-> minors'[h].size]
    OBVIOUS
  <2>2. /\ IsFiniteSet(S) /\ w \in [S -> Nat] /\ AddsUp(w, S, l_inuse) /\ a \notin S
        /\ u \in [S \cup {a} -> Nat] /\ \A x \in S : u[x] = w[x]
        /\ u[a] = SizeOf(call.req_size)
    BY <1>1, <1>3, <1>4, <2>1 DEF BlocksCounted
  <2>3. IsFiniteSet(S \cup {a}) /\ AddsUp(u, S \cup {a}, l_inuse + u[a])
    BY <2>2, AddsUpInsert
  <2> QED BY <1>1, <1>2, <2>1, <2>2, <2>3
<1>6. ASSUME NEW x \in DOMAIN majors'
      PROVE  AddsUp([h \in MinorsOf(x)' |-> MINOR + minors'[h].size], MinorsOf(x)',
                    majors'[x].usage - MAJOR)
  <2>1. CASE x # m
    <3>1. MinorsOf(x)' = MinorsOf(x) /\ majors'[x].usage = mj[x].usage
      BY <1>1, <1>2, <2>1
    <3>2. [h \in MinorsOf(x)' |-> MINOR + minors'[h].size]
            = [h \in MinorsOf(x) |-> MINOR + minors[h].size]
      BY <1>1, <1>4, <3>1
    <3> QED BY <1>1, <3>1, <3>2 DEF BlocksCounted
  <2>2. CASE x = m
    <3>1. PICK S, w, u : /\ S = MinorsOf(m) /\ w = [h \in MinorsOf(m) |-> MINOR + minors[h].size]
                         /\ u = [h \in MinorsOf(m)' |-> MINOR + minors'[h].size]
      OBVIOUS
    <3>2. IsFiniteSet(S)
      BY <1>4, <3>1, FS_Subset
    <3>3. w \in [S -> Nat] /\ AddsUp(w, S, mj[m].usage - MAJOR) /\ a \notin S
      BY <1>1, <1>2, <1>4, <3>1 DEF BlocksCounted
    <3>4. /\ u \in [S \cup {a} -> Nat] /\ \A h \in S : u[h] = w[h]
          /\ u[a] = Need(call.req_size)
      <4>1. S \subseteq Live
        BY <1>4, <3>1
      <4>2. u = [h \in S \cup {a} |-> MINOR + minors'[h].size]
        BY <1>1, <3>1
      <4>3. u[a] = MINOR + SizeOf(call.req_size)
        BY <1>1, <4>2
      <4>4. \A h \in S : u[h] = w[h] /\ w[h] \in Nat
        BY <1>1, <3>1, <3>3, <4>1, <4>2
      <4> QED BY <1>3, <4>2, <4>3, <4>4
    <3>5. AddsUp(u, S \cup {a}, mj[m].usage - MAJOR + u[a])
      BY <3>2, <3>3, <3>4, AddsUpInsert
    <3>6. majors'[m].usage - MAJOR = mj[m].usage - MAJOR + u[a]
      <4>1. majors'[m].usage = mj[m].usage + Need(call.req_size) /\ mj[m].usage \in Int
            /\ Need(call.req_size) \in Nat
        BY <1>2, <1>3
      <4> QED BY <3>4, <4>1 DEF MAJOR
    <3> QED BY <1>1, <2>2, <3>1, <3>5, <3>6
  <2> QED BY <2>1, <2>2
<1>7. MajorsCounted(majors, l_allocated)'
  <2>1. [x \in DOMAIN majors' |-> majors'[x].size] = [x \in DOMAIN mj |-> mj[x].size]
    BY <1>1
  <2> QED BY <1>1, <2>1 DEF MajorsCounted
<1> QED BY <1>5, <1>6, <1>7 DEF CountsInv, BlocksCounted

(* A major that is added adds its size, and has no blocks yet. *)
LEMMA GrowthCounts ==
  ASSUME HeapInv, CountsInv, NEW mj, NEW n \in Nat, NEW a,
         a \notin DOMAIN majors, DOMAIN mj = DOMAIN majors \cup {a},
         \A x \in DOMAIN majors :
           mj[x].size = majors[x].size /\ mj[x].usage = majors[x].usage,
         mj[a].size = n, mj[a].usage = MAJOR
  PROVE  BlocksCounted(mj) /\ MajorsCounted(mj, l_allocated + n)
<1>1. HeapTypes
  BY DEF HeapInv
<1>2. MinorsOf(a) = {}
  BY DEF HeapInv, BlocksIn, BlocksPlaced, MinorsOf
<1>3. BlocksCounted(mj)
  <2> SUFFICES ASSUME NEW x \in DOMAIN mj
               PROVE  AddsUp([h \in MinorsOf(x) |-> MINOR + minors[h].size],
                             MinorsOf(x), mj[x].usage - MAJOR)
    BY DEF CountsInv, BlocksCounted
  <2>1. CASE x = a
    <3>1. [h \in {} |-> MINOR + minors[h].size] \in [{} -> Nat]
      OBVIOUS
    <3>2. AddsUp([h \in {} |-> MINOR + minors[h].size], {}, 0)
      BY <3>1, AddsUpEmpty
    <3>3. mj[x].usage - MAJOR = 0
      BY <2>1 DEF MAJOR
    <3> QED BY <1>2, <2>1, <3>2, <3>3
  <2>2. CASE x # a
    BY <2>2 DEF CountsInv, BlocksCounted
  <2> QED BY <2>1, <2>2
<1>4. MajorsCounted(mj, l_allocated + n)
  <2>1. PICK S, w, u : /\ S = DOMAIN majors /\ w = [x \in DOMAIN majors |-> majors[x].size]
                       /\ u = [x \in DOMAIN mj |-> mj[x].size]
    OBVIOUS
  <2>2. /\ IsFiniteSet(S) /\ w \in [S -> Nat] /\ AddsUp(w, S, l_allocated) /\ a \notin S
    BY <1>1, <2>1, CountedSizes DEF CountsInv, MajorsCounted
  <2>3. u \in [S \cup {a} -> Nat] /\ (\A x \in S : u[x] = w[x]) /\ u[a] = n
    BY <1>1, <2>1, CountedSizes
  <2>4. IsFiniteSet(S \cup {a}) /\ AddsUp(u, S \cup {a}, l_allocated + u[a])
    BY <2>2, <2>3, AddsUpInsert
  <2> QED BY <2>1, <2>3, <2>4 DEF MajorsCounted
<1> QED BY <1>3, <1>4

LEMMA LinkedCounts ==
  ASSUME HeapInv, CountsInv, NEW m \in DOMAIN majors, majors[m].next = NULL,
         NewAddress \in Nat, 0 < NewAddress, \A x \in DOMAIN majors : x < NewAddress,
         NEW req \in Requests, NEW mj, mj = Linked(m, req)
  PROVE  BlocksCounted(mj) /\ MajorsCounted(mj, l_allocated + PagesFor(req) * l_pageSize)
<1>1. PICK a, n : a = NewAddress /\ n = PagesFor(req) * l_pageSize
  OBVIOUS
<1>2. n \in Nat
  BY <1>1, PagesForEnough
<1>3. DOMAIN mj = DOMAIN majors \cup {a} /\ a \notin DOMAIN majors
  BY <1>1, LinkedMajor
<1>4. \A x \in DOMAIN majors : mj[x].size = majors[x].size
  BY LinkedMajor
<1>5. mj[a].size = n /\ mj[a].usage = MAJOR
  BY <1>1, LinkedMajor
<1>6. ASSUME NEW x \in DOMAIN majors PROVE mj[x].usage = majors[x].usage
  <2>1. PICK d \in MajorRecords : d = majors[x]
    BY MajorFacts
  <2>2. mj[x] = IF x = m THEN [d EXCEPT !.next = a] ELSE d
    BY <1>1, <1>3, <2>1 DEF Linked
  <2> QED BY <2>1, <2>2 DEF MajorRecords
<1>7. BlocksCounted(mj) /\ MajorsCounted(mj, l_allocated + n)
  BY <1>2, <1>3, <1>4, <1>5, <1>6, GrowthCounts
<1> QED BY <1>1, <1>7

LEMMA Case1GrowCounts ==
  ASSUME HeapInv, CountsInv, Case1Grow
  PROVE  CountsInv'
<1>1. CASE GrowthFails
  BY <1>1, SameCounts DEF GrowthFails, Live
<1>2. CASE ~GrowthFails
  <2>1. PICK m, a, req : m = call.maj /\ a = NewAddress /\ req = call.req_size
    OBVIOUS
  <2>2. /\ call.pc = "major" /\ call.pc \in Searching /\ m \in DOMAIN majors
        /\ majors[m].next = NULL /\ req \in Requests /\ NoneEmpty
    BY <2>1, NoneEmptyWhen DEF Case1Grow, Searching, HeapInv, CallInv
  <2>3. PICK mj : mj = Linked(m, req)
    OBVIOUS
  <2>4. /\ liballoc_alloc(PagesFor(call.req_size)) /\ ~OutOfMemory /\ ~Unmapped
        /\ l_allocated' = l_allocated + PagesFor(req) * l_pageSize
        /\ Places(mj, a, a + MAJOR, NULL, NULL)
    BY <1>2, <2>1, <2>3, Case1GrowPlaces DEF allocate_new_page
  <2>5. NewAddress \in Nat /\ 0 < NewAddress /\ \A x \in DOMAIN majors : x < NewAddress
    BY <2>2, <2>4, NewAddressAbove
  <2>6. BlocksCounted(mj) /\ MajorsCounted(mj, l_allocated')
    BY <2>2, <2>3, <2>4, <2>5, LinkedCounts
  <2>7. HeapTypes
    BY DEF HeapInv
  <2> QED BY <2>4, <2>6, <2>7, PlaceCounts
<1> QED BY <1>1, <1>2

LEMMA Case5GrowCounts ==
  ASSUME HeapInv, CountsInv, Case5Grow
  PROVE  CountsInv'
<1>1. CASE GrowthFails
  BY <1>1, SameCounts DEF GrowthFails, Live
<1>2. CASE /\ allocate_new_page(call.req_size)
           /\ majors' = Linked(call.maj, call.req_size)
           /\ UNCHANGED <<minors, l_inuse>>
  <2>1. PICK m, req : m = call.maj /\ req = call.req_size
    OBVIOUS
  <2>2. /\ call.pc = "full" /\ call.pc \in Searching /\ m \in DOMAIN majors
        /\ majors[m].next = NULL /\ req \in Requests /\ NoneEmpty
    BY <2>1, NoneEmptyWhen DEF Case5Grow, Searching, HeapInv, CallInv
  <2>3. PICK mj : mj = Linked(m, req)
    OBVIOUS
  <2>4. /\ liballoc_alloc(PagesFor(call.req_size)) /\ ~OutOfMemory /\ ~Unmapped
        /\ l_allocated' = l_allocated + PagesFor(req) * l_pageSize
        /\ majors' = mj /\ Live' = Live /\ l_inuse' = l_inuse
    BY <1>2, <2>1, <2>3 DEF allocate_new_page, Live
  <2>5. NewAddress \in Nat /\ 0 < NewAddress /\ \A x \in DOMAIN majors : x < NewAddress
    BY <2>2, <2>4, NewAddressAbove
  <2>6. BlocksCounted(mj) /\ MajorsCounted(mj, l_allocated')
    BY <2>2, <2>3, <2>4, <2>5, LinkedCounts
  <2>7. BlocksCounted(mj)'
    BY <1>2, <2>4, <2>6, SameBlocksCounted
  <2>8. MajorsCounted(majors, l_allocated)'
    BY <2>4, <2>6 DEF MajorsCounted
  <2> QED BY <2>4, <2>7, <2>8 DEF CountsInv, BlocksCounted
<1> QED BY <1>1, <1>2 DEF Case5Grow

LEMMA FirstUseCounts ==
  ASSUME HeapInv, CountsInv, FirstUse
  PROVE  CountsInv'
<1>1. CASE GrowthFails
  BY <1>1, SameCounts DEF GrowthFails, Live
<1>2. CASE /\ allocate_new_page(call.req_size)
           /\ majors' = [a \in {NewAddress} |-> NewMajor(call.req_size)]
           /\ UNCHANGED <<minors, l_inuse>>
  <2>1. PICK mj, a, n : /\ mj = [x \in {NewAddress} |-> NewMajor(call.req_size)]
                        /\ a = NewAddress /\ n = PagesFor(call.req_size) * l_pageSize
    OBVIOUS
  <2>2. DOMAIN majors = {} /\ call.req_size \in Requests
    BY RootFacts DEF FirstUse, Searching, HeapInv, CallInv
  <2>3. n \in Nat
    BY <2>1, <2>2, PagesForEnough
  <2>4. DOMAIN mj = {a} /\ mj[a].size = n /\ mj[a].usage = MAJOR
    BY <2>1 DEF NewMajor
  <2>5. BlocksCounted(mj) /\ MajorsCounted(mj, l_allocated + n)
    BY <2>2, <2>3, <2>4, GrowthCounts
  <2>6. majors' = mj /\ l_allocated' = l_allocated + n /\ Live' = Live /\ l_inuse' = l_inuse
    BY <1>2, <2>1 DEF allocate_new_page, Live
  <2>7. BlocksCounted(mj)'
    BY <1>2, <2>5, <2>6, SameBlocksCounted
  <2>8. MajorsCounted(majors, l_allocated)'
    BY <2>5, <2>6 DEF MajorsCounted
  <2> QED BY <2>6, <2>7, <2>8 DEF CountsInv, BlocksCounted
<1> QED BY <1>1, <1>2 DEF FirstUse

(* A block that is freed takes its size away. *)
LEMMA SizesWithout ==
  ASSUME HeapTypes, CountsInv, NEW h \in Live, Live' = Live \ {h},
         \A x \in Live \ {h} : minors'[x].size = minors[x].size,
         l_inuse' = l_inuse - minors[h].size
  PROVE  IsFiniteSet(Live)' /\ AddsUp([x \in Live' |-> minors'[x].size], Live', l_inuse')
<1>1. PICK S, w, u : /\ S = Live /\ w = [x \in Live |-> minors[x].size]
                     /\ u = [x \in Live' |-> minors'[x].size]
  OBVIOUS
<1>2. /\ IsFiniteSet(S) /\ w \in [S -> Nat] /\ AddsUp(w, S, l_inuse) /\ h \in S
  BY <1>1, CountedSizes DEF CountsInv, BlocksCounted
<1>3. /\ u \in [S \ {h} -> Nat] /\ (\A x \in S \ {h} : u[x] = w[x]) /\ w[h] = minors[h].size
  <2>1. u = [x \in S \ {h} |-> minors[x].size]
    BY <1>1
  <2> QED BY <1>1, <1>2, <2>1
<1>4. IsFiniteSet(S \ {h}) /\ AddsUp(u, S \ {h}, l_inuse - w[h])
  BY <1>2, <1>3, AddsUpRemove
<1> QED BY <1>1, <1>3, <1>4

LEMMA KeepMajorCounts ==
  ASSUME HeapInv, CountsInv, NEW h \in Live, KeepMajor(h), ~LastBlock(h),
         l_inuse' = l_inuse - minors[h].size
  PROVE  CountsInv'
<1>1. PICK m : m = minors[h].block
  OBVIOUS
<1>2. /\ Live' = Live \ {h} /\ MinorsOf(m)' = MinorsOf(m) \ {h}
      /\ \A x : x # m => MinorsOf(x)' = MinorsOf(x)
      /\ \A x \in Live \ {h} : minors'[x].size = minors[x].size
      /\ DOMAIN majors' = DOMAIN majors
      /\ \A x \in DOMAIN majors : majors'[x].size = majors[x].size
  <2>1. Live' = Live \ {h} /\ MinorsOf(m)' = MinorsOf(m) \ {h}
    BY <1>1, KeepFields
  <2>2. \A x : x # m => MinorsOf(x)' = MinorsOf(x)
    BY <1>1, KeepFields
  <2>3. \A x \in Live \ {h} : minors'[x].size = minors[x].size
    BY <1>1, KeepFields
  <2>4. DOMAIN majors' = DOMAIN majors
    BY <1>1, KeepFields
  <2>5. \A x \in DOMAIN majors : majors'[x].size = majors[x].size
    BY <1>1, KeepFields
  <2> QED BY <2>1, <2>2, <2>3, <2>4, <2>5
<1>3. m \in DOMAIN majors /\ h \in MinorsOf(m)
  BY <1>1, BlockFacts
<1>4. \A x \in DOMAIN majors : majors'[x].usage = IF x = m THEN majors[x].usage - Freed(h)
                                                 ELSE majors[x].usage
  <2>1. PICK u, f : u = majors[m].usage - Freed(h) /\ f = FirstAfter(h)
    OBVIOUS
  <2>2. majors' = [majors EXCEPT ![m].usage = u, ![m].first = f]
    BY <1>1, <2>1 DEF KeepMajor
  <2>3. \A x \in DOMAIN majors : majors[x] \in MajorRecords
    BY MajorFacts
  <2>4. \A x \in DOMAIN majors :
          majors'[x] = IF x = m THEN [majors[x] EXCEPT !.usage = u, !.first = f]
                       ELSE majors[x]
    <3>1. majors = [x \in DOMAIN majors |-> majors[x]]
      BY DEF HeapInv, HeapTypes
    <3> QED BY <1>3, <2>2, <3>1
  <2> QED BY <2>1, <2>3, <2>4 DEF MajorRecords
<1>5. HeapTypes /\ l_allocated' = l_allocated
  BY DEF HeapInv, KeepMajor
<1>6. IsFiniteSet(Live)' /\ AddsUp([x \in Live' |-> minors'[x].size], Live', l_inuse')
  BY <1>2, <1>5, SizesWithout
<1>7. IsFiniteSet(Live) /\ \A x : MinorsOf(x) \subseteq Live
  BY DEF CountsInv, BlocksCounted, MinorsOf
<1>8. ASSUME NEW x \in DOMAIN majors
      PROVE  AddsUp([y \in MinorsOf(x)' |-> MINOR + minors'[y].size], MinorsOf(x)',
                    majors'[x].usage - MAJOR)
  <2>1. CASE x # m
    <3>1. h \notin MinorsOf(x)
      BY <1>1, <2>1 DEF MinorsOf
    <3>2. MinorsOf(x)' = MinorsOf(x) /\ MinorsOf(x) \subseteq Live \ {h}
      BY <1>2, <1>7, <2>1, <3>1
    <3>3. [y \in MinorsOf(x)' |-> MINOR + minors'[y].size]
            = [y \in MinorsOf(x) |-> MINOR + minors[y].size]
      BY <1>2, <3>2
    <3> QED BY <1>4, <2>1, <3>2, <3>3 DEF CountsInv, BlocksCounted
  <2>2. CASE x = m
    <3>1. PICK S, w, u : /\ S = MinorsOf(m) /\ w = [y \in MinorsOf(m) |-> MINOR + minors[y].size]
                         /\ u = [y \in MinorsOf(m)' |-> MINOR + minors'[y].size]
      OBVIOUS
    <3>2. IsFiniteSet(S)
      BY <1>7, <3>1, FS_Subset
    <3>3. w \in [S -> Nat] /\ AddsUp(w, S, majors[m].usage - MAJOR) /\ h \in S
      BY <1>3, <1>5, <3>1, CountedSizes DEF CountsInv, BlocksCounted
    <3>4. /\ u \in [S \ {h} -> Nat] /\ (\A y \in S \ {h} : u[y] = w[y])
          /\ w[h] = MINOR + minors[h].size
      <4>1. u = [y \in S \ {h} |-> MINOR + minors'[y].size]
        BY <1>2, <3>1
      <4>2. \A y \in S \ {h} : u[y] = w[y] /\ w[y] \in Nat
        BY <1>2, <1>7, <3>1, <3>3, <4>1
      <4> QED BY <3>1, <3>3, <4>1, <4>2
    <3>5. AddsUp(u, S \ {h}, majors[m].usage - MAJOR - w[h])
      BY <3>2, <3>3, <3>4, AddsUpRemove
    <3>6. majors'[m].usage - MAJOR = majors[m].usage - MAJOR - w[h]
      <4>1. majors[m].usage \in Int /\ minors[h].size \in Nat
        BY <1>3, <1>5, CountedSizes
      <4> QED BY <1>3, <1>4, <3>4, <4>1 DEF Freed, MAJOR, MINOR
    <3> QED BY <1>2, <2>2, <3>1, <3>5, <3>6
  <2> QED BY <2>1, <2>2
<1>9. MajorsCounted(majors, l_allocated)'
  <2>1. [x \in DOMAIN majors' |-> majors'[x].size] = [x \in DOMAIN majors |-> majors[x].size]
    BY <1>2
  <2> QED BY <1>2, <1>5, <2>1 DEF CountsInv, MajorsCounted
<1> QED BY <1>2, <1>6, <1>8, <1>9 DEF CountsInv, BlocksCounted

LEMMA DropMajorCounts ==
  ASSUME HeapInv, CountsInv, NEW h \in Live, DropMajor(h), LastBlock(h),
         l_inuse' = l_inuse - minors[h].size
  PROVE  CountsInv'
<1>1. PICK m : m = minors[h].block
  OBVIOUS
<1>2. /\ Live' = Live \ {h}
      /\ \A x \in Live \ {h} : minors'[x] = minors[x] /\ minors[x].block # m
      /\ DOMAIN majors' = DOMAIN majors \ {m}
      /\ \A x \in DOMAIN majors \ {m} : majors'[x].size = majors[x].size
  BY <1>1, DropFields
<1>3. m \in DOMAIN majors
  BY <1>1, BlockFacts
<1>4. ASSUME NEW x \in DOMAIN majors \ {m} PROVE majors'[x].usage = majors[x].usage
  <2>1. PICK d \in MajorRecords : d = majors[x]
    BY MajorFacts
  <2>2. PICK e, f : /\ e = IF x = majors[m].prev THEN majors[m].next ELSE majors[x].next
                    /\ f = IF x = majors[m].next THEN majors[m].prev ELSE majors[x].prev
    OBVIOUS
  <2>3. majors'[x] = [d EXCEPT !.next = e, !.prev = f]
    BY <1>1, <2>1, <2>2 DEF DropMajor, PrevAfterDrop
  <2> QED BY <2>1, <2>3 DEF MajorRecords
<1>5. HeapTypes /\ l_allocated' = l_allocated - majors[m].size
  BY <1>1 DEF HeapInv, DropMajor
<1>6. IsFiniteSet(Live)' /\ AddsUp([x \in Live' |-> minors'[x].size], Live', l_inuse')
  BY <1>2, <1>5, SizesWithout
<1>7. ASSUME NEW x \in DOMAIN majors \ {m}
      PROVE  AddsUp([y \in MinorsOf(x)' |-> MINOR + minors'[y].size], MinorsOf(x)',
                    majors'[x].usage - MAJOR)
  <2>1. MinorsOf(x)' = MinorsOf(x) /\ MinorsOf(x) \subseteq Live \ {h}
    BY <1>1, <1>2 DEF MinorsOf
  <2>2. [y \in MinorsOf(x)' |-> MINOR + minors'[y].size]
          = [y \in MinorsOf(x) |-> MINOR + minors[y].size]
    BY <1>2, <2>1
  <2> QED BY <1>4, <2>1, <2>2 DEF CountsInv, BlocksCounted
<1>8. MajorsCounted(majors, l_allocated)'
  <2>1. PICK S, w, u : /\ S = DOMAIN majors /\ w = [x \in DOMAIN majors |-> majors[x].size]
                       /\ u = [x \in DOMAIN majors' |-> majors'[x].size]
    OBVIOUS
  <2>2. IsFiniteSet(S) /\ w \in [S -> Nat] /\ AddsUp(w, S, l_allocated) /\ m \in S
    BY <1>3, <1>5, <2>1, CountedSizes DEF CountsInv, MajorsCounted
  <2>3. /\ u \in [S \ {m} -> Nat] /\ (\A x \in S \ {m} : u[x] = w[x])
        /\ w[m] = majors[m].size
    <3>1. u = [x \in S \ {m} |-> majors[x].size]
      BY <1>2, <2>1
    <3> QED BY <2>1, <2>2, <3>1
  <2>4. IsFiniteSet(S \ {m}) /\ AddsUp(u, S \ {m}, l_allocated - w[m])
    BY <2>2, <2>3, AddsUpRemove
  <2> QED BY <1>2, <1>5, <2>1, <2>3, <2>4 DEF MajorsCounted
<1> QED BY <1>2, <1>6, <1>7, <1>8 DEF CountsInv, BlocksCounted

LEMMA FreeCounts ==
  ASSUME HeapInv, CountsInv, NEW h \in Live, FreeBlock(h)
  PROVE  CountsInv'
  BY KeepMajorCounts, DropMajorCounts DEF FreeBlock

LEMMA FitCounts ==
  ASSUME HeapInv, CountsInv, NEW m, NEW a, NEW p, NEW n, Places(majors, m, a, p, n),
         l_allocated' = l_allocated
  PROVE  CountsInv'
<1>1. HeapTypes /\ BlocksCounted(majors) /\ MajorsCounted(majors, l_allocated')
  BY DEF HeapInv, CountsInv
<1> QED BY <1>1, PlaceCounts

LEMMA ShrinkCounts ==
  ASSUME HeapInv, CountsInv, NEW g \in Live, NEW req \in Requests,
         minors' = [minors EXCEPT ![g].req_size = req],
         UNCHANGED <<majors, l_inuse, l_allocated>>
  PROVE  CountsInv'
<1>1. g \in DOMAIN minors /\ \A x \in DOMAIN minors : minors[x] \in MinorRecords
  BY BlockFacts, MinorFacts
<1>2. minors = [x \in DOMAIN minors |-> minors[x]]
  BY DEF HeapInv, HeapTypes
<1>3. /\ DOMAIN minors' = DOMAIN minors
      /\ \A x \in DOMAIN minors :
           minors'[x] = IF x = g THEN [minors[x] EXCEPT !.req_size = req] ELSE minors[x]
  BY <1>1, <1>2
<1>4. \A x \in DOMAIN minors :
        /\ minors'[x].magic = minors[x].magic /\ minors'[x].size = minors[x].size
        /\ minors'[x].block = minors[x].block
  BY <1>1, <1>3 DEF MinorRecords
<1>5. Live' = Live /\ Live \subseteq DOMAIN minors
  BY <1>3, <1>4 DEF Live
<1> QED BY <1>4, <1>5, SameCounts

LEMMA CountsStep ==
  ASSUME HeapInv, CountsInv, [HeapNext]_vars
  PROVE  CountsInv'
<1>1. UNCHANGED <<majors, minors, l_inuse, l_allocated>> => CountsInv'
  BY SameCounts DEF Live
<1>2. CASE \/ UNCHANGED vars \/ Boot \/ (\E c : Begin(c)) \/ StartSearch \/ Case1Move
           \/ Case4Enter \/ Case4Next \/ Case5Move
  BY <1>1, <1>2
     DEF vars, heapVars, Boot, Begin, StartSearch, Case1Move, Case4Enter, Case4Next,
         Case5Move
<1>3. CASE Case2
  <2>1. l_allocated' = l_allocated
    BY <1>3 DEF Case2
  <2> QED BY <1>3, <2>1, Case2Places, FitCounts
<1>4. CASE Case3
  <2>1. l_allocated' = l_allocated
    BY <1>4 DEF Case3
  <2> QED BY <1>4, <2>1, Case3Places, FitCounts
<1>5. CASE Case4Fit
  <2>1. l_allocated' = l_allocated
    BY <1>5 DEF Case4Fit
  <2> QED BY <1>5, <2>1, Case4FitPlaces, FitCounts
<1>6. CASE kfree
  <2>1. /\ LeadsToBlock(call.old) => call.old \in Live
        /\ LeadsToBlock(call.old) => HeaderOf(call.old) = call.old
    BY <1>6, LeadsToOld DEF kfree, LeadsToBlock
  <2> QED BY <1>1, <1>6, <2>1, FreeCounts DEF kfree, BadPointer
<1>7. CASE CopyAndFree
  BY <1>1, <1>7, CopyFrees, FreeCounts
<1>8. CASE krealloc
  <2>1. call.req_size \in Requests
    BY <1>8 DEF krealloc, HeapInv, CallInv
  <2>2. /\ LeadsToBlock(call.old) => call.old \in Live
        /\ LeadsToBlock(call.old) => HeaderOf(call.old) = call.old
    BY <1>8, LeadsToOld DEF krealloc, LeadsToBlock
  <2> QED BY <1>1, <1>8, <2>1, <2>2, ShrinkCounts DEF krealloc, BadPointer
<1> QED
  BY <1>2, <1>3, <1>4, <1>5, <1>6, <1>7, <1>8, FirstUseCounts, Case1GrowCounts,
     Case5GrowCounts
     DEF HeapNext, CallStep, CallMalloc, CallFree, CallRealloc

(* The counts are right in every reachable state. *)
THEOREM CountsInvariant == HeapSpec => []CountsInv
<1>1. HeapInit => CountsInv
  BY CountsInitially
<1>2. HeapInv /\ CountsInv /\ [HeapNext]_vars => CountsInv'
  BY CountsStep
<1> QED BY <1>1, <1>2, HeapInvariant, PTL DEF HeapSpec, HeapSafety

(* The counts malloc decides by: a major's usage is its header and its     *)
(* blocks with theirs, and the totals are those of the lists, whatever     *)
(* malloc, kfree and krealloc have done.                                   *)
THEOREM UsageStaysCounted == HeapSpec => []UsageAdds
<1>1. HeapInv /\ CountsInv => UsageAdds
  BY CountsAddUp
<1> QED BY <1>1, HeapInvariant, CountsInvariant, PTL

(* Every header field holds a value of its type, usages and totals are     *)
(* never negative, and malloc's locals point at headers that are in the    *)
(* lists they walk.                                                        *)
THEOREM HeapTypeCorrect == HeapSpec => []LiballocTypeOK
<1>1. HeapInv /\ CountsInv => LiballocTypeOK
  <2> SUFFICES ASSUME HeapInv, CountsInv PROVE LiballocTypeOK
    OBVIOUS
  <2>1. l_inuse \in Nat /\ l_allocated \in Nat /\ \A m \in DOMAIN majors : majors[m].usage \in Nat
    BY CountsAddUp
  <2>2. \A m \in DOMAIN majors :
          majors[m] \in [prev : Nat, next : Nat, pages : Nat, size : Nat, usage : Nat,
                         first : Nat]
    BY <2>1, MajorFacts DEF MajorRecords
  <2>3. \A h \in DOMAIN minors :
          minors[h] \in [prev : Nat, next : Nat, block : Nat, magic : {"MAGIC", "DEAD"},
                         size : Nat, req_size : Nat,
                         info : ALIGN_INFO .. ALIGN_INFO + ALIGNMENT - 1]
    BY MinorFacts DEF MinorRecords
  <2>4. call.pc \in {"idle", "free", "realloc", "start", "major", "minor", "full", "copy",
                      "halted", "stray"}
    BY DEF HeapInv, HeapTypes, Calls, Searching
  <2>5. /\ call.pc \in {"major", "minor", "full"} => call.maj \in DOMAIN majors
        /\ call.pc = "minor" => call.min \in MinorsOf(call.maj)
    BY DEF HeapInv, CallInv
  <2>6. call.old # NULL =>
          call.old \in IF call.pc \in {"free", "realloc"} THEN DOMAIN minors ELSE Live
    BY <2>4 DEF HeapInv, CallInv, Searching, Foreign
  <2> QED BY <2>1, <2>2, <2>3, <2>4, <2>5, <2>6 DEF HeapInv, HeapTypes, LiballocTypeOK
<1> QED BY <1>1, HeapInvariant, CountsInvariant, PTL

-----------------------------------------------------------------------------
(* The search for a gap.                                                   *)

(* Blocks that do not touch, between lo and hi, take no more room than     *)
(* there is.                                                               *)
LEMMA PackedFits ==
  ASSUME NEW S, IsFiniteSet(S), \A x \in S : x \in Nat, NEW w, \A x \in S : w[x] \in Nat,
         NEW it, Totals(it, w, S),
         NEW lo \in Nat, NEW hi \in Nat, lo <= hi,
         \A x \in S : lo <= x /\ x + w[x] <= hi,
         \A x, y \in S : x < y => x + w[x] <= y
  PROVE  it[S] <= hi - lo
<1> DEFINE Over(s, b) == /\ s \in SUBSET S /\ b \in Nat /\ lo <= b
                         /\ \A x \in s : x + w[x] <= b
                         /\ ~(it[s] <= b - lo)
           N == {n \in Nat : \E s, b : Over(s, b) /\ Cardinality(s) = n}
<1>1. N = {}
  <2> SUFFICES ASSUME N # {} PROVE FALSE
    OBVIOUS
  <2>1. PICK n \in N : \A k \in N : n <= k
    BY LeastNumber
  <2>2. PICK s, b : Over(s, b) /\ Cardinality(s) = n
    OBVIOUS
  <2>3. n \in Nat
    OBVIOUS
  <2> HIDE DEF N
  <2>4. /\ s \in SUBSET S /\ b \in Nat /\ lo <= b /\ ~(it[s] <= b - lo)
        /\ \A x \in s : x \in Nat /\ w[x] \in Nat /\ x + w[x] <= b
    BY <2>2
  <2>5. s # {}
    <3>1. it[{}] <= b - lo
      BY <2>4 DEF Totals
    <3> QED BY <2>4, <3>1
  <2>6. PICK c \in s : \A x \in s : x <= c
    <3> DEFINE T == {b - x : x \in s}
    <3>1. T \subseteq Nat /\ T # {}
      <4>1. \A x \in s : b - x \in Nat
        BY <2>4
      <4> QED BY <2>5, <4>1
    <3>2. PICK t \in T : \A k \in T : t <= k
      BY <3>1, LeastNumber
    <3>3. PICK c \in s : t = b - c
      OBVIOUS
    <3>4. ASSUME NEW x \in s PROVE x <= c
      <4>1. b - c <= b - x
        BY <3>2, <3>3
      <4> QED BY <2>4, <4>1
    <3> QED BY <3>4
  <2>7. Cardinality(s \ {c}) \in Nat /\ Cardinality(s \ {c}) = n - 1
    BY <2>2, <2>4, <2>5, OneLess
  <2>8. Cardinality(s \ {c}) \notin N
    BY <2>1, <2>3, <2>7
  <2>9. s \ {c} \in SUBSET S /\ c \in Nat /\ lo <= c /\ \A x \in s \ {c} : x + w[x] <= c
    BY <2>4, <2>6
  <2>10. it[s \ {c}] <= c - lo
    BY <2>7, <2>8, <2>9 DEF N
  <2>11. it[s] = it[s \ {c}] + w[c]
    BY <2>4 DEF Totals
  <2>12. it[s \ {c}] \in Nat /\ w[c] \in Nat /\ c + w[c] <= b
    BY <2>4, <2>9 DEF Totals
  <2> QED BY <2>4, <2>9, <2>10, <2>11, <2>12
<1>2. Cardinality(S) \in Nat
  BY FS_CardinalityType
<1>3. ~Over(S, hi)
  BY <1>1, <1>2
<1> QED BY <1>3

(* A gap between the blocks of a major is among its free bytes. *)
LEMMA GapIsFree ==
  ASSUME HeapInv, CountsInv, NEW m \in DOMAIN majors, NEW a \in Nat, NEW b \in Nat,
         a < b, m + MAJOR <= a, b <= EndOf(m),
         \A h \in MinorsOf(m) : EndOfMinor(h) <= a \/ b <= h
  PROVE  b - a <= FreeBytes(m)
<1>1. PICK S, w, f : /\ S = MinorsOf(m) /\ w = [h \in MinorsOf(m) |-> MINOR + minors[h].size]
                     /\ f = majors[m].usage - MAJOR
  OBVIOUS
<1>2. HeapTypes
  BY DEF HeapInv
<1>3. IsFiniteSet(S)
  <2>1. IsFiniteSet(Live) /\ S \in SUBSET Live
    BY <1>1 DEF CountsInv, BlocksCounted, MinorsOf
  <2> QED BY <2>1, FS_Subset
<1>4. w \in [S -> Nat] /\ AddsUp(w, S, f)
  BY <1>1, <1>2, CountedSizes DEF CountsInv, BlocksCounted
<1>5. /\ m \in Nat /\ majors[m].size \in Nat /\ majors[m].usage \in Int
      /\ EndOf(m) = m + majors[m].size
  BY MajorFacts DEF MajorRecords, EndOf
<1>6. \A h \in S : /\ h \in Nat /\ EndOfMinor(h) = h + w[h] /\ 0 < w[h] /\ w[h] \in Nat
                   /\ m + MAJOR <= h /\ EndOfMinor(h) <= EndOf(m)
  <2> SUFFICES ASSUME NEW h \in S
               PROVE  /\ h \in Nat /\ EndOfMinor(h) = h + w[h] /\ 0 < w[h] /\ w[h] \in Nat
                      /\ m + MAJOR <= h /\ EndOfMinor(h) <= EndOf(m)
    OBVIOUS
  <2>1. h \in Live /\ minors[h].block = m
    BY <1>1 DEF MinorsOf
  <2>2. h \in Nat /\ minors[h].size \in Nat
    BY <2>1, BlockFacts DEF MinorRecords
  <2>3. w[h] = MINOR + minors[h].size
    BY <1>1
  <2>4. m + MAJOR <= h /\ EndOfMinor(h) <= m + majors[m].size
    BY <2>1 DEF HeapInv, BlocksIn, BlocksPlaced
  <2> QED BY <1>5, <2>2, <2>3, <2>4 DEF EndOfMinor, MINOR
<1>7. \A g, h \in S : g < h => g + w[g] <= h
  BY <1>1, <1>6 DEF HeapInv, BlocksIn, BlocksListed
<1>8. \A h \in S : h + w[h] <= a \/ b <= h
  BY <1>1, <1>6
<1>9. a \notin S
  BY <1>6, <1>8
<1>10. PICK u : u = [x \in S \cup {a} |-> IF x = a THEN b - a ELSE w[x]]
  OBVIOUS
<1>11. u \in [S \cup {a} -> Nat] /\ (\A x \in S : u[x] = w[x]) /\ u[a] = b - a
  BY <1>4, <1>9, <1>10
<1>12. IsFiniteSet(S \cup {a}) /\ AddsUp(u, S \cup {a}, f + u[a])
  BY <1>3, <1>4, <1>9, <1>11, AddsUpInsert
<1>13. PICK lo \in Nat, hi \in Nat : lo = m + MAJOR /\ hi = EndOf(m)
  BY <1>5 DEF MAJOR
<1>14. PICK T, v : /\ T = S \cup {a} /\ v = f + u[a] /\ IsFiniteSet(T) /\ u \in [T -> Nat]
                   /\ AddsUp(u, T, v)
  BY <1>11, <1>12
<1>15. PICK it : v = it[T] /\ Sums(it, u, T)
  BY <1>14 DEF AddsUp
<1>16. Totals(it, u, T)
  BY <1>14, <1>15, SumsAreTotals
<1>17. /\ IsFiniteSet(T) /\ \A x \in T : x \in Nat /\ u[x] \in Nat
       /\ lo <= hi /\ \A x \in T : lo <= x /\ x + u[x] <= hi
  BY <1>6, <1>11, <1>12, <1>13, <1>14
<1>18. \A x, y \in T : x < y => x + u[x] <= y
  <2> SUFFICES ASSUME NEW x \in T, NEW y \in T, x < y PROVE x + u[x] <= y
    OBVIOUS
  <2>1. CASE x \in S /\ y \in S
    BY <1>7, <1>11, <2>1
  <2>2. CASE x \in S /\ y = a
    BY <1>6, <1>8, <1>11, <2>2
  <2>3. CASE x = a /\ y \in S
    BY <1>6, <1>8, <1>11, <2>3
  <2>4. CASE x = a /\ y = a
    BY <2>4
  <2> QED BY <1>14, <2>1, <2>2, <2>3, <2>4
<1>19. it[T] <= hi - lo
  BY <1>16, <1>17, <1>18, PackedFits
<1> QED BY <1>1, <1>5, <1>11, <1>13, <1>14, <1>15, <1>19 DEF FreeBytes, MAJOR

(* No gap of a major holds the block that is asked for. *)
TooSmall(m) ==
  /\ FrontGap(m) < Need(call.req_size)
  /\ \A h \in MinorsOf(m) : GapAfter(m, h) < Need(call.req_size)

(* A major whose free bytes are too few has no gap that is large enough.   *)
LEMMA ShortIsTooSmall ==
  ASSUME HeapInv, CountsInv, NEW m \in DOMAIN majors, majors[m].first # NULL,
         FreeBytes(m) < Need(call.req_size)
  PROVE  TooSmall(m)
<1>1. PICK need \in Nat : need = Need(call.req_size) /\ 0 < need
  BY NeedBounds
<1>2. /\ m \in Nat /\ majors[m].size \in Nat /\ majors[m].usage \in Int
      /\ EndOf(m) = m + majors[m].size /\ FreeBytes(m) = majors[m].size - majors[m].usage
  BY MajorFacts DEF MajorRecords, EndOf, FreeBytes
<1>3. ASSUME NEW h \in MinorsOf(m)
      PROVE  /\ h \in Nat /\ EndOfMinor(h) \in Nat /\ h < EndOfMinor(h)
             /\ m + MAJOR <= h /\ EndOfMinor(h) <= EndOf(m)
  <2>1. h \in Live /\ minors[h].block = m
    BY DEF MinorsOf
  <2>2. h \in Nat /\ minors[h].size \in Nat
    BY <2>1, BlockFacts DEF MinorRecords
  <2>3. m + MAJOR <= h /\ EndOfMinor(h) <= m + majors[m].size
    BY <2>1 DEF HeapInv, BlocksIn, BlocksPlaced
  <2> QED BY <1>2, <2>2, <2>3 DEF EndOfMinor, MINOR
<1>4. \A g, h \in MinorsOf(m) : g < h => EndOfMinor(g) <= h
  BY DEF HeapInv, BlocksIn, BlocksListed
<1>5. FrontGap(m) < need
  <2> SUFFICES ASSUME ~(FrontGap(m) < need) PROVE FALSE
    OBVIOUS
  <2>1. PICK a, b : a = m + MAJOR /\ b = majors[m].first
    OBVIOUS
  <2>2. b \in MinorsOf(m) /\ \A h \in MinorsOf(m) : 0 < h => b <= h
    BY <2>1 DEF HeapInv, BlocksIn, BlocksListed, IsAbove
  <2>3. \A h \in MinorsOf(m) : b <= h
    BY <1>2, <1>3, <2>2 DEF MAJOR
  <2>4. a \in Nat /\ b \in Nat /\ b <= EndOf(m)
    BY <1>2, <1>3, <2>1, <2>2 DEF MAJOR
  <2>5. FrontGap(m) = b - a
    BY <1>2, <2>1, <2>4 DEF FrontGap, MAJOR
  <2>6. a < b
    BY <1>1, <2>4, <2>5
  <2>7. b - a <= FreeBytes(m)
    BY <2>1, <2>3, <2>4, <2>6, GapIsFree
  <2> QED BY <1>1, <1>2, <2>4, <2>5, <2>7
<1>6. ASSUME NEW h \in MinorsOf(m), ~(GapAfter(m, h) < need) PROVE FALSE
  <2>1. PICK a, b : a = EndOfMinor(h) /\ b = IF minors[h].next = NULL THEN EndOf(m)
                                             ELSE minors[h].next
    OBVIOUS
  <2>2. IsAbove(MinorsOf(m), h, minors[h].next)
    BY DEF HeapInv, BlocksIn, BlocksListed
  <2>3. b \in Nat /\ b <= EndOf(m) /\ \A g \in MinorsOf(m) : h < g => b <= g
    BY <1>2, <1>3, <2>1, <2>2 DEF IsAbove
  <2>4. a \in Nat /\ m + MAJOR <= a
    BY <1>2, <1>3, <2>1 DEF MAJOR
  <2>5. GapAfter(m, h) = b - a
    BY <2>1 DEF GapAfter
  <2>6. a < b
    BY <1>1, <1>6, <2>3, <2>4, <2>5
  <2>7. \A g \in MinorsOf(m) : EndOfMinor(g) <= a \/ b <= g
    BY <1>3, <1>4, <2>1, <2>3
  <2>8. b - a <= FreeBytes(m)
    BY <2>3, <2>4, <2>6, <2>7, GapIsFree
  <2> QED BY <1>1, <1>2, <1>6, <2>3, <2>4, <2>5, <2>8
<1> QED BY <1>1, <1>5, <1>6 DEF TooSmall

(* What a search that began at the root, or has started over, has seen: of *)
(* the majors behind it and of the gaps behind it in this one, none holds  *)
(* the block.                                                              *)
SearchInv ==
  /\ call.pc \in {"major", "minor", "full"} /\ ~call.startedBet =>
       \A m \in DOMAIN majors : m < call.maj => TooSmall(m)
  /\ call.pc = "minor" =>
       /\ FrontGap(call.maj) < Need(call.req_size)
       /\ \A h \in MinorsOf(call.maj) :
            h < call.min => GapAfter(call.maj, h) < Need(call.req_size)
  /\ call.pc = "full" => TooSmall(call.maj)

LEMMA NotSearching ==
  ASSUME call'.pc \notin {"major", "minor", "full"}
  PROVE  SearchInv'
  BY DEF SearchInv

(* The same blocks and the same request: the same gaps are too small. *)
LEMMA StillTooSmall ==
  ASSUME NEW m, majors'[m].size = majors[m].size, majors'[m].first = majors[m].first,
         minors' = minors, call'.req_size = call.req_size
  PROVE  /\ TooSmall(m)' = TooSmall(m) /\ FrontGap(m)' = FrontGap(m)
         /\ MinorsOf(m)' = MinorsOf(m)
         /\ \A h : GapAfter(m, h)' = GapAfter(m, h)
         /\ Need(call.req_size)' = Need(call.req_size)
<1>1. FrontGap(m)' = FrontGap(m) /\ Need(call.req_size)' = Need(call.req_size)
  BY DEF FrontGap, Need, SizeOf
<1>2. MinorsOf(m)' = MinorsOf(m)
  BY DEF MinorsOf, Live
<1>3. \A h : GapAfter(m, h)' = GapAfter(m, h)
  BY DEF GapAfter, EndOf, EndOfMinor
<1> QED BY <1>1, <1>2, <1>3 DEF TooSmall

(* The search hops to the next major, past one that is too small, or       *)
(* starts over from the root.                                              *)
LEMMA SearchMoves ==
  ASSUME HeapInv, SearchInv, UNCHANGED <<majors, minors>>, NEW m \in DOMAIN majors,
         m = call.maj, call.pc \in {"major", "full"}, TooSmall(m),
         call'.req_size = call.req_size, call'.pc = "major",
         \/ /\ call'.maj = majors[m].next /\ majors[m].next # NULL
            /\ call'.startedBet = call.startedBet
         \/ call'.maj = l_memRoot
  PROVE  SearchInv'
<1> SUFFICES ASSUME ~call'.startedBet, NEW x \in DOMAIN majors, x < call'.maj
             PROVE  TooSmall(x)'
  BY DEF SearchInv
<1>1. /\ x \in Nat /\ 0 < x /\ m \in Nat
      /\ IsAbove(DOMAIN majors, m, majors[m].next) /\ IsAbove(DOMAIN majors, 0, l_memRoot)
  BY DEF HeapInv, HeapTypes, MajorsListed
<1>2. l_memRoot \in Nat /\ majors[m].next \in Nat
  BY <1>1 DEF HeapInv, HeapTypes, IsAbove, NULL
<1>3. TooSmall(x)
  <2>1. CASE call'.maj = l_memRoot
    BY <1>1, <1>2, <2>1 DEF IsAbove
  <2>2. CASE /\ call'.maj = majors[m].next /\ majors[m].next # NULL
             /\ call'.startedBet = call.startedBet
    <3>1. ~(m < x)
      BY <1>1, <1>2, <2>2 DEF IsAbove
    <3>2. x = m \/ x < call.maj
      BY <1>1, <3>1
    <3> QED BY <2>2, <3>2 DEF SearchInv
  <2> QED BY <2>1, <2>2
<1> QED BY <1>3, StillTooSmall

LEMMA StartSearches ==
  ASSUME HeapInv, StartSearch
  PROVE  SearchInv'
<1>1. PICK best, bet, m :
        /\ bet = (l_bestBet # NULL /\ best > Need(call.req_size))
        /\ m = IF bet THEN l_bestBet ELSE l_memRoot
        /\ call' = [call EXCEPT !.pc = "major", !.startedBet = bet, !.maj = m,
                                !.bestSize = best]
  BY DEF StartSearch
<1>2. call'.pc = "major" /\ call'.startedBet = bet /\ call'.maj = m
  BY <1>1 DEF HeapInv, HeapTypes, Calls
<1>3. majors' = majors /\ IsAbove(DOMAIN majors, 0, l_memRoot)
      /\ \A x \in DOMAIN majors : x \in Nat /\ 0 < x
  BY DEF StartSearch, HeapInv, HeapTypes, MajorsListed
<1>4. ~bet => \A x \in DOMAIN majors : ~(x < call'.maj)
  <2>1. l_memRoot # NULL => l_memRoot \in Nat
    BY <1>3 DEF IsAbove
  <2> QED BY <1>1, <1>2, <1>3, <2>1 DEF IsAbove, NULL
<1> QED BY <1>2, <1>3, <1>4 DEF SearchInv

LEMMA Case1Searches ==
  ASSUME HeapInv, CountsInv, SearchInv, Case1Move
  PROVE  SearchInv'
<1>1. /\ call.pc = "major" /\ call.maj \in DOMAIN majors /\ Short /\ call \in Calls
      /\ UNCHANGED <<majors, minors>>
  BY DEF Case1Move, HeapInv, HeapTypes, CallInv
<1>2. TooSmall(call.maj)
  <2>1. majors[call.maj].first # NULL
    BY <1>1, NoneEmptyWhen DEF NoneEmpty
  <2> QED BY <1>1, <2>1, ShortIsTooSmall DEF Short
<1>3. PICK b, n : b = BestSize /\ n = majors[call.maj].next
  OBVIOUS
<1>4. \/ n # NULL /\ call' = [call EXCEPT !.maj = n, !.bestSize = b]
      \/ call' = [call EXCEPT !.pc = "major", !.maj = l_memRoot, !.startedBet = FALSE,
                              !.bestSize = b]
  <2>1. \/ n # NULL /\ call' = [call EXCEPT !.maj = n, !.bestSize = b]
        \/ call' = [Restarted EXCEPT !.bestSize = b]
    BY <1>3 DEF Case1Move
  <2>2. [Restarted EXCEPT !.bestSize = b]
          = [call EXCEPT !.pc = "major", !.maj = l_memRoot, !.startedBet = FALSE,
                         !.bestSize = b]
    BY <1>1 DEF Restarted, Calls
  <2> QED BY <2>1, <2>2
<1>5. /\ call'.req_size = call.req_size /\ call'.pc = "major"
      /\ \/ call'.maj = n /\ n # NULL /\ call'.startedBet = call.startedBet
         \/ call'.maj = l_memRoot
  BY <1>1, <1>4 DEF Calls
<1> QED BY <1>1, <1>2, <1>3, <1>5, SearchMoves

LEMMA Case5Searches ==
  ASSUME HeapInv, SearchInv, Case5Move
  PROVE  SearchInv'
<1>1. /\ call.pc = "full" /\ call.maj \in DOMAIN majors /\ call \in Calls
      /\ TooSmall(call.maj) /\ UNCHANGED <<majors, minors>>
  BY DEF Case5Move, HeapInv, HeapTypes, CallInv, SearchInv
<1>2. PICK n : n = majors[call.maj].next
  OBVIOUS
<1>3. \/ n # NULL /\ call' = [call EXCEPT !.pc = "major", !.maj = n]
      \/ call' = Restarted
  BY <1>2 DEF Case5Move
<1>4. /\ call'.req_size = call.req_size /\ call'.pc = "major"
      /\ \/ call'.maj = n /\ n # NULL /\ call'.startedBet = call.startedBet
         \/ call'.maj = l_memRoot
  BY <1>1, <1>3 DEF Calls, Restarted
<1> QED BY <1>1, <1>2, <1>4, SearchMoves

(* The search enters a major, or goes on to the next gap in it. *)
LEMMA Case4Searches ==
  ASSUME HeapInv, SearchInv, Case4Enter \/ Case4Next
  PROVE  SearchInv'
<1>1. PICK m, l : m = call.maj /\ l = call.min
  OBVIOUS
<1>2. /\ m \in DOMAIN majors /\ call \in Calls /\ UNCHANGED <<majors, minors>>
      /\ call.pc \in {"major", "minor"}
  BY <1>1 DEF Case4Enter, Case4Next, InUse, HeapInv, HeapTypes, CallInv
<1>3. PICK pc, n, b : /\ pc = call'.pc /\ n = call'.min /\ b = call'.bestSize
  OBVIOUS
<1>4. /\ call'.maj = m /\ call'.startedBet = call.startedBet /\ call'.req_size = call.req_size
  <2>1. CASE Case4Enter
    BY <1>1, <1>2, <2>1 DEF Case4Enter, Calls
  <2>2. CASE Case4Next
    BY <1>1, <1>2, <2>2 DEF Case4Next, Calls
  <2> QED BY <2>1, <2>2
<1>5. /\ \A h \in MinorsOf(m) : h \in Nat /\ 0 < h
      /\ IsAbove(MinorsOf(m), 0, majors[m].first)
      /\ \A h \in MinorsOf(m) : IsAbove(MinorsOf(m), h, minors[h].next)
  <2>1. \A h \in MinorsOf(m) : h \in Nat /\ 0 < h
    BY MinorFacts DEF MinorsOf, Live
  <2> QED BY <1>2, <2>1 DEF HeapInv, BlocksIn, BlocksListed
<1>6. \/ /\ pc = "minor" /\ n \in MinorsOf(m) /\ FrontGap(m) < Need(call.req_size)
         /\ \A h \in MinorsOf(m) : h < n => GapAfter(m, h) < Need(call.req_size)
      \/ pc = "full" /\ TooSmall(m)
  <2>1. CASE Case4Enter
    <3>1. /\ FrontGap(m) < Need(call.req_size) /\ majors[m].first # NULL
          /\ pc = "minor" /\ n = majors[m].first
      BY <1>1, <1>2, <1>3, <2>1 DEF Case4Enter, InUse, Calls
    <3>2. n \in MinorsOf(m) /\ \A h \in MinorsOf(m) : ~(h < n)
      BY <1>5, <3>1 DEF IsAbove
    <3> QED BY <3>1, <3>2
  <2>2. CASE Case4Next
    <3>1. /\ call.pc = "minor" /\ l \in MinorsOf(m)
          /\ GapAfter(m, l) < Need(call.req_size) /\ FrontGap(m) < Need(call.req_size)
          /\ \A h \in MinorsOf(m) : h < l => GapAfter(m, h) < Need(call.req_size)
      BY <1>1, <2>2 DEF Case4Next, HeapInv, CallInv, SearchInv
    <3>2. /\ n = minors[l].next /\ pc = IF n = NULL THEN "full" ELSE "minor"
      BY <1>1, <1>2, <1>3, <2>2 DEF Case4Next, Calls
    <3>3. IsAbove(MinorsOf(m), l, n)
      BY <1>5, <3>1, <3>2
    <3>4. CASE n = NULL
      <4>1. ASSUME NEW h \in MinorsOf(m) PROVE h = l \/ h < l
        BY <1>5, <3>1, <3>3, <3>4 DEF IsAbove
      <4> QED BY <3>1, <3>2, <3>4, <4>1 DEF TooSmall
    <3>5. CASE n # NULL
      <4>1. n \in MinorsOf(m)
        BY <3>3, <3>5 DEF IsAbove
      <4>2. ASSUME NEW h \in MinorsOf(m), h < n PROVE h = l \/ h < l
        BY <1>5, <3>1, <3>3, <4>1, <4>2 DEF IsAbove
      <4> QED BY <3>1, <3>2, <3>5, <4>1, <4>2
    <3> QED BY <3>4, <3>5
  <2> QED BY <2>1, <2>2
<1>7. \A x : /\ TooSmall(x)' = TooSmall(x) /\ FrontGap(x)' = FrontGap(x)
             /\ MinorsOf(x)' = MinorsOf(x)
             /\ \A h : GapAfter(x, h)' = GapAfter(x, h)
             /\ Need(call.req_size)' = Need(call.req_size)
  BY <1>2, <1>4, StillTooSmall
<1>8. ~call'.startedBet => \A x \in DOMAIN majors : x < m => TooSmall(x)
  BY <1>1, <1>2, <1>4 DEF SearchInv
<1>9. pc = "minor" => /\ FrontGap(m)' < Need(call.req_size)'
                      /\ \A h \in MinorsOf(m)' :
                           h < n => GapAfter(m, h)' < Need(call.req_size)'
  BY <1>6, <1>7
<1>10. pc = "full" => TooSmall(m)'
  BY <1>6, <1>7
<1> QED BY <1>2, <1>3, <1>4, <1>7, <1>8, <1>9, <1>10 DEF SearchInv

(* At the end of the list there is nothing ahead of the search. *)
LEMMA NothingAhead ==
  ASSUME HeapInv, SearchInv, call.pc \in {"major", "full"}, TooSmall(call.maj),
         majors[call.maj].next = NULL, ~call.startedBet
  PROVE  \A m \in DOMAIN majors : TooSmall(m)
<1>1. /\ call.maj \in DOMAIN majors /\ IsAbove(DOMAIN majors, call.maj, NULL)
      /\ \A m \in DOMAIN majors : m \in Nat
  BY DEF HeapInv, HeapTypes, CallInv, MajorsListed
<1>2. ASSUME NEW m \in DOMAIN majors PROVE m = call.maj \/ m < call.maj
  BY <1>1 DEF IsAbove
<1> QED BY <1>2 DEF SearchInv

(* Once malloc has its result it no longer searches. *)
LEMMA ReturnEnds ==
  ASSUME NEW h, Return(h) \/ call' = Hung
  PROVE  call'.pc \in {"idle", "copy", "halted"}
<1>1. PICK o : o = call.old
  OBVIOUS
<1>2. [Idle EXCEPT !.pc = "copy", !.old = o, !.new = h].pc = "copy"
  BY DEF Idle
<1>3. Idle.pc = "idle" /\ Hung.pc = "halted"
  BY DEF Idle, Hung
<1> QED BY <1>1, <1>2, <1>3 DEF Return

LEMMA Case5GrowSearches ==
  ASSUME HeapInv, SearchInv, Case5Grow
  PROVE  SearchInv'
<1>1. CASE GrowthFails
  <2>1. call'.pc \in {"idle", "copy", "halted"}
    BY <1>1, ReturnEnds DEF GrowthFails
  <2> QED BY <2>1, NotSearching
<1>2. CASE /\ allocate_new_page(call.req_size)
           /\ majors' = Linked(call.maj, call.req_size)
           /\ call' = [call EXCEPT !.pc = "major", !.maj = NewAddress]
           /\ UNCHANGED minors
  <2>1. PICK m, a, req : m = call.maj /\ a = NewAddress /\ req = call.req_size
    OBVIOUS
  <2>2. /\ call.pc = "full" /\ call.pc \in Searching /\ m \in DOMAIN majors
        /\ majors[m].next = NULL /\ req \in Requests /\ NoneEmpty /\ ~call.startedBet
    BY <2>1, NoneEmptyWhen DEF Case5Grow, MayRestart, Searching, HeapInv, CallInv
  <2>3. PICK mj : mj = Linked(m, req)
    OBVIOUS
  <2>4. liballoc_alloc(PagesFor(call.req_size)) /\ ~OutOfMemory /\ ~Unmapped /\ majors' = mj
    BY <1>2, <2>1, <2>3 DEF allocate_new_page
  <2>5. NewAddress \in Nat /\ 0 < NewAddress /\ \A x \in DOMAIN majors : x < NewAddress
    BY <2>2, <2>4, NewAddressAbove
  <2>6. DOMAIN mj = DOMAIN majors \cup {NewAddress}
    BY <2>2, <2>3, <2>5, LinkedMajor
  <2>7. \A x \in DOMAIN majors : mj[x].size = majors[x].size /\ mj[x].first = majors[x].first
    BY <2>2, <2>3, <2>5, LinkedMajor
  <2>8. /\ call'.pc = "major" /\ call'.maj = a /\ call'.req_size = call.req_size
    BY <1>2, <2>1 DEF HeapInv, HeapTypes, Calls
  <2>9. \A x \in DOMAIN majors : TooSmall(x)
    BY <2>1, <2>2, NothingAhead DEF SearchInv
  <2>10. \A x \in DOMAIN majors : TooSmall(x)'
    BY <1>2, <2>4, <2>7, <2>8, <2>9, StillTooSmall
  <2>11. ASSUME NEW x \in DOMAIN majors', x < a PROVE TooSmall(x)'
    BY <2>1, <2>4, <2>5, <2>6, <2>10, <2>11
  <2> QED BY <2>8, <2>11 DEF SearchInv
<1> QED BY <1>1, <1>2 DEF Case5Grow

LEMMA SearchInvStep ==
  ASSUME HeapInv, CountsInv, SearchInv, [HeapNext]_vars
  PROVE  SearchInv'
<1>1. CASE UNCHANGED <<majors, minors, call>>
  <2>1. PICK m : m = call.maj
    OBVIOUS
  <2>2. \A x : /\ TooSmall(x)' = TooSmall(x) /\ FrontGap(x)' = FrontGap(x)
               /\ MinorsOf(x)' = MinorsOf(x)
               /\ \A h : GapAfter(x, h)' = GapAfter(x, h)
               /\ Need(call.req_size)' = Need(call.req_size)
    BY <1>1, StillTooSmall
  <2>3. (call.pc = "minor" => /\ FrontGap(m) < Need(call.req_size)
                              /\ \A h \in MinorsOf(m) :
                                   h < call.min => GapAfter(m, h) < Need(call.req_size))'
    BY <1>1, <2>1, <2>2 DEF SearchInv
  <2>4. call'.pc = "full" => TooSmall(m)'
    BY <1>1, <2>1, <2>2 DEF SearchInv
  <2>5. call'.pc \in {"major", "minor", "full"} /\ ~call'.startedBet =>
          \A x \in DOMAIN majors' : x < m => TooSmall(x)'
    BY <1>1, <2>1, <2>2 DEF SearchInv
  <2> QED BY <1>1, <2>1, <2>3, <2>4, <2>5 DEF SearchInv
<1>2. CASE UNCHANGED vars \/ Boot
  BY <1>1, <1>2 DEF vars, heapVars, Boot
<1>3. CASE \/ \E req : CallMalloc(req)
           \/ \E h : CallFree(h) \/ \E req : CallRealloc(h, req)
  BY <1>3, NotSearching DEF CallMalloc, CallFree, CallRealloc, Begin, Idle
<1>4. CASE kfree
  BY <1>4, NotSearching DEF kfree, BadPointer, Idle, Hung
<1>5. CASE krealloc
  <2>1. call'.pc \in {"idle", "halted", "start"}
    BY <1>5 DEF krealloc, BadPointer, Idle, Hung, HeapInv, HeapTypes, Calls
  <2> QED BY <2>1, NotSearching
<1>6. CASE CopyAndFree
  BY <1>6, NotSearching DEF CopyAndFree, Idle
<1>7. CASE FirstUse
  <2>1. call'.pc \in {"start", "idle", "copy", "halted"}
    BY <1>7, ReturnEnds DEF FirstUse, GrowthFails
  <2> QED BY <2>1, NotSearching
<1>8. CASE Case1Grow \/ Case2 \/ Case3 \/ Case4Fit
  <2>1. call'.pc \in {"idle", "copy", "halted"}
    BY <1>8, ReturnEnds
       DEF Case1Grow, GrowthFails, Case2, Case3, Case4Fit, PlaceBetween, Place
  <2> QED BY <2>1, NotSearching
<1> QED
  BY <1>2, <1>3, <1>4, <1>5, <1>6, <1>7, <1>8, StartSearches, Case1Searches,
     Case4Searches, Case5Searches, Case5GrowSearches
     DEF HeapNext, CallStep

(* malloc asks for pages at the end of a search that began at the root or  *)
(* started over, or when there are no majors.                              *)
LEMMA GrowsWhenFull ==
  ASSUME HeapInv, CountsInv, SearchInv, HeapNext, current_page' # current_page,
         NEW m \in DOMAIN majors
  PROVE  majors[m].first # NULL /\ TooSmall(m)
<1>1. CASE Boot
  BY <1>1 DEF Boot, initalize_memory, HeapInv, MajorsPlaced
<1>2. CASE FirstUse
  BY <1>2, RootFacts DEF FirstUse
<1>3. CASE Case1Grow
  <2>1. /\ call.pc = "major" /\ call.maj \in DOMAIN majors /\ Short /\ ~call.startedBet
        /\ majors[call.maj].next = NULL
    BY <1>3 DEF Case1Grow, MayRestart, HeapInv, CallInv
  <2>2. NoneEmpty
    BY <2>1, NoneEmptyWhen
  <2>3. TooSmall(call.maj)
    BY <2>1, <2>2, ShortIsTooSmall DEF NoneEmpty, Short
  <2> QED BY <2>1, <2>2, <2>3, NothingAhead DEF NoneEmpty
<1>4. CASE Case5Grow
  <2>1. /\ call.pc = "full" /\ ~call.startedBet /\ majors[call.maj].next = NULL
    BY <1>4 DEF Case5Grow, MayRestart
  <2>2. NoneEmpty
    BY <2>1, NoneEmptyWhen
  <2> QED BY <2>1, <2>2, NothingAhead DEF NoneEmpty, SearchInv
<1>5. CASE \/ (\E c : Begin(c)) \/ StartSearch \/ Case1Move \/ Case2 \/ Case3
           \/ Case4Enter \/ Case4Fit \/ Case4Next \/ Case5Move
  BY <1>5
     DEF Begin, StartSearch, Case1Move, Case2, Case3, Case4Enter, Case4Fit,
         Case4Next, Case5Move, pagingVars
<1>6. ASSUME NEW h, FreeBlock(h) PROVE FALSE
  BY <1>6 DEF FreeBlock, DropMajor, KeepMajor, liballoc_free, pagingVars
<1>7. CASE kfree \/ krealloc \/ CopyAndFree
  BY <1>6, <1>7 DEF kfree, krealloc, CopyAndFree, BadPointer, pagingVars
<1> QED
  BY <1>1, <1>2, <1>3, <1>4, <1>5, <1>7
     DEF HeapNext, CallStep, CallMalloc, CallFree, CallRealloc

(* Wherever the search stands, it has seen what lies behind it. *)
THEOREM SearchInvariant == HeapSpec => []SearchInv
<1>1. HeapInit => SearchInv
  BY DEF HeapInit, Idle, SearchInv
<1>2. HeapInv /\ CountsInv /\ SearchInv /\ [HeapNext]_vars => SearchInv'
  BY SearchInvStep
<1> QED BY <1>1, <1>2, HeapInvariant, CountsInvariant, PTL DEF HeapSpec, HeapSafety

(* malloc asks for more pages only when no gap of any major, before or     *)
(* after the best bet, would have held the block.                          *)
THEOREM GrowsOnlyWhenItMust == HeapSpec => GrowsOnlyWhenFull
<1>1. HeapInv /\ CountsInv /\ SearchInv /\ [HeapNext]_vars =>
        [current_page' # current_page =>
           \A m \in DOMAIN majors :
             /\ majors[m].first # NULL
             /\ FrontGap(m) < Need(call.req_size)
             /\ \A h \in MinorsOf(m) : GapAfter(m, h) < Need(call.req_size)]_vars
  BY GrowsWhenFull DEF TooSmall
<1> QED
  BY <1>1, HeapInvariant, CountsInvariant, SearchInvariant, PTL
     DEF HeapSpec, HeapSafety, GrowsOnlyWhenFull
=============================================================================
