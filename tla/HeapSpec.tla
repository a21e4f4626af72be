------------------------------ MODULE HeapSpec ------------------------------
(***************************************************************************)
(* What the kernel's heap promises its callers, one call at a time.        *)
(* malloc returns memory of the size asked for that no other live block    *)
(* touches, at an aligned address, or NULL; free takes away the block      *)
(* whose pointer it is given, and that one only, or nothing when it is     *)
(* given a pointer to no live block; realloc shortens the block it is      *)
(* given where it is, or gives it up once it has asked malloc for a        *)
(* longer one.  Nothing is promised about where blocks lie or when memory  *)
(* runs out.                                                               *)
(***************************************************************************)
EXTENDS Integers

CONSTANTS Sizes,     \* the sizes callers ask for
          Alignment  \* what every returned address is a multiple of

VARIABLES
  blocks,  \* the live blocks: [ptr, len]
  request  \* the call in progress and its arguments: [op, ptr, size]

vars == <<blocks, request>>

Bytes(b) == b.ptr .. b.ptr + b.len - 1

(* Even blocks of no bytes are told apart by their address. *)
Separate(b, c) == b.ptr # c.ptr /\ Bytes(b) \cap Bytes(c) = {}

(* free is told a pointer, malloc a size and realloc both.  move is what   *)
(* realloc asks of malloc; over, the end of the kernel.                    *)
None == [op |-> "none", ptr |-> 0, size |-> 0]
FreeOf(p) == [op |-> "free", ptr |-> p, size |-> 0]

Init == blocks = {} /\ request = None
-----------------------------------------------------------------------------
(* A caller may pass any pointer, and any of the sizes. *)
Call ==
  /\ request = None
  /\ \/ request' = [None EXCEPT !.op = "malloc", !.size = request'.size]
     \/ request' = FreeOf(request'.ptr)
     \/ request' = [None EXCEPT !.op = "realloc", !.ptr = request'.ptr,
                                !.size = request'.size]
  /\ request'.op # "free" => request'.size \in Sizes
  /\ UNCHANGED blocks

(* After malloc the call is over, or realloc gives up the old block: even  *)
(* when malloc returned NULL.                                             *)
Return == request' = IF request.op = "malloc" THEN None ELSE FreeOf(request.ptr)

Malloc ==
  /\ request.op \in {"malloc", "move"}
  /\ \E b \in blocks' \ blocks :
       /\ blocks' = blocks \cup {b}
       /\ b.ptr > 0 /\ b.ptr % Alignment = 0 /\ b.len = request.size
       /\ \A c \in blocks : Separate(b, c)
  /\ Return

NoMemory == request.op \in {"malloc", "move"} /\ Return /\ UNCHANGED blocks

Free ==
  /\ request.op = "free"
  /\ blocks' = {b \in blocks : b.ptr # request.ptr}
  /\ request' = None

Shrink ==
  /\ request.op = "realloc"
  /\ \E b \in blocks :
       /\ b.ptr = request.ptr /\ request.size <= b.len
       /\ blocks' = (blocks \ {b}) \cup {[b EXCEPT !.len = request.size]}
  /\ request' = None

Move ==
  /\ request.op = "realloc"
  /\ \E b \in blocks : b.ptr = request.ptr /\ b.len < request.size
  /\ request' = [request EXCEPT !.op = "move"]
  /\ UNCHANGED blocks

Refuse ==
  /\ request.op = "realloc"
  /\ \A b \in blocks : b.ptr # request.ptr
  /\ request' = None
  /\ UNCHANGED blocks

(* The kernel hangs in its page fault handler or has written over its own  *)
(* headers: it promises nothing from here on.                              *)
Stop ==
  /\ request # None
  /\ request' = [None EXCEPT !.op = "over"]
  /\ UNCHANGED blocks

Next == Call \/ Malloc \/ NoMemory \/ Free \/ Shrink \/ Move \/ Refuse \/ Stop

Spec == Init /\ [][Next]_vars
=============================================================================
