------------------------------ MODULE MCPaging ------------------------------
(***************************************************************************)
(* Paging on a directory of 16 entries: user page 0, kernel pages 2 and 3, *)
(* heap from page 6.  MaxPage lies past the end of the directory, so the   *)
(* allocator also runs off it.                                             *)
(***************************************************************************)
EXTENDS Paging
=============================================================================
