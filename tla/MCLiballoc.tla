----------------------------- MODULE MCLiballoc -----------------------------
(***************************************************************************)
(* The heap on scaled pages: liballoc pages of 96 bytes, two to a kernel  *)
(* page, and a directory that ends after a few majors, so that calls also  *)
(* meet the end of memory.                                                 *)
(***************************************************************************)
EXTENDS Liballoc
=============================================================================
