------------------------------ MODULE MCPaging ------------------------------
(***************************************************************************)
(* Tables of twelve entries, the ten tables in the middle of the kernel's  *)
(* twelve frames, the shared frame right above the tasks' memory.          *)
(***************************************************************************)
EXTENDS Paging
=============================================================================
