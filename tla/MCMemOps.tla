------------------------------ MODULE MCMemOps ------------------------------
(***************************************************************************)
(* Eight bytes: up to two words and three bytes more, and every overlap.   *)
(***************************************************************************)
EXTENDS MemOps

MCByte == 0 .. 2

\* Bytes that differ from their neighbours, with one 0, two, or none.
MCMemories == {[a \in 0 .. Space - 1 |-> 1 + (a % 2)],
               [a \in 0 .. Space - 1 |-> a % 3],
               [a \in 0 .. Space - 1 |-> IF a = 5 THEN 0 ELSE 2 - (a % 2)]}
=============================================================================
