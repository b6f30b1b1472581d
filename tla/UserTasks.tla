----------------------------- MODULE UserTasks -----------------------------
(***************************************************************************)
(* The two ring 3 programs of tp_exam/tp.c, at the granularity at which a  *)
(* clock interrupt can separate their memory accesses.                     *)
(*                                                                         *)
(*   task1_function: *counter = 0; then for ever load it, add one, store.  *)
(*   task2_function: for ever put the counter's address in EAX, int $0x80. *)
(*                                                                         *)
(* One register, gpr, stands for the general registers a program keeps     *)
(* live between two accesses; eip names the next instruction by a label,   *)
(* the first label of a program being the name of its function.            *)
(***************************************************************************)
EXTENDS Integers

CONSTANTS
  W,            \* the counter is kept modulo W (2^32 in the code)
  CounterPtr,   \* the address task 2 passes to sys_counter, 0x400000
  Junk          \* register contents a program may not rely on

ASSUME WordAssumption == W \in Nat \ {0}

Word == 0 .. W - 1

ASSUME GprAssumption ==
  CounterPtr \notin Word /\ Junk \notin Word /\ CounterPtr # Junk

Gpr == Word \cup {CounterPtr, Junk}

NoOutput == -1    \* nothing printed yet

Tasks == {0, 1}

Function(t) == IF t = 0 THEN "task1_function" ELSE "task2_function"

Task1Code == {"task1_function", "task1_load", "task1_store"}
Task2Code == {"task2_function", "task2_int"}
UserCode  == Task1Code \cup Task2Code

Code(t) == IF t = 0 THEN Task1Code ELSE Task2Code

Owner(label) == IF label \in Task1Code THEN 0 ELSE 1

\* The registers after an instruction of a program, from those before it.
Zeroed(r)    == [r EXCEPT !.eip = "task1_load"]
Loaded(r, c) == [r EXCEPT !.eip = "task1_store", !.gpr = c]
Stored(r)    == [r EXCEPT !.eip = "task1_load"]
Pointed(r)   == [r EXCEPT !.eip = "task2_int", !.gpr = CounterPtr]
Trapped(r)   == [r EXCEPT !.eip = "task2_function"]

\* (faulty: no wrap)
IncrementedNoWrap(v) == IF v \in Word THEN {v + 1} ELSE Word

\* What task 1 may store: its register plus one, anything if that is junk.
Incremented(v) == IF v \in Word THEN {(v + 1) % W} ELSE Word
=============================================================================
