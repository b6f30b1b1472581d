---------------------------- MODULE ConsoleLine -----------------------------
(***************************************************************************)
(* What printf promises its callers: the characters of each call, up to    *)
(* the capacity of its buffer, go on the line in order, each once, and a   *)
(* call returns when no more than one of them is still to go.              *)
(***************************************************************************)
EXTENDS Sequences, Integers

CONSTANT Outputs   \* what the calls put on the line

VARIABLES line, pending

Init == line = << >> /\ pending = << >>

Call(text) ==
  /\ Len(pending) <= 1
  /\ pending' = pending \o text
  /\ UNCHANGED line

Emit ==
  /\ pending # << >>
  /\ line' = Append(line, Head(pending))
  /\ pending' = Tail(pending)

Next == Emit \/ \E text \in Outputs : Call(text)

Spec == Init /\ [][Next]_<<line, pending>>
=============================================================================
