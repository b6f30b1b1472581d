------------------------------ MODULE MCFormat ------------------------------
(***************************************************************************)
(* Bytes of two bits: a char is in -2 .. 1, an int in -128 .. 127, a long  *)
(* long in -32768 .. 32767.                                                *)
(***************************************************************************)
EXTENDS Format

\* "z" is a conversion that print.c does not know.
MCCharacters == Known \cup {"z"}

Ints == {-128, -9, -1, 0, 1, 2, 10, 127}
Longs == {-32767, -129, -1, 0, 10, 256, 32767}

Item(padding, m, conversion, n) ==
  [padding |-> padding, modifier |-> m, conversion |-> conversion, arg |-> n]

IntegerDirectives ==
  UNION {{Item(<< >>, m, conversion, n) : n \in IF Bytes[m] = 8 THEN Longs ELSE Ints} :
         m \in DOMAIN Bytes, conversion \in {"d", "u", "x"}}

OtherDirectives ==
       {Item(<< >>, "none", "i", n) : n \in Ints}
  \cup {Item(<< >>, "none", conversion, n) : conversion \in {"D", "X", "B"}, n \in Longs}
  \cup {Item(<<"0", "8">>, "none", "x", n) : n \in {0, 127}}
  \cup {Item(<< >>, "none", "b", n) : n \in {-1, 0, 10}}
  \cup {Item(<< >>, "none", "p", n) : n \in {0, 255}}
  \cup {Item(<< >>, "none", "s", n) : n \in {0, 1}}
  \cup {Item(<< >>, "none", "c", n) : n \in {4, 5}}
  \cup {Item(<< >>, "none", conversion, 0) : conversion \in {"%", "z"}}
  \cup {[literal |-> "x"]}

\* What follows the first directive.
Followers ==
  {Item(<< >>, "l", "d", 10), Item(<< >>, "ll", "d", -129), Item(<< >>, "none", "i", -128),
   Item(<< >>, "h", "x", 127), Item(<< >>, "none", "s", 1), [literal |-> "z"]}

MCCalls == {<<d, f>> : d \in IntegerDirectives \cup OtherDirectives, f \in Followers}

MCLens == {1, 4, 40}
=============================================================================
