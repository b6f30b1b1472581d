------------------------------- MODULE Format -------------------------------
(***************************************************************************)
(* __vsnprintf (kernel/core/print.c), the conversions of printf, panic and *)
(* snprintf: one step for each character of the format.                    *)
(*                                                                         *)
(* The arguments are what va_arg finds on the stack: words of four bytes,  *)
(* a longer value taking two, the low one first.  A byte has ByteBits      *)
(* bits, so that TLC reaches the limits of every integer type.             *)
(***************************************************************************)
EXTENDS Integers, Sequences, SequencesExt

CONSTANTS
  ByteBits,      \* the bits of a byte
  Characters,    \* the characters of a format
  Calls,         \* the calls: sequences of the literals and directives below
  Lens           \* the sizes of the buffer

ASSUME FormatAssumption ==
  /\ ByteBits \in Nat \ {0}
  /\ Lens \subseteq Nat \ {0}

VARIABLES
  format,    \* the characters not read yet
  args,      \* the words not taken yet
  out,       \* the buffer
  interp, lng, size,
  len,       \* its size, less the place for the final 0
  status,    \* "running", "panic" or "done"
  call       \* what the caller asked for (history)

vars == <<format, args, out, interp, lng, size, len, status, call>>
-----------------------------------------------------------------------------
(***************************************************************************)
(* Integers of k bytes, as C has them.                                     *)
(***************************************************************************)
Power(b, k) ==
  LET p[j \in Nat] == IF j = 0 THEN 1 ELSE b * p[j - 1] IN p[k]

Range2(k) == Power(2, k * ByteBits)
Unsigned(n, k) == n % Range2(k)
Signed(n, k) ==
  LET u == Unsigned(n, k)
  IN  IF 2 * u < Range2(k) THEN u ELSE u - Range2(k)

\* The division of C rounds towards zero.
Quotient(n, d) == IF n < 0 THEN -((-n) \div d) ELSE n \div d
Remainder(n, d) == n - d * Quotient(n, d)

\* Characters by their distance from '0'; those below it come from no digit.
DigitChar == <<"'", "(", ")", "*", "+", ",", "-", ".", "/",
               "0", "1", "2", "3", "4", "5", "6", "7", "8", "9",
               "a", "b", "c", "d", "e", "f">>
Digit(d) == DigitChar[10 + d]

\* The digits as the loops leave them in rep, the last first; none for 0.
Reversed(n, base) ==
  LET Rep[v \in Int] ==
        IF v = 0 THEN << >>
        ELSE <<Digit(Remainder(v, base))>> \o Rep[Quotient(v, base)]
  IN  Rep[n]

\* (faulty: the digits come out as they were found)
UdecReversed(n) == IF n = 0 THEN <<"0">> ELSE Reversed(n, 10)

Udec(n) == IF n = 0 THEN <<"0">> ELSE Reverse(Reversed(n, 10))

\* The negation wraps around.
Idec(n) ==
  IF n = 0 THEN <<"0">>
  ELSE IF n < 0 THEN <<"-">> \o Reverse(Reversed(Signed(-n, 8), 10))
  ELSE Reverse(Reversed(n, 10))

\* Without a precision: at least one digit.
Hex(n) == IF n = 0 THEN <<"0">> ELSE Reverse(Reversed(n, 16))

Bin(n, bits) == [i \in 1 .. bits |-> Digit((n \div Power(2, bits - i)) % 2)]
-----------------------------------------------------------------------------
\* What the caller's memory holds: a string at each pointer, a character for
\* each byte.
StringAt(pointer) == IF pointer % 2 = 0 THEN << >> ELSE <<"s", "t", "r">>
CharOf(byte) == IF byte = 0 THEN "NUL" ELSE "c"

Integral == {"d", "i", "u", "x"}
Padding == {"0", "8"}
Known == Integral \cup {"D", "X", "b", "B", "p", "s", "c", "%", "l", "h"} \cup Padding

(***************************************************************************)
(* What a caller writes: characters that stand for themselves, and         *)
(* directives.  The directive takes arg, of which its type keeps the low   *)
(* bytes, from the words that the C calling convention pushes, and stands  *)
(* for a text, defined from the place value of digits, not from loops.     *)
(***************************************************************************)
Literals == [literal : Characters \ {"%"}]

\* The length modifiers and the bytes of the integers they ask for.
Letters == [none |-> << >>, l |-> <<"l">>, ll |-> <<"l", "l">>, h |-> <<"h">>, hh |-> <<"h", "h">>]
Bytes == [none |-> 4, l |-> 4, ll |-> 8, h |-> 2, hh |-> 1]

Directives ==
  [padding : Seq(Padding), modifier : DOMAIN Bytes,
   conversion : Characters \ (Padding \cup {"l", "h"}), arg : Int]

Chars(d) ==
  IF d \in Literals THEN <<d.literal>>
  ELSE <<"%">> \o (d.padding \o (Letters[d.modifier] \o <<d.conversion>>))

ArgBytes(d) ==
  CASE d.conversion \in Integral -> Bytes[d.modifier]
    [] d.conversion \in {"D", "X", "B"} -> 8
    [] d.conversion \in {"b", "p", "s"} -> 4
    [] d.conversion = "c" -> 1
    [] OTHER -> 0

Words(d) ==
  IF d \in Literals \/ ArgBytes(d) = 0 THEN << >>
  ELSE IF ArgBytes(d) = 8 THEN <<Unsigned(d.arg, 4), Unsigned(d.arg \div Range2(4), 4)>>
  ELSE <<Unsigned(d.arg, 4)>>

Places(n, base) ==
  IF n = 0 THEN 1
  ELSE CHOOSE k \in 1 .. n : Power(base, k - 1) <= n /\ n < Power(base, k)

Numeral(n, base) ==
  LET k == Places(n, base)
  IN  [i \in 1 .. k |-> Digit((n \div Power(base, k - i)) % base)]

SignedNumeral(n) == IF n < 0 THEN <<"-">> \o Numeral(-n, 10) ELSE Numeral(n, 10)

ZeroFilled(numeral, width) == [i \in 1 .. width - Len(numeral) |-> "0"] \o numeral

Text(d) ==
  IF d \in Literals THEN <<d.literal>>
  ELSE LET n == Unsigned(d.arg, ArgBytes(d))
       IN  CASE d.conversion \in {"d", "i", "D"} -> SignedNumeral(Signed(d.arg, ArgBytes(d)))
             [] d.conversion = "u" -> Numeral(n, 10)
             [] d.conversion \in {"x", "X"} -> Numeral(n, 16)
             [] d.conversion = "p" -> <<"0", "x">> \o Numeral(n, 16)
             [] d.conversion \in {"b", "B"} -> ZeroFilled(Numeral(n, 2), ArgBytes(d) * ByteBits)
             [] d.conversion = "s" -> StringAt(n)
             [] d.conversion = "c" -> <<CharOf(n)>>
             [] OTHER -> <<"%">>

Unsupported(d) == d \notin Literals /\ d.conversion \notin Known

\* The smallest 64-bit integer has no negation: nothing prints it.
Printable(d) ==
  d \in Directives /\ d.conversion \in {"d", "i", "D"} /\ ArgBytes(d) = 8
    => 2 * Unsigned(d.arg, 8) # Range2(8)

ASSUME CallsAssumption ==
  \A called \in Calls :
    called \in Seq(Literals \cup Directives) /\ \A i \in DOMAIN called : Printable(called[i])

-----------------------------------------------------------------------------
Init ==
  /\ call \in Calls
  /\ \E size0 \in Lens : len = size0 - 1
  /\ format = FlattenSeq([i \in DOMAIN call |-> Chars(call[i])])
  /\ args = FlattenSeq([i \in DOMAIN call |-> Words(call[i])]) \o <<0, 1>>
  /\ out = << >> /\ interp = FALSE /\ lng = FALSE /\ size = 4
  /\ status = "running"

c == Head(format)

\* One turn of the loop.
Read(accepted) ==
  /\ status = "running" /\ format # << >> /\ accepted
  /\ format' = Tail(format)
  /\ UNCHANGED <<len, call>>

\* (faulty: the place of the final 0 is used too)
BufAddFull(text) ==
  out' = SubSeq(out \o text, 1,
                IF Len(out) + Len(text) <= len THEN Len(out) + Len(text) ELSE len + 1)

\* __buf_add, for each character.
BufAdd(text) ==
  out' = SubSeq(out \o text, 1,
                IF Len(out) + Len(text) < len THEN Len(out) + Len(text) ELSE len)

Literal ==
  /\ Read(~interp /\ c # "%")
  /\ BufAdd(<<c>>)
  /\ UNCHANGED <<args, interp, lng, size, status>>

\* (faulty: the size of the conversion before is kept)
PercentKeepsSize ==
  /\ Read(~interp /\ c = "%")
  /\ interp' = TRUE
  /\ UNCHANGED <<args, out, lng, size, status>>

Percent ==
  /\ Read(~interp /\ c = "%")
  /\ interp' = TRUE /\ size' = 4
  /\ UNCHANGED <<args, out, lng, status>>

Long ==
  /\ Read(interp /\ c = "l")
  /\ IF lng THEN size' = 8 /\ UNCHANGED lng ELSE lng' = TRUE /\ UNCHANGED size
  /\ UNCHANGED <<args, out, interp, status>>

Half ==
  /\ Read(interp /\ c = "h")
  /\ size' = size \div 2
  /\ UNCHANGED <<args, out, interp, lng, status>>

\* Padding and precision are ignored.
Pad ==
  /\ Read(interp /\ c \in Padding)
  /\ UNCHANGED <<args, out, interp, lng, size, status>>

\* (faulty: the mark of a first "l" is kept)
ConvertedKeepsLng(text, words) ==
  /\ BufAdd(text)
  /\ args' = SubSeq(args, words + 1, Len(args))
  /\ interp' = FALSE
  /\ UNCHANGED <<lng, size, status>>

\* A conversion puts text in the buffer and takes some words.
Converted(text, words) ==
  /\ BufAdd(text)
  /\ args' = SubSeq(args, words + 1, Len(args))
  /\ interp' = FALSE /\ lng' = FALSE
  /\ UNCHANGED <<size, status>>

Arg32 == args[1]
Arg64 == args[1] + Range2(4) * args[2]

ConvertString == Read(interp /\ c = "s") /\ Converted(StringAt(Arg32), 1)

ConvertChar ==
  Read(interp /\ c = "c") /\ Converted(<<CharOf(Unsigned(Arg32, 1))>>, 1)

ConvertBin ==
  \/ Read(interp /\ c = "b") /\ Converted(Bin(Arg32, 4 * ByteBits), 1)
  \/ Read(interp /\ c = "B") /\ Converted(Bin(Arg64, 8 * ByteBits), 2)

\* The integer types of the length modifiers; 1 stands for all that is shorter.
Sized == IF size >= 8 THEN 8 ELSE IF size \in {2, 4} THEN size ELSE 1

ConvertSigned ==
  /\ Read(interp /\ c \in {"d", "i"})
  /\ IF Sized = 8 THEN Converted(Idec(Signed(Arg64, 8)), 2)
                  ELSE Converted(Idec(Signed(Arg32, Sized)), 1)

ConvertUnsigned ==
  /\ Read(interp /\ c \in {"u", "x"})
  /\ LET Shown(n) == IF c = "u" THEN Udec(n) ELSE Hex(n)
     IN  IF Sized = 8 THEN Converted(Shown(Arg64), 2)
                      ELSE Converted(Shown(Unsigned(Arg32, Sized)), 1)

\* D and X take 64 bits, whatever the modifiers.
ConvertLong ==
  \/ Read(interp /\ c = "D") /\ Converted(Idec(Signed(Arg64, 8)), 2)
  \/ Read(interp /\ c = "X") /\ Converted(Hex(Arg64), 2)

ConvertPointer ==
  Read(interp /\ c = "p") /\ Converted(<<"0", "x">> \o Hex(Arg32), 1)

ConvertPercent == Read(interp /\ c = "%") /\ Converted(<<"%">>, 0)

\* panic, which does not return.
UnsupportedChar ==
  /\ Read(interp /\ c \notin Known)
  /\ status' = "panic"
  /\ UNCHANGED <<args, out, interp, lng, size>>

End ==
  /\ status = "running" /\ format = << >>
  /\ out' = Append(out, "NUL")
  /\ status' = "done"
  /\ UNCHANGED <<format, args, interp, lng, size, len, call>>

Next == \/ Literal \/ Percent \/ Long \/ Half \/ Pad
        \/ ConvertString \/ ConvertChar \/ ConvertBin \/ ConvertSigned
        \/ ConvertUnsigned \/ ConvertLong \/ ConvertPointer \/ ConvertPercent
        \/ UnsupportedChar \/ End

Spec == Init /\ [][Next]_vars
-----------------------------------------------------------------------------
(***************************************************************************)
(* Properties.                                                             *)
(***************************************************************************)

\* Every variable holds a value of its type.
TypeOK ==
  /\ interp \in BOOLEAN /\ lng \in BOOLEAN /\ size \in {0, 1, 2, 4, 8}
  /\ status \in {"running", "panic", "done"}
  /\ \A i \in DOMAIN args : args[i] \in 0 .. Range2(4) - 1
  /\ Len(out) <= len + 1

AllText == FlattenSeq([i \in DOMAIN call |-> Text(call[i])])

\* The buffer holds the text of the call, cut to its length, and a final 0: a
\* supported directive, whatever came before it, is read to its end, and only an
\* unsupported conversion panics.
Correct ==
  /\ status = "done" =>
       /\ out = Append(SubSeq(AllText, 1, IF Len(AllText) < len THEN Len(AllText) ELSE len), "NUL")
       /\ \A i \in DOMAIN call : ~Unsupported(call[i])
  /\ status = "panic" => \E i \in DOMAIN call : Unsupported(call[i])

\* Each conversion takes its own argument: after the last one, what is left is
\* what was on the stack before the call.
ArgumentsTaken == status = "done" => args = <<0, 1>>

=============================================================================
