------------------------------- MODULE MemOps -------------------------------
(***************************************************************************)
(* memset, memcpy, strchr and strlen (kernel/include/string.h): each sets  *)
(* up the registers of an x86 string instruction, by words and then by     *)
(* bytes, runs it with the direction flag cleared, and restores the flags. *)
(* A step is one repetition of the instruction.                            *)
(*                                                                         *)
(* Addresses are 0 .. Space - 1, and no object of a caller wraps around.   *)
(***************************************************************************)
EXTENDS Integers

CONSTANTS
  Space,       \* the size of memory
  Byte,        \* the values of a byte, 0 among them
  Memories,    \* what memory may hold before the call
  NoResult     \* the null pointer

LongSize == 4    \* sizeof(ulong_t)

ASSUME MemOpsAssumption ==
  /\ Space \in Nat
  /\ 0 \in Byte
  /\ Memories \subseteq [0 .. Space - 1 -> Byte]
  /\ NoResult \notin Int

VARIABLES
  mem,
  df,          \* the direction flag: addresses go down
  edi, esi, ecx,
  dloc, sloc, cnt, rm,     \* the locals of memset and memcpy
  pc,
  call,        \* the arguments
  result,
  before       \* memory and direction flag at the call (history)

vars == <<mem, df, edi, esi, ecx, dloc, sloc, cnt, rm, pc, call, result, before>>
locals == <<dloc, sloc, cnt, rm>>
registers == <<edi, esi, ecx>>

Address == 0 .. Space - 1
Region(from, size) == from .. from + size - 1

Init ==
  /\ mem \in Memories /\ df \in BOOLEAN
  /\ before = [mem |-> mem, df |-> df]
  /\ edi = 0 /\ esi = 0 /\ ecx = 0
  /\ dloc = 0 /\ sloc = 0 /\ cnt = 0 /\ rm = 0
  /\ pc = "call" /\ result = NoResult
  /\ call \in
       [op : {"memset"}, dst : Address, src : {0}, c : Byte, size : 0 .. Space]
       \cup [op : {"memcpy"}, dst : Address, src : Address, c : {0}, size : 0 .. Space]
       \cup [op : {"strchr"}, dst : {0}, src : Address, c : Byte, size : 0 .. Space]
       \cup [op : {"strlen"}, dst : {0}, src : Address, c : {0}, size : {Space}]
  /\ call.dst + call.size <= Space \/ call.op \in {"strchr", "strlen"}
  /\ call.src + call.size <= Space \/ call.op \in {"memset", "strlen"}
  \* strlen is given a string: its end is in memory
  /\ call.op = "strlen" => \E a \in Region(call.src, Space - call.src) : mem[a] = 0

Moves == call.op \in {"memset", "memcpy"}
-----------------------------------------------------------------------------
(***************************************************************************)
(* memset and memcpy.                                                      *)
(***************************************************************************)

\* (faulty: the count is not divided)
DivideNot ==
  /\ pc = "call" /\ Moves
  /\ cnt' = call.size /\ rm' = call.size % LongSize
  /\ dloc' = call.dst /\ sloc' = call.src
  /\ pc' = "long"
  /\ UNCHANGED <<mem, df, registers, call, before, result>>

\* __divrm, unless there is nothing to do.
Divide ==
  /\ pc = "call" /\ Moves
  /\ IF call.size = 0
     THEN pc' = "done" /\ result' = call.dst /\ UNCHANGED locals
     ELSE /\ cnt' = call.size \div LongSize /\ rm' = call.size % LongSize
          /\ dloc' = call.dst /\ sloc' = call.src
          /\ pc' = "long" /\ UNCHANGED result
  /\ UNCHANGED <<mem, df, registers, call, before>>

\* save_flags, cld and the registers of "rep".
StartRep(repeat, count) ==
  /\ df' = FALSE
  /\ edi' = dloc /\ esi' = sloc /\ ecx' = count
  /\ pc' = repeat
  /\ UNCHANGED <<mem, locals, call, result, before>>

Long ==
  /\ pc = "long"
  /\ IF cnt # 0 THEN StartRep("rep_long", cnt)
     ELSE pc' = "byte" /\ UNCHANGED <<mem, df, registers, locals, call, result, before>>

\* What a unit at a stores: the byte, in each place, or what is at ESI.
Stored(a) == IF call.op = "memset" THEN call.c ELSE mem[esi + (a - edi)]

\* One stos or movs.
RepStep(repeat, unit) ==
  /\ pc = repeat /\ ecx # 0
  /\ mem' = [a \in Address |->
               IF a \in Region(edi, unit) THEN Stored(a) ELSE mem[a]]
  /\ edi' = IF df THEN edi - unit ELSE edi + unit
  /\ esi' = IF df THEN esi - unit ELSE esi + unit
  /\ ecx' = ecx - 1
  /\ UNCHANGED <<df, locals, pc, call, result, before>>

\* (faulty: the bytes begin where the words did)
EndLongNoAdd ==
  /\ pc = "rep_long" /\ ecx = 0
  /\ df' = before.df
  /\ pc' = "byte"
  /\ UNCHANGED <<mem, registers, locals, call, result, before>>

\* load_flags; the bytes are after the words.
EndLong ==
  /\ pc = "rep_long" /\ ecx = 0
  /\ df' = before.df
  /\ dloc' = dloc + cnt * LongSize /\ sloc' = sloc + cnt * LongSize
  /\ pc' = "byte"
  /\ UNCHANGED <<mem, registers, cnt, rm, call, result, before>>

\* (faulty: as many bytes as there were words)
BytesCount ==
  /\ pc = "byte"
  /\ IF rm # 0 THEN StartRep("rep_byte", cnt)
     ELSE /\ pc' = "done" /\ result' = call.dst
          /\ UNCHANGED <<mem, df, registers, locals, call, before>>

Bytes ==
  /\ pc = "byte"
  /\ IF rm # 0 THEN StartRep("rep_byte", rm)
     ELSE /\ pc' = "done" /\ result' = call.dst
          /\ UNCHANGED <<mem, df, registers, locals, call, before>>

\* (faulty: the flags are not restored)
EndBytesKeep ==
  /\ pc = "rep_byte" /\ ecx = 0
  /\ pc' = "done" /\ result' = call.dst
  /\ UNCHANGED <<mem, df, registers, locals, call, before>>

EndBytes ==
  /\ pc = "rep_byte" /\ ecx = 0
  /\ df' = before.df
  /\ pc' = "done" /\ result' = call.dst
  /\ UNCHANGED <<mem, registers, locals, call, before>>
-----------------------------------------------------------------------------
(***************************************************************************)
(* strchr and strlen.                                                      *)
(***************************************************************************)

Scan ==
  /\ pc = "call" /\ ~Moves
  /\ df' = FALSE /\ edi' = call.src /\ ecx' = call.size
  /\ pc' = "scan"
  /\ UNCHANGED <<mem, esi, locals, call, result, before>>

\* (faulty: repz, which goes on while the bytes are equal)
ScanStepRepz ==
  /\ pc = "scan" /\ ecx # 0
  /\ edi' = edi + 1 /\ ecx' = ecx - 1
  /\ pc' = IF mem[edi] # call.c THEN "found" ELSE "scan"
  /\ UNCHANGED <<mem, df, esi, locals, call, result, before>>

\* One scas; repnz ends when ECX is 0 or the byte is found.
ScanStep ==
  /\ pc = "scan" /\ ecx # 0
  /\ edi' = edi + 1 /\ ecx' = ecx - 1
  /\ pc' = IF mem[edi] = call.c THEN "found" ELSE "scan"
  /\ UNCHANGED <<mem, df, esi, locals, call, result, before>>

\* strchr knows from ECX alone whether it found anything.
Strchr ==
  /\ call.op = "strchr"
  /\ pc = "found" \/ (pc = "scan" /\ ecx = 0)
  /\ result' = IF ecx = 0 THEN NoResult ELSE edi - 1
  /\ df' = before.df /\ pc' = "done"
  /\ UNCHANGED <<mem, registers, locals, call, before>>

Strlen ==
  /\ call.op = "strlen" /\ pc = "found"
  /\ result' = edi - 1 - call.src
  /\ df' = before.df /\ pc' = "done"
  /\ UNCHANGED <<mem, registers, locals, call, before>>

Next == \/ Divide \/ Long \/ RepStep("rep_long", LongSize) \/ EndLong
        \/ Bytes \/ RepStep("rep_byte", 1) \/ EndBytes
        \/ Scan \/ ScanStep \/ Strchr \/ Strlen

Spec == Init /\ [][Next]_vars
-----------------------------------------------------------------------------
(***************************************************************************)
(* Properties.                                                             *)
(***************************************************************************)

\* Every variable holds a value of its type: in particular the registers never
\* leave memory by more than one.
TypeOK ==
  /\ mem \in [Address -> Byte] /\ df \in BOOLEAN
  /\ {edi, esi, ecx, dloc, sloc, cnt, rm} \subseteq 0 .. Space
  /\ result \in 0 .. Space \cup {NoResult}
  /\ before \in [mem : [Address -> Byte], df : BOOLEAN]

\* When it returns, memset has written its bytes, all of them and no other.
MemsetExact ==
  pc = "done" /\ call.op = "memset" =>
    mem = [a \in Address |-> IF a \in Region(call.dst, call.size) THEN call.c
                             ELSE before.mem[a]]

\* When it returns, memcpy has written a copy of what was at src, and nothing
\* else, unless dst lies inside the bytes to copy.
MemcpyExact ==
  pc = "done" /\ call.op = "memcpy" /\ call.dst \notin Region(call.src + 1, call.size - 1) =>
    mem = [a \in Address |-> IF a \in Region(call.dst, call.size)
                             THEN before.mem[call.src + (a - call.dst)]
                             ELSE before.mem[a]]

\* The caller's direction flag is back when the function returns.
FlagsKept == pc = "done" => df = before.df

\* strlen counts the bytes before the first 0; what strchr finds is the first
\* such byte, and it finds it unless it is not there, or the last.
ScansFirst ==
  pc = "done" =>
    /\ call.op = "strlen" =>
         /\ mem[call.src + result] = 0
         /\ \A a \in Region(call.src, result) : mem[a] # 0
    /\ call.op = "strchr" =>
         LET last == IF result = NoResult THEN call.src + call.size - 1 ELSE result
         IN  /\ \A a \in call.src .. last - 1 : mem[a] # call.c
             /\ result # NoResult => mem[result] = call.c
=============================================================================
