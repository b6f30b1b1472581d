---------------------------- MODULE MemOpsProofs ----------------------------
(***************************************************************************)
(* memset and memcpy are exact, strchr and strlen find the first match,    *)
(* and every function gives back the direction flag, for memories of every *)
(* size and content.                                                       *)
(*                                                                         *)
(* While the string instruction repeats, what has been written is always a *)
(* prefix of what is asked for, and its end is EDI: that is the invariant. *)
(* The bytes still to be read have not been written over, because dst is   *)
(* not among the bytes after src.  A scan has found no match before EDI,   *)
(* and EDI and ECX add up to the size.                                     *)
(***************************************************************************)
EXTENDS MemOps, TLAPS

CallType ==
  /\ call.dst \in Nat /\ call.src \in Nat /\ call.size \in Nat
  /\ call.op \in {"memset", "memcpy", "strchr", "strlen"}
  /\ Moves => call.dst + call.size <= Space
  /\ call.op = "memcpy" => call.src + call.size <= Space

Clean == call.op = "memcpy" => call.dst \notin Region(call.src + 1, call.size - 1)

\* What belongs at a.
Wanted(a) ==
  IF call.op = "memset" THEN call.c ELSE before.mem[call.src + (a - call.dst)]

\* Memory with the bytes from dst to end written.
Filled(end) ==
  [a \in Address |-> IF call.dst <= a /\ a < end THEN Wanted(a) ELSE before.mem[a]]

Divided ==
  /\ cnt \in Nat /\ rm \in 0 .. 3 /\ call.size = 4 * cnt + rm

\* The string instruction has written up to EDI, with left units to go.
Repeating(start, count, unit) ==
  /\ df = FALSE
  /\ dloc = call.dst + start /\ sloc = call.src + start
  /\ ecx \in 0 .. count
  /\ edi = dloc + unit * (count - ecx)
  /\ esi = sloc + unit * (count - ecx)
  /\ Clean => mem = Filled(edi)

Progress ==
  /\ pc \in {"call", "long", "rep_long", "byte", "rep_byte", "scan", "found", "done"}
  /\ pc \in {"long", "rep_long", "byte", "rep_byte"} => Moves /\ Divided
  /\ pc \in {"scan", "found"} => ~Moves
  /\ pc \in {"call", "long"} => mem = before.mem /\ df = before.df
  /\ pc = "long" => dloc = call.dst /\ sloc = call.src
  /\ pc = "rep_long" => Repeating(0, cnt, 4)
  /\ pc = "byte" => /\ dloc = call.dst + 4 * cnt /\ sloc = call.src + 4 * cnt
                    /\ df = before.df
                    /\ Clean => mem = Filled(dloc)
  /\ pc = "rep_byte" => Repeating(4 * cnt, rm, 1)
  /\ pc = "done" => /\ df = before.df
                    /\ Moves /\ Clean => mem = Filled(call.dst + call.size)

Inv ==
  /\ before.mem \in [Address -> Byte]
  /\ CallType
  /\ Progress
-----------------------------------------------------------------------------
\* Nothing is written yet at the start.
LEMMA NothingFilled ==
  ASSUME Inv, mem = before.mem
  PROVE  mem = Filled(call.dst)
<1>1. \A a \in Address : (IF call.dst <= a /\ a < call.dst THEN Wanted(a) ELSE before.mem[a])
                         = before.mem[a]
  BY MemOpsAssumption DEF Inv, CallType, Address
<1>2. before.mem = [a \in Address |-> before.mem[a]]
  BY DEF Inv
<1> QED BY <1>1, <1>2 DEF Filled

\* One repetition of the instruction, on unit bytes, adds them to what is
\* written; of a copy, they are still as they were before the call.
LEMMA RepFills ==
  ASSUME Inv, Moves, NEW start \in Nat, NEW count \in Nat, NEW unit \in {1, 4},
         Repeating(start, count, unit), start + unit * count <= call.size,
         NEW repeat, RepStep(repeat, unit)
  PROVE  Repeating(start, count, unit)'
<1>1. /\ ecx \in 1 .. count /\ ecx' = ecx - 1
      /\ df = FALSE /\ df' = FALSE
      /\ dloc' = dloc /\ sloc' = sloc /\ call' = call /\ before' = before
  BY DEF Repeating, RepStep, locals
<1>2. /\ edi' = edi + unit /\ esi' = esi + unit
      /\ mem' = [a \in Address |-> IF a \in Region(edi, unit) THEN Stored(a) ELSE mem[a]]
  BY <1>1 DEF RepStep
<1>3. /\ call.dst \in Nat /\ call.src \in Nat /\ call.size \in Nat
      /\ call.dst + call.size <= Space
      /\ call.op \in {"memset", "memcpy"}
      /\ call.op = "memcpy" => call.src + call.size <= Space
      /\ Space \in Nat
  BY MemOpsAssumption DEF Inv, CallType, Moves
<1>4. /\ dloc = call.dst + start /\ sloc = call.src + start
      /\ edi = dloc + unit * (count - ecx) /\ esi = sloc + unit * (count - ecx)
  BY DEF Repeating
<1>5. /\ edi' = dloc' + unit * (count - ecx') /\ esi' = sloc' + unit * (count - ecx')
      /\ edi \in Nat /\ call.dst <= edi /\ edi + unit <= call.dst + call.size
      /\ esi = edi - call.dst + call.src
      /\ ecx' \in 0 .. count
  <2>1. CASE unit = 1
    BY <1>1, <1>2, <1>3, <1>4, <2>1
  <2>2. CASE unit = 4
    BY <1>1, <1>2, <1>3, <1>4, <2>2
  <2> QED BY <2>1, <2>2
<1>6. ASSUME Clean PROVE mem' = Filled(edi)'
  <2>1. mem = Filled(edi)
    BY <1>6 DEF Repeating
  <2>2. ASSUME NEW a \in Address
        PROVE  (IF a \in Region(edi, unit) THEN Stored(a) ELSE mem[a])
               = IF call.dst <= a /\ a < edi + unit THEN Wanted(a) ELSE before.mem[a]
    <3>0. a \in Nat /\ a < Space
      BY <1>3 DEF Address
    <3>1. CASE a \in Region(edi, unit)
      <4>1. edi <= a /\ a < edi + unit
        BY <3>0, <3>1, <1>5 DEF Region
      <4>2. Stored(a) = Wanted(a)
        <5>1. CASE call.op = "memset"
          BY <5>1 DEF Stored, Wanted
        <5>2. CASE call.op = "memcpy"
          <6>1. esi + (a - edi) = call.src + (a - call.dst)
            BY <1>3, <1>5, <3>0
          <6>2. /\ call.src + (a - call.dst) \in Address
                /\ call.src <= call.src + (a - call.dst)
                /\ call.src + (a - call.dst) < call.src + call.size
            BY <5>2, <1>3, <1>5, <3>0, <4>1 DEF Address
          <6>3. ~(call.dst <= call.src + (a - call.dst) /\ call.src + (a - call.dst) < edi)
            <7>1. ~(call.src + 1 <= call.dst /\ call.dst < call.src + call.size)
              BY <5>2, <1>6, <1>3 DEF Clean, Region
            <7> QED BY <7>1, <1>3, <1>5, <3>0, <4>1, <6>2
          <6>4. mem[call.src + (a - call.dst)] = before.mem[call.src + (a - call.dst)]
            BY <2>1, <6>2, <6>3 DEF Filled
          <6> QED BY <5>2, <6>1, <6>4 DEF Stored, Wanted
        <5> QED BY <5>1, <5>2, <1>3
      <4>3. call.dst <= a
        BY <4>1, <1>3, <1>5, <3>0
      <4> QED BY <3>1, <4>1, <4>2, <4>3
    <3>2. CASE a \notin Region(edi, unit)
      <4>1. ~(edi <= a /\ a < edi + unit)
        BY <3>0, <3>2, <1>5 DEF Region
      <4>2. mem[a] = IF call.dst <= a /\ a < edi THEN Wanted(a) ELSE before.mem[a]
        BY <2>1 DEF Filled
      <4>3. (call.dst <= a /\ a < edi) <=> (call.dst <= a /\ a < edi + unit)
        BY <4>1, <3>0, <1>5
      <4> QED BY <3>2, <4>2, <4>3
    <3> QED BY <3>1, <3>2
  <2>3. Filled(edi)' = [a \in Address |->
                           IF call.dst <= a /\ a < edi + unit THEN Wanted(a) ELSE before.mem[a]]
    BY <1>1, <1>2 DEF Filled, Wanted
  <2> QED BY <2>2, <2>3, <1>2
<1>7. Clean' <=> Clean
  BY <1>1 DEF Clean
<1> QED BY <1>1, <1>4, <1>5, <1>6, <1>7 DEF Repeating

\* Init and every step keep the invariant.
LEMMA InitInv == Init => Inv
<1> SUFFICES ASSUME Init PROVE Inv
  OBVIOUS
<1>1. before.mem \in [Address -> Byte] /\ mem = before.mem /\ df = before.df
  BY MemOpsAssumption DEF Init, Address
<1>2. CallType
  BY MemOpsAssumption DEF Init, CallType, Address, Moves
<1>3. Progress
  BY <1>1 DEF Init, Progress
<1> QED BY <1>1, <1>2, <1>3 DEF Inv

LEMMA StepInv == Inv /\ [Next]_vars => Inv'
<1> SUFFICES ASSUME Inv, [Next]_vars PROVE Inv'
  OBVIOUS
<1>1. /\ call' = call /\ before' = before
  BY DEF Next, vars, Divide, Long, StartRep, RepStep, EndLong, Bytes, EndBytes, Scan,
         ScanStep, Strchr, Strlen
<1>2. CallType' /\ before'.mem \in [Address -> Byte] /\ (Moves' <=> Moves) /\ (Clean' <=> Clean)
  BY <1>1 DEF Inv, CallType, Moves, Clean
<1>3. CASE Divide
  <2>1. pc = "call" /\ Moves /\ mem' = mem /\ df' = df /\ mem = before.mem /\ df = before.df
    BY <1>3 DEF Divide, Inv, Progress
  <2>2. CASE call.size = 0
    <3>1. pc' = "done"
      BY <1>3, <2>2 DEF Divide
    <3>2. mem = Filled(call.dst)
      BY <2>1, NothingFilled
    <3>3. mem' = Filled(call.dst + call.size)'
      <4>1. call.dst + call.size = call.dst
        BY <2>2 DEF Inv, CallType
      <4> QED BY <4>1, <3>2, <2>1, <1>1 DEF Filled, Wanted
    <3> QED BY <1>1, <1>2, <2>1, <3>1, <3>3 DEF Inv, Progress
  <2>3. CASE call.size # 0
    <3>1. pc' = "long" /\ dloc' = call.dst /\ sloc' = call.src
          /\ cnt' = call.size \div 4 /\ rm' = call.size % 4
      BY <1>3, <2>3 DEF Divide, LongSize
    <3>2. call.size \in Nat
      BY DEF Inv, CallType
    <3>3. /\ call.size \div 4 \in Nat /\ call.size % 4 \in 0 .. 3
          /\ call.size = 4 * (call.size \div 4) + (call.size % 4)
      BY <3>2
    <3>4. Divided'
      BY <3>1, <3>3, <1>1 DEF Divided
    <3> QED BY <1>1, <1>2, <2>1, <3>1, <3>4 DEF Inv, Progress
  <2> QED BY <2>2, <2>3
<1>4. CASE Long
  <2>1. /\ pc = "long" /\ Moves /\ Divided /\ mem = before.mem /\ df = before.df
        /\ dloc = call.dst /\ sloc = call.src
    BY <1>4 DEF Long, Inv, Progress
  <2>2. mem = Filled(call.dst)
    BY <2>1, NothingFilled
  <2>3. /\ mem' = mem /\ dloc' = dloc /\ sloc' = sloc /\ cnt' = cnt /\ rm' = rm
    BY <1>4 DEF Long, StartRep, locals
  <2>4. Divided'
    BY <2>1, <2>3, <1>1 DEF Divided
  <2>5. CASE cnt # 0
    <3>1. pc' = "rep_long" /\ df' = FALSE /\ edi' = dloc /\ esi' = sloc /\ ecx' = cnt
      BY <1>4, <2>5 DEF Long, StartRep
    <3>2. Filled(edi)' = Filled(call.dst)
      BY <3>1, <2>1, <1>1 DEF Filled, Wanted
    <3>3. Repeating(0, cnt, 4)'
      BY <3>1, <3>2, <2>1, <2>2, <2>3, <1>1 DEF Repeating, Divided, Inv, CallType
    <3> QED BY <1>1, <1>2, <2>1, <2>4, <3>1, <3>3 DEF Inv, Progress
  <2>6. CASE cnt = 0
    <3>1. pc' = "byte" /\ df' = df
      BY <1>4, <2>6 DEF Long
    <3>2. Filled(dloc)' = Filled(call.dst)
      BY <2>3, <2>1, <1>1 DEF Filled, Wanted
    <3> QED BY <1>1, <1>2, <2>1, <2>2, <2>3, <2>4, <2>6, <3>1, <3>2
            DEF Inv, Progress, CallType
  <2> QED BY <2>5, <2>6
<1>5. CASE RepStep("rep_long", LongSize)
  <2>1. pc = "rep_long" /\ pc' = pc /\ cnt' = cnt /\ rm' = rm
    BY <1>5 DEF RepStep, locals
  <2>2. Moves /\ Divided /\ Repeating(0, cnt, 4)
    BY <2>1 DEF Inv, Progress
  <2>3. PICK n \in Nat : n = cnt
    BY <2>2 DEF Divided
  <2>4. Repeating(0, n, 4) /\ RepStep("rep_long", 4) /\ 0 + 4 * n <= call.size
    BY <2>2, <2>3, <1>5 DEF Repeating, LongSize, Divided
  <2>5. Repeating(0, n, 4)'
    BY <2>2, <2>4, RepFills
  <2>6. Repeating(0, cnt, 4)'
    BY <2>1, <2>3, <2>5 DEF Repeating
  <2>7. Divided'
    BY <2>1, <2>2, <1>1 DEF Divided
  <2> QED BY <1>1, <1>2, <2>1, <2>2, <2>6, <2>7 DEF Inv, Progress
<1>6. CASE EndLong
  <2>1. /\ pc = "rep_long" /\ Moves /\ Divided /\ Repeating(0, cnt, 4) /\ ecx = 0
        /\ pc' = "byte" /\ mem' = mem /\ cnt' = cnt /\ rm' = rm /\ df' = before.df
        /\ dloc' = dloc + cnt * 4 /\ sloc' = sloc + cnt * 4
    BY <1>6 DEF EndLong, Inv, Progress, LongSize
  <2>2. dloc' = call.dst + 4 * cnt /\ sloc' = call.src + 4 * cnt /\ edi = dloc'
    BY <2>1 DEF Repeating, Divided, Inv, CallType
  <2>3. Clean => mem' = Filled(dloc)'
    <3>1. Clean => mem = Filled(edi)
      BY <2>1 DEF Repeating
    <3> QED BY <3>1, <2>1, <2>2, <1>1 DEF Filled, Wanted
  <2>4. Divided'
    BY <2>1, <1>1 DEF Divided
  <2> QED BY <1>1, <1>2, <2>1, <2>2, <2>3, <2>4 DEF Inv, Progress
<1>7. CASE Bytes
  <2>1. /\ pc = "byte" /\ Moves /\ Divided /\ df = before.df
        /\ dloc = call.dst + 4 * cnt /\ sloc = call.src + 4 * cnt
        /\ Clean => mem = Filled(dloc)
    BY <1>7 DEF Bytes, Inv, Progress
  <2>2. /\ mem' = mem /\ dloc' = dloc /\ sloc' = sloc /\ cnt' = cnt /\ rm' = rm
    BY <1>7 DEF Bytes, StartRep, locals
  <2>3. Divided'
    BY <2>1, <2>2, <1>1 DEF Divided
  <2>4. CASE rm # 0
    <3>1. pc' = "rep_byte" /\ df' = FALSE /\ edi' = dloc /\ esi' = sloc /\ ecx' = rm
      BY <1>7, <2>4 DEF Bytes, StartRep
    <3>2. Filled(edi)' = Filled(dloc)
      BY <3>1, <1>1 DEF Filled, Wanted
    <3>3. Repeating(4 * cnt, rm, 1)'
      BY <3>1, <3>2, <2>1, <2>2, <1>1, <1>2 DEF Repeating, Divided, Inv, CallType
    <3> QED BY <1>1, <1>2, <2>1, <2>3, <3>1, <3>3 DEF Inv, Progress
  <2>5. CASE rm = 0
    <3>1. pc' = "done" /\ df' = df
      BY <1>7, <2>5 DEF Bytes
    <3>2. call.dst + call.size = dloc
      BY <2>1, <2>5 DEF Divided, Inv, CallType
    <3>3. Filled(call.dst + call.size)' = Filled(dloc)
      BY <3>2, <1>1 DEF Filled, Wanted
    <3> QED BY <1>1, <1>2, <2>1, <2>2, <3>1, <3>3 DEF Inv, Progress
  <2> QED BY <2>4, <2>5
<1>8. CASE RepStep("rep_byte", 1)
  <2>1. pc = "rep_byte" /\ pc' = pc /\ cnt' = cnt /\ rm' = rm
    BY <1>8 DEF RepStep, locals
  <2>2. Moves /\ Divided /\ Repeating(4 * cnt, rm, 1)
    BY <2>1 DEF Inv, Progress
  <2>3. PICK n \in Nat : n = 4 * cnt
    BY <2>2 DEF Divided
  <2>4. PICK k \in Nat : k = rm
    BY <2>2 DEF Divided
  <2>5. Repeating(n, k, 1) /\ n + 1 * k <= call.size
    BY <2>2, <2>3, <2>4 DEF Repeating, Divided
  <2>6. Repeating(n, k, 1)'
    BY <2>2, <2>5, <1>8, RepFills
  <2>7. Repeating(4 * cnt, rm, 1)'
    BY <2>1, <2>3, <2>4, <2>6 DEF Repeating
  <2>8. Divided'
    BY <2>1, <2>2, <1>1 DEF Divided
  <2> QED BY <1>1, <1>2, <2>1, <2>2, <2>7, <2>8 DEF Inv, Progress
<1>9. CASE EndBytes
  <2>1. /\ pc = "rep_byte" /\ Moves /\ Divided /\ Repeating(4 * cnt, rm, 1) /\ ecx = 0
        /\ pc' = "done" /\ mem' = mem /\ df' = before.df
    BY <1>9 DEF EndBytes, Inv, Progress
  <2>2. edi = call.dst + call.size
    BY <2>1 DEF Repeating, Divided, Inv, CallType
  <2>3. Clean => mem' = Filled(call.dst + call.size)'
    <3>1. Clean => mem = Filled(edi)
      BY <2>1 DEF Repeating
    <3> QED BY <3>1, <2>1, <2>2, <1>1 DEF Filled, Wanted
  <2> QED BY <1>1, <1>2, <2>1, <2>3 DEF Inv, Progress
<1>10. CASE Scan \/ ScanStep \/ Strchr \/ Strlen
  <2>1. ~Moves
    BY <1>10 DEF Scan, ScanStep, Strchr, Strlen, Inv, Progress, Moves
  <2>2. pc' \in {"scan", "found", "done"} /\ (pc' = "done" => df' = before.df)
    BY <1>10 DEF Scan, ScanStep, Strchr, Strlen
  <2> QED BY <1>1, <1>2, <2>1, <2>2 DEF Inv, Progress
<1>11. CASE UNCHANGED vars
  BY <1>11 DEF vars, Inv, CallType, Progress, Divided, Repeating, Filled, Wanted, Clean, Moves
<1> QED BY <1>3, <1>4, <1>5, <1>6, <1>7, <1>8, <1>9, <1>10, <1>11 DEF Next

LEMMA Invariant == Spec => []Inv
BY InitInv, StepInv, PTL DEF Spec
-----------------------------------------------------------------------------
\* memset writes exactly the bytes it is asked to.
THEOREM Memset == Spec => []MemsetExact
<1>1. Inv => MemsetExact
  <2> SUFFICES ASSUME Inv, pc = "done", call.op = "memset"
               PROVE  mem = [a \in Address |-> IF a \in Region(call.dst, call.size) THEN call.c
                                               ELSE before.mem[a]]
    BY DEF MemsetExact
  <2>1. mem = Filled(call.dst + call.size)
    BY DEF Inv, Progress, Moves, Clean
  <2>2. \A a \in Address : (call.dst <= a /\ a < call.dst + call.size)
                           <=> a \in Region(call.dst, call.size)
    BY MemOpsAssumption DEF Inv, CallType, Address, Region
  <2> QED BY <2>1, <2>2 DEF Filled, Wanted
<1> QED BY <1>1, Invariant, PTL

\* memcpy writes exactly a copy of what was at src, when dst is not inside it.
THEOREM Memcpy == Spec => []MemcpyExact
<1>1. Inv => MemcpyExact
  <2> SUFFICES ASSUME Inv, pc = "done", call.op = "memcpy",
                      call.dst \notin Region(call.src + 1, call.size - 1)
               PROVE  mem = [a \in Address |-> IF a \in Region(call.dst, call.size)
                                               THEN before.mem[call.src + (a - call.dst)]
                                               ELSE before.mem[a]]
    BY DEF MemcpyExact
  <2>1. mem = Filled(call.dst + call.size)
    BY DEF Inv, Progress, Moves, Clean
  <2>2. \A a \in Address : (call.dst <= a /\ a < call.dst + call.size)
                           <=> a \in Region(call.dst, call.size)
    BY MemOpsAssumption DEF Inv, CallType, Address, Region
  <2> QED BY <2>1, <2>2 DEF Filled, Wanted
<1> QED BY <1>1, Invariant, PTL

\* Every function gives its caller's direction flag back.
THEOREM Flags == Spec => []FlagsKept
<1>1. Inv => FlagsKept
  BY DEF Inv, Progress, FlagsKept
<1> QED BY <1>1, Invariant, PTL
-----------------------------------------------------------------------------
(***************************************************************************)
(* Types and scans.  A scan has found no match before EDI, and what EDI    *)
(* and ECX have moved adds up to the size of the call; strlen's own scan   *)
(* is bounded by the end of its string, which lies ahead of EDI.           *)
(***************************************************************************)
Arguments ==
  /\ call.c \in Byte
  /\ call.size <= Space
  /\ Moves => call.src + call.size <= Space
  /\ call.op = "strchr" => call.src + call.size <= Space
  /\ call.op = "strlen" => call.c = 0 /\ call.size = Space

NoMatch(end) == \A a \in Int : call.src <= a /\ a < end => mem[a] # call.c

StringEnds(from) == \E a \in Int : from <= a /\ a < Space /\ mem[a] = 0

Scanning ==
  /\ pc = "call" /\ call.op = "strlen" => StringEnds(call.src)
  /\ pc \in {"scan", "found"} => call.src <= edi /\ ecx = call.size - (edi - call.src)
  /\ pc = "scan" => NoMatch(edi) /\ (call.op = "strlen" => StringEnds(edi))
  /\ pc = "found" => call.src < edi /\ NoMatch(edi - 1) /\ mem[edi - 1] = call.c
  /\ ScansFirst

ScanInv == Inv /\ TypeOK /\ Arguments /\ Scanning

LEMMA InitScanInv == Init => ScanInv
<1> SUFFICES ASSUME Init PROVE ScanInv
  OBVIOUS
<1>1. Inv
  BY InitInv
<1>2. TypeOK
  BY MemOpsAssumption DEF Init, TypeOK, Address
<1>3. Arguments
  BY MemOpsAssumption DEF Init, Arguments, Moves, Address
<1>4. Scanning
  <2>1. pc = "call"
    BY DEF Init
  <2>2. ASSUME call.op = "strlen" PROVE StringEnds(call.src)
    <3>1. PICK a \in Region(call.src, Space - call.src) : mem[a] = 0
      BY <2>2 DEF Init
    <3>2. call.src \in Nat /\ Space \in Nat
      BY <1>1, MemOpsAssumption DEF Inv, CallType
    <3>3. a \in Int /\ call.src <= a /\ a < Space
      BY <3>1, <3>2 DEF Region
    <3> QED BY <3>1, <3>3 DEF StringEnds
  <2> QED BY <2>1, <2>2 DEF Scanning, ScansFirst
<1> QED BY <1>1, <1>2, <1>3, <1>4 DEF ScanInv

\* The registers of memset and memcpy stay within what the caller passed, and
\* each byte stored is a byte.
LEMMA MovesTyped ==
  ASSUME ScanInv, NEW start \in Nat, NEW count \in Nat, NEW unit \in {1, 4},
         Repeating(start, count, unit), start + unit * count <= call.size, Moves,
         NEW repeat, RepStep(repeat, unit)
  PROVE  TypeOK'
<1>1. /\ call.dst \in Nat /\ call.src \in Nat /\ call.size \in Nat /\ Space \in Nat
      /\ call.dst + call.size <= Space /\ call.src + call.size <= Space
      /\ call.op \in {"memset", "memcpy"} /\ call.c \in Byte
  BY MemOpsAssumption DEF ScanInv, Inv, CallType, Arguments, Moves
<1>2. /\ ecx \in 1 .. count /\ ecx' = ecx - 1 /\ df = FALSE /\ df' = df
      /\ dloc' = dloc /\ sloc' = sloc /\ cnt' = cnt /\ rm' = rm
      /\ result' = result /\ before' = before
      /\ edi' = edi + unit /\ esi' = esi + unit
      /\ mem' = [a \in Address |-> IF a \in Region(edi, unit) THEN Stored(a) ELSE mem[a]]
  BY DEF Repeating, RepStep, locals
<1>3. /\ dloc = call.dst + start /\ sloc = call.src + start
      /\ edi = dloc + unit * (count - ecx) /\ esi = sloc + unit * (count - ecx)
  BY DEF Repeating
<1>4. /\ edi \in Nat /\ edi + unit <= Space
      /\ esi \in Nat /\ esi + unit <= Space
      /\ ecx' \in 0 .. Space
  <2>1. CASE unit = 1
    BY <1>1, <1>2, <1>3, <2>1
  <2>2. CASE unit = 4
    BY <1>1, <1>2, <1>3, <2>2
  <2> QED BY <2>1, <2>2
<1>5. ASSUME NEW a \in Address
      PROVE  (IF a \in Region(edi, unit) THEN Stored(a) ELSE mem[a]) \in Byte
  <2>1. mem \in [Address -> Byte]
    BY DEF ScanInv, TypeOK
  <2>2. ASSUME a \in Region(edi, unit) PROVE esi + (a - edi) \in Address
    BY <2>2, <1>1, <1>4 DEF Region, Address
  <2> QED BY <2>1, <2>2, <1>1 DEF Stored
<1>6. mem' \in [Address -> Byte]
  BY <1>2, <1>5
<1> QED BY <1>1, <1>2, <1>4, <1>6 DEF ScanInv, TypeOK

LEMMA StepTyped == ScanInv /\ Next => TypeOK'
<1> SUFFICES ASSUME ScanInv, Next PROVE TypeOK'
  OBVIOUS
<1> USE DEF ScanInv
<1>1. /\ call.dst \in Nat /\ call.src \in Nat /\ call.size \in Nat /\ Space \in Nat
      /\ call.size <= Space
      /\ Moves => call.dst + call.size <= Space /\ call.src + call.size <= Space
  BY MemOpsAssumption DEF Inv, CallType, Arguments
<1>2. /\ mem \in [Address -> Byte] /\ df \in BOOLEAN
      /\ edi \in 0 .. Space /\ esi \in 0 .. Space /\ ecx \in 0 .. Space
      /\ dloc \in 0 .. Space /\ sloc \in 0 .. Space
      /\ cnt \in 0 .. Space /\ rm \in 0 .. Space
      /\ result \in 0 .. Space \cup {NoResult}
      /\ before \in [mem : [Address -> Byte], df : BOOLEAN]
  BY DEF TypeOK
<1>3. before.df \in BOOLEAN
  BY <1>2
<1>4. CASE Divide
  <2>1. call.size \div 4 \in 0 .. Space /\ call.size % 4 \in 0 .. Space
    <3>1. call.size \div 4 \in Nat /\ call.size % 4 \in 0 .. 3
          /\ call.size = 4 * (call.size \div 4) + (call.size % 4)
      BY <1>1
    <3>2. PICK q \in Nat, r \in 0 .. 3 :
            q = call.size \div 4 /\ r = call.size % 4 /\ call.size = 4 * q + r
      BY <3>1
    <3> QED BY <3>2, <1>1
  <2>2. call.dst \in 0 .. Space /\ call.src \in 0 .. Space
    BY <1>1, <1>4 DEF Divide
  <2> QED BY <1>2, <1>4, <2>1, <2>2 DEF Divide, TypeOK, registers, locals, LongSize
<1>5. CASE Long
  BY <1>2, <1>5 DEF Long, StartRep, TypeOK, registers, locals
<1>6. CASE RepStep("rep_long", LongSize)
  <2>1. Moves /\ Divided /\ Repeating(0, cnt, 4)
    BY <1>6 DEF RepStep, Inv, Progress
  <2>2. PICK n \in Nat : n = cnt
    BY <2>1 DEF Divided
  <2>3. Repeating(0, n, 4) /\ RepStep("rep_long", 4) /\ 0 + 4 * n <= call.size
    BY <2>1, <2>2, <1>6 DEF Repeating, LongSize, Divided
  <2> QED BY <2>1, <2>3, MovesTyped
<1>7. CASE EndLong
  <2>1. Moves /\ Divided /\ Repeating(0, cnt, 4)
    BY <1>7 DEF EndLong, Inv, Progress
  <2>2. dloc + cnt * 4 \in 0 .. Space /\ sloc + cnt * 4 \in 0 .. Space
    BY <2>1, <1>1 DEF Divided, Repeating
  <2> QED BY <1>2, <1>3, <1>7, <2>2 DEF EndLong, TypeOK, registers, LongSize
<1>8. CASE Bytes
  <2>1. call.dst \in 0 .. Space
    BY <1>8, <1>1 DEF Bytes, Inv, Progress
  <2> QED BY <2>1, <1>2, <1>8 DEF Bytes, StartRep, TypeOK, registers, locals
<1>9. CASE RepStep("rep_byte", 1)
  <2>1. Moves /\ Divided /\ Repeating(4 * cnt, rm, 1)
    BY <1>9 DEF RepStep, Inv, Progress
  <2>2. PICK n \in Nat : n = 4 * cnt
    BY <2>1 DEF Divided
  <2>3. PICK k \in Nat : k = rm
    BY <2>1 DEF Divided
  <2>4. Repeating(n, k, 1) /\ n + 1 * k <= call.size
    BY <2>1, <2>2, <2>3 DEF Repeating, Divided
  <2> QED BY <2>1, <2>4, <1>9, MovesTyped
<1>10. CASE EndBytes
  <2>1. call.dst \in 0 .. Space
    BY <1>10, <1>1 DEF EndBytes, Inv, Progress
  <2> QED BY <2>1, <1>2, <1>3, <1>10 DEF EndBytes, TypeOK, registers, locals
<1>11. CASE Scan
  <2>1. call.src \in 0 .. Space
    <3>1. CASE call.op = "strlen"
      BY <3>1, <1>1, <1>11 DEF Scan, Scanning, StringEnds
    <3>2. CASE call.op = "strchr"
      BY <3>2, <1>1 DEF Arguments
    <3> QED BY <3>1, <3>2, <1>11 DEF Scan, Moves, Inv, CallType
  <2>2. df' \in BOOLEAN
    BY <1>11 DEF Scan
  <2> QED BY <2>1, <2>2, <1>1, <1>2, <1>11 DEF Scan, TypeOK, locals
<1>12. CASE ScanStep
  <2>1. pc = "scan" /\ ecx # 0 /\ call.src <= edi /\ ecx = call.size - (edi - call.src)
    BY <1>12 DEF ScanStep, Scanning
  <2>2. edi + 1 <= Space
    <3>1. CASE call.op = "strlen"
      BY <3>1, <2>1, <1>1, <1>2 DEF Scanning, StringEnds
    <3>2. CASE call.op = "strchr"
      BY <3>2, <2>1, <1>1, <1>2 DEF Arguments
    <3> QED BY <3>1, <3>2, <2>1 DEF Moves, Inv, CallType, Progress
  <2> QED BY <2>1, <2>2, <1>1, <1>2, <1>12 DEF ScanStep, TypeOK, locals
<1>13. CASE Strchr
  <2>1. ecx # 0 => edi - 1 \in 0 .. Space
    BY <1>13, <1>1, <1>2 DEF Strchr, Scanning
  <2> QED BY <2>1, <1>2, <1>3, <1>13 DEF Strchr, TypeOK, registers, locals
<1>14. CASE Strlen
  <2>1. edi - 1 - call.src \in 0 .. Space
    BY <1>14, <1>1, <1>2 DEF Strlen, Scanning
  <2> QED BY <2>1, <1>2, <1>3, <1>14 DEF Strlen, TypeOK, registers, locals
<1> QED BY <1>4, <1>5, <1>6, <1>7, <1>8, <1>9, <1>10, <1>11, <1>12, <1>13, <1>14 DEF Next

LEMMA StepScanning == ScanInv /\ Next => Scanning'
<1> SUFFICES ASSUME ScanInv, Next PROVE Scanning'
  OBVIOUS
<1> USE DEF ScanInv
<1>1. /\ call' = call
  BY DEF Next, Divide, Long, StartRep, RepStep, EndLong, Bytes, EndBytes, Scan,
         ScanStep, Strchr, Strlen
<1>2. /\ call.src \in Nat /\ call.size \in Nat /\ Space \in Nat /\ call.size <= Space
      /\ call.op \in {"memset", "memcpy", "strchr", "strlen"}
      /\ edi \in Nat /\ ecx \in Nat /\ edi \in Int
  BY MemOpsAssumption DEF Inv, CallType, Arguments, TypeOK
<1>3. CASE Moves
  <2>1. Moves' /\ pc' \notin {"call", "scan", "found"}
    BY <1>1, <1>3 DEF Next, Divide, Long, StartRep, RepStep, EndLong, Bytes, EndBytes, Scan,
         ScanStep, Strchr, Strlen, Moves, Inv, Progress
  <2> QED BY <2>1 DEF Scanning, ScansFirst, Moves
<1>4. CASE Scan
  <2>1. /\ pc = "call" /\ pc' = "scan" /\ edi' = call.src /\ ecx' = call.size /\ mem' = mem
    BY <1>4 DEF Scan
  <2>2. NoMatch(edi)'
    BY <2>1, <1>1, <1>2 DEF NoMatch
  <2>3. call.op = "strlen" => StringEnds(edi)'
    BY <2>1, <1>1 DEF Scanning, StringEnds
  <2> QED BY <2>1, <2>2, <2>3, <1>1, <1>2 DEF Scanning, ScansFirst
<1>5. CASE ScanStep
  <2>1. /\ pc = "scan" /\ ecx # 0 /\ edi' = edi + 1 /\ ecx' = ecx - 1 /\ mem' = mem
        /\ pc' = IF mem[edi] = call.c THEN "found" ELSE "scan"
    BY <1>5 DEF ScanStep
  <2>2. /\ call.src <= edi /\ ecx = call.size - (edi - call.src) /\ NoMatch(edi)
        /\ call.op = "strlen" => StringEnds(edi)
    BY <2>1 DEF Scanning
  <2>3. call.src < edi' /\ ecx' = call.size - (edi' - call.src)
    BY <2>1, <2>2, <1>2
  <2>4. CASE mem[edi] = call.c
    <3>1. edi' - 1 = edi /\ pc' = "found"
      BY <2>1, <2>4, <1>2
    <3>2. NoMatch(edi - 1)' /\ mem'[edi' - 1] = call.c
      BY <3>1, <2>1, <2>2, <2>4, <1>1 DEF NoMatch
    <3> QED BY <3>1, <3>2, <2>1, <2>3, <1>1, <1>2 DEF Scanning, ScansFirst
  <2>5. CASE mem[edi] # call.c
    <3>1. pc' = "scan"
      BY <2>1, <2>5
    <3>2. NoMatch(edi)'
      <4> SUFFICES ASSUME NEW a \in Int, call.src <= a, a < edi + 1 PROVE mem[a] # call.c
        BY <2>1, <1>1 DEF NoMatch
      <4>1. a < edi \/ a = edi
        BY <1>2
      <4> QED BY <4>1, <2>2, <2>5 DEF NoMatch
    <3>3. ASSUME call.op = "strlen" PROVE StringEnds(edi)'
      <4>1. PICK a \in Int : edi <= a /\ a < Space /\ mem[a] = 0
        BY <3>3, <2>2 DEF StringEnds
      <4>2. a # edi
        BY <4>1, <2>5, <3>3 DEF Arguments
      <4>3. edi + 1 <= a
        BY <4>1, <4>2, <1>2
      <4> QED BY <4>1, <4>3, <2>1 DEF StringEnds
    <3> QED BY <3>1, <3>2, <3>3, <2>1, <2>3, <1>1, <1>2 DEF Scanning, ScansFirst
  <2> QED BY <2>4, <2>5
<1>6. CASE Strchr
  <2>1. /\ call.op = "strchr" /\ pc \in {"scan", "found"} /\ pc' = "done" /\ mem' = mem
        /\ pc = "scan" => ecx = 0
        /\ result' = IF ecx = 0 THEN NoResult ELSE edi - 1
    BY <1>6 DEF Strchr
  <2>2. /\ call.src <= edi /\ ecx = call.size - (edi - call.src)
    BY <2>1 DEF Scanning
  <2>3. NoMatch(edi - 1) /\ (ecx # 0 => mem[edi - 1] = call.c)
    <3>1. CASE pc = "scan"
      BY <3>1, <2>1, <1>2 DEF Scanning, NoMatch
    <3>2. CASE pc = "found"
      BY <3>2 DEF Scanning
    <3> QED BY <3>1, <3>2, <2>1
  <2>4. ecx = 0 => call.src + call.size - 1 = edi - 1
    BY <2>2, <1>2
  <2>5. edi - 1 \in Int /\ (edi - 1 # NoResult)
    BY <1>2, MemOpsAssumption
  <2>6. \A a \in call.src .. (edi - 1) - 1 : mem[a] # call.c
    <3> SUFFICES ASSUME NEW a \in call.src .. (edi - 1) - 1 PROVE mem[a] # call.c
      OBVIOUS
    <3>1. a \in Int /\ call.src <= a /\ a < edi - 1
      BY <1>2
    <3> QED BY <3>1, <2>3 DEF NoMatch
  <2>7. ScansFirst'
    <3>1. CASE ecx = 0
      BY <3>1, <2>1, <2>4, <2>6, <1>1 DEF ScansFirst
    <3>2. CASE ecx # 0
      BY <3>2, <2>1, <2>3, <2>5, <2>6, <1>1 DEF ScansFirst
    <3> QED BY <3>1, <3>2
  <2> QED BY <2>1, <2>7 DEF Scanning
<1>7. CASE Strlen
  <2>1. /\ call.op = "strlen" /\ pc = "found" /\ pc' = "done" /\ mem' = mem
        /\ result' = edi - 1 - call.src
    BY <1>7 DEF Strlen
  <2>2. call.src < edi /\ NoMatch(edi - 1) /\ mem[edi - 1] = call.c /\ call.c = 0
    BY <2>1 DEF Scanning, Arguments
  <2>3. call.src + result' = edi - 1
    BY <2>1, <1>2
  <2>4. ASSUME NEW a \in Region(call.src, result') PROVE mem[a] # 0
    <3>1. a \in Int /\ call.src <= a /\ a < edi - 1
      BY <2>1, <2>2, <1>2 DEF Region
    <3> QED BY <3>1, <2>2 DEF NoMatch
  <2>5. ScansFirst'
    BY <2>1, <2>2, <2>3, <2>4, <1>1 DEF ScansFirst, Region
  <2> QED BY <2>1, <2>5 DEF Scanning
<1>8. Moves \/ Scan \/ ScanStep \/ Strchr \/ Strlen
  BY DEF Next, Divide, Long, RepStep, EndLong, Bytes, EndBytes, Inv, Progress
<1> QED BY <1>3, <1>4, <1>5, <1>6, <1>7, <1>8

LEMMA StepScanInv == ScanInv /\ [Next]_vars => ScanInv'
<1> SUFFICES ASSUME ScanInv, [Next]_vars PROVE ScanInv'
  OBVIOUS
<1>1. Inv'
  BY StepInv DEF ScanInv
<1>2. CASE Next
  <2>1. call' = call
    BY <1>2 DEF Next, Divide, Long, StartRep, RepStep, EndLong, Bytes, EndBytes, Scan,
           ScanStep, Strchr, Strlen
  <2>2. Arguments'
    BY <2>1 DEF ScanInv, Arguments, Moves
  <2> QED BY <1>1, <1>2, <2>2, StepTyped, StepScanning DEF ScanInv
<1>3. CASE UNCHANGED vars
  <2>1. TypeOK'
    BY <1>3 DEF ScanInv, TypeOK, vars
  <2>2. Arguments'
    BY <1>3 DEF ScanInv, Arguments, Moves, vars
  <2>3. Scanning'
    BY <1>3 DEF ScanInv, Scanning, NoMatch, StringEnds, ScansFirst, Region, vars
  <2> QED BY <1>1, <2>1, <2>2, <2>3 DEF ScanInv
<1> QED BY <1>2, <1>3

LEMMA ScanInvariant == Spec => []ScanInv
BY InitScanInv, StepScanInv, PTL DEF Spec

\* Every variable keeps its type: no register leaves memory by more than one.
THEOREM Typed == Spec => []TypeOK
<1>1. ScanInv => TypeOK
  BY DEF ScanInv
<1> QED BY <1>1, ScanInvariant, PTL

\* strlen and strchr find the first match.
THEOREM Scans == Spec => []ScansFirst
<1>1. ScanInv => ScansFirst
  BY DEF ScanInv, Scanning
<1> QED BY <1>1, ScanInvariant, PTL
=============================================================================
