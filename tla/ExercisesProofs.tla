--------------------------- MODULE ExercisesProofs ---------------------------
(***************************************************************************)
(* What holds of the exercises for page tables of every size: the types,   *)
(* the faults that may be raised, what is printed and copied, and that a   *)
(* handler, and an NMI at any instruction, leaves what it interrupted as   *)
(* it was.                                                                 *)
(*                                                                         *)
(* A program runs straight on, so the invariant is what a symbolic         *)
(* execution would carry along: for every instruction of tp(), of ring 3   *)
(* and of the handlers, which descriptors have been written, what each     *)
(* segment register was last loaded with, which words of a frame are on    *)
(* the stack, which entries the page tables have.  The instructions of the *)
(* four programs that load segments are found by what they do (WrittenAt,  *)
(* LoadAt, LgdtAt, TssAt), and share one lemma for each kind.  An NMI      *)
(* needs little of all this (Sound), and gives back what it found; the TLB *)
(* may hold, of each page, what any table so far has said of it (Mapped).  *)
(***************************************************************************)
EXTENDS Exercises, TLAPS

-----------------------------------------------------------------------------
(***************************************************************************)
(* Where each program does what: the number of the instruction.            *)
(***************************************************************************)
Never == 99      \* no program is that long

LgdtAt == CASE program = "tp1" -> 5
            [] program \in {"tp3", "tp5", "tp_exam"} -> 6
            [] OTHER -> Never
TssAt  == CASE program = "tp1" -> 19 [] program = "tp3" -> 17 [] program = "tp5" -> 18
            [] program = "tp_exam" -> 13 [] OTHER -> Never
LoadsAt == CASE program = "tp1" -> 14 [] program = "tp3" -> 12 [] program = "tp5" -> 13
             [] program = "tp_exam" -> 15 [] OTHER -> Never
EndAt  == CASE program = "tp1" -> 22 [] program = "tp2" -> 4 [] program = "tp3" -> 25
            [] program = "tp4" -> 16 [] program = "tp5" -> 26 [] OTHER -> 20

\* The loads of user data: the first of the four registers first.
LoadAt(reg) ==
  LoadsAt + (CASE reg = "ds" -> 1 [] reg = "es" -> 2 [] reg = "fs" -> 3 [] reg = "gs" -> 4)

\* The table that a program writes: what, and when.
TaskIndex == IF program = "tp1" THEN 6 ELSE 5
UserIndex == TaskIndex - 1
Limit == IF program = "tp1" THEN 55 ELSE 47

WrittenAt(i) ==
  IF i = TaskIndex THEN TssAt + 1
  ELSE CASE program \in {"tp3", "tp5", "tp_exam"} -> i + 1
         [] program = "tp1" /\ i < 3 -> i + 2
         [] program = "tp1" /\ i = 3 -> 9
         [] program = "tp1" /\ i > 3 -> i + 9
         [] OTHER -> Never

LowData == Descriptor("data", 0, 6291456, 31)
Written(i) ==
  CASE i = 0 -> NullDesc
    [] i = 1 -> FlatDesc(0, "code")
    [] i = 2 -> FlatDesc(0, "data")
    [] i = TaskIndex -> TssDesc
    [] i = UserIndex -> FlatDesc(3, "data")
    [] i = UserIndex - 1 -> FlatDesc(3, "code")
    [] OTHER -> LowData

BusyTss == [TssDesc EXCEPT !.kind = "tss_busy"]

KernelCode == Loaded(KrnSel(1), FlatDesc(0, "code"))
KernelData == Loaded(KrnSel(2), FlatDesc(0, "data"))
UserCode   == Loaded(UsrSel(UserIndex - 1), FlatDesc(3, "code"))
UserData   == Loaded(UsrSel(UserIndex), FlatDesc(3, "data"))
TssTop == IF program = "tp_exam" THEN KernelTop - 1 ELSE KernelTop
-----------------------------------------------------------------------------
(***************************************************************************)
(* The inductive invariant.                                                *)
(***************************************************************************)
Tags == {"num", "sel", "eip", "eflags", "gpr", "junk"}
Gprs == {<<"gpr", "entry">>, Scratch, <<"gpr", "0x3048e0">>}
Selectors == [index : 0 .. 6, rpl : {0, 3}]
Flags == [handler : {"stub", "bp_handler", "syscall_isr"}, dpl : {0, 3}]

Stored ==
  /\ gdt \in [grub : {LoaderTable}, own : [0 .. 6 -> Descriptors]]
  /\ gdtr \in [table : {"grub", "own"}, limit : {39, 47, 55}]
  /\ seg \in [SegRegs -> [sel : Selectors, desc : Descriptors]]
  /\ ring \in {0, 3} /\ tr \in 0 .. 6 /\ tss \in [ss : Selectors, esp : Stacks]
  /\ program \in Programs
  /\ esp \in Stacks /\ ebp \in Stacks /\ gpr \in Gprs
  /\ DOMAIN stack = Stacks /\ \A a \in Stacks : stack[a][1] \in Tags
  /\ gates \in [{3, 48} -> Flags]

\* What has been printed and copied so far.
Results ==
  /\ copied \in {<<0, 0>>, <<6291456, 32>>}
  /\ CASE program = "tp1" -> shown \in {<<"nothing", 0>>, <<"gdt", 0 .. 4>>, <<"gdt", 0 .. 6>>}
       [] program = "tp2" -> shown \in {<<"nothing", 0>>, <<"eip", <<"tp2", 3>>>>}
       [] program = "tp5" -> shown \in {<<"nothing", 0>>, <<"gpr", "0x3048e0">>}
       [] OTHER -> TRUE

\* The tables before instruction "k".
TablesAt(k) ==
  /\ \A i \in 0 .. TaskIndex : k > WrittenAt(i) =>
       gdt["own"][i] = IF i = TaskIndex /\ tr # 0 THEN BusyTss ELSE Written(i)
  /\ gdtr = IF k > LgdtAt THEN [table |-> "own", limit |-> Limit]
                          ELSE [table |-> "grub", limit |-> 39]
  /\ k > TssAt => tss = [ss |-> KrnSel(2), esp |-> TssTop]
  /\ tr = IF k > TssAt + 2 THEN TaskIndex ELSE 0

DataIs(reg, k) ==
  seg[reg] = CASE k > LoadAt(reg) -> UserData
               [] program = "tp1" /\ reg = "es" /\ k \in 12 .. 16 -> Loaded(KrnSel(3), LowData)
               [] OTHER -> KernelData

InKernel(k) ==
  /\ TablesAt(k) /\ ring = 0
  /\ seg["cs"] = KernelCode /\ seg["ss"] = KernelData
  /\ \A reg \in DataRegs : DataIs(reg, k)

InUser ==
  /\ TablesAt(EndAt) /\ ring = 3
  /\ seg["cs"] = UserCode /\ seg["ss"] = UserData
  /\ \A reg \in DataRegs : seg[reg] = UserData

\* The frame that tp3 and tp5 build, and how many of its words are pushed.
UserFrame ==
  << <<"sel", UsrSel(4)>>, <<"num", IF program = "tp3" THEN KernelTop ELSE UserTop>>,
     <<"eflags", 0>>, <<"sel", UsrSel(3)>>, <<"eip", <<"userland", 1>>>> >>
Pushes(k) == IF program \in {"tp3", "tp5"} /\ k > TssAt + 3 THEN k - TssAt - 3 ELSE 0

InTp(k) ==
  /\ eip = <<program, k>> /\ InKernel(k)
  /\ ebp = KernelTop /\ esp = KernelTop - 1 - Pushes(k) /\ caller = << >>
  /\ \A w \in 1 .. Pushes(k) : stack[KernelTop - 1 - w] = UserFrame[w]
  /\ gates[48] = IF program = "tp5" /\ k > 13 THEN [handler |-> "syscall_isr", dpl |-> 3]
                                           ELSE [handler |-> "stub", dpl |-> 0]
  /\ gates[3] = IF program = "tp2" /\ k > 1 THEN [handler |-> "bp_handler", dpl |-> 0]
                                           ELSE [handler |-> "stub", dpl |-> 0]

\* userland of tp3
InUserland3(k) ==
  /\ program = "tp3" /\ eip = <<"userland", k>> /\ InUser /\ caller = << >>
  /\ ebp = IF k = 3 THEN 8 ELSE 9
  /\ esp = IF k = 1 THEN 9 ELSE 8

\* userland of tp5; the handler that it calls runs on the stack of the TSS.
Asked == <<"gpr", "0x3048e0">>
InUserland5(k) ==
  /\ program = "tp5" /\ eip = <<"userland", k>> /\ InUser /\ caller = << >>
  /\ ebp = IF k > 2 THEN 13 ELSE 9
  /\ esp = IF k > 1 THEN 13 ELSE 14
  /\ k > 3 => gpr = Asked
  /\ gates[48] = [handler |-> "syscall_isr", dpl |-> 3]

\* The frame of int 48, and what it interrupted.
SystemCalled ==
  /\ stack[8] = <<"sel", UsrSel(4)>> /\ stack[7] = <<"num", 13>>
  /\ stack[5] = <<"sel", UsrSel(3)>> /\ stack[4] = <<"eip", <<"userland", 5>>>>
  /\ Len(caller) = 1
  /\ LET c == caller[1] IN
       /\ c.eip = <<"userland", 5>> /\ c.esp = 13 /\ c.ebp = 13 /\ c.gpr = Asked /\ c.ring = 3
       /\ c.seg["cs"] = UserCode /\ c.seg["ss"] = UserData
       /\ \A reg \in DataRegs : c.seg[reg] = UserData
       /\ \A a \in 13 .. 14 : c.stack[a] = stack[a]

InSyscallIsr(k) ==
  /\ program = "tp5" /\ eip = <<"syscall_isr", k>> /\ InKernel(EndAt) /\ SystemCalled
  /\ esp = CASE k \in {2, 3} -> 3 [] k \in {5, 6} -> 2 [] OTHER -> 4
  /\ k \in {2, 3} => stack[3] = <<"num", 13>>
  /\ k \in {5, 6} => stack[3] = Asked /\ stack[2] = <<"num", 13>>
  /\ ebp = IF k = 3 THEN 3 ELSE 13
  /\ k # 6 => gpr = Asked
  /\ gates[48] = [handler |-> "syscall_isr", dpl |-> 3]

\* The frame of int 3, and what it interrupted.
Trapped ==
  /\ stack[6] = <<"sel", KrnSel(1)>> /\ stack[5] = <<"eip", <<"tp2", 3>>>>
  /\ Len(caller) = 1
  /\ LET c == caller[1] IN
       /\ c.eip = <<"tp2", 3>> /\ c.esp = 8 /\ c.ebp = 9 /\ c.gpr \in Gprs /\ c.ring = 0
       /\ c.seg["cs"] = KernelCode /\ c.seg["ss"] = KernelData
       /\ \A reg \in DataRegs : c.seg[reg] = KernelData
       /\ \A a \in 8 .. 14 : c.stack[a] = stack[a]

InBpHandler(k) ==
  /\ program = "tp2" /\ eip = <<"bp_handler", k>> /\ InKernel(1) /\ Trapped
  /\ esp = CASE k \in {1, 7} -> 5 [] k \in {4, 5} -> 2 [] OTHER -> 4
  /\ k \in 2 .. 6 => stack[4] = <<"num", 9>>
  /\ k \in 4 .. 5 => stack[3] = caller[1].gpr /\ stack[2] = <<"num", 4>>
  /\ ebp = IF k \in 3 .. 6 THEN 4 ELSE 9
  /\ k # 5 => gpr = caller[1].gpr
  /\ gates[3] = [handler |-> "bp_handler", dpl |-> 0]
  /\ gates[48] = [handler |-> "stub", dpl |-> 0]

\* The tables of tp4 before instruction "k"; the others leave paging off.
Physical ==
  /\ pg = FALSE /\ cr3 = 0 /\ tlb = [p \in Pages |-> Absent]
  /\ table \in [Tables -> [Index -> {Absent, Junk}]]

\* The frame of a page that its program has not moved.
Own(page) == IF page[1] = 0 THEN page[2] ELSE N + page[2]

Mapped(k, page) ==
  IF page = target THEN IF k > 10 THEN {Absent, pgd} ELSE {Absent}
  ELSE {Absent, Own(page)}
         \cup (IF k > 12 /\ page \in {<<1, 4>>, <<1, 5>>} THEN {SharedFrame} ELSE {})

InTables(k) ==
  /\ table \in [Tables -> [Index -> -2 .. 2 * N - 1]]
  /\ cr3 = IF k > 1 THEN pgd ELSE 0
  /\ pg = (k > 7)
  /\ tlb \in [Pages -> -1 .. 2 * N - 1]
  /\ \A p \in Pages : tlb[p] \in Mapped(k, p) /\ (k < 8 => tlb[p] = Absent)
  /\ k > 2 => table[ptb] = [j \in Index |-> j]
  /\ k > 3 => \A j \in Index :
       table[pgd][j] = IF j = 0 /\ k \in 5 .. 15 THEN ptb
                       ELSE IF j = 1 /\ k > 6 THEN ptb2
                       ELSE IF j = N - 1 /\ k > 10 THEN ptb3 ELSE Absent
  /\ k > 5 => \A j \in Index :
       table[ptb2][j] = CASE j = 4 /\ k > 12 -> SharedFrame
                          [] j = 5 /\ k > 13 -> SharedFrame
                          [] OTHER -> N + j
  /\ k > 8 => \A j \in Index : table[ptb3][j] = IF j = 0 /\ k > 9 THEN pgd ELSE Absent
  /\ k = 12 => shown[2] = shown[3]

Memory(k) == IF program = "tp4" THEN InTables(k) ELSE Physical

\* How a program may end.
Ended ==
  \/ eip = <<"done">>
  \/ eip = <<"panic">> /\ program = "tp3" /\ ring = 3
  \/ eip = <<"reset">> /\ program = "tp4" /\ table[pgd][0] = Absent

Inv ==
  /\ Stored /\ Results
  /\ \/ \E k \in 1 .. EndAt : InTp(k) /\ Memory(k)
     \/ \E k \in 1 .. 3 : InUserland3(k) /\ Memory(k)
     \/ \E k \in 1 .. 5 : InUserland5(k) /\ Memory(k)
     \/ \E k \in 1 .. 7 : InSyscallIsr(k) /\ Memory(k)
     \/ \E k \in 1 .. 7 : InBpHandler(k) /\ Memory(k)
     \/ Ended /\ Memory(EndAt)
-----------------------------------------------------------------------------
(***************************************************************************)
(* Lemmas about the steps.                                                 *)
(***************************************************************************)
\* The action of an instruction that does not fault is the one of its name.
LEMMA Only ==
  ASSUME Step, Allowed
  PROVE  /\ Instruction[1] = "desc" => Describe
         /\ Instruction[1] = "lgdt" => SetGdtr
         /\ Instruction[1] \in {"load", "jump"} => SetSegment
         /\ Instruction[1] = "tss" => SetTss
         /\ Instruction[1] = "ltr" => SetTr
         /\ Instruction[1] = "gate" => SetGate
         /\ Instruction[1] = "copy" => Copy
         /\ Instruction[1] = "push_ebp" => PushEbp
         /\ Instruction[1] = "push" => Push
         /\ Instruction[1] = "frame" => MakeFrame
         /\ Instruction[1] = "leave" => Leave
         /\ Instruction[1] = "set" => SetGpr
         /\ Instruction[1] = "pusha" => Pusha
         /\ Instruction[1] = "popa" => Popa
         /\ Instruction[1] \in {"print_gdt", "show_eip", "syscall_handler", "show_words", "debug"} => Printf
         /\ Instruction[1] = "int" => SoftInt
         /\ Instruction[1] = "iret" => Iret
         /\ Instruction[1] = "store" => StoreEntries
         /\ Instruction[1] = "clear" => ClearTarget
         /\ Instruction[1] \in {"set_cr3", "set_cr0"} => SetControl
         /\ Instruction[1] = "ret" => Return
         /\ Instruction[1] # "spin"
BY DEF Step, Fault, At, Describe, SetGdtr, SetSegment, SetTss, SetTr, SetGate, Copy, PushEbp, Push,
       MakeFrame, Leave, SetGpr, Pusha, Popa, Printf, SoftInt, Iret, StoreEntries, ClearTarget,
       SetControl, Return

\* What each instruction needs in order not to fault.
LEMMA Acts ==
  ASSUME Step, Reachable(KernelFrame), seg["ds"].desc.kind = "data"
  PROVE  /\ Instruction[1] = "desc" => Describe
         /\ Instruction[1] = "lgdt" /\ ring = 0 => SetGdtr
         /\ Instruction[1] = "load" /\ CanLoad(Arg(1), Arg(2)) => SetSegment
         /\ Instruction[1] = "jump" /\ CanJump(Arg(1)) => SetSegment
         /\ Instruction[1] = "tss" => SetTss
         /\ Instruction[1] = "ltr" /\ CanLtr(Arg(1)) => SetTr
         /\ Instruction[1] = "gate" => SetGate
         /\ Instruction[1] = "copy" /\ seg["es"].desc.kind = "data"
              /\ Arg(1) - 1 <= seg["es"].desc.limit => Copy
         /\ Instruction[1] = "push_ebp" => PushEbp
         /\ Instruction[1] = "push" => Push
         /\ Instruction[1] = "frame" => MakeFrame
         /\ Instruction[1] = "leave" => Leave
         /\ Instruction[1] = "set" => SetGpr
         /\ Instruction[1] = "pusha" => Pusha
         /\ Instruction[1] = "popa" => Popa
         /\ Instruction[1] \in {"print_gdt", "show_eip", "syscall_handler", "debug"} => Printf
         /\ Instruction[1] = "int" /\ CanEnter /\ gates[Arg(1)].dpl >= ring => SoftInt
         /\ Instruction[1] = "iret" /\ FrameOk => Iret
         /\ Instruction[1] = "ret" => Return
         /\ Instruction[1] # "spin"
BY Only DEF Allowed

\* The kernel's selectors name the same code and data in the loader's table and in
\* the program's own, which is filled before it is in use.
LEMMA Coherent ==
  ASSUME Stored, NEW k \in 1 .. EndAt, TablesAt(k)
  PROVE  /\ Entry(KrnSel(1)) = FlatDesc(0, "code")
         /\ Entry(KrnSel(2)) = FlatDesc(0, "data")
<1>1. program \in {"tp1", "tp2", "tp3", "tp4", "tp5", "tp_exam"} BY ProgramsAssumption DEF Stored
<1>2. gdt["grub"] = LoaderTable BY DEF Stored
<1>3. CASE k > LgdtAt
  <2>1. gdtr = [table |-> "own", limit |-> Limit] /\ program \notin {"tp2", "tp4"}
    BY <1>1, <1>3 DEF TablesAt, LgdtAt, EndAt, Never
  <2>2. gdt["own"][1] = FlatDesc(0, "code") /\ gdt["own"][2] = FlatDesc(0, "data")
    BY <1>1, <1>3, <2>1 DEF TablesAt, WrittenAt, Written, TaskIndex, UserIndex, LgdtAt
  <2> QED BY <2>1, <2>2 DEF Entry, KrnSel, Limit
<1>4. CASE ~(k > LgdtAt)
  <2>1. gdtr = [table |-> "grub", limit |-> 39] BY <1>4 DEF TablesAt
  <2> QED BY <2>1, <1>2 DEF Entry, KrnSel, LoaderTable
<1> QED BY <1>3, <1>4
-----------------------------------------------------------------------------
(***************************************************************************)
(* The instructions of the programs that load segments, by number.         *)
(***************************************************************************)
Loaders == {"tp1", "tp3", "tp5", "tp_exam"}

KernelLoad(reg) == Instruction = <<"load", reg, KrnSel(2)>>

\* What instruction "k" of such a program is.
Fetched(k) ==
  \/ \E i \in 0 .. TaskIndex : k = WrittenAt(i) /\ Instruction = <<"desc", i, Written(i)>>
  \/ k = LgdtAt /\ Instruction = <<"lgdt", Limit>>
  \/ LgdtAt < k /\ k <= LgdtAt + 2 /\ Instruction = <<"jump", KrnSel(1)>>
  \/ LgdtAt < k /\ k <= LgdtAt + 6 /\ k <= LoadsAt /\ program # "tp1"
       /\ \E reg \in DataRegs \cup {"ss"} : KernelLoad(reg)
  \/ k = 6 /\ program = "tp1" /\ KernelLoad("ds")
  \/ \E reg \in DataRegs : k = LoadAt(reg) /\ Instruction = <<"load", reg, UsrSel(UserIndex)>>
  \/ k = TssAt /\ Instruction = <<"tss", KrnSel(2), IF program = "tp_exam" THEN "esp" ELSE "ebp">>
  \/ k = TssAt + 2 /\ Instruction = <<"ltr", KrnSel(TaskIndex)>>
  \/ program = "tp1" /\ k \in {1, 8, 10} /\ Instruction = <<"print_gdt">>
  \/ program = "tp1" /\ k = 11 /\ Instruction = <<"load", "es", KrnSel(3)>>
  \/ program = "tp1" /\ k = 12 /\ Instruction = <<"copy", 32>>
  \/ program = "tp5" /\ k = 13 /\ Instruction = <<"gate", 48, "syscall_isr", 3>>
  \/ /\ program \in {"tp3", "tp5"}
     /\ \E w \in 1 .. 5 : k = TssAt + 2 + w /\ Instruction = <<"push", UserFrame[w]>>
  \/ program = "tp3" /\ k = TssAt + 4 /\ Instruction = <<"push_ebp">>
  \/ program \in {"tp3", "tp5"} /\ k = EndAt /\ Instruction = <<"iret">>
  \/ program \in {"tp1", "tp_exam"} /\ k = EndAt /\ Instruction = <<"ret">>

\* The instructions of tp1 are where the invariant has them.
LEMMA FetchTp1 ==
  ASSUME program = "tp1", NEW k \in 1 .. EndAt, eip = <<program, k>>
  PROVE  Fetched(k)
<1>1. /\ Tp1[1] = <<"print_gdt">> /\ Tp1[8] = <<"print_gdt">> /\ Tp1[10] = <<"print_gdt">>
      /\ Tp1[2] = <<"desc", 0, NullDesc>>
      /\ Tp1[3] = <<"desc", 1, FlatDesc(0, "code")>>
      /\ Tp1[4] = <<"desc", 2, FlatDesc(0, "data")>>
      /\ Tp1[9] = <<"desc", 3, LowData>>
      /\ Tp1[13] = <<"desc", 4, FlatDesc(3, "code")>>
      /\ Tp1[14] = <<"desc", 5, FlatDesc(3, "data")>>
      /\ Tp1[20] = <<"desc", 6, TssDesc>>
      /\ Tp1[5] = <<"lgdt", 55>>
      /\ Tp1[6] = <<"load", "ds", KrnSel(2)>>
      /\ Tp1[7] = <<"jump", KrnSel(1)>>
      /\ Tp1[11] = <<"load", "es", KrnSel(3)>>
      /\ Tp1[12] = <<"copy", 32>>
      /\ Tp1[15] = <<"load", "ds", UsrSel(5)>>
      /\ Tp1[16] = <<"load", "es", UsrSel(5)>>
      /\ Tp1[17] = <<"load", "fs", UsrSel(5)>>
      /\ Tp1[18] = <<"load", "gs", UsrSel(5)>>
      /\ Tp1[19] = <<"tss", KrnSel(2), "ebp">>
      /\ Tp1[21] = <<"ltr", KrnSel(6)>>
      /\ Tp1[22] = <<"ret">>
  BY DEF Tp1, LoadUser, TaskState, LowData
<1>2. Instruction = Tp1[k] /\ k \in 1 .. 22
  BY DEF Instruction, Code, EndAt
<1>3. /\ WrittenAt(0) = 2 /\ WrittenAt(1) = 3 /\ WrittenAt(2) = 4 /\ WrittenAt(3) = 9
      /\ WrittenAt(4) = 13 /\ WrittenAt(5) = 14 /\ WrittenAt(6) = 20
      /\ Written(0) = NullDesc /\ Written(1) = FlatDesc(0, "code")
      /\ Written(2) = FlatDesc(0, "data") /\ Written(3) = LowData
      /\ Written(4) = FlatDesc(3, "code") /\ Written(5) = FlatDesc(3, "data")
      /\ Written(6) = TssDesc
  BY DEF WrittenAt, Written, TaskIndex, UserIndex, TssAt
<1>4. /\ TaskIndex = 6 /\ UserIndex = 5 /\ LgdtAt = 5 /\ Limit = 55 /\ TssAt = 19 /\ EndAt = 22
      /\ LoadsAt = 14 /\ LoadAt("ds") = 15 /\ LoadAt("es") = 16 /\ LoadAt("fs") = 17
      /\ LoadAt("gs") = 18
  BY DEF TaskIndex, UserIndex, LgdtAt, Limit, TssAt, EndAt, LoadsAt, LoadAt
<1>5. CASE k \in {2, 3, 4, 9, 13, 14, 20}
  BY <1>1, <1>2, <1>3, <1>4, <1>5 DEF Fetched
<1>6. CASE k \in 15 .. 18
  BY <1>1, <1>2, <1>4, <1>6 DEF Fetched, DataRegs
<1>7. CASE k \in {1, 5, 6, 7, 8, 10, 11, 12, 19, 21, 22}
  BY <1>1, <1>2, <1>4, <1>7 DEF Fetched, KernelLoad
<1> QED BY <1>2, <1>5, <1>6, <1>7

\* The instructions of init_gdt.
LEMMA FetchInit ==
  /\ InitGdt[1] = <<"desc", 0, NullDesc>>
  /\ InitGdt[2] = <<"desc", 1, FlatDesc(0, "code")>>
  /\ InitGdt[3] = <<"desc", 2, FlatDesc(0, "data")>>
  /\ InitGdt[4] = <<"desc", 3, FlatDesc(3, "code")>>
  /\ InitGdt[5] = <<"desc", 4, FlatDesc(3, "data")>>
  /\ InitGdt[6] = <<"lgdt", 47>>
  /\ InitGdt[7] = <<"jump", KrnSel(1)>>
  /\ InitGdt[8] = <<"load", "ss", KrnSel(2)>>
  /\ InitGdt[9] = <<"load", "ds", KrnSel(2)>>
  /\ InitGdt[10] = <<"load", "es", KrnSel(2)>>
  /\ InitGdt[11] = <<"load", "fs", KrnSel(2)>>
  /\ InitGdt[12] = <<"load", "gs", KrnSel(2)>>
  /\ Len(InitGdt) = 12
BY DEF InitGdt, LoadKrn

\* The instructions of tp_exam are where the invariant has them.
LEMMA FetchTpExam ==
  ASSUME program = "tp_exam", NEW k \in 1 .. EndAt, eip = <<program, k>>
  PROVE  Fetched(k)
<1>1. /\ \A j \in 1 .. 12 : TpExam[j] = InitGdt[j]
      /\ TpExam[13] = <<"tss", KrnSel(2), "esp">>
      /\ TpExam[14] = <<"desc", 5, TssDesc>>
      /\ TpExam[15] = <<"ltr", KrnSel(5)>>
      /\ TpExam[16] = <<"load", "ds", UsrSel(4)>>
      /\ TpExam[17] = <<"load", "es", UsrSel(4)>>
      /\ TpExam[18] = <<"load", "fs", UsrSel(4)>>
      /\ TpExam[19] = <<"load", "gs", UsrSel(4)>>
      /\ TpExam[20] = <<"ret">>
  BY DEF TpExam, InitGdt, LoadKrn, LoadUser, TaskState
<1>2. Instruction = TpExam[k] /\ k \in 1 .. 20
  BY DEF Instruction, Code, EndAt
<1>3. /\ WrittenAt(0) = 1 /\ WrittenAt(1) = 2 /\ WrittenAt(2) = 3 /\ WrittenAt(3) = 4
      /\ WrittenAt(4) = 5 /\ WrittenAt(5) = 14
      /\ Written(0) = NullDesc /\ Written(1) = FlatDesc(0, "code")
      /\ Written(2) = FlatDesc(0, "data") /\ Written(3) = FlatDesc(3, "code")
      /\ Written(4) = FlatDesc(3, "data") /\ Written(5) = TssDesc
  BY DEF WrittenAt, Written, TaskIndex, UserIndex, TssAt
<1>4. /\ TaskIndex = 5 /\ UserIndex = 4 /\ LgdtAt = 6 /\ Limit = 47 /\ TssAt = 13 /\ EndAt = 20
      /\ LoadsAt = 15 /\ LoadAt("ds") = 16 /\ LoadAt("es") = 17 /\ LoadAt("fs") = 18
      /\ LoadAt("gs") = 19
  BY DEF TaskIndex, UserIndex, LgdtAt, Limit, TssAt, EndAt, LoadsAt, LoadAt
<1>5. CASE k \in 1 .. 5 \cup {14}
  BY <1>1, <1>2, <1>3, <1>4, <1>5, FetchInit DEF Fetched
<1>6. CASE k \in 8 .. 12 \cup 16 .. 19
  BY <1>1, <1>2, <1>4, <1>6, FetchInit DEF Fetched, KernelLoad, DataRegs
<1>7. CASE k \in {6, 7, 13, 15, 20}
  BY <1>1, <1>2, <1>4, <1>7, FetchInit DEF Fetched
<1> QED BY <1>2, <1>5, <1>6, <1>7

\* The instructions of tp3 are where the invariant has them.
LEMMA FetchTp3 ==
  ASSUME program = "tp3", NEW k \in 1 .. EndAt, eip = <<program, k>>
  PROVE  Fetched(k)
<1>1. /\ \A j \in 1 .. 12 : Tp3[j] = InitGdt[j]
      /\ Tp3[13] = <<"load", "ds", UsrSel(4)>>
      /\ Tp3[14] = <<"load", "es", UsrSel(4)>>
      /\ Tp3[15] = <<"load", "fs", UsrSel(4)>>
      /\ Tp3[16] = <<"load", "gs", UsrSel(4)>>
      /\ Tp3[17] = <<"tss", KrnSel(2), "ebp">>
      /\ Tp3[18] = <<"desc", 5, TssDesc>>
      /\ Tp3[19] = <<"ltr", KrnSel(5)>>
      /\ Tp3[20] = <<"push", UserFrame[1]>>
      /\ Tp3[21] = <<"push_ebp">>
      /\ Tp3[22] = <<"push", UserFrame[3]>>
      /\ Tp3[23] = <<"push", UserFrame[4]>>
      /\ Tp3[24] = <<"push", UserFrame[5]>>
      /\ Tp3[25] = <<"iret">>
  BY DEF Tp3, InitGdt, LoadKrn, LoadUser, TaskState, EnterRing3, UserFrame
<1>2. Instruction = Tp3[k] /\ k \in 1 .. 25
  BY DEF Instruction, Code, EndAt
<1>3. /\ WrittenAt(0) = 1 /\ WrittenAt(1) = 2 /\ WrittenAt(2) = 3 /\ WrittenAt(3) = 4
      /\ WrittenAt(4) = 5 /\ WrittenAt(5) = 18
      /\ Written(0) = NullDesc /\ Written(1) = FlatDesc(0, "code")
      /\ Written(2) = FlatDesc(0, "data") /\ Written(3) = FlatDesc(3, "code")
      /\ Written(4) = FlatDesc(3, "data") /\ Written(5) = TssDesc
  BY DEF WrittenAt, Written, TaskIndex, UserIndex, TssAt
<1>4. /\ TaskIndex = 5 /\ UserIndex = 4 /\ LgdtAt = 6 /\ Limit = 47 /\ TssAt = 17 /\ EndAt = 25
      /\ LoadsAt = 12 /\ LoadAt("ds") = 13 /\ LoadAt("es") = 14 /\ LoadAt("fs") = 15
      /\ LoadAt("gs") = 16
  BY DEF TaskIndex, UserIndex, LgdtAt, Limit, TssAt, EndAt, LoadsAt, LoadAt
<1>5. CASE k \in 1 .. 5 \cup {18}
  BY <1>1, <1>2, <1>3, <1>4, <1>5, FetchInit DEF Fetched
<1>6. CASE k \in 8 .. 12 \cup 13 .. 16
  BY <1>1, <1>2, <1>4, <1>6, FetchInit DEF Fetched, KernelLoad, DataRegs
<1>7. CASE k \in {6, 7, 17, 19, 25}
  BY <1>1, <1>2, <1>4, <1>7, FetchInit DEF Fetched
<1>8. CASE k \in 20 .. 24
  BY <1>1, <1>2, <1>4, <1>8 DEF Fetched
<1> QED BY <1>2, <1>5, <1>6, <1>7, <1>8

\* The instructions of tp5 are where the invariant has them.
LEMMA FetchTp5 ==
  ASSUME program = "tp5", NEW k \in 1 .. EndAt, eip = <<program, k>>
  PROVE  Fetched(k)
<1>1. /\ \A j \in 1 .. 12 : Tp5[j] = InitGdt[j]
      /\ Tp5[13] = <<"gate", 48, "syscall_isr", 3>>
      /\ Tp5[14] = <<"load", "ds", UsrSel(4)>>
      /\ Tp5[15] = <<"load", "es", UsrSel(4)>>
      /\ Tp5[16] = <<"load", "fs", UsrSel(4)>>
      /\ Tp5[17] = <<"load", "gs", UsrSel(4)>>
      /\ Tp5[18] = <<"tss", KrnSel(2), "ebp">>
      /\ Tp5[19] = <<"desc", 5, TssDesc>>
      /\ Tp5[20] = <<"ltr", KrnSel(5)>>
      /\ Tp5[21] = <<"push", UserFrame[1]>>
      /\ Tp5[22] = <<"push", UserFrame[2]>>
      /\ Tp5[23] = <<"push", UserFrame[3]>>
      /\ Tp5[24] = <<"push", UserFrame[4]>>
      /\ Tp5[25] = <<"push", UserFrame[5]>>
      /\ Tp5[26] = <<"iret">>
  BY DEF Tp5, InitGdt, LoadKrn, LoadUser, TaskState, EnterRing3, UserFrame
<1>2. Instruction = Tp5[k] /\ k \in 1 .. 26
  BY DEF Instruction, Code, EndAt
<1>3. /\ WrittenAt(0) = 1 /\ WrittenAt(1) = 2 /\ WrittenAt(2) = 3 /\ WrittenAt(3) = 4
      /\ WrittenAt(4) = 5 /\ WrittenAt(5) = 19
      /\ Written(0) = NullDesc /\ Written(1) = FlatDesc(0, "code")
      /\ Written(2) = FlatDesc(0, "data") /\ Written(3) = FlatDesc(3, "code")
      /\ Written(4) = FlatDesc(3, "data") /\ Written(5) = TssDesc
  BY DEF WrittenAt, Written, TaskIndex, UserIndex, TssAt
<1>4. /\ TaskIndex = 5 /\ UserIndex = 4 /\ LgdtAt = 6 /\ Limit = 47 /\ TssAt = 18 /\ EndAt = 26
      /\ LoadsAt = 13 /\ LoadAt("ds") = 14 /\ LoadAt("es") = 15 /\ LoadAt("fs") = 16
      /\ LoadAt("gs") = 17
  BY DEF TaskIndex, UserIndex, LgdtAt, Limit, TssAt, EndAt, LoadsAt, LoadAt
<1>5. CASE k \in 1 .. 5 \cup {19}
  BY <1>1, <1>2, <1>3, <1>4, <1>5, FetchInit DEF Fetched
<1>6. CASE k \in 8 .. 12 \cup 14 .. 17
  BY <1>1, <1>2, <1>4, <1>6, FetchInit DEF Fetched, KernelLoad, DataRegs
<1>7. CASE k \in {6, 7, 13, 18, 20, 26}
  BY <1>1, <1>2, <1>4, <1>7, FetchInit DEF Fetched
<1>8. CASE k \in 21 .. 25
  BY <1>1, <1>2, <1>4, <1>8 DEF Fetched
<1> QED BY <1>2, <1>5, <1>6, <1>7, <1>8
-----------------------------------------------------------------------------
(***************************************************************************)
(* The steps of the programs that load segments.                           *)
(***************************************************************************)
Steady == Stored /\ Results /\ Physical

\* A program does not change, and neither do the places in it.
LEMMA Fixed ==
  ASSUME program' = program
  PROVE  /\ LgdtAt' = LgdtAt /\ TssAt' = TssAt /\ EndAt' = EndAt /\ Limit' = Limit
         /\ TaskIndex' = TaskIndex /\ UserIndex' = UserIndex /\ TssTop' = TssTop
         /\ UserCode' = UserCode /\ UserData' = UserData /\ UserFrame' = UserFrame
         /\ \A reg \in DataRegs : LoadAt(reg)' = LoadAt(reg)
         /\ \A i \in 0 .. 6 : WrittenAt(i)' = WrittenAt(i) /\ Written(i)' = Written(i)
         /\ \A k \in Nat : Pushes(k)' = Pushes(k)
<1>1. /\ LgdtAt' = LgdtAt /\ TssAt' = TssAt /\ EndAt' = EndAt /\ Limit' = Limit
      /\ LoadsAt' = LoadsAt /\ TaskIndex' = TaskIndex /\ UserIndex' = UserIndex /\ TssTop' = TssTop
  BY DEF LgdtAt, TssAt, EndAt, Limit, LoadsAt, TaskIndex, UserIndex, TssTop
<1>2. UserCode' = UserCode /\ UserData' = UserData
  BY <1>1 DEF UserCode, UserData
<1>3. UserFrame' = UserFrame BY DEF UserFrame
<1>4. \A reg \in DataRegs : LoadAt(reg)' = LoadAt(reg) BY <1>1 DEF LoadAt
<1>5. \A i \in 0 .. 6 : WrittenAt(i)' = WrittenAt(i) BY <1>1 DEF WrittenAt
<1>6. \A i \in 0 .. 6 : Written(i)' = Written(i) BY <1>1 DEF Written
<1>7. \A k \in Nat : Pushes(k)' = Pushes(k) BY <1>1 DEF Pushes
<1> QED BY <1>1, <1>2, <1>3, <1>4, <1>5, <1>6, <1>7

\* No two of these places are one.
LEMMA Places ==
  ASSUME program \in Loaders
  PROVE  /\ TaskIndex \in {5, 6} /\ LgdtAt \in Nat /\ TssAt \in Nat /\ EndAt \in Nat
         /\ TssAt # LgdtAt /\ TssAt + 2 # LgdtAt /\ TssAt > LgdtAt
         /\ \A i \in 0 .. TaskIndex : WrittenAt(i) \in Nat /\ WrittenAt(i) \notin {LgdtAt, TssAt, TssAt + 2}
         /\ \A i, j \in 0 .. TaskIndex : WrittenAt(i) = WrittenAt(j) => i = j
         /\ \A reg \in DataRegs :
              /\ LoadAt(reg) \in Nat /\ LoadAt(reg) \notin {LgdtAt, TssAt, TssAt + 2}
              /\ \A i \in 0 .. TaskIndex : LoadAt(reg) # WrittenAt(i)
              /\ \A other \in DataRegs : LoadAt(reg) = LoadAt(other) => reg = other
         /\ TssAt + 2 < EndAt
<1>1. /\ TaskIndex \in {5, 6} /\ LgdtAt \in {5, 6} /\ TssAt \in {13, 17, 18, 19}
      /\ EndAt \in Nat /\ TssAt + 2 < EndAt
  BY DEF Loaders, TaskIndex, LgdtAt, TssAt, EndAt
<1>2. \A i \in 0 .. TaskIndex : WrittenAt(i) \in Nat /\ WrittenAt(i) \notin {LgdtAt, TssAt, TssAt + 2}
  BY DEF Loaders, TaskIndex, LgdtAt, TssAt, WrittenAt
<1>3. \A i, j \in 0 .. TaskIndex : WrittenAt(i) = WrittenAt(j) => i = j
  BY DEF Loaders, TaskIndex, TssAt, WrittenAt
<1>4. \A reg \in DataRegs : LoadAt(reg) \in Nat /\ LoadAt(reg) \notin {LgdtAt, TssAt, TssAt + 2}
  BY DEF Loaders, DataRegs, LoadAt, LoadsAt, LgdtAt, TssAt
<1>5. \A reg \in DataRegs : \A i \in 0 .. TaskIndex : LoadAt(reg) # WrittenAt(i)
  BY DEF Loaders, DataRegs, LoadAt, LoadsAt, WrittenAt, TaskIndex, TssAt
<1>6. \A reg, other \in DataRegs : LoadAt(reg) = LoadAt(other) => reg = other
  BY DEF Loaders, DataRegs, LoadAt, LoadsAt
<1> QED BY <1>1, <1>2, <1>3, <1>4, <1>5, <1>6

\* What an instruction leaves alone.
LEMMA TablesKept ==
  ASSUME program \in Loaders, NEW k \in Nat, TablesAt(k), UNCHANGED <<program, gdt, gdtr, tr, tss>>,
         \A i \in 0 .. TaskIndex : k # WrittenAt(i), k \notin {LgdtAt, TssAt, TssAt + 2}
  PROVE  TablesAt(k + 1)'
<1>1. \A i \in 0 .. TaskIndex : k + 1 > WrittenAt(i) => k > WrittenAt(i) BY Places
<1>2. (k + 1 > LgdtAt <=> k > LgdtAt) /\ (k + 1 > TssAt <=> k > TssAt)
      /\ (k + 1 > TssAt + 2 <=> k > TssAt + 2)
  BY Places
<1>3. TaskIndex \in {5, 6} BY Places
<1> QED BY <1>1, <1>2, <1>3, Fixed DEF TablesAt

\* And of the data segments.
LEMMA DataKept ==
  ASSUME program \in Loaders, NEW k \in Nat, \A reg \in DataRegs : DataIs(reg, k), UNCHANGED <<program, seg>>,
         \A reg \in DataRegs : k # LoadAt(reg), program = "tp1" => k # 11
  PROVE  \A reg \in DataRegs : DataIs(reg, k + 1)'
<1>1. SUFFICES ASSUME NEW reg \in DataRegs PROVE DataIs(reg, k + 1)' OBVIOUS
<1>2. k + 1 > LoadAt(reg) <=> k > LoadAt(reg) BY Places
<1>3. program = "tp1" /\ reg = "es" => (k + 1 \in 12 .. 16 <=> k \in 12 .. 16)
  BY DEF LoadAt, LoadsAt
<1> QED BY <1>1, <1>2, <1>3, Fixed DEF DataIs

\* No instruction needs paging, or a data segment that is not there.
LEMMA CanRun ==
  ASSUME Steady
  PROVE  Reachable(KernelFrame) /\ Reachable(GdtFrame)
BY TableSize DEF Steady, Physical, Reachable, Frame, KernelFrame, GdtFrame

\* C code can address its data through each of the four registers.
LEMMA DataUsable ==
  ASSUME NEW k, NEW reg \in DataRegs, DataIs(reg, k)
  PROVE  seg[reg].desc.kind = "data"
BY DEF DataIs, UserData, KernelData, Loaded, FlatDesc, LowData, Descriptor

\* The instruction that a program comes to next.
Onward(k) == Steady' /\ program' = program /\ k + 1 \in 1 .. EndAt /\ InTp(k + 1)'

\* A descriptor is written in the program's own table.
LEMMA OwnTable ==
  ASSUME NEW t \in [grub : {LoaderTable}, own : [0 .. 6 -> Descriptors]],
         NEW i \in 0 .. 6, NEW desc, NEW u, u = [t EXCEPT !["own"][i] = desc]
  PROVE  t["own"] \in [0 .. 6 -> Descriptors] /\ u["own"] = [t["own"] EXCEPT ![i] = desc]
OBVIOUS

\* A descriptor that is written is the one the invariant expects from then on.
LEMMA DescStep ==
  ASSUME program \in Loaders, Steady, NEW k \in 1 .. EndAt, InTp(k), Describe,
         NEW i \in 0 .. TaskIndex, k = WrittenAt(i), Instruction = <<"desc", i, Written(i)>>
  PROVE  Onward(k)
<1>1. /\ gdt' = [gdt EXCEPT !["own"][i] = Written(i)] /\ eip' = <<program, k + 1>>
      /\ UNCHANGED <<program, gdtr, seg, ring, tr, tss, paging, esp, ebp, gpr, stack, gates,
                     shown, copied, caller>>
  BY DEF Describe, Arg, Continue, Following, InTp
<1>2. k < EndAt /\ k \notin {LgdtAt, TssAt, TssAt + 2} /\ \A reg \in DataRegs : k # LoadAt(reg)
  BY Places DEF WrittenAt, EndAt, TssAt, TaskIndex, Loaders
<1>3. Written(i) \in Descriptors /\ i \in 0 .. 6
  BY Places DEF Written, Descriptors, LowData
<1>4. Steady'
  <2>1. gdt' \in [grub : {LoaderTable}, own : [0 .. 6 -> Descriptors]]
    BY <1>1, <1>3 DEF Steady, Stored
  <2>2. Stored' BY <1>1, <2>1 DEF Steady, Stored
  <2>3. Results' BY <1>1 DEF Steady, Results
  <2>4. Physical' BY <1>1 DEF Steady, Physical, paging
  <2> QED BY <2>2, <2>3, <2>4 DEF Steady
<1>5. \A j \in 0 .. TaskIndex : k + 1 > WrittenAt(j) => j = i \/ k > WrittenAt(j)
  BY Places
<1>6. gdt'["own"] = [gdt["own"] EXCEPT ![i] = Written(i)] /\ gdt["own"] \in [0 .. 6 -> Descriptors]
  BY <1>1, <1>3, OwnTable DEF Steady, Stored
<1>7. i = TaskIndex => tr = 0
  BY Places DEF InTp, InKernel, TablesAt, WrittenAt
<1>8. (k + 1 > LgdtAt <=> k > LgdtAt) /\ (k + 1 > TssAt <=> k > TssAt)
      /\ (k + 1 > TssAt + 2 <=> k > TssAt + 2)
  BY <1>2, Places
<1>9. TablesAt(k + 1)'
  <2>1. TablesAt(k) BY DEF InTp, InKernel
  <2>2. ASSUME NEW j \in 0 .. TaskIndex, k + 1 > WrittenAt(j)
        PROVE  gdt'["own"][j] = IF j = TaskIndex /\ tr # 0 THEN BusyTss ELSE Written(j)
    <3>1. CASE j = i BY <1>3, <1>6, <1>7, <3>1
    <3>2. CASE j # i
      <4>1. k > WrittenAt(j) BY <1>5, <2>2, <3>2
      <4>2. gdt'["own"][j] = gdt["own"][j] BY <1>6, <2>2, <3>2, Places
      <4> QED BY <2>1, <2>2, <4>1, <4>2 DEF TablesAt
    <3> QED BY <3>1, <3>2
  <2>3. /\ gdtr = IF k + 1 > LgdtAt THEN [table |-> "own", limit |-> Limit]
                                   ELSE [table |-> "grub", limit |-> 39]
        /\ k + 1 > TssAt => tss = [ss |-> KrnSel(2), esp |-> TssTop]
        /\ tr = IF k + 1 > TssAt + 2 THEN TaskIndex ELSE 0
    BY <1>8, <2>1 DEF TablesAt
  <2>4. \A j \in 0 .. TaskIndex : WrittenAt(j)' = WrittenAt(j) /\ Written(j)' = Written(j)
    BY <1>1, Fixed, Places
  <2>5. TaskIndex' = TaskIndex /\ LgdtAt' = LgdtAt /\ Limit' = Limit /\ TssAt' = TssAt
        /\ TssTop' = TssTop
    BY <1>1, Fixed
  <2> QED BY <1>1, <2>2, <2>3, <2>4, <2>5 DEF TablesAt
<1>10. InKernel(k + 1)'
  <2>1. program = "tp1" => k # 11 BY DEF WrittenAt, TaskIndex, TssAt
  <2> QED BY <1>1, <1>2, <1>9, <2>1, DataKept DEF InTp, InKernel
<1>11. Pushes(k + 1) = Pushes(k) /\ Pushes(k) = 0 /\ (program = "tp5" => k # 13)
  BY DEF Pushes, WrittenAt, TaskIndex, TssAt, Loaders
<1>12. InTp(k + 1)'
  BY <1>1, <1>10, <1>11, Fixed DEF InTp, Loaders
<1> QED BY <1>1, <1>2, <1>4, <1>12, Places DEF Onward

\* An instruction after which the tables, the segments and the stack are as before.
Ordinary(k) ==
  /\ k < EndAt /\ k \notin {LgdtAt, TssAt, TssAt + 2} /\ \A i \in 0 .. TaskIndex : k # WrittenAt(i)
  /\ \A reg \in DataRegs : k # LoadAt(reg)
  /\ program = "tp1" => k # 11
  /\ Pushes(k + 1) = Pushes(k)

\* After such an instruction the program is at the next.
LEMMA OrdinaryStep ==
  ASSUME program \in Loaders, NEW k \in 1 .. EndAt, InTp(k), Ordinary(k),
         eip' = <<program, k + 1>>,
         UNCHANGED <<program, gdt, gdtr, seg, ring, tr, tss, esp, ebp, stack, caller>>,
         IF program = "tp5" /\ k = 13
         THEN gates' = [gates EXCEPT ![48] = [handler |-> "syscall_isr", dpl |-> 3]]
         ELSE UNCHANGED gates,
         Stored
  PROVE  k + 1 \in 1 .. EndAt /\ InTp(k + 1)'
<1>1. TablesAt(k + 1)' BY TablesKept DEF InTp, InKernel, Ordinary
<1>2. InKernel(k + 1)' BY <1>1, DataKept DEF InTp, InKernel, Ordinary
<1>3. gates[3] = [handler |-> "stub", dpl |-> 0] /\ gates'[3] = gates[3] BY DEF InTp, Loaders, Stored
<1>4. gates'[48] = IF program = "tp5" /\ k + 1 > 13 THEN [handler |-> "syscall_isr", dpl |-> 3]
                                                     ELSE [handler |-> "stub", dpl |-> 0]
  BY DEF InTp, Stored
<1> QED BY <1>2, <1>3, <1>4, Fixed, Places DEF InTp, Ordinary, Loaders

\* print_gdt_content prints the descriptors of the table in use, all of them.
LEMMA PrintStep ==
  ASSUME program \in Loaders, Steady, NEW k \in 1 .. EndAt, InTp(k), Printf,
         program = "tp1", k \in {1, 8, 10}, Instruction = <<"print_gdt">>
  PROVE  Onward(k)
<1>1. /\ shown' = <<"gdt", {i \in 0 .. 15 : 8 * i < gdtr.limit}>> /\ eip' = <<program, k + 1>>
      /\ gpr' = Scratch
      /\ UNCHANGED <<program, gdt, gdtr, seg, ring, tr, tss, paging, esp, ebp, stack, gates,
                     copied, caller>>
  BY DEF Printf, Shows, Continue, Following, InTp, segmentation
<1>2. {i \in 0 .. 15 : 8 * i < gdtr.limit} \in {0 .. 4, 0 .. 6}
  <2>1. gdtr.limit \in {39, 55} BY DEF InTp, InKernel, TablesAt, Limit
  <2>2. CASE gdtr.limit = 39
    <3>1. {i \in 0 .. 15 : 8 * i < 39} = 0 .. 4 OBVIOUS
    <3> QED BY <2>2, <3>1
  <2>3. CASE gdtr.limit = 55
    <3>1. {i \in 0 .. 15 : 8 * i < 55} = 0 .. 6 OBVIOUS
    <3> QED BY <2>3, <3>1
  <2> QED BY <2>1, <2>2, <2>3
<1>3. Steady' BY <1>1, <1>2 DEF Steady, Stored, Results, Physical, paging, Gprs
<1>4. Ordinary(k)
  BY DEF Ordinary, EndAt, LgdtAt, TssAt, WrittenAt, TaskIndex, LoadAt, LoadsAt, DataRegs, Pushes
<1> QED BY <1>1, <1>3, <1>4, OrdinaryStep DEF Onward, Steady

\* The copy goes through the segment of 32 bytes.
LEMMA CopyStep ==
  ASSUME program \in Loaders, Steady, NEW k \in 1 .. EndAt, InTp(k), Copy,
         program = "tp1", k = 12, Instruction = <<"copy", 32>>
  PROVE  Onward(k)
<1>1. /\ copied' = <<seg["es"].desc.base, 32>> /\ eip' = <<program, k + 1>>
      /\ UNCHANGED <<program, gdt, gdtr, seg, ring, tr, tss, paging, esp, ebp, gpr, stack, gates,
                     shown, caller>>
  BY DEF Copy, Arg, Continue, Following, InTp, segmentation
<1>2. seg["es"].desc.base = 6291456
  BY DEF InTp, InKernel, DataIs, DataRegs, LoadAt, LoadsAt, Loaded, LowData, Descriptor
<1>3. Steady' BY <1>1, <1>2 DEF Steady, Stored, Results, Physical, paging
<1>4. Ordinary(k)
  BY DEF Ordinary, EndAt, LgdtAt, TssAt, WrittenAt, TaskIndex, LoadAt, LoadsAt, DataRegs, Pushes
<1> QED BY <1>1, <1>3, <1>4, OrdinaryStep DEF Onward, Steady

\* The gate of int 48 is open to ring 3.
LEMMA GateStep ==
  ASSUME program \in Loaders, Steady, NEW k \in 1 .. EndAt, InTp(k), SetGate,
         program = "tp5", k = 13, Instruction = <<"gate", 48, "syscall_isr", 3>>
  PROVE  Onward(k)
<1>1. /\ gates' = [gates EXCEPT ![48] = [handler |-> "syscall_isr", dpl |-> 3]]
      /\ eip' = <<program, k + 1>>
      /\ UNCHANGED <<program, gdt, gdtr, seg, ring, tr, tss, paging, esp, ebp, gpr, stack,
                     shown, copied, caller>>
  BY DEF SetGate, Arg, Continue, Following, InTp, segmentation
<1>2. Steady' BY <1>1 DEF Steady, Stored, Results, Physical, paging, Flags
<1>3. Ordinary(k)
  BY DEF Ordinary, EndAt, LgdtAt, TssAt, WrittenAt, TaskIndex, LoadAt, LoadsAt, DataRegs, Pushes
<1> QED BY <1>1, <1>2, <1>3, OrdinaryStep DEF Onward, Steady

\* A register is loaded with what it holds: the far jump, the loads of kernel data.
LEMMA ReloadStep ==
  ASSUME program \in Loaders, Steady, NEW k \in 1 .. EndAt, InTp(k), SetSegment,
         NEW reg \in SegRegs, NEW sel, seg[reg] = Loaded(sel, Entry(sel)),
         \/ Instruction = <<"load", reg, sel>>
         \/ Instruction = <<"jump", sel>> /\ reg = "cs",
         k > LgdtAt, k \in 6 .. 12, program = "tp1" => k < 8
  PROVE  Onward(k)
<1>1. /\ seg' = [seg EXCEPT ![reg] = Loaded(sel, Entry(sel))]
      /\ eip' = <<program, k + 1>>
      /\ UNCHANGED <<program, gdt, gdtr, ring, tr, tss, paging, esp, ebp, gpr, stack, gates,
                     shown, copied, caller>>
  BY DEF SetSegment, At, Load, Arg, Continue, Following, InTp
<1>2. seg' = seg BY <1>1 DEF Steady, Stored
<1>3. Steady' BY <1>1, <1>2 DEF Steady, Stored, Results, Physical, paging
<1>4. Ordinary(k)
  BY DEF Ordinary, EndAt, LgdtAt, TssAt, WrittenAt, TaskIndex, LoadAt, LoadsAt, DataRegs, Pushes,
         Loaders
<1>5. ~(program = "tp5" /\ k = 13) OBVIOUS
<1> QED BY <1>1, <1>2, <1>3, <1>4, <1>5, OrdinaryStep DEF Onward, Steady

\* The selectors of ring 3 name its segments once the table is in use.
LEMMA UserEntries ==
  ASSUME program \in Loaders, NEW k \in 1 .. EndAt, TablesAt(k), k > LoadsAt
  PROVE  Entry(UsrSel(UserIndex)) = FlatDesc(3, "data")
         /\ Entry(UsrSel(UserIndex - 1)) = FlatDesc(3, "code")
<1>1. gdtr = [table |-> "own", limit |-> Limit]
  BY DEF TablesAt, LgdtAt, LoadsAt, Loaders
<1>2. gdt["own"][UserIndex] = FlatDesc(3, "data") /\ gdt["own"][UserIndex - 1] = FlatDesc(3, "code")
  BY DEF TablesAt, WrittenAt, Written, UserIndex, TaskIndex, LoadsAt, Loaders
<1> QED BY <1>1, <1>2 DEF Entry, UsrSel, Limit, UserIndex, TaskIndex

\* A data register is loaded with the segment of ring 3.
LEMMA UserLoadStep ==
  ASSUME program \in Loaders, Steady, NEW k \in 1 .. EndAt, InTp(k), SetSegment,
         NEW reg \in DataRegs, k = LoadAt(reg), Instruction = <<"load", reg, UsrSel(UserIndex)>>
  PROVE  Onward(k)
<1>1. k > LoadsAt BY DEF LoadAt, LoadsAt, DataRegs, Loaders
<1>2. Entry(UsrSel(UserIndex)) = FlatDesc(3, "data") BY <1>1, UserEntries DEF InTp, InKernel
<1>3. /\ seg' = [seg EXCEPT ![reg] = UserData]
      /\ eip' = <<program, k + 1>>
      /\ UNCHANGED <<program, gdt, gdtr, ring, tr, tss, paging, esp, ebp, gpr, stack, gates,
                     shown, copied, caller>>
  BY <1>2 DEF SetSegment, At, Load, Arg, Continue, Following, InTp, UserData
<1>4. UserData \in [sel : Selectors, desc : Descriptors]
  BY DEF UserData, Loaded, UsrSel, Selectors, Descriptors, UserIndex, TaskIndex
<1>5. Steady'
  <2>1. seg' \in [SegRegs -> [sel : Selectors, desc : Descriptors]]
    BY <1>3, <1>4 DEF Steady, Stored
  <2> QED BY <1>3, <2>1 DEF Steady, Stored, Results, Physical, paging
<1>6. TablesAt(k + 1)' BY <1>3, TablesKept, Places DEF InTp, InKernel
<1>7. seg \in [SegRegs -> [sel : Selectors, desc : Descriptors]] /\ DataRegs \subseteq SegRegs
  BY DEF Steady, Stored, DataRegs, SegRegs
<1>8. \A other \in DataRegs : DataIs(other, k + 1)'
  <2>1. SUFFICES ASSUME NEW other \in DataRegs PROVE DataIs(other, k + 1)' OBVIOUS
  <2>2. CASE other = reg
    <3>1. k + 1 > LoadAt(reg) BY Places
    <3>2. ~(program = "tp1" /\ reg = "es" /\ k + 1 \in 12 .. 16)
      BY DEF LoadAt, LoadsAt, DataRegs
    <3>3. seg'[reg] = UserData BY <1>3, <1>7
    <3> QED BY <1>3, <2>2, <3>1, <3>2, <3>3, Fixed DEF DataIs
  <2>3. CASE other # reg
    <3>1. k + 1 > LoadAt(other) <=> k > LoadAt(other) BY <2>3, Places
    <3>2. seg'[other] = seg[other] BY <1>3, <1>7, <2>3
    <3>3. program = "tp1" /\ other = "es" => (k + 1 \in 12 .. 16 <=> k \in 12 .. 16)
      BY <2>3 DEF LoadAt, LoadsAt, DataRegs
    <3> QED BY <1>3, <3>1, <3>2, <3>3, Fixed DEF DataIs, InTp, InKernel
  <2> QED BY <2>2, <2>3
<1>9. InKernel(k + 1)'
  BY <1>3, <1>6, <1>7, <1>8 DEF InTp, InKernel, DataRegs, SegRegs
<1>10. k + 1 \in 1 .. EndAt /\ Pushes(k) = 0 /\ Pushes(k + 1) = 0 /\ (program = "tp5" => k # 13)
  BY DEF LoadAt, LoadsAt, EndAt, Pushes, TssAt, Loaders, DataRegs
<1>11. InTp(k + 1)' BY <1>3, <1>9, <1>10, Fixed DEF InTp, Loaders
<1> QED BY <1>3, <1>5, <1>10, <1>11 DEF Onward

\* ES is loaded with the segment of 32 bytes.
LEMMA LowLoadStep ==
  ASSUME program \in Loaders, Steady, NEW k \in 1 .. EndAt, InTp(k), SetSegment,
         program = "tp1", k = 11, Instruction = <<"load", "es", KrnSel(3)>>
  PROVE  Onward(k)
<1>1. Entry(KrnSel(3)) = LowData
  BY DEF InTp, InKernel, TablesAt, Entry, KrnSel, LgdtAt, Limit, WrittenAt, Written, TaskIndex, UserIndex
<1>2. /\ seg' = [seg EXCEPT !["es"] = Loaded(KrnSel(3), LowData)]
      /\ eip' = <<program, k + 1>>
      /\ UNCHANGED <<program, gdt, gdtr, ring, tr, tss, paging, esp, ebp, gpr, stack, gates,
                     shown, copied, caller>>
  BY <1>1 DEF SetSegment, At, Load, Arg, Continue, Following, InTp
<1>3. Loaded(KrnSel(3), LowData) \in [sel : Selectors, desc : Descriptors]
  BY DEF Loaded, KrnSel, Selectors, Descriptors, LowData
<1>4. Steady'
  <2>1. seg' \in [SegRegs -> [sel : Selectors, desc : Descriptors]]
    BY <1>2, <1>3 DEF Steady, Stored
  <2> QED BY <1>2, <2>1 DEF Steady, Stored, Results, Physical, paging
<1>5. k \notin {LgdtAt, TssAt, TssAt + 2} /\ (\A i \in 0 .. TaskIndex : k # WrittenAt(i)) /\ k < EndAt
      /\ Pushes(k + 1) = Pushes(k) /\ \A reg \in DataRegs : k + 1 <= LoadAt(reg)
  BY DEF EndAt, LgdtAt, TssAt, WrittenAt, TaskIndex, LoadAt, LoadsAt, DataRegs, Pushes
<1>6. TablesAt(k + 1)' BY <1>2, <1>5, TablesKept DEF InTp, InKernel
<1>7. seg \in [SegRegs -> [sel : Selectors, desc : Descriptors]] BY DEF Steady, Stored
<1>8. \A reg \in DataRegs : DataIs(reg, k + 1)'
  <2>1. SUFFICES ASSUME NEW reg \in DataRegs PROVE DataIs(reg, k + 1)' OBVIOUS
  <2>2. ~(k > LoadAt(reg)) /\ ~(k + 1 > LoadAt(reg)') /\ k + 1 = 12
    BY <1>2, <1>5, Fixed, Places
  <2>3. CASE reg = "es"
    <3>1. seg'[reg] = Loaded(KrnSel(3), LowData) BY <1>2, <1>7, <2>3 DEF SegRegs
    <3> QED BY <1>2, <2>2, <2>3, <3>1 DEF DataIs
  <2>4. CASE reg # "es"
    <3>1. seg'[reg] = seg[reg] BY <1>2, <1>7, <2>4 DEF SegRegs, DataRegs
    <3> QED BY <1>2, <2>2, <2>4, <3>1 DEF DataIs, InTp, InKernel
  <2> QED BY <2>3, <2>4
<1>9. InKernel(k + 1)'
  BY <1>2, <1>6, <1>7, <1>8 DEF InTp, InKernel, SegRegs
<1>10. InTp(k + 1)' BY <1>2, <1>5, <1>9, Fixed DEF InTp
<1> QED BY <1>2, <1>4, <1>5, <1>10, Places DEF Onward

\* The table that is put in use is full.
LEMMA LgdtStep ==
  ASSUME program \in Loaders, Steady, NEW k \in 1 .. EndAt, InTp(k), SetGdtr,
         k = LgdtAt, Instruction = <<"lgdt", Limit>>
  PROVE  Onward(k)
<1>1. /\ gdtr' = [table |-> "own", limit |-> Limit]
      /\ eip' = <<program, k + 1>>
      /\ UNCHANGED <<program, gdt, seg, ring, tr, tss, paging, esp, ebp, gpr, stack, gates,
                     shown, copied, caller>>
  BY DEF SetGdtr, Lgdt, Arg, Continue, Following, InTp
<1>2. Steady' BY <1>1 DEF Steady, Stored, Results, Physical, paging, Limit
<1>3. k \notin {TssAt, TssAt + 2} /\ (\A i \in 0 .. TaskIndex : k # WrittenAt(i)) /\ k + 1 \in 1 .. EndAt
      /\ Pushes(k + 1) = Pushes(k) /\ (\A reg \in DataRegs : k # LoadAt(reg))
      /\ (program = "tp1" => k # 11) /\ (program = "tp5" => k # 13)
  BY DEF EndAt, LgdtAt, TssAt, WrittenAt, TaskIndex, LoadAt, LoadsAt, DataRegs, Pushes, Loaders
<1>4. \A i \in 0 .. TaskIndex : k + 1 > WrittenAt(i) => k > WrittenAt(i) BY <1>3, Places
<1>5. k + 1 > LgdtAt /\ (k + 1 > TssAt <=> k > TssAt) /\ (k + 1 > TssAt + 2 <=> k > TssAt + 2)
  BY <1>3, Places
<1>6. TablesAt(k + 1)'
  <2>1. TaskIndex \in {5, 6} BY Places
  <2>2. TablesAt(k) BY DEF InTp, InKernel
  <2>3. gdtr' = IF k + 1 > LgdtAt' THEN [table |-> "own", limit |-> Limit']
                                   ELSE [table |-> "grub", limit |-> 39]
    BY <1>1, <1>5, Fixed
  <2> QED BY <1>1, <1>4, <1>5, <2>1, <2>2, <2>3, Fixed DEF TablesAt
<1>7. InKernel(k + 1)' BY <1>1, <1>3, <1>6, DataKept DEF InTp, InKernel
<1>8. InTp(k + 1)' BY <1>1, <1>3, <1>7, Fixed DEF InTp, Loaders
<1> QED BY <1>1, <1>2, <1>3, <1>8 DEF Onward

\* The TSS gets the stack of tp().
LEMMA TssStep ==
  ASSUME program \in Loaders, Steady, NEW k \in 1 .. EndAt, InTp(k), SetTss, k = TssAt,
         Instruction = <<"tss", KrnSel(2), IF program = "tp_exam" THEN "esp" ELSE "ebp">>
  PROVE  Onward(k)
<1>1. k \notin {LgdtAt, TssAt + 2} /\ (\A i \in 0 .. TaskIndex : k # WrittenAt(i)) /\ k + 1 \in 1 .. EndAt
      /\ Pushes(k + 1) = 0 /\ Pushes(k) = 0 /\ (\A reg \in DataRegs : k # LoadAt(reg))
      /\ (program = "tp1" => k # 11) /\ (program = "tp5" => k # 13)
  BY DEF EndAt, LgdtAt, TssAt, WrittenAt, TaskIndex, LoadAt, LoadsAt, DataRegs, Pushes, Loaders
<1>2. /\ tss' = [ss |-> KrnSel(2), esp |-> TssTop]
      /\ eip' = <<program, k + 1>>
      /\ UNCHANGED <<program, gdt, gdtr, seg, ring, tr, paging, esp, ebp, gpr, stack, gates,
                     shown, copied, caller>>
  BY <1>1 DEF SetTss, Arg, Continue, Following, InTp, TssTop, KernelTop
<1>3. Steady'
  BY <1>2 DEF Steady, Stored, Results, Physical, paging, TssTop, KernelTop, Stacks, UserTop, KrnSel,
       Selectors
<1>4. \A i \in 0 .. TaskIndex : k + 1 > WrittenAt(i) => k > WrittenAt(i) BY <1>1, Places
<1>5. (k + 1 > LgdtAt <=> k > LgdtAt) /\ (k + 1 > TssAt + 2 <=> k > TssAt + 2)
  BY <1>1, Places
<1>6. TablesAt(k + 1)'
  <2>1. TaskIndex \in {5, 6} BY Places
  <2>2. TablesAt(k) BY DEF InTp, InKernel
  <2> QED BY <1>2, <1>4, <1>5, <2>1, <2>2, Fixed DEF TablesAt
<1>7. InKernel(k + 1)'
  <2>1. \A reg \in DataRegs : DataIs(reg, k + 1)'
    BY <1>1, <1>2, DataKept DEF InTp, InKernel
  <2> QED BY <1>2, <1>6, <2>1 DEF InTp, InKernel
<1>8. InTp(k + 1)' BY <1>1, <1>2, <1>7, Fixed DEF InTp, Loaders
<1> QED BY <1>1, <1>2, <1>3, <1>8 DEF Onward

\* The descriptor of the TSS, which is available, becomes busy.
LEMMA LtrStep ==
  ASSUME program \in Loaders, Steady, NEW k \in 1 .. EndAt, InTp(k), SetTr, k = TssAt + 2,
         Instruction = <<"ltr", KrnSel(TaskIndex)>>
  PROVE  Onward(k)
<1>1. k \notin {LgdtAt, TssAt} /\ (\A i \in 0 .. TaskIndex : k # WrittenAt(i)) /\ k + 1 \in 1 .. EndAt
      /\ Pushes(k + 1) = 0 /\ Pushes(k) = 0 /\ (\A reg \in DataRegs : k # LoadAt(reg))
      /\ (program = "tp1" => k # 11) /\ (program = "tp5" => k # 13)
  BY DEF EndAt, LgdtAt, TssAt, WrittenAt, TaskIndex, LoadAt, LoadsAt, DataRegs, Pushes, Loaders
<1>2. TaskIndex \in {5, 6} /\ TaskIndex # 0 BY Places
<1>3. gdtr.table = "own" /\ gdt["own"][TaskIndex] = TssDesc /\ tr = 0
  <2>1. k > LgdtAt /\ k > WrittenAt(TaskIndex) /\ Written(TaskIndex) = TssDesc
    BY Places DEF WrittenAt, Written, TaskIndex, UserIndex
  <2>2. ~(k > TssAt + 2) /\ TablesAt(k) BY Places DEF InTp, InKernel
  <2> QED BY <1>2, <2>1, <2>2 DEF TablesAt
<1>4. gdt' = [gdt EXCEPT !["own"][TaskIndex] = BusyTss]
  <2>1. gdt' = [gdt EXCEPT !["own"][TaskIndex].kind = "tss_busy"]
    <3>1. Arg(1).index = TaskIndex BY DEF Arg, KrnSel
    <3>2. gdt' = [gdt EXCEPT ![gdtr.table][Arg(1).index].kind = "tss_busy"] BY DEF SetTr
    <3>3. gdtr.table = "own" BY <1>3
    <3> HIDE <1>3
    <3> QED BY <3>1, <3>2, <3>3
  <2>2. gdt \in [grub : {LoaderTable}, own : [0 .. 6 -> Descriptors]] BY DEF Steady, Stored
  <2>3. TaskIndex \in 0 .. 6 /\ gdt["own"][TaskIndex] = TssDesc BY <1>2, <1>3
  <2> QED BY <2>1, <2>2, <2>3 DEF BusyTss
<1>5. /\ tr' = TaskIndex
      /\ eip' = <<program, k + 1>>
      /\ UNCHANGED <<program, gdtr, seg, ring, tss, paging, esp, ebp, gpr, stack, gates,
                     shown, copied, caller>>
  BY DEF SetTr, Arg, KrnSel, Continue, Following, InTp
<1>6. BusyTss \in Descriptors BY DEF BusyTss, Descriptors
<1>7. gdt'["own"] = [gdt["own"] EXCEPT ![TaskIndex] = BusyTss] /\ gdt["own"] \in [0 .. 6 -> Descriptors]
  BY <1>2, <1>4, OwnTable DEF Steady, Stored
<1>8. Steady'
  <2>1. gdt' \in [grub : {LoaderTable}, own : [0 .. 6 -> Descriptors]]
    BY <1>2, <1>4, <1>6 DEF Steady, Stored
  <2> QED BY <1>2, <1>5, <2>1 DEF Steady, Stored, Results, Physical, paging
<1>9. \A i \in 0 .. TaskIndex : k + 1 > WrittenAt(i) => k > WrittenAt(i) BY <1>1, Places
<1>10. (k + 1 > LgdtAt <=> k > LgdtAt) /\ (k + 1 > TssAt <=> k > TssAt) /\ k + 1 > TssAt + 2
  BY <1>1, Places
<1>11. TablesAt(k + 1)'
  <2>1. TablesAt(k) BY DEF InTp, InKernel
  <2> QED BY <1>2, <1>3, <1>5, <1>7, <1>9, <1>10, <2>1, Fixed DEF TablesAt
<1>12. InKernel(k + 1)' BY <1>1, <1>5, <1>11, DataKept DEF InTp, InKernel
<1>13. InTp(k + 1)' BY <1>1, <1>5, <1>12, Fixed DEF InTp, Loaders
<1> QED BY <1>1, <1>5, <1>8, <1>13 DEF Onward

\* A word of the frame that tp3 and tp5 build.
LEMMA PushStep ==
  ASSUME program \in {"tp3", "tp5"}, Steady, NEW k \in 1 .. EndAt, InTp(k), NEW w \in 1 .. 5,
         k = TssAt + 2 + w,
         \/ Push /\ Instruction = <<"push", UserFrame[w]>>
         \/ PushEbp /\ Instruction = <<"push_ebp">> /\ program = "tp3" /\ w = 2
  PROVE  Onward(k)
<1>1. k \notin {LgdtAt, TssAt, TssAt + 2} /\ (\A i \in 0 .. TaskIndex : k # WrittenAt(i))
      /\ k + 1 \in 1 .. EndAt /\ Pushes(k + 1) = w /\ Pushes(k) = w - 1
      /\ (\A reg \in DataRegs : k # LoadAt(reg)) /\ k > 13 /\ program \in Loaders
  BY DEF EndAt, LgdtAt, TssAt, WrittenAt, TaskIndex, LoadAt, LoadsAt, DataRegs, Pushes, Loaders
<1>2. /\ stack' = Pushed(esp, <<UserFrame[w]>>) /\ esp' = esp - 1
      /\ eip' = <<program, k + 1>>
      /\ UNCHANGED <<program, gdt, gdtr, seg, ring, tr, tss, paging, ebp, gpr, gates,
                     shown, copied, caller>>
  <2>1. ebp = 9 BY DEF InTp, KernelTop
  <2>2. CASE Push /\ Instruction = <<"push", UserFrame[w]>>
    BY <2>2 DEF Push, Arg, Continue, Following, InTp, segmentation
  <2>3. CASE PushEbp /\ program = "tp3" /\ w = 2
    <3>1. UserFrame[w] = <<"num", ebp>> BY <2>1, <2>3 DEF UserFrame, KernelTop
    <3> QED BY <2>3, <3>1 DEF PushEbp, Continue, Following, InTp, segmentation
  <2> QED BY <2>2, <2>3
<1>3. esp = 9 - w /\ UserFrame[w][1] \in Tags
  BY <1>1 DEF InTp, UserFrame, KernelTop, Tags
<1>4. stack' = [a \in Stacks |-> IF a = 8 - w THEN UserFrame[w] ELSE stack[a]]
  BY <1>2, <1>3 DEF Pushed, Stacks, UserTop
<1>5. Steady'
  <2>1. DOMAIN stack' = Stacks /\ (\A a \in Stacks : stack'[a][1] \in Tags)
    BY <1>3, <1>4 DEF Steady, Stored
  <2>2. esp' \in Stacks BY <1>2, <1>3 DEF Stacks, UserTop
  <2>3. Stored' BY <1>2, <2>1, <2>2 DEF Steady, Stored
  <2>4. Results' BY <1>2 DEF Steady, Results
  <2>5. Physical' BY <1>2 DEF Steady, Physical, paging
  <2> QED BY <2>3, <2>4, <2>5 DEF Steady
<1>6. TablesAt(k + 1)' BY <1>1, <1>2, TablesKept DEF InTp, InKernel
<1>7. InKernel(k + 1)' BY <1>1, <1>2, <1>6, DataKept DEF InTp, InKernel, Loaders
<1>8. \A v \in 1 .. w : stack'[8 - v] = UserFrame[v]
  <2>1. SUFFICES ASSUME NEW v \in 1 .. w PROVE stack'[8 - v] = UserFrame[v] OBVIOUS
  <2>2. 8 - v \in Stacks BY DEF Stacks, UserTop
  <2>3. CASE v = w BY <1>4, <2>2, <2>3
  <2>4. CASE v # w
    <3>1. v \in 1 .. Pushes(k) /\ 8 - v # 8 - w BY <1>1, <2>4
    <3>2. stack[8 - v] = UserFrame[v] BY <3>1 DEF InTp, KernelTop
    <3> QED BY <1>4, <2>2, <3>1, <3>2
  <2> QED BY <2>3, <2>4
<1>9. InTp(k + 1)'
  <2>1. Pushes(k + 1)' = w /\ UserFrame' = UserFrame BY <1>1, <1>2, Fixed
  <2>2. esp' = KernelTop - 1 - Pushes(k + 1)' /\ ebp' = KernelTop
    BY <1>2, <1>3, <2>1 DEF InTp, KernelTop
  <2>3. \A v \in 1 .. Pushes(k + 1)' : stack'[KernelTop - 1 - v] = UserFrame'[v]
    BY <1>8, <2>1 DEF KernelTop
  <2> QED BY <1>1, <1>2, <1>7, <2>2, <2>3 DEF InTp
<1> QED BY <1>1, <1>2, <1>5, <1>9 DEF Onward

\* The frame is complete: iret starts ring 3.
LEMMA EnterStep ==
  ASSUME program \in {"tp3", "tp5"}, Steady, InTp(EndAt)
  PROVE  /\ FrameOk
         /\ Iret => /\ Steady' /\ program' = program
                    /\ program = "tp3" => InUserland3(1)'
                    /\ program = "tp5" => InUserland5(1)'
<1>1. program \in Loaders /\ EndAt \in 1 .. EndAt /\ Pushes(EndAt) = 5 /\ EndAt > LoadsAt
      /\ \A reg \in DataRegs : EndAt > LoadAt(reg)
  BY DEF Loaders, EndAt, Pushes, TssAt, LoadsAt, LoadAt, DataRegs
<1>2. esp = 3 /\ UserIndex = 4 BY <1>1 DEF InTp, KernelTop, UserIndex, TaskIndex
<1>3. /\ stack[3] = <<"eip", <<"userland", 1>>>> /\ stack[4] = <<"sel", UsrSel(3)>>
      /\ stack[6] = <<"num", IF program = "tp3" THEN 9 ELSE 14>> /\ stack[7] = <<"sel", UsrSel(4)>>
  <2>1. \A w \in 1 .. 5 : stack[8 - w] = UserFrame[w] BY <1>1 DEF InTp, KernelTop
  <2>2. /\ stack[7] = UserFrame[1] /\ stack[6] = UserFrame[2]
        /\ stack[4] = UserFrame[4] /\ stack[3] = UserFrame[5]
    BY <2>1
  <2> QED BY <2>2 DEF UserFrame, KernelTop, UserTop
<1>4. FrameCs = UsrSel(3) /\ FrameSs = UsrSel(4)
  BY <1>2, <1>3 DEF FrameCs, FrameSs
<1>5. Entry(UsrSel(3)) = FlatDesc(3, "code") /\ Entry(UsrSel(4)) = FlatDesc(3, "data")
  BY <1>1, <1>2, UserEntries DEF InTp, InKernel
<1>6. ring = 0 BY DEF InTp, InKernel
<1>7. FrameOk
  BY <1>2, <1>3, <1>4, <1>5, <1>6 DEF FrameOk, CanReturn, StackOk, UsrSel, FlatDesc, Descriptor
<1>8. ASSUME Iret
      PROVE  /\ Steady' /\ program' = program
             /\ program = "tp3" => InUserland3(1)'
             /\ program = "tp5" => InUserland5(1)'
  <2>1. /\ eip' = <<"userland", 1>> /\ ring' = 3 /\ caller' = << >>
        /\ esp' = IF program = "tp3" THEN 9 ELSE 14
        /\ seg' = Returned(0, UsrSel(3), UsrSel(4))
        /\ UNCHANGED <<gdt, gdtr, tr, tss, paging, program, ebp, gpr, stack, gates, shown, copied>>
    BY <1>2, <1>3, <1>4, <1>6, <1>8 DEF Iret, UsrSel, Number
  <2>2. /\ seg'["cs"] = UserCode /\ seg'["ss"] = UserData
        /\ \A reg \in DataRegs : seg'[reg] = UserData
    <3>1. \A reg \in DataRegs : seg[reg] = UserData BY <1>1 DEF InTp, InKernel, DataIs
    <3>2. \A reg \in DataRegs : Kept(reg, 3) = UserData
      BY <3>1 DEF Kept, UserData, Loaded, FlatDesc, Descriptor
    <3>3. /\ seg'["cs"] = Loaded(UsrSel(3), FlatDesc(3, "code"))
          /\ seg'["ss"] = Loaded(UsrSel(4), FlatDesc(3, "data"))
      BY <1>5, <2>1 DEF Returned, UsrSel, SegRegs
    <3>4. \A reg \in DataRegs : seg'[reg] = UserData
      BY <2>1, <3>2 DEF Returned, UsrSel, SegRegs, DataRegs
    <3> QED BY <1>2, <3>3, <3>4 DEF UserCode, UserData
  <2>3. seg' \in [SegRegs -> [sel : Selectors, desc : Descriptors]]
    <3>1. {UserCode, UserData} \subseteq [sel : Selectors, desc : Descriptors]
      BY <1>2 DEF UserCode, UserData, Loaded, UsrSel, Selectors, Descriptors
    <3>2. DOMAIN seg' = SegRegs /\ seg' = [reg \in SegRegs |-> seg'[reg]] BY <2>1 DEF Returned
    <3>3. \A reg \in SegRegs : seg'[reg] \in {UserCode, UserData} BY <2>2 DEF SegRegs, DataRegs
    <3> QED BY <3>1, <3>2, <3>3
  <2>4. Steady'
    BY <2>1, <2>3 DEF Steady, Stored, Results, Physical, paging, Stacks, UserTop
  <2>5. TablesAt(EndAt) BY DEF InTp, InKernel
  <2>6. (TablesAt(EndAt))' BY <1>1, <2>1, <2>5, Fixed, Places DEF TablesAt
  <2>7. InUser'
    BY <2>1, <2>2, <2>6, Fixed DEF InUser
  <2>8. ebp' = 9 BY <2>1 DEF InTp, KernelTop
  <2>9. program = "tp5" => gates'[48] = [handler |-> "syscall_isr", dpl |-> 3]
    BY <2>1 DEF InTp, EndAt
  <2> QED BY <2>1, <2>4, <2>7, <2>8, <2>9 DEF InUserland3, InUserland5
<1> QED BY <1>7, <1>8

\* Every instruction of a program that loads segments leads to the next, to the
\* end of tp() or to ring 3.
LEMMA LoadersStep ==
  ASSUME program \in Loaders, Steady, NEW k \in 1 .. EndAt, InTp(k), Step
  PROVE  \/ Onward(k)
         \/ Steady' /\ program' = program /\ eip' = <<"done">>
         \/ Steady' /\ program' = program /\ program = "tp3" /\ InUserland3(1)'
         \/ Steady' /\ program' = program /\ program = "tp5" /\ InUserland5(1)'
<1>1. Fetched(k)
  BY FetchTp1, FetchTpExam, FetchTp3, FetchTp5 DEF Loaders, InTp
<1>2. Reachable(KernelFrame) BY CanRun
<1>3. seg["ds"].desc.kind = "data" BY DataUsable DEF InTp, InKernel, DataRegs
<1>4. ring = 0 BY DEF InTp, InKernel
<1>5. Entry(KrnSel(1)) = FlatDesc(0, "code") /\ Entry(KrnSel(2)) = FlatDesc(0, "data")
  BY Coherent DEF InTp, InKernel, Steady
<1>6. ASSUME NEW i \in 0 .. TaskIndex, k = WrittenAt(i), Instruction = <<"desc", i, Written(i)>>
      PROVE  Onward(k)
  <2>1. Describe BY <1>2, <1>3, <1>6, Acts
  <2> QED BY <1>6, <2>1, DescStep
<1>7. ASSUME k = LgdtAt, Instruction = <<"lgdt", Limit>> PROVE Onward(k)
  <2>1. SetGdtr BY <1>2, <1>3, <1>4, <1>7, Acts
  <2> QED BY <1>7, <2>1, LgdtStep
<1>8. ASSUME LgdtAt < k, k <= LgdtAt + 2, Instruction = <<"jump", KrnSel(1)>> PROVE Onward(k)
  <2>1. CanJump(KrnSel(1)) BY <1>4, <1>5 DEF CanJump, KrnSel, FlatDesc, Descriptor
  <2>2. SetSegment BY <1>2, <1>3, <1>8, <2>1, Acts DEF Arg
  <2>3. seg["cs"] = Loaded(KrnSel(1), Entry(KrnSel(1))) BY <1>5 DEF InTp, InKernel, KernelCode
  <2>4. k \in 6 .. 12 /\ (program = "tp1" => k < 8) BY <1>8 DEF LgdtAt, Loaders
  <2> QED BY <1>8, <2>2, <2>3, <2>4, ReloadStep DEF SegRegs
<1>9. ASSUME LgdtAt < k, k <= LgdtAt + 6, k <= LoadsAt \/ k = 6, program = "tp1" => k = 6,
             NEW reg \in DataRegs \cup {"ss"}, KernelLoad(reg)
      PROVE  Onward(k)
  <2>1. CanLoad(reg, KrnSel(2))
    BY <1>4, <1>5 DEF CanLoad, StackOk, DataOk, KrnSel, FlatDesc, Descriptor
  <2>2. SetSegment BY <1>2, <1>3, <1>9, <2>1, Acts DEF Arg, KernelLoad
  <2>3. seg[reg] = KernelData
    BY <1>9 DEF InTp, InKernel, DataIs, LoadAt, LoadsAt, LgdtAt, DataRegs, Loaders
  <2>4. seg[reg] = Loaded(KrnSel(2), Entry(KrnSel(2))) BY <1>5, <2>3 DEF KernelData
  <2>5. k \in 6 .. 12 /\ (program = "tp1" => k < 8) BY <1>9 DEF LgdtAt, Loaders
  <2>6. reg \in SegRegs BY DEF DataRegs, SegRegs
  <2> QED BY <1>9, <2>2, <2>4, <2>5, <2>6, ReloadStep DEF KernelLoad
<1>10. ASSUME NEW reg \in DataRegs, k = LoadAt(reg), Instruction = <<"load", reg, UsrSel(UserIndex)>>
       PROVE  Onward(k)
  <2>1. k > LoadsAt BY <1>10 DEF LoadAt, LoadsAt, DataRegs, Loaders
  <2>2. Entry(UsrSel(UserIndex)) = FlatDesc(3, "data") BY <2>1, UserEntries DEF InTp, InKernel
  <2>3. CanLoad(reg, UsrSel(UserIndex))
    BY <1>4, <2>2 DEF CanLoad, DataOk, UsrSel, FlatDesc, Descriptor, DataRegs
  <2>4. SetSegment BY <1>2, <1>3, <1>10, <2>3, Acts DEF Arg
  <2> QED BY <1>10, <2>4, UserLoadStep
<1>11. ASSUME k = TssAt, Instruction = <<"tss", KrnSel(2), IF program = "tp_exam" THEN "esp" ELSE "ebp">>
       PROVE  Onward(k)
  <2>1. SetTss BY <1>2, <1>3, <1>11, Acts
  <2> QED BY <1>11, <2>1, TssStep
<1>12. ASSUME k = TssAt + 2, Instruction = <<"ltr", KrnSel(TaskIndex)>> PROVE Onward(k)
  <2>1. TaskIndex \in {5, 6} BY Places
  <2>2. gdtr = [table |-> "own", limit |-> Limit] /\ gdt["own"][TaskIndex] = TssDesc
    <3>1. k > LgdtAt /\ k > WrittenAt(TaskIndex) /\ Written(TaskIndex) = TssDesc
      BY <1>12, Places DEF WrittenAt, Written, TaskIndex, UserIndex
    <3>2. ~(k > TssAt + 2) /\ TablesAt(k) BY <1>12, Places DEF InTp, InKernel
    <3> QED BY <2>1, <3>1, <3>2 DEF TablesAt
  <2>3. CanLtr(KrnSel(TaskIndex))
    BY <1>4, <2>2 DEF CanLtr, Entry, KrnSel, Limit, TaskIndex, TssDesc, Descriptor
  <2>4. SetTr BY <1>2, <1>3, <1>12, <2>3, Acts DEF Arg
  <2> QED BY <1>12, <2>4, LtrStep
<1>13. ASSUME program = "tp1", k \in {1, 8, 10}, Instruction = <<"print_gdt">> PROVE Onward(k)
  <2>1. Printf BY <1>2, <1>3, <1>13, Acts
  <2> QED BY <1>13, <2>1, PrintStep
<1>14. ASSUME program = "tp1", k = 11, Instruction = <<"load", "es", KrnSel(3)>> PROVE Onward(k)
  <2>1. Entry(KrnSel(3)) = LowData
    BY <1>14 DEF InTp, InKernel, TablesAt, Entry, KrnSel, LgdtAt, Limit, WrittenAt, Written,
                 TaskIndex, UserIndex
  <2>2. CanLoad("es", KrnSel(3)) BY <1>4, <2>1 DEF CanLoad, DataOk, KrnSel, LowData, Descriptor
  <2>3. SetSegment BY <1>2, <1>3, <1>14, <2>2, Acts DEF Arg
  <2> QED BY <1>14, <2>3, LowLoadStep
<1>15. ASSUME program = "tp1", k = 12, Instruction = <<"copy", 32>> PROVE Onward(k)
  <2>1. seg["es"] = Loaded(KrnSel(3), LowData)
    BY <1>15 DEF InTp, InKernel, DataIs, DataRegs, LoadAt, LoadsAt
  <2>2. seg["es"].desc.kind = "data" /\ Arg(1) - 1 <= seg["es"].desc.limit
    BY <1>15, <2>1 DEF Arg, Loaded, LowData, Descriptor
  <2>3. Copy BY <1>2, <1>3, <1>15, <2>2, Acts
  <2> QED BY <1>15, <2>3, CopyStep
<1>16. ASSUME program = "tp5", k = 13, Instruction = <<"gate", 48, "syscall_isr", 3>> PROVE Onward(k)
  <2>1. SetGate BY <1>2, <1>3, <1>16, Acts
  <2> QED BY <1>16, <2>1, GateStep
<1>17. ASSUME program \in {"tp3", "tp5"}, NEW w \in 1 .. 5, k = TssAt + 2 + w,
              \/ Instruction = <<"push", UserFrame[w]>>
              \/ program = "tp3" /\ w = 2 /\ Instruction = <<"push_ebp">>
       PROVE  Onward(k)
  <2>1. \/ Push /\ Instruction = <<"push", UserFrame[w]>>
        \/ PushEbp /\ Instruction = <<"push_ebp">> /\ program = "tp3" /\ w = 2
    <3>1. CASE Instruction = <<"push", UserFrame[w]>>
      <4>1. Instruction[1] = "push" BY <3>1
      <4> QED BY <1>2, <1>3, <3>1, <4>1, Acts
    <3>2. CASE program = "tp3" /\ w = 2 /\ Instruction = <<"push_ebp">>
      <4>1. Instruction[1] = "push_ebp" BY <3>2
      <4> QED BY <1>2, <1>3, <3>2, <4>1, Acts
    <3> QED BY <1>17, <3>1, <3>2
  <2> QED BY <1>17, <2>1, PushStep
<1>18. ASSUME program \in {"tp3", "tp5"}, k = EndAt, Instruction = <<"iret">>
       PROVE  \/ Steady' /\ program' = program /\ program = "tp3" /\ InUserland3(1)'
              \/ Steady' /\ program' = program /\ program = "tp5" /\ InUserland5(1)'
  <2>1. InTp(EndAt) BY <1>18
  <2>2. Iret BY <1>2, <1>3, <1>18, <2>1, EnterStep, Acts
  <2> QED BY <1>18, <2>1, <2>2, EnterStep
<1>19. ASSUME Instruction = <<"ret">> PROVE Steady' /\ program' = program /\ eip' = <<"done">>
  <2>1. Return BY <1>2, <1>3, <1>19, Acts
  <2> QED BY <2>1 DEF Return, Steady, Stored, Results, Physical, paging, segmentation
<1>20. ASSUME LgdtAt < k, k <= LgdtAt + 6, k <= LoadsAt, program # "tp1",
              NEW reg \in DataRegs \cup {"ss"}, KernelLoad(reg)
       PROVE  Onward(k)
  BY <1>9, <1>20
<1>21. ASSUME k = 6, program = "tp1", KernelLoad("ds") PROVE Onward(k)
  BY <1>9, <1>21 DEF LgdtAt, DataRegs
<1> QED
  <2>1. CASE \E i \in 0 .. TaskIndex : k = WrittenAt(i) /\ Instruction = <<"desc", i, Written(i)>>
    BY <2>1, <1>6
  <2>2. CASE \E reg \in DataRegs : k = LoadAt(reg) /\ Instruction = <<"load", reg, UsrSel(UserIndex)>>
    BY <2>2, <1>10
  <2>3. CASE LgdtAt < k /\ k <= LgdtAt + 6 /\ k <= LoadsAt /\ program # "tp1"
               /\ \E reg \in DataRegs \cup {"ss"} : KernelLoad(reg)
    BY <2>3, <1>20
  <2>4. CASE /\ program \in {"tp3", "tp5"}
             /\ \E w \in 1 .. 5 : k = TssAt + 2 + w /\ Instruction = <<"push", UserFrame[w]>>
    BY <2>4, <1>17
  <2>5. CASE program = "tp3" /\ k = TssAt + 4 /\ Instruction = <<"push_ebp">>
    <3>1. k = TssAt + 2 + 2 BY <2>5, Places
    <3> QED BY <2>5, <3>1, <1>17
  <2>6. CASE \/ k = LgdtAt /\ Instruction = <<"lgdt", Limit>>
             \/ LgdtAt < k /\ k <= LgdtAt + 2 /\ Instruction = <<"jump", KrnSel(1)>>
             \/ k = 6 /\ program = "tp1" /\ KernelLoad("ds")
    BY <2>6, <1>7, <1>8, <1>21
  <2>7. CASE \/ k = TssAt /\ Instruction = <<"tss", KrnSel(2), IF program = "tp_exam" THEN "esp" ELSE "ebp">>
             \/ k = TssAt + 2 /\ Instruction = <<"ltr", KrnSel(TaskIndex)>>
    BY <2>7, <1>11, <1>12
  <2>8. CASE \/ program = "tp1" /\ k \in {1, 8, 10} /\ Instruction = <<"print_gdt">>
             \/ program = "tp1" /\ k = 11 /\ Instruction = <<"load", "es", KrnSel(3)>>
             \/ program = "tp1" /\ k = 12 /\ Instruction = <<"copy", 32>>
             \/ program = "tp5" /\ k = 13 /\ Instruction = <<"gate", 48, "syscall_isr", 3>>
    BY <2>8, <1>13, <1>14, <1>15, <1>16
  <2>9. CASE \/ program \in {"tp3", "tp5"} /\ k = EndAt /\ Instruction = <<"iret">>
             \/ program \in {"tp1", "tp_exam"} /\ k = EndAt /\ Instruction = <<"ret">>
    BY <2>9, <1>18, <1>19
  <2> QED BY <1>1, <2>1, <2>2, <2>3, <2>4, <2>5, <2>6, <2>7, <2>8, <2>9, Zenon DEF Fetched
-----------------------------------------------------------------------------
(***************************************************************************)
(* NMIs.                                                                   *)
(***************************************************************************)
\* What an NMI finds: its handler, the code that it returns to, and the stack
\* of that code.
Sound ==
  /\ Reachable(KernelFrame) /\ Reachable(GdtFrame)
  /\ Entry(KrnSel(1)) = FlatDesc(0, "code") /\ Entry(KrnSel(2)) = FlatDesc(0, "data")
  /\ seg["ds"].desc.kind = "data"
  /\ \/ ring = 0 /\ seg["cs"] = KernelCode /\ seg["ss"] = KernelData
     \/ /\ ring = 3 /\ tr # 0 /\ tss.ss = KrnSel(2)
        /\ seg["cs"] = UserCode /\ seg["ss"] = UserData
        /\ \A reg \in DataRegs : seg[reg] = UserData
        /\ Entry(UsrSel(UserIndex)) = FlatDesc(3, "data")
        /\ Entry(UsrSel(UserIndex - 1)) = FlatDesc(3, "code")

\* Then the handler runs, and its iret loads what the registers hold.
LEMMA SoundReturn ==
  ASSUME Stored, Sound
  PROVE  /\ HandlerRuns /\ CanReturn(0, seg["cs"].sel, seg["ss"].sel)
         /\ ring = 3 => Returned(0, seg["cs"].sel, seg["ss"].sel) = seg
         /\ ring = 0 => Loaded(seg["cs"].sel, Entry(seg["cs"].sel)) = seg["cs"]
<1>1. CASE ring = 0
  <2>1. seg["cs"].sel = KrnSel(1) /\ seg["ss"].sel = KrnSel(2)
    BY <1>1 DEF Sound, KernelCode, KernelData, Loaded
  <2>2. CanEnter BY <1>1 DEF Sound, CanEnter, GateSel, FlatDesc, Descriptor
  <2>3. HandlerRuns BY <2>2 DEF HandlerRuns, Sound
  <2>4. CanReturn(0, KrnSel(1), KrnSel(2))
    BY DEF Sound, CanReturn, KrnSel, FlatDesc, Descriptor
  <2>5. Loaded(KrnSel(1), Entry(KrnSel(1))) = seg["cs"] BY <1>1 DEF Sound, KernelCode
  <2> QED BY <1>1, <2>1, <2>3, <2>4, <2>5
<1>2. CASE ring = 3
  <2>1. seg["cs"].sel = UsrSel(UserIndex - 1) /\ seg["ss"].sel = UsrSel(UserIndex)
    BY <1>2 DEF Sound, UserCode, UserData, Loaded
  <2>2. CanEnter BY <1>2 DEF Sound, CanEnter, GateSel, StackOk, KrnSel, FlatDesc, Descriptor
  <2>3. HandlerRuns BY <2>2 DEF HandlerRuns, Sound
  <2>4. CanReturn(0, UsrSel(UserIndex - 1), UsrSel(UserIndex))
    BY <1>2 DEF Sound, CanReturn, StackOk, UsrSel, FlatDesc, Descriptor
  <2>5. \A reg \in DataRegs : Kept(reg, 3) = seg[reg]
    BY <1>2 DEF Sound, Kept, UserData, Loaded, FlatDesc, Descriptor
  <2>6. Returned(0, UsrSel(UserIndex - 1), UsrSel(UserIndex)) = seg
    <3>1. \A reg \in SegRegs : Returned(0, UsrSel(UserIndex - 1), UsrSel(UserIndex))[reg] = seg[reg]
      BY <1>2, <2>5 DEF Sound, Returned, SegRegs, DataRegs, UserCode, UserData, UsrSel
    <3>2. DOMAIN seg = SegRegs /\ seg = [reg \in SegRegs |-> seg[reg]] BY DEF Stored
    <3> QED BY <3>1, <3>2 DEF Returned
  <2> QED BY <1>2, <2>1, <2>3, <2>4, <2>6
<1> QED BY <1>1, <1>2 DEF Sound

\* So an NMI changes words below its frame's top, and nothing else.
LEMMA NmiKeeps ==
  ASSUME Stored, Sound, Nmi
  PROVE  /\ stack' = [a \in Stacks |-> IF a < FrameTop THEN Unknown ELSE stack[a]]
         /\ UNCHANGED <<eip, seg, gdt, gdtr, ring, tr, tss, paging, program, esp, ebp, gpr, gates,
                        shown, copied, caller>>
         /\ Stored'
<1>1. /\ stack' = [a \in Stacks |-> IF a < FrameTop THEN Unknown ELSE stack[a]]
      /\ seg' = IF ring = 3 THEN Returned(0, seg["cs"].sel, seg["ss"].sel)
                ELSE [seg EXCEPT !["cs"] = Loaded(@.sel, Entry(@.sel))]
      /\ UNCHANGED <<eip, gdt, gdtr, ring, tr, tss, paging, program, esp, ebp, gpr, gates,
                     shown, copied, caller>>
  BY SoundReturn DEF Nmi
<1>2. seg' = seg
  <2>1. CASE ring = 3 BY <1>1, <2>1, SoundReturn
  <2>2. CASE ring = 0
    <3>1. seg' = [seg EXCEPT !["cs"] = Loaded(seg["cs"].sel, Entry(seg["cs"].sel))] BY <1>1, <2>2
    <3>2. seg' = [seg EXCEPT !["cs"] = seg["cs"]] BY <2>2, <3>1, SoundReturn
    <3> QED BY <3>2 DEF Stored
  <2> QED BY <2>1, <2>2 DEF Sound
<1>3. Stored' BY <1>1, <1>2 DEF Stored, Unknown, Tags
<1> QED BY <1>1, <1>2, <1>3

\* Ring 0 is so at every instruction.
LEMMA SoundKernel ==
  ASSUME Stored, Reachable(KernelFrame), Reachable(GdtFrame), NEW k \in 1 .. EndAt, InKernel(k)
  PROVE  Sound
<1>1. seg["ds"].desc.kind = "data" BY DataUsable DEF InKernel, DataRegs
<1> QED BY <1>1, Coherent DEF InKernel, Sound

\* Ring 3 is so at every instruction: its TSS is loaded.
LEMMA SoundUser ==
  ASSUME Steady, program \in {"tp3", "tp5"}, InUser
  PROVE  Sound /\ tr # 0 /\ tss = [ss |-> KrnSel(2), esp |-> 9]
<1>1. program \in Loaders /\ EndAt \in 1 .. EndAt /\ EndAt > LoadsAt /\ EndAt > TssAt + 2 /\ EndAt > TssAt
  BY DEF Loaders, EndAt, LoadsAt, TssAt
<1>2. TablesAt(EndAt) BY DEF InUser
<1>3. tr # 0 /\ tss = [ss |-> KrnSel(2), esp |-> 9]
  BY <1>1, <1>2, Places DEF TablesAt, TssTop, KernelTop
<1>4. seg["ds"].desc.kind = "data"
  BY DEF InUser, DataRegs, UserData, Loaded, FlatDesc, Descriptor
<1>5. /\ Entry(KrnSel(1)) = FlatDesc(0, "code") /\ Entry(KrnSel(2)) = FlatDesc(0, "data")
      /\ Entry(UsrSel(UserIndex)) = FlatDesc(3, "data")
      /\ Entry(UsrSel(UserIndex - 1)) = FlatDesc(3, "code")
  BY <1>1, <1>2, Coherent, UserEntries DEF Steady
<1> QED BY <1>3, <1>4, <1>5, CanRun DEF Sound, InUser

\* What ring 0 relies on is in the segments and the tables.
LEMMA KernelKept ==
  ASSUME NEW k \in Nat, InKernel(k), UNCHANGED <<program, gdt, gdtr, seg, ring, tr, tss>>
  PROVE  InKernel(k)'
<1>1. TaskIndex \in {5, 6} BY DEF TaskIndex
<1>2. TablesAt(k)' BY <1>1, Fixed DEF InKernel, TablesAt
<1>3. \A reg \in DataRegs : DataIs(reg, k)' BY Fixed DEF InKernel, DataIs
<1> QED BY <1>2, <1>3 DEF InKernel

\* And what ring 3 relies on.
LEMMA UserKept ==
  ASSUME EndAt \in Nat, InUser, UNCHANGED <<program, gdt, gdtr, seg, ring, tr, tss>>
  PROVE  InUser'
<1>1. TaskIndex \in {5, 6} BY DEF TaskIndex
<1>2. (TablesAt(EndAt))' BY <1>1, Fixed DEF InUser, TablesAt
<1> QED BY <1>2, Fixed DEF InUser

\* The invariant of tp(), wherever its program uses no paging.
LEMMA TpNmi ==
  ASSUME Stored, Sound, NEW k \in 1 .. EndAt, EndAt \in Nat, InTp(k), Nmi
  PROVE  InTp(k)'
<1>1. ring = 0 BY DEF InTp, InKernel
<1>2. stack' = [a \in Stacks |-> IF a < esp THEN Unknown ELSE stack[a]]
      /\ UNCHANGED <<eip, seg, gdt, gdtr, ring, tr, tss, program, esp, ebp, gates, caller>>
  BY <1>1, NmiKeeps DEF FrameTop
<1>3. InKernel(k)' BY <1>2, KernelKept DEF InTp
<1>4. Pushes(k) \in 0 .. 5 BY DEF Pushes, TssAt, EndAt
<1>5. \A w \in 1 .. Pushes(k) : stack'[KernelTop - 1 - w] = stack[KernelTop - 1 - w]
  <2>1. SUFFICES ASSUME NEW w \in 1 .. Pushes(k)
                 PROVE  stack'[KernelTop - 1 - w] = stack[KernelTop - 1 - w]
    OBVIOUS
  <2>2. esp = 8 - Pushes(k) /\ 8 - w \in Stacks /\ ~(8 - w < esp)
    BY <1>4 DEF InTp, KernelTop, Stacks, UserTop
  <2> QED BY <1>2, <2>2 DEF KernelTop
<1>6. Pushes(k)' = Pushes(k) /\ UserFrame' = UserFrame BY <1>2, Fixed
<1>7. \A w \in 1 .. Pushes(k)' : stack'[KernelTop - 1 - w] = UserFrame'[w]
  BY <1>5, <1>6 DEF InTp
<1> QED BY <1>2, <1>3, <1>6, <1>7 DEF InTp
-----------------------------------------------------------------------------
(***************************************************************************)
(* Ring 3, and the handler of tp5.                                         *)
(***************************************************************************)
\* userland of tp3 comes to its fault in ring 3, which a handler receives.
LEMMA Userland3Step ==
  ASSUME Steady, NEW k \in 1 .. 3, InUserland3(k), Step
  PROVE  /\ Steady' /\ program' = program
         /\ \/ k < 3 /\ InUserland3(k + 1)'
            \/ k = 3 /\ eip' = <<"panic">> /\ ring' = 3
<1>1. program = "tp3" /\ eip = <<"userland", k>> /\ InUser /\ EndAt = 25 BY DEF InUserland3, EndAt
<1>2. Sound BY <1>1, SoundUser
<1>3. Instruction = Userland3[k] BY <1>1 DEF Instruction, Code
<1>4. CASE k = 1
  <2>1. Instruction = <<"push_ebp">> BY <1>3, <1>4 DEF Userland3
  <2>2. PushEbp BY <1>2, <2>1, Acts DEF Sound
  <2>3. /\ stack' = [a \in Stacks |-> IF a = 8 THEN <<"num", 9>> ELSE stack[a]] /\ esp' = 8
        /\ eip' = <<"userland", 2>>
        /\ UNCHANGED <<program, gdt, gdtr, seg, ring, tr, tss, paging, ebp, gpr, gates, shown,
                       copied, caller>>
    BY <1>1, <1>4, <2>2 DEF PushEbp, Continue, Following, Pushed, InUserland3, segmentation
  <2>4. Steady' BY <2>3 DEF Steady, Stored, Results, Physical, paging, Stacks, UserTop, Tags
  <2>5. InUser' BY <1>1, <2>3, UserKept
  <2> QED BY <1>1, <1>4, <2>3, <2>4, <2>5 DEF InUserland3
<1>5. CASE k = 2
  <2>1. Instruction = <<"frame">> BY <1>3, <1>5 DEF Userland3
  <2>2. MakeFrame BY <1>2, <2>1, Acts DEF Sound
  <2>3. /\ ebp' = 8 /\ eip' = <<"userland", 3>>
        /\ UNCHANGED <<program, gdt, gdtr, seg, ring, tr, tss, paging, esp, gpr, stack, gates, shown,
                       copied, caller>>
    BY <1>1, <1>5, <2>2 DEF MakeFrame, Continue, Following, InUserland3, segmentation
  <2>4. Steady' BY <2>3 DEF Steady, Stored, Results, Physical, paging, Stacks, UserTop
  <2>5. InUser' BY <1>1, <2>3, UserKept
  <2> QED BY <1>1, <1>5, <2>3, <2>4, <2>5 DEF InUserland3
<1>6. CASE k = 3
  <2>1. Instruction = <<"mov_cr0">> BY <1>3, <1>6 DEF Userland3
  <2>2. ring = 3 BY <1>1 DEF InUser
  <2>3. ~Allowed BY <2>1, <2>2 DEF Allowed
  <2>4. Fault
    BY <2>3 DEF Step, At, Describe, SetGdtr, SetSegment, SetTss, SetTr, SetGate, Copy, PushEbp, Push,
       MakeFrame, Leave, SetGpr, Pusha, Popa, Printf, SoftInt, Iret, StoreEntries, ClearTarget,
       SetControl, Return
  <2>5. HandlerRuns BY <1>2, SoundReturn DEF Steady
  <2>6. eip' = <<"panic">> /\ UNCHANGED <<segmentation, paging, program, esp, ebp, gpr, stack, gates,
                                         shown, copied, caller>>
    BY <2>4, <2>5 DEF Fault
  <2> QED BY <1>6, <2>2, <2>6 DEF Steady, Stored, Results, Physical, paging, segmentation
<1> QED BY <1>4, <1>5, <1>6

\* An NMI in userland of tp3 is handled.
LEMMA Userland3Nmi ==
  ASSUME Steady, NEW k \in 1 .. 3, InUserland3(k), Nmi
  PROVE  InUserland3(k)' /\ Steady'
<1>1. program = "tp3" /\ InUser /\ EndAt = 25 BY DEF InUserland3, EndAt
<1>2. Sound BY <1>1, SoundUser
<1>3. UNCHANGED <<eip, seg, gdt, gdtr, ring, tr, tss, paging, program, esp, ebp, gpr, gates,
                  shown, copied, caller>>
      /\ Stored'
  BY <1>2, NmiKeeps DEF Steady
<1>4. InUser' BY <1>1, <1>3, UserKept
<1> QED BY <1>3, <1>4 DEF InUserland3, Steady, Results, Physical, paging

\* The system call of tp5: the frame of int 48 is below the stack of the TSS.
LEMMA SystemCall ==
  ASSUME Steady, InUserland5(4), Step
  PROVE  Steady' /\ program' = program /\ InSyscallIsr(1)'
<1>1. /\ program = "tp5" /\ eip = <<"userland", 4>> /\ InUser /\ EndAt = 26 /\ ebp = 13 /\ esp = 13
      /\ gpr = Asked /\ gates[48] = [handler |-> "syscall_isr", dpl |-> 3] /\ UserIndex = 4 /\ ring = 3
  BY DEF InUserland5, EndAt, UserIndex, TaskIndex, InUser
<1>2. Sound /\ tr # 0 /\ tss = [ss |-> KrnSel(2), esp |-> 9] BY <1>1, SoundUser
<1>3. Instruction = <<"int", 48>> BY <1>1 DEF Instruction, Code, Userland5
<1>4. CanEnter BY <1>2, SoundReturn DEF HandlerRuns, Steady
<1>5. SoftInt BY <1>1, <1>2, <1>3, <1>4, Acts DEF Sound, Arg
<1>6. seg["ss"].sel = UsrSel(4) /\ seg["cs"].sel = UsrSel(3)
  BY <1>1 DEF InUser, UserData, UserCode, Loaded
<1>7. /\ Len(Interrupted(Following)) = 5
      /\ Interrupted(Following)[1] = <<"sel", UsrSel(4)>>
      /\ Interrupted(Following)[2] = <<"num", 13>>
      /\ Interrupted(Following)[3] = <<"eflags", 0>>
      /\ Interrupted(Following)[4] = <<"sel", UsrSel(3)>>
      /\ Interrupted(Following)[5] = <<"eip", <<"userland", 5>>>>
  BY <1>1, <1>6 DEF Interrupted, Following
<1>8. /\ eip' = <<"syscall_isr", 1>> /\ stack' = Pushed(9, Interrupted(Following))
      /\ esp' = 9 - Len(Interrupted(Following)) /\ seg' = Entered /\ ring' = 0
      /\ caller' = <<[eip |-> Following, esp |-> esp, ebp |-> ebp, gpr |-> gpr, ring |-> ring,
                      seg |-> seg, stack |-> stack]>>
      /\ UNCHANGED <<gdt, gdtr, tr, tss, paging, program, ebp, gpr, gates, shown, copied>>
  BY <1>1, <1>2, <1>3, <1>5 DEF SoftInt, Arg, FrameTop
<1>9. stack' = [a \in Stacks |-> CASE a = 8 -> <<"sel", UsrSel(4)>> [] a = 7 -> <<"num", 13>>
                                   [] a = 6 -> <<"eflags", 0>> [] a = 5 -> <<"sel", UsrSel(3)>>
                                   [] a = 4 -> <<"eip", <<"userland", 5>>>> [] OTHER -> stack[a]]
      /\ esp' = 4
  BY <1>7, <1>8 DEF Pushed, Stacks, UserTop
<1>10. seg' = [seg EXCEPT !["cs"] = KernelCode, !["ss"] = KernelData]
  BY <1>1, <1>2, <1>8 DEF Entered, Sound, GateSel, KernelCode, KernelData
<1>11. seg \in [SegRegs -> [sel : Selectors, desc : Descriptors]] BY DEF Steady, Stored
<1>12. /\ seg'["cs"] = KernelCode /\ seg'["ss"] = KernelData
       /\ \A reg \in DataRegs : seg'[reg] = seg[reg]
  BY <1>10, <1>11 DEF SegRegs, DataRegs
<1>13. Steady'
  <2>1. {KernelCode, KernelData} \subseteq [sel : Selectors, desc : Descriptors]
    BY DEF KernelCode, KernelData, Loaded, KrnSel, Selectors, Descriptors
  <2>2. seg' \in [SegRegs -> [sel : Selectors, desc : Descriptors]]
    BY <1>10, <1>11, <2>1
  <2>3. DOMAIN stack' = Stacks /\ \A a \in Stacks : stack'[a][1] \in Tags
    BY <1>9 DEF Steady, Stored, Tags
  <2> QED BY <1>8, <1>9, <2>2, <2>3 DEF Steady, Stored, Results, Physical, paging, Stacks, UserTop
<1>14. InKernel(EndAt)'
  <2>1. TaskIndex \in {5, 6} /\ TablesAt(EndAt) BY <1>1 DEF TaskIndex, InUser
  <2>2. TablesAt(26)' BY <1>1, <1>8, <2>1, Fixed DEF TablesAt
  <2>3. \A reg \in DataRegs : DataIs(reg, 26)'
    <3>1. SUFFICES ASSUME NEW reg \in DataRegs PROVE DataIs(reg, 26)' OBVIOUS
    <3>2. 26 > LoadAt(reg) BY <1>1 DEF LoadAt, LoadsAt, DataRegs
    <3>3. seg'[reg] = UserData BY <1>1, <1>12 DEF InUser
    <3> QED BY <1>1, <1>8, <3>2, <3>3, Fixed DEF DataIs
  <2> QED BY <1>1, <1>8, <1>12, <2>2, <2>3, Fixed DEF InKernel
<1>15. Following = <<"userland", 5>> BY <1>1 DEF Following
<1>16. \A a \in 13 .. 14 : stack'[a] = stack[a] BY <1>9 DEF Stacks, UserTop
<1>17. /\ stack'[8] = <<"sel", UsrSel(4)>> /\ stack'[7] = <<"num", 13>>
       /\ stack'[5] = <<"sel", UsrSel(3)>> /\ stack'[4] = <<"eip", <<"userland", 5>>>>
  BY <1>9 DEF Stacks, UserTop
<1>18. /\ Len(caller') = 1
       /\ caller'[1] = [eip |-> <<"userland", 5>>, esp |-> 13, ebp |-> 13, gpr |-> Asked, ring |-> 3,
                        seg |-> seg, stack |-> stack]
  BY <1>1, <1>8, <1>15
<1>19. /\ seg["cs"] = UserCode' /\ seg["ss"] = UserData'
       /\ \A reg \in DataRegs : seg[reg] = UserData'
  BY <1>1, <1>8, Fixed DEF InUser
<1> QED
  BY <1>1, <1>8, <1>9, <1>13, <1>14, <1>16, <1>17, <1>18, <1>19 DEF InSyscallIsr, SystemCalled

\* userland of tp5 comes to its system call.
LEMMA Userland5Step ==
  ASSUME Steady, NEW k \in 1 .. 5, InUserland5(k), Step
  PROVE  /\ Steady' /\ program' = program
         /\ \/ k < 4 /\ InUserland5(k + 1)'
            \/ k = 4 /\ InSyscallIsr(1)'
<1>1. program = "tp5" /\ eip = <<"userland", k>> /\ InUser /\ EndAt = 26 BY DEF InUserland5, EndAt
<1>2. Sound BY <1>1, SoundUser
<1>3. Instruction = Userland5[k] BY <1>1 DEF Instruction, Code
<1>4. CASE k = 1
  <2>1. Instruction = <<"push_ebp">> BY <1>3, <1>4 DEF Userland5
  <2>2. PushEbp BY <1>2, <2>1, Acts DEF Sound
  <2>3. /\ stack' = [a \in Stacks |-> IF a = 13 THEN <<"num", ebp>> ELSE stack[a]] /\ esp' = 13
        /\ eip' = <<"userland", 2>>
        /\ UNCHANGED <<program, gdt, gdtr, seg, ring, tr, tss, paging, ebp, gpr, gates, shown,
                       copied, caller>>
    BY <1>1, <1>4, <2>2 DEF PushEbp, Continue, Following, Pushed, InUserland5, segmentation
  <2>4. Steady' BY <2>3 DEF Steady, Stored, Results, Physical, paging, Stacks, UserTop, Tags
  <2>5. InUser' BY <1>1, <2>3, UserKept
  <2> QED BY <1>1, <1>4, <2>3, <2>4, <2>5 DEF InUserland5
<1>5. CASE k = 2
  <2>1. Instruction = <<"frame">> BY <1>3, <1>5 DEF Userland5
  <2>2. MakeFrame BY <1>2, <2>1, Acts DEF Sound
  <2>3. /\ ebp' = 13 /\ eip' = <<"userland", 3>>
        /\ UNCHANGED <<program, gdt, gdtr, seg, ring, tr, tss, paging, esp, gpr, stack, gates, shown,
                       copied, caller>>
    BY <1>1, <1>5, <2>2 DEF MakeFrame, Continue, Following, InUserland5, segmentation
  <2>4. Steady' BY <2>3 DEF Steady, Stored, Results, Physical, paging, Stacks, UserTop
  <2>5. InUser' BY <1>1, <2>3, UserKept
  <2> QED BY <1>1, <1>5, <2>3, <2>4, <2>5 DEF InUserland5
<1>6. CASE k = 3
  <2>1. Instruction = <<"set", Asked>> BY <1>3, <1>6 DEF Userland5, Asked
  <2>2. SetGpr BY <1>2, <2>1, Acts DEF Sound
  <2>3. /\ gpr' = Asked /\ eip' = <<"userland", 4>>
        /\ UNCHANGED <<program, gdt, gdtr, seg, ring, tr, tss, paging, esp, ebp, stack, gates, shown,
                       copied, caller>>
    BY <1>1, <1>6, <2>1, <2>2 DEF SetGpr, Arg, Continue, Following, segmentation
  <2>4. Steady' BY <2>3 DEF Steady, Stored, Results, Physical, paging, Gprs, Asked
  <2>5. InUser' BY <1>1, <2>3, UserKept
  <2> QED BY <1>1, <1>6, <2>3, <2>4, <2>5 DEF InUserland5
<1>7. CASE k = 4 BY <1>7, SystemCall
<1>8. CASE k = 5
  <2>1. Instruction = <<"spin">> BY <1>3, <1>8 DEF Userland5
  <2> QED BY <1>2, <2>1, Acts DEF Sound
<1> QED BY <1>4, <1>5, <1>6, <1>7, <1>8

\* An NMI in userland of tp5 is handled.
LEMMA Userland5Nmi ==
  ASSUME Steady, NEW k \in 1 .. 5, InUserland5(k), Nmi
  PROVE  InUserland5(k)' /\ Steady'
<1>1. program = "tp5" /\ InUser /\ EndAt = 26 BY DEF InUserland5, EndAt
<1>2. Sound BY <1>1, SoundUser
<1>3. UNCHANGED <<eip, seg, gdt, gdtr, ring, tr, tss, paging, program, esp, ebp, gpr, gates,
                  shown, copied, caller>>
      /\ Stored'
  BY <1>2, NmiKeeps DEF Steady
<1>4. InUser' BY <1>1, <1>3, UserKept
<1> QED BY <1>3, <1>4 DEF InUserland5, Steady, Results, Physical, paging

\* The handler leaves the frame, and what lies above it, alone.
LEMMA SystemCalledKept ==
  ASSUME SystemCalled, UNCHANGED <<program, caller>>, \A a \in 4 .. 14 : stack'[a] = stack[a]
  PROVE  SystemCalled'
BY Fixed DEF SystemCalled

\* An NMI in the handler leaves the frame of the int alone.
LEMMA SyscallIsrNmi ==
  ASSUME Steady, NEW k \in 1 .. 7, InSyscallIsr(k), Nmi
  PROVE  InSyscallIsr(k)' /\ Steady'
<1>1. program = "tp5" /\ InKernel(EndAt) /\ EndAt = 26 /\ ring = 0 /\ esp \in 2 .. 4
  BY DEF InSyscallIsr, EndAt, InKernel
<1>2. Sound BY <1>1, CanRun, SoundKernel DEF Steady
<1>3. /\ UNCHANGED <<eip, seg, gdt, gdtr, ring, tr, tss, paging, program, esp, ebp, gpr, gates,
                     shown, copied, caller>>
      /\ stack' = [a \in Stacks |-> IF a < esp THEN Unknown ELSE stack[a]]
      /\ Stored'
  BY <1>1, <1>2, NmiKeeps DEF Steady, FrameTop
<1>4. InKernel(26)' BY <1>1, <1>3, KernelKept
<1>5. \A a \in Stacks : a >= esp => stack'[a] = stack[a] BY <1>1, <1>3 DEF Stacks, UserTop
<1>6. SystemCalled' BY <1>1, <1>3, <1>5, SystemCalledKept DEF InSyscallIsr, Stacks, UserTop
<1>7. /\ k \in {2, 3} => stack'[3] = stack[3]
      /\ k \in {5, 6} => stack'[3] = stack[3] /\ stack'[2] = stack[2]
  BY <1>5 DEF InSyscallIsr, Stacks, UserTop
<1>8. EndAt' = 26 BY <1>1, <1>3, Fixed
<1> QED
  BY <1>3, <1>4, <1>6, <1>7, <1>8 DEF InSyscallIsr, Steady, Results, Physical, paging

\* The handler returns to ring 3 as int 48 found it.
LEMMA SyscallReturn ==
  ASSUME Steady, InSyscallIsr(7), Step
  PROVE  Steady' /\ program' = program /\ InUserland5(5)' /\ Resumed(caller[1])
<1>1. /\ program = "tp5" /\ eip = <<"syscall_isr", 7>> /\ InKernel(EndAt) /\ EndAt = 26
      /\ ring = 0 /\ esp = 4 /\ ebp = 13 /\ gpr = Asked /\ UserIndex = 4
      /\ gates[48] = [handler |-> "syscall_isr", dpl |-> 3] /\ SystemCalled
  BY DEF InSyscallIsr, EndAt, InKernel, UserIndex, TaskIndex
<1>2. Sound BY <1>1, CanRun, SoundKernel DEF Steady
<1>3. Instruction = <<"iret">> BY <1>1 DEF Instruction, Code, SyscallIsr
<1>4. /\ stack[4] = <<"eip", <<"userland", 5>>>> /\ stack[5] = <<"sel", UsrSel(3)>>
      /\ stack[7] = <<"num", 13>> /\ stack[8] = <<"sel", UsrSel(4)>>
  BY <1>1 DEF SystemCalled
<1>5. FrameCs = UsrSel(3) /\ FrameSs = UsrSel(4) BY <1>1, <1>4 DEF FrameCs, FrameSs
<1>6. Entry(UsrSel(3)) = FlatDesc(3, "code") /\ Entry(UsrSel(4)) = FlatDesc(3, "data")
  BY <1>1, UserEntries DEF InKernel, Loaders, LoadsAt
<1>7. FrameOk
  BY <1>1, <1>4, <1>5, <1>6 DEF FrameOk, CanReturn, StackOk, UsrSel, FlatDesc, Descriptor
<1>8. Iret BY <1>2, <1>3, <1>7, Acts DEF Sound
<1>9. /\ eip' = <<"userland", 5>> /\ ring' = 3 /\ caller' = << >> /\ esp' = 13
      /\ seg' = Returned(0, UsrSel(3), UsrSel(4))
      /\ UNCHANGED <<gdt, gdtr, tr, tss, paging, program, ebp, gpr, stack, gates, shown, copied>>
  BY <1>1, <1>4, <1>5, <1>8 DEF Iret, UsrSel, Number
<1>10. /\ seg'["cs"] = UserCode /\ seg'["ss"] = UserData
       /\ \A reg \in DataRegs : seg'[reg] = UserData
  <2>1. \A reg \in DataRegs : seg[reg] = UserData
    BY <1>1 DEF InKernel, DataIs, LoadAt, LoadsAt, DataRegs
  <2>2. \A reg \in DataRegs : Kept(reg, 3) = UserData
    BY <2>1 DEF Kept, UserData, Loaded, FlatDesc, Descriptor
  <2>3. /\ seg'["cs"] = Loaded(UsrSel(3), FlatDesc(3, "code"))
        /\ seg'["ss"] = Loaded(UsrSel(4), FlatDesc(3, "data"))
    BY <1>6, <1>9 DEF Returned, UsrSel, SegRegs
  <2>4. \A reg \in DataRegs : seg'[reg] = UserData
    BY <1>9, <2>2 DEF Returned, UsrSel, SegRegs, DataRegs
  <2> QED BY <1>1, <2>3, <2>4 DEF UserCode, UserData
<1>11. Steady'
  <2>1. {UserCode, UserData} \subseteq [sel : Selectors, desc : Descriptors]
    BY <1>1 DEF UserCode, UserData, Loaded, UsrSel, Selectors, Descriptors
  <2>2. seg' = [reg \in SegRegs |-> seg'[reg]] BY <1>9 DEF Returned
  <2>3. \A reg \in SegRegs : seg'[reg] \in {UserCode, UserData} BY <1>10 DEF SegRegs, DataRegs
  <2>4. seg' \in [SegRegs -> [sel : Selectors, desc : Descriptors]] BY <2>1, <2>2, <2>3
  <2> QED BY <1>9, <2>4 DEF Steady, Stored, Results, Physical, paging, Stacks, UserTop
<1>12. InUser'
  <2>1. TaskIndex \in {5, 6} /\ TablesAt(26) BY <1>1 DEF TaskIndex, InKernel
  <2>2. TablesAt(26)' BY <1>9, <2>1, Fixed DEF TablesAt
  <2> QED BY <1>1, <1>9, <1>10, <2>2, Fixed DEF InUser
<1>13. Resumed(caller[1])
  <2>1. \A reg \in SegRegs : seg'[reg] = caller[1].seg[reg]
    BY <1>1, <1>10 DEF SystemCalled, SegRegs, DataRegs
  <2> QED BY <1>1, <1>9, <2>1 DEF Resumed, SystemCalled, UserTop
<1> QED BY <1>1, <1>9, <1>11, <1>12, <1>13 DEF InUserland5

\* The handler finds, below the frame, what it has saved there.
LEMMA SyscallIsrStep ==
  ASSUME Steady, NEW k \in 1 .. 6, InSyscallIsr(k), Step
  PROVE  Steady' /\ program' = program /\ InSyscallIsr(k + 1)' /\ caller' = caller
<1>1. /\ program = "tp5" /\ eip = <<"syscall_isr", k>> /\ InKernel(EndAt) /\ EndAt = 26
      /\ gates[48] = [handler |-> "syscall_isr", dpl |-> 3] /\ SystemCalled
  BY DEF InSyscallIsr, EndAt
<1>2. Reachable(KernelFrame) /\ seg["ds"].desc.kind = "data"
  BY <1>1, CanRun, DataUsable DEF InKernel, DataRegs
<1>3. Instruction = SyscallIsr[k] BY <1>1 DEF Instruction, Code
<1>4. ASSUME UNCHANGED <<program, gdt, gdtr, seg, ring, tr, tss, gates, caller>>,
             \A a \in 4 .. 14 : stack'[a] = stack[a]
      PROVE  program' = "tp5" /\ InKernel(EndAt)' /\ SystemCalled' /\ EndAt' = 26
             /\ gates'[48] = [handler |-> "syscall_isr", dpl |-> 3]
  <2>1. InKernel(26)' BY <1>1, <1>4, KernelKept
  <2>2. EndAt' = 26 BY <1>1, <1>4, Fixed
  <2>3. SystemCalled' BY <1>1, <1>4, SystemCalledKept
  <2> QED BY <1>1, <1>4, <2>1, <2>2, <2>3
<1>5. CASE k = 1
  <2>1. Instruction = <<"push_ebp">> BY <1>3, <1>5 DEF SyscallIsr
  <2>2. PushEbp BY <1>2, <2>1, Acts
  <2>3. /\ stack' = [a \in Stacks |-> IF a = 3 THEN <<"num", 13>> ELSE stack[a]] /\ esp' = 3
        /\ eip' = <<"syscall_isr", 2>>
        /\ UNCHANGED <<program, gdt, gdtr, seg, ring, tr, tss, paging, ebp, gpr, gates, shown,
                       copied, caller>>
    BY <1>1, <1>5, <2>2 DEF PushEbp, Continue, Following, Pushed, InSyscallIsr, segmentation
  <2>4. Steady' BY <2>3 DEF Steady, Stored, Results, Physical, paging, Stacks, UserTop, Tags
  <2>5. stack'[3] = <<"num", 13>> /\ \A a \in 4 .. 14 : stack'[a] = stack[a]
    BY <2>3 DEF Stacks, UserTop
  <2> QED BY <1>4, <1>5, <2>3, <2>4, <2>5 DEF InSyscallIsr
<1>6. CASE k = 2
  <2>1. Instruction = <<"frame">> BY <1>3, <1>6 DEF SyscallIsr
  <2>2. MakeFrame BY <1>2, <2>1, Acts
  <2>3. /\ ebp' = 3 /\ eip' = <<"syscall_isr", 3>>
        /\ UNCHANGED <<program, gdt, gdtr, seg, ring, tr, tss, paging, esp, gpr, stack, gates, shown,
                       copied, caller>>
    BY <1>1, <1>6, <2>2 DEF MakeFrame, Continue, Following, InSyscallIsr, segmentation
  <2>4. Steady' BY <2>3 DEF Steady, Stored, Results, Physical, paging, Stacks, UserTop
  <2> QED BY <1>4, <1>6, <2>3, <2>4 DEF InSyscallIsr
<1>7. CASE k = 3
  <2>1. Instruction = <<"leave">> BY <1>3, <1>7 DEF SyscallIsr
  <2>2. Leave BY <1>2, <2>1, Acts
  <2>3. /\ ebp' = 13 /\ esp' = 4 /\ eip' = <<"syscall_isr", 4>>
        /\ UNCHANGED <<program, gdt, gdtr, seg, ring, tr, tss, paging, gpr, stack, gates, shown,
                       copied, caller>>
    BY <1>1, <1>7, <2>2 DEF Leave, Number, Continue, Following, InSyscallIsr, segmentation
  <2>4. Steady' BY <2>3 DEF Steady, Stored, Results, Physical, paging, Stacks, UserTop
  <2> QED BY <1>4, <1>7, <2>3, <2>4 DEF InSyscallIsr
<1>8. CASE k = 4
  <2>1. Instruction = <<"pusha">> BY <1>3, <1>8 DEF SyscallIsr
  <2>2. Pusha BY <1>2, <2>1, Acts
  <2>3. /\ stack' = [a \in Stacks |-> IF a = 3 THEN Asked
                                      ELSE IF a = 2 THEN <<"num", 13>> ELSE stack[a]]
        /\ esp' = 2 /\ eip' = <<"syscall_isr", 5>>
        /\ UNCHANGED <<program, gdt, gdtr, seg, ring, tr, tss, paging, ebp, gpr, gates, shown,
                       copied, caller>>
    BY <1>1, <1>8, <2>2 DEF Pusha, Continue, Following, Pushed, InSyscallIsr, segmentation
  <2>4. Steady'
    BY <2>3 DEF Steady, Stored, Results, Physical, paging, Stacks, UserTop, Tags, Asked
  <2>5. stack'[3] = Asked /\ stack'[2] = <<"num", 13>> /\ \A a \in 4 .. 14 : stack'[a] = stack[a]
    BY <2>3 DEF Stacks, UserTop
  <2> QED BY <1>4, <1>8, <2>3, <2>4, <2>5 DEF InSyscallIsr
<1>9. CASE k = 5
  <2>1. Instruction = <<"syscall_handler">> BY <1>3, <1>9 DEF SyscallIsr
  <2>2. Printf BY <1>2, <2>1, Acts
  <2>3. Shows = stack[esp + 1] BY <2>1 DEF Shows
  <2>4. /\ shown' = Asked /\ gpr' = Scratch /\ eip' = <<"syscall_isr", 6>>
        /\ UNCHANGED <<program, gdt, gdtr, seg, ring, tr, tss, paging, esp, ebp, stack, gates,
                       copied, caller>>
    BY <1>1, <1>9, <2>2, <2>3 DEF Printf, Continue, Following, InSyscallIsr, segmentation
  <2>5. Steady' BY <1>1, <2>4 DEF Steady, Stored, Results, Physical, paging, Gprs, Asked
  <2> QED BY <1>4, <1>9, <2>4, <2>5 DEF InSyscallIsr
<1>10. CASE k = 6
  <2>1. Instruction = <<"popa">> BY <1>3, <1>10 DEF SyscallIsr
  <2>2. Popa BY <1>2, <2>1, Acts
  <2>3. /\ ebp' = 13 /\ gpr' = Asked /\ esp' = 4 /\ eip' = <<"syscall_isr", 7>>
        /\ UNCHANGED <<program, gdt, gdtr, seg, ring, tr, tss, paging, stack, gates, shown,
                       copied, caller>>
    BY <1>1, <1>10, <2>2 DEF Popa, Number, Continue, Following, InSyscallIsr, segmentation
  <2>4. Steady'
    BY <2>3 DEF Steady, Stored, Results, Physical, paging, Stacks, UserTop, Gprs, Asked
  <2> QED BY <1>4, <1>10, <2>3, <2>4 DEF InSyscallIsr
<1> QED BY <1>5, <1>6, <1>7, <1>8, <1>9, <1>10
-----------------------------------------------------------------------------
(***************************************************************************)
(* tp2, and its handler.                                                   *)
(***************************************************************************)
\* The handler leaves the frame, and what lies above it, alone.
LEMMA TrappedKept ==
  ASSUME Trapped, UNCHANGED <<program, caller>>, \A a \in 5 .. 14 : stack'[a] = stack[a]
  PROVE  Trapped'
BY DEF Trapped

\* tp2 and tp4 leave the segments as they are.
LEMMA PlainKernel ==
  ASSUME program \in {"tp2", "tp4"}, NEW k \in 1 .. 16, NEW j \in 1 .. 16
  PROVE  InKernel(k) <=> InKernel(j)
<1>1. /\ LgdtAt = 99 /\ TssAt = 99 /\ TaskIndex = 5 /\ \A reg \in DataRegs : LoadAt(reg) > 99
      /\ \A i \in 0 .. TaskIndex : WrittenAt(i) \in {99, 100}
  BY DEF LgdtAt, TssAt, Never, LoadAt, LoadsAt, WrittenAt, TaskIndex, DataRegs
<1>2. TablesAt(k) <=> TablesAt(j)
  <2>1. \A m \in 1 .. 16 : TablesAt(m) <=> /\ gdtr = [table |-> "grub", limit |-> 39]
                                         /\ tr = 0
    <3>1. SUFFICES ASSUME NEW m \in 1 .. 16
                   PROVE  TablesAt(m) <=> gdtr = [table |-> "grub", limit |-> 39] /\ tr = 0
      OBVIOUS
    <3>2. ~(m > LgdtAt) /\ ~(m > TssAt) /\ ~(m > TssAt + 2) /\ \A i \in 0 .. TaskIndex : ~(m > WrittenAt(i))
      BY <1>1
    <3> QED BY <3>2 DEF TablesAt
  <2> QED BY <2>1
<1>3. \A reg \in DataRegs : DataIs(reg, k) <=> DataIs(reg, j)
  <2>1. \A m \in 1 .. 16, reg \in DataRegs : DataIs(reg, m) <=> seg[reg] = KernelData
    <3>1. SUFFICES ASSUME NEW m \in 1 .. 16, NEW reg \in DataRegs
                   PROVE  DataIs(reg, m) <=> seg[reg] = KernelData
      OBVIOUS
    <3>2. ~(m > LoadAt(reg)) BY DEF LoadAt, LoadsAt, DataRegs, Never
    <3> QED BY <3>2 DEF DataIs
  <2> QED BY <2>1
<1> QED BY <1>2, <1>3 DEF InKernel

\* tp2 sets its gate, and enters its handler.
LEMMA Tp2Step ==
  ASSUME program = "tp2", Steady, NEW k \in 1 .. 4, InTp(k), Step
  PROVE  /\ Steady' /\ program' = program
         /\ \/ k \in {1, 3} /\ InTp(k + 1)'
            \/ k = 2 /\ InBpHandler(1)'
            \/ k = 4 /\ eip' = <<"done">>
<1>1. /\ eip = <<"tp2", k>> /\ InKernel(k) /\ EndAt = 4 /\ esp = 8 /\ ebp = 9 /\ ring = 0
      /\ caller = << >> /\ Pushes(k) = 0 /\ Pushes(k + 1) = 0
  BY DEF InTp, EndAt, Pushes, InKernel, KernelTop
<1>2. Reachable(KernelFrame) /\ seg["ds"].desc.kind = "data"
  BY <1>1, CanRun, DataUsable DEF InKernel, DataRegs
<1>3. Instruction = Tp2[k] BY <1>1 DEF Instruction, Code
<1>4. InKernel(k + 1) /\ InKernel(1) BY <1>1, PlainKernel
<1>5. CASE k = 1
  <2>1. Instruction = <<"gate", 3, "bp_handler", 0>> BY <1>3, <1>5 DEF Tp2
  <2>2. SetGate BY <1>2, <2>1, Acts
  <2>3. /\ gates' = [gates EXCEPT ![3] = [handler |-> "bp_handler", dpl |-> 0]]
        /\ eip' = <<"tp2", 2>>
        /\ UNCHANGED <<program, gdt, gdtr, seg, ring, tr, tss, paging, esp, ebp, gpr, stack, shown,
                       copied, caller>>
    BY <1>1, <1>5, <2>1, <2>2 DEF SetGate, Arg, Continue, Following, segmentation
  <2>4. Steady' BY <2>3 DEF Steady, Stored, Results, Physical, paging, Flags
  <2>5. InKernel(2)' BY <1>4, <1>5, <2>3, KernelKept
  <2>6. gates'[3] = [handler |-> "bp_handler", dpl |-> 0] /\ gates'[48] = gates[48]
    BY <2>3 DEF Steady, Stored
  <2>7. InTp(2)'
    BY <1>1, <1>5, <2>3, <2>5, <2>6, Fixed DEF InTp, KernelTop
  <2> QED BY <1>5, <2>3, <2>4, <2>7
<1>6. CASE k = 2
  <2>1. Instruction = <<"int", 3>> BY <1>3, <1>6 DEF Tp2
  <2>2. Entry(KrnSel(1)) = FlatDesc(0, "code") /\ Entry(KrnSel(2)) = FlatDesc(0, "data")
    BY <1>1, Coherent DEF InKernel, Steady
  <2>3. CanEnter BY <1>1, <2>2 DEF CanEnter, GateSel, FlatDesc, Descriptor
  <2>4. gates[3] = [handler |-> "bp_handler", dpl |-> 0] /\ gates[48] = [handler |-> "stub", dpl |-> 0]
    BY <1>6 DEF InTp
  <2>5. SoftInt BY <1>1, <1>2, <2>1, <2>3, <2>4, Acts DEF Arg
  <2>6. Following = <<"tp2", 3>> BY <1>1, <1>6 DEF Following
  <2>7. /\ Len(Interrupted(Following)) = 3
        /\ Interrupted(Following)[1] = <<"eflags", 0>>
        /\ Interrupted(Following)[2] = <<"sel", KrnSel(1)>>
        /\ Interrupted(Following)[3] = <<"eip", <<"tp2", 3>>>>
    BY <1>1, <2>6 DEF Interrupted, InKernel, KernelCode, Loaded
  <2>8. /\ eip' = <<"bp_handler", 1>> /\ stack' = Pushed(8, Interrupted(Following))
        /\ esp' = 8 - Len(Interrupted(Following)) /\ seg' = Entered /\ ring' = 0
        /\ caller' = <<[eip |-> <<"tp2", 3>>, esp |-> 8, ebp |-> 9, gpr |-> gpr, ring |-> 0,
                        seg |-> seg, stack |-> stack]>>
        /\ UNCHANGED <<gdt, gdtr, tr, tss, paging, program, ebp, gpr, gates, shown, copied>>
    BY <1>1, <2>1, <2>4, <2>5, <2>6 DEF SoftInt, Arg, FrameTop
  <2>9. stack' = [a \in Stacks |-> CASE a = 7 -> <<"eflags", 0>> [] a = 6 -> <<"sel", KrnSel(1)>>
                                     [] a = 5 -> <<"eip", <<"tp2", 3>>>> [] OTHER -> stack[a]]
        /\ esp' = 5
    BY <2>7, <2>8 DEF Pushed, Stacks, UserTop
  <2>10. seg' = seg
    <3>1. seg["cs"] = Loaded(KrnSel(1), FlatDesc(0, "code")) BY <1>1 DEF InKernel, KernelCode
    <3>2. seg \in [SegRegs -> [sel : Selectors, desc : Descriptors]] BY DEF Steady, Stored
    <3>3. \A reg \in SegRegs : Entered[reg] = seg[reg]
      BY <1>1, <2>2, <3>1, <3>2 DEF Entered, GateSel
    <3>4. Entered = [reg \in SegRegs |-> Entered[reg]] BY <3>2 DEF Entered
    <3> QED BY <2>8, <3>2, <3>3, <3>4
  <2>11. Steady'
    <3>1. DOMAIN stack' = Stacks /\ \A a \in Stacks : stack'[a][1] \in Tags
      BY <2>9 DEF Steady, Stored, Tags
    <3> QED BY <1>1, <2>8, <2>9, <2>10, <3>1 DEF Steady, Stored, Results, Physical, paging, Stacks, UserTop
  <2>12. InKernel(1)' BY <1>1, <1>4, <2>8, <2>10, KernelKept
  <2>13. /\ stack'[6] = <<"sel", KrnSel(1)>> /\ stack'[5] = <<"eip", <<"tp2", 3>>>>
         /\ \A a \in 8 .. 14 : stack'[a] = stack[a]
    BY <2>9 DEF Stacks, UserTop
  <2>14. /\ Len(caller') = 1
         /\ caller'[1] = [eip |-> <<"tp2", 3>>, esp |-> 8, ebp |-> 9, gpr |-> gpr, ring |-> 0,
                          seg |-> seg, stack |-> stack]
    BY <2>8
  <2>15. /\ seg["cs"] = KernelCode /\ seg["ss"] = KernelData /\ gpr \in Gprs
         /\ \A reg \in DataRegs : seg[reg] = KernelData
    BY <1>1, <1>6 DEF InKernel, DataIs, LoadAt, LoadsAt, DataRegs, Never, Steady, Stored
  <2>16. Trapped' BY <2>13, <2>14, <2>15 DEF Trapped, KernelCode, KernelData
  <2>17. InBpHandler(1)'
    BY <1>1, <2>4, <2>8, <2>9, <2>12, <2>14, <2>16 DEF InBpHandler
  <2> QED BY <1>6, <2>8, <2>11, <2>17
<1>7. CASE k = 3
  <2>1. Instruction = <<"debug">> BY <1>3, <1>7 DEF Tp2
  <2>2. Printf BY <1>2, <2>1, Acts
  <2>3. Shows = shown BY <2>1 DEF Shows
  <2>4. /\ shown' = shown /\ gpr' = Scratch /\ eip' = <<"tp2", 4>>
        /\ UNCHANGED <<program, gdt, gdtr, seg, ring, tr, tss, paging, esp, ebp, stack, gates,
                       copied, caller>>
    BY <1>1, <1>7, <2>2, <2>3 DEF Printf, Continue, Following, segmentation
  <2>5. Steady' BY <2>4 DEF Steady, Stored, Results, Physical, paging, Gprs
  <2>6. InKernel(4)' BY <1>4, <1>7, <2>4, KernelKept
  <2>7. InTp(4)' BY <1>1, <1>7, <2>4, <2>6, Fixed DEF InTp, KernelTop
  <2> QED BY <1>7, <2>4, <2>5, <2>7
<1>8. CASE k = 4
  <2>1. Instruction = <<"ret">> BY <1>3, <1>8 DEF Tp2
  <2>2. Return BY <1>2, <2>1, Acts
  <2> QED BY <1>8, <2>2 DEF Return, Steady, Stored, Results, Physical, paging, segmentation
<1> QED BY <1>5, <1>6, <1>7, <1>8

\* The handler finds, below the frame, what it has saved there.
LEMMA BpHandlerStep ==
  ASSUME Steady, NEW k \in 1 .. 6, InBpHandler(k), Step
  PROVE  Steady' /\ program' = program /\ InBpHandler(k + 1)' /\ caller' = caller
<1>1. /\ program = "tp2" /\ eip = <<"bp_handler", k>> /\ InKernel(1) /\ EndAt = 4
      /\ gates[3] = [handler |-> "bp_handler", dpl |-> 0]
      /\ gates[48] = [handler |-> "stub", dpl |-> 0] /\ Trapped /\ caller[1].gpr \in Gprs
  BY DEF InBpHandler, EndAt, Trapped
<1>2. Reachable(KernelFrame) /\ seg["ds"].desc.kind = "data"
  BY <1>1, CanRun, DataUsable DEF InKernel, DataRegs
<1>3. Instruction = BpHandler[k] BY <1>1 DEF Instruction, Code
<1>4. ASSUME UNCHANGED <<program, gdt, gdtr, seg, ring, tr, tss, gates, caller>>,
             \A a \in 5 .. 14 : stack'[a] = stack[a]
      PROVE  /\ program' = "tp2" /\ InKernel(1)' /\ Trapped'
             /\ gates'[3] = [handler |-> "bp_handler", dpl |-> 0]
             /\ gates'[48] = [handler |-> "stub", dpl |-> 0]
  BY <1>1, <1>4, KernelKept, TrappedKept
<1>5. CASE k = 1
  <2>1. Instruction = <<"push_ebp">> BY <1>3, <1>5 DEF BpHandler
  <2>2. PushEbp BY <1>2, <2>1, Acts
  <2>3. /\ stack' = [a \in Stacks |-> IF a = 4 THEN <<"num", 9>> ELSE stack[a]] /\ esp' = 4
        /\ eip' = <<"bp_handler", 2>>
        /\ UNCHANGED <<program, gdt, gdtr, seg, ring, tr, tss, paging, ebp, gpr, gates, shown,
                       copied, caller>>
    BY <1>1, <1>5, <2>2 DEF PushEbp, Continue, Following, Pushed, InBpHandler, segmentation
  <2>4. Steady' BY <2>3 DEF Steady, Stored, Results, Physical, paging, Stacks, UserTop, Tags
  <2>5. stack'[4] = <<"num", 9>> /\ \A a \in 5 .. 14 : stack'[a] = stack[a]
    BY <2>3 DEF Stacks, UserTop
  <2> QED BY <1>4, <1>5, <2>3, <2>4, <2>5 DEF InBpHandler
<1>6. CASE k = 2
  <2>1. Instruction = <<"frame">> BY <1>3, <1>6 DEF BpHandler
  <2>2. MakeFrame BY <1>2, <2>1, Acts
  <2>3. /\ ebp' = 4 /\ eip' = <<"bp_handler", 3>>
        /\ UNCHANGED <<program, gdt, gdtr, seg, ring, tr, tss, paging, esp, gpr, stack, gates, shown,
                       copied, caller>>
    BY <1>1, <1>6, <2>2 DEF MakeFrame, Continue, Following, InBpHandler, segmentation
  <2>4. Steady' BY <2>3 DEF Steady, Stored, Results, Physical, paging, Stacks, UserTop
  <2> QED BY <1>4, <1>6, <2>3, <2>4 DEF InBpHandler
<1>7. CASE k = 3
  <2>1. Instruction = <<"pusha">> BY <1>3, <1>7 DEF BpHandler
  <2>2. Pusha BY <1>2, <2>1, Acts
  <2>3. /\ stack' = [a \in Stacks |-> IF a = 3 THEN gpr
                                      ELSE IF a = 2 THEN <<"num", 4>> ELSE stack[a]]
        /\ esp' = 2 /\ eip' = <<"bp_handler", 4>> /\ gpr = caller[1].gpr
        /\ UNCHANGED <<program, gdt, gdtr, seg, ring, tr, tss, paging, ebp, gpr, gates, shown,
                       copied, caller>>
    BY <1>1, <1>7, <2>2 DEF Pusha, Continue, Following, Pushed, InBpHandler, segmentation
  <2>4. Steady'
    BY <2>3 DEF Steady, Stored, Results, Physical, paging, Stacks, UserTop, Tags, Gprs, Scratch
  <2>5. /\ stack'[4] = <<"num", 9>> /\ stack'[3] = caller[1].gpr /\ stack'[2] = <<"num", 4>>
        /\ \A a \in 5 .. 14 : stack'[a] = stack[a]
    BY <1>7, <2>3 DEF Stacks, UserTop, InBpHandler
  <2> QED BY <1>4, <1>7, <2>3, <2>4, <2>5 DEF InBpHandler
<1>8. CASE k = 4
  <2>1. Instruction = <<"show_eip">> BY <1>3, <1>8 DEF BpHandler
  <2>2. Printf BY <1>2, <2>1, Acts
  <2>3. Shows = stack[ebp + 1] BY <2>1 DEF Shows
  <2>4. /\ shown' = <<"eip", <<"tp2", 3>>>> /\ gpr' = Scratch /\ eip' = <<"bp_handler", 5>>
        /\ UNCHANGED <<program, gdt, gdtr, seg, ring, tr, tss, paging, esp, ebp, stack, gates,
                       copied, caller>>
    BY <1>1, <1>8, <2>2, <2>3 DEF Printf, Continue, Following, InBpHandler, Trapped, segmentation
  <2>5. Steady' BY <1>1, <2>4 DEF Steady, Stored, Results, Physical, paging, Gprs
  <2> QED BY <1>4, <1>8, <2>4, <2>5 DEF InBpHandler
<1>9. CASE k = 5
  <2>1. Instruction = <<"popa">> BY <1>3, <1>9 DEF BpHandler
  <2>2. Popa BY <1>2, <2>1, Acts
  <2>3. /\ ebp' = 4 /\ gpr' = caller[1].gpr /\ esp' = 4 /\ eip' = <<"bp_handler", 6>>
        /\ UNCHANGED <<program, gdt, gdtr, seg, ring, tr, tss, paging, stack, gates, shown,
                       copied, caller>>
    BY <1>1, <1>9, <2>2 DEF Popa, Number, Continue, Following, InBpHandler, segmentation
  <2>4. Steady'
    BY <1>1, <2>3 DEF Steady, Stored, Results, Physical, paging, Stacks, UserTop
  <2> QED BY <1>4, <1>9, <2>3, <2>4 DEF InBpHandler
<1>10. CASE k = 6
  <2>1. Instruction = <<"leave">> BY <1>3, <1>10 DEF BpHandler
  <2>2. Leave BY <1>2, <2>1, Acts
  <2>3. /\ ebp' = 9 /\ esp' = 5 /\ eip' = <<"bp_handler", 7>>
        /\ UNCHANGED <<program, gdt, gdtr, seg, ring, tr, tss, paging, gpr, stack, gates, shown,
                       copied, caller>>
    BY <1>1, <1>10, <2>2 DEF Leave, Number, Continue, Following, InBpHandler, segmentation
  <2>4. Steady' BY <2>3 DEF Steady, Stored, Results, Physical, paging, Stacks, UserTop
  <2> QED BY <1>4, <1>10, <2>3, <2>4 DEF InBpHandler
<1> QED BY <1>5, <1>6, <1>7, <1>8, <1>9, <1>10

\* The handler returns to tp2 as int3 found it.
LEMMA BpReturn ==
  ASSUME Steady, InBpHandler(7), Step
  PROVE  Steady' /\ program' = program /\ InTp(3)' /\ Resumed(caller[1])
<1>1. /\ program = "tp2" /\ eip = <<"bp_handler", 7>> /\ InKernel(1) /\ EndAt = 4
      /\ ring = 0 /\ esp = 5 /\ ebp = 9 /\ gpr = caller[1].gpr /\ Trapped
      /\ gates[3] = [handler |-> "bp_handler", dpl |-> 0]
      /\ gates[48] = [handler |-> "stub", dpl |-> 0]
  BY DEF InBpHandler, EndAt, InKernel
<1>2. Reachable(KernelFrame) /\ seg["ds"].desc.kind = "data"
  BY <1>1, CanRun, DataUsable DEF InKernel, DataRegs
<1>3. Instruction = <<"iret">> BY <1>1 DEF Instruction, Code, BpHandler
<1>4. stack[5] = <<"eip", <<"tp2", 3>>>> /\ stack[6] = <<"sel", KrnSel(1)>>
  BY <1>1 DEF Trapped
<1>5. FrameCs = KrnSel(1) BY <1>1, <1>4 DEF FrameCs
<1>6. Entry(KrnSel(1)) = FlatDesc(0, "code") BY <1>1, Coherent DEF InKernel, Steady
<1>7. FrameOk
  BY <1>1, <1>4, <1>5, <1>6 DEF FrameOk, CanReturn, KrnSel, FlatDesc, Descriptor
<1>8. Iret BY <1>2, <1>3, <1>7, Acts
<1>9. /\ eip' = <<"tp2", 3>> /\ ring' = 0 /\ caller' = << >> /\ esp' = 8
      /\ seg' = Returned(0, KrnSel(1), FrameSs)
      /\ UNCHANGED <<gdt, gdtr, tr, tss, paging, program, ebp, gpr, stack, gates, shown, copied>>
  BY <1>1, <1>4, <1>5, <1>8 DEF Iret, KrnSel
<1>10. seg["cs"] = KernelCode /\ seg["ss"] = KernelData /\ \A reg \in DataRegs : seg[reg] = KernelData
  BY <1>1 DEF InKernel, DataIs, LoadAt, LoadsAt, DataRegs, Never
<1>11. seg' = seg
  <2>1. \A reg \in DataRegs : Kept(reg, 0) = KernelData
    BY <1>10 DEF Kept, KernelData, Loaded, FlatDesc, Descriptor
  <2>2. \A reg \in SegRegs : seg'[reg] = seg[reg]
    BY <1>6, <1>9, <1>10, <2>1 DEF Returned, KrnSel, SegRegs, DataRegs, KernelCode
  <2>3. seg = [reg \in SegRegs |-> seg[reg]] /\ seg' = [reg \in SegRegs |-> seg'[reg]]
    BY <1>9 DEF Steady, Stored, Returned
  <2> QED BY <2>2, <2>3
<1>12. Steady' BY <1>1, <1>9, <1>11 DEF Steady, Stored, Results, Physical, paging, Stacks, UserTop
<1>13. InKernel(3)'
  <2>1. InKernel(3) BY <1>1, PlainKernel
  <2> QED BY <1>1, <1>9, <1>11, <2>1, KernelKept
<1>14. Resumed(caller[1])
  <2>1. \A reg \in SegRegs : seg'[reg] = caller[1].seg[reg]
    BY <1>1, <1>10, <1>11 DEF Trapped, SegRegs, DataRegs
  <2> QED BY <1>1, <1>9, <2>1 DEF Resumed, Trapped, UserTop
<1>15. InTp(3)'
  <2>1. Pushes(3) = 0 BY <1>1 DEF Pushes
  <2> QED BY <1>1, <1>9, <1>13, <2>1, Fixed DEF InTp, KernelTop
<1> QED BY <1>9, <1>12, <1>14, <1>15

\* An NMI in the handler leaves the frame of the int alone.
LEMMA BpHandlerNmi ==
  ASSUME Steady, NEW k \in 1 .. 7, InBpHandler(k), Nmi
  PROVE  InBpHandler(k)' /\ Steady'
<1>1. program = "tp2" /\ InKernel(1) /\ EndAt = 4 /\ ring = 0 /\ esp \in 2 .. 5
  BY DEF InBpHandler, EndAt, InKernel
<1>2. Sound BY <1>1, CanRun, SoundKernel DEF Steady
<1>3. /\ UNCHANGED <<eip, seg, gdt, gdtr, ring, tr, tss, paging, program, esp, ebp, gpr, gates,
                     shown, copied, caller>>
      /\ stack' = [a \in Stacks |-> IF a < esp THEN Unknown ELSE stack[a]]
      /\ Stored'
  BY <1>1, <1>2, NmiKeeps DEF Steady, FrameTop
<1>4. InKernel(1)' BY <1>1, <1>3, KernelKept
<1>5. \A a \in Stacks : a >= esp => stack'[a] = stack[a] BY <1>1, <1>3 DEF Stacks, UserTop
<1>6. Trapped' BY <1>1, <1>3, <1>5, TrappedKept DEF InBpHandler, Stacks, UserTop
<1>7. /\ k \in 2 .. 6 => stack'[4] = stack[4]
      /\ k \in 4 .. 5 => stack'[3] = stack[3] /\ stack'[2] = stack[2]
  BY <1>5 DEF InBpHandler, Stacks, UserTop
<1>8. Steady' BY <1>3 DEF Steady, Results, Physical, paging
<1>9. gates'[3] = [handler |-> "bp_handler", dpl |-> 0] /\ gates'[48] = [handler |-> "stub", dpl |-> 0]
  BY <1>3 DEF InBpHandler
<1> QED BY <1>3, <1>4, <1>6, <1>7, <1>8, <1>9 DEF InBpHandler
-----------------------------------------------------------------------------
(***************************************************************************)
(* tp4.                                                                    *)
(***************************************************************************)
\* The indices of an address: the first 2 * N frames take two tables.
LEMMA VirtualIs ==
  /\ \A f \in 0 .. N - 1 : Virtual(f) = <<0, f>>
  /\ \A f \in N .. 2 * N - 1 : Virtual(f) = <<1, f - N>>
<1>1. ASSUME NEW f \in 0 .. N - 1 PROVE Virtual(f) = <<0, f>>
  <2>1. f \div N = 0 BY TableSize
  <2>2. f % N = f BY TableSize
  <2> QED BY <2>1, <2>2 DEF Virtual
<1>2. ASSUME NEW f \in N .. 2 * N - 1 PROVE Virtual(f) = <<1, f - N>>
  <2>1. f \div N = 1 BY TableSize
  <2>2. f % N = f - N BY TableSize
  <2> QED BY <2>1, <2>2 DEF Virtual
<1> QED BY <1>1, <1>2

\* The pages that tp4 uses, one by one.
LEMMA PagesAre ==
  /\ Pages = {<<0, 0>>, <<0, 3>>, <<1, 0>>, <<1, 1>>, <<1, 2>>, <<1, 3>>, <<1, 4>>, <<1, 5>>, target}
  /\ Virtual(KernelFrame) = <<0, 3>> /\ Virtual(GdtFrame) = <<0, 0>>
  /\ Virtual(pgd) = <<1, 0>> /\ Virtual(ptb) = <<1, 1>> /\ Virtual(ptb2) = <<1, 2>>
  /\ Virtual(ptb3) = <<1, 3>> /\ Virtual(v1) = <<1, 4>> /\ Virtual(v2) = <<1, 5>>
<1>1. /\ Virtual(KernelFrame) = <<0, 3>> /\ Virtual(GdtFrame) = <<0, 0>>
      /\ Virtual(pgd) = <<1, 0>> /\ Virtual(ptb) = <<1, 1>> /\ Virtual(ptb2) = <<1, 2>>
      /\ Virtual(ptb3) = <<1, 3>> /\ Virtual(v1) = <<1, 4>> /\ Virtual(v2) = <<1, 5>>
  BY VirtualIs, TableSize DEF KernelFrame, GdtFrame, pgd, ptb, ptb2, ptb3, v1, v2
<1>2. {Virtual(f) : f \in Tables \cup {v1, v2, KernelFrame, GdtFrame}}
        = {Virtual(pgd), Virtual(ptb), Virtual(ptb2), Virtual(ptb3), Virtual(v1), Virtual(v2),
           Virtual(KernelFrame), Virtual(GdtFrame)}
  BY DEF Tables
<1> QED BY <1>1, <1>2 DEF Pages

\* What the tables say, once paging is on.
LEMMA Walks ==
  ASSUME NEW k \in 8 .. 16, InTables(k)
  PROVE  /\ \A i \in {0, 3} : Walk(<<0, i>>) = IF k = 16 THEN Absent ELSE i
         /\ \A i \in 0 .. 3 : Walk(<<1, i>>) = N + i
         /\ Walk(<<1, 4>>) = IF k > 12 THEN SharedFrame ELSE N + 4
         /\ Walk(<<1, 5>>) = IF k > 13 THEN SharedFrame ELSE N + 5
         /\ Walk(target) = IF k > 10 THEN pgd ELSE Absent
<1>1. /\ cr3 = pgd /\ {0, 1, 2, 3, 4, 5, N - 1} \subseteq Index
      /\ table[pgd][0] = (IF k = 16 THEN Absent ELSE ptb) /\ table[pgd][1] = ptb2
      /\ table[pgd][N - 1] = (IF k > 10 THEN ptb3 ELSE Absent)
  <2>1. {0, 1, 2, 3, 4, 5, N - 1} \subseteq Index /\ N - 1 \notin {0, 1} BY TableSize DEF Index
  <2>2. \A j \in Index :
          table[pgd][j] = IF j = 0 /\ k \in 5 .. 15 THEN ptb
                          ELSE IF j = 1 /\ k > 6 THEN ptb2
                          ELSE IF j = N - 1 /\ k > 10 THEN ptb3 ELSE Absent
    BY DEF InTables
  <2>3. table[pgd][0] = IF k = 16 THEN Absent ELSE ptb
    <3>1. 0 \in Index /\ 0 # N - 1 BY <2>1
    <3>2. table[pgd][0] = IF k \in 5 .. 15 THEN ptb ELSE Absent BY <2>2, <3>1
    <3> QED BY <3>2
  <2>4. table[pgd][1] = ptb2 BY <2>1, <2>2
  <2>5. table[pgd][N - 1] = IF k > 10 THEN ptb3 ELSE Absent BY <2>1, <2>2
  <2> QED BY <2>1, <2>3, <2>4, <2>5 DEF InTables
<1>2. pgd \in Tables /\ ptb \in Tables /\ ptb2 \in Tables /\ ptb3 \in Tables /\ Absent \notin Tables
  BY TableSize DEF Tables, Absent, pgd, ptb, ptb2, ptb3
<1>3. \A i \in {0, 3} : table[ptb][i] = i BY <1>1 DEF InTables
<1>4. \A i \in 0 .. 5 : table[ptb2][i] = CASE i = 4 /\ k > 12 -> SharedFrame
                                           [] i = 5 /\ k > 13 -> SharedFrame
                                           [] OTHER -> N + i
  BY <1>1 DEF InTables
<1>5. k > 10 => table[ptb3][0] = pgd BY <1>1 DEF InTables
<1>6. \A i \in {0, 3} : Walk(<<0, i>>) = IF k = 16 THEN Absent ELSE i
  BY <1>1, <1>2, <1>3 DEF Walk
<1>7. \A i \in 0 .. 5 : Walk(<<1, i>>) = table[ptb2][i]
  BY <1>1, <1>2 DEF Walk
<1>8. Walk(target) = IF k > 10 THEN pgd ELSE Absent
  BY <1>1, <1>2, <1>5 DEF Walk, target
<1> QED BY <1>4, <1>6, <1>7, <1>8

\* Where an access goes, whatever the TLB holds.
LEMMA Resolves ==
  ASSUME NEW k \in 8 .. 16, InTables(k)
  PROVE  /\ \A i \in {0, 3} : Resolve(<<0, i>>) = i \/ (k = 16 /\ Resolve(<<0, i>>) = Absent)
         /\ \A i \in 0 .. 3 : Resolve(<<1, i>>) = N + i
         /\ \A i \in 4 .. 5 : Resolve(<<1, i>>) # Absent
         /\ k > 10 => Resolve(target) = pgd
<1>1. /\ \A i \in {0, 3} : tlb[<<0, i>>] \in {Absent, i}
      /\ \A i \in 0 .. 3 : tlb[<<1, i>>] \in {Absent, N + i}
      /\ tlb[target] \in {Absent, pgd}
  BY PagesAre, TableSize DEF InTables, Mapped, Own, target
<1>2. Absent = -1 /\ N \in Nat /\ N + 4 # Absent /\ N + 5 # Absent BY TableSize DEF Absent
<1>3. ASSUME NEW i \in {0, 3} PROVE Resolve(<<0, i>>) = i \/ (k = 16 /\ Resolve(<<0, i>>) = Absent)
  <2>1. Walk(<<0, i>>) = IF k = 16 THEN Absent ELSE i BY Walks
  <2>2. Resolve(<<0, i>>) \in {i, Walk(<<0, i>>)} BY <1>1 DEF Resolve
  <2>3. CASE k = 16 BY <2>1, <2>2, <2>3
  <2>4. CASE k # 16 BY <2>1, <2>2, <2>4
  <2> QED BY <2>3, <2>4
<1>4. \A i \in 0 .. 3 : Resolve(<<1, i>>) = N + i
  BY <1>1, Walks DEF Resolve
<1>5. Resolve(<<1, 4>>) # Absent /\ Resolve(<<1, 5>>) # Absent
  BY <1>2, Walks DEF Resolve, SharedFrame
<1>6. k > 10 => Resolve(target) = pgd
  BY <1>1, Walks DEF Resolve
<1> QED BY <1>3, <1>4, <1>5, <1>6

\* What the tables say of a page is among what the TLB may hold of it.
LEMMA WalkMapped ==
  ASSUME NEW k \in 8 .. 16, InTables(k), NEW page \in Pages
  PROVE  Walk(page) \in Mapped(k, page) /\ Walk(page) \in -1 .. 2 * N - 1
<1>1. CASE page = target
  BY <1>1, Walks, TableSize DEF Mapped, Absent, pgd
<1>2. CASE page \in {<<0, 0>>, <<0, 3>>}
  <2>1. page # target BY <1>2, TableSize DEF target
  <2> QED BY <1>2, <2>1, Walks, TableSize DEF Mapped, Own, Absent
<1>3. CASE page \in {<<1, 0>>, <<1, 1>>, <<1, 2>>, <<1, 3>>, <<1, 4>>, <<1, 5>>}
  <2>1. page # target BY <1>3, TableSize DEF target
  <2> QED BY <1>3, <2>1, Walks, TableSize DEF Mapped, Own, Absent, SharedFrame
<1> QED BY <1>1, <1>2, <1>3, PagesAre

\* So the TLB may read a translation, or drop it.
LEMMA TlbStep ==
  ASSUME NEW k \in 1 .. 16, InTables(k), NEW page \in Pages, Fill(page) \/ Evict(page), shown' = shown
  PROVE  InTables(k)'
<1>1. k \in 8 .. 16
  <2>1. pg = (k > 7) BY DEF InTables
  <2>2. pg BY DEF Fill, Evict
  <2>3. k > 7 BY <2>1, <2>2
  <2> QED BY <2>3
<1>2. PICK f \in Mapped(k, page) : f \in -1 .. 2 * N - 1 /\ tlb' = [tlb EXCEPT ![page] = f]
  <2>1. CASE Fill(page) BY <1>1, <2>1, WalkMapped DEF Fill
  <2>2. CASE Evict(page)
    <3>1. Absent \in Mapped(k, page) BY DEF Mapped
    <3>2. Absent \in -1 .. 2 * N - 1 BY TableSize DEF Absent
    <3>3. tlb' = [tlb EXCEPT ![page] = Absent] BY <2>2 DEF Evict
    <3> QED BY <3>1, <3>2, <3>3
  <2> QED BY <2>1, <2>2
<1>3. tlb \in [Pages -> -1 .. 2 * N - 1] /\ \A p \in Pages : tlb[p] \in Mapped(k, p) BY DEF InTables
<1>4. tlb' \in [Pages -> -1 .. 2 * N - 1] /\ \A p \in Pages : tlb'[p] \in Mapped(k, p)
  BY <1>2, <1>3
<1>5. UNCHANGED <<table, cr3, pg>> BY DEF Fill, Evict
<1> QED BY <1>1, <1>4, <1>5 DEF InTables

\* Every table can be written at its own address, and, but for the last
\* instruction, the handlers can be reached.
LEMMA FramesKept ==
  ASSUME NEW k \in 1 .. 16, InTables(k)
  PROVE  /\ \A f \in Tables : Frame(f) = f
         /\ k < 16 => Reachable(KernelFrame) /\ Reachable(GdtFrame)
<1>1. pg = (k > 7) BY DEF InTables
<1>2. CASE k < 8
  <2>1. ~(k > 7) BY <1>2
  <2>2. ~pg BY <1>1, <2>1, Zenon
  <2> QED BY <1>2, <2>2 DEF Frame, Reachable, KernelFrame, GdtFrame
<1>3. CASE k \in 8 .. 16
  <2>1. k > 7 BY <1>3
  <2>2. \A f : Frame(f) = Resolve(Virtual(f))
    <3>1. pg BY <1>1, <2>1, Zenon
    <3> QED BY <3>1 DEF Frame
  <2>3. \A f \in Tables : Resolve(Virtual(f)) = f
    <3>1. Resolve(Virtual(pgd)) = N + 0 /\ Resolve(Virtual(ptb)) = N + 1
          /\ Resolve(Virtual(ptb2)) = N + 2 /\ Resolve(Virtual(ptb3)) = N + 3
      BY <1>3, PagesAre, Resolves
    <3>2. N + 0 = N BY TableSize
    <3> QED BY <3>1, <3>2 DEF Tables, pgd, ptb, ptb2, ptb3
  <2>4. k < 16 => Resolve(Virtual(KernelFrame)) = 3 /\ Resolve(Virtual(GdtFrame)) = 0
    <3>1. Virtual(KernelFrame) = <<0, 3>> /\ Virtual(GdtFrame) = <<0, 0>> BY PagesAre
    <3>2. k < 16 => Resolve(<<0, 3>>) = 3 /\ Resolve(<<0, 0>>) = 0 BY <1>3, Resolves
    <3> QED BY <3>1, <3>2
  <2> QED BY <2>2, <2>3, <2>4 DEF Reachable
<1> QED BY <1>2, <1>3

\* The processor is in ring 0 and its segments are the loader's throughout.
LEMMA Tp4Onward ==
  ASSUME program = "tp4", Stored, Results, NEW k \in 1 .. 15, InTp(k),
         eip' = <<program, k + 1>>, gpr' \in Gprs,
         UNCHANGED <<program, gdt, gdtr, seg, ring, tr, tss, esp, ebp, stack, gates, copied, caller>>
  PROVE  Stored' /\ Results' /\ InTp(k + 1)'
<1>1. Stored' BY DEF Stored
<1>2. Results' BY DEF Results
<1>3. InKernel(k + 1)'
  <2>1. InKernel(k + 1) BY PlainKernel DEF InTp
  <2> QED BY <2>1, KernelKept
<1>4. Pushes(k) = 0 /\ Pushes(k + 1) = 0 BY DEF Pushes
<1>5. InTp(k + 1)' BY <1>3, <1>4, Fixed DEF InTp
<1> QED BY <1>1, <1>2, <1>5

\* What may be held of a page stays so.
LEMMA MappedGrows ==
  ASSUME NEW k \in 1 .. 15, NEW page
  PROVE  Mapped(k, page) \subseteq Mapped(k + 1, page)
BY DEF Mapped

\* A store to a table changes the entries that it names, of that table.
LEMMA StoreStep ==
  ASSUME NEW k \in 1 .. 15, InTables(k), eip = <<program, k>>, NEW f \in Tables, NEW entries,
         StoreEntries, Instruction = <<"store", f, entries>>,
         \A j \in Index : j \in DOMAIN entries => entries[j] \in -2 .. 2 * N - 1
  PROVE  /\ table' \in [Tables -> [Index -> -2 .. 2 * N - 1]]
         /\ \A g \in Tables : g # f => table'[g] = table[g]
         /\ \A j \in Index : table'[f][j] = IF j \in DOMAIN entries THEN entries[j] ELSE table[f][j]
         /\ eip' = <<program, k + 1>>
         /\ UNCHANGED <<cr3, pg, tlb, program, gdt, gdtr, seg, ring, tr, tss, esp, ebp, gpr, stack,
                        gates, shown, copied, caller>>
<1> DEFINE new == [j \in Index |-> IF j \in DOMAIN entries THEN entries[j] ELSE table[f][j]]
<1>1. Frame(f) = f BY FramesKept
<1>2. /\ table' = [table EXCEPT ![f] = new] /\ eip' = <<program, k + 1>>
      /\ UNCHANGED <<cr3, pg, tlb, program, gdt, gdtr, seg, ring, tr, tss, esp, ebp, gpr, stack,
                     gates, shown, copied, caller>>
  BY <1>1 DEF StoreEntries, Store, Arg, Continue, Following, segmentation
<1>3. table \in [Tables -> [Index -> -2 .. 2 * N - 1]] BY DEF InTables
<1>4. new \in [Index -> -2 .. 2 * N - 1] BY <1>3
<1>5. table'[f] = new BY <1>2, <1>3
<1>6. \A g \in Tables : g # f => table'[g] = table[g] BY <1>2, <1>3
<1>7. table' \in [Tables -> [Index -> -2 .. 2 * N - 1]] BY <1>2, <1>3, <1>4
<1> QED BY <1>2, <1>5, <1>6, <1>7

\* The instructions of tp4.
LEMMA FetchTp4 ==
  /\ Tp4[1] = <<"set_cr3", pgd>> /\ Tp4[7] = <<"set_cr0">>
  /\ Tp4[2] = <<"store", ptb, [j \in Index |-> j]>>
  /\ Tp4[3] = <<"store", pgd, [j \in Index |-> Absent]>>
  /\ Tp4[4] = <<"store", pgd, [j \in {0} |-> ptb]>>
  /\ Tp4[5] = <<"store", ptb2, [j \in Index |-> N + j]>>
  /\ Tp4[6] = <<"store", pgd, [j \in {1} |-> ptb2]>>
  /\ Tp4[8] = <<"store", ptb3, [j \in Index |-> Absent]>>
  /\ Tp4[9] = <<"store", ptb3, [j \in {0} |-> pgd]>>
  /\ Tp4[10] = <<"store", pgd, [j \in {N - 1} |-> ptb3]>>
  /\ Tp4[11] = <<"show_words", Virtual(pgd), target>>
  /\ Tp4[12] = <<"store", ptb2, [j \in {4} |-> SharedFrame]>>
  /\ Tp4[13] = <<"store", ptb2, [j \in {5} |-> SharedFrame]>>
  /\ Tp4[14] = <<"show_words", Virtual(v1), Virtual(v2)>>
  /\ Tp4[15] = <<"clear", target>> /\ Tp4[16] = <<"ret">>
<1>1. target[1] = N - 1 /\ target[2] = 0 BY DEF target
<1>2. v1 % N = 4 /\ v2 % N = 5
  <2>1. \A f \in N .. 2 * N - 1 : f % N = f - N BY TableSize
  <2> QED BY <2>1, TableSize DEF v1, v2
<1> QED BY <1>1, <1>2 DEF Tp4

\* The processor's registers, when only a table changes.
LEMMA TableStep ==
  ASSUME NEW k \in 1 .. 15, InTables(k), k \notin {1, 7}, k + 1 # 12,
         UNCHANGED <<cr3, pg, tlb>>, table' \in [Tables -> [Index -> -2 .. 2 * N - 1]],
         k > 1 => table'[ptb] = [j \in Index |-> j],
         k > 2 => \A j \in Index :
           table'[pgd][j] = IF j = 0 /\ k \in 4 .. 14 THEN ptb
                            ELSE IF j = 1 /\ k > 5 THEN ptb2
                            ELSE IF j = N - 1 /\ k > 9 THEN ptb3 ELSE Absent,
         k > 4 => \A j \in Index :
           table'[ptb2][j] = CASE j = 4 /\ k > 11 -> SharedFrame
                               [] j = 5 /\ k > 12 -> SharedFrame
                               [] OTHER -> N + j,
         k > 7 => \A j \in Index : table'[ptb3][j] = IF j = 0 /\ k > 8 THEN pgd ELSE Absent
  PROVE  InTables(k + 1)'
<1>1. cr3' = pgd BY DEF InTables
<1>2. pg' = (k + 1 > 7)
  <2>1. pg = (k > 7) BY DEF InTables
  <2>2. k > 7 <=> k + 1 > 7 OBVIOUS
  <2>3. pg' = pg OBVIOUS
  <2>4. (k > 7) = (k + 1 > 7) BY <2>2
  <2> QED BY <2>1, <2>3, <2>4, Zenon
<1>3. tlb' \in [Pages -> -1 .. 2 * N - 1] BY DEF InTables
<1>4. \A p \in Pages : tlb'[p] \in Mapped(k + 1, p) BY MappedGrows DEF InTables
<1>5. k + 1 < 8 => \A p \in Pages : tlb'[p] = Absent BY DEF InTables
<1> QED BY <1>1, <1>2, <1>3, <1>4, <1>5 DEF InTables

\* Every store of tp4, by the table that it goes to.
LEMMA Tp4Store ==
  ASSUME program = "tp4", Stored, Results, NEW k \in {2, 3, 4, 5, 6, 8, 9, 10, 12, 13},
         InTp(k), InTables(k), Step
  PROVE  Stored' /\ Results' /\ program' = program /\ caller' = caller /\ InTp(k + 1)' /\ InTables(k + 1)'
<1>1. eip = <<"tp4", k>> /\ InKernel(k) /\ k \in 1 .. 15 /\ EndAt = 16 BY DEF InTp, EndAt
<1>2. seg["ds"].desc.kind = "data" /\ Reachable(KernelFrame)
  BY <1>1, DataUsable, FramesKept DEF InKernel, DataRegs
<1>3. Instruction = Tp4[k] BY <1>1 DEF Instruction, Code
<1>4. pgd \in Tables /\ ptb \in Tables /\ ptb2 \in Tables /\ ptb3 \in Tables
      /\ pgd # ptb /\ pgd # ptb2 /\ pgd # ptb3 /\ ptb # ptb2 /\ ptb # ptb3 /\ ptb2 # ptb3
  BY TableSize DEF Tables, pgd, ptb, ptb2, ptb3
<1>5. /\ {Absent, SharedFrame, ptb, ptb2, ptb3, pgd} \subseteq -2 .. 2 * N - 1
      /\ \A j \in Index : j \in -2 .. 2 * N - 1 /\ N + j \in -2 .. 2 * N - 1
  BY TableSize DEF Absent, SharedFrame, pgd, ptb, ptb2, ptb3, Index
<1>6. ASSUME NEW f \in Tables, NEW entries, Instruction = <<"store", f, entries>>,
             \A j \in Index : j \in DOMAIN entries => entries[j] \in -2 .. 2 * N - 1
      PROVE  /\ table' \in [Tables -> [Index -> -2 .. 2 * N - 1]]
             /\ \A g \in Tables : g # f => table'[g] = table[g]
             /\ \A j \in Index : table'[f][j] = IF j \in DOMAIN entries THEN entries[j] ELSE table[f][j]
             /\ UNCHANGED <<cr3, pg, tlb, program, caller>>
             /\ Stored' /\ Results' /\ InTp(k + 1)'
  <2>1. f = Frame(f) /\ f >= 0 BY <1>1, FramesKept, TableSize DEF Tables, pgd, ptb, ptb2, ptb3
  <2>2. Arg(1) = f /\ Instruction[1] = "store" BY <1>6 DEF Arg
  <2>3. Allowed BY <1>2, <2>1, <2>2 DEF Allowed, Reachable
  <2>4. StoreEntries BY <2>2, <2>3, Only
  <2>5. /\ table' \in [Tables -> [Index -> -2 .. 2 * N - 1]]
        /\ \A g \in Tables : g # f => table'[g] = table[g]
        /\ \A j \in Index : table'[f][j] = IF j \in DOMAIN entries THEN entries[j] ELSE table[f][j]
        /\ eip' = <<program, k + 1>>
        /\ UNCHANGED <<cr3, pg, tlb, program, gdt, gdtr, seg, ring, tr, tss, esp, ebp, gpr, stack,
                       gates, shown, copied, caller>>
    BY <1>1, <1>6, <2>4, StoreStep
  <2>6. gpr' \in Gprs BY <2>5 DEF Stored
  <2> QED BY <1>1, <2>5, <2>6, Tp4Onward
<1>7. /\ k > 2 => table[ptb] = [j \in Index |-> j]
      /\ k > 3 => \A j \in Index :
           table[pgd][j] = IF j = 0 /\ k \in 5 .. 15 THEN ptb
                           ELSE IF j = 1 /\ k > 6 THEN ptb2
                           ELSE IF j = N - 1 /\ k > 10 THEN ptb3 ELSE Absent
      /\ k > 5 => \A j \in Index :
           table[ptb2][j] = CASE j = 4 /\ k > 12 -> SharedFrame
                              [] j = 5 /\ k > 13 -> SharedFrame
                              [] OTHER -> N + j
      /\ k > 8 => \A j \in Index : table[ptb3][j] = IF j = 0 /\ k > 9 THEN pgd ELSE Absent
  BY DEF InTables
<1>8. N - 1 \in Index /\ N - 1 \notin {0, 1} BY TableSize DEF Index
<1>9. CASE k = 2
  <2> DEFINE entries == [j \in Index |-> j]
  <2>1. Instruction = <<"store", ptb, entries>> BY <1>3, <1>9, FetchTp4
  <2>2. /\ table' \in [Tables -> [Index -> -2 .. 2 * N - 1]]
        /\ \A j \in Index : table'[ptb][j] = j
        /\ UNCHANGED <<cr3, pg, tlb, program, caller>> /\ Stored' /\ Results' /\ InTp(k + 1)'
    BY <1>4, <1>5, <1>6, <2>1
  <2>3. table'[ptb] = [j \in Index |-> j] BY <1>4, <2>2
  <2>4. InTables(k + 1)' BY <1>9, <2>2, <2>3, TableStep
  <2> QED BY <2>2, <2>4
<1>10. CASE k \in {3, 4, 6, 10}
  <2>1. PICK entries :
          /\ Instruction = <<"store", pgd, entries>>
          /\ k = 3 => entries = [j \in Index |-> Absent]
          /\ k = 4 => entries = [j \in {0} |-> ptb]
          /\ k = 6 => entries = [j \in {1} |-> ptb2]
          /\ k = 10 => entries = [j \in {N - 1} |-> ptb3]
    <3>1. CASE k = 3 BY <1>3, <3>1, FetchTp4
    <3>2. CASE k = 4 BY <1>3, <3>2, FetchTp4
    <3>3. CASE k = 6 BY <1>3, <3>3, FetchTp4
    <3>4. CASE k = 10 BY <1>3, <3>4, FetchTp4
    <3> QED BY <1>10, <3>1, <3>2, <3>3, <3>4
  <2>2. \A j \in Index : j \in DOMAIN entries => entries[j] \in -2 .. 2 * N - 1
    BY <1>5, <1>10, <2>1
  <2>3. /\ table' \in [Tables -> [Index -> -2 .. 2 * N - 1]]
        /\ table'[ptb] = table[ptb] /\ table'[ptb2] = table[ptb2] /\ table'[ptb3] = table[ptb3]
        /\ \A j \in Index : table'[pgd][j] = IF j \in DOMAIN entries THEN entries[j] ELSE table[pgd][j]
        /\ UNCHANGED <<cr3, pg, tlb, program, caller>> /\ Stored' /\ Results' /\ InTp(k + 1)'
    BY <1>4, <1>6, <2>1, <2>2
  <2>4. ASSUME NEW j \in Index
        PROVE  table'[pgd][j] = IF j = 0 /\ k \in 4 .. 14 THEN ptb
                                ELSE IF j = 1 /\ k > 5 THEN ptb2
                                ELSE IF j = N - 1 /\ k > 9 THEN ptb3 ELSE Absent
    <3>1. CASE k = 3 BY <2>1, <2>3, <3>1
    <3>2. CASE k = 4 BY <1>7, <2>1, <2>3, <3>2
    <3>3. CASE k = 6 BY <1>7, <2>1, <2>3, <3>3
    <3>4. CASE k = 10
      <4>1. table[pgd][j] = IF j = 0 THEN ptb ELSE IF j = 1 THEN ptb2 ELSE Absent BY <1>7, <3>4
      <4>2. table'[pgd][j] = IF j = N - 1 THEN ptb3 ELSE table[pgd][j] BY <2>1, <2>3, <3>4
      <4>3. CASE j = N - 1 BY <1>8, <3>4, <4>2, <4>3
      <4>4. CASE j # N - 1 BY <3>4, <4>1, <4>2, <4>4
      <4> QED BY <4>3, <4>4
    <3> QED BY <1>10, <3>1, <3>2, <3>3, <3>4
  <2>5. InTables(k + 1)'
    <3>1. k > 1 => table'[ptb] = [j \in Index |-> j] BY <1>7, <1>10, <2>3
    <3>2. k > 4 => \A j \in Index :
            table'[ptb2][j] = CASE j = 4 /\ k > 11 -> SharedFrame
                                [] j = 5 /\ k > 12 -> SharedFrame
                                [] OTHER -> N + j
      BY <1>7, <1>10, <2>3
    <3>3. k > 7 => \A j \in Index : table'[ptb3][j] = IF j = 0 /\ k > 8 THEN pgd ELSE Absent
      BY <1>7, <1>10, <2>3
    <3> QED BY <1>10, <2>3, <2>4, <3>1, <3>2, <3>3, TableStep
  <2> QED BY <2>3, <2>5
<1>11. CASE k \in {5, 12, 13}
  <2>1. PICK entries :
          /\ Instruction = <<"store", ptb2, entries>>
          /\ k = 5 => entries = [j \in Index |-> N + j]
          /\ k = 12 => entries = [j \in {4} |-> SharedFrame]
          /\ k = 13 => entries = [j \in {5} |-> SharedFrame]
    <3>1. CASE k = 5 BY <1>3, <3>1, FetchTp4
    <3>2. CASE k = 12 BY <1>3, <3>2, FetchTp4
    <3>3. CASE k = 13 BY <1>3, <3>3, FetchTp4
    <3> QED BY <1>11, <3>1, <3>2, <3>3
  <2>2. \A j \in Index : j \in DOMAIN entries => entries[j] \in -2 .. 2 * N - 1
    BY <1>5, <1>11, <2>1
  <2>3. /\ table' \in [Tables -> [Index -> -2 .. 2 * N - 1]]
        /\ table'[ptb] = table[ptb] /\ table'[pgd] = table[pgd] /\ table'[ptb3] = table[ptb3]
        /\ \A j \in Index : table'[ptb2][j] = IF j \in DOMAIN entries THEN entries[j] ELSE table[ptb2][j]
        /\ UNCHANGED <<cr3, pg, tlb, program, caller>> /\ Stored' /\ Results' /\ InTp(k + 1)'
    BY <1>4, <1>6, <2>1, <2>2
  <2>4. ASSUME NEW j \in Index
        PROVE  table'[ptb2][j] = CASE j = 4 /\ k > 11 -> SharedFrame
                                   [] j = 5 /\ k > 12 -> SharedFrame
                                   [] OTHER -> N + j
    <3>1. CASE k = 5 BY <2>1, <2>3, <3>1
    <3>2. CASE k = 12 BY <1>7, <2>1, <2>3, <3>2
    <3>3. CASE k = 13 BY <1>7, <2>1, <2>3, <3>3
    <3> QED BY <1>11, <3>1, <3>2, <3>3
  <2>5. InTables(k + 1)'
    <3>1. k > 1 => table'[ptb] = [j \in Index |-> j] BY <1>7, <1>11, <2>3
    <3>2. k > 2 => \A j \in Index :
            table'[pgd][j] = IF j = 0 /\ k \in 4 .. 14 THEN ptb
                             ELSE IF j = 1 /\ k > 5 THEN ptb2
                             ELSE IF j = N - 1 /\ k > 9 THEN ptb3 ELSE Absent
      BY <1>7, <1>11, <2>3
    <3>3. k > 7 => \A j \in Index : table'[ptb3][j] = IF j = 0 /\ k > 8 THEN pgd ELSE Absent
      BY <1>7, <1>11, <2>3
    <3> QED BY <1>11, <2>3, <2>4, <3>1, <3>2, <3>3, TableStep
  <2> QED BY <2>3, <2>5
<1>12. CASE k \in {8, 9}
  <2>1. PICK entries :
          /\ Instruction = <<"store", ptb3, entries>>
          /\ k = 8 => entries = [j \in Index |-> Absent]
          /\ k = 9 => entries = [j \in {0} |-> pgd]
    <3>1. CASE k = 8 BY <1>3, <3>1, FetchTp4
    <3>2. CASE k = 9 BY <1>3, <3>2, FetchTp4
    <3> QED BY <1>12, <3>1, <3>2
  <2>2. \A j \in Index : j \in DOMAIN entries => entries[j] \in -2 .. 2 * N - 1
    BY <1>5, <1>12, <2>1
  <2>3. /\ table' \in [Tables -> [Index -> -2 .. 2 * N - 1]]
        /\ table'[ptb] = table[ptb] /\ table'[pgd] = table[pgd] /\ table'[ptb2] = table[ptb2]
        /\ \A j \in Index : table'[ptb3][j] = IF j \in DOMAIN entries THEN entries[j] ELSE table[ptb3][j]
        /\ UNCHANGED <<cr3, pg, tlb, program, caller>> /\ Stored' /\ Results' /\ InTp(k + 1)'
    BY <1>4, <1>6, <2>1, <2>2
  <2>4. ASSUME NEW j \in Index
        PROVE  table'[ptb3][j] = IF j = 0 /\ k > 8 THEN pgd ELSE Absent
    <3>1. CASE k = 8 BY <2>1, <2>3, <3>1
    <3>2. CASE k = 9 BY <1>7, <2>1, <2>3, <3>2
    <3> QED BY <1>12, <3>1, <3>2
  <2>5. InTables(k + 1)'
    <3>1. k > 1 => table'[ptb] = [j \in Index |-> j] BY <1>7, <1>12, <2>3
    <3>2. k > 2 => \A j \in Index :
            table'[pgd][j] = IF j = 0 /\ k \in 4 .. 14 THEN ptb
                             ELSE IF j = 1 /\ k > 5 THEN ptb2
                             ELSE IF j = N - 1 /\ k > 9 THEN ptb3 ELSE Absent
      BY <1>7, <1>12, <2>3
    <3>3. k > 4 => \A j \in Index :
            table'[ptb2][j] = CASE j = 4 /\ k > 11 -> SharedFrame
                                [] j = 5 /\ k > 12 -> SharedFrame
                                [] OTHER -> N + j
      BY <1>7, <1>12, <2>3
    <3> QED BY <1>12, <2>3, <2>4, <3>1, <3>2, <3>3, TableStep
  <2> QED BY <2>3, <2>5
<1> QED BY <1>9, <1>10, <1>11, <1>12

\* The instructions of tp4 that are no stores: the two that turn paging on, the
\* two that print, and the store to the directory at 0xc0000000.
LEMMA Tp4Control ==
  ASSUME program = "tp4", Stored, Results, NEW k \in {1, 7}, InTp(k), InTables(k), Step
  PROVE  Stored' /\ Results' /\ program' = program /\ caller' = caller /\ InTp(k + 1)' /\ InTables(k + 1)'
<1>1. eip = <<"tp4", k>> /\ InKernel(k) /\ k \in 1 .. 15 BY DEF InTp
<1>2. Reachable(KernelFrame) BY <1>1, FramesKept
<1>3. Instruction = Tp4[k] /\ ring = 0 BY <1>1 DEF Instruction, Code, InKernel
<1>4. Instruction[1] \in {"set_cr3", "set_cr0"} BY <1>3, FetchTp4
<1>5. Allowed BY <1>2, <1>3, <1>4 DEF Allowed
<1>6. SetControl BY <1>4, <1>5, Only
<1>7. /\ IF k = 1 THEN cr3' = pgd /\ tlb' = [p \in Pages |-> Absent] /\ UNCHANGED <<table, pg>>
                  ELSE pg' = TRUE /\ UNCHANGED <<table, cr3, tlb>>
      /\ eip' = <<program, k + 1>>
      /\ UNCHANGED <<program, gdt, gdtr, seg, ring, tr, tss, esp, ebp, gpr, stack, gates, shown,
                     copied, caller>>
  BY <1>1, <1>3, <1>6, FetchTp4
  DEF SetControl, At, SetCr3, EnablePaging, Arg, Continue, Following, segmentation
<1>8. gpr' \in Gprs BY <1>7 DEF Stored
<1>9. Stored' /\ Results' /\ InTp(k + 1)' BY <1>1, <1>7, <1>8, Tp4Onward
<1>10. CASE k = 1
  <2>1. pg = FALSE
    <3>1. pg = (k > 7) BY DEF InTables
    <3>2. (k > 7) = FALSE BY <1>10
    <3> QED BY <3>1, <3>2, Zenon
  <2>2. pg' = (k + 1 > 7)
    <3>1. (k + 1 > 7) = FALSE BY <1>10
    <3>2. pg' = pg BY <1>7, <1>10
    <3> QED BY <2>1, <3>1, <3>2, Zenon
  <2>3. tlb' = [p \in Pages |-> Absent] /\ cr3' = pgd /\ table' = table BY <1>7, <1>10
  <2>4. Absent \in -1 .. 2 * N - 1 BY TableSize DEF Absent
  <2>5. tlb' \in [Pages -> -1 .. 2 * N - 1] BY <2>3, <2>4
  <2>6. \A p \in Pages : tlb'[p] = Absent BY <2>3
  <2>7. \A p \in Pages : tlb'[p] \in Mapped(k + 1, p) BY <2>6 DEF Mapped
  <2>8. InTables(k + 1)' BY <1>10, <2>2, <2>3, <2>5, <2>6, <2>7 DEF InTables
  <2> QED BY <1>7, <1>9, <2>8
<1>11. CASE k = 7
  <2>1. pg' = (k + 1 > 7)
    <3>1. (k + 1 > 7) = TRUE BY <1>11
    <3>2. pg' = TRUE BY <1>7, <1>11
    <3> QED BY <3>1, <3>2, Zenon
  <2>2. UNCHANGED <<table, cr3, tlb>> BY <1>7, <1>11
  <2>3. \A p \in Pages : tlb'[p] \in Mapped(k + 1, p) BY <1>1, <2>2, MappedGrows DEF InTables
  <2>4. InTables(k + 1)' BY <1>11, <2>1, <2>2, <2>3 DEF InTables
  <2> QED BY <1>7, <1>9, <2>4
<1> QED BY <1>10, <1>11

\* The two printings; the first finds the page directory at both its addresses.
LEMMA Tp4Print ==
  ASSUME program = "tp4", Stored, Results, NEW k \in {11, 14}, InTp(k), InTables(k), Step
  PROVE  Stored' /\ Results' /\ program' = program /\ caller' = caller /\ InTp(k + 1)' /\ InTables(k + 1)'
<1>1. eip = <<"tp4", k>> /\ InKernel(k) /\ k \in 1 .. 15 BY DEF InTp
<1>2. Reachable(KernelFrame) BY <1>1, FramesKept
<1>3. Instruction = Tp4[k] BY <1>1 DEF Instruction, Code
<1>4. Resolve(target) = pgd /\ Resolve(Virtual(pgd)) = pgd
      /\ Resolve(Virtual(v1)) # Absent /\ Resolve(Virtual(v2)) # Absent
  <2>1. Virtual(pgd) = <<1, 0>> /\ Virtual(v1) = <<1, 4>> /\ Virtual(v2) = <<1, 5>> BY PagesAre
  <2>2. /\ Resolve(<<1, 0>>) = N + 0 /\ Resolve(<<1, 4>>) # Absent /\ Resolve(<<1, 5>>) # Absent
        /\ Resolve(target) = pgd
    BY Resolves
  <2>3. N + 0 = pgd BY TableSize DEF pgd
  <2> QED BY <2>1, <2>2, <2>3
<1>5. Instruction[1] = "show_words" /\ Resolve(Arg(1)) # Absent /\ Resolve(Arg(2)) # Absent
  <2>1. pgd # Absent BY TableSize DEF pgd, Absent
  <2>2. CASE k = 11 BY <1>3, <1>4, <2>1, <2>2, FetchTp4 DEF Arg
  <2>3. CASE k = 14 BY <1>3, <1>4, <2>1, <2>3, FetchTp4 DEF Arg
  <2> QED BY <2>2, <2>3
<1>6. Allowed BY <1>2, <1>5 DEF Allowed
<1>7. Printf BY <1>5, <1>6, Only
<1>8. /\ shown' = <<"words", Content(Resolve(Arg(1))), Content(Resolve(Arg(2)))>>
      /\ gpr' = Scratch /\ eip' = <<program, k + 1>>
      /\ UNCHANGED <<program, gdt, gdtr, seg, ring, tr, tss, table, cr3, pg, tlb, esp, ebp, stack,
                     gates, copied, caller>>
  BY <1>1, <1>5, <1>7 DEF Printf, Shows, Continue, Following, segmentation, paging
<1>9. Stored' /\ Results' /\ InTp(k + 1)'
  <2>1. gpr' \in Gprs BY <1>8 DEF Gprs
  <2> QED BY <1>1, <1>8, <2>1, Tp4Onward
<1>10. k + 1 = 12 => shown'[2] = shown'[3]
  <2>1. SUFFICES ASSUME k = 11 PROVE shown'[2] = shown'[3] OBVIOUS
  <2>2. Arg(1) = Virtual(pgd) /\ Arg(2) = target BY <1>3, <2>1, FetchTp4 DEF Arg
  <2> QED BY <1>4, <1>8, <2>2
<1>11. InTables(k + 1)'
  <2>1. pg' = (k + 1 > 7)
    <3>1. pg = (k > 7) BY DEF InTables
    <3>2. (k > 7) = (k + 1 > 7) OBVIOUS
    <3>3. pg' = pg BY <1>8
    <3> QED BY <3>1, <3>2, <3>3, Zenon
  <2>2. \A p \in Pages : tlb'[p] \in Mapped(k + 1, p) BY <1>1, <1>8, MappedGrows DEF InTables
  <2>3. /\ table' \in [Tables -> [Index -> -2 .. 2 * N - 1]] /\ cr3' = pgd
        /\ tlb' \in [Pages -> -1 .. 2 * N - 1]
    BY <1>8 DEF InTables
  <2>4. /\ table'[ptb] = [j \in Index |-> j]
        /\ \A j \in Index :
             table'[pgd][j] = IF j = 0 /\ k + 1 \in 5 .. 15 THEN ptb
                              ELSE IF j = 1 /\ k + 1 > 6 THEN ptb2
                              ELSE IF j = N - 1 /\ k + 1 > 10 THEN ptb3 ELSE Absent
        /\ \A j \in Index :
             table'[ptb2][j] = CASE j = 4 /\ k + 1 > 12 -> SharedFrame
                                 [] j = 5 /\ k + 1 > 13 -> SharedFrame
                                 [] OTHER -> N + j
        /\ \A j \in Index : table'[ptb3][j] = IF j = 0 /\ k + 1 > 9 THEN pgd ELSE Absent
    BY <1>8 DEF InTables
  <2> QED BY <1>10, <2>1, <2>2, <2>3, <2>4 DEF InTables
<1> QED BY <1>8, <1>9, <1>11

\* The first entry is cleared through the directory's second address.
LEMMA Tp4Clear ==
  ASSUME program = "tp4", Stored, Results, InTp(15), InTables(15), Step
  PROVE  Stored' /\ Results' /\ program' = program /\ caller' = caller /\ InTp(16)' /\ InTables(16)'
<1>1. eip = <<"tp4", 15>> /\ InKernel(15) BY DEF InTp
<1>2. Reachable(KernelFrame) BY FramesKept
<1>3. Instruction = <<"clear", target>> BY <1>1, FetchTp4 DEF Instruction, Code
<1>4. Resolve(target) = pgd /\ pgd # Absent BY Resolves, TableSize DEF pgd, Absent
<1>5. Allowed BY <1>2, <1>3, <1>4 DEF Allowed, Arg
<1>6. ClearTarget BY <1>3, <1>5, Only
<1>7. /\ table' = [table EXCEPT ![pgd] = [@ EXCEPT ![0] = Absent]]
      /\ eip' = <<program, 16>>
      /\ UNCHANGED <<program, gdt, gdtr, seg, ring, tr, tss, cr3, pg, tlb, esp, ebp, gpr, stack,
                     gates, shown, copied, caller>>
  BY <1>1, <1>3, <1>4, <1>6 DEF ClearTarget, Arg, Continue, Following, segmentation
<1>8. Stored' /\ Results' /\ InTp(16)'
  <2>1. gpr' \in Gprs BY <1>7 DEF Stored
  <2> QED BY <1>7, <2>1, Tp4Onward
<1>9. table \in [Tables -> [Index -> -2 .. 2 * N - 1]] BY DEF InTables
<1>10. /\ pgd \in Tables /\ ptb \in Tables /\ ptb2 \in Tables /\ ptb3 \in Tables /\ 0 \in Index
       /\ pgd # ptb /\ pgd # ptb2 /\ pgd # ptb3 /\ Absent \in -2 .. 2 * N - 1
  BY TableSize DEF Tables, pgd, ptb, ptb2, ptb3, Index, Absent
<1>11. table' = [table EXCEPT ![pgd] = [table[pgd] EXCEPT ![0] = Absent]] BY <1>7
<1>12. /\ table' \in [Tables -> [Index -> -2 .. 2 * N - 1]]
       /\ table'[ptb] = table[ptb] /\ table'[ptb2] = table[ptb2] /\ table'[ptb3] = table[ptb3]
       /\ table'[pgd] = [table[pgd] EXCEPT ![0] = Absent]
  BY <1>9, <1>10, <1>11
<1>13. \A j \in Index : table'[pgd][j] = IF j = 0 THEN Absent ELSE table[pgd][j]
  BY <1>9, <1>10, <1>12
<1>14. InTables(16)'
  <2>1. pg' = (16 > 7)
    <3>1. pg = (15 > 7) BY DEF InTables
    <3>2. (15 > 7) = (16 > 7) OBVIOUS
    <3>3. pg' = pg BY <1>7
    <3> QED BY <3>1, <3>2, <3>3, Zenon
  <2>2. \A p \in Pages : tlb'[p] \in Mapped(16, p)
    <3>1. \A p \in Pages : Mapped(15, p) \subseteq Mapped(16, p) BY DEF Mapped
    <3>2. \A p \in Pages : tlb[p] \in Mapped(15, p) BY DEF InTables
    <3> QED BY <1>7, <3>1, <3>2
  <2>3. \A j \in Index :
          table[pgd][j] = IF j = 0 THEN ptb ELSE IF j = 1 THEN ptb2
                          ELSE IF j = N - 1 THEN ptb3 ELSE Absent
    BY DEF InTables
  <2>4. 0 # N - 1 BY TableSize
  <2>5. \A j \in Index :
          table'[pgd][j] = IF j = 1 THEN ptb2 ELSE IF j = N - 1 THEN ptb3 ELSE Absent
    <3>1. SUFFICES ASSUME NEW j \in Index
                   PROVE  table'[pgd][j] = IF j = 1 THEN ptb2 ELSE IF j = N - 1 THEN ptb3 ELSE Absent
      OBVIOUS
    <3>2. CASE j = 0
      <4>1. j # 1 /\ j # N - 1 BY <2>4, <3>2
      <4>2. table'[pgd][j] = Absent BY <1>13, <3>2
      <4> QED BY <4>1, <4>2
    <3>3. CASE j # 0
      <4>1. table'[pgd][j] = table[pgd][j] BY <1>13, <3>3
      <4> QED BY <2>3, <3>3, <4>1
    <3> QED BY <3>2, <3>3
  <2>6. /\ table'[ptb] = [j \in Index |-> j]
        /\ \A j \in Index :
             table'[ptb2][j] = CASE j = 4 -> SharedFrame [] j = 5 -> SharedFrame [] OTHER -> N + j
        /\ \A j \in Index : table'[ptb3][j] = IF j = 0 THEN pgd ELSE Absent
    BY <1>12 DEF InTables
  <2>7. cr3' = pgd /\ tlb' \in [Pages -> -1 .. 2 * N - 1] BY <1>7 DEF InTables
  <2> QED BY <1>12, <2>1, <2>2, <2>5, <2>6, <2>7 DEF InTables
<1> QED BY <1>7, <1>8, <1>14

\* The entry that maps the code of tp4 is gone at its end.
LEMMA Cleared ==
  ASSUME InTables(16)
  PROVE  table[pgd][0] = Absent
<1>1. \A j \in Index :
        table[pgd][j] = IF j = 1 THEN ptb2 ELSE IF j = N - 1 THEN ptb3 ELSE Absent
  BY DEF InTables
<1>2. PICK j \in Index : j = 0 /\ j # 1 /\ j # N - 1 BY TableSize DEF Index
<1>3. table[pgd][j] = Absent BY <1>1, <1>2
<1> QED BY <1>2, <1>3

\* The last instruction returns to the kernel, or the processor, whose code is
\* no longer mapped, resets.
LEMMA Tp4End ==
  ASSUME program = "tp4", Stored, Results, InTp(16), InTables(16), Step
  PROVE  Stored' /\ Results' /\ program' = program /\ caller' = caller /\ Ended' /\ InTables(16)'
<1>1. eip = <<"tp4", 16>> BY DEF InTp
<1>2. Instruction = <<"ret">> BY <1>1, FetchTp4 DEF Instruction, Code
<1>3. /\ eip' \in {<<"done">>, <<"reset">>}
      /\ UNCHANGED <<program, gdt, gdtr, seg, ring, tr, tss, table, cr3, pg, tlb, esp, ebp, gpr, stack,
                     gates, shown, copied, caller>>
  <2>1. CASE Allowed
    <3>1. Return BY <1>2, <2>1, Only
    <3> QED BY <3>1 DEF Return, segmentation, paging
  <2>2. CASE ~Allowed
    <3>1. ~Reachable(KernelFrame) BY <1>2, <2>2 DEF Allowed
    <3>2. ~HandlerRuns BY <3>1 DEF HandlerRuns
    <3>3. Fault
      BY <2>2 DEF Step, At, Describe, SetGdtr, SetSegment, SetTss, SetTr, SetGate, Copy, PushEbp, Push,
       MakeFrame, Leave, SetGpr, Pusha, Popa, Printf, SoftInt, Iret, StoreEntries, ClearTarget,
       SetControl, Return
    <3> QED BY <3>2, <3>3 DEF Fault, segmentation, paging
  <2> QED BY <2>1, <2>2
<1>4. table[pgd][0] = Absent BY Cleared
<1>5. Stored' /\ Results' BY <1>3 DEF Stored, Results
<1>6. Ended' BY <1>3, <1>4 DEF Ended
<1>7. InTables(16)' BY <1>3 DEF InTables
<1> QED BY <1>3, <1>5, <1>6, <1>7

\* An NMI leaves tp4 as it is, but after its last store it may be the end of it.
LEMMA Tp4Nmi ==
  ASSUME program = "tp4", Stored, Results, NEW k \in 1 .. 16, InTp(k), InTables(k), Nmi
  PROVE  /\ Stored' /\ Results' /\ program' = program /\ InTables(k)'
         /\ \/ Sound /\ InTp(k)'
            \/ k = 16 /\ Ended' /\ eip' # eip
<1>1. EndAt = 16 /\ InKernel(k) /\ eip = <<"tp4", k>> BY DEF EndAt, InTp
<1>2. CASE Reachable(KernelFrame) /\ Reachable(GdtFrame)
  <2>1. Sound BY <1>1, <1>2, SoundKernel
  <2>2. InTp(k)' BY <1>1, <2>1, TpNmi
  <2>3. Stored' /\ UNCHANGED <<paging, program, shown, copied>> BY <2>1, NmiKeeps
  <2>4. InTables(k)' BY <2>3 DEF InTables, paging
  <2>5. Results' BY <2>3 DEF Results
  <2> QED BY <2>1, <2>2, <2>3, <2>4, <2>5
<1>3. CASE ~(Reachable(KernelFrame) /\ Reachable(GdtFrame))
  <2>1. k = 16 BY <1>3, FramesKept
  <2>2. ~HandlerRuns BY <1>3 DEF HandlerRuns
  <2>3. eip' = <<"reset">> /\ UNCHANGED <<stack, seg>> BY <2>2 DEF Nmi
  <2>4. UNCHANGED <<gdt, gdtr, ring, tr, tss, paging, program, esp, ebp, gpr, gates, shown,
                    copied, caller>>
    BY DEF Nmi
  <2>5. Stored' /\ Results' BY <2>3, <2>4 DEF Stored, Results
  <2>6. InTables(k)' BY <2>4 DEF InTables, paging
  <2>7. Ended' BY <2>1, <2>3, <2>4, Cleared DEF Ended, paging
  <2>8. eip' # eip BY <1>1, <2>3
  <2> QED BY <2>1, <2>4, <2>5, <2>6, <2>7, <2>8
<1> QED BY <1>2, <1>3
-----------------------------------------------------------------------------
(***************************************************************************)
(* The invariant is inductive.                                             *)
(***************************************************************************)
\* The invariant holds when start calls tp().
LEMMA InitInv == Init => Inv
<1> SUFFICES ASSUME Init PROVE Inv OBVIOUS
<1>1. program \in {"tp1", "tp2", "tp3", "tp4", "tp5", "tp_exam"} BY ProgramsAssumption DEF Init
<1>2. /\ gdtr = [table |-> "grub", limit |-> 39] /\ ring = 0 /\ tr = 0
      /\ tss = [ss |-> KrnSel(0), esp |-> 0] /\ gdt["grub"] = LoaderTable
      /\ seg = [r \in SegRegs |-> IF r = "cs" THEN KernelCode ELSE KernelData]
      /\ gdt \in [grub : {LoaderTable}, own : [0 .. 6 -> Descriptors]]
  <2>1. LoaderTable[1] = FlatDesc(0, "code") /\ LoaderTable[2] = FlatDesc(0, "data")
    BY DEF LoaderTable
  <2>2. NullDesc \in Descriptors /\ JunkDesc \in Descriptors BY DEF Descriptors
  <2> QED BY <2>1, <2>2 DEF Init, SegmentInit, KernelCode, KernelData
<1>3. Stored
  <2>1. {KernelCode, KernelData} \subseteq [sel : Selectors, desc : Descriptors]
    BY DEF KernelCode, KernelData, Loaded, KrnSel, Selectors, Descriptors
  <2>2. seg \in [SegRegs -> [sel : Selectors, desc : Descriptors]] BY <1>2, <2>1
  <2>3. tss \in [ss : Selectors, esp : Stacks] BY <1>2 DEF KrnSel, Selectors, Stacks, UserTop
  <2>4. esp \in Stacks /\ ebp \in Stacks BY DEF Init, Stacks, UserTop, KernelTop
  <2>5. DOMAIN stack = Stacks /\ \A a \in Stacks : stack[a][1] \in Tags
    BY DEF Init, Unknown, Tags
  <2>6. gates \in [{3, 48} -> Flags] /\ gpr \in Gprs BY DEF Init, Flags, Gprs
  <2> QED BY <1>1, <1>2, <2>2, <2>3, <2>4, <2>5, <2>6 DEF Stored, Init
<1>4. Results BY DEF Init, Results
<1>5. EndAt \in Nat /\ 1 \in 1 .. EndAt BY <1>1 DEF EndAt
<1>6. InTp(1)
  <2>1. /\ ~(1 > LgdtAt) /\ ~(1 > TssAt) /\ ~(1 > TssAt + 2)
        /\ \A i \in 0 .. TaskIndex : ~(1 > WrittenAt(i))
    BY <1>1 DEF LgdtAt, TssAt, TaskIndex, WrittenAt, Never
  <2>2. TablesAt(1) BY <1>2, <2>1 DEF TablesAt
  <2>3. \A reg \in DataRegs : DataIs(reg, 1)
    <3>1. SUFFICES ASSUME NEW reg \in DataRegs PROVE DataIs(reg, 1) OBVIOUS
    <3>2. ~(1 > LoadAt(reg)) BY <1>1 DEF LoadAt, LoadsAt, DataRegs, Never
    <3>3. seg[reg] = KernelData BY <1>2 DEF SegRegs, DataRegs
    <3> QED BY <3>2, <3>3 DEF DataIs
  <2>4. seg["cs"] = KernelCode /\ seg["ss"] = KernelData BY <1>2 DEF SegRegs
  <2>5. InKernel(1) BY <1>2, <2>2, <2>3, <2>4 DEF InKernel
  <2>6. Pushes(1) = 0 BY <1>1 DEF Pushes, TssAt
  <2> QED BY <2>5, <2>6 DEF InTp, Init, KernelTop
<1>7. Memory(1)
  <2>1. /\ table \in [Tables -> [Index -> {Absent, Junk}]] /\ cr3 = 0 /\ pg = FALSE
        /\ tlb = [p \in Pages |-> Absent]
    BY DEF Init, PagingInit
  <2>2. Absent = -1 /\ Junk = -2 /\ {Absent, Junk} \subseteq -2 .. 2 * N - 1 /\ Absent \in -1 .. 2 * N - 1
    BY TableSize DEF Absent, Junk
  <2>3. table \in [Tables -> [Index -> -2 .. 2 * N - 1]] BY <2>1, <2>2
  <2>4. pg = (1 > 7)
    <3>1. (1 > 7) = FALSE OBVIOUS
    <3> QED BY <2>1, <3>1, Zenon
  <2>5. tlb \in [Pages -> -1 .. 2 * N - 1] BY <2>1, <2>2
  <2>6. \A p \in Pages : tlb[p] \in Mapped(1, p) /\ tlb[p] = Absent BY <2>1 DEF Mapped
  <2> QED BY <2>1, <2>3, <2>4, <2>5, <2>6 DEF Memory, Physical, InTables
<1> QED BY <1>3, <1>4, <1>5, <1>6, <1>7 DEF Inv

\* What Undisturbed says of one step.
Sequel ==
  /\ Len(caller') < Len(caller) => Resumed(caller[1])
  /\ eip' = eip => \/ ring = 3 /\ program = "tp3"
                   \/ Resumed([eip |-> eip, esp |-> esp, ebp |-> ebp, gpr |-> gpr,
                               ring |-> ring, seg |-> seg, stack |-> stack])

\* Nothing happens once a program is over.
LEMMA Runs ==
  ASSUME Step \/ Nmi \/ TlbChange
  PROVE  Running
BY DEF Step, Fault, At, Describe, SetGdtr, SetSegment, SetTss, SetTr, SetGate, Copy, PushEbp, Push,
       MakeFrame, Leave, SetGpr, Pusha, Popa, Printf, SoftInt, Iret, StoreEntries, ClearTarget,
       SetControl, Return, Nmi, TlbChange

\* A program that runs is not over.
LEMMA NotEnded ==
  ASSUME Running
  PROVE  ~Ended
BY DEF Running, Ended

\* Where no int is in progress, none ends.
LEMMA Calls ==
  ASSUME Step
  PROVE  caller = << >> => Len(caller') \in {0, 1}
BY DEF Step, Fault, Describe, SetGdtr, SetSegment, SetTss, SetTr, SetGate, Copy, PushEbp, Push,
       MakeFrame, Leave, SetGpr, Pusha, Popa, Printf, SoftInt, Iret, StoreEntries, ClearTarget,
       SetControl, Return

\* A step of tp().
LEMMA TpStep ==
  ASSUME Stored, Results, NEW k \in 1 .. EndAt, InTp(k), Memory(k), Step
  PROVE  Inv' /\ Sequel
<1>1. program \in Loaders \cup {"tp2", "tp4"} BY ProgramsAssumption DEF Stored, Loaders
<1>2. eip = <<program, k>> /\ caller = << >> BY DEF InTp
<1>3. Len(caller') \in {0, 1} BY <1>2, Calls
<1>4. ASSUME eip' # eip PROVE Sequel BY <1>2, <1>3, <1>4 DEF Sequel
<1>5. ASSUME Steady', program' = program, program # "tp4", NEW j \in 1 .. EndAt, InTp(j)', j # k
      PROVE  Inv' /\ Sequel
  <2>1. eip' = <<program, j>> BY <1>5 DEF InTp
  <2>2. eip' # eip BY <1>2, <1>5, <2>1
  <2>3. Physical' /\ Memory(j)' BY <1>5 DEF Steady, Memory
  <2>4. EndAt' = EndAt BY <1>5, Fixed
  <2>5. Inv' BY <1>5, <2>3, <2>4 DEF Inv, Steady
  <2> QED BY <1>4, <2>2, <2>5
<1>6. ASSUME Steady', program' = program, program # "tp4", eip' = <<"done">>
      PROVE  Inv' /\ Sequel
  <2>1. eip' # eip BY <1>2, <1>6
  <2>2. Ended' BY <1>6 DEF Ended
  <2>3. Memory(EndAt)' BY <1>6 DEF Steady, Memory
  <2>4. Inv' BY <1>6, <2>2, <2>3 DEF Inv, Steady
  <2> QED BY <1>4, <2>1, <2>4
<1>7. CASE program \in Loaders
  <2>1. Steady BY <1>7 DEF Steady, Memory, Loaders
  <2>2. program # "tp4" BY <1>7 DEF Loaders
  <2>3. CASE Onward(k)
    <3>1. Steady' /\ program' = program /\ k + 1 \in 1 .. EndAt /\ InTp(k + 1)' /\ k + 1 # k
      BY <2>3 DEF Onward
    <3> QED BY <1>5, <2>2, <3>1
  <2>4. CASE Steady' /\ program' = program /\ eip' = <<"done">>
    BY <1>6, <2>2, <2>4
  <2>5. CASE Steady' /\ program' = program /\ program = "tp3" /\ InUserland3(1)'
    <3>1. eip' # eip BY <1>2, <2>5 DEF InUserland3
    <3>2. Memory(1)' BY <2>5 DEF Steady, Memory
    <3>3. Inv' BY <2>5, <3>2 DEF Inv, Steady
    <3> QED BY <1>4, <3>1, <3>3
  <2>6. CASE Steady' /\ program' = program /\ program = "tp5" /\ InUserland5(1)'
    <3>1. eip' # eip BY <1>2, <2>6 DEF InUserland5
    <3>2. Memory(1)' BY <2>6 DEF Steady, Memory
    <3>3. Inv' BY <2>6, <3>2 DEF Inv, Steady
    <3> QED BY <1>4, <3>1, <3>3
  <2> QED BY <1>7, <2>1, <2>3, <2>4, <2>5, <2>6, LoadersStep
<1>8. CASE program = "tp2"
  <2>1. Steady /\ EndAt = 4 BY <1>8 DEF Steady, Memory, EndAt
  <2>2. CASE Steady' /\ program' = program /\ k \in {1, 3} /\ InTp(k + 1)'
    <3>1. k + 1 \in 1 .. EndAt /\ k + 1 # k BY <2>1, <2>2
    <3> QED BY <1>5, <1>8, <2>2, <3>1
  <2>3. CASE Steady' /\ program' = program /\ InBpHandler(1)'
    <3>1. eip' # eip BY <1>2, <1>8, <2>3 DEF InBpHandler
    <3>2. Memory(1)' BY <1>8, <2>3 DEF Steady, Memory
    <3>3. Inv' BY <2>3, <3>2 DEF Inv, Steady
    <3> QED BY <1>4, <3>1, <3>3
  <2>4. CASE Steady' /\ program' = program /\ eip' = <<"done">>
    BY <1>6, <1>8, <2>4
  <2> QED BY <1>8, <2>1, <2>2, <2>3, <2>4, Tp2Step
<1>9. CASE program = "tp4"
  <2>1. InTables(k) /\ EndAt = 16 BY <1>9 DEF Memory, EndAt
  <2>2. ASSUME k < 16, Stored', Results', program' = program, InTp(k + 1)', InTables(k + 1)'
        PROVE  Inv' /\ Sequel
    <3>1. eip' = <<program, k + 1>> BY <2>2 DEF InTp
    <3>2. eip' # eip BY <1>2, <3>1
    <3>3. EndAt' = 16 /\ k + 1 \in 1 .. 16 BY <2>1, <2>2, Fixed
    <3>4. Memory(k + 1)' BY <1>9, <2>2 DEF Memory
    <3>5. Inv' BY <2>2, <3>3, <3>4 DEF Inv
    <3> QED BY <1>4, <3>2, <3>5
  <2>3. CASE k \in {2, 3, 4, 5, 6, 8, 9, 10, 12, 13} BY <1>9, <2>1, <2>2, <2>3, Tp4Store
  <2>4. CASE k \in {1, 7} BY <1>9, <2>1, <2>2, <2>4, Tp4Control
  <2>5. CASE k \in {11, 14} BY <1>9, <2>1, <2>2, <2>5, Tp4Print
  <2>6. CASE k = 15 BY <1>9, <2>1, <2>2, <2>6, Tp4Clear
  <2>7. CASE k = 16
    <3>1. Stored' /\ Results' /\ program' = program /\ Ended' /\ InTables(16)'
      BY <1>9, <2>1, <2>7, Tp4End
    <3>2. eip' # eip BY <1>2, <1>9, <3>1 DEF Ended
    <3>3. EndAt' = 16 /\ (Memory(EndAt))' BY <1>9, <2>1, <3>1, Fixed DEF Memory
    <3>4. Inv' BY <3>1, <3>3 DEF Inv
    <3> QED BY <1>4, <3>2, <3>4
  <2> QED BY <2>1, <2>3, <2>4, <2>5, <2>6, <2>7
<1> QED BY <1>1, <1>7, <1>8, <1>9

\* A step of ring 3.
LEMMA UserlandStep ==
  ASSUME Steady, Step,
         \/ \E k \in 1 .. 3 : InUserland3(k)
         \/ \E k \in 1 .. 5 : InUserland5(k)
  PROVE  Inv' /\ Sequel
<1>1. ASSUME caller = << >>, eip' # eip PROVE Sequel BY <1>1, Calls DEF Sequel
<1>2. ASSUME NEW k \in 1 .. 3, InUserland3(k) PROVE Inv' /\ Sequel
  <2>1. program = "tp3" /\ eip = <<"userland", k>> /\ caller = << >> BY <1>2 DEF InUserland3
  <2>2. Steady' /\ program' = program BY <1>2, Userland3Step
  <2>3. \A j \in Nat : Memory(j)' BY <2>1, <2>2 DEF Memory, Steady
  <2>4. CASE k < 3 /\ InUserland3(k + 1)'
    <3>1. eip' # eip /\ k + 1 \in 1 .. 3 BY <2>1, <2>4 DEF InUserland3
    <3>2. Inv' BY <2>2, <2>3, <2>4, <3>1 DEF Inv, Steady
    <3> QED BY <1>1, <2>1, <3>1, <3>2
  <2>5. CASE k = 3 /\ eip' = <<"panic">> /\ ring' = 3
    <3>1. eip' # eip /\ Ended' BY <2>1, <2>2, <2>5 DEF Ended
    <3>2. EndAt' \in Nat BY <2>1, <2>2 DEF EndAt
    <3>3. (Memory(EndAt))' BY <2>1, <2>2 DEF Memory, Steady
    <3>4. Inv' BY <2>2, <3>1, <3>3 DEF Inv, Steady
    <3> QED BY <1>1, <2>1, <3>1, <3>4
  <2> QED BY <1>2, <2>4, <2>5, Userland3Step
<1>3. ASSUME NEW k \in 1 .. 5, InUserland5(k) PROVE Inv' /\ Sequel
  <2>1. program = "tp5" /\ eip = <<"userland", k>> /\ caller = << >> BY <1>3 DEF InUserland5
  <2>2. Steady' /\ program' = program BY <1>3, Userland5Step
  <2>3. \A j \in Nat : Memory(j)' BY <2>1, <2>2 DEF Memory, Steady
  <2>4. CASE k < 4 /\ InUserland5(k + 1)'
    <3>1. eip' # eip /\ k + 1 \in 1 .. 5 BY <2>1, <2>4 DEF InUserland5
    <3>2. Inv' BY <2>2, <2>3, <2>4, <3>1 DEF Inv, Steady
    <3> QED BY <1>1, <2>1, <3>1, <3>2
  <2>5. CASE InSyscallIsr(1)'
    <3>1. eip' # eip BY <2>1, <2>5 DEF InSyscallIsr
    <3>2. Inv' BY <2>2, <2>3, <2>5 DEF Inv, Steady
    <3> QED BY <1>1, <2>1, <3>1, <3>2
  <2> QED BY <1>3, <2>4, <2>5, Userland5Step
<1> QED BY <1>2, <1>3

\* A step of a handler that an int has entered.
LEMMA HandlerStep ==
  ASSUME Steady, Step,
         \/ \E k \in 1 .. 7 : InSyscallIsr(k)
         \/ \E k \in 1 .. 7 : InBpHandler(k)
  PROVE  Inv' /\ Sequel
<1>1. ASSUME NEW k \in 1 .. 7, InSyscallIsr(k) PROVE Inv' /\ Sequel
  <2>1. program = "tp5" /\ eip = <<"syscall_isr", k>> /\ Len(caller) = 1
    BY <1>1 DEF InSyscallIsr, SystemCalled
  <2>2. CASE k < 7
    <3>1. Steady' /\ program' = program /\ InSyscallIsr(k + 1)' /\ caller' = caller
      BY <1>1, <2>2, SyscallIsrStep
    <3>2. eip' # eip BY <2>1, <3>1 DEF InSyscallIsr
    <3>3. k + 1 \in 1 .. 7 /\ Memory(k + 1)' BY <2>1, <2>2, <3>1 DEF Memory, Steady
    <3>4. Inv' BY <3>1, <3>3 DEF Inv, Steady
    <3>5. Len(caller') = 1 BY <2>1, <3>1
    <3>6. Sequel BY <2>1, <3>2, <3>5 DEF Sequel
    <3> QED BY <3>4, <3>6
  <2>3. CASE k = 7
    <3>1. Steady' /\ program' = program /\ InUserland5(5)' /\ Resumed(caller[1])
      BY <1>1, <2>3, SyscallReturn
    <3>2. eip' # eip BY <2>1, <3>1 DEF InUserland5
    <3>3. Memory(5)' BY <2>1, <3>1 DEF Memory, Steady
    <3>4. Inv' BY <3>1, <3>3 DEF Inv, Steady
    <3>5. Sequel BY <3>1, <3>2 DEF Sequel
    <3> QED BY <3>4, <3>5
  <2> QED BY <2>2, <2>3
<1>2. ASSUME NEW k \in 1 .. 7, InBpHandler(k) PROVE Inv' /\ Sequel
  <2>1. program = "tp2" /\ eip = <<"bp_handler", k>> /\ Len(caller) = 1
    BY <1>2 DEF InBpHandler, Trapped
  <2>2. CASE k < 7
    <3>1. Steady' /\ program' = program /\ InBpHandler(k + 1)' /\ caller' = caller
      BY <1>2, <2>2, BpHandlerStep
    <3>2. eip' # eip BY <2>1, <3>1 DEF InBpHandler
    <3>3. k + 1 \in 1 .. 7 /\ Memory(k + 1)' BY <2>1, <2>2, <3>1 DEF Memory, Steady
    <3>4. Inv' BY <3>1, <3>3 DEF Inv, Steady
    <3>5. Len(caller') = 1 BY <2>1, <3>1
    <3>6. Sequel BY <2>1, <3>2, <3>5 DEF Sequel
    <3> QED BY <3>4, <3>6
  <2>3. CASE k = 7
    <3>1. Steady' /\ program' = program /\ InTp(3)' /\ Resumed(caller[1])
      BY <1>2, <2>3, BpReturn
    <3>2. eip' # eip BY <2>1, <3>1 DEF InTp
    <3>3. Memory(3)' /\ EndAt' = 4 BY <2>1, <3>1 DEF Memory, Steady, EndAt
    <3>4. Inv' BY <3>1, <3>3 DEF Inv, Steady
    <3>5. Sequel BY <3>1, <3>2 DEF Sequel
    <3> QED BY <3>4, <3>5
  <2> QED BY <2>2, <2>3
<1> QED BY <1>1, <1>2

\* Every step of a program.
LEMMA StepInv ==
  ASSUME Inv, Step
  PROVE  Inv' /\ Sequel
<1>1. Stored /\ Results /\ ~Ended BY Runs, NotEnded DEF Inv
<1>2. CASE \E k \in 1 .. EndAt : InTp(k) /\ Memory(k) BY <1>1, <1>2, TpStep
<1>3. ASSUME NEW k, Memory(k), program # "tp4" PROVE Steady
  BY <1>1, <1>3 DEF Steady, Memory
<1>4. CASE \E k \in 1 .. 3 : InUserland3(k) /\ Memory(k)
  <2>1. Steady BY <1>3, <1>4 DEF InUserland3
  <2> QED BY <1>4, <2>1, UserlandStep
<1>5. CASE \E k \in 1 .. 5 : InUserland5(k) /\ Memory(k)
  <2>1. Steady BY <1>3, <1>5 DEF InUserland5
  <2> QED BY <1>5, <2>1, UserlandStep
<1>6. CASE \E k \in 1 .. 7 : InSyscallIsr(k) /\ Memory(k)
  <2>1. Steady BY <1>3, <1>6 DEF InSyscallIsr
  <2> QED BY <1>6, <2>1, HandlerStep
<1>7. CASE \E k \in 1 .. 7 : InBpHandler(k) /\ Memory(k)
  <2>1. Steady BY <1>3, <1>7 DEF InBpHandler
  <2> QED BY <1>7, <2>1, HandlerStep
<1> QED BY <1>1, <1>2, <1>4, <1>5, <1>6, <1>7 DEF Inv

\* An NMI that is handled leaves what it interrupted as it was, if its frame is
\* below the stack pointer.
LEMMA NmiSequel ==
  ASSUME Stored, Sound, Nmi, FrameTop <= esp \/ (ring = 3 /\ program = "tp3")
  PROVE  Sequel
<1>1. /\ stack' = [a \in Stacks |-> IF a < FrameTop THEN Unknown ELSE stack[a]]
      /\ UNCHANGED <<eip, seg, ring, esp, ebp, gpr, caller>>
  BY NmiKeeps
<1>2. ~(Len(caller') < Len(caller))
  <2>1. Len(caller') = Len(caller) BY <1>1
  <2>2. CASE Len(caller) \in Nat BY <2>1, <2>2
  <2> QED BY <1>1
<1>3. CASE FrameTop <= esp
  <2>1. esp \in 0 .. 14 /\ FrameTop \in 0 .. 14
    BY DEF Stored, FrameTop, Stacks, UserTop
  <2>2. \A a \in esp .. UserTop : stack'[a] = stack[a]
    BY <1>1, <1>3, <2>1 DEF Stacks, UserTop
  <2> QED BY <1>1, <1>2, <2>2 DEF Sequel, Resumed
<1> QED BY <1>2, <1>3 DEF Sequel

\* An NMI in tp().
LEMMA TpInterrupted ==
  ASSUME Stored, Results, NEW k \in 1 .. EndAt, InTp(k), Memory(k), Nmi
  PROVE  Inv' /\ Sequel
<1>1. program \in Loaders \cup {"tp2", "tp4"} BY ProgramsAssumption DEF Stored, Loaders
<1>2. ring = 0 /\ FrameTop = esp /\ EndAt \in Nat /\ caller = << >>
  BY <1>1 DEF InTp, InKernel, FrameTop, EndAt
<1>3. FrameTop <= esp BY <1>2 DEF Stored, Stacks, UserTop
<1>4. CASE program # "tp4"
  <2>1. Steady BY <1>4 DEF Steady, Memory
  <2>2. Sound BY <2>1, CanRun, SoundKernel DEF InTp
  <2>3. InTp(k)' BY <1>2, <2>2, TpNmi
  <2>4. Stored' /\ UNCHANGED <<paging, program, shown, copied>> BY <2>2, NmiKeeps
  <2>5. Results' /\ Memory(k)' BY <1>4, <2>4 DEF Results, Memory, Physical, paging
  <2>6. EndAt' = EndAt BY <2>4, Fixed
  <2>7. Inv' BY <2>3, <2>4, <2>5, <2>6 DEF Inv
  <2> QED BY <1>3, <2>2, <2>7, NmiSequel
<1>5. CASE program = "tp4"
  <2>1. EndAt = 16 /\ InTables(k) BY <1>5 DEF EndAt, Memory
  <2>2. /\ Stored' /\ Results' /\ program' = program /\ InTables(k)'
        /\ \/ Sound /\ InTp(k)'
           \/ k = 16 /\ Ended' /\ eip' # eip
    BY <1>5, <2>1, Tp4Nmi
  <2>3. EndAt' = 16 /\ Memory(k)' BY <1>5, <2>1, <2>2, Fixed DEF Memory
  <2>4. CASE Sound /\ InTp(k)'
    <3>1. Inv' BY <2>1, <2>2, <2>3, <2>4 DEF Inv
    <3> QED BY <1>3, <2>4, <3>1, NmiSequel
  <2>5. CASE k = 16 /\ Ended' /\ eip' # eip
    <3>1. Inv' BY <2>2, <2>3, <2>5 DEF Inv
    <3>2. caller' = caller BY DEF Nmi
    <3> QED BY <1>2, <2>5, <3>1, <3>2 DEF Sequel
  <2> QED BY <2>2, <2>4, <2>5
<1> QED BY <1>4, <1>5

\* Every NMI.
LEMMA NmiInv ==
  ASSUME Inv, Nmi
  PROVE  Inv' /\ Sequel
<1>1. Stored /\ Results /\ ~Ended BY Runs, NotEnded DEF Inv
<1>2. CASE \E k \in 1 .. EndAt : InTp(k) /\ Memory(k) BY <1>1, <1>2, TpInterrupted
<1>3. ASSUME NEW k, Memory(k), program # "tp4" PROVE Steady
  BY <1>1, <1>3 DEF Steady, Memory
<1>4. ASSUME Steady', program # "tp4", program' = program PROVE \A j : Memory(j)'
  BY <1>4 DEF Steady, Memory
<1>5. ASSUME NEW k \in 1 .. 3, InUserland3(k), Memory(k) PROVE Inv' /\ Sequel
  <2>1. program = "tp3" /\ InUser BY <1>5 DEF InUserland3
  <2>2. Steady BY <1>3, <1>5, <2>1
  <2>3. InUserland3(k)' /\ Steady' BY <1>5, <2>2, Userland3Nmi
  <2>4. program' = program BY <2>1, <2>3 DEF InUserland3
  <2>5. Inv' BY <1>4, <2>1, <2>3, <2>4 DEF Inv, Steady
  <2>6. Sound /\ ring = 3 BY <2>1, <2>2, SoundUser DEF InUser
  <2> QED BY <1>1, <2>1, <2>5, <2>6, NmiSequel
<1>6. ASSUME NEW k \in 1 .. 5, InUserland5(k), Memory(k) PROVE Inv' /\ Sequel
  <2>1. program = "tp5" /\ InUser /\ esp \in {13, 14} BY <1>6 DEF InUserland5
  <2>2. Steady BY <1>3, <1>6, <2>1
  <2>3. InUserland5(k)' /\ Steady' BY <1>6, <2>2, Userland5Nmi
  <2>4. program' = program BY <2>1, <2>3 DEF InUserland5
  <2>5. Inv' BY <1>4, <2>1, <2>3, <2>4 DEF Inv, Steady
  <2>6. Sound /\ ring = 3 /\ tss.esp = 9 BY <2>1, <2>2, SoundUser DEF InUser
  <2>7. FrameTop <= esp BY <2>1, <2>6 DEF FrameTop
  <2> QED BY <1>1, <2>5, <2>6, <2>7, NmiSequel
<1>7. ASSUME NEW k \in 1 .. 7, InSyscallIsr(k), Memory(k) PROVE Inv' /\ Sequel
  <2>1. program = "tp5" /\ InKernel(EndAt) /\ ring = 0 /\ EndAt = 26
    BY <1>7 DEF InSyscallIsr, InKernel, EndAt
  <2>2. Steady BY <1>3, <1>7, <2>1
  <2>3. InSyscallIsr(k)' /\ Steady' BY <1>7, <2>2, SyscallIsrNmi
  <2>4. program' = program BY <2>1, <2>3 DEF InSyscallIsr
  <2>5. Inv' BY <1>4, <2>1, <2>3, <2>4 DEF Inv, Steady
  <2>6. Sound BY <2>1, <2>2, CanRun, SoundKernel DEF Steady
  <2>7. FrameTop <= esp BY <1>1, <2>1 DEF FrameTop, Stored, Stacks, UserTop
  <2> QED BY <1>1, <2>5, <2>6, <2>7, NmiSequel
<1>8. ASSUME NEW k \in 1 .. 7, InBpHandler(k), Memory(k) PROVE Inv' /\ Sequel
  <2>1. program = "tp2" /\ InKernel(1) /\ ring = 0 /\ EndAt = 4
    BY <1>8 DEF InBpHandler, InKernel, EndAt
  <2>2. Steady BY <1>3, <1>8, <2>1
  <2>3. InBpHandler(k)' /\ Steady' BY <1>8, <2>2, BpHandlerNmi
  <2>4. program' = program BY <2>1, <2>3 DEF InBpHandler
  <2>5. Inv' BY <1>4, <2>1, <2>3, <2>4 DEF Inv, Steady
  <2>6. Sound BY <2>1, <2>2, CanRun, SoundKernel DEF Steady
  <2>7. FrameTop <= esp BY <1>1, <2>1 DEF FrameTop, Stored, Stacks, UserTop
  <2> QED BY <1>1, <2>5, <2>6, <2>7, NmiSequel
<1> QED BY <1>1, <1>2, <1>5, <1>6, <1>7, <1>8 DEF Inv

\* Only tp4 has translations that change.
LEMMA TlbInv ==
  ASSUME Inv, TlbChange
  PROVE  Inv' /\ Sequel
<1>1. PICK page \in Pages : Fill(page) \/ Evict(page) BY DEF TlbChange
<1>2. UNCHANGED <<segmentation, registers>> BY DEF TlbChange
<1>3. pg BY <1>1 DEF Fill, Evict
<1>4. program = "tp4"
  <2>1. \A k : Memory(k) /\ program # "tp4" => ~pg BY DEF Memory, Physical
  <2> QED BY <1>3, <2>1 DEF Inv
<1>5. Stored /\ Results /\ ~Ended BY Runs, NotEnded DEF Inv
<1>6. EndAt = 16 BY <1>4 DEF EndAt
<1>7. PICK k \in 1 .. 16 : InTp(k) /\ InTables(k)
  BY <1>4, <1>5, <1>6 DEF Inv, Memory, InUserland3, InUserland5, InSyscallIsr, InBpHandler
<1>8. InTables(k)' BY <1>1, <1>2, <1>7, TlbStep DEF registers
<1>9. /\ UNCHANGED <<gdt, gdtr, seg, ring, tr, tss, program, eip, esp, ebp, gpr, stack, gates,
                     shown, copied, caller>>
  BY <1>2 DEF segmentation, registers
<1>10. Stored' /\ Results' BY <1>5, <1>9 DEF Stored, Results
<1>11. InTp(k)'
  <2>1. InKernel(k)' BY <1>7, <1>9, KernelKept DEF InTp
  <2>2. Pushes(k)' = Pushes(k) /\ UserFrame' = UserFrame BY <1>9, Fixed
  <2> QED BY <1>7, <1>9, <2>1, <2>2 DEF InTp
<1>12. EndAt' = 16 /\ Memory(k)' BY <1>4, <1>6, <1>8, <1>9, Fixed DEF Memory
<1>13. Inv' BY <1>10, <1>11, <1>12 DEF Inv
<1>14. Sequel
  <2>1. caller = << >> BY <1>7 DEF InTp
  <2> QED BY <1>9, <2>1 DEF Sequel, Resumed
<1> QED BY <1>13, <1>14

\* The invariant is about these variables only.
LEMMA StutterInv ==
  ASSUME Inv, UNCHANGED vars
  PROVE  Inv'
<1>1. UNCHANGED <<gdt, gdtr, seg, ring, tr, tss, table, cr3, pg, tlb, program, eip, esp, ebp, gpr,
                  stack, gates, shown, copied, caller>>
  BY DEF vars, segmentation, paging, registers
<1>2. EndAt' = EndAt BY <1>1, Fixed
<1>3. Stored' /\ Results' BY <1>1 DEF Inv, Stored, Results
<1>4. \A k : Memory(k) => Memory(k)' BY <1>1 DEF Memory, Physical, InTables
<1>5. Ended => Ended' BY <1>1 DEF Ended
<1>6. program \in Loaders \cup {"tp2", "tp4"} /\ EndAt \in Nat
  BY ProgramsAssumption DEF Inv, Stored, Loaders, EndAt
<1>7. \A k \in Nat : InKernel(k) => InKernel(k)' BY <1>1, KernelKept
<1>8. InUser => InUser' BY <1>1, <1>6, UserKept
<1>9. \A k \in 1 .. EndAt : InTp(k) => InTp(k)'
  <2>1. \A k \in 1 .. EndAt : Pushes(k)' = Pushes(k) /\ UserFrame' = UserFrame BY <1>1, <1>6, Fixed
  <2> QED BY <1>1, <1>6, <1>7, <2>1 DEF InTp
<1>10. \A k \in 1 .. 3 : InUserland3(k) => InUserland3(k)' BY <1>1, <1>8 DEF InUserland3
<1>11. \A k \in 1 .. 5 : InUserland5(k) => InUserland5(k)' BY <1>1, <1>8 DEF InUserland5
<1>12. \A k \in 1 .. 7 : InSyscallIsr(k) => InSyscallIsr(k)'
  <2>1. SystemCalled => SystemCalled' BY <1>1, SystemCalledKept
  <2>2. InKernel(EndAt) => (InKernel(EndAt))' BY <1>2, <1>6, <1>7
  <2> QED BY <1>1, <2>1, <2>2 DEF InSyscallIsr
<1>13. \A k \in 1 .. 7 : InBpHandler(k) => InBpHandler(k)'
  <2>1. Trapped => Trapped' BY <1>1, TrappedKept
  <2> QED BY <1>1, <1>7, <2>1 DEF InBpHandler
<1> QED BY <1>2, <1>3, <1>4, <1>5, <1>9, <1>10, <1>11, <1>12, <1>13 DEF Inv
-----------------------------------------------------------------------------
(***************************************************************************)
(* The theorems.                                                           *)
(***************************************************************************)
\* The invariant is inductive, and every step is as Undisturbed has it.
LEMMA NextInv ==
  ASSUME Inv, [Next]_vars
  PROVE  Inv' /\ (UNCHANGED vars \/ Sequel)
BY StepInv, NmiInv, TlbInv, StutterInv DEF Next

\* Wherever the program is, the invariant says what it is about to do; so it
\* holds of every behaviour.
LEMMA Invariance == Spec => []Inv
BY InitInv, NextInv, PTL DEF Spec

\* It says what type each variable has,
LEMMA InvTypes ==
  ASSUME Inv
  PROVE  TypeOK
<1>1. Stored BY DEF Inv
<1>2. SegmentTypeOK
  <2>1. DOMAIN gdt = {"grub", "own"} /\ gdt["grub"] = LoaderTable
        /\ gdt["own"] \in [0 .. 6 -> Descriptors]
    BY <1>1 DEF Stored
  <2>2. \A i \in DOMAIN LoaderTable : LoaderTable[i] \in Descriptors
    BY DEF LoaderTable, Descriptors, NullDesc, FlatDesc
  <2>3. \A t \in DOMAIN gdt : \A i \in DOMAIN gdt[t] : gdt[t][i] \in Descriptors
    BY <2>1, <2>2
  <2>4. gdtr.table \in DOMAIN gdt /\ gdtr.limit \in Nat BY <1>1, <2>1 DEF Stored
  <2>5. \A reg \in SegRegs : seg[reg].desc \in Descriptors BY <1>1 DEF Stored
  <2> QED BY <1>1, <2>3, <2>4, <2>5 DEF Stored, SegmentTypeOK
<1>3. PagingTypeOK
  <2>1. PICK k \in Nat : Memory(k)
    <3>1. EndAt \in Nat BY DEF EndAt
    <3> QED BY <3>1 DEF Inv
  <2>2. CASE program = "tp4"
    <3>1. InTables(k) BY <2>1, <2>2 DEF Memory
    <3>2. pg \in BOOLEAN
      <4>1. pg = (k > 7) BY <3>1 DEF InTables
      <4>2. (k > 7) \in BOOLEAN OBVIOUS
      <4> QED BY <4>1, <4>2, Zenon
    <3> QED BY <3>1, <3>2 DEF InTables, PagingTypeOK
  <2>3. CASE program # "tp4"
    <3>1. Physical BY <2>1, <2>3 DEF Memory
    <3>2. Absent = -1 /\ {Absent, Junk} \subseteq -2 .. 2 * N - 1 /\ Absent \in -1 .. 2 * N - 1
      BY TableSize DEF Absent, Junk
    <3> QED BY <3>1, <3>2 DEF Physical, PagingTypeOK
  <2> QED BY <2>2, <2>3
<1>4. program \in Programs /\ {esp, ebp, tss.esp} \subseteq Stacks BY <1>1 DEF Stored
<1>5. gpr[1] = "gpr" BY <1>1 DEF Stored, Gprs, Scratch
<1>6. \A a \in Stacks : stack[a][1] \in {"num", "sel", "eip", "eflags", "gpr", "junk"}
  BY <1>1 DEF Stored, Tags
<1> QED BY <1>2, <1>3, <1>4, <1>5, <1>6 DEF TypeOK

\* which faults there may be,
LEMMA InvFaults ==
  ASSUME Inv
  PROVE  OnlyFaultsIntended
<1>1. \/ \E f, k : eip = <<f, k>>
      \/ Ended
  BY DEF Inv, InTp, InUserland3, InUserland5, InSyscallIsr, InBpHandler
<1>2. CASE \E f, k : eip = <<f, k>>
  <2>1. eip # <<"panic">> /\ eip # <<"reset">> BY <1>2
  <2> QED BY <2>1 DEF OnlyFaultsIntended
<1>3. CASE Ended BY <1>3 DEF Ended, OnlyFaultsIntended
<1> QED BY <1>1, <1>2, <1>3

\* and what has been printed and copied.
LEMMA InvResults ==
  ASSUME Inv
  PROVE  ResultsAreTrue
<1>1. Results /\ program \in {"tp1", "tp2", "tp3", "tp4", "tp5", "tp_exam"}
  BY ProgramsAssumption DEF Inv, Stored
<1>2. program = "tp4" /\ eip = <<program, 12>> => shown[2] = shown[3]
  <2>1. SUFFICES ASSUME program = "tp4", eip = <<program, 12>> PROVE shown[2] = shown[3] OBVIOUS
  <2>2. ~Ended BY <2>1 DEF Ended
  <2>3. PICK k \in 1 .. EndAt : InTp(k) /\ Memory(k)
    BY <2>1, <2>2 DEF Inv, InUserland3, InUserland5, InSyscallIsr, InBpHandler
  <2>4. k = 12 BY <2>1, <2>3 DEF InTp
  <2>5. InTables(12) BY <2>1, <2>3, <2>4 DEF Memory
  <2> QED BY <2>5 DEF InTables
<1>3. CASE program = "tp1" BY <1>1, <1>3 DEF Results, ResultsAreTrue
<1>4. CASE program = "tp2" BY <1>1, <1>4 DEF Results, ResultsAreTrue
<1>5. CASE program = "tp5" BY <1>1, <1>5 DEF Results, ResultsAreTrue
<1>6. CASE program \in {"tp3", "tp4", "tp_exam"}
  BY <1>1, <1>2, <1>6 DEF Results, ResultsAreTrue
<1> QED BY <1>1, <1>3, <1>4, <1>5, <1>6

\* Every variable holds a value of its type: the tables' entries, the registers
\* and the words of the stacks, whatever the size of the tables.
THEOREM Types == Spec => []TypeOK
BY Invariance, InvTypes, PTL

\* No program raises a fault it is not there to raise, and none leaves the
\* processor without a handler that an NMI could enter, at any instruction;
\* except tp3, in ring 3, and tp4 once its own mapping is gone.
THEOREM Faults == Spec => []OnlyFaultsIntended
BY Invariance, InvFaults, PTL

\* What print_gdt_content, the handlers and tp4's debug print, and where
\* _memcpy8 writes, is what the exercises are there to show.
THEOREM Shown == Spec => []ResultsAreTrue
BY Invariance, InvResults, PTL

\* The handlers of int3 and int 48 return to what they interrupted with every
\* register, segment and word of its stack as it was, and so does an NMI at any
\* instruction, the handlers' own included; except in tp3's ring 3.
THEOREM Resumption == Spec => Undisturbed
<1>1. Inv /\ [Next]_vars => [Sequel]_vars BY NextInv
<1> QED BY <1>1, Invariance, PTL DEF Spec, Undisturbed, Sequel
=============================================================================
