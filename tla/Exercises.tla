------------------------------ MODULE Exercises ------------------------------
(***************************************************************************)
(* The exercises tp1 to tp5 and the segmentation of tp_exam, as programs:  *)
(* each is the sequence of what its tp() does to the processor, and the    *)
(* handlers it installs.  One of them runs, from the state in which start  *)
(* calls it, on a processor that checks privileges (SegmentUnit) and       *)
(* translates addresses (PagingUnit).  An NMI may come before any of the   *)
(* instructions; the interrupt flag is clear throughout, as in entry.s.    *)
(*                                                                         *)
(* Of the stack, the words that matter are kept, EBP's and ESP's included; *)
(* "gpr" stands for the registers that C code may change.  A write to the  *)
(* stack that no property depends on (locals, calls) is left out.          *)
(***************************************************************************)
EXTENDS SegmentUnit, PagingUnit, Sequences

CONSTANT Programs    \* which of the programs are run

ASSUME ProgramsAssumption == Programs \subseteq {"tp1", "tp2", "tp3", "tp4", "tp5", "tp_exam"}

VARIABLES
  program,   \* the one that runs
  eip,       \* function and number of the next instruction
  esp, ebp, gpr,
  stack,     \* words of the stacks, by address
  gates,     \* the functions that gates lead to, and the gates' levels
  shown,     \* what the program, or its handler, printed last
  copied,    \* where the last string instruction has written, and how much
  caller     \* what the int in progress has interrupted (history)

registers == <<program, eip, esp, ebp, gpr, stack, gates, shown, copied, caller>>
vars == <<segmentation, paging, registers>>

\* The stack of tp(), below the frame of its caller, and a stack for ring 3.
KernelTop == 9
UserTop   == 14     \* tp5's 0x800000
Stacks    == 0 .. UserTop
Unknown   == <<"junk", 0>>
Scratch   == <<"gpr", "scratch">>
-----------------------------------------------------------------------------
(***************************************************************************)
(* The programs.  An instruction is a tuple, its name first.               *)
(***************************************************************************)
LoadUser(i, regs) == [k \in DOMAIN regs |-> <<"load", regs[k], UsrSel(i)>>]
LoadKrn(i, regs)  == [k \in DOMAIN regs |-> <<"load", regs[k], KrnSel(i)>>]

\* TSS.s0, with ESP from a register, and the descriptor "i" of the TSS.
TaskState(i, reg) ==
  <<<<"tss", KrnSel(2), reg>>, <<"desc", i, TssDesc>>, <<"ltr", KrnSel(i)>>>>

\* (faulty: ES is still that of the loader when the copy is made)
Tp1KeepsEs ==
  << <<"desc", 0, NullDesc>>, <<"desc", 1, FlatDesc(0, "code")>>,
     <<"desc", 2, FlatDesc(0, "data")>>, <<"lgdt", 55>>,
     <<"load", "ds", KrnSel(2)>>, <<"jump", KrnSel(1)>>,
     <<"desc", 3, Descriptor("data", 0, 6291456, 31)>>, <<"copy", 32>>, <<"ret">> >>

\* Its table and its TSS are locals: they live as long as tp1's tp().
Tp1 ==
  << <<"print_gdt">>, <<"desc", 0, NullDesc>>, <<"desc", 1, FlatDesc(0, "code")>>,
     <<"desc", 2, FlatDesc(0, "data")>>, <<"lgdt", 55>>,
     <<"load", "ds", KrnSel(2)>>, <<"jump", KrnSel(1)>>, <<"print_gdt">>,
     <<"desc", 3, Descriptor("data", 0, 6291456, 31)>>, <<"print_gdt">>,
     <<"load", "es", KrnSel(3)>>, <<"copy", 32>>,
     <<"desc", 4, FlatDesc(3, "code")>>, <<"desc", 5, FlatDesc(3, "data")>> >>
    \o LoadUser(5, <<"ds", "es", "fs", "gs">>) \o TaskState(6, "ebp") \o <<<<"ret">>>>

Tp2 == <<<<"gate", 3, "bp_handler", 0>>, <<"int", 3>>, <<"debug">>, <<"ret">>>>

\* (faulty: what popa restores was never saved)
BpHandlerNoPusha ==
  << <<"push_ebp">>, <<"frame">>, <<"show_eip">>, <<"popa">>, <<"leave">>, <<"iret">> >>

\* A function written as an interrupt handler: the compiler saves EBP before
\* the first line, which is what "leave" undoes.
BpHandler ==
  << <<"push_ebp">>, <<"frame">>, <<"pusha">>, <<"show_eip">>, <<"popa">>,
     <<"leave">>, <<"iret">> >>

\* (faulty: the table is in use before it is filled)
InitGdtEarly ==
  << <<"lgdt", 47>>, <<"desc", 0, NullDesc>>, <<"desc", 1, FlatDesc(0, "code")>>,
     <<"desc", 2, FlatDesc(0, "data")>>, <<"desc", 3, FlatDesc(3, "code")>>,
     <<"desc", 4, FlatDesc(3, "data")>>, <<"jump", KrnSel(1)>> >>
    \o LoadKrn(2, <<"ss", "ds", "es", "fs", "gs">>)

\* init_gdt of tp3 and tp5; with TaskState, config_segmentation of tp_exam.
InitGdt ==
  << <<"desc", 0, NullDesc>>, <<"desc", 1, FlatDesc(0, "code")>>,
     <<"desc", 2, FlatDesc(0, "data")>>, <<"desc", 3, FlatDesc(3, "code")>>,
     <<"desc", 4, FlatDesc(3, "data")>>, <<"lgdt", 47>>, <<"jump", KrnSel(1)>> >>
    \o LoadKrn(2, <<"ss", "ds", "es", "fs", "gs">>)

\* A frame as an interrupt of ring 3 would have left it; "top" is ESP there.
EnterRing3(top) ==
  << <<"push", <<"sel", UsrSel(4)>>>>, top, <<"push", <<"eflags", 0>>>>,
     <<"push", <<"sel", UsrSel(3)>>>>, <<"push", <<"eip", <<"userland", 1>>>>>>, <<"iret">> >>

Tp3 ==
  InitGdt \o LoadUser(4, <<"ds", "es", "fs", "gs">>) \o TaskState(5, "ebp")
    \o EnterRing3(<<"push_ebp">>)

Userland3 == <<<<"push_ebp">>, <<"frame">>, <<"mov_cr0">>>>

Tp4 ==
  << <<"set_cr3", pgd>>, <<"store", ptb, [j \in Index |-> j]>>,
     <<"store", pgd, [j \in Index |-> Absent]>>, <<"store", pgd, [j \in {0} |-> ptb]>>,
     <<"store", ptb2, [j \in Index |-> N + j]>>, <<"store", pgd, [j \in {1} |-> ptb2]>>,
     <<"set_cr0">>, <<"store", ptb3, [j \in Index |-> Absent]>>,
     <<"store", ptb3, [j \in {target[2]} |-> pgd]>>,
     <<"store", pgd, [j \in {target[1]} |-> ptb3]>>,
     <<"show_words", Virtual(pgd), target>>,
     <<"store", ptb2, [j \in {v1 % N} |-> SharedFrame]>>,
     <<"store", ptb2, [j \in {v2 % N} |-> SharedFrame]>>,
     <<"show_words", Virtual(v1), Virtual(v2)>>, <<"clear", target>>, <<"ret">> >>

\* (faulty: the gate is left to ring 0)
Tp5KernelGate ==
  InitGdt \o <<<<"gate", 48, "syscall_isr", 0>>>> \o LoadUser(4, <<"ds", "es", "fs", "gs">>)
    \o TaskState(5, "ebp") \o EnterRing3(<<"push", <<"num", UserTop>>>>)

Tp5 ==
  InitGdt \o <<<<"gate", 48, "syscall_isr", 3>>>> \o LoadUser(4, <<"ds", "es", "fs", "gs">>)
    \o TaskState(5, "ebp") \o EnterRing3(<<"push", <<"num", UserTop>>>>)

Userland5 ==
  <<<<"push_ebp">>, <<"frame">>, <<"set", <<"gpr", "0x3048e0">>>>, <<"int", 48>>, <<"spin">>>>

\* (faulty: the caller's registers are not kept)
SyscallIsrNoPusha ==
  << <<"push_ebp">>, <<"frame">>, <<"leave">>, <<"syscall_handler">>, <<"iret">> >>

SyscallIsr ==
  << <<"push_ebp">>, <<"frame">>, <<"leave">>, <<"pusha">>, <<"syscall_handler">>,
     <<"popa">>, <<"iret">> >>

\* config_segmentation, and the end of config but for paging and the gates.
TpExam ==
  InitGdt \o TaskState(5, "esp") \o LoadUser(4, <<"ds", "es", "fs", "gs">>) \o <<<<"ret">>>>

Code(function) ==
  CASE function = "tp1" -> Tp1 [] function = "tp2" -> Tp2 [] function = "tp3" -> Tp3
    [] function = "tp4" -> Tp4 [] function = "tp5" -> Tp5 [] function = "tp_exam" -> TpExam
    [] function = "bp_handler" -> BpHandler [] function = "syscall_isr" -> SyscallIsr
    [] function = "userland" -> IF program = "tp3" THEN Userland3 ELSE Userland5
-----------------------------------------------------------------------------
(***************************************************************************)
(* The processor.                                                          *)
(***************************************************************************)
Init ==
  /\ program \in Programs
  /\ SegmentInit([i \in 0 .. 6 |-> IF program = "tp1" THEN JunkDesc ELSE NullDesc])
  /\ PagingInit
  /\ eip = <<program, 1>> /\ ebp = KernelTop /\ esp = KernelTop - 1
  /\ gpr = <<"gpr", "entry">> /\ stack = [a \in Stacks |-> Unknown]
  /\ gates = [n \in {3, 48} |-> [handler |-> "stub", dpl |-> 0]]
  /\ shown = <<"nothing", 0>> /\ copied = <<0, 0>> /\ caller = << >>

Running == Len(eip) = 2
Instruction == Code(eip[1])[eip[2]]
Arg(k) == Instruction[k + 1]
Following == <<eip[1], eip[2] + 1>>

\* The words of a frame, the first pushed first.
Pushed(top, words) ==
  [a \in Stacks |-> IF a \in top - Len(words) .. top - 1 THEN words[top - a] ELSE stack[a]]

\* Where an event that comes now pushes its frame, and what.
FrameTop == IF ring = 3 THEN tss.esp ELSE esp
Interrupted(next) ==
  (IF ring = 3 THEN <<<<"sel", seg["ss"].sel>>, <<"num", esp>>>> ELSE << >>)
    \o <<<<"eflags", 0>>, <<"sel", seg["cs"].sel>>, <<"eip", next>>>>

\* A handler can be reached and can run: C code addresses its data through DS.
HandlerRuns ==
  /\ CanEnter /\ seg["ds"].desc.kind = "data"
  /\ Reachable(KernelFrame) /\ Reachable(GdtFrame)

\* What the frame at ESP returns to.
FrameCs == stack[esp + 1][2]
FrameSs == IF stack[esp + 4][1] = "sel" THEN stack[esp + 4][2] ELSE KrnSel(0)
FrameOk ==
  /\ stack[esp][1] = "eip" /\ stack[esp + 1][1] = "sel"
  /\ CanReturn(ring, FrameCs, FrameSs)

\* The instruction does not fault.
Allowed ==
  LET op == Instruction[1] IN
  /\ Reachable(KernelFrame)
  /\ op \in {"desc", "print_gdt", "debug", "show_eip", "syscall_handler", "gate"}
       => seg["ds"].desc.kind = "data"
  /\ op \in {"lgdt", "mov_cr0", "set_cr0", "set_cr3"} => ring = 0
  /\ op = "load" => CanLoad(Arg(1), Arg(2))
  /\ op = "jump" => CanJump(Arg(1))
  /\ op = "ltr" => CanLtr(Arg(1))
  /\ op = "copy" => seg["es"].desc.kind = "data" /\ Arg(1) - 1 <= seg["es"].desc.limit
  /\ op = "int" => CanEnter /\ gates[Arg(1)].dpl >= ring
  /\ op = "iret" => FrameOk
  /\ op = "store" => Reachable(Arg(1))
  /\ op = "show_words" => Resolve(Arg(1)) # Absent /\ Resolve(Arg(2)) # Absent
  /\ op = "clear" => Resolve(Arg(1)) # Absent

\* A fault: excp_hdlr reports it and panics; if it cannot run, the processor
\* resets.
Fault ==
  /\ Running /\ ~Allowed
  /\ eip' = IF HandlerRuns THEN <<"panic">> ELSE <<"reset">>
  /\ UNCHANGED <<segmentation, paging, program, esp, ebp, gpr, stack, gates, shown,
                 copied, caller>>

At(op) == Running /\ Instruction[1] = op /\ Allowed
Continue == eip' = Following /\ UNCHANGED program

\* my_gdt[i] = ..., GDT[i] = ...
Describe ==
  /\ At("desc") /\ Continue
  /\ gdt' = [gdt EXCEPT !["own"][Arg(1)] = Arg(2)]
  /\ UNCHANGED <<gdtr, seg, ring, tr, tss, paging, esp, ebp, gpr, stack, gates, shown,
                 copied, caller>>

SetGdtr ==
  /\ At("lgdt") /\ Continue /\ Lgdt("own", Arg(1))
  /\ UNCHANGED <<gdt, seg, ring, tr, tss, paging, esp, ebp, gpr, stack, gates, shown,
                 copied, caller>>

\* set_ds, ..., set_cs
SetSegment ==
  /\ \/ At("load") /\ seg' = Load(Arg(1), Arg(2))
     \/ At("jump") /\ seg' = Load("cs", Arg(1))
  /\ Continue
  /\ UNCHANGED <<gdt, gdtr, ring, tr, tss, paging, esp, ebp, gpr, stack, gates, shown,
                 copied, caller>>

SetTss ==
  /\ At("tss") /\ Continue
  /\ tss' = [ss |-> Arg(1), esp |-> IF Arg(2) = "ebp" THEN ebp ELSE esp]
  /\ UNCHANGED <<gdt, gdtr, seg, ring, tr, paging, esp, ebp, gpr, stack, gates, shown,
                 copied, caller>>

SetTr ==
  /\ At("ltr") /\ Continue
  /\ tr' = Arg(1).index /\ gdt' = [gdt EXCEPT ![gdtr.table][Arg(1).index].kind = "tss_busy"]
  /\ UNCHANGED <<gdtr, seg, ring, tss, paging, esp, ebp, gpr, stack, gates, shown,
                 copied, caller>>

SetGate ==
  /\ At("gate") /\ Continue
  /\ gates' = [gates EXCEPT ![Arg(1)] = [handler |-> Arg(2), dpl |-> Arg(3)]]
  /\ UNCHANGED <<segmentation, paging, esp, ebp, gpr, stack, shown, copied, caller>>

\* _memcpy8: rep movsb through ES, from offset 0.
Copy ==
  /\ At("copy") /\ Continue
  /\ copied' = <<seg["es"].desc.base, Arg(1)>>
  /\ UNCHANGED <<segmentation, paging, esp, ebp, gpr, stack, gates, shown, caller>>

Number(word) == IF word[1] = "num" THEN word[2] ELSE 0

PushEbp ==
  /\ At("push_ebp") /\ Continue
  /\ stack' = Pushed(esp, <<<<"num", ebp>>>>) /\ esp' = esp - 1
  /\ UNCHANGED <<segmentation, paging, ebp, gpr, gates, shown, copied, caller>>

Push ==
  /\ At("push") /\ Continue
  /\ stack' = Pushed(esp, <<Arg(1)>>) /\ esp' = esp - 1
  /\ UNCHANGED <<segmentation, paging, ebp, gpr, gates, shown, copied, caller>>

MakeFrame ==
  /\ At("frame") /\ Continue /\ ebp' = esp
  /\ UNCHANGED <<segmentation, paging, esp, gpr, stack, gates, shown, copied, caller>>

Leave ==
  /\ At("leave") /\ Continue
  /\ esp' = ebp + 1 /\ ebp' = Number(stack[ebp])
  /\ UNCHANGED <<segmentation, paging, gpr, stack, gates, shown, copied, caller>>

SetGpr ==
  /\ At("set") /\ Continue /\ gpr' = Arg(1)
  /\ UNCHANGED <<segmentation, paging, esp, ebp, stack, gates, shown, copied, caller>>

Pusha ==
  /\ At("pusha") /\ Continue
  /\ stack' = Pushed(esp, <<gpr, <<"num", ebp>>>>) /\ esp' = esp - 2
  /\ UNCHANGED <<segmentation, paging, ebp, gpr, gates, shown, copied, caller>>

Popa ==
  /\ At("popa") /\ Continue
  /\ ebp' = Number(stack[esp]) /\ gpr' = stack[esp + 1] /\ esp' = esp + 2
  /\ UNCHANGED <<segmentation, paging, stack, gates, shown, copied, caller>>

\* What is printed; the call leaves the registers as it pleases.
Shows ==
  LET op == Instruction[1] IN
  CASE op = "print_gdt" -> <<"gdt", {i \in 0 .. 15 : 8 * i < gdtr.limit}>>
    [] op = "show_eip" -> stack[ebp + 1]
    [] op = "syscall_handler" -> stack[esp + 1]
    [] op = "show_words" -> <<"words", Content(Resolve(Arg(1))), Content(Resolve(Arg(2)))>>
    [] op = "debug" -> shown

Printf ==
  /\ \E op \in {"print_gdt", "show_eip", "syscall_handler", "show_words", "debug"} : At(op)
  /\ Continue /\ shown' = Shows /\ gpr' = Scratch
  /\ UNCHANGED <<segmentation, paging, esp, ebp, stack, gates, copied, caller>>

SoftInt ==
  /\ At("int")
  /\ LET gate == gates[Arg(1)]
         words == Interrupted(Following)
     IN  /\ eip' = IF gate.handler = "stub" THEN <<"panic">> ELSE <<gate.handler, 1>>
         /\ stack' = Pushed(FrameTop, words) /\ esp' = FrameTop - Len(words)
  /\ seg' = Entered /\ ring' = 0
  /\ caller' = <<[eip |-> Following, esp |-> esp, ebp |-> ebp, gpr |-> gpr, ring |-> ring,
                  seg |-> seg, stack |-> stack]>>
  /\ UNCHANGED <<gdt, gdtr, tr, tss, paging, program, ebp, gpr, gates, shown, copied>>

Iret ==
  /\ At("iret")
  /\ LET outer == FrameCs.rpl > ring IN
       /\ eip' = stack[esp][2] /\ seg' = Returned(ring, FrameCs, FrameSs) /\ ring' = FrameCs.rpl
       /\ esp' = IF outer THEN Number(stack[esp + 3]) ELSE esp + 3
  /\ caller' = << >>
  /\ UNCHANGED <<gdt, gdtr, tr, tss, paging, program, ebp, gpr, stack, gates, shown, copied>>

\* pg_set_entry, memset of a table, and the loops that fill one.
StoreEntries ==
  /\ At("store") /\ Continue /\ Store(Arg(1), Arg(2))
  /\ UNCHANGED <<segmentation, esp, ebp, gpr, stack, gates, shown, copied, caller>>

\* *target = 0: the invalidation after it is commented out.
ClearTarget ==
  /\ At("clear") /\ Continue
  /\ table' = [table EXCEPT ![Resolve(Arg(1))] = [@ EXCEPT ![0] = Absent]]
  /\ UNCHANGED <<segmentation, cr3, pg, tlb, esp, ebp, gpr, stack, gates, shown, copied,
                 caller>>

SetControl ==
  /\ \/ At("set_cr3") /\ SetCr3(Arg(1))
     \/ At("set_cr0") /\ EnablePaging
  /\ Continue
  /\ UNCHANGED <<segmentation, esp, ebp, gpr, stack, gates, shown, copied, caller>>

Return ==
  /\ At("ret") /\ eip' = <<"done">>
  /\ UNCHANGED <<segmentation, paging, program, esp, ebp, gpr, stack, gates, shown, copied,
                 caller>>

Step == \/ Fault \/ Describe \/ SetGdtr \/ SetSegment \/ SetTss \/ SetTr \/ SetGate \/ Copy
        \/ PushEbp \/ Push \/ MakeFrame \/ Leave \/ SetGpr \/ Pusha \/ Popa \/ Printf
        \/ SoftInt \/ Iret \/ StoreEntries \/ ClearTarget \/ SetControl \/ Return

\* An NMI, from its gate to its iret: the frame and the handler write below the
\* stack it gets, and CS, and SS from ring 3, are loaded again on return.
Nmi ==
  /\ Running
  /\ IF HandlerRuns /\ CanReturn(0, seg["cs"].sel, seg["ss"].sel)
     THEN /\ stack' = [a \in Stacks |-> IF a < FrameTop THEN Unknown ELSE stack[a]]
          /\ seg' = IF ring = 3 THEN Returned(0, seg["cs"].sel, seg["ss"].sel)
                    ELSE [seg EXCEPT !["cs"] = Loaded(@.sel, Entry(@.sel))]
          /\ UNCHANGED eip
     ELSE eip' = <<"reset">> /\ UNCHANGED <<stack, seg>>
  /\ UNCHANGED <<gdt, gdtr, ring, tr, tss, paging, program, esp, ebp, gpr, gates, shown,
                 copied, caller>>

TlbChange == (\E page \in Pages : Fill(page) \/ Evict(page)) /\ Running
             /\ UNCHANGED <<segmentation, registers>>

Next == Step \/ Nmi \/ TlbChange

Spec == Init /\ [][Next]_vars /\ WF_vars(Step)
-----------------------------------------------------------------------------
(***************************************************************************)
(* Properties.                                                             *)
(***************************************************************************)

\* Every variable holds a value of its type.
TypeOK ==
  /\ SegmentTypeOK /\ PagingTypeOK
  /\ program \in Programs
  /\ {esp, ebp, tss.esp} \subseteq Stacks /\ gpr[1] = "gpr"
  /\ \A a \in Stacks : stack[a][1] \in {"num", "sel", "eip", "eflags", "gpr", "junk"}

\* Whatever NMIs come between its instructions, a program raises no fault and
\* never leaves the processor without a handler it can enter, with two
\* exceptions: userland of tp3 ends in the #GP it is there to raise, in ring 3,
\* and tp4 may be lost once it has cleared the entry that maps its own code.
OnlyFaultsIntended ==
  /\ eip = <<"panic">> => program = "tp3" /\ ring = 3
  /\ eip = <<"reset">> => program = "tp4" /\ table[pgd][0] = Absent

\* What is printed and copied is what the program is there to show:
\* print_gdt_content prints every descriptor of the table and no other word, and
\* the copy to address 0 goes to the 32 bytes of its segment (tp1); the handlers
\* print the address after int3 (tp2) and the pointer in the caller's ESI (tp5);
\* the first entry of the page directory reads the same at both its addresses
\* (tp4).
ResultsAreTrue ==
  /\ copied \in {<<0, 0>>, <<6291456, 32>>}
  /\ CASE program = "tp1" -> shown[1] = "gdt" => shown[2] \in {0 .. 4, 0 .. 6}
       [] program = "tp2" -> shown[1] # "nothing" => shown = <<"eip", <<"tp2", 3>>>>
       [] program = "tp5" -> shown[1] # "nothing" => shown = <<"gpr", "0x3048e0">>
       [] program = "tp4" /\ eip = <<program, 12>> -> shown[2] = shown[3]
       [] OTHER -> TRUE

\* An int, and an NMI wherever it comes, leaves what it interrupted as it was:
\* its registers, its segments, and every word of its stack; except that ring 3
\* of tp3 is on the very stack that its events are handled on.
Resumed(c) ==
  /\ eip' = c.eip /\ esp' = c.esp /\ ebp' = c.ebp /\ gpr' = c.gpr /\ ring' = c.ring
  /\ \A r \in SegRegs : seg'[r] = c.seg[r]
  /\ \A a \in c.esp .. UserTop : stack'[a] = c.stack[a]

Undisturbed ==
  [][/\ Len(caller') < Len(caller) => Resumed(caller[1])
     /\ eip' = eip => \/ ring = 3 /\ program = "tp3"
                      \/ Resumed([eip |-> eip, esp |-> esp, ebp |-> ebp, gpr |-> gpr,
                                  ring |-> ring, seg |-> seg, stack |-> stack])]_vars

\* Every program comes to the end its tp.c has for it.
Completes ==
  <>(eip \in
       CASE program = "tp3" -> {<<"panic">>}
         [] program = "tp4" -> {<<"done">>, <<"reset">>}
         [] program = "tp5" -> {<<"userland", 5>>}
         [] OTHER -> {<<"done">>})
=============================================================================
