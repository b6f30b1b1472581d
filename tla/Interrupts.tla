----------------------------- MODULE Interrupts -----------------------------
(***************************************************************************)
(* The way through the kernel's own interrupt descriptor table: the stubs  *)
(* of kernel/core/idt.s, which make one frame out of what the processor    *)
(* pushes for each kind of event and tell the interrupt controllers, and   *)
(* intr_hdlr and excp_hdlr (intr.c, excp.c), which look at the frame.      *)
(* Below them runs some program, in ring 0 or 3, which only notices that   *)
(* its registers are the same afterwards.                                  *)
(*                                                                         *)
(* The stack holds words: what was pushed, and its value.  The seven       *)
(* registers that pusha pushes after EAX are one word.  Every gate is an   *)
(* interrupt gate: interrupts are off until the iret, but an NMI, or a     *)
(* fault of the handler, nests.  Before the program runs, pic_init has     *)
(* sent the controllers their control words (PicSetup).                    *)
(***************************************************************************)
EXTENDS PicSetup, Integers

CONSTANTS
  Faults,        \* the exceptions that code may raise
  Software,      \* the vectors of its int instructions
  Lines,         \* the lines that devices raise
  MaxEvents      \* bound

ASSUME InterruptsAssumption ==
  /\ Faults \subseteq 0 .. 19 \ {2}
  /\ Software \subseteq 20 .. 255     \* an int pushes no error code
  /\ Lines \subseteq 0 .. 15 /\ MaxEvents \in Nat

VARIABLES
  cpu,       \* eip, eax, the other registers, interrupt flag and ring
  stack,     \* the kernel's stack
  masked,    \* NMIs wait for an iret
  entered,   \* for each event not returned from, what it found (history)
  events     \* how many there have been

vars == <<irr, isr, chip, cpu, stack, masked, entered, events>>

NMI_EXCP == 2
GP_EXCP == 13
NR_EXCP == 32

\* The exceptions for which the processor pushes an error code.
WithCode == {8, 10, 11, 12, 13, 14, 17}
NoCode == -1

\* What the stubs and C code leave in the registers they use.
Scratch == 2

Word(name, value) == <<name, value>>
Top(k) == stack[Len(stack) - k]
Pop(k) == SubSeq(stack, 1, Len(stack) - k)

\* A program, in either ring, with interrupts on or off.
ProgramCpu == [eip : {<<"program">>}, eax : {Word("eax", 0)},
               gprs : {Word("gprs", 0)}, if : BOOLEAN, ring : {0, 3}]

\* start calls pic_init; lines may have been raised before.
Init ==
  /\ ChipInit /\ irr \in SUBSET Lines /\ isr = {}
  /\ cpu = [eip |-> <<"pic_init", 1>>, eax |-> Word("eax", 0),
            gprs |-> Word("gprs", 0), if |-> FALSE, ring |-> 0]
  /\ stack = << >> /\ masked = FALSE /\ entered = << >> /\ events = 0

Goto(label) == cpu' = [cpu EXCEPT !.eip = <<label>>]
-----------------------------------------------------------------------------
(***************************************************************************)
(* pic_init, and from it to the program: intr_init has built the IDT.      *)
(***************************************************************************)
SetupPic ==
  /\ cpu.eip[1] = "pic_init" /\ WriteWord(cpu.eip[2])
  /\ IF cpu.eip[2] < Len(Words)
     THEN cpu' = [cpu EXCEPT !.eip = <<"pic_init", @[2] + 1>>]
     ELSE cpu' \in ProgramCpu
  /\ UNCHANGED <<stack, masked, entered, events>>

(***************************************************************************)
(* The processor.                                                          *)
(***************************************************************************)
Enter(vector, code, lines) ==
  /\ stack' = stack
       \o (IF cpu.ring = 3 THEN <<Word("ss", 3), Word("esp", 3)>> ELSE << >>)
       \o <<Word("eflags", cpu.if), Word("cs", cpu.ring), Word("eip", cpu.eip)>>
       \o (IF vector \in WithCode THEN <<Word("err", code)>> ELSE << >>)
  /\ cpu' = [cpu EXCEPT !.eip = <<"idt_trampoline", vector>>, !.if = FALSE,
                        !.ring = 0]
  /\ entered' = Append(entered,
       [vector |-> vector, cpu |-> cpu, stack |-> stack, lines |-> lines,
        err |-> IF vector \in WithCode THEN code ELSE NoCode])
  /\ events < MaxEvents /\ events' = events + 1

\* The program, or intr_hdlr, faults.
Fault(vector) ==
  /\ cpu.eip \in {<<"program">>, <<"intr_hdlr">>}
  /\ Enter(vector, 0, {})
  /\ UNCHANGED <<irr, isr, chip, masked>>

\* int: the gates are those of ring 0, from ring 3 it is a fault.
SoftwareInt(vector) ==
  /\ cpu.eip = <<"program">>
  /\ IF cpu.ring = 0 THEN Enter(vector, 0, {})
                     ELSE Enter(GP_EXCP, 8 * vector + 2, {})
  /\ UNCHANGED <<irr, isr, chip, masked>>

Nmi ==
  /\ ~masked /\ cpu.eip[1] # "pic_init"
  /\ Enter(NMI_EXCP, 0, {})
  /\ masked' = TRUE
  /\ UNCHANGED <<irr, isr, chip>>

Irq(line) ==
  /\ cpu.if /\ Delivers(line) /\ line \in Offered
  /\ irr' = irr \ {line}
  /\ LET lines == {line} \cup (IF line \in Slave THEN {Cascade} ELSE {})
     IN  isr' = isr \cup Served(lines) /\ Enter(VectorOf(line), 0, lines)
  /\ UNCHANGED <<chip, masked>>

\* The line offered is no longer asserted when the processor acknowledges it:
\* its chip answers with its lowest line, which is not in service.
Spurious(line) ==
  /\ cpu.if /\ Delivers(line) /\ line \in Offered
  /\ irr' = irr \ {line}
  /\ IF line \in Master
     THEN isr' = isr /\ Enter(VectorOf(7), 0, {})
     ELSE isr' = isr \cup Served({Cascade}) /\ Enter(VectorOf(15), 0, {Cascade})
  /\ UNCHANGED <<chip, masked>>

Iret ==
  /\ cpu.eip = <<"iret">>
  /\ LET ring == Top(1)[2] IN
       /\ cpu' = [cpu EXCEPT !.eip = Top(0)[2], !.ring = ring, !.if = Top(2)[2]]
       /\ stack' = Pop(IF ring = 3 THEN 5 ELSE 3)
  /\ masked' = FALSE
  /\ entered' = SubSeq(entered, 1, Len(entered) - 1)
  /\ UNCHANGED <<irr, isr, chip, events>>

\* The program computes.
Program ==
  /\ cpu.eip = <<"program">>
  /\ cpu' = [cpu EXCEPT !.eax = Word("eax", 1 - @[2]),
                        !.gprs = Word("gprs", 1 - @[2])]
  /\ UNCHANGED <<irr, isr, chip, stack, masked, entered, events>>

\* A device raises its line.
Device(line) ==
  /\ events < MaxEvents
  /\ Raise(line)
  /\ UNCHANGED <<chip, cpu, stack, masked, entered, events>>
-----------------------------------------------------------------------------
(***************************************************************************)
(* idt.s.                                                                  *)
(***************************************************************************)

\* (faulty: the stub of alignment checks pushes -1 over their error code)
PaddedMore == 0 .. 255 \ ({8, 10, 11, 12, 13, 14} \cup 20 .. 31)

\* The vectors whose stub pushes -1 where there is no error code.
Padded == 0 .. 255 \ ({8, 10, 11, 12, 13, 14, 17} \cup 20 .. 31)

\* Where a stub jumps to.
Target(vector) ==
  CASE vector \in 32 .. 39 -> "ack_pic1"
    [] vector \in 40 .. 47 -> "ack_pic2"
    [] OTHER -> "idt_common"

\* The stub of a vector; those reserved by Intel are a lone iret.
Trampoline(vector) ==
  /\ cpu.eip = <<"idt_trampoline", vector>>
  /\ IF vector \in 20 .. 31
     THEN Goto("iret") /\ UNCHANGED stack
     ELSE /\ stack' = stack
               \o (IF vector \in Padded THEN <<Word("err", NoCode)>> ELSE << >>)
               \o <<Word("nr", vector)>>
          /\ Goto(Target(vector))
  /\ UNCHANGED <<irr, isr, chip, masked, entered, events>>

\* (faulty: the slave is not told)
AckPic2Not ==
  /\ cpu.eip = <<"ack_pic2">>
  /\ stack' = Append(stack, cpu.eax)
  /\ cpu' = [cpu EXCEPT !.eip = <<"eoi_pic1">>, !.eax = Word("eax", Scratch)]
  /\ UNCHANGED <<irr, isr, chip, masked, entered, events>>

AckPic2 ==
  /\ cpu.eip = <<"ack_pic2">>
  /\ stack' = Append(stack, cpu.eax)
  /\ cpu' = [cpu EXCEPT !.eip = <<"eoi_pic1">>, !.eax = Word("eax", Scratch)]
  /\ EoiSlave
  /\ UNCHANGED <<chip, masked, entered, events>>

\* (faulty: EAX is not saved)
AckPic1NoPush ==
  /\ cpu.eip = <<"ack_pic1">>
  /\ cpu' = [cpu EXCEPT !.eip = <<"eoi_pic1">>, !.eax = Word("eax", Scratch)]
  /\ UNCHANGED <<irr, isr, chip, stack, masked, entered, events>>

AckPic1 ==
  /\ cpu.eip = <<"ack_pic1">>
  /\ stack' = Append(stack, cpu.eax)
  /\ cpu' = [cpu EXCEPT !.eip = <<"eoi_pic1">>, !.eax = Word("eax", Scratch)]
  /\ UNCHANGED <<irr, isr, chip, masked, entered, events>>

EoiPic1 ==
  /\ cpu.eip = <<"eoi_pic1">>
  /\ EoiMaster
  /\ cpu' = [cpu EXCEPT !.eip = <<"idt_common">>, !.eax = Top(0)]
  /\ stack' = Pop(1)
  /\ UNCHANGED <<chip, masked, entered, events>>

\* pusha, and the call: C code keeps none of the registers it may use.
IdtCommon ==
  /\ cpu.eip = <<"idt_common">>
  /\ stack' = stack \o <<cpu.eax, cpu.gprs>>
  /\ cpu' = [cpu EXCEPT !.eip = <<"intr_hdlr">>, !.eax = Word("eax", Scratch),
                        !.gprs = Word("gprs", Scratch)]
  /\ UNCHANGED <<irr, isr, chip, masked, entered, events>>

\* (faulty: the registers are dropped, not popped)
ResumeNoPopa ==
  /\ cpu.eip = <<"resume_from_intr">>
  /\ Goto("iret")
  /\ stack' = Pop(4)
  /\ UNCHANGED <<irr, isr, chip, masked, entered, events>>

\* popa; add $8, %esp
Resume ==
  /\ cpu.eip = <<"resume_from_intr">>
  /\ cpu' = [cpu EXCEPT !.eip = <<"iret">>, !.gprs = Top(0), !.eax = Top(1)]
  /\ stack' = Pop(4)
  /\ UNCHANGED <<irr, isr, chip, masked, entered, events>>
-----------------------------------------------------------------------------
(***************************************************************************)
(* intr.c and excp.c.                                                      *)
(***************************************************************************)
Nr == Top(2)[2]

\* Every exception but the NMI ends in panic, which halts.
ExcpHdlr ==
  /\ cpu.eip = <<"excp_hdlr">>
  /\ Goto(IF Nr = NMI_EXCP THEN "resume_from_intr" ELSE "panic")
  /\ UNCHANGED <<irr, isr, chip, stack, masked, entered, events>>

\* An interrupt is reported and ignored.
IntrHdlr ==
  /\ cpu.eip = <<"intr_hdlr">>
  /\ Goto(IF Nr < NR_EXCP THEN "excp_hdlr" ELSE "resume_from_intr")
  /\ UNCHANGED <<irr, isr, chip, stack, masked, entered, events>>
-----------------------------------------------------------------------------
Kernel == \/ \E vector \in 0 .. 255 : Trampoline(vector)
          \/ AckPic2 \/ AckPic1 \/ EoiPic1 \/ IdtCommon \/ Resume
          \/ ExcpHdlr \/ IntrHdlr \/ Iret

Next == \/ SetupPic \/ Kernel \/ Program \/ Nmi
        \/ \E vector \in Faults : Fault(vector)
        \/ \E vector \in Software : SoftwareInt(vector)
        \/ \E line \in Lines : Device(line) \/ Irq(line) \/ Spurious(line)

Spec == Init /\ [][Next]_vars
-----------------------------------------------------------------------------
(***************************************************************************)
(* Properties.                                                             *)
(***************************************************************************)
Labels == {"program", "iret", "ack_pic1", "ack_pic2", "eoi_pic1", "idt_common",
           "resume_from_intr", "intr_hdlr", "excp_hdlr", "panic"}

\* Every variable holds a value of its type.
TypeOK ==
  /\ PicTypeOK /\ PicSetupTypeOK
  /\ cpu.eip \in {<<label>> : label \in Labels}
               \cup {<<"idt_trampoline", vector>> : vector \in 0 .. 255}
               \cup {<<"pic_init", k>> : k \in 1 .. Len(Words)}
  /\ cpu.eax \in {Word("eax", n) : n \in 0 .. Scratch}
  /\ cpu.gprs \in {Word("gprs", n) : n \in 0 .. Scratch}
  /\ cpu.if \in BOOLEAN /\ cpu.ring \in {0, 3}
  /\ masked \in BOOLEAN /\ events \in 0 .. MaxEvents

Last == entered[Len(entered)]

\* Whatever the event, intr_hdlr finds at its place in the frame its number,
\* its error code or -1, and the state of what it interrupted.
FrameUniform ==
  cpu.eip = <<"intr_hdlr">> =>
    /\ Top(0) = Last.cpu.gprs /\ Top(1) = Last.cpu.eax
    /\ Top(2) = Word("nr", Last.vector)
    /\ Top(3) = Word("err", Last.err)
    /\ Top(4) = Word("eip", Last.cpu.eip)
    /\ Top(5) = Word("cs", Last.cpu.ring)
    /\ Top(6) = Word("eflags", Last.cpu.if)

\* An event that is returned from changes nothing of what it interrupted: no
\* register, not the interrupt flag, not a word of the stack.
Transparent ==
  [][Len(entered') < Len(entered) => stack' = Last.stack /\ cpu' = Last.cpu]_vars

\* The label that each of the events in progress has reached.
Reached(k) == IF k = Len(entered) THEN cpu.eip ELSE entered[k + 1].cpu.eip

\* What an event's stub still has to end.
ToEnd(k) ==
  LET lines == entered[k].lines IN
  CASE Reached(k)[1] \in {"idt_trampoline", "ack_pic1", "ack_pic2"} -> lines
    [] Reached(k)[1] = "eoi_pic1" -> lines \cap Master
    [] OTHER -> {}

\* Each EOI ends the line it is meant for, on the chip it is meant for, a
\* spurious interrupt's none: the lines in service are those of the interrupts
\* whose stub has not got to its EOI.
EoiDiscipline == isr = UNION {ToEnd(k) : k \in DOMAIN entered}

\* Only a fault stops the kernel: no interrupt, spurious or not, no NMI, and no
\* int instruction of ring 0 above the exceptions.
OnlyFaultsPanic ==
  cpu.eip = <<"panic">> =>
    \/ Last.vector \in Faults
    \/ Last.vector = GP_EXCP /\ Last.cpu.ring = 3
=============================================================================
