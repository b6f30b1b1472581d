----------------------------- MODULE Scheduler -----------------------------
(***************************************************************************)
(* The preemptive kernel of tp_exam/tp.c on one x86 processor, with the    *)
(* interrupt controllers of Pic8259 and the two programs of UserTasks.     *)
(*                                                                         *)
(* The processor is one record: code segment, next instruction, stack in   *)
(* use, general registers and interrupt flag.  Kernel code advances from   *)
(* label to label, a label standing before the code it is named for.  An   *)
(* interrupt frame is a copy of that record: pushing it, saving it in a    *)
(* task, restoring it and IRET are copies between cpu, frame and tasks.    *)
(*                                                                         *)
(* Only two frames of a kernel stack can still be returned to, so only     *)
(* they are kept: "frame", of the interrupt being handled, and "start",    *)
(* the five dwords the handler pushed by hand to start a task.             *)
(***************************************************************************)
EXTENDS UserTasks

CONSTANTS
  Devices,    \* lines other than the timer that devices raise
  EarlyTick   \* may a tick come while the handler is starting a task?

ASSUME DeviceAssumption == Devices \subseteq (1..15) \ {2}

ASSUME EarlyTickAssumption == EarlyTick \in BOOLEAN

VARIABLES
  cpu,       \* the processor's registers
  frame,     \* the context on the stack of the interrupt being handled
  start,     \* the frame built at tp.c:177-183
  cr3,       \* the page directory in use
  dseg,      \* the selector in DS, ES, FS and GS
  esp0,      \* TSS.s0.esp: the stack an interrupt from ring 3 switches to
  idt,       \* the handlers of the clock and of int $0x80
  current,   \* current_task_idx
  tasks,     \* tasks[]
  irr, isr,  \* the interrupt controllers
  counter,   \* the uint32_t in the shared page
  out        \* the last value syscall_handler printed

processor == <<cpu, frame, start>>
system    == <<cr3, dseg, esp0, idt>>
pic       == <<irr, isr>>
memory    == <<counter, out>>
vars == <<processor, system, current, tasks, pic, memory>>

Pic == INSTANCE Pic8259
-----------------------------------------------------------------------------
(***************************************************************************)
(* Names of the objects set up by config().                                *)
(***************************************************************************)
NoTask == -1

Pgd(t)            == IF t = 0 THEN "pgd_task_1" ELSE "pgd_task_2"
Stack(t)          == IF t = 0 THEN "task1_stack" ELSE "task2_stack"
InterruptStack(t) == IF t = 0 THEN "int_stack_1" ELSE "int_stack_2"

KernelStacks == {"boot_stack", "int_stack_1", "int_stack_2"}
UserStacks   == {"task1_stack", "task2_stack"}

BootCode == {"config_segmentation", "config_pgds", "config_interrupt",
             "config_task", "config_run", "while_1"}
ClockCode == {"clk_save", "clk_switch", "clk_restore", "clk_return",
              "clk_start", "start_eoi", "start_iret"}
IsrCode == {"ack_pic1", "ack_pic2", "idt_common", "syscall_handler",
            "isr_return"}
KernelCode == BootCode \cup ClockCode \cup IsrCode \cup {"panic"}

\* A frame nobody has pushed, and a start frame nobody has built.
NoFrame == [cs |-> "none", eip |-> "none", esp |-> "none", gpr |-> Junk,
            ifl |-> FALSE]
NoStart == [eip |-> "none", esp |-> "none", ifl |-> FALSE, ss |-> FALSE]

\* An int_ctx_t: the interrupted registers, and "below", the dwords that lie
\* under a ring 0 frame, which is two dwords shorter than a ring 3 one.
NoContext == [regs |-> NoFrame, below |-> NoStart]

BlankTask == [function |-> "none", stack |-> "none",
              interrupt_stack |-> "none", pgd |-> "none",
              context |-> NoContext, context_saved |-> FALSE]

InRing3  == cpu.cs = "c3_sel"
NextTask == (current + 1) % 2

\* The kernel runs on from one label to the next; compiled C leaves nothing
\* a program can use in the general registers.
Goto(label)   == cpu' = [cpu EXCEPT !.eip = label]
CallTo(label) == cpu' = [cpu EXCEPT !.eip = label, !.gpr = Junk]

Init ==
  /\ cpu = [cs |-> "c0_sel", eip |-> "config_segmentation",
            esp |-> "boot_stack", gpr |-> Junk, ifl |-> FALSE]
  /\ frame = NoFrame /\ start = NoStart
  /\ cr3 = "none" /\ dseg = "grub_sel" /\ esp0 = "none"
  /\ idt = [clock |-> "ack_pic1", syscall |-> "idt_common"]
  /\ current = NoTask
  /\ tasks = [t \in Tasks |-> BlankTask]
  /\ Pic!PicInit
  /\ counter \in Word /\ out = NoOutput
-----------------------------------------------------------------------------
(***************************************************************************)
(* config(): the boot code, interrupts off.                                *)
(***************************************************************************)
ConfigSegmentation ==
  /\ cpu.eip = "config_segmentation"
  /\ Goto("config_pgds")
  /\ dseg' = "d0_sel"
  /\ esp0' = "boot_stack"
  /\ UNCHANGED <<frame, start, cr3, idt, current, tasks, pic, memory>>

ConfigPgds ==
  /\ cpu.eip = "config_pgds"
  /\ Goto("config_interrupt")
  /\ cr3' = "pgd"
  /\ UNCHANGED <<frame, start, dseg, esp0, idt, current, tasks, pic, memory>>

ConfigInterrupt ==
  /\ cpu.eip = "config_interrupt"
  /\ Goto("config_task")
  /\ idt' = [clock |-> "clk_save", syscall |-> "syscall_handler"]
  /\ UNCHANGED <<frame, start, cr3, dseg, esp0, current, tasks, pic, memory>>

ConfigTask ==
  /\ cpu.eip = "config_task"
  /\ Goto("config_run")
  /\ tasks' = [t \in Tasks |->
       [function |-> Function(t), stack |-> Stack(t),
        interrupt_stack |-> InterruptStack(t), pgd |-> Pgd(t),
        context |-> NoContext, context_saved |-> FALSE]]
  /\ UNCHANGED <<frame, start, system, current, pic, memory>>

\* The end of config(): the first task's address space, then sti.
ConfigRun ==
  /\ cpu.eip = "config_run"
  /\ cpu' = [cpu EXCEPT !.eip = "while_1", !.ifl = TRUE]
  /\ dseg' = "d3_sel"
  /\ esp0' = tasks[0].interrupt_stack
  /\ cr3' = tasks[0].pgd
  /\ UNCHANGED <<frame, start, idt, current, tasks, pic, memory>>

Config == \/ ConfigSegmentation \/ ConfigPgds \/ ConfigInterrupt
          \/ ConfigTask \/ ConfigRun
-----------------------------------------------------------------------------
(***************************************************************************)
(* Interrupts.  Every gate is an interrupt gate, so IF is cleared; from    *)
(* ring 3 the processor first switches to the stack of the TSS.            *)
(***************************************************************************)
EnterGate(label, interrupted) ==
  /\ frame' = interrupted
  /\ cpu' = [cs |-> "c0_sel", eip |-> label,
             esp |-> IF InRing3 THEN esp0 ELSE cpu.esp,
             gpr |-> cpu.gpr, ifl |-> FALSE]

\* idt[32 + i]: the clock's own handler, or the stub of idt.s for the chip.
Vector(i) ==
  IF i = Pic!Timer THEN idt.clock
  ELSE IF i \in Pic!Slave THEN "ack_pic2" ELSE "ack_pic1"

Interrupt(i) ==
  /\ cpu.ifl
  /\ Pic!Acknowledge(i)
  /\ EnterGate(Vector(i), cpu)
  /\ UNCHANGED <<start, system, current, tasks, memory>>

\* The stubs of idt.s for hardware lines: EOI, then intr_hdlr ignores them.
AckPic1 ==
  /\ cpu.eip = "ack_pic1"
  /\ CallTo("isr_return")
  /\ Pic!EoiMaster
  /\ UNCHANGED <<frame, start, system, current, tasks, memory>>

\* (faulty: the slave's line is ended on the master only)
AckPic2MasterOnly ==
  /\ cpu.eip = "ack_pic2"
  /\ CallTo("isr_return")
  /\ Pic!EoiMaster
  /\ UNCHANGED <<frame, start, system, current, tasks, memory>>

AckPic2 ==
  /\ cpu.eip = "ack_pic2"
  /\ CallTo("isr_return")
  /\ Pic!EoiBoth
  /\ UNCHANGED <<frame, start, system, current, tasks, memory>>

\* popa, (sti,) iret.  A ring 0 frame holds no stack pointer; a ring 3 one
\* abandons the kernel stack and all that is on it.
Return ==
  /\ cpu.eip \in {"isr_return", "clk_return"}
  /\ cpu' = IF frame.cs = "c3_sel" THEN frame
            ELSE [frame EXCEPT !.esp = cpu.esp]
  /\ frame' = NoFrame
  /\ start' = IF frame.cs = "c3_sel" THEN NoStart ELSE start
  /\ UNCHANGED <<system, current, tasks, pic, memory>>
-----------------------------------------------------------------------------
(***************************************************************************)
(* clock_interrupt_handler(ctx), ctx being the address of "frame".         *)
(***************************************************************************)

\* (faulty: the context goes to the task about to run)
ClockSaveInNext ==
  /\ cpu.eip = "clk_save"
  /\ CallTo("clk_switch")
  /\ tasks' =
       IF current = NoTask THEN tasks
       ELSE [tasks EXCEPT
               ![NextTask].context = [regs |-> frame, below |-> NoStart],
               ![NextTask].context_saved = TRUE]
  /\ UNCHANGED <<frame, start, system, current, pic, memory>>

\* (faulty: a context that is there already is kept)
ClockSaveOnce ==
  /\ cpu.eip = "clk_save"
  /\ CallTo("clk_switch")
  /\ tasks' =
       IF current = NoTask \/ tasks[current].context_saved THEN tasks
       ELSE [tasks EXCEPT
               ![current].context = [regs |-> frame, below |-> NoStart],
               ![current].context_saved = TRUE]
  /\ UNCHANGED <<frame, start, system, current, pic, memory>>

\* memcpy(&tasks[current].context, ctx): 60 bytes, from a ring 0 frame into
\* what lies under it.  Before the first task runs there is none to save.
ClockSave ==
  /\ cpu.eip = "clk_save"
  /\ CallTo("clk_switch")
  /\ tasks' =
       IF current = NoTask THEN tasks
       ELSE [tasks EXCEPT
               ![current].context =
                  [regs |-> frame,
                   below |-> IF frame.cs = "c0_sel" THEN start ELSE NoStart],
               ![current].context_saved = TRUE]
  /\ UNCHANGED <<frame, start, system, current, pic, memory>>

\* (faulty: the address space is not switched)
ClockSwitchKeepCr3 ==
  /\ cpu.eip = "clk_switch"
  /\ dseg' = "d3_sel"
  /\ esp0' = tasks[NextTask].interrupt_stack
  /\ current' = NextTask
  /\ CallTo(IF tasks[NextTask].context_saved
            THEN "clk_restore" ELSE "clk_start")
  /\ UNCHANGED <<frame, start, cr3, idt, tasks, pic, memory>>

\* Data segments, interrupt stack and address space of the next task.
ClockSwitch ==
  /\ cpu.eip = "clk_switch"
  /\ dseg' = "d3_sel"
  /\ esp0' = tasks[NextTask].interrupt_stack
  /\ cr3' = tasks[NextTask].pgd
  /\ current' = NextTask
  /\ CallTo(IF tasks[NextTask].context_saved
            THEN "clk_restore" ELSE "clk_start")
  /\ UNCHANGED <<frame, start, idt, tasks, pic, memory>>

\* (faulty: the general registers are left as the other task had them)
ClockRestoreFrameOnly ==
  /\ cpu.eip = "clk_restore"
  /\ CallTo("clk_return")
  /\ frame' = [tasks[current].context.regs EXCEPT !.gpr = frame.gpr]
  /\ start' = [tasks[current].context.below EXCEPT
                 !.ss = frame.cs = "c0_sel" /\ start.ss]
  /\ Pic!EoiMaster
  /\ UNCHANGED <<system, current, tasks, memory>>

\* memcpy(ctx, &tasks[current].context) over the interrupted frame, and EOI.
\* The four dwords under a ring 0 context come with it; the fifth, its SS,
\* is the one already there, if a start frame lay under the old frame.
ClockRestore ==
  /\ cpu.eip = "clk_restore"
  /\ CallTo("clk_return")
  /\ frame' = tasks[current].context.regs
  /\ start' = [tasks[current].context.below EXCEPT
                 !.ss = frame.cs = "c0_sel" /\ start.ss]
  /\ Pic!EoiMaster
  /\ UNCHANGED <<system, current, tasks, memory>>

\* (faulty: no sti before pushf)
ClockStartNoSti ==
  /\ cpu.eip = "clk_start"
  /\ cpu' = [cpu EXCEPT !.eip = "start_eoi"]
  /\ start' = [eip |-> tasks[current].function, esp |-> tasks[current].stack,
               ifl |-> cpu'.ifl, ss |-> TRUE]
  /\ frame' = NoFrame
  /\ UNCHANGED <<system, current, tasks, pic, memory>>

\* sti, then ss, esp, eflags, cs and eip pushed by hand.
ClockStart ==
  /\ cpu.eip = "clk_start"
  /\ cpu' = [cpu EXCEPT !.eip = "start_eoi", !.ifl = TRUE]
  /\ start' = [eip |-> tasks[current].function, esp |-> tasks[current].stack,
               ifl |-> cpu'.ifl, ss |-> TRUE]
  /\ frame' = NoFrame
  /\ UNCHANGED <<system, current, tasks, pic, memory>>

\* (faulty: no EOI on the path that starts a task)
StartNoEoi ==
  /\ cpu.eip = "start_eoi"
  /\ CallTo("start_iret")
  /\ UNCHANGED <<frame, start, system, current, tasks, pic, memory>>

StartEoi ==
  /\ cpu.eip = "start_eoi"
  /\ CallTo("start_iret")
  /\ Pic!EoiMaster
  /\ UNCHANGED <<frame, start, system, current, tasks, memory>>

\* sti; iret.  IF is set already, so the sti holds no interrupt off.  A stray
\* SS may happen to be a selector the processor accepts.
StartIret ==
  /\ cpu.eip = "start_iret"
  /\ cpu' = [cs |-> "c3_sel", eip |-> start.eip, esp |-> start.esp,
             gpr |-> cpu.gpr, ifl |-> start.ifl]
  /\ start' = NoStart
  /\ UNCHANGED <<frame, system, current, tasks, pic, memory>>

Clock == ClockSave \/ ClockSwitch \/ ClockRestore \/ ClockStart \/ StartEoi
-----------------------------------------------------------------------------
(***************************************************************************)
(* Ring 3.  An instruction executes if its page and the counter's are      *)
(* mapped, that is, under the page directory of its own task, and if the   *)
(* data segments are ring 3 ones.                                          *)
(***************************************************************************)
Accessible(label) == cr3 = Pgd(Owner(label)) /\ dseg = "d3_sel"

Fetch(label) == InRing3 /\ cpu.eip = label /\ Accessible(label)

Task1Zero ==
  /\ Fetch("task1_function")
  /\ cpu' = Zeroed(cpu)
  /\ counter' = 0
  /\ UNCHANGED <<frame, start, system, current, tasks, pic, out>>

Task1Load ==
  /\ Fetch("task1_load")
  /\ cpu' = Loaded(cpu, counter)
  /\ UNCHANGED <<frame, start, system, current, tasks, pic, memory>>

Task1Store ==
  /\ Fetch("task1_store")
  /\ cpu' = Stored(cpu)
  /\ counter' \in Incremented(cpu.gpr)
  /\ UNCHANGED <<frame, start, system, current, tasks, pic, out>>

Task2Point ==
  /\ Fetch("task2_function")
  /\ cpu' = Pointed(cpu)
  /\ UNCHANGED <<frame, start, system, current, tasks, pic, memory>>

\* int $0x80
Task2Int ==
  /\ Fetch("task2_int")
  /\ EnterGate(idt.syscall, Trapped(cpu))
  /\ UNCHANGED <<start, system, current, tasks, pic, memory>>

\* syscall_handler(ctx): prints *ctx->gpr.eax through the task's own mapping.
SyscallHandler ==
  /\ cpu.eip = "syscall_handler"
  /\ CallTo("isr_return")
  /\ out' \in IF cr3 = Pgd(1) /\ frame.gpr = CounterPtr
              THEN {counter} ELSE Word
  /\ UNCHANGED <<frame, start, system, current, tasks, pic, counter>>

UserStep(t) ==
  \/ t = 0 /\ (Task1Zero \/ Task1Load \/ Task1Store)
  \/ t = 1 /\ (Task2Point \/ Task2Int)

\* An exception: excp_hdlr reports it and panic() halts with IF clear.
Faulting ==
  \/ InRing3 /\ ~Accessible(cpu.eip)
  \/ cpu.eip = "start_iret" /\ ~start.ss

Exception ==
  /\ Faulting
  /\ cpu' = [cs |-> "c0_sel", eip |-> "panic", gpr |-> Junk, ifl |-> FALSE,
             esp |-> IF InRing3 THEN esp0 ELSE cpu.esp]
  /\ frame' = NoFrame /\ start' = NoStart
  /\ UNCHANGED <<system, current, tasks, pic, memory>>
-----------------------------------------------------------------------------
(***************************************************************************)
(* The devices.  The interval timer is free running and its period is far  *)
(* longer than the handler.  A handler that starts a task returns through  *)
(* code that runs with IF set; EarlyTick says whether a tick may come      *)
(* between the start of such a handler and the first instruction of the    *)
(* task.                                                                   *)
(***************************************************************************)
InHandler == cpu.eip \in ClockCode \/ frame.eip = "start_iret"

\* The task the clock handler is switching to.
Target ==
  IF cpu.eip \in {"clk_save", "clk_switch"} THEN NextTask ELSE current

Starting == InHandler /\ ~tasks[Target].context_saved

Tick ==
  /\ EarlyTick \/ ~Starting
  /\ Pic!Raise(Pic!Timer)
  /\ UNCHANGED <<processor, system, current, tasks, memory>>

DeviceRaise(i) ==
  /\ Pic!Raise(i)
  /\ UNCHANGED <<processor, system, current, tasks, memory>>

Kernel == \/ Config \/ AckPic1 \/ AckPic2 \/ Return
          \/ Clock \/ StartIret \/ SyscallHandler

Next ==
  \/ Kernel
  \/ \E t \in Tasks : UserStep(t)
  \/ Exception
  \/ \E i \in Devices \cup {Pic!Timer} : Interrupt(i)
  \/ Tick
  \/ \E i \in Devices : DeviceRaise(i)

Spec == Init /\ [][Next]_vars

(***************************************************************************)
(* The processor never stops in kernel code (it does not halt there), it   *)
(* takes an interrupt it is offered again and again, and between two ticks *)
(* it has time for instructions of the running task.                       *)
(***************************************************************************)
Fairness ==
  /\ WF_vars(Kernel)
  /\ SF_vars(StartIret)
  /\ SF_vars(Interrupt(Pic!Timer))
  /\ \A t \in Tasks : SF_vars(UserStep(t))
  /\ WF_vars(Tick)

FairSpec == Spec /\ Fairness
-----------------------------------------------------------------------------
(***************************************************************************)
(* Properties.                                                             *)
(***************************************************************************)
DataSelectors == {"grub_sel", "d0_sel", "d3_sel"}
PageDirectories == {"none", "pgd", "pgd_task_1", "pgd_task_2"}
Labels == {"none"} \cup KernelCode \cup UserCode
Stacks == {"none"} \cup KernelStacks \cup UserStacks

Registers == [cs : {"none", "c0_sel", "c3_sel"}, eip : Labels, esp : Stacks,
              gpr : Gpr, ifl : BOOLEAN]
StartFrames == [eip : Labels, esp : Stacks, ifl : BOOLEAN, ss : BOOLEAN]
Contexts == [regs : Registers, below : StartFrames]
TaskRecords == [function : Labels, stack : Stacks, interrupt_stack : Stacks,
                pgd : PageDirectories, context : Contexts,
                context_saved : BOOLEAN]

\* Every variable holds a value of its type.
TypeOK ==
  /\ cpu \in Registers /\ frame \in Registers
  /\ start \in StartFrames
  /\ cr3 \in PageDirectories
  /\ dseg \in DataSelectors
  /\ esp0 \in Stacks
  /\ idt \in [clock : Labels, syscall : Labels]
  /\ current \in Tasks \cup {NoTask}
  /\ tasks \in [Tasks -> TaskRecords]
  /\ Pic!PicTypeOK
  /\ counter \in Word
  /\ out \in Word \cup {NoOutput}

\* Ring 3 code is code of the current task, on its own stack, in its own
\* address space, with the TSS naming its own interrupt stack, ring 3 data
\* segments, and interrupts on, so that it can be preempted: the processor
\* state clock_interrupt_handler spreads over five assignments, a memcpy and
\* two ways of returning agrees whichever way the task was reached.
Ring3Coherent ==
  InRing3 =>
    /\ current \in Tasks
    /\ cpu.eip \in Code(current) /\ cpu.esp = Stack(current)
    /\ cpu.ifl
    /\ cr3 = Pgd(current) /\ dseg = "d3_sel"
    /\ esp0 = InterruptStack(current)

\* A saved context is one a task had in ring 3, on its own code and stack:
\* what the handler relies on when it copies it over whatever frame it finds,
\* and what tp.c:154 says ("if we come from kernel we dont save ctx").
SavedContextIsUser ==
  \A t \in Tasks : tasks[t].context_saved =>
    LET regs == tasks[t].context.regs IN
      /\ regs.cs = "c3_sel" /\ regs.ifl
      /\ regs.eip \in Code(t) /\ regs.esp = Stack(t)

\* Even a context saved in ring 0 stands where its own task is about to be
\* started, and carries that task's start frame.
SavedContextLeadsToOwner ==
  \A t \in Tasks : tasks[t].context_saved =>
    LET context == tasks[t].context IN
      \/ context.regs.cs = "c3_sel" /\ context.regs.eip \in Code(t)
      \/ /\ context.regs.eip = "start_iret"
         /\ context.below.eip = Function(t)
         /\ context.below.esp = Stack(t)

\* The lines in service are the one whose handler is before its EOI, with the
\* cascade for a slave line, and no other: no handler ends another's line, or
\* leaves one in service that would block the lines below it for ever.
InServiceIsHandled ==
  IF cpu.eip = "ack_pic1" THEN \E i \in Pic!Master : isr = {i}
  ELSE IF cpu.eip = "ack_pic2"
       THEN \E i \in Pic!Slave : isr = {i, Pic!Cascade}
  ELSE isr = IF cpu.eip \in {"clk_save", "clk_switch", "clk_restore",
                             "clk_start", "start_eoi"}
             THEN {Pic!Timer} ELSE {}

\* The kernel never halts on an exception.
NoPanic == cpu.eip # "panic"

\* Task 1's read and write of the counter are two instructions a preemption
\* can separate, by any number of ticks; still the counter only ever moves to
\* its successor, after the one store of zero.
CounterCounts ==
  [][\/ counter' = (counter + 1) % W
     \/ counter' = 0 /\ cpu.eip = "task1_function"]_counter

(***************************************************************************)
(* The refinement: where task t's registers are.  They are in the          *)
(* processor while it runs, in the frame of the interrupt that stopped it  *)
(* until another frame replaces that, then in tasks[t], and are those of   *)
(* its first instruction while it has none there; int $0x80 counts as      *)
(* executed when its handler prints.                                       *)
(***************************************************************************)
Holds(r, t) == r.cs = "c3_sel" /\ r.eip \in Code(t)

UserRegisters(r) == [eip |-> r.eip, gpr |-> r.gpr]

VirtualRegisters(t) ==
  IF Holds(cpu, t) THEN UserRegisters(cpu)
  ELSE IF Holds(frame, t)
       THEN IF cpu.eip = "syscall_handler"
            THEN [eip |-> "task2_int", gpr |-> frame.gpr]
            ELSE UserRegisters(frame)
  ELSE IF Holds(tasks[t].context.regs, t)
       THEN UserRegisters(tasks[t].context.regs)
  ELSE [eip |-> Function(t), gpr |-> Junk]

Virtual == INSTANCE VirtualCpus
             WITH regs <- [t \in Tasks |-> VirtualRegisters(t)]

\* Each task behaves as if it had a processor of its own ...
ImplementsVirtualCpus == Virtual!VirtualSafety

\* ... on which it never stops.
TasksProgress == Virtual!VirtualSpec
=============================================================================
