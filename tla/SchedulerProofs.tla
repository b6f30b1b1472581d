--------------------------- MODULE SchedulerProofs ---------------------------
(***************************************************************************)
(* Theorems about Scheduler, for every word size, every set of devices and *)
(* either value of EarlyTick.                                              *)
(***************************************************************************)
EXTENDS Scheduler, TLAPS

-----------------------------------------------------------------------------
(***************************************************************************)
(* The inductive invariant, in named parts.                                *)
(***************************************************************************)
Unconfigured == {"config_segmentation", "config_pgds", "config_interrupt",
                 "config_task"}
Handlers == {"clk_save", "clk_switch", "clk_restore", "clk_start",
             "clk_return", "ack_pic1", "ack_pic2", "syscall_handler",
             "isr_return"}
IfSet == {"while_1", "start_eoi", "start_iret"}

\* Registers r are task t's, between two of its instructions.
UserRegs(r, t) ==
  /\ Holds(r, t)
  /\ r.esp = Stack(t)
  /\ r.ifl
  /\ r.eip = "task2_int" => r.gpr = CounterPtr

\* The processor: ring 3 code is the current task's, ring 0 code has IF set
\* in the boot loop and while a task is being started.
CpuInv ==
  IF InRing3 THEN current \in Tasks /\ UserRegs(cpu, current)
  ELSE /\ cpu.cs = "c0_sel" /\ cpu.eip \in KernelCode
       /\ cpu.ifl <=> cpu.eip \in IfSet

\* No task is current until the first tick is handled.
CurrentInv ==
  current = NoTask <=>
    \/ cpu.eip \in BootCode
    \/ frame.eip = "while_1" /\ cpu.eip # "clk_start"

\* The handler's frame: of the boot loop, of a start, or of a task, which is
\* the current one except while the handler stands between the two tasks.
FrameInv ==
  IF cpu.eip \notin Handlers THEN frame = NoFrame
  ELSE \/ /\ frame.cs = "c0_sel" /\ frame.eip = "while_1" /\ frame.ifl
          /\ cpu.eip \notin {"clk_restore", "clk_return", "syscall_handler"}
       \/ /\ frame.cs = "c0_sel" /\ frame.eip = "start_iret" /\ frame.ifl
          /\ cpu.eip # "syscall_handler"
       \/ \E t \in Tasks :
            /\ UserRegs(frame, t)
            /\ t = current <=> cpu.eip \notin {"clk_restore", "clk_start"}
            /\ cpu.eip = "syscall_handler" =>
                 frame.eip = "task2_function" /\ frame.gpr = CounterPtr

\* The start frame is the current task's whenever it can be returned to.
StartInv ==
  /\ \/ cpu.eip \in {"start_eoi", "start_iret"}
     \/ frame.eip = "start_iret" /\ cpu.eip \notin {"clk_restore", "clk_start"}
     => /\ start.eip = Function(current) /\ start.esp = Stack(current)
        /\ start.ifl
  /\ cpu.eip = "start_eoi" => start.ss

\* Segments, address space, interrupt stack and gates, once config() is done.
SpaceInv ==
  /\ cpu.eip \in BootCode \ {"while_1"} \/
       LET t == IF current = NoTask THEN 0 ELSE current IN
         dseg = "d3_sel" /\ cr3 = Pgd(t) /\ esp0 = InterruptStack(t)
  /\ cpu.eip \in Unconfigured \ {"config_task"} \/
       idt = [clock |-> "clk_save", syscall |-> "syscall_handler"]

ContextInv(t) ==
  LET context == tasks[t].context IN
    IF tasks[t].context_saved
    THEN /\ current # NoTask
         /\ \/ UserRegs(context.regs, t)
            \/ /\ context.regs.cs = "c0_sel"
               /\ context.regs.eip = "start_iret"
               /\ context.regs.ifl
               /\ context.below.eip = Function(t)
               /\ context.below.esp = Stack(t)
               /\ context.below.ifl
    ELSE context = NoContext

ContextsInv == \A t \in Tasks : ContextInv(t)

\* The handler restores a task that has a context and starts one that has
\* none.
ChoiceInv ==
  /\ cpu.eip = "clk_restore" => tasks[current].context_saved
  /\ cpu.eip = "clk_start" => ~tasks[current].context_saved

\* What config_task wrote stays.
ConfigInv ==
  cpu.eip \in Unconfigured \/
    \A t \in Tasks :
      /\ tasks[t].function = Function(t) /\ tasks[t].stack = Stack(t)
      /\ tasks[t].interrupt_stack = InterruptStack(t)
      /\ tasks[t].pgd = Pgd(t)

IInv ==
  /\ TypeOK
  /\ CpuInv /\ CurrentInv /\ FrameInv /\ StartInv /\ SpaceInv
  /\ ContextsInv /\ ChoiceInv /\ ConfigInv
  /\ InServiceIsHandled

-----------------------------------------------------------------------------
(***************************************************************************)
(* Facts about names and types that most steps need.                       *)
(***************************************************************************)
\* The prover is asked once, here, what a label or a stack is.
LEMMA LabelSets ==
  /\ \A t \in Tasks : Function(t) \in Labels /\ Code(t) \subseteq Labels
  /\ KernelCode \subseteq Labels
  /\ UserCode \subseteq Labels
  /\ {"none", "config_segmentation", "config_pgds", "config_interrupt",
      "config_task", "config_run", "while_1", "clk_save", "clk_switch", "clk_restore", "clk_return",
      "clk_start", "start_eoi", "start_iret", "ack_pic1", "ack_pic2",
      "idt_common", "syscall_handler", "isr_return", "panic",
      "task1_load", "task1_store", "task2_function", "task2_int"}
       \subseteq Labels
BY DEF Tasks, Function, Code, Labels, KernelCode, UserCode, Task1Code,
       Task2Code, BootCode, ClockCode, IsrCode

\* The stacks config_task gives the tasks are stacks of the model.
LEMMA StackSets ==
  /\ \A t \in Tasks : Stack(t) \in Stacks /\ InterruptStack(t) \in Stacks
  /\ "none" \in Stacks /\ "boot_stack" \in Stacks
BY DEF Tasks, Stack, InterruptStack, Stacks, KernelStacks, UserStacks

\* The values that stand for nothing pushed or saved are of their types.
LEMMA NoneTypes ==
  NoFrame \in Registers /\ NoStart \in StartFrames /\ NoContext \in Contexts
BY LabelSets, StackSets
   DEF NoFrame, NoStart, NoContext, Registers, StartFrames, Contexts, Gpr

-----------------------------------------------------------------------------
(***************************************************************************)
(* The interrupt controllers.                                              *)
(***************************************************************************)

\* Ending the only line a chip has in service.
LEMMA EndedOne ==
  ASSUME NEW inService, NEW chip, NEW i \in 0..15, inService \cap chip = {i}
  PROVE  Pic!Ended(inService, chip) = inService \ {i}
<1>1. Pic!Highest({i}) = {i}
  BY DEF Pic!Highest
<1> QED
  BY <1>1 DEF Pic!Ended

\* An EOI to the master ends the only line in service there.
LEMMA EoiEndsMasterLine ==
  ASSUME NEW i \in Pic!Master, isr = {i}, Pic!EoiMaster
  PROVE  isr' = {}
<1>1. i \in 0..15
  BY DEF Pic!Master
<1>2. isr \cap Pic!Master = {i}
  OBVIOUS
<1>3. isr' = isr \ {i}
  BY <1>1, <1>2, EndedOne DEF Pic!EoiMaster
<1> QED
  BY <1>3

\* ack_pic2's two EOIs end a slave line and the cascade.
LEMMA EoiEndsSlaveLine ==
  ASSUME NEW i \in Pic!Slave, isr = {i, Pic!Cascade}, Pic!EoiBoth
  PROVE  isr' = {}
<1>1. /\ i \in 0..15 /\ i # Pic!Cascade
      /\ Pic!Cascade \notin Pic!Slave
  BY DEF Pic!Slave, Pic!Cascade
<1>2. Pic!Ended(isr, Pic!Slave) = {Pic!Cascade}
  <2>1. isr \cap Pic!Slave = {i}
    BY <1>1
  <2>2. Pic!Ended(isr, Pic!Slave) = isr \ {i}
    BY <1>1, <2>1, EndedOne
  <2> QED
    BY <1>1, <2>2
<1>3. Pic!Ended({Pic!Cascade}, Pic!Master) = {}
  <2>1. Pic!Cascade \in 0..15 /\ {Pic!Cascade} \cap Pic!Master = {Pic!Cascade}
    BY DEF Pic!Master, Pic!Cascade
  <2> QED
    BY <2>1, EndedOne
<1> QED
  BY <1>2, <1>3 DEF Pic!EoiBoth

\* While the timer is in service nothing is offered: the EOI is what opens
\* the window in which the code that starts a task can be interrupted.
LEMMA TimerMasksAll ==
  ASSUME isr = {Pic!Timer}, irr \subseteq 0..15
  PROVE  Pic!Offered = {}
<1>1. Pic!MasterOffer = {}
  BY DEF Pic!MasterOffer, Pic!MasterRequests, Pic!Unblocked, Pic!Highest,
         Pic!Master, Pic!Timer, Pic!Cascade
<1> QED
  BY <1>1 DEF Pic!Offered

\* A line that is offered is latched.
LEMMA OfferedIsLatched ==
  ASSUME NEW i \in Pic!Offered
  PROVE  i \in irr \/ i = Pic!Cascade
BY DEF Pic!Offered, Pic!MasterOffer, Pic!MasterRequests, Pic!SlaveOffer,
       Pic!Unblocked, Pic!Highest

\* Interrupts are on in three places only: in while(1), between the sti of a
\* start and its iret, and in ring 3.
LEMMA InterruptPoint ==
  ASSUME IInv, NEW i \in Devices \cup {Pic!Timer}, Interrupt(i)
  PROVE  /\ isr = {}
         /\ frame = NoFrame
         /\ \/ InRing3 /\ current \in Tasks /\ UserRegs(cpu, current)
            \/ /\ cpu.cs = "c0_sel" /\ cpu.ifl
               /\ cpu.eip \in {"while_1", "start_iret"}
<1>1. cpu.eip # "start_eoi"
  BY TimerMasksAll DEF IInv, InServiceIsHandled, TypeOK, Pic!PicTypeOK,
     Interrupt, Pic!Acknowledge
<1>2. cpu.eip \in IfSet \cup UserCode
  BY DEF IInv, CpuInv, Interrupt, UserRegs, Holds, Code, UserCode, Tasks,
         InRing3
<1>3. cpu.eip \notin Handlers
  BY <1>2 DEF IfSet, UserCode, Task1Code, Task2Code, Handlers
<1>4. isr = {}
  BY <1>1, <1>2 DEF IInv, InServiceIsHandled, IfSet, UserCode, Task1Code,
     Task2Code
<1> QED
  BY <1>1, <1>3, <1>4 DEF IInv, CpuInv, FrameInv, IfSet, Interrupt, InRing3

\* Only the return of a start can fault: ring 3 code is always mapped.
LEMMA ExceptionPoint ==
  ASSUME IInv, Exception
  PROVE  cpu.eip = "start_iret" /\ ~start.ss /\ current \in Tasks
<1>1. ~(InRing3 /\ ~Accessible(cpu.eip))
  BY DEF IInv, CpuInv, SpaceInv, Accessible, UserRegs, Holds, Code, Owner,
         Tasks, NoTask, BootCode, Task1Code, Task2Code, InRing3
<1>2. cpu.eip = "start_iret" /\ ~start.ss
  BY <1>1 DEF Exception, Faulting
<1>3. current # NoTask
  BY <1>2 DEF IInv, CurrentInv, FrameInv, BootCode, Handlers, NoFrame
<1> QED
  BY <1>2, <1>3 DEF IInv, TypeOK

-----------------------------------------------------------------------------
(***************************************************************************)
(* One lemma per part of the invariant: every step preserves it.           *)
(***************************************************************************)
\* Every step keeps the types.
LEMMA TypeStep == ASSUME IInv, Next PROVE TypeOK'
<1> USE LabelSets, StackSets, NoneTypes, WordAssumption, DeviceAssumption
    DEF IInv, TypeOK, Pic!PicTypeOK
<1>1. ASSUME ConfigSegmentation PROVE TypeOK'
  <2>1. cpu' \in Registers
    BY <1>1 DEF ConfigSegmentation, Goto, Registers
  <2>2. /\ current' \in Tasks \cup {NoTask}
        /\ cr3' \in PageDirectories /\ dseg' \in DataSelectors
        /\ esp0' \in Stacks
    BY <1>1 DEF ConfigSegmentation, Goto, DataSelectors
  <2> QED
    BY <1>1, <2>1, <2>2 DEF ConfigSegmentation, Goto, processor, system,
       pic, memory
<1>2. ASSUME ConfigPgds PROVE TypeOK'
  <2>1. cpu' \in Registers
    BY <1>2 DEF ConfigPgds, Goto, Registers
  <2>2. /\ current' \in Tasks \cup {NoTask}
        /\ cr3' \in PageDirectories /\ dseg' \in DataSelectors
        /\ esp0' \in Stacks
    BY <1>2 DEF ConfigPgds, Goto, PageDirectories
  <2> QED
    BY <1>2, <2>1, <2>2 DEF ConfigPgds, Goto, processor, system, pic, memory
<1>3. ASSUME ConfigInterrupt PROVE TypeOK'
  <2>1. cpu' \in Registers
    BY <1>3 DEF ConfigInterrupt, Goto, Registers
  <2>2. /\ current' \in Tasks \cup {NoTask}
        /\ cr3' \in PageDirectories /\ dseg' \in DataSelectors
        /\ esp0' \in Stacks
    BY <1>3 DEF ConfigInterrupt, Goto
  <2> QED
    BY <1>3, <2>1, <2>2 DEF ConfigInterrupt, Goto, processor, system, pic,
       memory
<1>4. ASSUME ConfigTask PROVE TypeOK'
  <2>1. cpu' \in Registers
    BY <1>4 DEF ConfigTask, Goto, Registers
  <2>2. tasks' \in [Tasks -> TaskRecords]
    BY <1>4 DEF ConfigTask, Goto, TaskRecords, PageDirectories, Pgd
  <2> QED
    BY <1>4, <2>1, <2>2 DEF ConfigTask, Goto, processor, system, pic, memory
<1>5. ASSUME ConfigRun PROVE TypeOK'
  <2>1. cpu' \in Registers
    BY <1>5 DEF ConfigRun, Registers
  <2>2. /\ current' \in Tasks \cup {NoTask}
        /\ cr3' \in PageDirectories /\ dseg' \in DataSelectors
        /\ esp0' \in Stacks
    BY <1>5 DEF ConfigRun, DataSelectors, TaskRecords, Tasks
  <2> QED
    BY <1>5, <2>1, <2>2 DEF ConfigRun, processor, system, pic, memory
<1>6. ASSUME AckPic1 PROVE TypeOK'
  <2>1. cpu' \in Registers
    BY <1>6 DEF AckPic1, CallTo, Registers, Gpr
  <2>2. Pic!PicTypeOK'
    BY <1>6 DEF AckPic1, CallTo, Pic!EoiMaster, Pic!Ended
  <2> QED
    BY <1>6, <2>1, <2>2 DEF AckPic1, CallTo, processor, system, pic, memory
<1>7. ASSUME AckPic2 PROVE TypeOK'
  <2>1. cpu' \in Registers
    BY <1>7 DEF AckPic2, CallTo, Registers, Gpr
  <2>2. Pic!PicTypeOK'
    BY <1>7 DEF AckPic2, CallTo, Pic!EoiBoth, Pic!Ended
  <2> QED
    BY <1>7, <2>1, <2>2 DEF AckPic2, CallTo, processor, system, pic, memory
<1>8. ASSUME Return PROVE TypeOK'
  <2>1. cpu' \in Registers
    BY <1>8 DEF Return, Registers
  <2> QED
    BY <1>8, <2>1 DEF Return, processor, system, pic, memory
<1>9. ASSUME ClockSave PROVE TypeOK'
  <2>1. cpu' \in Registers
    BY <1>9 DEF ClockSave, CallTo, Registers, Gpr
  <2>2. tasks' \in [Tasks -> TaskRecords]
    <3>1. CASE current = NoTask
      BY <1>9, <3>1 DEF ClockSave
    <3>2. CASE current # NoTask
      <4> DEFINE context == [regs |-> frame,
                             below |-> IF frame.cs = "c0_sel"
                                       THEN start ELSE NoStart]
      <4>1. context \in Contexts
        BY DEF Contexts
      <4>2. tasks' = [tasks EXCEPT ![current] =
                        [@ EXCEPT !.context = context, !.context_saved = TRUE]]
        BY <1>9, <3>2 DEF ClockSave
      <4>3. [tasks[current] EXCEPT !.context = context, !.context_saved = TRUE]
              \in TaskRecords
        BY <3>2, <4>1 DEF TaskRecords
      <4> QED
        BY <4>2, <4>3
    <3> QED
      BY <3>1, <3>2
  <2> QED
    BY <1>9, <2>1, <2>2 DEF ClockSave, system, pic, memory
<1>10. ASSUME ClockSwitch PROVE TypeOK'
  <2>1. cpu' \in Registers
    BY <1>10 DEF ClockSwitch, CallTo, NextTask, Registers, Gpr
  <2>2. /\ current' \in Tasks \cup {NoTask}
        /\ cr3' \in PageDirectories /\ dseg' \in DataSelectors
        /\ esp0' \in Stacks
    BY <1>10 DEF ClockSwitch, CallTo, NextTask, DataSelectors, TaskRecords,
       Tasks, NoTask
  <2> QED
    BY <1>10, <2>1, <2>2 DEF ClockSwitch, CallTo, NextTask, processor,
       system, pic, memory
<1>11. ASSUME ClockRestore PROVE TypeOK'
  <2>1. cpu' \in Registers
    BY <1>11 DEF ClockRestore, CallTo, Registers, Gpr
  <2>2. tasks[current].context \in Contexts
    <3>1. current \in Tasks
      BY <1>11 DEF ClockRestore, CurrentInv, FrameInv, BootCode, Handlers,
         UserRegs, Holds, Code, Task1Code, Task2Code
    <3> QED
      BY <3>1 DEF TaskRecords
  <2>3. frame' \in Registers
    BY <1>11, <2>2 DEF ClockRestore, Contexts
  <2>4. start' \in StartFrames
    BY <1>11, <2>2 DEF ClockRestore, Contexts, StartFrames
  <2>5. Pic!PicTypeOK'
    BY <1>11 DEF ClockRestore, Pic!EoiMaster, Pic!Ended
  <2> QED
    BY <1>11, <2>1, <2>3, <2>4, <2>5 DEF ClockRestore, system, memory
<1>12. ASSUME ClockStart PROVE TypeOK'
  <2>1. cpu' \in Registers
    BY <1>12 DEF ClockStart, Registers
  <2>2. start' \in StartFrames
    BY <1>12 DEF ClockStart, StartFrames, TaskRecords, CurrentInv, FrameInv,
       BootCode
  <2> QED
    BY <1>12, <2>1, <2>2 DEF ClockStart, processor, system, pic, memory
<1>13. ASSUME StartEoi PROVE TypeOK'
  <2>1. cpu' \in Registers
    BY <1>13 DEF StartEoi, CallTo, Registers, Gpr
  <2>2. Pic!PicTypeOK'
    BY <1>13 DEF StartEoi, CallTo, Pic!EoiMaster, Pic!Ended
  <2> QED
    BY <1>13, <2>1, <2>2 DEF StartEoi, CallTo, processor, system, pic,
       memory
<1>14. ASSUME StartIret PROVE TypeOK'
  <2>1. cpu' \in Registers
    BY <1>14 DEF StartIret, Registers, StartFrames, Gpr
  <2> QED
    BY <1>14, <2>1 DEF StartIret, processor, system, pic, memory
<1>15. ASSUME SyscallHandler PROVE TypeOK'
  <2>1. cpu' \in Registers
    BY <1>15 DEF SyscallHandler, CallTo, Registers, Gpr
  <2>2. counter' \in Word /\ out' \in Word \cup {NoOutput}
    BY <1>15 DEF SyscallHandler, CallTo, Word, Incremented
  <2> QED
    BY <1>15, <2>1, <2>2 DEF SyscallHandler, CallTo, processor, system, pic,
       memory
<1>16. ASSUME Task1Zero PROVE TypeOK'
  <2>1. cpu' \in Registers
    BY <1>16 DEF Task1Zero, Fetch, Zeroed, Registers
  <2>2. counter' \in Word /\ out' \in Word \cup {NoOutput}
    BY <1>16 DEF Task1Zero, Fetch, Zeroed, Word, Incremented
  <2> QED
    BY <1>16, <2>1, <2>2 DEF Task1Zero, Fetch, Zeroed, processor, system,
       pic, memory
<1>17. ASSUME Task1Load PROVE TypeOK'
  <2>1. cpu' \in Registers
    BY <1>17 DEF Task1Load, Fetch, Loaded, Registers, Gpr
  <2> QED
    BY <1>17, <2>1 DEF Task1Load, Fetch, Loaded, processor, system, pic,
       memory
<1>18. ASSUME Task1Store PROVE TypeOK'
  <2>1. cpu' \in Registers
    BY <1>18 DEF Task1Store, Fetch, Stored, Registers
  <2>2. counter' \in Word /\ out' \in Word \cup {NoOutput}
    BY <1>18 DEF Task1Store, Fetch, Stored, Word, Incremented
  <2> QED
    BY <1>18, <2>1, <2>2 DEF Task1Store, Fetch, Stored, processor, system,
       pic, memory
<1>19. ASSUME Task2Point PROVE TypeOK'
  <2>1. cpu' \in Registers
    BY <1>19 DEF Task2Point, Fetch, Pointed, Registers, Gpr
  <2> QED
    BY <1>19, <2>1 DEF Task2Point, Fetch, Pointed, processor, system, pic,
       memory
<1>20. ASSUME Task2Int PROVE TypeOK'
  <2>1. cpu' \in Registers
    BY <1>20 DEF Task2Int, Fetch, EnterGate, Trapped, Registers
  <2>2. frame' \in Registers
    BY <1>20 DEF Task2Int, Fetch, EnterGate, Trapped, Registers
  <2> QED
    BY <1>20, <2>1, <2>2 DEF Task2Int, Fetch, EnterGate, Trapped, processor,
       system, pic, memory
<1>21. ASSUME Exception PROVE TypeOK'
  <2>1. cpu' \in Registers
    BY <1>21 DEF Exception, Registers, Gpr
  <2> QED
    BY <1>21, <2>1 DEF Exception, processor, system, pic, memory
<1>22. ASSUME NEW i \in Devices \cup {Pic!Timer}, Interrupt(i) PROVE TypeOK'
  <2>1. cpu' \in Registers
    BY <1>22 DEF Interrupt, EnterGate, Vector, Registers
  <2>2. Pic!PicTypeOK'
    BY <1>22 DEF Interrupt, EnterGate, Vector, Pic!Acknowledge, Pic!Timer,
       Pic!Cascade
  <2> QED
    BY <1>22, <2>1, <2>2 DEF Interrupt, EnterGate, Vector, processor,
       system, pic, memory
<1>23. ASSUME Tick PROVE TypeOK'
  <2>1. Pic!PicTypeOK'
    BY <1>23 DEF Tick, Pic!Raise, Pic!Timer
  <2> QED
    BY <1>23, <2>1 DEF Tick, processor, system, pic, memory
<1>24. ASSUME NEW i \in Devices, DeviceRaise(i) PROVE TypeOK'
  <2>1. Pic!PicTypeOK'
    BY <1>24 DEF DeviceRaise, Pic!Raise
  <2> QED
    BY <1>24, <2>1 DEF DeviceRaise, processor, system, pic, memory
<1> QED
  BY <1>1, <1>2, <1>3, <1>4, <1>5, <1>6, <1>7, <1>8, <1>9, <1>10, <1>11,
     <1>12, <1>13, <1>14, <1>15, <1>16, <1>17, <1>18, <1>19, <1>20, <1>21,
     <1>22, <1>23, <1>24 DEF Next, Kernel, Config, Clock, UserStep

\* A task enters ring 3 with its own registers, and IF set.
LEMMA CpuInvStep == ASSUME IInv, Next PROVE CpuInv'
<1> USE DEF IInv, TypeOK, CpuInv, CurrentInv, FrameInv, StartInv, SpaceInv,
   IfSet, KernelCode, ClockCode, IsrCode, UserCode, Unconfigured, InRing3,
   Function, Stack, NoFrame, NoTask, Tasks, BootCode, Handlers, Task1Code,
   Task2Code, Code, Holds, UserRegs
<1>1. ASSUME ConfigSegmentation PROVE CpuInv'
  BY <1>1 DEF ConfigSegmentation, Goto
<1>2. ASSUME ConfigPgds PROVE CpuInv'
  BY <1>2 DEF ConfigPgds, Goto
<1>3. ASSUME ConfigInterrupt PROVE CpuInv'
  BY <1>3 DEF ConfigInterrupt, Goto
<1>4. ASSUME ConfigTask PROVE CpuInv'
  BY <1>4 DEF ConfigTask, Goto, system
<1>5. ASSUME ConfigRun PROVE CpuInv'
  BY <1>5 DEF ConfigRun
<1>6. ASSUME AckPic1 PROVE CpuInv'
  BY <1>6 DEF AckPic1, CallTo, system
<1>7. ASSUME AckPic2 PROVE CpuInv'
  BY <1>7 DEF AckPic2, CallTo, system
<1>8. ASSUME Return PROVE CpuInv'
  BY <1>8 DEF Return, system
<1>9. ASSUME ClockSave PROVE CpuInv'
  BY <1>9 DEF ClockSave, CallTo, system
<1>10. ASSUME ClockSwitch PROVE CpuInv'
  BY <1>10 DEF ClockSwitch, CallTo, NextTask
<1>11. ASSUME ClockRestore PROVE CpuInv'
  BY <1>11 DEF ClockRestore, CallTo, system
<1>12. ASSUME ClockStart PROVE CpuInv'
  BY <1>12 DEF ClockStart, system
<1>13. ASSUME StartEoi PROVE CpuInv'
  BY <1>13 DEF StartEoi, CallTo, system
<1>14. ASSUME StartIret PROVE CpuInv'
  BY <1>14 DEF StartIret, system
<1>15. ASSUME SyscallHandler PROVE CpuInv'
  BY <1>15 DEF SyscallHandler, CallTo, system
<1>16. ASSUME Task1Zero PROVE CpuInv'
  BY <1>16 DEF Task1Zero, Fetch, Zeroed, system
<1>17. ASSUME Task1Load PROVE CpuInv'
  BY <1>17 DEF Task1Load, Fetch, Loaded, system
<1>18. ASSUME Task1Store PROVE CpuInv'
  BY <1>18 DEF Task1Store, Fetch, Stored, system
<1>19. ASSUME Task2Point PROVE CpuInv'
  BY <1>19 DEF Task2Point, Fetch, Pointed, system
<1>20. ASSUME Task2Int PROVE CpuInv'
  BY <1>20 DEF Task2Int, Fetch, EnterGate, Trapped, system
<1>21. ASSUME Exception PROVE CpuInv'
  BY <1>21, ExceptionPoint DEF Exception, system
<1>22. ASSUME NEW i \in Devices \cup {Pic!Timer}, Interrupt(i) PROVE CpuInv'
  BY <1>22, InterruptPoint DEF Interrupt, EnterGate, Vector, system
<1>23. ASSUME Tick PROVE CpuInv'
  BY <1>23 DEF Tick, processor, system
<1>24. ASSUME NEW i \in Devices, DeviceRaise(i) PROVE CpuInv'
  BY <1>24 DEF DeviceRaise, processor, system
<1> QED
  BY <1>1, <1>2, <1>3, <1>4, <1>5, <1>6, <1>7, <1>8, <1>9, <1>10, <1>11,
     <1>12, <1>13, <1>14, <1>15, <1>16, <1>17, <1>18, <1>19, <1>20, <1>21,
     <1>22, <1>23, <1>24 DEF Next, Kernel, Config, Clock, UserStep

\* The boot loop is left at the first tick and never comes back.
LEMMA CurrentInvStep == ASSUME IInv, Next PROVE CurrentInv'
<1> USE DEF IInv, TypeOK, Function, CpuInv, CurrentInv, FrameInv, StartInv,
   ContextsInv, ContextInv, ChoiceInv, SpaceInv, InRing3, NoFrame, NoTask,
   Tasks, Unconfigured, BootCode, Handlers, Task1Code, Task2Code, Code,
   Holds, UserRegs
<1>1. ASSUME ConfigSegmentation PROVE CurrentInv'
  BY <1>1 DEF ConfigSegmentation, Goto
<1>2. ASSUME ConfigPgds PROVE CurrentInv'
  BY <1>2 DEF ConfigPgds, Goto
<1>3. ASSUME ConfigInterrupt PROVE CurrentInv'
  BY <1>3 DEF ConfigInterrupt, Goto
<1>4. ASSUME ConfigTask PROVE CurrentInv'
  BY <1>4 DEF ConfigTask, Goto, system
<1>5. ASSUME ConfigRun PROVE CurrentInv'
  BY <1>5 DEF ConfigRun
<1>6. ASSUME AckPic1 PROVE CurrentInv'
  BY <1>6 DEF AckPic1, CallTo, system
<1>7. ASSUME AckPic2 PROVE CurrentInv'
  BY <1>7 DEF AckPic2, CallTo, system
<1>8. ASSUME Return PROVE CurrentInv'
  BY <1>8 DEF Return, system
<1>9. ASSUME ClockSave PROVE CurrentInv'
  BY <1>9 DEF ClockSave, CallTo, system
<1>10. ASSUME ClockSwitch PROVE CurrentInv'
  BY <1>10 DEF ClockSwitch, CallTo, NextTask
<1>11. ASSUME ClockRestore PROVE CurrentInv'
  BY <1>11 DEF ClockRestore, CallTo, system
<1>12. ASSUME ClockStart PROVE CurrentInv'
  BY <1>12 DEF ClockStart, system
<1>13. ASSUME StartEoi PROVE CurrentInv'
  BY <1>13 DEF StartEoi, CallTo, system
<1>14. ASSUME StartIret PROVE CurrentInv'
  BY <1>14 DEF StartIret, system
<1>15. ASSUME SyscallHandler PROVE CurrentInv'
  BY <1>15 DEF SyscallHandler, CallTo, system
<1>16. ASSUME Task1Zero PROVE CurrentInv'
  BY <1>16 DEF Task1Zero, Fetch, Zeroed, system
<1>17. ASSUME Task1Load PROVE CurrentInv'
  BY <1>17 DEF Task1Load, Fetch, Loaded, system
<1>18. ASSUME Task1Store PROVE CurrentInv'
  BY <1>18 DEF Task1Store, Fetch, Stored, system
<1>19. ASSUME Task2Point PROVE CurrentInv'
  BY <1>19 DEF Task2Point, Fetch, Pointed, system
<1>20. ASSUME Task2Int PROVE CurrentInv'
  BY <1>20 DEF Task2Int, Fetch, EnterGate, Trapped, system
<1>21. ASSUME Exception PROVE CurrentInv'
  BY <1>21, ExceptionPoint DEF Exception, system
<1>22. ASSUME NEW i \in Devices \cup {Pic!Timer}, Interrupt(i) PROVE
   CurrentInv'
  BY <1>22, InterruptPoint DEF Interrupt, EnterGate, Vector, system
<1>23. ASSUME Tick PROVE CurrentInv'
  BY <1>23 DEF Tick, processor, system
<1>24. ASSUME NEW i \in Devices, DeviceRaise(i) PROVE CurrentInv'
  BY <1>24 DEF DeviceRaise, processor, system
<1> QED
  BY <1>1, <1>2, <1>3, <1>4, <1>5, <1>6, <1>7, <1>8, <1>9, <1>10, <1>11,
     <1>12, <1>13, <1>14, <1>15, <1>16, <1>17, <1>18, <1>19, <1>20, <1>21,
     <1>22, <1>23, <1>24 DEF Next, Kernel, Config, Clock, UserStep

\* The frame a handler will return to is always one of the three kinds.
LEMMA FrameInvStep == ASSUME IInv, Next PROVE FrameInv'
<1> USE DEF IInv, TypeOK, CpuInv, CurrentInv, FrameInv, StartInv,
   ContextsInv, ContextInv, ChoiceInv, SpaceInv, InRing3, NoFrame, NoTask,
   Tasks, Unconfigured, Function, Stack, BootCode, Handlers, Task1Code,
   Task2Code, Code, Holds, UserRegs
<1>1. ASSUME ConfigSegmentation PROVE FrameInv'
  BY <1>1 DEF ConfigSegmentation, Goto
<1>2. ASSUME ConfigPgds PROVE FrameInv'
  BY <1>2 DEF ConfigPgds, Goto
<1>3. ASSUME ConfigInterrupt PROVE FrameInv'
  BY <1>3 DEF ConfigInterrupt, Goto
<1>4. ASSUME ConfigTask PROVE FrameInv'
  BY <1>4 DEF ConfigTask, Goto, system
<1>5. ASSUME ConfigRun PROVE FrameInv'
  BY <1>5 DEF ConfigRun
<1>6. ASSUME AckPic1 PROVE FrameInv'
  BY <1>6 DEF AckPic1, CallTo, system
<1>7. ASSUME AckPic2 PROVE FrameInv'
  BY <1>7 DEF AckPic2, CallTo, system
<1>8. ASSUME Return PROVE FrameInv'
  BY <1>8 DEF Return, system
<1>9. ASSUME ClockSave PROVE FrameInv'
  BY <1>9 DEF ClockSave, CallTo, system
<1>10. ASSUME ClockSwitch PROVE FrameInv'
  BY <1>10 DEF ClockSwitch, CallTo, NextTask
<1>11. ASSUME ClockRestore PROVE FrameInv'
  BY <1>11 DEF ClockRestore, CallTo, system
<1>12. ASSUME ClockStart PROVE FrameInv'
  BY <1>12 DEF ClockStart, system
<1>13. ASSUME StartEoi PROVE FrameInv'
  BY <1>13 DEF StartEoi, CallTo, system
<1>14. ASSUME StartIret PROVE FrameInv'
  BY <1>14 DEF StartIret, system
<1>15. ASSUME SyscallHandler PROVE FrameInv'
  BY <1>15 DEF SyscallHandler, CallTo, system
<1>16. ASSUME Task1Zero PROVE FrameInv'
  BY <1>16 DEF Task1Zero, Fetch, Zeroed, system
<1>17. ASSUME Task1Load PROVE FrameInv'
  BY <1>17 DEF Task1Load, Fetch, Loaded, system
<1>18. ASSUME Task1Store PROVE FrameInv'
  BY <1>18 DEF Task1Store, Fetch, Stored, system
<1>19. ASSUME Task2Point PROVE FrameInv'
  BY <1>19 DEF Task2Point, Fetch, Pointed, system
<1>20. ASSUME Task2Int PROVE FrameInv'
  BY <1>20 DEF Task2Int, Fetch, EnterGate, Trapped, system
<1>21. ASSUME Exception PROVE FrameInv'
  BY <1>21, ExceptionPoint DEF Exception, system
<1>22. ASSUME NEW i \in Devices \cup {Pic!Timer}, Interrupt(i) PROVE
   FrameInv'
  BY <1>22, InterruptPoint DEF Interrupt, EnterGate, Vector, system
<1>23. ASSUME Tick PROVE FrameInv'
  BY <1>23 DEF Tick, processor, system
<1>24. ASSUME NEW i \in Devices, DeviceRaise(i) PROVE FrameInv'
  BY <1>24 DEF DeviceRaise, processor, system
<1> QED
  BY <1>1, <1>2, <1>3, <1>4, <1>5, <1>6, <1>7, <1>8, <1>9, <1>10, <1>11,
     <1>12, <1>13, <1>14, <1>15, <1>16, <1>17, <1>18, <1>19, <1>20, <1>21,
     <1>22, <1>23, <1>24 DEF Next, Kernel, Config, Clock, UserStep

\* A start frame still needed is neither overwritten nor misdirected.
LEMMA StartInvStep == ASSUME IInv, Next PROVE StartInv'
<1> USE DEF IInv, TypeOK, Function, CpuInv, CurrentInv, FrameInv, StartInv,
   ContextsInv, ContextInv, ChoiceInv, ConfigInv, SpaceInv, InRing3,
   NoFrame, NoTask, Tasks, Unconfigured, BootCode, Handlers, Task1Code,
   Task2Code, Code, Holds, UserRegs
<1>1. ASSUME ConfigSegmentation PROVE StartInv'
  BY <1>1 DEF ConfigSegmentation, Goto, TaskRecords
<1>2. ASSUME ConfigPgds PROVE StartInv'
  BY <1>2 DEF ConfigPgds, Goto, TaskRecords
<1>3. ASSUME ConfigInterrupt PROVE StartInv'
  BY <1>3 DEF ConfigInterrupt, Goto, TaskRecords
<1>4. ASSUME ConfigTask PROVE StartInv'
  BY <1>4 DEF ConfigTask, Goto, system, TaskRecords
<1>5. ASSUME ConfigRun PROVE StartInv'
  BY <1>5 DEF ConfigRun, TaskRecords
<1>6. ASSUME AckPic1 PROVE StartInv'
  BY <1>6 DEF AckPic1, CallTo, system, TaskRecords
<1>7. ASSUME AckPic2 PROVE StartInv'
  BY <1>7 DEF AckPic2, CallTo, system, TaskRecords
<1>8. ASSUME Return PROVE StartInv'
  BY <1>8 DEF Return, system, TaskRecords
<1>9. ASSUME ClockSave PROVE StartInv'
  BY <1>9 DEF ClockSave, CallTo, system, TaskRecords
<1>10. ASSUME ClockSwitch PROVE StartInv'
  BY <1>10 DEF ClockSwitch, CallTo, NextTask, TaskRecords
<1>11. ASSUME ClockRestore PROVE StartInv'
  BY <1>11 DEF ClockRestore, CallTo, system, TaskRecords
<1>12. ASSUME ClockStart PROVE StartInv'
  BY <1>12 DEF ClockStart, system, TaskRecords
<1>13. ASSUME StartEoi PROVE StartInv'
  BY <1>13 DEF StartEoi, CallTo, system, TaskRecords
<1>14. ASSUME StartIret PROVE StartInv'
  BY <1>14 DEF StartIret, system, TaskRecords
<1>15. ASSUME SyscallHandler PROVE StartInv'
  BY <1>15 DEF SyscallHandler, CallTo, system, TaskRecords
<1>16. ASSUME Task1Zero PROVE StartInv'
  BY <1>16 DEF Task1Zero, Fetch, Zeroed, system, TaskRecords
<1>17. ASSUME Task1Load PROVE StartInv'
  BY <1>17 DEF Task1Load, Fetch, Loaded, system, TaskRecords
<1>18. ASSUME Task1Store PROVE StartInv'
  BY <1>18 DEF Task1Store, Fetch, Stored, system, TaskRecords
<1>19. ASSUME Task2Point PROVE StartInv'
  BY <1>19 DEF Task2Point, Fetch, Pointed, system, TaskRecords
<1>20. ASSUME Task2Int PROVE StartInv'
  BY <1>20 DEF Task2Int, Fetch, EnterGate, Trapped, system, TaskRecords
<1>21. ASSUME Exception PROVE StartInv'
  BY <1>21, ExceptionPoint DEF Exception, system, TaskRecords
<1>22. ASSUME NEW i \in Devices \cup {Pic!Timer}, Interrupt(i) PROVE
   StartInv'
  BY <1>22, InterruptPoint DEF Interrupt, EnterGate, Vector, system,
     TaskRecords
<1>23. ASSUME Tick PROVE StartInv'
  BY <1>23 DEF Tick, processor, system, TaskRecords
<1>24. ASSUME NEW i \in Devices, DeviceRaise(i) PROVE StartInv'
  BY <1>24 DEF DeviceRaise, processor, system, TaskRecords
<1> QED
  BY <1>1, <1>2, <1>3, <1>4, <1>5, <1>6, <1>7, <1>8, <1>9, <1>10, <1>11,
     <1>12, <1>13, <1>14, <1>15, <1>16, <1>17, <1>18, <1>19, <1>20, <1>21,
     <1>22, <1>23, <1>24 DEF Next, Kernel, Config, Clock, UserStep

\* Address space, stack and current task change together.
LEMMA SpaceInvStep == ASSUME IInv, Next PROVE SpaceInv'
<1> USE DEF IInv, TypeOK, CpuInv, CurrentInv, FrameInv, StartInv, ConfigInv,
   SpaceInv, InRing3, NoTask, Tasks, Unconfigured, Function, InterruptStack,
   Pgd, BootCode, Handlers, Task1Code, Task2Code, Code, Holds, UserRegs
<1>1. ASSUME ConfigSegmentation PROVE SpaceInv'
  BY <1>1 DEF ConfigSegmentation, Goto
<1>2. ASSUME ConfigPgds PROVE SpaceInv'
  BY <1>2 DEF ConfigPgds, Goto
<1>3. ASSUME ConfigInterrupt PROVE SpaceInv'
  BY <1>3 DEF ConfigInterrupt, Goto
<1>4. ASSUME ConfigTask PROVE SpaceInv'
  BY <1>4 DEF ConfigTask, Goto, system
<1>5. ASSUME ConfigRun PROVE SpaceInv'
  BY <1>5 DEF ConfigRun
<1>6. ASSUME AckPic1 PROVE SpaceInv'
  BY <1>6 DEF AckPic1, CallTo, system
<1>7. ASSUME AckPic2 PROVE SpaceInv'
  BY <1>7 DEF AckPic2, CallTo, system
<1>8. ASSUME Return PROVE SpaceInv'
  BY <1>8 DEF Return, system
<1>9. ASSUME ClockSave PROVE SpaceInv'
  BY <1>9 DEF ClockSave, CallTo, system
<1>10. ASSUME ClockSwitch PROVE SpaceInv'
  BY <1>10 DEF ClockSwitch, CallTo, NextTask
<1>11. ASSUME ClockRestore PROVE SpaceInv'
  BY <1>11 DEF ClockRestore, CallTo, system
<1>12. ASSUME ClockStart PROVE SpaceInv'
  BY <1>12 DEF ClockStart, system
<1>13. ASSUME StartEoi PROVE SpaceInv'
  BY <1>13 DEF StartEoi, CallTo, system
<1>14. ASSUME StartIret PROVE SpaceInv'
  BY <1>14 DEF StartIret, system
<1>15. ASSUME SyscallHandler PROVE SpaceInv'
  BY <1>15 DEF SyscallHandler, CallTo, system
<1>16. ASSUME Task1Zero PROVE SpaceInv'
  BY <1>16 DEF Task1Zero, Fetch, Zeroed, system
<1>17. ASSUME Task1Load PROVE SpaceInv'
  BY <1>17 DEF Task1Load, Fetch, Loaded, system
<1>18. ASSUME Task1Store PROVE SpaceInv'
  BY <1>18 DEF Task1Store, Fetch, Stored, system
<1>19. ASSUME Task2Point PROVE SpaceInv'
  BY <1>19 DEF Task2Point, Fetch, Pointed, system
<1>20. ASSUME Task2Int PROVE SpaceInv'
  BY <1>20 DEF Task2Int, Fetch, EnterGate, Trapped, system
<1>21. ASSUME Exception PROVE SpaceInv'
  BY <1>21, ExceptionPoint DEF Exception, system
<1>22. ASSUME NEW i \in Devices \cup {Pic!Timer}, Interrupt(i) PROVE
   SpaceInv'
  BY <1>22, InterruptPoint DEF Interrupt, EnterGate, Vector, system
<1>23. ASSUME Tick PROVE SpaceInv'
  BY <1>23 DEF Tick, processor, system
<1>24. ASSUME NEW i \in Devices, DeviceRaise(i) PROVE SpaceInv'
  BY <1>24 DEF DeviceRaise, processor, system
<1> QED
  BY <1>1, <1>2, <1>3, <1>4, <1>5, <1>6, <1>7, <1>8, <1>9, <1>10, <1>11,
     <1>12, <1>13, <1>14, <1>15, <1>16, <1>17, <1>18, <1>19, <1>20, <1>21,
     <1>22, <1>23, <1>24 DEF Next, Kernel, Config, Clock, UserStep

\* Restore or start, by what the task has.
LEMMA ChoiceInvStep == ASSUME IInv, Next PROVE ChoiceInv'
<1> USE DEF IInv, TypeOK, CpuInv, FrameInv, StartInv, SpaceInv, ChoiceInv,
   InRing3, Unconfigured, Function, NoTask, Tasks, BootCode, Handlers,
   Task1Code, Task2Code, Code, Holds, UserRegs
<1>1. ASSUME ConfigSegmentation PROVE ChoiceInv'
  BY <1>1 DEF ConfigSegmentation, Goto
<1>2. ASSUME ConfigPgds PROVE ChoiceInv'
  BY <1>2 DEF ConfigPgds, Goto
<1>3. ASSUME ConfigInterrupt PROVE ChoiceInv'
  BY <1>3 DEF ConfigInterrupt, Goto
<1>4. ASSUME ConfigTask PROVE ChoiceInv'
  BY <1>4 DEF ConfigTask, Goto, system
<1>5. ASSUME ConfigRun PROVE ChoiceInv'
  BY <1>5 DEF ConfigRun
<1>6. ASSUME AckPic1 PROVE ChoiceInv'
  BY <1>6 DEF AckPic1, CallTo, system
<1>7. ASSUME AckPic2 PROVE ChoiceInv'
  BY <1>7 DEF AckPic2, CallTo, system
<1>8. ASSUME Return PROVE ChoiceInv'
  BY <1>8 DEF Return, system
<1>9. ASSUME ClockSave PROVE ChoiceInv'
  BY <1>9 DEF ClockSave, CallTo, system
<1>10. ASSUME ClockSwitch PROVE ChoiceInv'
  BY <1>10 DEF ClockSwitch, CallTo, NextTask
<1>11. ASSUME ClockRestore PROVE ChoiceInv'
  BY <1>11 DEF ClockRestore, CallTo, system
<1>12. ASSUME ClockStart PROVE ChoiceInv'
  BY <1>12 DEF ClockStart, system
<1>13. ASSUME StartEoi PROVE ChoiceInv'
  BY <1>13 DEF StartEoi, CallTo, system
<1>14. ASSUME StartIret PROVE ChoiceInv'
  BY <1>14 DEF StartIret, system
<1>15. ASSUME SyscallHandler PROVE ChoiceInv'
  BY <1>15 DEF SyscallHandler, CallTo, system
<1>16. ASSUME Task1Zero PROVE ChoiceInv'
  BY <1>16 DEF Task1Zero, Fetch, Zeroed, system
<1>17. ASSUME Task1Load PROVE ChoiceInv'
  BY <1>17 DEF Task1Load, Fetch, Loaded, system
<1>18. ASSUME Task1Store PROVE ChoiceInv'
  BY <1>18 DEF Task1Store, Fetch, Stored, system
<1>19. ASSUME Task2Point PROVE ChoiceInv'
  BY <1>19 DEF Task2Point, Fetch, Pointed, system
<1>20. ASSUME Task2Int PROVE ChoiceInv'
  BY <1>20 DEF Task2Int, Fetch, EnterGate, Trapped, system
<1>21. ASSUME Exception PROVE ChoiceInv'
  BY <1>21, ExceptionPoint DEF Exception, system
<1>22. ASSUME NEW i \in Devices \cup {Pic!Timer}, Interrupt(i) PROVE
   ChoiceInv'
  BY <1>22, InterruptPoint DEF Interrupt, EnterGate, Vector, system
<1>23. ASSUME Tick PROVE ChoiceInv'
  BY <1>23 DEF Tick, processor, system
<1>24. ASSUME NEW i \in Devices, DeviceRaise(i) PROVE ChoiceInv'
  BY <1>24 DEF DeviceRaise, processor, system
<1> QED
  BY <1>1, <1>2, <1>3, <1>4, <1>5, <1>6, <1>7, <1>8, <1>9, <1>10, <1>11,
     <1>12, <1>13, <1>14, <1>15, <1>16, <1>17, <1>18, <1>19, <1>20, <1>21,
     <1>22, <1>23, <1>24 DEF Next, Kernel, Config, Clock, UserStep

\* Nothing but the contexts of tasks[] changes after config().
LEMMA ConfigInvStep == ASSUME IInv, Next PROVE ConfigInv'
<1> USE DEF IInv, TypeOK, CpuInv, FrameInv, StartInv, SpaceInv, ConfigInv,
   InRing3, Unconfigured, Function, NoTask, Tasks, InterruptStack, Pgd,
   BootCode, Handlers, Task1Code, Task2Code, Code, Holds, UserRegs
<1>1. ASSUME ConfigSegmentation PROVE ConfigInv'
  BY <1>1 DEF ConfigSegmentation, Goto, TaskRecords
<1>2. ASSUME ConfigPgds PROVE ConfigInv'
  BY <1>2 DEF ConfigPgds, Goto, TaskRecords
<1>3. ASSUME ConfigInterrupt PROVE ConfigInv'
  BY <1>3 DEF ConfigInterrupt, Goto, TaskRecords
<1>4. ASSUME ConfigTask PROVE ConfigInv'
  BY <1>4 DEF ConfigTask, Goto, system, TaskRecords
<1>5. ASSUME ConfigRun PROVE ConfigInv'
  BY <1>5 DEF ConfigRun, TaskRecords
<1>6. ASSUME AckPic1 PROVE ConfigInv'
  BY <1>6 DEF AckPic1, CallTo, system, TaskRecords
<1>7. ASSUME AckPic2 PROVE ConfigInv'
  BY <1>7 DEF AckPic2, CallTo, system, TaskRecords
<1>8. ASSUME Return PROVE ConfigInv'
  BY <1>8 DEF Return, system, TaskRecords
<1>9. ASSUME ClockSave PROVE ConfigInv'
  BY <1>9 DEF ClockSave, CallTo, system, TaskRecords
<1>10. ASSUME ClockSwitch PROVE ConfigInv'
  BY <1>10 DEF ClockSwitch, CallTo, NextTask, TaskRecords
<1>11. ASSUME ClockRestore PROVE ConfigInv'
  BY <1>11 DEF ClockRestore, CallTo, system, TaskRecords
<1>12. ASSUME ClockStart PROVE ConfigInv'
  BY <1>12 DEF ClockStart, system, TaskRecords
<1>13. ASSUME StartEoi PROVE ConfigInv'
  BY <1>13 DEF StartEoi, CallTo, system, TaskRecords
<1>14. ASSUME StartIret PROVE ConfigInv'
  BY <1>14 DEF StartIret, system, TaskRecords
<1>15. ASSUME SyscallHandler PROVE ConfigInv'
  BY <1>15 DEF SyscallHandler, CallTo, system, TaskRecords
<1>16. ASSUME Task1Zero PROVE ConfigInv'
  BY <1>16 DEF Task1Zero, Fetch, Zeroed, system, TaskRecords
<1>17. ASSUME Task1Load PROVE ConfigInv'
  BY <1>17 DEF Task1Load, Fetch, Loaded, system, TaskRecords
<1>18. ASSUME Task1Store PROVE ConfigInv'
  BY <1>18 DEF Task1Store, Fetch, Stored, system, TaskRecords
<1>19. ASSUME Task2Point PROVE ConfigInv'
  BY <1>19 DEF Task2Point, Fetch, Pointed, system, TaskRecords
<1>20. ASSUME Task2Int PROVE ConfigInv'
  BY <1>20 DEF Task2Int, Fetch, EnterGate, Trapped, system, TaskRecords
<1>21. ASSUME Exception PROVE ConfigInv'
  BY <1>21, ExceptionPoint DEF Exception, system, TaskRecords
<1>22. ASSUME NEW i \in Devices \cup {Pic!Timer}, Interrupt(i) PROVE
   ConfigInv'
  BY <1>22, InterruptPoint DEF Interrupt, EnterGate, Vector, system,
     TaskRecords
<1>23. ASSUME Tick PROVE ConfigInv'
  BY <1>23 DEF Tick, processor, system, TaskRecords
<1>24. ASSUME NEW i \in Devices, DeviceRaise(i) PROVE ConfigInv'
  BY <1>24 DEF DeviceRaise, processor, system, TaskRecords
<1> QED
  BY <1>1, <1>2, <1>3, <1>4, <1>5, <1>6, <1>7, <1>8, <1>9, <1>10, <1>11,
     <1>12, <1>13, <1>14, <1>15, <1>16, <1>17, <1>18, <1>19, <1>20, <1>21,
     <1>22, <1>23, <1>24 DEF Next, Kernel, Config, Clock, UserStep

\* Only the handler writes a context, and it writes one its task can resume.
LEMMA ContextsStep == ASSUME IInv, Next PROVE ContextsInv'
<1>1. CASE UNCHANGED tasks /\ (current' = current \/ current' # NoTask)
  BY <1>1 DEF IInv, ContextsInv, ContextInv, UserRegs, Holds
<1>2. CASE ConfigTask
  BY <1>2 DEF ConfigTask, ContextsInv, ContextInv
<1>3. CASE ClockSave
  <2>1. CASE current = NoTask
    BY <1>1, <1>3, <2>1 DEF ClockSave
  <2>2. CASE current # NoTask
    <3>1. /\ current \in Tasks /\ current' = current
          /\ tasks \in [Tasks -> TaskRecords]
      BY <1>3, <2>2 DEF IInv, TypeOK, ClockSave
    <3>2. \A t \in Tasks \ {current} : tasks'[t] = tasks[t]
      BY <1>3, <2>2, <3>1 DEF ClockSave
    <3>3. tasks'[current].context_saved /\ 
          tasks'[current].context =
            [regs |-> frame,
             below |-> IF frame.cs = "c0_sel" THEN start ELSE NoStart]
      BY <1>3, <2>2, <3>1 DEF ClockSave, TaskRecords
    <3>4. \/ UserRegs(frame, current)
          \/ /\ frame.cs = "c0_sel" /\ frame.eip = "start_iret" /\ frame.ifl
             /\ start.eip = Function(current)
             /\ start.esp = Stack(current) /\ start.ifl
      BY <1>3, <2>2, <3>1 DEF IInv, ClockSave, CurrentInv, FrameInv, StartInv,
         Handlers
    <3>5. ContextInv(current)'
      BY <2>2, <3>1, <3>3, <3>4 DEF ContextInv, UserRegs, Holds
    <3>6. ASSUME NEW t \in Tasks \ {current} PROVE ContextInv(t)'
      BY <3>1, <3>2, <3>6 DEF IInv, ContextsInv, ContextInv, UserRegs, Holds
    <3> QED
      BY <3>1, <3>5, <3>6 DEF ContextsInv
  <2> QED
    BY <2>1, <2>2
<1>4. CASE ClockSwitch
  <2>1. current' # NoTask
    BY <1>4 DEF ClockSwitch, NextTask, IInv, TypeOK, Tasks, NoTask
  <2> QED
    BY <1>1, <1>4, <2>1 DEF ClockSwitch
<1>5. CASE Config /\ ~ConfigTask
  BY <1>1, <1>5 DEF Config, ConfigSegmentation, ConfigPgds, ConfigInterrupt,
     ConfigRun
<1>6. CASE \/ AckPic1 \/ AckPic2 \/ Return \/ ClockRestore \/ ClockStart
           \/ StartEoi \/ StartIret \/ SyscallHandler \/ Exception
  BY <1>1, <1>6 DEF AckPic1, AckPic2, Return, ClockRestore, ClockStart,
     StartEoi, StartIret, SyscallHandler, Exception
<1>7. CASE \E t \in Tasks : UserStep(t)
  BY <1>1, <1>7 DEF UserStep, Task1Zero, Task1Load, Task1Store, Task2Point,
     Task2Int
<1>8. CASE \/ \E i \in Devices \cup {Pic!Timer} : Interrupt(i)
           \/ Tick
           \/ \E i \in Devices : DeviceRaise(i)
  BY <1>1, <1>8 DEF Interrupt, Tick, DeviceRaise
<1> QED
  BY <1>2, <1>3, <1>4, <1>5, <1>6, <1>7, <1>8 DEF Next, Kernel, Clock

\* A line is in service from its acknowledgement to its handler's EOI.
LEMMA InServiceStep == ASSUME IInv, Next PROVE InServiceIsHandled'
<1> USE DEF InServiceIsHandled
<1>1. CASE UNCHANGED isr /\ isr = {}
           /\ cpu'.eip \notin {"ack_pic1", "ack_pic2", "clk_save",
                 "clk_switch", "clk_restore", "clk_start", "start_eoi"}
  BY <1>1
<1>2. CASE UNCHANGED <<isr, cpu>>
  BY <1>2 DEF IInv
<1>3. CASE ClockSave \/ ClockSwitch \/ ClockStart
  BY <1>3 DEF IInv, ClockSave, ClockSwitch, ClockStart, CallTo, pic, TypeOK,
     Registers
<1>4. CASE AckPic1
  BY <1>4, EoiEndsMasterLine DEF IInv, AckPic1, CallTo, TypeOK, Registers
<1>5. CASE AckPic2
  BY <1>5, EoiEndsSlaveLine DEF IInv, AckPic2, CallTo, TypeOK, Registers
<1>6. CASE ClockRestore \/ StartEoi
  <2>1. Pic!Timer \in Pic!Master /\ isr = {Pic!Timer} /\ Pic!EoiMaster
    BY <1>6 DEF IInv, ClockRestore, StartEoi, Pic!Timer, Pic!Master
  <2> QED
    BY <1>6, <2>1, EoiEndsMasterLine
       DEF IInv, ClockRestore, StartEoi, CallTo, TypeOK, Registers
<1>7. ASSUME NEW i \in Devices \cup {Pic!Timer}, Interrupt(i)
      PROVE  InServiceIsHandled'
  <2>1. isr = {} /\ idt.clock = "clk_save"
    BY <1>7, InterruptPoint DEF IInv, SpaceInv, InRing3, UserRegs, Holds, Code,
       Tasks, Task1Code, Task2Code, Unconfigured
  <2>2. cpu'.eip = Vector(i)
    BY <1>7 DEF Interrupt, EnterGate
  <2>3. isr' = {i} \cup (IF i \in Pic!Slave THEN {Pic!Cascade} ELSE {})
    BY <1>7, <2>1 DEF Interrupt, Pic!Acknowledge
  <2>4. CASE i = Pic!Timer
    BY <2>1, <2>2, <2>3, <2>4 DEF Vector, Pic!Timer, Pic!Slave
  <2>5. CASE i \in Pic!Slave
    BY <2>2, <2>3, <2>5 DEF Vector, Pic!Timer, Pic!Slave
  <2>6. CASE i \in Devices /\ i \notin Pic!Slave
    <3>1. i \in Pic!Master /\ i # Pic!Timer
      BY <2>6, DeviceAssumption DEF Pic!Master, Pic!Slave, Pic!Timer
    <3> QED
      BY <2>2, <2>3, <2>6, <3>1 DEF Vector
  <2> QED
    BY <1>7, <2>4, <2>5, <2>6
<1>8. CASE Config
  BY <1>8 DEF IInv, Config, ConfigSegmentation, ConfigPgds, ConfigInterrupt,
     ConfigTask, ConfigRun, Goto, pic, TypeOK, Registers
<1>9. CASE Return \/ StartIret \/ SyscallHandler
  <2>1. CASE Return
    BY <1>1, <2>1 DEF IInv, Return, FrameInv, Handlers, UserRegs, Holds, Code,
       Task1Code, Task2Code, pic
  <2>2. CASE StartIret
    BY <1>1, <2>2 DEF IInv, StartIret, StartInv, Function, pic
  <2>3. CASE SyscallHandler
    BY <1>1, <2>3 DEF IInv, SyscallHandler, CallTo, TypeOK, Registers, pic
  <2> QED
    BY <1>9, <2>1, <2>2, <2>3
<1>10. ASSUME NEW t \in Tasks, UserStep(t)
       PROVE  InServiceIsHandled'
  <2> USE DEF IInv, TypeOK, Registers, Fetch, pic
  <2>1. CASE Task1Zero
    BY <1>1, <2>1 DEF Task1Zero, Zeroed
  <2>2. CASE Task1Load
    BY <1>1, <2>2 DEF Task1Load, Loaded
  <2>3. CASE Task1Store
    BY <1>1, <2>3 DEF Task1Store, Stored
  <2>4. CASE Task2Point
    BY <1>1, <2>4 DEF Task2Point, Pointed
  <2>5. CASE Task2Int
    <3>1. idt.syscall = "syscall_handler"
      BY <2>5 DEF Task2Int, SpaceInv, Unconfigured
    <3> QED
      BY <1>1, <2>5, <3>1 DEF Task2Int, EnterGate
  <2> QED
    BY <1>10, <2>1, <2>2, <2>3, <2>4, <2>5 DEF UserStep
<1>11. CASE Exception
  <2>1. isr = {} /\ cpu'.eip = "panic"
    BY <1>11, ExceptionPoint DEF IInv, Exception
  <2> QED
    BY <1>1, <1>11, <2>1 DEF Exception, pic
<1>12. CASE Tick \/ \E i \in Devices : DeviceRaise(i)
  BY <1>2, <1>12 DEF Tick, DeviceRaise, processor, Pic!Raise
<1> QED
  BY <1>3, <1>4, <1>5, <1>6, <1>7, <1>8, <1>9, <1>10, <1>11, <1>12
     DEF Next, Kernel, Clock

-----------------------------------------------------------------------------
\* The state in which start() calls tp() satisfies the invariant.
LEMMA InitInvariant == Init => IInv
<1> SUFFICES ASSUME Init PROVE IInv
  OBVIOUS
<1>1. TypeOK
  <2>1. cpu \in Registers
    BY LabelSets, StackSets DEF Init, Registers, Gpr
  <2>2. BlankTask \in TaskRecords
    BY LabelSets, StackSets, NoneTypes
       DEF BlankTask, TaskRecords, PageDirectories
  <2> QED
    BY <2>1, <2>2, LabelSets, StackSets, NoneTypes
       DEF Init, TypeOK, PageDirectories, DataSelectors, Pic!PicInit,
           Pic!PicTypeOK
<1>2. CpuInv /\ CurrentInv /\ FrameInv /\ StartInv /\ SpaceInv /\ ChoiceInv
  BY DEF Init, CpuInv, CurrentInv, FrameInv, StartInv, SpaceInv, ChoiceInv,
         InRing3, KernelCode, BootCode, IfSet, Handlers, Unconfigured, NoFrame
<1>3. ContextsInv /\ ConfigInv
  BY DEF Init, ContextsInv, ContextInv, ConfigInv, BlankTask, Unconfigured
<1>4. InServiceIsHandled
  BY DEF Init, InServiceIsHandled, Pic!PicInit
<1> QED
  BY <1>1, <1>2, <1>3, <1>4 DEF IInv

\* IInv is inductive.
LEMMA NextInvariant == IInv /\ [Next]_vars => IInv'
<1> SUFFICES ASSUME IInv, [Next]_vars PROVE IInv'
  OBVIOUS
<1>1. CASE Next
  BY <1>1, TypeStep, CpuInvStep, CurrentInvStep, FrameInvStep, StartInvStep,
     SpaceInvStep, ContextsStep, ChoiceInvStep, ConfigInvStep, InServiceStep
     DEF IInv
<1>2. CASE UNCHANGED vars
  BY <1>2 DEF vars, processor, system, pic, memory, IInv, TypeOK, CpuInv,
     CurrentInv, FrameInv, StartInv, SpaceInv, ContextsInv, ContextInv,
     ChoiceInv, ConfigInv, InServiceIsHandled, InRing3, UserRegs, Holds,
     Pic!PicTypeOK
<1> QED
  BY <1>1, <1>2

\* The invariant holds of every behaviour, early ticks included.
THEOREM Invariance == Spec => []IInv
BY InitInvariant, NextInvariant, PTL DEF Spec

\* Every variable holds a value of its type, for every W and set of devices.
THEOREM TypeCorrect == Spec => []TypeOK
<1>1. IInv => TypeOK
  BY DEF IInv
<1> QED
  BY <1>1, Invariance, PTL

\* Ring 3 code always runs as the current task, in its own address space and
\* preemptible, whichever of the two returns of the clock handler, nested or
\* not, brought it there.
THEOREM Coherence == Spec => []Ring3Coherent
<1>1. IInv => Ring3Coherent
  <2>1. SUFFICES ASSUME IInv, InRing3 PROVE Ring3Coherent
    BY DEF Ring3Coherent
  <2>2. current \in Tasks /\ UserRegs(cpu, current)
    BY <2>1 DEF IInv, CpuInv
  <2>3. cpu.eip \notin BootCode /\ current # NoTask
    BY <2>2 DEF UserRegs, Holds, Code, Task1Code, Task2Code, BootCode, Tasks,
       NoTask
  <2> QED
    BY <2>1, <2>2, <2>3 DEF IInv, SpaceInv, Ring3Coherent, UserRegs, Holds,
       Unconfigured
<1> QED
  BY <1>1, Invariance, PTL

\* A saved context, even one saved in ring 0, leads back to its own task.
THEOREM ContextsLeadHome == Spec => []SavedContextLeadsToOwner
<1>1. IInv => SavedContextLeadsToOwner
  BY DEF IInv, ContextsInv, ContextInv, SavedContextLeadsToOwner, UserRegs,
     Holds
<1> QED
  BY <1>1, Invariance, PTL

\* Every interrupt is ended exactly once, by its own handler.
THEOREM EoiDiscipline == Spec => []InServiceIsHandled
<1>1. IInv => InServiceIsHandled
  BY DEF IInv
<1> QED
  BY <1>1, Invariance, PTL

-----------------------------------------------------------------------------
(***************************************************************************)
(* What Scheduler guarantees when no tick comes while a task is being      *)
(* started, for every word size and every set of devices.                  *)
(***************************************************************************)
\* What the absence of early ticks adds: a start runs to its end.
QuietInv ==
  /\ cpu.eip # "panic"
  /\ Starting => Pic!Timer \notin irr
  /\ \A t \in Tasks :
       tasks[t].context_saved => tasks[t].context.regs.cs = "c3_sel"
  /\ cpu.eip \in {"start_eoi", "start_iret"} \/ frame.eip = "start_iret"
       => start.ss /\ ~tasks[current].context_saved
  /\ frame.eip = "start_iret" => cpu.eip \notin ClockCode

QuietIInv == IInv /\ QuietInv

-----------------------------------------------------------------------------
\* No action saves a ring 0 context, or leaves one to be restored.
LEMMA QuietStep ==
  ASSUME EarlyTick = FALSE, IInv, QuietInv, Next
  PROVE  QuietInv'
<1> USE DEF QuietInv, Starting, InHandler, Target, NextTask, IInv, TypeOK,
   CpuInv, CurrentInv, FrameInv, StartInv, SpaceInv, ContextsInv, ContextInv,
   ChoiceInv, InRing3, NoFrame, NoTask, Tasks, Unconfigured, Function,
   BootCode, ClockCode, Handlers, Task1Code, Task2Code, Code, Holds, UserRegs
<1>1. ASSUME ConfigSegmentation PROVE QuietInv'
  BY <1>1 DEF ConfigSegmentation, Goto, pic
<1>2. ASSUME ConfigPgds PROVE QuietInv'
  BY <1>2 DEF ConfigPgds, Goto, pic
<1>3. ASSUME ConfigInterrupt PROVE QuietInv'
  BY <1>3 DEF ConfigInterrupt, Goto, pic
<1>4. ASSUME ConfigTask PROVE QuietInv'
  BY <1>4 DEF ConfigTask, Goto, system, pic
<1>5. ASSUME ConfigRun PROVE QuietInv'
  BY <1>5 DEF ConfigRun, pic
<1>6. ASSUME AckPic1 PROVE QuietInv'
  BY <1>6 DEF AckPic1, CallTo, Pic!EoiMaster, system
<1>7. ASSUME AckPic2 PROVE QuietInv'
  BY <1>7 DEF AckPic2, CallTo, Pic!EoiBoth, system
<1>8. ASSUME Return PROVE QuietInv'
  BY <1>8 DEF Return, system, pic
<1>9. ASSUME ClockSave PROVE QuietInv'
  BY <1>9 DEF ClockSave, CallTo, system, pic
<1>10. ASSUME ClockSwitch PROVE QuietInv'
  BY <1>10 DEF ClockSwitch, CallTo, NextTask, pic
<1>11. ASSUME ClockRestore PROVE QuietInv'
  BY <1>11 DEF ClockRestore, CallTo, Pic!EoiMaster, system
<1>12. ASSUME ClockStart PROVE QuietInv'
  BY <1>12 DEF ClockStart, system, pic
<1>13. ASSUME StartEoi PROVE QuietInv'
  BY <1>13 DEF StartEoi, CallTo, Pic!EoiMaster, system
<1>14. ASSUME StartIret PROVE QuietInv'
  BY <1>14 DEF StartIret, system, pic
<1>15. ASSUME SyscallHandler PROVE QuietInv'
  BY <1>15 DEF SyscallHandler, CallTo, system, pic
<1>16. ASSUME Task1Zero PROVE QuietInv'
  BY <1>16 DEF Task1Zero, Fetch, Zeroed, system, pic
<1>17. ASSUME Task1Load PROVE QuietInv'
  BY <1>17 DEF Task1Load, Fetch, Loaded, system, pic
<1>18. ASSUME Task1Store PROVE QuietInv'
  BY <1>18 DEF Task1Store, Fetch, Stored, system, pic
<1>19. ASSUME Task2Point PROVE QuietInv'
  BY <1>19 DEF Task2Point, Fetch, Pointed, system, pic
<1>20. ASSUME Task2Int PROVE QuietInv'
  BY <1>20 DEF Task2Int, Fetch, EnterGate, Trapped, system, pic
<1>21. ASSUME Exception PROVE QuietInv'
  BY <1>21, ExceptionPoint DEF Exception, system, pic
<1>22. ASSUME NEW i \in Devices \cup {Pic!Timer}, Interrupt(i)
       PROVE  QuietInv'
  <2>1. i \in irr
    BY <1>22, OfferedIsLatched, DeviceAssumption
       DEF Interrupt, Pic!Acknowledge, Pic!Timer, Pic!Cascade
  <2>2. /\ frame' = cpu /\ start' = start
        /\ tasks' = tasks /\ current' = current
        /\ irr' = irr \ {i}
        /\ cpu'.eip = Vector(i)
    BY <1>22 DEF Interrupt, EnterGate, Pic!Acknowledge
  <2>3. \/ i = Pic!Timer /\ cpu'.eip = "clk_save"
        \/ i # Pic!Timer /\ cpu'.eip \in {"ack_pic1", "ack_pic2"}
    <3>1. idt.clock = "clk_save"
      BY <1>22, InterruptPoint
    <3> QED
      BY <2>2, <3>1 DEF Vector
  <2>4. CASE cpu.eip = "start_iret"
    <3>1. Pic!Timer \notin irr /\ start.ss /\ ~tasks[current].context_saved
      BY <2>4
    <3>2. cpu'.eip \in {"ack_pic1", "ack_pic2"}
      BY <2>1, <2>3, <3>1
    <3> QED
      BY <2>2, <2>4, <3>1, <3>2
  <2>5. CASE cpu.eip # "start_iret"
    <3>1. frame'.eip # "start_iret"
      BY <2>2, <2>5
    <3> QED
      BY <2>2, <2>3, <3>1
  <2> QED
    BY <2>4, <2>5
<1>23. ASSUME Tick PROVE QuietInv'
  BY <1>23 DEF Tick, Pic!Raise, Pic!Timer, processor, system
<1>24. ASSUME NEW i \in Devices, DeviceRaise(i) PROVE QuietInv'
  BY <1>24, DeviceAssumption DEF DeviceRaise, Pic!Raise, Pic!Timer,
     processor, system
<1> QED
  BY <1>1, <1>2, <1>3, <1>4, <1>5, <1>6, <1>7, <1>8, <1>9, <1>10, <1>11,
     <1>12, <1>13, <1>14, <1>15, <1>16, <1>17, <1>18, <1>19, <1>20, <1>21,
     <1>22, <1>23, <1>24 DEF Next, Kernel, Config, Clock, UserStep

\* Nothing is saved when the kernel boots.
LEMMA QuietInit == Init => QuietInv
BY DEF Init, QuietInv, Starting, InHandler, ClockCode, NoFrame, BlankTask

\* A step or a stutter preserves it.
LEMMA QuietNext ==
  ASSUME EarlyTick = FALSE
  PROVE  QuietIInv /\ [Next]_vars => QuietIInv'
<1> SUFFICES ASSUME QuietIInv, [Next]_vars PROVE QuietIInv'
  OBVIOUS
<1>1. CASE Next
  BY <1>1, QuietStep, NextInvariant DEF QuietIInv
<1>2. CASE UNCHANGED vars
  BY <1>2, NextInvariant DEF QuietIInv, QuietInv, Starting, InHandler, Target,
     NextTask, vars, processor, pic
<1> QED
  BY <1>1, <1>2

\* The strengthened invariant holds in every state reached without early ticks.
THEOREM QuietInvariance ==
  ASSUME EarlyTick = FALSE
  PROVE  Spec => []QuietIInv
<1>1. Init => QuietIInv
  BY InitInvariant, QuietInit DEF QuietIInv
<1> QED
  BY <1>1, QuietNext, PTL DEF Spec

\* With no early tick every saved context is a ring 3 one of its own task, as
\* the comment at tp.c:154 has it.
THEOREM ContextsAreUser ==
  ASSUME EarlyTick = FALSE
  PROVE  Spec => []SavedContextIsUser
<1>1. QuietIInv => SavedContextIsUser
  BY DEF QuietIInv, QuietInv, IInv, ContextsInv, ContextInv, UserRegs, Holds,
     SavedContextIsUser
<1> QED
  BY <1>1, QuietInvariance, PTL

\* With no early tick the kernel never takes an exception.
THEOREM NeverPanics ==
  ASSUME EarlyTick = FALSE
  PROVE  Spec => []NoPanic
<1>1. QuietIInv => NoPanic
  BY DEF QuietIInv, QuietInv, NoPanic
<1> QED
  BY <1>1, QuietInvariance, PTL
=============================================================================
