-------------------------- MODULE SchedulerRefinement --------------------------
(***************************************************************************)
(* Scheduler implements VirtualCpus: preemption is invisible to the tasks. *)
(***************************************************************************)
EXTENDS SchedulerProofs

(***************************************************************************)
(* What the refinement needs beyond IInv: a task the handler has left has  *)
(* its registers in tasks[], and a task not yet started has none there.    *)
(***************************************************************************)
LeftInv ==
  cpu.eip \in {"clk_switch", "clk_restore", "clk_start"} =>
    \A t \in Tasks : Holds(frame, t) => tasks[t].context.regs = frame

JunkInv ==
  /\ cpu.eip = "start_iret" => cpu.gpr = Junk
  /\ frame.eip = "start_iret" => frame.gpr = Junk
  /\ \A t \in Tasks : LET regs == tasks[t].context.regs IN
       regs.eip = "start_iret" => regs.gpr = Junk

PendingInv ==
  \/ cpu.eip \in {"start_eoi", "start_iret"}
  \/ frame.eip = "start_iret" /\ cpu.eip \notin {"clk_restore", "clk_start"}
  => ~Holds(tasks[current].context.regs, current)

RefInv == LeftInv /\ JunkInv /\ PendingInv

-----------------------------------------------------------------------------
\* Every action preserves the first part of the invariant ...
LEMMA LeftInvStep == ASSUME IInv, RefInv, Next PROVE LeftInv'
<1> USE DEF RefInv, IInv, LeftInv, TypeOK, CpuInv, CurrentInv, FrameInv,
   StartInv, SpaceInv, ContextsInv, ContextInv, ChoiceInv, InRing3, NoFrame,
   NoContext, NoTask, Tasks, Unconfigured, Function, BootCode, Handlers,
   Task1Code, Task2Code, Code, Holds, UserRegs, TaskRecords
<1>1. ASSUME ConfigSegmentation PROVE LeftInv'
  BY <1>1 DEF ConfigSegmentation, Goto, memory
<1>2. ASSUME ConfigPgds PROVE LeftInv'
  BY <1>2 DEF ConfigPgds, Goto, memory
<1>3. ASSUME ConfigInterrupt PROVE LeftInv'
  BY <1>3 DEF ConfigInterrupt, Goto, memory
<1>4. ASSUME ConfigTask PROVE LeftInv'
  BY <1>4 DEF ConfigTask, Goto, system, memory
<1>5. ASSUME ConfigRun PROVE LeftInv'
  BY <1>5 DEF ConfigRun, memory
<1>6. ASSUME AckPic1 PROVE LeftInv'
  BY <1>6 DEF AckPic1, CallTo, system, memory
<1>7. ASSUME AckPic2 PROVE LeftInv'
  BY <1>7 DEF AckPic2, CallTo, system, memory
<1>8. ASSUME Return PROVE LeftInv'
  BY <1>8 DEF Return, system, memory
<1>9. ASSUME ClockSave PROVE LeftInv'
  BY <1>9 DEF ClockSave, CallTo, system, memory
<1>10. ASSUME ClockSwitch PROVE LeftInv'
  BY <1>10 DEF ClockSwitch, CallTo, NextTask, memory
<1>11. ASSUME ClockRestore PROVE LeftInv'
  BY <1>11 DEF ClockRestore, CallTo, system, memory
<1>12. ASSUME ClockStart PROVE LeftInv'
  BY <1>12 DEF ClockStart, system, memory
<1>13. ASSUME StartEoi PROVE LeftInv'
  BY <1>13 DEF StartEoi, CallTo, system, memory
<1>14. ASSUME StartIret PROVE LeftInv'
  BY <1>14 DEF StartIret, system, memory
<1>15. ASSUME SyscallHandler PROVE LeftInv'
  BY <1>15 DEF SyscallHandler, CallTo, system
<1>16. ASSUME Task1Zero PROVE LeftInv'
  BY <1>16 DEF Task1Zero, Fetch, Zeroed, system
<1>17. ASSUME Task1Load PROVE LeftInv'
  BY <1>17 DEF Task1Load, Fetch, Loaded, system, memory
<1>18. ASSUME Task1Store PROVE LeftInv'
  BY <1>18 DEF Task1Store, Fetch, Stored, system
<1>19. ASSUME Task2Point PROVE LeftInv'
  BY <1>19 DEF Task2Point, Fetch, Pointed, system, memory
<1>20. ASSUME Task2Int PROVE LeftInv'
  BY <1>20 DEF Task2Int, Fetch, EnterGate, Trapped, system, memory
<1>21. ASSUME Exception PROVE LeftInv'
  BY <1>21, ExceptionPoint DEF Exception, system, memory
<1>22. ASSUME NEW i \in Devices \cup {Pic!Timer}, Interrupt(i) PROVE
   LeftInv'
  BY <1>22, InterruptPoint DEF Interrupt, EnterGate, Vector, system, memory
<1>23. ASSUME Tick PROVE LeftInv'
  BY <1>23 DEF Tick, processor, system, memory
<1>24. ASSUME NEW i \in Devices, DeviceRaise(i) PROVE LeftInv'
  BY <1>24 DEF DeviceRaise, processor, system, memory
<1> QED
  BY <1>1, <1>2, <1>3, <1>4, <1>5, <1>6, <1>7, <1>8, <1>9, <1>10, <1>11,
     <1>12, <1>13, <1>14, <1>15, <1>16, <1>17, <1>18, <1>19, <1>20, <1>21,
     <1>22, <1>23, <1>24 DEF Next, Kernel, Config, Clock, UserStep

\* ... the second ...
LEMMA JunkInvStep == ASSUME IInv, RefInv, Next PROVE JunkInv'
<1> USE DEF RefInv, IInv, JunkInv, Registers, TypeOK, CpuInv, CurrentInv,
   FrameInv, StartInv, SpaceInv, ContextsInv, ContextInv, ChoiceInv,
   InRing3, NoFrame, NoContext, NoTask, Tasks, Unconfigured, Function,
   BootCode, Handlers, Task1Code, Task2Code, Code, Holds, UserRegs,
   TaskRecords
<1>1. ASSUME ConfigSegmentation PROVE JunkInv'
  BY <1>1 DEF ConfigSegmentation, Goto, memory
<1>2. ASSUME ConfigPgds PROVE JunkInv'
  BY <1>2 DEF ConfigPgds, Goto, memory
<1>3. ASSUME ConfigInterrupt PROVE JunkInv'
  BY <1>3 DEF ConfigInterrupt, Goto, memory
<1>4. ASSUME ConfigTask PROVE JunkInv'
  BY <1>4 DEF ConfigTask, Goto, system, memory
<1>5. ASSUME ConfigRun PROVE JunkInv'
  BY <1>5 DEF ConfigRun, memory
<1>6. ASSUME AckPic1 PROVE JunkInv'
  BY <1>6 DEF AckPic1, CallTo, system, memory
<1>7. ASSUME AckPic2 PROVE JunkInv'
  BY <1>7 DEF AckPic2, CallTo, system, memory
<1>8. ASSUME Return PROVE JunkInv'
  BY <1>8 DEF Return, system, memory
<1>9. ASSUME ClockSave PROVE JunkInv'
  BY <1>9 DEF ClockSave, CallTo, system, memory
<1>10. ASSUME ClockSwitch PROVE JunkInv'
  BY <1>10 DEF ClockSwitch, CallTo, NextTask, memory
<1>11. ASSUME ClockRestore PROVE JunkInv'
  BY <1>11 DEF ClockRestore, CallTo, system, memory
<1>12. ASSUME ClockStart PROVE JunkInv'
  BY <1>12 DEF ClockStart, system, memory
<1>13. ASSUME StartEoi PROVE JunkInv'
  BY <1>13 DEF StartEoi, CallTo, system, memory
<1>14. ASSUME StartIret PROVE JunkInv'
  BY <1>14 DEF StartIret, system, memory
<1>15. ASSUME SyscallHandler PROVE JunkInv'
  BY <1>15 DEF SyscallHandler, CallTo, system
<1>16. ASSUME Task1Zero PROVE JunkInv'
  BY <1>16 DEF Task1Zero, Fetch, Zeroed, system
<1>17. ASSUME Task1Load PROVE JunkInv'
  BY <1>17 DEF Task1Load, Fetch, Loaded, system, memory
<1>18. ASSUME Task1Store PROVE JunkInv'
  BY <1>18 DEF Task1Store, Fetch, Stored, system
<1>19. ASSUME Task2Point PROVE JunkInv'
  BY <1>19 DEF Task2Point, Fetch, Pointed, system, memory
<1>20. ASSUME Task2Int PROVE JunkInv'
  BY <1>20 DEF Task2Int, Fetch, EnterGate, Trapped, system, memory
<1>21. ASSUME Exception PROVE JunkInv'
  BY <1>21, ExceptionPoint DEF Exception, system, memory
<1>22. ASSUME NEW i \in Devices \cup {Pic!Timer}, Interrupt(i) PROVE
   JunkInv'
  BY <1>22, InterruptPoint DEF Interrupt, EnterGate, Vector, system, memory
<1>23. ASSUME Tick PROVE JunkInv'
  BY <1>23 DEF Tick, processor, system, memory
<1>24. ASSUME NEW i \in Devices, DeviceRaise(i) PROVE JunkInv'
  BY <1>24 DEF DeviceRaise, processor, system, memory
<1> QED
  BY <1>1, <1>2, <1>3, <1>4, <1>5, <1>6, <1>7, <1>8, <1>9, <1>10, <1>11,
     <1>12, <1>13, <1>14, <1>15, <1>16, <1>17, <1>18, <1>19, <1>20, <1>21,
     <1>22, <1>23, <1>24 DEF Next, Kernel, Config, Clock, UserStep

\* ... and the third.
LEMMA PendingInvStep == ASSUME IInv, RefInv, Next PROVE PendingInv'
<1> USE DEF RefInv, IInv, PendingInv, TypeOK, CpuInv, CurrentInv, FrameInv,
   StartInv, SpaceInv, ContextsInv, ContextInv, ChoiceInv, InRing3, NoFrame,
   NoContext, NoTask, Tasks, Unconfigured, Function, BootCode, Handlers,
   Task1Code, Task2Code, Code, Holds, UserRegs, TaskRecords
<1>1. ASSUME ConfigSegmentation PROVE PendingInv'
  BY <1>1 DEF ConfigSegmentation, Goto, memory
<1>2. ASSUME ConfigPgds PROVE PendingInv'
  BY <1>2 DEF ConfigPgds, Goto, memory
<1>3. ASSUME ConfigInterrupt PROVE PendingInv'
  BY <1>3 DEF ConfigInterrupt, Goto, memory
<1>4. ASSUME ConfigTask PROVE PendingInv'
  BY <1>4 DEF ConfigTask, Goto, system, memory
<1>5. ASSUME ConfigRun PROVE PendingInv'
  BY <1>5 DEF ConfigRun, memory
<1>6. ASSUME AckPic1 PROVE PendingInv'
  BY <1>6 DEF AckPic1, CallTo, system, memory
<1>7. ASSUME AckPic2 PROVE PendingInv'
  BY <1>7 DEF AckPic2, CallTo, system, memory
<1>8. ASSUME Return PROVE PendingInv'
  BY <1>8 DEF Return, system, memory
<1>9. ASSUME ClockSave PROVE PendingInv'
  BY <1>9 DEF ClockSave, CallTo, system, memory
<1>10. ASSUME ClockSwitch PROVE PendingInv'
  BY <1>10 DEF ClockSwitch, CallTo, NextTask, memory
<1>11. ASSUME ClockRestore PROVE PendingInv'
  BY <1>11 DEF ClockRestore, CallTo, system, memory
<1>12. ASSUME ClockStart PROVE PendingInv'
  BY <1>12 DEF ClockStart, system, memory
<1>13. ASSUME StartEoi PROVE PendingInv'
  BY <1>13 DEF StartEoi, CallTo, system, memory
<1>14. ASSUME StartIret PROVE PendingInv'
  BY <1>14 DEF StartIret, system, memory
<1>15. ASSUME SyscallHandler PROVE PendingInv'
  BY <1>15 DEF SyscallHandler, CallTo, system
<1>16. ASSUME Task1Zero PROVE PendingInv'
  BY <1>16 DEF Task1Zero, Fetch, Zeroed, system
<1>17. ASSUME Task1Load PROVE PendingInv'
  BY <1>17 DEF Task1Load, Fetch, Loaded, system, memory
<1>18. ASSUME Task1Store PROVE PendingInv'
  BY <1>18 DEF Task1Store, Fetch, Stored, system
<1>19. ASSUME Task2Point PROVE PendingInv'
  BY <1>19 DEF Task2Point, Fetch, Pointed, system, memory
<1>20. ASSUME Task2Int PROVE PendingInv'
  BY <1>20 DEF Task2Int, Fetch, EnterGate, Trapped, system, memory
<1>21. ASSUME Exception PROVE PendingInv'
  BY <1>21, ExceptionPoint DEF Exception, system, memory
<1>22. ASSUME NEW i \in Devices \cup {Pic!Timer}, Interrupt(i) PROVE
   PendingInv'
  BY <1>22, InterruptPoint DEF Interrupt, EnterGate, Vector, system, memory
<1>23. ASSUME Tick PROVE PendingInv'
  BY <1>23 DEF Tick, processor, system, memory
<1>24. ASSUME NEW i \in Devices, DeviceRaise(i) PROVE PendingInv'
  BY <1>24 DEF DeviceRaise, processor, system, memory
<1> QED
  BY <1>1, <1>2, <1>3, <1>4, <1>5, <1>6, <1>7, <1>8, <1>9, <1>10, <1>11,
     <1>12, <1>13, <1>14, <1>15, <1>16, <1>17, <1>18, <1>19, <1>20, <1>21,
     <1>22, <1>23, <1>24 DEF Next, Kernel, Config, Clock, UserStep

\* No step but those of the programs and syscall_handler's changes what a task
\* has in its registers, wherever the kernel moves them.
LEMMA KernelStutters ==
  ASSUME IInv, RefInv, Next, NEW t \in Tasks,
         ~\E u \in Tasks : UserStep(u) /\ ~Task2Int, ~SyscallHandler
  PROVE  VirtualRegisters(t)' = VirtualRegisters(t)
<1> USE DEF RefInv, LeftInv, JunkInv, PendingInv, VirtualRegisters,
   UserRegisters, IInv, TypeOK, CpuInv, CurrentInv, FrameInv, StartInv,
   SpaceInv, ContextsInv, ContextInv, ChoiceInv, InRing3, NoFrame,
   NoContext, NoTask, Tasks, Unconfigured, Function, BootCode, Handlers,
   Task1Code, Task2Code, Code, Holds, UserRegs
<1>1. ASSUME ConfigSegmentation PROVE VirtualRegisters(t)' =
   VirtualRegisters(t)
  BY <1>1 DEF ConfigSegmentation, Goto
<1>2. ASSUME ConfigPgds PROVE VirtualRegisters(t)' = VirtualRegisters(t)
  BY <1>2 DEF ConfigPgds, Goto
<1>3. ASSUME ConfigInterrupt PROVE VirtualRegisters(t)' =
   VirtualRegisters(t)
  BY <1>3 DEF ConfigInterrupt, Goto
<1>4. ASSUME ConfigTask PROVE VirtualRegisters(t)' = VirtualRegisters(t)
  BY <1>4 DEF ConfigTask, Goto, system
<1>5. ASSUME ConfigRun PROVE VirtualRegisters(t)' = VirtualRegisters(t)
  BY <1>5 DEF ConfigRun
<1>6. ASSUME AckPic1 PROVE VirtualRegisters(t)' = VirtualRegisters(t)
  BY <1>6 DEF AckPic1, CallTo, system
<1>7. ASSUME AckPic2 PROVE VirtualRegisters(t)' = VirtualRegisters(t)
  BY <1>7 DEF AckPic2, CallTo, system
<1>8. ASSUME Return PROVE VirtualRegisters(t)' = VirtualRegisters(t)
  BY <1>8 DEF Return, system
<1>9. ASSUME ClockSave PROVE VirtualRegisters(t)' = VirtualRegisters(t)
  BY <1>9 DEF ClockSave, CallTo, system
<1>10. ASSUME ClockSwitch PROVE VirtualRegisters(t)' = VirtualRegisters(t)
  BY <1>10 DEF ClockSwitch, CallTo, NextTask
<1>11. ASSUME ClockRestore PROVE VirtualRegisters(t)' = VirtualRegisters(t)
  BY <1>11 DEF ClockRestore, CallTo, system
<1>12. ASSUME ClockStart PROVE VirtualRegisters(t)' = VirtualRegisters(t)
  BY <1>12 DEF ClockStart, system
<1>13. ASSUME StartEoi PROVE VirtualRegisters(t)' = VirtualRegisters(t)
  BY <1>13 DEF StartEoi, CallTo, system
<1>14. ASSUME StartIret PROVE VirtualRegisters(t)' = VirtualRegisters(t)
  BY <1>14 DEF StartIret, system
<1>15. ASSUME Task2Int PROVE VirtualRegisters(t)' = VirtualRegisters(t)
  BY <1>15 DEF Task2Int, Fetch, EnterGate, Trapped, system
<1>16. ASSUME Exception PROVE VirtualRegisters(t)' = VirtualRegisters(t)
  BY <1>16, ExceptionPoint DEF Exception, system
<1>17. ASSUME NEW i \in Devices \cup {Pic!Timer}, Interrupt(i) PROVE
   VirtualRegisters(t)' = VirtualRegisters(t)
  BY <1>17, InterruptPoint DEF Interrupt, EnterGate, Vector, system
<1>18. ASSUME Tick PROVE VirtualRegisters(t)' = VirtualRegisters(t)
  BY <1>18 DEF Tick, processor, system
<1>19. ASSUME NEW i \in Devices, DeviceRaise(i) PROVE VirtualRegisters(t)' =
   VirtualRegisters(t)
  BY <1>19 DEF DeviceRaise, processor, system
<1> QED
  BY <1>1, <1>2, <1>3, <1>4, <1>5, <1>6, <1>7, <1>8, <1>9, <1>10, <1>11,
     <1>12, <1>13, <1>14, <1>15, <1>16, <1>17, <1>18, <1>19 DEF Next,
     Kernel, Config, Clock, UserStep

\* An instruction of a task moves that task's registers and no other's.
LEMMA TaskMoves ==
  ASSUME IInv, RefInv, NEW t \in Tasks, InRing3, cpu.eip \in Code(t),
         UNCHANGED <<frame, tasks>>,
         cpu'.cs = cpu.cs, cpu'.eip \in Code(t)
  PROVE  /\ VirtualRegisters(t) = UserRegisters(cpu)
         /\ VirtualRegisters(t)' = UserRegisters(cpu')
         /\ \A u \in Tasks \ {t} : VirtualRegisters(u)' = VirtualRegisters(u)
<1>1. Holds(cpu, t) /\ Holds(cpu', t)
  BY DEF InRing3, Holds
<1>2. frame = NoFrame /\ cpu.eip # "syscall_handler"
  BY DEF IInv, FrameInv, Code, Task1Code, Task2Code, Handlers
<1>3. ASSUME NEW u \in Tasks \ {t}
      PROVE  /\ ~Holds(cpu, u) /\ ~Holds(cpu', u)
             /\ ~Holds(frame, u) /\ ~Holds(frame', u)
  BY <1>2, <1>3 DEF Holds, Code, Task1Code, Task2Code, Tasks, NoFrame
<1> QED
  BY <1>1, <1>3 DEF VirtualRegisters, UserRegisters, Holds

\* Two updates of a record of two fields replace it.
LEMMA BothUpdated ==
  ASSUME NEW e, NEW f, NEW g, NEW h
  PROVE  [[eip |-> e, gpr |-> g] EXCEPT !.eip = f, !.gpr = h]
           = [eip |-> f, gpr |-> h]
<1> DEFINE r == [[eip |-> e, gpr |-> g] EXCEPT !.eip = f]
<1>1. r = [eip |-> f, gpr |-> g]
  OBVIOUS
<1>2. [[eip |-> e, gpr |-> g] EXCEPT !.eip = f, !.gpr = h]
        = [r EXCEPT !.gpr = h]
  OBVIOUS
<1> HIDE DEF r
<1> QED
  BY <1>1, <1>2

\* A step of task1_function is one of task 1 on its own processor.
LEMMA Task1Simulated ==
  ASSUME IInv, RefInv, Task1Zero \/ Task1Load \/ Task1Store
  PROVE  Virtual!Task1
<1> DEFINE R == [t \in Tasks |-> VirtualRegisters(t)]
<1>1. /\ InRing3 /\ 0 \in Tasks /\ 1 \in Tasks /\ cpu.eip \in Code(0)
      /\ UNCHANGED <<frame, tasks>>
      /\ cpu'.cs = cpu.cs /\ cpu'.eip \in Code(0)
  BY DEF Task1Zero, Task1Load, Task1Store, Fetch, Zeroed, Loaded, Stored, Code,
     Task1Code, Tasks, IInv, TypeOK, Registers
<1>2. /\ VirtualRegisters(0) = UserRegisters(cpu)
      /\ VirtualRegisters(0)' = UserRegisters(cpu')
      /\ VirtualRegisters(1)' = VirtualRegisters(1)
  BY <1>1, TaskMoves
<1>3. R[0] = UserRegisters(cpu) /\ R' = [R EXCEPT ![0] = UserRegisters(cpu')]
  BY <1>2 DEF Tasks
<1>4. R[0] = [eip |-> cpu.eip, gpr |-> cpu.gpr]
  BY <1>3 DEF UserRegisters
<1>10. R[0].eip = cpu.eip /\ R[0].gpr = cpu.gpr
  BY <1>4
<1> HIDE DEF R
<1>5. CASE Task1Zero
  <2>1. UserRegisters(cpu') = Virtual!Zeroed(R[0])
    BY <1>3, <1>5 DEF Task1Zero, Zeroed, UserRegisters, Virtual!Zeroed, IInv,
       TypeOK, Registers
  <2> QED
    BY <1>3, <1>10, <1>5, <2>1
       DEF Task1Zero, Fetch, Virtual!Task1, Virtual!Zero, R
<1>6. CASE Task1Load
  <2>1. UserRegisters(cpu') = [eip |-> "task1_store", gpr |-> counter]
    BY <1>6 DEF Task1Load, Loaded, UserRegisters, IInv, TypeOK, Registers
  <2>2. Virtual!Loaded(R[0], counter) = [eip |-> "task1_store", gpr |-> counter]
    BY <1>4, BothUpdated, Zenon DEF Virtual!Loaded
  <2> QED
    BY <1>3, <1>10, <1>6, <2>1, <2>2
       DEF Task1Load, Fetch, memory, Virtual!Task1, Virtual!Load, R
<1>7. CASE Task1Store
  <2>1. UserRegisters(cpu') = Virtual!Stored(R[0])
    BY <1>3, <1>7 DEF Task1Store, Stored, UserRegisters, Virtual!Stored, IInv,
       TypeOK, Registers
  <2> QED
    BY <1>3, <1>10, <1>7, <2>1
       DEF Task1Store, Fetch, Virtual!Task1, Virtual!Store, Incremented, Word,
           Virtual!Incremented, Virtual!Word, R
<1> QED
  BY <1>5, <1>6, <1>7

\* Loading EAX is the step before the trap on task 2's own processor.
LEMMA Task2PointSimulated ==
  ASSUME IInv, RefInv, Task2Point
  PROVE  Virtual!Point
<1> DEFINE R == [t \in Tasks |-> VirtualRegisters(t)]
<1>1. /\ InRing3 /\ 0 \in Tasks /\ 1 \in Tasks /\ cpu.eip \in Code(1)
      /\ UNCHANGED <<frame, tasks>>
      /\ cpu'.cs = cpu.cs /\ cpu'.eip \in Code(1)
  BY DEF Task2Point, Fetch, Pointed, Code, Task2Code, Tasks, IInv, TypeOK,
     Registers
<1>2. /\ VirtualRegisters(1) = UserRegisters(cpu)
      /\ VirtualRegisters(1)' = UserRegisters(cpu')
      /\ VirtualRegisters(0)' = VirtualRegisters(0)
  BY <1>1, TaskMoves
<1>3. R[1] = UserRegisters(cpu) /\ R' = [R EXCEPT ![1] = UserRegisters(cpu')]
  BY <1>2 DEF Tasks
<1>4. R[1] = [eip |-> cpu.eip, gpr |-> cpu.gpr]
  BY <1>3 DEF UserRegisters
<1>10. R[1].eip = cpu.eip
  BY <1>4
<1> HIDE DEF R
<1>5. UserRegisters(cpu') = [eip |-> "task2_int", gpr |-> CounterPtr]
  BY DEF Task2Point, Pointed, UserRegisters, IInv, TypeOK, Registers
<1>6. Virtual!Pointed(R[1]) = [eip |-> "task2_int", gpr |-> CounterPtr]
  BY <1>4, BothUpdated, Zenon DEF Virtual!Pointed
<1> QED
  BY <1>3, <1>10, <1>5, <1>6 DEF Task2Point, Fetch, memory, Virtual!Point, R

\* int $0x80 takes effect in the handler: it prints through the pointer task 2
\* put in EAX, which the trap and any earlier preemption left as it was.
LEMMA SyscallSimulated ==
  ASSUME IInv, RefInv, SyscallHandler
  PROVE  Virtual!SysCounter
<1> DEFINE R == [t \in Tasks |-> VirtualRegisters(t)]
<1>1. /\ current = 1 /\ Holds(frame, 1) /\ cpu.cs = "c0_sel"
      /\ frame.eip = "task2_function" /\ frame.gpr = CounterPtr
      /\ cr3 = Pgd(1)
  BY DEF SyscallHandler, IInv, CpuInv, FrameInv, SpaceInv, InRing3, Handlers,
     UserRegs, Holds, Code, Task1Code, Task2Code, Tasks, NoTask, BootCode
<1>2. cpu'.cs = "c0_sel" /\ cpu'.eip = "isr_return" /\ UNCHANGED <<frame, tasks>>
  BY <1>1 DEF SyscallHandler, CallTo, IInv, TypeOK, Registers
<1>3. /\ VirtualRegisters(1) = [eip |-> "task2_int", gpr |-> CounterPtr]
      /\ VirtualRegisters(1)' = [eip |-> "task2_function", gpr |-> CounterPtr]
      /\ VirtualRegisters(0)' = VirtualRegisters(0)
  BY <1>1, <1>2 DEF SyscallHandler, VirtualRegisters, UserRegisters, Holds,
     Code, Task1Code, Task2Code
<1>4. out' = counter /\ counter' = counter
  BY <1>1 DEF SyscallHandler
<1>5. /\ R[1] = [eip |-> "task2_int", gpr |-> CounterPtr]
      /\ R' = [R EXCEPT ![1] = [eip |-> "task2_function", gpr |-> CounterPtr]]
  BY <1>3 DEF Tasks
<1> HIDE DEF R
<1>6. R[1].eip = "task2_int"
  BY <1>5
<1>7. Virtual!Trapped(R[1]) = [eip |-> "task2_function", gpr |-> CounterPtr]
  BY <1>5 DEF Virtual!Trapped
<1> QED
  BY <1>4, <1>5, <1>6, <1>7 DEF Virtual!SysCounter, R

\* Every step of the kernel is a step of the virtual processors or none.
LEMMA Simulation ==
  ASSUME IInv, RefInv, [Next]_vars
  PROVE  [Virtual!VirtualNext]_Virtual!vcpuVars
<1>1. CASE Task1Zero \/ Task1Load \/ Task1Store
  BY <1>1, Task1Simulated DEF Virtual!VirtualNext
<1>2. CASE Task2Point
  BY <1>2, Task2PointSimulated DEF Virtual!VirtualNext, Virtual!Task2
<1>3. CASE SyscallHandler
  BY <1>3, SyscallSimulated DEF Virtual!VirtualNext, Virtual!Task2
<1>4. CASE /\ Next /\ ~SyscallHandler
           /\ ~\E t \in Tasks : UserStep(t) /\ ~Task2Int
  <2>1. \A t \in Tasks : VirtualRegisters(t)' = VirtualRegisters(t)
    BY <1>4, KernelStutters
  <2>2. UNCHANGED memory
    BY <1>4 DEF Next, Kernel, Config, Clock, UserStep, ConfigSegmentation,
       ConfigPgds, ConfigInterrupt, ConfigTask, ConfigRun, AckPic1, AckPic2,
       Return, ClockSave, ClockSwitch, ClockRestore, ClockStart, StartEoi,
       StartIret, Task2Int, Exception, Interrupt, Tick, DeviceRaise
  <2> QED
    BY <2>1, <2>2 DEF memory, Virtual!vcpuVars
<1>5. CASE UNCHANGED vars
  BY <1>5 DEF vars, processor, memory, Virtual!vcpuVars, VirtualRegisters,
     UserRegisters, Holds
<1> QED
  BY <1>1, <1>2, <1>3, <1>4, <1>5 DEF UserStep

\* The kernel boots into the initial state of the virtual processors.
LEMMA InitialSimulation == Init => RefInv /\ Virtual!VirtualInit
BY DEF Init, RefInv, LeftInv, JunkInv, PendingInv, BlankTask, NoContext,
   NoFrame, VirtualRegisters, UserRegisters, Holds, Tasks, Function, Code,
   Task1Code, Task2Code, Virtual!VirtualInit, Virtual!Tasks, Virtual!Function,
   Virtual!Word, Word, NoOutput, Virtual!NoOutput

\* The invariant of the refinement is inductive, relative to IInv.
LEMMA RefNext == ASSUME IInv, RefInv, [Next]_vars PROVE RefInv'
<1>1. CASE Next
  BY <1>1, LeftInvStep, JunkInvStep, PendingInvStep DEF RefInv
<1>2. CASE UNCHANGED vars
  BY <1>2 DEF vars, processor, RefInv, LeftInv, JunkInv, PendingInv, Holds
<1> QED
  BY <1>1, <1>2

\* Preemption is invisible: whatever the ticks and the devices do, early ticks
\* included, the tasks compute what they would on processors of their own.
THEOREM Refinement == Spec => ImplementsVirtualCpus
<1>1. Init => Virtual!VirtualInit /\ RefInv
  BY InitialSimulation
<1>2. IInv /\ RefInv /\ [Next]_vars => RefInv'
  BY RefNext
<1>3. IInv /\ RefInv /\ [Next]_vars =>
        [Virtual!VirtualNext]_Virtual!vcpuVars
  BY Simulation
<1> QED
  BY <1>1, <1>2, <1>3, Invariance, PTL
     DEF Spec, ImplementsVirtualCpus, Virtual!VirtualSafety

-----------------------------------------------------------------------------
(***************************************************************************)
(* The counter, by way of the virtual processors: on its own, task 1 finds *)
(* what it has loaded still there when it stores.                          *)
(***************************************************************************)
LoadedInv ==
  VirtualRegisters(0).eip = "task1_store" => VirtualRegisters(0).gpr = counter

\* Nothing but task 1's own steps changes its registers or the counter, ...
LEMMA LoadedInvStep ==
  ASSUME LoadedInv, [Virtual!VirtualNext]_Virtual!vcpuVars
  PROVE  LoadedInv'
<1> DEFINE R == [t \in Tasks |-> VirtualRegisters(t)]
<1>1. /\ 0 \in Tasks /\ 1 \in Tasks /\ DOMAIN R = Tasks
      /\ R[0] = VirtualRegisters(0) /\ R'[0] = VirtualRegisters(0)'
  BY DEF Tasks
<1>2. PICK e, g : R[0] = [eip |-> e, gpr |-> g]
  BY <1>1 DEF VirtualRegisters, UserRegisters
<1> HIDE DEF R
<1>3. CASE Virtual!Zero \/ Virtual!Store
  <2>1. R'[0] = [R[0] EXCEPT !.eip = "task1_load"]
    BY <1>1, <1>3 DEF Virtual!Zero, Virtual!Store, Virtual!Zeroed, Virtual!Stored, R
  <2>2. R'[0].eip = "task1_load"
    BY <1>2, <2>1
  <2> QED BY <1>1, <2>2 DEF LoadedInv
<1>4. CASE Virtual!Load
  <2>1. R'[0] = [R[0] EXCEPT !.eip = "task1_store", !.gpr = counter]
    BY <1>1, <1>4 DEF Virtual!Load, Virtual!Loaded, R
  <2>2. R'[0] = [eip |-> "task1_store", gpr |-> counter]
    BY <1>2, <2>1, BothUpdated, Zenon
  <2>3. R'[0].gpr = counter /\ counter' = counter
    BY <1>4, <2>2 DEF Virtual!Load
  <2> QED BY <1>1, <2>3 DEF LoadedInv
<1>5. CASE Virtual!Point \/ Virtual!SysCounter
  <2>1. /\ counter' = counter
        /\ \/ R' = [R EXCEPT ![1] = Virtual!Pointed(@)]
           \/ R' = [R EXCEPT ![1] = Virtual!Trapped(@)]
    BY <1>5 DEF Virtual!Point, Virtual!SysCounter, R
  <2>2. R'[0] = R[0]
    BY <1>1, <2>1
  <2> QED BY <1>1, <2>1, <2>2 DEF LoadedInv
<1>6. CASE UNCHANGED Virtual!vcpuVars
  <2>1. R'[0] = R[0] /\ counter' = counter
    BY <1>6 DEF Virtual!vcpuVars, R
  <2> QED BY <1>1, <2>1 DEF LoadedInv
<1> QED
  BY <1>3, <1>4, <1>5, <1>6 DEF Virtual!VirtualNext, Virtual!Task1, Virtual!Task2

\* ... so the store writes the successor of what the counter still is.
LEMMA CounterStep ==
  ASSUME IInv, RefInv, LoadedInv, [Next]_vars
  PROVE  [\/ counter' = (counter + 1) % W
          \/ counter' = 0 /\ cpu.eip = "task1_function"]_counter
<1>1. CASE Task1Store
  <2>1. /\ InRing3 /\ 0 \in Tasks /\ cpu.eip \in Code(0) /\ cpu'.eip \in Code(0)
        /\ UNCHANGED <<frame, tasks>> /\ cpu'.cs = cpu.cs
    BY <1>1 DEF Task1Store, Fetch, Stored, Code, Task1Code, Tasks, IInv, TypeOK,
       Registers
  <2>2. VirtualRegisters(0) = [eip |-> cpu.eip, gpr |-> cpu.gpr]
    BY <2>1, TaskMoves DEF UserRegisters
  <2>3. cpu.gpr = counter /\ counter \in Word
    BY <1>1, <2>2 DEF LoadedInv, Task1Store, Fetch, IInv, TypeOK
  <2>4. counter' = (counter + 1) % W
    BY <1>1, <2>3 DEF Task1Store, Incremented
  <2> QED BY <2>4
<1>2. CASE Task1Zero
  BY <1>2 DEF Task1Zero, Fetch
<1>3. CASE UNCHANGED vars
  BY <1>3 DEF vars, memory
<1>4. CASE Next /\ ~Task1Store /\ ~Task1Zero
  BY <1>4 DEF Next, Kernel, Config, Clock, UserStep, ConfigSegmentation,
     ConfigPgds, ConfigInterrupt, ConfigTask, ConfigRun, AckPic1, AckPic2,
     Return, ClockSave, ClockSwitch, ClockRestore, ClockStart, StartEoi,
     StartIret, SyscallHandler, Task1Load, Task2Point, Task2Int, Exception,
     Interrupt, Tick, DeviceRaise, memory
<1> QED BY <1>1, <1>2, <1>3, <1>4

\* Increments are never lost: however many ticks come between task 1's load and
\* its store, and whatever task 2 and the kernel do meanwhile, the counter
\* moves to its successor, for every word size.
THEOREM CountsOn == Spec => CounterCounts
<1>1. Init => RefInv /\ Virtual!VirtualInit
  BY InitialSimulation
<1>2. Init => LoadedInv
  BY DEF Init, LoadedInv, BlankTask, NoContext, NoFrame, VirtualRegisters,
     UserRegisters, Holds, Tasks, Function, Code, Task1Code, Task2Code
<1>3. IInv /\ RefInv /\ [Next]_vars => RefInv'
  BY RefNext
<1>4. IInv /\ RefInv /\ LoadedInv /\ [Next]_vars => LoadedInv'
  BY Simulation, LoadedInvStep
<1>5. IInv /\ RefInv /\ LoadedInv /\ [Next]_vars =>
        [\/ counter' = (counter + 1) % W
         \/ counter' = 0 /\ cpu.eip = "task1_function"]_counter
  BY CounterStep
<1> QED
  BY <1>1, <1>2, <1>3, <1>4, <1>5, Invariance, PTL DEF Spec, CounterCounts
=============================================================================
