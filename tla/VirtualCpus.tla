---------------------------- MODULE VirtualCpus ----------------------------
(***************************************************************************)
(* What the scheduler of tp_exam promises its two tasks: each one behaves  *)
(* as if it had a processor of its own, whose registers nobody else        *)
(* touches, and shares only the counter's page with the other.  There is   *)
(* no clock, no kernel and no interrupt here.                              *)
(***************************************************************************)
EXTENDS UserTasks

VARIABLES
  regs,      \* regs[t]: the registers of task t's own processor
  counter,   \* the shared uint32_t
  out        \* the last value sys_counter printed

vcpuVars == <<regs, counter, out>>

\* The counter's page is RAM nobody has written: any value.
VirtualInit ==
  /\ regs = [t \in Tasks |-> [eip |-> Function(t), gpr |-> Junk]]
  /\ counter \in Word
  /\ out = NoOutput

Zero ==
  /\ regs[0].eip = "task1_function"
  /\ regs' = [regs EXCEPT ![0] = Zeroed(@)]
  /\ counter' = 0
  /\ UNCHANGED out

Load ==
  /\ regs[0].eip = "task1_load"
  /\ regs' = [regs EXCEPT ![0] = Loaded(@, counter)]
  /\ UNCHANGED <<counter, out>>

Store ==
  /\ regs[0].eip = "task1_store"
  /\ regs' = [regs EXCEPT ![0] = Stored(@)]
  /\ counter' \in Incremented(regs[0].gpr)
  /\ UNCHANGED out

Point ==
  /\ regs[1].eip = "task2_function"
  /\ regs' = [regs EXCEPT ![1] = Pointed(@)]
  /\ UNCHANGED <<counter, out>>

\* sys_counter prints the shared counter and returns with EAX intact.
SysCounter ==
  /\ regs[1].eip = "task2_int"
  /\ regs' = [regs EXCEPT ![1] = Trapped(@)]
  /\ out' = counter
  /\ UNCHANGED counter

Task1 == Zero \/ Load \/ Store
Task2 == Point \/ SysCounter

VirtualNext == Task1 \/ Task2

VirtualSafety == VirtualInit /\ [][VirtualNext]_vcpuVars

\* Preemption may delay a task but not stop it.
VirtualSpec ==
  /\ VirtualSafety
  /\ WF_vcpuVars(Task1)
  /\ WF_vcpuVars(Task2)
=============================================================================
