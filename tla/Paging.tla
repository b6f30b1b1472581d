------------------------------- MODULE Paging -------------------------------
(***************************************************************************)
(* The address spaces of tp_exam/tp.c: config_pgds fills ten page tables   *)
(* in memory nobody has cleared, enables paging, and from then on tasks    *)
(* that may access whatever their tables let them run under one of two     *)
(* page directories.                                                       *)
(*                                                                         *)
(* Memory is counted in frames of 4 KB.  A virtual page is a pair: d, its  *)
(* index in a page directory (pd32_get_idx), and i, its index in a page    *)
(* table (pt32_get_idx).                                                   *)
(***************************************************************************)
EXTENDS Integers

CONSTANTS
  N,        \* entries of a table, PDE32_PER_PD (1024)
  First,    \* the frame of pgd, first of the ten tables (0x350)
  Shared    \* the frame the tasks share (0xe00)

(***************************************************************************)
(* The tables lie in the first N frames, the kernel's, and the shared      *)
(* frame above the 3 * N that the kernel and the tasks map one to one.     *)
(***************************************************************************)
ASSUME LayoutAssumption ==
  /\ N \in Nat /\ N >= 5
  /\ First \in Nat /\ First + 9 < N
  /\ Shared \in Nat /\ Shared >= 3 * N

Index  == 0 .. N - 1
Tasks  == {0, 1}
NoTask == -1
Kernel == -2   \* who accesses memory for a task

pgd         == First
pgd_ptb     == First + 1
pgd_task(t) == First + 2 + 4 * t      \* pgd_task_1, pgd_task_2
ptb(t, k)   == First + 3 + 4 * t + k  \* pgd_task_1_ptb_0 ... pgd_task_2_ptb_2
Tables      == First .. First + 9

\* An entry of a page directory or of a page table.
Null       == [p |-> FALSE, usr |-> FALSE, addr |-> 0]
Krn(pfn)   == [p |-> TRUE, usr |-> FALSE, addr |-> pfn]
Usr(pfn)   == [p |-> TRUE, usr |-> TRUE, addr |-> pfn]

\* What a frame holds that has not been written as a table.
Garbage == Usr(0)

VARIABLES
  mem,       \* mem[table][index]: the entries of the ten tables
  pc, i,     \* the next statement of config_pgds, and its loop index
  cr3,       \* the page directory in use
  paging,    \* CR0.PG
  current,   \* current_task_idx
  bus        \* the last access through a user page: by whom, to which frame

vars == <<mem, pc, i, cr3, paging, current, bus>>

\* pg_set_entry(&table[index], ...)
PgSet(m, table, index, entry) ==
  [m EXCEPT ![table] = [m[table] EXCEPT ![index] = entry]]

Init ==
  /\ mem \in [Tables -> {[j \in Index |-> Null], [j \in Index |-> Garbage]}]
  /\ pc = "memset" /\ i = 0
  /\ cr3 = 0 /\ paging = FALSE
  /\ current = NoTask
  /\ bus = [who |-> NoTask, frame |-> 0]
-----------------------------------------------------------------------------
(***************************************************************************)
(* config_pgds.                                                            *)
(***************************************************************************)

\* (faulty: the last table is not cleared)
MemsetNine ==
  /\ pc = "memset"
  /\ mem' = [mem EXCEPT ![First + i] = [j \in Index |-> Null]]
  /\ IF i < 8 THEN i' = i + 1 /\ pc' = pc ELSE i' = 0 /\ pc' = "map"
  /\ UNCHANGED <<cr3, paging, current, bus>>

\* Ten memsets, in the order of the tables.
Memset ==
  /\ pc = "memset"
  /\ mem' = [mem EXCEPT ![First + i] = [j \in Index |-> Null]]
  /\ IF i < 9 THEN i' = i + 1 /\ pc' = pc ELSE i' = 0 /\ pc' = "map"
  /\ UNCHANGED <<cr3, paging, current, bus>>

\* An iteration of the loop: the kernel in the three spaces, and each task.
MappedKernel == PgSet(PgSet(PgSet(mem, pgd_ptb, i, Krn(i)),
                            ptb(0, 0), i, Krn(i)), ptb(1, 0), i, Krn(i))

\* (faulty: both tasks are given the first task's frames)
MappedSame == PgSet(PgSet(MappedKernel, ptb(0, 1), i, Usr(N + i)),
                    ptb(1, 1), i, Usr(N + i))

Mapped == PgSet(PgSet(MappedKernel, ptb(0, 1), i, Usr(N + i)),
                ptb(1, 1), i, Usr(2 * N + i))

\* (faulty: the loop runs one page too far)
MapOneMore ==
  /\ pc = "map"
  /\ mem' = IF i < N THEN Mapped ELSE mem
  /\ i' = i + 1
  /\ pc' = IF i' <= N THEN pc ELSE "share"
  /\ UNCHANGED <<cr3, paging, current, bus>>

\* (faulty: the loop stops one page early)
MapOneLess ==
  /\ pc = "map"
  /\ mem' = Mapped
  /\ i' = i + 1
  /\ pc' = IF i' < N - 1 THEN pc ELSE "share"
  /\ UNCHANGED <<cr3, paging, current, bus>>

Map ==
  /\ pc = "map"
  /\ mem' = Mapped
  /\ i' = i + 1
  /\ pc' = IF i' < N THEN pc ELSE "share"
  /\ UNCHANGED <<cr3, paging, current, bus>>

Share ==
  /\ pc = "share"
  /\ mem' = PgSet(PgSet(mem, ptb(0, 2), 0, Usr(Shared)),
                  ptb(1, 2), 0, Usr(Shared))
  /\ pc' = "link_kernel"
  /\ UNCHANGED <<i, cr3, paging, current, bus>>

\* The first entry of each directory.
LinkKernel ==
  /\ pc = "link_kernel"
  /\ mem' = PgSet(PgSet(PgSet(mem, pgd, 0, Krn(pgd_ptb)),
                        pgd_task(0), 0, Krn(ptb(0, 0))),
                  pgd_task(1), 0, Krn(ptb(1, 0)))
  /\ pc' = "link_task"
  /\ UNCHANGED <<i, cr3, paging, current, bus>>

\* A task's own 4 MB: pgd_task_1[1], pgd_task_2[2].
LinkTask ==
  /\ pc = "link_task"
  /\ mem' = PgSet(PgSet(mem, pgd_task(0), 1, Usr(ptb(0, 1))),
                  pgd_task(1), 2, Usr(ptb(1, 1)))
  /\ pc' = "link_shared"
  /\ UNCHANGED <<i, cr3, paging, current, bus>>

\* (faulty: the shared page replaces task 2's own memory)
LinkSharedSame ==
  /\ pc = "link_shared"
  /\ mem' = PgSet(PgSet(mem, pgd_task(1), 2, Usr(ptb(1, 2))),
                  pgd_task(0), 2, Usr(ptb(0, 2)))
  /\ pc' = "set_cr3"
  /\ UNCHANGED <<i, cr3, paging, current, bus>>

\* The shared page: at 0x400000 in task 2, at 0x800000 in task 1.
LinkShared ==
  /\ pc = "link_shared"
  /\ mem' = PgSet(PgSet(mem, pgd_task(1), 1, Usr(ptb(1, 2))),
                  pgd_task(0), 2, Usr(ptb(0, 2)))
  /\ pc' = "set_cr3"
  /\ UNCHANGED <<i, cr3, paging, current, bus>>

SetCr3 ==
  /\ pc = "set_cr3"
  /\ cr3' = pgd
  /\ pc' = "set_cr0"
  /\ UNCHANGED <<mem, i, paging, current, bus>>

SetCr0 ==
  /\ pc = "set_cr0"
  /\ paging' = TRUE
  /\ pc' = "config"
  /\ UNCHANGED <<mem, i, cr3, current, bus>>

ConfigPgds == \/ Memset \/ Map \/ Share \/ LinkKernel \/ LinkTask
              \/ LinkShared \/ SetCr3 \/ SetCr0
-----------------------------------------------------------------------------
(***************************************************************************)
(* Address translation: the rights of the two entries are combined.        *)
(***************************************************************************)
Entries(table) == IF table \in Tables THEN mem[table]
                  ELSE [j \in Index |-> Garbage]

Translate(dir, d, j) ==
  LET pde == Entries(dir)[d]
      pte == Entries(pde.addr)[j]
  IN [p |-> pde.p /\ pte.p, usr |-> pde.usr /\ pte.usr, addr |-> pte.addr]

\* The frame at a page for ring 3, as a set of at most one element.
UserFrame(dir, d, j) ==
  LET page == Translate(dir, d, j)
  IN {f \in {page.addr} : page.p /\ page.usr}

UserFrames(dir) == UNION {UserFrame(dir, d, j) : d \in Index, j \in Index}

\* The end of config(): the first task's directory.
Config ==
  /\ pc = "config"
  /\ cr3' = pgd_task(0)
  /\ pc' = "run"
  /\ UNCHANGED <<mem, i, paging, current, bus>>

\* (faulty: the directory is left as it is)
ClockSwitchKeepCr3 ==
  /\ pc = "run"
  /\ current' = (current + 1) % 2
  /\ UNCHANGED <<mem, pc, i, cr3, paging, bus>>

\* clock_interrupt_handler: the next task's directory.
ClockSwitch ==
  /\ pc = "run"
  /\ current' = (current + 1) % 2
  /\ cr3' = pgd_task(current')
  /\ UNCHANGED <<mem, pc, i, paging, bus>>

\* The running task writes to any page it can: a page table too, if one is
\* within its reach.
UserWrite(d, j) ==
  /\ pc = "run" /\ current # NoTask
  /\ \E f \in UserFrame(cr3, d, j) :
       /\ bus' = [who |-> current, frame |-> f]
       /\ mem' = IF f \in Tables
                 THEN [mem EXCEPT ![f] = [l \in Index |-> Garbage]] ELSE mem
  /\ UNCHANGED <<pc, i, cr3, paging, current>>

\* syscall_handler reads the counter of task 2, at 0x400000, in ring 0.
SyscallRead ==
  /\ pc = "run" /\ current = 1
  /\ Translate(cr3, 1, 0).p
  /\ bus' = [who |-> Kernel, frame |-> Translate(cr3, 1, 0).addr]
  /\ UNCHANGED <<mem, pc, i, cr3, paging, current>>

Next == \/ ConfigPgds \/ Config \/ ClockSwitch \/ SyscallRead
        \/ \E d \in Index, j \in Index : UserWrite(d, j)

Spec == Init /\ [][Next]_vars
-----------------------------------------------------------------------------
(***************************************************************************)
(* Properties.                                                             *)
(***************************************************************************)
Frames == 0 .. Shared
PageEntries == [p : BOOLEAN, usr : BOOLEAN, addr : Frames]
Statements == {"memset", "map", "share", "link_kernel", "link_task",
               "link_shared", "set_cr3", "set_cr0", "config", "run"}

\* Every variable holds a value of its type.
TypeOK ==
  /\ mem \in [Tables -> [Index -> PageEntries]]
  /\ pc \in Statements /\ i \in 0 .. N
  /\ cr3 \in {0} \cup Tables
  /\ paging \in BOOLEAN
  /\ current \in Tasks \cup {NoTask}
  /\ bus \in [who : Tasks \cup {NoTask, Kernel}, frame : Frames]

\* The frames of task t alone: the 4 MB it maps one to one.
Private(t) == (t + 1) * N .. (t + 2) * N - 1

\* The tasks have one frame in common, the shared one, and no more, although
\* each directory is assembled from eight writes to four tables.
Isolated ==
  paging => UserFrames(pgd_task(0)) \cap UserFrames(pgd_task(1)) = {Shared}

\* No task can reach a frame of the kernel: not its code, not its stacks, not
\* a page table with which it could reach the rest.
KernelProtected ==
  paging => \A t \in Tasks :
    UserFrames(pgd_task(t)) \subseteq Private(t) \cup {Shared}

\* The kernel is where it is, whatever directory CR3 holds: it survives the
\* instruction that enables paging, and the handler, between one task and the
\* next, the one that changes CR3 under it.
KernelMapped ==
  paging => \A j \in Index :
    Translate(cr3, 0, j) = Krn(j)

\* Each task finds its stack (4 pages), its code after it and the counter at
\* the addresses the linker script and the programs assume, and only its own.
Programs ==
  paging => \A t \in Tasks :
    /\ \A j \in 0 .. 4 :
         UserFrame(pgd_task(t), t + 1, j) = {(t + 1) * N + j}
    /\ UserFrame(pgd_task(t), 2 - t, 0) = {Shared}
    /\ UserFrame(pgd_task(t), 2 - t, 4) = {}

\* What ring 3 has reached through its tables, and what the kernel read for
\* it: a task's private frames or the shared one, and the counter's.
Reached ==
  /\ \A t \in Tasks : bus.who = t => bus.frame \in Private(t) \cup {Shared}
  /\ bus.who = Kernel => bus.frame = Shared
=============================================================================
