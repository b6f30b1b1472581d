# A verification development for secos-ng

secos-ng is a small 32-bit x86 kernel for teaching. It boots from Grub with
interrupts off, initialises two 8259A interrupt controllers, a serial port and
an interrupt descriptor table, and calls `config()`. In the tree modelled here
`config()` belongs to `tp_exam/tp.c`, which turns the kernel into a preemptive
system of two tasks in ring 3: they share one page of memory, a counter in it,
and one processor that the clock takes from one and gives to the other.

This directory holds TLA+ models of that kernel, the TLC runs that check them
on small instances, and TLAPS proofs of what matters most for every instance.
Run `tlc -workers 2 -config X.cfg M` for a run and `tlapm M.tla` for a proof
module; `PROJECT.json` lists both and maps every definition to source lines.

## 1. Inventory

### Components, their state and their operations

| component | source | state | operations | hard because |
|---|---|---|---|---|
| scheduler, tasks, system call | `tp_exam/tp.c` | `tasks[]`, `current_task_idx`, the processor, its frames | `config`, `clock_interrupt_handler`, `clock_interrupt_isr`, `syscall_isr`, `syscall_handler`, two endless programs | a tick may come between any two instructions of ring 3, and between some of ring 0 |
| segmentation | `tp_exam/tp.c`, `segmem.h` | GDT, GDTR, segment registers, TR, `TSS.s0` | `config_segmentation`, and at each switch | a table and the registers loaded from it may differ; must agree with the task that runs |
| paging | `tp_exam/tp.c`, `pagemem.h` | ten tables in memory nobody has cleared, CR3, CR0 | `config_pgds`, `set_cr3` at each switch | rights come from two tables; a wrong entry shows as a missing protection, not as a failure |
| interrupt controllers | `pic.c`, `pic.h` | requests, lines in service, how each chip is set up | `pic_init`, EOI | what a byte means depends on the bytes before it; a missing EOI blocks a line for ever, one too many ends another's |
| interrupt dispatch | `idt.s`, `intr.c`, `excp.c` | 256 stubs, the kernel's stack | `ack_pic1`, `ack_pic2`, `idt_common`, `intr_hdlr`, `excp_hdlr` | seven vectors push an error code; NMIs and faults nest |
| serial port driver | `uart.c`, `uart.h`, `io.h` | the port's registers | `uart_init`, `uart_read`, `uart_write`, `uart_flush` | registers that share addresses, polling and access are two steps |
| printf and panic | `print.c` | one static buffer of 1024 bytes | `printf`, `panic`, `__vsnprintf` | the buffer is shared by whoever prints, an NMI's report included |
| memory and strings | `string.h` | the registers and flags of string instructions | `memset`, `memcpy`, `strchr`, `strlen` | words then bytes, direction flag, overlap |
| stack trace | `stack.c` | none | `stack_trace` | follows data that may be anything |
| boot | `entry.s`, `start.c` | none | `entry`, `start` | straight-line |
| exercises | `tp1` ... `tp5` | a GDT, a TSS, page tables, gates | `tp`, `bp_handler`, `syscall_isr`, `userland` | change the tables they run on; handlers written in C with the compiler's prologue; an NMI may come before any instruction |
| tp0 | `tp0/tp.c` | none | `tp` | prints the multiboot memory map |

### How they interact

`start` calls `pic_init`, `uart_init`, `intr_init`, then `config`. From then
on the processor is what they share. The clock (vector 32) enters
`clock_interrupt_isr` directly, because `config_interrupt` changes that gate;
every other line goes through the stubs of `idt.s`, `int $0x80` through
`syscall_isr`. The clock's handler reads the frame the processor pushed, saves
it in `tasks[]`, switches segments, TSS and page directory, and either copies
the next task's context over the frame or pushes a first one by hand and irets.
Everything the kernel has to say goes through `printf` to the port, and every
fault through `excp_hdlr` to `panic`, which prints and halts. There is no lock:
mutual exclusion is the interrupt flag, and an NMI ignores it.

### What makes each of them correct

* Scheduler: whatever reaches ring 3 is the right task in the right state; no
  register or store of a task is lost or seen by the other; each task goes on
  for ever; each interrupt is ended once.
* Paging: the two tasks share one frame and no more, cannot reach the kernel,
  and the kernel's addresses stand still under all three directories.
* Dispatch: one frame for every event; what is interrupted does not notice.
* Console: the characters of each call, in order, each once; the call returns.
* `__vsnprintf`: the text C prescribes, and every directive takes exactly its
  own argument.
* `string.h`: these bytes and no others.
* Exercises: they reach their end without a fault that is not meant, whatever
  NMIs come; their handlers give back what they interrupt; what they print is
  what they are there to show.

The hazards that follow from this are in `PROJECT.json`, each at its line.

## 2. The modules

### Scheduler: `Scheduler`, on `UserTasks` and `Pic8259`

The core. `UserTasks` has the two programs of `tp.c` cut where a tick can
separate their memory accesses: `*counter = *counter + 1` is a load and a
store. `Pic8259` has the two chips: what the kernel sends is translated, what
the chips do (priorities, cascade, latching an edge once) is taken from how
the kernel relies on it.

`Scheduler` models the processor as a record: code segment, next instruction,
stack, one register that stands for the general ones, interrupt flag. Kernel
code goes from label to label:

| action | code |
|---|---|
| `ConfigSegmentation` ... `ConfigRun` | the calls of `config()`, up to the `sti` |
| `Interrupt(i)`, `AckPic1`, `AckPic2` | acknowledge and gate; the stubs of `idt.s` |
| `ClockSave`, `ClockSwitch` | `clock_interrupt_handler` to the `memcpy` into `tasks[]`, then to the test of `context_saved` |
| `ClockRestore`, `Return` | `memcpy` over the frame, EOI; `popa`, `sti`, `iret` |
| `ClockStart`, `StartEoi`, `StartIret` | `sti` and the five pushes; EOI; `iret` |
| `Task1Zero`, `Task1Load`, `Task1Store`, `Task2Point`, `Task2Int` | the programs |
| `SyscallHandler` | `syscall_handler` |
| `Exception` | any fault: `excp_hdlr`, `panic` |
| `Tick`, `DeviceRaise(i)` | the hardware |

Code with IF clear that no interrupt can separate is one action. On the path
that starts a task IF is set before the EOI (`tp.c:178`), so that path is three
actions. Only two frames of a kernel stack can still be returned to: `frame`,
and `start`, pushed by hand. A frame from ring 0 is two dwords shorter than an
`int_ctx_t`; what lies under it is `below` in a saved context, because
`memcpy` takes it along.

The constant `EarlyTick` separates two environments. The handler takes about
2 ms (it prints some twenty characters at 115200 baud) and the timer, which
nobody reprograms, ticks every 54.9 ms; two ticks do not fall in one handler
(`EarlyTick = FALSE`). But the timer's phase when `config()` executes `sti`
(`tp.c:319`) is arbitrary: a tick latched during boot is delivered at once and
the next may come before the first task has started. `EarlyTick = TRUE` allows
a tick anywhere. Every theorem about coherence and isolation holds in both.

`VirtualCpus` is the abstract specification: each task has a processor of its
own and shares only the counter; no clock, no kernel, no interrupts.
`Scheduler` is shown to implement it under the mapping `VirtualRegisters(t)`:
a task's registers are in the processor while it runs, in the frame of the
interrupt that stopped it, then in `tasks[t]`, and `int $0x80` happens when its
handler prints.

### Paging: `Paging`

`config_pgds` statement by statement (an iteration of a loop is a step) over ten
tables that each hold zeros or garbage, then tasks that write to any page
their tables let them, turning a page table into garbage if they could reach
one. Memory is counted in frames; `N` is the number of entries of a table.
`Translate` combines the rights of both levels.

### Interrupt dispatch: `Interrupts`, on `PicSetup` and `Pic8259`

`PicSetup` has the eight control words of `pic_init` and what a chip makes of
each: it starts from chips that the firmware left in service at its own vectors,
or anywhere in the sequence, with requests already latched. `Interrupts`
begins there, with the processor at the first word; only the chips that these
words have set up can deliver a line, at the vector they were given. Then one step per instruction that matters of `idt.s`, with the kernel's stack as a
sequence of words: what the processor pushed, whether a stub pushes `-1`, EAX
around the EOI, `pusha`. Between any two steps an NMI may come; the handler
itself may fault; a line may be withdrawn so that the chip answers with its
spurious vector. The history variable `entered` keeps what each event found.

### Console: `Console`, on `Uart16550`; abstract: `ConsoleLine`

`Uart16550` is the port as `uart.h` describes it, registers that share an
address included, on a chip with or without an enhanced feature register
(EFR). `Console` has `uart_init` one `out` at a time, from any state the
firmware may leave (the unset bits of the local `fcr` of `uart.c:12` are a
nondeterministic choice), then `printf`, `panic` and `uart_read`: a character is
formatted, the transmitter polled, the character written, each a step. An NMI
prints with the same buffer in the middle of anything. A message is a sequence
of characters; `Unsupported` stands for a conversion `print.c` lacks, which
turns the call into a `panic`. `ConsoleLine` is what a caller is promised: the
characters of each call in order, each once.

### Exercises: `Exercises`, on `SegmentUnit` and `PagingUnit`

`tp1` to `tp5` define `tp`, where the kernel of this tree calls `config`; each is
a program of its own, and the `config_segmentation` of `tp_exam` is a sixth. Each
is a sequence of instructions in the order of its `tp.c`: a write of a
descriptor, a load of a segment register, `lgdt`, `ltr`, a store to a page
table, a gate, an `int`, the pushes of a frame and its `iret`, and the prologue
that the compiler puts before a handler's first line. An action executes one
kind of instruction.

`SegmentUnit` is what `segmem.h` says of segmentation: a segment register keeps
the descriptor it was loaded with, a table that changes or a new GDTR shows at
the next load only, and loads are checked against privilege levels.
`PagingUnit` is paging while its tables change: they are written through
addresses that they translate, and a translation lookaside buffer may hold any
translation that was once there. What is printed is kept in `shown`.

An NMI may come before any instruction (IF is clear all along, the firmware's
NMIs are not): it enters the stub's code segment, pushes its frame on the stack
that runs or on the TSS's, and reloads CS, and SS from ring 3, on its way back.
Where its handler cannot be reached, the processor resets. The TLB may fill or
drop an entry between any two instructions.

### `Format` and `MemOps`

Pure algorithms as small machines. `Format` reads one character of the format
per step with the flags `interp`, `lng` and `size` of `__vsnprintf`; the
arguments are words on a stack, so that a conversion that takes one too many
is seen by the next. A byte has `ByteBits` bits, so that the limits of every
integer type are within TLC's reach. A call is a sequence of items, literal
characters and directives (padding, length modifier, conversion, argument); each
has its characters in the format (`Chars`), its words on the stack (`Words`) and
its reference text (`Text`), defined from the place value of digits. `MemOps` runs one repetition of a string instruction per
step, up or down as the direction flag says.

`MC*` modules hold the values of constants only. Definitions marked `(faulty:
...)` are the mutants: TLC must find the property they are paired with violated
when they replace the definition after them.

## 3. The runs

| run | instance | states | shows |
|---|---|---|---|
| `scheduler` | counter mod 3, devices on lines 1 and 9, no early ticks | 28,360 | saved contexts, EOIs, no panic, the counter counts; with fairness: both tasks go on |
| `scheduler_early_tick` | the same, ticks anywhere | 51,728 | coherence, owners of saved contexts and refinement, which hold in spite of finding 1; `Exception` occurs |
| `scheduler_kernel_context` | no devices, ticks anywhere | | violation: finding 1 |
| `paging` | tables of 12 entries | 2,122 | isolation, protection, kernel mapping, layout, accesses |
| `interrupts` | faults 0, 14, 17; `int` 20, 48; lines 0, 7, 8, 15; three events | 341,920 | set-up, one frame, EOIs, transparency, only faults stop the kernel |
| `exercises` | six programs, tables of 6 entries; fairness | 16,980 | only the faults that are meant, what is printed, nothing disturbed, each comes to its end |
| `console` | buffer of 3, two calls, one read, two bytes received | 62,416 | set-up before use, refinement, clean reads, flushed panic |
| `console_nmi` | one call, one read, two NMIs; fairness | 300,030 | at most one character lost per NMI; every call returns |
| `console_nmi_ignored` | one call, one NMI | | violation: finding 2 |
| `console_efr` | `uart_init` alone | | violation: finding 3 |
| `format` | bytes of 2 bits, two directives, buffers of 1, 4, 40 | 21,195 | text, arguments, panics |
| `mem_ops` | memory of 8 bytes | 18,028 | exactness, direction flag, first match |

Why these bounds are enough.

* Scheduler: with two tasks every history reduces to which task runs, where
  the other stands and which context slots are filled, and all of these occur;
  three counter values suffice to tell a lost increment, a repeated one and a
  wrap apart; one device on each chip gives each nesting of the controllers.
  There is no bound on ticks or interrupts: the state space is finite.
* Paging: twelve entries are the fewest that hold the ten tables inside the
  kernel's frames with a frame on either side. All the structure is in the
  first three entries of a directory and first or other of a table. The proofs
  cover every size.
* Interrupts: `MaxEvents = 3` allows an NMI in a handler in which a fault
  occurs; the vectors are one with an error code, the last with one (17), one
  without, a reserved one, and lines at the ends of both chips.
* Exercises: tables of six entries are the fewest that hold the four tables
  of tp4 and its two pages in the range of the second one, and a stack of 15
  words the deepest nesting. All programs, every place an NMI can come and every
  state of the TLB are covered; nothing is counted.
* Console: a message of three characters in a buffer of three is cut, the
  others are not; two calls suffice for one to disturb another through the
  buffer. `MaxPrints`, `MaxReads`, `MaxReceived`, `MaxNmis` bound the numbers of
  events. The NMI run has fewer messages, since two contexts print.
* Format: two directives are enough for what one leaves behind to reach the
  next: `interp`, `lng`, `size` and the arguments are all the state there is.
* MemOps: eight bytes give two words, or one and up to three bytes, at
  every overlap.

Deadlock checking is off where the system really stops: a panic halts the
processor (`scheduler_early_tick`, `interrupts`), a function or a program returns
(`format`, `mem_ops`, `exercises`).

### Fairness

`scheduler`: WF of `Kernel`, since ring 0 code never halts except in panic.
SF of `Interrupt(Timer)`: the controllers present the timer's line first and
the processor accepts it as soon as IF is set; IF is set again and again. SF of
`StartIret` and `UserStep(t)`: these compete with interrupts, but between two
ticks there is time for instructions, and a processor completes the one it has
begun before it takes the next interrupt. WF of `Tick`: the timer is free
running. Nothing is assumed of the devices.

`exercises`: WF of `Step`, the next instruction of the one program there is.
An NMI and its handler come between two instructions and are over before the
next, so they cannot keep a program from going on.

`console_nmi`: WF of `Kernel`; SF of `Transmit` and WF of `Peer`, which together
say that a peer using flow control lets the port transmit again and again.
Without a peer the polling loops of `uart.c` do not end, and that is what
the code does. Receptions and NMIs are bounded, as a line that never pauses
would keep `flush_recv` in its loop.

## 4. The proofs

All proofs are for arbitrary constants under the assumptions the modules
state: `WordAssumption`, `GprAssumption`, `DeviceAssumption`,
`EarlyTickAssumption`, `LayoutAssumption`, `MemOpsAssumption`,
`InterruptsAssumption`, `ConsoleAssumption`, `FormatAssumption`,
`CallsAssumption`, `TableSize`, `ProgramsAssumption`.

**`SchedulerProofs`** proves `TypeOK`, `Ring3Coherent`,
`SavedContextLeadsToOwner` and `InServiceIsHandled` for every word size, every
set of devices and both kinds of ticks. None of them is inductive: that ring 3
is coherent after an `iret` depends on what is in the frame, that on what
`ClockRestore` copied into it, and that on what was saved a round before. `IInv`
therefore describes each place where registers rest: the processor (`CpuInv`),
the frame (`FrameInv`), the start frame (`StartInv`), the saved contexts
(`ContextsInv`); and with them what the handler has established at each label
(`SpaceInv`, `ChoiceInv`, `CurrentInv`, `ConfigInv`). One lemma per part shows
that every action preserves it; the lemmas on `Pic8259` show that one EOI
ends the one line in service on a chip, and that no line interrupts a handler
before it.

The last part of the module adds `QuietInv` when `EarlyTick` is false: a start
runs to its end, so no ring 0 context is ever saved. From it follow
`SavedContextIsUser` and `NoPanic`.

**`SchedulerRefinement`** proves `Spec => ImplementsVirtualCpus`, early ticks
included. It needs three facts beyond `IInv`: a task the handler has left has
its registers in `tasks[]` (`LeftInv`), a task not yet started has none there
(`PendingInv`), and a program that has not run has junk in its registers
(`JunkInv`). Kernel steps are shown to stutter, each step of a program and the
handler of the system call to be the abstract step of the same name.
`CounterCounts` follows from the refinement: of the two processors that nothing
interrupts it is easily said that the register of task 1 equals the counter
between its load and its store (`LoadedInv`), and the mapping finds that register
wherever the kernel has put it.

**`PagingProofs`** proves all six invariants of the `paging` run for every table
size and placement. The invariant gives each entry of each table its content
at each statement (`Written`), so that what `memset` must clear is known to be
cleared; `Spaces` derives from the final tables which frames each directory
reaches. That it stays so while tasks write is the circular part: tasks cannot
reach a table because the tables do not map one (`Reached` is part of `IInv`).

**`InterruptsProofs`** proves all five properties of the `interrupts` run, the
action property `Transparent` among them, for every set of faults, `int`s and
lines and for events nested to any depth. The history `entered` keeps the
processor and the stack that each event found, so an event that another one
interrupted stands where that one found it (`CpuAt`, `StackAt`). `Layout` gives
the stack of an event as the one it found, what the processor pushed, and what
the stub has pushed at the label it has reached; `FramesInv` says so of every
event in progress, and an `iret` can be shown to take exactly what its event's
entry pushed (`IretRestores`). For the lines in service the proof needs
`EventInv`: interrupts are off in the kernel, so only the first event can have a
line, and what is in service is what that event has still to end (`Due`).
`SetupInv` follows the control words of `pic_init`, from which come the vectors
of the lines and that no EOI is automatic.

**`MemOpsProofs`** proves all five properties of the `mem_ops` run for memories
of every size. The invariant: while an instruction repeats, the bytes written
are a prefix of those wanted, which ends at EDI; and a scan has found no match
before EDI, while EDI and ECX add up to what was asked for.

**`ConsoleProofs`** proves `TypeOK`, `Configured`, `ReadsClean` and `LossBound`
for every buffer size, any messages and report, and any number of calls, bytes
and NMIs, and `PanicFlushed` as long as no NMI has come. `PortInv` has the
registers at each statement of `uart_init`, whatever the firmware left; what it
leaves switches the FIFOs off, so transmitter and receiver hold one byte at
most (`FifoInv`). `CallInv` keeps the index of each context's call below the
buffer's end. `LossInv` is why one NMI costs one character: the kernel can
write over another only if the NMI came after its test of THRE, and that NMI
has then lost nothing itself. `QuietInv` covers at once all steps that leave
the port alone.

Its last part proves `Spec => ImplementsConsoleLine` when no NMI comes
(`MaxNmis = 0`; finding 2 shows it false with NMIs), for every buffer size and any
messages. Beyond the invariant above it needs the contents of the buffer (`BufferInv`): while a message is formatted the buffer holds what is done
of it, as far as it fits, and none of that was unsupported. `Printf` and `Panic`
are the line's `Call` and `Transmit` is its `Emit`. Everything else is shown to
stutter: a character goes from what a call has still to send to the
transmitter, and the switch to `panic` inside `__vsnprintf` replaces a buffer
that nothing will be sent from.

**`FormatProofs`** proves all three properties of the `format` run for bytes of
any size, calls of any number of items with any padding and any arguments, and
every buffer. The only arguments left out are those whose text the code does not
promise: `CallsAssumption` excludes the smallest 64-bit integer, which has no
negation (`Printable`). The module begins with what the recursive definitions
compute. The induction theorems of the library take an operator as a parameter,
which none of the provers can instantiate; but the order of the naturals is
well-founded, so every set of naturals has a least element (`Least`), and from
this follow induction over a set (`SetInduction`) and that a recursion that goes
down has one solution (`Recursion`). From these come the powers, that the loops
of `print.c` find the digits of the place values (`LoopsWriteNumeral`), that a
value of two words is put together again (`UnsignedWords`), and that the
characters, words and texts of the items follow one another in the format, the
stack and the text (`FlattenSeqIs`, `SplitAnywhere`). The invariant says how
far the loop has come: `Between` two items the format is the characters of those
that are left, the arguments their words, and the buffer holds the text of those
before, cut to its length; `Within` a directive some padding and some letters of
its modifier are left, and `size` and `lng` are what the letters read have made
of them (`Reads`). A conversion leaves `size` as it was: that is why `Between`
says nothing of it, and why the "%" of the next directive must set it.

**`ExercisesProofs`** proves `TypeOK`, `OnlyFaultsIntended`, `ResultsAreTrue` and
the action property `Undisturbed` for page tables of every size from six entries,
whichever of the programs run. None of the four is inductive: whether the next
instruction faults depends on the descriptors written so far, on what each
segment register was last loaded with, and on where the page tables lead. The
programs run straight on, so `Inv` is what a symbolic execution carries along:
at instruction `k` of `tp` the machine is as `InTp(k)` says, in ring 3 as
`InUserland3` or `InUserland5`, in a handler as `InSyscallIsr` or `InBpHandler`,
with what it interrupted still in its frame; and the memory is as `Memory(k)`
says. The four programs that replace their GDT differ in where they do what
(`WrittenAt`, `LoadAt`, `LgdtAt`, `TssAt`), so one lemma for each kind of
instruction serves them all. For an NMI only a little of this matters
(`Sound`): its gate's selector names code in the table in force, the stack it
takes is there, and the selectors it will reload name the descriptors that the
registers hold. Between `lgdt` and the last load this is the point: old
descriptors are reloaded from the new table, which must hold the same. For tp4
`Mapped` says which frames the TLB may hold for a page, of all that the tables
have ever said of it.

Only model-checked: liveness (`TasksProgress`, `Returns`, `Completes`), out of the
prover's reach, as are ENABLED and fairness. Every other property of a passing
run is stated by a theorem.

## 5. Findings

1. `tp.c:154` says "if we come from kernel we dont save ctx", but the test is
   `current_task_idx != -1`. A tick during the start of a task makes the handler
   save a kernel context (`scheduler_kernel_context`). The consequence is
   bounded: what is saved leads to its own task (`ContextsLeadHome`), or, if it is
   restored where no start frame lay, to an `iret` with a stray SS.
2. `excp.c:39` reports an NMI as ignored; its report is printed through the
   buffer of the message it interrupts (`console_nmi_ignored`). At most one
   character is lost in the transmitter (`LossBound`).
3. `uart.h:35` gives the EFR its address under LCR = 0xbf; `uart_init` writes
   LCR = 0 before it (`console_efr`).

## 6. What is not modelled

* `intr_init`, whose result is the initial state of `Interrupts`.
* Descriptors bit by bit: a descriptor is its kind, level, base and limit.
* The TLB in `Paging` (tp_exam changes no entry once paging is on; `PagingUnit`
  has it for tp4, which does); accessed and dirty bits; large pages.
* `stack.c`, which walks words no model holds, and `entry.s` and `start.c`,
  straight-line code whose result is the initial states.
* `tp0`, which prints the memory map that Grub left, and `grub_mbi.h`.
* Most of `cr.h`, `gpr.h`, `types.h`: macros that nothing in the tree uses.
* The contents of `printf`'s messages, where no property is about them.
* General registers other than one; EFLAGS other than IF and, in `MemOps`, DF.

## 7. Plan

Next: `stack_trace` over frame chains, with its termination.
