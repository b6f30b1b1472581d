------------------------------ MODULE Console -------------------------------
(***************************************************************************)
(* The console: kernel/core/uart.c sets up and polls the serial port of    *)
(* Uart16550; kernel/core/print.c formats each message into one static     *)
(* buffer and writes it out; panic prints, pads the transmitter with NULs  *)
(* and halts.                                                              *)
(*                                                                         *)
(* The kernel prints with interrupts off, so one call runs at a time,      *)
(* except that a non-maskable interrupt prints its report in the middle    *)
(* of any other and returns.                                               *)
(*                                                                         *)
(* A message is the sequence of characters its format and arguments stand  *)
(* for, or Unsupported where the format has a conversion print.c lacks.    *)
(***************************************************************************)
EXTENDS Uart16550

CONSTANTS
  Size,          \* sizeof(vprint_buffer), 1024
  Messages,      \* what the kernel prints
  PanicMessage,  \* what panic prints, and nothing else does
  NmiReport,     \* the messages of intr_hdlr and excp_hdlr for an NMI
  Padding,       \* NULs sent by uart_flush, 16
  Uninitialised, \* what the unset bits of fcr (uart.c:12) may hold
  MaxPrints, MaxReads, MaxReceived, MaxNmis  \* bounds

Unsupported == -1
NUL == 0

ASSUME ConsoleAssumption ==
  /\ Size \in Nat \ {0} /\ Padding \in Nat \ {0}
  /\ Uninitialised \subseteq {v \in 0 .. 255 : ~Bit(v, 0) /\ ~Bit(v, 3)}
  /\ \A m \in Messages : m \in Seq(1 .. 255 \cup {Unsupported})
  /\ PanicMessage \in Seq(1 .. 255) \ Messages
  /\ NmiReport \in Seq(Seq(1 .. 255)) \ {<< >>}

VARIABLES
  pc,             \* the next statement of the kernel, NMI handler aside
  nmi,            \* the next statement of the NMI handler, or "none"
  call,           \* call[who]: the arguments and variables of a printf
  vprint_buffer,
  got,            \* what uart_read has returned
  prints, reads, received, nmis

counters == <<prints, reads, received, nmis>>
driver == <<pc, nmi, call, vprint_buffer, got>>
vars == <<device, driver, counters>>

\* text: the message, of which "done" items are formatted.  sz: the buffer's
\* index.  n: the characters, bytes or NULs to go up to.  rest: the messages
\* to print after this one.
Printing(messages) == [text |-> Head(messages), done |-> 0, sz |-> 0, n |-> 0,
                       rest |-> Tail(messages)]
NoCall == Printing(<<<< >>>>)

Init ==
  /\ DeviceInit
  /\ pc = "enable_efr" /\ nmi = "none"
  /\ call = [who \in {"kernel", "nmi"} |-> NoCall]
  /\ vprint_buffer = [k \in 0 .. Size - 1 |-> NUL]
  /\ got = << >>
  /\ prints = 0 /\ reads = 0 /\ received = 0 /\ nmis = 0
-----------------------------------------------------------------------------
(***************************************************************************)
(* uart_init.                                                              *)
(***************************************************************************)
Statement(this, next) ==
  /\ pc = this /\ pc' = next
  /\ UNCHANGED <<nmi, call, vprint_buffer, got, counters>>

\* The unset bits of the local fcr go to the port as they are.
FifoInit ==
  \/ Statement("enable_efr", "efr_ctl") /\ Out(LCR, 191)
  \/ Statement("efr_ctl", "fcr")        /\ Out(EFR, 16)
  \/ Statement("fcr", "lcr_0")          /\ \E v \in Uninitialised : Out(FCR, v)
  \/ Statement("lcr_0", "efr")          /\ Out(LCR, 0)
  \/ Statement("efr", "enable_dla")     /\ Out(EFR, 192)

\* (faulty: the low byte of the rate is written after the latch is closed)
CommonInitLate ==
  \/ Statement("enable_dla", "dla_msb") /\ Out(LCR, 128)
  \/ Statement("dla_msb", "lcr_8n1")    /\ Out(DLA_MSB, 0)
  \/ Statement("lcr_8n1", "dla_lsb")    /\ Out(LCR, 3)
  \/ Statement("dla_lsb", "ier")        /\ Out(DLA_LSB, 1)
  \/ Statement("ier", "flush_recv")     /\ Out(IER, 0)

CommonInit ==
  \/ Statement("enable_dla", "dla_lsb") /\ Out(LCR, 128)
  \/ Statement("dla_lsb", "dla_msb")    /\ Out(DLA_LSB, 1)
  \/ Statement("dla_msb", "lcr_8n1")    /\ Out(DLA_MSB, 0)
  \/ Statement("lcr_8n1", "ier")        /\ Out(LCR, 3)
  \/ Statement("ier", "flush_recv")     /\ Out(IER, 0)

\* (faulty: nothing is dropped)
FlushRecvNone ==
  Statement("flush_recv", "idle") /\ UNCHANGED device

\* What arrived before the line was set up is dropped.
FlushRecv ==
  \/ Statement("flush_recv", "flush_recv") /\ CanRecv /\ In
  \/ Statement("flush_recv", "idle") /\ ~CanRecv /\ UNCHANGED device

UartInit == FifoInit \/ CommonInit \/ FlushRecv
-----------------------------------------------------------------------------
(***************************************************************************)
(* printf and panic, for the kernel or for the NMI handler.                *)
(***************************************************************************)
Who == IF nmi = "none" THEN "kernel" ELSE "nmi"
At(label) == IF nmi = "none" THEN pc = label ELSE nmi = label

Goto(label) ==
  IF nmi = "none" THEN pc' = label /\ UNCHANGED nmi
                  ELSE nmi' = label /\ UNCHANGED pc

Printf(message) ==
  /\ pc = "idle" /\ nmi = "none" /\ prints < MaxPrints
  /\ prints' = prints + 1
  /\ call' = [call EXCEPT !["kernel"] = Printing(<<message>>)]
  /\ Goto("format")
  /\ UNCHANGED <<device, vprint_buffer, got, reads, received, nmis>>

\* A call of panic from the kernel's code or for a fatal exception.
Panic ==
  /\ pc = "idle" /\ nmi = "none" /\ prints < MaxPrints
  /\ prints' = prints + 1
  /\ call' = [call EXCEPT !["kernel"] = Printing(<<PanicMessage>>)]
  /\ Goto("format")
  /\ UNCHANGED <<device, vprint_buffer, got, reads, received, nmis>>

Panicking == call["kernel"].text = PanicMessage

\* (faulty: the last place is not kept for the NUL)
BufAddFull(c) ==
  LET sz == call[Who].sz IN
  IF sz < Size
  THEN /\ vprint_buffer' = [vprint_buffer EXCEPT ![sz] = c]
       /\ call' = [call EXCEPT ![Who].sz = sz + 1, ![Who].done = @ + 1]
  ELSE /\ call' = [call EXCEPT ![Who].done = @ + 1]
       /\ UNCHANGED vprint_buffer

\* __buf_add, with the length __vsnprintf keeps below the buffer's.
BufAdd(c) ==
  LET sz == call[Who].sz IN
  IF sz < Size - 1
  THEN /\ vprint_buffer' = [vprint_buffer EXCEPT ![sz] = c]
       /\ call' = [call EXCEPT ![Who].sz = sz + 1, ![Who].done = @ + 1]
  ELSE /\ call' = [call EXCEPT ![Who].done = @ + 1]
       /\ UNCHANGED vprint_buffer

FormatChar ==
  /\ At("format")
  /\ LET a == call[Who] IN
       /\ a.done < Len(a.text)
       /\ a.text[a.done + 1] # Unsupported
       /\ BufAdd(a.text[a.done + 1])
  /\ UNCHANGED <<device, pc, nmi, got, counters>>

\* (faulty: panic's message is formatted after what the buffer holds)
FormatUnsupportedAppend ==
  /\ At("format")
  /\ LET a == call[Who] IN
       /\ a.done < Len(a.text)
       /\ a.text[a.done + 1] = Unsupported
       /\ call' = [call EXCEPT ![Who] =
                     [Printing(<<PanicMessage>>) EXCEPT !.sz = a.sz]]
  /\ UNCHANGED <<device, pc, nmi, vprint_buffer, got, counters>>

\* panic("unsupported format arg '%c'\n"), over the message being formatted.
FormatUnsupported ==
  /\ At("format")
  /\ LET a == call[Who] IN
       /\ a.done < Len(a.text)
       /\ a.text[a.done + 1] = Unsupported
       /\ call' = [call EXCEPT ![Who] = Printing(<<PanicMessage>>)]
  /\ UNCHANGED <<device, pc, nmi, vprint_buffer, got, counters>>

\* The final NUL; uart_write is given the characters before it.
FormatEnd ==
  /\ At("format")
  /\ LET a == call[Who] IN
       /\ a.done = Len(a.text)
       /\ vprint_buffer' = [vprint_buffer EXCEPT ![a.sz] = NUL]
       /\ call' = [call EXCEPT ![Who].n = a.sz, ![Who].sz = 0]
  /\ Goto("write")
  /\ UNCHANGED <<device, got, counters>>

\* (faulty: a character is sent whether or not the last one has left)
WritePollNever ==
  /\ At("write") /\ call[Who].sz < call[Who].n
  /\ Goto("send")
  /\ UNCHANGED <<device, call, vprint_buffer, got, counters>>

\* (faulty: the test is that of DATA_READY)
WritePollReady ==
  /\ At("write") /\ call[Who].sz < call[Who].n /\ CanRecv
  /\ Goto("send")
  /\ UNCHANGED <<device, call, vprint_buffer, got, counters>>

\* __uart_write: the test of THRE and the character are two accesses.
WritePoll ==
  /\ At("write") /\ call[Who].sz < call[Who].n /\ CanSend
  /\ Goto("send")
  /\ UNCHANGED <<device, call, vprint_buffer, got, counters>>

WriteSend ==
  /\ At("send")
  /\ Out(TXRX, vprint_buffer[call[Who].sz])
  /\ call' = [call EXCEPT ![Who].sz = @ + 1]
  /\ Goto("write")
  /\ UNCHANGED <<vprint_buffer, got, counters>>

\* (faulty: panic halts without flushing)
WriteEndNoFlush ==
  /\ At("write") /\ call[Who].sz = call[Who].n
  /\ LET a == call[Who] IN
       IF a.rest # << >>
       THEN call' = [call EXCEPT ![Who] = Printing(a.rest)] /\ Goto("format")
       ELSE IF Who = "nmi" THEN UNCHANGED call /\ Goto("none")
       ELSE UNCHANGED call /\ Goto(IF Panicking THEN "halt" ELSE "idle")
  /\ UNCHANGED <<device, vprint_buffer, got, counters>>

\* The end of a message: the next one, the caller, or panic's uart_flush.
WriteEnd ==
  /\ At("write") /\ call[Who].sz = call[Who].n
  /\ LET a == call[Who] IN
       IF a.rest # << >>
       THEN call' = [call EXCEPT ![Who] = Printing(a.rest)] /\ Goto("format")
       ELSE IF Who = "nmi" THEN UNCHANGED call /\ Goto("none")
       ELSE IF Panicking
       THEN /\ call' = [call EXCEPT ![Who].sz = 0, ![Who].n = Padding]
            /\ Goto("flush")
       ELSE call' = [call EXCEPT ![Who] = NoCall] /\ Goto("idle")
  /\ UNCHANGED <<device, vprint_buffer, got, counters>>

\* uart_flush.
Flush ==
  /\ UNCHANGED <<vprint_buffer, got, counters>>
  /\ \/ /\ At("flush") /\ call[Who].sz < call[Who].n /\ CanSend
        /\ Goto("flush_send")
        /\ UNCHANGED <<device, call>>
     \/ /\ At("flush_send")
        /\ Out(TXRX, NUL)
        /\ call' = [call EXCEPT ![Who].sz = @ + 1]
        /\ Goto("flush")
     \/ /\ At("flush") /\ call[Who].sz = call[Who].n
        /\ Goto("halt")
        /\ UNCHANGED <<device, call>>

Vprintf == FormatChar \/ FormatUnsupported \/ FormatEnd \/ WritePoll
         \/ WriteSend \/ WriteEnd \/ Flush
-----------------------------------------------------------------------------
(***************************************************************************)
(* uart_read: like the test of THRE, the one of DATA_READY comes before.   *)
(***************************************************************************)
Read(max) ==
  /\ pc = "idle" /\ nmi = "none" /\ reads < MaxReads
  /\ reads' = reads + 1
  /\ call' = [call EXCEPT !["kernel"] = [NoCall EXCEPT !.n = max]]
  /\ Goto("read")
  /\ UNCHANGED <<device, vprint_buffer, got, prints, received, nmis>>

ReadPoll ==
  /\ At("read")
  /\ LET a == call["kernel"] IN
       IF CanRecv /\ a.sz < a.n
       THEN Goto("recv") /\ UNCHANGED call
       ELSE Goto("idle") /\ call' = [call EXCEPT !["kernel"] = NoCall]
  /\ UNCHANGED <<device, vprint_buffer, got, counters>>

ReadRecv ==
  /\ At("recv")
  /\ got' = Append(got, Head(rx))
  /\ In
  /\ call' = [call EXCEPT !["kernel"].sz = @ + 1]
  /\ Goto("read")
  /\ UNCHANGED <<vprint_buffer, counters>>

-----------------------------------------------------------------------------
Initialising == {"enable_efr", "efr_ctl", "fcr", "lcr_0", "efr", "enable_dla",
                 "dla_lsb", "dla_msb", "lcr_8n1", "ier", "flush_recv"}

\* An NMI, once intr_init has run; another has to wait for its iret.
Nmi ==
  /\ pc \notin Initialising /\ nmi = "none" /\ nmis < MaxNmis
  /\ nmis' = nmis + 1
  /\ call' = [call EXCEPT !["nmi"] = Printing(NmiReport)]
  /\ nmi' = "format"
  /\ UNCHANGED <<device, pc, vprint_buffer, got, prints, reads, received>>

Device ==
  \/ Transmit /\ UNCHANGED <<driver, counters>>
  \/ Peer /\ UNCHANGED <<driver, counters>>
  \/ /\ received < MaxReceived
     /\ received' = received + 1
     /\ Receive
     /\ UNCHANGED <<driver, prints, reads, nmis>>

Kernel == UartInit \/ Vprintf \/ ReadPoll \/ ReadRecv

Next == \/ Kernel \/ Device \/ Nmi \/ Panic
        \/ \E message \in Messages : Printf(message)
        \/ \E max \in 0 .. 2 : Read(max)

Spec == Init /\ [][Next]_vars

\* The kernel's code runs, a transmitter that is let through again and again
\* transmits, and the peer lets it again and again.
Fairness ==
  /\ WF_vars(Kernel)
  /\ SF_vars(Transmit /\ UNCHANGED <<driver, counters>>)
  /\ WF_vars(Peer /\ UNCHANGED <<driver, counters>>)

LiveSpec == Spec /\ Fairness
-----------------------------------------------------------------------------
(***************************************************************************)
(* Properties.                                                             *)
(***************************************************************************)
Labels == Initialising \cup {"idle", "format", "write", "send", "flush",
                             "flush_send", "halt", "read", "recv"}
Byte == 0 .. 255
Calls == [text : Messages \cup {PanicMessage, << >>}
                   \cup {NmiReport[k] : k \in DOMAIN NmiReport},
          done : Nat, sz : Nat, n : Nat, rest : Seq(Seq(1 .. 255))]

\* Every variable holds a value of its type, a printf formats no more than its
\* message, and its buffer always has room for the NUL.
TypeOK ==
  /\ enhanced \in BOOLEAN /\ cts \in BOOLEAN /\ lost \in Nat
  /\ {lcr, dll, dlm, ier, fcr, efr} \subseteq Byte
  /\ rx \in Seq(BOOLEAN) /\ thr \in Seq(Byte) /\ line \in Seq(Byte)
  /\ pc \in Labels
  /\ nmi \in {"none", "format", "write", "send"}
  /\ call \in [{"kernel", "nmi"} -> Calls]
  /\ \A who \in {"kernel", "nmi"} : call[who].done <= Len(call[who].text)
  /\ pc = "format" => call["kernel"].sz < Size
  /\ nmi = "format" => call["nmi"].sz < Size
  /\ vprint_buffer \in [0 .. Size - 1 -> Byte]
  /\ got \in Seq(BOOLEAN)
  /\ {prints, reads, received, nmis} \subseteq Nat

\* No character goes to the transmitter before the baud rate and the format
\* are set, nor when the divisor latch is open over its address, and the port
\* is left so, with no interrupt enabled.
Configured ==
  thr # << >> \/ pc \notin Initialising =>
    LineSetUp /\ ~DivisorAccess /\ ier = 0

\* What uart_read returns was received with the line set up: bytes that came
\* before, at another rate, have been flushed.
ReadsClean == \A k \in DOMAIN got : got[k]

\* When panic halts, all the transmitter can still hold is padding.
PanicFlushed == pc = "halt" => \A k \in DOMAIN thr : thr[k] = NUL

\* An NMI costs the line one character at most: the one over which the kernel
\* writes what it had found room for before the NMI.
LossBound == lost <= nmis

\* uart_init, printf and uart_read return, and panic halts.
Returns == pc \notin {"idle", "halt"} ~> pc \in {"idle", "halt"}

\* uart.h:35 gives the EFR its address when LCR = 0xbf: the statements that
\* mean to write it find the LCR so.
EfrAddressed == pc \in {"efr_ctl", "efr"} => lcr = 191

-----------------------------------------------------------------------------
(***************************************************************************)
(* Refinement: what a call in progress has still to put on the line.       *)
(***************************************************************************)
Nuls(k) == [j \in 1 .. k |-> NUL]

Shortened(text) == SubSeq(text, 1, IF Len(text) < Size THEN Len(text)
                                                       ELSE Size - 1)
Output(text) ==
  IF text = PanicMessage \/ \E k \in DOMAIN text : text[k] = Unsupported
  THEN Shortened(PanicMessage) \o Nuls(Padding)
  ELSE Shortened(text)

Unsent ==
  LET a == call["kernel"] IN
  CASE pc = "format" -> Output(a.text)
    [] pc \in {"write", "send"} ->
         [k \in 1 .. a.n - a.sz |-> vprint_buffer[a.sz + k - 1]]
         \o (IF Panicking THEN Nuls(Padding) ELSE << >>)
    [] pc \in {"flush", "flush_send"} -> Nuls(a.n - a.sz)
    [] OTHER -> << >>

Outputs == {Output(message) : message \in Messages \cup {PanicMessage}}

Line == INSTANCE ConsoleLine WITH pending <- thr \o Unsent

\* printf keeps its promise while no NMI comes: formatting, truncation, the
\* shared buffer, polling and the switch to panic in the middle of a message
\* neither lose, repeat nor reorder a character.
ImplementsConsoleLine == Line!Spec

FromKernel(c) == \A k \in DOMAIN NmiReport :
  \A j \in DOMAIN NmiReport[k] : NmiReport[k][j] # c

KernelLine == INSTANCE ConsoleLine WITH
  line <- SelectSeq(line, FromKernel),
  pending <- SelectSeq(thr \o Unsent, FromKernel)

\* excp.c:39 says of an NMI that it is ignored: but for its report, the line
\* is what it would be without it.
NmiIgnored == KernelLine!Spec
=============================================================================
