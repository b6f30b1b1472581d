---------------------------- MODULE ConsoleProofs ---------------------------
(***************************************************************************)
(* What holds of the console for every buffer size, every set of messages  *)
(* and every report of an NMI: the port stays set up, what is read was     *)
(* received so, the buffer is never overrun, an NMI costs one character at *)
(* most, and without one panic leaves only padding in the transmitter.     *)
(*                                                                         *)
(* The registers are known at every statement of uart_init (PortInv); what *)
(* it leaves switches the FIFOs off, so each holds one byte at most        *)
(* (FifoInv).  A call's index stays below what its label says (CallInv).   *)
(* A character may be lost only when an NMI has come between the test of   *)
(* THRE and the write (LossInv).  Without NMIs the console implements      *)
(* ConsoleLine: see the second half.                                       *)
(***************************************************************************)
EXTENDS Console, SequenceTheorems, TLAPS

\* The statements of uart_init after which the port has its rate, and after
\* which its FIFOs are off.
Rated == Labels \ {"enable_efr", "efr_ctl", "fcr", "lcr_0", "efr", "enable_dla", "dla_lsb"}
Unqueued == Labels \ {"enable_efr", "efr_ctl", "fcr", "lcr_0", "efr"}

PortInv ==
  /\ ier = 0 /\ dlm = 0
  /\ pc = "enable_efr" => lcr \in {0, 3}
  /\ pc \in {"efr_ctl", "fcr", "lcr_0"} => lcr = 191
  /\ pc \in {"efr", "enable_dla"} => lcr = 0
  /\ pc \in {"dla_lsb", "dla_msb", "lcr_8n1"} => lcr = 128
  /\ pc \notin Initialising \/ pc \in {"ier", "flush_recv"} => lcr = 3
  /\ pc \in Rated => dll = 1
  /\ pc \in Unqueued => fcr = 192
  /\ pc \in Initialising => thr = << >> /\ got = << >> /\ nmi = "none"

FifoInv ==
  /\ pc \notin Initialising => rx = << >> \/ rx = <<TRUE>>
  /\ pc = "recv" => rx = <<TRUE>>
  /\ got \in Seq({TRUE})
  /\ thr = << >> \/ \E c \in Byte : thr = <<c>>

Plain == Seq(1 .. 255)
Printable == Seq(1 .. 255 \cup {Unsupported})
Text == Seq(Int)
Following == Seq(Seq(1 .. 255))
CallType == [text : Text, done : Nat, sz : Nat, n : Nat, rest : Following]
Reports == {NmiReport[k] : k \in DOMAIN NmiReport}

\* What a call of a context may be at a label.
CallGood(who, c, label) ==
  /\ c \in CallType /\ c.done <= Len(c.text)
  /\ who = "kernel" => c.text \in Messages \cup {PanicMessage, << >>} /\ c.rest = << >>
  /\ who = "nmi" => c.text \in Reports \cup {<< >>} /\ c.rest \in Seq(Reports)
  /\ label = "format" => c.sz < Size
  /\ label = "write" => c.sz <= c.n /\ c.n < Size
  /\ label = "send" => c.sz < c.n /\ c.n < Size
  /\ label = "flush" => c.sz <= c.n /\ c.n = Padding
  /\ label = "flush_send" => c.sz < c.n /\ c.n = Padding

CallInv == CallGood("kernel", call["kernel"], pc) /\ CallGood("nmi", call["nmi"], nmi)

LossInv ==
  /\ nmi # "none" => lost + 1 <= nmis
  /\ nmi = "none" => lost <= nmis
  /\ nmi = "none" /\ pc \in {"send", "flush_send"} /\ thr # << >> => lost + 1 <= nmis
  /\ nmi = "send" => thr = << >>

\* Until an NMI comes, what is in the transmitter once padding is sent is padding.
FlushInv ==
  nmis = 0 =>
    /\ pc \in {"flush", "flush_send"} /\ call["kernel"].sz > 0 => thr = << >> \/ thr = <<NUL>>
    /\ pc = "halt" => thr = << >> \/ thr = <<NUL>>

DeviceType ==
  /\ enhanced \in BOOLEAN /\ cts \in BOOLEAN /\ lost \in Nat
  /\ lcr \in Byte /\ dll \in Byte /\ fcr \in Byte /\ efr \in Byte
  /\ rx \in Seq(BOOLEAN) /\ line \in Seq(Byte)

DriverType ==
  /\ pc \in Labels /\ nmi \in {"none", "format", "write", "send"}
  /\ call \in [{"kernel", "nmi"} -> CallType]
  /\ vprint_buffer \in [0 .. Size - 1 -> Byte]
  /\ prints \in Nat /\ reads \in Nat /\ received \in Nat /\ nmis \in Nat

Inv == DeviceType /\ DriverType /\ PortInv /\ FifoInv /\ CallInv /\ LossInv /\ FlushInv
-----------------------------------------------------------------------------
\* The sizes alone: a leaf about a number needs no more of the constants.
LEMMA Sizes == Size \in Nat /\ Size > 0 /\ Padding \in Nat /\ Padding > 0
BY ConsoleAssumption

(***************************************************************************)
(* The port.                                                               *)
(***************************************************************************)

\* The bits of the values that the driver writes.
LEMMA Bits ==
  /\ ~Bit(0, 7) /\ ~Bit(3, 7) /\ Bit(191, 7) /\ Bit(128, 7)
  /\ ~Bit(192, 0)
BY DEF Bit

\* Outside uart_init the port is set up and its FIFOs are off.
LEMMA PortReady ==
  ASSUME DriverType, PortInv, pc \notin Initialising
  PROVE  /\ ier = 0 /\ dlm = 0 /\ lcr = 3 /\ dll = 1 /\ fcr = 192
         /\ ~DivisorAccess /\ ~FifoEnabled /\ LineSetUp
<1>1. pc \in Rated /\ pc \in Unqueued
  BY DEF DriverType, Rated, Unqueued, Initialising
<1>2. ier = 0 /\ dlm = 0 /\ lcr = 3 /\ dll = 1 /\ fcr = 192
  BY <1>1 DEF PortInv
<1>3. ~DivisorAccess /\ ~FifoEnabled
  BY <1>2, Bits DEF DivisorAccess, FifoEnabled
<1>4. LineSetUp
  BY <1>2 DEF LineSetUp
<1> QED BY <1>2, <1>3, <1>4

\* A character sent outside uart_init takes the place of what has not left.
LEMMA OutCharacter ==
  ASSUME DriverType, PortInv, pc \notin Initialising, NEW v \in Byte, Out(TXRX, v)
  PROVE  /\ thr' = <<v>> /\ lost' = lost + Len(thr)
         /\ UNCHANGED <<registers, rx, line, cts>>
<1>1. ~DivisorAccess /\ ~FifoEnabled
  BY PortReady
<1>2. thr' = <<v>> /\ lost' = lost + Len(thr)
  BY <1>1 DEF Out, TXRX
<1>3. UNCHANGED <<lcr, dll, dlm, ier>>
  BY <1>1 DEF Out, TXRX, LCR, DLA_LSB, DLA_MSB, IER
<1>4. UNCHANGED <<efr, fcr, rx>>
  BY DEF Out, TXRX, EFR, FCR
<1> QED BY <1>2, <1>3, <1>4 DEF Out, registers

\* A write that is not a character moves none.
LEMMA OutControl ==
  ASSUME DeviceType, thr = << >>, NEW port, NEW v \in Byte, Out(port, v),
         ~(port = TXRX /\ ~DivisorAccess)
  PROVE  /\ thr' = << >> /\ lost' = lost /\ line' = line
         /\ lcr' = IF port = LCR THEN v ELSE lcr
         /\ dll' = IF port = DLA_LSB /\ DivisorAccess THEN v ELSE dll
         /\ dlm' = IF port = DLA_MSB /\ DivisorAccess THEN v ELSE dlm
         /\ ier' = IF port = IER /\ ~DivisorAccess THEN v ELSE ier
         /\ fcr' = IF port = FCR /\ ~EfrAccess THEN v ELSE fcr
         /\ DeviceType'
<1>1. /\ lcr' = IF port = LCR THEN v ELSE lcr
      /\ dll' = IF port = DLA_LSB /\ DivisorAccess THEN v ELSE dll
      /\ dlm' = IF port = DLA_MSB /\ DivisorAccess THEN v ELSE dlm
      /\ ier' = IF port = IER /\ ~DivisorAccess THEN v ELSE ier
  BY DEF Out
<1>2. /\ fcr' = IF port = FCR /\ ~EfrAccess THEN v ELSE fcr
      /\ efr' = IF port = EFR /\ EfrAccess THEN v ELSE efr
      /\ lost' = lost /\ line' = line
  BY DEF Out
<1>3. enhanced' = enhanced /\ cts' = cts
  BY DEF Out
<1>4. thr' = << >>
  BY DEF Out
<1>5. rx' \in Seq(BOOLEAN)
  <2>1. rx' = rx \/ rx' = << >>
    BY DEF Out
  <2>2. << >> \in Seq(BOOLEAN)
    OBVIOUS
  <2> QED BY <2>1, <2>2, Zenon DEF DeviceType
<1>6. lcr' \in Byte /\ dll' \in Byte /\ fcr' \in Byte /\ efr' \in Byte
  BY <1>1, <1>2 DEF DeviceType
<1>7. enhanced' \in BOOLEAN /\ cts' \in BOOLEAN
  BY <1>3, Zenon DEF DeviceType
<1> QED BY <1>1, <1>2, <1>4, <1>5, <1>6, <1>7, Zenon DEF DeviceType
-----------------------------------------------------------------------------
(***************************************************************************)
(* uart_init.                                                              *)
(***************************************************************************)

\* What a statement of uart_init has to show.
LEMMA StatementInv ==
  ASSUME Inv, NEW this \in Initialising, NEW next \in Initialising \cup {"idle"},
         Statement(this, next), DeviceType', PortInv', thr' = << >>, lost' = lost,
         next = "idle" => rx' = << >>
  PROVE  Inv'
<1>1. pc = this /\ pc' = next /\ UNCHANGED <<nmi, call, vprint_buffer, got>>
      /\ UNCHANGED <<prints, reads, received, nmis>>
  BY DEF Statement, counters
<1>2. next \in Labels /\ next \notin {"format", "write", "send", "flush", "flush_send", "halt", "recv"}
  BY DEF Labels, Initialising
<1>3. nmi = "none"
  BY <1>1 DEF Inv, PortInv
<1>4. DriverType'
  BY <1>1, <1>2 DEF Inv, DriverType
<1>5. FifoInv'
  <2>1. got' \in Seq({TRUE})
    BY <1>1 DEF Inv, FifoInv
  <2>2. next \notin Initialising => next = "idle"
    OBVIOUS
  <2> QED BY <2>1, <2>2, <1>1, <1>2 DEF FifoInv
<1>6. CallInv'
  BY <1>1, <1>2 DEF Inv, CallInv, CallGood
<1>7. LossInv' /\ FlushInv'
  BY <1>1, <1>2, <1>3 DEF Inv, LossInv, FlushInv
<1> QED BY <1>4, <1>5, <1>6, <1>7 DEF Inv

\* Each statement leaves the registers as the next one needs them.
LEMMA FifoInitInv == ASSUME Inv, FifoInit PROVE Inv'
<1>1. CASE Statement("enable_efr", "efr_ctl") /\ Out(LCR, 191)
  <2>1. pc = "enable_efr" /\ pc' = "efr_ctl" /\ UNCHANGED <<nmi, got>> /\ thr = << >> /\ nmi = "none"
        /\ got = << >>
    BY <1>1 DEF Statement, Initialising, Inv, PortInv
  <2>2. ~DivisorAccess
    BY <2>1, Bits DEF Inv, PortInv, DivisorAccess, EfrAccess, Unqueued, Rated, Labels, Initialising
  <2>3. /\ thr' = << >> /\ lost' = lost /\ DeviceType'
        /\ lcr' = 191 /\ dlm' = dlm /\ ier' = ier
    BY <2>1, <2>2, <1>1, OutControl DEF Inv, Byte, LCR, TXRX, IER, DLA_MSB, DLA_LSB, FCR, EFR
  <2>4. PortInv'
    BY <2>1, <2>3 DEF Inv, PortInv, Rated, Unqueued, Initialising
  <2> QED BY <1>1, <2>3, <2>4, StatementInv DEF Initialising
<1>2. CASE Statement("efr_ctl", "fcr") /\ Out(EFR, 16)
  <2>1. pc = "efr_ctl" /\ pc' = "fcr" /\ UNCHANGED <<nmi, got>> /\ thr = << >> /\ nmi = "none"
        /\ got = << >>
    BY <1>2 DEF Statement, Initialising, Inv, PortInv
  <2>2. DivisorAccess /\ lcr = 191
    BY <2>1, Bits DEF Inv, PortInv, DivisorAccess, EfrAccess, Unqueued, Rated, Labels, Initialising
  <2>3. /\ thr' = << >> /\ lost' = lost /\ DeviceType'
        /\ lcr' = 191 /\ dlm' = dlm /\ ier' = ier
    BY <2>1, <2>2, <1>2, OutControl DEF Inv, Byte, LCR, TXRX, IER, DLA_MSB, DLA_LSB, FCR, EFR
  <2>4. PortInv'
    BY <2>1, <2>3 DEF Inv, PortInv, Rated, Unqueued, Initialising
  <2> QED BY <1>2, <2>3, <2>4, StatementInv DEF Initialising
<1>3. ASSUME NEW v \in Uninitialised, Statement("fcr", "lcr_0"), Out(FCR, v)
      PROVE  Inv'
  <2>1. pc = "fcr" /\ pc' = "lcr_0" /\ UNCHANGED <<nmi, got>> /\ thr = << >> /\ nmi = "none"
        /\ got = << >>
    BY <1>3 DEF Statement, Initialising, Inv, PortInv
  <2>2. DivisorAccess /\ lcr = 191
    BY <2>1, Bits DEF Inv, PortInv, DivisorAccess, EfrAccess, Unqueued, Rated, Labels, Initialising
  <2>0. v \in Byte
    BY ConsoleAssumption DEF Byte
  <2>3. /\ thr' = << >> /\ lost' = lost /\ DeviceType'
        /\ lcr' = 191 /\ dlm' = dlm /\ ier' = ier
    BY <2>0, <2>1, <2>2, <1>3, OutControl DEF Inv, LCR, TXRX, IER, DLA_MSB, DLA_LSB, FCR, EFR
  <2>4. PortInv'
    BY <2>1, <2>3 DEF Inv, PortInv, Rated, Unqueued, Initialising
  <2> QED BY <1>3, <2>3, <2>4, StatementInv DEF Initialising
<1>4. CASE Statement("lcr_0", "efr") /\ Out(LCR, 0)
  <2>1. pc = "lcr_0" /\ pc' = "efr" /\ UNCHANGED <<nmi, got>> /\ thr = << >> /\ nmi = "none"
        /\ got = << >>
    BY <1>4 DEF Statement, Initialising, Inv, PortInv
  <2>2. DivisorAccess
    BY <2>1, Bits DEF Inv, PortInv, DivisorAccess, EfrAccess, Unqueued, Rated, Labels, Initialising
  <2>3. /\ thr' = << >> /\ lost' = lost /\ DeviceType'
        /\ lcr' = 0 /\ dlm' = dlm /\ ier' = ier
    BY <2>1, <2>2, <1>4, OutControl DEF Inv, Byte, LCR, TXRX, IER, DLA_MSB, DLA_LSB, FCR, EFR
  <2>4. PortInv'
    BY <2>1, <2>3 DEF Inv, PortInv, Rated, Unqueued, Initialising
  <2> QED BY <1>4, <2>3, <2>4, StatementInv DEF Initialising
<1>5. CASE Statement("efr", "enable_dla") /\ Out(EFR, 192)
  <2>1. pc = "efr" /\ pc' = "enable_dla" /\ UNCHANGED <<nmi, got>> /\ thr = << >> /\ nmi = "none"
        /\ got = << >>
    BY <1>5 DEF Statement, Initialising, Inv, PortInv
  <2>2. ~DivisorAccess /\ lcr = 0 /\ ~EfrAccess
    BY <2>1, Bits DEF Inv, PortInv, DivisorAccess, EfrAccess, Unqueued, Rated, Labels, Initialising
  <2>3. /\ thr' = << >> /\ lost' = lost /\ DeviceType'
        /\ lcr' = 0 /\ dlm' = dlm /\ ier' = ier /\ fcr' = 192
    BY <2>1, <2>2, <1>5, OutControl DEF Inv, Byte, LCR, TXRX, IER, DLA_MSB, DLA_LSB, FCR, EFR
  <2>4. PortInv'
    BY <2>1, <2>3 DEF Inv, PortInv, Rated, Unqueued, Initialising
  <2> QED BY <1>5, <2>3, <2>4, StatementInv DEF Initialising
<1> QED BY <1>1, <1>2, <1>3, <1>4, <1>5 DEF FifoInit

\* The same for the rate and the format.
LEMMA CommonInitInv == ASSUME Inv, CommonInit PROVE Inv'
<1>1. CASE Statement("enable_dla", "dla_lsb") /\ Out(LCR, 128)
  <2>1. pc = "enable_dla" /\ pc' = "dla_lsb" /\ UNCHANGED <<nmi, got>> /\ thr = << >> /\ nmi = "none"
        /\ got = << >>
    BY <1>1 DEF Statement, Initialising, Inv, PortInv
  <2>2. ~DivisorAccess /\ fcr = 192
    BY <2>1, Bits DEF Inv, PortInv, DivisorAccess, EfrAccess, Unqueued, Rated, Labels, Initialising
  <2>3. /\ thr' = << >> /\ lost' = lost /\ DeviceType'
        /\ lcr' = 128 /\ dlm' = dlm /\ ier' = ier /\ fcr' = 192
    BY <2>1, <2>2, <1>1, OutControl DEF Inv, Byte, LCR, TXRX, IER, DLA_MSB, DLA_LSB, FCR, EFR
  <2>4. PortInv'
    BY <2>1, <2>3 DEF Inv, PortInv, Rated, Unqueued, Initialising
  <2> QED BY <1>1, <2>3, <2>4, StatementInv DEF Initialising
<1>2. CASE Statement("dla_lsb", "dla_msb") /\ Out(DLA_LSB, 1)
  <2>1. pc = "dla_lsb" /\ pc' = "dla_msb" /\ UNCHANGED <<nmi, got>> /\ thr = << >> /\ nmi = "none"
        /\ got = << >>
    BY <1>2 DEF Statement, Initialising, Inv, PortInv
  <2>2. DivisorAccess /\ fcr = 192 /\ lcr = 128
    BY <2>1, Bits DEF Inv, PortInv, DivisorAccess, EfrAccess, Unqueued, Rated, Labels, Initialising
  <2>3. /\ thr' = << >> /\ lost' = lost /\ DeviceType'
        /\ lcr' = 128 /\ dlm' = dlm /\ ier' = ier /\ fcr' = 192 /\ dll' = 1
    BY <2>1, <2>2, <1>2, OutControl DEF Inv, Byte, LCR, TXRX, IER, DLA_MSB, DLA_LSB, FCR, EFR
  <2>4. PortInv'
    BY <2>1, <2>3 DEF Inv, PortInv, Rated, Unqueued, Initialising
  <2> QED BY <1>2, <2>3, <2>4, StatementInv DEF Initialising
<1>3. CASE Statement("dla_msb", "lcr_8n1") /\ Out(DLA_MSB, 0)
  <2>1. pc = "dla_msb" /\ pc' = "lcr_8n1" /\ UNCHANGED <<nmi, got>> /\ thr = << >> /\ nmi = "none"
        /\ got = << >>
    BY <1>3 DEF Statement, Initialising, Inv, PortInv
  <2>2. DivisorAccess /\ fcr = 192 /\ lcr = 128 /\ dll = 1
    BY <2>1, Bits DEF Inv, PortInv, DivisorAccess, EfrAccess, Unqueued, Rated, Labels, Initialising
  <2>3. /\ thr' = << >> /\ lost' = lost /\ DeviceType'
        /\ lcr' = 128 /\ dlm' = 0 /\ ier' = ier /\ fcr' = 192 /\ dll' = 1
    BY <2>1, <2>2, <1>3, OutControl DEF Inv, Byte, LCR, TXRX, IER, DLA_MSB, DLA_LSB, FCR, EFR
  <2>4. PortInv'
    BY <2>1, <2>3 DEF Inv, PortInv, Rated, Unqueued, Initialising
  <2> QED BY <1>3, <2>3, <2>4, StatementInv DEF Initialising
<1>4. CASE Statement("lcr_8n1", "ier") /\ Out(LCR, 3)
  <2>1. pc = "lcr_8n1" /\ pc' = "ier" /\ UNCHANGED <<nmi, got>> /\ thr = << >> /\ nmi = "none"
        /\ got = << >>
    BY <1>4 DEF Statement, Initialising, Inv, PortInv
  <2>2. DivisorAccess /\ fcr = 192 /\ dll = 1
    BY <2>1, Bits DEF Inv, PortInv, DivisorAccess, EfrAccess, Unqueued, Rated, Labels, Initialising
  <2>3. /\ thr' = << >> /\ lost' = lost /\ DeviceType'
        /\ lcr' = 3 /\ dlm' = dlm /\ ier' = ier /\ fcr' = 192 /\ dll' = 1
    BY <2>1, <2>2, <1>4, OutControl DEF Inv, Byte, LCR, TXRX, IER, DLA_MSB, DLA_LSB, FCR, EFR
  <2>4. PortInv'
    BY <2>1, <2>3 DEF Inv, PortInv, Rated, Unqueued, Initialising
  <2> QED BY <1>4, <2>3, <2>4, StatementInv DEF Initialising
<1>5. CASE Statement("ier", "flush_recv") /\ Out(IER, 0)
  <2>1. pc = "ier" /\ pc' = "flush_recv" /\ UNCHANGED <<nmi, got>> /\ thr = << >> /\ nmi = "none"
        /\ got = << >>
    BY <1>5 DEF Statement, Initialising, Inv, PortInv
  <2>2. ~DivisorAccess /\ fcr = 192 /\ lcr = 3 /\ dll = 1
    BY <2>1, Bits DEF Inv, PortInv, DivisorAccess, EfrAccess, Unqueued, Rated, Labels, Initialising
  <2>3. /\ thr' = << >> /\ lost' = lost /\ DeviceType'
        /\ lcr' = 3 /\ dlm' = dlm /\ ier' = 0 /\ fcr' = 192 /\ dll' = 1
    BY <2>1, <2>2, <1>5, OutControl DEF Inv, Byte, LCR, TXRX, IER, DLA_MSB, DLA_LSB, FCR, EFR
  <2>4. PortInv'
    BY <2>1, <2>3 DEF Inv, PortInv, Rated, Unqueued, Initialising
  <2> QED BY <1>5, <2>3, <2>4, StatementInv DEF Initialising
<1> QED BY <1>1, <1>2, <1>3, <1>4, <1>5 DEF CommonInit

\* What came before is dropped, and then the port is ready.
LEMMA FlushRecvInv == ASSUME Inv, FlushRecv PROVE Inv'
<1>1. /\ pc = "flush_recv" /\ pc' \in {"flush_recv", "idle"} /\ UNCHANGED <<nmi, got>>
      /\ thr = << >> /\ nmi = "none" /\ got = << >>
      /\ lcr = 3 /\ dll = 1 /\ fcr = 192 /\ dlm = 0 /\ ier = 0
  BY DEF FlushRecv, Statement, Inv, PortInv, Initialising, Rated, Unqueued, Labels
<1>2. UNCHANGED <<registers, thr, line, lost, cts>>
  BY DEF FlushRecv, In, device
<1>3. PortInv'
  BY <1>1, <1>2 DEF PortInv, registers, Initialising
<1>4. rx' \in Seq(BOOLEAN)
  <2>1. CASE rx' = rx
    BY <2>1, Zenon DEF Inv, DeviceType
  <2>2. CASE CanRecv /\ In
    <3>1. \A s \in Seq(BOOLEAN) : s # << >> => Tail(s) \in Seq(BOOLEAN)
      OBVIOUS
    <3> QED BY <2>2, <3>1, Zenon DEF Inv, DeviceType, CanRecv, In
  <2> QED BY <2>1, <2>2 DEF FlushRecv, device
<1>5. DeviceType'
  BY <1>2, <1>4, Zenon DEF Inv, DeviceType, registers
<1>6. CASE Statement("flush_recv", "flush_recv")
  BY <1>1, <1>2, <1>3, <1>5, <1>6, StatementInv DEF Initialising
<1>7. CASE Statement("flush_recv", "idle") /\ ~CanRecv /\ UNCHANGED device
  <2>1. rx' = << >>
    BY <1>7 DEF CanRecv, device
  <2> QED BY <1>1, <1>2, <1>3, <1>5, <1>7, <2>1, StatementInv DEF Initialising
<1> QED BY <1>6, <1>7 DEF FlushRecv
-----------------------------------------------------------------------------
(***************************************************************************)
(* A step of printf, of panic or of uart_read that leaves the port alone.  *)
(***************************************************************************)

\* What a context goes on with: its call and its label.
Quiet(c, to) ==
  /\ call' = [call EXCEPT ![Who] = c] /\ Goto(to) /\ CallGood(Who, c, to)
  /\ UNCHANGED <<device, got, nmis>> /\ vprint_buffer' \in [0 .. Size - 1 -> Byte]
  /\ prints' \in Nat /\ reads' \in Nat /\ received' \in Nat
  /\ \/ to \in {"format", "write", "send"}
     \/ Who = "nmi" /\ to = "none"
     \/ Who = "kernel" /\ to \in {"idle", "flush", "flush_send", "halt", "read", "recv"}
  /\ to \in {"send", "flush_send"} => CanSend
  /\ to = "recv" => CanRecv
  /\ to = "flush" => c.sz = 0
  /\ to = "halt" => pc = "flush" /\ call["kernel"].sz > 0
  /\ pc \notin Initialising

\* The port stays as it is.
LEMMA PortKept ==
  ASSUME Inv, pc \notin Initialising, pc' \notin Initialising, UNCHANGED registers
  PROVE  PortInv'
<1>1. ier = 0 /\ dlm = 0 /\ lcr = 3 /\ dll = 1 /\ fcr = 192
  BY PortReady DEF Inv
<1>2. pc' \notin {"enable_efr", "efr_ctl", "fcr", "lcr_0", "efr", "enable_dla", "dla_lsb",
                  "dla_msb", "lcr_8n1"}
  BY DEF Initialising
<1> QED BY <1>1, <1>2 DEF PortInv, registers

\* The context that goes on, and the other one.
LEMMA QuietCalls ==
  ASSUME Inv, NEW c \in CallType, NEW to, call' = [call EXCEPT ![Who] = c], Goto(to),
         CallGood(Who, c, to)
  PROVE  /\ call' \in [{"kernel", "nmi"} -> CallType] /\ CallInv'
         /\ Who = "kernel" => /\ nmi = "none" /\ nmi' = "none" /\ pc' = to
                              /\ call'["kernel"] = c
         /\ Who = "nmi" => /\ nmi # "none" /\ nmi' = to /\ pc' = pc
                           /\ call'["kernel"] = call["kernel"]
         /\ Who \in {"kernel", "nmi"}
<1>1. call \in [{"kernel", "nmi"} -> CallType]
  BY DEF Inv, DriverType
<1>2. CallGood("kernel", call["kernel"], pc) /\ CallGood("nmi", call["nmi"], nmi)
  BY DEF Inv, CallInv
<1>3. CASE nmi = "none"
  <2>1. Who = "kernel" /\ pc' = to /\ nmi' = nmi
    BY <1>3 DEF Who, Goto
  <2>2. call'["kernel"] = c /\ call'["nmi"] = call["nmi"] /\ call' \in [{"kernel", "nmi"} -> CallType]
    BY <2>1, <1>1
  <2>3. CallGood("kernel", c, to)
    BY <2>1
  <2>4. CallGood("kernel", call'["kernel"], pc') /\ CallGood("nmi", call'["nmi"], nmi')
    BY <2>1, <2>2, <2>3, <1>2, Zenon
  <2> QED BY <2>1, <2>2, <2>4, <1>3 DEF CallInv, CallGood
<1>4. CASE nmi # "none"
  <2>1. Who = "nmi" /\ pc' = pc /\ nmi' = to
    BY <1>4 DEF Who, Goto
  <2>2. call'["nmi"] = c /\ call'["kernel"] = call["kernel"] /\ call' \in [{"kernel", "nmi"} -> CallType]
    BY <2>1, <1>1
  <2>3. CallGood("nmi", c, to)
    BY <2>1
  <2>4. CallGood("kernel", call'["kernel"], pc') /\ CallGood("nmi", call'["nmi"], nmi')
    BY <2>1, <2>2, <2>3, <1>2, Zenon
  <2> QED BY <2>1, <2>2, <2>4, <1>4 DEF CallInv, CallGood
<1> QED BY <1>3, <1>4

\* Without an NMI no NMI handler runs.
LEMMA NoNmi == ASSUME Inv, nmis = 0 PROVE nmi = "none" /\ lost = 0
BY DEF Inv, LossInv, DeviceType

\* Such a step keeps the invariant.
LEMMA QuietInv ==
  ASSUME Inv, NEW c \in CallType, NEW to, Quiet(c, to)
  PROVE  Inv'
<1>1. /\ call' \in [{"kernel", "nmi"} -> CallType] /\ CallInv'
      /\ Who = "kernel" => /\ nmi = "none" /\ nmi' = "none" /\ pc' = to
                           /\ call'["kernel"] = c
      /\ Who = "nmi" => /\ nmi # "none" /\ nmi' = to /\ pc' = pc
                        /\ call'["kernel"] = call["kernel"]
      /\ Who \in {"kernel", "nmi"}
  BY QuietCalls DEF Quiet
<1>2. /\ UNCHANGED <<registers, rx, thr, line, lost, cts>> /\ UNCHANGED <<got, nmis>>
      /\ pc \notin Initialising
  BY DEF Quiet, device
<1>3. \/ to \in {"format", "write", "send"}
      \/ Who = "nmi" /\ to = "none"
      \/ Who = "kernel" /\ to \in {"idle", "flush", "flush_send", "halt", "read", "recv"}
  BY DEF Quiet
<1>4. /\ to \in {"send", "flush_send"} => thr = << >>
      /\ to = "recv" => rx # << >>
      /\ to = "flush" => c.sz = 0
      /\ to = "halt" => pc = "flush" /\ call["kernel"].sz > 0
  BY DEF Quiet, CanSend, CanRecv
<1>5. pc' \in Labels /\ pc' \notin Initialising /\ nmi' \in {"none", "format", "write", "send"}
  BY <1>1, <1>2, <1>3 DEF Inv, DriverType, Labels, Initialising
<1>6. DriverType'
  BY <1>1, <1>2, <1>5 DEF Quiet, Inv, DriverType
<1>7. DeviceType'
  BY <1>2, Zenon DEF Inv, DeviceType, registers
<1>8. PortInv'
  BY <1>2, <1>5, PortKept
<1>9. FifoInv'
  <2>1. got' \in Seq({TRUE})
    BY <1>2, Zenon DEF Inv, FifoInv
  <2>2. thr' = << >> \/ \E b \in Byte : thr' = <<b>>
    BY <1>2, Zenon DEF Inv, FifoInv
  <2>3. rx' = << >> \/ rx' = <<TRUE>>
    BY <1>2, Zenon DEF Inv, FifoInv
  <2>4. pc' = "recv" => rx' = <<TRUE>>
    <3>1. pc' = "recv" => pc = "recv" \/ rx # << >>
      BY <1>1, <1>3, <1>4
    <3>2. pc = "recv" => rx = <<TRUE>>
      BY Zenon DEF Inv, FifoInv
    <3>3. rx' = rx
      BY <1>2
    <3> QED BY <3>1, <3>2, <3>3, <2>3, Zenon
  <2> QED BY <2>1, <2>2, <2>3, <2>4, Zenon DEF FifoInv
<1>10. LossInv'
  BY <1>1, <1>2, <1>3, <1>4 DEF Inv, LossInv, DeviceType, DriverType
<1>11. FlushInv'
  <2> SUFFICES ASSUME nmis = 0
               PROVE  /\ pc' \in {"flush", "flush_send"} /\ call'["kernel"].sz > 0
                           => thr = << >> \/ thr = <<NUL>>
                      /\ pc' = "halt" => thr = << >> \/ thr = <<NUL>>
    BY <1>2 DEF FlushInv
  <2>1. Who = "kernel" /\ pc' = to /\ call'["kernel"] = c
    BY <1>1, NoNmi
  <2>2. FlushInv
    BY DEF Inv
  <2> QED BY <2>1, <2>2, <1>4 DEF FlushInv
<1> QED BY <1>1, <1>6, <1>7, <1>8, <1>9, <1>10, <1>11 DEF Inv
-----------------------------------------------------------------------------
(***************************************************************************)
(* Messages.                                                               *)
(***************************************************************************)

\* A sequence over a set is one over a larger set.
LEMMA SeqWider ==
  ASSUME NEW S, NEW T, S \subseteq T, NEW s \in Seq(S)
  PROVE  s \in Seq(T) /\ Len(s) \in Nat
<1>1. Len(s) \in Nat /\ s \in [1 .. Len(s) -> S]
  OBVIOUS
<1>2. s \in [1 .. Len(s) -> T]
  BY <1>1
<1> QED BY <1>1, <1>2

\* What is printed is a sequence of characters, an NMI's report one of those
\* with nothing unsupported in them.
LEMMA Texts ==
  /\ \A m \in Messages \cup {PanicMessage, << >>} : m \in Printable
  /\ \A m \in Reports \cup {PanicMessage, << >>} : m \in Plain /\ m \in Printable
  /\ \A m \in Printable : m \in Text /\ Len(m) \in Nat
<1>1. << >> \in Plain
  BY DEF Plain
<1>2. \A m \in Plain : m \in Printable
  BY SeqWider DEF Plain, Printable
<1>3. \A m \in Printable : m \in Text /\ Len(m) \in Nat
  <2>1. 1 .. 255 \cup {Unsupported} \subseteq Int
    BY DEF Unsupported
  <2> QED BY <2>1, SeqWider DEF Printable, Text
<1>4. PanicMessage \in Plain /\ \A m \in Messages : m \in Printable
  BY ConsoleAssumption DEF Plain, Printable
<1>5. NmiReport \in Seq(Plain)
  BY ConsoleAssumption DEF Plain
<1>6. \A m \in Reports : m \in Plain
  BY <1>5 DEF Reports
<1>7. \A m \in Messages \cup {PanicMessage, << >>} : m \in Printable
  BY <1>1, <1>2, <1>4
<1>8. \A m \in Reports \cup {PanicMessage, << >>} : m \in Plain /\ m \in Printable
  BY <1>1, <1>2, <1>4, <1>6
<1> QED BY <1>3, <1>7, <1>8, Zenon

\* What a sequence holds.
LEMMA SeqItem ==
  ASSUME NEW S, NEW s \in Seq(S), NEW k \in 1 .. Len(s)
  PROVE  s[k] \in S
OBVIOUS

\* What can be printed of a message is a byte.
LEMMA TextByte ==
  ASSUME NEW s \in Printable, NEW k \in 1 .. Len(s), s[k] # Unsupported
  PROVE  s[k] \in Byte
<1>1. s[k] \in 1 .. 255 \cup {Unsupported}
  BY SeqItem DEF Printable
<1>2. \A x \in 1 .. 255 \cup {Unsupported} : x # Unsupported => x \in Byte
  BY DEF Byte
<1> QED BY <1>1, <1>2, Zenon

\* What makes a call.
LEMMA CallIn ==
  ASSUME NEW t \in Text, NEW r \in Following
  PROVE  [text |-> t, done |-> 0, sz |-> 0, n |-> 0, rest |-> r] \in CallType
BY DEF CallType

\* A call that starts to print one message.
LEMMA PrintingOne ==
  ASSUME NEW m
  PROVE  Printing(<<m>>) = [text |-> m, done |-> 0, sz |-> 0, n |-> 0, rest |-> << >>]
BY DEF Printing

\* It is a call that the kernel may make.
LEMMA PrintingGood ==
  ASSUME NEW m \in Messages \cup {PanicMessage, << >>}
  PROVE  /\ Printing(<<m>>) \in CallType
         /\ CallGood("kernel", Printing(<<m>>), "format")
         /\ CallGood("kernel", Printing(<<m>>), "idle")
<1> DEFINE c == Printing(<<m>>)
<1>1. c = [text |-> m, done |-> 0, sz |-> 0, n |-> 0, rest |-> << >>]
  BY PrintingOne
<1>2. m \in Text /\ Len(m) \in Nat
  BY Texts, Zenon
<1>3. << >> \in Following
  BY DEF Following
<1>4. c \in CallType
  <2>1. [text |-> m, done |-> 0, sz |-> 0, n |-> 0, rest |-> << >>] \in CallType
    BY <1>2, <1>3, CallIn
  <2> QED BY <1>1, <2>1, Zenon
<1>5. c.text = m /\ c.done = 0 /\ c.sz = 0 /\ c.rest = << >>
  BY <1>1
<1>6. 0 <= Len(m) /\ 0 < Size
  BY <1>2, Sizes
<1> QED BY <1>4, <1>5, <1>6 DEF CallGood

\* The rest of an NMI's report, when there is some.
LEMMA PrintingRest ==
  ASSUME NEW r \in Seq(Reports), r # << >>
  PROVE  Printing(r) \in CallType /\ CallGood("nmi", Printing(r), "format")
<1> DEFINE c == Printing(r)
<1>1. /\ c.text = Head(r) /\ c.done = 0 /\ c.sz = 0 /\ c.n = 0 /\ c.rest = Tail(r)
      /\ c = [text |-> Head(r), done |-> 0, sz |-> 0, n |-> 0, rest |-> Tail(r)]
  BY DEF Printing
<1>2. Head(r) \in Reports /\ Tail(r) \in Seq(Reports)
  OBVIOUS
<1>3. Head(r) \in Text /\ Len(Head(r)) \in Nat
  BY <1>2, Texts, Zenon
<1>4. Tail(r) \in Following
  <2>1. Reports \subseteq Plain
    BY Texts
  <2> QED BY <1>2, <2>1, SeqWider DEF Following, Plain
<1>5. c \in CallType
  <2>1. [text |-> Head(r), done |-> 0, sz |-> 0, n |-> 0, rest |-> Tail(r)] \in CallType
    BY <1>3, <1>4, CallIn
  <2> QED BY <1>1, <2>1, Zenon
<1>6. 0 <= Len(Head(r)) /\ 0 < Size
  BY <1>3, Sizes
<1> QED BY <1>1, <1>2, <1>5, <1>6 DEF CallGood

\* The context that runs is at its label with a call that fits it.
LEMMA Context ==
  ASSUME Inv, NEW label \in {"format", "write", "send", "flush", "flush_send", "read", "recv"},
         At(label)
  PROVE  /\ call[Who] \in CallType /\ CallGood(Who, call[Who], label)
         /\ pc \notin Initialising
         /\ \/ Who = "kernel" /\ nmi = "none" /\ pc = label
            \/ Who = "nmi" /\ nmi = label /\ label \in {"format", "write", "send"}
<1>1. call \in [{"kernel", "nmi"} -> CallType]
  BY DEF Inv, DriverType
<1>2. CASE nmi = "none"
  <2>1. Who = "kernel" /\ pc = label
    BY <1>2 DEF Who, At
  <2> QED BY <2>1, <1>1, <1>2 DEF Inv, CallInv, Initialising
<1>3. CASE nmi # "none"
  <2>1. Who = "nmi" /\ nmi = label
    BY <1>3 DEF Who, At
  <2>2. pc \notin Initialising
    BY <1>3 DEF Inv, PortInv
  <2>3. label \in {"format", "write", "send"}
    BY <2>1, <1>3 DEF Inv, DriverType
  <2> QED BY <2>1, <2>2, <2>3, <1>1, <1>3 DEF Inv, CallInv
<1> QED BY <1>2, <1>3
-----------------------------------------------------------------------------
(***************************************************************************)
(* printf and panic.                                                       *)
(***************************************************************************)

\* The fields of a call, to change some of them.
LEMMA CallFields ==
  ASSUME NEW a \in CallType
  PROVE  /\ a = [text |-> a.text, done |-> a.done, sz |-> a.sz, n |-> a.n, rest |-> a.rest]
         /\ a.text \in Seq(Int) /\ a.done \in Nat /\ a.sz \in Nat /\ a.n \in Nat
         /\ a.rest \in Seq(Seq(1 .. 255))
<1>1. /\ a = [text |-> a.text, done |-> a.done, sz |-> a.sz, n |-> a.n, rest |-> a.rest]
      /\ a.text \in Text /\ a.done \in Nat /\ a.sz \in Nat /\ a.n \in Nat /\ a.rest \in Following
  BY DEF CallType
<1> QED BY <1>1 DEF Text, Following

\* Changing two fields of a context's call.
LEMMA CallExcept ==
  ASSUME NEW f \in [{"kernel", "nmi"} -> CallType], NEW w \in {"kernel", "nmi"},
         NEW d \in Nat, NEW i \in Nat
  PROVE  /\ [f EXCEPT ![w].sz = i, ![w].done = d] = [f EXCEPT ![w] = [f[w] EXCEPT !.sz = i, !.done = d]]
         /\ [f EXCEPT ![w].n = i, ![w].sz = d] = [f EXCEPT ![w] = [f[w] EXCEPT !.n = i, !.sz = d]]
         /\ [f EXCEPT ![w].sz = d, ![w].n = i] = [f EXCEPT ![w] = [f[w] EXCEPT !.sz = d, !.n = i]]
         /\ [f EXCEPT ![w].done = d] = [f EXCEPT ![w] = [f[w] EXCEPT !.done = d]]
         /\ [f EXCEPT ![w].sz = d] = [f EXCEPT ![w] = [f[w] EXCEPT !.sz = d]]
OBVIOUS

\* One character, kept or dropped: the index stays below the buffer's size.
LEMMA FormatCharInv == ASSUME Inv, FormatChar PROVE Inv'
<1>1. At("format") /\ UNCHANGED <<device, pc, nmi, got, prints, reads, received, nmis>>
  BY DEF FormatChar, counters
<1>2. /\ call[Who] \in CallType /\ CallGood(Who, call[Who], "format") /\ pc \notin Initialising
      /\ Who \in {"kernel", "nmi"} /\ call \in [{"kernel", "nmi"} -> CallType]
  BY <1>1, Context DEF Inv, DriverType
<1> PICK a : a = call[Who]
  OBVIOUS
<1>3. /\ a \in CallType /\ a.sz \in Nat /\ a.done \in Nat /\ a.sz < Size
      /\ a.done < Len(a.text) /\ a.text[a.done + 1] # Unsupported
      /\ BufAdd(a.text[a.done + 1])
  BY <1>1, <1>2, CallFields DEF FormatChar, CallGood
<1>4. a.text[a.done + 1] \in Byte
  <2>1. a.text \in Printable
    <3>1. a.text \in Messages \cup {PanicMessage, << >>} \/ a.text \in Reports \cup {<< >>}
      BY <1>2 DEF CallGood
    <3> QED BY <3>1, Texts
  <2>2. a.done + 1 \in 1 .. Len(a.text)
    BY <1>3, CallFields
  <2>3. \A s \in Printable : \A k \in 1 .. Len(s) :
            s[k] # Unsupported => s[k] \in Byte
    BY TextByte
  <2> QED BY <2>1, <2>2, <2>3, <1>3, Zenon
<1>5. PICK c \in CallType : /\ call' = [call EXCEPT ![Who] = c]
                            /\ c.text = a.text /\ c.rest = a.rest /\ c.n = a.n
                            /\ c.done = a.done + 1 /\ c.sz \in Nat /\ c.sz < Size
  <2>1. CASE a.sz < Size - 1
    <3>1. call' = [call EXCEPT ![Who].sz = a.sz + 1, ![Who].done = a.done + 1]
      BY <1>3, <2>1 DEF BufAdd
    <3>2. call' = [call EXCEPT ![Who] = [a EXCEPT !.sz = a.sz + 1, !.done = a.done + 1]]
      BY <3>1, <1>2, <1>3, CallExcept
    <3>3. a.sz + 1 \in Nat /\ a.done + 1 \in Nat /\ a.sz + 1 < Size
      <4>1. a.sz \in Nat /\ a.done \in Nat /\ Size \in Nat
        BY <1>3, Sizes
      <4> QED BY <4>1, <2>1
    <3> DEFINE d == [a EXCEPT !.sz = a.sz + 1, !.done = a.done + 1]
    <3>4. d \in CallType
      BY <1>3, <3>3 DEF CallType
    <3>5. /\ d.text = a.text /\ d.rest = a.rest /\ d.n = a.n
          /\ d.done = a.done + 1 /\ d.sz = a.sz + 1
      BY <1>3 DEF CallType
    <3> QED BY <3>2, <3>3, <3>4, <3>5
  <2>2. CASE ~(a.sz < Size - 1)
    <3>1. call' = [call EXCEPT ![Who].done = a.done + 1]
      BY <1>3, <2>2 DEF BufAdd
    <3>2. call' = [call EXCEPT ![Who] = [a EXCEPT !.done = a.done + 1]]
      BY <3>1, <1>2, <1>3, CallExcept
    <3>3. a.done + 1 \in Nat
      BY <1>3
    <3> DEFINE d == [a EXCEPT !.done = a.done + 1]
    <3>4. d \in CallType
      BY <1>3, <3>3 DEF CallType
    <3>5. /\ d.text = a.text /\ d.rest = a.rest /\ d.n = a.n
          /\ d.done = a.done + 1 /\ d.sz = a.sz
      BY <1>3 DEF CallType
    <3> QED BY <1>3, <3>2, <3>4, <3>5
  <2> QED BY <2>1, <2>2
<1>6. CallGood(Who, c, "format")
  <2>1. a.done + 1 <= Len(a.text)
    BY <1>3, CallFields
  <2> QED BY <1>2, <1>5, <2>1 DEF CallGood
<1>7. vprint_buffer' \in [0 .. Size - 1 -> Byte]
  <2>1. vprint_buffer \in [0 .. Size - 1 -> Byte]
    BY DEF Inv, DriverType
  <2>2. vprint_buffer' = [vprint_buffer EXCEPT ![a.sz] = a.text[a.done + 1]] \/ vprint_buffer' = vprint_buffer
    BY <1>3 DEF BufAdd
  <2> QED BY <2>1, <2>2, <1>4
<1>8. Goto("format")
  BY <1>1 DEF At, Goto
<1>9. Quiet(c, "format")
  BY <1>1, <1>2, <1>5, <1>6, <1>7, <1>8 DEF Quiet, Inv, DriverType
<1> QED BY <1>9, QuietInv
\* A conversion print.c lacks: only the kernel's messages have one.
LEMMA FormatUnsupportedInv == ASSUME Inv, FormatUnsupported PROVE Inv'
<1>1. /\ At("format") /\ UNCHANGED <<device, pc, nmi, vprint_buffer, got, prints, reads, received, nmis>>
      /\ call' = [call EXCEPT ![Who] = Printing(<<PanicMessage>>)]
  BY DEF FormatUnsupported, counters
<1>2. /\ call[Who] \in CallType /\ CallGood(Who, call[Who], "format") /\ pc \notin Initialising
      /\ Who \in {"kernel", "nmi"}
  BY <1>1, Context
<1> PICK a : a = call[Who]
  OBVIOUS
<1>3. a.done < Len(a.text) /\ a.text[a.done + 1] = Unsupported
  BY DEF FormatUnsupported
<1>4. Who = "kernel"
  <2> SUFFICES ASSUME Who = "nmi" PROVE FALSE
    BY <1>2
  <2>1. a.text \in Plain
    BY <1>2, Texts DEF CallGood
  <2>2. a.done + 1 \in 1 .. Len(a.text)
    BY <1>2, <1>3, CallFields
  <2>3. a.text[a.done + 1] \in 1 .. 255
    BY <2>1, <2>2, SeqItem DEF Plain
  <2>4. Unsupported \notin 1 .. 255
    BY DEF Unsupported
  <2> QED BY <1>3, <2>3, <2>4, Zenon
<1>5. /\ Printing(<<PanicMessage>>) \in CallType
      /\ CallGood(Who, Printing(<<PanicMessage>>), "format")
  BY <1>4, PrintingGood
<1>6. Goto("format")
  BY <1>1 DEF At, Goto
<1>7. Quiet(Printing(<<PanicMessage>>), "format")
  BY <1>1, <1>2, <1>5, <1>6 DEF Quiet, Inv, DriverType
<1> QED BY <1>5, <1>7, QuietInv

\* The NUL has its place, and what is before it is to be written.
LEMMA FormatEndInv == ASSUME Inv, FormatEnd PROVE Inv'
<1>1. At("format") /\ Goto("write") /\ UNCHANGED <<device, got, prints, reads, received, nmis>>
  BY DEF FormatEnd, counters
<1>2. /\ call[Who] \in CallType /\ CallGood(Who, call[Who], "format") /\ pc \notin Initialising
      /\ Who \in {"kernel", "nmi"} /\ call \in [{"kernel", "nmi"} -> CallType]
  BY <1>1, Context DEF Inv, DriverType
<1> PICK a : a = call[Who]
  OBVIOUS
<1>3. /\ a \in CallType /\ a.sz \in Nat /\ a.sz < Size
      /\ vprint_buffer' = [vprint_buffer EXCEPT ![a.sz] = NUL]
      /\ call' = [call EXCEPT ![Who].n = a.sz, ![Who].sz = 0]
  BY <1>2, CallFields DEF FormatEnd, CallGood
<1>4. PICK c \in CallType : /\ call' = [call EXCEPT ![Who] = c]
                            /\ c.text = a.text /\ c.rest = a.rest /\ c.done = a.done
                            /\ c.n = a.sz /\ c.sz = 0
  <2>1. call' = [call EXCEPT ![Who] = [a EXCEPT !.n = a.sz, !.sz = 0]]
    BY <1>2, <1>3, CallExcept
  <2> DEFINE d == [a EXCEPT !.n = a.sz, !.sz = 0]
  <2>2. d \in CallType
    BY <1>3 DEF CallType
  <2>3. d.text = a.text /\ d.rest = a.rest /\ d.done = a.done /\ d.n = a.sz /\ d.sz = 0
    BY <1>3 DEF CallType
  <2> QED BY <2>1, <2>2, <2>3
<1>5. CallGood(Who, c, "write")
  BY <1>2, <1>3, <1>4 DEF CallGood
<1>6. vprint_buffer' \in [0 .. Size - 1 -> Byte]
  <2>1. vprint_buffer \in [0 .. Size - 1 -> Byte]
    BY DEF Inv, DriverType
  <2>2. NUL \in Byte
    BY DEF NUL, Byte
  <2> QED BY <2>1, <2>2, <1>3
<1>7. Quiet(c, "write")
  BY <1>1, <1>2, <1>4, <1>5, <1>6 DEF Quiet, Inv, DriverType
<1> QED BY <1>7, QuietInv

\* A context that goes on with the call it has.
LEMMA SameCall ==
  ASSUME Inv, NEW label \in {"format", "write", "send", "flush", "flush_send", "read", "recv"},
         At(label), UNCHANGED call
  PROVE  call' = [call EXCEPT ![Who] = call[Who]]
<1>1. call \in [{"kernel", "nmi"} -> CallType]
  BY DEF Inv, DriverType
<1> QED BY <1>1

\* The transmitter is empty at the test.
LEMMA WritePollInv == ASSUME Inv, WritePoll PROVE Inv'
<1>1. /\ At("write") /\ Goto("send") /\ CanSend /\ call[Who].sz < call[Who].n
      /\ UNCHANGED <<device, call, vprint_buffer, got, prints, reads, received, nmis>>
  BY DEF WritePoll, counters
<1>2. /\ call[Who] \in CallType /\ CallGood(Who, call[Who], "write") /\ pc \notin Initialising
  BY <1>1, Context
<1>3. call' = [call EXCEPT ![Who] = call[Who]]
  BY <1>1, SameCall
<1>4. CallGood(Who, call[Who], "send")
  BY <1>1, <1>2 DEF CallGood
<1>5. Quiet(call[Who], "send")
  BY <1>1, <1>2, <1>3, <1>4 DEF Quiet, Inv, DriverType
<1> QED BY <1>2, <1>5, QuietInv

\* The end of a message.
LEMMA WriteEndInv == ASSUME Inv, WriteEnd PROVE Inv'
<1>1. /\ At("write") /\ call[Who].sz = call[Who].n
      /\ UNCHANGED <<device, vprint_buffer, got, prints, reads, received, nmis>>
  BY DEF WriteEnd, counters
<1>2. /\ call[Who] \in CallType /\ CallGood(Who, call[Who], "write") /\ pc \notin Initialising
      /\ Who \in {"kernel", "nmi"} /\ call \in [{"kernel", "nmi"} -> CallType]
  BY <1>1, Context DEF Inv, DriverType
<1> PICK a : a = call[Who]
  OBVIOUS
<1>3. CASE a.rest # << >>
  <2>1. call' = [call EXCEPT ![Who] = Printing(a.rest)] /\ Goto("format")
    BY <1>3 DEF WriteEnd
  <2>2. Who = "nmi" /\ a.rest \in Seq(Reports)
    BY <1>2, <1>3 DEF CallGood
  <2>3. Printing(a.rest) \in CallType /\ CallGood(Who, Printing(a.rest), "format")
    BY <1>3, <2>2, PrintingRest
  <2>4. Quiet(Printing(a.rest), "format")
    BY <1>1, <1>2, <2>1, <2>3 DEF Quiet, Inv, DriverType
  <2> QED BY <2>3, <2>4, QuietInv
<1>4. CASE a.rest = << >> /\ Who = "nmi"
  <2>1. UNCHANGED call /\ Goto("none")
    BY <1>4 DEF WriteEnd
  <2>2. call' = [call EXCEPT ![Who] = a]
    BY <2>1, <1>1, SameCall
  <2>3. CallGood(Who, a, "none")
    BY <1>2 DEF CallGood
  <2>4. Quiet(a, "none")
    BY <1>1, <1>2, <1>4, <2>1, <2>2, <2>3 DEF Quiet, Inv, DriverType
  <2> QED BY <1>2, <2>4, QuietInv
<1>5. CASE a.rest = << >> /\ Who = "kernel" /\ Panicking
  <2>1. call' = [call EXCEPT ![Who].sz = 0, ![Who].n = Padding] /\ Goto("flush")
    BY <1>5 DEF WriteEnd
  <2>2. a \in CallType /\ Padding \in Nat
    BY <1>2, Sizes
  <2>3. PICK c \in CallType : /\ call' = [call EXCEPT ![Who] = c]
                              /\ c.text = a.text /\ c.rest = a.rest /\ c.done = a.done
                              /\ c.n = Padding /\ c.sz = 0
    <3>1. call' = [call EXCEPT ![Who] = [a EXCEPT !.sz = 0, !.n = Padding]]
      BY <1>2, <2>1, <2>2, CallExcept
    <3> DEFINE d == [a EXCEPT !.sz = 0, !.n = Padding]
    <3>2. d \in CallType
      BY <2>2 DEF CallType
    <3>3. d.text = a.text /\ d.rest = a.rest /\ d.done = a.done /\ d.n = Padding /\ d.sz = 0
      BY <2>2 DEF CallType
    <3> QED BY <3>1, <3>2, <3>3
  <2>4. CallGood(Who, c, "flush")
    BY <1>2, <2>2, <2>3 DEF CallGood
  <2>5. Quiet(c, "flush")
    BY <1>1, <1>2, <1>5, <2>1, <2>3, <2>4 DEF Quiet, Inv, DriverType
  <2> QED BY <2>5, QuietInv
<1>6. CASE a.rest = << >> /\ Who = "kernel" /\ ~Panicking
  <2>1. call' = [call EXCEPT ![Who] = NoCall] /\ Goto("idle")
    BY <1>6 DEF WriteEnd
  <2>2. NoCall \in CallType /\ CallGood(Who, NoCall, "idle")
    BY <1>6, PrintingGood DEF NoCall
  <2>3. Quiet(NoCall, "idle")
    BY <1>1, <1>2, <1>6, <2>1, <2>2 DEF Quiet, Inv, DriverType
  <2> QED BY <2>2, <2>3, QuietInv
<1> QED BY <1>2, <1>3, <1>4, <1>5, <1>6
\* What a character sent may do: the kernel may lose one after an NMI, the NMI's
\* handler none.
LEMMA SendInv ==
  ASSUME Inv, NEW label \in {"send", "flush_send"}, NEW next, NEW v \in Byte, At(label),
         Goto(next), Out(TXRX, v), next = IF label = "send" THEN "write" ELSE "flush",
         label = "flush_send" => v = NUL, call' = [call EXCEPT ![Who].sz = @ + 1],
         UNCHANGED <<vprint_buffer, got, counters>>
  PROVE  Inv'
<1>1. /\ call[Who] \in CallType /\ CallGood(Who, call[Who], label) /\ pc \notin Initialising
      /\ Who \in {"kernel", "nmi"} /\ call \in [{"kernel", "nmi"} -> CallType]
      /\ \/ Who = "kernel" /\ nmi = "none" /\ pc = label
         \/ Who = "nmi" /\ nmi = label /\ label = "send"
  BY Context DEF Inv, DriverType
<1> PICK a : a = call[Who]
  OBVIOUS
<1>2. a \in CallType /\ a.sz \in Nat /\ a.sz + 1 \in Nat
  <2>1. a \in CallType /\ a.sz \in Nat
    BY <1>1, CallFields
  <2> QED BY <2>1
<1>3. PICK c \in CallType : /\ call' = [call EXCEPT ![Who] = c]
                            /\ c.text = a.text /\ c.rest = a.rest /\ c.done = a.done
                            /\ c.n = a.n /\ c.sz = a.sz + 1
  <2>1. call' = [call EXCEPT ![Who].sz = a.sz + 1]
    OBVIOUS
  <2>2. call' = [call EXCEPT ![Who] = [a EXCEPT !.sz = a.sz + 1]]
    BY <1>1, <1>2, <2>1, CallExcept
  <2> DEFINE d == [a EXCEPT !.sz = a.sz + 1]
  <2>3. d \in CallType
    BY <1>2 DEF CallType
  <2>4. d.text = a.text /\ d.rest = a.rest /\ d.done = a.done /\ d.n = a.n /\ d.sz = a.sz + 1
    BY <1>2 DEF CallType
  <2> QED BY <2>2, <2>3, <2>4
<1>4. CallGood(Who, c, next)
  <2>1. a.sz < a.n => a.sz + 1 <= a.n
    BY <1>2, CallFields
  <2> QED BY <1>1, <1>3, <2>1 DEF CallGood
<1>5. /\ call' \in [{"kernel", "nmi"} -> CallType] /\ CallInv'
      /\ \/ nmi = "none" /\ nmi' = "none" /\ pc = label /\ pc' = next
         \/ nmi = "send" /\ nmi' = "write" /\ pc' = pc /\ label = "send"
  BY <1>1, <1>3, <1>4, QuietCalls
<1>6. /\ thr' = <<v>> /\ lost' = lost + Len(thr)
      /\ UNCHANGED <<registers, rx, line, cts>>
      /\ UNCHANGED <<vprint_buffer, got, prints, reads, received, nmis>>
  BY <1>1, OutCharacter DEF Inv, counters
<1>7. (thr = << >> /\ Len(thr) = 0) \/ (thr # << >> /\ Len(thr) = 1)
  BY DEF Inv, FifoInv
<1>8. pc' \notin Initialising /\ pc' \in Labels
  BY <1>1, <1>5 DEF Inv, DriverType, Labels, Initialising
<1>9. DriverType'
  BY <1>5, <1>6, <1>8 DEF Inv, DriverType
<1>10. DeviceType'
  <2>1. lost' \in Nat
    BY <1>6, <1>7 DEF Inv, DeviceType
  <2> QED BY <1>6, <2>1, Zenon DEF Inv, DeviceType, registers
<1>11. PortInv'
  BY <1>1, <1>6, <1>8, PortKept
<1>12. FifoInv'
  <2>1. FifoInv
    BY DEF Inv
  <2>2. pc' = "recv" => pc = "recv"
    BY <1>5
  <2>3. pc' \notin Initialising => pc \notin Initialising
    BY <1>1
  <2>4. rx' = rx /\ got' = got /\ thr' = <<v>>
    BY <1>6
  <2>5. \E b \in Byte : thr' = <<b>>
    BY <2>4, Zenon
  <2>6. got' \in Seq({TRUE}) /\ (pc' \notin Initialising => rx' = << >> \/ rx' = <<TRUE>>)
    BY <2>1, <2>3, <2>4, Zenon DEF FifoInv
  <2>7. pc' = "recv" => rx' = <<TRUE>>
    BY <2>1, <2>2, <2>4, Zenon DEF FifoInv
  <2> QED BY <2>5, <2>6, <2>7, Zenon DEF FifoInv
<1>13. LossInv'
  <2>1. lost \in Nat /\ nmis \in Nat /\ nmis' = nmis /\ LossInv
    BY <1>6 DEF Inv, DeviceType, DriverType
  <2>2. lost' = IF thr = << >> THEN lost ELSE lost + 1
    <3>1. lost' = lost + Len(thr)
      BY <1>6
    <3>2. CASE thr = << >> /\ Len(thr) = 0
      BY <2>1, <3>1, <3>2
    <3>3. CASE thr # << >> /\ Len(thr) = 1
      BY <2>1, <3>1, <3>3
    <3> QED BY <1>7, <3>2, <3>3
  <2>3. CASE nmi = "none" /\ nmi' = "none" /\ pc = label /\ pc' = next
    BY <2>1, <2>2, <2>3 DEF LossInv
  <2>4. CASE nmi = "send" /\ nmi' = "write" /\ pc' = pc
    BY <2>1, <2>2, <2>4 DEF LossInv
  <2> QED BY <1>5, <2>3, <2>4
<1>14. FlushInv'
  <2> SUFFICES ASSUME nmis = 0
               PROVE  /\ pc' \in {"flush", "flush_send"} => thr' = <<NUL>>
                      /\ pc' # "halt"
    BY <1>6 DEF FlushInv
  <2>1. nmi = "none"
    BY NoNmi
  <2> QED BY <1>5, <1>6, <2>1
<1> QED BY <1>5, <1>9, <1>10, <1>11, <1>12, <1>13, <1>14 DEF Inv

\* A character of the buffer.
LEMMA WriteSendInv == ASSUME Inv, WriteSend PROVE Inv'
<1>1. At("send") /\ Out(TXRX, vprint_buffer[call[Who].sz])
  BY DEF WriteSend
<1>2. call[Who] \in CallType /\ CallGood(Who, call[Who], "send")
  BY <1>1, Context
<1>3. call[Who].sz \in 0 .. Size - 1
  BY <1>2, CallFields, Sizes DEF CallGood
<1>4. vprint_buffer[call[Who].sz] \in Byte
  BY <1>3 DEF Inv, DriverType
<1> QED BY <1>1, <1>4, SendInv DEF WriteSend

\* uart_flush.
LEMMA FlushStep == ASSUME Inv, Flush PROVE Inv'
<1>1. CASE /\ At("flush") /\ call[Who].sz < call[Who].n /\ CanSend
           /\ Goto("flush_send") /\ UNCHANGED <<device, call>>
  <2>1. /\ call[Who] \in CallType /\ CallGood(Who, call[Who], "flush") /\ pc \notin Initialising
        /\ Who = "kernel"
    BY <1>1, Context
  <2>2. call' = [call EXCEPT ![Who] = call[Who]]
    BY <1>1, SameCall
  <2>3. CallGood(Who, call[Who], "flush_send")
    BY <1>1, <2>1 DEF CallGood
  <2>4. Quiet(call[Who], "flush_send")
    BY <1>1, <2>1, <2>2, <2>3 DEF Quiet, Flush, counters, Inv, DriverType
  <2> QED BY <2>1, <2>4, QuietInv
<1>2. CASE /\ At("flush_send") /\ Out(TXRX, NUL)
           /\ call' = [call EXCEPT ![Who].sz = @ + 1] /\ Goto("flush")
  <2>1. NUL \in Byte
    BY DEF NUL, Byte
  <2> QED BY <1>2, <2>1, SendInv DEF Flush
<1>3. CASE /\ At("flush") /\ call[Who].sz = call[Who].n
           /\ Goto("halt") /\ UNCHANGED <<device, call>>
  <2>1. /\ call[Who] \in CallType /\ CallGood(Who, call[Who], "flush") /\ pc \notin Initialising
        /\ Who = "kernel" /\ pc = "flush"
    BY <1>3, Context
  <2>2. call' = [call EXCEPT ![Who] = call[Who]]
    BY <1>3, SameCall
  <2>3. CallGood(Who, call[Who], "halt") /\ call["kernel"].sz > 0
    BY <1>3, <2>1, Sizes DEF CallGood
  <2>4. Quiet(call[Who], "halt")
    BY <1>3, <2>1, <2>2, <2>3 DEF Quiet, Flush, counters, Inv, DriverType
  <2> QED BY <2>1, <2>4, QuietInv
<1> QED BY <1>1, <1>2, <1>3, Zenon DEF Flush
-----------------------------------------------------------------------------
(***************************************************************************)
(* uart_read, the calls, the NMI and the device.                           *)
(***************************************************************************)

\* The test of DATA_READY.
LEMMA ReadPollInv == ASSUME Inv, ReadPoll PROVE Inv'
<1>1. At("read") /\ UNCHANGED <<device, vprint_buffer, got, prints, reads, received, nmis>>
  BY DEF ReadPoll, counters
<1>2. /\ call[Who] \in CallType /\ CallGood(Who, call[Who], "read") /\ pc \notin Initialising
      /\ Who = "kernel"
  BY <1>1, Context
<1>3. CASE CanRecv /\ Goto("recv") /\ UNCHANGED call
  <2>1. call' = [call EXCEPT ![Who] = call[Who]]
    BY <1>1, <1>3, SameCall
  <2>2. CallGood(Who, call[Who], "recv")
    BY <1>2 DEF CallGood
  <2>3. Quiet(call[Who], "recv")
    BY <1>1, <1>2, <1>3, <2>1, <2>2 DEF Quiet, Inv, DriverType
  <2> QED BY <1>2, <2>3, QuietInv
<1>4. CASE Goto("idle") /\ call' = [call EXCEPT !["kernel"] = NoCall]
  <2>1. NoCall \in CallType /\ CallGood(Who, NoCall, "idle")
    BY <1>2, PrintingGood DEF NoCall
  <2>2. Quiet(NoCall, "idle")
    BY <1>1, <1>2, <1>4, <2>1 DEF Quiet, Inv, DriverType
  <2> QED BY <2>1, <2>2, QuietInv
<1> QED BY <1>3, <1>4 DEF ReadPoll

\* The byte was received with the line set up.
LEMMA ReadRecvInv == ASSUME Inv, ReadRecv PROVE Inv'
<1>1. /\ At("recv") /\ got' = Append(got, Head(rx)) /\ In /\ Goto("read")
      /\ call' = [call EXCEPT !["kernel"].sz = @ + 1]
      /\ UNCHANGED <<vprint_buffer, prints, reads, received, nmis>>
  BY DEF ReadRecv, counters
<1>2. /\ call[Who] \in CallType /\ CallGood(Who, call[Who], "recv") /\ pc \notin Initialising
      /\ Who = "kernel" /\ pc = "recv" /\ call \in [{"kernel", "nmi"} -> CallType]
  BY <1>1, Context DEF Inv, DriverType
<1> PICK a : a = call["kernel"]
  OBVIOUS
<1>3. a \in CallType /\ a.sz \in Nat /\ a.sz + 1 \in Nat
  BY <1>2, CallFields
<1>4. PICK c \in CallType : /\ call' = [call EXCEPT !["kernel"] = c]
                            /\ c.text = a.text /\ c.rest = a.rest /\ c.done = a.done
  <2>1. call' = [call EXCEPT !["kernel"].sz = a.sz + 1]
    BY <1>1
  <2>2. call' = [call EXCEPT !["kernel"] = [a EXCEPT !.sz = a.sz + 1]]
    BY <1>2, <1>3, <2>1, CallExcept
  <2> DEFINE d == [a EXCEPT !.sz = a.sz + 1]
  <2>3. d \in CallType
    BY <1>3 DEF CallType
  <2>4. d.text = a.text /\ d.rest = a.rest /\ d.done = a.done
    BY <1>3 DEF CallType
  <2> QED BY <2>2, <2>3, <2>4
<1>5. CallGood("kernel", c, "read")
  BY <1>2, <1>4 DEF CallGood
<1>6. /\ call' \in [{"kernel", "nmi"} -> CallType] /\ CallInv'
      /\ nmi = "none" /\ nmi' = "none" /\ pc' = "read"
  BY <1>1, <1>2, <1>4, <1>5, QuietCalls
<1>7. UNCHANGED <<registers, thr, line, lost, cts>> /\ rx' = Tail(rx) /\ rx = <<TRUE>>
  <2>1. UNCHANGED <<registers, thr, line, lost, cts>> /\ rx' = Tail(rx)
    BY <1>1 DEF In
  <2>2. rx = <<TRUE>>
    BY <1>2, Zenon DEF Inv, FifoInv
  <2> QED BY <2>1, <2>2
<1>8. rx' = << >> /\ Head(rx) = TRUE
  <2>1. \A x : Tail(<<x>>) = << >> /\ Head(<<x>>) = x
    OBVIOUS
  <2> QED BY <1>7, <2>1, Zenon
<1>9. DriverType'
  BY <1>1, <1>6 DEF Inv, DriverType, Labels
<1>10. DeviceType'
  <2>1. << >> \in Seq(BOOLEAN)
    OBVIOUS
  <2> QED BY <1>7, <1>8, <2>1, Zenon DEF Inv, DeviceType, registers
<1>11. PortInv'
  <2>1. pc' \notin Initialising
    BY <1>6 DEF Initialising
  <2> QED BY <1>2, <1>7, <2>1, PortKept
<1>12. FifoInv'
  <2>1. got' \in Seq({TRUE})
    <3>1. \A s \in Seq({TRUE}) : Append(s, TRUE) \in Seq({TRUE})
      OBVIOUS
    <3>2. got \in Seq({TRUE})
      BY DEF Inv, FifoInv
    <3> QED BY <1>1, <1>8, <3>1, <3>2, Zenon
  <2>2. thr' = << >> \/ \E b \in Byte : thr' = <<b>>
    BY <1>7, Zenon DEF Inv, FifoInv
  <2> QED BY <1>6, <1>8, <2>1, <2>2, Zenon DEF FifoInv
<1>13. LossInv' /\ FlushInv'
  BY <1>1, <1>6, <1>7 DEF Inv, LossInv, FlushInv
<1> QED BY <1>6, <1>9, <1>10, <1>11, <1>12, <1>13 DEF Inv
\* A call of printf or of panic.
LEMMA PrintInv ==
  ASSUME Inv, NEW m \in Messages \cup {PanicMessage}, pc = "idle", nmi = "none",
         prints' = prints + 1, call' = [call EXCEPT !["kernel"] = Printing(<<m>>)],
         Goto("format"), UNCHANGED <<device, vprint_buffer, got, reads, received, nmis>>
  PROVE  Inv'
<1>1. Who = "kernel" /\ pc \notin Initialising
  BY DEF Who, Initialising
<1>2. /\ Printing(<<m>>) \in CallType
      /\ CallGood("kernel", Printing(<<m>>), "format")
  BY PrintingGood
<1>3. Quiet(Printing(<<m>>), "format")
  BY <1>1, <1>2 DEF Quiet, Inv, DriverType
<1> QED BY <1>2, <1>3, QuietInv

\* A call of uart_read.
LEMMA ReadInv == ASSUME Inv, NEW max \in 0 .. 2, Read(max) PROVE Inv'
<1>1. /\ pc = "idle" /\ nmi = "none" /\ reads' = reads + 1 /\ Goto("read")
      /\ call' = [call EXCEPT !["kernel"] = [NoCall EXCEPT !.n = max]]
      /\ UNCHANGED <<device, vprint_buffer, got, prints, received, nmis>>
  BY DEF Read
<1>2. Who = "kernel" /\ pc \notin Initialising
  BY <1>1 DEF Who, Initialising
<1>3. NoCall \in CallType /\ CallGood("kernel", NoCall, "idle")
  BY PrintingGood DEF NoCall
<1> PICK a : a = NoCall
  OBVIOUS
<1>4. PICK c \in CallType : /\ c = [a EXCEPT !.n = max]
                            /\ c.text = a.text /\ c.rest = a.rest /\ c.done = a.done
  <2> DEFINE d == [a EXCEPT !.n = max]
  <2>1. a \in CallType /\ max \in Nat
    BY <1>3
  <2>2. d \in CallType
    BY <2>1 DEF CallType
  <2>3. d.text = a.text /\ d.rest = a.rest /\ d.done = a.done
    BY <2>1 DEF CallType
  <2> QED BY <2>2, <2>3
<1>5. CallGood("kernel", c, "read")
  BY <1>3, <1>4 DEF CallGood
<1>6. Quiet(c, "read")
  BY <1>1, <1>2, <1>4, <1>5 DEF Quiet, Inv, DriverType
<1> QED BY <1>6, QuietInv

\* An NMI: from now on one more character may be lost.
LEMMA NmiInv == ASSUME Inv, Nmi PROVE Inv'
<1>1. /\ pc \notin Initialising /\ nmi = "none" /\ nmis' = nmis + 1 /\ nmi' = "format"
      /\ call' = [call EXCEPT !["nmi"] = Printing(NmiReport)]
      /\ UNCHANGED <<device, pc, vprint_buffer, got, prints, reads, received>>
  BY DEF Nmi
<1>2. UNCHANGED <<registers, rx, thr, line, lost, cts>>
  BY <1>1 DEF device
<1>3. NmiReport \in Seq(Reports) /\ NmiReport # << >>
  BY ConsoleAssumption DEF Reports
<1>4. /\ Printing(NmiReport) \in CallType
      /\ CallGood("nmi", Printing(NmiReport), "format")
  BY <1>3, PrintingRest
<1>5. /\ call' \in [{"kernel", "nmi"} -> CallType]
      /\ call'["kernel"] = call["kernel"] /\ call'["nmi"] = Printing(NmiReport)
  BY <1>1, <1>4 DEF Inv, DriverType
<1>6. DriverType' /\ CallInv'
  BY <1>1, <1>4, <1>5 DEF Inv, DriverType, CallInv
<1>7. DeviceType' /\ FifoInv'
  BY <1>1, <1>2, Zenon DEF Inv, DeviceType, FifoInv, registers
<1>8. PortInv'
  BY <1>1, <1>2, PortKept
<1>9. LossInv'
  BY <1>1, <1>2 DEF Inv, LossInv, DriverType, DeviceType
<1>10. FlushInv'
  BY <1>1 DEF Inv, DriverType, FlushInv
<1> QED BY <1>6, <1>7, <1>8, <1>9, <1>10 DEF Inv
\* A step of the device, as the driver sees it.
LEMMA DeviceStep ==
  ASSUME Inv, UNCHANGED <<registers, driver, lost>>, UNCHANGED <<prints, reads, nmis>>,
         received' \in Nat, cts' \in BOOLEAN, rx' \in Seq(BOOLEAN), line' \in Seq(Byte),
         thr' = thr \/ thr' = << >>,
         rx' = rx \/ (pc \notin Initialising => rx' = <<TRUE>>)
  PROVE  Inv'
<1>1. UNCHANGED <<pc, nmi, call, vprint_buffer, got>>
  BY DEF driver
<1>2. DriverType' /\ CallInv'
  BY <1>1 DEF Inv, DriverType, CallInv
<1>3. DeviceType'
  BY Zenon DEF Inv, DeviceType, registers
<1>4. PortInv'
  BY <1>1 DEF Inv, PortInv, registers
<1>5. FifoInv'
  <2>1. FifoInv
    BY DEF Inv
  <2>2. pc = "recv" => pc \notin Initialising
    BY DEF Initialising
  <2>3. pc' = pc /\ got' = got
    BY <1>1
  <2> QED BY <2>1, <2>2, <2>3, Zenon DEF FifoInv
<1>6. LossInv' /\ FlushInv'
  BY <1>1, Zenon DEF Inv, LossInv, FlushInv
<1> QED BY <1>2, <1>3, <1>4, <1>5, <1>6 DEF Inv

\* The transmitter, the receiver and the peer.
LEMMA DeviceInv == ASSUME Inv, Device PROVE Inv'
<1>1. /\ received \in Nat /\ cts \in BOOLEAN /\ rx \in Seq(BOOLEAN) /\ line \in Seq(Byte)
  BY Zenon DEF Inv, DriverType, DeviceType
<1>2. CASE Transmit /\ UNCHANGED <<driver, counters>>
  <2>1. PICK b \in Byte : thr = <<b>>
    BY <1>2, Zenon DEF Transmit, Inv, FifoInv
  <2>2. \A x : Tail(<<x>>) = << >> /\ Head(<<x>>) = x
    OBVIOUS
  <2>3. UNCHANGED <<registers, rx, lost, cts, driver, prints, reads, received, nmis>>
    BY <1>2 DEF Transmit, counters
  <2>4. thr' = << >> /\ line' = Append(line, b)
    BY <1>2, <2>1, <2>2, Zenon DEF Transmit
  <2>5. line' \in Seq(Byte)
    BY <1>1, <2>4
  <2> QED BY <1>1, <2>3, <2>4, <2>5, DeviceStep
<1>3. CASE Peer /\ UNCHANGED <<driver, counters>>
  <2>1. UNCHANGED <<registers, rx, thr, line, lost, driver, prints, reads, received, nmis>>
    BY <1>3 DEF Peer, counters
  <2>2. cts' \in BOOLEAN
    BY <1>3, Zenon DEF Peer
  <2> QED BY <1>1, <2>1, <2>2, DeviceStep
<1>4. CASE Receive /\ received' = received + 1 /\ UNCHANGED <<driver, prints, reads, nmis>>
  <2>1. UNCHANGED <<registers, thr, line, lost, cts>> /\ received' \in Nat
    BY <1>1, <1>4 DEF Receive
  <2>2. LineSetUp \in BOOLEAN
    BY DEF LineSetUp
  <2>3. \A x \in BOOLEAN : <<x>> \in Seq(BOOLEAN)
                           /\ \A s \in Seq(BOOLEAN) : Append(s, x) \in Seq(BOOLEAN)
    OBVIOUS
  <2>4. rx' \in Seq(BOOLEAN)
    BY <1>1, <1>4, <2>2, <2>3, Zenon DEF Receive
  <2>5. pc \notin Initialising => rx' = <<TRUE>>
    <3> SUFFICES ASSUME pc \notin Initialising PROVE rx' = <<TRUE>>
      OBVIOUS
    <3>1. ~FifoEnabled /\ LineSetUp
      BY PortReady DEF Inv
    <3>2. LineSetUp = TRUE
      BY <3>1, Zenon
    <3> QED BY <1>4, <3>1, <3>2, Zenon DEF Receive
  <2> QED BY <1>1, <1>4, <2>1, <2>4, <2>5, DeviceStep
<1> QED BY <1>2, <1>3, <1>4 DEF Device
-----------------------------------------------------------------------------
(***************************************************************************)
(* The invariant, and what follows from it.                                *)
(***************************************************************************)

\* Whatever the firmware has left.
LEMMA InitInv == Init => Inv
<1> SUFFICES ASSUME Init PROVE Inv
  OBVIOUS
<1>1. /\ enhanced \in BOOLEAN /\ cts \in BOOLEAN /\ lost = 0 /\ lcr \in {0, 3} /\ dlm = 0 /\ ier = 0
      /\ dll \in {1, 12} /\ fcr \in {0, 1} /\ efr = 0 /\ rx = << >> /\ thr = << >> /\ line = << >>
      /\ pc = "enable_efr" /\ nmi = "none" /\ got = << >>
      /\ prints = 0 /\ reads = 0 /\ received = 0 /\ nmis = 0
      /\ call = [who \in {"kernel", "nmi"} |-> NoCall]
      /\ vprint_buffer = [k \in 0 .. Size - 1 |-> NUL]
  BY Zenon DEF Init, DeviceInit
<1>2. << >> \in Seq(BOOLEAN) /\ << >> \in Seq(Byte) /\ << >> \in Seq({TRUE}) /\ << >> \in Seq(Reports)
  OBVIOUS
<1>3. DeviceType
  <2>1. lcr \in Byte /\ dll \in Byte /\ fcr \in Byte /\ efr \in Byte
    BY <1>1 DEF Byte
  <2>2. lost \in Nat
    BY <1>1
  <2> QED BY <1>1, <1>2, <2>1, <2>2, Zenon DEF DeviceType
<1>4. NoCall \in CallType /\ CallGood("kernel", NoCall, "idle")
  BY PrintingGood DEF NoCall
<1>5. NoCall.text = << >> /\ NoCall.rest = << >>
  <2>1. NoCall = [text |-> << >>, done |-> 0, sz |-> 0, n |-> 0, rest |-> << >>]
    BY PrintingOne, Zenon DEF NoCall
  <2> QED BY <2>1
<1>6. DriverType
  <2>1. vprint_buffer \in [0 .. Size - 1 -> Byte]
    BY <1>1 DEF NUL, Byte
  <2>2. pc \in Labels
    BY <1>1 DEF Labels, Initialising
  <2> QED BY <1>1, <1>4, <2>1, <2>2 DEF DriverType
<1>7. PortInv
  BY <1>1 DEF PortInv, Initialising, Rated, Unqueued
<1>8. FifoInv
  BY <1>1, <1>2 DEF FifoInv, Initialising
<1>9. CallInv
  BY <1>1, <1>2, <1>4, <1>5 DEF CallInv, CallGood
<1>10. LossInv /\ FlushInv
  BY <1>1 DEF LossInv, FlushInv
<1> QED BY <1>3, <1>6, <1>7, <1>8, <1>9, <1>10 DEF Inv

\* Every step keeps it.
LEMMA NextInv == Inv /\ [Next]_vars => Inv'
<1> SUFFICES ASSUME Inv, [Next]_vars PROVE Inv'
  OBVIOUS
<1>1. CASE UartInit
  BY <1>1, FifoInitInv, CommonInitInv, FlushRecvInv DEF UartInit
<1>2. CASE Vprintf
  BY <1>2, FormatCharInv, FormatUnsupportedInv, FormatEndInv, WritePollInv, WriteSendInv,
     WriteEndInv, FlushStep DEF Vprintf
<1>3. CASE ReadPoll \/ ReadRecv
  BY <1>3, ReadPollInv, ReadRecvInv
<1>4. CASE Device
  BY <1>4, DeviceInv
<1>5. CASE Nmi
  BY <1>5, NmiInv
<1>6. CASE Panic
  BY <1>6, PrintInv DEF Panic
<1>7. ASSUME NEW message \in Messages, Printf(message) PROVE Inv'
  BY <1>7, PrintInv DEF Printf
<1>8. ASSUME NEW max \in 0 .. 2, Read(max) PROVE Inv'
  BY <1>8, ReadInv
<1>9. CASE UNCHANGED vars
  <2>1. /\ UNCHANGED <<registers, rx, thr, line, lost, cts>>
        /\ UNCHANGED <<pc, nmi, call, vprint_buffer, got, prints, reads, received, nmis>>
    BY <1>9 DEF vars, device, driver, counters
  <2>2. DeviceType' /\ DriverType'
    BY <2>1, Zenon DEF Inv, DeviceType, DriverType, registers
  <2>3. PortInv'
    BY <2>1 DEF Inv, PortInv, registers
  <2>5. FifoInv'
    BY <2>1, Zenon DEF Inv, FifoInv
  <2>4. CallInv' /\ LossInv' /\ FlushInv'
    BY <2>1, Zenon DEF Inv, CallInv, LossInv, FlushInv
  <2> QED BY <2>2, <2>3, <2>4, <2>5 DEF Inv
<1> QED BY <1>1, <1>2, <1>3, <1>4, <1>5, <1>6, <1>7, <1>8, <1>9 DEF Next, Kernel

LEMMA InvHolds == Spec => []Inv
BY InitInv, NextInv, PTL DEF Spec
\* TypeOK: whatever is printed, and however long it is, the variables hold
\* values of their types, and the buffer has room for the NUL.
THEOREM Typed == Spec => []TypeOK
<1>1. ASSUME Inv PROVE TypeOK
  <2>1. /\ DeviceType /\ DriverType /\ PortInv /\ FifoInv /\ CallInv
    BY <1>1 DEF Inv
  <2>2. {lcr, dll, dlm, ier, fcr, efr} \subseteq Byte
    BY <2>1 DEF DeviceType, PortInv, Byte
  <2>3. thr \in Seq(Byte)
    <3>1. \A b \in Byte : <<b>> \in Seq(Byte)
      OBVIOUS
    <3>2. << >> \in Seq(Byte)
      OBVIOUS
    <3> QED BY <2>1, <3>1, <3>2, Zenon DEF FifoInv
  <2>4. got \in Seq(BOOLEAN)
    <3>1. {TRUE} \subseteq BOOLEAN
      BY Zenon
    <3>2. got \in Seq({TRUE})
      BY <2>1, Zenon DEF FifoInv
    <3> QED BY <3>1, <3>2, SeqWider
  <2>5. \A who \in {"kernel", "nmi"} :
          call[who] \in Calls /\ call[who].done <= Len(call[who].text)
    <3> TAKE who \in {"kernel", "nmi"}
    <3> PICK c : c = call[who]
      OBVIOUS
    <3>1. c \in CallType /\ c.done <= Len(c.text)
      BY <2>1 DEF CallInv, CallGood
    <3>2. c.text \in Messages \cup {PanicMessage, << >>} \cup Reports
      BY <2>1 DEF CallInv, CallGood
    <3>3. c \in Calls
      BY <3>1, <3>2, CallFields DEF Calls, Reports
    <3> QED BY <3>1, <3>3
  <2>6. call \in [{"kernel", "nmi"} -> Calls]
    BY <2>1, <2>5 DEF DriverType
  <2>7. (pc = "format" => call["kernel"].sz < Size) /\ (nmi = "format" => call["nmi"].sz < Size)
    BY <2>1, Zenon DEF CallInv, CallGood
  <2>8. {prints, reads, received, nmis} \subseteq Nat
    BY <2>1 DEF DriverType
  <2> QED BY <2>1, <2>2, <2>3, <2>4, <2>5, <2>6, <2>7, <2>8, Zenon DEF TypeOK, DeviceType, DriverType
<1> QED BY <1>1, InvHolds, PTL

\* Configured: whatever the firmware left in the port, nothing is sent before
\* it is set up, and nothing that is printed, read or interrupted undoes it.
THEOREM SetUp == Spec => []Configured
<1>1. ASSUME Inv PROVE Configured
  <2>1. thr # << >> => pc \notin Initialising
    BY <1>1 DEF Inv, PortInv
  <2>2. pc \notin Initialising => LineSetUp /\ ~DivisorAccess /\ ier = 0
    BY <1>1, PortReady DEF Inv
  <2> QED BY <2>1, <2>2, Zenon DEF Configured
<1> QED BY <1>1, InvHolds, PTL

\* ReadsClean: uart_read returns no byte from before the line was set up, by
\* any number of calls.
THEOREM Clean == Spec => []ReadsClean
<1>1. ASSUME Inv PROVE ReadsClean
  <2>1. got \in Seq({TRUE})
    BY <1>1, Zenon DEF Inv, FifoInv
  <2>2. DOMAIN got = 1 .. Len(got)
    BY <2>1
  <2>3. \A k \in DOMAIN got : got[k] \in {TRUE}
    BY <2>1, <2>2, SeqItem
  <2> QED BY <2>3, Zenon DEF ReadsClean
<1> QED BY <1>1, InvHolds, PTL

\* LossBound: however many NMIs come, in the middle of whatever calls, each
\* costs one character at most.
THEOREM Losses == Spec => []LossBound
<1>1. ASSUME Inv PROVE LossBound
  BY <1>1 DEF Inv, DeviceType, DriverType, LossInv, LossBound
<1> QED BY <1>1, InvHolds, PTL

\* PanicFlushed: without an NMI, panic leaves nothing but padding behind, for
\* every message, of the kernel's code or from the middle of another.
THEOREM Flushed == Spec => [](nmis = 0 => PanicFlushed)
<1>1. ASSUME Inv, nmis = 0 PROVE PanicFlushed
  <2> SUFFICES ASSUME pc = "halt", NEW k \in DOMAIN thr PROVE thr[k] = NUL
    BY DEF PanicFlushed
  <2>1. thr = << >> \/ thr = <<NUL>>
    BY <1>1 DEF Inv, FlushInv
  <2> QED BY <2>1
<1>2. Inv => (nmis = 0 => PanicFlushed)
  BY <1>1
<1> QED BY <1>2, InvHolds, PTL
-----------------------------------------------------------------------------
(***************************************************************************)
(* Console implements ConsoleLine when no NMI comes: for every buffer size *)
(* and every message, what printf, panic and the port do with the          *)
(* characters is what a line with a queue does.                            *)
(***************************************************************************)
\* While a message is formatted the buffer holds what is done of it, as far as
\* it fits, and none of that was unsupported.
BufferInv ==
  LET a == call["kernel"] IN
  pc = "format" =>
    /\ a.sz = IF a.done < Size THEN a.done ELSE Size - 1
    /\ \A k \in 1 .. a.done : a.text[k] # Unsupported
    /\ \A k \in 1 .. a.sz : vprint_buffer[k - 1] = a.text[k]

LineInv == Inv /\ nmis = 0 /\ BufferInv
-----------------------------------------------------------------------------
(***************************************************************************)
(* Sequences.                                                              *)
(***************************************************************************)

\* The characters from place i of a buffer to the one before n.
Between(b, i, n) == [k \in 1 .. n - i |-> b[i + k - 1]]

LEMMA BetweenSeq ==
  ASSUME NEW b \in [0 .. Size - 1 -> Byte], NEW n \in Nat, n < Size, NEW i \in 0 .. n
  PROVE  /\ Between(b, i, n) \in Seq(Int) /\ Len(Between(b, i, n)) = n - i
         /\ \A k \in 1 .. n - i : Between(b, i, n)[k] = b[i + k - 1]
<1>1. \A k \in 1 .. n - i : b[i + k - 1] \in Int
  <2> TAKE k \in 1 .. n - i
  <2>1. i + k - 1 \in 0 .. Size - 1
    BY Sizes
  <2>2. b[i + k - 1] \in Byte
    BY <2>1
  <2>3. \A x \in Byte : x \in Int
    BY DEF Byte
  <2> QED BY <2>2, <2>3, Zenon
<1>2. n - i \in Nat
  OBVIOUS
<1>3. Between(b, i, n) \in [1 .. n - i -> Int]
  BY <1>1, Zenon DEF Between
<1>4. Between(b, i, n) \in Seq(Int) /\ Len(Between(b, i, n)) = n - i
  BY <1>2, <1>3
<1>5. \A k \in 1 .. n - i : Between(b, i, n)[k] = b[i + k - 1]
  BY Zenon DEF Between
<1> QED BY <1>4, <1>5

\* No character is between a place and itself.
LEMMA BetweenNone ==
  ASSUME NEW b \in [0 .. Size - 1 -> Byte], NEW n \in Nat, n < Size
  PROVE  Between(b, n, n) = << >>
<1>1. n \in 0 .. n /\ n - n = 0
  OBVIOUS
<1>2. Between(b, n, n) \in Seq(Int) /\ Len(Between(b, n, n)) = n - n
  <2>1. n \in 0 .. n
    BY <1>1
  <2> QED BY <2>1, BetweenSeq, Zenon
<1>3. Between(b, n, n) = << >>
  <2> PICK t : t = Between(b, n, n)
    OBVIOUS
  <2>1. t \in Seq(Int) /\ Len(t) = 0
    BY <1>1, <1>2
  <2> QED BY <2>1
<1> QED BY <1>3

\* A character in front of a sequence.
LEMMA InFront ==
  ASSUME NEW x \in Int, NEW s \in Seq(Int)
  PROVE  /\ <<x>> \o s \in Seq(Int) /\ <<x>> \o s # << >>
         /\ Head(<<x>> \o s) = x /\ Tail(<<x>> \o s) = s
         /\ Len(<<x>> \o s) = Len(s) + 1
         /\ (<<x>> \o s)[1] = x /\ \A k \in 1 .. Len(s) : (<<x>> \o s)[k + 1] = s[k]
<1>1. <<x>> \in Seq(Int) /\ Len(<<x>>) = 1 /\ <<x>>[1] = x /\ Len(s) \in Nat
  OBVIOUS
<1> PICK t : t = <<x>> \o s
  OBVIOUS
<1>2. /\ t \in Seq(Int) /\ Len(t) = Len(s) + 1
      /\ \A k \in 1 .. Len(s) + 1 : t[k] = IF k <= 1 THEN x ELSE s[k - 1]
  <2>1. /\ t \in Seq(Int) /\ Len(t) = Len(<<x>>) + Len(s)
        /\ \A k \in 1 .. Len(<<x>>) + Len(s) : t[k] = IF k <= Len(<<x>>) THEN <<x>>[k] ELSE s[k - Len(<<x>>)]
    BY <1>1, ConcatProperties
  <2> QED BY <1>1, <2>1
<1>3. t # << >> /\ t[1] = x
  BY <1>1, <1>2
<1>4. \A k \in 1 .. Len(s) : t[k + 1] = s[k]
  BY <1>1, <1>2
<1>5. /\ Tail(t) \in Seq(Int) /\ Len(Tail(t)) = Len(s)
      /\ \A k \in 1 .. Len(s) : Tail(t)[k] = t[k + 1]
  BY <1>1, <1>2, <1>3, HeadTailProperties
<1>6. Tail(t) = s
  <2>1. \A k \in 1 .. Len(s) : Tail(t)[k] = s[k]
    BY <1>4, <1>5
  <2> QED BY <1>5, <2>1, SeqEqual
<1>7. Head(t) = x
  BY <1>2, <1>3
<1> QED BY <1>2, <1>3, <1>4, <1>6, <1>7

\* The first of the characters between two places.
LEMMA BetweenFirst ==
  ASSUME NEW b \in [0 .. Size - 1 -> Byte], NEW n \in Nat, n < Size, NEW i \in 0 .. n - 1
  PROVE  Between(b, i, n) = <<b[i]>> \o Between(b, i + 1, n)
<1>1. b[i] \in Int
  <2>1. i \in 0 .. Size - 1
    BY Sizes
  <2>2. b[i] \in Byte
    BY <2>1
  <2>3. \A x \in Byte : x \in Int
    BY DEF Byte
  <2> QED BY <2>2, <2>3, Zenon
<1> PICK s : s = Between(b, i, n)
  OBVIOUS
<1> PICK r : r = Between(b, i + 1, n)
  OBVIOUS
<1>0. i \in 0 .. n /\ i + 1 \in 0 .. n
  OBVIOUS
<1>2. s \in Seq(Int) /\ Len(s) = n - i /\ \A k \in 1 .. n - i : s[k] = b[i + k - 1]
  BY <1>0, BetweenSeq, Zenon
<1>3. r \in Seq(Int) /\ Len(r) = n - (i + 1) /\ \A k \in 1 .. n - (i + 1) : r[k] = b[(i + 1) + k - 1]
  BY <1>0, BetweenSeq, Zenon
<1> PICK t : t = <<b[i]>> \o r
  OBVIOUS
<1>4. /\ t \in Seq(Int) /\ Len(t) = n - i /\ t[1] = b[i]
      /\ \A k \in 1 .. n - (i + 1) : t[k + 1] = r[k]
  BY <1>1, <1>3, InFront
<1>5. \A k \in 1 .. n - i : s[k] = t[k]
  <2> TAKE k \in 1 .. n - i
  <2>1. CASE k = 1
    <3>1. i + k - 1 = i
      BY <2>1
    <3> QED BY <1>2, <1>4, <2>1, <3>1
  <2>2. CASE k # 1
    <3>1. k - 1 \in 1 .. n - (i + 1) /\ (k - 1) + 1 = k /\ (i + 1) + (k - 1) - 1 = i + k - 1
      BY <2>2
    <3>2. t[k] = r[k - 1] /\ r[k - 1] = b[(i + 1) + (k - 1) - 1]
      BY <1>3, <1>4, <3>1
    <3> QED BY <1>2, <3>1, <3>2
  <2> QED BY <2>1, <2>2
<1> QED BY <1>2, <1>4, <1>5, SeqEqual

\* The first NUL of some.
LEMMA NulsFirst ==
  ASSUME NEW n \in Nat
  PROVE  /\ Nuls(n) \in Seq(Int) /\ Len(Nuls(n)) = n
         /\ n > 0 => Nuls(n) = <<NUL>> \o Nuls(n - 1)
<1>1. \A m \in Nat : /\ Nuls(m) \in Seq(Int) /\ Len(Nuls(m)) = m
                     /\ \A k \in 1 .. m : Nuls(m)[k] = NUL
  BY DEF Nuls, NUL
<1>2. CASE n > 0
  <2> PICK r : r = Nuls(n - 1)
    OBVIOUS
  <2>1. r \in Seq(Int) /\ Len(r) = n - 1 /\ \A k \in 1 .. n - 1 : r[k] = NUL
    <3>1. n - 1 \in Nat
      BY <1>2
    <3> QED BY <1>1, <3>1, Zenon
  <2> PICK t : t = <<NUL>> \o r
    OBVIOUS
  <2>2. /\ t \in Seq(Int) /\ Len(t) = n /\ t[1] = NUL
        /\ \A k \in 1 .. n - 1 : t[k + 1] = r[k]
    <3>1. NUL \in Int
      BY DEF NUL
    <3> QED BY <2>1, <3>1, InFront
  <2>3. \A k \in 1 .. n : t[k] = NUL
    <3> TAKE k \in 1 .. n
    <3>1. CASE k = 1
      BY <2>2, <3>1
    <3>2. CASE k # 1
      <4>1. k - 1 \in 1 .. n - 1 /\ (k - 1) + 1 = k
        BY <3>2
      <4> QED BY <2>1, <2>2, <4>1
    <3> QED BY <3>1, <3>2
  <2> QED BY <1>1, <2>2, <2>3, SeqEqual
<1> QED BY <1>1, <1>2
-----------------------------------------------------------------------------
(***************************************************************************)
(* What is still to come.                                                  *)
(***************************************************************************)

\* Without an NMI the kernel is alone on the console.
LEMMA Alone ==
  ASSUME LineInv
  PROVE  /\ Inv /\ BufferInv /\ nmis = 0 /\ nmi = "none" /\ Who = "kernel" /\ lost = 0
         /\ call["kernel"] \in CallType /\ CallGood("kernel", call["kernel"], pc)
         /\ thr = << >> \/ \E b \in Byte : thr = <<b>>
         /\ pc \in {"send", "flush_send"} => thr = << >>
<1>1. Inv /\ BufferInv /\ nmis = 0
  BY DEF LineInv
<1>2. nmi = "none" /\ lost = 0
  BY <1>1, NoNmi
<1>3. call["kernel"] \in CallType /\ CallGood("kernel", call["kernel"], pc)
  BY <1>1 DEF Inv, DriverType, CallInv
<1>4. pc \in {"send", "flush_send"} => thr = << >>
  BY <1>1, <1>2 DEF Inv, LossInv
<1>5. thr = << >> \/ \E b \in Byte : thr = <<b>>
  BY <1>1, Zenon DEF Inv, FifoInv
<1> QED BY <1>1, <1>2, <1>3, <1>4, <1>5 DEF Who

\* The padding of a panic, or none.
Pad(text) == IF text = PanicMessage THEN Nuls(Padding) ELSE << >>

LEMMA PadSeq == ASSUME NEW text PROVE Pad(text) \in Seq(Int)
<1>1. << >> \in Seq(Int)
  OBVIOUS
<1>2. Nuls(Padding) \in Seq(Int)
  BY Sizes, NulsFirst
<1> QED BY <1>1, <1>2, Zenon DEF Pad

\* A message that is printed is a sequence, and one with nothing unsupported is
\* printed as it is, cut, and padded if it is panic's.
LEMMA OutputIs ==
  ASSUME NEW text \in Messages \cup {PanicMessage, << >>}
  PROVE  /\ Output(text) \in Seq(Int) /\ Shortened(text) \in Seq(Int)
         /\ (\A k \in 1 .. Len(text) : text[k] # Unsupported) =>
              Output(text) = Shortened(text) \o Pad(text)
         /\ (\E k \in 1 .. Len(text) : text[k] = Unsupported) =>
              Output(text) = Output(PanicMessage)
<1>1. \A m \in Text : Shortened(m) \in Seq(Int) /\ DOMAIN m = 1 .. Len(m)
  <2> TAKE m \in Text
  <2>1. m \in Seq(Int) /\ Len(m) \in Nat /\ DOMAIN m = 1 .. Len(m)
    BY DEF Text
  <2> DEFINE n == IF Len(m) < Size THEN Len(m) ELSE Size - 1
  <2>2. n \in Int /\ \A k \in 1 .. n : m[k] \in Int
    BY <2>1, Sizes
  <2>3. SubSeq(m, 1, n) \in Seq(Int)
    <3> HIDE DEF n
    <3> QED BY <2>2, SubSeqProperties
  <2> QED BY <2>1, <2>3 DEF Shortened
<1>2. text \in Text /\ PanicMessage \in Text
  BY Texts, Zenon
<1>3. Shortened(PanicMessage) \o Nuls(Padding) \in Seq(Int) /\ Nuls(Padding) \in Seq(Int)
  <2>1. Nuls(Padding) \in Seq(Int)
    BY Sizes, NulsFirst
  <2> QED BY <1>1, <1>2, <2>1, ConcatProperties, Zenon
<1>4. Output(text) \in Seq(Int)
  BY <1>1, <1>2, <1>3, Zenon DEF Output
<1>5. (\E k \in 1 .. Len(text) : text[k] = Unsupported) => Output(text) = Output(PanicMessage)
  BY <1>1, <1>2, Zenon DEF Output
<1>6. ASSUME \A k \in 1 .. Len(text) : text[k] # Unsupported
      PROVE  Output(text) = Shortened(text) \o Pad(text)
  <2>1. CASE text = PanicMessage
    BY <2>1, Zenon DEF Output, Pad
  <2>2. CASE text # PanicMessage
    <3>1. Output(text) = Shortened(text)
      BY <1>1, <1>2, <1>6, <2>2, Zenon DEF Output
    <3>2. Shortened(text) \o << >> = Shortened(text)
      BY <1>1, <1>2, ConcatEmptySeq
    <3> QED BY <2>2, <3>1, <3>2, Zenon DEF Pad
  <2> QED BY <2>1, <2>2
<1> QED BY <1>1, <1>2, <1>4, <1>5, <1>6, Zenon

\* What is unsent at each label.
LEMMA UnsentAt ==
  /\ pc = "format" => Unsent = Output(call["kernel"].text)
  /\ pc \in {"write", "send"} =>
       Unsent = Between(vprint_buffer, call["kernel"].sz, call["kernel"].n)
                \o Pad(call["kernel"].text)
  /\ pc \in {"flush", "flush_send"} => Unsent = Nuls(call["kernel"].n - call["kernel"].sz)
  /\ pc \notin {"format", "write", "send", "flush", "flush_send"} => Unsent = << >>
BY DEF Unsent, Between, Pad, Panicking

\* The same after a step.
LEMMA UnsentThen ==
  /\ pc' = "format" => Unsent' = Output(call'["kernel"].text)
  /\ pc' \in {"write", "send"} =>
       Unsent' = Between(vprint_buffer', call'["kernel"].sz, call'["kernel"].n)
                 \o Pad(call'["kernel"].text)
  /\ pc' \in {"flush", "flush_send"} => Unsent' = Nuls(call'["kernel"].n - call'["kernel"].sz)
  /\ pc' \notin {"format", "write", "send", "flush", "flush_send"} => Unsent' = << >>
BY DEF Unsent, Between, Pad, Panicking
\* It is a sequence.
LEMMA UnsentSeq == ASSUME LineInv PROVE Unsent \in Seq(Int) /\ thr \in Seq(Int)
<1> PICK a : a = call["kernel"]
  OBVIOUS
<1>1. /\ a \in CallType /\ CallGood("kernel", a, pc)
      /\ a.sz \in Nat /\ a.n \in Nat /\ vprint_buffer \in [0 .. Size - 1 -> Byte]
  BY Alone, CallFields DEF Inv, DriverType
<1>2. ASSUME pc = "format" PROVE Unsent \in Seq(Int)
  <2>1. a.text \in Messages \cup {PanicMessage, << >>}
    BY <1>1 DEF CallGood
  <2> QED BY <1>2, <2>1, OutputIs, UnsentAt
<1>3. ASSUME pc \in {"write", "send"} PROVE Unsent \in Seq(Int)
  <2>1. a.n < Size /\ a.sz \in 0 .. a.n
    BY <1>1, <1>3 DEF CallGood
  <2>2. Between(vprint_buffer, a.sz, a.n) \in Seq(Int) /\ Pad(a.text) \in Seq(Int)
    BY <1>1, <2>1, BetweenSeq, PadSeq
  <2> QED BY <1>3, <2>2, ConcatProperties, UnsentAt
<1>4. ASSUME pc \in {"flush", "flush_send"} PROVE Unsent \in Seq(Int)
  <2>1. a.n - a.sz \in Nat
    BY <1>1, <1>4 DEF CallGood
  <2> QED BY <1>4, <2>1, NulsFirst, UnsentAt
<1>5. ASSUME pc \notin {"format", "write", "send", "flush", "flush_send"} PROVE Unsent \in Seq(Int)
  <2>1. << >> \in Seq(Int)
    OBVIOUS
  <2> QED BY <1>5, <2>1, UnsentAt
<1>6. thr \in Seq(Int)
  <2>1. \A b \in Byte : <<b>> \in Seq(Int)
    BY DEF Byte
  <2>2. << >> \in Seq(Int)
    OBVIOUS
  <2> QED BY <2>1, <2>2, Alone, Zenon
<1> QED BY <1>2, <1>3, <1>4, <1>5, <1>6
-----------------------------------------------------------------------------
(***************************************************************************)
(* Every step is a step of the line, or none.                              *)
(***************************************************************************)
Simulated ==
  nmis' = 0 /\ BufferInv' /\ [Line!Next]_<<line, thr \o Unsent>>

\* A step that leaves the pending characters alone.
LEMMA Stutters ==
  ASSUME nmis' = 0, BufferInv', line' = line, thr' \o Unsent' = thr \o Unsent
  PROVE  Simulated
BY DEF Simulated

\* A step that leaves the port alone and starts or formats nothing.
LEMMA QuietStutters ==
  ASSUME LineInv, UNCHANGED <<thr, line, nmis>>, pc' # "format", Unsent' = Unsent
  PROVE  Simulated
<1>1. nmis' = 0 /\ BufferInv'
  BY Alone DEF BufferInv
<1> QED BY <1>1, Stutters

\* uart_init.
LEMMA UartInitSimulated == ASSUME LineInv, UartInit PROVE Simulated
<1>1. PICK this \in Initialising, next \in Initialising \cup {"idle"} : Statement(this, next)
  BY DEF UartInit, FifoInit, CommonInit, FlushRecv, Initialising
<1>2. pc = this /\ pc' = next /\ nmis' = nmis
  BY <1>1 DEF Statement, counters
<1>3. Unsent = << >> /\ Unsent' = << >> /\ pc' # "format"
  BY <1>2, UnsentAt, UnsentThen DEF Initialising
<1>4. line' = line
  BY DEF UartInit, FifoInit, CommonInit, FlushRecv, Out, In, device
<1>5. thr' = thr
  <2>1. thr = << >>
    BY <1>2, Alone DEF Inv, PortInv
  <2>2. Inv'
    BY Alone, FifoInitInv, CommonInitInv, FlushRecvInv DEF UartInit
  <2>3. CASE FlushRecv
    BY <2>3 DEF FlushRecv, In, device
  <2>4. CASE FifoInit \/ CommonInit
    <3>1. pc' \in Initialising
      BY <2>4 DEF FifoInit, CommonInit, Statement, Initialising
    <3> QED BY <2>1, <2>2, <3>1 DEF Inv, PortInv
  <2> QED BY <2>3, <2>4 DEF UartInit
<1> QED BY <1>2, <1>3, <1>4, <1>5, QuietStutters

\* A call of printf or of panic is a call of the line.
LEMMA PrintSimulated ==
  ASSUME LineInv, NEW m \in Messages \cup {PanicMessage}, pc = "idle",
         call' = [call EXCEPT !["kernel"] = Printing(<<m>>)],
         Goto("format"), UNCHANGED <<device, nmis>>
  PROVE  Simulated
<1>1. pc' = "format" /\ nmis' = 0 /\ UNCHANGED <<thr, line>>
  BY Alone DEF Goto, device
<1>2. call'["kernel"] = [text |-> m, done |-> 0, sz |-> 0, n |-> 0, rest |-> << >>]
  <2>1. call'["kernel"] = Printing(<<m>>)
    BY Alone DEF Inv, DriverType
  <2> QED BY <2>1, PrintingOne
<1>3. BufferInv'
  BY <1>2, Sizes DEF BufferInv
<1>4. Unsent = << >> /\ Unsent' = Output(m)
  BY <1>1, <1>2, UnsentAt, UnsentThen
<1>5. thr \o Unsent = thr /\ thr' \o Unsent' = thr \o Output(m)
  <2>1. thr \o << >> = thr
    BY UnsentSeq, ConcatEmptySeq
  <2> QED BY <1>1, <1>4, <2>1
<1>6. Len(thr) <= 1
  <2>1. CASE thr = << >>
    BY <2>1
  <2>2. ASSUME NEW b \in Byte, thr = <<b>> PROVE Len(thr) <= 1
    BY <2>2
  <2> QED BY <2>1, <2>2, Alone
<1>7. Output(m) \in Outputs
  BY DEF Outputs
<1>8. Line!Call(Output(m))
  BY <1>1, <1>5, <1>6 DEF Line!Call
<1> QED BY <1>1, <1>3, <1>7, <1>8 DEF Simulated, Line!Next
\* The call of the kernel after a step, when it is changed to c.
LEMMA KernelCall ==
  ASSUME LineInv, NEW c, call' = [call EXCEPT !["kernel"] = c]
  PROVE  call'["kernel"] = c
BY Alone DEF Inv, DriverType

\* Formatting a character changes nothing that is to come.
LEMMA FormatCharSimulated == ASSUME LineInv, FormatChar PROVE Simulated
<1> PICK a : a = call["kernel"]
  OBVIOUS
<1>1. /\ pc = "format" /\ pc' = "format" /\ nmis' = 0 /\ UNCHANGED <<thr, line>>
      /\ a.done < Len(a.text) /\ a.text[a.done + 1] # Unsupported /\ BufAdd(a.text[a.done + 1])
  BY Alone DEF FormatChar, At, counters, device
<1>2. /\ a \in CallType /\ a.sz \in Nat /\ a.done \in Nat /\ a.sz < Size /\ Size \in Nat
      /\ call \in [{"kernel", "nmi"} -> CallType] /\ vprint_buffer \in [0 .. Size - 1 -> Byte]
  BY <1>1, Alone, CallFields, Sizes DEF CallGood, Inv, DriverType
<1>3. /\ a.sz = IF a.done < Size THEN a.done ELSE Size - 1
      /\ \A k \in 1 .. a.done : a.text[k] # Unsupported
      /\ \A k \in 1 .. a.sz : vprint_buffer[k - 1] = a.text[k]
  BY <1>1, Alone DEF BufferInv
<1>4. PICK c : /\ c = call'["kernel"] /\ c.text = a.text /\ c.done = a.done + 1
               /\ c.sz = IF a.sz < Size - 1 THEN a.sz + 1 ELSE a.sz
  <2>1. CASE a.sz < Size - 1
    <3>1. call' = [call EXCEPT !["kernel"].sz = a.sz + 1, !["kernel"].done = a.done + 1]
      BY <1>1, <2>1, Alone DEF BufAdd
    <3>2. call' = [call EXCEPT !["kernel"] = [a EXCEPT !.sz = a.sz + 1, !.done = a.done + 1]]
      BY <1>2, <3>1, CallExcept
    <3>3. call'["kernel"] = [a EXCEPT !.sz = a.sz + 1, !.done = a.done + 1]
      BY <3>2, KernelCall
    <3> QED BY <1>2, <2>1, <3>3 DEF CallType
  <2>2. CASE ~(a.sz < Size - 1)
    <3>1. call' = [call EXCEPT !["kernel"].done = a.done + 1]
      BY <1>1, <2>2, Alone DEF BufAdd
    <3>2. call' = [call EXCEPT !["kernel"] = [a EXCEPT !.done = a.done + 1]]
      BY <1>2, <3>1, CallExcept
    <3>3. call'["kernel"] = [a EXCEPT !.done = a.done + 1]
      BY <3>2, KernelCall
    <3> QED BY <1>2, <2>2, <3>3 DEF CallType
  <2> QED BY <2>1, <2>2
<1>5. c.sz = IF c.done < Size THEN c.done ELSE Size - 1
  BY <1>2, <1>3, <1>4
<1>6. \A k \in 1 .. c.done : c.text[k] # Unsupported
  <2> TAKE k \in 1 .. c.done
  <2>1. k \in 1 .. a.done \/ k = a.done + 1
    BY <1>2, <1>4
  <2> QED BY <1>1, <1>3, <1>4, <2>1
<1>7. \A k \in 1 .. c.sz : vprint_buffer'[k - 1] = c.text[k]
  <2>1. CASE a.sz < Size - 1
    <3>1. vprint_buffer' = [vprint_buffer EXCEPT ![a.sz] = a.text[a.done + 1]]
      BY <1>1, <2>1, Alone DEF BufAdd
    <3>2. a.sz = a.done /\ c.sz = a.sz + 1
      BY <1>2, <1>3, <1>4, <2>1
    <3> TAKE k \in 1 .. c.sz
    <3>3. CASE k = a.sz + 1
      <4>1. k - 1 = a.sz /\ a.sz \in 0 .. Size - 1
        BY <1>2, <3>3
      <4> QED BY <1>2, <1>4, <3>1, <3>2, <3>3, <4>1
    <3>4. CASE k # a.sz + 1
      <4>1. k \in 1 .. a.sz /\ k - 1 \in 0 .. Size - 1 /\ k - 1 # a.sz
        BY <1>2, <3>2, <3>4
      <4> QED BY <1>2, <1>3, <1>4, <3>1, <4>1
    <3> QED BY <3>3, <3>4
  <2>2. CASE ~(a.sz < Size - 1)
    BY <1>1, <1>3, <1>4, <2>2, Alone DEF BufAdd
  <2> QED BY <2>1, <2>2
<1>8. BufferInv'
  BY <1>4, <1>5, <1>6, <1>7 DEF BufferInv
<1>9. Unsent' = Unsent
  BY <1>1, <1>4, UnsentAt, UnsentThen
<1> QED BY <1>1, <1>8, <1>9, Stutters

\* An unsupported conversion: what was to come is panic's message all along.
LEMMA FormatUnsupportedSimulated == ASSUME LineInv, FormatUnsupported PROVE Simulated
<1> PICK a : a = call["kernel"]
  OBVIOUS
<1>1. /\ pc = "format" /\ pc' = "format" /\ nmis' = 0 /\ UNCHANGED <<thr, line>>
      /\ a.done < Len(a.text) /\ a.text[a.done + 1] = Unsupported
      /\ call' = [call EXCEPT !["kernel"] = Printing(<<PanicMessage>>)]
  BY Alone DEF FormatUnsupported, At, counters, device
<1>2. call'["kernel"] = [text |-> PanicMessage, done |-> 0, sz |-> 0, n |-> 0, rest |-> << >>]
  BY <1>1, KernelCall, PrintingOne
<1>3. BufferInv'
  BY <1>2, Sizes DEF BufferInv
<1>4. a.text \in Messages \cup {PanicMessage, << >>} /\ a.done + 1 \in 1 .. Len(a.text)
  BY <1>1, Alone, CallFields DEF CallGood
<1>5. Output(a.text) = Output(PanicMessage)
  BY <1>1, <1>4, OutputIs
<1>6. Unsent' = Unsent
  BY <1>1, <1>2, <1>5, UnsentAt, UnsentThen
<1> QED BY <1>1, <1>3, <1>6, Stutters
\* The end of the formatting: the buffer holds the message, cut.
LEMMA FormatEndSimulated == ASSUME LineInv, FormatEnd PROVE Simulated
<1> PICK a : a = call["kernel"]
  OBVIOUS
<1> PICK b : b = vprint_buffer'
  OBVIOUS
<1>1. /\ pc = "format" /\ pc' = "write" /\ UNCHANGED <<thr, line, nmis>>
      /\ a.done = Len(a.text) /\ b = [vprint_buffer EXCEPT ![a.sz] = NUL]
      /\ call' = [call EXCEPT !["kernel"].n = a.sz, !["kernel"].sz = 0]
  BY Alone DEF FormatEnd, At, Goto, counters, device
<1>2. /\ a \in CallType /\ a.sz \in Nat /\ a.done \in Nat /\ a.sz < Size /\ Size \in Nat
      /\ call \in [{"kernel", "nmi"} -> CallType] /\ vprint_buffer \in [0 .. Size - 1 -> Byte]
      /\ a.text \in Messages \cup {PanicMessage, << >>}
  BY <1>1, Alone, CallFields, Sizes DEF CallGood, Inv, DriverType
<1>3. /\ a.sz = IF a.done < Size THEN a.done ELSE Size - 1
      /\ \A k \in 1 .. a.done : a.text[k] # Unsupported
      /\ \A k \in 1 .. a.sz : vprint_buffer[k - 1] = a.text[k]
  BY <1>1, Alone DEF BufferInv
<1>4. PICK c : c = call'["kernel"] /\ c.text = a.text /\ c.n = a.sz /\ c.sz = 0
  <2>1. call' = [call EXCEPT !["kernel"] = [a EXCEPT !.n = a.sz, !.sz = 0]]
    BY <1>1, <1>2, CallExcept
  <2>2. call'["kernel"] = [a EXCEPT !.n = a.sz, !.sz = 0]
    BY <2>1, KernelCall
  <2> QED BY <1>2, <2>2 DEF CallType
<1>5. b \in [0 .. Size - 1 -> Byte] /\ \A k \in 1 .. a.sz : b[k - 1] = a.text[k]
  <2>1. NUL \in Byte
    BY DEF NUL, Byte
  <2>2. b \in [0 .. Size - 1 -> Byte]
    BY <1>1, <1>2, <2>1
  <2>3. ASSUME NEW k \in 1 .. a.sz PROVE b[k - 1] = a.text[k]
    <3>1. k - 1 \in 0 .. Size - 1 /\ k - 1 # a.sz
      BY <1>2
    <3> QED BY <1>1, <1>2, <1>3, <3>1
  <2> QED BY <2>2, <2>3
<1>6. Between(b, 0, a.sz) = Shortened(a.text)
  <2> PICK t : t = Between(b, 0, a.sz)
    OBVIOUS
  <2> PICK s : s = SubSeq(a.text, 1, a.sz)
    OBVIOUS
  <2>1. Shortened(a.text) = s
    BY <1>1, <1>3 DEF Shortened
  <2>2. t \in Seq(Int) /\ Len(t) = a.sz /\ \A k \in 1 .. a.sz : t[k] = b[0 + k - 1]
    <3>1. 0 \in 0 .. a.sz /\ a.sz - 0 = a.sz
      BY <1>2
    <3>2. /\ t \in Seq(Int) /\ Len(t) = a.sz - 0
          /\ \A k \in 1 .. a.sz - 0 : t[k] = b[0 + k - 1]
      BY <1>2, <1>5, <3>1, BetweenSeq, Zenon
    <3> QED BY <3>1, <3>2
  <2>3. s \in Seq(Int) /\ Len(s) = a.sz /\ \A k \in 1 .. a.sz : s[k] = a.text[k]
    <3>1. a.text \in Seq(Int) /\ a.sz <= Len(a.text)
      BY <1>1, <1>2, <1>3, CallFields
    <3>2. \A k \in 1 .. a.sz : a.text[k] \in Int
      BY <1>2, <3>1
    <3>3. /\ s \in Seq(Int) /\ Len(s) = IF 1 <= a.sz THEN a.sz - 1 + 1 ELSE 0
          /\ \A k \in 1 .. a.sz - 1 + 1 : s[k] = a.text[1 + k - 1]
      BY <1>2, <3>2, SubSeqProperties
    <3> QED BY <1>2, <3>3
  <2>4. \A k \in 1 .. a.sz : t[k] = s[k]
    <3> TAKE k \in 1 .. a.sz
    <3>1. 0 + k - 1 = k - 1
      BY <1>2
    <3> QED BY <1>5, <2>2, <2>3, <3>1
  <2> QED BY <2>1, <2>2, <2>3, <2>4, SeqEqual
<1>7. Unsent = Shortened(a.text) \o Pad(a.text)
  BY <1>1, <1>2, <1>3, OutputIs, UnsentAt
<1>8. Unsent' = Shortened(a.text) \o Pad(a.text)
  BY <1>1, <1>4, <1>6, UnsentThen
<1> QED BY <1>1, <1>7, <1>8, QuietStutters

\* The test of THRE, and of uart_flush's.
LEMMA PollSimulated ==
  ASSUME LineInv, UNCHANGED <<device, call, vprint_buffer, nmis>>,
         (pc = "write" /\ pc' = "send") \/ (pc = "flush" /\ pc' = "flush_send")
  PROVE  Simulated
<1>1. Unsent' = Unsent
  BY UnsentAt, UnsentThen
<1> QED BY <1>1, QuietStutters DEF device

\* A character goes from what is unsent to the transmitter.
LEMMA SendSimulated ==
  ASSUME LineInv, nmis' = 0, pc' # "format", line' = line,
         NEW x \in Int, thr = << >>, thr' = <<x>>, NEW r \in Seq(Int), Unsent' = r,
         Unsent = <<x>> \o r
  PROVE  Simulated
<1>1. BufferInv'
  BY DEF BufferInv
<1>2. thr \o Unsent = Unsent
  BY UnsentSeq, ConcatEmptySeq
<1> QED BY <1>1, <1>2, Stutters
\* A character of the buffer.
LEMMA WriteSendSimulated == ASSUME LineInv, WriteSend PROVE Simulated
<1> PICK a : a = call["kernel"]
  OBVIOUS
<1> PICK b : b = vprint_buffer
  OBVIOUS
<1>1. /\ pc = "send" /\ pc' = "write" /\ nmis' = 0 /\ vprint_buffer' = b
      /\ Out(TXRX, b[a.sz]) /\ call' = [call EXCEPT !["kernel"].sz = a.sz + 1]
  BY Alone DEF WriteSend, At, Goto, counters
<1>2. /\ a \in CallType /\ a.sz \in Nat /\ a.n \in Nat /\ a.sz < a.n /\ a.n < Size
      /\ call \in [{"kernel", "nmi"} -> CallType] /\ b \in [0 .. Size - 1 -> Byte]
  BY <1>1, Alone, CallFields DEF CallGood, Inv, DriverType
<1>3. b[a.sz] \in Byte /\ b[a.sz] \in Int
  <2>1. a.sz \in 0 .. Size - 1
    BY <1>2, Sizes
  <2>2. b[a.sz] \in Byte
    BY <1>2, <2>1
  <2>3. \A x \in Byte : x \in Int
    BY DEF Byte
  <2> QED BY <2>2, <2>3, Zenon
<1>4. thr = << >> /\ thr' = <<b[a.sz]>> /\ line' = line
  BY <1>1, <1>3, Alone, OutCharacter DEF Inv, Initialising
<1>5. call'["kernel"] = [a EXCEPT !.sz = a.sz + 1]
  <2>1. call' = [call EXCEPT !["kernel"] = [a EXCEPT !.sz = a.sz + 1]]
    BY <1>1, <1>2, CallExcept
  <2> QED BY <2>1, KernelCall
<1> PICK c : c = call'["kernel"]
  OBVIOUS
<1>6. c.text = a.text /\ c.n = a.n /\ c.sz = a.sz + 1
  BY <1>2, <1>5 DEF CallType
<1> PICK s : s = Between(b, a.sz + 1, a.n)
  OBVIOUS
<1>7. s \in Seq(Int) /\ Between(b, a.sz, a.n) = <<b[a.sz]>> \o s
  <2>1. a.sz \in 0 .. a.n - 1 /\ a.sz + 1 \in 0 .. a.n
    BY <1>2
  <2> QED BY <1>2, <2>1, BetweenSeq, BetweenFirst
<1> PICK p : p = Pad(a.text)
  OBVIOUS
<1>8. p \in Seq(Int) /\ <<b[a.sz]>> \in Seq(Int)
  BY <1>3, PadSeq
<1>9. Unsent = (<<b[a.sz]>> \o s) \o p /\ Unsent' = s \o p
  BY <1>1, <1>6, <1>7, UnsentAt, UnsentThen
<1>10. Unsent = <<b[a.sz]>> \o (s \o p) /\ s \o p \in Seq(Int)
  <2> PICK h : h = <<b[a.sz]>>
    OBVIOUS
  <2>1. (h \o s) \o p = h \o (s \o p)
    <3>1. h \in Seq(Int) /\ s \in Seq(Int) /\ p \in Seq(Int)
      BY <1>7, <1>8
    <3> QED BY <3>1, ConcatAssociative
  <2>2. s \o p \in Seq(Int)
    BY <1>7, <1>8, ConcatProperties, Zenon
  <2> QED BY <1>9, <2>1, <2>2, Zenon
<1> QED BY <1>1, <1>3, <1>4, <1>9, <1>10, SendSimulated

\* The end of a message: nothing is left of it, but what panic pads it with.
LEMMA WriteEndSimulated == ASSUME LineInv, WriteEnd PROVE Simulated
<1> PICK a : a = call["kernel"]
  OBVIOUS
<1>1. /\ pc = "write" /\ a.sz = a.n /\ UNCHANGED <<thr, line, nmis>>
  BY Alone DEF WriteEnd, At, counters, device
<1>2. /\ a \in CallType /\ a.n \in Nat /\ a.n < Size /\ a.rest = << >>
      /\ call \in [{"kernel", "nmi"} -> CallType] /\ vprint_buffer \in [0 .. Size - 1 -> Byte]
  BY <1>1, Alone, CallFields DEF CallGood, Inv, DriverType
<1>3. Unsent = Pad(a.text)
  <2>1. Between(vprint_buffer, a.n, a.n) = << >>
    BY <1>2, BetweenNone
  <2>2. << >> \o Pad(a.text) = Pad(a.text)
    BY PadSeq, ConcatEmptySeq
  <2> QED BY <1>1, <2>1, <2>2, UnsentAt
<1>4. CASE Panicking
  <2>1. pc' = "flush" /\ call' = [call EXCEPT !["kernel"].sz = 0, !["kernel"].n = Padding]
    BY <1>2, <1>4, Alone DEF WriteEnd, Goto
  <2>2. call'["kernel"] = [a EXCEPT !.sz = 0, !.n = Padding]
    <3>1. call' = [call EXCEPT !["kernel"] = [a EXCEPT !.sz = 0, !.n = Padding]]
      BY <1>2, <2>1, Sizes, CallExcept
    <3> QED BY <3>1, KernelCall
  <2>3. call'["kernel"].sz = 0 /\ call'["kernel"].n = Padding /\ Padding - 0 = Padding
    BY <1>2, <2>2, Sizes DEF CallType
  <2>4. Unsent' = Nuls(Padding) /\ Unsent = Nuls(Padding)
    BY <1>3, <1>4, <2>1, <2>3, UnsentThen DEF Pad, Panicking
  <2> QED BY <1>1, <2>1, <2>4, QuietStutters
<1>5. CASE ~Panicking
  <2>1. pc' = "idle"
    BY <1>2, <1>5, Alone DEF WriteEnd, Goto
  <2>2. Unsent' = << >> /\ Unsent = << >>
    BY <1>3, <1>5, <2>1, UnsentThen DEF Pad, Panicking
  <2> QED BY <1>1, <2>1, <2>2, QuietStutters
<1> QED BY <1>4, <1>5

\* uart_flush.
LEMMA FlushSimulated == ASSUME LineInv, Flush PROVE Simulated
<1> PICK a : a = call["kernel"]
  OBVIOUS
<1>1. /\ a \in CallType /\ a.sz \in Nat /\ a.n \in Nat
      /\ call \in [{"kernel", "nmi"} -> CallType]
      /\ UNCHANGED <<vprint_buffer, nmis>> /\ nmis' = 0
  BY Alone, CallFields DEF Inv, DriverType, Flush, counters
<1>2. CASE pc = "flush" /\ pc' = "flush_send" /\ UNCHANGED <<device, call>>
  BY <1>1, <1>2, PollSimulated
<1>3. CASE /\ pc = "flush_send" /\ Out(TXRX, NUL) /\ pc' = "flush"
           /\ call' = [call EXCEPT !["kernel"].sz = a.sz + 1]
  <2>1. NUL \in Byte /\ NUL \in Int
    BY DEF NUL, Byte
  <2>2. thr = << >> /\ thr' = <<NUL>> /\ line' = line
    BY <1>3, <2>1, Alone, OutCharacter DEF Inv, Initialising
  <2>3. a.sz < a.n
    BY <1>3, Alone DEF CallGood
  <2>4. call'["kernel"].n = a.n /\ call'["kernel"].sz = a.sz + 1
    <3>1. call' = [call EXCEPT !["kernel"] = [a EXCEPT !.sz = a.sz + 1]]
      BY <1>1, <1>3, CallExcept
    <3>2. call'["kernel"] = [a EXCEPT !.sz = a.sz + 1]
      BY <3>1, KernelCall
    <3> QED BY <1>1, <3>2 DEF CallType
  <2>5. Unsent = Nuls(a.n - a.sz) /\ Unsent' = Nuls(a.n - (a.sz + 1))
    BY <1>3, <2>4, UnsentAt, UnsentThen
  <2>6. a.n - a.sz \in Nat /\ a.n - a.sz > 0 /\ a.n - (a.sz + 1) = (a.n - a.sz) - 1
        /\ a.n - (a.sz + 1) \in Nat
    BY <1>1, <2>3
  <2>7. Unsent = <<NUL>> \o Unsent' /\ Unsent' \in Seq(Int)
    BY <2>5, <2>6, NulsFirst
  <2> QED BY <1>1, <1>3, <2>1, <2>2, <2>7, SendSimulated
<1>4. CASE pc = "flush" /\ a.sz = a.n /\ pc' = "halt" /\ UNCHANGED <<device, call>>
  <2>1. Nuls(a.n - a.sz) = << >>
    <3>1. a.n - a.sz = 0
      BY <1>1, <1>4
    <3>2. Nuls(0) \in Seq(Int) /\ Len(Nuls(0)) = 0
      BY NulsFirst
    <3> QED BY <3>1, <3>2
  <2>2. Unsent = << >> /\ Unsent' = << >>
    BY <1>4, <2>1, UnsentAt, UnsentThen
  <2> QED BY <1>1, <1>4, <2>2, QuietStutters DEF device
<1> QED BY <1>2, <1>3, <1>4, Alone DEF Flush, At, Goto
\* uart_read has nothing to do with what is sent.
LEMMA ReadSimulated ==
  ASSUME LineInv, ReadPoll \/ ReadRecv \/ \E max \in 0 .. 2 : Read(max)
  PROVE  Simulated
<1>1. /\ pc \in {"idle", "read", "recv"} /\ pc' \in {"idle", "read", "recv"}
      /\ UNCHANGED <<thr, line, nmis>>
  BY Alone DEF ReadPoll, ReadRecv, Read, At, Goto, In, counters, device
<1>2. Unsent = << >> /\ Unsent' = << >>
  BY <1>1, UnsentAt, UnsentThen
<1> QED BY <1>1, <1>2, QuietStutters

\* The transmitter puts the first pending character on the line.
LEMMA DeviceSimulated == ASSUME LineInv, Device PROVE Simulated
<1>1. UNCHANGED <<pc, nmi, call, vprint_buffer, nmis>> /\ nmis' = 0
  BY Alone DEF Device, driver, counters
<1>2. BufferInv' /\ Unsent' = Unsent
  BY <1>1, Alone DEF BufferInv, Unsent, Panicking
<1>3. CASE Transmit
  <2>1. PICK b \in Byte : thr = <<b>>
    BY <1>3, Alone, Zenon DEF Transmit
  <2>2. line' = Append(line, b) /\ thr' = << >>
    <3>1. \A x : Tail(<<x>>) = << >> /\ Head(<<x>>) = x
      OBVIOUS
    <3> QED BY <1>3, <2>1, <3>1, Zenon DEF Transmit
  <2>3. b \in Int
    BY DEF Byte
  <2>4. << >> \o Unsent = Unsent
    BY UnsentSeq, ConcatEmptySeq
  <2> PICK p : p = <<b>> \o Unsent
    OBVIOUS
  <2>5. p # << >> /\ Head(p) = b /\ Tail(p) = Unsent
    BY <2>3, UnsentSeq, InFront
  <2>6. thr \o Unsent = p /\ thr' \o Unsent' = Tail(p)
    BY <1>2, <2>1, <2>2, <2>4, <2>5
  <2>7. Line!Emit
    BY <2>2, <2>5, <2>6 DEF Line!Emit
  <2> QED BY <1>1, <1>2, <2>7 DEF Simulated, Line!Next
<1>4. CASE Peer \/ Receive
  <2>1. UNCHANGED <<thr, line>>
    BY <1>4 DEF Peer, Receive
  <2> QED BY <1>1, <1>2, <2>1, Stutters
<1> QED BY <1>3, <1>4 DEF Device

\* Every step, as long as there are no NMIs.
LEMMA Simulation ==
  ASSUME MaxNmis = 0, LineInv, [Next]_vars
  PROVE  Simulated
<1>1. CASE UartInit
  BY <1>1, UartInitSimulated
<1>2. CASE FormatChar \/ FormatUnsupported \/ FormatEnd
  BY <1>2, FormatCharSimulated, FormatUnsupportedSimulated, FormatEndSimulated
<1>3. CASE WritePoll
  <2>1. /\ pc = "write" /\ pc' = "send"
        /\ UNCHANGED <<device, call, vprint_buffer, nmis>>
    BY <1>3, Alone DEF WritePoll, At, Goto, counters
  <2> QED BY <2>1, PollSimulated
<1>4. CASE WriteSend \/ WriteEnd \/ Flush
  BY <1>4, WriteSendSimulated, WriteEndSimulated, FlushSimulated
<1>5. CASE ReadPoll \/ ReadRecv \/ \E max \in 0 .. 2 : Read(max)
  BY <1>5, ReadSimulated
<1>6. CASE Device
  BY <1>6, DeviceSimulated
<1>7. CASE Nmi
  BY <1>7, Alone DEF Nmi
<1>8. CASE Panic
  BY <1>8, PrintSimulated DEF Panic
<1>9. ASSUME NEW message \in Messages, Printf(message) PROVE Simulated
  BY <1>9, PrintSimulated DEF Printf
<1>10. CASE UNCHANGED vars
  <2>1. UNCHANGED <<thr, line, pc, nmi, call, vprint_buffer, nmis>>
    BY <1>10 DEF vars, device, driver, counters
  <2>2. nmis' = 0 /\ BufferInv' /\ Unsent' = Unsent
    BY <2>1, Alone DEF BufferInv, Unsent, Panicking
  <2> QED BY <2>1, <2>2, Stutters
<1> QED BY <1>1, <1>2, <1>3, <1>4, <1>5, <1>6, <1>7, <1>8, <1>9, <1>10
        DEF Next, Kernel, Vprintf

\* The first state of the line.
LEMMA InitialLine == ASSUME Init PROVE LineInv /\ Line!Init
<1>1. pc = "enable_efr" /\ thr = << >> /\ line = << >> /\ nmis = 0
  BY DEF Init, DeviceInit
<1>2. LineInv
  BY <1>1, InitInv DEF LineInv, BufferInv
<1>3. Unsent = << >> /\ << >> \o << >> = << >>
  BY <1>1, UnsentAt
<1> QED BY <1>1, <1>2, <1>3 DEF Line!Init

\* printf keeps its promise: as long as no NMI comes, formatting, truncation at
\* whatever size, the shared buffer, polling and the switch to panic in the
\* middle of a message neither lose, repeat nor reorder a character.
THEOREM Promise == ASSUME MaxNmis = 0 PROVE Spec => ImplementsConsoleLine
<1>1. Init => LineInv /\ Line!Init
  BY InitialLine
<1>2. LineInv /\ [Next]_vars => LineInv' /\ [Line!Next]_<<line, thr \o Unsent>>
  <2> SUFFICES ASSUME LineInv, [Next]_vars
               PROVE  LineInv' /\ [Line!Next]_<<line, thr \o Unsent>>
    OBVIOUS
  <2>1. Simulated
    BY Simulation
  <2>2. Inv'
    BY NextInv DEF LineInv
  <2> QED BY <2>1, <2>2 DEF Simulated, LineInv
<1> QED BY <1>1, <1>2, PTL DEF Spec, ImplementsConsoleLine, Line!Spec
=============================================================================
