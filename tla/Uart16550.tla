----------------------------- MODULE Uart16550 ------------------------------
(***************************************************************************)
(* The serial port COM1 as the programs see it through kernel/include/     *)
(* uart.h: a 16550A, or a 16650 with its enhanced feature register, which  *)
(* shares an address with the FIFO control register and is selected by     *)
(* LCR = 0xbf.  The registers hold bytes; what the port receives is not a  *)
(* byte but whether it was received with the line set up.                  *)
(***************************************************************************)
EXTENDS Integers, Sequences

VARIABLES
  enhanced,           \* whether the chip has an EFR
  lcr, dll, dlm, ier, \* line control, divisor latch, interrupt enable
  fcr, efr,           \* FIFO control, enhanced features
  rx, thr,            \* the receive and transmit FIFOs, or holding registers
  line,               \* the characters transmitted so far
  lost,               \* how many were written over an untransmitted one
  cts                 \* the peer lets us transmit

registers == <<enhanced, lcr, dll, dlm, ier, fcr, efr>>
device == <<registers, rx, thr, line, lost, cts>>

\* Offsets from the base port.
TXRX == 0
DLA_LSB == 0
IER == 1
DLA_MSB == 1
FCR == 2
EFR == 2
LCR == 3

Bit(value, n) == (value \div 2 ^ n) % 2 = 1

DivisorAccess == Bit(lcr, 7)
EfrAccess     == enhanced /\ lcr = 191   \* 0xbf
FifoEnabled   == Bit(fcr, 0)

\* 115200 baud, 8 bits, 1 stop bit, no parity, no break.
LineSetUp == dll = 1 /\ dlm = 0 /\ lcr % 128 = 3

\* Whatever the firmware left; nothing is being transmitted.
DeviceInit ==
  /\ enhanced \in BOOLEAN
  /\ lcr \in {0, 3} /\ dll \in {1, 12} /\ dlm = 0 /\ ier = 0
  /\ fcr \in {0, 1} /\ efr = 0
  /\ rx = << >> /\ thr = << >> /\ line = << >> /\ lost = 0
  /\ cts \in BOOLEAN

\* A write to the FIFO control register empties the FIFOs it is told to, and
\* both when it switches them on or off.
Emptied(value, n) ==
  \/ Bit(value, 0) # FifoEnabled
  \/ Bit(value, 0) /\ Bit(value, n)

\* out(value, SERIAL_COM1 + port)
Out(port, value) ==
  LET toFcr == port = FCR /\ ~EfrAccess
      toThr == port = TXRX /\ ~DivisorAccess
  IN /\ lcr' = IF port = LCR THEN value ELSE lcr
     /\ dll' = IF port = DLA_LSB /\ DivisorAccess THEN value ELSE dll
     /\ dlm' = IF port = DLA_MSB /\ DivisorAccess THEN value ELSE dlm
     /\ ier' = IF port = IER /\ ~DivisorAccess THEN value ELSE ier
     /\ efr' = IF port = EFR /\ EfrAccess THEN value ELSE efr
     /\ fcr' = IF toFcr THEN value ELSE fcr
     /\ rx' = IF toFcr /\ Emptied(value, 1) THEN << >> ELSE rx
     /\ thr' = IF toThr THEN IF FifoEnabled THEN Append(thr, value)
                                            ELSE <<value>>
               ELSE IF toFcr /\ Emptied(value, 2) THEN << >> ELSE thr
     /\ lost' = IF toThr /\ ~FifoEnabled THEN lost + Len(thr) ELSE lost
     /\ UNCHANGED <<enhanced, line, cts>>

\* in(SERIAL_LSR) & SERIAL_LSR_THRE, in(SERIAL_LSR) & SERIAL_LSR_DATA_READY
CanSend == thr = << >>
CanRecv == rx # << >>

\* in(SERIAL_RX), with something to read and the divisor latch closed.
In ==
  /\ rx' = Tail(rx)
  /\ UNCHANGED <<registers, thr, line, lost, cts>>

\* The transmitter takes the next character, unless an EFR with flow control
\* on, automatic CTS or XON/XOFF, makes it wait for the peer.
FlowControl == enhanced /\ (Bit(efr, 7) \/ Bit(efr, 3) \/ Bit(efr, 2))

Transmit ==
  /\ thr # << >>
  /\ FlowControl => cts
  /\ line' = Append(line, Head(thr))
  /\ thr' = Tail(thr)
  /\ UNCHANGED <<registers, rx, lost, cts>>

\* A byte arrives, over the last one if the FIFO is off.
Receive ==
  /\ rx' = IF FifoEnabled THEN Append(rx, LineSetUp) ELSE <<LineSetUp>>
  /\ UNCHANGED <<registers, thr, line, lost, cts>>

\* The peer starts or stops letting us transmit.
Peer ==
  /\ cts' = ~cts
  /\ UNCHANGED <<registers, rx, thr, line, lost>>
=============================================================================
