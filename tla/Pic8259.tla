------------------------------ MODULE Pic8259 ------------------------------
(***************************************************************************)
(* The two cascaded 8259A interrupt controllers, programmed by pic_init()  *)
(* (kernel/core/pic.c) for cascade on line 2, normal end of interrupt, no  *)
(* special fully nested mode, and every line unmasked (ICW1 clears the     *)
(* mask and the kernel never writes OCW1).  The chips are hardware: what   *)
(* they do on raise and acknowledge is taken from how the kernel uses      *)
(* them; the end-of-interrupt commands are the ones the kernel sends.      *)
(*                                                                         *)
(* Lines are numbered 0..15: 0..7 on the master, 8..15 on the slave.  A    *)
(* lower number has the higher priority on its chip, and a slave line has  *)
(* the priority of master line 2.                                          *)
(***************************************************************************)
EXTENDS Naturals

VARIABLES
  irr,    \* lines latched and not yet acknowledged by the CPU
  isr     \* lines acknowledged and not yet ended by an EOI

Master  == 0..7
Slave   == 8..15
Cascade == 2
Timer   == 0    \* PIC_TIMER_IRQ

PicInit == irr = {} /\ isr = {}

\* The line of highest priority in S, as a set of at most one element.
Highest(S) == {i \in S : \A j \in S : i <= j}

\* Fully nested mode: the best request that outranks everything in service.
Unblocked(requests, inService) ==
  {i \in Highest(requests) : \A j \in inService : i < j}

SlaveOffer == Unblocked(irr \cap Slave, isr \cap Slave)

MasterRequests ==
  (irr \cap Master) \cup (IF SlaveOffer = {} THEN {} ELSE {Cascade})

MasterOffer == Unblocked(MasterRequests, isr \cap Master)

\* The line the controllers present to the CPU, if any.
Offered == IF Cascade \in MasterOffer THEN SlaveOffer ELSE MasterOffer

\* A device raises line i; an edge on a line already latched is lost.
Raise(i) ==
  /\ i \notin irr
  /\ irr' = irr \cup {i}
  /\ UNCHANGED isr

\* The CPU acknowledges line i and is given its vector.
Acknowledge(i) ==
  /\ i \in Offered
  /\ irr' = irr \ {i}
  /\ isr' = isr \cup {i} \cup (IF i \in Slave THEN {Cascade} ELSE {})

\* A non specific EOI written to the chip that owns the lines in "chip".
Ended(inService, chip) == inService \ Highest(inService \cap chip)

\* outb(32,32), ack_pic1: EOI to the master.
EoiMaster ==
  /\ isr' = Ended(isr, Master)
  /\ UNCHANGED irr

\* The first half of ack_pic2: EOI to the slave.
EoiSlave ==
  /\ isr' = Ended(isr, Slave)
  /\ UNCHANGED irr

\* ack_pic2: EOI to the slave, then to the master.
EoiBoth ==
  /\ isr' = Ended(Ended(isr, Slave), Master)
  /\ UNCHANGED irr

PicTypeOK == irr \subseteq 0..15 /\ isr \subseteq 0..15
=============================================================================
