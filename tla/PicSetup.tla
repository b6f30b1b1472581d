------------------------------ MODULE PicSetup ------------------------------
(***************************************************************************)
(* pic_init() of kernel/core/pic.c: the eight control words that move the  *)
(* two 8259A from where the firmware has put them (IRQ 0 at vector 8, the  *)
(* number of an exception) to vectors 32 and 40.  What a chip makes of a   *)
(* byte depends on the port it is written to and, on the odd port, on what *)
(* it has been sent before.                                                *)
(***************************************************************************)
EXTENDS Pic8259, Sequences

VARIABLE chip    \* chip[c]: how chip 1 or 2 is set up, and what it expects

Chips == {1, 2}
Lines8(c) == IF c = 1 THEN Master ELSE Slave

Expectations == {"icw2", "icw3", "icw4", "ocw"}

\* As the firmware leaves them: in service at vectors 8 and 0x70
\* (DFLT_PIC1_ICW2, DFLT_PIC2_ICW2), or stopped anywhere in the sequence.
ChipInit ==
  chip \in {[c \in Chips |-> [expects |-> e, base |-> IF c = 1 THEN 8 ELSE 112,
                              cascade |-> IF c = 1 THEN 4 ELSE 2, icw4 |-> TRUE,
                              aeoi |-> FALSE]] : e \in Expectations}
Bit(byte, weight) == (byte \div weight) % 2 = 1

\* An even port: bit 4 makes a byte an ICW1, which starts the sequence anew and
\* forgets requests; the kernel's other writes there are EOIs (Pic8259).
Icw1(c, byte) ==
  /\ chip' = [chip EXCEPT ![c].expects = "icw2", ![c].icw4 = Bit(byte, 1)]
  /\ irr' = irr \ Lines8(c) /\ isr' = isr \ Lines8(c)

\* The odd port.
OddPort(c, byte) ==
  /\ chip' =
       LET last == IF chip[c].icw4 THEN "icw4" ELSE "ocw" IN
       CASE chip[c].expects = "icw2" ->
              [chip EXCEPT ![c].base = byte - (byte % 8), ![c].expects = "icw3"]
         [] chip[c].expects = "icw3" ->
              [chip EXCEPT ![c].cascade = byte, ![c].expects = last]
         [] chip[c].expects = "icw4" ->
              [chip EXCEPT ![c].aeoi = Bit(byte, 2), ![c].expects = "ocw"]
         [] OTHER -> chip
  /\ UNCHANGED <<irr, isr>>

\* (faulty: the bases are the firmware's)
WordsNoRemap ==
  << <<1, 0, 17>>, <<2, 0, 17>>, <<1, 1, 8>>, <<2, 1, 112>>,
     <<1, 1, 4>>, <<2, 1, 2>>, <<1, 1, 1>>, <<2, 1, 1>> >>

\* What pic_init writes: chip, port, byte.
Words ==
  << <<1, 0, 17>>, <<2, 0, 17>>, <<1, 1, 32>>, <<2, 1, 40>>,
     <<1, 1, 4>>, <<2, 1, 2>>, <<1, 1, 1>>, <<2, 1, 1>> >>

WriteWord(k) ==
  IF Words[k][2] = 0 THEN Icw1(Words[k][1], Words[k][3]) ELSE OddPort(Words[k][1], Words[k][3])

ChipOf(line) == IF line \in Master THEN 1 ELSE 2

\* The slave has its line on the master, and knows which.
Cascaded == Bit(chip[1].cascade, 4) /\ chip[2].cascade = Cascade

\* A chip out of its sequence delivers nothing, a slave not without the master.
Delivers(line) ==
  /\ chip[1].expects = "ocw" /\ chip[ChipOf(line)].expects = "ocw"
  /\ line \in Slave => Cascaded

VectorOf(line) == chip[ChipOf(line)].base + (line % 8)

\* A line is in service from its acknowledgement on unless EOIs are automatic.
Served(lines) == {l \in lines : ~chip[ChipOf(l)].aeoi}

PicSetupTypeOK ==
  \A c \in Chips :
    /\ chip[c].expects \in Expectations /\ chip[c].base \in 0 .. 248
    /\ chip[c].cascade \in 0 .. 255 /\ chip[c].icw4 \in BOOLEAN /\ chip[c].aeoi \in BOOLEAN
=============================================================================
