-------------------------- MODULE InterruptsProofs --------------------------
(***************************************************************************)
(* The frames of the kernel's stubs, for every set of faults, software     *)
(* interrupts and lines, and for events nested to any depth.               *)
(*                                                                         *)
(* The stack of an event in progress is the stack it found, and above it   *)
(* what the label it has reached says (Layout).  An event that another one *)
(* has interrupted stands where that one found it (StackAt, CpuAt): so the *)
(* whole stack is known, and an iret finds what the event's entry pushed.  *)
(***************************************************************************)
EXTENDS Interrupts, SequenceTheorems, TLAPS

Depth == Len(entered)

\* Where event k stands: 0 is the program.
StackAt(k) == IF k = Depth THEN stack ELSE entered[k + 1].stack
CpuAt(k)   == IF k = Depth THEN cpu ELSE entered[k + 1].cpu

Handler  == {"intr_hdlr", "excp_hdlr", "resume_from_intr", "panic"}
Pushes   == {"ack_pic1", "ack_pic2", "idt_common"}
Numbered == Handler \cup Pushes \cup {"eoi_pic1"}

Eips ==
  {<<label>> : label \in Labels}
    \cup {<<"idt_trampoline", vector>> : vector \in 0 .. 255}
    \cup {<<"pic_init", k>> : k \in 1 .. 8}

Values == Int \cup BOOLEAN \cup Eips
Names  == {"ss", "esp", "eflags", "cs", "eip", "err", "nr", "eax", "gprs"}
Cells  == Names \X Values
Cpus ==
  [eip : Eips, eax : {Word("eax", n) : n \in 0 .. 2},
   gprs : {Word("gprs", n) : n \in 0 .. 2}, if : BOOLEAN, ring : {0, 3}]
Events ==
  [vector : 0 .. 255, cpu : Cpus, stack : Seq(Cells), lines : SUBSET (0 .. 15), err : Int]

\* Where the processor pushed EIP for an event.
Frame(e) == Len(e.stack) + (IF e.cpu.ring = 3 THEN 5 ELSE 3)

Pushed(e, s) ==
  /\ \A i \in 1 .. Len(e.stack) : s[i] = e.stack[i]
  /\ s[Frame(e)] = Word("eip", e.cpu.eip)
  /\ s[Frame(e) - 1] = Word("cs", e.cpu.ring)
  /\ s[Frame(e) - 2] = Word("eflags", e.cpu.if)

\* The stub's words, from the label it has reached.
Stub(e, label, s) ==
  /\ label \in Numbered => /\ s[Frame(e) + 1] = Word("err", e.err)
                           /\ s[Frame(e) + 2] = Word("nr", e.vector)
                           /\ e.vector \notin 20 .. 31
  /\ label \in Pushes => Len(s) = Frame(e) + 2
  /\ label = "eoi_pic1" => Len(s) = Frame(e) + 3 /\ s[Frame(e) + 3] = e.cpu.eax
  /\ label \in Handler => /\ Len(s) = Frame(e) + 4
                          /\ s[Frame(e) + 3] = e.cpu.eax
                          /\ s[Frame(e) + 4] = e.cpu.gprs
  /\ label = "iret" => Len(s) = Frame(e)
  /\ label = "idt_trampoline" =>
       IF e.vector \in WithCode
       THEN Len(s) = Frame(e) + 1 /\ s[Frame(e) + 1] = Word("err", e.err)
       ELSE Len(s) = Frame(e) /\ e.err = NoCode

\* The vectors that lead to a label.
Route(e, label) ==
  /\ label = "ack_pic1" => e.vector \in 32 .. 39
  /\ label = "ack_pic2" => e.vector \in 40 .. 47
  /\ label = "eoi_pic1" => e.vector \in 32 .. 47
  /\ label = "excp_hdlr" => e.vector < NR_EXCP
  /\ label = "panic" => e.vector < NR_EXCP /\ e.vector # NMI_EXCP

Layout(e, c, s) ==
  /\ c.eip[1] \in Numbered \cup {"idt_trampoline", "iret"}
  /\ c.ring = 0 /\ c.if = FALSE
  /\ c.eip[1] = "idt_trampoline" => c.eip = <<"idt_trampoline", e.vector>>
  /\ c.eip[1] \notin Handler => c.gprs = e.cpu.gprs
  /\ c.eip[1] \notin Handler \cup {"eoi_pic1"} => c.eax = e.cpu.eax
  /\ Pushed(e, s)
  /\ Stub(e, c.eip[1], s)
  /\ Route(e, c.eip[1])

\* The lines that an event of a vector is about.
LinesOk(e) ==
  \/ e.lines = {}
  \/ e.vector \in 32 .. 39 /\ \E line \in Master : e.lines = {line}
  \/ e.vector \in 40 .. 47 /\ e.lines = {Cascade}
  \/ e.vector \in 40 .. 47 /\ \E line \in Slave : e.lines = {line, Cascade}

Origin(e) ==
  \/ e.vector \in Faults
  \/ e.vector = NMI_EXCP \/ e.vector >= 20
  \/ e.vector = GP_EXCP /\ e.cpu.ring = 3

\* Only the program can be interrupted by a line, or by an int.
EventInv ==
  \A k \in 1 .. Depth :
    /\ LinesOk(entered[k]) /\ Origin(entered[k])
    /\ k # 1 => entered[k].lines = {} /\ entered[k].vector < 20

FramesInv == \A k \in 1 .. Depth : Layout(entered[k], CpuAt(k), StackAt(k))

ProgramInv ==
  /\ StackAt(0) = << >>
  /\ \/ CpuAt(0).eip[1] = "program"
     \/ CpuAt(0).eip[1] = "pic_init" /\ Depth = 0
  /\ CpuAt(0).eax \in {Word("eax", 0), Word("eax", 1)}
  /\ CpuAt(0).gprs \in {Word("gprs", 0), Word("gprs", 1)}

\* What pic_init has done to a chip after its first k words.
ChipSet(c, k, base, cascade) ==
  /\ k >= 1 => chip[c].icw4 = TRUE
  /\ k = 1 => chip[c].expects = "icw2"
  /\ k = 2 => chip[c].expects = "icw3"
  /\ k = 3 => chip[c].expects = "icw4"
  /\ k >= 2 => chip[c].base = base
  /\ k = 4 => chip[c].expects = "ocw"

SetupInv ==
  /\ \A c \in Chips : chip[c].aeoi = FALSE
  /\ cpu.eip[1] = "pic_init" =>
       /\ cpu.eip = <<"pic_init", cpu.eip[2]>> /\ cpu.eip[2] \in 1 .. 8
       /\ cpu.if = FALSE /\ entered = << >>
       /\ ChipSet(1, cpu.eip[2] \div 2, 32, 4)
       /\ ChipSet(2, (cpu.eip[2] - 1) \div 2, 40, 2)
  /\ cpu.eip[1] # "pic_init" => chip[1].base = 32 /\ chip[2].base = 40

\* What the first event, at a label, still has to end.
Due(e, label) ==
  IF label \in {"idt_trampoline", "ack_pic1", "ack_pic2"} THEN e.lines
  ELSE IF label = "eoi_pic1" THEN e.lines \cap Master
  ELSE {}

IsrInv == isr = IF Depth = 0 THEN {} ELSE Due(entered[1], CpuAt(1).eip[1])

ChipType == [expects : Expectations, base : 0 .. 248, cascade : 0 .. 255,
             icw4 : BOOLEAN, aeoi : BOOLEAN]

TypeInv ==
  /\ irr \subseteq 0 .. 15 /\ isr \subseteq 0 .. 15
  /\ chip \in [Chips -> ChipType]
  /\ cpu \in Cpus /\ stack \in Seq(Cells) /\ entered \in Seq(Events)
  /\ masked \in BOOLEAN /\ events \in 0 .. MaxEvents

Inv == TypeInv /\ SetupInv /\ ProgramInv /\ FramesInv /\ EventInv /\ IsrInv
-----------------------------------------------------------------------------
(***************************************************************************)
(* Sequences of words.                                                     *)
(***************************************************************************)

\* What is on a stack after words are pushed on it.
LEMMA PushProperties ==
  ASSUME NEW s \in Seq(Cells), NEW t \in Seq(Cells)
  PROVE  /\ s \o t \in Seq(Cells)
         /\ Len(s \o t) = Len(s) + Len(t)
         /\ \A i \in 1 .. Len(s) : (s \o t)[i] = s[i]
         /\ \A i \in 1 .. Len(t) : (s \o t)[Len(s) + i] = t[i]
<1>1. /\ s \o t \in Seq(Cells)
      /\ Len(s \o t) = Len(s) + Len(t)
      /\ \A i \in 1 .. Len(s) + Len(t) : (s \o t)[i] =
                     IF i <= Len(s) THEN s[i] ELSE t[i - Len(s)]
  BY ConcatProperties
<1>2. Len(s) \in Nat /\ Len(t) \in Nat
  BY LenProperties
<1>3. ASSUME NEW i \in 1 .. Len(s) PROVE (s \o t)[i] = s[i]
  <2>1. i \in 1 .. Len(s) + Len(t) /\ i <= Len(s)
    BY <1>2
  <2> QED BY <2>1, <1>1
<1>4. ASSUME NEW i \in 1 .. Len(t) PROVE (s \o t)[Len(s) + i] = t[i]
  <2>1. Len(s) + i \in 1 .. Len(s) + Len(t) /\ ~(Len(s) + i <= Len(s)) /\ (Len(s) + i) - Len(s) = i
    BY <1>2
  <2> QED BY <2>1, <1>1
<1> QED BY <1>1, <1>3, <1>4

\* What is left of a stack after n words are popped.
LEMMA PopProperties ==
  ASSUME NEW s \in Seq(Cells), NEW n \in 0 .. Len(s)
  PROVE  /\ SubSeq(s, 1, n) \in Seq(Cells)
         /\ Len(SubSeq(s, 1, n)) = n
         /\ \A i \in 1 .. n : SubSeq(s, 1, n)[i] = s[i]
<1>1. Len(s) \in Nat /\ n \in Int /\ \A i \in 1 .. n : s[i] \in Cells
  <2>1. Len(s) \in Nat /\ s \in [1 .. Len(s) -> Cells]
    BY LenProperties
  <2> QED BY <2>1
<1>2. /\ SubSeq(s, 1, n) \in Seq(Cells)
      /\ Len(SubSeq(s, 1, n)) = IF 1 <= n THEN n - 1 + 1 ELSE 0
      /\ \A i \in 1 .. n - 1 + 1 : SubSeq(s, 1, n)[i] = s[1 + i - 1]
  BY <1>1, SubSeqProperties
<1>3. n \in Nat
  BY <1>1
<1>4. ASSUME NEW i \in 1 .. n PROVE SubSeq(s, 1, n)[i] = s[i]
  <2>1. i \in 1 .. n - 1 + 1 /\ 1 + i - 1 = i
    BY <1>3
  <2> QED BY <2>1, <1>2
<1> QED BY <1>2, <1>3, <1>4

\* The words that the kernel pushes are cells.
LEMMA WordsAreCells ==
  /\ \A name \in Names, value \in Values : Word(name, value) \in Cells
  /\ \A n \in Int : n \in Values
  /\ TRUE \in Values /\ FALSE \in Values
  /\ \A eip \in Eips : eip \in Values
BY DEF Word, Cells, Values, Names

\* A register that has been pushed is a cell.
LEMMA RegistersAreCells ==
  ASSUME NEW c \in Cpus
  PROVE  c.eax \in Cells /\ c.gprs \in Cells
<1>1. PICK n \in 0 .. 2 : c.eax = Word("eax", n)
  BY DEF Cpus
<1>2. PICK m \in 0 .. 2 : c.gprs = Word("gprs", m)
  BY DEF Cpus
<1>3. \A k \in 0 .. 2 : Word("eax", k) \in Cells /\ Word("gprs", k) \in Cells
  BY WordsAreCells DEF Names
<1> QED BY <1>1, <1>2, <1>3

\* Labels and what they are made of.
LEMMA LabelTypes ==
  /\ \A label \in Labels : <<label>> \in Eips /\ <<label>>[1] = label
  /\ \A vector \in 0 .. 255 : <<"idt_trampoline", vector>> \in Eips
BY DEF Eips

\* The types of what is known of the events in progress.
LEMMA EntryFacts ==
  ASSUME TypeInv
  PROVE  /\ Depth \in Nat
         /\ \A k \in 1 .. Depth : entered[k] \in Events
         /\ \A k \in 0 .. Depth : CpuAt(k) \in Cpus /\ StackAt(k) \in Seq(Cells)
<1>1. Depth \in Nat /\ \A k \in 1 .. Depth : entered[k] \in Events
  BY LenProperties DEF TypeInv, Depth
<1>2. ASSUME NEW k \in 0 .. Depth PROVE CpuAt(k) \in Cpus /\ StackAt(k) \in Seq(Cells)
  <2>1. CASE k = Depth
    BY <2>1 DEF CpuAt, StackAt, TypeInv
  <2>2. CASE k # Depth
    <3>1. entered[k + 1] \in Events
      BY <2>2, <1>1
    <3> QED BY <2>2, <3>1 DEF CpuAt, StackAt, Events
  <2> QED BY <2>1, <2>2
<1> QED BY <1>1, <1>2

\* Kernel code runs for an event: the last one.
LEMMA InKernel ==
  ASSUME Inv, cpu.eip[1] \notin {"program", "pic_init"}
  PROVE  /\ Depth \in Nat \ {0} /\ Last = entered[Depth] /\ Last \in Events
         /\ Layout(Last, cpu, stack)
         /\ LinesOk(Last) /\ Origin(Last)
         /\ Depth # 1 => Last.lines = {} /\ Last.vector < 20
<1>1. Depth \in Nat /\ \A k \in 1 .. Depth : entered[k] \in Events
  BY EntryFacts DEF Inv
<1>2. Depth # 0
  BY DEF Inv, ProgramInv, CpuAt
<1>3. Depth \in 1 .. Depth
  BY <1>1, <1>2
<1>4. CpuAt(Depth) = cpu /\ StackAt(Depth) = stack
  BY DEF CpuAt, StackAt
<1>5. Last = entered[Depth]
  BY DEF Last, Depth
<1> QED BY <1>1, <1>2, <1>3, <1>4, <1>5 DEF Inv, FramesInv, EventInv
-----------------------------------------------------------------------------
(***************************************************************************)
(* Entry and return.                                                       *)
(***************************************************************************)
Event(vector, code, lines) ==
  [vector |-> vector, cpu |-> cpu, stack |-> stack, lines |-> lines,
   err |-> IF vector \in WithCode THEN code ELSE NoCode]

\* What the processor pushes is laid out as the stubs expect it.
LEMMA EnterLayout ==
  ASSUME TypeInv, NEW vector \in 0 .. 255, NEW code \in Int, NEW lines \in SUBSET (0 .. 15),
         Enter(vector, code, lines)
  PROVE  /\ Event(vector, code, lines) \in Events
         /\ entered' = Append(entered, Event(vector, code, lines))
         /\ stack' \in Seq(Cells) /\ cpu' \in Cpus /\ cpu'.eip[1] = "idt_trampoline"
         /\ Layout(Event(vector, code, lines), cpu', stack')
<1> DEFINE e == Event(vector, code, lines)
           A == IF cpu.ring = 3 THEN <<Word("ss", 3), Word("esp", 3)>> ELSE << >>
           B == <<Word("eflags", cpu.if), Word("cs", cpu.ring), Word("eip", cpu.eip)>>
           C == IF vector \in WithCode THEN <<Word("err", code)>> ELSE << >>
           s1 == stack \o A
           s2 == s1 \o B
           n == Len(stack)
<1>1. stack' = s2 \o C
  BY DEF Enter
<1>2. cpu \in Cpus /\ stack \in Seq(Cells) /\ n \in Nat
  BY LenProperties DEF TypeInv
<1>3. cpu.if \in BOOLEAN /\ cpu.ring \in {0, 3} /\ cpu.eip \in Eips
  BY <1>2 DEF Cpus
<1>4. /\ Word("ss", 3) \in Cells /\ Word("esp", 3) \in Cells
      /\ Word("eflags", cpu.if) \in Cells /\ Word("cs", cpu.ring) \in Cells
      /\ Word("eip", cpu.eip) \in Cells /\ Word("err", code) \in Cells
  <2>1. 3 \in Values /\ code \in Values /\ cpu.ring \in Values /\ cpu.eip \in Values
    BY <1>3 DEF Values
  <2>3. cpu.if \in Values
    BY <1>3 DEF Values
  <2>2. \A name \in Names, value \in Values : Word(name, value) \in Cells
    BY WordsAreCells
  <2> QED BY <2>1, <2>2, <2>3 DEF Names
<1>5. A \in Seq(Cells) /\ Len(A) = IF cpu.ring = 3 THEN 2 ELSE 0
  BY <1>4
<1>6. /\ B \in Seq(Cells) /\ Len(B) = 3
      /\ B[1] = Word("eflags", cpu.if) /\ B[2] = Word("cs", cpu.ring)
      /\ B[3] = Word("eip", cpu.eip)
  BY <1>4
<1>7. /\ C \in Seq(Cells) /\ Len(C) = IF vector \in WithCode THEN 1 ELSE 0
      /\ vector \in WithCode => C[1] = Word("err", code)
  BY <1>4
<1> HIDE DEF A, B, C
<1>8. /\ s1 \in Seq(Cells) /\ Len(s1) = n + Len(A)
      /\ \A i \in 1 .. n : s1[i] = stack[i]
  BY <1>2, <1>5, PushProperties
<1>9. /\ s2 \in Seq(Cells) /\ Len(s2) = Len(s1) + 3
      /\ \A i \in 1 .. Len(s1) : s2[i] = s1[i]
      /\ \A i \in 1 .. 3 : s2[Len(s1) + i] = B[i]
  <2> HIDE DEF s1
  <2>1. /\ s2 \in Seq(Cells) /\ Len(s2) = Len(s1) + Len(B)
        /\ \A i \in 1 .. Len(s1) : s2[i] = s1[i]
        /\ \A i \in 1 .. Len(B) : s2[Len(s1) + i] = B[i]
    BY <1>8, <1>6, PushProperties
  <2> QED BY <2>1, <1>6
<1>10. /\ stack' \in Seq(Cells) /\ Len(stack') = Len(s2) + Len(C)
       /\ \A i \in 1 .. Len(s2) : stack'[i] = s2[i]
       /\ \A i \in 1 .. Len(C) : stack'[Len(s2) + i] = C[i]
  <2> HIDE DEF s2
  <2> QED BY <1>9, <1>7, <1>1, PushProperties
<1> HIDE DEF s1, s2
<1>11. /\ e.cpu = cpu /\ e.stack = stack /\ e.vector = vector
       /\ e.err = IF vector \in WithCode THEN code ELSE NoCode
  BY DEF Event
<1>12. Frame(e) = Len(s2) /\ Len(s2) = n + Len(A) + 3 /\ Len(s1) = n + Len(A) /\ Len(A) \in Nat
  BY <1>2, <1>5, <1>8, <1>9, <1>11 DEF Frame
<1> HIDE DEF e
<1>13. Pushed(e, stack')
  <2>1. ASSUME NEW i \in 1 .. n PROVE stack'[i] = stack[i]
    <3>1. i \in 1 .. Len(s1) /\ i \in 1 .. Len(s2)
      BY <1>2, <1>12
    <3> QED BY <3>1, <1>8, <1>9, <1>10
  <2>2. ASSUME NEW i \in 1 .. 3 PROVE stack'[Len(s1) + i] = B[i]
    <3>1. Len(s1) + i \in 1 .. Len(s2)
      BY <1>2, <1>12
    <3> QED BY <3>1, <1>9, <1>10
  <2>3. Frame(e) = Len(s1) + 3 /\ Frame(e) - 1 = Len(s1) + 2 /\ Frame(e) - 2 = Len(s1) + 1
    BY <1>2, <1>12
  <2>4. stack'[Len(s1) + 1] = B[1] /\ stack'[Len(s1) + 2] = B[2] /\ stack'[Len(s1) + 3] = B[3]
    BY <2>2
  <2> QED BY <2>1, <2>3, <2>4, <1>6, <1>11 DEF Pushed
<1>14. /\ cpu' = [cpu EXCEPT !.eip = <<"idt_trampoline", vector>>, !.if = FALSE, !.ring = 0]
       /\ entered' = Append(entered, e)
  BY DEF Enter, e, Event
<1>15. /\ cpu' \in Cpus /\ cpu'.eip = <<"idt_trampoline", vector>> /\ cpu'.ring = 0
       /\ cpu'.if = FALSE /\ cpu'.eax = cpu.eax /\ cpu'.gprs = cpu.gprs
       /\ cpu'.eip[1] = "idt_trampoline"
  BY <1>14, <1>2, LabelTypes DEF Cpus
<1>16. Stub(e, cpu'.eip[1], stack')
  <2>1. CASE vector \in WithCode
    <3>1. stack'[Frame(e) + 1] = Word("err", e.err) /\ Len(stack') = Frame(e) + 1
      BY <2>1, <1>7, <1>10, <1>11, <1>12
    <3> QED BY <2>1, <3>1, <1>11, <1>15 DEF Stub, Numbered, Pushes, Handler
  <2>2. CASE vector \notin WithCode
    <3>1. Len(stack') = Frame(e) /\ e.err = NoCode
      BY <2>2, <1>2, <1>7, <1>10, <1>11, <1>12
    <3> QED BY <2>2, <3>1, <1>11, <1>15 DEF Stub, Numbered, Pushes, Handler
  <2> QED BY <2>1, <2>2
<1>17. Route(e, cpu'.eip[1])
  BY <1>15 DEF Route
<1>18. Layout(e, cpu', stack')
  BY <1>11, <1>13, <1>15, <1>16, <1>17 DEF Layout, Handler, Numbered, Pushes
<1>19. e \in Events
  <2>1. e.err \in Int
    BY <1>11 DEF NoCode
  <2> QED BY <2>1, <1>2 DEF Events, e, Event
<1> QED BY <1>10, <1>14, <1>15, <1>18, <1>19 DEF e

\* The events that were in progress stay where the new one has found them.
LEMMA EnterFrames ==
  ASSUME TypeInv, ProgramInv, FramesInv, EventInv,
         NEW e \in Events, entered' = Append(entered, e), e.cpu = cpu, e.stack = stack,
         cpu.eip[1] # "pic_init", Layout(e, cpu', stack'), LinesOk(e), Origin(e),
         Depth # 0 => e.lines = {} /\ e.vector < 20
  PROVE  /\ entered' \in Seq(Events) /\ Depth' = Depth + 1
         /\ \A k \in 1 .. Depth : entered'[k] = entered[k]
         /\ entered'[Depth + 1] = e
         /\ ProgramInv' /\ FramesInv' /\ EventInv'
<1>1. Depth \in Nat /\ \A k \in 1 .. Depth : entered[k] \in Events
  BY EntryFacts
<1>2. /\ entered' \in Seq(Events) /\ Depth' = Depth + 1
      /\ \A k \in 1 .. Depth : entered'[k] = entered[k]
      /\ entered'[Depth + 1] = e
  BY <1>1 DEF Depth, TypeInv
<1>3. ASSUME NEW k \in 0 .. Depth
      PROVE  CpuAt(k)' = CpuAt(k) /\ StackAt(k)' = StackAt(k)
  <2>1. CASE k = Depth
    BY <2>1, <1>1, <1>2 DEF CpuAt, StackAt
  <2>2. CASE k # Depth
    <3>1. k + 1 \in 1 .. Depth /\ k # Depth'
      BY <2>2, <1>1, <1>2
    <3> QED BY <2>2, <3>1, <1>2 DEF CpuAt, StackAt
  <2> QED BY <2>1, <2>2
<1>4. ASSUME NEW k, k = Depth + 1 PROVE CpuAt(k)' = cpu' /\ StackAt(k)' = stack'
  BY <1>2, <1>4 DEF CpuAt, StackAt
<1>5. FramesInv'
  <2> SUFFICES ASSUME NEW k \in 1 .. Depth + 1
               PROVE  Layout(entered'[k], CpuAt(k)', StackAt(k)')
    BY <1>2 DEF FramesInv
  <2>1. CASE k = Depth + 1
    BY <2>1, <1>2, <1>4
  <2>2. CASE k # Depth + 1
    <3>1. k \in 1 .. Depth
      BY <2>2, <1>1
    <3>2. k \in 0 .. Depth
      BY <3>1, <1>1
    <3>4. entered'[k] = entered[k]
      BY <3>1, <1>2
    <3>3. CpuAt(k)' = CpuAt(k) /\ StackAt(k)' = StackAt(k)
      BY <3>2, <1>3
    <3> QED BY <3>1, <3>3, <3>4 DEF FramesInv
  <2> QED BY <2>1, <2>2
<1>6. EventInv'
  <2> SUFFICES ASSUME NEW k \in 1 .. Depth + 1
               PROVE  /\ LinesOk(entered'[k]) /\ Origin(entered'[k])
                      /\ k # 1 => entered'[k].lines = {} /\ entered'[k].vector < 20
    BY <1>2 DEF EventInv, LinesOk, Origin
  <2>1. CASE k = Depth + 1
    BY <2>1, <1>1, <1>2
  <2>2. CASE k # Depth + 1
    <3>1. k \in 1 .. Depth
      BY <2>2, <1>1
    <3> QED BY <3>1, <1>2 DEF EventInv
  <2> QED BY <2>1, <2>2
<1>7. ProgramInv'
  <2>1. CpuAt(0)' = CpuAt(0) /\ StackAt(0)' = StackAt(0)
    BY <1>1, <1>3
  <2>2. CpuAt(0).eip[1] = "program"
    BY DEF ProgramInv, CpuAt
  <2> QED BY <2>1, <2>2 DEF ProgramInv
<1> QED BY <1>2, <1>5, <1>6, <1>7

\* A step of the kernel that keeps the layout of the event it runs for keeps
\* every other.
LEMMA TopStep ==
  ASSUME TypeInv, ProgramInv, FramesInv, EventInv, Depth # 0,
         entered' = entered, Layout(Last, cpu', stack')
  PROVE  ProgramInv' /\ FramesInv' /\ EventInv'
<1>1. Depth \in Nat /\ Last = entered[Depth] /\ Depth' = Depth
  BY EntryFacts DEF Last, Depth
<1>2. ASSUME NEW k \in 0 .. Depth, k # Depth
      PROVE  CpuAt(k)' = CpuAt(k) /\ StackAt(k)' = StackAt(k)
  BY <1>2, <1>1 DEF CpuAt, StackAt
<1>3. FramesInv'
  <2> SUFFICES ASSUME NEW k \in 1 .. Depth
               PROVE  Layout(entered[k], CpuAt(k)', StackAt(k)')
    BY <1>1 DEF FramesInv
  <2>1. CASE k = Depth
    <3>1. CpuAt(k)' = cpu' /\ StackAt(k)' = stack'
      BY <2>1, <1>1 DEF CpuAt, StackAt
    <3> QED BY <3>1, <2>1, <1>1
  <2>2. CASE k # Depth
    <3>1. k \in 0 .. Depth
      BY <1>1
    <3> QED BY <3>1, <2>2, <1>2 DEF FramesInv
  <2> QED BY <2>1, <2>2
<1>4. EventInv'
  BY <1>1 DEF EventInv, LinesOk, Origin
<1>5. ProgramInv'
  <2>1. 0 \in 0 .. Depth /\ 0 # Depth
    BY <1>1
  <2>2. CpuAt(0)' = CpuAt(0) /\ StackAt(0)' = StackAt(0)
    BY <2>1, <1>2
  <2> QED BY <2>2, <1>1 DEF ProgramInv
<1> QED BY <1>3, <1>4, <1>5
-----------------------------------------------------------------------------
(***************************************************************************)
(* The lines in service.                                                   *)
(***************************************************************************)

\* The lines in service when the kernel runs for the first event.
LEMMA IsrNow ==
  ASSUME Inv, Depth = 1
  PROVE  isr = Due(Last, cpu.eip[1])
<1>1. Last = entered[1] /\ CpuAt(1) = cpu
  BY DEF Last, Depth, CpuAt
<1> QED BY <1>1 DEF Inv, IsrInv

\* Only a step for the first event may change them.
LEMMA IsrKept ==
  ASSUME Inv, Depth # 0, entered' = entered,
         Depth = 1 => isr' = Due(Last, cpu'.eip[1]),
         Depth # 1 => isr' = isr
  PROVE  IsrInv'
<1>1. Depth \in Nat /\ Depth' = Depth
  BY EntryFacts DEF Inv, Depth
<1>2. CASE Depth = 1
  <2>1. CpuAt(1)' = cpu' /\ Last = entered[1]
    BY <1>2, <1>1 DEF CpuAt, Last, Depth
  <2> QED BY <2>1, <1>1, <1>2 DEF IsrInv, Due
<1>3. CASE Depth # 1
  <2>1. CpuAt(1)' = CpuAt(1)
    BY <1>3, <1>1 DEF CpuAt
  <2> QED BY <2>1, <1>1, <1>3 DEF IsrInv, Inv, Due
<1> QED BY <1>2, <1>3

\* An event that comes when nothing is in progress brings its lines; one that
\* comes later changes none.
LEMMA IsrEntered ==
  ASSUME Inv, NEW e \in Events, entered' = Append(entered, e), e.cpu = cpu,
         cpu'.eip[1] = "idt_trampoline",
         isr' = IF Depth = 0 THEN e.lines ELSE isr
  PROVE  IsrInv'
<1>1. Depth \in Nat /\ Depth' = Depth + 1
  BY EntryFacts DEF Inv, TypeInv, Depth
<1>2. /\ \A k \in 1 .. Depth : entered'[k] = entered[k]
      /\ \A k \in Nat : k = Depth + 1 => entered'[k] = e
  BY EntryFacts DEF Inv, TypeInv, Depth
<1>3. CASE Depth = 0
  <2>1. Depth' = 1 /\ 1 = Depth + 1
    BY <1>1, <1>3
  <2>2. entered'[1] = e
    BY <2>1, <1>2
  <2>3. CpuAt(1)' = cpu'
    BY <2>1 DEF CpuAt
  <2> QED BY <2>1, <2>2, <2>3, <1>3 DEF IsrInv, Due
<1>4. CASE Depth # 0
  <2>1. 1 \in 1 .. Depth /\ Depth' # 1 /\ Depth' # 0
    BY <1>1, <1>4
  <2>2. entered'[1] = entered[1]
    BY <2>1, <1>2
  <2>3. CpuAt(1)' = entered'[2].cpu
    <3>1. CpuAt(1)' = IF 1 = Depth' THEN cpu' ELSE entered'[1 + 1].cpu
      BY DEF CpuAt
    <3>2. 1 # Depth'
      BY <2>1
    <3>3. CpuAt(1)' = entered'[1 + 1].cpu
      BY <3>1, <3>2
    <3>4. 1 + 1 = 2
      OBVIOUS
    <3> QED BY <3>3, <3>4, Zenon
  <2>4. entered'[2].cpu = CpuAt(1)
    <3>1. CASE Depth = 1
      <4>1. 2 = Depth + 1
        BY <3>1
      <4>2. entered'[2] = e
        BY <4>1, <1>2
      <4> QED BY <4>2, <3>1 DEF CpuAt
    <3>2. CASE Depth # 1
      <4>1. 2 \in 1 .. Depth
        BY <3>2, <1>1, <1>4
      <4>2. entered'[2] = entered[2]
        BY <4>1, <1>2
      <4> QED BY <4>2, <3>2 DEF CpuAt
    <3> QED BY <3>1, <3>2
  <2> QED BY <2>1, <2>2, <2>3, <2>4, <1>4 DEF IsrInv, Inv, Due
<1> QED BY <1>3, <1>4
-----------------------------------------------------------------------------
(***************************************************************************)
(* Events.                                                                 *)
(***************************************************************************)

\* The program runs when no event is in progress.
LEMMA InProgram ==
  ASSUME Inv
  PROVE  /\ cpu.eip[1] = "program" => Depth = 0
         /\ cpu.if = TRUE => cpu.eip[1] = "program"
         /\ Depth = 0 => cpu.eip[1] \in {"program", "pic_init"}
<1>1. Depth \in Nat
  BY EntryFacts DEF Inv
<1>2. CASE Depth = 0
  BY <1>2 DEF Inv, ProgramInv, SetupInv, CpuAt
<1>3. CASE Depth # 0
  <2>1. Depth \in 1 .. Depth /\ CpuAt(Depth) = cpu
    BY <1>1, <1>3 DEF CpuAt
  <2>2. cpu.eip[1] \in Numbered \cup {"idt_trampoline", "iret"} /\ cpu.if = FALSE
    BY <2>1 DEF Inv, FramesInv, Layout
  <2> QED BY <2>2, <1>3 DEF Numbered, Handler, Pushes
<1> QED BY <1>2, <1>3

\* What a way into the table has to show, and one that has no line.
Entry(vector, code, lines) ==
  /\ Enter(vector, code, lines) /\ cpu.eip[1] # "pic_init" /\ chip' = chip
  /\ irr' \subseteq 0 .. 15 /\ masked' \in BOOLEAN
  /\ isr' = IF Depth = 0 THEN lines ELSE isr
  /\ LinesOk(Event(vector, code, lines)) /\ Origin(Event(vector, code, lines))
  /\ Depth # 0 => lines = {} /\ vector < 20

EntryNoLine(vector, code) ==
  /\ Enter(vector, code, {}) /\ cpu.eip[1] # "pic_init"
  /\ irr' = irr /\ isr' = isr /\ chip' = chip /\ masked' \in BOOLEAN
  /\ \/ vector \in Faults \/ vector = NMI_EXCP \/ vector >= 20
     \/ vector = GP_EXCP /\ cpu.ring = 3
  /\ Depth # 0 => vector < 20

\* Every way into the table keeps the invariant.
LEMMA EnterInv ==
  ASSUME Inv, NEW vector \in 0 .. 255, NEW code \in Int, NEW lines \in SUBSET (0 .. 15),
         Entry(vector, code, lines)
  PROVE  Inv'
<1> USE DEF Entry
<1> DEFINE e == Event(vector, code, lines)
<1>1. /\ e \in Events /\ entered' = Append(entered, e)
      /\ stack' \in Seq(Cells) /\ cpu' \in Cpus /\ cpu'.eip[1] = "idt_trampoline"
      /\ Layout(e, cpu', stack')
  BY EnterLayout DEF Inv
<1>2. e.cpu = cpu /\ e.stack = stack /\ e.vector = vector /\ e.lines = lines
  BY DEF Event
<1> HIDE DEF e
<1>3. LinesOk(e) /\ Origin(e)
  BY DEF e
<1>4. entered' \in Seq(Events) /\ ProgramInv' /\ FramesInv' /\ EventInv'
  BY <1>1, <1>2, <1>3, EnterFrames DEF Inv
<1>5. IsrInv'
  BY <1>1, <1>2, IsrEntered
<1>6. SetupInv'
  BY <1>1 DEF Inv, SetupInv
<1>7. TypeInv'
  <2>1. isr' \subseteq 0 .. 15
    BY DEF Inv, TypeInv
  <2>2. events' \in 0 .. MaxEvents
    BY InterruptsAssumption DEF Enter, Inv, TypeInv
  <2> QED BY <2>1, <2>2, <1>1, <1>4 DEF Inv, TypeInv
<1> QED BY <1>4, <1>5, <1>6, <1>7 DEF Inv

\* What an event without a line needs.
LEMMA EnterNoLine ==
  ASSUME Inv, NEW vector \in 0 .. 255, NEW code \in Int, EntryNoLine(vector, code)
  PROVE  Inv'
<1>1. isr' = IF Depth = 0 THEN {} ELSE isr
  BY DEF Inv, IsrInv, EntryNoLine
<1>2. LinesOk(Event(vector, code, {})) /\ Origin(Event(vector, code, {}))
  BY DEF LinesOk, Origin, Event, EntryNoLine
<1>3. irr' \subseteq 0 .. 15 /\ {} \in SUBSET (0 .. 15)
  BY DEF Inv, TypeInv, EntryNoLine
<1>4. Entry(vector, code, {})
  BY <1>1, <1>2, <1>3 DEF Entry, EntryNoLine
<1> QED BY <1>3, <1>4, EnterInv

\* A fault, of the program or of intr_hdlr.
LEMMA FaultInv == ASSUME Inv, NEW vector \in Faults, Fault(vector) PROVE Inv'
<1>1. vector \in 0 .. 255 /\ vector < 20
  BY InterruptsAssumption
<1>2. cpu.eip[1] # "pic_init"
  BY DEF Fault
<1>3. /\ Enter(vector, 0, {}) /\ irr' = irr /\ isr' = isr /\ chip' = chip
      /\ masked' \in BOOLEAN
  BY DEF Fault, Inv, TypeInv
<1>4. EntryNoLine(vector, 0)
  BY <1>1, <1>2, <1>3 DEF EntryNoLine
<1> QED BY <1>1, <1>4, EnterNoLine

\* An int of the program: the event it names, or a fault of ring 3.
LEMMA SoftwareInv == ASSUME Inv, NEW vector \in Software, SoftwareInt(vector) PROVE Inv'
<1>1. vector \in 20 .. 255
  BY InterruptsAssumption
<1>2. cpu.eip[1] = "program"
  BY DEF SoftwareInt
<1>3. Depth = 0
  BY <1>2, InProgram
<1>4. irr' = irr /\ isr' = isr /\ chip' = chip /\ masked' \in BOOLEAN
  BY DEF SoftwareInt, Inv, TypeInv
<1>5. CASE cpu.ring = 0
  <2>1. Enter(vector, 0, {})
    BY <1>5 DEF SoftwareInt
  <2>2. vector \in 0 .. 255 /\ vector >= 20
    BY <1>1
  <2>3. EntryNoLine(vector, 0)
    BY <2>1, <2>2, <1>2, <1>3, <1>4 DEF EntryNoLine
  <2> QED BY <2>2, <2>3, EnterNoLine
<1>6. CASE cpu.ring # 0
  <2>1. Enter(GP_EXCP, 8 * vector + 2, {})
    BY <1>6 DEF SoftwareInt
  <2>2. cpu.ring = 3
    BY <1>6 DEF Inv, TypeInv, Cpus
  <2>3. GP_EXCP \in 0 .. 255 /\ 8 * vector + 2 \in Int
    BY <1>1 DEF GP_EXCP
  <2>4. EntryNoLine(GP_EXCP, 8 * vector + 2)
    BY <2>1, <2>2, <1>2, <1>3, <1>4 DEF EntryNoLine
  <2> QED BY <2>3, <2>4, EnterNoLine
<1> QED BY <1>5, <1>6

\* An NMI may come at any label.
LEMMA NmiInv == ASSUME Inv, Nmi PROVE Inv'
<1>1. NMI_EXCP \in 0 .. 255 /\ NMI_EXCP < 20
  BY DEF NMI_EXCP
<1>2. /\ Enter(NMI_EXCP, 0, {}) /\ irr' = irr /\ isr' = isr /\ chip' = chip
      /\ masked' \in BOOLEAN /\ cpu.eip[1] # "pic_init"
  BY DEF Nmi
<1>3. EntryNoLine(NMI_EXCP, 0)
  BY <1>1, <1>2 DEF EntryNoLine
<1> QED BY <1>1, <1>3, EnterNoLine

\* The vectors at which the two chips deliver, and that no EOI is automatic.
LEMMA Delivered ==
  ASSUME Inv, cpu.if
  PROVE  /\ Depth = 0 /\ isr = {} /\ cpu.eip[1] = "program"
         /\ \A line \in Master : VectorOf(line) \in 32 .. 39
         /\ \A line \in Slave : VectorOf(line) \in 40 .. 47
         /\ \A lines \in SUBSET (0 .. 15) : Served(lines) = lines
<1>1. cpu.eip[1] = "program" /\ Depth = 0
  BY InProgram
<1>2. isr = {}
  BY <1>1 DEF Inv, IsrInv
<1>3. chip[1].base = 32 /\ chip[2].base = 40 /\ \A c \in Chips : chip[c].aeoi = FALSE
  BY <1>1 DEF Inv, SetupInv
<1>4. ASSUME NEW line \in Master PROVE VectorOf(line) \in 32 .. 39
  <2>1. line % 8 \in 0 .. 7 /\ ChipOf(line) = 1
    BY DEF Master, ChipOf
  <2> QED BY <2>1, <1>3 DEF VectorOf
<1>5. ASSUME NEW line \in Slave PROVE VectorOf(line) \in 40 .. 47
  <2>1. line % 8 \in 0 .. 7 /\ ChipOf(line) = 2
    BY DEF Master, Slave, ChipOf
  <2> QED BY <2>1, <1>3 DEF VectorOf
<1>6. ASSUME NEW lines \in SUBSET (0 .. 15) PROVE Served(lines) = lines
  BY <1>3 DEF Served, ChipOf, Chips
<1> QED BY <1>1, <1>2, <1>4, <1>5, <1>6

\* A line is delivered to the program only, and is what the event is about.
LEMMA IrqInv == ASSUME Inv, NEW line \in Lines, Irq(line) PROVE Inv'
<1> DEFINE lines == {line} \cup (IF line \in Slave THEN {Cascade} ELSE {})
<1>1. /\ Depth = 0 /\ isr = {} /\ cpu.eip[1] = "program"
      /\ \A i \in Master : VectorOf(i) \in 32 .. 39
      /\ \A i \in Slave : VectorOf(i) \in 40 .. 47
      /\ \A S \in SUBSET (0 .. 15) : Served(S) = S
  BY Delivered DEF Irq
<1>2. line \in Master \/ line \in Slave
  BY InterruptsAssumption DEF Master, Slave
<1>3. lines \in SUBSET (0 .. 15)
  BY InterruptsAssumption DEF Cascade
<1>4. VectorOf(line) \in 0 .. 255
  BY <1>1, <1>2
<1>5. /\ irr' \subseteq 0 .. 15 /\ isr' = lines /\ chip' = chip /\ masked' \in BOOLEAN
      /\ Enter(VectorOf(line), 0, lines)
  BY <1>1, <1>3 DEF Irq, Inv, TypeInv
<1>6. LinesOk(Event(VectorOf(line), 0, lines))
  BY <1>1, <1>2 DEF LinesOk, Event, Master, Slave
<1>7. Origin(Event(VectorOf(line), 0, lines))
  BY <1>1, <1>2 DEF Origin, Event
<1> HIDE DEF lines
<1>8. isr' = IF Depth = 0 THEN lines ELSE isr
  BY <1>1, <1>5
<1>9. cpu.eip[1] # "pic_init" /\ (Depth # 0 => lines = {} /\ VectorOf(line) < 20)
  BY <1>1
<1>10. PICK vector \in 0 .. 255 : vector = VectorOf(line)
  BY <1>4
<1>11. Enter(vector, 0, lines) /\ LinesOk(Event(vector, 0, lines)) /\ Origin(Event(vector, 0, lines))
  BY <1>5, <1>6, <1>7, <1>10
<1>12. Entry(vector, 0, lines)
  BY <1>5, <1>8, <1>9, <1>10, <1>11 DEF Entry
<1> QED BY <1>3, <1>12, EnterInv

\* A spurious interrupt ends at the vector of a chip's lowest line.
LEMMA SpuriousInv == ASSUME Inv, NEW line \in Lines, Spurious(line) PROVE Inv'
<1>1. /\ Depth = 0 /\ isr = {} /\ cpu.eip[1] # "pic_init"
      /\ \A i \in Master : VectorOf(i) \in 32 .. 39
      /\ \A i \in Slave : VectorOf(i) \in 40 .. 47
      /\ \A S \in SUBSET (0 .. 15) : Served(S) = S
  BY Delivered DEF Spurious
<1>2. VectorOf(7) \in 32 .. 39 /\ VectorOf(15) \in 40 .. 47
  BY <1>1 DEF Master, Slave
<1>3. irr' \subseteq 0 .. 15 /\ chip' = chip /\ masked' \in BOOLEAN
  BY DEF Spurious, Inv, TypeInv
<1>4. CASE line \in Master
  <2>1. PICK vector \in 32 .. 39 : vector = VectorOf(7)
    BY <1>2
  <2>2. Enter(vector, 0, {}) /\ isr' = isr
    BY <2>1, <1>4 DEF Spurious
  <2>3. vector \in 0 .. 255 /\ vector >= 20
    OBVIOUS
  <2>4. irr' \in SUBSET (0 .. 15) /\ {} \in SUBSET (0 .. 15)
    BY <1>3
  <2>5. LinesOk(Event(vector, 0, {})) /\ Origin(Event(vector, 0, {}))
    BY <2>3 DEF LinesOk, Origin, Event
  <2>6. isr' = IF Depth = 0 THEN {} ELSE isr
    BY <2>2, <1>1
  <2>7. irr' \subseteq 0 .. 15 /\ chip' = chip /\ masked' \in BOOLEAN /\ cpu.eip[1] # "pic_init"
        /\ Depth = 0
    BY <1>1, <1>3
  <2>8. Entry(vector, 0, {})
    BY <2>2, <2>5, <2>6, <2>7 DEF Entry
  <2> QED BY <2>3, <2>4, <2>8, EnterInv
<1>5. CASE line \notin Master
  <2> DEFINE lines == {Cascade}
  <2>1. PICK vector \in 40 .. 47 : vector = VectorOf(15)
    BY <1>2
  <2>2. lines \in SUBSET (0 .. 15)
    BY DEF Cascade
  <2>3. Enter(vector, 0, lines) /\ isr' = lines
    BY <2>1, <2>2, <1>1, <1>5 DEF Spurious
  <2>4. vector \in 0 .. 255 /\ vector >= 20
    OBVIOUS
  <2>5. LinesOk(Event(vector, 0, lines)) /\ Origin(Event(vector, 0, lines))
    BY <2>4 DEF LinesOk, Origin, Event
  <2> HIDE DEF lines
  <2>6. isr' = IF Depth = 0 THEN lines ELSE isr
    BY <2>3, <1>1
  <2>7. irr' \subseteq 0 .. 15 /\ chip' = chip /\ masked' \in BOOLEAN /\ cpu.eip[1] # "pic_init"
        /\ Depth = 0
    BY <1>1, <1>3
  <2>8. Entry(vector, 0, lines)
    BY <2>3, <2>5, <2>6, <2>7 DEF Entry
  <2> QED BY <2>2, <2>4, <2>8, EnterInv
<1> QED BY <1>4, <1>5
-----------------------------------------------------------------------------
(***************************************************************************)
(* pic_init: word k goes to chip 1 if k is odd, to chip 2 if it is even.   *)
(***************************************************************************)

\* A chip with another expectation, and another flag or number, is a chip.
LEMMA ChipFlags ==
  ASSUME NEW r \in ChipType, NEW x \in Expectations, NEW b \in BOOLEAN
  PROVE  /\ [r EXCEPT !.expects = x, !.icw4 = b] \in ChipType
         /\ [r EXCEPT !.aeoi = b, !.expects = x] \in ChipType
<1>1. \A q \in ChipType :
        /\ [q EXCEPT !.expects = x] \in ChipType
        /\ [q EXCEPT !.icw4 = b] \in ChipType
        /\ [q EXCEPT !.aeoi = b] \in ChipType
  BY DEF ChipType
<1>2. /\ [r EXCEPT !.expects = x, !.icw4 = b] = [[r EXCEPT !.expects = x] EXCEPT !.icw4 = b]
      /\ [r EXCEPT !.aeoi = b, !.expects = x] = [[r EXCEPT !.aeoi = b] EXCEPT !.expects = x]
  OBVIOUS
<1>3. [r EXCEPT !.expects = x] \in ChipType /\ [r EXCEPT !.aeoi = b] \in ChipType
  BY <1>1
<1>4. /\ [[r EXCEPT !.expects = x] EXCEPT !.icw4 = b] \in ChipType
      /\ [[r EXCEPT !.aeoi = b] EXCEPT !.expects = x] \in ChipType
  BY <1>1, <1>3
<1> QED BY <1>2, <1>4

\* (the same, of its base)
LEMMA ChipBase ==
  ASSUME NEW r \in ChipType, NEW x \in Expectations, NEW base \in 0 .. 248
  PROVE  [r EXCEPT !.base = base, !.expects = x] \in ChipType
<1>1. \A q \in ChipType :
        [q EXCEPT !.expects = x] \in ChipType /\ [q EXCEPT !.base = base] \in ChipType
  BY DEF ChipType
<1>2. [r EXCEPT !.base = base, !.expects = x]
        = [[r EXCEPT !.base = base] EXCEPT !.expects = x]
  OBVIOUS
<1> QED BY <1>1, <1>2

\* (the same, of its place in the cascade)
LEMMA ChipCascade ==
  ASSUME NEW r \in ChipType, NEW x \in Expectations, NEW cascade \in 0 .. 255
  PROVE  [r EXCEPT !.cascade = cascade, !.expects = x] \in ChipType
<1>1. \A q \in ChipType :
        [q EXCEPT !.expects = x] \in ChipType /\ [q EXCEPT !.cascade = cascade] \in ChipType
  BY DEF ChipType
<1>2. [r EXCEPT !.cascade = cascade, !.expects = x]
        = [[r EXCEPT !.cascade = cascade] EXCEPT !.expects = x]
  OBVIOUS
<1> QED BY <1>1, <1>2

\* A word leaves a chip as the next one expects it.
LEMMA WordSets ==
  ASSUME Inv, SetupPic, cpu.eip[1] = "pic_init",
         NEW k \in 1 .. 8, cpu.eip[2] = k
  PROVE  /\ chip' \in [Chips -> ChipType]
         /\ irr' \subseteq irr /\ isr' \subseteq isr
         /\ \A c \in Chips : chip'[c].aeoi = FALSE
         /\ ChipSet(1, (k + 1) \div 2, 32, 4)'
         /\ ChipSet(2, k \div 2, 40, 2)'
<1>1. /\ chip \in [Chips -> ChipType] /\ \A c \in Chips : chip[c].aeoi = FALSE
      /\ ChipSet(1, k \div 2, 32, 4) /\ ChipSet(2, (k - 1) \div 2, 40, 2)
  BY DEF Inv, TypeInv, SetupInv
<1>2. WriteWord(k)
  BY DEF SetupPic
<1>3. CASE k = 1
  <2>1. Icw1(1, 17)
    BY <1>2, <1>3 DEF WriteWord, Words
  <2>3. Bit(17, 1) = TRUE
    BY DEF Bit
  <2>2. chip' = [chip EXCEPT ![1].expects = "icw2", ![1].icw4 = TRUE]
        /\ irr' \subseteq irr /\ isr' \subseteq isr
    BY <2>1, <2>3 DEF Icw1
  <2>5. chip' \in [Chips -> ChipType]
    <3>1. chip[1] \in ChipType
      BY <1>1 DEF Chips
    <3>2. [chip[1] EXCEPT !.expects = "icw2", !.icw4 = TRUE] \in ChipType
      BY <3>1, ChipFlags DEF Expectations
    <3>3. chip' = [chip EXCEPT ![1] = [chip[1] EXCEPT !.expects = "icw2", !.icw4 = TRUE]]
      BY <2>2, <1>1
    <3> QED BY <1>1, <3>2, <3>3
  <2>6. \A d \in Chips : chip'[d].aeoi = FALSE
    BY <1>1, <2>2 DEF ChipType, Chips
  <2>7. (k + 1) \div 2 = 1 /\ k \div 2 = 0 /\ (k - 1) \div 2 = 0
    BY <1>3
  <2>8. ChipSet(1, (k + 1) \div 2, 32, 4)'
    BY <1>1, <2>2, <2>7 DEF ChipSet, ChipType, Chips
  <2>9. ChipSet(2, k \div 2, 40, 2)'
    BY <1>1, <2>2, <2>7 DEF ChipSet, ChipType, Chips
  <2> QED BY <2>2, <2>5, <2>6, <2>8, <2>9
<1>4. CASE k = 2
  <2>1. Icw1(2, 17)
    BY <1>2, <1>4 DEF WriteWord, Words
  <2>3. Bit(17, 1) = TRUE
    BY DEF Bit
  <2>2. chip' = [chip EXCEPT ![2].expects = "icw2", ![2].icw4 = TRUE]
        /\ irr' \subseteq irr /\ isr' \subseteq isr
    BY <2>1, <2>3 DEF Icw1
  <2>5. chip' \in [Chips -> ChipType]
    <3>1. chip[2] \in ChipType
      BY <1>1 DEF Chips
    <3>2. [chip[2] EXCEPT !.expects = "icw2", !.icw4 = TRUE] \in ChipType
      BY <3>1, ChipFlags DEF Expectations
    <3>3. chip' = [chip EXCEPT ![2] = [chip[2] EXCEPT !.expects = "icw2", !.icw4 = TRUE]]
      BY <2>2, <1>1
    <3> QED BY <1>1, <3>2, <3>3
  <2>6. \A d \in Chips : chip'[d].aeoi = FALSE
    BY <1>1, <2>2 DEF ChipType, Chips
  <2>7. (k + 1) \div 2 = 1 /\ k \div 2 = 1 /\ (k - 1) \div 2 = 0
    BY <1>4
  <2>8. ChipSet(1, (k + 1) \div 2, 32, 4)'
    BY <1>1, <2>2, <2>7 DEF ChipSet, ChipType, Chips
  <2>9. ChipSet(2, k \div 2, 40, 2)'
    BY <1>1, <2>2, <2>7 DEF ChipSet, ChipType, Chips
  <2> QED BY <2>2, <2>5, <2>6, <2>8, <2>9
<1>5. CASE k = 3
  <2>1. OddPort(1, 32) /\ chip[1].expects = "icw2"
    BY <1>1, <1>2, <1>5 DEF WriteWord, Words, ChipSet
  <2>2. chip' = [chip EXCEPT ![1].base = 32, ![1].expects = "icw3"]
        /\ irr' = irr /\ isr' = isr
    BY <2>1 DEF OddPort
  <2>3. (k + 1) \div 2 = 2 /\ k \div 2 = 1 /\ (k - 1) \div 2 = 1
    BY <1>5
  <2>4. chip' \in [Chips -> ChipType]
    <3>1. chip[1] \in ChipType
      BY <1>1 DEF Chips
    <3>2. 32 \in 0 .. 248 /\ "icw3" \in Expectations
      BY DEF Expectations
    <3>3. [chip[1] EXCEPT !.base = 32, !.expects = "icw3"] \in ChipType
      BY <3>1, <3>2, ChipBase
    <3>4. chip' = [chip EXCEPT ![1] = [chip[1] EXCEPT !.base = 32, !.expects = "icw3"]]
      BY <2>2, <1>1
    <3> QED BY <1>1, <3>3, <3>4
  <2>5. \A d \in Chips : chip'[d].aeoi = FALSE
    BY <1>1, <2>2 DEF ChipType, Chips
  <2>6. ChipSet(1, (k + 1) \div 2, 32, 4)'
    BY <1>1, <2>2, <2>3 DEF ChipSet, ChipType, Chips
  <2>7. ChipSet(2, k \div 2, 40, 2)'
    BY <1>1, <2>2, <2>3 DEF ChipSet, ChipType, Chips
  <2>8. irr' \subseteq irr /\ isr' \subseteq isr
    BY <2>2
  <2> QED BY <2>4, <2>5, <2>6, <2>7, <2>8, Zenon
<1>6. CASE k = 4
  <2>1. OddPort(2, 40) /\ chip[2].expects = "icw2"
    BY <1>1, <1>2, <1>6 DEF WriteWord, Words, ChipSet
  <2>2. chip' = [chip EXCEPT ![2].base = 40, ![2].expects = "icw3"]
        /\ irr' = irr /\ isr' = isr
    BY <2>1 DEF OddPort
  <2>3. (k + 1) \div 2 = 2 /\ k \div 2 = 2 /\ (k - 1) \div 2 = 1
    BY <1>6
  <2>4. chip' \in [Chips -> ChipType]
    <3>1. chip[2] \in ChipType
      BY <1>1 DEF Chips
    <3>2. 40 \in 0 .. 248 /\ "icw3" \in Expectations
      BY DEF Expectations
    <3>3. [chip[2] EXCEPT !.base = 40, !.expects = "icw3"] \in ChipType
      BY <3>1, <3>2, ChipBase
    <3>4. chip' = [chip EXCEPT ![2] = [chip[2] EXCEPT !.base = 40, !.expects = "icw3"]]
      BY <2>2, <1>1
    <3> QED BY <1>1, <3>3, <3>4
  <2>5. \A d \in Chips : chip'[d].aeoi = FALSE
    BY <1>1, <2>2 DEF ChipType, Chips
  <2>6. ChipSet(1, (k + 1) \div 2, 32, 4)'
    BY <1>1, <2>2, <2>3 DEF ChipSet, ChipType, Chips
  <2>7. ChipSet(2, k \div 2, 40, 2)'
    BY <1>1, <2>2, <2>3 DEF ChipSet, ChipType, Chips
  <2>8. irr' \subseteq irr /\ isr' \subseteq isr
    BY <2>2
  <2> QED BY <2>4, <2>5, <2>6, <2>7, <2>8, Zenon
<1>7. CASE k = 5
  <2>1. OddPort(1, 4) /\ chip[1].expects = "icw3" /\ chip[1].icw4 = TRUE
    BY <1>1, <1>2, <1>7 DEF WriteWord, Words, ChipSet
  <2>2. chip' = [chip EXCEPT ![1].cascade = 4, ![1].expects = "icw4"]
        /\ irr' = irr /\ isr' = isr
    BY <2>1 DEF OddPort
  <2>3. (k + 1) \div 2 = 3 /\ k \div 2 = 2 /\ (k - 1) \div 2 = 2
    BY <1>7
  <2>4. chip' \in [Chips -> ChipType]
    <3>1. chip[1] \in ChipType
      BY <1>1 DEF Chips
    <3>2. 4 \in 0 .. 255 /\ "icw4" \in Expectations
      BY DEF Expectations
    <3>3. [chip[1] EXCEPT !.cascade = 4, !.expects = "icw4"] \in ChipType
      BY <3>1, <3>2, ChipCascade
    <3>4. chip' = [chip EXCEPT ![1] = [chip[1] EXCEPT !.cascade = 4, !.expects = "icw4"]]
      BY <2>2, <1>1
    <3> QED BY <1>1, <3>3, <3>4
  <2>5. \A d \in Chips : chip'[d].aeoi = FALSE
    BY <1>1, <2>2 DEF ChipType, Chips
  <2>6. ChipSet(1, (k + 1) \div 2, 32, 4)'
    BY <1>1, <2>2, <2>3 DEF ChipSet, ChipType, Chips
  <2>7. ChipSet(2, k \div 2, 40, 2)'
    BY <1>1, <2>2, <2>3 DEF ChipSet, ChipType, Chips
  <2>8. irr' \subseteq irr /\ isr' \subseteq isr
    BY <2>2
  <2> QED BY <2>4, <2>5, <2>6, <2>7, <2>8, Zenon
<1>8. CASE k = 6
  <2>1. OddPort(2, 2) /\ chip[2].expects = "icw3" /\ chip[2].icw4 = TRUE
    BY <1>1, <1>2, <1>8 DEF WriteWord, Words, ChipSet
  <2>2. chip' = [chip EXCEPT ![2].cascade = 2, ![2].expects = "icw4"]
        /\ irr' = irr /\ isr' = isr
    BY <2>1 DEF OddPort
  <2>3. (k + 1) \div 2 = 3 /\ k \div 2 = 3 /\ (k - 1) \div 2 = 2
    BY <1>8
  <2>4. chip' \in [Chips -> ChipType]
    <3>1. chip[2] \in ChipType
      BY <1>1 DEF Chips
    <3>2. 2 \in 0 .. 255 /\ "icw4" \in Expectations
      BY DEF Expectations
    <3>3. [chip[2] EXCEPT !.cascade = 2, !.expects = "icw4"] \in ChipType
      BY <3>1, <3>2, ChipCascade
    <3>4. chip' = [chip EXCEPT ![2] = [chip[2] EXCEPT !.cascade = 2, !.expects = "icw4"]]
      BY <2>2, <1>1
    <3> QED BY <1>1, <3>3, <3>4
  <2>5. \A d \in Chips : chip'[d].aeoi = FALSE
    BY <1>1, <2>2 DEF ChipType, Chips
  <2>6. ChipSet(1, (k + 1) \div 2, 32, 4)'
    BY <1>1, <2>2, <2>3 DEF ChipSet, ChipType, Chips
  <2>7. ChipSet(2, k \div 2, 40, 2)'
    BY <1>1, <2>2, <2>3 DEF ChipSet, ChipType, Chips
  <2>8. irr' \subseteq irr /\ isr' \subseteq isr
    BY <2>2
  <2> QED BY <2>4, <2>5, <2>6, <2>7, <2>8, Zenon
<1>9. Bit(1, 2) = FALSE
  BY DEF Bit
<1>10. CASE k = 7
  <2>1. OddPort(1, 1) /\ chip[1].expects = "icw4"
    BY <1>1, <1>2, <1>10 DEF WriteWord, Words, ChipSet
  <2>2. chip' = [chip EXCEPT ![1].aeoi = FALSE, ![1].expects = "ocw"]
        /\ irr' = irr /\ isr' = isr
    BY <2>1, <1>9 DEF OddPort
  <2>3. (k + 1) \div 2 = 4 /\ k \div 2 = 3 /\ (k - 1) \div 2 = 3
    BY <1>10
  <2>4. chip' \in [Chips -> ChipType]
    <3>1. chip[1] \in ChipType
      BY <1>1 DEF Chips
    <3>2. [chip[1] EXCEPT !.aeoi = FALSE, !.expects = "ocw"] \in ChipType
      BY <3>1, ChipFlags DEF Expectations
    <3>3. chip' = [chip EXCEPT ![1] = [chip[1] EXCEPT !.aeoi = FALSE, !.expects = "ocw"]]
      BY <2>2, <1>1
    <3> QED BY <1>1, <3>2, <3>3
  <2>5. \A d \in Chips : chip'[d].aeoi = FALSE
    BY <1>1, <2>2 DEF ChipType, Chips
  <2>6. ChipSet(1, (k + 1) \div 2, 32, 4)'
    BY <1>1, <2>2, <2>3 DEF ChipSet, ChipType, Chips
  <2>7. ChipSet(2, k \div 2, 40, 2)'
    BY <1>1, <2>2, <2>3 DEF ChipSet, ChipType, Chips
  <2>8. irr' \subseteq irr /\ isr' \subseteq isr
    BY <2>2
  <2> QED BY <2>4, <2>5, <2>6, <2>7, <2>8, Zenon
<1>11. CASE k = 8
  <2>1. OddPort(2, 1) /\ chip[2].expects = "icw4"
    BY <1>1, <1>2, <1>11 DEF WriteWord, Words, ChipSet
  <2>2. chip' = [chip EXCEPT ![2].aeoi = FALSE, ![2].expects = "ocw"]
        /\ irr' = irr /\ isr' = isr
    BY <2>1, <1>9 DEF OddPort
  <2>3. (k + 1) \div 2 = 4 /\ k \div 2 = 4 /\ (k - 1) \div 2 = 3
    BY <1>11
  <2>4. chip' \in [Chips -> ChipType]
    <3>1. chip[2] \in ChipType
      BY <1>1 DEF Chips
    <3>2. [chip[2] EXCEPT !.aeoi = FALSE, !.expects = "ocw"] \in ChipType
      BY <3>1, ChipFlags DEF Expectations
    <3>3. chip' = [chip EXCEPT ![2] = [chip[2] EXCEPT !.aeoi = FALSE, !.expects = "ocw"]]
      BY <2>2, <1>1
    <3> QED BY <1>1, <3>2, <3>3
  <2>5. \A d \in Chips : chip'[d].aeoi = FALSE
    BY <1>1, <2>2 DEF ChipType, Chips
  <2>6. ChipSet(1, (k + 1) \div 2, 32, 4)'
    BY <1>1, <2>2, <2>3 DEF ChipSet, ChipType, Chips
  <2>7. ChipSet(2, k \div 2, 40, 2)'
    BY <1>1, <2>2, <2>3 DEF ChipSet, ChipType, Chips
  <2>8. irr' \subseteq irr /\ isr' \subseteq isr
    BY <2>2
  <2> QED BY <2>4, <2>5, <2>6, <2>7, <2>8, Zenon
<1>12. k = 1 \/ k = 2 \/ k = 3 \/ k = 4 \/ k = 5 \/ k = 6 \/ k = 7 \/ k = 8
  OBVIOUS
<1> QED BY <1>3, <1>4, <1>5, <1>6, <1>7, <1>8, <1>10, <1>11, <1>12, Zenon

\* pic_init keeps the invariant, and leaves the chips at vectors 32 and 40.
LEMMA SetupPicInv == ASSUME Inv, SetupPic PROVE Inv'
<1>1. cpu.eip[1] = "pic_init"
  BY DEF SetupPic
<1>2. PICK k \in 1 .. 8 : cpu.eip[2] = k
  BY <1>1 DEF Inv, SetupInv
<1>3. /\ chip' \in [Chips -> ChipType] /\ irr' \subseteq irr /\ isr' \subseteq isr
      /\ \A c \in Chips : chip'[c].aeoi = FALSE
      /\ ChipSet(1, (k + 1) \div 2, 32, 4)' /\ ChipSet(2, k \div 2, 40, 2)'
  BY <1>1, <1>2, WordSets
<1>4. /\ entered = << >> /\ entered' = << >> /\ stack' = stack /\ masked' = masked
      /\ events' = events /\ Depth = 0 /\ Depth' = 0
      /\ cpu \in Cpus /\ cpu.if = FALSE
      /\ Len(Words) = 8
  BY <1>1 DEF SetupPic, Inv, TypeInv, SetupInv, Depth, Words
<1>5. isr' = {}
  BY <1>3, <1>4 DEF Inv, IsrInv
<1>6. stack = << >> /\ cpu.eax \in {Word("eax", 0), Word("eax", 1)}
      /\ cpu.gprs \in {Word("gprs", 0), Word("gprs", 1)}
  BY <1>4 DEF Inv, ProgramInv, StackAt, CpuAt
<1>7. CASE k < 8
  <2>1. cpu' = [cpu EXCEPT !.eip = <<"pic_init", k + 1>>]
    BY <1>2, <1>4, <1>7 DEF SetupPic
  <2>2. /\ cpu'.eip = <<"pic_init", k + 1>> /\ cpu'.if = FALSE
        /\ cpu'.eax = cpu.eax /\ cpu'.gprs = cpu.gprs /\ cpu' \in Cpus
    <3>1. <<"pic_init", k + 1>> \in Eips
      BY <1>7 DEF Eips
    <3> QED BY <2>1, <1>4, <3>1 DEF Cpus
  <2>3. (k + 1) - 1 = k /\ k + 1 \in 1 .. 8 /\ cpu'.eip[1] = "pic_init" /\ cpu'.eip[2] = k + 1
    BY <2>2, <1>7
  <2>4. SetupInv'
    BY <1>3, <1>4, <2>2, <2>3 DEF SetupInv
  <2>5. ProgramInv'
    BY <1>4, <1>6, <2>2, <2>3 DEF ProgramInv, CpuAt, StackAt
  <2>6. TypeInv'
    BY <1>3, <1>4, <2>2 DEF Inv, TypeInv
  <2> QED BY <1>4, <1>5, <2>4, <2>5, <2>6 DEF Inv, FramesInv, EventInv, IsrInv
<1>8. CASE k = 8
  <2>1. cpu' \in ProgramCpu
    BY <1>2, <1>4, <1>8 DEF SetupPic
  <2>2. /\ cpu'.eip = <<"program">> /\ cpu'.eip[1] = "program" /\ cpu'.eip \in Eips
        /\ cpu'.eax = Word("eax", 0) /\ cpu'.gprs = Word("gprs", 0)
    BY <2>1 DEF ProgramCpu, Eips, Labels
  <2>3. cpu' \in Cpus
    BY <2>1, <2>2 DEF ProgramCpu, Cpus
  <2>4. chip'[1].base = 32 /\ chip'[2].base = 40
    BY <1>3, <1>8 DEF ChipSet
  <2>5. SetupInv'
    BY <1>3, <2>2, <2>4 DEF SetupInv
  <2>6. ProgramInv'
    BY <1>4, <1>6, <2>2 DEF ProgramInv, CpuAt, StackAt
  <2>7. TypeInv'
    BY <1>3, <1>4, <2>3 DEF Inv, TypeInv
  <2> QED BY <1>4, <1>5, <2>5, <2>6, <2>7 DEF Inv, FramesInv, EventInv, IsrInv
<1> QED BY <1>7, <1>8
-----------------------------------------------------------------------------
(***************************************************************************)
(* The stubs and the handlers.                                             *)
(***************************************************************************)
\* What a step of the stubs or of the handlers has to show.
LEMMA KernelStep ==
  ASSUME Inv, cpu.eip[1] \notin {"program", "pic_init"},
         chip' = chip, irr' = irr, isr' \subseteq 0 .. 15, masked' = masked,
         events' = events, entered' = entered, cpu' \in Cpus, stack' \in Seq(Cells),
         Layout(Last, cpu', stack'),
         Depth = 1 => isr' = Due(Last, cpu'.eip[1]),
         Depth # 1 => isr' = isr
  PROVE  Inv'
<1>1. Depth # 0
  BY InKernel
<1>2. cpu'.eip[1] # "pic_init"
  BY DEF Layout, Numbered, Handler, Pushes
<1>3. ProgramInv' /\ FramesInv' /\ EventInv'
  BY <1>1, TopStep DEF Inv
<1>4. IsrInv'
  BY <1>1, IsrKept
<1>5. SetupInv'
  BY <1>2 DEF Inv, SetupInv
<1>6. TypeInv'
  BY DEF Inv, TypeInv
<1> QED BY <1>3, <1>4, <1>5, <1>6 DEF Inv

\* One word more on the stack.
LEMMA AppendWord ==
  ASSUME NEW s \in Seq(Cells), NEW w \in Cells
  PROVE  /\ Append(s, w) \in Seq(Cells) /\ Len(Append(s, w)) = Len(s) + 1
         /\ \A i \in 1 .. Len(s) : Append(s, w)[i] = s[i]
         /\ Append(s, w)[Len(s) + 1] = w
OBVIOUS

\* What the processor pushed is under every label's words.
LEMMA PushedKept ==
  ASSUME NEW e \in Events, NEW s \in Seq(Cells), NEW t, Pushed(e, s),
         Frame(e) <= Len(s), \A i \in 1 .. Frame(e) : t[i] = s[i]
  PROVE  Pushed(e, t)
<1>1. Len(e.stack) \in Nat /\ Frame(e) \in Nat /\ Len(e.stack) + 3 <= Frame(e)
  BY LenProperties DEF Events, Frame
<1>2. /\ \A i \in 1 .. Len(e.stack) : i \in 1 .. Frame(e)
      /\ Frame(e) \in 1 .. Frame(e) /\ Frame(e) - 1 \in 1 .. Frame(e)
      /\ Frame(e) - 2 \in 1 .. Frame(e)
  BY <1>1
<1> QED BY <1>2 DEF Pushed

\* A frame is the stack that the event found and three words or five.
LEMMA FrameType ==
  ASSUME NEW e \in Events
  PROVE  /\ Frame(e) \in Nat /\ Len(e.stack) \in Nat /\ Frame(e) >= 3
         /\ Frame(e) = Len(e.stack) + (IF e.cpu.ring = 3 THEN 5 ELSE 3)
BY LenProperties DEF Events, Frame

\* A jump changes the processor's label.
LEMMA CpuGoto ==
  ASSUME NEW c \in Cpus, NEW label \in Labels, NEW d, d = [c EXCEPT !.eip = <<label>>]
  PROVE  /\ d \in Cpus /\ d.eip[1] = label /\ d.eax = c.eax /\ d.gprs = c.gprs
         /\ d.ring = c.ring /\ d.if = c.if
<1>1. <<label>> \in Eips /\ <<label>>[1] = label
  BY LabelTypes
<1> QED BY <1>1 DEF Cpus

\* A stub evens out the error code, numbers the event, and jumps.
LEMMA TrampolineInv == ASSUME Inv, NEW vector \in 0 .. 255, Trampoline(vector) PROVE Inv'
<1>1. cpu.eip = <<"idt_trampoline", vector>> /\ cpu.eip[1] = "idt_trampoline"
  BY DEF Trampoline
<1>2. /\ Depth \in Nat \ {0} /\ Last \in Events /\ Layout(Last, cpu, stack)
      /\ LinesOk(Last) /\ (Depth # 1 => Last.lines = {} /\ Last.vector < 20)
  BY <1>1, InKernel
<1>3. /\ Last.vector = vector /\ cpu.eax = Last.cpu.eax /\ cpu.gprs = Last.cpu.gprs
      /\ cpu.ring = 0 /\ cpu.if = FALSE /\ Pushed(Last, stack)
      /\ IF vector \in WithCode
         THEN Len(stack) = Frame(Last) + 1 /\ stack[Frame(Last) + 1] = Word("err", Last.err)
         ELSE Len(stack) = Frame(Last) /\ Last.err = NoCode
  <2>1. <<"idt_trampoline", vector>> = <<"idt_trampoline", Last.vector>>
    BY <1>1, <1>2 DEF Layout
  <2>2. vector = Last.vector
    BY <2>1
  <2> QED BY <1>1, <1>2, <2>2 DEF Layout, Stub, Handler
<1>4. Frame(Last) \in Nat /\ stack \in Seq(Cells) /\ cpu \in Cpus /\ Len(stack) \in Nat
  BY <1>2, FrameType, LenProperties DEF Inv, TypeInv
<1>5. /\ chip' = chip /\ irr' = irr /\ isr' = isr /\ masked' = masked
      /\ events' = events /\ entered' = entered /\ isr' \subseteq 0 .. 15
  BY DEF Trampoline, Inv, TypeInv
<1>6. Depth = 1 => isr = Last.lines
  BY <1>1, IsrNow DEF Due
<1>7. CASE vector \in 20 .. 31
  <2>1. cpu' = [cpu EXCEPT !.eip = <<"iret">>] /\ stack' = stack
    BY <1>7 DEF Trampoline, Goto
  <2>2. /\ cpu' \in Cpus /\ cpu'.eip[1] = "iret" /\ cpu'.eax = cpu.eax
        /\ cpu'.gprs = cpu.gprs /\ cpu'.ring = 0 /\ cpu'.if = FALSE
    <3>1. "iret" \in Labels
      BY DEF Labels
    <3>2. /\ cpu' \in Cpus /\ cpu'.eip[1] = "iret" /\ cpu'.eax = cpu.eax
          /\ cpu'.gprs = cpu.gprs /\ cpu'.ring = cpu.ring /\ cpu'.if = cpu.if
      BY <2>1, <3>1, <1>4, CpuGoto
    <3> QED BY <3>2, <1>3, Zenon
  <2>3. vector \notin WithCode
    BY <1>7 DEF WithCode
  <2>4. Layout(Last, cpu', stack')
    BY <2>1, <2>2, <2>3, <1>3 DEF Layout, Stub, Route, Numbered, Handler, Pushes
  <2>5. Last.lines = {}
    BY <1>2, <1>3, <1>7 DEF LinesOk
  <2> QED BY <2>1, <2>2, <2>4, <2>5, <1>1, <1>4, <1>5, <1>6, KernelStep DEF Due
<1>8. CASE vector \notin 20 .. 31
  <2> DEFINE A == IF vector \in Padded THEN <<Word("err", NoCode)>> ELSE << >>
             B == <<Word("nr", vector)>>
             s1 == stack \o A
  <2>1. stack' = s1 \o B /\ cpu' = [cpu EXCEPT !.eip = <<Target(vector)>>]
    <3>1. stack' = s1 \o B
      BY <1>8 DEF Trampoline
    <3>2. Goto(Target(vector))
      BY <1>8 DEF Trampoline
    <3> QED BY <3>1, <3>2 DEF Goto
  <2>2. Word("err", NoCode) \in Cells /\ Word("nr", vector) \in Cells
    <3>1. NoCode \in Values /\ vector \in Values
      BY WordsAreCells DEF NoCode
    <3> QED BY <3>1, WordsAreCells DEF Names
  <2>3. A \in Seq(Cells) /\ Len(A) = (IF vector \in Padded THEN 1 ELSE 0)
        /\ (vector \in Padded => A[1] = Word("err", NoCode))
    BY <2>2
  <2>4. B \in Seq(Cells) /\ Len(B) = 1 /\ B[1] = Word("nr", vector)
    BY <2>2
  <2> HIDE DEF A, B
  <2>5. /\ s1 \in Seq(Cells) /\ Len(s1) = Len(stack) + Len(A)
        /\ \A i \in 1 .. Len(stack) : s1[i] = stack[i]
        /\ \A i \in 1 .. Len(A) : s1[Len(stack) + i] = A[i]
    BY <1>4, <2>3, PushProperties
  <2> HIDE DEF s1
  <2>6. /\ stack' \in Seq(Cells) /\ Len(stack') = Len(s1) + Len(B)
        /\ \A i \in 1 .. Len(s1) : stack'[i] = s1[i]
        /\ \A i \in 1 .. Len(B) : stack'[Len(s1) + i] = B[i]
    BY <2>1, <2>4, <2>5, PushProperties
  <2>7. vector \in Padded <=> vector \notin WithCode
    BY <1>8 DEF Padded, WithCode
  <2>8. Len(s1) = Frame(Last) + 1 /\ s1[Frame(Last) + 1] = Word("err", Last.err)
    <3>1. CASE vector \in WithCode
      <4>1. Len(A) = 0 /\ Len(stack) = Frame(Last) + 1
        BY <3>1, <2>3, <2>7, <1>3
      <4>2. Frame(Last) + 1 \in 1 .. Len(stack)
        BY <4>1, <1>4
      <4> QED BY <3>1, <4>1, <4>2, <2>5, <1>3, <1>4
    <3>2. CASE vector \notin WithCode
      <4>1. Len(A) = 1 /\ A[1] = Word("err", Last.err) /\ Len(stack) = Frame(Last)
        BY <3>2, <2>3, <2>7, <1>3
      <4>2. 1 \in 1 .. Len(A)
        BY <4>1
      <4>3. s1[Len(stack) + 1] = A[1]
        BY <4>2, <2>5
      <4> QED BY <4>1, <4>3, <2>5, <1>4
    <3> QED BY <3>1, <3>2
  <2>9. /\ Len(stack') = Frame(Last) + 2
        /\ stack'[Frame(Last) + 1] = Word("err", Last.err)
        /\ stack'[Frame(Last) + 2] = Word("nr", Last.vector)
    <3>1. Len(stack') = Frame(Last) + 2
      BY <2>4, <2>6, <2>8, <1>4
    <3>2. Frame(Last) + 1 \in 1 .. Len(s1)
      BY <2>8, <1>4
    <3>3. 1 \in 1 .. Len(B) /\ Len(s1) + 1 = Frame(Last) + 2
      BY <2>4, <2>8, <1>4
    <3>4. stack'[Len(s1) + 1] = B[1]
      BY <3>3, <2>6
    <3> QED BY <3>1, <3>2, <3>3, <3>4, <2>4, <2>6, <2>8, <1>3
  <2>10. Pushed(Last, stack')
    <3>1. ASSUME NEW i \in 1 .. Frame(Last) PROVE stack'[i] = stack[i]
      <4>1. i \in 1 .. Len(stack) /\ i \in 1 .. Len(s1)
        BY <1>3, <1>4, <2>8
      <4> QED BY <4>1, <2>5, <2>6
    <3>2. Frame(Last) <= Len(stack)
      BY <1>3, <1>4
    <3> QED BY <3>1, <3>2, <1>2, <1>3, <1>4, PushedKept
  <2>11. Target(vector) \in Pushes /\ Pushes \subseteq Labels
         /\ (Target(vector) = "ack_pic1" <=> vector \in 32 .. 39)
         /\ (Target(vector) = "ack_pic2" <=> vector \in 40 .. 47)
    <3>1. CASE vector \in 32 .. 39
      BY <3>1 DEF Target, Pushes, Labels
    <3>2. CASE vector \in 40 .. 47
      BY <3>2 DEF Target, Pushes, Labels
    <3>3. CASE vector \notin 32 .. 39 /\ vector \notin 40 .. 47
      BY <3>3 DEF Target, Pushes, Labels
    <3> QED BY <3>1, <3>2, <3>3
  <2>12. /\ cpu' \in Cpus /\ cpu'.eip[1] = Target(vector) /\ cpu'.eax = cpu.eax
         /\ cpu'.gprs = cpu.gprs /\ cpu'.ring = 0 /\ cpu'.if = FALSE
    <3>1. Target(vector) \in Labels
      BY <2>11
    <3>2. /\ cpu' \in Cpus /\ cpu'.eip[1] = Target(vector) /\ cpu'.eax = cpu.eax
          /\ cpu'.gprs = cpu.gprs /\ cpu'.ring = cpu.ring /\ cpu'.if = cpu.if
      BY <2>1, <3>1, <1>4, CpuGoto
    <3> QED BY <3>2, <1>3, Zenon
  <2>13. Layout(Last, cpu', stack')
    <3>1. cpu'.eip[1] \in Pushes
      BY <2>11, <2>12
    <3>2. Stub(Last, cpu'.eip[1], stack')
      BY <3>1, <2>9, <1>3, <1>8 DEF Stub, Pushes, Handler
    <3>3. Route(Last, cpu'.eip[1])
      BY <3>1, <2>11, <2>12, <1>3 DEF Route, Pushes
    <3> QED BY <3>1, <3>2, <3>3, <2>10, <2>12, <1>3 DEF Layout, Numbered, Pushes, Handler
  <2>14. Depth = 1 => isr' = Due(Last, cpu'.eip[1])
    <3>1. CASE vector \in 32 .. 47
      <4>1. cpu'.eip[1] \in {"ack_pic1", "ack_pic2"}
        BY <3>1, <2>11, <2>12
      <4> QED BY <4>1, <1>5, <1>6 DEF Due
    <3>2. CASE vector \notin 32 .. 47
      <4>1. Last.lines = {}
        BY <3>2, <1>2, <1>3 DEF LinesOk
      <4> QED BY <4>1, <1>5, <1>6 DEF Due
    <3> QED BY <3>1, <3>2
  <2> QED BY <2>6, <2>12, <2>13, <2>14, <1>1, <1>5, KernelStep
<1> QED BY <1>7, <1>8

\* What a label of a stub, or of a handler, says of the event it runs for.
Facts ==
  /\ Last \in Events /\ Last.cpu \in Cpus
  /\ Last.vector \in 0 .. 255 /\ Last.vector \notin 20 .. 31
  /\ Last.cpu.eax \in Cells /\ Last.cpu.gprs \in Cells
  /\ cpu \in Cpus /\ cpu.ring = 0 /\ cpu.if = FALSE
  /\ stack \in Seq(Cells) /\ Pushed(Last, stack)
  /\ stack[Frame(Last) + 1] = Word("err", Last.err)
  /\ stack[Frame(Last) + 2] = Word("nr", Last.vector)
  /\ Frame(Last) \in Nat /\ Len(stack) \in Nat

\* The facts hold wherever the number has been pushed.
LEMMA AtLabel ==
  ASSUME Inv, cpu.eip[1] \in Numbered
  PROVE  /\ Facts /\ Layout(Last, cpu, stack) /\ LinesOk(Last)
         /\ Last.vector >= 20 => Depth = 1
         /\ irr \subseteq 0 .. 15 /\ isr \subseteq 0 .. 15
<1>1. cpu.eip[1] \notin {"program", "pic_init", "iret", "idt_trampoline"}
  BY DEF Numbered, Handler, Pushes
<1>2. /\ Depth \in Nat \ {0} /\ Last \in Events /\ Layout(Last, cpu, stack)
      /\ LinesOk(Last) /\ (Depth # 1 => Last.lines = {} /\ Last.vector < 20)
  BY <1>1, InKernel
<1>3. Last.cpu \in Cpus /\ Last.vector \in 0 .. 255
  BY <1>2 DEF Events
<1>4. Last.cpu.eax \in Cells /\ Last.cpu.gprs \in Cells
  BY <1>3, RegistersAreCells
<1>5. cpu.ring = 0 /\ cpu.if = FALSE /\ Pushed(Last, stack) /\ Stub(Last, cpu.eip[1], stack)
  BY <1>2 DEF Layout
<1>6. /\ stack[Frame(Last) + 1] = Word("err", Last.err)
      /\ stack[Frame(Last) + 2] = Word("nr", Last.vector)
      /\ Last.vector \notin 20 .. 31
  BY <1>5 DEF Stub
<1>7. cpu \in Cpus /\ stack \in Seq(Cells) /\ irr \subseteq 0 .. 15 /\ isr \subseteq 0 .. 15
  BY DEF Inv, TypeInv
<1>8. Frame(Last) \in Nat /\ Len(stack) \in Nat
  BY <1>2, <1>7, FrameType, LenProperties
<1>9. Facts
  BY <1>2, <1>3, <1>4, <1>5, <1>6, <1>7, <1>8 DEF Facts
<1>10. Last.vector >= 20 => Depth = 1
  BY <1>2, <1>3
<1> QED BY <1>2, <1>7, <1>9, <1>10

\* A step that leaves the stack and the registers keeps the words of the frame.
LEMMA FrameWords ==
  ASSUME NEW e \in Events, NEW s \in Seq(Cells), NEW t, Pushed(e, s),
         s[Frame(e) + 1] = Word("err", e.err), s[Frame(e) + 2] = Word("nr", e.vector),
         Frame(e) + 2 <= Len(s), \A i \in 1 .. Frame(e) + 2 : t[i] = s[i]
  PROVE  /\ Pushed(e, t)
         /\ t[Frame(e) + 1] = Word("err", e.err) /\ t[Frame(e) + 2] = Word("nr", e.vector)
<1>1. Frame(e) \in Nat /\ Len(s) \in Nat
  BY FrameType, LenProperties
<1>2. /\ \A i \in 1 .. Frame(e) : i \in 1 .. Frame(e) + 2
      /\ Frame(e) + 1 \in 1 .. Frame(e) + 2 /\ Frame(e) + 2 \in 1 .. Frame(e) + 2
      /\ Frame(e) <= Len(s)
  BY <1>1
<1>3. Pushed(e, t)
  BY <1>2, PushedKept
<1> QED BY <1>2, <1>3

\* Both ways to tell the controllers push EAX, before they use it.
LEMMA AckStep ==
  ASSUME Inv, NEW label \in {"ack_pic1", "ack_pic2"}, cpu.eip[1] = label,
         stack' = Append(stack, cpu.eax),
         cpu' = [cpu EXCEPT !.eip = <<"eoi_pic1">>, !.eax = Word("eax", Scratch)]
  PROVE  /\ Depth = 1 /\ isr = Last.lines
         /\ cpu' \in Cpus /\ stack' \in Seq(Cells) /\ cpu'.eip[1] = "eoi_pic1"
         /\ Layout(Last, cpu', stack')
<1>1. label \in Numbered /\ label \in Pushes /\ label \notin Handler \cup {"eoi_pic1"}
  BY DEF Numbered, Pushes, Handler
<1>2. Facts /\ Layout(Last, cpu, stack) /\ (Last.vector >= 20 => Depth = 1)
  BY <1>1, AtLabel
<1>3. Len(stack) = Frame(Last) + 2
  BY <1>1, <1>2 DEF Layout, Stub
<1>4. cpu.eax = Last.cpu.eax /\ cpu.gprs = Last.cpu.gprs
  BY <1>1, <1>2 DEF Layout
<1>5. Last.vector \in 32 .. 47
  BY <1>2 DEF Layout, Route
<1>6. Depth = 1
  BY <1>2, <1>5
<1>7. isr = Last.lines
  BY <1>6, IsrNow DEF Due
<1>8. /\ Frame(Last) \in Nat /\ Last.vector \notin 20 .. 31 /\ cpu \in Cpus
      /\ cpu.ring = 0 /\ cpu.if = FALSE /\ stack \in Seq(Cells) /\ Last.cpu.eax \in Cells
      /\ Pushed(Last, stack) /\ Last \in Events
      /\ stack[Frame(Last) + 1] = Word("err", Last.err)
      /\ stack[Frame(Last) + 2] = Word("nr", Last.vector)
  BY <1>2 DEF Facts
<1>9. /\ stack' \in Seq(Cells) /\ Len(stack') = Len(stack) + 1
      /\ \A i \in 1 .. Len(stack) : stack'[i] = stack[i]
      /\ stack'[Len(stack) + 1] = Last.cpu.eax
  BY <1>4, <1>8, AppendWord
<1>10. /\ Pushed(Last, stack')
       /\ stack'[Frame(Last) + 1] = Word("err", Last.err)
       /\ stack'[Frame(Last) + 2] = Word("nr", Last.vector)
  <2>1. Frame(Last) + 2 <= Len(stack) /\ \A i \in 1 .. Frame(Last) + 2 : stack'[i] = stack[i]
    BY <1>3, <1>8, <1>9
  <2>2. /\ Last \in Events /\ stack \in Seq(Cells) /\ Pushed(Last, stack)
        /\ stack[Frame(Last) + 1] = Word("err", Last.err)
        /\ stack[Frame(Last) + 2] = Word("nr", Last.vector)
    BY <1>8
  <2>3. ASSUME NEW t, \A i \in 1 .. Frame(Last) + 2 : t[i] = stack[i]
        PROVE  /\ Pushed(Last, t) /\ t[Frame(Last) + 1] = Word("err", Last.err)
               /\ t[Frame(Last) + 2] = Word("nr", Last.vector)
    BY <2>1, <2>2, <2>3, FrameWords
  <2> QED BY <2>1, <2>3
<1>11. /\ cpu' \in Cpus /\ cpu'.eip[1] = "eoi_pic1" /\ cpu'.ring = 0 /\ cpu'.if = FALSE
       /\ cpu'.gprs = cpu.gprs
  <2>1. <<"eoi_pic1">> \in Eips /\ <<"eoi_pic1">>[1] = "eoi_pic1"
    BY LabelTypes DEF Labels
  <2>2. Word("eax", Scratch) \in {Word("eax", n) : n \in 0 .. 2}
    BY DEF Scratch
  <2> QED BY <2>1, <2>2, <1>8 DEF Cpus
<1>12. Stub(Last, "eoi_pic1", stack')
  <2>1. Len(stack') = Frame(Last) + 3 /\ stack'[Frame(Last) + 3] = Last.cpu.eax
    <3>1. Len(stack) = Frame(Last) + 2 /\ Frame(Last) \in Nat
      BY <1>3, <1>8
    <3> QED BY <3>1, <1>9
  <2> QED BY <2>1, <1>10, <1>8 DEF Stub, Numbered, Pushes, Handler
<1>13. Route(Last, "eoi_pic1")
  BY <1>5 DEF Route
<1>14. Layout(Last, cpu', stack')
  BY <1>4, <1>10, <1>11, <1>12, <1>13 DEF Layout, Numbered, Handler
<1> QED BY <1>6, <1>7, <1>9, <1>11, <1>14

\* An event of the master goes on to the master's EOI.
LEMMA AckPic1Inv == ASSUME Inv, AckPic1 PROVE Inv'
<1>1. cpu.eip[1] = "ack_pic1"
  BY DEF AckPic1
<1>2. /\ stack' = Append(stack, cpu.eax) /\ irr' = irr /\ isr' = isr /\ chip' = chip
      /\ cpu' = [cpu EXCEPT !.eip = <<"eoi_pic1">>, !.eax = Word("eax", Scratch)]
      /\ masked' = masked /\ entered' = entered /\ events' = events
  BY DEF AckPic1
<1>3. /\ Depth = 1 /\ isr = Last.lines
      /\ cpu' \in Cpus /\ stack' \in Seq(Cells) /\ cpu'.eip[1] = "eoi_pic1"
      /\ Layout(Last, cpu', stack')
  BY <1>1, <1>2, AckStep
<1>4. Last.lines \cap Master = Last.lines
  <2>1. Last.vector \in 32 .. 39 /\ LinesOk(Last)
    BY <1>1, InKernel DEF Layout, Route
  <2> QED BY <2>1 DEF LinesOk
<1> QED BY <1>1, <1>2, <1>3, <1>4, KernelStep DEF Due, Inv, TypeInv

\* The EOI to the slave ends the slave's line, and no other.
LEMMA AckPic2Inv == ASSUME Inv, AckPic2 PROVE Inv'
<1>1. cpu.eip[1] = "ack_pic2"
  BY DEF AckPic2
<1>2. /\ stack' = Append(stack, cpu.eax) /\ irr' = irr /\ isr' = Ended(isr, Slave)
      /\ chip' = chip
      /\ cpu' = [cpu EXCEPT !.eip = <<"eoi_pic1">>, !.eax = Word("eax", Scratch)]
      /\ masked' = masked /\ entered' = entered /\ events' = events
  BY DEF AckPic2, EoiSlave
<1>3. /\ Depth = 1 /\ isr = Last.lines
      /\ cpu' \in Cpus /\ stack' \in Seq(Cells) /\ cpu'.eip[1] = "eoi_pic1"
      /\ Layout(Last, cpu', stack')
  BY <1>1, <1>2, AckStep
<1>4. Ended(Last.lines, Slave) = Last.lines \cap Master
  <2>1. Last.vector \in 40 .. 47 /\ LinesOk(Last)
    BY <1>1, InKernel DEF Layout, Route
  <2>2. CASE Last.lines = {}
    BY <2>2 DEF Ended, Highest
  <2>3. CASE Last.lines = {Cascade}
    BY <2>3 DEF Ended, Highest, Cascade, Slave, Master
  <2>4. CASE \E line \in Slave : Last.lines = {line, Cascade}
    <3>1. PICK line \in Slave : Last.lines = {line, Cascade}
      BY <2>4
    <3>0. line \in Slave /\ line \notin Master /\ Cascade \in Master /\ Cascade \notin Slave
      BY DEF Slave, Master, Cascade
    <3>2. Last.lines \cap Slave = {line} /\ Last.lines \cap Master = {Cascade}
      BY <3>0, <3>1
    <3>3. Highest({line}) = {line}
      BY DEF Highest, Slave
    <3> QED BY <3>0, <3>1, <3>2, <3>3 DEF Ended
  <2> QED BY <2>1, <2>2, <2>3, <2>4 DEF LinesOk
<1>5. isr' \subseteq 0 .. 15
  BY <1>2 DEF Ended, Inv, TypeInv
<1> QED BY <1>1, <1>2, <1>3, <1>4, <1>5, KernelStep DEF Due

\* The EOI to the master ends what is left, and EAX is the program's again.
LEMMA EoiPic1Inv == ASSUME Inv, EoiPic1 PROVE Inv'
<1>1. /\ cpu.eip[1] = "eoi_pic1" /\ cpu.eip[1] \in Numbered
      /\ cpu.eip[1] \notin {"program", "pic_init"}
  BY DEF EoiPic1, Numbered
<1>2. /\ stack' = SubSeq(stack, 1, Len(stack) - 1)
      /\ cpu' = [cpu EXCEPT !.eip = <<"idt_common">>, !.eax = stack[Len(stack) - 0]]
      /\ irr' = irr /\ isr' = Ended(isr, Master) /\ chip' = chip
      /\ masked' = masked /\ entered' = entered /\ events' = events
  BY DEF EoiPic1, EoiMaster, Top, Pop
<1>3. Facts /\ Layout(Last, cpu, stack) /\ (Last.vector >= 20 => Depth = 1)
  BY <1>1, AtLabel
<1>4. /\ Len(stack) = Frame(Last) + 3 /\ stack[Frame(Last) + 3] = Last.cpu.eax
      /\ cpu.gprs = Last.cpu.gprs /\ Last.vector \in 32 .. 47
  BY <1>1, <1>3 DEF Layout, Stub, Route, Handler
<1>5. Depth = 1
  BY <1>3, <1>4
<1>6. isr = Last.lines \cap Master
  BY <1>1, <1>5, IsrNow DEF Due
<1>7. Frame(Last) \in Nat /\ Last.vector \notin 20 .. 31 /\ cpu \in Cpus /\ Last.cpu \in Cpus
      /\ cpu.ring = 0 /\ cpu.if = FALSE /\ stack \in Seq(Cells) /\ Last \in Events
      /\ Pushed(Last, stack)
      /\ stack[Frame(Last) + 1] = Word("err", Last.err)
      /\ stack[Frame(Last) + 2] = Word("nr", Last.vector)
  BY <1>3 DEF Facts
<1>8. /\ stack' \in Seq(Cells) /\ Len(stack') = Frame(Last) + 2
      /\ \A i \in 1 .. Frame(Last) + 2 : stack'[i] = stack[i]
  <2>0. Len(stack) = Frame(Last) + 3 /\ Frame(Last) \in Nat
    BY <1>4, <1>7
  <2>1. Len(stack) - 1 = Frame(Last) + 2 /\ Frame(Last) + 2 \in 0 .. Len(stack)
    BY <2>0
  <2>2. PICK n \in 0 .. Len(stack) : n = Frame(Last) + 2
    BY <2>1
  <2>3. stack \in Seq(Cells) /\ stack' = SubSeq(stack, 1, n)
    BY <2>1, <2>2, <1>2, <1>7
  <2>4. /\ stack' \in Seq(Cells) /\ Len(stack') = n
        /\ \A i \in 1 .. n : stack'[i] = stack[i]
    BY <2>3, PopProperties
  <2> QED BY <2>2, <2>4
<1>9. /\ Pushed(Last, stack')
      /\ stack'[Frame(Last) + 1] = Word("err", Last.err)
      /\ stack'[Frame(Last) + 2] = Word("nr", Last.vector)
  <2>1. Frame(Last) + 2 <= Len(stack) /\ \A i \in 1 .. Frame(Last) + 2 : stack'[i] = stack[i]
    BY <1>4, <1>7, <1>8
  <2>2. /\ Last \in Events /\ stack \in Seq(Cells) /\ Pushed(Last, stack)
        /\ stack[Frame(Last) + 1] = Word("err", Last.err)
        /\ stack[Frame(Last) + 2] = Word("nr", Last.vector)
    BY <1>7
  <2> QED BY <2>1, <2>2, FrameWords
<1>10. /\ cpu' \in Cpus /\ cpu'.eip[1] = "idt_common" /\ cpu'.ring = 0 /\ cpu'.if = FALSE
       /\ cpu'.gprs = cpu.gprs /\ cpu'.eax = Last.cpu.eax
  <2>1. <<"idt_common">> \in Eips /\ <<"idt_common">>[1] = "idt_common"
    BY LabelTypes DEF Labels
  <2>2. Len(stack) - 0 = Frame(Last) + 3
    BY <1>4, <1>7
  <2>3. cpu' = [cpu EXCEPT !.eip = <<"idt_common">>, !.eax = Last.cpu.eax]
    BY <2>2, <1>2, <1>4
  <2> QED BY <2>1, <2>3, <1>7 DEF Cpus
<1>11. Stub(Last, "idt_common", stack')
  BY <1>7, <1>8, <1>9 DEF Stub, Numbered, Pushes, Handler
<1>12. Layout(Last, cpu', stack')
  BY <1>4, <1>9, <1>10, <1>11 DEF Layout, Route, Numbered, Pushes
<1>13. Ended(isr, Master) = {}
  <2>1. CASE isr = {}
    BY <2>1 DEF Ended, Highest
  <2>2. CASE \E line \in Master : isr = {line}
    <3>1. PICK line \in Master : isr = {line}
      BY <2>2
    <3>2. Highest({line}) = {line}
      BY DEF Highest, Master
    <3>3. {line} \cap Master = {line}
      OBVIOUS
    <3> QED BY <3>1, <3>2, <3>3 DEF Ended
  <2>3. isr = {} \/ \E line \in Master : isr = {line}
    <3>1. LinesOk(Last)
      BY <1>1, AtLabel
    <3>2. Cascade \in Master /\ Slave \cap Master = {}
      BY DEF Cascade, Master, Slave
    <3>3. CASE Last.lines = {} \/ \E line \in Master : Last.lines = {line}
      BY <3>3, <1>6
    <3>4. CASE Last.lines = {Cascade} \/ \E line \in Slave : Last.lines = {line, Cascade}
      <4>1. isr = {Cascade}
        BY <3>2, <3>4, <1>6
      <4> QED BY <4>1, <3>2
    <3> QED BY <3>1, <3>3, <3>4 DEF LinesOk
  <2> QED BY <2>1, <2>2, <2>3
<1> QED BY <1>1, <1>2, <1>5, <1>8, <1>10, <1>12, <1>13, KernelStep DEF Due

\* pusha keeps EAX and the other registers for popa.
LEMMA IdtCommonInv == ASSUME Inv, IdtCommon PROVE Inv'
<1>1. /\ cpu.eip[1] = "idt_common" /\ cpu.eip[1] \in Numbered
      /\ cpu.eip[1] \notin {"program", "pic_init"}
  BY DEF IdtCommon, Numbered, Pushes
<1>2. /\ stack' = stack \o <<cpu.eax, cpu.gprs>>
      /\ cpu' = [cpu EXCEPT !.eip = <<"intr_hdlr">>, !.eax = Word("eax", Scratch),
                            !.gprs = Word("gprs", Scratch)]
      /\ irr' = irr /\ isr' = isr /\ chip' = chip
      /\ masked' = masked /\ entered' = entered /\ events' = events
  BY DEF IdtCommon
<1>3. Facts /\ Layout(Last, cpu, stack) /\ isr \subseteq 0 .. 15
  BY <1>1, AtLabel
<1>4. /\ Len(stack) = Frame(Last) + 2 /\ cpu.eax = Last.cpu.eax /\ cpu.gprs = Last.cpu.gprs
  BY <1>1, <1>3 DEF Layout, Stub, Pushes, Handler
<1>5. Depth = 1 => isr = {}
  BY <1>1, IsrNow DEF Due
<1>6. /\ Frame(Last) \in Nat /\ Last.vector \notin 20 .. 31 /\ cpu \in Cpus /\ Last \in Events
      /\ cpu.ring = 0 /\ cpu.if = FALSE /\ stack \in Seq(Cells)
      /\ Last.cpu.eax \in Cells /\ Last.cpu.gprs \in Cells
  BY <1>3 DEF Facts
<1>7. /\ Pushed(Last, stack)
      /\ stack[Frame(Last) + 1] = Word("err", Last.err)
      /\ stack[Frame(Last) + 2] = Word("nr", Last.vector)
  BY <1>3 DEF Facts
<1>8. /\ stack' \in Seq(Cells) /\ Len(stack') = Frame(Last) + 4
      /\ \A i \in 1 .. Frame(Last) + 2 : stack'[i] = stack[i]
      /\ stack'[Frame(Last) + 3] = Last.cpu.eax /\ stack'[Frame(Last) + 4] = Last.cpu.gprs
  <2> DEFINE t == <<Last.cpu.eax, Last.cpu.gprs>>
  <2>1. t \in Seq(Cells) /\ Len(t) = 2 /\ t[1] = Last.cpu.eax /\ t[2] = Last.cpu.gprs
    BY <1>6
  <2>2. stack' = stack \o t
    BY <1>2, <1>4
  <2> HIDE DEF t
  <2>3. /\ stack \o t \in Seq(Cells) /\ Len(stack \o t) = Len(stack) + Len(t)
        /\ \A i \in 1 .. Len(stack) : (stack \o t)[i] = stack[i]
        /\ \A i \in 1 .. Len(t) : (stack \o t)[Len(stack) + i] = t[i]
    BY <1>6, <2>1, PushProperties
  <2>4. 1 \in 1 .. Len(t) /\ 2 \in 1 .. Len(t) /\ Len(stack) + 1 = Frame(Last) + 3
        /\ Len(stack) + 2 = Frame(Last) + 4
    <3>1. Len(stack) = Frame(Last) + 2 /\ Frame(Last) \in Nat /\ Len(t) = 2
      BY <1>4, <1>6, <2>1
    <3> QED BY <3>1
  <2>5. (stack \o t)[Len(stack) + 1] = t[1] /\ (stack \o t)[Len(stack) + 2] = t[2]
    BY <2>3, <2>4
  <2> QED BY <1>4, <2>1, <2>2, <2>3, <2>4, <2>5
<1>9. /\ Pushed(Last, stack')
      /\ stack'[Frame(Last) + 1] = Word("err", Last.err)
      /\ stack'[Frame(Last) + 2] = Word("nr", Last.vector)
  <2>1. Frame(Last) + 2 <= Len(stack) /\ \A i \in 1 .. Frame(Last) + 2 : stack'[i] = stack[i]
    BY <1>4, <1>6, <1>8
  <2>2. Last \in Events /\ stack \in Seq(Cells)
    BY <1>6
  <2> QED BY <2>1, <2>2, <1>7, FrameWords
<1>10. /\ cpu' \in Cpus /\ cpu'.eip[1] = "intr_hdlr" /\ cpu'.ring = 0 /\ cpu'.if = FALSE
  <2>1. <<"intr_hdlr">> \in Eips /\ <<"intr_hdlr">>[1] = "intr_hdlr"
    BY LabelTypes DEF Labels
  <2>2. /\ Word("eax", Scratch) \in {Word("eax", n) : n \in 0 .. 2}
        /\ Word("gprs", Scratch) \in {Word("gprs", n) : n \in 0 .. 2}
    BY DEF Scratch
  <2> QED BY <2>1, <2>2, <1>2, <1>6 DEF Cpus
<1>11. Stub(Last, "intr_hdlr", stack')
  BY <1>6, <1>8, <1>9 DEF Stub, Numbered, Pushes, Handler
<1>12. Layout(Last, cpu', stack')
  BY <1>9, <1>10, <1>11 DEF Layout, Route, Numbered, Handler
<1> QED BY <1>1, <1>2, <1>3, <1>5, <1>8, <1>10, <1>12, KernelStep DEF Due

\* A handler finds the event's number in the frame.
LEMMA NrIs ==
  ASSUME Inv, cpu.eip[1] \in Handler
  PROVE  Nr = Last.vector
<1>1. Facts /\ Layout(Last, cpu, stack)
  BY AtLabel DEF Numbered
<1>2. /\ Len(stack) = Frame(Last) + 4 /\ Frame(Last) \in Nat
      /\ stack[Frame(Last) + 2] = Word("nr", Last.vector)
  BY <1>1 DEF Layout, Stub, Facts
<1>3. Len(stack) - 2 = Frame(Last) + 2
  BY <1>2
<1> QED BY <1>2, <1>3 DEF Nr, Top, Word

\* A handler that only chooses where to go on keeps the invariant.
LEMMA ChoiceInv ==
  ASSUME Inv, NEW label \in {"intr_hdlr", "excp_hdlr"}, cpu.eip = <<label>>,
         NEW to \in {"excp_hdlr", "resume_from_intr", "panic"}, Goto(to),
         to = "excp_hdlr" => Last.vector < NR_EXCP,
         to = "panic" => Last.vector < NR_EXCP /\ Last.vector # NMI_EXCP,
         UNCHANGED <<irr, isr, chip, stack, masked, entered, events>>
  PROVE  Inv'
<1>1. /\ cpu.eip[1] = label /\ label \in Handler /\ label \in Numbered
      /\ cpu.eip[1] \notin {"program", "pic_init"} /\ to \in Handler /\ to \in Labels
  BY DEF Numbered, Handler, Labels
<1>2. Facts /\ Layout(Last, cpu, stack) /\ isr \subseteq 0 .. 15
  BY <1>1, AtLabel
<1>3. Depth = 1 => isr = {}
  BY <1>1, IsrNow DEF Due
<1>4. cpu \in Cpus /\ cpu.ring = 0 /\ cpu.if = FALSE /\ stack \in Seq(Cells)
  BY <1>2 DEF Facts
<1>5. /\ cpu' \in Cpus /\ cpu'.eip[1] = to /\ cpu'.ring = 0 /\ cpu'.if = FALSE
      /\ stack' = stack
  <2>1. cpu' = [cpu EXCEPT !.eip = <<to>>]
    BY DEF Goto
  <2>2. cpu' \in Cpus /\ cpu'.eip[1] = to /\ cpu'.ring = cpu.ring /\ cpu'.if = cpu.if
    BY <2>1, <1>1, <1>4, CpuGoto
  <2> QED BY <2>2, <1>4, Zenon
<1>6. Stub(Last, to, stack)
  BY <1>1, <1>2 DEF Layout, Stub, Numbered, Handler, Pushes
<1>7. Route(Last, to)
  BY DEF Route
<1>8. to \in Numbered
  BY <1>1 DEF Numbered
<1>9. Layout(Last, cpu', stack')
  BY <1>1, <1>2, <1>5, <1>6, <1>7, <1>8 DEF Layout, Handler
<1> QED BY <1>1, <1>2, <1>3, <1>4, <1>5, <1>9, KernelStep DEF Due

\* intr_hdlr sends the exceptions to excp_hdlr.
LEMMA IntrHdlrInv == ASSUME Inv, IntrHdlr PROVE Inv'
<1>1. cpu.eip = <<"intr_hdlr">> /\ cpu.eip[1] \in Handler
  BY DEF IntrHdlr, Handler
<1>2. Nr = Last.vector
  BY <1>1, NrIs
<1>3. UNCHANGED <<irr, isr, chip, stack, masked, entered, events>>
  BY DEF IntrHdlr
<1>4. CASE Nr < NR_EXCP
  <2>1. Goto("excp_hdlr")
    BY <1>4 DEF IntrHdlr
  <2> QED BY <2>1, <1>1, <1>2, <1>3, <1>4, ChoiceInv
<1>5. CASE ~(Nr < NR_EXCP)
  <2>1. Goto("resume_from_intr")
    BY <1>5 DEF IntrHdlr
  <2> QED BY <2>1, <1>1, <1>3, ChoiceInv
<1> QED BY <1>4, <1>5

\* excp_hdlr stops the kernel but for an NMI.
LEMMA ExcpHdlrInv == ASSUME Inv, ExcpHdlr PROVE Inv'
<1>1. cpu.eip = <<"excp_hdlr">> /\ cpu.eip[1] \in Handler /\ cpu.eip[1] \notin {"program", "pic_init"}
  BY DEF ExcpHdlr, Handler
<1>2. Nr = Last.vector
  BY <1>1, NrIs
<1>3. UNCHANGED <<irr, isr, chip, stack, masked, entered, events>>
  BY DEF ExcpHdlr
<1>4. Last.vector < NR_EXCP
  BY <1>1, InKernel DEF Layout, Route
<1>5. CASE Nr = NMI_EXCP
  <2>1. Goto("resume_from_intr")
    BY <1>5 DEF ExcpHdlr
  <2> QED BY <2>1, <1>1, <1>3, ChoiceInv
<1>6. CASE Nr # NMI_EXCP
  <2>1. Goto("panic")
    BY <1>6 DEF ExcpHdlr
  <2> QED BY <2>1, <1>1, <1>2, <1>3, <1>4, <1>6, ChoiceInv
<1> QED BY <1>5, <1>6

\* popa takes what pusha pushed, and the stub's words go.
LEMMA ResumeInv == ASSUME Inv, Resume PROVE Inv'
<1>1. /\ cpu.eip[1] = "resume_from_intr" /\ cpu.eip[1] \in Numbered
      /\ cpu.eip[1] \notin {"program", "pic_init"}
  BY DEF Resume, Numbered, Handler
<1>2. /\ stack' = SubSeq(stack, 1, Len(stack) - 4)
      /\ cpu' = [cpu EXCEPT !.eip = <<"iret">>, !.gprs = stack[Len(stack) - 0],
                            !.eax = stack[Len(stack) - 1]]
      /\ irr' = irr /\ isr' = isr /\ chip' = chip
      /\ masked' = masked /\ entered' = entered /\ events' = events
  BY DEF Resume, Top, Pop
<1>3. Facts /\ Layout(Last, cpu, stack) /\ isr \subseteq 0 .. 15
  BY <1>1, AtLabel
<1>4. /\ Len(stack) = Frame(Last) + 4
      /\ stack[Frame(Last) + 3] = Last.cpu.eax /\ stack[Frame(Last) + 4] = Last.cpu.gprs
  BY <1>1, <1>3 DEF Layout, Stub, Handler
<1>5. Depth = 1 => isr = {}
  BY <1>1, IsrNow DEF Due
<1>6. /\ Frame(Last) \in Nat /\ cpu \in Cpus /\ Last \in Events /\ Last.cpu \in Cpus
      /\ cpu.ring = 0 /\ cpu.if = FALSE /\ stack \in Seq(Cells) /\ Pushed(Last, stack)
  BY <1>3 DEF Facts
<1>7. /\ stack' \in Seq(Cells) /\ Len(stack') = Frame(Last)
      /\ \A i \in 1 .. Frame(Last) : stack'[i] = stack[i]
  <2>1. Len(stack) - 4 = Frame(Last) /\ Frame(Last) \in 0 .. Len(stack)
    BY <1>4, <1>6
  <2> QED BY <2>1, <1>2, <1>6, PopProperties
<1>8. Pushed(Last, stack')
  <2>1. Frame(Last) <= Len(stack)
    BY <1>4, <1>6
  <2> QED BY <2>1, <1>6, <1>7, PushedKept
<1>9. /\ cpu' \in Cpus /\ cpu'.eip[1] = "iret" /\ cpu'.ring = 0 /\ cpu'.if = FALSE
      /\ cpu'.eax = Last.cpu.eax /\ cpu'.gprs = Last.cpu.gprs
  <2>1. <<"iret">> \in Eips /\ <<"iret">>[1] = "iret"
    BY LabelTypes DEF Labels
  <2>2. Len(stack) - 0 = Frame(Last) + 4 /\ Len(stack) - 1 = Frame(Last) + 3
    BY <1>4, <1>6
  <2>3. cpu' = [cpu EXCEPT !.eip = <<"iret">>, !.gprs = Last.cpu.gprs, !.eax = Last.cpu.eax]
    BY <2>2, <1>2, <1>4
  <2>4. Last.cpu.eax \in {Word("eax", n) : n \in 0 .. 2} /\ Last.cpu.gprs \in {Word("gprs", n) : n \in 0 .. 2}
    BY <1>6 DEF Cpus
  <2> QED BY <2>1, <2>3, <2>4, <1>6 DEF Cpus
<1>10. Layout(Last, cpu', stack')
  BY <1>7, <1>8, <1>9 DEF Layout, Stub, Route, Numbered, Pushes, Handler
<1> QED BY <1>1, <1>2, <1>3, <1>5, <1>7, <1>9, <1>10, KernelStep DEF Due
-----------------------------------------------------------------------------
(***************************************************************************)
(* The return, the program, and the devices.                               *)
(***************************************************************************)

\* Records of registers with the same fields are the same.
LEMMA CpuEqual ==
  ASSUME NEW c \in Cpus, NEW d \in Cpus, c.eip = d.eip, c.eax = d.eax, c.gprs = d.gprs,
         c.if = d.if, c.ring = d.ring
  PROVE  c = d
<1>1. /\ c = [eip |-> c.eip, eax |-> c.eax, gprs |-> c.gprs, if |-> c.if, ring |-> c.ring]
      /\ d = [eip |-> d.eip, eax |-> d.eax, gprs |-> d.gprs, if |-> d.if, ring |-> d.ring]
  BY DEF Cpus
<1> QED BY <1>1

\* An iret finds what the event's entry pushed, and leaves what the event found.
LEMMA IretRestores ==
  ASSUME Inv, Iret
  PROVE  stack' = Last.stack /\ cpu' = Last.cpu
<1>1. cpu.eip[1] = "iret" /\ cpu.eip[1] \notin {"program", "pic_init"}
  BY DEF Iret
<1>2. Depth \in Nat \ {0} /\ Last \in Events /\ Layout(Last, cpu, stack)
  BY <1>1, InKernel
<1>3. /\ Len(stack) = Frame(Last) /\ cpu.eax = Last.cpu.eax /\ cpu.gprs = Last.cpu.gprs
      /\ Pushed(Last, stack)
  BY <1>1, <1>2 DEF Layout, Stub, Handler
<1>4. cpu \in Cpus /\ stack \in Seq(Cells) /\ Last.cpu \in Cpus /\ Last.stack \in Seq(Cells)
  BY <1>2 DEF Inv, TypeInv, Events
<1>5. /\ Frame(Last) \in Nat /\ Len(Last.stack) \in Nat
      /\ Frame(Last) = Len(Last.stack) + (IF Last.cpu.ring = 3 THEN 5 ELSE 3)
  BY <1>2, FrameType
<1>6. /\ stack[Len(stack) - 0] = Word("eip", Last.cpu.eip)
      /\ stack[Len(stack) - 1] = Word("cs", Last.cpu.ring)
      /\ stack[Len(stack) - 2] = Word("eflags", Last.cpu.if)
  <2>1. Len(stack) - 0 = Frame(Last)
    BY <1>3, <1>5
  <2> QED BY <2>1, <1>3 DEF Pushed
<1>7. /\ Top(0)[2] = Last.cpu.eip /\ Top(1)[2] = Last.cpu.ring
  BY <1>6 DEF Top, Word
<1>8. Top(2)[2] = Last.cpu.if
  <2>1. \A name, value : Word(name, value)[2] = value
    BY DEF Word
  <2>2. Top(2) = Word("eflags", Last.cpu.if)
    BY <1>6, Zenon DEF Top
  <2> QED BY <2>1, <2>2, Zenon
<1>9. stack' = Pop(IF Top(1)[2] = 3 THEN 5 ELSE 3)
  BY Zenon DEF Iret
<1>10. cpu' = Last.cpu
  <2>1. cpu' = [cpu EXCEPT !.eip = Last.cpu.eip, !.ring = Last.cpu.ring, !.if = Last.cpu.if]
    BY <1>7, <1>8, Zenon DEF Iret
  <2>2. Last.cpu.eip \in Eips /\ Last.cpu.ring \in {0, 3} /\ Last.cpu.if \in BOOLEAN
    BY <1>4 DEF Cpus
  <2>3. PICK eip \in Eips, ring \in {0, 3}, if \in BOOLEAN :
          eip = Last.cpu.eip /\ ring = Last.cpu.ring /\ if = Last.cpu.if
    BY <2>2, Zenon
  <2>4. cpu' = [cpu EXCEPT !.eip = eip, !.ring = ring, !.if = if]
    BY <2>1, <2>3, Zenon
  <2>5. /\ cpu' \in Cpus /\ cpu'.eip = eip /\ cpu'.ring = ring /\ cpu'.if = if
        /\ cpu'.eax = cpu.eax /\ cpu'.gprs = cpu.gprs
    BY <2>4, <1>4 DEF Cpus
  <2>6. /\ cpu' \in Cpus /\ cpu'.eip = Last.cpu.eip /\ cpu'.ring = Last.cpu.ring
        /\ cpu'.if = Last.cpu.if /\ cpu'.eax = cpu.eax /\ cpu'.gprs = cpu.gprs
    BY <2>3, <2>5, Zenon
  <2> QED BY <2>6, <1>3, <1>4, CpuEqual
<1>11. stack' = Last.stack
  <2>1. stack' = SubSeq(stack, 1, Len(Last.stack))
    <3>1. CASE Last.cpu.ring = 3
      <4>1. stack' = SubSeq(stack, 1, Len(stack) - 5) /\ Len(stack) - 5 = Len(Last.stack)
        BY <3>1, <1>3, <1>5, <1>7, <1>9 DEF Pop
      <4> QED BY <4>1
    <3>2. CASE Last.cpu.ring # 3
      <4>1. stack' = SubSeq(stack, 1, Len(stack) - 3) /\ Len(stack) - 3 = Len(Last.stack)
        BY <3>2, <1>3, <1>5, <1>7, <1>9 DEF Pop
      <4> QED BY <4>1
    <3> QED BY <3>1, <3>2
  <2>2. Len(Last.stack) \in 0 .. Len(stack)
    <3>1. CASE Last.cpu.ring = 3
      BY <3>1, <1>3, <1>5
    <3>2. CASE Last.cpu.ring # 3
      BY <3>2, <1>3, <1>5
    <3> QED BY <3>1, <3>2
  <2>3. /\ stack' \in Seq(Cells) /\ Len(stack') = Len(Last.stack)
        /\ \A i \in 1 .. Len(Last.stack) : stack'[i] = stack[i]
    BY <2>1, <2>2, <1>4, PopProperties
  <2>4. \A i \in 1 .. Len(stack') : stack'[i] = Last.stack[i]
    BY <2>3, <1>3 DEF Pushed
  <2> QED BY <2>3, <2>4, <1>4, SeqEqual
<1> QED BY <1>10, <1>11

\* The events that stay in progress stand where they stood.
LEMMA IretInv == ASSUME Inv, Iret PROVE Inv'
<1>1. cpu.eip[1] = "iret" /\ cpu.eip[1] \notin {"program", "pic_init"}
  BY DEF Iret
<1>2. /\ Depth \in Nat \ {0} /\ Last = entered[Depth] /\ Last \in Events
      /\ entered \in Seq(Events)
  BY <1>1, InKernel DEF Inv, TypeInv
<1>3. stack' = Last.stack /\ cpu' = Last.cpu
  BY IretRestores
<1>4. /\ entered' = SubSeq(entered, 1, Len(entered) - 1)
      /\ irr' = irr /\ isr' = isr /\ chip' = chip /\ events' = events /\ masked' = FALSE
  BY DEF Iret
<1>5. /\ entered' \in Seq(Events) /\ Depth' = Depth - 1
      /\ \A k \in 1 .. Depth - 1 : entered'[k] = entered[k]
  <2>1. /\ Depth = Len(entered) /\ Depth - 1 \in Nat /\ 1 \in Int
        /\ \A k \in 1 .. Depth - 1 : entered[k] \in Events
    BY <1>2, EntryFacts DEF Depth, Inv
  <2>2. /\ SubSeq(entered, 1, Depth - 1) \in Seq(Events)
        /\ Len(SubSeq(entered, 1, Depth - 1)) = IF 1 <= Depth - 1 THEN Depth - 1 - 1 + 1 ELSE 0
        /\ \A i \in 1 .. Depth - 1 - 1 + 1 :
             SubSeq(entered, 1, Depth - 1)[i] = entered[1 + i - 1]
    BY <2>1, <1>2, SubSeqProperties
  <2>3. entered' = SubSeq(entered, 1, Depth - 1)
    BY <1>4 DEF Depth
  <2>4. Len(entered') = Depth - 1
    BY <2>1, <2>2, <2>3
  <2>5. ASSUME NEW k \in 1 .. Depth - 1 PROVE entered'[k] = entered[k]
    <3>1. k \in 1 .. Depth - 1 - 1 + 1 /\ 1 + k - 1 = k
      BY <2>1
    <3> QED BY <3>1, <2>2, <2>3
  <2> QED BY <2>2, <2>3, <2>4, <2>5 DEF Depth
<1>6. ASSUME NEW k \in 0 .. Depth - 1
      PROVE  CpuAt(k)' = CpuAt(k) /\ StackAt(k)' = StackAt(k)
  <2>1. CASE k = Depth - 1
    <3>1. k # Depth /\ k + 1 = Depth /\ k = Depth'
      BY <2>1, <1>2, <1>5
    <3>2. CpuAt(k) = Last.cpu /\ StackAt(k) = Last.stack
      BY <3>1, <1>2 DEF CpuAt, StackAt
    <3>3. CpuAt(k)' = cpu' /\ StackAt(k)' = stack'
      BY <3>1 DEF CpuAt, StackAt
    <3> QED BY <3>2, <3>3, <1>3
  <2>2. CASE k # Depth - 1
    <3>1. k + 1 \in 1 .. Depth - 1 /\ k # Depth /\ k # Depth'
      BY <2>2, <1>2, <1>5
    <3> QED BY <3>1, <1>5 DEF CpuAt, StackAt
  <2> QED BY <2>1, <2>2
<1>7. FramesInv'
  <2> SUFFICES ASSUME NEW k \in 1 .. Depth - 1
               PROVE  Layout(entered'[k], CpuAt(k)', StackAt(k)')
    BY <1>5 DEF FramesInv
  <2>1. k \in 0 .. Depth - 1 /\ k \in 1 .. Depth
    BY <1>2
  <2>2. entered'[k] = entered[k] /\ CpuAt(k)' = CpuAt(k) /\ StackAt(k)' = StackAt(k)
    BY <2>1, <1>5, <1>6
  <2> QED BY <2>1, <2>2 DEF Inv, FramesInv
<1>8. EventInv'
  <2> SUFFICES ASSUME NEW k \in 1 .. Depth - 1
               PROVE  /\ LinesOk(entered'[k]) /\ Origin(entered'[k])
                      /\ k # 1 => entered'[k].lines = {} /\ entered'[k].vector < 20
    BY <1>5 DEF EventInv, LinesOk, Origin
  <2>1. k \in 1 .. Depth /\ entered'[k] = entered[k]
    BY <1>2, <1>5
  <2> QED BY <2>1 DEF Inv, EventInv
<1>9. CpuAt(0)' = CpuAt(0) /\ StackAt(0)' = StackAt(0)
  <2>1. 0 \in 0 .. Depth - 1
    BY <1>2
  <2> QED BY <2>1, <1>6
<1>10. CpuAt(0).eip[1] = "program"
  BY <1>2 DEF Inv, ProgramInv
<1>11. ProgramInv'
  BY <1>9, <1>10 DEF Inv, ProgramInv
<1>12. cpu'.eip[1] # "pic_init"
  <2>1. CASE Depth = 1
    <3>1. Depth' = 0
      BY <2>1, <1>5
    <3>2. CpuAt(0)' = cpu'
      BY <3>1 DEF CpuAt
    <3> QED BY <3>2, <1>9, <1>10
  <2>2. CASE Depth # 1
    <3>1. Depth - 1 \in 1 .. Depth /\ Depth - 1 # Depth /\ (Depth - 1) + 1 = Depth
      BY <2>2, <1>2
    <3>2. CpuAt(Depth - 1) = Last.cpu
      BY <3>1, <1>2 DEF CpuAt
    <3>3. Last.cpu.eip[1] \in Numbered \cup {"idt_trampoline", "iret"}
      BY <3>1, <3>2 DEF Inv, FramesInv, Layout
    <3> QED BY <3>3, <1>3 DEF Numbered, Pushes, Handler
  <2> QED BY <2>1, <2>2
<1>13. SetupInv'
  BY <1>1, <1>4, <1>12 DEF Inv, SetupInv
<1>14. IsrInv'
  <2>1. CASE Depth = 1
    <3>1. isr = {}
      BY <2>1, <1>1, IsrNow DEF Due
    <3>2. Depth' = 0
      BY <2>1, <1>5
    <3> QED BY <3>1, <3>2, <1>4 DEF IsrInv
  <2>2. CASE Depth # 1
    <3>1. 1 \in 1 .. Depth - 1 /\ 1 \in 0 .. Depth - 1 /\ Depth' # 0 /\ Depth # 0
      BY <2>2, <1>2, <1>5
    <3>2. entered'[1] = entered[1] /\ CpuAt(1)' = CpuAt(1)
      BY <3>1, <1>5, <1>6
    <3> QED BY <3>1, <3>2, <1>4 DEF Inv, IsrInv, Due
  <2> QED BY <2>1, <2>2
<1>15. TypeInv'
  BY <1>2, <1>3, <1>4, <1>5 DEF Inv, TypeInv, Events
<1> QED BY <1>7, <1>8, <1>11, <1>13, <1>14, <1>15 DEF Inv

\* The program only changes its registers.
LEMMA ProgramStepInv == ASSUME Inv, Program PROVE Inv'
<1>1. cpu.eip = <<"program">> /\ cpu.eip[1] = "program"
  BY DEF Program
<1>2. Depth = 0 /\ Depth' = 0
  BY <1>1, InProgram DEF Program, Depth
<1>3. /\ cpu' = [cpu EXCEPT !.eax = Word("eax", 1 - @[2]), !.gprs = Word("gprs", 1 - @[2])]
      /\ UNCHANGED <<irr, isr, chip, stack, masked, entered, events>>
  BY DEF Program
<1>4. /\ cpu \in Cpus /\ stack = << >> /\ cpu.eax \in {Word("eax", 0), Word("eax", 1)}
      /\ cpu.gprs \in {Word("gprs", 0), Word("gprs", 1)}
  BY <1>2 DEF Inv, TypeInv, ProgramInv, StackAt, CpuAt
<1>5. PICK a \in 0 .. 1, g \in 0 .. 1 :
        cpu' = [cpu EXCEPT !.eax = Word("eax", a), !.gprs = Word("gprs", g)]
  <2>1. cpu.eax[2] \in 0 .. 1 /\ cpu.gprs[2] \in 0 .. 1
    BY <1>4 DEF Word
  <2>2. 1 - cpu.eax[2] \in 0 .. 1 /\ 1 - cpu.gprs[2] \in 0 .. 1
    BY <2>1
  <2>3. cpu' = [cpu EXCEPT !.eax = Word("eax", 1 - cpu.eax[2]),
                           !.gprs = Word("gprs", 1 - cpu.gprs[2])]
    BY <1>3, <1>4 DEF Cpus
  <2> QED BY <2>2, <2>3
<1>6. /\ cpu' \in Cpus /\ cpu'.eip[1] = "program"
      /\ cpu'.eax \in {Word("eax", 0), Word("eax", 1)}
      /\ cpu'.gprs \in {Word("gprs", 0), Word("gprs", 1)}
  <2>1. /\ Word("eax", a) \in {Word("eax", n) : n \in 0 .. 2}
        /\ Word("gprs", g) \in {Word("gprs", n) : n \in 0 .. 2}
    OBVIOUS
  <2>2. /\ Word("eax", a) \in {Word("eax", 0), Word("eax", 1)}
        /\ Word("gprs", g) \in {Word("gprs", 0), Word("gprs", 1)}
    <3>1. (a = 0 \/ a = 1) /\ (g = 0 \/ g = 1)
      OBVIOUS
    <3> QED BY <3>1
  <2> QED BY <2>1, <2>2, <1>1, <1>4, <1>5 DEF Cpus
<1>7. ProgramInv'
  BY <1>2, <1>3, <1>4, <1>6 DEF ProgramInv, StackAt, CpuAt
<1>8. SetupInv'
  BY <1>1, <1>3, <1>6 DEF Inv, SetupInv
<1>9. FramesInv' /\ EventInv' /\ IsrInv'
  BY <1>2, <1>3 DEF Inv, FramesInv, EventInv, IsrInv
<1>10. TypeInv'
  BY <1>3, <1>6 DEF Inv, TypeInv
<1> QED BY <1>7, <1>8, <1>9, <1>10 DEF Inv

\* A line that is raised waits in its chip.
LEMMA DeviceInv == ASSUME Inv, NEW line \in Lines, Device(line) PROVE Inv'
<1>1. UNCHANGED <<isr, chip, cpu, stack, masked, entered, events>>
  BY DEF Device, Raise
<1>2. irr' \subseteq 0 .. 15
  BY InterruptsAssumption DEF Device, Raise, Inv, TypeInv
<1>3. \A k : CpuAt(k)' = CpuAt(k) /\ StackAt(k)' = StackAt(k)
  BY <1>1 DEF CpuAt, StackAt, Depth
<1>4. Depth' = Depth
  BY <1>1 DEF Depth
<1>5. FramesInv' /\ EventInv' /\ ProgramInv'
  BY <1>1, <1>3, <1>4 DEF Inv, FramesInv, EventInv, ProgramInv, LinesOk, Origin
<1>6. IsrInv' /\ SetupInv'
  BY <1>1, <1>3, <1>4 DEF Inv, IsrInv, SetupInv, ChipSet, Due
<1>7. TypeInv'
  BY <1>1, <1>2 DEF Inv, TypeInv
<1> QED BY <1>5, <1>6, <1>7 DEF Inv
-----------------------------------------------------------------------------
(***************************************************************************)
(* The invariant, and what follows from it.                                *)
(***************************************************************************)

\* start calls pic_init before any event.
LEMMA InitInv == Init => Inv
<1> SUFFICES ASSUME Init PROVE Inv
  OBVIOUS
<1>1. /\ cpu = [eip |-> <<"pic_init", 1>>, eax |-> Word("eax", 0),
                gprs |-> Word("gprs", 0), if |-> FALSE, ring |-> 0]
      /\ stack = << >> /\ masked = FALSE /\ entered = << >> /\ events = 0
      /\ irr \in SUBSET Lines /\ isr = {}
  BY DEF Init
<1>2. chip \in [Chips -> ChipType] /\ \A c \in Chips : chip[c].aeoi = FALSE
  <2>1. PICK x \in Expectations :
          chip = [c \in Chips |-> [expects |-> x, base |-> IF c = 1 THEN 8 ELSE 112,
                                   cascade |-> IF c = 1 THEN 4 ELSE 2, icw4 |-> TRUE,
                                   aeoi |-> FALSE]]
    BY DEF Init, ChipInit
  <2> QED BY <2>1 DEF ChipType, Chips
<1>3. Depth = 0
  BY <1>1 DEF Depth
<1>4. /\ cpu.eip = <<"pic_init", 1>> /\ cpu.eip[1] = "pic_init" /\ cpu.eip[2] = 1
      /\ cpu.eax = Word("eax", 0) /\ cpu.gprs = Word("gprs", 0)
      /\ cpu.if = FALSE /\ cpu.ring = 0
  BY <1>1
<1>5. cpu \in Cpus
  <2>1. <<"pic_init", 1>> \in Eips
    BY DEF Eips
  <2> QED BY <2>1, <1>1 DEF Cpus
<1>6. ProgramInv
  BY <1>1, <1>3, <1>4 DEF ProgramInv, CpuAt, StackAt
<1>7. SetupInv
  <2>1. 1 \div 2 = 0 /\ (1 - 1) \div 2 = 0
    OBVIOUS
  <2>2. ChipSet(1, 0, 32, 4) /\ ChipSet(2, 0, 40, 2)
    BY DEF ChipSet
  <2>3. ChipSet(1, cpu.eip[2] \div 2, 32, 4) /\ ChipSet(2, (cpu.eip[2] - 1) \div 2, 40, 2)
    BY <2>1, <2>2, <1>4
  <2> QED BY <2>3, <1>1, <1>2, <1>4 DEF SetupInv
<1>8. FramesInv /\ EventInv /\ IsrInv
  BY <1>1, <1>3 DEF FramesInv, EventInv, IsrInv
<1>9. TypeInv
  <2>1. << >> \in Seq(Cells) /\ << >> \in Seq(Events)
    OBVIOUS
  <2>2. irr \subseteq 0 .. 15 /\ isr \subseteq 0 .. 15 /\ events \in 0 .. MaxEvents
    BY <1>1, InterruptsAssumption
  <2>3. stack \in Seq(Cells) /\ entered \in Seq(Events) /\ masked \in BOOLEAN
    BY <1>1, <2>1
  <2> QED BY <1>2, <1>5, <2>2, <2>3 DEF TypeInv
<1> QED BY <1>6, <1>7, <1>8, <1>9 DEF Inv

\* Every action keeps the invariant.
LEMMA StepInv == Inv /\ [Next]_vars => Inv'
<1> SUFFICES ASSUME Inv, [Next]_vars PROVE Inv'
  OBVIOUS
<1>1. CASE SetupPic
  BY <1>1, SetupPicInv
<1>2. CASE Kernel
  <2>1. ASSUME NEW vector \in 0 .. 255, Trampoline(vector) PROVE Inv'
    BY <2>1, TrampolineInv
  <2> QED BY <2>1, <1>2, AckPic2Inv, AckPic1Inv, EoiPic1Inv, IdtCommonInv, ResumeInv,
             ExcpHdlrInv, IntrHdlrInv, IretInv DEF Kernel
<1>3. CASE Program
  BY <1>3, ProgramStepInv
<1>4. CASE Nmi
  BY <1>4, NmiInv
<1>5. ASSUME NEW vector \in Faults, Fault(vector) PROVE Inv'
  BY <1>5, FaultInv
<1>6. ASSUME NEW vector \in Software, SoftwareInt(vector) PROVE Inv'
  BY <1>6, SoftwareInv
<1>7. ASSUME NEW line \in Lines, Device(line) \/ Irq(line) \/ Spurious(line) PROVE Inv'
  BY <1>7, DeviceInv, IrqInv, SpuriousInv
<1>8. CASE UNCHANGED vars
  <2>1. UNCHANGED <<irr, isr, chip, cpu, stack, masked, entered, events>>
    BY <1>8 DEF vars
  <2>2. \A k : CpuAt(k)' = CpuAt(k) /\ StackAt(k)' = StackAt(k)
    BY <2>1 DEF CpuAt, StackAt, Depth
  <2>3. Depth' = Depth
    BY <2>1 DEF Depth
  <2>4. FramesInv' /\ EventInv' /\ ProgramInv'
    BY <2>1, <2>2, <2>3 DEF Inv, FramesInv, EventInv, ProgramInv, LinesOk, Origin
  <2>5. IsrInv' /\ SetupInv'
    BY <2>1, <2>2, <2>3 DEF Inv, IsrInv, SetupInv, ChipSet, Due
  <2>6. TypeInv'
    BY <2>1 DEF Inv, TypeInv
  <2> QED BY <2>4, <2>5, <2>6 DEF Inv
<1> QED BY <1>1, <1>2, <1>3, <1>4, <1>5, <1>6, <1>7, <1>8 DEF Next

\* In every reachable state the stack of every event is laid out as its label says.
LEMMA Invariant == Spec => []Inv
BY InitInv, StepInv, PTL DEF Spec

\* The variables of the way through the IDT keep their types.
THEOREM Typed == Spec => []TypeOK
<1>1. Inv => TypeOK
  <2> SUFFICES ASSUME Inv PROVE TypeOK
    OBVIOUS
  <2>1. PicTypeOK
    BY DEF Inv, TypeInv, PicTypeOK
  <2>2. PicSetupTypeOK
    <3>1. \A c \in Chips : chip[c] \in ChipType
      BY DEF Inv, TypeInv
    <3>2. ASSUME NEW r \in ChipType
          PROVE  /\ r.expects \in Expectations /\ r.base \in 0 .. 248
                 /\ r.cascade \in 0 .. 255 /\ r.icw4 \in BOOLEAN /\ r.aeoi \in BOOLEAN
      BY DEF ChipType
    <3> QED BY <3>1, <3>2, Zenon DEF PicSetupTypeOK
  <2>3. Len(Words) = 8
    BY DEF Words
  <2>4. cpu \in Cpus /\ masked \in BOOLEAN /\ events \in 0 .. MaxEvents
    BY DEF Inv, TypeInv
  <2>5. /\ cpu.eip \in {<<label>> : label \in Labels}
                    \cup {<<"idt_trampoline", vector>> : vector \in 0 .. 255}
                    \cup {<<"pic_init", k>> : k \in 1 .. Len(Words)}
        /\ cpu.eax \in {Word("eax", n) : n \in 0 .. Scratch}
        /\ cpu.gprs \in {Word("gprs", n) : n \in 0 .. Scratch}
        /\ cpu.if \in BOOLEAN /\ cpu.ring \in {0, 3}
    BY <2>3, <2>4 DEF Cpus, Eips, Scratch
  <2> QED BY <2>1, <2>2, <2>4, <2>5 DEF TypeOK
<1> QED BY <1>1, Invariant, PTL

\* Whatever the event and however deep it nests, intr_hdlr finds in the frame the
\* event's number, its error code or -1, and the state of what it interrupted.
THEOREM Uniform == Spec => []FrameUniform
<1>1. Inv => FrameUniform
  <2> SUFFICES ASSUME Inv, cpu.eip = <<"intr_hdlr">> PROVE FrameUniform
    BY DEF FrameUniform
  <2>1. cpu.eip[1] = "intr_hdlr" /\ cpu.eip[1] \in Handler /\ cpu.eip[1] \in Numbered
    BY DEF Handler, Numbered
  <2>2. Facts /\ Layout(Last, cpu, stack)
    BY <2>1, AtLabel
  <2>3. /\ Len(stack) = Frame(Last) + 4 /\ Frame(Last) \in Nat
        /\ stack[Frame(Last) + 4] = Last.cpu.gprs /\ stack[Frame(Last) + 3] = Last.cpu.eax
        /\ stack[Frame(Last) + 2] = Word("nr", Last.vector)
        /\ stack[Frame(Last) + 1] = Word("err", Last.err)
        /\ stack[Frame(Last)] = Word("eip", Last.cpu.eip)
        /\ stack[Frame(Last) - 1] = Word("cs", Last.cpu.ring)
        /\ stack[Frame(Last) - 2] = Word("eflags", Last.cpu.if)
    BY <2>1, <2>2 DEF Layout, Stub, Facts, Pushed
  <2>4. /\ Len(stack) - 0 = Frame(Last) + 4 /\ Len(stack) - 1 = Frame(Last) + 3
        /\ Len(stack) - 2 = Frame(Last) + 2 /\ Len(stack) - 3 = Frame(Last) + 1
        /\ Len(stack) - 4 = Frame(Last) /\ Len(stack) - 5 = Frame(Last) - 1
        /\ Len(stack) - 6 = Frame(Last) - 2
    BY <2>3
  <2> QED BY <2>3, <2>4, Zenon DEF FrameUniform, Top
<1> QED BY <1>1, Invariant, PTL

\* Each EOI ends the line it is meant for, on the chip it is meant for: the lines
\* in service are those of the interrupts whose stub has not got to its EOI.
THEOREM EachEoi == Spec => []EoiDiscipline
<1>1. Inv => EoiDiscipline
  <2> SUFFICES ASSUME Inv PROVE EoiDiscipline
    OBVIOUS
  <2>1. /\ Depth \in Nat /\ DOMAIN entered = 1 .. Depth
        /\ \A k \in 1 .. Depth : entered[k] \in Events
    BY EntryFacts, LenProperties DEF Inv, TypeInv, Depth
  <2>2. ASSUME NEW k \in 1 .. Depth PROVE ToEnd(k) = Due(entered[k], CpuAt(k).eip[1])
    <3>1. Reached(k) = CpuAt(k).eip
      BY DEF Reached, CpuAt, Depth
    <3> QED BY <3>1 DEF ToEnd, Due
  <2>3. ASSUME NEW k \in 1 .. Depth, k # 1 PROVE ToEnd(k) = {}
    <3>1. entered[k].lines = {}
      BY <2>3 DEF Inv, EventInv
    <3> QED BY <3>1, <2>2 DEF Due
  <2>4. CASE Depth = 0
    BY <2>1, <2>4 DEF EoiDiscipline, Inv, IsrInv
  <2>5. CASE Depth # 0
    <3>1. 1 \in 1 .. Depth
      BY <2>1, <2>5
    <3>2. isr = ToEnd(1)
      BY <3>1, <2>2, <2>5 DEF Inv, IsrInv
    <3>3. UNION {ToEnd(k) : k \in DOMAIN entered} = ToEnd(1)
      BY <3>1, <2>1, <2>3
    <3> QED BY <3>2, <3>3 DEF EoiDiscipline
  <2> QED BY <2>4, <2>5
<1> QED BY <1>1, Invariant, PTL

\* Only a fault, of whatever code, stops the kernel.
THEOREM Panics == Spec => []OnlyFaultsPanic
<1>1. Inv => OnlyFaultsPanic
  <2> SUFFICES ASSUME Inv, cpu.eip = <<"panic">> PROVE OnlyFaultsPanic
    BY DEF OnlyFaultsPanic
  <2>1. cpu.eip[1] = "panic" /\ cpu.eip[1] \in Numbered
    BY DEF Numbered, Handler
  <2>2. Facts /\ Layout(Last, cpu, stack)
    BY <2>1, AtLabel
  <2>3. Origin(Last)
    BY <2>1, InKernel
  <2>4. Last.vector < 32 /\ Last.vector # NMI_EXCP /\ Last.vector \in 0 .. 255
        /\ Last.vector \notin 20 .. 31
    BY <2>1, <2>2 DEF Layout, Route, NR_EXCP, Facts
  <2>5. ~(Last.vector >= 20)
    BY <2>4
  <2> QED BY <2>3, <2>4, <2>5 DEF Origin, OnlyFaultsPanic
<1> QED BY <1>1, Invariant, PTL

\* An event that is returned from changes nothing of what it interrupted: no
\* register, not the interrupt flag, not a word of the stack.
THEOREM Unnoticed == Spec => Transparent
<1>1. Inv /\ [Next]_vars =>
        [Len(entered') < Len(entered) => stack' = Last.stack /\ cpu' = Last.cpu]_vars
  <2> SUFFICES ASSUME Inv, Next, Len(entered') < Len(entered)
               PROVE  stack' = Last.stack /\ cpu' = Last.cpu
    OBVIOUS
  <2>1. entered \in Seq(Events) /\ Len(entered) \in Nat
    BY LenProperties DEF Inv, TypeInv
  <2>2. entered' # entered
    BY <2>1
  <2>3. \A e : entered' # Append(entered, e)
    BY <2>1
  <2>4. \A v, code, lines : ~Enter(v, code, lines)
    BY <2>3, Zenon DEF Enter
  <2>5. ~SetupPic /\ ~Program
    BY <2>2 DEF SetupPic, Program
  <2>6. ~Nmi /\ (\A v \in Faults : ~Fault(v)) /\ (\A v \in Software : ~SoftwareInt(v))
    BY <2>4 DEF Nmi, Fault, SoftwareInt
  <2>7. \A line \in Lines : ~Device(line) /\ ~Irq(line) /\ ~Spurious(line)
    BY <2>2, <2>4 DEF Device, Irq, Spurious
  <2>8. /\ ~AckPic2 /\ ~AckPic1 /\ ~EoiPic1 /\ ~IdtCommon /\ ~Resume /\ ~ExcpHdlr /\ ~IntrHdlr
        /\ \A v \in 0 .. 255 : ~Trampoline(v)
    BY <2>2 DEF AckPic2, AckPic1, EoiPic1, IdtCommon, Resume, ExcpHdlr, IntrHdlr, Trampoline
  <2>9. Iret
    BY <2>5, <2>6, <2>7, <2>8 DEF Next, Kernel
  <2> QED BY <2>9, IretRestores
<1> QED BY <1>1, Invariant, PTL DEF Spec, Transparent
=============================================================================
