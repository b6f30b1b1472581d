----------------------------- MODULE SegmentUnit -----------------------------
(***************************************************************************)
(* Segmentation as kernel/include/segmem.h describes it to the kernel's    *)
(* code: selectors, descriptors, the global descriptor table, the task     *)
(* state segment, and what the processor checks when it loads a selector.  *)
(* A segment register keeps the descriptor it was loaded with: a table     *)
(* that changes afterwards, or a new GDTR, shows at the next load only.    *)
(***************************************************************************)
EXTENDS Integers

VARIABLES
  gdt,     \* gdt[table][index]: the loader's table, and the program's own
  gdtr,    \* the table in use, and its limit in bytes
  seg,     \* the segment registers: selector and descriptor
  ring,    \* the privilege level of the code that runs
  tr,      \* the task register: the index of a descriptor, 0 if not loaded
  tss      \* TSS.s0, the stack that ring 0 is entered on

segmentation == <<gdt, gdtr, seg, ring, tr, tss>>

SegRegs  == {"cs", "ss", "ds", "es", "fs", "gs"}
DataRegs == {"ds", "es", "fs", "gs"}

\* gdt_krn_seg_sel, gdt_usr_seg_sel
KrnSel(index) == [index |-> index, rpl |-> 0]
UsrSel(index) == [index |-> index, rpl |-> 3]

\* A limit of 4 GB; the bases of tp1.c are within TLC's integers.
Everything == 2147483647

Descriptor(kind, dpl, base, limit) ==
  [kind |-> kind, dpl |-> dpl, base |-> base, limit |-> limit]

NullDesc == Descriptor("null", 0, 0, 0)
JunkDesc == Descriptor("junk", 0, 0, 0)   \* memory that nobody has written

\* gdt_flat_dsc(_dSc_, dpl, SEG_DESC_CODE_XR or SEG_DESC_DATA_RW)
FlatDesc(dpl, kind) == Descriptor(kind, dpl, 0, Everything)

\* tss_dsc, create_tss_dsc: the limit is the size, one byte more than the last.
TssDesc == Descriptor("tss_avl", 0, 0, 8329)

Descriptors ==
  {NullDesc, JunkDesc, TssDesc, [TssDesc EXCEPT !.kind = "tss_busy"],
   Descriptor("data", 0, 6291456, 31), Descriptor("code", 0, 0, 65535),
   Descriptor("data", 0, 0, 65535)}
    \cup {FlatDesc(dpl, kind) : dpl \in {0, 3}, kind \in {"code", "data"}}

\* What Grub leaves: the table that tp1.c prints, flat code and data in use.
LoaderTable ==
  [i \in 0 .. 4 |->
     CASE i = 0 -> NullDesc
       [] i = 1 -> FlatDesc(0, "code")
       [] i = 2 -> FlatDesc(0, "data")
       [] i = 3 -> Descriptor("code", 0, 0, 65535)
       [] i = 4 -> Descriptor("data", 0, 0, 65535)]

Loaded(sel, desc) == [sel |-> sel, desc |-> desc]

SegmentInit(own) ==
  /\ gdt = [grub |-> LoaderTable, own |-> own]
  /\ gdtr = [table |-> "grub", limit |-> 39]
  /\ seg = [r \in SegRegs |-> IF r = "cs" THEN Loaded(KrnSel(1), LoaderTable[1])
                                          ELSE Loaded(KrnSel(2), LoaderTable[2])]
  /\ ring = 0 /\ tr = 0 /\ tss = [ss |-> KrnSel(0), esp |-> 0]
-----------------------------------------------------------------------------
\* The descriptor that a selector names in the table in use.
Entry(sel) ==
  IF 8 * sel.index + 7 <= gdtr.limit THEN gdt[gdtr.table][sel.index] ELSE NullDesc

\* lgdt: no register is reloaded.
Lgdt(table, limit) == gdtr' = [table |-> table, limit |-> limit]

\* set_ss in ring r: stack, code and selector have one level.
StackOk(sel, r) ==
  /\ Entry(sel).kind = "data"
  /\ Entry(sel).dpl = r /\ sel.rpl = r

\* set_ds and the like: neither the code's level nor the selector's is weaker.
DataOk(sel) ==
  /\ Entry(sel).kind = "data"
  /\ Entry(sel).dpl >= ring /\ Entry(sel).dpl >= sel.rpl

CanLoad(reg, sel) == IF reg = "ss" THEN StackOk(sel, ring) ELSE DataOk(sel)

\* set_cs: a far jump stays in its ring.
CanJump(sel) ==
  /\ Entry(sel).kind = "code"
  /\ Entry(sel).dpl = ring /\ sel.rpl <= ring

\* set_tr: the TSS is available, and is busy from then on.
CanLtr(sel) == ring = 0 /\ Entry(sel).kind = "tss_avl"

Load(reg, sel) == [seg EXCEPT ![reg] = Loaded(sel, Entry(sel))]

\* Every gate of intr_init names this code segment.
GateSel == KrnSel(1)

\* An event can reach its gate's code: from ring 3 on the stack of the TSS.
CanEnter ==
  /\ Entry(GateSel).kind = "code" /\ Entry(GateSel).dpl = 0
  /\ ring = 3 => tr # 0 /\ StackOk(tss.ss, 0)

Entered ==
  [seg EXCEPT !["cs"] = Loaded(GateSel, Entry(GateSel)),
              !["ss"] = IF ring = 3 THEN Loaded(tss.ss, Entry(tss.ss)) ELSE @]

\* iret from a ring to "cs", and "ss" if it lowers the privilege level; never raises it.
CanReturn(from, cs, ss) ==
  /\ cs.rpl >= from
  /\ Entry(cs).kind = "code" /\ Entry(cs).dpl = cs.rpl
  /\ cs.rpl > from => StackOk(ss, cs.rpl)

\* A data segment that the outer ring may not use is lost on the way.
Kept(reg, r) == IF seg[reg].desc.dpl >= r THEN seg[reg] ELSE Loaded(KrnSel(0), NullDesc)

Returned(from, cs, ss) ==
  [reg \in SegRegs |->
     CASE reg = "cs" -> Loaded(cs, Entry(cs))
       [] reg = "ss" -> IF cs.rpl > from THEN Loaded(ss, Entry(ss)) ELSE seg["ss"]
       [] OTHER -> Kept(reg, cs.rpl)]

SegmentTypeOK ==
  /\ \A table \in DOMAIN gdt : \A i \in DOMAIN gdt[table] : gdt[table][i] \in Descriptors
  /\ gdtr.table \in DOMAIN gdt /\ gdtr.limit \in Nat
  /\ \A reg \in SegRegs : seg[reg].desc \in Descriptors
  /\ ring \in {0, 3} /\ tr \in 0 .. 6
=============================================================================
