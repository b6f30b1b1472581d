------------------------------ MODULE PagingUnit ------------------------------
(***************************************************************************)
(* Paging as tp4/tp.c meets it: tables that are changed while they are in  *)
(* use, through addresses that they translate, and a translation lookaside *)
(* buffer (TLB) that may hold what they said before.                       *)
(*                                                                         *)
(* Memory is counted in frames of 4 KB, and a virtual page is a pair of    *)
(* indices, as in module Paging.  tp4 maps everything for the kernel only, *)
(* and present and writable, or not at all: an entry is the frame it maps. *)
(***************************************************************************)
EXTENDS Integers

CONSTANT N     \* entries of a table, PDE32_PER_PD (1024)

ASSUME TableSize == N \in Nat /\ N >= 6

VARIABLES
  table,    \* table[frame][index]: the entries of the four tables
  cr3,      \* the page directory in use
  pg,       \* CR0.PG
  tlb       \* translations the processor holds

paging == <<table, cr3, pg, tlb>>

Index == 0 .. N - 1

\* 0x600000 and on; 0x700000 and 0x7ff000 lie in the same 4 MB.
pgd  == N
ptb  == N + 1
ptb2 == N + 2
ptb3 == N + 3
v1   == N + 4
v2   == N + 5
Tables == {pgd, ptb, ptb2, ptb3}

\* The page of the kernel with its stack and the IDT, that of Grub's GDT, and
\* the frame that tp4 makes two pages share.
KernelFrame == 3
GdtFrame    == 0
SharedFrame == 2

\* pd32_get_idx, pt32_get_idx
Virtual(frame) == <<frame \div N, frame % N>>

\* 0xc0000000, its index scaled to a table of N entries
target == <<N - 1, 0>>

Absent == -1
Junk   == -2

Pages == {Virtual(f) : f \in Tables \cup {v1, v2, KernelFrame, GdtFrame}} \cup {target}

PagingInit ==
  /\ table \in [Tables -> {[j \in Index |-> Absent], [j \in Index |-> Junk]}]
  /\ cr3 = 0 /\ pg = FALSE
  /\ tlb = [p \in Pages |-> Absent]

\* The processor's walk: Absent when an entry on the way is not present.
Walk(page) ==
  LET second == IF cr3 \in Tables THEN table[cr3][page[1]] ELSE Junk
  IN  IF second \in Tables THEN table[second][page[2]] ELSE Absent

\* Where an access to a page goes: a translation that is held is used.
Resolve(page) == IF tlb[page] = Absent THEN Walk(page) ELSE tlb[page]

\* Before paging, addresses are physical.
Frame(frame) == IF pg THEN Resolve(Virtual(frame)) ELSE frame

\* An access to this frame's own address succeeds.
Reachable(frame) == Frame(frame) >= 0

\* The processor reads a translation ahead of its use, or drops one.
Fill(page) ==
  /\ pg /\ tlb[page] = Absent /\ Walk(page) # Absent
  /\ tlb' = [tlb EXCEPT ![page] = Walk(page)]
  /\ UNCHANGED <<table, cr3, pg>>

Evict(page) ==
  /\ pg /\ tlb[page] # Absent
  /\ tlb' = [tlb EXCEPT ![page] = Absent]
  /\ UNCHANGED <<table, cr3, pg>>

\* set_cr3: translations are dropped.
SetCr3(frame) ==
  /\ cr3' = frame /\ tlb' = [p \in Pages |-> Absent]
  /\ UNCHANGED <<table, pg>>

\* set_cr0(cr0 | CR0_PG)
EnablePaging == pg' = TRUE /\ UNCHANGED <<table, cr3, tlb>>

\* Stores to a table go through its own address: "entries" by index.
Store(frame, entries) ==
  /\ table' = [table EXCEPT ![Frame(frame)] =
                 [j \in Index |-> IF j \in DOMAIN entries THEN entries[j] ELSE @[j]]]
  /\ UNCHANGED <<cr3, pg, tlb>>

\* What the first word of a frame is: an entry, or that frame's data.
Content(frame) == IF frame \in Tables THEN table[frame][0] ELSE <<"data", frame>>

PagingTypeOK ==
  /\ \A t \in Tables : \A j \in Index : table[t][j] \in -2 .. 2 * N - 1
  /\ cr3 \in {0, pgd} /\ pg \in BOOLEAN
  /\ \A p \in Pages : tlb[p] \in -1 .. 2 * N - 1
=============================================================================
