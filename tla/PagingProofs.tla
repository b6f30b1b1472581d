---------------------------- MODULE PagingProofs ----------------------------
(***************************************************************************)
(* Isolation of the address spaces, for every size of the tables and every *)
(* placement of them that LayoutAssumption allows.                         *)
(***************************************************************************)
EXTENDS Paging, TLAPS

-----------------------------------------------------------------------------
(***************************************************************************)
(* The inductive invariant: at each statement of config_pgds, what has     *)
(* been written so far is known, and the rest is empty.                    *)
(***************************************************************************)
FromShare  == {"share", "link_kernel", "link_task", "link_shared",
               "set_cr3", "set_cr0", "config", "run"}
FromKernel == FromShare \ {"share"}
FromTask   == FromKernel \ {"link_kernel"}
FromAlias  == FromTask \ {"link_task"}
FromCr3    == FromAlias \ {"link_shared"}

\* What an entry written by the statement before "after" holds by now.
Since(after, entry) == IF pc \in after THEN entry ELSE Null

InLoop(j, entry) ==
  IF pc \in FromShare \/ (pc = "map" /\ j < i) THEN entry ELSE Null

Written(table, j) ==
  CASE table = pgd ->
         IF j = 0 THEN Since(FromTask, Krn(pgd_ptb)) ELSE Null
    [] table = pgd_ptb \/ table = ptb(0, 0) \/ table = ptb(1, 0) ->
         InLoop(j, Krn(j))
    [] table = ptb(0, 1) -> InLoop(j, Usr(N + j))
    [] table = ptb(1, 1) -> InLoop(j, Usr(2 * N + j))
    [] table = ptb(0, 2) \/ table = ptb(1, 2) ->
         IF j = 0 THEN Since(FromKernel, Usr(Shared)) ELSE Null
    [] table = pgd_task(0) ->
         CASE j = 0 -> Since(FromTask, Krn(ptb(0, 0)))
           [] j = 1 -> Since(FromAlias, Usr(ptb(0, 1)))
           [] j = 2 -> Since(FromCr3, Usr(ptb(0, 2)))
           [] OTHER -> Null
    [] table = pgd_task(1) ->
         CASE j = 0 -> Since(FromTask, Krn(ptb(1, 0)))
           [] j = 1 -> Since(FromCr3, Usr(ptb(1, 2)))
           [] j = 2 -> Since(FromAlias, Usr(ptb(1, 1)))
           [] OTHER -> Null
    [] OTHER -> Null

TablesInv ==
  \A table \in Tables, j \in Index :
    pc # "memset" \/ table < First + i => mem[table][j] = Written(table, j)

StatementInv ==
  /\ pc = "memset" => i \in 0 .. 9
  /\ pc = "map" => i \in Index
  /\ paging <=> pc \in {"config", "run"}
  /\ pc \in {"set_cr0", "config"} => cr3 = pgd
  /\ pc = "run" => cr3 = pgd_task(IF current = NoTask THEN 0 ELSE current)
  /\ current # NoTask => pc = "run"

IInv == TypeOK /\ StatementInv /\ TablesInv /\ Reached

-----------------------------------------------------------------------------
\* The names of the tables are those of different frames.
LEMMA TableNumbers ==
  /\ Tables = {pgd, pgd_ptb, pgd_task(0), ptb(0, 0), ptb(0, 1), ptb(0, 2),
               pgd_task(1), ptb(1, 0), ptb(1, 1), ptb(1, 2)}
  /\ pgd = First /\ pgd_ptb = First + 1 /\ pgd_task(0) = First + 2
  /\ ptb(0, 0) = First + 3 /\ ptb(0, 1) = First + 4 /\ ptb(0, 2) = First + 5
  /\ pgd_task(1) = First + 6
  /\ ptb(1, 0) = First + 7 /\ ptb(1, 1) = First + 8 /\ ptb(1, 2) = First + 9
BY LayoutAssumption DEF Tables, pgd, pgd_ptb, pgd_task, ptb

\* The entries config_pgds writes are entries.
LEMMA EntryTypes ==
  /\ Null \in PageEntries /\ Garbage \in PageEntries
  /\ \A f \in Frames : Krn(f) \in PageEntries /\ Usr(f) \in PageEntries
  /\ \A j \in Index : j \in Frames /\ N + j \in Frames /\ 2 * N + j \in Frames
  /\ Tables \subseteq Frames /\ Tables \subseteq Index
  /\ Shared \in Frames /\ 0 \in Frames
BY LayoutAssumption
   DEF Null, Garbage, Krn, Usr, PageEntries, Frames, Index, Tables

\* What ten tables may contain.
Contents == [Tables -> [Index -> PageEntries]]

\* pg_set_entry writes one entry and leaves the others.
LEMMA PgSetEntry ==
  ASSUME NEW m \in Contents,
         NEW table \in Tables, NEW j \in Index, NEW entry \in PageEntries
  PROVE  /\ PgSet(m, table, j, entry) \in Contents
         /\ \A u \in Tables, l \in Index :
              PgSet(m, table, j, entry)[u][l]
                = IF u = table /\ l = j THEN entry ELSE m[u][l]
BY DEF PgSet, Contents

\* What an iteration of the loop leaves in the tables.
LEMMA MappedEntries ==
  ASSUME TypeOK, i \in Index
  PROVE  /\ Mapped \in Contents
         /\ \A u \in Tables, l \in Index :
              Mapped[u][l] =
                IF l # i THEN mem[u][l]
                ELSE IF u \in {pgd_ptb, ptb(0, 0), ptb(1, 0)} THEN Krn(i)
                ELSE IF u = ptb(0, 1) THEN Usr(N + i)
                ELSE IF u = ptb(1, 1) THEN Usr(2 * N + i)
                ELSE mem[u][l]
<1> DEFINE m1 == PgSet(mem, pgd_ptb, i, Krn(i))
           m2 == PgSet(m1, ptb(0, 0), i, Krn(i))
           m3 == PgSet(m2, ptb(1, 0), i, Krn(i))
           m4 == PgSet(m3, ptb(0, 1), i, Usr(N + i))
           m5 == PgSet(m4, ptb(1, 1), i, Usr(2 * N + i))
<1>1. /\ Krn(i) \in PageEntries /\ Usr(N + i) \in PageEntries
      /\ Usr(2 * N + i) \in PageEntries
      /\ {pgd_ptb, ptb(0, 0), ptb(1, 0), ptb(0, 1), ptb(1, 1)} \subseteq Tables
      /\ mem \in Contents
  BY EntryTypes, TableNumbers DEF TypeOK, Contents
<1>2. m1 \in Contents /\ \A u \in Tables, l \in Index :
        m1[u][l] = IF u = pgd_ptb /\ l = i THEN Krn(i) ELSE mem[u][l]
  BY <1>1, PgSetEntry
<1> HIDE DEF m1
<1>3. m2 \in Contents /\ \A u \in Tables, l \in Index :
        m2[u][l] = IF u = ptb(0, 0) /\ l = i THEN Krn(i) ELSE m1[u][l]
  BY <1>1, <1>2, PgSetEntry
<1> HIDE DEF m2
<1>4. m3 \in Contents /\ \A u \in Tables, l \in Index :
        m3[u][l] = IF u = ptb(1, 0) /\ l = i THEN Krn(i) ELSE m2[u][l]
  BY <1>1, <1>3, PgSetEntry
<1> HIDE DEF m3
<1>5. m4 \in Contents /\ \A u \in Tables, l \in Index :
        m4[u][l] = IF u = ptb(0, 1) /\ l = i THEN Usr(N + i) ELSE m3[u][l]
  BY <1>1, <1>4, PgSetEntry
<1> HIDE DEF m4
<1>6. m5 \in Contents /\ \A u \in Tables, l \in Index :
        m5[u][l] = IF u = ptb(1, 1) /\ l = i THEN Usr(2 * N + i) ELSE m4[u][l]
  BY <1>1, <1>5, PgSetEntry
<1>7. Mapped = m5
  BY DEF Mapped, MappedKernel, m1, m2, m3, m4
<1> HIDE DEF m5
<1>8. \A u \in Tables, l \in Index : l # i => m5[u][l] = mem[u][l]
  BY <1>2, <1>3, <1>4, <1>5, <1>6
<1>9. \A u \in Tables : m5[u][i] =
        IF u \in {pgd_ptb, ptb(0, 0), ptb(1, 0)} THEN Krn(i)
        ELSE IF u = ptb(0, 1) THEN Usr(N + i)
        ELSE IF u = ptb(1, 1) THEN Usr(2 * N + i)
        ELSE mem[u][i]
  <2>1. /\ ptb(0, 1) \notin {pgd_ptb, ptb(0, 0), ptb(1, 0), ptb(1, 1)}
        /\ ptb(1, 1) \notin {pgd_ptb, ptb(0, 0), ptb(1, 0)}
    BY TableNumbers, LayoutAssumption
  <2> QED
    BY <1>2, <1>3, <1>4, <1>5, <1>6, <2>1
<1> QED
  BY <1>6, <1>7, <1>8, <1>9

\* What a step that writes two entries leaves in the tables.
LEMMA TwoEntries ==
  ASSUME TypeOK,
         NEW t \in Tables, NEW j \in Index, NEW e \in PageEntries,
         NEW u \in Tables, NEW l \in Index, NEW f \in PageEntries, t # u
  PROVE  LET m == PgSet(PgSet(mem, t, j, e), u, l, f) IN
         /\ m \in Contents
         /\ \A v \in Tables, k \in Index :
              m[v][k] = IF v = t /\ k = j THEN e
                        ELSE IF v = u /\ k = l THEN f ELSE mem[v][k]
<1> DEFINE n == PgSet(mem, t, j, e)
           m == PgSet(n, u, l, f)
<1>0. mem \in Contents
  BY DEF TypeOK, Contents
<1>1. n \in Contents /\ \A v \in Tables, k \in Index :
        n[v][k] = IF v = t /\ k = j THEN e ELSE mem[v][k]
  BY <1>0, PgSetEntry
<1> HIDE DEF n
<1>2. m \in Contents /\ \A v \in Tables, k \in Index :
        m[v][k] = IF v = u /\ k = l THEN f ELSE n[v][k]
  BY <1>1, PgSetEntry
<1> HIDE DEF m
<1>3. /\ m \in Contents
      /\ \A v \in Tables, k \in Index :
           m[v][k] = IF v = t /\ k = j THEN e
                     ELSE IF v = u /\ k = l THEN f ELSE mem[v][k]
  BY <1>1, <1>2
<1> QED
  BY <1>3 DEF m, n

\* The directories, once they are linked.
LEMMA KernelEntries ==
  ASSUME TypeOK
  PROVE  LET m == PgSet(PgSet(PgSet(mem, pgd, 0, Krn(pgd_ptb)),
                              pgd_task(0), 0, Krn(ptb(0, 0))),
                        pgd_task(1), 0, Krn(ptb(1, 0))) IN
         /\ m \in Contents
         /\ \A v \in Tables, k \in Index :
              m[v][k] = IF k # 0 THEN mem[v][k]
                        ELSE IF v = pgd THEN Krn(pgd_ptb)
                        ELSE IF v = pgd_task(0) THEN Krn(ptb(0, 0))
                        ELSE IF v = pgd_task(1) THEN Krn(ptb(1, 0))
                        ELSE mem[v][k]
<1> DEFINE n == PgSet(PgSet(mem, pgd, 0, Krn(pgd_ptb)),
                      pgd_task(0), 0, Krn(ptb(0, 0)))
           m == PgSet(n, pgd_task(1), 0, Krn(ptb(1, 0)))
<1>1. /\ {Krn(pgd_ptb), Krn(ptb(0, 0)), Krn(ptb(1, 0))} \subseteq PageEntries
      /\ {pgd, pgd_task(0), pgd_task(1)} \subseteq Tables
      /\ pgd # pgd_task(0) /\ pgd # pgd_task(1) /\ pgd_task(0) # pgd_task(1)
      /\ 0 \in Index
  BY EntryTypes, TableNumbers, LayoutAssumption DEF Index
<1>2. n \in Contents /\ \A v \in Tables, k \in Index :
        n[v][k] = IF v = pgd /\ k = 0 THEN Krn(pgd_ptb)
                  ELSE IF v = pgd_task(0) /\ k = 0 THEN Krn(ptb(0, 0))
                  ELSE mem[v][k]
  BY <1>1, TwoEntries
<1> HIDE DEF n
<1>3. m \in Contents /\ \A v \in Tables, k \in Index :
        m[v][k] = IF v = pgd_task(1) /\ k = 0 THEN Krn(ptb(1, 0)) ELSE n[v][k]
  BY <1>1, <1>2, PgSetEntry
<1> HIDE DEF m
<1>4. /\ m \in Contents
      /\ \A v \in Tables, k \in Index :
           m[v][k] = IF k # 0 THEN mem[v][k]
                     ELSE IF v = pgd THEN Krn(pgd_ptb)
                     ELSE IF v = pgd_task(0) THEN Krn(ptb(0, 0))
                     ELSE IF v = pgd_task(1) THEN Krn(ptb(1, 0))
                     ELSE mem[v][k]
  BY <1>1, <1>2, <1>3
<1> QED
  BY <1>4 DEF m, n

-----------------------------------------------------------------------------
(***************************************************************************)
(* Each statement preserves the invariant.                                 *)
(***************************************************************************)

\* The boot state has nothing written yet.
LEMMA InitInvariant == Init => IInv
<1> SUFFICES ASSUME Init PROVE IInv
  OBVIOUS
<1> DEFINE Contained == [Index -> PageEntries]
           empty == [j \in Index |-> Null]
           dirty == [j \in Index |-> Garbage]
<1>0. empty \in Contained /\ dirty \in Contained
  BY EntryTypes
<1>1. mem \in [Tables -> Contained]
  <2>1. mem \in [Tables -> {empty, dirty}]
    BY DEF Init
  <2> HIDE DEF Contained, empty, dirty
  <2> QED
    BY <1>0, <2>1
<1>2. TypeOK
  <2>1. bus \in [who : Tasks \cup {NoTask, Kernel}, frame : Frames]
    BY EntryTypes DEF Init
  <2> HIDE DEF Contained
  <2>2. mem \in [Tables -> [Index -> PageEntries]]
    BY <1>1 DEF Contained
  <2>3. pc \in Statements /\ i \in 0 .. N
    <3>1. pc = "memset" /\ i = 0
      BY DEF Init
    <3> QED
      BY <3>1, LayoutAssumption DEF Statements
  <2>4. cr3 \in {0} \cup Tables /\ paging \in BOOLEAN
    BY DEF Init
  <2>5. current \in Tasks \cup {NoTask}
    BY DEF Init
  <2> QED
    BY <2>1, <2>2, <2>3, <2>4, <2>5 DEF TypeOK
<1>3. StatementInv /\ TablesInv /\ Reached
  BY LayoutAssumption
     DEF Init, StatementInv, TablesInv, Reached, Tables, NoTask, Tasks, Kernel
<1> QED
  BY <1>2, <1>3 DEF IInv

\* Clearing the next table leaves the cleared ones empty.
LEMMA MemsetStep == ASSUME IInv, Memset PROVE IInv'
<1> USE DEF IInv, Memset
<1>1. i \in 0 .. 9 /\ First + i \in Tables
  BY LayoutAssumption DEF StatementInv, Tables
<1>2. mem' \in [Tables -> [Index -> PageEntries]]
  BY <1>1, EntryTypes DEF TypeOK
<1>3. TypeOK'
  BY <1>1, <1>2, LayoutAssumption DEF TypeOK, Statements
<1>4. StatementInv' /\ Reached'
  BY <1>1, LayoutAssumption DEF TypeOK, StatementInv, Reached, Index, Private
<1>5. ASSUME NEW table \in Tables, NEW j \in Index,
             table < First + i \/ table = First + i
      PROVE  mem'[table][j] = Null
  <2>1. mem[table][j] = Null \/ table = First + i
    BY <1>5 DEF TablesInv, Written, InLoop, Since, FromShare, FromKernel,
       FromTask, FromAlias, FromCr3
  <2> QED
    BY <1>1, <1>5, <2>1 DEF TypeOK
<1>6. ASSUME NEW table \in Tables, NEW j \in Index
      PROVE  Written(table, j)' = Null
  BY <1>6 DEF Written, InLoop, Since, FromShare, FromKernel, FromTask,
     FromAlias, FromCr3, Index
<1>7. TablesInv'
  BY <1>1, <1>5, <1>6, LayoutAssumption DEF TablesInv, Tables
<1> QED
  BY <1>3, <1>4, <1>7

\* An iteration writes the entries of index i, which were empty.
LEMMA MapStep == ASSUME IInv, Map PROVE IInv'
<1> USE DEF IInv, Map
<1>1. i \in Index /\ i' = i + 1 /\ pc = "map" /\ pc' \in {"map", "share"}
  BY DEF StatementInv
<1>2. TypeOK'
  BY <1>1, MappedEntries, LayoutAssumption
     DEF TypeOK, Statements, Index, Contents
<1>3. StatementInv' /\ Reached'
  BY <1>1, LayoutAssumption DEF TypeOK, StatementInv, Reached, Index, Private
<1>4. ASSUME NEW table \in Tables, NEW j \in Index
      PROVE  mem'[table][j] = Written(table, j)'
  <2>1. mem[table][j] = Written(table, j)
    BY <1>1 DEF TablesInv
  <2>2. j < i + 1 <=> j < i \/ j = i
    BY <1>1 DEF Index
  <2>3. ~(i + 1 < N) => j < i \/ j = i
    BY <1>1, LayoutAssumption DEF Index
  <2>4. CASE j = i
    BY <1>1, <2>1, <2>2, <2>3, <2>4, MappedEntries, TableNumbers,
       LayoutAssumption
       DEF Written, InLoop, Since, FromShare, FromKernel, FromTask, FromAlias,
           FromCr3
  <2>5. CASE j # i
    BY <1>1, <2>1, <2>2, <2>3, <2>5, MappedEntries
       DEF Written, InLoop, Since, FromShare, FromKernel, FromTask, FromAlias,
           FromCr3
  <2> QED
    BY <2>4, <2>5
<1>5. TablesInv'
  BY <1>4 DEF TablesInv
<1> QED
  BY <1>2, <1>3, <1>5

\* The shared page goes into the third table of each task.
LEMMA ShareStep == ASSUME IInv, Share PROVE IInv'
<1> USE DEF IInv, Share
<1> DEFINE t == ptb(0, 2)
           u == ptb(1, 2)
           e == Usr(Shared)
<1>1. t \in Tables /\ u \in Tables /\ t # u /\ 0 \in Index /\ e \in PageEntries
  BY TableNumbers, EntryTypes, LayoutAssumption DEF Index
<1>2. /\ mem' \in Contents
      /\ \A v \in Tables, k \in Index :
           mem'[v][k] = IF v = t /\ k = 0 THEN e
                        ELSE IF v = u /\ k = 0 THEN e ELSE mem[v][k]
  BY <1>1, TwoEntries
<1>3. TypeOK' /\ StatementInv' /\ Reached'
  BY <1>2 DEF TypeOK, Statements, Contents, StatementInv, Reached, Private
<1>4. TablesInv'
  BY <1>2, TableNumbers, LayoutAssumption
     DEF TablesInv, Written, InLoop, Since, FromShare, FromKernel, FromTask,
         FromAlias, FromCr3
<1> QED
  BY <1>3, <1>4

\* The kernel's table goes into the three directories.
LEMMA LinkKernelStep == ASSUME IInv, LinkKernel PROVE IInv'
<1> USE DEF IInv, LinkKernel
<1>2. /\ mem' \in Contents
      /\ \A v \in Tables, k \in Index :
           mem'[v][k] = IF k # 0 THEN mem[v][k]
                        ELSE IF v = pgd THEN Krn(pgd_ptb)
                        ELSE IF v = pgd_task(0) THEN Krn(ptb(0, 0))
                        ELSE IF v = pgd_task(1) THEN Krn(ptb(1, 0))
                        ELSE mem[v][k]
  BY KernelEntries
<1>3. TypeOK' /\ StatementInv' /\ Reached'
  BY <1>2 DEF TypeOK, Statements, Contents, StatementInv, Reached, Private
<1>4. TablesInv'
  BY <1>2, TableNumbers, LayoutAssumption
     DEF TablesInv, Written, InLoop, Since, FromShare, FromKernel, FromTask,
         FromAlias, FromCr3
<1> QED
  BY <1>3, <1>4

\* Each task's own memory goes into its directory.
LEMMA LinkTaskStep == ASSUME IInv, LinkTask PROVE IInv'
<1> USE DEF IInv, LinkTask
<1> DEFINE t == pgd_task(0)
           u == pgd_task(1)
           e == Usr(ptb(0, 1))
           f == Usr(ptb(1, 1))
<1>1. /\ t \in Tables /\ u \in Tables /\ t # u /\ 1 \in Index /\ 2 \in Index
      /\ e \in PageEntries /\ f \in PageEntries
  BY TableNumbers, EntryTypes, LayoutAssumption DEF Index
<1>2. /\ mem' \in Contents
      /\ \A v \in Tables, k \in Index :
           mem'[v][k] = IF v = t /\ k = 1 THEN e
                        ELSE IF v = u /\ k = 2 THEN f ELSE mem[v][k]
  BY <1>1, TwoEntries
<1>3. TypeOK' /\ StatementInv' /\ Reached'
  BY <1>2 DEF TypeOK, Statements, Contents, StatementInv, Reached, Private
<1>4. TablesInv'
  BY <1>2, TableNumbers, LayoutAssumption
     DEF TablesInv, Written, InLoop, Since, FromShare, FromKernel, FromTask,
         FromAlias, FromCr3
<1> QED
  BY <1>3, <1>4

\* The shared page goes into each directory, where the other task has its own
\* memory.
LEMMA LinkSharedStep == ASSUME IInv, LinkShared PROVE IInv'
<1> USE DEF IInv, LinkShared
<1> DEFINE t == pgd_task(1)
           u == pgd_task(0)
           e == Usr(ptb(1, 2))
           f == Usr(ptb(0, 2))
<1>1. /\ t \in Tables /\ u \in Tables /\ t # u /\ 1 \in Index /\ 2 \in Index
      /\ e \in PageEntries /\ f \in PageEntries
  BY TableNumbers, EntryTypes, LayoutAssumption DEF Index
<1>2. /\ mem' \in Contents
      /\ \A v \in Tables, k \in Index :
           mem'[v][k] = IF v = t /\ k = 1 THEN e
                        ELSE IF v = u /\ k = 2 THEN f ELSE mem[v][k]
  BY <1>1, TwoEntries
<1>3. TypeOK' /\ StatementInv' /\ Reached'
  BY <1>2 DEF TypeOK, Statements, Contents, StatementInv, Reached, Private
<1>4. TablesInv'
  BY <1>2, TableNumbers, LayoutAssumption
     DEF TablesInv, Written, InLoop, Since, FromShare, FromKernel, FromTask,
         FromAlias, FromCr3
<1> QED
  BY <1>3, <1>4

-----------------------------------------------------------------------------
(***************************************************************************)
(* The address spaces that the finished tables make.                       *)
(***************************************************************************)

\* Every table holds what config_pgds wrote.
LEMMA Finished ==
  ASSUME IInv, paging
  PROVE  /\ mem[pgd][0] = Krn(pgd_ptb)
         /\ \A j \in Index : mem[pgd_ptb][j] = Krn(j)
         /\ \A t \in Tasks, j \in Index :
              /\ mem[ptb(t, 0)][j] = Krn(j)
              /\ mem[ptb(t, 1)][j] = Usr((t + 1) * N + j)
              /\ mem[ptb(t, 2)][j] = IF j = 0 THEN Usr(Shared) ELSE Null
              /\ mem[pgd_task(t)][j] = IF j = 0 THEN Krn(ptb(t, 0))
                                       ELSE IF j = t + 1 THEN Usr(ptb(t, 1))
                                       ELSE IF j = 2 - t THEN Usr(ptb(t, 2))
                                       ELSE Null
<1>1. pc \in {"config", "run"}
  BY DEF IInv, StatementInv
<1>2. \A table \in Tables, j \in Index : mem[table][j] = Written(table, j)
  BY <1>1 DEF IInv, TablesInv
<1>3. \A entry : /\ Since(FromKernel, entry) = entry
                 /\ Since(FromTask, entry) = entry
                 /\ Since(FromAlias, entry) = entry
                 /\ Since(FromCr3, entry) = entry
                 /\ \A j \in Index : InLoop(j, entry) = entry
  BY <1>1 DEF Since, InLoop, FromShare, FromKernel, FromTask, FromAlias, FromCr3
<1>4. 0 \in Index
  BY LayoutAssumption DEF Index
<1>5. mem[pgd][0] = Krn(pgd_ptb) /\ \A j \in Index : mem[pgd_ptb][j] = Krn(j)
  BY <1>2, <1>3, <1>4, TableNumbers, LayoutAssumption DEF Written
<1>6. ASSUME NEW j \in Index
      PROVE  /\ mem[ptb(0, 0)][j] = Krn(j)
             /\ mem[ptb(0, 1)][j] = Usr(N + j)
             /\ mem[ptb(0, 2)][j] = IF j = 0 THEN Usr(Shared) ELSE Null
             /\ mem[pgd_task(0)][j] = IF j = 0 THEN Krn(ptb(0, 0))
                                      ELSE IF j = 1 THEN Usr(ptb(0, 1))
                                      ELSE IF j = 2 THEN Usr(ptb(0, 2))
                                      ELSE Null
  BY <1>2, <1>3, <1>6, TableNumbers, LayoutAssumption DEF Written
<1>7. ASSUME NEW j \in Index
      PROVE  /\ mem[ptb(1, 0)][j] = Krn(j)
             /\ mem[ptb(1, 1)][j] = Usr(2 * N + j)
             /\ mem[ptb(1, 2)][j] = IF j = 0 THEN Usr(Shared) ELSE Null
             /\ mem[pgd_task(1)][j] = IF j = 0 THEN Krn(ptb(1, 0))
                                      ELSE IF j = 2 THEN Usr(ptb(1, 1))
                                      ELSE IF j = 1 THEN Usr(ptb(1, 2))
                                      ELSE Null
  BY <1>2, <1>3, <1>7, TableNumbers, LayoutAssumption DEF Written
<1>8. (0 + 1) * N = N /\ (1 + 1) * N = 2 * N /\ N \in Nat
  BY LayoutAssumption
<1> QED
  BY <1>5, <1>6, <1>7, <1>8 DEF Tasks

\* The pages a task can use, and where they are.
LEMMA Spaces ==
  ASSUME IInv, paging, NEW t \in Tasks, NEW d \in Index, NEW j \in Index
  PROVE  UserFrame(pgd_task(t), d, j) =
           IF d = t + 1 THEN {(t + 1) * N + j}
           ELSE IF d = 2 - t /\ j = 0 THEN {Shared} ELSE {}
<1>1. /\ pgd_task(t) \in Tables
      /\ \A k \in {0, 1, 2} : ptb(t, k) \in Tables
  BY TableNumbers DEF Tasks
<1>2. /\ Entries(pgd_task(t)) = mem[pgd_task(t)]
      /\ \A k \in {0, 1, 2} : Entries(ptb(t, k)) = mem[ptb(t, k)]
  BY <1>1 DEF Entries
<1>3. mem[pgd_task(t)][d] = IF d = 0 THEN Krn(ptb(t, 0))
                            ELSE IF d = t + 1 THEN Usr(ptb(t, 1))
                            ELSE IF d = 2 - t THEN Usr(ptb(t, 2))
                            ELSE Null
  BY Finished
<1>4. UserFrame(pgd_task(t), d, j) =
        LET pde == mem[pgd_task(t)][d]
            pte == Entries(pde.addr)[j]
        IN {f \in {pte.addr} : (pde.p /\ pte.p) /\ (pde.usr /\ pte.usr)}
  BY <1>2 DEF UserFrame, Translate
<1>5. CASE d = 0
  <2>1. ~mem[pgd_task(t)][d].usr
    BY <1>3, <1>5 DEF Krn
  <2> QED
    BY <1>4, <1>5, <2>1, LayoutAssumption DEF Tasks
<1>6. CASE d = t + 1
  <2>1. mem[pgd_task(t)][d] = Usr(ptb(t, 1))
    BY <1>3, <1>6, LayoutAssumption DEF Tasks
  <2>2. Entries(ptb(t, 1))[j] = Usr((t + 1) * N + j)
    BY <1>2, Finished
  <2> QED
    BY <1>4, <1>6, <2>1, <2>2 DEF Usr
<1>7. CASE d = 2 - t
  <2>1. mem[pgd_task(t)][d] = Usr(ptb(t, 2)) /\ d # t + 1
    BY <1>3, <1>7, LayoutAssumption DEF Tasks
  <2>2. Entries(ptb(t, 2))[j] = IF j = 0 THEN Usr(Shared) ELSE Null
    BY <1>2, Finished
  <2> QED
    BY <1>4, <1>7, <2>1, <2>2 DEF Usr, Null
<1>8. CASE d \notin {0, t + 1, 2 - t}
  <2>1. mem[pgd_task(t)][d] = Null
    BY <1>3, <1>8
  <2> QED
    BY <1>4, <1>8, <2>1 DEF Null
<1> QED
  BY <1>5, <1>6, <1>7, <1>8

\* What a task reaches is its own, or shared.
LEMMA Reach ==
  ASSUME IInv, paging, NEW t \in Tasks, NEW d \in Index, NEW j \in Index,
         NEW f \in UserFrame(pgd_task(t), d, j)
  PROVE  f \in Private(t) \cup {Shared} /\ f \in Frames /\ f \notin Tables
<1>1. f = (t + 1) * N + j \/ f = Shared
  BY Spaces
<1>2. t = 0 \/ t = 1
  BY DEF Tasks
<1> QED
  BY <1>1, <1>2, LayoutAssumption DEF Private, Frames, Tables, Index

\* The kernel's pages, under each directory.
LEMMA KernelPages ==
  ASSUME IInv, paging, NEW dir \in {pgd, pgd_task(0), pgd_task(1)},
         NEW j \in Index
  PROVE  Translate(dir, 0, j) = Krn(j)
<1>1. /\ {pgd, pgd_ptb, pgd_task(0), pgd_task(1), ptb(0, 0), ptb(1, 0)}
           \subseteq Tables
      /\ 0 \in Index
  BY TableNumbers, LayoutAssumption DEF Index
<1>2. PICK table \in Tables :
        mem[dir][0] = Krn(table) /\ mem[table][j] = Krn(j)
  BY <1>1, Finished DEF Tasks
<1>3. Entries(dir)[0] = Krn(table) /\ Entries(table)[j] = Krn(j)
  BY <1>1, <1>2 DEF Entries
<1>4. Translate(dir, 0, j) =
        [p |-> Krn(table).p /\ Krn(j).p, usr |-> Krn(table).usr /\ Krn(j).usr,
         addr |-> Krn(j).addr]
  <2>1. Krn(table).addr = table
    BY DEF Krn
  <2> QED
    BY <1>3, <2>1 DEF Translate
<1> QED
  BY <1>4 DEF Krn

\* Loading CR3.
LEMMA SetCr3Step == ASSUME IInv, SetCr3 PROVE IInv'
BY TableNumbers
   DEF IInv, SetCr3, TypeOK, Statements, StatementInv, Reached, Private,
       TablesInv, Written, InLoop, Since, FromShare, FromKernel, FromTask,
       FromAlias, FromCr3

\* Enabling paging.
LEMMA SetCr0Step == ASSUME IInv, SetCr0 PROVE IInv'
BY DEF IInv, SetCr0, TypeOK, Statements, StatementInv, Reached, Private,
       TablesInv, Written, InLoop, Since, FromShare, FromKernel, FromTask,
       FromAlias, FromCr3

\* Loading the first task's directory.
LEMMA ConfigStep == ASSUME IInv, Config PROVE IInv'
BY TableNumbers
   DEF IInv, Config, TypeOK, Statements, StatementInv, Reached, Private, Tasks,
       TablesInv, Written, InLoop, Since, FromShare, FromKernel, FromTask,
       FromAlias, FromCr3

\* The clock changes the directory with the task.
LEMMA ClockSwitchStep == ASSUME IInv, ClockSwitch PROVE IInv'
<1> USE DEF IInv, ClockSwitch
<1>1. current' \in Tasks /\ pgd_task(current') \in Tables
  BY TableNumbers DEF TypeOK, Tasks, NoTask
<1>2. TypeOK' /\ StatementInv'
  BY <1>1 DEF TypeOK, StatementInv, Tasks, NoTask
<1>3. TablesInv' /\ Reached'
  BY DEF TablesInv, Written, InLoop, Since, Reached, Private
<1> QED
  BY <1>2, <1>3

\* A task's write never finds a page table.
LEMMA UserWriteStep ==
  ASSUME IInv, NEW d \in Index, NEW j \in Index, UserWrite(d, j)
  PROVE  IInv'
<1>1. /\ pc = "run" /\ paging /\ current \in Tasks /\ cr3 = pgd_task(current)
      /\ UNCHANGED <<pc, i, cr3, paging, current>>
  BY DEF IInv, TypeOK, StatementInv, UserWrite
<1>2. PICK f \in UserFrame(cr3, d, j) :
        /\ bus' = [who |-> current, frame |-> f]
        /\ mem' = IF f \in Tables
                  THEN [mem EXCEPT ![f] = [l \in Index |-> Garbage]] ELSE mem
  BY DEF UserWrite
<1>3. f \in Private(current) \cup {Shared} /\ f \in Frames /\ f \notin Tables
  BY <1>1, <1>2, Reach
<1>4. mem' = mem
  BY <1>2, <1>3
<1>5. TypeOK' /\ StatementInv' /\ TablesInv'
  BY <1>1, <1>2, <1>3, <1>4
     DEF IInv, TypeOK, StatementInv, TablesInv, Written, InLoop, Since
<1>6. Reached'
  BY <1>1, <1>2, <1>3 DEF Reached, Private, Tasks, Kernel
<1> QED
  BY <1>5, <1>6 DEF IInv

\* The kernel's read for task 2 finds the counter.
LEMMA SyscallReadStep == ASSUME IInv, SyscallRead PROVE IInv'
<1>1. /\ pc = "run" /\ paging /\ current = 1 /\ cr3 = pgd_task(1)
      /\ UNCHANGED <<mem, pc, i, cr3, paging, current>>
  BY DEF IInv, StatementInv, SyscallRead, NoTask
<1>2. UserFrame(cr3, 1, 0) = {Shared}
  BY <1>1, Spaces, LayoutAssumption DEF Tasks, Index
<1>3. Translate(cr3, 1, 0).addr = Shared
  BY <1>2 DEF UserFrame
<1>4. bus' = [who |-> Kernel, frame |-> Shared]
  BY <1>3 DEF SyscallRead
<1>5. TypeOK' /\ StatementInv' /\ TablesInv'
  BY <1>1, <1>4, EntryTypes
     DEF IInv, TypeOK, StatementInv, TablesInv, Written, InLoop, Since
<1>6. Reached'
  BY <1>1, <1>4 DEF Reached, Private, Tasks, Kernel
<1> QED
  BY <1>5, <1>6 DEF IInv

\* Every step preserves the invariant.
LEMMA NextInvariant == IInv /\ [Next]_vars => IInv'
<1> SUFFICES ASSUME IInv, [Next]_vars PROVE IInv'
  OBVIOUS
<1>1. CASE ConfigPgds
  BY <1>1, MemsetStep, MapStep, ShareStep, LinkKernelStep, LinkTaskStep,
     LinkSharedStep, SetCr3Step, SetCr0Step DEF ConfigPgds
<1>2. CASE Config \/ ClockSwitch \/ SyscallRead
  BY <1>2, ConfigStep, ClockSwitchStep, SyscallReadStep
<1>3. CASE \E d \in Index, j \in Index : UserWrite(d, j)
  BY <1>3, UserWriteStep
<1>4. CASE UNCHANGED vars
  BY <1>4 DEF vars, IInv, TypeOK, StatementInv, TablesInv, Written, InLoop,
     Since, Reached, Private
<1> QED
  BY <1>1, <1>2, <1>3, <1>4 DEF Next

\* The inductive invariant holds throughout.
THEOREM Invariance == Spec => []IInv
BY InitInvariant, NextInvariant, PTL DEF Spec

-----------------------------------------------------------------------------
(***************************************************************************)
(* The properties.                                                         *)
(***************************************************************************)

\* Every variable, each entry of each table included, keeps its type.
THEOREM TypeCorrect == Spec => []TypeOK
<1>1. IInv => TypeOK
  BY DEF IInv
<1> QED
  BY <1>1, Invariance, PTL

\* Whatever the tasks do, they have the shared frame in common and no other.
THEOREM Isolation == Spec => []Isolated
<1>1. ASSUME IInv, paging
      PROVE  UserFrames(pgd_task(0)) \cap UserFrames(pgd_task(1)) = {Shared}
  <2>1. Private(0) \cap Private(1) = {}
    BY LayoutAssumption DEF Private
  <2>2. \A t \in Tasks : UserFrames(pgd_task(t)) \subseteq Private(t) \cup {Shared}
    BY <1>1, Reach DEF UserFrames
  <2>3. \A t \in Tasks : UserFrame(pgd_task(t), 2 - t, 0) = {Shared}
    BY <1>1, Spaces, LayoutAssumption DEF Tasks, Index
  <2>4. 0 \in Index /\ 1 \in Index /\ 2 \in Index
    BY LayoutAssumption DEF Index
  <2>5. \A t \in Tasks : Shared \in UserFrames(pgd_task(t))
    BY <2>3, <2>4 DEF UserFrames, Tasks
  <2> QED
    BY <2>1, <2>2, <2>5 DEF Tasks
<1>2. IInv => Isolated
  BY <1>1 DEF Isolated
<1> QED
  BY <1>2, Invariance, PTL

\* No page of a task leads to the kernel, and so to a page table.
THEOREM Protection == Spec => []KernelProtected
<1>1. IInv => KernelProtected
  BY Reach DEF KernelProtected, UserFrames
<1> QED
  BY <1>1, Invariance, PTL

\* The kernel keeps its addresses when paging is enabled and when the clock
\* changes the directory.
THEOREM KernelStays == Spec => []KernelMapped
<1>1. ASSUME IInv, paging PROVE cr3 \in {pgd, pgd_task(0), pgd_task(1)}
  BY <1>1 DEF IInv, TypeOK, StatementInv, Tasks, NoTask
<1>2. IInv => KernelMapped
  BY <1>1, KernelPages DEF KernelMapped
<1> QED
  BY <1>2, Invariance, PTL

\* The programs find their stack, code and counter.
THEOREM ProgramsLoaded == Spec => []Programs
<1>1. ASSUME IInv, paging, NEW t \in Tasks
      PROVE  /\ \A j \in 0 .. 4 :
                  UserFrame(pgd_task(t), t + 1, j) = {(t + 1) * N + j}
             /\ UserFrame(pgd_task(t), 2 - t, 0) = {Shared}
             /\ UserFrame(pgd_task(t), 2 - t, 4) = {}
  <2>1. t + 1 \in Index /\ 2 - t \in Index /\ 2 - t # t + 1
    BY LayoutAssumption DEF Tasks, Index
  <2>2. 0 .. 4 \subseteq Index
    BY LayoutAssumption DEF Index
  <2> QED
    BY <1>1, <2>1, <2>2, Spaces
<1>2. IInv => Programs
  BY <1>1 DEF Programs
<1> QED
  BY <1>2, Invariance, PTL

\* Every access that ring 3 makes, or the kernel for it, stays in bounds.
THEOREM AccessesStay == Spec => []Reached
<1>1. IInv => Reached
  BY DEF IInv
<1> QED
  BY <1>1, Invariance, PTL
=============================================================================
