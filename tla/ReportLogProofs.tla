-------------------------- MODULE ReportLogProofs --------------------------
(***************************************************************************)
(* Theorems about ReportLog, for any number of processes and snapshots and *)
(* of lines that end up behind another one.                                *)
(***************************************************************************)
EXTENDS ReportLog, FiniteSetTheorems, TLAPS

----------------------------------------------------------------------------
(* Counting the states that are stored.                                    *)

\* There are finitely many processes, and at least P0.
LEMMA Processes ==
    /\ N \in Nat /\ N >= 1
    /\ P0 \in Proc /\ Remotes \subseteq Proc
    /\ \A S \in SUBSET Proc : Cardinality(S) \in 0 .. N
<1>1. IsFiniteSet(Proc) /\ P0 \in Proc /\ Remotes \subseteq Proc
  BY ReportAssumption DEF Proc
<1>2. N \in Nat
  BY <1>1, FS_CardinalityType DEF N
<1>3. \A S \in SUBSET Proc : Cardinality(S) \in Nat /\ Cardinality(S) <= N
  BY <1>1, FS_Subset, FS_CardinalityType DEF N
<1>4. Cardinality(Proc) # 0
  BY <1>1, FS_EmptySet
<1>5. QED
  BY <1>1, <1>2, <1>3, <1>4 DEF N

\* A set of as many processes as there are is all of them.
LEMMA AllCounted ==
    ASSUME NEW S \in SUBSET Proc, Cardinality(S) >= N
    PROVE  S = Proc
<1>1. IsFiniteSet(Proc) /\ Cardinality(S) \in Nat /\ N \in Nat
  BY Processes, ReportAssumption
<1>2. S # Proc => Cardinality(S) < N
  BY <1>1, FS_Subset DEF N
<1>3. QED
  BY <1>1, <1>2

----------------------------------------------------------------------------
(* Types.                                                                  *)

\* What Move and DisturbAll do to the threads.
LEMMA MoveEffect ==
    ASSUME TypeOK, NEW p \in Remotes, NEW s \in Snapshots, NEW t \in Thread, Move(p, s, t)
    PROVE  /\ threads' \in [Remotes -> [Snapshots -> Thread]]
           /\ threads'[p][s] = t
           /\ \A q \in Remotes, u \in Snapshots :
                 q # p \/ u # s => /\ threads'[q][u].pc = threads[q][u].pc
                                   /\ threads'[q][u].got = threads[q][u].got
<1>1. \A q \in Remotes, u \in Snapshots : threads[q][u] \in Thread
  BY DEF TypeOK
<1>2. \A q \in Remotes, u \in Snapshots :
         /\ [threads[q][u] EXCEPT !.alone = FALSE] \in Thread
         /\ [threads[q][u] EXCEPT !.alone = FALSE].pc = threads[q][u].pc
         /\ [threads[q][u] EXCEPT !.alone = FALSE].got = threads[q][u].got
  BY <1>1 DEF Thread
<1>3. \A q \in Remotes, u \in Snapshots :
         threads'[q][u] = IF <<q, u>> = <<p, s>> THEN t
                          ELSE [threads[q][u] EXCEPT !.alone = FALSE]
  BY DEF Move
<1>4. ASSUME NEW q \in Remotes, NEW u \in Snapshots
      PROVE  threads'[q][u] \in Thread
  <2>1. CASE <<q, u>> = <<p, s>>
    BY <1>3, <2>1
  <2>2. CASE <<q, u>> # <<p, s>>
    BY <1>2, <1>3, <2>2
  <2>3. QED
    BY <2>1, <2>2
<1>5. threads' \in [Remotes -> [Snapshots -> Thread]]
  <2>1. threads' = [q \in Remotes |-> [u \in Snapshots |-> threads'[q][u]]]
    BY Zenon DEF Move
  <2>2. QED
    BY <1>4, <2>1
<1>6. threads'[p][s] = t
  BY <1>3
<1>7. ASSUME NEW q \in Remotes, NEW u \in Snapshots, q # p \/ u # s
      PROVE  threads'[q][u].pc = threads[q][u].pc /\ threads'[q][u].got = threads[q][u].got
  <2>1. threads'[q][u] = [threads[q][u] EXCEPT !.alone = FALSE]
    BY <1>3, <1>7
  <2>2. QED
    BY <1>2, <2>1
<1>8. QED
  BY <1>5, <1>6, <1>7

\* DisturbAll changes what nobody but the history reads.
LEMMA DisturbEffect ==
    ASSUME TypeOK, DisturbAll
    PROVE  /\ threads' \in [Remotes -> [Snapshots -> Thread]]
           /\ \A q \in Remotes, u \in Snapshots :
                 /\ threads'[q][u].pc = threads[q][u].pc
                 /\ threads'[q][u].got = threads[q][u].got
<1>1. \A q \in Remotes, u \in Snapshots : threads[q][u] \in Thread
  BY DEF TypeOK
<1>2. \A q \in Remotes, u \in Snapshots :
         /\ [threads[q][u] EXCEPT !.alone = FALSE] \in Thread
         /\ [threads[q][u] EXCEPT !.alone = FALSE].pc = threads[q][u].pc
         /\ [threads[q][u] EXCEPT !.alone = FALSE].got = threads[q][u].got
  BY <1>1 DEF Thread
<1>3. \A q \in Remotes, u \in Snapshots :
         threads'[q][u] = [threads[q][u] EXCEPT !.alone = FALSE]
  BY DEF DisturbAll
<1>4. \A q \in Remotes, u \in Snapshots : threads'[q][u] \in Thread
  BY <1>2, <1>3
<1>5. threads' \in [Remotes -> [Snapshots -> Thread]]
  <2>1. threads' = [q \in Remotes |-> [u \in Snapshots |-> threads'[q][u]]]
    BY DEF DisturbAll
  <2>2. QED
    BY <1>4, <2>1
<1>6. ASSUME NEW q \in Remotes, NEW u \in Snapshots
      PROVE  threads'[q][u].pc = threads[q][u].pc /\ threads'[q][u].got = threads[q][u].got
  <2>1. threads'[q][u] = [threads[q][u] EXCEPT !.alone = FALSE]
    BY <1>3
  <2>2. QED
    BY <1>2, <2>1
<1>7. QED
  BY <1>5, <1>6

\* The type of what parse_logs knows.
Knowledge ==
    [current : Snapshots \cup {NoSnapshot},
     recorded : [Snapshots -> [Proc -> Snapshots \cup {NoSnapshot}]],
     progress : [Snapshots -> 0 .. N]]

\* Whatever it reads, it knows something of that type.
LEMMA ReadType ==
    ASSUME TypeOK, NEW s \in Snapshots
    PROVE  /\ read \in Knowledge /\ ReadEnd \in Knowledge /\ ReadHeader(s) \in Knowledge
           /\ \A p \in Proc : ReadRow(s, p) \in Knowledge
           /\ \A got \in 0 .. N : ReadProgress(s, got) \in Knowledge
<1>1. read \in Knowledge
  BY DEF TypeOK, Knowledge
<1>2. ReadEnd \in Knowledge /\ ReadHeader(s) \in Knowledge
  BY <1>1 DEF Knowledge, ReadEnd, ReadHeader
<1>3. ASSUME NEW p \in Proc PROVE ReadRow(s, p) \in Knowledge
  <2>1. CASE read.current = NoSnapshot
    BY <1>1, <2>1 DEF ReadRow
  <2>2. CASE read.current # NoSnapshot
    <3>1. [read.recorded EXCEPT ![read.current][p] = s]
             \in [Snapshots -> [Proc -> Snapshots \cup {NoSnapshot}]]
      BY <1>1, <2>2 DEF Knowledge
    <3>2. ReadRow(s, p) = [read EXCEPT !.recorded =
                              [read.recorded EXCEPT ![read.current][p] = s]]
      BY <1>1, <2>2 DEF ReadRow, Knowledge
    <3>3. QED
      BY <1>1, <3>1, <3>2 DEF Knowledge
  <2>3. QED
    BY <2>1, <2>2
<1>4. ASSUME NEW got \in 0 .. N PROVE ReadProgress(s, got) \in Knowledge
  BY <1>1 DEF Knowledge, ReadProgress
<1>5. QED
  BY <1>1, <1>2, <1>3, <1>4

----------------------------------------------------------------------------
(* Only full counts are reported.                                          *)

\* A thread goes on to print a report only of a full store, the analyser's
\* current report is one of a full store, and so is every report that it has
\* rows of and every snapshot whose progress line shows all.
Stored(s) == state_store[s] = Proc

FullInv ==
    /\ main.pc # "menu" => main.id \in Snapshots
    /\ \A p \in Remotes, s \in Snapshots :
          /\ threads[p][s].pc \in {"header", "rows"} => Stored(s)
          /\ threads[p][s].got >= N => Stored(s)
    /\ read.current # NoSnapshot => Stored(read.current)
    /\ \A s \in Snapshots : Rows(s) # {} => Stored(s)
    /\ \A s \in Snapshots : read.progress[s] >= N => Stored(s)

\* What the analyser reads is of full stores if the line it reads is.
ReadFull(rd) ==
    /\ rd.current # NoSnapshot => Stored(rd.current)
    /\ \A s \in Snapshots, p \in Proc : rd.recorded[s][p] # NoSnapshot => Stored(s)
    /\ \A s \in Snapshots : rd.progress[s] >= N => Stored(s)

\* A line of a thread that reports on a full store, or counts one, is such a
\* line.
LEMMA ReadKeepsFull ==
    ASSUME TypeOK, FullInv, NEW s \in Snapshots
    PROVE  /\ ReadFull(read) /\ ReadFull(ReadEnd)
           /\ Stored(s) => ReadFull(ReadHeader(s))
           /\ \A p \in Proc : ReadFull(ReadRow(s, p))
           /\ \A got \in 0 .. N : (got >= N => Stored(s)) => ReadFull(ReadProgress(s, got))
<1>1. read \in Knowledge
  BY ReadType
<1>2. ReadFull(read)
  BY DEF FullInv, ReadFull, Rows
<1>3. ReadFull(ReadEnd)
  BY <1>1, <1>2 DEF ReadFull, ReadEnd, Knowledge
<1>4. Stored(s) => ReadFull(ReadHeader(s))
  BY <1>1, <1>2 DEF ReadFull, ReadHeader, Knowledge
<1>5. ASSUME NEW p \in Proc PROVE ReadFull(ReadRow(s, p))
  <2>1. CASE read.current = NoSnapshot
    BY <1>2, <2>1 DEF ReadRow
  <2>2. CASE read.current # NoSnapshot
    <3> DEFINE rd == ReadRow(s, p)
    <3>1. /\ rd.current = read.current /\ rd.progress = read.progress
          /\ rd.recorded = [read.recorded EXCEPT ![read.current][p] = s]
      BY <1>1, <2>2 DEF ReadRow, Knowledge
    <3>2. read.current \in Snapshots
      BY <1>1, <2>2 DEF Knowledge
    <3>3. \A u \in Snapshots, q \in Proc :
             rd.recorded[u][q] = IF u = read.current /\ q = p THEN s ELSE read.recorded[u][q]
      BY <1>1, <3>1, <3>2 DEF Knowledge
    <3> HIDE DEF rd
    <3>4. QED
      BY <1>2, <2>2, <3>1, <3>3 DEF ReadFull, rd
  <2>3. QED
    BY <2>1, <2>2
<1>6. ASSUME NEW got \in 0 .. N, got >= N => Stored(s)
      PROVE  ReadFull(ReadProgress(s, got))
  <2> DEFINE rd == ReadProgress(s, got)
  <2>1. /\ rd.current = read.current /\ rd.recorded = read.recorded
        /\ \A u \in Snapshots : rd.progress[u] = IF u = s THEN got ELSE read.progress[u]
    BY <1>1 DEF ReadProgress, Knowledge
  <2>2. QED
    BY <1>2, <1>6, <2>1 DEF ReadFull
<1>7. QED
  BY <1>2, <1>3, <1>4, <1>5, <1>6

\* A step keeps the invariant if what it reads is of full stores and no store
\* shrinks, and if its thread, if it has one, reports on a full store only.
LEMMA FullKept ==
    ASSUME TypeOK, FullInv,
           main'.pc # "menu" => main'.id \in Snapshots,
           \A s \in Snapshots : Stored(s) => Stored(s)',
           \E rd : read' = rd /\ ReadFull(rd),
           read' \in Knowledge,
           \A p \in Remotes, s \in Snapshots :
              \/ threads'[p][s].pc = threads[p][s].pc /\ threads'[p][s].got = threads[p][s].got
              \/ /\ threads'[p][s].pc \in {"header", "rows"} => Stored(s)
                 /\ threads'[p][s].got >= N => Stored(s)
    PROVE  FullInv'
<1>1. PICK rd : read' = rd /\ ReadFull(rd)
  OBVIOUS
<1>2. \A p \in Remotes, s \in Snapshots :
         /\ threads'[p][s].pc \in {"header", "rows"} => Stored(s)
         /\ threads'[p][s].got >= N => Stored(s)
  BY DEF FullInv
<1>3. /\ rd.current # NoSnapshot => state_store'[rd.current] = Proc
      /\ \A s \in Snapshots, p \in Proc : rd.recorded[s][p] # NoSnapshot => Stored(s)'
      /\ \A s \in Snapshots : rd.progress[s] >= N => Stored(s)'
  <2>1. rd.current \in Snapshots \cup {NoSnapshot}
    BY <1>1 DEF Knowledge
  <2>2. QED
    BY <1>1, <2>1 DEF ReadFull, Stored
<1>4. QED
  BY <1>1, <1>2, <1>3 DEF FullInv, Rows, Stored

----------------------------------------------------------------------------
(* The steps.                                                              *)

\* A thread that has not begun, and one that ends or goes on to print.
LEMMA NoThreadType ==
    ASSUME NEW pc \in ThreadPc
    PROVE  /\ NoThread \in Thread /\ NoThread.pc = "none" /\ NoThread.got = 0
           /\ [NoThread EXCEPT !.pc = pc] \in Thread
           /\ [NoThread EXCEPT !.pc = pc].pc = pc /\ [NoThread EXCEPT !.pc = pc].got = 0
<1>1. N \in Nat /\ 0 \in 0 .. N
  BY Processes
<1>2. NoThread \in Thread
  BY <1>1 DEF NoThread, Thread, ThreadPc
<1>3. QED
  BY <1>1, <1>2 DEF NoThread, Thread

\* The initial state has its types, and the analyser has read nothing.
LEMMA InitFull == Init => TypeOK /\ FullInv
<1> SUFFICES ASSUME Init PROVE TypeOK /\ FullInv
  OBVIOUS
<1>1. N \in Nat /\ N >= 1 /\ MaxGlued \in Nat
  BY Processes, ReportAssumption
<1>2. NoThread \in Thread /\ NoThread.pc = "none" /\ NoThread.got = 0
  BY NoThreadType DEF ThreadPc
<1>3. read \in Knowledge
  BY <1>1 DEF Init, Knowledge
<1>4. TypeOK
  BY <1>1, <1>2, <1>3 DEF Init, TypeOK, Menu, Knowledge
<1>5. FullInv
  BY <1>1, <1>2 DEF Init, FullInv, Menu, Rows
<1>6. QED
  BY <1>4, <1>5

\* The main thread reports nothing, and its banner ends a report.
LEMMA MainFull ==
    ASSUME TypeOK, FullInv,
           \/ \E s \in Snapshots : AnnounceSnapshot(s)
           \/ PrintBanner \/ InitiateSnapshot \/ StoreOwnState
    PROVE  TypeOK' /\ FullInv'
<1> USE DEF Knowledge, Stored
<1>1. ASSUME NEW s \in Snapshots, AnnounceSnapshot(s) PROVE TypeOK' /\ FullInv'
  <2>1. /\ threads' \in [Remotes -> [Snapshots -> Thread]]
        /\ \A q \in Remotes, u \in Snapshots :
              threads'[q][u].pc = threads[q][u].pc /\ threads'[q][u].got = threads[q][u].got
    BY <1>1, DisturbEffect DEF AnnounceSnapshot
  <2>2. TypeOK'
    BY <1>1, <2>1 DEF AnnounceSnapshot, TypeOK
  <2>3. ReadFull(read) /\ read \in Knowledge
    BY ReadKeepsFull, ReadType
  <2>4. FullInv'
    BY <1>1, <2>1, <2>3, FullKept DEF AnnounceSnapshot
  <2>5. QED
    BY <2>2, <2>4
<1>2. CASE PrintBanner \/ InitiateSnapshot
  <2>1. PICK s : s \in Snapshots /\ s = main.id
    BY <1>2 DEF PrintBanner, InitiateSnapshot, FullInv
  <2>2. glued' \in 0 .. MaxGlued
    BY <1>2, ReportAssumption DEF PrintBanner, InitiateSnapshot, PrintBannerLine, Glue, TypeOK
  <2>3. \E rd \in Knowledge : read' = rd /\ ReadFull(rd)
    BY <1>2, <2>1, ReadKeepsFull, ReadType
       DEF PrintBanner, InitiateSnapshot, PrintBannerLine, Glue
  <2>4. /\ main'.id = main.id /\ main'.pc \in {"initiate", "store"}
        /\ main' \in [pc : {"menu", "banner", "initiate", "store"}, id : Snapshots \cup {NoSnapshot}]
    BY <1>2 DEF PrintBanner, InitiateSnapshot, TypeOK
  <2>5. TypeOK'
    BY <1>2, <2>1, <2>2, <2>3, <2>4 DEF PrintBanner, InitiateSnapshot, TypeOK
  <2>6. FullInv'
    BY <1>2, <2>1, <2>3, <2>4, FullKept DEF PrintBanner, InitiateSnapshot
  <2>7. QED
    BY <2>5, <2>6
<1>3. CASE StoreOwnState
  <2>1. main.id \in Snapshots /\ P0 \in Proc
    BY <1>3, Processes DEF StoreOwnState, FullInv
  <2>2. /\ state_store' \in [Snapshots -> SUBSET Proc]
        /\ \A s \in Snapshots : Stored(s) => Stored(s)'
    BY <1>3, <2>1 DEF StoreOwnState, TypeOK
  <2>3. TypeOK'
    BY <1>3, <2>2 DEF StoreOwnState, TypeOK, Menu
  <2>4. ReadFull(read) /\ read \in Knowledge
    BY <2>1, ReadKeepsFull, ReadType
  <2>5. FullInv'
    BY <1>3, <2>2, <2>4, FullKept DEF StoreOwnState, Menu
  <2>6. QED
    BY <2>3, <2>5
<1>4. QED
  BY <1>1, <1>2, <1>3

\* What a step of a thread must keep.
LEMMA ThreadKept ==
    ASSUME TypeOK, FullInv, NEW p \in Remotes, NEW s \in Snapshots,
           NEW u \in Thread, Move(p, s, u),
           u.pc \in {"header", "rows"} => Stored(s), u.got >= N => Stored(s),
           NEW rd \in Knowledge, read' = rd, ReadFull(rd),
           UNCHANGED <<main, triggered>>,
           state_store' \in [Snapshots -> SUBSET Proc],
           \A v \in Snapshots : Stored(v) => Stored(v)',
           verdict' \in [Snapshots -> {"none", "consistent", "inconsistent"}],
           glued' \in 0 .. MaxGlued, disturbed' \subseteq Snapshots
    PROVE  TypeOK' /\ FullInv'
<1>1. /\ threads' \in [Remotes -> [Snapshots -> Thread]]
      /\ threads'[p][s] = u
      /\ \A q \in Remotes, v \in Snapshots :
            q # p \/ v # s => /\ threads'[q][v].pc = threads[q][v].pc
                              /\ threads'[q][v].got = threads[q][v].got
  BY MoveEffect
<1>2. TypeOK'
  BY <1>1 DEF TypeOK, Knowledge
<1>3. \A q \in Remotes, v \in Snapshots :
         \/ threads'[q][v].pc = threads[q][v].pc /\ threads'[q][v].got = threads[q][v].got
         \/ /\ threads'[q][v].pc \in {"header", "rows"} => Stored(v)
            /\ threads'[q][v].got >= N => Stored(v)
  BY <1>1
<1>4. main'.pc # "menu" => main'.id \in Snapshots
  BY DEF FullInv
<1>5. FullInv'
  BY <1>3, <1>4, FullKept
<1>6. QED
  BY <1>2, <1>5

\* A line is read as it is, or not at all.
LEMMA LineKept ==
    ASSUME TypeOK, FullInv, NEW p, NEW s, NEW new \in Knowledge, ReadFull(new),
           PrintLine(p, s, new)
    PROVE  glued' \in 0 .. MaxGlued /\ \E rd \in Knowledge : read' = rd /\ ReadFull(rd)
<1>1. read \in Knowledge /\ (Snapshots # {} => ReadFull(read))
  BY ReadKeepsFull DEF TypeOK, Knowledge
<1>2. ReadFull(read)
  BY DEF FullInv, ReadFull, Rows
<1>3. glued' \in 0 .. MaxGlued
  BY ReportAssumption DEF PrintLine, Glue, TypeOK
<1>4. QED
  BY <1>1, <1>2, <1>3 DEF PrintLine, Glue

\* A thread stores and counts, and reports on what it has counted in full.
LEMMA ThreadFull ==
    ASSUME TypeOK, FullInv, NEW p \in Remotes, NEW s \in Snapshots,
           \/ HandleState(p, s) \/ CountStates(p, s) \/ PrintProgress(p, s)
           \/ PrintHeader(p, s) \/ PrintRow(p, s) \/ PrintVerdict(p, s)
    PROVE  TypeOK' /\ FullInv'
<1> PICK t : t = threads[p][s]
  OBVIOUS
<1>1. /\ t \in Thread /\ p \in Proc /\ read \in Knowledge /\ ReadFull(read)
      /\ N \in Nat /\ N >= 1
  BY Processes, ReadType, ReadKeepsFull DEF TypeOK
<1>2. /\ state_store \in [Snapshots -> SUBSET Proc] /\ glued \in 0 .. MaxGlued
      /\ verdict \in [Snapshots -> {"none", "consistent", "inconsistent"}]
      /\ disturbed \subseteq Snapshots
      /\ t.pc \in {"header", "rows"} => Stored(s)
      /\ t.got >= N => Stored(s)
  BY DEF TypeOK, FullInv
<1>3. CASE HandleState(p, s)
  <2> PICK u : u = [t EXCEPT !.pc = "count"]
    OBVIOUS
  <2>1. u \in Thread /\ u.pc = "count" /\ u.got = t.got
    BY <1>1 DEF Thread, ThreadPc
  <2>2. /\ Move(p, s, u) /\ read' = read
        /\ UNCHANGED <<main, triggered, verdict, glued, disturbed>>
        /\ state_store' = [state_store EXCEPT ![s] = @ \cup {p}]
    BY <1>3 DEF HandleState, Goto
  <2>3. /\ state_store' \in [Snapshots -> SUBSET Proc]
        /\ \A v \in Snapshots : Stored(v) => Stored(v)'
    BY <1>1, <1>2, <2>2 DEF Stored
  <2>4. QED
    BY <1>1, <1>2, <2>1, <2>2, <2>3, ThreadKept
<1>4. CASE CountStates(p, s)
  <2> PICK got : got = Cardinality(state_store[s])
    OBVIOUS
  <2> PICK u : u = [t EXCEPT !.pc = "progress", !.got = got]
    OBVIOUS
  <2>1. got \in 0 .. N /\ (got >= N => Stored(s))
    BY <1>2, Processes, AllCounted DEF Stored
  <2>2. u \in Thread /\ u.pc = "progress" /\ u.got = got
    BY <1>1, <2>1 DEF Thread, ThreadPc
  <2>3. /\ Move(p, s, u) /\ read' = read
        /\ UNCHANGED <<main, triggered, state_store, verdict, glued, disturbed>>
    BY <1>4 DEF CountStates
  <2>4. \A v \in Snapshots : Stored(v) => Stored(v)'
    BY <2>3 DEF Stored
  <2>5. QED
    BY <1>1, <1>2, <2>1, <2>2, <2>3, <2>4, ThreadKept
<1>5. CASE PrintProgress(p, s)
  <2> PICK pc : pc = IF t.got = N THEN "header" ELSE "done"
    OBVIOUS
  <2> PICK u : u = [NoThread EXCEPT !.pc = pc]
    OBVIOUS
  <2>1. u \in Thread /\ u.got = 0 /\ u.pc = pc /\ (pc \in {"header", "rows"} => Stored(s))
    <3>1. pc \in ThreadPc
      BY DEF ThreadPc
    <3>2. pc \in {"header", "rows"} => Stored(s)
      BY <1>1, <1>2
    <3>3. QED
      BY <3>1, <3>2, NoThreadType
  <2>2. PICK new : new = ReadProgress(s, t.got)
    OBVIOUS
  <2>3. t.got \in 0 .. N /\ new \in Knowledge /\ ReadFull(new)
    BY <1>1, <1>2, <2>2, ReadType, ReadKeepsFull DEF Thread
  <2>4. /\ Move(p, s, u) /\ PrintLine(p, s, new)
        /\ UNCHANGED <<main, triggered, state_store, verdict, disturbed>>
    BY <1>5, <2>2 DEF PrintProgress
  <2>5. glued' \in 0 .. MaxGlued /\ \E rd \in Knowledge : read' = rd /\ ReadFull(rd)
    BY <2>3, <2>4, LineKept
  <2>6. \A v \in Snapshots : Stored(v) => Stored(v)'
    BY <2>4 DEF Stored
  <2>7. u \in Thread /\ (u.pc \in {"header", "rows"} => Stored(s)) /\ (u.got >= N => Stored(s))
    BY <2>1, Processes
  <2>8. PICK rd \in Knowledge : read' = rd /\ ReadFull(rd)
    BY <2>5
  <2>9. /\ state_store' \in [Snapshots -> SUBSET Proc] /\ disturbed' \subseteq Snapshots
        /\ verdict' \in [Snapshots -> {"none", "consistent", "inconsistent"}]
    BY <1>2, <2>4 DEF TypeOK
  <2>10. QED
    BY <1>1, <1>2, <2>4, <2>5, <2>6, <2>7, <2>8, <2>9, ThreadKept
<1>6. CASE PrintHeader(p, s)
  <2> PICK u : u = [t EXCEPT !.pc = "rows", !.left = Proc, !.alone = Alone(p, s)]
    OBVIOUS
  <2>1. u \in Thread /\ u.got = t.got
    BY <1>1 DEF Thread, ThreadPc, Alone
  <2>2. PICK new : new = ReadHeader(s)
    OBVIOUS
  <2>3. Stored(s) /\ new \in Knowledge /\ ReadFull(new)
    BY <1>2, <1>6, <2>2, ReadType, ReadKeepsFull DEF PrintHeader
  <2>4. /\ Move(p, s, u) /\ PrintLine(p, s, new)
        /\ UNCHANGED <<main, triggered, state_store, verdict, disturbed>>
    BY <1>6, <2>2 DEF PrintHeader
  <2>5. glued' \in 0 .. MaxGlued /\ \E rd \in Knowledge : read' = rd /\ ReadFull(rd)
    BY <2>3, <2>4, LineKept
  <2>6. \A v \in Snapshots : Stored(v) => Stored(v)'
    BY <2>4 DEF Stored
  <2>7. QED
    BY <1>1, <1>2, <2>1, <2>3, <2>4, <2>5, <2>6, ThreadKept
<1>7. CASE PrintRow(p, s)
  <2>1. PICK q \in t.left : /\ PrintLine(p, s, ReadRow(s, q))
                            /\ Move(p, s, [t EXCEPT !.left = @ \ {q}])
    BY <1>7 DEF PrintRow
  <2> PICK u : u = [t EXCEPT !.left = @ \ {q}]
    OBVIOUS
  <2>2. q \in Proc /\ u \in Thread /\ u.pc = t.pc /\ u.got = t.got
    BY <1>1 DEF Thread
  <2>3. PICK new : new = ReadRow(s, q)
    OBVIOUS
  <2>4. new \in Knowledge /\ ReadFull(new)
    BY <2>2, <2>3, ReadType, ReadKeepsFull
  <2>5. /\ Move(p, s, u) /\ PrintLine(p, s, new)
        /\ UNCHANGED <<main, triggered, state_store, verdict, disturbed>>
    BY <1>7, <2>1, <2>3 DEF PrintRow
  <2>6. glued' \in 0 .. MaxGlued /\ \E rd \in Knowledge : read' = rd /\ ReadFull(rd)
    BY <2>4, <2>5, LineKept
  <2>7. \A v \in Snapshots : Stored(v) => Stored(v)'
    BY <2>5 DEF Stored
  <2>8. QED
    BY <1>1, <1>2, <2>2, <2>5, <2>6, <2>7, ThreadKept
<1>8. CASE PrintVerdict(p, s)
  <2> PICK u : u = [NoThread EXCEPT !.pc = "done"]
    OBVIOUS
  <2>1. u \in Thread /\ u.got = 0 /\ u.pc = "done"
    BY NoThreadType DEF ThreadPc
  <2>2. PICK v \in {"consistent", "inconsistent"} :
           verdict' = [verdict EXCEPT ![s] = v] /\ PrintLine(p, s, ReadVerdict(v))
    BY <1>8 DEF PrintVerdict
  <2>3. PICK new : new = ReadVerdict(v)
    OBVIOUS
  <2>4. new \in Knowledge /\ ReadFull(new)
    BY <1>1, <2>3, ReadType, ReadKeepsFull DEF ReadVerdict
  <2>5. /\ Move(p, s, u) /\ PrintLine(p, s, new) /\ disturbed' \subseteq Snapshots
        /\ UNCHANGED <<main, triggered, state_store>>
    BY <1>2, <1>8, <2>2, <2>3 DEF PrintVerdict
  <2>6. glued' \in 0 .. MaxGlued /\ \E rd \in Knowledge : read' = rd /\ ReadFull(rd)
    BY <2>4, <2>5, LineKept
  <2>7. /\ verdict' \in [Snapshots -> {"none", "consistent", "inconsistent"}]
        /\ \A w \in Snapshots : Stored(w) => Stored(w)'
    BY <1>2, <2>2, <2>5 DEF Stored
  <2>8. u \in Thread /\ (u.pc \in {"header", "rows"} => Stored(s)) /\ (u.got >= N => Stored(s))
    BY <2>1, Processes
  <2>9. PICK rd \in Knowledge : read' = rd /\ ReadFull(rd)
    BY <2>6
  <2>10. state_store' \in [Snapshots -> SUBSET Proc]
    BY <1>2, <2>5 DEF TypeOK
  <2>11. QED
    BY <1>1, <1>2, <2>5, <2>6, <2>7, <2>8, <2>9, <2>10, ThreadKept
<1>9. QED
  BY <1>3, <1>4, <1>5, <1>6, <1>7, <1>8

\* Every step keeps the types and the invariant.
LEMMA NextFull == TypeOK /\ FullInv /\ [Next]_vars => TypeOK' /\ FullInv'
<1> SUFFICES ASSUME TypeOK, FullInv, [Next]_vars PROVE TypeOK' /\ FullInv'
  OBVIOUS
<1>1. CASE Next
  BY <1>1, MainFull, ThreadFull DEF Next
<1>2. CASE UNCHANGED vars
  BY <1>2 DEF vars, TypeOK, FullInv, Rows, Stored
<1>3. QED
  BY <1>1, <1>2

----------------------------------------------------------------------------
(* What the analyser finds of reports that nobody disturbs.                *)

\* The analyser has read a line of the report of s, or of its last state.
Begun(s) == read.current = s \/ Rows(s) # {} \/ read.progress[s] >= N

\* A thread is about to print the report of s, or is printing it.
UnderWay(s) == \E p \in Remotes : threads[p][s].pc \in {"header", "rows"}

\* Such a report has a verdict, or a thread that will print one.
Reporting == \A s \in Snapshots : Begun(s) => verdict[s] # "none" \/ UnderWay(s)

\* A report has been disturbed, or is being printed after it was.
Doomed ==
    \/ disturbed # {}
    \/ \E p \in Remotes, s \in Snapshots : threads[p][s].pc = "rows" /\ ~threads[p][s].alone

\* Otherwise nobody but the thread that prints a report prints at all, the
\* analyser has all rows that were printed, and those of every report that is
\* over.
Undisturbed ==
    /\ \A p \in Remotes, s \in Snapshots : threads[p][s].pc = "rows" =>
          /\ Alone(p, s)
          /\ read.current = s
          /\ \A q \in Proc \ threads[p][s].left : read.recorded[s][q] = s
    /\ \A s \in Snapshots : verdict[s] # "none" => Judged(s)

ExactInv == Reporting /\ (Doomed \/ Undisturbed)

\* What a line changes of what the analyser knows.
LEMMA ReadFields ==
    ASSUME TypeOK, NEW s \in Snapshots
    PROVE  /\ ReadEnd.current = NoSnapshot
           /\ ReadEnd.recorded = read.recorded /\ ReadEnd.progress = read.progress
           /\ ReadHeader(s).current = s
           /\ ReadHeader(s).recorded = read.recorded /\ ReadHeader(s).progress = read.progress
           /\ \A p \in Proc :
                 /\ ReadRow(s, p).current = read.current /\ ReadRow(s, p).progress = read.progress
                 /\ \A u \in Snapshots, q \in Proc :
                       ReadRow(s, p).recorded[u][q] =
                          IF u = read.current /\ q = p THEN s ELSE read.recorded[u][q]
           /\ \A got :
                 /\ ReadProgress(s, got).current = read.current
                 /\ ReadProgress(s, got).recorded = read.recorded
                 /\ \A u \in Snapshots :
                       ReadProgress(s, got).progress[u] = IF u = s THEN got ELSE read.progress[u]
<1>1. read \in Knowledge
  BY ReadType
<1>2. /\ ReadEnd.current = NoSnapshot
      /\ ReadEnd.recorded = read.recorded /\ ReadEnd.progress = read.progress
      /\ ReadHeader(s).current = s
      /\ ReadHeader(s).recorded = read.recorded /\ ReadHeader(s).progress = read.progress
  BY <1>1 DEF Knowledge, ReadEnd, ReadHeader
<1>3. ASSUME NEW p \in Proc
      PROVE  /\ ReadRow(s, p).current = read.current /\ ReadRow(s, p).progress = read.progress
             /\ \A u \in Snapshots, q \in Proc :
                   ReadRow(s, p).recorded[u][q] =
                      IF u = read.current /\ q = p THEN s ELSE read.recorded[u][q]
  <2>1. CASE read.current = NoSnapshot
    BY <2>1, ReportAssumption DEF ReadRow
  <2>2. CASE read.current # NoSnapshot
    <3> DEFINE rd == ReadRow(s, p)
    <3>1. /\ rd.current = read.current /\ rd.progress = read.progress
          /\ rd.recorded = [read.recorded EXCEPT ![read.current][p] = s]
      BY <1>1, <2>2 DEF ReadRow, Knowledge
    <3>2. read.current \in Snapshots
      BY <1>1, <2>2 DEF Knowledge
    <3>3. \A u \in Snapshots, q \in Proc :
             rd.recorded[u][q] = IF u = read.current /\ q = p THEN s ELSE read.recorded[u][q]
      BY <1>1, <3>1, <3>2 DEF Knowledge
    <3>4. QED
      BY <3>1, <3>3
  <2>3. QED
    BY <2>1, <2>2
<1>4. ASSUME NEW got
      PROVE  /\ ReadProgress(s, got).current = read.current
             /\ ReadProgress(s, got).recorded = read.recorded
             /\ \A u \in Snapshots :
                   ReadProgress(s, got).progress[u] = IF u = s THEN got ELSE read.progress[u]
  BY <1>1 DEF Knowledge, ReadProgress
<1>5. QED
  BY <1>2, <1>3, <1>4

\* A step keeps reports on their way to a verdict if it begins none without a
\* thread for it.
LEMMA ReportingKept ==
    ASSUME Reporting,
           \A s \in Snapshots : Begun(s)' => Begun(s) \/ UnderWay(s)',
           \A s \in Snapshots : verdict[s] # "none" => verdict'[s] # "none",
           \A s \in Snapshots : UnderWay(s) => verdict'[s] # "none" \/ UnderWay(s)'
    PROVE  Reporting'
BY DEF Reporting

\* Nobody else is printing a report that can still come out undisturbed after
\* a thread has moved.
LEMMA MoveDisturbs ==
    ASSUME TypeOK, ExactInv, NEW p \in Remotes, NEW s \in Snapshots, NEW t \in Thread,
           Move(p, s, t), disturbed \subseteq disturbed', ~Doomed',
           threads[p][s].pc = "rows" => threads[p][s].alone
    PROVE  /\ Undisturbed
           /\ \A q \in Remotes, u \in Snapshots : q # p \/ u # s => threads'[q][u].pc # "rows"
           /\ t.pc = "rows" => t.alone
<1>1. \A q \in Remotes, u \in Snapshots :
         threads'[q][u] = IF <<q, u>> = <<p, s>> THEN t
                          ELSE [threads[q][u] EXCEPT !.alone = FALSE]
  BY DEF Move
<1>2. \A q \in Remotes, u \in Snapshots :
         q # p \/ u # s => threads'[q][u].pc = threads[q][u].pc /\ threads'[q][u].alone = FALSE
  <2> SUFFICES ASSUME NEW q \in Remotes, NEW u \in Snapshots, q # p \/ u # s
               PROVE  threads'[q][u].pc = threads[q][u].pc /\ threads'[q][u].alone = FALSE
    OBVIOUS
  <2>1. threads[q][u] \in Thread
    BY DEF TypeOK
  <2>2. threads'[q][u] = [threads[q][u] EXCEPT !.alone = FALSE]
    BY <1>1
  <2>3. QED
    BY <2>1, <2>2 DEF Thread
<1>3. \A q \in Remotes, u \in Snapshots :
         threads'[q][u].pc = "rows" => threads'[q][u].alone
  BY DEF Doomed
<1>4. \A q \in Remotes, u \in Snapshots : q # p \/ u # s => threads'[q][u].pc # "rows"
  BY <1>2, <1>3
<1>5. ~Doomed
  BY <1>2, <1>4 DEF Doomed
<1>6. threads'[p][s] = t
  BY <1>1
<1>7. QED
  BY <1>3, <1>4, <1>5, <1>6 DEF ExactInv

\* The main thread prints no report, and is at work while nobody prints one
\* undisturbed.
LEMMA MainExact ==
    ASSUME TypeOK, FullInv, ExactInv,
           \/ \E s \in Snapshots : AnnounceSnapshot(s)
           \/ PrintBanner \/ InitiateSnapshot \/ StoreOwnState
    PROVE  ExactInv'
<1>1. /\ read'.recorded = read.recorded /\ read'.progress = read.progress
      /\ read'.current \in {read.current, NoSnapshot}
  <2>1. CASE read' = read
    BY <2>1
  <2>2. CASE (PrintBanner \/ InitiateSnapshot) /\ read' = ReadEnd
    <3>1. main.id \in Snapshots
      BY <2>2 DEF PrintBanner, InitiateSnapshot, FullInv
    <3>2. QED
      BY <2>2, <3>1, ReadFields
  <2>3. QED
    BY <2>1, <2>2 DEF AnnounceSnapshot, PrintBanner, InitiateSnapshot, PrintBannerLine,
                      StoreOwnState, Glue
<1>2. verdict' = verdict /\ disturbed' = disturbed
  BY DEF AnnounceSnapshot, PrintBanner, InitiateSnapshot, StoreOwnState
<1>3. \A p \in Remotes, s \in Snapshots : threads'[p][s].pc = threads[p][s].pc
  BY DisturbEffect DEF AnnounceSnapshot, PrintBanner, InitiateSnapshot, StoreOwnState
<1>4. Reporting'
  <2>1. \A s \in Snapshots : Begun(s)' => Begun(s)
    BY <1>1, ReportAssumption DEF Begun, Rows
  <2>2. \A s \in Snapshots : UnderWay(s)' <=> UnderWay(s)
    BY <1>3 DEF UnderWay
  <2>3. Reporting
    BY DEF ExactInv
  <2>4. QED
    BY <1>2, <2>1, <2>2, <2>3, ReportingKept
<1>5. ASSUME ~Doomed' PROVE Undisturbed'
  <2>1. CASE \E s \in Snapshots : AnnounceSnapshot(s)
    <3>1. \A p \in Remotes, s \in Snapshots : threads'[p][s].alone = FALSE
      <4> SUFFICES ASSUME NEW p \in Remotes, NEW s \in Snapshots
                   PROVE  threads'[p][s].alone = FALSE
        OBVIOUS
      <4>1. threads[p][s] \in Thread
        BY DEF TypeOK
      <4>2. threads'[p][s] = [threads[p][s] EXCEPT !.alone = FALSE]
        BY <2>1 DEF AnnounceSnapshot, DisturbAll
      <4>3. QED
        BY <4>1, <4>2 DEF Thread
    <3>2. \A p \in Remotes, s \in Snapshots : threads'[p][s].pc # "rows"
      BY <1>5, <3>1 DEF Doomed
    <3>3. ~Doomed
      BY <1>2, <1>3, <1>5, <3>2 DEF Doomed
    <3>4. QED
      BY <1>1, <1>2, <3>2, <3>3 DEF ExactInv, Undisturbed, Judged
  <2>2. CASE PrintBanner \/ InitiateSnapshot \/ StoreOwnState
    <3>1. threads' = threads /\ main # Menu
      BY <2>2 DEF PrintBanner, InitiateSnapshot, StoreOwnState, Menu
    <3>2. Undisturbed
      BY <1>2, <1>5, <3>1 DEF ExactInv, Doomed
    <3>3. \A p \in Remotes, s \in Snapshots : threads'[p][s].pc # "rows"
      BY <3>1, <3>2 DEF Undisturbed, Alone
    <3>4. QED
      BY <1>1, <1>2, <3>2, <3>3 DEF Undisturbed, Judged
  <2>3. QED
    BY <2>1, <2>2
<1>6. QED
  BY <1>4, <1>5 DEF ExactInv

\* A thread stores and counts, and announces a report if it has counted all.
LEMMA CountExact ==
    ASSUME TypeOK, ExactInv, NEW p \in Remotes, NEW s \in Snapshots,
           HandleState(p, s) \/ CountStates(p, s) \/ PrintProgress(p, s)
    PROVE  ExactInv'
<1> PICK old : old = threads[p][s]
  OBVIOUS
<1>1. /\ old \in Thread /\ old.pc \in {"none", "count", "progress"}
      /\ verdict' = verdict /\ disturbed' = disturbed /\ main' = main
  BY DEF TypeOK, HandleState, CountStates, PrintProgress
<1>2. PICK t \in Thread :
         /\ Move(p, s, t)
         /\ t.pc \in {"count", "progress", "header", "done"}
         /\ PrintProgress(p, s) /\ old.got >= N => t.pc = "header"
  <2>1. CASE HandleState(p, s)
    <3> DEFINE t == [old EXCEPT !.pc = "count"]
    <3>1. t \in Thread /\ t.pc = "count" /\ Move(p, s, t)
      BY <1>1, <2>1 DEF HandleState, Goto, Thread, ThreadPc
    <3>2. ~PrintProgress(p, s)
      BY <2>1 DEF HandleState, PrintProgress
    <3>3. QED
      BY <3>1, <3>2
  <2>2. CASE CountStates(p, s)
    <3> PICK got : got = Cardinality(state_store[s])
      OBVIOUS
    <3> DEFINE t == [old EXCEPT !.pc = "progress", !.got = got]
    <3>1. got \in 0 .. N
      BY Processes DEF TypeOK
    <3>2. t \in Thread /\ t.pc = "progress" /\ Move(p, s, t)
      BY <1>1, <2>2, <3>1 DEF CountStates, Thread, ThreadPc
    <3>3. ~PrintProgress(p, s)
      BY <2>2 DEF CountStates, PrintProgress
    <3>4. QED
      BY <3>2, <3>3
  <2>3. CASE PrintProgress(p, s)
    <3> PICK pc : pc = IF old.got = N THEN "header" ELSE "done"
      OBVIOUS
    <3> PICK t : t = [NoThread EXCEPT !.pc = pc]
      OBVIOUS
    <3>1. t \in Thread /\ t.pc = pc
      BY NoThreadType DEF ThreadPc
    <3>2. Move(p, s, t)
      BY <2>3 DEF PrintProgress
    <3>3. old.got >= N => old.got = N
      BY <1>1, Processes DEF Thread
    <3>4. QED
      BY <3>1, <3>2, <3>3
  <2>4. QED
    BY <2>1, <2>2, <2>3
<1>3. /\ threads'[p][s] = t
      /\ \A q \in Remotes, u \in Snapshots :
            q # p \/ u # s => threads'[q][u].pc = threads[q][u].pc
  BY <1>2, MoveEffect
<1>4. /\ read'.current = read.current /\ read'.recorded = read.recorded
      /\ \A u \in Snapshots :
            \/ read'.progress[u] = read.progress[u]
            \/ PrintProgress(p, s) /\ u = s /\ read'.progress[u] = old.got
  BY ReadFields DEF HandleState, CountStates, PrintProgress, PrintLine, Glue
<1>5. Reporting'
  <2>1. \A u \in Snapshots : UnderWay(u) => UnderWay(u)'
    BY <1>1, <1>3 DEF UnderWay
  <2>2. \A u \in Snapshots : Begun(u)' => Begun(u) \/ UnderWay(u)'
    BY <1>2, <1>3, <1>4 DEF Begun, Rows, UnderWay
  <2>3. Reporting
    BY DEF ExactInv
  <2>4. QED
    BY <1>1, <2>1, <2>2, <2>3, ReportingKept
<1>6. ASSUME ~Doomed' PROVE Undisturbed'
  <2>1. /\ Undisturbed
        /\ \A q \in Remotes, u \in Snapshots : q # p \/ u # s => threads'[q][u].pc # "rows"
    BY <1>1, <1>2, <1>6, MoveDisturbs
  <2>2. \A q \in Remotes, u \in Snapshots : threads'[q][u].pc # "rows"
    BY <1>2, <1>3, <2>1
  <2>3. QED
    BY <1>1, <1>4, <2>1, <2>2 DEF Undisturbed, Judged
<1>7. QED
  BY <1>5, <1>6 DEF ExactInv

\* A report begins: it is undisturbed if nobody else is about to print.
LEMMA HeaderExact ==
    ASSUME TypeOK, ExactInv, NEW p \in Remotes, NEW s \in Snapshots, PrintHeader(p, s)
    PROVE  ExactInv'
<1> PICK t : t = [threads[p][s] EXCEPT !.pc = "rows", !.left = Proc, !.alone = Alone(p, s)]
  OBVIOUS
<1>1. threads[p][s] \in Thread /\ threads[p][s].pc = "header"
  BY DEF TypeOK, PrintHeader
<1>2. t \in Thread /\ t.pc = "rows" /\ t.left = Proc /\ (t.alone <=> Alone(p, s))
  BY <1>1 DEF Thread, ThreadPc, Alone
<1>3. /\ Move(p, s, t) /\ verdict' = verdict /\ disturbed' = disturbed /\ main' = main
      /\ PrintLine(p, s, ReadHeader(s))
  BY DEF PrintHeader
<1>4. /\ threads'[p][s] = t
      /\ \A q \in Remotes, u \in Snapshots :
            q # p \/ u # s => threads'[q][u].pc = threads[q][u].pc
  BY <1>2, <1>3, MoveEffect
<1>5. /\ read'.current \in {read.current, s} /\ (Alone(p, s) => read'.current = s)
      /\ read'.recorded = read.recorded /\ read'.progress = read.progress
  BY <1>3, ReadFields DEF PrintLine, Glue
<1>6. Reporting'
  <2>1. UnderWay(s)' /\ \A u \in Snapshots : UnderWay(u) => UnderWay(u)'
    BY <1>2, <1>4 DEF UnderWay
  <2>2. \A u \in Snapshots : Begun(u)' => Begun(u) \/ UnderWay(u)'
    BY <1>5, <2>1 DEF Begun, Rows
  <2>3. Reporting
    BY DEF ExactInv
  <2>4. QED
    BY <1>3, <2>1, <2>2, <2>3, ReportingKept
<1>7. ASSUME ~Doomed' PROVE Undisturbed'
  <2>1. /\ Undisturbed /\ t.alone
        /\ \A q \in Remotes, u \in Snapshots : q # p \/ u # s => threads'[q][u].pc # "rows"
    BY <1>1, <1>2, <1>3, <1>7, MoveDisturbs
  <2>2. Alone(p, s) /\ read'.current = s
    BY <1>2, <1>5, <2>1
  <2>3. Alone(p, s)'
    BY <1>3, <1>4, <2>2 DEF Alone
  <2>4. \A q \in Remotes, u \in Snapshots : threads'[q][u].pc = "rows" => q = p /\ u = s
    BY <2>1
  <2>5. \A q \in Proc \ threads'[p][s].left : read'.recorded[s][q] = s
    BY <1>2, <1>4
  <2>6. \A u \in Snapshots : verdict'[u] # "none" => Judged(u)'
    BY <1>3, <1>5, <2>1 DEF Undisturbed, Judged
  <2>7. QED
    BY <2>2, <2>3, <2>4, <2>5, <2>6 DEF Undisturbed
<1>8. QED
  BY <1>6, <1>7 DEF ExactInv

\* A row goes into the report that the analyser has read the header of, which
\* is that of its thread if nobody else prints.
LEMMA RowExact ==
    ASSUME TypeOK, ExactInv, NEW p \in Remotes, NEW s \in Snapshots, PrintRow(p, s)
    PROVE  ExactInv'
<1> PICK old : old = threads[p][s]
  OBVIOUS
<1>1. old \in Thread /\ old.pc = "rows"
  BY DEF TypeOK, PrintRow
<1>2. PICK q \in old.left : /\ PrintLine(p, s, ReadRow(s, q))
                            /\ Move(p, s, [old EXCEPT !.left = @ \ {q}])
  BY DEF PrintRow
<1> PICK t : t = [old EXCEPT !.left = @ \ {q}]
  OBVIOUS
<1>3. /\ q \in Proc /\ t \in Thread
      /\ t.pc = "rows" /\ t.left = old.left \ {q} /\ t.alone = old.alone
  BY <1>1 DEF Thread
<1>4. /\ Move(p, s, t) /\ verdict' = verdict /\ disturbed' = disturbed /\ main' = main
  BY <1>2 DEF PrintRow
<1>5. /\ threads'[p][s] = t
      /\ \A r \in Remotes, u \in Snapshots :
            r # p \/ u # s => threads'[r][u].pc = threads[r][u].pc
  BY <1>3, <1>4, MoveEffect
<1>6. /\ read'.current = read.current /\ read'.progress = read.progress
      /\ \A u \in Snapshots, r \in Proc :
            \/ read'.recorded[u][r] = read.recorded[u][r] /\ ~(Alone(p, s) /\ u = read.current /\ r = q)
            \/ u = read.current /\ r = q /\ read'.recorded[u][r] = s
  BY <1>2, <1>3, ReadFields DEF PrintLine, Glue
<1>7. Reporting'
  <2>1. \A u \in Snapshots : UnderWay(u) => UnderWay(u)'
    BY <1>3, <1>5 DEF UnderWay
  <2>2. \A u \in Snapshots : Begun(u)' => Begun(u)
    BY <1>6 DEF Begun, Rows
  <2>3. Reporting
    BY DEF ExactInv
  <2>4. QED
    BY <1>4, <2>1, <2>2, <2>3, ReportingKept
<1>8. ASSUME ~Doomed' PROVE Undisturbed'
  <2>1. old.alone
    BY <1>3, <1>5, <1>8 DEF Doomed
  <2>2. /\ Undisturbed
        /\ \A r \in Remotes, u \in Snapshots : r # p \/ u # s => threads'[r][u].pc # "rows"
    BY <1>3, <1>4, <1>8, <2>1, MoveDisturbs
  <2>3. /\ Alone(p, s) /\ read.current = s
        /\ \A r \in Proc \ old.left : read.recorded[s][r] = s
    BY <1>1, <2>2 DEF Undisturbed
  <2>4. Alone(p, s)'
    BY <1>4, <1>5, <2>3 DEF Alone
  <2>5. \A r \in Proc \ t.left : read'.recorded[s][r] = s
    BY <1>3, <1>6, <2>3
  <2>6. \A u \in Snapshots : Judged(u) => Judged(u)'
    BY <1>6, <2>3 DEF Judged
  <2>7. \A r \in Remotes, u \in Snapshots : threads'[r][u].pc = "rows" => r = p /\ u = s
    BY <2>2
  <2>8. read'.current = s /\ \A r \in Proc \ threads'[p][s].left : read'.recorded[s][r] = s
    BY <1>5, <1>6, <2>3, <2>5
  <2>9. \A u \in Snapshots : verdict'[u] # "none" => Judged(u)'
    BY <1>4, <2>2, <2>6 DEF Undisturbed
  <2>10. QED
    BY <2>4, <2>7, <2>8, <2>9 DEF Undisturbed
<1>9. QED
  BY <1>7, <1>8 DEF ExactInv

\* A report that ends undisturbed has all its rows.
LEMMA VerdictExact ==
    ASSUME TypeOK, ExactInv, NEW p \in Remotes, NEW s \in Snapshots, PrintVerdict(p, s)
    PROVE  ExactInv'
<1> PICK old : old = threads[p][s]
  OBVIOUS
<1> PICK t : t = [NoThread EXCEPT !.pc = "done"]
  OBVIOUS
<1>1. /\ old \in Thread /\ old.pc = "rows" /\ old.left = {}
      /\ t \in Thread /\ t.pc = "done"
  BY NoThreadType DEF TypeOK, PrintVerdict, ThreadPc
<1>2. PICK v \in {"consistent", "inconsistent"} :
         verdict' = [verdict EXCEPT ![s] = v] /\ PrintLine(p, s, ReadVerdict(v))
  BY DEF PrintVerdict
<1>3. /\ Move(p, s, t)
      /\ disturbed' = IF old.alone THEN disturbed ELSE disturbed \cup {s}
  BY DEF PrintVerdict
<1>4. \A u \in Snapshots : verdict'[u] = IF u = s THEN v ELSE verdict[u]
  BY <1>2 DEF TypeOK
<1>5. /\ threads'[p][s] = t
      /\ \A q \in Remotes, u \in Snapshots :
            q # p \/ u # s => threads'[q][u].pc = threads[q][u].pc
  BY <1>1, <1>3, MoveEffect
<1>6. /\ read'.current \in {read.current, NoSnapshot}
      /\ read'.recorded = read.recorded /\ read'.progress = read.progress
  BY <1>2, ReadFields DEF PrintLine, Glue, ReadVerdict
<1>7. Reporting'
  <2>1. \A u \in Snapshots : verdict[u] # "none" => verdict'[u] # "none"
    BY <1>4
  <2>2. \A u \in Snapshots : UnderWay(u) => verdict'[u] # "none" \/ UnderWay(u)'
    BY <1>4, <1>5 DEF UnderWay
  <2>3. \A u \in Snapshots : Begun(u)' => Begun(u)
    BY <1>6, ReportAssumption DEF Begun, Rows
  <2>4. Reporting
    BY DEF ExactInv
  <2>5. QED
    BY <2>1, <2>2, <2>3, <2>4, ReportingKept
<1>8. ASSUME ~Doomed' PROVE Undisturbed'
  <2>1. old.alone
    BY <1>3, <1>8 DEF Doomed
  <2>2. /\ Undisturbed
        /\ \A q \in Remotes, u \in Snapshots : q # p \/ u # s => threads'[q][u].pc # "rows"
    BY <1>1, <1>3, <1>8, <2>1, MoveDisturbs
  <2>3. Judged(s)
    BY <1>1, <2>2 DEF Undisturbed, Judged
  <2>4. \A u \in Snapshots : verdict'[u] # "none" => Judged(u)'
    BY <1>4, <1>6, <2>2, <2>3 DEF Undisturbed, Judged
  <2>5. \A q \in Remotes, u \in Snapshots : threads'[q][u].pc # "rows"
    BY <1>1, <1>5, <2>2
  <2>6. QED
    BY <2>4, <2>5 DEF Undisturbed
<1>9. QED
  BY <1>7, <1>8 DEF ExactInv

\* The analyser begins with nothing, and every step keeps what it finds exact.
LEMMA ExactInvariant == Spec => [](TypeOK /\ FullInv /\ ExactInv)
<1>1. Init => ExactInv
  <2> SUFFICES ASSUME Init PROVE ExactInv
    OBVIOUS
  <2>1. N \in Nat /\ N >= 1
    BY Processes
  <2>2. \A p \in Remotes, s \in Snapshots : threads[p][s].pc = "none"
    BY DEF Init, NoThread
  <2>3. \A s \in Snapshots : ~Begun(s) /\ verdict[s] = "none"
    BY <2>1, ReportAssumption DEF Init, Begun, Rows
  <2>4. QED
    BY <2>2, <2>3 DEF ExactInv, Reporting, Undisturbed
<1>2. TypeOK /\ FullInv /\ ExactInv /\ [Next]_vars => ExactInv'
  <2> SUFFICES ASSUME TypeOK, FullInv, ExactInv, [Next]_vars PROVE ExactInv'
    OBVIOUS
  <2>1. CASE Next
    BY <2>1, MainExact, CountExact, HeaderExact, RowExact, VerdictExact DEF Next
  <2>2. CASE UNCHANGED vars
    BY <2>2 DEF vars, ExactInv, Reporting, Doomed, Undisturbed, Begun, UnderWay, Rows, Alone, Judged
  <2>3. QED
    BY <2>1, <2>2
<1>3. QED
  BY <1>1, <1>2, InitFull, NextFull, PTL DEF Spec


----------------------------------------------------------------------------
(* The theorems.                                                           *)

\* A snapshot that the analyser calls complete has a full store.
LEMMA FullIsSound == FullInv => CompleteSound
<1> SUFFICES ASSUME FullInv, NEW s \in Snapshots, Complete(s) PROVE state_store[s] = Proc
  BY DEF CompleteSound
<1>1. CASE read.progress[s] >= N
  BY <1>1 DEF FullInv, Stored
<1>2. CASE Cardinality(Rows(s)) >= N
  <2>1. Rows(s) # {}
    BY <1>2, Processes, FS_EmptySet
  <2>2. QED
    BY <2>1 DEF FullInv, Stored
<1>3. QED
  BY <1>1, <1>2 DEF Complete

\* P0's variables and what the analyser has read keep their types.
THEOREM TypeCorrect == Spec => []TypeOK
BY InitFull, NextFull, PTL DEF Spec

\* However the lines of P0's threads are mixed, lost or printed late, the analyser
\* calls a snapshot complete only when P0 has collected every state.
THEOREM CompleteIsSound == Spec => []CompleteSound
BY InitFull, NextFull, FullIsSound, PTL DEF Spec

\* If every report was printed while nobody else printed, the analyser finds
\* complete exactly the snapshots that P0 gave a verdict on, and judges the cuts
\* that P0 collected.
THEOREM AnalysisIsExact == Spec => []AnalyserExact
<1>1. ExactInv => AnalyserExact
  <2> SUFFICES ASSUME ExactInv, Idle, disturbed = {}, NEW s \in Snapshots
               PROVE  /\ Complete(s) <=> verdict[s] # "none"
                      /\ verdict[s] # "none" => Judged(s)
    BY DEF AnalyserExact
  <2>1. \A p \in Remotes, u \in Snapshots : threads[p][u].pc \notin {"header", "rows"}
    BY DEF Idle, Quiet
  <2>2. verdict[s] # "none" => Judged(s)
    BY <2>1 DEF ExactInv, Doomed, Undisturbed
  <2>3. Complete(s) => verdict[s] # "none"
    <3>1. Complete(s) => Begun(s)
      BY Processes, FS_EmptySet DEF Complete, Begun
    <3>2. QED
      BY <2>1, <3>1 DEF ExactInv, Reporting, UnderWay
  <2>4. Judged(s) => Complete(s)
    <3>1. Judged(s) => Rows(s) = Proc
      BY ReportAssumption DEF Judged, Rows
    <3>2. QED
      BY <3>1, Processes DEF Complete, N
  <2>5. QED
    BY <2>2, <2>3, <2>4
<1>2. QED
  BY <1>1, ExactInvariant, PTL

=============================================================================
