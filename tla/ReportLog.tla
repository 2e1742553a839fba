----------------------------- MODULE ReportLog -----------------------------
(***************************************************************************)
(* What infra/analyse_run.py makes of the snapshots in P0's log.           *)
(*                                                                         *)
(* P0 (src/p0.py) prints its progress lines and reports from the threads   *)
(* that handle STATE messages, line by line and without a lock, while the  *)
(* main thread prints the banner of the next trigger.  parse_logs reads    *)
(* the lines in the order in which they were printed and attributes a row  *)
(* to the report whose header it read last.  A print is several writes, so *)
(* the lines of two threads may also end up as one, in which the patterns  *)
(* find only one of the two.                                               *)
(*                                                                         *)
(* The clock of a row is represented by the snapshot in which it was       *)
(* recorded: the analyser judges a cut rightly when the rows it judges are *)
(* those of that cut.  A snapshot is triggered once, and no report is      *)
(* printed for the menu, which a P0 whose output is logged does not have.  *)
(***************************************************************************)
EXTENDS Naturals, FiniteSets

CONSTANTS
    P0,
    Remotes,        \* the other processes, numbered as P0 is
    Snapshots,
    NoSnapshot,     \* None, as current_report or as a row that is missing
    MaxGlued        \* bound: how many lines end up behind another one

Proc == {P0} \cup Remotes
N == Cardinality(Proc)

ASSUME ReportAssumption ==
    /\ Proc \subseteq Nat /\ P0 \notin Remotes
    /\ IsFiniteSet(Proc)
    /\ NoSnapshot \notin Snapshots
    /\ MaxGlued \in Nat

VARIABLES
    main,           \* what P0's main thread is in the middle of
    triggered,      \* the snapshots triggered so far
    threads,        \* the thread that handles the STATE of each process
    state_store,    \* p0.py: the processes whose state is stored
    verdict,        \* what P0's own check has found of each cut
    glued,          \* how many lines were lost behind another one
    read,           \* what parse_logs knows after the lines printed so far
    disturbed       \* history: the snapshots whose report was not printed alone

vars == <<main, triggered, threads, state_store, verdict, glued, read, disturbed>>

NoThread == [pc |-> "none", got |-> 0, left |-> {}, alone |-> FALSE]

Menu == [pc |-> "menu", id |-> NoSnapshot]

ThreadPc == {"none", "count", "progress", "header", "rows", "done"}

\* got is the count in its local variable, left the rows it has still to
\* print, and alone says that nobody else printed since its header.
Thread == [pc : ThreadPc, got : 0 .. N, left : SUBSET Proc, alone : BOOLEAN]

Quiet == {"none", "done"}

\* Every variable has its type; a sanity check of the model as a whole.
TypeOK ==
    /\ main \in [pc : {"menu", "banner", "initiate", "store"}, id : Snapshots \cup {NoSnapshot}]
    /\ triggered \subseteq Snapshots
    /\ threads \in [Remotes -> [Snapshots -> Thread]]
    /\ state_store \in [Snapshots -> SUBSET Proc]
    /\ verdict \in [Snapshots -> {"none", "consistent", "inconsistent"}]
    /\ glued \in 0 .. MaxGlued
    /\ read \in [current : Snapshots \cup {NoSnapshot},
                 recorded : [Snapshots -> [Proc -> Snapshots \cup {NoSnapshot}]],
                 progress : [Snapshots -> 0 .. N]]
    /\ disturbed \subseteq Snapshots

Init ==
    /\ main = Menu
    /\ triggered = {}
    /\ threads = [p \in Remotes |-> [s \in Snapshots |-> NoThread]]
    /\ state_store = [s \in Snapshots |-> {}]
    /\ verdict = [s \in Snapshots |-> "none"]
    /\ glued = 0
    /\ read = [current |-> NoSnapshot,
               recorded |-> [s \in Snapshots |-> [p \in Proc |-> NoSnapshot]],
               progress |-> [s \in Snapshots |-> 0]]
    /\ disturbed = {}

----------------------------------------------------------------------------
(* parse_logs, one line at a time.                                         *)

\* Mutant: a header inside a report is taken for a line of it.
ReadFirstHeader(s) == IF read.current = NoSnapshot THEN [read EXCEPT !.current = s] ELSE read

ReadHeader(s) == [read EXCEPT !.current = s]

\* Of two rows on one process, the later one counts.
ReadRow(s, p) ==
    IF read.current = NoSnapshot THEN read
    ELSE [read EXCEPT !.recorded[read.current][p] = s]

\* The last progress line counts, not the one that shows most.
ReadProgress(s, got) == [read EXCEPT !.progress[s] = got]

\* A line of = signs, or one with the word CONSISTENT, ends the report; one
\* that begins with Inconsistencies does not.
ReadEnd == [read EXCEPT !.current = NoSnapshot]

ReadVerdict(v) == IF v = "consistent" THEN ReadEnd ELSE read

----------------------------------------------------------------------------
(* build_snapshot_view                                                     *)

Rows(s) == {p \in Proc : read.recorded[s][p] # NoSnapshot}

\* Mutant: the initiator need not report.
CompleteWithoutInitiator(s) == read.progress[s] >= N - 1 \/ Cardinality(Rows(s)) >= N - 1

Complete(s) == read.progress[s] >= N \/ Cardinality(Rows(s)) >= N

\* verify_consistency is given the cut that P0 collected.
Judged(s) == \A p \in Proc : read.recorded[s][p] = s

----------------------------------------------------------------------------
(* Threads.                                                                *)

\* Nothing but the thread of process p and snapshot s is about to print.
Alone(p, s) ==
    /\ main = Menu
    /\ \A q \in Remotes, u \in Snapshots : <<q, u>> # <<p, s>> => threads[q][u].pc \in Quiet

\* A thread that takes a step disturbs the reports of the others.
Move(p, s, t) ==
    threads' = [q \in Remotes |-> [u \in Snapshots |->
        IF <<q, u>> = <<p, s>> THEN t ELSE [threads[q][u] EXCEPT !.alone = FALSE]]]

Goto(p, s, pc) == Move(p, s, [threads[p][s] EXCEPT !.pc = pc])

DisturbAll ==
    threads' = [q \in Remotes |-> [u \in Snapshots |-> [threads[q][u] EXCEPT !.alone = FALSE]]]

\* A line is lost behind another one.
Glue == glued < MaxGlued /\ glued' = glued + 1 /\ UNCHANGED read

\* The line is read as new says, or is lost behind another one.
PrintLine(p, s, new) ==
    \/ read' = new /\ UNCHANGED glued
    \/ ~Alone(p, s) /\ Glue

----------------------------------------------------------------------------
(* The main thread.                                                        *)

\* trigger_snapshot prints its banner, of which two lines end a report.
AnnounceSnapshot(s) ==
    /\ main = Menu
    /\ s \notin triggered
    /\ main' = [pc |-> "banner", id |-> s]
    /\ DisturbAll
    /\ UNCHANGED <<triggered, state_store, verdict, glued, read, disturbed>>

PrintBannerLine ==
    \/ read' = ReadEnd /\ UNCHANGED glued
    \/ Glue /\ \E p \in Remotes, s \in Snapshots : threads[p][s].pc \notin Quiet

PrintBanner ==
    /\ main.pc = "banner"
    /\ PrintBannerLine
    /\ main' = [main EXCEPT !.pc = "initiate"]
    /\ UNCHANGED <<triggered, threads, state_store, verdict, disturbed>>

InitiateSnapshot ==
    /\ main.pc = "initiate"
    /\ PrintBannerLine
    /\ triggered' = triggered \cup {main.id}
    /\ main' = [main EXCEPT !.pc = "store"]
    /\ UNCHANGED <<threads, state_store, verdict, disturbed>>

StoreOwnState ==
    /\ main.pc = "store"
    /\ state_store' = [state_store EXCEPT ![main.id] = @ \cup {P0}]
    /\ main' = Menu
    /\ UNCHANGED <<triggered, threads, verdict, glued, read, disturbed>>

----------------------------------------------------------------------------
(* dispatch, for the STATE of process p in snapshot s.                     *)

\* handle_state; the receive_event before it prints a line of no interest.
HandleState(p, s) ==
    /\ s \in triggered
    /\ threads[p][s].pc = "none"
    /\ state_store' = [state_store EXCEPT ![s] = @ \cup {p}]
    /\ Goto(p, s, "count")
    /\ UNCHANGED <<main, triggered, verdict, glued, read, disturbed>>

\* Mutant: the keys of state_store that begin with _ are counted in.
CountAllKeys(p, s) ==
    /\ threads[p][s].pc = "count"
    /\ Move(p, s, [threads[p][s] EXCEPT !.pc = "progress", !.got = Cardinality(state_store[s]) + 1])
    /\ UNCHANGED <<main, triggered, state_store, verdict, glued, read, disturbed>>

CountStates(p, s) ==
    /\ threads[p][s].pc = "count"
    /\ Move(p, s, [threads[p][s] EXCEPT !.pc = "progress", !.got = Cardinality(state_store[s])])
    /\ UNCHANGED <<main, triggered, state_store, verdict, glued, read, disturbed>>

PrintProgress(p, s) ==
    /\ threads[p][s].pc = "progress"
    /\ PrintLine(p, s, ReadProgress(s, threads[p][s].got))
    /\ Move(p, s, [NoThread EXCEPT !.pc = IF threads[p][s].got = N THEN "header" ELSE "done"])
    /\ UNCHANGED <<main, triggered, state_store, verdict, disturbed>>

\* check_snapshot_consistency
PrintHeader(p, s) ==
    /\ threads[p][s].pc = "header"
    /\ PrintLine(p, s, ReadHeader(s))
    /\ Move(p, s, [threads[p][s] EXCEPT !.pc = "rows", !.left = Proc, !.alone = Alone(p, s)])
    /\ UNCHANGED <<main, triggered, state_store, verdict, disturbed>>

\* The rows come in the order of the process names.
PrintRow(p, s) ==
    /\ threads[p][s].pc = "rows"
    /\ \E q \in threads[p][s].left :
        /\ \A r \in threads[p][s].left : q <= r
        /\ PrintLine(p, s, ReadRow(s, q))
        /\ Move(p, s, [threads[p][s] EXCEPT !.left = @ \ {q}])
    /\ UNCHANGED <<main, triggered, state_store, verdict, disturbed>>

\* Every thread that checks a snapshot finds the same.
PrintVerdict(p, s) ==
    /\ threads[p][s].pc = "rows" /\ threads[p][s].left = {}
    /\ \E v \in {"consistent", "inconsistent"} :
        /\ verdict[s] \in {"none", v}
        /\ verdict' = [verdict EXCEPT ![s] = v]
        /\ PrintLine(p, s, ReadVerdict(v))
    /\ disturbed' = IF threads[p][s].alone THEN disturbed ELSE disturbed \cup {s}
    /\ Move(p, s, [NoThread EXCEPT !.pc = "done"])
    /\ UNCHANGED <<main, triggered, state_store>>

Next ==
    \/ \E s \in Snapshots : AnnounceSnapshot(s)
    \/ PrintBanner
    \/ InitiateSnapshot
    \/ StoreOwnState
    \/ \E p \in Remotes, s \in Snapshots :
        \/ HandleState(p, s)  \/ CountStates(p, s)  \/ PrintProgress(p, s)
        \/ PrintHeader(p, s)  \/ PrintRow(p, s)     \/ PrintVerdict(p, s)

Spec == Init /\ [][Next]_vars

----------------------------------------------------------------------------
(* Properties.                                                             *)

\* The analyser calls a snapshot complete only when P0 has collected every
\* state, however the lines of its threads are mixed, lost or printed late.
CompleteSound == \A s \in Snapshots : Complete(s) => state_store[s] = Proc

Idle == main = Menu /\ \A p \in Remotes, s \in Snapshots : threads[p][s].pc \in Quiet

\* If every report was printed while nobody else printed, the analyser finds
\* complete the snapshots that P0 gave a verdict on and no others, and judges
\* the very cuts that P0 collected, also after a report that did not end with
\* a line that ends it.
AnalyserExact ==
    Idle /\ disturbed = {} =>
        \A s \in Snapshots :
            /\ Complete(s) <=> verdict[s] # "none"
            /\ verdict[s] # "none" => Judged(s)

=============================================================================
