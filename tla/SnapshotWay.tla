---------------------------- MODULE SnapshotWay ----------------------------
(***************************************************************************)
(* What the programs promise about a snapshot: the marker goes from P0 to  *)
(* the restaurants and from them to their runners; a process that it has   *)
(* reached reads its clock once and reports it, and the report is          *)
(* collected once, unless the send that carries it fails; P0 reads its own *)
(* clock and collects it, and again if the snapshot is triggered again.    *)
(* The snapshot is judged by what is collected at the moment: as a whole   *)
(* when that is everything, or as far as it goes when the operator asks.   *)
(***************************************************************************)
EXTENDS Naturals

CONSTANTS
    P0,
    Restaurants,
    Runners,
    Partner,        \* the runner of each restaurant
    Snapshots,
    MaxLoss

VARIABLES
    now,        \* the clock of each process
    marked,     \* the processes that the marker of each snapshot has reached
    reports,    \* where each process's report is, {} when it is lost; P0 may
                \* have a new one under way besides the collected one
    verdict,    \* the verdicts on each snapshot
    lost        \* how many sends failed so far

vars == <<now, marked, reports, verdict, lost>>

Everyone == {P0} \cup Restaurants \cup Runners

None == {<<"none">>}
UnderWay(v) == {<<"under way", v>>}
Collected(v) == {<<"collected", v>>}
Lost == {}

\* The clock that P0 has collected of p
Held(s, p) == {x[2] : x \in {y \in reports[s][p] : y[1] = "collected"}}

Init ==
    /\ now = [p \in Everyone |-> [q \in Everyone |-> 0]]
    /\ marked = [s \in Snapshots |-> {}]
    /\ reports = [s \in Snapshots |-> [p \in Everyone |-> None]]
    /\ verdict = [s \in Snapshots |-> {}]
    /\ lost = 0

\* Clocks only go forward.
Forward == \A p, q \in Everyone : now[p][q] <= now'[p][q]

Run == Forward /\ UNCHANGED <<marked, reports, verdict, lost>>

\* The processes from which the marker comes to p
Sources(p) == IF p \in Restaurants THEN {P0} ELSE {r \in Restaurants : Partner[r] = p}

Mark(s, p) ==
    /\ p \notin marked[s]
    /\ p = P0 \/ Sources(p) \cap marked[s] # {}
    /\ marked' = [marked EXCEPT ![s] = @ \cup {p}]
    /\ Forward
    /\ UNCHANGED <<reports, verdict, lost>>

ReportStep(s, p, to) ==
    /\ p \in marked[s]
    /\ reports' = [reports EXCEPT ![s][p] = to]
    /\ UNCHANGED <<now, marked, verdict>>

Cut(s, p) ==
    /\ reports[s][p] = None
    /\ ReportStep(s, p, UnderWay(now[p]))
    /\ UNCHANGED lost

CutAgain(s) ==
    /\ \E v \in Held(s, P0) : reports[s][P0] = Collected(v)
    /\ ReportStep(s, P0, reports[s][P0] \cup UnderWay(now[P0]))
    /\ UNCHANGED lost

Collect(s, p) ==
    /\ \E x \in reports[s][p] : x[1] = "under way" /\ ReportStep(s, p, Collected(x[2]))
    /\ UNCHANGED lost

Lose ==
    /\ lost < MaxLoss
    /\ lost' = lost + 1
    /\ \/ UNCHANGED <<now, marked, reports, verdict>>
       \/ \E s \in Snapshots, p \in Everyone \ {P0} :
             \E x \in reports[s][p] : x[1] = "under way" /\ ReportStep(s, p, Lost)

\* The clock collected of p knows more of q than the one collected of q.
Ahead(s, p, q) == \E v \in Held(s, p), w \in Held(s, q) : v[q] > w[q]

\* P0 compares two states in one direction only.  It does not make up an
\* inconsistency, and finds it for certain if each of the two is ahead.
Finding(s, says) ==
    \/ says = "inconsistent" /\ \E p, q \in Everyone : Ahead(s, p, q)
    \/ says = "consistent" /\ \A p, q \in Everyone : ~(Ahead(s, p, q) /\ Ahead(s, q, p))

Judge(s, by, says) ==
    /\ by = "collected" => \A p \in Everyone : Held(s, p) # {}
    /\ by = "menu" => \E p \in Everyone : Held(s, p) # {}
    /\ Finding(s, says)
    /\ verdict' = [verdict EXCEPT ![s] = @ \cup {[by |-> by, says |-> says]}]
    /\ UNCHANGED <<now, marked, reports, lost>>

Next ==
    \/ Run
    \/ Lose
    \/ \E s \in Snapshots :
          \/ CutAgain(s)
          \/ \E by \in {"collected", "menu"}, says \in {"consistent", "inconsistent"} :
                Judge(s, by, says)
          \/ \E p \in Everyone : Mark(s, p) \/ Cut(s, p) \/ Collect(s, p)

Spec == Init /\ [][Next]_vars

=============================================================================
