----------------------------- MODULE AnalyseRun -----------------------------
(***************************************************************************)
(* The algorithms of infra/analyse_run.py, which reads the logs of a run:  *)
(* the order of the timeline, the concurrent pairs and an independent      *)
(* verdict on a snapshot.  An event is what a log line says of it, its     *)
(* process, its kind and its clock; lines that agree in all three are one  *)
(* event (dedupe_events).  Processes are numbered where clocks are sorted. *)
(***************************************************************************)
EXTENDS VectorClock, FiniteSets

\* Mutant: incomparable in one direction only.
ConcurrentOneWay(v, w) == v # w /\ ~Leq(v, w)

Concurrent(v, w) == v # w /\ ~Leq(v, w) /\ ~Leq(w, v)

\* find_concurrent: the pairs of different processes
FindConcurrent(events) ==
    {ab \in events \X events :
        ab[1].proc # ab[2].proc /\ Concurrent(ab[1].clock, ab[2].clock)}

\* The sum of a clock, as the number of events that it counts.
ClockSum(v) == Cardinality(UNION {{p} \X (1 .. v[p]) : p \in Proc})

\* Lists are compared at the first place where they differ.
ListLess(v, w) ==
    \E p \in Proc : v[p] < w[p] /\ \A q \in Proc : q < p => v[q] = w[q]

\* Mutant: the own count of the process comes first.
OwnCountKey(e) == [sum |-> e.clock[e.proc], clock |-> e.clock, proc |-> e.proc]

\* The key of causal_sort, and how two keys compare.
SortKey(e) == [sum |-> ClockSum(e.clock), clock |-> e.clock, proc |-> e.proc]

KeyLess(k, l) ==
    \/ k.sum < l.sum
    \/ k.sum = l.sum /\ ListLess(k.clock, l.clock)
    \/ k.sum = l.sum /\ k.clock = l.clock /\ k.proc < l.proc

\* Mutant: what a process knows of a third one is compared with what the
\* second knows of it.
VerifyThirdParties(recorded) ==
    {pq \in (DOMAIN recorded) \X (DOMAIN recorded) :
        \E r \in DOMAIN recorded : recorded[pq[1]][r] > recorded[pq[2]][r]}

\* verify_consistency: the ordered pairs of processes of which the first has
\* recorded more of the second than the second itself.
VerifyConsistency(recorded) ==
    {pq \in (DOMAIN recorded) \X (DOMAIN recorded) :
        recorded[pq[1]][pq[2]] > recorded[pq[2]][pq[2]]}

=============================================================================
