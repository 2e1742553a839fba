---------------------------- MODULE VectorClock ----------------------------
(***************************************************************************)
(* The operations of src/src/vector_clock.py as functions on clock values. *)
(* In the program each operation runs under the lock of one VectorClock    *)
(* object and returns a copy, so an operation is one atomic step of the    *)
(* process that owns the clock; the modules that extend this one keep the  *)
(* clock of every process in a variable and apply these operators to it.   *)
(*                                                                         *)
(* All clocks of a run have the same length (num_processes = 5), so the    *)
(* min(num_processes, len(received_clock)) of receive_event is the whole   *)
(* clock and a clock is a function on the set of processes.                *)
(***************************************************************************)
EXTENDS Naturals

CONSTANT Proc

Clock == [Proc -> Nat]

ZeroClock == [p \in Proc |-> 0]

\* increment, send_event and internal_event add one to the own component;
\* they differ in what they print.
Tick(v, p) == [v EXCEPT ![p] = @ + 1]

\* Mutant: the received clock replaces the own one.
MergeOverwrites(v, w) == w

\* The loop of receive_event: the component-wise maximum.
Merge(v, w) == [q \in Proc |-> IF v[q] < w[q] THEN w[q] ELSE v[q]]

\* Mutant: the received clock is ignored.
ReceiveEventUnmerged(v, p, w) == Tick(v, p)

ReceiveEvent(v, p, w) == Tick(Merge(v, w), p)

\* Component-wise order, with which infra/analyse_run.py finds concurrent events.
Leq(v, w) == \A q \in Proc : v[q] <= w[q]

=============================================================================
