---------------------------- MODULE SnapshotCut ----------------------------
(***************************************************************************)
(* What a snapshot is worth.  The reports of a snapshot cut every process  *)
(* at the moment it reads the clock it reports.  This module adds to       *)
(* FoodDelivery the history that says on which side of the cut a message   *)
(* was sent and received, without looking at any clock, and states the     *)
(* properties of cuts against that history.  No action reads the history,  *)
(* so it does not change what the system does.                             *)
(***************************************************************************)
EXTENDS FoodDelivery, AnalyseRun

VARIABLES
    late,       \* <<e, s>>: a message on its way was stamped in e, after the sender's cut
    orphans,    \* [s -> messages sent after and received before the cut]
    crossed     \* [s -> messages sent before and received after the cut]

cutVars == <<vars, late, orphans, crossed>>

\* The messages whose receive_event is still to come.
Pending == net \cup {t.msg : t \in {u \in threads : u.pc = "handle"}}

\* The send_event in which a message was stamped, as process and clock.
SendEvent(m) == <<m.from, m.clock>>

\* Those of the messages on their way.  A runner stamps its STATE before it reads
\* the clock it reports, and other threads may run in between.
Stamped ==
    {SendEvent(m) : m \in Pending} \cup
    {<<t.msg.to, t.saved>> : t \in {u \in threads : u.pc = "report" /\ u.msg.to \in Runners}}

Label(m) == <<m.type, m.from, m.id>>

CutInit ==
    /\ Init
    /\ late = {}
    /\ orphans = [s \in Snapshots |-> {}]
    /\ crossed = [s \in Snapshots |-> {}]

CutNext ==
    /\ Next
    /\ late' = (late \cup {es \in (Stamped' \ Stamped) \X Snapshots : HasCut(es[1][1], es[2])})
                  \cap (Stamped' \X Snapshots)
    /\ orphans' = [s \in Snapshots |-> orphans[s] \cup
         {Label(m) : m \in {n \in ReceivedNow : <<SendEvent(n), s>> \in late /\ ~HasCut(n.to, s)}}]
    /\ crossed' = [s \in Snapshots |-> crossed[s] \cup
         {Label(m) : m \in {n \in ReceivedNow : <<SendEvent(n), s>> \notin late /\ HasCut(n.to, s)}}]

CutSpec == CutInit /\ [][CutNext]_cutVars

\* The history does not stand in the way of fairness.
FairCutSpec == CutSpec /\ Fairness

----------------------------------------------------------------------------
(* Properties.                                                             *)

\* The documented test, which infra/analyse_run.py makes of the reports that P0
\* prints, is exact: once the states of all processes are collected, it finds
\* nothing if and only if no message is received before the cut and sent after.
CriterionExact ==
    \A s \in Snapshots :
        triggered[s] = 1 /\ AllCollected(state_store[s])
            => (VerifyConsistency(Recorded(s)) = {} <=> orphans[s] = {})

\* P0 reports an inconsistency only of a cut that has an orphan message, also
\* when the menu checks a cut of which it has not collected everything.
NoFalseAlarm ==
    \A s \in Snapshots :
        triggered[s] = 1 /\ (\E v \in verdict[s] : v.says = "inconsistent") => orphans[s] # {}

\* The markers of a snapshot lie before its cut: the sender's report counts
\* the sending of the marker, for which the comments in handle_marker argue,
\* and the receiver's report counts its receipt.
MarkersInsideCut ==
    \A s \in Snapshots : triggered[s] = 1 =>
        /\ \A m \in Pending : m.type = "MARKER" /\ m.id = s => <<SendEvent(m), s>> \notin late
        /\ \A p \in Proc : <<"MARKER", p, s>> \notin orphans[s] \cup crossed[s]

----------------------------------------------------------------------------
(* What the documentation claims and the code does not keep.               *)

\* No order and no delivery is an orphan of a cut that P0 has collected and
\* prints as causally consistent.
VerdictSound ==
    \A s \in Snapshots :
        triggered[s] = 1 /\ [by |-> "collected", says |-> "consistent"] \in verdict[s]
            => \A l \in orphans[s] : l[1] \notin {"ORDER", "DELIVERY"}

\* A delivery that crosses the cut on its way to P0 is part of the channel
\* state that P0 records.
ChannelStateComplete ==
    \A s \in Snapshots : \A f \in Runners, o \in Orders :
        triggered[s] = 1 /\ <<"DELIVERY", f, o>> \in crossed[s]
            => \E m \in channel_states[P0][s] : m.from = f /\ m.id = o

=============================================================================
