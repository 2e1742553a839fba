------------------------------- MODULE RunLog -------------------------------
(***************************************************************************)
(* What infra/analyse_run.py makes of the logs of a run.  This module adds *)
(* to FoodDelivery the lines that the programs print of their events and,  *)
(* as history, which events really precede which.  Every operation of a    *)
(* vector clock prints its event under the clock's lock; what the programs *)
(* print besides of the same event repeats the clock that the operation    *)
(* returned, except that handle_order of a restaurant reads the clock      *)
(* again.  The lines of kind snapshot, which are no events of a clock, are *)
(* left out.                                                               *)
(***************************************************************************)
EXTENDS FoodDelivery, AnalyseRun

VARIABLES
    log,        \* the events that the lines printed so far tell of
    receipts,   \* the orders of which handle_order has printed the receipt
    past        \* history: [event executed -> the events that precede it]

logVars == <<vars, log, receipts, past>>

\* The event that the clock counted last at process p, as process and number.
LastEvent(p, c) == <<p, c[p][p]>>

\* The event in which a message was stamped, and one that a line tells of.
SendOf(m) == <<m.from, m.clock[m.from]>>

EventOf(line) == <<line.proc, line.clock[line.proc]>>

Preceding(e) == IF e \in DOMAIN past THEN {e} \cup past[e] ELSE {}

\* A runner stamps its STATE one step before the message is on its way.
StampedNow ==
    SentNow # {} \/ \E t \in threads' \ threads : t.msg.to \in Runners /\ t.pc = "report"

KindNow == IF ReceivedNow # {} THEN "receive" ELSE IF StampedNow THEN "send" ELSE "internal"

LogInit ==
    /\ Init
    /\ log = {}
    /\ receipts = {}
    /\ past = <<>>

\* A step of the programs, with the line of the clock operation in it.
LogStep ==
    /\ Next
    /\ \A t \in threads \ threads' : t.pc = "confirm" => t.msg \in receipts
    /\ LET active == {p \in Proc : clock'[p] # clock[p]}
       IN  /\ log' = log \cup {[proc |-> p, kind |-> KindNow, clock |-> clock'[p]] : p \in active}
           /\ past' = [e \in DOMAIN past \cup {LastEvent(p, clock') : p \in active} |->
                IF e \in DOMAIN past THEN past[e]
                ELSE Preceding(LastEvent(e[1], clock))
                        \cup UNION {Preceding(SendOf(m)) : m \in ReceivedNow}]
    /\ UNCHANGED receipts

\* handle_order prints RECEIVE ORDER with the clock it reads now.
PrintReceipt ==
    /\ \E t \in {u \in threads : u.pc = "confirm" /\ u.msg \notin receipts} :
          /\ receipts' = receipts \cup {t.msg}
          /\ log' = log \cup {[proc |-> t.msg.to, kind |-> "receive", clock |-> clock[t.msg.to]]}
    /\ UNCHANGED <<vars, past>>

LogNext == LogStep \/ PrintReceipt

LogSpec == LogInit /\ [][LogNext]_logVars

----------------------------------------------------------------------------
(* Properties of the logs that are read when the run is over: log and past *)
(* only grow, so they hold of every part of a run as well.                 *)

Over == net = {} /\ threads = {} /\ main = Menu

\* In the timeline no effect stands before its cause, for any run of the
\* programs and whatever order their logs are read in.
TimelineCausal ==
    Over => \A a, b \in {[id |-> EventOf(line), key |-> SortKey(line)] : line \in log} :
            a.id \in past[b.id] => KeyLess(a.key, b.key)

\* The concurrent pairs that the report counts are those of which neither
\* event precedes the other, none missing and none too many, although a line
\* may carry the clock of a later event than the one it tells of.
ConcurrentExact ==
    Over => FindConcurrent(log) =
        {ab \in log \X log :
            /\ ab[1].proc # ab[2].proc
            /\ EventOf(ab[1]) \notin past[EventOf(ab[2])]
            /\ EventOf(ab[2]) \notin past[EventOf(ab[1])]}

=============================================================================
