---------------------------- MODULE FleetRunner ----------------------------
(***************************************************************************)
(* The order status of one delivery runner (src/src/p3.py, p4.py) and what *)
(* its snapshots say of it.  order_status and current_order_label are one  *)
(* pair of variables for all orders: every order that is handed over has a *)
(* thread that writes them under state_lock, and every marker a thread     *)
(* that reads them, once under state_lock for the recorded state and once  *)
(* more without it for the summary line of the STATE message.              *)
(*                                                                         *)
(* A step is one section under a lock or one clock operation.  Of the      *)
(* vector clock only the own component matters here, and of the events it  *)
(* counts only the stages of the orders: a clock is represented by how     *)
(* many stages of each order it counts.  The receive and send events, that *)
(* change no such number, belong to the step that follows them.            *)
(***************************************************************************)
EXTENDS Integers

CONSTANTS
    Orders,         \* the orders the restaurant hands over
    Snapshots,      \* snapshot identifiers
    Markers,        \* the MARKER messages that arrive, maybe two for a snapshot
    SnapshotOf,     \* the snapshot of each marker
    None            \* current_order_label before the first order

ASSUME FleetAssumption ==
    /\ None \notin Orders
    /\ SnapshotOf \in [Markers -> Snapshots]

Stages == <<"PICKED_UP", "IN_TRANSIT", "DELIVERED">>

Statuses == {"WAITING_FOR_ORDER", "RECEIVED_FROM_RESTAURANT"}
                \cup {Stages[i] : i \in 1..3}

VARIABLES
    clock,                  \* how many stages of each order the clock counts
    order_status,
    current_order_label,
    delivery,               \* where the threads of each order are
    recorded_snapshots,
    marker,                 \* where the thread of each marker is, and its locals
    reports,                \* the STATE messages sent to P0
    overlapped              \* history: an order came while another was under way

deliveryVars == <<clock, order_status, current_order_label, delivery, overlapped>>
markerVars == <<recorded_snapshots, marker, reports>>
vars == <<deliveryVars, markerVars>>

Clock == [Orders -> 0..3]

\* An order's thread is about to write stage i, or to count its event.
DeliveryPc == ({"restaurant", "done"} \X {0}) \cup ({"write", "count"} \X (1..3))

Record == [clock : Clock, status : Statuses, order : Orders \cup {None}]

MarkerPc == {"channel", "record", "clock", "status", "send", "done"}

\* What a clock, the status and the label are at the start.
InitialRecord ==
    [clock |-> [o \in Orders |-> 0], status |-> "WAITING_FOR_ORDER", order |-> None]

Init ==
    /\ clock = InitialRecord.clock
    /\ order_status = InitialRecord.status
    /\ current_order_label = InitialRecord.order
    /\ delivery = [o \in Orders |-> <<"restaurant", 0>>]
    /\ recorded_snapshots = {}
    /\ marker = [k \in Markers |->
                    [pc |-> "channel", state |-> InitialRecord, summary |-> InitialRecord]]
    /\ reports = {}
    /\ overlapped = FALSE

----------------------------------------------------------------------------
(* handle_delivery_handoff and process_delivery                            *)

\* An order is under way from its first status until it is marked delivered.
UnderWay(o) == delivery[o] \notin {<<"restaurant", 0>>, <<"count", 3>>, <<"done", 0>>}

\* Mutant: a new order does not reset the status.
AcceptLabelOnly(o) ==
    /\ delivery[o] = <<"restaurant", 0>>
    /\ current_order_label' = o
    /\ delivery' = [delivery EXCEPT ![o] = <<"write", 1>>]
    /\ overlapped' = (overlapped \/ \E p \in Orders : UnderWay(p))
    /\ UNCHANGED <<clock, order_status, markerVars>>

AcceptHandoff(o) ==
    /\ delivery[o] = <<"restaurant", 0>>
    /\ order_status' = "RECEIVED_FROM_RESTAURANT"
    /\ current_order_label' = o
    /\ delivery' = [delivery EXCEPT ![o] = <<"write", 1>>]
    /\ overlapped' = (overlapped \/ \E p \in Orders : UnderWay(p))
    /\ UNCHANGED <<clock, markerVars>>

\* Mutant: an order that is not the current one is not marked delivered.
SetStageOfCurrent(o, i) ==
    /\ delivery[o] = <<"write", i>>
    /\ order_status' = IF i = 3 /\ current_order_label # o THEN order_status ELSE Stages[i]
    /\ delivery' = [delivery EXCEPT ![o] = <<"count", i>>]
    /\ UNCHANGED <<clock, current_order_label, overlapped, markerVars>>

SetStage(o, i) ==
    /\ delivery[o] = <<"write", i>>
    /\ order_status' = Stages[i]
    /\ delivery' = [delivery EXCEPT ![o] = <<"count", i>>]
    /\ UNCHANGED <<clock, current_order_label, overlapped, markerVars>>

\* Mutant: nothing stops the stages.
CountStageUnbounded(o, i) ==
    /\ delivery[o] = <<"count", i>>
    /\ clock' = [clock EXCEPT ![o] = @ + 1]
    /\ delivery' = [delivery EXCEPT ![o] = <<"write", i + 1>>]
    /\ UNCHANGED <<order_status, current_order_label, overlapped, markerVars>>

\* After the last stage the thread tells P0, and ends.
CountStage(o, i) ==
    /\ delivery[o] = <<"count", i>>
    /\ clock' = [clock EXCEPT ![o] = @ + 1]
    /\ delivery' = [delivery EXCEPT ![o] = IF i = 3 THEN <<"done", 0>> ELSE <<"write", i + 1>>]
    /\ UNCHANGED <<order_status, current_order_label, overlapped, markerVars>>

----------------------------------------------------------------------------
(* handle_marker                                                           *)

Move(k, pc) == marker' = [marker EXCEPT ![k].pc = pc]

\* Mutant: the snapshot is looked up and never entered.
CheckOnly(k) ==
    /\ marker[k].pc = "channel"
    /\ Move(k, IF SnapshotOf[k] \in recorded_snapshots THEN "done" ELSE "record")
    /\ UNCHANGED <<recorded_snapshots, reports, deliveryVars>>

\* The section under snap_lock.
CheckRecorded(k) ==
    /\ marker[k].pc = "channel"
    /\ recorded_snapshots' = recorded_snapshots \cup {SnapshotOf[k]}
    /\ Move(k, IF SnapshotOf[k] \in recorded_snapshots THEN "done" ELSE "record")
    /\ UNCHANGED <<reports, deliveryVars>>

\* The section under state_lock, which reads the clock as well.
RecordState(k) ==
    /\ marker[k].pc = "record"
    /\ marker' = [marker EXCEPT ![k].pc = "clock",
                    ![k].state = [clock |-> clock, status |-> order_status,
                                  order |-> current_order_label]]
    /\ UNCHANGED <<recorded_snapshots, reports, deliveryVars>>

\* The summary is read piece by piece and without state_lock.
ReadClock(k) ==
    /\ marker[k].pc = "clock"
    /\ marker' = [marker EXCEPT ![k].pc = "status", ![k].summary.clock = clock]
    /\ UNCHANGED <<recorded_snapshots, reports, deliveryVars>>

\* Mutant: the status of the recorded state is used again.
ReuseStatus(k) ==
    /\ marker[k].pc = "status"
    /\ marker' = [marker EXCEPT ![k].pc = "send", ![k].summary.status = marker[k].state.status]
    /\ UNCHANGED <<recorded_snapshots, reports, deliveryVars>>

ReadStatus(k) ==
    /\ marker[k].pc = "status"
    /\ marker' = [marker EXCEPT ![k].pc = "send", ![k].summary.status = order_status]
    /\ UNCHANGED <<recorded_snapshots, reports, deliveryVars>>

\* The label is read last, just before the STATE is sent.
SendState(k) ==
    /\ marker[k].pc = "send"
    /\ reports' = reports \cup
         {[marker |-> k, state |-> marker[k].state,
           summary |-> [marker[k].summary EXCEPT !.order = current_order_label]]}
    /\ Move(k, "done")
    /\ UNCHANGED <<recorded_snapshots, deliveryVars>>

----------------------------------------------------------------------------

DeliveryStep ==
    \E o \in Orders : \/ AcceptHandoff(o)
                      \/ \E i \in 1..3 : SetStage(o, i) \/ CountStage(o, i)

MarkerStep ==
    \E k \in Markers :
        \/ CheckRecorded(k) \/ RecordState(k)
        \/ ReadClock(k) \/ ReadStatus(k) \/ SendState(k)

Next == DeliveryStep \/ MarkerStep

Spec == Init /\ [][Next]_vars

----------------------------------------------------------------------------
(* Properties.                                                             *)

\* Every variable has its type.
TypeOK ==
    /\ clock \in Clock
    /\ order_status \in Statuses
    /\ current_order_label \in Orders \cup {None}
    /\ delivery \in [Orders -> DeliveryPc]
    /\ recorded_snapshots \subseteq Snapshots
    /\ marker \in [Markers -> [pc : MarkerPc, state : Record, summary : Record]]
    /\ reports \subseteq [marker : Markers, state : Record, summary : Record]
    /\ overlapped \in BOOLEAN

\* How many stages of its order the clock of a record counts, and how many its
\* status tells of.
Counted(rec) == IF rec.order = None THEN 0 ELSE rec.clock[rec.order]

Told(rec) == IF \E i \in 1..3 : rec.status = Stages[i]
             THEN CHOOSE i \in 1..3 : rec.status = Stages[i] ELSE 0

\* The state recorded under state_lock fits the clock recorded with it: its
\* status is that of the order it names, exactly as far as the clock counts or
\* one stage ahead, because the status is written before its event.  This needs
\* the orders to come one after the other.
RecordExact ==
    ~overlapped => \A k \in Markers :
        marker[k].pc \in {"clock", "status", "send"} =>
            Told(marker[k].state) - Counted(marker[k].state) \in {0, 1}

\* The summary that is read without the lock may be ahead of its clock, by any
\* number of stages and even with the status of the order before, but it never
\* lacks a stage that its clock counts.
SummaryNotBehind ==
    ~overlapped => \A rep \in reports : Counted(rep.summary) <= Told(rep.summary)

\* However the threads of several orders overwrite each other's status, it says
\* DELIVERED when all of them have finished.
QuiescentDelivered ==
    /\ \A o \in Orders : delivery[o] \in {<<"restaurant", 0>>, <<"done", 0>>}
    /\ \E o \in Orders : delivery[o] = <<"done", 0>>
    => order_status = "DELIVERED"

\* A runner reports a snapshot once, though its markers are handled side by side.
OneReport ==
    \A a, b \in reports : SnapshotOf[a.marker] = SnapshotOf[b.marker] => a = b

=============================================================================
