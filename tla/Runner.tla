------------------------------- MODULE Runner -------------------------------
(***************************************************************************)
(* A delivery runner (src/src/p3.py, p4.py) as far as the other processes  *)
(* can see it: its clock, its messages and the snapshots it has recorded.  *)
(* Its order status is the subject of module FleetRunner.                  *)
(***************************************************************************)
EXTENDS SystemState

(* handle_delivery_handoff and process_delivery                            *)

\* Mutant: the message type is not looked at.
ReceiveAnything(m) ==
    /\ m.to \in Runners
    /\ Receive(m, "pickup")
    /\ UNCHANGED <<lost, recorderVars, recorded_snapshots, coordinatorVars>>

ReceiveHandoff(m) ==
    /\ m.to \in Runners /\ m.type = "DELIVERY"
    /\ Receive(m, "pickup")
    /\ UNCHANGED <<lost, recorderVars, recorded_snapshots, coordinatorVars>>

DeliveryEvent(t, pc, next) ==
    /\ t.pc = pc
    /\ LocalEvent(t.msg.to)
    /\ Goto(t, next)
    /\ UNCHANGED <<net, lost, recorderVars, recorded_snapshots, coordinatorVars>>

PickedUp(t) == DeliveryEvent(t, "pickup", "transit")

InTransit(t) == DeliveryEvent(t, "transit", "deliver")

Delivered(t) == DeliveryEvent(t, "deliver", "handover")

SendDelivery(t) ==
    /\ t.pc = "handover" /\ t.msg.to \in Runners
    /\ LocalEvent(t.msg.to)
    /\ net' = net \cup {Msg("DELIVERY", t.msg.to, P0, clock'[t.msg.to], t.msg.id, ZeroClock)}
    /\ Finish(t)
    /\ UNCHANGED <<lost, recorderVars, recorded_snapshots, coordinatorVars>>

----------------------------------------------------------------------------
(* handle_marker                                                           *)

ReceiveRunnerMarker(m) ==
    /\ m.to \in Runners /\ m.type = "MARKER"
    /\ Receive(m, "check")
    /\ UNCHANGED <<lost, recorderVars, recorded_snapshots, coordinatorVars>>

\* The first marker: its thread records the snapshot and runs send_event, whose
\* clock it keeps for the message.
StampState(t) ==
    /\ t.msg.id \notin recorded_snapshots[t.msg.to]
    /\ recorded_snapshots' = [recorded_snapshots EXCEPT ![t.msg.to] = @ \cup {t.msg.id}]
    /\ LocalEvent(t.msg.to)
    /\ Keep(t, "report", clock'[t.msg.to])

DuplicateMarker(t) ==
    /\ t.msg.id \in recorded_snapshots[t.msg.to]
    /\ Finish(t)
    /\ UNCHANGED <<clock, recorded_snapshots>>

\* The section under snap_lock and what follows it.  They are one step because
\* a thread that comes between can only find the snapshot recorded and return.
CheckMarker(t) ==
    /\ t.pc = "check"
    /\ StampState(t) \/ DuplicateMarker(t)
    /\ UNCHANGED <<net, lost, recorderVars, coordinatorVars>>

\* The clock that is reported is read only now.
ReportState(t) ==
    /\ t.pc = "report" /\ t.msg.to \in Runners
    /\ net' = net \cup {Msg("STATE", t.msg.to, P0, t.saved, t.msg.id, clock[t.msg.to])}
    /\ Finish(t)
    /\ UNCHANGED <<clock, lost, recorderVars, recorded_snapshots, coordinatorVars>>

=============================================================================
