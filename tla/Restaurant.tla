----------------------------- MODULE Restaurant -----------------------------
(***************************************************************************)
(* A restaurant (src/src/p1.py, p2.py) and its ChandyLamportSnapshot       *)
(* object (src/src/snapshot.py).  The object's lock is held from the       *)
(* moment a thread marks a snapshot completed until the send of its STATE  *)
(* returns.                                                                *)
(***************************************************************************)
EXTENDS SystemState

LockFree(r) == \A u \in threads : u.msg.to = r => u.pc \notin {"report", "release"}

----------------------------------------------------------------------------
(* An order: dispatch records it on every open channel and starts the      *)
(* thread of handle_order, which cooks it and hands it to the runner.      *)

\* record_channel_message, for the snapshots that still record the sender
RecordOnChannel(r, m) ==
    channel_states' = [channel_states EXCEPT ![r] =
        [s \in Snapshots |->
            IF /\ s \in local_states[r]
               /\ s \notin completed[r]
               /\ m.from \in recording_channels[r][s]
            THEN @[s] \cup {m} ELSE @[s]]]

AcceptOrder(m) ==
    /\ m.to \in Restaurants /\ m.type = "ORDER"
    /\ LockFree(m.to)
    /\ RecordOnChannel(m.to, m)
    /\ net' = net \ {m}
    /\ threads' = threads \cup {NewThread(m, "handle")}
    /\ UNCHANGED <<clock, lost, local_states, recording_channels, completed,
                   recorded_snapshots, coordinatorVars>>

HandleOrder(t) ==
    /\ t.pc = "handle"
    /\ clock' = [clock EXCEPT ![t.msg.to] = ClockAfterReceive(t.msg)]
    /\ Goto(t, "confirm")
    /\ UNCHANGED <<net, lost, recorderVars, recorded_snapshots, coordinatorVars>>

OrderEvent(t, pc, next) ==
    /\ t.pc = pc
    /\ LocalEvent(t.msg.to)
    /\ Goto(t, next)
    /\ UNCHANGED <<net, lost, recorderVars, recorded_snapshots, coordinatorVars>>

OrderConfirmed(t) == OrderEvent(t, "confirm", "prepare")

PreparingFood(t) == OrderEvent(t, "prepare", "ready")

FoodReady(t) == OrderEvent(t, "ready", "handover")

\* Mutant: the thread does not end and hands the order over again.
HandToRunnerAgain(t) ==
    /\ t.pc = "handover" /\ t.msg.to \in Restaurants
    /\ LocalEvent(t.msg.to)
    /\ net' = net \cup {Msg("DELIVERY", t.msg.to, Partner[t.msg.to],
                            clock'[t.msg.to], t.msg.id, ZeroClock)}
    /\ UNCHANGED <<lost, threads, recorderVars, recorded_snapshots, coordinatorVars>>

\* Mutant: the event is counted, and the order is not sent.
HandToNobody(t) ==
    /\ t.pc = "handover" /\ t.msg.to \in Restaurants
    /\ LocalEvent(t.msg.to)
    /\ Finish(t)
    /\ UNCHANGED <<net, lost, recorderVars, recorded_snapshots, coordinatorVars>>

HandToRunner(t) ==
    /\ t.pc = "handover" /\ t.msg.to \in Restaurants
    /\ LocalEvent(t.msg.to)
    /\ net' = net \cup {Msg("DELIVERY", t.msg.to, Partner[t.msg.to],
                            clock'[t.msg.to], t.msg.id, ZeroClock)}
    /\ Finish(t)
    /\ UNCHANGED <<lost, recorderVars, recorded_snapshots, coordinatorVars>>

----------------------------------------------------------------------------
(* handle_marker                                                           *)

ReceiveMarker(m) ==
    /\ m.to \in Restaurants /\ m.type = "MARKER"
    /\ Receive(m, "record")
    /\ UNCHANGED <<lost, recorderVars, recorded_snapshots, coordinatorVars>>

\* Mutant: the snapshot counts as completed before its marker is forwarded.
FirstMarkerCompletes(t) ==
    LET r == t.msg.to
        s == t.msg.id
    IN  /\ s \notin local_states[r]
        /\ local_states' = [local_states EXCEPT ![r] = @ \cup {s}]
        /\ channel_states' = [channel_states EXCEPT ![r][s] = {}]
        /\ recording_channels' =
             [recording_channels EXCEPT ![r][s] = Incoming(r) \ {t.msg.from}]
        /\ completed' = [completed EXCEPT ![r] = @ \cup {s}]
        /\ Goto(t, "forward")

\* Mutant: the channel of the first marker is not closed.
FirstMarkerKeepsChannel(t) ==
    LET r == t.msg.to
        s == t.msg.id
    IN  /\ s \notin local_states[r]
        /\ local_states' = [local_states EXCEPT ![r] = @ \cup {s}]
        /\ channel_states' = [channel_states EXCEPT ![r][s] = {}]
        /\ recording_channels' = [recording_channels EXCEPT ![r][s] = Incoming(r)]
        /\ completed' = [completed EXCEPT ![r] = @ \ {s}]
        /\ Goto(t, "forward")

\* The first section under the lock: the first marker opens the snapshot, and
\* every marker closes the channel it came over.
FirstMarker(t) ==
    LET r == t.msg.to
        s == t.msg.id
    IN  /\ s \notin local_states[r]
        /\ local_states' = [local_states EXCEPT ![r] = @ \cup {s}]
        /\ channel_states' = [channel_states EXCEPT ![r][s] = {}]
        /\ recording_channels' =
             [recording_channels EXCEPT ![r][s] = Incoming(r) \ {t.msg.from}]
        /\ completed' = [completed EXCEPT ![r] = @ \ {s}]
        /\ Goto(t, "forward")

LaterMarker(t) ==
    LET r == t.msg.to
        s == t.msg.id
    IN  /\ s \in local_states[r]
        /\ recording_channels' = [recording_channels EXCEPT ![r][s] = @ \ {t.msg.from}]
        /\ Goto(t, "close")
        /\ UNCHANGED <<local_states, channel_states, completed>>

RecordMarker(t) ==
    /\ t.pc = "record"
    /\ LockFree(t.msg.to)
    /\ FirstMarker(t) \/ LaterMarker(t)
    /\ UNCHANGED <<clock, net, lost, recorded_snapshots, coordinatorVars>>

\* The clock that is then frozen inside local_states travels in the STATE
\* message beside the reported one, and nothing ever reads it.
ForwardMarker(t) ==
    /\ t.pc = "forward"
    /\ LocalEvent(t.msg.to)
    /\ net' = net \cup {Msg("MARKER", t.msg.to, Partner[t.msg.to],
                            clock'[t.msg.to], t.msg.id, ZeroClock)}
    /\ Goto(t, "close")
    /\ UNCHANGED <<lost, recorderVars, recorded_snapshots, coordinatorVars>>

----------------------------------------------------------------------------
(* Completion.  recording_channels is read before the lock is taken; the   *)
(* set only shrinks, so an empty one is still empty under the lock.        *)

\* A channel is still open, or another marker's thread was the first.
NothingToComplete(t) ==
    /\ t.pc = "close"
    /\ recording_channels[t.msg.to][t.msg.id] = {}
          => LockFree(t.msg.to) /\ t.msg.id \in completed[t.msg.to]
    /\ Finish(t)
    /\ UNCHANGED <<clock, net, lost, recorderVars, recorded_snapshots, coordinatorVars>>

\* Mutant: completion is not marked.
CompleteUnmarked(t) ==
    /\ t.pc = "close"
    /\ recording_channels[t.msg.to][t.msg.id] = {}
    /\ LockFree(t.msg.to)
    /\ t.msg.id \notin completed[t.msg.to]
    /\ Keep(t, "report", clock[t.msg.to])
    /\ UNCHANGED <<clock, net, lost, recorderVars, recorded_snapshots, coordinatorVars>>

\* The thread keeps the lock, and the clock it reads here is what it reports.
CompleteSnapshot(t) ==
    /\ t.pc = "close"
    /\ recording_channels[t.msg.to][t.msg.id] = {}
    /\ LockFree(t.msg.to)
    /\ t.msg.id \notin completed[t.msg.to]
    /\ completed' = [completed EXCEPT ![t.msg.to] = @ \cup {t.msg.id}]
    /\ Keep(t, "report", clock[t.msg.to])
    /\ UNCHANGED <<clock, net, lost, local_states, recording_channels,
                   channel_states, recorded_snapshots, coordinatorVars>>

\* Mutant: the lock is taken once more, and it is not reentrant.
SendStateRelocks(t) ==
    /\ t.pc = "report" /\ t.msg.to \in Restaurants
    /\ LockFree(t.msg.to)
    /\ LocalEvent(t.msg.to)
    /\ net' = net \cup {Msg("STATE", t.msg.to, P0, clock'[t.msg.to], t.msg.id, t.saved)}
    /\ Finish(t)
    /\ UNCHANGED <<lost, recorderVars, recorded_snapshots, coordinatorVars>>

\* The rest of send_state_to_coordinator, up to the send.
SendState(t) ==
    /\ t.pc = "report" /\ t.msg.to \in Restaurants
    /\ LocalEvent(t.msg.to)
    /\ net' = net \cup {Msg("STATE", t.msg.to, P0, clock'[t.msg.to], t.msg.id, t.saved)}
    /\ Goto(t, "release")
    /\ UNCHANGED <<lost, recorderVars, recorded_snapshots, coordinatorVars>>

\* The send returns, before or after its message is received and at the latest
\* when its timeout is over, and the lock is released.
ReleaseLock(t) ==
    /\ t.pc = "release"
    /\ Finish(t)
    /\ UNCHANGED <<clock, net, lost, recorderVars, recorded_snapshots, coordinatorVars>>

=============================================================================
