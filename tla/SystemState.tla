---------------------------- MODULE SystemState ----------------------------
(***************************************************************************)
(* The state of the running system of five programs (src/src/p0.py to      *)
(* p4.py and snapshot.py) and the steps they have in common.               *)
(*                                                                         *)
(* P0 is the order processor and coordinator; a restaurant (p1.py, p2.py)  *)
(* cooks an order and hands it to its partner runner (p3.py, p4.py), which *)
(* delivers it and tells P0.  A snapshot travels the same way as MARKER    *)
(* messages, and every process reports to P0 with a STATE message.         *)
(*                                                                         *)
(* Every message has a TCP connection of its own and every connection a    *)
(* thread of its own at the receiver, so the network is a set of messages  *)
(* and a process is a set of threads.  A thread's step is one section      *)
(* under the clock's lock or a snapshot lock, together with the effects no *)
(* other thread can see before the next such section.  In particular a     *)
(* message enters the network in the step whose send_event stamps it: the  *)
(* wait before sendall is a longer stay in the network.                    *)
(***************************************************************************)
EXTENDS VectorClock, FiniteSets, Sequences

CONSTANTS
    P0,             \* the coordinator
    Restaurants,    \* P1 and P2
    Runners,        \* P3 and P4
    Partner,        \* DELIVERY_PARTNER of each restaurant
    Orders,         \* order identifiers
    Snapshots,      \* snapshot identifiers
    MaxTriggers,    \* bound: how often one snapshot identifier is triggered
    MaxLoss         \* bound: how many sends fail

ASSUME TopologyAssumption ==
    /\ Proc = {P0} \cup Restaurants \cup Runners
    /\ P0 \notin Restaurants \cup Runners
    /\ Restaurants \cap Runners = {}
    /\ Restaurants # {} /\ Runners # {}
    /\ Partner \in [Restaurants -> Runners]
    /\ IsFiniteSet(Proc)

ASSUME IdentifierAssumption ==
    /\ Orders \cap Snapshots = {}
    /\ MaxTriggers \in Nat
    /\ MaxLoss \in Nat

\* The processes that own a ChandyLamportSnapshot object.
Recorders == {P0} \cup Restaurants

\* ChandyLamportSnapshot.incoming_channels
Incoming(p) == IF p = P0 THEN Runners ELSE {P0}

VARIABLES
    clock,                 \* vc.clock of each process
    net,                   \* messages in their one-shot connections
    lost,                  \* how many sends failed so far
    threads,               \* handler threads that have not finished
    main,                  \* what P0's main thread is in the middle of
    orders_store,          \* p0.py: the orders created so far
    triggered,             \* how often each snapshot was triggered
    local_states,          \* snapshot.py: the snapshots in local_states
    recording_channels,    \* snapshot.py: recording_channels
    channel_states,        \* snapshot.py: channel_states
    completed,             \* snapshot.py: the snapshots marked completed
    recorded_snapshots,    \* p3.py, p4.py: recorded_snapshots
    state_store,           \* p0.py: state_store
    verdict                \* p0.py: the verdicts printed on each snapshot

recorderVars == <<local_states, recording_channels, channel_states, completed>>
coordinatorVars == <<main, orders_store, triggered, state_store, verdict>>
vars == <<clock, net, lost, threads, recorderVars, recorded_snapshots, coordinatorVars>>

----------------------------------------------------------------------------
(* Messages and threads.                                                   *)

\* The identifier is that of the order or of the snapshot; the vector clock
\* that a STATE reports is in vc, which is the zero clock in other messages.
Message ==
    [type : {"ORDER", "DELIVERY"}, from : Proc, to : Proc, clock : Clock,
     id : Orders, vc : Clock]
    \cup
    [type : {"MARKER", "STATE"}, from : Proc, to : Proc, clock : Clock,
     id : Snapshots, vc : Clock]

Msg(type, from, to, c, id, v) ==
    [type |-> type, from |-> from, to |-> to, clock |-> c, id |-> id, vc |-> v]

\* The handlers by the names of their steps: handle_order at a restaurant,
\* process_delivery at a runner, handle_marker at either, and dispatch at P0.
CookingPc == {"handle", "confirm", "prepare", "ready", "handover"}
DeliveringPc == {"pickup", "transit", "deliver", "handover"}
MarkerPc == {"record", "forward", "close", "report", "release"}
RunnerMarkerPc == {"check", "report"}
StatePc == {"store", "count", "verify"}

ThreadPc == CookingPc \cup DeliveringPc \cup MarkerPc \cup RunnerMarkerPc
                \cup StatePc \cup {"acknowledge"}

\* A handler handles the messages it is meant for, at the process it runs on.
InPlace(type, p, pc) ==
    \/ type = "ORDER" /\ p \in Restaurants /\ pc \in CookingPc
    \/ type = "MARKER" /\ p \in Restaurants /\ pc \in MarkerPc
    \/ type = "DELIVERY" /\ p \in Runners /\ pc \in DeliveringPc
    \/ type = "MARKER" /\ p \in Runners /\ pc \in RunnerMarkerPc
    \/ type = "DELIVERY" /\ p = P0 /\ pc = "acknowledge"
    \/ type = "STATE" /\ p = P0 /\ pc \in StatePc

\* pc is the step a thread takes next, and saved the one clock a handler keeps
\* in a local variable between two steps.  Messages differ (their clocks do),
\* so threads do.
Thread == {t \in [msg : Message, pc : ThreadPc, saved : Clock] :
              InPlace(t.msg.type, t.msg.to, t.pc)}

NewThread(m, pc) == [msg |-> m, pc |-> pc, saved |-> ZeroClock]

Goto(t, pc) == threads' = (threads \ {t}) \cup {[t EXCEPT !.pc = pc]}

Finish(t) == threads' = threads \ {t}

Keep(t, pc, c) ==
    threads' = (threads \ {t}) \cup {[t EXCEPT !.pc = pc, !.saved = c]}

----------------------------------------------------------------------------
(* Steps in common.                                                        *)

\* send_event or internal_event of process p
LocalEvent(p) == clock' = [clock EXCEPT ![p] = Tick(@, p)]

\* Mutant: the receiver adopts the sender's clock.
ClockAdopted(m) == Tick(m.clock, m.to)

ClockAfterReceive(m) == ReceiveEvent(clock[m.to], m.to, m.clock)

\* A handler begins with receive_event of the message's clock and goes on at pc.
Receive(m, pc) ==
    /\ clock' = [clock EXCEPT ![m.to] = ClockAfterReceive(m)]
    /\ net' = net \ {m}
    /\ threads' = threads \cup {NewThread(m, pc)}

\* A send that fails prints the error and is not repeated.
Lose(m) ==
    /\ lost < MaxLoss
    /\ lost' = lost + 1
    /\ net' = net \ {m}
    /\ UNCHANGED <<clock, threads, recorderVars, recorded_snapshots, coordinatorVars>>

=============================================================================
