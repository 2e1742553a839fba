------------------------- MODULE FoodDeliveryProofs -------------------------
(***************************************************************************)
(* Theorems about FoodDelivery, for every topology that satisfies the      *)
(* assumptions of SystemState and any number of orders, snapshots,         *)
(* triggers and lost messages.                                             *)
(***************************************************************************)
EXTENDS FoodDelivery, SequenceTheorems, FiniteSetTheorems, TLAPS

----------------------------------------------------------------------------
(* The operators on clocks and messages keep their types.                  *)

\* Ticking a clock, as every clock operation does, yields a clock.
LEMMA TickType ==
    ASSUME NEW v \in Clock, NEW p \in Proc
    PROVE  Tick(v, p) \in Clock
BY DEF Tick, Clock

\* receive_event yields a clock.
LEMMA ReceiveEventType ==
    ASSUME NEW v \in Clock, NEW w \in Clock, NEW p \in Proc
    PROVE  ReceiveEvent(v, p, w) \in Clock
<1>1. Merge(v, w) \in Clock
  BY DEF Merge, Clock
<1>2. QED
  BY <1>1, TickType DEF ReceiveEvent

\* The initial clock of every program is a clock.
LEMMA ZeroClockType == ZeroClock \in Clock
BY DEF ZeroClock, Clock

\* The programs build messages of the wire format.
LEMMA MsgType ==
    ASSUME NEW from \in Proc, NEW to \in Proc, NEW c \in Clock, NEW v \in Clock
    PROVE  /\ \A type \in {"ORDER", "DELIVERY"}, o \in Orders :
                  Msg(type, from, to, c, o, v) \in Message
           /\ \A type \in {"MARKER", "STATE"}, s \in Snapshots :
                  Msg(type, from, to, c, s, v) \in Message
BY DEF Msg, Message

\* A dictionary of reports stays one when an entry is assigned.
LEMMA PutType ==
    ASSUME NEW entries \in Seq([proc : Proc, vc : Clock]),
           NEW p \in Proc, NEW v \in Clock
    PROVE  Put(entries, p, v) \in Seq([proc : Proc, vc : Clock])
<1> DEFINE E == [proc : Proc, vc : Clock]
           e == [proc |-> p, vc |-> v]
           updated == [i \in DOMAIN entries |->
                         IF entries[i].proc = p THEN e ELSE entries[i]]
<1>1. e \in E
  OBVIOUS
<1>2. Append(entries, e) \in Seq(E)
  BY <1>1
<1>3. updated \in Seq(E)
  <2>1. Len(entries) \in Nat /\ DOMAIN entries = 1 .. Len(entries)
    BY LenProperties
  <2>2. \A i \in 1 .. Len(entries) : entries[i] \in E
    BY ElementOfSeq
  <2>3. \A i \in 1 .. Len(entries) :
           (IF entries[i].proc = p THEN e ELSE entries[i]) \in E
    BY <1>1, <2>2
  <2>4. updated \in [1 .. Len(entries) -> E]
    BY <2>1, <2>3
  <2>5. QED
    BY <2>1, <2>4
<1>4. QED
  BY <1>2, <1>3 DEF Put

\* The roles are disjoint sets of processes.
LEMMA Roles ==
    /\ P0 \in Proc /\ Restaurants \subseteq Proc /\ Runners \subseteq Proc
    /\ Recorders \subseteq Proc /\ P0 \in Recorders /\ Restaurants \subseteq Recorders
    /\ \A r \in Restaurants : Partner[r] \in Runners
    /\ \A p \in Recorders : Incoming(p) \subseteq Proc
BY TopologyAssumption DEF Recorders, Incoming

----------------------------------------------------------------------------
(* The steps in common.                                                    *)

\* A local event changes the clocks to clocks.
LEMMA LocalEventType ==
    ASSUME TypeOK, NEW p \in Proc, LocalEvent(p)
    PROVE  clock' \in [Proc -> Clock] /\ clock'[p] \in Clock
BY TickType DEF TypeOK, LocalEvent

\* The parts of a message and of a thread, and the handler a thread runs.
LEMMA MessageParts ==
    ASSUME NEW m \in Message
    PROVE  /\ m.to \in Proc /\ m.from \in Proc /\ m.clock \in Clock /\ m.vc \in Clock
           /\ m.type \in {"ORDER", "DELIVERY"} => m.id \in Orders
           /\ m.type \in {"MARKER", "STATE"} => m.id \in Snapshots
BY DEF Message

\* The parts of a thread.
LEMMA ThreadParts ==
    ASSUME TypeOK, NEW t \in threads
    PROVE  /\ t.msg \in Message /\ t.saved \in Clock /\ t.pc \in ThreadPc
           /\ InPlace(t.msg.type, t.msg.to, t.pc)
           /\ t = [msg |-> t.msg, pc |-> t.pc, saved |-> t.saved]
BY DEF TypeOK, Thread

\* The step a thread takes next tells its handler, and with it the kind of
\* message it handles and where.
LEMMA HandlerOf ==
    ASSUME TypeOK, NEW t \in threads
    PROVE  /\ t.pc \in {"handle", "confirm", "prepare", "ready"} =>
                  t.msg.to \in Restaurants /\ t.msg.type = "ORDER" /\ t.msg.id \in Orders
           /\ t.pc = "handover" =>
                  /\ t.msg.id \in Orders
                  /\ \/ t.msg.to \in Restaurants /\ t.msg.type = "ORDER"
                     \/ t.msg.to \in Runners /\ t.msg.type = "DELIVERY"
           /\ t.pc \in {"pickup", "transit", "deliver"} =>
                  t.msg.to \in Runners /\ t.msg.type = "DELIVERY" /\ t.msg.id \in Orders
           /\ t.pc \in {"record", "forward", "close", "release"} =>
                  t.msg.to \in Restaurants /\ t.msg.type = "MARKER" /\ t.msg.id \in Snapshots
           /\ t.pc = "check" =>
                  t.msg.to \in Runners /\ t.msg.type = "MARKER" /\ t.msg.id \in Snapshots
           /\ t.pc = "report" => t.msg.type = "MARKER" /\ t.msg.id \in Snapshots
           /\ t.pc \in StatePc =>
                  t.msg.to = P0 /\ t.msg.type = "STATE" /\ t.msg.id \in Snapshots
<1>1. InPlace(t.msg.type, t.msg.to, t.pc) /\ t.msg \in Message
  BY ThreadParts
<1>2. /\ t.msg.type \in {"ORDER", "DELIVERY"} => t.msg.id \in Orders
      /\ t.msg.type \in {"MARKER", "STATE"} => t.msg.id \in Snapshots
  BY <1>1, MessageParts
<1> USE DEF CookingPc, DeliveringPc, MarkerPc, RunnerMarkerPc, StatePc
<1>3. CASE t.msg.type = "ORDER" /\ t.msg.to \in Restaurants /\ t.pc \in CookingPc
  BY <1>2, <1>3
<1>4. CASE t.msg.type = "MARKER" /\ t.msg.to \in Restaurants /\ t.pc \in MarkerPc
  BY <1>2, <1>4
<1>5. CASE t.msg.type = "DELIVERY" /\ t.msg.to \in Runners /\ t.pc \in DeliveringPc
  BY <1>2, <1>5
<1>6. CASE t.msg.type = "MARKER" /\ t.msg.to \in Runners /\ t.pc \in RunnerMarkerPc
  BY <1>2, <1>6
<1>7. CASE t.msg.type = "DELIVERY" /\ t.msg.to = P0 /\ t.pc = "acknowledge"
  BY <1>7
<1>8. CASE t.msg.type = "STATE" /\ t.msg.to = P0 /\ t.pc \in StatePc
  BY <1>2, <1>8
<1>9. QED
  BY <1>1, <1>3, <1>4, <1>5, <1>6, <1>7, <1>8 DEF InPlace

\* The steps a handler may go on with.
Continues(pc, next) ==
    \/ pc \in {"handle", "confirm", "prepare", "ready"} /\ next \in CookingPc
    \/ pc \in {"pickup", "transit", "deliver"} /\ next \in DeliveringPc
    \/ pc \in {"record", "forward", "close"} /\ next \in MarkerPc
    \/ pc = "report" /\ next = "release"
    \/ pc = "check" /\ next \in RunnerMarkerPc
    \/ pc \in StatePc /\ next \in StatePc

\* A thread that goes on with its handler stays in its place.
LEMMA StaysInPlace ==
    ASSUME TypeOK, NEW t \in threads, NEW pc, Continues(t.pc, pc),
           t.pc = "report" => t.msg.to \in Restaurants
    PROVE  pc \in ThreadPc /\ InPlace(t.msg.type, t.msg.to, pc)
<1>1. CASE t.pc \in {"handle", "confirm", "prepare", "ready"}
  <2>1. pc \in CookingPc
    BY <1>1 DEF Continues, StatePc
  <2>2. QED
    BY <1>1, <2>1, HandlerOf DEF InPlace, ThreadPc
<1>2. CASE t.pc \in {"pickup", "transit", "deliver"}
  <2>1. pc \in DeliveringPc
    BY <1>2 DEF Continues, StatePc
  <2>2. QED
    BY <1>2, <2>1, HandlerOf DEF InPlace, ThreadPc
<1>3. CASE t.pc \in {"record", "forward", "close"}
  <2>1. pc \in MarkerPc
    BY <1>3 DEF Continues, StatePc
  <2>2. QED
    BY <1>3, <2>1, HandlerOf DEF InPlace, ThreadPc
<1>4. CASE t.pc = "check"
  <2>1. pc \in RunnerMarkerPc
    BY <1>4 DEF Continues, StatePc
  <2>2. QED
    BY <1>4, <2>1, HandlerOf DEF InPlace, ThreadPc
<1>5. CASE t.pc \in StatePc
  <2>1. pc \in StatePc
    BY <1>5 DEF Continues, StatePc
  <2>2. QED
    BY <1>5, <2>1, HandlerOf DEF InPlace, ThreadPc
<1>6. CASE t.pc = "report"
  <2>1. pc \in MarkerPc
    BY <1>6 DEF Continues, StatePc, MarkerPc
  <2>2. t.msg.to \in Restaurants /\ t.msg.type = "MARKER"
    BY <1>6, HandlerOf
  <2>3. QED
    BY <2>1, <2>2 DEF InPlace, ThreadPc
<1>7. QED
  BY <1>1, <1>2, <1>3, <1>4, <1>5, <1>6 DEF Continues

\* The first step of each handler.
StartsAt(m, pc) ==
    \/ m.to \in Restaurants /\ m.type = "ORDER" /\ pc = "handle"
    \/ m.to \in Restaurants /\ m.type = "MARKER" /\ pc = "record"
    \/ m.to \in Runners /\ m.type = "DELIVERY" /\ pc = "pickup"
    \/ m.to \in Runners /\ m.type = "MARKER" /\ pc = "check"
    \/ m.to = P0 /\ m.type = "DELIVERY" /\ pc = "acknowledge"
    \/ m.to = P0 /\ m.type = "STATE" /\ pc = "store"

\* A new thread is one of the handler that its message is meant for.
LEMMA NewThreadType ==
    ASSUME NEW m \in Message, NEW pc, StartsAt(m, pc)
    PROVE  NewThread(m, pc) \in Thread
<1>1. pc \in ThreadPc /\ InPlace(m.type, m.to, pc)
  BY DEF StartsAt, InPlace, ThreadPc, CookingPc, DeliveringPc, MarkerPc,
         RunnerMarkerPc, StatePc
<1>2. QED
  BY <1>1, ZeroClockType DEF NewThread, Thread

\* Moving a thread to another step of its handler leaves a set of threads.
LEMMA GotoType ==
    ASSUME TypeOK, NEW t \in threads, NEW pc, Continues(t.pc, pc), Goto(t, pc),
           t.pc = "report" => t.msg.to \in Restaurants
    PROVE  threads' \subseteq Thread
<1>1. pc \in ThreadPc /\ InPlace(t.msg.type, t.msg.to, pc)
  BY StaysInPlace
<1>2. QED
  BY <1>1 DEF TypeOK, Goto, Thread

\* So does moving it with a clock that it keeps for later.
LEMMA KeepType ==
    ASSUME TypeOK, NEW t \in threads, NEW pc, Continues(t.pc, pc),
           NEW c \in Clock, Keep(t, pc, c),
           t.pc = "report" => t.msg.to \in Restaurants
    PROVE  threads' \subseteq Thread
<1>1. pc \in ThreadPc /\ InPlace(t.msg.type, t.msg.to, pc)
  BY StaysInPlace
<1>2. QED
  BY <1>1 DEF TypeOK, Keep, Thread

\* So does its end.
LEMMA FinishType ==
    ASSUME TypeOK, NEW t \in threads, Finish(t)
    PROVE  threads' \subseteq Thread
BY DEF TypeOK, Finish

\* The receipt of a message by a handler that goes on at pc.
LEMMA ReceiveType ==
    ASSUME TypeOK, NEW m \in net, NEW pc, StartsAt(m, pc), Receive(m, pc)
    PROVE  /\ clock' \in [Proc -> Clock] /\ net' \subseteq Message
           /\ threads' \subseteq Thread
<1>1. m \in Message /\ m.to \in Proc /\ m.clock \in Clock
  BY MessageParts DEF TypeOK
<1>2. ClockAfterReceive(m) \in Clock
  BY <1>1, ReceiveEventType DEF TypeOK, ClockAfterReceive
<1>3. NewThread(m, pc) \in Thread
  BY <1>1, NewThreadType
<1>4. QED
  BY <1>1, <1>2, <1>3 DEF TypeOK, Receive

----------------------------------------------------------------------------
(* Type correctness.                                                       *)

\* The programs start in a well-typed state.
LEMMA TypeInit == Init => TypeOK
<1>1. ZeroClock \in Clock
  BY ZeroClockType
<1>2. \A s \in Snapshots : <<>> \in Seq([proc : Proc, vc : Clock])
  OBVIOUS
<1>3. QED
  BY <1>1, <1>2, Roles DEF Init, TypeOK, Menu, MainState

\* A verdict is one.
LEMMA CheckType ==
    ASSUME TypeOK, NEW s \in Snapshots, NEW by \in {"collected", "menu"}, Check(s, by)
    PROVE  verdict' \in [Snapshots -> SUBSET Verdicts]
<1> DEFINE v == [by |-> by, says |-> IF Inconsistencies(state_store[s]) = {}
                                     THEN "consistent" ELSE "inconsistent"]
<1>1. v \in Verdicts
  BY DEF Verdicts
<1>2. verdict' = [verdict EXCEPT ![s] = @ \cup {v}]
  BY DEF Check
<1> HIDE DEF v
<1>3. QED
  BY <1>1, <1>2 DEF TypeOK

\* What the operator and the main thread of P0 do.
LEMMA TypeMain == TypeOK /\ (Command \/ MainStep) => TypeOK'
<1> SUFFICES ASSUME TypeOK, Command \/ MainStep PROVE TypeOK'
  OBVIOUS
<1> USE Roles
<1>1. CASE \E o \in Orders, r \in Restaurants : CreateOrder(o, r)
  <2>1. PICK o \in Orders, r \in Restaurants : CreateOrder(o, r)
    BY <1>1
  <2>2. main' \in MainState
    BY <2>1 DEF CreateOrder, MainState
  <2>3. QED
    BY <2>1, <2>2, LocalEventType DEF CreateOrder, TypeOK, recorderVars
<1>2. CASE \E s \in Snapshots : InitiateSnapshot(s)
  <2>1. PICK s \in Snapshots : InitiateSnapshot(s)
    BY <1>2
  <2>2. clock' \in [Proc -> Clock] /\ clock'[P0] \in Clock
    BY <2>1, LocalEventType DEF InitiateSnapshot
  <2>3. \A r \in Restaurants : Msg("MARKER", P0, r, clock'[P0], s, ZeroClock) \in Message
    BY <2>2, MsgType, ZeroClockType
  <2>4. main' \in MainState
    BY <2>1 DEF InitiateSnapshot, MainState
  <2>5. net' \subseteq Message
    BY <2>1, <2>3 DEF InitiateSnapshot, TypeOK
  <2>6. /\ local_states' \in [Recorders -> SUBSET Snapshots]
        /\ completed' \in [Recorders -> SUBSET Snapshots]
        /\ triggered' \in [Snapshots -> Nat]
    BY <2>1 DEF InitiateSnapshot, TypeOK
  <2>7. /\ recording_channels' \in [Recorders -> [Snapshots -> SUBSET Proc]]
        /\ channel_states' \in [Recorders -> [Snapshots -> SUBSET Message]]
    BY <2>1 DEF InitiateSnapshot, TypeOK
  <2>8. QED
    BY <2>1, <2>2, <2>4, <2>5, <2>6, <2>7 DEF InitiateSnapshot, TypeOK
<1>3. CASE DispatchOrder
  <2>1. main.id \in Orders /\ main.to \in Restaurants
    BY <1>3 DEF DispatchOrder, TypeOK, MainState, Menu
  <2>2. clock' \in [Proc -> Clock] /\ clock'[P0] \in Clock
    BY <1>3, LocalEventType DEF DispatchOrder
  <2>3. Msg("ORDER", P0, main.to, clock'[P0], main.id, ZeroClock) \in Message
    BY <2>1, <2>2, MsgType, ZeroClockType
  <2>4. QED
    BY <1>3, <2>2, <2>3 DEF DispatchOrder, TypeOK, MainState, recorderVars
<1>4. CASE RecordOwnState
  <2>1. main.id \in Snapshots /\ clock[P0] \in Clock
    BY <1>4 DEF RecordOwnState, TypeOK, MainState, Menu
  <2>2. main' \in MainState
    BY <1>4, <2>1 DEF RecordOwnState, MainState
  <2>3. QED
    BY <1>4, <2>2 DEF RecordOwnState, TypeOK, recorderVars
<1>5. CASE StoreOwnState
  <2>1. main.id \in Snapshots /\ main.vc \in Clock
    BY <1>5 DEF StoreOwnState, TypeOK, MainState, Menu
  <2>2. Put(state_store[main.id], P0, main.vc) \in Seq([proc : Proc, vc : Clock])
    BY <2>1, PutType DEF TypeOK
  <2>3. QED
    BY <1>5, <2>1, <2>2 DEF StoreOwnState, TypeOK, MainState, recorderVars
<1>6. CASE ViewSnapshots
  <2>1. main' \in MainState
    BY <1>6 DEF ViewSnapshots, MainState
  <2>2. QED
    BY <1>6, <2>1 DEF ViewSnapshots, TypeOK, recorderVars
<1>7. CASE \E s \in Snapshots : CheckViewed(s)
  <2>1. PICK s \in Snapshots : CheckViewed(s)
    BY <1>7
  <2>2. verdict' \in [Snapshots -> SUBSET Verdicts]
    BY <2>1, CheckType DEF CheckViewed
  <2>3. main \in [pc : {"view"}, left : SUBSET Snapshots]
    BY <2>1 DEF CheckViewed, TypeOK, MainState, Menu
  <2>4. main' \in MainState
    BY <2>1, <2>3 DEF CheckViewed, MainState
  <2>5. QED
    BY <2>1, <2>2, <2>4 DEF CheckViewed, TypeOK, recorderVars
<1>8. QED
  BY <1>1, <1>2, <1>3, <1>4, <1>5, <1>6, <1>7 DEF Command, MainStep

\* A message arrives at its receiver, or is lost.
LEMMA TypeArrival == TypeOK /\ (Arrival \/ Failure) => TypeOK'
<1> SUFFICES ASSUME TypeOK, Arrival \/ Failure PROVE TypeOK'
  OBVIOUS
<1> USE DEF recorderVars, coordinatorVars, StartsAt, Continues,
            CookingPc, DeliveringPc, MarkerPc, RunnerMarkerPc, StatePc
<1>1. ASSUME NEW m \in net, ReceiveDelivery(m) PROVE TypeOK'
  BY <1>1, ReceiveType DEF ReceiveDelivery, TypeOK
<1>2. ASSUME NEW m \in net, ReceiveState(m) PROVE TypeOK'
  BY <1>2, ReceiveType DEF ReceiveState, TypeOK
<1>3. ASSUME NEW m \in net, AcceptOrder(m) PROVE TypeOK'
  <2>1. m \in Message /\ m.to \in Recorders
    BY <1>3, Roles DEF TypeOK, AcceptOrder
  <2>2. NewThread(m, "handle") \in Thread
    BY <1>3, <2>1, NewThreadType DEF AcceptOrder
  <2>3. channel_states' \in [Recorders -> [Snapshots -> SUBSET Message]]
    BY <1>3, <2>1 DEF AcceptOrder, RecordOnChannel, TypeOK
  <2>4. QED
    BY <1>3, <2>2, <2>3 DEF AcceptOrder, TypeOK
<1>4. ASSUME NEW m \in net, ReceiveMarker(m) PROVE TypeOK'
  BY <1>4, ReceiveType DEF ReceiveMarker, TypeOK
<1>5. ASSUME NEW m \in net, ReceiveHandoff(m) PROVE TypeOK'
  BY <1>5, ReceiveType DEF ReceiveHandoff, TypeOK
<1>6. ASSUME NEW m \in net, ReceiveRunnerMarker(m) PROVE TypeOK'
  BY <1>6, ReceiveType DEF ReceiveRunnerMarker, TypeOK
<1>7. ASSUME NEW m \in net, Lose(m) PROVE TypeOK'
  <2>1. lost' \in Nat /\ net' \subseteq Message
    BY <1>7 DEF Lose, TypeOK
  <2>2. QED
    BY <1>7, <2>1 DEF Lose, TypeOK
<1>8. QED
  BY <1>1, <1>2, <1>3, <1>4, <1>5, <1>6, <1>7 DEF Arrival, Failure

\* A handler thread of P0 takes its next step.
LEMMA TypeCoordinatorStep ==
    ASSUME TypeOK, NEW t \in threads, CoordinatorStep(t)
    PROVE  TypeOK'
<1> USE DEF recorderVars, coordinatorVars, StartsAt, Continues,
            CookingPc, DeliveringPc, MarkerPc, RunnerMarkerPc, StatePc
<1>1. CASE ConfirmDelivery(t)
  BY <1>1, LocalEventType, FinishType, Roles DEF ConfirmDelivery, TypeOK
<1>2. CASE HandleState(t)
  <2>1. threads' \subseteq Thread
    BY <1>2, GotoType DEF HandleState
  <2>2. \A s \in Snapshots :
           Put(state_store[s], t.msg.from, t.msg.vc) \in Seq([proc : Proc, vc : Clock])
    <3>1. t.msg.from \in Proc /\ t.msg.vc \in Clock
      BY ThreadParts, MessageParts
    <3>2. QED
      BY <3>1, PutType DEF TypeOK
  <2>3. state_store' \in [Snapshots -> Seq([proc : Proc, vc : Clock])]
    BY <1>2, <2>2 DEF HandleState, TypeOK
  <2>4. QED
    BY <1>2, <2>1, <2>3 DEF HandleState, TypeOK
<1>3. CASE CountStates(t)
  <2>1. threads' \subseteq Thread
    BY <1>3, GotoType, FinishType DEF CountStates
  <2>2. QED
    BY <1>3, <2>1 DEF CountStates, TypeOK
<1>4. CASE CheckSnapshotConsistency(t)
  <2>1. threads' \subseteq Thread
    BY <1>4, FinishType DEF CheckSnapshotConsistency
  <2>2. verdict' \in [Snapshots -> SUBSET Verdicts]
    BY <1>4, HandlerOf, CheckType DEF CheckSnapshotConsistency
  <2>3. QED
    BY <1>4, <2>1, <2>2 DEF CheckSnapshotConsistency, TypeOK
<1>5. QED
  BY <1>1, <1>2, <1>3, <1>4 DEF CoordinatorStep

\* A handler thread of a restaurant takes its next step.
LEMMA TypeRestaurantStep ==
    ASSUME TypeOK, NEW t \in threads, RestaurantStep(t)
    PROVE  TypeOK'
<1> USE DEF recorderVars, coordinatorVars, StartsAt, Continues,
            CookingPc, DeliveringPc, MarkerPc, RunnerMarkerPc, StatePc
<1>t. /\ t.msg.to \in Proc /\ t.msg.from \in Proc /\ t.msg.clock \in Clock
      /\ t.saved \in Clock
  BY ThreadParts, MessageParts
<1>s. LocalEvent(t.msg.to) => clock' \in [Proc -> Clock] /\ clock'[t.msg.to] \in Clock
  BY <1>t, LocalEventType
<1>1. CASE HandleOrder(t)
  <2>1. ClockAfterReceive(t.msg) \in Clock
    BY <1>t, ReceiveEventType DEF ClockAfterReceive, TypeOK
  <2>2. threads' \subseteq Thread
    BY <1>1, GotoType DEF HandleOrder
  <2>3. QED
    BY <1>1, <2>1, <2>2 DEF HandleOrder, TypeOK
<1>2. ASSUME NEW pc \in {"confirm", "prepare", "ready"},
             NEW next \in {"prepare", "ready", "handover"}, OrderEvent(t, pc, next)
      PROVE  TypeOK'
  <2>1. threads' \subseteq Thread
    BY <1>2, GotoType DEF OrderEvent
  <2>2. QED
    BY <1>2, <2>1, <1>t, LocalEventType DEF OrderEvent, TypeOK
<1>3. CASE OrderConfirmed(t) \/ PreparingFood(t) \/ FoodReady(t)
  BY <1>3, <1>2 DEF OrderConfirmed, PreparingFood, FoodReady
<1>4. CASE HandToRunner(t)
  <2>1. Partner[t.msg.to] \in Proc
    BY <1>4, Roles DEF HandToRunner
  <2>2. threads' \subseteq Thread
    BY <1>4, FinishType DEF HandToRunner
  <2>3. t.msg.id \in Orders
    BY <1>4, HandlerOf DEF HandToRunner
  <2>4. Msg("DELIVERY", t.msg.to, Partner[t.msg.to], clock'[t.msg.to], t.msg.id,
            ZeroClock) \in Message
    BY <1>4, <1>s, <1>t, <2>1, <2>3, MsgType, ZeroClockType DEF HandToRunner
  <2>5. QED
    BY <1>4, <1>s, <2>2, <2>4 DEF HandToRunner, TypeOK
<1>5. CASE RecordMarker(t)
  <2> t.pc = "record" /\ t.msg.to \in Restaurants /\ t.msg.id \in Snapshots
    BY <1>5, HandlerOf DEF RecordMarker
  <2>1. CASE FirstMarker(t)
    <3>1. threads' \subseteq Thread
      BY <2>1, GotoType DEF FirstMarker
    <3>2. /\ local_states' \in [Recorders -> SUBSET Snapshots]
          /\ completed' \in [Recorders -> SUBSET Snapshots]
      BY <2>1, Roles DEF FirstMarker, TypeOK
    <3>3. /\ recording_channels' \in [Recorders -> [Snapshots -> SUBSET Proc]]
          /\ channel_states' \in [Recorders -> [Snapshots -> SUBSET Message]]
      BY <2>1, Roles DEF FirstMarker, TypeOK
    <3>4. QED
      BY <1>5, <3>1, <3>2, <3>3 DEF RecordMarker, TypeOK
  <2>2. CASE LaterMarker(t)
    <3>1. threads' \subseteq Thread
      BY <2>2, GotoType DEF LaterMarker
    <3>2. recording_channels' \in [Recorders -> [Snapshots -> SUBSET Proc]]
      BY <2>2, Roles DEF LaterMarker, TypeOK
    <3>3. QED
      BY <1>5, <2>2, <3>1, <3>2 DEF RecordMarker, LaterMarker, TypeOK
  <2>3. QED
    BY <1>5, <2>1, <2>2 DEF RecordMarker
<1>6. CASE ForwardMarker(t)
  <2>1. threads' \subseteq Thread
    BY <1>6, GotoType DEF ForwardMarker
  <2>2. t.msg.id \in Snapshots /\ Partner[t.msg.to] \in Proc
    BY <1>6, HandlerOf, Roles DEF ForwardMarker
  <2>3. Msg("MARKER", t.msg.to, Partner[t.msg.to], clock'[t.msg.to], t.msg.id,
            ZeroClock) \in Message
    BY <1>6, <1>s, <1>t, <2>2, MsgType, ZeroClockType DEF ForwardMarker
  <2>4. QED
    BY <1>6, <1>s, <2>1, <2>3 DEF ForwardMarker, TypeOK
<1>7. CASE NothingToComplete(t)
  BY <1>7, FinishType DEF NothingToComplete, TypeOK
<1>8. CASE CompleteSnapshot(t)
  <2>1. threads' \subseteq Thread
    BY <1>8, <1>t, KeepType DEF CompleteSnapshot, TypeOK
  <2>2. completed' \in [Recorders -> SUBSET Snapshots]
    BY <1>8, HandlerOf DEF CompleteSnapshot, TypeOK
  <2>3. QED
    BY <1>8, <2>1, <2>2 DEF CompleteSnapshot, TypeOK
<1>9. CASE SendState(t)
  <2>1. threads' \subseteq Thread
    BY <1>9, GotoType DEF SendState
  <2>2. t.msg.id \in Snapshots
    BY <1>9, HandlerOf DEF SendState
  <2>3. Msg("STATE", t.msg.to, P0, clock'[t.msg.to], t.msg.id, t.saved) \in Message
    BY <1>9, <1>s, <1>t, <2>2, MsgType, Roles DEF SendState
  <2>4. QED
    BY <1>9, <1>s, <2>1, <2>3 DEF SendState, TypeOK
<1>10. CASE ReleaseLock(t)
  BY <1>10, FinishType DEF ReleaseLock, TypeOK
<1>11. QED
  BY <1>1, <1>3, <1>4, <1>5, <1>6, <1>7, <1>8, <1>9, <1>10 DEF RestaurantStep

\* A handler thread of a runner takes its next step.
LEMMA TypeRunnerStep ==
    ASSUME TypeOK, NEW t \in threads, RunnerStep(t)
    PROVE  TypeOK'
<1> USE DEF recorderVars, coordinatorVars, StartsAt, Continues,
            CookingPc, DeliveringPc, MarkerPc, RunnerMarkerPc, StatePc
<1>t. t.msg.to \in Proc /\ t.saved \in Clock
  BY ThreadParts, MessageParts
<1>1. ASSUME NEW pc \in {"pickup", "transit", "deliver"},
             NEW next \in {"transit", "deliver", "handover"}, DeliveryEvent(t, pc, next)
      PROVE  TypeOK'
  <2>1. threads' \subseteq Thread
    BY <1>1, GotoType DEF DeliveryEvent
  <2>2. QED
    BY <1>1, <2>1, <1>t, LocalEventType DEF DeliveryEvent, TypeOK
<1>2. CASE PickedUp(t) \/ InTransit(t) \/ Delivered(t)
  BY <1>2, <1>1 DEF PickedUp, InTransit, Delivered
<1>3. CASE SendDelivery(t)
  <2>1. clock' \in [Proc -> Clock] /\ clock'[t.msg.to] \in Clock
    BY <1>3, <1>t, LocalEventType DEF SendDelivery
  <2>2. Msg("DELIVERY", t.msg.to, P0, clock'[t.msg.to], t.msg.id, ZeroClock) \in Message
    BY <1>3, <2>1, <1>t, HandlerOf, MsgType, ZeroClockType, Roles DEF SendDelivery
  <2>3. threads' \subseteq Thread
    BY <1>3, FinishType DEF SendDelivery
  <2>4. QED
    BY <1>3, <2>1, <2>2, <2>3 DEF SendDelivery, TypeOK
<1>4. CASE CheckMarker(t) /\ StampState(t)
  <2>1. clock' \in [Proc -> Clock] /\ clock'[t.msg.to] \in Clock
    BY <1>4, <1>t, LocalEventType DEF StampState
  <2>2. threads' \subseteq Thread
    BY <1>4, <2>1, KeepType DEF CheckMarker, StampState
  <2>3. recorded_snapshots' \in [Runners -> SUBSET Snapshots]
    BY <1>4, HandlerOf DEF CheckMarker, StampState, TypeOK
  <2>4. QED
    BY <1>4, <2>1, <2>2, <2>3 DEF CheckMarker, StampState, TypeOK
<1>5. CASE CheckMarker(t) /\ DuplicateMarker(t)
  BY <1>5, FinishType DEF CheckMarker, DuplicateMarker, TypeOK
<1>6. CASE ReportState(t)
  <2>1. Msg("STATE", t.msg.to, P0, t.saved, t.msg.id, clock[t.msg.to]) \in Message
    BY <1>6, <1>t, HandlerOf, MsgType, Roles DEF ReportState, TypeOK
  <2>2. threads' \subseteq Thread
    BY <1>6, FinishType DEF ReportState
  <2>3. QED
    BY <1>6, <2>1, <2>2 DEF ReportState, TypeOK
<1>7. QED
  BY <1>2, <1>3, <1>4, <1>5, <1>6 DEF RunnerStep, CheckMarker

\* Every step of the system leaves the state well typed.
LEMMA TypeStep == TypeOK /\ [Next]_vars => TypeOK'
<1> SUFFICES ASSUME TypeOK, [Next]_vars PROVE TypeOK'
  OBVIOUS
<1>1. CASE Command \/ MainStep
  BY <1>1, TypeMain
<1>2. CASE Arrival \/ Failure
  BY <1>2, TypeArrival
<1>3. CASE HandlerStep
  BY <1>3, TypeCoordinatorStep, TypeRestaurantStep, TypeRunnerStep DEF HandlerStep
<1>4. CASE UNCHANGED vars
  BY <1>4 DEF TypeOK, vars, recorderVars, coordinatorVars
<1>5. QED
  BY <1>1, <1>2, <1>3, <1>4 DEF Next

\* Every reachable state of the system is well typed.
THEOREM TypeCorrect == Spec => []TypeOK
BY TypeInit, TypeStep, PTL DEF Spec

----------------------------------------------------------------------------
(* No clock is ahead of the process it speaks of.                          *)

\* No process forgets an event of its own.
Grows == \A q \in Proc : clock[q][q] <= clock'[q][q]

\* What is known stays known.
LEMMA StaysKnown ==
    ASSUME TypeOK, TypeOK', Grows, NEW v \in Clock, Known(v)
    PROVE  Known(v)'
<1> SUFFICES ASSUME NEW q \in Proc PROVE v[q] <= clock'[q][q]
  BY DEF Known
<1>1. v[q] \in Nat /\ clock[q][q] \in Nat /\ clock'[q][q] \in Nat
  BY DEF TypeOK, Clock
<1>2. v[q] <= clock[q][q] /\ clock[q][q] <= clock'[q][q]
  BY DEF Known, Grows
<1>3. QED
  BY <1>1, <1>2

\* A local event of p keeps the clocks of all processes known.
LEMMA LocalEventKnown ==
    ASSUME TypeOK, ClocksKnownOnly, NEW p \in Proc, LocalEvent(p)
    PROVE  Grows /\ \A q \in Proc : Known(clock[q])'
<1>1. \A q, x \in Proc : clock[q][x] \in Nat /\ clock[q][x] <= clock[x][x]
  BY DEF TypeOK, Clock, ClocksKnownOnly, Known
<1>2. \A q, x \in Proc :
         clock'[q][x] = IF q = p /\ x = p THEN clock[q][x] + 1 ELSE clock[q][x]
  BY DEF LocalEvent, Tick, TypeOK, Clock
<1>3. QED
  BY <1>1, <1>2 DEF Grows, Known

\* A receive_event of a known clock does so too.
LEMMA ReceiveEventKnown ==
    ASSUME TypeOK, ClocksKnownOnly, NEW p \in Proc, NEW w \in Clock, Known(w),
           clock' = [clock EXCEPT ![p] = ReceiveEvent(clock[p], p, w)]
    PROVE  Grows /\ \A q \in Proc : Known(clock[q])'
<1>1. \A q, x \in Proc : /\ clock[q][x] \in Nat /\ clock[q][x] <= clock[x][x]
                         /\ w[x] \in Nat /\ w[x] <= clock[x][x]
  BY DEF TypeOK, Clock, ClocksKnownOnly, Known
<1>2. \A x \in Proc :
         ReceiveEvent(clock[p], p, w)[x] =
             (IF clock[p][x] < w[x] THEN w[x] ELSE clock[p][x])
                 + (IF x = p THEN 1 ELSE 0)
  BY <1>1 DEF ReceiveEvent, Tick, Merge
<1>3. \A q, x \in Proc :
         clock'[q][x] = IF q = p THEN ReceiveEvent(clock[p], p, w)[x] ELSE clock[q][x]
  BY DEF TypeOK
<1>4. clock'[p][p] = clock[p][p] + 1
  BY <1>1, <1>2, <1>3
<1>5. Grows
  BY <1>1, <1>3, <1>4 DEF Grows
<1>6. \A q, x \in Proc : clock'[q][x] <= clock'[x][x]
  BY <1>1, <1>2, <1>3, <1>4
<1>7. QED
  BY <1>5, <1>6 DEF Known

\* The parts of a step that keep what they leave alone known.
LEMMA MessagesStayKnown ==
    ASSUME TypeOK, TypeOK', Grows, ClocksKnownOnly, NEW m \in net
    PROVE  MessageKnown(m)'
<1>1. m.clock \in Clock /\ m.vc \in Clock
  BY MessageParts DEF TypeOK
<1>2. Known(m.clock) /\ Known(m.vc)
  BY DEF ClocksKnownOnly, MessageKnown
<1>3. QED
  BY <1>1, <1>2, StaysKnown DEF MessageKnown

\* The clocks that a thread holds stay known.
LEMMA ThreadsStayKnown ==
    ASSUME TypeOK, TypeOK', Grows, ClocksKnownOnly, NEW t \in threads
    PROVE  ThreadKnown(t)'
<1>1. t.msg.clock \in Clock /\ t.msg.vc \in Clock /\ t.saved \in Clock
  BY ThreadParts, MessageParts
<1>2. Known(t.msg.clock) /\ Known(t.msg.vc) /\ Known(t.saved)
  BY DEF ClocksKnownOnly, ThreadKnown, MessageKnown
<1>3. QED
  BY <1>1, <1>2, StaysKnown DEF ThreadKnown, MessageKnown

\* The reports in P0's store stay known.
LEMMA EntriesStayKnown ==
    ASSUME TypeOK, TypeOK', Grows, ClocksKnownOnly, NEW s \in Snapshots
    PROVE  EntriesKnown(state_store[s])'
           \/ state_store'[s] # state_store[s]
<1> SUFFICES ASSUME state_store'[s] = state_store[s],
                    NEW i \in DOMAIN state_store[s]
             PROVE  Known(state_store[s][i].vc)'
  BY DEF EntriesKnown
<1>1. state_store[s][i] \in [proc : Proc, vc : Clock]
  <2>1. state_store[s] \in Seq([proc : Proc, vc : Clock])
    BY DEF TypeOK
  <2>2. i \in 1 .. Len(state_store[s])
    BY <2>1, LenProperties
  <2>3. QED
    BY <2>1, <2>2, ElementOfSeq
<1>2. Known(state_store[s][i].vc)
  BY DEF ClocksKnownOnly, EntriesKnown
<1>3. QED
  BY <1>1, <1>2, StaysKnown

\* So does the clock that P0's main thread has read.
LEMMA MainStaysKnown ==
    ASSUME TypeOK, TypeOK', Grows, ClocksKnownOnly, main' = main
    PROVE  MainKnown'
<1> SUFFICES ASSUME main.pc = "store" PROVE Known(main.vc)'
  BY DEF MainKnown
<1>1. main.vc \in Clock /\ Known(main.vc)
  BY DEF TypeOK, MainState, Menu, ClocksKnownOnly, MainKnown
<1>2. QED
  BY <1>1, StaysKnown DEF Known

\* A step keeps all clocks known if it does so for what it adds.
LEMMA StepKnown ==
    ASSUME TypeOK, TypeOK', ClocksKnownOnly,
           Grows /\ \A q \in Proc : Known(clock[q])',
           \A m \in net' \ net : MessageKnown(m)',
           \A t \in threads' \ threads : ThreadKnown(t)',
           \A s \in Snapshots :
               state_store'[s] = state_store[s] \/ EntriesKnown(state_store[s])',
           main' = main \/ MainKnown'
    PROVE  ClocksKnownOnly'
<1>1. \A m \in net' : MessageKnown(m)'
  BY MessagesStayKnown
<1>2. \A t \in threads' : ThreadKnown(t)'
  BY ThreadsStayKnown
<1>3. \A s \in Snapshots : EntriesKnown(state_store[s])'
  BY EntriesStayKnown
<1>4. MainKnown'
  BY MainStaysKnown
<1>5. QED
  BY <1>1, <1>2, <1>3, <1>4 DEF ClocksKnownOnly

\* A thread that goes on, with the same saved clock or a known one, is known.
LEMMA GotoKnown ==
    ASSUME TypeOK, TypeOK', Grows, ClocksKnownOnly, NEW t \in threads, NEW pc, Goto(t, pc)
    PROVE  \A u \in threads' \ threads : ThreadKnown(u)'
<1>1. ThreadKnown(t)'
  BY ThreadsStayKnown
<1>2. t = [msg |-> t.msg, pc |-> t.pc, saved |-> t.saved]
  BY ThreadParts
<1>3. [t EXCEPT !.pc = pc].msg = t.msg /\ [t EXCEPT !.pc = pc].saved = t.saved
  BY <1>2
<1>4. QED
  BY <1>1, <1>3 DEF Goto, ThreadKnown, MessageKnown

\* A thread that keeps a known clock holds known clocks.
LEMMA KeepKnown ==
    ASSUME TypeOK, TypeOK', Grows, ClocksKnownOnly, NEW t \in threads, NEW pc,
           NEW c, Known(c)', Keep(t, pc, c)
    PROVE  \A u \in threads' \ threads : ThreadKnown(u)'
<1>1. ThreadKnown(t)'
  BY ThreadsStayKnown
<1>2. t = [msg |-> t.msg, pc |-> t.pc, saved |-> t.saved]
  BY ThreadParts
<1>3. /\ [t EXCEPT !.pc = pc, !.saved = c].msg = t.msg
      /\ [t EXCEPT !.pc = pc, !.saved = c].saved = c
  BY <1>2
<1>4. QED
  BY <1>1, <1>3 DEF Keep, ThreadKnown, MessageKnown

\* The zero clock is known to everyone.
LEMMA ZeroKnown == TypeOK => Known(ZeroClock)
BY DEF Known, ZeroClock, TypeOK, Clock

\* A message that a process builds with clocks that are known is known.
LEMMA MsgKnown ==
    ASSUME NEW type, NEW from, NEW to, NEW id, NEW c, NEW v
    PROVE  /\ Msg(type, from, to, c, id, v).clock = c
           /\ Msg(type, from, to, c, id, v).vc = v
BY DEF Msg

\* An entry that is assigned with a known clock leaves a known store.
LEMMA PutKnown ==
    ASSUME TypeOK, ClocksKnownOnly, NEW s \in Snapshots,
           NEW p \in Proc, NEW v \in Clock, Known(v)
    PROVE  EntriesKnown(Put(state_store[s], p, v))
<1> DEFINE entries == state_store[s]
<1>1. entries \in Seq([proc : Proc, vc : Clock])
  BY DEF TypeOK
<1>2. EntriesKnown(entries)
  BY DEF ClocksKnownOnly
<1>3. CASE \E i \in DOMAIN entries : entries[i].proc = p
  BY <1>2, <1>3 DEF Put, EntriesKnown
<1>4. CASE ~ \E i \in DOMAIN entries : entries[i].proc = p
  <2>1. Put(entries, p, v) = Append(entries, [proc |-> p, vc |-> v])
    BY <1>4 DEF Put
  <2> HIDE DEF entries
  <2>2. \A i \in DOMAIN Append(entries, [proc |-> p, vc |-> v]) :
           \/ i \in DOMAIN entries
                 /\ Append(entries, [proc |-> p, vc |-> v])[i] = entries[i]
           \/ Append(entries, [proc |-> p, vc |-> v])[i] = [proc |-> p, vc |-> v]
    BY <1>1
  <2>3. QED
    BY <1>2, <2>1, <2>2 DEF EntriesKnown, entries
<1>5. QED
  BY <1>3, <1>4

\* At the start there is nothing to know.
LEMMA KnownInit == Init => ClocksKnownOnly
<1> SUFFICES ASSUME Init PROVE ClocksKnownOnly
  OBVIOUS
<1>1. \A p \in Proc : clock[p] = ZeroClock
  BY DEF Init
<1>2. \A p \in Proc : Known(clock[p])
  BY <1>1 DEF Known, ZeroClock
<1>3. \A s \in Snapshots : DOMAIN state_store[s] = {}
  BY DEF Init
<1>4. QED
  BY <1>2, <1>3 DEF Init, ClocksKnownOnly, EntriesKnown, MainKnown, Menu

\* P0's operator and main thread add only messages and entries with P0's
\* own clock.
LEMMA KnownMain ==
    ASSUME TypeOK, TypeOK', ClocksKnownOnly, Command \/ MainStep
    PROVE  ClocksKnownOnly'
<1> USE Roles
<1>1. ASSUME NEW o \in Orders, NEW r \in Restaurants, CreateOrder(o, r)
      PROVE  ClocksKnownOnly'
  <2>1. Grows /\ \A q \in Proc : Known(clock[q])'
    BY <1>1, LocalEventKnown DEF CreateOrder
  <2>2. QED
    BY <1>1, <2>1, StepKnown DEF CreateOrder, MainKnown
<1>2. ASSUME NEW s \in Snapshots, InitiateSnapshot(s)
      PROVE  ClocksKnownOnly'
  <2>1. Grows /\ \A q \in Proc : Known(clock[q])'
    BY <1>2, LocalEventKnown DEF InitiateSnapshot
  <2>2. Known(ZeroClock)'
    BY <2>1, ZeroKnown, ZeroClockType, StaysKnown
  <2>3. \A m \in net' \ net : m.clock = clock'[P0] /\ m.vc = ZeroClock
    BY <1>2, MsgKnown DEF InitiateSnapshot
  <2>4. \A m \in net' \ net : MessageKnown(m)'
    BY <2>1, <2>2, <2>3 DEF MessageKnown
  <2>5. QED
    BY <1>2, <2>1, <2>4, StepKnown DEF InitiateSnapshot, MainKnown
<1>3. CASE DispatchOrder
  <2>1. Grows /\ \A q \in Proc : Known(clock[q])'
    BY <1>3, LocalEventKnown DEF DispatchOrder
  <2>2. Known(ZeroClock)'
    BY <2>1, ZeroKnown, ZeroClockType, StaysKnown
  <2>3. \A m \in net' \ net : m.clock = clock'[P0] /\ m.vc = ZeroClock
    BY <1>3, MsgKnown DEF DispatchOrder
  <2>4. \A m \in net' \ net : MessageKnown(m)'
    BY <2>1, <2>2, <2>3 DEF MessageKnown
  <2>5. QED
    BY <1>3, <2>1, <2>4, StepKnown DEF DispatchOrder, MainKnown, Menu
<1>g. clock' = clock => Grows /\ \A q \in Proc : Known(clock[q])'
  BY DEF Grows, TypeOK, Clock, ClocksKnownOnly, Known
<1>4. CASE RecordOwnState
  <2>1. Grows /\ \A q \in Proc : Known(clock[q])'
    BY <1>4, <1>g DEF RecordOwnState
  <2>2. main'.vc = clock[P0] /\ clock' = clock
    BY <1>4 DEF RecordOwnState
  <2>3. MainKnown'
    BY <2>1, <2>2 DEF MainKnown, Known
  <2>4. QED
    BY <1>4, <2>1, <2>3, StepKnown DEF RecordOwnState
<1>5. ASSUME StoreOwnState PROVE ClocksKnownOnly'
  <2>1. Grows /\ \A q \in Proc : Known(clock[q])'
    BY <1>5, <1>g DEF StoreOwnState
  <2>2. main.id \in Snapshots /\ main.vc \in Clock /\ Known(main.vc)
    BY <1>5 DEF StoreOwnState, TypeOK, MainState, Menu, ClocksKnownOnly, MainKnown
  <2>3. EntriesKnown(Put(state_store[main.id], P0, main.vc))
    BY <2>2, PutKnown
  <2>5. \A s \in Snapshots :
           state_store'[s] = state_store[s] \/ EntriesKnown(state_store[s])'
    <3> SUFFICES ASSUME NEW s \in Snapshots, state_store'[s] # state_store[s]
                 PROVE  EntriesKnown(state_store[s])'
      OBVIOUS
    <3>1. s = main.id
      BY <1>5, <2>2 DEF StoreOwnState, TypeOK
    <3>2. QED
      BY <1>5, <2>2, <2>3, <3>1 DEF StoreOwnState, EntriesKnown, Known, TypeOK
  <2>6. MainKnown'
    BY <1>5 DEF StoreOwnState, MainKnown, Menu
  <2>7. QED
    BY <1>5, <2>1, <2>5, <2>6, StepKnown DEF StoreOwnState
<1>6. CASE ViewSnapshots
  <2>1. Grows /\ \A q \in Proc : Known(clock[q])'
    BY <1>6, <1>g DEF ViewSnapshots
  <2>2. MainKnown'
    BY <1>6 DEF ViewSnapshots, MainKnown
  <2>3. QED
    BY <1>6, <2>1, <2>2, StepKnown DEF ViewSnapshots
<1>7. ASSUME NEW s \in Snapshots, CheckViewed(s) PROVE ClocksKnownOnly'
  <2>1. Grows /\ \A q \in Proc : Known(clock[q])'
    BY <1>7, <1>g DEF CheckViewed
  <2>2. main \in [pc : {"view"}, left : SUBSET Snapshots]
    BY <1>7 DEF CheckViewed, TypeOK, MainState, Menu
  <2>3. MainKnown'
    BY <1>7, <2>2 DEF CheckViewed, MainKnown, Menu
  <2>4. QED
    BY <1>7, <2>1, <2>3, StepKnown DEF CheckViewed
<1>8. QED
  BY <1>1, <1>2, <1>3, <1>4, <1>5, <1>6, <1>7 DEF Command, MainStep

\* A message that is received was known when it was sent, so its receiver
\* learns of nothing that has not happened.
LEMMA KnownReceive ==
    ASSUME TypeOK, TypeOK', ClocksKnownOnly, NEW m \in net, NEW pc, Receive(m, pc),
           state_store' = state_store, main' = main
    PROVE  ClocksKnownOnly'
<1>1. m.to \in Proc /\ m.clock \in Clock
  BY MessageParts DEF TypeOK
<1>2. Known(m.clock)
  BY DEF ClocksKnownOnly, MessageKnown
<1>3. Grows /\ \A q \in Proc : Known(clock[q])'
  BY <1>1, <1>2, ReceiveEventKnown DEF Receive, ClockAfterReceive
<1>4. Known(ZeroClock)'
  BY <1>3, ZeroKnown, ZeroClockType, StaysKnown
<1>5. MessageKnown(m)'
  BY <1>3, MessagesStayKnown
<1>6. \A t \in threads' \ threads : ThreadKnown(t)'
  BY <1>4, <1>5 DEF Receive, NewThread, ThreadKnown, MessageKnown
<1>7. net' \ net = {}
  BY DEF Receive
<1>8. QED
  BY <1>3, <1>6, <1>7, StepKnown

\* A message that arrives, or is lost, teaches its receiver nothing that has
\* not happened.
LEMMA KnownArrival ==
    ASSUME TypeOK, TypeOK', ClocksKnownOnly, Arrival \/ Failure
    PROVE  ClocksKnownOnly'
<1> USE DEF coordinatorVars
<1>1. ASSUME NEW m \in net,
             \/ ReceiveDelivery(m) \/ ReceiveState(m) \/ ReceiveMarker(m)
             \/ ReceiveHandoff(m) \/ ReceiveRunnerMarker(m)
      PROVE  ClocksKnownOnly'
  BY <1>1, KnownReceive DEF ReceiveDelivery, ReceiveState, ReceiveMarker,
                            ReceiveHandoff, ReceiveRunnerMarker
<1>g. clock' = clock => Grows /\ \A q \in Proc : Known(clock[q])'
  BY DEF Grows, TypeOK, Clock, ClocksKnownOnly, Known
<1>2. ASSUME NEW m \in net, AcceptOrder(m) PROVE ClocksKnownOnly'
  <2>1. Grows /\ \A q \in Proc : Known(clock[q])'
    BY <1>2, <1>g DEF AcceptOrder
  <2>2. Known(ZeroClock)' /\ MessageKnown(m)'
    BY <2>1, ZeroKnown, ZeroClockType, StaysKnown, MessagesStayKnown
  <2>3. \A t \in threads' \ threads : ThreadKnown(t)'
    BY <1>2, <2>2 DEF AcceptOrder, NewThread, ThreadKnown, MessageKnown
  <2>4. QED
    BY <1>2, <2>1, <2>3, StepKnown DEF AcceptOrder
<1>3. ASSUME NEW m \in net, Lose(m) PROVE ClocksKnownOnly'
  <2>1. Grows /\ \A q \in Proc : Known(clock[q])'
    BY <1>3, <1>g DEF Lose
  <2>2. QED
    BY <1>3, <2>1, StepKnown DEF Lose
<1>4. QED
  BY <1>1, <1>2, <1>3 DEF Arrival, Failure

\* P0's handlers store the clock that a STATE reports, which was known.
LEMMA KnownCoordinatorStep ==
    ASSUME TypeOK, TypeOK', ClocksKnownOnly, NEW t \in threads, CoordinatorStep(t)
    PROVE  ClocksKnownOnly'
<1> USE DEF coordinatorVars
<1>g. clock' = clock => Grows /\ \A q \in Proc : Known(clock[q])'
  BY DEF Grows, TypeOK, Clock, ClocksKnownOnly, Known
<1>1. CASE ConfirmDelivery(t)
  <2>1. Grows /\ \A q \in Proc : Known(clock[q])'
    BY <1>1, Roles, LocalEventKnown DEF ConfirmDelivery
  <2>2. QED
    BY <1>1, <2>1, StepKnown DEF ConfirmDelivery, Finish
<1>2. CASE HandleState(t)
  <2>1. Grows /\ \A q \in Proc : Known(clock[q])'
    BY <1>2, <1>g DEF HandleState
  <2>2. \A u \in threads' \ threads : ThreadKnown(u)'
    BY <1>2, <2>1, GotoKnown DEF HandleState
  <2>3. t.msg.from \in Proc /\ t.msg.vc \in Clock /\ Known(t.msg.vc)
    BY ThreadParts, MessageParts DEF ClocksKnownOnly, ThreadKnown, MessageKnown
  <2>4. t.msg.id \in Snapshots
    BY <1>2, HandlerOf DEF HandleState, StatePc
  <2>5. EntriesKnown(Put(state_store[t.msg.id], t.msg.from, t.msg.vc))
    BY <2>3, <2>4, PutKnown
  <2>6. \A s \in Snapshots :
           state_store'[s] = state_store[s] \/ EntriesKnown(state_store[s])'
    <3> SUFFICES ASSUME NEW s \in Snapshots, state_store'[s] # state_store[s]
                 PROVE  EntriesKnown(state_store[s])'
      OBVIOUS
    <3>1. s = t.msg.id
      BY <1>2, <2>4 DEF HandleState, TypeOK
    <3>2. QED
      BY <1>2, <2>4, <2>5, <3>1 DEF HandleState, EntriesKnown, Known, TypeOK
  <2>7. QED
    BY <1>2, <2>1, <2>2, <2>6, StepKnown DEF HandleState
<1>3. CASE CountStates(t)
  <2>1. Grows /\ \A q \in Proc : Known(clock[q])'
    BY <1>3, <1>g DEF CountStates
  <2>2. \A u \in threads' \ threads : ThreadKnown(u)'
    BY <1>3, <2>1, GotoKnown DEF CountStates, Finish
  <2>3. QED
    BY <1>3, <2>1, <2>2, StepKnown DEF CountStates
<1>4. CASE CheckSnapshotConsistency(t)
  <2>1. Grows /\ \A q \in Proc : Known(clock[q])'
    BY <1>4, <1>g DEF CheckSnapshotConsistency
  <2>2. QED
    BY <1>4, <2>1, StepKnown DEF CheckSnapshotConsistency, Finish
<1>5. QED
  BY <1>1, <1>2, <1>3, <1>4 DEF CoordinatorStep

\* A restaurant's handlers send and keep only their own clock.
LEMMA KnownRestaurantStep ==
    ASSUME TypeOK, TypeOK', ClocksKnownOnly, NEW t \in threads, RestaurantStep(t)
    PROVE  ClocksKnownOnly'
<1> USE DEF coordinatorVars
<1>t. t.msg.to \in Proc /\ t.msg.clock \in Clock /\ t.saved \in Clock
  BY ThreadParts, MessageParts
<1>k. Known(t.msg.clock) /\ Known(t.saved) /\ Known(ZeroClock)
  BY ZeroKnown DEF ClocksKnownOnly, ThreadKnown, MessageKnown
<1>l. LocalEvent(t.msg.to) =>
         /\ Grows /\ \A q \in Proc : Known(clock[q])'
         /\ Known(clock[t.msg.to])' /\ Known(t.saved)' /\ Known(ZeroClock)'
  BY <1>t, <1>k, LocalEventKnown, StaysKnown, ZeroClockType
<1>g. clock' = clock => Grows /\ \A q \in Proc : Known(clock[q])'
  BY DEF Grows, TypeOK, Clock, ClocksKnownOnly, Known
<1>1. CASE HandleOrder(t)
  <2>1. Grows /\ \A q \in Proc : Known(clock[q])'
    BY <1>1, <1>t, <1>k, ReceiveEventKnown DEF HandleOrder, ClockAfterReceive
  <2>2. \A u \in threads' \ threads : ThreadKnown(u)'
    BY <1>1, <2>1, GotoKnown DEF HandleOrder
  <2>3. QED
    BY <1>1, <2>1, <2>2, StepKnown DEF HandleOrder
<1>2. ASSUME NEW pc, NEW next, OrderEvent(t, pc, next) PROVE ClocksKnownOnly'
  <2>1. Grows /\ \A q \in Proc : Known(clock[q])'
    BY <1>2, <1>l DEF OrderEvent
  <2>2. \A u \in threads' \ threads : ThreadKnown(u)'
    BY <1>2, <2>1, GotoKnown DEF OrderEvent
  <2>3. QED
    BY <1>2, <2>1, <2>2, StepKnown DEF OrderEvent
<1>3. CASE OrderConfirmed(t) \/ PreparingFood(t) \/ FoodReady(t)
  BY <1>3, <1>2 DEF OrderConfirmed, PreparingFood, FoodReady
<1>4. CASE HandToRunner(t)
  <2>1. \A m \in net' \ net : m.clock = clock'[t.msg.to] /\ m.vc = ZeroClock
    BY <1>4, MsgKnown DEF HandToRunner
  <2>2. \A m \in net' \ net : MessageKnown(m)'
    BY <1>4, <1>l, <2>1 DEF HandToRunner, MessageKnown
  <2>3. QED
    BY <1>4, <1>l, <2>2, StepKnown DEF HandToRunner, Finish
<1>5. CASE RecordMarker(t)
  <2>1. Grows /\ \A q \in Proc : Known(clock[q])'
    BY <1>5, <1>g DEF RecordMarker
  <2>2. \A u \in threads' \ threads : ThreadKnown(u)'
    BY <1>5, <2>1, GotoKnown DEF RecordMarker, FirstMarker, LaterMarker
  <2>3. QED
    BY <1>5, <2>1, <2>2, StepKnown DEF RecordMarker
<1>6. CASE ForwardMarker(t)
  <2>1. \A m \in net' \ net : m.clock = clock'[t.msg.to] /\ m.vc = ZeroClock
    BY <1>6, MsgKnown DEF ForwardMarker
  <2>2. \A m \in net' \ net : MessageKnown(m)'
    BY <1>6, <1>l, <2>1 DEF ForwardMarker, MessageKnown
  <2>3. \A u \in threads' \ threads : ThreadKnown(u)'
    BY <1>6, <1>l, GotoKnown DEF ForwardMarker
  <2>4. QED
    BY <1>6, <1>l, <2>2, <2>3, StepKnown DEF ForwardMarker
<1>7. CASE NothingToComplete(t)
  <2>1. Grows /\ \A q \in Proc : Known(clock[q])'
    BY <1>7, <1>g DEF NothingToComplete
  <2>2. QED
    BY <1>7, <2>1, StepKnown DEF NothingToComplete, Finish
<1>8. CASE CompleteSnapshot(t)
  <2>1. Grows /\ \A q \in Proc : Known(clock[q])'
    BY <1>8, <1>g DEF CompleteSnapshot
  <2>2. Known(clock[t.msg.to])' /\ clock' = clock
    BY <1>8, <1>t, <2>1 DEF CompleteSnapshot
  <2>3. \A u \in threads' \ threads : ThreadKnown(u)'
    <3> DEFINE c == clock[t.msg.to]
    <3>1. Known(c)' /\ Keep(t, "report", c)
      BY <1>8, <2>2 DEF CompleteSnapshot
    <3>2. QED
      BY <1>8, <2>1, <2>2, <3>1, KeepKnown DEF CompleteSnapshot, Known
  <2>4. QED
    BY <1>8, <2>1, <2>3, StepKnown DEF CompleteSnapshot
<1>9. CASE SendState(t)
  <2>1. \A m \in net' \ net : m.clock = clock'[t.msg.to] /\ m.vc = t.saved
    BY <1>9, MsgKnown DEF SendState
  <2>2. \A m \in net' \ net : MessageKnown(m)'
    BY <1>9, <1>l, <2>1 DEF SendState, MessageKnown
  <2>3. \A u \in threads' \ threads : ThreadKnown(u)'
    BY <1>9, <1>l, GotoKnown DEF SendState
  <2>4. QED
    BY <1>9, <1>l, <2>2, <2>3, StepKnown DEF SendState
<1>10. CASE ReleaseLock(t)
  <2>1. Grows /\ \A q \in Proc : Known(clock[q])'
    BY <1>10, <1>g DEF ReleaseLock
  <2>2. QED
    BY <1>10, <2>1, StepKnown DEF ReleaseLock, Finish
<1>11. QED
  BY <1>1, <1>3, <1>4, <1>5, <1>6, <1>7, <1>8, <1>9, <1>10 DEF RestaurantStep

\* A runner's handlers send and keep only their own clock.
LEMMA KnownRunnerStep ==
    ASSUME TypeOK, TypeOK', ClocksKnownOnly, NEW t \in threads, RunnerStep(t)
    PROVE  ClocksKnownOnly'
<1> USE DEF coordinatorVars
<1>t. t.msg.to \in Proc /\ t.saved \in Clock
  BY ThreadParts, MessageParts
<1>k. Known(t.saved) /\ Known(ZeroClock)
  BY ZeroKnown DEF ClocksKnownOnly, ThreadKnown
<1>l. LocalEvent(t.msg.to) =>
         /\ Grows /\ \A q \in Proc : Known(clock[q])'
         /\ Known(clock[t.msg.to])' /\ Known(ZeroClock)'
  BY <1>t, <1>k, LocalEventKnown, StaysKnown, ZeroClockType
<1>g. clock' = clock =>
         Grows /\ (\A q \in Proc : Known(clock[q])') /\ Known(t.saved)'
  BY <1>k DEF Grows, TypeOK, Clock, ClocksKnownOnly, Known
<1>1. ASSUME NEW pc, NEW next, DeliveryEvent(t, pc, next) PROVE ClocksKnownOnly'
  <2>1. Grows /\ \A q \in Proc : Known(clock[q])'
    BY <1>1, <1>l DEF DeliveryEvent
  <2>2. \A u \in threads' \ threads : ThreadKnown(u)'
    BY <1>1, <2>1, GotoKnown DEF DeliveryEvent
  <2>3. QED
    BY <1>1, <2>1, <2>2, StepKnown DEF DeliveryEvent
<1>2. CASE PickedUp(t) \/ InTransit(t) \/ Delivered(t)
  BY <1>2, <1>1 DEF PickedUp, InTransit, Delivered
<1>3. CASE SendDelivery(t)
  <2>1. \A m \in net' \ net : m.clock = clock'[t.msg.to] /\ m.vc = ZeroClock
    BY <1>3, MsgKnown DEF SendDelivery
  <2>2. \A m \in net' \ net : MessageKnown(m)'
    BY <1>3, <1>l, <2>1 DEF SendDelivery, MessageKnown
  <2>3. QED
    BY <1>3, <1>l, <2>2, StepKnown DEF SendDelivery, Finish
<1>4. CASE CheckMarker(t) /\ StampState(t)
  <2> DEFINE c == clock'[t.msg.to]
  <2>1. Keep(t, "report", c) /\ \A q \in Proc : c[q] <= clock'[q][q]
    BY <1>4, <1>l DEF StampState, Known
  <2> HIDE DEF c
  <2>2. ThreadKnown(t)'
    BY <1>4, <1>l, ThreadsStayKnown DEF StampState
  <2>3. /\ [t EXCEPT !.pc = "report", !.saved = c].msg = t.msg
        /\ [t EXCEPT !.pc = "report", !.saved = c].saved = c
    BY ThreadParts
  <2>4. \A u \in threads' \ threads : ThreadKnown(u)'
    BY <2>1, <2>2, <2>3 DEF Keep, ThreadKnown, MessageKnown, Known
  <2>5. QED
    BY <1>4, <1>l, <2>4, StepKnown DEF CheckMarker, StampState
<1>5. CASE CheckMarker(t) /\ DuplicateMarker(t)
  BY <1>5, <1>g, StepKnown DEF CheckMarker, DuplicateMarker, Finish
<1>6. CASE ReportState(t)
  <2>1. \A m \in net' \ net : m.clock = t.saved /\ m.vc = clock[t.msg.to]
    BY <1>6, MsgKnown DEF ReportState
  <2>2. \A m \in net' \ net : MessageKnown(m)'
    BY <1>6, <1>g, <1>t, <2>1 DEF ReportState, MessageKnown
  <2>3. QED
    BY <1>6, <1>g, <2>2, StepKnown DEF ReportState, Finish
<1>7. QED
  BY <1>2, <1>3, <1>4, <1>5, <1>6 DEF RunnerStep, CheckMarker

\* No clock of the system, wherever it is kept, knows of an event that has not
\* happened: messages may be lost, overtake each other and be handled by any
\* number of threads.
THEOREM KnowledgeIsPast == Spec => []ClocksKnownOnly
<1> DEFINE IInv == TypeOK /\ ClocksKnownOnly
<1>1. Init => IInv
  BY TypeInit, KnownInit
<1>2. IInv /\ [Next]_vars => IInv'
  <2> SUFFICES ASSUME TypeOK, ClocksKnownOnly, [Next]_vars
               PROVE  TypeOK' /\ ClocksKnownOnly'
    OBVIOUS
  <2>1. TypeOK'
    BY TypeStep
  <2>2. CASE Command \/ MainStep
    BY <2>1, <2>2, KnownMain
  <2>3. CASE Arrival \/ Failure
    BY <2>1, <2>3, KnownArrival
  <2>4. CASE HandlerStep
    BY <2>1, <2>4, KnownCoordinatorStep, KnownRestaurantStep, KnownRunnerStep
       DEF HandlerStep
  <2>5. CASE UNCHANGED vars
    <3>1. Grows /\ \A q \in Proc : Known(clock[q])'
      BY <2>5 DEF vars, Grows, TypeOK, Clock, ClocksKnownOnly, Known
    <3>2. QED
      BY <2>1, <2>5, <3>1, StepKnown DEF vars, coordinatorVars
  <2>6. QED
    BY <2>1, <2>2, <2>3, <2>4, <2>5 DEF Next
<1>3. QED
  BY <1>1, <1>2, PTL DEF Spec

----------------------------------------------------------------------------
(* What is outstanding shrinks.                                            *)

\* The steps left for a set of what can be outstanding; Work is that of all.
TasksOf(H) == {xi \in H \X (1 .. 17) : xi[2] <= StepsLeft(xi[1])}

TasksOfOne(x) == {x} \X (1 .. StepsLeft(x))

\* A single one has its number of steps.
LEMMA TasksCounted ==
    ASSUME NEW x, StepsLeft(x) \in 0 .. 17
    PROVE  IsFiniteSet(TasksOfOne(x)) /\ Cardinality(TasksOfOne(x)) = StepsLeft(x)
<1> DEFINE n == StepsLeft(x)
<1>1. n \in Nat /\ n \in Int /\ 1 \in Int
  OBVIOUS
<1>2. /\ IsFiniteSet(1 .. n)
      /\ Cardinality(1 .. n) = IF 1 > n THEN 0 ELSE n - 1 + 1
  BY <1>1, FS_Interval, Zenon
<1>3. Cardinality(1 .. n) = n
  BY <1>1, <1>2
<1>4. IsFiniteSet({x}) /\ Cardinality({x}) = 1
  BY FS_Singleton
<1>5. /\ IsFiniteSet({x} \X (1 .. n))
      /\ Cardinality({x} \X (1 .. n)) = Cardinality({x}) * Cardinality(1 .. n)
  BY <1>2, <1>4, FS_Product
<1>6. QED
  BY <1>1, <1>3, <1>4, <1>5 DEF TasksOfOne

\* If one of a finite set is gone, and at most two others have come that have
\* fewer steps left between them, then fewer steps are left in all.
LEMMA TasksReplaced ==
    ASSUME NEW H, IsFiniteSet(H), NEW x \in H, NEW a, NEW b,
           NEW G, G \subseteq (H \ {x}) \cup {a, b},
           StepsLeft(x) \in 0 .. 17, StepsLeft(a) \in 0 .. 17, StepsLeft(b) \in 0 .. 17,
           StepsLeft(a) + StepsLeft(b) < StepsLeft(x)
    PROVE  IsFiniteSet(G) /\ Cardinality(TasksOf(G)) < Cardinality(TasksOf(H))
<1> DEFINE old == TasksOf(H)
           rest == old \ TasksOfOne(x)
           new == TasksOfOne(a) \cup TasksOfOne(b)
<1>1. IsFiniteSet(G)
  <2>1. IsFiniteSet(H \ {x})
    BY FS_RemoveElement
  <2>2. IsFiniteSet((H \ {x}) \cup {a})
    BY <2>1, FS_AddElement
  <2>3. IsFiniteSet(((H \ {x}) \cup {a}) \cup {b})
    BY <2>2, FS_AddElement
  <2>4. G \in SUBSET (((H \ {x}) \cup {a}) \cup {b})
    OBVIOUS
  <2>5. QED
    BY <2>3, <2>4, FS_Subset
<1>2. IsFiniteSet(old) /\ Cardinality(old) \in Nat
  <2>1. IsFiniteSet(1 .. 17)
    <3>1. 1 \in Int /\ 17 \in Int
      OBVIOUS
    <3>2. QED
      BY <3>1, FS_Interval, Zenon
  <2>2. IsFiniteSet(H \X (1 .. 17))
    BY <2>1, FS_Product
  <2>3. old \in SUBSET (H \X (1 .. 17))
    BY DEF TasksOf
  <2>4. QED
    BY <2>2, <2>3, FS_Subset, FS_CardinalityType
<1>3. old \cap TasksOfOne(x) = TasksOfOne(x)
  BY DEF TasksOf, TasksOfOne
<1>4. IsFiniteSet(rest) /\ Cardinality(rest) = Cardinality(old) - StepsLeft(x)
  <2>1. /\ IsFiniteSet(rest)
        /\ Cardinality(rest) = Cardinality(old) - Cardinality(old \cap TasksOfOne(x))
    BY <1>2, FS_Difference
  <2>2. QED
    BY <1>3, <2>1, TasksCounted
<1>5. IsFiniteSet(new) /\ Cardinality(new) <= StepsLeft(a) + StepsLeft(b)
  <2>1. /\ IsFiniteSet(TasksOfOne(a)) /\ Cardinality(TasksOfOne(a)) = StepsLeft(a)
        /\ IsFiniteSet(TasksOfOne(b)) /\ Cardinality(TasksOfOne(b)) = StepsLeft(b)
    BY TasksCounted
  <2>2. /\ IsFiniteSet(new)
        /\ Cardinality(new) = Cardinality(TasksOfOne(a)) + Cardinality(TasksOfOne(b))
                                - Cardinality(TasksOfOne(a) \cap TasksOfOne(b))
    BY <2>1, FS_Union
  <2>3. Cardinality(TasksOfOne(a) \cap TasksOfOne(b)) \in Nat
    BY <2>1, FS_Intersection, FS_CardinalityType
  <2>4. QED
    BY <2>1, <2>2, <2>3
<1>6. TasksOf(G) \subseteq rest \cup new
  <2> SUFFICES ASSUME NEW xi \in TasksOf(G) PROVE xi \in rest \cup new
    OBVIOUS
  <2>1. PICK g \in G, i \in 1 .. 17 : xi = <<g, i>> /\ i <= StepsLeft(g)
    BY DEF TasksOf
  <2>2. CASE g \in {a, b}
    <3>1. i \in 1 .. StepsLeft(g)
      BY <2>1, <2>2
    <3>2. QED
      BY <2>1, <2>2, <3>1 DEF TasksOfOne
  <2>3. CASE g \in H \ {x}
    BY <2>1, <2>3 DEF TasksOf, TasksOfOne
  <2>4. QED
    BY <2>1, <2>2, <2>3
<1>7. /\ IsFiniteSet(rest \cup new)
      /\ Cardinality(rest \cup new) = Cardinality(rest) + Cardinality(new)
                                        - Cardinality(rest \cap new)
  BY <1>4, <1>5, FS_Union
<1>8. Cardinality(rest \cap new) \in Nat /\ Cardinality(new) \in Nat
  BY <1>4, <1>5, FS_Intersection, FS_CardinalityType
<1>9. Cardinality(TasksOf(G)) \in Nat /\ Cardinality(TasksOf(G)) <= Cardinality(rest \cup new)
  <2>1. TasksOf(G) \in SUBSET (rest \cup new)
    BY <1>6
  <2>2. QED
    BY <1>7, <2>1, FS_Subset, FS_CardinalityType
<1>10. StepsLeft(x) \in Nat /\ StepsLeft(a) \in Nat /\ StepsLeft(b) \in Nat
  OBVIOUS
<1> HIDE DEF rest, new, old
<1>11. Cardinality(TasksOf(G)) < Cardinality(old)
  BY <1>2, <1>4, <1>5, <1>7, <1>8, <1>9, <1>10
<1>12. QED
  BY <1>1, <1>11 DEF old

----------------------------------------------------------------------------
(* The kinds of things that are outstanding.                               *)

FiniteInv == IsFiniteSet(Outstanding)

\* The numbers of steps left.
LEMMA StepsCounted ==
    /\ \A m : /\ StepsLeft(<<"message", m>>) = MessageSteps(m)
              /\ MessageSteps(m) \in 0 .. 17
    /\ \A t : /\ StepsLeft(<<"thread", t>>) = ThreadSteps(t)
              /\ t.pc \in ThreadPc => ThreadSteps(t) \in 0 .. 17
    /\ \A y : StepsLeft(<<"main", y>>) = MainSteps[y.pc]
    /\ StepsLeft(<<"main", Menu>>) = 0
    /\ \A v : StepsLeft(<<"view", v>>) = 1
<1>1. \A m : MessageSteps(m) \in 0 .. 17
  BY DEF MessageSteps
<1>2. \A t : t.pc \in ThreadPc => ThreadSteps(t) \in 0 .. 17
  BY DEF ThreadSteps, StepsFrom, ThreadPc, CookingPc, DeliveringPc, MarkerPc,
         RunnerMarkerPc, StatePc
<1>3. MainSteps[Menu.pc] = 0
  BY DEF MainSteps, Menu
<1>4. QED
  BY <1>1, <1>2, <1>3 DEF StepsLeft

Shrinks == FiniteInv' /\ Cardinality(Work') < Cardinality(Work)

\* A step that replaces one of them by others that have fewer steps left.
LEMMA Replaced ==
    ASSUME FiniteInv, NEW x \in Outstanding, NEW a, NEW b,
           Outstanding' \subseteq (Outstanding \ {x}) \cup {a, b},
           StepsLeft(x) \in 0 .. 17, StepsLeft(a) \in 0 .. 17, StepsLeft(b) \in 0 .. 17,
           StepsLeft(a) + StepsLeft(b) < StepsLeft(x)
    PROVE  Shrinks
<1>1. Work = TasksOf(Outstanding) /\ Work' = TasksOf(Outstanding')
  BY DEF Work, TasksOf
<1>2. IsFiniteSet(Outstanding)
  BY DEF FiniteInv
<1>3. /\ IsFiniteSet(Outstanding')
      /\ Cardinality(TasksOf(Outstanding')) < Cardinality(TasksOf(Outstanding))
  BY <1>2, TasksReplaced
<1>4. QED
  BY <1>1, <1>3 DEF Shrinks, FiniteInv

\* A message becomes a thread with fewer steps, or is lost.
LEMMA MessageGone ==
    ASSUME FiniteInv, NEW m \in net, net' = net \ {m}, main' = main,
           NEW u, threads' = threads \/ threads' = threads \cup {u},
           u.pc \in ThreadPc, ThreadSteps(u) < MessageSteps(m)
    PROVE  Shrinks
<1> DEFINE x == <<"message", m>>
           a == <<"thread", u>>
           b == <<"main", Menu>>
<1>1. x \in Outstanding /\ Outstanding' \subseteq (Outstanding \ {x}) \cup {a, b}
  BY DEF Outstanding, ToView
<1>2. StepsLeft(x) = MessageSteps(m) /\ StepsLeft(a) = ThreadSteps(u) /\ StepsLeft(b) = 0
  BY StepsCounted
<1>3. MessageSteps(m) \in 0 .. 17 /\ ThreadSteps(u) \in 0 .. 17
  BY StepsCounted
<1> HIDE DEF x, a, b
<1>4. QED
  BY <1>1, <1>2, <1>3, Replaced

\* A thread that goes on.
LEMMA ThreadGoesOn ==
    ASSUME FiniteInv, NEW t \in threads, t.pc \in ThreadPc, main' = main,
           NEW u, threads' = (threads \ {t}) \cup {u}, u.pc \in ThreadPc, net' = net, ThreadSteps(u) < ThreadSteps(t)
    PROVE  Shrinks
<1> DEFINE x == <<"thread", t>>
           a == <<"thread", u>>
           b == <<"main", Menu>>
<1>1. x \in Outstanding /\ Outstanding' \subseteq (Outstanding \ {x}) \cup {a, b}
  BY DEF Outstanding, ToView
<1>2. StepsLeft(x) = ThreadSteps(t) /\ StepsLeft(a) = ThreadSteps(u) /\ StepsLeft(b) = 0
  BY StepsCounted
<1>3. ThreadSteps(t) \in 0 .. 17 /\ ThreadSteps(u) \in 0 .. 17
  BY StepsCounted
<1> HIDE DEF x, a, b
<1>4. QED
  BY <1>1, <1>2, <1>3, Replaced

\* A thread that ends.
LEMMA ThreadEnds ==
    ASSUME FiniteInv, NEW t \in threads, t.pc \in ThreadPc, main' = main,
           threads' = threads \ {t}, net' = net, 0 < ThreadSteps(t)
    PROVE  Shrinks
<1> DEFINE x == <<"thread", t>>
           b == <<"main", Menu>>
<1>1. x \in Outstanding /\ Outstanding' \subseteq (Outstanding \ {x}) \cup {b, b}
  BY DEF Outstanding, ToView
<1>2. StepsLeft(x) = ThreadSteps(t) /\ StepsLeft(b) = 0 /\ ThreadSteps(t) \in 0 .. 17
  BY StepsCounted
<1> HIDE DEF x, b
<1>3. QED
  BY <1>1, <1>2, Replaced

\* A thread that sends a message and ends.
LEMMA ThreadSends ==
    ASSUME FiniteInv, NEW t \in threads, t.pc \in ThreadPc, main' = main,
           threads' = threads \ {t}, NEW m, net' = net \cup {m},
           MessageSteps(m) < ThreadSteps(t)
    PROVE  Shrinks
<1> DEFINE x == <<"thread", t>>
           a == <<"message", m>>
           b == <<"main", Menu>>
<1>1. x \in Outstanding /\ Outstanding' \subseteq (Outstanding \ {x}) \cup {a, b}
  BY DEF Outstanding, ToView
<1>2. StepsLeft(x) = ThreadSteps(t) /\ StepsLeft(a) = MessageSteps(m) /\ StepsLeft(b) = 0
  BY StepsCounted
<1>3. ThreadSteps(t) \in 0 .. 17 /\ MessageSteps(m) \in 0 .. 17
  BY StepsCounted
<1> HIDE DEF x, a, b
<1>4. QED
  BY <1>1, <1>2, <1>3, Replaced

\* A thread that sends a message and goes on.
LEMMA ThreadForwards ==
    ASSUME FiniteInv, NEW t \in threads, t.pc \in ThreadPc, main' = main,
           NEW u, threads' = (threads \ {t}) \cup {u}, u.pc \in ThreadPc,
           NEW m, net' = net \cup {m},
           MessageSteps(m) + ThreadSteps(u) < ThreadSteps(t)
    PROVE  Shrinks
<1> DEFINE x == <<"thread", t>>
           a == <<"message", m>>
           b == <<"thread", u>>
<1>1. x \in Outstanding /\ Outstanding' \subseteq (Outstanding \ {x}) \cup {a, b}
  BY DEF Outstanding, ToView
<1>2. StepsLeft(x) = ThreadSteps(t) /\ StepsLeft(a) = MessageSteps(m)
        /\ StepsLeft(b) = ThreadSteps(u)
  BY StepsCounted
<1>3. ThreadSteps(t) \in 0 .. 17 /\ MessageSteps(m) \in 0 .. 17 /\ ThreadSteps(u) \in 0 .. 17
  BY StepsCounted
<1> HIDE DEF x, a, b
<1>4. QED
  BY <1>1, <1>2, <1>3, Replaced

----------------------------------------------------------------------------
(* The steps.                                                              *)

\* The steps left at each step of a handler.
LEMMA StepsAt ==
    ASSUME NEW t
    PROVE  /\ t.pc = "handle" => ThreadSteps(t) = 12
           /\ t.pc = "confirm" => ThreadSteps(t) = 11
           /\ t.pc = "prepare" => ThreadSteps(t) = 10
           /\ t.pc = "ready" => ThreadSteps(t) = 9
           /\ t.pc = "handover" => ThreadSteps(t) = IF t.msg.to \in Restaurants THEN 8 ELSE 3
           /\ t.pc = "pickup" => ThreadSteps(t) = 6
           /\ t.pc = "transit" => ThreadSteps(t) = 5
           /\ t.pc = "deliver" => ThreadSteps(t) = 4
           /\ t.pc = "acknowledge" => ThreadSteps(t) = 1
           /\ t.pc = "record" => ThreadSteps(t) = 16
           /\ t.pc = "forward" => ThreadSteps(t) = 15
           /\ t.pc = "close" => ThreadSteps(t) = 7
           /\ t.pc = "check" => ThreadSteps(t) = 6
           /\ t.pc = "report" => ThreadSteps(t) = IF t.msg.to \in Restaurants THEN 6 ELSE 5
           /\ t.pc = "release" => ThreadSteps(t) = 1
           /\ t.pc = "store" => ThreadSteps(t) = 3
           /\ t.pc = "count" => ThreadSteps(t) = 2
           /\ t.pc = "verify" => ThreadSteps(t) = 1
BY DEF ThreadSteps, StepsFrom

\* The steps left for the messages that the programs build.
LEMMA StepsOfMsg ==
    ASSUME NEW from, NEW to, NEW c, NEW id, NEW v
    PROVE  /\ MessageSteps(Msg("ORDER", from, to, c, id, v)) = 13
           /\ MessageSteps(Msg("STATE", from, to, c, id, v)) = 4
           /\ to \in Runners => /\ MessageSteps(Msg("DELIVERY", from, to, c, id, v)) = 7
                                /\ MessageSteps(Msg("MARKER", from, to, c, id, v)) = 7
           /\ to = P0 => MessageSteps(Msg("DELIVERY", from, to, c, id, v)) = 2
<1>1. to \in Runners => to # P0 /\ to \notin Restaurants
  BY TopologyAssumption
<1>2. QED
  BY <1>1 DEF MessageSteps, Msg

\* The parts of a thread after a step, and of a new one.
LEMMA NextParts ==
    ASSUME TypeOK, NEW t \in threads, NEW pc, NEW c
    PROVE  /\ [t EXCEPT !.pc = pc].pc = pc /\ [t EXCEPT !.pc = pc].msg = t.msg
           /\ [t EXCEPT !.pc = pc, !.saved = c].pc = pc
           /\ [t EXCEPT !.pc = pc, !.saved = c].msg = t.msg
<1>1. t = [msg |-> t.msg, pc |-> t.pc, saved |-> t.saved]
  BY ThreadParts
<1>2. QED
  BY <1>1

\* Every step of a handler has a name.
LEMMA Pcs ==
    /\ {"handle", "confirm", "prepare", "ready", "handover"} \subseteq ThreadPc
    /\ {"pickup", "transit", "deliver", "acknowledge"} \subseteq ThreadPc
    /\ {"record", "forward", "close", "check", "report", "release"} \subseteq ThreadPc
    /\ {"store", "count", "verify"} \subseteq ThreadPc
BY DEF ThreadPc, CookingPc, DeliveringPc, MarkerPc, RunnerMarkerPc, StatePc

\* P0's main thread.
LEMMA MainShrinks ==
    ASSUME TypeOK, FiniteInv, MainStep
    PROVE  Shrinks
<1> DEFINE x == <<"main", main>>
           b == <<"main", Menu>>
<1>1. x \in Outstanding
  BY DEF Outstanding, ToView
<1>2. StepsLeft(x) = MainSteps[main.pc] /\ StepsLeft(b) = 0
  BY StepsCounted
<1>3. CASE DispatchOrder
  <2> DEFINE m == Msg("ORDER", P0, main.to, clock'[P0], main.id, ZeroClock)
             a == <<"message", m>>
  <2>1. main.pc = "dispatch" /\ net' = net \cup {m} /\ main' = Menu /\ threads' = threads
    BY <1>3 DEF DispatchOrder
  <2>2. MainSteps[main.pc] = 14
    BY <2>1 DEF MainSteps
  <2>3. StepsLeft(a) = 13
    BY StepsCounted, StepsOfMsg
  <2> HIDE DEF m
  <2>4. Outstanding' \subseteq (Outstanding \ {x}) \cup {a, b}
    <3>1. Outstanding' \subseteq Outstanding \cup {a, b}
      BY <2>1 DEF Outstanding, ToView, Menu
    <3>2. x \in Outstanding' => x = b
      BY <2>1 DEF Outstanding, ToView
    <3>3. QED
      BY <3>1, <3>2
  <2> HIDE DEF x, a, b
  <2>5. QED
    BY <1>1, <1>2, <2>2, <2>3, <2>4, Replaced
<1>4. CASE RecordOwnState
  <2> DEFINE a == <<"main", main'>>
  <2>1. /\ main.pc = "record" /\ main'.pc = "store"
        /\ net' = net /\ threads' = threads
    BY <1>4 DEF RecordOwnState
  <2>2. MainSteps[main.pc] = 2 /\ StepsLeft(a) = 1
    BY <2>1, StepsCounted DEF MainSteps
  <2>3. Outstanding' \subseteq (Outstanding \ {x}) \cup {a, b}
    <3>1. Outstanding' \subseteq Outstanding \cup {a}
      BY <2>1 DEF Outstanding, ToView
    <3>2. x \in Outstanding' => x = a
      BY <2>1 DEF Outstanding, ToView
    <3>3. QED
      BY <3>1, <3>2
  <2> HIDE DEF x, a, b
  <2>4. QED
    BY <1>1, <1>2, <2>2, <2>3, Replaced
<1>5. CASE StoreOwnState
  <2>1. main.pc = "store" /\ net' = net /\ main' = Menu /\ threads' = threads
    BY <1>5 DEF StoreOwnState
  <2>2. MainSteps[main.pc] = 1
    BY <2>1 DEF MainSteps
  <2>3. Outstanding' \subseteq (Outstanding \ {x}) \cup {b, b}
    <3>1. Outstanding' \subseteq Outstanding \cup {b}
      BY <2>1 DEF Outstanding, ToView, Menu
    <3>2. x \in Outstanding' => x = b
      BY <2>1 DEF Outstanding, ToView
    <3>3. QED
      BY <3>1, <3>2
  <2> HIDE DEF x, b
  <2>4. QED
    BY <1>1, <1>2, <2>2, <2>3, Replaced
<1>6. ASSUME NEW s \in Snapshots, CheckViewed(s) PROVE Shrinks
  <2> DEFINE y == <<"view", s>>
             a == <<"main", main'>>
  <2>1. /\ main.pc = "view" /\ s \in main.left
        /\ net' = net /\ threads' = threads
        /\ main' = IF main.left = {s} THEN Menu ELSE [main EXCEPT !.left = @ \ {s}]
    BY <1>6 DEF CheckViewed
  <2>2. main \in [pc : {"view"}, left : SUBSET Snapshots]
    BY <2>1 DEF TypeOK, MainState, Menu
  <2>3. ToView = main.left /\ ToView' = main.left \ {s} /\ main'.pc \in {"menu", "view"}
    BY <2>1, <2>2 DEF ToView, Menu
  <2>4. y \in Outstanding
    BY <2>1, <2>3 DEF Outstanding
  <2>5. StepsLeft(y) = 1 /\ StepsLeft(a) = 0
    BY <2>3, StepsCounted DEF MainSteps
  <2>6. Outstanding' \subseteq (Outstanding \ {y}) \cup {a, b}
    <3>1. Outstanding' \subseteq Outstanding \cup {a}
      BY <2>1, <2>3 DEF Outstanding
    <3>2. y \notin Outstanding'
      BY <2>3 DEF Outstanding
    <3>3. QED
      BY <3>1, <3>2
  <2> HIDE DEF y, a, b
  <2>7. QED
    BY <1>2, <2>4, <2>5, <2>6, Replaced
<1>7. QED
  BY <1>3, <1>4, <1>5, <1>6 DEF MainStep

\* The receipt of a message, and its loss.
LEMMA MessageShrinks ==
    ASSUME TypeOK, FiniteInv, Arrival \/ Failure
    PROVE  Shrinks
<1> USE DEF coordinatorVars
<1>1. ASSUME NEW m \in net, NEW pc \in ThreadPc,
             net' = net \ {m}, threads' = threads \cup {NewThread(m, pc)}, main' = main,
             ThreadSteps(NewThread(m, pc)) < MessageSteps(m)
      PROVE  Shrinks
  <2>1. NewThread(m, pc).pc = pc
    BY DEF NewThread
  <2>2. QED
    BY <1>1, <2>1, MessageGone
<1>2. \A m, pc : NewThread(m, pc).pc = pc /\ NewThread(m, pc).msg = m
  BY DEF NewThread
<1>3. ASSUME NEW m \in net, ReceiveDelivery(m) PROVE Shrinks
  <2>1. MessageSteps(m) = 2
    BY <1>3 DEF ReceiveDelivery, MessageSteps
  <2>2. ThreadSteps(NewThread(m, "acknowledge")) = 1
    BY <1>2, StepsAt
  <2>3. QED
    BY <1>1, <1>3, <2>1, <2>2, Pcs DEF ReceiveDelivery, Receive
<1>4. ASSUME NEW m \in net, ReceiveState(m) PROVE Shrinks
  <2>1. MessageSteps(m) = 4
    BY <1>4 DEF ReceiveState, MessageSteps
  <2>2. ThreadSteps(NewThread(m, "store")) = 3
    BY <1>2, StepsAt
  <2>3. QED
    BY <1>1, <1>4, <2>1, <2>2, Pcs DEF ReceiveState, Receive
<1>5. ASSUME NEW m \in net, AcceptOrder(m) PROVE Shrinks
  <2>1. MessageSteps(m) = 13
    BY <1>5 DEF AcceptOrder, MessageSteps
  <2>2. ThreadSteps(NewThread(m, "handle")) = 12
    BY <1>2, StepsAt
  <2>3. QED
    BY <1>1, <1>5, <2>1, <2>2, Pcs DEF AcceptOrder
<1>6. ASSUME NEW m \in net, ReceiveMarker(m) PROVE Shrinks
  <2>1. MessageSteps(m) = 17
    BY <1>6, TopologyAssumption DEF ReceiveMarker, MessageSteps
  <2>2. ThreadSteps(NewThread(m, "record")) = 16
    BY <1>2, StepsAt
  <2>3. QED
    BY <1>1, <1>6, <2>1, <2>2, Pcs DEF ReceiveMarker, Receive
<1>7. ASSUME NEW m \in net, ReceiveHandoff(m) PROVE Shrinks
  <2>1. MessageSteps(m) = 7
    BY <1>7, TopologyAssumption DEF ReceiveHandoff, MessageSteps
  <2>2. ThreadSteps(NewThread(m, "pickup")) = 6
    BY <1>2, StepsAt
  <2>3. QED
    BY <1>1, <1>7, <2>1, <2>2, Pcs DEF ReceiveHandoff, Receive
<1>8. ASSUME NEW m \in net, ReceiveRunnerMarker(m) PROVE Shrinks
  <2>1. MessageSteps(m) = 7
    BY <1>8, TopologyAssumption DEF ReceiveRunnerMarker, MessageSteps
  <2>2. ThreadSteps(NewThread(m, "check")) = 6
    BY <1>2, StepsAt
  <2>3. QED
    BY <1>1, <1>8, <2>1, <2>2, Pcs DEF ReceiveRunnerMarker, Receive
<1>9. ASSUME NEW m \in net, Lose(m) PROVE Shrinks
  <2> DEFINE u == [msg |-> m, pc |-> "verify", saved |-> ZeroClock]
  <2>1. u.pc = "verify"
    OBVIOUS
  <2>2. ThreadSteps(u) = 1
    BY <2>1, StepsAt
  <2>3. 1 < MessageSteps(m)
    BY DEF MessageSteps
  <2>4. net' = net \ {m} /\ threads' = threads /\ main' = main
    BY <1>9 DEF Lose
  <2> HIDE DEF u
  <2>5. QED
    BY <2>1, <2>2, <2>3, <2>4, Pcs, MessageGone
<1>10. QED
  BY <1>3, <1>4, <1>5, <1>6, <1>7, <1>8, <1>9 DEF Arrival, Failure

\* The threads of P0.
LEMMA CoordinatorShrinks ==
    ASSUME TypeOK, FiniteInv, NEW t \in threads, CoordinatorStep(t)
    PROVE  Shrinks
<1> USE DEF coordinatorVars
<1>1. t.pc \in ThreadPc
  BY ThreadParts
<1>2. CASE ConfirmDelivery(t)
  <2>1. ThreadSteps(t) = 1
    BY <1>2, StepsAt DEF ConfirmDelivery
  <2>2. QED
    BY <1>1, <1>2, <2>1, ThreadEnds DEF ConfirmDelivery, Finish
<1>3. CASE HandleState(t)
  <2> DEFINE u == [t EXCEPT !.pc = "count"]
  <2>1. u.pc = "count" /\ ThreadSteps(t) = 3
    BY <1>3, NextParts, StepsAt DEF HandleState
  <2>2. ThreadSteps(u) = 2
    BY <2>1, StepsAt
  <2>3. threads' = (threads \ {t}) \cup {u} /\ net' = net /\ main' = main
    BY <1>3 DEF HandleState, Goto
  <2> HIDE DEF u
  <2>4. QED
    BY <1>1, <2>1, <2>2, <2>3, Pcs, ThreadGoesOn
<1>4. CASE CountStates(t)
  <2> DEFINE u == [t EXCEPT !.pc = "verify"]
  <2>1. u.pc = "verify" /\ ThreadSteps(t) = 2
    BY <1>4, NextParts, StepsAt DEF CountStates
  <2>2. ThreadSteps(u) = 1
    BY <2>1, StepsAt
  <2>3. \/ threads' = threads \ {t}
        \/ threads' = (threads \ {t}) \cup {u}
    BY <1>4 DEF CountStates, Goto, Finish
  <2>4. net' = net /\ main' = main
    BY <1>4 DEF CountStates
  <2> HIDE DEF u
  <2>5. CASE threads' = threads \ {t}
    BY <1>1, <2>1, <2>4, <2>5, ThreadEnds
  <2>6. CASE threads' = (threads \ {t}) \cup {u}
    BY <1>1, <2>1, <2>2, <2>4, <2>6, Pcs, ThreadGoesOn
  <2>7. QED
    BY <2>3, <2>5, <2>6
<1>5. CASE CheckSnapshotConsistency(t)
  <2>1. ThreadSteps(t) = 1
    BY <1>5, StepsAt DEF CheckSnapshotConsistency
  <2>2. QED
    BY <1>1, <1>5, <2>1, ThreadEnds DEF CheckSnapshotConsistency, Finish
<1>6. QED
  BY <1>2, <1>3, <1>4, <1>5 DEF CoordinatorStep

\* The threads of a restaurant.
LEMMA RestaurantShrinks ==
    ASSUME TypeOK, FiniteInv, NEW t \in threads, RestaurantStep(t)
    PROVE  Shrinks
<1> USE DEF coordinatorVars
<1>1. t.pc \in ThreadPc
  BY ThreadParts
<1>2. ASSUME NEW pc \in ThreadPc, NEW u, u.pc = pc, threads' = (threads \ {t}) \cup {u},
             net' = net, main' = main, ThreadSteps(u) < ThreadSteps(t)
      PROVE  Shrinks
  BY <1>1, <1>2, ThreadGoesOn
<1>3. ASSUME NEW pc, NEW next \in ThreadPc, OrderEvent(t, pc, next),
             \A u : u.pc = next /\ u.msg = t.msg => ThreadSteps(u) < ThreadSteps(t)
      PROVE  Shrinks
  <2> DEFINE u == [t EXCEPT !.pc = next]
  <2>1. u.pc = next /\ u.msg = t.msg
    BY NextParts
  <2>2. threads' = (threads \ {t}) \cup {u} /\ net' = net /\ main' = main
    BY <1>3 DEF OrderEvent, Goto
  <2> HIDE DEF u
  <2>3. QED
    BY <1>2, <1>3, <2>1, <2>2
<1>4. CASE HandleOrder(t)
  <2> DEFINE u == [t EXCEPT !.pc = "confirm"]
  <2>1. u.pc = "confirm" /\ ThreadSteps(t) = 12
    BY <1>4, NextParts, StepsAt DEF HandleOrder
  <2>2. ThreadSteps(u) = 11
    BY <2>1, StepsAt
  <2>3. threads' = (threads \ {t}) \cup {u} /\ net' = net /\ main' = main
    BY <1>4 DEF HandleOrder, Goto
  <2> HIDE DEF u
  <2>4. QED
    BY <1>2, <2>1, <2>2, <2>3, Pcs
<1>5. CASE OrderConfirmed(t)
  <2>1. ThreadSteps(t) = 11
    BY <1>5, StepsAt DEF OrderConfirmed, OrderEvent
  <2>2. \A u : u.pc = "prepare" => ThreadSteps(u) = 10
    BY StepsAt
  <2>3. QED
    BY <1>3, <1>5, <2>1, <2>2, Pcs DEF OrderConfirmed
<1>6. CASE PreparingFood(t)
  <2>1. ThreadSteps(t) = 10
    BY <1>6, StepsAt DEF PreparingFood, OrderEvent
  <2>2. \A u : u.pc = "ready" => ThreadSteps(u) = 9
    BY StepsAt
  <2>3. QED
    BY <1>3, <1>6, <2>1, <2>2, Pcs DEF PreparingFood
<1>7. CASE FoodReady(t)
  <2>1. ThreadSteps(t) = 9
    BY <1>7, StepsAt DEF FoodReady, OrderEvent
  <2>2. \A u : u.pc = "handover" => ThreadSteps(u) < 9
    BY StepsAt
  <2>3. QED
    BY <1>3, <1>7, <2>1, <2>2, Pcs DEF FoodReady
<1>8. CASE HandToRunner(t)
  <2> DEFINE m == Msg("DELIVERY", t.msg.to, Partner[t.msg.to], clock'[t.msg.to],
                      t.msg.id, ZeroClock)
  <2>1. t.msg.to \in Restaurants /\ Partner[t.msg.to] \in Runners
    BY <1>8, Roles DEF HandToRunner
  <2>2. ThreadSteps(t) = 8
    BY <1>8, StepsAt DEF HandToRunner
  <2>3. MessageSteps(m) = 7
    BY <2>1, StepsOfMsg
  <2>4. net' = net \cup {m} /\ threads' = threads \ {t} /\ main' = main
    BY <1>8 DEF HandToRunner, Finish
  <2> HIDE DEF m
  <2>5. QED
    BY <1>1, <2>2, <2>3, <2>4, ThreadSends
<1>9. CASE RecordMarker(t)
  <2>1. ThreadSteps(t) = 16 /\ net' = net /\ main' = main
    BY <1>9, StepsAt DEF RecordMarker
  <2>2. PICK pc \in {"forward", "close"} : Goto(t, pc)
    BY <1>9 DEF RecordMarker, FirstMarker, LaterMarker
  <2> DEFINE u == [t EXCEPT !.pc = pc]
  <2>3. u.pc = pc
    BY NextParts
  <2>4. ThreadSteps(u) < 16
    <3>1. u.pc = "forward" \/ u.pc = "close"
      BY <2>3
    <3> HIDE DEF u
    <3>2. QED
      BY <3>1, StepsAt
  <2>5. threads' = (threads \ {t}) \cup {u}
    BY <2>2 DEF Goto
  <2> HIDE DEF u
  <2>6. QED
    BY <1>2, <2>1, <2>3, <2>4, <2>5, Pcs
<1>10. CASE ForwardMarker(t)
  <2> DEFINE m == Msg("MARKER", t.msg.to, Partner[t.msg.to], clock'[t.msg.to],
                      t.msg.id, ZeroClock)
             u == [t EXCEPT !.pc = "close"]
  <2>1. t.pc = "forward" /\ net' = net \cup {m} /\ main' = main
          /\ threads' = (threads \ {t}) \cup {u}
    BY <1>10 DEF ForwardMarker, Goto
  <2>2. Partner[t.msg.to] \in Runners
    BY <2>1, HandlerOf, Roles
  <2>3. MessageSteps(m) = 7
    BY <2>2, StepsOfMsg
  <2>4. u.pc = "close"
    BY NextParts
  <2>5. ThreadSteps(u) = 7 /\ ThreadSteps(t) = 15
    BY <2>1, <2>4, StepsAt
  <2> HIDE DEF m, u
  <2>6. QED
    BY <1>1, <2>1, <2>3, <2>4, <2>5, Pcs, ThreadForwards
<1>11. CASE NothingToComplete(t)
  <2>1. ThreadSteps(t) = 7
    BY <1>11, StepsAt DEF NothingToComplete
  <2>2. QED
    BY <1>1, <1>11, <2>1, ThreadEnds DEF NothingToComplete, Finish
<1>12. CASE CompleteSnapshot(t)
  <2> DEFINE u == [t EXCEPT !.pc = "report", !.saved = clock[t.msg.to]]
  <2>1. u.pc = "report" /\ u.msg = t.msg /\ ThreadSteps(t) = 7
    BY <1>12, NextParts, StepsAt DEF CompleteSnapshot
  <2>0. \A v : v.pc = "report" => ThreadSteps(v) < 7
    BY StepsAt
  <2>2. ThreadSteps(u) < 7
    BY <2>0, <2>1
  <2>3. threads' = (threads \ {t}) \cup {u} /\ net' = net /\ main' = main
    BY <1>12 DEF CompleteSnapshot, Keep
  <2> HIDE DEF u
  <2>4. QED
    BY <1>2, <2>1, <2>2, <2>3, Pcs
<1>13. CASE SendState(t)
  <2> DEFINE m == Msg("STATE", t.msg.to, P0, clock'[t.msg.to], t.msg.id, t.saved)
             u == [t EXCEPT !.pc = "release"]
  <2>1. ThreadSteps(t) = 6
    BY <1>13, StepsAt DEF SendState
  <2>2. MessageSteps(m) = 4
    BY StepsOfMsg
  <2>3. net' = net \cup {m} /\ threads' = (threads \ {t}) \cup {u} /\ main' = main
    BY <1>13 DEF SendState, Goto
  <2>4. u.pc = "release"
    BY NextParts
  <2>5. ThreadSteps(u) = 1
    BY <2>4, StepsAt
  <2> HIDE DEF m, u
  <2>6. QED
    BY <1>1, <2>1, <2>2, <2>3, <2>4, <2>5, Pcs, ThreadForwards
<1>14. CASE ReleaseLock(t)
  <2>1. ThreadSteps(t) = 1
    BY <1>14, StepsAt DEF ReleaseLock
  <2>2. QED
    BY <1>1, <1>14, <2>1, ThreadEnds DEF ReleaseLock, Finish
<1>15. QED
  BY <1>4, <1>5, <1>6, <1>7, <1>8, <1>9, <1>10, <1>11, <1>12, <1>13, <1>14
     DEF RestaurantStep

\* The threads of a runner.
LEMMA RunnerShrinks ==
    ASSUME TypeOK, FiniteInv, NEW t \in threads, RunnerStep(t)
    PROVE  Shrinks
<1> USE DEF coordinatorVars
<1>1. t.pc \in ThreadPc
  BY ThreadParts
<1>2. ASSUME NEW pc, NEW next \in ThreadPc, DeliveryEvent(t, pc, next),
             \A u : u.pc = next /\ u.msg = t.msg => ThreadSteps(u) < ThreadSteps(t)
      PROVE  Shrinks
  <2> DEFINE u == [t EXCEPT !.pc = next]
  <2>1. u.pc = next /\ u.msg = t.msg
    BY NextParts
  <2>2. threads' = (threads \ {t}) \cup {u} /\ net' = net /\ main' = main
    BY <1>2 DEF DeliveryEvent, Goto
  <2> HIDE DEF u
  <2>3. QED
    BY <1>1, <1>2, <2>1, <2>2, ThreadGoesOn
<1>3. CASE PickedUp(t)
  <2>1. ThreadSteps(t) = 6
    BY <1>3, StepsAt DEF PickedUp, DeliveryEvent
  <2>2. \A u : u.pc = "transit" => ThreadSteps(u) = 5
    BY StepsAt
  <2>3. QED
    BY <1>2, <1>3, <2>1, <2>2, Pcs DEF PickedUp
<1>4. CASE InTransit(t)
  <2>1. ThreadSteps(t) = 5
    BY <1>4, StepsAt DEF InTransit, DeliveryEvent
  <2>2. \A u : u.pc = "deliver" => ThreadSteps(u) = 4
    BY StepsAt
  <2>3. QED
    BY <1>2, <1>4, <2>1, <2>2, Pcs DEF InTransit
<1>5. CASE Delivered(t)
  <2>1. t.pc = "deliver" /\ ThreadSteps(t) = 4
    BY <1>5, StepsAt DEF Delivered, DeliveryEvent
  <2>2. t.msg.to \notin Restaurants
    BY <2>1, HandlerOf, TopologyAssumption
  <2>3. \A u : u.pc = "handover" /\ u.msg = t.msg => ThreadSteps(u) = 3
    BY <2>2, StepsAt
  <2>4. QED
    BY <1>2, <1>5, <2>1, <2>3, Pcs DEF Delivered
<1>6. CASE SendDelivery(t)
  <2> DEFINE m == Msg("DELIVERY", t.msg.to, P0, clock'[t.msg.to], t.msg.id, ZeroClock)
  <2>1. t.pc = "handover" /\ t.msg.to \notin Restaurants
    BY <1>6, TopologyAssumption DEF SendDelivery
  <2>2. ThreadSteps(t) = 3 /\ MessageSteps(m) = 2
    BY <2>1, StepsAt, StepsOfMsg
  <2>3. net' = net \cup {m} /\ threads' = threads \ {t} /\ main' = main
    BY <1>6 DEF SendDelivery, Finish
  <2> HIDE DEF m
  <2>4. QED
    BY <1>1, <2>2, <2>3, ThreadSends
<1>7. CASE CheckMarker(t)
  <2>1. ThreadSteps(t) = 6 /\ net' = net /\ main' = main
    BY <1>7, StepsAt DEF CheckMarker
  <2>0. t.msg.to \notin Restaurants
    BY <1>7, HandlerOf, TopologyAssumption DEF CheckMarker
  <2>2. CASE DuplicateMarker(t)
    BY <1>1, <2>1, <2>2, ThreadEnds DEF DuplicateMarker, Finish
  <2>3. CASE StampState(t)
    <3> DEFINE u == [t EXCEPT !.pc = "report", !.saved = clock'[t.msg.to]]
    <3>1. u.pc = "report" /\ u.msg = t.msg
      BY NextParts
    <3>2. threads' = (threads \ {t}) \cup {u}
      BY <2>3 DEF StampState, Keep
    <3> HIDE DEF u
    <3>3. \A v : v.pc = "report" /\ v.msg = t.msg => ThreadSteps(v) = 5
      BY <2>0, StepsAt
    <3>4. ThreadSteps(u) = 5
      BY <3>1, <3>3
    <3>5. QED
      BY <1>1, <2>1, <3>1, <3>2, <3>4, Pcs, ThreadGoesOn
  <2>4. QED
    BY <1>7, <2>2, <2>3 DEF CheckMarker
<1>8. CASE ReportState(t)
  <2> DEFINE m == Msg("STATE", t.msg.to, P0, t.saved, t.msg.id, clock[t.msg.to])
  <2>0. t.pc = "report" /\ t.msg.to \notin Restaurants
    BY <1>8, TopologyAssumption DEF ReportState
  <2>1. ThreadSteps(t) = 5 /\ MessageSteps(m) = 4
    BY <2>0, StepsAt, StepsOfMsg
  <2>2. net' = net \cup {m} /\ threads' = threads \ {t} /\ main' = main
    BY <1>8 DEF ReportState, Finish
  <2> HIDE DEF m
  <2>3. QED
    BY <1>1, <2>1, <2>2, ThreadSends
<1>9. QED
  BY <1>3, <1>4, <1>5, <1>6, <1>7, <1>8 DEF RunnerStep

\* The snapshots of which P0 has a report are finitely many.
StoredInv == IsFiniteSet({s \in Snapshots : state_store[s] # <<>>})

\* P0 stores one report at a time.
LEMMA StoredStep ==
    ASSUME TypeOK, StoredInv, [Next]_vars
    PROVE  StoredInv'
<1> DEFINE S == {s \in Snapshots : state_store[s] # <<>>}
<1> USE DEF coordinatorVars
<1>1. \/ state_store' = state_store
      \/ \E x, e : state_store' = [state_store EXCEPT ![x] = e]
  <2>1. CASE Command \/ MainStep
    BY <2>1 DEF Command, MainStep, CreateOrder, InitiateSnapshot, ViewSnapshots,
                DispatchOrder, RecordOwnState, StoreOwnState, CheckViewed
  <2>2. CASE Arrival \/ Failure
    BY <2>2 DEF Arrival, Failure, Lose, ReceiveDelivery, ReceiveState, AcceptOrder,
                ReceiveMarker, ReceiveHandoff, ReceiveRunnerMarker
  <2>3. ASSUME NEW t \in threads, CoordinatorStep(t)
        PROVE  \/ state_store' = state_store
               \/ \E x, e : state_store' = [state_store EXCEPT ![x] = e]
    BY <2>3 DEF CoordinatorStep, ConfirmDelivery, HandleState, CountStates,
                CheckSnapshotConsistency
  <2>4. ASSUME NEW t \in threads, RestaurantStep(t) PROVE state_store' = state_store
    BY <2>4 DEF RestaurantStep, HandleOrder, OrderConfirmed, PreparingFood, FoodReady,
                OrderEvent, HandToRunner, RecordMarker, ForwardMarker,
                NothingToComplete, CompleteSnapshot, SendState, ReleaseLock
  <2>5. ASSUME NEW t \in threads, RunnerStep(t) PROVE state_store' = state_store
    BY <2>5 DEF RunnerStep, PickedUp, InTransit, Delivered, DeliveryEvent, SendDelivery,
                CheckMarker, ReportState
  <2>6. CASE UNCHANGED vars
    BY <2>6 DEF vars
  <2>7. QED
    BY <2>1, <2>2, <2>3, <2>4, <2>5, <2>6 DEF Next, HandlerStep
<1>2. \E x : S' \in SUBSET (S \cup {x})
  BY <1>1 DEF TypeOK
<1>3. PICK x : S' \in SUBSET (S \cup {x})
  BY <1>2
<1>4. IsFiniteSet(S)
  BY DEF StoredInv
<1>5. IsFiniteSet(S \cup {x})
  BY <1>4, FS_AddElement
<1>6. IsFiniteSet(S')
  BY <1>3, <1>5, FS_Subset
<1>7. QED
  BY <1>6 DEF StoredInv

\* A command adds finitely much: an order, a marker to each restaurant, or the
\* snapshots to check for the menu.
LEMMA CommandAdds ==
    ASSUME FiniteInv, StoredInv, Command
    PROVE  FiniteInv'
<1> DEFINE y == <<"main", main'>>
<1>1. IsFiniteSet(Outstanding)
  BY DEF FiniteInv
<1>2. ASSUME NEW o \in Orders, NEW r \in Restaurants, CreateOrder(o, r)
      PROVE  IsFiniteSet(Outstanding')
  <2>1. Outstanding' \in SUBSET (Outstanding \cup {y})
    BY <1>2 DEF CreateOrder, Outstanding, ToView
  <2> HIDE DEF y
  <2>2. QED
    BY <1>1, <2>1, FS_AddElement, FS_Subset
<1>3. ASSUME NEW s \in Snapshots, InitiateSnapshot(s)
      PROVE  IsFiniteSet(Outstanding')
  <2> DEFINE Marker(r) == <<"message", Msg("MARKER", P0, r, clock'[P0], s, ZeroClock)>>
             f == [r \in Restaurants |-> Marker(r)]
             T == {Marker(r) : r \in Restaurants}
  <2>1. IsFiniteSet(Restaurants)
    BY TopologyAssumption, FS_Subset
  <2>2. f \in Surjection(Restaurants, T)
    BY DEF Surjection
  <2>3. IsFiniteSet(T)
    BY <2>1, <2>2, FS_Surjection
  <2>4. Outstanding' \in SUBSET ((Outstanding \cup T) \cup {y})
    BY <1>3 DEF InitiateSnapshot, Outstanding, ToView
  <2> HIDE DEF y, T
  <2>5. IsFiniteSet(Outstanding \cup T)
    BY <1>1, <2>3, FS_Union
  <2>6. IsFiniteSet((Outstanding \cup T) \cup {y})
    BY <2>5, FS_AddElement
  <2>7. QED
    BY <2>4, <2>6, FS_Subset
<1>4. ASSUME ViewSnapshots PROVE IsFiniteSet(Outstanding')
  <2> DEFINE S == {s \in Snapshots : state_store[s] # <<>>}
             View(s) == <<"view", s>>
             f == [s \in S |-> View(s)]
             T == {View(s) : s \in S}
  <2>1. IsFiniteSet(S)
    BY DEF StoredInv
  <2>2. f \in Surjection(S, T)
    BY DEF Surjection
  <2>3. IsFiniteSet(T)
    BY <2>1, <2>2, FS_Surjection
  <2>4. Outstanding' \in SUBSET ((Outstanding \cup T) \cup {y})
    BY <1>4 DEF ViewSnapshots, Outstanding, ToView
  <2> HIDE DEF y, T
  <2>5. IsFiniteSet(Outstanding \cup T)
    BY <1>1, <2>3, FS_Union
  <2>6. IsFiniteSet((Outstanding \cup T) \cup {y})
    BY <2>5, FS_AddElement
  <2>7. QED
    BY <2>4, <2>6, FS_Subset
<1>5. QED
  BY <1>2, <1>3, <1>4 DEF Command, FiniteInv

\* Whatever happens, what is outstanding is finite, and unless the operator
\* asks for something it shrinks.
LEMMA WorkStep ==
    ASSUME TypeOK, FiniteInv, StoredInv, [Next]_vars
    PROVE  /\ FiniteInv'
           /\ Next => Command \/ Cardinality(Work') < Cardinality(Work)
<1>1. CASE Command
  BY <1>1, CommandAdds
<1>2. CASE MainStep \/ Arrival \/ HandlerStep \/ Failure
  <2>1. Shrinks
    BY <1>2, MainShrinks, MessageShrinks, CoordinatorShrinks, RestaurantShrinks,
       RunnerShrinks DEF HandlerStep
  <2>2. QED
    BY <2>1 DEF Shrinks
<1>3. CASE UNCHANGED vars /\ ~Next
  <2>1. Outstanding' = Outstanding
    BY <1>3 DEF vars, coordinatorVars, Outstanding, ToView
  <2>2. QED
    BY <1>3, <2>1 DEF FiniteInv
<1>4. QED
  BY <1>1, <1>2, <1>3 DEF Next

\* Every step but a command of the operator leaves less to be done, whatever the
\* topology and however many orders and snapshots are under way.
THEOREM WorkAlwaysShrinks == Spec => WorkShrinks
<1> DEFINE IInv == FiniteInv /\ StoredInv
<1>1. Init => IInv
  <2>1. ASSUME Init
        PROVE  /\ Outstanding = {<<"main", main>>}
               /\ {s \in Snapshots : state_store[s] # <<>>} = {}
    BY <2>1 DEF Init, Outstanding, ToView, Menu
  <2>2. IsFiniteSet({}) /\ IsFiniteSet({<<"main", main>>})
    BY FS_Singleton, FS_EmptySet
  <2>3. QED
    BY <2>1, <2>2 DEF FiniteInv, StoredInv
<1>2. Spec => []IInv
  <2>1. TypeOK /\ IInv /\ [Next]_vars => IInv'
    BY WorkStep, StoredStep
  <2>2. QED
    BY <1>1, <2>1, TypeCorrect, PTL DEF Spec
<1>3. TypeOK /\ IInv /\ [Next]_vars =>
        [Command \/ Cardinality(Work') < Cardinality(Work)]_vars
  BY WorkStep
<1>4. QED
  BY <1>2, <1>3, TypeCorrect, PTL DEF Spec, WorkShrinks

=============================================================================
