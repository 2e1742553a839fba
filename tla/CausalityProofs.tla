-------------------------- MODULE CausalityProofs --------------------------
(***************************************************************************)
(* Theorems that relate the clocks to causality: the cut of a snapshot as  *)
(* its reports show it against the cut as the messages cross it, and the   *)
(* concurrent events of the log report against the events that really      *)
(* precede one another.  They hold of every topology, with any number of   *)
(* orders and snapshots under way and any number of lost messages.         *)
(***************************************************************************)
EXTENDS SnapshotCut, RunLog, SnapshotProofs

----------------------------------------------------------------------------
(* Where messages are.                                                     *)

\* A message is in the network or handled by one thread, and the thread of a
\* state that is counted has stored it.
Placed ==
    /\ \A t \in threads : t.msg \notin net
    /\ \A t, u \in threads : t.msg = u.msg => t = u
    /\ \A t \in threads : t.pc \in {"count", "verify"} =>
          t.msg.from \in Remote /\ HasReported(t.msg.from, t.msg.id)

\* The facts about the system on which everything here rests.
Facts == TypeOK /\ OnceInv /\ ClocksKnownOnly /\ Placed

\* A new message carries a clock that its sender has just ticked, or is the
\* state of a runner.
LEMMA NetChange ==
    ASSUME TypeOK, [Next]_vars, NEW m \in net' \ net
    PROVE  \/ m.from \in Proc /\ LocalEvent(m.from) /\ m.clock = clock'[m.from]
           \/ \E t \in threads :
                 ReportState(t) /\ m = Msg("STATE", t.msg.to, P0, t.saved, t.msg.id, clock[t.msg.to])
<1>1. P0 \in Proc /\ \A t \in threads : t.msg.to \in Proc
  BY Roles, ThreadParts, MessageParts
<1>2. CASE UNCHANGED vars
  BY <1>2 DEF vars
<1>3. CASE Command \/ MainStep
  BY <1>1, <1>3 DEF Command, CreateOrder, InitiateSnapshot, ViewSnapshots, MainStep,
                    DispatchOrder, RecordOwnState, StoreOwnState, CheckViewed, Msg
<1>4. CASE Arrival \/ Failure
  BY <1>4 DEF Arrival, ReceiveDelivery, ReceiveState, AcceptOrder, ReceiveMarker,
              ReceiveHandoff, ReceiveRunnerMarker, Receive, Failure, Lose
<1>5. ASSUME NEW t \in threads, CoordinatorStep(t)
      PROVE  FALSE
  BY <1>5 DEF CoordinatorStep, ConfirmDelivery, HandleState, CountStates, CheckSnapshotConsistency
<1>6. ASSUME NEW t \in threads, RestaurantStep(t)
      PROVE  m.from \in Proc /\ LocalEvent(m.from) /\ m.clock = clock'[m.from]
  BY <1>1, <1>6 DEF RestaurantStep, HandleOrder, OrderConfirmed, PreparingFood, FoodReady,
                  OrderEvent, HandToRunner, RecordMarker, ForwardMarker, NothingToComplete,
                  CompleteSnapshot, SendState, ReleaseLock, Msg
<1>7. ASSUME NEW t \in threads, RunnerStep(t), ~ReportState(t)
      PROVE  m.from \in Proc /\ LocalEvent(m.from) /\ m.clock = clock'[m.from]
  BY <1>1, <1>7 DEF RunnerStep, PickedUp, InTransit, Delivered, DeliveryEvent, SendDelivery,
                  CheckMarker, StampState, DuplicateMarker, Msg
<1>8. ASSUME NEW t \in threads, ReportState(t)
      PROVE  m = Msg("STATE", t.msg.to, P0, t.saved, t.msg.id, clock[t.msg.to])
  BY <1>8 DEF ReportState
<1>9. QED
  BY <1>2, <1>3, <1>4, <1>5, <1>6, <1>7, <1>8 DEF Next, HandlerStep

\* How the set of threads may change.
LEMMA ThreadChange ==
    ASSUME TypeOK, [Next]_vars
    PROVE  \/ threads' = threads
           \/ \E m \in net, pc \in ThreadPc : /\ net' = net \ {m} /\ pc \notin {"count", "verify"}
                                              /\ threads' = threads \cup {NewThread(m, pc)}
           \/ \E t \in threads : threads' = threads \ {t}
           \/ \E t \in threads : \E u :
                 /\ threads' = (threads \ {t}) \cup {u} /\ u.msg = t.msg
                 /\ u.pc = "count" => HandleState(t)
                 /\ u.pc = "verify" => t.pc = "count"
<1>1. CASE UNCHANGED vars
  BY <1>1 DEF vars
<1>2. CASE Command \/ MainStep \/ Failure
  BY <1>2 DEF Command, CreateOrder, InitiateSnapshot, ViewSnapshots, MainStep, DispatchOrder,
              RecordOwnState, StoreOwnState, CheckViewed, Failure, Lose
<1>3. CASE Arrival
  BY <1>3 DEF Arrival, ReceiveDelivery, ReceiveState, AcceptOrder, ReceiveMarker,
              ReceiveHandoff, ReceiveRunnerMarker, Receive, ThreadPc, CookingPc, DeliveringPc,
              MarkerPc, RunnerMarkerPc, StatePc
<1> DEFINE Goes(t, pc) == \E u : /\ threads' = (threads \ {t}) \cup {u}
                                 /\ u.msg = t.msg /\ u.pc = pc
<1>4. \A t \in threads : \A pc : Goto(t, pc) => Goes(t, pc)
  <2> SUFFICES ASSUME NEW t \in threads, NEW pc, Goto(t, pc) PROVE Goes(t, pc)
    OBVIOUS
  <2> DEFINE u == [t EXCEPT !.pc = pc]
  <2>1. u.msg = t.msg /\ u.pc = pc
    BY ThreadParts
  <2>2. QED
    BY <2>1 DEF Goto
<1>5. \A t \in threads : \A pc, c : Keep(t, pc, c) => Goes(t, pc)
  <2> SUFFICES ASSUME NEW t \in threads, NEW pc, NEW c, Keep(t, pc, c) PROVE Goes(t, pc)
    OBVIOUS
  <2> DEFINE u == [t EXCEPT !.pc = pc, !.saved = c]
  <2>1. u.msg = t.msg /\ u.pc = pc
    BY ThreadParts
  <2>2. QED
    BY <2>1 DEF Keep
<1>6. ASSUME NEW t \in threads, CoordinatorStep(t)
      PROVE  \/ threads' = threads \ {t}
             \/ HandleState(t) /\ Goto(t, "count")
             \/ t.pc = "count" /\ Goto(t, "verify")
  BY <1>6 DEF CoordinatorStep, ConfirmDelivery, HandleState, CountStates,
              CheckSnapshotConsistency, Finish
<1>7. ASSUME NEW t \in threads, RestaurantStep(t)
      PROVE  \/ threads' = threads \ {t}
             \/ \E pc \in {"confirm", "prepare", "ready", "handover", "forward", "close", "release"} :
                   Goto(t, pc)
             \/ \E c : Keep(t, "report", c)
  BY <1>7 DEF RestaurantStep, HandleOrder, OrderConfirmed, PreparingFood, FoodReady,
                  OrderEvent, HandToRunner, RecordMarker, FirstMarker, LaterMarker, ForwardMarker,
                  NothingToComplete, CompleteSnapshot, SendState, ReleaseLock, Finish
<1>8. ASSUME NEW t \in threads, RunnerStep(t)
      PROVE  \/ threads' = threads \ {t}
             \/ \E pc \in {"transit", "deliver", "handover"} : Goto(t, pc)
             \/ \E c : Keep(t, "report", c)
  BY <1>8 DEF RunnerStep, PickedUp, InTransit, Delivered, DeliveryEvent, SendDelivery,
                  CheckMarker, StampState, DuplicateMarker, ReportState, Finish
<1> HIDE DEF Goes
<1>9. ASSUME NEW t \in threads, CoordinatorStep(t) \/ RestaurantStep(t) \/ RunnerStep(t)
      PROVE  \/ threads' = threads \ {t}
             \/ HandleState(t) /\ Goes(t, "count")
             \/ t.pc = "count" /\ Goes(t, "verify")
             \/ \E pc : pc \notin {"count", "verify"} /\ Goes(t, pc)
  <2>1. CASE CoordinatorStep(t)
    BY <1>4, <1>6, <2>1
  <2>2. CASE RestaurantStep(t)
    BY <1>4, <1>5, <1>7, <2>2
  <2>3. CASE RunnerStep(t)
    BY <1>4, <1>5, <1>8, <2>3
  <2>4. QED
    BY <1>9, <2>1, <2>2, <2>3
<1>10. QED
  BY <1>1, <1>2, <1>3, <1>9 DEF Next, HandlerStep, Goes

\* No thread handles a message that is new.
LEMMA NewMessage ==
    ASSUME Facts, [Next]_vars, NEW m \in net' \ net, NEW t \in threads
    PROVE  t.msg # m
<1> SUFFICES ASSUME t.msg = m PROVE FALSE
  OBVIOUS
<1> USE DEF Facts
<1>1. CASE m.from \in Proc /\ LocalEvent(m.from) /\ m.clock = clock'[m.from]
  <2>1. Known(t.msg.clock)
    BY DEF ClocksKnownOnly, ThreadKnown, MessageKnown
  <2>2. clock[m.from][m.from] \in Nat /\ clock'[m.from][m.from] = clock[m.from][m.from] + 1
    BY <1>1 DEF TypeOK, Clock, LocalEvent, Tick
  <2>3. m.clock[m.from] <= clock[m.from][m.from]
    BY <1>1, <2>1 DEF Known
  <2>4. QED
    BY <1>1, <2>2, <2>3
<1>2. ASSUME NEW r \in threads, ReportState(r),
             m = Msg("STATE", r.msg.to, P0, r.saved, r.msg.id, clock[r.msg.to])
      PROVE  FALSE
  <2> DEFINE p == r.msg.to
             s == r.msg.id
  <2>1. r.pc = "report" /\ p \in Remote /\ s \in Snapshots
    BY <1>2, HandlerOf DEF ReportState, Remote
  <2>2. r \in Reporters(p, s)
    BY <2>1 DEF Reporters, Carries
  <2>3. t.msg.type = "STATE" /\ t.msg.from = p /\ t.msg.id = s
    BY <1>2 DEF Msg
  <2>4. t.pc \in StatePc
    BY <2>3, ThreadParts DEF InPlace
  <2>5. t.pc # "store"
    BY <2>1, <2>2, <2>3 DEF Reporters, Carries, OnceInv, OnceFor, AtMostOne
  <2>6. HasReported(p, s)
    BY <2>3, <2>4, <2>5 DEF StatePc, Placed
  <2>7. QED
    BY <2>1, <2>2, <2>6 DEF OnceInv, OnceFor
<1>3. QED
  BY <1>1, <1>2, NetChange

\* A process that has reported has done so for good.
LEMMA ReportedStays ==
    ASSUME TypeOK, OnceInv, [Next]_vars, NEW p, NEW s \in Snapshots, HasReported(p, s)
    PROVE  HasReported(p, s)'
BY StoreChange DEF HasReported

\* Every step keeps messages in one place.
LEMMA PlacedNext == Facts /\ [Next]_vars => Placed'
<1> SUFFICES ASSUME Facts, [Next]_vars PROVE Placed'
  OBVIOUS
<1> USE DEF Facts
<1>1. \A t \in threads : t.pc \in {"count", "verify"} =>
          t.msg.from \in Remote /\ HasReported(t.msg.from, t.msg.id)'
  BY ReportedStays, HandlerOf DEF Placed, StatePc
<1>2. \A t \in threads : t.msg \notin net'
  BY NewMessage DEF Placed
<1>3. CASE threads' = threads \/ \E t \in threads : threads' = threads \ {t}
  BY <1>1, <1>2, <1>3 DEF Placed
<1>4. ASSUME NEW m \in net, NEW pc, net' = net \ {m}, pc \notin {"count", "verify"},
             threads' = threads \cup {NewThread(m, pc)}
      PROVE  Placed'
  <2> DEFINE u == NewThread(m, pc)
  <2>1. u.msg = m /\ u.pc = pc
    BY DEF NewThread
  <2>2. \A t \in threads : t.msg # m
    BY DEF Placed
  <2> HIDE DEF u
  <2>3. threads' = threads \cup {u}
    BY <1>4 DEF u
  <2>4. QED
    BY <1>1, <1>2, <1>4, <2>1, <2>2, <2>3 DEF Placed
<1>5. ASSUME NEW t \in threads, NEW u, threads' = (threads \ {t}) \cup {u}, u.msg = t.msg,
             u.pc = "count" => HandleState(t), u.pc = "verify" => t.pc = "count"
      PROVE  Placed'
  <2>1. ASSUME u.pc \in {"count", "verify"}
        PROVE  u.msg.from \in Remote /\ HasReported(u.msg.from, u.msg.id)'
    <3>1. CASE u.pc = "verify"
      BY <1>1, <1>5, <3>1
    <3>2. CASE u.pc = "count"
      <4>1. t.pc = "store" /\ t.msg.from \in Remote /\ t.msg.id \in Snapshots
            /\ t.msg.vc \in Clock /\ t.msg.from \in Proc
        BY <1>5, <3>2, HandlerOf, ThreadParts, MessageParts DEF HandleState, OnceInv, StatePc
      <4> DEFINE old == state_store[t.msg.id]
                 new == state_store'[t.msg.id]
      <4>2. new = Put(old, t.msg.from, t.msg.vc) /\ old \in Seq(Entry)
        BY <1>5, <3>2, <4>1 DEF HandleState, TypeOK, Entry
      <4> HIDE DEF old, new
      <4>3. \E i \in DOMAIN new : new[i].proc = t.msg.from
        <5>1. CASE \E i \in DOMAIN old : old[i].proc = t.msg.from
          BY <4>1, <4>2, <5>1, PutOld
        <5>2. CASE ~ \E i \in DOMAIN old : old[i].proc = t.msg.from
          BY <4>1, <4>2, <5>2, PutNew
        <5>3. QED
          BY <5>1, <5>2
      <4>4. QED
        BY <1>5, <4>1, <4>3 DEF HasReported, new
    <3>3. QED
      BY <2>1, <3>1, <3>2
  <2>2. QED
    BY <1>1, <1>2, <1>5, <2>1 DEF Placed
<1>6. QED
  BY <1>3, <1>4, <1>5, ThreadChange

\* The facts hold in every reachable state.
LEMMA FactsInvariant == Spec => []Facts
<1>1. Init => Placed
  BY DEF Init, Placed
<1>2. QED
  BY <1>1, PlacedNext, OnceInvariant, KnowledgeIsPast, PTL DEF Spec, Facts

----------------------------------------------------------------------------
(* The events of the clocks.                                               *)

\* No event happens, and nothing is stamped.
Quiet == clock' = clock /\ Stamped' \subseteq Stamped /\ ReceivedNow = {}

\* Process p counts an event of its own, in which it may stamp messages.
Local(p) ==
    LocalEvent(p) /\ Stamped' \subseteq Stamped \cup {<<p, clock'[p]>>} /\ ReceivedNow = {}

\* Message m is received.
Takes(m) ==
    /\ clock' = [clock EXCEPT ![m.to] = ClockAfterReceive(m)]
    /\ Stamped' \subseteq Stamped
    /\ ReceivedNow = {m}

\* What a step stamps is on a new message or with a thread that is new.
LEMMA StampedChange ==
    ASSUME NEW E,
           \A m \in net' \ net : SendEvent(m) \in Stamped \cup E,
           \A t \in threads' \ threads :
              /\ t.pc = "handle" => SendEvent(t.msg) \in Stamped \cup E
              /\ t.pc = "report" /\ t.msg.to \in Runners => <<t.msg.to, t.saved>> \in Stamped \cup E
    PROVE  Stamped' \subseteq Stamped \cup E
<1>1. \A m \in Pending : SendEvent(m) \in Stamped
  BY DEF Stamped
<1>2. \A m \in Pending' : SendEvent(m) \in Stamped \cup E
  BY <1>1 DEF Pending
<1>3. \A t \in threads' : t.pc = "report" /\ t.msg.to \in Runners =>
         <<t.msg.to, t.saved>> \in Stamped \cup E
  BY DEF Stamped
<1>4. QED
  BY <1>2, <1>3 DEF Stamped, SendEvent

\* Nothing is received in a step whose threads were handling their messages.
LEMMA NothingReceived ==
    ASSUME \A t \in threads' \ threads :
              t.pc = "handle" \/ \E u \in threads : u.msg = t.msg /\ u.pc # "handle"
    PROVE  ReceivedNow = {}
BY DEF ReceivedNow

\* A thread that goes on.
LEMMA Moved ==
    ASSUME TypeOK, NEW t \in threads, NEW pc, NEW c,
           \/ Goto(t, pc) /\ c = t.saved
           \/ Keep(t, pc, c)
    PROVE  \A u \in threads' \ threads : u.msg = t.msg /\ u.pc = pc /\ u.saved = c
<1> DEFINE v == [t EXCEPT !.pc = pc]
           w == [t EXCEPT !.pc = pc, !.saved = c]
<1>1. v.msg = t.msg /\ v.pc = pc /\ v.saved = t.saved
  BY ThreadParts
<1>2. w.msg = t.msg /\ w.pc = pc /\ w.saved = c
  BY ThreadParts
<1>3. QED
  BY <1>1, <1>2 DEF Goto, Keep

\* A step of a thread in which no event of a clock happens.
LEMMA QuietThread ==
    ASSUME TypeOK, NEW t \in threads, t.pc # "handle",
           UNCHANGED <<clock, net>>,
           \/ threads' = threads \ {t}
           \/ \E pc : Goto(t, pc) /\ pc \notin {"handle", "report"}
           \/ \E c : Keep(t, "report", c) /\ t.msg.to \notin Runners
    PROVE  Quiet
<1>1. \A u \in threads' \ threads :
         /\ u.msg = t.msg /\ u.pc # "handle"
         /\ u.pc = "report" => t.msg.to \notin Runners
  BY Moved
<1>2. Stamped' \subseteq Stamped \cup {}
  BY <1>1, StampedChange
<1>3. QED
  BY <1>1, <1>2, NothingReceived DEF Quiet

\* A step of a thread in which its process counts an event.
LEMMA LocalThread ==
    ASSUME TypeOK, NEW t \in threads, t.pc # "handle", LocalEvent(t.msg.to),
           \A m \in net' \ net : SendEvent(m) = <<t.msg.to, clock'[t.msg.to]>>,
           \/ threads' = threads \ {t}
           \/ \E pc : Goto(t, pc) /\ pc \notin {"handle", "report"}
           \/ Keep(t, "report", clock'[t.msg.to])
    PROVE  Local(t.msg.to)
<1> DEFINE E == {<<t.msg.to, clock'[t.msg.to]>>}
<1>1. \A u \in threads' \ threads :
         /\ u.msg = t.msg /\ u.pc # "handle"
         /\ u.pc = "report" => u.saved = clock'[t.msg.to]
  BY Moved
<1>2. Stamped' \subseteq Stamped \cup E
  <2>1. \A m \in net' \ net : SendEvent(m) \in Stamped \cup E
    OBVIOUS
  <2>2. \A u \in threads' \ threads :
           u.pc = "report" => <<u.msg.to, u.saved>> \in Stamped \cup E
    BY <1>1
  <2> HIDE DEF E
  <2>3. QED
    BY <1>1, <2>1, <2>2, StampedChange
<1>3. QED
  BY <1>1, <1>2, NothingReceived DEF Local

\* The steps of P0's main thread.
LEMMA MainEvents ==
    ASSUME TypeOK, Command \/ MainStep
    PROVE  Quiet \/ Local(P0)
<1>1. ASSUME threads' = threads, LocalEvent(P0),
             \A m \in net' \ net : SendEvent(m) = <<P0, clock'[P0]>>
      PROVE  Local(P0)
  <2>1. Stamped' \subseteq Stamped \cup {<<P0, clock'[P0]>>}
    BY <1>1, StampedChange
  <2>2. QED
    BY <1>1, <2>1, NothingReceived DEF Local
<1>2. CASE \/ \E o \in Orders, r \in Restaurants : CreateOrder(o, r)
           \/ \E s \in Snapshots : InitiateSnapshot(s)
           \/ DispatchOrder
  <2>1. threads' = threads /\ LocalEvent(P0)
    BY <1>2 DEF CreateOrder, InitiateSnapshot, DispatchOrder
  <2>2. \A m \in net' \ net : SendEvent(m) = <<P0, clock'[P0]>>
    BY <1>2 DEF CreateOrder, InitiateSnapshot, DispatchOrder, SendEvent, Msg
  <2>3. QED
    BY <1>1, <2>1, <2>2
<1>3. CASE RecordOwnState \/ StoreOwnState \/ ViewSnapshots \/ \E s \in Snapshots : CheckViewed(s)
  <2>1. UNCHANGED <<clock, net, threads>>
    BY <1>3 DEF RecordOwnState, StoreOwnState, ViewSnapshots, CheckViewed
  <2>2. Stamped' \subseteq Stamped \cup {}
    BY <2>1, StampedChange
  <2>3. QED
    BY <2>1, <2>2, NothingReceived DEF Quiet
<1>4. QED
  BY <1>2, <1>3 DEF Command, MainStep

\* The arrival of a message, and its loss.
LEMMA ArrivalEvents ==
    ASSUME Facts, Arrival \/ Failure
    PROVE  Quiet \/ \E m \in Pending : Takes(m)
<1>1. ASSUME NEW m \in net, NEW pc, Receive(m, pc), pc \notin {"handle", "report"}
      PROVE  Takes(m) /\ m \in Pending
  <2> DEFINE n == NewThread(m, pc)
  <2>1. n.msg = m /\ n.pc = pc
    BY DEF NewThread
  <2>2. \A v \in threads : v.msg # m
    BY DEF Facts, Placed
  <2> HIDE DEF n
  <2>3. threads' = threads \cup {n} /\ net' = net \ {m}
        /\ clock' = [clock EXCEPT ![m.to] = ClockAfterReceive(m)]
    BY <1>1 DEF Receive, n
  <2>4. threads' \ threads = {n}
    BY <2>1, <2>2, <2>3
  <2>5. ReceivedNow = {m}
    BY <1>1, <2>1, <2>2, <2>4 DEF ReceivedNow
  <2>6. Stamped' \subseteq Stamped \cup {}
    BY <1>1, <2>1, <2>3, <2>4, StampedChange
  <2>7. QED
    BY <2>3, <2>5, <2>6 DEF Takes, Pending
<1>2. ASSUME NEW m \in net, AcceptOrder(m)
      PROVE  Quiet
  <2> DEFINE n == NewThread(m, "handle")
  <2>1. n.msg = m /\ n.pc = "handle"
    BY DEF NewThread
  <2> HIDE DEF n
  <2>2. threads' = threads \cup {n} /\ net' = net \ {m} /\ clock' = clock
    BY <1>2 DEF AcceptOrder, n
  <2>3. Stamped' \subseteq Stamped \cup {}
    <3>1. SendEvent(m) \in Stamped
      BY DEF Stamped, Pending
    <3>2. QED
      BY <2>1, <2>2, <3>1, StampedChange
  <2>4. QED
    BY <2>1, <2>2, <2>3, NothingReceived DEF Quiet
<1>3. ASSUME NEW m \in net, Lose(m)
      PROVE  Quiet
  <2>1. UNCHANGED <<clock, threads>> /\ net' \subseteq net
    BY <1>3 DEF Lose
  <2>2. Stamped' \subseteq Stamped \cup {}
    BY <2>1, StampedChange
  <2>3. QED
    BY <2>1, <2>2, NothingReceived DEF Quiet
<1>4. QED
  BY <1>1, <1>2, <1>3 DEF Arrival, Failure, ReceiveDelivery, ReceiveState, ReceiveMarker,
                          ReceiveHandoff, ReceiveRunnerMarker

\* The steps of the handlers.
LEMMA HandlerEvents ==
    ASSUME Facts, NEW t \in threads, CoordinatorStep(t) \/ RestaurantStep(t) \/ RunnerStep(t)
    PROVE  Quiet \/ Local(t.msg.to) \/ (t.msg \in Pending /\ Takes(t.msg))
<1> USE DEF Facts
<1>1. CASE ConfirmDelivery(t)
  <2>1. t.msg.to = P0 /\ t.pc = "acknowledge"
    BY <1>1, ThreadParts DEF ConfirmDelivery, InPlace, CookingPc, DeliveringPc, MarkerPc,
                             RunnerMarkerPc, StatePc
  <2>2. QED
    BY <1>1, <2>1, LocalThread DEF ConfirmDelivery, Finish
<1>2. CASE HandleState(t) \/ CountStates(t) \/ CheckSnapshotConsistency(t)
  <2>1. /\ t.pc # "handle" /\ UNCHANGED <<clock, net>>
        /\ \/ threads' = threads \ {t}
           \/ \E pc : Goto(t, pc) /\ pc \notin {"handle", "report"}
    BY <1>2 DEF HandleState, CountStates, CheckSnapshotConsistency, Finish
  <2>2. QED
    BY <2>1, QuietThread
<1>3. CASE HandleOrder(t)
  <2> DEFINE m == t.msg
  <2>1. t.pc = "handle" /\ Goto(t, "confirm") /\ net' = net
        /\ clock' = [clock EXCEPT ![m.to] = ClockAfterReceive(m)]
    BY <1>3 DEF HandleOrder
  <2>2. \A u \in threads' \ threads : u.msg = m /\ u.pc = "confirm"
    <3>1. \A u \in threads' \ threads : u.msg = t.msg /\ u.pc = "confirm" /\ u.saved = t.saved
      BY <2>1, Moved
    <3>2. QED
      BY <3>1
  <2>3. Stamped' \subseteq Stamped \cup {}
    BY <2>1, <2>2, StampedChange
  <2>4. PICK u : u \in threads' /\ u \notin threads
    <3> DEFINE v == [t EXCEPT !.pc = "confirm"]
    <3>1. v.msg = m /\ v.pc = "confirm" /\ v \in threads'
      BY <2>1, ThreadParts DEF Goto
    <3>2. v \notin threads
      BY <2>1, <3>1 DEF Placed
    <3>3. QED
      BY <3>1, <3>2
  <2>5. \A v \in threads : v.msg = m => v.pc = "handle"
    BY <2>1 DEF Placed
  <2>6. ReceivedNow = {m}
    BY <2>2, <2>4, <2>5 DEF ReceivedNow
  <2>7. m \in Pending
    BY <2>1 DEF Pending
  <2>8. QED
    BY <2>1, <2>3, <2>6, <2>7 DEF Takes
<1>4. CASE OrderConfirmed(t) \/ PreparingFood(t) \/ FoodReady(t)
           \/ PickedUp(t) \/ InTransit(t) \/ Delivered(t)
  <2>1. /\ t.pc # "handle" /\ net' = net /\ LocalEvent(t.msg.to)
        /\ \E pc : Goto(t, pc) /\ pc \notin {"handle", "report"}
    BY <1>4 DEF OrderConfirmed, PreparingFood, FoodReady, OrderEvent,
                PickedUp, InTransit, Delivered, DeliveryEvent
  <2>2. QED
    BY <2>1, LocalThread
<1>5. CASE HandToRunner(t) \/ SendDelivery(t)
  <2>1. /\ t.pc # "handle" /\ LocalEvent(t.msg.to) /\ threads' = threads \ {t}
        /\ \A m \in net' \ net : SendEvent(m) = <<t.msg.to, clock'[t.msg.to]>>
    BY <1>5 DEF HandToRunner, SendDelivery, Finish, SendEvent, Msg
  <2>2. QED
    BY <2>1, LocalThread
<1>6. CASE ForwardMarker(t) \/ SendState(t)
  <2>1. /\ t.pc # "handle" /\ LocalEvent(t.msg.to)
        /\ \E pc : Goto(t, pc) /\ pc \notin {"handle", "report"}
        /\ \A m \in net' \ net : SendEvent(m) = <<t.msg.to, clock'[t.msg.to]>>
    BY <1>6 DEF ForwardMarker, SendState, SendEvent, Msg
  <2>2. QED
    BY <2>1, LocalThread
<1>7. CASE RecordMarker(t) \/ NothingToComplete(t) \/ CompleteSnapshot(t) \/ ReleaseLock(t)
           \/ (CheckMarker(t) /\ DuplicateMarker(t))
  <2>1. CompleteSnapshot(t) => t.msg.to \notin Runners
    BY HandlerOf, TopologyAssumption DEF CompleteSnapshot
  <2>2. /\ t.pc # "handle" /\ UNCHANGED <<clock, net>>
        /\ \/ threads' = threads \ {t}
           \/ \E pc : Goto(t, pc) /\ pc \notin {"handle", "report"}
           \/ \E c : Keep(t, "report", c) /\ t.msg.to \notin Runners
    <3>1. CASE RecordMarker(t)
      BY <3>1 DEF RecordMarker, FirstMarker, LaterMarker
    <3>2. CASE CompleteSnapshot(t)
      BY <2>1, <3>2 DEF CompleteSnapshot
    <3>3. CASE NothingToComplete(t) \/ ReleaseLock(t) \/ (CheckMarker(t) /\ DuplicateMarker(t))
      BY <3>3 DEF NothingToComplete, ReleaseLock, CheckMarker, DuplicateMarker, Finish
    <3>4. QED
      BY <1>7, <3>1, <3>2, <3>3
  <2>3. QED
    BY <2>2, QuietThread
<1>8. CASE CheckMarker(t) /\ StampState(t)
  <2>1. t.pc # "handle" /\ LocalEvent(t.msg.to) /\ net' = net
        /\ Keep(t, "report", clock'[t.msg.to])
    BY <1>8 DEF CheckMarker, StampState
  <2>2. QED
    BY <2>1, LocalThread
<1>9. CASE ReportState(t)
  <2>1. t.pc = "report" /\ t.msg.to \in Runners /\ threads' = threads \ {t} /\ clock' = clock
        /\ \A m \in net' \ net : SendEvent(m) = <<t.msg.to, t.saved>>
    BY <1>9 DEF ReportState, Finish, SendEvent, Msg
  <2>2. <<t.msg.to, t.saved>> \in Stamped
    BY <2>1 DEF Stamped
  <2>3. Stamped' \subseteq Stamped \cup {}
    BY <2>1, <2>2, StampedChange
  <2>4. QED
    BY <2>1, <2>3, NothingReceived DEF Quiet
<1>10. QED
  BY <1>1, <1>2, <1>3, <1>4, <1>5, <1>6, <1>7, <1>8, <1>9
     DEF CoordinatorStep, RestaurantStep, RunnerStep, CheckMarker

\* Every step of the system is of one of the three kinds.
LEMMA Events ==
    ASSUME Facts, [Next]_vars
    PROVE  Quiet \/ (\E p \in Proc : Local(p)) \/ \E m \in Pending : Takes(m)
<1>1. CASE UNCHANGED vars
  <2>1. UNCHANGED <<clock, net, threads>>
    BY <1>1 DEF vars
  <2>2. Stamped' \subseteq Stamped \cup {}
    BY <2>1, StampedChange
  <2>3. QED
    BY <2>1, <2>2, NothingReceived DEF Quiet
<1>2. P0 \in Proc /\ \A t \in threads : t.msg.to \in Proc
  BY Roles, ThreadParts, MessageParts DEF Facts
<1>3. QED
  BY <1>1, <1>2, MainEvents, ArrivalEvents, HandlerEvents DEF Next, HandlerStep, Facts

----------------------------------------------------------------------------
(* The reports of a cut.                                                   *)

\* The clocks that process p reports for snapshot s, wherever they are kept: in
\* P0's store, in a STATE message, in the thread that is about to store it, in
\* the thread of a restaurant that is about to send it and in P0's main thread.
CutClocks(p, s) ==
    {state_store[s][i].vc : i \in {j \in DOMAIN state_store[s] : state_store[s][j].proc = p}}
    \cup {m.vc : m \in StateMsgs(p, s)}
    \cup {t.msg.vc : t \in {u \in threads : u.pc = "store" /\ u.msg.from = p /\ u.msg.id = s}}
    \cup {t.saved : t \in {u \in threads : /\ u.pc = "report" /\ u.msg.to = p /\ u.msg.id = s
                                           /\ p \in Restaurants}}
    \cup {y.vc : y \in Taken(s, p)}

RecordingOwn(s) == main.pc = "record" /\ main.id = s

StoringOwn(s) == main.pc = "store" /\ main.id = s

\* P0 reads its own state once for each time it triggers the snapshot.
MainOnce ==
    \A s \in Snapshots : triggered[s] <= 1 =>
        /\ triggered[s] = 0 => ~HasCut(P0, s) /\ ~RecordingOwn(s)
        /\ RecordingOwn(s) => ~HasCut(P0, s)

\* What an assignment to a key of the store leaves of it.
LEMMA PutEntries ==
    ASSUME NEW entries \in Seq(Entry), NEW p \in Proc, NEW v \in Clock,
           NEW new, new = Put(entries, p, v)
    PROVE  /\ \A i \in DOMAIN new : \/ new[i].proc = p /\ new[i].vc = v
                                    \/ i \in DOMAIN entries /\ new[i] = entries[i]
           /\ \E i \in DOMAIN new : new[i].proc = p
<1>1. CASE \E i \in DOMAIN entries : entries[i].proc = p
  BY <1>1, PutOld
<1>2. CASE ~ \E i \in DOMAIN entries : entries[i].proc = p
  BY <1>2, PutNew
<1>3. QED
  BY <1>1, <1>2

\* A step in which no report is sent, received or stored, and none is made but
\* that of P0.
CutQuiet ==
    /\ \A m \in net' \ net : m.type # "STATE"
    /\ \A t \in threads' \ threads : t.pc \notin {"store", "report"}
    /\ state_store' = state_store
    /\ \A r \in Restaurants : completed[r] \subseteq completed'[r]
    /\ recorded_snapshots' = recorded_snapshots

\* All other steps.
CutStep(t) ==
    \/ HandleState(t) \/ CompleteSnapshot(t) \/ (CheckMarker(t) /\ StampState(t))
    \/ SendState(t) \/ ReportState(t)

\* There are no more of them.
LEMMA CutSteps ==
    ASSUME Facts, [Next]_vars
    PROVE  CutQuiet \/ StoreOwnState \/ (\E m \in net : ReceiveState(m)) \/ \E t \in threads : CutStep(t)
<1> USE DEF Facts, coordinatorVars, recorderVars
<1>0. \A r \in Restaurants : /\ r \in Recorders /\ r # P0
                             /\ completed[r] \subseteq local_states[r]
  BY TopologyAssumption DEF OnceInv, Recorders
<1>1. CASE UNCHANGED vars
  BY <1>1 DEF vars, CutQuiet
<1>2. CASE Command \/ DispatchOrder \/ RecordOwnState \/ \E s \in Snapshots : CheckViewed(s)
  <2>1. \A r \in Restaurants : completed[r] \subseteq completed'[r]
    BY <1>0, <1>2 DEF Command, CreateOrder, InitiateSnapshot, ViewSnapshots, DispatchOrder,
                      RecordOwnState, CheckViewed, TypeOK
  <2>2. QED
    BY <1>2, <2>1 DEF Command, CreateOrder, InitiateSnapshot, ViewSnapshots, DispatchOrder,
                      RecordOwnState, CheckViewed, CutQuiet, Msg
<1>3. ASSUME NEW m \in net,
             \/ ReceiveDelivery(m) \/ AcceptOrder(m) \/ ReceiveMarker(m)
             \/ ReceiveHandoff(m) \/ ReceiveRunnerMarker(m) \/ Lose(m)
      PROVE  CutQuiet
  <2>1. \/ threads' = threads
        \/ \E pc \in {"acknowledge", "handle", "record", "pickup", "check"} :
              threads' = threads \cup {NewThread(m, pc)}
    BY <1>3 DEF ReceiveDelivery, AcceptOrder, ReceiveMarker, ReceiveHandoff,
                ReceiveRunnerMarker, Receive, Lose
  <2>2. \A t \in threads' \ threads : t.pc \notin {"store", "report"}
    BY <2>1 DEF NewThread
  <2>3. net' \subseteq net /\ UNCHANGED <<state_store, completed, recorded_snapshots>>
    BY <1>3 DEF ReceiveDelivery, AcceptOrder, ReceiveMarker, ReceiveHandoff,
                ReceiveRunnerMarker, Receive, Lose
  <2>4. QED
    BY <2>2, <2>3 DEF CutQuiet
<1>4. ASSUME NEW t \in threads, CoordinatorStep(t) \/ RestaurantStep(t) \/ RunnerStep(t),
             ~CutStep(t)
      PROVE  CutQuiet
  <2>1. \/ threads' \subseteq threads
        \/ \E pc \in {"confirm", "prepare", "ready", "handover", "forward", "close",
                      "transit", "deliver", "verify"} : Goto(t, pc)
    <3>1. CASE CoordinatorStep(t)
      BY <1>4, <3>1 DEF CoordinatorStep, CutStep, ConfirmDelivery, CountStates,
                        CheckSnapshotConsistency, Finish
    <3>2. CASE RestaurantStep(t)
      BY <1>4, <3>2 DEF RestaurantStep, CutStep, HandleOrder, OrderConfirmed, PreparingFood,
                        FoodReady, OrderEvent, HandToRunner, RecordMarker, FirstMarker,
                        LaterMarker, ForwardMarker, NothingToComplete, ReleaseLock, Finish
    <3>3. CASE RunnerStep(t)
      BY <1>4, <3>3 DEF RunnerStep, CutStep, PickedUp, InTransit, Delivered, DeliveryEvent,
                        SendDelivery, CheckMarker, DuplicateMarker, Finish
    <3>4. QED
      BY <1>4, <3>1, <3>2, <3>3
  <2>2. \A u \in threads' \ threads : u.pc \notin {"store", "report"}
    <3>1. ASSUME NEW pc, Goto(t, pc) PROVE \A u \in threads' \ threads : u.pc = pc
      BY <3>1, Moved
    <3>2. QED
      BY <2>1, <3>1
  <2>3. \A m \in net' \ net : m.type # "STATE"
    BY <1>4 DEF CoordinatorStep, CutStep, ConfirmDelivery, CountStates, CheckSnapshotConsistency,
                RestaurantStep, HandleOrder, OrderConfirmed, PreparingFood, FoodReady,
                OrderEvent, HandToRunner, RecordMarker, ForwardMarker, NothingToComplete,
                ReleaseLock, RunnerStep, PickedUp, InTransit, Delivered, DeliveryEvent, SendDelivery,
                CheckMarker, Msg
  <2>4. state_store' = state_store /\ recorded_snapshots' = recorded_snapshots
    BY <1>4 DEF CoordinatorStep, CutStep, ConfirmDelivery, CountStates, CheckSnapshotConsistency,
                RestaurantStep, HandleOrder, OrderConfirmed, PreparingFood, FoodReady,
                OrderEvent, HandToRunner, RecordMarker, ForwardMarker, NothingToComplete,
                ReleaseLock, RunnerStep, PickedUp, InTransit, Delivered, DeliveryEvent, SendDelivery,
                CheckMarker, DuplicateMarker
  <2>5. \A r \in Restaurants : completed[r] \subseteq completed'[r]
    <3>1. CASE RecordMarker(t)
      <4>1. t.msg.to \in Restaurants
        BY <3>1, HandlerOf DEF RecordMarker
      <4>2. completed' = completed
            \/ /\ t.msg.id \notin completed[t.msg.to]
               /\ completed' = [completed EXCEPT ![t.msg.to] = @ \ {t.msg.id}]
        BY <1>0, <3>1, <4>1 DEF RecordMarker, FirstMarker, LaterMarker
      <4>3. completed \in [Recorders -> SUBSET Snapshots]
        BY DEF TypeOK
      <4>4. QED
        BY <1>0, <4>1, <4>2, <4>3
    <3>2. CASE ~RecordMarker(t)
      BY <1>4, <3>2
         DEF CoordinatorStep, CutStep, ConfirmDelivery, CountStates, CheckSnapshotConsistency,
                RestaurantStep, HandleOrder, OrderConfirmed, PreparingFood, FoodReady,
                OrderEvent, HandToRunner, ForwardMarker, NothingToComplete, ReleaseLock,
                RunnerStep, PickedUp, InTransit, Delivered, DeliveryEvent, SendDelivery,
                CheckMarker
    <3>3. QED
      BY <3>1, <3>2
  <2>6. QED
    BY <2>2, <2>3, <2>4, <2>5 DEF CutQuiet
<1>5. QED
  BY <1>1, <1>2, <1>3, <1>4 DEF Next, MainStep, Arrival, Failure, HandlerStep

\* What a step adds to the reports is in a new entry, message or thread.
LEMMA CutClocksChange ==
    ASSUME NEW p, NEW s, NEW X,
           \A i \in DOMAIN state_store'[s] : state_store'[s][i].proc = p =>
              state_store'[s][i].vc \in CutClocks(p, s) \cup X,
           \A m \in net' \ net : m.type = "STATE" /\ m.from = p /\ m.id = s =>
              m.vc \in CutClocks(p, s) \cup X,
           \A t \in threads' \ threads :
              /\ t.pc = "store" /\ t.msg.from = p /\ t.msg.id = s =>
                    t.msg.vc \in CutClocks(p, s) \cup X
              /\ t.pc = "report" /\ t.msg.to = p /\ t.msg.id = s /\ p \in Restaurants =>
                    t.saved \in CutClocks(p, s) \cup X,
           \A y \in Taken(s, p)' : y.vc \in CutClocks(p, s) \cup X
    PROVE  CutClocks(p, s)' \subseteq CutClocks(p, s) \cup X
<1>1. ASSUME NEW w \in CutClocks(p, s)'
      PROVE  \/ \E i \in DOMAIN state_store'[s] :
                   state_store'[s][i].proc = p /\ w = state_store'[s][i].vc
             \/ \E m \in net' : m.type = "STATE" /\ m.from = p /\ m.id = s /\ w = m.vc
             \/ \E t \in threads' :
                   t.pc = "store" /\ t.msg.from = p /\ t.msg.id = s /\ w = t.msg.vc
             \/ \E t \in threads' :
                   /\ t.pc = "report" /\ t.msg.to = p /\ t.msg.id = s /\ p \in Restaurants
                   /\ w = t.saved
             \/ \E y \in Taken(s, p)' : w = y.vc
  BY DEF CutClocks, StateMsgs
<1>2. /\ \A m \in net : m.type = "STATE" /\ m.from = p /\ m.id = s => m.vc \in CutClocks(p, s)
      /\ \A t \in threads :
            /\ t.pc = "store" /\ t.msg.from = p /\ t.msg.id = s => t.msg.vc \in CutClocks(p, s)
            /\ t.pc = "report" /\ t.msg.to = p /\ t.msg.id = s /\ p \in Restaurants =>
                  t.saved \in CutClocks(p, s)
  BY DEF CutClocks, StateMsgs
<1>3. ASSUME NEW w \in CutClocks(p, s)' PROVE w \in CutClocks(p, s) \cup X
  BY <1>1, <1>2
<1>4. QED
  BY <1>3

\* P0 has cut when it has read its clock for a state of its own.
LEMMA OwnCut == \A s : HasCut(P0, s) <=> StoringOwn(s) \/ HasReported(P0, s)
BY TopologyAssumption DEF HasCut, HasReported, StoringOwn

\* Where a report is, there its process has cut, and the clock is known.
LEMMA CutHas ==
    ASSUME Facts, NEW p \in Proc, NEW s \in Snapshots, NEW v \in CutClocks(p, s)
    PROVE  HasCut(p, s) /\ v \in Clock /\ Known(v)
<1> USE DEF Facts
<1>1. \/ \E i \in DOMAIN state_store[s] : state_store[s][i].proc = p /\ v = state_store[s][i].vc
      \/ \E m \in net : m.type = "STATE" /\ m.from = p /\ m.id = s /\ v = m.vc
      \/ \E t \in threads : t.pc = "store" /\ t.msg.from = p /\ t.msg.id = s /\ v = t.msg.vc
      \/ \E t \in threads :
            t.pc = "report" /\ t.msg.to = p /\ t.msg.id = s /\ p \in Restaurants /\ v = t.saved
      \/ p = P0 /\ StoringOwn(s) /\ v = main.vc
  BY DEF CutClocks, StateMsgs, Taken, StoringOwn
<1>2. v \in Clock /\ Known(v)
  <2>1. \A i \in DOMAIN state_store[s] : state_store[s][i].vc \in Clock /\ Known(state_store[s][i].vc)
    <3>1. state_store[s] \in Seq(Entry)
      BY DEF TypeOK, Entry
    <3>2. \A i \in DOMAIN state_store[s] : state_store[s][i] \in Entry
      BY <3>1, ElementOfSeq, LenProperties
    <3>3. QED
      BY <3>2 DEF Entry, ClocksKnownOnly, EntriesKnown
  <2>2. \A m \in net : m.vc \in Clock /\ Known(m.vc)
    BY MessageParts DEF TypeOK, ClocksKnownOnly, MessageKnown
  <2>3. \A t \in threads : t.msg.vc \in Clock /\ Known(t.msg.vc) /\ t.saved \in Clock /\ Known(t.saved)
    BY ThreadParts, MessageParts DEF ClocksKnownOnly, ThreadKnown, MessageKnown
  <2>4. StoringOwn(s) => main.vc \in Clock /\ Known(main.vc)
    BY MainParts DEF StoringOwn, ClocksKnownOnly, MainKnown
  <2>5. QED
    BY <1>1, <2>1, <2>2, <2>3, <2>4
<1>3. HasCut(p, s)
  <2>1. CASE p = P0
    <3>1. P0 \notin Remote /\ P0 \notin Restaurants
      BY TopologyAssumption DEF Remote
    <3>2. StoringOwn(s) \/ HasReported(P0, s)
      BY <1>1, <2>1, <3>1 DEF HasReported, OnceInv
    <3>3. QED
      BY <2>1, <3>2, OwnCut
  <2>2. CASE p \in Remote
    <3>0. p # P0
      BY <2>2, TopologyAssumption DEF Remote
    <3>1. HasReported(p, s) \/ StateMsgs(p, s) # {} \/ Reporters(p, s) # {}
      BY <1>1, <3>0 DEF HasReported, StateMsgs, Reporters, Carries
    <3>2. OnceFor(p, s) /\ Committed(p, s)
      BY <2>2, <3>1 DEF OnceInv, OnceFor
    <3>3. CASE p \in Restaurants
      BY <3>2, <3>3, TopologyAssumption DEF Committed, HasCut
    <3>4. CASE p \in Runners
      <4>1. ASSUME NEW t \in threads, t.msg.to = p, t.msg.id = s, t.pc = "report"
            PROVE  FALSE
        <5>1. t \in Reporters(p, s)
          BY <4>1 DEF Reporters, Carries
        <5>2. StateMsgs(p, s) = {} /\ ~HasReported(p, s) /\ \A u \in Reporters(p, s) : u = t
          BY <3>2, <5>1 DEF OnceFor, AtMostOne
        <5>3. p \notin Restaurants
          BY <3>4, TopologyAssumption
        <5>4. PICK u \in threads : u.pc = "store" /\ u.msg.from = p /\ u.msg.id = s
          BY <1>1, <3>0, <5>2, <5>3 DEF StateMsgs, HasReported
        <5>5. u \in Reporters(p, s)
          BY <5>4 DEF Reporters, Carries
        <5>6. QED
          BY <4>1, <5>2, <5>4, <5>5
      <4>2. QED
        BY <3>2, <3>4, <4>1 DEF Committed, HasCut
    <3>5. QED
      BY <2>2, <3>3, <3>4 DEF Remote
  <2>3. QED
    BY <2>1, <2>2, TopologyAssumption DEF Remote
<1>4. QED
  BY <1>2, <1>3

\* A cut stays.
LEMMA HasCutStays ==
    ASSUME Facts, [Next]_vars, NEW p \in Proc, NEW s \in Snapshots, HasCut(p, s)
    PROVE  HasCut(p, s)'
<1> USE DEF Facts, recorderVars, coordinatorVars
<1>1. CASE p = P0
  <2>1. CASE HasReported(P0, s)
    <3>1. HasReported(P0, s)'
      BY <2>1, ReportedStays
    <3>2. QED
      BY <1>1, <3>1 DEF HasReported, HasCut
  <2>2. CASE StoringOwn(s)
    <3>1. CASE StoreOwnState
      <4>1. /\ state_store[s] \in Seq(Entry) /\ state_store \in [Snapshots -> Seq(Entry)]
            /\ main.vc \in Clock /\ P0 \in Proc
        BY <2>2, MainParts, Roles DEF StoringOwn, TypeOK, Entry
      <4>2. state_store'[s] = Put(state_store[s], P0, main.vc)
        BY <2>2, <3>1, <4>1 DEF StoreOwnState, StoringOwn
      <4>3. \E i \in DOMAIN state_store'[s] : state_store'[s][i].proc = P0
        BY <4>1, <4>2, PutEntries
      <4>4. QED
        BY <1>1, <4>3 DEF HasCut
    <3>2. CASE main' = main
      BY <1>1, <2>2, <3>2 DEF StoringOwn, HasCut
    <3>3. QED
      BY <2>2, <3>1, <3>2, MainChange DEF StoringOwn, RecordOwnState
  <2>3. QED
    BY <1>1, <2>1, <2>2, OwnCut
<1>2. CASE p \in Restaurants
  <2>1. s \in completed[p] /\ p \in Recorders /\ completed \in [Recorders -> SUBSET Snapshots]
    BY <1>2, TopologyAssumption DEF HasCut, Recorders, TypeOK
  <2>2. \A r \in Restaurants : r \in Recorders
    BY DEF Recorders
  <2>3. ASSUME NEW t \in threads, CompleteSnapshot(t) PROVE s \in completed'[p]
    <3>1. t.msg.to \in Recorders
      BY <2>2, <2>3, HandlerOf DEF CompleteSnapshot
    <3>2. completed' = [completed EXCEPT ![t.msg.to] = @ \cup {t.msg.id}]
      BY <2>3 DEF CompleteSnapshot
    <3>3. QED
      BY <2>1, <3>1, <3>2
  <2>4. ASSUME CutQuiet PROVE s \in completed'[p]
    BY <1>2, <2>1, <2>4 DEF CutQuiet
  <2>5. ASSUME StoreOwnState \/ \E m \in net : ReceiveState(m) PROVE s \in completed'[p]
    BY <2>1, <2>5 DEF StoreOwnState, ReceiveState
  <2>6. ASSUME NEW t \in threads, CutStep(t), ~CompleteSnapshot(t) PROVE s \in completed'[p]
    BY <2>1, <2>6 DEF CutStep, HandleState, CheckMarker, SendState, ReportState
  <2>7. s \in completed'[p]
    BY <2>3, <2>4, <2>5, <2>6, CutSteps
  <2>8. QED
    BY <1>2, <2>7 DEF HasCut
<1>3. CASE p \in Runners
  <2>1. /\ s \in recorded_snapshots[p] /\ recorded_snapshots \in [Runners -> SUBSET Snapshots]
        /\ \A t \in threads : t.msg.to = p /\ t.msg.id = s => t.pc # "report"
    BY <1>3, TopologyAssumption DEF HasCut, TypeOK
  <2> DEFINE Stays == /\ s \in recorded_snapshots'[p]
                      /\ \A t \in threads' \ threads : t.msg.to = p /\ t.msg.id = s => t.pc # "report"
  <2>2. ASSUME CutQuiet PROVE Stays
    BY <2>1, <2>2 DEF CutQuiet
  <2>3. ASSUME StoreOwnState \/ \E m \in net : ReceiveState(m) PROVE Stays
    BY <2>1, <2>3 DEF StoreOwnState, ReceiveState, Receive, NewThread
  <2>4. ASSUME NEW t \in threads, HandleState(t) \/ SendState(t) \/ ReportState(t) PROVE Stays
    <3>1. recorded_snapshots' = recorded_snapshots /\ (\/ Goto(t, "count") \/ Goto(t, "release")
                                                       \/ threads' \subseteq threads)
      BY <2>4 DEF HandleState, SendState, ReportState, Finish
    <3>2. \A u \in threads' \ threads : u.pc \in {"count", "release"}
      BY <3>1, Moved
    <3>3. QED
      BY <2>1, <3>1, <3>2
  <2>5. ASSUME NEW t \in threads, CompleteSnapshot(t) PROVE Stays
    <3>1. /\ recorded_snapshots' = recorded_snapshots /\ t.msg.to # p
          /\ Keep(t, "report", clock[t.msg.to])
      BY <1>3, <2>5, HandlerOf, TopologyAssumption DEF CompleteSnapshot
    <3>2. \A u \in threads' \ threads : u.msg = t.msg
      BY <3>1, Moved
    <3>3. QED
      BY <2>1, <3>1, <3>2
  <2>6. ASSUME NEW t \in threads, CheckMarker(t) /\ StampState(t) PROVE Stays
    <3>1. /\ t.msg.id \notin recorded_snapshots[t.msg.to] /\ t.msg.to \in Runners
          /\ recorded_snapshots' = [recorded_snapshots EXCEPT ![t.msg.to] = @ \cup {t.msg.id}]
          /\ Keep(t, "report", clock'[t.msg.to])
      BY <2>6, HandlerOf DEF CheckMarker, StampState
    <3>2. \A u \in threads' \ threads : u.msg = t.msg
      BY <3>1, Moved
    <3>3. QED
      BY <2>1, <3>1, <3>2
  <2>7. Stays
    BY <2>2, <2>3, <2>4, <2>5, <2>6, CutSteps DEF CutStep
  <2>8. QED
    BY <1>3, <2>1, <2>7 DEF HasCut
<1>4. QED
  BY <1>1, <1>2, <1>3, TopologyAssumption

\* A process that has cut reports no other clock, and one that cuts now reports
\* the clock that it has now.
LEMMA CutClocksStep ==
    ASSUME Facts, MainOnce, [Next]_vars, NEW p \in Proc, NEW s \in Snapshots, triggered[s] <= 1
    PROVE  \/ CutClocks(p, s)' \subseteq CutClocks(p, s)
           \/ /\ clock' = clock /\ ~HasCut(p, s)
              /\ CutClocks(p, s)' \subseteq CutClocks(p, s) \cup {clock[p]}
<1> USE DEF Facts, recorderVars, coordinatorVars
<1>0. \A i \in DOMAIN state_store[s] :
         state_store[s][i].proc = p => state_store[s][i].vc \in CutClocks(p, s)
  BY DEF CutClocks
<1>1. /\ state_store[s] \in Seq(Entry) /\ state_store \in [Snapshots -> Seq(Entry)]
      /\ P0 \in Proc /\ P0 \notin Remote /\ P0 \notin Restaurants /\ Restaurants \cap Runners = {}
  BY TopologyAssumption DEF TypeOK, Entry, Remote
<1> DEFINE Grown(X) == CutClocks(p, s)' \subseteq CutClocks(p, s) \cup X
<1>11. CASE RecordOwnState
  <2>1. /\ UNCHANGED <<clock, net, threads, state_store>>
        /\ main' = [pc |-> "store", id |-> main.id, vc |-> clock[P0]]
    BY <1>11 DEF RecordOwnState
  <2>2. CASE p = P0 /\ main.id = s
    <3>1. ~HasCut(p, s)
      BY <1>11, <2>2 DEF RecordOwnState, RecordingOwn, MainOnce
    <3>2. \A y \in Taken(s, p)' : y.vc \in CutClocks(p, s) \cup {clock[p]}
      BY <2>1, <2>2 DEF Taken
    <3>3. Grown({clock[p]})
      <4>1. UNCHANGED <<net, threads, state_store>>
        BY <2>1
      <4>2. QED
        BY <1>0, <3>2, <4>1, CutClocksChange
    <3>4. QED
      BY <2>1, <3>1, <3>3
  <2>3. CASE ~(p = P0 /\ main.id = s)
    <3>1. Taken(s, p)' = {}
      BY <2>1, <2>3 DEF Taken
    <3>2. Grown({})
      BY <1>0, <2>1, <3>1, CutClocksChange
    <3>3. QED
      BY <3>2
  <2>4. QED
    BY <2>2, <2>3
<1> SUFFICES ASSUME ~RecordOwnState
             PROVE  \/ Grown({})
                    \/ clock' = clock /\ ~HasCut(p, s) /\ Grown({clock[p]})
  BY <1>11
<1>12. \A y \in Taken(s, p)' : y.vc \in CutClocks(p, s)
  <2>1. Taken(s, p)' \subseteq Taken(s, p)
    BY MainChange DEF Taken, StoreOwnState, Menu
  <2>2. QED
    BY <2>1 DEF CutClocks
<1>2. ASSUME CutQuiet PROVE Grown({})
  BY <1>0, <1>2, <1>12, CutClocksChange DEF CutQuiet
<1>3. CASE StoreOwnState
  <2>1. /\ main.id \in Snapshots /\ main.vc \in Clock /\ UNCHANGED <<net, threads>>
        /\ state_store' = [state_store EXCEPT ![main.id] = Put(@, P0, main.vc)]
    BY <1>3, MainParts DEF StoreOwnState
  <2>2. p = P0 /\ main.id = s => main.vc \in CutClocks(p, s)
    BY <1>3 DEF StoreOwnState, CutClocks, Taken
  <2>3. \A i \in DOMAIN state_store'[s] : state_store'[s][i].proc = p =>
           state_store'[s][i].vc \in CutClocks(p, s) \cup {}
    <3>1. CASE main.id = s
      <4>1. state_store'[s] = Put(state_store[s], P0, main.vc)
        BY <1>1, <2>1, <3>1
      <4>2. \A i \in DOMAIN state_store'[s] :
               \/ state_store'[s][i].proc = P0 /\ state_store'[s][i].vc = main.vc
               \/ i \in DOMAIN state_store[s] /\ state_store'[s][i] = state_store[s][i]
        BY <1>1, <2>1, <4>1, PutEntries
      <4>3. QED
        BY <1>0, <2>2, <3>1, <4>2
    <3>2. CASE main.id # s
      BY <1>0, <1>1, <2>1, <3>2
    <3>3. QED
      BY <3>1, <3>2
  <2>4. Grown({})
    BY <1>12, <2>1, <2>3, CutClocksChange
  <2>5. QED
    BY <2>4
<1>4. ASSUME NEW m \in net, ReceiveState(m) PROVE Grown({})
  <2> DEFINE n == NewThread(m, "store")
  <2>1. n.msg = m /\ n.pc = "store"
    BY DEF NewThread
  <2> HIDE DEF n
  <2>2. /\ m.type = "STATE" /\ net' \subseteq net /\ threads' = threads \cup {n}
        /\ state_store' = state_store
    BY <1>4 DEF ReceiveState, Receive, n
  <2>3. m.from = p /\ m.id = s => m.vc \in CutClocks(p, s)
    BY <2>2 DEF CutClocks, StateMsgs
  <2>4. QED
    BY <1>0, <1>12, <2>1, <2>2, <2>3, CutClocksChange
<1>5. ASSUME NEW t \in threads, HandleState(t) PROVE Grown({})
  <2>1. /\ t.pc = "store" /\ t.msg.from \in Proc /\ t.msg.vc \in Clock /\ t.msg.id \in Snapshots
        /\ net' = net /\ Goto(t, "count")
    BY <1>5, HandlerOf, ThreadParts, MessageParts DEF HandleState, StatePc
  <2>2. \A u \in threads' \ threads : u.pc = "count"
    BY <2>1, Moved
  <2>3. t.msg.from = p /\ t.msg.id = s => t.msg.vc \in CutClocks(p, s)
    BY <2>1 DEF CutClocks
  <2>4. \A i \in DOMAIN state_store'[s] : state_store'[s][i].proc = p =>
           state_store'[s][i].vc \in CutClocks(p, s) \cup {}
    <3>1. CASE t.msg.id = s
      <4>1. state_store'[s] = Put(state_store[s], t.msg.from, t.msg.vc)
        BY <1>1, <1>5, <3>1 DEF HandleState
      <4>2. \A i \in DOMAIN state_store'[s] :
               \/ state_store'[s][i].proc = t.msg.from /\ state_store'[s][i].vc = t.msg.vc
               \/ i \in DOMAIN state_store[s] /\ state_store'[s][i] = state_store[s][i]
        BY <1>1, <2>1, <4>1, PutEntries
      <4>3. QED
        BY <1>0, <2>3, <3>1, <4>2
    <3>2. CASE t.msg.id # s
      BY <1>0, <1>1, <1>5, <2>1, <3>2 DEF HandleState
    <3>3. QED
      BY <3>1, <3>2
  <2>5. QED
    BY <1>12, <2>1, <2>2, <2>4, CutClocksChange
<1>6. ASSUME NEW t \in threads, CompleteSnapshot(t)
      PROVE  \/ Grown({})
             \/ clock' = clock /\ ~HasCut(p, s) /\ Grown({clock[p]})
  <2>1. /\ t.msg.to \in Restaurants /\ clock' = clock /\ t.msg.id \notin completed[t.msg.to]
        /\ Keep(t, "report", clock[t.msg.to]) /\ UNCHANGED <<net, state_store>>
    BY <1>6, HandlerOf DEF CompleteSnapshot
  <2>2. \A u \in threads' \ threads :
           u.msg = t.msg /\ u.pc = "report" /\ u.saved = clock[t.msg.to]
    BY <2>1, Moved
  <2>3. CASE t.msg.to = p /\ t.msg.id = s
    <3>1. ~HasCut(p, s)
      BY <1>1, <2>1, <2>3 DEF HasCut
    <3>2. Grown({clock[p]})
      <4>1. \A u \in threads' \ threads : u.pc = "report" /\ u.saved = clock[p]
        BY <2>2, <2>3
      <4>2. net' = net /\ state_store' = state_store
        BY <2>1
      <4>3. QED
        BY <1>0, <1>12, <4>1, <4>2, CutClocksChange
    <3>3. QED
      BY <2>1, <3>1, <3>2
  <2>4. CASE ~(t.msg.to = p /\ t.msg.id = s)
    BY <1>0, <1>12, <2>1, <2>2, <2>4, CutClocksChange
  <2>5. QED
    BY <2>3, <2>4
<1>7. ASSUME NEW t \in threads, CheckMarker(t) /\ StampState(t) PROVE Grown({})
  <2>1. t.msg.to \in Runners /\ Keep(t, "report", clock'[t.msg.to]) /\ UNCHANGED <<net, state_store>>
    BY <1>7, HandlerOf DEF CheckMarker, StampState
  <2>2. \A u \in threads' \ threads : u.msg = t.msg /\ u.pc = "report"
    BY <2>1, Moved
  <2>3. QED
    BY <1>0, <1>1, <1>12, <2>1, <2>2, CutClocksChange
<1>8. ASSUME NEW t \in threads, SendState(t) PROVE Grown({})
  <2>1. /\ t.msg.to \in Restaurants /\ t.pc = "report" /\ Goto(t, "release")
        /\ state_store' = state_store
    BY <1>8 DEF SendState
  <2>2. \A m \in net' \ net : m.vc = t.saved /\ m.from = t.msg.to /\ m.id = t.msg.id
    BY <1>8 DEF SendState, Msg
  <2>3. t.msg.to = p /\ t.msg.id = s => t.saved \in CutClocks(p, s)
    BY <2>1 DEF CutClocks
  <2>4. \A u \in threads' \ threads : u.pc = "release"
    BY <2>1, Moved
  <2>5. QED
    BY <1>0, <1>12, <2>1, <2>2, <2>3, <2>4, CutClocksChange
<1>9. ASSUME NEW t \in threads, ReportState(t)
      PROVE  \/ Grown({})
             \/ clock' = clock /\ ~HasCut(p, s) /\ Grown({clock[p]})
  <2>1. /\ t.msg.to \in Runners /\ t.pc = "report" /\ threads' \subseteq threads
        /\ clock' = clock /\ state_store' = state_store
    BY <1>9 DEF ReportState, Finish
  <2>2. \A m \in net' \ net : m.vc = clock[t.msg.to] /\ m.from = t.msg.to /\ m.id = t.msg.id
    BY <1>9 DEF ReportState, Msg
  <2>3. CASE t.msg.to = p /\ t.msg.id = s
    <3>1. ~HasCut(p, s)
      BY <1>1, <2>1, <2>3, TopologyAssumption DEF HasCut
    <3>2. Grown({clock[p]})
      BY <1>0, <1>12, <2>1, <2>2, <2>3, CutClocksChange
    <3>3. QED
      BY <2>1, <3>1, <3>2
  <2>4. CASE ~(t.msg.to = p /\ t.msg.id = s)
    BY <1>0, <1>12, <2>1, <2>2, <2>4, CutClocksChange
  <2>5. QED
    BY <2>3, <2>4
<1>10. QED
  BY <1>2, <1>3, <1>4, <1>5, <1>6, <1>7, <1>8, <1>9, CutSteps DEF CutStep

LEMMA OwnCutNext == \A s : HasCut(P0, s)' <=> StoringOwn(s)' \/ HasReported(P0, s)'
BY TopologyAssumption DEF HasCut, HasReported, StoringOwn

\* P0 triggers a snapshot, and enters its own state, no more often than counted.
LEMMA MainOnceNext == Facts /\ MainOnce /\ [Next]_vars => MainOnce'
<1> SUFFICES ASSUME Facts, MainOnce, [Next]_vars PROVE MainOnce'
  OBVIOUS
<1> USE DEF Facts, recorderVars, coordinatorVars
<1>1. /\ P0 \in Proc /\ P0 \notin Remote
      /\ state_store \in [Snapshots -> Seq(Entry)] /\ triggered \in [Snapshots -> Nat]
  BY TopologyAssumption DEF TypeOK, Entry, Remote
<1>2. ASSUME UNCHANGED <<triggered, state_store>>,
             main' = main \/ main'.pc \notin {"record", "store"}
      PROVE  MainOnce'
  <2>1. \A s : /\ StoringOwn(s)' => StoringOwn(s)
               /\ RecordingOwn(s)' => RecordingOwn(s)
               /\ HasReported(P0, s)' => HasReported(P0, s)
    BY <1>2 DEF StoringOwn, RecordingOwn, HasReported
  <2>2. QED
    BY <1>2, <2>1, OwnCut, OwnCutNext DEF MainOnce
<1>3. CASE UNCHANGED vars \/ DispatchOrder \/ ViewSnapshots \/ Arrival \/ Failure
           \/ (\E o \in Orders, r \in Restaurants : CreateOrder(o, r))
           \/ \E s \in Snapshots : CheckViewed(s)
  <2>1. UNCHANGED <<triggered, state_store>>
    BY <1>3 DEF vars, DispatchOrder, CreateOrder, ViewSnapshots, CheckViewed,
                Arrival, ReceiveDelivery, ReceiveState,
                AcceptOrder, ReceiveMarker, ReceiveHandoff, ReceiveRunnerMarker, Failure, Lose
  <2>2. ASSUME NEW s \in Snapshots, CheckViewed(s) PROVE main'.pc \notin {"record", "store"}
    <3>1. main \in MainState /\ main.pc = "view"
      BY <2>2 DEF TypeOK, CheckViewed
    <3>2. main \in [pc : {"view"}, left : SUBSET Snapshots]
      BY <3>1 DEF MainState, Menu
    <3>3. QED
      BY <2>2, <3>2 DEF CheckViewed, Menu
  <2>3. main' = main \/ main'.pc \notin {"record", "store"}
    BY <1>3, <2>2
       DEF vars, DispatchOrder, CreateOrder, ViewSnapshots, Menu, Arrival, ReceiveDelivery,
           ReceiveState, AcceptOrder, ReceiveMarker, ReceiveHandoff, ReceiveRunnerMarker,
           Failure, Lose
  <2>4. QED
    BY <1>2, <2>1, <2>3
<1>4. ASSUME NEW s0 \in Snapshots, InitiateSnapshot(s0) PROVE MainOnce'
  <2>1. /\ \A s \in Snapshots : triggered'[s] = IF s = s0 THEN triggered[s] + 1 ELSE triggered[s]
        /\ state_store' = state_store /\ main = Menu /\ main' = [pc |-> "record", id |-> s0]
    BY <1>1, <1>4 DEF InitiateSnapshot
  <2>2. \A s : /\ ~StoringOwn(s)' /\ (RecordingOwn(s)' <=> s = s0)
               /\ HasReported(P0, s)' => HasReported(P0, s)
    BY <2>1 DEF StoringOwn, RecordingOwn, HasReported
  <2>3. \A s \in Snapshots : triggered[s] \in Nat
    BY <1>1
  <2>4. QED
    BY <2>1, <2>2, <2>3, OwnCut, OwnCutNext DEF MainOnce
<1>5. CASE RecordOwnState
  <2>1. /\ triggered' = triggered /\ RecordingOwn(main.id)
        /\ \A s : HasReported(P0, s)' => HasReported(P0, s)
        /\ \A s : ~RecordingOwn(s)' /\ (StoringOwn(s)' <=> s = main.id)
    BY <1>5 DEF RecordOwnState, HasReported, RecordingOwn, StoringOwn
  <2>2. QED
    BY <2>1, OwnCut, OwnCutNext DEF MainOnce
<1>9. CASE StoreOwnState
  <2>1. /\ main.id \in Snapshots /\ triggered' = triggered /\ StoringOwn(main.id)
        /\ state_store' = [state_store EXCEPT ![main.id] = Put(@, P0, main.vc)]
    BY <1>9, MainParts DEF StoreOwnState, StoringOwn
  <2>2. \A s : s # main.id => (HasReported(P0, s)' => HasReported(P0, s))
    BY <2>1 DEF HasReported
  <2>3. \A s : ~StoringOwn(s)' /\ ~RecordingOwn(s)'
    BY <1>9 DEF StoreOwnState, StoringOwn, RecordingOwn, Menu
  <2>4. QED
    BY <2>1, <2>2, <2>3, OwnCut, OwnCutNext DEF MainOnce
<1>6. ASSUME NEW t \in threads, HandleState(t) PROVE MainOnce'
  <2>1. /\ t.msg.from \in Proc /\ t.msg.vc \in Clock /\ t.msg.id \in Snapshots /\ t.msg.from # P0
        /\ UNCHANGED <<main, triggered>>
    BY <1>1, <1>6, HandlerOf, ThreadParts, MessageParts DEF HandleState, StatePc, OnceInv
  <2>2. \A s \in Snapshots : HasReported(P0, s)' => HasReported(P0, s)
    <3> SUFFICES ASSUME NEW s \in Snapshots, HasReported(P0, s)' PROVE HasReported(P0, s)
      OBVIOUS
    <3>1. CASE t.msg.id = s
      <4>1. state_store'[s] = Put(state_store[s], t.msg.from, t.msg.vc) /\ state_store[s] \in Seq(Entry)
        BY <1>1, <1>6, <3>1 DEF HandleState
      <4>2. \A i \in DOMAIN state_store'[s] :
               \/ state_store'[s][i].proc = t.msg.from
               \/ i \in DOMAIN state_store[s] /\ state_store'[s][i] = state_store[s][i]
        BY <2>1, <4>1, PutEntries
      <4>3. QED
        BY <2>1, <4>2 DEF HasReported
    <3>2. CASE t.msg.id # s
      BY <1>1, <1>6, <2>1, <3>2 DEF HandleState, HasReported
    <3>3. QED
      BY <3>1, <3>2
  <2>3. \A s : (StoringOwn(s)' <=> StoringOwn(s)) /\ (RecordingOwn(s)' <=> RecordingOwn(s))
    BY <2>1 DEF StoringOwn, RecordingOwn
  <2>4. QED
    BY <2>1, <2>2, <2>3, OwnCut, OwnCutNext DEF MainOnce
<1>7. ASSUME NEW t \in threads, CoordinatorStep(t) \/ RestaurantStep(t) \/ RunnerStep(t),
             ~HandleState(t)
      PROVE  MainOnce'
  <2>1. UNCHANGED <<main, triggered, state_store>>
    BY <1>7 DEF CoordinatorStep, ConfirmDelivery, CountStates, CheckSnapshotConsistency,
                RestaurantStep, HandleOrder, OrderConfirmed, PreparingFood, FoodReady,
                OrderEvent, HandToRunner, RecordMarker, ForwardMarker, NothingToComplete,
                CompleteSnapshot, SendState, ReleaseLock,
                RunnerStep, PickedUp, InTransit, Delivered, DeliveryEvent, SendDelivery,
                CheckMarker, ReportState
  <2>2. QED
    BY <1>2, <2>1
<1>8. QED
  BY <1>3, <1>4, <1>5, <1>6, <1>7, <1>9 DEF Next, Command, MainStep, HandlerStep

----------------------------------------------------------------------------
(* Both sides of a cut.                                                    *)

\* A message that counts as sent after the cut of a process was stamped when
\* its clock had gone on since.
LateInv ==
    /\ late \subseteq Stamped \X Snapshots
    /\ \A s \in Snapshots : triggered[s] <= 1 =>
         \A e \in Stamped : <<e, s>> \in late =>
            HasCut(e[1], s) /\ \A v \in CutClocks(e[1], s) : v[e[1]] < e[2][e[1]]

\* Nobody knows more of process q than q reports: not the processes that have
\* still to cut, not the messages sent before the cut, not the other reports.
Ordered(s) ==
    \A q \in Proc : \A v \in CutClocks(q, s) :
        /\ \A p \in Proc : ~HasCut(p, s) => clock[p][q] <= v[q]
        /\ \A e \in Stamped : <<e, s>> \notin late => e[2][q] <= v[q]
        /\ \A p \in Proc : \A w \in CutClocks(p, s) : w[q] <= v[q]

\* Process p knows, and will report, more of process q than q reports.
KnowsMore(p, q, s) ==
    /\ HasCut(q, s)
    /\ \A v \in CutClocks(q, s) :
          /\ ~HasCut(p, s) => v[q] < clock[p][q]
          /\ \A w \in CutClocks(p, s) : v[q] < w[q]

\* P0 has printed that the snapshot is inconsistent.
Alarm(s) == \E v \in verdict[s] : v.says = "inconsistent"

\* What an orphan message leaves in the clocks, and what its absence does.
CutInv ==
    \A s \in Snapshots : triggered[s] <= 1 =>
        /\ orphans[s] = {} => Ordered(s)
        /\ orphans[s] # {} => \E p, q \in Proc : KnowsMore(p, q, s)
        /\ Alarm(s) => orphans[s] # {}

\* The processes and clocks of the events in which messages are stamped.
LEMMA StampedKnown ==
    ASSUME Facts, NEW e \in Stamped
    PROVE  /\ e[1] \in Proc /\ e[2] \in Clock /\ Known(e[2])
           /\ e = <<e[1], e[2]>>
<1> USE DEF Facts
<1>1. CASE \E m \in Pending : e = SendEvent(m)
  <2>1. PICK m \in Pending : e = <<m.from, m.clock>>
    BY <1>1 DEF SendEvent
  <2>2. m \in Message /\ Known(m.clock)
    BY <2>1, ThreadParts DEF Pending, TypeOK, ClocksKnownOnly, ThreadKnown, MessageKnown
  <2>3. QED
    BY <2>1, <2>2, MessageParts
<1>2. CASE \E t \in threads : e = <<t.msg.to, t.saved>>
  <2>1. PICK t \in threads : e = <<t.msg.to, t.saved>>
    BY <1>2
  <2>2. t.msg.to \in Proc /\ t.saved \in Clock /\ Known(t.saved)
    BY <2>1, ThreadParts, MessageParts DEF ClocksKnownOnly, ThreadKnown
  <2>3. QED
    BY <2>1, <2>2
<1>3. QED
  BY <1>1, <1>2 DEF Stamped

\* What the events do to the clocks.
LEMMA LocalClock ==
    ASSUME TypeOK, NEW p \in Proc, Local(p)
    PROVE  \A q, x \in Proc :
              /\ clock[q][x] \in Nat
              /\ clock'[q][x] = IF q = p /\ x = p THEN clock[q][x] + 1 ELSE clock[q][x]
BY DEF Local, LocalEvent, Tick, TypeOK, Clock

\* The receiver knows what it knew and what the message says, and counts one more.
LEMMA TakesClock ==
    ASSUME Facts, NEW m \in Pending, Takes(m)
    PROVE  /\ m \in Message
           /\ \A q, x \in Proc :
              /\ clock[q][x] \in Nat /\ m.clock[x] \in Nat
              /\ q # m.to => clock'[q][x] = clock[q][x]
              /\ clock'[m.to][x] =
                    (IF clock[m.to][x] < m.clock[x] THEN m.clock[x] ELSE clock[m.to][x])
                        + (IF x = m.to THEN 1 ELSE 0)
<1>1. m \in Message
  BY ThreadParts DEF Facts, TypeOK, Pending
<1>2. m.to \in Proc /\ m.clock \in Clock
  BY <1>1, MessageParts
<1>3. \A q, x \in Proc : clock[q][x] \in Nat /\ m.clock[x] \in Nat
  BY <1>2 DEF Facts, TypeOK, Clock
<1>4. \A x \in Proc : ClockAfterReceive(m)[x] =
         (IF clock[m.to][x] < m.clock[x] THEN m.clock[x] ELSE clock[m.to][x])
             + (IF x = m.to THEN 1 ELSE 0)
  BY <1>2, <1>3 DEF ClockAfterReceive, ReceiveEvent, Tick, Merge
<1>5. /\ clock'[m.to] = ClockAfterReceive(m)
      /\ \A q \in Proc : q # m.to => clock'[q] = clock[q]
  BY <1>2 DEF Takes, Facts, TypeOK
<1>6. QED
  BY <1>1, <1>3, <1>4, <1>5

\* When a message becomes late, and when it is forgotten.
LEMMA LateChange ==
    ASSUME CutNext, NEW e, NEW s \in Snapshots
    PROVE  <<e, s>> \in late' <=>
              e \in Stamped' /\ (<<e, s>> \in late \/ (e \notin Stamped /\ HasCut(e[1], s)))
<1>1. late' = (late \cup {es \in (Stamped' \ Stamped) \X Snapshots : HasCut(es[1][1], es[2])})
                  \cap (Stamped' \X Snapshots)
  BY DEF CutNext
<1>2. <<e, s>> \in {es \in (Stamped' \ Stamped) \X Snapshots : HasCut(es[1][1], es[2])}
         <=> e \in Stamped' /\ e \notin Stamped /\ HasCut(e[1], s)
  OBVIOUS
<1>3. <<e, s>> \in Stamped' \X Snapshots <=> e \in Stamped'
  OBVIOUS
<1>4. QED
  BY <1>1, <1>2, <1>3

\* Snapshots are triggered more often, never less.
LEMMA TriggeredGrows ==
    ASSUME TypeOK, [Next]_vars, NEW s \in Snapshots
    PROVE  triggered[s] \in Nat /\ triggered'[s] \in Nat /\ triggered[s] <= triggered'[s]
<1>1. triggered \in [Snapshots -> Nat]
  BY DEF TypeOK
<1>2. CASE \E s0 \in Snapshots : InitiateSnapshot(s0)
  BY <1>1, <1>2 DEF InitiateSnapshot
<1>3. CASE ~ \E s0 \in Snapshots : InitiateSnapshot(s0)
  <2>1. triggered' = triggered
    BY <1>3 DEF Next, vars, coordinatorVars, Command, CreateOrder, ViewSnapshots, MainStep, DispatchOrder,
                RecordOwnState, StoreOwnState, CheckViewed,
                Arrival, ReceiveDelivery, ReceiveState, AcceptOrder, ReceiveMarker,
                ReceiveHandoff, ReceiveRunnerMarker, Failure, Lose, HandlerStep,
                CoordinatorStep, ConfirmDelivery, HandleState, CountStates,
                CheckSnapshotConsistency,
                RestaurantStep, HandleOrder, OrderConfirmed, PreparingFood, FoodReady,
                OrderEvent, HandToRunner, RecordMarker, ForwardMarker, NothingToComplete,
                CompleteSnapshot, SendState, ReleaseLock,
                RunnerStep, PickedUp, InTransit, Delivered, DeliveryEvent, SendDelivery,
                CheckMarker, ReportState
  <2>2. QED
    BY <1>1, <2>1
<1>4. QED
  BY <1>2, <1>3

\* Messages are late only after their sender's cut.
LEMMA LateNext == Facts /\ MainOnce /\ LateInv /\ CutNext => LateInv'
<1> SUFFICES ASSUME Facts, MainOnce, LateInv, CutNext PROVE LateInv'
  OBVIOUS
<1>1. [Next]_vars
  BY DEF CutNext
<1>2. late' \subseteq Stamped' \X Snapshots
  BY DEF CutNext
<1>3. ASSUME NEW s \in Snapshots, triggered'[s] <= 1, NEW e \in Stamped', <<e, s>> \in late'
      PROVE  HasCut(e[1], s)' /\ \A v \in CutClocks(e[1], s)' : v[e[1]] < e[2][e[1]]
  <2>1. triggered[s] <= 1
    BY <1>1, <1>3, TriggeredGrows DEF Facts
  <2>2. CASE <<e, s>> \in late
    <3>1. e \in Stamped
      BY <2>2 DEF LateInv
    <3>2. HasCut(e[1], s) /\ \A v \in CutClocks(e[1], s) : v[e[1]] < e[2][e[1]]
      BY <2>1, <2>2, <3>1 DEF LateInv
    <3>3. e[1] \in Proc
      BY <3>1, StampedKnown
    <3>4. CutClocks(e[1], s)' \subseteq CutClocks(e[1], s)
      BY <1>1, <2>1, <3>2, <3>3, CutClocksStep
    <3>5. QED
      BY <1>1, <3>2, <3>3, <3>4, HasCutStays
  <2>3. CASE <<e, s>> \notin late
    <3>1. e \notin Stamped /\ HasCut(e[1], s)
      BY <1>3, <2>3, LateChange
    <3>2. PICK p \in Proc : Local(p)
      BY <1>1, <1>3, <3>1, Events DEF Quiet, Takes
    <3>3. e = <<p, clock'[p]>>
      BY <1>3, <3>1, <3>2 DEF Local
    <3>4. CutClocks(p, s)' \subseteq CutClocks(p, s)
      BY <1>1, <2>1, <3>1, <3>3, CutClocksStep
    <3>5. ASSUME NEW v \in CutClocks(p, s) PROVE v[p] < clock'[p][p]
      <4>1. v \in Clock /\ Known(v)
        BY <3>5, CutHas
      <4>2. v[p] \in Nat /\ v[p] <= clock[p][p]
        BY <4>1 DEF Clock, Known
      <4>3. QED
        BY <3>2, <4>2, LocalClock DEF Facts
    <3>6. HasCut(p, s)'
      BY <1>1, <3>1, <3>3, HasCutStays
    <3>7. QED
      BY <3>3, <3>4, <3>5, <3>6
  <2>4. QED
    BY <2>2, <2>3
<1>4. QED
  BY <1>2, <1>3 DEF LateInv

\* What a step adds to the orphans.
LEMMA OrphansChange ==
    ASSUME CutNext, NEW s \in Snapshots
    PROVE  /\ orphans'[s] = {} => orphans[s] = {}
           /\ orphans'[s] = {} =>
                 \A m \in ReceivedNow : <<SendEvent(m), s>> \in late => HasCut(m.to, s)
           /\ orphans[s] = {} /\ orphans'[s] # {} =>
                 \E m \in ReceivedNow : <<SendEvent(m), s>> \in late /\ ~HasCut(m.to, s)
<1>1. orphans'[s] = orphans[s] \cup
         {Label(m) : m \in {n \in ReceivedNow : <<SendEvent(n), s>> \in late /\ ~HasCut(n.to, s)}}
  BY DEF CutNext
<1>2. QED
  BY <1>1

\* Without an orphan the reports stay ordered.
LEMMA OrderedNext ==
    ASSUME Facts, MainOnce, CutNext, NEW s \in Snapshots, triggered[s] <= 1,
           orphans'[s] = {}, Ordered(s)
    PROVE  Ordered(s)'
<1>1. [Next]_vars
  BY DEF CutNext
<1>2. SUFFICES ASSUME NEW q \in Proc, NEW v \in CutClocks(q, s)'
               PROVE  /\ \A p \in Proc : ~HasCut(p, s)' => clock'[p][q] <= v[q]
                      /\ \A e \in Stamped' : <<e, s>> \notin late' => e[2][q] <= v[q]
                      /\ \A p \in Proc : \A w \in CutClocks(p, s)' : w[q] <= v[q]
  BY DEF Ordered
<1>3. \A p \in Proc : clock[p] \in Clock /\ clock[p][q] \in Nat /\ clock[p][q] <= clock[q][q]
  BY DEF Facts, TypeOK, Clock, ClocksKnownOnly, Known
<1>4. \A p \in Proc : \A w \in CutClocks(p, s) : HasCut(p, s) /\ w[q] \in Nat /\ w[q] <= clock[q][q]
  BY CutHas DEF Clock, Known
<1>5. \A e \in Stamped : e[2][q] \in Nat /\ e[2][q] <= clock[q][q]
  BY StampedKnown DEF Clock, Known
<1>6. \A p \in Proc : \A w \in CutClocks(p, s)' :
         w \in CutClocks(p, s) \/ (clock' = clock /\ ~HasCut(p, s) /\ w = clock[p])
  BY <1>1, CutClocksStep
\* Process q cuts now: nobody can know more of it.
<1>7. CASE clock' = clock /\ v = clock[q]
  <2>1. \A p \in Proc : clock'[p][q] <= v[q]
    BY <1>3, <1>7
  <2>2. ~ \E p \in Proc : Local(p)
    <3>1. ASSUME NEW p \in Proc, Local(p) PROVE FALSE
      <4>1. clock[p][p] \in Nat /\ clock'[p][p] = clock[p][p] + 1
        BY <3>1, LocalClock DEF Facts
      <4>2. QED
        BY <1>7, <4>1
    <3>2. QED
      BY <3>1
  <2>3. Stamped' \subseteq Stamped
    BY <1>1, <2>2, Events DEF Quiet, Takes
  <2>4. \A e \in Stamped' : e[2][q] <= v[q]
    BY <1>5, <1>7, <2>3
  <2>5. \A p \in Proc : \A w \in CutClocks(p, s)' : w[q] <= v[q]
    BY <1>3, <1>4, <1>6, <1>7
  <2>6. QED
    BY <2>1, <2>4, <2>5
\* Process q has cut before.
<1>8. CASE v \in CutClocks(q, s)
  <2>1. HasCut(q, s) /\ v[q] \in Nat
    BY <1>4, <1>8
  <2>2. /\ \A p \in Proc : ~HasCut(p, s) => clock[p][q] <= v[q]
        /\ \A e \in Stamped : <<e, s>> \notin late => e[2][q] <= v[q]
        /\ \A p \in Proc : \A w \in CutClocks(p, s) : w[q] <= v[q]
    BY <1>8 DEF Ordered
  <2>3. \A p \in Proc : \A w \in CutClocks(p, s)' : w[q] <= v[q]
    BY <1>6, <2>2
  <2>4. \A e \in Stamped : e \in Stamped' /\ <<e, s>> \notin late' => e[2][q] <= v[q]
    BY <2>2, LateChange
  <2>5. \A p \in Proc : ~HasCut(p, s)' => ~HasCut(p, s)
    BY <1>1, HasCutStays
  <2>6. CASE Quiet
    BY <2>2, <2>3, <2>4, <2>5, <2>6 DEF Quiet
  <2>7. ASSUME NEW r \in Proc, Local(r)
        PROVE  /\ \A p \in Proc : ~HasCut(p, s)' => clock'[p][q] <= v[q]
               /\ \A e \in Stamped' : <<e, s>> \notin late' => e[2][q] <= v[q]
    <3>1. \A p \in Proc : ~HasCut(p, s) => clock'[p][q] = clock[p][q]
      BY <2>1, <2>7, LocalClock DEF Facts
    <3>2. ASSUME NEW e \in Stamped', e \notin Stamped, <<e, s>> \notin late'
          PROVE  e[2][q] <= v[q]
      <4>1. e = <<r, clock'[r]>>
        BY <2>7, <3>2 DEF Local
      <4>2. ~HasCut(r, s)
        BY <3>2, <4>1, LateChange
      <4>3. clock'[r][q] <= v[q]
        BY <2>2, <3>1, <4>2
      <4>4. QED
        BY <4>1, <4>3
    <3>3. QED
      BY <2>2, <2>4, <2>5, <3>1, <3>2
  <2>8. ASSUME NEW m \in Pending, Takes(m)
        PROVE  /\ \A p \in Proc : ~HasCut(p, s)' => clock'[p][q] <= v[q]
               /\ \A e \in Stamped' : <<e, s>> \notin late' => e[2][q] <= v[q]
    <3>1. m \in ReceivedNow /\ Stamped' \subseteq Stamped
      BY <2>8 DEF Takes
    <3>2. SendEvent(m) \in Stamped /\ SendEvent(m)[2] = m.clock
      BY DEF Stamped, SendEvent
    <3>3. ~HasCut(m.to, s) => m.clock[q] <= v[q]
      BY <2>2, <3>1, <3>2, OrphansChange
    <3>4. m.to \in Proc /\ m.clock[q] \in Nat
      BY <2>8, TakesClock, MessageParts
    <3>5. ASSUME NEW p \in Proc, ~HasCut(p, s) PROVE clock'[p][q] <= v[q]
      <4>1. CASE p # m.to
        BY <2>2, <2>8, <3>5, <4>1, TakesClock
      <4>2. CASE p = m.to
        <5>1. q # m.to
          BY <2>1, <3>5, <4>2
        <5>2. clock'[m.to][q] = IF clock[m.to][q] < m.clock[q] THEN m.clock[q] ELSE clock[m.to][q]
          BY <1>3, <2>8, <3>4, <5>1, TakesClock
        <5>3. clock[m.to][q] <= v[q] /\ m.clock[q] <= v[q]
          BY <2>2, <3>3, <3>5, <4>2
        <5>4. QED
          BY <4>2, <5>2, <5>3
      <4>3. QED
        BY <4>1, <4>2
    <3>6. QED
      BY <2>4, <2>5, <3>1, <3>5
  <2>9. QED
    BY <1>1, <2>3, <2>6, <2>7, <2>8, Events
<1>9. QED
  BY <1>6, <1>7, <1>8

\* Who knows more of a process than it reports will report more of it.
LEMMA KnowsMoreStays ==
    ASSUME Facts, MainOnce, [Next]_vars, NEW s \in Snapshots, triggered[s] <= 1,
           NEW p \in Proc, NEW q \in Proc, KnowsMore(p, q, s)
    PROVE  KnowsMore(p, q, s)'
<1>1. HasCut(q, s) /\ HasCut(q, s)'
  BY HasCutStays DEF KnowsMore
<1>2. CutClocks(q, s)' \subseteq CutClocks(q, s)
  BY <1>1, CutClocksStep
<1>3. ASSUME NEW v \in CutClocks(q, s)'
      PROVE  /\ ~HasCut(p, s)' => v[q] < clock'[p][q]
             /\ \A w \in CutClocks(p, s)' : v[q] < w[q]
  <2>1. /\ ~HasCut(p, s) => v[q] < clock[p][q]
        /\ \A w \in CutClocks(p, s) : v[q] < w[q]
    BY <1>2, <1>3 DEF KnowsMore
  <2>2. v[q] \in Nat
    BY <1>2, <1>3, CutHas DEF Clock
  <2>3. clock[p][q] \in Nat /\ clock'[p][q] \in Nat /\ clock[p][q] <= clock'[p][q]
    <3>1. TypeOK /\ TypeOK'
      BY TypeStep DEF Facts
    <3>2. clock \in [Proc -> [Proc -> Nat]] /\ clock' \in [Proc -> [Proc -> Nat]]
      BY <3>1 DEF TypeOK, Clock
    <3>3. Leq(clock[p], clock'[p])
      BY <3>1, ClockGrows
    <3>4. QED
      BY <3>2, <3>3 DEF Leq
  <2>4. ~HasCut(p, s)' => ~HasCut(p, s)
    BY HasCutStays
  <2>5. \A w \in CutClocks(p, s)' : w \in CutClocks(p, s) \/ (~HasCut(p, s) /\ w = clock[p])
    BY CutClocksStep
  <2>6. QED
    BY <2>1, <2>2, <2>3, <2>4, <2>5
<1>4. QED
  BY <1>1, <1>3 DEF KnowsMore

\* The receipt of an orphan message makes its receiver know more.
LEMMA OrphanTells ==
    ASSUME Facts, MainOnce, LateInv, CutNext, NEW s \in Snapshots, triggered[s] <= 1,
           NEW m \in ReceivedNow, <<SendEvent(m), s>> \in late, ~HasCut(m.to, s)
    PROVE  m.to \in Proc /\ m.from \in Proc /\ KnowsMore(m.to, m.from, s)'
<1>1. [Next]_vars
  BY DEF CutNext
<1>2. m \in Pending /\ Takes(m)
  BY <1>1, Events DEF Quiet, Local, Takes
<1>3. m.to \in Proc /\ m.from \in Proc
  BY <1>2, TakesClock, MessageParts
<1> DEFINE p == m.to
           q == m.from
<1>4. SendEvent(m) \in Stamped /\ SendEvent(m)[1] = q /\ SendEvent(m)[2] = m.clock
  BY <1>2 DEF Stamped, SendEvent
<1>5. HasCut(q, s) /\ \A v \in CutClocks(q, s) : v[q] < m.clock[q]
  BY <1>4 DEF LateInv
<1>6. HasCut(q, s)' /\ p # q
  BY <1>1, <1>3, <1>5, HasCutStays
<1>7. clock'[p][q] \in Nat /\ m.clock[q] \in Nat /\ m.clock[q] <= clock'[p][q]
  <2>1. clock[p][q] \in Nat /\ m.clock[q] \in Nat
        /\ clock'[p][q] = IF clock[p][q] < m.clock[q] THEN m.clock[q] ELSE clock[p][q]
    <3>1. /\ clock[p][q] \in Nat /\ m.clock[q] \in Nat
          /\ clock'[p][q] = (IF clock[p][q] < m.clock[q] THEN m.clock[q] ELSE clock[p][q])
                               + (IF q = p THEN 1 ELSE 0)
      BY <1>2, <1>3, TakesClock
    <3>2. QED
      BY <1>6, <3>1
  <2>2. QED
    BY <2>1
<1>8. CutClocks(q, s)' \subseteq CutClocks(q, s)
  BY <1>1, <1>3, <1>5, CutClocksStep
<1>9. CutClocks(p, s)' = {}
  <2>1. CutClocks(p, s) = {}
    BY <1>3, CutHas
  <2>2. clock' # clock
    <3>1. clock[p][p] \in Nat /\ m.clock[p] \in Nat
          /\ clock'[p][p] = (IF clock[p][p] < m.clock[p] THEN m.clock[p] ELSE clock[p][p]) + 1
      BY <1>2, <1>3, TakesClock
    <3>2. clock'[p][p] # clock[p][p]
      BY <3>1
    <3>3. QED
      BY <3>2
  <2>3. QED
    BY <1>1, <1>3, <2>1, <2>2, CutClocksStep
<1>10. ASSUME NEW v \in CutClocks(q, s)' PROVE v[q] < clock'[p][q]
  <2>1. v \in Clock /\ v[q] \in Nat /\ v[q] < m.clock[q]
    BY <1>3, <1>5, <1>8, CutHas DEF Clock
  <2>2. QED
    BY <1>7, <2>1
<1>11. QED
  BY <1>3, <1>6, <1>9, <1>10 DEF KnowsMore

\* A verdict of inconsistency is due to two reports that only an orphan leaves so.
LEMMA VerdictNeedsOrphan ==
    ASSUME Facts, CutInv, [Next]_vars, NEW s \in Snapshots, triggered[s] <= 1,
           Alarm(s)'
    PROVE  orphans[s] # {}
<1>1. verdict \in [Snapshots -> SUBSET Verdicts] /\ state_store[s] \in Seq(Entry)
  BY DEF Facts, TypeOK, Entry
<1>2. CASE Alarm(s)
  BY <1>2 DEF CutInv
<1>3. CASE ~Alarm(s)
  <2>1. \E s0, by : Check(s0, by)
    <3> SUFFICES ASSUME \A s0, by : ~Check(s0, by) PROVE verdict' = verdict
      BY <1>3 DEF Alarm
    <3>1. ~(\E t \in threads : CheckSnapshotConsistency(t)) /\ \A s0 \in Snapshots : ~CheckViewed(s0)
      BY DEF CheckSnapshotConsistency, CheckViewed
    <3>2. CASE StoreOwnState
      BY <3>2 DEF StoreOwnState
    <3>3. CASE \E t \in threads : StoreStep(t)
      BY <3>1, <3>3 DEF StoreStep, HandleState, CountStates, coordinatorVars
    <3>4. CASE ~StoreOwnState /\ \A t \in threads : ~StoreStep(t)
      BY <3>1, <3>4, StoreFrame DEF Facts
    <3>5. QED
      BY <3>2, <3>3, <3>4
  <2>2. PICK s0, by : Check(s0, by)
    BY <2>1
  <2>3. \A x \in verdict'[s] \ verdict[s] :
           s0 = s /\ (x.says = "inconsistent" => Inconsistencies(state_store[s]) # {})
    BY <1>1, <2>2 DEF Check
  <2>4. Inconsistencies(state_store[s]) # {}
    BY <1>3, <2>3 DEF Alarm
  <2>5. PICK i, j \in DOMAIN state_store[s] :
           state_store[s][i].vc[state_store[s][j].proc] > state_store[s][j].vc[state_store[s][j].proc]
    BY <2>4 DEF Inconsistencies
  <2> DEFINE p == state_store[s][i].proc
             q == state_store[s][j].proc
             w == state_store[s][i].vc
             v == state_store[s][j].vc
  <2>6. p \in Proc /\ q \in Proc /\ v[q] \in Nat /\ w[q] \in Nat
    <3>1. state_store[s][i] \in Entry /\ state_store[s][j] \in Entry
      BY <1>1, <2>5, ElementOfSeq, LenProperties
    <3>2. QED
      BY <3>1 DEF Entry, Clock
  <2>7. w \in CutClocks(p, s) /\ v \in CutClocks(q, s)
    BY <2>5 DEF CutClocks
  <2>8. ~Ordered(s)
    BY <2>5, <2>6, <2>7 DEF Ordered
  <2>9. QED
    BY <2>8 DEF CutInv
<1>4. QED
  BY <1>2, <1>3

\* Every step keeps the two sides of the cuts apart.
LEMMA CutNextKeeps == Facts /\ MainOnce /\ LateInv /\ CutInv /\ CutNext => CutInv'
<1> SUFFICES ASSUME Facts, MainOnce, LateInv, CutInv, CutNext,
                    NEW s \in Snapshots, triggered'[s] <= 1
             PROVE  /\ orphans'[s] = {} => Ordered(s)'
                    /\ orphans'[s] # {} => \E p, q \in Proc : KnowsMore(p, q, s)'
                    /\ Alarm(s)' => orphans'[s] # {}
  BY DEF CutInv
<1>1. [Next]_vars
  BY DEF CutNext
<1>2. triggered[s] <= 1
  BY <1>1, TriggeredGrows DEF Facts
<1>3. orphans'[s] = {} => Ordered(s)'
  BY <1>2, OrphansChange, OrderedNext DEF CutInv
<1>4. ASSUME orphans'[s] # {} PROVE \E p, q \in Proc : KnowsMore(p, q, s)'
  <2>1. CASE orphans[s] # {}
    <3>1. PICK p, q \in Proc : KnowsMore(p, q, s)
      BY <1>2, <2>1 DEF CutInv
    <3>2. KnowsMore(p, q, s)'
      BY <1>1, <1>2, <3>1, KnowsMoreStays
    <3>3. QED
      BY <3>2
  <2>2. CASE orphans[s] = {}
    <3>1. PICK m \in ReceivedNow : <<SendEvent(m), s>> \in late /\ ~HasCut(m.to, s)
      BY <1>4, <2>2, OrphansChange
    <3>2. m.to \in Proc /\ m.from \in Proc /\ KnowsMore(m.to, m.from, s)'
      BY <1>2, <3>1, OrphanTells
    <3>3. QED
      BY <3>2
  <2>3. QED
    BY <2>1, <2>2
<1>5. Alarm(s)' => orphans'[s] # {}
  BY <1>1, <1>2, VerdictNeedsOrphan, OrphansChange
<1>6. QED
  BY <1>3, <1>4, <1>5

\* A state of the history as it should be.
HistoryInv == Facts /\ MainOnce /\ LateInv /\ CutInv

\* Every reachable state of the history is.
LEMMA HistoryInvariant == CutSpec => []HistoryInv
<1>1. CutInit => MainOnce /\ LateInv /\ CutInv
  <2> SUFFICES ASSUME CutInit PROVE MainOnce /\ LateInv /\ CutInv
    OBVIOUS
  <2>1. \A p, s : s \in Snapshots => CutClocks(p, s) = {}
    BY DEF CutInit, Init, CutClocks, StateMsgs, Taken, Menu
  <2>2. \A s \in Snapshots : ~HasReported(P0, s) /\ ~StoringOwn(s) /\ ~RecordingOwn(s) /\ ~Alarm(s)
    BY DEF CutInit, Init, HasReported, StoringOwn, RecordingOwn, Alarm, Menu
  <2>3. MainOnce
    BY <2>2, OwnCut DEF MainOnce
  <2>4. QED
    BY <2>1, <2>2, <2>3 DEF CutInit, Init, LateInv, CutInv, Ordered
<1>2. HistoryInv /\ CutNext => MainOnce' /\ LateInv' /\ CutInv'
  <2>1. CutNext => [Next]_vars
    BY DEF CutNext
  <2>2. QED
    BY <2>1, MainOnceNext, LateNext, CutNextKeeps DEF HistoryInv
<1>3. HistoryInv /\ UNCHANGED cutVars => MainOnce' /\ LateInv' /\ CutInv'
  <2> SUFFICES ASSUME HistoryInv, UNCHANGED cutVars PROVE MainOnce' /\ LateInv' /\ CutInv'
    OBVIOUS
  <2>1. UNCHANGED vars /\ UNCHANGED <<late, orphans, crossed>>
    BY DEF cutVars
  <2>2. /\ UNCHANGED <<clock, net, threads, main, triggered, state_store, verdict, completed,
                       recorded_snapshots>>
    BY <2>1 DEF vars, recorderVars, coordinatorVars
  <2>3. Stamped' = Stamped
    BY <2>2 DEF Stamped, Pending
  <2>4. \A p, s : HasCut(p, s)' <=> HasCut(p, s)
    BY <2>2 DEF HasCut
  <2>5. \A p, s : CutClocks(p, s)' = CutClocks(p, s)
    BY <2>2 DEF CutClocks, StateMsgs, Taken
  <2>6. MainOnce'
    BY <2>2, <2>4 DEF HistoryInv, MainOnce, RecordingOwn
  <2>7. LateInv'
    BY <2>1, <2>2, <2>3, <2>4, <2>5 DEF HistoryInv, LateInv
  <2>8. \A s : Ordered(s)' <=> Ordered(s)
    BY <2>1, <2>2, <2>3, <2>4, <2>5 DEF Ordered
  <2>9. \A p, q, s : KnowsMore(p, q, s)' <=> KnowsMore(p, q, s)
    BY <2>2, <2>4, <2>5 DEF KnowsMore
  <2>10. CutInv'
    BY <2>1, <2>2, <2>8, <2>9 DEF HistoryInv, CutInv, Alarm
  <2>11. QED
    BY <2>6, <2>7, <2>10
<1>4. CutInit => Init
  BY DEF CutInit
<1>5. [CutNext]_cutVars => [Next]_vars
  BY DEF CutNext, cutVars
<1>6. CutSpec => []Facts
  BY <1>4, <1>5, FactsInvariant, PTL DEF CutSpec, Spec
<1>7. QED
  BY <1>1, <1>2, <1>3, <1>6, PTL DEF CutSpec, HistoryInv

\* When as many states are collected as there are processes, each has reported.
LEMMA AllReport ==
    ASSUME Facts, NEW s \in Snapshots, AllCollected(state_store[s])
    PROVE  Reported(s) = Proc
<1>1. state_store[s] \in Seq(Entry) /\ OneEntry(state_store[s])
  BY DEF Facts, TypeOK, OnceInv, Entry
<1>2. Len(state_store[s]) = Cardinality(Proc)
  BY DEF AllCollected
<1>3. QED
  BY <1>1, <1>2, FullStore DEF Reported

\* The report that is looked up is one of the process's reports.
LEMMA ReportIsCut ==
    ASSUME Facts, NEW s \in Snapshots, NEW p \in Reported(s)
    PROVE  Report(s, p) \in CutClocks(p, s)
<1>1. PICK i \in DOMAIN state_store[s] : state_store[s][i].proc = p
  BY DEF Reported
<1>2. Report(s, p) = state_store[s][i].vc
  BY <1>1, ChosenEntry DEF Facts, OnceInv, Report
<1>3. QED
  BY <1>1, <1>2 DEF CutClocks

\* The test that infra/analyse_run.py makes of the collected states is exact, of
\* every snapshot that is triggered once, whatever else goes on meanwhile:
\* it finds nothing if and only if no message is received before the cut and
\* sent after it.
THEOREM CriterionIsExact == CutSpec => []CriterionExact
<1>1. HistoryInv => CriterionExact
  <2> SUFFICES ASSUME HistoryInv, NEW s \in Snapshots, triggered[s] = 1,
                      AllCollected(state_store[s])
               PROVE  VerifyConsistency(Recorded(s)) = {} <=> orphans[s] = {}
    BY DEF CriterionExact
  <2> USE DEF HistoryInv
  <2>1. Reported(s) = Proc /\ \A p \in Proc : Report(s, p) \in CutClocks(p, s)
    BY AllReport, ReportIsCut
  <2>2. DOMAIN Recorded(s) = Proc /\ \A p \in Proc : Recorded(s)[p] = Report(s, p)
    BY <2>1 DEF Recorded
  <2>3. VerifyConsistency(Recorded(s)) = {} <=>
           \A p, q \in Proc : ~(Report(s, p)[q] > Report(s, q)[q])
    <3>1. VerifyConsistency(Recorded(s)) =
             {pq \in Proc \X Proc : Report(s, pq[1])[pq[2]] > Report(s, pq[2])[pq[2]]}
      BY <2>2 DEF VerifyConsistency
    <3>2. \A p, q \in Proc : <<p, q>> \in VerifyConsistency(Recorded(s))
                                 <=> Report(s, p)[q] > Report(s, q)[q]
      BY <3>1
    <3>3. ASSUME NEW pq \in VerifyConsistency(Recorded(s))
          PROVE  \E p, q \in Proc : Report(s, p)[q] > Report(s, q)[q]
      <4>1. PICK p, q \in Proc : pq = <<p, q>>
        BY <3>1
      <4>2. QED
        BY <3>2, <3>3, <4>1
    <3>4. QED
      BY <3>2, <3>3
  <2>4. \A p, q \in Proc : Report(s, p)[q] \in Nat
    BY <2>1, CutHas DEF Clock
  <2>5. orphans[s] = {} => \A p, q \in Proc : Report(s, p)[q] <= Report(s, q)[q]
    BY <2>1 DEF CutInv, Ordered
  <2>6. orphans[s] # {} => \E p, q \in Proc : Report(s, q)[q] < Report(s, p)[q]
    BY <2>1 DEF CutInv, KnowsMore
  <2>7. QED
    BY <2>3, <2>4, <2>5, <2>6
<1>2. QED
  BY <1>1, HistoryInvariant, PTL

\* P0 raises no false alarm: it reports an inconsistency only of a cut that some
\* message was sent after and received before.
THEOREM AlarmsAreTrue == CutSpec => []NoFalseAlarm
<1>1. HistoryInv => NoFalseAlarm
  BY DEF HistoryInv, CutInv, Alarm, NoFalseAlarm
<1>2. QED
  BY <1>1, HistoryInvariant, PTL

----------------------------------------------------------------------------
(* The markers.                                                            *)

\* Each restaurant has a runner of its own, as P1 has P3 and P2 has P4.
PartnersDiffer == \A r, q \in Restaurants : Partner[r] = Partner[q] => r = q

MarkerMsgs(p, s) == {m \in net : m.type = "MARKER" /\ m.to = p /\ m.id = s}

MarkerThreads(p, s) == {t \in threads : t.msg.type = "MARKER" /\ t.msg.to = p /\ t.msg.id = s}

Unmarked(f, s) ==
    MarkerMsgs(f, s) = {} /\ MarkerThreads(f, s) = {} /\ s \notin recorded_snapshots[f]

\* A marker is on its way from P0 to a restaurant or on to the runner.
MarkerWay ==
    \A m \in net : m.type = "MARKER" =>
        \/ m.from = P0 /\ m.to \in Restaurants
        \/ m.from \in Restaurants /\ m.to = Partner[m.from]

\* One marker at a time comes to a restaurant and to its runner, and finds the
\* snapshot not recorded there; the runner has seen none before the restaurant
\* has forwarded it, which it does before it completes the snapshot.
MarkerFor(r, s) ==
    /\ AtMostOne(MarkerMsgs(r, s), MarkerThreads(r, s))
    /\ AtMostOne(MarkerMsgs(Partner[r], s), MarkerThreads(Partner[r], s))
    /\ MarkerMsgs(r, s) # {} => s \notin local_states[r]
    /\ MarkerMsgs(Partner[r], s) # {} => s \notin recorded_snapshots[Partner[r]]
    /\ \A t \in MarkerThreads(r, s) :
          t.pc = "forward" => s \notin completed[r] /\ Unmarked(Partner[r], s)
    /\ s \notin local_states[r] => Unmarked(Partner[r], s)
    /\ triggered[s] = 0 =>
          MarkerMsgs(r, s) = {} /\ MarkerThreads(r, s) = {} /\ s \notin local_states[r]

MarkerInv ==
    MarkerWay /\ \A s \in Snapshots : triggered[s] <= 1 => \A r \in Restaurants : MarkerFor(r, s)

\* A step that makes no marker and moves none keeps this.
LEMMA MarkerShrinks ==
    ASSUME MarkerInv, triggered' = triggered, recorded_snapshots' = recorded_snapshots,
           \A r \in Restaurants : local_states'[r] = local_states[r] /\ completed'[r] = completed[r],
           \A m \in net' \ net : m.type # "MARKER",
           \A t \in threads' \ threads : t.msg.type # "MARKER"
    PROVE  MarkerInv'
<1>1. \A p, s : /\ MarkerMsgs(p, s)' \subseteq MarkerMsgs(p, s)
                /\ MarkerThreads(p, s)' \subseteq MarkerThreads(p, s)
  BY DEF MarkerMsgs, MarkerThreads
<1>2. MarkerWay'
  BY DEF MarkerInv, MarkerWay
<1>3. \A f, s : Unmarked(f, s) => Unmarked(f, s)'
  BY <1>1 DEF Unmarked
<1>4. ASSUME NEW s \in Snapshots, triggered[s] <= 1, NEW r \in Restaurants PROVE MarkerFor(r, s)'
  <2>1. MarkerFor(r, s)
    BY <1>4 DEF MarkerInv
  <2>2. QED
    BY <1>1, <1>3, <2>1 DEF MarkerFor, AtMostOne
<1>5. QED
  BY <1>2, <1>4 DEF MarkerInv

\* The steps in which markers are made, received or handled.
MarkerStep(t) ==
    \/ RecordMarker(t) \/ ForwardMarker(t) \/ CompleteSnapshot(t) \/ SendState(t)
    \/ (CheckMarker(t) /\ StampState(t))

\* All other steps keep it.
LEMMA MarkerOthers ==
    ASSUME Facts, MarkerInv, [Next]_vars,
           ~ \E s \in Snapshots : InitiateSnapshot(s),
           ~ \E m \in net : ReceiveMarker(m) \/ ReceiveRunnerMarker(m),
           ~ \E t \in threads : MarkerStep(t)
    PROVE  MarkerInv'
<1> USE DEF Facts, recorderVars, coordinatorVars
<1>1. CASE UNCHANGED vars \/ MainStep \/ ViewSnapshots \/ Failure
           \/ \E o \in Orders, r \in Restaurants : CreateOrder(o, r)
  <2>1. /\ UNCHANGED <<triggered, recorded_snapshots, local_states, completed, threads>>
        /\ \A m \in net' \ net : m.type # "MARKER"
    BY <1>1 DEF vars, MainStep, DispatchOrder, RecordOwnState, StoreOwnState, CheckViewed,
                ViewSnapshots, Failure, Lose, CreateOrder, Msg
  <2>2. QED
    BY <2>1, MarkerShrinks
<1>2. ASSUME NEW m \in net, ReceiveDelivery(m) \/ ReceiveState(m) \/ AcceptOrder(m) \/ ReceiveHandoff(m)
      PROVE  MarkerInv'
  <2>1. \E pc : threads' = threads \cup {NewThread(m, pc)}
    BY <1>2 DEF ReceiveDelivery, ReceiveState, AcceptOrder, ReceiveHandoff, Receive
  <2>2. m.type # "MARKER" /\ net' \subseteq net
        /\ UNCHANGED <<triggered, recorded_snapshots, local_states, completed>>
    BY <1>2 DEF ReceiveDelivery, ReceiveState, AcceptOrder, ReceiveHandoff, Receive
  <2>3. \A t \in threads' \ threads : t.msg = m
    BY <2>1 DEF NewThread
  <2>4. QED
    BY <2>2, <2>3, MarkerShrinks
<1>3. ASSUME NEW t \in threads,
             \/ CoordinatorStep(t) \/ HandleOrder(t) \/ OrderConfirmed(t) \/ PreparingFood(t)
             \/ FoodReady(t) \/ HandToRunner(t) \/ NothingToComplete(t) \/ ReleaseLock(t)
             \/ PickedUp(t) \/ InTransit(t) \/ Delivered(t) \/ SendDelivery(t) \/ ReportState(t)
             \/ (CheckMarker(t) /\ DuplicateMarker(t))
      PROVE  MarkerInv'
  <2>1. /\ UNCHANGED <<triggered, recorded_snapshots, local_states, completed>>
        /\ \A m \in net' \ net : m.type # "MARKER"
    BY <1>3 DEF CoordinatorStep, ConfirmDelivery, HandleState, CountStates, CheckSnapshotConsistency,
                HandleOrder, OrderConfirmed, PreparingFood, FoodReady, OrderEvent, HandToRunner,
                NothingToComplete, ReleaseLock, PickedUp, InTransit, Delivered, DeliveryEvent,
                SendDelivery, ReportState, CheckMarker, DuplicateMarker, Msg
  <2>2. \/ threads' \subseteq threads
        \/ (t.msg.type # "MARKER" /\ \E pc : Goto(t, pc))
    <3>1. CASE CoordinatorStep(t)
      BY <3>1, HandlerOf DEF CoordinatorStep, ConfirmDelivery, HandleState, CountStates,
                             CheckSnapshotConsistency, Finish, StatePc
    <3>2. CASE HandleOrder(t) \/ OrderConfirmed(t) \/ PreparingFood(t) \/ FoodReady(t)
               \/ PickedUp(t) \/ InTransit(t) \/ Delivered(t)
      BY <3>2, HandlerOf DEF HandleOrder, OrderConfirmed, PreparingFood, FoodReady, OrderEvent,
                             PickedUp, InTransit, Delivered, DeliveryEvent
    <3>3. CASE HandToRunner(t) \/ NothingToComplete(t) \/ ReleaseLock(t) \/ SendDelivery(t)
               \/ ReportState(t) \/ (CheckMarker(t) /\ DuplicateMarker(t))
      BY <3>3 DEF HandToRunner, NothingToComplete, ReleaseLock, SendDelivery, ReportState,
                  DuplicateMarker, Finish
    <3>4. QED
      BY <1>3, <3>1, <3>2, <3>3
  <2>3. \A u \in threads' \ threads : u.msg.type # "MARKER"
    BY <2>2, ThreadParts DEF Goto
  <2>4. QED
    BY <2>1, <2>3, MarkerShrinks
<1>4. QED
  BY <1>1, <1>2, <1>3 DEF Next, Command, Arrival, HandlerStep, RestaurantStep,
                          RunnerStep, CheckMarker, MarkerStep

\* A thread that goes on handles the same message as before.
LEMMA MarkerMoves ==
    ASSUME TypeOK, NEW t \in threads,
           (\E pc : Goto(t, pc)) \/ (\E pc, c : Keep(t, pc, c))
    PROVE  \A p, s :
              /\ MarkerThreads(p, s)' = {} <=> MarkerThreads(p, s) = {}
              /\ (\A x, y \in MarkerThreads(p, s) : x = y) =>
                    \A x, y \in MarkerThreads(p, s)' : x = y
<1>1. PICK u : threads' = (threads \ {t}) \cup {u} /\ u.msg = t.msg
  <2>1. CASE \E pc : Goto(t, pc)
    <3>1. PICK pc : Goto(t, pc)
      BY <2>1
    <3> DEFINE u == [t EXCEPT !.pc = pc]
    <3>2. threads' = (threads \ {t}) \cup {u} /\ u.msg = t.msg
      BY <3>1, ThreadParts DEF Goto
    <3>3. QED
      BY <3>2
  <2>2. CASE \E pc, c : Keep(t, pc, c)
    <3>1. PICK pc, c : Keep(t, pc, c)
      BY <2>2
    <3> DEFINE u == [t EXCEPT !.pc = pc, !.saved = c]
    <3>2. u.msg = t.msg
      BY ThreadParts
    <3>3. threads' = (threads \ {t}) \cup {u}
      BY <3>1 DEF Keep
    <3>4. QED
      BY <3>2, <3>3
  <2>3. QED
    BY <2>1, <2>2
<1> SUFFICES ASSUME NEW p, NEW s
             PROVE  /\ MarkerThreads(p, s)' = {} <=> MarkerThreads(p, s) = {}
                    /\ (\A x, y \in MarkerThreads(p, s) : x = y) =>
                          \A x, y \in MarkerThreads(p, s)' : x = y
  OBVIOUS
<1>2. CASE t \in MarkerThreads(p, s)
  <2>1. MarkerThreads(p, s)' = (MarkerThreads(p, s) \ {t}) \cup {u}
    BY <1>1, <1>2 DEF MarkerThreads
  <2>2. QED
    BY <1>2, <2>1
<1>3. CASE t \notin MarkerThreads(p, s)
  <2>1. MarkerThreads(p, s)' = MarkerThreads(p, s)
    BY <1>1, <1>3 DEF MarkerThreads
  <2>2. QED
    BY <2>1
<1>4. QED
  BY <1>2, <1>3

\* P0 triggers a snapshot.
LEMMA MarkerInitiate ==
    ASSUME Facts, MarkerInv, NEW s0 \in Snapshots, InitiateSnapshot(s0)
    PROVE  MarkerInv'
<1> USE DEF Facts, recorderVars, coordinatorVars
<1>1. /\ \A s \in Snapshots : /\ triggered[s] \in Nat
                              /\ triggered'[s] = IF s = s0 THEN triggered[s] + 1 ELSE triggered[s]
      /\ \A r \in Restaurants : local_states'[r] = local_states[r] /\ completed'[r] = completed[r]
      /\ UNCHANGED <<threads, recorded_snapshots>>
  <2>1. \A r \in Restaurants : r \in Recorders /\ r # P0
    BY TopologyAssumption DEF Recorders
  <2>2. QED
    BY <2>1 DEF InitiateSnapshot, TypeOK
<1>2. net' = net \cup {Msg("MARKER", P0, r, clock'[P0], s0, ZeroClock) : r \in Restaurants}
  BY DEF InitiateSnapshot
<1>3. MarkerWay'
  BY <1>2 DEF MarkerInv, MarkerWay, Msg
<1>4. \A p, s : MarkerThreads(p, s)' = MarkerThreads(p, s)
  BY <1>1 DEF MarkerThreads
<1>5. \A p, s : s # s0 \/ p \notin Restaurants => MarkerMsgs(p, s)' = MarkerMsgs(p, s)
  BY <1>2 DEF MarkerMsgs, Msg
<1>6. ASSUME NEW s \in Snapshots, triggered'[s] <= 1, NEW r \in Restaurants PROVE MarkerFor(r, s)'
  <2>1. triggered[s] <= 1 /\ (s = s0 => triggered[s] = 0 /\ triggered'[s] = 1)
    BY <1>1, <1>6
  <2>2. MarkerFor(r, s)
    BY <2>1 DEF MarkerInv
  <2>3. Partner[r] \notin Restaurants
    BY TopologyAssumption
  <2>4. Unmarked(Partner[r], s) => Unmarked(Partner[r], s)'
    BY <1>1, <1>4, <1>5, <2>3 DEF Unmarked
  <2>5. CASE s # s0
    BY <1>1, <1>4, <1>5, <2>2, <2>3, <2>4, <2>5 DEF MarkerFor
  <2>6. CASE s = s0
    <3>1. MarkerMsgs(r, s) = {} /\ MarkerThreads(r, s) = {} /\ s \notin local_states[r]
      BY <2>1, <2>2, <2>6 DEF MarkerFor
    <3>2. MarkerMsgs(r, s)' = {Msg("MARKER", P0, r, clock'[P0], s0, ZeroClock)}
      BY <1>2, <2>6, <3>1 DEF MarkerMsgs, Msg
    <3>3. AtMostOne(MarkerMsgs(r, s), MarkerThreads(r, s))'
      BY <1>4, <3>1, <3>2 DEF AtMostOne
    <3>4. AtMostOne(MarkerMsgs(Partner[r], s), MarkerThreads(Partner[r], s))'
      BY <1>4, <1>5, <2>2, <2>3 DEF MarkerFor
    <3>5. QED
      BY <1>1, <1>4, <1>5, <2>1, <2>2, <2>3, <2>4, <2>6, <3>1, <3>3, <3>4 DEF MarkerFor
  <2>7. QED
    BY <2>5, <2>6
<1>7. QED
  BY <1>3, <1>6 DEF MarkerInv

\* A marker comes to a restaurant or to a runner.
LEMMA MarkerArrives ==
    ASSUME Facts, MarkerInv, NEW m \in net, ReceiveMarker(m) \/ ReceiveRunnerMarker(m)
    PROVE  MarkerInv'
<1> USE DEF Facts, recorderVars, coordinatorVars
<1>1. PICK pc : threads' = threads \cup {NewThread(m, pc)} /\ pc # "forward"
  BY DEF ReceiveMarker, ReceiveRunnerMarker, Receive
<1>2. m.type = "MARKER" /\ net' = net \ {m}
      /\ UNCHANGED <<triggered, local_states, completed, recorded_snapshots>>
  BY DEF ReceiveMarker, ReceiveRunnerMarker, Receive
<1> DEFINE n == NewThread(m, pc)
<1>3. n.msg = m /\ n.pc = pc /\ threads' = threads \cup {n}
  BY <1>1 DEF NewThread
<1> HIDE DEF n
<1>4. MarkerWay'
  BY <1>2 DEF MarkerInv, MarkerWay
<1>5. \A p, s : p # m.to \/ s # m.id =>
         MarkerMsgs(p, s)' = MarkerMsgs(p, s) /\ MarkerThreads(p, s)' = MarkerThreads(p, s)
  BY <1>2, <1>3 DEF MarkerMsgs, MarkerThreads
<1>6. /\ m \in MarkerMsgs(m.to, m.id)
      /\ MarkerMsgs(m.to, m.id)' = MarkerMsgs(m.to, m.id) \ {m}
      /\ MarkerThreads(m.to, m.id)' = MarkerThreads(m.to, m.id) \cup {n}
  BY <1>2, <1>3 DEF MarkerMsgs, MarkerThreads
<1>7. \A p, s : AtMostOne(MarkerMsgs(p, s), MarkerThreads(p, s)) =>
                   AtMostOne(MarkerMsgs(p, s), MarkerThreads(p, s))'
  <2> SUFFICES ASSUME NEW p, NEW s, AtMostOne(MarkerMsgs(p, s), MarkerThreads(p, s))
               PROVE  AtMostOne(MarkerMsgs(p, s), MarkerThreads(p, s))'
    OBVIOUS
  <2>1. CASE p = m.to /\ s = m.id
    <3>1. MarkerMsgs(p, s)' = {} /\ MarkerThreads(p, s)' = {n}
      BY <1>6, <2>1 DEF AtMostOne
    <3>2. QED
      BY <3>1 DEF AtMostOne
  <2>2. CASE p # m.to \/ s # m.id
    BY <1>5, <2>2 DEF AtMostOne
  <2>3. QED
    BY <2>1, <2>2
<1>8. ASSUME NEW s \in Snapshots, triggered[s] <= 1, NEW r \in Restaurants PROVE MarkerFor(r, s)'
  <2>1. MarkerFor(r, s)
    BY <1>8 DEF MarkerInv
  <2>2. \A p : MarkerMsgs(p, s)' \subseteq MarkerMsgs(p, s)
    BY <1>2 DEF MarkerMsgs
  <2>3. Unmarked(Partner[r], s) => Unmarked(Partner[r], s)'
    BY <1>2, <1>5, <1>6 DEF Unmarked
  <2>4. \A t \in MarkerThreads(r, s)' : t.pc = "forward" => t \in MarkerThreads(r, s)
    BY <1>1, <1>3 DEF MarkerThreads
  <2>5. triggered[s] = 0 => r # m.to \/ s # m.id
    BY <1>6, <2>1 DEF MarkerFor
  <2>6. triggered[s] = 0 => MarkerMsgs(r, s)' = {} /\ MarkerThreads(r, s)' = {}
    BY <1>5, <2>1, <2>5 DEF MarkerFor
  <2>7. QED
    BY <1>2, <1>7, <2>1, <2>2, <2>3, <2>4, <2>6 DEF MarkerFor
<1>9. QED
  BY <1>2, <1>4, <1>8 DEF MarkerInv

\* The first section under the lock of a restaurant.
LEMMA MarkerRecorded ==
    ASSUME Facts, MarkerInv, NEW t \in threads, RecordMarker(t)
    PROVE  MarkerInv'
<1> USE DEF Facts, recorderVars, coordinatorVars
<1> DEFINE r0 == t.msg.to
           s0 == t.msg.id
<1>1. /\ r0 \in Restaurants /\ s0 \in Snapshots /\ t.msg.type = "MARKER" /\ t.pc = "record"
      /\ \A r \in Restaurants : r \in Recorders
  BY HandlerOf DEF RecordMarker, Recorders
<1>2. UNCHANGED <<net, triggered, recorded_snapshots>>
  BY DEF RecordMarker
<1>3. \A p, s : MarkerMsgs(p, s)' = MarkerMsgs(p, s)
  BY <1>2 DEF MarkerMsgs
<1>4. MarkerWay'
  BY <1>2 DEF MarkerInv, MarkerWay
<1>5. (\E pc : Goto(t, pc)) \/ (\E pc, c : Keep(t, pc, c))
  BY DEF RecordMarker, FirstMarker, LaterMarker
<1>6. \A p, s : AtMostOne(MarkerMsgs(p, s), MarkerThreads(p, s)) =>
                   AtMostOne(MarkerMsgs(p, s), MarkerThreads(p, s))'
  BY <1>3, <1>5, MarkerMoves DEF AtMostOne
<1>7. \A p, s : Unmarked(p, s) => Unmarked(p, s)'
  BY <1>2, <1>3, <1>5, MarkerMoves DEF Unmarked
<1>8. \A p, s : MarkerThreads(p, s) = {} => MarkerThreads(p, s)' = {}
  BY <1>5, MarkerMoves
<1>9. /\ local_states \in [Recorders -> SUBSET Snapshots]
      /\ completed \in [Recorders -> SUBSET Snapshots]
  BY DEF TypeOK
<1>10. t \in MarkerThreads(r0, s0)
  BY <1>1 DEF MarkerThreads
<1>11. CASE LaterMarker(t)
  <2>1. UNCHANGED <<local_states, completed>> /\ Goto(t, "close")
    BY <1>11 DEF LaterMarker
  <2>2. \A u \in threads' : u.pc = "forward" => u \in threads
    BY <2>1, ThreadParts DEF Goto
  <2>3. ASSUME NEW s \in Snapshots, triggered[s] <= 1, NEW r \in Restaurants PROVE MarkerFor(r, s)'
    <3>1. MarkerFor(r, s)
      BY <2>3 DEF MarkerInv
    <3>2. \A u \in MarkerThreads(r, s)' : u.pc = "forward" => u \in MarkerThreads(r, s)
      BY <2>2 DEF MarkerThreads
    <3>3. QED
      BY <1>2, <1>3, <1>6, <1>7, <1>8, <2>1, <3>1, <3>2 DEF MarkerFor
  <2>4. QED
    BY <1>2, <1>4, <2>3 DEF MarkerInv
<1>12. CASE FirstMarker(t)
  <2>1. s0 \notin local_states[r0] /\ Goto(t, "forward")
    BY <1>12 DEF FirstMarker
  <2>2. /\ local_states' = [local_states EXCEPT ![r0] = @ \cup {s0}]
        /\ completed' = [completed EXCEPT ![r0] = @ \ {s0}]
    BY <1>12 DEF FirstMarker
  <2>3. \A r \in Restaurants :
           /\ local_states'[r] = IF r = r0 THEN local_states[r] \cup {s0} ELSE local_states[r]
           /\ completed'[r] = IF r = r0 THEN completed[r] \ {s0} ELSE completed[r]
    BY <1>1, <1>9, <2>2
  <2>4. \A u \in threads' : u \in threads \/ u.msg = t.msg
    BY <2>1, ThreadParts DEF Goto
  <2>5. ASSUME NEW s \in Snapshots, triggered[s] <= 1, NEW r \in Restaurants PROVE MarkerFor(r, s)'
    <3>1. MarkerFor(r, s)
      BY <2>5 DEF MarkerInv
    <3>2. CASE r = r0 /\ s = s0
      <4>1. Unmarked(Partner[r], s)' /\ s \notin completed'[r]
        BY <1>7, <2>1, <2>3, <3>1, <3>2 DEF MarkerFor
      <4>2. MarkerMsgs(r, s)' = {}
        BY <1>3, <1>10, <3>1, <3>2 DEF MarkerFor, AtMostOne
      <4>3. triggered[s] # 0
        BY <1>10, <3>1, <3>2 DEF MarkerFor
      <4>4. QED
        BY <1>2, <1>3, <1>6, <3>1, <4>1, <4>2, <4>3 DEF MarkerFor
    <3>3. CASE r # r0 \/ s # s0
      <4>1. \A u \in MarkerThreads(r, s)' : u \in MarkerThreads(r, s)
        BY <2>4, <3>3 DEF MarkerThreads
      <4>2. /\ s \in local_states'[r] <=> s \in local_states[r]
            /\ s \in completed'[r] <=> s \in completed[r]
        BY <2>3, <3>3
      <4>3. QED
        BY <1>2, <1>3, <1>6, <1>7, <1>8, <3>1, <4>1, <4>2 DEF MarkerFor
    <3>4. QED
      BY <3>2, <3>3
  <2>6. QED
    BY <1>2, <1>4, <2>5 DEF MarkerInv
<1>13. QED
  BY <1>11, <1>12 DEF RecordMarker

\* A restaurant sends the marker on to its runner.
LEMMA MarkerForwarded ==
    ASSUME PartnersDiffer, Facts, MarkerInv, NEW t \in threads, ForwardMarker(t)
    PROVE  MarkerInv'
<1> USE DEF Facts, recorderVars, coordinatorVars
<1> DEFINE r0 == t.msg.to
           s0 == t.msg.id
           f0 == Partner[r0]
           new == Msg("MARKER", r0, f0, clock'[r0], s0, ZeroClock)
<1>1. /\ r0 \in Restaurants /\ s0 \in Snapshots /\ t.msg.type = "MARKER" /\ t.pc = "forward"
      /\ s0 \in local_states[r0] /\ f0 \in Runners /\ Restaurants \cap Runners = {}
  BY HandlerOf, TopologyAssumption DEF ForwardMarker, OnceInv, Opened
<1>2. /\ Goto(t, "close") /\ net' = net \cup {new}
      /\ UNCHANGED <<triggered, local_states, completed, recorded_snapshots>>
  BY DEF ForwardMarker
<1>3. new.type = "MARKER" /\ new.from = r0 /\ new.to = f0 /\ new.id = s0
  BY DEF Msg
<1> HIDE DEF new
<1>4. MarkerWay'
  BY <1>1, <1>2, <1>3 DEF MarkerInv, MarkerWay
<1>5. \A p, s : p # f0 \/ s # s0 => MarkerMsgs(p, s)' = MarkerMsgs(p, s)
  BY <1>2, <1>3 DEF MarkerMsgs
<1>6. MarkerMsgs(f0, s0)' = MarkerMsgs(f0, s0) \cup {new}
  BY <1>2, <1>3 DEF MarkerMsgs
<1>7. t \in MarkerThreads(r0, s0)
  BY <1>1 DEF MarkerThreads
<1>8. \A u \in threads' : u.pc = "forward" => u \in threads /\ u # t
  BY <1>2, ThreadParts DEF Goto
<1>9. \A p, s : MarkerThreads(p, s)' = {} <=> MarkerThreads(p, s) = {}
  BY <1>2, MarkerMoves
<1>10. \A p, s : AtMostOne(MarkerMsgs(p, s), MarkerThreads(p, s)) /\ (p # f0 \/ s # s0) =>
                    AtMostOne(MarkerMsgs(p, s), MarkerThreads(p, s))'
  BY <1>2, <1>5, MarkerMoves DEF AtMostOne
<1>11. ASSUME NEW s \in Snapshots, triggered[s] <= 1, NEW r \in Restaurants PROVE MarkerFor(r, s)'
  <2>1. MarkerFor(r, s)
    BY <1>11 DEF MarkerInv
  <2>2. r # f0
    BY <1>1
  <2>3. CASE r = r0 /\ s = s0
    <3>1. Unmarked(f0, s0) /\ MarkerThreads(r0, s0) = {t}
      BY <1>1, <1>7, <2>1, <2>3 DEF MarkerFor, AtMostOne
    <3>2. MarkerMsgs(f0, s0)' = {new} /\ MarkerThreads(f0, s0)' = {}
      BY <1>6, <1>9, <3>1 DEF Unmarked
    <3>3. \A u \in MarkerThreads(r0, s0)' : u.pc # "forward"
      <4>1. ASSUME NEW u \in MarkerThreads(r0, s0)', u.pc = "forward" PROVE FALSE
        <5>1. u \in threads /\ u # t
          BY <1>8, <4>1 DEF MarkerThreads
        <5>2. u \in MarkerThreads(r0, s0)
          BY <4>1, <5>1 DEF MarkerThreads
        <5>3. QED
          BY <3>1, <5>1, <5>2
      <4>2. QED
        BY <4>1
    <3>4. triggered[s] # 0
      BY <1>7, <2>1, <2>3 DEF MarkerFor
    <3>5. AtMostOne(MarkerMsgs(f0, s0), MarkerThreads(f0, s0))'
      BY <3>2 DEF AtMostOne
    <3>6. s0 \notin recorded_snapshots'[f0]
      BY <1>2, <3>1 DEF Unmarked
    <3>7. AtMostOne(MarkerMsgs(r0, s0), MarkerThreads(r0, s0))'
      BY <1>10, <2>1, <2>2, <2>3 DEF MarkerFor
    <3>8. QED
      BY <1>1, <1>2, <1>5, <2>1, <2>2, <2>3, <3>3, <3>4, <3>5, <3>6, <3>7 DEF MarkerFor
  <2>4. CASE r # r0 \/ s # s0
    <3>1. Partner[r] # f0 \/ s # s0
      BY <1>1, <2>4 DEF PartnersDiffer
    <3>2. Unmarked(Partner[r], s) => Unmarked(Partner[r], s)'
      BY <1>2, <1>5, <1>9, <3>1 DEF Unmarked
    <3>3. \A u \in MarkerThreads(r, s)' : u.pc = "forward" => u \in MarkerThreads(r, s)
      BY <1>8 DEF MarkerThreads
    <3>4. AtMostOne(MarkerMsgs(Partner[r], s), MarkerThreads(Partner[r], s))'
          /\ AtMostOne(MarkerMsgs(r, s), MarkerThreads(r, s))'
      BY <1>10, <2>1, <2>2, <3>1 DEF MarkerFor
    <3>5. QED
      BY <1>2, <1>5, <1>9, <2>1, <2>2, <3>1, <3>2, <3>3, <3>4 DEF MarkerFor
  <2>5. QED
    BY <2>3, <2>4
<1>12. QED
  BY <1>2, <1>4, <1>11 DEF MarkerInv

\* A restaurant completes the snapshot and reports, or a runner records it.
LEMMA MarkerCompleted ==
    ASSUME Facts, MarkerInv, NEW t \in threads,
           CompleteSnapshot(t) \/ SendState(t) \/ (CheckMarker(t) /\ StampState(t))
    PROVE  MarkerInv'
<1> USE DEF Facts, recorderVars, coordinatorVars
<1> DEFINE p0 == t.msg.to
           s0 == t.msg.id
<1>1. /\ s0 \in Snapshots /\ t.msg.type = "MARKER" /\ t.pc # "forward"
      /\ \A r \in Restaurants : r \in Recorders /\ Partner[r] \in Runners
  BY HandlerOf, Roles DEF CompleteSnapshot, SendState, CheckMarker
<1>2. /\ UNCHANGED <<triggered, local_states>>
      /\ net \subseteq net' /\ \A m \in net' \ net : m.type # "MARKER"
      /\ (\E c : Keep(t, "report", c)) \/ Goto(t, "release")
  BY DEF CompleteSnapshot, SendState, CheckMarker, StampState, Msg
<1>3. t \in MarkerThreads(p0, s0)
  BY <1>1 DEF MarkerThreads
<1>4. \A p, s : MarkerMsgs(p, s)' = MarkerMsgs(p, s)
  BY <1>2 DEF MarkerMsgs
<1>5. \A p, s : MarkerThreads(p, s)' = {} <=> MarkerThreads(p, s) = {}
  BY <1>2, MarkerMoves
<1>6. \A p, s : AtMostOne(MarkerMsgs(p, s), MarkerThreads(p, s)) =>
                   AtMostOne(MarkerMsgs(p, s), MarkerThreads(p, s))'
  BY <1>2, <1>4, MarkerMoves DEF AtMostOne
<1>7. MarkerWay'
  BY <1>2 DEF MarkerInv, MarkerWay
<1>8. \A u \in threads' : u.pc = "forward" => u \in threads
  <2>1. ASSUME NEW c, Keep(t, "report", c) PROVE \A u \in threads' \ threads : u.pc = "report"
    BY <2>1, Moved
  <2>2. ASSUME Goto(t, "release") PROVE \A u \in threads' \ threads : u.pc = "release"
    BY <2>2, ThreadParts DEF Goto
  <2>3. QED
    BY <1>2, <2>1, <2>2
<1>9. /\ \A r \in Restaurants : \A s : r # p0 \/ s # s0 =>
            (s \in completed'[r] <=> s \in completed[r])
      /\ \A f \in Runners : \A s : f # p0 \/ s # s0 =>
            (s \in recorded_snapshots'[f] <=> s \in recorded_snapshots[f])
  <2>1. CASE CompleteSnapshot(t)
    BY <1>1, <2>1 DEF CompleteSnapshot, TypeOK
  <2>2. CASE CheckMarker(t) /\ StampState(t)
    BY <1>1, <2>2 DEF CheckMarker, StampState, TypeOK
  <2>3. CASE SendState(t)
    BY <2>3 DEF SendState
  <2>4. QED
    BY <2>1, <2>2, <2>3
<1>10. ASSUME NEW s \in Snapshots, triggered[s] <= 1, NEW r \in Restaurants PROVE MarkerFor(r, s)'
  <2>1. MarkerFor(r, s)
    BY <1>10 DEF MarkerInv
  <2>2. \A u \in MarkerThreads(r, s)' : u.pc = "forward" => u \in MarkerThreads(r, s)
    BY <1>8 DEF MarkerThreads
  <2>3. \A u \in MarkerThreads(r, s) : u.pc = "forward" => p0 # r \/ s0 # s
    BY <1>1, <1>3, <2>1 DEF MarkerFor, AtMostOne
  <2>4. Unmarked(Partner[r], s) => p0 # Partner[r] \/ s0 # s
    BY <1>3 DEF Unmarked
  <2>5. Unmarked(Partner[r], s) => Unmarked(Partner[r], s)'
    BY <1>1, <1>4, <1>5, <1>9, <2>4 DEF Unmarked
  <2>6. MarkerMsgs(Partner[r], s) # {} => p0 # Partner[r] \/ s0 # s
    BY <1>3, <2>1 DEF MarkerFor, AtMostOne
  <2>7. MarkerMsgs(Partner[r], s)' # {} => s \notin recorded_snapshots'[Partner[r]]
    BY <1>1, <1>4, <1>9, <2>1, <2>6 DEF MarkerFor
  <2>8. \A u \in MarkerThreads(r, s)' :
           u.pc = "forward" => s \notin completed'[r] /\ Unmarked(Partner[r], s)'
    BY <1>9, <2>1, <2>2, <2>3, <2>5 DEF MarkerFor
  <2>9. QED
    BY <1>2, <1>4, <1>5, <1>6, <2>1, <2>5, <2>7, <2>8 DEF MarkerFor
<1>11. QED
  BY <1>2, <1>7, <1>10 DEF MarkerInv

\* Every step keeps the order of the markers.
LEMMA MarkerNext ==
    ASSUME PartnersDiffer, Facts, MarkerInv, [Next]_vars
    PROVE  MarkerInv'
<1>1. CASE \E t \in threads : MarkerStep(t)
  BY <1>1, MarkerRecorded, MarkerForwarded, MarkerCompleted DEF MarkerStep
<1>2. CASE ~ \E t \in threads : MarkerStep(t)
  BY <1>2, MarkerInitiate, MarkerArrives, MarkerOthers
<1>3. QED
  BY <1>1, <1>2

----------------------------------------------------------------------------
(* The markers and the cut.                                                *)

\* No marker is sent after its sender's cut or received after its receiver's.
MarkersBefore ==
    \A s \in Snapshots : triggered[s] <= 1 =>
        /\ \A m \in Pending : m.type = "MARKER" /\ m.id = s => <<SendEvent(m), s>> \notin late
        /\ \A p \in Proc : <<"MARKER", p, s>> \notin orphans[s] \cup crossed[s]

\* Only an order waits for the thread that receives it.
LEMMA MarkersPending ==
    ASSUME TypeOK, NEW m \in Pending, m.type = "MARKER"
    PROVE  m \in net
BY HandlerOf DEF Pending

\* The receiver of a marker has still to cut.
LEMMA MarkerFindsNoCut ==
    ASSUME Facts, MarkerInv, NEW m \in net, m.type = "MARKER", triggered[m.id] <= 1
    PROVE  ~HasCut(m.to, m.id)
<1>1. m.id \in Snapshots /\ m \in MarkerMsgs(m.to, m.id)
  BY MessageParts DEF Facts, TypeOK, MarkerMsgs
<1>2. CASE m.to \in Restaurants
  <2>1. m.id \notin local_states[m.to]
    BY <1>1, <1>2 DEF MarkerInv, MarkerFor
  <2>2. QED
    BY <1>2, <2>1, TopologyAssumption DEF HasCut, Facts, OnceInv
<1>3. CASE m.from \in Restaurants /\ m.to = Partner[m.from]
  <2>1. m.id \notin recorded_snapshots[m.to] /\ m.to \in Runners
    BY <1>1, <1>3, Roles DEF MarkerInv, MarkerFor
  <2>2. QED
    BY <2>1, TopologyAssumption DEF HasCut
<1>4. QED
  BY <1>2, <1>3 DEF MarkerInv, MarkerWay

\* The sender of a new marker has still to cut, and counts an event of its own.
LEMMA MarkerSent ==
    ASSUME Facts, MainOnce, MarkerInv, [Next]_vars,
           NEW m \in net' \ net, m.type = "MARKER", triggered'[m.id] <= 1
    PROVE  ~HasCut(m.from, m.id) /\ m.from \in Proc /\ m.clock = clock'[m.from]
           /\ LocalEvent(m.from)
<1> USE DEF Facts, recorderVars, coordinatorVars
<1>1. m.from \in Proc /\ m.clock = clock'[m.from] /\ LocalEvent(m.from)
  BY NetChange DEF Msg
<1>2. CASE \E s \in Snapshots : InitiateSnapshot(s)
  <2>1. PICK s \in Snapshots : InitiateSnapshot(s)
    BY <1>2
  <2>2. m.from = P0 /\ m.id = s
    BY <2>1 DEF InitiateSnapshot, Msg
  <2>3. triggered[s] = 0
    BY <2>1, <2>2 DEF InitiateSnapshot, TypeOK
  <2>4. ~HasCut(P0, s)
    BY <2>3 DEF MainOnce
  <2>5. QED
    BY <1>1, <2>2, <2>4
<1>3. CASE ~ \E s \in Snapshots : InitiateSnapshot(s)
  <2>1. PICK t \in threads : ForwardMarker(t)
    <3>1. ~(UNCHANGED vars \/ MainStep \/ ViewSnapshots \/ Arrival \/ Failure
              \/ \E o \in Orders, r \in Restaurants : CreateOrder(o, r))
      BY DEF vars, CreateOrder, ViewSnapshots, MainStep, DispatchOrder, RecordOwnState,
             StoreOwnState, CheckViewed, Arrival,
             ReceiveDelivery, ReceiveState, AcceptOrder, ReceiveMarker, ReceiveHandoff,
             ReceiveRunnerMarker, Receive, Failure, Lose, Msg
    <3>2. PICK t \in threads : CoordinatorStep(t) \/ RestaurantStep(t) \/ RunnerStep(t)
      BY <1>3, <3>1 DEF Next, Command, HandlerStep
    <3>3. ~CoordinatorStep(t)
      BY DEF CoordinatorStep, ConfirmDelivery, HandleState, CountStates, CheckSnapshotConsistency
    <3>4. ~RunnerStep(t)
      BY DEF RunnerStep, PickedUp, InTransit, Delivered, DeliveryEvent, SendDelivery,
             CheckMarker, ReportState, Msg
    <3>5. RestaurantStep(t) => ForwardMarker(t)
      BY DEF RestaurantStep, HandleOrder, OrderConfirmed, PreparingFood, FoodReady, OrderEvent,
             HandToRunner, RecordMarker, NothingToComplete, CompleteSnapshot, SendState,
             ReleaseLock, Msg
    <3>6. QED
      BY <3>2, <3>3, <3>4, <3>5
  <2>2. /\ t.pc = "forward" /\ t.msg.to \in Restaurants /\ t.msg.type = "MARKER"
        /\ t.msg.id \in Snapshots
    BY <2>1, HandlerOf DEF ForwardMarker
  <2>3. m.from = t.msg.to /\ m.id = t.msg.id /\ triggered' = triggered
    BY <2>1 DEF ForwardMarker, Msg
  <2>4. t \in MarkerThreads(m.from, m.id)
    BY <2>2, <2>3 DEF MarkerThreads
  <2>5. m.id \notin completed[m.from]
    BY <2>2, <2>3, <2>4 DEF MarkerInv, MarkerFor
  <2>6. QED
    BY <1>1, <2>2, <2>3, <2>5, TopologyAssumption DEF HasCut
<1>4. QED
  BY <1>2, <1>3

\* Every step keeps the markers before the cut.
LEMMA MarkersNext ==
    ASSUME PartnersDiffer, HistoryInv, MarkerInv, MarkersBefore, CutNext
    PROVE  MarkersBefore'
<1> USE DEF HistoryInv
<1>1. [Next]_vars
  BY DEF CutNext
<1> SUFFICES ASSUME NEW s \in Snapshots, triggered'[s] <= 1
             PROVE  /\ \A m \in Pending' :
                          m.type = "MARKER" /\ m.id = s => <<SendEvent(m), s>> \notin late'
                    /\ \A p \in Proc : <<"MARKER", p, s>> \notin orphans'[s] \cup crossed'[s]
  BY DEF MarkersBefore, SendEvent
<1>2. triggered[s] <= 1
  BY <1>1, TriggeredGrows DEF Facts
<1>3. ASSUME NEW m \in Pending', m.type = "MARKER", m.id = s
      PROVE  <<SendEvent(m), s>> \notin late'
  <2>1. TypeOK /\ TypeOK'
    BY <1>1, TypeStep DEF Facts
  <2>2. m \in net'
    <3>1. \A t \in threads' : t.pc = "handle" => t.msg.type = "ORDER"
      BY <2>1 DEF TypeOK, Thread, InPlace, CookingPc, DeliveringPc, MarkerPc, RunnerMarkerPc, StatePc
    <3>2. QED
      BY <1>3, <3>1 DEF Pending
  <2>3. CASE m \in net
    <3>1. m \in Pending /\ SendEvent(m) \in Stamped
      BY <2>3 DEF Pending, Stamped
    <3>2. <<SendEvent(m), s>> \notin late
      BY <1>2, <1>3, <3>1 DEF MarkersBefore
    <3>3. QED
      BY <3>1, <3>2, LateChange
  <2>4. CASE m \notin net
    <3>1. ~HasCut(m.from, s) /\ m.from \in Proc /\ m.clock = clock'[m.from] /\ LocalEvent(m.from)
      BY <1>1, <1>3, <2>2, <2>4, MarkerSent
    <3>2. SendEvent(m) \notin Stamped
      <4>1. SUFFICES ASSUME SendEvent(m) \in Stamped PROVE FALSE
        OBVIOUS
      <4>2. Known(m.clock) /\ m.clock \in Clock
        BY <4>1, StampedKnown DEF SendEvent
      <4>3. m.clock[m.from] <= clock[m.from][m.from]
        BY <3>1, <4>2 DEF Known
      <4>4. clock'[m.from][m.from] = clock[m.from][m.from] + 1 /\ clock[m.from][m.from] \in Nat
        BY <3>1, <2>1 DEF LocalEvent, Tick, TypeOK, Clock
      <4>5. QED
        BY <3>1, <4>3, <4>4
    <3>3. <<SendEvent(m), s>> \notin late
      BY <3>2 DEF LateInv
    <3>4. QED
      BY <3>1, <3>3, LateChange DEF SendEvent
  <2>5. QED
    BY <2>3, <2>4
<1>4. ASSUME NEW m \in ReceivedNow, m.type = "MARKER", m.id = s
      PROVE  <<SendEvent(m), s>> \notin late /\ ~HasCut(m.to, s)
  <2>1. m \in Pending
    BY <1>1, Events DEF Quiet, Local, Takes
  <2>2. m \in net
    BY <1>4, <2>1, MarkersPending DEF Facts
  <2>3. QED
    BY <1>2, <1>4, <2>1, <2>2, MarkerFindsNoCut DEF MarkersBefore
<1>5. \A p \in Proc : <<"MARKER", p, s>> \notin orphans[s] \cup crossed[s]
  BY <1>2 DEF MarkersBefore
<1>6. /\ \A l \in orphans'[s] : l \in orphans[s] \/
            \E m \in ReceivedNow : l = Label(m) /\ <<SendEvent(m), s>> \in late
      /\ \A l \in crossed'[s] : l \in crossed[s] \/
            \E m \in ReceivedNow : l = Label(m) /\ HasCut(m.to, s)
  BY DEF CutNext
<1>7. \A p \in Proc : <<"MARKER", p, s>> \notin orphans'[s] \cup crossed'[s]
  BY <1>4, <1>5, <1>6 DEF Label
<1>8. QED
  BY <1>3, <1>7

\* If each restaurant has a runner of its own, the markers of a snapshot that
\* is triggered once lie before its cut: every process counts in the clock it
\* reports the sending of the markers it sends and the receipt of those it
\* receives.
THEOREM MarkersInside == ASSUME PartnersDiffer PROVE CutSpec => []MarkersInsideCut
<1>1. CutInit => MarkerInv /\ MarkersBefore
  <2> SUFFICES ASSUME CutInit PROVE MarkerInv /\ MarkersBefore
    OBVIOUS
  <2>1. net = {} /\ threads = {} /\ \A s \in Snapshots : orphans[s] = {} /\ crossed[s] = {}
    BY DEF CutInit, Init
  <2>2. \A p, s : MarkerMsgs(p, s) = {} /\ MarkerThreads(p, s) = {}
    BY <2>1 DEF MarkerMsgs, MarkerThreads
  <2>3. \A f \in Runners : recorded_snapshots[f] = {}
    BY DEF CutInit, Init
  <2>4. \A r \in Restaurants : local_states[r] = {}
    BY Roles DEF CutInit, Init
  <2>5. MarkerWay
    BY <2>1 DEF MarkerWay
  <2>6. \A f \in Runners : \A s : Unmarked(f, s)
    BY <2>2, <2>3 DEF Unmarked
  <2>7. \A r \in Restaurants : \A s : MarkerFor(r, s)
    BY <2>2, <2>4, <2>6, Roles DEF MarkerFor, AtMostOne
  <2>8. MarkersBefore
    BY <2>1 DEF MarkersBefore, Pending
  <2>9. QED
    BY <2>5, <2>7, <2>8 DEF MarkerInv
<1>2. HistoryInv /\ MarkerInv /\ MarkersBefore /\ CutNext => MarkerInv' /\ MarkersBefore'
  BY MarkerNext, MarkersNext DEF HistoryInv, CutNext
<1>3. MarkerInv /\ MarkersBefore /\ UNCHANGED cutVars => MarkerInv' /\ MarkersBefore'
  <2> SUFFICES ASSUME MarkerInv, MarkersBefore, UNCHANGED cutVars PROVE MarkerInv' /\ MarkersBefore'
    OBVIOUS
  <2>1. UNCHANGED <<net, threads, triggered, local_states, completed, recorded_snapshots,
                    late, orphans, crossed>>
    BY DEF cutVars, vars, recorderVars, coordinatorVars
  <2>2. \A p, s : MarkerMsgs(p, s)' = MarkerMsgs(p, s) /\ MarkerThreads(p, s)' = MarkerThreads(p, s)
                  /\ (Unmarked(p, s)' <=> Unmarked(p, s))
    BY <2>1 DEF MarkerMsgs, MarkerThreads, Unmarked
  <2>3. MarkerInv'
    <3>1. MarkerWay'
      BY <2>1 DEF MarkerInv, MarkerWay
    <3>2. \A r, s : MarkerFor(r, s)' <=> MarkerFor(r, s)
      BY <2>1, <2>2 DEF MarkerFor, AtMostOne
    <3>3. QED
      BY <2>1, <3>1, <3>2 DEF MarkerInv
  <2>4. MarkersBefore'
    BY <2>1 DEF MarkersBefore, Pending, SendEvent
  <2>5. QED
    BY <2>3, <2>4
<1>4. MarkersBefore => MarkersInsideCut
  BY DEF MarkersBefore, MarkersInsideCut
<1>5. QED
  BY <1>1, <1>2, <1>3, <1>4, HistoryInvariant, PTL DEF CutSpec

----------------------------------------------------------------------------
(* The clocks and the events that precede one another.                     *)

\* Events are numbered from one at each process.
Event == Proc \X (Nat \ {0})

\* The events that a clock counts.
Down(c) == {e \in Event : e[2] <= c[e[1]]}

Executed == {e \in Event : e[2] <= clock[e[1]][e[1]]}

\* What precedes what is an order of the events executed so far.
PastOrdered ==
    /\ DOMAIN past = Executed
    /\ \A e \in Executed : e \notin past[e] /\ past[e] \subseteq Executed
    /\ \A e \in Executed : \A d \in past[e] : past[d] \subseteq past[e]

\* Event e, if executed, and what precedes it in history h.
Before(h, e) == IF e \in DOMAIN h THEN {e} \cup h[e] ELSE {}

\* Clock c tells exactly which events these are.
Tells(h, c, e) == Before(h, e) = Down(c)

\* The clocks of the processes, of the messages and of the printed lines do.
ClocksTell ==
    /\ \A p \in Proc : Tells(past, clock[p], LastEvent(p, clock))
    /\ \A e \in Stamped : Tells(past, e[2], <<e[1], e[2][e[1]]>>)
    /\ \A line \in log :
          /\ line.proc \in Proc /\ line.clock \in Clock
          /\ EventOf(line) \in Executed /\ Tells(past, line.clock, EventOf(line))

\* A process that is about to confirm an order has counted its receipt.
ReceiptCounted ==
    \A t \in threads : t.pc = "confirm" => clock[t.msg.to][t.msg.to] > 0

LogInv == Facts /\ PastOrdered /\ ClocksTell /\ ReceiptCounted

\* A clock counts an event, and a merged clock what either counts.
LEMMA DownTick ==
    ASSUME NEW p \in Proc, NEW v \in Clock, NEW w \in Clock, w[p] = v[p] + 1,
           \A q \in Proc : q # p => w[q] = v[q]
    PROVE  Down(w) = Down(v) \cup {<<p, w[p]>>}
<1>1. \A q \in Proc : v[q] \in Nat /\ w[q] \in Nat
  BY DEF Clock
<1>2. <<p, w[p]>> \in Event
  BY <1>1 DEF Event
<1>3. ASSUME NEW e \in Event PROVE e \in Down(w) <=> e \in Down(v) \/ e = <<p, w[p]>>
  <2>1. e = <<e[1], e[2]>> /\ e[1] \in Proc /\ e[2] \in Nat
    BY DEF Event
  <2>2. CASE e[1] # p
    BY <2>1, <2>2 DEF Down
  <2>3. CASE e[1] = p
    BY <1>1, <2>1, <2>3 DEF Down
  <2>4. QED
    BY <2>2, <2>3
<1>4. QED
  BY <1>2, <1>3 DEF Down

\* The same of a received clock.
LEMMA DownMerge ==
    ASSUME NEW p \in Proc, NEW v \in Clock, NEW m \in Clock, NEW w \in Clock, m[p] <= v[p],
           \A q \in Proc : w[q] = (IF v[q] < m[q] THEN m[q] ELSE v[q]) + (IF q = p THEN 1 ELSE 0)
    PROVE  Down(w) = Down(v) \cup Down(m) \cup {<<p, w[p]>>}
<1>1. \A q \in Proc : v[q] \in Nat /\ w[q] \in Nat /\ m[q] \in Nat
  BY DEF Clock
<1>2. w[p] = v[p] + 1
  BY <1>1
<1>3. <<p, w[p]>> \in Event
  BY <1>1, <1>2 DEF Event
<1>4. ASSUME NEW e \in Event
      PROVE  e \in Down(w) <=> e \in Down(v) \/ e \in Down(m) \/ e = <<p, w[p]>>
  <2>1. e = <<e[1], e[2]>> /\ e[1] \in Proc /\ e[2] \in Nat
    BY DEF Event
  <2>2. CASE e[1] # p
    <3>1. w[e[1]] = IF v[e[1]] < m[e[1]] THEN m[e[1]] ELSE v[e[1]]
      BY <1>1, <2>1, <2>2
    <3>2. QED
      BY <1>1, <2>1, <2>2, <3>1 DEF Down
  <2>3. CASE e[1] = p
    BY <1>1, <1>2, <2>1, <2>3 DEF Down
  <2>4. QED
    BY <2>2, <2>3
<1>5. QED
  BY <1>3, <1>4 DEF Down

\* Which events are executed, and what precedes them, when process p counts one
\* that is preceded by the events in D.
Counts(p, D) ==
    /\ Executed' = Executed \cup {LastEvent(p, clock')}
    /\ LastEvent(p, clock') \notin Executed
    /\ DOMAIN past' = Executed'
    /\ \A e \in Executed : past'[e] = past[e]
    /\ past'[LastEvent(p, clock')] = D

\* The order of the events grows with it.
LEMMA OrderGrows ==
    ASSUME PastOrdered, NEW p, NEW D, Counts(p, D), D \subseteq Executed,
           \A d \in D : past[d] \subseteq D
    PROVE  /\ PastOrdered'
           /\ \A e : e # LastEvent(p, clock') => Before(past', e) = Before(past, e)
           /\ Before(past', LastEvent(p, clock')) = D \cup {LastEvent(p, clock')}
<1> DEFINE new == LastEvent(p, clock')
<1>1. /\ Executed' = Executed \cup {new} /\ new \notin Executed /\ DOMAIN past' = Executed'
      /\ \A e \in Executed : past'[e] = past[e]
      /\ past'[new] = D
  BY DEF Counts
<1> HIDE DEF new
<1>2. PastOrdered'
  <2>1. \A e \in Executed' : e \notin past'[e] /\ past'[e] \subseteq Executed'
    BY <1>1 DEF PastOrdered
  <2>2. \A e \in Executed' : \A d \in past'[e] : past'[d] \subseteq past'[e]
    BY <1>1 DEF PastOrdered
  <2>3. QED
    BY <1>1, <2>1, <2>2 DEF PastOrdered
<1>3. \A e : e # new => Before(past', e) = Before(past, e)
  BY <1>1 DEF PastOrdered, Before
<1>4. Before(past', new) = D \cup {new}
  BY <1>1 DEF Before
<1>5. QED
  BY <1>2, <1>3, <1>4 DEF new

\* What precedes an event is closed under what precedes.
LEMMA PrecedingClosed ==
    ASSUME PastOrdered, NEW x
    PROVE  /\ Before(past, x) \subseteq Executed
           /\ \A d \in Before(past, x) : past[d] \subseteq Before(past, x)
<1>1. CASE x \in DOMAIN past
  <2>1. x \in Executed /\ Before(past, x) = {x} \cup past[x]
    BY <1>1 DEF PastOrdered, Before
  <2>2. past[x] \subseteq Executed /\ \A d \in past[x] : past[d] \subseteq past[x]
    BY <2>1 DEF PastOrdered
  <2>3. QED
    BY <2>1, <2>2
<1>2. CASE x \notin DOMAIN past
  BY <1>2 DEF Before
<1>3. QED
  BY <1>1, <1>2

\* The step in which process p counts an event, and what it adds to the history.
LEMMA LogCounts ==
    ASSUME Facts, PastOrdered, LogStep, NEW p \in Proc,
           clock'[p] \in Clock, clock'[p][p] = clock[p][p] + 1,
           \A q \in Proc : q # p => clock'[q] = clock[q]
    PROVE  /\ Counts(p, Before(past, LastEvent(p, clock))
                            \cup UNION {Before(past, SendOf(m)) : m \in ReceivedNow})
           /\ \E kind : log' = log \cup {[proc |-> p, kind |-> kind, clock |-> clock'[p]]}
<1> DEFINE new == LastEvent(p, clock')
<1>1. /\ \A q, x \in Proc : clock[q][x] \in Nat
      /\ clock \in [Proc -> Clock]
  BY DEF Facts, TypeOK, Clock
<1>2. {q \in Proc : clock'[q] # clock[q]} = {p}
  <2>1. clock'[p] # clock[p]
    BY <1>1
  <2>2. QED
    BY <2>1
<1>3. new = <<p, clock[p][p] + 1>> /\ new \in Event /\ new \notin Executed
  BY <1>1 DEF LastEvent, Event, Executed
<1>4. Executed' = Executed \cup {new}
  <2>1. ASSUME NEW e \in Event PROVE e \in Executed' <=> e \in Executed \/ e = new
    <3>1. e = <<e[1], e[2]>> /\ e[1] \in Proc /\ e[2] \in Nat
      BY DEF Event
    <3>2. CASE e[1] # p
      BY <1>3, <3>1, <3>2 DEF Executed
    <3>3. CASE e[1] = p
      BY <1>1, <1>3, <3>1, <3>3 DEF Executed
    <3>4. QED
      BY <3>2, <3>3
  <2>2. QED
    BY <1>3, <2>1 DEF Executed
<1>5. log' = log \cup {[proc |-> q, kind |-> KindNow, clock |-> clock'[q]] : q \in {p}}
  BY <1>2 DEF LogStep
<1>6. past' = [e \in DOMAIN past \cup {LastEvent(q, clock') : q \in {p}} |->
                 IF e \in DOMAIN past THEN past[e]
                 ELSE Preceding(LastEvent(e[1], clock))
                         \cup UNION {Preceding(SendOf(m)) : m \in ReceivedNow}]
  BY <1>2 DEF LogStep
<1>7. DOMAIN past = Executed
  BY DEF PastOrdered
<1>8. DOMAIN past' = Executed'
  BY <1>4, <1>6, <1>7
<1>9. \A e \in Executed : past'[e] = past[e]
  BY <1>6, <1>7
<1>10. past'[new] = Before(past, LastEvent(p, clock))
                        \cup UNION {Before(past, SendOf(m)) : m \in ReceivedNow}
  <2>1. new[1] = p
    BY <1>3
  <2> HIDE DEF new
  <2>2. new \in {LastEvent(q, clock') : q \in {p}}
    BY DEF new
  <2>3. past'[new] = Preceding(LastEvent(p, clock))
                        \cup UNION {Preceding(SendOf(m)) : m \in ReceivedNow}
    BY <1>3, <1>6, <1>7, <2>1, <2>2
  <2>4. \A x : Preceding(x) = Before(past, x)
    BY DEF Preceding, Before
  <2>5. QED
    BY <2>3, <2>4
<1>11. \E kind : log' = log \cup {[proc |-> p, kind |-> kind, clock |-> clock'[p]]}
  <2> DEFINE k == KindNow
  <2>1. log' = log \cup {[proc |-> p, kind |-> k, clock |-> clock'[p]]}
    BY <1>5
  <2> HIDE DEF k
  <2>2. QED
    BY <2>1
<1>12. QED
  BY <1>3, <1>4, <1>8, <1>9, <1>10, <1>11 DEF Counts

\* An event of the process's own, or the receipt of a message: its clock goes on
\* to tell what precedes its last event, and so do the others.
LEMMA TellsNext ==
    ASSUME Facts, PastOrdered, ClocksTell, LogStep, NEW p \in Proc, NEW D,
           clock'[p] \in Clock, clock'[p][p] = clock[p][p] + 1,
           \A q \in Proc : q # p => clock'[q] = clock[q],
           D = Before(past, LastEvent(p, clock))
                  \cup UNION {Before(past, SendOf(m)) : m \in ReceivedNow},
           Down(clock'[p]) = D \cup {LastEvent(p, clock')},
           Stamped' \subseteq Stamped \cup {<<p, clock'[p]>>}
    PROVE  PastOrdered' /\ ClocksTell'
<1> DEFINE new == LastEvent(p, clock')
<1>1. Counts(p, D) /\ \E kind : log' = log \cup {[proc |-> p, kind |-> kind, clock |-> clock'[p]]}
  BY LogCounts
<1>2. D \subseteq Executed /\ \A d \in D : past[d] \subseteq D
  <2>1. \A x : /\ Before(past, x) \subseteq Executed
               /\ \A d \in Before(past, x) : past[d] \subseteq Before(past, x)
    BY PrecedingClosed
  <2>2. QED
    BY <2>1
<1>3. /\ PastOrdered'
      /\ \A e : e # new => Before(past', e) = Before(past, e)
      /\ Before(past', new) = Down(clock'[p])
  BY <1>1, <1>2, OrderGrows
<1>4. Executed' = Executed \cup {new} /\ new \notin Executed /\ new[1] = p
  BY <1>1 DEF Counts, LastEvent
<1>5. /\ \A q, x \in Proc : clock[q][x] \in Nat
      /\ \A q \in Proc : clock[q] \in Clock
  BY DEF Facts, TypeOK, Clock
<1>6. new[2] = clock[p][p] + 1
  BY DEF LastEvent
<1>7. \A q \in Proc : Tells(past', clock'[q], LastEvent(q, clock'))
  <2>1. \A q \in Proc : q # p => /\ LastEvent(q, clock') = LastEvent(q, clock)
                                 /\ LastEvent(q, clock)[1] = q
    BY DEF LastEvent
  <2>2. \A q \in Proc : q # p => Before(past', LastEvent(q, clock')) = Down(clock'[q])
    BY <1>3, <1>4, <2>1 DEF ClocksTell, Tells
  <2>3. QED
    BY <1>3, <2>2 DEF Tells
<1>8. ASSUME NEW e \in Stamped' PROVE Tells(past', e[2], <<e[1], e[2][e[1]]>>)
  <2>1. CASE e \in Stamped
    <3>1. e[2][e[1]] <= clock[e[1]][e[1]] /\ e[1] \in Proc
      BY <2>1, StampedKnown DEF Known
    <3>2. <<e[1], e[2][e[1]]>> # new
      BY <1>4, <1>5, <1>6, <3>1
    <3>3. QED
      BY <1>3, <2>1, <3>2 DEF ClocksTell, Tells
  <2>2. CASE e = <<p, clock'[p]>>
    BY <1>3, <2>2 DEF Tells, LastEvent
  <2>3. QED
    BY <2>1, <2>2
<1>9. ASSUME NEW line \in log'
      PROVE  /\ line.proc \in Proc /\ line.clock \in Clock
             /\ EventOf(line) \in Executed' /\ Tells(past', line.clock, EventOf(line))
  <2>1. CASE line \in log
    BY <1>3, <1>4, <2>1 DEF ClocksTell, Tells
  <2>2. CASE line \notin log
    <3>1. line.proc = p /\ line.clock = clock'[p]
      BY <1>1, <2>2
    <3>2. EventOf(line) = new
      BY <3>1 DEF EventOf, LastEvent
    <3> HIDE DEF new
    <3>3. QED
      BY <1>3, <1>4, <3>1, <3>2 DEF Tells
  <2>3. QED
    BY <2>1, <2>2
<1>10. ClocksTell'
  BY <1>7, <1>8, <1>9 DEF ClocksTell, EventOf, LastEvent
<1>11. QED
  BY <1>3, <1>10

\* A step in which no event happens prints nothing and leaves the history alone.
LEMMA LogQuiet ==
    ASSUME PastOrdered, ClocksTell, LogStep, clock' = clock, Stamped' \subseteq Stamped
    PROVE  PastOrdered' /\ ClocksTell'
<1>1. {p \in Proc : clock'[p] # clock[p]} = {}
  OBVIOUS
<1>2. /\ log' = log \cup {[proc |-> p, kind |-> KindNow, clock |-> clock'[p]] : p \in {}}
      /\ past' = [e \in DOMAIN past \cup {LastEvent(p, clock') : p \in {}} |->
                    IF e \in DOMAIN past THEN past[e]
                    ELSE Preceding(LastEvent(e[1], clock))
                            \cup UNION {Preceding(SendOf(m)) : m \in ReceivedNow}]
  BY <1>1 DEF LogStep
<1>3. log' = log /\ DOMAIN past' = DOMAIN past /\ \A e \in DOMAIN past : past'[e] = past[e]
  BY <1>2
<1>4. Executed' = Executed
  BY DEF Executed
<1>5. PastOrdered'
  BY <1>3, <1>4 DEF PastOrdered
<1>6. \A c, e : Tells(past, c, e) => Tells(past', c, e)
  BY <1>3 DEF Tells, Before
<1>7. ClocksTell'
  BY <1>3, <1>4, <1>6 DEF ClocksTell, LastEvent, EventOf
<1>8. QED
  BY <1>5, <1>7

\* Every step of the programs keeps what the clocks tell.
LEMMA ClocksTellNext ==
    ASSUME Facts, PastOrdered, ClocksTell, LogStep
    PROVE  PastOrdered' /\ ClocksTell'
<1>1. Next /\ TypeOK /\ TypeOK'
  BY TypeStep DEF LogStep, Facts
<1>2. /\ \A p \in Proc : clock[p] \in Clock /\ clock'[p] \in Clock
      /\ \A p, q \in Proc : clock[p][q] \in Nat
      /\ clock \in [Proc -> Clock]
  BY <1>1 DEF TypeOK, Clock
<1>3. CASE Quiet
  BY <1>3, LogQuiet DEF Quiet
<1>4. ASSUME NEW p \in Proc, Local(p) PROVE PastOrdered' /\ ClocksTell'
  <2> DEFINE D == Before(past, LastEvent(p, clock))
                     \cup UNION {Before(past, SendOf(m)) : m \in ReceivedNow}
  <2>1. D = Down(clock[p])
    BY <1>4 DEF Local, ClocksTell, Tells
  <2>2. clock'[p][p] = clock[p][p] + 1 /\ \A q \in Proc : q # p => clock'[p][q] = clock[p][q]
    BY <1>1, <1>4, LocalClock
  <2>3. \A q \in Proc : q # p => clock'[q] = clock[q]
    BY <1>2, <1>4 DEF Local, LocalEvent
  <2>4. Down(clock'[p]) = D \cup {LastEvent(p, clock')}
    BY <1>2, <2>1, <2>2, DownTick DEF LastEvent
  <2>5. Stamped' \subseteq Stamped \cup {<<p, clock'[p]>>}
    BY <1>4 DEF Local
  <2> HIDE DEF D
  <2>6. QED
    BY <1>2, <2>2, <2>3, <2>4, <2>5, TellsNext DEF D
<1>5. ASSUME NEW m \in Pending, Takes(m) PROVE PastOrdered' /\ ClocksTell'
  <2> DEFINE p == m.to
             D == Before(past, LastEvent(p, clock))
                     \cup UNION {Before(past, SendOf(n)) : n \in ReceivedNow}
  <2>1. m \in Message /\ p \in Proc /\ m.clock \in Clock /\ m.from \in Proc
    BY <1>5, TakesClock, MessageParts
  <2>2. SendEvent(m) \in Stamped
    BY DEF Stamped
  <2>3. Before(past, SendOf(m)) = Down(m.clock)
    BY <2>2 DEF ClocksTell, Tells, SendEvent, SendOf
  <2>4. D = Down(clock[p]) \cup Down(m.clock)
    BY <1>5, <2>1, <2>3 DEF Takes, ClocksTell, Tells
  <2>5. Known(m.clock)
    BY <2>2, StampedKnown DEF SendEvent
  <2>6. m.clock[p] <= clock[p][p] /\ m.clock[p] \in Nat
    BY <2>1, <2>5 DEF Known, Clock
  <2>7. \A q \in Proc : clock'[p][q] =
           (IF clock[p][q] < m.clock[q] THEN m.clock[q] ELSE clock[p][q]) + (IF q = p THEN 1 ELSE 0)
    BY <1>5, TakesClock
  <2>8. clock'[p][p] = clock[p][p] + 1
    BY <1>2, <2>1, <2>6, <2>7
  <2>9. \A q \in Proc : q # p => clock'[q] = clock[q]
    BY <1>2, <1>5, <2>1 DEF Takes
  <2>10. Down(clock'[p]) = D \cup {LastEvent(p, clock')}
    <3>1. Down(clock'[p]) = Down(clock[p]) \cup Down(m.clock) \cup {<<p, clock'[p][p]>>}
      <4>1. clock[p] \in Clock /\ clock'[p] \in Clock
        BY <1>2, <2>1
      <4> DEFINE v == clock[p]
                 w == clock'[p]
                 c == m.clock
      <4>2. /\ v \in Clock /\ w \in Clock /\ c \in Clock /\ c[p] <= v[p]
            /\ \A q \in Proc : w[q] = (IF v[q] < c[q] THEN c[q] ELSE v[q]) + (IF q = p THEN 1 ELSE 0)
        BY <2>1, <2>6, <2>7, <4>1
      <4> HIDE DEF p, v, w, c
      <4>3. p \in Proc
        BY <2>1
      <4>4. Down(w) = Down(v) \cup Down(c) \cup {<<p, w[p]>>}
        BY <4>2, <4>3, DownMerge
      <4>5. QED
        BY <4>4 DEF v, w, c
    <3>2. QED
      BY <2>4, <3>1 DEF LastEvent
  <2>11. Stamped' \subseteq Stamped \cup {<<p, clock'[p]>>}
    BY <1>5 DEF Takes
  <2>12. /\ D = Before(past, LastEvent(p, clock))
                    \cup UNION {Before(past, SendOf(n)) : n \in ReceivedNow}
         /\ p \in Proc /\ clock'[p] \in Clock
    BY <1>2, <2>1
  <2> HIDE DEF p, D
  <2>13. QED
    BY <2>8, <2>9, <2>10, <2>11, <2>12, TellsNext
<1>6. QED
  BY <1>1, <1>3, <1>4, <1>5, Events

\* A thread that is about to confirm an order is there already or has just
\* counted its receipt.
LEMMA ReceiptNext ==
    ASSUME TypeOK, ReceiptCounted, [Next]_vars
    PROVE  ReceiptCounted'
<1>1. TypeOK' /\ \A p \in Proc : Leq(clock[p], clock'[p])
  BY TypeStep, ClockGrows
<1>2. /\ \A p, q \in Proc : clock[p][q] \in Nat /\ clock'[p][q] \in Nat
      /\ clock \in [Proc -> [Proc -> Nat]]
  BY <1>1 DEF TypeOK, Clock
<1>3. \A t \in threads : t.pc = "confirm" => clock'[t.msg.to][t.msg.to] > 0
  <2> SUFFICES ASSUME NEW t \in threads, t.pc = "confirm" PROVE clock'[t.msg.to][t.msg.to] > 0
    OBVIOUS
  <2>1. t.msg.to \in Proc
    BY ThreadParts, MessageParts
  <2>2. clock[t.msg.to][t.msg.to] > 0 /\ clock[t.msg.to][t.msg.to] <= clock'[t.msg.to][t.msg.to]
    BY <1>1, <2>1 DEF ReceiptCounted, Leq
  <2>3. QED
    BY <1>2, <2>1, <2>2
<1>4. ASSUME NEW t \in threads, HandleOrder(t) PROVE ReceiptCounted'
  <2> DEFINE p == t.msg.to
  <2>1. p \in Proc /\ t.msg.clock \in Clock
    BY ThreadParts, MessageParts
  <2>2. clock'[p] = ReceiveEvent(clock[p], p, t.msg.clock)
    BY <1>2, <1>4, <2>1 DEF HandleOrder, ClockAfterReceive
  <2>3. t.msg.clock[p] \in Nat
    BY <2>1 DEF Clock
  <2>4. clock'[p][p] = (IF clock[p][p] < t.msg.clock[p] THEN t.msg.clock[p] ELSE clock[p][p]) + 1
    BY <2>1, <2>2 DEF ReceiveEvent, Tick, Merge
  <2>5. clock'[p][p] > 0
    BY <1>2, <2>1, <2>3, <2>4
  <2>6. \A u \in threads' \ threads : u.msg = t.msg
    BY <1>4, Moved DEF HandleOrder
  <2>7. QED
    BY <1>3, <2>5, <2>6 DEF ReceiptCounted
<1>5. ASSUME \A t \in threads' \ threads : t.pc # "confirm" PROVE ReceiptCounted'
  BY <1>3, <1>5 DEF ReceiptCounted
<1>6. CASE UNCHANGED vars \/ Command \/ MainStep \/ Failure
  <2>1. threads' = threads
    BY <1>6 DEF vars, Command, CreateOrder, InitiateSnapshot, ViewSnapshots, MainStep,
                DispatchOrder, RecordOwnState, StoreOwnState, CheckViewed, Failure, Lose
  <2>2. QED
    BY <1>5, <2>1
<1>7. CASE Arrival
  <2>1. \E m, pc : threads' = threads \cup {NewThread(m, pc)} /\ pc # "confirm"
    BY <1>7 DEF Arrival, ReceiveDelivery, ReceiveState, AcceptOrder, ReceiveMarker,
                ReceiveHandoff, ReceiveRunnerMarker, Receive
  <2>2. QED
    BY <1>5, <2>1 DEF NewThread
<1>8. ASSUME NEW t \in threads, ~HandleOrder(t),
             CoordinatorStep(t) \/ RestaurantStep(t) \/ RunnerStep(t)
      PROVE  ReceiptCounted'
  <2>1. CASE Finish(t)
    BY <1>5, <2>1 DEF Finish
  <2>2. ASSUME NEW pc, pc # "confirm", Goto(t, pc) \/ (\E c : Keep(t, pc, c)) PROVE ReceiptCounted'
    <3>1. \A u \in threads' \ threads : u.pc = pc
      BY <2>2, Moved
    <3>2. QED
      BY <1>5, <2>2, <3>1
  <2>3. CoordinatorStep(t) => Finish(t) \/ Goto(t, "count") \/ Goto(t, "verify")
    BY DEF CoordinatorStep, ConfirmDelivery, HandleState, CountStates, CheckSnapshotConsistency
  <2>4. RestaurantStep(t) =>
           \/ Finish(t) \/ (\E c : Keep(t, "report", c))
           \/ \E pc \in {"prepare", "ready", "handover", "forward", "close", "release"} : Goto(t, pc)
    BY <1>8 DEF RestaurantStep, OrderConfirmed, PreparingFood, FoodReady, OrderEvent,
           HandToRunner, RecordMarker, FirstMarker, LaterMarker, ForwardMarker,
           NothingToComplete, CompleteSnapshot, SendState, ReleaseLock
  <2>5. RunnerStep(t) =>
           \/ Finish(t) \/ (\E c : Keep(t, "report", c))
           \/ \E pc \in {"transit", "deliver", "handover"} : Goto(t, pc)
    BY DEF RunnerStep, PickedUp, InTransit, Delivered, DeliveryEvent, SendDelivery,
           CheckMarker, StampState, DuplicateMarker, ReportState
  <2>6. QED
    BY <1>8, <2>1, <2>2, <2>3, <2>4, <2>5
<1>9. QED
  BY <1>4, <1>6, <1>7, <1>8 DEF Next, HandlerStep

\* Every reachable state of the logs is as it should be.
LEMMA LogInvariant == LogSpec => []LogInv
<1>1. LogInit => PastOrdered /\ ClocksTell /\ ReceiptCounted
  <2> SUFFICES ASSUME LogInit PROVE PastOrdered /\ ClocksTell /\ ReceiptCounted
    OBVIOUS
  <2>1. /\ clock = [p \in Proc |-> ZeroClock] /\ net = {} /\ threads = {} /\ log = {}
        /\ DOMAIN past = {}
    BY DEF LogInit, Init
  <2>2. \A p, q \in Proc : clock[p][q] = 0
    BY <2>1 DEF ZeroClock
  <2>3. Executed = {} /\ \A p \in Proc : Down(clock[p]) = {}
    BY <2>2 DEF Executed, Down, Event
  <2>4. Stamped = {}
    BY <2>1 DEF Stamped, Pending
  <2>5. \A e : Before(past, e) = {}
    BY <2>1 DEF Before
  <2>6. QED
    BY <2>1, <2>3, <2>4, <2>5 DEF PastOrdered, ClocksTell, Tells, ReceiptCounted
<1>2. LogInv /\ LogStep => PastOrdered' /\ ClocksTell' /\ ReceiptCounted'
  BY ClocksTellNext, ReceiptNext DEF LogInv, LogStep, Facts
<1>3. LogInv /\ PrintReceipt => PastOrdered' /\ ClocksTell' /\ ReceiptCounted'
  <2> SUFFICES ASSUME LogInv, PrintReceipt PROVE PastOrdered' /\ ClocksTell' /\ ReceiptCounted'
    OBVIOUS
  <2>1. UNCHANGED <<clock, net, threads, past>>
    BY DEF PrintReceipt, vars
  <2>2. PICK t \in threads :
           /\ t.pc = "confirm"
           /\ log' = log \cup {[proc |-> t.msg.to, kind |-> "receive", clock |-> clock[t.msg.to]]}
    BY DEF PrintReceipt
  <2> DEFINE p == t.msg.to
  <2>3. p \in Proc /\ clock[p] \in Clock /\ clock[p][p] > 0 /\ clock[p][p] \in Nat
    <3>1. TypeOK /\ clock[p][p] > 0
      BY <2>2 DEF LogInv, Facts, ReceiptCounted
    <3>2. p \in Proc
      BY <2>2, <3>1, ThreadParts, MessageParts
    <3>3. clock[p] \in Clock
      BY <3>1, <3>2 DEF TypeOK
    <3>4. QED
      BY <3>1, <3>2, <3>3 DEF Clock
  <2>4. LastEvent(p, clock) \in Executed
    BY <2>3 DEF LastEvent, Executed, Event
  <2>5. \A line \in log' : line \in log \/ (line.proc = p /\ line.clock = clock[p])
    BY <2>2
  <2>6. Executed' = Executed /\ Stamped' = Stamped
    BY <2>1 DEF Executed, Stamped, Pending
  <2>7. \A line \in log' :
           /\ line.proc \in Proc /\ line.clock \in Clock
           /\ EventOf(line) \in Executed /\ Tells(past, line.clock, EventOf(line))
    <3> SUFFICES ASSUME NEW line \in log'
                 PROVE  /\ line.proc \in Proc /\ line.clock \in Clock
                        /\ EventOf(line) \in Executed /\ Tells(past, line.clock, EventOf(line))
      OBVIOUS
    <3>1. CASE line \in log
      BY <3>1 DEF LogInv, ClocksTell
    <3>2. CASE line.proc = p /\ line.clock = clock[p]
      <4>1. EventOf(line) = LastEvent(p, clock)
        BY <3>2 DEF EventOf, LastEvent
      <4>2. QED
        BY <2>3, <2>4, <3>2, <4>1 DEF LogInv, ClocksTell
    <3>3. QED
      BY <2>5, <3>1, <3>2
  <2>8. ClocksTell'
    BY <2>1, <2>6, <2>7 DEF LogInv, ClocksTell, LastEvent, EventOf
  <2>9. PastOrdered' /\ ReceiptCounted'
    BY <2>1, <2>6 DEF LogInv, PastOrdered, ReceiptCounted
  <2>10. QED
    BY <2>8, <2>9
<1>4. LogInv /\ UNCHANGED logVars => PastOrdered' /\ ClocksTell' /\ ReceiptCounted'
  <2> SUFFICES ASSUME LogInv, UNCHANGED logVars
               PROVE  PastOrdered' /\ ClocksTell' /\ ReceiptCounted'
    OBVIOUS
  <2>1. UNCHANGED <<clock, net, threads, log, past>>
    BY DEF logVars, vars
  <2>2. Executed' = Executed /\ Stamped' = Stamped
    BY <2>1 DEF Executed, Stamped, Pending
  <2>3. QED
    BY <2>1, <2>2 DEF LogInv, PastOrdered, ClocksTell, ReceiptCounted, LastEvent, EventOf
<1>5. LogInit => Init
  BY DEF LogInit
<1>6. [LogNext]_logVars => [Next]_vars
  BY DEF LogNext, LogStep, PrintReceipt, logVars
<1>7. LogSpec => []Facts
  BY <1>5, <1>6, FactsInvariant, PTL DEF LogSpec, Spec
<1>8. QED
  BY <1>1, <1>2, <1>3, <1>4, <1>7, PTL DEF LogSpec, LogInv, LogNext

\* A clock that counts the event of a line counts all that precedes it.
LEMMA CountsBefore ==
    ASSUME LogInv, NEW a \in log, NEW b \in log
    PROVE  EventOf(a) \in Down(b.clock) <=> Leq(a.clock, b.clock)
<1> DEFINE x == EventOf(a)
           y == EventOf(b)
<1>1. /\ a.proc \in Proc /\ a.clock \in Clock /\ b.clock \in Clock
      /\ x \in Executed /\ y \in Executed
      /\ Before(past, x) = Down(a.clock) /\ Before(past, y) = Down(b.clock)
  BY DEF LogInv, ClocksTell, Tells
<1>2. \A q \in Proc : a.clock[q] \in Nat /\ b.clock[q] \in Nat
  BY <1>1 DEF Clock
<1>3. x = <<a.proc, a.clock[a.proc]>> /\ x \in Event
  BY <1>1 DEF EventOf, Executed
<1>4. ASSUME Leq(a.clock, b.clock) PROVE x \in Down(b.clock)
  BY <1>1, <1>3, <1>4 DEF Leq, Down
<1>5. ASSUME x \in Down(b.clock) PROVE Leq(a.clock, b.clock)
  <2>1. DOMAIN past = Executed
    BY DEF LogInv, PastOrdered
  <2>2. Down(a.clock) \subseteq Down(b.clock)
    <3>1. Down(a.clock) = {x} \cup past[x]
      BY <1>1, <2>1 DEF Before
    <3>2. \A d \in Before(past, y) : past[d] \subseteq Before(past, y)
      BY PrecedingClosed DEF LogInv
    <3> HIDE DEF x, y
    <3>3. past[x] \subseteq Down(b.clock)
      BY <1>1, <1>5, <3>2
    <3>4. QED
      BY <1>5, <3>1, <3>3
  <2>3. ASSUME NEW q \in Proc, a.clock[q] # 0 PROVE a.clock[q] <= b.clock[q]
    <3>1. <<q, a.clock[q]>> \in Down(a.clock)
      BY <1>2, <2>3 DEF Down, Event
    <3>2. <<q, a.clock[q]>> \in Down(b.clock)
      BY <2>2, <3>1
    <3>3. QED
      BY <3>2 DEF Down
  <2>4. ASSUME NEW q \in Proc PROVE a.clock[q] <= b.clock[q]
    BY <1>2, <2>3
  <2>5. QED
    BY <2>4 DEF Leq
<1>6. QED
  BY <1>4, <1>5

\* Clocks that are below each other are the same.
LEMMA SameClock ==
    ASSUME NEW v \in Clock, NEW w \in Clock, Leq(v, w), Leq(w, v)
    PROVE  v = w
<1>1. v \in [Proc -> Nat] /\ w \in [Proc -> Nat]
  BY DEF Clock
<1>2. ASSUME NEW q \in Proc PROVE v[q] = w[q]
  <2>1. v[q] \in Nat /\ w[q] \in Nat
    BY <1>1
  <2>2. v[q] <= w[q] /\ w[q] <= v[q]
    BY DEF Leq
  <2>3. QED
    BY <2>1, <2>2
<1>3. QED
  BY <1>1, <1>2

\* The clock of one line is below and other than that of another if and only if
\* the event of the one precedes that of the other.
LEMMA ClocksCompare ==
    ASSUME LogInv, NEW a \in log, NEW b \in log
    PROVE  a.clock # b.clock /\ Leq(a.clock, b.clock) <=> EventOf(a) \in past[EventOf(b)]
<1> DEFINE x == EventOf(a)
           y == EventOf(b)
<1>1. /\ a.proc \in Proc /\ b.proc \in Proc /\ x \in Executed /\ y \in Executed
      /\ Before(past, x) = Down(a.clock) /\ Before(past, y) = Down(b.clock)
  BY DEF LogInv, ClocksTell, Tells
<1>2. DOMAIN past = Executed /\ y \notin past[y] /\ x \notin past[x]
      /\ \A d \in past[y] : past[d] \subseteq past[y]
  BY <1>1 DEF LogInv, PastOrdered
<1>3. x \in Down(b.clock) <=> Leq(a.clock, b.clock)
  BY CountsBefore
<1>4. Down(a.clock) = {x} \cup past[x] /\ Down(b.clock) = {y} \cup past[y]
  BY <1>1, <1>2 DEF Before
<1>5. x = <<a.proc, a.clock[a.proc]>> /\ y = <<b.proc, b.clock[b.proc]>>
  BY DEF EventOf
<1>6. ASSUME x \in past[y] PROVE Leq(a.clock, b.clock) /\ a.clock # b.clock
  <2>1. a.clock = b.clock => y \in past[x] \/ y = x
    BY <1>4
  <2>2. past[x] \subseteq past[y]
    BY <1>2, <1>6
  <2> HIDE DEF x, y
  <2>3. QED
    BY <1>2, <1>3, <1>4, <1>6, <2>1, <2>2
<1>7. ASSUME Leq(a.clock, b.clock), x = y PROVE a.clock = b.clock
  <2>1. y \in Down(a.clock)
    BY <1>4, <1>7
  <2>2. Leq(b.clock, a.clock) /\ a.clock \in Clock /\ b.clock \in Clock
    BY <2>1, CountsBefore DEF LogInv, ClocksTell
  <2>3. QED
    BY <1>7, <2>2, SameClock
<1>8. ASSUME Leq(a.clock, b.clock), a.clock # b.clock PROVE x \in past[y]
  <2> HIDE DEF x, y
  <2>1. QED
    BY <1>3, <1>4, <1>7, <1>8
<1>9. QED
  BY <1>6, <1>8

\* The concurrent pairs that infra/analyse_run.py counts in the logs are those
\* of which neither event precedes the other.
THEOREM ConcurrencyExact == LogSpec => []ConcurrentExact
<1>1. LogInv => ConcurrentExact
  <2> SUFFICES ASSUME LogInv
               PROVE  FindConcurrent(log) =
                        {ab \in log \X log :
                            /\ ab[1].proc # ab[2].proc
                            /\ EventOf(ab[1]) \notin past[EventOf(ab[2])]
                            /\ EventOf(ab[2]) \notin past[EventOf(ab[1])]}
    BY DEF ConcurrentExact
  <2>1. ASSUME NEW a \in log, NEW b \in log, a.proc # b.proc
        PROVE  Concurrent(a.clock, b.clock) <=>
                  /\ EventOf(a) \notin past[EventOf(b)]
                  /\ EventOf(b) \notin past[EventOf(a)]
    <3>1. a.clock # b.clock \/ ~(Leq(a.clock, b.clock) /\ Leq(b.clock, a.clock))
      <4>1. SUFFICES ASSUME a.clock = b.clock, Leq(a.clock, b.clock) PROVE FALSE
        OBVIOUS
      <4> DEFINE x == EventOf(a)
                 y == EventOf(b)
      <4>2. /\ x \in Executed /\ y \in Executed
            /\ Before(past, x) = Down(a.clock) /\ Before(past, y) = Down(b.clock)
        BY DEF LogInv, ClocksTell, Tells
      <4>3. x # y
        BY <2>1 DEF EventOf
      <4> HIDE DEF x, y
      <4>4. {x} \cup past[x] = {y} \cup past[y]
        BY <4>1, <4>2 DEF Before, LogInv, PastOrdered
      <4>5. x \in past[y] /\ y \in past[x]
        BY <4>3, <4>4
      <4>6. past[x] \subseteq past[y] /\ y \notin past[y]
        BY <4>2, <4>5 DEF LogInv, PastOrdered
      <4>7. QED
        BY <4>5, <4>6
    <3>2. /\ a.clock # b.clock /\ Leq(a.clock, b.clock) <=> EventOf(a) \in past[EventOf(b)]
          /\ b.clock # a.clock /\ Leq(b.clock, a.clock) <=> EventOf(b) \in past[EventOf(a)]
      BY ClocksCompare
    <3>3. a.clock = b.clock => Leq(a.clock, b.clock) /\ Leq(b.clock, a.clock)
      BY DEF LogInv, ClocksTell, Leq, Clock
    <3>4. QED
      BY <3>1, <3>2, <3>3 DEF Concurrent
  <2>2. QED
    BY <2>1 DEF FindConcurrent
<1>2. QED
  BY <1>1, LogInvariant, PTL

\* The events that a clock counts are finitely many.
LEMMA FinitelyMany ==
    ASSUME NEW v \in Clock
    PROVE  IsFiniteSet(UNION {{p} \X (1 .. v[p]) : p \in Proc})
<1> DEFINE T == {{p} \X (1 .. v[p]) : p \in Proc}
           f == [p \in Proc |-> {p} \X (1 .. v[p])]
<1>1. f \in Surjection(Proc, T)
  BY DEF Surjection
<1>2. IsFiniteSet(T)
  BY <1>1, FS_Surjection, TopologyAssumption
<1>3. ASSUME NEW p \in Proc PROVE IsFiniteSet({p} \X (1 .. v[p]))
  <2>1. IsFiniteSet({p})
    BY FS_Singleton
  <2>2. 1 \in Int /\ v[p] \in Int
    BY DEF Clock
  <2>3. IsFiniteSet(1 .. v[p])
    BY <2>2, FS_Interval, Zenon
  <2>4. QED
    BY <2>1, <2>3, FS_Product
<1>4. QED
  BY <1>2, <1>3, FS_UNION

\* A clock that counts what another does and more has the greater sum.
LEMMA SumGrows ==
    ASSUME NEW v \in Clock, NEW w \in Clock, v # w, Leq(v, w)
    PROVE  ClockSum(v) < ClockSum(w)
<1> DEFINE V == UNION {{p} \X (1 .. v[p]) : p \in Proc}
           W == UNION {{p} \X (1 .. w[p]) : p \in Proc}
<1>1. \A p \in Proc : v[p] \in Nat /\ w[p] \in Nat /\ v[p] <= w[p]
  BY DEF Clock, Leq
<1>2. PICK p \in Proc : v[p] # w[p]
  BY DEF Clock
<1>3. V \subseteq W
  BY <1>1
<1>4. <<p, w[p]>> \in W /\ <<p, w[p]>> \notin V
  BY <1>1, <1>2
<1>5. IsFiniteSet(W)
  BY FinitelyMany
<1> HIDE DEF V, W
<1>6. /\ Cardinality(V) <= Cardinality(W) /\ Cardinality(V) # Cardinality(W)
      /\ Cardinality(V) \in Nat /\ Cardinality(W) \in Nat
  BY <1>3, <1>4, <1>5, FS_Subset, FS_CardinalityType
<1>7. QED
  BY <1>6 DEF ClockSum, V, W

\* In the timeline of infra/analyse_run.py, which sorts by the sums of the clocks
\* first, no effect stands before its cause.
THEOREM TimelineIsCausal == LogSpec => []TimelineCausal
<1>1. LogInv => TimelineCausal
  <2> SUFFICES ASSUME LogInv, NEW a \in log, NEW b \in log, EventOf(a) \in past[EventOf(b)]
               PROVE  KeyLess(SortKey(a), SortKey(b))
    BY DEF TimelineCausal
  <2>1. a.clock \in Clock /\ b.clock \in Clock
    BY DEF LogInv, ClocksTell
  <2>2. a.clock # b.clock /\ Leq(a.clock, b.clock)
    BY ClocksCompare
  <2>3. ClockSum(a.clock) < ClockSum(b.clock)
    BY <2>1, <2>2, SumGrows
  <2>4. QED
    BY <2>3 DEF KeyLess, SortKey
<1>2. QED
  BY <1>1, LogInvariant, PTL

=============================================================================
