---------------------------- MODULE FoodDelivery ----------------------------
(***************************************************************************)
(* The system: P0, the restaurants and the runners together.               *)
(***************************************************************************)
EXTENDS Coordinator, Restaurant, Runner

\* Every program starts with a zero clock and empty dictionaries.
Init ==
    /\ clock = [p \in Proc |-> ZeroClock]
    /\ net = {}
    /\ lost = 0
    /\ threads = {}
    /\ main = Menu
    /\ orders_store = {}
    /\ triggered = [s \in Snapshots |-> 0]
    /\ local_states = [p \in Recorders |-> {}]
    /\ recording_channels = [p \in Recorders |-> [s \in Snapshots |-> {}]]
    /\ channel_states = [p \in Recorders |-> [s \in Snapshots |-> {}]]
    /\ completed = [p \in Recorders |-> {}]
    /\ recorded_snapshots = [f \in Runners |-> {}]
    /\ state_store = [s \in Snapshots |-> <<>>]
    /\ verdict = [s \in Snapshots |-> {}]

\* What the operator of P0 asks for.
Command ==
    \/ \E o \in Orders, r \in Restaurants : CreateOrder(o, r)
    \/ \E s \in Snapshots : InitiateSnapshot(s)
    \/ ViewSnapshots

\* P0's main thread goes on with what it was asked for.
MainStep ==
    DispatchOrder \/ RecordOwnState \/ StoreOwnState \/ \E s \in Snapshots : CheckViewed(s)

\* A connection is accepted and its thread takes the first step.
Arrival ==
    \E m \in net : \/ ReceiveDelivery(m) \/ ReceiveState(m)
                   \/ AcceptOrder(m)     \/ ReceiveMarker(m)
                   \/ ReceiveHandoff(m)  \/ ReceiveRunnerMarker(m)

CoordinatorStep(t) ==
    ConfirmDelivery(t) \/ HandleState(t) \/ CountStates(t) \/ CheckSnapshotConsistency(t)

RestaurantStep(t) ==
    \/ HandleOrder(t) \/ OrderConfirmed(t) \/ PreparingFood(t) \/ FoodReady(t)
    \/ HandToRunner(t) \/ RecordMarker(t) \/ ForwardMarker(t)
    \/ NothingToComplete(t) \/ CompleteSnapshot(t) \/ SendState(t)
    \/ ReleaseLock(t)

RunnerStep(t) ==
    \/ PickedUp(t) \/ InTransit(t) \/ Delivered(t) \/ SendDelivery(t)
    \/ CheckMarker(t) \/ ReportState(t)

HandlerStep == \E t \in threads : CoordinatorStep(t) \/ RestaurantStep(t) \/ RunnerStep(t)

Failure == \E m \in net : Lose(m)

Next == Command \/ MainStep \/ Arrival \/ HandlerStep \/ Failure

Spec == Init /\ [][Next]_vars

\* The operator need not ask for anything, but the machines run their threads:
\* P0's main thread goes on with what it was asked for, and as long as some
\* thread or connection can move, one of them does.  A thread takes finitely
\* many steps and none disables another for good, so this is enough for each
\* of them to finish.
Fairness == WF_vars(MainStep) /\ WF_vars(Arrival \/ HandlerStep)

FairSpec == Spec /\ Fairness

----------------------------------------------------------------------------
(* Vocabulary of the properties.                                           *)

Reported(s) == {state_store[s][i].proc : i \in DOMAIN state_store[s]}

\* The clock that the coordinator holds for process p in snapshot s.
Report(s, p) ==
    state_store[s][CHOOSE i \in DOMAIN state_store[s] : state_store[s][i].proc = p].vc

Recorded(s) == [p \in Reported(s) |-> Report(s, p)]

\* The messages on which the step runs receive_event: those of new threads,
\* except that an order waits for its handle_order thread.
ReceivedNow ==
    {t.msg : t \in {u \in threads' \ threads :
        /\ u.pc # "handle"
        /\ \A v \in threads : v.msg = u.msg => v.pc = "handle"}}

SentNow == net' \ net

----------------------------------------------------------------------------
(* Properties.                                                             *)

\* Every variable has its type; a sanity check of the model as a whole.
TypeOK ==
    /\ clock \in [Proc -> Clock]
    /\ net \subseteq Message
    /\ lost \in Nat
    /\ threads \subseteq Thread
    /\ main \in MainState
    /\ orders_store \subseteq Orders
    /\ triggered \in [Snapshots -> Nat]
    /\ local_states \in [Recorders -> SUBSET Snapshots]
    /\ recording_channels \in [Recorders -> [Snapshots -> SUBSET Proc]]
    /\ channel_states \in [Recorders -> [Snapshots -> SUBSET Message]]
    /\ completed \in [Recorders -> SUBSET Snapshots]
    /\ recorded_snapshots \in [Runners -> SUBSET Snapshots]
    /\ state_store \in [Snapshots -> Seq([proc : Proc, vc : Clock])]
    /\ verdict \in [Snapshots -> SUBSET Verdicts]

\* No clock anywhere, in a process, a message, a handler's local variable or a
\* recorded state, knows of an event that its process has not executed yet.
\* This is what makes a vector clock comparison speak about causality at all.
Known(v) == \A q \in Proc : v[q] <= clock[q][q]

MessageKnown(m) == Known(m.clock) /\ Known(m.vc)

ThreadKnown(t) == MessageKnown(t.msg) /\ Known(t.saved)

MainKnown == main.pc = "store" => Known(main.vc)

EntriesKnown(entries) == \A i \in DOMAIN entries : Known(entries[i].vc)

ClocksKnownOnly ==
    /\ \A p \in Proc : Known(clock[p])
    /\ \A m \in net : MessageKnown(m)
    /\ \A t \in threads : ThreadKnown(t)
    /\ MainKnown
    /\ \A s \in Snapshots : EntriesKnown(state_store[s])

\* The threads that store and count the last states without a lock do not miss
\* the moment: unless P0's own entry was the last, a verdict is printed by the
\* time every message is received and every thread has finished.
NoLostVerdict ==
    \A s \in Snapshots :
        /\ AllCollected(state_store[s])
        /\ state_store[s][Len(state_store[s])].proc # P0
        /\ net = {} /\ threads = {}
        => \E v \in verdict[s] : v.by = "collected"

\* As long as a message is on its way or a thread has not finished, one of them
\* can go on: the snapshot lock, which a restaurant holds until the send of its
\* report returns and for which its handlers wait, never leaves all waiting.
NobodyWaitsForever ==
    net # {} \/ threads # {} \/ main # Menu => ENABLED (MainStep \/ Arrival \/ HandlerStep)

\* No component of any process's clock, and no clock in P0's store, ever goes
\* back, though clocks are merged and entries are overwritten.
NeverBackwards ==
    [][/\ \A p \in Proc : Leq(clock[p], clock'[p])
       /\ \A s \in Snapshots : \A p \in Reported(s) :
             p \in Reported(s)' /\ Leq(Report(s, p), Report(s, p)')]_vars

\* The report that P0 holds of another process is final: however often a
\* snapshot is triggered and however the threads that handle its markers
\* interleave, no process reports twice.
ReportsFinal ==
    [][\A s \in Snapshots : \A p \in Reported(s) \ {P0} :
           Report(s, p)' = Report(s, p)]_vars

\* The snapshots that P0's main thread has still to check for the menu.
ToView == IF main.pc = "view" THEN main.left ELSE {}

\* What the system is in the middle of: messages, threads, P0's main thread.
Outstanding ==
    {<<"message", m>> : m \in net} \cup {<<"thread", t>> : t \in threads}
        \cup {<<"main", main>>} \cup {<<"view", s>> : s \in ToView}

\* The steps that remain to be taken for a message, from a step of a thread on,
\* or by P0's main thread, with all the steps that they cause elsewhere.
MessageSteps(m) ==
    IF m.type = "ORDER" THEN 13
    ELSE IF m.type = "STATE" THEN 4
    ELSE IF m.to = P0 THEN 2
    ELSE IF m.to \in Restaurants THEN 17 ELSE 7

StepsFrom ==
    [handle |-> 12, confirm |-> 11, prepare |-> 10, ready |-> 9,
     pickup |-> 6, transit |-> 5, deliver |-> 4, acknowledge |-> 1,
     record |-> 16, forward |-> 15, close |-> 7, release |-> 1, check |-> 6,
     store |-> 3, count |-> 2, verify |-> 1]

ThreadSteps(t) ==
    IF t.pc = "handover" THEN IF t.msg.to \in Restaurants THEN 8 ELSE 3
    ELSE IF t.pc = "report" THEN IF t.msg.to \in Restaurants THEN 6 ELSE 5
    ELSE StepsFrom[t.pc]

MainSteps == [menu |-> 0, view |-> 0, dispatch |-> 14, record |-> 2, store |-> 1]

StepsLeft(x) ==
    IF x[1] = "message" THEN MessageSteps(x[2])
    ELSE IF x[1] = "thread" THEN ThreadSteps(x[2])
    ELSE IF x[1] = "main" THEN MainSteps[x[2].pc] ELSE 1

\* All these steps, each of them once.
Work == {xi \in Outstanding \X (1 .. 17) : xi[2] <= StepsLeft(xi[1])}

\* Every step but a command of the operator leaves less to be done: no handler
\* repeats a step or answers for ever, no marker travels in circles, and a call
\* of the operator is over after a number of steps that is known beforehand.
WorkShrinks == [][Command \/ Cardinality(Work') < Cardinality(Work)]_vars

\* If no send fails, the confirmation of every order that P0 dispatches comes
\* back through the restaurant and its runner.
OrdersFulfilled ==
    \A o \in Orders, r \in Restaurants :
        main = [pc |-> "dispatch", id |-> o, to |-> r] ~>
            \/ lost > 0
            \/ \E t \in threads : t.pc = "acknowledge" /\ t.msg.id = o /\ t.msg.from = Partner[r]

\* If no send fails, P0 collects the states of all processes for every
\* snapshot it triggers.
SnapshotCollected ==
    \A s \in Snapshots : triggered[s] > 0 ~> AllCollected(state_store[s])

----------------------------------------------------------------------------
(* The system implements OrderWay.                                         *)

\* The places at which the programs hold an order: P0's main thread between
\* its two events, messages, and handler threads.
PlacesOf(o) ==
    {<<"new">> : x \in {o} \ orders_store}
    \cup
    {<<"created", x.to>> : x \in {y \in {main} : y.pc = "dispatch" /\ y.id = o}}
    \cup
    {IF m.type = "ORDER" THEN <<"ordered", m.to>>
     ELSE IF m.to = P0 THEN <<"delivered", m.from>>
     ELSE <<"handed over", m.to>> : m \in {n \in net : n.id = o}}
    \cup
    {IF t.msg.to \in Restaurants THEN <<"cooking", t.msg.to>>
     ELSE IF t.msg.to = P0 THEN <<"confirming", t.msg.from>>
     ELSE <<"riding", t.msg.to>> : t \in {u \in threads : u.msg.id = o}}

Way == INSTANCE OrderWay WITH places <- [o \in Orders |-> PlacesOf(o)]

\* Every order is cooked, handed over, delivered and confirmed at most once, in
\* this order and by the right processes, although every message has a thread
\* of its own, and what ends it before is a send that failed.
OrdersOnTheirWay == Way!Spec

----------------------------------------------------------------------------
(* The system implements SnapshotWay.                                      *)

\* Process p has read the clock it reports for snapshot s.
HasCut(p, s) ==
    \/ p = P0 /\ \/ main.pc = "store" /\ main.id = s
                 \/ \E i \in DOMAIN state_store[s] : state_store[s][i].proc = P0
    \/ p \in Restaurants /\ s \in completed[p]
    \/ /\ p \in Runners /\ s \in recorded_snapshots[p]
       /\ \A t \in threads : t.msg.to = p /\ t.msg.id = s => t.pc # "report"

\* The marker of snapshot s has reached them.
Marked(s) ==
    {p \in Recorders : s \in local_states[p]} \cup {f \in Runners : s \in recorded_snapshots[f]}

\* The places at which the programs hold the clock that p reports: the thread
\* of a restaurant that is about to send it, a STATE message, the thread of P0
\* that is about to store it, P0's main thread, and P0's store.
ReportPlaces(s, p) ==
    {<<"none">> : x \in {q \in {p} : ~HasCut(q, s)}}
    \cup
    {<<"under way", t.saved>> : t \in {u \in threads :
        u.pc = "report" /\ u.msg.to = p /\ u.msg.id = s /\ p \in Restaurants}}
    \cup
    {<<"under way", m.vc>> : m \in {n \in net : n.type = "STATE" /\ n.from = p /\ n.id = s}}
    \cup
    {<<"under way", t.msg.vc>> : t \in {u \in threads :
        u.pc = "store" /\ u.msg.from = p /\ u.msg.id = s}}
    \cup
    {<<"under way", x.vc>> : x \in {y \in {main} : y.pc = "store" /\ y.id = s /\ p = P0}}
    \cup
    {<<"collected", state_store[s][i].vc>> : i \in {j \in DOMAIN state_store[s] :
        state_store[s][j].proc = p}}

Survey == INSTANCE SnapshotWay WITH
    now <- clock,
    marked <- [s \in Snapshots |-> Marked(s)],
    reports <- [s \in Snapshots |-> [p \in Proc |-> ReportPlaces(s, p)]]

\* A snapshot follows its marker: no process reports before the marker has come
\* to it from the right one, every report is that of one reading of the clock
\* and collected at most once, P0 announces as collected and checks only what it
\* has of all processes, and what the menu shows of an incomplete snapshot is
\* judged by what is there, although the handlers of a marker, of the reports
\* and P0's main thread interleave and a snapshot is triggered again meanwhile.
SnapshotsOnTheirWay == Survey!Spec

----------------------------------------------------------------------------
(* What the documentation claims and the code does not keep.               *)

\* If no send fails, every snapshot is checked when its states are collected.
VerdictEventually ==
    \A s \in Snapshots : triggered[s] > 0 ~> \E v \in verdict[s] : v.by = "collected"

=============================================================================
