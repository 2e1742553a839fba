------------------------- MODULE FleetRunnerProofs -------------------------
(***************************************************************************)
(* Proofs that the invariants of FleetRunner hold of any number of orders, *)
(* markers and snapshots.                                                  *)
(*                                                                         *)
(* The inductive invariant has a part for every reader of the status: how  *)
(* far the clock counts each order (Counting), what the status tells while *)
(* the orders come one after the other (OneByOne), what it tells when the  *)
(* last thread has finished (AllFinished), what a marker's thread has read *)
(* so far (ClockRead, StatusRead), and whose turn a snapshot is (OneClaim).*)
(***************************************************************************)
EXTENDS FleetRunner, TLAPS

\* How many stages of an order whose threads are at d the clock counts, and how
\* many have been written to the status.
Passed(d) == IF d[1] = "restaurant" THEN 0 ELSE IF d[1] = "done" THEN 3 ELSE d[2] - 1

Written(d) == IF d[1] = "count" THEN d[2] ELSE Passed(d)

\* What a marker's thread would record.
Now == [clock |-> clock, status |-> order_status, order |-> current_order_label]

\* The clock counts of every order the stages its threads have passed.
Counting == \A o \in Orders : clock[o] = Passed(delivery[o])

\* While no order comes before the one before it is delivered, only the order of
\* the label is under way, and the status tells what has been written of it.
OneByOne ==
    ~overlapped =>
        /\ \A o \in Orders : UnderWay(o) => o = current_order_label
        /\ current_order_label = None =>
             /\ order_status = "WAITING_FOR_ORDER"
             /\ \A o \in Orders : delivery[o] = <<"restaurant", 0>>
        /\ current_order_label # None =>
             /\ delivery[current_order_label] # <<"restaurant", 0>>
             /\ Told(Now) = Written(delivery[current_order_label])

\* When no thread has a stage left to write, the last one has written DELIVERED.
Finished(o) == delivery[o] \in {<<"count", 3>>, <<"done", 0>>}

AllFinished ==
    /\ \A o \in Orders : Finished(o) \/ delivery[o] = <<"restaurant", 0>>
    /\ \E o \in Orders : Finished(o)
    => order_status = "DELIVERED"

\* The clock a summary has read is never ahead of the runner's.
ClockRead ==
    \A k \in Markers : marker[k].pc \in {"status", "send"} =>
        \A o \in Orders : marker[k].summary.clock[o] <= clock[o]

\* The status a summary has read tells enough of the order of the label, and of
\* every order that may still become the label before the summary is sent.
StatusRead ==
    ~overlapped => \A k \in Markers : marker[k].pc = "send" =>
        \A o \in Orders : o = current_order_label \/ delivery[o] = <<"restaurant", 0>> =>
            marker[k].summary.clock[o] <= Told(marker[k].summary)

\* A marker whose thread was the first with its snapshot.
Claimed(k) ==
    \/ marker[k].pc \in {"record", "clock", "status", "send"}
    \/ \E rep \in reports : rep.marker = k

\* A snapshot is one marker's, and that marker reports it once, at the end.
OneClaim ==
    /\ \A k \in Markers : Claimed(k) => SnapshotOf[k] \in recorded_snapshots
    /\ \A k, l \in Markers : Claimed(k) /\ Claimed(l) /\ SnapshotOf[k] = SnapshotOf[l] => k = l
    /\ \A rep \in reports : marker[rep.marker].pc = "done"
    /\ \A a, b \in reports : a.marker = b.marker => a = b

IInv ==
    /\ TypeOK /\ Counting /\ OneByOne /\ AllFinished
    /\ RecordExact /\ ClockRead /\ StatusRead /\ SummaryNotBehind
    /\ OneClaim

----------------------------------------------------------------------------
(* Stages, statuses and records.                                           *)

\* The three stages are three different statuses, none of them an earlier one.
LEMMA StagesDiffer ==
    /\ \A i \in 1..3 : Stages[i] \in Statuses
    /\ \A i, j \in 1..3 : Stages[i] = Stages[j] => i = j
    /\ \A i \in 1..3 : Stages[i] # "WAITING_FOR_ORDER" /\ Stages[i] # "RECEIVED_FROM_RESTAURANT"
<1>1. Stages[1] = "PICKED_UP" /\ Stages[2] = "IN_TRANSIT" /\ Stages[3] = "DELIVERED"
  BY DEF Stages
<1>2. \A i \in 1..3 : i = 1 \/ i = 2 \/ i = 3
  OBVIOUS
<1>3. QED
  BY <1>1, <1>2 DEF Statuses

\* A record tells of as many stages as its status is the last of.
LEMMA ToldStage ==
    ASSUME NEW rec, NEW i \in 1..3, rec.status = Stages[i]
    PROVE  Told(rec) = i
<1>1. \A j \in 1..3 : rec.status = Stages[j] <=> j = i
  BY StagesDiffer
<1>2. QED
  BY <1>1 DEF Told

LEMMA ToldNone ==
    ASSUME NEW rec, rec.status \in {"WAITING_FOR_ORDER", "RECEIVED_FROM_RESTAURANT"}
    PROVE  Told(rec) = 0
  BY StagesDiffer DEF Told

\* What a record tells depends on its status only.
LEMMA ToldSame ==
    ASSUME NEW r, NEW q, r.status = q.status
    PROVE  Told(r) = Told(q)
  BY DEF Told

LEMMA ToldNat ==
    ASSUME NEW rec
    PROVE  Told(rec) \in 0..3
<1>1. CASE \E i \in 1..3 : rec.status = Stages[i]
  BY <1>1, ToldStage
<1>2. CASE ~ \E i \in 1..3 : rec.status = Stages[i]
  BY <1>2 DEF Told
<1>3. QED
  BY <1>1, <1>2

\* Where the threads of an order can be.
LEMMA Places ==
    ASSUME NEW d \in DeliveryPc
    PROVE  \/ d = <<"restaurant", 0>>
           \/ d = <<"done", 0>>
           \/ \E i \in 1..3 : d = <<"write", i>>
           \/ \E i \in 1..3 : d = <<"count", i>>
  BY DEF DeliveryPc

LEMMA PassedAt ==
    /\ Passed(<<"restaurant", 0>>) = 0 /\ Passed(<<"done", 0>>) = 3
    /\ Written(<<"restaurant", 0>>) = 0 /\ Written(<<"done", 0>>) = 3
    /\ \A i \in 1..3 :
          /\ Passed(<<"write", i>>) = i - 1 /\ Written(<<"write", i>>) = i - 1
          /\ Passed(<<"count", i>>) = i - 1 /\ Written(<<"count", i>>) = i
  BY DEF Passed, Written

LEMMA WrittenPassed ==
    ASSUME NEW d \in DeliveryPc
    PROVE  /\ Passed(d) \in 0..3 /\ Written(d) \in 0..3
           /\ Written(d) - Passed(d) \in {0, 1}
  BY Places, PassedAt

----------------------------------------------------------------------------
(* The two kinds of steps, and the initial state.                          *)

LEMMA InitialInvariant == Init => IInv
<1> SUFFICES ASSUME Init PROVE IInv
  OBVIOUS
<1> USE DEF Init, InitialRecord
<1>1. InitialRecord \in Record
  BY DEF Record, Clock, Statuses
<1>2. TypeOK
  <2>1. marker \in [Markers -> [pc : MarkerPc, state : Record, summary : Record]]
    <3> HIDE DEF InitialRecord
    <3>1. QED
      BY <1>1 DEF MarkerPc
  <2>2. delivery \in [Orders -> DeliveryPc]
    BY DEF DeliveryPc
  <2>3. overlapped \in BOOLEAN
    OBVIOUS
  <2>4. clock \in Clock /\ order_status \in Statuses
    BY DEF Clock, Statuses
  <2>5. QED
    BY <2>1, <2>2, <2>3, <2>4 DEF TypeOK
<1>3. Counting
  BY PassedAt DEF Counting
<1>4. OneByOne
  BY FleetAssumption DEF OneByOne, UnderWay
<1>5. AllFinished
  BY DEF AllFinished, Finished
<1>6. RecordExact /\ ClockRead /\ StatusRead /\ SummaryNotBehind
  BY DEF RecordExact, ClockRead, StatusRead, SummaryNotBehind
<1>7. OneClaim
  BY DEF OneClaim, Claimed
<1>8. QED
  BY <1>2, <1>3, <1>4, <1>5, <1>6, <1>7 DEF IInv

\* A step is one of an order's threads, which leave the markers alone, or one of
\* a marker's threads, which leave the orders alone.
LEMMA Steps ==
    ASSUME Next
    PROVE  \/ DeliveryStep /\ UNCHANGED markerVars
           \/ MarkerStep /\ UNCHANGED deliveryVars
<1>1. CASE DeliveryStep
  BY <1>1 DEF DeliveryStep, AcceptHandoff, SetStage, CountStage
<1>2. CASE MarkerStep
  BY <1>2 DEF MarkerStep, CheckRecorded, RecordState, ReadClock, ReadStatus, SendState
<1>3. QED
  BY <1>1, <1>2 DEF Next

\* What a marker's thread has read, and where it is, after each read.
LEMMA ReadClockWhole ==
    ASSUME TypeOK, NEW k \in Markers, ReadClock(k)
    PROVE  /\ marker' \in [Markers -> [pc : MarkerPc, state : Record, summary : Record]]
           /\ marker[k].pc = "clock" /\ marker'[k].pc = "status"
           /\ marker'[k].state = marker[k].state
           /\ marker'[k].summary = [marker[k].summary EXCEPT !.clock = clock]
           /\ \A l \in Markers : l # k => marker'[l] = marker[l]
<1> DEFINE new == [marker[k].summary EXCEPT !.clock = clock]
           mid == [marker EXCEPT ![k].pc = "status"]
<1>1. marker \in [Markers -> [pc : MarkerPc, state : Record, summary : Record]]
  BY DEF TypeOK
<1>2. new \in Record
  BY <1>1 DEF TypeOK, Record
<1>3. marker' = [mid EXCEPT ![k].summary = new]
  BY <1>1 DEF ReadClock
<1>4. mid \in [Markers -> [pc : MarkerPc, state : Record, summary : Record]]
  BY <1>1 DEF MarkerPc
<1>5. /\ mid[k].pc = "status" /\ mid[k].state = marker[k].state
      /\ \A l \in Markers : l # k => mid[l] = marker[l]
  BY <1>1
<1> HIDE DEF new, mid
<1>6. /\ marker' \in [Markers -> [pc : MarkerPc, state : Record, summary : Record]]
      /\ marker'[k].pc = mid[k].pc /\ marker'[k].state = mid[k].state
      /\ marker'[k].summary = new
      /\ \A l \in Markers : l # k => marker'[l] = mid[l]
  BY <1>2, <1>3, <1>4
<1>7. QED
  BY <1>5, <1>6 DEF ReadClock, new

LEMMA ReadStatusWhole ==
    ASSUME TypeOK, NEW k \in Markers, ReadStatus(k)
    PROVE  /\ marker' \in [Markers -> [pc : MarkerPc, state : Record, summary : Record]]
           /\ marker[k].pc = "status" /\ marker'[k].pc = "send"
           /\ marker'[k].state = marker[k].state
           /\ marker'[k].summary = [marker[k].summary EXCEPT !.status = order_status]
           /\ \A l \in Markers : l # k => marker'[l] = marker[l]
<1> DEFINE new == [marker[k].summary EXCEPT !.status = order_status]
           mid == [marker EXCEPT ![k].pc = "send"]
<1>1. marker \in [Markers -> [pc : MarkerPc, state : Record, summary : Record]]
  BY DEF TypeOK
<1>2. new \in Record
  BY <1>1 DEF TypeOK, Record
<1>3. marker' = [mid EXCEPT ![k].summary = new]
  BY <1>1 DEF ReadStatus
<1>4. mid \in [Markers -> [pc : MarkerPc, state : Record, summary : Record]]
  BY <1>1 DEF MarkerPc
<1>5. /\ mid[k].pc = "send" /\ mid[k].state = marker[k].state
      /\ \A l \in Markers : l # k => mid[l] = marker[l]
  BY <1>1
<1> HIDE DEF new, mid
<1>6. /\ marker' \in [Markers -> [pc : MarkerPc, state : Record, summary : Record]]
      /\ marker'[k].pc = mid[k].pc /\ marker'[k].state = mid[k].state
      /\ marker'[k].summary = new
      /\ \A l \in Markers : l # k => marker'[l] = mid[l]
  BY <1>2, <1>3, <1>4
<1>7. QED
  BY <1>5, <1>6 DEF ReadStatus, new

LEMMA RecordStateWhole ==
    ASSUME TypeOK, NEW k \in Markers, RecordState(k)
    PROVE  /\ marker' \in [Markers -> [pc : MarkerPc, state : Record, summary : Record]]
           /\ marker[k].pc = "record" /\ marker'[k].pc = "clock"
           /\ marker'[k].state = Now
           /\ \A l \in Markers : l # k => marker'[l] = marker[l]
<1>1. Now \in Record
  BY DEF Now, Record, TypeOK
<1>2. marker' = [marker EXCEPT ![k].pc = "clock", ![k].state = Now]
  BY DEF RecordState, Now
<1>3. marker \in [Markers -> [pc : MarkerPc, state : Record, summary : Record]]
  BY DEF TypeOK
<1> DEFINE mid == [marker EXCEPT ![k].pc = "clock"]
<1>4. mid \in [Markers -> [pc : MarkerPc, state : Record, summary : Record]]
  BY <1>3 DEF MarkerPc
<1>5. /\ mid[k].pc = "clock"
      /\ \A l \in Markers : l # k => mid[l] = marker[l]
  BY <1>3
<1>6. marker' = [mid EXCEPT ![k].state = Now]
  BY <1>2, <1>3
<1> HIDE DEF mid
<1>7. /\ marker' \in [Markers -> [pc : MarkerPc, state : Record, summary : Record]]
      /\ marker'[k].pc = mid[k].pc /\ marker'[k].state = Now
      /\ \A l \in Markers : l # k => marker'[l] = mid[l]
  BY <1>1, <1>4, <1>6
<1>8. QED
  BY <1>5, <1>7 DEF RecordState

\* Every variable keeps its type: the clock stays in its bounds because it counts
\* an order's stages as its threads pass them.
LEMMA TypeNext ==
    ASSUME TypeOK, Counting, Next
    PROVE  TypeOK'
<1> USE DEF TypeOK
<1>1. ASSUME NEW o \in Orders, AcceptHandoff(o) PROVE TypeOK'
  BY <1>1 DEF AcceptHandoff, markerVars, DeliveryPc, Statuses
<1>2. ASSUME NEW o \in Orders, NEW i \in 1..3, SetStage(o, i) PROVE TypeOK'
  BY <1>2, StagesDiffer DEF SetStage, markerVars, DeliveryPc
<1>3. ASSUME NEW o \in Orders, NEW i \in 1..3, CountStage(o, i) PROVE TypeOK'
  <2>1. clock[o] = i - 1
    BY <1>3, PassedAt DEF Counting, CountStage
  <2>2. clock' \in Clock
    BY <1>3, <2>1 DEF CountStage, Clock
  <2>3. delivery' \in [Orders -> DeliveryPc]
    BY <1>3 DEF CountStage, DeliveryPc
  <2>4. QED
    BY <1>3, <2>2, <2>3 DEF CountStage, markerVars
<1>4. ASSUME NEW k \in Markers, CheckRecorded(k) PROVE TypeOK'
  <2>1. recorded_snapshots' \subseteq Snapshots
    BY <1>4, FleetAssumption DEF CheckRecorded
  <2>2. QED
    BY <1>4, <2>1 DEF CheckRecorded, Move, deliveryVars, MarkerPc
<1>5. ASSUME NEW k \in Markers, RecordState(k) PROVE TypeOK'
  <2>1. marker' \in [Markers -> [pc : MarkerPc, state : Record, summary : Record]]
    BY <1>5, RecordStateWhole
  <2>2. QED
    BY <1>5, <2>1 DEF RecordState, deliveryVars
<1>6. ASSUME NEW k \in Markers, ReadClock(k) PROVE TypeOK'
  <2>1. marker' \in [Markers -> [pc : MarkerPc, state : Record, summary : Record]]
    BY <1>6, ReadClockWhole
  <2>2. QED
    BY <1>6, <2>1 DEF ReadClock, deliveryVars
<1>7. ASSUME NEW k \in Markers, ReadStatus(k) PROVE TypeOK'
  <2>1. marker' \in [Markers -> [pc : MarkerPc, state : Record, summary : Record]]
    BY <1>7, ReadStatusWhole
  <2>2. QED
    BY <1>7, <2>1 DEF ReadStatus, deliveryVars
<1>8. ASSUME NEW k \in Markers, SendState(k) PROVE TypeOK'
  <2>1. [marker[k].summary EXCEPT !.order = current_order_label] \in Record
    BY DEF Record
  <2>2. reports' \subseteq [marker : Markers, state : Record, summary : Record]
    BY <1>8, <2>1 DEF SendState
  <2>3. QED
    BY <1>8, <2>2 DEF SendState, Move, deliveryVars, MarkerPc
<1>9. QED
  BY <1>1, <1>2, <1>3, <1>4, <1>5, <1>6, <1>7, <1>8 DEF Next, DeliveryStep, MarkerStep

----------------------------------------------------------------------------
(* The orders' threads: what the clock counts and the status tells.        *)

\* How the place of an order changes, and where the others stay.
LEMMA AcceptMoves ==
    ASSUME TypeOK, NEW o \in Orders, AcceptHandoff(o)
    PROVE  /\ delivery[o] = <<"restaurant", 0>> /\ delivery'[o] = <<"write", 1>>
           /\ \A p \in Orders : p # o => delivery'[p] = delivery[p]
  BY DEF AcceptHandoff, TypeOK

LEMMA SetMoves ==
    ASSUME TypeOK, NEW o \in Orders, NEW i \in 1..3, SetStage(o, i)
    PROVE  /\ delivery[o] = <<"write", i>> /\ delivery'[o] = <<"count", i>>
           /\ \A p \in Orders : p # o => delivery'[p] = delivery[p]
  BY DEF SetStage, TypeOK

LEMMA CountMoves ==
    ASSUME TypeOK, NEW o \in Orders, NEW i \in 1..3, CountStage(o, i)
    PROVE  /\ delivery[o] = <<"count", i>>
           /\ i = 3 => delivery'[o] = <<"done", 0>>
           /\ i # 3 => delivery'[o] = <<"write", i + 1>>
           /\ clock'[o] = clock[o] + 1
           /\ \A p \in Orders : p # o => delivery'[p] = delivery[p] /\ clock'[p] = clock[p]
  BY DEF CountStage, TypeOK, Clock

\* Every step of an order's threads is one of these.
LEMMA CountingNext ==
    ASSUME TypeOK, Counting, Next
    PROVE  Counting'
<1> USE PassedAt DEF Counting
<1>1. ASSUME NEW o \in Orders, AcceptHandoff(o) PROVE Counting'
  <2>1. clock' = clock
    BY <1>1 DEF AcceptHandoff
  <2>2. Passed(<<"write", 1>>) = 0
    BY PassedAt
  <2>3. QED
    BY <1>1, <2>1, <2>2, AcceptMoves
<1>2. ASSUME NEW o \in Orders, NEW i \in 1..3, SetStage(o, i) PROVE Counting'
  <2>1. clock' = clock
    BY <1>2 DEF SetStage
  <2>2. QED
    BY <1>2, <2>1, SetMoves
<1>3. ASSUME NEW o \in Orders, NEW i \in 1..3, CountStage(o, i) PROVE Counting'
  <2>1. clock[o] = i - 1
    BY <1>3, CountMoves
  <2>2. clock'[o] = i
    BY <1>3, <2>1, CountMoves
  <2>3. Passed(delivery'[o]) = i
    <3>1. CASE i = 3
      BY <1>3, <3>1, CountMoves
    <3>2. CASE i # 3
      <4>1. i + 1 \in 1..3 /\ (i + 1) - 1 = i
        BY <3>2
      <4>2. Passed(<<"write", i + 1>>) = i
        BY <4>1
      <4>3. QED
        BY <1>3, <3>2, <4>2, CountMoves
    <3>3. QED
      BY <3>1, <3>2
  <2>4. QED
    BY <1>3, <2>2, <2>3, CountMoves
<1>4. CASE UNCHANGED deliveryVars
  BY <1>4 DEF deliveryVars
<1>5. QED
  BY <1>1, <1>2, <1>3, <1>4, Steps DEF DeliveryStep

\* Only the last write of the last order leaves no stage to be written.
LEMMA AllFinishedNext ==
    ASSUME TypeOK, AllFinished, Next
    PROVE  AllFinished'
<1> USE DEF AllFinished, Finished
<1>1. ASSUME NEW o \in Orders, AcceptHandoff(o) PROVE AllFinished'
  <2>1. delivery'[o] = <<"write", 1>>
    BY <1>1, AcceptMoves
  <2>2. QED
    BY <2>1
<1>2. ASSUME NEW o \in Orders, NEW i \in 1..3, SetStage(o, i) PROVE AllFinished'
  <2>1. CASE i = 3
    BY <1>2, <2>1 DEF SetStage, Stages
  <2>2. CASE i # 3
    <3>1. delivery'[o] = <<"count", i>>
      BY <1>2, SetMoves
    <3>2. QED
      BY <2>2, <3>1
  <2>3. QED
    BY <2>1, <2>2
<1>3. ASSUME NEW o \in Orders, NEW i \in 1..3, CountStage(o, i) PROVE AllFinished'
  <2>1. CASE i = 3
    <3>1. /\ delivery[o] = <<"count", 3>> /\ delivery'[o] = <<"done", 0>>
          /\ \A p \in Orders : p # o => delivery'[p] = delivery[p]
      BY <1>3, <2>1, CountMoves
    <3>2. order_status' = order_status
      BY <1>3 DEF CountStage
    <3>3. QED
      BY <3>1, <3>2
  <2>2. CASE i # 3
    <3>1. delivery'[o] = <<"write", i + 1>>
      BY <1>3, <2>2, CountMoves
    <3>2. QED
      BY <3>1
  <2>3. QED
    BY <2>1, <2>2
<1>4. CASE UNCHANGED deliveryVars
  BY <1>4 DEF deliveryVars
<1>5. QED
  BY <1>1, <1>2, <1>3, <1>4, Steps DEF DeliveryStep

\* overlapped is never reset.
LEMMA OverlapStays ==
    ASSUME TypeOK, Next, ~overlapped'
    PROVE  ~overlapped
  BY Zenon DEF TypeOK, Next, DeliveryStep, MarkerStep, AcceptHandoff, SetStage, CountStage, CheckRecorded,
     RecordState, ReadClock, ReadStatus, SendState, deliveryVars

\* While the orders come one by one, the order that is accepted is the only one
\* under way, and a thread that writes a stage is that of the label's order.
LEMMA OneByOneNext ==
    ASSUME TypeOK, OneByOne, Next
    PROVE  OneByOne'
<1> SUFFICES ASSUME ~overlapped'
             PROVE  /\ \A o \in Orders : UnderWay(o)' => o = current_order_label'
                    /\ current_order_label' = None =>
                         /\ order_status' = "WAITING_FOR_ORDER"
                         /\ \A o \in Orders : delivery'[o] = <<"restaurant", 0>>
                    /\ current_order_label' # None =>
                         /\ delivery'[current_order_label'] # <<"restaurant", 0>>
                         /\ Told(Now)' = Written(delivery'[current_order_label'])
  BY DEF OneByOne
<1>0. ~overlapped
  BY OverlapStays
<1>a. Now'.status = order_status'
  BY DEF Now
<1>1. ASSUME NEW o \in Orders, AcceptHandoff(o) PROVE OneByOne'
  <2>1. \A p \in Orders : ~UnderWay(p)
    BY <1>1 DEF AcceptHandoff
  <2>2. current_order_label' = o /\ order_status' = "RECEIVED_FROM_RESTAURANT" /\ o # None
    BY <1>1, FleetAssumption DEF AcceptHandoff
  <2>3. delivery'[o] = <<"write", 1>>
    BY <1>1, AcceptMoves
  <2>4. \A p \in Orders : UnderWay(p)' => p = o
    BY <1>1, <2>1, AcceptMoves DEF UnderWay
  <2>5. Told(Now') = 0
    BY <1>a, <2>2, ToldNone
  <2>6. Written(<<"write", 1>>) = 0
    BY PassedAt
  <2>7. QED
    BY <2>2, <2>3, <2>4, <2>5, <2>6 DEF OneByOne
<1>2. ASSUME NEW o \in Orders, NEW i \in 1..3, SetStage(o, i) PROVE OneByOne'
  <2>1. UnderWay(o)
    BY <1>2, SetMoves DEF UnderWay
  <2>2. current_order_label' = o /\ order_status' = Stages[i] /\ o # None
    BY <1>0, <1>2, <2>1, FleetAssumption DEF OneByOne, SetStage
  <2>3. \A p \in Orders : UnderWay(p)' => p = o
    BY <1>0, <1>2, <2>1, SetMoves DEF OneByOne, UnderWay
  <2>4. Told(Now') = i
    BY <1>a, <2>2, ToldStage
  <2>5. delivery'[o] = <<"count", i>> /\ Written(<<"count", i>>) = i
    BY <1>2, SetMoves, PassedAt
  <2>6. QED
    BY <2>2, <2>3, <2>4, <2>5 DEF OneByOne
<1>3. ASSUME NEW o \in Orders, NEW i \in 1..3, CountStage(o, i) PROVE OneByOne'
  <2>1. current_order_label' = current_order_label /\ order_status' = order_status
    BY <1>3 DEF CountStage
  <2>2. Now'.status = Now.status
    BY <2>1 DEF Now
  <2>3. Told(Now') = Told(Now)
    BY <2>2, ToldSame
  <2>4. Written(delivery'[o]) = i /\ Written(delivery[o]) = i /\ delivery'[o] # <<"restaurant", 0>>
    <3>1. CASE i = 3
      BY <1>3, <3>1, CountMoves, PassedAt
    <3>2. CASE i # 3
      <4>1. i + 1 \in 1..3 /\ (i + 1) - 1 = i
        BY <3>2
      <4>2. Written(<<"write", i + 1>>) = i
        BY <4>1, PassedAt
      <4>3. QED
        BY <1>3, <3>2, <4>2, CountMoves, PassedAt
    <3>3. QED
      BY <3>1, <3>2
  <2>5. \A p \in Orders : /\ Written(delivery'[p]) = Written(delivery[p])
                          /\ delivery'[p] = <<"restaurant", 0>> <=> delivery[p] = <<"restaurant", 0>>
    <3>1. delivery[o] # <<"restaurant", 0>>
      BY <1>3, CountMoves
    <3>2. QED
      BY <1>3, <2>4, <3>1, CountMoves
  <2>6. \A p \in Orders : UnderWay(p)' => UnderWay(p)
    <3>1. CASE i = 3
      BY <1>3, <3>1, CountMoves DEF UnderWay
    <3>2. CASE i # 3
      <4>1. delivery[o] # <<"count", 3>>
        BY <1>3, <3>2, CountMoves
      <4>2. UnderWay(o)
        BY <1>3, <4>1, CountMoves DEF UnderWay
      <4>3. QED
        BY <1>3, <4>2, CountMoves DEF UnderWay
    <3>3. QED
      BY <3>1, <3>2
  <2>7. current_order_label # None => current_order_label \in Orders
    BY DEF TypeOK
  <2>8. QED
    BY <1>0, <2>1, <2>3, <2>5, <2>6, <2>7 DEF OneByOne
<1>4. ASSUME UNCHANGED deliveryVars PROVE OneByOne'
  <2>1. /\ delivery' = delivery /\ order_status' = order_status
        /\ current_order_label' = current_order_label
    BY <1>4 DEF deliveryVars
  <2>2. Now'.status = Now.status
    BY <2>1 DEF Now
  <2>3. Told(Now') = Told(Now)
    BY <2>2, ToldSame
  <2>4. QED
    BY <1>0, <2>1, <2>3 DEF OneByOne, UnderWay
<1>5. OneByOne'
  <2>1. DeliveryStep \/ UNCHANGED deliveryVars
    BY Steps
  <2>2. ASSUME DeliveryStep PROVE OneByOne'
    BY <2>2, <1>1, <1>2, <1>3 DEF DeliveryStep
  <2>3. QED
    BY <2>1, <2>2, <1>4
<1>6. QED
  BY <1>5 DEF OneByOne

----------------------------------------------------------------------------
(* The markers' threads: what is recorded, what a summary reads, and whose *)
(* turn a snapshot is.                                                     *)

LEMMA CheckRecordedWhole ==
    ASSUME TypeOK, NEW k \in Markers, CheckRecorded(k)
    PROVE  /\ marker[k].pc = "channel"
           /\ marker'[k].pc = IF SnapshotOf[k] \in recorded_snapshots THEN "done" ELSE "record"
           /\ \A l \in Markers : l # k => marker'[l] = marker[l]
  BY DEF TypeOK, CheckRecorded, Move

LEMMA SendStateWhole ==
    ASSUME TypeOK, NEW k \in Markers, SendState(k)
    PROVE  /\ marker[k].pc = "send" /\ marker'[k].pc = "done"
           /\ \A l \in Markers : l # k => marker'[l] = marker[l]
  BY DEF TypeOK, SendState, Move

\* While the orders come one by one, what could be recorded at any time tells
\* exactly what the clock counts of the label's order, or one stage more.
LEMMA NowFits ==
    ASSUME TypeOK, Counting, OneByOne, ~overlapped
    PROVE  /\ Told(Now) - Counted(Now) \in {0, 1}
           /\ current_order_label # None => clock[current_order_label] <= Told(Now)
<1>a. Now.status = order_status /\ Now.order = current_order_label /\ Now.clock = clock
  BY DEF Now
<1>1. CASE current_order_label = None
  <2>1. Told(Now) = 0
    BY <1>a, <1>1, ToldNone DEF OneByOne
  <2>2. Counted(Now) = 0
    BY <1>a, <1>1 DEF Counted
  <2>3. QED
    BY <1>1, <2>1, <2>2
<1>2. CASE current_order_label # None
  <2>1. PICK o \in Orders : o = current_order_label
    BY <1>2 DEF TypeOK
  <2>2. Counted(Now) = Passed(delivery[o]) /\ clock[o] = Passed(delivery[o])
    BY <1>a, <1>2, <2>1 DEF Counted, Counting
  <2>3. Told(Now) = Written(delivery[o])
    BY <1>2, <2>1 DEF OneByOne
  <2>4. delivery[o] \in DeliveryPc
    BY DEF TypeOK
  <2>5. /\ Passed(delivery[o]) \in 0..3 /\ Written(delivery[o]) \in 0..3
        /\ Written(delivery[o]) - Passed(delivery[o]) \in {0, 1}
    BY <2>4, WrittenPassed
  <2>6. Passed(delivery[o]) <= Written(delivery[o])
    BY <2>5
  <2>7. QED
    BY <2>1, <2>2, <2>3, <2>5, <2>6
<1>3. QED
  BY <1>1, <1>2

\* A state is recorded in one section under state_lock, and it is not touched
\* after that.
LEMMA RecordNext ==
    ASSUME TypeOK, Counting, OneByOne, RecordExact, Next
    PROVE  RecordExact'
<1> DEFINE Reading == {"clock", "status", "send"}
<1> SUFFICES ASSUME ~overlapped', NEW l \in Markers, marker'[l].pc \in Reading
             PROVE  Told(marker'[l].state) - Counted(marker'[l].state) \in {0, 1}
  BY DEF RecordExact
<1>0. ~overlapped
  BY OverlapStays
<1>1. ASSUME marker[l].pc \in Reading, marker'[l].state = marker[l].state
      PROVE  Told(marker'[l].state) - Counted(marker'[l].state) \in {0, 1}
  BY <1>0, <1>1 DEF RecordExact
<1>2. CASE UNCHANGED markerVars
  BY <1>1, <1>2 DEF markerVars
<1>3. ASSUME NEW k \in Markers, CheckRecorded(k)
      PROVE  Told(marker'[l].state) - Counted(marker'[l].state) \in {0, 1}
  BY <1>1, <1>3, CheckRecordedWhole
<1>4. ASSUME NEW k \in Markers, RecordState(k)
      PROVE  Told(marker'[l].state) - Counted(marker'[l].state) \in {0, 1}
  <2>1. CASE l = k
    BY <1>0, <1>4, <2>1, RecordStateWhole, NowFits
  <2>2. CASE l # k
    BY <1>1, <1>4, <2>2, RecordStateWhole
  <2>3. QED
    BY <2>1, <2>2
<1>5. ASSUME NEW k \in Markers, ReadClock(k)
      PROVE  Told(marker'[l].state) - Counted(marker'[l].state) \in {0, 1}
  BY <1>1, <1>5, ReadClockWhole
<1>6. ASSUME NEW k \in Markers, ReadStatus(k)
      PROVE  Told(marker'[l].state) - Counted(marker'[l].state) \in {0, 1}
  BY <1>1, <1>6, ReadStatusWhole
<1>7. ASSUME NEW k \in Markers, SendState(k)
      PROVE  Told(marker'[l].state) - Counted(marker'[l].state) \in {0, 1}
  BY <1>1, <1>7, SendStateWhole
<1>8. QED
  BY <1>2, <1>3, <1>4, <1>5, <1>6, <1>7, Steps DEF MarkerStep

\* The clock never goes back.
LEMMA ClockGrows ==
    ASSUME TypeOK, Next
    PROVE  \A o \in Orders : clock[o] \in 0..3 /\ clock[o] <= clock'[o]
<1>1. \A o \in Orders : clock[o] \in 0..3
  BY DEF TypeOK, Clock
<1>2. ASSUME clock' = clock PROVE \A o \in Orders : clock[o] <= clock'[o]
  BY <1>1, <1>2
<1>3. ASSUME NEW o \in Orders, NEW i \in 1..3, CountStage(o, i)
      PROVE  \A p \in Orders : clock[p] <= clock'[p]
  BY <1>1, <1>3, CountMoves
<1>4. ASSUME NEW o \in Orders, AcceptHandoff(o) PROVE clock' = clock
  BY <1>4 DEF AcceptHandoff
<1>5. ASSUME NEW o \in Orders, NEW i \in 1..3, SetStage(o, i) PROVE clock' = clock
  BY <1>5 DEF SetStage
<1>6. ASSUME UNCHANGED deliveryVars PROVE clock' = clock
  BY <1>6 DEF deliveryVars
<1>7. \A o \in Orders : clock[o] <= clock'[o]
  BY <1>2, <1>3, <1>4, <1>5, <1>6, Steps DEF DeliveryStep
<1>8. QED
  BY <1>1, <1>7

LEMMA ClockReadNext ==
    ASSUME TypeOK, Counting, ClockRead, Next
    PROVE  ClockRead'
<1> SUFFICES ASSUME NEW l \in Markers, marker'[l].pc \in {"status", "send"}, NEW o \in Orders
             PROVE  marker'[l].summary.clock[o] <= clock'[o]
  BY DEF ClockRead
<1>0. clock[o] \in 0..3 /\ clock[o] <= clock'[o] /\ clock'[o] \in Int
  <2>1. clock'[o] \in Int
    BY TypeNext DEF TypeOK, Clock
  <2>2. QED
    BY <2>1, ClockGrows
<1>1. ASSUME marker[l].pc \in {"status", "send"},
             marker'[l].summary.clock = marker[l].summary.clock
      PROVE  marker'[l].summary.clock[o] <= clock'[o]
  <2>1. marker[l].summary.clock[o] \in 0..3
    BY DEF TypeOK, Record, Clock
  <2>2. marker[l].summary.clock[o] <= clock[o]
    BY <1>1 DEF ClockRead
  <2>3. QED
    BY <1>0, <1>1, <2>1, <2>2
<1>2. CASE UNCHANGED markerVars
  BY <1>1, <1>2 DEF markerVars
<1>3. ASSUME NEW k \in Markers, CheckRecorded(k)
      PROVE  marker'[l].summary.clock[o] <= clock'[o]
  BY <1>1, <1>3, CheckRecordedWhole
<1>4. ASSUME NEW k \in Markers, RecordState(k)
      PROVE  marker'[l].summary.clock[o] <= clock'[o]
  BY <1>1, <1>4, RecordStateWhole
<1>5. ASSUME NEW k \in Markers, ReadClock(k)
      PROVE  marker'[l].summary.clock[o] <= clock'[o]
  <2>1. CASE l = k
    <3>1. marker[k].summary \in Record
      BY DEF TypeOK
    <3>2. marker'[k].summary.clock = clock
      BY <1>5, <3>1, ReadClockWhole DEF Record
    <3>3. QED
      BY <1>0, <2>1, <3>2
  <2>2. CASE l # k
    BY <1>1, <1>5, <2>2, ReadClockWhole
  <2>3. QED
    BY <2>1, <2>2
<1>6. ASSUME NEW k \in Markers, ReadStatus(k)
      PROVE  marker'[l].summary.clock[o] <= clock'[o]
  <2>1. marker[k].summary \in Record
    BY DEF TypeOK
  <2>2. marker'[k].summary = [marker[k].summary EXCEPT !.status = order_status]
    BY <1>6, ReadStatusWhole
  <2>3. marker'[k].summary.clock = marker[k].summary.clock
    BY <2>1, <2>2 DEF Record
  <2>4. QED
    BY <1>1, <1>6, <2>3, ReadStatusWhole
<1>7. ASSUME NEW k \in Markers, SendState(k)
      PROVE  marker'[l].summary.clock[o] <= clock'[o]
  BY <1>1, <1>7, SendStateWhole
<1>8. QED
  BY <1>2, <1>3, <1>4, <1>5, <1>6, <1>7, Steps DEF MarkerStep

\* The label is read last: what the summary's status must tell of it was true of
\* the label when the status was read, or the label's order had not come then.
LEMMA StatusReadNext ==
    ASSUME TypeOK, Counting, OneByOne, ClockRead, StatusRead, Next
    PROVE  StatusRead'
<1> SUFFICES ASSUME ~overlapped', NEW l \in Markers, marker'[l].pc = "send",
                    NEW o \in Orders,
                    o = current_order_label' \/ delivery'[o] = <<"restaurant", 0>>
             PROVE  marker'[l].summary.clock[o] <= Told(marker'[l].summary)
  BY DEF StatusRead
<1>0. ~overlapped
  BY OverlapStays
<1>1. ASSUME marker[l].pc = "send", marker'[l] = marker[l],
             o = current_order_label \/ delivery[o] = <<"restaurant", 0>>
      PROVE  marker'[l].summary.clock[o] <= Told(marker'[l].summary)
  BY <1>0, <1>1 DEF StatusRead
<1>2. CASE DeliveryStep /\ UNCHANGED markerVars
  <2>1. ASSUME NEW p \in Orders, AcceptHandoff(p)
        PROVE  o = current_order_label \/ delivery[o] = <<"restaurant", 0>>
    <3>1. current_order_label' = p
      BY <2>1 DEF AcceptHandoff
    <3>2. QED
      BY <2>1, <3>1, AcceptMoves
  <2>2. ASSUME NEW p \in Orders, NEW i \in 1..3, SetStage(p, i)
        PROVE  o = current_order_label \/ delivery[o] = <<"restaurant", 0>>
    <3>1. current_order_label' = current_order_label
      BY <2>2 DEF SetStage
    <3>2. <<"count", i>> # <<"restaurant", 0>>
      OBVIOUS
    <3>3. QED
      BY <2>2, <3>1, <3>2, SetMoves
  <2>3. ASSUME NEW p \in Orders, NEW i \in 1..3, CountStage(p, i)
        PROVE  o = current_order_label \/ delivery[o] = <<"restaurant", 0>>
    <3>1. current_order_label' = current_order_label
      BY <2>3 DEF CountStage
    <3>2. delivery'[p] # <<"restaurant", 0>>
      BY <2>3, CountMoves
    <3>3. QED
      BY <2>3, <3>1, <3>2, CountMoves
  <2>4. o = current_order_label \/ delivery[o] = <<"restaurant", 0>>
    BY <1>2, <2>1, <2>2, <2>3 DEF DeliveryStep
  <2>5. QED
    BY <1>1, <1>2, <2>4 DEF markerVars
<1>3. ASSUME MarkerStep, UNCHANGED deliveryVars
      PROVE  marker'[l].summary.clock[o] <= Told(marker'[l].summary)
  <2>0. o = current_order_label \/ delivery[o] = <<"restaurant", 0>>
    BY <1>3 DEF deliveryVars
  <2>1. ASSUME NEW k \in Markers, CheckRecorded(k)
        PROVE  marker'[l].summary.clock[o] <= Told(marker'[l].summary)
    BY <1>1, <2>0, <2>1, CheckRecordedWhole
  <2>2. ASSUME NEW k \in Markers, RecordState(k)
        PROVE  marker'[l].summary.clock[o] <= Told(marker'[l].summary)
    BY <1>1, <2>0, <2>2, RecordStateWhole
  <2>3. ASSUME NEW k \in Markers, ReadClock(k)
        PROVE  marker'[l].summary.clock[o] <= Told(marker'[l].summary)
    BY <1>1, <2>0, <2>3, ReadClockWhole
  <2>4. ASSUME NEW k \in Markers, ReadStatus(k)
        PROVE  marker'[l].summary.clock[o] <= Told(marker'[l].summary)
    <3>1. CASE l # k
      BY <1>1, <2>0, <2>4, <3>1, ReadStatusWhole
    <3>2. CASE l = k
      <4>1. marker[l].summary \in Record
        BY DEF TypeOK
      <4>2. /\ marker'[l].summary.clock = marker[l].summary.clock
            /\ marker'[l].summary.status = order_status
        BY <2>4, <3>2, <4>1, ReadStatusWhole DEF Record
      <4>3. marker[l].summary.clock[o] <= clock[o]
        BY <2>4, <3>2, ReadStatusWhole DEF ClockRead
      <4>4. Told(marker'[l].summary) = Told(Now)
        BY <4>2, ToldSame DEF Now
      <4>5. marker[l].summary.clock[o] \in 0..3 /\ clock[o] \in 0..3 /\ Told(Now) \in 0..3
        BY <4>1, ToldNat DEF TypeOK, Record, Clock
      <4>6. clock[o] <= Told(Now)
        <5>1. CASE o = current_order_label
          BY <1>0, <5>1, NowFits, FleetAssumption
        <5>2. CASE delivery[o] = <<"restaurant", 0>>
          <6>1. clock[o] = 0
            BY <5>2, PassedAt DEF Counting
          <6>2. QED
            BY <4>5, <6>1
        <5>3. QED
          BY <2>0, <5>1, <5>2
      <4>7. QED
        BY <4>2, <4>3, <4>4, <4>5, <4>6
    <3>3. QED
      BY <3>1, <3>2
  <2>5. ASSUME NEW k \in Markers, SendState(k)
        PROVE  marker'[l].summary.clock[o] <= Told(marker'[l].summary)
    BY <1>1, <2>0, <2>5, SendStateWhole
  <2>6. QED
    BY <1>3, <2>1, <2>2, <2>3, <2>4, <2>5 DEF MarkerStep
<1>4. QED
  BY <1>2, <1>3, Steps

\* What a STATE message says does not change, and a new one has just read the
\* label.
LEMMA SummaryNext ==
    ASSUME TypeOK, StatusRead, SummaryNotBehind, Next
    PROVE  SummaryNotBehind'
<1> SUFFICES ASSUME ~overlapped', NEW rep \in reports'
             PROVE  Counted(rep.summary) <= Told(rep.summary)
  BY DEF SummaryNotBehind
<1>0. ~overlapped
  BY OverlapStays
<1>1. ASSUME rep \in reports PROVE Counted(rep.summary) <= Told(rep.summary)
  BY <1>0, <1>1 DEF SummaryNotBehind
<1>2. ASSUME NEW k \in Markers, SendState(k) PROVE Counted(rep.summary) <= Told(rep.summary)
  <2> DEFINE summary == [marker[k].summary EXCEPT !.order = current_order_label]
  <2>0. marker[k].summary \in Record
    BY DEF TypeOK
  <2>1. /\ summary.order = current_order_label
        /\ summary.clock = marker[k].summary.clock
        /\ summary.status = marker[k].summary.status
    BY <2>0 DEF Record
  <2>2. rep \notin reports => rep.summary = summary
    BY <1>2 DEF SendState
  <2> HIDE DEF summary
  <2>3. Told(summary) = Told(marker[k].summary)
    BY <2>1, ToldSame
  <2>4. CASE current_order_label = None
    <3>1. Counted(summary) = 0
      BY <2>1, <2>4 DEF Counted
    <3>2. Told(summary) \in 0..3
      BY ToldNat
    <3>3. QED
      BY <1>1, <2>2, <3>1, <3>2
  <2>5. CASE current_order_label # None
    <3>1. current_order_label \in Orders
      BY <2>5 DEF TypeOK
    <3>2. marker[k].summary.clock[current_order_label] <= Told(marker[k].summary)
      BY <1>0, <1>2, <3>1, SendStateWhole DEF StatusRead
    <3>3. Counted(summary) = marker[k].summary.clock[current_order_label]
      BY <2>1, <2>5 DEF Counted
    <3>4. QED
      BY <1>1, <2>2, <2>3, <3>2, <3>3
  <2>6. QED
    BY <2>4, <2>5
<1>3. ASSUME NEW k \in Markers,
             CheckRecorded(k) \/ RecordState(k) \/ ReadClock(k) \/ ReadStatus(k)
      PROVE  reports' = reports
  BY <1>3 DEF CheckRecorded, RecordState, ReadClock, ReadStatus
<1>4. ASSUME UNCHANGED markerVars PROVE reports' = reports
  BY <1>4 DEF markerVars
<1>5. QED
  BY <1>1, <1>2, <1>3, <1>4, Steps DEF MarkerStep

\* The check and the entry of a snapshot are one section under snap_lock: of the
\* threads of its markers only the first goes on, and it reports once.
LEMMA OneClaimNext ==
    ASSUME TypeOK, OneClaim, Next
    PROVE  OneClaim'
<1> DEFINE Busy == {"record", "clock", "status", "send"}
<1>1. CASE UNCHANGED markerVars
  BY <1>1 DEF markerVars, OneClaim, Claimed
<1>2. ASSUME NEW k \in Markers, CheckRecorded(k) PROVE OneClaim'
  <2>1. /\ recorded_snapshots' = recorded_snapshots \cup {SnapshotOf[k]}
        /\ reports' = reports
    BY <1>2 DEF CheckRecorded
  <2>2. \A rep \in reports : rep.marker # k
    BY <1>2, CheckRecordedWhole DEF OneClaim
  <2>3. \A l \in Markers : l # k => (Claimed(l)' <=> Claimed(l))
    BY <1>2, <2>1, CheckRecordedWhole DEF Claimed
  <2>4. Claimed(k)' => SnapshotOf[k] \notin recorded_snapshots
    BY <1>2, <2>1, <2>2, CheckRecordedWhole DEF Claimed
  <2>5. \A l \in Markers : Claimed(l)' => SnapshotOf[l] \in recorded_snapshots'
    BY <2>1, <2>3 DEF OneClaim
  <2>6. \A l, m \in Markers :
          Claimed(l)' /\ Claimed(m)' /\ SnapshotOf[l] = SnapshotOf[m] => l = m
    BY <2>3, <2>4 DEF OneClaim
  <2>7. \A rep \in reports' : marker'[rep.marker].pc = "done"
    <3>1. \A rep \in reports : rep.marker \in Markers
      BY DEF TypeOK
    <3>2. QED
      BY <1>2, <2>1, <2>2, <3>1, CheckRecordedWhole DEF OneClaim
  <2>8. QED
    BY <2>1, <2>5, <2>6, <2>7 DEF OneClaim
<1>3. ASSUME NEW k \in Markers, marker[k].pc \in Busy, marker'[k].pc \in Busy,
             \A l \in Markers : l # k => marker'[l] = marker[l],
             UNCHANGED <<recorded_snapshots, reports>>
      PROVE  OneClaim'
  <2>1. \A l \in Markers : Claimed(l)' <=> Claimed(l)
    BY <1>3 DEF Claimed
  <2>2. \A rep \in reports : rep.marker \in Markers /\ rep.marker # k
    BY <1>3 DEF OneClaim, TypeOK
  <2>3. QED
    BY <1>3, <2>1, <2>2 DEF OneClaim
<1>4. ASSUME NEW k \in Markers, RecordState(k) PROVE OneClaim'
  BY <1>3, <1>4, RecordStateWhole DEF RecordState
<1>5. ASSUME NEW k \in Markers, ReadClock(k) PROVE OneClaim'
  BY <1>3, <1>5, ReadClockWhole DEF ReadClock
<1>6. ASSUME NEW k \in Markers, ReadStatus(k) PROVE OneClaim'
  BY <1>3, <1>6, ReadStatusWhole DEF ReadStatus
<1>7. ASSUME NEW k \in Markers, SendState(k) PROVE OneClaim'
  <2> DEFINE new == [marker |-> k, state |-> marker[k].state,
                     summary |-> [marker[k].summary EXCEPT !.order = current_order_label]]
  <2>1. reports' = reports \cup {new} /\ new.marker = k
    BY <1>7 DEF SendState
  <2> HIDE DEF new
  <2>2. recorded_snapshots' = recorded_snapshots
    BY <1>7 DEF SendState
  <2>3. \A l \in Markers : Claimed(l)' <=> Claimed(l)
    BY <1>7, <2>1, SendStateWhole DEF Claimed
  <2>4. \A rep \in reports : rep.marker \in Markers /\ rep.marker # k
    BY <1>7, SendStateWhole DEF OneClaim, TypeOK
  <2>5. QED
    BY <1>7, <2>1, <2>2, <2>3, <2>4, SendStateWhole DEF OneClaim
<1>8. QED
  BY <1>1, <1>2, <1>4, <1>5, <1>6, <1>7, Steps DEF MarkerStep

----------------------------------------------------------------------------
(* The invariant, and what it says.                                        *)

\* The invariant is inductive.
LEMMA InvariantNext ==
    ASSUME IInv, [Next]_vars
    PROVE  IInv'
<1>1. CASE Next
  BY <1>1, TypeNext, CountingNext, OneByOneNext, AllFinishedNext, RecordNext, ClockReadNext,
     StatusReadNext, SummaryNext, OneClaimNext DEF IInv
<1>2. ASSUME UNCHANGED vars PROVE IInv'
  <2>1. Now' = Now
    BY <1>2 DEF vars, deliveryVars, Now
  <2>2. Told(Now)' = Told(Now)
    BY <2>1
  <2>3. QED
    BY <1>2, <2>1, <2>2 DEF IInv, vars, deliveryVars, markerVars, TypeOK, Counting, OneByOne, UnderWay,
       AllFinished, Finished, RecordExact, ClockRead, StatusRead, SummaryNotBehind, OneClaim,
       Claimed
<1>3. QED
  BY <1>1, <1>2

LEMMA FleetInvariant == Spec => []IInv
<1>1. Init => IInv
  BY InitialInvariant
<1>2. IInv /\ [Next]_vars => IInv'
  BY InvariantNext
<1>3. QED
  BY <1>1, <1>2, PTL DEF Spec

\* Every variable of a delivery runner keeps its type, and so its clock never
\* counts more than three stages of an order.
THEOREM TypeCorrect == Spec => []TypeOK
<1>1. IInv => TypeOK
  BY DEF IInv
<1>2. QED
  BY <1>1, FleetInvariant, PTL

\* The state that a runner records under state_lock agrees with the clock that it
\* records with it, if the orders come one after the other: for any number of
\* orders and snapshots, the status is at most the one stage ahead that is
\* written before its event is counted.
THEOREM RecordsExact == Spec => []RecordExact
<1>1. IInv => RecordExact
  BY DEF IInv
<1>2. QED
  BY <1>1, FleetInvariant, PTL

\* The summary line of a STATE message, whose three parts are read at three times
\* without a lock, never lacks a stage that its clock counts, if the orders come
\* one after the other.
THEOREM SummariesNotBehind == Spec => []SummaryNotBehind
<1>1. IInv => SummaryNotBehind
  BY DEF IInv
<1>2. QED
  BY <1>1, FleetInvariant, PTL

\* Whatever the threads of overlapping orders do to each other's status, the last
\* of them leaves it at DELIVERED.
THEOREM DeliveredInTheEnd == Spec => []QuiescentDelivered
<1>1. AllFinished => QuiescentDelivered
  BY DEF AllFinished, Finished, QuiescentDelivered
<1>2. IInv => QuiescentDelivered
  BY <1>1 DEF IInv
<1>3. QED
  BY <1>2, FleetInvariant, PTL

\* However many markers of a snapshot arrive and however their threads are
\* interleaved, a runner reports the snapshot once.
THEOREM ReportsOnce == Spec => []OneReport
<1>1. ASSUME TypeOK, OneClaim PROVE OneReport
  <2> SUFFICES ASSUME NEW a \in reports, NEW b \in reports,
                      SnapshotOf[a.marker] = SnapshotOf[b.marker]
               PROVE  a = b
    BY DEF OneReport
  <2>1. a.marker \in Markers /\ b.marker \in Markers
    BY <1>1 DEF TypeOK
  <2>2. Claimed(a.marker) /\ Claimed(b.marker)
    BY DEF Claimed
  <2>3. a.marker = b.marker
    BY <1>1, <2>1, <2>2 DEF OneClaim
  <2>4. QED
    BY <1>1, <2>3 DEF OneClaim
<1>2. IInv => OneReport
  BY <1>1 DEF IInv
<1>3. QED
  BY <1>2, FleetInvariant, PTL

=============================================================================
