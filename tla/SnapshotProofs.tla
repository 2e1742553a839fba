--------------------------- MODULE SnapshotProofs ---------------------------
(***************************************************************************)
(* Theorems about what P0 collects of a snapshot: that the last of the     *)
(* threads that count the states is there to give the verdict, that no     *)
(* process reports twice, that no clock goes back, and that the system     *)
(* implements SnapshotWay.                                                 *)
(***************************************************************************)
EXTENDS FoodDeliveryProofs

----------------------------------------------------------------------------
(* The store.                                                              *)

\* What P0's main thread has in hand while it takes its own state and stores it.
LEMMA MainParts ==
    ASSUME TypeOK
    PROVE  /\ main.pc \in {"record", "store"} => main.id \in Snapshots
           /\ main.pc = "store" => main.vc \in Clock
           /\ main.pc = "view" => main.left \in SUBSET Snapshots
<1>1. main \in MainState
  BY DEF TypeOK
<1>2. QED
  BY <1>1 DEF MainState, Menu

Entry == [proc : Proc, vc : Clock]

\* The assignment to a key that is there changes the clocks of its entries.
LEMMA PutOld ==
    ASSUME NEW entries \in Seq(Entry), NEW p \in Proc, NEW v \in Clock,
           NEW new, new = Put(entries, p, v),
           \E i \in DOMAIN entries : entries[i].proc = p
    PROVE  /\ new \in Seq(Entry)
           /\ Len(new) = Len(entries) /\ DOMAIN new = DOMAIN entries
           /\ \A i \in DOMAIN entries : new[i].proc = entries[i].proc
           /\ \A i \in DOMAIN entries : entries[i].proc # p => new[i] = entries[i]
           /\ \A i \in DOMAIN entries : entries[i].proc = p => new[i].vc = v
<1>1. new \in Seq(Entry)
  BY PutType DEF Entry
<1>2. new = [i \in DOMAIN entries |->
               IF entries[i].proc = p THEN [proc |-> p, vc |-> v] ELSE entries[i]]
  BY DEF Put
<1>3. DOMAIN new = DOMAIN entries
  BY <1>2
<1>4. Len(new) = Len(entries)
  BY <1>1, <1>3, LenProperties
<1>5. \A i \in DOMAIN entries :
         new[i] = IF entries[i].proc = p THEN [proc |-> p, vc |-> v] ELSE entries[i]
  BY <1>2
<1>6. \A i \in DOMAIN entries : entries[i].proc # p => new[i] = entries[i]
  BY <1>5
<1>7. \A i \in DOMAIN entries : entries[i].proc = p => new[i] = [proc |-> p, vc |-> v]
  BY <1>5
<1>8. /\ \A i \in DOMAIN entries : new[i].proc = entries[i].proc
      /\ \A i \in DOMAIN entries : entries[i].proc = p => new[i].vc = v
  BY <1>6, <1>7
<1> HIDE <1>2, <1>5
<1>9. QED
  BY <1>1, <1>3, <1>4, <1>6, <1>8

\* The assignment to a new key adds an entry at the end.
LEMMA PutNew ==
    ASSUME NEW entries \in Seq(Entry), NEW p \in Proc, NEW v \in Clock,
           NEW new, new = Put(entries, p, v),
           ~ \E i \in DOMAIN entries : entries[i].proc = p
    PROVE  /\ new \in Seq(Entry)
           /\ \A i \in DOMAIN entries : i \in DOMAIN new /\ new[i] = entries[i]
           /\ \A i \in DOMAIN new : i \in DOMAIN entries \/ i = Len(new)
           /\ Len(new) \in DOMAIN new /\ Len(new) \notin DOMAIN entries
           /\ new[Len(new)].proc = p /\ new[Len(new)].vc = v
<1>1. new = Append(entries, [proc |-> p, vc |-> v]) /\ [proc |-> p, vc |-> v] \in Entry
  BY DEF Put, Entry
<1>2. new \in Seq(Entry)
  BY <1>1, AppendProperties
<1>3. /\ Len(new) = Len(entries) + 1
      /\ new[Len(entries) + 1] = [proc |-> p, vc |-> v]
      /\ \A i \in 1 .. Len(entries) : new[i] = entries[i]
  BY <1>1, AppendProperties
<1>4. Len(entries) \in Nat /\ DOMAIN entries = 1 .. Len(entries) /\ DOMAIN new = 1 .. Len(new)
  BY <1>2, LenProperties
<1>5. new[Len(new)].proc = p /\ new[Len(new)].vc = v
  BY <1>3
<1>6. /\ \A i \in DOMAIN entries : i \in DOMAIN new /\ new[i] = entries[i]
      /\ \A i \in DOMAIN new : i \in DOMAIN entries \/ i = Len(new)
      /\ Len(new) \in DOMAIN new /\ Len(new) \notin DOMAIN entries
  BY <1>3, <1>4
<1>7. QED
  BY <1>2, <1>5, <1>6

----------------------------------------------------------------------------
(* The frame of the steps that do not touch P0's store.                    *)

StoreStep(t) == HandleState(t) \/ CountStates(t) \/ CheckSnapshotConsistency(t)

\* Any other step leaves the store and the verdicts alone, and with them the
\* threads that are busy with a state.
LEMMA StoreFrame ==
    ASSUME TypeOK, [Next]_vars, ~StoreOwnState, \A s \in Snapshots : ~CheckViewed(s),
           \A t \in threads : ~StoreStep(t)
    PROVE  /\ UNCHANGED <<state_store, verdict>>
           /\ \A t \in threads : t.pc \in StatePc => t \in threads'
<1> USE DEF coordinatorVars
<1>1. CASE UNCHANGED vars
  BY <1>1 DEF vars
<1>2. CASE Command \/ MainStep
  BY <1>2 DEF Command, CreateOrder, InitiateSnapshot, ViewSnapshots, MainStep, DispatchOrder,
              RecordOwnState
<1>3. CASE Arrival \/ Failure
  BY <1>3 DEF Arrival, ReceiveDelivery, ReceiveState, AcceptOrder, ReceiveMarker,
              ReceiveHandoff, ReceiveRunnerMarker, Receive, Failure, Lose
<1>4. ASSUME NEW t \in threads, CoordinatorStep(t) \/ RestaurantStep(t) \/ RunnerStep(t)
      PROVE  /\ UNCHANGED <<state_store, verdict>>
             /\ \A u \in threads : u.pc \in StatePc => u \in threads'
  <2>1. CASE ConfirmDelivery(t)
    BY <2>1 DEF ConfirmDelivery, Finish, StatePc
  <2>2. CASE RestaurantStep(t)
    <3>1. t.pc \notin StatePc
      BY <2>2 DEF RestaurantStep, HandleOrder, OrderConfirmed, PreparingFood, FoodReady,
                  OrderEvent, HandToRunner, RecordMarker, ForwardMarker, NothingToComplete,
                  CompleteSnapshot, SendState, ReleaseLock, StatePc
    <3>2. threads \ {t} \subseteq threads'
      BY <2>2 DEF RestaurantStep, HandleOrder, OrderConfirmed, PreparingFood, FoodReady,
                  OrderEvent, HandToRunner, RecordMarker, FirstMarker, LaterMarker,
                  ForwardMarker, NothingToComplete, CompleteSnapshot, SendState,
                  ReleaseLock, Goto, Keep, Finish
    <3>3. UNCHANGED <<state_store, verdict>>
      BY <2>2 DEF RestaurantStep, HandleOrder, OrderConfirmed, PreparingFood, FoodReady,
                  OrderEvent, HandToRunner, RecordMarker, ForwardMarker, NothingToComplete,
                  CompleteSnapshot, SendState, ReleaseLock
    <3>4. QED
      BY <3>1, <3>2, <3>3
  <2>3. CASE RunnerStep(t)
    <3>1. t.pc \notin StatePc
      BY <2>3 DEF RunnerStep, PickedUp, InTransit, Delivered, DeliveryEvent, SendDelivery,
                  CheckMarker, ReportState, StatePc
    <3>2. threads \ {t} \subseteq threads'
      BY <2>3 DEF RunnerStep, PickedUp, InTransit, Delivered, DeliveryEvent, SendDelivery,
                  CheckMarker, StampState, DuplicateMarker, ReportState, Goto, Keep, Finish
    <3>3. UNCHANGED <<state_store, verdict>>
      BY <2>3 DEF RunnerStep, PickedUp, InTransit, Delivered, DeliveryEvent, SendDelivery,
                  CheckMarker, ReportState
    <3>4. QED
      BY <3>1, <3>2, <3>3
  <2>4. QED
    BY <1>4, <2>1, <2>2, <2>3 DEF CoordinatorStep, StoreStep
<1>5. QED
  BY <1>1, <1>2, <1>3, <1>4 DEF Next, HandlerStep

----------------------------------------------------------------------------
(* The verdict is not lost.                                                *)

Busy(t, s) == t.msg.id = s /\ t.pc \in {"count", "verify"}

LastIsRemote(entries) == entries[Len(entries)].proc # P0

Announced(s) == \E v \in verdict[s] : v.by = "collected"

\* The check of a snapshot adds a verdict.
LEMMA CheckAdds ==
    ASSUME TypeOK, NEW s0 \in Snapshots, NEW by, Check(s0, by)
    PROVE  /\ \A s \in Snapshots : verdict[s] \subseteq verdict'[s]
           /\ \A s \in Snapshots : s # s0 => verdict'[s] = verdict[s]
           /\ \E v \in verdict'[s0] : v.by = by
<1>1. verdict \in [Snapshots -> SUBSET Verdicts]
  BY DEF TypeOK
<1> DEFINE v0 == [by |-> by, says |-> IF Inconsistencies(state_store[s0]) = {}
                                     THEN "consistent" ELSE "inconsistent"]
<1>2. verdict' = [verdict EXCEPT ![s0] = @ \cup {v0}] /\ v0.by = by
  BY DEF Check
<1> HIDE DEF v0
<1>3. QED
  BY <1>1, <1>2

\* A full store whose last entry is not P0's own has a verdict, or a thread
\* that has still to count it or to check it.
VerdictInv ==
    \A s \in Snapshots :
        AllCollected(state_store[s]) /\ LastIsRemote(state_store[s]) =>
            Announced(s) \/ \E t \in threads : Busy(t, s)

\* Every step keeps it.
LEMMA VerdictNext == TypeOK /\ VerdictInv /\ [Next]_vars => VerdictInv'
<1> SUFFICES ASSUME TypeOK, VerdictInv, [Next]_vars PROVE VerdictInv'
  OBVIOUS
<1>1. /\ \A s \in Snapshots : state_store[s] \in Seq(Entry)
      /\ state_store \in [Snapshots -> Seq(Entry)]
      /\ verdict \in [Snapshots -> SUBSET Verdicts]
  BY DEF TypeOK, Entry
<1>2. \A s \in Snapshots : DOMAIN state_store[s] = 1 .. Len(state_store[s])
                           /\ Len(state_store[s]) \in Nat
  BY <1>1, LenProperties
<1>3. CASE /\ ~StoreOwnState /\ \A s \in Snapshots : ~CheckViewed(s)
           /\ \A t \in threads : ~StoreStep(t)
  <2>1. /\ UNCHANGED <<state_store, verdict>>
        /\ \A t \in threads : t.pc \in StatePc => t \in threads'
    BY <1>3, StoreFrame
  <2>2. QED
    BY <2>1 DEF VerdictInv, Announced, Busy, StatePc, AllCollected, LastIsRemote
<1>4. CASE StoreOwnState
  <2>1. UNCHANGED <<threads, verdict>>
    BY <1>4 DEF StoreOwnState
  <2>2. P0 \in Proc /\ main.id \in Snapshots /\ main.vc \in Clock
    BY <1>4, Roles, MainParts DEF StoreOwnState
  <2> DEFINE old == state_store[main.id]
             new == Put(old, P0, main.vc)
  <2>3. state_store' = [state_store EXCEPT ![main.id] = new]
    BY <1>4 DEF StoreOwnState
  <2>4. old \in Seq(Entry)
    BY <1>1, <2>2
  <2> HIDE DEF old
  <2>5. \A s \in Snapshots : state_store'[s] = IF s = main.id THEN new ELSE state_store[s]
    BY <1>1, <2>2, <2>3
  <2> HIDE DEF new
  <2>6. AllCollected(new) /\ LastIsRemote(new) => AllCollected(old) /\ LastIsRemote(old)
    <3>1. DOMAIN old = 1 .. Len(old) /\ Len(old) \in Nat
      BY <2>4, LenProperties
    <3>2. \/ /\ Len(new) = Len(old) /\ \A i \in DOMAIN old : new[i].proc = old[i].proc
             /\ DOMAIN old # {}
          \/ new[Len(new)].proc = P0
      <4>1. new = Put(old, P0, main.vc)
        BY DEF new
      <4>2. CASE \E i \in DOMAIN old : old[i].proc = P0
        BY <2>2, <2>4, <4>1, <4>2, PutOld
      <4>3. CASE ~ \E i \in DOMAIN old : old[i].proc = P0
        BY <2>2, <2>4, <4>1, <4>3, PutNew
      <4>4. QED
        BY <4>2, <4>3
    <3>3. CASE new[Len(new)].proc = P0
      BY <3>3 DEF LastIsRemote
    <3>4. CASE /\ Len(new) = Len(old) /\ \A i \in DOMAIN old : new[i].proc = old[i].proc
               /\ DOMAIN old # {}
      <4>1. Len(old) \in DOMAIN old
        BY <3>1, <3>4
      <4>2. QED
        BY <3>4, <4>1 DEF AllCollected, LastIsRemote
    <3>5. QED
      BY <3>2, <3>3, <3>4
  <2>7. QED
    BY <2>1, <2>5, <2>6 DEF VerdictInv, Announced, old
<1>5. ASSUME NEW t \in threads, HandleState(t) PROVE VerdictInv'
  <2> DEFINE u == [t EXCEPT !.pc = "count"]
  <2>1. t.msg.id \in Snapshots /\ t.pc = "store"
    BY <1>5, HandlerOf DEF HandleState, StatePc
  <2>2. u.msg = t.msg /\ u.pc = "count"
    BY ThreadParts
  <2>3. threads' = (threads \ {t}) \cup {u} /\ verdict' = verdict
    BY <1>5 DEF HandleState, Goto
  <2>4. \A s \in Snapshots : s # t.msg.id => state_store'[s] = state_store[s]
    BY <1>1, <1>5, <2>1 DEF HandleState
  <2>5. Busy(u, t.msg.id) /\ \A s \in Snapshots : ~Busy(t, s)
    BY <2>1, <2>2 DEF Busy
  <2>6. QED
    BY <2>3, <2>4, <2>5 DEF VerdictInv, Announced
<1>6. ASSUME NEW t \in threads, CountStates(t) PROVE VerdictInv'
  <2>1. t.msg.id \in Snapshots /\ t.pc = "count" /\ UNCHANGED <<state_store, verdict>>
    BY <1>6, HandlerOf DEF CountStates, StatePc, coordinatorVars
  <2>2. CASE AllCollected(state_store[t.msg.id])
    <3> DEFINE u == [t EXCEPT !.pc = "verify"]
    <3>1. u.msg = t.msg /\ u.pc = "verify"
      BY ThreadParts
    <3>2. threads' = (threads \ {t}) \cup {u}
      BY <1>6, <2>2 DEF CountStates, Goto
    <3>3. Busy(u, t.msg.id) /\ \A s \in Snapshots : Busy(t, s) => s = t.msg.id
      BY <2>1, <3>1 DEF Busy
    <3>4. QED
      BY <2>1, <3>2, <3>3 DEF VerdictInv, Announced
  <2>3. CASE ~AllCollected(state_store[t.msg.id])
    <3>1. threads' = threads \ {t}
      BY <1>6, <2>3 DEF CountStates, Finish
    <3>2. \A s \in Snapshots : Busy(t, s) => s = t.msg.id
      BY DEF Busy
    <3>3. QED
      BY <2>1, <2>3, <3>1, <3>2 DEF VerdictInv, Announced
  <2>4. QED
    BY <2>2, <2>3
<1>7. ASSUME NEW t \in threads, CheckSnapshotConsistency(t) PROVE VerdictInv'
  <2>1. t.msg.id \in Snapshots /\ state_store' = state_store /\ threads' = threads \ {t}
    BY <1>7, HandlerOf DEF CheckSnapshotConsistency, StatePc, Finish
  <2>2. /\ \E v \in verdict'[t.msg.id] : v.by = "collected"
        /\ \A s \in Snapshots : s # t.msg.id => verdict'[s] = verdict[s]
    BY <1>7, <2>1, CheckAdds DEF CheckSnapshotConsistency
  <2>3. \A s \in Snapshots : Busy(t, s) => s = t.msg.id
    BY DEF Busy
  <2>4. QED
    BY <2>1, <2>2, <2>3 DEF VerdictInv, Announced
<1>8. ASSUME NEW s0 \in Snapshots, CheckViewed(s0) PROVE VerdictInv'
  <2>1. UNCHANGED <<state_store, threads>> /\ \A s \in Snapshots : verdict[s] \subseteq verdict'[s]
    BY <1>8, CheckAdds DEF CheckViewed
  <2>2. QED
    BY <2>1 DEF VerdictInv, Announced
<1>9. QED
  BY <1>3, <1>4, <1>5, <1>6, <1>7, <1>8 DEF StoreStep

\* The verdict of a snapshot is there by the time every message is received and
\* every thread has finished, unless P0's own entry came last.
THEOREM VerdictNotLost == Spec => []NoLostVerdict
<1>1. Init => VerdictInv
  <2> SUFFICES ASSUME Init, NEW s \in Snapshots,
                      AllCollected(state_store[s]) /\ LastIsRemote(state_store[s])
               PROVE  FALSE
    BY DEF VerdictInv
  <2>1. state_store[s] = <<>> /\ Len(state_store[s]) = 0
    BY DEF Init
  <2>2. Cardinality(Proc) = 0
    BY <2>1 DEF AllCollected
  <2>3. QED
    BY <2>2, TopologyAssumption, FS_EmptySet
<1>2. VerdictInv => NoLostVerdict
  BY DEF VerdictInv, Announced, NoLostVerdict, LastIsRemote
<1>3. QED
  BY <1>1, <1>2, VerdictNext, TypeCorrect, PTL DEF Spec

----------------------------------------------------------------------------
(* No process reports twice.                                               *)

Remote == Restaurants \cup Runners

\* The ways in which process p's report on snapshot s is under way: as a
\* message, in the thread that is about to send it and in the one that is
\* about to store it.
StateMsgs(p, s) == {m \in net : m.type = "STATE" /\ m.from = p /\ m.id = s}

Carries(t, p, s) ==
    /\ t.msg.id = s
    /\ \/ t.pc = "store" /\ t.msg.from = p
       \/ t.pc = "report" /\ t.msg.to = p

Reporters(p, s) == {t \in threads : Carries(t, p, s)}

HasReported(p, s) == \E i \in DOMAIN state_store[s] : state_store[s][i].proc = p

\* What keeps the process from reporting again.
Committed(p, s) == IF p \in Runners THEN s \in recorded_snapshots[p] ELSE s \in completed[p]

AtMostOne(M, T) ==
    (\A x, y \in M : x = y) /\ (\A x, y \in T : x = y) /\ (M = {} \/ T = {})

OnceFor(p, s) ==
    /\ AtMostOne(StateMsgs(p, s), Reporters(p, s))
    /\ HasReported(p, s) => StateMsgs(p, s) = {} /\ Reporters(p, s) = {}
    /\ StateMsgs(p, s) # {} \/ Reporters(p, s) # {} \/ HasReported(p, s) => Committed(p, s)

OneEntry(entries) == \A i, j \in DOMAIN entries : entries[i].proc = entries[j].proc => i = j

Opened(t) ==
    t.pc \in {"forward", "close"} => t.msg.id \in local_states[t.msg.to]

OnceInv ==
    /\ \A p \in Remote, s \in Snapshots : OnceFor(p, s)
    /\ \A r \in Restaurants : completed[r] \subseteq local_states[r]
    /\ \A m \in net : m.type = "STATE" => m.from \in Remote
    /\ \A t \in threads : (t.pc = "store" => t.msg.from \in Remote) /\ Opened(t)
    /\ \A s \in Snapshots : OneEntry(state_store[s])

\* Less under way than before, and a process that is committed still is.
LEMMA OnceShrinks ==
    ASSUME NEW p, NEW s, OnceFor(p, s),
           StateMsgs(p, s)' \subseteq StateMsgs(p, s), Reporters(p, s)' \subseteq Reporters(p, s),
           HasReported(p, s)' <=> HasReported(p, s), Committed(p, s) => Committed(p, s)'
    PROVE  OnceFor(p, s)'
BY DEF OnceFor, AtMostOne

\* A step in which no report is made, sent, received or stored.
OnceQuiet ==
    /\ \A m \in net' \ net : m.type # "STATE"
    /\ \A t \in threads' \ threads : t.pc \notin {"store", "report"}
    /\ state_store' = state_store
    /\ \A p \in Remote, s \in Snapshots : Committed(p, s) => Committed(p, s)'
    /\ \A r \in Restaurants : completed'[r] \subseteq local_states'[r]
    /\ \A r \in Restaurants : local_states[r] \subseteq local_states'[r]
    /\ \A t \in threads' \ threads : Opened(t)'

\* It keeps OnceInv.
LEMMA OnceQuietStep == TypeOK /\ OnceInv /\ OnceQuiet => OnceInv'
<1> SUFFICES ASSUME TypeOK, OnceInv, OnceQuiet PROVE OnceInv'
  OBVIOUS
<1>1. ASSUME NEW p \in Remote, NEW s \in Snapshots PROVE OnceFor(p, s)'
  <2>1. StateMsgs(p, s)' \subseteq StateMsgs(p, s)
    BY DEF OnceQuiet, StateMsgs
  <2>2. Reporters(p, s)' \subseteq Reporters(p, s)
    BY DEF OnceQuiet, Reporters, Carries
  <2>3. HasReported(p, s)' <=> HasReported(p, s)
    BY DEF OnceQuiet, HasReported
  <2>4. QED
    BY <2>1, <2>2, <2>3, OnceShrinks DEF OnceQuiet, OnceInv
<1>2. \A t \in threads : Opened(t)'
  <2>1. \A t \in threads : t.pc \in {"forward", "close"} => t.msg.to \in Restaurants
    BY HandlerOf
  <2>2. QED
    BY <2>1 DEF OnceInv, OnceQuiet, Opened
<1>3. QED
  BY <1>1, <1>2 DEF OnceInv, OnceQuiet

\* The steps of P0's main thread and the arrivals other than that of a STATE.
LEMMA OnceArrival ==
    ASSUME TypeOK, OnceInv,
           \/ Command \/ DispatchOrder \/ RecordOwnState \/ Failure
           \/ \E s \in Snapshots : CheckViewed(s)
           \/ \E m \in net : \/ ReceiveDelivery(m) \/ AcceptOrder(m) \/ ReceiveMarker(m)
                             \/ ReceiveHandoff(m) \/ ReceiveRunnerMarker(m)
    PROVE  OnceInv'
<1>1. P0 \notin Remote
  BY TopologyAssumption DEF Remote
<1>2. CASE Command
  <2>1. CASE \E o \in Orders, r \in Restaurants : CreateOrder(o, r)
    BY <2>1, OnceQuietStep DEF CreateOrder, OnceQuiet, OnceInv, recorderVars, Committed
  <2>2. ASSUME NEW s \in Snapshots, InitiateSnapshot(s) PROVE OnceInv'
    <3>1. /\ threads' = threads /\ state_store' = state_store
          /\ recorded_snapshots' = recorded_snapshots
      BY <2>2 DEF InitiateSnapshot
    <3>2. \A m \in net' \ net : m.type = "MARKER"
      BY <2>2 DEF InitiateSnapshot, Msg
    <3>3. \A r \in Restaurants : completed'[r] = completed[r] /\ local_states'[r] = local_states[r]
      BY <2>2, TopologyAssumption DEF InitiateSnapshot, TypeOK, Recorders
    <3>4. OnceQuiet
      BY <3>1, <3>2, <3>3 DEF OnceQuiet, OnceInv, Committed, Remote
    <3>5. QED
      BY <3>4, OnceQuietStep
  <2>3. CASE ViewSnapshots
    BY <2>3, OnceQuietStep DEF ViewSnapshots, OnceQuiet, OnceInv, recorderVars, Committed
  <2>4. QED
    BY <1>2, <2>1, <2>2, <2>3 DEF Command
<1>3. CASE DispatchOrder
  BY <1>3, OnceQuietStep DEF DispatchOrder, Msg, OnceQuiet, OnceInv, recorderVars, Committed
<1>4. CASE RecordOwnState
  BY <1>4, OnceQuietStep DEF RecordOwnState, OnceQuiet, OnceInv, recorderVars, Committed
<1>5. ASSUME NEW s \in Snapshots, CheckViewed(s) PROVE OnceInv'
  BY <1>5, OnceQuietStep DEF CheckViewed, OnceQuiet, OnceInv, recorderVars, Committed
<1>6. CASE Failure
  BY <1>6, OnceQuietStep
     DEF Failure, Lose, OnceQuiet, OnceInv, recorderVars, coordinatorVars, Committed
<1>7. ASSUME NEW m \in net, NEW pc, threads' = threads \cup {NewThread(m, pc)},
             pc \in {"acknowledge", "handle", "record", "pickup", "check"},
             net' = net \ {m},
             UNCHANGED <<local_states, completed, recorded_snapshots, state_store>>
      PROVE  OnceInv'
  <2>1. \A t \in threads' \ threads : t.pc = pc
    BY <1>7 DEF NewThread
  <2>2. QED
    BY <1>7, <2>1, OnceQuietStep DEF OnceQuiet, OnceInv, Committed, Opened
<1>8. ASSUME NEW m \in net,
             \/ ReceiveDelivery(m) \/ AcceptOrder(m) \/ ReceiveMarker(m)
             \/ ReceiveHandoff(m) \/ ReceiveRunnerMarker(m)
      PROVE  OnceInv'
  BY <1>7, <1>8 DEF ReceiveDelivery, AcceptOrder, ReceiveMarker, ReceiveHandoff,
                    ReceiveRunnerMarker, Receive, recorderVars, coordinatorVars
<1>9. QED
  BY <1>2, <1>3, <1>4, <1>5, <1>6, <1>8

\* The arrival of a report and its storing.
LEMMA OnceStore ==
    ASSUME TypeOK, OnceInv,
           \/ StoreOwnState
           \/ \E m \in net : ReceiveState(m)
           \/ \E t \in threads : CoordinatorStep(t)
    PROVE  OnceInv'
<1> USE DEF coordinatorVars
<1>1. P0 \in Proc /\ P0 \notin Remote /\ Remote \subseteq Proc
  BY TopologyAssumption DEF Remote
<1>2. /\ \A s \in Snapshots : state_store[s] \in Seq(Entry)
      /\ state_store \in [Snapshots -> Seq(Entry)]
  BY DEF TypeOK, Entry
<1>3. CASE StoreOwnState
  <2>1. main.id \in Snapshots /\ main.pc = "store"
    BY <1>3, MainParts DEF StoreOwnState
  <2>2. main.vc \in Clock
    BY <2>1, MainParts
  <2>3. PICK new : new = Put(state_store[main.id], P0, main.vc)
    OBVIOUS
  <2>4. \A s \in Snapshots : state_store'[s] = IF s = main.id THEN new ELSE state_store[s]
    BY <1>2, <1>3, <2>1, <2>3 DEF StoreOwnState
  <2>5. /\ OneEntry(new)
        /\ \A p \in Remote : (\E i \in DOMAIN new : new[i].proc = p) <=> HasReported(p, main.id)
    <3> DEFINE old == state_store[main.id]
    <3>1. old \in Seq(Entry) /\ OneEntry(old) /\ new = Put(old, P0, main.vc)
      BY <1>2, <2>1, <2>3 DEF OnceInv
    <3> HIDE DEF old
    <3>2. CASE \E i \in DOMAIN old : old[i].proc = P0
      <4>1. DOMAIN new = DOMAIN old /\ \A i \in DOMAIN old : new[i].proc = old[i].proc
        BY <1>1, <2>2, <3>1, <3>2, PutOld
      <4>2. QED
        BY <3>1, <4>1 DEF OneEntry, HasReported, old
    <3>3. CASE ~ \E i \in DOMAIN old : old[i].proc = P0
      <4>1. /\ \A i \in DOMAIN old : i \in DOMAIN new /\ new[i] = old[i]
            /\ \A i \in DOMAIN new : i \in DOMAIN old \/ i = Len(new)
            /\ new[Len(new)].proc = P0
        BY <1>1, <2>2, <3>1, <3>3, PutNew
      <4>2. OneEntry(new)
        BY <3>1, <3>3, <4>1 DEF OneEntry
      <4>3. \A p \in Remote : (\E i \in DOMAIN new : new[i].proc = p)
                                 <=> \E i \in DOMAIN old : old[i].proc = p
        BY <1>1, <4>1
      <4>4. QED
        BY <4>2, <4>3 DEF HasReported, old
    <3>4. QED
      BY <3>2, <3>3
  <2>6. UNCHANGED <<threads, net, local_states, completed, recorded_snapshots>>
    BY <1>3 DEF StoreOwnState, recorderVars
  <2>7. ASSUME NEW p \in Remote, NEW s \in Snapshots PROVE OnceFor(p, s)'
    <3>1. HasReported(p, s)' <=> HasReported(p, s)
      BY <2>4, <2>5 DEF HasReported
    <3>2. QED
      BY <2>6, <3>1, OnceShrinks DEF OnceInv, StateMsgs, Reporters, Committed
  <2>8. \A s \in Snapshots : OneEntry(state_store'[s])
    BY <2>4, <2>5 DEF OnceInv
  <2>9. QED
    BY <2>6, <2>7, <2>8 DEF OnceInv, Opened
<1>4. ASSUME NEW m \in net, ReceiveState(m) PROVE OnceInv'
  <2> DEFINE n == NewThread(m, "store")
  <2>1. /\ m.type = "STATE" /\ net' = net \ {m} /\ threads' = threads \cup {n}
        /\ UNCHANGED <<local_states, completed, recorded_snapshots, state_store>>
    BY <1>4 DEF ReceiveState, Receive, recorderVars
  <2>2. n.msg = m /\ n.pc = "store"
    BY DEF NewThread
  <2> HIDE DEF n
  <2>3. m.from \in Remote
    BY <2>1 DEF OnceInv
  <2>4. ASSUME NEW p \in Remote, NEW s \in Snapshots PROVE OnceFor(p, s)'
    <3>1. CASE p = m.from /\ s = m.id
      <4>1. m \in StateMsgs(p, s)
        BY <2>1, <3>1 DEF StateMsgs
      <4>2. StateMsgs(p, s)' = {} /\ Reporters(p, s) = {} /\ Committed(p, s) /\ ~HasReported(p, s)
        BY <2>1, <4>1 DEF OnceInv, OnceFor, AtMostOne, StateMsgs
      <4>3. Reporters(p, s)' \subseteq {n}
        BY <2>1, <4>2 DEF Reporters
      <4>4. QED
        BY <2>1, <4>2, <4>3 DEF OnceFor, AtMostOne, HasReported, Committed
    <3>2. CASE ~(p = m.from /\ s = m.id)
      <4>1. Reporters(p, s)' \subseteq Reporters(p, s)
        BY <2>1, <2>2, <3>2 DEF Reporters, Carries
      <4>2. StateMsgs(p, s)' \subseteq StateMsgs(p, s)
        BY <2>1 DEF StateMsgs
      <4>3. QED
        BY <2>1, <4>1, <4>2, OnceShrinks DEF OnceInv, HasReported, Committed
    <3>3. QED
      BY <3>1, <3>2
  <2>5. QED
    BY <2>1, <2>2, <2>3, <2>4 DEF OnceInv, Opened
<1>5. ASSUME NEW t \in threads, HandleState(t) PROVE OnceInv'
  <2> DEFINE u == [t EXCEPT !.pc = "count"]
  <2>1. u.msg = t.msg /\ u.pc = "count"
    BY ThreadParts
  <2> HIDE DEF u
  <2>2. /\ t.pc = "store" /\ threads' = (threads \ {t}) \cup {u}
        /\ UNCHANGED <<net, local_states, completed, recorded_snapshots>>
    BY <1>5 DEF HandleState, Goto, recorderVars, u
  <2>3. t.msg.id \in Snapshots /\ t.msg.from \in Remote /\ t.msg.vc \in Clock
    BY <2>2, HandlerOf, ThreadParts, MessageParts DEF OnceInv, StatePc
  <2> DEFINE p0 == t.msg.from
             s0 == t.msg.id
             old == state_store[s0]
  <2>4. PICK new : new = Put(old, p0, t.msg.vc)
    OBVIOUS
  <2>5. \A s \in Snapshots : state_store'[s] = IF s = s0 THEN new ELSE state_store[s]
    BY <1>2, <1>5, <2>3, <2>4 DEF HandleState
  <2>6. /\ Reporters(p0, s0) = {t} /\ StateMsgs(p0, s0) = {} /\ Committed(p0, s0)
        /\ ~HasReported(p0, s0)
    <3>1. t \in Reporters(p0, s0)
      BY <2>2 DEF Reporters, Carries
    <3>2. QED
      BY <2>3, <3>1 DEF OnceInv, OnceFor, AtMostOne
  <2>7. /\ \A i \in DOMAIN old : i \in DOMAIN new /\ new[i] = old[i]
        /\ \A i \in DOMAIN new : i \in DOMAIN old \/ i = Len(new)
        /\ new[Len(new)].proc = p0
    <3>1. old \in Seq(Entry) /\ p0 \in Proc /\ ~ \E i \in DOMAIN old : old[i].proc = p0
      BY <1>1, <1>2, <2>3, <2>6 DEF HasReported
    <3> HIDE DEF old, p0
    <3>2. QED
      BY <2>3, <2>4, <3>1, PutNew
  <2>8. /\ OneEntry(new)
        /\ \A p \in Remote : (\E i \in DOMAIN new : new[i].proc = p) => HasReported(p, s0) \/ p = p0
        /\ \A p \in Remote : HasReported(p, s0) => \E i \in DOMAIN new : new[i].proc = p
    <3>1. OneEntry(old) /\ ~ \E i \in DOMAIN old : old[i].proc = p0
      BY <2>3, <2>6 DEF OnceInv, HasReported
    <3>2. QED
      BY <2>7, <3>1 DEF OneEntry, HasReported
  <2> HIDE DEF old
  <2>9. ASSUME NEW p \in Remote, NEW s \in Snapshots PROVE OnceFor(p, s)'
    <3>1. StateMsgs(p, s)' = StateMsgs(p, s) /\ (Committed(p, s)' <=> Committed(p, s))
      BY <2>2 DEF StateMsgs, Committed
    <3>2. Reporters(p, s)' \subseteq Reporters(p, s) \ {t}
      BY <2>1, <2>2 DEF Reporters, Carries
    <3>3. CASE p = p0 /\ s = s0
      BY <2>6, <3>1, <3>2, <3>3 DEF OnceFor, AtMostOne
    <3>4. CASE ~(p = p0 /\ s = s0)
      <4>1. HasReported(p, s)' <=> HasReported(p, s)
        BY <2>5, <2>8, <3>4 DEF HasReported
      <4>2. QED
        BY <3>1, <3>2, <4>1, OnceShrinks DEF OnceInv
    <3>5. QED
      BY <3>3, <3>4
  <2>10. \A s \in Snapshots : OneEntry(state_store'[s])
    BY <2>5, <2>8 DEF OnceInv
  <2>11. QED
    BY <2>1, <2>2, <2>9, <2>10 DEF OnceInv, Opened
<1>6. ASSUME NEW t \in threads, ConfirmDelivery(t) \/ CountStates(t) \/ CheckSnapshotConsistency(t)
      PROVE  OnceInv'
  <2>1. \A u \in threads' \ threads : u.pc = "verify"
    BY <1>6, ThreadParts DEF ConfirmDelivery, CountStates, CheckSnapshotConsistency, Goto, Finish
  <2>2. UNCHANGED <<net, local_states, completed, recorded_snapshots, state_store>>
    BY <1>6 DEF ConfirmDelivery, CountStates, CheckSnapshotConsistency, recorderVars
  <2>3. QED
    BY <2>1, <2>2, OnceQuietStep DEF OnceQuiet, OnceInv, Committed, Opened
<1>7. QED
  BY <1>3, <1>4, <1>5, <1>6 DEF CoordinatorStep

\* The steps of the restaurants and the runners.
LEMMA OnceHandlers ==
    ASSUME TypeOK, OnceInv, NEW t \in threads, RestaurantStep(t) \/ RunnerStep(t)
    PROVE  OnceInv'
<1> USE DEF coordinatorVars
<1>1. /\ Restaurants \subseteq Remote /\ Runners \subseteq Remote
      /\ \A r \in Restaurants : r \in Recorders /\ r \notin Runners
  BY TopologyAssumption DEF Remote, Recorders
<1>2. completed \in [Recorders -> SUBSET Snapshots] /\ local_states \in [Recorders -> SUBSET Snapshots]
      /\ recorded_snapshots \in [Runners -> SUBSET Snapshots]
  BY DEF TypeOK
\* A thread goes on or ends, and no report is concerned.
<1>3. ASSUME \A m \in net' \ net : m.type # "STATE",
             \A u \in threads' \ threads :
                 u.pc \notin {"store", "report"} /\ Opened(u)',
             UNCHANGED <<local_states, completed, recorded_snapshots, state_store>>
      PROVE  OnceInv'
  BY <1>3, OnceQuietStep DEF OnceQuiet, OnceInv, Committed
<1>4. ASSUME NEW pc \in {"confirm", "prepare", "ready", "handover", "transit", "deliver"},
             Goto(t, pc)
      PROVE  \A u \in threads' \ threads : u.pc \notin {"store", "report"} /\ Opened(u)'
  BY <1>4, ThreadParts DEF Goto, Opened
<1>5. CASE HandleOrder(t) \/ OrderConfirmed(t) \/ PreparingFood(t) \/ FoodReady(t)
           \/ PickedUp(t) \/ InTransit(t) \/ Delivered(t)
  <2>1. UNCHANGED <<net, local_states, completed, recorded_snapshots, state_store>>
    BY <1>5 DEF HandleOrder, OrderConfirmed, PreparingFood, FoodReady, OrderEvent,
                PickedUp, InTransit, Delivered, DeliveryEvent, recorderVars
  <2>2. \E pc \in {"confirm", "prepare", "ready", "handover", "transit", "deliver"} : Goto(t, pc)
    BY <1>5 DEF HandleOrder, OrderConfirmed, PreparingFood, FoodReady, OrderEvent,
                PickedUp, InTransit, Delivered, DeliveryEvent
  <2>3. QED
    BY <1>3, <1>4, <2>1, <2>2
<1>6. CASE HandToRunner(t) \/ SendDelivery(t)
  <2>1. \A m \in net' \ net : m.type = "DELIVERY"
    BY <1>6 DEF HandToRunner, SendDelivery, Msg
  <2>2. /\ threads' \subseteq threads
        /\ UNCHANGED <<local_states, completed, recorded_snapshots, state_store>>
    BY <1>6 DEF HandToRunner, SendDelivery, Finish, recorderVars
  <2>3. QED
    BY <1>3, <2>1, <2>2
<1>7. CASE RecordMarker(t)
  <2>1. t.msg.to \in Restaurants /\ t.msg.id \in Snapshots
    BY <1>7, HandlerOf DEF RecordMarker
  <2>2. PICK pc \in {"forward", "close"} : Goto(t, pc)
    BY <1>7 DEF RecordMarker, FirstMarker, LaterMarker
  <2>3. \A u \in threads' \ threads : u.pc = pc /\ u.msg = t.msg
    BY <2>2, ThreadParts DEF Goto
  <2>4. UNCHANGED <<net, recorded_snapshots, state_store>>
    BY <1>7 DEF RecordMarker
  <2>5. /\ t.msg.id \in local_states'[t.msg.to]
        /\ \A r \in Restaurants : local_states[r] \subseteq local_states'[r]
        /\ \A r \in Restaurants : completed'[r] = completed[r]
    <3>1. t.msg.to \in Recorders /\ \A r \in Restaurants : completed[r] \subseteq local_states[r]
      BY <1>1, <2>1 DEF OnceInv
    <3>2. CASE FirstMarker(t)
      BY <1>1, <1>2, <2>1, <3>1, <3>2 DEF FirstMarker
    <3>3. CASE LaterMarker(t)
      BY <3>1, <3>3 DEF LaterMarker
    <3>4. QED
      BY <1>7, <3>2, <3>3 DEF RecordMarker
  <2>6. OnceQuiet
    BY <1>1, <2>2, <2>3, <2>4, <2>5 DEF OnceQuiet, OnceInv, Committed, Opened, Remote
  <2>7. QED
    BY <2>6, OnceQuietStep
<1>8. CASE ForwardMarker(t)
  <2>1. \A m \in net' \ net : m.type = "MARKER"
    BY <1>8 DEF ForwardMarker, Msg
  <2>2. \A u \in threads' \ threads : u.pc = "close" /\ u.msg = t.msg
    BY <1>8, ThreadParts DEF ForwardMarker, Goto
  <2>3. t.pc = "forward" /\ UNCHANGED <<local_states, completed, recorded_snapshots, state_store>>
    BY <1>8 DEF ForwardMarker, recorderVars
  <2>4. QED
    BY <1>3, <2>1, <2>2, <2>3 DEF OnceInv, Opened
<1>9. CASE NothingToComplete(t) \/ ReleaseLock(t) \/ (CheckMarker(t) /\ DuplicateMarker(t))
  BY <1>3, <1>9 DEF NothingToComplete, ReleaseLock, CheckMarker, DuplicateMarker, Finish, recorderVars
\* The process commits itself, and its thread takes the report.
<1>10. CASE CompleteSnapshot(t) \/ (CheckMarker(t) /\ StampState(t))
  <2> DEFINE p0 == t.msg.to
             s0 == t.msg.id
  <2>1. p0 \in Remote /\ s0 \in Snapshots /\ ~Committed(p0, s0)
    BY <1>1, <1>10, HandlerOf DEF CompleteSnapshot, CheckMarker, StampState, Committed
  <2>2. PICK u : threads' = (threads \ {t}) \cup {u} /\ u.pc = "report" /\ u.msg = t.msg
    <3>1. PICK c : Keep(t, "report", c)
      BY <1>10 DEF CompleteSnapshot, CheckMarker, StampState
    <3> DEFINE v == [t EXCEPT !.pc = "report", !.saved = c]
    <3>2. threads' = (threads \ {t}) \cup {v}
      BY <3>1 DEF Keep
    <3>3. v.pc = "report" /\ v.msg = t.msg
      BY ThreadParts
    <3>4. QED
      BY <3>2, <3>3
  <2>3. UNCHANGED <<net, local_states, state_store>>
    BY <1>10 DEF CompleteSnapshot, CheckMarker, StampState, recorderVars
  <2>4. /\ Committed(p0, s0)'
        /\ \A p \in Remote, s \in Snapshots : Committed(p, s) => Committed(p, s)'
    <3>1. CASE CompleteSnapshot(t)
      <4>1. p0 \in Restaurants /\ completed' = [completed EXCEPT ![p0] = @ \cup {s0}]
            /\ recorded_snapshots' = recorded_snapshots
        BY <3>1, HandlerOf DEF CompleteSnapshot
      <4>2. QED
        BY <1>1, <1>2, <2>1, <4>1 DEF Committed, Remote
    <3>2. CASE CheckMarker(t) /\ StampState(t)
      <4>1. p0 \in Runners /\ completed' = completed
            /\ recorded_snapshots' = [recorded_snapshots EXCEPT ![p0] = @ \cup {s0}]
        BY <3>2, HandlerOf DEF CheckMarker, StampState, recorderVars
      <4>2. QED
        BY <1>1, <1>2, <2>1, <4>1 DEF Committed, Remote
    <3>3. QED
      BY <1>10, <3>1, <3>2
  <2>5. \A r \in Restaurants : completed'[r] \subseteq local_states'[r]
    <3>1. CASE CompleteSnapshot(t)
      <4>1. p0 \in Restaurants /\ completed' = [completed EXCEPT ![p0] = @ \cup {s0}]
            /\ s0 \in local_states[p0]
        BY <3>1, HandlerOf DEF CompleteSnapshot, OnceInv, Opened
      <4>2. QED
        BY <1>1, <1>2, <2>3, <4>1 DEF OnceInv
    <3>2. CASE CheckMarker(t)
      BY <2>3, <3>2 DEF CheckMarker, recorderVars, OnceInv
    <3>3. QED
      BY <1>10, <3>1, <3>2
  <2>6. ASSUME NEW p \in Remote, NEW s \in Snapshots PROVE OnceFor(p, s)'
    <3>1. StateMsgs(p, s)' = StateMsgs(p, s) /\ (HasReported(p, s)' <=> HasReported(p, s))
      BY <2>3 DEF StateMsgs, HasReported
    <3>2. CASE p = p0 /\ s = s0
      <4>1. StateMsgs(p, s) = {} /\ Reporters(p, s) = {} /\ ~HasReported(p, s)
        BY <2>1, <3>2 DEF OnceInv, OnceFor
      <4>2. Reporters(p, s)' \subseteq {u}
        BY <2>2, <4>1 DEF Reporters
      <4>3. Committed(p, s)'
        BY <2>4, <3>2
      <4>4. QED
        BY <3>1, <4>1, <4>2, <4>3 DEF OnceFor, AtMostOne
    <3>3. CASE ~(p = p0 /\ s = s0)
      <4>1. Reporters(p, s)' \subseteq Reporters(p, s)
        BY <2>2, <3>3 DEF Reporters, Carries
      <4>2. QED
        BY <2>4, <3>1, <4>1, OnceShrinks DEF OnceInv
    <3>4. QED
      BY <3>2, <3>3
  <2>7. QED
    BY <2>2, <2>3, <2>5, <2>6 DEF OnceInv, Opened
\* The report is sent.
<1>11. CASE SendState(t) \/ ReportState(t)
  <2> DEFINE p0 == t.msg.to
             s0 == t.msg.id
  <2>1. /\ p0 \in Remote /\ s0 \in Snapshots /\ t.pc = "report"
        /\ UNCHANGED <<local_states, completed, recorded_snapshots, state_store>>
    BY <1>1, <1>11, HandlerOf DEF SendState, ReportState, recorderVars
  <2>2. /\ t \notin threads' /\ threads' \ threads \subseteq {[t EXCEPT !.pc = "release"]}
        /\ threads \ {t} \subseteq threads'
    <3>1. [t EXCEPT !.pc = "release"] # t
      BY <2>1, ThreadParts
    <3>2. QED
      BY <1>11, <3>1 DEF SendState, ReportState, Goto, Finish
  <2>3. \A u \in threads' \ threads : u.pc = "release"
    BY <2>2, ThreadParts
  <2>4. PICK n : net' = net \cup {n} /\ n.type = "STATE" /\ n.from = p0 /\ n.id = s0
    <3>1. PICK c, v : net' = net \cup {Msg("STATE", p0, P0, c, s0, v)}
      BY <1>11 DEF SendState, ReportState
    <3> DEFINE n == Msg("STATE", p0, P0, c, s0, v)
    <3>2. n.type = "STATE" /\ n.from = p0 /\ n.id = s0
      BY DEF Msg
    <3>3. QED
      BY <3>1, <3>2
  <2>5. ASSUME NEW p \in Remote, NEW s \in Snapshots PROVE OnceFor(p, s)'
    <3>1. /\ Reporters(p, s)' = Reporters(p, s) \ {t}
          /\ HasReported(p, s)' <=> HasReported(p, s)
          /\ Committed(p, s)' <=> Committed(p, s)
      BY <2>1, <2>2, <2>3 DEF Reporters, Carries, HasReported, Committed
    <3>2. CASE p = p0 /\ s = s0
      <4>1. t \in Reporters(p, s)
        BY <2>1, <3>2 DEF Reporters, Carries
      <4>2. /\ StateMsgs(p, s) = {} /\ ~HasReported(p, s) /\ Committed(p, s)
            /\ Reporters(p, s)' = {}
        BY <3>1, <4>1 DEF OnceInv, OnceFor, AtMostOne
      <4>3. StateMsgs(p, s)' \subseteq {n}
        BY <2>4, <4>2 DEF StateMsgs
      <4>4. QED
        BY <3>1, <4>2, <4>3 DEF OnceFor, AtMostOne
    <3>3. CASE ~(p = p0 /\ s = s0)
      <4>1. StateMsgs(p, s)' \subseteq StateMsgs(p, s)
        BY <2>4, <3>3 DEF StateMsgs
      <4>2. QED
        BY <3>1, <4>1, OnceShrinks DEF OnceInv
    <3>4. QED
      BY <3>2, <3>3
  <2>6. QED
    BY <2>1, <2>3, <2>4, <2>5 DEF OnceInv, Opened
<1>12. QED
  BY <1>5, <1>6, <1>7, <1>8, <1>9, <1>10, <1>11 DEF RestaurantStep, RunnerStep, CheckMarker

\* Every step keeps OnceInv.
LEMMA OnceStep == TypeOK /\ OnceInv /\ [Next]_vars => OnceInv'
<1> SUFFICES ASSUME TypeOK, OnceInv, [Next]_vars PROVE OnceInv'
  OBVIOUS
<1>1. CASE UNCHANGED vars
  BY <1>1, OnceQuietStep
     DEF vars, recorderVars, coordinatorVars, OnceQuiet, OnceInv, Committed
<1>2. CASE Next
  BY <1>2, OnceArrival, OnceStore, OnceHandlers DEF Next, MainStep, Arrival, HandlerStep
<1>3. QED
  BY <1>1, <1>2

\* In every reachable state a report is at one place at most.
LEMMA OnceInvariant == Spec => [](TypeOK /\ OnceInv)
<1>1. Init => OnceInv
  BY Roles DEF Init, OnceInv, OnceFor, AtMostOne, StateMsgs, Reporters, HasReported, Remote, OneEntry
<1>2. QED
  BY <1>1, OnceStep, TypeCorrect, PTL DEF Spec

----------------------------------------------------------------------------
(* Reports are final, and no clock goes back.                              *)

\* The entry of a process is the one that is looked up.
LEMMA ChosenEntry ==
    ASSUME NEW entries, OneEntry(entries), NEW i \in DOMAIN entries, NEW p, entries[i].proc = p
    PROVE  entries[CHOOSE j \in DOMAIN entries : entries[j].proc = p] = entries[i]
BY DEF OneEntry

\* The moment at which P0 has last read its clock for its own state.
OwnTime == IF main.pc = "store" THEN main.vc ELSE clock[P0]

\* What a step does to the entries of the store.
LEMMA StoreChange ==
    ASSUME TypeOK, OnceInv, [Next]_vars, NEW s \in Snapshots
    PROVE  /\ \A i \in DOMAIN state_store[s] :
                 /\ i \in DOMAIN state_store'[s]
                 /\ state_store'[s][i].proc = state_store[s][i].proc
                 /\ \/ state_store'[s][i] = state_store[s][i]
                    \/ /\ state_store[s][i].proc = P0
                       /\ state_store'[s][i].vc = OwnTime
           /\ \A i \in DOMAIN state_store'[s] :
                 state_store'[s][i].proc = P0 =>
                    \/ i \in DOMAIN state_store[s] /\ state_store'[s][i] = state_store[s][i]
                    \/ state_store'[s][i].vc = OwnTime
<1>1. P0 \in Proc /\ P0 \notin Remote /\ Remote \subseteq Proc
  BY TopologyAssumption DEF Remote
<1>2. state_store[s] \in Seq(Entry) /\ state_store \in [Snapshots -> Seq(Entry)]
  BY DEF TypeOK, Entry
<1>3. CASE state_store'[s] = state_store[s]
  BY <1>3
<1>4. CASE StoreOwnState /\ main.id = s
  <2>1. OwnTime = main.vc /\ OwnTime \in Clock
    BY <1>4, MainParts DEF OwnTime, StoreOwnState
  <2> DEFINE old == state_store[s]
             new == state_store'[s]
  <2>2. new = Put(old, P0, OwnTime) /\ old \in Seq(Entry)
    BY <1>2, <1>4, <2>1 DEF StoreOwnState
  <2> HIDE DEF old, new
  <2>3. CASE \E i \in DOMAIN old : old[i].proc = P0
    <3>1. /\ DOMAIN new = DOMAIN old
          /\ \A i \in DOMAIN old : new[i].proc = old[i].proc
          /\ \A i \in DOMAIN old : old[i].proc # P0 => new[i] = old[i]
          /\ \A i \in DOMAIN old : old[i].proc = P0 => new[i].vc = OwnTime
      BY <1>1, <2>1, <2>2, <2>3, PutOld
    <3>2. QED
      BY <2>1, <3>1 DEF old, new
  <2>4. CASE ~ \E i \in DOMAIN old : old[i].proc = P0
    <3>1. /\ \A i \in DOMAIN old : i \in DOMAIN new /\ new[i] = old[i]
          /\ \A i \in DOMAIN new : i \in DOMAIN old \/ i = Len(new)
          /\ new[Len(new)].vc = OwnTime
      BY <1>1, <2>1, <2>2, <2>4, PutNew
    <3>2. QED
      BY <2>1, <3>1 DEF old, new
  <2>5. QED
    BY <2>3, <2>4
<1>5. ASSUME NEW t \in threads, HandleState(t), t.msg.id = s
      PROVE  /\ \A i \in DOMAIN state_store[s] :
                   i \in DOMAIN state_store'[s] /\ state_store'[s][i] = state_store[s][i]
             /\ \A i \in DOMAIN state_store'[s] :
                   state_store'[s][i].proc = P0 => i \in DOMAIN state_store[s]
  <2>1. t.pc = "store" /\ t.msg.from \in Remote /\ t.msg.vc \in Clock
    BY <1>5, ThreadParts, MessageParts DEF HandleState, OnceInv
  <2> DEFINE p0 == t.msg.from
             old == state_store[s]
             new == state_store'[s]
  <2>2. new = Put(old, p0, t.msg.vc) /\ old \in Seq(Entry) /\ p0 \in Proc /\ p0 # P0
    BY <1>1, <1>2, <1>5, <2>1 DEF HandleState
  <2>3. ~ \E i \in DOMAIN old : old[i].proc = p0
    <3>1. t \in Reporters(p0, s)
      BY <1>5, <2>1 DEF Reporters, Carries
    <3>2. ~HasReported(p0, s)
      BY <2>1, <3>1 DEF OnceInv, OnceFor
    <3>3. QED
      BY <3>2 DEF HasReported
  <2> HIDE DEF old, new, p0
  <2>4. /\ \A i \in DOMAIN old : i \in DOMAIN new /\ new[i] = old[i]
        /\ \A i \in DOMAIN new : i \in DOMAIN old \/ i = Len(new)
        /\ new[Len(new)].proc = p0
    BY <2>1, <2>2, <2>3, PutNew
  <2>5. QED
    BY <2>2, <2>4 DEF old, new
<1>6. CASE \E t \in threads : HandleState(t) /\ t.msg.id = s
  BY <1>5, <1>6
<1>7. state_store'[s] # state_store[s] =>
         \/ StoreOwnState /\ main.id = s
         \/ \E t \in threads : HandleState(t) /\ t.msg.id = s
  <2>1. CASE StoreOwnState
    BY <1>2, <2>1 DEF StoreOwnState
  <2>2. CASE \E x \in Snapshots : CheckViewed(x)
    BY <2>2 DEF CheckViewed
  <2>3. CASE /\ ~StoreOwnState /\ \A x \in Snapshots : ~CheckViewed(x)
             /\ \A t \in threads : ~StoreStep(t)
    BY <2>3, StoreFrame
  <2>4. ASSUME NEW t \in threads, StoreStep(t)
        PROVE  state_store'[s] # state_store[s] => HandleState(t) /\ t.msg.id = s
    BY <1>2, <2>4 DEF StoreStep, HandleState, CountStates, CheckSnapshotConsistency, coordinatorVars
  <2>5. QED
    BY <2>1, <2>2, <2>3, <2>4
<1>8. QED
  BY <1>3, <1>4, <1>6, <1>7

\* P0 holds one report of each process, and never another one.
THEOREM OneReportEach == Spec => ReportsFinal
<1>1. TypeOK /\ OnceInv /\ [Next]_vars =>
         [\A s \in Snapshots : \A p \in Reported(s) \ {P0} : Report(s, p)' = Report(s, p)]_vars
  <2> SUFFICES ASSUME TypeOK, OnceInv, OnceInv', [Next]_vars,
                      NEW s \in Snapshots, NEW p \in Reported(s) \ {P0}
               PROVE  Report(s, p)' = Report(s, p)
    BY OnceStep
  <2>1. PICK i \in DOMAIN state_store[s] : state_store[s][i].proc = p
    BY DEF Reported
  <2>2. i \in DOMAIN state_store'[s] /\ state_store'[s][i] = state_store[s][i]
    BY <2>1, StoreChange
  <2>3. OneEntry(state_store[s]) /\ OneEntry(state_store'[s])
    BY DEF OnceInv
  <2>4. Report(s, p) = state_store[s][i].vc
    BY <2>1, <2>3, ChosenEntry DEF Report
  <2>5. Report(s, p)' = state_store'[s][i].vc
    BY <2>1, <2>2, <2>3, ChosenEntry DEF Report
  <2>6. QED
    BY <2>2, <2>4, <2>5
<1>2. QED
  BY <1>1, OnceInvariant, PTL DEF Spec, ReportsFinal

\* Every step is a tick, a receive_event or no event of the clocks.
LEMMA ClockChange ==
    ASSUME TypeOK, [Next]_vars
    PROVE  \/ clock' = clock
           \/ \E p \in Proc : LocalEvent(p)
           \/ \E m \in Message : clock' = [clock EXCEPT ![m.to] = ClockAfterReceive(m)]
<1>1. P0 \in Proc
  BY Roles
<1>2. CASE UNCHANGED vars
  BY <1>2 DEF vars
<1>3. CASE Command \/ MainStep
  BY <1>1, <1>3 DEF Command, CreateOrder, InitiateSnapshot, ViewSnapshots, MainStep, DispatchOrder,
                    RecordOwnState, StoreOwnState, CheckViewed
<1>4. CASE Arrival \/ Failure
  <2>1. net \subseteq Message
    BY DEF TypeOK
  <2>2. QED
    BY <1>4, <2>1 DEF Arrival, ReceiveDelivery, ReceiveState, AcceptOrder, ReceiveMarker,
              ReceiveHandoff, ReceiveRunnerMarker, Receive, Failure, Lose
<1>5. ASSUME NEW t \in threads, CoordinatorStep(t) \/ RestaurantStep(t) \/ RunnerStep(t)
      PROVE  \/ clock' = clock
             \/ \E p \in Proc : LocalEvent(p)
             \/ \E m \in Message : clock' = [clock EXCEPT ![m.to] = ClockAfterReceive(m)]
  <2>1. t.msg \in Message /\ t.msg.to \in Proc
    BY ThreadParts, MessageParts
  <2>2. CASE CoordinatorStep(t)
    BY <1>1, <2>2 DEF CoordinatorStep, ConfirmDelivery, HandleState, CountStates,
                      CheckSnapshotConsistency
  <2>3. CASE RestaurantStep(t)
    BY <2>1, <2>3 DEF RestaurantStep, HandleOrder, OrderConfirmed, PreparingFood, FoodReady,
                  OrderEvent, HandToRunner, RecordMarker, ForwardMarker, NothingToComplete,
                  CompleteSnapshot, SendState, ReleaseLock
  <2>4. CASE RunnerStep(t)
    BY <2>1, <2>4 DEF RunnerStep, PickedUp, InTransit, Delivered, DeliveryEvent, SendDelivery,
                  CheckMarker, StampState, DuplicateMarker, ReportState
  <2>5. QED
    BY <1>5, <2>2, <2>3, <2>4
<1>6. QED
  BY <1>2, <1>3, <1>4, <1>5 DEF Next, HandlerStep

\* No component of a clock goes back.
LEMMA ClockGrows ==
    ASSUME TypeOK, [Next]_vars, NEW p \in Proc
    PROVE  Leq(clock[p], clock'[p])
<1>1. /\ clock \in [Proc -> [Proc -> Nat]]
      /\ \A q, x \in Proc : clock[q][x] \in Nat
  BY DEF TypeOK, Clock
<1>2. CASE clock' = clock
  BY <1>1, <1>2 DEF Leq
<1>3. ASSUME NEW q \in Proc, LocalEvent(q) PROVE Leq(clock[p], clock'[p])
  <2>1. \A x \in Proc : clock'[p][x] = IF p = q /\ x = q THEN clock[p][x] + 1 ELSE clock[p][x]
    BY <1>1, <1>3 DEF LocalEvent, Tick
  <2>2. QED
    BY <1>1, <2>1 DEF Leq
<1>4. ASSUME NEW m \in Message, clock' = [clock EXCEPT ![m.to] = ClockAfterReceive(m)]
      PROVE  Leq(clock[p], clock'[p])
  <2>1. m.to \in Proc /\ \A x \in Proc : m.clock[x] \in Nat
    BY MessageParts DEF Clock
  <2>2. \A x \in Proc :
           ClockAfterReceive(m)[x] =
               (IF clock[m.to][x] < m.clock[x] THEN m.clock[x] ELSE clock[m.to][x])
                   + (IF x = m.to THEN 1 ELSE 0)
    BY <1>1, <2>1 DEF ClockAfterReceive, ReceiveEvent, Tick, Merge
  <2>3. clock'[p] = IF p = m.to THEN ClockAfterReceive(m) ELSE clock[p]
    BY <1>1, <1>4
  <2>4. QED
    BY <1>1, <2>1, <2>2, <2>3 DEF Leq
<1>5. QED
  BY <1>2, <1>3, <1>4, ClockChange

\* P0's main thread takes its own state, stores it, or has no other clock in
\* hand than before.
LEMMA MainChange ==
    ASSUME TypeOK, [Next]_vars
    PROVE  \/ RecordOwnState \/ StoreOwnState
           \/ main' = main
           \/ main.pc # "store" /\ main'.pc # "store"
<1> USE DEF coordinatorVars
<1>1. CASE UNCHANGED vars
  BY <1>1 DEF vars
<1>2. CASE Command \/ DispatchOrder
  BY <1>2 DEF Command, CreateOrder, InitiateSnapshot, ViewSnapshots, DispatchOrder, Menu
<1>3. ASSUME NEW s \in Snapshots, CheckViewed(s)
      PROVE  main.pc # "store" /\ main'.pc # "store"
  <2>1. main \in MainState /\ main.pc = "view"
    BY <1>3 DEF TypeOK, CheckViewed
  <2>2. main \in [pc : {"view"}, left : SUBSET Snapshots]
    BY <2>1 DEF MainState, Menu
  <2>3. QED
    BY <1>3, <2>2 DEF CheckViewed, Menu
<1>4. CASE Arrival \/ Failure
  BY <1>4 DEF Arrival, ReceiveDelivery, ReceiveState, AcceptOrder, ReceiveMarker,
              ReceiveHandoff, ReceiveRunnerMarker, Receive, Failure, Lose
<1>5. ASSUME NEW t \in threads, CoordinatorStep(t) \/ RestaurantStep(t) \/ RunnerStep(t)
      PROVE  main' = main
  <2>1. CASE CoordinatorStep(t)
    BY <2>1 DEF CoordinatorStep, ConfirmDelivery, HandleState, CountStates,
                CheckSnapshotConsistency
  <2>2. CASE RestaurantStep(t)
    BY <2>2 DEF RestaurantStep, HandleOrder, OrderConfirmed, PreparingFood, FoodReady,
                OrderEvent, HandToRunner, RecordMarker, ForwardMarker, NothingToComplete,
                CompleteSnapshot, SendState, ReleaseLock
  <2>3. CASE RunnerStep(t)
    BY <2>3 DEF RunnerStep, PickedUp, InTransit, Delivered, DeliveryEvent, SendDelivery,
                CheckMarker, ReportState
  <2>4. QED
    BY <1>5, <2>1, <2>2, <2>3
<1>6. QED
  BY <1>1, <1>2, <1>3, <1>4, <1>5 DEF Next, MainStep, HandlerStep

\* P0 read its clock for its own state now or before, and its own entries of
\* snapshots before that.
OwnEntryPast ==
    /\ Leq(OwnTime, clock[P0])
    /\ \A s \in Snapshots : \A i \in DOMAIN state_store[s] :
          state_store[s][i].proc = P0 => Leq(state_store[s][i].vc, OwnTime)

\* The moment of the reading only goes forward.
LEMMA OwnTimeGrows ==
    ASSUME TypeOK, OwnEntryPast, [Next]_vars
    PROVE  /\ OwnTime \in Clock /\ OwnTime' \in Clock
           /\ Leq(OwnTime, OwnTime') /\ Leq(OwnTime', clock'[P0])
<1>1. P0 \in Proc /\ Leq(clock[P0], clock'[P0]) /\ TypeOK'
  BY Roles, ClockGrows, TypeStep
<1>2. clock[P0] \in Clock /\ clock'[P0] \in Clock
  BY <1>1 DEF TypeOK
<1>3. OwnTime \in Clock /\ Leq(OwnTime, clock[P0])
  BY <1>2, MainParts DEF OwnTime, OwnEntryPast
<1>4. Leq(OwnTime, clock'[P0])
  BY <1>1, <1>2, <1>3 DEF Leq, Clock
<1>5. \A v \in Clock : Leq(v, v)
  BY DEF Leq, Clock
<1>6. CASE RecordOwnState
  BY <1>1, <1>2, <1>3, <1>6 DEF RecordOwnState, OwnTime
<1>7. CASE StoreOwnState
  BY <1>2, <1>3, <1>4, <1>5, <1>7 DEF StoreOwnState, OwnTime, Menu
<1>8. CASE main' = main
  BY <1>1, <1>2, <1>3, <1>4, <1>5, <1>8 DEF OwnTime
<1>9. CASE main.pc # "store" /\ main'.pc # "store"
  BY <1>1, <1>2, <1>5, <1>9 DEF OwnTime
<1>10. QED
  BY <1>6, <1>7, <1>8, <1>9, MainChange

\* Every step keeps it so.
LEMMA OwnEntryNext == TypeOK /\ OnceInv /\ OwnEntryPast /\ [Next]_vars => OwnEntryPast'
<1> SUFFICES ASSUME TypeOK, OnceInv, OwnEntryPast, [Next]_vars PROVE OwnEntryPast'
  OBVIOUS
<1>1. /\ OwnTime \in Clock /\ OwnTime' \in Clock
      /\ Leq(OwnTime, OwnTime') /\ Leq(OwnTime', clock'[P0])
  BY OwnTimeGrows
<1>2. ASSUME NEW s \in Snapshots, NEW i \in DOMAIN state_store'[s],
             state_store'[s][i].proc = P0
      PROVE  Leq(state_store'[s][i].vc, OwnTime')
  <2>1. CASE i \in DOMAIN state_store[s] /\ state_store'[s][i] = state_store[s][i]
    <3>1. Leq(state_store[s][i].vc, OwnTime)
      BY <1>2, <2>1 DEF OwnEntryPast
    <3>2. state_store[s] \in Seq(Entry)
      BY DEF TypeOK, Entry
    <3>3. state_store[s][i] \in Entry
      BY <2>1, <3>2, ElementOfSeq, LenProperties
    <3>4. state_store[s][i].vc \in Clock
      BY <3>3 DEF Entry
    <3> HIDE DEF OwnTime
    <3>5. QED
      BY <1>1, <2>1, <3>1, <3>4 DEF Leq, Clock
  <2>2. CASE state_store'[s][i].vc = OwnTime
    BY <1>1, <2>2
  <2>3. QED
    BY <1>2, <2>1, <2>2, StoreChange
<1>3. QED
  BY <1>1, <1>2 DEF OwnEntryPast

\* No component of a process's clock goes back, and no report that P0 holds is
\* replaced by an earlier one, however messages and threads overtake each other.
THEOREM ClocksGoForward == Spec => NeverBackwards
<1> DEFINE IInv == TypeOK /\ OnceInv /\ OwnEntryPast
<1>1. Init => OwnEntryPast
  <2> SUFFICES ASSUME Init PROVE OwnEntryPast
    OBVIOUS
  <2>1. OwnTime = clock[P0] /\ clock[P0] = ZeroClock /\ \A s \in Snapshots : state_store[s] = <<>>
    BY Roles DEF Init, OwnTime, Menu
  <2>2. QED
    BY <2>1 DEF OwnEntryPast, Leq, ZeroClock
<1>2. IInv /\ [Next]_vars =>
         [/\ \A p \in Proc : Leq(clock[p], clock'[p])
          /\ \A s \in Snapshots : \A p \in Reported(s) :
                p \in Reported(s)' /\ Leq(Report(s, p), Report(s, p)')]_vars
  <2> SUFFICES ASSUME TypeOK, OnceInv, OnceInv', OwnEntryPast, [Next]_vars
               PROVE  /\ \A p \in Proc : Leq(clock[p], clock'[p])
                      /\ \A s \in Snapshots : \A p \in Reported(s) :
                            p \in Reported(s)' /\ Leq(Report(s, p), Report(s, p)')
    BY OnceStep
  <2>1. ASSUME NEW s \in Snapshots, NEW p \in Reported(s)
        PROVE  p \in Reported(s)' /\ Leq(Report(s, p), Report(s, p)')
    <3>1. PICK i \in DOMAIN state_store[s] : state_store[s][i].proc = p
      BY DEF Reported
    <3>2. /\ i \in DOMAIN state_store'[s] /\ state_store'[s][i].proc = p
          /\ \/ state_store'[s][i] = state_store[s][i]
             \/ p = P0 /\ state_store'[s][i].vc = OwnTime
      BY <3>1, StoreChange
    <3>3. OneEntry(state_store[s]) /\ OneEntry(state_store'[s])
      BY DEF OnceInv
    <3>4. Report(s, p) = state_store[s][i].vc
      BY <3>1, <3>3, ChosenEntry DEF Report
    <3>5. Report(s, p)' = state_store'[s][i].vc
      BY <3>2, <3>3, ChosenEntry DEF Report
    <3>6. state_store[s][i].vc \in Clock
      <4>1. state_store[s] \in Seq(Entry)
        BY DEF TypeOK, Entry
      <4>2. state_store[s][i] \in Entry
        BY <3>1, <4>1, ElementOfSeq, LenProperties
      <4>3. QED
        BY <4>2 DEF Entry
    <3>7. Leq(state_store[s][i].vc, state_store'[s][i].vc)
      <4>1. CASE state_store'[s][i] = state_store[s][i]
        BY <3>6, <4>1 DEF Leq, Clock
      <4>2. CASE p = P0 /\ state_store'[s][i].vc = OwnTime
        BY <3>1, <4>2 DEF OwnEntryPast
      <4>3. QED
        BY <3>2, <4>1, <4>2
    <3>8. p \in Reported(s)'
      BY <3>2 DEF Reported
    <3>9. QED
      BY <3>4, <3>5, <3>7, <3>8
  <2>2. QED
    BY <2>1, ClockGrows
<1>3. QED
  BY <1>1, <1>2, OwnEntryNext, OnceInvariant, PTL DEF Spec, NeverBackwards

----------------------------------------------------------------------------
(* The system implements SnapshotWay: where a report is.                   *)

\* What holds the report of p: p itself until it reads its clock, a thread of
\* p that sends it, a message, a thread of P0 that stores it, and the store;
\* P0's main thread holds its own.
Uncut(s, p) == {q \in {p} : ~HasCut(q, s)}

Sending(s, p) ==
    {u \in threads : u.pc = "report" /\ u.msg.to = p /\ u.msg.id = s /\ p \in Restaurants}

Taken(s, p) == {y \in {main} : y.pc = "store" /\ y.id = s /\ p = P0}

Storing(s, p) == {u \in threads : u.pc = "store" /\ u.msg.from = p /\ u.msg.id = s}

Stored(s, p) == {j \in DOMAIN state_store[s] : state_store[s][j].proc = p}

ClocksAt(s, is) == {state_store[s][i].vc : i \in is}

\* These hold the report of p, and nothing else of another process than P0 does.
HeldBy(s, p, waiting, sending, ms, storing, vs) ==
    /\ Uncut(s, p) = waiting
    /\ Sending(s, p) = sending
    /\ StateMsgs(p, s) = ms
    /\ Storing(s, p) = storing
    /\ ClocksAt(s, Stored(s, p)) = vs

\* The places of a report that these hold.
PlacesFrom(waiting, sending, ms, storing, vs) ==
    {<<"none">> : x \in waiting}
    \cup {<<"under way", t.saved>> : t \in sending}
    \cup {<<"under way", m.vc>> : m \in ms}
    \cup {<<"under way", t.msg.vc>> : t \in storing}
    \cup {<<"collected", v>> : v \in vs}

\* The places of a report are those of what holds it, before and after a step.
LEMMA AllPlaces ==
    ASSUME NEW s, NEW p
    PROVE  /\ ReportPlaces(s, p) =
                 PlacesFrom(Uncut(s, p), Sending(s, p), StateMsgs(p, s), Storing(s, p),
                            ClocksAt(s, Stored(s, p)))
                 \cup {<<"under way", y.vc>> : y \in Taken(s, p)}
           /\ ReportPlaces(s, p)' =
                 PlacesFrom(Uncut(s, p)', Sending(s, p)', StateMsgs(p, s)', Storing(s, p)',
                            ClocksAt(s, Stored(s, p))')
                 \cup {<<"under way", y.vc>> : y \in Taken(s, p)'}
<1>1. {<<"collected", state_store[s][i].vc>> : i \in Stored(s, p)}
         = {<<"collected", v>> : v \in ClocksAt(s, Stored(s, p))}
  BY DEF ClocksAt
<1>2. ReportPlaces(s, p) =
         PlacesFrom(Uncut(s, p), Sending(s, p), StateMsgs(p, s), Storing(s, p),
                    ClocksAt(s, Stored(s, p)))
         \cup {<<"under way", y.vc>> : y \in Taken(s, p)}
  BY <1>1 DEF ReportPlaces, PlacesFrom, Uncut, Sending, StateMsgs, Storing, Stored, Taken
<1>3. {<<"collected", state_store'[s][i].vc>> : i \in Stored(s, p)'}
         = {<<"collected", v>> : v \in ClocksAt(s, Stored(s, p))'}
  BY DEF ClocksAt
<1>4. ReportPlaces(s, p)' =
         PlacesFrom(Uncut(s, p)', Sending(s, p)', StateMsgs(p, s)', Storing(s, p)',
                    ClocksAt(s, Stored(s, p))')
         \cup {<<"under way", y.vc>> : y \in Taken(s, p)'}
  BY <1>3 DEF ReportPlaces, PlacesFrom, Uncut, Sending, StateMsgs, Storing, Stored, Taken
<1>5. QED
  BY <1>2, <1>4

\* Those of another process than P0.
LEMMA ReportHeld ==
    ASSUME NEW s, NEW p \in Remote,
           NEW waiting, NEW sending, NEW ms, NEW storing, NEW vs
    PROVE  /\ HeldBy(s, p, waiting, sending, ms, storing, vs) =>
                 ReportPlaces(s, p) = PlacesFrom(waiting, sending, ms, storing, vs)
           /\ HeldBy(s, p, waiting, sending, ms, storing, vs)' =>
                 ReportPlaces(s, p)' = PlacesFrom(waiting, sending, ms, storing, vs)
<1>1. Taken(s, p) = {} /\ Taken(s, p)' = {}
  BY TopologyAssumption DEF Taken, Remote
<1>2. {<<"under way", y.vc>> : y \in {}} = {}
  OBVIOUS
<1>3. ASSUME HeldBy(s, p, waiting, sending, ms, storing, vs)
      PROVE  ReportPlaces(s, p) = PlacesFrom(waiting, sending, ms, storing, vs)
  <2>1. ReportPlaces(s, p) = PlacesFrom(Uncut(s, p), Sending(s, p), StateMsgs(p, s),
                                        Storing(s, p), ClocksAt(s, Stored(s, p)))
    BY <1>1, <1>2, AllPlaces
  <2>2. QED
    BY <1>3, <2>1 DEF HeldBy
<1>4. ASSUME HeldBy(s, p, waiting, sending, ms, storing, vs)'
      PROVE  ReportPlaces(s, p)' = PlacesFrom(waiting, sending, ms, storing, vs)
  <2>1. ReportPlaces(s, p)' = PlacesFrom(Uncut(s, p)', Sending(s, p)', StateMsgs(p, s)',
                                         Storing(s, p)', ClocksAt(s, Stored(s, p))')
    BY <1>1, <1>2, AllPlaces
  <2>2. QED
    BY <1>4, <2>1 DEF HeldBy
<1>5. QED
  BY <1>3, <1>4

\* A report stays where it is if all that may hold it does.
LEMMA SameHolders ==
    ASSUME NEW s, NEW p,
           Uncut(s, p)' = Uncut(s, p), Sending(s, p)' = Sending(s, p),
           StateMsgs(p, s)' = StateMsgs(p, s), Storing(s, p)' = Storing(s, p),
           Taken(s, p)' = Taken(s, p),
           ClocksAt(s, Stored(s, p))' = ClocksAt(s, Stored(s, p))
    PROVE  ReportPlaces(s, p)' = ReportPlaces(s, p)
BY AllPlaces

\* P0's own report is not yet read, in its main thread's hands or in its store.
LEMMA OwnPlaces ==
    ASSUME OnceInv, OnceInv', NEW s \in Snapshots
    PROVE  /\ ReportPlaces(s, P0) =
                 {<<"none">> : x \in Uncut(s, P0)}
                 \cup {<<"collected", v>> : v \in ClocksAt(s, Stored(s, P0))}
                 \cup {<<"under way", y.vc>> : y \in Taken(s, P0)}
           /\ ReportPlaces(s, P0)' =
                 {<<"none">> : x \in Uncut(s, P0)'}
                 \cup {<<"collected", v>> : v \in ClocksAt(s, Stored(s, P0))'}
                 \cup {<<"under way", y.vc>> : y \in Taken(s, P0)'}
<1>1. P0 \notin Remote /\ P0 \notin Restaurants
  BY TopologyAssumption DEF Remote
<1>2. Sending(s, P0) = {} /\ StateMsgs(P0, s) = {} /\ Storing(s, P0) = {}
  BY <1>1 DEF Sending, StateMsgs, Storing, OnceInv
<1>3. Sending(s, P0)' = {} /\ StateMsgs(P0, s)' = {} /\ Storing(s, P0)' = {}
  BY <1>1 DEF Sending, StateMsgs, Storing, OnceInv
<1>4. \A waiting, vs : PlacesFrom(waiting, {}, {}, {}, vs) =
         {<<"none">> : x \in waiting} \cup {<<"collected", v>> : v \in vs}
  BY DEF PlacesFrom
<1>5. ReportPlaces(s, P0) =
         PlacesFrom(Uncut(s, P0), {}, {}, {}, ClocksAt(s, Stored(s, P0)))
         \cup {<<"under way", y.vc>> : y \in Taken(s, P0)}
  BY <1>2, AllPlaces
<1>6. ReportPlaces(s, P0)' =
         PlacesFrom(Uncut(s, P0)', {}, {}, {}, ClocksAt(s, Stored(s, P0))')
         \cup {<<"under way", y.vc>> : y \in Taken(s, P0)'}
  BY <1>3, AllPlaces
<1>7. QED
  BY <1>4, <1>5, <1>6

\* One holder is one place.
LEMMA OneReport ==
    ASSUME NEW x
    PROVE  /\ PlacesFrom({x}, {}, {}, {}, {}) = {<<"none">>}
           /\ PlacesFrom({}, {x}, {}, {}, {}) = {<<"under way", x.saved>>}
           /\ PlacesFrom({}, {}, {x}, {}, {}) = {<<"under way", x.vc>>}
           /\ PlacesFrom({}, {}, {}, {x}, {}) = {<<"under way", x.msg.vc>>}
           /\ PlacesFrom({}, {}, {}, {}, {x}) = {<<"collected", x>>}
           /\ PlacesFrom({}, {}, {}, {}, {}) = {}
BY DEF PlacesFrom

\* Where a report is with one holder, or with none.
LEMMA OnePlace ==
    ASSUME NEW s, NEW p \in Remote, NEW x
    PROVE  /\ HeldBy(s, p, {x}, {}, {}, {}, {}) => ReportPlaces(s, p) = {<<"none">>}
           /\ HeldBy(s, p, {}, {x}, {}, {}, {}) => ReportPlaces(s, p) = {<<"under way", x.saved>>}
           /\ HeldBy(s, p, {}, {}, {x}, {}, {}) => ReportPlaces(s, p) = {<<"under way", x.vc>>}
           /\ HeldBy(s, p, {}, {}, {}, {x}, {}) => ReportPlaces(s, p) = {<<"under way", x.msg.vc>>}
           /\ HeldBy(s, p, {}, {}, {}, {}, {x}) => ReportPlaces(s, p) = {<<"collected", x>>}
           /\ HeldBy(s, p, {}, {}, {}, {}, {}) => ReportPlaces(s, p) = {}
<1>1. \A waiting, sending, ms, storing, vs : HeldBy(s, p, waiting, sending, ms, storing, vs) =>
         ReportPlaces(s, p) = PlacesFrom(waiting, sending, ms, storing, vs)
  BY ReportHeld
<1>2. HeldBy(s, p, {x}, {}, {}, {}, {}) => ReportPlaces(s, p) = PlacesFrom({x}, {}, {}, {}, {})
  BY <1>1
<1>3. HeldBy(s, p, {}, {x}, {}, {}, {}) => ReportPlaces(s, p) = PlacesFrom({}, {x}, {}, {}, {})
  BY <1>1
<1>4. HeldBy(s, p, {}, {}, {x}, {}, {}) => ReportPlaces(s, p) = PlacesFrom({}, {}, {x}, {}, {})
  BY <1>1
<1>5. HeldBy(s, p, {}, {}, {}, {x}, {}) => ReportPlaces(s, p) = PlacesFrom({}, {}, {}, {x}, {})
  BY <1>1
<1>6. HeldBy(s, p, {}, {}, {}, {}, {x}) => ReportPlaces(s, p) = PlacesFrom({}, {}, {}, {}, {x})
  BY <1>1
<1>7. HeldBy(s, p, {}, {}, {}, {}, {}) => ReportPlaces(s, p) = PlacesFrom({}, {}, {}, {}, {})
  BY <1>1
<1>8. QED
  BY <1>2, <1>3, <1>4, <1>5, <1>6, <1>7, OneReport

\* The same after a step.
LEMMA OnePlaceNext ==
    ASSUME NEW s, NEW p \in Remote, NEW x
    PROVE  /\ HeldBy(s, p, {x}, {}, {}, {}, {})' => ReportPlaces(s, p)' = {<<"none">>}
           /\ HeldBy(s, p, {}, {x}, {}, {}, {})' => ReportPlaces(s, p)' = {<<"under way", x.saved>>}
           /\ HeldBy(s, p, {}, {}, {x}, {}, {})' => ReportPlaces(s, p)' = {<<"under way", x.vc>>}
           /\ HeldBy(s, p, {}, {}, {}, {x}, {})' => ReportPlaces(s, p)' = {<<"under way", x.msg.vc>>}
           /\ HeldBy(s, p, {}, {}, {}, {}, {x})' => ReportPlaces(s, p)' = {<<"collected", x>>}
           /\ HeldBy(s, p, {}, {}, {}, {}, {})' => ReportPlaces(s, p)' = {}
<1>1. \A waiting, sending, ms, storing, vs : HeldBy(s, p, waiting, sending, ms, storing, vs)' =>
         ReportPlaces(s, p)' = PlacesFrom(waiting, sending, ms, storing, vs)
  BY ReportHeld
<1>2. HeldBy(s, p, {x}, {}, {}, {}, {})' => ReportPlaces(s, p)' = PlacesFrom({x}, {}, {}, {}, {})
  BY <1>1
<1>3. HeldBy(s, p, {}, {x}, {}, {}, {})' => ReportPlaces(s, p)' = PlacesFrom({}, {x}, {}, {}, {})
  BY <1>1
<1>4. HeldBy(s, p, {}, {}, {x}, {}, {})' => ReportPlaces(s, p)' = PlacesFrom({}, {}, {x}, {}, {})
  BY <1>1
<1>5. HeldBy(s, p, {}, {}, {}, {x}, {})' => ReportPlaces(s, p)' = PlacesFrom({}, {}, {}, {x}, {})
  BY <1>1
<1>6. HeldBy(s, p, {}, {}, {}, {}, {x})' => ReportPlaces(s, p)' = PlacesFrom({}, {}, {}, {}, {x})
  BY <1>1
<1>7. HeldBy(s, p, {}, {}, {}, {}, {})' => ReportPlaces(s, p)' = PlacesFrom({}, {}, {}, {}, {})
  BY <1>1
<1>8. QED
  BY <1>2, <1>3, <1>4, <1>5, <1>6, <1>7, OneReport

\* What P0 has collected of a process is what is in its store.
LEMMA HeldClocks ==
    ASSUME NEW s \in Snapshots, NEW p \in Proc
    PROVE  Survey!Held(s, p) = ClocksAt(s, Stored(s, p))
<1> DEFINE vs == ClocksAt(s, Stored(s, p))
<1>0. ReportPlaces(s, p) =
         PlacesFrom(Uncut(s, p), Sending(s, p), StateMsgs(p, s), Storing(s, p), vs)
         \cup {<<"under way", y.vc>> : y \in Taken(s, p)}
  BY AllPlaces
<1> HIDE DEF vs
<1>1. \A x \in ReportPlaces(s, p) : x[1] = "collected" => x[2] \in vs
  <2> SUFFICES ASSUME NEW x \in ReportPlaces(s, p), x[1] = "collected" PROVE x[2] \in vs
    OBVIOUS
  <2>1. \A v : <<"none">>[1] = "none" /\ <<"under way", v>>[1] = "under way"
               /\ <<"collected", v>>[2] = v
    OBVIOUS
  <2>2. \/ x = <<"none">>
        \/ \E v : x = <<"under way", v>>
        \/ \E v \in vs : x = <<"collected", v>>
    BY <1>0 DEF PlacesFrom
  <2>3. QED
    BY <2>1, <2>2
<1>2. \A v \in vs : <<"collected", v>> \in ReportPlaces(s, p)
  BY <1>0 DEF PlacesFrom
<1>3. \A v \in vs : \E x \in ReportPlaces(s, p) : x[1] = "collected" /\ x[2] = v
  <2> SUFFICES ASSUME NEW v \in vs
               PROVE  \E x \in ReportPlaces(s, p) : x[1] = "collected" /\ x[2] = v
    OBVIOUS
  <2>1. PICK x : x = <<"collected", v>>
    OBVIOUS
  <2>2. x \in ReportPlaces(s, p) /\ x[1] = "collected" /\ x[2] = v
    BY <1>2, <2>1
  <2>3. QED
    BY <2>2
<1>4. Survey!Held(s, p) = {x[2] : x \in {y \in ReportPlaces(s, p) : y[1] = "collected"}}
  BY DEF Survey!Held
<1>5. {x[2] : x \in {y \in ReportPlaces(s, p) : y[1] = "collected"}} = vs
  BY <1>1, <1>3
<1>6. QED
  BY <1>4, <1>5 DEF vs

\* A process that is not committed has not reported anything.
LEMMA NotYet ==
    ASSUME OnceInv, NEW p \in Remote, NEW s \in Snapshots, ~Committed(p, s)
    PROVE  HeldBy(s, p, {p}, {}, {}, {}, {})
<1>1. StateMsgs(p, s) = {} /\ Reporters(p, s) = {} /\ ~HasReported(p, s)
  BY DEF OnceInv, OnceFor
<1>2. Sending(s, p) = {} /\ Storing(s, p) = {}
  BY <1>1 DEF Reporters, Carries, Sending, Storing
<1>3. Stored(s, p) = {}
  BY <1>1 DEF HasReported, Stored
<1>4. ~HasCut(p, s)
  BY TopologyAssumption DEF HasCut, Committed, Remote
<1>5. QED
  BY <1>1, <1>2, <1>3, <1>4 DEF HeldBy, Uncut, ClocksAt

\* A report that a thread carries is nowhere else.
LEMMA CarriedAlone ==
    ASSUME OnceInv, NEW p \in Remote, NEW s \in Snapshots,
           NEW t \in threads, Carries(t, p, s)
    PROVE  /\ Committed(p, s) /\ Reporters(p, s) = {t}
           /\ StateMsgs(p, s) = {} /\ Stored(s, p) = {} /\ ~HasReported(p, s)
<1>1. t \in Reporters(p, s)
  BY DEF Reporters
<1>2. OnceFor(p, s)
  BY DEF OnceInv
<1>3. QED
  BY <1>1, <1>2 DEF OnceFor, AtMostOne, HasReported, Stored

\* Nor is one in a message.
LEMMA StateAlone ==
    ASSUME OnceInv, NEW p \in Remote, NEW s \in Snapshots, NEW m \in StateMsgs(p, s)
    PROVE  /\ Committed(p, s) /\ StateMsgs(p, s) = {m}
           /\ Reporters(p, s) = {} /\ Stored(s, p) = {} /\ ~HasReported(p, s)
<1>1. OnceFor(p, s)
  BY DEF OnceInv
<1>2. QED
  BY <1>1 DEF OnceFor, AtMostOne, HasReported, Stored

\* A process that is committed, and has no thread that reports, has cut.
LEMMA CommittedCut ==
    ASSUME NEW p \in Remote, NEW s \in Snapshots, Committed(p, s),
           p \in Runners => \A t \in threads : ~(t.pc = "report" /\ t.msg.to = p /\ t.msg.id = s)
    PROVE  HasCut(p, s) /\ Uncut(s, p) = {}
<1>1. HasCut(p, s)
  BY DEF HasCut, Committed, Remote
<1>2. QED
  BY <1>1 DEF Uncut

\* The marker has reached every process that is committed.
LEMMA CommittedMarked ==
    ASSUME OnceInv, NEW p \in Remote, NEW s, Committed(p, s)
    PROVE  p \in Marked(s)
BY TopologyAssumption DEF OnceInv, Committed, Marked, Remote, Recorders

----------------------------------------------------------------------------
(* The kinds of steps.                                                     *)

\* Nothing that holds a report changes.
MainQuiet == main' = main \/ (main.pc # "store" /\ main'.pc # "store")

ReportsQuiet ==
    /\ MainQuiet
    /\ \A m \in (net' \ net) \cup (net \ net') : m.type # "STATE"
    /\ \A t \in (threads' \ threads) \cup (threads \ threads') : t.pc \notin {"store", "report"}
    /\ state_store' = state_store
    /\ \A r \in Restaurants : completed'[r] = completed[r]
    /\ recorded_snapshots' = recorded_snapshots

\* Then every report stays where it is.
LEMMA QuietStays ==
    ASSUME ReportsQuiet, NEW s \in Snapshots, NEW p \in Proc
    PROVE  ReportPlaces(s, p)' = ReportPlaces(s, p)
<1>1. StateMsgs(p, s)' = StateMsgs(p, s)
  BY DEF ReportsQuiet, StateMsgs
<1>2. Sending(s, p)' = Sending(s, p) /\ Storing(s, p)' = Storing(s, p)
  BY DEF ReportsQuiet, Sending, Storing
<1>3. ClocksAt(s, Stored(s, p))' = ClocksAt(s, Stored(s, p))
  BY DEF ReportsQuiet, ClocksAt, Stored
<1>4. Taken(s, p)' = Taken(s, p)
  BY DEF ReportsQuiet, MainQuiet, Taken
<1>5. HasCut(p, s)' <=> HasCut(p, s)
  <2>1. (\A t \in threads' : t.msg.to = p /\ t.msg.id = s => t.pc # "report")
          <=> (\A t \in threads : t.msg.to = p /\ t.msg.id = s => t.pc # "report")
    BY DEF ReportsQuiet
  <2>2. QED
    BY <2>1 DEF ReportsQuiet, MainQuiet, HasCut
<1>6. Uncut(s, p)' = Uncut(s, p)
  BY <1>5 DEF Uncut
<1>7. QED
  BY <1>1, <1>2, <1>3, <1>4, <1>6, SameHolders

\* No process records a marker.
MarksQuiet ==
    /\ \A p \in Recorders : local_states'[p] = local_states[p]
    /\ recorded_snapshots' = recorded_snapshots

\* No process comes to be marked.
LEMMA MarksStay ==
    ASSUME MarksQuiet
    PROVE  \A s : Marked(s)' = Marked(s)
BY DEF MarksQuiet, Marked

\* All but one report stay where they are.
OthersStay(s0, p0) ==
    \A s \in Snapshots, p \in Proc : s # s0 \/ p # p0 => ReportPlaces(s, p)' = ReportPlaces(s, p)

\* The step is one of SnapshotWay.
Surveyed == [Survey!Next]_(Survey!vars)

\* The processes of SnapshotWay are those of the system.
LEMMA EveryoneIsProc == Survey!Everyone = Proc
BY TopologyAssumption DEF Survey!Everyone

\* A step that moves no report, marks no process and gives no verdict.
LEMMA RunStep ==
    ASSUME TypeOK, [Next]_vars,
           \A s \in Snapshots, p \in Proc : ReportPlaces(s, p)' = ReportPlaces(s, p),
           \A s \in Snapshots : Marked(s)' = Marked(s), UNCHANGED <<verdict, lost>>
    PROVE  Surveyed
<1> DEFINE R == [s \in Snapshots |-> [p \in Proc |-> ReportPlaces(s, p)]]
           M == [s \in Snapshots |-> Marked(s)]
<1>1. R' = R /\ M' = M
  OBVIOUS
<1>2. \A p \in Proc : Leq(clock[p], clock'[p])
  BY ClockGrows
<1>3. Survey!Forward
  BY <1>2, EveryoneIsProc DEF Survey!Forward, Leq
<1>4. Survey!Run
  BY <1>1, <1>3 DEF Survey!Run
<1>5. QED
  BY <1>4 DEF Surveyed, Survey!Next

\* A step that marks a process.
LEMMA MarkStep ==
    ASSUME TypeOK, [Next]_vars, NEW s0 \in Snapshots, NEW p0 \in Proc,
           \A s \in Snapshots, p \in Proc : ReportPlaces(s, p)' = ReportPlaces(s, p),
           p0 \notin Marked(s0), Marked(s0)' = Marked(s0) \cup {p0},
           \A s \in Snapshots \ {s0} : Marked(s)' = Marked(s),
           p0 = P0 \/ Survey!Sources(p0) \cap Marked(s0) # {}, UNCHANGED <<verdict, lost>>
    PROVE  Surveyed
<1> DEFINE R == [s \in Snapshots |-> [p \in Proc |-> ReportPlaces(s, p)]]
           M == [s \in Snapshots |-> Marked(s)]
<1>1. R' = R
  OBVIOUS
<1>2. M[s0] = Marked(s0) /\ M' = [M EXCEPT ![s0] = @ \cup {p0}]
  OBVIOUS
<1>3. \A p \in Proc : Leq(clock[p], clock'[p])
  BY ClockGrows
<1>4. Survey!Forward
  BY <1>3, EveryoneIsProc DEF Survey!Forward, Leq
<1>5. Survey!Mark(s0, p0)
  BY <1>1, <1>2, <1>4 DEF Survey!Mark
<1>6. QED
  BY <1>5, EveryoneIsProc DEF Surveyed, Survey!Next

\* A step that moves a report.
LEMMA ReportGoes ==
    ASSUME NEW s0 \in Snapshots, NEW p0 \in Proc, NEW to,
           ReportPlaces(s0, p0)' = to, OthersStay(s0, p0),
           p0 \in Marked(s0), \A s \in Snapshots : Marked(s)' = Marked(s),
           UNCHANGED <<clock, verdict>>
    PROVE  Survey!ReportStep(s0, p0, to)
<1> DEFINE R == [s \in Snapshots |-> [p \in Proc |-> ReportPlaces(s, p)]]
           M == [s \in Snapshots |-> Marked(s)]
<1>1. M' = M /\ p0 \in M[s0]
  OBVIOUS
<1>2. R' = [R EXCEPT ![s0][p0] = to]
  BY DEF OthersStay
<1>3. QED
  BY <1>1, <1>2 DEF Survey!ReportStep

\* A step that concerns one report only.
Concerns(s0, p0) ==
    /\ \A m \in (net' \ net) \cup (net \ net') : m.type = "STATE" => m.from = p0 /\ m.id = s0
    /\ \A t \in (threads' \ threads) \cup (threads \ threads') :
          /\ t.pc = "store" => t.msg.from = p0 /\ t.msg.id = s0
          /\ t.pc = "report" => t.msg.to = p0 /\ t.msg.id = s0
    /\ \A s \in Snapshots, p \in Proc : s # s0 \/ p # p0 =>
          /\ ClocksAt(s, Stored(s, p))' = ClocksAt(s, Stored(s, p))
          /\ Taken(s, p)' = Taken(s, p)
          /\ p \in Restaurants => (s \in completed'[p] <=> s \in completed[p])
          /\ p \in Runners => (s \in recorded_snapshots'[p] <=> s \in recorded_snapshots[p])

\* Then the other reports stay where they are.
LEMMA OthersAlone ==
    ASSUME NEW s0, NEW p0, Concerns(s0, p0)
    PROVE  OthersStay(s0, p0)
<1> SUFFICES ASSUME NEW s \in Snapshots, NEW p \in Proc, s # s0 \/ p # p0
             PROVE  ReportPlaces(s, p)' = ReportPlaces(s, p)
  BY DEF OthersStay
<1>1. StateMsgs(p, s)' = StateMsgs(p, s)
  BY DEF Concerns, StateMsgs
<1>2. Sending(s, p)' = Sending(s, p) /\ Storing(s, p)' = Storing(s, p)
  BY DEF Concerns, Sending, Storing
<1>3. ClocksAt(s, Stored(s, p))' = ClocksAt(s, Stored(s, p)) /\ Taken(s, p)' = Taken(s, p)
  BY DEF Concerns
<1>4. HasCut(p, s)' <=> HasCut(p, s)
  <2>1. (\A t \in threads' : t.msg.to = p /\ t.msg.id = s => t.pc # "report")
          <=> (\A t \in threads : t.msg.to = p /\ t.msg.id = s => t.pc # "report")
    BY DEF Concerns
  <2>2. /\ (\E i \in DOMAIN state_store[s] : state_store[s][i].proc = p)
              <=> ClocksAt(s, Stored(s, p)) # {}
        /\ (\E i \in DOMAIN state_store'[s] : state_store'[s][i].proc = p)
              <=> ClocksAt(s, Stored(s, p))' # {}
    BY DEF ClocksAt, Stored
  <2>3. /\ p = P0 => (main.pc = "store" /\ main.id = s <=> Taken(s, p) # {})
        /\ p = P0 => ((main.pc = "store" /\ main.id = s)' <=> Taken(s, p)' # {})
    BY DEF Taken
  <2>4. QED
    BY <1>3, <2>1, <2>2, <2>3 DEF Concerns, HasCut
<1>5. Uncut(s, p)' = Uncut(s, p)
  BY <1>4 DEF Uncut
<1>6. QED
  BY <1>1, <1>2, <1>3, <1>5, SameHolders

----------------------------------------------------------------------------
(* Where the marker has been.                                              *)

\* The marker has reached a process from which it goes on to p.
Sourced(s, p) == Survey!Sources(p) \cap Marked(s) # {}

\* The marker is on its way only to those whose source it has reached, a thread
\* that gives a verdict has counted all states, and the menu has found some.
SourceInv ==
    /\ main.pc \in {"record", "store"} => P0 \in Marked(main.id)
    /\ main.pc = "view" => \A s \in main.left : DOMAIN state_store[s] # {}
    /\ \A m \in net : m.type = "MARKER" => Sourced(m.id, m.to)
    /\ \A t \in threads : t.pc \in {"record", "check"} => Sourced(t.msg.id, t.msg.to)
    /\ \A t \in threads : t.pc = "verify" => AllCollected(state_store[t.msg.id])

\* A marker that is under way after a step is one that was, or the process
\* from which it comes is marked now.
SourceQuiet ==
    /\ (main.pc \in {"record", "store"})' => main' = main \/ (P0 \in Marked(main.id))'
    /\ (main.pc = "view")' =>
          main' = main \/ \A s \in main'.left : DOMAIN state_store'[s] # {}
    /\ \A m \in net' \ net : m.type = "MARKER" => Sourced(m.id, m.to)'
    /\ \A t \in threads' \ threads : t.pc \in {"record", "check"} => Sourced(t.msg.id, t.msg.to)'
    /\ \A t \in threads' \ threads : t.pc = "verify" => AllCollected(state_store'[t.msg.id])

\* No process is unmarked.
LEMMA MarkedGrows ==
    ASSUME \A p \in Recorders : local_states[p] \subseteq local_states'[p],
           \A f \in Runners : recorded_snapshots[f] \subseteq recorded_snapshots'[f]
    PROVE  \A s : Marked(s) \subseteq Marked(s)'
BY DEF Marked

\* A store has an entry of each process when it has as many as there are.
LEMMA FullStore ==
    ASSUME NEW entries \in Seq(Entry), OneEntry(entries)
    PROVE  /\ Len(entries) \in Nat /\ Len(entries) <= Cardinality(Proc)
           /\ Len(entries) = Cardinality(Proc) =>
                 {entries[i].proc : i \in DOMAIN entries} = Proc
<1> DEFINE procOf == [i \in DOMAIN entries |-> entries[i].proc]
<1>1. DOMAIN entries = 1 .. Len(entries) /\ Len(entries) \in Nat
  BY LenProperties
<1>2. \A i \in DOMAIN entries : entries[i] \in Entry
  BY <1>1, ElementOfSeq
<1>3. procOf \in Injection(DOMAIN entries, Proc)
  BY <1>2 DEF OneEntry, Entry, Injection, IsInjective
<1>4. Cardinality(DOMAIN entries) = Len(entries)
  <2>1. \A n \in Nat : Cardinality(1 .. n) = IF 1 > n THEN 0 ELSE n - 1 + 1
    BY FS_Interval
  <2>2. \A n \in Nat : Cardinality(1 .. n) = n
    BY <2>1
  <2>3. QED
    BY <1>1, <2>2
<1>5. /\ Len(entries) <= Cardinality(Proc)
      /\ Len(entries) = Cardinality(Proc) => procOf \in Surjection(DOMAIN entries, Proc)
  BY <1>3, <1>4, FS_Injection, TopologyAssumption
<1>6. procOf \in Surjection(DOMAIN entries, Proc) =>
         {entries[i].proc : i \in DOMAIN entries} = Proc
  BY <1>2 DEF Surjection, Entry
<1>7. QED
  BY <1>1, <1>5, <1>6

\* A full store stays full.
LEMMA CollectedStays ==
    ASSUME TypeOK, OnceInv, [Next]_vars, NEW s \in Snapshots, AllCollected(state_store[s])
    PROVE  AllCollected(state_store'[s])
<1> DEFINE old == state_store[s]
           new == state_store'[s]
<1>1. TypeOK' /\ OnceInv'
  BY TypeStep, OnceStep
<1>2. old \in Seq(Entry) /\ new \in Seq(Entry) /\ OneEntry(new)
  BY <1>1 DEF TypeOK, OnceInv, Entry
<1>3. DOMAIN old = 1 .. Len(old) /\ DOMAIN new = 1 .. Len(new) /\ Len(old) \in Nat /\ Len(new) \in Nat
  BY <1>2, LenProperties
<1>4. DOMAIN old \subseteq DOMAIN new
  BY StoreChange
<1>5. Len(new) <= Cardinality(Proc) /\ Len(old) = Cardinality(Proc)
  BY <1>2, FullStore DEF AllCollected
<1> HIDE DEF old, new
<1>6. Len(old) <= Len(new)
  <2>1. CASE Len(old) = 0
    BY <1>3, <2>1
  <2>2. CASE Len(old) # 0
    <3>1. Len(old) \in DOMAIN new
      BY <1>3, <1>4, <2>2
    <3>2. QED
      BY <1>3, <3>1
  <2>3. QED
    BY <2>1, <2>2
<1>7. Len(new) = Cardinality(Proc)
  BY <1>3, <1>5, <1>6
<1>8. QED
  BY <1>7 DEF AllCollected, new

\* The kinds of steps by what they do to SourceInv.
LEMMA SourceQuietStep ==
    ASSUME TypeOK, OnceInv, [Next]_vars, SourceInv, SourceQuiet,
           \A s : Marked(s) \subseteq Marked(s)'
    PROVE  SourceInv'
<1>1. \A s, p : Survey!Sources(p)' = Survey!Sources(p)
  BY DEF Survey!Sources
<1>2. \A s, p : Sourced(s, p) => Sourced(s, p)'
  BY <1>1 DEF Sourced
<1>3. \A t \in threads : t.pc = "verify" => AllCollected(state_store'[t.msg.id])
  <2>1. \A t \in threads : t.pc = "verify" => t.msg.id \in Snapshots
    BY HandlerOf DEF StatePc
  <2>2. QED
    BY <2>1, CollectedStays DEF SourceInv
<1>4. (main.pc \in {"record", "store"} => P0 \in Marked(main.id))'
  BY DEF SourceInv, SourceQuiet, Marked
<1>5. (main.pc = "view" => \A s \in main.left : DOMAIN state_store[s] # {})'
  <2>1. \A s \in Snapshots : DOMAIN state_store[s] # {} => DOMAIN state_store'[s] # {}
    BY StoreChange
  <2>2. main.pc = "view" => \A s \in main.left : s \in Snapshots /\ DOMAIN state_store[s] # {}
    BY MainParts DEF SourceInv
  <2>3. QED
    BY <2>1, <2>2 DEF SourceQuiet
<1>6. (\A m \in net : m.type = "MARKER" => Sourced(m.id, m.to))'
  BY <1>2 DEF SourceInv, SourceQuiet
<1>7. (\A t \in threads : t.pc \in {"record", "check"} => Sourced(t.msg.id, t.msg.to))'
  BY <1>2 DEF SourceInv, SourceQuiet
<1>8. (\A t \in threads : t.pc = "verify" => AllCollected(state_store[t.msg.id]))'
  BY <1>3 DEF SourceInv, SourceQuiet
<1>9. QED
  BY <1>4, <1>5, <1>6, <1>7, <1>8 DEF SourceInv

\* No step takes a process out of a snapshot.
LEMMA MarkedStays ==
    ASSUME TypeOK, [Next]_vars
    PROVE  \A s : Marked(s) \subseteq Marked(s)'
<1>1. /\ local_states \in [Recorders -> SUBSET Snapshots]
      /\ recorded_snapshots \in [Runners -> SUBSET Snapshots]
  BY DEF TypeOK
<1> DEFINE NoneTakenOut ==
             /\ \A p \in Recorders : local_states[p] \subseteq local_states'[p]
             /\ \A f \in Runners : recorded_snapshots[f] \subseteq recorded_snapshots'[f]
<1> SUFFICES NoneTakenOut
  BY MarkedGrows
<1>2. CASE UNCHANGED <<local_states, recorded_snapshots>>
  BY <1>2
<1>3. ASSUME NEW s \in Snapshots, InitiateSnapshot(s) PROVE NoneTakenOut
  BY <1>1, <1>3 DEF InitiateSnapshot
<1>4. ASSUME NEW t \in threads, FirstMarker(t), recorded_snapshots' = recorded_snapshots PROVE NoneTakenOut
  BY <1>1, <1>4 DEF FirstMarker
<1>5. ASSUME NEW t \in threads, StampState(t), local_states' = local_states PROVE NoneTakenOut
  BY <1>1, <1>5 DEF StampState
<1> HIDE DEF NoneTakenOut
<1> USE DEF recorderVars
<1>6. CASE UNCHANGED vars
  BY <1>2, <1>6 DEF vars, NoneTakenOut
<1>7. CASE Command \/ MainStep
  BY <1>2, <1>3, <1>7 DEF Command, MainStep, CreateOrder, DispatchOrder, ViewSnapshots,
                          RecordOwnState, StoreOwnState, CheckViewed, NoneTakenOut
<1>8. CASE Arrival \/ Failure
  BY <1>2, <1>8 DEF Arrival, ReceiveDelivery, ReceiveState, AcceptOrder, ReceiveMarker,
              ReceiveHandoff, ReceiveRunnerMarker, Receive, Failure, Lose, NoneTakenOut
<1>9. ASSUME NEW t \in threads, CoordinatorStep(t) PROVE NoneTakenOut
  BY <1>2, <1>9 DEF CoordinatorStep, ConfirmDelivery, HandleState, CountStates,
              CheckSnapshotConsistency, NoneTakenOut
<1>10. ASSUME NEW t \in threads, RestaurantStep(t) PROVE NoneTakenOut
  BY <1>2, <1>4, <1>10 DEF RestaurantStep, HandleOrder, OrderConfirmed, PreparingFood, FoodReady,
                  OrderEvent, HandToRunner, RecordMarker, LaterMarker, ForwardMarker,
                  NothingToComplete, CompleteSnapshot, SendState, ReleaseLock, NoneTakenOut
<1>11. ASSUME NEW t \in threads, RunnerStep(t) PROVE NoneTakenOut
  BY <1>2, <1>5, <1>11 DEF RunnerStep, PickedUp, InTransit, Delivered, DeliveryEvent, SendDelivery,
                  CheckMarker, DuplicateMarker, ReportState, NoneTakenOut
<1>12. QED
  BY <1>6, <1>7, <1>8, <1>9, <1>10, <1>11 DEF Next, HandlerStep

\* The source of a restaurant is P0, and that of a runner its restaurant.
LEMMA SourceOf ==
    ASSUME NEW s
    PROVE  /\ \A r \in Restaurants : P0 \in Marked(s) => Sourced(s, r)
           /\ \A r \in Restaurants : r \in Marked(s) => Sourced(s, Partner[r])
<1>1. ASSUME NEW r \in Restaurants PROVE Partner[r] \notin Restaurants
  BY TopologyAssumption
<1>2. QED
  BY <1>1 DEF Sourced, Survey!Sources

\* Every step keeps the markers to their way.
LEMMA SourceNext ==
    ASSUME TypeOK, OnceInv, SourceInv, [Next]_vars
    PROVE  SourceInv'
<1> USE DEF coordinatorVars
<1>1. \A s : Marked(s) \subseteq Marked(s)'
  BY MarkedStays
<1>2. SourceQuiet => SourceInv'
  BY <1>1, SourceQuietStep
<1>3. CASE UNCHANGED vars
  BY <1>2, <1>3 DEF vars, SourceQuiet
<1>4. CASE \E o \in Orders, r \in Restaurants : CreateOrder(o, r)
  BY <1>2, <1>4 DEF CreateOrder, SourceQuiet
<1>5. CASE DispatchOrder
  BY <1>2, <1>5 DEF DispatchOrder, Menu, Msg, SourceQuiet
<1>6. CASE RecordOwnState \/ StoreOwnState
  <2>1. UNCHANGED <<net, threads>> /\ (main.pc = "record" => P0 \in Marked(main.id))
    BY <1>6 DEF RecordOwnState, StoreOwnState, SourceInv
  <2>2. CASE RecordOwnState
    <3>1. main'.pc = "store" /\ main'.id = main.id /\ P0 \in Marked(main.id)
      BY <2>1, <2>2 DEF RecordOwnState
    <3>2. (P0 \in Marked(main.id))'
      BY <2>2, <3>1 DEF RecordOwnState, recorderVars, Marked
    <3>3. QED
      BY <1>2, <2>1, <3>1, <3>2 DEF SourceQuiet
  <2>3. CASE StoreOwnState
    BY <1>2, <2>1, <2>3 DEF StoreOwnState, Menu, SourceQuiet
  <2>4. QED
    BY <1>6, <2>2, <2>3
<1>7. CASE ViewSnapshots
  <2>1. UNCHANGED <<net, threads, state_store>>
    BY <1>7 DEF ViewSnapshots
  <2>2. main'.pc = "view" /\ \A s \in main'.left : s \in Snapshots /\ state_store[s] # <<>>
    BY <1>7 DEF ViewSnapshots
  <2>3. \A s \in main'.left : DOMAIN state_store'[s] # {}
    <3> SUFFICES ASSUME NEW s \in main'.left PROVE DOMAIN state_store[s] # {}
      BY <2>1
    <3>1. state_store[s] \in Seq(Entry) /\ state_store[s] # <<>>
      BY <2>2 DEF TypeOK, Entry
    <3>2. Len(state_store[s]) # 0 /\ Len(state_store[s]) \in Nat
      BY <3>1, EmptySeq, LenProperties
    <3>3. DOMAIN state_store[s] = 1 .. Len(state_store[s])
      BY <3>1, LenProperties
    <3>4. QED
      BY <3>2, <3>3
  <2>4. QED
    BY <1>2, <2>1, <2>2, <2>3 DEF SourceQuiet
<1>8. ASSUME NEW s0 \in Snapshots, CheckViewed(s0) PROVE SourceInv'
  <2>1. /\ UNCHANGED <<net, threads, state_store>> /\ main.pc = "view"
        /\ main' = Menu \/ main' = [main EXCEPT !.left = @ \ {s0}]
    BY <1>8 DEF CheckViewed
  <2>2. main \in [pc : {"view"}, left : SUBSET Snapshots]
    BY <2>1 DEF TypeOK, MainState, Menu
  <2>3. /\ main'.pc \in {"menu", "view"}
        /\ main'.pc = "view" => main'.left \subseteq main.left
    BY <2>1, <2>2 DEF Menu
  <2>4. main'.pc = "view" => \A s \in main'.left : DOMAIN state_store'[s] # {}
    BY <2>1, <2>3 DEF SourceInv
  <2>5. QED
    BY <1>2, <2>1, <2>3, <2>4 DEF SourceQuiet
<1>9. ASSUME NEW s \in Snapshots, InitiateSnapshot(s) PROVE SourceInv'
  <2>1. (P0 \in Marked(s))'
    BY <1>9, Roles DEF InitiateSnapshot, TypeOK, Marked
  <2>2. \A m \in net' \ net : m.id = s /\ m.to \in Restaurants
    BY <1>9 DEF InitiateSnapshot, Msg
  <2>3. \A r \in Restaurants : Sourced(s, r)'
    <3>1. \A r \in Restaurants : (P0 \in Marked(s) => Sourced(s, r))'
      BY DEF Sourced, Survey!Sources
    <3>2. QED
      BY <2>1, <3>1
  <2>4. main' = [pc |-> "record", id |-> s] /\ threads' = threads
    BY <1>9 DEF InitiateSnapshot
  <2>5. (P0 \in Marked(main.id))'
    BY <2>1, <2>4
  <2>6. QED
    BY <1>2, <2>2, <2>3, <2>4, <2>5 DEF SourceQuiet
<1>10. CASE Failure
  BY <1>2, <1>10 DEF Failure, Lose, SourceQuiet
<1>11. ASSUME NEW m \in net, NEW pc, Receive(m, pc), pc \in {"store", "acknowledge", "pickup"}, main' = main
      PROVE  SourceQuiet
  BY <1>11 DEF Receive, NewThread, SourceQuiet
<1>12. ASSUME NEW m \in net, ReceiveDelivery(m) \/ ReceiveState(m) \/ ReceiveHandoff(m)
      PROVE SourceInv'
  BY <1>2, <1>11, <1>12 DEF ReceiveDelivery, ReceiveState, ReceiveHandoff
<1>13. ASSUME NEW m \in net, AcceptOrder(m) PROVE SourceInv'
  BY <1>2, <1>13 DEF AcceptOrder, NewThread, SourceQuiet
<1>14. ASSUME NEW m \in net, ReceiveMarker(m) \/ ReceiveRunnerMarker(m) PROVE SourceInv'
  <2>1. Sourced(m.id, m.to)
    BY <1>14 DEF ReceiveMarker, ReceiveRunnerMarker, SourceInv
  <2>2. Sourced(m.id, m.to)'
    BY <1>1, <2>1 DEF Sourced, Survey!Sources
  <2>3. \A t \in threads' \ threads : t.msg = m /\ t.pc \in {"record", "check"}
    BY <1>14 DEF ReceiveMarker, ReceiveRunnerMarker, Receive, NewThread
  <2>4. net' = net \ {m} /\ main' = main
    BY <1>14 DEF ReceiveMarker, ReceiveRunnerMarker, Receive
  <2>5. QED
    BY <1>2, <2>2, <2>3, <2>4 DEF SourceQuiet
<1>15. ASSUME NEW t \in threads, CoordinatorStep(t) PROVE SourceInv'
  <2>1. net' = net /\ main' = main
    BY <1>15 DEF CoordinatorStep, ConfirmDelivery, HandleState, CountStates, CheckSnapshotConsistency
  <2>2. CASE CountStates(t) /\ AllCollected(state_store[t.msg.id])
    <3>1. \A u \in threads' \ threads : u.msg = t.msg /\ u.pc = "verify"
      BY <2>2, ThreadParts DEF CountStates, Goto
    <3>2. QED
      BY <1>2, <2>1, <2>2, <3>1 DEF SourceQuiet, CountStates
  <2>3. CASE ~(CountStates(t) /\ AllCollected(state_store[t.msg.id]))
    <3>1. \A u \in threads' \ threads : u.pc = "count"
      BY <1>15, <2>3, ThreadParts DEF CoordinatorStep, ConfirmDelivery, HandleState, CountStates,
                               CheckSnapshotConsistency, Goto, Finish
    <3>2. QED
      BY <1>2, <2>1, <3>1 DEF SourceQuiet
  <2>4. QED
    BY <2>2, <2>3
<1>16. ASSUME NEW t \in threads, RestaurantStep(t) PROVE SourceInv'
  <2>1. main' = main
    BY <1>16 DEF RestaurantStep, HandleOrder, OrderConfirmed, PreparingFood, FoodReady, OrderEvent,
                 HandToRunner, RecordMarker, ForwardMarker, NothingToComplete, CompleteSnapshot,
                 SendState, ReleaseLock
  <2>2. \A u \in threads' \ threads : u.pc \notin {"record", "check", "verify"}
    <3>1. \/ threads' = threads \ {t}
          \/ \E pc \in {"confirm", "prepare", "ready", "handover", "forward", "close", "release"} :
                Goto(t, pc)
          \/ \E c : Keep(t, "report", c)
      BY <1>16 DEF RestaurantStep, HandleOrder, OrderConfirmed, PreparingFood, FoodReady,
                   OrderEvent, HandToRunner, RecordMarker, FirstMarker, LaterMarker, ForwardMarker,
                   NothingToComplete, CompleteSnapshot, SendState, ReleaseLock, Finish
    <3>2. \A pc : Goto(t, pc) => \A u \in threads' \ threads : u.pc = pc
      BY ThreadParts DEF Goto
    <3>3. \A c : Keep(t, "report", c) => \A u \in threads' \ threads : u.pc = "report"
      BY ThreadParts DEF Keep
    <3>4. QED
      BY <3>1, <3>2, <3>3
  <2>3. CASE ForwardMarker(t)
    <3>1. t.msg.to \in Restaurants /\ t.msg.to \in Recorders /\ t.msg.id \in local_states[t.msg.to]
      BY <2>3, HandlerOf, Roles DEF ForwardMarker, OnceInv, Opened
    <3>2. t.msg.to \in Marked(t.msg.id)
      BY <3>1 DEF Marked
    <3>3. Sourced(t.msg.id, Partner[t.msg.to])
      BY <3>1, <3>2, SourceOf
    <3>4. Sourced(t.msg.id, Partner[t.msg.to])'
      BY <1>1, <3>3 DEF Sourced, Survey!Sources
    <3>5. \A m \in net' \ net : m.id = t.msg.id /\ m.to = Partner[t.msg.to]
      BY <2>3 DEF ForwardMarker, Msg
    <3>6. QED
      BY <1>2, <2>1, <2>2, <3>4, <3>5 DEF SourceQuiet
  <2>4. CASE ~ForwardMarker(t)
    <3>1. \A m \in net' \ net : m.type # "MARKER"
      <4>1. CASE HandToRunner(t) \/ SendState(t)
        BY <4>1 DEF HandToRunner, SendState, Msg
      <4>2. CASE ~(HandToRunner(t) \/ SendState(t))
        <5>1. net' = net
          BY <1>16, <2>4, <4>2
             DEF RestaurantStep, HandleOrder, OrderConfirmed, PreparingFood, FoodReady, OrderEvent,
                 RecordMarker, NothingToComplete, CompleteSnapshot, ReleaseLock
        <5>2. QED
          BY <5>1
      <4>3. QED
        BY <4>1, <4>2
    <3>2. QED
      BY <1>2, <2>1, <2>2, <3>1 DEF SourceQuiet
  <2>5. QED
    BY <2>3, <2>4
<1>17. ASSUME NEW t \in threads, RunnerStep(t) PROVE SourceInv'
  <2>1. main' = main /\ \A m \in net' \ net : m.type # "MARKER"
    BY <1>17 DEF RunnerStep, PickedUp, InTransit, Delivered, DeliveryEvent, SendDelivery,
                 CheckMarker, ReportState, Msg
  <2>2. \A u \in threads' \ threads : u.pc \notin {"record", "check", "verify"}
    <3>1. \/ threads' = threads \ {t}
          \/ \E pc \in {"transit", "deliver", "handover"} : Goto(t, pc)
          \/ \E c : Keep(t, "report", c)
      BY <1>17 DEF RunnerStep, PickedUp, InTransit, Delivered, DeliveryEvent, SendDelivery,
                   CheckMarker, StampState, DuplicateMarker, ReportState, Finish
    <3>2. \A pc : Goto(t, pc) => \A u \in threads' \ threads : u.pc = pc
      BY ThreadParts DEF Goto
    <3>3. \A c : Keep(t, "report", c) => \A u \in threads' \ threads : u.pc = "report"
      BY ThreadParts DEF Keep
    <3>4. QED
      BY <3>1, <3>2, <3>3
  <2>3. QED
    BY <1>2, <2>1, <2>2 DEF SourceQuiet
<1>18. QED
  BY <1>3, <1>4, <1>5, <1>6, <1>7, <1>8, <1>9, <1>10, <1>12, <1>13, <1>14, <1>15, <1>16, <1>17
     DEF Next, Command, MainStep, Arrival, HandlerStep

----------------------------------------------------------------------------
(* Every step is a step of SnapshotWay, or none.                           *)

\* The clocks of the entries of a process
\* The clocks of p among the entries of a store.
ClocksOf(entries, p) == {entries[i].vc : i \in {j \in DOMAIN entries : entries[j].proc = p}}

\* The clocks that an assignment to a key leaves in the store.
LEMMA PutClocks ==
    ASSUME NEW entries \in Seq(Entry), NEW p \in Proc, NEW v \in Clock,
           NEW new, new = Put(entries, p, v)
    PROVE  /\ \A q : q # p => ClocksOf(new, q) = ClocksOf(entries, q)
           /\ ClocksOf(new, p) = {v}
<1>1. CASE \E i \in DOMAIN entries : entries[i].proc = p
  <2>1. /\ DOMAIN new = DOMAIN entries
        /\ \A i \in DOMAIN entries : new[i].proc = entries[i].proc
        /\ \A i \in DOMAIN entries : entries[i].proc # p => new[i] = entries[i]
        /\ \A i \in DOMAIN entries : entries[i].proc = p => new[i].vc = v
    BY <1>1, PutOld
  <2>2. QED
    BY <1>1, <2>1 DEF ClocksOf
<1>2. CASE ~ \E i \in DOMAIN entries : entries[i].proc = p
  <2>1. /\ \A i \in DOMAIN entries : i \in DOMAIN new /\ new[i] = entries[i]
        /\ \A i \in DOMAIN new : i \in DOMAIN entries \/ i = Len(new)
        /\ Len(new) \in DOMAIN new /\ new[Len(new)].proc = p /\ new[Len(new)].vc = v
    BY <1>2, PutNew
  <2>2. QED
    BY <1>2, <2>1 DEF ClocksOf
<1>3. QED
  BY <1>1, <1>2

\* The assignment leaves every other clock in P0's store.
LEMMA StoreSets ==
    ASSUME TypeOK, NEW s0 \in Snapshots, NEW p0 \in Proc, NEW v \in Clock,
           state_store' = [state_store EXCEPT ![s0] = Put(@, p0, v)]
    PROVE  /\ ClocksAt(s0, Stored(s0, p0))' = {v}
           /\ \A s \in Snapshots, p \in Proc : s # s0 \/ p # p0 =>
                 ClocksAt(s, Stored(s, p))' = ClocksAt(s, Stored(s, p))
<1>1. /\ \A s \in Snapshots : s # s0 => state_store'[s] = state_store[s]
      /\ state_store'[s0] = Put(state_store[s0], p0, v) /\ state_store[s0] \in Seq(Entry)
  BY DEF TypeOK, Entry
<1>2. /\ \A q : q # p0 => ClocksOf(state_store'[s0], q) = ClocksOf(state_store[s0], q)
      /\ ClocksOf(state_store'[s0], p0) = {v}
  BY <1>1, PutClocks
<1>3. \A s, q : /\ ClocksAt(s, Stored(s, q)) = ClocksOf(state_store[s], q)
                /\ ClocksAt(s, Stored(s, q))' = ClocksOf(state_store'[s], q)
  BY DEF ClocksAt, Stored, ClocksOf
<1>4. QED
  BY <1>1, <1>2, <1>3

\* A step of which SnapshotWay sees nothing but the clocks.
LEMMA QuietRun ==
    ASSUME TypeOK, [Next]_vars, ReportsQuiet, MarksQuiet, UNCHANGED <<verdict, lost>>
    PROVE  Surveyed
BY QuietStays, MarksStay, RunStep

\* A verdict on the states that P0 has collected.
LEMMA JudgeStep ==
    ASSUME TypeOK, OnceInv, NEW s0 \in Snapshots, NEW by \in {"collected", "menu"},
           Check(s0, by), ReportsQuiet, MarksQuiet, UNCHANGED <<clock, lost>>,
           by = "collected" => AllCollected(state_store[s0]),
           by = "menu" => DOMAIN state_store[s0] # {}
    PROVE  Surveyed
<1> DEFINE entries == state_store[s0]
<1>1. entries \in Seq(Entry) /\ OneEntry(entries)
  BY DEF TypeOK, Entry, OnceInv
<1>2. DOMAIN entries = 1 .. Len(entries)
  BY <1>1, LenProperties
<1>3. \A i \in DOMAIN entries : entries[i].proc \in Proc /\ entries[i].vc \in Clock
  <2>1. \A i \in DOMAIN entries : entries[i] \in Entry
    BY <1>1, <1>2, ElementOfSeq
  <2>2. QED
    BY <2>1 DEF Entry
<1>4. \A p \in Proc : Survey!Held(s0, p) = {entries[i].vc : i \in {j \in DOMAIN entries : entries[j].proc = p}}
  BY HeldClocks DEF ClocksAt, Stored
<1>5. by = "collected" => {entries[i].proc : i \in DOMAIN entries} = Proc
  BY <1>1, FullStore DEF AllCollected
<1>6. by = "menu" => \E i \in DOMAIN entries : TRUE
  OBVIOUS
<1> HIDE DEF entries
<1>7. /\ by = "collected" => \A p \in Proc : Survey!Held(s0, p) # {}
      /\ by = "menu" => \E p \in Proc : Survey!Held(s0, p) # {}
  <2>1. \A i \in DOMAIN entries : Survey!Held(s0, entries[i].proc) # {}
    BY <1>3, <1>4
  <2>2. QED
    BY <1>3, <1>5, <1>6, <2>1
<1>8. \A p, q \in Proc : Survey!Ahead(s0, p, q) <=>
         \E i, j \in DOMAIN entries :
            /\ entries[i].proc = p /\ entries[j].proc = q
            /\ entries[i].vc[q] > entries[j].vc[q]
  BY <1>4 DEF Survey!Ahead
<1>9. PICK says \in {"consistent", "inconsistent"} :
         /\ verdict' = [verdict EXCEPT ![s0] = @ \cup {[by |-> by, says |-> says]}]
         /\ says = "consistent" <=> Inconsistencies(entries) = {}
  BY DEF Check, entries
<1>10. Survey!Finding(s0, says)
  <2>1. CASE says = "consistent"
    <3>1. \A i, j \in DOMAIN entries : i < j =>
             ~(entries[i].vc[entries[j].proc] > entries[j].vc[entries[j].proc])
      <4> SUFFICES ASSUME NEW i \in DOMAIN entries, NEW j \in DOMAIN entries, i < j,
                          entries[i].vc[entries[j].proc] > entries[j].vc[entries[j].proc]
                   PROVE  <<i, j>> \in Inconsistencies(entries)
        BY <1>9, <2>1
      <4>1. QED
        BY DEF Inconsistencies
    <3>2. ASSUME NEW p \in Proc, NEW q \in Proc,
                 Survey!Ahead(s0, p, q), Survey!Ahead(s0, q, p)
          PROVE  FALSE
      <4>1. PICK i, j \in DOMAIN entries :
               /\ entries[i].proc = p /\ entries[j].proc = q
               /\ entries[i].vc[q] > entries[j].vc[q]
        BY <1>8, <3>2
      <4>2. PICK k, l \in DOMAIN entries :
               /\ entries[k].proc = q /\ entries[l].proc = p
               /\ entries[k].vc[p] > entries[l].vc[p]
        BY <1>8, <3>2
      <4>3. k = j /\ l = i
        BY <1>1, <4>1, <4>2 DEF OneEntry
      <4>4. ~(i < j) /\ ~(j < i)
        BY <3>1, <4>1, <4>2, <4>3
      <4>5. i = j
        BY <1>1, <1>2, <4>4, LenProperties
      <4>6. entries[i].vc[q] \in Nat
        BY <1>3, <3>2 DEF Clock
      <4>7. QED
        BY <4>1, <4>5, <4>6
    <3>3. QED
      BY <2>1, <3>2, EveryoneIsProc DEF Survey!Finding
  <2>2. CASE says = "inconsistent"
    <3>1. PICK i, j \in DOMAIN entries :
             entries[i].vc[entries[j].proc] > entries[j].vc[entries[j].proc]
      BY <1>9, <2>2 DEF Inconsistencies
    <3>2. Survey!Ahead(s0, entries[i].proc, entries[j].proc)
      BY <1>3, <1>8, <3>1
    <3>3. QED
      BY <1>3, <2>2, <3>2, EveryoneIsProc DEF Survey!Finding
  <2>3. QED
    BY <2>1, <2>2
<1> DEFINE R == [s \in Snapshots |-> [p \in Proc |-> ReportPlaces(s, p)]]
           M == [s \in Snapshots |-> Marked(s)]
<1>11. R' = R /\ M' = M
  BY QuietStays, MarksStay
<1>12. Survey!Judge(s0, by, says)
  BY <1>7, <1>9, <1>10, <1>11, EveryoneIsProc DEF Survey!Judge
<1>13. QED
  BY <1>12 DEF Surveyed, Survey!Next

\* The steps of P0's main thread.
LEMMA SurveyMain ==
    ASSUME TypeOK, OnceInv, SourceInv, [Next]_vars, Command \/ MainStep
    PROVE  Surveyed
<1>1. P0 \in Proc /\ P0 \notin Restaurants /\ P0 \notin Runners /\ P0 \notin Remote
      /\ P0 \in Recorders /\ Restaurants \subseteq Recorders
  BY TopologyAssumption DEF Remote, Recorders
<1>2. CASE \E o \in Orders, r \in Restaurants : CreateOrder(o, r)
  BY <1>2, QuietRun DEF CreateOrder, Menu, recorderVars, ReportsQuiet, MainQuiet, MarksQuiet
<1>3. CASE DispatchOrder
  BY <1>3, QuietRun
     DEF DispatchOrder, Menu, Msg, recorderVars, ReportsQuiet, MainQuiet, MarksQuiet
<1>4. ASSUME NEW s0 \in Snapshots, InitiateSnapshot(s0) PROVE Surveyed
  <2>1. /\ UNCHANGED <<threads, state_store, recorded_snapshots, verdict, lost>> /\ MainQuiet
        /\ net \subseteq net' /\ \A m \in net' \ net : m.type = "MARKER"
    BY <1>4 DEF InitiateSnapshot, Menu, Msg, MainQuiet
  <2>2. /\ \A r \in Restaurants : completed'[r] = completed[r]
        /\ \A p \in Recorders : local_states'[p] = IF p = P0 THEN local_states[P0] \cup {s0}
                                                   ELSE local_states[p]
    BY <1>1, <1>4 DEF InitiateSnapshot, TypeOK
  <2>3. ReportsQuiet
    BY <2>1, <2>2 DEF ReportsQuiet
  <2>4. \A s : Marked(s)' = IF s = s0 THEN Marked(s) \cup {P0} ELSE Marked(s)
    BY <1>1, <2>1, <2>2 DEF Marked
  <2>5. \A s \in Snapshots, p \in Proc : ReportPlaces(s, p)' = ReportPlaces(s, p)
    BY <2>3, QuietStays
  <2>6. CASE P0 \in Marked(s0)
    BY <2>1, <2>4, <2>5, <2>6, RunStep
  <2>7. CASE P0 \notin Marked(s0)
    BY <1>1, <2>1, <2>4, <2>5, <2>7, MarkStep
  <2>8. QED
    BY <2>6, <2>7
<1>5. OnceInv'
  BY OnceStep
\* P0 reads its clock, for the first time or again.
<1>6. CASE RecordOwnState
  <2>1. PICK s0, v : s0 = main.id /\ v = clock[P0]
    OBVIOUS
  <2>2. main.pc = "record" /\ s0 \in Snapshots /\ P0 \in Marked(s0)
    BY <1>6, <2>1, MainParts DEF RecordOwnState, SourceInv
  <2>3. PICK y : /\ main' = y /\ y.pc = "store" /\ y.id = s0 /\ y.vc = v
    <3>1. main' = [pc |-> "store", id |-> s0, vc |-> v]
      BY <1>6, <2>1 DEF RecordOwnState
    <3>2. QED
      BY <3>1
  <2>4. UNCHANGED <<clock, net, lost, threads, local_states, completed, recorded_snapshots,
                    state_store, verdict>>
    BY <1>6 DEF RecordOwnState, recorderVars
  <2>5. /\ Taken(s0, P0) = {} /\ Taken(s0, P0)' = {y}
        /\ \A s \in Snapshots, p \in Proc : s # s0 \/ p # P0 => Taken(s, p)' = Taken(s, p)
    BY <2>2, <2>3 DEF Taken
  <2>6. OthersStay(s0, P0)
    <3>1. Concerns(s0, P0)
      BY <2>4, <2>5 DEF Concerns, ClocksAt, Stored
    <3>2. QED
      BY <3>1, OthersAlone
  <2>7. \A s \in Snapshots : Marked(s)' = Marked(s)
    BY <2>4 DEF Marked
  <2>8. Uncut(s0, P0)' = {} /\ ClocksAt(s0, Stored(s0, P0))' = ClocksAt(s0, Stored(s0, P0))
    BY <2>3, <2>4 DEF Uncut, HasCut, ClocksAt, Stored
  <2>9. CASE Stored(s0, P0) = {}
    <3>1. Uncut(s0, P0) = {P0} /\ ClocksAt(s0, Stored(s0, P0)) = {}
      BY <1>1, <2>2, <2>9 DEF Uncut, HasCut, Stored, ClocksAt
    <3>2. ReportPlaces(s0, P0) = {<<"none">>} /\ ReportPlaces(s0, P0)' = {<<"under way", v>>}
      <4>1. ReportPlaces(s0, P0) = {<<"none">> : x \in {P0}} \cup {<<"collected", w>> : w \in {}}
                                      \cup {<<"under way", x.vc>> : x \in {}}
        BY <1>5, <2>2, <2>5, <3>1, OwnPlaces
      <4>2. ReportPlaces(s0, P0)' = {<<"none">> : x \in {}} \cup {<<"collected", w>> : w \in {}}
                                      \cup {<<"under way", x.vc>> : x \in {y}}
        BY <1>5, <2>2, <2>5, <2>8, <3>1, OwnPlaces
      <4>3. QED
        BY <2>3, <4>1, <4>2
    <3>3. Survey!ReportStep(s0, P0, {<<"under way", v>>})
      BY <1>1, <2>2, <2>4, <2>6, <2>7, <3>2, ReportGoes
    <3>4. Survey!Cut(s0, P0)
      BY <1>1, <2>1, <2>2, <2>4, <3>2, <3>3 DEF Survey!Cut, Survey!None, Survey!UnderWay
    <3>5. QED
      BY <1>1, <2>2, <3>4, EveryoneIsProc DEF Surveyed, Survey!Next
  <2>10. CASE Stored(s0, P0) # {}
    <3>1. PICK i \in Stored(s0, P0) : TRUE
      BY <2>10
    <3>2. PICK w : w = state_store[s0][i].vc
      OBVIOUS
    <3>3. Stored(s0, P0) = {i}
      BY <2>2, <3>1 DEF Stored, OnceInv, OneEntry
    <3>4. Uncut(s0, P0) = {} /\ ClocksAt(s0, Stored(s0, P0)) = {w}
      BY <3>2, <3>3 DEF Uncut, HasCut, Stored, ClocksAt
    <3>5. /\ ReportPlaces(s0, P0) = {<<"collected", w>>}
          /\ ReportPlaces(s0, P0)' = {<<"collected", w>>} \cup {<<"under way", v>>}
      <4>1. ReportPlaces(s0, P0) = {<<"none">> : x \in {}} \cup {<<"collected", x>> : x \in {w}}
                                      \cup {<<"under way", x.vc>> : x \in {}}
        BY <1>5, <2>2, <2>5, <3>4, OwnPlaces
      <4>2. ReportPlaces(s0, P0)' = {<<"none">> : x \in {}} \cup {<<"collected", x>> : x \in {w}}
                                      \cup {<<"under way", x.vc>> : x \in {y}}
        BY <1>5, <2>2, <2>5, <2>8, <3>4, OwnPlaces
      <4>3. QED
        BY <2>3, <4>1, <4>2
    <3>6. Survey!ReportStep(s0, P0, {<<"collected", w>>} \cup {<<"under way", v>>})
      BY <1>1, <2>2, <2>4, <2>6, <2>7, <3>5, ReportGoes
    <3>7. w \in Survey!Held(s0, P0)
      BY <1>1, <2>2, <3>4, HeldClocks
    <3>8. Survey!CutAgain(s0)
      BY <1>1, <2>1, <2>2, <2>4, <3>5, <3>6, <3>7
         DEF Survey!CutAgain, Survey!Collected, Survey!UnderWay
    <3>9. QED
      BY <2>2, <3>8 DEF Surveyed, Survey!Next
  <2>11. QED
    BY <2>9, <2>10
\* P0 collects its own state.
<1>7. CASE StoreOwnState
  <2>1. PICK s0, v : s0 = main.id /\ v = main.vc
    OBVIOUS
  <2>2. main.pc = "store" /\ s0 \in Snapshots /\ v \in Clock /\ P0 \in Marked(s0)
    BY <1>7, <2>1, MainParts DEF StoreOwnState, SourceInv
  <2>3. UNCHANGED <<clock, net, lost, threads, local_states, completed, recorded_snapshots, verdict>>
    BY <1>7 DEF StoreOwnState, recorderVars
  <2>4. state_store' = [state_store EXCEPT ![s0] = Put(@, P0, v)]
    BY <1>7, <2>1 DEF StoreOwnState
  <2>5. /\ ClocksAt(s0, Stored(s0, P0))' = {v}
        /\ \A s \in Snapshots, p \in Proc : s # s0 \/ p # P0 =>
              ClocksAt(s, Stored(s, p))' = ClocksAt(s, Stored(s, p))
    BY <1>1, <2>2, <2>4, StoreSets
  <2>6. /\ Taken(s0, P0) = {main} /\ Taken(s0, P0)' = {}
        /\ \A s \in Snapshots, p \in Proc : s # s0 \/ p # P0 => Taken(s, p)' = Taken(s, p)
    BY <1>7, <2>1, <2>2 DEF StoreOwnState, Menu, Taken
  <2>7. OthersStay(s0, P0)
    <3>1. Concerns(s0, P0)
      BY <2>3, <2>5, <2>6 DEF Concerns
    <3>2. QED
      BY <3>1, OthersAlone
  <2>8. ReportPlaces(s0, P0)' = {<<"collected", v>>}
    <3>1. Uncut(s0, P0)' = {}
      <4>1. \E i \in DOMAIN state_store'[s0] : state_store'[s0][i].proc = P0
        BY <2>5 DEF ClocksAt, Stored
      <4>2. QED
        BY <4>1 DEF Uncut, HasCut
    <3>2. ReportPlaces(s0, P0)' = {<<"none">> : x \in {}} \cup {<<"collected", x>> : x \in {v}}
                                     \cup {<<"under way", x.vc>> : x \in {}}
      BY <1>5, <2>2, <2>5, <2>6, <3>1, OwnPlaces
    <3>3. QED
      BY <3>2
  <2>9. \E x \in ReportPlaces(s0, P0) : x[1] = "under way" /\ x[2] = v
    <3>1. PICK x : x = <<"under way", v>>
      OBVIOUS
    <3>2. {<<"under way", y.vc>> : y \in Taken(s0, P0)} \subseteq ReportPlaces(s0, P0)
      BY <1>5, <2>2, OwnPlaces
    <3>3. x \in {<<"under way", y.vc>> : y \in Taken(s0, P0)}
      BY <2>1, <2>6, <3>1
    <3>4. QED
      BY <3>1, <3>2, <3>3
  <2>10. \A s \in Snapshots : Marked(s)' = Marked(s)
    BY <2>3 DEF Marked
  <2>11. Survey!ReportStep(s0, P0, {<<"collected", v>>})
    BY <1>1, <2>2, <2>3, <2>7, <2>8, <2>10, ReportGoes
  <2>12. Survey!Collect(s0, P0)
    BY <1>1, <2>2, <2>3, <2>9, <2>11 DEF Survey!Collect, Survey!Collected
  <2>13. QED
    BY <1>1, <2>2, <2>12, EveryoneIsProc DEF Surveyed, Survey!Next
<1>8. CASE ViewSnapshots
  BY <1>8, QuietRun
     DEF ViewSnapshots, Menu, recorderVars, ReportsQuiet, MainQuiet, MarksQuiet
<1>9. ASSUME NEW s0 \in Snapshots, CheckViewed(s0) PROVE Surveyed
  <2>1. /\ main.pc = "view" /\ s0 \in main.left /\ Check(s0, "menu")
        /\ UNCHANGED <<clock, net, lost, threads, recorderVars, recorded_snapshots, state_store>>
    BY <1>9 DEF CheckViewed
  <2>2. DOMAIN state_store[s0] # {}
    BY <2>1 DEF SourceInv
  <2>3. ~RecordOwnState /\ ~StoreOwnState
    BY <2>1 DEF RecordOwnState, StoreOwnState
  <2>4. ReportsQuiet /\ MarksQuiet
    BY <2>1, <2>3, MainChange DEF ReportsQuiet, MainQuiet, MarksQuiet, recorderVars
  <2>5. QED
    BY <2>1, <2>2, <2>4, JudgeStep
<1>10. QED
  BY <1>2, <1>3, <1>4, <1>6, <1>7, <1>8, <1>9 DEF Command, MainStep

\* A message arrives or is lost.
LEMMA SurveyArrival ==
    ASSUME TypeOK, OnceInv, SourceInv, [Next]_vars, Arrival \/ Failure
    PROVE  Surveyed
<1>1. ASSUME NEW m \in net, NEW pc, m.type # "STATE", net' = net \ {m},
             threads' = threads \cup {NewThread(m, pc)}, pc \notin {"store", "report"},
             UNCHANGED <<lost, main, local_states, completed, recorded_snapshots, state_store, verdict>>
      PROVE  Surveyed
  BY <1>1, QuietRun DEF NewThread, ReportsQuiet, MainQuiet, MarksQuiet
<1>2. ASSUME NEW m \in net,
             \/ ReceiveDelivery(m) \/ AcceptOrder(m) \/ ReceiveMarker(m)
             \/ ReceiveHandoff(m) \/ ReceiveRunnerMarker(m)
      PROVE  Surveyed
  BY <1>1, <1>2 DEF ReceiveDelivery, AcceptOrder, ReceiveMarker, ReceiveHandoff,
                    ReceiveRunnerMarker, Receive, recorderVars, coordinatorVars
<1>3. ASSUME NEW m \in net, m.type = "STATE"
      PROVE  /\ m.from \in Remote /\ m.from \in Proc /\ m.id \in Snapshots
             /\ m.from \in Marked(m.id)
             /\ HeldBy(m.id, m.from, {}, {}, {m}, {}, {})
             /\ HasCut(m.from, m.id)
  <2> DEFINE p0 == m.from
             s0 == m.id
  <2>1. p0 \in Remote /\ s0 \in Snapshots /\ p0 \in Proc
    BY <1>3, MessageParts DEF TypeOK, OnceInv
  <2>2. m \in StateMsgs(p0, s0)
    BY <1>3 DEF StateMsgs
  <2>3. /\ Committed(p0, s0) /\ StateMsgs(p0, s0) = {m}
        /\ Reporters(p0, s0) = {} /\ Stored(s0, p0) = {}
    BY <2>1, <2>2, StateAlone
  <2>4. Sending(s0, p0) = {} /\ Storing(s0, p0) = {}
    BY <2>3 DEF Reporters, Carries, Sending, Storing
  <2>5. HasCut(p0, s0) /\ Uncut(s0, p0) = {}
    <3>1. \A t \in threads : ~(t.pc = "report" /\ t.msg.to = p0 /\ t.msg.id = s0)
      BY <2>3 DEF Reporters, Carries
    <3>2. QED
      BY <2>1, <2>3, <3>1, CommittedCut
  <2>6. QED
    BY <2>1, <2>3, <2>4, <2>5, CommittedMarked DEF HeldBy, ClocksAt
\* The report goes from the message to the thread that stores it.
<1>4. ASSUME NEW m \in net, ReceiveState(m) PROVE Surveyed
  <2> DEFINE p0 == m.from
             s0 == m.id
             n == NewThread(m, "store")
  <2>1. /\ m.type = "STATE" /\ net' = net \ {m} /\ threads' = threads \cup {n}
        /\ UNCHANGED <<lost, main, local_states, completed, recorded_snapshots, state_store, verdict>>
    BY <1>4 DEF ReceiveState, Receive, recorderVars, coordinatorVars
  <2>2. n.msg = m /\ n.pc = "store"
    BY DEF NewThread
  <2> HIDE DEF n
  <2>3. /\ p0 \in Remote /\ p0 \in Proc /\ s0 \in Snapshots
        /\ HeldBy(s0, p0, {}, {}, {m}, {}, {}) /\ HasCut(p0, s0)
    BY <1>3, <2>1
  <2>4. Concerns(s0, p0)
    BY <2>1, <2>2 DEF Concerns, ClocksAt, Stored, Taken
  <2>5. HeldBy(s0, p0, {}, {}, {}, {n}, {})'
    <3>1. StateMsgs(p0, s0)' = {}
      BY <2>1, <2>3 DEF HeldBy, StateMsgs
    <3>2. Sending(s0, p0)' = {}
      BY <2>1, <2>2, <2>3 DEF HeldBy, Sending
    <3>3. Storing(s0, p0)' = {n}
      BY <2>1, <2>2, <2>3 DEF HeldBy, Storing
    <3>4. ClocksAt(s0, Stored(s0, p0))' = {}
      BY <2>1, <2>3 DEF HeldBy, ClocksAt, Stored
    <3>5. HasCut(p0, s0)'
      BY <2>1, <2>2, <2>3 DEF HasCut
    <3>6. QED
      BY <3>1, <3>2, <3>3, <3>4, <3>5 DEF HeldBy, Uncut
  <2>6. ReportPlaces(s0, p0)' = ReportPlaces(s0, p0)
    <3>1. ReportPlaces(s0, p0) = {<<"under way", m.vc>>}
      BY <2>3, OnePlace
    <3>2. ReportPlaces(s0, p0)' = {<<"under way", n.msg.vc>>}
      BY <2>3, <2>5, OnePlaceNext
    <3>3. QED
      BY <2>2, <3>1, <3>2
  <2>7. \A s \in Snapshots, p \in Proc : ReportPlaces(s, p)' = ReportPlaces(s, p)
    <3>1. OthersStay(s0, p0)
      BY <2>4, OthersAlone
    <3>2. QED
      BY <2>6, <3>1 DEF OthersStay
  <2>8. \A s \in Snapshots : Marked(s)' = Marked(s)
    BY <2>1 DEF Marked
  <2>9. QED
    BY <2>1, <2>7, <2>8, RunStep
<1>5. ASSUME NEW m \in net, Lose(m) PROVE Surveyed
  <2>1. /\ lost < MaxLoss /\ lost' = lost + 1 /\ net' = net \ {m}
        /\ UNCHANGED <<clock, threads, main, local_states, completed, recorded_snapshots, state_store, verdict>>
    BY <1>5 DEF Lose, recorderVars, coordinatorVars
  <2>2. \A s \in Snapshots : Marked(s)' = Marked(s)
    BY <2>1 DEF Marked
  <2>3. CASE m.type # "STATE"
    <3>1. ReportsQuiet
      BY <2>1, <2>3 DEF ReportsQuiet, MainQuiet
    <3>2. \A s \in Snapshots, p \in Proc : ReportPlaces(s, p)' = ReportPlaces(s, p)
      BY <3>1, QuietStays
    <3> DEFINE R == [s \in Snapshots |-> [p \in Proc |-> ReportPlaces(s, p)]]
               M == [s \in Snapshots |-> Marked(s)]
    <3>3. R' = R /\ M' = M
      BY <2>2, <3>2
    <3>4. Survey!Lose
      BY <2>1, <3>3 DEF Survey!Lose
    <3>5. QED
      BY <3>4 DEF Surveyed, Survey!Next
  <2>4. CASE m.type = "STATE"
    <3> DEFINE p0 == m.from
               s0 == m.id
    <3>1. /\ p0 \in Remote /\ p0 \in Proc /\ s0 \in Snapshots /\ p0 \in Marked(s0)
          /\ HeldBy(s0, p0, {}, {}, {m}, {}, {}) /\ HasCut(p0, s0)
      BY <1>3, <2>4
    <3>2. Concerns(s0, p0)
      BY <2>1 DEF Concerns, ClocksAt, Stored, Taken
    <3>3. HeldBy(s0, p0, {}, {}, {}, {}, {})'
      <4>1. StateMsgs(p0, s0)' = {}
        BY <2>1, <3>1 DEF HeldBy, StateMsgs
      <4>2. Sending(s0, p0)' = {} /\ Storing(s0, p0)' = {}
        BY <2>1, <3>1 DEF HeldBy, Sending, Storing
      <4>3. ClocksAt(s0, Stored(s0, p0))' = {}
        BY <2>1, <3>1 DEF HeldBy, ClocksAt, Stored
      <4>4. HasCut(p0, s0)'
        BY <2>1, <3>1 DEF HasCut
      <4>5. QED
        BY <4>1, <4>2, <4>3, <4>4 DEF HeldBy, Uncut
    <3>4. ReportPlaces(s0, p0) = {<<"under way", m.vc>>} /\ ReportPlaces(s0, p0)' = {}
      BY <3>1, <3>3, OnePlace, OnePlaceNext
    <3>5. Survey!ReportStep(s0, p0, {})
      BY <2>1, <2>2, <3>1, <3>2, <3>4, OthersAlone, ReportGoes
    <3>6. \E x \in ReportPlaces(s0, p0) : x[1] = "under way"
      <4>1. PICK x : x = <<"under way", m.vc>>
        OBVIOUS
      <4>2. x[1] = "under way" /\ x \in ReportPlaces(s0, p0)
        BY <3>4, <4>1
      <4>3. QED
        BY <4>2
    <3>7. Survey!Lose
      <4>1. p0 # P0
        BY <3>1, TopologyAssumption DEF Remote
      <4>2. QED
        BY <2>1, <3>1, <3>5, <3>6, <4>1, EveryoneIsProc DEF Survey!Lose, Survey!Lost
    <3>8. QED
      BY <3>7 DEF Surveyed, Survey!Next
  <2>5. QED
    BY <2>3, <2>4
<1>6. QED
  BY <1>2, <1>4, <1>5 DEF Arrival, Failure

\* A thread of P0 takes a step: the report goes into the store, or is judged.
LEMMA SurveyCoordinator ==
    ASSUME TypeOK, OnceInv, SourceInv, [Next]_vars, NEW t \in threads, CoordinatorStep(t)
    PROVE  Surveyed
<1> USE DEF recorderVars, coordinatorVars
<1>1. Remote \subseteq Proc
  BY TopologyAssumption DEF Remote
<1>2. CASE ConfirmDelivery(t) \/ CountStates(t)
  <2>1. /\ UNCHANGED <<net, lost, main, local_states, completed, recorded_snapshots, state_store, verdict>>
        /\ t.pc \notin {"store", "report"}
        /\ threads' = threads \ {t} \/ Goto(t, "verify")
    BY <1>2 DEF ConfirmDelivery, CountStates, Finish
  <2>2. \A u \in (threads' \ threads) \cup (threads \ threads') : u.pc \notin {"store", "report"}
    BY <2>1, ThreadParts DEF Goto
  <2>3. QED
    BY <2>1, <2>2, QuietRun DEF ReportsQuiet, MainQuiet, MarksQuiet
<1>3. CASE HandleState(t)
  <2> DEFINE p0 == t.msg.from
             s0 == t.msg.id
             u == [t EXCEPT !.pc = "count"]
  <2>1. u.msg = t.msg /\ u.pc = "count"
    BY ThreadParts
  <2> HIDE DEF u
  <2>0. PICK v : v = t.msg.vc
    OBVIOUS
  <2>2. /\ t.pc = "store" /\ threads' = (threads \ {t}) \cup {u}
        /\ UNCHANGED <<clock, net, lost, main, local_states, completed, recorded_snapshots, verdict>>
        /\ state_store' = [state_store EXCEPT ![s0] = Put(@, p0, v)]
    BY <1>3, <2>0 DEF HandleState, Goto, u
  <2>3. s0 \in Snapshots /\ p0 \in Remote /\ p0 \in Proc /\ v \in Clock
    BY <1>1, <2>0, <2>2, HandlerOf, ThreadParts, MessageParts DEF OnceInv, StatePc
  <2>4. Carries(t, p0, s0)
    BY <2>2 DEF Carries
  <2>5. /\ Committed(p0, s0) /\ Reporters(p0, s0) = {t}
        /\ StateMsgs(p0, s0) = {} /\ Stored(s0, p0) = {}
    BY <2>3, <2>4, CarriedAlone
  <2>6. Sending(s0, p0) = {} /\ Storing(s0, p0) = {t}
    BY <2>2, <2>5 DEF Reporters, Carries, Sending, Storing
  <2>7. HasCut(p0, s0) /\ Uncut(s0, p0) = {}
    <3>1. \A w \in threads : ~(w.pc = "report" /\ w.msg.to = p0 /\ w.msg.id = s0)
      BY <2>2, <2>5 DEF Reporters, Carries
    <3>2. QED
      BY <2>3, <2>5, <3>1, CommittedCut
  <2>8. ReportPlaces(s0, p0) = {<<"under way", v>>}
    <3>1. HeldBy(s0, p0, {}, {}, {}, {t}, {})
      BY <2>5, <2>6, <2>7 DEF HeldBy, ClocksAt
    <3>2. QED
      BY <2>0, <2>3, <3>1, OnePlace
  <2>9. /\ ClocksAt(s0, Stored(s0, p0))' = {v}
        /\ \A s \in Snapshots, p \in Proc : s # s0 \/ p # p0 =>
              ClocksAt(s, Stored(s, p))' = ClocksAt(s, Stored(s, p))
    BY <2>2, <2>3, StoreSets
  <2>10. ReportPlaces(s0, p0)' = {<<"collected", v>>}
    <3>1. Sending(s0, p0)' = {} /\ Storing(s0, p0)' = {} /\ StateMsgs(p0, s0)' = {}
      BY <2>1, <2>2, <2>5, <2>6 DEF Sending, Storing, StateMsgs
    <3>2. HasCut(p0, s0)'
      <4>1. P0 # p0
        BY <2>3, TopologyAssumption DEF Remote
      <4>2. QED
        BY <2>1, <2>2, <2>7, <4>1 DEF HasCut
    <3>3. HeldBy(s0, p0, {}, {}, {}, {}, {v})'
      BY <2>9, <3>1, <3>2 DEF HeldBy, Uncut
    <3>4. QED
      BY <2>3, <3>3, OnePlaceNext
  <2>11. OthersStay(s0, p0)
    <3>1. Concerns(s0, p0)
      BY <2>1, <2>2, <2>9 DEF Concerns, Taken
    <3>2. QED
      BY <3>1, OthersAlone
  <2>12. p0 \in Marked(s0) /\ \A s \in Snapshots : Marked(s)' = Marked(s)
    <3>1. p0 \in Marked(s0)
      BY <2>3, <2>5, CommittedMarked
    <3>2. QED
      BY <2>2, <3>1 DEF Marked
  <2>13. Survey!ReportStep(s0, p0, {<<"collected", v>>})
    BY <2>2, <2>3, <2>10, <2>11, <2>12, ReportGoes
  <2>14. \E x \in ReportPlaces(s0, p0) : x[1] = "under way" /\ x[2] = v
    <3>1. PICK x : x = <<"under way", v>>
      OBVIOUS
    <3>2. x[1] = "under way" /\ x[2] = v
      BY <3>1
    <3>3. QED
      BY <2>8, <3>1, <3>2
  <2>15. Survey!Collect(s0, p0)
    BY <2>2, <2>3, <2>13, <2>14 DEF Survey!Collect, Survey!Collected
  <2>16. QED
    BY <2>3, <2>15, EveryoneIsProc DEF Surveyed, Survey!Next
<1>4. CASE CheckSnapshotConsistency(t)
  <2> DEFINE s0 == t.msg.id
  <2>1. s0 \in Snapshots /\ AllCollected(state_store[s0])
    BY <1>4, HandlerOf DEF CheckSnapshotConsistency, StatePc, SourceInv
  <2>2. /\ UNCHANGED <<clock, net, lost, main, local_states, completed, recorded_snapshots, state_store>>
        /\ threads' = threads \ {t} /\ t.pc = "verify" /\ Check(s0, "collected")
    BY <1>4 DEF CheckSnapshotConsistency, Finish
  <2>3. ReportsQuiet /\ MarksQuiet
    BY <2>2 DEF ReportsQuiet, MainQuiet, MarksQuiet
  <2>4. QED
    BY <2>1, <2>2, <2>3, JudgeStep
<1>5. QED
  BY <1>2, <1>3, <1>4 DEF CoordinatorStep

\* A thread of a restaurant takes a step: the marker has come, the clock is
\* read, or the report is sent.
LEMMA SurveyRestaurant ==
    ASSUME TypeOK, OnceInv, SourceInv, [Next]_vars, NEW t \in threads, RestaurantStep(t)
    PROVE  Surveyed
<1> USE DEF coordinatorVars
<1>1. /\ Restaurants \subseteq Remote /\ Restaurants \subseteq Recorders /\ Remote \subseteq Proc
      /\ \A r \in Restaurants : r \notin Runners /\ r # P0
  BY TopologyAssumption DEF Remote, Recorders
<1>2. ASSUME NEW pc, Goto(t, pc), {t.pc, pc} \cap {"store", "report"} = {}
      PROVE  \A u \in (threads' \ threads) \cup (threads \ threads') : u.pc \notin {"store", "report"}
  BY <1>2, ThreadParts DEF Goto
<1>3. ASSUME threads' = threads \ {t} \/ \E pc : Goto(t, pc) /\ pc \notin {"store", "report"},
             t.pc \notin {"store", "report"},
             \A m \in (net' \ net) \cup (net \ net') : m.type # "STATE",
             UNCHANGED <<lost, main, local_states, completed, recorded_snapshots, state_store, verdict>>
      PROVE  Surveyed
  <2>1. \A u \in (threads' \ threads) \cup (threads \ threads') : u.pc \notin {"store", "report"}
    BY <1>2, <1>3
  <2>2. QED
    BY <1>3, <2>1, QuietRun DEF ReportsQuiet, MainQuiet, MarksQuiet
<1>4. CASE HandleOrder(t) \/ OrderConfirmed(t) \/ PreparingFood(t) \/ FoodReady(t)
           \/ NothingToComplete(t) \/ ReleaseLock(t)
  <2>1. /\ threads' = threads \ {t} \/ \E pc : Goto(t, pc) /\ pc \notin {"store", "report"}
        /\ t.pc \notin {"store", "report"}
        /\ UNCHANGED <<net, lost, main, local_states, completed, recorded_snapshots, state_store, verdict>>
    BY <1>4 DEF HandleOrder, OrderConfirmed, PreparingFood, FoodReady, OrderEvent,
                NothingToComplete, ReleaseLock, Finish, recorderVars
  <2>2. QED
    BY <1>3, <2>1
<1>5. CASE HandToRunner(t) \/ ForwardMarker(t)
  <2>1. net \subseteq net' /\ \A m \in net' \ net : m.type # "STATE"
    BY <1>5 DEF HandToRunner, ForwardMarker, Msg
  <2>2. /\ threads' = threads \ {t} \/ \E pc : Goto(t, pc) /\ pc \notin {"store", "report"}
        /\ t.pc \notin {"store", "report"}
        /\ UNCHANGED <<lost, main, local_states, completed, recorded_snapshots, state_store, verdict>>
    BY <1>5 DEF HandToRunner, ForwardMarker, Finish, recorderVars
  <2>3. QED
    BY <1>3, <2>1, <2>2
<1>6. CASE RecordMarker(t) /\ LaterMarker(t)
  BY <1>3, <1>6 DEF RecordMarker, LaterMarker
<1>7. CASE RecordMarker(t) /\ FirstMarker(t)
  <2> DEFINE p0 == t.msg.to
             s0 == t.msg.id
  <2>1. /\ p0 \in Restaurants /\ p0 \in Recorders /\ s0 \in Snapshots /\ p0 \in Proc /\ p0 # P0
        /\ p0 \notin Runners
    BY <1>1, <1>7, HandlerOf DEF RecordMarker
  <2>2. /\ t.pc = "record" /\ s0 \notin local_states[p0] /\ Goto(t, "forward")
        /\ local_states' = [local_states EXCEPT ![p0] = @ \cup {s0}]
        /\ completed' = [completed EXCEPT ![p0] = @ \ {s0}]
        /\ UNCHANGED <<net, lost, main, recorded_snapshots, state_store, verdict>>
    BY <1>7 DEF RecordMarker, FirstMarker
  <2>3. \A r \in Restaurants : completed'[r] = completed[r]
    <3>1. s0 \notin completed[p0]
      BY <2>1, <2>2 DEF OnceInv
    <3>2. \A r \in Recorders : completed'[r] = IF r = p0 THEN completed[p0] \ {s0}
                                                      ELSE completed[r]
      <4> HIDE DEF p0, s0
      <4>1. QED
        BY <2>1, <2>2 DEF TypeOK
    <3>3. completed[p0] \ {s0} = completed[p0]
      BY <3>1
    <3> HIDE DEF p0, s0
    <3>4. QED
      BY <1>1, <2>1, <3>2, <3>3
  <2>4. ReportsQuiet
    <3>1. \A u \in (threads' \ threads) \cup (threads \ threads') : u.pc \notin {"store", "report"}
      BY <1>2, <2>2
    <3>2. QED
      BY <2>2, <2>3, <3>1 DEF ReportsQuiet, MainQuiet
  <2>5. \A p \in Recorders : local_states'[p] = IF p = p0 THEN local_states[p0] \cup {s0}
                                                ELSE local_states[p]
    BY <2>1, <2>2 DEF TypeOK
  <2>6. p0 \notin Marked(s0) /\ \A s : Marked(s)' = IF s = s0 THEN Marked(s) \cup {p0} ELSE Marked(s)
    BY <2>1, <2>2, <2>5 DEF Marked
  <2>7. \A s \in Snapshots, p \in Proc : ReportPlaces(s, p)' = ReportPlaces(s, p)
    BY <2>4, QuietStays
  <2>8. Survey!Sources(p0) \cap Marked(s0) # {}
    BY <2>2 DEF SourceInv, Sourced
  <2> HIDE DEF p0, s0
  <2>9. QED
    BY <2>1, <2>2, <2>6, <2>7, <2>8, MarkStep
<1>8. CASE CompleteSnapshot(t)
  <2> DEFINE p0 == t.msg.to
             s0 == t.msg.id
  <2>1. PICK v : v = clock[p0]
    OBVIOUS
  <2> DEFINE u == [t EXCEPT !.pc = "report", !.saved = v]
  <2>2. u.msg = t.msg /\ u.pc = "report" /\ u.saved = v
    BY ThreadParts
  <2> HIDE DEF u
  <2>3. /\ t.pc = "close" /\ s0 \notin completed[p0]
        /\ threads' = (threads \ {t}) \cup {u}
        /\ completed' = [completed EXCEPT ![p0] = @ \cup {s0}]
        /\ UNCHANGED <<clock, net, lost, main, local_states, recorded_snapshots, state_store, verdict>>
    BY <1>8, <2>1 DEF CompleteSnapshot, Keep, u
  <2>4. /\ p0 \in Restaurants /\ p0 \in Remote /\ p0 \in Recorders /\ p0 \in Proc /\ p0 # P0
        /\ p0 \notin Runners /\ s0 \in Snapshots /\ s0 \in local_states[p0]
    BY <1>1, <2>3, HandlerOf DEF OnceInv, Opened
  <2>5. /\ s0 \in completed'[p0]
        /\ \A s \in Snapshots, p \in Restaurants : s # s0 \/ p # p0 =>
              (s \in completed'[p] <=> s \in completed[p])
    BY <1>1, <2>3, <2>4 DEF TypeOK
  <2>6. ~Committed(p0, s0)
    BY <2>3, <2>4 DEF Committed
  <2>7. HeldBy(s0, p0, {p0}, {}, {}, {}, {})
    BY <2>4, <2>6, NotYet
  <2>8. HeldBy(s0, p0, {}, {u}, {}, {}, {})'
    <3>1. Sending(s0, p0)' = {u}
      BY <2>2, <2>3, <2>4, <2>7 DEF HeldBy, Sending
    <3>2. StateMsgs(p0, s0)' = {} /\ Storing(s0, p0)' = {} /\ ClocksAt(s0, Stored(s0, p0))' = {}
      BY <2>2, <2>3, <2>7 DEF HeldBy, StateMsgs, Storing, ClocksAt, Stored
    <3>3. HasCut(p0, s0)'
      BY <2>4, <2>5 DEF HasCut
    <3>4. QED
      BY <3>1, <3>2, <3>3 DEF HeldBy, Uncut
  <2>9. ReportPlaces(s0, p0) = {<<"none">>}
    BY <2>4, <2>7, OnePlace
  <2>10. ReportPlaces(s0, p0)' = {<<"under way", v>>}
    <3>1. ReportPlaces(s0, p0)' = {<<"under way", u.saved>>}
      BY <2>4, <2>8, OnePlaceNext
    <3>2. QED
      BY <2>2, <3>1
  <2>11. OthersStay(s0, p0)
    <3>1. Concerns(s0, p0)
      BY <2>2, <2>3, <2>5 DEF Concerns, ClocksAt, Stored, Taken
    <3>2. QED
      BY <3>1, OthersAlone
  <2>12. p0 \in Marked(s0) /\ \A s \in Snapshots : Marked(s)' = Marked(s)
    BY <2>3, <2>4 DEF Marked
  <2>13. Survey!ReportStep(s0, p0, {<<"under way", v>>})
    BY <2>3, <2>4, <2>10, <2>11, <2>12, ReportGoes
  <2>14. Survey!Cut(s0, p0)
    BY <2>1, <2>3, <2>4, <2>9, <2>13 DEF Survey!Cut, Survey!None, Survey!UnderWay
  <2>15. QED
    BY <2>4, <2>14, EveryoneIsProc DEF Surveyed, Survey!Next
<1>9. CASE SendState(t)
  <2> DEFINE p0 == t.msg.to
             s0 == t.msg.id
  <2> DEFINE u == [t EXCEPT !.pc = "release"]
  <2>0. u.msg = t.msg /\ u.pc = "release"
    BY ThreadParts
  <2> HIDE DEF u
  <2>1. /\ t.pc = "report" /\ p0 \in Restaurants /\ threads' = (threads \ {t}) \cup {u}
        /\ UNCHANGED <<lost, main, local_states, completed, recorded_snapshots, state_store, verdict>>
    BY <1>9 DEF SendState, Goto, recorderVars, u
  <2>2. PICK n : net' = net \cup {n} /\ n.type = "STATE" /\ n.from = p0 /\ n.id = s0 /\ n.vc = t.saved
    <3>1. PICK c : net' = net \cup {Msg("STATE", p0, P0, c, s0, t.saved)}
      BY <1>9 DEF SendState
    <3> DEFINE n == Msg("STATE", p0, P0, c, s0, t.saved)
    <3>2. n.type = "STATE" /\ n.from = p0 /\ n.id = s0 /\ n.vc = t.saved
      BY DEF Msg
    <3>3. QED
      BY <3>1, <3>2
  <2>3. p0 \in Remote /\ p0 \in Proc /\ p0 # P0 /\ p0 \notin Runners /\ s0 \in Snapshots
    BY <1>1, <2>1, HandlerOf
  <2>4. Carries(t, p0, s0)
    BY <2>1 DEF Carries
  <2>5. /\ Committed(p0, s0) /\ Reporters(p0, s0) = {t}
        /\ StateMsgs(p0, s0) = {} /\ Stored(s0, p0) = {}
    BY <2>3, <2>4, CarriedAlone
  <2>6. HasCut(p0, s0) /\ Uncut(s0, p0) = {}
    BY <2>3, <2>5, CommittedCut
  <2>7. Sending(s0, p0) = {t} /\ Storing(s0, p0) = {}
    BY <2>1, <2>5 DEF Reporters, Carries, Sending, Storing
  <2>8. HeldBy(s0, p0, {}, {t}, {}, {}, {})
    BY <2>5, <2>6, <2>7 DEF HeldBy, ClocksAt
  <2>9. HeldBy(s0, p0, {}, {}, {n}, {}, {})'
    <3>1. StateMsgs(p0, s0)' = {n}
      BY <2>2, <2>5 DEF StateMsgs
    <3>2. Sending(s0, p0)' = {} /\ Storing(s0, p0)' = {}
      BY <2>0, <2>1, <2>7 DEF Sending, Storing
    <3>3. ClocksAt(s0, Stored(s0, p0))' = {}
      BY <2>1, <2>5 DEF ClocksAt, Stored
    <3>4. HasCut(p0, s0)'
      BY <2>1, <2>3, <2>6 DEF HasCut
    <3>5. QED
      BY <3>1, <3>2, <3>3, <3>4 DEF HeldBy, Uncut
  <2>10. ReportPlaces(s0, p0)' = ReportPlaces(s0, p0)
    <3>1. ReportPlaces(s0, p0) = {<<"under way", t.saved>>}
      BY <2>3, <2>8, OnePlace
    <3>2. ReportPlaces(s0, p0)' = {<<"under way", n.vc>>}
      BY <2>3, <2>9, OnePlaceNext
    <3>3. QED
      BY <2>2, <3>1, <3>2
  <2>11. \A s \in Snapshots, p \in Proc : ReportPlaces(s, p)' = ReportPlaces(s, p)
    <3>1. Concerns(s0, p0)
      BY <2>0, <2>1, <2>2 DEF Concerns, ClocksAt, Stored, Taken
    <3>2. OthersStay(s0, p0)
      BY <3>1, OthersAlone
    <3>3. QED
      BY <2>10, <3>2 DEF OthersStay
  <2>12. \A s \in Snapshots : Marked(s)' = Marked(s)
    BY <2>1 DEF Marked
  <2>13. QED
    BY <2>1, <2>11, <2>12, RunStep
<1>10. QED
  BY <1>4, <1>5, <1>6, <1>7, <1>8, <1>9 DEF RestaurantStep, RecordMarker

\* A thread of a runner takes a step: the marker has come, or the report is
\* sent with the clock of that moment.
LEMMA SurveyRunner ==
    ASSUME TypeOK, OnceInv, SourceInv, [Next]_vars, NEW t \in threads, RunnerStep(t)
    PROVE  Surveyed
<1> USE DEF coordinatorVars, recorderVars
<1>1. /\ Runners \subseteq Remote /\ Remote \subseteq Proc
      /\ \A f \in Runners : f \notin Restaurants /\ f # P0 /\ f \notin Recorders
  BY TopologyAssumption DEF Remote, Recorders
<1>2. ASSUME threads' = threads \ {t} \/ \E pc : Goto(t, pc) /\ pc \notin {"store", "report"},
             t.pc \notin {"store", "report"},
             net \subseteq net' /\ \A m \in net' \ net : m.type # "STATE",
             UNCHANGED <<lost, main, local_states, completed, recorded_snapshots, state_store, verdict>>
      PROVE  Surveyed
  <2>1. \A u \in (threads' \ threads) \cup (threads \ threads') : u.pc \notin {"store", "report"}
    BY <1>2, ThreadParts DEF Goto
  <2>2. QED
    BY <1>2, <2>1, QuietRun DEF ReportsQuiet, MainQuiet, MarksQuiet
<1>3. CASE PickedUp(t) \/ InTransit(t) \/ Delivered(t)
  BY <1>2, <1>3 DEF PickedUp, InTransit, Delivered, DeliveryEvent
<1>4. CASE SendDelivery(t)
  BY <1>2, <1>4 DEF SendDelivery, Msg, Finish
<1>5. CASE CheckMarker(t) /\ DuplicateMarker(t)
  BY <1>2, <1>5 DEF CheckMarker, DuplicateMarker, Finish
<1>6. CASE CheckMarker(t) /\ StampState(t)
  <2> DEFINE p0 == t.msg.to
             s0 == t.msg.id
             u == [t EXCEPT !.pc = "report", !.saved = clock'[p0]]
  <2>1. u.msg = t.msg /\ u.pc = "report"
    BY ThreadParts
  <2> HIDE DEF u
  <2>2. PICK w : w.msg = t.msg /\ w.pc = "report" /\ threads' = (threads \ {t}) \cup {w}
    BY <1>6, <2>1 DEF CheckMarker, StampState, Keep, u
  <2>3. /\ t.pc = "check" /\ s0 \notin recorded_snapshots[p0]
        /\ recorded_snapshots' = [recorded_snapshots EXCEPT ![p0] = @ \cup {s0}]
        /\ UNCHANGED <<net, lost, main, local_states, completed, state_store, verdict>>
    BY <1>6 DEF CheckMarker, StampState
  <2>4. /\ p0 \in Runners /\ p0 \in Remote /\ p0 \in Proc /\ p0 # P0 /\ p0 \notin Restaurants
        /\ p0 \notin Recorders /\ s0 \in Snapshots
    BY <1>1, <2>3, HandlerOf
  <2>5. \A f \in Runners : recorded_snapshots'[f] =
           IF f = p0 THEN recorded_snapshots[p0] \cup {s0} ELSE recorded_snapshots[f]
    BY <2>3, <2>4 DEF TypeOK
  <2>6. ~Committed(p0, s0)
    BY <2>3, <2>4 DEF Committed
  <2>7. HeldBy(s0, p0, {p0}, {}, {}, {}, {})
    BY <2>4, <2>6, NotYet
  <2>8. HeldBy(s0, p0, {p0}, {}, {}, {}, {})'
    <3>1. Sending(s0, p0)' = {} /\ Storing(s0, p0)' = {}
      BY <2>2, <2>3, <2>4, <2>7 DEF HeldBy, Sending, Storing
    <3>2. StateMsgs(p0, s0)' = {} /\ ClocksAt(s0, Stored(s0, p0))' = {}
      BY <2>3, <2>7 DEF HeldBy, StateMsgs, ClocksAt, Stored
    <3>3. ~HasCut(p0, s0)'
      BY <2>2, <2>4 DEF HasCut
    <3>4. QED
      BY <3>1, <3>2, <3>3 DEF HeldBy, Uncut
  <2>9. ReportPlaces(s0, p0)' = ReportPlaces(s0, p0)
    <3>1. ReportPlaces(s0, p0) = {<<"none">>}
      BY <2>4, <2>7, OnePlace
    <3>2. ReportPlaces(s0, p0)' = {<<"none">>}
      BY <2>4, <2>8, OnePlaceNext
    <3>3. QED
      BY <3>1, <3>2
  <2>10. \A s \in Snapshots, p \in Proc : ReportPlaces(s, p)' = ReportPlaces(s, p)
    <3>1. Concerns(s0, p0)
      BY <2>2, <2>3, <2>5 DEF Concerns, ClocksAt, Stored, Taken
    <3>2. OthersStay(s0, p0)
      BY <3>1, OthersAlone
    <3>3. QED
      BY <2>9, <3>2 DEF OthersStay
  <2>11. p0 \notin Marked(s0) /\ \A s : Marked(s)' = IF s = s0 THEN Marked(s) \cup {p0} ELSE Marked(s)
    BY <2>3, <2>4, <2>5 DEF Marked
  <2>12. Survey!Sources(p0) \cap Marked(s0) # {}
    BY <2>3 DEF SourceInv, Sourced
  <2> HIDE DEF p0, s0
  <2>13. QED
    BY <2>3, <2>4, <2>10, <2>11, <2>12, MarkStep
<1>7. CASE ReportState(t)
  <2> DEFINE p0 == t.msg.to
             s0 == t.msg.id
  <2>1. PICK v : v = clock[p0]
    OBVIOUS
  <2>2. /\ t.pc = "report" /\ p0 \in Runners /\ threads' = threads \ {t}
        /\ UNCHANGED <<clock, lost, main, local_states, completed, recorded_snapshots, state_store, verdict>>
    BY <1>7 DEF ReportState, Finish
  <2>3. PICK n : net' = net \cup {n} /\ n.type = "STATE" /\ n.from = p0 /\ n.id = s0 /\ n.vc = v
    <3> DEFINE n == Msg("STATE", p0, P0, t.saved, s0, v)
    <3>1. n.type = "STATE" /\ n.from = p0 /\ n.id = s0 /\ n.vc = v
      BY DEF Msg
    <3>2. QED
      BY <1>7, <2>1, <3>1 DEF ReportState
  <2>4. p0 \in Remote /\ p0 \in Proc /\ p0 # P0 /\ p0 \notin Restaurants /\ s0 \in Snapshots
    BY <1>1, <2>2, HandlerOf
  <2>5. Carries(t, p0, s0)
    BY <2>2 DEF Carries
  <2>6. /\ Committed(p0, s0) /\ Reporters(p0, s0) = {t}
        /\ StateMsgs(p0, s0) = {} /\ Stored(s0, p0) = {}
    BY <2>4, <2>5, CarriedAlone
  <2>7. Sending(s0, p0) = {} /\ Storing(s0, p0) = {}
    BY <2>2, <2>4, <2>6 DEF Reporters, Carries, Sending, Storing
  <2>8. HeldBy(s0, p0, {p0}, {}, {}, {}, {})
    <3>1. ~HasCut(p0, s0)
      BY <2>2, <2>4 DEF HasCut
    <3>2. QED
      BY <2>6, <2>7, <3>1 DEF HeldBy, Uncut, ClocksAt
  <2>9. HeldBy(s0, p0, {}, {}, {n}, {}, {})'
    <3>1. StateMsgs(p0, s0)' = {n}
      BY <2>3, <2>6 DEF StateMsgs
    <3>2. Sending(s0, p0)' = {} /\ Storing(s0, p0)' = {} /\ ClocksAt(s0, Stored(s0, p0))' = {}
      BY <2>2, <2>8 DEF HeldBy, Sending, Storing, ClocksAt, Stored
    <3>3. HasCut(p0, s0)'
      <4>1. \A w \in threads' : ~(w.pc = "report" /\ w.msg.to = p0 /\ w.msg.id = s0)
        BY <2>2, <2>6 DEF Reporters, Carries
      <4>2. s0 \in recorded_snapshots'[p0]
        BY <2>2, <2>6 DEF Committed
      <4>3. QED
        BY <2>2, <4>1, <4>2 DEF HasCut
    <3>4. QED
      BY <3>1, <3>2, <3>3 DEF HeldBy, Uncut
  <2>10. ReportPlaces(s0, p0) = {<<"none">>}
    BY <2>4, <2>8, OnePlace
  <2>11. ReportPlaces(s0, p0)' = {<<"under way", v>>}
    <3>1. ReportPlaces(s0, p0)' = {<<"under way", n.vc>>}
      BY <2>4, <2>9, OnePlaceNext
    <3>2. QED
      BY <2>3, <3>1
  <2>12. OthersStay(s0, p0)
    <3>1. Concerns(s0, p0)
      BY <2>2, <2>3 DEF Concerns, ClocksAt, Stored, Taken
    <3>2. QED
      BY <3>1, OthersAlone
  <2>13. p0 \in Marked(s0) /\ \A s \in Snapshots : Marked(s)' = Marked(s)
    <3>1. p0 \in Marked(s0)
      BY <2>4, <2>6, CommittedMarked
    <3>2. QED
      BY <2>2, <3>1 DEF Marked
  <2>14. Survey!ReportStep(s0, p0, {<<"under way", v>>})
    BY <2>2, <2>4, <2>11, <2>12, <2>13, ReportGoes
  <2>15. Survey!Cut(s0, p0)
    BY <2>1, <2>2, <2>4, <2>10, <2>14 DEF Survey!Cut, Survey!None, Survey!UnderWay
  <2>16. QED
    BY <2>4, <2>15, EveryoneIsProc DEF Surveyed, Survey!Next
<1>8. QED
  BY <1>3, <1>4, <1>5, <1>6, <1>7 DEF RunnerStep, CheckMarker

\* The programs start before any marker.
LEMMA SurveyInit == Init => Survey!Init /\ SourceInv
<1> SUFFICES ASSUME Init PROVE Survey!Init /\ SourceInv
  OBVIOUS
<1>1. SourceInv
  BY DEF Init, Menu, SourceInv
<1>2. \A s \in Snapshots : Marked(s) = {}
  BY DEF Init, Marked
<1>3. ASSUME NEW s \in Snapshots, NEW p \in Proc
      PROVE  ReportPlaces(s, p) = {<<"none">>}
  <2>1. Taken(s, p) = {} /\ ~HasCut(p, s)
    BY <1>3, Roles DEF Init, Menu, HasCut, Taken
  <2>2. /\ Uncut(s, p) = {p} /\ Sending(s, p) = {} /\ StateMsgs(p, s) = {}
        /\ Storing(s, p) = {} /\ ClocksAt(s, Stored(s, p)) = {}
    BY <1>3, <2>1 DEF Init, Uncut, Sending, StateMsgs, Storing, ClocksAt, Stored
  <2>3. ReportPlaces(s, p) =
           PlacesFrom({p}, {}, {}, {}, {}) \cup {<<"under way", y.vc>> : y \in {}}
    BY <2>1, <2>2, AllPlaces
  <2>4. QED
    BY <2>3, OneReport
<1>4. Survey!Init
  BY <1>2, <1>3, EveryoneIsProc DEF Survey!Init, Survey!None, Init, ZeroClock
<1>5. QED
  BY <1>1, <1>4

\* The system implements SnapshotWay: whatever handlers, triggers and lost
\* messages interleave, a report follows the marker, is made and collected
\* once, is judged as a whole only with all the others, and for the menu by
\* what has been collected at the moment.
THEOREM SnapshotWayImplemented == Spec => SnapshotsOnTheirWay
<1>1. TypeOK /\ OnceInv /\ SourceInv /\ [Next]_vars => [Survey!Next]_(Survey!vars)
  <2> SUFFICES ASSUME TypeOK, OnceInv, SourceInv, [Next]_vars PROVE Surveyed
    BY DEF Surveyed
  <2>1. CASE UNCHANGED vars
    <3>1. ReportsQuiet /\ MarksQuiet /\ UNCHANGED <<verdict, lost>>
      BY <2>1 DEF vars, recorderVars, coordinatorVars, ReportsQuiet, MainQuiet, MarksQuiet
    <3>2. QED
      BY <3>1, QuietRun
  <2>2. CASE Next
    BY <2>2, SurveyMain, SurveyArrival, SurveyCoordinator, SurveyRestaurant, SurveyRunner
       DEF Next, HandlerStep
  <2>3. QED
    BY <2>1, <2>2
<1>2. TypeOK /\ OnceInv /\ SourceInv /\ [Next]_vars => SourceInv'
  BY SourceNext
<1>3. QED
  BY <1>1, <1>2, SurveyInit, TypeCorrect, OnceInvariant, PTL
     DEF Spec, SnapshotsOnTheirWay, Survey!Spec

=============================================================================
