---------------------------- MODULE Coordinator ----------------------------
(***************************************************************************)
(* P0 (src/src/p0.py): its main thread, which dispatches orders and        *)
(* triggers snapshots from the menu or the automated flow, and the threads *)
(* that handle DELIVERY and STATE messages.                                *)
(***************************************************************************)
EXTENDS SystemState

Menu == [pc |-> "menu"]

MainState ==
    {Menu} \cup [pc : {"dispatch"}, id : Orders, to : Restaurants]
           \cup [pc : {"record"}, id : Snapshots]
           \cup [pc : {"store"}, id : Snapshots, vc : Clock]
           \cup [pc : {"view"}, left : SUBSET Snapshots]

----------------------------------------------------------------------------
(* send_order                                                              *)

\* Orders are calls of send_order: each is created once, which bounds their
\* number.  (The identifiers in the messages may repeat, see README.md.)
CreateOrder(o, r) ==
    /\ main = Menu
    /\ o \notin orders_store
    /\ LocalEvent(P0)
    /\ orders_store' = orders_store \cup {o}
    /\ main' = [pc |-> "dispatch", id |-> o, to |-> r]
    /\ UNCHANGED <<net, lost, threads, recorderVars, recorded_snapshots,
                   triggered, state_store, verdict>>

DispatchOrder ==
    /\ main.pc = "dispatch"
    /\ LocalEvent(P0)
    /\ net' = net \cup {Msg("ORDER", P0, main.to, clock'[P0], main.id, ZeroClock)}
    /\ main' = Menu
    /\ UNCHANGED <<lost, threads, recorderVars, recorded_snapshots,
                   orders_store, triggered, state_store, verdict>>

----------------------------------------------------------------------------
(* trigger_snapshot and initiate_snapshot                                  *)

\* The section under snapshot.lock, the send_event and the marker sends.  No
\* other thread of P0 reads what the section writes, so they are one step.
\* P0 still records its runners' channels afterwards, so it sends no STATE.
InitiateSnapshot(s) ==
    /\ main = Menu
    /\ triggered[s] < MaxTriggers
    /\ triggered' = [triggered EXCEPT ![s] = @ + 1]
    /\ local_states' = [local_states EXCEPT ![P0] = @ \cup {s}]
    /\ channel_states' = [channel_states EXCEPT ![P0][s] = {}]
    /\ recording_channels' = [recording_channels EXCEPT ![P0][s] = Incoming(P0)]
    /\ completed' = [completed EXCEPT ![P0] = @ \ {s}]
    /\ LocalEvent(P0)
    /\ net' = net \cup {Msg("MARKER", P0, r, clock'[P0], s, ZeroClock) : r \in Restaurants}
    /\ main' = [pc |-> "record", id |-> s]
    /\ UNCHANGED <<lost, threads, recorded_snapshots, orders_store, state_store, verdict>>

\* Assignment to a key of a dictionary: a new key goes to the end of the
\* insertion order, an old one keeps its place.
Put(entries, p, v) ==
    IF \E i \in DOMAIN entries : entries[i].proc = p
    THEN [i \in DOMAIN entries |->
            IF entries[i].proc = p THEN [proc |-> p, vc |-> v] ELSE entries[i]]
    ELSE Append(entries, [proc |-> p, vc |-> v])

\* P0 reads its clock once more for the state that it enters.
RecordOwnState ==
    /\ main.pc = "record"
    /\ main' = [pc |-> "store", id |-> main.id, vc |-> clock[P0]]
    /\ UNCHANGED <<clock, net, lost, threads, recorderVars, recorded_snapshots,
                   orders_store, triggered, state_store, verdict>>

\* P0 does not check whether its own state was the last one missing.
StoreOwnState ==
    /\ main.pc = "store"
    /\ state_store' = [state_store EXCEPT ![main.id] = Put(@, P0, main.vc)]
    /\ main' = Menu
    /\ UNCHANGED <<clock, net, lost, threads, recorderVars, recorded_snapshots,
                   orders_store, triggered, verdict>>

----------------------------------------------------------------------------
(* dispatch                                                                *)

ReceiveDelivery(m) ==
    /\ m.to = P0 /\ m.type = "DELIVERY"
    /\ Receive(m, "acknowledge")
    /\ UNCHANGED <<lost, recorderVars, recorded_snapshots, coordinatorVars>>

ConfirmDelivery(t) ==
    /\ t.pc = "acknowledge"
    /\ LocalEvent(P0)
    /\ Finish(t)
    /\ UNCHANGED <<net, lost, recorderVars, recorded_snapshots, coordinatorVars>>

ReceiveState(m) ==
    /\ m.to = P0 /\ m.type = "STATE"
    /\ Receive(m, "store")
    /\ UNCHANGED <<lost, recorderVars, recorded_snapshots, coordinatorVars>>

\* handle_state takes no lock.
HandleState(t) ==
    /\ t.pc = "store"
    /\ state_store' = [state_store EXCEPT ![t.msg.id] = Put(@, t.msg.from, t.msg.vc)]
    /\ Goto(t, "count")
    /\ UNCHANGED <<clock, net, lost, recorderVars, recorded_snapshots,
                   main, orders_store, triggered, verdict>>

AllCollected(entries) == Len(entries) = Cardinality(Proc)

\* Mutant: P0's own entry is not counted in.
CountRemoteStates(t) ==
    /\ t.pc = "count"
    /\ IF Len(state_store[t.msg.id]) = Cardinality(Proc) - 1
       THEN Goto(t, "verify") ELSE Finish(t)
    /\ UNCHANGED <<clock, net, lost, recorderVars, recorded_snapshots, coordinatorVars>>

\* The count iterates over the dictionary.  If another thread stores a new entry
\* in the meantime, RuntimeError ends this one, as a count before that would.
CountStates(t) ==
    /\ t.pc = "count"
    /\ IF AllCollected(state_store[t.msg.id]) THEN Goto(t, "verify") ELSE Finish(t)
    /\ UNCHANGED <<clock, net, lost, recorderVars, recorded_snapshots, coordinatorVars>>

\* Mutant: the components of the wrong process are compared.
EarlierAhead(entries) ==
    {ij \in (DOMAIN entries) \X (DOMAIN entries) :
        LET a == entries[ij[1]]
            b == entries[ij[2]]
        IN  ij[1] < ij[2] /\ a.vc[a.proc] > b.vc[a.proc]}

\* check_snapshot_consistency compares two entries in one direction only: is
\* the earlier one, in insertion order, ahead of the later one?
Inconsistencies(entries) ==
    {ij \in (DOMAIN entries) \X (DOMAIN entries) :
        LET a == entries[ij[1]]
            b == entries[ij[2]]
        IN  ij[1] < ij[2] /\ a.vc[b.proc] > b.vc[b.proc]}

\* A verdict is printed because all states are collected, or for the menu.
Verdicts == [by : {"collected", "menu"}, says : {"consistent", "inconsistent"}]

\* check_snapshot_consistency judges the states that are there.
Check(s, by) ==
    verdict' = [verdict EXCEPT ![s] = @ \cup
        {[by |-> by, says |-> IF Inconsistencies(state_store[s]) = {}
                              THEN "consistent" ELSE "inconsistent"]}]

CheckSnapshotConsistency(t) ==
    /\ t.pc = "verify"
    /\ Check(t.msg.id, "collected")
    /\ Finish(t)
    /\ UNCHANGED <<clock, net, lost, recorderVars, recorded_snapshots,
                   main, orders_store, triggered, state_store>>

----------------------------------------------------------------------------
(* Menu option 4: every snapshot in the store is checked, complete or not. *)

ViewSnapshots ==
    LET stored == {s \in Snapshots : state_store[s] # <<>>}
    IN  /\ main = Menu
        /\ stored # {}
        /\ main' = [pc |-> "view", left |-> stored]
        /\ UNCHANGED <<clock, net, lost, threads, recorderVars, recorded_snapshots,
                       orders_store, triggered, state_store, verdict>>

\* One turn of the loop
CheckViewed(s) ==
    /\ main.pc = "view" /\ s \in main.left
    /\ Check(s, "menu")
    /\ main' = IF main.left = {s} THEN Menu ELSE [main EXCEPT !.left = @ \ {s}]
    /\ UNCHANGED <<clock, net, lost, threads, recorderVars, recorded_snapshots,
                   orders_store, triggered, state_store>>

=============================================================================
