--------------------------- MODULE OrderWayProofs ---------------------------
(***************************************************************************)
(* The five programs implement OrderWay: what holds an order is one thing  *)
(* at a time, and each step moves it to the next place on its way, leaves  *)
(* it where it is, or loses it with a send that fails.                     *)
(***************************************************************************)
EXTENDS FoodDeliveryProofs

----------------------------------------------------------------------------
(* What holds an order.                                                    *)

MainOf(o) == {y \in {main} : y.pc = "dispatch" /\ y.id = o}

MessagesOf(o) == {n \in net : n.id = o}

ThreadsOf(o) == {u \in threads : u.msg.id = o}

Holders(o, fresh, mains, ms, ts) ==
    /\ {o} \ orders_store = fresh
    /\ MainOf(o) = mains
    /\ MessagesOf(o) = ms
    /\ ThreadsOf(o) = ts

\* The runners that some restaurant hands its orders to.
Served == {Partner[r] : r \in Restaurants}

\* The messages about orders go from P0 to a restaurant, on to a partner, and
\* from a partner to P0.
Routed(m) ==
    \/ m.type = "ORDER" /\ m.to \in Restaurants
    \/ m.type = "DELIVERY" /\ m.to \in Served
    \/ m.type = "DELIVERY" /\ m.to = P0 /\ m.from \in Served

AtOnePlace(o) ==
    \/ Holders(o, {o}, {}, {}, {})
    \/ \E r \in Restaurants :
          Holders(o, {}, {[pc |-> "dispatch", id |-> o, to |-> r]}, {}, {})
    \/ \E m \in Message : Routed(m) /\ Holders(o, {}, {}, {m}, {})
    \/ \E t \in Thread : Routed(t.msg) /\ Holders(o, {}, {}, {}, {t})
    \/ Holders(o, {}, {}, {}, {})

OnePlaceInv == \A o \in Orders : AtOnePlace(o)

----------------------------------------------------------------------------
(* The places that the holders stand for.                                  *)

MessagePlace(m) ==
    IF m.type = "ORDER" THEN <<"ordered", m.to>>
    ELSE IF m.to = P0 THEN <<"delivered", m.from>>
    ELSE <<"handed over", m.to>>

ThreadPlace(t) ==
    IF t.msg.to \in Restaurants THEN <<"cooking", t.msg.to>>
    ELSE IF t.msg.to = P0 THEN <<"confirming", t.msg.from>>
    ELSE <<"riding", t.msg.to>>

PlacesIn(fresh, mains, ms, ts) ==
    {<<"new">> : x \in fresh} \cup {<<"created", x.to>> : x \in mains}
    \cup {MessagePlace(m) : m \in ms} \cup {ThreadPlace(t) : t \in ts}

\* The places of an order are those of its holders, before and after a step.
LEMMA PlacesHeld ==
    ASSUME NEW o
    PROVE  /\ PlacesOf(o) = PlacesIn({o} \ orders_store, MainOf(o), MessagesOf(o),
                                     ThreadsOf(o))
           /\ PlacesOf(o)' = PlacesIn({o} \ orders_store', MainOf(o)', MessagesOf(o)',
                                      ThreadsOf(o)')
BY DEF PlacesOf, PlacesIn, MessagePlace, ThreadPlace, MainOf, MessagesOf, ThreadsOf

\* One holder is one place.
LEMMA OnePlace ==
    ASSUME NEW o, NEW x, NEW m, NEW t
    PROVE  /\ PlacesIn({o}, {}, {}, {}) = {<<"new">>}
           /\ PlacesIn({}, {x}, {}, {}) = {<<"created", x.to>>}
           /\ PlacesIn({}, {}, {m}, {}) = {MessagePlace(m)}
           /\ PlacesIn({}, {}, {}, {t}) = {ThreadPlace(t)}
           /\ PlacesIn({}, {}, {}, {}) = {}
BY DEF PlacesIn

----------------------------------------------------------------------------
(* The only holder of an order.                                            *)

\* An order not yet created has no other holder.
LEMMA FreshAlone ==
    ASSUME OnePlaceInv, NEW o \in Orders, o \notin orders_store
    PROVE  Holders(o, {o}, {}, {}, {})
BY DEF OnePlaceInv, AtOnePlace, Holders

\* Nor has one that the main thread has created and not sent.
LEMMA MainAlone ==
    ASSUME OnePlaceInv, NEW o \in Orders, main.pc = "dispatch", main.id = o
    PROVE  Holders(o, {}, {main}, {}, {})
<1>1. main \in MainOf(o)
  BY DEF MainOf
<1>2. MainOf(o) = {main}
  BY DEF MainOf
<1>3. QED
  BY <1>1, <1>2 DEF OnePlaceInv, AtOnePlace, Holders

\* Nor has one in a message.
LEMMA MessageAlone ==
    ASSUME OnePlaceInv, NEW m \in net, m.id \in Orders
    PROVE  Routed(m) /\ Holders(m.id, {}, {}, {m}, {})
<1>1. m \in MessagesOf(m.id)
  BY DEF MessagesOf
<1>2. PICK n \in Message : Routed(n) /\ Holders(m.id, {}, {}, {n}, {})
  BY <1>1 DEF OnePlaceInv, AtOnePlace, Holders
<1>3. n = m
  BY <1>1, <1>2 DEF Holders
<1>4. QED
  BY <1>2, <1>3

\* Nor has one that a thread handles.
LEMMA ThreadAlone ==
    ASSUME OnePlaceInv, NEW t \in threads, t.msg.id \in Orders
    PROVE  Routed(t.msg) /\ Holders(t.msg.id, {}, {}, {}, {t})
<1>1. t \in ThreadsOf(t.msg.id)
  BY DEF ThreadsOf
<1>2. PICK u \in Thread : Routed(u.msg) /\ Holders(t.msg.id, {}, {}, {}, {u})
  BY <1>1 DEF OnePlaceInv, AtOnePlace, Holders
<1>3. u = t
  BY <1>1, <1>2 DEF Holders
<1>4. QED
  BY <1>2, <1>3

----------------------------------------------------------------------------
(* The kinds of steps.                                                     *)

\* Nothing that holds o changes.
Undisturbed(o) ==
    /\ o \in orders_store' <=> o \in orders_store
    /\ MainOf(o)' = MainOf(o)
    /\ MessagesOf(o)' = MessagesOf(o)
    /\ ThreadsOf(o)' = ThreadsOf(o)

Settled(o) == AtOnePlace(o)' /\ PlacesOf(o)' = PlacesOf(o)

\* An order that is not disturbed stays where it is.
LEMMA UndisturbedStays ==
    ASSUME OnePlaceInv, NEW o \in Orders, Undisturbed(o)
    PROVE  Settled(o)
<1>1. {o} \ orders_store' = {o} \ orders_store
  BY DEF Undisturbed
<1>2. PlacesOf(o)' = PlacesOf(o)
  BY <1>1, PlacesHeld DEF Undisturbed
<1>3. AtOnePlace(o)'
  BY <1>1 DEF OnePlaceInv, AtOnePlace, Holders, Undisturbed
<1>4. QED
  BY <1>2, <1>3 DEF Settled

\* The order o goes from one place to another, and the others stay.
Moved(o, from, to) ==
    /\ PlacesOf(o) = from /\ PlacesOf(o)' = to
    /\ AtOnePlace(o)'
    /\ \A q \in Orders \ {o} : Settled(q)
    /\ lost' = lost

\* The programs move an order along its way.
OnTheWay(o, r, from, to) ==
    \/ from = {<<"new">>} /\ to = {<<"created", r>>}
    \/ from = {<<"created", r>>} /\ to = {<<"ordered", r>>}
    \/ from = {<<"ordered", r>>} /\ to = {<<"cooking", r>>}
    \/ from = {<<"cooking", r>>} /\ to = {<<"handed over", Partner[r]>>}
    \/ from = {<<"handed over", Partner[r]>>} /\ to = {<<"riding", Partner[r]>>}
    \/ from = {<<"riding", Partner[r]>>} /\ to = {<<"delivered", Partner[r]>>}
    \/ from = {<<"delivered", Partner[r]>>} /\ to = {<<"confirming", Partner[r]>>}
    \/ from = {<<"confirming", Partner[r]>>} /\ to = {}

Kept == OnePlaceInv' /\ [Way!Next]_(Way!vars)

\* Such a move is a step of OrderWay.
LEMMA MoveIsStep ==
    ASSUME NEW o \in Orders, NEW r \in Restaurants, NEW from, NEW to,
           OnTheWay(o, r, from, to), Moved(o, from, to)
    PROVE  Kept
<1> DEFINE P == [q \in Orders |-> PlacesOf(q)]
<1>1. P' = [P EXCEPT ![o] = to] /\ P[o] = from /\ lost' = lost
  BY DEF Moved, Settled
<1>2. Way!Move(o, from, to)
  BY <1>1 DEF Way!Move
<1>3. Way!Advance(o, r)
  BY <1>2 DEF OnTheWay, Way!Advance, Way!New, Way!Over, Way!Created, Way!Ordered,
              Way!Cooking, Way!HandedOver, Way!Riding, Way!Delivered, Way!Confirming
<1>4. OnePlaceInv'
  BY DEF Moved, Settled, OnePlaceInv
<1>5. QED
  BY <1>3, <1>4 DEF Kept, Way!Next

\* A step that settles every order is a step that OrderWay does not see.
LEMMA SettledIsStutter ==
    ASSUME \A o \in Orders : Settled(o), lost' = lost
    PROVE  Kept
BY DEF Settled, Kept, OnePlaceInv, Way!vars

----------------------------------------------------------------------------
(* What a step does to the holders of an order.                            *)

\* No order has the identifier of a snapshot.
LEMMA IdsApart == \A s \in Snapshots : s \notin Orders
BY IdentifierAssumption

\* Messages about orders have their types, the others are about snapshots.
LEMMA TypeOfId ==
    ASSUME NEW m \in Message
    PROVE  /\ m.id \in Orders <=> m.type \in {"ORDER", "DELIVERY"}
           /\ m.id \notin Orders => m.id \in Snapshots
BY IdsApart DEF Message

\* The parts of a message that a program builds.
LEMMA MsgParts ==
    ASSUME NEW type, NEW from, NEW to, NEW c, NEW id, NEW v
    PROVE  /\ Msg(type, from, to, c, id, v).type = type
           /\ Msg(type, from, to, c, id, v).from = from
           /\ Msg(type, from, to, c, id, v).to = to
           /\ Msg(type, from, to, c, id, v).id = id
BY DEF Msg

\* A thread that goes on handles the message it handled before.
LEMMA SameMessage ==
    ASSUME TypeOK, NEW t \in threads, NEW pc, NEW c
    PROVE  [t EXCEPT !.pc = pc].msg = t.msg /\ [t EXCEPT !.pc = pc, !.saved = c].msg = t.msg
<1>1. t = [msg |-> t.msg, pc |-> t.pc, saved |-> t.saved]
  BY ThreadParts
<1>2. QED
  BY <1>1

\* The places are those of the message, whatever the step of its thread.
LEMMA ThreadPlaceOfMessage ==
    ASSUME NEW t, NEW u, t.msg = u.msg
    PROVE  ThreadPlace(t) = ThreadPlace(u)
BY DEF ThreadPlace

\* A step of P0's main thread or of a handler that only replaces threads of one
\* message by threads of that message settles every order.
LEMMA GoingOn ==
    ASSUME TypeOK, TypeOK', OnePlaceInv, NEW t \in threads, NEW u,
           u.msg = t.msg, threads' = (threads \ {t}) \cup {u},
           UNCHANGED <<lost, main, orders_store>>,
           \A o \in Orders : MessagesOf(o)' = MessagesOf(o)
    PROVE  Kept
<1>1. \A o \in Orders : o # t.msg.id => Undisturbed(o)
  BY DEF Undisturbed, MainOf, ThreadsOf
<1>2. ASSUME t.msg.id \in Orders PROVE Settled(t.msg.id)
  <2> DEFINE o == t.msg.id
  <2>1. Routed(t.msg) /\ Holders(o, {}, {}, {}, {t})
    BY <1>2, ThreadAlone
  <2>2. ThreadsOf(o)' = {u}
    BY <2>1 DEF Holders, ThreadsOf
  <2>3. /\ {o} \ orders_store' = {} /\ MainOf(o)' = {} /\ MessagesOf(o)' = {}
    BY <1>2, <2>1 DEF Holders, MainOf
  <2>4. u \in Thread /\ Routed(u.msg)
    BY <2>1 DEF TypeOK
  <2>5. AtOnePlace(o)'
    BY <2>2, <2>3, <2>4 DEF AtOnePlace, Holders, Routed
  <2>6. PlacesOf(o) = {ThreadPlace(t)} /\ PlacesOf(o)' = {ThreadPlace(u)}
    BY <2>1, <2>2, <2>3, PlacesHeld, OnePlace DEF Holders
  <2>7. QED
    BY <2>5, <2>6, ThreadPlaceOfMessage DEF Settled
<1>3. QED
  BY <1>1, <1>2, UndisturbedStays, SettledIsStutter

\* So does the end of a thread that handles a message about a snapshot.
LEMMA Ending ==
    ASSUME OnePlaceInv, NEW t \in threads, t.msg.id \notin Orders, Finish(t),
           UNCHANGED <<lost, main, orders_store>>,
           \A o \in Orders : MessagesOf(o)' = MessagesOf(o)
    PROVE  Kept
<1>1. \A o \in Orders : Undisturbed(o)
  BY DEF Undisturbed, MainOf, ThreadsOf, Finish
<1>2. QED
  BY <1>1, UndisturbedStays, SettledIsStutter

\* A message about a snapshot says nothing of an order.
LEMMA OtherMessage ==
    ASSUME NEW m, m.id \notin Orders, net' = net \cup {m} \/ net' = net \ {m}
    PROVE  \A o \in Orders : MessagesOf(o)' = MessagesOf(o)
BY DEF MessagesOf

\* The receipt of a message about a snapshot settles every order.
LEMMA OtherReceived ==
    ASSUME TypeOK, OnePlaceInv, NEW m \in net, NEW pc, m.id \notin Orders,
           net' = net \ {m}, threads' = threads \cup {NewThread(m, pc)},
           UNCHANGED <<lost, main, orders_store>>
    PROVE  Kept
<1>1. \A o \in Orders : MessagesOf(o)' = MessagesOf(o)
  BY OtherMessage
<1>2. NewThread(m, pc).msg = m
  BY DEF NewThread
<1>3. \A o \in Orders : Undisturbed(o)
  BY <1>1, <1>2 DEF Undisturbed, MainOf, ThreadsOf
<1>4. QED
  BY <1>3, UndisturbedStays, SettledIsStutter

\* The receipt of a message about an order takes the order from the message to
\* its thread.
LEMMA OrderReceived ==
    ASSUME TypeOK, TypeOK', OnePlaceInv, NEW m \in net, NEW pc, m.id \in Orders,
           net' = net \ {m}, threads' = threads \cup {NewThread(m, pc)},
           UNCHANGED <<lost, main, orders_store>>
    PROVE  Moved(m.id, {MessagePlace(m)}, {ThreadPlace(NewThread(m, pc))})
<1> DEFINE o == m.id
           u == NewThread(m, pc)
<1>1. Routed(m) /\ Holders(o, {}, {}, {m}, {})
  BY MessageAlone
<1>2. u.msg = m /\ u \in threads'
  BY DEF NewThread
<1>3. \A q \in Orders \ {o} : Undisturbed(q)
  BY <1>2 DEF Undisturbed, MainOf, MessagesOf, ThreadsOf
<1>4. /\ {o} \ orders_store' = {} /\ MainOf(o)' = {}
  BY <1>1 DEF Holders, MainOf
<1>5. MessagesOf(o)' = {} /\ ThreadsOf(o)' = {u}
  BY <1>1, <1>2 DEF Holders, MessagesOf, ThreadsOf
<1>6. AtOnePlace(o)'
  <2>1. u \in Thread /\ Routed(u.msg)
    BY <1>1, <1>2 DEF TypeOK
  <2>2. QED
    BY <1>4, <1>5, <2>1 DEF AtOnePlace, Holders, Routed
<1>7. PlacesOf(o) = {MessagePlace(m)} /\ PlacesOf(o)' = {ThreadPlace(u)}
  <2>1. PlacesOf(o) = PlacesIn({}, {}, {m}, {})
    BY <1>1, PlacesHeld DEF Holders
  <2>2. PlacesOf(o)' = PlacesIn({}, {}, {}, {u})
    BY <1>4, <1>5, PlacesHeld
  <2>3. QED
    BY <2>1, <2>2, OnePlace
<1>8. QED
  BY <1>3, <1>6, <1>7, UndisturbedStays DEF Moved

\* A thread that ends by sending a message about its order hands it to that.
LEMMA HandedOn ==
    ASSUME TypeOK, TypeOK', OnePlaceInv, NEW t \in threads, t.msg.id \in Orders,
           NEW m, m.id = t.msg.id, Routed(m), net' = net \cup {m}, Finish(t),
           UNCHANGED <<lost, main, orders_store>>
    PROVE  Moved(t.msg.id, {ThreadPlace(t)}, {MessagePlace(m)})
<1> DEFINE o == t.msg.id
<1>1. Holders(o, {}, {}, {}, {t})
  BY ThreadAlone
<1>2. \A q \in Orders \ {o} : Undisturbed(q)
  BY DEF Undisturbed, MainOf, MessagesOf, ThreadsOf, Finish
<1>3. /\ {o} \ orders_store' = {} /\ MainOf(o)' = {}
  BY <1>1 DEF Holders, MainOf
<1>4. MessagesOf(o)' = {m} /\ ThreadsOf(o)' = {}
  BY <1>1 DEF Holders, MessagesOf, ThreadsOf, Finish
<1>5. AtOnePlace(o)'
  <2>1. m \in Message
    BY DEF TypeOK
  <2>2. QED
    BY <1>3, <1>4, <2>1 DEF AtOnePlace, Holders, Routed
<1>6. PlacesOf(o) = {ThreadPlace(t)} /\ PlacesOf(o)' = {MessagePlace(m)}
  <2>1. PlacesOf(o) = PlacesIn({}, {}, {}, {t})
    BY <1>1, PlacesHeld DEF Holders
  <2>2. PlacesOf(o)' = PlacesIn({}, {}, {m}, {})
    BY <1>3, <1>4, PlacesHeld
  <2>3. QED
    BY <2>1, <2>2, OnePlace
<1>7. QED
  BY <1>2, <1>5, <1>6, UndisturbedStays DEF Moved

----------------------------------------------------------------------------
(* The steps.                                                              *)

\* Orders are created and sent by P0's main thread; its steps for a snapshot
\* concern no order.
LEMMA MainOnTheWay ==
    ASSUME TypeOK, TypeOK', OnePlaceInv, Command \/ MainStep
    PROVE  Kept
<1>1. ASSUME NEW o \in Orders, NEW r \in Restaurants, CreateOrder(o, r) PROVE Kept
  <2> DEFINE x == [pc |-> "dispatch", id |-> o, to |-> r]
  <2>1. Holders(o, {o}, {}, {}, {})
    BY <1>1, FreshAlone DEF CreateOrder
  <2>2. main = Menu /\ main' = x /\ x.id = o /\ x.pc = "dispatch" /\ x.to = r
    BY <1>1 DEF CreateOrder
  <2>3. \A q \in Orders \ {o} : Undisturbed(q)
    BY <1>1, <2>2 DEF CreateOrder, Undisturbed, MainOf, MessagesOf, ThreadsOf, Menu
  <2>4. Holders(o, {}, {x}, {}, {})'
    BY <1>1, <2>1, <2>2 DEF CreateOrder, Holders, MainOf, MessagesOf, ThreadsOf
  <2>5. AtOnePlace(o)'
    BY <2>4 DEF AtOnePlace
  <2>6. PlacesOf(o) = {<<"new">>} /\ PlacesOf(o)' = {<<"created", r>>}
    <3>1. PlacesOf(o) = PlacesIn({o}, {}, {}, {}) /\ PlacesOf(o)' = PlacesIn({}, {x}, {}, {})
      BY <2>1, <2>4, PlacesHeld DEF Holders
    <3> HIDE DEF x
    <3>2. QED
      BY <2>2, <3>1, OnePlace
  <2>7. Moved(o, {<<"new">>}, {<<"created", r>>})
    BY <1>1, <2>3, <2>5, <2>6, UndisturbedStays DEF Moved, CreateOrder
  <2>8. QED
    BY <2>7, MoveIsStep DEF OnTheWay
<1>2. CASE DispatchOrder
  <2> PICK o \in Orders, r \in Restaurants : main = [pc |-> "dispatch", id |-> o, to |-> r]
    BY <1>2 DEF DispatchOrder, TypeOK, MainState, Menu
  <2> PICK m : m = Msg("ORDER", P0, main.to, clock'[P0], main.id, ZeroClock)
    OBVIOUS
  <2>1. main.pc = "dispatch" /\ main.id = o /\ main.to = r
    OBVIOUS
  <2>2. Holders(o, {}, {main}, {}, {})
    BY <2>1, MainAlone
  <2>3. m.type = "ORDER" /\ m.to = r /\ m.id = o
    BY <2>1, MsgParts
  <2>4. net' = net \cup {m} /\ main' = Menu /\ UNCHANGED <<lost, threads, orders_store>>
    BY <1>2, <2>1 DEF DispatchOrder
  <2>5. \A q \in Orders \ {o} : Undisturbed(q)
    BY <2>3, <2>4 DEF Undisturbed, MainOf, MessagesOf, ThreadsOf, Menu
  <2>6. Holders(o, {}, {}, {m}, {})'
    BY <2>2, <2>3, <2>4 DEF Holders, MainOf, MessagesOf, ThreadsOf, Menu
  <2>7. AtOnePlace(o)'
    <3>1. m \in Message
      BY <2>4 DEF TypeOK
    <3>2. Routed(m)
      BY <2>1, <2>3 DEF Routed
    <3>3. QED
      BY <2>6, <3>1, <3>2 DEF AtOnePlace, Holders, Routed
  <2>8. PlacesOf(o) = {<<"created", r>>} /\ PlacesOf(o)' = {MessagePlace(m)}
    <3>1. /\ PlacesOf(o) = PlacesIn({}, {main}, {}, {})
          /\ PlacesOf(o)' = PlacesIn({}, {}, {m}, {})
      BY <2>2, <2>6, PlacesHeld DEF Holders
    <3>2. QED
      BY <2>1, <3>1, OnePlace
  <2>9. MessagePlace(m) = <<"ordered", r>>
    BY <2>3 DEF MessagePlace
  <2>10. Moved(o, {<<"created", r>>}, {<<"ordered", r>>})
    BY <2>4, <2>5, <2>7, <2>8, <2>9, UndisturbedStays DEF Moved
  <2>11. QED
    BY <2>1, <2>10, MoveIsStep DEF OnTheWay
<1>3. ASSUME NEW s \in Snapshots, InitiateSnapshot(s) PROVE Kept
  <2>1. \A r : Msg("MARKER", P0, r, clock'[P0], s, ZeroClock).id \notin Orders
    BY IdsApart, MsgParts
  <2>2. \A o \in Orders : MessagesOf(o)' = MessagesOf(o)
    BY <1>3, <2>1 DEF InitiateSnapshot, MessagesOf
  <2>3. \A o \in Orders : MainOf(o)' = MainOf(o)
    BY <1>3 DEF InitiateSnapshot, MainOf, Menu
  <2>4. UNCHANGED <<lost, threads, orders_store>>
    BY <1>3 DEF InitiateSnapshot
  <2>5. \A o \in Orders : Undisturbed(o)
    BY <2>2, <2>3, <2>4 DEF Undisturbed, ThreadsOf
  <2>6. QED
    BY <2>4, <2>5, UndisturbedStays, SettledIsStutter
<1>4. ASSUME main.pc # "dispatch", main'.pc # "dispatch",
             UNCHANGED <<lost, net, threads, orders_store>>
      PROVE  Kept
  <2>1. \A o \in Orders : Undisturbed(o)
    BY <1>4 DEF Undisturbed, MainOf, MessagesOf, ThreadsOf
  <2>2. QED
    BY <1>4, <2>1, UndisturbedStays, SettledIsStutter
<1>5. CASE RecordOwnState
  BY <1>4, <1>5 DEF RecordOwnState
<1>6. CASE StoreOwnState
  BY <1>4, <1>6 DEF StoreOwnState, Menu
<1>7. CASE ViewSnapshots
  BY <1>4, <1>7 DEF ViewSnapshots, Menu
<1>8. ASSUME NEW s \in Snapshots, CheckViewed(s) PROVE Kept
  <2>1. main \in [pc : {"view"}, left : SUBSET Snapshots]
    BY <1>8 DEF CheckViewed, TypeOK, MainState, Menu
  <2>2. main'.pc # "dispatch"
    BY <1>8, <2>1 DEF CheckViewed, Menu
  <2>3. QED
    BY <1>4, <1>8, <2>2 DEF CheckViewed
<1>9. QED
  BY <1>1, <1>2, <1>3, <1>5, <1>6, <1>7, <1>8 DEF Command, MainStep

\* A message that arrives becomes a thread at the same process; one that is lost
\* ends its order.
LEMMA ArrivalOnTheWay ==
    ASSUME TypeOK, TypeOK', OnePlaceInv, NEW m \in net,
           \/ ReceiveDelivery(m) \/ ReceiveState(m) \/ AcceptOrder(m)
           \/ ReceiveMarker(m) \/ ReceiveHandoff(m) \/ ReceiveRunnerMarker(m)
    PROVE  Kept
<1> USE DEF coordinatorVars
<1>m. m \in Message
  BY DEF TypeOK
<1>1. CASE ReceiveState(m) \/ ReceiveMarker(m) \/ ReceiveRunnerMarker(m)
  <2>1. m.id \notin Orders
    BY <1>1, <1>m, TypeOfId DEF ReceiveState, ReceiveMarker, ReceiveRunnerMarker
  <2>2. PICK pc \in {"store", "record", "check"} :
           /\ net' = net \ {m} /\ threads' = threads \cup {NewThread(m, pc)}
           /\ UNCHANGED <<lost, main, orders_store>>
    BY <1>1 DEF ReceiveState, ReceiveMarker, ReceiveRunnerMarker, Receive
  <2>3. QED
    BY <2>1, <2>2, OtherReceived
<1>2. CASE AcceptOrder(m)
  <2>1. /\ m.to \in Restaurants /\ m.type = "ORDER" /\ m.id \in Orders
        /\ net' = net \ {m} /\ threads' = threads \cup {NewThread(m, "handle")}
        /\ UNCHANGED <<lost, main, orders_store>>
    BY <1>2, <1>m, TypeOfId DEF AcceptOrder
  <2>2. Moved(m.id, {MessagePlace(m)}, {ThreadPlace(NewThread(m, "handle"))})
    BY <2>1, OrderReceived
  <2>3. /\ MessagePlace(m) = <<"ordered", m.to>>
        /\ ThreadPlace(NewThread(m, "handle")) = <<"cooking", m.to>>
    BY <2>1 DEF MessagePlace, ThreadPlace, NewThread
  <2>4. QED
    BY <2>1, <2>2, <2>3, MoveIsStep DEF OnTheWay
<1>3. CASE ReceiveHandoff(m)
  <2>1. /\ m.to \in Runners /\ m.type = "DELIVERY" /\ m.id \in Orders
        /\ net' = net \ {m} /\ threads' = threads \cup {NewThread(m, "pickup")}
        /\ UNCHANGED <<lost, main, orders_store>>
    BY <1>3, <1>m, TypeOfId DEF ReceiveHandoff, Receive
  <2>2. m.to # P0 /\ m.to \notin Restaurants
    BY <2>1, TopologyAssumption
  <2>3. Moved(m.id, {MessagePlace(m)}, {ThreadPlace(NewThread(m, "pickup"))})
    BY <2>1, OrderReceived
  <2>4. /\ MessagePlace(m) = <<"handed over", m.to>>
        /\ ThreadPlace(NewThread(m, "pickup")) = <<"riding", m.to>>
    BY <2>1, <2>2 DEF MessagePlace, ThreadPlace, NewThread
  <2>5. PICK r \in Restaurants : m.to = Partner[r]
    BY <2>1, <2>2, MessageAlone DEF Routed, Served
  <2>6. QED
    BY <2>1, <2>3, <2>4, <2>5, MoveIsStep DEF OnTheWay
<1>4. CASE ReceiveDelivery(m)
  <2>1. /\ m.to = P0 /\ m.type = "DELIVERY" /\ m.id \in Orders
        /\ net' = net \ {m} /\ threads' = threads \cup {NewThread(m, "acknowledge")}
        /\ UNCHANGED <<lost, main, orders_store>>
    BY <1>4, <1>m, TypeOfId DEF ReceiveDelivery, Receive
  <2>2. P0 \notin Restaurants /\ P0 \notin Served
    BY TopologyAssumption DEF Served
  <2>3. Moved(m.id, {MessagePlace(m)}, {ThreadPlace(NewThread(m, "acknowledge"))})
    BY <2>1, OrderReceived
  <2>4. /\ MessagePlace(m) = <<"delivered", m.from>>
        /\ ThreadPlace(NewThread(m, "acknowledge")) = <<"confirming", m.from>>
    BY <2>1, <2>2 DEF MessagePlace, ThreadPlace, NewThread
  <2>5. PICK r \in Restaurants : m.from = Partner[r]
    BY <2>1, <2>2, MessageAlone DEF Routed, Served
  <2>6. QED
    BY <2>1, <2>3, <2>4, <2>5, MoveIsStep DEF OnTheWay
<1>5. QED
  BY <1>1, <1>2, <1>3, <1>4

\* A send that fails ends its order, if it has one, and nothing else.
LEMMA LossOnTheWay ==
    ASSUME TypeOK, OnePlaceInv, NEW m \in net, Lose(m)
    PROVE  Kept
<1> USE DEF coordinatorVars
<1>m. m \in Message
  BY DEF TypeOK
<1>1. /\ net' = net \ {m} /\ UNCHANGED <<threads, main, orders_store>>
      /\ lost < MaxLoss /\ lost' = lost + 1
  BY DEF Lose
<1>2. \A o \in Orders : o # m.id => Settled(o)
  <2>1. \A o \in Orders : o # m.id => Undisturbed(o)
    BY <1>1 DEF Undisturbed, MainOf, MessagesOf, ThreadsOf
  <2>2. QED
    BY <2>1, UndisturbedStays
<1>3. CASE m.id \notin Orders
  <2>1. \A o \in Orders : Settled(o)
    BY <1>2, <1>3
  <2>2. UNCHANGED [o \in Orders |-> PlacesOf(o)]
    BY <2>1 DEF Settled
  <2>3. Way!Lose
    BY <1>1, <2>2 DEF Way!Lose
  <2>4. QED
    BY <2>1, <2>3 DEF Kept, Way!Next, Settled, OnePlaceInv
<1>4. CASE m.id \in Orders
  <2> DEFINE o == m.id
             P == [q \in Orders |-> PlacesOf(q)]
  <2>1. Routed(m) /\ Holders(o, {}, {}, {m}, {})
    BY <1>4, MessageAlone
  <2>2. Holders(o, {}, {}, {}, {})'
    BY <1>1, <2>1 DEF Holders, MainOf, MessagesOf, ThreadsOf
  <2>3. PlacesOf(o) = {MessagePlace(m)} /\ PlacesOf(o)' = {}
    BY <2>1, <2>2, PlacesHeld, OnePlace DEF Holders
  <2>4. P[o] = {MessagePlace(m)} /\ P' = [P EXCEPT ![o] = {}]
    BY <1>2, <1>4, <2>3 DEF Settled
  <2>5. \E r \in Restaurants :
           MessagePlace(m) \in {<<"ordered", r>>, <<"handed over", Partner[r]>>,
                                <<"delivered", Partner[r]>>}
    <3>1. P0 \notin Served
      BY TopologyAssumption DEF Served
    <3>2. QED
      BY <2>1, <3>1 DEF Routed, Served, MessagePlace
  <2>6. Way!Lose
    BY <1>1, <1>4, <2>4, <2>5 DEF Way!Lose, Way!Over, Way!Ordered, Way!HandedOver, Way!Delivered
  <2>7. AtOnePlace(o)'
    BY <2>2 DEF AtOnePlace
  <2>8. QED
    BY <1>2, <2>6, <2>7 DEF Kept, Way!Next, Settled, OnePlaceInv
<1>5. QED
  BY <1>3, <1>4

\* P0 confirms a delivery, which is the end of its order, and counts the states
\* of a snapshot, which concerns no order.
LEMMA CoordinatorOnTheWay ==
    ASSUME TypeOK, TypeOK', OnePlaceInv, NEW t \in threads, CoordinatorStep(t)
    PROVE  Kept
<1> USE DEF coordinatorVars
<1>1. CASE ConfirmDelivery(t)
  <2> PICK o : o = t.msg.id
    OBVIOUS
  <2>1. t.msg.to = P0 /\ o \in Orders /\ t.msg.type = "DELIVERY"
    <3>1. t.msg \in Message /\ InPlace(t.msg.type, t.msg.to, t.pc) /\ t.pc = "acknowledge"
      BY <1>1, ThreadParts DEF ConfirmDelivery
    <3>2. t.msg.to = P0 /\ t.msg.type = "DELIVERY"
      BY <3>1 DEF InPlace, CookingPc, DeliveringPc, MarkerPc, RunnerMarkerPc, StatePc
    <3>3. QED
      BY <3>1, <3>2, TypeOfId
  <2>2. threads' = threads \ {t} /\ UNCHANGED <<net, lost, main, orders_store>>
    BY <1>1 DEF ConfirmDelivery, Finish
  <2>3. Routed(t.msg) /\ Holders(o, {}, {}, {}, {t})
    BY <2>1, ThreadAlone
  <2>4. Holders(o, {}, {}, {}, {})'
    BY <2>2, <2>3 DEF Holders, MainOf, MessagesOf, ThreadsOf
  <2>5. \A q \in Orders \ {o} : Undisturbed(q)
    BY <2>2 DEF Undisturbed, MainOf, MessagesOf, ThreadsOf
  <2>6. PlacesOf(o) = {ThreadPlace(t)} /\ PlacesOf(o)' = {}
    BY <2>3, <2>4, PlacesHeld, OnePlace DEF Holders
  <2>7. PICK r \in Restaurants : t.msg.from = Partner[r]
    BY <2>1, <2>3, TopologyAssumption DEF Routed, Served
  <2>8. ThreadPlace(t) = <<"confirming", Partner[r]>>
    BY <2>1, <2>7, TopologyAssumption DEF ThreadPlace
  <2>9. Moved(o, {<<"confirming", Partner[r]>>}, {})
    BY <2>2, <2>4, <2>5, <2>6, <2>8, UndisturbedStays DEF Moved, AtOnePlace
  <2>10. QED
    BY <2>1, <2>9, MoveIsStep DEF OnTheWay
<1>2. ASSUME HandleState(t) \/ CountStates(t) \/ CheckSnapshotConsistency(t)
      PROVE  Kept
  <2>1. t.msg.id \notin Orders
    <3>1. t.msg \in Message /\ InPlace(t.msg.type, t.msg.to, t.pc) /\ t.pc \in StatePc
      BY <1>2, ThreadParts DEF HandleState, CountStates, CheckSnapshotConsistency, StatePc
    <3>2. t.msg.type \notin {"ORDER", "DELIVERY"}
      BY <3>1 DEF InPlace, CookingPc, DeliveringPc, MarkerPc, RunnerMarkerPc, StatePc
    <3>3. QED
      BY <3>1, <3>2, TypeOfId
  <2>2. /\ UNCHANGED <<net, lost, main, orders_store>>
        /\ Finish(t) \/ \E pc \in StatePc : Goto(t, pc)
    BY <1>2 DEF HandleState, CountStates, CheckSnapshotConsistency, StatePc
  <2>3. \A o \in Orders : MessagesOf(o)' = MessagesOf(o)
    BY <2>2 DEF MessagesOf
  <2>4. CASE Finish(t)
    BY <2>1, <2>2, <2>3, <2>4, Ending
  <2>5. ASSUME NEW pc \in StatePc, Goto(t, pc) PROVE Kept
    BY <2>2, <2>3, <2>5, GoingOn, SameMessage DEF Goto
  <2>6. QED
    BY <2>2, <2>4, <2>5
<1>3. QED
  BY <1>1, <1>2 DEF CoordinatorStep

\* A restaurant cooks an order and hands it over to its partner; its steps for a
\* snapshot concern no order.
LEMMA RestaurantOnTheWay ==
    ASSUME TypeOK, TypeOK', OnePlaceInv, NEW t \in threads, RestaurantStep(t)
    PROVE  Kept
<1> USE DEF coordinatorVars
<1>1. CASE HandleOrder(t) \/ OrderConfirmed(t) \/ PreparingFood(t) \/ FoodReady(t)
  <2>1. PICK pc \in CookingPc : Goto(t, pc) /\ UNCHANGED <<net, lost, main, orders_store>>
    BY <1>1 DEF HandleOrder, OrderConfirmed, PreparingFood, FoodReady, OrderEvent, CookingPc
  <2>2. \A o \in Orders : MessagesOf(o)' = MessagesOf(o)
    BY <2>1 DEF MessagesOf
  <2>3. QED
    BY <2>1, <2>2, GoingOn, SameMessage DEF Goto
<1>2. CASE HandToRunner(t)
  <2> PICK m : m = Msg("DELIVERY", t.msg.to, Partner[t.msg.to], clock'[t.msg.to],
                       t.msg.id, ZeroClock)
    OBVIOUS
  <2> PICK o : o = t.msg.id
    OBVIOUS
  <2> PICK r \in Restaurants : r = t.msg.to
    BY <1>2 DEF HandToRunner
  <2>1. o \in Orders
    BY <1>2, HandlerOf DEF HandToRunner
  <2>2. m.type = "DELIVERY" /\ m.to = Partner[r] /\ m.id = o
    BY MsgParts
  <2>3. Routed(m) /\ Partner[r] # P0
    BY <2>2, TopologyAssumption DEF Routed, Served
  <2>4. net' = net \cup {m} /\ Finish(t) /\ UNCHANGED <<lost, main, orders_store>>
    BY <1>2 DEF HandToRunner
  <2>5. Moved(o, {ThreadPlace(t)}, {MessagePlace(m)})
    BY <2>1, <2>2, <2>3, <2>4, HandedOn
  <2>6. /\ ThreadPlace(t) = <<"cooking", r>>
        /\ MessagePlace(m) = <<"handed over", Partner[r]>>
    BY <2>2, <2>3 DEF ThreadPlace, MessagePlace
  <2>7. QED
    BY <2>1, <2>5, <2>6, MoveIsStep DEF OnTheWay
<1>3. CASE RecordMarker(t) \/ CompleteSnapshot(t)
  <2>1. UNCHANGED <<net, lost, main, orders_store>>
    BY <1>3 DEF RecordMarker, CompleteSnapshot
  <2>2. \A o \in Orders : MessagesOf(o)' = MessagesOf(o)
    BY <2>1 DEF MessagesOf
  <2>3. ASSUME NEW pc, Goto(t, pc) PROVE Kept
    BY <2>1, <2>2, <2>3, GoingOn, SameMessage DEF Goto
  <2>4. CASE Keep(t, "report", clock[t.msg.to])
    <3>1. PICK c : c = clock[t.msg.to]
      OBVIOUS
    <3>2. threads' = (threads \ {t}) \cup {[t EXCEPT !.pc = "report", !.saved = c]}
      BY <2>4, <3>1 DEF Keep
    <3>3. [t EXCEPT !.pc = "report", !.saved = c].msg = t.msg
      BY SameMessage
    <3>4. QED
      BY <2>1, <2>2, <3>2, <3>3, GoingOn
  <2>5. QED
    BY <1>3, <2>3, <2>4 DEF RecordMarker, FirstMarker, LaterMarker, CompleteSnapshot
<1>4. CASE ForwardMarker(t) \/ SendState(t)
  <2>1. t.msg.id \notin Orders
    BY <1>4, HandlerOf, IdsApart DEF ForwardMarker, SendState
  <2>2. PICK m : m.id = t.msg.id /\ net' = net \cup {m}
    BY <1>4, MsgParts DEF ForwardMarker, SendState
  <2>3. \A o \in Orders : MessagesOf(o)' = MessagesOf(o)
    BY <2>1, <2>2, OtherMessage
  <2>4. /\ UNCHANGED <<lost, main, orders_store>>
        /\ Goto(t, "release") \/ Goto(t, "close")
    BY <1>4 DEF ForwardMarker, SendState
  <2>5. QED
    BY <2>3, <2>4, GoingOn, SameMessage DEF Goto
<1>5. CASE NothingToComplete(t) \/ ReleaseLock(t)
  <2>1. t.msg.id \notin Orders
    BY <1>5, HandlerOf, IdsApart DEF NothingToComplete, ReleaseLock
  <2>2. Finish(t) /\ UNCHANGED <<net, lost, main, orders_store>>
    BY <1>5 DEF NothingToComplete, ReleaseLock
  <2>3. QED
    BY <2>1, <2>2, Ending DEF MessagesOf
<1>6. QED
  BY <1>1, <1>2, <1>3, <1>4, <1>5 DEF RestaurantStep

\* A runner delivers an order and tells P0; its steps for a snapshot concern no
\* order.
LEMMA RunnerOnTheWay ==
    ASSUME TypeOK, TypeOK', OnePlaceInv, NEW t \in threads, RunnerStep(t)
    PROVE  Kept
<1> USE DEF coordinatorVars
<1>1. CASE PickedUp(t) \/ InTransit(t) \/ Delivered(t)
  <2>1. PICK pc \in DeliveringPc :
           Goto(t, pc) /\ UNCHANGED <<net, lost, main, orders_store>>
    BY <1>1 DEF PickedUp, InTransit, Delivered, DeliveryEvent, DeliveringPc
  <2>2. \A o \in Orders : MessagesOf(o)' = MessagesOf(o)
    BY <2>1 DEF MessagesOf
  <2>3. QED
    BY <2>1, <2>2, GoingOn, SameMessage DEF Goto
<1>2. CASE SendDelivery(t)
  <2> PICK m : m = Msg("DELIVERY", t.msg.to, P0, clock'[t.msg.to], t.msg.id, ZeroClock)
    OBVIOUS
  <2> PICK o : o = t.msg.id
    OBVIOUS
  <2> PICK f \in Runners : f = t.msg.to
    BY <1>2 DEF SendDelivery
  <2>1. o \in Orders /\ f # P0 /\ f \notin Restaurants
    BY <1>2, HandlerOf, TopologyAssumption DEF SendDelivery
  <2>2. m.type = "DELIVERY" /\ m.to = P0 /\ m.from = f /\ m.id = o
    BY MsgParts
  <2>3. PICK r \in Restaurants : f = Partner[r]
    BY <2>1, ThreadAlone DEF Routed, Served
  <2>4. Routed(m)
    BY <2>2, <2>3 DEF Routed, Served
  <2>5. net' = net \cup {m} /\ Finish(t) /\ UNCHANGED <<lost, main, orders_store>>
    BY <1>2 DEF SendDelivery
  <2>6. Moved(o, {ThreadPlace(t)}, {MessagePlace(m)})
    BY <2>1, <2>2, <2>4, <2>5, HandedOn
  <2>7. ThreadPlace(t) = <<"riding", f>> /\ MessagePlace(m) = <<"delivered", f>>
    BY <2>1, <2>2 DEF ThreadPlace, MessagePlace
  <2>8. QED
    BY <2>1, <2>3, <2>6, <2>7, MoveIsStep DEF OnTheWay
<1>3. CASE CheckMarker(t)
  <2>1. t.msg.id \notin Orders
    BY <1>3, HandlerOf, IdsApart DEF CheckMarker
  <2>2. /\ UNCHANGED <<net, lost, main, orders_store>>
        /\ \/ Finish(t)
           \/ \E c : threads' = (threads \ {t}) \cup {[t EXCEPT !.pc = "report", !.saved = c]}
    BY <1>3 DEF CheckMarker, StampState, DuplicateMarker, Keep
  <2>3. \A o \in Orders : MessagesOf(o)' = MessagesOf(o)
    BY <2>2 DEF MessagesOf
  <2>4. CASE Finish(t)
    BY <2>1, <2>2, <2>3, <2>4, Ending
  <2>5. ASSUME NEW c,
               threads' = (threads \ {t}) \cup {[t EXCEPT !.pc = "report", !.saved = c]}
        PROVE  Kept
    BY <2>2, <2>3, <2>5, GoingOn, SameMessage
  <2>6. QED
    BY <2>2, <2>4, <2>5
<1>4. CASE ReportState(t)
  <2>1. t.msg.id \notin Orders
    BY <1>4, HandlerOf, IdsApart DEF ReportState
  <2>2. PICK m : m.id = t.msg.id /\ net' = net \cup {m}
    BY <1>4, MsgParts DEF ReportState
  <2>3. QED
    BY <1>4, <2>1, <2>2, OtherMessage, Ending DEF ReportState
<1>5. QED
  BY <1>1, <1>2, <1>3, <1>4 DEF RunnerStep

----------------------------------------------------------------------------
(* The refinement.                                                         *)

\* At the start no order exists, and each is new.
LEMMA InitOnTheWay == Init => OnePlaceInv /\ Way!Init
<1> SUFFICES ASSUME Init PROVE OnePlaceInv /\ Way!Init
  OBVIOUS
<1>1. \A o \in Orders : Holders(o, {o}, {}, {}, {})
  BY DEF Init, Holders, MainOf, MessagesOf, ThreadsOf, Menu
<1>2. \A o \in Orders : PlacesOf(o) = {<<"new">>}
  <2>1. \A o \in Orders : PlacesOf(o) = PlacesIn({o}, {}, {}, {})
    BY <1>1, PlacesHeld DEF Holders
  <2>2. QED
    BY <2>1, OnePlace
<1>3. OnePlaceInv
  BY <1>1 DEF OnePlaceInv, AtOnePlace
<1>4. QED
  BY <1>2, <1>3 DEF Init, Way!Init, Way!New

\* A step of the programs moves at most one order, by one place.
LEMMA StepOnTheWay == TypeOK /\ TypeOK' /\ OnePlaceInv /\ [Next]_vars => Kept
<1> SUFFICES ASSUME TypeOK, TypeOK', OnePlaceInv, [Next]_vars PROVE Kept
  OBVIOUS
<1>1. CASE Command \/ MainStep
  BY <1>1, MainOnTheWay
<1>2. CASE Arrival
  BY <1>2, ArrivalOnTheWay DEF Arrival
<1>3. CASE HandlerStep
  BY <1>3, CoordinatorOnTheWay, RestaurantOnTheWay, RunnerOnTheWay DEF HandlerStep
<1>4. CASE Failure
  BY <1>4, LossOnTheWay DEF Failure
<1>5. CASE UNCHANGED vars
  <2>1. \A o \in Orders : Undisturbed(o)
    BY <1>5 DEF vars, coordinatorVars, Undisturbed, MainOf, MessagesOf, ThreadsOf
  <2>2. QED
    BY <1>5, <2>1, UndisturbedStays, SettledIsStutter DEF vars
<1>6. QED
  BY <1>1, <1>2, <1>3, <1>4, <1>5 DEF Next

\* The five programs take every order along its way, from one place to the next
\* and never to two at once, for any restaurants, runners and orders.
THEOREM ImplementsOrderWay == Spec => OrdersOnTheirWay
<1>1. Init => OnePlaceInv /\ Way!Init
  BY InitOnTheWay
<1>2. TypeOK /\ TypeOK' /\ OnePlaceInv /\ [Next]_vars => OnePlaceInv' /\ [Way!Next]_(Way!vars)
  BY StepOnTheWay DEF Kept
<1>3. QED
  BY <1>1, <1>2, TypeCorrect, PTL DEF Spec, OrdersOnTheirWay, Way!Spec

=============================================================================
