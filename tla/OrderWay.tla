------------------------------ MODULE OrderWay ------------------------------
(***************************************************************************)
(* What the programs promise about an order: it is created once, goes to   *)
(* one restaurant, from there to that restaurant's partner and back to P0, *)
(* one place after the other, and it is at one place at a time until it is *)
(* over.  Only a send that fails ends it on the way, and of those there    *)
(* are no more than lost says.                                             *)
(***************************************************************************)
EXTENDS Naturals

CONSTANTS
    Orders,
    Restaurants,
    Partner,        \* the runner of each restaurant
    MaxLoss

VARIABLES
    places,     \* where each order is, and at whom: {} when it is over
    lost        \* how many sends failed so far

vars == <<places, lost>>

New == {<<"new">>}
Over == {}

\* The places on the way of an order for restaurant r
Created(r) == {<<"created", r>>}
Ordered(r) == {<<"ordered", r>>}
Cooking(r) == {<<"cooking", r>>}
HandedOver(f) == {<<"handed over", f>>}
Riding(f) == {<<"riding", f>>}
Delivered(f) == {<<"delivered", f>>}
Confirming(f) == {<<"confirming", f>>}

Init ==
    /\ places = [o \in Orders |-> New]
    /\ lost = 0

Move(o, from, to) ==
    /\ places[o] = from
    /\ places' = [places EXCEPT ![o] = to]
    /\ UNCHANGED lost

Advance(o, r) ==
    \/ Move(o, New, Created(r))
    \/ Move(o, Created(r), Ordered(r))
    \/ Move(o, Ordered(r), Cooking(r))
    \/ Move(o, Cooking(r), HandedOver(Partner[r]))
    \/ Move(o, HandedOver(Partner[r]), Riding(Partner[r]))
    \/ Move(o, Riding(Partner[r]), Delivered(Partner[r]))
    \/ Move(o, Delivered(Partner[r]), Confirming(Partner[r]))
    \/ Move(o, Confirming(Partner[r]), Over)

Lose ==
    /\ lost < MaxLoss
    /\ lost' = lost + 1
    /\ \/ UNCHANGED places
       \/ \E o \in Orders, r \in Restaurants :
            /\ places[o] \in {Ordered(r), HandedOver(Partner[r]), Delivered(Partner[r])}
            /\ places' = [places EXCEPT ![o] = Over]

Next == (\E o \in Orders, r \in Restaurants : Advance(o, r)) \/ Lose

Spec == Init /\ [][Next]_vars

=============================================================================
