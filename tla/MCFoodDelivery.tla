--------------------------- MODULE MCFoodDelivery ---------------------------
(***************************************************************************)
(* Instances of FoodDelivery for TLC: one restaurant with one runner, or   *)
(* the deployed topology of two of each.                                   *)
(***************************************************************************)
EXTENDS FoodDelivery

CONSTANTS r1, r2, f1, f2

\* An order or snapshots, not both: the two together are the subject of run Cut.
MCOrderOrSnapshots == orders_store = {} \/ \A s \in Snapshots : triggered[s] = 0

\* The menu is not used for a look at the snapshots.
MCNoLook == main'.pc # "view"

\* The menu is used for one look, as the last thing, which nothing interrupts.
MCOneLook == \A s \in Snapshots : \A v \in verdict[s] : v.by = "collected"

MCLookAtOnce == main.pc = "view" => main' # main

\* A send under the lock returns at once.
MCReleaseAtOnce == \A t \in threads : t.pc = "release" => t \notin threads'

\* A send under the lock returns at once unless an order waits for the lock.
MCReleaseSoon ==
    \A t \in threads : t.pc = "release" =>
        \/ t \notin threads'
        \/ \E m \in net' : m.type = "ORDER"
        \/ \E u \in threads' : u.pc = "handle"

\* The events of one process on an order, from one message to the next, follow
\* each other at once: its creation and dispatch, the stages of cooking it and
\* of delivering it, and its confirmation.
MCStagesAtOnce ==
    /\ main.pc = "dispatch" => main' # main
    /\ \A t \in threads :
          t.pc \in {"prepare", "ready", "transit", "deliver", "acknowledge"} => t \notin threads'

MCPartner == [r \in Restaurants |-> IF r = r1 THEN f1 ELSE f2]

=============================================================================
