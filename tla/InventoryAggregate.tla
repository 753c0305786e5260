-------------------------- MODULE InventoryAggregate --------------------------
(***************************************************************************)
(* The rules of stock as the domain model states them: the methods of the  *)
(* Inventory aggregate.  No handler constructs it.  The handlers use SQL   *)
(* statements (StockTable) that state the same rules a second time, so the *)
(* aggregate serves as the specification of those statements.              *)
(*                                                                         *)
(* A method that throws changes nothing: what makes it throw is negated in *)
(* its guard.  The events it applies are published by nobody and left out. *)
(***************************************************************************)
EXTENDS Integers

CONSTANTS Listings, Quantities, Counts
VARIABLE inventory

AvailableQuantity(l) == inventory[l].onHand - inventory[l].reserved

Reserve(l, qty) ==
    /\ ~(qty <= 0)
    /\ ~(AvailableQuantity(l) < qty)
    /\ inventory' = [inventory EXCEPT ![l].reserved = @ + qty]

Release(l, qty) ==
    /\ ~(qty <= 0)
    /\ ~(inventory[l].reserved < qty)
    /\ inventory' = [inventory EXCEPT ![l].reserved = @ - qty]

AdjustOnHand(l, newCount) ==
    /\ ~(newCount < 0)
    /\ ~(newCount < inventory[l].reserved)
    /\ inventory' = [inventory EXCEPT ![l].onHand = newCount]

AggregateInit == inventory \in [Listings -> [onHand : Counts, reserved : {0}]]

AggregateNext ==
    \E l \in Listings :
        \/ \E qty \in Quantities : Reserve(l, qty) \/ Release(l, qty)
        \/ \E newCount \in Counts : AdjustOnHand(l, newCount)

AggregateSpec == AggregateInit /\ [][AggregateNext]_inventory
=============================================================================
