----------------------------- MODULE StockTable -----------------------------
(***************************************************************************)
(* The inventory table and the three conditional UPDATE statements that    *)
(* are the only writers of its rows: reserveStock and releaseStock of      *)
(* WriteDbService, and the UPDATE of AdjustStockHandler.  Each statement   *)
(* is one atomic step: PostgreSQL locks the row, re-evaluates the WHERE    *)
(* clause on the current row and updates it, or matches no row.            *)
(*                                                                         *)
(* The module is both the base of the modules that use the table and the   *)
(* contract they are shown to keep (StockSpec).                            *)
(***************************************************************************)
EXTENDS Integers

CONSTANTS
    Listings,    \* the listings that have an inventory row
    Quantities,  \* the quantities a caller may reserve or release
    Counts       \* the on-hand counts a vendor may report

ASSUME StockAssumption ==
    /\ Quantities \subseteq Nat \ {0}
    /\ Counts \subseteq Nat

VARIABLE inventory   \* the on-hand and reserved quantity of each listing

-----------------------------------------------------------------------------
(* The WHERE clauses.  The other half of each pair drops the condition: the *)
(* statement a careless edit would leave.                                   *)

Available(l) == inventory[l].onHand - inventory[l].reserved

CanReserveUnchecked(l, q) == TRUE
CanReserve(l, q) == Available(l) >= q

CanReleaseUnchecked(l, q) == TRUE
CanRelease(l, q) == inventory[l].reserved >= q

CanAdjustUnchecked(l, n) == TRUE
CanAdjust(l, n) == n >= inventory[l].reserved

(* The statements.  A statement whose WHERE clause fails updates no row and *)
(* returns no row; TryRelease is a release whose caller ignores the result. *)

ReserveStock(l, q) ==
    /\ CanReserve(l, q)
    /\ inventory' = [inventory EXCEPT ![l].reserved = @ + q]

ReleaseStock(l, q) ==
    /\ CanRelease(l, q)
    /\ inventory' = [inventory EXCEPT ![l].reserved = @ - q]

TryRelease(l, q) ==
    \/ ReleaseStock(l, q)
    \/ ~CanRelease(l, q) /\ UNCHANGED inventory

AdjustOnHand(l, n) ==
    /\ CanAdjust(l, n)
    /\ inventory' = [inventory EXCEPT ![l].onHand = n]

-----------------------------------------------------------------------------
(* A row is created with its listing, holding nothing. *)
StockInit == inventory \in [Listings -> [onHand : Counts, reserved : {0}]]

StockNext ==
    \E l \in Listings :
        \/ \E q \in Quantities : ReserveStock(l, q) \/ ReleaseStock(l, q)
        \/ \E n \in Counts : AdjustOnHand(l, n)

StockSpec == StockInit /\ [][StockNext]_inventory

-----------------------------------------------------------------------------
(* Every row has a natural on-hand and reserved quantity. *)
StockTypeOK == inventory \in [Listings -> [onHand : Nat, reserved : Nat]]

(* No listing is oversold: what is reserved never exceeds what is on hand   *)
(* and never drops below zero.  These are the CHECK constraints of the      *)
(* table; the model states them and does not enforce them, so the invariant *)
(* says that the WHERE clauses alone leave the constraints nothing to       *)
(* reject, and no caller ever sees a constraint error.                      *)
NoOversell ==
    \A l \in Listings :
        0 <= inventory[l].reserved /\ inventory[l].reserved <= inventory[l].onHand

(* The statements keep to the domain model: whoever calls them, each change *)
(* of a row is one a method of the Inventory aggregate would have made.     *)
Domain == INSTANCE InventoryAggregate

RowsFollowDomain == Domain!AggregateSpec
=============================================================================
