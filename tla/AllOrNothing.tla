---------------------------- MODULE AllOrNothing ----------------------------
(***************************************************************************)
(* What a multi-vendor order promises, with no coordinator, suborder or    *)
(* sweep in sight: lines of a PENDING order take units from the stock      *)
(* table and give them back one at a time; an order is CONFIRMED only when *)
(* it holds every one of its lines and FAILED only when it holds none; and *)
(* nothing happens to an order once it is CONFIRMED or FAILED.             *)
(*                                                                         *)
(* Every change of a reserved quantity belongs to a line, so no unit is    *)
(* leaked and none is given back twice.                                    *)
(***************************************************************************)
EXTENDS StockTable

CONSTANTS
    Orders,      \* the orders buyers may place
    Lines,       \* their line items
    OrderOf,     \* the order of each line
    ListingOf,   \* the listing of each line
    QuantityOf   \* the quantity of each line

VARIABLES
    status,      \* the status of each order
    holding      \* the lines whose units are reserved

bookVars == <<inventory, status, holding>>

OrderLines(o) == {ln \in Lines : OrderOf[ln] = o}

BookInit ==
    /\ StockInit
    /\ status = [o \in Orders |-> "NONE"]
    /\ holding = {}

Place(o) ==
    /\ status[o] = "NONE"
    /\ status' = [status EXCEPT ![o] = "PENDING"]
    /\ UNCHANGED <<inventory, holding>>

Hold(ln) ==
    /\ status[OrderOf[ln]] = "PENDING"
    /\ ln \notin holding
    /\ ReserveStock(ListingOf[ln], QuantityOf[ln])
    /\ holding' = holding \union {ln}
    /\ UNCHANGED status

Drop(ln) ==
    /\ status[OrderOf[ln]] = "PENDING"
    /\ ln \in holding
    /\ ReleaseStock(ListingOf[ln], QuantityOf[ln])
    /\ holding' = holding \ {ln}
    /\ UNCHANGED status

Confirm(o) ==
    /\ status[o] = "PENDING"
    /\ OrderLines(o) \subseteq holding
    /\ status' = [status EXCEPT ![o] = "CONFIRMED"]
    /\ UNCHANGED <<inventory, holding>>

Fail(o) ==
    /\ status[o] = "PENDING"
    /\ OrderLines(o) \intersect holding = {}
    /\ status' = [status EXCEPT ![o] = "FAILED"]
    /\ UNCHANGED <<inventory, holding>>

Restock(l, n) == AdjustOnHand(l, n) /\ UNCHANGED <<status, holding>>

BookNext ==
    \/ \E o \in Orders : Place(o) \/ Confirm(o) \/ Fail(o)
    \/ \E ln \in Lines : Hold(ln) \/ Drop(ln)
    \/ \E l \in Listings, n \in Counts : Restock(l, n)

BookSpec == BookInit /\ [][BookNext]_bookVars
=============================================================================
