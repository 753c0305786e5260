-------------------------- MODULE StockTableProofs --------------------------
(***************************************************************************)
(* The stock table keeps its CHECK constraints whatever its callers do:    *)
(* the WHERE clauses of the three statements are an inductive proof that   *)
(* no listing is ever oversold.                                            *)
(***************************************************************************)
EXTENDS StockTable, TLAPS

(* The inductive invariant: the rows have their type and no row is oversold. *)
StockInv == StockTypeOK /\ NoOversell

LEMMA StockInitSafe == StockInit => StockInv
<1> SUFFICES ASSUME StockInit PROVE StockInv
    OBVIOUS
<1>1. \A l \in Listings : inventory[l] \in [onHand : Counts, reserved : {0}]
    BY DEF StockInit
<1>2. Counts \subseteq Nat
    BY StockAssumption
<1>3. \A l \in Listings : /\ inventory[l] \in [onHand : Nat, reserved : Nat]
                           /\ inventory[l].reserved = 0
    <2> SUFFICES ASSUME NEW l \in Listings
                 PROVE  inventory[l] \in [onHand : Nat, reserved : Nat]
                        /\ inventory[l].reserved = 0
        OBVIOUS
    <2> DEFINE r == inventory[l]
    <2>1. r \in [onHand : Counts, reserved : {0}]
        BY <1>1
    <2>2. r = [onHand |-> r.onHand, reserved |-> r.reserved]
          /\ r.onHand \in Counts /\ r.reserved \in {0}
        BY <2>1
    <2> HIDE DEF r
    <2>3. r.onHand \in Nat /\ r.reserved = 0 /\ 0 \in Nat
        BY <2>2, <1>2
    <2>4. r \in [onHand : Nat, reserved : Nat]
        BY <2>2, <2>3
    <2> QED BY <2>3, <2>4 DEF r
<1>4. inventory = [l \in Listings |-> inventory[l]]
    BY DEF StockInit
<1> QED BY <1>3, <1>4 DEF StockInv, StockTypeOK, NoOversell

(* Each of the three statements keeps the invariant, for any listing and    *)
(* any quantity or count that is a natural number.                          *)
LEMMA ReserveSafe ==
    ASSUME StockInv, NEW l \in Listings, NEW q \in Nat, ReserveStock(l, q)
    PROVE  StockInv'
BY DEF StockInv, StockTypeOK, NoOversell, ReserveStock, CanReserve, Available

LEMMA ReleaseSafe ==
    ASSUME StockInv, NEW l \in Listings, NEW q \in Nat, ReleaseStock(l, q)
    PROVE  StockInv'
BY DEF StockInv, StockTypeOK, NoOversell, ReleaseStock, CanRelease

LEMMA AdjustSafe ==
    ASSUME StockInv, NEW l \in Listings, NEW n \in Nat, AdjustOnHand(l, n)
    PROVE  StockInv'
BY DEF StockInv, StockTypeOK, NoOversell, AdjustOnHand, CanAdjust

LEMMA StockStepSafe == StockInv /\ [StockNext]_inventory => StockInv'
<1> SUFFICES ASSUME StockInv, [StockNext]_inventory PROVE StockInv'
    OBVIOUS
<1> Quantities \subseteq Nat /\ Counts \subseteq Nat
    BY StockAssumption
<1>1. CASE UNCHANGED inventory
    BY <1>1 DEF StockInv, StockTypeOK, NoOversell
<1>2. CASE StockNext
    BY <1>2, ReserveSafe, ReleaseSafe, AdjustSafe DEF StockNext
<1> QED BY <1>1, <1>2

(* For every set of listings, quantities and counts: the stock table never  *)
(* holds a row its CHECK constraints would reject.                          *)
THEOREM StockTableSafe == StockSpec => [](StockTypeOK /\ NoOversell)
<1>1. StockSpec => []StockInv
    BY StockInitSafe, StockStepSafe, PTL DEF StockSpec
<1> QED BY <1>1, PTL DEF StockInv

-----------------------------------------------------------------------------
(* The two statements of the rules, in SQL and in the Inventory aggregate,  *)
(* allow the same steps, statement by statement.                            *)
LEMMA SameStatements ==
    ASSUME StockTypeOK, NEW l \in Listings
    PROVE  /\ \A q \in Quantities : ReserveStock(l, q) <=> Domain!Reserve(l, q)
           /\ \A q \in Quantities : ReleaseStock(l, q) <=> Domain!Release(l, q)
           /\ \A n \in Counts : AdjustOnHand(l, n) <=> Domain!AdjustOnHand(l, n)
<1>1. inventory[l].onHand \in Nat /\ inventory[l].reserved \in Nat
    BY DEF StockTypeOK
<1>2. ASSUME NEW q \in Quantities
      PROVE  /\ CanReserve(l, q) <=> ~(q <= 0) /\ ~(Domain!AvailableQuantity(l) < q)
             /\ CanRelease(l, q) <=> ~(q <= 0) /\ ~(inventory[l].reserved < q)
    <2>1. q \in Nat \ {0}
        BY StockAssumption
    <2> QED BY <1>1, <2>1
            DEF CanReserve, CanRelease, Available, Domain!AvailableQuantity
<1>3. ASSUME NEW n \in Counts
      PROVE  CanAdjust(l, n) <=> ~(n < 0) /\ ~(n < inventory[l].reserved)
    <2>1. n \in Nat
        BY StockAssumption
    <2> QED BY <1>1, <2>1 DEF CanAdjust
<1> QED
    BY <1>2, <1>3
    DEF ReserveStock, ReleaseStock, AdjustOnHand, Domain!Reserve, Domain!Release,
        Domain!AdjustOnHand

LEMMA SameSteps == StockTypeOK => (StockNext <=> Domain!AggregateNext)
BY SameStatements DEF StockNext, Domain!AggregateNext

(* The table's statements and the aggregate's methods have the same         *)
(* behaviours: neither copy of the rules allows what the other forbids.     *)
THEOREM TableIsDomain == StockSpec <=> RowsFollowDomain
<1>1. StockInit <=> Domain!AggregateInit
    BY DEF StockInit, Domain!AggregateInit
<1>2. StockInv => ([StockNext]_inventory <=> [Domain!AggregateNext]_inventory)
    BY SameSteps DEF StockInv
<1>3. StockInv /\ [Domain!AggregateNext]_inventory => StockInv'
    BY <1>2, StockStepSafe
<1> QED
    BY <1>1, <1>2, <1>3, StockInitSafe, StockStepSafe, PTL
    DEF StockSpec, RowsFollowDomain, Domain!AggregateSpec
=============================================================================
