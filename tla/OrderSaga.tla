------------------------------ MODULE OrderSaga ------------------------------
(***************************************************************************)
(* The ordering saga: OrderSagaService.placeOrder, one coordinator per     *)
(* order, and SagaReconciliationService, the sweep that resolves orders    *)
(* whose coordinator never finished.                                       *)
(*                                                                         *)
(* Every database call of the code is a transaction of its own, so every   *)
(* call is one action, together with the synchronous code up to the next   *)
(* await.  An action is named for the call; the phase a process is in      *)
(* names the call it makes next.  No call is protected by a lock or by a   *)
(* condition on the status it overwrites.                                  *)
(*                                                                         *)
(* A cart's order is the buyer's choice and the queries have no ORDER BY,  *)
(* so vendors, lines and swept orders are taken in any order.              *)
(***************************************************************************)
EXTENDS StockTable

CONSTANTS
    Orders,       \* the orders buyers may place
    Vendors,      \* the vendors
    Lines,        \* the line items of all orders
    OrderOf,      \* the order of each line
    ListingOf,    \* the listing of each line
    QuantityOf,   \* the quantity of each line
    VendorOf,     \* the vendor of each listing
    Sweepers,     \* the processes that run the sweep
    Overlap,      \* may the saga timeout expire on a live coordinator?
    CrashPoints   \* the phases in which a process may stop

CoordinatorPhases ==
    {"attempt", "reserve", "undo", "fail", "logfail", "succeed", "logsucceed",
     "confirm", "comp", "release", "rollback", "logrollback", "close"}

SweepPhases ==
    {"sweep_read", "sweep_release", "sweep_mark", "sweep_log", "sweep_close"}

(* A suborder is identified by its order and its vendor (migration.sql has  *)
(* UNIQUE (customer_order_id, vendor_id)).                                  *)
OrderLines(o) == {ln \in Lines : OrderOf[ln] = o}
LinesOf(o, v) == {ln \in OrderLines(o) : VendorOf[ListingOf[ln]] = v}
VendorsOf(o) == {VendorOf[ListingOf[ln]] : ln \in OrderLines(o)}

ASSUME SagaAssumption ==
    /\ OrderOf \in [Lines -> Orders]
    /\ ListingOf \in [Lines -> Listings]
    /\ QuantityOf \in [Lines -> Quantities]
    /\ VendorOf \in [Listings -> Vendors]
    /\ \A o \in Orders : OrderLines(o) # {}      \* an empty cart is refused
    /\ Overlap \in BOOLEAN
    /\ CrashPoints \subseteq CoordinatorPhases \union SweepPhases

VARIABLES
    order,    \* customer_orders.status
    sub,      \* vendor_suborders.status
    steps,    \* saga_steps, as the set of (step type, vendor) of each order
    expired,  \* is created_at older than the saga timeout?
    pc,       \* the phase of each coordinator
    queue,    \* vendors its current loop has still to visit
    ven,      \* the vendor its current loop is at
    todo,     \* lines its current inner loop has still to visit
    won,      \* vendors whose suborder succeeded (suborderResults)
    at,       \* the phase of each sweeper
    batch,    \* orders of its pass not yet closed (stuckOrders)
    seen,     \* suborder statuses its query read and has not yet handled
    cur,      \* the order it is compensating
    curVen,   \* the suborder it is compensating
    curTodo   \* lines of that suborder still to release

coordVars == <<pc, queue, ven, todo, won>>
sweepVars == <<at, batch, seen, cur, curVen, curTodo>>
dbVars == <<order, sub, steps>>
vars == <<inventory, order, sub, steps, expired, coordVars, sweepVars>>

None == "none"
NoSubs == [o \in Orders |-> [v \in Vendors |-> "NONE"]]

Init ==
    /\ StockInit
    /\ order = [o \in Orders |-> "NONE"]
    /\ sub = NoSubs
    /\ steps = [o \in Orders |-> {}]
    /\ expired = [o \in Orders |-> FALSE]
    /\ pc = [o \in Orders |-> "start"]
    /\ queue = [o \in Orders |-> {}]
    /\ ven = [o \in Orders |-> None]
    /\ todo = [o \in Orders |-> {}]
    /\ won = [o \in Orders |-> {}]
    /\ at = [s \in Sweepers |-> "idle"]
    /\ batch = [s \in Sweepers |-> {}]
    /\ seen = [s \in Sweepers |-> NoSubs]
    /\ cur = [s \in Sweepers |-> None]
    /\ curVen = [s \in Sweepers |-> None]
    /\ curTodo = [s \in Sweepers |-> {}]

-----------------------------------------------------------------------------
(* Writes of one statement each, all unconditional. *)

SetOrder(o, st) == order' = [order EXCEPT ![o] = st]
SetSub(o, v, st) == sub' = [sub EXCEPT ![o][v] = st]
RecordStep(o, type, v) == steps' = [steps EXCEPT ![o] = @ \union {<<type, v>>}]

Goto(o, phase) == pc' = [pc EXCEPT ![o] = phase]
SetTodo(o, S) == todo' = [todo EXCEPT ![o] = S]

(* The coordinator turns to one of the vendors S, or has none left. *)
Visit(o, S, phase, after) ==
    \/ /\ S = {}
       /\ Goto(o, after)
       /\ queue' = [queue EXCEPT ![o] = {}]
       /\ ven' = [ven EXCEPT ![o] = None]
    \/ \E v \in S :
       /\ Goto(o, phase)
       /\ queue' = [queue EXCEPT ![o] = S \ {v}]
       /\ ven' = [ven EXCEPT ![o] = v]

(* Once every vendor was attempted: confirm if all succeeded, otherwise     *)
(* compensate those that did.  Two variants a careless edit would leave:    *)
(* compensating at the first failure, and confirming on any success.        *)
NextVendorEager(o, succeeded) ==
    IF queue[o] # {} /\ ven[o] \in succeeded
    THEN Visit(o, queue[o], "attempt", "confirm")
    ELSE IF succeeded = VendorsOf(o) THEN Visit(o, {}, "attempt", "confirm")
    ELSE Visit(o, succeeded, "comp", "close")

NextVendorLenient(o, succeeded) ==
    IF queue[o] # {} THEN Visit(o, queue[o], "attempt", "confirm")
    ELSE IF succeeded # {} THEN Visit(o, {}, "attempt", "confirm")
    ELSE Visit(o, succeeded, "comp", "close")

NextVendor(o, succeeded) ==
    IF queue[o] # {} THEN Visit(o, queue[o], "attempt", "confirm")
    ELSE IF succeeded = VendorsOf(o) THEN Visit(o, {}, "attempt", "confirm")
    ELSE Visit(o, succeeded, "comp", "close")

-----------------------------------------------------------------------------
(* placeOrder: the initial transaction, then one visit per vendor. *)

PlaceOrder(o) ==
    /\ pc[o] = "start"
    /\ SetOrder(o, "PENDING")
    /\ sub' = [sub EXCEPT ![o] =
                 [v \in Vendors |-> IF v \in VendorsOf(o)
                                    THEN "PENDING_RESERVATION" ELSE "NONE"]]
    /\ Visit(o, VendorsOf(o), "attempt", "confirm")
    /\ UNCHANGED <<inventory, steps, expired, todo, won, sweepVars>>

RecordReserveAttempted(o) ==
    /\ pc[o] = "attempt"
    /\ RecordStep(o, "RESERVE_ATTEMPTED", ven[o])
    /\ SetTodo(o, LinesOf(o, ven[o]))
    /\ Goto(o, "reserve")
    /\ UNCHANGED <<inventory, order, sub, expired, queue, ven, won, sweepVars>>

(* The line is reserved, and the loop goes on ... *)
ReserveLine(o) ==
    /\ pc[o] = "reserve"
    /\ \E ln \in todo[o] :
          /\ ReserveStock(ListingOf[ln], QuantityOf[ln])
          /\ SetTodo(o, todo[o] \ {ln})
          /\ Goto(o, IF todo[o] = {ln} THEN "succeed" ELSE "reserve")
    /\ UNCHANGED <<dbVars, expired, queue, ven, won, sweepVars>>

(* ... or there is not enough stock, and the loop stops with the lines it   *)
(* reserved before (successfullyReservedItems) left to undo; UndoNothing    *)
(* is that list never filled.                                               *)
UndoNothing(o) == {}
LinesReserved(o) == LinesOf(o, ven[o]) \ todo[o]

ReserveRefused(o) ==
    /\ pc[o] = "reserve"
    /\ \E ln \in todo[o] : ~CanReserve(ListingOf[ln], QuantityOf[ln])
    /\ SetTodo(o, LinesReserved(o))
    /\ Goto(o, IF LinesReserved(o) = {} THEN "fail" ELSE "undo")
    /\ UNCHANGED <<inventory, dbVars, expired, queue, ven, won, sweepVars>>

(* One release of a loop over lines; its boolean result is not looked at. *)
ReleaseLine(o, phase, after) ==
    /\ pc[o] = phase
    /\ \E ln \in todo[o] :
          /\ TryRelease(ListingOf[ln], QuantityOf[ln])
          /\ SetTodo(o, todo[o] \ {ln})
          /\ Goto(o, IF todo[o] = {ln} THEN after ELSE phase)
    /\ UNCHANGED <<dbVars, expired, queue, ven, won, sweepVars>>

UndoLine(o) == ReleaseLine(o, "undo", "fail")

MarkReservationFailed(o) ==
    /\ pc[o] = "fail"
    /\ SetSub(o, ven[o], "RESERVATION_FAILED")
    /\ Goto(o, "logfail")
    /\ UNCHANGED <<inventory, order, steps, expired, queue, ven, todo, won,
                   sweepVars>>

RecordReserveFailed(o) ==
    /\ pc[o] = "logfail"
    /\ RecordStep(o, "RESERVE_FAILED", ven[o])
    /\ NextVendor(o, won[o])
    /\ UNCHANGED <<inventory, order, sub, expired, todo, won, sweepVars>>

MarkReserved(o) ==
    /\ pc[o] = "succeed"
    /\ SetSub(o, ven[o], "RESERVED")
    /\ Goto(o, "logsucceed")
    /\ UNCHANGED <<inventory, order, steps, expired, queue, ven, todo, won,
                   sweepVars>>

RecordReserveSucceeded(o) ==
    /\ pc[o] = "logsucceed"
    /\ RecordStep(o, "RESERVE_SUCCEEDED", ven[o])
    /\ won' = [won EXCEPT ![o] = @ \union {ven[o]}]
    /\ NextVendor(o, won[o] \union {ven[o]})
    /\ UNCHANGED <<inventory, order, sub, expired, todo, sweepVars>>

(* The buyer is answered CONFIRMED ... *)
ConfirmOrder(o) ==
    /\ pc[o] = "confirm"
    /\ SetOrder(o, "CONFIRMED")
    /\ Goto(o, "confirmed")
    /\ UNCHANGED <<inventory, sub, steps, expired, queue, ven, todo, won,
                   sweepVars>>

RecordCompensationAttempted(o) ==
    /\ pc[o] = "comp"
    /\ RecordStep(o, "COMPENSATION_ATTEMPTED", ven[o])
    /\ SetTodo(o, LinesOf(o, ven[o]))
    /\ Goto(o, "release")
    /\ UNCHANGED <<inventory, order, sub, expired, queue, ven, won, sweepVars>>

CompensateLine(o) == ReleaseLine(o, "release", "rollback")

MarkRolledBack(o) ==
    /\ pc[o] = "rollback"
    /\ SetSub(o, ven[o], "ROLLED_BACK")
    /\ Goto(o, "logrollback")
    /\ UNCHANGED <<inventory, order, steps, expired, queue, ven, todo, won,
                   sweepVars>>

RecordCompensationSucceeded(o) ==
    /\ pc[o] = "logrollback"
    /\ RecordStep(o, "COMPENSATION_SUCCEEDED", ven[o])
    /\ Visit(o, queue[o], "comp", "close")
    /\ UNCHANGED <<inventory, order, sub, expired, todo, won, sweepVars>>

(* ... or FAILED. *)
FailOrder(o) ==
    /\ pc[o] = "close"
    /\ SetOrder(o, "FAILED")
    /\ Goto(o, "failed")
    /\ UNCHANGED <<inventory, sub, steps, expired, queue, ven, todo, won,
                   sweepVars>>

(* The process stops, or the call throws: placeOrder has no catch, so       *)
(* either way the rest of the saga is never run.                            *)
Crash(o) ==
    /\ pc[o] \in CrashPoints
    /\ Goto(o, "crashed")
    /\ queue' = [queue EXCEPT ![o] = {}]
    /\ ven' = [ven EXCEPT ![o] = None]
    /\ SetTodo(o, {})
    /\ won' = [won EXCEPT ![o] = {}]
    /\ UNCHANGED <<inventory, dbVars, expired, sweepVars>>

(* created_at falls behind the cutoff of the sweep.  Without Overlap the    *)
(* timeout is taken to be longer than any coordinator lives.                *)
Expire(o) ==
    /\ order[o] = "PENDING"
    /\ ~expired[o]
    /\ Overlap \/ pc[o] = "crashed"
    /\ expired' = [expired EXCEPT ![o] = TRUE]
    /\ UNCHANGED <<inventory, dbVars, coordVars, sweepVars>>

-----------------------------------------------------------------------------
(* sweepStuckOrders and compensateStuckOrder.  isSweeping is at # "idle":   *)
(* a timer tick during a pass of the same process returns at once.          *)

(* The suborder statuses the sweep acts on, and those it releases stock     *)
(* for.  The sets before each of them have a status forgotten or added.      *)
ReservedOnly == {"RESERVED"}
AllButFailed == {"PENDING_RESERVATION", "RESERVED", "ROLLED_BACK"}
Compensable == {"PENDING_RESERVATION", "RESERVED"}

ReleasableEager == {"PENDING_RESERVATION", "RESERVED"}
ReleasableNone == {}
Releasable == {"RESERVED"}

(* The sweeper turns to a suborder of o that its snapshot sn calls for, or  *)
(* has none left.  Only a suborder read as RESERVED has its lines released. *)
Turn(s, o, sn) ==
    /\ cur' = [cur EXCEPT ![s] = o]
    /\ seen' = [seen EXCEPT ![s] = sn]
    /\ \/ /\ \A v \in Vendors : sn[o][v] \notin Compensable
          /\ at' = [at EXCEPT ![s] = "sweep_close"]
          /\ curVen' = [curVen EXCEPT ![s] = None]
          /\ curTodo' = [curTodo EXCEPT ![s] = {}]
       \/ \E v \in Vendors :
          /\ sn[o][v] \in Compensable
          /\ curVen' = [curVen EXCEPT ![s] = v]
          /\ IF sn[o][v] \in Releasable
             THEN /\ at' = [at EXCEPT ![s] = "sweep_release"]
                  /\ curTodo' = [curTodo EXCEPT ![s] = LinesOf(o, v)]
             ELSE /\ at' = [at EXCEPT ![s] = "sweep_mark"]
                  /\ curTodo' = [curTodo EXCEPT ![s] = {}]

(* What the sweep's query selects; the two variants before Stuck forget the *)
(* cutoff, and look only for orders with stock to give back.                *)
StuckIgnoringTimeout(o) == order[o] = "PENDING"
StuckHoldingStock(o) ==
    order[o] = "PENDING" /\ expired[o] /\ \E v \in Vendors : sub[o][v] = "RESERVED"
Stuck(o) == order[o] = "PENDING" /\ expired[o]

(* The query selects the stuck orders, and Prisma loads their suborders with *)
(* a query of its own.                                                      *)
SweepBegin(s) ==
    /\ at[s] = "idle"
    /\ \E o \in Orders : Stuck(o)
    /\ batch' = [batch EXCEPT ![s] = {o \in Orders : Stuck(o)}]
    /\ at' = [at EXCEPT ![s] = "sweep_read"]
    /\ UNCHANGED <<inventory, dbVars, expired, coordVars, seen, cur, curVen,
                   curTodo>>

Snapshot(S) == [o \in Orders |-> IF o \in S THEN sub[o] ELSE NoSubs[o]]

SweepReadSuborders(s) ==
    /\ at[s] = "sweep_read"
    /\ \E o \in batch[s] : Turn(s, o, Snapshot(batch[s]))
    /\ UNCHANGED <<inventory, dbVars, expired, coordVars, batch>>

SweepReleaseLine(s) ==
    /\ at[s] = "sweep_release"
    /\ \E ln \in curTodo[s] :
          /\ TryRelease(ListingOf[ln], QuantityOf[ln])
          /\ curTodo' = [curTodo EXCEPT ![s] = @ \ {ln}]
          /\ at' = [at EXCEPT ![s] =
                      IF curTodo[s] = {ln} THEN "sweep_mark" ELSE "sweep_release"]
    /\ UNCHANGED <<dbVars, expired, coordVars, batch, seen, cur, curVen>>

SweepMarkRolledBack(s) ==
    /\ at[s] = "sweep_mark"
    /\ SetSub(cur[s], curVen[s], "ROLLED_BACK")
    /\ at' = [at EXCEPT ![s] = "sweep_log"]
    /\ UNCHANGED <<inventory, order, steps, expired, coordVars, batch, seen,
                   cur, curVen, curTodo>>

SweepRecordCompensated(s) ==
    /\ at[s] = "sweep_log"
    /\ RecordStep(cur[s], "SWEEP_COMPENSATED", curVen[s])
    /\ Turn(s, cur[s], [seen[s] EXCEPT ![cur[s]][curVen[s]] = "NONE"])
    /\ UNCHANGED <<inventory, order, sub, expired, coordVars, batch>>

(* The sweeper forgets its pass. *)
SweepIdle(s) ==
    /\ at' = [at EXCEPT ![s] = "idle"]
    /\ batch' = [batch EXCEPT ![s] = {}]
    /\ seen' = [seen EXCEPT ![s] = NoSubs]
    /\ cur' = [cur EXCEPT ![s] = None]
    /\ curVen' = [curVen EXCEPT ![s] = None]
    /\ curTodo' = [curTodo EXCEPT ![s] = {}]

SweepFailOrder(s) ==
    /\ at[s] = "sweep_close"
    /\ SetOrder(cur[s], "FAILED")
    /\ \/ batch[s] = {cur[s]} /\ SweepIdle(s)
       \/ /\ batch' = [batch EXCEPT ![s] = @ \ {cur[s]}]
          /\ \E o \in batch[s] \ {cur[s]} : Turn(s, o, seen[s])
    /\ UNCHANGED <<inventory, sub, steps, expired, coordVars>>

(* The process stops, or a call throws: the pass ends, and the next tick of *)
(* this or of a restarted process begins a new one.                         *)
SweepAbort(s) ==
    /\ at[s] \in CrashPoints
    /\ SweepIdle(s)
    /\ UNCHANGED <<inventory, dbVars, expired, coordVars>>

(* A vendor reports a new count (AdjustStockHandler). *)
VendorRestocks(l, n) ==
    /\ AdjustOnHand(l, n)
    /\ UNCHANGED <<dbVars, expired, coordVars, sweepVars>>

-----------------------------------------------------------------------------
Coordinator(o) ==
    \/ RecordReserveAttempted(o) \/ ReserveLine(o) \/ ReserveRefused(o)
    \/ UndoLine(o) \/ MarkReservationFailed(o) \/ RecordReserveFailed(o)
    \/ MarkReserved(o) \/ RecordReserveSucceeded(o)
    \/ ConfirmOrder(o)
    \/ RecordCompensationAttempted(o) \/ CompensateLine(o)
    \/ MarkRolledBack(o) \/ RecordCompensationSucceeded(o)
    \/ FailOrder(o)

Sweep(s) ==
    \/ SweepBegin(s) \/ SweepReadSuborders(s) \/ SweepReleaseLine(s)
    \/ SweepMarkRolledBack(s) \/ SweepRecordCompensated(s) \/ SweepFailOrder(s)

Next ==
    \/ \E o \in Orders : PlaceOrder(o) \/ Coordinator(o) \/ Crash(o) \/ Expire(o)
    \/ \E s \in Sweepers : Sweep(s) \/ SweepAbort(s)
    \/ \E l \in Listings, n \in Counts : VendorRestocks(l, n)

Spec == Init /\ [][Next]_vars

(* A running process keeps running, time passes, and the sweep's timer      *)
(* fires while its process lives.  Nothing forces an order, a crash or a    *)
(* restock.                                                                 *)
Fairness ==
    /\ \A o \in Orders : WF_vars(Coordinator(o)) /\ WF_vars(Expire(o))
    /\ \A s \in Sweepers : WF_vars(Sweep(s))

FairSpec == Spec /\ Fairness
=============================================================================
