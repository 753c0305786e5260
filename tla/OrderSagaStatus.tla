--------------------------- MODULE OrderSagaStatus ---------------------------
(***************************************************************************)
(* Theorems about the statuses of orders and suborders.  They hold for any *)
(* number of sweepers and stops at any call, provided the saga timeout is  *)
(* longer than a coordinator lives (~Overlap): then coordinator and sweep  *)
(* never write the rows of the same order.                                 *)
(***************************************************************************)
EXTENDS OrderSagaAudit

Closed == {"RESERVATION_FAILED", "ROLLED_BACK"}

(* The phases before and after a suborder's outcome is written.             *)
ReservingPhases == {"attempt", "reserve", "undo", "fail", "succeed"}
ReleasingPhases == {"comp", "release", "rollback"}

(* What the phase of a coordinator says of its order ...                    *)
OrderAt(o) ==
    /\ pc[o] = "start" => order[o] = "NONE" /\ won[o] = {}
    /\ pc[o] \in CoordinatorPhases => order[o] = "PENDING"
    /\ pc[o] = "confirmed" => order[o] = "CONFIRMED"
    /\ pc[o] = "failed" => order[o] = "FAILED"
    /\ pc[o] = "crashed" => order[o] \in {"PENDING", "FAILED"}
    /\ expired[o] => pc[o] = "crashed"

(* ... of the suborders while it reserves, one vendor after another ...     *)
Reserving(o) ==
    pc[o] \in LoopPhases =>
        /\ ven[o] \in VendorsOf(o) \ (queue[o] \union won[o])
        /\ queue[o] \subseteq VendorsOf(o) \ won[o]
        /\ won[o] \subseteq VendorsOf(o)
        /\ \A v \in queue[o] : sub[o][v] = "PENDING_RESERVATION"
        /\ \A v \in won[o] : sub[o][v] = "RESERVED"
        /\ \A v \in VendorsOf(o) \ (queue[o] \union won[o] \union {ven[o]}) :
              sub[o][v] = "RESERVATION_FAILED"
        /\ pc[o] \in ReservingPhases => sub[o][ven[o]] = "PENDING_RESERVATION"
        /\ pc[o] = "logfail" => sub[o][ven[o]] = "RESERVATION_FAILED"
        /\ pc[o] = "logsucceed" => sub[o][ven[o]] = "RESERVED"

(* ... and while it compensates; and what the order's own status says.      *)
Compensating(o) ==
    pc[o] \in CompensationPhases \ {"close"} =>
        /\ ven[o] \in VendorsOf(o) \ queue[o]
        /\ queue[o] \subseteq VendorsOf(o)
        /\ \A v \in queue[o] : sub[o][v] = "RESERVED"
        /\ \A v \in VendorsOf(o) \ (queue[o] \union {ven[o]}) : sub[o][v] \in Closed
        /\ pc[o] \in ReleasingPhases => sub[o][ven[o]] = "RESERVED"
        /\ pc[o] = "logrollback" => sub[o][ven[o]] = "ROLLED_BACK"

Outcome(o) ==
    /\ pc[o] \in {"confirm", "confirmed"} =>
          \A v \in VendorsOf(o) : sub[o][v] = "RESERVED"
    /\ pc[o] = "close" \/ order[o] = "FAILED" =>
          \A v \in VendorsOf(o) : sub[o][v] \in Closed
    /\ \A v \in Vendors :
          sub[o][v] = "NONE" <=> order[o] = "NONE" \/ v \notin VendorsOf(o)

CoordStatus(o) == OrderAt(o) /\ Reserving(o) /\ Compensating(o) /\ Outcome(o)

(* A sweeper's pass: its orders have expired, and what its snapshot calls   *)
(* for is either as it was read or compensated already, by whichever pass.  *)
SnapshotHolds(s, o) ==
    \A v \in Vendors :
        /\ seen[s][o][v] \in Compensable =>
              v \in VendorsOf(o) /\ sub[o][v] \in {seen[s][o][v], "ROLLED_BACK"}
        /\ v \in VendorsOf(o) => sub[o][v] \in Closed \/ seen[s][o][v] \in Compensable

SweepStatus(s) ==
    /\ at[s] # "idle" => \A o \in batch[s] : expired[o]
    /\ at[s] \notin {"idle", "sweep_read"} =>
          cur[s] \in batch[s] /\ \A o \in batch[s] : SnapshotHolds(s, o)
    /\ at[s] \in {"sweep_release", "sweep_mark", "sweep_log"} =>
          seen[s][cur[s]][curVen[s]] \in Compensable
    /\ at[s] = "sweep_log" => sub[cur[s]][curVen[s]] = "ROLLED_BACK"
    /\ at[s] = "sweep_close" =>
          \A v \in VendorsOf(cur[s]) : seen[s][cur[s]][v] \notin Compensable

StatusInv ==
    /\ \A o \in Orders : CoordStatus(o)
    /\ \A s \in Sweepers : SweepStatus(s)

-----------------------------------------------------------------------------
(* What the writes do to the rows, for the order they are about and others. *)

LEMMA SetSubFacts ==
    ASSUME TypeInv, NEW o \in Orders, NEW u \in Vendors, NEW st, SetSub(o, u, st)
    PROVE  /\ sub'[o][u] = st
           /\ \A v \in Vendors \ {u} : sub'[o][v] = sub[o][v]
           /\ \A x \in Orders \ {o} : sub'[x] = sub[x]
BY DEF TypeInv, TypeOK, SetSub

LEMMA SetOrderFacts ==
    ASSUME TypeInv, NEW o \in Orders, NEW st, SetOrder(o, st)
    PROVE  order'[o] = st /\ \A x \in Orders \ {o} : order'[x] = order[x]
BY DEF TypeInv, TypeOK, SetOrder

LEMMA StatusPhases ==
    /\ LoopPhases = {"attempt", "reserve", "undo", "fail", "logfail", "succeed",
                     "logsucceed"}
    /\ CompensationPhases = {"release", "rollback", "logrollback", "comp", "close"}
    /\ CoordinatorPhases = LoopPhases \union CompensationPhases \union {"confirm"}
    /\ ReservingPhases = {"attempt", "reserve", "undo", "fail", "succeed"}
    /\ ReleasingPhases = {"comp", "release", "rollback"}
BY DEF LoopPhases, CompensationPhases, CoordinatorPhases, ReservingPhases,
       ReleasingPhases

LEMMA CoordStatusFrame ==
    ASSUME NEW x \in Orders, CoordStatus(x), Untouched(x)
    PROVE  CoordStatus(x)'
BY DEF CoordStatus, OrderAt, Reserving, Compensating, Outcome, Untouched

(* A sweeper depends on nothing but the suborders of expired orders, and    *)
(* those may be rolled back by anybody.                                     *)
SameSweeper(s) ==
    /\ at'[s] = at[s] /\ batch'[s] = batch[s] /\ seen'[s] = seen[s]
    /\ cur'[s] = cur[s] /\ curVen'[s] = curVen[s] /\ curTodo'[s] = curTodo[s]

OnlyRolledBack(x) ==
    expired'[x] /\ \A v \in Vendors : sub'[x][v] \in {sub[x][v], "ROLLED_BACK"}

LEMMA SweepStatusFrame ==
    ASSUME TypeInv, NEW s \in Sweepers, SweepStatus(s), SameSweeper(s),
           \A x \in Orders : expired[x] => OnlyRolledBack(x)
    PROVE  SweepStatus(s)'
<1>1. at[s] # "idle" => \A x \in batch[s] : x \in Orders /\ OnlyRolledBack(x)
    BY DEF TypeInv, TypeOK, SweepStatus
<1>2. \A x \in batch[s] :
          at[s] # "idle" /\ SnapshotHolds(s, x) => SnapshotHolds(s, x)'
    BY <1>1 DEF SnapshotHolds, SameSweeper, OnlyRolledBack, Closed
<1>3. at[s] = "sweep_log" => cur[s] \in batch[s] /\ curVen[s] \in Vendors
    BY DEF SweepStatus, TypeInv, VisitOK
<1> QED BY <1>1, <1>2, <1>3 DEF SweepStatus, SameSweeper, OnlyRolledBack

(* A coordinator's step within its loop, with its vendor's suborder written *)
(* or not.                                                                  *)
LEMMA LoopStatus ==
    ASSUME TypeInv, NEW o \in Orders, CoordStatus(o), pc[o] \in LoopPhases,
           pc'[o] \in LoopPhases,
           order'[o] = order[o], queue'[o] = queue[o], ven'[o] = ven[o],
           won'[o] = won[o], expired'[o] = expired[o],
           \A v \in Vendors \ {ven[o]} : sub'[o][v] = sub[o][v],
           pc'[o] \in ReservingPhases => sub'[o][ven[o]] = "PENDING_RESERVATION",
           pc'[o] = "logfail" => sub'[o][ven[o]] = "RESERVATION_FAILED",
           pc'[o] = "logsucceed" => sub'[o][ven[o]] = "RESERVED"
    PROVE  CoordStatus(o)'
<1> USE StatusPhases
<1>1. VendorsOf(o) \subseteq Vendors
    BY Lookup
<1>2. OrderAt(o)'
    BY DEF CoordStatus, OrderAt
<1>3. Reserving(o)'
    BY <1>1 DEF CoordStatus, Reserving
<1>4. Compensating(o)'
    BY DEF Compensating
<1>5. Outcome(o)'
    BY <1>1 DEF CoordStatus, OrderAt, Reserving, Outcome
<1> QED BY <1>2, <1>3, <1>4, <1>5 DEF CoordStatus

(* The same within the compensation.                                        *)
LEMMA CompensationStatus ==
    ASSUME TypeInv, NEW o \in Orders, CoordStatus(o),
           pc[o] \in CompensationPhases \ {"close"},
           pc'[o] \in CompensationPhases \ {"close"},
           order'[o] = order[o], queue'[o] = queue[o], ven'[o] = ven[o],
           expired'[o] = expired[o],
           \A v \in Vendors \ {ven[o]} : sub'[o][v] = sub[o][v],
           pc'[o] \in ReleasingPhases => sub'[o][ven[o]] = "RESERVED",
           pc'[o] = "logrollback" => sub'[o][ven[o]] = "ROLLED_BACK"
    PROVE  CoordStatus(o)'
<1> USE StatusPhases
<1>1. VendorsOf(o) \subseteq Vendors
    BY Lookup
<1>2. OrderAt(o)'
    BY DEF CoordStatus, OrderAt
<1>3. Reserving(o)'
    BY DEF Reserving
<1>4. Compensating(o)'
    BY <1>1 DEF CoordStatus, Compensating
<1>5. Outcome(o)'
    BY <1>1 DEF CoordStatus, OrderAt, Compensating, Outcome
<1> QED BY <1>2, <1>3, <1>4, <1>5 DEF CoordStatus

(* The end of a visit.                                                      *)
LEMMA NextVendorStatus ==
    ASSUME TypeInv, NEW o \in Orders, CoordStatus(o), pc[o] \in {"logfail", "logsucceed"},
           NEW S, S = IF pc[o] = "logfail" THEN won[o] ELSE won[o] \union {ven[o]},
           NextVendor(o, S), won'[o] = S,
           order'[o] = order[o], sub'[o] = sub[o], expired'[o] = expired[o]
    PROVE  CoordStatus(o)'
<1> USE StatusPhases
<1>1. order[o] = "PENDING" /\ ~expired[o]
    BY DEF CoordStatus, OrderAt
<1>2. /\ S \subseteq VendorsOf(o)
      /\ queue[o] \subseteq VendorsOf(o) \ S
      /\ \A v \in queue[o] : sub[o][v] = "PENDING_RESERVATION"
      /\ \A v \in S : sub[o][v] = "RESERVED"
      /\ \A v \in VendorsOf(o) \ (queue[o] \union S) : sub[o][v] = "RESERVATION_FAILED"
    BY DEF CoordStatus, Reserving
<1>3. CASE queue[o] # {} /\ Visit(o, queue[o], "attempt", "confirm")
    <2>1. pc'[o] = "attempt" /\ ven'[o] \in queue[o] /\ queue'[o] = queue[o] \ {ven'[o]}
        BY <1>3, VisitFacts
    <2> QED BY <1>1, <1>2, <2>1
            DEF CoordStatus, OrderAt, Reserving, Compensating, Outcome
<1>4. CASE S = VendorsOf(o) /\ Visit(o, {}, "attempt", "confirm")
    <2>1. pc'[o] = "confirm"
        BY <1>4, VisitFacts
    <2> QED BY <1>1, <1>2, <1>4, <2>1
            DEF CoordStatus, OrderAt, Reserving, Compensating, Outcome
<1>5. CASE queue[o] = {} /\ Visit(o, S, "comp", "close")
    <2>1. \/ S = {} /\ pc'[o] = "close"
          \/ pc'[o] = "comp" /\ ven'[o] \in S /\ queue'[o] = S \ {ven'[o]}
        BY <1>5, VisitFacts
    <2> QED BY <1>1, <1>2, <1>5, <2>1
            DEF CoordStatus, OrderAt, Reserving, Compensating, Outcome, Closed
<1> QED BY <1>3, <1>4, <1>5 DEF NextVendor

(* A step of coordinator o, by action: its own order ...                    *)
LEMMA OwnStatus ==
    ASSUME TypeInv, ~Overlap, NEW o \in Orders, CoordStatus(o),
           PlaceOrder(o) \/ Coordinator(o) \/ Crash(o) \/ Expire(o)
    PROVE  CoordStatus(o)'
<1> USE StatusPhases
<1>a. VendorsOf(o) \subseteq Vendors /\ VendorsOf(o) # {}
    BY Lookup, SagaAssumption DEF VendorsOf
<1>b. pc[o] \in VisitPhases => ven[o] \in Vendors
    BY DEF TypeInv, VisitOK
<1>1. CASE PlaceOrder(o)
    <2>1. pc'[o] = "attempt" /\ ven'[o] \in VendorsOf(o)
          /\ queue'[o] = VendorsOf(o) \ {ven'[o]}
        BY <1>1, <1>a, VisitFacts DEF PlaceOrder
    <2>2. /\ order'[o] = "PENDING" /\ won'[o] = {} /\ ~expired'[o]
          /\ \A v \in VendorsOf(o) : sub'[o][v] = "PENDING_RESERVATION"
          /\ \A v \in Vendors \ VendorsOf(o) : sub'[o][v] = "NONE"
        BY <1>1, <1>a, SetOrderFacts DEF PlaceOrder, CoordStatus, OrderAt, TypeInv, TypeOK
    <2> QED BY <2>1, <2>2 DEF CoordStatus, OrderAt, Reserving, Compensating, Outcome
<1>2. CASE RecordReserveAttempted(o)
    BY <1>2, GotoFacts, LoopStatus DEF RecordReserveAttempted, CoordStatus, Reserving
<1>3. CASE ReserveLine(o) \/ ReserveRefused(o)
    <2>1. /\ pc[o] = "reserve" /\ pc'[o] \in {"reserve", "succeed", "fail", "undo"}
          /\ UNCHANGED <<dbVars, expired, queue, ven, won>>
        BY <1>3, GotoFacts DEF ReserveLine, ReserveRefused
    <2> QED BY <2>1, LoopStatus DEF dbVars, CoordStatus, Reserving
<1>4. CASE UndoLine(o)
    BY <1>4, GotoFacts, LoopStatus
    DEF UndoLine, ReleaseLine, dbVars, CoordStatus, Reserving
<1>5. CASE MarkReservationFailed(o)
    BY <1>5, <1>b, GotoFacts, SetSubFacts, LoopStatus
    DEF MarkReservationFailed, VisitPhases
<1>6. CASE MarkReserved(o)
    BY <1>6, <1>b, GotoFacts, SetSubFacts, LoopStatus DEF MarkReserved, VisitPhases
<1>7. CASE RecordReserveFailed(o)
    BY <1>7, NextVendorStatus DEF RecordReserveFailed
<1>8. CASE RecordReserveSucceeded(o)
    <2>1. won'[o] = won[o] \union {ven[o]}
        BY <1>8 DEF RecordReserveSucceeded, TypeInv, TypeOK
    <2> QED BY <1>8, <2>1, NextVendorStatus DEF RecordReserveSucceeded
<1>9. CASE ConfirmOrder(o)
    <2>1. pc[o] = "confirm" /\ pc'[o] = "confirmed" /\ order'[o] = "CONFIRMED"
          /\ sub'[o] = sub[o] /\ expired'[o] = expired[o]
        BY <1>9, GotoFacts, SetOrderFacts DEF ConfirmOrder
    <2> QED BY <2>1 DEF CoordStatus, OrderAt, Reserving, Compensating, Outcome
<1>10. CASE RecordCompensationAttempted(o)
    BY <1>10, GotoFacts, CompensationStatus
    DEF RecordCompensationAttempted, CoordStatus, Compensating
<1>11. CASE CompensateLine(o)
    BY <1>11, GotoFacts, CompensationStatus
    DEF CompensateLine, ReleaseLine, dbVars, CoordStatus, Compensating
<1>12. CASE MarkRolledBack(o)
    BY <1>12, <1>b, GotoFacts, SetSubFacts, CompensationStatus
    DEF MarkRolledBack, VisitPhases
<1>13. CASE RecordCompensationSucceeded(o)
    <2>1. pc[o] = "logrollback" /\ order'[o] = order[o] /\ sub'[o] = sub[o]
          /\ expired'[o] = expired[o]
        BY <1>13 DEF RecordCompensationSucceeded
    <2>2. \/ queue[o] = {} /\ pc'[o] = "close"
          \/ pc'[o] = "comp" /\ ven'[o] \in queue[o] /\ queue'[o] = queue[o] \ {ven'[o]}
        BY <1>13, VisitFacts DEF RecordCompensationSucceeded
    <2>3. CASE queue[o] = {} /\ pc'[o] = "close"
        BY <2>1, <2>3
        DEF CoordStatus, OrderAt, Reserving, Compensating, Outcome, Closed
    <2>4. CASE pc'[o] = "comp" /\ ven'[o] \in queue[o]
               /\ queue'[o] = queue[o] \ {ven'[o]}
        BY <2>1, <2>4
        DEF CoordStatus, OrderAt, Reserving, Compensating, Outcome, Closed
    <2> QED BY <2>2, <2>3, <2>4
<1>14. CASE FailOrder(o)
    <2>1. pc[o] = "close" /\ pc'[o] = "failed" /\ order'[o] = "FAILED"
          /\ sub'[o] = sub[o] /\ expired'[o] = expired[o]
        BY <1>14, GotoFacts, SetOrderFacts DEF FailOrder
    <2> QED BY <2>1 DEF CoordStatus, OrderAt, Reserving, Compensating, Outcome
<1>15. CASE Crash(o)
    <2>1. /\ pc'[o] = "crashed" /\ order'[o] = order[o] /\ sub'[o] = sub[o]
        BY <1>15, GotoFacts DEF Crash, dbVars
    <2>2. pc[o] \in CoordinatorPhases
        BY <1>15, SagaAssumption DEF Crash, SweepPhases, TypeInv, TypeOK, Phases
    <2> QED BY <2>1, <2>2 DEF CoordStatus, OrderAt, Reserving, Compensating, Outcome
<1>16. CASE Expire(o)
    <2>1. /\ pc[o] = "crashed" /\ pc'[o] = pc[o]
          /\ order'[o] = order[o] /\ sub'[o] = sub[o]
        BY <1>16 DEF Expire, dbVars, coordVars
    <2> QED BY <2>1 DEF CoordStatus, OrderAt, Reserving, Compensating, Outcome
<1> QED BY <1>1, <1>2, <1>3, <1>4, <1>5, <1>6, <1>7, <1>8, <1>9, <1>10, <1>11,
           <1>12, <1>13, <1>14, <1>15, <1>16 DEF Coordinator

(* ... other orders, and the sweepers, whose orders have no coordinator.    *)
LEMMA OtherStatus ==
    ASSUME TypeInv, NEW o \in Orders, CoordStatus(o),
           PlaceOrder(o) \/ Coordinator(o) \/ Crash(o) \/ Expire(o)
    PROVE  /\ \A s \in Sweepers : SameSweeper(s)
           /\ \A x \in Orders : expired[x] => Untouched(x)
<1> USE StatusPhases
<1>1. ~expired[o]
    <2>1. expired[o] => pc[o] = "crashed"
        BY DEF CoordStatus, OrderAt
    <2>2. CASE Crash(o)
        BY <2>1, <2>2, SagaAssumption DEF Crash, SweepPhases
    <2>3. CASE Expire(o)
        BY <2>3 DEF Expire
    <2>4. CASE PlaceOrder(o) \/ Coordinator(o)
        BY <2>1, <2>4
        DEF Coordinator, PlaceOrder, RecordReserveAttempted, ReserveLine, ReserveRefused,
            UndoLine, CompensateLine, ReleaseLine, MarkReservationFailed,
            RecordReserveFailed, MarkReserved, RecordReserveSucceeded, ConfirmOrder,
            RecordCompensationAttempted, MarkRolledBack, RecordCompensationSucceeded,
            FailOrder
    <2> QED BY <2>2, <2>3, <2>4
<1>2. \A x \in Orders : expired[x] => Untouched(x)
    BY <1>1, OtherOrders
<1> QED BY <1>2, CoordinatorAlone DEF SameSweeper, sweepVars

-----------------------------------------------------------------------------
(* A sweeper's step: what it does to the rows of any order ...              *)
SweptRows(x) ==
    /\ \A v \in Vendors : \/ sub'[x][v] = sub[x][v]
                          \/ v \in VendorsOf(x) /\ sub'[x][v] = "ROLLED_BACK"
    /\ ~expired[x] => sub'[x] = sub[x] /\ order'[x] = order[x]
    /\ \/ order'[x] = order[x]
       \/ order'[x] = "FAILED" /\ \A v \in VendorsOf(x) : sub'[x][v] \in Closed

LEMMA SweepRows ==
    ASSUME TypeInv, NEW s \in Sweepers, SweepStatus(s), Sweep(s) \/ SweepAbort(s)
    PROVE  /\ UNCHANGED <<expired, coordVars>>
           /\ \A x \in Orders : SweptRows(x)
<1>1. UNCHANGED <<expired, coordVars>>
    BY DEF Sweep, SweepBegin, SweepReadSuborders, SweepReleaseLine,
           SweepMarkRolledBack, SweepRecordCompensated, SweepFailOrder, SweepAbort
<1>2. ASSUME UNCHANGED <<order, sub>>, NEW x \in Orders PROVE SweptRows(x)
    BY <1>2 DEF SweptRows
<1>3. CASE SweepMarkRolledBack(s)
    <2>1. /\ cur[s] \in Orders /\ curVen[s] \in VendorsOf(cur[s]) /\ expired[cur[s]]
          /\ curVen[s] \in Vendors /\ SetSub(cur[s], curVen[s], "ROLLED_BACK") /\ order' = order
        BY <1>3 DEF SweepMarkRolledBack, SweepStatus, SnapshotHolds, TypeInv, VisitOK
    <2> QED BY <1>1, <2>1, SetSubFacts DEF SweptRows
<1>4. CASE SweepFailOrder(s)
    <2>1. /\ cur[s] \in Orders /\ SetOrder(cur[s], "FAILED") /\ sub' = sub
          /\ expired[cur[s]] /\ SnapshotHolds(s, cur[s])
          /\ \A v \in VendorsOf(cur[s]) : seen[s][cur[s]][v] \notin Compensable
        BY <1>4 DEF SweepFailOrder, SweepStatus, TypeInv, VisitOK
    <2>2. \A v \in VendorsOf(cur[s]) : sub[cur[s]][v] \in Closed
        BY <2>1, Lookup DEF SnapshotHolds
    <2> QED BY <1>1, <2>1, <2>2, SetOrderFacts DEF SweptRows
<1> QED
    BY <1>1, <1>2, <1>3, <1>4
    DEF Sweep, SweepBegin, SweepReadSuborders, SweepReleaseLine,
        SweepRecordCompensated, SweepAbort, dbVars

(* ... which an order without a living coordinator can bear ...             *)
LEMMA SweptStatus ==
    ASSUME TypeInv, NEW x \in Orders, CoordStatus(x), SweptRows(x),
           UNCHANGED <<expired, coordVars>>
    PROVE  CoordStatus(x)'
<1>a. UNCHANGED <<pc, queue, ven, won>>
    BY DEF coordVars
<1>b. VendorsOf(x) \subseteq Vendors
    BY Lookup
<1>1. CASE ~expired[x]
    BY <1>1, <1>a
    DEF CoordStatus, OrderAt, Reserving, Compensating, Outcome, SweptRows
<1>2. CASE expired[x]
    <2>1. pc[x] = "crashed" /\ order[x] \in {"PENDING", "FAILED"}
        BY <1>2 DEF CoordStatus, OrderAt
    <2>2. OrderAt(x)'
        BY <1>a, <2>1, StatusPhases DEF CoordStatus, OrderAt, SweptRows
    <2>3. Outcome(x)'
        BY <1>a, <1>b, <2>1 DEF CoordStatus, Outcome, SweptRows, Closed
    <2>4. Reserving(x)' /\ Compensating(x)'
        BY <1>a, <2>1, StatusPhases DEF Reserving, Compensating
    <2> QED BY <2>2, <2>3, <2>4 DEF CoordStatus
<1> QED BY <1>1, <1>2

(* ... and to the sweeper's own pass.                                       *)
LEMMA TurnStatus ==
    ASSUME TypeInv, NEW s \in Sweepers, NEW o \in Orders,
           NEW sn \in [Orders -> [Vendors -> SubStatus]], Turn(s, o, sn),
           o \in batch'[s], batch'[s] \subseteq Orders,
           \A x \in batch'[s] : expired'[x],
           \A x \in batch'[s], v \in Vendors :
               /\ sn[x][v] \in Compensable =>
                     v \in VendorsOf(x) /\ sub'[x][v] \in {sn[x][v], "ROLLED_BACK"}
               /\ v \in VendorsOf(x) => sub'[x][v] \in Closed \/ sn[x][v] \in Compensable
    PROVE  SweepStatus(s)'
<1>1. cur'[s] = o /\ seen'[s] = sn
    BY DEF Turn, TypeInv, TypeOK
<1>2. \A x \in batch'[s] : SnapshotHolds(s, x)'
    BY <1>1 DEF SnapshotHolds
<1>3. CASE /\ \A v \in Vendors : sn[o][v] \notin Compensable
           /\ at' = [at EXCEPT ![s] = "sweep_close"]
    <2>1. at'[s] = "sweep_close"
        BY <1>3 DEF TypeInv, TypeOK
    <2> QED BY <1>1, <1>2, <1>3, <2>1, Lookup DEF SweepStatus
<1>4. ASSUME NEW v \in Vendors, sn[o][v] \in Compensable,
             curVen' = [curVen EXCEPT ![s] = v],
             NEW p \in {"sweep_release", "sweep_mark"}, at' = [at EXCEPT ![s] = p]
      PROVE  SweepStatus(s)'
    <2>1. at'[s] = p /\ curVen'[s] = v
        BY <1>4 DEF TypeInv, TypeOK
    <2> QED BY <1>1, <1>2, <1>4, <2>1 DEF SweepStatus
<1> QED BY <1>3, <1>4 DEF Turn

LEMMA OwnSweepStatus ==
    ASSUME TypeInv, \A o \in Orders : CoordStatus(o), NEW s \in Sweepers,
           SweepStatus(s), Sweep(s) \/ SweepAbort(s)
    PROVE  SweepStatus(s)'
<1>a. /\ UNCHANGED <<expired, coordVars>> /\ batch[s] \in SUBSET Orders
      /\ seen[s] \in [Orders -> [Vendors -> SubStatus]]
      /\ at[s] \notin {"idle", "sweep_read"} => cur[s] \in Orders
      /\ at[s] \in {"sweep_release", "sweep_mark", "sweep_log"} => curVen[s] \in Vendors
    BY SweepRows DEF TypeInv, TypeOK, VisitOK
<1>1. CASE SweepBegin(s)
    <2>1. at'[s] = "sweep_read" /\ batch'[s] = {o \in Orders : Stuck(o)}
        BY <1>1 DEF SweepBegin, TypeInv, TypeOK
    <2> QED BY <1>a, <2>1 DEF SweepStatus, Stuck
<1>2. CASE SweepReadSuborders(s)
    <2>1. PICK o \in batch[s] : Turn(s, o, Snapshot(batch[s]))
        BY <1>2 DEF SweepReadSuborders
    <2>2. /\ batch' = batch /\ sub' = sub
          /\ \A x \in batch[s] : expired[x] /\ x \in Orders
        BY <1>2, <1>a DEF SweepReadSuborders, dbVars, SweepStatus
    <2>3. Snapshot(batch[s]) \in [Orders -> [Vendors -> SubStatus]]
        BY DEF Snapshot, NoSubs, SubStatus, TypeInv, TypeOK
    <2>4. \A x \in batch[s] : Snapshot(batch[s])[x] = sub[x]
        BY <2>2 DEF Snapshot
    <2>5. \A x \in batch[s] : \A v \in Vendors :
              /\ v \in VendorsOf(x) => sub[x][v] \in Closed \/ sub[x][v] \in Compensable
              /\ sub[x][v] \in Compensable => v \in VendorsOf(x)
        <3>1. \A x \in batch[s] : order[x] # "NONE"
            BY <2>2 DEF CoordStatus, OrderAt
        <3> QED BY <2>2, <3>1, Lookup
                DEF CoordStatus, Outcome, TypeInv, TypeOK, SubStatus, Closed, Compensable
    <2> QED BY <1>a, <2>1, <2>2, <2>3, <2>4, <2>5, TurnStatus
<1>3. CASE SweepReleaseLine(s)
    <2>1. /\ at[s] = "sweep_release" /\ at'[s] \in {"sweep_release", "sweep_mark"}
          /\ UNCHANGED <<sub, batch, seen, cur, curVen>>
        BY <1>3 DEF SweepReleaseLine, dbVars, TypeInv, TypeOK
    <2> QED BY <1>a, <2>1 DEF SweepStatus, SnapshotHolds
<1>4. CASE SweepMarkRolledBack(s)
    <2>1. /\ at[s] = "sweep_mark" /\ at'[s] = "sweep_log"
          /\ UNCHANGED <<batch, seen, cur, curVen>>
          /\ sub'[cur[s]][curVen[s]] = "ROLLED_BACK"
        BY <1>4, <1>a, SetSubFacts DEF SweepMarkRolledBack, TypeInv, TypeOK
    <2>2. \A x \in batch[s] : SnapshotHolds(s, x)'
        <3>1. \A x \in batch[s] : SnapshotHolds(s, x) /\ SweptRows(x)
            BY <1>4, <1>a, <2>1, SweepRows DEF SweepStatus
        <3> QED BY <2>1, <3>1 DEF SnapshotHolds, SweptRows, Closed
    <2> QED BY <1>a, <2>1, <2>2 DEF SweepStatus
<1>5. CASE SweepRecordCompensated(s)
    <2> DEFINE sn == [seen[s] EXCEPT ![cur[s]][curVen[s]] = "NONE"]
    <2>1. /\ at[s] = "sweep_log" /\ Turn(s, cur[s], sn)
          /\ batch' = batch /\ sub' = sub
          /\ cur[s] \in Orders /\ curVen[s] \in Vendors
        BY <1>5, <1>a DEF SweepRecordCompensated
    <2>2. sn \in [Orders -> [Vendors -> SubStatus]]
        BY <1>a, <2>1 DEF SubStatus
    <2>3. /\ sn[cur[s]][curVen[s]] = "NONE"
          /\ \A x \in Orders, v \in Vendors :
                x # cur[s] \/ v # curVen[s] => sn[x][v] = seen[s][x][v]
        BY <1>a, <2>1
    <2>4. /\ cur[s] \in batch[s] /\ sub[cur[s]][curVen[s]] = "ROLLED_BACK"
          /\ \A x \in batch[s] : x \in Orders /\ expired[x] /\ SnapshotHolds(s, x)
        BY <1>a, <2>1 DEF SweepStatus
    <2> HIDE DEF sn
    <2>5. \A x \in batch[s], v \in Vendors :
              /\ sn[x][v] \in Compensable =>
                    v \in VendorsOf(x) /\ sub[x][v] \in {sn[x][v], "ROLLED_BACK"}
              /\ v \in VendorsOf(x) => sub[x][v] \in Closed \/ sn[x][v] \in Compensable
        BY <2>3, <2>4 DEF SnapshotHolds, Closed, Compensable
    <2> QED BY <1>a, <2>1, <2>2, <2>4, <2>5, TurnStatus
<1>6. CASE SweepFailOrder(s)
    <2>1. /\ at[s] = "sweep_close" /\ sub' = sub
          /\ \A x \in batch[s] : expired[x] /\ SnapshotHolds(s, x)
        BY <1>6 DEF SweepFailOrder, SweepStatus
    <2>2. CASE SweepIdle(s)
        <3>1. at'[s] = "idle"
            BY <2>2 DEF SweepIdle, TypeInv, TypeOK
        <3> QED BY <3>1 DEF SweepStatus
    <2>3. ASSUME NEW o \in batch[s] \ {cur[s]}, Turn(s, o, seen[s]),
                 batch' = [batch EXCEPT ![s] = @ \ {cur[s]}]
          PROVE  SweepStatus(s)'
        <3>1. batch'[s] = batch[s] \ {cur[s]}
            BY <2>3 DEF TypeInv, TypeOK
        <3> QED BY <1>a, <2>1, <2>3, <3>1, TurnStatus DEF SnapshotHolds
    <2> QED BY <1>6, <2>2, <2>3 DEF SweepFailOrder
<1>7. CASE SweepAbort(s)
    <2>1. at'[s] = "idle"
        BY <1>7 DEF SweepAbort, SweepIdle, TypeInv, TypeOK
    <2> QED BY <2>1 DEF SweepStatus
<1> QED BY <1>1, <1>2, <1>3, <1>4, <1>5, <1>6, <1>7 DEF Sweep

(* The other sweepers keep their locals.                                    *)
LEMMA OtherSweepers ==
    ASSUME TypeInv, NEW s \in Sweepers, NEW t \in Sweepers \ {s},
           Sweep(s) \/ SweepAbort(s)
    PROVE  SameSweeper(t)
<1>1. ASSUME NEW o, NEW sn, Turn(s, o, sn)
      PROVE  at'[t] = at[t] /\ seen'[t] = seen[t] /\ cur'[t] = cur[t]
             /\ curVen'[t] = curVen[t] /\ curTodo'[t] = curTodo[t]
    BY <1>1 DEF Turn, TypeInv, TypeOK
<1>2. CASE SweepReadSuborders(s) \/ SweepRecordCompensated(s)
    BY <1>1, <1>2 DEF SweepReadSuborders, SweepRecordCompensated, SameSweeper
<1>3. CASE SweepFailOrder(s)
    BY <1>1, <1>3 DEF SweepFailOrder, SweepIdle, SameSweeper, TypeInv, TypeOK
<1>4. CASE SweepBegin(s) \/ SweepReleaseLine(s) \/ SweepMarkRolledBack(s)
           \/ SweepAbort(s)
    BY <1>4 DEF SweepBegin, SweepReleaseLine, SweepMarkRolledBack, SweepAbort,
                SweepIdle, SameSweeper, TypeInv, TypeOK
<1> QED BY <1>2, <1>3, <1>4 DEF Sweep

-----------------------------------------------------------------------------
LEMMA InitStatus == Init => StatusInv
<1> USE StatusPhases
<1>1. Init => \A o \in Orders : CoordStatus(o)
    BY DEF Init, NoSubs, CoordStatus, OrderAt, Reserving, Compensating, Outcome
<1>2. Init => \A s \in Sweepers : SweepStatus(s)
    BY DEF Init, SweepStatus
<1> QED BY <1>1, <1>2 DEF StatusInv

LEMMA NextStatus ==
    ASSUME ~Overlap, TypeInv, StatusInv, [Next]_vars
    PROVE  StatusInv'
<1>a. /\ \A o \in Orders : CoordStatus(o)
      /\ \A s \in Sweepers : SweepStatus(s)
    BY DEF StatusInv
<1>1. ASSUME NEW o \in Orders,
             PlaceOrder(o) \/ Coordinator(o) \/ Crash(o) \/ Expire(o)
      PROVE  StatusInv'
    <2>1. \A x \in Orders : CoordStatus(x)'
        BY <1>1, <1>a, OwnStatus, OtherOrders, CoordStatusFrame
    <2>2. \A s \in Sweepers : SweepStatus(s)'
        BY <1>1, <1>a, OtherStatus, SweepStatusFrame DEF OnlyRolledBack, Untouched
    <2> QED BY <2>1, <2>2 DEF StatusInv
<1>2. ASSUME NEW s \in Sweepers, Sweep(s) \/ SweepAbort(s)
      PROVE  StatusInv'
    <2>1. UNCHANGED <<expired, coordVars>> /\ \A x \in Orders : SweptRows(x)
        BY <1>2, <1>a, SweepRows
    <2>2. \A x \in Orders : CoordStatus(x)'
        BY <1>a, <2>1, SweptStatus
    <2>3. SweepStatus(s)'
        BY <1>2, <1>a, OwnSweepStatus
    <2>4. \A t \in Sweepers \ {s} : SweepStatus(t)'
        BY <1>2, <1>a, <2>1, OtherSweepers, SweepStatusFrame
        DEF SweptRows, OnlyRolledBack
    <2> QED BY <2>2, <2>3, <2>4 DEF StatusInv
<1>3. CASE UNCHANGED <<dbVars, expired, coordVars, sweepVars>>
    BY <1>3, <1>a
    DEF dbVars, coordVars, sweepVars, StatusInv, CoordStatus, OrderAt, Reserving,
        Compensating, Outcome, SweepStatus, SnapshotHolds
<1>4. ASSUME NEW l \in Listings, NEW n \in Counts, VendorRestocks(l, n)
      PROVE  StatusInv'
    BY <1>4, <1>3 DEF VendorRestocks
<1>5. CASE UNCHANGED vars
    BY <1>5, <1>3 DEF vars, dbVars
<1> QED BY <1>1, <1>2, <1>4, <1>5 DEF Next

LEMMA StatusInvariant ==
    ASSUME ~Overlap PROVE Spec => [](TypeInv /\ StatusInv)
BY InitType, NextType, InitStatus, NextStatus, PTL DEF Spec

(* As long as no coordinator is overtaken: a CONFIRMED order has every      *)
(* suborder RESERVED and a FAILED one has none reserved or still to be      *)
(* reserved, wherever coordinators and however many sweepers stop.          *)
THEOREM SagaStatusesAgree ==
    ASSUME ~Overlap PROVE Spec => []StatusesAgree
<1>1. TypeInv /\ StatusInv => StatusesAgree
    <2> SUFFICES ASSUME TypeInv, StatusInv PROVE StatusesAgree
        OBVIOUS
    <2>1. \A o \in Orders : order[o] = "CONFIRMED" => pc[o] = "confirmed"
        BY StatusPhases DEF StatusInv, CoordStatus, OrderAt, TypeInv, TypeOK, Phases
    <2> QED BY <2>1 DEF StatusInv, CoordStatus, Outcome, Closed, StatusesAgree,
                       ConfirmedMeansReserved, FailedMeansClosed
<1> QED BY <1>1, StatusInvariant, PTL

(* What the buyer was answered is and stays the order's status.             *)
THEOREM SagaAnswerHolds ==
    ASSUME ~Overlap PROVE Spec => []AnswerHolds
<1>1. StatusInv => AnswerHolds
    BY DEF StatusInv, CoordStatus, OrderAt, AnswerHolds
<1> QED BY <1>1, StatusInvariant, PTL

-----------------------------------------------------------------------------
(* No statement checks the status it overwrites, yet none reopens an order  *)
(* or a suborder of one that was closed.                                    *)
Final(o) ==
    order[o] \in {"CONFIRMED", "FAILED"} => order'[o] = order[o] /\ sub'[o] = sub[o]

LEMMA OwnFinal ==
    ASSUME TypeInv, NEW o \in Orders, CoordStatus(o),
           PlaceOrder(o) \/ Coordinator(o) \/ Crash(o) \/ Expire(o)
    PROVE  Final(o)
<1> USE StatusPhases
<1> SUFFICES ASSUME order[o] \in {"CONFIRMED", "FAILED"} PROVE FALSE
    BY DEF Final
<1>1. pc[o] \in {"confirmed", "failed", "crashed"}
    BY DEF CoordStatus, OrderAt, TypeInv, TypeOK, Phases
<1>2. CASE Crash(o)
    BY <1>1, <1>2, SagaAssumption DEF Crash, SweepPhases
<1>3. CASE Expire(o)
    BY <1>3 DEF Expire
<1>4. CASE PlaceOrder(o) \/ Coordinator(o)
    BY <1>1, <1>4
    DEF Coordinator, PlaceOrder, RecordReserveAttempted, ReserveLine, ReserveRefused,
        UndoLine, CompensateLine, ReleaseLine, MarkReservationFailed,
        RecordReserveFailed, MarkReserved, RecordReserveSucceeded, ConfirmOrder,
        RecordCompensationAttempted, MarkRolledBack, RecordCompensationSucceeded,
        FailOrder
<1> QED BY <1>2, <1>3, <1>4

LEMMA SweepFinal ==
    ASSUME TypeInv, NEW x \in Orders, CoordStatus(x), NEW s \in Sweepers,
           SweepStatus(s), Sweep(s) \/ SweepAbort(s)
    PROVE  Final(x)
<1> SUFFICES ASSUME order[x] \in {"CONFIRMED", "FAILED"}
             PROVE  order'[x] = order[x] /\ sub'[x] = sub[x]
    BY DEF Final
<1>1. SweptRows(x)
    BY SweepRows
<1>2. CASE ~expired[x]
    BY <1>1, <1>2 DEF SweptRows
<1>3. CASE expired[x]
    <2>1. order[x] = "FAILED"
        BY <1>3 DEF CoordStatus, OrderAt
    <2>2. order'[x] = order[x]
        BY <1>1, <2>1 DEF SweptRows
    <2>3. CASE ~SweepMarkRolledBack(s)
        BY <2>2, <2>3
        DEF Sweep, SweepBegin, SweepReadSuborders, SweepReleaseLine,
            SweepRecordCompensated, SweepFailOrder, SweepAbort, dbVars
    <2>4. CASE SweepMarkRolledBack(s)
        <3>1. /\ cur[s] \in Orders /\ curVen[s] \in VendorsOf(cur[s])
              /\ sub[cur[s]][curVen[s]] \in Compensable \union {"ROLLED_BACK"}
              /\ curVen[s] \in Vendors /\ SetSub(cur[s], curVen[s], "ROLLED_BACK")
            BY <2>4
            DEF SweepMarkRolledBack, SweepStatus, SnapshotHolds, TypeInv, VisitOK
        <3>2. x = cur[s] => sub[x][curVen[s]] = "ROLLED_BACK"
            BY <2>1, <3>1 DEF CoordStatus, Outcome, Closed, Compensable
        <3>3. sub'[x] = sub[x]
            BY <3>1, <3>2 DEF SetSub, TypeInv, TypeOK
        <3> QED BY <2>2, <3>3
    <2> QED BY <2>3, <2>4
<1> QED BY <1>2, <1>3

(* Once CONFIRMED or FAILED, an order and its suborders never change.       *)
THEOREM SagaTerminalIsFinal ==
    ASSUME ~Overlap PROVE Spec => TerminalIsFinal
<1>1. ASSUME TypeInv, StatusInv, [Next]_vars, NEW x \in Orders PROVE Final(x)
    <2>a. CoordStatus(x) /\ \A s \in Sweepers : SweepStatus(s)
        BY <1>1 DEF StatusInv
    <2>1. ASSUME NEW o \in Orders,
                 PlaceOrder(o) \/ Coordinator(o) \/ Crash(o) \/ Expire(o)
          PROVE  Final(x)
        BY <1>1, <2>a, <2>1, OwnFinal, OtherOrders DEF Final, Untouched
    <2>2. ASSUME NEW s \in Sweepers, Sweep(s) \/ SweepAbort(s) PROVE Final(x)
        BY <1>1, <2>a, <2>2, SweepFinal
    <2>3. CASE UNCHANGED <<order, sub>>
        BY <2>3 DEF Final
    <2>4. ASSUME NEW l \in Listings, NEW n \in Counts, VendorRestocks(l, n)
          PROVE  Final(x)
        BY <2>4, <2>3 DEF VendorRestocks, dbVars
    <2>5. CASE UNCHANGED vars
        BY <2>3, <2>5 DEF vars
    <2> QED BY <1>1, <2>1, <2>2, <2>4, <2>5 DEF Next
<1>2. TypeInv /\ StatusInv /\ [Next]_vars =>
          [\A o \in Orders : order[o] \in {"CONFIRMED", "FAILED"} =>
               order'[o] = order[o] /\ sub'[o] = sub[o]]_vars
    BY <1>1 DEF Final
<1> QED BY <1>2, StatusInvariant, PTL DEF Spec, TerminalIsFinal
=============================================================================
