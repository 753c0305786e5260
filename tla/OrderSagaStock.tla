---------------------------- MODULE OrderSagaStock ----------------------------
(***************************************************************************)
(* Theorems about the units a saga holds: what stays reserved, what is     *)
(* given back exactly once, and the all-or-nothing promise.  Each says     *)
(* under which conditions it holds; the runs saga_slow_coordinator and     *)
(* saga_double_release show what happens without the first and the third:  *)
(* the saga timeout is longer than a coordinator lives (~Overlap), there   *)
(* is one sweep process, and no process stops at a double-release point.   *)
(***************************************************************************)
EXTENDS OrderSagaStatus, FiniteSetTheorems

OneSweeper == \A s, t \in Sweepers : s = t

(* A single sweeper finds the suborders of its batch as it read them, but   *)
(* for the one it has just marked.                                          *)
SnapshotCurrent(s) ==
    at[s] \notin {"idle", "sweep_read"} =>
        \A o \in batch[s], v \in Vendors :
            seen[s][o][v] \in Compensable =>
                \/ sub[o][v] = seen[s][o][v]
                \/ at[s] = "sweep_log" /\ o = cur[s] /\ v = curVen[s]

(* A suborder's compensation is recorded only after it was marked.          *)
Recorded(o, v) ==
    {<<"SWEEP_COMPENSATED", v>>, <<"COMPENSATION_SUCCEEDED", v>>}
        \intersect steps[o] # {}

RecordedClosed(o) == \A v \in Vendors : Recorded(o, v) => sub[o][v] = "ROLLED_BACK"
RecordsOnce(s) == at[s] = "sweep_log" => ~Recorded(cur[s], curVen[s])

(* The lines a process has still to visit are of the suborder it is at.     *)
OwnLines(o) ==
    pc[o] \in {"reserve", "undo", "release"} => todo[o] \subseteq LinesOf(o, ven[o])

SweptLines(s) ==
    at[s] = "sweep_release" =>
        /\ curTodo[s] \subseteq LinesOf(cur[s], curVen[s])
        /\ seen[s][cur[s]][curVen[s]] = "RESERVED"

OrderPass(o) == RecordedClosed(o) /\ OwnLines(o)
SweeperPass(s) == SnapshotCurrent(s) /\ RecordsOnce(s) /\ SweptLines(s)

PassInv ==
    /\ \A o \in Orders : OrderPass(o)
    /\ \A s \in Sweepers : SweeperPass(s)

-----------------------------------------------------------------------------
(* A coordinator's step, about its own order ...                            *)

LEMMA OwnRecord ==
    ASSUME TypeInv, NEW o \in Orders, CoordStatus(o), RecordedClosed(o),
           PlaceOrder(o) \/ Coordinator(o) \/ Crash(o) \/ Expire(o)
    PROVE  RecordedClosed(o)'
<1> USE StatusPhases
<1>1. pc[o] \in VisitPhases => ven[o] \in Vendors
    BY DEF TypeInv, VisitOK
<1>2. CASE sub'[o] = sub[o] /\ steps'[o] = steps[o]
    BY <1>2 DEF RecordedClosed, Recorded
<1>3. ASSUME NEW t \in {"RESERVE_ATTEMPTED", "RESERVE_FAILED", "RESERVE_SUCCEEDED",
                        "COMPENSATION_ATTEMPTED"},
             RecordStep(o, t, ven[o]), sub'[o] = sub[o]
      PROVE  RecordedClosed(o)'
    BY <1>3, RecordFacts DEF RecordedClosed, Recorded
<1>4. CASE RecordCompensationSucceeded(o)
    <2>1. sub'[o] = sub[o] /\ sub[o][ven[o]] = "ROLLED_BACK"
        BY <1>4 DEF RecordCompensationSucceeded, CoordStatus, Compensating
    <2>2. steps'[o] = steps[o] \union {<<"COMPENSATION_SUCCEEDED", ven[o]>>}
        BY <1>4, RecordFacts DEF RecordCompensationSucceeded
    <2> QED BY <2>1, <2>2 DEF RecordedClosed, Recorded
<1>5. CASE PlaceOrder(o)
    <2>1. \A v \in Vendors : sub[o][v] = "NONE"
        BY <1>5 DEF PlaceOrder, CoordStatus, OrderAt, Outcome
    <2>2. steps'[o] = steps[o]
        BY <1>5 DEF PlaceOrder
    <2> QED BY <2>1, <2>2 DEF RecordedClosed, Recorded
<1>6. CASE MarkReservationFailed(o) \/ MarkReserved(o)
    <2>1. /\ sub[o][ven[o]] = "PENDING_RESERVATION" /\ ven[o] \in Vendors
          /\ steps'[o] = steps[o]
        BY <1>1, <1>6
        DEF MarkReservationFailed, MarkReserved, CoordStatus, Reserving, VisitPhases
    <2>2. \A v \in Vendors \ {ven[o]} : sub'[o][v] = sub[o][v]
        BY <1>6, <2>1, SetSubFacts DEF MarkReservationFailed, MarkReserved
    <2> QED BY <2>1, <2>2 DEF RecordedClosed, Recorded
<1>7. CASE MarkRolledBack(o)
    <2>1. \A v \in Vendors : sub'[o][v] \in {sub[o][v], "ROLLED_BACK"}
        BY <1>1, <1>7, SetSubFacts DEF MarkRolledBack, VisitPhases
    <2> QED BY <1>7, <2>1 DEF MarkRolledBack, RecordedClosed, Recorded
<1> QED
    BY <1>2, <1>3, <1>4, <1>5, <1>6, <1>7
    DEF Coordinator, RecordReserveAttempted, ReserveLine, ReserveRefused,
        UndoLine, CompensateLine, ReleaseLine, RecordReserveFailed,
        RecordReserveSucceeded, ConfirmOrder, RecordCompensationAttempted, FailOrder,
        Crash, Expire, dbVars

LEMMA SetTodoFacts ==
    ASSUME TypeInv, NEW o \in Orders, NEW S, SetTodo(o, S)
    PROVE  todo'[o] = S
BY DEF TypeInv, TypeOK, SetTodo

LEMMA OwnLinesKept ==
    ASSUME TypeInv, NEW o \in Orders, OwnLines(o),
           PlaceOrder(o) \/ Coordinator(o) \/ Crash(o) \/ Expire(o)
    PROVE  OwnLines(o)'
<1>1. CASE pc'[o] \notin {"reserve", "undo", "release"}
    BY <1>1 DEF OwnLines
<1>2. CASE pc'[o] = pc[o] /\ ven'[o] = ven[o] /\ todo'[o] \subseteq todo[o]
    BY <1>2 DEF OwnLines
<1>3. CASE ven'[o] = ven[o] /\ todo'[o] \subseteq LinesOf(o, ven[o])
    BY <1>3 DEF OwnLines
<1>4. ASSUME NEW S, NextVendor(o, S) PROVE pc'[o] \notin {"reserve", "undo", "release"}
    BY <1>4, VisitFacts DEF NextVendor
<1>5. CASE PlaceOrder(o) \/ RecordCompensationSucceeded(o)
    BY <1>1, <1>5, VisitFacts DEF PlaceOrder, RecordCompensationSucceeded
<1>6. CASE RecordReserveFailed(o) \/ RecordReserveSucceeded(o)
    BY <1>1, <1>4, <1>6 DEF RecordReserveFailed, RecordReserveSucceeded
<1>7. CASE RecordReserveAttempted(o) \/ RecordCompensationAttempted(o)
    BY <1>3, <1>7, SetTodoFacts DEF RecordReserveAttempted, RecordCompensationAttempted
<1>8. CASE ReserveLine(o) \/ UndoLine(o) \/ CompensateLine(o)
    <2>1. /\ pc'[o] \in {pc[o], "succeed", "fail", "rollback"}
          /\ ven'[o] = ven[o] /\ todo'[o] \subseteq todo[o]
        BY <1>8, GotoFacts, SetTodoFacts
        DEF ReserveLine, UndoLine, CompensateLine, ReleaseLine
    <2> QED BY <1>1, <1>2, <2>1
<1>9. CASE ReserveRefused(o)
    BY <1>3, <1>9, SetTodoFacts DEF ReserveRefused, LinesReserved
<1>10. CASE MarkReservationFailed(o) \/ MarkReserved(o) \/ ConfirmOrder(o)
            \/ MarkRolledBack(o) \/ FailOrder(o) \/ Crash(o)
    BY <1>1, <1>10, GotoFacts
    DEF MarkReservationFailed, MarkReserved, ConfirmOrder, MarkRolledBack, FailOrder,
        Crash
<1>11. CASE Expire(o)
    BY <1>2, <1>11 DEF Expire, coordVars
<1> QED BY <1>5, <1>6, <1>7, <1>8, <1>9, <1>10, <1>11 DEF Coordinator

(* ... and about the others and the sweeper.                                *)
LEMMA OrderPassFrame ==
    ASSUME NEW x \in Orders, OrderPass(x), Untouched(x)
    PROVE  OrderPass(x)'
BY DEF OrderPass, RecordedClosed, Recorded, OwnLines, Untouched

LEMMA SweeperPassFrame ==
    ASSUME TypeInv, NEW s \in Sweepers, SweepStatus(s), SweeperPass(s), SameSweeper(s),
           \A x \in Orders : expired[x] => Untouched(x)
    PROVE  SweeperPass(s)'
<1>1. at[s] # "idle" => \A x \in batch[s] : Untouched(x)
    BY DEF TypeInv, TypeOK, SweepStatus
<1>2. SnapshotCurrent(s)'
    BY <1>1 DEF SweeperPass, SnapshotCurrent, SameSweeper, Untouched
<1>3. RecordsOnce(s)'
    BY <1>1 DEF SweeperPass, RecordsOnce, Recorded, SweepStatus, SameSweeper, Untouched
<1>4. SweptLines(s)'
    BY DEF SweeperPass, SweptLines, SameSweeper
<1> QED BY <1>2, <1>3, <1>4 DEF SweeperPass

(* A sweeper's step, about any order ...                                    *)
LEMMA SweptPass ==
    ASSUME TypeInv, NEW s \in Sweepers, SweepStatus(s), Sweep(s) \/ SweepAbort(s),
           NEW x \in Orders, OrderPass(x)
    PROVE  OrderPass(x)'
<1>1. UNCHANGED coordVars /\ SweptRows(x)
    BY SweepRows
<1>2. OwnLines(x)'
    BY <1>1 DEF OrderPass, OwnLines, coordVars
<1>3. CASE steps'[x] = steps[x]
    BY <1>1, <1>2, <1>3 DEF OrderPass, RecordedClosed, Recorded, SweptRows
<1>4. CASE SweepRecordCompensated(s)
    <2>1. /\ cur[s] \in Orders /\ curVen[s] \in Vendors
          /\ sub[cur[s]][curVen[s]] = "ROLLED_BACK" /\ sub' = sub
        BY <1>4 DEF SweepRecordCompensated, SweepStatus, TypeInv, VisitOK
    <2>2. \/ steps'[x] = steps[x]
          \/ /\ x = cur[s]
             /\ steps'[x] = steps[x] \union {<<"SWEEP_COMPENSATED", curVen[s]>>}
        BY <1>4, <2>1, RecordFacts DEF SweepRecordCompensated
    <2> QED BY <1>2, <2>1, <2>2 DEF OrderPass, RecordedClosed, Recorded
<1> QED
    BY <1>3, <1>4
    DEF Sweep, SweepBegin, SweepReadSuborders, SweepReleaseLine,
        SweepMarkRolledBack, SweepFailOrder, SweepAbort, dbVars

(* ... and about its own pass.                                              *)
LEMMA TurnPass ==
    ASSUME TypeInv, NEW s \in Sweepers, NEW o \in Orders, NEW sn, Turn(s, o, sn),
           \A x \in batch'[s], v \in Vendors :
               sn[x][v] \in Compensable => sub'[x][v] = sn[x][v]
    PROVE  SweeperPass(s)'
<1>1. cur'[s] = o /\ seen'[s] = sn
    BY DEF Turn, TypeInv, TypeOK
<1>2. SnapshotCurrent(s)'
    BY <1>1 DEF SnapshotCurrent
<1>3. CASE at' = [at EXCEPT ![s] = "sweep_close"] \/ at' = [at EXCEPT ![s] = "sweep_mark"]
    BY <1>2, <1>3 DEF SweeperPass, RecordsOnce, SweptLines, TypeInv, TypeOK
<1>4. ASSUME NEW v \in Vendors, sn[o][v] \in Releasable,
             curVen' = [curVen EXCEPT ![s] = v],
             at' = [at EXCEPT ![s] = "sweep_release"],
             curTodo' = [curTodo EXCEPT ![s] = LinesOf(o, v)]
      PROVE  SweeperPass(s)'
    <2>1. at'[s] = "sweep_release" /\ curVen'[s] = v /\ curTodo'[s] = LinesOf(o, v)
        BY <1>4 DEF TypeInv, TypeOK
    <2> QED BY <1>1, <1>2, <1>4, <2>1
            DEF SweeperPass, RecordsOnce, SweptLines, Releasable
<1> QED BY <1>3, <1>4 DEF Turn

LEMMA OwnSweeperPass ==
    ASSUME TypeInv, NEW s \in Sweepers, SweepStatus(s), SweeperPass(s),
           \A o \in Orders : OrderPass(o), Sweep(s) \/ SweepAbort(s)
    PROVE  SweeperPass(s)'
<1>a. /\ batch[s] \in SUBSET Orders
      /\ seen[s] \in [Orders -> [Vendors -> SubStatus]]
      /\ at[s] \notin {"idle", "sweep_read"} => cur[s] \in Orders /\ cur[s] \in batch[s]
      /\ at[s] \in {"sweep_release", "sweep_mark", "sweep_log"} => curVen[s] \in Vendors
    BY DEF TypeInv, TypeOK, VisitOK, SweepStatus
<1>0. CASE at'[s] \in {"idle", "sweep_read"}
    BY <1>0 DEF SweeperPass, SnapshotCurrent, RecordsOnce, SweptLines
<1>1. CASE SweepBegin(s) \/ SweepAbort(s)
    BY <1>0, <1>1 DEF SweepBegin, SweepAbort, SweepIdle, TypeInv, TypeOK
<1>2. CASE SweepReadSuborders(s)
    BY <1>2, <1>a, TurnPass DEF SweepReadSuborders, Snapshot, dbVars
<1>3. CASE SweepReleaseLine(s)
    <2>1. /\ at[s] = "sweep_release" /\ at'[s] \in {"sweep_release", "sweep_mark"}
          /\ curTodo'[s] \subseteq curTodo[s]
          /\ UNCHANGED <<sub, batch, seen, cur, curVen>>
        BY <1>3 DEF SweepReleaseLine, dbVars, TypeInv, TypeOK
    <2> QED BY <2>1 DEF SweeperPass, SnapshotCurrent, RecordsOnce, SweptLines
<1>4. CASE SweepMarkRolledBack(s)
    <2>1. /\ at[s] = "sweep_mark" /\ at'[s] = "sweep_log"
          /\ UNCHANGED <<steps, batch, seen, cur, curVen>>
          /\ SetSub(cur[s], curVen[s], "ROLLED_BACK")
        BY <1>4 DEF SweepMarkRolledBack, TypeInv, TypeOK
    <2>2. \A x \in Orders, v \in Vendors :
              x # cur[s] \/ v # curVen[s] => sub'[x][v] = sub[x][v]
        BY <1>a, <2>1 DEF SetSub, TypeInv, TypeOK
    <2>3. SnapshotCurrent(s)'
        BY <1>a, <2>1, <2>2 DEF SweeperPass, SnapshotCurrent
    <2>4. sub[cur[s]][curVen[s]] \in Compensable
        BY <1>a, <2>1 DEF SweeperPass, SnapshotCurrent, SweepStatus
    <2>5. RecordsOnce(s)'
        BY <1>a, <2>1, <2>4
        DEF RecordsOnce, OrderPass, RecordedClosed, Recorded, Compensable
    <2> QED BY <2>1, <2>3, <2>5 DEF SweeperPass, SweptLines
<1>5. CASE SweepRecordCompensated(s)
    <2> DEFINE sn == [seen[s] EXCEPT ![cur[s]][curVen[s]] = "NONE"]
    <2>1. /\ at[s] = "sweep_log" /\ Turn(s, cur[s], sn)
          /\ batch' = batch /\ sub' = sub
          /\ cur[s] \in Orders /\ curVen[s] \in Vendors
        BY <1>5, <1>a DEF SweepRecordCompensated
    <2>2. \A x \in Orders, v \in Vendors :
              \/ x = cur[s] /\ v = curVen[s] /\ sn[x][v] = "NONE"
              \/ (x # cur[s] \/ v # curVen[s]) /\ sn[x][v] = seen[s][x][v]
        BY <1>a, <2>1
    <2> HIDE DEF sn
    <2>3. \A x \in batch[s], v \in Vendors :
              sn[x][v] \in Compensable => sub[x][v] = sn[x][v]
        BY <1>a, <2>1, <2>2 DEF SweeperPass, SnapshotCurrent, Compensable
    <2> QED BY <2>1, <2>3, TurnPass
<1>6. CASE SweepFailOrder(s)
    <2>1. CASE SweepIdle(s)
        BY <1>0, <2>1 DEF SweepIdle, TypeInv, TypeOK
    <2>2. ASSUME NEW o \in batch[s] \ {cur[s]}, Turn(s, o, seen[s]),
                 batch' = [batch EXCEPT ![s] = @ \ {cur[s]}]
          PROVE  SweeperPass(s)'
        <3>1. batch'[s] \subseteq batch[s]
            BY <2>2 DEF TypeInv, TypeOK
        <3>2. \A x \in batch[s], v \in Vendors :
                  seen[s][x][v] \in Compensable => sub'[x][v] = seen[s][x][v]
            BY <1>6 DEF SweepFailOrder, SweeperPass, SnapshotCurrent
        <3> QED BY <1>a, <2>2, <3>1, <3>2, TurnPass
    <2> QED BY <1>6, <2>1, <2>2 DEF SweepFailOrder
<1> QED BY <1>1, <1>2, <1>3, <1>4, <1>5, <1>6 DEF Sweep

-----------------------------------------------------------------------------
LEMMA InitPass == Init => PassInv
BY DEF Init, PassInv, OrderPass, RecordedClosed, Recorded, OwnLines, SweeperPass,
       SnapshotCurrent, RecordsOnce, SweptLines

LEMMA NextPass ==
    ASSUME ~Overlap, OneSweeper, TypeInv, StatusInv, PassInv, [Next]_vars
    PROVE  PassInv'
<1>a. /\ \A o \in Orders : CoordStatus(o) /\ OrderPass(o)
      /\ \A s \in Sweepers : SweepStatus(s) /\ SweeperPass(s)
    BY DEF StatusInv, PassInv
<1>1. ASSUME NEW o \in Orders,
             PlaceOrder(o) \/ Coordinator(o) \/ Crash(o) \/ Expire(o)
      PROVE  PassInv'
    <2>1. \A x \in Orders : OrderPass(x)'
        BY <1>1, <1>a, OwnRecord, OwnLinesKept, OtherOrders, OrderPassFrame DEF OrderPass
    <2>2. \A s \in Sweepers : SweeperPass(s)'
        BY <1>1, <1>a, OtherStatus, SweeperPassFrame
    <2> QED BY <2>1, <2>2 DEF PassInv
<1>2. ASSUME NEW s \in Sweepers, Sweep(s) \/ SweepAbort(s)
      PROVE  PassInv'
    <2>1. \A x \in Orders : OrderPass(x)'
        BY <1>2, <1>a, SweptPass
    <2>2. \A t \in Sweepers : SweeperPass(t)'
        BY <1>2, <1>a, OwnSweeperPass DEF OneSweeper
    <2> QED BY <2>1, <2>2 DEF PassInv
<1>3. CASE UNCHANGED <<dbVars, expired, coordVars, sweepVars>>
    BY <1>3, <1>a
    DEF dbVars, coordVars, sweepVars, PassInv, OrderPass, RecordedClosed, Recorded,
        OwnLines, SweeperPass, SnapshotCurrent, RecordsOnce, SweptLines
<1>4. ASSUME NEW l \in Listings, NEW n \in Counts, VendorRestocks(l, n)
      PROVE  PassInv'
    BY <1>4, <1>3 DEF VendorRestocks
<1>5. CASE UNCHANGED vars
    BY <1>5, <1>3 DEF vars, dbVars
<1> QED BY <1>1, <1>2, <1>4, <1>5 DEF Next

SagaInv == TypeInv /\ StatusInv /\ PassInv

LEMMA SagaInvariant ==
    ASSUME ~Overlap, OneSweeper PROVE Spec => []SagaInv
BY InitType, NextType, InitStatus, NextStatus, InitPass, NextPass, PTL
DEF Spec, SagaInv

(* However often passes stop, at whichever call, and are begun again: one   *)
(* sweep process records no compensation twice, nor one that the            *)
(* coordinator has recorded before it stopped.                              *)
THEOREM SagaCompensatesOnce ==
    ASSUME ~Overlap, OneSweeper PROVE Spec => []CompensatedOnce
<1>1. SagaInv => CompensatedOnce
    BY DEF SagaInv, PassInv, SweeperPass, RecordsOnce, Recorded, CompensatedOnce
<1> QED BY <1>1, SagaInvariant, PTL

-----------------------------------------------------------------------------
(* The units of a set of lines: one line more is its quantity more.         *)

LEMMA BlockSize ==
    ASSUME NEW x, NEW q \in Nat
    PROVE  IsFiniteSet({x} \X (1..q)) /\ Cardinality({x} \X (1..q)) = q
<1>1. IsFiniteSet(1..q) /\ Cardinality(1..q) = q
    <2>1. 1 \in Int /\ q \in Int
        OBVIOUS
    <2>2. IsFiniteSet(1..q) /\ Cardinality(1..q) = IF 1 > q THEN 0 ELSE q-1+1
        BY <2>1, FS_Interval, Zenon
    <2> QED BY <2>2
<1>2. IsFiniteSet({x}) /\ Cardinality({x}) = 1
    BY FS_Singleton
<1>3. /\ IsFiniteSet({x} \X (1..q))
      /\ Cardinality({x} \X (1..q)) = Cardinality({x}) * Cardinality(1..q)
    BY <1>1, <1>2, FS_Product, Zenon
<1> QED BY <1>1, <1>2, <1>3

LEMMA UnitsFinite ==
    ASSUME NEW S \in SUBSET Lines, IsFiniteSet(S)
    PROVE  IsFiniteSet(Units(S)) /\ Cardinality(Units(S)) \in Nat
<1> DEFINE f == [ln \in S |-> {ln} \X (1..QuantityOf[ln])]
           Blocks == {{ln} \X (1..QuantityOf[ln]) : ln \in S}
<1>1. f \in Surjection(S, Blocks)
    BY DEF Surjection
<1>2. IsFiniteSet(Blocks)
    BY <1>1, FS_Surjection
<1>3. ASSUME NEW ln \in S PROVE IsFiniteSet({ln} \X (1..QuantityOf[ln]))
    BY Lookup, BlockSize
<1>4. IsFiniteSet(UNION Blocks)
    BY <1>2, <1>3, FS_UNION
<1> QED BY <1>4, FS_CardinalityType DEF Units

LEMMA UnitsAdd ==
    ASSUME NEW S \in SUBSET Lines, IsFiniteSet(S), NEW ln \in Lines \ S
    PROVE  Cardinality(Units(S \union {ln})) = Cardinality(Units(S)) + QuantityOf[ln]
<1> DEFINE Block == {ln} \X (1..QuantityOf[ln])
<1>1. Units(S \union {ln}) = Units(S) \union Block
    BY DEF Units
<1>2. Units(S) \intersect Block = {}
    BY DEF Units
<1>3. QuantityOf[ln] \in Nat
    BY Lookup
<1>4. IsFiniteSet(Block) /\ Cardinality(Block) = QuantityOf[ln]
    BY <1>3, BlockSize
<1>5. IsFiniteSet(Units(S)) /\ Cardinality(Units(S)) \in Nat
    BY UnitsFinite
<1> HIDE DEF Block
<1>6. Cardinality(Units(S) \union Block)
          = Cardinality(Units(S)) + Cardinality(Block)
                - Cardinality(Units(S) \intersect Block)
    BY <1>4, <1>5, FS_Union, Zenon
<1>7. Cardinality(Units(S \union {ln}))
          = Cardinality(Units(S)) + QuantityOf[ln] - 0
    BY <1>1, <1>2, <1>4, <1>6, FS_EmptySet, Zenon
<1> QED BY <1>3, <1>5, <1>7

LEMMA UnitsOfAdd ==
    ASSUME IsFiniteSet(Lines), NEW S \in SUBSET Lines, NEW ln \in Lines \ S, NEW l
    PROVE  UnitsOf(S \union {ln}, l)
               = UnitsOf(S, l) + (IF ListingOf[ln] = l THEN QuantityOf[ln] ELSE 0)
<1> DEFINE T == {x \in S : ListingOf[x] = l}
<1>1. T \in SUBSET Lines /\ IsFiniteSet(T)
    BY FS_Subset
<1>2. Cardinality(Units(T)) \in Nat
    BY <1>1, UnitsFinite
<1>3. CASE ListingOf[ln] = l
    <2>1. {x \in S \union {ln} : ListingOf[x] = l} = T \union {ln}
        BY <1>3
    <2> QED BY <1>1, <1>3, <2>1, UnitsAdd DEF UnitsOf
<1>4. CASE ListingOf[ln] # l
    <2>1. {x \in S \union {ln} : ListingOf[x] = l} = T
        BY <1>4
    <2> QED BY <1>2, <1>4, <2>1 DEF UnitsOf
<1> QED BY <1>3, <1>4

LEMMA UnitsOfType ==
    ASSUME IsFiniteSet(Lines), NEW S \in SUBSET Lines, NEW l
    PROVE  UnitsOf(S, l) \in Nat
<1>1. {x \in S : ListingOf[x] = l} \in SUBSET Lines
      /\ IsFiniteSet({x \in S : ListingOf[x] = l})
    BY FS_Subset
<1> QED BY <1>1, UnitsFinite DEF UnitsOf

LEMMA UnitsOfMonotone ==
    ASSUME IsFiniteSet(Lines), NEW S \in SUBSET Lines, NEW T \in SUBSET S, NEW l
    PROVE  UnitsOf(T, l) <= UnitsOf(S, l)
<1> DEFINE Of(X) == {x \in X : ListingOf[x] = l}
<1>1. Units(Of(T)) \subseteq Units(Of(S))
    BY DEF Units
<1>2. Of(S) \in SUBSET Lines /\ IsFiniteSet(Of(S))
    BY FS_Subset
<1>3. IsFiniteSet(Units(Of(S)))
    BY <1>2, UnitsFinite
<1>4. Cardinality(Units(Of(T))) <= Cardinality(Units(Of(S)))
    BY <1>1, <1>3, FS_Subset
<1> QED BY <1>4 DEF UnitsOf

-----------------------------------------------------------------------------
(* What a line's being held depends on.  While no sweeper is at its order,  *)
(* on the order's coordinator and the suborder's status alone ...           *)
At(ln, phases) ==
    pc[OrderOf[ln]] \in phases /\ ven[OrderOf[ln]] = VendorOf[ListingOf[ln]]

SubOf(ln) == sub[OrderOf[ln]][VendorOf[ListingOf[ln]]]

HeldLive(ln) ==
    \/ At(ln, {"reserve"}) /\ ln \notin todo[OrderOf[ln]]
    \/ At(ln, {"undo", "release"}) /\ ln \in todo[OrderOf[ln]]
    \/ At(ln, {"succeed"})
    \/ SubOf(ln) = "RESERVED" /\ ~At(ln, {"release", "rollback"})

NotSwept(o) == \A s \in Sweepers : at[s] \in {"sweep_release", "sweep_mark"} => cur[s] # o

LEMMA HeldIsLive ==
    \A ln \in Lines : NotSwept(OrderOf[ln]) => (Held(ln) <=> HeldLive(ln))
BY DEF NotSwept, Held, HeldLive, CoordinatorAt, SweeperAt, At, SubOf

LEMMA HeldIsLivePrime ==
    \A ln \in Lines : NotSwept(OrderOf[ln])' => (Held(ln)' <=> HeldLive(ln)')
BY DEF NotSwept, Held, HeldLive, CoordinatorAt, SweeperAt, At, SubOf

LEMMA LiveNotSwept ==
    ASSUME TypeInv, StatusInv, NEW o \in Orders, ~expired[o] PROVE NotSwept(o)
BY DEF StatusInv, SweepStatus, NotSwept

LEMMA LineOfOrder ==
    ASSUME NEW o \in Orders, NEW ln \in OrderLines(o)
    PROVE  /\ ln \in Lines /\ OrderOf[ln] = o
           /\ VendorOf[ListingOf[ln]] \in VendorsOf(o)
           /\ VendorOf[ListingOf[ln]] \in Vendors
           /\ \A v : ln \in LinesOf(o, v) <=> v = VendorOf[ListingOf[ln]]
BY Lookup DEF OrderLines, VendorsOf, LinesOf

LEMMA LinesOfOrder ==
    ASSUME NEW o \in Orders, NEW v
    PROVE  LinesOf(o, v) \subseteq OrderLines(o)
BY DEF LinesOf, OrderLines

(* The steps of a coordinator that take or give back no unit: the line is   *)
(* held after the step if and only if it was before.                        *)
LEMMA QuietStep ==
    ASSUME TypeInv, NEW o \in Orders, CoordStatus(o), OwnLines(o),
           PlaceOrder(o) \/ Coordinator(o) \/ Expire(o),
           ~ReserveLine(o), ~UndoLine(o), ~CompensateLine(o),
           NEW ln \in OrderLines(o)
    PROVE  HeldLive(ln)' <=> HeldLive(ln)
<1> USE StatusPhases
<1> DEFINE v == VendorOf[ListingOf[ln]]
<1>a. /\ OrderOf[ln] = o /\ v \in VendorsOf(o) /\ v \in Vendors
      /\ \A u : ln \in LinesOf(o, u) <=> u = v
    BY LineOfOrder
<1>b. pc[o] \in VisitPhases => ven[o] \in Vendors
    BY DEF TypeInv, VisitOK
<1>c. ASSUME NEW S, NextVendor(o, S)
      PROVE  pc'[o] \in {"attempt", "confirm", "comp", "close"}
    BY <1>c, VisitFacts DEF NextVendor
<1> HIDE DEF v
<1>0. ASSUME pc[o] \notin {"reserve", "undo", "succeed", "release", "rollback"},
             pc'[o] \notin {"reserve", "undo", "succeed", "release", "rollback"},
             sub'[o][v] = "RESERVED" <=> sub[o][v] = "RESERVED"
      PROVE  HeldLive(ln)' <=> HeldLive(ln)
    BY <1>0, <1>a DEF HeldLive, At, SubOf, v
<1>1. CASE PlaceOrder(o)
    <2>1. pc[o] = "start" /\ pc'[o] \in {"attempt", "confirm"}
        BY <1>1, VisitFacts DEF PlaceOrder
    <2>2. sub[o][v] = "NONE" /\ sub'[o][v] # "RESERVED"
        BY <1>1, <1>a DEF PlaceOrder, CoordStatus, OrderAt, Outcome, TypeInv, TypeOK
    <2> QED BY <1>0, <2>1, <2>2
<1>2. CASE RecordReserveAttempted(o)
    <2>1. /\ pc[o] = "attempt" /\ pc'[o] = "reserve" /\ todo'[o] = LinesOf(o, ven[o])
          /\ ven'[o] = ven[o] /\ sub'[o] = sub[o]
        BY <1>2, GotoFacts, SetTodoFacts DEF RecordReserveAttempted
    <2>2. sub[o][ven[o]] = "PENDING_RESERVATION"
        BY <2>1 DEF CoordStatus, Reserving
    <2> QED BY <1>a, <2>1, <2>2 DEF HeldLive, At, SubOf, v
<1>3. CASE ReserveRefused(o)
    <2>1. /\ pc[o] = "reserve" /\ ven'[o] = ven[o] /\ sub'[o] = sub[o]
          /\ todo'[o] = LinesReserved(o)
          /\ pc'[o] = IF LinesReserved(o) = {} THEN "fail" ELSE "undo"
        BY <1>3, GotoFacts, SetTodoFacts DEF ReserveRefused, dbVars
    <2>2. sub[o][ven[o]] = "PENDING_RESERVATION"
        BY <2>1 DEF CoordStatus, Reserving
    <2> QED BY <1>a, <2>1, <2>2 DEF HeldLive, At, SubOf, v, LinesReserved
<1>4. CASE MarkReservationFailed(o)
    <2>1. /\ pc[o] = "fail" /\ pc'[o] = "logfail" /\ ven[o] \in Vendors
          /\ sub[o][ven[o]] = "PENDING_RESERVATION"
        BY <1>4, <1>b, GotoFacts
        DEF MarkReservationFailed, CoordStatus, Reserving, VisitPhases
    <2>2. /\ sub'[o][ven[o]] = "RESERVATION_FAILED"
          /\ \A u \in Vendors \ {ven[o]} : sub'[o][u] = sub[o][u]
        BY <1>4, <2>1, SetSubFacts DEF MarkReservationFailed
    <2> QED BY <1>a, <1>0, <2>1, <2>2
<1>5. CASE RecordReserveFailed(o) \/ RecordReserveSucceeded(o)
    <2>1. pc[o] \in {"logfail", "logsucceed"} /\ sub'[o] = sub[o]
        BY <1>5 DEF RecordReserveFailed, RecordReserveSucceeded
    <2>2. pc'[o] \in {"attempt", "confirm", "comp", "close"}
        BY <1>5, <1>c DEF RecordReserveFailed, RecordReserveSucceeded
    <2> QED BY <1>0, <2>1, <2>2
<1>6. CASE MarkReserved(o)
    <2>1. /\ pc[o] = "succeed" /\ pc'[o] = "logsucceed" /\ ven[o] \in Vendors
          /\ ven'[o] = ven[o]
        BY <1>6, <1>b, GotoFacts DEF MarkReserved, VisitPhases
    <2>2. /\ sub'[o][ven[o]] = "RESERVED"
          /\ \A u \in Vendors \ {ven[o]} : sub'[o][u] = sub[o][u]
        BY <1>6, <2>1, SetSubFacts DEF MarkReserved
    <2> QED BY <1>a, <2>1, <2>2 DEF HeldLive, At, SubOf, v
<1>7. CASE ConfirmOrder(o) \/ FailOrder(o)
    BY <1>0, <1>7, GotoFacts DEF ConfirmOrder, FailOrder
<1>8. CASE RecordCompensationAttempted(o)
    <2>1. /\ pc[o] = "comp" /\ pc'[o] = "release" /\ todo'[o] = LinesOf(o, ven[o])
          /\ ven'[o] = ven[o] /\ sub'[o] = sub[o]
        BY <1>8, GotoFacts, SetTodoFacts DEF RecordCompensationAttempted
    <2>2. sub[o][ven[o]] = "RESERVED"
        BY <2>1 DEF CoordStatus, Compensating
    <2> QED BY <1>a, <2>1, <2>2 DEF HeldLive, At, SubOf, v
<1>9. CASE MarkRolledBack(o)
    <2>1. /\ pc[o] = "rollback" /\ pc'[o] = "logrollback" /\ ven[o] \in Vendors
          /\ ven'[o] = ven[o]
        BY <1>9, <1>b, GotoFacts DEF MarkRolledBack, VisitPhases
    <2>2. /\ sub'[o][ven[o]] = "ROLLED_BACK"
          /\ \A u \in Vendors \ {ven[o]} : sub'[o][u] = sub[o][u]
        BY <1>9, <2>1, SetSubFacts DEF MarkRolledBack
    <2> QED BY <1>a, <2>1, <2>2 DEF HeldLive, At, SubOf, v
<1>10. CASE RecordCompensationSucceeded(o)
    BY <1>0, <1>10, VisitFacts DEF RecordCompensationSucceeded
<1>11. CASE Expire(o)
    BY <1>11, <1>a DEF Expire, dbVars, coordVars, HeldLive, At, SubOf
<1> QED BY <1>1, <1>2, <1>3, <1>4, <1>5, <1>6, <1>7, <1>8, <1>9, <1>10, <1>11
        DEF Coordinator

(* A step that takes units of one line, one that gives units of one line    *)
(* back, or tries to, and a stop that strands the lines of one suborder.    *)
LEMMA TakeStep ==
    ASSUME TypeInv, NEW o \in Orders, CoordStatus(o), OwnLines(o), ReserveLine(o)
    PROVE  \E ln \in OrderLines(o) :
              /\ ReserveStock(ListingOf[ln], QuantityOf[ln])
              /\ ~HeldLive(ln)
              /\ \A x \in OrderLines(o) : HeldLive(x)' <=> HeldLive(x) \/ x = ln
<1>1. PICK ln \in todo[o] :
          /\ ReserveStock(ListingOf[ln], QuantityOf[ln])
          /\ SetTodo(o, todo[o] \ {ln})
          /\ Goto(o, IF todo[o] = {ln} THEN "succeed" ELSE "reserve")
    BY DEF ReserveLine
<1>2. /\ pc[o] = "reserve" /\ ven'[o] = ven[o] /\ sub'[o] = sub[o]
      /\ todo'[o] = todo[o] \ {ln}
      /\ pc'[o] = IF todo[o] = {ln} THEN "succeed" ELSE "reserve"
    BY <1>1, GotoFacts, SetTodoFacts DEF ReserveLine, dbVars
<1>3. /\ todo[o] \subseteq LinesOf(o, ven[o])
      /\ sub[o][ven[o]] = "PENDING_RESERVATION"
    BY <1>2, StatusPhases DEF OwnLines, CoordStatus, Reserving
<1>4. ln \in OrderLines(o)
    BY <1>3, LinesOfOrder
<1>5. ~HeldLive(ln)
    BY <1>2, <1>3, <1>4, LineOfOrder DEF HeldLive, At, SubOf
<1>6. ASSUME NEW x \in OrderLines(o) PROVE HeldLive(x)' <=> HeldLive(x) \/ x = ln
    BY <1>2, <1>3, <1>4, LineOfOrder DEF HeldLive, At, SubOf
<1> QED BY <1>1, <1>4, <1>5, <1>6

LEMMA GiveStep ==
    ASSUME TypeInv, NEW o \in Orders, CoordStatus(o), OwnLines(o),
           UndoLine(o) \/ CompensateLine(o)
    PROVE  \E ln \in OrderLines(o) :
              /\ TryRelease(ListingOf[ln], QuantityOf[ln])
              /\ HeldLive(ln)
              /\ \A x \in OrderLines(o) : HeldLive(x)' <=> HeldLive(x) /\ x # ln
<1>1. PICK p \in {"undo", "release"}, q \in {"fail", "rollback"} :
          /\ ReleaseLine(o, p, q)
          /\ p = "undo" => q = "fail"
          /\ p = "release" => q = "rollback"
    BY DEF UndoLine, CompensateLine
<1>2. PICK ln \in todo[o] :
          /\ TryRelease(ListingOf[ln], QuantityOf[ln])
          /\ SetTodo(o, todo[o] \ {ln})
          /\ Goto(o, IF todo[o] = {ln} THEN q ELSE p)
    BY <1>1 DEF ReleaseLine
<1>3. /\ pc[o] = p /\ ven'[o] = ven[o] /\ sub'[o] = sub[o]
      /\ todo'[o] = todo[o] \ {ln}
      /\ pc'[o] = IF todo[o] = {ln} THEN q ELSE p
    BY <1>1, <1>2, GotoFacts, SetTodoFacts DEF ReleaseLine, dbVars
<1>4. /\ todo[o] \subseteq LinesOf(o, ven[o])
      /\ p = "undo" => sub[o][ven[o]] = "PENDING_RESERVATION"
    BY <1>1, <1>3, StatusPhases DEF OwnLines, CoordStatus, Reserving
<1>5. ln \in OrderLines(o)
    BY <1>4, LinesOfOrder
<1>6. HeldLive(ln)
    BY <1>1, <1>3, <1>4, <1>5, LineOfOrder DEF HeldLive, At
<1>7. ASSUME NEW x \in OrderLines(o) PROVE HeldLive(x)' <=> HeldLive(x) /\ x # ln
    <2>1. CASE p = "undo"
        BY <1>1, <1>3, <1>4, <1>5, <2>1, LineOfOrder DEF HeldLive, At, SubOf
    <2>2. CASE p = "release"
        BY <1>1, <1>3, <1>4, <1>5, <2>2, LineOfOrder DEF HeldLive, At, SubOf
    <2> QED BY <2>1, <2>2
<1> QED BY <1>2, <1>5, <1>6, <1>7

NoDoubleStops == CrashPoints \intersect DoublePoints = {}
NoLeakStops == CrashPoints \intersect LeakPoints = {}

LEMMA CrashStep ==
    ASSUME TypeInv, NoDoubleStops, NEW o \in Orders, CoordStatus(o), Crash(o),
           NEW x \in OrderLines(o)
    PROVE  /\ HeldLive(x)' => HeldLive(x)
           /\ NoLeakStops => (HeldLive(x)' <=> HeldLive(x))
<1>1. /\ pc[o] \notin {"release", "rollback"} /\ pc'[o] = "crashed"
      /\ sub'[o] = sub[o]
      /\ NoLeakStops => pc[o] \notin {"reserve", "undo", "succeed"}
    BY GotoFacts DEF Crash, NoDoubleStops, NoLeakStops, DoublePoints, LeakPoints, dbVars
<1> QED BY <1>1, LineOfOrder DEF HeldLive, At, SubOf

-----------------------------------------------------------------------------
(* The steps of the whole saga, in the terms of AllOrNothing; but a release *)
(* may still miss, and a stop may strand lines.                             *)
TryDrop(ln) ==
    /\ order[OrderOf[ln]] = "PENDING"
    /\ ln \in HeldLines
    /\ TryRelease(ListingOf[ln], QuantityOf[ln])
    /\ HeldLines' = HeldLines \ {ln}
    /\ UNCHANGED order

Strand ==
    /\ ~NoLeakStops
    /\ HeldLines' \subseteq HeldLines
    /\ UNCHANGED <<inventory, order>>

HoldStep ==
    \/ UNCHANGED <<inventory, order, HeldLines>>
    \/ \E o \in Orders : Promise!Place(o) \/ Promise!Confirm(o) \/ Promise!Fail(o)
    \/ \E ln \in Lines : Promise!Hold(ln) \/ TryDrop(ln)
    \/ \E l \in Listings, n \in Counts : Promise!Restock(l, n)
    \/ Strand

(* A coordinator's step changes the lines of its own order only.            *)
LEMMA OtherLines ==
    ASSUME TypeInv, StatusInv, NEW o \in Orders,
           PlaceOrder(o) \/ Coordinator(o) \/ Crash(o) \/ Expire(o),
           NEW ln \in Lines, OrderOf[ln] # o
    PROVE  Held(ln)' <=> Held(ln)
<1>1. OrderOf[ln] \in Orders \ {o}
    BY Lookup
<1>2. Untouched(OrderOf[ln]) /\ \A s \in Sweepers : SameSweeper(s)
    BY <1>1, OtherOrders, OtherStatus DEF StatusInv
<1> QED BY <1>2 DEF Held, CoordinatorAt, SweeperAt, Untouched, SameSweeper

LEMMA OwnHeld ==
    ASSUME TypeInv, StatusInv, NEW o \in Orders,
           PlaceOrder(o) \/ Coordinator(o) \/ Crash(o) \/ Expire(o),
           NEW ln \in OrderLines(o)
    PROVE  (Held(ln) <=> HeldLive(ln)) /\ (Held(ln)' <=> HeldLive(ln)')
<1>1. ~expired[o]
    <2>1. expired[o] => pc[o] = "crashed"
        BY DEF StatusInv, CoordStatus, OrderAt
    <2> QED
        BY <2>1, SagaAssumption
        DEF Coordinator, PlaceOrder, RecordReserveAttempted, ReserveLine, ReserveRefused,
            UndoLine, CompensateLine, ReleaseLine, MarkReservationFailed,
            RecordReserveFailed, MarkReserved, RecordReserveSucceeded, ConfirmOrder,
            RecordCompensationAttempted, MarkRolledBack, RecordCompensationSucceeded,
            FailOrder, Crash, Expire, CoordinatorPhases, SweepPhases
<1>2. NotSwept(o)
    BY <1>1, LiveNotSwept
<1>3. NotSwept(o)'
    BY <1>2, OtherStatus DEF NotSwept, SameSweeper, StatusInv
<1>4. ln \in Lines /\ OrderOf[ln] = o
    BY LineOfOrder
<1> QED BY <1>2, <1>3, <1>4, HeldIsLive, HeldIsLivePrime

LEMMA LinePartition == \A ln \in Lines, o \in Orders : ln \in OrderLines(o) <=> OrderOf[ln] = o
BY DEF OrderLines

LEMMA CoordinatorHold ==
    ASSUME TypeInv, StatusInv, PassInv, NoDoubleStops, NEW o \in Orders,
           PlaceOrder(o) \/ Coordinator(o) \/ Crash(o) \/ Expire(o)
    PROVE  HoldStep
<1>a. CoordStatus(o) /\ OwnLines(o)
    BY DEF StatusInv, PassInv, OrderPass
<1>b. \A ln \in Lines : ln \notin OrderLines(o) => (Held(ln)' <=> Held(ln))
    BY OtherLines, LinePartition
<1>c. \A ln \in OrderLines(o) :
          /\ ln \in Lines /\ OrderOf[ln] = o
          /\ (Held(ln) <=> HeldLive(ln)) /\ (Held(ln)' <=> HeldLive(ln)')
    BY OwnHeld, LineOfOrder
<1>1. CASE ReserveLine(o)
    <2>1. PICK ln \in OrderLines(o) :
              /\ ReserveStock(ListingOf[ln], QuantityOf[ln])
              /\ ~HeldLive(ln)
              /\ \A x \in OrderLines(o) : HeldLive(x)' <=> HeldLive(x) \/ x = ln
        BY <1>1, <1>a, TakeStep
    <2>2. ln \notin HeldLines /\ HeldLines' = HeldLines \union {ln}
        BY <1>b, <1>c, <2>1 DEF HeldLines
    <2>3. order[OrderOf[ln]] = "PENDING" /\ order' = order
        BY <1>1, <1>a, <1>c, StatusPhases
        DEF CoordStatus, OrderAt, ReserveLine, dbVars
    <2>4. Promise!Hold(ln)
        BY <2>1, <2>2, <2>3
        DEF Promise!Hold, Promise!ReserveStock, Promise!CanReserve, Promise!Available,
            ReserveStock, CanReserve, Available
    <2> QED BY <1>c, <2>4 DEF HoldStep
<1>2. CASE UndoLine(o) \/ CompensateLine(o)
    <2>1. PICK ln \in OrderLines(o) :
              /\ TryRelease(ListingOf[ln], QuantityOf[ln])
              /\ HeldLive(ln)
              /\ \A x \in OrderLines(o) : HeldLive(x)' <=> HeldLive(x) /\ x # ln
        BY <1>2, <1>a, GiveStep
    <2>2. ln \in HeldLines /\ HeldLines' = HeldLines \ {ln}
        BY <1>b, <1>c, <2>1 DEF HeldLines
    <2>3. order[OrderOf[ln]] = "PENDING" /\ order' = order
        BY <1>2, <1>a, <1>c, StatusPhases
        DEF CoordStatus, OrderAt, UndoLine, CompensateLine, ReleaseLine, dbVars
    <2> QED BY <1>c, <2>1, <2>2, <2>3 DEF HoldStep, TryDrop
<1>3. CASE Crash(o)
    <2>1. /\ HeldLines' \subseteq HeldLines
          /\ NoLeakStops => HeldLines' = HeldLines
        BY <1>3, <1>a, <1>b, <1>c, CrashStep DEF HeldLines
    <2>2. UNCHANGED <<inventory, order>>
        BY <1>3 DEF Crash, dbVars
    <2> QED BY <2>1, <2>2 DEF HoldStep, Strand
<1>4. ASSUME ~ReserveLine(o), ~UndoLine(o), ~CompensateLine(o), ~Crash(o)
      PROVE  HoldStep
    <2>1. \A ln \in OrderLines(o) : HeldLive(ln)' <=> HeldLive(ln)
        BY <1>4, <1>a, QuietStep
    <2>2. HeldLines' = HeldLines
        BY <1>b, <1>c, <2>1 DEF HeldLines
    <2>3. CASE PlaceOrder(o)
        <3>1. order[o] = "NONE"
            BY <1>a, <2>3 DEF PlaceOrder, CoordStatus, OrderAt
        <3> QED BY <2>2, <2>3, <3>1 DEF PlaceOrder, SetOrder, HoldStep, Promise!Place
    <2>4. CASE ConfirmOrder(o)
        <3>1. order[o] = "PENDING"
            BY <1>a, <2>4, StatusPhases DEF ConfirmOrder, CoordStatus, OrderAt
        <3>2. \A ln \in OrderLines(o) : HeldLive(ln)
            BY <1>a, <2>4, LineOfOrder
            DEF ConfirmOrder, CoordStatus, Outcome, HeldLive, At, SubOf
        <3>3. Promise!OrderLines(o) \subseteq HeldLines
            BY <1>c, <3>2 DEF Promise!OrderLines, OrderLines, HeldLines
        <3> QED BY <2>2, <2>4, <3>1, <3>3
                DEF ConfirmOrder, SetOrder, HoldStep, Promise!Confirm
    <2>5. CASE FailOrder(o)
        <3>1. order[o] = "PENDING"
            BY <1>a, <2>5, StatusPhases DEF FailOrder, CoordStatus, OrderAt
        <3>2. \A ln \in OrderLines(o) : ~HeldLive(ln)
            BY <1>a, <2>5, LineOfOrder
            DEF FailOrder, CoordStatus, Outcome, Closed, HeldLive, At, SubOf
        <3>3. Promise!OrderLines(o) \intersect HeldLines = {}
            BY <1>c, <3>2 DEF Promise!OrderLines, OrderLines, HeldLines
        <3> QED BY <2>2, <2>5, <3>1, <3>3
                DEF FailOrder, SetOrder, HoldStep, Promise!Fail
    <2>6. CASE ~PlaceOrder(o) /\ ~ConfirmOrder(o) /\ ~FailOrder(o)
        <3>1. UNCHANGED <<inventory, order>>
            BY <1>4, <2>6
            DEF Coordinator, RecordReserveAttempted, ReserveRefused,
                MarkReservationFailed, RecordReserveFailed, MarkReserved,
                RecordReserveSucceeded, RecordCompensationAttempted, MarkRolledBack,
                RecordCompensationSucceeded, Expire, dbVars
        <3> QED BY <2>2, <3>1 DEF HoldStep
    <2> QED BY <2>3, <2>4, <2>5, <2>6
<1> QED BY <1>1, <1>2, <1>3, <1>4

-----------------------------------------------------------------------------
(* ... and, for a line whose order has no living coordinator, on where the  *)
(* only sweeper is.                                                         *)
SweepHolds(s, ln) ==
    /\ SubOf(ln) = "RESERVED"
    /\ SweeperAt(s, ln, {"sweep_release"}) => ln \in curTodo[s]
    /\ ~SweeperAt(s, ln, {"sweep_mark"})

LEMMA HeldBySweep ==
    ASSUME OneSweeper, TypeInv, NEW s \in Sweepers, Sweep(s) \/ SweepAbort(s),
           UNCHANGED coordVars
    PROVE  \A ln : (SweepHolds(s, ln)' <=> SweepHolds(s, ln)) => (Held(ln)' <=> Held(ln))
BY DEF OneSweeper, coordVars, Held, CoordinatorAt, SweepHolds, SubOf

LEMMA HeldCrashed ==
    ASSUME OneSweeper, NEW s \in Sweepers, NEW ln, pc[OrderOf[ln]] = "crashed"
    PROVE  Held(ln) <=> SweepHolds(s, ln)
BY DEF OneSweeper, Held, CoordinatorAt, SweepHolds, SubOf

(* Turning to a suborder changes nothing: its lines are still to release,   *)
(* or it was never reserved.                                                *)
LEMMA TurnHolds ==
    ASSUME TypeInv, StatusInv', PassInv', NEW s \in Sweepers, NEW o \in Orders, NEW sn,
           Turn(s, o, sn), at[s] \notin {"sweep_release", "sweep_mark"}, sub' = sub,
           o \in batch'[s], NEW ln \in Lines
    PROVE  SweepHolds(s, ln)' <=> SweepHolds(s, ln)
<1>1. cur'[s] = o /\ seen'[s] = sn
    BY DEF Turn, TypeInv, TypeOK
<1>2. CASE at' = [at EXCEPT ![s] = "sweep_close"]
    BY <1>2 DEF SweepHolds, SweeperAt, SubOf, TypeInv, TypeOK
<1>3. ASSUME NEW v \in Vendors, curVen' = [curVen EXCEPT ![s] = v],
             at' = [at EXCEPT ![s] = "sweep_release"],
             curTodo' = [curTodo EXCEPT ![s] = LinesOf(o, v)]
      PROVE  SweepHolds(s, ln)' <=> SweepHolds(s, ln)
    <2>1. at'[s] = "sweep_release" /\ curVen'[s] = v /\ curTodo'[s] = LinesOf(o, v)
        BY <1>3 DEF TypeInv, TypeOK
    <2> QED BY <1>1, <2>1 DEF SweepHolds, SweeperAt, SubOf, LinesOf, OrderLines
<1>4. ASSUME NEW v \in Vendors, curVen' = [curVen EXCEPT ![s] = v],
             sn[o][v] \in Compensable, sn[o][v] \notin Releasable,
             at' = [at EXCEPT ![s] = "sweep_mark"]
      PROVE  SweepHolds(s, ln)' <=> SweepHolds(s, ln)
    <2>1. at'[s] = "sweep_mark" /\ curVen'[s] = v
        BY <1>4 DEF TypeInv, TypeOK
    <2>2. SnapshotCurrent(s)'
        BY DEF PassInv, SweeperPass
    <2>3. sub[o][v] # "RESERVED"
        BY <1>1, <1>4, <2>1, <2>2 DEF SnapshotCurrent, Releasable
    <2> QED BY <1>1, <2>1, <2>3 DEF SweepHolds, SweeperAt, SubOf
<1> QED BY <1>2, <1>3, <1>4 DEF Turn

LEMMA SweepHold ==
    ASSUME OneSweeper, NoDoubleStops, TypeInv, StatusInv, PassInv, StatusInv', PassInv',
           NEW s \in Sweepers, Sweep(s) \/ SweepAbort(s)
    PROVE  HoldStep
<1>a. /\ \A o \in Orders : CoordStatus(o)
      /\ SweepStatus(s) /\ SweeperPass(s) /\ SweepStatus(s)'
    BY DEF StatusInv, PassInv
<1>b. /\ UNCHANGED <<expired, coordVars>>
      /\ batch[s] \in SUBSET Orders
      /\ at[s] \notin {"idle", "sweep_read"} =>
            cur[s] \in Orders /\ cur[s] \in batch[s] /\ expired[cur[s]]
      /\ at[s] \in {"sweep_release", "sweep_mark", "sweep_log"} => curVen[s] \in Vendors
    BY <1>a, SweepRows DEF TypeInv, TypeOK, VisitOK, SweepStatus
<1>0. ASSUME \A ln \in Lines : SweepHolds(s, ln)' <=> SweepHolds(s, ln)
      PROVE  HeldLines' = HeldLines
    BY <1>0, <1>b, HeldBySweep DEF HeldLines
<1>1. CASE SweepBegin(s)
    <2>1. /\ at[s] = "idle" /\ at'[s] = "sweep_read"
          /\ UNCHANGED <<inventory, order, sub>>
        BY <1>1 DEF SweepBegin, dbVars, TypeInv, TypeOK
    <2> QED BY <1>0, <2>1 DEF SweepHolds, SweeperAt, SubOf, HoldStep
<1>2. CASE SweepAbort(s)
    <2>1. /\ at[s] \notin {"sweep_release", "sweep_mark"} /\ at'[s] = "idle"
          /\ UNCHANGED <<inventory, order, sub>>
        BY <1>2
        DEF SweepAbort, SweepIdle, NoDoubleStops, DoublePoints, dbVars, TypeInv, TypeOK
    <2> QED BY <1>0, <2>1 DEF SweepHolds, SweeperAt, SubOf, HoldStep
<1>3. CASE SweepReadSuborders(s)
    <2>1. PICK o \in batch[s] : Turn(s, o, Snapshot(batch[s]))
        BY <1>3 DEF SweepReadSuborders
    <2>2. /\ at[s] = "sweep_read" /\ batch' = batch
          /\ UNCHANGED <<inventory, order, sub>>
        BY <1>3 DEF SweepReadSuborders, dbVars
    <2>3. HeldLines' = HeldLines
        BY <1>0, <1>b, <2>1, <2>2, TurnHolds
    <2> QED BY <2>2, <2>3 DEF HoldStep
<1>4. CASE SweepReleaseLine(s)
    <2>1. PICK ln \in curTodo[s] :
              /\ TryRelease(ListingOf[ln], QuantityOf[ln])
              /\ curTodo' = [curTodo EXCEPT ![s] = @ \ {ln}]
              /\ at' = [at EXCEPT ![s] = IF curTodo[s] = {ln} THEN "sweep_mark"
                                         ELSE "sweep_release"]
        BY <1>4 DEF SweepReleaseLine
    <2>2. /\ at[s] = "sweep_release" /\ curTodo'[s] = curTodo[s] \ {ln}
          /\ at'[s] = IF curTodo[s] = {ln} THEN "sweep_mark" ELSE "sweep_release"
          /\ UNCHANGED <<order, sub, cur, curVen>>
        BY <1>4, <2>1 DEF SweepReleaseLine, dbVars, TypeInv, TypeOK
    <2> DEFINE o == cur[s]
    <2>3. /\ o \in Orders /\ expired[o] /\ pc[o] = "crashed"
          /\ curTodo[s] \subseteq LinesOf(o, curVen[s])
          /\ seen[s][o][curVen[s]] = "RESERVED"
        BY <1>a, <1>b, <2>2 DEF CoordStatus, OrderAt, SweeperPass, SweptLines
    <2>4. sub[o][curVen[s]] = "RESERVED"
        BY <1>a, <1>b, <2>2, <2>3
        DEF SweeperPass, SnapshotCurrent, Compensable
    <2>5. /\ ln \in Lines /\ OrderOf[ln] = o
          /\ VendorOf[ListingOf[ln]] = curVen[s]
          /\ \A x \in LinesOf(o, curVen[s]) :
                OrderOf[x] = o /\ VendorOf[ListingOf[x]] = curVen[s]
        BY <2>1, <2>3, Lookup DEF LinesOf, OrderLines
    <2>6. SweepHolds(s, ln) /\ ~SweepHolds(s, ln)'
        BY <2>1, <2>2, <2>4, <2>5 DEF SweepHolds, SweeperAt, SubOf
    <2>7. Held(ln) /\ ~Held(ln)'
        <3>1. pc'[OrderOf[ln]] = "crashed" /\ pc[OrderOf[ln]] = "crashed"
            BY <1>b, <2>3, <2>5 DEF coordVars
        <3>2. Held(ln)' => SweepHolds(s, ln)'
            BY <3>1 DEF Held, CoordinatorAt, SweepHolds, SubOf
        <3> QED BY <2>6, <3>1, <3>2, HeldCrashed
    <2>8. ASSUME NEW x \in Lines, x # ln PROVE SweepHolds(s, x)' <=> SweepHolds(s, x)
        BY <2>1, <2>2, <2>8 DEF SweepHolds, SweeperAt, SubOf
    <2>9. HeldLines' = HeldLines \ {ln}
        BY <1>b, <2>7, <2>8, HeldBySweep DEF HeldLines
    <2>10. order[o] = "PENDING"
        <3>1. curVen[s] \in VendorsOf(o)
            BY <2>5 DEF VendorsOf, OrderLines
        <3> QED BY <1>a, <2>3, <2>4, <3>1 DEF CoordStatus, OrderAt, Outcome, Closed
    <2> QED BY <2>1, <2>2, <2>5, <2>7, <2>9, <2>10 DEF HoldStep, TryDrop, HeldLines
<1>5. CASE SweepMarkRolledBack(s)
    <2>1. /\ at[s] = "sweep_mark" /\ at'[s] = "sweep_log"
          /\ UNCHANGED <<inventory, order, cur, curVen>>
          /\ SetSub(cur[s], curVen[s], "ROLLED_BACK")
        BY <1>5 DEF SweepMarkRolledBack, TypeInv, TypeOK
    <2>2. ASSUME NEW ln \in Lines PROVE SweepHolds(s, ln)' <=> SweepHolds(s, ln)
        <3>1. OrderOf[ln] \in Orders /\ VendorOf[ListingOf[ln]] \in Vendors
            BY Lookup
        <3>2. CASE OrderOf[ln] = cur[s] /\ VendorOf[ListingOf[ln]] = curVen[s]
            BY <1>b, <2>1, <3>2, SetSubFacts DEF SweepHolds, SweeperAt, SubOf
        <3>3. CASE OrderOf[ln] # cur[s] \/ VendorOf[ListingOf[ln]] # curVen[s]
            BY <1>b, <2>1, <3>1, <3>3, SetSubFacts DEF SweepHolds, SweeperAt, SubOf
        <3> QED BY <3>2, <3>3
    <2> QED BY <1>0, <2>1, <2>2 DEF HoldStep
<1>6. CASE SweepRecordCompensated(s)
    <2>1. /\ at[s] = "sweep_log" /\ batch' = batch
          /\ UNCHANGED <<inventory, order, sub>>
          /\ Turn(s, cur[s], [seen[s] EXCEPT ![cur[s]][curVen[s]] = "NONE"])
        BY <1>6 DEF SweepRecordCompensated
    <2>2. HeldLines' = HeldLines
        BY <1>0, <1>b, <2>1, TurnHolds
    <2> QED BY <2>1, <2>2 DEF HoldStep
<1>7. CASE SweepFailOrder(s)
    <2>1. /\ at[s] = "sweep_close" /\ UNCHANGED <<inventory, sub>>
          /\ order' = [order EXCEPT ![cur[s]] = "FAILED"]
        BY <1>7 DEF SweepFailOrder, SetOrder
    <2>2. HeldLines' = HeldLines
        <3>1. CASE SweepIdle(s)
            <4>1. at'[s] = "idle"
                BY <3>1 DEF SweepIdle, TypeInv, TypeOK
            <4> QED BY <1>0, <2>1, <4>1 DEF SweepHolds, SweeperAt, SubOf
        <3>2. ASSUME NEW o \in batch[s] \ {cur[s]}, Turn(s, o, seen[s]),
                     batch' = [batch EXCEPT ![s] = @ \ {cur[s]}]
              PROVE  HeldLines' = HeldLines
            <4>1. o \in batch'[s]
                BY <3>2 DEF TypeInv, TypeOK
            <4> QED BY <1>0, <1>b, <2>1, <3>2, <4>1, TurnHolds
        <3> QED BY <1>7, <3>1, <3>2 DEF SweepFailOrder
    <2> DEFINE o == cur[s]
    <2>3. o \in Orders /\ pc[o] = "crashed" /\ order[o] \in {"PENDING", "FAILED"}
        BY <1>a, <1>b, <2>1 DEF CoordStatus, OrderAt
    <2>4. \A v \in VendorsOf(o) : sub[o][v] \in Closed
        BY <1>a, <1>b, <2>1, Lookup DEF SweepStatus, SnapshotHolds
    <2>5. ASSUME NEW ln \in Lines, OrderOf[ln] = o PROVE ln \notin HeldLines
        <3>1. VendorOf[ListingOf[ln]] \in VendorsOf(o)
            BY <2>5 DEF VendorsOf, OrderLines
        <3>2. ~SweepHolds(s, ln)
            BY <2>4, <2>5, <3>1 DEF SweepHolds, SubOf, Closed
        <3> QED BY <2>3, <2>5, <3>2, HeldCrashed DEF HeldLines
    <2>6. CASE order[o] = "PENDING"
        <3>1. Promise!OrderLines(o) \intersect HeldLines = {}
            BY <2>5 DEF Promise!OrderLines
        <3> QED BY <2>1, <2>2, <2>3, <2>6, <3>1 DEF HoldStep, Promise!Fail
    <2>7. CASE order[o] = "FAILED"
        <3>1. order' = order
            BY <2>1, <2>3, <2>7 DEF TypeInv, TypeOK
        <3> QED BY <2>1, <2>2, <3>1 DEF HoldStep
    <2> QED BY <2>3, <2>6, <2>7
<1> QED BY <1>1, <1>2, <1>3, <1>4, <1>5, <1>6, <1>7 DEF Sweep

LEMMA NextHold ==
    ASSUME OneSweeper, NoDoubleStops, SagaInv, SagaInv', [Next]_vars
    PROVE  HoldStep
<1> USE DEF SagaInv
<1>1. ASSUME UNCHANGED <<dbVars, coordVars, sweepVars>> PROVE HeldLines' = HeldLines
    BY <1>1
    DEF dbVars, coordVars, sweepVars, HeldLines, Held, CoordinatorAt, SweeperAt
<1>2. ASSUME NEW l \in Listings, NEW n \in Counts, VendorRestocks(l, n)
      PROVE  HoldStep
    <2>1. Promise!Restock(l, n)
        BY <1>1, <1>2
        DEF VendorRestocks, dbVars, AdjustOnHand, CanAdjust, Promise!Restock,
            Promise!AdjustOnHand, Promise!CanAdjust
    <2> QED BY <2>1 DEF HoldStep
<1>3. CASE UNCHANGED vars
    BY <1>1, <1>3 DEF vars, dbVars, HoldStep
<1> QED BY <1>2, <1>3, CoordinatorHold, SweepHold DEF Next

LEMMA InitHold == Init => HeldLines = {}
<1> SUFFICES ASSUME Init, NEW ln \in Lines PROVE ~Held(ln)
    BY DEF HeldLines
<1>1. /\ OrderOf[ln] \in Orders /\ VendorOf[ListingOf[ln]] \in Vendors
      /\ pc[OrderOf[ln]] = "start"
      /\ sub[OrderOf[ln]][VendorOf[ListingOf[ln]]] = "NONE"
    BY Lookup DEF Init, NoSubs
<1> QED BY <1>1 DEF Held, CoordinatorAt

-----------------------------------------------------------------------------
(* Reserved quantities follow the held lines.                               *)

LEMMA ReservedAfter ==
    ASSUME StockTypeOK, NEW ln \in Lines
    PROVE  /\ ReserveStock(ListingOf[ln], QuantityOf[ln]) => \A l \in Listings :
                 inventory'[l].reserved = inventory[l].reserved
                     + (IF ListingOf[ln] = l THEN QuantityOf[ln] ELSE 0)
           /\ ReleaseStock(ListingOf[ln], QuantityOf[ln]) => \A l \in Listings :
                 inventory'[l].reserved = inventory[l].reserved
                     - (IF ListingOf[ln] = l THEN QuantityOf[ln] ELSE 0)
<1>1. /\ ListingOf[ln] \in Listings /\ QuantityOf[ln] \in Nat
      /\ \A l \in Listings : inventory[l].reserved \in Nat
      /\ inventory \in [Listings -> [onHand : Nat, reserved : Nat]]
    BY Lookup DEF StockTypeOK
<1> QED BY <1>1 DEF ReserveStock, ReleaseStock

LEMMA RestockKeepsReserved ==
    ASSUME StockTypeOK, NEW m \in Listings, NEW n, AdjustOnHand(m, n)
    PROVE  \A l \in Listings : inventory'[l].reserved = inventory[l].reserved
BY DEF StockTypeOK, AdjustOnHand

(* A line that is held is backed, so its release cannot miss.               *)
LEMMA ReleaseHits ==
    ASSUME IsFiniteSet(Lines), StockTypeOK, HoldsBacked, NEW ln \in HeldLines,
           TryRelease(ListingOf[ln], QuantityOf[ln])
    PROVE  /\ ReleaseStock(ListingOf[ln], QuantityOf[ln])
           /\ \A l : UnitsOf(HeldLines, l) = UnitsOf(HeldLines \ {ln}, l)
                         + (IF ListingOf[ln] = l THEN QuantityOf[ln] ELSE 0)
<1> DEFINE S == HeldLines \ {ln}
<1>1. S \in SUBSET Lines /\ ln \in Lines \ S /\ HeldLines = S \union {ln}
    BY DEF HeldLines
<1>2. \A l : UnitsOf(HeldLines, l) = UnitsOf(S, l)
                 + (IF ListingOf[ln] = l THEN QuantityOf[ln] ELSE 0)
    BY <1>1, UnitsOfAdd
<1>3. /\ UnitsOf(S, ListingOf[ln]) \in Nat
      /\ ListingOf[ln] \in Listings /\ QuantityOf[ln] \in Nat
      /\ inventory[ListingOf[ln]].reserved \in Nat
    BY <1>1, UnitsOfType, Lookup DEF StockTypeOK
<1> HIDE DEF S
<1>4. QuantityOf[ln] <= inventory[ListingOf[ln]].reserved
    <2>1. UnitsOf(S, ListingOf[ln]) + QuantityOf[ln]
              <= inventory[ListingOf[ln]].reserved
        BY <1>2, <1>3 DEF HoldsBacked
    <2> QED BY <1>3, <2>1
<1> QED BY <1>2, <1>3, <1>4 DEF TryRelease, CanRelease, S

LEMMA HoldingAdds ==
    ASSUME IsFiniteSet(Lines), NEW ln \in Lines \ HeldLines,
           HeldLines' = HeldLines \union {ln}
    PROVE  \A l : UnitsOf(HeldLines', l) = UnitsOf(HeldLines, l)
                      + (IF ListingOf[ln] = l THEN QuantityOf[ln] ELSE 0)
<1>1. HeldLines \in SUBSET Lines
    BY DEF HeldLines
<1> QED BY <1>1, UnitsOfAdd

LEMMA HeldTypes ==
    ASSUME IsFiniteSet(Lines), StockTypeOK, NEW l \in Listings
    PROVE  /\ UnitsOf(HeldLines, l) \in Nat /\ inventory[l].reserved \in Nat
           /\ \A ln \in Lines : (IF ListingOf[ln] = l THEN QuantityOf[ln] ELSE 0) \in Nat
<1>1. HeldLines \in SUBSET Lines
    BY DEF HeldLines
<1> QED BY <1>1, UnitsOfType, Lookup DEF StockTypeOK

LEMMA HoldsBackedNext ==
    (\A l \in Listings : UnitsOf(HeldLines', l) <= inventory'[l].reserved) => HoldsBacked'
BY DEF HoldsBacked

LEMMA ExactNext ==
    (\A l \in Listings : inventory'[l].reserved = UnitsOf(HeldLines', l))
        => ExactAccounting'
BY DEF ExactAccounting

LEMMA BackedStep ==
    ASSUME IsFiniteSet(Lines), StockTypeOK, HoldsBacked, HoldStep
    PROVE  HoldsBacked'
<1> SUFFICES ASSUME NEW l \in Listings
             PROVE  UnitsOf(HeldLines', l) <= inventory'[l].reserved
    BY HoldsBackedNext
<1>a. UnitsOf(HeldLines, l) <= inventory[l].reserved
    BY DEF HoldsBacked
<1>1. CASE UNCHANGED <<inventory, HeldLines>>
    BY <1>a, <1>1
<1>2. ASSUME NEW ln \in Lines, Promise!Hold(ln)
      PROVE  UnitsOf(HeldLines', l) <= inventory'[l].reserved
    <2>1. /\ ReserveStock(ListingOf[ln], QuantityOf[ln])
          /\ ln \notin HeldLines /\ HeldLines' = HeldLines \union {ln}
        BY <1>2
        DEF Promise!Hold, Promise!ReserveStock, Promise!CanReserve, Promise!Available,
            ReserveStock, CanReserve, Available
    <2> DEFINE q == IF ListingOf[ln] = l THEN QuantityOf[ln] ELSE 0
    <2>2. /\ UnitsOf(HeldLines', l) = UnitsOf(HeldLines, l) + q
          /\ inventory'[l].reserved = inventory[l].reserved + q
        BY <2>1, HoldingAdds, ReservedAfter
    <2>3. /\ UnitsOf(HeldLines, l) \in Nat /\ inventory[l].reserved \in Nat
          /\ q \in Nat
        BY HeldTypes
    <2> HIDE DEF q
    <2> QED BY <1>a, <2>2, <2>3
<1>3. ASSUME NEW ln \in Lines, TryDrop(ln)
      PROVE  UnitsOf(HeldLines', l) <= inventory'[l].reserved
    <2> DEFINE q == IF ListingOf[ln] = l THEN QuantityOf[ln] ELSE 0
    <2>1. /\ ReleaseStock(ListingOf[ln], QuantityOf[ln])
          /\ UnitsOf(HeldLines, l) = UnitsOf(HeldLines', l) + q
        BY <1>3, ReleaseHits DEF TryDrop
    <2>2. inventory'[l].reserved = inventory[l].reserved - q
        BY <2>1, ReservedAfter
    <2>3. /\ UnitsOf(HeldLines', l) \in Nat /\ inventory[l].reserved \in Nat
          /\ q \in Nat
        <3>1. HeldLines' \in SUBSET Lines
            BY DEF HeldLines
        <3> QED BY <3>1, UnitsOfType, HeldTypes
    <2> HIDE DEF q
    <2> QED BY <1>a, <2>1, <2>2, <2>3
<1>4. ASSUME NEW m \in Listings, NEW n \in Counts, Promise!Restock(m, n)
      PROVE  UnitsOf(HeldLines', l) <= inventory'[l].reserved
    BY <1>a, <1>4, RestockKeepsReserved
    DEF Promise!Restock, Promise!AdjustOnHand, Promise!CanAdjust, AdjustOnHand, CanAdjust
<1>5. CASE Strand
    <2>1. HeldLines \in SUBSET Lines /\ HeldLines' \in SUBSET HeldLines
        BY <1>5 DEF Strand, HeldLines
    <2>2. UnitsOf(HeldLines', l) <= UnitsOf(HeldLines, l)
        BY <2>1, UnitsOfMonotone
    <2>3. UnitsOf(HeldLines', l) \in Nat /\ UnitsOf(HeldLines, l) \in Nat
        BY <2>1, UnitsOfType
    <2> QED BY <1>5, <1>a, <2>2, <2>3, HeldTypes DEF Strand
<1> QED
    BY <1>1, <1>2, <1>3, <1>4, <1>5
    DEF HoldStep, Promise!Place, Promise!Confirm, Promise!Fail

LEMMA ExactStep ==
    ASSUME IsFiniteSet(Lines), NoLeakStops, StockTypeOK, HoldsBacked, ExactAccounting,
           HoldStep
    PROVE  ExactAccounting'
<1> SUFFICES ASSUME NEW l \in Listings
             PROVE  inventory'[l].reserved = UnitsOf(HeldLines', l)
    BY ExactNext
<1>a. inventory[l].reserved = UnitsOf(HeldLines, l)
    BY DEF ExactAccounting
<1>1. CASE UNCHANGED <<inventory, HeldLines>>
    BY <1>a, <1>1
<1>2. ASSUME NEW ln \in Lines, Promise!Hold(ln)
      PROVE  inventory'[l].reserved = UnitsOf(HeldLines', l)
    <2>1. /\ ReserveStock(ListingOf[ln], QuantityOf[ln])
          /\ ln \notin HeldLines /\ HeldLines' = HeldLines \union {ln}
        BY <1>2
        DEF Promise!Hold, Promise!ReserveStock, Promise!CanReserve, Promise!Available,
            ReserveStock, CanReserve, Available
    <2>2. UnitsOf(HeldLines', l) = UnitsOf(HeldLines, l)
              + (IF ListingOf[ln] = l THEN QuantityOf[ln] ELSE 0)
        BY <2>1, HoldingAdds
    <2>3. inventory'[l].reserved = inventory[l].reserved
              + (IF ListingOf[ln] = l THEN QuantityOf[ln] ELSE 0)
        BY <2>1, ReservedAfter
    <2> QED BY <1>a, <2>2, <2>3, Zenon
<1>3. ASSUME NEW ln \in Lines, TryDrop(ln)
      PROVE  inventory'[l].reserved = UnitsOf(HeldLines', l)
    <2> DEFINE q == IF ListingOf[ln] = l THEN QuantityOf[ln] ELSE 0
    <2>1. /\ ReleaseStock(ListingOf[ln], QuantityOf[ln])
          /\ UnitsOf(HeldLines, l) = UnitsOf(HeldLines', l) + q
        BY <1>3, ReleaseHits DEF TryDrop
    <2>2. inventory'[l].reserved = inventory[l].reserved - q
        BY <2>1, ReservedAfter
    <2>3. UnitsOf(HeldLines', l) \in Nat /\ q \in Nat
        <3>1. HeldLines' \in SUBSET Lines
            BY DEF HeldLines
        <3> QED BY <3>1, UnitsOfType, HeldTypes
    <2> HIDE DEF q
    <2> QED BY <1>a, <2>1, <2>2, <2>3
<1>4. ASSUME NEW m \in Listings, NEW n \in Counts, Promise!Restock(m, n)
      PROVE  inventory'[l].reserved = UnitsOf(HeldLines', l)
    BY <1>a, <1>4, RestockKeepsReserved
    DEF Promise!Restock, Promise!AdjustOnHand, Promise!CanAdjust, AdjustOnHand, CanAdjust
<1> QED
    BY <1>1, <1>2, <1>3, <1>4
    DEF HoldStep, Strand, Promise!Place, Promise!Confirm, Promise!Fail

-----------------------------------------------------------------------------
(* The conditions of the theorems: see the head of the module.              *)
Undisturbed == ~Overlap /\ OneSweeper /\ NoDoubleStops /\ IsFiniteSet(Lines)

LEMMA EmptyUnits == \A l : UnitsOf({}, l) = 0
BY FS_EmptySet DEF UnitsOf, Units

LEMMA InitAccounts == Init => HoldsBacked /\ ExactAccounting
<1>1. Init => \A l \in Listings : inventory[l].reserved = 0
    BY DEF Init, StockInit
<1> QED BY <1>1, InitHold, EmptyUnits DEF HoldsBacked, ExactAccounting

LEMMA SagaInvType == SagaInv => StockTypeOK
BY DEF SagaInv, TypeInv, TypeOK

LEMMA BackedInvariant ==
    ASSUME Undisturbed PROVE Spec => [](SagaInv /\ HoldsBacked)
<1>1. SagaInv /\ HoldsBacked /\ [Next]_vars /\ SagaInv' => HoldsBacked'
    BY NextHold, BackedStep, SagaInvType DEF Undisturbed
<1>2. Spec => []SagaInv
    BY SagaInvariant DEF Undisturbed
<1> QED BY <1>1, <1>2, InitAccounts, PTL DEF Spec

(* Every unit a line holds is reserved, whatever happens at the leak        *)
(* points: no other order can be promised it.                               *)
THEOREM SagaHoldsBacked ==
    ASSUME Undisturbed PROVE Spec => []HoldsBacked
BY BackedInvariant, PTL

(* The units of all CONFIRMED orders are reserved and on hand.              *)
THEOREM SagaConfirmedBacked ==
    ASSUME Undisturbed PROVE Spec => []ConfirmedBacked
<1>1. ASSUME SagaInv, HoldsBacked, NoOversell PROVE ConfirmedBacked
    <2>1. ASSUME NEW ln \in Lines, order[OrderOf[ln]] = "CONFIRMED" PROVE Held(ln)
        <3> DEFINE o == OrderOf[ln]
        <3>1. o \in Orders /\ ln \in OrderLines(o)
            BY Lookup DEF OrderLines
        <3>2. CoordStatus(o) /\ TypeInv /\ StatusInv
            BY <1>1, <3>1 DEF SagaInv, StatusInv
        <3>3. pc[o] = "confirmed"
            BY <2>1, <3>1, <3>2, StatusPhases
            DEF CoordStatus, OrderAt, TypeInv, TypeOK, Phases
        <3>4. NotSwept(o)
            BY <3>1, <3>2, <3>3, LiveNotSwept DEF CoordStatus, OrderAt
        <3>5. HeldLive(ln)
            BY <3>1, <3>2, <3>3, LineOfOrder
            DEF CoordStatus, Outcome, HeldLive, At, SubOf
        <3> QED BY <3>4, <3>5, HeldIsLive
    <2>2. HeldLines \in SUBSET Lines /\ ConfirmedLines \in SUBSET HeldLines
        BY <2>1 DEF HeldLines, ConfirmedLines
    <2>3. ASSUME NEW l \in Listings
          PROVE  UnitsOf(ConfirmedLines, l) <= inventory[l].reserved
        <3>1. UnitsOf(ConfirmedLines, l) <= UnitsOf(HeldLines, l)
            BY <2>2, UnitsOfMonotone DEF Undisturbed
        <3>2. UnitsOf(ConfirmedLines, l) \in Nat
            BY <2>2, UnitsOfType DEF Undisturbed
        <3>3. UnitsOf(HeldLines, l) \in Nat /\ inventory[l].reserved \in Nat
            BY <1>1, SagaInvType, HeldTypes DEF Undisturbed
        <3> QED BY <1>1, <3>1, <3>2, <3>3 DEF HoldsBacked
    <2> QED BY <1>1, <2>3 DEF ConfirmedBacked, NoOversell
<1> QED BY <1>1, BackedInvariant, SagaNeverOversells, PTL

LEMMA ExactInvariant ==
    ASSUME Undisturbed, NoLeakStops
    PROVE  Spec => [](SagaInv /\ HoldsBacked /\ ExactAccounting)
<1>1. SagaInv /\ HoldsBacked /\ ExactAccounting /\ [Next]_vars /\ SagaInv'
          => ExactAccounting'
    BY NextHold, ExactStep, SagaInvType DEF Undisturbed
<1> QED BY <1>1, BackedInvariant, InitAccounts, PTL DEF Spec

(* If no process stops at a leak point either, the reserved quantity of a   *)
(* listing is exactly what open and confirmed suborders hold: nothing is    *)
(* leaked and nothing released twice, whoever competes for the stock.       *)
THEOREM SagaAccountsExactly ==
    ASSUME Undisturbed, NoLeakStops PROVE Spec => []ExactAccounting
BY ExactInvariant, PTL

(* And the saga implements the all-or-nothing promise: step by step, a line *)
(* is taken, given back, or an order placed, confirmed with all of its      *)
(* lines or failed with none.                                               *)
THEOREM SagaKeepsPromise ==
    ASSUME Undisturbed, NoLeakStops PROVE Spec => AllOrNothingPromise
<1>1. Init => Promise!BookInit
    BY InitHold DEF Init, StockInit, Promise!BookInit, Promise!StockInit
<1>2. ASSUME SagaInv, HoldsBacked, [Next]_vars, SagaInv'
      PROVE  [Promise!BookNext]_(Promise!bookVars)
    <2>1. HoldStep
        BY <1>2, NextHold DEF Undisturbed
    <2>2. ASSUME NEW ln \in Lines, TryDrop(ln) PROVE Promise!Drop(ln)
        <3>1. ReleaseStock(ListingOf[ln], QuantityOf[ln])
            BY <1>2, <2>2, ReleaseHits, SagaInvType DEF TryDrop, Undisturbed
        <3> QED BY <2>2, <3>1
                DEF TryDrop, ReleaseStock, CanRelease, Promise!Drop,
                    Promise!ReleaseStock, Promise!CanRelease
    <2> QED BY <2>1, <2>2 DEF HoldStep, Strand, Promise!BookNext, Promise!bookVars
<1> QED
    BY <1>1, <1>2, BackedInvariant, PTL
    DEF Spec, AllOrNothingPromise, Promise!BookSpec
=============================================================================
