--------------------------- MODULE OrderSagaProofs ---------------------------
(***************************************************************************)
(* Theorems of the ordering saga that hold whatever crashes, overlaps and  *)
(* however many sweepers: type correctness, and that the saga only touches *)
(* the stock table through its three statements, hence never oversells.    *)
(***************************************************************************)
EXTENDS OrderSagaProps, StockTableProofs

(* A process that makes a call about a suborder knows which one. *)
VisitPhases == CoordinatorPhases \ {"confirm", "close"}

VisitOK ==
    /\ \A o \in Orders : pc[o] \in VisitPhases => ven[o] \in Vendors
    /\ \A s \in Sweepers :
          /\ at[s] \notin {"idle", "sweep_read"} => cur[s] \in Orders
          /\ at[s] \in {"sweep_release", "sweep_mark", "sweep_log"}
                => curVen[s] \in Vendors

TypeInv == TypeOK /\ VisitOK

(* What the assumptions say of lines and listings. *)
LEMMA Lookup ==
    /\ \A ln \in Lines : /\ OrderOf[ln] \in Orders
                         /\ ListingOf[ln] \in Listings
                         /\ QuantityOf[ln] \in Quantities
                         /\ QuantityOf[ln] \in Nat
                         /\ VendorOf[ListingOf[ln]] \in Vendors
    /\ \A o \in Orders : VendorsOf(o) \in SUBSET Vendors
    /\ \A o, v : LinesOf(o, v) \in SUBSET Lines
BY SagaAssumption, StockAssumption DEF VendorsOf, LinesOf, OrderLines

LEMMA PhaseNames ==
    /\ CoordinatorPhases \subseteq Phases
    /\ {"start", "confirmed", "failed", "crashed"} \subseteq Phases
    /\ SweepPhases \subseteq SweeperPhases
    /\ "idle" \in SweeperPhases
BY DEF Phases, SweeperPhases

LEMMA InitType == Init => TypeInv
<1> SUFFICES ASSUME Init PROVE TypeInv
    OBVIOUS
<1>1. StockTypeOK
    BY StockInitSafe DEF Init, StockInv
<1>2. NoSubs \in [Orders -> [Vendors -> SubStatus]]
    BY DEF NoSubs, SubStatus
<1>3. VisitOK
    BY DEF Init, VisitOK, VisitPhases, CoordinatorPhases
<1> QED
    BY <1>1, <1>2, <1>3, PhaseNames DEF Init, TypeInv, TypeOK, OrderStatus

-----------------------------------------------------------------------------
(* The helpers that several actions share give their variables the type. *)

LEMMA GotoType ==
    ASSUME TypeOK, NEW o \in Orders, NEW p \in Phases, Goto(o, p)
    PROVE  pc' \in [Orders -> Phases] /\ pc'[o] = p
           /\ \A x \in Orders \ {o} : pc'[x] = pc[x]
BY DEF TypeOK, Goto

LEMMA VisitType ==
    ASSUME TypeInv, NEW o \in Orders, NEW S \in SUBSET Vendors,
           NEW p \in CoordinatorPhases, NEW q \in {"confirm", "close"},
           Visit(o, S, p, q)
    PROVE  /\ pc' \in [Orders -> Phases]
           /\ queue' \in [Orders -> SUBSET Vendors]
           /\ ven' \in [Orders -> Vendors \union {None}]
           /\ \A x \in Orders : pc'[x] \in VisitPhases => ven'[x] \in Vendors
<1> USE DEF TypeInv
<1>0. q \in CoordinatorPhases /\ q \notin VisitPhases
    BY DEF CoordinatorPhases, VisitPhases
<1>1. CASE S = {} /\ Goto(o, q) /\ queue' = [queue EXCEPT ![o] = {}]
              /\ ven' = [ven EXCEPT ![o] = None]
    <2>1. /\ pc' \in [Orders -> Phases] /\ pc'[o] = q
          /\ \A x \in Orders \ {o} : pc'[x] = pc[x]
        BY <1>0, <1>1, GotoType, PhaseNames
    <2>2. /\ queue' \in [Orders -> SUBSET Vendors]
          /\ ven' \in [Orders -> Vendors \union {None}]
          /\ \A x \in Orders \ {o} : ven'[x] = ven[x]
        BY <1>1 DEF TypeOK
    <2> QED BY <1>0, <2>1, <2>2 DEF VisitOK
<1>2. ASSUME NEW v \in S, Goto(o, p), queue' = [queue EXCEPT ![o] = S \ {v}],
             ven' = [ven EXCEPT ![o] = v]
      PROVE  /\ pc' \in [Orders -> Phases]
             /\ queue' \in [Orders -> SUBSET Vendors]
             /\ ven' \in [Orders -> Vendors \union {None}]
             /\ \A x \in Orders : pc'[x] \in VisitPhases => ven'[x] \in Vendors
    <2>1. /\ pc' \in [Orders -> Phases]
          /\ \A x \in Orders \ {o} : pc'[x] = pc[x]
        BY <1>2, GotoType, PhaseNames
    <2>2. /\ queue' \in [Orders -> SUBSET Vendors]
          /\ ven' \in [Orders -> Vendors \union {None}]
          /\ ven'[o] \in Vendors
          /\ \A x \in Orders \ {o} : ven'[x] = ven[x]
        BY <1>2 DEF TypeOK
    <2> QED BY <2>1, <2>2 DEF VisitOK
<1> QED BY <1>1, <1>2 DEF Visit

LEMMA NextVendorType ==
    ASSUME TypeInv, NEW o \in Orders, NEW S \in SUBSET Vendors, NextVendor(o, S)
    PROVE  /\ pc' \in [Orders -> Phases]
           /\ queue' \in [Orders -> SUBSET Vendors]
           /\ ven' \in [Orders -> Vendors \union {None}]
           /\ \A x \in Orders : pc'[x] \in VisitPhases => ven'[x] \in Vendors
<1>1. "attempt" \in CoordinatorPhases /\ "comp" \in CoordinatorPhases
    BY DEF CoordinatorPhases
<1>2. queue[o] \in SUBSET Vendors
    BY DEF TypeInv, TypeOK
<1>3. CASE Visit(o, queue[o], "attempt", "confirm")
    BY <1>1, <1>2, <1>3, VisitType
<1>4. CASE Visit(o, {}, "attempt", "confirm")
    BY <1>1, <1>4, VisitType
<1>5. CASE Visit(o, S, "comp", "close")
    BY <1>1, <1>5, VisitType
<1> QED BY <1>3, <1>4, <1>5 DEF NextVendor

SweepLocalsOK ==
    /\ at \in [Sweepers -> SweeperPhases]
    /\ seen \in [Sweepers -> [Orders -> [Vendors -> SubStatus]]]
    /\ cur \in [Sweepers -> Orders \union {None}]
    /\ curVen \in [Sweepers -> Vendors \union {None}]
    /\ curTodo \in [Sweepers -> SUBSET Lines]
    /\ \A s \in Sweepers :
          /\ at[s] \notin {"idle", "sweep_read"} => cur[s] \in Orders
          /\ at[s] \in {"sweep_release", "sweep_mark", "sweep_log"}
                => curVen[s] \in Vendors

LEMMA TurnType ==
    ASSUME TypeInv, NEW s \in Sweepers, NEW o \in Orders,
           NEW sn \in [Orders -> [Vendors -> SubStatus]], Turn(s, o, sn)
    PROVE  SweepLocalsOK'
<1> USE DEF TypeInv
<1>1. \A v \in Vendors : LinesOf(o, v) \in SUBSET Lines
    BY Lookup
<1>2. /\ cur' = [cur EXCEPT ![s] = o]
      /\ seen' = [seen EXCEPT ![s] = sn]
    BY DEF Turn
<1>3. PICK p \in {"sweep_close", "sweep_release", "sweep_mark"},
           v \in Vendors \union {None}, L \in SUBSET Lines :
          /\ at' = [at EXCEPT ![s] = p]
          /\ curVen' = [curVen EXCEPT ![s] = v]
          /\ curTodo' = [curTodo EXCEPT ![s] = L]
          /\ p = "sweep_close" \/ v \in Vendors
    BY <1>1 DEF Turn
<1>4. p \in SweeperPhases
    BY DEF SweeperPhases, SweepPhases
<1>5. /\ at' \in [Sweepers -> SweeperPhases]
      /\ seen' \in [Sweepers -> [Orders -> [Vendors -> SubStatus]]]
      /\ cur' \in [Sweepers -> Orders \union {None}]
      /\ curVen' \in [Sweepers -> Vendors \union {None}]
      /\ curTodo' \in [Sweepers -> SUBSET Lines]
    BY <1>2, <1>3, <1>4 DEF TypeOK
<1>6. /\ at'[s] = p /\ cur'[s] = o /\ curVen'[s] = v
      /\ \A x \in Sweepers \ {s} :
            at'[x] = at[x] /\ cur'[x] = cur[x] /\ curVen'[x] = curVen[x]
    BY <1>2, <1>3 DEF TypeOK
<1> QED BY <1>3, <1>5, <1>6 DEF SweepLocalsOK, VisitOK

LEMMA SweepIdleType ==
    ASSUME TypeInv, NEW s \in Sweepers, SweepIdle(s)
    PROVE  SweepLocalsOK' /\ batch' \in [Sweepers -> SUBSET Orders]
<1> USE DEF TypeInv
<1>1. NoSubs \in [Orders -> [Vendors -> SubStatus]]
    BY DEF NoSubs, SubStatus
<1>2. /\ at' \in [Sweepers -> SweeperPhases]
      /\ batch' \in [Sweepers -> SUBSET Orders]
      /\ seen' \in [Sweepers -> [Orders -> [Vendors -> SubStatus]]]
      /\ cur' \in [Sweepers -> Orders \union {None}]
      /\ curVen' \in [Sweepers -> Vendors \union {None}]
      /\ curTodo' \in [Sweepers -> SUBSET Lines]
    BY <1>1, PhaseNames DEF TypeOK, SweepIdle
<1>3. /\ at'[s] = "idle"
      /\ \A x \in Sweepers \ {s} :
            at'[x] = at[x] /\ cur'[x] = cur[x] /\ curVen'[x] = curVen[x]
    BY DEF TypeOK, SweepIdle
<1> QED BY <1>2, <1>3 DEF SweepLocalsOK, VisitOK

LEMMA TryReleaseType ==
    ASSUME StockTypeOK, NEW ln \in Lines, TryRelease(ListingOf[ln], QuantityOf[ln])
    PROVE  StockTypeOK'
BY Lookup DEF StockTypeOK, TryRelease, ReleaseStock, CanRelease

-----------------------------------------------------------------------------
(* The type invariant by owner: the database rows, the coordinators and the *)
(* sweepers, so that an action only argues for what it touches.             *)
DbOK ==
    /\ order \in [Orders -> OrderStatus]
    /\ sub \in [Orders -> [Vendors -> SubStatus]]
    /\ steps \in [Orders -> SUBSET (StepType \X Vendors)]
    /\ expired \in [Orders -> BOOLEAN]

CoordOK ==
    /\ pc \in [Orders -> Phases]
    /\ queue \in [Orders -> SUBSET Vendors]
    /\ ven \in [Orders -> Vendors \union {None}]
    /\ todo \in [Orders -> SUBSET Lines]
    /\ won \in [Orders -> SUBSET Vendors]
    /\ \A o \in Orders : pc[o] \in VisitPhases => ven[o] \in Vendors

SweepOK == SweepLocalsOK /\ batch \in [Sweepers -> SUBSET Orders]

LEMMA Regroup == TypeInv <=> StockTypeOK /\ DbOK /\ CoordOK /\ SweepOK
BY DEF TypeInv, TypeOK, VisitOK, DbOK, CoordOK, SweepOK, SweepLocalsOK

LEMMA RegroupPrime == TypeInv' <=> (StockTypeOK /\ DbOK /\ CoordOK /\ SweepOK)'
BY Regroup, PTL

LEMMA StockFrame == StockTypeOK /\ UNCHANGED inventory => StockTypeOK'
BY DEF StockTypeOK

LEMMA CoordFrame == CoordOK /\ UNCHANGED coordVars => CoordOK'
BY DEF CoordOK, coordVars

LEMMA SweepFrame == SweepOK /\ UNCHANGED sweepVars => SweepOK'
BY DEF SweepOK, SweepLocalsOK, sweepVars

LEMMA DbFrame == DbOK /\ UNCHANGED <<dbVars, expired>> => DbOK'
BY DEF DbOK, dbVars

(* A coordinator that goes to phase p with its vendor unchanged. *)
LEMMA GotoOK ==
    ASSUME CoordOK, NEW o \in Orders, NEW p \in Phases, Goto(o, p),
           p \in VisitPhases => ven[o] \in Vendors,
           todo' \in [Orders -> SUBSET Lines], won' \in [Orders -> SUBSET Vendors],
           UNCHANGED <<queue, ven>>
    PROVE  CoordOK'
BY DEF CoordOK, Goto

LEMMA SetTodoType ==
    ASSUME CoordOK, NEW o \in Orders, NEW S \in SUBSET Lines, SetTodo(o, S)
    PROVE  todo' \in [Orders -> SUBSET Lines]
BY DEF CoordOK, SetTodo

LEMMA SetOrderOK ==
    ASSUME DbOK, NEW o \in Orders, NEW st \in OrderStatus, SetOrder(o, st),
           UNCHANGED <<sub, steps, expired>>
    PROVE  DbOK'
BY DEF DbOK, SetOrder

LEMMA SetSubOK ==
    ASSUME DbOK, NEW o \in Orders, NEW v \in Vendors, NEW st \in SubStatus,
           SetSub(o, v, st), UNCHANGED <<order, steps, expired>>
    PROVE  DbOK'
BY DEF DbOK, SetSub

LEMMA RecordStepOK ==
    ASSUME DbOK, NEW o \in Orders, NEW v \in Vendors, NEW t \in StepType,
           RecordStep(o, t, v), UNCHANGED <<order, sub, expired>>
    PROVE  DbOK'
BY DEF DbOK, RecordStep

LEMMA PhaseFacts ==
    /\ VisitPhases \subseteq Phases
    /\ VisitPhases = {"attempt", "reserve", "undo", "fail", "logfail", "succeed",
                      "logsucceed", "comp", "release", "rollback", "logrollback"}
    /\ CoordinatorPhases = VisitPhases \union {"confirm", "close"}
    /\ Phases = CoordinatorPhases \union {"start", "confirmed", "failed", "crashed"}
    /\ SweeperPhases = {"sweep_read", "sweep_release", "sweep_mark", "sweep_log",
                        "sweep_close", "idle"}
BY DEF VisitPhases, CoordinatorPhases, Phases, SweeperPhases, SweepPhases

LEMMA ReleaseLineType ==
    ASSUME TypeInv, NEW o \in Orders, NEW p \in VisitPhases, NEW q \in VisitPhases,
           ReleaseLine(o, p, q)
    PROVE  TypeInv'
<1> USE Regroup, RegroupPrime
<1>1. PICK ln \in todo[o] :
          /\ TryRelease(ListingOf[ln], QuantityOf[ln])
          /\ SetTodo(o, todo[o] \ {ln})
          /\ Goto(o, IF todo[o] = {ln} THEN q ELSE p)
    BY DEF ReleaseLine
<1>2. todo[o] \in SUBSET Lines
    BY DEF CoordOK
<1>3. StockTypeOK'
    BY <1>1, <1>2, TryReleaseType
<1>4. ven[o] \in Vendors
    BY DEF CoordOK, ReleaseLine
<1>5. CoordOK'
    <2>1. todo' \in [Orders -> SUBSET Lines]
        BY <1>1, <1>2, SetTodoType
    <2>2. (IF todo[o] = {ln} THEN q ELSE p) \in Phases
        BY PhaseFacts
    <2>3. UNCHANGED <<queue, ven, won>>
        BY DEF ReleaseLine
    <2> QED BY <1>1, <1>4, <2>1, <2>2, <2>3, GotoOK DEF CoordOK
<1> QED
    BY <1>3, <1>5, DbFrame, SweepFrame DEF ReleaseLine

-----------------------------------------------------------------------------
(* Every step of a coordinator keeps the types. *)
LEMMA CoordinatorType ==
    ASSUME TypeInv, NEW o \in Orders, PlaceOrder(o) \/ Coordinator(o)
    PROVE  TypeInv'
<1> USE Regroup, RegroupPrime, PhaseFacts
<1>a. /\ StockTypeOK /\ DbOK /\ CoordOK /\ SweepOK
      /\ won[o] \in SUBSET Vendors /\ todo[o] \in SUBSET Lines
      /\ queue[o] \in SUBSET Vendors
      /\ LinesOf(o, ven[o]) \in SUBSET Lines
      /\ LinesReserved(o) \in SUBSET Lines
      /\ pc[o] \in VisitPhases => ven[o] \in Vendors
    BY Lookup DEF CoordOK, LinesReserved
<1>b. CoordOK => /\ todo \in [Orders -> SUBSET Lines]
                 /\ won \in [Orders -> SUBSET Vendors]
    BY DEF CoordOK
<1>1. CASE PlaceOrder(o)
    <2>1. CoordOK'
        BY <1>1, <1>a, <1>b, Lookup, VisitType DEF PlaceOrder, CoordOK
    <2>2. DbOK'
        <3>1. [v \in Vendors |-> IF v \in VendorsOf(o) THEN "PENDING_RESERVATION"
                                 ELSE "NONE"] \in [Vendors -> SubStatus]
            BY DEF SubStatus
        <3>2. order' \in [Orders -> OrderStatus]
            BY <1>1, <1>a DEF PlaceOrder, SetOrder, DbOK, OrderStatus
        <3> QED BY <1>1, <1>a, <3>1, <3>2 DEF PlaceOrder, DbOK
    <2> QED BY <1>1, <1>a, <2>1, <2>2, StockFrame, SweepFrame DEF PlaceOrder
<1>2. CASE RecordReserveAttempted(o)
    <2>1. CoordOK'
        BY <1>2, <1>a, <1>b, SetTodoType, GotoOK DEF RecordReserveAttempted
    <2>2. DbOK'
        BY <1>2, <1>a, RecordStepOK DEF RecordReserveAttempted, StepType
    <2> QED BY <1>2, <1>a, <2>1, <2>2, StockFrame, SweepFrame
            DEF RecordReserveAttempted
<1>3. CASE ReserveLine(o)
    <2>1. PICK ln \in todo[o] :
              /\ ReserveStock(ListingOf[ln], QuantityOf[ln])
              /\ SetTodo(o, todo[o] \ {ln})
              /\ Goto(o, IF todo[o] = {ln} THEN "succeed" ELSE "reserve")
        BY <1>3 DEF ReserveLine
    <2>2. StockTypeOK'
        BY <2>1, <1>a, Lookup DEF ReserveStock, StockTypeOK
    <2>3. todo' \in [Orders -> SUBSET Lines]
        BY <2>1, <1>a, SetTodoType
    <2>4. CoordOK'
        BY <1>3, <2>1, <2>3, <1>a, <1>b, GotoOK DEF ReserveLine
    <2> QED BY <1>3, <1>a, <2>2, <2>4, DbFrame, SweepFrame DEF ReserveLine
<1>4. CASE ReserveRefused(o)
    <2>1. CoordOK'
        BY <1>4, <1>a, <1>b, SetTodoType, GotoOK DEF ReserveRefused
    <2> QED BY <1>4, <1>a, <2>1, StockFrame, DbFrame, SweepFrame
            DEF ReserveRefused
<1>5. CASE UndoLine(o)
    BY <1>5, ReleaseLineType DEF UndoLine
<1>6. CASE MarkReservationFailed(o)
    <2>1. CoordOK'
        BY <1>6, <1>a, <1>b, GotoOK DEF MarkReservationFailed
    <2>2. DbOK'
        BY <1>6, <1>a, SetSubOK DEF MarkReservationFailed, SubStatus
    <2> QED BY <1>6, <1>a, <2>1, <2>2, StockFrame, SweepFrame
            DEF MarkReservationFailed
<1>7. CASE RecordReserveFailed(o)
    <2>1. CoordOK'
        BY <1>7, <1>a, <1>b, NextVendorType DEF RecordReserveFailed, CoordOK
    <2>2. DbOK'
        BY <1>7, <1>a, RecordStepOK DEF RecordReserveFailed, StepType
    <2> QED BY <1>7, <1>a, <2>1, <2>2, StockFrame, SweepFrame
            DEF RecordReserveFailed
<1>8. CASE MarkReserved(o)
    <2>1. CoordOK'
        BY <1>8, <1>a, <1>b, GotoOK DEF MarkReserved
    <2>2. DbOK'
        BY <1>8, <1>a, SetSubOK DEF MarkReserved, SubStatus
    <2> QED BY <1>8, <1>a, <2>1, <2>2, StockFrame, SweepFrame DEF MarkReserved
<1>9. CASE RecordReserveSucceeded(o)
    <2>1. ven[o] \in Vendors
        BY <1>9, <1>a DEF RecordReserveSucceeded
    <2>2. won' \in [Orders -> SUBSET Vendors]
        BY <1>9, <1>b, <1>a, <2>1 DEF RecordReserveSucceeded
    <2>3. CoordOK'
        BY <1>9, <1>a, <1>b, <2>1, <2>2, NextVendorType
        DEF RecordReserveSucceeded, CoordOK
    <2>4. DbOK'
        BY <1>9, <1>a, RecordStepOK DEF RecordReserveSucceeded, StepType
    <2> QED BY <1>9, <1>a, <2>3, <2>4, StockFrame, SweepFrame
            DEF RecordReserveSucceeded
<1>10. CASE ConfirmOrder(o)
    <2>1. CoordOK'
        BY <1>10, <1>a, <1>b, GotoOK DEF ConfirmOrder
    <2>2. DbOK'
        BY <1>10, <1>a, SetOrderOK DEF ConfirmOrder, OrderStatus
    <2> QED BY <1>10, <1>a, <2>1, <2>2, StockFrame, SweepFrame DEF ConfirmOrder
<1>11. CASE RecordCompensationAttempted(o)
    <2>1. CoordOK'
        BY <1>11, <1>a, <1>b, SetTodoType, GotoOK
        DEF RecordCompensationAttempted
    <2>2. DbOK'
        BY <1>11, <1>a, RecordStepOK DEF RecordCompensationAttempted, StepType
    <2> QED BY <1>11, <1>a, <2>1, <2>2, StockFrame, SweepFrame
            DEF RecordCompensationAttempted
<1>12. CASE CompensateLine(o)
    BY <1>12, ReleaseLineType DEF CompensateLine
<1>13. CASE MarkRolledBack(o)
    <2>1. CoordOK'
        BY <1>13, <1>a, <1>b, GotoOK DEF MarkRolledBack
    <2>2. DbOK'
        BY <1>13, <1>a, SetSubOK DEF MarkRolledBack, SubStatus
    <2> QED BY <1>13, <1>a, <2>1, <2>2, StockFrame, SweepFrame
            DEF MarkRolledBack
<1>14. CASE RecordCompensationSucceeded(o)
    <2>1. CoordOK'
        BY <1>14, <1>a, <1>b, VisitType DEF RecordCompensationSucceeded, CoordOK
    <2>2. DbOK'
        BY <1>14, <1>a, RecordStepOK DEF RecordCompensationSucceeded, StepType
    <2> QED BY <1>14, <1>a, <2>1, <2>2, StockFrame, SweepFrame
            DEF RecordCompensationSucceeded
<1>15. CASE FailOrder(o)
    <2>1. CoordOK'
        BY <1>15, <1>a, <1>b, GotoOK DEF FailOrder
    <2>2. DbOK'
        BY <1>15, <1>a, SetOrderOK DEF FailOrder, OrderStatus
    <2> QED BY <1>15, <1>a, <2>1, <2>2, StockFrame, SweepFrame DEF FailOrder
<1> QED
    BY <1>1, <1>2, <1>3, <1>4, <1>5, <1>6, <1>7, <1>8, <1>9, <1>10, <1>11,
       <1>12, <1>13, <1>14, <1>15 DEF Coordinator

(* Every step of a sweeper keeps the types. *)
LEMMA SweepType ==
    ASSUME TypeInv, NEW s \in Sweepers, Sweep(s) \/ SweepAbort(s)
    PROVE  TypeInv'
<1> USE Regroup, RegroupPrime
<1>a. /\ StockTypeOK /\ DbOK /\ CoordOK /\ SweepOK
      /\ at[s] \notin {"idle", "sweep_read"} => cur[s] \in Orders
      /\ at[s] \in {"sweep_release", "sweep_mark", "sweep_log"}
            => curVen[s] \in Vendors
      /\ curTodo[s] \in SUBSET Lines
      /\ batch[s] \in SUBSET Orders
      /\ seen[s] \in [Orders -> [Vendors -> SubStatus]]
      /\ sub \in [Orders -> [Vendors -> SubStatus]]
    BY DEF SweepOK, SweepLocalsOK, DbOK
<1>0. CASE SweepBegin(s)
    <2>1. SweepOK'
        BY <1>0, <1>a, PhaseFacts DEF SweepBegin, SweepOK, SweepLocalsOK
    <2> QED BY <1>0, <1>a, <2>1, StockFrame, DbFrame, CoordFrame DEF SweepBegin
<1>1. CASE SweepReadSuborders(s)
    <2>1. Snapshot(batch[s]) \in [Orders -> [Vendors -> SubStatus]]
        BY <1>a DEF Snapshot, NoSubs, SubStatus
    <2>2. PICK o \in batch[s] : Turn(s, o, Snapshot(batch[s]))
        BY <1>1 DEF SweepReadSuborders
    <2>3. o \in Orders
        BY <1>a
    <2>4. SweepLocalsOK'
        BY <2>1, <2>2, <2>3, TurnType
    <2> QED BY <1>1, <1>a, <2>4, StockFrame, DbFrame, CoordFrame
            DEF SweepReadSuborders, SweepOK
<1>2. CASE SweepReleaseLine(s)
    <2>1. PICK ln \in curTodo[s] :
              /\ TryRelease(ListingOf[ln], QuantityOf[ln])
              /\ curTodo' = [curTodo EXCEPT ![s] = @ \ {ln}]
              /\ at' = [at EXCEPT ![s] = IF curTodo[s] = {ln} THEN "sweep_mark"
                                         ELSE "sweep_release"]
        BY <1>2 DEF SweepReleaseLine
    <2>2. StockTypeOK'
        BY <2>1, <1>a, TryReleaseType
    <2>3. SweepOK'
        BY <1>2, <2>1, <1>a, PhaseFacts
        DEF SweepReleaseLine, SweepOK, SweepLocalsOK
    <2> QED BY <1>2, <1>a, <2>2, <2>3, DbFrame, CoordFrame DEF SweepReleaseLine
<1>3. CASE SweepMarkRolledBack(s)
    <2>1. DbOK'
        BY <1>3, <1>a, SetSubOK DEF SweepMarkRolledBack, SubStatus
    <2>2. SweepOK'
        BY <1>3, <1>a, PhaseFacts DEF SweepMarkRolledBack, SweepOK, SweepLocalsOK
    <2> QED BY <1>3, <1>a, <2>1, <2>2, StockFrame, CoordFrame
            DEF SweepMarkRolledBack
<1>4. CASE SweepRecordCompensated(s)
    <2>1. DbOK'
        BY <1>4, <1>a, RecordStepOK DEF SweepRecordCompensated, StepType
    <2>2. [seen[s] EXCEPT ![cur[s]][curVen[s]] = "NONE"]
              \in [Orders -> [Vendors -> SubStatus]]
        BY <1>4, <1>a DEF SweepRecordCompensated, SubStatus
    <2>3. SweepOK'
        BY <1>4, <1>a, <2>2, TurnType DEF SweepRecordCompensated, SweepOK
    <2> QED BY <1>4, <1>a, <2>1, <2>3, StockFrame, CoordFrame
            DEF SweepRecordCompensated
<1>5. CASE SweepFailOrder(s)
    <2>1. DbOK'
        BY <1>5, <1>a, SetOrderOK DEF SweepFailOrder, OrderStatus
    <2>2. CASE SweepIdle(s)
        BY <1>5, <1>a, <2>1, <2>2, SweepIdleType, StockFrame, CoordFrame
        DEF SweepFailOrder, SweepOK
    <2>3. ASSUME NEW o \in batch[s] \ {cur[s]}, Turn(s, o, seen[s]),
                 batch' = [batch EXCEPT ![s] = @ \ {cur[s]}]
          PROVE  TypeInv'
        <3>1. SweepLocalsOK'
            BY <1>a, <2>3, TurnType
        <3>2. batch' \in [Sweepers -> SUBSET Orders]
            BY <1>a, <2>3 DEF SweepOK
        <3> QED BY <1>5, <1>a, <2>1, <3>1, <3>2, StockFrame, CoordFrame
                DEF SweepFailOrder, SweepOK
    <2> QED BY <1>5, <2>2, <2>3 DEF SweepFailOrder
<1>6. CASE SweepAbort(s)
    BY <1>6, <1>a, SweepIdleType, StockFrame, DbFrame, CoordFrame
    DEF SweepAbort, SweepOK
<1> QED BY <1>0, <1>1, <1>2, <1>3, <1>4, <1>5, <1>6 DEF Sweep

LEMMA OtherType ==
    ASSUME TypeInv, NEW o \in Orders, Crash(o) \/ Expire(o)
    PROVE  TypeInv'
<1> USE Regroup, RegroupPrime
<1>1. CASE Crash(o)
    BY <1>1, StockFrame, DbFrame, SweepFrame, PhaseFacts
    DEF Crash, CoordOK, Goto, SetTodo
<1>2. CASE Expire(o)
    BY <1>2, StockFrame, CoordFrame, SweepFrame DEF Expire, DbOK, dbVars
<1> QED BY <1>1, <1>2

LEMMA NextType ==
    TypeInv /\ [Next]_vars => TypeInv'
<1> SUFFICES ASSUME TypeInv, [Next]_vars PROVE TypeInv'
    OBVIOUS
<1>1. ASSUME NEW l \in Listings, NEW n \in Counts, VendorRestocks(l, n)
      PROVE  TypeInv'
    <2>1. n \in Nat
        BY StockAssumption
    <2>2. StockTypeOK'
        BY <1>1, <2>1, Regroup DEF VendorRestocks, AdjustOnHand, StockTypeOK
    <2> QED BY <1>1, <2>2, Regroup, RegroupPrime, DbFrame, CoordFrame, SweepFrame
            DEF VendorRestocks
<1>2. CASE UNCHANGED vars
    BY <1>2, Regroup, RegroupPrime, StockFrame, DbFrame, CoordFrame, SweepFrame
    DEF vars, dbVars
<1> QED
    BY <1>1, <1>2, CoordinatorType, SweepType, OtherType DEF Next

(* Every reachable state of the saga is well typed, for any number of       *)
(* orders, vendors, lines and sweepers, and any crash points.               *)
THEOREM SagaTypeCorrect == Spec => []TypeOK
<1>1. Spec => []TypeInv
    BY InitType, NextType, PTL DEF Spec
<1> QED BY <1>1, PTL DEF TypeInv

-----------------------------------------------------------------------------
(* Each step of the saga is one statement on the table, or none. *)

LEMMA TryReleaseIsStockStep ==
    ASSUME NEW ln \in Lines, TryRelease(ListingOf[ln], QuantityOf[ln])
    PROVE  [StockNext]_inventory
BY Lookup DEF TryRelease, StockNext

LEMMA StockStep == TypeInv /\ [Next]_vars => [StockNext]_inventory
<1> SUFFICES ASSUME TypeInv, [Next]_vars PROVE [StockNext]_inventory
    OBVIOUS
<1>a. /\ \A o \in Orders : todo[o] \subseteq Lines
      /\ \A s \in Sweepers : curTodo[s] \subseteq Lines
    BY DEF TypeInv, TypeOK
<1>1. ASSUME NEW o \in Orders, NEW p, NEW q, ReleaseLine(o, p, q)
      PROVE  [StockNext]_inventory
    BY <1>1, <1>a, TryReleaseIsStockStep DEF ReleaseLine
<1>2. ASSUME NEW o \in Orders, PlaceOrder(o) \/ Coordinator(o)
      PROVE  [StockNext]_inventory
    <2>1. CASE ReserveLine(o)
        BY <2>1, <1>a, Lookup DEF ReserveLine, StockNext
    <2>2. CASE UndoLine(o) \/ CompensateLine(o)
        BY <2>2, <1>1 DEF UndoLine, CompensateLine
    <2>3. CASE ~ReserveLine(o) /\ ~UndoLine(o) /\ ~CompensateLine(o)
        BY <1>2, <2>3
        DEF Coordinator, PlaceOrder, RecordReserveAttempted, ReserveRefused,
            MarkReservationFailed, RecordReserveFailed, MarkReserved,
            RecordReserveSucceeded, ConfirmOrder, RecordCompensationAttempted,
            MarkRolledBack, RecordCompensationSucceeded, FailOrder
    <2> QED BY <2>1, <2>2, <2>3
<1>3. ASSUME NEW s \in Sweepers, Sweep(s) \/ SweepAbort(s)
      PROVE  [StockNext]_inventory
    <2>1. CASE SweepReleaseLine(s)
        BY <2>1, <1>a, TryReleaseIsStockStep DEF SweepReleaseLine
    <2>2. CASE ~SweepReleaseLine(s)
        BY <1>3, <2>2
        DEF Sweep, SweepBegin, SweepReadSuborders, SweepMarkRolledBack,
            SweepRecordCompensated, SweepFailOrder, SweepAbort
    <2> QED BY <2>1, <2>2
<1>4. ASSUME NEW l \in Listings, NEW n \in Counts, VendorRestocks(l, n)
      PROVE  [StockNext]_inventory
    BY <1>4 DEF VendorRestocks, StockNext
<1>5. ASSUME NEW o \in Orders, Crash(o) \/ Expire(o)
      PROVE  [StockNext]_inventory
    BY <1>5 DEF Crash, Expire
<1>6. CASE UNCHANGED vars
    BY <1>6 DEF vars
<1> QED BY <1>2, <1>3, <1>4, <1>5, <1>6 DEF Next

(* The saga implements the stock table's contract: whatever coordinators,   *)
(* sweepers and vendors do, and wherever they stop, every change of a row   *)
(* is one of the three conditional statements.                              *)
THEOREM SagaImplementsStock == Spec => StockSpec
<1>1. Init => StockInit
    BY DEF Init
<1>2. Spec => []TypeInv
    BY InitType, NextType, PTL DEF Spec
<1> QED BY <1>1, <1>2, StockStep, PTL DEF Spec, StockSpec

(* So no execution of the saga ever oversells a listing, or makes the       *)
(* database reject an update by a CHECK constraint.                         *)
THEOREM SagaNeverOversells == Spec => []NoOversell
BY SagaImplementsStock, StockTableSafe, PTL

(* And every change of stock the saga makes is one the domain model allows, *)
(* though no handler ever asks the model.                                   *)
THEOREM SagaFollowsDomain == Spec => RowsFollowDomain
BY SagaImplementsStock, TableIsDomain, PTL
=============================================================================
