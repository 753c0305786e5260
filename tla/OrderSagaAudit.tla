--------------------------- MODULE OrderSagaAudit ---------------------------
(***************************************************************************)
(* What the audit trail (saga_steps) is worth: theorems about the order in *)
(* which a coordinator gathers, decides and compensates.  They hold        *)
(* whatever crashes and however often the sweep overtakes a coordinator,   *)
(* because no other process writes these steps or confirms an order.       *)
(***************************************************************************)
EXTENDS OrderSagaProofs

LoopPhases == {"attempt", "reserve", "undo", "fail", "logfail", "succeed",
               "logsucceed"}
CompensationPhases == {"release", "rollback", "logrollback", "comp", "close"}

Succeeded(o, v) == <<"RESERVE_SUCCEEDED", v>> \in steps[o]
Resolved(o, v) == Succeeded(o, v) \/ <<"RESERVE_FAILED", v>> \in steps[o]
Compensated(o, v) == <<"COMPENSATION_ATTEMPTED", v>> \in steps[o]
AllResolved(o) == \A v \in VendorsOf(o) : Resolved(o, v)

(* An order is CONFIRMED by its coordinator's last call only ... *)
Confirmation(o) ==
    /\ order[o] = "CONFIRMED" => pc[o] = "confirmed"
    /\ pc[o] \in {"confirm", "confirmed"} =>
          \A v \in VendorsOf(o) : Succeeded(o, v)

(* ... the vendors it counts as won are recorded, those its loop has passed *)
(* are resolved ...                                                         *)
Gathering(o) ==
    /\ \A v \in won[o] : Succeeded(o, v)
    /\ pc[o] \in LoopPhases =>
          \A v \in VendorsOf(o) : v \in queue[o] \/ v = ven[o] \/ Resolved(o, v)

(* ... and it compensates only when all are.                                *)
Compensation(o) ==
    /\ pc[o] \in CompensationPhases => AllResolved(o)
    /\ \A v \in Vendors : Compensated(o, v) =>
          pc[o] \in CompensationPhases \union {"failed", "crashed"} /\ AllResolved(o)

AuditOf(o) == Confirmation(o) /\ Gathering(o) /\ Compensation(o)
Audit == \A o \in Orders : AuditOf(o)

-----------------------------------------------------------------------------
(* What the shared helpers do to the rows and the locals the audit reads.   *)

LEMMA GotoFacts ==
    ASSUME TypeInv, NEW o \in Orders, NEW p, Goto(o, p)
    PROVE  pc'[o] = p /\ \A x \in Orders \ {o} : pc'[x] = pc[x]
BY DEF TypeInv, TypeOK, Goto

LEMMA RecordFacts ==
    ASSUME TypeInv, NEW o \in Orders, NEW t, NEW v, RecordStep(o, t, v)
    PROVE  /\ steps'[o] = steps[o] \union {<<t, v>>}
           /\ \A x \in Orders \ {o} : steps'[x] = steps[x]
BY DEF TypeInv, TypeOK, RecordStep

LEMMA VisitFacts ==
    ASSUME TypeInv, NEW o \in Orders, NEW S, NEW p, NEW q, Visit(o, S, p, q)
    PROVE  /\ \A x \in Orders \ {o} :
                 pc'[x] = pc[x] /\ queue'[x] = queue[x] /\ ven'[x] = ven[x]
           /\ \/ S = {} /\ pc'[o] = q
              \/ /\ S # {} /\ pc'[o] = p /\ ven'[o] \in S
                 /\ queue'[o] = S \ {ven'[o]}
<1>1. CASE S = {} /\ Goto(o, q) /\ queue' = [queue EXCEPT ![o] = {}]
              /\ ven' = [ven EXCEPT ![o] = None]
    BY <1>1, GotoFacts DEF TypeInv, TypeOK
<1>2. ASSUME NEW v \in S, Goto(o, p), queue' = [queue EXCEPT ![o] = S \ {v}],
             ven' = [ven EXCEPT ![o] = v]
      PROVE  /\ \A x \in Orders \ {o} :
                   pc'[x] = pc[x] /\ queue'[x] = queue[x] /\ ven'[x] = ven[x]
             /\ S # {} /\ pc'[o] = p /\ ven'[o] \in S
             /\ queue'[o] = S \ {ven'[o]}
    BY <1>2, GotoFacts DEF TypeInv, TypeOK
<1> QED BY <1>1, <1>2 DEF Visit

(* A step that leaves an order's coordinator alone may only record steps of *)
(* the sweep and fail the order.                                            *)
SweptOnly(x) ==
    /\ order'[x] \in {order[x], "FAILED"}
    /\ steps[x] \subseteq steps'[x]
    /\ \A v \in Vendors : Compensated(x, v)' => Compensated(x, v)
    /\ pc'[x] = pc[x] /\ queue'[x] = queue[x] /\ ven'[x] = ven[x]
    /\ won'[x] = won[x]

LEMMA SweptAudit ==
    ASSUME NEW x \in Orders, AuditOf(x), SweptOnly(x)
    PROVE  AuditOf(x)'
<1>1. \A v : (Succeeded(x, v) => Succeeded(x, v)') /\ (Resolved(x, v) => Resolved(x, v)')
    BY DEF SweptOnly, Succeeded, Resolved
<1>2. Confirmation(x)'
    BY <1>1 DEF AuditOf, Confirmation, SweptOnly
<1>3. Gathering(x)'
    BY <1>1 DEF AuditOf, Gathering, SweptOnly
<1>4. Compensation(x)'
    BY <1>1 DEF AuditOf, Compensation, AllResolved, SweptOnly
<1> QED BY <1>2, <1>3, <1>4 DEF AuditOf

(* A step inside the loop over vendors, and one inside the compensation.    *)
LEMMA LoopAudit ==
    ASSUME NEW o \in Orders, AuditOf(o), pc[o] \in LoopPhases, pc'[o] \in LoopPhases,
           order'[o] = order[o], queue'[o] = queue[o], ven'[o] = ven[o],
           won'[o] = won[o], steps[o] \subseteq steps'[o],
           \A v \in Vendors : Compensated(o, v)' => Compensated(o, v)
    PROVE  AuditOf(o)'
<1>1. \A v : (Succeeded(o, v) => Succeeded(o, v)') /\ (Resolved(o, v) => Resolved(o, v)')
    BY DEF Succeeded, Resolved
<1>2. /\ LoopPhases \intersect CompensationPhases = {}
      /\ "confirm" \notin LoopPhases /\ "confirmed" \notin LoopPhases
      /\ "failed" \notin LoopPhases /\ "crashed" \notin LoopPhases
    BY DEF LoopPhases, CompensationPhases
<1>3. Confirmation(o)'
    BY <1>2 DEF AuditOf, Confirmation
<1>4. Gathering(o)'
    BY <1>1 DEF AuditOf, Gathering
<1>5. Compensation(o)'
    BY <1>2 DEF AuditOf, Compensation
<1> QED BY <1>3, <1>4, <1>5 DEF AuditOf

LEMMA CompensationAudit ==
    ASSUME NEW o \in Orders, AuditOf(o), pc[o] \in CompensationPhases,
           pc'[o] \in CompensationPhases \union {"failed"},
           order'[o] \in {order[o], "FAILED"}, won'[o] = won[o],
           steps[o] \subseteq steps'[o]
    PROVE  AuditOf(o)'
<1>1. \A v : (Succeeded(o, v) => Succeeded(o, v)') /\ (Resolved(o, v) => Resolved(o, v)')
    BY DEF Succeeded, Resolved
<1>2. /\ CompensationPhases \intersect LoopPhases = {} /\ "failed" \notin LoopPhases
      /\ "confirm" \notin CompensationPhases /\ "confirmed" \notin CompensationPhases
    BY DEF LoopPhases, CompensationPhases
<1>3. AllResolved(o)'
    BY <1>1 DEF AuditOf, Compensation, AllResolved
<1>4. Confirmation(o)'
    BY <1>2 DEF AuditOf, Confirmation
<1>5. Gathering(o)'
    BY <1>1, <1>2 DEF AuditOf, Gathering
<1>6. Compensation(o)'
    BY <1>3 DEF Compensation
<1> QED BY <1>4, <1>5, <1>6 DEF AuditOf

(* The end of a visit: the next vendor, the confirmation or the             *)
(* compensation.  Only when no vendor is left does the loop decide.         *)
LEMMA NextVendorAudit ==
    ASSUME TypeInv, NEW o \in Orders, NEW S, AuditOf(o), pc[o] \in LoopPhases,
           NextVendor(o, S), won'[o] = S, \A v \in S : Succeeded(o, v)',
           NEW u, u = ven[o], Resolved(o, u)', order'[o] = order[o],
           steps[o] \subseteq steps'[o],
           \A v \in Vendors : Compensated(o, v)' => Compensated(o, v)
    PROVE  AuditOf(o)'
<1>1. \A v : Resolved(o, v) => Resolved(o, v)'
    BY DEF Succeeded, Resolved
<1>2. /\ LoopPhases \intersect CompensationPhases = {}
      /\ "confirm" \notin LoopPhases /\ "confirmed" \notin LoopPhases
      /\ "failed" \notin LoopPhases /\ "crashed" \notin LoopPhases
      /\ "attempt" \in LoopPhases
      /\ "comp" \in CompensationPhases /\ "close" \in CompensationPhases
      /\ "confirm" \notin CompensationPhases /\ "confirmed" \notin CompensationPhases
    BY DEF LoopPhases, CompensationPhases
<1>3. /\ order'[o] # "CONFIRMED"
      /\ \A v \in Vendors : ~Compensated(o, v)'
      /\ \A v \in VendorsOf(o) : v \in queue[o] \/ Resolved(o, v)'
    BY <1>1, <1>2 DEF AuditOf, Confirmation, Compensation, Gathering
<1>4. CASE queue[o] # {} /\ Visit(o, queue[o], "attempt", "confirm")
    <2>1. pc'[o] = "attempt" /\ queue[o] = queue'[o] \union {ven'[o]}
        BY <1>4, VisitFacts
    <2>2. Gathering(o)'
        BY <1>3, <2>1 DEF Gathering
    <2> QED BY <1>2, <1>3, <2>1, <2>2 DEF AuditOf, Confirmation, Compensation
<1>5. CASE S = VendorsOf(o) /\ Visit(o, {}, "attempt", "confirm")
    <2>1. pc'[o] = "confirm"
        BY <1>5, VisitFacts
    <2> QED BY <1>2, <1>3, <1>5, <2>1 DEF AuditOf, Confirmation, Compensation, Gathering
<1>6. CASE queue[o] = {} /\ Visit(o, S, "comp", "close")
    <2>1. pc'[o] \in {"comp", "close"}
        BY <1>6, VisitFacts
    <2>2. AllResolved(o)'
        BY <1>3, <1>6 DEF AllResolved
    <2> QED BY <1>2, <1>3, <2>1, <2>2
            DEF AuditOf, Confirmation, Compensation, Gathering
<1> QED BY <1>4, <1>5, <1>6 DEF NextVendor

-----------------------------------------------------------------------------
LEMMA InitAudit == Init => Audit
BY DEF Init, Audit, AuditOf, Confirmation, Gathering, Compensation, Compensated,
       LoopPhases, CompensationPhases

(* A step of one coordinator is none of another's business: rows, locals    *)
(* and sweepers stay.                                                       *)
Untouched(x) ==
    /\ order'[x] = order[x] /\ sub'[x] = sub[x] /\ steps'[x] = steps[x]
    /\ expired'[x] = expired[x] /\ pc'[x] = pc[x] /\ queue'[x] = queue[x]
    /\ ven'[x] = ven[x] /\ todo'[x] = todo[x] /\ won'[x] = won[x]

LEMMA OtherOrders ==
    ASSUME TypeInv, NEW o \in Orders, NEW x \in Orders \ {o},
           PlaceOrder(o) \/ Coordinator(o) \/ Crash(o) \/ Expire(o)
    PROVE  Untouched(x) /\ SweptOnly(x)
<1> DEFINE Place == pc'[x] = pc[x] /\ queue'[x] = queue[x] /\ ven'[x] = ven[x]
<1>1. ASSUME NEW S, NextVendor(o, S) PROVE Place
    BY <1>1, VisitFacts DEF NextVendor
<1>2. Place
    <2>1. CASE PlaceOrder(o) \/ RecordCompensationSucceeded(o)
        BY <2>1, VisitFacts DEF PlaceOrder, RecordCompensationSucceeded
    <2>2. CASE RecordReserveFailed(o) \/ RecordReserveSucceeded(o)
        BY <2>2, <1>1 DEF RecordReserveFailed, RecordReserveSucceeded
    <2>3. CASE UndoLine(o) \/ CompensateLine(o)
        BY <2>3, GotoFacts DEF UndoLine, CompensateLine, ReleaseLine
    <2>4. CASE Crash(o) \/ Expire(o)
        BY <2>4, GotoFacts DEF Crash, Expire, coordVars, TypeInv, TypeOK
    <2>5. CASE ReserveLine(o) \/ ReserveRefused(o)
        BY <2>5, GotoFacts DEF ReserveLine, ReserveRefused
    <2>6. CASE RecordReserveAttempted(o) \/ RecordCompensationAttempted(o)
        BY <2>6, GotoFacts DEF RecordReserveAttempted, RecordCompensationAttempted
    <2>7. CASE MarkReservationFailed(o) \/ MarkReserved(o) \/ ConfirmOrder(o)
               \/ MarkRolledBack(o) \/ FailOrder(o)
        BY <2>7, GotoFacts
        DEF MarkReservationFailed, MarkReserved, ConfirmOrder, MarkRolledBack, FailOrder
    <2> QED BY <2>1, <2>2, <2>3, <2>4, <2>5, <2>6, <2>7 DEF Coordinator
<1>3. won'[x] = won[x] /\ todo'[x] = todo[x]
    BY DEF Coordinator, PlaceOrder, RecordReserveAttempted, ReserveLine, ReserveRefused,
        UndoLine, CompensateLine, ReleaseLine, MarkReservationFailed,
        RecordReserveFailed, MarkReserved, RecordReserveSucceeded, ConfirmOrder,
        RecordCompensationAttempted, MarkRolledBack, RecordCompensationSucceeded,
        FailOrder, Crash, Expire, coordVars, SetTodo, TypeInv, TypeOK
<1>4. order'[x] = order[x] /\ expired'[x] = expired[x]
    BY DEF Coordinator, PlaceOrder, RecordReserveAttempted, ReserveLine, ReserveRefused,
        UndoLine, CompensateLine, ReleaseLine, MarkReservationFailed,
        RecordReserveFailed, MarkReserved, RecordReserveSucceeded, ConfirmOrder,
        RecordCompensationAttempted, MarkRolledBack, RecordCompensationSucceeded,
        FailOrder, Crash, Expire, dbVars, SetOrder, TypeInv, TypeOK
<1>5. steps'[x] = steps[x]
    BY DEF Coordinator, PlaceOrder, RecordReserveAttempted, ReserveLine, ReserveRefused,
        UndoLine, CompensateLine, ReleaseLine, MarkReservationFailed,
        RecordReserveFailed, MarkReserved, RecordReserveSucceeded, ConfirmOrder,
        RecordCompensationAttempted, MarkRolledBack, RecordCompensationSucceeded,
        FailOrder, Crash, Expire, dbVars, RecordStep, TypeInv, TypeOK
<1>6. sub'[x] = sub[x]
    BY DEF Coordinator, PlaceOrder, RecordReserveAttempted, ReserveLine, ReserveRefused,
        UndoLine, CompensateLine, ReleaseLine, MarkReservationFailed,
        RecordReserveFailed, MarkReserved, RecordReserveSucceeded, ConfirmOrder,
        RecordCompensationAttempted, MarkRolledBack, RecordCompensationSucceeded,
        FailOrder, Crash, Expire, dbVars, SetSub, TypeInv, TypeOK
<1> QED BY <1>2, <1>3, <1>4, <1>5, <1>6 DEF Untouched, SweptOnly, Compensated

LEMMA CoordinatorAlone ==
    ASSUME NEW o \in Orders,
           PlaceOrder(o) \/ Coordinator(o) \/ Crash(o) \/ Expire(o)
    PROVE  UNCHANGED sweepVars
BY DEF Coordinator, PlaceOrder, RecordReserveAttempted, ReserveLine, ReserveRefused,
        UndoLine, CompensateLine, ReleaseLine, MarkReservationFailed,
        RecordReserveFailed, MarkReserved, RecordReserveSucceeded, ConfirmOrder,
        RecordCompensationAttempted, MarkRolledBack, RecordCompensationSucceeded,
        FailOrder, Crash, Expire

(* A coordinator's own step, by action. *)
LEMMA OwnOrder ==
    ASSUME TypeInv, NEW o \in Orders, AuditOf(o),
           PlaceOrder(o) \/ Coordinator(o) \/ Crash(o) \/ Expire(o)
    PROVE  AuditOf(o)'
<1>a. /\ LoopPhases = {"attempt", "reserve", "undo", "fail", "logfail", "succeed",
                        "logsucceed"}
      /\ CompensationPhases = {"release", "rollback", "logrollback", "comp", "close"}
    BY DEF LoopPhases, CompensationPhases
<1>1. CASE PlaceOrder(o)
    <2>1. VendorsOf(o) # {}
        BY SagaAssumption DEF VendorsOf
    <2>2. pc'[o] = "attempt" /\ VendorsOf(o) = queue'[o] \union {ven'[o]}
        BY <1>1, <2>1, VisitFacts DEF PlaceOrder
    <2>3. order'[o] = "PENDING" /\ steps'[o] = steps[o] /\ won'[o] = won[o]
        BY <1>1 DEF PlaceOrder, SetOrder, TypeInv, TypeOK
    <2>4. \A v \in Vendors : ~Compensated(o, v)'
        BY <1>1, <1>a, <2>3 DEF PlaceOrder, AuditOf, Compensation, Compensated
    <2>5. Gathering(o)'
        BY <2>2, <2>3 DEF AuditOf, Gathering, Succeeded
    <2> QED BY <1>a, <2>2, <2>3, <2>4, <2>5 DEF AuditOf, Confirmation, Compensation
<1>2. CASE RecordReserveAttempted(o)
    BY <1>2, <1>a, GotoFacts, RecordFacts, LoopAudit
    DEF RecordReserveAttempted, Compensated
<1>3. CASE ReserveLine(o) \/ ReserveRefused(o)
    BY <1>3, <1>a, GotoFacts, LoopAudit
    DEF ReserveLine, ReserveRefused, dbVars, Compensated
<1>4. CASE UndoLine(o)
    BY <1>4, <1>a, GotoFacts, LoopAudit DEF UndoLine, ReleaseLine, dbVars, Compensated
<1>5. CASE MarkReservationFailed(o) \/ MarkReserved(o)
    BY <1>5, <1>a, GotoFacts, LoopAudit
    DEF MarkReservationFailed, MarkReserved, Compensated
<1>6. CASE RecordReserveFailed(o)
    <2>1. steps'[o] = steps[o] \union {<<"RESERVE_FAILED", ven[o]>>}
        BY <1>6, RecordFacts DEF RecordReserveFailed
    <2>2. \A v \in won[o] : Succeeded(o, v)'
        BY <2>1 DEF AuditOf, Gathering, Succeeded
    <2> QED BY <1>6, <1>a, <2>1, <2>2, NextVendorAudit
            DEF RecordReserveFailed, Resolved, Compensated
<1>7. CASE RecordReserveSucceeded(o)
    <2>1. steps'[o] = steps[o] \union {<<"RESERVE_SUCCEEDED", ven[o]>>}
        BY <1>7, RecordFacts DEF RecordReserveSucceeded
    <2>2. won'[o] = won[o] \union {ven[o]}
        BY <1>7 DEF RecordReserveSucceeded, TypeInv, TypeOK
    <2>3. \A v \in won[o] \union {ven[o]} : Succeeded(o, v)'
        BY <2>1 DEF AuditOf, Gathering, Succeeded
    <2> QED BY <1>7, <1>a, <2>1, <2>2, <2>3, NextVendorAudit
            DEF RecordReserveSucceeded, Resolved, Succeeded, Compensated
<1>8. CASE ConfirmOrder(o)
    <2>1. /\ pc[o] = "confirm" /\ pc'[o] = "confirmed"
          /\ steps'[o] = steps[o] /\ won'[o] = won[o]
        BY <1>8, GotoFacts DEF ConfirmOrder
    <2>2. \A v : Succeeded(o, v) => Succeeded(o, v)'
        BY <2>1 DEF Succeeded
    <2>3. \A v \in Vendors : ~Compensated(o, v)'
        BY <1>a, <2>1 DEF AuditOf, Compensation, Compensated
    <2> QED BY <1>a, <2>1, <2>2, <2>3
            DEF AuditOf, Confirmation, Gathering, Compensation
<1>9. CASE RecordCompensationAttempted(o)
    BY <1>9, <1>a, GotoFacts, RecordFacts, CompensationAudit
    DEF RecordCompensationAttempted
<1>10. CASE CompensateLine(o)
    BY <1>10, <1>a, GotoFacts, CompensationAudit DEF CompensateLine, ReleaseLine, dbVars
<1>11. CASE MarkRolledBack(o)
    BY <1>11, <1>a, GotoFacts, CompensationAudit DEF MarkRolledBack
<1>12. CASE RecordCompensationSucceeded(o)
    BY <1>12, <1>a, VisitFacts, RecordFacts, CompensationAudit
    DEF RecordCompensationSucceeded
<1>13. CASE FailOrder(o)
    <2>1. order'[o] = "FAILED"
        BY <1>13 DEF FailOrder, SetOrder, TypeInv, TypeOK
    <2> QED BY <1>13, <1>a, <2>1, GotoFacts, CompensationAudit DEF FailOrder
<1>14. CASE Crash(o)
    <2>1. /\ pc'[o] = "crashed" /\ won'[o] = {}
          /\ steps'[o] = steps[o] /\ order'[o] = order[o]
        BY <1>14, GotoFacts DEF Crash, dbVars, TypeInv, TypeOK
    <2>2. pc[o] # "confirmed"
        BY <1>14, SagaAssumption DEF Crash, CoordinatorPhases, SweepPhases
    <2>3. AllResolved(o) => AllResolved(o)'
        BY <2>1 DEF AllResolved, Resolved, Succeeded
    <2>4. \A v \in Vendors : Compensated(o, v)' => Compensated(o, v)
        BY <2>1 DEF Compensated
    <2> QED BY <1>a, <2>1, <2>2, <2>3, <2>4
            DEF AuditOf, Confirmation, Gathering, Compensation
<1>15. CASE Expire(o)
    BY <1>15, SweptAudit DEF Expire, SweptOnly, dbVars, coordVars, Compensated
<1> QED BY <1>1, <1>2, <1>3, <1>4, <1>5, <1>6, <1>7, <1>8, <1>9, <1>10, <1>11,
           <1>12, <1>13, <1>14, <1>15 DEF Coordinator

(* The sweep writes no step a coordinator writes, and confirms nothing.     *)
LEMMA SweepIsSweptOnly ==
    ASSUME TypeInv, NEW s \in Sweepers, Sweep(s) \/ SweepAbort(s), NEW x \in Orders
    PROVE  SweptOnly(x)
<1>1. CASE SweepRecordCompensated(s)
    <2>1. cur[s] \in Orders
        BY <1>1 DEF SweepRecordCompensated, TypeInv, VisitOK
    <2>2. \/ steps'[x] = steps[x]
          \/ steps'[x] = steps[x] \union {<<"SWEEP_COMPENSATED", curVen[s]>>}
        BY <1>1, <2>1, RecordFacts DEF SweepRecordCompensated
    <2> QED BY <1>1, <2>2 DEF SweepRecordCompensated, SweptOnly, Compensated, coordVars
<1>2. CASE SweepFailOrder(s)
    <2>1. order'[x] \in {order[x], "FAILED"}
        BY <1>2 DEF SweepFailOrder, SetOrder, TypeInv, TypeOK
    <2> QED BY <1>2, <2>1 DEF SweepFailOrder, SweptOnly, Compensated, coordVars
<1>3. CASE SweepBegin(s) \/ SweepReadSuborders(s) \/ SweepReleaseLine(s)
           \/ SweepMarkRolledBack(s) \/ SweepAbort(s)
    BY <1>3 DEF SweepBegin, SweepReadSuborders, SweepReleaseLine,
                SweepMarkRolledBack, SweepAbort, SweptOnly, Compensated, coordVars,
                dbVars
<1> QED BY <1>1, <1>2, <1>3 DEF Sweep

LEMMA NextAudit == TypeInv /\ Audit /\ [Next]_vars => Audit'
<1> SUFFICES ASSUME TypeInv, Audit, [Next]_vars, NEW x \in Orders PROVE AuditOf(x)'
    BY DEF Audit
<1>a. AuditOf(x)
    BY DEF Audit
<1>1. ASSUME NEW o \in Orders,
             PlaceOrder(o) \/ Coordinator(o) \/ Crash(o) \/ Expire(o)
      PROVE  AuditOf(x)'
    BY <1>1, <1>a, OwnOrder, OtherOrders, SweptAudit
<1>2. ASSUME NEW s \in Sweepers, Sweep(s) \/ SweepAbort(s)
      PROVE  AuditOf(x)'
    BY <1>2, <1>a, SweepIsSweptOnly, SweptAudit
<1>3. CASE UNCHANGED <<order, steps, coordVars>>
    BY <1>3, <1>a, SweptAudit DEF SweptOnly, Compensated, coordVars
<1>4. ASSUME NEW l \in Listings, NEW n \in Counts, VendorRestocks(l, n)
      PROVE  AuditOf(x)'
    BY <1>4, <1>3 DEF VendorRestocks, dbVars
<1>5. CASE UNCHANGED vars
    BY <1>5, <1>3 DEF vars
<1> QED BY <1>1, <1>2, <1>4, <1>5 DEF Next

LEMMA AuditInvariant == Spec => [](TypeInv /\ Audit)
BY InitType, NextType, InitAudit, NextAudit, PTL DEF Spec

(* Whatever stops and whoever is overtaken, a coordinator compensates no    *)
(* vendor before the outcome of every vendor is in the audit trail.         *)
THEOREM SagaGathersFirst == Spec => []GatherBeforeCompensate
<1>1. Audit => GatherBeforeCompensate
    BY DEF Audit, AuditOf, Compensation, AllResolved, Resolved, Succeeded, Compensated,
           GatherBeforeCompensate
<1> QED BY <1>1, AuditInvariant, PTL

(* And an order is CONFIRMED only if the trail shows every one of its       *)
(* vendors reserved and none compensated by its coordinator.                *)
THEOREM SagaConfirmsWithReason == Spec => []ConfirmationJustified
<1>1. TypeInv /\ Audit => ConfirmationJustified
    <2> SUFFICES ASSUME Audit, NEW o \in Orders, order[o] = "CONFIRMED",
                        NEW v \in VendorsOf(o)
                 PROVE  Succeeded(o, v) /\ ~Compensated(o, v)
        BY DEF ConfirmationJustified, Succeeded, Compensated
    <2>1. AuditOf(o) /\ pc[o] = "confirmed" /\ v \in Vendors
        BY Lookup DEF Audit, AuditOf, Confirmation
    <2> QED BY <2>1 DEF AuditOf, Confirmation, Compensation, CompensationPhases
<1> QED BY <1>1, AuditInvariant, PTL
=============================================================================
