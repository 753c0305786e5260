--------------------------- MODULE OrderSagaProps ---------------------------
(***************************************************************************)
(* What the ordering saga guarantees, and under which conditions: the      *)
(* properties of OrderSaga, from type correctness to the promise of        *)
(* AllOrNothing.                                                           *)
(***************************************************************************)
EXTENDS OrderSaga, FiniteSets

OrderStatus == {"NONE", "PENDING", "CONFIRMED", "FAILED"}
SubStatus == {"NONE", "PENDING_RESERVATION", "RESERVED", "RESERVATION_FAILED",
              "ROLLED_BACK"}
StepType == {"RESERVE_ATTEMPTED", "RESERVE_FAILED", "RESERVE_SUCCEEDED",
             "COMPENSATION_ATTEMPTED", "COMPENSATION_SUCCEEDED",
             "SWEEP_COMPENSATED"}

Phases == CoordinatorPhases \union {"start", "confirmed", "failed", "crashed"}
SweeperPhases == SweepPhases \union {"idle"}

(* Every variable has its type; in particular a reserved quantity, which    *)
(* every caller of releaseStock lowers, never goes below zero.              *)
TypeOK ==
    /\ StockTypeOK
    /\ order \in [Orders -> OrderStatus]
    /\ sub \in [Orders -> [Vendors -> SubStatus]]
    /\ steps \in [Orders -> SUBSET (StepType \X Vendors)]
    /\ expired \in [Orders -> BOOLEAN]
    /\ pc \in [Orders -> Phases]
    /\ queue \in [Orders -> SUBSET Vendors]
    /\ ven \in [Orders -> Vendors \union {None}]
    /\ todo \in [Orders -> SUBSET Lines]
    /\ won \in [Orders -> SUBSET Vendors]
    /\ at \in [Sweepers -> SweeperPhases]
    /\ batch \in [Sweepers -> SUBSET Orders]
    /\ seen \in [Sweepers -> [Orders -> [Vendors -> SubStatus]]]
    /\ cur \in [Sweepers -> Orders \union {None}]
    /\ curVen \in [Sweepers -> Vendors \union {None}]
    /\ curTodo \in [Sweepers -> SUBSET Lines]

-----------------------------------------------------------------------------
(* The crash points after which the stored state no longer says what is     *)
(* held: a suborder with reserved lines not yet marked RESERVED, and a      *)
(* RESERVED suborder with lines already released.                           *)
LeakPoints == {"reserve", "undo", "succeed"}
DoublePoints == {"release", "rollback", "sweep_release", "sweep_mark"}

(* The lines whose units some process, or a RESERVED suborder, answers for. *)
CoordinatorAt(ln, phases) ==
    LET o == OrderOf[ln] IN
    pc[o] \in phases /\ ven[o] = VendorOf[ListingOf[ln]]

SweeperAt(s, ln, phases) ==
    /\ at[s] \in phases
    /\ cur[s] = OrderOf[ln]
    /\ curVen[s] = VendorOf[ListingOf[ln]]

Held(ln) ==
    \/ CoordinatorAt(ln, {"reserve"}) /\ ln \notin todo[OrderOf[ln]]
    \/ CoordinatorAt(ln, {"undo", "release"}) /\ ln \in todo[OrderOf[ln]]
    \/ CoordinatorAt(ln, {"succeed"})
    \/ /\ sub[OrderOf[ln]][VendorOf[ListingOf[ln]]] = "RESERVED"
       /\ ~CoordinatorAt(ln, {"release", "rollback"})
       /\ \A s \in Sweepers :
             /\ SweeperAt(s, ln, {"sweep_release"}) => ln \in curTodo[s]
             /\ ~SweeperAt(s, ln, {"sweep_mark"})

HeldLines == {ln \in Lines : Held(ln)}

(* The units of a set of lines, one element per unit of each line. *)
Units(S) == UNION {{ln} \X (1..QuantityOf[ln]) : ln \in S}

UnitsOf(S, l) == Cardinality(Units({ln \in S : ListingOf[ln] = l}))

(* As long as no process stops at a leak or a double-release point, the     *)
(* reserved quantity of a listing is exactly the units of the lines held by *)
(* open or confirmed suborders: nothing is leaked, nothing released twice.  *)
ExactAccounting ==
    \A l \in Listings : inventory[l].reserved = UnitsOf(HeldLines, l)

(* As long as no process stops at a double-release point, every unit that   *)
(* is held is reserved: no other order can be promised it.                  *)
HoldsBacked ==
    \A l \in Listings : UnitsOf(HeldLines, l) <= inventory[l].reserved

ConfirmedLines == {ln \in Lines : order[OrderOf[ln]] = "CONFIRMED"}

(* The units of all CONFIRMED orders are reserved, so they are on hand: the *)
(* stock a buyer was promised is never promised to another.                 *)
ConfirmedBacked ==
    \A l \in Listings :
        /\ UnitsOf(ConfirmedLines, l) <= inventory[l].reserved
        /\ inventory[l].reserved <= inventory[l].onHand

-----------------------------------------------------------------------------
(* A CONFIRMED order has every suborder RESERVED; a FAILED order has no     *)
(* suborder RESERVED or still to be reserved.                               *)
ConfirmedMeansReserved ==
    \A o \in Orders : order[o] = "CONFIRMED" =>
        \A v \in VendorsOf(o) : sub[o][v] = "RESERVED"

FailedMeansClosed ==
    \A o \in Orders : order[o] = "FAILED" =>
        \A v \in VendorsOf(o) : sub[o][v] \in {"RESERVATION_FAILED", "ROLLED_BACK"}

StatusesAgree == ConfirmedMeansReserved /\ FailedMeansClosed

(* What placeOrder answered the buyer is, and remains, the order's status.  *)
AnswerHolds ==
    \A o \in Orders :
        /\ pc[o] = "confirmed" => order[o] = "CONFIRMED"
        /\ pc[o] = "failed" => order[o] = "FAILED"

(* Once CONFIRMED or FAILED, an order and its suborders never change.       *)
TerminalIsFinal ==
    [][\A o \in Orders : order[o] \in {"CONFIRMED", "FAILED"} =>
           order'[o] = order[o] /\ sub'[o] = sub[o]]_vars

(* No suborder is compensated by the coordinator before every vendor's      *)
(* reservation was attempted and its outcome recorded (ARCHITECTURE.md 7:   *)
(* gather all results, then decide).                                        *)
GatherBeforeCompensate ==
    \A o \in Orders :
        (\E v \in Vendors : <<"COMPENSATION_ATTEMPTED", v>> \in steps[o]) =>
            \A v \in VendorsOf(o) :
                {<<"RESERVE_SUCCEEDED", v>>, <<"RESERVE_FAILED", v>>}
                    \intersect steps[o] # {}

(* Whatever else happens, an order is CONFIRMED only if the audit trail     *)
(* says that every one of its vendors reserved, and none was compensated    *)
(* by the coordinator.                                                      *)
ConfirmationJustified ==
    \A o \in Orders : order[o] = "CONFIRMED" =>
        \A v \in VendorsOf(o) :
            /\ <<"RESERVE_SUCCEEDED", v>> \in steps[o]
            /\ <<"COMPENSATION_ATTEMPTED", v>> \notin steps[o]

(* However often passes are cut short and begun again by one sweep process, *)
(* no suborder is compensated twice: about to record SWEEP_COMPENSATED, it  *)
(* has not recorded it before, nor has the coordinator recorded its own     *)
(* compensation (docs/TESTING.md:146-149, the re-sweep is idempotent).      *)
CompensatedOnce ==
    \A s \in Sweepers :
        at[s] = "sweep_log" =>
            {<<"SWEEP_COMPENSATED", curVen[s]>>, <<"COMPENSATION_SUCCEEDED", curVen[s]>>}
                \intersect steps[cur[s]] = {}

-----------------------------------------------------------------------------
(* No order stays PENDING: its coordinator finishes it, or the sweep does.  *)
StuckOrdersResolve ==
    \A o \in Orders :
        order[o] = "PENDING" ~> order[o] \in {"CONFIRMED", "FAILED"}

(* The saga implements the all-or-nothing promise: an order's status is     *)
(* its row's status, and a line is held as HeldLines says.                  *)
Promise == INSTANCE AllOrNothing WITH status <- order, holding <- HeldLines

AllOrNothingPromise == Promise!BookSpec

=============================================================================
