---------------------------- MODULE MCOrderSaga ----------------------------
(***************************************************************************)
(* Small instances of the saga: two orders that compete for the stock of   *)
(* two vendors.  Order o1 names the listing of v1 twice in its cart, so a  *)
(* suborder can fail half way, and both buy of v2.                         *)
(***************************************************************************)
EXTENDS OrderSagaProps, TLC

CONSTANTS o1, o2, v1, v2, v3, l1, l2, l3, a1, a2, a3, a4, b1, b2, s1, s2

MCLines == {a1, a2, a3, b1, b2}
FewLines == {a1, a3, b1}
MCOrderOf == a1 :> o1 @@ a2 :> o1 @@ a3 :> o1 @@ b1 :> o2 @@ b2 :> o2
MCListingOf == a1 :> l1 @@ a2 :> l1 @@ a3 :> l2 @@ b1 :> l1 @@ b2 :> l2
MCQuantityOf == a1 :> 1 @@ a2 :> 1 @@ a3 :> 1 @@ b1 :> 1 @@ b2 :> 2
MCVendorOf == l1 :> v1 @@ l2 :> v2

(* The same orders with one line per suborder, for runs with more faults. *)
FewOrderOf == a1 :> o1 @@ a3 :> o1 @@ b1 :> o2
FewListingOf == a1 :> l1 @@ a3 :> l2 @@ b1 :> l1
FewQuantityOf == a1 :> 1 @@ a3 :> 1 @@ b1 :> 1

(* A third vendor: a refusal can fall between the successes of two others.  *)
WideLines == {a1, a2, a3, a4, b1}
WideOrderOf == a1 :> o1 @@ a2 :> o1 @@ a3 :> o1 @@ a4 :> o1 @@ b1 :> o2
WideListingOf == a1 :> l1 @@ a2 :> l1 @@ a3 :> l2 @@ a4 :> l3 @@ b1 :> l1
WideQuantityOf == [ln \in WideLines |-> IF ln = a3 THEN 2 ELSE 1]
WideVendorOf == l1 :> v1 @@ l2 :> v2 @@ l3 :> v3

Alike == Permutations(Sweepers)

CoordinatorOnly == CoordinatorPhases
AllPhases == CoordinatorPhases \union SweepPhases
GentlePoints == AllPhases \ (LeakPoints \union DoublePoints)
LeakyPoints == AllPhases \ DoublePoints
=============================================================================
