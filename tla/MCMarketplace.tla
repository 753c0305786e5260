---------------------------- MODULE MCMarketplace ----------------------------
(***************************************************************************)
(* A small market: l1 and l2 belong to v1, l3 to v2, l4 to v3; l4 is not   *)
(* listed and v4 not registered yet.  The carts have two items of one      *)
(* listing, items of two and of three vendors (one too many), an invalid   *)
(* quantity, and nothing.                                                  *)
(***************************************************************************)
EXTENDS Marketplace, TLC

CONSTANTS v1, v2, v3, v4, l1, l2, l3, l4

MCVendorOf == l1 :> v1 @@ l2 :> v1 @@ l3 :> v2 @@ l4 :> v3

MCListed == {l1, l2, l3}

Interchangeable == Permutations(Requests)

Item(l, q) == [listing |-> l, quantity |-> q]

MixedCarts == {<<Item(l1, 1), Item(l2, 1), Item(l1, 2)>>, <<Item(l1, 1), Item(l3, 2)>>,
               <<Item(l4, 1)>>, <<Item(l1, 1), Item(l3, 1), Item(l4, 1)>>,
               <<Item(l1, 0)>>, <<>>}
=============================================================================
