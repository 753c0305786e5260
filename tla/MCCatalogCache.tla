---------------------------- MODULE MCCatalogCache ----------------------------
(***************************************************************************)
(* Small instances of the read side: a listing of one vendor, whose row    *)
(* goes through two categories while its page and the page of the first    *)
(* category are asked for.                                                 *)
(***************************************************************************)
EXTENDS CatalogCache

CONSTANTS v1, c1

OneVendor == [l \in Listings |-> v1]

FirstPages == ListingKeys \union {Key("category", c1)}

Stops == {"invalidate"}
MarkOnly == {"mark"}
=============================================================================
