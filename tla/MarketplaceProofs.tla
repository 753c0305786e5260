-------------------------- MODULE MarketplaceProofs --------------------------
(***************************************************************************)
(* Theorems about the commands before the saga, for any vendors, listings, *)
(* prices, carts and number of requests.                                   *)
(*                                                                         *)
(* A request decides from what it read in an earlier call.  The invariant  *)
(* says, for each call a request can be about to make, what is still true  *)
(* of the tables of all that it read.                                      *)
(***************************************************************************)
EXTENDS Marketplace, FiniteSetTheorems, WellFoundedInduction, TLAPS

Rows == [price : Prices, status : {"ACTIVE", "DELISTED"}]
Stati == {"ACTIVE", "SUSPENDED"}

CallsOf(op) ==
    CASE op = "create" -> {"vendor", "insertListing"}
      [] op = "update" -> {"owner", "update"}
      [] op = "delist" -> {"owner", "delist"}
      [] op = "place" -> {"listings", "vendors", "insertOrder"}
      [] op = "register" -> {"slug", "insertVendor"}

(* The type of the variables ... *)
MarketTypeOK ==
    /\ status \in [Vendors -> Stati \union {None}]
    /\ listing \in [Listings -> Rows \union {None}]
    /\ order = [r \in Requests |-> order[r]]
    /\ command = [r \in Requests |-> command[r]]
    /\ at = [r \in Requests |-> at[r]]
    /\ seen = [r \in Requests |-> seen[r]]
    /\ blocked \in [Requests -> SUBSET Vendors]
    /\ quoted \in [Requests -> [Listings -> SUBSET Prices]]

(* ... and of a request: it makes the calls of its command.                 *)
RunningOK(r) ==
    \/ at[r] \in {"unsent", "done"}
    \/ command[r] \in Commands /\ at[r] \in CallsOf(command[r].op)

(* What a request has verified stays so until its next call: the row it     *)
(* will update is there, the vendors it found active are not among those    *)
(* suspended all along, and the rows it read have prices that were asked.   *)
VerifiedOK(r) ==
    /\ at[r] \in {"update", "delist"} => listing[command[r].listing] # None
    /\ blocked[r] \subseteq SuspendedNow
    /\ at[r] = "insertListing" => VendorOf[command[r].listing] \notin blocked[r]
    /\ at[r] = "insertOrder" => CartVendors(r) \cap blocked[r] = {}

ReadRows(r) ==
    at[r] \in {"vendors", "insertOrder"} =>
        /\ seen[r] \in [CartListings(r) -> Rows]
        /\ \A l \in CartListings(r) : seen[r][l].price \in quoted[r][l]

QuotedOK(r) ==
    /\ at[r] # "unsent" =>
          \A l \in Listings : listing[l] # None => listing[l].price \in quoted[r][l]
    /\ ReadRows(r)

OrderedOK(r) ==
    order[r] # None =>
        /\ at[r] = "done"
        /\ \A v \in DOMAIN order[r].subs : \A line \in order[r].subs[v].lines :
              line.listing \in Listings /\ line.price \in quoted[r][line.listing]

RequestOK(r) == RunningOK(r) /\ VerifiedOK(r) /\ QuotedOK(r) /\ OrderedOK(r)

MarketInv == MarketTypeOK /\ \A r \in Requests : RequestOK(r)

-----------------------------------------------------------------------------
(* What each command carries.                                               *)
LEMMA CommandFields ==
    ASSUME NEW c \in Commands
    PROVE  /\ c.op \in {"create", "update", "delist", "place", "register"}
           /\ c.op \in {"create", "update", "delist"} => c.listing \in Listings
           /\ c.op = "create" => c.price \in Prices
           /\ c.op = "update" => c.price \in Prices \union {None}
           /\ c.op = "place" => c.cart \in Carts
           /\ c.op = "register" => c.vendor \in Vendors
BY DEF Commands

LEMMA CallFields ==
    ASSUME NEW r, RunningOK(r)
    PROVE  LET c == command[r]
           IN  /\ at[r] \in {"vendor", "insertListing"} =>
                     c \in Commands /\ c.op = "create"
               /\ at[r] = "owner" => c \in Commands /\ c.op \in {"update", "delist"}
               /\ at[r] = "update" => c \in Commands /\ c.op = "update"
               /\ at[r] = "delist" => c \in Commands /\ c.op = "delist"
               /\ at[r] \in {"listings", "vendors", "insertOrder"} =>
                     c \in Commands /\ c.op = "place"
               /\ at[r] \in {"slug", "insertVendor"} =>
                     c \in Commands /\ c.op = "register"
<1> DEFINE c == command[r]
<1>1. CASE at[r] \in {"unsent", "done"}
    BY <1>1
<1>2. CASE c \in Commands /\ at[r] \in CallsOf(c.op)
    BY <1>2, CommandFields DEF CallsOf
<1> QED BY <1>1, <1>2 DEF RunningOK

LEMMA SeqElement ==
    ASSUME NEW S, NEW s \in Seq(S), NEW i \in DOMAIN s
    PROVE  s[i] \in S
OBVIOUS

(* The vendor of a listing is a vendor; a cart's listings are listings.     *)
LEMMA CartFacts ==
    ASSUME NEW r, RunningOK(r),
           at[r] \in {"listings", "vendors", "insertOrder"}
    PROVE  /\ Cart(r) \in Seq([listing : Listings, quantity : Nat])
           /\ CartListings(r) \subseteq Listings
           /\ CartVendors(r) \subseteq Vendors
<1>1. Cart(r) \in Seq([listing : Listings, quantity : Nat])
    BY CallFields, CommandFields, MarketAssumption DEF Cart
<1>2. \A i \in Items(r) : Cart(r)[i] \in [listing : Listings, quantity : Nat]
    BY <1>1, SeqElement DEF Items
<1>3. CartListings(r) \subseteq Listings
    BY <1>2 DEF CartListings
<1>4. CartVendors(r) \subseteq Vendors
    BY <1>3, MarketAssumption DEF CartVendors
<1> QED BY <1>1, <1>3, <1>4

(* A request that makes no call keeps what it has verified, whatever rows   *)
(* are inserted or changed, as long as none disappears, no price goes       *)
(* unquoted and no suspended vendor is forgotten.                           *)
LEMMA BystanderKept ==
    ASSUME MarketInv, NEW x \in Requests,
           at'[x] = at[x], command'[x] = command[x],
           seen'[x] = seen[x], order'[x] = order[x],
           blocked'[x] \subseteq blocked[x],
           blocked'[x] \subseteq SuspendedNow',
           \A l \in Listings : listing[l] # None => listing'[l] # None,
           \A l \in Listings : quoted[x][l] \subseteq quoted'[x][l],
           at[x] # "unsent" =>
               \A l \in Listings :
                   listing'[l] # None => listing'[l].price \in quoted'[x][l]
    PROVE  RequestOK(x)'
<1>1. RunningOK(x) /\ VerifiedOK(x) /\ QuotedOK(x) /\ OrderedOK(x)
    BY DEF MarketInv, RequestOK
<1>2. RunningOK(x)'
    BY <1>1 DEF RunningOK
<1>3. VerifiedOK(x)'
    <2>1. at[x] \in {"update", "delist"} => command[x].listing \in Listings
        BY <1>1, CallFields, CommandFields
    <2>2. CartVendors(x)' = CartVendors(x)
        BY DEF CartVendors, CartListings, Items, Cart
    <2> QED BY <1>1, <2>1, <2>2 DEF VerifiedOK
<1>4. QuotedOK(x)'
    <2>1. CartListings(x)' = CartListings(x)
        BY DEF CartListings, Items, Cart
    <2>2. at[x] \in {"vendors", "insertOrder"} => CartListings(x) \subseteq Listings
        BY <1>1, CartFacts
    <2> QED BY <1>1, <2>1, <2>2 DEF QuotedOK, ReadRows
<1>5. OrderedOK(x)'
    <2>1. SUFFICES ASSUME order[x] # None
                   PROVE  OrderedOK(x)'
        BY DEF OrderedOK
    <2> QED BY <1>1, <2>1 DEF OrderedOK
<1> QED BY <1>2, <1>3, <1>4, <1>5 DEF RequestOK

-----------------------------------------------------------------------------
(* A call that writes no table moves its own request on and no other.       *)
LEMMA LocalCall ==
    ASSUME MarketInv, NEW r \in Requests, NEW c, NEW s,
           UNCHANGED <<tables, command, history>>,
           Goto(r, c), seen' = [seen EXCEPT ![r] = s],
           at[r] \notin {"unsent", "done"},
           RunningOK(r)', VerifiedOK(r)', ReadRows(r)'
    PROVE  MarketInv'
<1>1. UNCHANGED <<status, listing, order, command, blocked, quoted>>
    BY DEF tables, history
<1>2. MarketTypeOK'
    BY <1>1 DEF MarketInv, MarketTypeOK, Goto
<1>3. ASSUME NEW x \in Requests \ {r} PROVE RequestOK(x)'
    <2>1. at'[x] = at[x] /\ seen'[x] = seen[x]
        BY DEF MarketInv, MarketTypeOK, Goto
    <2>2. blocked[x] \subseteq SuspendedNow' /\ QuotedOK(x)
        BY <1>1 DEF MarketInv, RequestOK, VerifiedOK, SuspendedNow
    <2> QED BY <1>1, <2>1, <2>2, BystanderKept DEF QuotedOK
<1>4. RequestOK(r)'
    <2>1. QuotedOK(r)'
        BY <1>1 DEF MarketInv, RequestOK, QuotedOK
    <2>2. OrderedOK(r)'
        BY <1>1 DEF MarketInv, RequestOK, OrderedOK
    <2> QED BY <2>1, <2>2 DEF RequestOK
<1> QED BY <1>2, <1>3, <1>4 DEF MarketInv

LEMMA SeenKept ==
    ASSUME MarketTypeOK, NEW r \in Requests
    PROVE  seen = [seen EXCEPT ![r] = seen[r]]
BY DEF MarketTypeOK

(* The call a request makes next, after Goto. *)
LEMMA NextCall ==
    ASSUME MarketTypeOK, NEW r \in Requests, NEW c, Goto(r, c)
    PROVE  at'[r] = c
BY DEF MarketTypeOK, Goto

LEMMA LookUpSlugInv ==
    ASSUME MarketInv, NEW r \in Requests, LookUpSlug(r)
    PROVE  MarketInv'
<1>1. PICK c \in {"insertVendor", "done"} : Goto(r, c)
    BY DEF LookUpSlug
<1>2. MarketTypeOK /\ RequestOK(r) /\ at[r] = "slug" /\ at'[r] = c
    BY <1>1, NextCall DEF MarketInv, LookUpSlug
<1>3. UNCHANGED <<tables, command, seen, history>>
    BY DEF LookUpSlug
<1>4. RunningOK(r)' /\ VerifiedOK(r)' /\ ReadRows(r)'
    BY <1>2, <1>3, CallFields
       DEF RequestOK, RunningOK, CallsOf, VerifiedOK, ReadRows, tables, history,
           SuspendedNow
<1> QED BY <1>1, <1>2, <1>3, <1>4, LocalCall, SeenKept

LEMMA VerifyVendorActiveInv ==
    ASSUME MarketInv, NEW r \in Requests, VerifyVendorActive(r)
    PROVE  MarketInv'
<1>1. PICK c \in {"insertListing", "done"} :
          /\ Goto(r, c)
          /\ c = "insertListing" => status[VendorOf[command[r].listing]] = "ACTIVE"
    BY DEF VerifyVendorActive
<1>2. MarketTypeOK /\ RequestOK(r) /\ at[r] = "vendor" /\ at'[r] = c
    BY <1>1, NextCall DEF MarketInv, VerifyVendorActive
<1>3. UNCHANGED <<tables, command, seen, history>>
    BY DEF VerifyVendorActive
<1>4. RunningOK(r)' /\ VerifiedOK(r)' /\ ReadRows(r)'
    BY <1>1, <1>2, <1>3, CallFields
       DEF RequestOK, RunningOK, CallsOf, VerifiedOK, ReadRows, tables, history,
           SuspendedNow
<1> QED BY <1>1, <1>2, <1>3, <1>4, LocalCall, SeenKept

LEMMA VerifyOwnerInv ==
    ASSUME MarketInv, NEW r \in Requests, VerifyOwner(r)
    PROVE  MarketInv'
<1>1. PICK c \in {command[r].op, "done"} :
          /\ Goto(r, c)
          /\ c = "done" \/ listing[command[r].listing] # None
    BY DEF VerifyOwner
<1>2. MarketTypeOK /\ RequestOK(r) /\ at[r] = "owner" /\ at'[r] = c
    BY <1>1, NextCall DEF MarketInv, VerifyOwner
<1>3. UNCHANGED <<tables, command, history>>
    BY DEF VerifyOwner
<1>4. command[r] \in Commands /\ command[r].op \in {"update", "delist"}
    BY <1>2, CallFields DEF RequestOK
<1>5. RunningOK(r)' /\ VerifiedOK(r)' /\ ReadRows(r)'
    BY <1>1, <1>2, <1>3, <1>4
       DEF RequestOK, RunningOK, CallsOf, VerifiedOK, ReadRows, tables, history,
           SuspendedNow
<1> QED BY <1>1, <1>2, <1>3, <1>5, LocalCall DEF VerifyOwner

LEMMA FetchListingsInv ==
    ASSUME MarketInv, NEW r \in Requests, FetchListings(r)
    PROVE  MarketInv'
<1> DEFINE ok == ValidCart(Cart(r)) /\ \A l \in CartListings(r) : listing[l] # None
           read == [l \in CartListings(r) |-> listing[l]]
<1>1. /\ at[r] = "listings"
      /\ UNCHANGED <<tables, command, history>>
      /\ seen' = [seen EXCEPT ![r] = IF ok THEN read ELSE None]
      /\ Goto(r, IF ok THEN "vendors" ELSE "done")
    BY DEF FetchListings
<1>2. MarketTypeOK /\ RequestOK(r) /\ at'[r] = IF ok THEN "vendors" ELSE "done"
    BY <1>1, NextCall DEF MarketInv
<1>3. seen'[r] = IF ok THEN read ELSE None
    BY <1>1, <1>2 DEF MarketTypeOK
<1>4. UNCHANGED <<status, listing, command, blocked, quoted>>
    BY <1>1 DEF tables, history
<1>5. CartListings(r)' = CartListings(r)
    BY <1>4 DEF CartListings, Items, Cart
<1>6. CartListings(r) \subseteq Listings
    BY <1>1, <1>2, CartFacts DEF RequestOK
<1>7. ReadRows(r)'
    <2>1. SUFFICES ASSUME ok PROVE ReadRows(r)'
        BY <1>2 DEF ReadRows
    <2>2. read \in [CartListings(r) -> Rows]
        BY <2>1, <1>2, <1>6 DEF MarketTypeOK
    <2>3. \A l \in CartListings(r) : read[l].price \in quoted[r][l]
        BY <2>1, <1>1, <1>2, <1>6 DEF RequestOK, QuotedOK
    <2> QED BY <2>1, <2>2, <2>3, <1>3, <1>4, <1>5 DEF ReadRows
<1>8. RunningOK(r)' /\ VerifiedOK(r)'
    BY <1>1, <1>2, <1>4, CallFields
       DEF RequestOK, RunningOK, CallsOf, VerifiedOK, SuspendedNow
<1> QED BY <1>1, <1>7, <1>8, LocalCall

LEMMA CheckVendorsInv ==
    ASSUME MarketInv, NEW r \in Requests, CheckVendors(r)
    PROVE  MarketInv'
<1>1. PICK c \in {"insertOrder", "done"} :
          Goto(r, c) /\ (c = "insertOrder" => VendorsActive(r))
    BY DEF CheckVendors
<1>2. MarketTypeOK /\ RequestOK(r) /\ at[r] = "vendors" /\ at'[r] = c
    BY <1>1, NextCall DEF MarketInv, CheckVendors
<1>3. UNCHANGED <<tables, command, seen, history>>
    BY DEF CheckVendors
<1>4. CartVendors(r)' = CartVendors(r) /\ CartListings(r)' = CartListings(r)
    BY <1>3 DEF CartVendors, CartListings, Items, Cart
<1>5. VendorsActive(r) => CartVendors(r) \cap blocked[r] = {}
    BY <1>2 DEF RequestOK, VerifiedOK, VendorsActive, SuspendedNow
<1>6. RunningOK(r)' /\ VerifiedOK(r)' /\ ReadRows(r)'
    BY <1>1, <1>2, <1>3, <1>4, <1>5, CallFields
       DEF RequestOK, RunningOK, CallsOf, VerifiedOK, QuotedOK, ReadRows, tables,
           history, SuspendedNow
<1> QED BY <1>1, <1>2, <1>3, <1>6, LocalCall, SeenKept

-----------------------------------------------------------------------------
(* A write of product_listings takes no row away and quotes every price.    *)
LEMMA ListingWritten ==
    ASSUME MarketInv, NEW r \in Requests,
           at[r] \in {"insertListing", "update", "delist"},
           listing' \in [Listings -> Rows \union {None}],
           \A l \in Listings : listing[l] # None => listing'[l] # None,
           QuoteNewPrices, Goto(r, "done"),
           UNCHANGED <<status, order, command, seen, blocked>>
    PROVE  MarketInv'
<1>1. \A x \in Requests, l \in Listings :
          quoted'[x][l] = quoted[x][l] \union
                            (IF listing'[l] = None THEN {} ELSE {listing'[l].price})
    BY DEF QuoteNewPrices
<1>2. quoted' \in [Requests -> [Listings -> SUBSET Prices]]
    <2>1. \A l \in Listings : listing'[l] # None => listing'[l].price \in Prices
        BY DEF Rows
    <2> QED BY <2>1 DEF QuoteNewPrices, MarketInv, MarketTypeOK
<1>3. MarketTypeOK'
    BY <1>2 DEF MarketInv, MarketTypeOK, Goto
<1>4. ASSUME NEW x \in Requests \ {r} PROVE RequestOK(x)'
    <2>1. at'[x] = at[x]
        BY DEF MarketInv, MarketTypeOK, Goto
    <2>2. blocked[x] \subseteq SuspendedNow'
        BY DEF MarketInv, RequestOK, VerifiedOK, SuspendedNow
    <2>3. \A l \in Listings : quoted[x][l] \subseteq quoted'[x][l]
        BY <1>1
    <2>4. \A l \in Listings : listing'[l] # None => listing'[l].price \in quoted'[x][l]
        BY <1>1
    <2> QED BY <2>1, <2>2, <2>3, <2>4, BystanderKept
<1>5. RequestOK(r)'
    <2>1. at'[r] = "done" /\ RequestOK(r)
        BY NextCall DEF MarketInv
    <2>2. QuotedOK(r)'
        BY <2>1, <1>1 DEF QuotedOK, ReadRows
    <2>3. OrderedOK(r)'
        BY <2>1 DEF RequestOK, OrderedOK
    <2> QED BY <2>1, <2>2, <2>3 DEF RequestOK, RunningOK, VerifiedOK, SuspendedNow
<1> QED BY <1>3, <1>4, <1>5 DEF MarketInv

(* Rows are inserted once and then only updated.                            *)
LEMMA InsertedRow ==
    ASSUME MarketTypeOK, NEW r \in Requests, RunningOK(r), InsertListing(r)
    PROVE  /\ listing' \in [Listings -> Rows \union {None}]
           /\ \A l \in Listings : listing[l] # None => listing'[l] = listing[l]
<1>1. command[r].listing \in Listings /\ command[r].price \in Prices
    BY CallFields, CommandFields DEF InsertListing
<1>2. [price |-> command[r].price, status |-> "ACTIVE"] \in Rows
    BY <1>1 DEF Rows
<1> QED BY <1>1, <1>2 DEF InsertListing, MarketTypeOK

LEMMA RewrittenRow ==
    ASSUME MarketTypeOK, NEW r \in Requests, RunningOK(r), VerifiedOK(r),
           UpdateListing(r) \/ DelistListing(r)
    PROVE  /\ listing' \in [Listings -> Rows \union {None}]
           /\ \A l \in Listings : listing[l] # None =>
                  /\ listing'[l] # None
                  /\ listing[l].status = "DELISTED" => listing'[l].status = "DELISTED"
<1> DEFINE l == command[r].listing
           new == IF at[r] = "update" THEN UpdatedRow(r, listing[l])
                  ELSE [listing[l] EXCEPT !.status = "DELISTED"]
<1>1. /\ listing' = [listing EXCEPT ![l] = new]
      /\ at[r] \in {"update", "delist"}
    BY DEF UpdateListing, DelistListing
<1>2. l \in Listings /\ listing[l] \in Rows
    BY <1>1, CallFields, CommandFields DEF VerifiedOK, MarketTypeOK
<1>3. at[r] = "update" => Given(command[r].price, listing[l].price) \in Prices
    BY <1>2, CallFields, CommandFields DEF Given, Rows
<1>4. new \in Rows /\ (listing[l].status = "DELISTED" => new.status = "DELISTED")
    BY <1>1, <1>2, <1>3 DEF UpdatedRow, Rows
<1>5. None \notin Rows
    BY MarketAssumption DEF Rows
<1> HIDE DEF new
<1> QED BY <1>1, <1>2, <1>4, <1>5 DEF MarketTypeOK

LEMMA WriteListingInv ==
    ASSUME MarketInv, NEW r \in Requests,
           InsertListing(r) \/ UpdateListing(r) \/ DelistListing(r)
    PROVE  MarketInv'
<1>1. MarketTypeOK /\ RunningOK(r) /\ VerifiedOK(r)
    BY DEF MarketInv, RequestOK
<1>2. /\ listing' \in [Listings -> Rows \union {None}]
      /\ \A l \in Listings : listing[l] # None => listing'[l] # None
    BY <1>1, InsertedRow, RewrittenRow
<1>3. /\ at[r] \in {"insertListing", "update", "delist"}
      /\ QuoteNewPrices /\ Goto(r, "done")
      /\ UNCHANGED <<status, order, command, seen, blocked>>
    BY DEF InsertListing, UpdateListing, DelistListing
<1> QED BY <1>2, <1>3, ListingWritten

-----------------------------------------------------------------------------
(* Registering a vendor leaves a status that is already there as it is.     *)
LEMMA InsertedVendor ==
    ASSUME MarketTypeOK, NEW r \in Requests, RunningOK(r), InsertVendor(r)
    PROVE  /\ status' \in [Vendors -> Stati \union {None}]
           /\ \A v \in Vendors : status[v] = "SUSPENDED" => status'[v] = "SUSPENDED"
<1>1. command[r].vendor \in Vendors
    BY CallFields, CommandFields DEF InsertVendor
<1>2. None # "SUSPENDED"
    BY MarketAssumption
<1> QED BY <1>1, <1>2 DEF InsertVendor, InsertedStatus, MarketTypeOK, Stati

LEMMA InsertVendorInv ==
    ASSUME MarketInv, NEW r \in Requests, InsertVendor(r)
    PROVE  MarketInv'
<1>1. MarketTypeOK /\ RequestOK(r) /\ at'[r] = "done" /\ at[r] = "insertVendor"
    BY NextCall DEF MarketInv, InsertVendor
<1>2. /\ status' \in [Vendors -> Stati \union {None}]
      /\ SuspendedNow \subseteq SuspendedNow'
    BY <1>1, InsertedVendor DEF RequestOK, SuspendedNow
<1>3. UNCHANGED <<listing, order, command, seen, blocked, quoted>> /\ Goto(r, "done")
    BY DEF InsertVendor, history
<1>4. MarketTypeOK'
    BY <1>1, <1>2, <1>3 DEF MarketTypeOK, Goto
<1>5. ASSUME NEW x \in Requests \ {r} PROVE RequestOK(x)'
    <2>1. at'[x] = at[x]
        BY <1>1, <1>3 DEF MarketTypeOK, Goto
    <2>2. blocked[x] \subseteq SuspendedNow' /\ QuotedOK(x)
        BY <1>2 DEF MarketInv, RequestOK, VerifiedOK
    <2> QED BY <1>3, <2>1, <2>2, BystanderKept DEF QuotedOK
<1>6. RequestOK(r)'
    BY <1>1, <1>2, <1>3
       DEF RequestOK, RunningOK, VerifiedOK, QuotedOK, ReadRows, OrderedOK
<1> QED BY <1>4, <1>5, <1>6 DEF MarketInv

(* An administrator's change: who is no longer suspended is forgotten.      *)
LEMMA UpdateVendorStatusInv ==
    ASSUME MarketInv, NEW v \in Vendors, UpdateVendorStatus(v)
    PROVE  MarketInv'
<1>1. PICK st \in Stati : status' = [status EXCEPT ![v] = st]
    BY DEF UpdateVendorStatus, Stati
<1>2. /\ UNCHANGED <<listing, order, command, at, seen, quoted>>
      /\ blocked' = [x \in Requests |-> {w \in blocked[x] : status'[w] = "SUSPENDED"}]
    BY DEF UpdateVendorStatus
<1>3. MarketTypeOK'
    BY <1>1, <1>2 DEF MarketInv, MarketTypeOK
<1>4. ASSUME NEW x \in Requests PROVE RequestOK(x)'
    <2>1. blocked[x] \subseteq Vendors /\ QuotedOK(x)
        BY DEF MarketInv, MarketTypeOK, RequestOK
    <2>2. blocked'[x] \subseteq blocked[x] /\ blocked'[x] \subseteq SuspendedNow'
        BY <1>2, <2>1 DEF SuspendedNow
    <2> QED BY <1>2, <2>1, <2>2, BystanderKept DEF QuotedOK
<1> QED BY <1>3, <1>4 DEF MarketInv

LEMMA BeginInv ==
    ASSUME MarketInv, NEW r \in Requests, NEW c \in Commands, Begin(r, c)
    PROVE  MarketInv'
<1>1. /\ at[r] = "unsent" /\ UNCHANGED <<status, listing, order, seen>>
      /\ command' = [command EXCEPT ![r] = c]
      /\ at' = [at EXCEPT ![r] = FirstCall(c)]
      /\ blocked' = [blocked EXCEPT ![r] = SuspendedNow]
      /\ quoted' = [quoted EXCEPT ![r] = [l \in Listings |-> PriceNow(l)]]
    BY DEF Begin, tables, Goto
<1>2. MarketTypeOK /\ RequestOK(r)
    BY DEF MarketInv
<1>3. FirstCall(c) \in CallsOf(c.op) \cap {"vendor", "owner", "listings", "slug"}
    BY CommandFields DEF FirstCall, CallsOf
<1>4. SuspendedNow \subseteq Vendors
    BY DEF SuspendedNow
<1>5. [l \in Listings |-> PriceNow(l)] \in [Listings -> SUBSET Prices]
    BY <1>2 DEF MarketTypeOK, PriceNow, Rows
<1>6. MarketTypeOK'
    BY <1>1, <1>2, <1>4, <1>5 DEF MarketTypeOK
<1>7. ASSUME NEW x \in Requests \ {r} PROVE RequestOK(x)'
    <2>1. /\ at'[x] = at[x] /\ command'[x] = command[x]
          /\ blocked'[x] = blocked[x] /\ quoted'[x] = quoted[x]
        BY <1>1, <1>2 DEF MarketTypeOK
    <2>2. blocked[x] \subseteq SuspendedNow' /\ QuotedOK(x)
        BY <1>1 DEF MarketInv, RequestOK, VerifiedOK, SuspendedNow
    <2> QED BY <1>1, <2>1, <2>2, BystanderKept DEF QuotedOK
<1>8. RequestOK(r)'
    <2>1. /\ at'[r] = FirstCall(c) /\ command'[r] = c
          /\ blocked'[r] = SuspendedNow
          /\ quoted'[r] = [l \in Listings |-> PriceNow(l)]
        BY <1>1, <1>2 DEF MarketTypeOK
    <2>2. RunningOK(r)' /\ OrderedOK(r)'
        BY <1>1, <1>2, <1>3, <2>1 DEF RunningOK, RequestOK, OrderedOK
    <2>3. VerifiedOK(r)'
        BY <1>1, <1>3, <2>1 DEF VerifiedOK, SuspendedNow
    <2>4. QuotedOK(r)'
        BY <1>1, <1>3, <2>1 DEF QuotedOK, ReadRows, PriceNow
    <2> QED BY <2>2, <2>3, <2>4 DEF RequestOK
<1> QED BY <1>6, <1>7, <1>8 DEF MarketInv

-----------------------------------------------------------------------------
(* The rows InsertOrder writes: a suborder for each vendor of the cart,     *)
(* with lines at the prices the request has read.                           *)
LEMMA InsertedOrder ==
    ASSUME MarketTypeOK, NEW r \in Requests, InsertOrder(r)
    PROVE  /\ DOMAIN order'[r].subs = CartVendors(r)
           /\ \A v \in CartVendors(r) : order'[r].subs[v] = Suborder(r, v)
<1> DEFINE subs == [v \in CartVendors(r) |-> Suborder(r, v)]
<1>1. PICK total : order' = [order EXCEPT ![r] = [total |-> total, subs |-> subs]]
    BY DEF InsertOrder
<1>2. order'[r].subs = subs
    BY <1>1 DEF MarketTypeOK
<1> QED BY <1>2

LEMMA LinesOfSuborder ==
    ASSUME NEW r, NEW v PROVE Suborder(r, v).lines = SuborderLines(r, v)
BY Zenon DEF Suborder

LEMMA InsertedLines ==
    ASSUME NEW r, RunningOK(r), at[r] = "insertOrder", ReadRows(r), NEW v,
           NEW line \in Suborder(r, v).lines
    PROVE  line.listing \in Listings /\ line.price \in quoted[r][line.listing]
<1>1. PICK i \in GroupOf(r, v) :
          line.listing = Cart(r)[i].listing /\ line.price = UnitPrice(r, i)
    BY LinesOfSuborder DEF SuborderLines
<1>2. Cart(r)[i].listing \in CartListings(r)
    BY <1>1 DEF GroupOf, CartListings
<1> QED BY <1>1, <1>2, CartFacts DEF UnitPrice, ReadRows

LEMMA InsertOrderInv ==
    ASSUME MarketInv, NEW r \in Requests, InsertOrder(r)
    PROVE  MarketInv'
<1>1. MarketTypeOK /\ RequestOK(r) /\ at'[r] = "done" /\ at[r] = "insertOrder"
    BY NextCall DEF MarketInv, InsertOrder
<1>2. /\ UNCHANGED <<status, listing, command, seen, blocked, quoted>>
      /\ Goto(r, "done")
    BY DEF InsertOrder, history
<1>3. PICK new : order' = [order EXCEPT ![r] = new]
    BY DEF InsertOrder
<1>4. MarketTypeOK'
    BY <1>1, <1>2, <1>3 DEF MarketTypeOK, Goto
<1>5. ASSUME NEW x \in Requests \ {r} PROVE RequestOK(x)'
    <2>1. at'[x] = at[x] /\ order'[x] = order[x]
        BY <1>1, <1>2, <1>3 DEF MarketTypeOK, Goto
    <2>2. blocked[x] \subseteq SuspendedNow' /\ QuotedOK(x)
        BY <1>2 DEF MarketInv, RequestOK, VerifiedOK, SuspendedNow
    <2> QED BY <1>2, <2>1, <2>2, BystanderKept DEF QuotedOK
<1>6. RequestOK(r)'
    <2>1. OrderedOK(r)'
        BY <1>1, <1>2, InsertedOrder, InsertedLines DEF RequestOK, QuotedOK, OrderedOK
    <2> QED BY <1>1, <1>2, <2>1
            DEF RequestOK, RunningOK, VerifiedOK, SuspendedNow, QuotedOK, ReadRows
<1> QED BY <1>4, <1>5, <1>6 DEF MarketInv

-----------------------------------------------------------------------------
LEMMA InitMarket == Init => MarketInv
<1> SUFFICES ASSUME Init PROVE MarketInv
    OBVIOUS
<1>1. Registered \subseteq Vendors /\ ListPrice \in Prices
    BY MarketAssumption
<1>2. MarketTypeOK
    <2>1. status \in [Vendors -> Stati \union {None}]
        BY DEF Init, Stati
    <2>2. listing \in [Listings -> Rows \union {None}]
        BY <1>1 DEF Init, Rows
    <2> QED BY <2>1, <2>2 DEF Init, MarketTypeOK
<1>3. \A r \in Requests : RequestOK(r)
    BY DEF Init, RequestOK, RunningOK, VerifiedOK, QuotedOK, ReadRows, OrderedOK
<1> QED BY <1>2, <1>3 DEF MarketInv

LEMMA HandlerInv ==
    ASSUME MarketInv, NEW r \in Requests, Handler(r)
    PROVE  MarketInv'
BY LookUpSlugInv, InsertVendorInv, VerifyVendorActiveInv, WriteListingInv,
   VerifyOwnerInv, FetchListingsInv, CheckVendorsInv, InsertOrderInv DEF Handler

LEMMA StutterMarket == MarketInv /\ UNCHANGED vars => MarketInv'
<1> SUFFICES ASSUME MarketInv, UNCHANGED vars PROVE MarketInv'
    OBVIOUS
<1>1. UNCHANGED <<status, listing, order, command, at, seen, blocked, quoted>>
    BY DEF vars, tables, history
<1>2. MarketTypeOK'
    BY <1>1 DEF MarketInv, MarketTypeOK
<1>3. ASSUME NEW x \in Requests PROVE RequestOK(x)'
    <2>1. blocked[x] \subseteq SuspendedNow' /\ QuotedOK(x)
        BY <1>1 DEF MarketInv, RequestOK, VerifiedOK, SuspendedNow
    <2> QED BY <1>1, <2>1, BystanderKept DEF QuotedOK
<1> QED BY <1>2, <1>3 DEF MarketInv

LEMMA NextMarket == MarketInv /\ [Next]_vars => MarketInv'
BY HandlerInv, BeginInv, UpdateVendorStatusInv, StutterMarket DEF Next

LEMMA MarketInvariant == Spec => []MarketInv
<1>1. Init => MarketInv
    BY InitMarket
<1>2. MarketInv /\ [Next]_vars => MarketInv'
    BY NextMarket
<1> QED BY <1>1, <1>2, PTL DEF Spec

-----------------------------------------------------------------------------
(* A buyer pays a price that was asked.  However updates of the listings    *)
(* interleave with the calls of placeOrder, the unit price of every line is *)
(* one its listing had while the order was being placed.                    *)
THEOREM MarketPricesWereAsked == Spec => []PricesWereAsked
<1>1. MarketInv => PricesWereAsked
    BY DEF MarketInv, RequestOK, OrderedOK, PricesWereAsked
<1> QED BY <1>1, MarketInvariant, PTL

(* An order is inserted by the last call of its own request.                *)
LEMMA WhoOrders ==
    ASSUME MarketTypeOK, [Next]_vars, NEW r \in Requests, order'[r] # order[r]
    PROVE  InsertOrder(r)
<1>1. CASE UNCHANGED vars
    BY <1>1 DEF vars, tables
<1>2. ASSUME NEW x \in Requests, Handler(x) PROVE InsertOrder(r)
    <2>1. InsertOrder(x)
        BY <1>2 DEF Handler, LookUpSlug, InsertVendor, VerifyVendorActive,
                    InsertListing, VerifyOwner, UpdateListing, DelistListing,
                    FetchListings, CheckVendors, tables
    <2>2. PICK new : order' = [order EXCEPT ![x] = new]
        BY <2>1 DEF InsertOrder
    <2> QED BY <2>1, <2>2 DEF MarketTypeOK
<1>3. ASSUME NEW x \in Requests, NEW c \in Commands, Begin(x, c) PROVE FALSE
    BY <1>3 DEF Begin, tables
<1>4. ASSUME NEW v \in Vendors, UpdateVendorStatus(v) PROVE FALSE
    BY <1>4 DEF UpdateVendorStatus
<1> QED BY <1>1, <1>2, <1>3, <1>4 DEF Next

(* A suspension blocks new business: nobody orders from, or lists for, a    *)
(* vendor that was suspended before the request began and has been since,   *)
(* though the vendor's status is read several calls before the insert.      *)
THEOREM MarketBlocksSuspended == Spec => SuspensionBlocksNewBusiness
<1> DEFINE Blocked(r) ==
        /\ order[r] = None /\ order'[r] # None
              => DOMAIN order'[r].subs \cap blocked[r] = {}
        /\ at[r] = "insertListing" /\ listing' # listing /\ at'[r] = "done"
              => VendorOf[command[r].listing] \notin blocked[r]
<1>1. MarketInv /\ [Next]_vars => \A r \in Requests : Blocked(r)
    <2> SUFFICES ASSUME MarketInv, [Next]_vars, NEW r \in Requests PROVE Blocked(r)
        OBVIOUS
    <2>1. MarketTypeOK /\ VerifiedOK(r)
        BY DEF MarketInv, RequestOK
    <2>2. ASSUME order[r] = None, order'[r] # None
          PROVE  DOMAIN order'[r].subs \cap blocked[r] = {}
        <3>1. InsertOrder(r)
            BY <2>1, <2>2, WhoOrders
        <3>2. DOMAIN order'[r].subs = CartVendors(r) /\ at[r] = "insertOrder"
            BY <2>1, <3>1, InsertedOrder DEF InsertOrder
        <3> QED BY <2>1, <3>2 DEF VerifiedOK
    <2> QED BY <2>1, <2>2 DEF VerifiedOK
<1> HIDE DEF Blocked
<1>2. [][\A r \in Requests : Blocked(r)]_vars <=> SuspensionBlocksNewBusiness
    BY DEF SuspensionBlocksNewBusiness, Blocked
<1> QED BY <1>1, <1>2, MarketInvariant, PTL DEF Spec

(* Only an administrator ends a suspension: no request does, in particular  *)
(* none that registers a vendor another request has registered meanwhile.   *)
THEOREM MarketReinstatesNobody == Spec => RequestsReinstateNobody
<1> DEFINE ByAdmin(v) ==
        status[v] = "SUSPENDED" /\ status'[v] # "SUSPENDED" => UNCHANGED at
<1>1. MarketInv /\ [Next]_vars => \A v \in Vendors : ByAdmin(v)
    <2> SUFFICES ASSUME MarketInv, [Next]_vars, NEW v \in Vendors PROVE ByAdmin(v)
        OBVIOUS
    <2>1. CASE UNCHANGED vars
        BY <2>1 DEF vars
    <2>2. ASSUME NEW r \in Requests, Handler(r)
          PROVE  status[v] = "SUSPENDED" => status'[v] = "SUSPENDED"
        <3>1. CASE InsertVendor(r)
            BY <3>1, InsertedVendor DEF MarketInv, RequestOK
        <3>2. CASE ~InsertVendor(r)
            BY <2>2, <3>2 DEF Handler, LookUpSlug, VerifyVendorActive, InsertListing,
               VerifyOwner, UpdateListing, DelistListing, FetchListings, CheckVendors,
               InsertOrder, tables
        <3> QED BY <3>1, <3>2
    <2>3. ASSUME NEW r \in Requests, NEW c \in Commands, Begin(r, c)
          PROVE  UNCHANGED status
        BY <2>3 DEF Begin, tables
    <2>4. ASSUME NEW w \in Vendors, UpdateVendorStatus(w) PROVE UNCHANGED at
        BY <2>4 DEF UpdateVendorStatus
    <2> QED BY <2>1, <2>2, <2>3, <2>4 DEF Next
<1> HIDE DEF ByAdmin
<1>2. [][\A v \in Vendors : ByAdmin(v)]_vars <=> RequestsReinstateNobody
    BY DEF RequestsReinstateNobody, ByAdmin
<1> QED BY <1>1, <1>2, MarketInvariant, PTL DEF Spec

(* A delisted listing stays delisted: an update that verified the owner     *)
(* before the delisting, and writes after it, does not bring it back.       *)
THEOREM MarketKeepsDelisted == Spec => DelistedStaysDelisted
<1> DEFINE StaysDelisted(l) ==
        listing[l] # None /\ listing[l].status = "DELISTED"
            => listing'[l] # None /\ listing'[l].status = "DELISTED"
<1>1. MarketInv /\ [Next]_vars => \A l \in Listings : StaysDelisted(l)
    <2> SUFFICES ASSUME MarketInv, [Next]_vars, NEW l \in Listings
                 PROVE  StaysDelisted(l)
        OBVIOUS
    <2>1. CASE UNCHANGED vars
        BY <2>1 DEF vars, tables
    <2>2. ASSUME NEW r \in Requests, Handler(r) PROVE StaysDelisted(l)
        <3>1. MarketTypeOK /\ RunningOK(r) /\ VerifiedOK(r)
            BY DEF MarketInv, RequestOK
        <3>2. CASE InsertListing(r) \/ UpdateListing(r) \/ DelistListing(r)
            BY <3>1, <3>2, InsertedRow, RewrittenRow
        <3>3. CASE ~(InsertListing(r) \/ UpdateListing(r) \/ DelistListing(r))
            BY <2>2, <3>3 DEF Handler, LookUpSlug, InsertVendor, VerifyVendorActive,
               VerifyOwner, FetchListings, CheckVendors, InsertOrder, tables
        <3> QED BY <3>2, <3>3
    <2>3. ASSUME NEW r \in Requests, NEW c \in Commands, Begin(r, c)
          PROVE  UNCHANGED listing
        BY <2>3 DEF Begin, tables
    <2>4. ASSUME NEW w \in Vendors, UpdateVendorStatus(w) PROVE UNCHANGED listing
        BY <2>4 DEF UpdateVendorStatus
    <2> QED BY <2>1, <2>2, <2>3, <2>4 DEF Next
<1> HIDE DEF StaysDelisted
<1>2. [][\A l \in Listings : StaysDelisted(l)]_vars <=> DelistedStaysDelisted
    BY DEF DelistedStaysDelisted, StaysDelisted
<1> QED BY <1>1, <1>2, MarketInvariant, PTL DEF Spec

-----------------------------------------------------------------------------
(* Sums over finite sets.  SumFunctionOnSet is a recursive function that    *)
(* takes out one chosen element after the other.  What it computes is the   *)
(* number of units when x stands for f[x] of them, and units can be counted *)
(* without an order.                                                        *)

BlockOf(f, x) == {x} \X (1..f[x])
Blocks(f, S) == UNION {BlockOf(f, x) : x \in S}

LEMMA BlockSize ==
    ASSUME NEW x, NEW q \in Nat
    PROVE  IsFiniteSet({x} \X (1..q)) /\ Cardinality({x} \X (1..q)) = q
<1>1. IsFiniteSet(1..q) /\ Cardinality(1..q) = q
    <2>1. 1 \in Int /\ q \in Int
        OBVIOUS
    <2>2. IsFiniteSet(1..q) /\ Cardinality(1..q) = IF 1 > q THEN 0 ELSE q-1+1
        BY <2>1, FS_Interval, Zenon
    <2> QED BY <2>2
<1>2. IsFiniteSet({x}) /\ Cardinality({x}) = 1
    BY FS_Singleton
<1>3. /\ IsFiniteSet({x} \X (1..q))
      /\ Cardinality({x} \X (1..q)) = Cardinality({x}) * Cardinality(1..q)
    BY <1>1, <1>2, FS_Product, Zenon
<1> QED BY <1>1, <1>2, <1>3

LEMMA BlocksFinite ==
    ASSUME NEW S, IsFiniteSet(S), NEW f, \A x \in S : f[x] \in Nat
    PROVE  IsFiniteSet(Blocks(f, S)) /\ Cardinality(Blocks(f, S)) \in Nat
<1> DEFINE all == {BlockOf(f, x) : x \in S}
           g == [x \in S |-> BlockOf(f, x)]
<1>1. g \in Surjection(S, all)
    BY DEF Surjection
<1>2. IsFiniteSet(all)
    BY <1>1, FS_Surjection
<1>3. ASSUME NEW x \in S PROVE IsFiniteSet(BlockOf(f, x))
    BY BlockSize DEF BlockOf
<1>4. IsFiniteSet(UNION all)
    BY <1>2, <1>3, FS_UNION
<1> QED BY <1>4, FS_CardinalityType DEF Blocks

(* Disjoint sets of elements have disjoint sets of units ... *)
LEMMA BlocksUnion ==
    ASSUME NEW S, IsFiniteSet(S), NEW f, \A x \in S : f[x] \in Nat,
           NEW A \in SUBSET S, NEW B \in SUBSET S, A \cap B = {}
    PROVE  Cardinality(Blocks(f, A \union B))
               = Cardinality(Blocks(f, A)) + Cardinality(Blocks(f, B))
<1>1. IsFiniteSet(A) /\ IsFiniteSet(B)
    BY FS_Subset
<1>2. /\ IsFiniteSet(Blocks(f, A)) /\ Cardinality(Blocks(f, A)) \in Nat
      /\ IsFiniteSet(Blocks(f, B)) /\ Cardinality(Blocks(f, B)) \in Nat
    BY <1>1, BlocksFinite
<1>3. Blocks(f, A \union B) = Blocks(f, A) \union Blocks(f, B)
    BY DEF Blocks
<1>4. Blocks(f, A) \cap Blocks(f, B) = {}
    BY DEF Blocks, BlockOf
<1>5. Cardinality(Blocks(f, A) \union Blocks(f, B))
          = Cardinality(Blocks(f, A)) + Cardinality(Blocks(f, B))
                - Cardinality(Blocks(f, A) \cap Blocks(f, B))
    BY <1>2, FS_Union, Zenon
<1>6. Cardinality(Blocks(f, A \union B))
          = Cardinality(Blocks(f, A)) + Cardinality(Blocks(f, B)) - 0
    BY <1>3, <1>4, <1>5, FS_EmptySet, Zenon
<1> QED BY <1>2, <1>6

(* ... in particular an element and the rest. *)
LEMMA BlocksStep ==
    ASSUME NEW S, IsFiniteSet(S), NEW f, \A x \in S : f[x] \in Nat,
           NEW T \in SUBSET S, NEW x \in T
    PROVE  Cardinality(Blocks(f, T)) = f[x] + Cardinality(Blocks(f, T \ {x}))
<1>1. T = {x} \union (T \ {x}) /\ {x} \cap (T \ {x}) = {}
    OBVIOUS
<1>2. {x} \in SUBSET S /\ T \ {x} \in SUBSET S
    OBVIOUS
<1>3. Cardinality(Blocks(f, {x} \union (T \ {x})))
          = Cardinality(Blocks(f, {x})) + Cardinality(Blocks(f, T \ {x}))
    BY <1>1, <1>2, BlocksUnion
<1>4. Blocks(f, {x}) = {x} \X (1..f[x])
    BY DEF Blocks, BlockOf
<1>5. Cardinality(Blocks(f, {x})) = f[x]
    BY <1>4, BlockSize
<1> QED BY <1>1, <1>3, <1>5, Zenon

(* A function that sums by taking out one element at a time.                *)
Sums(f, S, g) ==
    g = [T \in SUBSET S |-> IF T = {} THEN 0
                            ELSE f[CHOOSE x \in T : TRUE] + g[T \ {CHOOSE x \in T : TRUE}]]

(* There is one: the number of units. *)
LEMMA SumsExists ==
    ASSUME NEW S, IsFiniteSet(S), NEW f, \A x \in S : f[x] \in Nat
    PROVE  Sums(f, S, [T \in SUBSET S |-> Cardinality(Blocks(f, T))])
<1> DEFINE g == [T \in SUBSET S |-> Cardinality(Blocks(f, T))]
           pick(T) == CHOOSE x \in T : TRUE
<1>1. ASSUME NEW T \in SUBSET S, T = {} PROVE g[T] = 0
    <2>1. Blocks(f, T) = {}
        BY <1>1 DEF Blocks
    <2> QED BY <2>1, FS_EmptySet
<1>2. ASSUME NEW T \in SUBSET S, T # {}
      PROVE  g[T] = f[pick(T)] + g[T \ {pick(T)}]
    <2>1. pick(T) \in T
        BY <1>2
    <2> HIDE DEF pick
    <2>2. T \ {pick(T)} \in SUBSET S
        OBVIOUS
    <2> QED BY <2>1, <2>2, BlocksStep
<1> HIDE DEF pick
<1>3. g = [T \in SUBSET S |-> IF T = {} THEN 0 ELSE f[pick(T)] + g[T \ {pick(T)}]]
    <2>1. \A T \in SUBSET S : g[T] = IF T = {} THEN 0 ELSE f[pick(T)] + g[T \ {pick(T)}]
        <3> HIDE DEF g
        <3> QED BY <1>1, <1>2
    <2>2. g = [T \in SUBSET S |-> g[T]]
        OBVIOUS
    <2> HIDE DEF g
    <2> QED BY <2>1, <2>2
<1> QED BY <1>3, Zenon DEF Sums, pick

(* There is no other: a smallest set on which one differed would not be     *)
(* empty, and without the element chosen from it would be smaller still.    *)
LEMMA SumsUnique ==
    ASSUME NEW S, IsFiniteSet(S), NEW f, \A x \in S : f[x] \in Nat,
           NEW g, Sums(f, S, g)
    PROVE  g[S] = Cardinality(Blocks(f, S))
<1> DEFINE Wrong == {T \in SUBSET S : g[T] # Cardinality(Blocks(f, T))}
           R == StrictSubsetOrdering(S)
           pick(T) == CHOOSE x \in T : TRUE
<1>1. ASSUME NEW T \in SUBSET S
      PROVE  g[T] = IF T = {} THEN 0 ELSE f[pick(T)] + g[T \ {pick(T)}]
    BY DEF Sums
<1>2. IsWellFoundedOn(R, SUBSET S)
    BY FS_StrictSubsetOrderingWellFounded, FS_FiniteSubsetsOfFinite
<1>3. SUFFICES ASSUME Wrong # {} PROVE FALSE
    OBVIOUS
<1>4. PICK T \in Wrong : \A U \in Wrong : <<U, T>> \notin R
    <2>1. Wrong \subseteq SUBSET S
        OBVIOUS
    <2> HIDE DEF Wrong, R
    <2> QED BY <1>2, <1>3, <2>1, WFMin
<1>5. T # {}
    <2>1. ASSUME T = {} PROVE Blocks(f, T) = {}
        BY <2>1 DEF Blocks
    <2> QED BY <1>1, <2>1, FS_EmptySet
<1>6. pick(T) \in T
    BY <1>5
<1> HIDE DEF pick
<1>7. T \ {pick(T)} \in SUBSET S /\ <<T \ {pick(T)}, T>> \in R
    BY <1>6 DEF StrictSubsetOrdering
<1>8. g[T \ {pick(T)}] = Cardinality(Blocks(f, T \ {pick(T)}))
    BY <1>4, <1>7
<1>9. Cardinality(Blocks(f, T)) = f[pick(T)] + Cardinality(Blocks(f, T \ {pick(T)}))
    BY <1>6, BlocksStep
<1> QED BY <1>1, <1>5, <1>8, <1>9

LEMMA SumIsBlocks ==
    ASSUME NEW S, IsFiniteSet(S), NEW f, \A x \in S : f[x] \in Nat
    PROVE  SumFunctionOnSet(f, S) = Cardinality(Blocks(f, S))
<1> DEFINE iter == CHOOSE g : Sums(f, S, g)
<1>1. Sums(f, S, iter)
    BY SumsExists, Zenon
<1>2. SumFunctionOnSet(f, S) = iter[S]
    BY Zenon DEF SumFunctionOnSet, FoldFunctionOnSet, MapThenFoldSet, Sums
<1> HIDE DEF iter
<1> QED BY <1>1, <1>2, SumsUnique
(* What follows for sums: disjoint sets, one element more, none at all ...  *)
LEMMA SumOfUnion ==
    ASSUME NEW S, IsFiniteSet(S), NEW f, \A x \in S : f[x] \in Nat,
           NEW A \in SUBSET S, NEW B \in SUBSET S, A \cap B = {}
    PROVE  SumFunctionOnSet(f, A \union B)
               = SumFunctionOnSet(f, A) + SumFunctionOnSet(f, B)
<1>1. IsFiniteSet(A) /\ IsFiniteSet(B) /\ IsFiniteSet(A \union B)
    BY FS_Subset
<1> QED BY <1>1, SumIsBlocks, BlocksUnion

LEMMA SumType ==
    ASSUME NEW S, IsFiniteSet(S), NEW f, \A x \in S : f[x] \in Nat
    PROVE  SumFunctionOnSet(f, S) \in Nat
BY SumIsBlocks, BlocksFinite

LEMMA SumStep ==
    ASSUME NEW S, IsFiniteSet(S), NEW f, \A x \in S : f[x] \in Nat, NEW x \in S
    PROVE  SumFunctionOnSet(f, S) = f[x] + SumFunctionOnSet(f, S \ {x})
<1>1. IsFiniteSet(S \ {x})
    BY FS_Subset
<1> QED BY <1>1, SumIsBlocks, BlocksStep

LEMMA SumEmpty == ASSUME NEW f PROVE SumFunctionOnSet(f, {}) = 0
<1>1. Blocks(f, {}) = {}
    BY DEF Blocks
<1> QED BY <1>1, SumIsBlocks, FS_EmptySet

(* ... the same summands under other names ... *)
LEMMA SumReindexed ==
    ASSUME NEW S, IsFiniteSet(S), NEW f, \A x \in S : f[x] \in Nat,
           NEW T, NEW w, NEW b \in Bijection(S, T), \A x \in S : w[b[x]] = f[x]
    PROVE  SumFunctionOnSet(w, T) = SumFunctionOnSet(f, S)
<1> DEFINE h == [p \in Blocks(f, S) |-> <<b[p[1]], p[2]>>]
<1>1. \A p : p \in Blocks(f, S) <=> p[1] \in S /\ p[2] \in 1..f[p[1]] /\ p = <<p[1], p[2]>>
    BY DEF Blocks, BlockOf
<1>2. \A p : p \in Blocks(w, T) <=> p[1] \in T /\ p[2] \in 1..w[p[1]] /\ p = <<p[1], p[2]>>
    BY DEF Blocks, BlockOf
<1>3. /\ b \in [S -> T]
      /\ \A x, y \in S : b[x] = b[y] => x = y
      /\ \A t \in T : \E x \in S : b[x] = t
    BY DEF Bijection, Injection, Surjection, IsInjective
<1>4. h \in Bijection(Blocks(f, S), Blocks(w, T))
    <2>1. \A p \in Blocks(f, S) : h[p] \in Blocks(w, T)
        BY <1>1, <1>2, <1>3
    <2>2. \A p, q \in Blocks(f, S) : h[p] = h[q] => p = q
        BY <1>1, <1>3
    <2>3. ASSUME NEW q \in Blocks(w, T) PROVE \E p \in Blocks(f, S) : h[p] = q
        <3>1. PICK x \in S : b[x] = q[1]
            BY <1>2, <1>3
        <3>2. <<x, q[2]>> \in Blocks(f, S)
            BY <1>1, <1>2, <3>1
        <3>3. h[<<x, q[2]>>] = q
            BY <1>2, <3>1, <3>2
        <3> QED BY <3>2, <3>3
    <2>4. h \in [Blocks(f, S) -> Blocks(w, T)]
        BY <2>1
    <2> HIDE DEF h
    <2> QED BY <2>2, <2>3, <2>4 DEF Bijection, Injection, Surjection, IsInjective
<1>5. Cardinality(Blocks(f, S)) = Cardinality(Blocks(w, T))
    <2>1. IsFiniteSet(Blocks(f, S))
        BY BlocksFinite
    <2> HIDE DEF h
    <2>2. ExistsBijection(Blocks(f, S), Blocks(w, T))
        BY <1>4 DEF ExistsBijection
    <2> QED BY <2>1, <2>2, FS_Bijection
<1>6. IsFiniteSet(T) /\ \A t \in T : w[t] \in Nat
    <2>1. b \in Surjection(S, T)
        BY DEF Bijection
    <2> QED BY <1>3, <2>1, FS_Surjection
<1> QED BY <1>5, <1>6, SumIsBlocks

(* ... and a sum of the sums of disjoint groups, however many there are.    *)
LEMMA SumByGroup ==
    ASSUME NEW S, IsFiniteSet(S), NEW f, \A x \in S : f[x] \in Nat,
           NEW K, IsFiniteSet(K), NEW G \in [K -> SUBSET S],
           \A j, k \in K : j # k => G[j] \cap G[k] = {}
    PROVE  SumFunctionOnSet([k \in K |-> SumFunctionOnSet(f, G[k])], K)
               = SumFunctionOnSet(f, UNION {G[k] : k \in K})
<1> DEFINE h == [k \in K |-> SumFunctionOnSet(f, G[k])]
           All(J) == UNION {G[k] : k \in J}
           Wrong == {J \in SUBSET K :
                        SumFunctionOnSet(h, J) # SumFunctionOnSet(f, All(J))}
           R == StrictSubsetOrdering(K)
<1>1. \A k \in K : h[k] = SumFunctionOnSet(f, G[k]) /\ h[k] \in Nat
    <2>1. ASSUME NEW k \in K PROVE SumFunctionOnSet(f, G[k]) \in Nat
        <3>1. IsFiniteSet(G[k]) /\ G[k] \subseteq S
            BY FS_Subset
        <3> QED BY <3>1, SumType
    <2> QED BY <2>1
<1> HIDE DEF h
<1>2. IsWellFoundedOn(R, SUBSET K)
    BY FS_StrictSubsetOrderingWellFounded, FS_FiniteSubsetsOfFinite
<1>3. SUFFICES ASSUME Wrong # {} PROVE FALSE
    BY DEF h
<1>4. PICK J \in Wrong : \A U \in Wrong : <<U, J>> \notin R
    <2>1. Wrong \subseteq SUBSET K
        OBVIOUS
    <2> HIDE DEF Wrong, R
    <2> QED BY <1>2, <1>3, <2>1, WFMin
<1>5. J # {}
    <2>1. ASSUME J = {} PROVE All(J) = {}
        BY <2>1
    <2> QED BY <2>1, SumEmpty
<1>6. PICK k \in J : TRUE
    BY <1>5
<1>7. J \ {k} \in SUBSET K /\ <<J \ {k}, J>> \in R
    BY <1>6 DEF StrictSubsetOrdering
<1>8. SumFunctionOnSet(h, J \ {k}) = SumFunctionOnSet(f, All(J \ {k}))
    BY <1>4, <1>7
<1>9. SumFunctionOnSet(h, J) = h[k] + SumFunctionOnSet(h, J \ {k})
    <2>1. IsFiniteSet(J) /\ \A x \in J : h[x] \in Nat
        BY <1>1, FS_Subset
    <2> QED BY <2>1, SumStep
<1>10. SumFunctionOnSet(f, All(J))
           = SumFunctionOnSet(f, G[k]) + SumFunctionOnSet(f, All(J \ {k}))
    <2> DEFINE rest == All(J \ {k})
    <2>1. /\ All(J) = G[k] \union rest
          /\ G[k] \cap rest = {}
          /\ G[k] \in SUBSET S /\ rest \in SUBSET S
        BY <1>6
    <2> HIDE DEF rest
    <2>2. SumFunctionOnSet(f, G[k] \union rest)
              = SumFunctionOnSet(f, G[k]) + SumFunctionOnSet(f, rest)
        BY <2>1, SumOfUnion
    <2> QED BY <2>1, <2>2 DEF rest
<1> QED BY <1>1, <1>4, <1>8, <1>9, <1>10

-----------------------------------------------------------------------------
(* The suborders of an order, against the cart it was made from.            *)

LineOf(r, i) ==
    [listing |-> Cart(r)[i].listing, item |-> i, quantity |-> Cart(r)[i].quantity,
     price |-> UnitPrice(r, i)]

(* Grouping by vendor neither drops an item nor lists one twice.            *)
LEMMA LinesAreItems ==
    ASSUME MarketTypeOK, NEW r \in Requests, InsertOrder(r)
    PROVE  LinesOf(order'[r]) = {LineOf(r, i) : i \in Items(r)}
<1>1. /\ DOMAIN order'[r].subs = CartVendors(r)
      /\ \A v \in CartVendors(r) : order'[r].subs[v].lines = SuborderLines(r, v)
    BY InsertedOrder, LinesOfSuborder
<1>2. \A v : SuborderLines(r, v) = {LineOf(r, i) : i \in GroupOf(r, v)}
    BY DEF SuborderLines, LineOf
<1>3. \A i \in Items(r) :
          /\ VendorOf[Cart(r)[i].listing] \in CartVendors(r)
          /\ i \in GroupOf(r, VendorOf[Cart(r)[i].listing])
    BY DEF CartVendors, CartListings, GroupOf
<1>4. \A v : GroupOf(r, v) \subseteq Items(r)
    BY DEF GroupOf
<1> HIDE DEF LineOf
<1> QED BY <1>1, <1>2, <1>3, <1>4 DEF LinesOf

LEMMA AsManyLines ==
    ASSUME MarketTypeOK, NEW r \in Requests, RunningOK(r), InsertOrder(r)
    PROVE  Cardinality(LinesOf(order'[r])) = Len(Cart(r))
<1> DEFINE n == Len(Cart(r))
           lines == {LineOf(r, i) : i \in Items(r)}
           f == [i \in Items(r) |-> LineOf(r, i)]
<1>1. n \in Nat /\ Items(r) = 1..n
    BY CartFacts DEF InsertOrder, Items
<1>2. f \in Bijection(1..n, lines)
    <2>1. \A i, j \in Items(r) : f[i] = f[j] => i = j
        BY DEF LineOf
    <2> HIDE DEF LineOf
    <2> QED BY <1>1, <2>1 DEF Bijection, Injection, Surjection, IsInjective
<1>3. IsFiniteSet(1..n) /\ Cardinality(1..n) = n
    <2> HIDE DEF n
    <2> QED BY <1>1, FS_Interval
<1>4. Cardinality(lines) = n
    <2> HIDE DEF f, lines, n
    <2>1. ExistsBijection(1..n, lines)
        BY <1>2 DEF ExistsBijection
    <2> QED BY <1>3, <2>1, FS_Bijection
<1> QED BY <1>4, LinesAreItems

LEMMA OrderMatchesCart ==
    ASSUME MarketInv, NEW r \in Requests, InsertOrder(r)
    PROVE  LinesMatchCart(r)'
<1>1. MarketTypeOK /\ RunningOK(r) /\ UNCHANGED command
    BY DEF MarketInv, RequestOK, InsertOrder
<1>2. Cart(r)' = Cart(r) /\ Items(r)' = Items(r)
    BY <1>1 DEF Cart, Items
<1>3. ASSUME NEW i \in Items(r)
      PROVE  LineOf(r, i) \in order'[r].subs[VendorOf[Cart(r)[i].listing]].lines
    <2> DEFINE v == VendorOf[Cart(r)[i].listing]
    <2>1. v \in CartVendors(r) /\ i \in GroupOf(r, v)
        BY <1>3 DEF CartVendors, CartListings, GroupOf
    <2>2. order'[r].subs[v].lines = SuborderLines(r, v)
        BY <1>1, <2>1, InsertedOrder, LinesOfSuborder
    <2> QED BY <2>1, <2>2 DEF SuborderLines, LineOf
<1>4. Cardinality(LinesOf(order'[r])) = Len(Cart(r))
    BY <1>1, AsManyLines
<1>5. \A i \in Items(r) :
          /\ LineOf(r, i).item = i
          /\ LineOf(r, i).listing = Cart(r)[i].listing
          /\ LineOf(r, i).quantity = Cart(r)[i].quantity
    BY DEF LineOf
<1>6. LinesOf(order[r])' = LinesOf(order'[r])
    BY DEF LinesOf
<1> HIDE DEF LineOf
<1> QED BY <1>2, <1>3, <1>4, <1>5, <1>6 DEF LinesMatchCart

LEMMA OrderIsFinal ==
    ASSUME MarketInv, [Next]_vars, NEW r \in Requests, order[r] # None
    PROVE  order'[r] = order[r] /\ command'[r] = command[r]
<1>1. MarketTypeOK /\ at[r] = "done"
    BY DEF MarketInv, RequestOK, OrderedOK
<1>2. order'[r] = order[r]
    BY <1>1, WhoOrders DEF InsertOrder
<1>3. command'[r] = command[r]
    <2>1. CASE UNCHANGED vars
        BY <2>1 DEF vars
    <2>2. ASSUME NEW x \in Requests, Handler(x) PROVE UNCHANGED command
        BY <2>2 DEF Handler, LookUpSlug, InsertVendor, VerifyVendorActive,
           InsertListing, VerifyOwner, UpdateListing, DelistListing, FetchListings,
           CheckVendors, InsertOrder
    <2>3. ASSUME NEW x \in Requests, NEW c \in Commands, Begin(x, c)
          PROVE  command'[r] = command[r]
        BY <1>1, <2>3 DEF Begin, MarketTypeOK
    <2>4. ASSUME NEW v \in Vendors, UpdateVendorStatus(v) PROVE UNCHANGED command
        BY <2>4 DEF UpdateVendorStatus
    <2> QED BY <2>1, <2>2, <2>3, <2>4 DEF Next
<1> QED BY <1>2, <1>3

(* What an item costs is a number, whatever prices were read.               *)
LEMMA ItemCosts ==
    ASSUME MarketInv, NEW r \in Requests, InsertOrder(r)
    PROVE  /\ IsFiniteSet(Items(r))
           /\ \A i \in Items(r) : ItemCost(r)[i] = UnitPrice(r, i) * Cart(r)[i].quantity
           /\ \A i \in Items(r) : ItemCost(r)[i] \in Nat
<1>1. RunningOK(r) /\ ReadRows(r) /\ at[r] = "insertOrder"
    BY DEF MarketInv, RequestOK, QuotedOK, InsertOrder
<1>2. Cart(r) \in Seq([listing : Listings, quantity : Nat])
    BY <1>1, CartFacts
<1>3. IsFiniteSet(Items(r))
    <2>1. Len(Cart(r)) \in Nat /\ Items(r) = 1..Len(Cart(r))
        BY <1>2 DEF Items
    <2> QED BY <2>1, FS_Interval
<1>4. \A i \in Items(r) : ItemCost(r)[i] = UnitPrice(r, i) * Cart(r)[i].quantity
    BY DEF ItemCost
<1>5. ASSUME NEW i \in Items(r)
      PROVE  UnitPrice(r, i) \in Nat /\ Cart(r)[i].quantity \in Nat
    <2>1. Cart(r)[i] \in [listing : Listings, quantity : Nat]
        BY <1>2, SeqElement DEF Items
    <2>2. Cart(r)[i].listing \in CartListings(r)
        BY DEF CartListings
    <2>3. UnitPrice(r, i) \in Prices
        BY <1>1, <2>2 DEF ReadRows, UnitPrice, Rows
    <2> QED BY <2>1, <2>3, MarketAssumption
<1> QED BY <1>3, <1>4, <1>5

(* Lines are worth what their items cost, and no two items share a line.    *)
LEMMA WorthOfItems ==
    ASSUME MarketInv, NEW r \in Requests, InsertOrder(r), NEW G \in SUBSET Items(r)
    PROVE  Worth({LineOf(r, i) : i \in G}) = SumFunctionOnSet(ItemCost(r), G)
<1> DEFINE lines == {LineOf(r, i) : i \in G}
           w == [line \in lines |-> line.price * line.quantity]
           b == [i \in G |-> LineOf(r, i)]
<1>1. IsFiniteSet(G) /\ \A i \in G : ItemCost(r)[i] \in Nat
    BY ItemCosts, FS_Subset
<1>2. b \in Bijection(G, lines)
    <2>1. \A i, j \in G : b[i] = b[j] => i = j
        BY DEF LineOf
    <2> HIDE DEF LineOf
    <2> QED BY <2>1 DEF Bijection, Injection, Surjection, IsInjective
<1>3. \A i \in G : w[b[i]] = ItemCost(r)[i]
    <2>1. \A i \in G : w[b[i]] = LineOf(r, i).price * LineOf(r, i).quantity
        <3> HIDE DEF LineOf
        <3> QED OBVIOUS
    <2>2. \A i : LineOf(r, i).price = UnitPrice(r, i)
                 /\ LineOf(r, i).quantity = Cart(r)[i].quantity
        BY DEF LineOf
    <2> HIDE DEF w, b
    <2> QED BY <2>1, <2>2, ItemCosts
<1>4. Worth(lines) = SumFunctionOnSet(w, lines)
    <2>1. DOMAIN w = lines
        OBVIOUS
    <2> QED BY <2>1, Zenon DEF Worth, SumFunction
<1> HIDE DEF w, b, lines
<1>5. SumFunctionOnSet(w, lines) = SumFunctionOnSet(ItemCost(r), G)
    BY <1>1, <1>2, <1>3, SumReindexed
<1> QED BY <1>4, <1>5 DEF lines

(* The total of an order is the cost of all items, by whatever vendor.      *)
LEMMA InsertedTotal ==
    ASSUME MarketInv, NEW r \in Requests, InsertOrder(r)
    PROVE  order'[r].total = SumFunctionOnSet(ItemCost(r), Items(r))
<1> DEFINE K == CartVendors(r)
           G == [v \in K |-> GroupOf(r, v)]
           subs == [v \in K |-> Suborder(r, v)]
           sums == [v \in K |-> SumFunctionOnSet(ItemCost(r), G[v])]
<1>1. order'[r].total = SumFunction([v \in K |-> subs[v].subtotal])
    <2> DEFINE total == SumFunction([v \in K |-> subs[v].subtotal])
    <2>1. order' = [order EXCEPT ![r] = [total |-> total, subs |-> subs]]
        BY Zenon DEF InsertOrder
    <2> HIDE DEF total, subs
    <2>2. order'[r].total = total
        BY <2>1 DEF MarketInv, MarketTypeOK
    <2> QED BY <2>2 DEF total
<1>2. [v \in K |-> subs[v].subtotal] = sums
    <2>1. \A v \in K : subs[v].subtotal = SumFunctionOnSet(ItemCost(r), G[v])
        <3>1. \A v : Suborder(r, v).subtotal = SumFunctionOnSet(ItemCost(r), GroupOf(r, v))
            BY Zenon DEF Suborder
        <3> QED BY <3>1
    <2> HIDE DEF subs, G
    <2> QED BY <2>1
<1>3. SumFunction(sums) = SumFunctionOnSet(sums, K)
    <2>1. DOMAIN sums = K
        OBVIOUS
    <2> QED BY <2>1, Zenon DEF SumFunction
<1>4. IsFiniteSet(K)
    <2> DEFINE vendor == [i \in Items(r) |-> VendorOf[Cart(r)[i].listing]]
    <2>1. vendor \in Surjection(Items(r), K)
        BY DEF Surjection, CartVendors, CartListings
    <2> QED BY <2>1, ItemCosts, FS_Surjection
<1>5. /\ G \in [K -> SUBSET Items(r)]
      /\ \A j, k \in K : j # k => G[j] \cap G[k] = {}
      /\ UNION {G[v] : v \in K} = Items(r)
    <2>1. \A i \in Items(r) : \A v : i \in GroupOf(r, v) <=> VendorOf[Cart(r)[i].listing] = v
        BY DEF GroupOf
    <2>2. \A v \in K : G[v] = GroupOf(r, v) /\ GroupOf(r, v) \subseteq Items(r)
        BY DEF GroupOf
    <2>3. \A i \in Items(r) : VendorOf[Cart(r)[i].listing] \in K
        BY DEF CartVendors, CartListings
    <2>4. G \in [K -> SUBSET Items(r)]
        BY <2>2
    <2> HIDE DEF G, K
    <2>5. ASSUME NEW i \in Items(r) PROVE i \in UNION {G[v] : v \in K}
        BY <2>1, <2>2, <2>3
    <2>6. UNION {G[v] : v \in K} \subseteq Items(r)
        BY <2>4
    <2> QED BY <2>1, <2>2, <2>4, <2>5, <2>6
<1>6. SumFunctionOnSet(sums, K) = SumFunctionOnSet(ItemCost(r), UNION {G[v] : v \in K})
    <2> HIDE DEF G, K
    <2> QED BY <1>4, <1>5, ItemCosts, SumByGroup
<1> HIDE DEF sums, subs, G, K
<1> QED BY <1>1, <1>2, <1>3, <1>5, <1>6

(* The sums of the rows InsertOrder writes.                                 *)
LEMMA OrderPartitionsCart ==
    ASSUME MarketInv, NEW r \in Requests, InsertOrder(r)
    PROVE  /\ \A v \in DOMAIN order'[r].subs :
                 order'[r].subs[v].subtotal = Worth(order'[r].subs[v].lines)
           /\ order'[r].total = Worth(LinesOf(order'[r]))
<1>1. MarketTypeOK
    BY DEF MarketInv
<1>2. ASSUME NEW v \in DOMAIN order'[r].subs
      PROVE  order'[r].subs[v].subtotal = Worth(order'[r].subs[v].lines)
    <2>1. order'[r].subs[v] = Suborder(r, v)
        BY <1>1, <1>2, InsertedOrder
    <2>2. Suborder(r, v).lines = {LineOf(r, i) : i \in GroupOf(r, v)}
        BY LinesOfSuborder DEF SuborderLines, LineOf
    <2>3. Suborder(r, v).subtotal = SumFunctionOnSet(ItemCost(r), GroupOf(r, v))
        BY Zenon DEF Suborder
    <2>4. GroupOf(r, v) \in SUBSET Items(r)
        BY DEF GroupOf
    <2>5. Worth({LineOf(r, i) : i \in GroupOf(r, v)})
              = SumFunctionOnSet(ItemCost(r), GroupOf(r, v))
        BY <2>4, WorthOfItems
    <2> QED BY <2>1, <2>2, <2>3, <2>5, Zenon
<1>3. order'[r].total = Worth(LinesOf(order'[r]))
    <2>1. LinesOf(order'[r]) = {LineOf(r, i) : i \in Items(r)}
        BY <1>1, LinesAreItems
    <2>2. Items(r) \in SUBSET Items(r)
        OBVIOUS
    <2>3. Worth({LineOf(r, i) : i \in Items(r)}) = SumFunctionOnSet(ItemCost(r), Items(r))
        BY <2>2, WorthOfItems
    <2> QED BY <2>1, <2>3, InsertedTotal, Zenon
<1> QED BY <1>2, <1>3

(* The suborders partition the cart: every item, also the second of one     *)
(* listing, is a line of its vendor's suborder and of no other; a suborder  *)
(* is charged what its lines are worth and the order what all of them are,  *)
(* for carts of any length and with any number of vendors.                  *)
THEOREM MarketPartitionsCart == Spec => []SubordersPartitionCart
<1> DEFINE Whole(r) ==
        /\ LinesMatchCart(r)
        /\ \A v \in DOMAIN order[r].subs :
              order[r].subs[v].subtotal = Worth(order[r].subs[v].lines)
        /\ order[r].total = Worth(LinesOf(order[r]))
<1>1. SubordersPartitionCart <=> \A r \in Requests : order[r] # None => Whole(r)
    BY DEF SubordersPartitionCart
<1>2. Init => SubordersPartitionCart
    BY <1>1 DEF Init
<1>3. MarketInv /\ SubordersPartitionCart /\ [Next]_vars => SubordersPartitionCart'
    <2> SUFFICES ASSUME MarketInv, SubordersPartitionCart, [Next]_vars,
                        NEW r \in Requests, order'[r] # None
                 PROVE  Whole(r)'
        BY DEF SubordersPartitionCart
    <2>1. CASE order[r] = None
        <3>1. InsertOrder(r)
            BY <2>1, WhoOrders DEF MarketInv
        <3>2. /\ \A v \in DOMAIN order'[r].subs :
                    order'[r].subs[v].subtotal = Worth(order'[r].subs[v].lines)
              /\ order'[r].total = Worth(LinesOf(order'[r]))
            BY <3>1, OrderPartitionsCart
        <3>3. LinesMatchCart(r)'
            BY <3>1, OrderMatchesCart
        <3>4. LinesOf(order[r])' = LinesOf(order'[r])
            BY DEF LinesOf
        <3> QED BY <3>2, <3>3, <3>4 DEF Worth
    <2>2. CASE order[r] # None
        <3>1. order'[r] = order[r] /\ command'[r] = command[r] /\ Whole(r)
            BY <1>1, <2>2, OrderIsFinal
        <3>2. Cart(r)' = Cart(r) /\ Items(r)' = Items(r)
            BY <3>1 DEF Cart, Items
        <3>3. LinesOf(order[r])' = LinesOf(order[r])
            BY <3>1 DEF LinesOf
        <3>4. LinesMatchCart(r)'
            BY <3>1, <3>2, <3>3 DEF LinesMatchCart
        <3> QED BY <3>1, <3>3, <3>4 DEF Worth
    <2> QED BY <2>1, <2>2
<1> QED BY <1>2, <1>3, MarketInvariant, PTL DEF Spec
=============================================================================
