----------------------------- MODULE Marketplace -----------------------------
(***************************************************************************)
(* The commands of vendors, buyers and administrators before the saga:     *)
(* create a vendor and change its status, create, update and delist a      *)
(* listing, and place an order up to the transaction that inserts its rows.*)
(*                                                                         *)
(* A handler reads, decides and then writes in separate database calls, so *)
(* other requests run in between: every call is a step.  Prisma loads the  *)
(* vendors of the listings it found with a query of its own.  What becomes *)
(* of an order's suborders and of the stock is OrderSaga's.                *)
(***************************************************************************)
EXTENDS Naturals, Sequences, FiniteSets, FiniteSetsExt

CONSTANTS
    Vendors,        \* the vendors, by their slug
    Listings,
    Registered,     \* the vendors there are when the requests begin
    VendorOf,       \* the vendor a listing is created by; no command changes it
    Prices,         \* the values of price_cents
    Listed,         \* the listings there are when the requests begin
    ListPrice,      \* their price
    Carts,          \* the carts buyers send: sequences of [listing, quantity]
    Requests,       \* the requests of a run, each one command
    MaxVendors,     \* the most vendors of one order (10 in the code)
    None            \* no row, no value, not given

ASSUME MarketAssumption ==
    /\ Registered \subseteq Vendors
    /\ VendorOf \in [Listings -> Vendors]
    /\ Prices \subseteq Nat
    /\ Listed \subseteq Listings /\ ListPrice \in Prices
    /\ \A l \in Listed : VendorOf[l] \in Registered
    /\ Carts \subseteq Seq([listing : Listings, quantity : Nat])
    /\ MaxVendors \in Nat
    /\ None \notin {"ACTIVE", "SUSPENDED"}
    /\ None \notin [price : Prices, status : {"ACTIVE", "DELISTED"}]

VARIABLES
    status,      \* vendors: status, or None
    listing,     \* product_listings: price and status, or None
    order,       \* the order each request has inserted, or None
    command,     \* the command of each request
    at,          \* its next call
    seen,        \* the rows it has read
    blocked,     \* the vendors suspended ever since the request began
    quoted       \* the prices each listing has had since it began

(* blocked and quoted record what happened; no action depends on them.      *)
tables == <<status, listing, order>>
history == <<blocked, quoted>>
vars == <<tables, command, at, seen, history>>

Commands ==
    [op : {"create"}, listing : Listings, price : Prices]
      \union [op : {"update"}, listing : Listings, actor : Vendors,
              price : Prices \union {None}]
      \union [op : {"delist"}, listing : Listings, actor : Vendors]
      \union [op : {"place"}, cart : Carts]
      \union [op : {"register"}, vendor : Vendors]

PriceNow(l) == IF listing[l] = None THEN {} ELSE {listing[l].price}
SuspendedNow == {v \in Vendors : status[v] = "SUSPENDED"}

Init ==
    /\ status = [v \in Vendors |-> IF v \in Registered THEN "ACTIVE" ELSE None]
    /\ listing = [l \in Listings |->
                    IF l \in Listed THEN [price |-> ListPrice, status |-> "ACTIVE"]
                    ELSE None]
    /\ order = [r \in Requests |-> None]
    /\ command = [r \in Requests |-> None]
    /\ at = [r \in Requests |-> "unsent"]
    /\ seen = [r \in Requests |-> None]
    /\ blocked = [r \in Requests |-> {}]
    /\ quoted = [r \in Requests |-> [l \in Listings |-> {}]]

-----------------------------------------------------------------------------
Goto(r, call) == at' = [at EXCEPT ![r] = call]

(* Every listing's price after a change is quoted to the running requests.  *)
QuoteNewPrices ==
    quoted' = [r \in Requests |-> [l \in Listings |->
                  quoted[r][l] \union (IF listing'[l] = None THEN {}
                                       ELSE {listing'[l].price})]]

FirstCall(c) ==
    CASE c.op = "create" -> "vendor"
      [] c.op \in {"update", "delist"} -> "owner"
      [] c.op = "place" -> "listings"
      [] c.op = "register" -> "slug"

Begin(r, c) ==
    /\ at[r] = "unsent"
    /\ command' = [command EXCEPT ![r] = c]
    /\ Goto(r, FirstCall(c))
    /\ blocked' = [blocked EXCEPT ![r] = SuspendedNow]
    /\ quoted' = [quoted EXCEPT ![r] = [l \in Listings |-> PriceNow(l)]]
    /\ UNCHANGED <<tables, seen>>

(* createVendor: is the slug taken? ...                                     *)
LookUpSlug(r) ==
    /\ at[r] = "slug"
    /\ Goto(r, IF status[command[r].vendor] = None THEN "insertVendor" ELSE "done")
    /\ UNCHANGED <<tables, command, seen, history>>

(* ... and if not, the insert, which the UNIQUE slug refuses when another   *)
(* request was faster.  The variant is an upsert.                           *)
UpsertedStatus(old) == "ACTIVE"
InsertedStatus(old) == IF old = None THEN "ACTIVE" ELSE old

InsertVendor(r) ==
    /\ at[r] = "insertVendor"
    /\ status' = [status EXCEPT ![command[r].vendor] = InsertedStatus(@)]
    /\ Goto(r, "done")
    /\ UNCHANGED <<listing, order, command, seen, history>>

(* CreateListing: the vendor's status, then listing and inventory in one    *)
(* transaction.                                                             *)
VerifyVendorActive(r) ==
    /\ at[r] = "vendor"
    /\ Goto(r, IF status[VendorOf[command[r].listing]] = "ACTIVE"
               THEN "insertListing" ELSE "done")
    /\ UNCHANGED <<tables, command, seen, history>>

InsertListing(r) ==
    LET l == command[r].listing IN
    /\ at[r] = "insertListing"
    /\ IF listing[l] = None
       THEN listing' = [listing EXCEPT ![l] =
                           [price |-> command[r].price, status |-> "ACTIVE"]]
       ELSE UNCHANGED listing      \* UNIQUE (vendor_id, sku)
    /\ QuoteNewPrices
    /\ Goto(r, "done")
    /\ UNCHANGED <<status, order, command, seen, blocked>>

(* UpdateListing and DelistListing: existence and owner, then an update     *)
(* that is itself scoped by the owner and sets the given fields only.       *)
VerifyOwner(r) ==
    LET l == command[r].listing IN
    /\ at[r] = "owner"
    /\ seen' = [seen EXCEPT ![r] = listing[l]]
    /\ Goto(r, IF listing[l] # None /\ VendorOf[l] = command[r].actor
               THEN command[r].op ELSE "done")
    /\ UNCHANGED <<tables, command, history>>

Given(new, old) == IF new = None THEN old ELSE new

(* The variant saves the row the handler read, with its changes.            *)
SavedRow(r, row) == [seen[r] EXCEPT !.price = Given(command[r].price, @)]
UpdatedRow(r, row) == [row EXCEPT !.price = Given(command[r].price, @)]

UpdateListing(r) ==
    /\ at[r] = "update"
    /\ listing' = [listing EXCEPT ![command[r].listing] = UpdatedRow(r, @)]
    /\ QuoteNewPrices
    /\ Goto(r, "done")
    /\ UNCHANGED <<status, order, command, seen, blocked>>

DelistListing(r) ==
    /\ at[r] = "delist"
    /\ listing' = [listing EXCEPT ![command[r].listing].status = "DELISTED"]
    /\ QuoteNewPrices
    /\ Goto(r, "done")
    /\ UNCHANGED <<status, order, command, seen, blocked>>

-----------------------------------------------------------------------------
(* placeOrder, up to its first transaction. *)

Cart(r) == command[r].cart
Items(r) == DOMAIN Cart(r)
CartListings(r) == {Cart(r)[i].listing : i \in Items(r)}

ValidCart(c) == c # <<>> /\ \A i \in DOMAIN c : c[i].quantity > 0

(* The listings of the cart in any status: a delisted one can be ordered.   *)
FetchListings(r) ==
    /\ at[r] = "listings"
    /\ LET found == \A l \in CartListings(r) : listing[l] # None
           ok == ValidCart(Cart(r)) /\ found
       IN  /\ seen' = [seen EXCEPT ![r] =
                          IF ok THEN [l \in CartListings(r) |-> listing[l]] ELSE None]
           /\ Goto(r, IF ok THEN "vendors" ELSE "done")
    /\ UNCHANGED <<tables, command, history>>

CartVendors(r) == {VendorOf[l] : l \in CartListings(r)}

(* The variant looks at the vendor of the first item only.                  *)
FirstVendorActive(r) == status[VendorOf[Cart(r)[1].listing]] = "ACTIVE"
VendorsActive(r) == \A v \in CartVendors(r) : status[v] = "ACTIVE"

CheckVendors(r) ==
    /\ at[r] = "vendors"
    /\ Goto(r, IF VendorsActive(r) /\ Cardinality(CartVendors(r)) <= MaxVendors
               THEN "insertOrder" ELSE "done")
    /\ UNCHANGED <<tables, command, seen, history>>

(* The items of a vendor, in the cart's order; the variant keeps one item   *)
(* per listing, as a map from listing to item would.                        *)
LastItemOfEach(r, v) ==
    {i \in Items(r) : /\ VendorOf[Cart(r)[i].listing] = v
                      /\ \A j \in Items(r) :
                            Cart(r)[j].listing = Cart(r)[i].listing => j <= i}
GroupOf(r, v) == {i \in Items(r) : VendorOf[Cart(r)[i].listing] = v}

(* unit_price_cents; the variant takes one price for a vendor's group.      *)
GroupPrice(r, i) ==
    LET group == {j \in Items(r) : VendorOf[Cart(r)[j].listing]
                                     = VendorOf[Cart(r)[i].listing]}
    IN  seen[r][Cart(r)[Min(group)].listing].price
UnitPrice(r, i) == seen[r][Cart(r)[i].listing].price

SuborderLines(r, v) ==
    {[listing |-> Cart(r)[i].listing, item |-> i,
      quantity |-> Cart(r)[i].quantity, price |-> UnitPrice(r, i)] :
        i \in GroupOf(r, v)}

ItemCost(r) == [i \in Items(r) |-> UnitPrice(r, i) * Cart(r)[i].quantity]

Suborder(r, v) ==
    [lines |-> SuborderLines(r, v),
     subtotal |-> SumFunctionOnSet(ItemCost(r), GroupOf(r, v))]

InsertOrder(r) ==
    /\ at[r] = "insertOrder"
    /\ LET subs == [v \in CartVendors(r) |-> Suborder(r, v)]
           total == SumFunction([v \in CartVendors(r) |-> subs[v].subtotal])
       IN  order' = [order EXCEPT ![r] = [total |-> total, subs |-> subs]]
    /\ Goto(r, "done")
    /\ UNCHANGED <<status, listing, command, seen, history>>

UpdateVendorStatus(v) ==
    /\ status[v] # None
    /\ \E st \in {"ACTIVE", "SUSPENDED"} \ {status[v]} :
          status' = [status EXCEPT ![v] = st]
    /\ blocked' = [r \in Requests |->
                      {w \in blocked[r] : status'[w] = "SUSPENDED"}]
    /\ UNCHANGED <<listing, order, command, at, seen, quoted>>

Handler(r) ==
    \/ LookUpSlug(r) \/ InsertVendor(r)
    \/ VerifyVendorActive(r) \/ InsertListing(r)
    \/ VerifyOwner(r) \/ UpdateListing(r) \/ DelistListing(r)
    \/ FetchListings(r) \/ CheckVendors(r) \/ InsertOrder(r)

Next ==
    \/ \E r \in Requests : Handler(r) \/ \E c \in Commands : Begin(r, c)
    \/ \E v \in Vendors : UpdateVendorStatus(v)

Spec == Init /\ [][Next]_vars

-----------------------------------------------------------------------------
(* A suspension blocks new business: an order inserted by a request, or a   *)
(* listing it creates, involves no vendor that was suspended before the     *)
(* request began and has been ever since.                                   *)
SuspensionBlocksNewBusiness ==
    [][\A r \in Requests :
          /\ order[r] = None /\ order'[r] # None
                => DOMAIN order'[r].subs \cap blocked[r] = {}
          /\ at[r] = "insertListing" /\ listing' # listing /\ at'[r] = "done"
                => VendorOf[command[r].listing] \notin blocked[r]]_vars

(* Only an administrator ends a suspension: no request does, in particular  *)
(* none that registers the vendor once more while another request does.     *)
RequestsReinstateNobody ==
    [][\A v \in Vendors :
          status[v] = "SUSPENDED" /\ status'[v] # "SUSPENDED" => UNCHANGED at]_vars

(* A buyer pays a price that was asked: the unit price of every line is one *)
(* its listing had at some moment of the request that placed the order.     *)
PricesWereAsked ==
    \A r \in Requests : order[r] # None =>
        \A v \in DOMAIN order[r].subs : \A line \in order[r].subs[v].lines :
            line.price \in quoted[r][line.listing]

(* The lines of an order are the items of its cart.                         *)
LinesOf(o) == UNION {o.subs[v].lines : v \in DOMAIN o.subs}

LinesMatchCart(r) ==
    /\ \A i \in Items(r) :
          \E line \in order[r].subs[VendorOf[Cart(r)[i].listing]].lines :
              line.item = i /\ line.listing = Cart(r)[i].listing
                            /\ line.quantity = Cart(r)[i].quantity
    /\ Cardinality(LinesOf(order[r])) = Len(Cart(r))

Worth(lines) == SumFunction([line \in lines |-> line.price * line.quantity])

(* The suborders partition the cart: every item, also the second of one     *)
(* listing, is a line of exactly the suborder of its vendor with its        *)
(* quantity; a suborder's subtotal is what its own lines are worth, and the *)
(* order's total what all of them are worth.                                *)
SubordersPartitionCart ==
    \A r \in Requests : order[r] # None =>
        /\ LinesMatchCart(r)
        /\ \A v \in DOMAIN order[r].subs :
              order[r].subs[v].subtotal = Worth(order[r].subs[v].lines)
        /\ order[r].total = Worth(LinesOf(order[r]))

(* A delisted listing stays delisted: an update that began before does not  *)
(* write the old status back.                                               *)
DelistedStaysDelisted ==
    [][\A l \in Listings : listing[l] # None /\ listing[l].status = "DELISTED"
          => listing'[l] # None /\ listing'[l].status = "DELISTED"]_vars
=============================================================================
