--------------------------- MODULE OutboxProjector ---------------------------
(***************************************************************************)
(* The outbox and the projector that drains it into catalog_listings_view. *)
(*                                                                         *)
(* The triggers of migration.sql append an event in the transaction that   *)
(* changes a listing or its inventory.  The event's id is drawn when the   *)
(* statement runs; event and row become visible together, when the         *)
(* transaction commits, and until then the row is locked.  So an event may *)
(* appear after one with a higher id.                                      *)
(*                                                                         *)
(* OutboxProjectorService polls a batch of unprocessed events              *)
(* and applies them one by one; each of its database calls is one step,    *)
(* and other processes run between any two.  The row locks of the polling  *)
(* query are gone when the query returns: it runs outside a transaction.   *)
(*                                                                         *)
(* A listing's title, price and status are one revision; its stock is the  *)
(* available quantity.  An event's id is its position in the outbox.       *)
(***************************************************************************)
EXTENDS Integers, Sequences, FiniteSets

CONSTANTS
    Listings,      \* listing ids
    Categories,    \* category ids
    Revisions,     \* the contents a listing may have
    Stocks,        \* the available quantities a listing may have
    Statuses,      \* the vendor statuses an administrator sets
    Projectors,    \* the processes that run the projector
    BatchSize,     \* OUTBOX_BATCH_SIZE
    MaxAttempts,   \* OUTBOX_MAX_ATTEMPTS
    FailPoints,    \* the phases in which a database call may throw
    CrashPoints,   \* the phases in which a projector process may stop
    None,          \* no row, nothing read
    MaxOpen,       \* bound of the model: the updates that are open at once
    MaxEvents      \* bound of the model: no source write beyond this many events

ASSUME ProjectorAssumption ==
    /\ Stocks \subseteq Nat
    /\ "ACTIVE" \in Statuses
    /\ BatchSize \in Nat \ {0}
    /\ MaxAttempts \in Nat \ {0}
    /\ FailPoints \subseteq {"vendor", "stock", "write", "mark"}
    /\ CrashPoints \subseteq {"vendor", "stock", "write", "mark", "record", "invalidate"}
    /\ {MaxOpen, MaxEvents} \subseteq Nat
    /\ None \notin Stocks /\ None \notin [cat : Categories, rev : Revisions]
    /\ None \notin [cat : Categories, rev : Revisions, vendor : Statuses,
                     avail : Nat, synced : Nat]

VARIABLES
    product,     \* product_listings: category and revision of each listing
    stock,       \* inventory: available quantity of each listing
    vendor,      \* vendors.status of each listing's vendor
    changed,     \* history: the last id drawn when that status was set
    outbox,      \* outbox_events, in id order
    view,        \* catalog_listings_view
    phase,       \* the call each projector makes next
    batch,       \* the events of its batch not yet handled
    readVendor,  \* the vendor status it read for the event at hand
    readStock    \* the available quantity it read for the event at hand

sourceVars == <<product, stock, vendor, changed>>
localVars == <<phase, batch, readVendor, readStock>>
vars == <<sourceVars, outbox, view, localVars>>

Init ==
    /\ product = [l \in Listings |-> None]
    /\ stock = [l \in Listings |-> None]
    /\ vendor = [l \in Listings |-> "ACTIVE"]
    /\ changed = [l \in Listings |-> 0]
    /\ outbox = <<>>
    /\ view = [l \in Listings |-> None]
    /\ phase = [p \in Projectors |-> "idle"]
    /\ batch = [p \in Projectors |-> {}]
    /\ readVendor = [p \in Projectors |-> None]
    /\ readStock = [p \in Projectors |-> 0]

-----------------------------------------------------------------------------
(* The triggers, and the writers of the source tables. *)

Event(kind, l, op, payload, open) ==
    [kind |-> kind, listing |-> l, op |-> op, payload |-> payload,
     open |-> open, processed |-> FALSE, attempts |-> 0]

ListingEvent(l, op, row, open) == Event("product_listing", l, op, row, open)
InventoryEvent(l, op, n, open) == Event("inventory", l, op, n, open)

Emit(events) ==
    /\ Len(outbox) + Len(events) <= MaxEvents
    /\ outbox' = outbox \o events

OpenEvents == {e \in DOMAIN outbox : outbox[e].open}

Locked(kind, l) ==
    \E e \in OpenEvents : outbox[e].kind = kind /\ outbox[e].listing = l

(* Listing and inventory row are created in one transaction. *)
CreateListing(l, c, r, n) ==
    /\ product[l] = None
    /\ \A e \in DOMAIN outbox : outbox[e].listing # l    \* ids are never reused
    /\ LET row == [cat |-> c, rev |-> r] IN
          /\ product' = [product EXCEPT ![l] = row]
          /\ Emit(<<ListingEvent(l, "INSERT", row, FALSE),
                    InventoryEvent(l, "INSERT", n, FALSE)>>)
    /\ stock' = [stock EXCEPT ![l] = n]
    /\ UNCHANGED <<vendor, changed, view, localVars>>

(* An update of either row draws its event's id and holds the row ...       *)
UpdateListing(l, c, r) ==
    /\ product[l] # None
    /\ ~Locked("product_listing", l)
    /\ Cardinality(OpenEvents) < MaxOpen
    /\ Emit(<<ListingEvent(l, "UPDATE", [cat |-> c, rev |-> r], TRUE)>>)
    /\ UNCHANGED <<sourceVars, view, localVars>>

ChangeStock(l, n) ==
    /\ stock[l] # None
    /\ ~Locked("inventory", l)
    /\ Cardinality(OpenEvents) < MaxOpen
    /\ Emit(<<InventoryEvent(l, "UPDATE", n, TRUE)>>)
    /\ UNCHANGED <<sourceVars, view, localVars>>

(* ... until it commits. *)
Commit(e) ==
    LET ev == outbox[e] IN
    /\ ev.open
    /\ outbox' = [outbox EXCEPT ![e].open = FALSE]
    /\ \/ /\ ev.kind = "product_listing"
          /\ product' = [product EXCEPT ![ev.listing] = ev.payload]
          /\ UNCHANGED stock
       \/ /\ ev.kind = "inventory"
          /\ stock' = [stock EXCEPT ![ev.listing] = ev.payload]
          /\ UNCHANGED product
    /\ UNCHANGED <<vendor, changed, view, localVars>>

(* An operator deletes a listing; its inventory row goes with it            *)
(* (ON DELETE CASCADE), and either table's trigger may fire first.          *)
DeleteListing(l) ==
    /\ product[l] # None
    /\ ~Locked("product_listing", l) /\ ~Locked("inventory", l)
    /\ product' = [product EXCEPT ![l] = None]
    /\ stock' = [stock EXCEPT ![l] = None]
    /\ LET ofStock == InventoryEvent(l, "DELETE", stock[l], FALSE)
           ofListing == ListingEvent(l, "DELETE", product[l], FALSE)
       IN  Emit(<<ofStock, ofListing>>) \/ Emit(<<ofListing, ofStock>>)
    /\ UNCHANGED <<vendor, changed, view, localVars>>

(* vendors has no trigger: no event tells of a suspension. *)
UpdateVendorStatus(l, st) ==
    /\ vendor[l] # st
    /\ vendor' = [vendor EXCEPT ![l] = st]
    /\ changed' = [changed EXCEPT ![l] = Len(outbox)]
    /\ UNCHANGED <<product, stock, outbox, view, localVars>>

-----------------------------------------------------------------------------
(* processBatch: isProcessing is phase # "idle". *)

Greatest(S) == CHOOSE e \in S : \A f \in S : f <= e
Least(S) == CHOOSE e \in S : \A f \in S : e <= f

(* The query's ORDER BY id LIMIT.  Three variants: the query forgets the    *)
(* attempts, is in descending order, or goes on from a cursor, the highest  *)
(* id processed, as a log reader would.                                     *)
FirstFew(S, n) == {e \in S : Cardinality({f \in S : f < e}) < n}
LastFew(S, n) == {e \in S : Cardinality({f \in S : f > e}) < n}

PendingUncapped(e) == ~outbox[e].open /\ ~outbox[e].processed
Pending(e) ==
    ~outbox[e].open /\ ~outbox[e].processed /\ outbox[e].attempts < MaxAttempts

PollNewestFirst == LastFew({e \in DOMAIN outbox : Pending(e)}, BatchSize)
PollPastCursor ==
    FirstFew({e \in DOMAIN outbox : /\ Pending(e)
                                    /\ \A f \in DOMAIN outbox :
                                          outbox[f].processed => f < e}, BatchSize)
Poll == FirstFew({e \in DOMAIN outbox : Pending(e)}, BatchSize)

(* The first call for event e, and the step to the next event.              *)
FirstCall(e) ==
    IF outbox[e].kind = "product_listing" /\ outbox[e].op # "DELETE"
    THEN "vendor" ELSE "write"

TakeUp(p, S) ==
    /\ batch' = [batch EXCEPT ![p] = S]
    /\ phase' = [phase EXCEPT ![p] = IF S = {} THEN "idle" ELSE FirstCall(Least(S))]
    /\ readVendor' = [readVendor EXCEPT ![p] = None]
    /\ readStock' = [readStock EXCEPT ![p] = 0]

Current(p) == Least(batch[p])
Target(p) == outbox[Current(p)].listing

ProcessBatch(p) ==
    /\ phase[p] = "idle"
    /\ Poll # {}
    /\ TakeUp(p, Poll)
    /\ UNCHANGED <<sourceVars, outbox, view>>

(* A poll that selects no event returns at once. *)
EmptyPoll(p) ==
    /\ phase[p] = "idle"
    /\ Poll = {}
    /\ UNCHANGED vars

(* processEvent: the live reads of a listing event; the variant looks the   *)
(* vendor up only for a listing that is new to the view ...                 *)
StatusOfNew(l) == IF view[l] = None THEN vendor[l] ELSE view[l].vendor
StatusOf(l) == vendor[l]

ReadVendor(p) ==
    /\ phase[p] = "vendor"
    /\ readVendor' = [readVendor EXCEPT ![p] = StatusOf(Target(p))]
    /\ phase' = [phase EXCEPT ![p] = "stock"]
    /\ UNCHANGED <<sourceVars, outbox, view, batch, readStock>>

StockOrZero(l) == IF stock[l] = None THEN 0 ELSE stock[l]

ReadStock(p) ==
    /\ phase[p] = "stock"
    /\ readStock' = [readStock EXCEPT ![p] = StockOrZero(Target(p))]
    /\ phase' = [phase EXCEPT ![p] = "write"]
    /\ UNCHANGED <<sourceVars, outbox, view, batch, readVendor>>

(* ... the write of the view.  An inventory event of any operation updates  *)
(* the row if there is one; a listing event writes the row or deletes it.   *)
(* The variant forgets a column of the upsert.                              *)
ListingRowSameCategory(p, e, row) ==
    [cat |-> IF row = None THEN outbox[e].payload.cat ELSE row.cat,
     rev |-> outbox[e].payload.rev, vendor |-> readVendor[p],
     avail |-> readStock[p], synced |-> e]
ListingRow(p, e, row) ==
    [cat |-> outbox[e].payload.cat, rev |-> outbox[e].payload.rev,
     vendor |-> readVendor[p], avail |-> readStock[p], synced |-> e]

Applied(p, e, row) ==
    LET ev == outbox[e] IN
    IF ev.kind = "inventory"
    THEN IF row = None THEN None
         ELSE [row EXCEPT !.avail = ev.payload, !.synced = e]
    ELSE IF ev.op = "DELETE" THEN None
    ELSE ListingRow(p, e, row)

WriteView(p) ==
    /\ phase[p] = "write"
    /\ view' = [view EXCEPT ![Target(p)] = Applied(p, Current(p), @)]
    /\ phase' = [phase EXCEPT ![p] = "mark"]
    /\ UNCHANGED <<sourceVars, outbox, batch, readVendor, readStock>>

(* ... and the mark, after which the cache keys are deleted (CatalogCache;  *)
(* RedisService swallows its errors, so nothing more can throw).  The       *)
(* variant marks the batch at once.                                         *)
MarkedBatch(p) ==
    [e \in DOMAIN outbox |-> [outbox[e] EXCEPT !.processed = @ \/ e \in batch[p]]]
Marked(p) == [outbox EXCEPT ![Current(p)].processed = TRUE]

MarkProcessed(p) ==
    /\ phase[p] = "mark"
    /\ outbox' = Marked(p)
    /\ TakeUp(p, batch[p] \ {Current(p)})
    /\ UNCHANGED <<sourceVars, view>>

(* A call throws; the catch records the failure and the loop goes on.       *)
Throw(p) ==
    /\ phase[p] \in FailPoints
    /\ phase' = [phase EXCEPT ![p] = "record"]
    /\ UNCHANGED <<sourceVars, outbox, view, batch, readVendor, readStock>>

(* The variant marks the failed event as done.                              *)
FailedAndDone(e) == [outbox EXCEPT ![e].attempts = @ + 1, ![e].processed = TRUE]
Failed(e) == [outbox EXCEPT ![e].attempts = @ + 1]

RecordFailure(p) ==
    /\ phase[p] = "record"
    /\ outbox' = Failed(Current(p))
    /\ TakeUp(p, batch[p] \ {Current(p)})
    /\ UNCHANGED <<sourceVars, view>>

(* The process stops (or recording the failure throws, which ends the pass).*)
Crash(p) ==
    /\ phase[p] \in CrashPoints
    /\ TakeUp(p, {})
    /\ UNCHANGED <<sourceVars, outbox, view>>

-----------------------------------------------------------------------------
Source(l) ==
    \/ \E c \in Categories, r \in Revisions :
          \/ \E n \in Stocks : CreateListing(l, c, r, n)
          \/ UpdateListing(l, c, r)
    \/ \E n \in Stocks : ChangeStock(l, n)
    \/ DeleteListing(l)
    \/ \E st \in Statuses : UpdateVendorStatus(l, st)

Projector(p) ==
    \/ EmptyPoll(p) \/ ProcessBatch(p) \/ ReadVendor(p) \/ ReadStock(p) \/ WriteView(p)
    \/ MarkProcessed(p) \/ RecordFailure(p)

Next ==
    \/ \E l \in Listings : Source(l)
    \/ \E e \in DOMAIN outbox : Commit(e)
    \/ \E p \in Projectors : Projector(p) \/ Throw(p) \/ Crash(p)

Spec == Init /\ [][Next]_vars

(* The poll timer keeps firing and a running pass keeps running. *)
FairSpec == Spec /\ \A p \in Projectors : WF_vars(Projector(p))

-----------------------------------------------------------------------------
(* Every variable has its type. *)
TypeOK ==
    /\ product \in [Listings -> [cat : Categories, rev : Revisions] \union {None}]
    /\ stock \in [Listings -> Stocks \union {None}]
    /\ vendor \in [Listings -> Statuses]
    /\ changed \in [Listings -> 0..Len(outbox)]
    /\ \A e \in DOMAIN outbox :
          /\ outbox[e].listing \in Listings
          /\ {outbox[e].open, outbox[e].processed} \subseteq BOOLEAN
          /\ outbox[e].attempts \in 0..MaxAttempts
    /\ view \in [Listings -> [cat : Categories, rev : Revisions,
                              vendor : Statuses, avail : Nat,
                              synced : DOMAIN outbox] \union {None}]
    /\ phase \in [Projectors -> {"idle", "vendor", "stock", "write", "mark",
                                 "record"}]
    /\ batch \in [Projectors -> SUBSET DOMAIN outbox]
    /\ readVendor \in [Projectors -> Statuses \union {None}]
    /\ readStock \in [Projectors -> Nat]

(* The view row of a listing says what the source tables say of it.  Its    *)
(* vendor_status is no part of this: no event tells of a change.            *)
InSync(l) ==
    IF product[l] = None THEN view[l] = None
    ELSE /\ view[l] # None
         /\ view[l].cat = product[l].cat
         /\ view[l].rev = product[l].rev
         /\ view[l].avail = stock[l]

(* The events getStuckEvents reports. *)
Stuck(e) == ~outbox[e].processed /\ outbox[e].attempts >= MaxAttempts

Drained ==
    /\ \A p \in Projectors : phase[p] = "idle"
    /\ \A e \in DOMAIN outbox : ~Pending(e)

(* When the outbox is drained, a view row that differs from its source has  *)
(* a dead-lettered event an operator can see (ARCHITECTURE.md:110-112: the  *)
(* read side must never silently drift).                                    *)
NoSilentDrift ==
    Drained => \A l \in Listings :
        InSync(l) \/ \E e \in DOMAIN outbox : outbox[e].listing = l /\ Stuck(e)

(* Lag is read from the oldest unprocessed event, and there is none without *)
(* one.  The variant counts only the events a poll would still select.      *)
LagOfPolled == \E e \in DOMAIN outbox : Pending(e)
Lag == \E e \in DOMAIN outbox : ~outbox[e].open /\ ~outbox[e].processed

(* The gauge tells the truth: at any moment, also in the middle of a pass,  *)
(* no lag means that the read side shows what the write side committed      *)
(* (ARCHITECTURE.md:320-322, the read model's actual freshness signal).     *)
NoLagMeansInSync == ~Lag => \A l \in Listings : InSync(l)

(* Event f may be applied after the later event e of its listing: it failed *)
(* once while its batch went on, or the two belong to different tables,     *)
(* whose updates may overlap, and e was committed first.                    *)
Retried(f) == outbox[f].attempts > 0 /\ BatchSize > 1
OvertakenBy(f, e) ==
    Retried(f) \/ (outbox[f].kind # outbox[e].kind /\ MaxOpen > 1)

(* last_synced_outbox_id is to be the highest id a row reflects             *)
(* (migration.sql:145-147).  It goes back only where a retry or an overlap  *)
(* of updates let a later event overtake the one being applied: no stop, no *)
(* poll and no failure of another event takes a row back.                   *)
SyncGoesBackOnlyOvertaken ==
    [][\A l \in Listings :
          view[l] # None /\ view'[l] # None /\ view'[l].synced < view[l].synced
              => OvertakenBy(view'[l].synced, view[l].synced)]_vars

(* No event is lost: the row of a processed event reflects that event or a  *)
(* later one, or the row is not in the view at all.  The one exception is   *)
(* an older event that this one had overtaken.                              *)
AcknowledgedReflected ==
    \A e \in DOMAIN outbox :
        outbox[e].processed =>
            LET row == view[outbox[e].listing] IN
            row = None \/ e <= row.synced \/ OvertakenBy(row.synced, e)

(* What an event may have left in the columns of its table: its payload,    *)
(* or 0 once the inventory row is gone, as a listing event would read then. *)
Left(e) ==
    {outbox[e].payload}
      \union (IF outbox[e].kind = "inventory" /\ outbox[e].op = "DELETE" THEN {0} ELSE {})

Columns(kind, row) ==
    IF kind = "inventory" THEN row.avail ELSE [cat |-> row.cat, rev |-> row.rev]

(* In whatever order ids became visible, and whatever was retried: the row  *)
(* of a processed event shows what that event wrote or what a later event   *)
(* of the same table did, in the columns that come from that table.         *)
AcknowledgedShown ==
    \A e \in DOMAIN outbox :
        LET ev == outbox[e]
            row == view[ev.listing]
        IN  ev.processed /\ row # None =>
                \E f \in e..Len(outbox) :
                    /\ outbox[f].listing = ev.listing
                    /\ outbox[f].kind = ev.kind
                    /\ Columns(ev.kind, row) \in Left(f)

(* No listing that was deleted and whose deletion was applied comes back:   *)
(* once its last event is processed, a deleted listing is not in the view.  *)
DeletedStaysDeleted ==
    \A e \in DOMAIN outbox :
        /\ outbox[e].kind = "product_listing"
        /\ outbox[e].op = "DELETE"
        /\ outbox[e].processed
        => view[outbox[e].listing] = None

(* A vendor's status reaches the view with the next change of a listing:    *)
(* once an update drawn after the last suspension or reinstatement is       *)
(* processed, the row shows the vendor's present status.                    *)
VendorStatusCarried ==
    \A e \in DOMAIN outbox :
        LET l == outbox[e].listing IN
        /\ outbox[e].kind = "product_listing"
        /\ outbox[e].processed
        /\ e > changed[l]
        /\ view[l] # None
        => view[l].vendor = vendor[l]

(* Every committed event is applied or given up, whatever fails, and even   *)
(* when events with higher ids were processed before it appeared.           *)
EventsSettle ==
    \A e \in 1..MaxEvents :
        (e \in DOMAIN outbox /\ Pending(e)) ~> (e \in DOMAIN outbox /\ ~Pending(e))

(* A listing's committed writes, as its events tell them, and what the view *)
(* shows of it.                                                             *)
RowAfter(e) == IF outbox[e].op = "DELETE" THEN None ELSE outbox[e].payload
WriteOf(e) == [key |-> outbox[e].listing, number |-> e, content |-> RowAfter(e)]
CommittedWrites ==
    {e \in DOMAIN outbox : outbox[e].kind = "product_listing" /\ ~outbox[e].open}
AppliedWrites == {e \in CommittedWrites : outbox[e].processed}
ContentOf(l) == IF view[l] = None THEN None ELSE Columns("product_listing", view[l])

(* The view is a read model of product_listings: whatever throws or stops,  *)
(* it shows of a listing one of its writes, none that is older than one     *)
(* whose event was marked, and marks no event before it is shown.           *)
Follower == INSTANCE ReadModel WITH
    Keys <- Listings,
    Contents <- [cat : Categories, rev : Revisions],
    Numbers <- 1..MaxEvents,
    writes <- {WriteOf(e) : e \in CommittedWrites},
    acknowledged <- {WriteOf(e) : e \in AppliedWrites},
    shown <- [l \in Listings |-> ContentOf(l)]

ViewFollowsSource == Follower!ModelSpec
=============================================================================
