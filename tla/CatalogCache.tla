----------------------------- MODULE CatalogCache -----------------------------
(***************************************************************************)
(* The whole read side: the projector of OutboxProjector, the Redis        *)
(* cache-aside layer in front of catalog_listings_view, and the queries.   *)
(*                                                                         *)
(* The projector, having marked an event, deletes the listing's key and    *)
(* then the pages of one category before it takes up the next event; only  *)
(* these steps are new here, all others are OutboxProjector's.  A query    *)
(* looks its key up, on a miss reads the view and stores what it read.     *)
(* Each await is a step.  Pages and price ranges of one category differ    *)
(* only in a suffix that the deletion's pattern covers, and no command     *)
(* changes a listing's vendor: one key stands for all pages of either.     *)
(***************************************************************************)
EXTENDS OutboxProjector

CONSTANTS
    ActiveRevisions,  \* the revisions whose status is ACTIVE
    Vendors,
    VendorOf,         \* the vendor of each listing
    Readers,          \* the queries that may be running
    Asked,            \* the keys they ask for
    TtlSeconds        \* CATALOG_CACHE_TTL_SECONDS

Key(kind, id) == [kind |-> kind, id |-> id]
ListingKeys == {Key("listing", l) : l \in Listings}
CategoryKeys == {Key("category", c) : c \in Categories}
VendorKeys == {Key("vendor", v) : v \in Vendors}
Keys == ListingKeys \union CategoryKeys \union VendorKeys

ASSUME CacheAssumption ==
    /\ ActiveRevisions \subseteq Revisions
    /\ VendorOf \in [Listings -> Vendors]
    /\ Asked \subseteq Keys
    /\ TtlSeconds \in Nat

VARIABLES
    stage,     \* the invalidation call each projector makes next
    owed,      \* the keys, or the patterns, it has still to delete
    cache,     \* Redis: the entry of each key
    up,        \* isConnected, and Redis answers
    rphase,    \* each query's next call
    rkey,      \* the key it computed
    held       \* what it has read from the view: its rows and their number

owedVars == <<stage, owed>>
readerVars == <<rphase, rkey, held>>
cacheVars == <<owedVars, cache, up, readerVars>>
allVars == <<vars, cacheVars>>

NothingRead == [rows |-> None, total |-> None]

CacheInit ==
    /\ Init
    /\ stage = [p \in Projectors |-> "none"]
    /\ owed = [p \in Projectors |-> {}]
    /\ cache = [k \in Keys |-> None]
    /\ up = TRUE
    /\ rphase = [r \in Readers |-> "idle"]
    /\ rkey = [r \in Readers |-> None]
    /\ held = [r \in Readers |-> NothingRead]

-----------------------------------------------------------------------------
(* The projector: its steps, and after a mark the invalidation. *)

Project(p) ==
    /\ stage[p] = "none"
    /\ \/ EmptyPoll(p) \/ ProcessBatch(p)
       \/ ReadVendor(p) \/ ReadStock(p) \/ WriteView(p) \/ RecordFailure(p)
    /\ UNCHANGED cacheVars

(* The listing whose key is deleted; the variant knows only product events. *)
ListingUnlessStock(ev) ==
    IF ev.kind = "inventory" THEN {} ELSE {Key("listing", ev.listing)}
ListingToInvalidate(ev) == {Key("listing", ev.listing)}

(* categoryIdToInvalidate: a product event's new category, none for its     *)
(* DELETE; for an inventory event the category of the row it updated.  The  *)
(* variant leaves out the lookup for inventory events.                      *)
CategoryOfProduct(ev) ==
    IF ev.kind = "inventory" \/ ev.op = "DELETE" THEN {}
    ELSE {Key("category", ev.payload.cat)}
CategoryToInvalidate(ev) ==
    IF view[ev.listing] = None THEN {}
    ELSE {Key("category", view[ev.listing].cat)}

MarkAndOwe(p) ==
    LET ev == outbox[Current(p)] IN
    /\ stage[p] = "none"
    /\ MarkProcessed(p)
    /\ stage' = [stage EXCEPT ![p] = "del"]
    /\ owed' = [owed EXCEPT ![p] = ListingToInvalidate(ev)
                                     \union CategoryToInvalidate(ev)]
    /\ UNCHANGED <<cache, up, readerVars>>

(* del does nothing, and throws nothing, when Redis cannot be reached.      *)
Without(keys) ==
    IF up THEN [k \in Keys |-> IF k \in keys THEN None ELSE cache[k]] ELSE cache

Proceed(p, keys, next) ==
    /\ owed' = [owed EXCEPT ![p] = keys]
    /\ stage' = [stage EXCEPT ![p] = IF keys = {} THEN "none" ELSE next]
    /\ UNCHANGED <<vars, up, readerVars>>

DelListing(p) ==
    /\ stage[p] = "del"
    /\ cache' = Without(owed[p] \cap ListingKeys)
    /\ Proceed(p, owed[p] \cap CategoryKeys, "keys")

(* delByPattern: KEYS, then DEL of the keys it returned. *)
MatchKeys(p) ==
    /\ stage[p] = "keys"
    /\ UNCHANGED cache
    /\ Proceed(p, {k \in owed[p] : up /\ cache[k] # None}, "delkeys")

DelMatched(p) ==
    /\ stage[p] = "delkeys"
    /\ cache' = Without(owed[p])
    /\ Proceed(p, {}, "none")

(* A stop, or a call that throws.  The deletions of a marked event are not  *)
(* made up after a stop.                                                    *)
Fault(p) ==
    \/ stage[p] = "none" /\ (Throw(p) \/ Crash(p)) /\ UNCHANGED cacheVars
    \/ /\ stage[p] # "none" /\ "invalidate" \in CrashPoints
       /\ TakeUp(p, {})
       /\ stage' = [stage EXCEPT ![p] = "none"]
       /\ owed' = [owed EXCEPT ![p] = {}]
       /\ UNCHANGED <<sourceVars, outbox, view, cache, up, readerVars>>

-----------------------------------------------------------------------------
(* The queries. *)

(* The rows the view answers with; browsing shows ACTIVE rows only.         *)
Active(l) == view[l] # None /\ view[l].rev \in ActiveRevisions

Shows(k) ==
    CASE k.kind = "listing" -> {k.id} \cap {l \in Listings : view[l] # None}
      [] k.kind = "category" -> {l \in Listings : Active(l) /\ view[l].cat = k.id}
      [] k.kind = "vendor" -> {l \in Listings : Active(l) /\ VendorOf[l] = k.id}

Content(k) == [rows |-> [l \in Shows(k) |-> view[l]], total |-> Cardinality(Shows(k))]

(* get: a hit answers the query and changes nothing.                        *)
Hit(r, k) ==
    /\ rphase[r] = "idle"
    /\ up /\ cache[k] # None
    /\ UNCHANGED allVars

Miss(r, k) ==
    /\ rphase[r] = "idle"
    /\ ~up \/ cache[k] = None
    /\ rphase' = [rphase EXCEPT ![r] = "read"]
    /\ rkey' = [rkey EXCEPT ![r] = k]
    /\ UNCHANGED <<vars, owedVars, cache, up, held>>

Return(r) ==
    /\ rphase' = [rphase EXCEPT ![r] = "idle"]
    /\ rkey' = [rkey EXCEPT ![r] = None]
    /\ held' = [held EXCEPT ![r] = NothingRead]

(* A listing that is not in the view is a 404 and is not cached.            *)
NotFound(r) ==
    /\ rphase[r] = "read"
    /\ rkey[r].kind = "listing" /\ Shows(rkey[r]) = {}
    /\ Return(r)
    /\ UNCHANGED <<vars, owedVars, cache, up>>

GetListing(r) ==
    /\ rphase[r] = "read"
    /\ rkey[r].kind = "listing" /\ Shows(rkey[r]) # {}
    /\ held' = [held EXCEPT ![r] = Content(rkey[r])]
    /\ rphase' = [rphase EXCEPT ![r] = "set"]
    /\ UNCHANGED <<vars, owedVars, cache, up, rkey>>

(* findMany and count of a page run side by side, outside a transaction.    *)
ReadPage(r, part) ==
    LET done == [held[r] EXCEPT ![part] = Content(rkey[r])[part]] IN
    /\ rphase[r] = "read"
    /\ rkey[r].kind # "listing"
    /\ held[r][part] = None
    /\ held' = [held EXCEPT ![r] = done]
    /\ rphase' = [rphase EXCEPT ![r] =
                    IF done.rows # None /\ done.total # None THEN "set" ELSE "read"]
    /\ UNCHANGED <<vars, owedVars, cache, up, rkey>>

(* set does nothing when Redis cannot be reached; the variant waits for it. *)
StoredWhenUp(r) == up /\ cache' = [cache EXCEPT ![rkey[r]] = held[r]]
Stored(r) ==
    cache' = IF up THEN [cache EXCEPT ![rkey[r]] = held[r]] ELSE cache

SetEntry(r) ==
    /\ rphase[r] = "set"
    /\ Stored(r)
    /\ Return(r)
    /\ UNCHANGED <<vars, owedVars, up>>

-----------------------------------------------------------------------------
(* Redis. *)

(* An entry has an expiry unless the configured TTL is 0 (set tests the     *)
(* number for truth).  The variant stores every entry without one.          *)
Immortal == FALSE
HasExpiry == TtlSeconds # 0

ExpireEntry(k) ==
    /\ HasExpiry
    /\ cache[k] # None
    /\ cache' = [cache EXCEPT ![k] = None]
    /\ UNCHANGED <<vars, owedVars, up, readerVars>>

(* Redis goes away, keeping or losing what it holds, and comes back.        *)
RedisDown ==
    /\ up
    /\ up' = FALSE
    /\ cache' = cache \/ cache' = [k \in Keys |-> None]
    /\ UNCHANGED <<vars, owedVars, readerVars>>

RedisUp ==
    /\ ~up
    /\ up' = TRUE
    /\ UNCHANGED <<vars, owedVars, cache, readerVars>>

-----------------------------------------------------------------------------
Invalidate(p) == DelListing(p) \/ MatchKeys(p) \/ DelMatched(p)

ProjectorRuns(p) == Project(p) \/ MarkAndOwe(p) \/ Invalidate(p)

Answering(r) ==
    \/ NotFound(r) \/ GetListing(r) \/ SetEntry(r)
    \/ \E part \in {"rows", "total"} : ReadPage(r, part)

Writers == (\E l \in Listings : Source(l)) \/ \E e \in DOMAIN outbox : Commit(e)

CacheNext ==
    \/ Writers /\ UNCHANGED cacheVars
    \/ \E p \in Projectors : ProjectorRuns(p) \/ Fault(p)
    \/ \E r \in Readers : Answering(r) \/ \E k \in Asked : Hit(r, k) \/ Miss(r, k)
    \/ \E k \in Asked : ExpireEntry(k)
    \/ RedisDown \/ RedisUp

CacheSpec == CacheInit /\ [][CacheNext]_allVars

(* Running code keeps running and time passes; Redis need never come back.  *)
CacheFairSpec ==
    /\ CacheSpec
    /\ \A p \in Projectors : WF_allVars(ProjectorRuns(p))
    /\ \A r \in Readers : WF_allVars(Answering(r))
    /\ \A k \in Asked : WF_allVars(ExpireEntry(k))

-----------------------------------------------------------------------------
Fresh(k) == cache[k] = None \/ cache[k] = Content(k)

(* A stale entry whose deletion is under way: the row it shows was written  *)
(* and its event is yet to be marked, or the key is among those still owed. *)
JustWritten(p, k) ==
    /\ phase[p] = "mark"
    /\ \/ k = Key("listing", Target(p))
       \/ view[Target(p)] # None /\ k = Key("category", view[Target(p)].cat)
Owes(p, k) == JustWritten(p, k) \/ (stage[p] # "none" /\ k \in owed[p])

FreshOrOwed(k) == Fresh(k) \/ \E p \in Projectors : Owes(p, k)
GoesStale(k) == FreshOrOwed(k) /\ ~FreshOrOwed(k)'

(* The steps by which a deletion is missed: a query stores what the view no *)
(* longer says, Redis is away when the projector deletes, the projector     *)
(* stops or a call of its throws before it has deleted.                     *)
LateFill(k) == \E r \in Readers : rkey[r] = k /\ held[r] # Content(k) /\ SetEntry(r)
LostDeletion(k) == ~up /\ \E p \in Projectors : Owes(p, k) /\ Invalidate(p)
CutShort(k) == \E p \in Projectors : Owes(p, k) /\ Fault(p)
Missed(k) == LateFill(k) \/ LostDeletion(k) \/ CutShort(k)

(* A write takes a row out of category c: its pages are not deleted.        *)
InCategory(l, c) == view[l] # None /\ view[l].cat = c
RowLeaves(c) ==
    \E p \in Projectors :
        InCategory(Target(p), c) /\ WriteView(p) /\ ~InCategory(Target(p), c)'

(* Explicit invalidation is what keeps a listing's entry right and the TTL  *)
(* a backstop only (ARCHITECTURE.md:282-286): a cached listing goes stale   *)
(* with no deletion under way in three ways and no other, whatever queries, *)
(* outages, throws and stops come between.                                  *)
ListingGoesStaleOnlyMissed ==
    [][\A k \in ListingKeys : GoesStale(k) => Missed(k)]_allVars

(* The same of the pages of a category, which also go stale when a listing  *)
(* is deleted from it or moved away, and in no other way.                   *)
CategoryGoesStaleOnlyMissed ==
    [][\A k \in CategoryKeys : GoesStale(k) => Missed(k) \/ RowLeaves(k.id)]_allVars

(* Whatever invalidation was missed (lost to a crash, to an outage, to a    *)
(* query that stored what it had read before, to a page whose rows and      *)
(* total are of different moments), once the view stops changing the cache  *)
(* comes to agree with it: no entry outlives its TTL.                       *)
StaleEntriesDie == <>[](\A k \in Keys : Fresh(k))

(* Every query is answered, though Redis may go away and never come back.   *)
QueriesAnswered == \A r \in Readers : rphase[r] # "idle" ~> rphase[r] = "idle"

(* What the entry of k would be if it were made from the source tables.     *)
SourceShows(k) ==
    {l \in Listings :
        /\ product[l] # None
        /\ CASE k.kind = "listing" -> l = k.id
             [] k.kind = "category" -> /\ product[l].rev \in ActiveRevisions
                                       /\ product[l].cat = k.id
             [] k.kind = "vendor" -> /\ product[l].rev \in ActiveRevisions
                                     /\ VendorOf[l] = k.id}

Agrees(k) ==
    cache[k] # None =>
        /\ DOMAIN cache[k].rows = SourceShows(k)
        /\ cache[k].total = Cardinality(SourceShows(k))
        /\ \A l \in SourceShows(k) :
              /\ cache[k].rows[l].cat = product[l].cat
              /\ cache[k].rows[l].rev = product[l].rev
              /\ cache[k].rows[l].avail = stock[l]

AllApplied ==
    Drained /\ \A e \in DOMAIN outbox : outbox[e].processed

(* From a vendor's write to a buyer's page: once every event is processed   *)
(* for good, whatever queries answer, from the view or from Redis, comes to *)
(* be what the source tables say.                                           *)
ReadsConverge ==
    <>[]AllApplied =>
        <>[]((\A l \in Listings : InSync(l)) /\ (\A k \in Asked : Agrees(k)))
=============================================================================
