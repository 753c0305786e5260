-------------------------- MODULE CatalogCacheProofs --------------------------
(***************************************************************************)
(* Theorems about the read side as a whole: it implements OutboxProjector, *)
(* so that what is proved there holds here, and a cached entry goes stale  *)
(* in the ways named in CatalogCache and in no other.                      *)
(***************************************************************************)
EXTENDS CatalogCache, OutboxProjectorProofs

CacheType ==
    /\ stage \in [Projectors -> {"none", "del", "keys", "delkeys"}]
    /\ owed \in [Projectors -> SUBSET Keys]
    /\ cache = [k \in Keys |-> cache[k]]

-----------------------------------------------------------------------------
(* The read side is a projector to which queries and deletions were added.  *)

(* A projector deletes keys between two events, or with its pass done.      *)
DeletingInv ==
    /\ stage = [p \in Projectors |-> stage[p]]
    /\ phase = [p \in Projectors |-> phase[p]]
    /\ batch = [p \in Projectors |-> batch[p]]
    /\ readVendor = [p \in Projectors |-> readVendor[p]]
    /\ readStock = [p \in Projectors |-> readStock[p]]
    /\ \A p \in Projectors : stage[p] # "none" =>
          /\ phase[p] \in {"idle", "vendor", "write"}
          /\ phase[p] = "idle" => batch[p] = {} /\ readVendor[p] = None /\ readStock[p] = 0

(* The stop between two deletions, which takes the process out of its pass. *)
StopsDeleting(p) ==
    /\ stage[p] # "none" /\ phase[p] # "idle" /\ "invalidate" \in CrashPoints
    /\ TakeUp(p, {})
    /\ UNCHANGED <<sourceVars, outbox, view>>

(* Who may be stopped between two calls for the keys may be stopped before  *)
(* the first call of the next event.                                        *)
StopsAlike == "invalidate" \in CrashPoints => {"vendor", "write"} \subseteq CrashPoints

LEMMA DeletingInit == CacheInit => DeletingInv
BY DEF CacheInit, Init, DeletingInv

LEMMA DeletingStep ==
    ASSUME DeletingInv, [CacheNext]_allVars
    PROVE  DeletingInv'
<1>1. ASSUME UNCHANGED <<localVars, stage>> PROVE DeletingInv'
    BY <1>1 DEF DeletingInv, localVars
<1>2. CASE UNCHANGED allVars
    BY <1>1, <1>2 DEF allVars, vars, cacheVars, owedVars
<1>3. CASE Writers /\ UNCHANGED cacheVars
    BY <1>1, <1>3 DEF Writers, Source, CreateListing, UpdateListing, ChangeStock,
        DeleteListing, UpdateVendorStatus, Commit, cacheVars, owedVars
<1>4. ASSUME NEW p \in Projectors, ProjectorRuns(p) \/ Fault(p)
      PROVE  DeletingInv'
    <2>1. CASE MarkAndOwe(p)
        <3>1. PICK S : TakeUp(p, S)
            BY <2>1 DEF MarkAndOwe, MarkProcessed
        <3>2. stage' = [stage EXCEPT ![p] = "del"]
            BY <2>1 DEF MarkAndOwe
        <3> QED BY <3>1, <3>2 DEF TakeUp, FirstCall, DeletingInv
    <2>2. CASE Invalidate(p)
        <3>1. stage[p] # "none" /\ UNCHANGED localVars
            BY <2>2 DEF Invalidate, DelListing, MatchKeys, DelMatched, Proceed, vars
        <3>2. PICK s : stage' = [stage EXCEPT ![p] = s]
            BY <2>2 DEF Invalidate, DelListing, MatchKeys, DelMatched, Proceed
        <3> QED BY <3>1, <3>2 DEF DeletingInv, localVars
    <2>3. CASE Project(p) \/ (stage[p] = "none" /\ (Throw(p) \/ Crash(p)) /\ UNCHANGED cacheVars)
        <3>1. stage[p] = "none" /\ UNCHANGED stage
            BY <2>3 DEF Project, cacheVars, owedVars
        <3>2. CASE UNCHANGED localVars
            BY <1>1, <3>1, <3>2
        <3>3. CASE ~UNCHANGED localVars
            <4>1. CASE \E S : TakeUp(p, S)
                BY <3>1, <4>1 DEF TakeUp, DeletingInv
            <4>2. CASE ~\E S : TakeUp(p, S)
                <5>1. ReadVendor(p) \/ ReadStock(p) \/ WriteView(p) \/ Throw(p)
                    BY <2>3, <3>3, <4>2 DEF Project, EmptyPoll, ProcessBatch, RecordFailure, Crash,
                        vars
                <5> QED BY <3>1, <5>1 DEF ReadVendor, ReadStock, WriteView, Throw, DeletingInv
            <4> QED BY <4>1, <4>2
        <3> QED BY <3>2, <3>3
    <2>4. CASE TakeUp(p, {}) /\ stage' = [stage EXCEPT ![p] = "none"]
        BY <2>4 DEF TakeUp, DeletingInv
    <2> QED BY <1>4, <2>1, <2>2, <2>3, <2>4 DEF ProjectorRuns, Fault
<1>5. ASSUME NEW r \in Readers, Answering(r) \/ \E k \in Asked : Hit(r, k) \/ Miss(r, k)
      PROVE  DeletingInv'
    BY <1>1, <1>5 DEF Answering, NotFound, GetListing, SetEntry, ReadPage, Hit, Miss, allVars,
        vars, cacheVars, owedVars
<1>6. CASE (\E k \in Asked : ExpireEntry(k)) \/ RedisDown \/ RedisUp
    BY <1>1, <1>6 DEF ExpireEntry, RedisDown, RedisUp, vars, owedVars
<1> QED BY <1>2, <1>3, <1>4, <1>5, <1>6 DEF CacheNext

LEMMA CacheProjects ==
    ASSUME DeletingInv, [CacheNext]_allVars
    PROVE  [Next]_vars \/ \E p \in Projectors : StopsDeleting(p)
<1>1. CASE UNCHANGED allVars
    BY <1>1 DEF allVars
<1>2. ASSUME NEW p \in Projectors, ProjectorRuns(p) \/ Fault(p)
      PROVE  [Next]_vars \/ StopsDeleting(p)
    <2>1. CASE ProjectorRuns(p) \/ stage[p] = "none"
        BY <1>2, <2>1 DEF ProjectorRuns, Fault, Project, MarkAndOwe, Invalidate, DelListing,
            MatchKeys, DelMatched, Proceed, Next, Projector
    <2>2. CASE Fault(p) /\ stage[p] # "none"
        <3>1. TakeUp(p, {}) /\ UNCHANGED <<sourceVars, outbox, view>>
              /\ "invalidate" \in CrashPoints
            BY <2>2 DEF Fault
        <3>2. CASE phase[p] = "idle"
            BY <2>2, <3>1, <3>2 DEF TakeUp, DeletingInv, vars, localVars
        <3>3. CASE phase[p] # "idle"
            BY <2>2, <3>1, <3>3 DEF StopsDeleting
        <3> QED BY <3>2, <3>3
    <2> QED BY <1>2, <2>1, <2>2
<1>3. ASSUME NEW r \in Readers, Answering(r) \/ \E k \in Asked : Hit(r, k) \/ Miss(r, k)
      PROVE  UNCHANGED vars
    BY <1>3 DEF Answering, NotFound, GetListing, SetEntry, ReadPage, Hit, Miss, allVars
<1>4. ASSUME (\E k \in Asked : ExpireEntry(k)) \/ RedisDown \/ RedisUp
      PROVE  UNCHANGED vars
    BY <1>4 DEF ExpireEntry, RedisDown, RedisUp
<1>5. CASE Writers
    BY <1>5 DEF Writers, Next
<1> QED BY <1>1, <1>2, <1>3, <1>4, <1>5 DEF CacheNext

(* The whole read side implements the projector: neither queries nor        *)
(* deletions nor Redis let it do anything OutboxProjector does not, and a   *)
(* stop between two deletions is to the view a stop before the next event.  *)
(* So every safety theorem about the projector is one about the read side.  *)
THEOREM CacheImplementsProjector ==
    ASSUME StopsAlike
    PROVE  CacheSpec => Spec
<1>1. CacheInit => Init /\ DeletingInv
    BY DeletingInit DEF CacheInit
<1>2. DeletingInv /\ [CacheNext]_allVars => DeletingInv' /\ [Next]_vars
    <2>1. ASSUME DeletingInv, NEW p \in Projectors, StopsDeleting(p) PROVE Next
        <3>1. Crash(p)
            BY <2>1 DEF StopsDeleting, StopsAlike, DeletingInv, Crash
        <3> QED BY <3>1 DEF Next
    <2> QED BY <2>1, DeletingStep, CacheProjects
<1> QED BY <1>1, <1>2, PTL DEF CacheSpec, Spec

(* Among them the promise of a read model: with the cache beside it too, in *)
(* order, the view follows product_listings.                                *)
THEOREM ReadSideFollowsSource ==
    ASSUME StopsAlike, InOrder
    PROVE  CacheSpec => ViewFollowsSource
BY CacheImplementsProjector, ProjectorFollowsSource, PTL

(* The invariants of the outbox and of the pass hold on the read side too,  *)
(* wherever the process stops.                                              *)
LEMMA ReadSideBase ==
    ASSUME OneProjector, DeletingInv, BaseInv, [CacheNext]_allVars
    PROVE  BaseInv'
<1>1. CASE [Next]_vars
    BY <1>1, BaseStep
<1>2. ASSUME NEW p \in Projectors, StopsDeleting(p) PROVE BaseInv'
    <2>1. UNCHANGED <<sourceVars, outbox, view>> /\ TakeUp(p, {})
        BY <1>2 DEF StopsDeleting
    <2>2. OutboxType' /\ History'
        BY <2>1 DEF sourceVars, BaseInv, OutboxType, EventOK, History, RowsTogether,
            OpenIsLast, OpenHasRow, DeletionIsLast, LatestIsRow, BothHaveLatest,
            RowHasEvent, Rival, SameRow, Of, Latest, SourceRow, RowAfter
    <2>3. PassType'
        BY <2>1, TakeUpPass DEF BaseInv, PassType
    <2> QED BY <2>2, <2>3 DEF BaseInv
<1> QED BY <1>1, <1>2, CacheProjects

-----------------------------------------------------------------------------
(* The keys owed, and the entries of Redis.                                 *)

LEMMA ContentKept == UNCHANGED view => \A k : Content(k)' = Content(k)
BY DEF Content, Shows, Active

LEMMA CacheTypeStep ==
    ASSUME BaseInv, CacheType, [CacheNext]_allVars
    PROVE  CacheType'
<1>1. CASE UNCHANGED owedVars /\ cache' = [k \in Keys |-> cache'[k]]
    BY <1>1 DEF CacheType, owedVars
<1>2. CASE UNCHANGED <<owedVars, cache>>
    BY <1>2 DEF CacheType, owedVars
<1>3. ASSUME NEW p \in Projectors, ProjectorRuns(p) \/ Fault(p)
      PROVE  CacheType'
    <2>1. CASE Project(p) \/ UNCHANGED cacheVars
        BY <1>2, <2>1 DEF Project, cacheVars
    <2>2. CASE MarkAndOwe(p)
        <3>1. phase[p] # "idle" /\ UNCHANGED cache
            BY <2>2 DEF MarkAndOwe, MarkProcessed
        <3>2. /\ Current(p) \in DOMAIN outbox /\ Target(p) \in Listings
              /\ Target(p) = outbox[Current(p)].listing
            BY <3>1, CurrentIs DEF BaseInv, PassType, PassOK, Target
        <3>3. view[Target(p)] # None => view[Target(p)].cat \in Categories
            BY <3>2 DEF BaseInv, PassType, ViewRows
        <3>4. ListingToInvalidate(outbox[Current(p)]) \subseteq Keys
              /\ CategoryToInvalidate(outbox[Current(p)]) \subseteq Keys
            BY <3>2, <3>3 DEF ListingToInvalidate, CategoryToInvalidate, Keys, ListingKeys,
                CategoryKeys
        <3> QED BY <2>2, <3>1, <3>4 DEF MarkAndOwe, CacheType
    <2>3. CASE Invalidate(p)
        <3>1. PICK T \in SUBSET Keys, next \in {"none", "keys", "delkeys"} : Proceed(p, T, next)
            <4>1. owed[p] \cap CategoryKeys \in SUBSET Keys
                  /\ {k \in owed[p] : up /\ cache[k] # None} \in SUBSET Keys
                BY DEF CacheType
            <4> QED BY <2>3, <4>1 DEF Invalidate, DelListing, MatchKeys, DelMatched
        <3>2. cache' = [k \in Keys |-> cache'[k]]
            BY <2>3 DEF Invalidate, DelListing, MatchKeys, DelMatched, Without, CacheType
        <3> QED BY <3>1, <3>2 DEF Proceed, CacheType
    <2>4. CASE UNCHANGED cache /\ stage' = [stage EXCEPT ![p] = "none"]
               /\ owed' = [owed EXCEPT ![p] = {}]
        BY <2>4 DEF CacheType
    <2> QED BY <1>3, <2>1, <2>2, <2>3, <2>4 DEF ProjectorRuns, Fault
<1>4. ASSUME NEW r \in Readers, Answering(r) \/ \E k \in Asked : Hit(r, k) \/ Miss(r, k)
      PROVE  CacheType'
    <2>1. CASE SetEntry(r)
        BY <1>1, <2>1 DEF SetEntry, Stored, CacheType
    <2>2. CASE ~SetEntry(r)
        BY <1>2, <1>4, <2>2 DEF Answering, NotFound, GetListing, ReadPage, Hit, Miss, allVars,
            cacheVars
    <2> QED BY <2>1, <2>2
<1>5. CASE (\E k \in Asked : ExpireEntry(k)) \/ RedisDown \/ RedisUp
    BY <1>1, <1>5 DEF ExpireEntry, RedisDown, RedisUp, CacheType
<1>6. CASE UNCHANGED allVars \/ (Writers /\ UNCHANGED cacheVars)
    BY <1>2, <1>6 DEF allVars, cacheVars
<1> QED BY <1>3, <1>4, <1>5, <1>6 DEF CacheNext

-----------------------------------------------------------------------------
(* A stale entry of a listing or of a category is deleted in time, unless   *)
(* the deletion is missed.                                                  *)

Deletable == ListingKeys \union CategoryKeys

(* While Redis answers, a deletion makes the entry fresh or leaves it owed. *)
LEMMA DeletionInTime ==
    ASSUME OneProjector, CacheType, up, NEW p \in Projectors, Invalidate(p),
           NEW k \in Deletable, FreshOrOwed(k)
    PROVE  FreshOrOwed(k)'
<1>1. \A q \in Projectors : q = p
    BY DEF OneProjector
<1>2. k \in Keys
    BY DEF Deletable, Keys
<1>3. UNCHANGED vars
    BY DEF Invalidate, DelListing, MatchKeys, DelMatched, Proceed
<1>4. UNCHANGED <<view, phase, batch, outbox>>
    BY <1>3 DEF vars, localVars
<1>5. Content(k)' = Content(k) /\ (JustWritten(p, k) => JustWritten(p, k)')
    BY <1>4, ContentKept DEF JustWritten, Target, Current
<1>6. cache'[k] \in {None, cache[k]}
    BY <1>2 DEF Invalidate, DelListing, MatchKeys, DelMatched, Without
<1>7. CASE Fresh(k)
    BY <1>5, <1>6, <1>7 DEF FreshOrOwed, Fresh
<1>8. CASE JustWritten(p, k)
    BY <1>5, <1>8 DEF FreshOrOwed, Owes
<1>9. CASE stage[p] # "none" /\ k \in owed[p]
    <2>1. CASE DelListing(p)
        <3>1. CASE k \in ListingKeys
            <4>1. cache'[k] = None
                BY <1>2, <1>9, <2>1, <3>1 DEF DelListing, Without
            <4> QED BY <4>1 DEF FreshOrOwed, Fresh
        <3>2. CASE k \in CategoryKeys
            <4> DEFINE T == owed[p] \cap CategoryKeys
            <4>1. k \in T /\ Proceed(p, T, "keys")
                BY <1>9, <2>1, <3>2 DEF DelListing
            <4> HIDE DEF T
            <4>2. k \in owed'[p] /\ stage'[p] # "none"
                BY <4>1 DEF Proceed, CacheType
            <4> QED BY <4>2 DEF FreshOrOwed, Owes
        <3> QED BY <3>1, <3>2 DEF Deletable
    <2>2. CASE MatchKeys(p)
        <3>1. CASE cache[k] = None
            BY <2>2, <3>1 DEF MatchKeys, FreshOrOwed, Fresh
        <3>2. CASE cache[k] # None
            <4> DEFINE T == {j \in owed[p] : up /\ cache[j] # None}
            <4>1. k \in T /\ Proceed(p, T, "delkeys")
                BY <1>9, <2>2, <3>2 DEF MatchKeys
            <4> HIDE DEF T
            <4>2. k \in owed'[p] /\ stage'[p] # "none"
                BY <4>1 DEF Proceed, CacheType
            <4> QED BY <4>2 DEF FreshOrOwed, Owes
        <3> QED BY <3>1, <3>2
    <2>3. CASE DelMatched(p)
        <3>1. cache'[k] = None
            BY <1>2, <1>9, <2>3 DEF DelMatched, Without
        <3> QED BY <3>1 DEF FreshOrOwed, Fresh
    <2> QED BY <2>1, <2>2, <2>3 DEF Invalidate
<1> QED BY <1>1, <1>7, <1>8, <1>9 DEF FreshOrOwed, Owes

(* The projector's own steps, and its stops and throws.                     *)
LEMMA ProjectorCovers ==
    ASSUME OneProjector, CacheType, NEW p \in Projectors,
           ProjectorRuns(p) \/ Fault(p), NEW k \in Deletable, FreshOrOwed(k),
           WriteView(p) => Content(k)' = Content(k) \/ JustWritten(p, k)'
    PROVE  FreshOrOwed(k)' \/ Missed(k)
<1>1. \A q \in Projectors : q = p
    BY DEF OneProjector
<1>2. CASE Owes(p, k) /\ Fault(p)
    BY <1>2 DEF Missed, CutShort
<1>3. CASE Owes(p, k) /\ Invalidate(p) /\ ~up
    BY <1>3 DEF Missed, LostDeletion
<1>4. ASSUME Fresh(k), UNCHANGED view, cache'[k] \in {None, cache[k]}
      PROVE  FreshOrOwed(k)'
    <2>1. Content(k)' = Content(k)
        BY <1>4, ContentKept
    <2> QED BY <1>4, <2>1 DEF FreshOrOwed, Fresh
<1>5. CASE Fresh(k) /\ UNCHANGED <<view, cache>>
    BY <1>4, <1>5
<1>6. CASE Invalidate(p)
    <2>1. CASE up
        BY <1>6, <2>1, DeletionInTime
    <2>2. CASE ~up /\ ~Owes(p, k)
        <3>1. UNCHANGED view /\ UNCHANGED cache
            BY <1>6, <2>2 DEF Invalidate, DelListing, MatchKeys, DelMatched, Proceed, Without,
                vars
        <3> QED BY <1>1, <1>5, <2>2, <3>1 DEF FreshOrOwed
    <2> QED BY <1>3, <1>6, <2>1, <2>2
<1>7. CASE MarkAndOwe(p)
    <2>1. /\ UNCHANGED <<view, cache>> /\ stage[p] = "none" /\ stage'[p] = "del"
          /\ owed'[p] = ListingToInvalidate(outbox[Current(p)])
                          \union CategoryToInvalidate(outbox[Current(p)])
        BY <1>7 DEF MarkAndOwe, MarkProcessed, CacheType
    <2>2. CASE Owes(p, k)
        <3>1. k \in owed'[p]
            BY <2>1, <2>2 DEF Owes, JustWritten, Target, ListingToInvalidate,
                CategoryToInvalidate
        <3> QED BY <2>1, <3>1 DEF FreshOrOwed, Owes
    <2> QED BY <1>1, <1>5, <2>1, <2>2 DEF FreshOrOwed
<1>8. CASE Project(p) /\ WriteView(p)
    <2>1. Fresh(k) /\ UNCHANGED cache
        BY <1>1, <1>8 DEF FreshOrOwed, Owes, JustWritten, Project, WriteView, cacheVars
    <2>2. CASE Content(k)' = Content(k)
        BY <2>1, <2>2 DEF FreshOrOwed, Fresh
    <2>3. CASE JustWritten(p, k)'
        BY <2>3 DEF FreshOrOwed, Owes
    <2> QED BY <1>8, <2>2, <2>3
<1>9. CASE Project(p) /\ ~WriteView(p)
    <2>1. stage[p] = "none" /\ UNCHANGED <<view, cache>>
        BY <1>9 DEF Project, EmptyPoll, ProcessBatch, ReadVendor, ReadStock, RecordFailure,
            vars, cacheVars
    <2>2. CASE phase[p] = "mark"
        <3>1. UNCHANGED vars
            BY <1>9, <2>2 DEF Project, EmptyPoll, ProcessBatch, ReadVendor, ReadStock,
                RecordFailure
        <3>2. UNCHANGED <<view, phase, batch, outbox, stage, owed, cache>>
            BY <1>9, <3>1 DEF Project, vars, localVars, cacheVars, owedVars
        <3> QED BY <3>2, ContentKept DEF FreshOrOwed, Fresh, Owes, JustWritten, Target, Current
    <2>3. CASE phase[p] # "mark"
        BY <1>1, <1>5, <2>1, <2>3 DEF FreshOrOwed, Owes, JustWritten
    <2> QED BY <2>2, <2>3
<1>10. CASE Fault(p) /\ ~Owes(p, k)
    <2>1. UNCHANGED <<view, cache>>
        BY <1>10 DEF Fault, Throw, Crash, cacheVars
    <2> QED BY <1>1, <1>5, <1>10, <2>1 DEF FreshOrOwed
<1> QED BY <1>2, <1>6, <1>7, <1>8, <1>9, <1>10 DEF ProjectorRuns

(* Nor does any other step leave a stale entry behind, but a late fill.     *)
LEMMA StaysCovered ==
    ASSUME OneProjector, BaseInv, CacheType, [CacheNext]_allVars,
           NEW k \in Deletable, FreshOrOwed(k),
           \A p \in Projectors :
              WriteView(p) => Content(k)' = Content(k) \/ JustWritten(p, k)'
    PROVE  FreshOrOwed(k)' \/ Missed(k)
<1>1. ASSUME UNCHANGED <<view, phase, batch, stage, owed>>,
             \A p \in Projectors : phase[p] # "idle" => Target(p)' = Target(p),
             cache'[k] \in {None, cache[k], Content(k)}
      PROVE  FreshOrOwed(k)'
    <2>1. Content(k)' = Content(k)
        BY <1>1, ContentKept
    <2>2. CASE Fresh(k)
        BY <1>1, <2>1, <2>2 DEF FreshOrOwed, Fresh
    <2>3. ASSUME NEW p \in Projectors, JustWritten(p, k) PROVE FreshOrOwed(k)'
        <3>1. JustWritten(p, k)'
            <4> PICK t : t = Target(p)
                OBVIOUS
            <4>1. Target(p)' = t
                BY <1>1, <2>3 DEF JustWritten
            <4> QED BY <1>1, <2>3, <4>1 DEF JustWritten
        <3> QED BY <3>1 DEF FreshOrOwed, Owes
    <2>4. ASSUME NEW p \in Projectors, stage[p] # "none", k \in owed[p]
          PROVE  FreshOrOwed(k)'
        BY <1>1, <2>4 DEF FreshOrOwed, Owes
    <2> QED BY <2>2, <2>3, <2>4 DEF FreshOrOwed, Owes
<1>2. ASSUME UNCHANGED <<vars, owedVars>>, cache'[k] \in {None, cache[k], Content(k)}
      PROVE  FreshOrOwed(k)'
    <2>1. UNCHANGED <<view, phase, batch, outbox, stage, owed>>
        BY <1>2 DEF vars, localVars, owedVars
    <2>2. \A p \in Projectors : Target(p)' = Target(p)
        BY <2>1 DEF Target, Current
    <2> QED BY <1>1, <1>2, <2>1, <2>2
<1>3. CASE UNCHANGED allVars
    BY <1>2, <1>3 DEF allVars, cacheVars
<1>4. CASE Writers /\ UNCHANGED cacheVars
    <2>1. SourceStep /\ OutboxType
        BY <1>4 DEF Writers, SourceStep, BaseInv
    <2>2. /\ UNCHANGED <<view, phase, batch>>
          /\ \A e \in DOMAIN outbox : outbox'[e].listing = outbox[e].listing
        BY <2>1, SourceFacts
    <2>3. ASSUME NEW p \in Projectors, phase[p] # "idle" PROVE Target(p)' = Target(p)
        <3>1. Current(p) \in DOMAIN outbox
            BY <2>3, CurrentIs DEF BaseInv, PassType, PassOK
        <3> QED BY <2>2, <3>1 DEF Target, Current
    <2> QED BY <1>1, <1>4, <2>2, <2>3 DEF cacheVars, owedVars
<1>5. ASSUME NEW p \in Projectors, ProjectorRuns(p) \/ Fault(p)
      PROVE  FreshOrOwed(k)' \/ Missed(k)
    BY <1>5, ProjectorCovers
<1>6. ASSUME NEW r \in Readers, Answering(r) \/ \E j \in Asked : Hit(r, j) \/ Miss(r, j)
      PROVE  FreshOrOwed(k)' \/ Missed(k)
    <2>1. CASE SetEntry(r) /\ ~LateFill(k)
        <3>1. UNCHANGED <<vars, owedVars>> /\ Stored(r)
            BY <2>1 DEF SetEntry
        <3>2. rkey[r] = k => held[r] = Content(k)
            BY <2>1 DEF LateFill
        <3>3. cache'[k] \in {None, cache[k], Content(k)}
            BY <3>1, <3>2 DEF Stored, CacheType, Deletable, Keys
        <3> QED BY <1>2, <3>1, <3>3
    <2>2. CASE ~SetEntry(r)
        BY <1>2, <1>6, <2>2 DEF Answering, NotFound, GetListing, ReadPage, Hit, Miss, allVars,
            cacheVars
    <2> QED BY <2>1, <2>2 DEF Missed
<1>7. CASE (\E j \in Asked : ExpireEntry(j)) \/ RedisDown \/ RedisUp
    <2>1. UNCHANGED <<vars, owedVars>>
        BY <1>7 DEF ExpireEntry, RedisDown, RedisUp
    <2>2. cache'[k] \in {None, cache[k]}
        BY <1>7 DEF ExpireEntry, RedisDown, RedisUp, CacheType, Deletable, Keys
    <2> QED BY <1>2, <2>1, <2>2
<1> QED BY <1>3, <1>4, <1>5, <1>6, <1>7 DEF CacheNext

(* What a write of the view leaves of the content of a key. *)
LEMMA WriteIs ==
    ASSUME BaseInv, NEW p \in Projectors, WriteView(p)
    PROVE  /\ phase[p] = "write" /\ phase'[p] = "mark"
           /\ UNCHANGED <<outbox, batch>> /\ Target(p)' = Target(p)
           /\ Target(p) \in Listings
           /\ \A l \in Listings \ {Target(p)} : view'[l] = view[l]
<1>1. phase[p] = "write" /\ UNCHANGED <<outbox, batch>>
    BY DEF WriteView
<1>2. Target(p) \in Listings /\ Current(p) \in DOMAIN outbox
    BY <1>1, CurrentIs DEF BaseInv, PassType, PassOK
<1>3. Target(p)' = Target(p)
    BY <1>1 DEF Target, Current
<1> QED BY <1>1, <1>2, <1>3 DEF WriteView, BaseInv, PassType

LEMMA SameContent ==
    ASSUME NEW k, Shows(k)' = Shows(k), \A l \in Shows(k) : view'[l] = view[l]
    PROVE  Content(k)' = Content(k)
BY DEF Content

LEMMA WriteListing ==
    ASSUME BaseInv, NEW p \in Projectors, WriteView(p), NEW l \in Listings,
           NEW k, k = Key("listing", l)
    PROVE  Content(k)' = Content(k) \/ JustWritten(p, k)'
<1>1. CASE l = Target(p)
    BY <1>1, WriteIs DEF JustWritten
<1>2. CASE l # Target(p)
    <2>1. view'[l] = view[l]
        BY <1>2, WriteIs
    <2>2. k.kind = "listing" /\ k.id = l
        BY DEF Key
    <2>3. Shows(k)' = Shows(k) /\ Shows(k) \subseteq {l}
        BY <2>1, <2>2 DEF Shows
    <2> QED BY <2>1, <2>3, SameContent
<1> QED BY <1>1, <1>2

(* A page changes when a row enters its category, changes within it, or     *)
(* leaves it; only then is its key not deleted.                             *)
LEMMA WriteCategory ==
    ASSUME BaseInv, NEW p \in Projectors, WriteView(p), NEW c \in Categories,
           NEW k, k = Key("category", c)
    PROVE  Content(k)' = Content(k) \/ JustWritten(p, k)' \/ RowLeaves(c)
<1> PICK t \in Listings : t = Target(p)
    BY WriteIs
<1>1. /\ phase'[p] = "mark" /\ Target(p)' = t
      /\ \A l \in Listings \ {t} : view'[l] = view[l]
    BY WriteIs
<1>2. CASE InCategory(t, c)'
    BY <1>1, <1>2 DEF JustWritten, InCategory
<1>3. CASE InCategory(t, c) /\ ~InCategory(t, c)'
    BY <1>1, <1>3 DEF RowLeaves, InCategory
<1>4. CASE ~InCategory(t, c) /\ ~InCategory(t, c)'
    <2>1. k.kind = "category" /\ k.id = c
        BY DEF Key
    <2>2. Shows(k) = {l \in Listings : Active(l) /\ view[l].cat = c}
          /\ Shows(k)' = {l \in Listings : Active(l)' /\ view'[l].cat = c}
        BY <2>1 DEF Shows
    <2>3. \A l \in Listings : (Active(l) /\ view[l].cat = c) <=> (Active(l)' /\ view'[l].cat = c)
        BY <1>1, <1>4 DEF Active, InCategory
    <2>4. Shows(k)' = Shows(k)
        BY <2>2, <2>3
    <2>5. \A l \in Shows(k) : view'[l] = view[l]
        BY <1>1, <1>4, <2>2 DEF Active, InCategory
    <2> QED BY <2>4, <2>5, SameContent
<1> QED BY <1>2, <1>3, <1>4

-----------------------------------------------------------------------------
ReadSideInv == DeletingInv /\ BaseInv /\ CacheType

LEMMA ReadSideInvariant ==
    ASSUME OneProjector
    PROVE  CacheSpec => []ReadSideInv
<1>1. CacheInit => ReadSideInv
    BY BaseInit, DeletingInit DEF CacheInit, ReadSideInv, CacheType
<1>2. ReadSideInv /\ [CacheNext]_allVars => ReadSideInv'
    BY DeletingStep, ReadSideBase, CacheTypeStep DEF ReadSideInv
<1> QED BY <1>1, <1>2, PTL DEF CacheSpec

(* Explicit invalidation keeps a product page right, whatever queries run   *)
(* beside the projector, Redis does, and calls throw or the process stops:  *)
(* an entry goes stale, with no deletion under way, only when a query       *)
(* stores what it read too early, or a deletion finds Redis away, or the    *)
(* pass is cut short between the write and the deletion.                    *)
THEOREM CacheListingsGoStaleOnlyMissed ==
    ASSUME OneProjector
    PROVE  CacheSpec => ListingGoesStaleOnlyMissed
<1>1. ReadSideInv /\ [CacheNext]_allVars =>
          [\A k \in ListingKeys : GoesStale(k) => Missed(k)]_allVars
    <2> SUFFICES ASSUME ReadSideInv, [CacheNext]_allVars, NEW k \in ListingKeys, FreshOrOwed(k)
                 PROVE  FreshOrOwed(k)' \/ Missed(k)
        BY DEF GoesStale
    <2>1. PICK l \in Listings : k = Key("listing", l)
        BY DEF ListingKeys
    <2>2. k \in Deletable
        BY DEF Deletable
    <2>3. \A p \in Projectors : WriteView(p) => Content(k)' = Content(k) \/ JustWritten(p, k)'
        BY <2>1, WriteListing DEF ReadSideInv
    <2> QED BY <2>2, <2>3, StaysCovered DEF ReadSideInv
<1> QED BY <1>1, ReadSideInvariant, PTL DEF CacheSpec, ListingGoesStaleOnlyMissed

(* The same of the pages of a category, but for a row that leaves it.       *)
THEOREM CacheCategoriesGoStaleOnlyMissed ==
    ASSUME OneProjector
    PROVE  CacheSpec => CategoryGoesStaleOnlyMissed
<1>1. ReadSideInv /\ [CacheNext]_allVars =>
          [\A k \in CategoryKeys : GoesStale(k) => Missed(k) \/ RowLeaves(k.id)]_allVars
    <2> SUFFICES ASSUME ReadSideInv, [CacheNext]_allVars, NEW k \in CategoryKeys, FreshOrOwed(k),
                        ~RowLeaves(k.id)
                 PROVE  FreshOrOwed(k)' \/ Missed(k)
        BY DEF GoesStale
    <2>1. PICK c \in Categories : k = Key("category", c)
        BY DEF CategoryKeys
    <2>2. k \in Deletable /\ k.id = c
        BY <2>1 DEF Deletable, Key
    <2>3. \A p \in Projectors : WriteView(p) => Content(k)' = Content(k) \/ JustWritten(p, k)'
        BY <2>1, <2>2, WriteCategory DEF ReadSideInv
    <2> QED BY <2>2, <2>3, StaysCovered DEF ReadSideInv
<1> QED BY <1>1, ReadSideInvariant, PTL DEF CacheSpec, CategoryGoesStaleOnlyMissed
=============================================================================
