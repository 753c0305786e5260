------------------------ MODULE OutboxProjectorProofs ------------------------
(***************************************************************************)
(* Theorems about the outbox and one projector process, for any listings,  *)
(* contents, batch size, number of attempts and number of events.          *)
(*                                                                         *)
(* With one process the events of a batch are applied one after another.   *)
(* They are applied in the order of the writes, event by event of each     *)
(* row, when a failed event is retried before the next poll can pass it:   *)
(* when a poll selects one event, or when no call throws.                  *)
(***************************************************************************)
EXTENDS OutboxProjector, FiniteSetTheorems, WellFoundedInduction, TLAPS

OneProjector == \A p, q \in Projectors : p = q
InOrder == OneProjector /\ (BatchSize = 1 \/ FailPoints = {})

Kinds == {"product_listing", "inventory"}
Contents == [cat : Categories, rev : Revisions]
EventsOf(kind, payloads) ==
    [kind : {kind}, listing : Listings, op : {"INSERT", "UPDATE", "DELETE"},
     payload : payloads, open : BOOLEAN, processed : BOOLEAN, attempts : Nat]
Events == EventsOf("product_listing", Contents) \union EventsOf("inventory", Stocks)
ViewRows == [cat : Categories, rev : Revisions, vendor : Statuses, avail : Nat,
             synced : Nat]
Phases == {"idle", "vendor", "stock", "write", "mark", "record"}

-----------------------------------------------------------------------------
(* The outbox tells the history of the source tables.                       *)

Of(e, kind, l) == outbox[e].kind = kind /\ outbox[e].listing = l
SameRow(e, f) == Of(f, outbox[e].kind, outbox[e].listing)

(* Events that become visible in id order: those of one row, and of one     *)
(* listing when updates do not overlap.                                     *)
Rival(e, f) ==
    /\ outbox[e].listing = outbox[f].listing
    /\ outbox[e].kind = outbox[f].kind \/ MaxOpen <= 1

SourceRow(kind, l) == IF kind = "inventory" THEN stock[l] ELSE product[l]

Latest(e) ==
    /\ ~outbox[e].open
    /\ \A f \in DOMAIN outbox : SameRow(e, f) /\ ~outbox[f].open => f <= e

EventOK(e) ==
    outbox[e].open =>
        outbox[e].op = "UPDATE" /\ ~outbox[e].processed /\ outbox[e].attempts = 0

OutboxType ==
    /\ product \in [Listings -> Contents \union {None}]
    /\ stock \in [Listings -> Stocks \union {None}]
    /\ vendor \in [Listings -> Statuses]
    /\ changed \in [Listings -> 0..Len(outbox)]
    /\ outbox \in Seq(Events)
    /\ \A e \in DOMAIN outbox : EventOK(e)

(* An open update holds its row, a deletion is the end of its row, and the  *)
(* latest committed event of a row says what the row is.                    *)
RowsTogether == \A l \in Listings : product[l] = None <=> stock[l] = None
OpenIsLast == \A e, f \in DOMAIN outbox : Rival(e, f) /\ outbox[e].open => f <= e
OpenHasRow == \A e \in DOMAIN outbox : outbox[e].open => product[outbox[e].listing] # None
DeletionIsLast ==
    \A e, f \in DOMAIN outbox : SameRow(e, f) /\ outbox[e].op = "DELETE" => f <= e
LatestIsRow ==
    \A e \in DOMAIN outbox :
        Latest(e) => SourceRow(outbox[e].kind, outbox[e].listing) = RowAfter(e)
BothHaveLatest ==
    \A e \in DOMAIN outbox, k \in Kinds :
        \E f \in DOMAIN outbox : Of(f, k, outbox[e].listing) /\ Latest(f)
RowHasEvent ==
    \A l \in Listings : product[l] # None =>
        \E f \in DOMAIN outbox : outbox[f].listing = l

History ==
    /\ RowsTogether /\ OpenIsLast /\ OpenHasRow /\ DeletionIsLast
    /\ LatestIsRow /\ BothHaveLatest /\ RowHasEvent

(* The process and its batch: nobody else marks its events or counts their  *)
(* failures.                                                                *)
Upserts(e) == outbox[e].kind = "product_listing" /\ outbox[e].op # "DELETE"

PassOK(p) ==
    /\ phase[p] = "idle" <=> batch[p] = {}
    /\ \A e \in batch[p] : Pending(e)
    /\ phase[p] \in {"vendor", "stock"} => Upserts(Current(p))
    /\ phase[p] \in {"stock", "write"} /\ Upserts(Current(p)) => readVendor[p] \in Statuses

PassType ==
    /\ view \in [Listings -> ViewRows \union {None}]
    /\ \A l \in Listings : view[l] # None => view[l].synced \in DOMAIN outbox
    /\ phase \in [Projectors -> Phases]
    /\ batch \in [Projectors -> SUBSET DOMAIN outbox]
    /\ readVendor \in [Projectors -> Statuses \union {None}]
    /\ readStock \in [Projectors -> Nat]
    /\ \A e \in DOMAIN outbox : outbox[e].attempts <= MaxAttempts
    /\ \A p \in Projectors : PassOK(p)

BaseInv == OutboxType /\ History /\ PassType

-----------------------------------------------------------------------------
(* A vendor's status that is not the present one was read before it was     *)
(* set, and so was whatever has been applied to the row.                    *)

AtMark(p, e) == phase[p] = "mark" /\ e = Current(p)

VendorShown(l) ==
    view[l] # None /\ view[l].vendor # vendor[l] =>
        \A e \in DOMAIN outbox :
            /\ Of(e, "product_listing", l)
            /\ outbox[e].processed \/ \E p \in Projectors : AtMark(p, e)
            => e <= changed[l]

VendorRead(p) ==
    LET l == Target(p) IN
    phase[p] \in {"stock", "write"} /\ Upserts(Current(p)) /\ readVendor[p] # vendor[l] =>
        \A e \in DOMAIN outbox :
            Of(e, "product_listing", l) /\ (outbox[e].processed \/ e = Current(p))
                => e <= changed[l]

VendorInv ==
    /\ \A l \in Listings : VendorShown(l)
    /\ \A p \in Projectors : VendorRead(p)

-----------------------------------------------------------------------------
(* Only an event that failed in a batch of several is passed by a later one *)
(* of its row, or left out of a batch that has a later one.                 *)

Passed(e) == \E f \in DOMAIN outbox : e < f /\ Rival(e, f) /\ outbox[f].processed

BatchOK(p) ==
    /\ \A e \in batch[p], f \in DOMAIN outbox :
          f < e /\ Rival(e, f) /\ Pending(f) => f \in batch[p] \/ Retried(f)
    /\ BatchSize = 1 => \A e, f \in batch[p] : e = f
    /\ phase[p] = "record" => FailPoints # {}

OrderInv ==
    /\ \A e \in DOMAIN outbox : (Pending(e) \/ outbox[e].open) /\ Passed(e) => Retried(e)
    /\ \A p \in Projectors : BatchOK(p)
    /\ FailPoints = {} => \A e \in DOMAIN outbox : outbox[e].attempts = 0

(* Event f is committed and no earlier than what was processed of its row.  *)
UpToDate(f) ==
    /\ ~outbox[f].open
    /\ \A e \in DOMAIN outbox : SameRow(f, e) /\ outbox[e].processed => e <= f

(* Where the columns of a row come from, and why a row is missing.          *)
ContentShown(l) ==
    view[l] # None =>
        \E f \in DOMAIN outbox :
            /\ Of(f, "product_listing", l) /\ outbox[f].op # "DELETE" /\ UpToDate(f)
            /\ Columns("product_listing", view[l]) = outbox[f].payload

StockFrom(n, l) ==
    \E f \in DOMAIN outbox : Of(f, "inventory", l) /\ UpToDate(f) /\ n \in Left(f)

StockShown(l) == view[l] # None => StockFrom(view[l].avail, l)

Missing(l) ==
    view[l] = None =>
        \A e \in DOMAIN outbox :
            /\ Of(e, "product_listing", l)
            /\ outbox[e].processed /\ outbox[e].op # "DELETE"
            => \E f \in DOMAIN outbox :
                  e < f /\ Of(f, "product_listing", l) /\ outbox[f].op = "DELETE"

(* What the process has read, and what it has written before the mark.      *)
StockRead(p) ==
    phase[p] = "write" /\ Upserts(Current(p)) => StockFrom(readStock[p], Target(p))

Written(p) ==
    LET c == Current(p)
        row == view[Target(p)]
    IN  phase[p] = "mark" =>
            /\ Upserts(c) => /\ row # None
                             /\ Columns("product_listing", row) = outbox[c].payload
            /\ outbox[c].kind = "product_listing" /\ outbox[c].op = "DELETE" => row = None
            /\ outbox[c].kind = "inventory" /\ row # None => row.avail = outbox[c].payload
            /\ row # None => row.synced = c

ShownInv ==
    /\ \A l \in Listings : ContentShown(l) /\ StockShown(l) /\ Missing(l)
    /\ DeletedStaysDeleted
    /\ \A p \in Projectors : StockRead(p) /\ Written(p)

(* What is still to come is newer than what the row reflects, or overtaken  *)
(* by it; and a row that was just written reflects the event at hand.       *)
SyncInv ==
    /\ AcknowledgedReflected
    /\ \A l \in Listings : view[l] # None =>
          \A e \in DOMAIN outbox :
              outbox[e].listing = l /\ (Pending(e) \/ outbox[e].open)
                  => view[l].synced <= e \/ OvertakenBy(e, view[l].synced)
    /\ \A p \in Projectors :
          phase[p] = "mark" /\ view[Target(p)] # None
              => view[Target(p)].synced = Current(p)

-----------------------------------------------------------------------------
(* The operators of the model. *)

LEMMA LeastIs ==
    ASSUME NEW S \in SUBSET Nat, S # {}
    PROVE  Least(S) \in S /\ \A e \in S : Least(S) <= e
<1> DEFINE R == {ss \in Nat \X Nat : ss[1] < ss[2]}
<1>1. IsWellFoundedOn(R, Nat)
    BY NatLessThanWellFounded, Zenon DEF OpToRel
<1>2. PICK m \in S : \A e \in S : <<e, m>> \notin R
    <2> HIDE DEF R
    <2> QED BY <1>1, WFMin
<1>3. \A i, j \in Nat : i < j => <<i, j>> \in R
    OBVIOUS
<1>4. \A e \in S : m <= e
    <2> SUFFICES ASSUME NEW e \in S PROVE m <= e
        OBVIOUS
    <2>1. e \in Nat /\ m \in Nat
        OBVIOUS
    <2>2. ~(e < m)
        <3> HIDE DEF R
        <3> QED BY <1>2, <1>3, <2>1, Zenon
    <2> QED BY <2>1, <2>2
<1> QED BY <1>4 DEF Least

LEMMA Positions ==
    ASSUME OutboxType
    PROVE  /\ Len(outbox) \in Nat /\ DOMAIN outbox = 1..Len(outbox)
           /\ \A e \in DOMAIN outbox : outbox[e] \in Events
BY DEF OutboxType

LEMMA EventFields ==
    ASSUME NEW ev \in Events
    PROVE  /\ ev.kind \in Kinds /\ ev.listing \in Listings
           /\ ev.op \in {"INSERT", "UPDATE", "DELETE"}
           /\ ev.kind = "product_listing" => ev.payload \in Contents
           /\ ev.kind = "inventory" => ev.payload \in Stocks
           /\ ev.open \in BOOLEAN /\ ev.processed \in BOOLEAN /\ ev.attempts \in Nat
BY DEF Events, EventsOf, Kinds

(* A poll selects committed events that are not done, and leaves out none   *)
(* that is older than one it selects.                                       *)
LEMMA PollSelects ==
    ASSUME OutboxType
    PROVE  /\ Poll \subseteq DOMAIN outbox /\ \A e \in Poll : Pending(e)
           /\ \A e \in Poll, f \in DOMAIN outbox : f < e /\ Pending(f) => f \in Poll
           /\ BatchSize = 1 => \A e, f \in Poll : e = f
<1> DEFINE S == {e \in DOMAIN outbox : Pending(e)}
           before(e) == {g \in S : g < e}
<1>1. DOMAIN outbox = 1..Len(outbox) /\ Len(outbox) \in Nat
    BY Positions
<1>2. Poll = {e \in S : Cardinality(before(e)) < BatchSize}
    BY DEF Poll, FirstFew
<1>3. BatchSize \in Nat
    BY ProjectorAssumption
<1>4. \A e \in S : IsFiniteSet(before(e)) /\ Cardinality(before(e)) \in Nat
    <2>1. IsFiniteSet(1..Len(outbox))
        BY <1>1, FS_Interval
    <2> TAKE e \in S
    <2>2. IsFiniteSet(before(e))
        BY <1>1, <2>1, FS_Subset
    <2> QED BY <2>2, FS_CardinalityType
<1>5. ASSUME NEW e \in Poll, NEW f \in S, f < e
      PROVE  f \in Poll
    <2>1. e \in S /\ Cardinality(before(e)) < BatchSize
        BY <1>2
    <2>2. before(f) \subseteq before(e)
        BY <1>1, <1>5, <2>1
    <2>3. Cardinality(before(f)) <= Cardinality(before(e))
        <3> HIDE DEF before
        <3> QED BY <2>1, <2>2, <1>4, FS_Subset
    <2>4. f \in S /\ Cardinality(before(f)) < BatchSize
        <3> HIDE DEF before
        <3> QED BY <1>3, <1>4, <2>1, <2>3
    <2> QED BY <1>2, <2>4
<1>6. ASSUME BatchSize = 1, NEW e \in Poll, NEW f \in Poll, f < e
      PROVE  FALSE
    <2>1. e \in S /\ f \in before(e) /\ Cardinality(before(e)) < 1
        BY <1>2, <1>6
    <2>2. Cardinality(before(e)) = 0
        BY <1>4, <2>1
    <2> QED BY <1>4, <2>1, <2>2, FS_EmptySet
<1>7. BatchSize = 1 => \A e, f \in Poll : e = f
    BY <1>1, <1>2, <1>6
<1> QED BY <1>1, <1>2, <1>5, <1>7

(* The event at hand is the oldest of the batch. *)
LEMMA CurrentIs ==
    ASSUME BaseInv, NEW p \in Projectors, batch[p] # {}
    PROVE  /\ Current(p) \in batch[p] /\ Current(p) \in DOMAIN outbox
           /\ Current(p) \in Nat /\ Target(p) \in Listings
           /\ Pending(Current(p)) /\ outbox[Current(p)] \in Events
           /\ \A e \in batch[p] : Current(p) <= e
<1>1. batch[p] \subseteq DOMAIN outbox /\ \A e \in batch[p] : Pending(e)
    BY DEF BaseInv, PassType, PassOK
<1>2. batch[p] \in SUBSET Nat
    BY <1>1, Positions DEF BaseInv
<1>3. Current(p) \in batch[p] /\ \A e \in batch[p] : Current(p) <= e
    BY <1>2, LeastIs DEF Current
<1>4. outbox[Current(p)] \in Events
    BY <1>1, <1>3, Positions DEF BaseInv
<1> QED BY <1>1, <1>2, <1>3, <1>4, EventFields DEF Target

(* What the next event of a batch calls for. *)
LEMMA TakeUpFacts ==
    ASSUME PassType, NEW p \in Projectors, NEW S, TakeUp(p, S)
    PROVE  /\ batch' = [batch EXCEPT ![p] = S] /\ batch'[p] = S
           /\ phase'[p] = IF S = {} THEN "idle" ELSE FirstCall(Least(S))
           /\ readVendor'[p] = None /\ readStock'[p] = 0
           /\ phase' \in [Projectors -> Phases]
           /\ readVendor' \in [Projectors -> Statuses \union {None}]
           /\ readStock' \in [Projectors -> Nat]
BY DEF PassType, TakeUp, FirstCall, Phases

-----------------------------------------------------------------------------
(* The writers of the source tables keep the history. *)

LEMMA Appended ==
    ASSUME outbox \in Seq(Events), NEW es \in Seq(Events), Emit(es)
    PROVE  /\ outbox' \in Seq(Events)
           /\ Len(outbox') = Len(outbox) + Len(es)
           /\ DOMAIN outbox' = 1..(Len(outbox) + Len(es))
           /\ \A e \in DOMAIN outbox : outbox'[e] = outbox[e]
           /\ \A i \in 1..Len(es) : outbox'[Len(outbox) + i] = es[i]
BY DEF Emit

LEMMA AppendedOne ==
    ASSUME outbox \in Seq(Events), NEW ev \in Events, Emit(<<ev>>)
    PROVE  LET n == Len(outbox)
           IN  /\ outbox' \in Seq(Events)
               /\ Len(outbox') = n + 1 /\ DOMAIN outbox' = 1..(n + 1)
               /\ \A e \in DOMAIN outbox : outbox'[e] = outbox[e]
               /\ outbox'[n + 1] = ev
<1> DEFINE es == <<ev>>
<1>1. es \in Seq(Events) /\ Len(es) = 1 /\ es[1] = ev /\ Emit(es)
    OBVIOUS
<1> HIDE DEF es
<1>2. /\ outbox' \in Seq(Events)
      /\ Len(outbox') = Len(outbox) + Len(es)
      /\ DOMAIN outbox' = 1..(Len(outbox) + Len(es))
      /\ \A e \in DOMAIN outbox : outbox'[e] = outbox[e]
      /\ \A i \in 1..Len(es) : outbox'[Len(outbox) + i] = es[i]
    BY <1>1, Appended
<1>3. outbox'[Len(outbox) + 1] = es[1]
    BY <1>1, <1>2
<1> QED BY <1>1, <1>2, <1>3

LEMMA AppendedTwo ==
    ASSUME outbox \in Seq(Events), NEW a \in Events, NEW b \in Events, Emit(<<a, b>>)
    PROVE  LET n == Len(outbox)
           IN  /\ outbox' \in Seq(Events)
               /\ Len(outbox') = n + 2 /\ DOMAIN outbox' = 1..(n + 2)
               /\ \A e \in DOMAIN outbox : outbox'[e] = outbox[e]
               /\ outbox'[n + 1] = a /\ outbox'[n + 2] = b
<1> DEFINE es == <<a, b>>
<1>1. es \in Seq(Events) /\ Len(es) = 2 /\ es[1] = a /\ es[2] = b /\ Emit(es)
    OBVIOUS
<1> HIDE DEF es
<1>2. /\ outbox' \in Seq(Events)
      /\ Len(outbox') = Len(outbox) + Len(es)
      /\ DOMAIN outbox' = 1..(Len(outbox) + Len(es))
      /\ \A e \in DOMAIN outbox : outbox'[e] = outbox[e]
      /\ \A i \in 1..Len(es) : outbox'[Len(outbox) + i] = es[i]
    BY <1>1, Appended
<1>3. outbox'[Len(outbox) + 1] = es[1] /\ outbox'[Len(outbox) + 2] = es[2]
    BY <1>1, <1>2
<1> QED BY <1>1, <1>2, <1>3

LEMMA OpenEventsFinite ==
    ASSUME OutboxType PROVE IsFiniteSet(OpenEvents)
<1>1. IsFiniteSet(1..Len(outbox))
    BY Positions, FS_Interval
<1>2. OpenEvents \in SUBSET (1..Len(outbox))
    BY Positions DEF OpenEvents
<1> QED BY <1>1, <1>2, FS_Subset

LEMMA NoneOpen ==
    ASSUME OutboxType, MaxOpen <= 1, Cardinality(OpenEvents) < MaxOpen
    PROVE  \A e \in DOMAIN outbox : ~outbox[e].open
<1>1. Cardinality(OpenEvents) \in Nat /\ MaxOpen \in Nat
    BY OpenEventsFinite, FS_CardinalityType, ProjectorAssumption
<1>2. OpenEvents = {}
    BY <1>1, OpenEventsFinite, FS_EmptySet
<1> QED BY <1>2 DEF OpenEvents

(* An update appends an open event of its row.                              *)
LEMMA OpenUpdate ==
    ASSUME OutboxType, History, NEW k \in Kinds, NEW l \in Listings,
           NEW payload \in IF k = "inventory" THEN Stocks ELSE Contents,
           SourceRow(k, l) # None, ~Locked(k, l), Cardinality(OpenEvents) < MaxOpen,
           Emit(<<Event(k, l, "UPDATE", payload, TRUE)>>), UNCHANGED sourceVars
    PROVE  OutboxType' /\ History'
<1> DEFINE ev == Event(k, l, "UPDATE", payload, TRUE)
<1> PICK n \in Nat : n = Len(outbox)
    BY Positions
<1>1. /\ ev \in Events /\ ev.kind = k /\ ev.listing = l /\ ev.op = "UPDATE"
      /\ ev.open = TRUE /\ ev.processed = FALSE /\ ev.attempts = 0
    BY DEF Event, Events, EventsOf, Kinds
<1>a. Emit(<<ev>>)
    OBVIOUS
<1> HIDE DEF ev
<1>2. UNCHANGED <<product, stock, vendor, changed>>
    BY DEF sourceVars
<1>3. /\ outbox' \in Seq(Events) /\ Len(outbox') = n + 1 /\ n \in Nat
      /\ DOMAIN outbox' = 1..(n + 1) /\ DOMAIN outbox = 1..n
      /\ \A e \in DOMAIN outbox : outbox'[e] = outbox[e]
      /\ outbox'[n + 1] = ev
    BY <1>1, <1>a, AppendedOne, Positions DEF OutboxType
<1>4. OutboxType'
    <2>1. changed' \in [Listings -> 0..Len(outbox')]
        BY <1>2, <1>3 DEF OutboxType
    <2>2. ASSUME NEW e \in DOMAIN outbox' PROVE EventOK(e)'
        <3>1. CASE e \in DOMAIN outbox
            BY <1>3, <3>1 DEF OutboxType, EventOK
        <3>2. CASE e = n + 1
            BY <1>1, <1>3, <3>2 DEF EventOK
        <3> QED BY <1>3, <3>1, <3>2
    <2> QED BY <1>2, <1>3, <2>1, <2>2 DEF OutboxType
<1>5. \A e \in DOMAIN outbox : Latest(e)' <=> Latest(e)
    BY <1>1, <1>3 DEF Latest, SameRow, Of
<1>6. \A e \in DOMAIN outbox' : e \in DOMAIN outbox \/ e = n + 1
    BY <1>3
<1>7. ~Latest(n + 1)'
    BY <1>1, <1>3 DEF Latest
<1>8. \A m \in Listings : product'[m] = None <=> stock'[m] = None
    BY <1>2 DEF History, RowsTogether
<1>9. ASSUME NEW e \in DOMAIN outbox', NEW f \in DOMAIN outbox',
             Rival(e, f)', outbox'[e].open
      PROVE  f <= e
    <2>1. CASE e \in DOMAIN outbox /\ f \in DOMAIN outbox
        BY <1>3, <1>9, <2>1 DEF History, OpenIsLast, Rival
    <2>2. CASE e \in DOMAIN outbox /\ f = n + 1
        <3>1. outbox[e].open /\ outbox[e].listing = l
              /\ (outbox[e].kind = k \/ MaxOpen <= 1)
            BY <1>1, <1>3, <1>9, <2>2 DEF Rival
        <3>2. e \in OpenEvents
            BY <2>2, <3>1 DEF OpenEvents
        <3> QED BY <2>2, <3>1, <3>2, NoneOpen DEF Locked
    <2>3. CASE e = n + 1
        BY <1>3, <2>3
    <2> QED BY <1>6, <2>1, <2>2, <2>3
<1>10. \A e \in DOMAIN outbox' : outbox'[e].open => product'[outbox'[e].listing] # None
    <2>1. product[l] # None
        BY DEF History, RowsTogether, SourceRow
    <2> QED BY <1>1, <1>2, <1>3, <1>6, <2>1 DEF History, OpenHasRow
<1>11. ASSUME NEW e \in DOMAIN outbox', NEW f \in DOMAIN outbox',
              SameRow(e, f)', outbox'[e].op = "DELETE"
       PROVE  f <= e
    <2>1. e \in DOMAIN outbox /\ outbox[e].op = "DELETE"
        BY <1>1, <1>3, <1>6, <1>11
    <2>2. CASE f \in DOMAIN outbox
        BY <1>3, <1>11, <2>1, <2>2 DEF History, DeletionIsLast, SameRow, Of
    <2>3. CASE f = n + 1
        <3>1. Of(e, k, l)
            BY <1>1, <1>3, <1>11, <2>1, <2>3 DEF SameRow, Of
        <3>2. Latest(e)
            BY <2>1 DEF History, DeletionIsLast, OutboxType, EventOK, Latest
        <3> QED BY <2>1, <3>1, <3>2 DEF History, LatestIsRow, RowAfter, Of
    <2> QED BY <1>6, <2>2, <2>3
<1>12. ASSUME NEW e \in DOMAIN outbox', Latest(e)'
       PROVE  SourceRow(outbox[e].kind, outbox[e].listing)' = RowAfter(e)'
    BY <1>2, <1>3, <1>5, <1>6, <1>7, <1>12 DEF History, LatestIsRow, SourceRow, RowAfter
<1>13. ASSUME NEW e \in DOMAIN outbox', NEW j \in Kinds
       PROVE  \E f \in DOMAIN outbox' : Of(f, j, outbox[e].listing)' /\ Latest(f)'
    <2>1. PICK e0 \in DOMAIN outbox : outbox[e0].listing = outbox'[e].listing
        <3>1. product[l] # None
            BY DEF History, RowsTogether, SourceRow
        <3> QED BY <1>1, <1>3, <1>6, <3>1 DEF History, RowHasEvent
    <2>2. PICK f \in DOMAIN outbox : Of(f, j, outbox[e0].listing) /\ Latest(f)
        BY DEF History, BothHaveLatest
    <2> QED BY <1>3, <1>5, <2>1, <2>2 DEF Of
<1>14. \A m \in Listings : product'[m] # None =>
            \E f \in DOMAIN outbox' : outbox'[f].listing = m
    <2> TAKE m \in Listings
    <2> HAVE product'[m] # None
    <2>1. PICK f \in DOMAIN outbox : outbox[f].listing = m
        BY <1>2 DEF History, RowHasEvent
    <2> QED BY <1>3, <2>1
<1> QED BY <1>4, <1>8, <1>9, <1>10, <1>11, <1>12, <1>13, <1>14
    DEF History, RowsTogether, OpenIsLast, OpenHasRow,
        DeletionIsLast, LatestIsRow, BothHaveLatest, RowHasEvent

LEMMA NoneApart ==
    /\ \A c \in Contents : c # None
    /\ \A n \in Stocks : n # None
    /\ \A row \in ViewRows : row # None
BY ProjectorAssumption DEF Contents, ViewRows

(* A listing and its inventory row are created or deleted together, in two  *)
(* committed events, when no update of either is open.                      *)
LEMMA TwoEvents ==
    ASSUME OutboxType, History, NEW l \in Listings, NEW a \in Events, NEW b \in Events,
           Emit(<<a, b>>), a.listing = l, b.listing = l, a.kind # b.kind,
           a.op = b.op, a.op \in {"INSERT", "DELETE"},
           a.open = FALSE, b.open = FALSE, a.processed = FALSE, b.processed = FALSE,
           \A e \in DOMAIN outbox : outbox[e].listing = l =>
               outbox[e].open = FALSE /\ outbox[e].op # "DELETE",
           product' \in [Listings -> Contents \union {None}],
           stock' \in [Listings -> Stocks \union {None}],
           \A m \in Listings \ {l} : product'[m] = product[m] /\ stock'[m] = stock[m],
           \A ev \in {a, b} :
               (IF ev.kind = "inventory" THEN stock'[l] ELSE product'[l])
                   = (IF ev.op = "DELETE" THEN None ELSE ev.payload),
           UNCHANGED <<vendor, changed>>
    PROVE  OutboxType' /\ History'
<1> PICK n \in Nat : n = Len(outbox)
    BY Positions
<1>1. /\ outbox' \in Seq(Events) /\ Len(outbox') = n + 2
      /\ DOMAIN outbox' = 1..(n + 2) /\ DOMAIN outbox = 1..n
      /\ \A e \in DOMAIN outbox : outbox'[e] = outbox[e]
      /\ outbox'[n + 1] = a /\ outbox'[n + 2] = b
    BY AppendedTwo, Positions DEF OutboxType
<1>2. \A e \in DOMAIN outbox' : e \in DOMAIN outbox \/ e = n + 1 \/ e = n + 2
    BY <1>1
<1>3. a.kind \in Kinds /\ b.kind \in Kinds /\ {a.kind, b.kind} = Kinds
    BY EventFields DEF Kinds
<1>4. OutboxType'
    <2>1. changed' \in [Listings -> 0..Len(outbox')]
        BY <1>1 DEF OutboxType
    <2>2. ASSUME NEW e \in DOMAIN outbox' PROVE EventOK(e)'
        <3>1. CASE e \in DOMAIN outbox
            BY <1>1, <3>1 DEF OutboxType, EventOK
        <3>2. CASE e = n + 1 \/ e = n + 2
            BY <1>1, <3>2 DEF EventOK
        <3> QED BY <1>2, <3>1, <3>2
    <2> QED BY <1>1, <2>1, <2>2 DEF OutboxType
<1>5. Latest(n + 1)' /\ Latest(n + 2)'
    <2>1. \A f \in DOMAIN outbox' : f <= n + 2 /\ (f = n + 2 => outbox'[f].kind = b.kind)
        BY <1>1
    <2>2. \A f \in DOMAIN outbox' : outbox'[f].kind = a.kind => f <= n + 1
        BY <1>1, <2>1
    <2> QED BY <1>1, <2>1, <2>2 DEF Latest, SameRow, Of
<1>6. ASSUME NEW e \in DOMAIN outbox, outbox[e].listing = l
      PROVE  ~Latest(e)'
    <2>1. outbox[e].kind \in Kinds /\ e < n + 1
        BY <1>1, Positions, EventFields
    <2>2. \E f \in {n + 1, n + 2} : SameRow(e, f)' /\ ~outbox'[f].open
        BY <1>1, <1>3, <1>6, <2>1 DEF SameRow, Of
    <2> QED BY <1>1, <2>1, <2>2 DEF Latest
<1>7. ASSUME NEW e \in DOMAIN outbox, outbox[e].listing # l
      PROVE  Latest(e)' <=> Latest(e)
    <2>1. \A f \in DOMAIN outbox' : SameRow(e, f)' <=> f \in DOMAIN outbox /\ SameRow(e, f)
        BY <1>1, <1>2, <1>7 DEF SameRow, Of
    <2>2. DOMAIN outbox \subseteq DOMAIN outbox'
        BY <1>1
    <2> QED BY <1>1, <2>1, <2>2 DEF Latest
<1>8. \A m \in Listings : product'[m] = None <=> stock'[m] = None
    <2>1. product'[l] = None <=> stock'[l] = None
        <3>1. CASE a.op = "DELETE"
            BY <1>3, <3>1 DEF Kinds
        <3>2. CASE a.op # "DELETE"
            <4>1. product'[l] \in Contents /\ stock'[l] \in Stocks
                BY <1>3, <3>2, EventFields DEF Kinds
            <4> QED BY <4>1, NoneApart
        <3> QED BY <3>1, <3>2
    <2> QED BY <2>1 DEF History, RowsTogether
<1>9. ASSUME NEW e \in DOMAIN outbox', NEW f \in DOMAIN outbox',
             Rival(e, f)', outbox'[e].open
      PROVE  f <= e
    <2>1. e \in DOMAIN outbox /\ outbox[e].listing # l
        BY <1>1, <1>2, <1>9
    <2>2. f \in DOMAIN outbox
        BY <1>1, <1>2, <1>9, <2>1 DEF Rival
    <2> QED BY <1>1, <1>9, <2>1, <2>2 DEF History, OpenIsLast, Rival
<1>10. ASSUME NEW e \in DOMAIN outbox', outbox'[e].open
       PROVE  product'[outbox'[e].listing] # None
    <2>1. e \in DOMAIN outbox /\ outbox[e].listing # l /\ outbox[e].listing \in Listings
        BY <1>1, <1>2, <1>10, Positions, EventFields
    <2> QED BY <1>1, <1>10, <2>1 DEF History, OpenHasRow
<1>11. ASSUME NEW e \in DOMAIN outbox', NEW f \in DOMAIN outbox',
              SameRow(e, f)', outbox'[e].op = "DELETE"
       PROVE  f <= e
    <2>1. CASE e \in DOMAIN outbox
        <3>1. outbox[e].listing # l /\ outbox[e].op = "DELETE"
            BY <1>1, <1>11, <2>1
        <3>2. f \in DOMAIN outbox
            BY <1>1, <1>2, <1>11, <2>1, <3>1 DEF SameRow, Of
        <3> QED BY <1>1, <1>11, <2>1, <3>1, <3>2 DEF History, DeletionIsLast, SameRow, Of
    <2>2. CASE e = n + 1 \/ e = n + 2
        BY <1>1, <1>2, <1>11, <2>2 DEF SameRow, Of
    <2> QED BY <1>2, <2>1, <2>2
<1>12. ASSUME NEW e \in DOMAIN outbox', Latest(e)'
       PROVE  SourceRow(outbox[e].kind, outbox[e].listing)' = RowAfter(e)'
    <2>1. CASE e \in DOMAIN outbox
        <3>1. outbox[e].listing # l /\ outbox[e].listing \in Listings /\ Latest(e)
            BY <1>6, <1>7, <1>12, <2>1, Positions, EventFields
        <3>2. SourceRow(outbox[e].kind, outbox[e].listing) = RowAfter(e)
            BY <2>1, <3>1 DEF History, LatestIsRow
        <3>3. outbox'[e] = outbox[e]
            BY <1>1, <2>1
        <3> QED BY <3>1, <3>2, <3>3 DEF SourceRow, RowAfter
    <2>2. CASE e = n + 1 \/ e = n + 2
        BY <1>1, <2>2 DEF SourceRow, RowAfter
    <2> QED BY <1>2, <2>1, <2>2
<1>13. ASSUME NEW e \in DOMAIN outbox', NEW k \in Kinds
       PROVE  \E f \in DOMAIN outbox' : Of(f, k, outbox[e].listing)' /\ Latest(f)'
    <2>1. CASE outbox'[e].listing = l
        <3>1. \E f \in {n + 1, n + 2} : outbox'[f].kind = k /\ outbox'[f].listing = l
            BY <1>1, <1>3
        <3> QED BY <1>1, <1>5, <2>1, <3>1 DEF Of
    <2>2. CASE outbox'[e].listing # l
        <3>1. e \in DOMAIN outbox /\ outbox'[e] = outbox[e]
            BY <1>1, <1>2, <2>2
        <3>2. PICK f \in DOMAIN outbox : Of(f, k, outbox[e].listing) /\ Latest(f)
            BY <3>1 DEF History, BothHaveLatest
        <3> QED BY <1>1, <1>7, <2>2, <3>1, <3>2 DEF Of
    <2> QED BY <2>1, <2>2
<1>14. ASSUME NEW m \in Listings, product'[m] # None
       PROVE  \E f \in DOMAIN outbox' : outbox'[f].listing = m
    <2>1. CASE m = l
        BY <1>1, <2>1
    <2>2. CASE m # l
        <3>1. PICK f \in DOMAIN outbox : outbox[f].listing = m
            BY <1>14, <2>2 DEF History, RowHasEvent
        <3> QED BY <1>1, <3>1
    <2> QED BY <2>1, <2>2
<1> QED BY <1>4, <1>8, <1>9, <1>10, <1>11, <1>12, <1>13, <1>14
    DEF History, RowsTogether, OpenIsLast, OpenHasRow,
        DeletionIsLast, LatestIsRow, BothHaveLatest, RowHasEvent

(* A committed update is the latest event of its row.                       *)
LEMMA CommitHistory ==
    ASSUME OutboxType, History, NEW e \in DOMAIN outbox, Commit(e)
    PROVE  OutboxType' /\ History'
<1> DEFINE ev == outbox[e]
<1>1. /\ ev \in Events /\ ev.kind \in Kinds /\ ev.listing \in Listings
      /\ ev.kind = "product_listing" => ev.payload \in Contents
      /\ ev.kind = "inventory" => ev.payload \in Stocks
    BY Positions, EventFields
<1>2. /\ ev.open /\ ev.op = "UPDATE" /\ ~ev.processed
      /\ product[ev.listing] # None /\ stock[ev.listing] # None
    BY <1>1 DEF Commit, OutboxType, EventOK, History, OpenHasRow, RowsTogether
<1>3. outbox' = [outbox EXCEPT ![e] = [ev EXCEPT !.open = FALSE]]
    BY DEF Commit
<1>4. [ev EXCEPT !.open = FALSE] \in Events
    BY <1>1 DEF Events, EventsOf
<1>5. /\ outbox' \in Seq(Events) /\ DOMAIN outbox' = DOMAIN outbox
      /\ Len(outbox') = Len(outbox)
    BY <1>3, <1>4 DEF OutboxType
<1>6. /\ \A f \in DOMAIN outbox : f # e => outbox'[f] = outbox[f]
      /\ outbox'[e].kind = ev.kind /\ outbox'[e].listing = ev.listing
      /\ outbox'[e].op = "UPDATE" /\ outbox'[e].payload = ev.payload
      /\ outbox'[e].open = FALSE
    BY <1>1, <1>2, <1>3 DEF OutboxType, Events, EventsOf
<1>7. /\ UNCHANGED <<vendor, changed>>
      /\ product' = [product EXCEPT ![ev.listing] =
                       IF ev.kind = "inventory" THEN @ ELSE ev.payload]
      /\ stock' = [stock EXCEPT ![ev.listing] =
                     IF ev.kind = "inventory" THEN ev.payload ELSE @]
    BY <1>1 DEF Commit, OutboxType, Kinds
<1>8. OutboxType'
    <2>1. \A f \in DOMAIN outbox' : EventOK(f)'
        BY <1>5, <1>6 DEF OutboxType, EventOK
    <2>2. /\ product' \in [Listings -> Contents \union {None}]
          /\ stock' \in [Listings -> Stocks \union {None}]
        BY <1>1, <1>7 DEF OutboxType, Kinds
    <2> QED BY <1>5, <1>7, <2>1, <2>2 DEF OutboxType
<1>9. \A f, g \in DOMAIN outbox : /\ SameRow(f, g)' <=> SameRow(f, g)
                                  /\ Rival(f, g)' <=> Rival(f, g)
    BY <1>6 DEF SameRow, Of, Rival
<1>10. \A f \in DOMAIN outbox : SameRow(e, f) => f <= e
    <2>1. \A f \in DOMAIN outbox : SameRow(e, f) => Rival(e, f)
        BY DEF SameRow, Of, Rival
    <2> QED BY <1>2, <2>1 DEF History, OpenIsLast
<1>11. Latest(e)'
    BY <1>5, <1>6, <1>9, <1>10 DEF Latest
<1>12. ASSUME NEW f \in DOMAIN outbox, Latest(f)', f # e
       PROVE  Latest(f) /\ ~SameRow(e, f)
    <2>1. e \in Nat /\ f \in Nat
        BY Positions
    <2>2. ~SameRow(f, e)
        <3>1. SUFFICES ASSUME SameRow(f, e) PROVE FALSE
            OBVIOUS
        <3>2. e <= f
            BY <1>5, <1>6, <1>9, <1>12, <3>1 DEF Latest
        <3>3. f <= e
            BY <1>10, <3>1 DEF SameRow, Of
        <3> QED BY <1>12, <2>1, <3>2, <3>3
    <2>3. Latest(f)
        BY <1>5, <1>6, <1>9, <1>12, <2>2 DEF Latest
    <2> QED BY <2>2, <2>3 DEF SameRow, Of
<1>13. ASSUME NEW f \in DOMAIN outbox', Latest(f)'
       PROVE  SourceRow(outbox[f].kind, outbox[f].listing)' = RowAfter(f)'
    <2>1. CASE f = e
        BY <1>1, <1>6, <1>7, <2>1 DEF OutboxType, SourceRow, RowAfter, Kinds
    <2>2. CASE f # e
        <3>1. Latest(f) /\ ~SameRow(e, f) /\ outbox'[f] = outbox[f] /\ f \in DOMAIN outbox
            BY <1>5, <1>6, <1>12, <1>13, <2>2
        <3>2. SourceRow(outbox[f].kind, outbox[f].listing) = RowAfter(f)
            BY <3>1 DEF History, LatestIsRow
        <3>3. outbox[f].listing \in Listings /\ outbox[f].kind \in Kinds
            BY <3>1, Positions, EventFields
        <3>4. outbox[f].listing # ev.listing \/ outbox[f].kind # ev.kind
            BY <3>1 DEF SameRow, Of
        <3> QED BY <1>1, <1>7, <3>1, <3>2, <3>3, <3>4
                DEF OutboxType, SourceRow, RowAfter, Kinds
    <2> QED BY <2>1, <2>2
<1>14. \A l \in Listings : /\ product'[l] = None <=> product[l] = None
                           /\ stock'[l] = None <=> stock[l] = None
    <2>1. CASE ev.kind = "inventory"
        BY <1>1, <1>2, <1>7, <2>1, NoneApart DEF OutboxType
    <2>2. CASE ev.kind = "product_listing"
        BY <1>1, <1>2, <1>7, <2>2, NoneApart DEF OutboxType
    <2> QED BY <1>1, <2>1, <2>2 DEF Kinds
<1>15. ASSUME NEW f \in DOMAIN outbox', NEW k \in Kinds
       PROVE  \E g \in DOMAIN outbox' : Of(g, k, outbox[f].listing)' /\ Latest(g)'
    <2>1. outbox'[f].listing = outbox[f].listing
        BY <1>5, <1>6
    <2>2. CASE Of(e, k, outbox[f].listing)
        BY <1>5, <1>6, <1>11, <2>1, <2>2 DEF Of
    <2>3. CASE ~Of(e, k, outbox[f].listing)
        <3>1. PICK g \in DOMAIN outbox : Of(g, k, outbox[f].listing) /\ Latest(g)
            BY <1>5 DEF History, BothHaveLatest
        <3>2. g # e /\ ~SameRow(g, e)
            BY <2>3, <3>1 DEF SameRow, Of
        <3>3. Latest(g)'
            BY <1>5, <1>6, <1>9, <3>1, <3>2 DEF Latest
        <3> QED BY <1>5, <1>6, <2>1, <3>1, <3>2, <3>3 DEF Of
    <2> QED BY <2>2, <2>3
<1>16. ASSUME NEW f \in DOMAIN outbox', outbox'[f].open
       PROVE  /\ product'[outbox'[f].listing] # None
              /\ \A g \in DOMAIN outbox' : Rival(f, g)' => g <= f
    <2>1. f \in DOMAIN outbox /\ f # e /\ outbox[f].open
        BY <1>5, <1>6, <1>16
    <2>2. outbox'[f] = outbox[f] /\ outbox[f].listing \in Listings
        BY <1>6, <2>1, Positions, EventFields
    <2> QED BY <1>5, <1>9, <1>14, <2>1, <2>2 DEF History, OpenIsLast, OpenHasRow
<1>17. ASSUME NEW f \in DOMAIN outbox', NEW g \in DOMAIN outbox',
              SameRow(f, g)', outbox'[f].op = "DELETE"
       PROVE  g <= f
    BY <1>5, <1>6, <1>9, <1>17 DEF History, DeletionIsLast
<1>18. ASSUME NEW l \in Listings, product'[l] # None
       PROVE  \E f \in DOMAIN outbox' : outbox'[f].listing = l
    <2>1. PICK f \in DOMAIN outbox : outbox[f].listing = l
        BY <1>14, <1>18 DEF History, RowHasEvent
    <2> QED BY <1>5, <1>6, <2>1
<1> QED BY <1>8, <1>13, <1>14, <1>15, <1>16, <1>17, <1>18
    DEF History, RowsTogether, OpenIsLast, OpenHasRow,
        DeletionIsLast, LatestIsRow, BothHaveLatest, RowHasEvent

(* A mark or a failure changes neither what an event says nor when.         *)
LEMMA FlagHistory ==
    ASSUME OutboxType, History, NEW c \in DOMAIN outbox, ~outbox[c].open,
           outbox' = Failed(c) \/ outbox' = [outbox EXCEPT ![c].processed = TRUE],
           UNCHANGED sourceVars
    PROVE  OutboxType' /\ History'
<1>1. outbox[c] \in Events
    BY Positions
<1>2. PICK ev \in Events :
          /\ outbox' = [outbox EXCEPT ![c] = ev]
          /\ ev.kind = outbox[c].kind /\ ev.listing = outbox[c].listing
          /\ ev.op = outbox[c].op /\ ev.payload = outbox[c].payload
          /\ ev.open = outbox[c].open
    <2>1. CASE outbox' = Failed(c)
        <3> DEFINE ev == [outbox[c] EXCEPT !.attempts = @ + 1]
        <3>1. ev \in Events
            BY <1>1 DEF Events, EventsOf
        <3>2. /\ ev.kind = outbox[c].kind /\ ev.listing = outbox[c].listing
              /\ ev.op = outbox[c].op /\ ev.payload = outbox[c].payload
              /\ ev.open = outbox[c].open
            BY <1>1 DEF Events, EventsOf
        <3>3. outbox' = [outbox EXCEPT ![c] = ev]
            BY <2>1 DEF Failed
        <3> HIDE DEF ev
        <3> QED BY <3>1, <3>2, <3>3
    <2>2. CASE outbox' = [outbox EXCEPT ![c].processed = TRUE]
        <3> DEFINE ev == [outbox[c] EXCEPT !.processed = TRUE]
        <3>1. ev \in Events
            BY <1>1 DEF Events, EventsOf
        <3>2. /\ ev.kind = outbox[c].kind /\ ev.listing = outbox[c].listing
              /\ ev.op = outbox[c].op /\ ev.payload = outbox[c].payload
              /\ ev.open = outbox[c].open
            BY <1>1 DEF Events, EventsOf
        <3>3. outbox' = [outbox EXCEPT ![c] = ev]
            BY <2>2
        <3> HIDE DEF ev
        <3> QED BY <3>1, <3>2, <3>3
    <2> QED BY <2>1, <2>2
<1>3. /\ outbox' \in Seq(Events) /\ DOMAIN outbox' = DOMAIN outbox
      /\ Len(outbox') = Len(outbox)
    BY <1>2 DEF OutboxType
<1>4. UNCHANGED <<product, stock, vendor, changed>>
    BY DEF sourceVars
<1>5. \A e \in DOMAIN outbox :
          /\ outbox'[e].kind = outbox[e].kind /\ outbox'[e].listing = outbox[e].listing
          /\ outbox'[e].op = outbox[e].op /\ outbox'[e].payload = outbox[e].payload
          /\ outbox'[e].open = outbox[e].open
          /\ e # c => outbox'[e] = outbox[e]
    BY <1>2 DEF OutboxType
<1>6. OutboxType'
    <2>1. \A e \in DOMAIN outbox : EventOK(e)'
        BY <1>5 DEF OutboxType, EventOK
    <2> QED BY <1>3, <1>4, <2>1 DEF OutboxType
<1>7. \A e, f \in DOMAIN outbox : /\ SameRow(e, f)' <=> SameRow(e, f)
                                  /\ Rival(e, f)' <=> Rival(e, f)
    BY <1>5 DEF SameRow, Of, Rival
<1>8. \A e \in DOMAIN outbox : Latest(e)' <=> Latest(e)
    BY <1>3, <1>5, <1>7 DEF Latest
<1>9. \A e \in DOMAIN outbox : RowAfter(e)' = RowAfter(e)
    BY <1>5 DEF RowAfter
<1>10. \A e \in DOMAIN outbox : SourceRow(outbox[e].kind, outbox[e].listing)'
                                    = SourceRow(outbox[e].kind, outbox[e].listing)
    BY <1>4, <1>5 DEF SourceRow
<1>11. \A e, f \in DOMAIN outbox, k \in Kinds :
          Of(f, k, outbox[e].listing)' <=> Of(f, k, outbox[e].listing)
    BY <1>5 DEF Of
<1>12. ASSUME NEW e \in DOMAIN outbox', NEW k \in Kinds
       PROVE  \E f \in DOMAIN outbox' : Of(f, k, outbox[e].listing)' /\ Latest(f)'
    <2>1. PICK f \in DOMAIN outbox : Of(f, k, outbox[e].listing) /\ Latest(f)
        BY <1>3 DEF History, BothHaveLatest
    <2> QED BY <1>3, <1>8, <1>11, <2>1
<1>13. ASSUME NEW l \in Listings, product'[l] # None
       PROVE  \E f \in DOMAIN outbox' : outbox'[f].listing = l
    <2>1. PICK f \in DOMAIN outbox : outbox[f].listing = l
        BY <1>4, <1>13 DEF History, RowHasEvent
    <2> QED BY <1>3, <1>5, <2>1
<1>14. /\ \A l \in Listings : product'[l] = None <=> stock'[l] = None
       /\ \A e, f \in DOMAIN outbox' : Rival(e, f)' /\ outbox'[e].open => f <= e
       /\ \A e \in DOMAIN outbox' :
             outbox'[e].open => product'[outbox'[e].listing] # None
       /\ \A e, f \in DOMAIN outbox' :
             SameRow(e, f)' /\ outbox'[e].op = "DELETE" => f <= e
    BY <1>3, <1>4, <1>5, <1>7 DEF History, RowsTogether, OpenIsLast, OpenHasRow, DeletionIsLast
<1>15. \A e \in DOMAIN outbox' :
          Latest(e)' => SourceRow(outbox[e].kind, outbox[e].listing)' = RowAfter(e)'
    BY <1>3, <1>8, <1>9, <1>10 DEF History, LatestIsRow
<1> QED BY <1>6, <1>12, <1>13, <1>14, <1>15
    DEF History, RowsTogether, OpenIsLast, OpenHasRow,
        DeletionIsLast, LatestIsRow, BothHaveLatest, RowHasEvent

SourceStep == (\E l \in Listings : Source(l)) \/ (\E e \in DOMAIN outbox : Commit(e))

LEMMA SourceHistory ==
    ASSUME OutboxType, History, SourceStep
    PROVE  OutboxType' /\ History'
<1>0. \A l \in Listings : product[l] = None <=> stock[l] = None
    BY DEF History, RowsTogether
<1>1. ASSUME NEW l \in Listings, NEW c \in Categories, NEW r \in Revisions,
             NEW n \in Stocks, CreateListing(l, c, r, n)
      PROVE  OutboxType' /\ History'
    <2> DEFINE row == [cat |-> c, rev |-> r]
               a == ListingEvent(l, "INSERT", row, FALSE)
               b == InventoryEvent(l, "INSERT", n, FALSE)
    <2>1. row \in Contents
        BY DEF Contents
    <2>2. Emit(<<a, b>>) /\ UNCHANGED <<vendor, changed>>
          /\ product' = [product EXCEPT ![l] = row] /\ stock' = [stock EXCEPT ![l] = n]
          /\ \A e \in DOMAIN outbox : outbox[e].listing # l
        BY <1>1 DEF CreateListing
    <2> HIDE DEF row
    <2>3. /\ a \in Events /\ b \in Events /\ a.listing = l /\ b.listing = l
          /\ a.kind = "product_listing" /\ b.kind = "inventory"
          /\ a.op = "INSERT" /\ b.op = "INSERT" /\ a.payload = row /\ b.payload = n
          /\ a.open = FALSE /\ b.open = FALSE /\ a.processed = FALSE /\ b.processed = FALSE
        BY <2>1 DEF ListingEvent, InventoryEvent, Event, Events, EventsOf
    <2> HIDE DEF a, b
    <2>4. /\ product' \in [Listings -> Contents \union {None}]
          /\ stock' \in [Listings -> Stocks \union {None}]
          /\ product'[l] = row /\ stock'[l] = n
          /\ \A m \in Listings \ {l} : product'[m] = product[m] /\ stock'[m] = stock[m]
        BY <2>1, <2>2 DEF OutboxType
    <2> QED BY <2>2, <2>3, <2>4, TwoEvents
<1>2. ASSUME NEW l \in Listings, NEW c \in Categories, NEW r \in Revisions,
             UpdateListing(l, c, r)
      PROVE  OutboxType' /\ History'
    <2>1. [cat |-> c, rev |-> r] \in Contents
        BY DEF Contents
    <2>2. SourceRow("product_listing", l) # None
        BY <1>2 DEF UpdateListing, SourceRow
    <2> QED BY <1>2, <2>1, <2>2, OpenUpdate DEF UpdateListing, ListingEvent, Kinds
<1>3. ASSUME NEW l \in Listings, NEW n \in Stocks, ChangeStock(l, n)
      PROVE  OutboxType' /\ History'
    <2>1. SourceRow("inventory", l) # None
        BY <1>3 DEF ChangeStock, SourceRow
    <2> QED BY <1>3, <2>1, OpenUpdate DEF ChangeStock, InventoryEvent, Kinds
<1>4. ASSUME NEW l \in Listings, DeleteListing(l)
      PROVE  OutboxType' /\ History'
    <2> DEFINE a == InventoryEvent(l, "DELETE", stock[l], FALSE)
               b == ListingEvent(l, "DELETE", product[l], FALSE)
    <2>1. product[l] # None /\ stock[l] # None
        BY <1>0, <1>4 DEF DeleteListing
    <2>2. product[l] \in Contents /\ stock[l] \in Stocks
        BY <2>1 DEF OutboxType
    <2>3. (Emit(<<a, b>>) \/ Emit(<<b, a>>)) /\ UNCHANGED <<vendor, changed>>
          /\ product' = [product EXCEPT ![l] = None] /\ stock' = [stock EXCEPT ![l] = None]
        BY <1>4 DEF DeleteListing
    <2>4. ASSUME NEW e \in DOMAIN outbox, outbox[e].listing = l
          PROVE  outbox[e].open = FALSE /\ outbox[e].op # "DELETE"
        <3>1. outbox[e].kind \in Kinds /\ outbox[e].open \in BOOLEAN
            BY Positions, EventFields
        <3>2. ~outbox[e].open
            BY <1>4, <2>4, <3>1 DEF DeleteListing, Locked, OpenEvents, Kinds
        <3>3. outbox[e].op = "DELETE" => Latest(e)
            BY <3>2 DEF Latest, History, DeletionIsLast
        <3>4. outbox[e].op = "DELETE" => SourceRow(outbox[e].kind, l) = None
            BY <2>4, <3>3 DEF History, LatestIsRow, RowAfter
        <3> QED BY <2>1, <3>1, <3>2, <3>4 DEF SourceRow
    <2>5. /\ a \in Events /\ b \in Events /\ a.listing = l /\ b.listing = l
          /\ a.kind = "inventory" /\ b.kind = "product_listing"
          /\ a.op = "DELETE" /\ b.op = "DELETE"
          /\ a.open = FALSE /\ b.open = FALSE /\ a.processed = FALSE /\ b.processed = FALSE
        BY <2>2 DEF ListingEvent, InventoryEvent, Event, Events, EventsOf
    <2> HIDE DEF a, b
    <2>6. /\ product' \in [Listings -> Contents \union {None}]
          /\ stock' \in [Listings -> Stocks \union {None}]
          /\ product'[l] = None /\ stock'[l] = None
          /\ \A m \in Listings \ {l} : product'[m] = product[m] /\ stock'[m] = stock[m]
        BY <2>3 DEF OutboxType
    <2>7. CASE Emit(<<a, b>>)
        BY <2>3, <2>4, <2>5, <2>6, <2>7, TwoEvents
    <2>8. CASE Emit(<<b, a>>)
        BY <2>3, <2>4, <2>5, <2>6, <2>8, TwoEvents
    <2> QED BY <2>3, <2>7, <2>8
<1>5. ASSUME NEW l \in Listings, NEW st \in Statuses, UpdateVendorStatus(l, st)
      PROVE  OutboxType' /\ History'
    <2>1. UNCHANGED <<product, stock, outbox>>
        BY <1>5 DEF UpdateVendorStatus
    <2>2. vendor' \in [Listings -> Statuses] /\ changed' \in [Listings -> 0..Len(outbox')]
        <3>1. Len(outbox) \in 0..Len(outbox)
            BY Positions
        <3> QED BY <1>5, <2>1, <3>1 DEF UpdateVendorStatus, OutboxType
    <2>3. OutboxType'
        <3>1. \A e \in DOMAIN outbox' : EventOK(e)'
            BY <2>1 DEF OutboxType, EventOK
        <3> QED BY <2>1, <2>2, <3>1 DEF OutboxType
    <2>4. History'
        BY <2>1 DEF History, RowsTogether, OpenIsLast, OpenHasRow,
            DeletionIsLast, LatestIsRow, BothHaveLatest, RowHasEvent,
            Rival, SameRow, Of, Latest, SourceRow, RowAfter
    <2> QED BY <2>3, <2>4
<1> QED BY <1>1, <1>2, <1>3, <1>4, <1>5, CommitHistory DEF SourceStep, Source

(* A source step keeps what events say and what was done about them, and    *)
(* leaves the read side alone.                                              *)
LEMMA SourceFacts ==
    ASSUME OutboxType, SourceStep
    PROVE  /\ UNCHANGED <<view, phase, batch, readVendor, readStock>>
           /\ DOMAIN outbox \subseteq DOMAIN outbox'
           /\ \A e \in DOMAIN outbox :
                 /\ outbox'[e].kind = outbox[e].kind /\ outbox'[e].listing = outbox[e].listing
                 /\ outbox'[e].op = outbox[e].op /\ outbox'[e].payload = outbox[e].payload
                 /\ outbox'[e].processed = outbox[e].processed
                 /\ outbox'[e].attempts = outbox[e].attempts
                 /\ outbox'[e].open => outbox[e].open
           /\ \A e \in DOMAIN outbox' \ DOMAIN outbox :
                 /\ ~outbox'[e].processed /\ outbox'[e].attempts = 0
                 /\ \A f \in DOMAIN outbox : f < e
<1> DEFINE Kept == \A e \in DOMAIN outbox :
                 /\ outbox'[e].kind = outbox[e].kind /\ outbox'[e].listing = outbox[e].listing
                 /\ outbox'[e].op = outbox[e].op /\ outbox'[e].payload = outbox[e].payload
                 /\ outbox'[e].processed = outbox[e].processed
                 /\ outbox'[e].attempts = outbox[e].attempts
                 /\ outbox'[e].open => outbox[e].open
           Fresh == \A e \in DOMAIN outbox' \ DOMAIN outbox :
                 /\ ~outbox'[e].processed /\ outbox'[e].attempts = 0
                 /\ \A f \in DOMAIN outbox : f < e
           Read == UNCHANGED <<view, phase, batch, readVendor, readStock>>
           Sub == DOMAIN outbox \subseteq DOMAIN outbox'
<1>0. DOMAIN outbox = 1..Len(outbox) /\ Len(outbox) \in Nat /\ outbox \in Seq(Events)
    BY Positions DEF OutboxType
<1>1. ASSUME NEW a, NEW b, Emit(<<a, b>>), a.processed = FALSE, b.processed = FALSE,
             a.attempts = 0, b.attempts = 0
      PROVE  Kept /\ Fresh /\ Sub
    BY <1>0, <1>1 DEF Emit
<1>2. ASSUME NEW a, Emit(<<a>>), a.processed = FALSE, a.attempts = 0
      PROVE  Kept /\ Fresh /\ Sub
    BY <1>0, <1>2 DEF Emit
<1>3. ASSUME NEW l \in Listings, NEW c \in Categories, NEW r \in Revisions,
             NEW n \in Stocks, CreateListing(l, c, r, n)
      PROVE  Kept /\ Fresh /\ Read /\ Sub
    <2> DEFINE row == [cat |-> c, rev |-> r]
               a == ListingEvent(l, "INSERT", row, FALSE)
               b == InventoryEvent(l, "INSERT", n, FALSE)
    <2>1. Emit(<<a, b>>) /\ Read
        BY <1>3 DEF CreateListing, localVars
    <2>2. a.processed = FALSE /\ b.processed = FALSE /\ a.attempts = 0 /\ b.attempts = 0
        BY DEF ListingEvent, InventoryEvent, Event
    <2> HIDE DEF a, b, Read, Kept, Fresh
    <2> QED BY <1>1, <2>1, <2>2
<1>4. ASSUME NEW l \in Listings, NEW c \in Categories, NEW r \in Revisions,
             UpdateListing(l, c, r)
      PROVE  Kept /\ Fresh /\ Read /\ Sub
    <2> DEFINE a == ListingEvent(l, "UPDATE", [cat |-> c, rev |-> r], TRUE)
    <2>1. Emit(<<a>>) /\ Read
        BY <1>4 DEF UpdateListing, localVars
    <2>2. a.processed = FALSE /\ a.attempts = 0
        BY DEF ListingEvent, Event
    <2> HIDE DEF a, Read, Kept, Fresh
    <2> QED BY <1>2, <2>1, <2>2
<1>5. ASSUME NEW l \in Listings, NEW n \in Stocks, ChangeStock(l, n)
      PROVE  Kept /\ Fresh /\ Read /\ Sub
    <2> DEFINE a == InventoryEvent(l, "UPDATE", n, TRUE)
    <2>1. Emit(<<a>>) /\ Read
        BY <1>5 DEF ChangeStock, localVars
    <2>2. a.processed = FALSE /\ a.attempts = 0
        BY DEF InventoryEvent, Event
    <2> HIDE DEF a, Read, Kept, Fresh
    <2> QED BY <1>2, <2>1, <2>2
<1>6. ASSUME NEW l \in Listings, DeleteListing(l)
      PROVE  Kept /\ Fresh /\ Read /\ Sub
    <2> DEFINE a == InventoryEvent(l, "DELETE", stock[l], FALSE)
               b == ListingEvent(l, "DELETE", product[l], FALSE)
    <2>1. (Emit(<<a, b>>) \/ Emit(<<b, a>>)) /\ Read
        BY <1>6 DEF DeleteListing, localVars
    <2>2. a.processed = FALSE /\ b.processed = FALSE /\ a.attempts = 0 /\ b.attempts = 0
        BY DEF ListingEvent, InventoryEvent, Event
    <2> HIDE DEF a, b, Read, Kept, Fresh
    <2> QED BY <1>1, <2>1, <2>2
<1>7. ASSUME NEW l \in Listings, NEW st \in Statuses, UpdateVendorStatus(l, st)
      PROVE  Kept /\ Fresh /\ Read /\ Sub
    BY <1>7 DEF UpdateVendorStatus, localVars
<1>8. ASSUME NEW e \in DOMAIN outbox, Commit(e)
      PROVE  Kept /\ Fresh /\ Read /\ Sub
    <2>1. outbox' = [outbox EXCEPT ![e].open = FALSE] /\ Read
        BY <1>8 DEF Commit, localVars
    <2>2. outbox[e] \in Events
        BY Positions
    <2>3. DOMAIN outbox' = DOMAIN outbox
          /\ \A f \in DOMAIN outbox \ {e} : outbox'[f] = outbox[f]
        BY <1>0, <2>1
    <2>4. outbox'[e] = [outbox[e] EXCEPT !.open = FALSE]
        BY <1>0, <2>1
    <2>5. /\ outbox'[e].kind = outbox[e].kind /\ outbox'[e].listing = outbox[e].listing
          /\ outbox'[e].op = outbox[e].op /\ outbox'[e].payload = outbox[e].payload
          /\ outbox'[e].processed = outbox[e].processed
          /\ outbox'[e].attempts = outbox[e].attempts /\ outbox'[e].open = FALSE
        BY <2>2, <2>4 DEF Events, EventsOf
    <2> QED BY <2>1, <2>3, <2>5
<1> HIDE DEF Read, Kept, Fresh
<1>9. Kept /\ Fresh /\ Read /\ Sub
    BY <1>3, <1>4, <1>5, <1>6, <1>7, <1>8 DEF SourceStep, Source
<1> QED BY <1>9 DEF Read, Kept, Fresh

-----------------------------------------------------------------------------
(* The process keeps its own state in order.                                *)

ProjectorStep == \E p \in Projectors : Projector(p) \/ Throw(p) \/ Crash(p)

LEMMA FlagFacts ==
    ASSUME OutboxType, NEW c \in DOMAIN outbox,
           outbox' = Failed(c) \/ outbox' = [outbox EXCEPT ![c].processed = TRUE]
    PROVE  /\ DOMAIN outbox' = DOMAIN outbox
           /\ \A e \in DOMAIN outbox :
                 /\ outbox'[e].kind = outbox[e].kind /\ outbox'[e].listing = outbox[e].listing
                 /\ outbox'[e].op = outbox[e].op /\ outbox'[e].payload = outbox[e].payload
                 /\ outbox'[e].open = outbox[e].open
                 /\ e # c => outbox'[e] = outbox[e]
           /\ outbox' = Failed(c) => /\ outbox'[c].processed = outbox[c].processed
                                     /\ outbox'[c].attempts = outbox[c].attempts + 1
           /\ outbox' # Failed(c) => /\ outbox'[c].processed = TRUE
                                     /\ outbox'[c].attempts = outbox[c].attempts
<1>1. outbox \in Seq(Events) /\ outbox[c] \in Events
    BY Positions DEF OutboxType
<1>2. DOMAIN outbox' = DOMAIN outbox /\ \A e \in DOMAIN outbox \ {c} : outbox'[e] = outbox[e]
    BY <1>1 DEF Failed
<1>3. /\ outbox' = Failed(c) => outbox'[c] = [outbox[c] EXCEPT !.attempts = @ + 1]
      /\ outbox' # Failed(c) => outbox'[c] = [outbox[c] EXCEPT !.processed = TRUE]
    BY <1>1 DEF Failed
<1>4. CASE outbox' = Failed(c)
    <2>1. outbox'[c] = [outbox[c] EXCEPT !.attempts = @ + 1]
        BY <1>3, <1>4
    <2>2. /\ outbox'[c].kind = outbox[c].kind /\ outbox'[c].listing = outbox[c].listing
          /\ outbox'[c].op = outbox[c].op /\ outbox'[c].payload = outbox[c].payload
          /\ outbox'[c].open = outbox[c].open /\ outbox'[c].processed = outbox[c].processed
          /\ outbox'[c].attempts = outbox[c].attempts + 1
        BY <1>1, <2>1 DEF Events, EventsOf
    <2> QED BY <1>2, <1>4, <2>2
<1>5. CASE outbox' # Failed(c)
    <2>1. outbox'[c] = [outbox[c] EXCEPT !.processed = TRUE]
        BY <1>3, <1>5
    <2>2. /\ outbox'[c].kind = outbox[c].kind /\ outbox'[c].listing = outbox[c].listing
          /\ outbox'[c].op = outbox[c].op /\ outbox'[c].payload = outbox[c].payload
          /\ outbox'[c].open = outbox[c].open /\ outbox'[c].processed = TRUE
          /\ outbox'[c].attempts = outbox[c].attempts
        BY <1>1, <2>1 DEF Events, EventsOf
    <2> QED BY <1>2, <1>5, <2>2
<1> QED BY <1>4, <1>5

LEMMA SourcePass ==
    ASSUME BaseInv, SourceStep
    PROVE  PassType'
<1>0. OutboxType /\ PassType
    BY DEF BaseInv
<1>1. /\ UNCHANGED <<view, phase, batch, readVendor, readStock>>
      /\ DOMAIN outbox \subseteq DOMAIN outbox'
      /\ \A e \in DOMAIN outbox' : outbox'[e].attempts <= MaxAttempts
      /\ \A e \in DOMAIN outbox : (Pending(e) => Pending(e)') /\ (Upserts(e)' <=> Upserts(e))
    BY <1>0, SourceFacts, ProjectorAssumption DEF PassType, Pending, Upserts
<1>2. ASSUME NEW p \in Projectors PROVE PassOK(p)'
    <2>1. PassOK(p) /\ batch'[p] = batch[p] /\ phase'[p] = phase[p]
          /\ readVendor'[p] = readVendor[p] /\ batch[p] \subseteq DOMAIN outbox
        BY <1>0, <1>1 DEF PassType
    <2>2. Current(p)' = Current(p)
        BY <2>1 DEF Current
    <2>3. batch[p] # {} => Current(p) \in DOMAIN outbox
        BY CurrentIs
    <2>4. batch[p] # {} => (Upserts(Current(p))' <=> Upserts(Current(p)))
        BY <1>1, <2>2, <2>3 DEF Upserts
    <2>5. \A e \in batch'[p] : Pending(e)'
        BY <1>1, <2>1 DEF PassOK
    <2>6. batch[p] = {} => phase[p] = "idle"
        BY <2>1 DEF PassOK
    <2> QED BY <2>1, <2>4, <2>5, <2>6 DEF PassOK
<1> QED BY <1>0, <1>1, <1>2 DEF PassType

(* The next event of a batch, or none.                                      *)
LEMMA TakeUpPass ==
    ASSUME OneProjector, BaseInv, NEW p \in Projectors, NEW S \in SUBSET DOMAIN outbox,
           TakeUp(p, S), UNCHANGED view, DOMAIN outbox' = DOMAIN outbox,
           \A e \in DOMAIN outbox :
              /\ outbox'[e].kind = outbox[e].kind /\ outbox'[e].op = outbox[e].op
              /\ outbox'[e].attempts <= MaxAttempts,
           \A e \in S : Pending(e)'
    PROVE  PassType'
<1>0. OutboxType /\ PassType
    BY DEF BaseInv
<1>1. /\ batch' = [batch EXCEPT ![p] = S] /\ batch'[p] = S
      /\ phase'[p] = IF S = {} THEN "idle" ELSE FirstCall(Least(S))
      /\ readVendor'[p] = None /\ readStock'[p] = 0
      /\ phase' \in [Projectors -> Phases]
      /\ readVendor' \in [Projectors -> Statuses \union {None}]
      /\ readStock' \in [Projectors -> Nat]
    BY <1>0, TakeUpFacts
<1>2. batch' \in [Projectors -> SUBSET DOMAIN outbox']
    BY <1>0, <1>1 DEF PassType
<1>3. PassOK(p)'
    <2>1. CASE S = {}
        BY <1>1, <2>1 DEF PassOK
    <2>2. CASE S # {}
        <3>1. Least(S) \in DOMAIN outbox
            BY <1>0, <2>2, Positions, LeastIs
        <3>2. Current(p)' = Least(S)
            BY <1>1 DEF Current
        <3>3. Upserts(Current(p))' <=> Upserts(Least(S))
            BY <3>1, <3>2 DEF Upserts
        <3>4. phase'[p] = FirstCall(Least(S))
            BY <1>1, <2>2
        <3>5. phase'[p] = IF Upserts(Least(S)) THEN "vendor" ELSE "write"
            BY <3>4 DEF FirstCall, Upserts
        <3> QED BY <1>1, <2>2, <3>3, <3>5 DEF PassOK
    <2> QED BY <2>1, <2>2
<1> QED BY <1>0, <1>1, <1>2, <1>3 DEF PassType, OneProjector

LEMMA ProjectorHistory ==
    ASSUME BaseInv, ProjectorStep
    PROVE  OutboxType' /\ History'
<1>0. OutboxType /\ History /\ PassType
    BY DEF BaseInv
<1> PICK p \in Projectors : Projector(p) \/ Throw(p) \/ Crash(p)
    BY DEF ProjectorStep
<1>1. ASSUME phase[p] # "idle", outbox' = [outbox EXCEPT ![Current(p)].processed = TRUE]
              \/ outbox' = Failed(Current(p)), UNCHANGED sourceVars
      PROVE  OutboxType' /\ History'
    <2>1. batch[p] # {}
        BY <1>0, <1>1 DEF PassType, PassOK
    <2>2. Current(p) \in DOMAIN outbox /\ ~outbox[Current(p)].open
        BY <2>1, CurrentIs DEF Pending
    <2> QED BY <1>0, <1>1, <2>2, FlagHistory
<1>2. CASE MarkProcessed(p) \/ RecordFailure(p)
    BY <1>1, <1>2 DEF MarkProcessed, RecordFailure, Marked
<1>3. CASE UNCHANGED <<sourceVars, outbox>>
    <2>1. UNCHANGED <<product, stock, vendor, changed, outbox>>
        BY <1>3 DEF sourceVars
    <2>2. OutboxType'
        BY <1>0, <2>1 DEF OutboxType, EventOK
    <2>3. History'
        BY <1>0, <2>1 DEF History, RowsTogether, OpenIsLast, OpenHasRow,
            DeletionIsLast, LatestIsRow, BothHaveLatest, RowHasEvent,
            Rival, SameRow, Of, Latest, SourceRow, RowAfter
    <2> QED BY <2>2, <2>3
<1> QED BY <1>2, <1>3 DEF Projector, EmptyPoll, ProcessBatch, ReadVendor, ReadStock,
    WriteView, Throw, Crash, vars

(* What the write of the view leaves in the row.                            *)
LEMMA Writes ==
    ASSUME BaseInv, NEW p \in Projectors, phase[p] = "write",
           NEW c, c = Current(p), NEW row, row = view[Target(p)],
           NEW new, new = Applied(p, c, row)
    PROVE  /\ new \in ViewRows \union {None}
           /\ new # None => new.synced = c
           /\ Upserts(c) => /\ new # None /\ Columns("product_listing", new) = outbox[c].payload
                            /\ new.vendor = readVendor[p] /\ new.avail = readStock[p]
           /\ outbox[c].kind = "inventory" =>
                 /\ new = None <=> row = None
                 /\ new # None =>
                       /\ Columns("product_listing", new) = Columns("product_listing", row)
                       /\ new.vendor = row.vendor /\ new.avail = outbox[c].payload
           /\ ~Upserts(c) /\ outbox[c].kind = "product_listing" => new = None
<1>0. OutboxType /\ PassType
    BY DEF BaseInv
<1>1. batch[p] # {} /\ (Upserts(c) => readVendor[p] \in Statuses) /\ readStock[p] \in Nat
    BY <1>0 DEF PassType, PassOK
<1>2. c \in Nat /\ outbox[c] \in Events /\ Target(p) \in Listings
    BY <1>1, CurrentIs
<1>3. row \in ViewRows \union {None}
    BY <1>0, <1>2 DEF PassType
<1>4. outbox[c].kind \in Kinds
    BY <1>2, EventFields
<1>5. CASE Upserts(c)
    <2>1. new = ListingRow(p, c, row) /\ outbox[c].kind = "product_listing"
        BY <1>5 DEF Upserts, Applied
    <2>2. outbox[c].payload \in Contents
        BY <1>2, <2>1, EventFields
    <2>3. new \in ViewRows /\ new.synced = c
          /\ new.vendor = readVendor[p] /\ new.avail = readStock[p]
          /\ [cat |-> new.cat, rev |-> new.rev] = outbox[c].payload
        BY <1>1, <1>2, <1>5, <2>1, <2>2 DEF ListingRow, ViewRows, Contents
    <2>4. new # None
        BY <2>3, NoneApart
    <2> QED BY <1>5, <2>1, <2>3, <2>4 DEF Columns
<1>6. CASE outbox[c].kind = "inventory"
    <2>1. outbox[c].payload \in Nat
        BY <1>2, <1>6, EventFields, ProjectorAssumption
    <2>2. CASE row = None
        BY <1>6, <2>2 DEF Applied, Upserts
    <2>3. CASE row # None
        <3>1. new = [row EXCEPT !.avail = outbox[c].payload, !.synced = c] /\ row \in ViewRows
            BY <1>3, <1>6, <2>3 DEF Applied
        <3>2. new \in ViewRows /\ new.synced = c /\ new.cat = row.cat /\ new.rev = row.rev
              /\ new.vendor = row.vendor /\ new.avail = outbox[c].payload
            BY <1>2, <2>1, <3>1 DEF ViewRows
        <3>3. new # None
            BY <3>2, NoneApart
        <3> QED BY <1>6, <2>3, <3>2, <3>3 DEF Upserts, Columns
    <2> QED BY <2>2, <2>3
<1>7. CASE ~Upserts(c) /\ outbox[c].kind = "product_listing"
    BY <1>7 DEF Upserts, Applied
<1> QED BY <1>4, <1>5, <1>6, <1>7 DEF Kinds

LEMMA ProjectorPass ==
    ASSUME OneProjector, BaseInv, ProjectorStep
    PROVE  PassType'
<1>0. OutboxType /\ PassType
    BY DEF BaseInv
<1> PICK p \in Projectors : Projector(p) \/ Throw(p) \/ Crash(p)
    BY DEF ProjectorStep
<1>1. \A q \in Projectors : q = p
    BY DEF OneProjector
<1>2. phase[p] # "idle" => /\ batch[p] # {} /\ Current(p) \in DOMAIN outbox
                           /\ Pending(Current(p)) /\ outbox[Current(p)] \in Events
                           /\ Target(p) \in Listings
    BY <1>0, CurrentIs DEF PassType, PassOK
<1>3. CASE ProcessBatch(p)
    <2>1. TakeUp(p, Poll) /\ UNCHANGED <<outbox, view>>
        BY <1>3 DEF ProcessBatch
    <2>2. Poll \in SUBSET DOMAIN outbox /\ \A e \in Poll : Pending(e)
        BY <1>0, PollSelects
    <2>3. \A e \in Poll : Pending(e)'
        BY <2>1, <2>2 DEF Pending
    <2> QED BY <1>0, <2>1, <2>2, <2>3, TakeUpPass DEF PassType
<1>4. CASE MarkProcessed(p) \/ RecordFailure(p)
    <2> DEFINE S == batch[p] \ {Current(p)}
    <2>1. /\ TakeUp(p, S) /\ UNCHANGED view /\ phase[p] # "idle"
          /\ outbox' = Failed(Current(p))
             \/ outbox' = [outbox EXCEPT ![Current(p)].processed = TRUE]
        BY <1>4 DEF MarkProcessed, RecordFailure, Marked
    <2>2. S \in SUBSET DOMAIN outbox /\ \A e \in S : Pending(e) /\ e # Current(p)
        BY <1>0 DEF PassType, PassOK
    <2>3. /\ DOMAIN outbox' = DOMAIN outbox
          /\ \A e \in DOMAIN outbox :
                /\ outbox'[e].kind = outbox[e].kind /\ outbox'[e].op = outbox[e].op
                /\ e # Current(p) => outbox'[e] = outbox[e]
        BY <1>0, <1>2, <2>1, FlagFacts
    <2>4. outbox'[Current(p)].attempts <= MaxAttempts
        <3>1. /\ outbox[Current(p)].attempts \in Nat /\ MaxAttempts \in Nat
              /\ outbox[Current(p)].attempts < MaxAttempts
            BY <1>2, <2>1, EventFields, ProjectorAssumption DEF Pending
        <3>2. outbox'[Current(p)].attempts = outbox[Current(p)].attempts
              \/ outbox'[Current(p)].attempts = outbox[Current(p)].attempts + 1
            BY <1>0, <1>2, <2>1, FlagFacts
        <3> QED BY <3>1, <3>2
    <2>5. \A e \in S : Pending(e)'
        BY <2>2, <2>3 DEF Pending
    <2>6. \A e \in DOMAIN outbox : outbox'[e].attempts <= MaxAttempts
        BY <1>0, <2>3, <2>4 DEF PassType
    <2> HIDE DEF S
    <2> QED BY <2>1, <2>2, <2>3, <2>5, <2>6, TakeUpPass
<1>5. CASE Crash(p)
    <2>1. TakeUp(p, {}) /\ UNCHANGED <<outbox, view>>
        BY <1>5 DEF Crash
    <2> QED BY <1>0, <2>1, TakeUpPass DEF PassType
<1>6. CASE EmptyPoll(p)
    <2>1. UNCHANGED <<outbox, view, phase, batch, readVendor, readStock>>
        BY <1>6 DEF EmptyPoll, vars, localVars
    <2> QED BY <1>0, <2>1 DEF PassType, PassOK, Pending, Upserts, Current
<1>7. CASE ReadVendor(p) \/ ReadStock(p) \/ WriteView(p) \/ Throw(p)
    <2>1. /\ UNCHANGED <<product, stock, vendor, changed, outbox, batch>> /\ phase[p] # "idle"
          /\ phase' \in [Projectors -> Phases] /\ phase'[p] # "idle"
        BY <1>0, <1>7, ProjectorAssumption DEF ReadVendor, ReadStock, WriteView, Throw,
            sourceVars, PassType, Phases
    <2>2. Current(p)' = Current(p) /\ (Upserts(Current(p))' <=> Upserts(Current(p)))
        BY <2>1 DEF Current, Upserts
    <2>3. /\ readVendor' \in [Projectors -> Statuses \union {None}]
          /\ readStock' \in [Projectors -> Nat]
        <3>1. CASE ReadVendor(p)
            BY <1>0, <1>2, <3>1 DEF ReadVendor, PassType, OutboxType, StatusOf
        <3>2. CASE ReadStock(p)
            <4>1. StockOrZero(Target(p)) \in Nat
                BY <1>0, <1>2, <2>1, ProjectorAssumption DEF OutboxType, StockOrZero
            <4> QED BY <1>0, <3>2, <4>1 DEF ReadStock, PassType
        <3>3. CASE WriteView(p) \/ Throw(p)
            BY <1>0, <3>3 DEF WriteView, Throw, PassType
        <3> QED BY <1>7, <3>1, <3>2, <3>3
    <2>4. /\ view' \in [Listings -> ViewRows \union {None}]
          /\ \A l \in Listings : view'[l] # None => view'[l].synced \in DOMAIN outbox
        <3>1. CASE WriteView(p)
            <4> DEFINE new == Applied(p, Current(p), view[Target(p)])
            <4>1. new \in ViewRows \union {None} /\ (new # None => new.synced = Current(p))
                BY <3>1, Writes DEF WriteView
            <4>2. view' = [view EXCEPT ![Target(p)] = new]
                BY <3>1 DEF WriteView
            <4> HIDE DEF new
            <4> QED BY <1>0, <1>2, <2>1, <4>1, <4>2 DEF PassType
        <3>2. CASE ~WriteView(p)
            BY <1>0, <1>7, <3>2 DEF ReadVendor, ReadStock, Throw, PassType
        <3> QED BY <3>1, <3>2
    <2>5. PassOK(p)'
        <3>1. \A e \in batch'[p] : Pending(e)'
            BY <1>0, <2>1 DEF PassType, PassOK, Pending
        <3>2. phase'[p] \in {"vendor", "stock"} => Upserts(Current(p))
            BY <1>0, <1>7, ProjectorAssumption
               DEF ReadVendor, ReadStock, WriteView, Throw, PassType, PassOK
        <3>3. phase'[p] \in {"stock", "write"} /\ Upserts(Current(p)) => readVendor'[p] \in Statuses
            BY <1>0, <1>2, <1>7, ProjectorAssumption
               DEF ReadVendor, ReadStock, WriteView, Throw, PassType, PassOK, OutboxType, StatusOf
        <3> QED BY <1>0, <1>2, <2>1, <2>2, <3>1, <3>2, <3>3 DEF PassOK
    <2> QED BY <1>0, <1>1, <2>1, <2>3, <2>4, <2>5 DEF PassType
<1> QED BY <1>3, <1>4, <1>5, <1>6, <1>7 DEF Projector

LEMMA NextIs ==
    ASSUME [Next]_vars
    PROVE  SourceStep \/ ProjectorStep \/ UNCHANGED vars
BY DEF Next, SourceStep, ProjectorStep

LEMMA BaseInit == Init => BaseInv
<1> SUFFICES ASSUME Init PROVE BaseInv
    OBVIOUS
<1>1. outbox \in Seq(Events) /\ DOMAIN outbox = {} /\ Len(outbox) = 0
    BY DEF Init
<1>2. OutboxType
    BY <1>1, ProjectorAssumption DEF Init, OutboxType
<1>3. History
    BY <1>1 DEF Init, History, RowsTogether, OpenIsLast, OpenHasRow,
        DeletionIsLast, LatestIsRow, BothHaveLatest, RowHasEvent
<1>4. PassType
    BY <1>1 DEF Init, PassType, PassOK, Phases
<1> QED BY <1>2, <1>3, <1>4 DEF BaseInv

LEMMA BaseStep ==
    ASSUME OneProjector, BaseInv, [Next]_vars
    PROVE  BaseInv'
<1>1. CASE SourceStep
    BY <1>1, SourceHistory, SourcePass DEF BaseInv
<1>2. CASE ProjectorStep
    BY <1>2, ProjectorHistory, ProjectorPass DEF BaseInv
<1>3. CASE UNCHANGED vars
    BY <1>3 DEF vars, sourceVars, localVars, BaseInv, OutboxType, EventOK,
        History, RowsTogether, OpenIsLast, OpenHasRow,
        DeletionIsLast, LatestIsRow, BothHaveLatest, RowHasEvent,
        Rival, SameRow, Of, Latest, SourceRow, RowAfter,
        PassType, PassOK, Pending, Upserts, Current
<1> QED BY <1>1, <1>2, <1>3, NextIs

THEOREM BaseInvariant ==
    ASSUME OneProjector
    PROVE  Spec => []BaseInv
<1>1. BaseInv /\ [Next]_vars => BaseInv'
    BY BaseStep
<1> QED BY <1>1, BaseInit, PTL DEF Spec

(* Types: with one projector process every variable keeps its type; no      *)
(* event is tried more than OUTBOX_MAX_ATTEMPTS times, and a row of the     *)
(* view is synced to an event there is.                                     *)
THEOREM ProjectorTypeOK ==
    ASSUME OneProjector
    PROVE  Spec => []TypeOK
<1>1. BaseInv => TypeOK
    <2> SUFFICES ASSUME BaseInv PROVE TypeOK
        OBVIOUS
    <2>0. OutboxType /\ PassType
        BY DEF BaseInv
    <2>1. ASSUME NEW e \in DOMAIN outbox
          PROVE  /\ outbox[e].listing \in Listings
                 /\ {outbox[e].open, outbox[e].processed} \subseteq BOOLEAN
                 /\ outbox[e].attempts \in 0..MaxAttempts
        BY <2>0, Positions, EventFields, ProjectorAssumption DEF PassType
    <2>2. view \in [Listings -> [cat : Categories, rev : Revisions,
                              vendor : Statuses, avail : Nat,
                              synced : DOMAIN outbox] \union {None}]
        <3>1. ASSUME NEW l \in Listings, view[l] # None
              PROVE  view[l] \in [cat : Categories, rev : Revisions, vendor : Statuses,
                                  avail : Nat, synced : DOMAIN outbox]
            BY <2>0, <3>1 DEF PassType, ViewRows
        <3> QED BY <2>0, <3>1 DEF PassType
    <2> QED BY <2>0, <2>1, <2>2 DEF TypeOK, OutboxType, PassType, Contents, Phases
<1> QED BY <1>1, BaseInvariant, PTL

-----------------------------------------------------------------------------
(* The vendor's status of a row.                                            *)

LEMMA SourceVendor ==
    ASSUME OutboxType, SourceStep, NEW l \in Listings
    PROVE  \/ vendor'[l] = vendor[l] /\ changed'[l] = changed[l]
           \/ outbox' = outbox /\ changed'[l] = Len(outbox)
BY DEF SourceStep, Source, CreateListing, UpdateListing, ChangeStock, DeleteListing,
    UpdateVendorStatus, Commit, sourceVars, OutboxType

LEMMA VendorSource ==
    ASSUME BaseInv, VendorInv, SourceStep
    PROVE  VendorInv'
<1>0. OutboxType /\ PassType
    BY DEF BaseInv
<1>1. /\ UNCHANGED <<view, phase, batch, readVendor, readStock>>
      /\ DOMAIN outbox \subseteq DOMAIN outbox'
      /\ \A e \in DOMAIN outbox :
            /\ outbox'[e].kind = outbox[e].kind /\ outbox'[e].listing = outbox[e].listing
            /\ outbox'[e].op = outbox[e].op /\ outbox'[e].processed = outbox[e].processed
      /\ \A e \in DOMAIN outbox' \ DOMAIN outbox : ~outbox'[e].processed
    BY <1>0, SourceFacts
<1>2. ASSUME NEW p \in Projectors, phase[p] # "idle"
      PROVE  /\ Current(p) \in DOMAIN outbox /\ Target(p) \in Listings
             /\ Current(p)' = Current(p) /\ Target(p)' = Target(p)
             /\ (Upserts(Current(p))' <=> Upserts(Current(p)))
    <2>1. Current(p) \in DOMAIN outbox /\ Target(p) \in Listings
        BY <1>0, <1>2, CurrentIs DEF PassType, PassOK
    <2>2. Current(p)' = Current(p)
        BY <1>1 DEF Current
    <2> QED BY <1>1, <2>1, <2>2 DEF Target, Upserts
<1>3. ASSUME NEW l \in Listings, outbox' = outbox, changed'[l] = Len(outbox),
             NEW e \in DOMAIN outbox'
      PROVE  e <= changed'[l]
    BY <1>0, <1>3, Positions
<1>4. ASSUME NEW l \in Listings PROVE VendorShown(l)'
    <2>1. CASE outbox' = outbox /\ changed'[l] = Len(outbox)
        BY <1>3, <2>1 DEF VendorShown
    <2>2. CASE vendor'[l] = vendor[l] /\ changed'[l] = changed[l]
        <3> SUFFICES ASSUME view'[l] # None, view'[l].vendor # vendor'[l],
                            NEW e \in DOMAIN outbox', Of(e, "product_listing", l)',
                            outbox'[e].processed \/ \E p \in Projectors : AtMark(p, e)'
                     PROVE  e <= changed'[l]
            BY DEF VendorShown
        <3>1. \A p \in Projectors : AtMark(p, e)' => AtMark(p, e) /\ e \in DOMAIN outbox
            BY <1>1, <1>2 DEF AtMark
        <3>2. e \in DOMAIN outbox /\ Of(e, "product_listing", l)
              /\ (outbox[e].processed \/ \E p \in Projectors : AtMark(p, e))
            BY <1>1, <3>1 DEF Of
        <3> QED BY <1>1, <2>2, <3>2 DEF VendorInv, VendorShown
    <2> QED BY <1>0, <2>1, <2>2, SourceVendor
<1>5. ASSUME NEW p \in Projectors PROVE VendorRead(p)'
    <2> SUFFICES ASSUME phase'[p] \in {"stock", "write"}, Upserts(Current(p))',
                        readVendor'[p] # vendor'[Target(p)'],
                        NEW e \in DOMAIN outbox', Of(e, "product_listing", Target(p))',
                        outbox'[e].processed \/ e = Current(p)'
                 PROVE  e <= changed'[Target(p)']
        BY DEF VendorRead
    <2>1. /\ Current(p) \in DOMAIN outbox /\ Target(p) \in Listings
          /\ Current(p)' = Current(p) /\ Target(p)' = Target(p) /\ Upserts(Current(p))
        BY <1>1, <1>2
    <2>2. CASE outbox' = outbox /\ changed'[Target(p)] = Len(outbox)
        BY <1>3, <2>1, <2>2
    <2>3. CASE vendor'[Target(p)] = vendor[Target(p)] /\ changed'[Target(p)] = changed[Target(p)]
        <3>1. e \in DOMAIN outbox /\ Of(e, "product_listing", Target(p))
              /\ (outbox[e].processed \/ e = Current(p))
            BY <1>1, <2>1 DEF Of
        <3> QED BY <1>1, <2>1, <2>3, <3>1 DEF VendorInv, VendorRead
    <2> QED BY <1>0, <2>1, <2>2, <2>3, SourceVendor
<1> QED BY <1>4, <1>5 DEF VendorInv

LEMMA VendorProjector ==
    ASSUME OneProjector, BaseInv, VendorInv, ProjectorStep
    PROVE  VendorInv'
<1>0. OutboxType /\ PassType
    BY DEF BaseInv
<1> PICK p \in Projectors : Projector(p) \/ Throw(p) \/ Crash(p)
    BY DEF ProjectorStep
<1>1. \A q \in Projectors : q = p
    BY DEF OneProjector
<1>2. phase[p] # "idle" => /\ Current(p) \in DOMAIN outbox /\ Target(p) \in Listings
                           /\ outbox[Current(p)].kind \in Kinds
    BY <1>0, CurrentIs, EventFields DEF PassType, PassOK
<1>3. UNCHANGED <<vendor, changed>> /\ DOMAIN outbox' = DOMAIN outbox
      /\ \A e \in DOMAIN outbox :
            /\ outbox'[e].kind = outbox[e].kind /\ outbox'[e].listing = outbox[e].listing
            /\ outbox'[e].processed => \/ outbox[e].processed
                                       \/ MarkProcessed(p) /\ e = Current(p)
    <2>1. CASE UNCHANGED <<sourceVars, outbox>>
        BY <2>1 DEF sourceVars
    <2>2. CASE MarkProcessed(p)
        BY <1>0, <1>2, <2>2, FlagFacts DEF MarkProcessed, Marked, sourceVars
    <2>3. CASE RecordFailure(p)
        BY <1>0, <1>2, <2>3, FlagFacts DEF RecordFailure, sourceVars
    <2> QED BY <2>1, <2>2, <2>3 DEF Projector, EmptyPoll, ProcessBatch, ReadVendor,
        ReadStock, WriteView, Throw, Crash, vars
<1>4. CASE WriteView(p)
    <2> DEFINE c == Current(p)
               t == Target(p)
               new == Applied(p, c, view[t])
    <2>0. /\ UNCHANGED <<outbox, batch, readVendor, vendor, changed>>
          /\ view' = [view EXCEPT ![t] = new] /\ phase[p] = "write" /\ phase'[p] = "mark"
          /\ c \in DOMAIN outbox /\ t \in Listings /\ outbox[c].kind \in Kinds
          /\ outbox[c].listing = t
        BY <1>0, <1>2, <1>4 DEF WriteView, sourceVars, PassType, Target
    <2>1. /\ Upserts(c) => new.vendor = readVendor[p]
          /\ outbox[c].kind = "inventory" =>
                (new = None <=> view[t] = None) /\ (new # None => new.vendor = view[t].vendor)
          /\ ~Upserts(c) /\ outbox[c].kind = "product_listing" => new = None
        BY <2>0, Writes
    <2>2. VendorRead(p)'
        BY <2>0 DEF VendorRead
    <2>3. \A q \in Projectors, e \in DOMAIN outbox : AtMark(q, e)' => e = c
        BY <1>1, <2>0 DEF AtMark, Current
    <2>4. \A l \in Listings : view'[l] = IF l = t THEN new ELSE view[l]
        BY <1>0, <2>0 DEF PassType
    <2>5. \A l \in Listings : VendorShown(l) /\ VendorRead(p)
        BY DEF VendorInv
    <2>6. ASSUME NEW l \in Listings PROVE VendorShown(l)'
        <3> SUFFICES ASSUME view'[l] # None, view'[l].vendor # vendor[l],
                            NEW e \in DOMAIN outbox, Of(e, "product_listing", l),
                            outbox[e].processed \/ e = c
                     PROVE  e <= changed[l]
            BY <2>0, <2>3 DEF VendorShown, Of
        <3> HIDE DEF c, t, new
        <3>1. CASE l # t \/ outbox[c].kind = "inventory"
            <4>1. e # c
                BY <2>0, <3>1 DEF Of
            <4>2. view[l] # None /\ view[l].vendor # vendor[l]
                BY <2>1, <2>4, <3>1
            <4> QED BY <2>5, <4>1, <4>2 DEF VendorShown
        <3>2. CASE l = t /\ Upserts(c)
            BY <2>0, <2>1, <2>4, <2>5, <3>2 DEF VendorRead, c, t
        <3>3. CASE l = t /\ ~Upserts(c) /\ outbox[c].kind = "product_listing"
            BY <2>1, <2>4, <3>3
        <3> QED BY <2>0, <3>1, <3>2, <3>3 DEF Kinds
    <2> QED BY <1>1, <2>2, <2>6 DEF VendorInv
<1>5. CASE ~WriteView(p)
    <2>1. UNCHANGED view /\ (phase'[p] = "mark" => UNCHANGED <<phase, batch, outbox>>)
        BY <1>0, <1>5 DEF Projector, EmptyPoll, ProcessBatch, ReadVendor, ReadStock,
            MarkProcessed, RecordFailure, Throw, Crash, vars, TakeUp, FirstCall,
            PassType, localVars
    <2>2. ASSUME NEW e \in DOMAIN outbox,
                 outbox'[e].processed \/ \E q \in Projectors : AtMark(q, e)'
          PROVE  outbox[e].processed \/ \E q \in Projectors : AtMark(q, e)
        <3>1. CASE outbox'[e].processed
            BY <1>3, <3>1 DEF MarkProcessed, AtMark
        <3>2. CASE AtMark(p, e)'
            BY <2>1, <3>2 DEF AtMark, Current
        <3> QED BY <1>1, <2>2, <3>1, <3>2
    <2>3. \A l \in Listings : VendorShown(l)'
        BY <1>3, <2>1, <2>2 DEF VendorInv, VendorShown, Of
    <2>4. VendorRead(p)'
        <3>1. CASE EmptyPoll(p)
            BY <3>1 DEF EmptyPoll, vars, localVars, sourceVars, VendorInv, VendorRead, Target,
                Current, Upserts, Of
        <3>2. CASE ReadVendor(p)
            BY <1>0, <1>2, <3>2 DEF ReadVendor, StatusOf, VendorRead, Target, Current,
                sourceVars, PassType
        <3>3. CASE ReadStock(p)
            <4>1. UNCHANGED <<vendor, changed, outbox, batch, readVendor>> /\ phase[p] = "stock"
                BY <3>3 DEF ReadStock, sourceVars
            <4> QED BY <4>1 DEF VendorInv, VendorRead, Target, Current, Upserts, Of
        <3>4. CASE Throw(p)
            BY <1>0, <3>4 DEF Throw, VendorRead, PassType
        <3>5. ASSUME NEW S \in SUBSET DOMAIN outbox, TakeUp(p, S),
                     \A e \in DOMAIN outbox : outbox'[e].kind = outbox[e].kind
                                              /\ outbox'[e].op = outbox[e].op
              PROVE  VendorRead(p)'
            <4>1. /\ batch'[p] = S
                  /\ phase'[p] = IF S = {} THEN "idle" ELSE FirstCall(Least(S))
                BY <1>0, <3>5, TakeUpFacts
            <4>2. Current(p)' = Least(S) /\ (S # {} => Least(S) \in DOMAIN outbox)
                BY <1>0, <4>1, Positions, LeastIs DEF Current
            <4>3. ~(phase'[p] \in {"stock", "write"} /\ Upserts(Current(p))')
                BY <3>5, <4>1, <4>2 DEF FirstCall, Upserts
            <4> QED BY <4>3 DEF VendorRead
        <3>6. CASE ProcessBatch(p)
            BY <1>0, <3>5, <3>6, PollSelects DEF ProcessBatch
        <3>7. CASE MarkProcessed(p) \/ RecordFailure(p)
            <4> DEFINE S == batch[p] \ {Current(p)}
            <4>1. /\ TakeUp(p, S) /\ phase[p] # "idle"
                  /\ outbox' = Failed(Current(p))
                     \/ outbox' = [outbox EXCEPT ![Current(p)].processed = TRUE]
                BY <3>7 DEF MarkProcessed, RecordFailure, Marked
            <4>2. \A e \in DOMAIN outbox : outbox'[e].kind = outbox[e].kind
                                            /\ outbox'[e].op = outbox[e].op
                BY <1>0, <1>2, <4>1, FlagFacts
            <4>3. S \in SUBSET DOMAIN outbox
                BY <1>0 DEF PassType
            <4> HIDE DEF S
            <4> QED BY <3>5, <4>1, <4>2, <4>3
        <3>8. CASE Crash(p)
            BY <3>5, <3>8 DEF Crash
        <3> QED BY <1>5, <3>1, <3>2, <3>3, <3>4, <3>6, <3>7, <3>8 DEF Projector
    <2> QED BY <1>1, <2>3, <2>4 DEF VendorInv
<1> QED BY <1>4, <1>5

(* A vendor's status is carried: with one projector process, whatever       *)
(* fails, a row whose listing had an update drawn after the last suspension *)
(* or reinstatement processed shows the vendor's present status.            *)
THEOREM ProjectorCarriesVendor ==
    ASSUME OneProjector
    PROVE  Spec => []VendorStatusCarried
<1>1. Init => VendorInv
    BY DEF Init, VendorInv, VendorShown, VendorRead
<1>2. BaseInv /\ VendorInv /\ [Next]_vars => VendorInv'
    <2> SUFFICES ASSUME BaseInv, VendorInv, [Next]_vars PROVE VendorInv'
        OBVIOUS
    <2>1. CASE UNCHANGED vars
        BY <2>1 DEF vars, sourceVars, localVars, VendorInv, VendorShown, VendorRead,
            AtMark, Target, Current, Upserts, Of
    <2> QED BY <2>1, NextIs, VendorSource, VendorProjector
<1>3. BaseInv /\ VendorInv => VendorStatusCarried
    <2> SUFFICES ASSUME BaseInv, VendorInv, NEW e \in DOMAIN outbox,
                        outbox[e].kind = "product_listing", outbox[e].processed,
                        e > changed[outbox[e].listing], view[outbox[e].listing] # None
                 PROVE  view[outbox[e].listing].vendor = vendor[outbox[e].listing]
        BY DEF VendorStatusCarried
    <2>1. outbox[e].listing \in Listings /\ e \in Nat /\ changed[outbox[e].listing] \in Nat
        BY Positions, EventFields DEF BaseInv, OutboxType
    <2> QED BY <2>1 DEF VendorInv, VendorShown, Of
<1> QED BY <1>1, <1>2, <1>3, BaseInvariant, PTL DEF Spec

-----------------------------------------------------------------------------
(* The order in which events are applied.                                   *)

LEMMA RivalFacts ==
    ASSUME NEW e \in DOMAIN outbox, NEW f \in DOMAIN outbox
    PROVE  (Rival(e, f) <=> Rival(f, e)) /\ (SameRow(e, f) => Rival(e, f))
           /\ (SameRow(e, f) <=> SameRow(f, e))
BY DEF Rival, SameRow, Of

LEMMA OrderSource ==
    ASSUME BaseInv, OrderInv, SourceStep
    PROVE  OrderInv'
<1>0. OutboxType /\ PassType /\ OpenIsLast
    BY DEF BaseInv, History
<1>1. /\ UNCHANGED <<phase, batch>>
      /\ DOMAIN outbox \subseteq DOMAIN outbox'
      /\ \A e \in DOMAIN outbox :
            /\ outbox'[e].kind = outbox[e].kind /\ outbox'[e].listing = outbox[e].listing
            /\ outbox'[e].processed = outbox[e].processed
            /\ outbox'[e].attempts = outbox[e].attempts
            /\ outbox'[e].open => outbox[e].open
      /\ \A e \in DOMAIN outbox' \ DOMAIN outbox :
            /\ ~outbox'[e].processed /\ outbox'[e].attempts = 0
            /\ \A f \in DOMAIN outbox : f < e
      /\ DOMAIN outbox \subseteq Nat /\ DOMAIN outbox' \subseteq Nat
    <2>1. OutboxType'
        BY SourceHistory DEF BaseInv
    <2>2. DOMAIN outbox \subseteq Nat /\ DOMAIN outbox' \subseteq Nat
        BY <1>0, <2>1 DEF OutboxType
    <2> QED BY <1>0, <2>2, SourceFacts
<1>2. \A e, f \in DOMAIN outbox : Rival(e, f)' <=> Rival(e, f)
    BY <1>1 DEF Rival
<1>3. \A e \in DOMAIN outbox : Pending(e)' => Pending(e) \/ outbox[e].open
    BY <1>1 DEF Pending
<1>4. ASSUME NEW e \in DOMAIN outbox', Pending(e)' \/ outbox'[e].open, Passed(e)'
      PROVE  Retried(e)'
    <2>1. PICK f \in DOMAIN outbox' : e < f /\ Rival(e, f)' /\ outbox'[f].processed
        BY <1>4 DEF Passed
    <2>2. f \in DOMAIN outbox /\ outbox[f].processed
        BY <1>1, <2>1
    <2>3. e \in DOMAIN outbox
        BY <1>1, <2>1, <2>2
    <2>4. Pending(e) \/ outbox[e].open
        BY <1>1, <1>3, <1>4, <2>3
    <2>5. Passed(e)
        BY <1>2, <2>1, <2>2, <2>3 DEF Passed
    <2> QED BY <1>1, <2>3, <2>4, <2>5 DEF OrderInv, Retried
<1>5. ASSUME NEW p \in Projectors PROVE BatchOK(p)'
    <2>1. BatchOK(p) /\ batch[p] \subseteq DOMAIN outbox
        BY <1>0 DEF OrderInv, PassType
    <2>2. ASSUME NEW e \in batch[p], NEW f \in DOMAIN outbox', f < e, Rival(e, f)', Pending(f)'
          PROVE  f \in batch[p] \/ Retried(f)'
        <3>1. f \in DOMAIN outbox
            BY <1>1, <2>1, <2>2
        <3>2. Rival(f, e) /\ Rival(e, f)
            BY <1>2, <2>1, <2>2, <3>1, RivalFacts
        <3>3. ~outbox[f].open
            BY <1>0, <1>1, <2>1, <2>2, <3>1, <3>2 DEF OpenIsLast
        <3>4. f \in batch[p] \/ Retried(f)
            BY <1>3, <2>1, <2>2, <3>1, <3>2, <3>3 DEF BatchOK
        <3> QED BY <1>1, <3>1, <3>4 DEF Retried
    <2> QED BY <1>1, <2>1, <2>2 DEF BatchOK
<1>6. FailPoints = {} => \A e \in DOMAIN outbox' : outbox'[e].attempts = 0
    BY <1>1 DEF OrderInv
<1> QED BY <1>4, <1>5, <1>6 DEF OrderInv

LEMMA OrderProjector ==
    ASSUME OneProjector, BaseInv, OrderInv, ProjectorStep
    PROVE  OrderInv'
<1>0. OutboxType /\ PassType /\ OpenIsLast /\ OneProjector
    BY DEF BaseInv, History
<1> PICK p \in Projectors : Projector(p) \/ Throw(p) \/ Crash(p)
    BY DEF ProjectorStep
<1>1. (\A q \in Projectors : q = p) /\ BatchOK(p)
    BY <1>0 DEF OneProjector, OrderInv
<1>2. phase[p] # "idle" => /\ Current(p) \in DOMAIN outbox /\ Current(p) \in batch[p]
                           /\ Pending(Current(p)) /\ \A e \in batch[p] : Current(p) <= e
    BY <1>0, CurrentIs DEF PassType, PassOK
<1>3. batch[p] \subseteq DOMAIN outbox /\ DOMAIN outbox \subseteq Nat
    BY <1>0 DEF PassType, OutboxType
<1>4. CASE outbox' = outbox
    <2>1. /\ \A e \in DOMAIN outbox' :
                (Pending(e)' \/ outbox'[e].open) /\ Passed(e)' => Retried(e)'
          /\ FailPoints = {} => \A e \in DOMAIN outbox' : outbox'[e].attempts = 0
        BY <1>4 DEF OrderInv, Pending, Passed, Rival, Retried
    <2>2. ASSUME NEW S \in SUBSET DOMAIN outbox, TakeUp(p, S),
                 \A e \in S, f \in DOMAIN outbox : f < e /\ Pending(f) => f \in S,
                 BatchSize = 1 => \A e, f \in S : e = f
          PROVE  BatchOK(p)'
        <3>1. batch'[p] = S /\ phase'[p] # "record"
            BY <1>0, <2>2, TakeUpFacts DEF FirstCall
        <3> QED BY <1>4, <2>2, <3>1 DEF BatchOK, Pending
    <2>3. ASSUME ProcessBatch(p) PROVE BatchOK(p)'
        BY <1>0, <2>2, <2>3, PollSelects DEF ProcessBatch
    <2>4. ASSUME Crash(p) PROVE BatchOK(p)'
        BY <2>2, <2>4 DEF Crash
    <2>5. ASSUME batch' = batch, phase'[p] = "record" => FailPoints # {}
          PROVE  BatchOK(p)'
        BY <1>1, <1>4, <2>5 DEF BatchOK, Pending, Rival, Retried
    <2>6. ASSUME EmptyPoll(p) \/ ReadVendor(p) \/ ReadStock(p) \/ WriteView(p) \/ Throw(p)
          PROVE  BatchOK(p)'
        BY <1>0, <1>1, <2>5, <2>6 DEF EmptyPoll, ReadVendor, ReadStock, WriteView, Throw,
            vars, localVars, PassType, BatchOK
    <2>7. BatchOK(p)' \/ MarkProcessed(p) \/ RecordFailure(p)
        BY <2>3, <2>4, <2>6 DEF Projector
    <2>8. CASE MarkProcessed(p) \/ RecordFailure(p)
        <3>1. Current(p) \in DOMAIN outbox /\ outbox[Current(p)].attempts \in Nat
              /\ ~outbox[Current(p)].processed
            BY <1>0, <1>2, <2>8, Positions, EventFields
               DEF MarkProcessed, RecordFailure, Pending
        <3>2. outbox'[Current(p)].processed \/
                 outbox'[Current(p)].attempts = outbox[Current(p)].attempts + 1
            BY <1>0, <2>8, <3>1, FlagFacts DEF MarkProcessed, RecordFailure, Marked
        <3> QED BY <1>4, <3>1, <3>2
    <2> QED BY <1>1, <2>1, <2>7, <2>8 DEF OrderInv
<1>5. CASE MarkProcessed(p)
    <2> PICK c \in DOMAIN outbox : c = Current(p)
        BY <1>2, <1>5 DEF MarkProcessed
    <2> DEFINE S == batch[p] \ {c}
    <2>1. /\ phase[p] = "mark" /\ TakeUp(p, S)
          /\ outbox' = [outbox EXCEPT ![c].processed = TRUE]
        BY <1>5 DEF MarkProcessed, Marked
    <2>2. batch'[p] = S /\ phase'[p] # "record"
        BY <1>0, <2>1, TakeUpFacts DEF FirstCall
    <2>3. /\ c \in DOMAIN outbox /\ c \in batch[p] /\ \A e \in batch[p] : c <= e
          /\ Pending(c)
        BY <1>2, <2>1
    <2>4. /\ DOMAIN outbox' = DOMAIN outbox
          /\ \A e \in DOMAIN outbox :
                /\ outbox'[e].kind = outbox[e].kind /\ outbox'[e].listing = outbox[e].listing
                /\ outbox'[e].open = outbox[e].open /\ (e # c => outbox'[e] = outbox[e])
        BY <1>0, <2>1, <2>3, FlagFacts
    <2>5. outbox'[c].processed
        <3>1. outbox \in Seq(Events) /\ outbox[c] \in Events
            BY <1>0, <2>3, Positions DEF OutboxType
        <3>2. outbox'[c] = [outbox[c] EXCEPT !.processed = TRUE]
            BY <2>1, <2>3, <3>1
        <3> QED BY <3>1, <3>2 DEF Events, EventsOf
    <2>6. \A e, f \in DOMAIN outbox : Rival(e, f)' <=> Rival(e, f)
        BY <2>4 DEF Rival
    <2>7. \A e \in DOMAIN outbox : e # c => (Pending(e)' <=> Pending(e))
        BY <2>4 DEF Pending
    <2>8. ~Pending(c)' /\ ~outbox'[c].open
        BY <2>3, <2>4, <2>5 DEF Pending
    <2>0. \A e \in DOMAIN outbox : outbox'[e].attempts = outbox[e].attempts
        <3>1. outbox' # Failed(c)
            BY <1>0, <2>3, <2>5, FlagFacts DEF Pending
        <3> QED BY <1>0, <2>1, <2>3, <3>1, FlagFacts
    <2>9. ASSUME NEW e \in DOMAIN outbox, Pending(e)' \/ outbox'[e].open, Passed(e)'
          PROVE  Retried(e)
        <3>1. e # c /\ (Pending(e) \/ outbox[e].open)
            BY <2>4, <2>7, <2>8, <2>9
        <3>2. PICK f \in DOMAIN outbox : e < f /\ Rival(e, f) /\ outbox'[f].processed
            BY <2>4, <2>6, <2>9 DEF Passed
        <3>3. CASE f # c
            BY <2>4, <3>1, <3>2, <3>3 DEF Passed, OrderInv
        <3>4. CASE f = c
            <4>1. ~outbox[e].open
                BY <1>0, <1>3, <3>2 DEF OpenIsLast
            <4>2. e \in batch[p] \/ Retried(e)
                BY <1>1, <2>3, <3>1, <3>2, <3>4, <4>1, RivalFacts DEF BatchOK
            <4> QED BY <1>3, <2>3, <3>2, <3>4, <4>2
        <3> QED BY <3>3, <3>4
    <2>10. BatchOK(p)'
        <3>1. ASSUME NEW e \in S, NEW f \in DOMAIN outbox, f < e, Rival(e, f)', Pending(f)'
              PROVE  f \in S \/ Retried(f)'
            <4>1. f # c /\ Pending(f) /\ Rival(e, f)
                BY <1>3, <2>6, <2>7, <2>8, <3>1
            <4> QED BY <1>1, <2>0, <3>1, <4>1 DEF BatchOK, Retried
        <3>2. BatchSize = 1 => \A e, f \in S : e = f
            BY <1>1 DEF BatchOK
        <3> HIDE DEF S
        <3> QED BY <2>2, <2>4, <3>1, <3>2 DEF BatchOK
    <2>11. FailPoints = {} => \A e \in DOMAIN outbox : outbox'[e].attempts = 0
        BY <2>0 DEF OrderInv
    <2> QED BY <1>1, <2>0, <2>4, <2>9, <2>10, <2>11 DEF OrderInv, Retried
<1>6. CASE RecordFailure(p)
    <2> PICK c \in DOMAIN outbox : c = Current(p)
        BY <1>2, <1>6 DEF RecordFailure
    <2> DEFINE S == batch[p] \ {c}
    <2>1. phase[p] = "record" /\ TakeUp(p, S) /\ outbox' = Failed(c)
        BY <1>6 DEF RecordFailure
    <2>2. /\ c \in batch[p] /\ FailPoints # {}
          /\ BatchSize = 1 => S = {}
        BY <1>1, <1>2, <2>1 DEF BatchOK
    <2>3. batch'[p] = S /\ phase'[p] # "record"
        BY <1>0, <2>1, TakeUpFacts DEF FirstCall
    <2>4. /\ DOMAIN outbox' = DOMAIN outbox
          /\ \A e \in DOMAIN outbox :
                /\ outbox'[e].kind = outbox[e].kind /\ outbox'[e].listing = outbox[e].listing
                /\ outbox'[e].open = outbox[e].open /\ (e # c => outbox'[e] = outbox[e])
          /\ outbox'[c].processed = outbox[c].processed
          /\ outbox[c].attempts \in Nat /\ outbox'[c].attempts = outbox[c].attempts + 1
        <3>1. outbox[c].attempts \in Nat
            BY <1>0, Positions, EventFields
        <3> QED BY <1>0, <2>1, <3>1, FlagFacts
    <2>5. /\ \A e \in DOMAIN outbox : Retried(e) => Retried(e)'
          /\ BatchSize # 1 => Retried(c)'
        BY <2>4, ProjectorAssumption DEF Retried
    <2>6. \A e \in DOMAIN outbox : Pending(e)' => Pending(e)
        BY <1>2, <2>1, <2>4 DEF Pending
    <2>7. \A e, f \in DOMAIN outbox : Rival(e, f)' <=> Rival(e, f)
        BY <2>4 DEF Rival
    <2>8. \A e \in DOMAIN outbox : Passed(e)' => Passed(e)
        BY <2>4, <2>7 DEF Passed
    <2>9. BatchOK(p)'
        <3>1. ASSUME NEW e \in S, NEW f \in DOMAIN outbox, f < e, Rival(e, f)', Pending(f)'
              PROVE  f \in S \/ Retried(f)'
            <4>1. f \in batch[p] \/ Retried(f)
                BY <1>1, <1>3, <2>6, <2>7, <3>1 DEF BatchOK
            <4> QED BY <2>2, <2>5, <3>1, <4>1
        <3>2. BatchSize = 1 => \A e, f \in S : e = f
            BY <2>2
        <3> HIDE DEF S
        <3> QED BY <2>3, <2>4, <3>1, <3>2 DEF BatchOK
    <2> QED BY <1>1, <2>2, <2>4, <2>5, <2>6, <2>8, <2>9 DEF OrderInv
<1> QED BY <1>4, <1>5, <1>6 DEF Projector, EmptyPoll, ProcessBatch, ReadVendor,
    ReadStock, WriteView, Throw, Crash, vars

LEMMA OrderStep ==
    ASSUME OneProjector, BaseInv, OrderInv, [Next]_vars
    PROVE  OrderInv'
<1>1. CASE UNCHANGED vars
    BY <1>1 DEF vars, localVars, OrderInv, BatchOK, Pending, Passed, Rival, Retried
<1> QED BY <1>1, NextIs, OrderSource, OrderProjector

(* In order, no event is retried after a later one. *)
LEMMA NoneRetried ==
    ASSUME InOrder, OrderInv
    PROVE  \A e \in DOMAIN outbox : ~Retried(e)
BY DEF InOrder, OrderInv, Retried

LEMMA OrderInit == Init => OrderInv
BY DEF Init, OrderInv, BatchOK

-----------------------------------------------------------------------------
(* What the rows of the view show.                                          *)

(* A step that processes nothing and writes no row changes nothing.         *)
LEMMA ShownKept ==
    ASSUME UNCHANGED view, DOMAIN outbox \subseteq DOMAIN outbox',
           \A l \in Listings : ContentShown(l) /\ StockShown(l) /\ Missing(l),
           DeletedStaysDeleted,
           \A e \in DOMAIN outbox :
              /\ outbox'[e].kind = outbox[e].kind /\ outbox'[e].listing = outbox[e].listing
              /\ outbox'[e].op = outbox[e].op /\ outbox'[e].payload = outbox[e].payload
              /\ outbox'[e].processed = outbox[e].processed
              /\ outbox'[e].open => outbox[e].open,
           \A e \in DOMAIN outbox' \ DOMAIN outbox : ~outbox'[e].processed
    PROVE  /\ \A l \in Listings : ContentShown(l)' /\ StockShown(l)' /\ Missing(l)'
           /\ DeletedStaysDeleted'
           /\ \A n, l : StockFrom(n, l) => StockFrom(n, l)'
<1>1. ASSUME NEW f \in DOMAIN outbox, UpToDate(f) PROVE UpToDate(f)'
    BY <1>1 DEF UpToDate, SameRow, Of
<1>2. \A f \in DOMAIN outbox : Left(f)' = Left(f)
    BY DEF Left
<1>3. ASSUME NEW n, NEW l, StockFrom(n, l) PROVE StockFrom(n, l)'
    <2>1. PICK f \in DOMAIN outbox : Of(f, "inventory", l) /\ UpToDate(f) /\ n \in Left(f)
        BY <1>3 DEF StockFrom
    <2>2. f \in DOMAIN outbox' /\ Of(f, "inventory", l)' /\ UpToDate(f)' /\ n \in Left(f)'
        BY <1>1, <1>2, <2>1 DEF Of
    <2> QED BY <2>2 DEF StockFrom
<1>4. ASSUME NEW l \in Listings PROVE ContentShown(l)'
    <2> SUFFICES ASSUME view[l] # None
                 PROVE  \E f \in DOMAIN outbox' :
                           /\ Of(f, "product_listing", l)' /\ outbox'[f].op # "DELETE"
                           /\ UpToDate(f)'
                           /\ Columns("product_listing", view[l]) = outbox'[f].payload
        BY DEF ContentShown, Columns
    <2>1. PICK f \in DOMAIN outbox :
              /\ Of(f, "product_listing", l) /\ outbox[f].op # "DELETE" /\ UpToDate(f)
              /\ Columns("product_listing", view[l]) = outbox[f].payload
        BY DEF ContentShown
    <2> QED BY <1>1, <2>1 DEF Of
<1>5. ASSUME NEW l \in Listings PROVE StockShown(l)'
    <2>1. view[l] # None => StockFrom(view[l].avail, l)
        BY DEF StockShown
    <2>2. view[l] # None => StockFrom(view[l].avail, l)'
        <3> DEFINE v == view[l].avail
        <3>1. \A n : StockFrom(n, l) => StockFrom(n, l)'
            BY <1>3
        <3> PICK n : n = view[l].avail
            OBVIOUS
        <3>2. view[l] # None => StockFrom(n, l)'
            BY <2>1, <3>1
        <3> QED BY <3>2 DEF StockFrom, Of, UpToDate, SameRow, Left
    <2> QED BY <2>2 DEF StockShown
<1>6. ASSUME NEW l \in Listings PROVE Missing(l)'
    <2> SUFFICES ASSUME view[l] = None, NEW e \in DOMAIN outbox',
                        Of(e, "product_listing", l)', outbox'[e].processed,
                        outbox'[e].op # "DELETE"
                 PROVE  \E f \in DOMAIN outbox' :
                           e < f /\ Of(f, "product_listing", l)' /\ outbox'[f].op = "DELETE"
        BY DEF Missing
    <2>1. e \in DOMAIN outbox /\ Of(e, "product_listing", l) /\ outbox[e].processed
          /\ outbox[e].op # "DELETE"
        BY DEF Of
    <2>2. PICK f \in DOMAIN outbox :
              e < f /\ Of(f, "product_listing", l) /\ outbox[f].op = "DELETE"
        BY <2>1 DEF Missing
    <2> QED BY <2>2 DEF Of
<1>7. DeletedStaysDeleted'
    <2> SUFFICES ASSUME NEW e \in DOMAIN outbox', outbox'[e].kind = "product_listing",
                        outbox'[e].op = "DELETE", outbox'[e].processed
                 PROVE  view[outbox'[e].listing] = None
        BY DEF DeletedStaysDeleted
    <2>1. e \in DOMAIN outbox
        OBVIOUS
    <2> QED BY <2>1 DEF DeletedStaysDeleted
<1> QED BY <1>3, <1>4, <1>5, <1>6, <1>7

LEMMA ShownSource ==
    ASSUME BaseInv, ShownInv, SourceStep
    PROVE  ShownInv'
<1>0. OutboxType /\ PassType
    BY DEF BaseInv
<1>1. /\ UNCHANGED <<view, phase, batch, readVendor, readStock>>
      /\ DOMAIN outbox \subseteq DOMAIN outbox'
      /\ \A e \in DOMAIN outbox :
            /\ outbox'[e].kind = outbox[e].kind /\ outbox'[e].listing = outbox[e].listing
            /\ outbox'[e].op = outbox[e].op /\ outbox'[e].payload = outbox[e].payload
            /\ outbox'[e].processed = outbox[e].processed
            /\ outbox'[e].open => outbox[e].open
      /\ \A e \in DOMAIN outbox' \ DOMAIN outbox : ~outbox'[e].processed
    BY <1>0, SourceFacts
<1>2. /\ \A l \in Listings : ContentShown(l)' /\ StockShown(l)' /\ Missing(l)'
      /\ DeletedStaysDeleted'
      /\ \A n, l : StockFrom(n, l) => StockFrom(n, l)'
    BY <1>1, ShownKept DEF ShownInv
<1>3. ASSUME NEW p \in Projectors PROVE StockRead(p)' /\ Written(p)'
    <2>1. CASE phase[p] = "idle"
        BY <1>1, <2>1 DEF StockRead, Written
    <2>2. CASE phase[p] # "idle"
        <3>1. Current(p) \in DOMAIN outbox
            BY <1>0, <2>2, CurrentIs DEF PassType, PassOK
        <3> PICK c \in DOMAIN outbox : c = Current(p)
            BY <3>1
        <3> PICK t : t = Target(p)
            OBVIOUS
        <3>2. Current(p)' = c /\ Target(p)' = t /\ (Upserts(c)' <=> Upserts(c))
            BY <1>1 DEF Current, Target, Upserts
        <3>3. StockRead(p)'
            <4> SUFFICES ASSUME phase[p] = "write", Upserts(Current(p))'
                         PROVE  StockFrom(readStock[p], Target(p))'
                BY <1>1 DEF StockRead
            <4>1. Upserts(c)
                BY <3>2 DEF Upserts
            <4> PICK n : n = readStock[p]
                OBVIOUS
            <4>2. StockFrom(n, t)
                BY <4>1 DEF ShownInv, StockRead
            <4>3. StockFrom(n, t)'
                BY <1>2, <4>2
            <4> QED BY <1>1, <3>2, <4>3 DEF StockFrom, Of, UpToDate, SameRow, Left
        <3>4. Written(p)'
            <4>1. Written(p)
                BY DEF ShownInv
            <4> QED BY <1>1, <3>2, <4>1 DEF Written, Upserts, Columns
        <3> QED BY <3>3, <3>4
    <2> QED BY <2>1, <2>2
<1> QED BY <1>2, <1>3 DEF ShownInv

(* In order, nothing newer of its row was processed before the event at     *)
(* hand.                                                                    *)
LEMMA CurrentUpToDate ==
    ASSUME InOrder, BaseInv, OrderInv, NEW p \in Projectors, phase[p] # "idle"
    PROVE  /\ Current(p) \in DOMAIN outbox /\ UpToDate(Current(p))
           /\ ~outbox[Current(p)].processed
           /\ Target(p) \in Listings /\ outbox[Current(p)].kind \in Kinds
<1>0. OutboxType /\ PassType
    BY DEF BaseInv
<1>1. /\ Current(p) \in DOMAIN outbox /\ Pending(Current(p)) /\ Target(p) \in Listings
      /\ outbox[Current(p)].kind \in Kinds
    BY <1>0, CurrentIs, EventFields DEF PassType, PassOK
<1> PICK c \in DOMAIN outbox : c = Current(p)
    BY <1>1
<1>2. DOMAIN outbox \subseteq Nat
    BY <1>0 DEF OutboxType
<1>3. ASSUME NEW e \in DOMAIN outbox, SameRow(c, e), outbox[e].processed PROVE e <= c
    <2>1. ~Passed(c) /\ Rival(c, e)
        BY <1>1, <1>3, RivalFacts, NoneRetried DEF OrderInv
    <2> QED BY <1>2, <1>3, <2>1 DEF Passed
<1> QED BY <1>1, <1>3 DEF UpToDate, Pending

(* A read of the inventory row finds what its latest event says.            *)
LEMMA ReadIsUpToDate ==
    ASSUME BaseInv, NEW c \in DOMAIN outbox
    PROVE  StockFrom(StockOrZero(outbox[c].listing), outbox[c].listing)
<1>0. OutboxType
    BY DEF BaseInv
<1> PICK f \in DOMAIN outbox : Of(f, "inventory", outbox[c].listing) /\ Latest(f)
    BY DEF BaseInv, History, BothHaveLatest, Kinds
<1>1. UpToDate(f)
    BY <1>0 DEF Latest, UpToDate, OutboxType, EventOK
<1>2. outbox[f].kind = "inventory" /\ outbox[f].listing = outbox[c].listing
    BY DEF Of
<1>3. SourceRow(outbox[f].kind, outbox[f].listing) = RowAfter(f)
    BY DEF BaseInv, History, LatestIsRow
<1>4. stock[outbox[c].listing] = RowAfter(f)
    BY <1>2, <1>3 DEF SourceRow
<1>5. outbox[f].payload \in Stocks
    BY <1>0, <1>2, Positions, EventFields
<1>6. StockOrZero(outbox[c].listing) \in Left(f)
    BY <1>2, <1>4, <1>5, NoneApart DEF StockOrZero, Left, RowAfter
<1> QED BY <1>1, <1>6 DEF StockFrom

LEMMA ShownWrite ==
    ASSUME InOrder, BaseInv, OrderInv, ShownInv, NEW p \in Projectors, WriteView(p)
    PROVE  ShownInv'
<1>0. OutboxType /\ PassType /\ DeletionIsLast
    BY DEF BaseInv, History
<1>1. \A q \in Projectors : q = p
    BY DEF InOrder, OneProjector
<1>2. phase[p] = "write" /\ phase'[p] = "mark" /\ UNCHANGED <<outbox, batch>>
    BY <1>0 DEF WriteView, PassType
<1>3. /\ Current(p) \in DOMAIN outbox /\ UpToDate(Current(p))
      /\ ~outbox[Current(p)].processed
      /\ Target(p) \in Listings /\ outbox[Current(p)].kind \in Kinds
    BY <1>2, CurrentUpToDate
<1> PICK c \in DOMAIN outbox, t \in Listings : c = Current(p) /\ t = Target(p)
    BY <1>3
<1> PICK new : new = Applied(p, c, view[t])
    OBVIOUS
<1>4. outbox[c].listing = t /\ DOMAIN outbox \subseteq Nat
    BY <1>0 DEF Target, OutboxType
<1>5. \A l \in Listings : view'[l] = IF l = t THEN new ELSE view[l]
    BY <1>0 DEF WriteView, PassType
<1>6. /\ new # None => new.synced = c
      /\ Upserts(c) => /\ new # None /\ Columns("product_listing", new) = outbox[c].payload
                       /\ new.avail = readStock[p]
      /\ outbox[c].kind = "inventory" =>
            /\ new = None <=> view[t] = None
            /\ new # None =>
                  /\ Columns("product_listing", new) = Columns("product_listing", view[t])
                  /\ new.avail = outbox[c].payload
      /\ ~Upserts(c) /\ outbox[c].kind = "product_listing" => new = None
    BY <1>2, Writes
<1>7. \A l \in Listings : ContentShown(l) /\ StockShown(l) /\ Missing(l)
    BY DEF ShownInv
<1>8. \A n, l : StockFrom(n, l)' <=> StockFrom(n, l)
    BY <1>2 DEF StockFrom, Of, UpToDate, SameRow, Left
<1>9. outbox[c].kind = "inventory" \/ Upserts(c)
      \/ (outbox[c].kind = "product_listing" /\ outbox[c].op = "DELETE" /\ ~Upserts(c))
    BY <1>3 DEF Upserts, Kinds
<1>10. ASSUME NEW l \in Listings
       PROVE  /\ ContentShown(l)' <=> (view'[l] # None =>
                    \E f \in DOMAIN outbox :
                        /\ Of(f, "product_listing", l) /\ outbox[f].op # "DELETE" /\ UpToDate(f)
                        /\ Columns("product_listing", view'[l]) = outbox[f].payload)
              /\ Missing(l)' <=> (view'[l] = None =>
                    \A e \in DOMAIN outbox :
                        Of(e, "product_listing", l) /\ outbox[e].processed
                           /\ outbox[e].op # "DELETE"
                        => \E f \in DOMAIN outbox :
                              e < f /\ Of(f, "product_listing", l) /\ outbox[f].op = "DELETE")
    BY <1>2 DEF ContentShown, Missing, Of, UpToDate, SameRow, Columns
<1>11. ASSUME NEW l \in Listings PROVE ContentShown(l)'
    <2>1. CASE l # t
        BY <1>5, <1>7, <1>10, <2>1 DEF ContentShown
    <2>2. CASE l = t /\ Upserts(c)
        <3>1. Of(c, "product_listing", t) /\ outbox[c].op # "DELETE"
            BY <1>4, <2>2 DEF Upserts, Of
        <3> QED BY <1>3, <1>5, <1>6, <1>10, <2>2, <3>1
    <2>3. CASE l = t /\ outbox[c].kind = "inventory"
        BY <1>5, <1>6, <1>7, <1>10, <2>3 DEF ContentShown
    <2>4. CASE l = t /\ outbox[c].kind = "product_listing" /\ ~Upserts(c)
        BY <1>5, <1>6, <1>10, <2>4
    <2> QED BY <1>9, <2>1, <2>2, <2>3, <2>4
<1>12. ASSUME NEW l \in Listings, view'[l] # None PROVE StockFrom(view'[l].avail, l)
    <2>1. CASE l # t
        BY <1>5, <1>7, <1>12, <2>1 DEF StockShown
    <2>2. CASE l = t /\ Upserts(c)
        BY <1>2, <1>5, <1>6, <2>2 DEF ShownInv, StockRead
    <2>3. CASE l = t /\ outbox[c].kind = "inventory"
        <3>1. Of(c, "inventory", t) /\ outbox[c].payload \in Left(c)
            BY <1>4, <2>3 DEF Of, Left
        <3>2. StockFrom(outbox[c].payload, t)
            BY <1>3, <3>1 DEF StockFrom
        <3> QED BY <1>5, <1>6, <1>12, <2>3, <3>2
    <2>4. CASE l = t /\ outbox[c].kind = "product_listing" /\ ~Upserts(c)
        BY <1>5, <1>6, <1>12, <2>4
    <2> QED BY <1>9, <2>1, <2>2, <2>3, <2>4
<1>13. ASSUME NEW l \in Listings PROVE StockShown(l)'
    <2> PICK n : n = view'[l].avail
        OBVIOUS
    <2>1. view'[l] # None => StockFrom(n, l)'
        BY <1>8, <1>12
    <2> QED BY <2>1 DEF StockShown, StockFrom, Of, UpToDate, SameRow, Left
<1>14. ASSUME NEW l \in Listings PROVE Missing(l)'
    <2>1. CASE l # t \/ outbox[c].kind = "inventory"
        BY <1>5, <1>6, <1>7, <1>10, <2>1 DEF Missing
    <2>2. CASE l = t /\ Upserts(c)
        BY <1>5, <1>6, <1>10, <2>2
    <2>3. CASE l = t /\ outbox[c].kind = "product_listing" /\ outbox[c].op = "DELETE"
        <3>1. Of(c, "product_listing", t)
            BY <1>4, <2>3 DEF Of
        <3>2. ASSUME NEW e \in DOMAIN outbox, Of(e, "product_listing", t), outbox[e].processed
              PROVE  e < c
            <4>1. e <= c
                BY <1>3, <1>4, <2>3, <3>2 DEF UpToDate, SameRow, Of
            <4> QED BY <1>3, <1>4, <3>2, <4>1
        <3> QED BY <1>10, <2>3, <3>1, <3>2
    <2> QED BY <1>9, <2>1, <2>2, <2>3
<1>15. ASSUME NEW e \in DOMAIN outbox, outbox[e].kind = "product_listing",
              outbox[e].op = "DELETE", outbox[e].processed
       PROVE  view'[outbox[e].listing] = None
    <2>1. view[outbox[e].listing] = None /\ outbox[e].listing \in Listings
        BY <1>0, <1>15, Positions, EventFields DEF ShownInv, DeletedStaysDeleted
    <2>2. CASE outbox[e].listing # t \/ outbox[c].kind = "inventory"
        BY <1>5, <1>6, <2>1, <2>2
    <2>3. CASE outbox[e].listing = t /\ Upserts(c)
        <3>1. SameRow(c, e) /\ SameRow(e, c)
            BY <1>4, <1>15, <2>3 DEF SameRow, Of, Upserts
        <3>2. e <= c /\ c <= e
            BY <1>0, <1>3, <1>15, <3>1 DEF UpToDate, DeletionIsLast
        <3> QED BY <1>3, <1>4, <1>15, <3>2
    <2>4. CASE outbox[e].listing = t /\ outbox[c].kind = "product_listing" /\ ~Upserts(c)
        BY <1>5, <1>6, <2>1, <2>4
    <2> QED BY <1>9, <2>2, <2>3, <2>4
<1>16. DeletedStaysDeleted'
    BY <1>2, <1>15 DEF DeletedStaysDeleted
<1>17. StockRead(p)'
    BY <1>2 DEF StockRead
<1>18. Written(p)'
    <2>1. Current(p)' = c /\ Target(p)' = t /\ (Upserts(c)' <=> Upserts(c))
        BY <1>2 DEF Current, Target, Upserts
    <2>2. view'[t] = new
        BY <1>5
    <2> QED BY <1>2, <1>6, <1>9, <2>1, <2>2 DEF Written, Upserts, Columns
<1> QED BY <1>1, <1>11, <1>13, <1>14, <1>16, <1>17, <1>18 DEF ShownInv

LEMMA ShownMark ==
    ASSUME InOrder, BaseInv, OrderInv, ShownInv, NEW p \in Projectors, MarkProcessed(p)
    PROVE  ShownInv'
<1>0. OutboxType /\ PassType
    BY DEF BaseInv
<1>1. \A q \in Projectors : q = p
    BY DEF InOrder, OneProjector
<1>2. phase[p] = "mark" /\ UNCHANGED view /\ TakeUp(p, batch[p] \ {Current(p)})
    BY DEF MarkProcessed
<1>3. /\ Current(p) \in DOMAIN outbox /\ UpToDate(Current(p))
      /\ Target(p) \in Listings /\ outbox[Current(p)].kind \in Kinds
    BY <1>2, CurrentUpToDate
<1> PICK c \in DOMAIN outbox, t \in Listings : c = Current(p) /\ t = Target(p)
    BY <1>3
<1>4. outbox[c].listing = t /\ DOMAIN outbox \subseteq Nat /\ outbox[c] \in Events
      /\ outbox \in Seq(Events)
    BY <1>0, Positions DEF Target, OutboxType
<1>5. outbox' = [outbox EXCEPT ![c].processed = TRUE]
    BY DEF MarkProcessed, Marked
<1>6. /\ DOMAIN outbox' = DOMAIN outbox
      /\ \A e \in DOMAIN outbox :
            /\ outbox'[e].kind = outbox[e].kind /\ outbox'[e].listing = outbox[e].listing
            /\ outbox'[e].op = outbox[e].op /\ outbox'[e].payload = outbox[e].payload
            /\ outbox'[e].open = outbox[e].open
            /\ (outbox'[e].processed <=> outbox[e].processed \/ e = c)
    <2>1. outbox'[c] = [outbox[c] EXCEPT !.processed = TRUE]
        BY <1>4, <1>5
    <2>2. outbox'[c].processed = TRUE
        BY <1>4, <2>1 DEF Events, EventsOf
    <2> QED BY <1>0, <1>5, <2>2, FlagFacts
<1>7. /\ Upserts(c) => /\ view[t] # None
                       /\ Columns("product_listing", view[t]) = outbox[c].payload
      /\ outbox[c].kind = "product_listing" /\ outbox[c].op = "DELETE" => view[t] = None
      /\ outbox[c].kind = "inventory" /\ view[t] # None => view[t].avail = outbox[c].payload
    BY <1>2 DEF ShownInv, Written
<1>8. UpToDate(c)'
    BY <1>3, <1>4, <1>6 DEF UpToDate, SameRow, Of
<1>9. ASSUME NEW f \in DOMAIN outbox, UpToDate(f), ~SameRow(f, c) PROVE UpToDate(f)'
    BY <1>6, <1>9 DEF UpToDate, SameRow, Of
<1>10. \A f \in DOMAIN outbox : Left(f)' = Left(f)
    BY <1>6 DEF Left
<1>11. ASSUME NEW l \in Listings, view[l] # None
       PROVE  \E f \in DOMAIN outbox :
                 /\ Of(f, "product_listing", l) /\ outbox[f].op # "DELETE" /\ UpToDate(f)'
                 /\ Columns("product_listing", view[l]) = outbox[f].payload
    <2>1. CASE Of(c, "product_listing", l)
        <3>1. l = t /\ outbox[c].kind = "product_listing" /\ outbox[c].op # "DELETE"
            BY <1>4, <1>7, <1>11, <2>1 DEF Of
        <3> QED BY <1>7, <1>8, <2>1, <3>1 DEF Upserts
    <2>2. CASE ~Of(c, "product_listing", l)
        <3>1. PICK f \in DOMAIN outbox :
                  /\ Of(f, "product_listing", l) /\ outbox[f].op # "DELETE" /\ UpToDate(f)
                  /\ Columns("product_listing", view[l]) = outbox[f].payload
            BY <1>11 DEF ShownInv, ContentShown
        <3>2. ~SameRow(f, c)
            BY <2>2, <3>1 DEF SameRow, Of
        <3> QED BY <1>9, <3>1, <3>2
    <2> QED BY <2>1, <2>2
<1>12. \A l \in Listings : ContentShown(l)'
    BY <1>2, <1>6, <1>11 DEF ContentShown, Of, Columns
<1>13. ASSUME NEW l \in Listings, view[l] # None PROVE StockFrom(view[l].avail, l)'
    <2> PICK n : n = view[l].avail
        OBVIOUS
    <2>1. \E f \in DOMAIN outbox : Of(f, "inventory", l) /\ UpToDate(f)' /\ n \in Left(f)
        <3>1. CASE Of(c, "inventory", l)
            BY <1>4, <1>7, <1>8, <1>13, <3>1 DEF Of, Left
        <3>2. CASE ~Of(c, "inventory", l)
            <4>1. PICK f \in DOMAIN outbox : Of(f, "inventory", l) /\ UpToDate(f) /\ n \in Left(f)
                BY <1>13 DEF ShownInv, StockShown, StockFrom
            <4>2. ~SameRow(f, c)
                BY <3>2, <4>1 DEF SameRow, Of
            <4> QED BY <1>9, <4>1, <4>2
        <3> QED BY <3>1, <3>2
    <2>2. StockFrom(n, l)'
        BY <1>6, <1>10, <2>1 DEF StockFrom, Of
    <2> QED BY <1>2, <2>2 DEF StockFrom, Of, UpToDate, SameRow, Left
<1>14. \A l \in Listings : StockShown(l)'
    BY <1>2, <1>13 DEF StockShown, StockFrom, Of, UpToDate, SameRow, Left
<1>15. ASSUME NEW l \in Listings PROVE Missing(l)'
    <2> SUFFICES ASSUME view[l] = None, NEW e \in DOMAIN outbox,
                        Of(e, "product_listing", l), outbox[e].processed \/ e = c,
                        outbox[e].op # "DELETE"
                 PROVE  \E f \in DOMAIN outbox :
                           e < f /\ Of(f, "product_listing", l) /\ outbox[f].op = "DELETE"
        BY <1>2, <1>6 DEF Missing, Of
    <2>1. e # c
        BY <1>4, <1>7 DEF Upserts, Of
    <2> QED BY <2>1 DEF ShownInv, Missing
<1>16. DeletedStaysDeleted'
    <2> SUFFICES ASSUME NEW e \in DOMAIN outbox, outbox[e].kind = "product_listing",
                        outbox[e].op = "DELETE", outbox[e].processed \/ e = c
                 PROVE  view[outbox[e].listing] = None
        BY <1>2, <1>6 DEF DeletedStaysDeleted
    <2> QED BY <1>4, <1>7 DEF ShownInv, DeletedStaysDeleted
<1>17. StockRead(p)' /\ Written(p)'
    <2> DEFINE S == batch[p] \ {Current(p)}
    <2>1. batch'[p] = S /\ phase'[p] = IF S = {} THEN "idle" ELSE FirstCall(Least(S))
        BY <1>0, <1>2, TakeUpFacts
    <2>2. Current(p)' = Least(S) /\ (S # {} => Least(S) \in DOMAIN outbox)
        <3>1. S \subseteq DOMAIN outbox
            BY <1>0 DEF PassType
        <3> HIDE DEF S
        <3> QED BY <1>4, <2>1, <3>1, LeastIs DEF Current
    <2> HIDE DEF S
    <2>3. phase'[p] # "mark" /\ ~(phase'[p] = "write" /\ Upserts(Current(p))')
        BY <1>6, <2>1, <2>2 DEF FirstCall, Upserts
    <2> QED BY <2>3 DEF StockRead, Written
<1> QED BY <1>1, <1>12, <1>14, <1>15, <1>16, <1>17 DEF ShownInv

LEMMA ShownProjector ==
    ASSUME InOrder, BaseInv, OrderInv, ShownInv, ProjectorStep
    PROVE  ShownInv'
<1>0. OutboxType /\ PassType /\ OneProjector
    BY DEF BaseInv, InOrder
<1> PICK p \in Projectors : Projector(p) \/ Throw(p) \/ Crash(p)
    BY DEF ProjectorStep
<1>1. \A q \in Projectors : q = p
    BY <1>0 DEF OneProjector
<1>2. phase[p] # "idle" => Current(p) \in DOMAIN outbox /\ Target(p) \in Listings
    BY CurrentUpToDate
<1>3. CASE ~WriteView(p) /\ ~MarkProcessed(p)
    <2>1. /\ UNCHANGED view /\ DOMAIN outbox' = DOMAIN outbox
          /\ \A e \in DOMAIN outbox :
                /\ outbox'[e].kind = outbox[e].kind /\ outbox'[e].listing = outbox[e].listing
                /\ outbox'[e].op = outbox[e].op /\ outbox'[e].payload = outbox[e].payload
                /\ outbox'[e].processed = outbox[e].processed
                /\ outbox'[e].open = outbox[e].open
        <3>1. CASE RecordFailure(p)
            BY <1>0, <1>2, <3>1, FlagFacts DEF RecordFailure
        <3> QED BY <1>3, <3>1 DEF Projector, EmptyPoll, ProcessBatch, ReadVendor, ReadStock,
            Throw, Crash, vars
    <2>2. /\ \A l \in Listings : ContentShown(l)' /\ StockShown(l)' /\ Missing(l)'
          /\ DeletedStaysDeleted'
          /\ \A n, l : StockFrom(n, l) => StockFrom(n, l)'
        BY <2>1, ShownKept DEF ShownInv
    <2>3. ASSUME NEW S \in SUBSET DOMAIN outbox, TakeUp(p, S)
          PROVE  StockRead(p)' /\ Written(p)'
        <3>1. batch'[p] = S /\ phase'[p] = IF S = {} THEN "idle" ELSE FirstCall(Least(S))
            BY <1>0, <2>3, TakeUpFacts
        <3>2. Current(p)' = Least(S) /\ (S # {} => Least(S) \in DOMAIN outbox)
            BY <1>0, <3>1, Positions, LeastIs DEF Current
        <3>3. phase'[p] # "mark" /\ ~(phase'[p] = "write" /\ Upserts(Current(p))')
            BY <2>1, <3>1, <3>2 DEF FirstCall, Upserts
        <3> QED BY <3>3 DEF StockRead, Written
    <2>4. CASE ProcessBatch(p)
        BY <1>0, <1>1, <2>2, <2>3, <2>4, PollSelects DEF ProcessBatch, ShownInv
    <2>5. CASE Crash(p)
        BY <1>1, <2>2, <2>3, <2>5 DEF Crash, ShownInv
    <2>6. CASE RecordFailure(p)
        <3>1. batch[p] \ {Current(p)} \in SUBSET DOMAIN outbox
            BY <1>0 DEF PassType
        <3> QED BY <1>1, <2>2, <2>3, <2>6, <3>1 DEF RecordFailure, ShownInv
    <2>7. CASE ReadVendor(p) \/ Throw(p)
        <3>1. phase'[p] # "write" /\ phase'[p] # "mark"
            BY <1>0, <2>7 DEF ReadVendor, Throw, PassType
        <3> QED BY <1>1, <2>2, <3>1 DEF ShownInv, StockRead, Written
    <2>8. CASE ReadStock(p)
        <3>1. /\ phase[p] = "stock" /\ UNCHANGED <<outbox, batch>> /\ phase'[p] = "write"
              /\ readStock'[p] = StockOrZero(Target(p))
            BY <1>0, <2>8 DEF ReadStock, PassType
        <3> PICK c \in DOMAIN outbox : c = Current(p)
            BY <1>2, <3>1
        <3> PICK t : t = Target(p)
            OBVIOUS
        <3> PICK n : n = StockOrZero(t)
            OBVIOUS
        <3>2. Current(p)' = c /\ Target(p)' = t
            BY <3>1 DEF Current, Target
        <3>3. StockFrom(n, t)
            BY ReadIsUpToDate DEF Target
        <3>4. StockFrom(n, t)'
            BY <2>2, <3>3
        <3>5. StockRead(p)'
            BY <3>1, <3>2, <3>4 DEF StockRead, StockFrom, Of, UpToDate, SameRow, Left
        <3> QED BY <1>1, <2>2, <3>1, <3>5 DEF ShownInv, Written
    <2>9. CASE EmptyPoll(p)
        <3>1. UNCHANGED <<outbox, view, phase, batch, readStock>>
            BY <2>9 DEF EmptyPoll, vars, localVars
        <3>2. StockRead(p)' /\ Written(p)'
            BY <3>1 DEF ShownInv, StockRead, Written, StockFrom, Of, UpToDate, SameRow, Left,
                Current, Target, Upserts, Columns
        <3> QED BY <1>1, <2>2, <3>2 DEF ShownInv
    <2> QED BY <1>3, <2>4, <2>5, <2>6, <2>7, <2>8, <2>9 DEF Projector
<1> QED BY <1>3, ShownWrite, ShownMark

LEMMA ShownStep ==
    ASSUME InOrder, BaseInv, OrderInv, ShownInv, [Next]_vars
    PROVE  ShownInv'
<1>1. CASE UNCHANGED vars
    <2>1. UNCHANGED <<outbox, view, phase, batch, readStock>>
        BY <1>1 DEF vars, localVars
    <2>2. (\A l \in Listings : ContentShown(l)' /\ StockShown(l)' /\ Missing(l)')
          /\ DeletedStaysDeleted'
        BY <2>1, ShownKept DEF ShownInv
    <2>3. \A p \in Projectors : StockRead(p)' /\ Written(p)'
        BY <2>1 DEF ShownInv, StockRead, Written, StockFrom, Of, UpToDate, SameRow, Left,
            Current, Target, Upserts, Columns
    <2> QED BY <2>2, <2>3 DEF ShownInv
<1> QED BY <1>1, NextIs, ShownSource, ShownProjector

LEMMA ShownInit == Init => ShownInv
BY DEF Init, ShownInv, ContentShown, StockShown, Missing, StockRead, Written, DeletedStaysDeleted

THEOREM ShownInvariant ==
    ASSUME InOrder
    PROVE  Spec => [](BaseInv /\ OrderInv /\ ShownInv)
<1>1. BaseInv /\ OrderInv /\ ShownInv /\ [Next]_vars => (OrderInv /\ ShownInv)'
    BY OrderStep, ShownStep DEF InOrder
<1>2. Spec => []BaseInv
    BY BaseInvariant DEF InOrder
<1> QED BY <1>1, <1>2, OrderInit, ShownInit, PTL DEF Spec

(* A listing whose committed events are all processed is shown as it is.    *)
LEMMA SettledInSync ==
    ASSUME BaseInv, ShownInv, NEW l \in Listings,
           \A e \in DOMAIN outbox :
              outbox[e].listing = l /\ ~outbox[e].open => outbox[e].processed
    PROVE  InSync(l)
<1>0. OutboxType /\ PassType /\ History
    BY DEF BaseInv
<1>1. DOMAIN outbox \subseteq Nat
    BY <1>0 DEF OutboxType
<1>2. ASSUME NEW e \in DOMAIN outbox, outbox[e].listing = l, NEW k \in Kinds
      PROVE  \E g \in DOMAIN outbox :
                /\ Of(g, k, l) /\ outbox[g].processed /\ SourceRow(k, l) = RowAfter(g)
                /\ \A f \in DOMAIN outbox : Of(f, k, l) /\ UpToDate(f) => f = g
                /\ \A f \in DOMAIN outbox : Of(f, k, l) /\ outbox[f].op = "DELETE" => f <= g
    <2> PICK g \in DOMAIN outbox : Of(g, k, outbox[e].listing) /\ Latest(g)
        BY <1>0 DEF History, BothHaveLatest
    <2>1. Of(g, k, l) /\ outbox[g].processed
        BY <1>2 DEF Latest, Of
    <2>2. SourceRow(k, l) = RowAfter(g)
        BY <1>0, <2>1 DEF History, LatestIsRow, Of
    <2>3. \A f \in DOMAIN outbox : Of(f, k, l) /\ ~outbox[f].open => f <= g
        BY <2>1 DEF Latest, SameRow, Of
    <2>4. \A f \in DOMAIN outbox : Of(f, k, l) /\ UpToDate(f) => f = g
        BY <1>1, <2>1, <2>3 DEF UpToDate, SameRow, Of
    <2>5. \A f \in DOMAIN outbox : outbox[f].op = "DELETE" => ~outbox[f].open
        BY <1>0 DEF OutboxType, EventOK
    <2> QED BY <2>1, <2>2, <2>3, <2>4, <2>5
<1>3. CASE product[l] = None
    <2> SUFFICES ASSUME view[l] # None PROVE FALSE
        BY <1>3 DEF InSync
    <2>1. PICK f \in DOMAIN outbox : Of(f, "product_listing", l)
        BY DEF ShownInv, ContentShown
    <2>2. outbox[f].listing = l
        BY <2>1 DEF Of
    <2>3. PICK g \in DOMAIN outbox : /\ Of(g, "product_listing", l) /\ outbox[g].processed
                                     /\ SourceRow("product_listing", l) = RowAfter(g)
        BY <1>2, <2>2 DEF Kinds
    <2>4. outbox[g].op # "DELETE" => outbox[g].payload \in Contents
        BY <1>0, <2>3, Positions, EventFields DEF Of
    <2>5. outbox[g].op = "DELETE"
        BY <1>3, <2>3, <2>4, NoneApart DEF SourceRow, RowAfter
    <2> QED BY <2>3, <2>5 DEF ShownInv, DeletedStaysDeleted, Of
<1>4. CASE product[l] # None
    <2>1. PICK e \in DOMAIN outbox : outbox[e].listing = l
        BY <1>0, <1>4 DEF History, RowHasEvent
    <2>2. PICK g \in DOMAIN outbox :
              /\ Of(g, "product_listing", l) /\ outbox[g].processed
              /\ SourceRow("product_listing", l) = RowAfter(g)
              /\ \A f \in DOMAIN outbox : Of(f, "product_listing", l) /\ UpToDate(f) => f = g
              /\ \A f \in DOMAIN outbox :
                    Of(f, "product_listing", l) /\ outbox[f].op = "DELETE" => f <= g
        BY <1>2, <2>1 DEF Kinds
    <2>3. PICK h \in DOMAIN outbox :
              /\ Of(h, "inventory", l) /\ SourceRow("inventory", l) = RowAfter(h)
              /\ \A f \in DOMAIN outbox : Of(f, "inventory", l) /\ UpToDate(f) => f = h
        BY <1>2, <2>1 DEF Kinds
    <2>4. stock[l] # None
        BY <1>0, <1>4 DEF History, RowsTogether
    <2>5. /\ outbox[g].op # "DELETE" /\ outbox[g].payload = product[l]
          /\ outbox[h].op # "DELETE" /\ outbox[h].payload = stock[l]
        BY <1>4, <2>2, <2>3, <2>4 DEF SourceRow, RowAfter
    <2>6. view[l] # None
        <3> SUFFICES ASSUME view[l] = None PROVE FALSE
            OBVIOUS
        <3>1. PICK f \in DOMAIN outbox :
                  g < f /\ Of(f, "product_listing", l) /\ outbox[f].op = "DELETE"
            BY <2>2, <2>5 DEF ShownInv, Missing
        <3> QED BY <1>1, <2>2, <3>1
    <2>7. Columns("product_listing", view[l]) = product[l]
        <3>1. PICK f \in DOMAIN outbox :
                  /\ Of(f, "product_listing", l) /\ UpToDate(f)
                  /\ Columns("product_listing", view[l]) = outbox[f].payload
            BY <2>6 DEF ShownInv, ContentShown
        <3> QED BY <2>2, <2>5, <3>1
    <2>8. view[l].avail = stock[l]
        <3>1. PICK f \in DOMAIN outbox :
                  Of(f, "inventory", l) /\ UpToDate(f) /\ view[l].avail \in Left(f)
            BY <2>6 DEF ShownInv, StockShown, StockFrom
        <3> QED BY <2>3, <2>5, <3>1 DEF Left
    <2>9. view[l].cat = product[l].cat /\ view[l].rev = product[l].rev
        <3>1. product[l] = [cat |-> view[l].cat, rev |-> view[l].rev]
            BY <2>7 DEF Columns
        <3> QED BY <3>1
    <2> QED BY <1>4, <2>6, <2>8, <2>9 DEF InSync
<1> QED BY <1>3, <1>4

(* The gauge tells the truth: whenever no committed event is unprocessed,   *)
(* in the middle of a pass too, the view shows every listing as it is, when *)
(* events are applied in order.                                             *)
THEOREM ProjectorLagIsTruth ==
    ASSUME InOrder
    PROVE  Spec => []NoLagMeansInSync
<1>1. BaseInv /\ ShownInv => NoLagMeansInSync
    BY SettledInSync DEF NoLagMeansInSync, Lag
<1> QED BY <1>1, ShownInvariant, PTL

(* No silent drift: when the outbox is drained, a listing that is not shown *)
(* as it is has an event that was given up and is reported as stuck.        *)
THEOREM ProjectorNoSilentDrift ==
    ASSUME InOrder
    PROVE  Spec => []NoSilentDrift
<1>1. BaseInv /\ ShownInv => NoSilentDrift
    <2> SUFFICES ASSUME BaseInv, ShownInv, Drained, NEW l \in Listings,
                        \A e \in DOMAIN outbox : outbox[e].listing = l => ~Stuck(e)
                 PROVE  InSync(l)
        BY DEF NoSilentDrift
    <2>1. ASSUME NEW e \in DOMAIN outbox, outbox[e].listing = l, ~outbox[e].open
          PROVE  outbox[e].processed
        <3>1. outbox[e].attempts \in Nat /\ MaxAttempts \in Nat
            BY Positions, EventFields, ProjectorAssumption DEF BaseInv
        <3> QED BY <2>1, <3>1 DEF Drained, Pending, Stuck
    <2> QED BY <2>1, SettledInSync
<1> QED BY <1>1, ShownInvariant, PTL

(* What was acknowledged is shown: once an event is processed, the columns  *)
(* of its table show what it wrote, or what a later event of that table     *)
(* did, in whatever order the ids became visible.                           *)
THEOREM ProjectorShowsAcknowledged ==
    ASSUME InOrder
    PROVE  Spec => []AcknowledgedShown
<1>1. BaseInv /\ ShownInv => AcknowledgedShown
    <2> SUFFICES ASSUME BaseInv, ShownInv, NEW e \in DOMAIN outbox, outbox[e].processed,
                        view[outbox[e].listing] # None
                 PROVE  \E f \in e..Len(outbox) :
                            /\ outbox[f].listing = outbox[e].listing
                            /\ outbox[f].kind = outbox[e].kind
                            /\ Columns(outbox[e].kind, view[outbox[e].listing]) \in Left(f)
        BY DEF AcknowledgedShown
    <2>1. /\ outbox[e].listing \in Listings /\ outbox[e].kind \in Kinds
          /\ DOMAIN outbox = 1..Len(outbox) /\ Len(outbox) \in Nat
        BY Positions, EventFields DEF BaseInv
    <2>2. ASSUME NEW f \in DOMAIN outbox, Of(f, outbox[e].kind, outbox[e].listing), UpToDate(f)
          PROVE  f \in e..Len(outbox)
        BY <2>1, <2>2 DEF UpToDate, SameRow, Of
    <2>3. CASE outbox[e].kind = "inventory"
        <3>1. PICK f \in DOMAIN outbox :
                  /\ Of(f, "inventory", outbox[e].listing) /\ UpToDate(f)
                  /\ view[outbox[e].listing].avail \in Left(f)
            BY <2>1 DEF ShownInv, StockShown, StockFrom
        <3> QED BY <2>2, <2>3, <3>1 DEF Of, Columns
    <2>4. CASE outbox[e].kind = "product_listing"
        <3>1. PICK f \in DOMAIN outbox :
                  /\ Of(f, "product_listing", outbox[e].listing) /\ UpToDate(f)
                  /\ Columns("product_listing", view[outbox[e].listing]) = outbox[f].payload
            BY <2>1 DEF ShownInv, ContentShown
        <3>2. outbox[f].payload \in Left(f)
            BY DEF Left
        <3> QED BY <2>2, <2>4, <3>1, <3>2 DEF Of
    <2> QED BY <2>1, <2>3, <2>4 DEF Kinds
<1> QED BY <1>1, ShownInvariant, PTL

(* Deleted stays deleted: no listing whose deletion was applied comes back  *)
(* to the view, when events are applied in order.                           *)
THEOREM ProjectorKeepsDeleted ==
    ASSUME InOrder
    PROVE  Spec => []DeletedStaysDeleted
<1>1. ShownInv => DeletedStaysDeleted
    BY DEF ShownInv
<1> QED BY <1>1, ShownInvariant, PTL

-----------------------------------------------------------------------------
(* last_synced_outbox_id, in any order and with updates that overlap.       *)

(* To be overtaken depends on what an event is and on whether it failed.    *)
LEMMA OvertakenKept ==
    ASSUME NEW e \in DOMAIN outbox, NEW f \in DOMAIN outbox, OvertakenBy(e, f),
           \A g \in DOMAIN outbox : outbox'[g].kind = outbox[g].kind
                /\ (outbox[g].attempts > 0 => outbox'[g].attempts > 0)
    PROVE  OvertakenBy(e, f)'
BY DEF OvertakenBy, Retried

LEMMA SyncSource ==
    ASSUME BaseInv, SyncInv, SourceStep
    PROVE  SyncInv' /\ UNCHANGED view
<1>0. OutboxType /\ PassType
    BY DEF BaseInv
<1>1. /\ UNCHANGED <<view, phase, batch>> /\ DOMAIN outbox \subseteq DOMAIN outbox'
      /\ \A e \in DOMAIN outbox :
            /\ outbox'[e].listing = outbox[e].listing /\ outbox'[e].kind = outbox[e].kind
            /\ outbox'[e].processed = outbox[e].processed
            /\ outbox'[e].attempts = outbox[e].attempts
            /\ outbox'[e].open => outbox[e].open
      /\ \A e \in DOMAIN outbox' \ DOMAIN outbox :
            ~outbox'[e].processed /\ \A f \in DOMAIN outbox : f < e
    BY <1>0, SourceFacts
<1>2. \A e, f \in DOMAIN outbox : OvertakenBy(e, f)' <=> OvertakenBy(e, f)
    BY <1>1 DEF OvertakenBy, Retried
<1>3. \A l \in Listings : view[l] # None => view[l].synced \in DOMAIN outbox
    BY <1>0 DEF PassType
<1>4. AcknowledgedReflected'
    <2> SUFFICES ASSUME NEW e \in DOMAIN outbox', outbox'[e].processed,
                        view'[outbox'[e].listing] # None,
                        NEW s, s = view'[outbox'[e].listing].synced
                 PROVE  e <= s \/ OvertakenBy(s, e)'
        BY DEF AcknowledgedReflected, OvertakenBy, Retried
    <2>1. e \in DOMAIN outbox /\ outbox[e].processed /\ outbox'[e].listing = outbox[e].listing
        BY <1>1
    <2> PICK l \in Listings : l = outbox[e].listing
        BY <1>0, <2>1, Positions, EventFields
    <2>2. view[l] # None /\ view[l].synced = s /\ s \in DOMAIN outbox
        BY <1>1, <1>3, <2>1
    <2>3. e <= s \/ OvertakenBy(s, e)
        BY <2>1, <2>2 DEF SyncInv, AcknowledgedReflected
    <2> QED BY <1>2, <2>1, <2>2, <2>3
<1>5. ASSUME NEW l \in Listings, view[l] # None, NEW e \in DOMAIN outbox',
             outbox'[e].listing = l, Pending(e)' \/ outbox'[e].open,
             NEW s, s = view[l].synced
      PROVE  s <= e \/ OvertakenBy(e, s)'
    <2>1. CASE e \in DOMAIN outbox
        <3>1. Pending(e) \/ outbox[e].open
            BY <1>1, <1>5, <2>1 DEF Pending
        <3>2. s <= e \/ OvertakenBy(e, s)
            BY <1>1, <1>5, <2>1, <3>1 DEF SyncInv
        <3> QED BY <1>2, <1>3, <1>5, <2>1, <3>2
    <2>2. CASE e \notin DOMAIN outbox
        <3>1. OutboxType'
            BY <1>0, SourceHistory DEF BaseInv
        <3>2. s \in DOMAIN outbox /\ DOMAIN outbox \subseteq Nat /\ e \in Nat
            BY <1>0, <1>5, <3>1 DEF PassType, OutboxType
        <3> QED BY <1>1, <2>2, <3>2
    <2> QED BY <2>1, <2>2
<1>6. ASSUME NEW p \in Projectors, phase[p] = "mark", view[Target(p)'] # None
      PROVE  view[Target(p)'].synced = Current(p)'
    <2>1. Current(p) \in DOMAIN outbox /\ Current(p)' = Current(p)
        BY <1>0, <1>1, <1>6, CurrentIs DEF PassType, PassOK, Current
    <2>2. Target(p)' = Target(p)
        BY <1>1, <2>1 DEF Target
    <2> QED BY <1>6, <2>1, <2>2 DEF SyncInv
<1>7. ASSUME NEW p \in Projectors, phase'[p] = "mark", (view[Target(p)])' # None
      PROVE  (view[Target(p)])'.synced = Current(p)'
    BY <1>1, <1>6, <1>7
<1> QED BY <1>1, <1>4, <1>5, <1>7 DEF SyncInv, OvertakenBy, Retried

(* One step of the process: a row goes back only to an event that the one   *)
(* it reflected had overtaken.                                              *)
LEMMA SyncProjector ==
    ASSUME OneProjector, BaseInv, OrderInv, SyncInv, ProjectorStep
    PROVE  /\ SyncInv'
           /\ \A l \in Listings :
                 view[l] # None /\ view'[l] # None /\ view'[l].synced < view[l].synced
                     => OvertakenBy(view'[l].synced, view[l].synced)
<1>0. OutboxType /\ PassType /\ OpenIsLast
    BY DEF BaseInv, History
<1> PICK p \in Projectors : Projector(p) \/ Throw(p) \/ Crash(p)
    BY DEF ProjectorStep
<1>a. \A q \in Projectors : q = p
    BY DEF OneProjector
<1>1. DOMAIN outbox \subseteq Nat
    BY <1>0 DEF OutboxType
<1>2. \A l \in Listings : view[l] # None =>
          view[l].synced \in Nat /\ view[l].synced \in DOMAIN outbox
    BY <1>0, <1>1 DEF PassType
<1>3. phase[p] # "idle" =>
          /\ Current(p) \in DOMAIN outbox /\ Target(p) \in Listings
          /\ Pending(Current(p)) /\ Current(p) \in batch[p]
          /\ \A e \in batch[p] : Current(p) <= e
    BY <1>0, CurrentIs DEF PassType, PassOK
<1>4. CASE WriteView(p)
    <2>1. phase[p] = "write" /\ UNCHANGED <<outbox, batch>>
        BY <1>4 DEF WriteView
    <2> PICK c \in DOMAIN outbox, t \in Listings : c = Current(p) /\ t = Target(p)
        BY <1>3, <2>1
    <2> PICK new : new = Applied(p, c, view[t])
        OBVIOUS
    <2>2. new # None => new.synced = c
        BY <2>1, Writes
    <2>3. \A l \in Listings : view'[l] = IF l = t THEN new ELSE view[l]
        BY <1>0, <1>4 DEF WriteView, PassType
    <2>4. outbox[c].listing = t /\ Pending(c) /\ c \in batch[p]
        BY <1>3, <2>1 DEF Target
    <2>5. \A e, f \in DOMAIN outbox :
              outbox[e].listing = t /\ outbox[f].listing = t => Rival(e, f) \/ OvertakenBy(f, e)
        BY ProjectorAssumption DEF Rival, OvertakenBy
    <2>6. ASSUME NEW e \in DOMAIN outbox, outbox[e].listing = t, outbox[e].processed
          PROVE  e <= c \/ OvertakenBy(c, e)
        <3>1. Passed(c) => OvertakenBy(c, e)
            BY <2>4 DEF OrderInv, OvertakenBy
        <3>2. c < e => Passed(c) \/ OvertakenBy(c, e)
            <4>1. Rival(c, e) \/ OvertakenBy(c, e)
                BY <2>4, <2>5, <2>6, RivalFacts
            <4> QED BY <2>6, <4>1 DEF Passed
        <3> QED BY <1>1, <3>1, <3>2
    <2>7. ASSUME NEW e \in DOMAIN outbox, outbox[e].listing = t, Pending(e) \/ outbox[e].open
          PROVE  c <= e \/ OvertakenBy(e, c)
        <3>1. (Rival(c, e) /\ Rival(e, c)) \/ OvertakenBy(e, c)
            BY <2>4, <2>5, <2>7, RivalFacts
        <3>2. CASE outbox[e].open
            BY <1>0, <2>7, <3>1, <3>2 DEF OpenIsLast
        <3>3. CASE Pending(e)
            <4>1. e < c => e \in batch[p] \/ OvertakenBy(e, c)
                BY <2>4, <2>7, <3>1, <3>3 DEF OrderInv, BatchOK, OvertakenBy
            <4> QED BY <1>1, <1>3, <2>1, <4>1
        <3> QED BY <2>7, <3>2, <3>3
    <2>8. \A e \in DOMAIN outbox : Pending(e)' <=> Pending(e)
        BY <2>1 DEF Pending
    <2>9. AcknowledgedReflected'
        <3> SUFFICES ASSUME NEW e \in DOMAIN outbox, outbox[e].processed,
                            view'[outbox[e].listing] # None
                     PROVE  \/ e <= view'[outbox[e].listing].synced
                            \/ OvertakenBy(view'[outbox[e].listing].synced, e)
            BY <2>1 DEF AcknowledgedReflected, OvertakenBy, Retried
        <3>1. outbox[e].listing \in Listings
            BY <1>0, Positions, EventFields
        <3>2. CASE outbox[e].listing = t
            BY <2>2, <2>3, <2>6, <3>1, <3>2
        <3>3. CASE outbox[e].listing # t
            <4>1. view'[outbox[e].listing] = view[outbox[e].listing]
                BY <2>3, <3>1, <3>3
            <4> QED BY <4>1 DEF SyncInv, AcknowledgedReflected
        <3> QED BY <3>2, <3>3
    <2>10. ASSUME NEW l \in Listings, view'[l] # None, NEW e \in DOMAIN outbox,
                  outbox[e].listing = l, Pending(e) \/ outbox[e].open
           PROVE  view'[l].synced <= e \/ OvertakenBy(e, view'[l].synced)
        BY <2>2, <2>3, <2>7, <2>10 DEF SyncInv
    <2>11. ASSUME NEW l \in Listings, view[l] # None, view'[l] # None,
                  view'[l].synced < view[l].synced
           PROVE  OvertakenBy(view'[l].synced, view[l].synced)
        <3>1. CASE l = t
            <4>1. view[l].synced <= c \/ OvertakenBy(c, view[l].synced)
                BY <2>4, <2>11, <3>1 DEF SyncInv
            <4> QED BY <1>1, <1>2, <2>2, <2>3, <2>11, <3>1, <4>1
        <3>2. CASE l # t
            BY <1>2, <2>3, <2>11, <3>2
        <3> QED BY <3>1, <3>2
    <2>12. (view[Target(p)])' # None => (view[Target(p)])'.synced = Current(p)'
        <3>1. Target(p)' = t /\ Current(p)' = c
            BY <2>1 DEF Target, Current
        <3> QED BY <2>2, <2>3, <3>1
    <2>13. ASSUME NEW l \in Listings, view'[l] # None, NEW e \in DOMAIN outbox',
                  outbox'[e].listing = l, Pending(e)' \/ outbox'[e].open,
                  NEW s, s = view'[l].synced
           PROVE  s <= e \/ OvertakenBy(e, s)'
        <3>1. s <= e \/ OvertakenBy(e, s)
            BY <2>1, <2>8, <2>10, <2>13
        <3> QED BY <2>1, <3>1 DEF OvertakenBy, Retried
    <2> QED BY <1>a, <2>9, <2>11, <2>12, <2>13 DEF SyncInv, OvertakenBy, Retried
<1>5. CASE ~WriteView(p)
    <2>1. UNCHANGED view
        BY <1>5 DEF Projector, EmptyPoll, ProcessBatch, ReadVendor, ReadStock,
            MarkProcessed, RecordFailure, Throw, Crash, vars
    <2>2. /\ DOMAIN outbox' = DOMAIN outbox
          /\ \A e \in DOMAIN outbox :
                /\ outbox'[e].listing = outbox[e].listing /\ outbox'[e].open = outbox[e].open
                /\ outbox'[e].kind = outbox[e].kind
                /\ outbox[e].attempts > 0 => outbox'[e].attempts > 0
                /\ Pending(e)' => Pending(e)
                /\ outbox'[e].processed =>
                      outbox[e].processed \/ (MarkProcessed(p) /\ e = Current(p))
        <3>0. \A e \in DOMAIN outbox : outbox[e].attempts \in Nat
            BY <1>0, Positions, EventFields
        <3>1. CASE MarkProcessed(p) \/ RecordFailure(p)
            <4>1. /\ phase[p] # "idle"
                  /\ outbox' = Failed(Current(p))
                     \/ outbox' = [outbox EXCEPT ![Current(p)].processed = TRUE]
                  /\ RecordFailure(p) => outbox' = Failed(Current(p))
                BY <3>1 DEF MarkProcessed, RecordFailure, Marked
            <4>2. \A e \in DOMAIN outbox : Pending(e)' => Pending(e)
                BY <1>0, <1>3, <4>1, FlagFacts DEF Pending
            <4>3. ASSUME NEW e \in DOMAIN outbox, outbox[e].attempts > 0
                  PROVE  outbox'[e].attempts > 0
                <5> PICK c \in DOMAIN outbox : c = Current(p)
                    BY <1>3, <4>1
                <5>1. outbox' = Failed(c) \/ outbox' = [outbox EXCEPT ![c].processed = TRUE]
                    BY <4>1
                <5>2. /\ e # c => outbox'[e] = outbox[e]
                      /\ outbox'[c].attempts \in {outbox[c].attempts, outbox[c].attempts + 1}
                    BY <1>0, <5>1, FlagFacts
                <5> QED BY <3>0, <4>3, <5>2
            <4> QED BY <1>0, <1>3, <3>1, <4>1, <4>2, <4>3, FlagFacts
        <3>2. CASE outbox' = outbox
            BY <3>0, <3>2 DEF Pending
        <3> QED BY <1>5, <3>1, <3>2 DEF Projector, EmptyPoll, ProcessBatch, ReadVendor,
            ReadStock, Throw, Crash, vars
    <2>3. \A e, f \in DOMAIN outbox : OvertakenBy(e, f) => OvertakenBy(e, f)'
        BY <1>0, <2>2, OvertakenKept
    <2>4. AcknowledgedReflected'
        <3> SUFFICES ASSUME NEW e \in DOMAIN outbox, outbox'[e].processed,
                            view[outbox[e].listing] # None,
                            NEW s, s = view[outbox[e].listing].synced
                     PROVE  e <= s \/ OvertakenBy(s, e)'
            BY <2>1, <2>2 DEF AcknowledgedReflected, OvertakenBy, Retried
        <3> PICK l \in Listings : l = outbox[e].listing
            BY <1>0, Positions, EventFields
        <3>1. CASE outbox[e].processed
            <4>1. e <= s \/ OvertakenBy(s, e)
                BY <3>1 DEF SyncInv, AcknowledgedReflected
            <4>2. s \in DOMAIN outbox
                BY <1>2
            <4> QED BY <2>3, <4>1, <4>2
        <3>2. CASE MarkProcessed(p) /\ e = Current(p)
            <4>1. Target(p) = l /\ phase[p] = "mark"
                BY <3>2 DEF Target, MarkProcessed
            <4>2. s = e
                BY <3>2, <4>1 DEF SyncInv
            <4> QED BY <1>1, <4>2
        <3> QED BY <2>2, <3>1, <3>2
    <2>5. ASSUME NEW l \in Listings, view[l] # None, NEW e \in DOMAIN outbox,
                 outbox[e].listing = l, Pending(e)' \/ outbox'[e].open,
                 NEW s, s = view[l].synced
          PROVE  s <= e \/ OvertakenBy(e, s)'
        <3>1. s <= e \/ OvertakenBy(e, s)
            BY <2>2, <2>5 DEF SyncInv
        <3> QED BY <1>2, <2>3, <2>5, <3>1
    <2>6. ASSUME phase'[p] = "mark", view[Target(p)'] # None
          PROVE  view[Target(p)'].synced = Current(p)'
        <3>1. phase[p] = "mark" /\ UNCHANGED <<batch, outbox>>
            <4>1. ~\E S : TakeUp(p, S)
                BY <1>0, <2>6 DEF TakeUp, FirstCall, PassType
            <4> QED BY <1>0, <1>5, <2>6, <4>1 DEF Projector, EmptyPoll, ProcessBatch, ReadVendor,
                ReadStock, MarkProcessed, RecordFailure, Throw, Crash, vars, localVars, PassType
        <3>2. Target(p)' = Target(p) /\ Current(p)' = Current(p)
            BY <3>1 DEF Target, Current
        <3> QED BY <2>6, <3>1, <3>2 DEF SyncInv
    <2>7. \A l \in Listings : view[l] # None => ~(view[l].synced < view[l].synced)
        BY <1>2
    <2>8. phase'[p] = "mark" /\ (view[Target(p)])' # None
              => (view[Target(p)])'.synced = Current(p)'
        BY <2>1, <2>6
    <2>9. ASSUME NEW l \in Listings, view'[l] # None, NEW e \in DOMAIN outbox',
                 outbox'[e].listing = l, Pending(e)' \/ outbox'[e].open,
                 NEW s, s = view'[l].synced
          PROVE  s <= e \/ OvertakenBy(e, s)'
        BY <2>1, <2>2, <2>5, <2>9
    <2> QED BY <1>a, <2>1, <2>4, <2>7, <2>8, <2>9 DEF SyncInv, OvertakenBy, Retried
<1> QED BY <1>4, <1>5

LEMMA SyncStep ==
    ASSUME OneProjector, BaseInv, OrderInv, SyncInv, [Next]_vars
    PROVE  /\ SyncInv'
           /\ \A l \in Listings :
                 view[l] # None /\ view'[l] # None /\ view'[l].synced < view[l].synced
                     => OvertakenBy(view'[l].synced, view[l].synced)
<1>1. \A l \in Listings : view[l] # None => ~(view[l].synced < view[l].synced)
    BY DEF BaseInv, PassType, OutboxType
<1>2. CASE UNCHANGED vars
    <2>1. UNCHANGED <<outbox, view, phase, batch>>
        BY <1>2 DEF vars, localVars
    <2> QED BY <1>1, <2>1 DEF SyncInv, AcknowledgedReflected, Pending, OvertakenBy, Retried,
        Target, Current
<1>3. CASE SourceStep
    BY <1>1, <1>3, SyncSource
<1> QED BY <1>2, <1>3, NextIs, SyncProjector

LEMMA SyncInvariant ==
    ASSUME OneProjector
    PROVE  Spec => [](BaseInv /\ OrderInv /\ SyncInv)
<1>1. Init => BaseInv /\ OrderInv /\ SyncInv
    BY BaseInit, OrderInit DEF Init, SyncInv, AcknowledgedReflected
<1>2. BaseInv /\ OrderInv /\ SyncInv /\ [Next]_vars => (BaseInv /\ OrderInv /\ SyncInv)'
    BY BaseStep, OrderStep, SyncStep
<1> QED BY <1>1, <1>2, PTL DEF Spec

(* No event is lost, in any order: the row of a processed event reflects    *)
(* that event or a later one, or one that this event had overtaken.  Any    *)
(* batch size, any call may throw, any update may overlap any other.        *)
THEOREM ProjectorLosesNothing ==
    ASSUME OneProjector
    PROVE  Spec => []AcknowledgedReflected
<1>1. SyncInv => AcknowledgedReflected
    BY DEF SyncInv
<1> QED BY <1>1, SyncInvariant, PTL

(* Only a retry or an overlap of updates takes a row back to an older       *)
(* event, and only to one that had been overtaken: nothing else, whatever   *)
(* stops or throws, and whenever the projector polls.                       *)
THEOREM ProjectorGoesBackOnlyOvertaken ==
    ASSUME OneProjector
    PROVE  Spec => SyncGoesBackOnlyOvertaken
<1>1. BaseInv /\ OrderInv /\ SyncInv /\ [Next]_vars =>
          [\A l \in Listings :
              view[l] # None /\ view'[l] # None /\ view'[l].synced < view[l].synced
                  => OvertakenBy(view'[l].synced, view[l].synced)]_vars
    BY SyncStep
<1> QED BY <1>1, SyncInvariant, PTL DEF Spec, SyncGoesBackOnlyOvertaken

-----------------------------------------------------------------------------
(* The view as a read model of product_listings.                            *)

(* The outbox is bounded, so that the numbers of writes are.                *)
Bounded == Len(outbox) <= MaxEvents

(* A step of the source commits at most one write, later than all others of *)
(* its listing.                                                             *)
Commits(e) ==
    /\ e \in DOMAIN outbox' /\ e \notin CommittedWrites
    /\ CommittedWrites' = CommittedWrites \union {e}

LEMMA SourceCommits ==
    ASSUME OutboxType, RowsTogether, Bounded, SourceStep
    PROVE  /\ CommittedWrites' = CommittedWrites \/ \E e : Commits(e)
           /\ Bounded'
<1> PICK n \in Nat : n = Len(outbox)
    BY Positions
<1>0. outbox \in Seq(Events) /\ DOMAIN outbox = 1..n /\ MaxEvents \in Nat
    BY Positions, ProjectorAssumption DEF OutboxType
<1>1. ASSUME NEW a \in Events, NEW b \in Events, Emit(<<a, b>>),
             a.kind = "product_listing", b.kind = "inventory", a.open = FALSE
      PROVE  Commits(n + 1) /\ Bounded'
    <2>1. /\ DOMAIN outbox' = 1..(n + 2) /\ Len(outbox') = n + 2
          /\ \A e \in DOMAIN outbox : outbox'[e] = outbox[e]
          /\ outbox'[n + 1] = a /\ outbox'[n + 2] = b
        BY <1>0, <1>1, AppendedTwo
    <2>2. n + 2 <= MaxEvents
        BY <1>1 DEF Emit
    <2> QED BY <1>0, <1>1, <2>1, <2>2 DEF Commits, CommittedWrites, Bounded
<1>2. ASSUME NEW a \in Events, NEW b \in Events, Emit(<<b, a>>),
             a.kind = "product_listing", b.kind = "inventory", a.open = FALSE
      PROVE  Commits(n + 2) /\ Bounded'
    <2>1. /\ DOMAIN outbox' = 1..(n + 2) /\ Len(outbox') = n + 2
          /\ \A e \in DOMAIN outbox : outbox'[e] = outbox[e]
          /\ outbox'[n + 1] = b /\ outbox'[n + 2] = a
        BY <1>0, <1>2, AppendedTwo
    <2>2. n + 2 <= MaxEvents
        BY <1>2 DEF Emit
    <2> QED BY <1>0, <1>2, <2>1, <2>2 DEF Commits, CommittedWrites, Bounded
<1>3. ASSUME NEW a \in Events, Emit(<<a>>), a.open = TRUE
      PROVE  CommittedWrites' = CommittedWrites /\ Bounded'
    <2>1. /\ DOMAIN outbox' = 1..(n + 1) /\ Len(outbox') = n + 1
          /\ \A e \in DOMAIN outbox : outbox'[e] = outbox[e]
          /\ outbox'[n + 1] = a
        BY <1>0, <1>3, AppendedOne
    <2>2. n + 1 <= MaxEvents
        BY <1>3 DEF Emit
    <2> QED BY <1>0, <1>3, <2>1, <2>2 DEF CommittedWrites, Bounded
<1>4. ASSUME NEW l \in Listings, NEW c \in Categories, NEW r \in Revisions,
             NEW m \in Stocks, CreateListing(l, c, r, m)
      PROVE  (\E e : Commits(e)) /\ Bounded'
    <2> DEFINE a == ListingEvent(l, "INSERT", [cat |-> c, rev |-> r], FALSE)
               b == InventoryEvent(l, "INSERT", m, FALSE)
    <2>1. /\ a \in Events /\ b \in Events /\ a.open = FALSE
          /\ a.kind = "product_listing" /\ b.kind = "inventory"
        BY DEF ListingEvent, InventoryEvent, Event, Events, EventsOf, Contents
    <2>2. Emit(<<a, b>>)
        BY <1>4 DEF CreateListing
    <2> HIDE DEF a, b
    <2> QED BY <1>1, <2>1, <2>2
<1>5. ASSUME NEW l \in Listings, DeleteListing(l)
      PROVE  (\E e : Commits(e)) /\ Bounded'
    <2> DEFINE a == ListingEvent(l, "DELETE", product[l], FALSE)
               b == InventoryEvent(l, "DELETE", stock[l], FALSE)
    <2>0. product[l] \in Contents /\ stock[l] \in Stocks
        BY <1>5 DEF DeleteListing, OutboxType, RowsTogether
    <2>1. /\ a \in Events /\ b \in Events /\ a.open = FALSE
          /\ a.kind = "product_listing" /\ b.kind = "inventory"
        BY <2>0 DEF ListingEvent, InventoryEvent, Event, Events, EventsOf
    <2>2. Emit(<<a, b>>) \/ Emit(<<b, a>>)
        BY <1>5 DEF DeleteListing
    <2> HIDE DEF a, b
    <2> QED BY <1>1, <1>2, <2>1, <2>2
<1>6. ASSUME NEW l \in Listings, NEW c \in Categories, NEW r \in Revisions,
             UpdateListing(l, c, r)
      PROVE  CommittedWrites' = CommittedWrites /\ Bounded'
    <2> DEFINE a == ListingEvent(l, "UPDATE", [cat |-> c, rev |-> r], TRUE)
    <2>1. a \in Events /\ a.open = TRUE
        BY DEF ListingEvent, Event, Events, EventsOf, Contents
    <2>2. Emit(<<a>>)
        BY <1>6 DEF UpdateListing
    <2> HIDE DEF a
    <2> QED BY <1>3, <2>1, <2>2
<1>7. ASSUME NEW l \in Listings, NEW m \in Stocks, ChangeStock(l, m)
      PROVE  CommittedWrites' = CommittedWrites /\ Bounded'
    <2> DEFINE a == InventoryEvent(l, "UPDATE", m, TRUE)
    <2>1. a \in Events /\ a.open = TRUE
        BY DEF InventoryEvent, Event, Events, EventsOf
    <2>2. Emit(<<a>>)
        BY <1>7 DEF ChangeStock
    <2> HIDE DEF a
    <2> QED BY <1>3, <2>1, <2>2
<1>8. ASSUME NEW l \in Listings, NEW st \in Statuses, UpdateVendorStatus(l, st)
      PROVE  CommittedWrites' = CommittedWrites /\ Bounded'
    BY <1>8 DEF UpdateVendorStatus, CommittedWrites, Bounded
<1>9. ASSUME NEW e \in DOMAIN outbox, Commit(e)
      PROVE  (CommittedWrites' = CommittedWrites \/ \E f : Commits(f)) /\ Bounded'
    <2>1. outbox' = [outbox EXCEPT ![e].open = FALSE] /\ outbox[e].open
        BY <1>9 DEF Commit
    <2>2. /\ DOMAIN outbox' = DOMAIN outbox /\ Len(outbox') = n
          /\ \A f \in DOMAIN outbox \ {e} : outbox'[f] = outbox[f]
        BY <1>0, <2>1
    <2>3. outbox'[e].kind = outbox[e].kind /\ outbox'[e].open = FALSE
        BY <1>0, <2>1, Positions DEF Events, EventsOf
    <2>4. Bounded'
        BY <2>2 DEF Bounded
    <2>5. CASE outbox[e].kind = "product_listing"
        BY <2>1, <2>2, <2>3, <2>4, <2>5 DEF Commits, CommittedWrites
    <2>6. CASE outbox[e].kind # "product_listing"
        BY <2>1, <2>2, <2>3, <2>4, <2>6 DEF CommittedWrites
    <2> QED BY <2>5, <2>6
<1> QED BY <1>4, <1>5, <1>6, <1>7, <1>8, <1>9 DEF SourceStep, Source

(* What is shown, and what the events of a listing say, does not change     *)
(* with the source.                                                         *)
LEMMA SourceFollows ==
    ASSUME BaseInv, Bounded, SourceStep
    PROVE  [Follower!ModelNext]_(Follower!modelVars)
<1>0. OutboxType /\ RowsTogether /\ History /\ OutboxType' /\ History'
    BY SourceHistory DEF BaseInv, History
<1>1. /\ view' = view /\ DOMAIN outbox \subseteq DOMAIN outbox'
      /\ \A e \in DOMAIN outbox :
            /\ outbox'[e].kind = outbox[e].kind /\ outbox'[e].listing = outbox[e].listing
            /\ outbox'[e].op = outbox[e].op /\ outbox'[e].payload = outbox[e].payload
            /\ outbox'[e].processed = outbox[e].processed
      /\ \A e \in DOMAIN outbox' \ DOMAIN outbox :
            ~outbox'[e].processed /\ \A f \in DOMAIN outbox : f < e
    BY <1>0, SourceFacts
<1>2. \A e \in DOMAIN outbox : WriteOf(e)' = WriteOf(e)
    BY <1>1 DEF WriteOf, RowAfter
<1>3. CommittedWrites \subseteq DOMAIN outbox /\ AppliedWrites \subseteq CommittedWrites
    BY DEF CommittedWrites, AppliedWrites
<1>4. CommittedWrites \subseteq CommittedWrites' /\ AppliedWrites' = AppliedWrites
    <2>1. CommittedWrites \subseteq CommittedWrites'
        BY <1>0, SourceCommits DEF Commits
    <2>2. ASSUME NEW e \in CommittedWrites' \ CommittedWrites PROVE ~outbox'[e].processed
        BY <1>0, <1>1, <2>2 DEF CommittedWrites, OutboxType, EventOK
    <2> QED BY <1>1, <1>3, <2>1, <2>2 DEF AppliedWrites
<1>5. {WriteOf(e) : e \in AppliedWrites}' = {WriteOf(e) : e \in AppliedWrites}
    BY <1>2, <1>3, <1>4
<1>6. [l \in Listings |-> ContentOf(l)]' = [l \in Listings |-> ContentOf(l)]
    BY <1>1 DEF ContentOf, Columns
<1>7. CASE CommittedWrites' = CommittedWrites
    <2>1. {WriteOf(e) : e \in CommittedWrites}' = {WriteOf(e) : e \in CommittedWrites}
        BY <1>2, <1>3, <1>7
    <2> QED BY <1>5, <1>6, <2>1 DEF Follower!modelVars
<1>8. ASSUME NEW e, Commits(e) PROVE Follower!ModelNext
    <2>1. /\ e \in DOMAIN outbox' /\ e \notin CommittedWrites
          /\ CommittedWrites' = CommittedWrites \union {e}
        BY <1>8 DEF Commits
    <2>2. outbox'[e].kind = "product_listing" /\ outbox'[e] \in Events /\ e \in 1..MaxEvents
        <3>1. Bounded' /\ MaxEvents \in Nat
            BY <1>0, SourceCommits, ProjectorAssumption
        <3>2. DOMAIN outbox' = 1..Len(outbox') /\ Len(outbox') \in Nat
              /\ outbox'[e] \in Events
            BY <1>0, <2>1 DEF OutboxType
        <3> QED BY <2>1, <3>1, <3>2 DEF CommittedWrites, Bounded
    <2>3. /\ outbox'[e].listing \in Listings
          /\ RowAfter(e)' \in [cat : Categories, rev : Revisions] \union {None}
        BY <2>2, EventFields DEF RowAfter, Contents
    <2>4. ASSUME NEW f \in CommittedWrites, outbox[f].listing = outbox'[e].listing
          PROVE  f < e /\ RowAfter(f) # None
        <3>1. /\ f \in DOMAIN outbox /\ f \in Nat /\ e \in Nat /\ f # e
              /\ outbox[f].kind = "product_listing" /\ outbox[f] \in Events
            BY <1>0, <1>3, <2>1, <2>2, Positions DEF CommittedWrites
        <3>2. f < e
            <4>1. CASE e \in DOMAIN outbox
                <5>1. outbox[e].open /\ Rival(e, f)
                    BY <1>1, <2>1, <2>2, <2>4, <3>1, <4>1 DEF CommittedWrites, Rival
                <5> QED BY <1>0, <3>1, <4>1, <5>1 DEF History, OpenIsLast
            <4>2. CASE e \notin DOMAIN outbox
                BY <1>1, <2>1, <3>1, <4>2
            <4> QED BY <4>1, <4>2
        <3>3. outbox[f].op # "DELETE"
            <4>1. SameRow(f, e)' /\ f \in DOMAIN outbox'
                BY <1>1, <2>2, <2>4, <3>1 DEF SameRow, Of
            <4>2. outbox'[f].op = "DELETE" => e <= f
                BY <1>0, <2>1, <4>1 DEF History, DeletionIsLast
            <4> QED BY <1>1, <3>1, <3>2, <4>2
        <3>4. outbox[f].payload # None
            BY <3>1, EventFields, NoneApart
        <3> QED BY <3>2, <3>3, <3>4 DEF RowAfter
    <2>5. {WriteOf(f) : f \in CommittedWrites}'
              = {WriteOf(f) : f \in CommittedWrites} \union {WriteOf(e)'}
        BY <1>2, <1>3, <2>1
    <2>6. WriteOf(e)' = [key |-> outbox'[e].listing, number |-> e, content |-> RowAfter(e)']
        BY DEF WriteOf
    <2>7. \A w \in {WriteOf(f) : f \in CommittedWrites} :
              w.key = outbox'[e].listing => w.number < e /\ w.content # None
        BY <2>4 DEF WriteOf
    <2>8. Follower!Write(outbox'[e].listing, e, RowAfter(e)')
        BY <1>5, <1>6, <2>5, <2>6, <2>7 DEF Follower!Write
    <2> QED BY <2>2, <2>3, <2>8 DEF Follower!ModelNext
<1> QED BY <1>0, <1>7, <1>8, SourceCommits

(* The projector writes nothing in the source, and its step keeps what the  *)
(* events say.                                                              *)
LEMMA ProjectorKeepsWrites ==
    ASSUME BaseInv, Bounded, ProjectorStep
    PROVE  /\ DOMAIN outbox' = DOMAIN outbox /\ Bounded'
           /\ CommittedWrites' = CommittedWrites
           /\ \A e \in DOMAIN outbox :
                 WriteOf(e)' = WriteOf(e) /\ outbox'[e].kind = outbox[e].kind
           /\ {WriteOf(e) : e \in CommittedWrites}' = {WriteOf(e) : e \in CommittedWrites}
<1>0. OutboxType /\ OutboxType' /\ PassType
    BY ProjectorHistory DEF BaseInv
<1> PICK p \in Projectors : Projector(p) \/ Throw(p) \/ Crash(p)
    BY DEF ProjectorStep
<1>1. /\ DOMAIN outbox' = DOMAIN outbox
      /\ \A e \in DOMAIN outbox :
            /\ outbox'[e].kind = outbox[e].kind /\ outbox'[e].listing = outbox[e].listing
            /\ outbox'[e].op = outbox[e].op /\ outbox'[e].payload = outbox[e].payload
            /\ outbox'[e].open = outbox[e].open
    <2>1. CASE MarkProcessed(p) \/ RecordFailure(p)
        <3>1. Current(p) \in DOMAIN outbox
            BY <1>0, <2>1, CurrentIs DEF MarkProcessed, RecordFailure, PassType, PassOK
        <3> QED BY <1>0, <2>1, <3>1, FlagFacts DEF MarkProcessed, RecordFailure, Marked
    <2>2. CASE outbox' = outbox
        BY <2>2
    <2> QED BY <2>1, <2>2 DEF Projector, EmptyPoll, ProcessBatch, ReadVendor, ReadStock,
        WriteView, Throw, Crash, vars
<1>2. Bounded'
    <2>1. /\ DOMAIN outbox = 1..Len(outbox) /\ DOMAIN outbox' = 1..Len(outbox')
          /\ Len(outbox) \in Nat /\ Len(outbox') \in Nat /\ MaxEvents \in Nat
        BY <1>0, ProjectorAssumption DEF OutboxType
    <2>2. Len(outbox') \in DOMAIN outbox' \/ Len(outbox') = 0
        BY <2>1
    <2>3. Len(outbox') <= Len(outbox)
        BY <1>1, <2>1, <2>2
    <2> QED BY <2>1, <2>3 DEF Bounded
<1>3. CommittedWrites' = CommittedWrites /\ CommittedWrites \subseteq DOMAIN outbox
    BY <1>1 DEF CommittedWrites
<1>4. \A e \in DOMAIN outbox : WriteOf(e)' = WriteOf(e)
    BY <1>1 DEF WriteOf, RowAfter
<1> QED BY <1>1, <1>2, <1>3, <1>4

(* In order, no later write of the listing has been acknowledged than the   *)
(* one at hand.                                                             *)
LEMMA CurrentNotBehind ==
    ASSUME InOrder, BaseInv, OrderInv, NEW p \in Projectors, phase[p] # "idle",
           NEW c, c = Current(p), outbox[c].kind = "product_listing"
    PROVE  /\ c \in CommittedWrites /\ WriteOf(c).key \in Listings
           /\ Follower!NotBehind(WriteOf(c))
<1>1. c \in DOMAIN outbox /\ UpToDate(c) /\ Target(p) \in Listings
    BY CurrentUpToDate
<1>2. c \in CommittedWrites /\ WriteOf(c).key \in Listings
    BY <1>1 DEF UpToDate, CommittedWrites, WriteOf, Target
<1>3. ASSUME NEW e \in AppliedWrites, outbox[e].listing = outbox[c].listing PROVE e <= c
    BY <1>1, <1>3 DEF UpToDate, SameRow, Of, AppliedWrites, CommittedWrites
<1>4. Follower!NotBehind(WriteOf(c))
    BY <1>3 DEF Follower!NotBehind, WriteOf
<1> QED BY <1>2, <1>4

(* The write of the view shows the write at hand, and an inventory event    *)
(* leaves the listing's content alone.                                      *)
LEMMA WriteShows ==
    ASSUME InOrder, BaseInv, Bounded, OrderInv, NEW p \in Projectors, WriteView(p)
    PROVE  [Follower!ModelNext]_(Follower!modelVars)
<1>0. OutboxType /\ PassType /\ ProjectorStep
    BY DEF BaseInv, ProjectorStep, Projector
<1>1. phase[p] = "write" /\ outbox' = outbox
    BY DEF WriteView
<1> PICK c, t, new : c = Current(p) /\ t = Target(p) /\ new = Applied(p, c, view[t])
    OBVIOUS
<1>2. c \in DOMAIN outbox /\ t \in Listings /\ outbox[c].kind \in Kinds
    BY <1>1, CurrentUpToDate
<1>3. \A l \in Listings : view'[l] = IF l = t THEN new ELSE view[l]
    BY <1>0 DEF WriteView, PassType
<1>4. /\ Upserts(c) => /\ new # None /\ Columns("product_listing", new) = outbox[c].payload
      /\ outbox[c].kind = "inventory" =>
            /\ new = None <=> view[t] = None
            /\ new # None =>
                  Columns("product_listing", new) = Columns("product_listing", view[t])
      /\ ~Upserts(c) /\ outbox[c].kind = "product_listing" => new = None
    BY <1>1, Writes
<1>5. {WriteOf(e) : e \in CommittedWrites}' = {WriteOf(e) : e \in CommittedWrites}
    BY <1>0, ProjectorKeepsWrites
<1>6. {WriteOf(e) : e \in AppliedWrites}' = {WriteOf(e) : e \in AppliedWrites}
    BY <1>1 DEF AppliedWrites, CommittedWrites, WriteOf, RowAfter
<1>7. \A l \in Listings \ {t} : ContentOf(l)' = ContentOf(l)
    BY <1>3 DEF ContentOf, Columns
<1>8. ContentOf(t)' = IF new = None THEN None ELSE Columns("product_listing", new)
    BY <1>2, <1>3 DEF ContentOf, Columns
<1>9. CASE outbox[c].kind = "inventory"
    <2>1. ContentOf(t)' = ContentOf(t)
        BY <1>4, <1>8, <1>9 DEF ContentOf
    <2>2. [l \in Listings |-> ContentOf(l)]' = [l \in Listings |-> ContentOf(l)]
        BY <1>7, <2>1
    <2> QED BY <1>5, <1>6, <2>2 DEF Follower!modelVars
<1>10. CASE outbox[c].kind = "product_listing"
    <2>1. c \in CommittedWrites /\ Follower!NotBehind(WriteOf(c))
        BY <1>1, <1>10, CurrentNotBehind
    <2>2. ContentOf(t)' = RowAfter(c)
        BY <1>4, <1>8, <1>10 DEF RowAfter, Upserts
    <2>3. WriteOf(c).key = t /\ WriteOf(c).content = RowAfter(c)
        BY DEF WriteOf, Target
    <2>4. [l \in Listings |-> ContentOf(l)]'
              = [[l \in Listings |-> ContentOf(l)] EXCEPT ![WriteOf(c).key] = WriteOf(c).content]
        BY <1>2, <1>7, <2>2, <2>3
    <2>5. Follower!Show(WriteOf(c))
        BY <1>5, <1>6, <2>1, <2>4 DEF Follower!Show
    <2> QED BY <2>1, <2>5 DEF Follower!ModelNext
<1> QED BY <1>2, <1>9, <1>10 DEF Kinds

(* The mark acknowledges the write at hand, which is shown by then.         *)
LEMMA MarkAcknowledges ==
    ASSUME InOrder, BaseInv, Bounded, OrderInv, ShownInv, NEW p \in Projectors,
           MarkProcessed(p)
    PROVE  [Follower!ModelNext]_(Follower!modelVars)
<1>0. OutboxType /\ PassType /\ ProjectorStep
    BY DEF BaseInv, ProjectorStep, Projector
<1>1. phase[p] = "mark" /\ view' = view /\ outbox' = Marked(p)
    BY DEF MarkProcessed
<1> PICK c, t : c = Current(p) /\ t = Target(p)
    OBVIOUS
<1>2. c \in DOMAIN outbox /\ t \in Listings /\ outbox[c].kind \in Kinds
    BY <1>1, CurrentUpToDate
<1>3. /\ \A e \in DOMAIN outbox : e # c => outbox'[e] = outbox[e]
      /\ outbox'[c].processed
    <2>1. outbox' = [outbox EXCEPT ![c].processed = TRUE]
        BY <1>1 DEF Marked
    <2>2. outbox'[c] = [outbox[c] EXCEPT !.processed = TRUE] /\ outbox[c] \in Events
        BY <1>0, <1>2, <2>1, Positions
    <2>3. outbox'[c].processed
        BY <2>2 DEF Events, EventsOf
    <2> QED BY <1>2, <2>1, <2>3
<1>4. /\ CommittedWrites' = CommittedWrites
      /\ \A e \in DOMAIN outbox : WriteOf(e)' = WriteOf(e)
      /\ {WriteOf(e) : e \in CommittedWrites}' = {WriteOf(e) : e \in CommittedWrites}
    BY <1>0, ProjectorKeepsWrites
<1>5. [l \in Listings |-> ContentOf(l)]' = [l \in Listings |-> ContentOf(l)]
    BY <1>1 DEF ContentOf, Columns
<1>6. AppliedWrites' = AppliedWrites \union (CommittedWrites \intersect {c})
    BY <1>3, <1>4 DEF AppliedWrites, CommittedWrites
<1>7. CommittedWrites \subseteq DOMAIN outbox /\ AppliedWrites \subseteq CommittedWrites
    BY DEF CommittedWrites, AppliedWrites
<1>8. CASE outbox[c].kind = "inventory"
    <2>1. AppliedWrites' = AppliedWrites
        BY <1>6, <1>8 DEF CommittedWrites
    <2>2. {WriteOf(e) : e \in AppliedWrites}' = {WriteOf(e) : e \in AppliedWrites}
        BY <1>4, <1>7, <2>1
    <2> QED BY <1>4, <1>5, <2>2 DEF Follower!modelVars
<1>9. CASE outbox[c].kind = "product_listing"
    <2>1. c \in CommittedWrites /\ Follower!NotBehind(WriteOf(c))
        BY <1>1, <1>9, CurrentNotBehind
    <2>2. ContentOf(t) = RowAfter(c)
        <3>1. IF outbox[c].op = "DELETE" THEN view[t] = None
              ELSE view[t] # None /\ Columns("product_listing", view[t]) = outbox[c].payload
            BY <1>1, <1>9 DEF ShownInv, Written, Upserts
        <3> QED BY <3>1 DEF ContentOf, RowAfter
    <2>3. WriteOf(c).key = t /\ WriteOf(c).content = RowAfter(c)
        BY DEF WriteOf, Target
    <2>4. [l \in Listings |-> ContentOf(l)][WriteOf(c).key] = WriteOf(c).content
        BY <1>2, <2>2, <2>3
    <2>5. {WriteOf(e) : e \in AppliedWrites}'
              = {WriteOf(e) : e \in AppliedWrites} \union {WriteOf(c)}
        BY <1>4, <1>6, <1>7, <2>1
    <2>6. Follower!Acknowledge(WriteOf(c))
        BY <1>4, <1>5, <2>1, <2>4, <2>5 DEF Follower!Acknowledge
    <2> QED BY <2>1, <2>6 DEF Follower!ModelNext
<1> QED BY <1>2, <1>8, <1>9 DEF Kinds

LEMMA ProjectorFollows ==
    ASSUME InOrder, BaseInv, Bounded, OrderInv, ShownInv, ProjectorStep
    PROVE  [Follower!ModelNext]_(Follower!modelVars)
<1>0. OutboxType /\ PassType
    BY DEF BaseInv
<1> PICK p \in Projectors : Projector(p) \/ Throw(p) \/ Crash(p)
    BY DEF ProjectorStep
<1>1. CASE ~WriteView(p) /\ ~MarkProcessed(p)
    <2>1. view' = view /\ \A e \in DOMAIN outbox : outbox'[e].processed = outbox[e].processed
        <3>1. CASE RecordFailure(p)
            <4>1. Current(p) \in DOMAIN outbox /\ outbox' = Failed(Current(p)) /\ view' = view
                BY <3>1, CurrentUpToDate DEF RecordFailure
            <4> QED BY <1>0, <4>1, FlagFacts
        <3> QED BY <1>1, <3>1 DEF Projector, EmptyPoll, ProcessBatch, ReadVendor, ReadStock,
            Throw, Crash, vars
    <2>2. /\ CommittedWrites' = CommittedWrites
          /\ \A e \in DOMAIN outbox : WriteOf(e)' = WriteOf(e)
          /\ {WriteOf(e) : e \in CommittedWrites}' = {WriteOf(e) : e \in CommittedWrites}
        BY ProjectorKeepsWrites
    <2>3. CommittedWrites \subseteq DOMAIN outbox /\ AppliedWrites \subseteq CommittedWrites
        BY DEF CommittedWrites, AppliedWrites
    <2>4. AppliedWrites' = AppliedWrites
        BY <2>1, <2>2, <2>3 DEF AppliedWrites
    <2>5. {WriteOf(e) : e \in AppliedWrites}' = {WriteOf(e) : e \in AppliedWrites}
        BY <2>2, <2>3, <2>4
    <2>6. [l \in Listings |-> ContentOf(l)]' = [l \in Listings |-> ContentOf(l)]
        BY <2>1 DEF ContentOf, Columns
    <2> QED BY <2>2, <2>5, <2>6 DEF Follower!modelVars
<1> QED BY <1>1, WriteShows, MarkAcknowledges

(* One process that applies the events in order makes the view a read model *)
(* of product_listings: what it shows of a listing is the content of one of *)
(* its committed writes, it marks an event only while what that event wrote *)
(* is shown, and never shows an older write than one it has marked, though  *)
(* events may appear out of id order, calls throw and the process stop      *)
(* between any two of its calls.                                            *)
THEOREM ProjectorFollowsSource ==
    ASSUME InOrder
    PROVE  Spec => ViewFollowsSource
<1>1. Init => Bounded /\ Follower!ModelInit
    BY ProjectorAssumption DEF Init, Bounded, Follower!ModelInit, CommittedWrites,
        AppliedWrites, ContentOf
<1>2. ASSUME BaseInv, OrderInv, ShownInv, Bounded, [Next]_vars
      PROVE  Bounded' /\ [Follower!ModelNext]_(Follower!modelVars)
    <2>1. CASE UNCHANGED vars
        <3>1. outbox' = outbox /\ view' = view
            BY <2>1 DEF vars
        <3> QED BY <1>2, <3>1 DEF Bounded, Follower!modelVars, CommittedWrites, AppliedWrites,
            WriteOf, RowAfter, ContentOf, Columns
    <2>2. CASE SourceStep
        BY <1>2, <2>2, SourceCommits, SourceFollows DEF BaseInv, History
    <2>3. CASE ProjectorStep
        BY <1>2, <2>3, ProjectorKeepsWrites, ProjectorFollows
    <2> QED BY <1>2, <2>1, <2>2, <2>3, NextIs
<1> QED BY <1>1, <1>2, ShownInvariant, PTL DEF Spec, ViewFollowsSource, Follower!ModelSpec
=============================================================================
