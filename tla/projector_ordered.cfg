SPECIFICATION FairSpec
CONSTANTS
    Listings = {l1}
    Categories = {c1}
    Revisions = {r1, r2}
    Stocks = {0, 1}
    Statuses = {"ACTIVE"}
    Projectors = {p1}
    BatchSize = 1
    MaxAttempts = 2
    FailPoints <- Calls
    CrashPoints <- NoPhases
    MaxOpen = 2
    MaxEvents = 4
    None = None
INVARIANTS
    TypeOK
    NoSilentDrift
    NoLagMeansInSync
    AcknowledgedShown
    DeletedStaysDeleted
PROPERTIES
    ViewFollowsSource
    EventsSettle
    
