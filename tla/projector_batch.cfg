SPECIFICATION Spec
CONSTANTS
    Listings = {l1}
    Categories = {c1}
    Revisions = {r1, r2}
    Stocks = {0, 1}
    Statuses = {"ACTIVE", "SUSPENDED"}
    Projectors = {p1}
    BatchSize = 3
    MaxAttempts = 2
    FailPoints <- NoPhases
    CrashPoints <- AllPhases
    MaxOpen = 1
    MaxEvents = 5
    None = None
INVARIANTS
    NoSilentDrift
    AcknowledgedReflected
    AcknowledgedShown
    DeletedStaysDeleted
    VendorStatusCarried
