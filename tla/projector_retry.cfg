SPECIFICATION Spec
CONSTANTS
    Listings = {l1}
    Categories = {c1}
    Revisions = {r1, r2}
    Stocks = {0, 1}
    Statuses = {"ACTIVE"}
    Projectors = {p1}
    BatchSize = 2
    MaxAttempts = 2
    FailPoints <- WriteOnly
    CrashPoints <- NoPhases
    MaxOpen = 1
    MaxEvents = 4
    None = None
INVARIANTS
    NoSilentDrift
