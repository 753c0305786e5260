SPECIFICATION CacheFairSpec
CONSTANTS
    v1 = v1
    c1 = c1
    Listings = {l1}
    Categories = {c1, c2}
    Revisions = {on}
    ActiveRevisions = {on}
    Stocks = {0}
    Statuses = {"ACTIVE"}
    Projectors = {p1}
    BatchSize = 1
    MaxAttempts = 1
    FailPoints <- MarkOnly
    CrashPoints <- Stops
    MaxOpen = 1
    MaxEvents = 3
    Vendors = {v1}
    VendorOf <- OneVendor
    Readers = {q1}
    Asked <- FirstPages
    TtlSeconds = 60
    None = None
PROPERTIES
    StaleEntriesDie
    QueriesAnswered
    ReadsConverge
