SPECIFICATION Spec
CONSTANTS
    o1 = o1
    o2 = o2
    v1 = v1
    v2 = v2
    v3 = v3
    l1 = l1
    l2 = l2
    l3 = l3
    a1 = a1
    a2 = a2
    a3 = a3
    a4 = a4
    b1 = b1
    b2 = b2
    s1 = s1
    s2 = s2
    Orders = {o1, o2}
    Vendors = {v1, v2}
    Listings = {l1, l2}
    Lines <- MCLines
    OrderOf <- MCOrderOf
    ListingOf <- MCListingOf
    QuantityOf <- MCQuantityOf
    VendorOf <- MCVendorOf
    Quantities = {1, 2}
    Counts = {1, 3}
    Sweepers = {s1}
    Overlap = FALSE
    CrashPoints <- LeakyPoints
INVARIANTS
    HoldsBacked
    ConfirmedBacked
    CompensatedOnce
