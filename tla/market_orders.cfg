SPECIFICATION Spec
CONSTANTS
    v1 = v1
    v2 = v2
    v3 = v3
    v4 = v4
    l1 = l1
    l2 = l2
    l3 = l3
    l4 = l4
    Vendors = {v1, v2, v3, v4}
    Registered = {v1, v2, v3}
    Listings = {l1, l2, l3, l4}
    VendorOf <- MCVendorOf
    Prices = {1, 2}
    Listed <- MCListed
    ListPrice = 1
    Carts <- MixedCarts
    Requests = {r1, r2}
    MaxVendors = 2
    None = None
SYMMETRY Interchangeable
INVARIANTS
    PricesWereAsked
    SubordersPartitionCart
PROPERTIES
    SuspensionBlocksNewBusiness
    DelistedStaysDelisted
    RequestsReinstateNobody
