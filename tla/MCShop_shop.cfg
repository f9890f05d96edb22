SPECIFICATION ShopSpec
CONSTANTS
    q1 = q1
    q2 = q2
    v1 = v1
    v2 = v2
    a1 = a1
    a2 = a2
    s1 = s1
    s2 = s2
    \* Wallet
    Users = {u1}
    Orders = {o1}
    Approvals = {a1, a2}
    Staff = {s1, s2}
    Requests = {q1, q2}
    Vouchers = {w1}
    MaxAmount = 2
    Total = 2
    Amounts = {1}
    MaxBalance = 2
    \* Shipments
    Warehouses = {1, 2}
    Variants = {v1, v2}
    Bought <- TwoItems
    MaxShelf = 2
    MaxOrderRows = 3
    MaxShipments = 2
    MaxRoutings = 2
    Counts = {0}
    Clerks = {k1}
    \* Promotions
    Shoppers = {u1, u2}
    Guests = {g1}
    Caps = {1, 2}
    UserCap = 2
    MaxOrders = 3
    Payers = {r1, r2}
    MaxEarned = 2
    \* Rewards
    Purchases = {o1, o2}
    Earlier = {o2}
    Attempts = 2
    PlacedHandlers <- Subscribers
    MaxJobs = 2
    MaxUpdates = 2
    MaxLosses = 1
    \* PluginRegistries
    PluginIds = {"a", "a:b"}
    Names = {"c", "b:c"}
    Single = {"gateway"}
    Composable = {}
    Chained = {"discount"}
    Priorities = {1}
    MaxConcurrency = 1
    Permits = 1
    Queries = {d1, d2, d3}
    \* Pages
    MaxSaves = 2
    Gaps <- KnownGaps
    \* WishlistToggle
    Hearts = {"page", "card"}
    MaxClicks = 2
    MaxLost = 1
    \* Catalogue
    Products = {1, 2, 3}
    Brands = {"b1", "b2"}
    Categories = {"k1", "k2"}
    Prices = {1, 2}
    Sizes = {"s", "m"}
    Colors = {"r"}
    FirstRows <- TwoProducts
    FirstStock <- OneSizeEach
    Baskets <- BothTogether
    MaxStaffEdits = 2
    \* Reviews
    Writers = {"u1", "u2"}
    Voters = {"u1"}
    ReviewRequests = {q1, q2}
    Ratings = {1, 2}
    MaxReviews = 2
    \* Checkout
    Customer = "u1"
    Guest = "g1"
    Checkouts = {q1, q2}
    Cent = 2
    Subtotals = {3}
    CouponAmounts = {0, 4}
    FreeShippingFrom = 2
    ShippingFee = 1
    Taxes = {0}
    Funds = 3
    Asked = {2, 3}
    Blacklistable <- TheCustomer
    MaxPlaced = 2
    \* Invoicing
    Confirmed = {1, 2, 3}
    Billings = {q1, q2}
    FinancialYears = {1, 2}
    \* Bag
    Errands = {q1, q2}
    MinOrderQty = 1
    MaxOrderQty = 2
    MaxAsked = 2
    MaxRows = 2
    \* ReadThrough
    CachePods = {"p1", "p2"}
    Readers = {q1, q2}
    PageTtl = 2
    MaxLoad = 1
    MaxEdits = 2
CHECK_DEADLOCK FALSE
SYMMETRY Symmetry
INVARIANTS
    ShopTypeOK
    CopiesAgree
    BalanceIsBook
    RefundsAreOnRecord
    ClawbackMatchesRefund
    ShipmentsAreWhole
    PaidIsEarned
    CreditedOnce
    PermitsAreCounted
    RequestsAreUnderstood
    ScreensFollowServer
    CatalogueAgrees
    CheckoutAddsUp
    NumbersAreConsecutive
    CacheIsTrusted
    BagIsKept
