-------------------------------- MODULE MCShop --------------------------------
(***************************************************************************)
(* The components that need no scheduler to be correct, for TLC: the       *)
(* wallet, shipments and the shelves of the warehouses, coupons and        *)
(* affiliates, the events of an order, the registries of the plugin        *)
(* platform, the pages of the storefront with the calls they make, the     *)
(* catalogue with its cache and reviews, the bag, checkout and invoices.   *)
(* They share no state here.  A behaviour is one of one of them, so that   *)
(* their state spaces add up instead of multiplying.                       *)
(***************************************************************************)
EXTENDS Wallet, Shipments, Promotions, Rewards, PluginRegistries, Pages, WishlistToggle,
    Catalogue, Reviews, Checkout, Invoicing, Bag, ReadThrough, TLC

CONSTANTS q1, q2, a1, a2, s1, s2, v1, v2

VARIABLE running          \* the component that does

\* Slots of the API, approvals and staff of the wallet are interchangeable.
Symmetry == Permutations(Requests) \cup Permutations(Approvals) \cup Permutations(Staff)

TwoItems == v1 :> 2 @@ v2 :> 1
Subscribers == <<"kernel.wallet", "kernel.email", "kernel.abandoned-cart">>

\* Two products of one brand, bought together.
TwoProducts ==
    [p \in 1..2 |-> [active |-> TRUE, brand |-> "b1", category |-> "k1", price |-> p]]
OneSizeEach == <<1, "s", "r">> :> 1 @@ <<2, "s", "r">> :> 1
BothTogether == {{<<1, "s", "r">>, <<2, "s", "r">>}}

TheCustomer == {<<"USER", "u1">>}

\* <<verb, path, role>>: requests of a page that the backend refuses, or that have
\* no handler, whoever of that role sends them.
KnownGaps ==
    {<<"GET", "experience/slots", "GUEST">>,
     <<"GET", "invoices/:orderId", "USER">>,
     <<"GET", "orders/:id", "GUEST">>,
     <<"GET", "admin/users", "SUPER_ADMIN">>,
     <<"POST", "orders", "USER">>,
     <<"POST", "orders/guest", "GUEST">>,
     <<"POST", "loyalty/redeem", "USER">>}
    \cup {<<r[1], r[2], "ADMIN">> : r \in
            {<<"POST", "warehouse">>, <<"POST", "warehouse/inventory">>,
             <<"POST", "categories">>, <<"PATCH", "categories/:id">>,
             <<"POST", "products">>, <<"PATCH", "products/:id">>,
             <<"PATCH", "fraud/flags/:id/resolve">>,
             <<"PATCH", "admin/refund-approvals/:id/reject">>}}
    \cup {<<"POST", "admin/impersonate/:userId", role>> : role \in {"ADMIN", "SUPER_ADMIN"}}

\* What the proof about saves takes from the tables of pages, evaluated.
ASSUME TablesClear == SavesClearWhatTheyChange

-----------------------------------------------------------------------------
\* A component that does not run starts in one of its initial states.
ShopInit ==
    /\ running \in {"wallet", "shipments", "coupon", "affiliate", "rewards", "registries",
                     "permits", "pages", "wishlist", "catalogue", "reviews", "checkout", "invoices",
                     "bag", "cache"}
    /\ Init
    /\ ShipmentsInit
    /\ running # "shipments" =>
          \A w \in Warehouses, v \in Variants : shelf[w][v].stock = 0
    /\ PromotionsInit
    /\ running # "coupon" => coupon.cap = CHOOSE cap \in Caps : TRUE
    /\ RewardsInit
    /\ RegistriesInit
    /\ IF running = "pages" THEN PagesInit
       ELSE StartsAs(ViewOf(0, NoQuery, NoSave, "ADMIN"))
    /\ HeartInit
    /\ running # "wishlist" => ~saved
    /\ CatalogueInit
    /\ ReviewsInit
    /\ CheckoutInit
    /\ InvoicingInit
    /\ BagInit
    /\ ReadThroughInit

WalletStep == running = "wallet" /\ Next
    /\ UNCHANGED <<shipmentVars, promotionVars, rewardVars, platformVars,
                   pVars, heartVars, catalogueVars, reviewVars, checkoutVars,
                   invoiceVars, bagVars, cacheVars>>
ShipmentsStep == running = "shipments" /\ ShipmentsNext
    /\ UNCHANGED <<vars, promotionVars, rewardVars, platformVars, pVars,
                   heartVars, catalogueVars, reviewVars, checkoutVars,
                   invoiceVars, bagVars, cacheVars>>
CouponStep == running = "coupon" /\ CouponNext
    /\ UNCHANGED <<vars, shipmentVars, rewardVars, platformVars, pVars,
                   heartVars, catalogueVars, reviewVars, checkoutVars,
                   invoiceVars, bagVars, cacheVars>>
AffiliateStep == running = "affiliate" /\ AffiliateNext
    /\ UNCHANGED <<vars, shipmentVars, rewardVars, platformVars, pVars,
                   heartVars, catalogueVars, reviewVars, checkoutVars,
                   invoiceVars, bagVars, cacheVars>>
RewardsStep == running = "rewards" /\ RewardsNext
    /\ UNCHANGED <<vars, shipmentVars, promotionVars, platformVars, pVars,
                   heartVars, catalogueVars, reviewVars, checkoutVars,
                   invoiceVars, bagVars, cacheVars>>
RegistriesStep == running = "registries" /\ RegistriesNext
    /\ UNCHANGED <<vars, shipmentVars, promotionVars, rewardVars, pVars,
                   heartVars, catalogueVars, reviewVars, checkoutVars,
                   invoiceVars, bagVars, cacheVars>>
PermitsStep == running = "permits" /\ PermitsNext
    /\ UNCHANGED <<vars, shipmentVars, promotionVars, rewardVars, pVars,
                   heartVars, catalogueVars, reviewVars, checkoutVars,
                   invoiceVars, bagVars, cacheVars>>
PagesStep == running = "pages" /\ PagesNext
    /\ UNCHANGED <<vars, shipmentVars, promotionVars, rewardVars, platformVars,
                   heartVars, catalogueVars, reviewVars, checkoutVars,
                   invoiceVars, bagVars, cacheVars>>
WishlistStep == running = "wishlist" /\ HeartNext
    /\ UNCHANGED <<vars, shipmentVars, promotionVars, rewardVars, platformVars,
                   pVars, catalogueVars, reviewVars, checkoutVars, invoiceVars,
                   bagVars, cacheVars>>
CatalogueStep == running = "catalogue" /\ CatalogueNext
    /\ UNCHANGED <<vars, shipmentVars, promotionVars, rewardVars, platformVars,
                   pVars, heartVars, reviewVars, checkoutVars, invoiceVars,
                   bagVars, cacheVars>>
ReviewsStep == running = "reviews" /\ ReviewsNext
    /\ UNCHANGED <<vars, shipmentVars, promotionVars, rewardVars, platformVars,
                   pVars, heartVars, catalogueVars, checkoutVars, invoiceVars,
                   bagVars, cacheVars>>
CheckoutStep == running = "checkout" /\ CheckoutNext
    /\ UNCHANGED <<vars, shipmentVars, promotionVars, rewardVars, platformVars,
                   pVars, heartVars, catalogueVars, reviewVars, invoiceVars,
                   bagVars, cacheVars>>
InvoicesStep == running = "invoices" /\ InvoicingNext
    /\ UNCHANGED <<vars, shipmentVars, promotionVars, rewardVars, platformVars,
                   pVars, heartVars, catalogueVars, reviewVars, checkoutVars,
                   bagVars, cacheVars>>
BagStep == running = "bag" /\ BagNext
    /\ UNCHANGED <<vars, shipmentVars, promotionVars, rewardVars, platformVars,
                   pVars, heartVars, catalogueVars, reviewVars, checkoutVars,
                   invoiceVars, cacheVars>>
CacheStep == running = "cache" /\ ReadThroughNext
    /\ UNCHANGED <<vars, shipmentVars, promotionVars, rewardVars, platformVars,
                   pVars, heartVars, catalogueVars, reviewVars, checkoutVars,
                   invoiceVars, bagVars>>

ShopNext ==
    /\ UNCHANGED running
    /\ WalletStep \/ ShipmentsStep \/ CouponStep \/ AffiliateStep \/ RewardsStep
         \/ RegistriesStep \/ PermitsStep \/ PagesStep \/ WishlistStep \/ CatalogueStep
         \/ ReviewsStep \/ CheckoutStep \/ InvoicesStep \/ BagStep \/ CacheStep

shopVars == <<running, vars, shipmentVars, promotionVars, rewardVars, platformVars,
              pVars, heartVars, catalogueVars, reviewVars, checkoutVars,
              invoiceVars, bagVars, cacheVars>>

ShopSpec == ShopInit /\ [][ShopNext]_shopVars

-----------------------------------------------------------------------------
\* The types of the components; one that does not run stays as it started.
ShopTypeOK ==
    /\ running = "wallet" => TypeOK
    /\ running = "shipments" => ShipmentsTypeOK
    /\ running \in {"coupon", "affiliate"} => PromotionsTypeOK
    /\ running = "rewards" => RewardsTypeOK
    /\ running \in {"registries", "permits"} => RegistriesTypeOK
    /\ running = "pages" => PagesTypeOK
    /\ running = "wishlist" => HeartTypeOK
    /\ running = "catalogue" => CatalogueTypeOK
    /\ running = "reviews" => ReviewsTypeOK
    /\ running = "checkout" => CheckoutTypeOK
    /\ running = "invoices" => InvoicingTypeOK
    /\ running = "bag" => BagTypeOK
    /\ running = "cache" => ReadThroughTypeOK

\* What is kept twice agrees after every transaction, with one clerk at the
\* shelves: Variant's stock with the warehouses (warehouse.service.ts:66), uses
\* of a coupon with orders (orders.service.ts:329), points with their rows
\* (loyalty.service.ts:44), a plugin's tables with the names that are taken
\* (plugin-cron.registry.ts:35), a product's rating with its reviews and a
\* review's count with the votes (reviews.service.ts:39 and :123).
CopiesAgree ==
    /\ running = "shipments" => CopyIsSum
    /\ running = "coupon" => UsesAreOrders
    /\ running = "rewards" => PointsAreBook
    /\ running = "registries" => TablesAgree
    /\ running = "reviews" => RatingIsAverage /\ HelpfulIsVotes

\* warehouse.service.ts:147 and :211: what is reserved is what shipments have, less what
\* was taken for each delivery and return that is reported, the repeated ones as well; and
\* an order is shipped as it was bought, wherever a routing was cut off.
ShipmentsAreWhole ==
    running = "shipments" => ReservedIsUnsettled /\ RoutedAsBought

\* lib/api.ts against the controllers: every request of every page is let in and
\* understood, but for an expired token and the known gaps.
RequestsAreUnderstood == ReadsAreServed /\ SavesAreTaken

\* What a list shows after a save (Pages), and a heart after a click
\* (WishlistToggle), is what the backend has.
ScreensFollowServer == SavedIsShown /\ HeartFollowsServer

\* products.service.ts:592 and :371: counts beside the filters are those of the
\* listings they lead to, and what is recommended is for sale; what was ordered
\* stays (:309).
CatalogueAgrees ==
    running = "catalogue" =>
        FacetsMatchListings /\ RecommendationsAreForSale /\ OrderedStays

\* orders.service.ts:226 and fraud.service.ts:18: amounts of orders add up to half a cent
\* of the wallet's share, and only both abuses together block a customer.
CheckoutAddsUp == running = "checkout" => AmountsAddUp /\ HighRiskIsBothAbuses

\* redis.service.ts:112: what a page shows is no older than an entry and a load,
\* and nobody waits for a load that nobody runs.
CacheIsTrusted == running = "cache" => StaleIsBounded /\ WaitersHaveAFlight
=============================================================================
