------------------------------ MODULE ApiCalls ------------------------------
(***************************************************************************)
(* The storefront's client of the backend: one record per object of        *)
(* lib/api.ts, one field per method.  A call is the verb and path of its   *)
(* request and the fields of the body the method builds itself; where a    *)
(* method hands its argument on (`data`), the page that calls it names the *)
(* fields.  Query parameters choose among answers and are left out.        *)
(***************************************************************************)

(* The interceptor puts the session's access token into every request.     *)
Sends(verb, path, fields) ==
  [verb |-> verb, path |-> path, sends |-> fields, token |-> TRUE]
Asks(path) == Sends("GET", path, {})
Posts(path) == Sends("POST", path, {})
Patches(path) == Sends("PATCH", path, {})
Deletes(path) == Sends("DELETE", path, {})

authApi == [register |-> Posts("auth/register")]

usersApi ==
  [me |-> Asks("users/me"), updateProfile |-> Patches("users/me"),
   getAddresses |-> Asks("users/me/addresses"),
   addAddress |-> Posts("users/me/addresses"),
   updateAddress |-> Patches("users/me/addresses/:id"),
   deleteAddress |-> Deletes("users/me/addresses/:id"),
   setDefaultAddress |-> Patches("users/me/addresses/:id/default")]

categoriesApi ==
  [getAll |-> Asks("categories"), getOne |-> Asks("categories/:id")]

brandsApi == [getAll |-> Asks("brands")]

productsApi ==
  [getAll |-> Asks("products"), getOne |-> Asks("products/:id"),
   autocomplete |-> Asks("products/autocomplete"),
   getRelated |-> Asks("products/:id/related"),
   getFrequentlyBoughtTogether |->
     Asks("products/:id/frequently-bought-together"),
   getUpsells |-> Asks("products/:id/upsells"),
   getSizeChart |-> Asks("products/size-chart/:categoryId")]

cartApi ==
  [get |-> Asks("cart"), reserve |-> Posts("cart/reserve"),
   addItem |-> Sends("POST", "cart/items", {"variantId", "quantity"}),
   updateItem |-> Sends("PATCH", "cart/items/:id", {"quantity"}),
   removeItem |-> Deletes("cart/items/:id"), clear |-> Deletes("cart")]

wishlistApi ==
  [get |-> Asks("wishlist"), add |-> Posts("wishlist/:productId"),
   remove |-> Deletes("wishlist/:productId")]

couponsApi ==
  [validate |-> Sends("POST", "coupons/validate", {"code", "orderAmount"})]

ordersApi ==
  [place |-> Posts("orders"), placeGuest |-> Posts("orders/guest"),
   getAll |-> Asks("orders"), getOne |-> Asks("orders/:id"),
   cancel |-> Patches("orders/:id/cancel"),
   requestReturn |-> Patches("orders/:id/return")]

reviewsApi ==
  [getForProduct |-> Asks("reviews/product/:productId"),
   create |-> Posts("reviews/product/:productId"),
   update |-> Patches("reviews/:id"), delete |-> Deletes("reviews/:id"),
   vote |-> Sends("POST", "reviews/:id/vote", {"isHelpful"})]

flashSalesApi ==
  [getAll |-> Asks("flash-sales/active"), getOne |-> Asks("flash-sales/:slug"),
   adminGetAll |-> Asks("flash-sales")]

walletApi ==
  [get |-> Asks("wallet/me"), getTransactions |-> Asks("wallet/me/transactions")]

deliverySlotsApi ==
  [getAvailable |-> Asks("experience/slots"),
   book |-> Posts("experience/slots/:id/book")]

supportApi ==
  [getTickets |-> Asks("support/tickets/my"),
   getOne |-> Asks("support/tickets/:id"), create |-> Posts("support/tickets"),
   addNote |-> Sends("POST", "support/tickets/:id/notes", {"body"})]

experienceApi ==
  [getSavedForLater |-> Asks("experience/saved"),
   saveForLater |-> Sends("POST", "experience/saved", {"variantId"}),
   removeSavedForLater |-> Deletes("experience/saved/:variantId"),
   moveToCart |-> Posts("experience/saved/:variantId/move-to-cart"),
   recentlyPurchased |-> Asks("experience/recently-purchased"),
   addGiftOption |-> Posts("experience/gift"),
   getGiftOption |-> Asks("experience/gift/:orderId")]

adminCouponsApi ==
  [getAll |-> Asks("coupons"), create |-> Posts("coupons"),
   update |-> Patches("coupons/:id"), delete |-> Deletes("coupons/:id")]

adminFlashSalesApi ==
  [getAll |-> Asks("flash-sales"), create |-> Posts("flash-sales"),
   update |-> Patches("flash-sales/:id"), delete |-> Deletes("flash-sales/:id"),
   addProduct |-> Sends("POST", "flash-sales/:id/products", {"productId"}),
   removeProduct |-> Deletes("flash-sales/:id/products/:productId")]

adminCategoriesApi ==
  [getAll |-> Asks("categories"), create |-> Posts("categories"),
   update |-> Patches("categories/:id"), delete |-> Deletes("categories/:id")]

adminWarehouseApi ==
  [list |-> Asks("warehouse"), get |-> Asks("warehouse/:id"),
   create |-> Posts("warehouse"), updateInventory |-> Posts("warehouse/inventory")]

adminApi ==
  [getStats |-> Asks("admin/dashboard"), getProducts |-> Asks("products"),
   createProduct |-> Posts("products"), updateProduct |-> Patches("products/:id"),
   deleteProduct |-> Deletes("products/:id"), getOrders |-> Asks("admin/orders"),
   updateOrderStatus |-> Sends("PATCH", "admin/orders/:id/status", {"status"}),
   getUsers |-> Asks("admin/users"),
   getFinanceDashboard |-> Asks("admin/finance-dashboard"),
   getOpsDashboard |-> Asks("admin/ops-dashboard"),
   getLiveMetrics |-> Asks("admin/live-metrics"),
   getCustomerAnalytics |-> Asks("admin/customer-analytics"),
   getErrors |-> Asks("admin/errors"), getAuditLogs |-> Asks("admin/audit-logs"),
   getFunnelAnalytics |-> Asks("admin/funnel"),
   getFraudFlags |-> Asks("fraud/flags"), getLowStock |-> Asks("admin/low-stock"),
   getOutOfStock |-> Asks("admin/out-of-stock"),
   getRevenueReport |-> Asks("admin/revenue-report"),
   getPendingRefundApprovals |-> Asks("admin/refund-approvals/pending"),
   requestRefundApproval |-> Posts("admin/refund-approvals"),
   approveRefundRequest |-> Patches("admin/refund-approvals/:id/approve"),
   rejectRefundRequest |->
     Sends("PATCH", "admin/refund-approvals/:id/reject", {"rejectedReason"}),
   bulkUploadProducts |-> Posts("products/bulk-upload"),
   impersonateUser |-> Posts("admin/impersonate/:userId"),
   getImpersonatableUsers |-> Asks("admin/users")]

loyaltyApi ==
  [getBalance |-> Asks("loyalty/balance"), getHistory |-> Asks("loyalty/history"),
   redeem |-> Sends("POST", "loyalty/redeem", {"points"})]

referralApi ==
  [getMyCode |-> Asks("referral/my-code"),
   apply |-> Sends("POST", "referral/apply", {"code"})]

faqsApi == [getForProduct |-> Asks("products/:productId/faqs")]

paymentsApi ==
  [createIntent |-> Sends("POST", "payments/create-intent", {"orderId"}),
   retry |-> Posts("payments/retry/:orderId"),
   refund |-> Posts("payments/refund/:orderId")]

(* The invoice is fetched outside the axios instance, with a default header *)
(* nothing ever sets: the request has no token.                             *)
invoicesApi ==
  [getForOrder |-> Asks("invoices/:orderId"),
   downloadPdf |-> [Asks("invoices/:orderId") EXCEPT !.token = FALSE]]

notificationsApi ==
  [getAll |-> Asks("notifications"),
   getUnreadCount |-> Asks("notifications/unread-count"),
   markRead |-> Patches("notifications/:id/read"),
   markAllRead |-> Patches("notifications/read-all"),
   delete |-> Deletes("notifications/:id")]

recentlyViewedApi ==
  [track |-> Posts("experience/recently-viewed/:productId"),
   get |-> Asks("experience/recently-viewed")]

trendingApi == [getTrending |-> Asks("products/trending-searches")]

exchangeApi ==
  [request |-> Posts("exchange"), getForOrder |-> Asks("exchange/order/:orderId")]

deliveryRatingApi ==
  [rate |-> Sends("POST", "experience/delivery-rating/:orderId",
                  {"rating", "comment"}),
   get |-> Asks("experience/delivery-rating/:orderId")]

qaApi ==
  [getForProduct |-> Asks("qa/products/:productId"),
   ask |-> Sends("POST", "qa/products/:productId", {"question"})]

priceAlertsApi ==
  [set |-> Sends("POST", "price-alerts", {"productId", "targetPrice"}),
   getAll |-> Asks("price-alerts"), delete |-> Deletes("price-alerts/:productId")]

loyaltyTiersApi == [getAll |-> Asks("products/loyalty-tiers")]

blogApi == [getAll |-> Asks("blog"), getBySlug |-> Asks("blog/:slug")]

adminPluginsApi ==
  [list |-> Asks("admin/plugins"),
   runtimeMetrics |-> Asks("admin/plugins/runtime-metrics"),
   disable |-> Posts("admin/plugins/:id/disable"),
   enable |-> Posts("admin/plugins/:id/enable")]

priceHistoryApi == [get |-> Asks("price-history/:productId")]

volumeDiscountsApi ==
  [getForProduct |-> Asks("volume-discounts/product/:productId")]
=============================================================================
