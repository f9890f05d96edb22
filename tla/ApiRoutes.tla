------------------------------ MODULE ApiRoutes ------------------------------
(***************************************************************************)
(* The HTTP interface of the backend: which requests it has a handler for, *)
(* whom the guards admit to it and which fields the validation pipe lets   *)
(* through.  One definition per controller and per class of request body.  *)
(*                                                                         *)
(* A route is named by its verb and its path as the decorators write them. *)
(* A body with a DTO class is checked: a field that is missing or unknown  *)
(* is an error (whitelist, forbidNonWhitelisted).  A body that is typed    *)
(* inline is not: the handler just reads the fields it knows.              *)
(***************************************************************************)
EXTENDS FiniteSets

Roles == {"USER", "ADMIN", "CS_AGENT", "OPS", "FINANCE", "MERCH", "SUPER_ADMIN"}

(* Whom a handler lets in: everyone, whoever is signed in, or some roles.   *)
(* "GUEST" is a request without a token that counts.                        *)
Anyone == Roles \cup {"GUEST"}
SignedIn == Roles
Admins == {"ADMIN"}

Dto(needs, may) == [checked |-> TRUE, needs |-> needs, may |-> may]
Raw(reads) == [checked |-> FALSE, needs |-> {}, may |-> reads]
NoBody == Raw({})

Handler(verb, path, body) == [verb |-> verb, path |-> path, body |-> body]
Get(path) == Handler("GET", path, NoBody)
Post(path, body) == Handler("POST", path, body)
Patch(path, body) == Handler("PATCH", path, body)
Delete(path) == Handler("DELETE", path, NoBody)
For(who, handlers) == {[handler |-> h, who |-> who] : h \in handlers}

-----------------------------------------------------------------------------
(* Request bodies. *)

TrackAttributionDto ==
  Dto({},
      {"affiliateCode", "orderId", "utmSource", "utmMedium", "utmCampaign",
       "utmContent", "attributionType"})
CreateAffiliateDto == Dto({"userId"}, {"commissionPct"})
RegisterDto == Dto({"email", "password"}, {"firstName", "lastName"})
LoginDto == Dto({"email", "password"}, {})
RefreshTokenDto == Dto({"refresh_token"}, {})
CreateBrandDto == Dto({"name", "slug"}, {"logoUrl"})
UpdateBrandDto == Dto({}, {"name", "slug", "logoUrl"})
AddCartItemDto == Dto({"variantId", "quantity"}, {})
UpdateCartItemDto == Dto({"quantity"}, {})
CreateCategoryDto == Dto({"name", "slug"}, {"parentId"})
UpdateCategoryDto == Dto({}, {"name", "slug", "parentId"})
ValidateCouponDto == Dto({"code", "orderAmount"}, {})
CreateCouponDto ==
  Dto({"code", "discountType"},
      {"discountValue", "minOrderAmount", "maxUses", "expiresAt"})
UpdateCouponDto ==
  Dto({},
      {"code", "discountType", "discountValue", "minOrderAmount", "maxUses",
       "expiresAt", "isActive"})
UpsertPincodeDto ==
  Dto({"pincode"},
      {"country", "isServiceable", "estimateDays", "courier"})
SaveForLaterDto == Dto({"variantId"}, {})
AddGiftOptionDto == Dto({"orderId"}, {"message", "wrapping", "recipientName"})
CreateDeliverySlotDto == Dto({"date", "slotLabel"}, {"maxOrders", "pincode"})
CreateFaqDto == Dto({"question", "answer"}, {"sortOrder"})
UpdateFaqDto == Dto({}, {"question", "answer", "sortOrder"})
CreateFlashSaleDto ==
  Dto({"title", "slug", "discountPct", "startsAt", "endsAt"},
      {})
UpdateFlashSaleDto == Dto({}, {"title", "discountPct", "startsAt", "endsAt"})
AddFlashSaleProductDto == Dto({"productId"}, {})
AddBlacklistDto == Dto({"type", "value", "reason"}, {})
FlagFraudDto == Dto({"type"}, {"userId", "orderId", "detail"})
ResolveFlagDto == Dto({"status", "reviewedBy"}, {})
CreatePolicyDto == Dto({"type", "version", "content"}, {})
CookieConsentDto == Dto({}, {"analytics", "marketing", "sessionId"})
UpdateOrderStatusDto == Dto({"status"}, {})
PlaceOrderDto ==
  Dto({"addressId", "reservationId"},
      {"couponCode", "walletAmountUsed"})
GuestAddressDto ==
  Dto({"address.fullName", "address.line1", "address.city", "address.state",
       "address.pincode", "address.country", "address.phone"}, {"address.line2"})
PlaceGuestOrderDto ==
  Dto({"email", "items"} \cup GuestAddressDto.needs,
      {"couponCode"} \cup GuestAddressDto.may)
CreatePaymentIntentDto == Dto({"orderId"}, {"currency"})
CreateProductDto ==
  Dto({"name", "slug", "description", "brandId", "categoryId", "basePrice",
  "images"},
      {"discountPct", "tags", "specifications", "videos"})
UpdateProductDto ==
  Dto({},
      {"name", "slug", "description", "brandId", "categoryId", "basePrice",
       "discountPct", "images", "tags", "isActive", "specifications",
       "videos"})
CreateVariantDto == Dto({"size", "color", "stock", "sku"}, {})
UpdateVariantDto == Dto({}, {"size", "color", "stock"})
ApplyReferralDto == Dto({"code"}, {})
CreateReviewDto == Dto({"rating"}, {"title", "body"})
UpdateReviewDto == Dto({}, {"rating", "title", "body"})
CreateTicketDto == Dto({"subject", "description"}, {"orderId", "priority"})
AddNoteDto == Dto({"body"}, {"isInternal"})
UpdateTicketDto == Dto({}, {"status", "priority", "assignedTo"})
AdminNoteDto == Dto({"targetType", "targetId", "body"}, {})
UpdateProfileDto == Dto({}, {"firstName", "lastName", "phone"})
CreateAddressDto ==
  Dto({"fullName", "phone", "line1", "city", "state", "pincode"},
      {"line2", "isDefault"})
UpdateAddressDto ==
  Dto({},
      {"fullName", "phone", "line1", "line2", "city", "state", "pincode",
       "isDefault"})
WithdrawDto == Dto({"amount"}, {})
CreditWalletDto == Dto({"userId", "amount"}, {"reference", "description"})
DebitWalletDto == Dto({"userId", "amount"}, {"reference", "description"})
ReconcilePaymentDto == Dto({"gatewayRef", "gatewayAmount"}, {"orderId"})
CreateWarehouseDto ==
  Dto({"name", "code", "city", "state", "pincode"},
      {"lat", "lng"})
UpdateInventoryDto == Dto({"warehouseId", "variantId", "stock"}, {})
RouteOrderDto == Dto({"orderId", "deliveryPincode"}, {})
CreateEndpointDto == Dto({"url", "events"}, {})
UpdateEndpointDto == Dto({}, {"events", "isActive"})

-----------------------------------------------------------------------------
(* Controllers. *)

AdminDashboards ==
  For(Admins, {Get("admin/dashboard"), Get("admin/low-stock"),
          Get("admin/out-of-stock"), Get("admin/revenue-report"),
          Get("admin/export/revenue.csv"), Get("admin/finance-dashboard"),
          Get("admin/ops-dashboard"), Get("admin/live-metrics"),
          Get("admin/customer-analytics"), Get("admin/funnel")})

AdminController ==
       For(Admins, {Get("admin/orders"), Patch("admin/orders/:id/status",
              Raw({"status"})),
          Get("admin/users"), Get("admin/audit-logs"), Get("admin/errors"),
          Get("admin/errors/stats"), Patch("admin/errors/:id/resolve",
          NoBody)})
  \cup For({"ADMIN", "CS_AGENT", "SUPER_ADMIN"}, {
          Post("admin/refund-approvals", Raw({"orderId", "amount",
              "reason"}))})
  \cup For({"ADMIN", "FINANCE", "SUPER_ADMIN"}, {
          Get("admin/refund-approvals/pending"),
          Patch("admin/refund-approvals/:id/approve", NoBody),
          Patch("admin/refund-approvals/:id/reject", Raw({"reason"}))})

AffiliateController ==
       For(SignedIn, {Get("affiliate/me"),
          Post("affiliate/track", TrackAttributionDto),
          Get("affiliate/me/payout")})
  \cup For(Admins, {Post("affiliate", CreateAffiliateDto), Get("affiliate"),
          Get("affiliate/:id/attributions"), Get("affiliate/campaign/report"),
          Post("affiliate/payouts/process", NoBody)})

AuthController ==
       For(Anyone, {Post("auth/register", RegisterDto), Post("auth/login",
       LoginDto),
          Post("auth/refresh", RefreshTokenDto)})
  \cup For(SignedIn, {
          Post("auth/change-password", Raw({"currentPassword",
              "newPassword"}))})

BrandsController ==
       For(Anyone, {Get("brands"), Get("brands/:id")})
  \cup For(Admins, {Post("brands", CreateBrandDto),
          Patch("brands/:id", UpdateBrandDto), Delete("brands/:id")})

CartController ==
  For(SignedIn, {Get("cart"), Post("cart/items", AddCartItemDto),
      Patch("cart/items/:id", UpdateCartItemDto), Delete("cart/items/:id"),
      Delete("cart"), Post("cart/reserve", NoBody),
      Delete("cart/reserve/:id"), Get("cart/reserve/status")})

CategoriesController ==
       For(Anyone, {Get("categories"), Get("categories/:id")})
  \cup For(Admins, {Post("categories", CreateCategoryDto),
          Patch("categories/:id", UpdateCategoryDto),
          Delete("categories/:id")})

PluginAdminController ==
  For(Admins, {Get("admin/plugins"), Get("admin/plugins/runtime-metrics"),
      Get("admin/plugins/:id"), Post("admin/plugins/:id/disable", NoBody),
      Post("admin/plugins/:id/enable", NoBody)})

PluginPaymentWebhookController ==
  For(Anyone, {Post("payments/webhook/:gatewayId", NoBody)})

CouponsController ==
       For(Anyone, {Post("coupons/validate", ValidateCouponDto)})
  \cup For(Admins, {Get("coupons"), Post("coupons", CreateCouponDto),
          Patch("coupons/:id", UpdateCouponDto), Delete("coupons/:id")})

DeliveryController ==
       For(Anyone, {Get("delivery/check")})
  \cup For(Admins, {Get("delivery/pincodes"),
          Post("delivery/pincodes", UpsertPincodeDto)})

ExchangeController ==
       For(SignedIn, {
          Post("exchange", Raw({"orderId", "orderItemId",
              "requestedVariantId", "reason"})),
          Get("exchange/order/:orderId")})
  \cup For({"ADMIN", "OPS"}, {Get("exchange/admin"),
          Patch("exchange/:id/status", Raw({"status", "adminNote"}))})

ExperienceController ==
       For(SignedIn, {Post("experience/saved", SaveForLaterDto),
          Get("experience/saved"), Delete("experience/saved/:variantId"),
          Post("experience/saved/:variantId/move-to-cart", NoBody),
          Get("experience/recently-purchased"), Get("experience/slots"),
          Post("experience/slots/:id/book", NoBody),
          Post("experience/gift", AddGiftOptionDto),
          Get("experience/gift/:orderId"),
          Post("experience/recently-viewed/:productId", NoBody),
          Get("experience/recently-viewed"),
          Post("experience/delivery-rating/:orderId", Raw({"rating",
              "comment"})),
          Get("experience/delivery-rating/:orderId")})
  \cup For(Admins, {Post("experience/slots", CreateDeliverySlotDto)})

FaqsController ==
       For(Anyone, {Get("products/:productId/faqs")})
  \cup For(Admins, {Post("products/:productId/faqs", CreateFaqDto),
          Patch("faqs/:id", UpdateFaqDto), Delete("faqs/:id")})

FlashSalesController ==
       For(Anyone, {Get("flash-sales/active"), Get("flash-sales/:slug")})
  \cup For(Admins, {Get("flash-sales"), Post("flash-sales",
  CreateFlashSaleDto),
          Patch("flash-sales/:id", UpdateFlashSaleDto),
          Delete("flash-sales/:id"),
          Post("flash-sales/:id/products", AddFlashSaleProductDto),
          Delete("flash-sales/:id/products/:productId")})

FraudController ==
  For(Admins, {Post("fraud/blacklist", AddBlacklistDto),
  Get("fraud/blacklist"),
      Post("fraud/flag", FlagFraudDto), Get("fraud/flags"),
      Patch("fraud/flags/:id/resolve", ResolveFlagDto),
      Get("fraud/risk/:userId"), Post("fraud/risk/:userId/recompute", NoBody)})

InvoicesController ==
  For(SignedIn, {Get("invoices/:orderId")})

LegalController ==
       For(Anyone, {Get("legal/policies"), Get("legal/policies/:type"),
          Post("legal/consent/cookies", CookieConsentDto)})
  \cup For(Admins, {Get("legal/policies/:type/history"),
          Post("legal/policies", CreatePolicyDto)})
  \cup For(SignedIn, {Get("legal/consent/cookies/me")})

LoyaltyController ==
  For(SignedIn, {Get("loyalty/balance"), Get("loyalty/history")})

MetricsController ==
  For(Anyone, {Get("metrics")})

OrdersController ==
       For({"ADMIN", "CS_AGENT", "SUPER_ADMIN"}, {Get("orders/admin/all")})
  \cup For(Admins, {Patch("orders/admin/:id/status", UpdateOrderStatusDto),
          Patch("orders/admin/:id/items/:itemId/refund", Raw({"reason"}))})
  \cup For(SignedIn, {Get("orders"), Get("orders/:id"),
          Post("orders", PlaceOrderDto), Patch("orders/:id/cancel", NoBody),
          Patch("orders/:id/return", NoBody),
          Patch("orders/:id/items/:itemId/cancel", NoBody)})
  \cup For(Anyone, {Post("orders/guest", PlaceGuestOrderDto)})

PaymentsController ==
       For(SignedIn, {Post("payments/create-intent", CreatePaymentIntentDto),
          Post("payments/retry/:orderId", Raw({"currency"})),
          Post("payments/refund/:orderId", NoBody)})
  \cup For(Anyone, {Post("payments/webhook", NoBody)})

ProductsController ==
       For(Anyone, {Get("products"), Get("products/autocomplete"),
          Get("products/trending-searches"), Get("products/loyalty-tiers"),
          Get("products/facets"), Get("products/size-chart/:categoryId")})
  \cup For(Admins, {Post("products/loyalty-tiers",
               Raw({"name", "minPoints", "earnMultiplier", "perks"})),
          Post("products/bulk-upload", Raw({"file"}))})

ProductController ==
       For(Anyone, {Get("products/:id"), Get("products/:id/related"),
          Get("products/:id/frequently-bought-together"),
          Get("products/:id/upsells"),
          Post("products/:id/variants/:variantId/notify-stock",
               Raw({"email", "phone"}))})
  \cup For(Admins, {Post("products", CreateProductDto),
          Patch("products/:id", UpdateProductDto), Delete("products/:id"),
          Post("products/:id/variants", CreateVariantDto),
          Patch("products/:id/variants/:variantId", UpdateVariantDto),
          Delete("products/:id/variants/:variantId")})

QaController ==
       For(Anyone, {Get("qa/products/:productId")})
  \cup For(SignedIn, {Post("qa/products/:productId", Raw({"question"})),
          Delete("qa/:id")})
  \cup For({"ADMIN", "CS_AGENT"}, {Patch("qa/:id/answer", Raw({"answer"})),
          Get("qa/admin/pending")})
  \cup For(Admins, {Patch("qa/:id/approve", NoBody)})

ReferralController ==
  For(SignedIn, {Get("referral/my-code"),
      Post("referral/apply", ApplyReferralDto)})

ReviewsController ==
       For(Anyone, {Get("reviews/product/:productId")})
  \cup For(SignedIn, {Post("reviews/product/:productId", CreateReviewDto),
          Patch("reviews/:id", UpdateReviewDto), Delete("reviews/:id"),
          Post("reviews/:id/vote", Raw({"isHelpful"}))})

SupportController ==
       For(SignedIn, {Post("support/tickets", CreateTicketDto),
          Get("support/tickets/my"), Get("support/tickets/:id"),
          Post("support/tickets/:id/notes", AddNoteDto)})
  \cup For(Admins, {Get("support/admin/tickets"),
          Patch("support/admin/tickets/:id", UpdateTicketDto),
          Post("support/admin/notes", AdminNoteDto),
          Get("support/admin/notes"),
          Get("support/admin/sla")})

UsersController ==
  For(SignedIn, {Get("users/me"), Patch("users/me", UpdateProfileDto),
      Get("users/me/addresses"), Post("users/me/addresses", CreateAddressDto),
      Patch("users/me/addresses/:id", UpdateAddressDto),
      Delete("users/me/addresses/:id"),
      Patch("users/me/addresses/:id/default", NoBody)})

WalletController ==
       For(SignedIn, {Get("wallet/me"), Get("wallet/me/transactions"),
          Post("wallet/withdraw", WithdrawDto)})
  \cup For(Admins, {Post("wallet/credit", CreditWalletDto),
          Post("wallet/debit", DebitWalletDto),
          Post("wallet/reconcile", ReconcilePaymentDto),
          Get("wallet/reconciliation/report"), Get("wallet/ledger"),
          Patch("wallet/cod/:orderId/confirm", Raw({"note"}))})

WarehouseController ==
  For(Admins, {Post("warehouse", CreateWarehouseDto), Get("warehouse"),
      Get("warehouse/:id"), Post("warehouse/inventory", UpdateInventoryDto),
      Post("warehouse/route", RouteOrderDto),
      Patch("warehouse/shipment/:id/status", Raw({"status", "trackingCode"})),
      Get("warehouse/order/:orderId/shipments"),
      Post("warehouse/order/:orderId/split", Raw({"deliveryPincode"})),
      Get("warehouse/:id/pick-list"), Get("warehouse/rto/report")})

WebhooksController ==
  For(Admins, {Post("webhooks", CreateEndpointDto), Get("webhooks"),
      Patch("webhooks/:id", UpdateEndpointDto), Delete("webhooks/:id"),
      Get("webhooks/:id/deliveries")})

WishlistController ==
  For(SignedIn, {Get("wishlist"), Post("wishlist/:productId", NoBody),
      Delete("wishlist/:productId")})

BlogController ==
       For(Anyone, {Get("blog"), Get("blog/:slug")})
  \cup For({"ADMIN", "MERCH"}, {
          Post("blog", Raw({"title", "slug", "content", "excerpt",
              "coverImage", "tags", "isPublished"})),
          Patch("blog/:id", Raw({"title", "content", "excerpt", "coverImage",
              "tags", "isPublished"}))})
  \cup For(Admins, {Delete("blog/:id")})

NotificationsController ==
  For(SignedIn, {Get("notifications"), Get("notifications/unread-count"),
      Patch("notifications/:id/read", NoBody),
      Patch("notifications/read-all", NoBody), Delete("notifications/:id")})

PriceAlertsController ==
  For(SignedIn, {Post("price-alerts", Raw({"productId", "targetPrice"})),
      Get("price-alerts"), Delete("price-alerts/:productId")})

PriceHistoryController ==
  For(Anyone, {Get("price-history/:productId")})

VolumeDiscountsController ==
       For(Anyone, {Get("volume-discounts"),
          Get("volume-discounts/product/:productId")})
  \cup For({"ADMIN", "MERCH"}, {
          Post("volume-discounts", Raw({"productId", "categoryId", "minQty",
              "discountPct"})),
          Patch("volume-discounts/:id", Raw({"minQty", "discountPct",
              "isActive"}))})
  \cup For(Admins, {Delete("volume-discounts/:id")})

-----------------------------------------------------------------------------
Routes ==
       AdminDashboards \cup AdminController \cup AffiliateController
  \cup AuthController \cup BrandsController \cup CartController
  \cup CategoriesController \cup PluginAdminController
  \cup PluginPaymentWebhookController
  \cup CouponsController \cup DeliveryController \cup ExchangeController
  \cup ExperienceController \cup FaqsController \cup FlashSalesController
  \cup FraudController \cup InvoicesController \cup LegalController
  \cup LoyaltyController \cup MetricsController \cup OrdersController
  \cup PaymentsController \cup ProductsController \cup ProductController
  \cup QaController \cup ReferralController \cup ReviewsController
  \cup SupportController \cup UsersController \cup WalletController
  \cup WarehouseController \cup WebhooksController \cup WishlistController
  \cup BlogController \cup NotificationsController \cup PriceAlertsController
  \cup PriceHistoryController \cup VolumeDiscountsController

HandlersOf(verb, path) ==
  {r \in Routes : r.handler.verb = verb /\ r.handler.path = path}

(* The guards. *)
Admitted(role, handlers) == \E r \in handlers : role \in r.who

(* The validation pipe refuses a body with a DTO class that lacks a field   *)
(* or has an unknown one.                                                   *)
Valid(handlers, sent) ==
  \A r \in handlers :
    LET body == r.handler.body
    IN  body.checked =>
          body.needs \subseteq sent /\ sent \subseteq body.needs \cup body.may

(* What the handler reads of a body: all it was sent, or only some of it.   *)
Understood(handlers, sent) ==
  \E r \in handlers :
    sent \subseteq r.handler.body.needs \cup r.handler.body.may
=============================================================================
