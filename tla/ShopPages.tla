----------------------------- MODULE ShopPages -----------------------------
(***************************************************************************)
(* The shop of the storefront, component by component: the layout (Navbar, *)
(* CartSidebar), the catalogue, and the signed-in pages of app/(shop).     *)
(***************************************************************************)
EXTENDS PageForms

Everyone == {"USER", "GUEST"}
Customers == {"USER"}

(* What a product in the bag, or in the wishlist, invalidates. *)
AddToCart == Save(cartApi.addItem, {}, {"cart"}, {<<"cart">>})

-----------------------------------------------------------------------------
CartSidebarItems ==
  <<Unguarded(Save(cartApi.removeItem, {}, {"cart"}, {<<"cart">>})),
   Save(cartApi.updateItem, {}, {"cart"}, {<<"cart">>})>>
(* The first of its two calls; the second is the removal above. *)
SaveForLater ==
  Several(Save(experienceApi.saveForLater, {}, {"experience/saved", "cart"},
               {<<"cart">>, <<"saved-for-later">>}))
SavedForLaterItems ==
  <<Save(experienceApi.moveToCart, {}, {"cart", "experience/saved"},
        {<<"cart">>, <<"saved-for-later">>}),
   Unguarded(Save(experienceApi.removeSavedForLater, {},
                  {"experience/saved"}, {<<"saved-for-later">>}))>>
CartSidebar ==
  Page(Everyone,
       <<Private(Query(<<"cart">>, cartApi.get)),
        Private(Query(<<"saved-for-later">>, experienceApi.getSavedForLater))>>,
       CartSidebarItems \o <<SaveForLater>> \o SavedForLaterItems)

(* Opening a notification closes the panel that lists them. *)
NotificationPanel ==
  <<Leaving(Unguarded(Save(notificationsApi.markAllRead, {}, {"notifications"}, {}))),
   Leaving(Unguarded(Save(notificationsApi.markRead, {}, {"notifications"}, {})))>>
NavbarQueries ==
  <<Query(<<"autocomplete", "search">>, productsApi.autocomplete),
   Polled(Private(Query(<<"notif-count">>, notificationsApi.getUnreadCount))),
   Private(Query(<<"notifications">>, notificationsApi.getAll))>>
NavbarStores ==
  <<Private(Query(<<"cart">>, cartApi.get)),
   Private(Query(<<"wishlist">>, wishlistApi.get)),
   Query(<<"categories">>, categoriesApi.getAll)>>
Navbar == Page(Everyone, NavbarQueries \o NavbarStores, NotificationPanel)

-----------------------------------------------------------------------------
HomePage ==
  Page(Everyone, <<Query(<<"products", "new">>, productsApi.getAll),
                  Query(<<"products", "sale">>, productsApi.getAll)>>, <<>>)
ProductFilters ==
  <<Query(<<"categories">>, categoriesApi.getAll), Query(<<"brands">>, brandsApi.getAll)>>
ProductsPage ==
  Page(Everyone, ProductFilters
         \o <<Query(<<"products", "filters">>, productsApi.getAll)>>, <<>>)

(* On whatever page it appears, the bag and the wishlist are in the layout. *)
ProductCard ==
  Page(Everyone, NavbarStores,
       <<AddToCart,
        Unguarded(Save(wishlistApi.add, {}, {"wishlist"}, {<<"wishlist">>})),
        Unguarded(Save(wishlistApi.remove, {}, {"wishlist"}, {<<"wishlist">>}))>>)

FlashSalesPage ==
  Page(Everyone, <<Query(<<"flash-sales">>, flashSalesApi.getAll)>>, <<>>)
BlogPage == Page(Everyone, <<Query(<<"blog">>, blogApi.getAll)>>, <<>>)
BlogPostPage == Page(Everyone, <<Query(<<"blog", "slug">>, blogApi.getBySlug)>>, <<>>)

-----------------------------------------------------------------------------
(* The product page.  The slots are asked for whoever looks. *)
ProductQueries ==
  <<Query(<<"product", "id">>, productsApi.getOne),
   Query(<<"reviews", "id">>, reviewsApi.getForProduct),
   Query(<<"faqs", "id">>, faqsApi.getForProduct),
   Query(<<"delivery-slots", "today">>, deliverySlotsApi.getAvailable),
   Query(<<"size-chart", "category">>, productsApi.getSizeChart),
   Query(<<"qa", "id">>, qaApi.getForProduct),
   Query(<<"price-history", "id">>, priceHistoryApi.get),
   Query(<<"volume-discounts", "id">>, volumeDiscountsApi.getForProduct)>>
ProductSuggestions ==
  <<Query(<<"related", "id">>, productsApi.getRelated),
   Query(<<"fbt", "id">>, productsApi.getFrequentlyBoughtTogether),
   Query(<<"upsells", "id">>, productsApi.getUpsells)>>

(* A question shows once it is approved: the list does not change yet. *)
QuestionForm == Save(qaApi.ask, {}, {}, {<<"qa", "id">>})
(* The products bought together go to the bag one request after another. *)
ProductToCart == <<AddToCart, Several(AddToCart)>>
ReviewFormWithProduct ==
  Save(reviewsApi.create, {"productId", "rating", "title", "body"},
       {"reviews/product/:productId"}, {<<"reviews", "id">>})
ReviewForm ==
  Save(reviewsApi.create, {"rating", "title", "body"},
       {"reviews/product/:productId"}, {<<"reviews", "id">>})
ReviewVotes ==
  Unguarded(Save(reviewsApi.vote, {}, {"reviews/product/:productId"},
                 {<<"reviews", "id">>}))
ProductReviews == <<ReviewForm, ReviewVotes>>

PriceAlertWidget ==
  Page(Everyone, <<Private(Query(<<"price-alert", "id">>, priceAlertsApi.getAll))>>,
       <<Unguarded(Save(priceAlertsApi.set, {}, {"price-alerts"},
                       {<<"price-alert", "id">>})),
        Unguarded(Save(priceAlertsApi.delete, {}, {"price-alerts"},
                       {<<"price-alert", "id">>}))>>)

ProductDetailPage ==
  Page(Everyone, ProductQueries \o ProductSuggestions \o NavbarStores,
       ProductCard.saves \o ProductToCart \o ProductReviews \o <<QuestionForm>>)

-----------------------------------------------------------------------------
OrdersPage ==
  Page(Customers, <<Private(Query(<<"orders">>, ordersApi.getAll)),
               Private(Query(<<"recently-purchased">>,
                             experienceApi.recentlyPurchased))>>,
       <<AddToCart>>)

OrderChanges ==
  <<Save(ordersApi.cancel, {}, {"orders/:id", "orders"},
        {<<"order", "id">>, <<"orders">>}),
   Save(ordersApi.requestReturn, {}, {"orders/:id", "orders"},
        {<<"order", "id">>, <<"orders">>}),
   Save(paymentsApi.refund, {}, {"orders/:id"}, {<<"order", "id">>})>>
DeliveryRatingForm ==
  Unguarded(Save(deliveryRatingApi.rate, {},
                 {"experience/delivery-rating/:orderId"},
                 {<<"delivery-rating", "id">>}))
ExchangeForm ==
  Unguarded(Save(exchangeApi.request,
                 {"orderId", "orderItemId", "requestedVariantId", "reason"}, {}, {}))
(* The download, on a click, is a read as well. *)
OrderQueries ==
  <<Private(Query(<<"order", "id">>, ordersApi.getOne)),
   Private(Query(<<"delivery-rating", "id">>, deliveryRatingApi.get)),
   Private(Query(<<"invoice", "id">>, invoicesApi.downloadPdf))>>
OrderDetailPage ==
  Page(Customers, OrderQueries, OrderChanges \o <<DeliveryRatingForm, ExchangeForm>>)

(* A guest is sent here as well, after the order. *)
OrderConfirmationPage ==
  Page(Everyone, <<Query(<<"order", "id">>, ordersApi.getOne)>>, <<>>)

-----------------------------------------------------------------------------
ProfileForm ==
  Save(usersApi.updateProfile, {"firstName", "lastName", "phone"},
       {"users/me"}, {<<"me">>})
AddressFields ==
  {"fullName", "phone", "line1", "line2", "city", "state", "pincode", "isDefault"}
AddressForm ==
  <<Save(usersApi.addAddress, AddressFields, {"users/me/addresses"},
        {<<"addresses">>}),
   Save(usersApi.updateAddress, AddressFields, {"users/me/addresses"},
        {<<"addresses">>})>>
AddressList ==
  <<Unguarded(Save(usersApi.deleteAddress, {}, {"users/me/addresses"},
                  {<<"addresses">>})),
   Save(usersApi.setDefaultAddress, {}, {"users/me/addresses"}, {<<"addresses">>})>>
ProfilePage ==
  Page(Customers, <<Private(Query(<<"me">>, usersApi.me)),
               Private(Query(<<"addresses">>, usersApi.getAddresses))>>,
       <<ProfileForm>> \o AddressForm \o AddressList)

WalletPage == Page(Customers, <<Query(<<"wallet">>, walletApi.get)>>, <<>>)

LoyaltyPage ==
  Page(Customers, <<Query(<<"loyalty", "balance">>, loyaltyApi.getBalance),
               Query(<<"loyalty", "history">>, loyaltyApi.getHistory),
               Query(<<"loyalty-tiers">>, loyaltyTiersApi.getAll)>>,
       <<Save(loyaltyApi.redeem, {}, {"loyalty/balance", "loyalty/history"},
             {<<"loyalty">>})>>)

ReferralPage ==
  Page(Customers, <<Query(<<"referral", "code">>, referralApi.getMyCode)>>,
       <<Save(referralApi.apply, {}, {}, {})>>)

SupportNote == Save(supportApi.addNote, {}, {"support/tickets/my"}, {<<"support">>})
SupportTicket ==
  Save(supportApi.create, {"subject", "description"}, {"support/tickets/my"},
       {<<"support">>})
SupportPage ==
  Page(Customers, <<Query(<<"support">>, supportApi.getTickets)>>,
       <<SupportNote, SupportTicket>>)

WishlistPage ==
  Page(Customers, <<Private(Query(<<"wishlist">>, wishlistApi.get))>>,
       <<Unguarded(Save(wishlistApi.remove, {}, {"wishlist"}, {<<"wishlist">>})),
        AddToCart>>)

-----------------------------------------------------------------------------
CheckoutQueries ==
  <<Private(Query(<<"cart">>, cartApi.get)),
   Private(Query(<<"wallet-balance">>, walletApi.get)),
   Private(Query(<<"addresses">>, usersApi.getAddresses)),
   Private(Query(<<"delivery-slots-checkout", "today">>,
                 deliverySlotsApi.getAvailable))>>
(* The page refetches its own query instead of invalidating the key. *)
CheckoutAddress ==
  Save(usersApi.addAddress, AddressFields, {"users/me/addresses"}, {<<"addresses">>})
CheckoutOrder ==
  With(Save(ordersApi.place, {"addressId", "paymentMethod"}, {"cart"}, {<<"cart">>}),
       {"couponCode", "walletAmountUsed"})
GiftMessage == Save(experienceApi.addGiftOption, {"orderId", "message"}, {}, {})
PayByCard == Save(paymentsApi.createIntent, {}, {}, {})
ApplyCoupon == Save(couponsApi.validate, {}, {}, {})
CheckoutPage ==
  Page(Customers, CheckoutQueries,
       <<CheckoutAddress, CheckoutOrder, GiftMessage, PayByCard, ApplyCoupon>>)

(* A guest's bag is in the browser; the form has no field for the country. *)
GuestOrder ==
  Leaving(With(Save(ordersApi.placeGuest,
                    {"email", "items", "address.fullName", "address.phone",
                     "address.line1", "address.line2", "address.city",
                     "address.state", "address.pincode"}, {}, {}),
               {"couponCode"}))
GuestCheckout == Page({"GUEST"}, <<>>, <<GuestOrder>>)

RegisterPage ==
  Page({"GUEST"}, <<>>,
       <<Leaving(Save(authApi.register,
                     {"email", "password", "firstName", "lastName"}, {}, {}))>>)

ShopPages ==
  <<CartSidebar, Navbar, HomePage, ProductsPage, ProductCard, FlashSalesPage,
   BlogPage, BlogPostPage, ProductDetailPage, PriceAlertWidget, OrdersPage,
   OrderDetailPage, OrderConfirmationPage, ProfilePage, WalletPage, LoyaltyPage,
   ReferralPage, SupportPage, WishlistPage, CheckoutPage, GuestCheckout,
   RegisterPage>>
=============================================================================
