----------------------------- MODULE AdminPages -----------------------------
(***************************************************************************)
(* The back office of the storefront: app/(shop)/admin, page by page.      *)
(***************************************************************************)
EXTENDS PageForms

(* The dashboard sends everyone but an ADMIN away. *)
AdminPage ==
  Page(Admins, <<Query(<<"admin", "stats">>, adminApi.getStats)>>, <<>>)

AdminAnalyticsPage ==
  Page(Admins,
       <<Query(<<"admin", "customer-analytics">>, adminApi.getCustomerAnalytics),
        Query(<<"admin", "funnel", "days">>, adminApi.getFunnelAnalytics),
        Polled(Query(<<"admin", "live-metrics">>, adminApi.getLiveMetrics))>>, <<>>)

AdminAuditPage ==
  Page(Admins, <<Query(<<"admin-audit", "entity">>, adminApi.getAuditLogs)>>, <<>>)

CategoryModal ==
  <<With(Save(adminCategoriesApi.create, {"name", "slug"},
             {"categories"}, {<<"admin", "categories">>}),
        {"description", "imageUrl"}),
   Save(adminCategoriesApi.update, {"name", "slug", "description", "imageUrl"},
        {"categories"}, {<<"admin", "categories">>})>>
RemoveCategory ==
  Unguarded(Save(adminCategoriesApi.delete, {},
                 {"categories"}, {<<"admin", "categories">>}))
AdminCategoriesPage ==
  Page(Admins, <<Query(<<"admin", "categories">>, adminCategoriesApi.getAll)>>,
       CategoryModal \o <<RemoveCategory>>)

CreateCouponModal ==
  With(Save(adminCouponsApi.create, {"code", "discountType", "discountValue"},
            {"coupons"}, {<<"admin", "coupons">>}),
       {"minOrderAmount", "maxUses", "expiresAt"})
AdminCouponsPage ==
  Page(Admins, <<Query(<<"admin", "coupons">>, adminCouponsApi.getAll)>>,
       <<CreateCouponModal,
        Unguarded(Save(adminCouponsApi.update, {"isActive"},
                       {"coupons"}, {<<"admin", "coupons">>})),
        Unguarded(Save(adminCouponsApi.delete, {},
                       {"coupons"}, {<<"admin", "coupons">>}))>>)

AdminErrorsPage ==
  Page(Admins, <<Polled(Query(<<"admin-errors", "level">>, adminApi.getErrors))>>,
       <<Save(Patches("admin/errors/:id/resolve"), {},
             {"admin/errors"}, {<<"admin-errors">>})>>)

AdminFinancePage ==
  Page(Admins,
       <<Polled(Query(<<"admin", "finance-dashboard">>,
                     adminApi.getFinanceDashboard)),
        Query(<<"admin", "revenue-report">>, adminApi.getRevenueReport)>>, <<>>)

CreateFlashSaleModal ==
  Save(adminFlashSalesApi.create,
       {"title", "slug", "discountPct", "startsAt", "endsAt"},
       {"flash-sales"}, {<<"admin", "flash-sales">>})
AdminFlashSalesPage ==
  Page(Admins, <<Query(<<"admin", "flash-sales">>, adminFlashSalesApi.getAll)>>,
       <<CreateFlashSaleModal,
        Unguarded(Save(adminFlashSalesApi.delete, {},
                       {"flash-sales"}, {<<"admin", "flash-sales">>}))>>)

(* The flag is resolved with a request that has no body. *)
AdminFraudPage ==
  Page(Admins, <<Polled(Query(<<"admin-fraud-flags">>, adminApi.getFraudFlags))>>,
       <<Save(Patches("fraud/flags/:id/resolve"), {},
             {"fraud/flags"}, {<<"admin-fraud-flags">>})>>)

AdminImpersonatePage ==
  Page({"ADMIN", "SUPER_ADMIN"},
       <<Query(<<"admin", "impersonate-users", "search">>,
              adminApi.getImpersonatableUsers)>>,
       <<Save(adminApi.impersonateUser, {}, {}, {})>>)

AdjustInventoryModal ==
  Save(adminWarehouseApi.updateInventory,
       {"warehouseId", "variantId", "stock", "reorderPoint"},
       {"admin/low-stock", "admin/out-of-stock"},
       {<<"admin", "low-stock">>, <<"admin", "out-of-stock">>})
AdminInventoryPage ==
  Page(Admins,
       <<Query(<<"admin", "low-stock", "threshold">>, adminApi.getLowStock),
        Query(<<"admin", "out-of-stock">>, adminApi.getOutOfStock),
        Query(<<"admin", "warehouses-list">>, adminWarehouseApi.list)>>,
       <<AdjustInventoryModal>>)

AdminOrderStatus ==
  Unguarded(Save(adminApi.updateOrderStatus, {},
                 {"admin/orders"}, {<<"admin", "orders">>}))
AdminOrdersPage ==
  Page(Admins, <<Query(<<"admin", "orders", "status">>, adminApi.getOrders)>>,
       <<AdminOrderStatus>>)

PluginSwitches ==
  <<Save(adminPluginsApi.disable, {}, {"admin/plugins"}, {<<"admin-plugins">>}),
   Save(adminPluginsApi.enable, {}, {"admin/plugins"}, {<<"admin-plugins">>})>>
AdminPluginsPage ==
  Page(Admins,
       <<Polled(Query(<<"admin-plugins">>, adminPluginsApi.list)),
        Polled(Query(<<"admin-plugins-runtime-metrics">>,
                     adminPluginsApi.runtimeMetrics))>>,
       PluginSwitches)

AdminProductRow ==
  <<With(Save(adminApi.updateProduct, {}, {"products"}, {<<"admin", "products">>}),
        {"discountPct", "isActive"}),
   Unguarded(Save(adminApi.deleteProduct, {},
                  {"products"}, {<<"admin", "products">>}))>>
AdminProductsPage ==
  Page(Admins, <<Query(<<"admin", "products">>, adminApi.getProducts)>>,
       AdminProductRow)

ProductChoices ==
  <<Query(<<"categories">>, categoriesApi.getAll), Query(<<"brands">>, brandsApi.getAll)>>
CreateProductForm ==
  Leaving(With(Save(adminApi.createProduct,
                    {"name", "description", "basePrice", "discountPct",
                     "categoryId", "images", "variants"}, {"products"}, {}),
               {"brandId"}))
NewProductPage == Page(Admins, ProductChoices, <<CreateProductForm>>)

UpdateProductForm ==
  Leaving(With(Save(adminApi.updateProduct,
                    {"name", "description", "basePrice", "discountPct",
                     "categoryId", "images", "variants"}, {"products"}, {}),
               {"brandId"}))
EditProductPage ==
  Page(Admins,
       ProductChoices
         \o <<Query(<<"admin-product", "id">>, adminApi.getProducts)>>,
       <<UpdateProductForm>>)

BulkUploadPage ==
  Page(Admins, <<>>, <<Save(adminApi.bulkUploadProducts, {"file"}, {"products"}, {})>>)

RejectModal ==
  Unguarded(Save(adminApi.rejectRefundRequest, {},
                 {"admin/refund-approvals/pending"},
                 {<<"admin", "refund-approvals">>}))
RefundApprovalsPage ==
  Page(Admins,
       <<Polled(Query(<<"admin", "refund-approvals">>,
                     adminApi.getPendingRefundApprovals))>>,
       <<RejectModal,
        Save(adminApi.approveRefundRequest, {}, {"admin/refund-approvals/pending"},
             {<<"admin", "refund-approvals">>})>>)

AdminUsersPage ==
  Page(Admins, <<Query(<<"admin", "users">>, adminApi.getUsers)>>, <<>>)

CreateWarehouseModal ==
  With(Save(adminWarehouseApi.create, {"name", "city", "pincode"},
            {"warehouse"}, {<<"admin", "warehouses">>}),
       {"address"})
WarehouseCard ==
  Page(Admins, <<Query(<<"admin", "warehouse", "id">>, adminWarehouseApi.get)>>, <<>>)
AdminWarehousesPage ==
  Page(Admins, <<Query(<<"admin", "warehouses">>, adminWarehouseApi.list)>>,
       <<CreateWarehouseModal>>)

AdminPages ==
  <<AdminPage, AdminAnalyticsPage, AdminAuditPage, AdminCategoriesPage,
   AdminCouponsPage, AdminErrorsPage, AdminFinancePage, AdminFlashSalesPage,
   AdminFraudPage, AdminImpersonatePage, AdminInventoryPage, AdminOrdersPage,
   AdminPluginsPage, AdminProductsPage, NewProductPage, EditProductPage,
   BulkUploadPage, RefundApprovalsPage, AdminUsersPage, WarehouseCard,
   AdminWarehousesPage>>
=============================================================================
