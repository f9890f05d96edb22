-------------------------------- MODULE Catalogue --------------------------------
(***************************************************************************)
(* The products of the shop (ProductsService): what staff do to their rows *)
(* and variants, which products a filter lists, the counts shown next to   *)
(* the filters, and what a product's page recommends.  The text search and *)
(* the order of a listing are left out.                                    *)
(***************************************************************************)
EXTENDS Integers, FiniteSets, FiniteSetsExt, Functions

CONSTANTS
    Products, Brands, Categories, Prices, Sizes, Colors,
    FirstRows,        \* products that are there at first
    FirstStock,       \* their variants with their stock
    Baskets,          \* the variants of each order so far
    MaxStaffEdits     \* bound: changes by staff

VARIABLES
    product,          \* Product rows
    stockOf,          \* Variant rows: stock by variant
    shelved,          \* variants with a WarehouseInventory row
    staffEdits

catalogueVars == <<product, stockOf, shelved, staffEdits>>

AllVariants == Products \X Sizes \X Colors
Ordered == UNION Baskets
Row == [active : BOOLEAN, brand : Brands, category : Categories, price : Prices]
Unset == "any"            \* what a filter says where it does not restrict

ASSUME CatalogueAssumption ==
    /\ \A S \in {Products, Sizes, Colors} : IsFiniteSet(S)
    /\ Unset \notin Brands \cup Categories \cup Sizes \cup Colors
    /\ Prices \subseteq Int /\ MaxStaffEdits \in Nat
    /\ DOMAIN FirstRows \subseteq Products /\ \A p \in DOMAIN FirstRows : FirstRows[p] \in Row
    /\ DOMAIN FirstStock \subseteq AllVariants
    /\ \A v \in DOMAIN FirstStock : FirstStock[v] \in 0..1
    /\ IsFiniteSet(Baskets) /\ Ordered \subseteq DOMAIN FirstStock

CatalogueTypeOK ==
    /\ DOMAIN product \subseteq Products /\ \A p \in DOMAIN product : product[p] \in Row
    /\ DOMAIN stockOf \subseteq AllVariants /\ \A v \in DOMAIN stockOf : stockOf[v] \in 0..1
    /\ staffEdits \in 0..MaxStaffEdits

CatalogueInit ==
    /\ product = FirstRows
    /\ stockOf = FirstStock
    /\ shelved = DOMAIN FirstStock
    /\ staffEdits = 0

-----------------------------------------------------------------------------
Edited == staffEdits < MaxStaffEdits /\ staffEdits' = staffEdits + 1

\* The slug is unique.
CreateProduct(p, row) ==
    /\ Edited
    /\ p \notin DOMAIN product
    /\ product' = [x \in DOMAIN product \cup {p} |-> IF x = p THEN row ELSE product[x]]
    /\ UNCHANGED <<stockOf, shelved>>

UpdateProduct(p, row) ==
    /\ Edited
    /\ p \in DOMAIN product
    /\ product' = [product EXCEPT ![p] = row]
    /\ UNCHANGED <<stockOf, shelved>>

\* One line of a CSV file: the product is created, or changed but for isActive.
UploadRow(p, row) ==
    /\ Edited
    /\ product' = [x \in DOMAIN product \cup {p} |->
          IF x # p THEN product[x]
          ELSE [row EXCEPT !.active = p \in DOMAIN product => product[p].active]]
    /\ UNCHANGED <<stockOf, shelved>>

VariantsOf(p) == {v \in DOMAIN stockOf : v[1] = p}

\* Takes the variants along; one that is on a shelf or in an order forbids it.
RemoveProduct(p) ==
    /\ Edited
    /\ p \in DOMAIN product
    /\ VariantsOf(p) \cap (shelved \cup Ordered) = {}
    /\ product' = Restrict(product, DOMAIN product \ {p})
    /\ stockOf' = Restrict(stockOf, DOMAIN stockOf \ VariantsOf(p))
    /\ UNCHANGED shelved

\* The sku is unique.  No warehouse has a row for it yet.
AddVariant(v, stock) ==
    /\ Edited
    /\ v[1] \in DOMAIN product
    /\ v \notin DOMAIN stockOf
    /\ stockOf' = [x \in DOMAIN stockOf \cup {v} |-> IF x = v THEN stock ELSE stockOf[x]]
    /\ UNCHANGED <<product, shelved>>

UpdateVariant(v, stock) ==
    /\ Edited
    /\ v \in DOMAIN stockOf
    /\ stockOf' = [stockOf EXCEPT ![v] = stock]
    /\ UNCHANGED <<product, shelved>>

\* The shelves' rows and the variant go together, or neither when it was ordered.
DeleteVariant(v) ==
    /\ Edited
    /\ v \in DOMAIN stockOf
    /\ v \notin Ordered
    /\ shelved' = shelved \ {v}
    /\ stockOf' = Restrict(stockOf, DOMAIN stockOf \ {v})
    /\ UNCHANGED product

CatalogueNext ==
    \/ \E p \in Products, row \in Row :
          CreateProduct(p, row) \/ UpdateProduct(p, row) \/ UploadRow(p, row)
    \/ \E p \in Products : RemoveProduct(p)
    \/ \E v \in AllVariants : DeleteVariant(v)
          \/ \E n \in 0..1 : AddVariant(v, n) \/ UpdateVariant(v, n)

CatalogueSpec == CatalogueInit /\ [][CatalogueNext]_catalogueVars
-----------------------------------------------------------------------------
\* Listings.

Filters == [brand : Brands \cup {Unset}, category : Categories \cup {Unset},
            min : Prices, max : Prices, size : Sizes \cup {Unset}, color : Colors \cup {Unset}]

\* The variant that is in stock, of that size and that color.
Sells(v, f) ==
    /\ stockOf[v] > 0
    /\ f.size \in {Unset, v[2]}
    /\ f.color \in {Unset, v[3]}

Where(f) ==
    {p \in DOMAIN product :
        /\ product[p].active
        /\ f.category \in {Unset, product[p].category}
        /\ f.brand \in {Unset, product[p].brand}
        /\ f.min <= product[p].price /\ product[p].price <= f.max
        /\ f.size # Unset \/ f.color # Unset => \E v \in VariantsOf(p) : Sells(v, f)}

\* loadPlp
Listed(f) == Where(f)

\* The brand that is chosen narrows its own counts.
BrandCountsNarrowed(f) ==
    [b \in Brands |-> Cardinality({p \in Where(f) : product[p].brand = b})]

\* getFacets: a filter does not narrow the counts of its own kind.
BrandCounts(f) ==
    [b \in Brands |-> Cardinality({p \in Where([f EXCEPT !.brand = Unset]) : product[p].brand = b})]
CategoryCounts(f) ==
    [c \in Categories |->
        Cardinality({p \in Where([f EXCEPT !.category = Unset]) : product[p].category = c})]
StockedVariants(f) == {v \in DOMAIN stockOf : stockOf[v] > 0 /\ v[1] \in Where(f)}
SizeCounts(f) == [s \in Sizes |-> Cardinality({v \in StockedVariants(f) : v[2] = s})]
ColorCounts(f) == [c \in Colors |-> Cardinality({v \in StockedVariants(f) : v[3] = c})]

-----------------------------------------------------------------------------
\* Recommendations.

\* The first n of a set by a rank, ties in any order.
Best(S, n, rank(_)) ==
    CHOOSE T \in SUBSET S :
        /\ Cardinality(T) = Min({n, Cardinality(S)})
        /\ \A t \in T, u \in S \ T : rank(t) >= rank(u)

\* getRelated, without the deals that come first
SameCategory(p) ==
    {x \in DOMAIN product \ {p} : product[x].active /\ product[x].category = product[p].category}
Related(p, n) == IF p \in DOMAIN product THEN Best(SameCategory(p), n, LAMBDA x : 0) ELSE {}

Upsells(p, n) ==
    IF p \notin DOMAIN product THEN {}
    ELSE Best({x \in SameCategory(p) : product[x].price > product[p].price}, n,
              LAMBDA x : 0 - product[x].price)

\* Other variants of the orders that have this product, the most frequent first;
\* their products, as many as are asked for, and related ones in the places left.
FrequentlyBoughtTogether(p, n) ==
    LET with == {b \in Baskets : \E v \in b : v[1] = p}
        others == {v \in UNION with : v[1] # p}
        often(v) == Cardinality({b \in with : v \in b})
        found == {v[1] : v \in Best(others, 2 * n, often)} \cap {x \in DOMAIN product : product[x].active}
        bought == Best(found, n, LAMBDA x : 0)
    IN  IF with = {} THEN Related(p, n)
        ELSE bought \cup Related(p, n - Cardinality(bought))

-----------------------------------------------------------------------------
\* products.service.ts:592: choosing a brand or a category lists as many products
\* as the count beside it says; a size or a color that is offered, when none is
\* chosen, leads to something, and one that is not leads nowhere.
FacetsMatchListings ==
    \A f \in [brand : Brands \cup {Unset}, category : Categories \cup {Unset},
              min : Prices, max : Prices, size : {Unset}, color : {Unset}] :
        /\ \A b \in Brands : BrandCounts(f)[b] = Cardinality(Listed([f EXCEPT !.brand = b]))
        /\ \A c \in Categories :
              CategoryCounts(f)[c] = Cardinality(Listed([f EXCEPT !.category = c]))
        /\ \A s \in Sizes : SizeCounts(f)[s] > 0 <=> Listed([f EXCEPT !.size = s]) # {}
        /\ \A c \in Colors : ColorCounts(f)[c] > 0 <=> Listed([f EXCEPT !.color = c]) # {}

\* products.service.ts:371 and :430: a page recommends other products that are for
\* sale, and no more than there is room for.
RecommendationsAreForSale ==
    \A p \in DOMAIN product, n \in 1..2 :
        \A others \in {FrequentlyBoughtTogether(p, n), Upsells(p, n)} :
            /\ p \notin others /\ Cardinality(others) <= n
            /\ \A x \in others : product[x].active

\* products.service.ts:309: what was ordered keeps its variant and its row on the
\* shelf, whatever staff delete.
OrderedStays == Ordered \subseteq DOMAIN stockOf \cap shelved
=============================================================================
