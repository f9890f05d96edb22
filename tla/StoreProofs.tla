------------------------------- MODULE StoreProofs -----------------------------
(***************************************************************************)
(* What the components of the store keep that share no state with each     *)
(* other, each for any size and any number of requests, and from these     *)
(* what the store keeps as the run shop puts it together.                  *)
(***************************************************************************)
EXTENDS MCShop, ShipmentsProofs, WalletProofs

-----------------------------------------------------------------------------
\* The bag: for any limits and any number of requests that interleave and die.

\* A request carries only a quantity that was checked.
PlansAreChecked ==
    \A e \in Errands : At(e, "add") \/ At(e, "set") => Within(errand[e].quantity)

\* A move that has filled the line leaves the thing there, so that the saved row
\* may go; what takes the line away ends the promise.
MovedIsInBag == kept => line # NoLine \/ (savedRow /\ \A e \in Errands : ~At(e, "unsave"))

BagInv == BagTypeOK /\ BagWithinLimits /\ PlansAreChecked /\ MovedIsInBag

ErrandType == [step : {"none", "add", "set", "remove", "move", "unsave"},
               row : 0..MaxRows, quantity : Nat]
LineTyped(l) ==
    l \in [row : 0..MaxRows, quantity : Nat, moved : BOOLEAN] /\ (l.row = 0 <=> l = NoLine)

LEMMA BagInvStarts == BagInit => BagInv
<1> SUFFICES ASSUME BagInit PROVE BagInv
  OBVIOUS
<1>1. line = NoLine /\ rows = 0 /\ savedRow = FALSE /\ kept = FALSE
  BY DEF BagInit
<1>2. errand \in [Errands -> ErrandType]
  <2>1. NoErrand \in ErrandType
    BY BagAssumption DEF NoErrand, ErrandType
  <2> QED
    BY <2>1 DEF BagInit
<1>3. LineTyped(line) /\ rows \in 0..MaxRows /\ line.row <= rows
  BY <1>1, BagAssumption DEF NoLine, LineTyped
<1>4. BagTypeOK
  BY <1>1, <1>2, <1>3 DEF BagTypeOK, LineTyped, ErrandType
<1>5. PlansAreChecked
  BY DEF BagInit, PlansAreChecked, At, NoErrand
<1> QED
  BY <1>1, <1>4, <1>5 DEF BagInv, BagWithinLimits, MovedIsInBag

\* What a request plans, and that it is done, keep the plans' type.
LEMMA PlansTyped ==
    ASSUME BagTypeOK, NEW e \in Errands,
           \/ Finish(e)
           \/ \E step \in {"none", "add", "set", "remove", "move", "unsave"},
                 row \in 0..MaxRows, quantity \in Nat : Plan(e, step, row, quantity)
    PROVE  errand' \in [Errands -> ErrandType]
<1>1. NoErrand \in ErrandType
  BY BagAssumption DEF NoErrand, ErrandType
<1>2. errand \in [Errands -> ErrandType]
  BY DEF BagTypeOK, ErrandType
<1>3. CASE Finish(e)
  BY <1>1, <1>2, <1>3 DEF Finish
<1>4. ASSUME NEW step \in {"none", "add", "set", "remove", "move", "unsave"},
             NEW row \in 0..MaxRows, NEW quantity \in Nat, Plan(e, step, row, quantity)
      PROVE  errand' \in [Errands -> ErrandType]
  <2>1. [step |-> step, row |-> row, quantity |-> quantity] \in ErrandType
    BY DEF ErrandType
  <2> QED
    BY <1>2, <1>4, <2>1 DEF Plan
<1> QED
  BY <1>3, <1>4

\* A line that was there is changed; a new one has a row of its own.
LEMMA LineChanges ==
    ASSUME BagTypeOK, line # NoLine, NEW n \in Nat, NEW m \in BOOLEAN,
           line' = [line EXCEPT !.quantity = n, !.moved = m]
    PROVE  /\ LineTyped(line') /\ line'.row = line.row /\ line' # NoLine
           /\ line'.quantity = n /\ line'.moved = m
<1>1. line \in [row : 0..MaxRows, quantity : Nat, moved : BOOLEAN] /\ line.row # 0
  BY DEF BagTypeOK
<1>2. line' = [row |-> line.row, quantity |-> n, moved |-> m]
  BY <1>1
<1> QED
  BY <1>1, <1>2 DEF LineTyped, NoLine

LEMMA LineIsCreated ==
    ASSUME BagTypeOK, NEW n \in Nat, NEW m \in BOOLEAN, CreateLine(n, m)
    PROVE  /\ LineTyped(line') /\ rows' \in 0..MaxRows /\ line'.row <= rows' /\ line' # NoLine
           /\ line'.quantity = n /\ line'.moved = m
<1>1. rows' = rows + 1 /\ rows < MaxRows /\ rows \in 0..MaxRows
  BY DEF CreateLine, BagTypeOK
<1>2. line' = [row |-> rows', quantity |-> n, moved |-> m]
  BY DEF CreateLine
<1>3. rows' \in 0..MaxRows /\ rows' # 0
  BY <1>1, BagAssumption
<1> QED
  BY <1>2, <1>3 DEF LineTyped, NoLine

LEMMA NoLineTyped == LineTyped(NoLine) /\ NoLine.row = 0
BY BagAssumption DEF LineTyped, NoLine

LEMMA BagTypesKept == BagTypeOK /\ [BagNext]_bagVars => BagTypeOK'
<1> SUFFICES ASSUME BagTypeOK, [BagNext]_bagVars PROVE BagTypeOK'
  OBVIOUS
<1>0. /\ errand \in [Errands -> ErrandType] /\ LineTyped(line) /\ rows \in 0..MaxRows
      /\ line.row <= rows /\ savedRow \in BOOLEAN /\ kept \in BOOLEAN
  BY DEF BagTypeOK, ErrandType, LineTyped
<1>1. ASSUME errand' \in [Errands -> ErrandType], LineTyped(line'), rows' \in 0..MaxRows,
             line'.row <= rows', savedRow' \in BOOLEAN, kept' \in BOOLEAN
      PROVE  BagTypeOK'
  BY <1>1 DEF BagTypeOK, ErrandType, LineTyped
<1>2. ASSUME NEW e \in Errands, NEW wanted \in 0..MaxAsked, NEW sellable \in 0..MaxOrderQty + 1,
             AddItem(e, wanted, sellable)
      PROVE  BagTypeOK'
  <2>1. line.row \in 0..MaxRows /\ line.quantity + wanted \in Nat
    BY <1>0, BagAssumption DEF LineTyped
  <2>2. errand' \in [Errands -> ErrandType]
    BY <1>2, <2>1, PlansTyped DEF AddItem
  <2> QED
    BY <1>0, <1>1, <1>2, <2>2 DEF AddItem
<1>3. ASSUME NEW e \in Errands, NEW wanted \in 0..MaxAsked, NEW sellable \in 0..MaxOrderQty + 1,
             UpdateItem(e, wanted, sellable)
      PROVE  BagTypeOK'
  <2>1. line.row \in 0..MaxRows /\ wanted \in Nat
    BY <1>0, BagAssumption DEF LineTyped
  <2>2. errand' \in [Errands -> ErrandType]
    BY <1>3, <2>1, PlansTyped DEF UpdateItem
  <2> QED
    BY <1>0, <1>1, <1>3, <2>2 DEF UpdateItem
<1>4. ASSUME NEW e \in Errands, WriteAdded(e) PROVE BagTypeOK'
  <2>1. errand[e].quantity \in Nat
    BY <1>0 DEF ErrandType
  <2>2. errand' \in [Errands -> ErrandType]
    BY <1>4, PlansTyped DEF WriteAdded
  <2>3. CASE CreateLine(errand[e].quantity, FALSE)
    BY <1>0, <1>1, <1>4, <2>1, <2>2, <2>3, LineIsCreated DEF WriteAdded
  <2>4. CASE /\ errand[e].row # 0 /\ errand[e].row = line.row
             /\ line' = [line EXCEPT !.quantity = errand[e].quantity, !.moved = FALSE]
             /\ UNCHANGED rows
    <3>1. line # NoLine
      BY <2>4, NoLineTyped
    <3>2. LineTyped(line') /\ line'.row = line.row
      BY <2>1, <2>4, <3>1, LineChanges
    <3> QED
      BY <1>0, <1>1, <1>4, <2>2, <2>4, <3>2 DEF WriteAdded
  <2> QED
    BY <1>4, <2>3, <2>4 DEF WriteAdded
<1>5. ASSUME NEW e \in Errands, WriteUpdated(e) PROVE BagTypeOK'
  <2>1. errand[e].quantity \in Nat
    BY <1>0 DEF ErrandType
  <2>2. errand' \in [Errands -> ErrandType]
    BY <1>5, PlansTyped DEF WriteUpdated
  <2>3. LineTyped(line') /\ line'.row = line.row
    BY <1>5, <2>1, LineChanges DEF WriteUpdated
  <2> QED
    BY <1>0, <1>1, <1>5, <2>2, <2>3 DEF WriteUpdated
<1>6. ASSUME NEW e \in Errands, RemoveItem(e) PROVE BagTypeOK'
  <2>1. line.row \in 0..MaxRows /\ 0 \in Nat
    BY <1>0 DEF LineTyped
  <2>2. errand' \in [Errands -> ErrandType]
    BY <1>6, <2>1, PlansTyped DEF RemoveItem
  <2> QED
    BY <1>0, <1>1, <1>6, <2>2 DEF RemoveItem
<1>7. ASSUME NEW e \in Errands, DeleteLine(e) PROVE BagTypeOK'
  <2>1. errand' \in [Errands -> ErrandType]
    BY <1>7, PlansTyped DEF DeleteLine
  <2>2. LineTyped(line') /\ line'.row <= rows'
    BY <1>0, <1>7, NoLineTyped DEF DeleteLine
  <2> QED
    BY <1>0, <1>1, <1>7, <2>1, <2>2 DEF DeleteLine
<1>8. ASSUME NEW e \in Errands, MoveToCart(e) PROVE BagTypeOK'
  <2>1. errand' \in [Errands -> ErrandType]
    BY <1>8, PlansTyped, BagAssumption DEF MoveToCart
  <2> QED
    BY <1>0, <1>1, <1>8, <2>1 DEF MoveToCart
<1>9. ASSUME NEW e \in Errands, UpsertMoved(e) PROVE BagTypeOK'
  <2>1. errand' \in [Errands -> ErrandType]
    BY <1>9, PlansTyped, BagAssumption DEF UpsertMoved
  <2>2. CASE CreateLine(1, TRUE)
    BY <1>0, <1>1, <1>9, <2>1, <2>2, LineIsCreated DEF UpsertMoved
  <2>3. CASE /\ line # NoLine
             /\ line' = [line EXCEPT !.quantity = @ + 1, !.moved = TRUE]
             /\ UNCHANGED rows
    <3>1. line.quantity + 1 \in Nat
      BY <1>0 DEF LineTyped
    <3>2. LineTyped(line') /\ line'.row = line.row
      BY <2>3, <3>1, LineChanges
    <3> QED
      BY <1>0, <1>1, <1>9, <2>1, <2>3, <3>2 DEF UpsertMoved
  <2> QED
    BY <1>9, <2>2, <2>3 DEF UpsertMoved
<1>10. ASSUME NEW e \in Errands, DeleteSaved(e) \/ GiveUpErrand(e) PROVE BagTypeOK'
  <2>1. errand' \in [Errands -> ErrandType]
    BY <1>10, PlansTyped DEF DeleteSaved, GiveUpErrand
  <2> QED
    BY <1>0, <1>1, <1>10, <2>1 DEF DeleteSaved, GiveUpErrand
<1>11. CASE ClearCart
  <2>1. LineTyped(line') /\ line'.row <= rows'
    BY <1>0, <1>11, NoLineTyped DEF ClearCart
  <2> QED
    BY <1>0, <1>1, <1>11, <2>1 DEF ClearCart
<1>12. CASE SaveVariantForLater \/ RemoveSavedForLater \/ UNCHANGED bagVars
  BY <1>0, <1>1, <1>12 DEF SaveVariantForLater, RemoveSavedForLater, bagVars
<1> QED
  BY <1>2, <1>3, <1>4, <1>5, <1>6, <1>7, <1>8, <1>9, <1>10, <1>11, <1>12 DEF BagNext

\* Types, for any limits, requests and quantities asked for.
THEOREM BagTypeCorrect == BagSpec => []BagTypeOK
<1>1. BagInit => BagTypeOK
  BY BagInvStarts DEF BagInv
<1> QED
  BY <1>1, BagTypesKept, PTL DEF BagSpec

\* A plan is the one just made, or one that was there.
LEMMA PlansChange ==
    ASSUME BagTypeOK, NEW e \in Errands, NEW x \in Errands
    PROVE  /\ Finish(e) => errand'[x] = IF x = e THEN NoErrand ELSE errand[x]
           /\ \A step, row, quantity :
                 Plan(e, step, row, quantity) =>
                    errand'[x] = IF x = e THEN [step |-> step, row |-> row, quantity |-> quantity]
                                 ELSE errand[x]
BY DEF BagTypeOK, Plan, Finish

\* Only a plan with a quantity within the limits is made, and what a line gets that
\* was not moved is such a quantity.
LEMMA CheckedPlansStay ==
    ASSUME BagTypeOK, PlansAreChecked, NEW e \in Errands,
           \/ Finish(e)
           \/ \E step, row, quantity :
                 /\ Plan(e, step, row, quantity)
                 /\ step \in {"add", "set"} => Within(quantity)
    PROVE  PlansAreChecked'
<1> SUFFICES ASSUME NEW x \in Errands, At(x, "add")' \/ At(x, "set")'
             PROVE  Within(errand[x].quantity)'
  BY DEF PlansAreChecked
<1>1. CASE errand'[x] = errand[x]
  BY <1>1 DEF PlansAreChecked, At, Within
<1>2. CASE errand'[x] = NoErrand
  BY <1>2 DEF At, NoErrand
<1>3. ASSUME NEW step, NEW row, NEW quantity, step \in {"add", "set"} => Within(quantity),
             errand'[x] = [step |-> step, row |-> row, quantity |-> quantity]
      PROVE  Within(errand[x].quantity)'
  <2>1. errand'[x].step = step /\ errand'[x].quantity = quantity
    BY <1>3
  <2>2. step \in {"add", "set"}
    BY <2>1 DEF At
  <2>3. Within(quantity)
    BY <1>3, <2>2
  <2> QED
    BY <2>1, <2>3 DEF Within
<1>4. CASE Finish(e)
  <2>1. errand'[x] = errand[x] \/ errand'[x] = NoErrand
    BY <1>4, PlansChange
  <2> QED
    BY <1>1, <1>2, <2>1
<1>5. ASSUME NEW step, NEW row, NEW quantity, Plan(e, step, row, quantity),
             step \in {"add", "set"} => Within(quantity)
      PROVE  Within(errand[x].quantity)'
  <2>1. \/ errand'[x] = errand[x]
        \/ errand'[x] = [step |-> step, row |-> row, quantity |-> quantity]
    BY <1>5, PlansChange
  <2> QED
    BY <1>1, <1>3, <1>5, <2>1
<1> QED
  BY <1>4, <1>5

\* A request that another came between writes what was checked, or nothing.
LEMMA LimitsKept ==
    ASSUME BagTypeOK, BagWithinLimits, PlansAreChecked, [BagNext]_bagVars
    PROVE  BagWithinLimits' /\ PlansAreChecked'
<1>1. ASSUME UNCHANGED line PROVE BagWithinLimits'
  BY <1>1 DEF BagWithinLimits, Within
<1>2. ASSUME UNCHANGED errand PROVE PlansAreChecked'
  BY <1>2 DEF PlansAreChecked, At, Within
<1>3. ASSUME line' = NoLine PROVE BagWithinLimits'
  BY <1>3 DEF BagWithinLimits
<1>4. ASSUME NEW e \in Errands, NEW wanted \in 0..MaxAsked, NEW sellable \in 0..MaxOrderQty + 1,
             AddItem(e, wanted, sellable) \/ UpdateItem(e, wanted, sellable)
      PROVE  BagWithinLimits' /\ PlansAreChecked'
  BY <1>1, <1>4, CheckedPlansStay DEF AddItem, UpdateItem
<1>5. ASSUME NEW e \in Errands, WriteAdded(e) PROVE BagWithinLimits' /\ PlansAreChecked'
  <2>1. Within(errand[e].quantity) /\ errand[e].quantity \in Nat
    BY <1>5 DEF WriteAdded, PlansAreChecked, BagTypeOK
  <2>2. line'.quantity = errand[e].quantity
    BY <1>5, <2>1, LineIsCreated, LineChanges, NoLineTyped DEF WriteAdded
  <2> QED
    BY <1>5, <2>1, <2>2, CheckedPlansStay DEF WriteAdded, BagWithinLimits, Within
<1>6. ASSUME NEW e \in Errands, WriteUpdated(e) PROVE BagWithinLimits' /\ PlansAreChecked'
  <2>1. Within(errand[e].quantity) /\ errand[e].quantity \in Nat
    BY <1>6 DEF WriteUpdated, PlansAreChecked, BagTypeOK
  <2>2. line'.quantity = errand[e].quantity
    BY <1>6, <2>1, LineChanges DEF WriteUpdated
  <2> QED
    BY <1>6, <2>1, <2>2, CheckedPlansStay DEF WriteUpdated, BagWithinLimits, Within
<1>7. ASSUME NEW e \in Errands, RemoveItem(e) \/ DeleteLine(e)
      PROVE  BagWithinLimits' /\ PlansAreChecked'
  BY <1>1, <1>3, <1>7, CheckedPlansStay DEF RemoveItem, DeleteLine
<1>8. ASSUME NEW e \in Errands, UpsertMoved(e) PROVE BagWithinLimits' /\ PlansAreChecked'
  <2>1. line'.moved = TRUE
    <3>1. line.quantity + 1 \in Nat
      BY DEF BagTypeOK
    <3> QED
      BY <1>8, <3>1, LineIsCreated, LineChanges DEF UpsertMoved
  <2> QED
    BY <1>8, <2>1, CheckedPlansStay DEF UpsertMoved, BagWithinLimits
<1>9. ASSUME NEW e \in Errands, MoveToCart(e) \/ DeleteSaved(e) \/ GiveUpErrand(e)
      PROVE  BagWithinLimits' /\ PlansAreChecked'
  BY <1>1, <1>9, CheckedPlansStay DEF MoveToCart, DeleteSaved, GiveUpErrand
<1>10. CASE ClearCart \/ SaveVariantForLater \/ RemoveSavedForLater \/ UNCHANGED bagVars
  BY <1>1, <1>2, <1>3, <1>10 DEF ClearCart, SaveVariantForLater, RemoveSavedForLater, bagVars
<1> QED
  BY <1>4, <1>5, <1>6, <1>7, <1>8, <1>9, <1>10 DEF BagNext

\* The saved row goes only after the line was filled, and the line goes only with
\* the promise.
LEMMA NothingIsLost ==
    ASSUME BagTypeOK, MovedIsInBag, [BagNext]_bagVars
    PROVE  MovedIsInBag'
<1>1. ASSUME NEW e \in Errands, NEW x \in Errands, At(x, "unsave")',
             \/ Finish(e)
             \/ \E step, row, quantity : Plan(e, step, row, quantity) /\ step # "unsave"
      PROVE  At(x, "unsave")
  <2>1. CASE errand'[x] = errand[x]
    BY <1>1, <2>1 DEF At
  <2>2. CASE errand'[x] = NoErrand
    BY <1>1, <2>2 DEF At, NoErrand
  <2>3. ASSUME NEW step, NEW row, NEW quantity, step # "unsave",
               errand'[x] = [step |-> step, row |-> row, quantity |-> quantity]
        PROVE  FALSE
    <3>1. errand'[x].step = step
      BY <2>3
    <3> QED
      BY <1>1, <2>3, <3>1 DEF At
  <2>4. CASE Finish(e)
    <3>1. errand'[x] = errand[x] \/ errand'[x] = NoErrand
      BY <2>4, PlansChange
    <3> QED
      BY <2>1, <2>2, <3>1
  <2>5. ASSUME NEW step, NEW row, NEW quantity, Plan(e, step, row, quantity), step # "unsave"
        PROVE  At(x, "unsave")
    <3>1. \/ errand'[x] = errand[x]
          \/ errand'[x] = [step |-> step, row |-> row, quantity |-> quantity]
      BY <2>5, PlansChange
    <3> QED
      BY <2>1, <2>3, <2>5, <3>1
  <2> QED
    BY <1>1, <2>4, <2>5
<1>2. ASSUME line' # NoLine \/ ~kept' PROVE MovedIsInBag'
  BY <1>2 DEF MovedIsInBag
<1>3. ASSUME UNCHANGED <<line, savedRow, kept>>,
             \A x \in Errands : At(x, "unsave")' => At(x, "unsave")
      PROVE  MovedIsInBag'
  BY <1>3 DEF MovedIsInBag
<1>4. ASSUME NEW e \in Errands, NEW wanted \in 0..MaxAsked, NEW sellable \in 0..MaxOrderQty + 1,
             AddItem(e, wanted, sellable) \/ UpdateItem(e, wanted, sellable)
      PROVE  MovedIsInBag'
  BY <1>1, <1>3, <1>4 DEF AddItem, UpdateItem
<1>5. ASSUME NEW e \in Errands, WriteAdded(e) PROVE MovedIsInBag'
  <2>1. errand[e].quantity \in Nat
    BY DEF BagTypeOK
  <2>2. line' # NoLine
    BY <1>5, <2>1, LineIsCreated, LineChanges, NoLineTyped DEF WriteAdded
  <2> QED
    BY <1>2, <2>2
<1>6. ASSUME NEW e \in Errands, WriteUpdated(e) PROVE MovedIsInBag'
  <2>1. errand[e].quantity \in Nat
    BY DEF BagTypeOK
  <2>2. line' # NoLine
    BY <1>6, <2>1, LineChanges DEF WriteUpdated
  <2> QED
    BY <1>2, <2>2
<1>7. ASSUME NEW e \in Errands, RemoveItem(e) \/ MoveToCart(e) \/ GiveUpErrand(e)
      PROVE  MovedIsInBag'
  BY <1>1, <1>3, <1>7 DEF RemoveItem, MoveToCart, GiveUpErrand
<1>8. ASSUME NEW e \in Errands, DeleteLine(e) PROVE MovedIsInBag'
  BY <1>2, <1>8 DEF DeleteLine
<1>9. ASSUME NEW e \in Errands, UpsertMoved(e) PROVE MovedIsInBag'
  <2>1. line.quantity + 1 \in Nat
    BY DEF BagTypeOK
  <2>2. line' # NoLine
    BY <1>9, <2>1, LineIsCreated, LineChanges DEF UpsertMoved
  <2> QED
    BY <1>2, <2>2
<1>10. ASSUME NEW e \in Errands, DeleteSaved(e) PROVE MovedIsInBag'
  BY <1>10 DEF DeleteSaved, MovedIsInBag
<1>11. CASE ClearCart \/ RemoveSavedForLater
  BY <1>2, <1>11 DEF ClearCart, RemoveSavedForLater
<1>12. CASE SaveVariantForLater
  BY <1>12 DEF SaveVariantForLater, MovedIsInBag, At
<1>13. CASE UNCHANGED bagVars
  BY <1>13 DEF bagVars, MovedIsInBag, At
<1> QED
  BY <1>4, <1>5, <1>6, <1>7, <1>8, <1>9, <1>10, <1>11, <1>12, <1>13 DEF BagNext

\* cart.service.ts:67 and experience.service.ts:46, for any limits, any number of
\* requests of the customer and wherever they are cut off: the line stays within
\* its limits, and what was put in the bag or saved is in one of them.
THEOREM BagIsAlwaysKept == BagSpec => []BagIsKept
<1>1. BagInit => BagInv
  BY BagInvStarts
<1>2. BagInv /\ [BagNext]_bagVars => BagInv'
  BY BagTypesKept, LimitsKept, NothingIsLost DEF BagInv
<1>3. BagInv => BagIsKept
  BY DEF BagInv, BagIsKept, ItemIsSomewhere, MovedIsInBag
<1> QED
  BY <1>1, <1>2, <1>3, PTL DEF BagSpec

-----------------------------------------------------------------------------
\* Invoices: for any orders, years and number of calls that overlap and fail.

\* Who holds a number of a year holds the next one, and alone: the row of the year
\* is locked until the transaction is over.
NextIsHeld ==
    \A b \in Billings :
        billing[b].step = "numbered" => billing[b].sequence = lastSequence[billing[b].year] + 1
HeldByOne ==
    \A b, c \in Billings :
        billing[c].step = "numbered" /\ LocksYear(b, billing[c].year) => b = c

InvoicingInv == InvoicingTypeOK /\ NextIsHeld /\ HeldByOne /\ NumbersAreConsecutive

LEMMA NobodyBills == NotBilling \in BillingType /\ NotBilling.step = "none"
BY DEF NotBilling, BillingType

LEMMA NumberedIsTyped ==
    ASSUME InvoicingTypeOK, NEW b \in Billings, billing[b].step = "numbered"
    PROVE  /\ billing[b].order \in Confirmed /\ billing[b].year \in FinancialYears
           /\ billing[b].sequence \in Nat
BY DEF InvoicingTypeOK, BillingType, NotBilling

LEMMA DatedIsTyped ==
    ASSUME InvoicingTypeOK, NEW b \in Billings, billing[b].step = "dated"
    PROVE  billing[b].order \in Confirmed /\ billing[b].year \in FinancialYears
BY DEF InvoicingTypeOK, BillingType, NotBilling

LEMMA InvoicingStarts == InvoicingInit => InvoicingInv
<1> SUFFICES ASSUME InvoicingInit PROVE InvoicingInv
  OBVIOUS
<1>1. DOMAIN invoice = {}
  BY DEF InvoicingInit
<1>2. \A b \in Billings : billing[b].step = "none"
  BY NobodyBills DEF InvoicingInit
<1>3. InvoicingTypeOK
  BY <1>1, NobodyBills, InvoicingAssumption DEF InvoicingInit, InvoicingTypeOK
<1>4. NumbersAreConsecutive
  <2>1. \A y \in FinancialYears : SequencesOf(y) = {}
    BY <1>1 DEF SequencesOf
  <2>2. \A y \in FinancialYears : 1..lastSequence[y] = {}
    BY DEF InvoicingInit
  <2> QED
    BY <1>1, <2>1, <2>2 DEF NumbersAreConsecutive
<1> QED
  BY <1>2, <1>3, <1>4 DEF InvoicingInv, NextIsHeld, HeldByOne

\* A call that ends, or has only read, holds nothing; the others hold what they held.
LEMMA OthersHold ==
    ASSUME InvoicingTypeOK, NextIsHeld, HeldByOne, UNCHANGED lastSequence,
           NEW b \in Billings, NEW r, r.step # "numbered", billing' = [billing EXCEPT ![b] = r]
    PROVE  NextIsHeld' /\ HeldByOne'
<1>1. \A c \in Billings : billing'[c].step = "numbered" => c # b /\ billing'[c] = billing[c]
  BY DEF InvoicingTypeOK
<1> QED
  BY <1>1 DEF NextIsHeld, HeldByOne, LocksYear

LEMMA StartKeeps ==
    ASSUME InvoicingInv, NEW b \in Billings, NEW o \in Confirmed, StartBilling(b, o)
    PROVE  InvoicingInv'
<1> DEFINE r == [step |-> "dated", order |-> o, year |-> today]
<1>1. r \in BillingType /\ r.step # "numbered"
  BY DEF InvoicingInv, InvoicingTypeOK, BillingType
<1>2. InvoicingTypeOK'
  BY <1>1 DEF InvoicingInv, InvoicingTypeOK, StartBilling
<1>3. NumbersAreConsecutive'
  BY DEF InvoicingInv, NumbersAreConsecutive, SequencesOf, StartBilling
<1>4. billing' = [billing EXCEPT ![b] = r] /\ UNCHANGED lastSequence
  BY DEF StartBilling
<1> HIDE DEF r
<1> QED
  BY <1>1, <1>2, <1>3, <1>4, OthersHold DEF InvoicingInv

LEMMA AbortKeeps ==
    ASSUME InvoicingInv, NEW b \in Billings, AbortBilling(b)
    PROVE  InvoicingInv'
<1>1. InvoicingTypeOK'
  BY NobodyBills DEF InvoicingInv, InvoicingTypeOK, AbortBilling
<1>2. NumbersAreConsecutive'
  BY DEF InvoicingInv, NumbersAreConsecutive, SequencesOf, AbortBilling
<1> QED
  BY <1>1, <1>2, NobodyBills, OthersHold DEF InvoicingInv, AbortBilling

LEMMA NumberKeeps ==
    ASSUME InvoicingInv, NEW b \in Billings, TakeNumber(b)
    PROVE  InvoicingInv'
<1> DEFINE r == [step |-> "numbered", order |-> billing[b].order, year |-> billing[b].year,
                 sequence |-> lastSequence[billing[b].year] + 1]
<1>1. billing[b].order \in Confirmed /\ billing[b].year \in FinancialYears
  BY DatedIsTyped DEF InvoicingInv, TakeNumber
<1>2. lastSequence[billing[b].year] + 1 \in Nat
  BY <1>1 DEF InvoicingInv, InvoicingTypeOK
<1>3. r \in BillingType
  BY <1>1, <1>2 DEF BillingType
<1>4. billing' = [billing EXCEPT ![b] = r] /\ UNCHANGED <<invoice, lastSequence, today>>
  BY DEF TakeNumber
<1>5. InvoicingTypeOK'
  BY <1>3, <1>4 DEF InvoicingInv, InvoicingTypeOK
<1>6. NumbersAreConsecutive'
  BY <1>4 DEF InvoicingInv, NumbersAreConsecutive, SequencesOf
<1>7. \A c \in Billings : billing'[c] = IF c = b THEN r ELSE billing[c]
  BY <1>4 DEF InvoicingInv, InvoicingTypeOK
<1>8. r.year = billing[b].year /\ r.sequence = lastSequence[r.year] + 1
  OBVIOUS
<1>9. \A c \in Billings : ~LocksYear(c, r.year)
  BY DEF TakeNumber
<1> HIDE DEF r
<1>10. NextIsHeld'
  BY <1>4, <1>7, <1>8 DEF InvoicingInv, NextIsHeld
<1>11. HeldByOne'
  BY <1>7, <1>9 DEF InvoicingInv, HeldByOne, LocksYear
<1> QED
  BY <1>5, <1>6, <1>10, <1>11 DEF InvoicingInv

\* The only step that gives a number to an invoice gives the next one of its year.
LEMMA CommitKeeps ==
    ASSUME InvoicingInv, NEW b \in Billings, CommitInvoice(b)
    PROVE  InvoicingInv'
<1> DEFINE o == billing[b].order
           y == billing[b].year
           n == billing[b].sequence
           row == [year |-> y, sequence |-> n]
<1>1. /\ billing[b].step = "numbered" /\ o \in Confirmed /\ y \in FinancialYears /\ n \in Nat
      /\ n = lastSequence[y] + 1 /\ o \notin DOMAIN invoice
  BY NumberedIsTyped DEF InvoicingInv, CommitInvoice, NextIsHeld
<1>2. /\ DOMAIN invoice' = DOMAIN invoice \cup {o} /\ invoice'[o] = row
      /\ \A p \in DOMAIN invoice : invoice'[p] = invoice[p]
  BY <1>1 DEF CommitInvoice
<1>3. /\ lastSequence' \in [FinancialYears -> Nat] /\ lastSequence'[y] = n
      /\ \A z \in FinancialYears \ {y} : lastSequence'[z] = lastSequence[z]
  BY <1>1 DEF InvoicingInv, InvoicingTypeOK, CommitInvoice
<1>4. billing' = [billing EXCEPT ![b] = NotBilling] /\ UNCHANGED today
  BY DEF CommitInvoice
<1>5. row.year = y /\ row.sequence = n
  OBVIOUS
<1> HIDE DEF o, y, n, row
<1>6. InvoicingTypeOK'
  BY <1>1, <1>2, <1>3, <1>4, <1>5, NobodyBills DEF InvoicingInv, InvoicingTypeOK
<1>7. \A c \in Billings : billing'[c].step = "numbered" =>
          /\ c # b /\ billing'[c] = billing[c] /\ billing[c].year \in FinancialYears
          /\ billing[c].year # y
  <2>1. \A c \in Billings : billing'[c] = IF c = b THEN NotBilling ELSE billing[c]
    BY <1>4 DEF InvoicingInv, InvoicingTypeOK
  <2>2. \A c \in Billings : billing[c].step = "numbered" /\ c # b => billing[c].year # y
    BY <1>1 DEF InvoicingInv, HeldByOne, LocksYear, y
  <2> QED
    BY <2>1, <2>2, NobodyBills, NumberedIsTyped DEF InvoicingInv
<1>8. NextIsHeld' /\ HeldByOne'
  BY <1>3, <1>7 DEF InvoicingInv, NextIsHeld, HeldByOne, LocksYear
<1>9. \A z \in FinancialYears : SequencesOf(z)' = 1..lastSequence'[z]
  <2> SUFFICES ASSUME NEW z \in FinancialYears PROVE SequencesOf(z)' = 1..lastSequence'[z]
    OBVIOUS
  <2>1. SequencesOf(z) = 1..lastSequence[z] /\ lastSequence[z] \in Nat
    BY DEF InvoicingInv, NumbersAreConsecutive, InvoicingTypeOK
  <2>2. CASE z # y
    <3>1. SequencesOf(z)' = SequencesOf(z)
      BY <1>2, <1>5, <2>2 DEF SequencesOf
    <3> QED
      BY <1>3, <2>1, <2>2, <3>1
  <2>3. CASE z = y
    <3>1. SequencesOf(z)' = SequencesOf(z) \cup {n}
      BY <1>1, <1>2, <1>5, <2>3 DEF SequencesOf
    <3>2. 1..n = 1..lastSequence[z] \cup {n}
      BY <1>1, <2>1, <2>3
    <3> QED
      BY <1>3, <2>1, <2>3, <3>1, <3>2
  <2> QED
    BY <2>2, <2>3
<1>10. \A p \in DOMAIN invoice : invoice[p] # row
  <2> SUFFICES ASSUME NEW p \in DOMAIN invoice, invoice[p] = row PROVE FALSE
    OBVIOUS
  <2>1. n \in SequencesOf(y)
    BY <1>5 DEF SequencesOf
  <2>2. SequencesOf(y) = 1..lastSequence[y] /\ lastSequence[y] \in Nat
    BY <1>1 DEF InvoicingInv, NumbersAreConsecutive, InvoicingTypeOK
  <2> QED
    BY <1>1, <2>1, <2>2
<1>11. \A p, q \in DOMAIN invoice' : invoice'[p] = invoice'[q] => p = q
  <2>1. \A p, q \in DOMAIN invoice : invoice[p] = invoice[q] => p = q
    BY <1>1 DEF InvoicingInv, NumbersAreConsecutive
  <2> QED
    BY <1>2, <1>10, <2>1
<1>12. NumbersAreConsecutive'
  BY <1>9, <1>11 DEF NumbersAreConsecutive
<1> QED
  BY <1>6, <1>8, <1>12 DEF InvoicingInv

LEMMA RestKeeps == InvoicingInv /\ (AprilComes \/ UNCHANGED invoiceVars) => InvoicingInv'
BY DEF InvoicingInv, InvoicingTypeOK, NextIsHeld, HeldByOne, LocksYear, NumbersAreConsecutive,
       SequencesOf, AprilComes, invoiceVars

LEMMA InvoicingInvHolds == InvoicingSpec => []InvoicingInv
<1>1. InvoicingInit => InvoicingInv
  BY InvoicingStarts
<1>2. InvoicingInv /\ [InvoicingNext]_invoiceVars => InvoicingInv'
  BY StartKeeps, NumberKeeps, CommitKeeps, AbortKeeps, RestKeeps DEF InvoicingNext
<1> QED
  BY <1>1, <1>2, PTL DEF InvoicingSpec

\* invoices.service.ts:20 (I-13), for any orders and years and however many calls
\* overlap, come twice, abort or are cut off: the invoices of a year have the
\* numbers up to the last one, each once.
THEOREM NumbersHaveNoGap == InvoicingSpec => []NumbersAreConsecutive
<1>1. InvoicingInv => NumbersAreConsecutive
  BY DEF InvoicingInv
<1> QED
  BY <1>1, InvoicingInvHolds, PTL
-----------------------------------------------------------------------------
\* Coupons and the affiliate account: for any shoppers, guests, limits and number of
\* checkouts and payouts that overlap.

\* A shopper has at most one order with the coupon, and then a row that says so.
OneEach ==
    \A s \in Shoppers : couponOrders[s] \in {0, 1} /\ (couponOrders[s] = 1 <=> s \in usage)

\* What has a row was booked before.
BookedBefore == attributed + tracking <= account.earned

\* Who pays alone pays what is owed.
OwedIsUnpaid ==
    ~overlapped =>
        /\ \A p, q \in Payers : payout[p] > 0 /\ payout[q] > 0 => p = q
        /\ account.paid <= account.earned
        /\ \A p \in Payers : account.paid + payout[p] <= account.earned

PromotionsInv ==
    /\ PromotionsTypeOK
    /\ OneEach
    /\ UsesAreOrders
    /\ BookedBefore
    /\ OwedIsUnpaid
    /\ PaidIsEarned

CouponType == [used : Nat, cap : Caps, isActive : BOOLEAN, expired : BOOLEAN]

\* One more order of b is one more order with the coupon.
LEMMA OneMoreOrder ==
    ASSUME PromotionsTypeOK, NEW b \in Buyers, couponOrders[b] < MaxOrders,
           couponOrders' = [couponOrders EXCEPT ![b] = @ + 1]
    PROVE  Cardinality(OrdersWithCoupon') = Cardinality(OrdersWithCoupon) + 1
<1> DEFINE x == <<b, couponOrders[b] + 1>>
<1>1. couponOrders \in [Buyers -> 0..MaxOrders]
  BY DEF PromotionsTypeOK
<1>2. \A c \in Buyers : couponOrders'[c] = IF c = b THEN couponOrders[b] + 1 ELSE couponOrders[c]
  BY <1>1
<1>3. x \in Buyers \X (1..MaxOrders) /\ x \notin OrdersWithCoupon
  BY <1>1, PromotionsAssumption DEF OrdersWithCoupon
<1>4. OrdersWithCoupon' = OrdersWithCoupon \cup {x}
  <2>1. ASSUME NEW y \in Buyers \X (1..MaxOrders)
        PROVE  y[2] <= couponOrders'[y[1]] <=> (y[2] <= couponOrders[y[1]] \/ y = x)
    <3>1. PICK c \in Buyers, n \in 1..MaxOrders : y = <<c, n>>
      OBVIOUS
    <3>2. CASE c = b
      BY <1>1, <1>2, <3>1, <3>2, PromotionsAssumption
    <3>3. CASE c # b
      BY <1>2, <3>1, <3>3
    <3> QED
      BY <3>2, <3>3
  <2>2. OrdersWithCoupon' = {y \in Buyers \X (1..MaxOrders) : y[2] <= couponOrders'[y[1]]}
    BY DEF OrdersWithCoupon
  <2> HIDE DEF x
  <2> QED
    BY <1>3, <2>1, <2>2 DEF OrdersWithCoupon
<1>5. IsFiniteSet(OrdersWithCoupon)
  <2>1. IsFiniteSet(Buyers) /\ IsFiniteSet(1..MaxOrders)
    BY PromotionsAssumption, FS_Interval DEF Buyers
  <2>2. IsFiniteSet(Buyers \X (1..MaxOrders))
    BY <2>1, FS_Product
  <2> QED
    BY <2>2, FS_Subset DEF OrdersWithCoupon
<1> HIDE DEF x
<1> QED
  BY <1>3, <1>4, <1>5, FS_AddElement

LEMMA CouponKept ==
    ASSUME PromotionsInv, CouponNext
    PROVE  PromotionsInv'
<1>0. /\ PromotionsTypeOK /\ coupon \in CouponType /\ couponOrders \in [Buyers -> 0..MaxOrders]
      /\ usage \subseteq Shoppers /\ buying \subseteq Buyers
      /\ OneEach /\ UsesAreOrders
  BY DEF PromotionsInv, PromotionsTypeOK, CouponType
<1> DEFINE Goal ==
        /\ coupon' \in CouponType /\ couponOrders' \in [Buyers -> 0..MaxOrders]
        /\ usage' \subseteq Shoppers /\ buying' \subseteq Buyers
        /\ OneEach' /\ UsesAreOrders'
<1>1. ASSUME NEW b \in Buyers, ValidateCoupon(b) \/ RejectCouponOrder(b) PROVE Goal
  BY <1>0, <1>1 DEF ValidateCoupon, RejectCouponOrder, OneEach, UsesAreOrders, OrdersWithCoupon
<1>2. ASSUME NEW b \in Buyers, PlaceCouponOrder(b) PROVE Goal
  <2>1. /\ b \notin usage /\ CountUse /\ couponOrders[b] < MaxOrders
        /\ usage' = usage \cup ({b} \cap Shoppers)
        /\ couponOrders' = [couponOrders EXCEPT ![b] = @ + 1]
        /\ buying' = buying \ {b}
    BY <1>2 DEF PlaceCouponOrder
  <2>2. coupon' \in CouponType /\ coupon'.used = coupon.used + 1 /\ coupon.used < coupon.cap
    BY <1>0, <2>1 DEF CountUse, CouponType
  <2>3. /\ couponOrders' \in [Buyers -> 0..MaxOrders]
        /\ \A c \in Buyers : couponOrders'[c] = IF c = b THEN couponOrders[b] + 1 ELSE couponOrders[c]
    BY <1>0, <2>1, PromotionsAssumption
  <2>4. usage' \subseteq Shoppers /\ buying' \subseteq Buyers
    BY <1>0, <2>1
  <2>5. OneEach'
    BY <1>0, <2>1, <2>3 DEF OneEach, Buyers
  <2>6. UsesAreOrders'
    <3>0. coupon.cap \in Caps /\ coupon.cap \in Nat /\ coupon.used \in Nat
      BY <1>0, PromotionsAssumption DEF CouponType
    <3>1. \E cap \in Caps : coupon'.used <= cap
      BY <2>2, <3>0
    <3>2. coupon'.used = Cardinality(OrdersWithCoupon')
      BY <1>0, <2>1, <2>2, OneMoreOrder DEF UsesAreOrders
    <3> QED
      BY <2>5, <3>1, <3>2 DEF UsesAreOrders, OneEach
  <2> QED
    BY <2>2, <2>3, <2>4, <2>5, <2>6
<1>3. ASSUME NEW cap \in Caps, NEW isActive \in BOOLEAN, NEW expired \in BOOLEAN,
             UpdateCoupon(cap, isActive, expired)
      PROVE  Goal
  <2>1. /\ coupon' = [coupon EXCEPT !.cap = cap, !.isActive = isActive, !.expired = expired]
        /\ UNCHANGED <<usage, couponOrders, buying>>
    BY <1>3 DEF UpdateCoupon
  <2>2. coupon' \in CouponType /\ coupon'.used = coupon.used
    BY <1>0, <2>1 DEF CouponType
  <2> QED
    BY <1>0, <2>1, <2>2 DEF OneEach, UsesAreOrders, OrdersWithCoupon
<1> HIDE DEF Goal
<1>4. Goal
  BY <1>1, <1>2, <1>3 DEF CouponNext
<1>5. UNCHANGED affiliateVars
  BY DEF CouponNext, ValidateCoupon, RejectCouponOrder, PlaceCouponOrder, UpdateCoupon
<1>6. BookedBefore' /\ OwedIsUnpaid' /\ PaidIsEarned'
  BY <1>5 DEF affiliateVars, PromotionsInv, BookedBefore, OwedIsUnpaid, PaidIsEarned
<1>7. PromotionsTypeOK'
  BY <1>4, <1>5 DEF Goal, affiliateVars, PromotionsInv, PromotionsTypeOK, CouponType
<1> QED
  BY <1>4, <1>6, <1>7 DEF Goal, PromotionsInv

LEMMA AffiliateKept ==
    ASSUME PromotionsInv, AffiliateNext
    PROVE  PromotionsInv'
<1> DEFINE Types == /\ account \in [earned : 0..MaxEarned, paid : Nat]
                    /\ attributed \in 0..MaxEarned /\ tracking \in 0..MaxEarned
                    /\ payout \in [Payers -> 0..MaxEarned]
                    /\ paidOut \in [ledger : Nat, wallet : Nat]
                    /\ overlapped \in BOOLEAN
           Earnings == Types /\ BookedBefore /\ OwedIsUnpaid /\ PaidIsEarned
<1>0. Earnings
  BY DEF PromotionsInv, PromotionsTypeOK
<1>1. ASSUME NEW n \in 1..MaxEarned, TrackCommission(n) PROVE Earnings'
  <2>1. /\ account.earned + n <= MaxEarned /\ account' = [account EXCEPT !.earned = @ + n]
        /\ tracking' = tracking + n /\ UNCHANGED <<attributed, payout, paidOut, overlapped>>
    BY <1>1 DEF TrackCommission
  <2>2. /\ account'.earned = account.earned + n /\ account'.paid = account.paid
        /\ account' \in [earned : 0..MaxEarned, paid : Nat]
    BY <1>0, <2>1, PromotionsAssumption
  <2>3. BookedBefore' /\ tracking' \in 0..MaxEarned
    BY <1>0, <2>1, <2>2, PromotionsAssumption DEF BookedBefore
  <2>4. OwedIsUnpaid'
    BY <1>0, <2>1, <2>2, PromotionsAssumption DEF OwedIsUnpaid
  <2>5. PaidIsEarned'
    BY <1>0, <2>1, <2>2, PromotionsAssumption DEF PaidIsEarned
  <2> QED
    BY <1>0, <2>1, <2>2, <2>3, <2>4, <2>5
<1>2. ASSUME NEW n \in 1..MaxEarned, CreateAttribution(n) \/ LoseAttribution(n) PROVE Earnings'
  <2>1. /\ n <= tracking /\ tracking' = tracking - n
        /\ attributed' = attributed + n \/ attributed' = attributed
        /\ UNCHANGED <<account, payout, paidOut, overlapped>>
    BY <1>2 DEF CreateAttribution, LoseAttribution
  <2>2. BookedBefore' /\ tracking' \in 0..MaxEarned /\ attributed' \in 0..MaxEarned
    BY <1>0, <2>1, PromotionsAssumption DEF BookedBefore
  <2> QED
    BY <1>0, <2>1, <2>2 DEF OwedIsUnpaid, PaidIsEarned
<1>3. ASSUME NEW p \in Payers, ReadPending(p) PROVE Earnings'
  <2> DEFINE owed == account.earned - account.paid
  <2>1. /\ account.earned > account.paid /\ payout' = [payout EXCEPT ![p] = owed]
        /\ overlapped' = (overlapped \/ \E q \in Payers : payout[q] > 0)
        /\ UNCHANGED <<account, attributed, tracking, paidOut>>
    BY <1>3 DEF ReadPending
  <2>2. owed \in 0..MaxEarned /\ account.paid + owed = account.earned
    BY <1>0, <2>1, PromotionsAssumption
  <2> HIDE DEF owed
  <2>3. /\ payout' \in [Payers -> 0..MaxEarned]
        /\ \A q \in Payers : payout'[q] = IF q = p THEN owed ELSE payout[q]
    BY <1>0, <2>1, <2>2
  <2>4. OwedIsUnpaid'
    <3> SUFFICES ASSUME ~overlapped'
                 PROVE  /\ \A q, r \in Payers : payout'[q] > 0 /\ payout'[r] > 0 => q = r
                        /\ account.paid <= account.earned
                        /\ \A q \in Payers : account.paid + payout'[q] <= account.earned
      BY <2>1 DEF OwedIsUnpaid
    <3>1. ~overlapped /\ \A q \in Payers : ~(payout[q] > 0)
      BY <2>1
    <3>2. \A q \in Payers : payout[q] = 0
      BY <1>0, <3>1, PromotionsAssumption
    <3> QED
      BY <1>0, <2>1, <2>2, <2>3, <3>2, PromotionsAssumption
  <2>5. PaidIsEarned' /\ BookedBefore' /\ overlapped' \in BOOLEAN
    BY <1>0, <2>1 DEF PaidIsEarned, BookedBefore
  <2> QED
    BY <1>0, <2>1, <2>3, <2>4, <2>5
<1>4. ASSUME NEW p \in Payers, PayCommission(p) PROVE Earnings'
  <2>1. /\ payout[p] > 0
        /\ paidOut' = [ledger |-> paidOut.ledger + payout[p], wallet |-> paidOut.wallet + payout[p]]
        /\ account' = [account EXCEPT !.paid = @ + payout[p]]
        /\ payout' = [payout EXCEPT ![p] = 0]
        /\ UNCHANGED <<attributed, tracking, overlapped>>
    BY <1>4 DEF PayCommission
  <2>2. /\ payout[p] \in Nat /\ account'.earned = account.earned
        /\ account'.paid = account.paid + payout[p]
        /\ account' \in [earned : 0..MaxEarned, paid : Nat]
        /\ paidOut' \in [ledger : Nat, wallet : Nat]
        /\ paidOut'.ledger = paidOut.ledger + payout[p]
        /\ paidOut'.wallet = paidOut.wallet + payout[p]
    BY <1>0, <2>1, PromotionsAssumption
  <2>3. /\ payout' \in [Payers -> 0..MaxEarned]
        /\ \A q \in Payers : payout'[q] = IF q = p THEN 0 ELSE payout[q]
    BY <1>0, <2>1, PromotionsAssumption
  <2>4. OwedIsUnpaid'
    <3> SUFFICES ASSUME ~overlapped
                 PROVE  /\ \A q, r \in Payers : payout'[q] > 0 /\ payout'[r] > 0 => q = r
                        /\ account'.paid <= account'.earned
                        /\ \A q \in Payers : account'.paid + payout'[q] <= account'.earned
      BY <2>1 DEF OwedIsUnpaid
    <3>1. \A q \in Payers : payout'[q] = 0
      BY <1>0, <2>1, <2>3, PromotionsAssumption DEF OwedIsUnpaid
    <3>2. account.paid + payout[p] <= account.earned
      BY <1>0 DEF OwedIsUnpaid
    <3> QED
      BY <1>0, <2>2, <3>1, <3>2, PromotionsAssumption
  <2>5. PaidIsEarned'
    BY <1>0, <2>2, <2>4, PromotionsAssumption DEF PaidIsEarned, OwedIsUnpaid
  <2>6. BookedBefore'
    BY <1>0, <2>1, <2>2 DEF BookedBefore
  <2> QED
    BY <1>0, <2>1, <2>2, <2>3, <2>4, <2>5, <2>6
<1>5. ASSUME NEW p \in Payers, PayoutFails(p) PROVE Earnings'
  <2>1. payout' = [payout EXCEPT ![p] = 0] /\ UNCHANGED <<account, attributed, tracking, paidOut, overlapped>>
    BY <1>5 DEF PayoutFails
  <2>2. /\ payout' \in [Payers -> 0..MaxEarned]
        /\ \A q \in Payers : payout'[q] = IF q = p THEN 0 ELSE payout[q]
    BY <1>0, <2>1, PromotionsAssumption
  <2>3. OwedIsUnpaid'
    BY <1>0, <2>1, <2>2, PromotionsAssumption DEF OwedIsUnpaid
  <2> QED
    BY <1>0, <2>1, <2>2, <2>3 DEF BookedBefore, PaidIsEarned
<1> HIDE DEF Earnings
<1>6. Earnings'
  BY <1>1, <1>2, <1>3, <1>4, <1>5 DEF AffiliateNext
<1>7. UNCHANGED couponVars
  BY DEF AffiliateNext, TrackCommission, CreateAttribution, LoseAttribution, ReadPending,
     PayCommission, PayoutFails
<1>8. OneEach' /\ UsesAreOrders'
  BY <1>7 DEF couponVars, PromotionsInv, OneEach, UsesAreOrders, OrdersWithCoupon
<1>9. PromotionsTypeOK'
  BY <1>6, <1>7 DEF Earnings, couponVars, PromotionsInv, PromotionsTypeOK
<1> QED
  BY <1>6, <1>8, <1>9 DEF Earnings, PromotionsInv

LEMMA PromotionsStart == PromotionsInit => PromotionsInv
<1> SUFFICES ASSUME PromotionsInit PROVE PromotionsInv
  OBVIOUS
<1>1. PICK cap \in Caps : coupon = [used |-> 0, cap |-> cap, isActive |-> TRUE, expired |-> FALSE]
  BY DEF PromotionsInit
<1>2. PromotionsTypeOK
  <2>1. coupon \in [used : Nat, cap : Caps, isActive : BOOLEAN, expired : BOOLEAN]
    BY <1>1
  <2>2. couponOrders \in [Buyers -> 0..MaxOrders] /\ payout \in [Payers -> 0..MaxEarned]
    BY PromotionsAssumption DEF PromotionsInit
  <2>3. account \in [earned : 0..MaxEarned, paid : Nat] /\ paidOut \in [ledger : Nat, wallet : Nat]
    BY PromotionsAssumption DEF PromotionsInit
  <2>4. 0 \in 0..MaxEarned
    BY PromotionsAssumption
  <2> QED
    BY <2>1, <2>2, <2>3, <2>4 DEF PromotionsInit, PromotionsTypeOK
<1>3. OneEach
  BY DEF PromotionsInit, OneEach, Buyers
<1>4. Cardinality(OrdersWithCoupon) = 0
  <2>1. OrdersWithCoupon = {}
    BY PromotionsAssumption DEF PromotionsInit, OrdersWithCoupon
  <2> QED
    BY <2>1, FS_EmptySet
<1>5. UsesAreOrders
  BY <1>1, <1>3, <1>4, PromotionsAssumption DEF UsesAreOrders, OneEach
<1>6. BookedBefore /\ OwedIsUnpaid /\ PaidIsEarned
  BY PromotionsAssumption DEF PromotionsInit, BookedBefore, OwedIsUnpaid, PaidIsEarned
<1> QED
  BY <1>2, <1>3, <1>5, <1>6 DEF PromotionsInv

LEMMA PromotionsKeep == PromotionsSpec => []PromotionsInv
<1>1. PromotionsInv /\ [CouponNext \/ AffiliateNext]_promotionVars => PromotionsInv'
  <2> SUFFICES ASSUME PromotionsInv, [CouponNext \/ AffiliateNext]_promotionVars
               PROVE  PromotionsInv'
    OBVIOUS
  <2>1. CASE UNCHANGED promotionVars
    BY <2>1 DEF promotionVars, couponVars, affiliateVars, PromotionsInv, PromotionsTypeOK, OneEach,
       UsesAreOrders, OrdersWithCoupon, BookedBefore, OwedIsUnpaid, PaidIsEarned
  <2> QED
    BY <2>1, CouponKept, AffiliateKept
<1> QED
  BY <1>1, PromotionsStart, PTL DEF PromotionsSpec

\* Types, for any limits, customers and payouts.
THEOREM PromotionsTypeCorrect == PromotionsSpec => []PromotionsTypeOK
<1>1. PromotionsInv => PromotionsTypeOK
  BY DEF PromotionsInv
<1> QED
  BY <1>1, PromotionsKeep, PTL

\* orders.service.ts:329 (V-06, I-9): the uses of a coupon are the orders that have it,
\* whatever staff do to it and however many checkouts it was validated for at once.
THEOREM UsesAreAlwaysOrders == PromotionsSpec => []UsesAreOrders
<1>1. PromotionsInv => UsesAreOrders
  BY DEF PromotionsInv
<1> QED
  BY <1>1, PromotionsKeep, PTL

\* affiliate.service.ts:118: the three records of what was paid agree, and it was earned
\* unless payouts overlapped.
THEOREM PaidIsAlwaysEarned == PromotionsSpec => []PaidIsEarned
<1>1. PromotionsInv => PaidIsEarned
  BY DEF PromotionsInv
<1> QED
  BY <1>1, PromotionsKeep, PTL
-----------------------------------------------------------------------------
\* The permits of a plugin: for any number of them and of queries.

\* Who waits is in the queue once, and was not let in.
WaitersAreApart ==
    /\ waiting \in Seq(Queries)
    /\ \A i, j \in 1..Len(waiting) : waiting[i] = waiting[j] => i = j
    /\ \A i \in 1..Len(waiting) : waiting[i] \notin granted

PermitsInv ==
    /\ inFlight \in 0..Permits
    /\ granted \subseteq Queries /\ IsFiniteSet(granted)
    /\ WaitersAreApart
    /\ PermitsAreCounted

\* Someone new is let in or queues (semaphore.ts:66).
LEMMA AcquireKeeps ==
    ASSUME PermitsInv, NEW q \in Queries, Acquire(q)
    PROVE  PermitsInv'
<1> USE DEF PermitsInv, WaitersAreApart, PermitsAreCounted
<1>1. CASE inFlight < Permits
  <2>1. inFlight' = inFlight + 1 /\ granted' = granted \cup {q} /\ waiting' = waiting
    BY <1>1 DEF Acquire
  <2>2. waiting = <<>> /\ Len(waiting) = 0
    BY <1>1, PermitsAssumption
  <2>3. IsFiniteSet(granted') /\ Cardinality(granted') = Cardinality(granted) + 1
    BY <2>1, FS_AddElement DEF Acquire
  <2> QED
    BY <1>1, <2>1, <2>2, <2>3, PermitsAssumption
<1>2. CASE ~(inFlight < Permits)
  <2>1. inFlight' = inFlight /\ granted' = granted /\ waiting' = Append(waiting, q)
    BY <1>2 DEF Acquire
  <2>2. q \notin granted /\ \A i \in 1..Len(waiting) : waiting[i] # q
    BY DEF Acquire
  <2>3. inFlight = Permits
    BY <1>2, PermitsAssumption
  <2>4. waiting' \in Seq(Queries) /\ Len(waiting') = Len(waiting) + 1 /\ Len(waiting) \in Nat
        /\ waiting'[Len(waiting) + 1] = q /\ \A i \in 1..Len(waiting) : waiting'[i] = waiting[i]
    BY <2>1
  <2>5. WaitersAreApart'
    <3>1. ASSUME NEW i \in 1..Len(waiting'), NEW j \in 1..Len(waiting'), waiting'[i] = waiting'[j]
          PROVE  i = j
      BY <2>2, <2>4, <3>1
    <3>2. \A i \in 1..Len(waiting') : waiting'[i] \notin granted'
      BY <2>1, <2>2, <2>4
    <3> QED
      BY <2>4, <3>1, <3>2
  <2> QED
    BY <2>1, <2>3, <2>5
<1> QED
  BY <1>1, <1>2

\* A waiter gives up, and the ones behind it move up (semaphore.ts:92).
LEMMA TimeOutKeeps ==
    ASSUME PermitsInv, NEW q \in Queries, TimeOut(q)
    PROVE  PermitsInv'
<1> USE DEF PermitsInv, WaitersAreApart, PermitsAreCounted
<1>1. inFlight' = inFlight /\ granted' = granted
  BY DEF TimeOut
<1>2. PICK i \in 1..Len(waiting) :
          waiting' = [j \in 1..(Len(waiting) - 1) |-> waiting[IF j < i THEN j ELSE j + 1]]
  BY DEF TimeOut
<1> DEFINE old(j) == IF j < i THEN j ELSE j + 1
<1>3. Len(waiting) \in Nat /\ Len(waiting) - 1 \in Nat
  OBVIOUS
<1>4. \A j \in 1..(Len(waiting) - 1) : old(j) \in 1..Len(waiting) /\ waiting'[j] = waiting[old(j)]
  BY <1>2, <1>3
<1>5. waiting' \in Seq(Queries) /\ Len(waiting') = Len(waiting) - 1
  <2>1. \A j \in 1..(Len(waiting) - 1) : waiting[old(j)] \in Queries
    BY <1>3, <1>4
  <2> QED
    BY <1>2, <1>3, <2>1
<1>6. ASSUME NEW j \in 1..Len(waiting'), NEW k \in 1..Len(waiting'), waiting'[j] = waiting'[k]
      PROVE  j = k
  <2>1. old(j) \in 1..Len(waiting) /\ old(k) \in 1..Len(waiting)
        /\ waiting[old(j)] = waiting[old(k)]
    <3> HIDE DEF old
    <3> QED
      BY <1>4, <1>5, <1>6
  <2>2. \A m, n \in 1..Len(waiting) : waiting[m] = waiting[n] => m = n
    OBVIOUS
  <2>3. old(j) = old(k)
    <3> HIDE DEF old
    <3> QED
      BY <2>1, <2>2
  <2> QED
    BY <1>3, <1>5, <2>3
<1>7. \A j \in 1..Len(waiting') : waiting'[j] \notin granted'
  BY <1>1, <1>4, <1>5
<1>8. waiting # <<>>
  BY <1>3
<1> QED
  BY <1>1, <1>5, <1>6, <1>7, <1>8

\* A permit comes back, or goes to the one that waits longest (semaphore.ts:107).
LEMMA ReleaseKeeps ==
    ASSUME PermitsInv, NEW q \in Queries, Release(q)
    PROVE  PermitsInv'
<1> USE DEF PermitsInv, WaitersAreApart, PermitsAreCounted
<1>1. q \in granted
  BY DEF Release
<1>2. IsFiniteSet(granted \ {q}) /\ Cardinality(granted \ {q}) = Cardinality(granted) - 1
  BY <1>1, FS_RemoveElement
<1>3. CASE waiting = <<>>
  <2>1. inFlight' = inFlight - 1 /\ granted' = granted \ {q} /\ waiting' = waiting
    BY <1>3 DEF Release
  <2>2. Cardinality(granted \ {q}) \in Nat
    BY <1>2, FS_CardinalityType
  <2> QED
    BY <1>2, <1>3, <2>1, <2>2, PermitsAssumption
<1>4. CASE waiting # <<>>
  <2>1. inFlight' = inFlight /\ granted' = (granted \ {q}) \cup {Head(waiting)} /\ waiting' = Tail(waiting)
    BY <1>4 DEF Release
  <2>2. Len(waiting) \in Nat \ {0} /\ Head(waiting) = waiting[1] /\ Head(waiting) \in Queries
    BY <1>4
  <2>3. Head(waiting) \notin granted
    BY <2>2
  <2>4. IsFiniteSet(granted') /\ Cardinality(granted') = Cardinality(granted \ {q}) + 1
    BY <1>2, <2>1, <2>3, FS_AddElement
  <2>5. waiting' \in Seq(Queries) /\ Len(waiting') = Len(waiting) - 1
        /\ \A j \in 1..Len(waiting') : waiting'[j] = waiting[j + 1]
    BY <1>4, <2>1
  <2>6. ASSUME NEW j \in 1..Len(waiting'), NEW k \in 1..Len(waiting'), waiting'[j] = waiting'[k]
        PROVE  j = k
    BY <2>2, <2>5, <2>6
  <2>7. ASSUME NEW j \in 1..Len(waiting')
        PROVE  waiting'[j] \notin granted'
    <3>1. j + 1 \in 1..Len(waiting) /\ 1 \in 1..Len(waiting) /\ j + 1 # 1
      BY <2>2, <2>5
    <3>2. waiting[j + 1] \notin granted /\ waiting[j + 1] # waiting[1]
      BY <3>1
    <3> QED
      BY <2>1, <2>2, <2>5, <3>2
  <2>8. granted' \subseteq Queries
    BY <2>1, <2>2
  <2>9. inFlight' = Cardinality(granted')
    BY <1>2, <2>1, <2>4
  <2> QED
    BY <1>4, <2>1, <2>4, <2>5, <2>6, <2>7, <2>8, <2>9
<1> QED
  BY <1>3, <1>4

LEMMA PermitsInvHolds == PlatformSpec => []PermitsInv
<1>1. RegistriesInit => PermitsInv
  BY FS_EmptySet, PermitsAssumption
     DEF RegistriesInit, PermitsInv, WaitersAreApart, PermitsAreCounted
<1>2. ASSUME PermitsInv, [RegistriesNext \/ PermitsNext]_platformVars
      PROVE  PermitsInv'
  <2>1. ASSUME UNCHANGED permitVars
        PROVE  PermitsInv'
    BY <1>2, <2>1 DEF permitVars, PermitsInv, WaitersAreApart, PermitsAreCounted
  <2>2. CASE RegistriesNext
    BY <2>1, <2>2 DEF RegistriesNext, RegisterStrategy, RegisterCron, RegisterQueue, UnregisterCron,
       UnregisterQueues, UnregisterStrategies, permitVars
  <2>3. CASE PermitsNext
    BY <1>2, <2>3, AcquireKeeps, TimeOutKeeps, ReleaseKeeps DEF PermitsNext
  <2>4. CASE UNCHANGED platformVars
    BY <2>1, <2>4 DEF platformVars
  <2> QED
    BY <1>2, <2>2, <2>3, <2>4
<1> QED
  BY <1>1, <1>2, PTL DEF PlatformSpec

\* semaphore.ts:9: the permits counted are those of the queries let in, and nobody
\* waits while one is free, for any number of queries that wait, give up and end.
THEOREM PermitsAreAlwaysCounted == PlatformSpec => []PermitsAreCounted
<1>1. PermitsInv => PermitsAreCounted
  BY DEF PermitsInv
<1> QED
  BY <1>1, PermitsInvHolds, PTL
-----------------------------------------------------------------------------
\* Points and what is credited for orders: for any orders, handlers and runs.

BooksTyped == entries \in [RewardRows -> Nat] /\ points \in [People -> Nat]

\* Only what was earned is ever taken back.
ClawedWasEarned ==
    \A o \in Purchases : entries[<<"clawback", o>>] # 0 => entries[<<"earn", o>>] # 0

BookInv == BooksTyped /\ CreditedOnce /\ ClawedWasEarned /\ PointsAreBook

\* Who is about to take points back has seen them earned.
TakersSaw ==
    \A c \in call : c.op = "take" => entries[<<"earn", c.o>>] # 0

\* A run is at a handler of its event.
RunsAreAtHandlers ==
    /\ job \in [1..MaxJobs -> Job \cup {NoJob}]
    /\ \A j \in 1..MaxJobs : job[j] # NoJob => job[j].at <= Len(Handlers(job[j].event))

RewardsInv == RewardsTypeOK /\ RunsAreAtHandlers /\ BookInv /\ TakersSaw

Earned(kind) == {o \in Purchases : entries[<<kind, o>>] # 0}
OrderKinds == {"earn", "clawback", "cashback"}

LEMMA RowsAreReferences ==
    /\ \A kind \in OrderKinds, o \in Purchases : <<kind, o>> \in RewardRows
    /\ \A p \in People : <<"referral", p>> \in RewardRows
    /\ \A r \in RewardRows : \/ \E kind \in OrderKinds, o \in Purchases : r = <<kind, o>>
                             \/ \E p \in People : r = <<"referral", p>>
BY DEF RewardRows, OrderKinds

\* With one row to a reference, the rows of a kind are its orders.
LEMMA RowsAreOrders ==
    ASSUME BooksTyped, CreditedOnce, NEW kind \in OrderKinds
    PROVE  IsFiniteSet(Earned(kind)) /\ Cardinality(RowsOf(kind)) = Cardinality(Earned(kind))
<1>1. IsFiniteSet(Earned(kind))
  BY FS_Subset, RewardsAssumption DEF Earned
<1>2. \A o \in Purchases : entries[<<kind, o>>] \in {0, 1}
  BY RowsAreReferences DEF BooksTyped, CreditedOnce
<1>3. RowsOf(kind) = Earned(kind) \X {1}
  <2>1. \A o \in Purchases : {<<o, n>> : n \in 1..entries[<<kind, o>>]}
                               = IF entries[<<kind, o>>] # 0 THEN {<<o, 1>>} ELSE {}
    <3> SUFFICES ASSUME NEW o \in Purchases
                 PROVE  {<<o, n>> : n \in 1..entries[<<kind, o>>]}
                          = IF entries[<<kind, o>>] # 0 THEN {<<o, 1>>} ELSE {}
      OBVIOUS
    <3>1. CASE entries[<<kind, o>>] = 0
      BY <3>1
    <3>2. CASE entries[<<kind, o>>] = 1
      BY <3>2
    <3> QED
      BY <1>2, <3>1, <3>2
  <2>2. ASSUME NEW x
        PROVE  x \in RowsOf(kind) <=> \E o \in Purchases : entries[<<kind, o>>] # 0 /\ x = <<o, 1>>
    <3>1. x \in RowsOf(kind)
            <=> \E o \in Purchases : x \in {<<o, n>> : n \in 1..entries[<<kind, o>>]}
      BY DEF RowsOf
    <3>2. \A o \in Purchases : x \in {<<o, n>> : n \in 1..entries[<<kind, o>>]}
                                 <=> entries[<<kind, o>>] # 0 /\ x = <<o, 1>>
      BY <2>1
    <3> QED
      BY <3>1, <3>2
  <2>3. ASSUME NEW x
        PROVE  x \in Earned(kind) \X {1}
                 <=> \E o \in Purchases : entries[<<kind, o>>] # 0 /\ x = <<o, 1>>
    <3>1. x \in Earned(kind) \X {1} <=> \E o \in Earned(kind), n \in {1} : x = <<o, n>>
      OBVIOUS
    <3> QED
      BY <3>1 DEF Earned
  <2> QED
    BY <2>2, <2>3
<1>4. Cardinality(Earned(kind)) \in Nat
  BY <1>1, FS_CardinalityType
<1>5. Cardinality(Earned(kind) \X {1}) = Cardinality(Earned(kind)) * Cardinality({1})
  BY <1>1, FS_Product, FS_Singleton
<1> QED
  BY <1>1, <1>3, <1>4, <1>5, FS_Singleton

BookInOrders ==
    /\ Given("customer") = entries[<<"referral", "customer">>]
                             + Cardinality(Earned("earn")) - Cardinality(Earned("clawback"))
    /\ Given("referrer") = 2 * entries[<<"referral", "referrer">>]
    /\ Cardinality(Earned("earn")) \in Nat /\ Cardinality(Earned("clawback")) \in Nat

\* The book of a customer, in orders.
LEMMA PointsInOrders ==
    BooksTyped /\ CreditedOnce => BookInOrders
<1> SUFFICES ASSUME BooksTyped, CreditedOnce PROVE BookInOrders
  OBVIOUS
<1>1. /\ IsFiniteSet(Earned("earn")) /\ IsFiniteSet(Earned("clawback"))
      /\ Cardinality(RowsOf("earn")) = Cardinality(Earned("earn"))
      /\ Cardinality(RowsOf("clawback")) = Cardinality(Earned("clawback"))
  BY RowsAreOrders DEF OrderKinds
<1>2. entries[<<"referral", "customer">>] \in Nat /\ entries[<<"referral", "referrer">>] \in Nat
  BY RowsAreReferences DEF BooksTyped, People
<1>3. Cardinality(Earned("earn")) \in Nat /\ Cardinality(Earned("clawback")) \in Nat
  BY <1>1, FS_CardinalityType
<1> QED
  BY <1>1, <1>2, <1>3 DEF BookInOrders, Given, Bonus

LEMMA PointsStayInOrders == BooksTyped' /\ CreditedOnce' => BookInOrders'
BY PointsInOrders, PTL

\* A row that is entered where there was none.
LEMMA EnteredOnce ==
    ASSUME BooksTyped, CreditedOnce, NEW ref \in RewardRows, entries[ref] = 0,
           entries' = [entries EXCEPT ![ref] = @ + 1]
    PROVE  /\ entries' \in [RewardRows -> Nat] /\ CreditedOnce'
           /\ \A r \in RewardRows : entries'[r] = IF r = ref THEN 1 ELSE entries[r]
<1>1. \A r \in RewardRows : entries'[r] = IF r = ref THEN 1 ELSE entries[r]
  BY DEF BooksTyped
<1>2. entries' \in [RewardRows -> Nat]
  BY DEF BooksTyped
<1> QED
  BY <1>1, <1>2 DEF CreditedOnce

LEMMA BookStays ==
    ASSUME BookInv, UNCHANGED bookVars
    PROVE  BookInv' /\ \A p \in Purchases : entries'[<<"earn", p>>] = entries[<<"earn", p>>]
<1>1. entries' = entries /\ points' = points
  BY DEF bookVars
<1>2. PointsAreBook'
  <2>1. RowsOf("earn")' = RowsOf("earn") /\ RowsOf("clawback")' = RowsOf("clawback")
    BY <1>1 DEF RowsOf
  <2>2. \A p \in People : Given(p)' = Given(p)
    BY <1>1, <2>1 DEF Given, Bonus
  <2> QED
    BY <1>1, <2>2 DEF BookInv, PointsAreBook
<1> QED
  BY <1>1, <1>2 DEF BookInv, BooksTyped, CreditedOnce, ClawedWasEarned

\* Points that move as the rows do.
LEMMA PointsFollow ==
    ASSUME BookInv, BooksTyped', CreditedOnce',
           points'["customer"] - points["customer"]
              = (entries'[<<"referral", "customer">>] - entries[<<"referral", "customer">>])
                + (Cardinality(Earned("earn")') - Cardinality(Earned("earn")))
                - (Cardinality(Earned("clawback")') - Cardinality(Earned("clawback"))),
           points'["referrer"] - points["referrer"]
              = 2 * (entries'[<<"referral", "referrer">>] - entries[<<"referral", "referrer">>])
    PROVE  PointsAreBook'
<1>1. BookInOrders /\ BookInOrders'
  BY PointsInOrders, PointsStayInOrders DEF BookInv
<1>2. /\ points["customer"] = Given("customer") /\ points["referrer"] = Given("referrer")
      /\ points["customer"] \in Nat /\ points["referrer"] \in Nat
      /\ points'["customer"] \in Nat /\ points'["referrer"] \in Nat
  BY DEF BookInv, PointsAreBook, BooksTyped, People
<1>3. \A p \in People : entries[<<"referral", p>>] \in Nat /\ entries'[<<"referral", p>>] \in Nat
  BY RowsAreReferences DEF BookInv, BooksTyped
<1> DEFINE e == Cardinality(Earned("earn")')
           b == Cardinality(Earned("clawback")')
<1>4. /\ Given("customer")' = entries'[<<"referral", "customer">>] + e - b
      /\ Given("referrer")' = 2 * entries'[<<"referral", "referrer">>]
      /\ e \in Nat /\ b \in Nat
  BY <1>1 DEF BookInOrders
<1>5. points'["customer"] = Given("customer")' /\ points'["referrer"] = Given("referrer")'
  <2> HIDE DEF e, b
  <2>1. /\ Given("customer") = entries[<<"referral", "customer">>]
                                 + Cardinality(Earned("earn")) - Cardinality(Earned("clawback"))
        /\ Given("referrer") = 2 * entries[<<"referral", "referrer">>]
        /\ Cardinality(Earned("earn")) \in Nat /\ Cardinality(Earned("clawback")) \in Nat
    BY <1>1 DEF BookInOrders
  <2>2. points'["customer"] - points["customer"]
              = (entries'[<<"referral", "customer">>] - entries[<<"referral", "customer">>])
                + (e - Cardinality(Earned("earn")))
                - (b - Cardinality(Earned("clawback")))
    BY DEF e, b
  <2> QED
    BY <1>2, <1>3, <1>4, <2>1, <2>2 DEF People
<1> QED
  BY <1>5 DEF PointsAreBook, People

\* Orders of the kinds that a row is not of stay.
LEMMA RowEntered ==
    ASSUME BookInv, NEW ref \in RewardRows, entries[ref] = 0,
           entries' = [entries EXCEPT ![ref] = @ + 1]
    PROVE  /\ entries' \in [RewardRows -> Nat] /\ CreditedOnce'
           /\ \A kind \in OrderKinds, p \in Purchases :
                 entries'[<<kind, p>>] = IF <<kind, p>> = ref THEN 1 ELSE entries[<<kind, p>>]
           /\ \A p \in People :
                 entries'[<<"referral", p>>] = IF <<"referral", p>> = ref THEN 1
                                               ELSE entries[<<"referral", p>>]
           /\ \A kind \in OrderKinds :
                 IsFiniteSet(Earned(kind)) /\ Cardinality(Earned(kind)) \in Nat
<1>1. /\ entries' \in [RewardRows -> Nat] /\ CreditedOnce'
      /\ \A r \in RewardRows : entries'[r] = IF r = ref THEN 1 ELSE entries[r]
  BY EnteredOnce DEF BookInv
<1>2. \A kind \in OrderKinds :
         IsFiniteSet(Earned(kind)) /\ Cardinality(Earned(kind)) \in Nat
  BY RowsAreOrders, FS_CardinalityType DEF BookInv
<1> QED
  BY <1>1, <1>2, RowsAreReferences

LEMMA EarnKeeps ==
    ASSUME BookInv, NEW o \in Purchases, EarnPoints(o)
    PROVE  BookInv' /\ \A p \in Purchases : entries[<<"earn", p>>] # 0 => entries'[<<"earn", p>>] # 0
<1> DEFINE ref == <<"earn", o>>
<1>1. CASE entries[ref] = 0
  <2>1. entries' = [entries EXCEPT ![ref] = @ + 1] /\ points' = [points EXCEPT !["customer"] = @ + 1]
    BY <1>1 DEF EarnPoints, Enter
  <2>2. ref \in RewardRows
    BY RowsAreReferences DEF OrderKinds
  <2>3. /\ entries' \in [RewardRows -> Nat] /\ CreditedOnce'
        /\ \A kind \in OrderKinds, p \in Purchases :
              entries'[<<kind, p>>] = IF <<kind, p>> = ref THEN 1 ELSE entries[<<kind, p>>]
        /\ \A p \in People :
              entries'[<<"referral", p>>] = IF <<"referral", p>> = ref THEN 1
                                            ELSE entries[<<"referral", p>>]
        /\ \A kind \in OrderKinds :
              IsFiniteSet(Earned(kind)) /\ Cardinality(Earned(kind)) \in Nat
    <3> HIDE DEF ref
    <3> QED
      BY <1>1, <2>1, <2>2, RowEntered
  <2>4. points' \in [People -> Nat] /\ points'["customer"] = points["customer"] + 1
        /\ points'["referrer"] = points["referrer"] /\ points \in [People -> Nat]
    BY <2>1 DEF BookInv, BooksTyped, People
  <2>5. /\ \A p \in Purchases : entries'[<<"earn", p>>] = IF p = o THEN 1 ELSE entries[<<"earn", p>>]
        /\ \A p \in Purchases : entries'[<<"clawback", p>>] = entries[<<"clawback", p>>]
        /\ \A p \in People : entries'[<<"referral", p>>] = entries[<<"referral", p>>]
    BY <2>3 DEF OrderKinds
  <2>6. Earned("earn")' = Earned("earn") \cup {o} /\ o \notin Earned("earn")
        /\ Earned("clawback")' = Earned("clawback")
    BY <1>1, <2>5 DEF Earned
  <2>7. Cardinality(Earned("earn")') = Cardinality(Earned("earn")) + 1
    BY <2>3, <2>6, FS_AddElement DEF OrderKinds
  <2>8. BooksTyped'
    BY <2>3, <2>4 DEF BooksTyped
  <2>9. \A p \in People : entries[<<"referral", p>>] \in Nat
    BY RowsAreReferences DEF BookInv, BooksTyped
  <2>10. PointsAreBook'
    <3>1. points["customer"] \in Nat /\ points["referrer"] \in Nat
      BY <2>4 DEF People
    <3> QED
      BY <2>3, <2>4, <2>5, <2>6, <2>7, <2>8, <2>9, <3>1, PointsFollow DEF People, OrderKinds
  <2>11. ClawedWasEarned'
    BY <2>5 DEF BookInv, ClawedWasEarned
  <2> QED
    BY <2>3, <2>5, <2>8, <2>10, <2>11 DEF BookInv
<1>2. CASE entries[ref] # 0
  <2>1. UNCHANGED bookVars
    BY <1>2 DEF EarnPoints
  <2> QED
    BY <2>1, BookStays
<1> QED
  BY <1>1, <1>2

LEMMA MinOfOne == \A n \in Nat : n # 0 => Min({1, n}) = 1
BY DEF Min

\* What is taken back was earned and is not yet taken back, so that it is still there
\* (loyalty.service.ts:125).
LEMMA ClawbackKeeps ==
    ASSUME BookInv, NEW o \in Purchases, entries[<<"earn", o>>] # 0, ClawbackPoints(o)
    PROVE  BookInv' /\ \A p \in Purchases : entries'[<<"earn", p>>] = entries[<<"earn", p>>]
<1> DEFINE ref == <<"clawback", o>>
<1>1. CASE entries[ref] = 0
  <2>1. /\ entries' = [entries EXCEPT ![ref] = @ + 1]
        /\ points' = [points EXCEPT !["customer"] = @ + -Min({1, points["customer"]})]
    BY <1>1 DEF ClawbackPoints, Enter
  <2>2. ref \in RewardRows
    BY RowsAreReferences DEF OrderKinds
  <2>3. /\ entries' \in [RewardRows -> Nat] /\ CreditedOnce'
        /\ \A kind \in OrderKinds, p \in Purchases :
              entries'[<<kind, p>>] = IF <<kind, p>> = ref THEN 1 ELSE entries[<<kind, p>>]
        /\ \A p \in People :
              entries'[<<"referral", p>>] = IF <<"referral", p>> = ref THEN 1
                                            ELSE entries[<<"referral", p>>]
        /\ \A kind \in OrderKinds :
              IsFiniteSet(Earned(kind)) /\ Cardinality(Earned(kind)) \in Nat
    <3> HIDE DEF ref
    <3> QED
      BY <1>1, <2>1, <2>2, RowEntered
  <2>4. /\ \A p \in Purchases :
              entries'[<<"clawback", p>>] = IF p = o THEN 1 ELSE entries[<<"clawback", p>>]
        /\ \A p \in Purchases : entries'[<<"earn", p>>] = entries[<<"earn", p>>]
        /\ \A p \in People : entries'[<<"referral", p>>] = entries[<<"referral", p>>]
    BY <2>3 DEF OrderKinds
  <2>5. Earned("clawback")' = Earned("clawback") \cup {o} /\ o \notin Earned("clawback")
        /\ Earned("earn")' = Earned("earn")
    BY <1>1, <2>4 DEF Earned
  <2>6. /\ IsFiniteSet(Earned("clawback")') /\ Cardinality(Earned("clawback")) \in Nat
        /\ Cardinality(Earned("clawback")') = Cardinality(Earned("clawback")) + 1
        /\ IsFiniteSet(Earned("earn")) /\ Cardinality(Earned("earn")) \in Nat
    BY <2>3, <2>5, FS_AddElement DEF OrderKinds
  <2>7. \A p \in People : entries[<<"referral", p>>] \in Nat
    BY RowsAreReferences DEF BookInv, BooksTyped
  <2>8. points["customer"] \in Nat /\ points["customer"] # 0 /\ points["referrer"] \in Nat
    <3>1. Earned("clawback")' \in SUBSET Earned("earn")
      BY <2>5 DEF BookInv, ClawedWasEarned, Earned
    <3>2. Cardinality(Earned("clawback")') <= Cardinality(Earned("earn"))
      <4> HIDE DEF ref
      <4> QED
        BY <2>6, <3>1, FS_Subset
    <3>3. points["customer"] = Given("customer") /\ points["customer"] \in Nat
          /\ points["referrer"] \in Nat
      BY DEF BookInv, PointsAreBook, BooksTyped, People
    <3>4. Given("customer") = entries[<<"referral", "customer">>]
                               + Cardinality(Earned("earn")) - Cardinality(Earned("clawback"))
      BY PointsInOrders DEF BookInv, BookInOrders
    <3> QED
      BY <2>6, <2>7, <3>2, <3>3, <3>4 DEF People
  <2>9. points' \in [People -> Nat] /\ points'["customer"] = points["customer"] - 1
        /\ points'["referrer"] = points["referrer"]
    <3>1. points' = [points EXCEPT !["customer"] = @ + -1]
      BY <2>1, <2>8, MinOfOne
    <3> QED
      BY <2>8, <3>1 DEF BookInv, BooksTyped, People
  <2>10. BooksTyped'
    BY <2>3, <2>9 DEF BooksTyped
  <2>11. PointsAreBook'
    BY <2>3, <2>4, <2>5, <2>6, <2>7, <2>8, <2>9, <2>10, PointsFollow DEF People
  <2>12. ClawedWasEarned'
    BY <2>4 DEF BookInv, ClawedWasEarned
  <2> QED
    BY <2>3, <2>4, <2>10, <2>11, <2>12 DEF BookInv
<1>2. CASE entries[ref] # 0
  <2>1. UNCHANGED bookVars
    BY <1>2 DEF ClawbackPoints
  <2> QED
    BY <2>1, BookStays
<1> QED
  BY <1>1, <1>2

\* The bonus of either side (loyalty.service.ts:162).
LEMMA BonusKeeps ==
    ASSUME BookInv, NEW to \in People, AddBonus(to)
    PROVE  BookInv' /\ \A p \in Purchases : entries'[<<"earn", p>>] = entries[<<"earn", p>>]
<1> DEFINE ref == <<"referral", to>>
<1>1. CASE entries[ref] = 0
  <2>1. /\ entries' = [entries EXCEPT ![ref] = @ + 1]
        /\ points' = [points EXCEPT ![to] = @ + Bonus(to)]
    BY <1>1 DEF AddBonus, Enter
  <2>2. ref \in RewardRows
    BY RowsAreReferences
  <2>3. /\ entries' \in [RewardRows -> Nat] /\ CreditedOnce'
        /\ \A kind \in OrderKinds, p \in Purchases :
              entries'[<<kind, p>>] = IF <<kind, p>> = ref THEN 1 ELSE entries[<<kind, p>>]
        /\ \A p \in People :
              entries'[<<"referral", p>>] = IF <<"referral", p>> = ref THEN 1
                                            ELSE entries[<<"referral", p>>]
        /\ \A kind \in OrderKinds :
              IsFiniteSet(Earned(kind)) /\ Cardinality(Earned(kind)) \in Nat
    <3> HIDE DEF ref
    <3> QED
      BY <1>1, <2>1, <2>2, RowEntered
  <2>4. /\ \A kind \in OrderKinds, p \in Purchases : entries'[<<kind, p>>] = entries[<<kind, p>>]
        /\ \A p \in People :
              entries'[<<"referral", p>>] = IF p = to THEN 1 ELSE entries[<<"referral", p>>]
    BY <2>3 DEF OrderKinds
  <2>5. Earned("clawback")' = Earned("clawback") /\ Earned("earn")' = Earned("earn")
    BY <2>4 DEF Earned, OrderKinds
  <2>6. \A p \in People : entries[<<"referral", p>>] \in Nat /\ points[p] \in Nat
    BY RowsAreReferences DEF BookInv, BooksTyped
  <2>7. points' \in [People -> Nat]
        /\ \A p \in People : points'[p] = IF p = to THEN points[p] + Bonus(to) ELSE points[p]
    BY <2>1 DEF BookInv, BooksTyped, Bonus
  <2>8. BooksTyped'
    BY <2>3, <2>7 DEF BooksTyped
  <2>9. PointsAreBook'
    <3>1. /\ points'["customer"] - points["customer"]
               = entries'[<<"referral", "customer">>] - entries[<<"referral", "customer">>]
          /\ points'["referrer"] - points["referrer"]
               = 2 * (entries'[<<"referral", "referrer">>] - entries[<<"referral", "referrer">>])
      <4>1. CASE to = "customer"
        BY <1>1, <2>4, <2>6, <2>7, <4>1 DEF Bonus, People
      <4>2. CASE to = "referrer"
        BY <1>1, <2>4, <2>6, <2>7, <4>2 DEF Bonus, People
      <4> QED
        BY <4>1, <4>2 DEF People
    <3> QED
      BY <2>3, <2>4, <2>5, <2>6, <2>8, <3>1, PointsFollow DEF People, OrderKinds
  <2>10. ClawedWasEarned'
    BY <2>4 DEF BookInv, ClawedWasEarned, OrderKinds
  <2> QED
    BY <2>3, <2>4, <2>8, <2>9, <2>10 DEF BookInv, OrderKinds
<1>2. CASE entries[ref] # 0
  <2>1. UNCHANGED bookVars
    BY <1>2 DEF AddBonus
  <2> QED
    BY <2>1, BookStays
<1> QED
  BY <1>1, <1>2

\* Cashback, which is no points (order-cashback.subscriber.ts:52).
LEMMA CashbackKeeps ==
    ASSUME BookInv, NEW o \in Purchases, CreditCashback(o)
    PROVE  BookInv' /\ \A p \in Purchases : entries'[<<"earn", p>>] = entries[<<"earn", p>>]
<1> DEFINE ref == <<"cashback", o>>
<1>1. ref \in RewardRows /\ points' = points
  BY RowsAreReferences DEF OrderKinds, CreditCashback
<1>2. CASE entries[ref] = 0
  <2>1. entries' = [entries EXCEPT ![ref] = @ + 1]
    BY <1>2 DEF CreditCashback
  <2>2. /\ entries' \in [RewardRows -> Nat] /\ CreditedOnce'
        /\ \A kind \in OrderKinds, p \in Purchases :
              entries'[<<kind, p>>] = IF <<kind, p>> = ref THEN 1 ELSE entries[<<kind, p>>]
        /\ \A p \in People :
              entries'[<<"referral", p>>] = IF <<"referral", p>> = ref THEN 1
                                            ELSE entries[<<"referral", p>>]
        /\ \A kind \in OrderKinds :
              IsFiniteSet(Earned(kind)) /\ Cardinality(Earned(kind)) \in Nat
    <3> HIDE DEF ref
    <3> QED
      BY <1>1, <1>2, <2>1, RowEntered
  <2>3. /\ \A p \in Purchases : entries'[<<"earn", p>>] = entries[<<"earn", p>>]
        /\ \A p \in Purchases : entries'[<<"clawback", p>>] = entries[<<"clawback", p>>]
        /\ \A p \in People : entries'[<<"referral", p>>] = entries[<<"referral", p>>]
    BY <2>2 DEF OrderKinds
  <2>4. Earned("clawback")' = Earned("clawback") /\ Earned("earn")' = Earned("earn")
    BY <2>3 DEF Earned
  <2>5. \A p \in People : entries[<<"referral", p>>] \in Nat /\ points[p] \in Nat
    BY RowsAreReferences DEF BookInv, BooksTyped
  <2>6. BooksTyped'
    BY <1>1, <2>2 DEF BookInv, BooksTyped
  <2>7. PointsAreBook'
    BY <1>1, <2>2, <2>3, <2>4, <2>5, <2>6, PointsFollow DEF People, OrderKinds
  <2>8. ClawedWasEarned'
    BY <2>3 DEF BookInv, ClawedWasEarned
  <2> QED
    BY <2>2, <2>3, <2>6, <2>7, <2>8 DEF BookInv
<1>3. CASE entries[ref] # 0
  <2>1. entries[ref] \in Nat
    BY <1>1 DEF BookInv, BooksTyped
  <2>2. UNCHANGED bookVars
    BY <1>1, <1>3, <2>1 DEF CreditCashback, bookVars
  <2> QED
    BY <2>2, BookStays
<1> QED
  BY <1>2, <1>3

\* Orders, their events and the mail.
OrdersTyped ==
    /\ purchase \in [Purchases -> {"NONE", "PLACED", "DELIVERED", "REFUNDED"}]
    /\ outbox \subseteq Events \X Purchases
    /\ mailed \subseteq Purchases
    /\ updates \in 0..MaxUpdates
    /\ losses \in 0..MaxLosses
CallsKnow == call \subseteq Call /\ TakersSaw

LEMMA RewardsInvIs == RewardsInv <=> OrdersTyped /\ CallsKnow /\ RunsAreAtHandlers /\ BookInv
BY DEF RewardsInv, RewardsTypeOK, OrdersTyped, CallsKnow, RunsAreAtHandlers, BookInv, BooksTyped

LEMMA HandlersOfEvents ==
    ASSUME NEW event \in Events
    PROVE  /\ Handlers(event)
                \in Seq({"kernel.loyalty", "kernel.wallet", "kernel.email", "kernel.abandoned-cart"})
           /\ Len(Handlers(event)) \in 1..Len(PlacedHandlers)
<1>1. Len(PlacedHandlers) \in Nat \ {0}
  BY RewardsAssumption
<1>2. CASE event = "order.placed"
  BY <1>1, <1>2, RewardsAssumption DEF Handlers
<1>3. CASE event = "order.delivered"
  <2>1. Handlers(event) = <<"kernel.loyalty">>
    BY <1>3 DEF Handlers
  <2> QED
    BY <1>1, <2>1
<1> QED
  BY <1>2, <1>3 DEF Events

LEMMA RunIsTyped ==
    ASSUME RunsAreAtHandlers, NEW j \in 1..MaxJobs, job[j] # NoJob
    PROVE  /\ job[j] \in Job /\ job[j].o \in Purchases /\ job[j].event \in Events
           /\ job[j].at \in 1..Len(Handlers(job[j].event))
           /\ Present(j) \in {"kernel.loyalty", "kernel.wallet", "kernel.email", "kernel.abandoned-cart"}
<1>1. job[j] \in Job
  BY DEF RunsAreAtHandlers
<1>2. job[j].o \in Purchases /\ job[j].event \in Events /\ job[j].at \in 1..Len(PlacedHandlers)
  BY <1>1 DEF Job
<1>3. job[j].at <= Len(Handlers(job[j].event))
  BY DEF RunsAreAtHandlers
<1>4. job[j].at \in 1..Len(Handlers(job[j].event))
  BY <1>2, <1>3, HandlersOfEvents
<1> QED
  BY <1>1, <1>2, <1>4, HandlersOfEvents DEF Present

\* A run that starts, goes on, starts again or ends.
IsRun(v) == v = NoJob \/ (v \in Job /\ v.at <= Len(Handlers(v.event)))

LEMMA RunsSet ==
    ASSUME RunsAreAtHandlers, NEW j \in 1..MaxJobs, NEW v, IsRun(v), job' = [job EXCEPT ![j] = v]
    PROVE  RunsAreAtHandlers'
<1>1. \A k \in 1..MaxJobs : job'[k] = IF k = j THEN v ELSE job[k]
  BY DEF RunsAreAtHandlers
<1>2. job' \in [1..MaxJobs -> Job \cup {NoJob}]
  BY DEF RunsAreAtHandlers, IsRun
<1> QED
  BY <1>1, <1>2 DEF RunsAreAtHandlers, IsRun

LEMMA RunsGoOn ==
    ASSUME RunsAreAtHandlers, NEW j \in 1..MaxJobs, job[j] # NoJob,
           \/ NextHandler(j)
           \/ RetryJob(j)
           \/ job' = [job EXCEPT ![j] = IF job[j].queued THEN [job[j] EXCEPT !.at = 1] ELSE NoJob]
    PROVE  RunsAreAtHandlers'
<1>1. job[j] \in Job /\ job[j].event \in Events /\ job[j].at \in 1..Len(Handlers(job[j].event))
  BY RunIsTyped
<1>2. Len(Handlers(job[j].event)) \in 1..Len(PlacedHandlers) /\ Len(PlacedHandlers) \in Nat
  BY <1>1, HandlersOfEvents, RewardsAssumption
<1>3. CASE NextHandler(j)
  <2> DEFINE v == IF job[j].at = Len(Handlers(job[j].event)) THEN NoJob ELSE [job[j] EXCEPT !.at = @ + 1]
  <2>1. job' = [job EXCEPT ![j] = v]
    BY <1>3 DEF NextHandler
  <2>2. IsRun(v)
    BY <1>1, <1>2 DEF IsRun, Job
  <2> HIDE DEF v
  <2> QED
    BY <2>1, <2>2, RunsSet
<1>4. CASE RetryJob(j)
  <2> DEFINE v == IF job[j].left = 1 THEN NoJob ELSE [job[j] EXCEPT !.at = 1, !.left = @ - 1]
  <2>1. job' = [job EXCEPT ![j] = v]
    BY <1>4 DEF RetryJob
  <2>2. IsRun(v)
    <3>1. job[j].left \in 1..Attempts /\ Attempts \in Nat
      BY <1>1, RewardsAssumption DEF Job
    <3>2. CASE job[j].left # 1
      <4>1. job[j].left - 1 \in 1..Attempts /\ 1 \in 1..Len(PlacedHandlers)
        BY <1>2, <3>1, <3>2
      <4>2. v = [job[j] EXCEPT !.at = 1, !.left = @ - 1]
        BY <3>2
      <4>3. v = [event |-> job[j].event, o |-> job[j].o, at |-> 1, left |-> job[j].left - 1,
                 queued |-> job[j].queued]
        BY <1>1, <4>2 DEF Job
      <4> QED
        BY <1>1, <1>2, <4>1, <4>3 DEF IsRun, Job
    <3> QED
      BY <3>2 DEF IsRun
  <2> HIDE DEF v
  <2> QED
    BY <2>1, <2>2, RunsSet
<1>5. CASE job' = [job EXCEPT ![j] = IF job[j].queued THEN [job[j] EXCEPT !.at = 1] ELSE NoJob]
  <2> DEFINE v == IF job[j].queued THEN [job[j] EXCEPT !.at = 1] ELSE NoJob
  <2>1. IsRun(v)
    BY <1>1, <1>2 DEF IsRun, Job
  <2>2. job' = [job EXCEPT ![j] = v]
    BY <1>5
  <2> HIDE DEF v
  <2> QED
    BY <2>1, <2>2, RunsSet
<1> QED
  BY <1>3, <1>4, <1>5

LEMMA NewRunIsRun ==
    \A e \in Events \X Purchases, queued \in BOOLEAN : IsRun(NewRun(e, queued))
<1> SUFFICES ASSUME NEW event \in Events, NEW o \in Purchases, NEW queued \in BOOLEAN
             PROVE  IsRun(NewRun(<<event, o>>, queued))
  OBVIOUS
<1>1. Len(Handlers(event)) \in 1..Len(PlacedHandlers) /\ Len(PlacedHandlers) \in Nat
  BY HandlersOfEvents, RewardsAssumption
<1> QED
  BY <1>1, RewardsAssumption DEF IsRun, NewRun, Job

\* An event is given to the queue, to the publisher's own run, or to both.
LEMMA PublishKeeps ==
    ASSUME RewardsInv, NEW e \in outbox, Publish(e)
    PROVE  RewardsInv'
<1>1. OrdersTyped /\ CallsKnow /\ RunsAreAtHandlers /\ BookInv
  BY RewardsInvIs
<1>2. /\ outbox' = outbox \ {e} /\ UNCHANGED <<purchase, effectVars, call, updates, losses>>
      /\ e \in Events \X Purchases
  BY <1>1 DEF Publish, OrdersTyped
<1>3. RunsAreAtHandlers'
  <2> DEFINE free == {k \in 1..MaxJobs : job[k] = NoJob}
             i == Min(free)
  <2>1. \/ \E queued \in BOOLEAN : job' = [job EXCEPT ![i] = NewRun(e, queued)]
        \/ \E j \in {Min(free \ {i}) : f \in free \ {i}} :
              job' = [job EXCEPT ![i] = NewRun(e, TRUE), ![j] = NewRun(e, FALSE)]
    BY DEF Publish
  <2>2. \A k, j : [job EXCEPT ![k] = NewRun(e, TRUE), ![j] = NewRun(e, FALSE)]
                    \in [1..MaxJobs -> Job \cup {NoJob}]
    BY <1>1, <1>2, NewRunIsRun DEF RunsAreAtHandlers, IsRun
  <2> HIDE DEF free, i
  <2>3. ASSUME NEW queued \in BOOLEAN, job' = [job EXCEPT ![i] = NewRun(e, queued)]
        PROVE  RunsAreAtHandlers'
    <3>1. IsRun(NewRun(e, queued))
      BY <1>2, NewRunIsRun
    <3>2. \A k \in 1..MaxJobs : job'[k] = job[k] \/ job'[k] = NewRun(e, queued)
      BY <1>1, <2>3 DEF RunsAreAtHandlers
    <3>3. job' \in [1..MaxJobs -> Job \cup {NoJob}]
      BY <1>1, <2>3, <3>1 DEF RunsAreAtHandlers, IsRun
    <3> QED
      BY <1>1, <3>1, <3>2, <3>3 DEF RunsAreAtHandlers, IsRun
  <2>4. ASSUME NEW j, job' = [job EXCEPT ![i] = NewRun(e, TRUE), ![j] = NewRun(e, FALSE)]
        PROVE  RunsAreAtHandlers'
    <3>1. IsRun(NewRun(e, TRUE)) /\ IsRun(NewRun(e, FALSE))
      BY <1>2, NewRunIsRun
    <3>2. \A k \in 1..MaxJobs :
             job'[k] = job[k] \/ job'[k] = NewRun(e, TRUE) \/ job'[k] = NewRun(e, FALSE)
      BY <1>1, <2>4 DEF RunsAreAtHandlers
    <3> QED
      BY <1>1, <2>2, <2>4, <3>1, <3>2 DEF RunsAreAtHandlers, IsRun
  <2> QED
    BY <2>1, <2>3, <2>4
<1>4. OrdersTyped'
  BY <1>1, <1>2 DEF OrdersTyped, effectVars
<1>5. BookInv' /\ CallsKnow'
  BY <1>1, <1>2, BookStays DEF effectVars, bookVars, CallsKnow, TakersSaw
<1> QED
  BY <1>3, <1>4, <1>5, RewardsInvIs, PTL

\* A handler runs, fails, or its process does.
LEMMA HandlersKeep ==
    ASSUME RewardsInv, NEW j \in 1..MaxJobs,
           RunHandler(j) \/ HandlerSwallows(j) \/ HandlerThrows(j) \/ LoseWorker(j)
    PROVE  RewardsInv'
<1>1. OrdersTyped /\ CallsKnow /\ RunsAreAtHandlers /\ BookInv
  BY RewardsInvIs
<1>2. CASE RunHandler(j)
  <2>1. /\ job[j] # NoJob /\ Effect(Present(j), job[j].o) /\ NextHandler(j)
        /\ UNCHANGED <<purchase, outbox, call, updates, losses>>
    BY <1>2 DEF RunHandler
  <2>2. job[j].o \in Purchases
        /\ Present(j) \in {"kernel.loyalty", "kernel.wallet", "kernel.email", "kernel.abandoned-cart"}
    BY <1>1, <2>1, RunIsTyped
  <2>3. RunsAreAtHandlers'
    BY <1>1, <2>1, RunsGoOn
  <2>4. BookInv' /\ mailed' \subseteq Purchases
        /\ \A p \in Purchases : entries[<<"earn", p>>] # 0 => entries'[<<"earn", p>>] # 0
    <3>1. CASE Present(j) = "kernel.loyalty"
      BY <1>1, <2>1, <2>2, <3>1, EarnKeeps DEF Effect, OrdersTyped
    <3>2. CASE Present(j) = "kernel.wallet"
      BY <1>1, <2>1, <2>2, <3>2, CashbackKeeps DEF Effect, OrdersTyped
    <3>3. CASE Present(j) = "kernel.email"
      BY <1>1, <2>1, <2>2, <3>3, BookStays DEF Effect, OrdersTyped
    <3>4. CASE Present(j) = "kernel.abandoned-cart"
      BY <1>1, <2>1, <2>2, <3>4, BookStays DEF Effect, effectVars, OrdersTyped
    <3> QED
      BY <2>2, <3>1, <3>2, <3>3, <3>4
  <2>5. OrdersTyped'
    BY <1>1, <2>1, <2>4 DEF OrdersTyped
  <2>6. CallsKnow'
    BY <1>1, <2>1, <2>4 DEF CallsKnow, TakersSaw, Call
  <2> QED
    BY <2>3, <2>4, <2>5, <2>6, RewardsInvIs, PTL
<1>3. CASE HandlerSwallows(j) \/ HandlerThrows(j) \/ LoseWorker(j)
  <2>1. /\ job[j] # NoJob /\ Lose
        /\ UNCHANGED <<purchase, outbox, effectVars, call, updates>>
    BY <1>3 DEF HandlerSwallows, HandlerThrows, LoseWorker
  <2>2. RunsAreAtHandlers'
    BY <1>1, <1>3, RunsGoOn DEF HandlerSwallows, HandlerThrows, LoseWorker
  <2>3. OrdersTyped'
    BY <1>1, <2>1, RewardsAssumption DEF OrdersTyped, Lose, effectVars
  <2>4. BookInv' /\ CallsKnow'
    BY <1>1, <2>1, BookStays DEF effectVars, bookVars, CallsKnow, TakersSaw
  <2> QED
    BY <2>2, <2>3, <2>4, RewardsInvIs, PTL
<1> QED
  BY <1>2, <1>3

\* Orders are placed and updated, and events are lost.
LEMMA OrdersKeep ==
    ASSUME RewardsInv,
           \/ \E o \in Purchases :
                 PlaceOrder(o) \/ \E s \in {"DELIVERED", "REFUNDED"} : UpdateOrderStatus(o, s)
           \/ \E e \in outbox : LoseEvent(e)
           \/ UNCHANGED rewardVars
    PROVE  RewardsInv'
<1>1. OrdersTyped /\ CallsKnow /\ RunsAreAtHandlers /\ BookInv
  BY RewardsInvIs
<1>2. UNCHANGED <<job, bookVars>> /\ mailed' = mailed
  BY DEF PlaceOrder, UpdateOrderStatus, LoseEvent, rewardVars, effectVars, bookVars
<1>3. RunsAreAtHandlers' /\ BookInv'
  BY <1>1, <1>2, BookStays DEF RunsAreAtHandlers
<1>4. OrdersTyped'
  <2>1. ASSUME NEW o \in Purchases, PlaceOrder(o)
        PROVE  OrdersTyped'
    BY <1>1, <1>2, <2>1 DEF OrdersTyped, PlaceOrder, Events
  <2>2. ASSUME NEW o \in Purchases, NEW s \in {"DELIVERED", "REFUNDED"}, UpdateOrderStatus(o, s)
        PROVE  OrdersTyped'
    <3>1. purchase' \in [Purchases -> {"NONE", "PLACED", "DELIVERED", "REFUNDED"}]
          /\ updates' \in 0..MaxUpdates /\ losses' = losses
      BY <1>1, <2>2, RewardsAssumption DEF OrdersTyped, UpdateOrderStatus
    <3>2. outbox' \subseteq Events \X Purchases
      BY <1>1, <2>2 DEF OrdersTyped, UpdateOrderStatus, Events
    <3> QED
      BY <1>1, <1>2, <3>1, <3>2 DEF OrdersTyped
  <2>3. ASSUME NEW e \in outbox, LoseEvent(e)
        PROVE  OrdersTyped'
    BY <1>1, <1>2, <2>3, RewardsAssumption DEF OrdersTyped, LoseEvent, Lose
  <2>4. CASE UNCHANGED rewardVars
    BY <1>1, <2>4 DEF OrdersTyped, rewardVars
  <2> QED
    BY <2>1, <2>2, <2>3, <2>4
<1>5. CallsKnow'
  <2>1. entries' = entries
    BY <1>2 DEF bookVars
  <2>2. ASSUME call' = call PROVE CallsKnow'
    BY <1>1, <2>1, <2>2 DEF CallsKnow, TakersSaw
  <2>3. ASSUME NEW o \in Purchases, NEW s \in {"DELIVERED", "REFUNDED"}, UpdateOrderStatus(o, s)
        PROVE  CallsKnow'
    <3>1. \/ call' = call \cup {[op |-> "credit"]}
          \/ call' = call \cup {[op |-> "clawback", o |-> o]}
      BY <2>3 DEF UpdateOrderStatus
    <3>2. [op |-> "credit"] \in Call /\ [op |-> "clawback", o |-> o] \in Call
      BY DEF Call
    <3> QED
      BY <1>1, <2>1, <3>1, <3>2 DEF CallsKnow, TakersSaw
  <2> QED
    BY <2>2, <2>3 DEF PlaceOrder, LoseEvent, rewardVars
<1> QED
  BY <1>3, <1>4, <1>5, RewardsInvIs, PTL

\* The calls that nobody waits for.
LEMMA CallsKeep ==
    ASSUME RewardsInv, NEW c \in call,
           CreditOnFirstDelivery(c) \/ PayBonus(c) \/ FindEarned(c) \/ TakeBack(c) \/ CallFails(c)
    PROVE  RewardsInv'
<1>1. OrdersTyped /\ CallsKnow /\ RunsAreAtHandlers /\ BookInv
  BY RewardsInvIs
<1>2. UNCHANGED <<purchase, outbox, job, mailed, updates>>
  BY DEF CreditOnFirstDelivery, PayBonus, FindEarned, TakeBack, CallFails, effectVars
<1>3. losses' \in 0..MaxLosses
  BY <1>1, RewardsAssumption
     DEF CreditOnFirstDelivery, PayBonus, FindEarned, TakeBack, CallFails, Lose, OrdersTyped
<1>4. OrdersTyped' /\ RunsAreAtHandlers'
  BY <1>1, <1>2, <1>3 DEF OrdersTyped, RunsAreAtHandlers
<1>5. c \in Call
  BY <1>1 DEF CallsKnow
<1>6. BookInv' /\ \A p \in Purchases : entries[<<"earn", p>>] # 0 => entries'[<<"earn", p>>] # 0
  <2>1. CASE PayBonus(c)
    <3>1. c.to \in People /\ AddBonus(c.to)
      BY <1>5, <2>1 DEF PayBonus, Call
    <3> QED
      BY <1>1, <3>1, BonusKeeps
  <2>2. CASE TakeBack(c)
    <3>1. c.o \in Purchases /\ ClawbackPoints(c.o) /\ entries[<<"earn", c.o>>] # 0
      BY <1>1, <1>5, <2>2 DEF TakeBack, Call, CallsKnow, TakersSaw
    <3> QED
      BY <1>1, <3>1, ClawbackKeeps
  <2>3. CASE CreditOnFirstDelivery(c) \/ FindEarned(c) \/ CallFails(c)
    <3>1. UNCHANGED bookVars
      BY <2>3 DEF CreditOnFirstDelivery, FindEarned, CallFails, effectVars
    <3> QED
      BY <1>1, <3>1, BookStays
  <2> QED
    BY <2>1, <2>2, <2>3
<1>7. CallsKnow'
  <2> DEFINE Known == {d \in Call : d.op = "take" => entries[<<"earn", d.o>>] # 0 /\ d.o \in Purchases}
  <2>1. call' \subseteq call \cup Known
    <3>1. CASE CreditOnFirstDelivery(c)
      <4>1. \A p \in People : [op |-> "bonus", to |-> p] \in Known
        BY DEF Call
      <4>2. {[op |-> "bonus", to |-> p] : p \in People} \subseteq Known
        <5> HIDE DEF Known
        <5> QED
          BY <4>1
      <4> HIDE DEF Known
      <4> QED
        BY <3>1, <4>2 DEF CreditOnFirstDelivery, Proceed
    <3>2. CASE FindEarned(c)
      <4>1. c.o \in Purchases
        BY <1>5, <3>2 DEF FindEarned, Call
      <4>2. entries[<<"earn", c.o>>] \in Nat
        BY <1>1, <4>1, RowsAreReferences DEF BookInv, BooksTyped, OrderKinds
      <4>3. entries[<<"earn", c.o>>] > 0 => [op |-> "take", o |-> c.o] \in Known
        BY <4>1, <4>2 DEF Call
      <4> HIDE DEF Known
      <4> QED
        BY <3>2, <4>3 DEF FindEarned, Proceed
    <3>3. CASE PayBonus(c) \/ TakeBack(c) \/ CallFails(c)
      BY <3>3 DEF PayBonus, TakeBack, CallFails, Proceed
    <3> QED
      BY <3>1, <3>2, <3>3
  <2>2. call \subseteq Known
    BY <1>1 DEF CallsKnow, TakersSaw, Call
  <2> QED
    BY <1>6, <2>1, <2>2 DEF CallsKnow, TakersSaw
<1> QED
  BY <1>4, <1>6, <1>7, RewardsInvIs, PTL

LEMMA RewardsKeep == RewardsSpec => []RewardsInv
<1>1. RewardsInit => RewardsInv
  <2> SUFFICES ASSUME RewardsInit PROVE RewardsInv
    OBVIOUS
  <2>1. OrdersTyped /\ CallsKnow
    BY RewardsAssumption DEF RewardsInit, OrdersTyped, CallsKnow, TakersSaw
  <2>2. RunsAreAtHandlers
    BY DEF RewardsInit, RunsAreAtHandlers
  <2>3. BooksTyped /\ CreditedOnce /\ ClawedWasEarned
    BY RowsAreReferences
       DEF RewardsInit, BooksTyped, CreditedOnce, ClawedWasEarned, OrderKinds
  <2>4. PointsAreBook
    <3>1. Earned("earn") = {} /\ Earned("clawback") = {}
      BY RowsAreReferences DEF RewardsInit, Earned, OrderKinds
    <3>2. \A p \in People : entries[<<"referral", p>>] = 0 /\ points[p] = 0
      BY RowsAreReferences DEF RewardsInit
    <3>3. Cardinality({}) = 0
      BY FS_EmptySet
    <3>4. BookInOrders
      BY <2>3, PointsInOrders
    <3>5. Cardinality(Earned("earn")) = 0 /\ Cardinality(Earned("clawback")) = 0
      BY <3>1, <3>3
    <3>6. entries[<<"referral", "customer">>] = 0 /\ entries[<<"referral", "referrer">>] = 0
      BY <3>2 DEF People
    <3>7. Given("customer") = 0 + 0 - 0 /\ Given("referrer") = 2 * 0
      BY <3>4, <3>5, <3>6 DEF BookInOrders
    <3> QED
      BY <3>2, <3>7 DEF PointsAreBook, People
  <2> QED
    BY <2>1, <2>2, <2>3, <2>4, RewardsInvIs DEF BookInv
<1>2. RewardsInv /\ [RewardsNext]_rewardVars => RewardsInv'
  BY PublishKeeps, HandlersKeep, OrdersKeep, CallsKeep DEF RewardsNext
<1> QED
  BY <1>1, <1>2, PTL DEF RewardsSpec

\* Types, for any orders, handlers and attempts.
THEOREM RewardsTypeCorrect == RewardsSpec => []RewardsTypeOK
<1>1. RewardsInv => RewardsTypeOK
  BY DEF RewardsInv
<1> QED
  BY <1>1, RewardsKeep, PTL

\* order-cashback.subscriber.ts:22 (I-12), loyalty.service.ts:40: whatever is handled
\* again, by the queue, by the publisher or after a crash, is credited once.
THEOREM CreditsAreNeverRepeated == RewardsSpec => []CreditedOnce
<1>1. RewardsInv => CreditedOnce
  BY DEF RewardsInv, BookInv
<1> QED
  BY <1>1, RewardsKeep, PTL

\* loyalty.service.ts:44: the points of a customer are the sum of the rows that
\* explain them; no clawback is cut short.
THEOREM PointsAreAlwaysBook == RewardsSpec => []PointsAreBook
<1>1. RewardsInv => PointsAreBook
  BY DEF RewardsInv, BookInv
<1> QED
  BY <1>1, RewardsKeep, PTL
-----------------------------------------------------------------------------
\* The page behind the cache: for any number of pods and readers, any time to live.

EntryType == [kind : {"entry"}, version : RowVersions, left : 1..PageTtl]
QueryType == [kind : {"query"}, age : 0..MaxLoad]
RowType == [kind : {"row"}, version : RowVersions, age : 0..MaxLoad]

\* Which is which.
LEMMA KindsDiffer ==
    /\ Absent.kind = "none"
    /\ \A e \in EntryType : e # Absent /\ e.version \in RowVersions /\ e.left \in 1..PageTtl
    /\ \A f \in QueryType : f # Absent /\ f.kind = "query" /\ f.age \in 0..MaxLoad
    /\ \A f \in RowType : f # Absent /\ f.kind = "row" /\ f.age \in 0..MaxLoad /\ f.version \in RowVersions
BY DEF Absent, EntryType, QueryType, RowType

\* Parts of the invariant by what they speak of.
VersionsTyped ==
    /\ version \in RowVersions /\ dropping \in 0..version /\ worst \in 0..WorstAge
    /\ outdated \in [RowVersions -> 0..WorstAge]
    /\ \A n \in RowVersions : n >= version => outdated[n] = 0
EntryIsYoung ==
    entry # Absent => /\ entry \in EntryType /\ entry.version <= version
                      /\ outdated[entry.version] + entry.left <= PageTtl + MaxLoad
IsYoung(f) ==
    f \in RowType => f.version <= version /\ outdated[f.version] <= f.age
FlightsAreYoung ==
    /\ flight \in [CachePods -> {Absent} \cup QueryType \cup RowType]
    /\ \A p \in CachePods : IsYoung(flight[p])
ReadersTyped == reader \in [Readers -> CachePods \cup {"idle"}]

\* A row in a flight is as old as the flight at most, and an entry was stored by one.
CacheInv ==
    /\ VersionsTyped /\ EntryIsYoung /\ FlightsAreYoung
    /\ ReadersTyped /\ StaleIsBounded /\ WaitersHaveAFlight

LEMMA CacheStarts == ReadThroughInit => CacheInv
BY ReadThroughAssumption, KindsDiffer
   DEF ReadThroughInit, CacheInv, VersionsTyped, EntryIsYoung, FlightsAreYoung, ReadersTyped, IsYoung,
       StaleIsBounded, WaitersHaveAFlight, RowVersions, WorstAge

\* Everyone who waited for a flight is answered, and it is over.
LEMMA AnswersKeep ==
    ASSUME FlightsAreYoung, ReadersTyped, WaitersHaveAFlight, NEW p \in CachePods, AnswerWaiters(p),
           UNCHANGED <<version, outdated>>
    PROVE  FlightsAreYoung' /\ ReadersTyped' /\ WaitersHaveAFlight'
<1>1. \A q \in CachePods : flight'[q] = IF q = p THEN Absent ELSE flight[q]
  BY DEF AnswerWaiters, FlightsAreYoung
<1>2. flight' \in [CachePods -> {Absent} \cup QueryType \cup RowType]
  BY DEF AnswerWaiters, FlightsAreYoung
<1>3. FlightsAreYoung'
  BY <1>1, <1>2, KindsDiffer DEF FlightsAreYoung, IsYoung
<1>4. \A r \in Readers : reader'[r] = IF reader[r] = p THEN "idle" ELSE reader[r]
  BY DEF AnswerWaiters
<1>5. ReadersTyped'
  BY DEF AnswerWaiters, ReadersTyped
<1>6. WaitersHaveAFlight'
  BY <1>1, <1>4 DEF WaitersHaveAFlight, ReadersTyped
<1> QED
  BY <1>3, <1>5, <1>6

\* A flight that changes to one that is young.
LEMMA FlightSet ==
    ASSUME FlightsAreYoung, NEW p \in CachePods, NEW f \in QueryType \cup RowType, IsYoung(f),
           flight' = [flight EXCEPT ![p] = f], UNCHANGED <<version, outdated>>
    PROVE  FlightsAreYoung' /\ flight'[p] # Absent
           /\ \A q \in CachePods : flight[q] # Absent => flight'[q] # Absent
<1>1. \A q \in CachePods : flight'[q] = IF q = p THEN f ELSE flight[q]
  BY DEF FlightsAreYoung
<1>2. flight' \in [CachePods -> {Absent} \cup QueryType \cup RowType]
  BY DEF FlightsAreYoung
<1>3. FlightsAreYoung'
  BY <1>1, <1>2 DEF FlightsAreYoung, IsYoung
<1> QED
  BY <1>1, <1>3, KindsDiffer

\* Requests: the entry is read, or a flight is joined and does its query.
LEMMA RequestsKeep ==
    ASSUME CacheInv,
           \/ \E r \in Readers : ReadEntry(r) \/ \E p \in CachePods : JoinFlight(r, p)
           \/ \E p \in CachePods : LoadRow(p)
    PROVE  CacheInv'
<1>1. /\ VersionsTyped /\ EntryIsYoung /\ FlightsAreYoung
      /\ ReadersTyped /\ StaleIsBounded /\ WaitersHaveAFlight
  BY DEF CacheInv
<1>2. ASSUME NEW r \in Readers, ReadEntry(r)
      PROVE  CacheInv'
  <2>1. UNCHANGED <<version, outdated, entry, flight, reader, dropping>> /\ entry # Absent
        /\ ShowRow(entry.version)
    BY <1>2 DEF ReadEntry
  <2>2. entry.version \in RowVersions /\ entry.left \in 1..PageTtl
        /\ outdated[entry.version] + entry.left <= PageTtl + MaxLoad
    BY <1>1, <2>1, KindsDiffer DEF EntryIsYoung
  <2>3. outdated[entry.version] \in 0..WorstAge /\ worst \in 0..WorstAge
    BY <1>1, <2>2 DEF VersionsTyped
  <2>4. worst' \in 0..WorstAge /\ StaleIsBounded'
    BY <1>1, <2>1, <2>2, <2>3, ReadThroughAssumption DEF ShowRow, StaleIsBounded, WorstAge
  <2>5. VersionsTyped'
    BY <1>1, <2>1, <2>4 DEF VersionsTyped
  <2>6. EntryIsYoung' /\ FlightsAreYoung' /\ ReadersTyped' /\ WaitersHaveAFlight'
    BY <1>1, <2>1 DEF EntryIsYoung, FlightsAreYoung, IsYoung, ReadersTyped, WaitersHaveAFlight
  <2> QED
    BY <2>4, <2>5, <2>6 DEF CacheInv
<1>3. ASSUME NEW r \in Readers, NEW p \in CachePods, JoinFlight(r, p)
      PROVE  CacheInv'
  <2> DEFINE f == IF flight[p] = Absent THEN [kind |-> "query", age |-> 0] ELSE flight[p]
  <2>1. /\ reader' = [reader EXCEPT ![r] = p] /\ flight' = [flight EXCEPT ![p] = f]
        /\ UNCHANGED <<version, outdated, entry, dropping, worst>>
    BY <1>3 DEF JoinFlight
  <2>2. f \in QueryType \cup RowType /\ IsYoung(f)
    BY <1>1, KindsDiffer, ReadThroughAssumption DEF FlightsAreYoung, IsYoung, QueryType
  <2>3. FlightsAreYoung' /\ flight'[p] # Absent
        /\ \A q \in CachePods : flight[q] # Absent => flight'[q] # Absent
    <3> HIDE DEF f
    <3> QED
      BY <1>1, <2>1, <2>2, FlightSet
  <2>4. ReadersTyped' /\ WaitersHaveAFlight'
    BY <1>1, <2>1, <2>3 DEF ReadersTyped, WaitersHaveAFlight
  <2>5. VersionsTyped' /\ EntryIsYoung' /\ StaleIsBounded'
    BY <1>1, <2>1 DEF VersionsTyped, EntryIsYoung, StaleIsBounded
  <2> QED
    BY <2>3, <2>4, <2>5 DEF CacheInv
<1>4. ASSUME NEW p \in CachePods, LoadRow(p)
      PROVE  CacheInv'
  <2> DEFINE f == [kind |-> "row", version |-> version, age |-> flight[p].age]
  <2>1. /\ flight[p].kind = "query" /\ flight' = [flight EXCEPT ![p] = f]
        /\ UNCHANGED <<version, outdated, entry, reader, dropping, worst>>
    BY <1>4 DEF LoadRow
  <2>2. flight[p].age \in 0..MaxLoad
    BY <1>1, <2>1, KindsDiffer DEF FlightsAreYoung
  <2>3. f \in RowType
    BY <1>1, <2>2 DEF VersionsTyped, RowType
  <2>4. IsYoung(f)
    BY <1>1, <2>2, <2>3, ReadThroughAssumption DEF VersionsTyped, IsYoung, RowVersions
  <2>5. FlightsAreYoung' /\ \A q \in CachePods : flight[q] # Absent => flight'[q] # Absent
    <3> HIDE DEF f
    <3> QED
      BY <1>1, <2>1, <2>3, <2>4, FlightSet
  <2>6. ReadersTyped' /\ WaitersHaveAFlight'
    BY <1>1, <2>1, <2>5 DEF ReadersTyped, WaitersHaveAFlight
  <2>7. VersionsTyped' /\ EntryIsYoung' /\ StaleIsBounded'
    BY <1>1, <2>1 DEF VersionsTyped, EntryIsYoung, StaleIsBounded
  <2> QED
    BY <2>5, <2>6, <2>7 DEF CacheInv
<1> QED
  BY <1>2, <1>3, <1>4

\* Flights that end.
LEMMA FlightsEnd ==
    ASSUME CacheInv, NEW p \in CachePods,
           LoadFails(p) \/ PodDies(p) \/ \E redisUp \in BOOLEAN : FillEntry(p, redisUp)
    PROVE  CacheInv'
<1>1. /\ VersionsTyped /\ EntryIsYoung /\ FlightsAreYoung
      /\ ReadersTyped /\ StaleIsBounded /\ WaitersHaveAFlight
  BY DEF CacheInv
<1>2. AnswerWaiters(p) /\ UNCHANGED <<version, outdated, dropping>>
  BY DEF LoadFails, PodDies, FillEntry
<1>3. FlightsAreYoung' /\ ReadersTyped' /\ WaitersHaveAFlight'
  BY <1>1, <1>2, AnswersKeep
<1>4. CASE LoadFails(p) \/ PodDies(p)
  <2>1. UNCHANGED <<entry, worst>>
    BY <1>4 DEF LoadFails, PodDies
  <2>2. VersionsTyped' /\ EntryIsYoung' /\ StaleIsBounded'
    BY <1>1, <1>2, <2>1 DEF VersionsTyped, EntryIsYoung, StaleIsBounded
  <2> QED
    BY <1>3, <2>2 DEF CacheInv
<1>5. ASSUME NEW redisUp \in BOOLEAN, FillEntry(p, redisUp)
      PROVE  CacheInv'
  <2>1. /\ flight[p].kind = "row" /\ ShowRow(flight[p].version)
        /\ entry' = IF redisUp THEN Stored(flight[p].version) ELSE entry
    BY <1>5 DEF FillEntry
  <2>2. /\ flight[p].version \in RowVersions /\ flight[p].age \in 0..MaxLoad
        /\ flight[p].version <= version /\ outdated[flight[p].version] <= flight[p].age
    <3>1. flight[p] \in RowType
      BY <1>1, <2>1, KindsDiffer DEF FlightsAreYoung
    <3> QED
      BY <1>1, <3>1, KindsDiffer DEF FlightsAreYoung, IsYoung
  <2>3. outdated[flight[p].version] \in 0..WorstAge /\ outdated[flight[p].version] <= MaxLoad
        /\ worst \in 0..WorstAge
    BY <1>1, <2>2, ReadThroughAssumption DEF VersionsTyped, WorstAge
  <2>4. worst' \in 0..WorstAge /\ StaleIsBounded'
    BY <1>1, <2>1, <2>3, ReadThroughAssumption DEF ShowRow, StaleIsBounded, WorstAge
  <2>5. VersionsTyped'
    BY <1>1, <1>2, <2>4 DEF VersionsTyped
  <2>6. EntryIsYoung'
    <3>1. CASE redisUp
      <4>1. entry' = [kind |-> "entry", version |-> flight[p].version, left |-> PageTtl]
        BY <2>1, <3>1 DEF Stored
      <4>2. entry' \in EntryType
        BY <2>2, <4>1, ReadThroughAssumption DEF EntryType
      <4>3. outdated[flight[p].version] + PageTtl <= PageTtl + MaxLoad
        BY <2>3, ReadThroughAssumption DEF WorstAge
      <4> QED
        BY <1>2, <2>2, <4>1, <4>2, <4>3 DEF EntryIsYoung
    <3>2. CASE ~redisUp
      BY <1>1, <1>2, <2>1, <3>2 DEF EntryIsYoung
    <3> QED
      BY <3>1, <3>2
  <2> QED
    BY <1>3, <2>4, <2>5, <2>6 DEF CacheInv
<1> QED
  BY <1>4, <1>5

\* The row changes, or the entry goes.
LEMMA ChangesKeep ==
    ASSUME CacheInv,
           \/ EditProduct \/ ChangeQuietly \/ RedisRestarts
           \/ \E redisUp \in BOOLEAN : InvalidateProductCaches(redisUp)
           \/ UNCHANGED cacheVars
    PROVE  CacheInv'
<1>1. /\ VersionsTyped /\ EntryIsYoung /\ FlightsAreYoung
      /\ ReadersTyped /\ StaleIsBounded /\ WaitersHaveAFlight
  BY DEF CacheInv
<1>2. /\ UNCHANGED <<outdated, flight, reader, worst>>
      /\ entry' = entry \/ entry' = Absent
  BY DEF EditProduct, ChangeQuietly, RedisRestarts, InvalidateProductCaches, cacheVars
<1>3. version' \in RowVersions /\ version <= version' /\ dropping' \in 0..version'
  BY <1>1, ReadThroughAssumption
     DEF EditProduct, ChangeQuietly, RedisRestarts, InvalidateProductCaches, cacheVars, Deleted,
         VersionsTyped, RowVersions
<1>4. VersionsTyped'
  BY <1>1, <1>2, <1>3, ReadThroughAssumption DEF VersionsTyped, RowVersions
<1>5. EntryIsYoung'
  <2>1. CASE entry' = entry
    <3>1. \A n \in RowVersions : n <= version => n <= version'
      BY <1>1, <1>3, ReadThroughAssumption DEF VersionsTyped, RowVersions
    <3> QED
      BY <1>1, <1>2, <2>1, <3>1, KindsDiffer DEF EntryIsYoung
  <2>2. CASE entry' = Absent
    BY <2>2 DEF EntryIsYoung
  <2> QED
    BY <1>2, <2>1, <2>2
<1>6. FlightsAreYoung'
  <2>1. \A n \in RowVersions : n <= version => n <= version'
    BY <1>1, <1>3, ReadThroughAssumption DEF VersionsTyped, RowVersions
  <2> QED
    BY <1>1, <1>2, <2>1, KindsDiffer DEF FlightsAreYoung, IsYoung
<1>7. ReadersTyped' /\ WaitersHaveAFlight' /\ StaleIsBounded'
  BY <1>1, <1>2 DEF ReadersTyped, WaitersHaveAFlight, StaleIsBounded
<1> QED
  BY <1>4, <1>5, <1>6, <1>7 DEF CacheInv

\* A tick ages versions, flights and the entry alike.
LEMMA TickKeeps ==
    ASSUME CacheInv, CacheTick
    PROVE  CacheInv'
<1>1. /\ VersionsTyped /\ EntryIsYoung /\ FlightsAreYoung
      /\ ReadersTyped /\ StaleIsBounded /\ WaitersHaveAFlight
  BY DEF CacheInv
<1>2. UNCHANGED <<version, reader, dropping, worst>>
  BY DEF CacheTick
<1>3. /\ outdated' \in [RowVersions -> 0..WorstAge]
      /\ \A n \in RowVersions : n >= version => outdated'[n] = 0
      /\ \A n \in RowVersions : outdated'[n] <= outdated[n] + 1
      /\ \A n \in RowVersions : outdated[n] \in Nat /\ outdated'[n] \in Nat
  <2>1. outdated' = [n \in RowVersions |->
          IF n < version /\ outdated[n] < WorstAge THEN outdated[n] + 1 ELSE outdated[n]]
    BY DEF CacheTick
  <2> QED
    BY <1>1, <2>1, ReadThroughAssumption DEF VersionsTyped, WorstAge, RowVersions
<1>4. VersionsTyped'
  BY <1>1, <1>2, <1>3 DEF VersionsTyped
<1>5. EntryIsYoung'
  <2>1. CASE entry = Absent \/ entry.left = 1
    BY <2>1 DEF CacheTick, EntryIsYoung
  <2>2. CASE entry # Absent /\ entry.left # 1
    <3>1. entry' = [entry EXCEPT !.left = @ - 1]
      BY <2>2 DEF CacheTick
    <3>2. entry \in EntryType /\ entry.version <= version
          /\ outdated[entry.version] + entry.left <= PageTtl + MaxLoad
          /\ entry.left \in 1..PageTtl /\ entry.version \in RowVersions
      BY <1>1, <2>2, KindsDiffer DEF EntryIsYoung
    <3>3. entry' \in EntryType /\ entry'.version = entry.version /\ entry'.left = entry.left - 1
      BY <2>2, <3>1, <3>2, ReadThroughAssumption DEF EntryType
    <3>4. outdated'[entry.version] + entry'.left <= PageTtl + MaxLoad
      BY <1>3, <3>2, <3>3, ReadThroughAssumption
    <3> QED
      BY <1>2, <3>2, <3>3, <3>4 DEF EntryIsYoung
  <2> QED
    BY <2>1, <2>2
<1>6. \A p \in CachePods :
         /\ flight[p] = Absent => flight'[p] = Absent
         /\ flight[p] # Absent => flight'[p] = [flight[p] EXCEPT !.age = @ + 1]
  BY DEF CacheTick
<1>7. \A p \in CachePods : flight[p] # Absent => flight[p].age \in 0..MaxLoad /\ flight[p].age < MaxLoad
  BY <1>1, KindsDiffer DEF CacheTick, FlightsAreYoung
<1>8. ASSUME NEW p \in CachePods
      PROVE  /\ flight'[p] \in {Absent} \cup QueryType \cup RowType
             /\ IsYoung(flight[p])' /\ (flight[p] # Absent => flight'[p] # Absent)
  <2>1. CASE flight[p] = Absent
    BY <1>6, <2>1, KindsDiffer DEF IsYoung
  <2>2. CASE flight[p] \in QueryType
    <3>1. flight'[p] = [flight[p] EXCEPT !.age = @ + 1] /\ flight[p].age + 1 \in 0..MaxLoad
      BY <1>6, <1>7, <2>2, KindsDiffer, ReadThroughAssumption
    <3>2. flight'[p] \in QueryType
      BY <2>2, <3>1 DEF QueryType
    <3> QED
      BY <3>2, KindsDiffer DEF IsYoung
  <2>3. CASE flight[p] \in RowType
    <3>1. flight'[p] = [flight[p] EXCEPT !.age = @ + 1] /\ flight[p].age + 1 \in 0..MaxLoad
          /\ flight[p].age \in 0..MaxLoad /\ flight[p].version \in RowVersions
      BY <1>6, <1>7, <2>3, KindsDiffer, ReadThroughAssumption
    <3>2. flight'[p] \in RowType /\ flight'[p].age = flight[p].age + 1
          /\ flight'[p].version = flight[p].version
      BY <2>3, <3>1 DEF RowType
    <3>3. flight[p].version <= version /\ outdated[flight[p].version] <= flight[p].age
      BY <1>1, <2>3 DEF FlightsAreYoung, IsYoung
    <3>4. outdated'[flight[p].version] <= flight[p].age + 1
      BY <1>3, <3>1, <3>3
    <3> QED
      BY <1>2, <3>2, <3>3, <3>4, KindsDiffer DEF IsYoung
  <2> QED
    BY <1>1, <2>1, <2>2, <2>3 DEF FlightsAreYoung
<1>9. FlightsAreYoung' /\ WaitersHaveAFlight'
  <2>1. flight' \in [CachePods -> {Absent} \cup QueryType \cup RowType]
    BY <1>8 DEF CacheTick
  <2>2. FlightsAreYoung'
    BY <1>8, <2>1 DEF FlightsAreYoung
  <2> QED
    BY <1>1, <1>2, <1>8, <2>2 DEF WaitersHaveAFlight, ReadersTyped
<1>10. ReadersTyped' /\ StaleIsBounded'
  BY <1>1, <1>2 DEF ReadersTyped, StaleIsBounded
<1> QED
  BY <1>4, <1>5, <1>9, <1>10 DEF CacheInv

LEMMA CacheKeeps == ReadThroughSpec => []CacheInv
<1>1. CacheInv /\ [ReadThroughNext]_cacheVars => CacheInv'
  BY RequestsKeep, FlightsEnd, ChangesKeep, TickKeeps DEF ReadThroughNext
<1> QED
  BY <1>1, CacheStarts, PTL DEF ReadThroughSpec

\* Types, for any pods, readers and times.
THEOREM ReadThroughTypeCorrect == ReadThroughSpec => []ReadThroughTypeOK
<1>1. CacheInv => ReadThroughTypeOK
  BY ReadThroughAssumption
     DEF CacheInv, ReadThroughTypeOK, VersionsTyped, EntryIsYoung, FlightsAreYoung, ReadersTyped,
         RowVersions, EntryType, QueryType, RowType
<1> QED
  BY <1>1, CacheKeeps, PTL

\* products.service.ts:14: whatever Redis, the pods and staff do, what a page shows was
\* replaced less than an entry's life and a load ago.
THEOREM StaleIsAlwaysBounded == ReadThroughSpec => []StaleIsBounded
<1>1. CacheInv => StaleIsBounded
  BY DEF CacheInv
<1> QED
  BY <1>1, CacheKeeps, PTL

\* redis.service.ts:122: nobody waits for a load that is over.
THEOREM WaitersAlwaysHaveAFlight == ReadThroughSpec => []WaitersHaveAFlight
<1>1. CacheInv => WaitersHaveAFlight
  BY DEF CacheInv
<1> QED
  BY <1>1, CacheKeeps, PTL
-----------------------------------------------------------------------------
\* Checkouts: for any prices, coupons, taxes, wallets and number of requests.

LEMMA Multiples == \A k \in Nat, d \in Nat \ {0} : (k * d) % d = 0
OBVIOUS

\* orders.service.ts:235: a rounded amount is whole cents and at most half a cent above.
LEMMA RoundedFits ==
    \A amount \in Nat : /\ Rounded(amount) \in Nat /\ Rounded(amount) % Cent = 0
                        /\ 2 * Rounded(amount) <= 2 * amount + Cent
<1> SUFFICES ASSUME NEW amount \in Nat
             PROVE  /\ Rounded(amount) \in Nat /\ Rounded(amount) % Cent = 0
                    /\ 2 * Rounded(amount) <= 2 * amount + Cent
  OBVIOUS
<1>1. PICK a \in Nat, d \in Nat \ {0} : a = 2 * amount + Cent /\ d = 2 * Cent
  BY CheckoutAssumption
<1>2. PICK k \in Nat : k = a \div d /\ k * d <= a
  OBVIOUS
<1>3. Rounded(amount) = k * Cent /\ 2 * (k * Cent) = k * d
  BY <1>1, <1>2, CheckoutAssumption DEF Rounded
<1>4. k * Cent \in Nat /\ (k * Cent) % Cent = 0
  BY CheckoutAssumption, Multiples
<1> QED
  BY <1>1, <1>2, <1>3, <1>4

LEMMA MinOfThree ==
    \A a, b, c \in Nat : /\ Min({a, b, c}) \in Nat
                         /\ Min({a, b, c}) <= a /\ Min({a, b, c}) <= b /\ Min({a, b, c}) <= c
<1> SUFFICES ASSUME NEW a \in Nat, NEW b \in Nat, NEW c \in Nat
             PROVE  /\ Min({a, b, c}) \in Nat
                    /\ Min({a, b, c}) <= a /\ Min({a, b, c}) <= b /\ Min({a, b, c}) <= c
  OBVIOUS
<1>1. \E x \in {a, b, c} : \A y \in {a, b, c} : x <= y
  <2>1. CASE a <= b /\ a <= c
    BY <2>1
  <2>2. CASE b <= a /\ b <= c
    BY <2>2
  <2>3. CASE c <= a /\ c <= b
    BY <2>3
  <2> QED
    BY <2>1, <2>2, <2>3
<1> QED
  BY <1>1 DEF Min

\* fraud.service.ts:18: a score that blocks is for both abuses at once, for any numbers
\* of orders.
LEMMA HighRiskAlwaysMeansBoth ==
    ASSUME NEW total \in Nat \ {0}, NEW returned \in 0..total, NEW cod \in 0..total,
           NEW codCancelled \in 0..cod, codCancelled <= total - returned
    PROVE  HighRiskMeansBoth(total, returned, cod, codCancelled)
<1> DEFINE returns == IF 2 * returned > total THEN 40 ELSE IF 10 * returned > 3 * total THEN 20 ELSE 0
           cash == IF 10 * codCancelled > 4 * cod THEN 30
                   ELSE IF 10 * codCancelled > 2 * cod THEN 15 ELSE 0
           first == IF total < 2 /\ returned > 0 THEN 10 ELSE 0
<1>1. returns + cash + first \in Int
  OBVIOUS
<1>2. RiskScore(total, returned, cod, codCancelled)
         = IF returns + cash + first <= 100 THEN returns + cash + first ELSE 100
  <2>1. RiskScore(total, returned, cod, codCancelled) = Min({returns + cash + first, 100})
    BY DEF RiskScore
  <2> HIDE DEF returns, cash, first
  <2> QED
    BY <1>1, <2>1, MinOfTwo
<1>3. first > 0 => cash = 0
  OBVIOUS
<1> QED
  BY <1>2, <1>3 DEF HighRiskMeansBoth, HighRisk, RefundAbuse, CodAbuse

LEMMA HighRiskHolds == HighRiskIsBothAbuses
<1> SUFFICES ASSUME NEW total \in 1..4, NEW returned \in 0..total, NEW cod \in 0..total,
                    NEW codCancelled \in 0..Min({cod, total - returned})
             PROVE  HighRiskMeansBoth(total, returned, cod, codCancelled)
  BY DEF HighRiskIsBothAbuses
<1>1. codCancelled \in 0..cod /\ codCancelled <= total - returned
  BY MinOfTwo
<1> QED
  BY <1>1, HighRiskAlwaysMeansBoth

-----------------------------------------------------------------------------
GatedType == [stage : {"gated"}, by : {Customer, Guest}]
PricedType == [stage : {"priced", "ready"}, by : {Customer, Guest}, subtotal : Nat, discount : Nat,
               total : Nat, share : Nat, available : Nat, alone : BOOLEAN]
OwingType == [stage : {"owing"}, order : Nat, share : Nat]
PlacedType == [by : {Customer, Guest}, status : {"PENDING", "RETURN_REQUESTED"}, subtotal : Nat,
               discount : Nat, total : Nat, share : Nat, available : Nat, debited : Nat, alone : BOOLEAN]

\* Rounded, a share is at most half a cent above what is to be paid and what was there.
ShareFits(o) ==
    /\ o.share % Cent = 0
    /\ 2 * o.share <= 2 * o.total + Cent /\ 2 * o.share <= 2 * o.available + Cent
\* What the debit of an order by itself takes.
Due(o) == IF o.share <= o.available THEN o.share ELSE 0

\* What a checkout says is fit to be placed, and the wallet has what it had as long as
\* nobody else took from it.
PricedFits(c) ==
    c \in PricedType => /\ c.discount <= c.subtotal /\ ShareFits(c)
                        /\ c.stage = "ready" /\ c.alone /\ c.share # 0 => c.available = funds
\* Whoever is to debit has an order that says so.
OwingFits(c) ==
    c \in OwingType => /\ c.order \in 1..Len(placed)
                       /\ placed[c.order].share = c.share /\ placed[c.order].debited = 0
                       /\ placed[c.order].alone => placed[c.order].available = funds
OwesFor(q, i) == checkout[q].stage = "owing" /\ checkout[q].order = i

LedgerTyped ==
    /\ blacklist \subseteq Blacklistable
    /\ risk \in 0..100
    /\ funds \in 0..Funds
    /\ checkout \in [Checkouts -> {NoCheckout} \cup GatedType \cup PricedType \cup OwingType]
    /\ placed \in Seq(PlacedType) /\ Len(placed) <= MaxPlaced
CheckoutsFit ==
    /\ \A q \in Checkouts : PricedFits(checkout[q]) /\ OwingFits(checkout[q])
    /\ \A q, r \in Checkouts, i \in 1..Len(placed) : OwesFor(q, i) /\ OwesFor(r, i) => q = r
PlacedFit(i) ==
    /\ placed[i].discount <= placed[i].subtotal
    /\ ShareFits(placed[i])
    /\ placed[i].alone /\ (\A q \in Checkouts : ~OwesFor(q, i)) => placed[i].debited = Due(placed[i])
    /\ placed[i].debited \in {0, placed[i].share}
PlacedAddUp == \A i \in 1..Len(placed) : PlacedFit(i)

CheckoutInv == LedgerTyped /\ CheckoutsFit /\ PlacedAddUp

LEMMA StagesDiffer ==
    /\ NoCheckout.stage = "none"
    /\ \A c \in GatedType : c.stage = "gated"
    /\ \A c \in PricedType : c.stage \in {"priced", "ready"}
    /\ \A c \in OwingType : c.stage = "owing"
BY DEF NoCheckout, GatedType, PricedType, OwingType

LEMMA CheckoutInvShows == CheckoutInv => CheckoutTypeOK /\ AmountsAddUp
<1> SUFFICES ASSUME CheckoutInv PROVE CheckoutTypeOK /\ AmountsAddUp
  OBVIOUS
<1>1. CheckoutTypeOK
  BY StagesDiffer DEF CheckoutInv, LedgerTyped, CheckoutTypeOK
<1>2. ASSUME NEW i \in 1..Len(placed)
      PROVE  /\ placed[i].share \in Nat /\ placed[i].discount \in Nat /\ placed[i].total \in Nat
             /\ PlacedFit(i)
  <2>1. placed[i] \in PlacedType
    BY DEF CheckoutInv, LedgerTyped
  <2> QED
    BY <2>1 DEF CheckoutInv, PlacedAddUp, PlacedType
<1>3. DOMAIN placed = 1..Len(placed)
  BY DEF CheckoutInv, LedgerTyped
<1>4. ASSUME NEW i \in DOMAIN placed
      PROVE  LET o == placed[i]
                 owing == \E q \in Checkouts : checkout[q].stage = "owing" /\ checkout[q].order = i
             IN  /\ 0 <= o.discount /\ o.discount <= o.subtotal /\ 0 <= o.total
                 /\ 0 <= o.share /\ o.share % Cent = 0
                 /\ 2 * o.share <= 2 * o.total + Cent /\ 2 * o.share <= 2 * o.available + Cent
                 /\ o.alone /\ ~owing => o.debited = IF o.share <= o.available THEN o.share ELSE 0
                 /\ o.debited \in {0, o.share}
  <2> DEFINE o == placed[i]
             owing == \E q \in Checkouts : checkout[q].stage = "owing" /\ checkout[q].order = i
  <2>1. i \in 1..Len(placed) /\ o.share \in Nat /\ o.discount \in Nat /\ o.total \in Nat /\ PlacedFit(i)
    BY <1>2, <1>3
  <2>2. owing <=> ~\A q \in Checkouts : ~OwesFor(q, i)
    BY DEF OwesFor
  <2>3. 0 <= o.discount /\ o.discount <= o.subtotal /\ 0 <= o.total /\ 0 <= o.share
    BY <2>1 DEF PlacedFit
  <2>4. ShareFits(o) /\ o.debited \in {0, o.share}
    BY <2>1 DEF PlacedFit
  <2>5. o.alone /\ ~owing => o.debited = Due(o)
    BY <2>1, <2>2 DEF PlacedFit
  <2> QED
    BY <2>3, <2>4, <2>5 DEF ShareFits, Due
<1> QED
  BY <1>1, <1>4 DEF AmountsAddUp

LEMMA CheckoutStarts == CheckoutInit => CheckoutInv
BY CheckoutAssumption, StagesDiffer
   DEF CheckoutInit, CheckoutInv, LedgerTyped, CheckoutsFit, PlacedAddUp, PricedFits, OwingFits, OwesFor

\* A checkout that has placed no order goes on, or is rejected.
LEMMA CheckoutSet ==
    ASSUME CheckoutInv, NEW q \in Checkouts, checkout[q].stage # "owing",
           NEW c \in {NoCheckout} \cup GatedType \cup PricedType, PricedFits(c),
           checkout' = [checkout EXCEPT ![q] = c], UNCHANGED <<blacklist, risk, funds, placed>>
    PROVE  CheckoutInv'
<1>1. LedgerTyped /\ CheckoutsFit /\ PlacedAddUp
  BY DEF CheckoutInv
<1>2. \A x \in Checkouts : checkout'[x] = IF x = q THEN c ELSE checkout[x]
  BY <1>1 DEF LedgerTyped
<1>3. c.stage # "owing" /\ c \notin OwingType
  BY StagesDiffer
<1>4. LedgerTyped'
  BY <1>1 DEF LedgerTyped
<1>5. \A x \in Checkouts : \A i : OwesFor(x, i)' <=> OwesFor(x, i)
  BY <1>2, <1>3 DEF OwesFor
<1>6. CheckoutsFit'
  <2>1. ASSUME NEW x \in Checkouts
        PROVE  PricedFits(checkout[x])' /\ OwingFits(checkout[x])'
    BY <1>1, <1>2, <1>3 DEF CheckoutsFit, PricedFits, OwingFits
  <2>2. ASSUME NEW x \in Checkouts, NEW y \in Checkouts, NEW i \in 1..Len(placed),
               OwesFor(x, i)', OwesFor(y, i)'
        PROVE  x = y
    BY <1>1, <1>5, <2>2 DEF CheckoutsFit
  <2> QED
    BY <2>1, <2>2 DEF CheckoutsFit
<1>7. PlacedAddUp'
  BY <1>1, <1>5 DEF PlacedAddUp, PlacedFit
<1> QED
  BY <1>4, <1>6, <1>7 DEF CheckoutInv

\* The gate, the price, the wallet's share, a rejection.
LEMMA PricingKeeps ==
    ASSUME CheckoutInv, NEW q \in Checkouts,
           \/ \E by \in {Customer, Guest}, device \in BOOLEAN : PassGate(q, by, device)
           \/ \E subtotal \in Subtotals, value \in CouponAmounts, tax \in Taxes :
                 PriceOrder(q, subtotal, CalcDiscount("FIXED", value, subtotal), tax)
           \/ \E wanted \in Asked : ClampToWallet(q, wanted)
           \/ RejectCheckout(q)
    PROVE  CheckoutInv'
<1>1. LedgerTyped /\ CheckoutsFit
  BY DEF CheckoutInv
<1>2. checkout[q] \in {NoCheckout} \cup GatedType \cup PricedType \cup OwingType /\ funds \in Nat
  BY <1>1, CheckoutAssumption DEF LedgerTyped
<1>3. ASSUME NEW by \in {Customer, Guest}, NEW device \in BOOLEAN, PassGate(q, by, device)
      PROVE  CheckoutInv'
  <2>1. [stage |-> "gated", by |-> by] \in GatedType
    BY DEF GatedType
  <2>2. [stage |-> "gated", by |-> by] \notin PricedType
    BY <2>1, StagesDiffer
  <2> QED
    BY <1>3, <2>1, <2>2, CheckoutSet, StagesDiffer DEF PassGate, PricedFits
<1>4. ASSUME NEW subtotal \in Subtotals, NEW value \in CouponAmounts, NEW tax \in Taxes,
             PriceOrder(q, subtotal, CalcDiscount("FIXED", value, subtotal), tax)
      PROVE  CheckoutInv'
  <2> DEFINE discount == CalcDiscount("FIXED", value, subtotal)
             taxable == subtotal - discount
             fee == IF taxable >= FreeShippingFrom THEN 0 ELSE ShippingFee
             c == [stage |-> IF checkout[q].by = Guest THEN "ready" ELSE "priced", by |-> checkout[q].by,
                   subtotal |-> subtotal, discount |-> discount,
                   total |-> taxable + fee + tax, share |-> 0, available |-> 0, alone |-> TRUE]
  <2>1. /\ checkout[q].stage = "gated" /\ checkout' = [checkout EXCEPT ![q] = c]
        /\ UNCHANGED <<blacklist, risk, funds, placed>>
    BY <1>4 DEF PriceOrder
  <2>2. checkout[q].by \in {Customer, Guest}
    BY <1>2, <2>1, StagesDiffer DEF GatedType
  <2>3. subtotal \in Nat /\ value \in Nat /\ tax \in Nat /\ ShippingFee \in Nat
    BY CheckoutAssumption
  <2>4. discount \in Nat /\ discount <= subtotal
    <3>1. discount = Min({value, subtotal})
      BY DEF CalcDiscount
    <3> HIDE DEF discount
    <3> QED
      BY <2>3, <3>1, MinOfTwo
  <2>5. taxable + fee + tax \in Nat
    <3> HIDE DEF discount
    <3> QED
      BY <2>3, <2>4
  <2>6. c \in PricedType /\ PricedFits(c)
    <3>1. 0 % Cent = 0
      BY CheckoutAssumption, Multiples
    <3> HIDE DEF discount, fee, taxable
    <3> QED
      BY <1>2, <2>2, <2>3, <2>4, <2>5, <3>1, CheckoutAssumption DEF PricedType, PricedFits, ShareFits
  <2> HIDE DEF c
  <2> QED
    BY <2>1, <2>6, CheckoutSet
<1>5. ASSUME NEW wanted \in Asked, ClampToWallet(q, wanted)
      PROVE  CheckoutInv'
  <2> DEFINE least == Min({wanted, funds, checkout[q].total})
             share == Rounded(least)
             c == [checkout[q] EXCEPT !.stage = "ready", !.available = funds, !.share = share]
  <2>1. /\ checkout[q].stage = "priced"
        /\ checkout' = [checkout EXCEPT ![q].stage = "ready", ![q].available = funds,
                                        ![q].share = share]
        /\ UNCHANGED <<blacklist, risk, funds, placed>>
    BY <1>5 DEF ClampToWallet
  <2>2. checkout[q] \in PricedType
    BY <1>2, <2>1, StagesDiffer
  <2>3. checkout[q].discount <= checkout[q].subtotal
    BY <1>1, <2>2 DEF CheckoutsFit, PricedFits
  <2>4. /\ share \in Nat /\ share % Cent = 0
        /\ 2 * share <= 2 * funds + Cent /\ 2 * share <= 2 * checkout[q].total + Cent
    <3>1. wanted \in Nat /\ checkout[q].total \in Nat
      BY <2>2, CheckoutAssumption DEF PricedType
    <3>2. least \in Nat /\ least <= funds /\ least <= checkout[q].total
      BY <1>2, <3>1, MinOfThree
    <3> HIDE DEF least
    <3>3. share \in Nat /\ share % Cent = 0 /\ 2 * share <= 2 * least + Cent
      BY <3>2, RoundedFits
    <3> HIDE DEF share
    <3> QED
      BY <1>2, <3>1, <3>2, <3>3, CheckoutAssumption
  <2> HIDE DEF share
  <2>5. checkout' = [checkout EXCEPT ![q] = c]
    BY <1>1, <2>1 DEF LedgerTyped
  <2>6. c \in PricedType /\ c.stage = "ready" /\ c.share = share /\ c.discount = checkout[q].discount
        /\ c.subtotal = checkout[q].subtotal /\ c.total = checkout[q].total
        /\ c.available = funds
    BY <1>2, <2>2, <2>4 DEF PricedType
  <2> HIDE DEF c
  <2>7. PricedFits(c)
    BY <2>3, <2>4, <2>6 DEF PricedFits, ShareFits
  <2> QED
    BY <2>1, <2>5, <2>6, <2>7, CheckoutSet
<1>6. CASE RejectCheckout(q)
  <2>1. NoCheckout \notin PricedType
    BY StagesDiffer
  <2> QED
    BY <1>6, <2>1, CheckoutSet DEF RejectCheckout, PricedFits
<1> QED
  BY <1>3, <1>4, <1>5, <1>6

\* Staff and scores.
LEMMA FraudKeeps ==
    ASSUME CheckoutInv,
           \/ \E e \in Blacklistable : AddToBlacklist(e) \/ RemoveFromBlacklist(e)
           \/ ComputeRiskScore
           \/ UNCHANGED checkoutVars
    PROVE  CheckoutInv'
<1>1. LedgerTyped /\ CheckoutsFit /\ PlacedAddUp
  BY DEF CheckoutInv
<1>2. UNCHANGED <<funds, checkout, placed>>
  BY DEF AddToBlacklist, RemoveFromBlacklist, ComputeRiskScore, checkoutVars
<1>3. blacklist' \subseteq Blacklistable
  BY <1>1 DEF AddToBlacklist, RemoveFromBlacklist, ComputeRiskScore, checkoutVars, LedgerTyped
<1>4. risk' \in 0..100
  <2>1. CASE ComputeRiskScore
    <3> DEFINE mine == {i \in DOMAIN placed : placed[i].by = Customer}
               back == {i \in mine : placed[i].status = "RETURN_REQUESTED"}
    <3>1. risk' = RiskScore(Cardinality(mine), Cardinality(back), 0, 0)
      BY <2>1 DEF ComputeRiskScore
    <3>2. \A total, returned : RiskScore(total, returned, 0, 0) \in 0..100
      <4> SUFFICES ASSUME NEW total, NEW returned PROVE RiskScore(total, returned, 0, 0) \in 0..100
        OBVIOUS
      <4> DEFINE returns == IF 2 * returned > total THEN 40 ELSE IF 10 * returned > 3 * total THEN 20 ELSE 0
                 cash == IF 10 * 0 > 4 * 0 THEN 30 ELSE IF 10 * 0 > 2 * 0 THEN 15 ELSE 0
                 first == IF total < 2 /\ returned > 0 THEN 10 ELSE 0
      <4>1. returns \in 0..40 /\ cash \in 0..30 /\ first \in 0..10
        OBVIOUS
      <4>2. RiskScore(total, returned, 0, 0) = IF total = 0 THEN 0 ELSE Min({returns + cash + first, 100})
        BY DEF RiskScore
      <4> HIDE DEF returns, cash, first
      <4>3. returns + cash + first \in Nat
        BY <4>1
      <4>4. Min({returns + cash + first, 100}) \in 0..100
        <5> DEFINE n == returns + cash + first
        <5>1. n \in Nat
          BY <4>3
        <5> HIDE DEF n
        <5>2. n \in Int /\ 100 \in Int
          BY <5>1
        <5>3. Min({n, 100}) = IF n <= 100 THEN n ELSE 100
          BY <5>2, MinOfTwo
        <5> QED
          BY <5>1, <5>3 DEF n
      <4> QED
        BY <4>2, <4>4
    <3> QED
      BY <3>1, <3>2
  <2>2. CASE ~ComputeRiskScore
    BY <1>1, <2>2 DEF AddToBlacklist, RemoveFromBlacklist, checkoutVars, LedgerTyped
  <2> QED
    BY <2>1, <2>2
<1>5. LedgerTyped'
  BY <1>1, <1>2, <1>3, <1>4 DEF LedgerTyped
<1>6. CheckoutsFit' /\ PlacedAddUp'
  BY <1>1, <1>2 DEF CheckoutsFit, PricedFits, OwingFits, OwesFor, PlacedAddUp, PlacedFit
<1> QED
  BY <1>5, <1>6 DEF CheckoutInv

\* An order that is changed in what is said of it.
LEMMA OrderReturned ==
    ASSUME CheckoutInv, NEW i \in DOMAIN placed, ReturnOrder(i)
    PROVE  CheckoutInv'
<1>1. LedgerTyped /\ CheckoutsFit /\ PlacedAddUp
  BY DEF CheckoutInv
<1>2. placed' = [placed EXCEPT ![i].status = "RETURN_REQUESTED"]
      /\ UNCHANGED <<blacklist, risk, funds, checkout>>
  BY DEF ReturnOrder
<1>3. placed' \in Seq(PlacedType) /\ Len(placed') = Len(placed)
      /\ \A j \in 1..Len(placed) :
            /\ placed'[j].alone = placed[j].alone /\ placed'[j].debited = placed[j].debited
            /\ placed'[j].share = placed[j].share /\ placed'[j].discount = placed[j].discount
            /\ placed'[j].subtotal = placed[j].subtotal /\ placed'[j].total = placed[j].total
            /\ placed'[j].available = placed[j].available
  <2> DEFINE o == [placed[i] EXCEPT !.status = "RETURN_REQUESTED"]
  <2>1. placed \in Seq(PlacedType) /\ i \in 1..Len(placed) /\ placed[i] \in PlacedType
    BY <1>1 DEF LedgerTyped
  <2>2. o \in PlacedType /\ o.alone = placed[i].alone /\ o.debited = placed[i].debited
        /\ o.share = placed[i].share /\ o.discount = placed[i].discount
        /\ o.subtotal = placed[i].subtotal /\ o.total = placed[i].total
        /\ o.available = placed[i].available
    BY <2>1 DEF PlacedType
  <2>3. placed' = [placed EXCEPT ![i] = o]
    BY <1>2
  <2> HIDE DEF o
  <2>4. placed' \in Seq(PlacedType) /\ Len(placed') = Len(placed)
        /\ \A j \in 1..Len(placed) : placed'[j] = IF j = i THEN o ELSE placed[j]
    BY <2>1, <2>2, <2>3
  <2> QED
    BY <2>2, <2>4
<1>4. LedgerTyped'
  BY <1>1, <1>2, <1>3 DEF LedgerTyped
<1>5. CheckoutsFit'
  BY <1>1, <1>2, <1>3 DEF CheckoutsFit, PricedFits, OwingFits, OwesFor
<1>6. PlacedAddUp'
  BY <1>1, <1>2, <1>3 DEF PlacedAddUp, PlacedFit, ShareFits, Due, OwesFor
<1> QED
  BY <1>4, <1>5, <1>6 DEF CheckoutInv

\* A checkout is placed; without a share of the wallet it is through.
LEMMA CommitKeepsCheckouts ==
    ASSUME CheckoutInv, NEW q \in Checkouts, CommitCheckout(q)
    PROVE  CheckoutInv'
<1>1. LedgerTyped /\ CheckoutsFit /\ PlacedAddUp
  BY DEF CheckoutInv
<1>0. PICK n \in Nat : n = Len(placed)
  BY <1>1 DEF LedgerTyped
<1> DEFINE c == checkout[q]
           o == [by |-> c.by, status |-> "PENDING", subtotal |-> c.subtotal, discount |-> c.discount,
                 total |-> c.total, share |-> c.share, available |-> c.available,
                 debited |-> 0, alone |-> c.alone]
           d == IF c.share = 0 THEN NoCheckout ELSE [stage |-> "owing", order |-> n + 1, share |-> c.share]
<1>2. /\ c.stage = "ready" /\ n < MaxPlaced /\ placed' = Append(placed, o)
      /\ checkout' = [checkout EXCEPT ![q] = d] /\ UNCHANGED <<blacklist, risk, funds>>
  BY <1>0 DEF CommitCheckout
<1>3. c \in PricedType /\ c.share \in Nat /\ c.alone \in BOOLEAN
  <2>1. c \in PricedType
    BY <1>1, <1>2, StagesDiffer DEF LedgerTyped
  <2> QED
    BY <2>1 DEF PricedType
<1>4. c.discount <= c.subtotal /\ ShareFits(c) /\ (c.alone /\ c.share # 0 => c.available = funds)
  BY <1>1, <1>2, <1>3 DEF CheckoutsFit, PricedFits
<1>5. /\ o \in PlacedType /\ o.discount = c.discount /\ o.subtotal = c.subtotal /\ o.share = c.share
      /\ o.total = c.total
      /\ o.available = c.available /\ o.debited = 0 /\ o.alone = c.alone
  BY <1>3 DEF PricedType, PlacedType
<1>14. ShareFits(o) /\ (c.share = 0 => Due(o) = 0)
  BY <1>3, <1>4, <1>5 DEF ShareFits, Due, PricedType
<1>6. n \in Nat /\ n = Len(placed) /\ placed \in Seq(PlacedType)
  BY <1>0, <1>1 DEF LedgerTyped
<1>7. /\ placed' \in Seq(PlacedType) /\ Len(placed') = n + 1
      /\ placed'[n + 1] = o /\ \A i \in 1..n : placed'[i] = placed[i]
  <2> HIDE DEF o
  <2> QED
    BY <1>2, <1>5, <1>6
<1>8. d = NoCheckout \/ d \in OwingType
  BY <1>3, <1>6 DEF OwingType
<1>9. \A x \in Checkouts : checkout'[x] = IF x = q THEN d ELSE checkout[x]
  <2> HIDE DEF d
  <2> QED
    BY <1>1, <1>2 DEF LedgerTyped
<1>10. LedgerTyped'
  <2>1. Len(placed') <= MaxPlaced
    BY <1>2, <1>6, <1>7, CheckoutAssumption
  <2> HIDE DEF d, o
  <2> QED
    BY <1>1, <1>2, <1>7, <1>8, <2>1 DEF LedgerTyped
<1>11. \A x \in Checkouts, i \in 1..n : OwesFor(x, i)' <=> OwesFor(x, i)
  <2>1. \A i \in 1..n : ~OwesFor(q, i)
    BY <1>2, StagesDiffer DEF OwesFor
  <2>2. \A i \in 1..n : ~OwesFor(q, i)'
    <3>1. d.stage = "owing" => d.order = n + 1
      BY <1>8, StagesDiffer
    <3> HIDE DEF d
    <3> QED
      BY <1>6, <1>9, <3>1 DEF OwesFor
  <2> HIDE DEF d
  <2> QED
    BY <1>9, <2>1, <2>2 DEF OwesFor
<1>12. CheckoutsFit'
  <2>1. ASSUME NEW x \in Checkouts
        PROVE  PricedFits(checkout[x])' /\ OwingFits(checkout[x])'
    <3>1. CASE x = q
      <4>1. CASE d = NoCheckout
        <5> HIDE DEF d
        <5> QED
          BY <1>9, <3>1, <4>1, StagesDiffer DEF PricedFits, OwingFits
      <4>2. CASE d # NoCheckout
        <5>1. d = [stage |-> "owing", order |-> n + 1, share |-> c.share] /\ d \in OwingType
              /\ c.share # 0
          BY <1>8, <4>2
        <5>2. d.order = n + 1 /\ d.share = c.share /\ d \notin PricedType
          BY <5>1, StagesDiffer
        <5>3. d.order \in 1..Len(placed') /\ placed'[d.order] = o
          BY <1>6, <1>7, <5>2
        <5> HIDE DEF d, o, c
        <5> QED
          BY <1>2, <1>4, <1>5, <1>9, <3>1, <5>1, <5>2, <5>3 DEF PricedFits, OwingFits
      <4> QED
        BY <4>1, <4>2
    <3>2. CASE x # q
      <4>1. PricedFits(checkout[x]) /\ OwingFits(checkout[x]) /\ checkout'[x] = checkout[x]
        BY <1>1, <1>9, <3>2 DEF CheckoutsFit
      <4> HIDE DEF o, d, c
      <4> QED
        BY <1>2, <1>6, <1>7, <4>1 DEF PricedFits, OwingFits
    <3> QED
      BY <3>1, <3>2
  <2>2. ASSUME NEW x \in Checkouts, NEW y \in Checkouts, NEW i \in 1..Len(placed'),
               OwesFor(x, i)', OwesFor(y, i)'
        PROVE  x = y
    <3>1. CASE i \in 1..n
      BY <1>1, <1>6, <1>11, <2>2, <3>1 DEF CheckoutsFit
    <3>2. CASE i = n + 1
      <4>1. \A z \in Checkouts : z # q => ~OwesFor(z, n + 1)'
        <5>1. \A z \in Checkouts : OwingFits(checkout[z])
          BY <1>1 DEF CheckoutsFit
        <5>2. \A z \in Checkouts : checkout[z].stage = "owing" => checkout[z].order \in 1..n
          BY <1>1, <1>6, <5>1, StagesDiffer DEF LedgerTyped, OwingFits
        <5> HIDE DEF d
        <5> QED
          BY <1>6, <1>9, <5>2 DEF OwesFor
      <4> QED
        BY <2>2, <3>2, <4>1
    <3> QED
      BY <1>6, <1>7, <3>1, <3>2
  <2> QED
    BY <2>1, <2>2 DEF CheckoutsFit
<1>13. PlacedAddUp'
  <2>1. ASSUME NEW i \in 1..n
        PROVE  PlacedFit(i)'
    <3> HIDE DEF d, o, c
    <3> QED
      BY <1>1, <1>6, <1>7, <1>11 DEF PlacedAddUp, PlacedFit
  <2>2. PlacedFit(n + 1)'
    <3>1. CASE c.share = 0
      <4> HIDE DEF o, d
      <4> QED
        BY <1>4, <1>5, <1>7, <1>14, <3>1 DEF PlacedFit
    <3>2. CASE c.share # 0
      <4>1. d = [stage |-> "owing", order |-> n + 1, share |-> c.share]
        BY <3>2
      <4>2. OwesFor(q, n + 1)'
        BY <1>9, <4>1 DEF OwesFor
      <4> HIDE DEF o, d
      <4> QED
        BY <1>4, <1>5, <1>7, <1>14, <4>2 DEF PlacedFit
    <3> QED
      BY <3>1, <3>2
  <2> QED
    <3> HIDE DEF d, o, c
    <3> QED
      BY <1>6, <1>7, <2>1, <2>2 DEF PlacedAddUp
<1> QED
  BY <1>10, <1>12, <1>13 DEF CheckoutInv

\* Who owes has an order, which nobody else owes for.
LEMMA OwerHasOrder ==
    ASSUME CheckoutInv, NEW q \in Checkouts, checkout[q].stage = "owing"
    PROVE  /\ checkout[q].order \in 1..Len(placed) /\ checkout[q].share \in Nat
           /\ placed[checkout[q].order].share = checkout[q].share
           /\ placed[checkout[q].order].debited = 0
           /\ placed[checkout[q].order].alone => placed[checkout[q].order].available = funds
           /\ \A x \in Checkouts : OwesFor(x, checkout[q].order) => x = q
<1>1. checkout[q] \in OwingType
  BY StagesDiffer DEF CheckoutInv, LedgerTyped
<1>2. OwingFits(checkout[q]) /\ OwesFor(q, checkout[q].order)
  BY DEF CheckoutInv, CheckoutsFit, OwesFor
<1>3. checkout[q].order \in 1..Len(placed)
  BY <1>1, <1>2 DEF OwingFits
<1> QED
  BY <1>1, <1>2, <1>3 DEF CheckoutInv, CheckoutsFit, OwingFits, OwingType

\* Orders whose amounts stay, of which some are no longer alone and one may be debited.
LEMMA PlacedStay ==
    ASSUME CheckoutInv, placed' \in Seq(PlacedType), Len(placed') = Len(placed),
           \A i \in 1..Len(placed) :
              /\ placed'[i].discount = placed[i].discount /\ placed'[i].subtotal = placed[i].subtotal
              /\ placed'[i].share = placed[i].share /\ placed'[i].total = placed[i].total
              /\ placed'[i].available = placed[i].available
              /\ placed'[i].debited = placed[i].debited \/ placed'[i].debited = placed[i].share
              /\ placed'[i].alone => placed[i].alone,
           \A i \in 1..Len(placed) :
              placed'[i].alone /\ (\A x \in Checkouts : ~OwesFor(x, i)')
                 => placed'[i].debited = Due(placed[i])
    PROVE  PlacedAddUp'
<1> SUFFICES ASSUME NEW i \in 1..Len(placed) PROVE PlacedFit(i)'
  BY DEF PlacedAddUp
<1>1. PlacedFit(i)
  BY DEF CheckoutInv, PlacedAddUp
<1> QED
  BY <1>1 DEF PlacedFit, ShareFits, Due

\* A checkout that owes ends, and the orders stay as they are but for its own.
LEMMA OwingEnds ==
    ASSUME CheckoutInv, NEW q \in Checkouts, checkout[q].stage = "owing",
           SwallowDebit(q) \/ DieOwing(q)
    PROVE  CheckoutInv'
<1>1. LedgerTyped /\ CheckoutsFit /\ PlacedAddUp
  BY DEF CheckoutInv
<1>2. PICK n \in 1..Len(placed) : n = checkout[q].order
  BY OwerHasOrder
<1>3. /\ checkout' = [checkout EXCEPT ![q] = NoCheckout] /\ UNCHANGED <<blacklist, risk, funds>>
      /\ \/ placed' = placed /\ funds < checkout[q].share
         \/ placed' = [placed EXCEPT ![n].alone = FALSE]
  BY <1>2 DEF SwallowDebit, DieOwing
<1>4. \A x \in Checkouts : checkout'[x] = IF x = q THEN NoCheckout ELSE checkout[x]
  BY <1>1, <1>3 DEF LedgerTyped
<1>5. /\ placed' \in Seq(PlacedType) /\ Len(placed') = Len(placed)
      /\ \A i \in 1..Len(placed) :
            /\ placed'[i].discount = placed[i].discount /\ placed'[i].subtotal = placed[i].subtotal
            /\ placed'[i].share = placed[i].share /\ placed'[i].total = placed[i].total
            /\ placed'[i].available = placed[i].available
            /\ placed'[i].debited = placed[i].debited
            /\ placed'[i].alone => placed[i].alone
            /\ i # n => placed'[i].alone = placed[i].alone
      /\ placed'[n].alone => Due(placed[n]) = 0
  <2>1. placed \in Seq(PlacedType) /\ placed[n] \in PlacedType
    BY <1>1 DEF LedgerTyped
  <2>2. CASE placed' = placed /\ funds < checkout[q].share
    <3>1. placed[n].alone => Due(placed[n]) = 0
      <4>1. placed[n].share = checkout[q].share
            /\ (placed[n].alone => placed[n].available = funds)
        BY <1>2, OwerHasOrder
      <4>2. checkout[q].share \in Nat /\ funds \in Nat
        BY <1>1, OwerHasOrder, CheckoutAssumption DEF LedgerTyped
      <4> QED
        BY <2>2, <4>1, <4>2 DEF Due
    <3> QED
      BY <2>1, <2>2, <3>1
  <2>3. CASE placed' = [placed EXCEPT ![n].alone = FALSE]
    <3> DEFINE o == [placed[n] EXCEPT !.alone = FALSE]
    <3>1. o \in PlacedType /\ o.alone = FALSE /\ o.discount = placed[n].discount
          /\ o.subtotal = placed[n].subtotal /\ o.share = placed[n].share /\ o.total = placed[n].total
          /\ o.available = placed[n].available
          /\ o.debited = placed[n].debited
      BY <2>1 DEF PlacedType
    <3>2. placed' = [placed EXCEPT ![n] = o]
      BY <2>3
    <3> HIDE DEF o
    <3>3. placed' \in Seq(PlacedType) /\ Len(placed') = Len(placed)
          /\ \A i \in 1..Len(placed) : placed'[i] = IF i = n THEN o ELSE placed[i]
      BY <2>1, <3>1, <3>2
    <3> QED
      BY <3>1, <3>3
  <2> QED
    BY <1>3, <2>2, <2>3
<1>6. LedgerTyped'
  BY <1>1, <1>3, <1>5 DEF LedgerTyped
<1>7. \A x \in Checkouts, i \in 1..Len(placed) :
         /\ OwesFor(x, i)' => OwesFor(x, i)
         /\ i # n => (OwesFor(x, i)' <=> OwesFor(x, i))
  BY <1>2, <1>4, StagesDiffer DEF OwesFor
<1>8. CheckoutsFit'
  <2>1. ASSUME NEW x \in Checkouts
        PROVE  PricedFits(checkout[x])' /\ OwingFits(checkout[x])'
    <3>1. PricedFits(checkout[x]) /\ OwingFits(checkout[x])
      BY <1>1 DEF CheckoutsFit
    <3> QED
      BY <1>3, <1>4, <1>5, <3>1, StagesDiffer DEF PricedFits, OwingFits
  <2> QED
    BY <1>1, <1>5, <1>7, <2>1 DEF CheckoutsFit
<1>9. PlacedAddUp'
  <2>1. ASSUME NEW i \in 1..Len(placed), placed'[i].alone, \A x \in Checkouts : ~OwesFor(x, i)'
        PROVE  placed'[i].debited = Due(placed[i])
    <3>1. CASE i = n
      <4>1. placed[n].debited = 0
        BY <1>2, OwerHasOrder
      <4> QED
        BY <1>5, <2>1, <3>1, <4>1
    <3>2. CASE i # n
      BY <1>1, <1>5, <1>7, <2>1, <3>2 DEF PlacedAddUp, PlacedFit
    <3> QED
      BY <3>1, <3>2
  <2> QED
    BY <1>5, <2>1, PlacedStay
<1> QED
  BY <1>6, <1>8, <1>9 DEF CheckoutInv

\* The debit: the order says so, and whoever counts on the wallet is no longer alone.
LEMMA DebitKeeps ==
    ASSUME CheckoutInv, NEW q \in Checkouts, DebitShare(q)
    PROVE  CheckoutInv'
<1>1. LedgerTyped /\ CheckoutsFit /\ PlacedAddUp /\ checkout[q].stage = "owing"
  BY DEF CheckoutInv, DebitShare
<1>2. PICK n \in 1..Len(placed) : n = checkout[q].order
  BY <1>1, OwerHasOrder
<1>3. PICK amount \in Nat : amount = checkout[q].share /\ placed[n].share = amount
  BY <1>1, <1>2, OwerHasOrder
<1>4. funds >= amount /\ funds' = funds - amount /\ UNCHANGED <<blacklist, risk>>
  BY <1>3 DEF DebitShare, TakeFunds
<1>5. \A x \in Checkouts :
         checkout'[x] = IF x = q THEN NoCheckout
                        ELSE IF checkout[x].stage \in {"priced", "ready"}
                        THEN [checkout[x] EXCEPT !.alone = FALSE] ELSE checkout[x]
  BY DEF DebitShare, TakeFunds
<1>6. \A x \in Checkouts :
         /\ checkout[x] \in PricedType /\ x # q =>
               /\ checkout'[x] \in PricedType /\ ~checkout'[x].alone
               /\ checkout'[x].discount = checkout[x].discount
               /\ checkout'[x].subtotal = checkout[x].subtotal
               /\ checkout'[x].share = checkout[x].share /\ checkout'[x].total = checkout[x].total
               /\ checkout'[x].available = checkout[x].available
         /\ checkout[x] \notin PricedType /\ x # q => checkout'[x] = checkout[x]
  <2> SUFFICES ASSUME NEW x \in Checkouts, x # q
               PROVE  /\ checkout[x] \in PricedType =>
                            /\ checkout'[x] \in PricedType /\ ~checkout'[x].alone
                            /\ checkout'[x].discount = checkout[x].discount
                            /\ checkout'[x].subtotal = checkout[x].subtotal
                            /\ checkout'[x].share = checkout[x].share
                            /\ checkout'[x].total = checkout[x].total
                            /\ checkout'[x].available = checkout[x].available
                      /\ checkout[x] \notin PricedType => checkout'[x] = checkout[x]
    OBVIOUS
  <2>1. CASE checkout[x] \in PricedType
    <3>1. checkout'[x] = [checkout[x] EXCEPT !.alone = FALSE]
      BY <1>5, <2>1, StagesDiffer
    <3> QED
      BY <2>1, <3>1 DEF PricedType
  <2>2. CASE checkout[x] \notin PricedType
    <3>1. checkout[x].stage \notin {"priced", "ready"}
      BY <1>1, <2>2, StagesDiffer DEF LedgerTyped
    <3> QED
      BY <1>5, <2>2, <3>1
  <2> QED
    BY <2>1, <2>2
<1>7. checkout' \in [Checkouts -> {NoCheckout} \cup GatedType \cup PricedType \cup OwingType]
  <2>1. \A x \in Checkouts : checkout'[x] \in {NoCheckout} \cup GatedType \cup PricedType \cup OwingType
    BY <1>1, <1>5, <1>6 DEF LedgerTyped
  <2>2. \E f : checkout' = [x \in Checkouts |-> f[x]]
    <3>1. checkout' = [x \in Checkouts |-> checkout'[x]]
      BY DEF DebitShare, TakeFunds
    <3> QED
      BY <3>1
  <2> QED
    BY <2>1, <2>2
<1>8. \A x \in Checkouts, i \in 1..Len(placed) :
         /\ OwesFor(x, i)' => OwesFor(x, i) /\ x # q
         /\ x # q => (OwesFor(x, i)' <=> OwesFor(x, i))
  <2>1. \A x \in Checkouts : checkout[x] \in PricedType => checkout[x].stage # "owing"
    BY StagesDiffer
  <2>2. \A x \in Checkouts : checkout'[x] \in PricedType => checkout'[x].stage # "owing"
    BY StagesDiffer
  <2>3. checkout'[q].stage # "owing"
    BY <1>5, StagesDiffer
  <2> QED
    BY <1>6, <2>1, <2>2, <2>3 DEF OwesFor
<1>9. /\ placed' \in Seq(PlacedType) /\ Len(placed') = Len(placed)
      /\ \A i \in 1..Len(placed) :
            /\ placed'[i].discount = placed[i].discount /\ placed'[i].subtotal = placed[i].subtotal
            /\ placed'[i].share = placed[i].share /\ placed'[i].total = placed[i].total
            /\ placed'[i].available = placed[i].available
            /\ placed'[i].debited = IF i = n THEN amount ELSE placed[i].debited
            /\ placed'[i].alone => placed[i].alone
            /\ i # n /\ (\E x \in Checkouts : x # q /\ OwesFor(x, i)) => ~placed'[i].alone
  <2> DEFINE others(i) == \E x \in Checkouts \ {q} : checkout[x].stage = "owing" /\ i = checkout[x].order
             new(i) == IF i = n THEN [placed[i] EXCEPT !.debited = amount]
                       ELSE IF others(i) THEN [placed[i] EXCEPT !.alone = FALSE] ELSE placed[i]
  <2>1. placed \in Seq(PlacedType) /\ Len(placed) \in Nat
        /\ \A i \in 1..Len(placed) : placed[i] \in PlacedType
    BY <1>1 DEF LedgerTyped
  <2>2. placed' = [i \in 1..Len(placed) |-> new(i)]
    <3>1. placed' = [i \in DOMAIN placed |->
             IF checkout[q].stage = "owing" /\ i = checkout[q].order
             THEN [placed[i] EXCEPT !.debited = checkout[q].share]
             ELSE IF others(i) THEN [placed[i] EXCEPT !.alone = FALSE] ELSE placed[i]]
      BY DEF DebitShare, TakeFunds
    <3> HIDE DEF others
    <3>2. DOMAIN placed = 1..Len(placed)
      BY <2>1
    <3> QED
      BY <1>1, <1>2, <1>3, <3>1, <3>2
  <2>3. ASSUME NEW i \in 1..Len(placed)
        PROVE  /\ new(i) \in PlacedType
               /\ new(i).discount = placed[i].discount /\ new(i).subtotal = placed[i].subtotal
               /\ new(i).share = placed[i].share /\ new(i).total = placed[i].total
               /\ new(i).available = placed[i].available
               /\ new(i).debited = IF i = n THEN amount ELSE placed[i].debited
               /\ new(i).alone => placed[i].alone
               /\ i # n /\ others(i) => ~new(i).alone
    <3> HIDE DEF others
    <3>1. placed[i] \in PlacedType
      BY <2>1
    <3>2. CASE i = n
      BY <3>1, <3>2 DEF PlacedType
    <3>3. CASE i # n /\ others(i)
      BY <3>1, <3>3 DEF PlacedType
    <3>4. CASE i # n /\ ~others(i)
      BY <3>1, <3>4
    <3> QED
      BY <3>2, <3>3, <3>4
  <2>4. \A i \in 1..Len(placed) : (\E x \in Checkouts : x # q /\ OwesFor(x, i)) => others(i)
    BY DEF OwesFor
  <2> HIDE DEF new, others
  <2>5. placed' \in Seq(PlacedType) /\ Len(placed') = Len(placed)
        /\ \A i \in 1..Len(placed) : placed'[i] = new(i)
    BY <2>1, <2>2, <2>3
  <2> QED
    BY <2>3, <2>4, <2>5
<1>10. funds' \in 0..Funds
  BY <1>1, <1>3, <1>4, CheckoutAssumption DEF LedgerTyped
<1>11. LedgerTyped'
  BY <1>1, <1>4, <1>7, <1>9, <1>10 DEF LedgerTyped
<1>12. CheckoutsFit'
  <2>1. ASSUME NEW x \in Checkouts
        PROVE  PricedFits(checkout[x])' /\ OwingFits(checkout[x])'
    <3>1. PricedFits(checkout[x]) /\ OwingFits(checkout[x])
      BY <1>1 DEF CheckoutsFit
    <3>2. CASE x = q
      <4>1. checkout'[x] = NoCheckout
        BY <1>5, <3>2
      <4> QED
        BY <4>1, StagesDiffer DEF PricedFits, OwingFits
    <3>3. CASE x # q /\ checkout[x] \in PricedType
      <4>1. checkout'[x] \notin OwingType /\ checkout[x] \in PricedType
        BY <1>6, <3>3, StagesDiffer
      <4> QED
        BY <1>6, <3>1, <3>3, <4>1 DEF PricedFits, OwingFits, ShareFits
    <3>4. CASE x # q /\ checkout[x] \notin PricedType
      <4>1. checkout'[x] = checkout[x]
        BY <1>6, <3>4
      <4>2. ASSUME checkout[x] \in OwingType
            PROVE  /\ checkout[x].order \in 1..Len(placed) /\ checkout[x].order # n
                   /\ OwesFor(x, checkout[x].order)
        <5>1. checkout[x].stage = "owing"
          BY <4>2, StagesDiffer
        <5>2. checkout[x].order \in 1..Len(placed)
          BY <5>1, OwerHasOrder
        <5>3. \A y \in Checkouts : OwesFor(y, n) => y = q
          BY <1>1, <1>2, OwerHasOrder
        <5> QED
          BY <3>4, <5>1, <5>2, <5>3 DEF OwesFor
      <4>3. OwingFits(checkout[x])'
        BY <1>9, <3>1, <3>4, <4>1, <4>2 DEF OwingFits
      <4> QED
        BY <3>4, <4>1, <4>3 DEF PricedFits
    <3> QED
      BY <3>2, <3>3, <3>4
  <2> QED
    BY <1>1, <1>8, <1>9, <2>1 DEF CheckoutsFit
<1>13. PlacedAddUp'
  <2>1. ASSUME NEW i \in 1..Len(placed), placed'[i].alone, \A x \in Checkouts : ~OwesFor(x, i)'
        PROVE  placed'[i].debited = Due(placed[i])
    <3>1. CASE i = n
      <4>1. placed[n].alone => placed[n].available = funds
        BY <1>1, <1>2, OwerHasOrder
      <4> QED
        BY <1>3, <1>4, <1>9, <2>1, <3>1, <4>1 DEF Due
    <3>2. CASE i # n
      <4>1. ~OwesFor(q, i)
        BY <1>2, <3>2 DEF OwesFor
      <4>2. \A x \in Checkouts : ~OwesFor(x, i)
        BY <1>8, <2>1, <4>1
      <4> QED
        BY <1>1, <1>9, <2>1, <3>2, <4>2 DEF PlacedAddUp, PlacedFit
    <3> QED
      BY <3>1, <3>2
  <2>2. \A i \in 1..Len(placed) : placed'[i].debited = placed[i].debited \/ placed'[i].debited = placed[i].share
    BY <1>3, <1>9
  <2> QED
    BY <1>9, <2>1, <2>2, PlacedStay
<1> QED
  BY <1>11, <1>12, <1>13 DEF CheckoutInv

LEMMA CheckoutKeeps == CheckoutSpec => []CheckoutInv
<1>1. CheckoutInv /\ [CheckoutNext]_checkoutVars => CheckoutInv'
  <2>1. \A q \in Checkouts : SwallowDebit(q) \/ DieOwing(q) => checkout[q].stage = "owing"
    BY DEF SwallowDebit, DieOwing
  <2> QED
    BY <2>1, FraudKeeps, OrderReturned, PricingKeeps, CommitKeepsCheckouts, DebitKeeps, OwingEnds
       DEF CheckoutNext
<1> QED
  BY <1>1, CheckoutStarts, PTL DEF CheckoutSpec

\* orders.service.ts:226: no order costs less than nothing or gives more off than it
\* costs; its share of the wallet is whole cents, at most half a cent above what is to
\* be paid and above what the wallet had; and the share that the order says the wallet
\* paid was debited, unless rounding took it above what was there, the wallet was used
\* by others, or the process died in between (line 366).  The score that blocks is for
\* both abuses at once (fraud.service.ts:18).
THEOREM AmountsAlwaysAddUp == CheckoutSpec => [](CheckoutTypeOK /\ AmountsAddUp /\ HighRiskIsBothAbuses)
<1>1. CheckoutInv => CheckoutTypeOK /\ AmountsAddUp /\ HighRiskIsBothAbuses
  BY CheckoutInvShows, HighRiskHolds
<1> QED
  BY <1>1, CheckoutKeeps, PTL
-----------------------------------------------------------------------------
\* The two tables of each registry, for any plugins and names.

CronsTyped ==
    /\ cronOf \in [PluginIds -> Names \cup {NoCron}]
    /\ cronNames = [n \in DOMAIN cronNames |-> cronNames[n]]
    /\ queuesOf = [p \in PluginIds |-> queuesOf[p]]
    /\ \A q \in queueRows : q.plugin \in PluginIds

\* The names taken are those of the plugins' crons, ...
CronsAgree ==
    \A n, p : (n \in DOMAIN cronNames /\ cronNames[n] = p)
                <=> (p \in PluginIds /\ cronOf[p] # NoCron /\ n = Prefixed(p, cronOf[p]))
\* ... and a queue belongs to the plugin that lists it, and to no other.
QueuesAgree ==
    /\ \A p \in PluginIds : queuesOf[p] = {q.name : q \in {r \in queueRows : r.plugin = p}}
    /\ \A q, r \in queueRows : q.name = r.name => q.plugin = r.plugin

TablesInv == CronsTyped /\ CronsAgree /\ QueuesAgree

LEMMA TablesInvShows == TablesInv => TablesAgree
<1> SUFFICES ASSUME TablesInv
             PROVE  {<<Prefixed(p, cronOf[p]), p>> : p \in {x \in PluginIds : cronOf[x] # NoCron}}
                      = {<<n, cronNames[n]>> : n \in DOMAIN cronNames}
  BY DEF TablesAgree, TablesInv, QueuesAgree
<1>1. ASSUME NEW p \in PluginIds, cronOf[p] # NoCron
      PROVE  <<Prefixed(p, cronOf[p]), p>> \in {<<n, cronNames[n]>> : n \in DOMAIN cronNames}
  BY <1>1 DEF TablesInv, CronsAgree
<1>2. ASSUME NEW n \in DOMAIN cronNames
      PROVE  <<n, cronNames[n]>>
               \in {<<Prefixed(p, cronOf[p]), p>> : p \in {x \in PluginIds : cronOf[x] # NoCron}}
  BY DEF TablesInv, CronsAgree
<1> QED
  BY <1>1, <1>2

\* A plugin's cron comes (plugin-cron.registry.ts:35) and goes.
LEMMA CronsKeep ==
    ASSUME TablesInv, NEW p \in PluginIds,
           (\E n \in Names : RegisterCron(p, n)) \/ UnregisterCron(p)
    PROVE  TablesInv'
<1>1. CronsTyped /\ CronsAgree /\ QueuesAgree
  BY DEF TablesInv
<1>2. UNCHANGED <<queueRows, queuesOf>>
  BY DEF RegisterCron, UnregisterCron
<1>3. QueuesAgree'
  BY <1>1, <1>2 DEF QueuesAgree
<1>4. ASSUME NEW n \in Names, RegisterCron(p, n)
      PROVE  CronsTyped' /\ CronsAgree'
  <2> DEFINE new == Prefixed(p, n)
  <2>1. /\ cronOf[p] = NoCron /\ new \notin DOMAIN cronNames /\ n # NoCron
        /\ cronOf' = [cronOf EXCEPT ![p] = n]
        /\ cronNames' = [x \in DOMAIN cronNames \cup {new} |-> IF x = new THEN p ELSE cronNames[x]]
    BY <1>4, NamesAssumption DEF RegisterCron, NoCron
  <2>2. \A x \in PluginIds : cronOf'[x] = IF x = p THEN n ELSE cronOf[x]
    BY <1>1, <2>1 DEF CronsTyped
  <2> HIDE DEF new
  <2>3. DOMAIN cronNames' = DOMAIN cronNames \cup {new}
        /\ \A x \in DOMAIN cronNames' : cronNames'[x] = IF x = new THEN p ELSE cronNames[x]
    BY <2>1
  <2>4. CronsTyped'
    BY <1>1, <1>2, <2>1 DEF CronsTyped
  <2>5. ASSUME NEW m, NEW x
        PROVE  (m \in DOMAIN cronNames' /\ cronNames'[m] = x)
                 <=> (x \in PluginIds /\ cronOf'[x] # NoCron /\ m = Prefixed(x, cronOf'[x]))
    <3>1. CASE x = p
      BY <1>1, <2>1, <2>2, <2>3, <3>1 DEF CronsAgree, new
    <3>2. CASE x # p
      BY <1>1, <2>1, <2>2, <2>3, <3>2 DEF CronsAgree
    <3> QED
      BY <3>1, <3>2
  <2> QED
    BY <2>4, <2>5 DEF CronsAgree
<1>5. CASE UnregisterCron(p)
  <2> DEFINE old == Prefixed(p, cronOf[p])
  <2>1. /\ cronOf[p] # NoCron
        /\ cronOf' = [cronOf EXCEPT ![p] = NoCron]
        /\ cronNames' = [x \in DOMAIN cronNames \ {old} |-> cronNames[x]]
    BY <1>5 DEF UnregisterCron
  <2>2. \A x \in PluginIds : cronOf'[x] = IF x = p THEN NoCron ELSE cronOf[x]
    BY <1>1, <2>1 DEF CronsTyped
  <2>3. old \in DOMAIN cronNames /\ cronNames[old] = p
    BY <1>1, <2>1 DEF CronsAgree
  <2> HIDE DEF old
  <2>4. DOMAIN cronNames' = DOMAIN cronNames \ {old}
        /\ \A x \in DOMAIN cronNames' : cronNames'[x] = cronNames[x]
    BY <2>1
  <2>5. CronsTyped'
    BY <1>1, <1>2, <2>1 DEF CronsTyped
  <2>6. ASSUME NEW m, NEW x
        PROVE  (m \in DOMAIN cronNames' /\ cronNames'[m] = x)
                 <=> (x \in PluginIds /\ cronOf'[x] # NoCron /\ m = Prefixed(x, cronOf'[x]))
    <3>1. CASE x = p
      BY <1>1, <2>2, <2>3, <2>4, <3>1 DEF CronsAgree, old
    <3>2. CASE x # p
      BY <1>1, <2>2, <2>3, <2>4, <3>2 DEF CronsAgree
    <3> QED
      BY <3>1, <3>2
  <2> QED
    BY <1>3, <2>5, <2>6 DEF CronsAgree, TablesInv
<1> QED
  BY <1>3, <1>4, <1>5 DEF TablesInv

\* A plugin's queue comes (plugin-queue.registry.ts:38), and all of them go.
LEMMA QueuesKeep ==
    ASSUME TablesInv, NEW p \in PluginIds,
           (\E n \in Names, c \in 1..MaxConcurrency : RegisterQueue(p, n, c)) \/ UnregisterQueues(p)
    PROVE  TablesInv'
<1>1. CronsTyped /\ CronsAgree /\ QueuesAgree
  BY DEF TablesInv
<1>2. UNCHANGED <<cronOf, cronNames>>
  BY DEF RegisterQueue, UnregisterQueues
<1>3. CronsAgree'
  BY <1>1, <1>2 DEF CronsAgree
<1>4. ASSUME NEW n \in Names, NEW c \in 1..MaxConcurrency, RegisterQueue(p, n, c)
      PROVE  CronsTyped' /\ QueuesAgree'
  <2> DEFINE row == [name |-> Prefixed(p, n), plugin |-> p, concurrency |-> c]
  <2>1. /\ \A q \in queueRows : q.name # row.name
        /\ queueRows' = queueRows \cup {row}
        /\ queuesOf' = [queuesOf EXCEPT ![p] = @ \cup {row.name}]
        /\ row.plugin = p
    BY <1>4 DEF RegisterQueue
  <2> HIDE DEF row
  <2>2. \A x \in PluginIds : queuesOf'[x] = IF x = p THEN queuesOf[p] \cup {row.name} ELSE queuesOf[x]
    BY <1>1, <2>1 DEF CronsTyped
  <2>3. CronsTyped'
    BY <1>1, <1>2, <2>1 DEF CronsTyped
  <2>4. ASSUME NEW x \in PluginIds
        PROVE  queuesOf'[x] = {q.name : q \in {r \in queueRows' : r.plugin = x}}
    <3>1. queuesOf[x] = {q.name : q \in {r \in queueRows : r.plugin = x}}
      BY <1>1 DEF QueuesAgree
    <3>2. CASE x = p
      <4>1. {r \in queueRows' : r.plugin = x} = {r \in queueRows : r.plugin = x} \cup {row}
        BY <2>1, <3>2
      <4> QED
        BY <2>2, <3>1, <3>2, <4>1
    <3>3. CASE x # p
      <4>1. {r \in queueRows' : r.plugin = x} = {r \in queueRows : r.plugin = x}
        BY <2>1, <3>3
      <4> QED
        BY <2>2, <3>1, <3>3, <4>1
    <3> QED
      BY <3>2, <3>3
  <2>5. \A q, r \in queueRows' : q.name = r.name => q.plugin = r.plugin
    BY <1>1, <2>1 DEF QueuesAgree
  <2> QED
    BY <2>3, <2>4, <2>5 DEF QueuesAgree
<1>5. CASE UnregisterQueues(p)
  <2>1. /\ queueRows' = {q \in queueRows : q.name \notin queuesOf[p]}
        /\ queuesOf' = [queuesOf EXCEPT ![p] = {}]
    BY <1>5 DEF UnregisterQueues
  <2>2. \A x \in PluginIds : queuesOf'[x] = IF x = p THEN {} ELSE queuesOf[x]
    BY <1>1, <2>1 DEF CronsTyped
  <2>3. CronsTyped'
    BY <1>1, <1>2, <2>1 DEF CronsTyped
  <2>4. \A q \in queueRows : q.name \in queuesOf[p] <=> q.plugin = p
    <3>1. queuesOf[p] = {q.name : q \in {r \in queueRows : r.plugin = p}}
      BY <1>1 DEF QueuesAgree
    <3> QED
      BY <1>1, <3>1 DEF QueuesAgree
  <2>5. ASSUME NEW x \in PluginIds
        PROVE  queuesOf'[x] = {q.name : q \in {r \in queueRows' : r.plugin = x}}
    <3>1. queuesOf[x] = {q.name : q \in {r \in queueRows : r.plugin = x}}
      BY <1>1 DEF QueuesAgree
    <3>2. CASE x = p
      <4>1. {r \in queueRows' : r.plugin = x} = {}
        BY <2>1, <2>4, <3>2
      <4> QED
        BY <2>2, <3>2, <4>1
    <3>3. CASE x # p
      <4>1. {r \in queueRows' : r.plugin = x} = {r \in queueRows : r.plugin = x}
        BY <2>1, <2>4, <3>3
      <4> QED
        BY <2>2, <3>1, <3>3, <4>1
    <3> QED
      BY <3>2, <3>3
  <2>6. \A q, r \in queueRows' : q.name = r.name => q.plugin = r.plugin
    BY <1>1, <2>1 DEF QueuesAgree
  <2> QED
    BY <1>3, <2>3, <2>5, <2>6 DEF QueuesAgree, TablesInv
<1> QED
  BY <1>3, <1>4, <1>5 DEF TablesInv

LEMMA TablesInvHolds == PlatformSpec => []TablesInv
<1>1. RegistriesInit => TablesInv
  BY DEF RegistriesInit, TablesInv, CronsTyped, CronsAgree, QueuesAgree
<1>2. ASSUME TablesInv, [RegistriesNext \/ PermitsNext]_platformVars
      PROVE  TablesInv'
  <2>1. ASSUME UNCHANGED <<cronOf, cronNames, queueRows, queuesOf>>
        PROVE  TablesInv'
    BY <1>2, <2>1 DEF TablesInv, CronsTyped, CronsAgree, QueuesAgree
  <2>2. CASE UNCHANGED platformVars \/ PermitsNext
    BY <2>1, <2>2 DEF platformVars, registryVars, PermitsNext, Acquire, TimeOut, Release
  <2>3. CASE RegistriesNext
    <3>1. ASSUME NEW t \in StrategyTypes, NEW p \in PluginIds, NEW n \in Priorities,
                 RegisterStrategy(t, p, n)
          PROVE  TablesInv'
      BY <2>1, <3>1 DEF RegisterStrategy
    <3>2. ASSUME NEW p \in PluginIds, UnregisterStrategies(p)
          PROVE  TablesInv'
      BY <2>1, <3>2 DEF UnregisterStrategies
    <3> QED
      BY <1>2, <2>3, <3>1, <3>2, CronsKeep, QueuesKeep DEF RegistriesNext
  <2> QED
    BY <1>2, <2>2, <2>3
<1> QED
  BY <1>1, <1>2, PTL DEF PlatformSpec

\* plugin-cron.registry.ts:36, plugin-queue.registry.ts:38: the two tables of a registry
\* say the same, for any plugins that come and go, and names that collide.
THEOREM TablesAlwaysAgree == PlatformSpec => []TablesAgree
BY TablesInvHolds, TablesInvShows, PTL

\* What the registries keep has its types: taking out the strategies of a plugin leaves a list
\* of strategies.
LEMMA OthersTyped ==
    ASSUME NEW s \in Seq(Strategy), NEW p
    PROVE  OthersThan(s, p) \in Seq(Strategy)
<1> DEFINE rest == {i \in 1..Len(s) : s[i].plugin # p}
           at(j) == CHOOSE i \in rest : PlaceIn(rest, i) = j - 1
<1>1. Len(s) \in Nat /\ rest \in SUBSET (1..Len(s)) /\ rest \in SUBSET Nat
  OBVIOUS
<1>2. IsFiniteSet(rest)
  <2>1. IsFiniteSet(1..Len(s))
    BY <1>1, FS_Interval
  <2> QED
    BY <1>1, <2>1, FS_Subset
<1>3. OthersThan(s, p) = [j \in 1..Cardinality(rest) |-> s[at(j)]]
  BY DEF OthersThan, PlaceIn
<1>4. Cardinality(rest) \in Nat
  BY <1>2, FS_CardinalityType
<1>5. \A j \in 1..Cardinality(rest) : at(j) \in 1..Len(s)
  <2> HIDE DEF rest
  <2>1. \A i \in 0..(Cardinality(rest) - 1) : \E w \in rest : PlaceIn(rest, w) = i
    BY <1>1, <1>2, PlacesAreAll
  <2> SUFFICES ASSUME NEW j \in 1..Cardinality(rest) PROVE at(j) \in rest
    BY <1>1
  <2>2. j - 1 \in 0..(Cardinality(rest) - 1)
    BY <1>4
  <2> QED
    BY <2>1, <2>2
<1>6. \A j \in 1..Cardinality(rest) : s[at(j)] \in Strategy
  <2> HIDE DEF rest, at
  <2>1. \A i \in 1..Len(s) : s[i] \in Strategy
    OBVIOUS
  <2> QED
    BY <1>5, <2>1
<1> HIDE DEF rest, at
<1> QED
  BY <1>3, <1>4, <1>6

\* The lists of strategies and the queues, with the tables of both.
StrategiesTyped == strategies \in [StrategyTypes -> Seq(Strategy)]

LEMMA StrategiesKeep ==
    ASSUME StrategiesTyped,
           \/ \E t \in StrategyTypes, p \in PluginIds, n \in Priorities : RegisterStrategy(t, p, n)
           \/ \E p \in PluginIds : UnregisterStrategies(p)
    PROVE  StrategiesTyped'
<1>1. ASSUME NEW p \in PluginIds, UnregisterStrategies(p)
      PROVE  StrategiesTyped'
  <2>1. \A t \in StrategyTypes : OthersThan(strategies[t], p) \in Seq(Strategy)
    BY OthersTyped DEF StrategiesTyped
  <2> QED
    BY <1>1, <2>1 DEF UnregisterStrategies, StrategiesTyped
<1>2. ASSUME NEW t \in StrategyTypes, NEW p \in PluginIds, NEW n \in Priorities,
             RegisterStrategy(t, p, n)
      PROVE  StrategiesTyped'
  <2> DEFINE own == {i \in 1..Len(strategies[t]) : strategies[t][i].plugin = p}
             added == [plugin |-> p, priority |-> n]
             old == strategies[t]
             new == IF t \in Single THEN <<added>>
                    ELSE IF own # {} THEN [old EXCEPT ![CHOOSE i \in own : TRUE] = added]
                    ELSE Append(old, added)
  <2>1. strategies' = [strategies EXCEPT ![t] = new]
    BY <1>2 DEF RegisterStrategy
  <2>2. added \in Strategy
    BY DEF Strategy
  <2>3. old \in Seq(Strategy) /\ Len(old) \in Nat
    BY DEF StrategiesTyped
  <2>4. new \in Seq(Strategy)
    <3> HIDE DEF added, old
    <3>1. CASE t \in Single
      BY <2>2, <3>1
    <3>2. CASE t \notin Single /\ own # {}
      <4>1. PICK i : i = CHOOSE k \in own : TRUE
        OBVIOUS
      <4>2. i \in 1..Len(old) /\ new = [old EXCEPT ![i] = added]
        BY <3>2, <4>1 DEF old
      <4>3. old \in [1..Len(old) -> Strategy]
        BY <2>3
      <4>4. [old EXCEPT ![i] = added] \in [1..Len(old) -> Strategy]
        BY <2>2, <4>3
      <4> HIDE DEF new
      <4>5. \A k \in Nat : \A f \in [1..k -> Strategy] : f \in Seq(Strategy)
        OBVIOUS
      <4> QED
        BY <2>3, <4>2, <4>4, <4>5
    <3>3. CASE t \notin Single /\ own = {}
      BY <2>2, <2>3, <3>3
    <3> QED
      BY <3>1, <3>2, <3>3
  <2> HIDE DEF new
  <2> QED
    BY <2>1, <2>4 DEF StrategiesTyped
<1> QED
  BY <1>1, <1>2

QueuesTyped ==
    /\ \A q \in queueRows : q.name \in AllPrefixed /\ q.plugin \in PluginIds /\ q.concurrency \in 1..MaxConcurrency
    /\ queuesOf \in [PluginIds -> SUBSET AllPrefixed]

LEMMA QueuesStayTyped ==
    ASSUME QueuesTyped, NEW p \in PluginIds,
           (\E n \in Names, c \in 1..MaxConcurrency : RegisterQueue(p, n, c)) \/ UnregisterQueues(p)
    PROVE  QueuesTyped'
<1>1. ASSUME NEW n \in Names, NEW c \in 1..MaxConcurrency, RegisterQueue(p, n, c)
      PROVE  QueuesTyped'
  <2>1. Prefixed(p, n) \in AllPrefixed
    BY DEF AllPrefixed
  <2> QED
    BY <1>1, <2>1 DEF RegisterQueue, QueuesTyped
<1>2. CASE UnregisterQueues(p)
  BY <1>2 DEF UnregisterQueues, QueuesTyped
<1> QED
  BY <1>1, <1>2

TypesInv == StrategiesTyped /\ QueuesTyped

\* strategy-registry.ts:176, plugin-queue.registry.ts:38: types of the registries and of the permits
\* of queries, for any plugins, names and numbers of them.
THEOREM RegistriesTypeCorrect == PlatformSpec => []RegistriesTypeOK
<1>1. RegistriesInit => TypesInv
  BY DEF RegistriesInit, TypesInv, StrategiesTyped, QueuesTyped
<1>2. ASSUME TypesInv, [RegistriesNext \/ PermitsNext]_platformVars
      PROVE  TypesInv'
  <2>1. ASSUME UNCHANGED <<strategies, queueRows, queuesOf>>
        PROVE  TypesInv'
    BY <1>2, <2>1 DEF TypesInv, StrategiesTyped, QueuesTyped
  <2>2. CASE UNCHANGED platformVars \/ PermitsNext
    BY <2>1, <2>2 DEF platformVars, registryVars, PermitsNext, Acquire, TimeOut, Release
  <2>3. ASSUME NEW p \in PluginIds,
               (\E n \in Names : RegisterCron(p, n)) \/ UnregisterCron(p)
        PROVE  TypesInv'
    BY <2>1, <2>3 DEF RegisterCron, UnregisterCron
  <2>4. ASSUME NEW p \in PluginIds,
               (\E n \in Names, c \in 1..MaxConcurrency : RegisterQueue(p, n, c)) \/ UnregisterQueues(p)
        PROVE  TypesInv'
    <3>1. QueuesTyped'
      BY <1>2, <2>4, QueuesStayTyped DEF TypesInv
    <3>2. UNCHANGED strategies
      BY <2>4 DEF RegisterQueue, UnregisterQueues
    <3> QED
      BY <1>2, <3>1, <3>2 DEF TypesInv, StrategiesTyped
  <2>5. ASSUME \/ \E t \in StrategyTypes, p \in PluginIds, n \in Priorities : RegisterStrategy(t, p, n)
               \/ \E p \in PluginIds : UnregisterStrategies(p)
        PROVE  TypesInv'
    <3>1. StrategiesTyped'
      BY <1>2, <2>5, StrategiesKeep DEF TypesInv
    <3>2. UNCHANGED <<queueRows, queuesOf>>
      BY <2>5 DEF RegisterStrategy, UnregisterStrategies
    <3> QED
      BY <1>2, <3>1, <3>2 DEF TypesInv, QueuesTyped
  <2> QED
    BY <1>2, <2>2, <2>3, <2>4, <2>5 DEF RegistriesNext
<1>3. TypesInv /\ TablesInv /\ PermitsInv => RegistriesTypeOK
  <2> SUFFICES ASSUME TypesInv, TablesInv, PermitsInv PROVE RegistriesTypeOK
    OBVIOUS
  <2>1. ASSUME NEW n \in DOMAIN cronNames
        PROVE  n \in AllPrefixed /\ cronNames[n] \in PluginIds
    <3>1. PICK p : p = cronNames[n]
      OBVIOUS
    <3>2. p \in PluginIds /\ cronOf[p] # NoCron /\ n = Prefixed(p, cronOf[p])
      BY <3>1 DEF TablesInv, CronsAgree
    <3>3. cronOf[p] \in Names
      BY <3>2 DEF TablesInv, CronsTyped
    <3> QED
      BY <3>1, <3>2, <3>3 DEF AllPrefixed
  <2> QED
    BY <2>1 DEF TypesInv, TablesInv, PermitsInv, StrategiesTyped, QueuesTyped, CronsTyped, RegistriesTypeOK
<1> QED
  BY <1>1, <1>2, <1>3, TablesInvHolds, PermitsInvHolds, PTL DEF PlatformSpec

-----------------------------------------------------------------------------
\* Reviews and votes, for any customers, ratings and requests at once.

Busy(p) == p.stage \in {"read", "summed"}

\* Nobody comes between what one that is alone has read and what it is to write.
AloneAsRead(p) ==
    /\ review[p.of] = p.old
    /\ p.stage = "summed" => p.copy = Copy([review EXCEPT ![p.of] = p.new])
AloneIsAlone ==
    \A q \in ReviewRequests : Busy(post[q]) /\ post[q].alone =>
        /\ \A x \in ReviewRequests : Busy(post[x]) => x = q
        /\ AloneAsRead(post[q])

RatingInv ==
    /\ review = [u \in Writers |-> review[u]]
    /\ post = [q \in ReviewRequests |-> post[q]]
    /\ \A q \in ReviewRequests : Busy(post[q]) => "alone" \in DOMAIN post[q]
    /\ AloneIsAlone
    /\ RatingIsAverage

LEMMA RatingStays ==
    ASSUME RatingInv, UNCHANGED <<review, copy, post, inStep>>
    PROVE  RatingInv'
<1>1. ASSUME NEW x
      PROVE  Busy(x)' <=> Busy(x)
  BY DEF Busy
<1>2. ASSUME NEW x
      PROVE  AloneAsRead(x)' <=> AloneAsRead(x)
  BY DEF AloneAsRead
<1>3. AloneIsAlone'
  BY <1>1, <1>2 DEF RatingInv, AloneIsAlone
<1>4. RatingIsAverage'
  BY DEF RatingInv, RatingIsAverage
<1> QED
  BY <1>1, <1>3, <1>4 DEF RatingInv

LEMMA RatingStarts == ReviewsInit => RatingInv
<1> SUFFICES ASSUME ReviewsInit PROVE RatingInv
  OBVIOUS
<1>1. \A q \in ReviewRequests : ~Busy(post[q])
  BY DEF ReviewsInit, Busy, Unposted
<1>2. /\ review = [u \in Writers |-> 0] /\ copy = Copy([u \in Writers |-> 0])
      /\ post = [q \in ReviewRequests |-> Unposted]
  BY DEF ReviewsInit
<1>3. RatingIsAverage
  BY <1>2 DEF RatingIsAverage
<1> QED
  BY <1>1, <1>2, <1>3 DEF RatingInv, AloneIsAlone

\* A request that does not hold a review any more, or never did.
LEMMA RequestLeaves ==
    ASSUME RatingInv, NEW q \in ReviewRequests, NEW p, ~Busy(p),
           post' = [post EXCEPT ![q] = p], UNCHANGED <<review, copy, inStep>>
    PROVE  RatingInv'
<1>1. \A x \in ReviewRequests : post'[x] = IF x = q THEN p ELSE post[x]
  BY DEF RatingInv
<1>2. ASSUME NEW x
      PROVE  Busy(x)' <=> Busy(x)
  BY DEF Busy
<1>3. ASSUME NEW x
      PROVE  AloneAsRead(x)' <=> AloneAsRead(x)
  BY DEF AloneAsRead
<1>4. AloneIsAlone'
  BY <1>1, <1>2, <1>3 DEF RatingInv, AloneIsAlone
<1>5. RatingIsAverage'
  BY DEF RatingInv, RatingIsAverage
<1>6. \A x \in ReviewRequests : Busy(post[x])' => "alone" \in DOMAIN post'[x]
  BY <1>1, <1>2 DEF RatingInv
<1> QED
  BY <1>4, <1>5, <1>6 DEF RatingInv

\* reviews.service.ts:52: a review is read, and nobody else is alone from then on.
LEMMA ReadKeepsRating ==
    ASSUME RatingInv, NEW q \in ReviewRequests, NEW u \in Writers, ReadReview(q, u)
    PROVE  RatingInv'
<1> DEFINE new == [stage |-> "read", of |-> u, old |-> review[u],
                   alone |-> {x \in ReviewRequests : Busy(post[x])} = {}]
<1>1. /\ post[q] = Unposted
      /\ post' = [x \in ReviewRequests |->
            IF x = q THEN new ELSE IF Busy(post[x]) THEN [post[x] EXCEPT !.alone = FALSE] ELSE post[x]]
      /\ UNCHANGED <<review, copy, inStep>>
  BY DEF ReadReview, Busy
<1>2. /\ "alone" \in DOMAIN new /\ new.stage = "read" /\ new.of = u /\ new.old = review[u]
      /\ new.alone => \A x \in ReviewRequests : ~Busy(post[x])
  OBVIOUS
<1> HIDE DEF new
<1>3. ASSUME NEW x
      PROVE  Busy(x)' <=> Busy(x)
  BY DEF Busy
<1>4. ASSUME NEW x \in ReviewRequests, x # q, Busy(post[x])
      PROVE  "alone" \in DOMAIN post'[x] /\ ~post'[x].alone
  <2>1. post'[x] = [post[x] EXCEPT !.alone = FALSE]
    BY <1>1, <1>4
  <2>2. "alone" \in DOMAIN post[x]
    BY <1>4 DEF RatingInv
  <2> QED
    BY <2>1, <2>2
<1>5. \A x \in ReviewRequests : x # q /\ ~Busy(post[x]) => post'[x] = post[x]
  BY <1>1
<1>6. post'[q] = new
  BY <1>1
<1>7. AloneIsAlone'
  <2> SUFFICES ASSUME NEW x \in ReviewRequests, Busy(post[x])', post'[x].alone
               PROVE  /\ \A y \in ReviewRequests : Busy(post[y])' => y = x
                      /\ AloneAsRead(post[x])'
    BY DEF AloneIsAlone
  <2>1. x = q
    BY <1>3, <1>4, <1>5
  <2>2. \A y \in ReviewRequests : Busy(post[y])' => y = x
    BY <1>2, <1>3, <1>5, <1>6, <2>1
  <2>3. AloneAsRead(post[x])'
    BY <1>1, <1>2, <1>6, <2>1 DEF AloneAsRead
  <2> QED
    BY <2>2, <2>3
<1>8. RatingIsAverage'
  BY <1>1 DEF RatingInv, RatingIsAverage
<1>9. \A x \in ReviewRequests : Busy(post[x])' => "alone" \in DOMAIN post'[x]
  BY <1>2, <1>3, <1>4, <1>5, <1>6 DEF RatingInv
<1> QED
  BY <1>1, <1>7, <1>8, <1>9 DEF RatingInv

\* reviews.service.ts:39: it is written, and the copy computed with it.
LEMMA WriteKeepsRating ==
    ASSUME RatingInv, NEW q \in ReviewRequests, NEW rating, WriteReview(q, rating)
    PROVE  RatingInv'
<1>1. PICK new : /\ new = [stage |-> "summed", of |-> post[q].of, old |-> post[q].old, new |-> rating,
                           alone |-> post[q].alone,
                           copy |-> Copy([review EXCEPT ![post[q].of] = rating])]
                 /\ post' = [post EXCEPT ![q] = new]
  BY DEF WriteReview
<1>2. post[q].stage = "read" /\ UNCHANGED <<review, copy, inStep>>
  BY DEF WriteReview
<1>3. /\ "alone" \in DOMAIN new /\ new.stage = "summed" /\ new.of = post[q].of /\ new.old = post[q].old
      /\ new.new = rating /\ new.alone = post[q].alone
      /\ new.copy = Copy([review EXCEPT ![new.of] = new.new])
  BY <1>1
<1>4. \A x \in ReviewRequests : post'[x] = IF x = q THEN new ELSE post[x]
  BY <1>1 DEF RatingInv
<1>5. ASSUME NEW x
      PROVE  Busy(x)' <=> Busy(x)
  BY DEF Busy
<1>6. ASSUME NEW x
      PROVE  AloneAsRead(x)' <=> AloneAsRead(x)
  BY <1>2 DEF AloneAsRead
<1>7. Busy(post[q]) /\ Busy(new)
  BY <1>2, <1>3 DEF Busy
<1>8. ASSUME AloneAsRead(post[q])
      PROVE  AloneAsRead(new)
  BY <1>3, <1>8 DEF AloneAsRead
<1>9. AloneIsAlone'
  BY <1>3, <1>4, <1>5, <1>6, <1>7, <1>8 DEF RatingInv, AloneIsAlone
<1>10. RatingIsAverage'
  BY <1>2 DEF RatingInv, RatingIsAverage
<1>11. \A x \in ReviewRequests : Busy(post[x])' => "alone" \in DOMAIN post'[x]
  BY <1>3, <1>4, <1>5 DEF RatingInv
<1> QED
  BY <1>1, <1>2, <1>9, <1>10, <1>11 DEF RatingInv

\* It is committed: what one that was alone leaves is the copy of what there is now.
LEMMA CommitKeepsRating ==
    ASSUME RatingInv, NEW q \in ReviewRequests, CommitReview(q)
    PROVE  RatingInv'
<1> DEFINE p == post[q]
<1>1. /\ p.stage = "summed"
      /\ review' = [review EXCEPT ![p.of] = p.new]
      /\ copy' = IF p.new # p.old THEN p.copy ELSE copy
      /\ inStep' = (p.alone /\ (inStep \/ p.new # p.old))
  BY DEF CommitReview, Refreshes
<1>2. post' = [x \in ReviewRequests |-> post'[x]]
      /\ \A x \in ReviewRequests : post'[x] = Unposted \/ (x # q /\ post'[x] = post[x])
  BY DEF CommitReview
<1>3. ASSUME NEW x
      PROVE  Busy(x)' <=> Busy(x)
  BY DEF Busy
<1>4. ~Busy(Unposted) /\ Busy(p)
  BY <1>1 DEF Busy, Unposted
<1>5. \A x \in ReviewRequests : ~(Busy(post[x])' /\ post'[x].alone)
  BY <1>2, <1>3, <1>4 DEF RatingInv, AloneIsAlone
<1>6. RatingIsAverage'
  <2> SUFFICES ASSUME inStep' PROVE copy' = Copy(review')
    BY DEF RatingIsAverage
  <2>1. p.alone /\ (inStep \/ p.new # p.old)
    BY <1>1
  <2>2. review[p.of] = p.old /\ p.copy = Copy(review')
    BY <1>1, <1>4, <2>1 DEF RatingInv, AloneIsAlone, AloneAsRead
  <2>3. CASE p.new # p.old
    BY <1>1, <2>2, <2>3
  <2>4. CASE p.new = p.old
    <3>1. review' = review
      BY <1>1, <2>2, <2>4 DEF RatingInv
    <3> QED
      BY <1>1, <2>1, <2>4, <3>1 DEF RatingInv, RatingIsAverage
  <2> QED
    BY <2>3, <2>4
<1>7. review' = [u \in Writers |-> review'[u]]
  BY <1>1 DEF RatingInv
<1>8. \A x \in ReviewRequests : Busy(post[x])' => "alone" \in DOMAIN post'[x]
  BY <1>2, <1>3, <1>4 DEF RatingInv
<1> QED
  BY <1>2, <1>5, <1>6, <1>7, <1>8 DEF RatingInv, AloneIsAlone

\* reviews.service.ts:39 (B-14): after a rating that was written by itself the copy in the
\* product's row is that of its reviews, whatever came between what before.
THEOREM RatingIsAlwaysAverage == ReviewsSpec => []RatingIsAverage
<1>1. ASSUME RatingInv, [ReviewsNext]_reviewVars
      PROVE  RatingInv'
  <2>1. CASE UNCHANGED reviewVars
    BY <1>1, <2>1, RatingStays DEF reviewVars
  <2>2. ASSUME NEW q \in ReviewRequests, AbortReview(q) \/ WriteVote(q)
        PROVE  RatingInv'
    <3>1. ~Busy(Unposted) /\ post' = [post EXCEPT ![q] = Unposted]
      BY <2>2 DEF AbortReview, WriteVote, Busy, Unposted
    <3>2. UNCHANGED <<review, copy, inStep>>
      BY <2>2 DEF AbortReview, WriteVote
    <3> QED
      BY <1>1, <3>1, <3>2, RequestLeaves
  <2>3. ASSUME NEW q \in ReviewRequests, NEW vote \in Vote, ReadVote(q, vote)
        PROVE  RatingInv'
    <3> DEFINE p == [stage |-> "vote", vote |-> vote, found |-> VotesOf(vote.by, vote.of)]
    <3>1. ~Busy(p)
      BY DEF Busy
    <3>2. post' = [post EXCEPT ![q] = p] /\ UNCHANGED <<review, copy, inStep>>
      BY <2>3 DEF ReadVote
    <3> HIDE DEF p
    <3> QED
      BY <1>1, <3>1, <3>2, RequestLeaves
  <2> QED
    BY <1>1, <2>1, <2>2, <2>3, ReadKeepsRating, WriteKeepsRating, CommitKeepsRating DEF ReviewsNext
<1>2. RatingInv => RatingIsAverage
  BY DEF RatingInv
<1> QED
  BY <1>1, <1>2, RatingStarts, PTL DEF ReviewsSpec

\* Votes.

Voting(q) == post[q].stage = "vote"
Helps(S, of) == {x \in S : x.of = of /\ x.helpful}
\* A customer has one vote for a review at most.
OneVoteEach ==
    /\ votes \subseteq Vote /\ IsFiniteSet(votes)
    /\ \A x, y \in votes : x.by = y.by /\ x.of = y.of => x = y
\* What a request to vote has found is still there, and no other votes for the same customer.
FoundIsCurrent ==
    \A q \in ReviewRequests : Voting(q) =>
        /\ post[q].vote \in Vote
        /\ post[q].vote.of \notin doubled =>
              /\ post[q].found = VotesOf(post[q].vote.by, post[q].vote.of)
              /\ \A x \in ReviewRequests :
                    Voting(x) /\ post[x].vote.by = post[q].vote.by /\ post[x].vote.of = post[q].vote.of
                        => x = q
HelpfulInv ==
    /\ post = [q \in ReviewRequests |-> post[q]]
    /\ helpful = [of \in Writers |-> helpful[of]]
    /\ OneVoteEach
    /\ FoundIsCurrent
    /\ HelpfulIsVotes

LEMMA HelpfulStarts == ReviewsInit => HelpfulInv
<1> SUFFICES ASSUME ReviewsInit PROVE HelpfulInv
  OBVIOUS
<1>1. /\ post = [q \in ReviewRequests |-> Unposted] /\ votes = {}
      /\ helpful = [u \in Writers |-> 0] /\ doubled = {}
  BY DEF ReviewsInit
<1>2. OneVoteEach
  BY <1>1, FS_EmptySet DEF OneVoteEach
<1>3. FoundIsCurrent
  BY <1>1 DEF FoundIsCurrent, Voting, Unposted
<1>4. HelpfulIsVotes
  <2>1. \A of : {x \in votes : x.of = of /\ x.helpful} = {}
    BY <1>1
  <2> QED
    BY <1>1, <2>1, FS_EmptySet DEF HelpfulIsVotes
<1> QED
  BY <1>1, <1>2, <1>3, <1>4 DEF HelpfulInv

\* What does not touch votes, and takes a request from voting at most.
LEMMA VotesStay ==
    ASSUME HelpfulInv, UNCHANGED <<votes, helpful, doubled>>,
           post' = [q \in ReviewRequests |-> post'[q]],
           \A q \in ReviewRequests : post'[q] = post[q] \/ ~Voting(q)'
    PROVE  HelpfulInv'
<1>1. ASSUME NEW q \in ReviewRequests, Voting(q)'
      PROVE  post'[q] = post[q] /\ Voting(q)
  BY <1>1 DEF Voting
<1>2. FoundIsCurrent'
  BY <1>1 DEF HelpfulInv, FoundIsCurrent, VotesOf
<1>3. HelpfulIsVotes' /\ OneVoteEach'
  BY DEF HelpfulInv, HelpfulIsVotes, OneVoteEach
<1> QED
  BY <1>2, <1>3 DEF HelpfulInv

\* reviews.service.ts:123: the vote that is there is looked up; a second request of the same
\* customer for the same review gives up the promise for that review.
LEMMA ReadVoteKeeps ==
    ASSUME HelpfulInv, NEW q \in ReviewRequests, NEW vote \in Vote, ReadVote(q, vote)
    PROVE  HelpfulInv'
<1>1. PICK p : /\ p = [stage |-> "vote", vote |-> vote, found |-> VotesOf(vote.by, vote.of)]
               /\ post' = [post EXCEPT ![q] = p]
  BY DEF ReadVote
<1>2. /\ p.stage = "vote" /\ p.vote = vote /\ p.found = VotesOf(vote.by, vote.of)
      /\ UNCHANGED <<votes, helpful>>
      /\ post[q] = Unposted
      /\ doubled' = IF Doubles(vote) THEN doubled \cup {vote.of} ELSE doubled
  BY <1>1 DEF ReadVote
<1>3. \A x \in ReviewRequests : post'[x] = IF x = q THEN p ELSE post[x]
  BY <1>1 DEF HelpfulInv
<1>4. ASSUME NEW x \in ReviewRequests, x # q
      PROVE  Voting(x)' <=> Voting(x)
  BY <1>3, <1>4 DEF Voting
<1>5. ~Voting(q)
  BY <1>2 DEF Voting, Unposted
<1>6. ASSUME NEW by, NEW of
      PROVE  VotesOf(by, of)' = VotesOf(by, of)
  BY <1>2 DEF VotesOf
<1>7. ASSUME vote.of \notin doubled', NEW x \in ReviewRequests, x # q, Voting(x)
      PROVE  ~(post[x].vote.by = vote.by /\ post[x].vote.of = vote.of)
  <2>1. ~Doubles(vote)
    BY <1>2, <1>7
  <2> QED
    BY <1>7, <2>1 DEF Doubles, Voting
<1>8. FoundIsCurrent'
  <2> SUFFICES ASSUME NEW x \in ReviewRequests, Voting(x)'
               PROVE  /\ post'[x].vote \in Vote
                      /\ post'[x].vote.of \notin doubled' =>
                            /\ post'[x].found = VotesOf(post'[x].vote.by, post'[x].vote.of)
                            /\ \A y \in ReviewRequests :
                                  Voting(y)' /\ post'[y].vote.by = post'[x].vote.by
                                      /\ post'[y].vote.of = post'[x].vote.of => y = x
    BY <1>6 DEF FoundIsCurrent
  <2>1. CASE x = q
    BY <1>2, <1>3, <1>4, <1>7, <2>1
  <2>2. CASE x # q
    <3>1. Voting(x) /\ post'[x] = post[x] /\ doubled \subseteq doubled'
      BY <1>2, <1>3, <1>4, <2>2
    <3> QED
      BY <1>2, <1>3, <1>4, <1>7, <2>2, <3>1 DEF HelpfulInv, FoundIsCurrent
  <2> QED
    BY <2>1, <2>2
<1>9. HelpfulIsVotes' /\ OneVoteEach'
  BY <1>2 DEF HelpfulInv, HelpfulIsVotes, OneVoteEach
<1> QED
  BY <1>1, <1>2, <1>8, <1>9 DEF HelpfulInv

\* What the vote does to the count is what it does to the votes.
LEMMA CountedRight ==
    ASSUME NEW V, IsFiniteSet(V), V \subseteq Vote, \A x, y \in V : x.by = y.by /\ x.of = y.of => x = y,
           NEW vote \in Vote
    PROVE  LET mine == {x \in V : x.by = vote.by /\ x.of = vote.of}
               new == (V \ mine) \cup (IF vote \in mine THEN {} ELSE {vote})
           IN  /\ Cardinality(Helps(V, vote.of)) \in Nat
               /\ Cardinality(Helps(new, vote.of))
                    = Cardinality(Helps(V, vote.of)) - Counted(mine, vote)
<1> DEFINE mine == {x \in V : x.by = vote.by /\ x.of = vote.of}
           new == (V \ mine) \cup (IF vote \in mine THEN {} ELSE {vote})
           others == Helps(V \ mine, vote.of)
           gone == {x \in mine : x.helpful}
<1>1. IsFiniteSet(others) /\ Cardinality(others) \in Nat
  <2>1. others \subseteq V
    BY DEF Helps
  <2> QED
    BY <2>1, FS_Subset, FS_CardinalityType
<1>2. \A x, y \in mine : x = y
  OBVIOUS
<1>3. \A x \in others : x \notin mine /\ x # vote
  BY DEF Helps
<1>4. Helps(V, vote.of) = others \cup gone
  BY DEF Helps
<1>5. Helps(new, vote.of) = others \cup (IF vote.helpful /\ vote \notin mine THEN {vote} ELSE {})
  BY DEF Helps
<1>6. gone = {} \/ \E m \in mine : gone = {m}
  BY <1>2
<1>7. Cardinality(gone) \in {0, 1} /\ Cardinality(Helps(V, vote.of)) = Cardinality(others) + Cardinality(gone)
  <2>1. CASE gone = {}
    <3>1. Helps(V, vote.of) = others
      BY <1>4, <2>1
    <3>2. Cardinality(gone) = 0
      BY <2>1, FS_EmptySet
    <3> HIDE DEF others, gone
    <3> QED
      BY <1>1, <3>1, <3>2
  <2>2. ASSUME NEW m \in mine, gone = {m}
        PROVE  Cardinality(gone) = 1 /\ Cardinality(Helps(V, vote.of)) = Cardinality(others) + 1
    <3>1. m \notin others
      BY <1>3
    <3>2. Cardinality({m}) = 1
      BY FS_Singleton
    <3>3. Cardinality(others \cup {m}) = Cardinality(others) + 1
      BY <1>1, <3>1, FS_AddElement
    <3> QED
      BY <1>4, <2>2, <3>2, <3>3
  <2> QED
    BY <1>1, <1>6, <2>1, <2>2
<1>8. Cardinality(Helps(new, vote.of))
        = Cardinality(others) + (IF vote.helpful /\ vote \notin mine THEN 1 ELSE 0)
  <2>1. CASE vote.helpful /\ vote \notin mine
    <3>1. vote \notin others
      BY <1>3
    <3>2. Cardinality(others \cup {vote}) = Cardinality(others) + 1
      BY <1>1, <3>1, FS_AddElement
    <3> QED
      BY <1>5, <2>1, <3>2
  <2>2. CASE ~(vote.helpful /\ vote \notin mine)
    <3>1. Helps(new, vote.of) = others
      BY <1>5, <2>2
    <3> HIDE DEF others, new, mine
    <3> QED
      BY <1>1, <2>2, <3>1
  <2> QED
    BY <2>1, <2>2
<1>9. Counted(mine, vote) = Cardinality(gone) - (IF vote.helpful /\ vote \notin mine THEN 1 ELSE 0)
  BY DEF Counted
<1> HIDE DEF mine, new, others, gone
<1>10. /\ Cardinality(Helps(V, vote.of)) \in Nat
       /\ Cardinality(Helps(new, vote.of)) = Cardinality(Helps(V, vote.of)) - Counted(mine, vote)
  BY <1>1, <1>7, <1>8, <1>9
<1> QED
  BY <1>10 DEF mine, new

\* The vote is written, and the count put up or down by what was found.
LEMMA WriteVoteKeeps ==
    ASSUME HelpfulInv, NEW q \in ReviewRequests, WriteVote(q)
    PROVE  HelpfulInv'
<1>1. PICK vote, found, mine :
          vote = post[q].vote /\ found = post[q].found /\ mine = VotesOf(vote.by, vote.of)
  OBVIOUS
<1>2. /\ Voting(q)
      /\ votes' = (votes \ mine) \cup (IF vote \in found THEN {} ELSE {vote})
      /\ helpful' = [helpful EXCEPT ![vote.of] = helpful[vote.of] - Counted(found, vote)]
      /\ post' = [post EXCEPT ![q] = Unposted]
      /\ UNCHANGED doubled
  BY <1>1 DEF WriteVote, Voting
<1>3. vote \in Vote /\ vote.of \in Writers
  BY <1>1, <1>2 DEF HelpfulInv, FoundIsCurrent, Vote
<1>4. mine = {x \in votes : x.by = vote.by /\ x.of = vote.of}
  BY <1>1 DEF VotesOf
<1>5. ASSUME NEW x \in ReviewRequests, Voting(x)'
      PROVE  x # q /\ post'[x] = post[x] /\ Voting(x)
  BY <1>2, <1>5 DEF HelpfulInv, Voting, Unposted
<1>6. OneVoteEach'
  <2>1. votes' \subseteq votes \cup {vote}
    BY <1>2
  <2>2. IsFiniteSet(votes \cup {vote})
    BY FS_AddElement DEF HelpfulInv, OneVoteEach
  <2>3. IsFiniteSet(votes')
    BY <2>1, <2>2, FS_Subset
  <2>4. votes' \subseteq Vote
    BY <1>3, <2>1 DEF HelpfulInv, OneVoteEach
  <2>5. \A x, y \in votes' : x.by = y.by /\ x.of = y.of => x = y
    BY <1>2, <1>4 DEF HelpfulInv, OneVoteEach
  <2> QED
    BY <2>3, <2>4, <2>5 DEF OneVoteEach
<1>7. ASSUME NEW by, NEW of, ~(by = vote.by /\ of = vote.of)
      PROVE  VotesOf(by, of)' = VotesOf(by, of)
  BY <1>2, <1>4, <1>7 DEF VotesOf
<1>8. FoundIsCurrent'
  <2> SUFFICES ASSUME NEW x \in ReviewRequests, Voting(x)'
               PROVE  /\ post'[x].vote \in Vote
                      /\ post'[x].vote.of \notin doubled' =>
                            /\ post'[x].found = VotesOf(post[x].vote.by, post[x].vote.of)'
                            /\ \A y \in ReviewRequests :
                                  Voting(y)' /\ post'[y].vote.by = post'[x].vote.by
                                      /\ post'[y].vote.of = post'[x].vote.of => y = x
    BY DEF FoundIsCurrent
  <2>1. Voting(x) /\ post'[x] = post[x] /\ x # q
    BY <1>5
  <2>2. ASSUME post[x].vote.of \notin doubled
        PROVE  ~(post[x].vote.by = vote.by /\ post[x].vote.of = vote.of)
    BY <1>1, <1>2, <2>1, <2>2 DEF HelpfulInv, FoundIsCurrent
  <2>3. ASSUME post[x].vote.of \notin doubled
        PROVE  post[x].found = VotesOf(post[x].vote.by, post[x].vote.of)'
    BY <1>7, <2>1, <2>2, <2>3 DEF HelpfulInv, FoundIsCurrent
  <2>4. ASSUME post'[x].vote.of \notin doubled'
        PROVE  post'[x].found = VotesOf(post[x].vote.by, post[x].vote.of)'
    BY <1>2, <1>7, <2>1, <2>2, <2>3, <2>4 DEF VotesOf
  <2> QED
    BY <1>2, <1>5, <2>1, <2>4 DEF HelpfulInv, FoundIsCurrent
<1>9. ASSUME NEW of \in Writers, of \notin doubled
      PROVE  helpful'[of] = Cardinality(Helps(votes', of))
  <2>1. helpful[of] = Cardinality(Helps(votes, of))
    BY <1>9 DEF HelpfulInv, HelpfulIsVotes, Helps
  <2>2. CASE of = vote.of
    <3>1. found = mine
      BY <1>1, <1>2, <1>9, <2>2 DEF HelpfulInv, FoundIsCurrent
    <3>2. helpful'[of] = helpful[of] - Counted(mine, vote)
      BY <1>2, <2>2, <3>1 DEF HelpfulInv
    <3>3. Cardinality(Helps(votes', of)) = Cardinality(Helps(votes, of)) - Counted(mine, vote)
      BY <1>2, <1>3, <1>4, <2>2, <3>1, CountedRight DEF HelpfulInv, OneVoteEach
    <3> QED
      BY <2>1, <3>2, <3>3
  <2>3. CASE of # vote.of
    <3>1. Helps(votes', of) = Helps(votes, of)
      BY <1>2, <1>4, <2>3 DEF Helps
    <3>2. helpful'[of] = helpful[of]
      BY <1>2, <2>3 DEF HelpfulInv
    <3> QED
      BY <2>1, <3>1, <3>2
  <2> QED
    BY <2>2, <2>3
<1>10. HelpfulIsVotes'
  BY <1>2, <1>9 DEF HelpfulIsVotes, Helps
<1>11. helpful' = [of \in Writers |-> helpful'[of]]
  BY <1>2 DEF HelpfulInv
<1> QED
  BY <1>2, <1>6, <1>8, <1>10, <1>11 DEF HelpfulInv

\* A review that is deleted takes its votes, and the requests to vote for it, along.
LEMMA CommitKeepsVotes ==
    ASSUME HelpfulInv, NEW q \in ReviewRequests, CommitReview(q)
    PROVE  HelpfulInv'
<1>1. PICK gone :
        /\ votes' = {x \in votes : x.of \notin gone}
        /\ helpful' = [w \in Writers |-> IF w \in gone THEN 0 ELSE helpful[w]]
        /\ doubled' = doubled \ gone
        /\ post' = [x \in ReviewRequests |->
              IF x = q \/ (post[x].stage = "vote" /\ post[x].vote.of \in gone) THEN Unposted
              ELSE post[x]]
  BY DEF CommitReview
<1>2. ASSUME NEW x \in ReviewRequests, Voting(x)'
      PROVE  Voting(x) /\ post'[x] = post[x] /\ post[x].vote.of \notin gone
  BY <1>1, <1>2 DEF Voting, Unposted
<1>3. ASSUME NEW by, NEW of, of \notin gone
      PROVE  VotesOf(by, of)' = VotesOf(by, of)
  BY <1>1, <1>3 DEF VotesOf
<1>4. FoundIsCurrent'
  <2> SUFFICES ASSUME NEW x \in ReviewRequests, Voting(x)'
               PROVE  /\ post'[x].vote \in Vote
                      /\ post'[x].vote.of \notin doubled' =>
                            /\ post'[x].found = VotesOf(post[x].vote.by, post[x].vote.of)'
                            /\ \A y \in ReviewRequests :
                                  Voting(y)' /\ post'[y].vote.by = post'[x].vote.by
                                      /\ post'[y].vote.of = post'[x].vote.of => y = x
    BY DEF FoundIsCurrent
  <2>1. Voting(x) /\ post'[x] = post[x] /\ post[x].vote.of \notin gone
    BY <1>2
  <2>2. ASSUME post'[x].vote.of \notin doubled'
        PROVE  post'[x].found = VotesOf(post[x].vote.by, post[x].vote.of)'
    <3>1. post[x].vote.of \notin doubled
      BY <1>1, <2>1, <2>2
    <3>2. post[x].found = VotesOf(post[x].vote.by, post[x].vote.of)
      BY <2>1, <3>1 DEF HelpfulInv, FoundIsCurrent
    <3> QED
      BY <1>1, <1>3, <2>1, <3>2 DEF VotesOf
  <2>3. ASSUME post'[x].vote.of \notin doubled', NEW y \in ReviewRequests, Voting(y)',
               post'[y].vote.by = post'[x].vote.by, post'[y].vote.of = post'[x].vote.of
        PROVE  y = x
    <3>1. Voting(y) /\ post'[y] = post[y]
      BY <1>2, <2>3
    <3>2. post[x].vote.of \notin doubled
      BY <1>1, <2>1, <2>3
    <3> QED
      BY <2>1, <2>3, <3>1, <3>2 DEF HelpfulInv, FoundIsCurrent
  <2>4. post'[x].vote \in Vote
    BY <2>1 DEF HelpfulInv, FoundIsCurrent
  <2> QED
    BY <2>2, <2>3, <2>4
<1>5. OneVoteEach'
  <2>1. votes' \subseteq votes
    BY <1>1
  <2> QED
    BY <2>1, FS_Subset DEF HelpfulInv, OneVoteEach
<1>6. ASSUME NEW of \in Writers, of \notin doubled'
      PROVE  helpful'[of] = Cardinality(Helps(votes', of))
  <2>1. CASE of \in gone
    <3>1. Helps(votes', of) = {}
      BY <1>1, <2>1 DEF Helps
    <3> QED
      BY <1>1, <2>1, <3>1, FS_EmptySet
  <2>2. CASE of \notin gone
    <3>1. Helps(votes', of) = Helps(votes, of)
      BY <1>1, <2>2 DEF Helps
    <3>2. helpful[of] = Cardinality(Helps(votes, of))
      BY <1>1, <1>6, <2>2 DEF HelpfulInv, HelpfulIsVotes, Helps
    <3> QED
      BY <1>1, <2>2, <3>1, <3>2
  <2> QED
    BY <2>1, <2>2
<1>7. HelpfulIsVotes'
  BY <1>6 DEF HelpfulIsVotes, Helps
<1> QED
  BY <1>1, <1>4, <1>5, <1>7 DEF HelpfulInv

\* reviews.service.ts:123: the count of a review is that of the customers who say it helped,
\* for any number of customers and requests, as long as none votes twice at once for it.
THEOREM HelpfulIsAlwaysVotes == ReviewsSpec => []HelpfulIsVotes
<1>1. ASSUME HelpfulInv, [ReviewsNext]_reviewVars
      PROVE  HelpfulInv'
  <2>1. CASE UNCHANGED reviewVars
    BY <1>1, <2>1, VotesStay DEF reviewVars, HelpfulInv
  <2>2. ASSUME NEW q \in ReviewRequests, NEW p, p.stage # "vote", UNCHANGED <<votes, helpful, doubled>>,
               post' = [post EXCEPT ![q] = p]
        PROVE  HelpfulInv'
    <3>1. post' = [x \in ReviewRequests |-> post'[x]]
      BY <1>1, <2>2 DEF HelpfulInv
    <3>2. \A x \in ReviewRequests : post'[x] = post[x] \/ ~Voting(x)'
      BY <1>1, <2>2 DEF HelpfulInv, Voting
    <3> QED
      BY <1>1, <2>2, <3>1, <3>2, VotesStay
  <2>3. ASSUME NEW q \in ReviewRequests, NEW u \in Writers, ReadReview(q, u)
        PROVE  HelpfulInv'
    <3>1. post' = [x \in ReviewRequests |-> post'[x]] /\ UNCHANGED <<votes, helpful, doubled>>
      BY <2>3 DEF ReadReview
    <3>2. ASSUME NEW x \in ReviewRequests
          PROVE  post'[x] = post[x] \/ ~Voting(x)'
      <4>1. CASE x = q
        BY <2>3, <4>1 DEF ReadReview, Voting
      <4>2. CASE x # q /\ post[x].stage \in {"read", "summed"}
        <5>1. post'[x] = [post[x] EXCEPT !.alone = FALSE]
          BY <2>3, <4>2 DEF ReadReview
        <5> QED
          BY <4>2, <5>1 DEF Voting
      <4>3. CASE x # q /\ ~(post[x].stage \in {"read", "summed"})
        BY <2>3, <4>3 DEF ReadReview
      <4> QED
        BY <4>1, <4>2, <4>3
    <3> QED
      BY <1>1, <3>1, <3>2, VotesStay
  <2>4. ASSUME NEW q \in ReviewRequests, NEW rating, WriteReview(q, rating)
        PROVE  HelpfulInv'
    <3>1. UNCHANGED <<votes, helpful, doubled>>
      BY <2>4 DEF WriteReview
    <3>2. PICK p : p.stage # "vote" /\ post' = [post EXCEPT ![q] = p]
      BY <2>4 DEF WriteReview
    <3> QED
      BY <2>2, <3>1, <3>2
  <2>5. ASSUME NEW q \in ReviewRequests, AbortReview(q)
        PROVE  HelpfulInv'
    BY <2>2, <2>5 DEF AbortReview, Unposted
  <2> QED
    BY <1>1, <2>1, <2>3, <2>4, <2>5, ReadVoteKeeps, WriteVoteKeeps, CommitKeepsVotes DEF ReviewsNext
<1>2. HelpfulInv => HelpfulIsVotes
  BY DEF HelpfulInv
<1> QED
  BY <1>1, <1>2, HelpfulStarts, PTL DEF ReviewsSpec
-----------------------------------------------------------------------------
\* The types of the reviews: every customer has one review of the product, so that a copy
\* counts no more than the customers, and what it sums is a number.
CopyType == [count : 0..Cardinality(Writers), sum : Nat]
Posted ==
    {Unposted}
    \cup [stage : {"read"}, of : Writers, old : Ratings \cup {0}, alone : BOOLEAN]
    \cup [stage : {"summed"}, of : Writers, old : Ratings \cup {0}, new : Ratings \cup {0},
          alone : BOOLEAN, copy : CopyType]
    \cup [stage : {"vote"}, vote : Vote, found : {F \in SUBSET Vote : IsFiniteSet(F)}]

ReviewTypes ==
    /\ review \in [Writers -> Ratings \cup {0}]
    /\ copy \in CopyType
    /\ votes \subseteq Vote /\ IsFiniteSet(votes)
    /\ helpful \in [Writers -> Int]
    /\ post \in [ReviewRequests -> Posted]
    /\ written \in 0..MaxReviews
    /\ inStep \in BOOLEAN
    /\ doubled \subseteq Writers

LEMMA ReviewTypesShow == ReviewTypes => ReviewsTypeOK
<1> SUFFICES ASSUME ReviewTypes PROVE ReviewsTypeOK
  OBVIOUS
<1>1. copy.count \in 0..Cardinality(Writers) /\ copy.sum \in Nat
  BY DEF ReviewTypes, CopyType
<1>2. ASSUME NEW q \in ReviewRequests
      PROVE  \/ post[q] = Unposted
             \/ post[q] \in [stage : {"read"}, of : Writers, old : Ratings \cup {0}, alone : BOOLEAN]
             \/ post[q].stage = "summed" /\ post[q].new \in Ratings \cup {0}
             \/ post[q] \in [stage : {"vote"}, vote : Vote, found : SUBSET Vote]
  <2>1. post[q] \in Posted
    BY DEF ReviewTypes
  <2> HIDE DEF Vote
  <2> QED
    BY <2>1 DEF Posted
<1> QED
  BY <1>1, <1>2 DEF ReviewTypes, ReviewsTypeOK

LEMMA CopyTyped ==
    ASSUME NEW of \in [Writers -> Ratings \cup {0}]
    PROVE  Copy(of) \in CopyType
<1>1. IsFiniteSet(Writers) /\ Ratings \subseteq Nat
  BY ReviewsAssumption
<1>2. \A u \in Writers : of[u] \in Nat
  <2>1. Ratings \cup {0} \subseteq Nat
    BY <1>1, SMT
  <2>2. \A u \in Writers : of[u] \in Ratings \cup {0}
    OBVIOUS
  <2> QED
    BY <2>1, <2>2, Zenon
<1>3. SumOver(of, Writers) \in Nat
  BY <1>1, <1>2, SumType
<1>4. MapThenSumSet(LAMBDA u : of[u], Writers) = SumOver(of, Writers)
  BY DEF SumOver
<1>5. Cardinality({u \in Writers : of[u] # 0}) \in 0..Cardinality(Writers)
  <2> DEFINE some == {u \in Writers : of[u] # 0}
  <2>1. some \in SUBSET Writers
    OBVIOUS
  <2> HIDE DEF some
  <2>2. /\ Cardinality(some) \in Nat /\ Cardinality(Writers) \in Nat
        /\ Cardinality(some) <= Cardinality(Writers)
    BY <1>1, <2>1, FS_Subset, FS_CardinalityType
  <2> QED
    BY <2>2 DEF some
<1> QED
  BY <1>3, <1>4, <1>5 DEF Copy, CopyType

LEMMA ReviewTypesStart == ReviewsInit => ReviewTypes
<1> SUFFICES ASSUME ReviewsInit PROVE ReviewTypes
  OBVIOUS
<1>1. [u \in Writers |-> 0] \in [Writers -> Ratings \cup {0}]
  OBVIOUS
<1>2. Copy([u \in Writers |-> 0]) \in CopyType
  BY <1>1, CopyTyped
<1>3. Unposted \in Posted
  BY DEF Posted
<1>4. post \in [ReviewRequests -> Posted]
  BY <1>3 DEF ReviewsInit
<1> QED
  BY <1>1, <1>2, <1>4, FS_EmptySet, ReviewsAssumption DEF ReviewsInit, ReviewTypes

\* A request goes on, and nothing else changes that has a type.
LEMMA PostSet ==
    ASSUME ReviewTypes, NEW q \in ReviewRequests, NEW p \in Posted
    PROVE  [post EXCEPT ![q] = p] \in [ReviewRequests -> Posted]
BY DEF ReviewTypes

LEMMA ReadKeepsTypes ==
    ASSUME ReviewTypes, NEW q \in ReviewRequests, NEW u \in Writers, ReadReview(q, u)
    PROVE  ReviewTypes'
<1> DEFINE busy == {x \in ReviewRequests : post[x].stage \in {"read", "summed"}}
           new == [stage |-> "read", of |-> u, old |-> review[u], alone |-> busy = {}]
<1>1. /\ post' = [x \in ReviewRequests |->
             IF x = q THEN new ELSE IF x \in busy THEN [post[x] EXCEPT !.alone = FALSE] ELSE post[x]]
      /\ UNCHANGED <<review, copy, votes, helpful, written, inStep, doubled>>
  BY DEF ReadReview
<1>2. new \in Posted
  <2>1. review[u] \in Ratings \cup {0} /\ (busy = {}) \in BOOLEAN
    BY DEF ReviewTypes
  <2> HIDE DEF busy
  <2> QED
    BY <2>1 DEF Posted
<1>3. ASSUME NEW x \in ReviewRequests, x \in busy
      PROVE  [post[x] EXCEPT !.alone = FALSE] \in Posted
  <2>1. post[x] \in Posted /\ post[x].stage \in {"read", "summed"}
    BY <1>3 DEF ReviewTypes
  <2>2. \/ post[x] \in [stage : {"read"}, of : Writers, old : Ratings \cup {0}, alone : BOOLEAN]
        \/ post[x] \in [stage : {"summed"}, of : Writers, old : Ratings \cup {0}, new : Ratings \cup {0},
                        alone : BOOLEAN, copy : CopyType]
    BY <2>1 DEF Posted, Unposted
  <2> QED
    BY <2>2 DEF Posted
<1> HIDE DEF new, busy
<1>4. post' \in [ReviewRequests -> Posted]
  <2>1. \A x \in ReviewRequests : post[x] \in Posted
    BY DEF ReviewTypes
  <2> QED
    BY <1>1, <1>2, <1>3, <2>1
<1> QED
  BY <1>1, <1>4 DEF ReviewTypes

LEMMA WriteKeepsTypes ==
    ASSUME ReviewTypes, NEW q \in ReviewRequests, NEW rating \in Ratings \cup {0}, WriteReview(q, rating)
    PROVE  ReviewTypes'
<1>1. PICK p, u, old : p = post[q] /\ u = p.of /\ old = p.old
  OBVIOUS
<1>2. p \in [stage : {"read"}, of : Writers, old : Ratings \cup {0}, alone : BOOLEAN]
  <2>1. p \in Posted /\ p.stage = "read"
    BY <1>1 DEF ReviewTypes, WriteReview
  <2> QED
    BY <2>1 DEF Posted, Unposted
<1> DEFINE then == Copy([review EXCEPT ![u] = rating])
           new == [stage |-> "summed", of |-> u, old |-> old, new |-> rating, alone |-> p.alone,
                   copy  |-> then]
<1>3. /\ post' = [post EXCEPT ![q] = new]
      /\ written' = IF old = 0 THEN written + 1 ELSE written
      /\ old = 0 => written < MaxReviews
      /\ UNCHANGED <<review, copy, votes, helpful, inStep, doubled>>
  BY <1>1 DEF WriteReview
<1>4. then \in CopyType
  <2>1. [review EXCEPT ![u] = rating] \in [Writers -> Ratings \cup {0}]
    BY <1>1, <1>2 DEF ReviewTypes
  <2> QED
    BY <2>1, CopyTyped
<1>5. new \in Posted
  <2> HIDE DEF then
  <2>1. u \in Writers /\ old \in Ratings \cup {0} /\ p.alone \in BOOLEAN
    BY <1>1, <1>2
  <2> QED
    BY <1>4, <2>1 DEF Posted
<1>6. written' \in 0..MaxReviews
  BY <1>3, ReviewsAssumption DEF ReviewTypes
<1> HIDE DEF new
<1>7. post' \in [ReviewRequests -> Posted]
  BY <1>3, <1>5, PostSet
<1> QED
  BY <1>3, <1>6, <1>7 DEF ReviewTypes

LEMMA CommitKeepsTypes ==
    ASSUME ReviewTypes, NEW q \in ReviewRequests, CommitReview(q)
    PROVE  ReviewTypes'
<1>1. PICK p, u, new : p = post[q] /\ u = p.of /\ new = p.new
  OBVIOUS
<1>2. PICK gone : gone = IF new = 0 THEN {u} ELSE {}
  OBVIOUS
<1>3. p \in [stage : {"summed"}, of : Writers, old : Ratings \cup {0}, new : Ratings \cup {0},
             alone : BOOLEAN, copy : CopyType]
  <2>1. p \in Posted /\ p.stage = "summed"
    BY <1>1 DEF ReviewTypes, CommitReview
  <2> QED
    BY <2>1 DEF Posted, Unposted
<1>4. /\ review' = [review EXCEPT ![u] = new]
      /\ copy' = IF Refreshes(q) THEN p.copy ELSE copy
      /\ inStep' = (p.alone /\ (inStep \/ new # p.old))
      /\ votes' = {x \in votes : x.of \notin gone}
      /\ helpful' = [w \in Writers |-> IF w \in gone THEN 0 ELSE helpful[w]]
      /\ doubled' = doubled \ gone
      /\ post' = [x \in ReviewRequests |->
            IF x = q \/ (post[x].stage = "vote" /\ post[x].vote.of \in gone) THEN Unposted
            ELSE post[x]]
      /\ UNCHANGED written
  BY <1>1, <1>2 DEF CommitReview
<1>5. u \in Writers /\ new \in Ratings \cup {0} /\ p.copy \in CopyType
  BY <1>1, <1>3
<1>6. review' \in [Writers -> Ratings \cup {0}] /\ copy' \in CopyType
  BY <1>4, <1>5 DEF ReviewTypes
<1>7. votes' \subseteq votes /\ IsFiniteSet(votes')
  BY <1>4, FS_Subset DEF ReviewTypes
<1>8. helpful' \in [Writers -> Int]
  BY <1>4 DEF ReviewTypes
<1>9. post' \in [ReviewRequests -> Posted]
  <2>1. Unposted \in Posted /\ \A x \in ReviewRequests : post[x] \in Posted
    BY DEF ReviewTypes, Posted
  <2> QED
    BY <1>4, <2>1
<1>10. inStep' \in BOOLEAN
  BY <1>4
<1> QED
  BY <1>4, <1>6, <1>7, <1>8, <1>9, <1>10 DEF ReviewTypes

LEMMA ReadVoteKeepsTypes ==
    ASSUME ReviewTypes, NEW q \in ReviewRequests, NEW vote \in Vote, ReadVote(q, vote)
    PROVE  ReviewTypes'
<1> DEFINE p == [stage |-> "vote", vote |-> vote, found |-> VotesOf(vote.by, vote.of)]
<1>1. /\ post' = [post EXCEPT ![q] = p]
      /\ doubled' = IF Doubles(vote) THEN doubled \cup {vote.of} ELSE doubled
      /\ UNCHANGED <<review, copy, votes, helpful, written, inStep>>
  BY DEF ReadVote
<1>2. p \in Posted
  <2>1. VotesOf(vote.by, vote.of) \subseteq votes
    BY DEF VotesOf
  <2>2. VotesOf(vote.by, vote.of) \in {F \in SUBSET Vote : IsFiniteSet(F)}
    BY <2>1, FS_Subset DEF ReviewTypes
  <2> QED
    BY <2>2 DEF Posted
<1>3. doubled' \subseteq Writers
  BY <1>1 DEF ReviewTypes, Vote
<1> HIDE DEF p
<1>4. post' \in [ReviewRequests -> Posted]
  BY <1>1, <1>2, PostSet
<1> QED
  BY <1>1, <1>3, <1>4 DEF ReviewTypes

LEMMA WriteVoteKeepsTypes ==
    ASSUME ReviewTypes, NEW q \in ReviewRequests, WriteVote(q)
    PROVE  ReviewTypes'
<1>1. PICK vote, found, mine :
          vote = post[q].vote /\ found = post[q].found /\ mine = VotesOf(vote.by, vote.of)
  OBVIOUS
<1>2. vote \in Vote /\ IsFiniteSet(found) /\ vote.of \in Writers
  <2>1. post[q] \in Posted /\ post[q].stage = "vote"
    BY DEF ReviewTypes, WriteVote
  <2>2. post[q] \in [stage : {"vote"}, vote : Vote, found : {F \in SUBSET Vote : IsFiniteSet(F)}]
    BY <2>1 DEF Posted, Unposted
  <2> QED
    BY <1>1, <2>2 DEF Vote
<1>3. PICK n : n = Counted(found, vote)
  OBVIOUS
<1>4. /\ votes' = (votes \ mine) \cup (IF vote \in found THEN {} ELSE {vote})
      /\ helpful' = [helpful EXCEPT ![vote.of] = helpful[vote.of] - n]
      /\ post' = [post EXCEPT ![q] = Unposted]
      /\ UNCHANGED <<review, copy, written, inStep, doubled>>
  BY <1>1, <1>3 DEF WriteVote
<1>5. n \in Int
  <2>1. {x \in found : x.helpful} \subseteq found
    OBVIOUS
  <2>2. Cardinality({x \in found : x.helpful}) \in Nat
    BY <1>2, <2>1, FS_Subset, FS_CardinalityType
  <2> QED
    BY <1>3, <2>2 DEF Counted
<1>6. votes' \subseteq Vote /\ IsFiniteSet(votes')
  <2>1. votes' \subseteq votes \cup {vote}
    BY <1>4
  <2>2. IsFiniteSet(votes \cup {vote})
    BY FS_AddElement DEF ReviewTypes
  <2> QED
    BY <1>2, <2>1, <2>2, FS_Subset DEF ReviewTypes
<1>7. helpful' \in [Writers -> Int]
  BY <1>2, <1>4, <1>5 DEF ReviewTypes
<1>8. post' \in [ReviewRequests -> Posted]
  <2>1. Unposted \in Posted
    BY DEF Posted
  <2> QED
    BY <1>4, <2>1, PostSet
<1> QED
  BY <1>4, <1>6, <1>7, <1>8 DEF ReviewTypes

\* reviews.service.ts:48 and :133: types of the reviews, of the votes and of what requests have read, for
\* any customers, ratings and requests at once.
THEOREM ReviewsTypeCorrect == ReviewsSpec => []ReviewsTypeOK
<1>1. ASSUME ReviewTypes, [ReviewsNext]_reviewVars
      PROVE  ReviewTypes'
  <2>1. CASE UNCHANGED reviewVars
    BY <1>1, <2>1 DEF reviewVars, ReviewTypes
  <2>2. ASSUME NEW q \in ReviewRequests, AbortReview(q)
        PROVE  ReviewTypes'
    <3>1. Unposted \in Posted
      BY DEF Posted
    <3>2. post' \in [ReviewRequests -> Posted]
      BY <1>1, <2>2, <3>1, PostSet DEF AbortReview
    <3> QED
      BY <1>1, <2>2, <3>2 DEF AbortReview, ReviewTypes
  <2> QED
    BY <1>1, <2>1, <2>2, ReadKeepsTypes, WriteKeepsTypes, CommitKeepsTypes, ReadVoteKeepsTypes,
       WriteVoteKeepsTypes DEF ReviewsNext
<1> QED
  BY <1>1, ReviewTypesStart, ReviewTypesShow, PTL DEF ReviewsSpec

-----------------------------------------------------------------------------
\* The catalogue: for any products, variants, baskets and prices.

\* Something in a finite set ranks lowest.
LEMMA LowestRank ==
    ASSUME NEW S, IsFiniteSet(S), NEW r \in [S -> Int], NEW U \in SUBSET S, U # {}
    PROVE  \E m \in U : \A u \in U : r[m] <= r[u]
<1> DEFINE Without == {T \in SUBSET S : T # {} /\ ~ \E m \in T : \A u \in T : r[m] <= r[u]}
<1>1. SUFFICES ASSUME Without # {} PROVE FALSE
  OBVIOUS
<1>2. PICK M \in Without : \A T \in Without : T \subseteq M => T = M
  <2>1. Without \subseteq SUBSET S
    OBVIOUS
  <2> HIDE DEF Without
  <2> QED
    BY <1>1, <2>1, SmallestSubset
<1>3. PICK x \in M : TRUE
  BY <1>2
<1>4. CASE M \ {x} = {}
  BY <1>2, <1>3, <1>4
<1>5. CASE M \ {x} # {}
  <2>1. M \ {x} \notin Without /\ M \ {x} \in SUBSET S
    BY <1>2, <1>3
  <2>2. PICK m \in M \ {x} : \A u \in M \ {x} : r[m] <= r[u]
    BY <1>5, <2>1
  <2>3. r[m] \in Int /\ r[x] \in Int /\ \A u \in M : r[u] \in Int
    BY <1>2, <1>3, <2>2
  <2>4. CASE r[m] <= r[x]
    BY <1>2, <2>2, <2>4
  <2>5. CASE r[x] <= r[m]
    <3>1. \A u \in M : r[x] <= r[u]
      BY <2>2, <2>3, <2>5
    <3> QED
      BY <1>2, <1>3, <3>1
  <2> QED
    BY <2>3, <2>4, <2>5
<1> QED
  BY <1>4, <1>5

\* The first n by a rank exist.
LEMMA BestExists ==
    ASSUME NEW S, IsFiniteSet(S), NEW n \in Nat, NEW r \in [S -> Int]
    PROVE  \E T \in SUBSET S :
              /\ Cardinality(T) = Min({n, Cardinality(S)})
              /\ \A t \in T, u \in S \ T : r[t] >= r[u]
<1> DEFINE Chosen(T, U) ==
      /\ T \subseteq U
      /\ Cardinality(T) = IF n <= Cardinality(U) THEN n ELSE Cardinality(U)
      /\ \A t \in T, u \in U \ T : r[t] >= r[u]
    Without == {U \in SUBSET S : ~ \E T \in SUBSET S : Chosen(T, U)}
<1>1. Without = {}
  <2>1. SUFFICES ASSUME Without # {} PROVE FALSE
    OBVIOUS
  <2> HIDE DEF Chosen
  <2>2. PICK M \in Without : \A T \in Without : T \subseteq M => T = M
    <3>1. Without \subseteq SUBSET S
      OBVIOUS
    <3> HIDE DEF Without
    <3> QED
      BY <2>1, <3>1, SmallestSubset
  <2>3. IsFiniteSet(M) /\ Cardinality(M) \in Nat
    BY <2>2, FS_Subset, FS_CardinalityType
  <2>4. CASE Cardinality(M) <= n
    <3>1. Chosen(M, M)
      BY <2>3, <2>4 DEF Chosen
    <3> QED
      BY <2>2, <3>1
  <2>5. CASE n < Cardinality(M)
    <3>1. M # {}
      BY <2>3, <2>5, FS_EmptySet
    <3>2. PICK m \in M : \A u \in M : r[m] <= r[u]
      BY <2>2, <3>1, LowestRank
    <3>3. M \ {m} \notin Without /\ M \ {m} \in SUBSET S
      BY <2>2, <3>2
    <3>4. PICK T \in SUBSET S : Chosen(T, M \ {m})
      BY <3>3
    <3>5. Cardinality(M \ {m}) = Cardinality(M) - 1
      BY <2>3, <3>2, FS_RemoveElement
    <3>6. Cardinality(T) = n
      BY <2>3, <2>5, <3>4, <3>5 DEF Chosen
    <3>7. \A t \in T, u \in M \ T : r[t] >= r[u]
      <4>1. SUFFICES ASSUME NEW t \in T, NEW u \in M \ T PROVE r[t] >= r[u]
        OBVIOUS
      <4>2. CASE u = m
        <5>1. t \in M /\ r[t] \in Int /\ r[m] \in Int
          BY <2>2, <3>2, <3>4 DEF Chosen
        <5> QED
          BY <3>2, <4>2, <5>1
      <4>3. CASE u # m
        BY <3>4, <4>1, <4>3 DEF Chosen
      <4> QED
        BY <4>2, <4>3
    <3>8. Chosen(T, M)
      BY <2>3, <2>5, <3>4, <3>6, <3>7 DEF Chosen
    <3> QED
      BY <2>2, <3>8
  <2> QED
    BY <2>3, <2>4, <2>5
<1>2. PICK T \in SUBSET S : Chosen(T, S)
  BY <1>1
<1>3. Cardinality(S) \in Nat
  BY FS_CardinalityType
<1>4. Min({n, Cardinality(S)}) = IF n <= Cardinality(S) THEN n ELSE Cardinality(S)
  BY <1>3 DEF Min
<1> QED
  BY <1>2, <1>4

\* Types and what was ordered, step by step.
CatalogueInv == CatalogueTypeOK /\ OrderedStays

LEMMA CatalogueStarts == CatalogueInit => CatalogueInv
BY CatalogueAssumption DEF CatalogueInit, CatalogueInv, CatalogueTypeOK, OrderedStays

LEMMA CatalogueKeeps == CatalogueInv /\ [CatalogueNext]_catalogueVars => CatalogueInv'
<1>1. SUFFICES ASSUME CatalogueInv, [CatalogueNext]_catalogueVars PROVE CatalogueInv'
  OBVIOUS
<1> USE <1>1 DEF CatalogueInv, CatalogueTypeOK, OrderedStays
<1>2. Edited => staffEdits' \in 0..MaxStaffEdits
  BY CatalogueAssumption DEF Edited
<1>3. ASSUME NEW p \in Products, NEW row \in Row, CreateProduct(p, row) PROVE CatalogueInv'
  BY <1>2, <1>3 DEF CreateProduct
<1>4. ASSUME NEW p \in Products, NEW row \in Row, UpdateProduct(p, row) PROVE CatalogueInv'
  BY <1>2, <1>4 DEF UpdateProduct
<1>5. ASSUME NEW p \in Products, NEW row \in Row, UploadRow(p, row) PROVE CatalogueInv'
  <2>1. [row EXCEPT !.active = p \in DOMAIN product => product[p].active] \in Row
    BY DEF Row
  <2> QED
    BY <1>2, <1>5, <2>1 DEF UploadRow
<1>6. ASSUME NEW p \in Products, RemoveProduct(p) PROVE CatalogueInv'
  <2>1. Ordered \cap VariantsOf(p) = {}
    BY <1>6 DEF RemoveProduct
  <2> QED
    BY <1>2, <1>6, <2>1 DEF RemoveProduct, Restrict, VariantsOf
<1>7. ASSUME NEW v \in AllVariants, DeleteVariant(v) PROVE CatalogueInv'
  BY <1>2, <1>7 DEF DeleteVariant, Restrict
<1>8. ASSUME NEW v \in AllVariants, NEW n \in 0..1, AddVariant(v, n) PROVE CatalogueInv'
  BY <1>2, <1>8 DEF AddVariant
<1>9. ASSUME NEW v \in AllVariants, NEW n \in 0..1, UpdateVariant(v, n) PROVE CatalogueInv'
  BY <1>2, <1>9 DEF UpdateVariant
<1>10. CASE UNCHANGED catalogueVars
  BY <1>10 DEF catalogueVars
<1> QED
  BY <1>1, <1>3, <1>4, <1>5, <1>6, <1>7, <1>8, <1>9, <1>10 DEF CatalogueNext

\* Types of products and variants, for any of them and any number of changes.
THEOREM CatalogueTypeCorrect == CatalogueSpec => []CatalogueTypeOK
<1> QED
  BY CatalogueStarts, CatalogueKeeps, PTL DEF CatalogueSpec, CatalogueInv

\* products.service.ts:309: what was ordered keeps its variant and its shelf.
THEOREM OrderedAlwaysStays == CatalogueSpec => []OrderedStays
<1> QED
  BY CatalogueStarts, CatalogueKeeps, PTL DEF CatalogueSpec, CatalogueInv

-----------------------------------------------------------------------------
\* Listings.

LEMMA VariantsAreFinite == IsFiniteSet(AllVariants)
<1>1. IsFiniteSet(Products) /\ IsFiniteSet(Sizes) /\ IsFiniteSet(Colors)
  BY CatalogueAssumption
<1>2. ASSUME NEW A, NEW B, NEW C, IsFiniteSet(A), IsFiniteSet(B), IsFiniteSet(C)
      PROVE  IsFiniteSet(A \X B \X C)
  <2>1. IsFiniteSet((A \X B) \X C)
    BY <1>2, FS_Product
  <2> DEFINE f == [t \in (A \X B) \X C |-> <<t[1][1], t[1][2], t[2]>>]
  <2>2. f \in Surjection((A \X B) \X C, A \X B \X C)
    <3>1. \A u \in A \X B \X C : f[<<<<u[1], u[2]>>, u[3]>>] = u
      OBVIOUS
    <3>2. \A u \in A \X B \X C : <<<<u[1], u[2]>>, u[3]>> \in (A \X B) \X C
      OBVIOUS
    <3>3. f \in [(A \X B) \X C -> A \X B \X C]
      OBVIOUS
    <3> QED
      BY <3>1, <3>2, <3>3 DEF Surjection
  <2> QED
    BY <2>1, <2>2, FS_Surjection
<1> QED
  BY <1>1, <1>2 DEF AllVariants

LEMMA FirstIsFinite == IsFiniteSet(DOMAIN FirstStock)
BY CatalogueAssumption, VariantsAreFinite, FS_Subset

LEMMA CatalogueIsFinite ==
    CatalogueTypeOK => IsFiniteSet(DOMAIN product) /\ IsFiniteSet(DOMAIN stockOf)
<1>1. IsFiniteSet(Products)
  BY CatalogueAssumption
<1> QED
  BY <1>1, VariantsAreFinite, FS_Subset DEF CatalogueTypeOK

\* A filter by a brand or a category counts what it lists.
LEMMA BrandsMatch ==
    ASSUME NEW f \in Filters, f.size = Unset, f.color = Unset, NEW b \in Brands
    PROVE  BrandCounts(f)[b] = Cardinality(Listed([f EXCEPT !.brand = b]))
<1>1. b # Unset
  BY CatalogueAssumption
<1>2. {p \in Where([f EXCEPT !.brand = Unset]) : product[p].brand = b} = Where([f EXCEPT !.brand = b])
  BY <1>1 DEF Where, Filters
<1> QED
  BY <1>2 DEF BrandCounts, Listed

LEMMA CategoriesMatch ==
    ASSUME NEW f \in Filters, f.size = Unset, f.color = Unset, NEW c \in Categories
    PROVE  CategoryCounts(f)[c] = Cardinality(Listed([f EXCEPT !.category = c]))
<1>1. c # Unset
  BY CatalogueAssumption
<1>2. {p \in Where([f EXCEPT !.category = Unset]) : product[p].category = c}
        = Where([f EXCEPT !.category = c])
  BY <1>1 DEF Where, Filters
<1> QED
  BY <1>2 DEF CategoryCounts, Listed

\* A size or a color is offered when there is something of it in what is listed.
LEMMA SizesMatch ==
    ASSUME CatalogueTypeOK, NEW f \in Filters, f.size = Unset, f.color = Unset, NEW s \in Sizes
    PROVE  SizeCounts(f)[s] > 0 <=> Listed([f EXCEPT !.size = s]) # {}
<1>1. s # Unset
  BY CatalogueAssumption
<1> DEFINE Stocked == {v \in StockedVariants(f) : v[2] = s}
<1>2. Stocked # {} <=> Where([f EXCEPT !.size = s]) # {}
  BY <1>1 DEF Where, Filters, StockedVariants, VariantsOf, Sells
<1>3. IsFiniteSet(Stocked)
  BY CatalogueIsFinite, FS_Subset DEF StockedVariants
<1>4. Cardinality(Stocked) > 0 <=> Stocked # {}
  <2> HIDE DEF Stocked
  <2> QED
    BY <1>3, FS_EmptySet, FS_CardinalityType
<1> QED
  BY <1>2, <1>4 DEF SizeCounts, Listed

LEMMA ColorsMatch ==
    ASSUME CatalogueTypeOK, NEW f \in Filters, f.size = Unset, f.color = Unset, NEW c \in Colors
    PROVE  ColorCounts(f)[c] > 0 <=> Listed([f EXCEPT !.color = c]) # {}
<1>1. c # Unset
  BY CatalogueAssumption
<1> DEFINE Stocked == {v \in StockedVariants(f) : v[3] = c}
<1>2. Stocked # {} <=> Where([f EXCEPT !.color = c]) # {}
  BY <1>1 DEF Where, Filters, StockedVariants, VariantsOf, Sells
<1>3. IsFiniteSet(Stocked)
  BY CatalogueIsFinite, FS_Subset DEF StockedVariants
<1>4. Cardinality(Stocked) > 0 <=> Stocked # {}
  <2> HIDE DEF Stocked
  <2> QED
    BY <1>3, FS_EmptySet, FS_CardinalityType
<1> QED
  BY <1>2, <1>4 DEF ColorCounts, Listed

LEMMA FacetsMatch == CatalogueTypeOK => FacetsMatchListings
<1>1. SUFFICES ASSUME CatalogueTypeOK,
               NEW f \in [brand : Brands \cup {Unset}, category : Categories \cup {Unset},
                          min : Prices, max : Prices, size : {Unset}, color : {Unset}]
      PROVE  /\ \A b \in Brands : BrandCounts(f)[b] = Cardinality(Listed([f EXCEPT !.brand = b]))
             /\ \A c \in Categories :
                   CategoryCounts(f)[c] = Cardinality(Listed([f EXCEPT !.category = c]))
             /\ \A s \in Sizes : SizeCounts(f)[s] > 0 <=> Listed([f EXCEPT !.size = s]) # {}
             /\ \A c \in Colors : ColorCounts(f)[c] > 0 <=> Listed([f EXCEPT !.color = c]) # {}
  BY DEF FacetsMatchListings
<1>2. f \in Filters /\ f.size = Unset /\ f.color = Unset
  BY DEF Filters
<1> QED
  BY <1>1, <1>2, BrandsMatch, CategoriesMatch, SizesMatch, ColorsMatch

-----------------------------------------------------------------------------
\* Recommendations.

\* What Best chooses, by each rank that it is asked with.
LEMMA BestOfEquals ==
    ASSUME NEW S, IsFiniteSet(S), NEW n \in Nat
    PROVE  LET T == Best(S, n, LAMBDA x : 0) IN
              T \subseteq S /\ IsFiniteSet(T) /\ Cardinality(T) \in Nat /\ Cardinality(T) <= n
<1> DEFINE r == [x \in S |-> 0]
           T == Best(S, n, LAMBDA x : 0)
<1>1. \E U \in SUBSET S :
         /\ Cardinality(U) = Min({n, Cardinality(S)})
         /\ \A t \in U, u \in S \ U : r[t] >= r[u]
  <2>1. r \in [S -> Int]
    OBVIOUS
  <2> HIDE DEF r
  <2> QED
    BY <2>1, BestExists
<1>2. \E U \in SUBSET S :
         /\ Cardinality(U) = Min({n, Cardinality(S)})
         /\ \A t \in U, u \in S \ U : 0 >= 0
  BY <1>1
<1>3. T \in SUBSET S /\ Cardinality(T) = Min({n, Cardinality(S)})
  BY <1>2 DEF Best
<1>4. Cardinality(S) \in Nat
  BY FS_CardinalityType
<1>5. Min({n, Cardinality(S)}) \in Nat /\ Min({n, Cardinality(S)}) <= n
  BY <1>4 DEF Min
<1> QED
  BY <1>3, <1>5, FS_Subset

\* The most frequent in some baskets.
LEMMA OftenExist ==
    ASSUME NEW S, IsFiniteSet(S), NEW n \in Nat, NEW with, IsFiniteSet(with)
    PROVE  \E U \in SUBSET S :
              /\ Cardinality(U) = Min({n, Cardinality(S)})
              /\ \A t \in U, u \in S \ U :
                    Cardinality({b \in with : t \in b}) >= Cardinality({b \in with : u \in b})
<1> DEFINE r == [v \in S |-> Cardinality({b \in with : v \in b})]
<1>1. \A v \in S : Cardinality({b \in with : v \in b}) \in Int
  BY FS_Subset, FS_CardinalityType
<1>2. r \in [S -> Int]
  BY <1>1
<1>3. \E U \in SUBSET S :
         /\ Cardinality(U) = Min({n, Cardinality(S)})
         /\ \A t \in U, u \in S \ U : r[t] >= r[u]
  <2> HIDE DEF r
  <2> QED
    BY <1>2, BestExists
<1> QED
  BY <1>3

LEMMA RelatedAreForSale ==
    ASSUME CatalogueTypeOK, NEW p \in DOMAIN product, NEW n \in Nat
    PROVE  /\ Related(p, n) \subseteq SameCategory(p) /\ IsFiniteSet(Related(p, n))
           /\ Cardinality(Related(p, n)) \in Nat /\ Cardinality(Related(p, n)) <= n
<1>1. IsFiniteSet(SameCategory(p))
  BY CatalogueIsFinite, FS_Subset DEF SameCategory
<1> QED
  BY <1>1, BestOfEquals DEF Related

LEMMA UpsellsAreForSale ==
    ASSUME CatalogueTypeOK, NEW p \in DOMAIN product, NEW n \in Nat
    PROVE  Upsells(p, n) \subseteq SameCategory(p) /\ Cardinality(Upsells(p, n)) <= n
<1> DEFINE S == {x \in SameCategory(p) : product[x].price > product[p].price}
<1>1. S \in SUBSET DOMAIN product /\ S \subseteq SameCategory(p)
  BY DEF SameCategory
<1>2. IsFiniteSet(S)
  BY <1>1, CatalogueIsFinite, FS_Subset
<1>3. \A x \in S : product[x].price \in Int
  BY <1>1, CatalogueAssumption DEF CatalogueTypeOK, Row
<1> DEFINE r == [x \in S |-> 0 - product[x].price]
<1>4. \E U \in SUBSET S :
         /\ Cardinality(U) = Min({n, Cardinality(S)})
         /\ \A t \in U, u \in S \ U : r[t] >= r[u]
  <2>1. r \in [S -> Int]
    BY <1>3
  <2> HIDE DEF r, S
  <2> QED
    BY <1>2, <2>1, BestExists
<1>5. \E U \in SUBSET S :
         /\ Cardinality(U) = Min({n, Cardinality(S)})
         /\ \A t \in U, u \in S \ U : 0 - product[t].price >= 0 - product[u].price
  BY <1>4
<1>6. Upsells(p, n) = CHOOSE U \in SUBSET S :
         /\ Cardinality(U) = Min({n, Cardinality(S)})
         /\ \A t \in U, u \in S \ U : 0 - product[t].price >= 0 - product[u].price
  BY DEF Upsells, Best
<1> HIDE DEF S
<1>7. Upsells(p, n) \in SUBSET S /\ Cardinality(Upsells(p, n)) = Min({n, Cardinality(S)})
  BY <1>5, <1>6
<1>8. Cardinality(S) \in Nat
  BY <1>2, FS_CardinalityType
<1>9. Min({n, Cardinality(S)}) <= n
  BY <1>8 DEF Min
<1> QED
  BY <1>1, <1>7, <1>9

LEMMA BoughtAreForSale ==
    ASSUME CatalogueTypeOK, NEW p \in DOMAIN product, NEW n \in Nat
    PROVE  LET S == FrequentlyBoughtTogether(p, n) IN
              /\ p \notin S /\ Cardinality(S) <= n
              /\ \A x \in S : product[x].active
<1> DEFINE with == {b \in Baskets : \E v \in b : v[1] = p}
           others == {v \in UNION with : v[1] # p}
           first == Best(others, 2 * n, LAMBDA v : Cardinality({b \in with : v \in b}))
           found == {v[1] : v \in first} \cap {x \in DOMAIN product : product[x].active}
           bought == Best(found, n, LAMBDA x : 0)
<1>1. FrequentlyBoughtTogether(p, n) =
         IF with = {} THEN Related(p, n) ELSE bought \cup Related(p, n - Cardinality(bought))
  BY DEF FrequentlyBoughtTogether
<1>2. IsFiniteSet(with) /\ IsFiniteSet(others)
  <2>1. IsFiniteSet(with)
    BY CatalogueAssumption, FS_Subset
  <2>2. others \subseteq Ordered
    BY DEF Ordered
  <2>3. IsFiniteSet(Ordered)
    BY CatalogueAssumption, FirstIsFinite, FS_Subset
  <2> QED
    BY <2>1, <2>2, <2>3, FS_Subset
<1>3. first \subseteq others
  <2>1. PICK m \in Nat : m = 2 * n
    OBVIOUS
  <2>2. \E U \in SUBSET others :
           /\ Cardinality(U) = Min({m, Cardinality(others)})
           /\ \A t \in U, u \in others \ U :
                 Cardinality({b \in with : t \in b}) >= Cardinality({b \in with : u \in b})
    <3> HIDE DEF with, others
    <3> QED
      BY <1>2, <2>1, OftenExist
  <2>3. first = CHOOSE U \in SUBSET others :
           /\ Cardinality(U) = Min({m, Cardinality(others)})
           /\ \A t \in U, u \in others \ U :
                 Cardinality({b \in with : t \in b}) >= Cardinality({b \in with : u \in b})
    BY <2>1 DEF Best
  <2> HIDE DEF with, others, first
  <2> QED
    BY <2>2, <2>3
<1>4. IsFiniteSet(found) /\ p \notin found /\ \A x \in found : product[x].active
  <2>1. found \subseteq DOMAIN product
    OBVIOUS
  <2>2. p \notin found
    BY <1>3
  <2> QED
    BY <2>1, <2>2, CatalogueIsFinite, FS_Subset
<1> HIDE DEF with, found
<1>5. /\ bought \subseteq found /\ IsFiniteSet(bought)
      /\ Cardinality(bought) \in Nat /\ Cardinality(bought) <= n
  BY <1>4, BestOfEquals
<1> HIDE DEF bought
<1>6. n - Cardinality(bought) \in Nat
  BY <1>5
<1>7. \A m \in Nat : p \notin Related(p, m) /\ \A x \in Related(p, m) : product[x].active
  BY RelatedAreForSale DEF SameCategory
<1>8. CASE with = {}
  BY <1>1, <1>7, <1>8, RelatedAreForSale
<1>9. CASE with # {}
  <2>1. PICK m \in Nat : m = n - Cardinality(bought)
    BY <1>6
  <2>2. IsFiniteSet(Related(p, m)) /\ Cardinality(Related(p, m)) \in Nat /\ Cardinality(Related(p, m)) <= m
    BY RelatedAreForSale
  <2>3. Cardinality(bought \cup Related(p, m)) <= Cardinality(bought) + Cardinality(Related(p, m))
    <3>1. Cardinality(bought \cap Related(p, m)) \in Nat
      BY <1>5, FS_Intersection, FS_CardinalityType
    <3>2. Cardinality(bought \cup Related(p, m))
            = Cardinality(bought) + Cardinality(Related(p, m)) - Cardinality(bought \cap Related(p, m))
      BY <1>5, <2>2, FS_Union
    <3> QED
      BY <1>5, <2>2, <3>1, <3>2
  <2>4. Cardinality(bought \cup Related(p, m)) \in Nat
    BY <1>5, <2>2, FS_Union, FS_CardinalityType
  <2>5. Cardinality(bought \cup Related(p, m)) <= n
    BY <1>5, <2>1, <2>2, <2>3, <2>4
  <2> QED
    BY <1>1, <1>4, <1>5, <1>7, <1>9, <2>1, <2>5
<1> QED
  BY <1>8, <1>9

LEMMA RecommendedAreForSale == CatalogueTypeOK => RecommendationsAreForSale
<1>1. ASSUME CatalogueTypeOK, NEW p \in DOMAIN product, NEW n \in 1..2,
             NEW S \in {FrequentlyBoughtTogether(p, n), Upsells(p, n)}
      PROVE  p \notin S /\ Cardinality(S) <= n /\ \A x \in S : product[x].active
  BY <1>1, BoughtAreForSale, UpsellsAreForSale DEF SameCategory
<1> QED
  BY <1>1 DEF RecommendationsAreForSale

\* products.service.ts:592: for any products, prices and filters the counts beside the
\* filters are those of the listings that they lead to.
THEOREM FacetsAlwaysMatch == CatalogueSpec => []FacetsMatchListings
<1> QED
  BY CatalogueTypeCorrect, FacetsMatch, PTL

\* products.service.ts:371 and :430: for any orders and products a page recommends others,
\* which are for sale, and no more than there is room for.
THEOREM RecommendedAreAlwaysForSale == CatalogueSpec => []RecommendationsAreForSale
<1> QED
  BY CatalogueTypeCorrect, RecommendedAreForSale, PTL
-----------------------------------------------------------------------------
\* The hearts of one product, for any number of buttons, clicks and lost requests.

\* While the last answer is that a toggle was taken: some button still waits for what the
\* backend told it, or a reload has not been read yet, or carries what is there, or is over.
HeartIsOnItsWay ==
    last = "taken" =>
        \/ \E b \in Hearts : button[b].stage \in {"taken", "refused", "failed"}
        \/ reload.stage = "asked"
        \/ reload.stage = "answered" /\ reload.value = saved
        \/ reload.stage = "idle" /\ heart = saved

HeartInv == HeartTypeOK /\ HeartIsOnItsWay

LEMMA HeartStarts == HeartInit => HeartInv
BY HeartAssumption DEF HeartInit, HeartInv, HeartTypeOK, HeartIsOnItsWay, AtRest, NoFetch

LEMMA HeartTypesKept == HeartTypeOK /\ [HeartNext]_heartVars => HeartTypeOK'
<1>1. SUFFICES ASSUME HeartTypeOK, [HeartNext]_heartVars PROVE HeartTypeOK'
  OBVIOUS
<1> USE <1>1, HeartAssumption DEF HeartTypeOK
<1>2. ASSUME NEW b \in Hearts, ClickHeart(b) PROVE HeartTypeOK'
  BY <1>2 DEF ClickHeart
<1>3. ASSUME NEW b \in Hearts, SendToggle(b) PROVE HeartTypeOK'
  <2>1. PICK verb \in {"POST", "DELETE"} :
           button' = [button EXCEPT ![b].stage = "sent", ![b].verb = verb]
    BY <1>3 DEF SendToggle
  <2>2. [button[b] EXCEPT !.stage = "sent", !.verb = verb]
           \in [stage : {"idle", "flipped", "sent", "taken", "refused", "failed"},
               was : BOOLEAN, verb : {"none", "POST", "DELETE"}]
    OBVIOUS
  <2> QED
    BY <1>3, <2>1, <2>2 DEF SendToggle
<1>4. ASSUME NEW b \in Hearts, ServerToggles(b) PROVE HeartTypeOK'
  BY <1>4 DEF ServerToggles
<1>5. ASSUME NEW b \in Hearts, LoseToggle(b) PROVE HeartTypeOK'
  BY <1>5 DEF LoseToggle
<1>6. ASSUME NEW b \in Hearts, ToggleSucceeds(b) PROVE HeartTypeOK'
  BY <1>6 DEF ToggleSucceeds, AtRest
<1>7. ASSUME NEW b \in Hearts, ToggleFails(b) PROVE HeartTypeOK'
  BY <1>7 DEF ToggleFails, AtRest
<1>8. CASE FetchWishlist
  BY <1>8 DEF FetchWishlist
<1>9. CASE ServerReadsWishlist
  BY <1>9 DEF ServerReadsWishlist
<1>10. CASE SetFromServer
  BY <1>10 DEF SetFromServer, NoFetch
<1>11. ASSUME NEW f \in dropped, SetFromDropped(f) PROVE HeartTypeOK'
  BY <1>11 DEF SetFromDropped
<1>12. CASE UNCHANGED heartVars
  BY <1>12 DEF heartVars
<1> QED
  BY <1>2, <1>3, <1>4, <1>5, <1>6, <1>7, <1>8, <1>9, <1>10, <1>11, <1>12 DEF HeartNext

\* What a button waits for is only answered by a reload or by the end of "taken".
LEMMA HeartKeeps == HeartInv /\ [HeartNext]_heartVars => HeartInv'
<1>1. SUFFICES ASSUME HeartInv, [HeartNext]_heartVars PROVE HeartIsOnItsWay'
  BY HeartTypesKept DEF HeartInv
<1> USE <1>1 DEF HeartInv, HeartTypeOK, HeartIsOnItsWay
<1>2. ASSUME NEW b \in Hearts, ClickHeart(b) PROVE HeartIsOnItsWay'
  BY <1>2 DEF ClickHeart
<1>3. ASSUME NEW b \in Hearts, SendToggle(b) PROVE HeartIsOnItsWay'
  <2>1. \A c \in Hearts : button[c].stage \in {"taken", "refused", "failed"}
                            => button'[c].stage = button[c].stage
    BY <1>3 DEF SendToggle
  <2> QED
    BY <1>3, <2>1 DEF SendToggle
<1>4. ASSUME NEW b \in Hearts, ServerToggles(b) PROVE HeartIsOnItsWay'
  <2>1. button'[b].stage \in {"refused", "taken"}
    BY <1>4 DEF ServerToggles
  <2> QED
    BY <2>1
<1>5. ASSUME NEW b \in Hearts, LoseToggle(b) PROVE HeartIsOnItsWay'
  <2>1. button'[b].stage = "failed"
    BY <1>5 DEF LoseToggle
  <2> QED
    BY <2>1
<1>6. ASSUME NEW b \in Hearts, ToggleSucceeds(b) PROVE HeartIsOnItsWay'
  BY <1>6 DEF ToggleSucceeds
<1>7. ASSUME NEW b \in Hearts, ToggleFails(b) PROVE HeartIsOnItsWay'
  BY <1>7 DEF ToggleFails
<1>8. CASE FetchWishlist
  BY <1>8 DEF FetchWishlist
<1>9. CASE ServerReadsWishlist
  BY <1>9 DEF ServerReadsWishlist
<1>10. CASE SetFromServer
  BY <1>10 DEF SetFromServer, NoFetch
<1>11. ASSUME NEW f \in dropped, SetFromDropped(f) PROVE HeartIsOnItsWay'
  BY <1>11 DEF SetFromDropped
<1>12. CASE UNCHANGED heartVars
  BY <1>12 DEF heartVars
<1> QED
  BY <1>1, <1>2, <1>3, <1>4, <1>5, <1>6, <1>7, <1>8, <1>9, <1>10, <1>11, <1>12 DEF HeartNext

LEMMA HeartInvHolds == HeartSpec => []HeartInv
BY HeartStarts, HeartKeeps, PTL DEF HeartSpec

\* Types of the hearts and their requests.
THEOREM HeartTypeCorrect == HeartSpec => []HeartTypeOK
<1> QED
  BY HeartInvHolds, PTL DEF HeartInv

\* ProductDetailClient.tsx:204, ProductCard.tsx:66: whatever buttons are clicked and however
\* their requests and reloads overlap, a heart that a toggle set ends as the backend has it.
THEOREM HeartAlwaysFollows == HeartSpec => []HeartFollowsServer
<1>1. HeartInv => HeartFollowsServer
  BY DEF HeartInv, HeartIsOnItsWay, HeartFollowsServer, Settled
<1> QED
  BY <1>1, HeartInvHolds, PTL
-----------------------------------------------------------------------------
\* A page and the backend, for any number of saves under way.

\* Every page is meant for visitors that there are.
LEMMA VisitorsOfAdminPages ==
    \E S : /\ AdminPages \in Seq(S)
          /\ \A page \in S : page.for \subseteq Anyone
<1> DEFINE S == {AdminPage, AdminAnalyticsPage, AdminAuditPage, AdminCategoriesPage,
                  AdminCouponsPage, AdminErrorsPage, AdminFinancePage, AdminFlashSalesPage,
                  AdminFraudPage, AdminImpersonatePage, AdminInventoryPage,
                  AdminOrdersPage, AdminPluginsPage, AdminProductsPage, NewProductPage,
                  EditProductPage, BulkUploadPage, RefundApprovalsPage, AdminUsersPage,
                  WarehouseCard, AdminWarehousesPage}
<1>1. /\ AdminPage.for \subseteq Anyone
      /\ AdminAnalyticsPage.for \subseteq Anyone
      /\ AdminAuditPage.for \subseteq Anyone
      /\ AdminCategoriesPage.for \subseteq Anyone
      /\ AdminCouponsPage.for \subseteq Anyone
      /\ AdminErrorsPage.for \subseteq Anyone
      /\ AdminFinancePage.for \subseteq Anyone
  BY DEF Page, Admins, Anyone, Roles, AdminPage, AdminAnalyticsPage, AdminAuditPage,
         AdminCategoriesPage, AdminCouponsPage, AdminErrorsPage, AdminFinancePage
<1>2. /\ AdminFlashSalesPage.for \subseteq Anyone
      /\ AdminFraudPage.for \subseteq Anyone
      /\ AdminImpersonatePage.for \subseteq Anyone
      /\ AdminInventoryPage.for \subseteq Anyone
      /\ AdminOrdersPage.for \subseteq Anyone
      /\ AdminPluginsPage.for \subseteq Anyone
      /\ AdminProductsPage.for \subseteq Anyone
  BY DEF Page, Admins, Anyone, Roles, AdminFlashSalesPage, AdminFraudPage,
         AdminImpersonatePage, AdminInventoryPage, AdminOrdersPage, AdminPluginsPage,
         AdminProductsPage
<1>3. /\ NewProductPage.for \subseteq Anyone
      /\ EditProductPage.for \subseteq Anyone
      /\ BulkUploadPage.for \subseteq Anyone
      /\ RefundApprovalsPage.for \subseteq Anyone
      /\ AdminUsersPage.for \subseteq Anyone
      /\ WarehouseCard.for \subseteq Anyone
      /\ AdminWarehousesPage.for \subseteq Anyone
  BY DEF Page, Admins, Anyone, Roles, NewProductPage, EditProductPage, BulkUploadPage,
         RefundApprovalsPage, AdminUsersPage, WarehouseCard, AdminWarehousesPage
<1>4. AdminPages \in Seq(S)
  BY DEF AdminPages
<1>5. \A page \in S : page.for \subseteq Anyone
  BY <1>1, <1>2, <1>3
<1> QED
  BY <1>4, <1>5

LEMMA VisitorsOfShopPages ==
    \E S : /\ ShopPages \in Seq(S)
          /\ \A page \in S : page.for \subseteq Anyone
<1> DEFINE S == {CartSidebar, Navbar, HomePage, ProductsPage, ProductCard, FlashSalesPage,
                  BlogPage, BlogPostPage, ProductDetailPage, PriceAlertWidget, OrdersPage,
                  OrderDetailPage, OrderConfirmationPage, ProfilePage, WalletPage,
                  LoyaltyPage, ReferralPage, SupportPage, WishlistPage, CheckoutPage,
                  GuestCheckout, RegisterPage}
<1>1. /\ CartSidebar.for \subseteq Anyone
      /\ Navbar.for \subseteq Anyone
      /\ HomePage.for \subseteq Anyone
      /\ ProductsPage.for \subseteq Anyone
      /\ ProductCard.for \subseteq Anyone
      /\ FlashSalesPage.for \subseteq Anyone
      /\ BlogPage.for \subseteq Anyone
  BY DEF Page, Customers, Everyone, Anyone, Roles, CartSidebar, Navbar, HomePage,
         ProductsPage, ProductCard, FlashSalesPage, BlogPage
<1>2. /\ BlogPostPage.for \subseteq Anyone
      /\ ProductDetailPage.for \subseteq Anyone
      /\ PriceAlertWidget.for \subseteq Anyone
      /\ OrdersPage.for \subseteq Anyone
      /\ OrderDetailPage.for \subseteq Anyone
      /\ OrderConfirmationPage.for \subseteq Anyone
      /\ ProfilePage.for \subseteq Anyone
  BY DEF Page, Customers, Everyone, Anyone, Roles, BlogPostPage, ProductDetailPage,
         PriceAlertWidget, OrdersPage, OrderDetailPage, OrderConfirmationPage, ProfilePage
<1>3. /\ WalletPage.for \subseteq Anyone
      /\ LoyaltyPage.for \subseteq Anyone
      /\ ReferralPage.for \subseteq Anyone
      /\ SupportPage.for \subseteq Anyone
      /\ WishlistPage.for \subseteq Anyone
      /\ CheckoutPage.for \subseteq Anyone
      /\ GuestCheckout.for \subseteq Anyone
      /\ RegisterPage.for \subseteq Anyone
  BY DEF Page, Customers, Everyone, Anyone, Roles, WalletPage, LoyaltyPage, ReferralPage,
         SupportPage, WishlistPage, CheckoutPage, GuestCheckout, RegisterPage
<1>4. ShopPages \in Seq(S)
  BY DEF ShopPages
<1>5. \A page \in S : page.for \subseteq Anyone
  BY <1>1, <1>2, <1>3
<1> QED
  BY <1>4, <1>5

LEMMA VisitorsOfPages ==
    \A p \in DOMAIN PageList : p \in Nat /\ PageList[p].for \subseteq Anyone
<1>1. PICK S : AdminPages \in Seq(S) /\ \A page \in S : page.for \subseteq Anyone
  BY VisitorsOfAdminPages
<1>2. PICK T : ShopPages \in Seq(T) /\ \A page \in T : page.for \subseteq Anyone
  BY VisitorsOfShopPages
<1>3. AdminPages \in Seq(S \cup T) /\ ShopPages \in Seq(S \cup T)
  BY <1>1, <1>2
<1>4. PageList \in Seq(S \cup T)
  BY <1>3 DEF PageList
<1> QED
  BY <1>1, <1>2, <1>4

ViewIsOfPage ==
    /\ view.page \in Nat /\ view.role \in Anyone
    /\ /\ SavesClearWhatTheyChange
       /\ TheQuery.call.path \in TheSave.changes /\ view.role \in TheQuery.for
       => TheSave.leaves \/ Invalidated(TheQuery.key)

SaveType == [state : {"none", "sent", "answered", "failed", "done", "error"},
             filled : BOOLEAN, version : Nat]

\* Saves that the backend, or the network, is done with.
Past == {i \in 1..MaxSaves : saves[i].state \notin {"none", "sent"}}

\* Versions are of the data; each save makes one at most, and none where it changes nothing.
VersionsAreReal ==
    /\ token \in BOOLEAN /\ stale \in BOOLEAN /\ open \in BOOLEAN
    /\ fetch \in [state : {"idle", "asked", "answered", "refused"}, version : Nat]
    /\ saves \in [1..MaxSaves -> SaveType]
    /\ server \in Nat /\ acked \in Nat /\ shown \in Nat
    /\ 1 <= server /\ server <= 1 + Cardinality(Past)
    /\ acked <= server /\ shown <= server /\ fetch.version <= server
    /\ \A i \in 1..MaxSaves : saves[i].version <= server
    /\ fetch.state = "answered" => 1 <= fetch.version
    /\ TheQuery.call.path \notin TheSave.changes => server = 1

\* What was acknowledged is in the answer on its way, or the data is not believed current.
AckedIsOnItsWay ==
    SavesClearWhatTheyChange /\ Enabled =>
        /\ fetch.state = "answered" => acked <= fetch.version
        /\ shown < acked => shown = Unknown \/ stale

PagesInv == ViewIsOfPage /\ VersionsAreReal /\ AckedIsOnItsWay

\* Whatever the view, nothing is shown, sent or acknowledged yet.
LEMMA ViewsStart ==
    ASSUME NEW v, StartsAs(v)
    PROVE  VersionsAreReal /\ AckedIsOnItsWay
<1>1. VersionsAreReal
  <2>1. Past = {}
    BY DEF StartsAs, Past, NotSent
  <2>2. Cardinality(Past) = 0
    BY <2>1, FS_EmptySet
  <2>3. /\ token = (v.role # "GUEST") /\ stale = FALSE /\ open = TRUE /\ shown = 0 /\ server = 1
        /\ acked = 0 /\ fetch = Unfetched /\ saves = [i \in 1..MaxSaves |-> NotSent]
    BY DEF StartsAs, Unknown
  <2>4. NotSent \in SaveType /\ NotSent.version = 0
    BY DEF NotSent, SaveType
  <2>5. saves \in [1..MaxSaves -> SaveType] /\ \A i \in 1..MaxSaves : saves[i].version = 0
    BY <2>3, <2>4
  <2> HIDE DEF NotSent, SaveType
  <2>6. /\ token \in BOOLEAN /\ stale \in BOOLEAN /\ open \in BOOLEAN
    BY <2>3
  <2>7. /\ fetch \in [state : {"idle", "asked", "answered", "refused"}, version : Nat]
        /\ fetch.version = 0 /\ fetch.state # "answered"
    BY <2>3 DEF Unfetched
  <2> QED
    BY <2>2, <2>3, <2>5, <2>6, <2>7 DEF VersionsAreReal
<1>2. AckedIsOnItsWay
  BY DEF StartsAs, AckedIsOnItsWay, Unfetched, Unknown
<1> QED
  BY <1>1, <1>2

LEMMA PagesStart == PagesInit => PagesInv
<1>1. SUFFICES ASSUME PagesInit PROVE PagesInv
  OBVIOUS
<1>a. PICK p \in DOMAIN PageList :
         \E query \in Range(PageList[p].reads) \cup {NoQuery},
            save \in Range(PageList[p].saves) \cup {NoSave}, role \in PageList[p].for :
           Combined(PageList[p], query, save, role) /\ StartsAs(ViewOf(p, query, save, role))
  BY <1>1 DEF PagesInit
<1>2. PICK query \in Range(PageList[p].reads) \cup {NoQuery},
           save \in Range(PageList[p].saves) \cup {NoSave}, role \in PageList[p].for :
         Combined(PageList[p], query, save, role) /\ StartsAs(ViewOf(p, query, save, role))
  BY <1>a
<1>3. /\ view.page = p /\ view.role = role /\ TheQuery = query /\ TheSave = save
  BY <1>2 DEF StartsAs, ViewOf, TheQuery, TheSave
<1>4. ViewIsOfPage
  <2>1. view.page \in Nat /\ view.role \in Anyone
    BY <1>2, <1>3, VisitorsOfPages
  <2>2. SavesClearWhatTheyChange /\ query.call.path \in save.changes /\ role \in query.for =>
           \/ save.leaves
           \/ \E prefix \in save.clears :
                 Len(prefix) <= Len(query.key) /\ SubSeq(query.key, 1, Len(prefix)) = prefix
    BY <1>2 DEF SavesClearWhatTheyChange
  <2> QED
    BY <1>3, <2>1, <2>2 DEF ViewIsOfPage, Invalidated
<1>5. VersionsAreReal /\ AckedIsOnItsWay
  BY <1>2, ViewsStart
<1> QED
  BY <1>4, <1>5 DEF PagesInv

\* A save that moves on is one more that is past.
LEMMA PastGrows ==
    ASSUME VersionsAreReal, NEW i \in 1..MaxSaves, NEW r \in SaveType,
           saves' = [saves EXCEPT ![i] = r]
    PROVE  /\ Cardinality(Past) \in Nat /\ Cardinality(Past') \in Nat
           /\ r.state \notin {"none", "sent"} /\ saves[i].state = "sent"
                => Cardinality(Past') = Cardinality(Past) + 1
           /\ r.state \notin {"none", "sent"} /\ saves[i].state \notin {"none", "sent"}
                => Cardinality(Past') = Cardinality(Past)
           /\ r.state = "sent" /\ saves[i].state = "none" => Cardinality(Past') = Cardinality(Past)
<1>1. IsFiniteSet(1..MaxSaves)
  BY FS_Interval, PagesAssumption
<1>2. IsFiniteSet(Past) /\ IsFiniteSet(Past')
  BY <1>1, FS_Subset DEF Past
<1>3. saves' \in [1..MaxSaves -> SaveType] /\ saves'[i] = r /\ \A j \in 1..MaxSaves : j # i => saves'[j] = saves[j]
  BY DEF VersionsAreReal
<1>4. r.state \notin {"none", "sent"} /\ saves[i].state = "sent" => Past' = Past \cup {i} /\ i \notin Past
  BY <1>3 DEF Past
<1>5. r.state \notin {"none", "sent"} /\ saves[i].state \notin {"none", "sent"} => Past' = Past
  BY <1>3 DEF Past
<1>6. r.state = "sent" /\ saves[i].state = "none" => Past' = Past
  BY <1>3 DEF Past
<1>7. i \notin Past => Cardinality(Past \cup {i}) = Cardinality(Past) + 1
  BY <1>2, FS_AddElement
<1> QED
  BY <1>2, <1>4, <1>5, <1>6, <1>7, FS_CardinalityType

\* A save that moves on keeps its type and its version.
LEMMA SaveMoves ==
    ASSUME VersionsAreReal, NEW i \in 1..MaxSaves,
           NEW state \in {"none", "sent", "answered", "failed", "done", "error"}
    PROVE  \E r \in SaveType : /\ r = [saves[i] EXCEPT !.state = state]
                              /\ r.state = state /\ r.version = saves[i].version
                              /\ r.version \in Nat /\ r.version <= server
<1>1. saves[i] \in SaveType /\ saves[i].version <= server
  BY DEF VersionsAreReal
<1>2. [saves[i] EXCEPT !.state = state] \in SaveType
  BY <1>1 DEF SaveType
<1>3. /\ [saves[i] EXCEPT !.state = state].state = state
      /\ [saves[i] EXCEPT !.state = state].version = saves[i].version
      /\ saves[i].version \in Nat
  BY <1>1 DEF SaveType
<1> QED
  BY <1>1, <1>2, <1>3

LEMMA VersionsFollow ==
    ASSUME VersionsAreReal, NEW i \in 1..MaxSaves, NEW r \in SaveType, saves' = [saves EXCEPT ![i] = r],
           TheQuery' = TheQuery, TheSave' = TheSave, token' = token, shown' = shown,
           stale' \in BOOLEAN, open' \in BOOLEAN,
           fetch' \in {fetch, [state |-> "asked", version |-> 0]},
           server' \in {server, Changed}, server' <= 1 + Cardinality(Past'),
           r.version <= server', acked' \in Nat, acked' <= server'
    PROVE  VersionsAreReal'
<1>1. server \in Nat /\ server' \in Nat /\ server <= server'
  BY DEF VersionsAreReal, Changed
<1>2. TheQuery.call.path \notin TheSave.changes => server' = 1
  BY DEF VersionsAreReal, Changed
<1>3. saves' \in [1..MaxSaves -> SaveType]
  BY DEF VersionsAreReal
<1>4. \A j \in 1..MaxSaves : saves'[j].version <= server'
  <2>1. \A j \in 1..MaxSaves : saves[j].version \in Nat /\ saves[j].version <= server
    BY DEF VersionsAreReal, SaveType
  <2>2. \A j \in 1..MaxSaves : saves'[j] = IF j = i THEN r ELSE saves[j]
    BY DEF VersionsAreReal
  <2> QED
    BY <1>1, <2>1, <2>2
<1>5. /\ fetch' \in [state : {"idle", "asked", "answered", "refused"}, version : Nat]
      /\ fetch'.version <= server'
      /\ fetch'.state = "answered" => 1 <= fetch'.version
  BY <1>1 DEF VersionsAreReal
<1>6. shown \in Nat /\ shown <= server' /\ 1 <= server' /\ token \in BOOLEAN
  BY <1>1 DEF VersionsAreReal
<1> QED
  BY <1>1, <1>2, <1>3, <1>4, <1>5, <1>6 DEF VersionsAreReal

LEMMA PagesKeep == PagesInv /\ [PagesNext]_pVars => PagesInv'
<1>1. SUFFICES ASSUME PagesInv, [PagesNext]_pVars PROVE PagesInv'
  OBVIOUS
<1> USE <1>1 DEF PagesInv
<1>2. view' = view /\ ViewIsOfPage'
  <2>1. view' = view
    BY DEF PagesNext, pVars, AskForData, ServerAnswersRead, ReceiveRead, ReadFails, GoesStale,
           Submit, ServerTakesSave, ServerRefusesSave, SaveSucceeds, SaveFails, TokenExpires
  <2> QED
    BY <2>1 DEF ViewIsOfPage, TheQuery, TheSave, Invalidated
<1> DEFINE Same == TheQuery' = TheQuery /\ TheSave' = TheSave /\ view'.role = view.role
<1>3. Same
  BY <1>2 DEF TheQuery, TheSave
<1>4. saves' = saves => Past' = Past
  BY DEF Past
<1>q. /\ fetch \in [state : {"idle", "asked", "answered", "refused"}, version : Nat]
      /\ fetch.version <= server /\ fetch.version \in Nat /\ server \in Nat /\ 1 <= server /\ acked <= server
  BY DEF VersionsAreReal
<1>5. CASE AskForData \/ ServerAnswersRead \/ ReadFails \/ ReceiveRead
  <2>1. \E state \in {"idle", "asked", "answered", "refused"}, made \in {0, server} :
           /\ fetch' = [state |-> state, version |-> made]
           /\ state = "answered" => made = server
    BY <1>5 DEF AskForData, ServerAnswersRead, ReadFails, ReceiveRead, Unfetched
  <2>2. /\ fetch' \in [state : {"idle", "asked", "answered", "refused"}, version : Nat]
        /\ fetch'.version <= server
        /\ fetch'.state = "answered" => fetch'.version = server
    BY <1>q, <2>1
  <2>3. /\ UNCHANGED <<token, server, saves, acked, open>>
        /\ <<shown', stale'>> \in {<<shown, stale>>, <<fetch.version, FALSE>>}
        /\ shown' # shown \/ stale' # stale => fetch.state = "answered"
    BY <1>5 DEF AskForData, ServerAnswersRead, ReadFails, ReceiveRead
  <2>4. VersionsAreReal'
    <3>1. shown' \in Nat /\ shown' <= server /\ stale' \in BOOLEAN
      BY <1>q, <2>3 DEF VersionsAreReal
    <3> QED
      BY <1>3, <1>4, <1>q, <2>2, <2>3, <3>1 DEF VersionsAreReal
  <2>5. AckedIsOnItsWay'
    <3>1. SavesClearWhatTheyChange /\ Enabled' =>
             /\ fetch.state = "answered" => acked <= fetch.version
             /\ shown < acked => shown = Unknown \/ stale
      BY <1>3, <2>3 DEF AckedIsOnItsWay, Enabled
    <3>2. SavesClearWhatTheyChange /\ Enabled' /\ shown' < acked => shown' = Unknown \/ stale'
      <4>1. CASE shown' = shown /\ stale' = stale
        BY <3>1, <4>1
      <4>2. CASE shown' = fetch.version /\ fetch.state = "answered"
        <5>1. acked \in Nat
          BY DEF VersionsAreReal
        <5> QED
          BY <1>q, <3>1, <4>2, <5>1
      <4> QED
        BY <2>3, <4>1, <4>2
    <3> QED
      BY <1>q, <2>2, <2>3, <3>2 DEF AckedIsOnItsWay
  <2> QED
    BY <1>2, <2>4, <2>5
<1>7. CASE GoesStale \/ TokenExpires \/ UNCHANGED pVars
  <2>1. VersionsAreReal'
    BY <1>3, <1>4, <1>7 DEF GoesStale, TokenExpires, pVars, VersionsAreReal
  <2>2. AckedIsOnItsWay'
    BY <1>3, <1>7 DEF GoesStale, TokenExpires, pVars, AckedIsOnItsWay, Enabled
  <2> QED
    BY <1>2, <2>1, <2>2
<1>8. ASSUME NEW i \in 1..MaxSaves, Submit(i) PROVE PagesInv'
  <2>1. PICK filled \in BOOLEAN :
           saves' = [saves EXCEPT ![i] = [saves[i] EXCEPT !.state = "sent", !.filled = filled]]
    BY <1>8 DEF Submit
  <2> DEFINE r == [saves[i] EXCEPT !.state = "sent", !.filled = filled]
  <2>2. saves[i] \in SaveType /\ saves[i].version <= server /\ saves[i].state = "none"
    BY <1>8 DEF VersionsAreReal, Submit
  <2>3. r \in SaveType /\ r.state = "sent" /\ r.version = saves[i].version
    BY <2>1, <2>2 DEF SaveType
  <2>4. saves' = [saves EXCEPT ![i] = r]
    BY <2>1
  <2> HIDE DEF r
  <2>5. Cardinality(Past') = Cardinality(Past) /\ Cardinality(Past) \in Nat
    BY <2>2, <2>3, <2>4, PastGrows
  <2>6. VersionsAreReal'
    <3>1. server' = server /\ server <= 1 + Cardinality(Past') /\ acked \in Nat /\ acked <= server
      BY <1>8, <2>5 DEF Submit, VersionsAreReal
    <3>2. r.version <= server' /\ stale \in BOOLEAN /\ open \in BOOLEAN
      BY <2>2, <2>3, <3>1 DEF VersionsAreReal
    <3> QED
      BY <1>3, <1>8, <2>3, <2>4, <3>1, <3>2, VersionsFollow DEF Submit
  <2>7. AckedIsOnItsWay'
    BY <1>3, <1>8 DEF Submit, AckedIsOnItsWay, Enabled
  <2> QED
    BY <1>2, <2>6, <2>7
<1>9. ASSUME NEW i \in 1..MaxSaves, ServerTakesSave(i) PROVE PagesInv'
  <2>1. server \in Nat /\ server' \in {server, Changed} /\ server <= server' /\ server' <= server + 1
    BY <1>9 DEF VersionsAreReal, ServerTakesSave, Changed
  <2>2. server' \in Nat
    BY <2>1 DEF Changed
  <2> DEFINE r == [saves[i] EXCEPT !.state = "answered", !.version = server']
  <2>3. saves[i] \in SaveType
    BY DEF VersionsAreReal
  <2>4. r \in SaveType /\ r.state = "answered" /\ r.version = server'
    BY <2>2, <2>3 DEF SaveType
  <2>5. saves' = [saves EXCEPT ![i] = r]
    BY <1>9 DEF ServerTakesSave
  <2>6. saves[i].state = "sent"
    BY <1>9 DEF ServerTakesSave
  <2> HIDE DEF r
  <2>7. Cardinality(Past') = Cardinality(Past) + 1 /\ Cardinality(Past) \in Nat
    BY <2>4, <2>5, <2>6, PastGrows
  <2>8. VersionsAreReal'
    <3>1. server' <= 1 + Cardinality(Past') /\ acked \in Nat /\ acked <= server'
      BY <2>1, <2>2, <2>7 DEF VersionsAreReal
    <3>2. r.version <= server' /\ stale \in BOOLEAN /\ open \in BOOLEAN
      BY <2>2, <2>4 DEF VersionsAreReal
    <3> QED
      BY <1>3, <1>9, <2>1, <2>4, <2>5, <3>1, <3>2, VersionsFollow DEF ServerTakesSave
  <2>9. AckedIsOnItsWay'
    BY <1>3, <1>9 DEF ServerTakesSave, AckedIsOnItsWay, Enabled
  <2> QED
    BY <1>2, <2>8, <2>9
<1>10. ASSUME NEW i \in 1..MaxSaves, ServerRefusesSave(i) PROVE PagesInv'
  <2>1. PICK r \in SaveType : /\ r = [saves[i] EXCEPT !.state = "failed"]
                              /\ r.state = "failed" /\ r.version \in Nat /\ r.version <= server
    BY SaveMoves
  <2>2. saves' = [saves EXCEPT ![i] = r]
    BY <1>10, <2>1 DEF ServerRefusesSave
  <2>3. Cardinality(Past') = Cardinality(Past) + 1 /\ Cardinality(Past) \in Nat
    BY <1>10, <2>1, <2>2, PastGrows DEF ServerRefusesSave
  <2>4. server' \in {server, Changed}
    BY <1>10 DEF ServerRefusesSave
  <2>5. VersionsAreReal'
    <3>1. server \in Nat /\ server <= server' /\ server' <= server + 1 /\ server <= 1 + Cardinality(Past)
      BY <2>4 DEF VersionsAreReal, Changed
    <3>2. server' \in Nat /\ server' <= 1 + Cardinality(Past') /\ r.version <= server'
      BY <2>1, <2>3, <2>4, <3>1 DEF Changed
    <3>3. acked \in Nat /\ acked <= server' /\ stale \in BOOLEAN /\ open \in BOOLEAN
      BY <3>1, <3>2 DEF VersionsAreReal
    <3> QED
      BY <1>3, <1>10, <2>1, <2>2, <2>4, <3>2, <3>3, VersionsFollow DEF ServerRefusesSave
  <2>6. AckedIsOnItsWay'
    BY <1>3, <1>10 DEF ServerRefusesSave, AckedIsOnItsWay, Enabled
  <2> QED
    BY <1>2, <2>5, <2>6
<1>11. ASSUME NEW i \in 1..MaxSaves, SaveFails(i) PROVE PagesInv'
  <2>1. PICK r \in SaveType : /\ r = [saves[i] EXCEPT !.state = "error"]
                              /\ r.state = "error" /\ r.version \in Nat /\ r.version <= server
    BY SaveMoves
  <2>2. saves' = [saves EXCEPT ![i] = r]
    BY <1>11, <2>1 DEF SaveFails
  <2>3. Cardinality(Past') \in {Cardinality(Past), Cardinality(Past) + 1} /\ Cardinality(Past) \in Nat
    BY <1>11, <2>1, <2>2, PastGrows DEF SaveFails
  <2>4. VersionsAreReal'
    BY <1>3, <1>11, <2>1, <2>2, <2>3, VersionsFollow DEF SaveFails, VersionsAreReal
  <2>5. AckedIsOnItsWay'
    BY <1>3, <1>11 DEF SaveFails, AckedIsOnItsWay, Enabled
  <2> QED
    BY <1>2, <2>4, <2>5
<1>12. ASSUME NEW i \in 1..MaxSaves, SaveSucceeds(i) PROVE PagesInv'
  <2>1. PICK r \in SaveType : /\ r = [saves[i] EXCEPT !.state = "done"]
                              /\ r.state = "done" /\ r.version = saves[i].version
    BY SaveMoves
  <2>2. saves' = [saves EXCEPT ![i] = r]
    BY <1>12, <2>1 DEF SaveSucceeds
  <2>3. Cardinality(Past') = Cardinality(Past) /\ Cardinality(Past) \in Nat
    BY <1>12, <2>1, <2>2, PastGrows DEF SaveSucceeds
  <2>4. saves[i].version \in Nat /\ saves[i].version <= server
    BY DEF VersionsAreReal, SaveType
  <2>5. acked' = IF saves[i].version > acked THEN saves[i].version ELSE acked
    BY <1>12 DEF SaveSucceeds
  <2>6. stale' \in BOOLEAN /\ open' \in BOOLEAN /\ fetch' \in {fetch, [state |-> "asked", version |-> 0]}
    BY <1>12 DEF SaveSucceeds, VersionsAreReal
  <2>7. VersionsAreReal'
    BY <1>3, <1>12, <2>1, <2>2, <2>3, <2>4, <2>5, <2>6, VersionsFollow DEF SaveSucceeds, VersionsAreReal
  <2>8. AckedIsOnItsWay'
    <3>1. SUFFICES ASSUME SavesClearWhatTheyChange, Enabled'
                   PROVE  /\ fetch'.state = "answered" => acked' <= fetch'.version
                          /\ shown' < acked' => shown' = Unknown \/ stale'
      BY DEF AckedIsOnItsWay
    <3>2. Enabled /\ ~TheSave.leaves
      BY <1>3, <1>12, <3>1 DEF Enabled, SaveSucceeds
    <3>3. CASE Invalidated(TheQuery.key)
      <4>1. fetch' = [state |-> "asked", version |-> 0]
        BY <1>12, <3>2, <3>3 DEF SaveSucceeds
      <4>2. stale' = (stale \/ shown # Unknown) /\ shown' = shown
        BY <1>12, <3>3 DEF SaveSucceeds
      <4> QED
        BY <4>1, <4>2
    <3>4. CASE ~Invalidated(TheQuery.key)
      <4>1. server = 1 /\ fetch' = fetch /\ stale' = stale /\ shown' = shown
        BY <1>12, <3>1, <3>2, <3>4 DEF SaveSucceeds, ViewIsOfPage, Enabled, VersionsAreReal
      <4>2. acked' \in 0..1 /\ shown \in 0..1 /\ (fetch.state = "answered" => fetch.version = 1)
        BY <2>4, <2>5, <4>1 DEF VersionsAreReal
      <4> QED
        BY <4>1, <4>2 DEF Unknown
    <3> QED
      BY <3>3, <3>4
  <2> QED
    BY <1>2, <2>7, <2>8
<1> QED
  BY <1>1, <1>5, <1>7, <1>8, <1>9, <1>10, <1>11, <1>12 DEF PagesNext

LEMMA PagesInvHolds == PagesSpec => []PagesInv
BY PagesStart, PagesKeep, PTL DEF PagesSpec

LEMMA PagesAreTyped == PagesInv => PagesTypeOK
<1> SUFFICES ASSUME PagesInv PROVE PagesTypeOK
  OBVIOUS
<1>2. IsFiniteSet(1..MaxSaves) /\ Cardinality(1..MaxSaves) = MaxSaves
  BY FS_Interval, PagesAssumption
<1>3. Cardinality(Past) <= MaxSaves /\ Cardinality(Past) \in Nat
  BY <1>2, FS_Subset, FS_CardinalityType DEF Past
<1>4. server <= MaxSaves + 1
  BY <1>3, PagesAssumption DEF PagesInv, VersionsAreReal
<1>5. \A n \in Nat : n <= server => n \in Versions
  BY <1>4, PagesAssumption DEF PagesInv, VersionsAreReal, Versions
<1>6. saves \in [1..MaxSaves ->
                  [state : {"none", "sent", "answered", "failed", "done", "error"},
                   filled : BOOLEAN, version : Versions]]
  BY <1>5 DEF PagesInv, VersionsAreReal, SaveType
<1>7. fetch \in [state : {"idle", "asked", "answered", "refused"}, version : Versions]
  BY <1>5 DEF PagesInv, VersionsAreReal
<1> QED
  BY <1>5, <1>6, <1>7 DEF PagesInv, VersionsAreReal, ViewIsOfPage, PagesTypeOK

\* Types of views, fetches and saves, for every page and any number of saves.
THEOREM PagesTypeCorrect == PagesSpec => []PagesTypeOK
BY PagesAreTyped, PagesInvHolds, PTL

LEMMA PagesShowSaved == SavesClearWhatTheyChange /\ PagesInv => SavedIsShown
BY DEF PagesInv, AckedIsOnItsWay, SavedIsShown

\* hooks with invalidateQueries: for any number of saves and fetches under way, a list that
\* the page believes current shows every save that the visitor was told is done.
THEOREM SavedIsAlwaysShown ==
    ASSUME SavesClearWhatTheyChange
    PROVE  PagesSpec => []SavedIsShown
<1>1. PagesInv => SavedIsShown
  BY PagesShowSaved
<1> QED
  BY <1>1, PagesInvHolds, PTL

-----------------------------------------------------------------------------
\* A step of the store is a step of the component that runs and none of the others.

LEMMA ShopStarts ==
    ShopInit =>
        /\ ShipmentsInit /\ PromotionsInit /\ RewardsInit /\ RegistriesInit
        /\ ReviewsInit /\ CheckoutInit /\ ReadThroughInit
        /\ CatalogueInit /\ HeartInit /\ InvoicingInit /\ BagInit /\ Init
BY DEF ShopInit

LEMMA ShopSteps ==
    [ShopNext]_shopVars =>
        /\ [ShipmentsNext]_shipmentVars
        /\ [CouponNext \/ AffiliateNext]_promotionVars
        /\ [RewardsNext]_rewardVars
        /\ [RegistriesNext \/ PermitsNext]_platformVars
        /\ [ReviewsNext]_reviewVars
        /\ [CheckoutNext]_checkoutVars
        /\ [ReadThroughNext]_cacheVars
        /\ [CatalogueNext]_catalogueVars
        /\ [HeartNext]_heartVars
        /\ [PagesNext]_pVars
        /\ [InvoicingNext]_invoiceVars
        /\ [BagNext]_bagVars
        /\ [Next]_vars
BY DEF ShopNext, shopVars, WalletStep, ShipmentsStep, CouponStep, AffiliateStep, RewardsStep,
       RegistriesStep, PermitsStep, PagesStep, WishlistStep, CatalogueStep, ReviewsStep,
       CheckoutStep, InvoicesStep, BagStep, CacheStep

\* orders.service.ts:226, fraud.service.ts:18: what a checkout writes down adds up, and only
\* both abuses together block a customer, in the store as the run puts it together.
THEOREM CheckoutAlwaysAddsUp == ShopSpec => []CheckoutAddsUp
<1>1. ShopSpec => CheckoutSpec
  BY ShopStarts, ShopSteps, PTL DEF ShopSpec, CheckoutSpec
<1>2. CheckoutTypeOK /\ AmountsAddUp /\ HighRiskIsBothAbuses => CheckoutAddsUp
  BY DEF CheckoutAddsUp
<1> QED
  BY <1>1, <1>2, AmountsAlwaysAddUp, PTL

\* redis.service.ts:112: what a page shows is no older than an entry and a load, and every
\* waiting reader has somebody who loads, for any number of readers.
THEOREM CacheIsAlwaysTrusted == ShopSpec => []CacheIsTrusted
<1>1. ShopSpec => ReadThroughSpec
  BY ShopStarts, ShopSteps, PTL DEF ShopSpec, ReadThroughSpec
<1>2. StaleIsBounded /\ WaitersHaveAFlight => CacheIsTrusted
  BY DEF CacheIsTrusted
<1> QED
  BY <1>1, <1>2, StaleIsAlwaysBounded, WaitersAlwaysHaveAFlight, PTL

\* Whatever the code keeps twice agrees: a variant's stock with its warehouses, when
\* requests are served one after the other (warehouse.service.ts:66; the run lost_sync of
\* MCShipments shows that two at once break it), and with any number of requests at once a
\* coupon's uses with its orders, a customer's points with their rows, the two tables of a
\* plugin registry, a product's rating with its reviews and a review's count with its votes.
THEOREM CopiesAlwaysAgree ==
    ASSUME OneClerk
    PROVE  ShopSpec => []CopiesAgree
<1>1. ShopSpec => ShipmentsSpec
  BY ShopStarts, ShopSteps, PTL DEF ShopSpec, ShipmentsSpec
<1>2. ShopSpec => PromotionsSpec
  BY ShopStarts, ShopSteps, PTL DEF ShopSpec, PromotionsSpec
<1>3. ShopSpec => RewardsSpec
  BY ShopStarts, ShopSteps, PTL DEF ShopSpec, RewardsSpec
<1>4. ShopSpec => PlatformSpec
  BY ShopStarts, ShopSteps, PTL DEF ShopSpec, PlatformSpec
<1>5. ShopSpec => ReviewsSpec
  BY ShopStarts, ShopSteps, PTL DEF ShopSpec, ReviewsSpec
<1>6. CopyIsSum /\ UsesAreOrders /\ PointsAreBook /\ TablesAgree /\ RatingIsAverage /\ HelpfulIsVotes
        => CopiesAgree
  BY DEF CopiesAgree
<1>7. ShipmentsSpec => []CopyIsSum
  BY CopyIsAlwaysSum
<1> QED
  BY <1>1, <1>2, <1>3, <1>4, <1>5, <1>6, <1>7, UsesAreAlwaysOrders, PointsAreAlwaysBook,
     TablesAlwaysAgree, RatingIsAlwaysAverage, HelpfulIsAlwaysVotes, PTL

\* products.service.ts:592, :371 and :309: counts beside the filters, what is recommended and
\* what was ordered, for any products, prices, baskets and edits of staff.
THEOREM CatalogueAlwaysAgrees == ShopSpec => []CatalogueAgrees
<1>1. ShopSpec => CatalogueSpec
  BY ShopStarts, ShopSteps, PTL DEF ShopSpec, CatalogueSpec
<1>2. FacetsMatchListings /\ RecommendationsAreForSale /\ OrderedStays => CatalogueAgrees
  BY DEF CatalogueAgrees
<1> QED
  BY <1>1, <1>2, FacetsAlwaysMatch, RecommendedAreAlwaysForSale, OrderedAlwaysStays, PTL

\* A store that does not run its pages starts with an empty view.
LEMMA ShopPagesStart == ShopInit => PagesInv
<1>1. ASSUME StartsAs(ViewOf(0, NoQuery, NoSave, "ADMIN")) PROVE PagesInv
  <2>1. /\ view.page = 0 /\ view.role = "ADMIN"
        /\ TheQuery.for = {}
    BY <1>1 DEF StartsAs, ViewOf, TheQuery, NoQuery, Query
  <2>2. ViewIsOfPage
    BY <2>1 DEF ViewIsOfPage, Anyone, Roles
  <2> QED
    BY <1>1, <2>2, ViewsStart DEF PagesInv
<1> QED
  BY <1>1, PagesStart DEF ShopInit

LEMMA ShopPagesInv == ShopSpec => []PagesInv
BY ShopPagesStart, ShopSteps, PagesKeep, PTL DEF ShopSpec

\* hooks with invalidateQueries, ProductCard.tsx:66: for any number of saves, clicks and reloads
\* under way a page shows what it was told is done, and a heart ends as the backend has it.
\* That each save of a page clears the queries it changes is a fact about the tables of the
\* pages; TLC evaluates it as TablesClear.
THEOREM ScreensAlwaysFollow ==
    ASSUME SavesClearWhatTheyChange
    PROVE  ShopSpec => []ScreensFollowServer
<1>1. ShopSpec => HeartSpec
  BY ShopStarts, ShopSteps, PTL DEF ShopSpec, HeartSpec
<1>2. PagesInv => SavedIsShown
  BY PagesShowSaved
<1>3. SavedIsShown /\ HeartFollowsServer => ScreensFollowServer
  BY DEF ScreensFollowServer
<1> QED
  BY <1>1, <1>2, <1>3, ShopPagesInv, HeartAlwaysFollows, PTL

\* warehouse.service.ts:125, :166, :221 and :245: a shelf has reserved what its shipments have,
\* less what their deliveries and returns took, however often each is reported, and no order that
\* is routed once is shipped more than was bought, with any number of clerks at once: unlike the
\* copies of the stock, this needs no order among requests.
THEOREM ShipmentsStayWhole == ShopSpec => []ShipmentsAreWhole
<1>1. ShopSpec => ShipmentsSpec
  BY ShopStarts, ShopSteps, PTL DEF ShopSpec, ShipmentsSpec
<1>2. ReservedIsUnsettled /\ RoutedAsBought => ShipmentsAreWhole
  BY DEF ShipmentsAreWhole
<1> QED
  BY <1>1, <1>2, ReservedAlwaysUnsettled, RoutedAlwaysAsBought, PTL

\* Types of every component of the store, together: wallets, shipments, promotions, points,
\* registries, pages, wishlists, catalogue, reviews, checkouts, invoices, bags and the cache.
THEOREM ShopTypeCorrect == ShopSpec => []ShopTypeOK
<1>1. ShopSpec => Spec
  BY ShopStarts, ShopSteps, PTL DEF ShopSpec, Spec
<1>2. ShopSpec => ShipmentsSpec
  BY ShopStarts, ShopSteps, PTL DEF ShopSpec, ShipmentsSpec
<1>3. ShopSpec => PromotionsSpec
  BY ShopStarts, ShopSteps, PTL DEF ShopSpec, PromotionsSpec
<1>4. ShopSpec => RewardsSpec
  BY ShopStarts, ShopSteps, PTL DEF ShopSpec, RewardsSpec
<1>5. ShopSpec => PlatformSpec
  BY ShopStarts, ShopSteps, PTL DEF ShopSpec, PlatformSpec
<1>6. ShopSpec => HeartSpec
  BY ShopStarts, ShopSteps, PTL DEF ShopSpec, HeartSpec
<1>7. ShopSpec => CatalogueSpec
  BY ShopStarts, ShopSteps, PTL DEF ShopSpec, CatalogueSpec
<1>8. ShopSpec => ReviewsSpec
  BY ShopStarts, ShopSteps, PTL DEF ShopSpec, ReviewsSpec
<1>9. ShopSpec => CheckoutSpec
  BY ShopStarts, ShopSteps, PTL DEF ShopSpec, CheckoutSpec
<1>10. ShopSpec => InvoicingSpec
  BY ShopStarts, ShopSteps, PTL DEF ShopSpec, InvoicingSpec
<1>11. ShopSpec => BagSpec
  BY ShopStarts, ShopSteps, PTL DEF ShopSpec, BagSpec
<1>12. ShopSpec => ReadThroughSpec
  BY ShopStarts, ShopSteps, PTL DEF ShopSpec, ReadThroughSpec
<1>13. InvoicingInv => InvoicingTypeOK
  BY DEF InvoicingInv
<1>14. (/\ TypeOK /\ ShipmentsTypeOK /\ PromotionsTypeOK /\ RewardsTypeOK /\ RegistriesTypeOK
        /\ PagesTypeOK /\ HeartTypeOK /\ CatalogueTypeOK /\ ReviewsTypeOK /\ CheckoutTypeOK
        /\ InvoicingTypeOK /\ BagTypeOK /\ ReadThroughTypeOK)
          => ShopTypeOK
  BY DEF ShopTypeOK
<1> QED
  BY <1>1, <1>2, <1>3, <1>4, <1>5, <1>6, <1>7, <1>8, <1>9, <1>10, <1>11, <1>12, <1>13, <1>14,
     WalletTypeCorrect, ShipmentsTypeCorrect, PromotionsTypeCorrect, RewardsTypeCorrect,
     RegistriesTypeCorrect, ShopPagesInv, PagesAreTyped, HeartTypeCorrect, CatalogueTypeCorrect,
     ReviewsTypeCorrect, AmountsAlwaysAddUp, InvoicingInvHolds, BagTypeCorrect,
     ReadThroughTypeCorrect, PTL

-----------------------------------------------------------------------------
\* A read is asked, and a save sent, of a view that has one; nobody gets a token.
RequestsAreOfView ==
    /\ token => view.role # "GUEST"
    /\ fetch.state # "idle" => view.role \in TheQuery.for
    /\ \A i \in 1..MaxSaves : saves[i].state = "sent" => TheSave # NoSave

PageRequestsInv ==
    /\ PagesFitRoutes => RequestsFit(view) /\ ReadsAreServed
    /\ RequestsAreOfView

LEMMA RequestsStart ==
    ASSUME NEW v, StartsAs(v), PagesFitRoutes => RequestsFit(v)
    PROVE  PageRequestsInv
<1>1. /\ view = v /\ token = (v.role # "GUEST") /\ fetch.state = "idle"
      /\ \A i \in 1..MaxSaves : saves[i].state = "none"
  BY DEF StartsAs, Unfetched, NotSent
<1> QED
  BY <1>1 DEF PageRequestsInv, RequestsAreOfView, ReadsAreServed

LEMMA ShopRequestsStart == ShopInit => PageRequestsInv
<1>1. ASSUME PagesInit PROVE PageRequestsInv
  <2>1. PICK p \in DOMAIN PageList :
          \E query \in Range(PageList[p].reads) \cup {NoQuery},
             save \in Range(PageList[p].saves) \cup {NoSave}, role \in PageList[p].for :
            Combined(PageList[p], query, save, role) /\ StartsAs(ViewOf(p, query, save, role))
    BY <1>1 DEF PagesInit
  <2>2. PICK query \in Range(PageList[p].reads) \cup {NoQuery},
             save \in Range(PageList[p].saves) \cup {NoSave}, role \in PageList[p].for :
          Combined(PageList[p], query, save, role) /\ StartsAs(ViewOf(p, query, save, role))
    BY <2>1
  <2>3. PagesFitRoutes => RequestsFit(ViewOf(p, query, save, role))
    BY <2>2 DEF PagesFitRoutes
  <2> QED
    BY <2>2, <2>3, RequestsStart
<1>2. ASSUME StartsAs(ViewOf(0, NoQuery, NoSave, "ADMIN")) PROVE PageRequestsInv
  <2> DEFINE v == ViewOf(0, NoQuery, NoSave, "ADMIN")
  <2>1. v.query.for = {} /\ v.save = NoSave
    BY DEF ViewOf, NoQuery, Query
  <2>2. RequestsFit(v)
    BY <2>1 DEF RequestsFit
  <2> HIDE DEF v
  <2> QED
    BY <1>2, <2>2, RequestsStart DEF v
<1> QED
  BY <1>1, <1>2 DEF ShopInit

\* A read is asked, answered or refused, and received.
LEMMA ReadsKeepRequests ==
    ASSUME PageRequestsInv, AskForData \/ ServerAnswersRead \/ ReceiveRead \/ ReadFails
    PROVE  PageRequestsInv'
<1>1. UNCHANGED <<view, token, saves>>
  BY DEF AskForData, ServerAnswersRead, ReceiveRead, ReadFails
<1>2. TheQuery' = TheQuery /\ TheSave' = TheSave /\ RequestsFit(view)' = RequestsFit(view)
  BY <1>1 DEF TheQuery, TheSave, RequestsFit
<1>3. fetch'.state # "idle" => view.role \in TheQuery.for
  BY DEF AskForData, ServerAnswersRead, ReceiveRead, ReadFails, Enabled, Unfetched,
         PageRequestsInv, RequestsAreOfView
<1>4. RequestsAreOfView'
  BY <1>1, <1>2, <1>3 DEF PageRequestsInv, RequestsAreOfView
<1>5. ASSUME PagesFitRoutes, fetch'.state = "refused", view.role = "GUEST" \/ token
      PROVE  <<"GET", TheQuery.call.path, view.role>> \in Gaps
  <2>1. ~Admitted(RoleOf(TheQuery.call), view.readers) /\ fetch.state = "asked"
    BY <1>5 DEF AskForData, ServerAnswersRead, ReceiveRead, ReadFails, Unfetched
  <2>2. view.role \in TheQuery.for
    BY <2>1 DEF PageRequestsInv, RequestsAreOfView
  <2>3. RoleOf(TheQuery.call) = SignedInAs(TheQuery.call, view.role)
    BY <1>5 DEF RoleOf, SignedInAs, PageRequestsInv, RequestsAreOfView
  <2> QED
    BY <1>5, <2>1, <2>2, <2>3 DEF PageRequestsInv, RequestsFit, TheQuery
<1> QED
  BY <1>1, <1>2, <1>4, <1>5 DEF PageRequestsInv, ReadsAreServed, RequestsAreOfView

\* Any other step.
LEMMA OthersKeepRequests ==
    ASSUME PageRequestsInv, UNCHANGED view, token' \in {token, FALSE},
           fetch'.state \in {fetch.state, "idle"} \/ (Enabled /\ fetch'.state = "asked"),
           \A i \in 1..MaxSaves : saves'[i].state = "sent" => saves[i].state = "sent" \/ TheSave # NoSave
    PROVE  PageRequestsInv'
<1>1. TheQuery' = TheQuery /\ TheSave' = TheSave /\ RequestsFit(view)' = RequestsFit(view)
  BY DEF TheQuery, TheSave, RequestsFit
<1>2. RequestsAreOfView'
  <2>1. token' => view'.role # "GUEST"
    BY DEF PageRequestsInv, RequestsAreOfView
  <2>2. fetch'.state # "idle" => view'.role \in TheQuery'.for
    BY <1>1 DEF PageRequestsInv, RequestsAreOfView, Enabled
  <2>3. \A i \in 1..MaxSaves : saves'[i].state = "sent" => TheSave' # NoSave
    BY <1>1 DEF PageRequestsInv, RequestsAreOfView
  <2> QED
    BY <2>1, <2>2, <2>3 DEF RequestsAreOfView
<1>3. ReadsAreServed => ReadsAreServed'
  BY <1>1 DEF ReadsAreServed
<1> QED
  BY <1>1, <1>2, <1>3 DEF PageRequestsInv

LEMMA PageRequestsKeep ==
    ASSUME PageRequestsInv, PagesInv, [PagesNext]_pVars
    PROVE  PageRequestsInv'
<1>a. saves \in [1..MaxSaves -> SaveType]
  BY DEF PagesInv, VersionsAreReal
<1>1. CASE UNCHANGED pVars
  BY <1>1, OthersKeepRequests DEF pVars
<1>2. CASE GoesStale
  BY <1>2, OthersKeepRequests DEF GoesStale
<1>3. CASE TokenExpires
  BY <1>3, OthersKeepRequests DEF TokenExpires
<1>4. ASSUME NEW i \in 1..MaxSaves, Submit(i)
      PROVE  PageRequestsInv'
  BY <1>4, OthersKeepRequests DEF Submit
<1>5. ASSUME NEW i \in 1..MaxSaves,
             ServerTakesSave(i) \/ ServerRefusesSave(i) \/ SaveSucceeds(i) \/ SaveFails(i)
      PROVE  PageRequestsInv'
  <2>1. UNCHANGED <<view, token>>
    BY <1>5 DEF ServerTakesSave, ServerRefusesSave, SaveSucceeds, SaveFails
  <2>2. PICK s : saves' = [saves EXCEPT ![i] = s] /\ s.state # "sent"
    <3>1. CASE ServerTakesSave(i)
      <4>1. PICK s : s = [saves[i] EXCEPT !.state = "answered", !.version = server']
        OBVIOUS
      <4>2. saves' = [saves EXCEPT ![i] = s]
        BY <3>1, <4>1 DEF ServerTakesSave
      <4>3. s.state = "answered"
        BY <1>a, <4>1 DEF SaveType
      <4> QED
        BY <4>2, <4>3
    <3>2. CASE ServerRefusesSave(i) \/ SaveSucceeds(i) \/ SaveFails(i)
      BY <1>a, <3>2 DEF ServerRefusesSave, SaveSucceeds, SaveFails, SaveType
    <3> QED
      BY <1>5, <3>1, <3>2
  <2>3. \A j \in 1..MaxSaves : saves'[j].state = "sent" => saves[j].state = "sent"
    BY <1>a, <2>2
  <2>4. fetch'.state \in {fetch.state, "idle"} \/ (Enabled /\ fetch'.state = "asked")
    BY <1>5 DEF ServerTakesSave, ServerRefusesSave, SaveSucceeds, SaveFails
  <2> QED
    BY <2>1, <2>3, <2>4, OthersKeepRequests
<1> QED
  BY <1>1, <1>2, <1>3, <1>4, <1>5, ReadsKeepRequests DEF PagesNext

LEMMA RequestsFitView == PagesFitRoutes /\ PageRequestsInv => RequestsAreUnderstood
<1> SUFFICES ASSUME PagesFitRoutes, PageRequestsInv PROVE SavesAreTaken
  BY DEF PageRequestsInv, RequestsAreUnderstood
<1> SUFFICES ASSUME NEW i \in 1..MaxSaves, saves[i].state = "sent",
                    view.role = "GUEST" \/ token,
                    <<TheSave.call.verb, TheSave.call.path, view.role>> \notin Gaps
             PROVE  Passes(i) /\ Understood(view.writers, FieldsOf(i))
  BY DEF SavesAreTaken
<1> DEFINE fields == TheSave.call.sends \cup TheSave.data
<1>1. TheSave # NoSave
  BY DEF PageRequestsInv, RequestsAreOfView
<1>2. /\ Admitted(SignedInAs(TheSave.call, view.role), view.writers)
      /\ \A sent \in {fields, fields \cup TheSave.extra} :
            Valid(view.writers, sent) /\ Understood(view.writers, sent)
  BY <1>1 DEF PageRequestsInv, RequestsFit, TheSave
<1>3. RoleOf(TheSave.call) = SignedInAs(TheSave.call, view.role)
  BY DEF RoleOf, SignedInAs, PageRequestsInv, RequestsAreOfView
<1>4. FieldsOf(i) \in {fields, fields \cup TheSave.extra}
  BY DEF FieldsOf
<1> QED
  BY <1>2, <1>3, <1>4 DEF Passes

LEMMA ShopRequestsInv == ShopSpec => []PageRequestsInv
<1>1. PageRequestsInv /\ PagesInv /\ [PagesNext]_pVars => PageRequestsInv'
  BY PageRequestsKeep
<1> QED
  BY <1>1, ShopRequestsStart, ShopSteps, ShopPagesInv, PTL DEF ShopSpec

\* main.ts:99, lib/api.ts against the controllers: every read and save that a page sends has a
\* route, a role that the route lets in, and no field that its DTO refuses, for any number of
\* saves, answers and lost sessions.  That the tables of the pages fit those of the routes is a
\* fact about literals, left to the run: it starts from every view and sends what it has.
THEOREM RequestsAlwaysUnderstood ==
    ASSUME PagesFitRoutes
    PROVE  ShopSpec => []RequestsAreUnderstood
<1>1. PageRequestsInv => RequestsAreUnderstood
  BY RequestsFitView
<1> QED
  BY <1>1, ShopRequestsInv, PTL
=============================================================================
