---------------------------------- MODULE Bag ----------------------------------
(***************************************************************************)
(* One customer's line of one variant in the bag and in the list of things *)
(* saved for later (CartService, ExperienceService).                       *)
(*                                                                         *)
(* A request reads, decides and writes in statements of their own, so two  *)
(* of them interleave, and a process may die after any statement.          *)
(***************************************************************************)
EXTENDS Naturals

CONSTANTS
    Errands,          \* requests of the customer served at the same time
    MinOrderQty, MaxOrderQty,
    MaxAsked,         \* bound: the quantity of a request
    MaxRows           \* bound: CartItem rows ever created

ASSUME BagAssumption ==
    MinOrderQty \in Nat /\ MaxOrderQty \in Nat /\ MaxAsked \in Nat /\ MaxRows \in Nat

VARIABLES
    line,             \* the CartItem row; moved: its last write was a move
    rows,             \* rows created so far
    savedRow,         \* there is a SavedForLater row
    errand,           \* what each request is about to write
    kept              \* the customer put the thing somewhere and did not take it away

bagVars == <<line, rows, savedRow, errand, kept>>

NoLine == [row |-> 0, quantity |-> 0, moved |-> FALSE]
NoErrand == [step |-> "none", row |-> 0, quantity |-> 0]

BagTypeOK ==
    /\ line \in [row : 0..MaxRows, quantity : Nat, moved : BOOLEAN]
    /\ line.row = 0 <=> line = NoLine
    /\ rows \in 0..MaxRows /\ line.row <= rows
    /\ savedRow \in BOOLEAN
    /\ errand \in [Errands -> [step : {"none", "add", "set", "remove", "move", "unsave"},
                               row : 0..MaxRows, quantity : Nat]]
    /\ kept \in BOOLEAN

BagInit ==
    /\ line = NoLine
    /\ rows = 0
    /\ savedRow = FALSE
    /\ errand = [e \in Errands |-> NoErrand]
    /\ kept = FALSE

-----------------------------------------------------------------------------
Free(e) == errand[e] = NoErrand
At(e, step) == errand[e].step = step
Plan(e, step, row, quantity) ==
    errand' = [errand EXCEPT ![e] = [step |-> step, row |-> row, quantity |-> quantity]]
Finish(e) == errand' = [errand EXCEPT ![e] = NoErrand]

Within(quantity) == MinOrderQty <= quantity /\ quantity <= MaxOrderQty

\* The unique (cart, variant) allows one row.
CreateLine(quantity, moved) ==
    /\ line = NoLine
    /\ rows < MaxRows
    /\ rows' = rows + 1
    /\ line' = [row |-> rows', quantity |-> quantity, moved |-> moved]

\* addItem: what would be in the bag is held against the limits and what is sellable.
AddItem(e, asked, sellable) ==
    LET final == line.quantity + asked
    IN  /\ Free(e)
        /\ Within(final)
        /\ final <= sellable
        /\ Plan(e, "add", line.row, final)
        /\ UNCHANGED <<line, rows, savedRow, kept>>

\* An increment instead of what was checked.
WriteAddedIncrement(e) ==
    /\ At(e, "add")
    /\ \/ errand[e].row = 0 /\ CreateLine(errand[e].quantity, FALSE)
       \/ /\ errand[e].row # 0 /\ errand[e].row = line.row
          /\ line' = [line EXCEPT !.quantity = @ + 1, !.moved = FALSE]
          /\ UNCHANGED rows
    /\ kept' = TRUE
    /\ Finish(e)
    /\ UNCHANGED savedRow

\* The line that was read is written, or a new one, as it was checked.
WriteAdded(e) ==
    /\ At(e, "add")
    /\ \/ errand[e].row = 0 /\ CreateLine(errand[e].quantity, FALSE)
       \/ /\ errand[e].row # 0 /\ errand[e].row = line.row
          /\ line' = [line EXCEPT !.quantity = errand[e].quantity, !.moved = FALSE]
          /\ UNCHANGED rows
    /\ kept' = TRUE
    /\ Finish(e)
    /\ UNCHANGED savedRow

\* updateItem: no pieces are a removal, others are held against the limits.
UpdateItem(e, asked, sellable) ==
    /\ Free(e)
    /\ line # NoLine
    /\ asked # 0 => Within(asked) /\ asked <= sellable
    /\ Plan(e, IF asked = 0 THEN "remove" ELSE "set", line.row, asked)
    /\ UNCHANGED <<line, rows, savedRow, kept>>

WriteUpdated(e) ==
    /\ At(e, "set")
    /\ line # NoLine /\ errand[e].row = line.row
    /\ line' = [line EXCEPT !.quantity = errand[e].quantity, !.moved = FALSE]
    /\ Finish(e)
    /\ UNCHANGED <<rows, savedRow, kept>>

RemoveItem(e) ==
    /\ Free(e)
    /\ line # NoLine
    /\ Plan(e, "remove", line.row, 0)
    /\ UNCHANGED <<line, rows, savedRow, kept>>

DeleteLine(e) ==
    /\ At(e, "remove")
    /\ errand[e].row = line.row
    /\ line' = NoLine
    /\ kept' = FALSE
    /\ Finish(e)
    /\ UNCHANGED <<rows, savedRow>>

ClearCart ==
    /\ line' = NoLine
    /\ kept' = FALSE
    /\ UNCHANGED <<rows, savedRow, errand>>

-----------------------------------------------------------------------------
\* Saved again at the end of a move, it may go with the row that was moved.
SaveVariantForLater ==
    /\ savedRow' = TRUE
    /\ kept' = (kept \/ \A e \in Errands : ~At(e, "unsave"))
    /\ UNCHANGED <<line, rows, errand>>

RemoveSavedForLater ==
    /\ savedRow' = FALSE
    /\ kept' = FALSE
    /\ UNCHANGED <<line, rows, errand>>

\* moveToCart: the saved row is read, ...
MoveToCart(e) ==
    /\ Free(e)
    /\ savedRow
    /\ Plan(e, "move", 0, 0)
    /\ UNCHANGED <<line, rows, savedRow, kept>>

\* ... the line gets one more, with no look at the limits, ...
UpsertMoved(e) ==
    /\ At(e, "move")
    /\ \/ CreateLine(1, TRUE)
       \/ /\ line # NoLine
          /\ line.quantity <= MaxOrderQty      \* bound: one more than may be ordered
          /\ line' = [line EXCEPT !.quantity = @ + 1, !.moved = TRUE]
          /\ UNCHANGED rows
    /\ Plan(e, "unsave", 0, 0)
    /\ UNCHANGED <<savedRow, kept>>

\* ... and the saved row goes, if it is still there.
DeleteSaved(e) ==
    /\ At(e, "unsave")
    /\ savedRow
    /\ savedRow' = FALSE
    /\ Finish(e)
    /\ UNCHANGED <<line, rows, kept>>

\* Another request was first, or the process dies.
GiveUpErrand(e) ==
    /\ ~Free(e)
    /\ Finish(e)
    /\ UNCHANGED <<line, rows, savedRow, kept>>

BagNext ==
    \/ \E e \in Errands :
          \/ \E asked \in 0..MaxAsked, sellable \in 0..MaxOrderQty + 1 :
                (asked > 0 /\ AddItem(e, asked, sellable)) \/ UpdateItem(e, asked, sellable)
          \/ WriteAdded(e) \/ WriteUpdated(e)
          \/ RemoveItem(e) \/ DeleteLine(e)
          \/ MoveToCart(e) \/ UpsertMoved(e) \/ DeleteSaved(e)
          \/ GiveUpErrand(e)
    \/ ClearCart \/ SaveVariantForLater \/ RemoveSavedForLater

BagSpec == BagInit /\ [][BagNext]_bagVars
-----------------------------------------------------------------------------
\* However requests come between each other, a line that was not filled from the
\* saved list holds no less and no more than may be ordered.
BagWithinLimits == line # NoLine /\ ~line.moved => Within(line.quantity)

\* What the customer put in the bag or saved is in one of them until it is taken
\* away, wherever a move is cut off.
ItemIsSomewhere == kept => line # NoLine \/ savedRow

\* cart.service.ts:67 and experience.service.ts:46: a line stays within its limits,
\* and what was put into the bag or saved is not lost.
BagIsKept == BagWithinLimits /\ ItemIsSomewhere

\* SYSTEM_DESIGN_FINAL.md:270: "On move, respects maxOrderQty cap."
MoveRespectsCap == line.quantity <= MaxOrderQty
=============================================================================
