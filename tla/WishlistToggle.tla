--------------------------- MODULE WishlistToggle ---------------------------
(***************************************************************************)
(* The heart of one product: the button on its page and the one on its       *)
(* card, the ids the store keeps (lib/store.ts), and the wishlist of the     *)
(* backend.                                                                  *)
(*                                                                           *)
(* A click is a mutation of React Query: onMutate flips the heart, then      *)
(* mutationFn chooses the request by the heart.  The button of the page      *)
(* reads the store there, so the flipped heart; the one of the card reads    *)
(* what its component was last rendered with, before the flip or after it.   *)
(* A request that is refused, or lost, leads to onError, a request that is   *)
(* taken to another reload of the wishlist, which sets the store.  The       *)
(* reload it replaces still sets the store when its answer comes.            *)
(***************************************************************************)
EXTENDS Naturals, FiniteSets

CONSTANTS
  Hearts,       \* the buttons: "page" or "card"
  MaxClicks,    \* bound: clicks
  MaxLost       \* bound: requests that are lost

ASSUME HeartAssumption == MaxClicks \in Nat /\ MaxLost \in Nat

VARIABLES heart, saved, asked, button, reload, dropped, last, clicks, lost

heartVars == <<heart, saved, asked, button, reload, dropped, last, clicks, lost>>

-----------------------------------------------------------------------------
AtRest == [stage |-> "idle", was |-> FALSE, verb |-> "none"]
NoFetch == [stage |-> "idle", value |-> FALSE]

HeartInit ==
  /\ saved \in BOOLEAN
  /\ heart = saved
  /\ asked = saved
  /\ button = [b \in Hearts |-> AtRest]
  /\ reload = NoFetch
  /\ dropped = {}
  /\ last = "none"
  /\ clicks = 0
  /\ lost = 0

-----------------------------------------------------------------------------
(* onMutate. *)
ClickHeart(b) ==
  /\ button[b].stage = "idle"
  /\ clicks < MaxClicks
  /\ clicks' = clicks + 1
  /\ heart' = ~heart
  /\ asked' = ~heart
  /\ button' = [button EXCEPT ![b] = [stage |-> "flipped", was |-> heart,
                                      verb |-> "none"]]
  /\ last' = "none"
  /\ UNCHANGED <<saved, reload, dropped, lost>>

(* mutationFn. *)
SendToggle(b) ==
  /\ button[b].stage = "flipped"
  /\ \E seen \in {heart} \cup (IF b = "card" THEN {button[b].was} ELSE {}) :
       button' = [button EXCEPT ![b].stage = "sent",
                                ![b].verb = IF seen THEN "DELETE" ELSE "POST"]
  /\ UNCHANGED <<heart, saved, asked, reload, dropped, last, clicks, lost>>

(* What is there cannot be added, what is not there cannot be removed. *)
ServerToggles(b) ==
  /\ button[b].stage = "sent"
  /\ LET adds == button[b].verb = "POST"
     IN  /\ saved' = adds
         /\ button' = [button EXCEPT ![b].stage =
                         IF saved = adds THEN "refused" ELSE "taken"]
  /\ UNCHANGED <<heart, asked, reload, dropped, last, clicks, lost>>

LoseToggle(b) ==
  /\ button[b].stage \in {"sent", "taken", "refused"}
  /\ lost < MaxLost
  /\ lost' = lost + 1
  /\ button' = [button EXCEPT ![b].stage = "failed"]
  /\ UNCHANGED <<heart, saved, asked, reload, dropped, last, clicks>>

(* onSuccess: invalidateQueries drops the reload under way and starts one.   *)
ToggleSucceedsQuietly(b) ==
  /\ button[b].stage = "taken"
  /\ button' = [button EXCEPT ![b] = AtRest]
  /\ last' = "taken"
  /\ UNCHANGED <<heart, saved, asked, reload, dropped, clicks, lost>>
ToggleSucceeds(b) ==
  /\ button[b].stage = "taken"
  /\ button' = [button EXCEPT ![b] = AtRest]
  /\ dropped' = dropped \cup (IF reload.stage = "idle" THEN {} ELSE {reload})
  /\ reload' = [stage |-> "asked", value |-> FALSE]
  /\ last' = "taken"
  /\ UNCHANGED <<heart, saved, asked, clicks, lost>>

(* onError puts the heart where it is, or, on the card, where it was. *)
ToggleFails(b) ==
  /\ button[b].stage \in {"refused", "failed"}
  /\ button' = [button EXCEPT ![b] = AtRest]
  /\ heart' \in {heart} \cup (IF b = "card" THEN {button[b].was} ELSE {})
  /\ last' = button[b].stage
  /\ UNCHANGED <<saved, asked, reload, dropped, clicks, lost>>

-----------------------------------------------------------------------------
(* The query of the navigation bar. *)
FetchWishlist ==
  /\ reload.stage = "idle"
  /\ \E b \in Hearts : button[b].stage # "idle"
  /\ reload' = [stage |-> "asked", value |-> FALSE]
  /\ UNCHANGED <<heart, saved, asked, button, dropped, last, clicks, lost>>

ServerReadsWishlist ==
  \/ /\ reload.stage = "asked"
     /\ reload' = [stage |-> "answered", value |-> saved]
     /\ UNCHANGED <<heart, saved, asked, button, dropped, last, clicks, lost>>
  \/ \E f \in dropped :
       /\ f.stage = "asked"
       /\ dropped' = (dropped \ {f}) \cup {[stage |-> "answered", value |-> saved]}
       /\ UNCHANGED <<heart, saved, asked, button, reload, last, clicks, lost>>

SetFromServer ==
  /\ reload.stage = "answered"
  /\ heart' = reload.value
  /\ reload' = NoFetch
  /\ UNCHANGED <<saved, asked, button, dropped, last, clicks, lost>>

SetFromDropped(f) ==
  /\ f.stage = "answered"
  /\ heart' = f.value
  /\ dropped' = dropped \ {f}
  /\ last' = "overwritten"
  /\ UNCHANGED <<saved, asked, button, reload, clicks, lost>>

HeartNext ==
  \/ \E b \in Hearts :
       \/ ClickHeart(b)
       \/ SendToggle(b)
       \/ ServerToggles(b)
       \/ LoseToggle(b)
       \/ ToggleSucceeds(b)
       \/ ToggleFails(b)
  \/ FetchWishlist
  \/ ServerReadsWishlist
  \/ SetFromServer
  \/ \E f \in dropped : SetFromDropped(f)

HeartSpec == HeartInit /\ [][HeartNext]_heartVars

-----------------------------------------------------------------------------
HeartTypeOK ==
  /\ heart \in BOOLEAN /\ saved \in BOOLEAN /\ asked \in BOOLEAN
  /\ button \in [Hearts -> [stage : {"idle", "flipped", "sent", "taken",
                                     "refused", "failed"},
                            was : BOOLEAN, verb : {"none", "POST", "DELETE"}]]
  /\ reload \in [stage : {"idle", "asked", "answered"}, value : BOOLEAN]
  /\ dropped \subseteq [stage : {"asked", "answered"}, value : BOOLEAN]
  /\ last \in {"none", "taken", "refused", "failed", "overwritten"}
  /\ clicks \in 0 .. MaxClicks /\ lost \in 0 .. MaxLost

Settled ==
  /\ \A b \in Hearts : button[b].stage = "idle"
  /\ reload.stage = "idle"
  /\ dropped = {}

(* When a toggle was taken, and nothing overwrote the answer of the reload   *)
(* it led to, the heart ends as the backend has the product, however         *)
(* clicks on both buttons and fetches overlapped (ProductDetailClient.tsx    *)
(* :204 and ProductCard.tsx:66 invalidate ["wishlist"]).                     *)
HeartFollowsServer == Settled /\ last = "taken" => heart = saved

(* A product that is added, with no request lost, ends in the wishlist       *)
(* (e2e/wishlist.spec.ts:19 "can add product to wishlist from product        *)
(* detail page").                                                            *)
AddedIsSaved == Settled /\ clicks = 1 /\ lost = 0 /\ asked => saved
=============================================================================
