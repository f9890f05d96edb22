----------------------------- MODULE PageForms -----------------------------
(***************************************************************************)
(* What a page or component of the storefront is made of.                  *)
(*                                                                         *)
(* A query has a key in React Query's cache, the call that answers it and  *)
(* the visitors it is enabled for.  A save is a mutation or a handler that *)
(* writes: its call, the fields it always sends (`data`) and those it      *)
(* sends when they are filled in (`extra`), whether its button is disabled *)
(* while it is pending (`guarded`), the reads that answer differently once *)
(* it was taken (`changes`, by path), the key prefixes it invalidates      *)
(* (`clears`), whether the page is left afterwards (`leaves`) and whether  *)
(* it is several requests, one after another (`several`).                  *)
(***************************************************************************)
EXTENDS ApiRoutes, ApiCalls, Sequences

Query(key, call) == [key |-> key, call |-> call, for |-> Anyone, polled |-> FALSE]
Private(query) == [query EXCEPT !.for = SignedIn]
Polled(query) == [query EXCEPT !.polled = TRUE]

Save(call, data, changes, clears) ==
  [call |-> call, data |-> data, extra |-> {}, guarded |-> TRUE,
   changes |-> changes, clears |-> clears, leaves |-> FALSE, several |-> FALSE]
With(save, extra) == [save EXCEPT !.extra = extra]
Unguarded(save) == [save EXCEPT !.guarded = FALSE]
Several(save) == [save EXCEPT !.several = TRUE]
Leaving(save) == [save EXCEPT !.leaves = TRUE]

(* `for`: the visitors the page is meant for. *)
Page(for, reads, saves) == [for |-> for, reads |-> reads, saves |-> saves]
=============================================================================
