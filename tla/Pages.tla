------------------------------- MODULE Pages -------------------------------
(***************************************************************************)
(* The storefront's pages against the backend's interface.                 *)
(*                                                                         *)
(* Queries do not depend on one another, so a view is one query of a page  *)
(* and one save that changes what the query answers, or either of them     *)
(* alone, with a visitor.  The query lives in React Query's cache as in    *)
(* providers/Providers.tsx: asked for when its data is unknown or stale,   *)
(* polled, and asked again, dropping the answer on its way, when a save    *)
(* invalidates its key.  A request carries the token the visitor signed in *)
(* with; nothing renews it, while the session outlives it.                 *)
(*                                                                         *)
(* The backend answers by its routes: the guards, then the validation      *)
(* pipe, then the handler.  What the handler makes of a save is not here:  *)
(* it may refuse it, and a save it takes changes the reads of `changes`.   *)
(***************************************************************************)
EXTENDS AdminPages, ShopPages, Naturals, Functions

CONSTANTS
  MaxSaves,     \* bound: the requests of the save in one view
  Gaps          \* <<verb, path, role>>: requests known not to be understood

ASSUME PagesAssumption == MaxSaves \in Nat

VARIABLES view, token, shown, stale, fetch, server, saves, acked, open

pVars == <<view, token, shown, stale, fetch, server, saves, acked, open>>

-----------------------------------------------------------------------------
(* The versions of the data the query reads; 0 where there is none. *)
Unknown == 0
Versions == 0 .. MaxSaves + 1
Unfetched == [state |-> "idle", version |-> 0]
NotSent == [state |-> "none", filled |-> FALSE, version |-> 0]

NoQuery == [Query(<<>>, Asks("")) EXCEPT !.for = {}]
NoSave == Save(Posts(""), {}, {}, {})

PageList == AdminPages \o ShopPages

(* A view: what the page asks for and saves, who looks at it, and the      *)
(* handlers that answer.                                                   *)
ViewOf(page, query, save, role) ==
  [page |-> page, query |-> query, save |-> save, role |-> role,
   readers |-> HandlersOf("GET", query.call.path),
   writers |-> HandlersOf(save.call.verb, save.call.path)]

(* A guest saves on the pages for guests; elsewhere a guest is asked to     *)
(* sign in, or is told to by the refusal.                                  *)
Combined(page, query, save, role) ==
  /\ query # NoQuery \/ save # NoSave
  /\ query # NoQuery /\ save # NoSave => query.call.path \in save.changes
  /\ role = "GUEST" /\ save # NoSave => page.for = {"GUEST"}

TheQuery == view.query
TheSave == view.save

(* The role the guards see: a request without a valid token is a guest's. *)
RoleOf(call) == IF token /\ call.token THEN view.role ELSE "GUEST"

Enabled == open /\ view.role \in TheQuery.for

StartsAs(v) ==
  /\ view = v
  /\ token = (v.role # "GUEST")
  /\ shown = Unknown
  /\ stale = FALSE
  /\ fetch = Unfetched
  /\ server = 1
  /\ saves = [i \in 1 .. MaxSaves |-> NotSent]
  /\ acked = 0
  /\ open = TRUE

PagesInit ==
  \E p \in DOMAIN PageList :
    LET page == PageList[p]
    IN  \E query \in Range(page.reads) \cup {NoQuery},
           save \in Range(page.saves) \cup {NoSave}, role \in page.for :
          /\ Combined(page, query, save, role)
          /\ StartsAs(ViewOf(p, query, save, role))

-----------------------------------------------------------------------------
(* The query. *)

AskForData ==
  /\ Enabled
  /\ fetch.state = "idle"
  /\ shown = Unknown \/ stale \/ TheQuery.polled
  /\ fetch' = [state |-> "asked", version |-> 0]
  /\ UNCHANGED <<view, token, shown, stale, server, saves, acked, open>>

ServerAnswersRead ==
  /\ fetch.state = "asked"
  /\ fetch' =
       IF Admitted(RoleOf(TheQuery.call), view.readers)
       THEN [state |-> "answered", version |-> server]
       ELSE [state |-> "refused", version |-> 0]
  /\ UNCHANGED <<view, token, shown, stale, server, saves, acked, open>>

ReceiveRead ==
  /\ fetch.state = "answered"
  /\ shown' = fetch.version
  /\ stale' = FALSE
  /\ fetch' = Unfetched
  /\ UNCHANGED <<view, token, server, saves, acked, open>>

(* The network fails, or the answer is an error: the data stays as it was. *)
ReadFails ==
  /\ fetch.state \in {"asked", "answered", "refused"}
  /\ fetch' = Unfetched
  /\ UNCHANGED <<view, token, shown, stale, server, saves, acked, open>>

(* The stale time of a minute passes. *)
GoesStale ==
  /\ shown # Unknown
  /\ ~stale
  /\ stale' = TRUE
  /\ UNCHANGED <<view, token, shown, fetch, server, saves, acked, open>>

-----------------------------------------------------------------------------
(* The save. *)

Pending == {i \in DOMAIN saves : saves[i].state \in {"sent", "answered", "failed"}}

Submit(i) ==
  /\ open
  /\ TheSave # NoSave
  /\ saves[i].state = "none"
  /\ TheSave.guarded => Pending = {}
  /\ \E filled \in {FALSE, TheSave.extra # {}} :
       saves' = [saves EXCEPT ![i] = [@ EXCEPT !.state = "sent", !.filled = filled]]
  /\ UNCHANGED <<view, token, shown, stale, fetch, server, acked, open>>

FieldsOf(i) ==
  TheSave.call.sends \cup TheSave.data
    \cup (IF saves[i].filled THEN TheSave.extra ELSE {})

(* The guards and the pipe let the request through to its handler. *)
Passes(i) ==
  /\ Admitted(RoleOf(TheSave.call), view.writers)
  /\ Valid(view.writers, FieldsOf(i))

Changed ==
  IF TheQuery.call.path \in TheSave.changes
  THEN server + 1 ELSE server

ServerTakesSave(i) ==
  /\ saves[i].state = "sent"
  /\ Passes(i)
  /\ server' = Changed
  /\ saves' = [saves EXCEPT ![i] = [@ EXCEPT !.state = "answered",
                                             !.version = server']]
  /\ UNCHANGED <<view, token, shown, stale, fetch, acked, open>>

(* A guard, the pipe or the handler refuses; one request of several may be *)
(* refused after the ones before it were taken.                            *)
ServerRefusesSave(i) ==
  /\ saves[i].state = "sent"
  /\ \/ server' = server
     \/ TheSave.several /\ Passes(i) /\ server' = Changed
  /\ saves' = [saves EXCEPT ![i].state = "failed"]
  /\ UNCHANGED <<view, token, shown, stale, fetch, acked, open>>

Invalidated(key) ==
  \E prefix \in TheSave.clears :
    /\ Len(prefix) <= Len(key)
    /\ SubSeq(key, 1, Len(prefix)) = prefix

(* onSuccess: the keys are invalidated, and a query on the page asked again. *)
SaveSucceeds(i) ==
  /\ saves[i].state = "answered"
  /\ saves' = [saves EXCEPT ![i].state = "done"]
  /\ acked' = IF saves[i].version > acked THEN saves[i].version ELSE acked
  /\ open' = (open /\ ~TheSave.leaves)
  /\ IF Invalidated(TheQuery.key)
     THEN /\ stale' = (stale \/ shown # Unknown)
          /\ fetch' = IF Enabled THEN [state |-> "asked", version |-> 0] ELSE fetch
     ELSE UNCHANGED <<stale, fetch>>
  /\ UNCHANGED <<view, token, shown, server>>

(* onError, or the answer is lost. *)
SaveFails(i) ==
  /\ saves[i].state \in {"sent", "answered", "failed"}
  /\ saves' = [saves EXCEPT ![i].state = "error"]
  /\ UNCHANGED <<view, token, shown, stale, fetch, server, acked, open>>

TokenExpires ==
  /\ token
  /\ token' = FALSE
  /\ UNCHANGED <<view, shown, stale, fetch, server, saves, acked, open>>

PagesNext ==
  \/ AskForData
  \/ ServerAnswersRead
  \/ ReceiveRead
  \/ ReadFails
  \/ GoesStale
  \/ \E i \in 1 .. MaxSaves :
       \/ Submit(i)
       \/ ServerTakesSave(i)
       \/ ServerRefusesSave(i)
       \/ SaveSucceeds(i)
       \/ SaveFails(i)
  \/ TokenExpires

PagesSpec == PagesInit /\ [][PagesNext]_pVars

-----------------------------------------------------------------------------
PagesTypeOK ==
  /\ view.page \in Nat
  /\ view.role \in Anyone
  /\ token \in BOOLEAN
  /\ shown \in Versions \cup {Unknown}
  /\ stale \in BOOLEAN
  /\ fetch \in [state: {"idle", "asked", "answered", "refused"}, version: Versions]
  /\ server \in Versions
  /\ saves \in [1 .. MaxSaves ->
                  [state: {"none", "sent", "answered", "failed", "done", "error"},
                   filled: BOOLEAN, version: Versions]]
  /\ acked \in Versions
  /\ acked <= server
  /\ open \in BOOLEAN

(* Every read a page makes for the visitors it is meant for has a handler  *)
(* that admits them: only an expired token is refused, or a known gap      *)
(* (lib/api.ts against the controllers and their guards).                  *)
ReadsAreServed ==
  fetch.state = "refused" =>
    \/ view.role # "GUEST" /\ ~token
    \/ <<"GET", TheQuery.call.path, view.role>> \in Gaps

(* Every save a page makes carries the fields its handler's DTO demands    *)
(* and none it forbids or never reads (main.ts:99 forbidNonWhitelisted):   *)
(* only an expired token is refused before the handler, or a known gap.    *)
SavesAreTaken ==
  \A i \in 1 .. MaxSaves :
    saves[i].state = "sent" =>
      \/ Passes(i) /\ Understood(view.writers, FieldsOf(i))
      \/ view.role # "GUEST" /\ ~token
      \/ <<TheSave.call.verb, TheSave.call.path, view.role>> \in Gaps

(* The reads and the saves of a view are let in while its token is good,   *)
(* with all fields or without the optional ones, but for the known gaps.   *)
SignedInAs(call, role) == IF role # "GUEST" /\ call.token THEN role ELSE "GUEST"

RequestsFit(v) ==
  LET fields == v.save.call.sends \cup v.save.data
  IN  /\ v.role \in v.query.for =>
           \/ Admitted(SignedInAs(v.query.call, v.role), v.readers)
           \/ <<"GET", v.query.call.path, v.role>> \in Gaps
      /\ v.save # NoSave =>
           \/ /\ Admitted(SignedInAs(v.save.call, v.role), v.writers)
              /\ \A sent \in {fields, fields \cup v.save.extra} :
                   Valid(v.writers, sent) /\ Understood(v.writers, sent)
           \/ <<v.save.call.verb, v.save.call.path, v.role>> \in Gaps

(* That of all views: a fact about the tables of the pages and the routes.  *)
(* Each view is an initial state, so that a run that checks ReadsAreServed  *)
(* and SavesAreTaken finds out a view for which it is false.               *)
PagesFitRoutes ==
  \A p \in DOMAIN PageList :
    LET page == PageList[p]
    IN  \A query \in Range(page.reads) \cup {NoQuery},
           save \in Range(page.saves) \cup {NoSave}, role \in page.for :
          Combined(page, query, save, role) => RequestsFit(ViewOf(p, query, save, role))

(* What a save of a page changes it also clears, unless the page is left    *)
(* (the onSuccess of each mutation): a fact about the tables of the pages, *)
(* which SavedIsShown rests on.                                            *)
SavesClearWhatTheyChange ==
  \A p \in DOMAIN PageList :
    LET page == PageList[p]
    IN  \A query \in Range(page.reads) \cup {NoQuery},
           save \in Range(page.saves) \cup {NoSave}, role \in page.for :
          /\ Combined(page, query, save, role)
          /\ query.call.path \in save.changes /\ role \in query.for
          => \/ save.leaves
             \/ \E prefix \in save.clears :
                  /\ Len(prefix) <= Len(query.key)
                  /\ SubSeq(query.key, 1, Len(prefix)) = prefix

(* Once the visitor is told that a save is done, a list on the page that   *)
(* it changed and that the page believes current shows it, whatever answer *)
(* was on its way (useMutation's onSuccess with invalidateQueries).        *)
SavedIsShown ==
  shown < acked => shown = Unknown \/ stale \/ fetch.state # "idle" \/ ~Enabled
=============================================================================
