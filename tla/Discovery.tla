------------------------------- MODULE Discovery -------------------------------
(****************************************************************************)
(* The ranking of the browser client: its filters, the controls they are    *)
(* set with, the address they are kept in, and the requests that fill the   *)
(* table.  Source: apps/api/static/app.js.                                  *)
(*                                                                          *)
(* An action is one event handler, or one answer of the network, run to the *)
(* end of its microtasks, as the event loop does.  An abort therefore takes *)
(* effect within the action that makes it, unless the whole response is     *)
(* already there and only waits for its turn ("late").                      *)
(*                                                                          *)
(* The match mode behaves as a category that is always on offer, included   *)
(* and excluded categories behave alike, and texts are taken without        *)
(* surrounding blanks.  A page is RANKING_LIMIT sources.                    *)
(****************************************************************************)
EXTENDS Naturals, Sequences

CONSTANTS
    Texts,          \* what can be typed, NoText included
    NoText,
    Ratings,        \* the values of the rating control, AnyRating included
    AnyRating,
    Options,        \* the categories the API knows
    Modes,          \* RANKING_MODES
    MaxPage,        \* bound on the pages of a ranking
    MaxEvents       \* bound on what the user does

ASSUME DiscoveryAssumption ==
    /\ NoText \in Texts
    /\ AnyRating \in Ratings
    /\ MaxPage \in Nat
    /\ MaxEvents \in Nat

(* state.filters, state.rankingMode and state.rankingOffset; also what the  *)
(* query string of an address says.                                         *)
View == [q : Texts, rating : Ratings, boxes : SUBSET Options,
         mode : Modes, page : 0 .. MaxPage]

Form == [q : Texts, rating : Ratings, boxes : SUBSET Options]

(* "answering" and "refusing": the headers are there, with or without       *)
(* success, and the body is being read.                                     *)
Phase == {"waiting", "answering", "refusing", "done", "failed", "aborted"}
Reading == {"answering", "refusing"}
InFlight == {"waiting"} \cup Reading

Request == [for : View, phase : Phase]
Payload == [for : View, total : 0 .. MaxPage + 1]

VARIABLES
    view,           \* state.filters, rankingMode, rankingOffset
    form,           \* the controls of the discovery form
    categories,     \* the checkboxes: "loading", "failed" or "loaded"
    timer,          \* searchTimer is armed
    entries,        \* the session history: the views its addresses name
    at,             \* the current entry
    request,        \* the request of state.rankingController
    late,           \* {} or the superseded request that came too late to abort
    payload,        \* state.rankingPayload: {} or the answer
    shown,          \* the ranking panel: "loading", "ready" or "error"
    events          \* what the user has done so far

vars == <<view, form, categories, timer, entries, at, request, late, payload,
          shown, events>>

(* updateDiscoveryControls: there is no checkbox before the categories are. *)
Controls(v, offered) ==
    [q |-> v.q, rating |-> v.rating, boxes |-> IF offered THEN v.boxes ELSE {}]

Init ==
    /\ view \in View
    /\ form = Controls(view, FALSE)
    /\ categories = "loading"
    /\ timer = FALSE
    /\ entries = <<view>>
    /\ at = 1
    /\ request = [for |-> view, phase |-> "waiting"]
    /\ late = {}
    /\ payload = {}
    /\ shown = "loading"
    /\ events = 0

------------------------------------------------------------------------------
(* Helpers.                                                                 *)

Loaded == categories = "loaded"

UserActs ==
    /\ events < MaxEvents
    /\ events' = events + 1

(* Faulty variant of Push: only the form's filters are compared.            *)
PushFilters(v) ==
    IF Controls(entries[at], TRUE) = Controls(v, TRUE)
    THEN UNCHANGED <<entries, at>>
    ELSE /\ entries' = Append(SubSeq(entries, 1, at), v)
         /\ at' = at + 1

(* syncDiscoveryUrl.                                                        *)
Push(v) ==
    IF entries[at] = v
    THEN UNCHANGED <<entries, at>>
    ELSE /\ entries' = Append(SubSeq(entries, 1, at), v)
         /\ at' = at + 1

(* loadRanking up to its first await, and what becomes of the request it    *)
(* aborts.  A refusal whose body is being read becomes an ApiError instead  *)
(* of an AbortError, and its handler shows it.                              *)
Load(v) ==
    /\ request' = [for |-> v, phase |-> "waiting"]
    /\ payload' = {}
    /\ \/ /\ shown' = IF request.phase = "refusing" THEN "error" ELSE "loading"
          /\ UNCHANGED late
       \/ /\ request.phase \in Reading
          /\ shown' = "loading"
          /\ late' = {request}

(* What commitDiscoveryFilters makes of the controls.                       *)
Committed(f) ==
    [q |-> f.q, rating |-> f.rating, boxes |-> f.boxes,
     mode |-> view.mode, page |-> 0]

(* commitDiscoveryFilters.                                                  *)
Commit(f) ==
    /\ form' = f
    /\ view' = Committed(f)
    /\ timer' = FALSE
    /\ Push(Committed(f))
    /\ Load(Committed(f))
    /\ UNCHANGED categories

(* A change of mode or page.                                                *)
Show(v) ==
    /\ view' = v
    /\ Push(v)
    /\ Load(v)
    /\ UNCHANGED <<form, categories, timer>>

(* Faulty variant of Restore: an address that says what is there already    *)
(* loads nothing.                                                           *)
RestoreQuietly(v) ==
    /\ view' = v
    /\ form' = Controls(v, Loaded)
    /\ timer' = FALSE
    /\ \/ v = view /\ UNCHANGED <<request, late, payload, shown>>
       \/ v # view /\ Load(v)
    /\ UNCHANGED categories

(* The popstate listener, for the address v.                                *)
Restore(v) ==
    /\ view' = v
    /\ form' = Controls(v, Loaded)
    /\ timer' = FALSE
    /\ Load(v)
    /\ UNCHANGED categories

------------------------------------------------------------------------------
(* Faulty variants of actions: mistakes the properties must tell from the   *)
(* code.  None of them is part of Next.                                     *)

(* The page after the last one is offered.                                  *)
NextPageTooFar ==
    /\ \E a \in payload : view.page + 1 <= a.total
    /\ UserActs
    /\ Show([view EXCEPT !.page = @ + 1])

(* Drawing the table draws the controls too.                                *)
AnswerWithControls ==
    /\ request.phase = "answering"
    /\ \/ \E total \in 0 .. MaxPage + 1 :
            /\ payload' = {[for |-> request.for, total |-> total]}
            /\ request' = [request EXCEPT !.phase = "done"]
            /\ shown' = "ready"
            /\ form' = Controls(view, Loaded)
       \/ /\ request' = [request EXCEPT !.phase = "failed"]
          /\ shown' = "error"
          /\ UNCHANGED <<form, payload>>
    /\ UNCHANGED <<view, categories, timer, entries, at, late, events>>

(* An answer is drawn under the notice of an earlier refusal.               *)
AnswerUnderNotice ==
    /\ request.phase = "answering"
    /\ \/ \E total \in 0 .. MaxPage + 1 :
            /\ payload' = {[for |-> request.for, total |-> total]}
            /\ request' = [request EXCEPT !.phase = "done"]
            /\ shown' = IF shown = "error" THEN "error" ELSE "ready"
       \/ /\ request' = [request EXCEPT !.phase = "failed"]
          /\ shown' = "error"
          /\ UNCHANGED payload
    /\ UNCHANGED <<view, form, categories, timer, entries, at, late, events>>

(* A late answer is drawn without asking whose it is.                       *)
SettleLateUnchecked ==
    /\ \E r \in late :
        /\ shown' = IF r.phase = "refusing" THEN "error" ELSE "ready"
        /\ payload' = IF r.phase = "refusing" THEN payload
                      ELSE {[for |-> r.for, total |-> MaxPage + 1]}
    /\ late' = {}
    /\ UNCHANGED <<view, form, categories, timer, entries, at, request, events>>

------------------------------------------------------------------------------
(* What the user does.                                                      *)

(* The input listener of the search field: the request is aborted, and the  *)
(* timer will ask again.                                                    *)
Type(text) ==
    /\ text # form.q
    /\ UserActs
    /\ form' = [form EXCEPT !.q = text]
    /\ timer' = TRUE
    /\ \/ /\ request.phase \in {"waiting", "answering"}
          /\ request' = [request EXCEPT !.phase = "aborted"]
          /\ UNCHANGED shown
       \/ /\ request.phase = "refusing"
          /\ request' = [request EXCEPT !.phase = "failed"]
          /\ shown' = "error"
       \/ /\ request.phase # "waiting"
          /\ UNCHANGED <<request, shown>>
    /\ UNCHANGED <<view, categories, entries, at, late, payload>>

(* Enter in the search field.                                               *)
Submit == UserActs /\ Commit(form)

(* A category is ticked or unticked.                                        *)
Toggle(option) ==
    /\ Loaded
    /\ UserActs
    /\ Commit([form EXCEPT !.boxes = IF option \in @ THEN @ \ {option}
                                     ELSE @ \cup {option}])

(* The rating control stands outside the form element, to which it belongs  *)
(* by its form attribute only: its change is heard by its own listener and  *)
(* does not bubble to the form's.                                           *)
ChangeRating(rating) ==
    /\ rating # form.rating
    /\ UserActs
    /\ Commit([form EXCEPT !.rating = rating])

(* selectRankingMode.                                                       *)
SelectMode(mode) ==
    /\ mode # view.mode
    /\ UserActs
    /\ Show([view EXCEPT !.mode = mode, !.page = 0])

(* The page buttons, which are hidden beside an empty or single page.       *)
PreviousPage ==
    /\ \E a \in payload : view.page < a.total /\ a.total > 1
    /\ view.page > 0
    /\ UserActs
    /\ Show([view EXCEPT !.page = @ - 1])

NextPage ==
    /\ \E a \in payload : view.page + 1 < a.total
    /\ UserActs
    /\ Show([view EXCEPT !.page = @ + 1])

(* discoveryClear: the mode stays.                                          *)
Clear ==
    LET cleared == [view EXCEPT !.q = NoText, !.rating = AnyRating,
                                !.boxes = {}, !.page = 0]
    IN  /\ UserActs
        /\ view' = cleared
        /\ form' = Controls(cleared, Loaded)
        /\ timer' = FALSE
        /\ Push(cleared)
        /\ Load(cleared)
        /\ UNCHANGED categories

(* rankingRetry, on the error notice.                                       *)
Retry ==
    /\ shown = "error"
    /\ UserActs
    /\ Load(view)
    /\ UNCHANGED <<view, form, categories, timer, entries, at>>

(* discoveryRetry, on the notice that the categories could not be loaded.   *)
RetryCategories ==
    /\ categories = "failed"
    /\ UserActs
    /\ categories' = "loading"
    /\ UNCHANGED <<view, form, timer, entries, at, request, late, payload, shown>>

(* Back and forward.                                                        *)
Travel(i) ==
    /\ i # at
    /\ UserActs
    /\ at' = i
    /\ Restore(entries[i])
    /\ UNCHANGED entries

(* A link within the page makes an entry of its own and a popstate event.   *)
FollowAnchor ==
    /\ UserActs
    /\ entries' = Append(SubSeq(entries, 1, at), entries[at])
    /\ at' = at + 1
    /\ Restore(entries[at])

(* The page is loaded again from its address.                               *)
Reload ==
    /\ UserActs
    /\ view' = entries[at]
    /\ form' = Controls(entries[at], FALSE)
    /\ categories' = "loading"
    /\ timer' = FALSE
    /\ request' = [for |-> entries[at], phase |-> "waiting"]
    /\ late' = {}
    /\ payload' = {}
    /\ shown' = "loading"
    /\ UNCHANGED <<entries, at>>

User ==
    \/ \E text \in Texts : Type(text)
    \/ Submit
    \/ \E option \in Options : Toggle(option)
    \/ \E rating \in Ratings : ChangeRating(rating)
    \/ \E mode \in Modes : SelectMode(mode)
    \/ PreviousPage
    \/ NextPage
    \/ Clear
    \/ Retry
    \/ RetryCategories
    \/ \E i \in DOMAIN entries : Travel(i)
    \/ FollowAnchor
    \/ Reload

------------------------------------------------------------------------------
(* What happens meanwhile.                                                  *)

(* 250 ms after the last input.                                             *)
TimerFires == timer /\ Commit(form) /\ UNCHANGED events

(* The headers of the current request.  Whatever is late has been queued    *)
(* before, so its turn comes first.                                         *)
Headers ==
    /\ request.phase = "waiting"
    /\ late = {}
    /\ \E phase \in Reading : request' = [request EXCEPT !.phase = phase]
    /\ UNCHANGED <<view, form, categories, timer, entries, at, late, payload,
                   shown, events>>

(* No connection, or a refusal whose body has been read.                    *)
Refuse ==
    /\ request.phase \in {"waiting", "refusing"}
    /\ late = {}
    /\ request' = [request EXCEPT !.phase = "failed"]
    /\ shown' = "error"
    /\ UNCHANGED <<view, form, categories, timer, entries, at, late, payload,
                   events>>

(* The payload is drawn, unless it is not a ranking.                        *)
Answer ==
    /\ request.phase = "answering"
    /\ \/ \E total \in 0 .. MaxPage + 1 :
            /\ payload' = {[for |-> request.for, total |-> total]}
            /\ request' = [request EXCEPT !.phase = "done"]
            /\ shown' = "ready"
       \/ /\ request' = [request EXCEPT !.phase = "failed"]
          /\ shown' = "error"
          /\ UNCHANGED payload
    /\ UNCHANGED <<view, form, categories, timer, entries, at, late, events>>

(* A superseded request: its payload is dropped, its ApiError is shown.     *)
SettleLate ==
    /\ \E r \in late :
        \/ r.phase = "answering" /\ UNCHANGED shown
        \/ shown' = "error"
    /\ late' = {}
    /\ UNCHANGED <<view, form, categories, timer, entries, at, request, payload,
                   events>>

(* loadCategories: the controls are set again, and the table drawn again.   *)
OfferCategories ==
    /\ categories = "loading"
    /\ categories' = "loaded"
    /\ form' = Controls(view, TRUE)
    /\ shown' = IF payload = {} THEN shown ELSE "ready"
    /\ UNCHANGED <<view, timer, entries, at, request, late, payload, events>>

MissCategories ==
    /\ categories = "loading"
    /\ categories' = "failed"
    /\ UNCHANGED <<view, form, timer, entries, at, request, late, payload, shown,
                   events>>

Meanwhile ==
    \/ TimerFires
    \/ Headers
    \/ Refuse
    \/ Answer
    \/ SettleLate
    \/ OfferCategories
    \/ MissCategories

Next == User \/ Meanwhile

Spec == Init /\ [][Next]_vars

(* The timer fires and the network answers or gives up, however slowly.     *)
FairSpec ==
    /\ Spec
    /\ WF_vars(TimerFires)
    /\ WF_vars(Headers \/ Refuse)
    /\ WF_vars(Answer)
    /\ WF_vars(SettleLate)

------------------------------------------------------------------------------
(* Properties.                                                              *)

(* Every variable has its type.                                             *)
TypeOK ==
    /\ view \in View
    /\ form \in Form
    /\ categories \in {"loading", "failed", "loaded"}
    /\ timer \in BOOLEAN
    /\ entries \in Seq(View)
    /\ at \in DOMAIN entries
    /\ request \in Request
    /\ late \in SUBSET Request
    /\ payload \in SUBSET Payload
    /\ shown \in {"loading", "ready", "error"}
    /\ events \in 0 .. MaxEvents

(* Nothing is under way in the ranking.                                     *)
Idle == ~timer /\ late = {} /\ request.phase \notin InFlight

(* Once nothing is under way, the address, the controls and the table agree:*)
(* the table answers the filters, mode and page the address names, or the   *)
(* error shown is that of the request for them.  A refusal that a handler   *)
(* aborts while its body is read is shown over the new request (loadRanking *)
(* and fetchJson); it does not outlast it.                                  *)
SettledIsConsistent ==
    Idle =>
        /\ entries[at] = view
        /\ form = Controls(view, Loaded)
        /\ request.for = view
        /\ \/ /\ request.phase = "done"
              /\ shown = "ready"
              /\ \E a \in payload : payload = {a} /\ a.for = view
           \/ /\ request.phase = "failed"
              /\ shown = "error"
              /\ payload = {}

(* A table is only ever shown for the current filters, mode and page: it is *)
(* what the page buttons count from and what late categories draw again.    *)
TableIsCurrent ==
    /\ shown = "ready" => payload # {}
    /\ \A a \in payload : a.for = view

(* A panel that says it is loading is being loaded, or the timer is about   *)
(* to: no abort is left without a successor.                                *)
LoadingIsPending ==
    shown = "loading" => timer \/ request.phase \in InFlight

(* What the user has typed and not yet searched for is changed by the user, *)
(* or once by the categories as they come (loadCategories sets the controls *)
(* again): then the text last searched for is back.  No answer, no timer    *)
(* and no failure takes it away.                                            *)
TypedTextStays ==
    [][form'.q # form.q =>
        \/ events' # events
        \/ ~ Loaded /\ Loaded' /\ form'.q = view.q]_vars

(* The categories of the address are given up only when the user unticks    *)
(* them, clears the filters or goes elsewhere in the history.               *)
SelectionsSurvive ==
    [][view'.boxes # view.boxes =>
        \/ Loaded
        \/ Clear
        \/ \E i \in DOMAIN entries : Travel(i)]_vars

(* Once the user leaves it alone, the ranking settles, and not on loading.   *)
Settles == <>[](Idle /\ shown # "loading")

==============================================================================
