--------------------------- MODULE DiscoveryProofs ---------------------------
(****************************************************************************)
(* Theorems about Discovery, for every set of texts, ratings, categories    *)
(* and modes, and every bound.                                              *)
(****************************************************************************)
EXTENDS Discovery, SequenceTheorems, TLAPS

(* What relates the variables of the ranking between two actions.           *)
(*   - The address, the filters and the current request name one view.      *)
(*   - There is a payload exactly when that request has been answered.      *)
(*   - A failed request shows its error, an aborted one leaves the timer.   *)
(*   - A late request waits before anything comes for the current one.      *)
(*   - The controls show the view unless the user is typing.                *)
ScreenInv ==
    /\ entries[at] = view
    /\ request.for = view
    /\ request.phase = "done" =>
        /\ shown = "ready"
        /\ \E a \in payload : payload = {a} /\ a.for = view
    /\ request.phase # "done" => payload = {} /\ shown # "ready"
    /\ request.phase = "failed" => shown = "error"
    /\ request.phase = "aborted" => timer
    /\ late # {} => request.phase \in {"waiting", "aborted"}
    /\ timer \/ form = Controls(view, Loaded)
    /\ ~Loaded => form.boxes = {}

(* Writing the address leaves it naming the view.                           *)
LEMMA PushEffect ==
    ASSUME NEW v \in View, entries \in Seq(View), at \in DOMAIN entries, Push(v)
    PROVE  entries' \in Seq(View) /\ at' \in DOMAIN entries' /\ entries'[at'] = v
<1>1. CASE entries[at] = v
  BY <1>1 DEF Push
<1>2. CASE entries[at] # v
  <2>1. /\ entries' = Append(SubSeq(entries, 1, at), v)
        /\ at' = at + 1
    BY <1>2 DEF Push
  <2> QED
    BY <2>1
<1> QED
  BY <1>1, <1>2

(* So does an entry of the same address.                                    *)
LEMMA AnchorEffect ==
    ASSUME entries \in Seq(View), at \in DOMAIN entries,
           entries' = Append(SubSeq(entries, 1, at), entries[at]), at' = at + 1
    PROVE  entries' \in Seq(View) /\ at' \in DOMAIN entries'
           /\ entries'[at'] = entries[at]
OBVIOUS

(* Whatever starts a request for the view it leaves in the address and in   *)
(* the controls re-establishes the invariant.                               *)
LEMMA NewRequest ==
    ASSUME TypeOK, ScreenInv, NEW v \in View,
           view' = v,
           entries' \in Seq(View), at' \in DOMAIN entries', entries'[at'] = v,
           request' = [for |-> v, phase |-> "waiting"],
           payload' = {},
           late' \in SUBSET Request,
           shown' \in {"loading", "error"},
           form' \in Form, timer' \in BOOLEAN, events' \in 0 .. MaxEvents,
           categories' \in {"loading", "failed", "loaded"},
           timer' \/ form' = Controls(v, categories' = "loaded"),
           categories' # "loaded" => form'.boxes = {}
    PROVE  TypeOK' /\ ScreenInv'
<1>1. request' \in Request
  BY DEF Request, Phase, InFlight, Reading
<1>2. TypeOK'
  BY <1>1 DEF TypeOK
<1>3. request'.for = v /\ request'.phase = "waiting"
  OBVIOUS
<1>4. ScreenInv'
  BY <1>3 DEF ScreenInv, Loaded
<1> QED
  BY <1>2, <1>4

(* loadRanking starts such a request.                                       *)
LEMMA LoadEffect ==
    ASSUME TypeOK, NEW v \in View, Load(v)
    PROVE  /\ request' = [for |-> v, phase |-> "waiting"]
           /\ payload' = {}
           /\ late' \in SUBSET Request
           /\ shown' \in {"loading", "error"}
BY DEF TypeOK, Load

(* The invariant holds at first.                                            *)
LEMMA ScreenInit == Init => TypeOK /\ ScreenInv
<1> SUFFICES ASSUME Init PROVE TypeOK /\ ScreenInv
  OBVIOUS
<1>1. view \in View /\ form = Controls(view, FALSE) /\ form \in Form
  BY DEF Init, Controls, View, Form
<1>2. entries \in Seq(View) /\ at \in DOMAIN entries /\ entries[at] = view
  BY <1>1 DEF Init
<1>3. request \in Request /\ request.for = view /\ request.phase = "waiting"
  BY <1>1 DEF Init, Request, Phase
<1>4. events \in 0 .. MaxEvents
  BY DiscoveryAssumption DEF Init
<1>5. TypeOK
  BY <1>1, <1>2, <1>3, <1>4 DEF Init, TypeOK
<1>6. form.boxes = {} /\ ~Loaded
  BY <1>1 DEF Init, Controls, Loaded
<1>7. ScreenInv
  BY <1>1, <1>2, <1>3, <1>6 DEF Init, ScreenInv, Loaded
<1> QED
  BY <1>5, <1>7

(* What the controls can be set to.                                         *)
LEMMA ControlsType ==
    ASSUME NEW v \in View, NEW offered \in BOOLEAN
    PROVE  /\ Controls(v, offered) \in Form
           /\ ~offered => Controls(v, offered).boxes = {}
BY DEF Controls, View, Form

(* Committing the controls makes a view of which they are the controls.     *)
LEMMA CommittedType ==
    ASSUME TypeOK, NEW f \in Form, ~Loaded => f.boxes = {}
    PROVE  /\ Committed(f) \in View
           /\ f = Controls(Committed(f), Loaded)
<1>1. Committed(f) \in View
  BY DiscoveryAssumption DEF TypeOK, Committed, View, Form
<1>2. f = [q |-> f.q, rating |-> f.rating, boxes |-> f.boxes]
  BY DEF Form
<1>3. Controls(Committed(f), Loaded) =
        [q |-> f.q, rating |-> f.rating,
         boxes |-> IF Loaded THEN f.boxes ELSE {}]
  BY DEF Controls, Committed
<1> QED
  BY <1>1, <1>2, <1>3

(* A commit of controls that respect the missing checkboxes.                *)
LEMMA CommitStep ==
    ASSUME TypeOK, ScreenInv, NEW f \in Form, ~Loaded => f.boxes = {},
           form' = f, view' = Committed(f), timer' = FALSE, Push(Committed(f)),
           Load(Committed(f)),
           categories' = categories, events' \in 0 .. MaxEvents
    PROVE  TypeOK' /\ ScreenInv'
<1> DEFINE v == Committed(f)
<1>1. v \in View /\ f = Controls(v, Loaded)
  BY CommittedType
<1>2. entries' \in Seq(View) /\ at' \in DOMAIN entries' /\ entries'[at'] = v
  BY <1>1, PushEffect DEF TypeOK
<1>3. /\ request' = [for |-> v, phase |-> "waiting"]
      /\ payload' = {}
      /\ late' \in SUBSET Request
      /\ shown' \in {"loading", "error"}
  BY <1>1, LoadEffect
<1>4. /\ categories' \in {"loading", "failed", "loaded"}
      /\ form' = Controls(v, categories' = "loaded")
      /\ categories' # "loaded" => form'.boxes = {}
  BY <1>1 DEF TypeOK, Loaded
<1> HIDE DEF v
<1> QED
  BY <1>1, <1>2, <1>3, <1>4, NewRequest DEF v

(* A change of mode or page.                                                *)
LEMMA ShowStep ==
    ASSUME TypeOK, ScreenInv, NEW v \in View, Show(v),
           [view EXCEPT !.mode = v.mode, !.page = v.page] = v,
           events' \in 0 .. MaxEvents
    PROVE  TypeOK' /\ ScreenInv'
<1>1. /\ entries' \in Seq(View) /\ at' \in DOMAIN entries' /\ entries'[at'] = v
  BY PushEffect DEF Show, TypeOK
<1>2. /\ request' = [for |-> v, phase |-> "waiting"]
      /\ payload' = {}
      /\ late' \in SUBSET Request
      /\ shown' \in {"loading", "error"}
  BY LoadEffect DEF Show
<1>3. Controls(v, Loaded) = Controls(view, Loaded)
  BY DEF Controls, View, TypeOK
<1>4. timer' \/ form' = Controls(v, categories' = "loaded")
  BY <1>3 DEF Show, ScreenInv, Loaded
<1> QED
  BY <1>1, <1>2, <1>4, NewRequest DEF Show, ScreenInv, TypeOK, Loaded

(* The popstate listener, after an entry has been entered.                  *)
LEMMA RestoreStep ==
    ASSUME TypeOK, ScreenInv, NEW v \in View, Restore(v),
           entries' \in Seq(View), at' \in DOMAIN entries', entries'[at'] = v,
           events' \in 0 .. MaxEvents
    PROVE  TypeOK' /\ ScreenInv'
<1>1. /\ request' = [for |-> v, phase |-> "waiting"]
      /\ payload' = {}
      /\ late' \in SUBSET Request
      /\ shown' \in {"loading", "error"}
  BY LoadEffect DEF Restore
<1>2. Controls(v, Loaded) \in Form /\ (~Loaded => Controls(v, Loaded).boxes = {})
  BY ControlsType DEF Loaded
<1> QED
  BY <1>1, <1>2, NewRequest DEF Restore, TypeOK, Loaded

(* What the user does keeps the invariant.                                  *)
LEMMA UserKeeps == TypeOK /\ ScreenInv /\ User => TypeOK' /\ ScreenInv'
<1> SUFFICES ASSUME TypeOK, ScreenInv, User
             PROVE  TypeOK' /\ ScreenInv'
  OBVIOUS
<1>1. events' \in 0 .. MaxEvents
  <2>1. UserActs
    BY DEF User, Type, Submit, Toggle, ChangeRating, SelectMode, PreviousPage,
           NextPage, Clear, Retry, RetryCategories, Travel, FollowAnchor, Reload
  <2> QED
    BY <2>1, DiscoveryAssumption DEF UserActs, TypeOK
<1>2. ASSUME NEW text \in Texts, Type(text)
      PROVE  TypeOK' /\ ScreenInv'
  <2>1. form' \in Form /\ form'.boxes = form.boxes
    BY <1>2 DEF Type, TypeOK, Form
  <2>2. request' \in Request /\ request'.for = request.for
    BY <1>2 DEF Type, TypeOK, Request, Phase
  <2>3. \/ /\ request.phase \in {"waiting", "answering"}
           /\ request'.phase = "aborted" /\ shown' = shown
        \/ /\ request.phase = "refusing"
           /\ request'.phase = "failed" /\ shown' = "error"
        \/ /\ request.phase # "waiting"
           /\ request' = request /\ shown' = shown
    BY <1>2 DEF Type, TypeOK, Request
  <2>4. TypeOK'
    BY <1>1, <1>2, <2>1, <2>2, <2>3 DEF Type, TypeOK
  <2>5. ScreenInv'
    BY <1>2, <2>1, <2>2, <2>3 DEF Type, ScreenInv, Loaded
  <2> QED
    BY <2>4, <2>5
<1>3. CASE Submit
  BY <1>1, <1>3, CommitStep DEF Submit, Commit, TypeOK, ScreenInv
<1>4. ASSUME NEW option \in Options, Toggle(option)
      PROVE  TypeOK' /\ ScreenInv'
  <2> DEFINE f == [form EXCEPT !.boxes = IF option \in @ THEN @ \ {option}
                                         ELSE @ \cup {option}]
  <2>1. f \in Form /\ Loaded
    BY <1>4 DEF Toggle, TypeOK, Form
  <2>2. Commit(f)
    BY <1>4 DEF Toggle
  <2> HIDE DEF f
  <2> QED
    BY <1>1, <2>1, <2>2, CommitStep DEF Commit
<1>5. ASSUME NEW rating \in Ratings, ChangeRating(rating)
      PROVE  TypeOK' /\ ScreenInv'
  <2> DEFINE f == [form EXCEPT !.rating = rating]
  <2>1. f \in Form /\ (~Loaded => f.boxes = {})
    BY DEF TypeOK, ScreenInv, Form
  <2>2. Commit(f)
    BY <1>5 DEF ChangeRating
  <2> HIDE DEF f
  <2> QED
    BY <1>1, <2>1, <2>2, CommitStep DEF Commit
<1>6. ASSUME NEW mode \in Modes, SelectMode(mode)
      PROVE  TypeOK' /\ ScreenInv'
  <2> DEFINE v == [view EXCEPT !.mode = mode, !.page = 0]
  <2>0. 0 \in 0 .. MaxPage
    BY DiscoveryAssumption
  <2>1. v \in View /\ [view EXCEPT !.mode = v.mode, !.page = v.page] = v
    BY <2>0 DEF TypeOK, View
  <2>2. Show(v)
    BY <1>6 DEF SelectMode
  <2> HIDE DEF v
  <2> QED
    BY <1>1, <2>1, <2>2, ShowStep
<1>7. CASE PreviousPage
  <2> DEFINE v == [view EXCEPT !.page = @ - 1]
  <2>0. view.page \in 0 .. MaxPage /\ view.page > 0
    BY <1>7 DEF PreviousPage, TypeOK, View
  <2>1. view.page - 1 \in 0 .. MaxPage
    BY <2>0, DiscoveryAssumption
  <2>3. v \in View /\ [view EXCEPT !.mode = v.mode, !.page = v.page] = v
    BY <2>1 DEF TypeOK, View
  <2>2. Show(v)
    BY <1>7 DEF PreviousPage
  <2> HIDE DEF v
  <2> QED
    BY <1>1, <2>2, <2>3, ShowStep
<1>8. CASE NextPage
  <2> DEFINE v == [view EXCEPT !.page = @ + 1]
  <2>1. PICK a \in payload : view.page + 1 < a.total
    BY <1>8 DEF NextPage
  <2>2. a.total \in 0 .. MaxPage + 1
    BY DEF TypeOK, Payload
  <2>3. view.page \in 0 .. MaxPage
    BY DEF TypeOK, View
  <2>4. view.page + 1 \in 0 .. MaxPage
    BY <2>1, <2>2, <2>3, DiscoveryAssumption
  <2>5. v \in View /\ [view EXCEPT !.mode = v.mode, !.page = v.page] = v
    BY <2>4 DEF TypeOK, View
  <2>6. Show(v)
    BY <1>8 DEF NextPage
  <2> HIDE DEF v
  <2> QED
    BY <1>1, <2>5, <2>6, ShowStep
<1>9. CASE Clear
  <2> DEFINE v == [view EXCEPT !.q = NoText, !.rating = AnyRating,
                               !.boxes = {}, !.page = 0]
  <2>0. 0 \in 0 .. MaxPage
    BY DiscoveryAssumption
  <2>1. v \in View
    BY <2>0, DiscoveryAssumption DEF TypeOK, View
  <2>2. /\ view' = v /\ form' = Controls(v, Loaded) /\ timer' = FALSE
        /\ Push(v) /\ Load(v) /\ categories' = categories
    BY <1>9 DEF Clear
  <2> HIDE DEF v
  <2>3. entries' \in Seq(View) /\ at' \in DOMAIN entries' /\ entries'[at'] = v
    BY <2>1, <2>2, PushEffect DEF TypeOK
  <2>4. Restore(v)
    BY <2>2 DEF Restore
  <2> QED
    BY <1>1, <2>1, <2>3, <2>4, RestoreStep
<1>10. CASE Retry
  <2>1. view \in View
    BY DEF TypeOK
  <2>2. /\ request' = [for |-> view, phase |-> "waiting"]
        /\ payload' = {}
        /\ late' \in SUBSET Request
        /\ shown' \in {"loading", "error"}
    BY <1>10, <2>1, LoadEffect DEF Retry
  <2> QED
    BY <1>1, <1>10, <2>1, <2>2, NewRequest DEF Retry, TypeOK, ScreenInv, Loaded
<1>11. CASE RetryCategories
  <2>1. TypeOK'
    BY <1>1, <1>11 DEF RetryCategories, TypeOK
  <2>2. ~Loaded /\ ~Loaded'
    BY <1>11 DEF RetryCategories, Loaded
  <2> QED
    BY <1>11, <2>1, <2>2 DEF RetryCategories, ScreenInv, Loaded
<1>12. ASSUME NEW i \in DOMAIN entries, Travel(i)
       PROVE  TypeOK' /\ ScreenInv'
  <2>1. entries[i] \in View
    BY DEF TypeOK
  <2> QED
    BY <1>1, <1>12, <2>1, RestoreStep DEF Travel, TypeOK
<1>13. CASE FollowAnchor
  <2>1. entries[at] \in View
    BY DEF TypeOK
  <2>2. /\ entries' \in Seq(View) /\ at' \in DOMAIN entries'
        /\ entries'[at'] = entries[at]
    BY <1>13, AnchorEffect DEF FollowAnchor, TypeOK
  <2> QED
    BY <1>1, <1>13, <2>1, <2>2, RestoreStep DEF FollowAnchor
<1>14. CASE Reload
  <2>1. entries[at] \in View
    BY DEF TypeOK
  <2>2. /\ Controls(entries[at], FALSE) \in Form
        /\ Controls(entries[at], FALSE).boxes = {}
    BY <2>1, ControlsType
  <2>3. ~("loading" = "loaded")
    OBVIOUS
  <2> QED
    BY <1>1, <1>14, <2>1, <2>2, <2>3, NewRequest DEF Reload, TypeOK
<1> QED
  BY <1>2, <1>3, <1>4, <1>5, <1>6, <1>7, <1>8, <1>9, <1>10, <1>11, <1>12, <1>13,
     <1>14 DEF User

(* So does the timer, the network and the arrival of the categories.        *)
LEMMA MeanwhileKeeps ==
    TypeOK /\ ScreenInv /\ Meanwhile => TypeOK' /\ ScreenInv'
<1> SUFFICES ASSUME TypeOK, ScreenInv, Meanwhile
             PROVE  TypeOK' /\ ScreenInv'
  OBVIOUS
<1>1. CASE TimerFires
  BY <1>1, CommitStep DEF TimerFires, Commit, TypeOK, ScreenInv
<1>2. CASE Headers
  <2>1. PICK phase \in Reading : request' = [request EXCEPT !.phase = phase]
    BY <1>2 DEF Headers
  <2>2. request' \in Request /\ request'.for = request.for /\ request'.phase = phase
    BY <2>1 DEF TypeOK, Request, Phase, InFlight, Reading
  <2>3. TypeOK'
    BY <1>2, <2>2 DEF Headers, TypeOK
  <2>4. ScreenInv'
    BY <1>2, <2>2 DEF Headers, ScreenInv, Loaded, Reading
  <2> QED
    BY <2>3, <2>4
<1>3. CASE Refuse
  <2>1. /\ request' \in Request
        /\ request'.for = request.for
        /\ request'.phase = "failed"
    BY <1>3 DEF Refuse, TypeOK, Request, Phase
  <2>2. TypeOK'
    BY <1>3, <2>1 DEF Refuse, TypeOK
  <2>3. ScreenInv'
    BY <1>3, <2>1 DEF Refuse, ScreenInv, Loaded
  <2> QED
    BY <2>2, <2>3
<1>4. CASE Answer
  <2>1. request' \in Request /\ request'.for = request.for
    BY <1>4 DEF Answer, TypeOK, Request, Phase
  <2>2. CASE request' = [request EXCEPT !.phase = "failed"]
    <3>1. request'.phase = "failed"
      BY <2>2 DEF TypeOK, Request
    <3>2. shown' = "error" /\ payload' = payload
      BY <1>4, <3>1 DEF Answer, TypeOK, Request
    <3> QED
      BY <1>4, <2>1, <3>1, <3>2 DEF Answer, TypeOK, ScreenInv, Loaded
  <2>3. CASE request' = [request EXCEPT !.phase = "done"]
    <3>1. request'.phase = "done"
      BY <2>3 DEF TypeOK, Request
    <3>2. PICK total \in 0 .. MaxPage + 1 :
            shown' = "ready" /\ payload' = {[for |-> request.for, total |-> total]}
      BY <1>4, <3>1 DEF Answer, TypeOK, Request
    <3>3. [for |-> request.for, total |-> total] \in Payload
      BY DEF TypeOK, Request, Payload
    <3> QED
      BY <1>4, <2>1, <3>1, <3>2, <3>3 DEF Answer, TypeOK, ScreenInv, Loaded
  <2> QED
    BY <1>4, <2>2, <2>3 DEF Answer
<1>5. CASE SettleLate
  <2>1. request.phase \in {"waiting", "aborted"}
    BY <1>5 DEF SettleLate, ScreenInv
  <2> QED
    BY <1>5, <2>1 DEF SettleLate, TypeOK, ScreenInv, Loaded
<1>6. CASE OfferCategories
  <2>1. form' = Controls(view, TRUE) /\ form' \in Form
    BY <1>6, ControlsType DEF OfferCategories, TypeOK
  <2>2. shown' \in {shown, "ready"} /\ (payload = {} => shown' = shown)
    BY <1>6 DEF OfferCategories
  <2>3. TypeOK'
    BY <1>6, <2>1, <2>2 DEF OfferCategories, TypeOK
  <2>4. Loaded'
    BY <1>6 DEF OfferCategories, Loaded
  <2>5. ScreenInv'
    BY <1>6, <2>1, <2>2, <2>4 DEF OfferCategories, ScreenInv, TypeOK
  <2> QED
    BY <2>3, <2>5
<1>7. CASE MissCategories
  <2>1. TypeOK'
    BY <1>7 DEF MissCategories, TypeOK
  <2>2. ~Loaded /\ ~Loaded'
    BY <1>7 DEF MissCategories, Loaded
  <2> QED
    BY <1>7, <2>1, <2>2 DEF MissCategories, ScreenInv, Loaded
<1> QED
  BY <1>1, <1>2, <1>3, <1>4, <1>5, <1>6, <1>7 DEF Meanwhile

(* Every variable keeps its type, and the invariant holds.                  *)
LEMMA ScreenInvariant == Spec => [](TypeOK /\ ScreenInv)
<1>1. TypeOK /\ ScreenInv /\ [Next]_vars => (TypeOK /\ ScreenInv)'
  <2>1. TypeOK /\ ScreenInv /\ UNCHANGED vars => TypeOK' /\ ScreenInv'
    BY DEF vars, TypeOK, ScreenInv, Loaded
  <2> QED
    BY <2>1, UserKeeps, MeanwhileKeeps DEF Next
<1> QED
  BY <1>1, ScreenInit, PTL DEF Spec

(* Every variable keeps its type.                                           *)
THEOREM TypeCorrectness == Spec => []TypeOK
BY ScreenInvariant, PTL

(* The table is only ever shown for the current filters, mode and page.     *)
THEOREM TablesAreCurrent == Spec => []TableIsCurrent
<1>1. TypeOK /\ ScreenInv => TableIsCurrent
  BY DEF TypeOK, ScreenInv, TableIsCurrent
<1> QED
  BY <1>1, ScreenInvariant, PTL

(* What is settled is consistent: address, controls, table and error.  The  *)
(* error of a refusal that the user's next act aborted, whichever act it    *)
(* was, may show over the request of that act, and ends with it.            *)
THEOREM SettledConsistently == Spec => []SettledIsConsistent
<1>1. TypeOK /\ ScreenInv => SettledIsConsistent
  BY DEF TypeOK, ScreenInv, SettledIsConsistent, Idle, Request, Phase, InFlight,
         Reading
<1> QED
  BY <1>1, ScreenInvariant, PTL

(* A panel never says it is loading without a request or the timer.         *)
THEOREM LoadingIsNeverIdle == Spec => []LoadingIsPending
<1>1. TypeOK /\ ScreenInv => LoadingIsPending
  BY DEF TypeOK, ScreenInv, LoadingIsPending, Request, Phase, InFlight, Reading
<1> QED
  BY <1>1, ScreenInvariant, PTL

(* Typed text is changed by the user, or once by the categories.            *)
THEOREM TypedTextIsKept == Spec => TypedTextStays
<1>1. TypeOK /\ [Next]_vars =>
        [form'.q # form.q => \/ events' # events
                             \/ ~ Loaded /\ Loaded' /\ form'.q = view.q]_vars
  <2> SUFFICES ASSUME TypeOK, [Next]_vars, form'.q # form.q
               PROVE  \/ events' # events
                      \/ ~ Loaded /\ Loaded' /\ form'.q = view.q
    BY DEF vars
  <2>1. CASE User
    <3>1. UserActs
      BY <2>1 DEF User, Type, Submit, Toggle, ChangeRating, SelectMode,
             PreviousPage, NextPage, Clear, Retry, RetryCategories, Travel,
             FollowAnchor, Reload
    <3> QED
      BY <3>1 DEF UserActs, TypeOK
  <2>2. ~TimerFires
    BY DEF TimerFires, Commit
  <2>3. ~(Headers \/ Refuse \/ Answer \/ SettleLate \/ MissCategories)
    BY DEF Headers, Refuse, Answer, SettleLate, MissCategories
  <2>4. OfferCategories => ~ Loaded /\ Loaded' /\ form'.q = view.q
    BY DEF OfferCategories, Controls, Loaded
  <2>5. ~UNCHANGED vars
    BY DEF vars
  <2> QED
    BY <2>1, <2>2, <2>3, <2>4, <2>5 DEF Next, Meanwhile
<1> QED
  BY <1>1, ScreenInvariant, PTL DEF Spec, TypedTextStays

==============================================================================
