--------------------------------- MODULE Panel ---------------------------------
(****************************************************************************)
(* A panel of the browser client beside the ranking, which is filled while  *)
(* the collectors go on committing: the comparison, the detail of a source  *)
(* or the summary of the ecosystem.  Source: apps/api/static/app.js.        *)
(*                                                                          *)
(* The three are built alike and share nothing but the API, so that the     *)
(* module is about any one of them.  A load makes the panel's requests at   *)
(* once; it is aborted by the next load and by closing the panel.  Actions  *)
(* and the requests' phases are those of Discovery: one handler or one      *)
(* answer, run to the end of its microtasks; a response that is complete    *)
(* when it is aborted may still settle, "late".  In what order the requests *)
(* of one load reject when they are aborted together is left open.          *)
(*                                                                          *)
(* What an answer says of a source is how many of its snapshots had been    *)
(* accepted when the API read the tables.                                   *)
(****************************************************************************)
EXTENDS Integers, FiniteSets

CONSTANTS
    Source,
    MinSelected,    \* 2
    MaxSelected,    \* 8
    MaxCollected,   \* bound on the snapshots of a source
    MaxEvents       \* bound on the loads and closings

ASSUME PanelAssumption ==
    /\ IsFiniteSet(Source)
    /\ MinSelected \in Nat \ {0}
    /\ MaxSelected \in Nat
    /\ MaxCollected \in Nat \ {0}
    /\ MaxEvents \in Nat

(* The requests of a load, by what they ask for.                            *)
Parts ==
    [comparison |-> {"compare"},
     detail |-> {"booru", "snapshots", "growth"},
     summary |-> {"largest", "fastest_growth"}]

Phase == {"waiting", "answering", "refusing", "read", "failed"}
Reading == {"answering", "refusing"}
Open == {"waiting"} \cup Reading

Version == [Source -> 0 .. MaxCollected]

(* A load: the sources it is for, what had been collected when it began,    *)
(* its requests and what the API read for each.                             *)
Load(p) ==
    [for : SUBSET Source, since : Version, status : {"loading", "done", "failed", "aborted"},
     phase : [Parts[p] -> Phase], got : [Parts[p] -> Version]]

(* What a panel shows: the answers of a load that could be read.            *)
Content(p) ==
    [for : SUBSET Source, read : SUBSET Parts[p], got : [Parts[p] -> Version]]

VARIABLES
    panel,          \* which of the panels it is
    collected,      \* the accepted snapshots of each source
    selection,      \* state.comparisonIds
    load,           \* {} or the load of the panel's controller
    late,           \* {} or the superseded load that came too late to abort
    view,           \* "none", "loading", "error" or "ready"
    hidden,         \* the panel's hidden attribute
    content,        \* {} or what it shows when it is ready
    events          \* what the user has done so far

vars == <<panel, collected, selection, load, late, view, hidden, content, events>>

NewLoad(p, sources) ==
    [for |-> sources, since |-> collected, status |-> "loading",
     phase |-> [part \in Parts[p] |-> "waiting"],
     got |-> [part \in Parts[p] |-> collected]]

(* The page is there: two panels are hidden, loadGrowthSummary has begun.   *)
Init ==
    /\ panel \in DOMAIN Parts
    /\ collected \in [Source -> 0 .. 1]
    /\ selection = {}
    /\ load = IF panel = "summary" THEN {NewLoad(panel, Source)} ELSE {}
    /\ late = {}
    /\ view = "none"
    /\ hidden = (panel # "summary")
    /\ content = {}
    /\ events = 0

------------------------------------------------------------------------------
(* Helpers.                                                                 *)

UserActs ==
    /\ events < MaxEvents
    /\ events' = events + 1

Replaced(l, next) == (load \ {l}) \cup {next}

Unsettled(l) == {part \in DOMAIN l.phase : l.phase[part] \in Open}

(* Faulty variant of Unhides: every panel that is filled is shown.          *)
UnhidesAny == TRUE

(* setCompareView shows its panel, setDetailView does not.                  *)
Unhides == panel = "comparison"

(* Faulty variant of SetView: an error is not shown.                        *)
SetReadyView(mode) ==
    /\ view' = IF mode = "ready" THEN mode ELSE view
    /\ hidden' = (hidden /\ ~Unhides)

(* setCompareView or setDetailView.                                         *)
SetView(mode) ==
    /\ view' = mode
    /\ hidden' = (hidden /\ ~Unhides)

(* What may become of the load when its controller is aborted: its          *)
(* AbortError is dropped; a refusal whose body is being read becomes an     *)
(* ApiError; or the responses are all there and wait for their turn.        *)
(* Nothing becomes of a summary's errors (allSettled).                      *)
Aborted ==
    LET under == {l \in load : l.status = "loading"}
        refusing(l) == {part \in Unsettled(l) : l.phase[part] = "refusing"}
        Possible(outcome) ==
            \/ /\ outcome = "dropped"
               /\ panel = "summary" \/ \A l \in under : refusing(l) # Unsettled(l)
            \/ /\ outcome = "refused"
               /\ panel # "summary"
               /\ \E l \in under : refusing(l) # {}
            \/ /\ outcome = "late"
               /\ \E l \in under : \A part \in Unsettled(l) : l.phase[part] \in Reading
    IN  {outcome \in {"dropped", "refused", "late"} : Possible(outcome)}

(* Faulty variant of Begin: the panel keeps what it shows while it loads.   *)
BeginReady(sources) ==
    /\ UserActs
    /\ load' = {NewLoad(panel, sources)}
    /\ late' = {}
    /\ view' = IF view = "ready" THEN view ELSE "loading"
    /\ hidden' = FALSE
    /\ UNCHANGED <<panel, collected, selection, content>>

(* Faulty variant of Begin: the load before is neither aborted nor told     *)
(* from the new one.                                                        *)
BeginBeside(sources) ==
    /\ UserActs
    /\ load' = load \cup {NewLoad(panel, sources)}
    /\ view' = IF panel = "summary" THEN view ELSE "loading"
    /\ hidden' = FALSE
    /\ UNCHANGED <<panel, collected, selection, late, content>>

(* A new load, up to its await.                                             *)
Begin(sources) ==
    /\ UserActs
    /\ load' = {NewLoad(panel, sources)}
    /\ \E outcome \in Aborted :
        /\ late' = IF outcome = "late" THEN load ELSE late
        /\ view' = IF panel = "summary" THEN view
                   ELSE IF outcome = "refused" THEN "error" ELSE "loading"
    /\ hidden' = FALSE
    /\ UNCHANGED <<panel, collected, selection, content>>

(* A panel is closed; its controller stays.                                 *)
Close ==
    /\ UserActs
    /\ ~hidden
    /\ \E outcome \in Aborted :
        /\ load' = IF outcome = "late" THEN load
                   ELSE {[l EXCEPT !.status =
                            IF @ # "loading" THEN @
                            ELSE IF outcome = "refused" THEN "failed" ELSE "aborted"] : l \in load}
        /\ view' = IF outcome = "refused" THEN "error" ELSE view
        /\ hidden' = ~ (outcome = "refused" /\ Unhides)
    /\ UNCHANGED <<panel, collected, selection, late, content>>

------------------------------------------------------------------------------
(* What the user does.                                                      *)

(* Faulty variant of Toggle: the limit is not looked at.                    *)
ToggleFreely(s) ==
    /\ panel = "comparison"
    /\ selection' = IF s \in selection THEN selection \ {s} ELSE selection \cup {s}
    /\ UNCHANGED <<panel, collected, load, late, view, hidden, content, events>>

(* A checkbox of the ranking; those not chosen are disabled at the limit.   *)
Toggle(s) ==
    /\ panel = "comparison"
    /\ selection' = IF s \in selection THEN selection \ {s} ELSE selection \cup {s}
    /\ Cardinality(selection') <= MaxSelected
    /\ UNCHANGED <<panel, collected, load, late, view, hidden, content, events>>

RunComparison ==
    /\ panel = "comparison"
    /\ Cardinality(selection) \in MinSelected .. MaxSelected
    /\ Begin(selection)

CloseComparison == panel = "comparison" /\ Close

(* The button of a row, or the one that explores the first source.          *)
OpenDetail(s) == panel = "detail" /\ Begin({s})

CloseDetail == panel = "detail" /\ Close

(* loadGrowthSummary, by the retry button.                                  *)
LoadGrowthSummary == panel = "summary" /\ Begin(Source)

User ==
    \/ \E s \in Source : Toggle(s) \/ OpenDetail(s)
    \/ RunComparison
    \/ CloseComparison
    \/ CloseDetail
    \/ LoadGrowthSummary

------------------------------------------------------------------------------
(* What the network does.                                                   *)

(* The headers of a response.  What is late was queued before.              *)
Headers(part) ==
    /\ late = {}
    /\ \E l \in load, phase \in Reading :
        /\ l.status = "loading" /\ l.phase[part] = "waiting"
        /\ load' = Replaced(l, [l EXCEPT !.phase[part] = phase, !.got[part] = collected])
    /\ UNCHANGED <<panel, collected, selection, late, view, hidden, content, events>>

(* What is drawn of a load.                                                 *)
Drawn(l) ==
    [for |-> l.for, got |-> l.got,
     read |-> {part \in DOMAIN l.phase : l.phase[part] = "read"}]

(* Promise.allSettled: null for what failed.                                *)
SettleSummary(l, next) ==
    /\ IF Unsettled(next) = {}
       THEN load' = Replaced(l, [next EXCEPT !.status = "done"]) /\ content' = {Drawn(next)}
       ELSE load' = Replaced(l, next) /\ UNCHANGED content
    /\ UNCHANGED <<view, hidden>>

(* The first failure rejects the whole load (Promise.all).                  *)
Reject(l, next) ==
    /\ load' = Replaced(l, [next EXCEPT !.status = "failed"])
    /\ SetView("error")
    /\ UNCHANGED content

(* The last body that is read is drawn with the others.                     *)
Resolve(l, next) ==
    IF Unsettled(next) # {}
    THEN load' = Replaced(l, next) /\ UNCHANGED <<view, hidden, content>>
    ELSE /\ load' = Replaced(l, [next EXCEPT !.status = "done"])
         /\ content' = {Drawn(next)}
         /\ SetView("ready")

(* No connection, a refusal, or a body that is not what it should be.       *)
Fail(part) ==
    /\ late = {}
    /\ \E l \in load :
        /\ l.status = "loading" /\ l.phase[part] \in Open
        /\ LET failed == [l EXCEPT !.phase[part] = "failed"]
           IN  IF panel = "summary" THEN SettleSummary(l, failed) ELSE Reject(l, failed)
    /\ UNCHANGED <<panel, collected, selection, late, events>>

(* The body of an answer is there.                                          *)
Read(part) ==
    /\ late = {}
    /\ \E l \in load :
        /\ l.status = "loading" /\ l.phase[part] = "answering"
        /\ LET read == [l EXCEPT !.phase[part] = "read"]
           IN  IF panel = "summary" THEN SettleSummary(l, read) ELSE Resolve(l, read)
    /\ UNCHANGED <<panel, collected, selection, late, events>>

(* A superseded load: its answers are dropped, its error is shown.          *)
SettleLate ==
    /\ \E l \in late :
        \/ /\ panel = "summary" \/ \A part \in Unsettled(l) : l.phase[part] = "answering"
           /\ UNCHANGED <<view, hidden>>
        \/ panel # "summary" /\ SetView("error")
    /\ late' = {}
    /\ UNCHANGED <<panel, collected, selection, load, content, events>>

(* A collector accepts a snapshot.                                          *)
Collect(s) ==
    /\ collected[s] < MaxCollected
    /\ collected' = [collected EXCEPT ![s] = @ + 1]
    /\ UNCHANGED <<panel, selection, load, late, view, hidden, content, events>>

Network ==
    \/ \E part \in Parts[panel] : Headers(part) \/ Fail(part) \/ Read(part)
    \/ SettleLate

Next ==
    \/ User
    \/ Network
    \/ \E s \in Source : Collect(s)

Spec == Init /\ [][Next]_vars

(* The network answers every request or gives up, however slowly.           *)
FairSpec == Spec /\ WF_vars(Network)

------------------------------------------------------------------------------
(* Properties.                                                              *)

(* Every variable has its type, and a controller has one load.              *)
TypeOK ==
    /\ panel \in DOMAIN Parts
    /\ collected \in Version
    /\ selection \subseteq Source /\ Cardinality(selection) <= MaxSelected
    /\ load \subseteq Load(panel) /\ \A l, m \in load : l = m
    /\ late \subseteq Load(panel) /\ \A l, m \in late : l = m
    /\ view \in {"none", "loading", "error", "ready"}
    /\ hidden \in BOOLEAN
    /\ content \subseteq Content(panel) /\ \A c, d \in content : c = d
    /\ events \in 0 .. MaxEvents

(* A panel that is ready answers what was asked for last, every part of it, *)
(* each as of some moment since then: the parts of a detail can only differ *)
(* by what was collected while it was loading (openDetail, runComparison).  *)
ReadyIsCurrent ==
    ~hidden /\ view = "ready" =>
        \E c \in content, l \in load :
            /\ l.status = "done"
            /\ c.for = l.for /\ c.read = Parts[panel]
            /\ \A part \in Parts[panel], s \in c.for :
                l.since[s] <= c.got[part][s] /\ c.got[part][s] <= collected[s]

(* A panel that says it is loading is being loaded; and once nothing is on  *)
(* its way, an open panel shows how its last load ended.  (A comparison     *)
(* that was closed can be open again with the error of an earlier load.)    *)
ViewIsExplained ==
    ~hidden /\ panel # "summary" =>
        \E l \in load :
            /\ view = "loading" => l.status = "loading"
            /\ l.status # "loading" /\ late = {} =>
                \/ l.status = "done" /\ view = "ready"
                \/ l.status = "failed" /\ view = "error"
                \/ l.status = "aborted" /\ view = "error" /\ panel = "comparison"

(* No answer is drawn over a newer one: what a panel says of a source is    *)
(* never older than what it said of it before.                              *)
NeverBackInTime ==
    [][\A c \in content, d \in content' :
        \A part \in c.read \cap d.read, s \in c.for \cap d.for :
            c.got[part][s] <= d.got[part][s]]_vars

(* A panel that was closed stays closed until the user opens it, but for a  *)
(* comparison whose answer had begun to arrive: closeComparison leaves its  *)
(* controller in place, and setCompareView shows the panel.                 *)
ClosedStaysClosed ==
    [][hidden /\ ~hidden' /\ events' = events =>
        /\ panel = "comparison"
        /\ \E l \in load \cup late : \A part \in Unsettled(l) : l.phase[part] \in Reading]_vars

(* Once the user leaves it alone, a panel comes to rest: none loads for     *)
(* ever, and the summary is drawn.                                          *)
PanelSettles ==
    <>[](IF panel = "summary" THEN content # {} ELSE hidden \/ view \in {"ready", "error"})

==============================================================================
