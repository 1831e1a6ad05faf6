------------------------------ MODULE PanelProofs ------------------------------
(****************************************************************************)
(* Theorems about Panel.tla, for every set of sources, every limit of the   *)
(* selection and every number of events.                                    *)
(****************************************************************************)
EXTENDS Panel, FiniteSetTheorems, TLAPS

------------------------------------------------------------------------------
(* The inductive invariant.                                                 *)

(* What was read of a source is between what had been collected when the    *)
(* load began and what is now; a load begins no earlier than what is shown  *)
(* was read.                                                                *)
ReadInTime ==
    \A part \in Parts[panel], s \in Source :
        /\ \A l \in load : l.since[s] <= l.got[part][s] /\ l.got[part][s] <= collected[s]
        /\ \A c \in content : c.got[part][s] <= collected[s]
        /\ \A l \in load, c \in content : l.status = "loading" => c.got[part][s] <= l.since[s]

(* Only a summary outlives a failed request, and it has no view to change;  *)
(* what is ready is the whole of the load that is done.                     *)
ReadyIsDrawn ==
    /\ panel = "summary" => view = "none" /\ ~hidden
    /\ panel # "summary" =>
        \A l \in load : l.status = "loading" => \A part \in Parts[panel] : l.phase[part] # "failed"
    /\ view = "ready" =>
        \E l \in load, c \in content :
            l.status = "done" /\ c = Drawn(l) /\ c.read = Parts[panel]

(* How the last load ended is how the panel looks.                          *)
EndIsShown ==
    panel # "summary" =>
        /\ ~hidden \/ late # {} => load # {}
        /\ \A l \in load :
            /\ l.status = "done" => late = {} /\ view = "ready"
            /\ l.status = "failed" => view = "error"
            /\ l.status = "aborted" => hidden \/ (view = "error" /\ panel = "comparison")

(* What goes on in a closed panel, or in a superseded load, had its answers *)
(* when it was aborted.                                                     *)
Answered(l) == \A part \in Unsettled(l) : l.phase[part] \in Reading

AbortedIsAnswered ==
    /\ hidden => \A l \in load : l.status = "loading" => Answered(l)
    /\ \A l \in late : Answered(l)

Inv ==
    /\ TypeOK
    /\ ReadInTime
    /\ ReadyIsDrawn
    /\ EndIsShown
    /\ AbortedIsAnswered

------------------------------------------------------------------------------
(* Type correctness.                                                        *)

(* A new load is a load, whatever it is for.                                *)
LEMMA NewLoadType ==
    ASSUME NEW p \in DOMAIN Parts, collected \in Version, NEW sources \in SUBSET Source
    PROVE  NewLoad(p, sources) \in Load(p)
BY DEF NewLoad, Load, Phase, Version

(* What is drawn of a load is content.                                      *)
LEMMA DrawnType ==
    ASSUME NEW p \in DOMAIN Parts, NEW l \in Load(p)
    PROVE  Drawn(l) \in Content(p)
<1>1. DOMAIN l.phase = Parts[p]
  BY DEF Load
<1> QED
  BY <1>1 DEF Drawn, Content, Load

(* A request of a load moves on, or the load does.                          *)
LEMMA LoadSteps ==
    ASSUME NEW p \in DOMAIN Parts, NEW l \in Load(p), NEW part \in Parts[p],
           NEW phase \in Phase, NEW version \in Version,
           NEW status \in {"loading", "done", "failed", "aborted"}
    PROVE  /\ [l EXCEPT !.phase[part] = phase] \in Load(p)
           /\ [l EXCEPT !.phase[part] = phase, !.got[part] = version] \in Load(p)
           /\ [l EXCEPT !.status = status] \in Load(p)
           /\ [l EXCEPT !.phase[part] = phase].status = l.status
<1>1. /\ [l EXCEPT !.phase[part] = phase] \in Load(p)
      /\ [l EXCEPT !.status = status] \in Load(p)
      /\ [l EXCEPT !.phase[part] = phase].status = l.status
  BY DEF Load
<1>2. [l EXCEPT !.phase[part] = phase, !.got[part] = version] \in Load(p)
  BY DEF Load
<1> QED
  BY <1>1, <1>2

------------------------------------------------------------------------------
(* What the steps do, in the terms the invariant needs.                     *)

(* An answer or a failure moves the only load on: it goes on, it is drawn,  *)
(* or it is rejected.                                                       *)
Moves(l, next) ==
    /\ load = {l} /\ l.status = "loading" /\ late = {}
    /\ next \in Load(panel)
    /\ next.for = l.for /\ next.since = l.since /\ next.got = l.got
    /\ load' = {next}
    /\ UNCHANGED <<panel, collected, selection, late, events>>
    /\ \A part \in Parts[panel] :
        next.phase[part] \in {l.phase[part], "read"}
          \/ (next.phase[part] = "failed" /\ (panel = "summary" \/ next.status = "failed"))
    /\ \E part \in Parts[panel] : l.phase[part] \in Open /\ next.phase[part] \in {"read", "failed"}
    /\ \/ next.status = "loading" /\ Unsettled(next) # {} /\ UNCHANGED <<view, hidden, content>>
       \/ /\ next.status = "done" /\ Unsettled(next) = {} /\ content' = {Drawn(next)}
          /\ IF panel = "summary" THEN UNCHANGED <<view, hidden>> ELSE SetView("ready")
       \/ /\ next.status = "failed" /\ panel # "summary"
          /\ SetView("error") /\ UNCHANGED content

(* Every answer read and every failure is such a move.                      *)
LEMMA AnswersMove ==
    ASSUME TypeOK, NEW part \in Parts[panel], Fail(part) \/ Read(part)
    PROVE  \E l, next \in Load(panel) : Moves(l, next)
<1>1. PICK l \in load :
        /\ l.status = "loading" /\ late = {} /\ l.phase[part] \in Open
        /\ UNCHANGED <<panel, collected, selection, late, events>>
        /\ \/ LET failed == [l EXCEPT !.phase[part] = "failed"]
              IN  IF panel = "summary" THEN SettleSummary(l, failed) ELSE Reject(l, failed)
           \/ LET read == [l EXCEPT !.phase[part] = "read"]
              IN  IF panel = "summary" THEN SettleSummary(l, read) ELSE Resolve(l, read)
  BY DEF Fail, Read, Open, Reading
<1>2. /\ load = {l} /\ l \in Load(panel) /\ panel \in DOMAIN Parts
      /\ \A next : Replaced(l, next) = {next}
  BY <1>1 DEF TypeOK, Replaced
<1>3. ASSUME NEW phase \in {"failed", "read"},
             LET next == [l EXCEPT !.phase[part] = phase]
             IN  IF panel = "summary" THEN SettleSummary(l, next)
                 ELSE IF phase = "failed" THEN Reject(l, next) ELSE Resolve(l, next)
      PROVE  \E m, next \in Load(panel) : Moves(m, next)
  <2> DEFINE next == [l EXCEPT !.phase[part] = phase]
  <2>1. /\ next \in Load(panel) /\ next.status = "loading"
        /\ next.for = l.for /\ next.since = l.since /\ next.got = l.got
        /\ \A other \in Parts[panel] : next.phase[other] \in {l.phase[other], phase}
        /\ next.phase[part] = phase
    BY <1>1, <1>2 DEF Load, Phase
  <2>2. ASSUME NEW status \in {"loading", "done", "failed", "aborted"}
        PROVE  LET m == [next EXCEPT !.status = status]
               IN  /\ m \in Load(panel) /\ m.status = status
                   /\ m.for = l.for /\ m.since = l.since /\ m.got = l.got
                   /\ m.phase = next.phase
                   /\ Drawn(m) = Drawn(next) /\ Unsettled(m) = Unsettled(next)
    BY <2>1 DEF Load, Drawn, Unsettled
  <2>3. CASE /\ load' = {next} /\ Unsettled(next) # {} /\ UNCHANGED <<view, hidden, content>>
             /\ phase = "read" \/ panel = "summary"
    BY <1>1, <1>2, <2>1, <2>3 DEF Moves
  <2>4. CASE /\ load' = {[next EXCEPT !.status = "done"]} /\ content' = {Drawn(next)}
             /\ Unsettled(next) = {}
             /\ IF panel = "summary" THEN UNCHANGED <<view, hidden>>
                ELSE SetView("ready") /\ phase = "read"
    <3> DEFINE m == [next EXCEPT !.status = "done"]
    <3>1. /\ m \in Load(panel) /\ m.status = "done"
          /\ m.for = l.for /\ m.since = l.since /\ m.got = l.got
          /\ m.phase = next.phase /\ load' = {m} /\ content' = {Drawn(m)} /\ Unsettled(m) = {}
          /\ l.phase[part] \in Open /\ m.phase[part] \in {"read", "failed"}
      BY <1>1, <2>1, <2>2, <2>4
    <3>2. /\ \A other \in Parts[panel] :
              m.phase[other] \in {l.phase[other], "read"}
                \/ (m.phase[other] = "failed" /\ (panel = "summary" \/ m.status = "failed"))
          /\ m.for = l.for /\ m.since = l.since /\ m.got = l.got
      BY <2>1, <2>4, <3>1
    <3> HIDE DEF m, next
    <3>3. Moves(l, m)
      BY <1>1, <1>2, <2>4, <3>1, <3>2 DEF Moves
    <3> QED
      BY <1>2, <3>1, <3>3
  <2>5. CASE /\ load' = {[next EXCEPT !.status = "failed"]}
             /\ SetView("error") /\ UNCHANGED content /\ panel # "summary"
    <3> DEFINE m == [next EXCEPT !.status = "failed"]
    <3>1. /\ m \in Load(panel) /\ m.status = "failed"
          /\ m.for = l.for /\ m.since = l.since /\ m.got = l.got
          /\ m.phase = next.phase /\ load' = {m}
          /\ l.phase[part] \in Open /\ m.phase[part] \in {"read", "failed"}
      BY <1>1, <2>1, <2>2, <2>5
    <3> HIDE DEF m
    <3>2. Moves(l, m)
      BY <1>1, <1>2, <2>1, <2>5, <3>1 DEF Moves
    <3> QED
      BY <1>2, <3>1, <3>2
  <2> QED
    BY <1>2, <1>3, <2>3, <2>4, <2>5 DEF SettleSummary, Reject, Resolve
<1> QED
  BY <1>1, <1>3

(* What can be said of the load that is aborted.                            *)
LEMMA AbortedLoad ==
    ASSUME TypeOK
    PROVE  /\ "refused" \in Aborted => panel # "summary"
           /\ "late" \in Aborted =>
                load # {} /\ \A l \in load : l.status = "loading" /\ Answered(l)
           /\ Aborted \subseteq {"dropped", "refused", "late"}
  BY DEF TypeOK, Aborted, Answered

(* A load begins: the one before, if it comes too late to abort, is late.   *)
LEMMA BeginStarts ==
    ASSUME TypeOK, NEW sources \in SUBSET Source, Begin(sources)
    PROVE  /\ NewLoad(panel, sources) \in Load(panel)
           /\ load' = {NewLoad(panel, sources)}
           /\ late' = late \/ (late' = load /\ \A l \in load : Answered(l))
           /\ panel = "summary" => view' = view
           /\ panel # "summary" => view' \in {"error", "loading"}
           /\ hidden' = FALSE
           /\ UNCHANGED <<panel, collected, selection, content>>
<1>1. panel \in DOMAIN Parts /\ collected \in Version
  BY DEF TypeOK
<1>2. NewLoad(panel, sources) \in Load(panel)
  BY <1>1, NewLoadType
<1>3. PICK outcome \in Aborted :
        /\ late' = IF outcome = "late" THEN load ELSE late
        /\ view' = IF panel = "summary" THEN view
                   ELSE IF outcome = "refused" THEN "error" ELSE "loading"
  BY DEF Begin
<1> QED
  BY <1>2, <1>3, AbortedLoad DEF Begin

(* A panel is closed over a load that has ended or cannot be aborted, or    *)
(* with the load's end.                                                     *)
LEMMA CloseEnds ==
    ASSUME TypeOK, Close
    PROVE  /\ ~hidden /\ UNCHANGED <<panel, collected, selection, late, content>>
           /\ \/ /\ load' = load /\ view' = view /\ hidden'
                 /\ \A l \in load : l.status = "loading" => Answered(l)
              \/ \E l \in load, next \in Load(panel) :
                    /\ load = {l} /\ load' = {next}
                    /\ next.since = l.since /\ next.got = l.got
                    /\ l.status = "loading"
                    /\ \/ next.status = "aborted" /\ view' = view /\ hidden'
                       \/ /\ next.status = "failed" /\ view' = "error"
                          /\ panel # "summary" /\ hidden' = ~ Unhides
<1>1. PICK outcome \in Aborted :
        /\ load' = IF outcome = "late" THEN load
                   ELSE {[l EXCEPT !.status =
                            IF @ # "loading" THEN @
                            ELSE IF outcome = "refused" THEN "failed" ELSE "aborted"] : l \in load}
        /\ view' = IF outcome = "refused" THEN "error" ELSE view
        /\ hidden' = ~ (outcome = "refused" /\ Unhides)
  BY DEF Close
<1>2. ~hidden /\ UNCHANGED <<panel, collected, selection, late, content>>
  BY DEF Close
<1>3. CASE outcome = "late"
  BY <1>1, <1>2, <1>3, AbortedLoad
<1>4. CASE outcome # "late" /\ \A l \in load : l.status # "loading"
  <2>1. load' = load
    <3>1. \A l \in load : [l EXCEPT !.status =
                              IF @ # "loading" THEN @
                              ELSE IF outcome = "refused" THEN "failed" ELSE "aborted"] = l
      BY <1>4 DEF TypeOK, Load
    <3> QED
      BY <1>1, <1>4, <3>1
  <2>2. outcome # "refused"
    BY <1>4 DEF Aborted
  <2> QED
    BY <1>1, <1>2, <1>4, <2>1, <2>2
<1>5. CASE outcome # "late" /\ \E l \in load : l.status = "loading"
  <2>1. PICK l \in load : l.status = "loading" /\ load = {l} /\ l \in Load(panel)
    BY <1>5 DEF TypeOK
  <2>2. PICK status \in {"failed", "aborted"} :
          load' = {[l EXCEPT !.status = status]} /\ (status = "failed" <=> outcome = "refused")
    BY <1>1, <1>5, <2>1
  <2> DEFINE next == [l EXCEPT !.status = status]
  <2>3. /\ next \in Load(panel) /\ next.status = status
        /\ next.since = l.since /\ next.got = l.got
    BY <2>1 DEF Load
  <2>4. outcome = "refused" => panel # "summary"
    BY AbortedLoad
  <2> HIDE DEF next
  <2> QED
    BY <1>1, <1>2, <2>1, <2>2, <2>3, <2>4 DEF next
<1> QED
  BY <1>3, <1>4, <1>5

(* The headers of an answer: the load goes on, with what was read now.      *)
Hears(l, next, part) ==
    /\ load = {l} /\ load' = {next}
    /\ UNCHANGED <<panel, collected, selection, late, view, hidden, content, events>>
    /\ l.status = "loading" /\ next.status = "loading"
    /\ l.phase[part] = "waiting"
    /\ next.since = l.since
    /\ next.got = [l.got EXCEPT ![part] = collected]
    /\ next.phase[part] \in Reading
    /\ \A other \in Parts[panel] : other # part => next.phase[other] = l.phase[other]

(* Headers that arrive are heard, and nothing else of the load changes.     *)
LEMMA HeadersArrive ==
    ASSUME TypeOK, NEW part \in Parts[panel], Headers(part)
    PROVE  \E l, next \in Load(panel) : Hears(l, next, part)
<1>1. PICK l \in load, phase \in Reading :
        /\ l.status = "loading" /\ l.phase[part] = "waiting"
        /\ load' = Replaced(l, [l EXCEPT !.phase[part] = phase, !.got[part] = collected])
  BY DEF Headers
<1>2. load = {l} /\ l \in Load(panel) /\ panel \in DOMAIN Parts /\ collected \in Version
  BY DEF TypeOK
<1> DEFINE next == [l EXCEPT !.phase[part] = phase, !.got[part] = collected]
<1>3. next \in Load(panel)
  BY <1>2, LoadSteps DEF Phase, Reading
<1>4. /\ next.status = l.status /\ next.since = l.since
      /\ next.got = [l.got EXCEPT ![part] = collected]
      /\ next.phase = [l.phase EXCEPT ![part] = phase]
  BY <1>2 DEF Load
<1>5. load' = {next}
  BY <1>1, <1>2 DEF Replaced
<1> HIDE DEF next
<1>6. l.phase \in [Parts[panel] -> Phase]
  BY <1>2 DEF Load
<1>7. /\ \A other \in Parts[panel] : other # part => next.phase[other] = l.phase[other]
      /\ next.phase[part] \in Reading
  <2>1. PICK before : before = l.phase /\ before \in [Parts[panel] -> Phase]
    BY <1>6
  <2>2. PICK after : after = next.phase /\ after = [before EXCEPT ![part] = phase]
    BY <1>4, <2>1
  <2>3. after[part] \in Reading /\ \A other \in Parts[panel] : other # part => after[other] = before[other]
    BY <2>1, <2>2
  <2> QED
    BY <2>1, <2>2, <2>3
<1>8. Hears(l, next, part)
  BY <1>1, <1>2, <1>4, <1>5, <1>7 DEF Headers, Hears
<1> QED
  BY <1>2, <1>3, <1>8

(* What is late drops its answers or shows its error.                       *)
LEMMA LateSettles ==
    ASSUME TypeOK, SettleLate
    PROVE  /\ late # {} /\ late' = {} /\ UNCHANGED <<panel, collected, selection, load, content, events>>
           /\ \/ UNCHANGED <<view, hidden>>
              \/ /\ view' = "error" /\ panel # "summary"
                 /\ \/ hidden' = hidden
                    \/ panel = "comparison" /\ ~hidden'
<1>1. late # {} /\ late' = {} /\ UNCHANGED <<panel, collected, selection, load, content, events>>
  BY DEF SettleLate
<1>2. \/ UNCHANGED <<view, hidden>>
      \/ view' = "error" /\ panel # "summary" /\ hidden' = (hidden /\ ~Unhides)
  BY DEF SettleLate, SetView
<1>3. hidden \in BOOLEAN
  BY DEF TypeOK
<1>4. CASE panel = "comparison"
  BY <1>1, <1>2, <1>4 DEF Unhides
<1>5. CASE panel # "comparison"
  BY <1>1, <1>2, <1>3, <1>5 DEF Unhides
<1> QED
  BY <1>4, <1>5

(* A step of the panel, by what it does.                                    *)
LEMMA StepKinds ==
    ASSUME TypeOK, [Next]_vars
    PROVE  \/ \E sources \in SUBSET Source : Begin(sources)
           \/ Close /\ panel # "summary"
           \/ \E s \in Source : Toggle(s) \/ Collect(s)
           \/ \E part \in Parts[panel] : Headers(part)
           \/ \E l, next \in Load(panel) : Moves(l, next)
           \/ SettleLate
           \/ UNCHANGED vars
<1>1. \A s \in Source : {s} \in SUBSET Source
  OBVIOUS
<1>2. selection \in SUBSET Source
  BY DEF TypeOK
<1> QED
  BY <1>1, <1>2, AnswersMove
  DEF Next, User, Network, RunComparison, CloseComparison, OpenDetail, CloseDetail, LoadGrowthSummary

(* Types are kept, and there is at most one load of each kind.              *)
LEMMA TypeStep ==
    ASSUME TypeOK, [Next]_vars
    PROVE  TypeOK'
<1>1. CASE \E sources \in SUBSET Source : Begin(sources)
  <2>1. PICK sources \in SUBSET Source : Begin(sources)
    BY <1>1
  <2>2. events' \in 0 .. MaxEvents
    BY <2>1, PanelAssumption DEF TypeOK, Begin, UserActs
  <2> QED
    BY <2>1, <2>2, BeginStarts DEF TypeOK
<1>2. CASE Close
  <2>1. events' \in 0 .. MaxEvents
    BY <1>2, PanelAssumption DEF TypeOK, Close, UserActs
  <2>2. hidden' \in BOOLEAN
    BY <1>2 DEF Close, Unhides
  <2>3. view' \in {view, "error"}
    BY <1>2, CloseEnds
  <2>4. load' \subseteq Load(panel) /\ \A l, m \in load' : l = m
    BY <1>2, CloseEnds DEF TypeOK
  <2> QED
    BY <1>2, <2>1, <2>2, <2>3, <2>4, CloseEnds DEF TypeOK
<1>3. CASE \E s \in Source : Toggle(s)
  BY <1>3 DEF TypeOK, Toggle
<1>4. CASE \E s \in Source : Collect(s)
  BY <1>4, PanelAssumption DEF TypeOK, Collect, Version
<1>5. CASE \E part \in Parts[panel] : Headers(part)
  <2>1. PICK part \in Parts[panel], l, next \in Load(panel) : Hears(l, next, part)
    BY <1>5, HeadersArrive
  <2> QED
    BY <2>1 DEF TypeOK, Hears
<1>6. CASE \E l, next \in Load(panel) : Moves(l, next)
  <2>1. PICK l, next \in Load(panel) : Moves(l, next)
    BY <1>6
  <2>2. Drawn(next) \in Content(panel)
    BY DrawnType DEF TypeOK
  <2>3. content' \subseteq Content(panel) /\ \A c, d \in content' : c = d
    BY <2>1, <2>2 DEF Moves, TypeOK, SetView
  <2>4. view' \in {"none", "loading", "error", "ready"} /\ hidden' \in BOOLEAN
    BY <2>1 DEF Moves, TypeOK, SetView, Unhides
  <2> QED
    BY <2>1, <2>3, <2>4 DEF Moves, TypeOK
<1>7. CASE SettleLate
  BY <1>7 DEF TypeOK, SettleLate, SetView, Unhides
<1>8. CASE UNCHANGED vars
  BY <1>8 DEF TypeOK, vars
<1> QED
  BY <1>1, <1>2, <1>3, <1>4, <1>5, <1>6, <1>7, <1>8, StepKinds

(* What is read stays between what was there and what is there.             *)
LEMMA ReadInTimeStep ==
    ASSUME TypeOK, ReadInTime, [Next]_vars
    PROVE  ReadInTime'
<1>1. /\ \A s \in Source : collected[s] \in Nat
      /\ \A part \in Parts[panel], s \in Source :
          /\ \A l \in load : l.since[s] \in Nat /\ l.got[part][s] \in Nat
          /\ \A c \in content : c.got[part][s] \in Nat
  BY PanelAssumption DEF TypeOK, Load, Content, Version
<1>2. CASE \E sources \in SUBSET Source : Begin(sources)
  <2>1. PICK sources \in SUBSET Source : Begin(sources)
    BY <1>2
  <2>2. \A part \in Parts[panel] : /\ NewLoad(panel, sources).got[part] = collected
                                   /\ NewLoad(panel, sources).since = collected
    BY DEF NewLoad
  <2>3. load' = {NewLoad(panel, sources)} /\ UNCHANGED <<panel, collected, content>>
    BY <2>1, BeginStarts
  <2> QED
    BY <1>1, <2>2, <2>3 DEF ReadInTime
<1>3. CASE Close
  BY <1>3, CloseEnds DEF ReadInTime
<1>4. CASE \E s \in Source : Toggle(s)
  BY <1>4 DEF ReadInTime, Toggle
<1>5. CASE \E s \in Source : Collect(s)
  <2>1. /\ \A s \in Source : collected'[s] \in Nat /\ collected[s] <= collected'[s]
        /\ UNCHANGED <<panel, load, content>>
    BY <1>1, <1>5 DEF Collect, TypeOK, Version
  <2> QED
    BY <1>1, <2>1 DEF ReadInTime
<1>6. CASE \E part \in Parts[panel] : Headers(part)
  <2>1. PICK part \in Parts[panel], l, next \in Load(panel) : Hears(l, next, part)
    BY <1>6, HeadersArrive
  <2>2. \A other \in Parts[panel] : next.got[other] \in {l.got[other], collected}
    BY <2>1 DEF Hears, Load
  <2>3. ASSUME NEW other \in Parts[panel], NEW s \in Source
        PROVE  /\ l.since[s] <= next.got[other][s] /\ next.got[other][s] <= collected[s]
               /\ \A c \in content : c.got[other][s] <= collected[s] /\ c.got[other][s] <= l.since[s]
    <3>1. /\ l.since[s] <= l.got[other][s] /\ l.got[other][s] <= collected[s]
          /\ \A c \in content : c.got[other][s] <= collected[s] /\ c.got[other][s] <= l.since[s]
      BY <2>1 DEF ReadInTime, Hears
    <3>2. l.since[s] \in Nat /\ l.got[other][s] \in Nat /\ collected[s] \in Nat
      BY <1>1, <2>1 DEF Hears
    <3> QED
      BY <2>2, <3>1, <3>2
  <2>4. UNCHANGED <<panel, collected, content>> /\ load' = {next} /\ next.since = l.since
    BY <2>1 DEF Hears
  <2> QED
    BY <2>3, <2>4 DEF ReadInTime
<1>7. CASE \E l, next \in Load(panel) : Moves(l, next)
  <2>1. PICK l, next \in Load(panel) : Moves(l, next)
    BY <1>7
  <2>2. Drawn(next).got = l.got
    BY <2>1 DEF Moves, Drawn
  <2>3. CASE next.status = "loading" /\ content' = content
    BY <2>1, <2>3 DEF Moves, ReadInTime
  <2>4. CASE next.status # "loading"
    BY <1>1, <2>1, <2>2, <2>4 DEF Moves, ReadInTime
  <2> QED
    BY <2>1, <2>3, <2>4 DEF Moves
<1>8. CASE SettleLate
  BY <1>8 DEF ReadInTime, SettleLate
<1>9. CASE UNCHANGED vars
  BY <1>9 DEF ReadInTime, vars
<1> QED
  BY <1>2, <1>3, <1>4, <1>5, <1>6, <1>7, <1>8, <1>9, StepKinds

(* What is ready stays the whole of what was asked for.                     *)
LEMMA ReadyIsDrawnStep ==
    ASSUME TypeOK, ReadyIsDrawn, [Next]_vars
    PROVE  ReadyIsDrawn'
<1>1. CASE \E sources \in SUBSET Source : Begin(sources)
  <2>1. PICK sources \in SUBSET Source : Begin(sources)
    BY <1>1
  <2>2. \A part \in Parts[panel] : NewLoad(panel, sources).phase[part] = "waiting"
    BY DEF NewLoad
  <2> QED
    BY <2>1, <2>2, BeginStarts DEF ReadyIsDrawn
<1>2. CASE Close /\ panel # "summary"
  BY <1>2, CloseEnds DEF ReadyIsDrawn
<1>3. CASE \E s \in Source : Toggle(s) \/ Collect(s)
  BY <1>3 DEF ReadyIsDrawn, Toggle, Collect
<1>4. CASE \E part \in Parts[panel] : Headers(part)
  <2>1. PICK part \in Parts[panel], l, next \in Load(panel) : Hears(l, next, part)
    BY <1>4, HeadersArrive
  <2> QED
    BY <2>1 DEF ReadyIsDrawn, Hears, Reading
<1>5. CASE \E l, next \in Load(panel) : Moves(l, next)
  <2>1. PICK l, next \in Load(panel) : Moves(l, next)
    BY <1>5
  <2>2. CASE next.status = "loading"
    BY <2>1, <2>2 DEF ReadyIsDrawn, Moves
  <2>3. CASE next.status = "failed"
    BY <2>1, <2>3 DEF ReadyIsDrawn, Moves, SetView
  <2>4. CASE next.status = "done" /\ panel = "summary"
    BY <2>1, <2>4 DEF ReadyIsDrawn, Moves
  <2>5. CASE next.status = "done" /\ panel # "summary"
    <3>1. \A part \in Parts[panel] : next.phase[part] = "read"
      <4>1. \A part \in Parts[panel] : next.phase[part] \in Phase /\ next.phase[part] \notin Open
        BY <2>1, <2>5 DEF Moves, Unsettled, Load
      <4>2. \A part \in Parts[panel] : l.phase[part] # "failed"
        BY <2>1, <2>5 DEF ReadyIsDrawn, Moves
      <4> QED
        BY <2>1, <2>5, <4>1, <4>2 DEF Moves, Phase, Open, Reading
    <3>2. Drawn(next).read = Parts[panel]
      BY <2>1, <3>1 DEF Drawn, Load
    <3> QED
      BY <2>1, <2>5, <3>2 DEF ReadyIsDrawn, Moves, SetView
  <2> QED
    BY <2>1, <2>2, <2>3, <2>4, <2>5 DEF Moves
<1>6. CASE SettleLate
  BY <1>6 DEF ReadyIsDrawn, SettleLate, SetView
<1>7. CASE UNCHANGED vars
  BY <1>7 DEF ReadyIsDrawn, vars
<1> QED
  BY <1>1, <1>2, <1>3, <1>4, <1>5, <1>6, <1>7, StepKinds

(* How a load ended stays what the panel shows.                             *)
LEMMA EndIsShownStep ==
    ASSUME TypeOK, EndIsShown, [Next]_vars
    PROVE  EndIsShown'
<1>1. CASE \E sources \in SUBSET Source : Begin(sources)
  <2>1. PICK sources \in SUBSET Source : Begin(sources)
    BY <1>1
  <2>2. NewLoad(panel, sources).status = "loading"
    BY DEF NewLoad
  <2> QED
    BY <2>1, <2>2, BeginStarts DEF EndIsShown
<1>2. CASE Close /\ panel # "summary"
  BY <1>2, CloseEnds DEF EndIsShown, Unhides
<1>3. CASE \E s \in Source : Toggle(s) \/ Collect(s)
  BY <1>3 DEF EndIsShown, Toggle, Collect
<1>4. CASE \E part \in Parts[panel] : Headers(part)
  <2>1. PICK part \in Parts[panel], l, next \in Load(panel) : Hears(l, next, part)
    BY <1>4, HeadersArrive
  <2> QED
    BY <2>1 DEF EndIsShown, Hears
<1>5. CASE \E l, next \in Load(panel) : Moves(l, next)
  BY <1>5 DEF EndIsShown, Moves, SetView
<1>6. CASE SettleLate
  BY <1>6, LateSettles DEF EndIsShown
<1>7. CASE UNCHANGED vars
  BY <1>7 DEF EndIsShown, vars
<1> QED
  BY <1>1, <1>2, <1>3, <1>4, <1>5, <1>6, <1>7, StepKinds

(* What was aborted too late has its answers, and keeps them.               *)
LEMMA AbortedIsAnsweredStep ==
    ASSUME TypeOK, AbortedIsAnswered, [Next]_vars
    PROVE  AbortedIsAnswered'
<1>1. CASE \E sources \in SUBSET Source : Begin(sources)
  BY <1>1, BeginStarts DEF AbortedIsAnswered
<1>2. CASE Close /\ panel # "summary"
  BY <1>2, CloseEnds DEF AbortedIsAnswered
<1>3. CASE \E s \in Source : Toggle(s) \/ Collect(s)
  BY <1>3 DEF AbortedIsAnswered, Toggle, Collect
<1>4. CASE \E part \in Parts[panel] : Headers(part)
  <2>1. PICK part \in Parts[panel], l, next \in Load(panel) : Hears(l, next, part)
    BY <1>4, HeadersArrive
  <2>2. ~ Answered(l)
    BY <2>1 DEF Hears, Answered, Unsettled, Open, Reading, Load
  <2> QED
    BY <2>1, <2>2 DEF AbortedIsAnswered, Hears
<1>5. CASE \E l, next \in Load(panel) : Moves(l, next)
  <2>1. PICK l, next \in Load(panel) : Moves(l, next)
    BY <1>5
  <2>2. CASE next.status = "loading"
    <3>1. Answered(l) => Answered(next)
      BY <2>1, <2>2 DEF Moves, Answered, Unsettled, Open, Reading, Load
    <3> QED
      BY <2>1, <2>2, <3>1 DEF AbortedIsAnswered, Moves
  <2>3. CASE next.status # "loading"
    BY <2>1, <2>3 DEF AbortedIsAnswered, Moves
  <2> QED
    BY <2>2, <2>3
<1>6. CASE SettleLate
  BY <1>6, LateSettles DEF AbortedIsAnswered
<1>7. CASE UNCHANGED vars
  BY <1>7 DEF AbortedIsAnswered, vars
<1> QED
  BY <1>1, <1>2, <1>3, <1>4, <1>5, <1>6, <1>7, StepKinds

------------------------------------------------------------------------------
(* The theorems.                                                            *)

(* The page as it is when it is there satisfies the invariant.              *)
LEMMA InitInv ==
    ASSUME Init
    PROVE  Inv
<1>1. panel \in DOMAIN Parts
  BY DEF Init
<1>2. collected \in Version /\ \A s \in Source : collected[s] \in Nat
  BY PanelAssumption DEF Init, Version
<1>3. /\ NewLoad(panel, Source) \in Load(panel)
      /\ NewLoad(panel, Source).status = "loading"
      /\ NewLoad(panel, Source).since = collected
      /\ \A part \in Parts[panel] : NewLoad(panel, Source).got[part] = collected
  <2>1. NewLoad(panel, Source) \in Load(panel)
    BY <1>1, <1>2, NewLoadType
  <2> QED
    BY <2>1 DEF NewLoad
<1>4. selection \subseteq Source /\ Cardinality(selection) <= MaxSelected
  BY FS_EmptySet, PanelAssumption DEF Init
<1>5. events \in 0 .. MaxEvents
  BY PanelAssumption DEF Init
<1>6. TypeOK
  BY <1>1, <1>2, <1>3, <1>4, <1>5 DEF TypeOK, Init
<1>7. ReadInTime
  BY <1>2, <1>3 DEF ReadInTime, Init
<1>8. ReadyIsDrawn /\ EndIsShown /\ AbortedIsAnswered
  BY DEF ReadyIsDrawn, EndIsShown, AbortedIsAnswered, Init
<1> QED
  BY <1>6, <1>7, <1>8 DEF Inv

(* The invariant holds in every reachable state.                            *)
THEOREM Invariance == Spec => []Inv
<1>1. Init => Inv
  BY InitInv
<1>2. Inv /\ [Next]_vars => Inv'
  BY TypeStep, ReadInTimeStep, ReadyIsDrawnStep, EndIsShownStep, AbortedIsAnsweredStep DEF Inv
<1> QED
  BY <1>1, <1>2, PTL DEF Spec

(* Every variable keeps its type, and a controller has one load.            *)
THEOREM TypeCorrectness == Spec => []TypeOK
<1>1. Inv => TypeOK
  BY DEF Inv
<1> QED
  BY <1>1, Invariance, PTL

(* A ready panel shows the whole answer to the last request, however the    *)
(* answers, the failures, the collectors and the user interleave.           *)
THEOREM ReadyCurrent == Spec => []ReadyIsCurrent
<1>1. ASSUME Inv, ~hidden, view = "ready"
      PROVE  \E c \in content, l \in load :
                /\ l.status = "done"
                /\ c.for = l.for /\ c.read = Parts[panel]
                /\ \A part \in Parts[panel], s \in c.for :
                    l.since[s] <= c.got[part][s] /\ c.got[part][s] <= collected[s]
  <2>1. PICK l \in load, c \in content :
          l.status = "done" /\ c = Drawn(l) /\ c.read = Parts[panel]
    BY <1>1 DEF Inv, ReadyIsDrawn
  <2>2. c.for = l.for /\ c.got = l.got /\ c.for \subseteq Source
    BY <1>1, <2>1 DEF Drawn, Inv, TypeOK, Load
  <2>3. \A part \in Parts[panel], s \in c.for :
          l.since[s] <= c.got[part][s] /\ c.got[part][s] <= collected[s]
    BY <1>1, <2>2 DEF Inv, ReadInTime
  <2> QED
    BY <2>1, <2>2, <2>3
<1>2. Inv => ReadyIsCurrent
  BY <1>1 DEF ReadyIsCurrent
<1> QED
  BY <1>2, Invariance, PTL

(* An open panel shows how its last load goes or ended.                     *)
THEOREM ViewExplained == Spec => []ViewIsExplained
<1>1. ASSUME Inv, ~hidden, panel # "summary"
      PROVE  \E l \in load :
                /\ view = "loading" => l.status = "loading"
                /\ l.status # "loading" /\ late = {} =>
                    \/ l.status = "done" /\ view = "ready"
                    \/ l.status = "failed" /\ view = "error"
                    \/ l.status = "aborted" /\ view = "error" /\ panel = "comparison"
  <2>1. PICK l \in load : l \in Load(panel)
    BY <1>1 DEF Inv, EndIsShown, TypeOK
  <2>2. l.status \in {"loading", "done", "failed", "aborted"}
    BY <2>1 DEF Load
  <2> QED
    BY <1>1, <2>1, <2>2 DEF Inv, EndIsShown
<1>2. Inv => ViewIsExplained
  BY <1>1 DEF ViewIsExplained
<1> QED
  BY <1>2, Invariance, PTL

(* No answer is drawn over a newer one.                                     *)
THEOREM NeverBack == Spec => NeverBackInTime
<1>1. ASSUME Inv, [Next]_vars, NEW c \in content, NEW d \in content',
             NEW part \in c.read \cap d.read, NEW s \in c.for \cap d.for
      PROVE  c.got[part][s] <= d.got[part][s]
  <2>1. /\ c \in Content(panel) /\ part \in Parts[panel] /\ s \in Source
        /\ c.got[part][s] \in Nat
    BY <1>1, PanelAssumption DEF Inv, TypeOK, Content, Version
  <2>2. CASE content' = content
    BY <1>1, <2>1, <2>2 DEF Inv, TypeOK
  <2>3. CASE \E l, next \in Load(panel) : Moves(l, next) /\ content' = {Drawn(next)}
    <3>1. PICK l, next \in Load(panel) : Moves(l, next) /\ content' = {Drawn(next)}
      BY <2>3
    <3>2. d.got = l.got
      BY <1>1, <3>1 DEF Moves, Drawn
    <3>3. c.got[part][s] <= l.since[s] /\ l.since[s] <= l.got[part][s]
      BY <1>1, <2>1, <3>1 DEF Inv, ReadInTime, Moves
    <3>4. l.since[s] \in Nat /\ l.got[part][s] \in Nat
      BY <2>1, PanelAssumption DEF Load, Version
    <3> QED
      BY <2>1, <3>2, <3>3, <3>4
  <2>4. content' = content \/ \E l, next \in Load(panel) : Moves(l, next) /\ content' = {Drawn(next)}
    <3>1. ASSUME NEW p \in Parts[panel], Headers(p)
          PROVE  content' = content
      BY <3>1 DEF Headers
    <3>2. ASSUME NEW l \in Load(panel), NEW next \in Load(panel), Moves(l, next)
          PROVE  content' = content \/ content' = {Drawn(next)}
      BY <3>2 DEF Moves
    <3>3. TypeOK
      BY <1>1 DEF Inv
    <3> QED
      BY <1>1, <3>1, <3>2, <3>3, StepKinds DEF Begin, Close, Toggle, Collect, SettleLate, vars
  <2> QED
    BY <2>2, <2>3, <2>4
<1>2. Inv /\ [Next]_vars =>
        [\A c \in content, d \in content' :
            \A part \in c.read \cap d.read, s \in c.for \cap d.for :
                c.got[part][s] <= d.got[part][s]]_vars
  BY <1>1
<1> QED
  BY <1>2, Invariance, PTL DEF Spec, NeverBackInTime

(* What the user closed stays closed, but for the comparison whose answer   *)
(* had begun to arrive.                                                     *)
THEOREM ClosedClosed == Spec => ClosedStaysClosed
<1>1. ASSUME Inv, [Next]_vars, hidden, ~hidden', events' = events
      PROVE  /\ panel = "comparison"
             /\ \E l \in load \cup late : \A part \in Unsettled(l) : l.phase[part] \in Reading
  <2>1. events + 1 # events /\ TypeOK
    BY <1>1 DEF Inv, TypeOK
  <2>2. CASE SettleLate
    <3>1. panel = "comparison" /\ late # {}
      BY <1>1, <2>1, <2>2, LateSettles
    <3> QED
      BY <1>1, <3>1 DEF Inv, AbortedIsAnswered, Answered
  <2>3. CASE \E l, next \in Load(panel) : Moves(l, next)
    <3>1. PICK l, next \in Load(panel) : Moves(l, next)
      BY <2>3
    <3>2. panel = "comparison"
      BY <1>1, <3>1 DEF Moves, SetView, Unhides
    <3> QED
      BY <1>1, <3>1, <3>2 DEF Inv, AbortedIsAnswered, Answered, Moves
  <2>4. \A part \in Parts[panel] : ~ Headers(part)
    BY <1>1 DEF Headers
  <2>5. ~ \E sources \in SUBSET Source : Begin(sources)
    BY <1>1, <2>1 DEF Begin, UserActs
  <2>6. ~ Close
    BY <1>1, <2>1 DEF Close, UserActs
  <2>7. ~ \E s \in Source : Toggle(s) \/ Collect(s)
    BY <1>1 DEF Toggle, Collect
  <2>8. ~ UNCHANGED vars
    BY <1>1 DEF vars
  <2> QED
    BY <1>1, <2>1, <2>2, <2>3, <2>4, <2>5, <2>6, <2>7, <2>8, StepKinds
<1>2. Inv /\ [Next]_vars =>
        [hidden /\ ~hidden' /\ events' = events =>
            /\ panel = "comparison"
            /\ \E l \in load \cup late : \A part \in Unsettled(l) : l.phase[part] \in Reading]_vars
  BY <1>1
<1> QED
  BY <1>2, Invariance, PTL DEF Spec, ClosedStaysClosed
------------------------------------------------------------------------------
(* Why a panel comes to rest.                                               *)

(* What the network still owes a request.                                   *)
Level(phase) ==
    CASE phase = "waiting" -> 2
      [] phase \in Reading -> 1
      [] OTHER -> 0

(* A load that is under way, superseded or not, has a request that is not   *)
(* settled, and one that is drawn has none.                                 *)
LoadsAwait ==
    /\ \A l \in load \cup late : l.status = "loading" => Unsettled(l) # {}
    /\ \A l \in load : l.status = "done" => Unsettled(l) = {}

(* Requests never go back, and each step of the network takes one forward   *)
(* or settles what was late.                                                *)
RequestsMoveOn ==
    [][/\ events' = events =>
            \A l \in load, m \in load' :
                \A part \in Parts[panel] : Level(m.phase[part]) <= Level(l.phase[part])
       /\ Network =>
            \/ late # {} /\ late' = {}
            \/ \E l \in load, m \in load' :
                \E part \in Parts[panel] : Level(m.phase[part]) < Level(l.phase[part])]_vars

(* A load begins with requests and goes on while it has some.               *)
LEMMA LoadsAwaitStep ==
    ASSUME TypeOK, LoadsAwait, \A l \in late : l.status = "loading", [Next]_vars
    PROVE  LoadsAwait' /\ \A l \in late' : l.status = "loading"
<1>1. CASE \E sources \in SUBSET Source : Begin(sources)
  <2>1. PICK sources \in SUBSET Source : Begin(sources)
    BY <1>1
  <2>2. PICK outcome \in Aborted : late' = IF outcome = "late" THEN load ELSE late
    BY <2>1 DEF Begin
  <2>3. \A l \in late' : l \in load \cup late /\ l.status = "loading"
    BY <2>2, AbortedLoad
  <2> DEFINE new == NewLoad(panel, sources)
  <2>4. new.status = "loading" /\ Unsettled(new) # {}
    <3>1. panel \in DOMAIN Parts /\ Parts[panel] # {}
      BY DEF TypeOK, Parts
    <3>2. new.status = "loading" /\ new.phase = [part \in Parts[panel] |-> "waiting"]
      BY DEF NewLoad
    <3> HIDE DEF new
    <3> QED
      BY <3>1, <3>2 DEF Unsettled, Open
  <2>5. load' = {new}
    BY <2>1 DEF Begin
  <2> HIDE DEF new
  <2> QED
    BY <2>3, <2>4, <2>5 DEF LoadsAwait
<1>2. CASE Close /\ panel # "summary"
  BY <1>2, CloseEnds DEF LoadsAwait
<1>3. CASE \E s \in Source : Toggle(s) \/ Collect(s)
  BY <1>3 DEF LoadsAwait, Toggle, Collect
<1>4. CASE \E part \in Parts[panel] : Headers(part)
  <2>1. PICK part \in Parts[panel], l, next \in Load(panel) : Hears(l, next, part)
    BY <1>4, HeadersArrive
  <2>2. Unsettled(next) # {}
    BY <2>1 DEF Hears, Unsettled, Open, Load
  <2> QED
    BY <2>1, <2>2 DEF LoadsAwait, Hears
<1>5. CASE \E l, next \in Load(panel) : Moves(l, next)
  BY <1>5 DEF LoadsAwait, Moves
<1>6. CASE SettleLate
  BY <1>6, LateSettles DEF LoadsAwait
<1>7. CASE UNCHANGED vars
  BY <1>7 DEF LoadsAwait, vars
<1> QED
  BY <1>1, <1>2, <1>3, <1>4, <1>5, <1>6, <1>7, StepKinds

(* No handler sets a request back.                                          *)
LEMMA RequestsNotSetBack ==
    ASSUME TypeOK, [Next]_vars, events' = events, NEW l \in load, NEW m \in load',
           NEW part \in Parts[panel]
    PROVE  Level(m.phase[part]) <= Level(l.phase[part])
<1>1. /\ \A sources \in SUBSET Source : ~ Begin(sources)
      /\ ~ Close
  BY DEF Begin, Close, UserActs, TypeOK
<1>2. l \in Load(panel) /\ \A n \in load : n = l
  BY DEF TypeOK
<1>3. CASE load' = load
  BY <1>2, <1>3 DEF Level
<1>4. CASE \E other \in Parts[panel] : Headers(other)
  <2>1. PICK other \in Parts[panel], k, next \in Load(panel) : Hears(k, next, other)
    BY <1>4, HeadersArrive
  <2>2. k = l /\ next = m
    BY <1>2, <2>1 DEF Hears
  <2>3. \/ m.phase[part] = l.phase[part]
        \/ m.phase[part] \in Reading /\ l.phase[part] = "waiting"
    BY <2>1, <2>2 DEF Hears
  <2> QED
    BY <2>3 DEF Level, Reading
<1>5. CASE \E k, next \in Load(panel) : Moves(k, next)
  <2>1. PICK k, next \in Load(panel) : Moves(k, next)
    BY <1>5
  <2>2. k = l /\ next = m
    BY <1>2, <2>1 DEF Moves
  <2>3. m.phase[part] \in {l.phase[part], "read", "failed"}
    BY <2>1, <2>2 DEF Moves
  <2> QED
    BY <2>3 DEF Level, Reading
<1>6. load' = load \/ (\E other \in Parts[panel] : Headers(other))
                   \/ \E k, next \in Load(panel) : Moves(k, next)
  BY <1>1, StepKinds DEF Toggle, Collect, SettleLate, vars
<1> QED
  BY <1>3, <1>4, <1>5, <1>6

(* Every step of the network is a step forward.                             *)
LEMMA NetworkSettles ==
    ASSUME TypeOK, Network
    PROVE  \/ late # {} /\ late' = {}
           \/ \E l \in load, m \in load' :
                \E part \in Parts[panel] : Level(m.phase[part]) < Level(l.phase[part])
<1>1. CASE SettleLate
  BY <1>1 DEF SettleLate
<1>2. ASSUME NEW part \in Parts[panel], Headers(part)
      PROVE  \E l \in load, m \in load' : Level(m.phase[part]) < Level(l.phase[part])
  <2>1. PICK l, next \in Load(panel) : Hears(l, next, part)
    BY <1>2, HeadersArrive
  <2> QED
    BY <2>1 DEF Hears, Level, Reading
<1>3. ASSUME NEW part \in Parts[panel], Fail(part) \/ Read(part)
      PROVE  \E l \in load, m \in load' :
                \E other \in Parts[panel] : Level(m.phase[other]) < Level(l.phase[other])
  <2>1. PICK l, next \in Load(panel) : Moves(l, next)
    BY <1>3, AnswersMove
  <2>2. PICK other \in Parts[panel] :
          l.phase[other] \in Open /\ next.phase[other] \in {"read", "failed"}
    BY <2>1 DEF Moves
  <2>3. Level(next.phase[other]) < Level(l.phase[other])
    BY <2>2 DEF Level, Open, Reading
  <2> QED
    BY <2>1, <2>3 DEF Moves
<1> QED
  BY <1>1, <1>2, <1>3 DEF Network

(* A panel that loads waits for a request that the network will settle, and *)
(* the network settles each after two steps at most: with the fairness of   *)
(* the network this is why no panel loads for ever.                         *)
THEOREM LoadsComeToAnEnd == Spec => []LoadsAwait /\ RequestsMoveOn
<1> DEFINE Awaits == LoadsAwait /\ \A l \in late : l.status = "loading"
<1>1. ASSUME Init PROVE Awaits
  <2> DEFINE new == NewLoad("summary", Source)
  <2>1. late = {} /\ (load = {} \/ load = {new})
    BY <1>1 DEF Init
  <2>2. new.status = "loading" /\ Unsettled(new) # {}
    <3>1. new.status = "loading" /\ new.phase = [part \in Parts["summary"] |-> "waiting"]
      BY DEF NewLoad
    <3>2. Parts["summary"] # {}
      BY DEF Parts
    <3> HIDE DEF new
    <3> QED
      BY <3>1, <3>2 DEF Unsettled, Open
  <2> HIDE DEF new
  <2> QED
    BY <2>1, <2>2 DEF LoadsAwait
<1>2. Inv /\ Awaits /\ [Next]_vars => Awaits'
  BY LoadsAwaitStep DEF Inv
<1>3. Inv /\ [Next]_vars =>
        [/\ events' = events =>
            \A l \in load, m \in load' :
                \A part \in Parts[panel] : Level(m.phase[part]) <= Level(l.phase[part])
         /\ Network =>
            \/ late # {} /\ late' = {}
            \/ \E l \in load, m \in load' :
                \E part \in Parts[panel] : Level(m.phase[part]) < Level(l.phase[part])]_vars
  BY RequestsNotSetBack, NetworkSettles DEF Inv
<1>4. Awaits => LoadsAwait
  OBVIOUS
<1> HIDE DEF Awaits
<1> QED
  BY <1>1, <1>2, <1>3, <1>4, Invariance, PTL DEF Spec, RequestsMoveOn

==============================================================================
