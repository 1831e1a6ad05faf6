--------------------------- MODULE InspectionProofs ---------------------------
(* Theorems about Inspection, for every set of adapter families, counts and *)
(* number of collections.                                                   *)
EXTENDS Inspection, TLAPS

(* Appending keeps what was there and adds one element at the end.          *)
LEMMA Appended ==
    ASSUME NEW S, NEW s \in Seq(S), NEW x \in S
    PROVE  /\ Append(s, x) \in Seq(S)
           /\ Len(Append(s, x)) = Len(s) + 1
           /\ DOMAIN s = 1 .. Len(s)
           /\ DOMAIN Append(s, x) = 1 .. Len(s) + 1
           /\ \A i \in 1 .. Len(s) : Append(s, x)[i] = s[i]
           /\ Append(s, x)[Len(s) + 1] = x
  OBVIOUS

(* One request adds one entry and keeps the entries before it.              *)
LEMMA RequestEffect ==
    ASSUME asked \in Seq(Entry), evidence \in Seq(Fingerprint),
           NEW e \in Endpoint, NEW a \in Answer, Request(e, a)
    PROVE  /\ asked' \in Seq(Entry)
           /\ evidence' \in Seq(Fingerprint)
           /\ Len(asked') = Len(asked) + 1
           /\ DOMAIN asked = 1 .. Len(asked)
           /\ DOMAIN asked' = 1 .. Len(asked) + 1
           /\ \A i \in 1 .. Len(asked) : asked'[i] = asked[i]
           /\ asked'[Len(asked) + 1] = [endpoint |-> e, answer |-> a]
<1>1. a # NoResponse => [endpoint |-> e, status |-> a.status] \in Fingerprint
  BY DEF Answer, Response, Fingerprint
<1>2. evidence' \in Seq(Fingerprint)
  BY <1>1, Appended DEF Request
<1>3. [endpoint |-> e, answer |-> a] \in Entry
  BY DEF Entry
<1>4. asked' = Append(asked, [endpoint |-> e, answer |-> a])
  BY DEF Request
<1> QED
  BY <1>2, <1>3, <1>4, Appended

(* A block raises source_access_blocked, and nothing else does, where the   *)
(* adapter recognises blocks.                                               *)
LEMMA BlockRaised ==
    ASSUME NEW a, kind # "gelbooru"
    PROVE  RaisedBy(a) = "source_access_blocked" <=> Blocked(a)
  BY DEF RaisedBy

(* Only a proper response holds a total.                                    *)
LEMMA TotalReported ==
    ASSUME NEW a \in Answer, a.body = "ok"
    PROVE  a.total \in Counts /\ a.status = "success" /\ ~Blocked(a)
<1>1. CASE a \in [status : {"success"}, challenge : {FALSE}, body : Body,
                  total : Counts]
  <2>1. a.status \in {"success"} /\ a.challenge \in {FALSE} /\ a.total \in Counts
    BY <1>1
  <2> QED
    BY <2>1 DEF Blocked
<1>2. CASE a \in [status : {"success", "forbidden", "error"}, challenge : BOOLEAN,
                  body : {"malformed"}, total : {0}]
  <2>1. a.body \in {"malformed"}
    BY <1>2
  <2> QED
    BY <2>1
<1>3. CASE a = NoResponse
  BY <1>3 DEF NoResponse
<1> QED
  BY <1>1, <1>2, <1>3 DEF Answer, Response

(* Every variable keeps its type, whatever the source answers.              *)
THEOREM TypeCorrectness == Spec => []TypeOK
<1> USE InspectionAssumption
<1>0. <<>> \in Seq(Entry) /\ <<>> \in Seq(Fingerprint)
  OBVIOUS
<1>1. Init => TypeOK
  <2>1. 0 \in 0 .. MaxRounds
    OBVIOUS
  <2> QED
    BY <1>0, <2>1 DEF Init, TypeOK, Stage, Health, Flag
<1>2. TypeOK /\ [Next]_vars => TypeOK'
  <2> SUFFICES ASSUME TypeOK, [Next]_vars PROVE TypeOK'
    OBVIOUS
  <2>1. CASE Begin
    <3>1. round' \in 0 .. MaxRounds
      BY <2>1 DEF Begin, TypeOK
    <3> QED
      BY <1>0, <2>1, <3>1 DEF Begin, TypeOK, Stage, Health, Flag
  <2>2. CASE CheckHealth
    <3>1. PICK a \in Answer : Request("recent_posts", a)
      BY <2>2 DEF CheckHealth
    <3> QED
      BY <2>2, <3>1, RequestEffect
      DEF CheckHealth, TypeOK, Fail, Stage, Health, Flag, Endpoint
  <2>3. CASE FetchStatistics
    <3>1. PICK a \in Answer :
            /\ Request("total_posts", a)
            /\ \/ /\ RaisedBy(a) = "none" /\ a.body = "ok"
                  /\ statistics' = {a.total}
                  /\ stage' = AfterStatistics
                  /\ UNCHANGED <<unrestricted, cached, health, failure>>
               \/ /\ RaisedBy(a) = "none" /\ a.body = "bare"
                  /\ Fail("hard_invalid")
               \/ /\ RaisedBy(a) # "none"
                  /\ Fail(RaisedBy(a))
      BY <2>3 DEF FetchStatistics
    <3>2. RaisedBy(a) \in Flag
      BY DEF RaisedBy, Flag
    <3>3. a.body = "ok" => a.total \in Counts
      BY TotalReported
    <3>4. /\ asked' \in Seq(Entry)
          /\ evidence' \in Seq(Fingerprint)
      BY <3>1, RequestEffect DEF TypeOK, Endpoint
    <3> QED
      BY <2>3, <3>1, <3>2, <3>3, <3>4
      DEF FetchStatistics, TypeOK, Fail, Stage, Flag, AfterStatistics
  <2>4. CASE FetchPosts
    <3>1. PICK a \in Answer :
            /\ Request("recent_posts", a)
            /\ \/ /\ RaisedBy(a) = "none"
                  /\ stage' = "accepted"
                  /\ UNCHANGED <<unrestricted, cached, health, statistics, failure>>
               \/ /\ RaisedBy(a) # "none"
                  /\ Fail(RaisedBy(a))
      BY <2>4 DEF FetchPosts
    <3>2. RaisedBy(a) \in Flag
      BY DEF RaisedBy, Flag
    <3> QED
      BY <2>4, <3>1, <3>2, RequestEffect
      DEF FetchPosts, TypeOK, Fail, Stage, Endpoint
  <2>5. CASE AskFilter
    <3>1. PICK a \in Answer :
            /\ Request("counter_filter", a)
            /\ \/ /\ RaisedBy(a) = "none" /\ a.body = "ok"
                  /\ unrestricted' = TRUE
                  /\ UNCHANGED <<stage, failure, cached, health, statistics>>
               \/ /\ RaisedBy(a) = "none" /\ a.body = "bare"
                  /\ Fail("hard_invalid")
               \/ /\ RaisedBy(a) # "none"
                  /\ Fail(RaisedBy(a))
      BY <2>5 DEF AskFilter
    <3>2. RaisedBy(a) \in Flag
      BY DEF RaisedBy, Flag
    <3>3. /\ asked' \in Seq(Entry)
          /\ evidence' \in Seq(Fingerprint)
      BY <3>1, RequestEffect DEF TypeOK, Endpoint
    <3> QED
      BY <2>5, <3>1, <3>2, <3>3 DEF AskFilter, TypeOK, Fail, Stage, Flag
  <2>6. CASE AskCount
    <3>1. PICK a \in Answer :
            /\ Request("total_posts", a)
            /\ \/ /\ RaisedBy(a) = "none" /\ a.body = "ok"
                  /\ cached' = {a.total}
                  /\ unrestricted' = FALSE
                  /\ Return(a.total)
                  /\ UNCHANGED failure
               \/ /\ RaisedBy(a) = "none" /\ a.body = "bare"
                  /\ Fail("hard_invalid")
               \/ /\ RaisedBy(a) # "none"
                  /\ Fail(RaisedBy(a))
      BY <2>6 DEF AskCount
    <3>2. RaisedBy(a) \in Flag
      BY DEF RaisedBy, Flag
    <3>3. a.body = "ok" => a.total \in Counts
      BY TotalReported
    <3>4. /\ asked' \in Seq(Entry)
          /\ evidence' \in Seq(Fingerprint)
      BY <3>1, RequestEffect DEF TypeOK, Endpoint
    <3> QED
      BY <2>6, <3>1, <3>2, <3>3, <3>4
      DEF AskCount, TypeOK, Fail, Return, Stage, Health, Flag, AfterStatistics
  <2>7. CASE ReuseCount
    BY <2>7 DEF ReuseCount, TypeOK, Return, Stage, Health, AfterStatistics
  <2>8. CASE Interrupt
    <3>1. PICK e \in Pending : Request(e, NoResponse)
      BY <2>8 DEF Interrupt
    <3>2. e \in Endpoint /\ NoResponse \in Answer
      BY DEF Pending, Endpoint, Answer
    <3> QED
      BY <2>8, <3>1, <3>2, RequestEffect DEF Interrupt, TypeOK, Fail, Stage, Flag
  <2>9. CASE UNCHANGED vars
    BY <2>9 DEF vars, TypeOK
  <2> QED
    BY <2>1, <2>2, <2>3, <2>4, <2>5, <2>6, <2>7, <2>8, <2>9 DEF Next
<1> QED
  BY <1>1, <1>2, PTL DEF Spec


(* The same from the type invariant, field by field.                        *)
LEMMA EntriesGrow ==
    ASSUME TypeOK, NEW e \in Endpoint, NEW a \in Answer, Request(e, a)
    PROVE  /\ Len(asked) \in Nat
           /\ Len(asked') = Len(asked) + 1
           /\ DOMAIN asked = 1 .. Len(asked)
           /\ DOMAIN asked' = 1 .. Len(asked) + 1
           /\ \A i \in 1 .. Len(asked) : asked'[i] = asked[i]
           /\ asked'[Len(asked) + 1].endpoint = e
           /\ asked'[Len(asked) + 1].answer = a
           /\ asked' # <<>>
<1>1. Len(asked) \in Nat
  BY DEF TypeOK
<1>2. /\ Len(asked') = Len(asked) + 1
      /\ DOMAIN asked = 1 .. Len(asked)
      /\ DOMAIN asked' = 1 .. Len(asked) + 1
      /\ \A i \in 1 .. Len(asked) : asked'[i] = asked[i]
      /\ asked'[Len(asked) + 1] = [endpoint |-> e, answer |-> a]
  BY RequestEffect DEF TypeOK
<1>3. Len(asked') # 0
  BY <1>1, <1>2
<1> QED
  BY <1>1, <1>2, <1>3

------------------------------------------------------------------------------
(* Blocks.                                                                  *)

(* Nothing has failed before the inspection has.                            *)
BlockInv ==
    /\ stage # "failed" => failure = "none"
    /\ BlockIsFinal

(* What holds of the adapters that recognise a block.                       *)
RecognisedInv == kind # "gelbooru" => BlockInv

(* The family of an adapter is for good.                                    *)
LEMMA KindStays ==
    ASSUME [Next]_vars
    PROVE  kind' = kind
  BY DEF Next, Begin, CheckHealth, FetchStatistics, FetchPosts, AskFilter,
         AskCount, ReuseCount, Interrupt, vars

(* A request keeps BlockInv if it fails with source_access_blocked when and *)
(* only when it is answered by a block.                                     *)
LEMMA BlockStep ==
    ASSUME TypeOK, BlockInv, stage \notin Ended,
           NEW e \in Endpoint, NEW a \in Answer, Request(e, a),
           \/ Blocked(a) /\ stage' = "failed" /\ failure' = "source_access_blocked"
           \/ /\ ~Blocked(a)
              /\ failure' # "source_access_blocked"
              /\ stage' # "failed" => failure' = "none"
    PROVE  BlockInv'
<1>1. /\ Len(asked) \in Nat
      /\ Len(asked') = Len(asked) + 1
      /\ DOMAIN asked = 1 .. Len(asked)
      /\ DOMAIN asked' = 1 .. Len(asked) + 1
      /\ \A i \in 1 .. Len(asked) : asked'[i] = asked[i]
      /\ asked'[Len(asked) + 1].answer = a
      /\ asked' # <<>>
  BY EntriesGrow
<1>2. \A i \in 1 .. Len(asked) : ~Blocked(asked'[i].answer)
  BY <1>1 DEF BlockInv, BlockIsFinal, Ended
<1>3. ASSUME NEW i \in DOMAIN asked', Blocked(asked'[i].answer)
      PROVE  i = Len(asked') /\ Blocked(a)
  <2>1. i = Len(asked) + 1
    BY <1>1, <1>2, <1>3
  <2> QED
    BY <1>1, <1>3, <2>1
<1>4. failure' = "source_access_blocked" => Blocked(asked'[Len(asked')].answer)
  BY <1>1
<1>5. stage' # "failed" => failure' = "none"
  OBVIOUS
<1> QED
  BY <1>1, <1>3, <1>4, <1>5 DEF BlockInv, BlockIsFinal, Blocked

(* A blocked source ends the inspection, is reported as such and is not     *)
(* asked again, for every adapter but Gelbooru's.                           *)
THEOREM BlocksAreFinal == Spec => []RecognisedBlockIsFinal
<1>1. Init => RecognisedInv
  BY DEF Init, RecognisedInv, BlockInv, BlockIsFinal
<1>2. TypeOK /\ RecognisedInv /\ [Next]_vars => RecognisedInv'
  <2> SUFFICES ASSUME TypeOK, BlockInv, kind # "gelbooru", [Next]_vars
               PROVE  BlockInv'
    BY KindStays DEF RecognisedInv
  <2>0. kind # "gelbooru"
    OBVIOUS
  <2>1. CASE Begin
    BY <2>1 DEF Begin, BlockInv, BlockIsFinal
  <2>2. CASE CheckHealth
    <3>1. PICK a \in Answer :
            /\ Request("recent_posts", a)
            /\ \/ /\ RaisedBy(a) = "source_access_blocked"
                  /\ Fail("source_access_blocked")
               \/ /\ RaisedBy(a) # "source_access_blocked"
                  /\ stage' = "statistics"
                  /\ UNCHANGED failure
      BY <2>2 DEF CheckHealth
    <3>2. stage \notin Ended
      BY <2>2 DEF CheckHealth, Ended
    <3> QED
      BY <2>0, <3>1, <3>2, BlockRaised, BlockStep
      DEF Fail, Endpoint, BlockInv, Ended
  <2>3. CASE FetchStatistics
    <3>1. PICK a \in Answer :
            /\ Request("total_posts", a)
            /\ \/ /\ RaisedBy(a) = "none"
                  /\ stage' = AfterStatistics
                  /\ UNCHANGED failure
               \/ RaisedBy(a) = "none" /\ Fail("hard_invalid")
               \/ RaisedBy(a) # "none" /\ Fail(RaisedBy(a))
      BY <2>3 DEF FetchStatistics
    <3>2. stage \notin Ended
      BY <2>3 DEF FetchStatistics, Ended
    <3> QED
      BY <2>0, <3>1, <3>2, BlockRaised, BlockStep
      DEF Fail, Endpoint, BlockInv, Ended, AfterStatistics
  <2>4. CASE FetchPosts
    <3>1. PICK a \in Answer :
            /\ Request("recent_posts", a)
            /\ \/ /\ RaisedBy(a) = "none"
                  /\ stage' = "accepted"
                  /\ UNCHANGED failure
               \/ RaisedBy(a) # "none" /\ Fail(RaisedBy(a))
      BY <2>4 DEF FetchPosts
    <3>2. stage \notin Ended
      BY <2>4 DEF FetchPosts, Ended
    <3> QED
      BY <2>0, <3>1, <3>2, BlockRaised, BlockStep
      DEF Fail, Endpoint, BlockInv, Ended
  <2>5. CASE AskFilter
    <3>1. PICK a \in Answer :
            /\ Request("counter_filter", a)
            /\ \/ RaisedBy(a) = "none" /\ UNCHANGED <<stage, failure>>
               \/ RaisedBy(a) = "none" /\ Fail("hard_invalid")
               \/ RaisedBy(a) # "none" /\ Fail(RaisedBy(a))
      BY <2>5 DEF AskFilter
    <3>2. stage \notin Ended
      BY <2>5 DEF AskFilter, Pending, Counting, Ended
    <3> QED
      BY <2>0, <3>1, <3>2, BlockRaised, BlockStep
      DEF Fail, Endpoint, BlockInv, Ended
  <2>6. CASE AskCount
    <3>1. PICK a \in Answer :
            /\ Request("total_posts", a)
            /\ \/ /\ RaisedBy(a) = "none"
                  /\ Return(a.total)
                  /\ UNCHANGED failure
               \/ RaisedBy(a) = "none" /\ Fail("hard_invalid")
               \/ RaisedBy(a) # "none" /\ Fail(RaisedBy(a))
      BY <2>6 DEF AskCount
    <3>2. stage \notin Ended
      BY <2>6 DEF AskCount, Pending, Counting, Ended
    <3> QED
      BY <2>0, <3>1, <3>2, BlockRaised, BlockStep
      DEF Fail, Return, Endpoint, BlockInv, Ended, AfterStatistics
  <2>7. CASE ReuseCount
    BY <2>7
    DEF ReuseCount, Return, AfterStatistics, BlockInv, BlockIsFinal, Blocked
  <2>8. CASE Interrupt
    <3>1. PICK e \in Pending : Request(e, NoResponse)
      BY <2>8 DEF Interrupt
    <3>2. e \in Endpoint /\ NoResponse \in Answer /\ ~Blocked(NoResponse)
      BY DEF Pending, Endpoint, Answer, NoResponse, Blocked
    <3>3. stage \notin Ended
      BY <3>1 DEF Pending, Counting, Ended
    <3> QED
      BY <2>8, <3>1, <3>2, <3>3, BlockStep DEF Interrupt, Fail
  <2>9. CASE UNCHANGED vars
    BY <2>9 DEF vars, BlockInv, BlockIsFinal, Blocked
  <2> QED
    BY <2>1, <2>2, <2>3, <2>4, <2>5, <2>6, <2>7, <2>8, <2>9 DEF Next
<1>3. RecognisedInv => RecognisedBlockIsFinal
  BY DEF RecognisedInv, BlockInv, RecognisedBlockIsFinal
<1> QED
  BY <1>1, <1>2, <1>3, TypeCorrectness, PTL DEF Spec

------------------------------------------------------------------------------
(* Counts and filters.                                                      *)

(* An inspection that still lacks its counter has not asked for it.         *)
CountInv ==
    /\ Counting => \A i \in DOMAIN asked : asked[i].endpoint # "total_posts"
    /\ CountedOnce

(* A counter is asked for at most once in a collection.                     *)
THEOREM CountersAreAskedOnce == Spec => []CountedOnce
<1>1. Init => CountInv
  BY DEF Init, CountInv, CountedOnce
<1>2. TypeOK /\ CountInv /\ [Next]_vars => CountInv'
  <2> SUFFICES ASSUME TypeOK, CountInv, [Next]_vars PROVE CountInv'
    OBVIOUS
  <2>1. ASSUME NEW e \in Endpoint, NEW a \in Answer, Request(e, a),
               kind' = kind, e = "total_posts" => ~Counting',
               kind \in CounterKind /\ e = "total_posts" => Counting,
               Counting' => Counting
        PROVE  CountInv'
    <3>1. /\ Len(asked) \in Nat
          /\ DOMAIN asked = 1 .. Len(asked)
          /\ DOMAIN asked' = 1 .. Len(asked) + 1
          /\ \A i \in 1 .. Len(asked) : asked'[i] = asked[i]
          /\ asked'[Len(asked) + 1].endpoint = e
      BY <2>1, EntriesGrow
    <3>2. CASE e # "total_posts"
      <4>1. \A i \in DOMAIN asked' : asked'[i].endpoint = "total_posts" =>
              i \in DOMAIN asked /\ asked[i].endpoint = "total_posts"
        BY <3>1, <3>2
      <4> QED
        BY <2>1, <4>1 DEF CountInv, CountedOnce
    <3>3. CASE e = "total_posts" /\ kind \in CounterKind
      <4>1. \A i \in DOMAIN asked' : asked'[i].endpoint = "total_posts" =>
              i = Len(asked) + 1
        BY <2>1, <3>1, <3>3 DEF CountInv
      <4> QED
        BY <2>1, <3>3, <4>1 DEF CountInv, CountedOnce
    <3>4. CASE e = "total_posts" /\ kind \notin CounterKind
      BY <2>1, <3>4 DEF CountInv, CountedOnce
    <3> QED
      BY <3>2, <3>3, <3>4
  <2>2. CASE Begin
    BY <2>2 DEF Begin, CountInv, CountedOnce
  <2>3. CASE CheckHealth
    <3>1. PICK a \in Answer : Request("recent_posts", a)
      BY <2>3 DEF CheckHealth
    <3> QED
      BY <2>1, <2>3, <3>1 DEF CheckHealth, Counting, Endpoint
  <2>4. CASE FetchStatistics
    <3>1. PICK a \in Answer : Request("total_posts", a)
      BY <2>4 DEF FetchStatistics
    <3> QED
      BY <2>1, <2>4, <3>1 DEF FetchStatistics, Counting, Endpoint
  <2>5. CASE FetchPosts
    <3>1. PICK a \in Answer :
            /\ Request("recent_posts", a)
            /\ stage' = "accepted" \/ Fail(RaisedBy(a))
      BY <2>5 DEF FetchPosts
    <3> QED
      BY <2>1, <2>5, <3>1 DEF FetchPosts, Counting, Endpoint, Fail
  <2>6. CASE AskFilter
    <3>1. PICK a \in Answer : Request("counter_filter", a)
      BY <2>6 DEF AskFilter
    <3>2. Counting
      BY <2>6 DEF AskFilter, Pending, CounterKind
    <3> QED
      BY <2>1, <2>6, <3>1, <3>2 DEF AskFilter, Endpoint
  <2>7. CASE AskCount
    <3>1. PICK a \in Answer :
            /\ Request("total_posts", a)
            /\ \/ cached' = {a.total}
               \/ Fail("hard_invalid")
               \/ Fail(RaisedBy(a))
      BY <2>7 DEF AskCount
    <3>2. Counting
      BY <2>7 DEF AskCount, Pending
    <3>3. ~Counting'
      BY <3>1 DEF Counting, Fail
    <3> QED
      BY <2>1, <2>7, <3>1, <3>2, <3>3 DEF AskCount, Endpoint
  <2>8. CASE ReuseCount
    <3>1. cached # {} /\ cached' = cached /\ asked' = asked /\ kind' = kind
      BY <2>8 DEF ReuseCount
    <3> QED
      BY <3>1 DEF CountInv, CountedOnce, Counting
  <2>9. CASE Interrupt
    <3>1. PICK e \in Pending : Request(e, NoResponse)
      BY <2>9 DEF Interrupt
    <3>2. e \in Endpoint /\ NoResponse \in Answer
      BY DEF Pending, Endpoint, Answer
    <3>3. kind \in CounterKind /\ e = "total_posts" => Counting
      BY DEF Pending
    <3>4. ~Counting' /\ kind' = kind
      BY <2>9 DEF Interrupt, Fail, Counting
    <3> QED
      BY <2>1, <3>1, <3>2, <3>3, <3>4
  <2>10. CASE UNCHANGED vars
    BY <2>10 DEF vars, CountInv, CountedOnce, Counting
  <2> QED
    BY <2>2, <2>3, <2>4, <2>5, <2>6, <2>7, <2>8, <2>9, <2>10 DEF Next
<1>3. CountInv => CountedOnce
  BY DEF CountInv
<1> QED
  BY <1>1, <1>2, <1>3, TypeCorrectness, PTL DEF Spec

(* While the filter counts as checked, its answer is the last one.          *)
OpenFilter(entry) ==
    /\ entry.endpoint = "counter_filter"
    /\ entry.answer.status = "success"
    /\ entry.answer.body = "ok"

FilterInv ==
    /\ kind = "filtered" /\ unrestricted /\ stage \notin Ended =>
        asked # <<>> /\ OpenFilter(asked[Len(asked)])
    /\ FilterCheckedFirst

(* A filtered count follows a check of its filter in the same collection.   *)
THEOREM FiltersAreChecked == Spec => []FilterCheckedFirst
<1>1. Init => FilterInv
  BY DEF Init, FilterInv, FilterCheckedFirst
<1>2. TypeOK /\ FilterInv /\ [Next]_vars => FilterInv'
  <2> SUFFICES ASSUME TypeOK, FilterInv, [Next]_vars
               PROVE  FilterInv'
    OBVIOUS
  <2>0. kind' = kind
    <3>1. /\ Begin => kind' = kind
          /\ CheckHealth => kind' = kind
          /\ FetchStatistics => kind' = kind
          /\ FetchPosts => kind' = kind
      BY DEF Begin, CheckHealth, FetchStatistics, FetchPosts
    <3>2. /\ AskFilter => kind' = kind
          /\ AskCount => kind' = kind
          /\ ReuseCount => kind' = kind
          /\ Interrupt => kind' = kind
      BY DEF AskFilter, AskCount, ReuseCount, Interrupt
    <3>3. UNCHANGED vars => kind' = kind
      BY DEF vars
    <3> QED
      BY <3>1, <3>2, <3>3 DEF Next
  <2> SUFFICES ASSUME kind = "filtered"
               PROVE  FilterInv'
    BY <2>0 DEF FilterInv, FilterCheckedFirst
  <2>1. ASSUME NEW e \in Endpoint, NEW a \in Answer, Request(e, a), kind' = kind,
               e = "total_posts" => unrestricted /\ stage \notin Ended,
               unrestricted' /\ stage' \notin Ended =>
                    OpenFilter([endpoint |-> e, answer |-> a])
        PROVE  FilterInv'
    <3>1. /\ Len(asked) \in Nat
          /\ Len(asked') = Len(asked) + 1
          /\ DOMAIN asked = 1 .. Len(asked)
          /\ DOMAIN asked' = 1 .. Len(asked) + 1
          /\ \A i \in 1 .. Len(asked) : asked'[i] = asked[i]
          /\ asked'[Len(asked) + 1].endpoint = e
          /\ asked'[Len(asked) + 1].answer = a
          /\ asked' # <<>>
      BY <2>1, EntriesGrow
    <3>2. unrestricted' /\ stage' \notin Ended => OpenFilter(asked'[Len(asked')])
      BY <2>1, <3>1 DEF OpenFilter
    <3>3. ASSUME NEW i \in DOMAIN asked', asked'[i].endpoint = "total_posts"
          PROVE  i > 1 /\ OpenFilter(asked'[i - 1])
      <4>1. CASE i \in DOMAIN asked
        <5>1. i > 1 /\ OpenFilter(asked[i - 1])
          BY <3>1, <3>3, <4>1 DEF FilterInv, FilterCheckedFirst, OpenFilter
        <5> QED
          BY <3>1, <4>1, <5>1
      <4>2. CASE i = Len(asked) + 1
        <5>1. asked # <<>> /\ OpenFilter(asked[Len(asked)])
          BY <2>1, <3>1, <3>3, <4>2 DEF FilterInv
        <5>2. Len(asked) > 0
          BY <3>1, <5>1 DEF TypeOK
        <5> QED
          BY <3>1, <4>2, <5>1, <5>2
      <4> QED
        BY <3>1, <4>1, <4>2
    <3> QED
      BY <3>1, <3>2, <3>3 DEF FilterInv, FilterCheckedFirst, OpenFilter
  <2>2. CASE Begin
    BY <2>2 DEF Begin, FilterInv, FilterCheckedFirst
  <2>3. CASE CheckHealth
    BY <2>3 DEF CheckHealth, CounterKind
  <2>4. CASE FetchStatistics
    BY <2>4 DEF FetchStatistics, CounterKind
  <2>5. CASE FetchPosts
    <3>1. PICK a \in Answer :
            /\ Request("recent_posts", a)
            /\ stage' = "accepted" \/ Fail(RaisedBy(a))
      BY <2>5 DEF FetchPosts
    <3>2. stage' \in Ended /\ kind' = kind
      BY <2>5, <3>1 DEF FetchPosts, Fail, Ended
    <3> QED
      BY <2>1, <3>1, <3>2 DEF Endpoint
  <2>6. CASE AskFilter
    <3>1. PICK a \in Answer :
            /\ Request("counter_filter", a)
            /\ \/ RaisedBy(a) = "none" /\ a.body = "ok"
               \/ Fail("hard_invalid")
               \/ Fail(RaisedBy(a))
      BY <2>6 DEF AskFilter
    <3>2. a.body = "ok" => a.status = "success"
      BY TotalReported
    <3>3. a.body = "ok" \/ stage' \in Ended
      BY <3>1 DEF Fail, Ended
    <3>4. kind' = kind
      BY <2>6 DEF AskFilter
    <3> QED
      BY <2>1, <3>1, <3>2, <3>3, <3>4 DEF Endpoint, OpenFilter
  <2>7. CASE AskCount
    <3>1. PICK a \in Answer :
            /\ Request("total_posts", a)
            /\ \/ unrestricted' = FALSE
               \/ Fail("hard_invalid")
               \/ Fail(RaisedBy(a))
      BY <2>7 DEF AskCount
    <3>2. unrestricted /\ stage \notin Ended
      BY <2>7 DEF AskCount, Pending, Counting, Ended, TypeOK
    <3>3. ~(unrestricted' /\ stage' \notin Ended) /\ kind' = kind
      BY <2>7, <3>1 DEF AskCount, Fail, Ended
    <3> QED
      BY <2>1, <3>1, <3>2, <3>3 DEF Endpoint
  <2>8. CASE ReuseCount
    <3>1. /\ asked' = asked /\ kind' = kind /\ unrestricted' = unrestricted
          /\ stage \notin Ended
      BY <2>8 DEF ReuseCount, Ended
    <3> QED
      BY <3>1 DEF FilterInv, FilterCheckedFirst, OpenFilter
  <2>9. CASE Interrupt
    <3>1. PICK e \in Pending : Request(e, NoResponse)
      BY <2>9 DEF Interrupt
    <3>2. e \in Endpoint /\ NoResponse \in Answer
      BY DEF Pending, Endpoint, Answer
    <3>3. e = "total_posts" => unrestricted /\ stage \notin Ended
      BY <3>1 DEF Pending, Counting, Ended, CounterKind, TypeOK
    <3>4. stage' \in Ended /\ kind' = kind
      BY <2>9 DEF Interrupt, Fail, Ended
    <3> QED
      BY <2>1, <3>1, <3>2, <3>3, <3>4
  <2>10. CASE UNCHANGED vars
    BY <2>10 DEF vars, FilterInv, FilterCheckedFirst, OpenFilter
  <2> QED
    BY <2>2, <2>3, <2>4, <2>5, <2>6, <2>7, <2>8, <2>9, <2>10 DEF Next
<1>3. FilterInv => FilterCheckedFirst
  BY DEF FilterInv
<1> QED
  BY <1>1, <1>2, <1>3, TypeCorrectness, PTL DEF Spec

------------------------------------------------------------------------------
(* What is accepted.                                                        *)

(* The total was the last count, and was answered.                          *)
Reported(totals) ==
    \E i \in DOMAIN asked :
        /\ asked[i].endpoint = "total_posts"
        /\ totals = {asked[i].answer.total}
        /\ asked[i].answer.body = "ok"
        /\ \A j \in DOMAIN asked : asked[j].endpoint = "total_posts" => j <= i

(* Only a health check went wrong.                                          *)
OnlyHealthFailed ==
    \A i \in DOMAIN asked :
        RaisedBy(asked[i].answer) # "none" =>
            i = 1 /\ health # "ok" /\ kind \notin CounterKind

(* An inspection under way has seen nothing go wrong but a health check;    *)
(* the counter kept and the total taken are those of the last count.        *)
ObservedInv ==
    /\ stage \in {"health", "statistics", "posts", "accepted"} => OnlyHealthFailed
    /\ stage = "health" /\ kind \notin CounterKind => asked = <<>>
    /\ kind \in CounterKind =>
        /\ stage # "posts"
        /\ stage \in {"health", "statistics"} /\ cached # {} => Reported(cached)
    /\ stage \in {"posts", "accepted"} => Reported(statistics)

(* A request for something else leaves the last count what it is, and one   *)
(* for the count that is answered becomes it.                               *)
LEMMA ReportedStep ==
    ASSUME TypeOK, NEW e \in Endpoint, NEW a \in Answer, Request(e, a)
    PROVE  /\ \A totals : e # "total_posts" /\ Reported(totals) => Reported(totals)'
           /\ e = "total_posts" /\ a.body = "ok" => Reported({a.total})'
<1> DEFINE n == Len(asked)
<1>1. /\ n \in Nat /\ DOMAIN asked = 1 .. n /\ DOMAIN asked' = 1 .. n + 1
      /\ \A i \in 1 .. n : asked'[i] = asked[i]
      /\ asked'[n + 1].endpoint = e /\ asked'[n + 1].answer = a
  BY EntriesGrow
<1> HIDE DEF n
<1>2. ASSUME NEW totals, e # "total_posts", Reported(totals)
      PROVE  Reported(totals)'
  <2>1. PICK i \in 1 .. n :
          /\ asked[i].endpoint = "total_posts"
          /\ totals = {asked[i].answer.total}
          /\ asked[i].answer.body = "ok"
          /\ \A j \in 1 .. n : asked[j].endpoint = "total_posts" => j <= i
    BY <1>1, <1>2 DEF Reported
  <2>2. i \in 1 .. n + 1 /\ asked'[i] = asked[i]
    BY <1>1
  <2>3. \A j \in 1 .. n + 1 : asked'[j].endpoint = "total_posts" => j \in 1 .. n
    BY <1>1, <1>2
  <2>4. \A j \in 1 .. n + 1 : asked'[j].endpoint = "total_posts" => j <= i
    BY <1>1, <2>1, <2>3
  <2> QED
    BY <1>1, <2>1, <2>2, <2>4 DEF Reported
<1>3. ASSUME e = "total_posts", a.body = "ok" PROVE Reported({a.total})'
  <2>1. n + 1 \in DOMAIN asked' /\ \A j \in DOMAIN asked' : j <= n + 1
    BY <1>1
  <2> QED
    BY <1>1, <1>3, <2>1 DEF Reported
<1> QED
  BY <1>2, <1>3

(* A request that goes well adds nothing that went wrong.                   *)
LEMMA GoodRequest ==
    ASSUME TypeOK, OnlyHealthFailed, NEW e \in Endpoint, NEW a \in Answer, Request(e, a),
           RaisedBy(a) = "none", kind' = kind, kind \in CounterKind \/ health' = health
    PROVE  OnlyHealthFailed'
<1>1. /\ Len(asked) \in Nat /\ DOMAIN asked = 1 .. Len(asked)
      /\ DOMAIN asked' = 1 .. Len(asked) + 1
      /\ \A i \in 1 .. Len(asked) : asked'[i] = asked[i]
      /\ asked'[Len(asked) + 1].answer = a
  BY EntriesGrow
<1>2. \A x : RaisedBy(x)' = RaisedBy(x)
  BY DEF RaisedBy, Blocked
<1>3. SUFFICES ASSUME NEW i \in DOMAIN asked', RaisedBy(asked'[i].answer) # "none"
               PROVE  i = 1 /\ health' # "ok" /\ kind' \notin CounterKind
  BY <1>2 DEF OnlyHealthFailed, RaisedBy
<1>4. i \in 1 .. Len(asked)
  BY <1>1, <1>3
<1>5. i = 1 /\ health # "ok" /\ kind \notin CounterKind
  BY <1>1, <1>3, <1>4 DEF OnlyHealthFailed
<1> QED
  BY <1>5

(* Every request, and every count that is kept, leaves what is accepted     *)
(* observed.                                                                *)
LEMMA ObservedNext ==
    ASSUME TypeOK, ObservedInv, [Next]_vars
    PROVE  ObservedInv'
<1>0. kind' = kind
  BY KindStays
<1>1. CASE Begin
  BY <1>1 DEF Begin, ObservedInv, OnlyHealthFailed
<1>2. CASE CheckHealth
  <2>1. PICK a \in Answer :
          /\ Request("recent_posts", a)
          /\ \/ Fail("source_access_blocked")
             \/ /\ stage' = "statistics"
                /\ RaisedBy(a) # "none" => health' # "ok"
    BY <1>2 DEF CheckHealth
  <2>2. asked = <<>> /\ kind \notin CounterKind
    BY <1>2 DEF CheckHealth, ObservedInv
  <2>3. CASE stage' = "failed"
    BY <1>0, <2>2, <2>3 DEF ObservedInv
  <2>4. CASE stage' = "statistics" /\ (RaisedBy(a) # "none" => health' # "ok")
    <3>1. DOMAIN asked' = 1 .. 1 /\ asked'[1].answer = a
      BY <2>1, <2>2, EntriesGrow DEF Endpoint
    <3>2. RaisedBy(a)' = RaisedBy(a)
      BY <1>0 DEF RaisedBy, Blocked
    <3>3. \A i \in DOMAIN asked' : i = 1
      BY <3>1
    <3>4. OnlyHealthFailed'
      BY <1>0, <2>2, <2>4, <3>1, <3>2, <3>3 DEF OnlyHealthFailed, RaisedBy, Blocked
    <3> QED
      BY <1>0, <2>2, <2>4, <3>4 DEF ObservedInv
  <2> QED
    BY <2>1, <2>3, <2>4 DEF Fail
<1>3. CASE FetchStatistics
  <2>1. PICK a \in Answer :
          /\ Request("total_posts", a)
          /\ \/ /\ RaisedBy(a) = "none" /\ a.body = "ok"
                /\ statistics' = {a.total}
                /\ stage' = AfterStatistics
                /\ UNCHANGED health
             \/ Fail("hard_invalid")
             \/ Fail(RaisedBy(a))
    BY <1>3 DEF FetchStatistics
  <2>2. kind \notin CounterKind /\ OnlyHealthFailed
    BY <1>3 DEF FetchStatistics, ObservedInv
  <2>3. CASE stage' = "failed"
    BY <1>0, <2>2, <2>3 DEF ObservedInv
  <2>4. CASE /\ RaisedBy(a) = "none" /\ a.body = "ok"
             /\ statistics' = {a.total} /\ stage' = AfterStatistics /\ UNCHANGED health
    <3>1. Reported({a.total})'
      BY <2>1, <2>4, ReportedStep DEF Endpoint
    <3>2. Reported(statistics)'
      BY <2>4, <3>1 DEF Reported
    <3>3. OnlyHealthFailed'
      BY <1>0, <2>1, <2>2, <2>4, GoodRequest DEF Endpoint
    <3>4. stage' = "posts"
      BY <2>2, <2>4 DEF AfterStatistics
    <3> QED
      BY <1>0, <2>2, <3>2, <3>3, <3>4 DEF ObservedInv
  <2> QED
    BY <2>1, <2>3, <2>4 DEF Fail
<1>4. CASE FetchPosts
  <2>1. PICK a \in Answer :
          /\ Request("recent_posts", a)
          /\ \/ /\ RaisedBy(a) = "none" /\ stage' = "accepted"
                /\ UNCHANGED <<health, statistics>>
             \/ Fail(RaisedBy(a))
    BY <1>4 DEF FetchPosts
  <2>2. kind \notin CounterKind /\ OnlyHealthFailed /\ Reported(statistics)
    BY <1>4 DEF FetchPosts, ObservedInv
  <2>3. CASE stage' = "failed"
    BY <1>0, <2>2, <2>3 DEF ObservedInv
  <2>4. CASE RaisedBy(a) = "none" /\ stage' = "accepted" /\ UNCHANGED <<health, statistics>>
    <3>1. PICK totals : totals = statistics
      OBVIOUS
    <3>2. Reported(totals)'
      BY <2>1, <2>2, <3>1, ReportedStep DEF Endpoint
    <3>3. Reported(statistics)'
      BY <2>4, <3>1, <3>2 DEF Reported
    <3>4. OnlyHealthFailed'
      BY <1>0, <2>1, <2>2, <2>4, GoodRequest DEF Endpoint
    <3> QED
      BY <1>0, <2>2, <2>4, <3>3, <3>4 DEF ObservedInv
  <2> QED
    BY <2>1, <2>3, <2>4 DEF Fail
<1>5. CASE AskFilter
  <2>1. PICK a \in Answer :
          /\ Request("counter_filter", a)
          /\ \/ RaisedBy(a) = "none" /\ UNCHANGED <<stage, cached, health>>
             \/ Fail("hard_invalid")
             \/ Fail(RaisedBy(a))
    BY <1>5 DEF AskFilter
  <2>2. /\ kind \in CounterKind /\ stage \in {"health", "statistics"} /\ cached = {}
        /\ OnlyHealthFailed
    BY <1>5 DEF AskFilter, Pending, Counting, CounterKind, ObservedInv
  <2>3. CASE stage' = "failed"
    BY <1>0, <2>2, <2>3 DEF ObservedInv
  <2>4. CASE RaisedBy(a) = "none" /\ UNCHANGED <<stage, cached, health>>
    <3>1. OnlyHealthFailed'
      BY <1>0, <2>1, <2>2, <2>4, GoodRequest DEF Endpoint
    <3> QED
      BY <1>0, <2>2, <2>4, <3>1 DEF ObservedInv
  <2> QED
    BY <2>1, <2>3, <2>4 DEF Fail
<1>6. CASE AskCount
  <2>1. PICK a \in Answer :
          /\ Request("total_posts", a)
          /\ \/ /\ RaisedBy(a) = "none" /\ a.body = "ok"
                /\ cached' = {a.total}
                /\ Return(a.total)
             \/ Fail("hard_invalid")
             \/ Fail(RaisedBy(a))
    BY <1>6 DEF AskCount
  <2>2. kind \in CounterKind /\ stage \in {"health", "statistics"} /\ OnlyHealthFailed
    BY <1>6 DEF AskCount, Pending, Counting, ObservedInv
  <2>3. CASE stage' = "failed"
    BY <1>0, <2>2, <2>3 DEF ObservedInv
  <2>4. CASE RaisedBy(a) = "none" /\ a.body = "ok" /\ cached' = {a.total} /\ Return(a.total)
    <3>1. Reported({a.total})'
      BY <2>1, <2>4, ReportedStep DEF Endpoint
    <3>2. Reported(cached)'
      BY <2>4, <3>1 DEF Reported
    <3>3. OnlyHealthFailed'
      BY <1>0, <2>1, <2>2, <2>4, GoodRequest DEF Endpoint
    <3>4. \/ stage' = "statistics"
          \/ stage' = "accepted" /\ statistics' = {a.total}
      BY <2>2, <2>4 DEF Return, AfterStatistics
    <3>5. stage' = "accepted" => Reported(statistics)'
      BY <3>1, <3>4 DEF Reported
    <3> QED
      BY <1>0, <2>2, <3>2, <3>3, <3>4, <3>5 DEF ObservedInv
  <2> QED
    BY <2>1, <2>3, <2>4 DEF Fail
<1>7. CASE ReuseCount
  <2>1. PICK total \in cached : Return(total)
    BY <1>7 DEF ReuseCount
  <2>2. /\ kind \in CounterKind /\ stage \in {"health", "statistics"} /\ OnlyHealthFailed
        /\ cached' = cached /\ asked' = asked /\ Reported(cached)
    BY <1>7, <2>1 DEF ReuseCount, ObservedInv
  <2>3. cached = {total}
    BY <2>1, <2>2 DEF Reported
  <2>4. Reported(cached)' /\ OnlyHealthFailed'
    BY <1>0, <2>2 DEF Reported, OnlyHealthFailed, RaisedBy, Blocked
  <2>5. \/ stage' = "statistics"
        \/ stage' = "accepted" /\ statistics' = cached'
    BY <2>1, <2>2, <2>3 DEF Return, AfterStatistics
  <2>6. stage' = "accepted" => Reported(statistics)'
    BY <2>4, <2>5 DEF Reported
  <2> QED
    BY <1>0, <2>2, <2>4, <2>5, <2>6 DEF ObservedInv
<1>8. CASE Interrupt
  <2>1. stage' = "failed"
    BY <1>8 DEF Interrupt, Fail
  <2> QED
    BY <2>1 DEF ObservedInv
<1>9. CASE UNCHANGED vars
  BY <1>9 DEF vars, ObservedInv, Reported, OnlyHealthFailed, RaisedBy, Blocked
<1> QED
  BY <1>1, <1>2, <1>3, <1>4, <1>5, <1>6, <1>7, <1>8, <1>9 DEF Next

(* An accepted inspection says what the source said in this collection,     *)
(* whatever the adapter kept and however its requests were answered.        *)
THEOREM AcceptanceIsEarned == Spec => []AcceptedIsObserved
<1>1. Init => ObservedInv
  BY DEF Init, ObservedInv
<1>2. TypeOK /\ ObservedInv /\ [Next]_vars => ObservedInv'
  BY ObservedNext
<1>3. ObservedInv => AcceptedIsObserved
  BY DEF ObservedInv, AcceptedIsObserved, Reported, OnlyHealthFailed
<1> QED
  BY <1>1, <1>2, <1>3, TypeCorrectness, PTL DEF Spec

------------------------------------------------------------------------------
(* The evidence.                                                            *)

Answered == {k \in DOMAIN asked : asked[k].answer # NoResponse}

(* Where the responses that left the fingerprints stand among the requests. *)
Places(place) ==
    /\ place \in [DOMAIN evidence -> Answered]
    /\ \A i, j \in DOMAIN evidence : i < j => place[i] < place[j]
    /\ \A k \in Answered : \E i \in DOMAIN evidence : place[i] = k
    /\ \A i \in DOMAIN evidence :
        /\ evidence[i].endpoint = asked[place[i]].endpoint
        /\ evidence[i].status = asked[place[i]].answer.status

(* An action makes one request, or none, or clears the evidence.            *)
LEMMA OneRequest ==
    ASSUME [Next]_vars
    PROVE  \/ asked' = <<>> /\ evidence' = <<>>
           \/ UNCHANGED <<asked, evidence>>
           \/ \E e \in Endpoint, a \in Answer : Request(e, a)
<1>1. CASE Begin
  BY <1>1 DEF Begin
<1>2. CASE CheckHealth \/ FetchPosts
  BY <1>2 DEF CheckHealth, FetchPosts, Endpoint
<1>3. CASE FetchStatistics \/ AskCount
  BY <1>3 DEF FetchStatistics, AskCount, Endpoint
<1>4. CASE AskFilter
  BY <1>4 DEF AskFilter, Endpoint
<1>5. CASE ReuseCount \/ UNCHANGED vars
  BY <1>5 DEF ReuseCount, vars
<1>6. CASE Interrupt
  BY <1>6 DEF Interrupt, Pending, Endpoint, Answer
<1> QED
  BY <1>1, <1>2, <1>3, <1>4, <1>5, <1>6 DEF Next

(* A response takes the place of its request, which is the last one; a      *)
(* request without a response takes none.                                   *)
LEMMA PlacesGrow ==
    ASSUME TypeOK, NEW e \in Endpoint, NEW a \in Answer, Request(e, a),
           NEW place, Places(place)
    PROVE  \E later : Places(later)'
<1> DEFINE n == Len(asked)
           m == Len(evidence)
<1>1. /\ n \in Nat /\ DOMAIN asked = 1 .. n /\ DOMAIN asked' = 1 .. n + 1
      /\ \A i \in 1 .. n : asked'[i] = asked[i]
      /\ asked'[n + 1].endpoint = e /\ asked'[n + 1].answer = a
  BY EntriesGrow
<1>2. m \in Nat /\ DOMAIN evidence = 1 .. m
  BY DEF TypeOK
<1>3. \A i \in 1 .. m : place[i] \in Answered /\ place[i] \in 1 .. n
  BY <1>1, <1>2 DEF Places, Answered
<1>4. CASE a = NoResponse
  <2>1. evidence' = evidence
    BY <1>4 DEF Request
  <2>2. Answered' = Answered
    BY <1>1, <1>4 DEF Answered
  <2>3. Places(place)'
    BY <1>1, <1>2, <1>3, <2>1, <2>2 DEF Places
  <2> QED
    BY <2>3
<1>5. CASE a # NoResponse
  <2>1. /\ DOMAIN evidence' = 1 .. m + 1
        /\ \A i \in 1 .. m : evidence'[i] = evidence[i]
        /\ evidence'[m + 1].endpoint = e /\ evidence'[m + 1].status = a.status
    <3>1. [endpoint |-> e, status |-> a.status] \in Fingerprint
      BY <1>5 DEF Answer, Response, Fingerprint
    <3>2. evidence' = Append(evidence, [endpoint |-> e, status |-> a.status])
      BY <1>5 DEF Request
    <3> QED
      BY <3>1, <3>2, Appended DEF TypeOK
  <2>2. Answered' = Answered \cup {n + 1}
    BY <1>1, <1>5 DEF Answered
  <2> DEFINE later == [i \in 1 .. m + 1 |-> IF i = m + 1 THEN n + 1 ELSE place[i]]
  <2>3. later[m + 1] = n + 1 /\ \A i \in 1 .. m : later[i] = place[i]
    BY <1>2
  <2>4. later \in [1 .. m + 1 -> Answered']
    BY <1>2, <1>3, <2>2
  <2> HIDE DEF later, n, m
  <2>5. \A i \in 1 .. m + 1 : i \in 1 .. m \/ i = m + 1
    BY <1>2
  <2>6. \A i, j \in 1 .. m + 1 : i < j => later[i] < later[j]
    <3>1. ASSUME NEW i \in 1 .. m + 1, NEW j \in 1 .. m + 1, i < j PROVE later[i] < later[j]
      <4>1. i \in 1 .. m
        BY <1>2, <3>1
      <4>2. CASE j \in 1 .. m
        BY <1>2, <2>3, <3>1, <4>1, <4>2 DEF Places
      <4>3. CASE j = m + 1
        BY <1>1, <1>3, <2>3, <4>1, <4>3
      <4> QED
        BY <2>5, <4>2, <4>3
    <3> QED
      BY <3>1
  <2>7. \A k \in Answered' : \E i \in 1 .. m + 1 : later[i] = k
    <3>1. ASSUME NEW k \in Answered PROVE \E i \in 1 .. m + 1 : later[i] = k
      <4>1. PICK i \in 1 .. m : place[i] = k
        BY <1>2, <3>1 DEF Places
      <4> QED
        BY <1>2, <2>3, <4>1
    <3>2. m + 1 \in 1 .. m + 1
      BY <1>2
    <3> QED
      BY <2>2, <2>3, <3>1, <3>2
  <2>8. ASSUME NEW i \in 1 .. m + 1
        PROVE  /\ evidence'[i].endpoint = asked'[later[i]].endpoint
               /\ evidence'[i].status = asked'[later[i]].answer.status
    <3>1. CASE i \in 1 .. m
      <4>1. /\ evidence[i].endpoint = asked[place[i]].endpoint
            /\ evidence[i].status = asked[place[i]].answer.status
        BY <1>2, <3>1 DEF Places
      <4>2. /\ evidence'[i] = evidence[i] /\ later[i] = place[i]
            /\ asked'[place[i]] = asked[place[i]]
        BY <1>1, <1>3, <2>1, <2>3, <3>1
      <4> QED
        BY <4>1, <4>2
    <3>2. CASE i = m + 1
      BY <1>1, <2>1, <2>3, <3>2
    <3> QED
      BY <2>5, <3>1, <3>2
  <2>9. PICK f : f = later
    OBVIOUS
  <2>10. Places(f)'
    BY <2>1, <2>4, <2>6, <2>7, <2>8, <2>9 DEF Places
  <2> QED
    BY <2>10
<1> QED
  BY <1>4, <1>5

(* The evidence of a collection is all of its responses in their order,     *)
(* whatever is answered, retried, cancelled or collected before it.         *)
THEOREM EvidenceOfAllResponses == Spec => []EvidenceIsComplete
<1> DEFINE Complete == \E place : Places(place)
<1>1. ASSUME Init PROVE Complete
  <2>1. Places(<<>>)
    BY <1>1 DEF Init, Places, Answered
  <2> QED
    BY <2>1
<1>2. ASSUME TypeOK, Complete, [Next]_vars PROVE Complete'
  <2>1. PICK place : Places(place)
    BY <1>2
  <2>2. CASE asked' = <<>> /\ evidence' = <<>>
    <3>1. Places(<<>>)'
      BY <2>2 DEF Places, Answered
    <3> QED
      BY <3>1
  <2>3. CASE UNCHANGED <<asked, evidence>>
    <3>1. Places(place)'
      BY <2>1, <2>3 DEF Places, Answered
    <3> QED
      BY <3>1
  <2>4. CASE \E e \in Endpoint, a \in Answer : Request(e, a)
    BY <1>2, <2>1, <2>4, PlacesGrow
  <2> QED
    BY <1>2, <2>2, <2>3, <2>4, OneRequest
<1>3. Complete => EvidenceIsComplete
  BY DEF Places, Answered, EvidenceIsComplete
<1> HIDE DEF Complete
<1> QED
  BY <1>1, <1>2, <1>3, TypeCorrectness, PTL DEF Spec

==============================================================================
