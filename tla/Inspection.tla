------------------------------ MODULE Inspection ------------------------------
(****************************************************************************)
(* One adapter and the inspections made with it: which requests are sent,   *)
(* what each answer does to the inspection, and what becomes of a failure.  *)
(* Sources: services/inspection.py (inspect), adapters/base.py,             *)
(* adapters/aggregate.py and counters.py (counter adapters),                *)
(* adapters/danbooru and adapters/gelbooru, services/quality.py             *)
(* (build_snapshot_candidate) and services/snapshot_collection.py           *)
(* (_classify_failure).                                                     *)
(*                                                                          *)
(* An action is one request with its answer, because the adapter does       *)
(* nothing between sending and receiving.  The source is free to answer     *)
(* every request differently.  How a body is parsed is abstracted to        *)
(* whether it holds what the request is for.                                *)
(****************************************************************************)
EXTENDS Naturals, Sequences

CONSTANTS
    Kinds,          \* the adapter families to consider
    Counts,         \* the totals a source may report
    MaxRounds       \* bound on the collections made with one adapter

(* Counter adapters request one counter ("aggregate"), or one counter after *)
(* a check of its search filter ("filtered").                               *)
AdapterKind == {"danbooru", "gelbooru", "aggregate", "filtered"}
CounterKind == {"aggregate", "filtered"}

ASSUME InspectionAssumption ==
    /\ Kinds \subseteq AdapterKind
    /\ Counts \subseteq Nat
    /\ MaxRounds \in Nat \ {0}

Endpoint == {"recent_posts", "total_posts", "counter_filter"}

(* A response: its status, the header cf-mitigated, and its body:           *)
(*   "ok"         what the request is for; a total, if it is for a total    *)
(*   "bare"       well-formed, without posts, counter or open filter        *)
(*   "malformed"  not what this API returns, such as a challenge page       *)
(* The body of an unsuccessful response is never read.                      *)
Body == {"ok", "bare", "malformed"}
Response ==
    [status : {"success"}, challenge : {FALSE}, body : Body, total : Counts]
    \cup
    [status : {"success", "forbidden", "error"}, challenge : BOOLEAN,
     body : {"malformed"}, total : {0}]

(* The transport failed or timed out, or the task was cancelled meanwhile.  *)
NoResponse ==
    [status |-> "none", challenge |-> FALSE, body |-> "malformed", total |-> 0]
Answer == Response \cup {NoResponse}

Entry == [endpoint : Endpoint, answer : Answer]
Fingerprint == [endpoint : Endpoint, status : {"success", "forbidden", "error"}]

VARIABLES
    kind,           \* the adapter's family
    round,          \* collections begun with this adapter
    stage,          \* where the inspection is
    unrestricted,   \* local of fetch_public_statistics: the filter was checked
    cached,         \* self._statistics of a counter adapter: {} or {total}
    health,         \* health_status
    statistics,     \* inspection.public_statistics: {} or {total}
    failure,        \* the quality flag the failure is recorded with
    evidence,       \* self._evidence: the responses, in order
    asked           \* history: the requests of this collection and their answers

vars == <<kind, round, stage, unrestricted, cached, health, statistics, failure,
          evidence, asked>>

Stage == {"new", "health", "statistics", "posts", "accepted", "failed"}
Ended == {"new", "accepted", "failed"}
Health == {"unknown", "ok", "invalid_response", "http_error"}
Flag == {"none", "source_access_blocked", "http_error", "hard_invalid",
         "cancelled"}

Init ==
    /\ kind \in Kinds
    /\ round = 0
    /\ stage = "new"
    /\ unrestricted = FALSE
    /\ cached = {}
    /\ health = "unknown"
    /\ statistics = {}
    /\ failure = "none"
    /\ evidence = <<>>
    /\ asked = <<>>

------------------------------------------------------------------------------
(* Helpers.                                                                 *)

Blocked(a) == a.status = "forbidden" \/ a.challenge

(* Faulty variant of RaisedBy: the status is judged before the block.       *)
RaisedByStatus(a) ==
    IF a.status # "success" THEN "http_error"
    ELSE IF kind # "gelbooru" /\ Blocked(a) THEN "source_access_blocked"
    ELSE IF a.body = "malformed" THEN "hard_invalid"
    ELSE "none"

(* What _get_json, _get_xml or _get_counter_response and the parsing of its *)
(* result raise, as _classify_failure records it.  _get_xml does not know   *)
(* blocks: a 403 is a status error and a challenge page is not XML.         *)
RaisedBy(a) ==
    IF kind # "gelbooru" /\ Blocked(a) THEN "source_access_blocked"
    ELSE IF a.status # "success" THEN "http_error"
    ELSE IF a.body = "malformed" THEN "hard_invalid"
    ELSE "none"

(* Faulty variant of Request: only usable responses leave evidence.         *)
RequestUsable(endpoint, a) ==
    /\ asked' = Append(asked, [endpoint |-> endpoint, answer |-> a])
    /\ evidence' = IF RaisedBy(a) # "none" THEN evidence
                   ELSE Append(evidence,
                               [endpoint |-> endpoint, status |-> a.status])

(* One request: a response leaves its fingerprint before it is judged.      *)
Request(endpoint, a) ==
    /\ asked' = Append(asked, [endpoint |-> endpoint, answer |-> a])
    /\ evidence' = IF a = NoResponse THEN evidence
                   ELSE Append(evidence,
                               [endpoint |-> endpoint, status |-> a.status])

(* The exception leaves inspect and collect records it.                     *)
Fail(flag) ==
    /\ stage' = "failed"
    /\ failure' = flag
    /\ UNCHANGED <<unrestricted, cached, health, statistics>>

(* discover_capabilities decides what is asked after the statistics.        *)
AfterStatistics == IF kind \in CounterKind THEN "accepted" ELSE "posts"

(* fetch_public_statistics of a counter adapter returns to its caller.      *)
Return(total) ==
    \/ /\ stage = "health"
       /\ stage' = "statistics"
       /\ health' = "ok"
       /\ UNCHANGED statistics
    \/ /\ stage = "statistics"
       /\ stage' = AfterStatistics
       /\ statistics' = {total}
       /\ UNCHANGED health

(* A counter adapter has no counter yet and needs one.                      *)
Counting ==
    kind \in CounterKind /\ stage \in {"health", "statistics"} /\ cached = {}

(* The request the inspection is about to make, if it needs one.            *)
Pending ==
    IF kind \in CounterKind
    THEN {e \in {"total_posts", "counter_filter"} :
            Counting /\ (e = "counter_filter" <=> kind = "filtered" /\ ~unrestricted)}
    ELSE {e \in {"total_posts", "recent_posts"} :
            stage \notin Ended /\ (e = "total_posts" <=> stage = "statistics")}

------------------------------------------------------------------------------
(* Faulty variants of the actions: mistakes the properties must tell from   *)
(* the code.  None of them is part of Next.                                 *)

(* The evidence is cleared and the counter is not.                          *)
BeginKeepsCount ==
    /\ stage \in Ended
    /\ round < MaxRounds
    /\ round' = round + 1
    /\ stage' = "health"
    /\ evidence' = <<>>
    /\ asked' = <<>>
    /\ unrestricted' = FALSE
    /\ health' = "unknown"
    /\ statistics' = {}
    /\ failure' = "none"
    /\ UNCHANGED <<kind, cached>>

(* The counter is parsed and not kept.                                      *)
AskCountAgain ==
    /\ kind \in CounterKind
    /\ "total_posts" \in Pending
    /\ \E a \in Answer :
        /\ Request("total_posts", a)
        /\ \/ /\ RaisedBy(a) = "none" /\ a.body = "ok"
              /\ unrestricted' = FALSE
              /\ Return(a.total)
              /\ UNCHANGED <<cached, failure>>
           \/ /\ RaisedBy(a) = "none" /\ a.body = "bare"
              /\ Fail("hard_invalid")
           \/ /\ RaisedBy(a) # "none"
              /\ Fail(RaisedBy(a))
    /\ UNCHANGED <<kind, round>>

(* Any well-formed filter will do.                                          *)
AskFilterLeniently ==
    /\ "counter_filter" \in Pending
    /\ \E a \in Answer :
        /\ Request("counter_filter", a)
        /\ \/ /\ RaisedBy(a) = "none"
              /\ unrestricted' = TRUE
              /\ UNCHANGED <<stage, failure, cached, health, statistics>>
           \/ /\ RaisedBy(a) # "none"
              /\ Fail(RaisedBy(a))
    /\ UNCHANGED <<kind, round>>

(* A count that cannot be read is taken for none.                           *)
FetchStatisticsLeniently ==
    /\ kind \notin CounterKind
    /\ stage = "statistics"
    /\ \E a \in Answer :
        /\ Request("total_posts", a)
        /\ \/ /\ RaisedBy(a) \in {"none", "hard_invalid"}
              /\ statistics' = {a.total}
              /\ stage' = AfterStatistics
              /\ UNCHANGED <<unrestricted, cached, health, failure>>
           \/ /\ RaisedBy(a) \notin {"none", "hard_invalid"}
              /\ Fail(RaisedBy(a))
    /\ UNCHANGED <<kind, round>>

------------------------------------------------------------------------------
(* Actions.                                                                 *)

(* collect: clear_request_evidence, which also forgets the counter.  Each   *)
(* collection of the service begins so, whether the adapter is new or not.  *)
Begin ==
    /\ stage \in Ended
    /\ round < MaxRounds
    /\ round' = round + 1
    /\ stage' = "health"
    /\ evidence' = <<>>
    /\ asked' = <<>>
    /\ cached' = {}
    /\ unrestricted' = FALSE
    /\ health' = "unknown"
    /\ statistics' = {}
    /\ failure' = "none"
    /\ UNCHANGED kind

(* health_check of the full adapters: everything but a block is a status.   *)
(* A response without posts is healthy for Gelbooru, where the root element *)
(* suffices, and not for Danbooru, which looks at the first post.           *)
CheckHealth ==
    /\ kind \notin CounterKind
    /\ stage = "health"
    /\ \E a \in Answer :
        /\ Request("recent_posts", a)
        /\ \/ /\ RaisedBy(a) = "source_access_blocked"
              /\ Fail("source_access_blocked")
           \/ /\ RaisedBy(a) # "source_access_blocked"
              /\ stage' = "statistics"
              /\ health' =
                    IF RaisedBy(a) = "none" /\ (a.body = "ok" \/ kind = "gelbooru")
                    THEN "ok"
                    ELSE IF a.status \in {"success", "none"}
                    THEN "invalid_response"
                    ELSE "http_error"
              /\ UNCHANGED <<unrestricted, cached, statistics, failure>>
    /\ UNCHANGED <<kind, round>>

(* fetch_public_statistics of the full adapters.                            *)
FetchStatistics ==
    /\ kind \notin CounterKind
    /\ stage = "statistics"
    /\ \E a \in Answer :
        /\ Request("total_posts", a)
        /\ \/ /\ RaisedBy(a) = "none" /\ a.body = "ok"
              /\ statistics' = {a.total}
              /\ stage' = AfterStatistics
              /\ UNCHANGED <<unrestricted, cached, health, failure>>
           \/ /\ RaisedBy(a) = "none" /\ a.body = "bare"
              /\ Fail("hard_invalid")
           \/ /\ RaisedBy(a) # "none"
              /\ Fail(RaisedBy(a))
    /\ UNCHANGED <<kind, round>>

(* fetch_recent_posts; no posts are fine.  The tags follow without any      *)
(* request, because the collection names none (tag_names=None).             *)
FetchPosts ==
    /\ stage = "posts"
    /\ \E a \in Answer :
        /\ Request("recent_posts", a)
        /\ \/ /\ RaisedBy(a) = "none"
              /\ stage' = "accepted"
              /\ UNCHANGED <<unrestricted, cached, health, statistics, failure>>
           \/ /\ RaisedBy(a) # "none"
              /\ Fail(RaisedBy(a))
    /\ UNCHANGED <<kind, round>>

(* UnfilteredPhilomenaAdapter: the filter of the count is read first.       *)
AskFilter ==
    /\ "counter_filter" \in Pending
    /\ \E a \in Answer :
        /\ Request("counter_filter", a)
        /\ \/ /\ RaisedBy(a) = "none" /\ a.body = "ok"
              /\ unrestricted' = TRUE
              /\ UNCHANGED <<stage, failure, cached, health, statistics>>
           \/ /\ RaisedBy(a) = "none" /\ a.body = "bare"
              /\ Fail("hard_invalid")
           \/ /\ RaisedBy(a) # "none"
              /\ Fail(RaisedBy(a))
    /\ UNCHANGED <<kind, round>>

(* fetch_public_statistics of a counter adapter, called by health_check or  *)
(* by inspect: the counter is asked for and kept.                           *)
AskCount ==
    /\ kind \in CounterKind
    /\ "total_posts" \in Pending
    /\ \E a \in Answer :
        /\ Request("total_posts", a)
        /\ \/ /\ RaisedBy(a) = "none" /\ a.body = "ok"
              /\ cached' = {a.total}
              /\ unrestricted' = FALSE
              /\ Return(a.total)
              /\ UNCHANGED failure
           \/ /\ RaisedBy(a) = "none" /\ a.body = "bare"
              /\ Fail("hard_invalid")
           \/ /\ RaisedBy(a) # "none"
              /\ Fail(RaisedBy(a))
    /\ UNCHANGED <<kind, round>>

(* The counter kept is returned without a request.                          *)
ReuseCount ==
    /\ kind \in CounterKind
    /\ stage \in {"health", "statistics"}
    /\ \E total \in cached : Return(total)
    /\ UNCHANGED <<kind, round, unrestricted, cached, failure, evidence, asked>>

(* The task is cancelled while a request is under way: no handler of the    *)
(* adapters or of inspect catches it.                                       *)
Interrupt ==
    /\ \E endpoint \in Pending : Request(endpoint, NoResponse)
    /\ Fail("cancelled")
    /\ UNCHANGED <<kind, round>>

Next ==
    \/ Begin
    \/ CheckHealth
    \/ FetchStatistics
    \/ FetchPosts
    \/ AskFilter
    \/ AskCount
    \/ ReuseCount
    \/ Interrupt

Spec == Init /\ [][Next]_vars

------------------------------------------------------------------------------
(* Properties.                                                              *)

(* Every variable has its type.                                             *)
TypeOK ==
    /\ kind \in Kinds
    /\ round \in 0 .. MaxRounds
    /\ stage \in Stage
    /\ unrestricted \in BOOLEAN
    /\ cached \in SUBSET Counts
    /\ health \in Health
    /\ statistics \in SUBSET Counts
    /\ failure \in Flag
    /\ evidence \in Seq(Fingerprint)
    /\ asked \in Seq(Entry)

(* A block, by status or by challenge, ends the inspection at once, is      *)
(* recorded as source_access_blocked, and nothing is asked after it.  The   *)
(* other way round, nothing else is recorded so.  The documents say this of *)
(* every adapter.                                                           *)
BlockIsFinal ==
    /\ \A i \in DOMAIN asked : Blocked(asked[i].answer) =>
        /\ i = Len(asked)
        /\ stage = "failed"
        /\ failure = "source_access_blocked"
    /\ failure = "source_access_blocked" =>
        asked # <<>> /\ Blocked(asked[Len(asked)].answer)

(* The same of the adapters that look for blocks: _is_source_access_blocked *)
(* in danbooru/adapter.py and aggregate.py.                                 *)
RecognisedBlockIsFinal == kind # "gelbooru" => BlockIsFinal

(* A counter adapter asks for its counter at most once in a collection,     *)
(* however often the inspection needs it and whatever is answered.          *)
CountedOnce ==
    kind \in CounterKind =>
        \A i, j \in DOMAIN asked :
            asked[i].endpoint = "total_posts" /\ asked[j].endpoint = "total_posts"
                => i = j

(* What an accepted inspection says was said by the source in this          *)
(* collection: the total is that of the last count it answered, and of all  *)
(* the requests only a health check may have gone wrong, which the health   *)
(* status then shows.                                                       *)
AcceptedIsObserved ==
    stage = "accepted" =>
        /\ \E i \in DOMAIN asked :
            /\ asked[i].endpoint = "total_posts"
            /\ statistics = {asked[i].answer.total}
            /\ asked[i].answer.body = "ok"
            /\ \A j \in DOMAIN asked : asked[j].endpoint = "total_posts" => j <= i
        /\ \A i \in DOMAIN asked :
            RaisedBy(asked[i].answer) # "none" =>
                i = 1 /\ health # "ok" /\ kind \notin CounterKind

(* A filtered count is asked for only right after this same collection saw  *)
(* that its filter hides nothing.                                           *)
FilterCheckedFirst ==
    kind = "filtered" =>
        \A i \in DOMAIN asked : asked[i].endpoint = "total_posts" =>
            /\ i > 1
            /\ asked[i - 1].endpoint = "counter_filter"
            /\ asked[i - 1].answer.status = "success"
            /\ asked[i - 1].answer.body = "ok"

(* The evidence kept of a collection is every response it received, in      *)
(* order, those that made it fail included, and nothing of an earlier one:  *)
(* each fingerprint has its place among the requests that were answered.    *)
EvidenceIsComplete ==
    LET answered == {k \in DOMAIN asked : asked[k].answer # NoResponse}
    IN  \E place \in [DOMAIN evidence -> answered] :
            /\ \A i, j \in DOMAIN evidence : i < j => place[i] < place[j]
            /\ \A k \in answered : \E i \in DOMAIN evidence : place[i] = k
            /\ \A i \in DOMAIN evidence :
                /\ evidence[i].endpoint = asked[place[i]].endpoint
                /\ evidence[i].status = asked[place[i]].answer.status

==============================================================================
