--------------------------- MODULE ShoppingAgent ---------------------------
(***************************************************************************)
(* One request to the shopping agent while the catalogue changes under it. *)
(* kind says which route was called:                                       *)
(*   "shopping", "sessions"  ShoppingAgentGraph, whole result or its state *)
(*   "query"                 ShoppingAgentRunner, the older pipeline       *)
(*   "client"                /intent any number of times, then /discover,  *)
(*                           /filter and /rank with what came back         *)
(* A run shares only the catalogue with others and holds no lock, so a     *)
(* behaviour has one.  Its session and task rows are SessionStore's.       *)
(* What the graph catches with "except Exception" is raised here by choice *)
(* (raises), except in the ranking, where the data decides.                *)
(***************************************************************************)
EXTENDS RankingEngine, Sequences

Lists == INSTANCE SequencesExt

CONSTANTS
    MerchantOrder,   \* SUPPORTED_MERCHANTS as the list it is
    Named,           \* the lists of supported merchants, each once, that a client
                     \* may name in /discover
    Shelves,         \* Shelves[p]: the values of the columns that change
    FirstShelf,
    MaxTurns,        \* bound on a client's conversation
    MaxChanges       \* bound on the catalogue's changes during a run

MaxRetries == 2

ASSUME OrderAssumption ==
    /\ \A list \in Named \union {MerchantOrder} :
        /\ list \in Seq(Merchants)
        /\ \A k, n \in DOMAIN list : list[k] = list[n] => k = n

ASSUME ShelvesAssumption ==
    /\ DOMAIN FirstShelf = Products
    /\ \A p \in Products :
        /\ FirstShelf[p] \in Shelves[p]
        /\ \A v \in Shelves[p] :
            /\ v.price \in Int /\ v.active \in BOOLEAN
            /\ v.stock # None => v.stock.quantity \in Nat
                                /\ v.stock.state = compute_state(v.stock.quantity)

\* Whatever a request may read of the catalogue, and its scores.
Candidates ==
    UNION {UNION {{OfSummary(Row(p, v)), OfDetail(Row(p, v))} : v \in Shelves[p]} : p \in Products}
ScoreRows ==
    [candidate : Candidates, overall : Int, value : Int,
     score : [price : Int, specification : Int, delivery : Int, rating : Int,
              discount : Int, inventory : Int]]

ASSUME NoneAssumption ==
    None \notin Int /\ None \notin ScoreRows /\ None \notin Seq(ScoreRows) /\ None # "NO_MATCH"

VARIABLES
    shelf,     \* shelf[p]: price, stock and active of the product's row
    talk,      \* the client's conversation: its messages and its last intent
    run,       \* ShoppingAgentState, None before a request
    past       \* past[p]: what shelf[p] has been since the request came

vars == <<shelf, talk, run, past>>

Silence == [messages |-> <<>>, intent |-> NoWishes]

Graph == {"shopping", "sessions"}
Steps == <<"DISCOVER", "NORMALIZE", "APPLY_CONSTRAINTS", "RANK", "RECOMMEND", "COMPLETE">>

Init ==
    /\ shelf = FirstShelf
    /\ talk = Silence
    /\ run = None
    /\ past = [p \in Products |-> {}]

-----------------------------------------------------------------------------
(* The nodes of the graph, from state to state.                            *)

create_initial_state(kind) ==
    [kind |-> kind, stage |-> "discover", intent |-> NoWishes, status |-> "PENDING",
     plan |-> <<>>, done |-> {}, planStatus |-> "PLANNED",
     pending |-> <<>>, answered |-> {}, down |-> {}, retries |-> 0,
     products |-> {}, ranked |-> None, advice |-> None, errors |-> {}, result |-> None]

validate_intent_node(s, m) ==
    LET i == parse_intent(m, NoWishes) IN
    IF i = None
    THEN [s EXCEPT !.errors = {"INTENT_INVALID"}, !.status = "FAILED"]
    ELSE [s EXCEPT !.intent = i, !.status = "VALIDATED"]

\* AgentPlanner.create_plan; every action it names is an allowed one.
plan_node(s) ==
    CASE s.status = "FAILED" -> s
      [] OTHER -> [s EXCEPT !.status = "PLANNING",
                            !.plan = IF s.intent.ambiguous THEN <<"REQUEST_CLARIFICATION">>
                                                           ELSE Steps]

clarification_node(s) ==
    [s EXCEPT !.status = "CLARIFICATION_REQUIRED", !.done = {"REQUEST_CLARIFICATION"}]

\* The merchants that discovery asks, in this order.
Asked(i, named) ==
    LET asked[n \in 0 .. Len(MerchantOrder)] ==
            IF n = 0 THEN <<>>
            ELSE IF MerchantOrder[n] \in Targets(i) THEN Append(asked[n - 1], MerchantOrder[n])
            ELSE asked[n - 1]
    IN  IF named # <<>> THEN named ELSE asked[Len(MerchantOrder)]

route_plan_node(s) ==
    CASE s.status = "FAILED" -> [s EXCEPT !.stage = "answer"]
      [] s.plan = Steps -> [s EXCEPT !.pending = Asked(s.intent, <<>>)]
      [] OTHER -> [clarification_node(s) EXCEPT !.stage = "recommend"]

Completed(s, steps) ==
    IF s.kind \in Graph THEN [s EXCEPT !.done = @ \union steps] ELSE s

\* The graph notes what a node raises and goes on; elsewhere the request fails.
Raised(s, error, next) ==
    IF s.kind \in Graph
    THEN [s EXCEPT !.errors = @ \union {error}, !.stage = next]
    ELSE [s EXCEPT !.stage = "answered", !.result = "ERROR"]

\* A mutant of EndOfDiscovery: the retries are not counted.
RetryForEver(s, raises) ==
    IF raises THEN [s EXCEPT !.products = {}, !.answered = {}, !.down = {},
                             !.pending = Asked(s.intent, <<>>)]
    ELSE [Completed(s, {"DISCOVER"}) EXCEPT !.status = "DISCOVERING", !.stage = "filter"]

\* The end of DiscoveryService.discover within discovery_node's loop.
EndOfDiscovery(s, raises) ==
    LET again == [s EXCEPT !.retries = @ + 1, !.products = {}, !.answered = {}, !.down = {}]
    IN CASE ~raises ->
              [Completed(s, {"DISCOVER", "NORMALIZE"})
                 EXCEPT !.status = "DISCOVERING", !.stage = "filter"]
         [] raises /\ s.kind \notin Graph -> Raised(s, "DISCOVERY_FAILED", "answered")
         [] OTHER ->
              IF again.retries <= MaxRetries
              THEN [again EXCEPT !.pending = Asked(s.intent, <<>>)]
              ELSE [Raised(again, "DISCOVERY_FAILED", "answer") EXCEPT !.status = "FAILED"]

apply_hard_constraints_node(s, raises) ==
    IF raises THEN Raised(s, "CONSTRAINT_FILTER_FAILED", "rank")
    ELSE [Completed(s, {"APPLY_CONSTRAINTS"})
            EXCEPT !.products = filter_products(s.products, s.intent), !.stage = "rank"]

rank_products_node(s) ==
    IF Unrankable(s.products) THEN Raised(s, "RANKING_FAILED", "recommend")
    ELSE [Completed(s, {"RANK"})
            EXCEPT !.ranked = rank_products(s.products, s.intent), !.stage = "recommend"]

Partial(s) == s.answered # {} /\ s.down # {}

NoAdvice ==
    [top |-> None, value |-> None, fastest |-> None, others |-> <<>>, authorization |-> FALSE]

\* build_recommendation_result; the runner's fastest falls back to its top.
build_recommendation_result(s) ==
    IF s.ranked = None \/ s.ranked = <<>> THEN NoAdvice
    ELSE LET fastest == FastestDelivery(s.ranked)
             last    == IF s.kind = "query" \/ Len(s.ranked) < 6 THEN Len(s.ranked) ELSE 6
         IN [top |-> s.ranked[1], value |-> BestValue(s.ranked),
             fastest |-> IF fastest = None /\ s.kind = "query" THEN s.ranked[1] ELSE fastest,
             others |-> SubSeq(s.ranked, 2, last), authorization |-> TRUE]

generate_recommendation_node(s, raises) ==
    LET advice == build_recommendation_result(s) IN
    IF raises THEN Raised(s, "RECOMMENDATION_FAILED", "answer")
    ELSE [Completed(s, {IF s.status = "CLARIFICATION_REQUIRED" THEN "REQUEST_CLARIFICATION"
                                                                ELSE "RECOMMEND"})
            EXCEPT !.advice = advice, !.stage = "answer",
                   !.status = IF advice.top = None /\ @ # "CLARIFICATION_REQUIRED"
                              THEN "NO_MATCH" ELSE @]

\* A mutant of complete_node: a failed plan is called complete.
CompleteAnyway(s) == [s EXCEPT !.planStatus = "COMPLETED"]

complete_node(s) ==
    IF s.status \in {"FAILED", "CLARIFICATION_REQUIRED", "NO_MATCH"} THEN s
    ELSE [s EXCEPT !.status = "COMPLETED", !.planStatus = "COMPLETED"]

\* The top-level status of run_shopping_agent.
FinalStatus(s) ==
    CASE s.status = "FAILED" -> "FAILED"
      [] s.status = "CLARIFICATION_REQUIRED" -> "NEEDS_CLARIFICATION"
      [] OTHER -> IF s.status = "NO_MATCH" \/ s.advice.top = None THEN "NO_MATCH"
                  ELSE IF Partial(s) THEN "PARTIAL_RESULTS" ELSE "COMPLETED"

-----------------------------------------------------------------------------
(* The routes.                                                             *)

Seen == [p \in Products |-> {shelf[p]}]

\* POST /agent/intent with the previous intent: an invalid one is refused.
Converse(m) ==
    /\ run = None /\ Len(talk.messages) < MaxTurns
    /\ parse_intent(m, talk.intent) # None
    /\ talk' = [messages |-> Append(talk.messages, m),
                intent |-> parse_intent(m, talk.intent)]
    /\ UNCHANGED <<shelf, run, past>>

\* POST /agent/shopping, /agent/sessions.
StartGraph(kind, m) ==
    /\ run = None
    /\ run' = route_plan_node(plan_node(validate_intent_node(create_initial_state(kind), m)))
    /\ past' = Seen
    /\ talk' = Silence
    /\ UNCHANGED shelf

\* POST /agent/query: an ambiguous message is answered at once.
StartQuery(m) ==
    /\ run = None
    /\ LET i == parse_intent(m, NoWishes)
           s == create_initial_state("query")
       IN run' = CASE i = None -> Raised(s, "INTENT_INVALID", "answered")
                   [] OTHER ->
                        IF i.ambiguous
                        THEN [s EXCEPT !.intent = i, !.advice = NoAdvice,
                                       !.stage = "answered", !.result = "ANSWERED"]
                        ELSE [s EXCEPT !.intent = i, !.stage = "search"]
    /\ past' = Seen
    /\ talk' = Silence
    /\ UNCHANGED shelf

\* POST /agent/discover with the intent of the conversation.
StartClient(named) ==
    /\ run = None /\ talk # Silence
    /\ run' = [create_initial_state("client")
                 EXCEPT !.intent = talk.intent, !.pending = Asked(talk.intent, named)]
    /\ past' = Seen
    /\ UNCHANGED <<shelf, talk>>

Reached(stage) == run # None /\ run.stage = stage
Becomes(next)  == run' = next /\ UNCHANGED <<shelf, talk, past>>

RowsOf(merchants) ==
    {Row(p, shelf[p]) : p \in {q \in Products : Listing[q].merchant \in merchants}}

\* One merchant of discover's loop; an exception there only loses the merchant.
QueryMerchant ==
    /\ Reached("discover") /\ run.pending # <<>>
    /\ LET m    == Head(run.pending)
           next == [run EXCEPT !.pending = Tail(@)]
       IN \/ \E page \in Pages(RowsOf({m}), run.intent) :
                Becomes([next EXCEPT !.answered = @ \union {m},
                                     !.products = @ \union Normalized(page)])
          \/ Becomes([next EXCEPT !.down = @ \union {m}])

FinishDiscovery(raises) ==
    /\ Reached("discover") /\ run.pending = <<>>
    /\ Becomes(EndOfDiscovery(run, raises))

\* The runner's only search; pending becomes the items whose details follow.
Search ==
    /\ Reached("search")
    /\ \E page \in Pages(RowsOf(Merchants), Unbounded) :
          Becomes([run EXCEPT !.pending = Lists!SetToSeq(page), !.stage = "details"])

\* The detail is a new read of the row, for which the database session may hand
\* out the values that the search loaded; without one the summary is used.
ReadDetail ==
    /\ Reached("details") /\ run.pending # <<>>
    /\ LET item == Head(run.pending)
           now  == Row(item.id, shelf[item.id])
           next == [run EXCEPT !.pending = Tail(@)]
       IN \E row \in IF now.active THEN {now, item} ELSE {item} :
              Becomes(
                  IF Malformed(row) THEN Raised(run, "MALFORMED", "answered")
                  ELSE [next EXCEPT !.products = @ \union
                          {IF now.active THEN OfDetail(row) ELSE OfSummary(row)}])

FinishDetails ==
    /\ Reached("details") /\ run.pending = <<>>
    /\ Becomes([run EXCEPT !.stage = "filter"])

Filter(raises) == Reached("filter") /\ Becomes(apply_hard_constraints_node(run, raises))
Rank           == Reached("rank") /\ Becomes(rank_products_node(run))
\* For a client: the best products that the answer of /rank names.
Recommend(raises) ==
    /\ Reached("recommend") /\ (raises => run.kind # "client")
    /\ Becomes(generate_recommendation_node(run, raises))

\* complete_node and the answer; run_shopping_agent builds missing advice anew,
\* where the exception of the first time may come again.
Answer(raises) ==
    /\ Reached("answer")
    /\ raises => run.kind = "shopping" /\ "RECOMMENDATION_FAILED" \in run.errors
    /\ LET s == IF run.kind \in Graph THEN complete_node(run) ELSE run
           t == IF s.advice = None THEN [s EXCEPT !.advice = build_recommendation_result(s)]
                                   ELSE s
       IN Becomes(
              CASE raises -> [s EXCEPT !.stage = "answered", !.result = "ERROR"]
                [] ~raises /\ s.kind = "shopping" ->
                     [t EXCEPT !.stage = "answered", !.result = FinalStatus(t)]
                [] ~raises /\ s.kind = "sessions" ->
                     [s EXCEPT !.stage = "answered", !.result = s.status]
                [] OTHER -> [s EXCEPT !.stage = "answered", !.result = "ANSWERED"])

\* Orders, restocking and merchants change the rows.
Changes == {p \in Products : Cardinality(past[p]) > 1}

ChangeShelf(p, v) ==
    /\ run # None /\ run.stage \in {"discover", "details"}
    /\ Cardinality(Changes) < MaxChanges /\ v \notin past[p]
    /\ shelf' = [shelf EXCEPT ![p] = v]
    /\ past' = [past EXCEPT ![p] = @ \union {v}]
    /\ UNCHANGED <<talk, run>>

Advance ==
    \/ QueryMerchant \/ Search \/ ReadDetail \/ FinishDetails \/ Rank
    \/ \E raises \in BOOLEAN :
          FinishDiscovery(raises) \/ Filter(raises) \/ Recommend(raises) \/ Answer(raises)

Next ==
    \/ \E m \in Messages : Converse(m) \/ StartQuery(m)
    \/ \E kind \in Graph, m \in Messages : StartGraph(kind, m)
    \/ \E named \in Named : StartClient(named)
    \/ Advance
    \/ \E p \in Products : \E v \in Shelves[p] : ChangeShelf(p, v)

Spec == Init /\ [][Next]_vars /\ WF_vars(Advance)
-----------------------------------------------------------------------------
(* Properties.                                                             *)

Stages == {"discover", "search", "details", "filter", "rank", "recommend", "answer", "answered"}
Statuses ==
    {"PENDING", "VALIDATED", "PLANNING", "DISCOVERING", "CLARIFICATION_REQUIRED",
     "COMPLETED", "FAILED", "NO_MATCH"}
Results ==
    Statuses \union {None, "NEEDS_CLARIFICATION", "PARTIAL_RESULTS", "ERROR", "ANSWERED"}
Failures ==
    {"INTENT_INVALID", "DISCOVERY_FAILED", "CONSTRAINT_FILTER_FAILED", "RANKING_FAILED",
     "RECOMMENDATION_FAILED"}

\* The catalogue, the conversation and the state of a run have their types; a
\* run retries at most MaxRetries times beyond its first attempt, and it has
\* candidates only of merchants that answered it.
AgentTypeOK ==
    /\ \A p \in Products : shelf[p] \in Shelves[p] /\ past[p] \subseteq Shelves[p]
    /\ talk.messages \in Seq(Messages) /\ Len(talk.messages) <= MaxTurns
    /\ run # None =>
         /\ run.stage \in Stages /\ run.status \in Statuses /\ run.result \in Results
         /\ run.errors \subseteq Failures
         /\ run.retries \in 0 .. MaxRetries + 1
         /\ run.kind # "query" =>
              \A c \in run.products : c.merchant \in run.answered
         /\ Cardinality(run.products) <= Cardinality(Products)

\* What a product has to be, told from its listing and one version v of its
\* row.  Only the graph and /discover insist on a counted unit for quantity 1.
Supplied(i, v, kind) ==
    LET units == IF v.stock = None THEN 0 ELSE v.stock.quantity IN
    \/ ~i.requireStock \/ units >= i.quantity
    \/ kind = "query" /\ i.quantity = 1 /\ (v.stock = None \/ v.stock.state = "IN_STOCK")

Fits(x, key, specs) ==
    /\ key \in DOMAIN specs /\ specs[key] # Garbled
    /\ CASE key = "chip" -> x.target \in specs[key]
         [] key = "gpu"  -> IF x.target.family = "any" THEN specs[key].number = x.target.number
                            ELSE specs[key].family = "rtx" /\ specs[key].number >= x.target.number
         [] OTHER        -> specs[key] >= x.target

Eligible(i, p, v, kind) ==
    /\ v.active /\ v.price >= 0
    /\ i.budgetMax # None => v.price <= i.budgetMax
    /\ i.budgetMin # None => v.price >= i.budgetMin
    /\ Supplied(i, v, kind)
    /\ \A key \in DOMAIN i.specs : Fits(i.specs[key], key, Listing[p].specs)
    /\ i.keywords \subseteq Listing[p].words
    /\ i.exclusions \intersect Listing[p].words = {}

Picks(a) == ({a.top, a.value, a.fastest} \ {None}) \union Elements(a.others)

\* Whatever changes while a run reads, each product it recommends had, at one
\* moment of the run, the price shown and met every hard constraint; unless the
\* filter failed, which the errors of the answer then say: the products
\* nobody filtered are recommended all the same.
RecommendedIsEligible ==
    run # None /\ run.advice # None =>
        \/ "CONSTRAINT_FILTER_FAILED" \in run.errors
        \/ \A x \in Picks(run.advice) :
              \E v \in past[x.candidate.id] :
                  /\ v.price = x.candidate.price
                  /\ Eligible(run.intent, x.candidate.id, v, run.kind)

\* As many others of its merchant as a page holds matched the search at some
\* moment, and did not come after the product: it may be beyond the page.
CutOff(p, i, history) ==
    \E v \in history[p] :
        Cardinality({q \in Products \ {p} :
            /\ Listing[q].merchant = Listing[p].merchant
            /\ \E w \in history[q] :
                  Matching({Row(q, w)}, i) # {} /\ ~Before(Row(p, v), Row(q, w))}) >= PageSize

\* The normalizer refuses it whatever its price, and discovery goes on without.
Refused(p) == Listing[p].base < 0

\* NO_MATCH without errors: every product of a merchant that answered was not
\* eligible at some moment of the run, or may have been beyond the first page,
\* or is one that the normalizer refuses, which the user is not told.
NoMatchMeansNone ==
    run # None /\ run.result = "NO_MATCH" /\ run.errors = {} =>
        \A p \in Products :
            \/ Listing[p].merchant \notin run.answered
            \/ CutOff(p, run.intent, past) \/ Refused(p)
            \/ \E v \in past[p] : ~Eligible(run.intent, p, v, run.kind)

\* The status of the answer agrees with its content: a complete or partial
\* answer has a top pick, partial exactly if a merchant is missing; a question
\* is asked of an ambiguous message alone; FAILED comes with its error.
StatusTellsTheTruth ==
    run # None /\ run.kind = "shopping" /\ run.result \notin {None, "ERROR"} =>
        /\ run.result \in {"COMPLETED", "PARTIAL_RESULTS"} =>
              run.advice.top # None /\ run.answered # {}
        /\ run.result = "COMPLETED" => run.down = {}
        /\ run.result = "PARTIAL_RESULTS" => run.down # {}
        /\ (run.result = "NEEDS_CLARIFICATION") <=> run.intent.ambiguous
        /\ (run.result = "FAILED")
              <=> run.errors \intersect {"INTENT_INVALID", "DISCOVERY_FAILED"} # {}

ErrorOf ==
    [APPLY_CONSTRAINTS |-> "CONSTRAINT_FILTER_FAILED", RANK |-> "RANKING_FAILED",
     RECOMMEND |-> "RECOMMENDATION_FAILED"]

\* A plan reported COMPLETED: each of its steps was completed, or the error of
\* that step is reported too.  (The code never marks the last step, COMPLETE;
\* and a run whose recommendation failed is COMPLETED without one.)
PlanTellsTheTruth ==
    run # None /\ run.planStatus = "COMPLETED" =>
        \A n \in DOMAIN run.plan \ {6} :
            LET step == run.plan[n] IN
            \/ step \in run.done
            \/ step \in DOMAIN ErrorOf /\ ErrorOf[step] \in run.errors

\* What a run reports of itself, in its status and in its plan, is so.
ReportsTellTheTruth == StatusTellsTheTruth /\ PlanTellsTheTruth

Dominates(c, d) ==
    /\ c.price <= d.price /\ 0 < c.days /\ c.days <= d.days /\ c.rating >= d.rating
    /\ c.reviews >= d.reviews /\ c.quantity >= d.quantity /\ (d.inStock => c.inStock)
    /\ c.price < d.price \/ c.days < d.days

\* No product is ranked below one that it beats: no dearer and, in known times,
\* no slower, with one of the two better, no worse rated, reviewed and stocked,
\* and no worse in the scores of specification and discount.  (A discount
\* below 4 percent scores less than none, so lower prices alone do not do.)
\* Holds for every objective, in spite of the weights and roundings in between.
RankingRespectsDominance ==
    run # None /\ run.ranked # None =>
        \A n \in DOMAIN run.ranked : \A m \in n + 1 .. Len(run.ranked) :
            LET x == run.ranked[n]
                y == run.ranked[m]
            IN ~( /\ Dominates(y.candidate, x.candidate)
                  /\ y.score.specification >= x.score.specification
                  /\ y.score.discount >= x.score.discount )

Forgotten(n) == \E k \in n + 1 .. Len(talk.messages) : talk.messages[k].greeting
Renewed(n, bound) ==
    \E k \in n + 1 .. Len(talk.messages) : talk.messages[k][bound] # None

\* Over a conversation, what was excluded stays excluded and the last maximum
\* and minimum named stay in force, until a greeting makes the parser forget
\* all; but a bound of 0 is forgotten with the next message.
ConversationRemembers ==
    \A n \in DOMAIN talk.messages :
        LET m == talk.messages[n] IN
        ~m.greeting /\ ~Forgotten(n) =>
            /\ m.exclusions \subseteq talk.intent.exclusions
            /\ \A bound \in {"budgetMax", "budgetMin"} :
                  m[bound] # None /\ ~Renewed(n, bound) =>
                      talk.intent[bound] =
                          IF n < Len(talk.messages) THEN Kept(m[bound]) ELSE m[bound]

\* Every request is answered: merchants that fail and discoveries that raise
\* are not asked for ever.
EveryRequestIsAnswered == run # None ~> run # None /\ run.stage = "answered"
=============================================================================
