------------------------------ MODULE Exchange ------------------------------
(***************************************************************************)
(* Both ends of a completion: ragin/gateway/client.py, GatewayClient, and  *)
(* in llm-gateway what Gateway::generate does once a request was admitted: *)
(* its cache and its ledgers.  A post that times out is posted again while *)
(* the first may be under way: the gateway drops a request whose client    *)
(* hung up at any await, or finishes it.                                   *)
(*                                                                         *)
(* All calls are of the same messages.  An answer costs the tokens that    *)
(* were asked for, 1 or, by the retry, 2.  What Gateway models (permits,   *)
(* the window, the breaker, its retries) is here a status.                 *)
(***************************************************************************)
EXTENDS Naturals, Sequences, FiniteSets, FiniteSetsExt

CONSTANTS
    CacheResponses, \* caching.enabled and cache_responses
    MonthLength,    \* days
    MaxDays,        \* bound: days
    MaxAsked,       \* bound: calls of generate
    MaxPosts        \* bound: posts

ExchangeAssumption ==
    CacheResponses \in BOOLEAN /\ MonthLength \in Nat \ {0} /\ {MaxDays, MaxAsked, MaxPosts} \subseteq Nat

VARIABLES
    day,            \* today
    asked,          \* the call of generate: where it is, its try and attempt
    posts,          \* every post: the request as the gateway has it
    keptAnswer,     \* response_cache, of the one key
    burned,         \* tokens the provider answered with
    daily, monthly, \* daily_spend, monthly_spend
    total,          \* model_spend and provider_spend
    told,           \* usage returned to callers
    calls           \* bound: calls

vars == <<day, asked, posts, keptAnswer, burned, daily, monthly, total, told, calls>>

Days  == 0 .. MaxDays
Month(d) == d \div MonthLength
None  == [tokens |-> 0, content |-> "none", cached |-> FALSE]
Idle  == [pc |-> "idle", try |-> 1, attempt |-> 0, first |-> None, from |-> 1, outcome |-> "none"]

Init ==
    /\ day = 0 /\ asked = Idle /\ posts = <<>> /\ keptAnswer = None /\ burned = 0
    /\ daily = [d \in Days |-> 0] /\ monthly = [m \in {Month(d) : d \in Days} |-> 0]
    /\ total = 0 /\ told = 0 /\ calls = 0

gatewayVars == <<keptAnswer, burned, daily, monthly, total>>
Midnight == day < MaxDays /\ day' = day + 1 /\ UNCHANGED <<asked, posts, gatewayVars, told, calls>>

-----------------------------------------------------------------------------
(* The client.  Post: one more request, for that many tokens.               *)
Post(tokens, log) == Append(log, [pc |-> "arrived", tokens |-> tokens, answer |-> None,
                                  day |-> 0, month |-> 0, status |-> 0, heard |-> FALSE])
Tokens == asked.try

Finish(outcome, usage) ==
    /\ asked' = [asked EXCEPT !.pc = "done", !.outcome = outcome]
    /\ told' = told + usage

(* generate.                                                                *)
Ask ==
    /\ asked.pc # "waiting" /\ calls < MaxAsked /\ Len(posts) < MaxPosts
    /\ asked' = [Idle EXCEPT !.pc = "waiting", !.from = Len(posts) + 1]
    /\ posts' = Post(1, posts)
    /\ calls' = calls + 1
    /\ UNCHANGED <<day, gatewayVars, told>>

(* MUTANT: the second post may raise too. *)
Raises_both(log) == Finish("raised", 0) /\ posts' = log

(* _post raises: generate does in its first try, and swallows it later.     *)
Raises(log) ==
    /\ Finish(IF asked.try = 1 THEN "raised" ELSE "empty", asked.first.tokens)
    /\ posts' = log

(* The attempt failed in a way that is tried again, once.                   *)
Again(log) ==
    \/ /\ asked.attempt = 0 /\ Len(log) < MaxPosts
       /\ asked' = [asked EXCEPT !.attempt = 1]
       /\ posts' = Post(Tokens, log)
       /\ UNCHANGED told
    \/ asked.attempt = 1 /\ Raises(log)

(* A response of a try, with the text, without choices, or with a choice    *)
(* that has no text: then there is another try, for more tokens.            *)
Answered(answer, log) ==
    \/ answer.content = "text" /\ Finish("content", answer.tokens) /\ posts' = log
    \/ answer.content = "none" /\ asked.try = 1 /\ Finish("empty", answer.tokens) /\ posts' = log
    \/ answer.content # "text" /\ asked.try = 2 /\ Finish("empty", asked.first.tokens) /\ posts' = log
    \/ /\ answer.content = "null" /\ asked.try = 1 /\ Len(log) < MaxPosts
       /\ asked' = [asked EXCEPT !.try = 2, !.attempt = 0, !.first = answer]
       /\ posts' = Post(2, log)
       /\ UNCHANGED told

(* The response to the post arrives.                                        *)
Hear ==
    LET i == Len(posts)  post == posts[i]
        log == [posts EXCEPT ![i].heard = TRUE] IN
    /\ asked.pc = "waiting" /\ post.pc = "responded"
    /\ \/ post.status = 200 /\ Answered(post.answer, log)
       \/ post.status = 503 /\ Again(log)
       \/ post.status = 404 /\ Raises(log)
    /\ UNCHANGED <<day, gatewayVars, calls>>

(* ReadTimeout or ConnectionError: whatever becomes of the request.         *)
TimeOut ==
    /\ asked.pc = "waiting" /\ Again(posts)
    /\ UNCHANGED <<day, gatewayVars, calls>>

-----------------------------------------------------------------------------
(* The gateway, for the i-th post.                                          *)
At(i, pc) == posts[i].pc = pc
Waited(i) == asked.pc = "waiting" /\ i = Len(posts)

(* The cache is asked; the key has neither temperature nor max_tokens.      *)
Lookup(i) ==
    /\ At(i, "arrived")
    /\ IF CacheResponses /\ keptAnswer # None
         THEN posts' = [posts EXCEPT ![i].pc = "responded", ![i].status = 200,
                                     ![i].answer = [keptAnswer EXCEPT !.cached = TRUE]]
         ELSE posts' = [posts EXCEPT ![i].pc = "provider"]
    /\ UNCHANGED <<day, asked, gatewayVars, told, calls>>

(* Refused, before the cache or by the provider: a status the client tries  *)
(* again on (408, 429, 502, 503), or one it does not (404, 500).            *)
Refuse(i) ==
    /\ posts[i].pc \in {"arrived", "provider"}
    /\ \E status \in {503, 404} : posts' = [posts EXCEPT ![i].pc = "responded", ![i].status = status]
    /\ UNCHANGED <<day, asked, gatewayVars, told, calls>>

(* The provider answers; reasoning may have used up all tokens.  From here  *)
(* on it is record_cost, which reads today first.                           *)
Provide(i) ==
    /\ At(i, "provider")
    /\ \E content \in {"text", "null", "none"} :
          posts' = [posts EXCEPT ![i].pc = "daily", ![i].day = day,
                                 ![i].answer = [tokens |-> posts[i].tokens, content |-> content, cached |-> FALSE]]
    /\ burned' = burned + posts[i].tokens
    /\ UNCHANGED <<day, asked, keptAnswer, daily, monthly, total, told, calls>>

(* MUTANT: the day's spend is not written. *)
Daily_unwritten(i) ==
    /\ At(i, "daily")
    /\ posts' = [posts EXCEPT ![i].pc = "monthly", ![i].month = Month(day)]
    /\ UNCHANGED <<day, asked, keptAnswer, burned, daily, monthly, total, told, calls>>

(* record_cost: this month is read, then the day's spend is written.        *)
Daily(i) ==
    /\ At(i, "daily")
    /\ posts' = [posts EXCEPT ![i].pc = "monthly", ![i].month = Month(day)]
    /\ daily' = [daily EXCEPT ![posts[i].day] = @ + posts[i].answer.tokens]
    /\ UNCHANGED <<day, asked, keptAnswer, burned, monthly, total, told, calls>>

(* The month's, and without another await the model's and the provider's.   *)
Monthly(i) ==
    /\ At(i, "monthly")
    /\ posts' = [posts EXCEPT ![i].pc = "store"]
    /\ monthly' = [monthly EXCEPT ![posts[i].month] = @ + posts[i].answer.tokens]
    /\ total' = total + posts[i].answer.tokens
    /\ UNCHANGED <<day, asked, keptAnswer, burned, daily, told, calls>>

(* After check_budget: the cache is given the answer, content or not.       *)
Respond(i) ==
    /\ At(i, "store")
    /\ keptAnswer' = IF CacheResponses THEN posts[i].answer ELSE keptAnswer
    /\ posts' = [posts EXCEPT ![i].pc = "responded", ![i].status = 200]
    /\ UNCHANGED <<day, asked, burned, daily, monthly, total, told, calls>>

(* A request nobody waits for is dropped at its next await.                 *)
Drop(i) ==
    /\ ~Waited(i) /\ posts[i].pc \notin {"responded", "gone"}
    /\ posts' = [posts EXCEPT ![i].pc = "gone"]
    /\ UNCHANGED <<day, asked, gatewayVars, told, calls>>

Next ==
    \/ Midnight \/ Ask \/ Hear \/ TimeOut
    \/ \E i \in DOMAIN posts :
          Lookup(i) \/ Refuse(i) \/ Provide(i) \/ Daily(i) \/ Monthly(i) \/ Respond(i) \/ Drop(i)

Spec == Init /\ [][Next]_vars

-----------------------------------------------------------------------------
Added(f, S)   == MapThenSumSet(LAMBDA k : f[k], S)
Spent(ledger) == Added(ledger, DOMAIN ledger)
Of(m)         == {d \in Days : Month(d) = m}

(* The ledgers never hold more than the provider answered with, the month's *)
(* and the totals never more than the days'; they differ by requests under  *)
(* way and by those that were dropped, and without either a month is the sum*)
(* of its days but for a request at midnight (gateway.rs:484-499).          *)
LedgersReconcile ==
    LET open == {i \in DOMAIN posts : posts[i].pc \in {"daily", "monthly", "store", "gone"} /\ posts[i].answer # None} IN
    /\ total = Spent(monthly) /\ total <= Spent(daily) /\ Spent(daily) <= burned
    /\ open = {} => total = burned
    /\ open = {} /\ (\A i \in DOMAIN posts : Month(posts[i].day) = posts[i].month) =>
          \A m \in DOMAIN monthly : monthly[m] = Added(daily, Of(m))

(* What callers are told of, and charge to their own budgets, is at most    *)
(* what the provider answered with and the cache gave again; and what they  *)
(* are not told of is of answers nobody heard and of calls that asked twice *)
(* (client.py:76-108).                                                      *)
ToldIsBounded ==
    LET given     == [i \in DOMAIN posts |-> posts[i].answer.tokens]
        tokens(S) == Added(given, S)
        cached    == {i \in DOMAIN posts : posts[i].answer.cached}
        heard     == {i \in DOMAIN posts : posts[i].heard}
    IN /\ told <= burned + tokens(cached)
       /\ asked.pc = "done" =>
             burned - told <= tokens(DOMAIN posts \ heard) + tokens({i \in heard : posts[i].tokens = 2})

(* A call that got an answer does not raise, and ends after four posts; and *)
(* the retry for more tokens gets the answer without content again, out of  *)
(* the gateway's cache, unless another answer that nobody waited for has    *)
(* taken its place there (client.py:92, gateway.rs:296).                    *)
AnsweredNeverRaises ==
    LET own == asked.from .. Len(posts) IN
    /\ Cardinality(own) <= 4
    /\ asked.outcome = "raised" => \A i \in own : posts[i].heard => posts[i].status # 200
    /\ CacheResponses /\ asked.outcome = "content" /\ asked.try = 2 => \E i \in DOMAIN posts : ~posts[i].heard
=============================================================================
