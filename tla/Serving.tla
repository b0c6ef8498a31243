------------------------------ MODULE Serving ------------------------------
(***************************************************************************)
(* The HTTP server of one component (src/ragin/server.py).  Requests are   *)
(* handled on one event loop and wait for the component on a thread, so    *)
(* that what is before the wait (the cache is read) and what is after it   *)
(* (the cache is written, the audit log, the metrics) is done with other   *)
(* requests served between.  The component itself is external here: it     *)
(* answers or raises, and is modelled by modules of its own.               *)
(***************************************************************************)
EXTENDS Naturals, Sequences, FiniteSets, SequencesExt

CONSTANTS
    Clients,        \* callers that have at most one request each under way
    Requests,       \* requests: [route, session, input, persona, key, scans]
    MaxSize,        \* _ResponseCache._maxsize
    Ttl,            \* _ResponseCache._ttl
    MaxClock,       \* bound on the time
    MaxRequests     \* bound on the requests that are made

ServingAssumption == MaxSize \in Nat

VARIABLES
    component,      \* the one this process serves
    clock,          \* time.monotonic()
    cache,          \* _ResponseCache._cache: its entries, the next to go first
    waiting,        \* client -> the request whose component call is under way
    audit,          \* the audit events, in order
    measured,       \* the requests the collector has: [ok, error]
    replies         \* what was sent, in order

servingVars == <<component, clock, cache, waiting, audit, measured, replies>>

None    == [route |-> "none"]
Unnamed == ""                   \* the session of what has none

Init ==
    /\ component \in {"don", "hisoka"}
    /\ clock = 0 /\ cache = <<>> /\ audit = <<>> /\ replies = <<>>
    /\ waiting = [c \in Clients |-> None]
    /\ measured = [ok |-> 0, error |-> 0]

-----------------------------------------------------------------------------
(* The cache knows an input in a persona, not the session that asked.       *)
Key(request) == <<request.input, request.persona>>

Holds(entries, key) == {i \in 1 .. Len(entries) : entries[i].key = key}
Place(entries, key) == CHOOSE i \in Holds(entries, key) : TRUE
Without(entries, key) ==
    IF Holds(entries, key) = {} THEN entries ELSE RemoveAt(entries, Place(entries, key))

(* get: a hit goes to the end, an entry that is too old is deleted.         *)
Hit(request) ==
    \E i \in Holds(cache, Key(request)) : clock - cache[i].at <= Ttl
AfterGet(request) ==
    LET key == Key(request) IN
    IF Hit(request) THEN Append(Without(cache, key), cache[Place(cache, key)]) ELSE Without(cache, key)

(* MUTANT: an input that is there again does not replace its entry. *)
Put_appends(request, answer) ==
    Append(cache, [key |-> Key(request), at |-> clock, answer |-> answer])

(* put: the entry goes to the end, and the first ones go.                   *)
Put(request, answer) ==
    LET grown == Append(Without(cache, Key(request)),
                        [key |-> Key(request), at |-> clock, answer |-> answer])
    IN  IF Len(grown) > MaxSize
        THEN SubSeq(grown, Len(grown) - MaxSize + 1, Len(grown)) ELSE grown

-----------------------------------------------------------------------------
Deceptive == {"deceive", "openai", "lure"}
Public    == Deceptive                       \* PUBLIC_PREFIXES, of the routes

(* create_app: the routes of the component.                                 *)
Routes  == IF component = "hisoka" THEN Deceptive ELSE {"analyze"}
Arrives == {request \in Requests : request.route \in Routes}
LetIn   == {request \in Arrives : request.route \in Public \/ request.key}

(* MUTANT: the cache is read unless the route opts out, as openai does. *)
UseCache_unless_openai(request) == request.route # "openai"

(* No route opts into the cache: its entries are written and never read.    *)
UseCache(request) == FALSE

(* timing_middleware is the innermost: it counts what was let through.      *)
Counted(status) ==
    IF status < 400 THEN [measured EXCEPT !.ok = @ + 1] ELSE [measured EXCEPT !.error = @ + 1]

Reply(client, request, status, named) ==
    replies' = Append(replies, [to |-> client, request |-> request, status |-> status, named |-> named])

(* auth_middleware, then rate_limit_middleware: neither calls the handler.  *)
Refuse(client) ==
    /\ Len(replies) < MaxRequests /\ waiting[client] = None
    /\ \/ \E request \in Arrives \ LetIn :
           /\ Reply(client, request, 401, Unnamed) /\ audit' = Append(audit, [event |-> "auth_failure", of |-> Unnamed])
       \/ \E request \in LetIn :
           /\ Reply(client, request, 429, Unnamed) /\ audit' = Append(audit, [event |-> "rate_limit_exceeded", of |-> Unnamed])
    /\ UNCHANGED <<component, clock, cache, waiting, measured>>

(* The handlers' own ends before the component is called: a body that is no *)
(* JSON, or the limiter of the lures, which nothing is audited of.          *)
TurnAway(client) ==
    /\ Len(replies) < MaxRequests /\ waiting[client] = None
    /\ \E request \in LetIn :
        /\ LET status == IF request.route = "lure" THEN 429 ELSE 400 IN
           Reply(client, request, status, Unnamed) /\ measured' = Counted(status)
    /\ UNCHANGED <<component, clock, cache, waiting, audit>>

(* A handler to its await, or a hit, which is returned silently.            *)
Handle(client) ==
    /\ Len(replies) < MaxRequests /\ waiting[client] = None
    /\ \E request \in LetIn :
        /\ LET reads == request.route \in Deceptive /\ UseCache(request) IN
           /\ cache' = IF reads THEN AfterGet(request) ELSE cache
           /\ IF reads /\ Hit(request)
              THEN /\ Reply(client, request, 200, cache[Place(cache, Key(request))].answer)
                   /\ measured' = Counted(200)
                   /\ UNCHANGED waiting
              ELSE /\ waiting' = [waiting EXCEPT ![client] = request]
                   /\ UNCHANGED <<replies, measured>>
    /\ UNCHANGED <<component, clock, audit>>

(* The session the answer names: a scanner is answered by the static        *)
(* fallback, which has none and does not ask the session's engine.          *)
Named(request) ==
    IF request.route \in Deceptive /\ request.scans THEN "static" ELSE request.session

(* The component has answered: cache, audit, metrics, reply, at one go.     *)
Finish(client) ==
    LET request == waiting[client] named == Named(request) IN
    /\ request # None
    /\ cache' = IF request.route \in Deceptive THEN Put(request, named) ELSE cache
    /\ audit' = Append(audit, [event |-> request.route, of |-> named])
    \* analyze looks for evidence after its audit entry, and may raise then
    /\ \E status \in IF request.route = "analyze" THEN {200, 500} ELSE {200} :
        /\ Reply(client, request, status, IF status = 200 THEN named ELSE Unnamed)
        /\ measured' = Counted(status)
    /\ waiting' = [waiting EXCEPT ![client] = None]
    /\ UNCHANGED <<component, clock>>

(* The component raised: a value it cannot take is the caller's fault.      *)
Fail(client) ==
    LET request == waiting[client] IN
    /\ request # None /\ ~(request.route \in Deceptive /\ request.scans)
    /\ \E status \in IF request.route \in {"openai", "lure"} THEN {500} ELSE {400, 500} :
        Reply(client, request, status, Unnamed) /\ measured' = Counted(status)
    /\ waiting' = [waiting EXCEPT ![client] = None]
    /\ UNCHANGED <<component, clock, cache, audit>>

Tick ==
    /\ clock < MaxClock /\ clock' = clock + 1
    /\ UNCHANGED <<component, cache, waiting, audit, measured, replies>>

Next ==
    \/ Tick
    \/ \E client \in Clients :
        Refuse(client) \/ TurnAway(client) \/ Handle(client) \/ Finish(client) \/ Fail(client)

Spec == Init /\ [][Next]_servingVars

-----------------------------------------------------------------------------
Count(seq, Test(_)) == Cardinality({i \in 1 .. Len(seq) : Test(seq[i])})

(* server.py:122-171: no answer names a session other than the one that     *)
(* asked, whoever asked the same before; only a scanner's names none.       *)
AnswersAreOwn ==
    \A i \in 1 .. Len(replies) :
        LET r == replies[i] IN
        r.status = 200 => r.named = r.request.session \/ (r.named = "static" /\ r.request.scans)

(* server.py:122-171, 323-464: every answer is in the audit log under the   *)
(* session that it names, one entry for each, and an entry without an       *)
(* answer is of an analysis that failed after it.                           *)
AnswersAreAudited ==
    \A route \in Deceptive \cup {"analyze"}, s \in {r.session : r \in Requests} \cup {"static"} :
        LET answered == Count(replies, LAMBDA r : r.status = 200 /\ r.request.route = route /\ r.named = s)
            failed   == Count(replies, LAMBDA r : r.status = 500 /\ r.request.route = "analyze"
                                                  /\ route = "analyze" /\ r.request.session = s)
            entries  == Count(audit, LAMBDA e : e.event = route /\ e.of = s)
        IN  answered <= entries /\ entries <= answered + failed

(* server.py:81-112: the cache has an input once, and keeps to its size.    *)
CacheBounded ==
    /\ Len(cache) <= MaxSize
    /\ \A i, j \in 1 .. Len(cache) : cache[i].key = cache[j].key => i = j
=============================================================================
