------------------------------- MODULE Feeds -------------------------------
(***************************************************************************)
(* don/cti_feeds.py: the connectors and the manager that asks them all at  *)
(* once, drops what it has returned before and hands the rest to its       *)
(* caller.  Several callers may be waiting at once, in one event loop.     *)
(***************************************************************************)
EXTENDS Integers, Sequences, FiniteSets, SequencesExt, FiniteSetsExt

CONSTANTS
    Fetchers,       \* callers of fetch_all
    Connectors,     \* _connectors: [name, kind, published], published a sequence
                    \* of [title, url, date, bad]
    Since,          \* of the fetches; 0 for none
    MaxFetches      \* bound: fetches of a history

FeedsAssumption == DOMAIN Connectors = 1 .. Len(Connectors)

VARIABLES
    seenIds,        \* _seen_ids
    fetching,       \* caller -> <<>>, or <<since, what has been answered by each>>
    handed,         \* id -> how often it was returned, since the last clearing
    fetches

feedVars == <<seenIds, fetching, handed, fetches>>

DocId(item) == <<item.source, IF item.url # "" THEN item.url ELSE item.title>>
Ids == UNION {{DocId([source |-> Connectors[c].name, url |-> i.url, title |-> i.title]) : i \in ToSet(Connectors[c].published)} :
                c \in DOMAIN Connectors}

(* The items of an answer, up to the first that cannot be parsed: MISP and  *)
(* OTX filter and cut on their side, a feed is read from its beginning, the *)
(* catalog from its end, and only the catalog can be asked for a date here. *)
Parsable(published) ==
    LET bad == {i \in DOMAIN published : published[i].bad}
    IN IF bad = {} THEN published ELSE SubSeq(published, 1, Min(bad) - 1)
Recent(published, since) == SelectSeq(published, LAMBDA i : i.date >= since)
FirstN(s, n) == SubSeq(s, 1, Min({n, Len(s)}))
LastN(s, n)  == SubSeq(s, Max({1, Len(s) - n + 1}), Len(s))
Fetched(c, since, limit) ==
    LET published == Connectors[c].published
        sent == CASE Connectors[c].kind \in {"misp", "otx"} ->
                       FirstN(Recent(published, since), IF Connectors[c].kind = "otx" THEN Min({limit, 50}) ELSE limit)
                  [] Connectors[c].kind = "rss" -> FirstN(published, limit)
                  [] OTHER -> LastN(Recent(published, since), limit)
        items == Parsable(sent)
    IN [i \in DOMAIN items |-> [source |-> Connectors[c].name, title |-> items[i].title,
                                url |-> items[i].url, date |-> items[i].date]]

(* The items of the answers in the order of gather's results, as positions: *)
(* the connector, and the place in its answer.                              *)
Positions(answers) == UNION {{c} \X DOMAIN answers[c] : c \in DOMAIN answers}
IdAt(answers, p)   == DocId(answers[p[1]][p[2]])
Earlier(p, q)      == p[1] < q[1] \/ (p[1] = q[1] /\ p[2] < q[2])

(* MUTANT: an item is compared with what was seen before this fetch. *)
NewItems_batch(answers) == {p \in Positions(answers) : IdAt(answers, p) \notin seenIds}

(* The items whose id was not seen, marked as they are taken.               *)
NewItems(answers) ==
    {p \in Positions(answers) :
        /\ IdAt(answers, p) \notin seenIds
        /\ \A q \in Positions(answers) : Earlier(q, p) => IdAt(answers, q) # IdAt(answers, p)}

Init ==
    /\ seenIds = {}
    /\ fetching = [f \in Fetchers |-> <<>>]
    /\ handed = [id \in Ids |-> 0]
    /\ fetches = 0

FetchAll(f) ==
    /\ fetching[f] = <<>> /\ fetches < MaxFetches
    /\ fetches' = fetches + 1
    /\ \E since \in Since : fetching' = [fetching EXCEPT ![f] = <<since, <<>> >>]
    /\ UNCHANGED <<seenIds, handed>>

(* A connector answers, or fails: other than a bad item, that is no items.  *)
Answers(f, c) ==
    /\ fetching[f] # <<>> /\ c \notin DOMAIN fetching[f][2]
    /\ \E items \in {Fetched(c, fetching[f][1], 50), <<>>} :
          fetching' = [fetching EXCEPT ![f] =
              <<@[1], [d \in DOMAIN @[2] \cup {c} |-> IF d = c THEN items ELSE @[2][d]]>>]
    /\ UNCHANGED <<seenIds, handed, fetches>>

(* All have answered: the new items are returned, the latest first; there   *)
(* is no await from here on.                                                *)
Return(f) ==
    LET answers == fetching[f][2]  new == NewItems(answers) IN
    /\ fetching[f] # <<>> /\ DOMAIN answers = DOMAIN Connectors
    /\ seenIds' = seenIds \cup {IdAt(answers, p) : p \in new}
    /\ handed' = [id \in Ids |-> handed[id] + Cardinality({p \in new : IdAt(answers, p) = id})]
    /\ fetching' = [fetching EXCEPT ![f] = <<>>]
    /\ UNCHANGED fetches

ClearDedupCache ==
    /\ seenIds # {}
    /\ seenIds' = {} /\ handed' = [id \in Ids |-> 0]
    /\ UNCHANGED <<fetching, fetches>>

Next ==
    \/ \E f \in Fetchers : FetchAll(f) \/ Return(f)
    \/ \E f \in Fetchers, c \in DOMAIN Connectors : Answers(f, c)
    \/ ClearDedupCache
Spec == Init /\ [][Next]_feedVars

-----------------------------------------------------------------------------
(* Between two clearings of the cache an item is returned to one caller and *)
(* once, though several wait for the same feeds, the same item is in two    *)
(* answers, and answers come late; and no item that was answered to a       *)
(* caller that has returned is withheld from all (cti_feeds.py:543-583).    *)
FedOnce == \A id \in Ids : handed[id] = IF id \in seenIds THEN 1 ELSE 0
=============================================================================
