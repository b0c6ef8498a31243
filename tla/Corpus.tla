------------------------------- MODULE Corpus -------------------------------
(***************************************************************************)
(* The corpus of threat intelligence: what of MITRE's bundle becomes a     *)
(* document (don/mitre_cti_loader.py), the caches the loaders keep on disk *)
(* (and extended_cti_loader.py, cti_corpus.py), and the adapter that holds *)
(* the documents with its indexes and embeddings (lightrag_adapter.py,     *)
(* whose indexes are intel_corpus.py's also).  The LightRAG store behind   *)
(* the adapter is external; these are the paths that do not use it.        *)
(***************************************************************************)
EXTENDS Integers, Sequences, FiniteSets, SequencesExt, FiniteSetsExt, Functions

CONSTANTS
    Objects,        \* of the bundle, in order
    Campaigns,      \* documents of get_recent_campaign_documents
    Extras,         \* documents of other files, as sequences
    Queries,        \* sets of words
    MaxDocuments    \* bound: documents in memory

VARIABLES
    documents,      \* _documents
    byTactic,       \* _tactic_index: positions by tactic
    byActor,        \* _actor_index
    embeddings,     \* _doc_embeddings: the documents they were made of
    moved,          \* documents were replaced under the embeddings
    kept,           \* documents.json: <<>> for none, or <<documents>>
    bundle,         \* the cached enterprise-attack.json: "none", "part", "whole"
    catalog         \* the cached cisa_kev.json, likewise

corpusVars == <<documents, byTactic, byActor, embeddings, moved, kept, bundle, catalog>>

-----------------------------------------------------------------------------
(* What the text of a document is made of, by the object's type.            *)
Parts(type) ==
    CASE type = "attack-pattern" -> {"name", "id", "description", "platforms", "tactics", "sources"}
      [] type = "intrusion-set"  -> {"name", "description", "aliases", "country", "motivation",
                                     "sophistication", "resources", "seen"}
      [] type = "campaign"       -> {"name", "description", "seen", "objective"}
      [] type \in {"malware", "tool"} -> {"name", "description", "aliases", "platforms", "family"}
      [] type = "report"         -> {"name", "description", "url"}
      [] OTHER                   -> {"name", "description"}

(* _convert_object: the document is named by the object's MITRE id, or else *)
(* its own; only a group has actors, its name and its aliases.              *)
Converted(o) ==
    [doc_id  |-> IF o.external # "" THEN o.external ELSE o.id,
     words   |-> UNION {o.says[p] : p \in Parts(o.type) \cap DOMAIN o.says},
     tactics |-> o.tactics,
     actors  |-> IF o.type = "intrusion-set" THEN o.says.name \cup o.says.aliases ELSE {}]

(* parse_stix_to_documents.                                                 *)
Parsed(objects) ==
    LET live == SelectSeq(objects, LAMBDA o : ~o.revoked)
    IN [i \in DOMAIN live |-> Converted(live[i])]

(* _rebuild_indices, by one kind of key: keys[i] are those of document i.   *)
Indexed(keys) == [k \in UNION ToSet(keys) |-> {i \in DOMAIN keys : k \in keys[i]}]
Rebuilt(docs) ==
    /\ byTactic' = Indexed([i \in DOMAIN docs |-> docs[i].tactics])
    /\ byActor'  = Indexed([i \in DOMAIN docs |-> docs[i].actors])

Init ==
    /\ documents = <<>> /\ byTactic = <<>> /\ byActor = <<>>
    /\ embeddings = <<>> /\ moved = FALSE /\ kept = <<>>
    /\ bundle = "none" /\ catalog = "none"

(* MUTANT: documents that are added do not join the indexes. *)
Added_unindexed(docs) ==
    /\ Len(documents) + Len(docs) <= MaxDocuments
    /\ documents' = documents \o docs
    /\ UNCHANGED <<byTactic, byActor>>

(* add_documents, and _load_file of a file that has documents.              *)
Added(docs) ==
    /\ Len(documents) + Len(docs) <= MaxDocuments
    /\ documents' = documents \o docs
    /\ Rebuilt(documents')

(* load_full_cti_corpus.  The download writes over the cached bundle, is    *)
(* made when there is none or it is forced, and may stop half-way; what is  *)
(* there after that is the cache, and a part of a bundle does not parse.    *)
Downloads(force) == bundle = "none" \/ force
LoadMitre ==
    \E force, recent \in BOOLEAN :
        /\ bundle' \in IF Downloads(force) THEN {"whole"} ELSE {bundle}
        /\ bundle' = "whole"
        /\ Added(Parsed(Objects) \o IF recent THEN Campaigns ELSE <<>>)
        /\ UNCHANGED <<embeddings, moved, kept, catalog>>
FailMitre ==
    \E force \in BOOLEAN :
        /\ bundle' \in IF Downloads(force) THEN {bundle, "part"} ELSE {bundle}
        /\ bundle' # "whole" \/ Downloads(force)
        /\ UNCHANGED <<documents, byTactic, byActor, embeddings, moved, kept, catalog>>

(* load_cisa_kev: a catalog that was fetched is used even when it cannot be *)
(* cached; the cache is for when it cannot be fetched.  Its documents are   *)
(* returned, not added to the adapter.                                      *)
LoadKev ==
    /\ catalog' \in {"whole", "part", catalog}
    /\ UNCHANGED <<documents, byTactic, byActor, embeddings, moved, kept, bundle>>

(* load_corpus of a file or a directory, as far as it could be read.        *)
LoadCorpus ==
    \E docs \in Extras :
        /\ Added(docs)
        /\ UNCHANGED <<embeddings, moved, kept, bundle, catalog>>

(* precompute_embeddings, and the first _dense_search, when the embedding   *)
(* works; precompute drops the old ones when it does not.                   *)
Precompute ==
    /\ documents # <<>>
    /\ embeddings' \in {documents, <<>>}
    /\ moved' = FALSE
    /\ UNCHANGED <<documents, byTactic, byActor, kept, bundle, catalog>>
DenseSearch ==
    /\ documents # <<>> /\ embeddings = <<>>
    /\ embeddings' = documents /\ moved' = FALSE
    /\ UNCHANGED <<documents, byTactic, byActor, kept, bundle, catalog>>

(* save and load; loading leaves the embeddings.                            *)
Save ==
    /\ kept' = <<documents>>
    /\ UNCHANGED <<documents, byTactic, byActor, embeddings, moved, bundle, catalog>>
Load ==
    /\ kept # <<>>
    /\ documents' = Head(kept) /\ Rebuilt(documents')
    /\ moved' = (moved \/ ~IsPrefix(embeddings, Head(kept)))
    /\ UNCHANGED <<embeddings, kept, bundle, catalog>>

Restart ==
    /\ documents' = <<>> /\ byTactic' = <<>> /\ byActor' = <<>>
    /\ embeddings' = <<>> /\ moved' = FALSE
    /\ UNCHANGED <<kept, bundle, catalog>>

Next == LoadMitre \/ FailMitre \/ LoadKev \/ LoadCorpus \/ Precompute \/ DenseSearch \/ Save \/ Load \/ Restart
Spec == Init /\ [][Next]_corpusVars

-----------------------------------------------------------------------------
(* search_by_tactic and search_by_actor; an actor that is not a key is      *)
(* looked for as a part of one.  within is the set of such pairs.           *)
SearchByTactic(t) == IF t \in DOMAIN byTactic THEN byTactic[t] ELSE {}
SearchByActor(a, within) ==
    IF a \in DOMAIN byActor THEN byActor[a]
    ELSE UNION {byActor[k] : k \in {k \in DOMAIN byActor : <<a, k>> \in within \/ <<k, a>> \in within}}

(* _keyword_search: the top_k of the documents that have a word of the      *)
(* query, by how many they have, the first added first.                     *)
Score(d, query) == Cardinality(d.words \cap query)
Before(query, i, j) ==
    \/ Score(documents[i], query) > Score(documents[j], query)
    \/ Score(documents[i], query) = Score(documents[j], query) /\ i < j
Hits(query) == {i \in DOMAIN documents : Score(documents[i], query) > 0}
KeywordSearch(query, topK) ==
    {i \in Hits(query) : Cardinality({j \in Hits(query) : Before(query, j, i)}) < topK}

(* _fallback_context_window: the hits in that order while they fit, and of  *)
(* the first that does not a piece, if more than 100 characters are left.   *)
(* It is what each takes of the budget, without the separators that are     *)
(* joined in afterwards; a document is length characters.                   *)
Window(query, budget, length) ==
    LET ahead(i) == length * Cardinality({j \in Hits(query) : Before(query, j, i)})
        left(i)  == budget - ahead(i)
    IN [i \in {i \in Hits(query) : left(i) >= length \/ left(i) > 100} |-> Min({length, left(i)})]

-----------------------------------------------------------------------------
(* Whatever was loaded, failed or was replaced: the index of tactics leads  *)
(* to exactly the documents of a tactic, that of actors likewise, a keyword *)
(* search passes over no better document than one it returns, a context     *)
(* takes no more than its budget, and a position that the dense search      *)
(* finds is of the document the embedding was made of, unless the documents *)
(* were replaced since (lightrag_adapter.py:179-226, 341-428, 536-628).     *)
CorpusIsFound ==
    /\ \A t \in UNION {documents[i].tactics : i \in DOMAIN documents} \cup DOMAIN byTactic :
          SearchByTactic(t) = {i \in DOMAIN documents : t \in documents[i].tactics}
    /\ \A a \in DOMAIN byActor : SearchByActor(a, {}) = {i \in DOMAIN documents : a \in documents[i].actors}
    /\ \A query \in Queries :
          /\ \A i \in KeywordSearch(query, 2), j \in DOMAIN documents :
                Score(documents[j], query) > Score(documents[i], query) => j \in KeywordSearch(query, 2)
          /\ LET window == Window(query, 1000, 300) IN FoldFunction(LAMBDA x, y : x + y, 0, window) <= 1000
    /\ moved \/ IsPrefix(embeddings, documents)
=============================================================================
