----------------------------- MODULE VectorStore -----------------------------
(***************************************************************************)
(* don/vector_store.py, with the search of the engine over it              *)
(* (rag_engine.py).  A document and its vector are two entries at the same *)
(* position of two lists, kept in two files; a search finds a vector and   *)
(* returns the document at its position.  A vector is named by the         *)
(* document it was made of.                                                *)
(***************************************************************************)
EXTENDS Integers, Sequences, FiniteSets, SequencesExt, FiniteSetsExt

CONSTANTS
    Papers,         \* documents
    Similarity,     \* of each to the query, in hundredths (from -100 to 100)
    Terms,          \* how many of the query's terms each has
    MaxStored       \* bound: documents in the store

VARIABLES
    stored,         \* _documents
    index,          \* _index
    disk,           \* documents.json, index.faiss; half: of two different saves
    saving,         \* save is between its two files
    torn            \* what is in memory was loaded from such files

storeVars == <<stored, index, disk, saving, torn>>

Missing   == [state |-> "missing", entries |-> <<>>]
Whole(s)  == [state |-> "whole", entries |-> s]
Cut       == [state |-> "cut", entries |-> <<>>]

Init ==
    /\ stored = <<>> /\ index = <<>>
    /\ disk = [documents |-> Missing, index |-> Missing, half |-> FALSE]
    /\ saving = FALSE /\ torn = FALSE

(* add_documents: a batch of one or two.                                    *)
AddPapers ==
    \E batch \in BoundedSeq(Papers, 2) \ {<<>>} :
        /\ ~saving /\ Max({Len(stored), Len(index)}) + Len(batch) <= MaxStored
        /\ index' = index \o batch
        /\ stored' = stored \o batch
        /\ UNCHANGED <<disk, saving, torn>>

(* save: the documents, then (after meta.json) the index, each over the     *)
(* file that was there.                                                     *)
SaveDocuments ==
    /\ ~saving
    /\ disk' = [disk EXCEPT !.documents = Whole(stored), !.half = TRUE]
    /\ saving' = TRUE
    /\ UNCHANGED <<stored, index, torn>>
SaveIndex ==
    /\ saving
    /\ disk' = [disk EXCEPT !.index = Whole(index), !.half = torn]
    /\ saving' = FALSE
    /\ UNCHANGED <<stored, index, torn>>

(* The process stops, in the middle of a file if it was saving.             *)
Crash ==
    /\ disk' \in IF saving THEN {disk, [disk EXCEPT !.documents = Cut], [disk EXCEPT !.index = Cut]} ELSE {disk}
    /\ stored' = <<>> /\ index' = <<>> /\ saving' = FALSE
    /\ torn' = FALSE

(* MUTANT: the index is rebuilt lazily, so load leaves the one in memory. *)
LoadStore_keeps_index ==
    /\ ~saving /\ disk.documents.state = "whole"
    /\ stored' = disk.documents.entries
    /\ index' = index
    /\ torn' = disk.half
    /\ UNCHANGED <<disk, saving>>

(* load: without the documents' file, or with a cut one, it changes nothing;*)
(* the index in memory stays when its file is missing, or is cut, on which  *)
(* load raises.                                                             *)
LoadStore ==
    /\ ~saving /\ disk.documents.state = "whole"
    /\ stored' = disk.documents.entries
    /\ index' = IF disk.index.state = "whole" THEN disk.index.entries ELSE index
    /\ torn' = disk.half
    /\ UNCHANGED <<disk, saving>>

-----------------------------------------------------------------------------
(* search: the positions of the top_k nearest vectors, those past the end   *)
(* of the documents left out; all documents are compared when the index is  *)
(* empty.  Of equally near ones the earlier is taken.                       *)
Nearer(of, i, j) == Similarity[of[i]] > Similarity[of[j]] \/ (Similarity[of[i]] = Similarity[of[j]] /\ i < j)
Nearest(topK) ==
    LET of == IF index = <<>> THEN stored ELSE index
    IN {i \in DOMAIN of : Cardinality({j \in DOMAIN of : Nearer(of, j, i)}) < topK} \cap DOMAIN stored
ScoreOf(i) == Similarity[IF index = <<>> THEN stored[i] ELSE index[i]]

(* _build_index and keyword_search: a document indexed twice counts twice.  *)
KeywordScore(indexed, d) == Cardinality({i \in DOMAIN indexed : indexed[i] = d}) * Terms[d]

(* hybrid_search: each of the two scores is divided by the best of its      *)
(* kind (or by one when that is zero), in alpha = 7 parts to 3.  A document *)
(* in the store twice keeps the score of the later.                         *)
Best(scores) == IF scores = {} \/ Max(scores) = 0 THEN 100 ELSE Max(scores)
Hybrid(indexed) ==
    LET near  == Nearest(20)
        hits  == {d \in ToSet(indexed) : KeywordScore(indexed, d) > 0}
        vec   == Best({ScoreOf(i) : i \in near})
        kw    == Best({KeywordScore(indexed, d) : d \in hits})
        (* n/m in thousandths; m may be negative *)
        over(n, m) == IF m > 0 THEN (n * 1000) \div m ELSE (-n * 1000) \div (-m)
        place(d)   == CHOOSE i \in near : stored[i] = d /\
                          \A j \in near : stored[j] = d => ~Nearer(IF index = <<>> THEN stored ELSE index, i, j) \/ i = j
    IN [d \in {stored[i] : i \in near} \cup hits |->
            (IF \E i \in near : stored[i] = d THEN 7 * over(ScoreOf(place(d)), vec) ELSE 0)
          + (IF d \in hits THEN 3 * over(KeywordScore(indexed, d), kw) ELSE 0)]

Next == AddPapers \/ SaveDocuments \/ SaveIndex \/ Crash \/ LoadStore
Spec == Init /\ [][Next]_storeVars

-----------------------------------------------------------------------------
(* Every position of the index is that of the document its vector was made  *)
(* of, unless the files of a save that never finished were loaded: what a   *)
(* search returns was found, and with the score of that document, and a     *)
(* document that is as near and has as many of the terms as another does    *)
(* not come after it if any document is like the query at all               *)
(* (vector_store.py:86-169, rag_engine.py:157-188).                         *)
FoundIsOwn ==
    ~torn =>
        /\ index = stored
        /\ \A i \in Nearest(1) : ScoreOf(i) = Max({Similarity[stored[j]] : j \in DOMAIN stored})
        /\ LET ranked == Hybrid(stored) IN
           (\E i \in DOMAIN stored : Similarity[stored[i]] > 0) =>
             \A d, e \in DOMAIN ranked :
               /\ Similarity[d] >= Similarity[e] /\ KeywordScore(stored, d) >= KeywordScore(stored, e)
               => ranked[d] >= ranked[e]
=============================================================================
