----------------------------- MODULE MCSandbox -----------------------------
(***************************************************************************)
(* Sandbox for TLC.  The sessions are interchangeable and so are the       *)
(* threads: nothing orders or names them.                                  *)
(***************************************************************************)
EXTENDS Sandbox, TLC

(* Only the deceiver; the classifier and the deceiver. *)
DeceiverOnly == <<"generate">>
TwoStages    == <<"classification", "generate">>

Symmetry == Permutations(Threads) \cup Permutations(Sids)
=============================================================================
