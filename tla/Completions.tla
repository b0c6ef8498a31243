---------------------------- MODULE Completions -----------------------------
(***************************************************************************)
(* How a deception is completed: the harness whose stages most are called  *)
(* from, and the exchange between its client of the model, the gateway and *)
(* the provider.  One instance of each, as in Components.                  *)
(***************************************************************************)
EXTENDS Callers, Integers, Sequences, FiniteSets

CONSTANTS
    Situations, Experts, MaxRetries, MaxRuns,                   \* HarnessModes
    CacheResponses, MonthLength, MaxDays, MaxAsked, MaxPosts    \* Exchange

VARIABLES
    verifier, caller, answered, swapped, runs,
    day, asked, posts, keptAnswer, burned, daily, monthly, total, told, calls

-----------------------------------------------------------------------------
Modes == INSTANCE HarnessModes WITH Callers <- Threads, answers <- answered
Bill  == INSTANCE Exchange

ASSUME CompletionAssumptions == Modes!ModesAssumption /\ Bill!ExchangeAssumption

modesVars == <<verifier, caller, answered, swapped, runs>>
billVars  == <<day, asked, posts, keptAnswer, burned, daily, monthly, total, told, calls>>
=============================================================================
