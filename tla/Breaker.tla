------------------------------ MODULE Breaker ------------------------------
(***************************************************************************)
(* What a circuit breaker promises: it lets traffic back only by way of    *)
(* HalfOpen, any failure there opens it again, and it closes only when the *)
(* last Needed reports were all successes.  How it counts is left to those *)
(* that implement it.                                                      *)
(***************************************************************************)
EXTENDS Naturals

CONSTANT Needed         \* successes in a row that close it

VARIABLES
    phase,              \* "Closed", "Open", "HalfOpen"
    streak              \* successes since the last failure, at most Needed

Longer == IF streak < Needed THEN streak + 1 ELSE streak

Success ==
    /\ streak' = Longer
    /\ phase'  = IF phase = "HalfOpen" /\ streak' = Needed THEN "Closed" ELSE phase

(* A success that is not enough, or that comes before the HalfOpen period   *)
(* counts again, may leave a half-open breaker as it is.                    *)
EarlySuccess ==
    /\ phase = "HalfOpen"
    /\ streak' = Longer
    /\ UNCHANGED phase

Failure ==
    /\ streak' = 0
    /\ \/ phase = "Closed" /\ UNCHANGED phase
       \/ phase' = "Open"

Probe ==
    /\ phase = "Open"
    /\ phase' = "HalfOpen"
    /\ UNCHANGED streak

Init == phase = "Closed" /\ streak = 0
Next == Success \/ EarlySuccess \/ Failure \/ Probe
Spec == Init /\ [][Next]_<<phase, streak>>
=============================================================================
