---------------------------- MODULE OutageDetector ----------------------------
(***************************************************************************)
(* What the prober promises about announcements: an outage is said exactly *)
(* when the results in a row that failed reach Down, its end is said once  *)
(* it had been said, and an application that leaves the fleet is forgotten *)
(* without a word.                                                         *)
(***************************************************************************)
EXTENDS Naturals

CONSTANTS
    App,
    Down      \* FAILURES_BEFORE_DOWN

VARIABLES
    streak,   \* App -> failures in a row, counted up to Down + 1
    said      \* App -> what the user was last told: "up" is also the silence before

vars == <<streak, said>>

Init ==
    /\ streak = [a \in App |-> 0]
    /\ said = [a \in App |-> "up"]

Result(a, ok) ==
    /\ streak' = [streak EXCEPT ![a] =
                    IF ok THEN 0 ELSE IF @ > Down THEN @ ELSE @ + 1]
    /\ said' = [said EXCEPT ![a] = IF streak'[a] >= Down THEN "down" ELSE "up"]

Forget(S) ==
    /\ streak' = [a \in App |-> IF a \in S THEN 0 ELSE streak[a]]
    /\ said' = [a \in App |-> IF a \in S THEN "up" ELSE said[a]]

Next ==
    \/ \E a \in App, ok \in BOOLEAN : Result(a, ok)
    \/ \E S \in SUBSET App : Forget(S)

Spec == Init /\ [][Next]_vars
=============================================================================
