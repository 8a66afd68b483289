-------------------------- MODULE MCRecurringVisits --------------------------
(* A small instance of RecurringVisits for TLC. *)
EXTENDS RecurringVisits, TLC

\* A rule on the first and third date, or on the second and third.
TheRules == {{1, 3}, {2, 3}}
=============================================================================
