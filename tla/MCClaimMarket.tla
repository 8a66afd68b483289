---------------------------- MODULE MCClaimMarket ----------------------------
(* Small instances of ClaimMarket for TLC. *)
EXTENDS ClaimMarket, TLC

\* The bench is interchangeable, and so are office requests.
Symmetry == Permutations(Cleaners) \cup Permutations(Staff)
=============================================================================
