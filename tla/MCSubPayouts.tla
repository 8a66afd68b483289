---------------------------- MODULE MCSubPayouts ----------------------------
(* Small instances of SubPayouts for TLC. *)
EXTENDS SubPayouts, TLC

\* Rows, generate requests and transfers are interchangeable.
Symmetry ==
    Permutations(Work) \cup Permutations(Generators)
        \cup Permutations(TransferIds)
=============================================================================
