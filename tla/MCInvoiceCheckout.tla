-------------------------- MODULE MCInvoiceCheckout --------------------------
(* Small instances of InvoiceCheckout for TLC. *)
EXTENDS InvoiceCheckout, TLC

\* Taps and sessions are interchangeable.
Symmetry == Permutations(Taps) \cup Permutations(Sessions)
=============================================================================
