--------------------------- MODULE MCInvoicePage ---------------------------
(* The invoice view with two calls at a time, for TLC. *)
EXTENDS InvoicePage, TLC

CONSTANTS c1, c2    \* calls

CallSymmetry == Permutations(Calls)
=============================================================================
