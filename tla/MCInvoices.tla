----------------------------- MODULE MCInvoices -----------------------------
(* Small invoice registers for TLC. *)
EXTENDS Invoices, TLC

CONSTANTS p1, p2    \* PostInvoice requests

PostSymmetry == Permutations(Posts)
=============================================================================
