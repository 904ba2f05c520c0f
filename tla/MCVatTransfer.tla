--------------------------- MODULE MCVatTransfer ---------------------------
(* Small workspaces with VAT transfers for TLC. *)
EXTENDS MCVerifications, VatTransfer, TLC

CONSTANTS r1, r2    \* requests

MCOneYear == <<1, 1>>

(* The clock is in the second month at time 1. *)
MCMonthAtOnce == [t \in 0..MaxClock |-> IF t = 0 THEN 1 ELSE 2]

VatSymmetry == Permutations(Requests)
=============================================================================
