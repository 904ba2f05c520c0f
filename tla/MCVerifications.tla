-------------------------- MODULE MCVerifications --------------------------
(* A small workspace for TLC. *)
EXTENDS Verifications

CONSTANT a1         \* one attachment

(* Months 1 and 2 are in fiscal year 1, month 3 in fiscal year 2. *)
MCYearOf == <<1, 1, 2>>

(* The clock starts in the last month of fiscal year 1. *)
MCMonthAt == [t \in 0..MaxClock |-> 2 + t]
=============================================================================
