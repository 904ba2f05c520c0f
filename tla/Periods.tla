------------------------------ MODULE Periods ------------------------------
(***************************************************************************)
(* The dates the page works out with Date objects                          *)
(* (frontend/static/js/app.js): the due date of an invoice and the periods *)
(* of the VAT report.  A date that is read is midnight in UTC; its days    *)
(* and months are moved in local time; what is written is the date in UTC. *)
(*                                                                         *)
(* Days are numbered.  Local time is one hour ahead of UTC, in summer two; *)
(* summer time begins and ends at one o'clock in UTC, so that a day is one *)
(* of summer if it begins in summer time.  A fiscal year is twelve months. *)
(***************************************************************************)
EXTENDS Integers

CONSTANTS
    LastMonthStart, \* bound: months are numbered 0..LastMonthStart
    MonthStart,     \* the day on which each month begins
    Summers,        \* the first and the last day of each summer time
    FiscalStarts,   \* the months with which fiscal years begin
    InvoiceDates,   \* the days invoices are dated
    PaymentTerms    \* the terms of payment, in days

ASSUME PeriodsAssumption ==
    /\ LastMonthStart \in Nat
    /\ MonthStart \in [0..LastMonthStart -> Int]
    /\ \A m \in 1..LastMonthStart : MonthStart[m - 1] < MonthStart[m]
    /\ Summers \subseteq Int \X Int
    /\ FiscalStarts \subseteq 0..(LastMonthStart - 12)
    /\ InvoiceDates \subseteq Int
    /\ PaymentTerms \subseteq Nat

VARIABLES
    billDates,      \* date, payment_terms_days and due_date of an invoice
    fiscalStart,    \* the first month of the fiscal year that is active
    periods         \* vatStartDate and vatEndDate, as each preset set them

periodVars == <<billDates, fiscalStart, periods>>

Quarters == 0..3
Unset == [start |-> 0, end |-> 0, set |-> FALSE]

IsSummer(day) == \E s \in Summers : s[1] <= day /\ day <= s[2]
Offset(day) == IF IsSummer(day) THEN 2 ELSE 1

(* toISOString, at this hour of a local day. *)
ToISO(hour, day) == IF hour < Offset(day) THEN day - 1 ELSE day

(* Mutant of UpdateInvoiceDueDate: the day is moved in whole months. *)
UpdateInvoiceDueDateByMonth(date, terms) ==
    /\ billDates' = [date |-> date, terms |-> terms,
                     due |-> ToISO(Offset(date), date + 30 * (terms \div 30))]
    /\ UNCHANGED <<fiscalStart, periods>>

(* The hour of the date is kept when the day is moved. *)
UpdateInvoiceDueDate(date, terms) ==
    /\ billDates' = [date |-> date, terms |-> terms,
                     due |-> ToISO(Offset(date), date + terms)]
    /\ UNCHANGED <<fiscalStart, periods>>

(* Mutant of QuarterOf: the last day is left on the next quarter. *)
QuarterOfAndNext(m, q) ==
    LET hour == Offset(MonthStart[m])
    IN  [start |-> ToISO(hour, MonthStart[m + 3 * q]),
         end |-> ToISO(hour, MonthStart[m + 3 * q + 3]),
         set |-> TRUE]

(* Mutant of QuarterOf: a quarter of 90 days. *)
QuarterOfDays(m, q) ==
    LET hour == Offset(MonthStart[m])
        start == ToISO(hour, MonthStart[m + 3 * q])
    IN  [start |-> start, end |-> start + 89, set |-> TRUE]

QuarterOf(m, q) ==
    LET hour == Offset(MonthStart[m])
    IN  [start |-> ToISO(hour, MonthStart[m + 3 * q]),
         end |-> ToISO(hour, MonthStart[m + 3 * q + 3] - 1),
         set |-> TRUE]

(* The start of the year is read and written, its end is taken as it is. *)
YearOfPreset(m) == [start |-> ToISO(Offset(MonthStart[m]), MonthStart[m]),
                    end |-> MonthStart[m + 12] - 1, set |-> TRUE]

SetPreset(preset) ==
    /\ periods' = [periods EXCEPT ![preset] =
                      IF preset = 4 THEN YearOfPreset(fiscalStart)
                                    ELSE QuarterOf(fiscalStart, preset)]
    /\ UNCHANGED <<billDates, fiscalStart>>

PeriodsInit ==
    /\ billDates = [date |-> 0, terms |-> 0, due |-> 0]
    /\ fiscalStart \in FiscalStarts
    /\ periods = [p \in 0..4 |-> Unset]

DueDateNext == \E date \in InvoiceDates, terms \in PaymentTerms :
                  UpdateInvoiceDueDate(date, terms)
PresetNext == \E preset \in 0..4 : SetPreset(preset)
PeriodsNext == DueDateNext \/ PresetNext

PeriodsSpec == PeriodsInit /\ [][PeriodsNext]_periodVars

-----------------------------------------------------------------------------
(* Properties.                                                             *)

(* A due date is never after the last day of payment, and at most one day  *)
(* before it: that day is lost if summer time begins in between            *)
(* (app.js:501-506).                                                       *)
DueDateNear ==
    LET last == billDates.date + billDates.terms
    IN  /\ billDates.due \in {last - 1, last}
        /\ IsSummer(billDates.date) \/ ~IsSummer(last)
              => billDates.due = last

(* The four quarters leave no day of the year without a VAT report:  the   *)
(* first begins and the last ends with the year, and each begins before    *)
(* the one before it has left off, unless summer time ends on the last day *)
(* of a quarter (app.js:1323-1355).                                        *)
NoDayLeftOut ==
    LET Starts(q) == MonthStart[fiscalStart + 3 * q]
    IN  /\ periods[0].set => periods[0].start = Starts(0)
        /\ \A q \in 1..3 :
              /\ periods[q - 1].set /\ periods[q].set
              /\ IsSummer(Starts(q) - 1) => IsSummer(Starts(q))
              => periods[q].start <= periods[q - 1].end + 1
        /\ /\ periods[3].set
           /\ IsSummer(Starts(4) - 1) => IsSummer(Starts(0))
           => periods[3].end = Starts(4) - 1

(* A quarter is at most one day off, and the report of a year is exactly   *)
(* of the year (app.js:1335-1347).                                         *)
PeriodsNear ==
    /\ \A q \in Quarters : periods[q].set =>
          LET m == fiscalStart + 3 * q
          IN  /\ periods[q].start \in {MonthStart[m] - 1, MonthStart[m]}
              /\ periods[q].end \in {MonthStart[m + 3] - 2,
                                     MonthStart[m + 3] - 1}
    /\ periods[4].set =>
          /\ periods[4].start = MonthStart[fiscalStart]
          /\ periods[4].end = MonthStart[fiscalStart + 12] - 1

(* Dates that are moved are off by one day at the most, and by none that a *)
(* VAT report would miss (app.js:501-506, 1323-1355).                      *)
DatesNear ==
    /\ DueDateNear
    /\ NoDayLeftOut
    /\ PeriodsNear

-----------------------------------------------------------------------------
(* What the page says and the code does not do.                            *)

(* "Kvartal 1 (Jan-Mar)", "Kvartal 2 (Apr-Jun)" and so on                  *)
(* (index.html:641-644): a quarter is three whole months.                  *)
QuartersAsNamed ==
    \A q \in Quarters : periods[q].set =>
        LET m == fiscalStart + 3 * q
        IN  /\ periods[q].start = MonthStart[m]
            /\ periods[q].end = MonthStart[m + 3] - 1
=============================================================================
