---------------------------- MODULE ReportView -----------------------------
(***************************************************************************)
(* The VAT page, the annual report and the files that are saved from them  *)
(* (frontend/static/js/app.js).  Each is asked for with the fiscal year    *)
(* that is active, or the period that is chosen, at that moment; answers   *)
(* come in any order.  A report stands for the year it was made for, year  *)
(* 0 for none; the periods of a year are not told apart.                   *)
(***************************************************************************)
EXTENDS Naturals

CONSTANTS
    ReportYears,    \* the fiscal years, from 1 on
    MaxImpatience,  \* bound: how often the user does not wait
    MaxErrors       \* bound: requests refused or lost

ASSUME ReportViewAssumption ==
    /\ ReportYears \in Nat \ {0}
    /\ MaxImpatience \in Nat
    /\ MaxErrors \in Nat

VARIABLES
    activeYear,     \* activeFiscalYearId
    vatPeriod,      \* the year of vatStartDate and vatEndDate, 0 if one lacks
    vatReport,      \* the year the VAT report is of
    vatTransfer,    \* how far transferVat has come
    financialReport,\* the year of the annual report
    isLoadingReport,
    reportsAsked,   \* requests under way
    (* what has happened, for the properties *)
    transfers,      \* periods posted, with the report and question shown
    saved,          \* the years in saved files, with those in their names
    impatience,     \* how often the user did not wait
    errors          \* requests refused or lost

vatPage == <<vatPeriod, vatReport, vatTransfer>>
reportPage == <<financialReport, isLoadingReport>>
reportPast == <<transfers, saved>>
reportVars == <<activeYear, vatPage, reportPage, reportsAsked, reportPast,
                impatience, errors>>

AnyYear == 0..ReportYears
NoTransfer == [pc |-> "idle", question |-> 0, report |-> 0, posted |-> 0]

(* The question of transferVat covers the page. *)
UserTurns ==
    /\ vatTransfer.pc # "ask"
    /\ impatience' = impatience +
          IF reportsAsked # {} \/ vatTransfer.pc # "idle" THEN 1 ELSE 0
    /\ impatience' <= MaxImpatience

Errs == errors < MaxErrors /\ errors' = errors + 1

Asks(what, y) == reportsAsked' = reportsAsked \cup {[what |-> what, year |-> y]}

Answered(what, y) ==
    /\ [what |-> what, year |-> y] \in reportsAsked
    /\ reportsAsked' = reportsAsked \ {[what |-> what, year |-> y]}

(* Another year becomes active.  What the pages show stays. *)
TurnToYear(y) ==
    /\ UserTurns
    /\ activeYear' = y
    /\ UNCHANGED <<vatPage, reportPage, reportsAsked, reportPast, errors>>

-----------------------------------------------------------------------------
(* VAT.                                                                    *)

(* Mutant of SetVatPreset: a report that is there is not made again. *)
SetVatPresetOnce ==
    /\ UserTurns
    /\ vatPeriod' = activeYear
    /\ IF vatReport = 0 THEN Asks("vat", activeYear) ELSE UNCHANGED reportsAsked
    /\ UNCHANGED <<activeYear, vatReport, vatTransfer, reportPage,
                   reportPast, errors>>

(* A period of the active year; the report is made at once. *)
SetVatPreset ==
    /\ UserTurns
    /\ vatPeriod' = activeYear
    /\ Asks("vat", activeYear)
    /\ UNCHANGED <<activeYear, vatReport, vatTransfer, reportPage,
                   reportPast, errors>>

(* calculateVatReport makes none if a date lacks. *)
CalculateVatReport(y) ==
    IF y # 0 THEN Asks("vat", y) ELSE UNCHANGED reportsAsked

(* The user changes a date, or clears it: then the report stays as it is.  *)
SetVatDates(y) ==
    /\ UserTurns
    /\ vatPeriod' = y
    /\ CalculateVatReport(y)
    /\ UNCHANGED <<activeYear, vatReport, vatTransfer, reportPage,
                   reportPast, errors>>

(* The answer: after an error there is no report. *)
VatReportArrives(y) ==
    /\ Answered("vat", y)
    /\ \/ vatReport' = y /\ UNCHANGED errors
       \/ vatReport' = 0 /\ Errs
    /\ UNCHANGED <<activeYear, vatPeriod, vatTransfer, reportPage, reportPast,
                   impatience>>

(* transferVat: the question names the period. *)
TransferVat ==
    /\ UserTurns
    /\ vatTransfer.pc = "idle"
    /\ vatReport # 0
    /\ vatTransfer' = [NoTransfer EXCEPT !.pc = "ask", !.question = vatPeriod,
                                         !.report = vatReport]
    /\ UNCHANGED <<activeYear, vatPeriod, vatReport, reportPage, reportsAsked,
                   reportPast, errors>>

(* Mutant of TransferDeclined: what was asked is kept. *)
TransferDeclinedKept ==
    /\ vatTransfer.pc = "ask"
    /\ vatTransfer' = [vatTransfer EXCEPT !.pc = "idle"]
    /\ UNCHANGED <<activeYear, vatPeriod, vatReport, reportPage, reportsAsked,
                   reportPast, impatience, errors>>

TransferDeclined ==
    /\ vatTransfer.pc = "ask"
    /\ vatTransfer' = NoTransfer
    /\ UNCHANGED <<activeYear, vatPeriod, vatReport, reportPage, reportsAsked,
                   reportPast, impatience, errors>>

(* Mutant of TransferConfirmed: the period of the active year is sent.     *)
TransferConfirmedForYear ==
    /\ vatTransfer.pc = "ask"
    /\ vatTransfer' = [vatTransfer EXCEPT !.pc = "sent", !.posted = activeYear]
    /\ UNCHANGED <<activeYear, vatPeriod, vatReport, reportPage, reportsAsked,
                   reportPast, impatience, errors>>

(* What is sent are the dates that are chosen by now. *)
TransferConfirmed ==
    /\ vatTransfer.pc = "ask"
    /\ vatTransfer' = [vatTransfer EXCEPT !.pc = "sent", !.posted = vatPeriod]
    /\ UNCHANGED <<activeYear, vatPeriod, vatReport, reportPage, reportsAsked,
                   reportPast, impatience, errors>>

Transferred == transfers' = transfers \cup
    {<<vatTransfer.posted, vatTransfer.question, vatTransfer.report>>}

(* The report is taken off, and made again once the page is refreshed.     *)
TransferAnswered ==
    /\ vatTransfer.pc = "sent"
    /\ vatTransfer.posted # 0
    /\ Transferred
    /\ vatTransfer' = NoTransfer
    /\ vatReport' = 0
    /\ CalculateVatReport(vatPeriod)
    /\ UNCHANGED <<activeYear, vatPeriod, reportPage, saved, impatience,
                   errors>>

(* The server refuses a period without a date. *)
TransferFails ==
    /\ vatTransfer.pc = "sent"
    /\ \/ Errs
       \/ vatTransfer.posted = 0 /\ UNCHANGED errors
    /\ \/ vatTransfer.posted # 0 /\ Transferred
       \/ UNCHANGED transfers
    /\ vatTransfer' = NoTransfer
    /\ UNCHANGED <<activeYear, vatPeriod, vatReport, reportPage, reportsAsked,
                   saved, impatience>>

-----------------------------------------------------------------------------
(* The annual report and the files.                                        *)

LoadFinancialReport ==
    /\ UserTurns
    /\ isLoadingReport' = TRUE
    /\ Asks("report", activeYear)
    /\ UNCHANGED <<activeYear, vatPage, financialReport, reportPast, errors>>

(* Mutant of ReportArrives: an error leaves the flag up. *)
ReportArrivesKeepsFlag(y) ==
    /\ Answered("report", y)
    /\ \/ /\ financialReport' = y
          /\ isLoadingReport' = FALSE
          /\ UNCHANGED errors
       \/ Errs /\ UNCHANGED reportPage
    /\ UNCHANGED <<activeYear, vatPage, reportPast, impatience>>

(* The flag goes down with the first answer, whatever it is. *)
ReportArrives(y) ==
    /\ Answered("report", y)
    /\ isLoadingReport' = FALSE
    /\ \/ financialReport' = y /\ UNCHANGED errors
       \/ Errs /\ UNCHANGED financialReport
    /\ UNCHANGED <<activeYear, vatPage, reportPast, impatience>>

(* Mutant of DownloadSamlingsplan: the year is left out of the request.    *)
DownloadSamlingsplanOfAll ==
    /\ UserTurns
    /\ Asks("plan", 0)
    /\ UNCHANGED <<activeYear, vatPage, reportPage, reportPast, errors>>

DownloadSamlingsplan ==
    /\ UserTurns
    /\ Asks("plan", activeYear)
    /\ UNCHANGED <<activeYear, vatPage, reportPage, reportPast, errors>>

(* The file is named after the year that is active by now. *)
SamlingsplanArrives(y) ==
    /\ Answered("plan", y)
    /\ \/ saved' = saved \cup {<<y, activeYear>>} /\ UNCHANGED errors
       \/ Errs /\ UNCHANGED saved
    /\ UNCHANGED <<activeYear, vatPage, reportPage, transfers, impatience>>

(* Made of the report that is there, which gives it its name. *)
DownloadExcel ==
    /\ UserTurns
    /\ financialReport # 0
    /\ saved' = saved \cup {<<financialReport, financialReport>>}
    /\ UNCHANGED <<activeYear, vatPage, reportPage, reportsAsked, transfers,
                   errors>>

(* The PDF of an invoice is named after the invoice it was asked for;      *)
(* invoices have the numbers of years here.                                *)
DownloadInvoicePDF(i) ==
    /\ UserTurns
    /\ Asks("invoice", i)
    /\ UNCHANGED <<activeYear, vatPage, reportPage, reportPast, errors>>

InvoicePDFArrives(i) ==
    /\ Answered("invoice", i)
    /\ \/ saved' = saved \cup {<<i, i>>} /\ UNCHANGED errors
       \/ Errs /\ UNCHANGED saved
    /\ UNCHANGED <<activeYear, vatPage, reportPage, transfers, impatience>>

-----------------------------------------------------------------------------
ReportInit ==
    /\ activeYear \in 1..ReportYears
    /\ vatPeriod = 0
    /\ vatReport = 0
    /\ vatTransfer = NoTransfer
    /\ financialReport = 0
    /\ isLoadingReport = FALSE
    /\ reportsAsked = {}
    /\ transfers = {}
    /\ saved = {}
    /\ impatience = 0
    /\ errors = 0

ReportNext ==
    \/ \E y \in AnyYear :
          \/ y # 0 /\ TurnToYear(y)
          \/ SetVatDates(y)
          \/ VatReportArrives(y)
          \/ ReportArrives(y)
          \/ SamlingsplanArrives(y)
          \/ y # 0 /\ DownloadInvoicePDF(y)
          \/ InvoicePDFArrives(y)
    \/ SetVatPreset
    \/ TransferVat \/ TransferDeclined \/ TransferConfirmed
    \/ TransferAnswered \/ TransferFails
    \/ LoadFinancialReport \/ DownloadSamlingsplan \/ DownloadExcel

ReportSpec == ReportInit /\ [][ReportNext]_reportVars

-----------------------------------------------------------------------------
(* Properties.                                                             *)

(* Every variable has its type.                                            *)
ReportTypeOK ==
    /\ activeYear \in 1..ReportYears
    /\ vatPeriod \in AnyYear
    /\ vatReport \in AnyYear
    /\ vatTransfer \in [pc : {"idle", "ask", "sent"}, question : AnyYear,
                        report : AnyYear, posted : AnyYear]
    /\ vatTransfer.pc = "idle" => vatTransfer = NoTransfer
    /\ financialReport \in AnyYear
    /\ isLoadingReport \in BOOLEAN
    /\ reportsAsked \subseteq
          [what : {"vat", "report", "plan", "invoice"}, year : AnyYear]
    /\ transfers \subseteq AnyYear \X AnyYear \X AnyYear
    /\ saved \subseteq AnyYear \X AnyYear
    /\ impatience \in 0..MaxImpatience
    /\ errors \in 0..MaxErrors

(* The period that is transferred and closed is the one the question       *)
(* named, whatever arrives while it is on the screen (app.js:1300-1312).   *)
TransferAsAsked == \A t \in transfers : t[1] = t[2]

(* ... and the one the report on the screen is of, for who waits for the   *)
(* report after he has chosen the period (app.js:1323-1355).               *)
TransferAsShown == impatience = 0 => \A t \in transfers : t[1] = t[3]

(* Who waits for a file gets it under the name of its year (app.js:825).   *)
SavedAsNamed == impatience = 0 => \A s \in saved : s[1] = s[2]

(* The report view waits only for what is under way (app.js:810-812).      *)
LoadingEnds == isLoadingReport => \E r \in reportsAsked : r.what = "report"

(* The reports: what is transferred, saved or waited for is what was asked *)
(* for, in whatever order the answers come (app.js:795-830, 1300-1355).    *)
ReportAsAsked ==
    /\ TransferAsAsked
    /\ TransferAsShown
    /\ SavedAsNamed
    /\ LoadingEnds
=============================================================================
