----------------------------- MODULE SieImport -----------------------------
(***************************************************************************)
(* SIE files and the close of a year, in the settings of the page          *)
(* (frontend/static/js/app.js) and on its tools page (tools.js).  An       *)
(* import is analysed first; what the analysis says is put before the user *)
(* who confirms it.  The two pages keep the file and the year differently: *)
(* the first takes both when the file is chosen, the second lets them be   *)
(* chosen again while the analysis is under way.                           *)
(*                                                                         *)
(* Years are numbered in order of their start; year 0 stands for no year.  *)
(***************************************************************************)
EXTENDS Naturals

CONSTANTS
    SieFiles,       \* the files there are
    NoFile,         \* no file
    SieYears,       \* the fiscal years, from 1 on
    ValidSie,       \* which files can be imported into which empty years
    MaxSieRush,     \* bound: how often the user does not wait
    MaxSieErrors    \* bound: requests lost

ASSUME SieImportAssumption ==
    /\ NoFile \notin SieFiles
    /\ SieYears \in Nat \ {0}
    /\ ValidSie \subseteq SieFiles \X (1..SieYears)
    /\ MaxSieRush \in Nat
    /\ MaxSieErrors \in Nat

VARIABLES
    booked,         \* the server: years that are not empty
    sieActiveYear,  \* activeFiscalYearId
    sieForm,        \* by page: file, year, preview and isUploadingSie
    sieRequests,    \* requests under way
    closing,        \* generateIB of the tools page
    exportYear,     \* selectedExportYear
    (* what has happened, for the properties *)
    imports,        \* what was imported, with the preview confirmed
    closed,         \* years closed into others, with the year named
    exported,       \* the years in saved files, with those in their names
    sieRush,        \* how often the user did not wait
    sieErrors       \* requests lost

siePast == <<imports, closed, exported>>
sieVars == <<booked, sieActiveYear, sieForm, sieRequests, closing, exportYear,
             siePast, sieRush, sieErrors>>

Pages == {"app", "tools"}
AnyFile == SieFiles \cup {NoFile}
SieYear == 0..SieYears
NoPreview == [file |-> NoFile, year |-> 0, valid |-> FALSE]
NoClosing == [source |-> 0, target |-> 0, pc |-> "idle"]
NoForm == [file |-> NoFile, year |-> 0, preview |-> NoPreview, busy |-> FALSE]

Request(p, step, file, year, preview) ==
    [page |-> p, step |-> step, file |-> file, year |-> year, seen |-> preview]
Sends(r) == sieRequests' = sieRequests \cup {r}
Over(r) == sieRequests' = sieRequests \ {r}

(* The preview covers the page it is on, and the other one. *)
NoPreviewShown == \A p \in Pages : sieForm[p].preview = NoPreview

SieUserActs ==
    /\ sieRush' = sieRush +
          IF sieRequests # {} \/ closing.pc # "idle" THEN 1 ELSE 0
    /\ sieRush' <= MaxSieRush

LosesSie == sieErrors < MaxSieErrors /\ sieErrors' = sieErrors + 1

-----------------------------------------------------------------------------
(* What the user chooses.                                                  *)

SieChangeYear(y) ==
    /\ NoPreviewShown
    /\ SieUserActs
    /\ sieActiveYear' = y
    /\ UNCHANGED <<booked, sieForm, sieRequests, closing, exportYear, siePast,
                   sieErrors>>

(* The tools page: importSieYear and handleSieSelected. *)
ChooseForImport(file, y) ==
    /\ NoPreviewShown
    /\ SieUserActs
    /\ sieForm' = [sieForm EXCEPT !["tools"].file = file, !["tools"].year = y]
    /\ UNCHANGED <<booked, sieActiveYear, sieRequests, closing, exportYear,
                   siePast, sieErrors>>

-----------------------------------------------------------------------------
(* The import.                                                             *)

(* Mutant of UploadSIEFile: a year that is kept from before stays. *)
UploadSIEFileKeepsYear(file) ==
    /\ NoPreviewShown
    /\ SieUserActs
    /\ sieForm' = [sieForm EXCEPT !["app"].file = file,
                       !["app"].year = IF @ = 0 THEN sieActiveYear ELSE @,
                       !["app"].busy = TRUE]
    /\ Sends(Request("app", "analyse", file, sieActiveYear, NoPreview))
    /\ UNCHANGED <<booked, sieActiveYear, closing, exportYear, siePast,
                   sieErrors>>

(* uploadSIEFile of app.js: a file is chosen and analysed at once, for the *)
(* year that is active.                                                    *)
UploadSIEFile(file) ==
    /\ NoPreviewShown
    /\ SieUserActs
    /\ sieForm' = [sieForm EXCEPT !["app"].file = file,
                                  !["app"].year = sieActiveYear,
                                  !["app"].busy = TRUE]
    /\ Sends(Request("app", "analyse", file, sieActiveYear, NoPreview))
    /\ UNCHANGED <<booked, sieActiveYear, closing, exportYear, siePast,
                   sieErrors>>

(* uploadSieFile of tools.js. *)
UploadSieFile ==
    LET form == sieForm["tools"]
    IN  /\ NoPreviewShown
        /\ SieUserActs
        /\ form.file # NoFile /\ form.year # 0 /\ ~form.busy
        /\ sieForm' = [sieForm EXCEPT !["tools"].busy = TRUE]
        /\ Sends(Request("tools", "analyse", form.file, form.year, NoPreview))
        /\ UNCHANGED <<booked, sieActiveYear, closing, exportYear, siePast,
                       sieErrors>>

Importable(r) == <<r.file, r.year>> \in ValidSie /\ r.year \notin booked

AnalysisArrives(r) ==
    /\ r.step = "analyse"
    /\ sieForm' = [sieForm EXCEPT
          ![r.page].busy = FALSE,
          ![r.page].preview = [file |-> r.file, year |-> r.year,
                               valid |-> Importable(r)]]
    /\ Over(r)
    /\ UNCHANGED <<booked, sieActiveYear, closing, exportYear, siePast,
                   sieRush, sieErrors>>

(* An error makes app.js forget the file and the year it has by then, and  *)
(* leaves those of the tools page. *)
AnalysisFails(r) ==
    /\ r.step = "analyse"
    /\ LosesSie
    /\ sieForm' = [sieForm EXCEPT
          ![r.page].busy = FALSE,
          ![r.page].file = IF r.page = "app" THEN NoFile ELSE @,
          ![r.page].year = IF r.page = "app" THEN 0 ELSE @]
    /\ Over(r)
    /\ UNCHANGED <<booked, sieActiveYear, closing, exportYear, siePast,
                   sieRush>>

ClosePreview(p) ==
    /\ sieForm[p].preview # NoPreview
    /\ SieUserActs
    /\ sieForm' = [sieForm EXCEPT ![p].preview = NoPreview]
    /\ UNCHANGED <<booked, sieActiveYear, sieRequests, closing, exportYear,
                   siePast, sieErrors>>

(* Only a preview without errors can be confirmed.  What is imported is    *)
(* the file and the year the page has by now.                              *)
ConfirmImportSie(p) ==
    LET form == sieForm[p]
    IN  /\ SieUserActs
        /\ form.preview.valid /\ ~form.busy
        /\ form.file # NoFile /\ form.year # 0
        /\ sieForm' = [sieForm EXCEPT ![p].busy = TRUE]
        /\ Sends(Request(p, "import", form.file, form.year, form.preview))
        /\ UNCHANGED <<booked, sieActiveYear, closing, exportYear, siePast,
                       sieErrors>>

ImportedBy(r) ==
    /\ Importable(r)
    /\ booked' = booked \cup {r.year}
    /\ imports' = imports \cup {<<r.file, r.year, r.seen.file, r.seen.year>>}

(* Mutant of AfterImport: the tools page keeps the preview. *)
AfterImportKeepsPreview(p) ==
    sieForm' = [sieForm EXCEPT
        ![p].file = NoFile,
        ![p].year = IF p = "app" THEN 0 ELSE @,
        ![p].preview = IF p = "app" THEN NoPreview ELSE @,
        ![p].busy = FALSE]

(* app.js goes on to refresh the page before its flag goes down. *)
AfterImport(p) ==
    sieForm' = [sieForm EXCEPT
        ![p].file = NoFile,
        ![p].year = IF p = "app" THEN 0 ELSE @,
        ![p].preview = NoPreview,
        ![p].busy = IF p = "app" THEN @ ELSE FALSE]

ImportSucceeds(r) ==
    /\ r.step = "import"
    /\ ImportedBy(r)
    /\ AfterImport(r.page)
    /\ sieRequests' = (sieRequests \ {r}) \cup
          IF r.page = "app"
          THEN {Request("app", "refresh", NoFile, 0, NoPreview)} ELSE {}
    /\ UNCHANGED <<sieActiveYear, closing, exportYear, closed, exported,
                   sieRush, sieErrors>>

(* Refused, or lost on its way there or back. *)
ImportFails(r) ==
    /\ r.step = "import"
    /\ \/ ~Importable(r) /\ UNCHANGED <<booked, imports, sieErrors>>
       \/ LosesSie /\ ImportedBy(r)
       \/ LosesSie /\ UNCHANGED <<booked, imports>>
    /\ sieForm' = [sieForm EXCEPT ![r.page].busy = FALSE]
    /\ Over(r)
    /\ UNCHANGED <<sieActiveYear, closing, exportYear, closed, exported,
                   sieRush>>

(* Mutant of SieRefreshed: the flag stays up. *)
SieRefreshedKeepsFlag(r) ==
    /\ r.step = "refresh"
    /\ Over(r)
    /\ UNCHANGED <<booked, sieActiveYear, sieForm, closing, exportYear,
                   siePast, sieRush, sieErrors>>

SieRefreshed(r) ==
    /\ r.step = "refresh"
    /\ sieForm' = [sieForm EXCEPT !["app"].busy = FALSE]
    /\ Over(r)
    /\ UNCHANGED <<booked, sieActiveYear, closing, exportYear, siePast,
                   sieRush, sieErrors>>

-----------------------------------------------------------------------------
(* The close of a year, and the export.                                    *)

(* The first year that starts after the source has ended. *)
TargetOf(y) == IF y \in 1..(SieYears - 1) THEN y + 1 ELSE 0

(* Mutant of ChooseSource: the name of the target is not watched. *)
ChooseSourceUnwatched(y) ==
    /\ NoPreviewShown
    /\ SieUserActs
    /\ closing' = [closing EXCEPT !.source = y,
                                  !.target = IF @ = 0 THEN TargetOf(y) ELSE @]
    /\ UNCHANGED <<booked, sieActiveYear, sieForm, sieRequests, exportYear,
                   siePast, sieErrors>>

(* ibSourceYear, whose watcher names the target. *)
ChooseSource(y) ==
    /\ NoPreviewShown
    /\ SieUserActs
    /\ closing' = [closing EXCEPT !.source = y, !.target = TargetOf(y)]
    /\ UNCHANGED <<booked, sieActiveYear, sieForm, sieRequests, exportYear,
                   siePast, sieErrors>>

(* The question stops the page; the target is looked up once more. *)
GenerateIB ==
    /\ NoPreviewShown
    /\ closing.pc = "idle"
    /\ SieUserActs
    /\ closing.source # 0 /\ closing.target # 0
    /\ closed' = closed \cup
          {<<closing.source, TargetOf(closing.source), closing.target>>}
    /\ closing' = [closing EXCEPT !.pc = "sent"]
    /\ UNCHANGED <<booked, sieActiveYear, sieForm, sieRequests, exportYear,
                   imports, exported, sieErrors>>

(* The source is taken off after a success, whichever it is by then. *)
IBReturns ==
    /\ closing.pc = "sent"
    /\ \/ closing' = NoClosing /\ UNCHANGED sieErrors
       \/ LosesSie /\ closing' = [closing EXCEPT !.pc = "idle"]
    /\ UNCHANGED <<booked, sieActiveYear, sieForm, sieRequests, exportYear,
                   siePast, sieRush>>

ChooseExport(y) ==
    /\ NoPreviewShown
    /\ SieUserActs
    /\ exportYear' = y
    /\ UNCHANGED <<booked, sieActiveYear, sieForm, sieRequests, closing,
                   siePast, sieErrors>>

(* Mutant of ExportSIE4: the year of the import is asked for. *)
ExportSIE4OfImport ==
    /\ NoPreviewShown
    /\ SieUserActs
    /\ Sends(Request("tools", "export", NoFile, sieForm["tools"].year,
                     NoPreview))
    /\ UNCHANGED <<booked, sieActiveYear, sieForm, closing, exportYear,
                   siePast, sieErrors>>

ExportSIE4 ==
    /\ NoPreviewShown
    /\ SieUserActs
    /\ Sends(Request("tools", "export", NoFile, exportYear, NoPreview))
    /\ UNCHANGED <<booked, sieActiveYear, sieForm, closing, exportYear,
                   siePast, sieErrors>>

(* The file is named after the year that is chosen by now. *)
SieFileArrives(r) ==
    /\ r.step = "export"
    /\ \/ exported' = exported \cup {<<r.year, exportYear>>}
          /\ UNCHANGED sieErrors
       \/ LosesSie /\ UNCHANGED exported
    /\ Over(r)
    /\ UNCHANGED <<booked, sieActiveYear, sieForm, closing, exportYear,
                   imports, closed, sieRush>>

-----------------------------------------------------------------------------
(* The first year is preset on the tools page (fetchFiscalYears). *)
SieInit ==
    /\ booked = {}
    /\ sieActiveYear \in 1..SieYears
    /\ sieForm = [p \in Pages |->
          [NoForm EXCEPT !.year = IF p = "tools" THEN 1 ELSE 0]]
    /\ sieRequests = {}
    /\ closing = NoClosing
    /\ exportYear = 1
    /\ imports = {} /\ closed = {} /\ exported = {}
    /\ sieRush = 0 /\ sieErrors = 0

SieImportNext ==
    \/ \E y \in 1..SieYears :
          SieChangeYear(y) \/ \E file \in SieFiles : ChooseForImport(file, y)
    \/ \E file \in SieFiles : UploadSIEFile(file)
    \/ UploadSieFile
    \/ \E p \in Pages : ConfirmImportSie(p) \/ ClosePreview(p)
    \/ \E r \in sieRequests :
          \/ AnalysisArrives(r) \/ AnalysisFails(r)
          \/ ImportSucceeds(r) \/ ImportFails(r) \/ SieRefreshed(r)

SieCloseNext ==
    \/ \E y \in 1..SieYears : ChooseSource(y) \/ ChooseExport(y)
    \/ GenerateIB \/ IBReturns \/ ExportSIE4
    \/ \E r \in sieRequests : SieFileArrives(r)

SieNext == SieImportNext \/ SieCloseNext

SieSpec == SieInit /\ [][SieNext]_sieVars

-----------------------------------------------------------------------------
(* Properties.                                                             *)

(* Every variable has its type, and the flag of a page is up only while a  *)
(* request of it is under way (app.js:1508, 1544, tools.js:199, 231).      *)
SieTypeOK ==
    /\ booked \subseteq 1..SieYears
    /\ sieActiveYear \in 1..SieYears
    /\ \A p \in Pages :
          /\ sieForm[p].file \in AnyFile
          /\ sieForm[p].year \in SieYear
          /\ sieForm[p].busy => \E r \in sieRequests :
                                    r.page = p /\ r.step # "export"
    /\ \A r \in sieRequests : r.page \in Pages /\ r.year \in SieYear
    /\ closing.pc \in {"idle", "sent"}
    /\ closing.source \in SieYear /\ closing.target \in SieYear
    /\ exportYear \in 1..SieYears
    /\ sieRush \in 0..MaxSieRush
    /\ sieErrors \in 0..MaxSieErrors

(* Who waits for the analysis imports what it was made of: the file that   *)
(* was previewed, into the year it was previewed for (app.js:1513-1521,    *)
(* tools.js:203-210), also after errors and when it is tried again.        *)
ImportedWasPreviewed ==
    sieRush = 0 => \A i \in imports : i[1] = i[3] /\ i[2] = i[4]

(* A preview that has come true is not left on the screen: the year of a   *)
(* preview without errors is still empty (app.js:1536, tools.js:219).      *)
PreviewStillTrue ==
    sieRush = 0 /\ sieErrors = 0 => \A p \in Pages :
        sieForm[p].preview.valid => sieForm[p].preview.year \notin booked

(* Balances go to the year that was named (tools.js:30-53, 131-137).       *)
ClosedAsNamed == \A c \in closed : c[2] = c[3]

(* Who waits for an export gets it under the name of its year              *)
(* (tools.js:100-120).                                                     *)
ExportedAsNamed == sieRush = 0 => \A e \in exported : e[1] = e[2]

(* The tools: files and years are those on the screen, also when others    *)
(* were chosen, or requests failed, in between (app.js:1490-1540,          *)
(* tools.js:20-219).                                                       *)
SieAsShown ==
    /\ ImportedWasPreviewed
    /\ PreviewStillTrue
    /\ ClosedAsNamed
    /\ ExportedAsNamed
=============================================================================
