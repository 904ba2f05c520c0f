---------------------------- MODULE LedgerView -----------------------------
(***************************************************************************)
(* What the page shows of the books (frontend/static/js/app.js): the list  *)
(* of verifications, the dashboard and the chart of accounts, fetched for  *)
(* the fiscal year that is active when they are asked for, and the         *)
(* operations that change the books, also those of the invoice view, after *)
(* most of which they are fetched again.  Answers come in any order, and   *)
(* what an answer says is read from the server when it comes.  (ReportView *)
(* has the VAT report and the annual report, InvoicePage the invoices.)    *)
(*                                                                         *)
(* The books of a year are two version numbers: of its verifications and   *)
(* of its sums.  Years are numbered in order; year 0 stands for no year.   *)
(* One operation is under way at a time, next to any number of fetches;    *)
(* requests for the same thing are taken as one.                           *)
(***************************************************************************)
EXTENDS Naturals, FiniteSets

CONSTANTS
    MaxYears,       \* bound: fiscal years
    MaxWrites,      \* bound: changes to the books
    MaxRush,        \* bound: how often the user does not wait
    MaxLosses       \* bound: requests refused or lost

ASSUME LedgerViewAssumption ==
    /\ MaxYears \in Nat \ {0}
    /\ MaxWrites \in Nat
    /\ MaxRush \in Nat
    /\ MaxLosses \in Nat

VARIABLES
    (* the server *)
    years,          \* how many fiscal years there are
    books,          \* versions of the verifications and of the sums by year
    accounts,       \* version of the chart of accounts
    (* the page *)
    fiscalYears,    \* how many fiscal years the page knows
    activeFiscalYearId,
    formYear,       \* the year the date of the form lies in
    verifications,  \* which verifications are listed
    dashboard,      \* which sums are shown
    basAccounts,    \* which chart of accounts is shown
    asked,          \* fetches under way
    op,             \* the operation under way
    (* what has happened, for the properties *)
    unseen,         \* what changed of the active year, and is not fetched
    rush,           \* how often the user did not wait
    losses          \* requests refused or lost

serverBooks == <<years, books, accounts>>
yearVars == <<fiscalYears, activeFiscalYearId, formYear>>
shownVars == <<verifications, dashboard, basAccounts>>
ledgerVars == <<serverBooks, yearVars, shownVars, asked, op, unseen, rush,
                losses>>

Years == 1..MaxYears
NoOp == [kind |-> "none", pc |-> "idle", year |-> 0]
NoSums == [year |-> 0, version |-> 0]
Version(part, y) == IF y = 0 THEN 0 ELSE books[y][part]

MayWrite == /\ accounts < MaxWrites
            /\ \A y \in Years : /\ books[y].list < MaxWrites
                               /\ books[y].sums < MaxWrites

UserActs ==
    /\ op.pc # "ask"
    /\ rush' = rush + IF asked # {} \/ op.pc # "idle" THEN 1 ELSE 0
    /\ rush' <= MaxRush

Loses == losses < MaxLosses /\ losses' = losses + 1

-----------------------------------------------------------------------------
(* The fetches.                                                            *)

Fetch(what, y) == [what |-> what, year |-> y, then |-> "nothing"]
FetchVerifications(y) == {Fetch("list", y)}

(* Without an active year nothing is asked. *)
FetchDashboardData(y) == IF y = 0 THEN {} ELSE {Fetch("sums", y)}

(* Mutant of WatchedYear: the dashboard is not fetched. *)
WatchedYearListOnly(y) == /\ formYear' = y
                          /\ asked' = asked \cup FetchVerifications(y)

(* The watcher of activeFiscalYearId, with syncFormDateWithFiscalYear.     *)
WatchedYear(y) == /\ formYear' = y
                  /\ asked' = asked \cup FetchDashboardData(y)
                                    \cup FetchVerifications(y)

ChangeYear(y) ==
    /\ UserActs
    /\ y \in 1..fiscalYears
    /\ y # activeFiscalYearId
    /\ activeFiscalYearId' = y
    /\ WatchedYear(y)
    /\ UNCHANGED <<serverBooks, fiscalYears, shownVars, op, unseen, losses>>

(* Promise.all of the fetches.  Inbox and customers are refreshed as well. *)
RefreshAllData(y) ==
    FetchVerifications(y) \cup FetchDashboardData(y)
    \cup {Fetch("accounts", 0), Fetch("years", 0)}

(* submitPost waits for the list before it asks for the sums. *)
Follow(f) == IF f.then = "sums"
             THEN FetchDashboardData(activeFiscalYearId) ELSE {}

Arrives(f) ==
    /\ f \in asked
    /\ asked' = (asked \ {f}) \cup Follow(f)
    /\ UNCHANGED <<serverBooks, op, rush>>

VerificationsArrive(f) ==
    /\ f.what = "list"
    /\ Arrives(f)
    /\ \/ /\ verifications' = [year |-> f.year,
                               version |-> Version("list", f.year)]
          /\ unseen' = unseen \ {"list"}
          /\ UNCHANGED losses
       \/ Loses /\ UNCHANGED <<verifications, unseen>>
    /\ UNCHANGED <<yearVars, dashboard, basAccounts>>

DashboardArrives(f) ==
    /\ f.what = "sums"
    /\ Arrives(f)
    /\ \/ /\ dashboard' = [year |-> f.year, version |-> Version("sums", f.year)]
          /\ unseen' = unseen \ {"sums"}
          /\ UNCHANGED losses
       \/ Loses /\ UNCHANGED <<dashboard, unseen>>
    /\ UNCHANGED <<yearVars, verifications, basAccounts>>

AccountsArrive(f) ==
    /\ f.what = "accounts"
    /\ Arrives(f)
    /\ \/ basAccounts' = accounts /\ UNCHANGED losses
       \/ Loses /\ UNCHANGED basAccounts
    /\ UNCHANGED <<unseen, yearVars, verifications, dashboard>>

(* A year is only chosen if none is active. *)
YearsArrive(f) ==
    /\ f.what = "years"
    /\ Arrives(f)
    /\ \/ fiscalYears' = years /\ UNCHANGED losses
       \/ Loses /\ UNCHANGED fiscalYears
    /\ activeFiscalYearId # 0
    /\ UNCHANGED <<unseen, activeFiscalYearId, formYear, shownVars>>

-----------------------------------------------------------------------------
(* The operations.                                                         *)

(* These ask first; the question covers the page. *)
Asking == {"fillGaps", "lock", "createYear", "transferVat", "generateIB",
           "postInvoice", "settleInvoice"}

(* Mutant of Begin: every operation asks. *)
BeginAlwaysAsks(kind, y) ==
    /\ UserActs
    /\ op.pc = "idle"
    /\ op' = [kind |-> kind, year |-> y, pc |-> "ask"]
    /\ UNCHANGED <<serverBooks, yearVars, shownVars, asked, unseen, losses>>

Begin(kind, y) ==
    /\ UserActs
    /\ op.pc = "idle"
    /\ op' = [kind |-> kind, year |-> y,
              pc |-> IF kind \in Asking THEN "ask" ELSE "act"]
    /\ UNCHANGED <<serverBooks, yearVars, shownVars, asked, unseen, losses>>

Decline ==
    /\ op.pc = "ask"
    /\ op' = NoOp
    /\ UNCHANGED <<serverBooks, yearVars, shownVars, asked, unseen, rush,
                   losses>>

Proceed ==
    /\ op.pc = "ask"
    /\ op' = [op EXCEPT !.pc = "act"]
    /\ UNCHANGED <<serverBooks, yearVars, shownVars, asked, unseen, rush,
                   losses>>

(* The list changes in some years, the sums in some. *)
BooksChange(lists, sums) ==
    books' = [y \in Years |->
                 [list |-> books[y].list + IF y \in lists THEN 1 ELSE 0,
                  sums |-> books[y].sums + IF y \in sums THEN 1 ELSE 0]]
ListChanges(y) == BooksChange({y}, {})
BothChange(y) == BooksChange({y}, {y})

(* What each operation changes on the server.  The reversal of a           *)
(* verification is dated today, whatever year it is shown in; an invoice   *)
(* is booked in the year of the date, and is one of the unpaid invoices of *)
(* its own year, which the dashboard counts.                               *)
Serve ==
    /\ op.pc = "act"
    /\ MayWrite
    /\ CASE op.kind \in {"storno", "importSie"} ->
              /\ \E y \in 1..years : BothChange(y)
              /\ UNCHANGED <<years, accounts>>
         [] op.kind \in {"post", "void", "transferVat", "generateIB"} ->
              BothChange(op.year) /\ UNCHANGED <<years, accounts>>
         [] op.kind = "seal" ->
              /\ \E L \in SUBSET (1..years) \ {{}} : BooksChange(L, {})
              /\ UNCHANGED <<years, accounts>>
         [] op.kind = "fillGaps" ->
              /\ \E y \in 1..years : ListChanges(y)
              /\ UNCHANGED <<years, accounts>>
         [] op.kind \in {"postInvoice", "payInvoice"} ->
              /\ \E y, z \in 1..years : BooksChange({y}, {y, z})
              /\ UNCHANGED <<years, accounts>>
         [] op.kind = "settleInvoice" ->
              /\ \E S \in SUBSET (1..years) \ {{}} : BooksChange({}, S)
              /\ UNCHANGED <<years, accounts>>
         [] op.kind = "lock" ->
              /\ ListChanges(op.year) \/ UNCHANGED books
              /\ UNCHANGED <<years, accounts>>
         [] op.kind = "createYear" ->
              /\ years < MaxYears
              /\ years' = years + 1
              /\ BothChange(years + 1)
              /\ UNCHANGED accounts
         [] op.kind = "account" ->
              accounts' = accounts + 1 /\ UNCHANGED <<years, books>>

(* What the page does not fetch after these but should, to show it: an     *)
(* operation on an invoice fetches the invoices, a lock the years.         *)
Unfetched == {"lock", "postInvoice", "payInvoice", "settleInvoice"}

(* What has changed of the active year. *)
YearChange == {part \in {"list", "sums"} :
               activeFiscalYearId # 0
               /\ books'[activeFiscalYearId][part]
                     # books[activeFiscalYearId][part]}

(* What each operation fetches once it has succeeded. *)
Refetch(y) ==
    CASE op.kind \in {"storno", "void"} ->
             FetchVerifications(y) \cup FetchDashboardData(y)
      [] op.kind \in {"seal", "fillGaps"} -> FetchVerifications(y)
      [] op.kind = "post" -> {[Fetch("list", y) EXCEPT !.then = "sums"]}
      [] op.kind = "account" -> {Fetch("accounts", 0)}
      [] op.kind = "lock" -> {Fetch("years", 0)}
      [] op.kind \in {"postInvoice", "payInvoice", "settleInvoice"} -> {}
      [] OTHER -> RefreshAllData(y)

(* The page adds a posting to its sums before it fetches them.             *)
Done ==
    /\ op.kind # "createYear"
    /\ Serve
    /\ op' = NoOp
    /\ asked' = asked \cup Refetch(activeFiscalYearId)
    /\ dashboard' = IF op.kind = "post"
                    THEN [dashboard EXCEPT !.version = MaxWrites + 1]
                    ELSE dashboard
    /\ unseen' = IF op.kind \in Unfetched
                 THEN unseen \cup YearChange ELSE unseen
    /\ UNCHANGED <<yearVars, verifications, basAccounts, rush, losses>>

(* createFiscalYear goes on to fetch the years. *)
YearCreated ==
    /\ op.kind = "createYear"
    /\ Serve
    /\ op' = [op EXCEPT !.pc = "years"]
    /\ UNCHANGED <<yearVars, shownVars, asked, unseen, rush, losses>>

(* The years are there, for completeInit or createFiscalYear.  The first   *)
(* of them is the newest, and becomes active.  If they could not be        *)
(* fetched, completeInit goes on without a year, createFiscalYear with the *)
(* newest that is known.                                                   *)
YearsFetched ==
    /\ op.pc = "years"
    /\ op' = NoOp
    /\ \/ fiscalYears' = years /\ UNCHANGED losses
       \/ Loses /\ UNCHANGED fiscalYears
    /\ activeFiscalYearId' = fiscalYears'
    /\ CASE op.kind = "init" ->
              /\ formYear' = fiscalYears'
              /\ asked' = asked \cup FetchDashboardData(fiscalYears')
                                \cup FetchVerifications(fiscalYears')
                                \cup {Fetch("accounts", 0)}
         [] op.kind # "init" /\ fiscalYears' # activeFiscalYearId ->
              WatchedYear(fiscalYears')
         [] op.kind # "init" /\ fiscalYears' = activeFiscalYearId ->
              /\ formYear' = fiscalYears'
              /\ asked' = asked \cup FetchVerifications(fiscalYears')
    /\ UNCHANGED <<serverBooks, shownVars, unseen, rush>>

(* Refused, or lost on its way there or back. *)
OpFails ==
    /\ op.pc = "act"
    /\ Loses
    /\ Serve \/ UNCHANGED serverBooks
    /\ op' = NoOp
    /\ UNCHANGED <<yearVars, shownVars, asked, unseen, rush>>

(* The goroutine that PostVerification starts seals the drafts of all      *)
(* years, later and without the page.                                      *)
AutoSeals ==
    /\ MayWrite
    /\ \E y \in 1..years : books[y].sums # 0
    /\ \E L \in SUBSET (1..years) \ {{}} : BooksChange(L, {})
    /\ unseen' = unseen \cup YearChange
    /\ UNCHANGED <<years, accounts, yearVars, shownVars, asked, op, rush,
                   losses>>

-----------------------------------------------------------------------------
LedgerInit ==
    /\ years \in Years
    /\ books = [y \in Years |-> [list |-> 0, sums |-> 0]]
    /\ accounts = 0
    /\ fiscalYears = 0 /\ activeFiscalYearId = 0 /\ formYear = 0
    /\ verifications = NoSums /\ dashboard = NoSums /\ basAccounts = 0
    /\ asked = {}
    /\ op = [kind |-> "init", pc |-> "years", year |-> 0]
    /\ unseen = {}
    /\ rush = 0 /\ losses = 0

(* What an operation is about: a row of the list, the form and the preset  *)
(* periods of a VAT transfer are of the active year.                       *)
Starts ==
    \/ \E kind \in {"storno", "seal", "fillGaps", "account", "importSie",
                   "postInvoice", "payInvoice", "settleInvoice"} :
          Begin(kind, 0)
    \/ activeFiscalYearId # 0 /\ Begin("createYear", 0)
    \/ \E kind \in {"post", "void", "generateIB", "transferVat"} :
          activeFiscalYearId # 0 /\ Begin(kind, activeFiscalYearId)
    \/ \E y \in 1..fiscalYears : Begin("lock", y)

LedgerNext ==
    \/ \E y \in Years : ChangeYear(y)
    \/ \E f \in asked :
          \/ VerificationsArrive(f) \/ DashboardArrives(f) \/ AccountsArrive(f)
          \/ YearsArrive(f)
    \/ Starts \/ Decline \/ Proceed \/ Done \/ YearCreated \/ YearsFetched
    \/ OpFails \/ AutoSeals

LedgerSpec == LedgerInit /\ [][LedgerNext]_ledgerVars
-----------------------------------------------------------------------------
(* Properties.                                                             *)

Shown == [year : 0..MaxYears, version : 0..(MaxWrites + 1)]

(* Every variable has its type; an operation that waits for an answer of   *)
(* the user is one that asks.                                              *)
LedgerTypeOK ==
    /\ years \in Years
    /\ books \in [Years -> [list : 0..MaxWrites, sums : 0..MaxWrites]]
    /\ fiscalYears \in 0..years
    /\ activeFiscalYearId \in 0..fiscalYears
    /\ formYear \in 0..fiscalYears
    /\ verifications \in Shown
    /\ dashboard \in Shown
    /\ asked \subseteq [what : {"list", "sums", "accounts", "years"},
                        year : 0..MaxYears, then : {"nothing", "sums"}]
    /\ op.pc \in {"idle", "ask", "act", "years"}
    /\ op.pc = "ask" => op.kind \in Asking
    /\ unseen \subseteq {"list", "sums"}

AtRestLedger == asked = {} /\ op.pc = "idle" /\ rush = 0 /\ losses = 0

(* At rest, with nothing lost and nobody in a hurry, list, sums and form   *)
(* are of the active year ("keep dashboard, verifications, and dates in    *)
(* sync", app.js:322-330) and as they are on the server, but for what has  *)
(* changed since without being fetched: by a lock (app.js:961-977), an     *)
(* invoice that was posted, paid or settled (app.js:594-647, 746-767), or  *)
(* by the seal that runs on its own (verification.go:88-104).              *)
ActiveYearShown ==
    AtRestLedger
        => LET y == activeFiscalYearId
           IN  /\ verifications.year = y /\ dashboard.year = y
               /\ formYear = y
               /\ basAccounts = accounts
               /\ "list" \notin unseen
                     => verifications.version = Version("list", y)
               /\ "sums" \notin unseen
                     => dashboard.version = Version("sums", y)
=============================================================================
