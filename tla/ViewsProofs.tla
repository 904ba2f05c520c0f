---------------------------- MODULE ViewsProofs ----------------------------
(***************************************************************************)
(* Proofs about the views of the page: LedgerView, ReportView, SieImport,  *)
(* SettingsPage, Restore and Periods, for any number of years, files,      *)
(* edits, requests and errors, every calendar and every rule of summer     *)
(* time; and, with FrameProofs, about MCPage, which has all of them.       *)
(*                                                                         *)
(* What is promised is promised to a user who waits and a server that      *)
(* answers.  The argument is the same for each view: as long as nobody has *)
(* been in a hurry, at most one thing is under way, and what is not shown  *)
(* as it is on the server has been asked for (CalmInv, PatientInv,         *)
(* SieQuietInv, CarefulInv, PickedInv and WaitingInv).                     *)
(***************************************************************************)
EXTENDS MCPage, FrameProofs

-----------------------------------------------------------------------------
(* The books (LedgerView).                                                 *)

Versions == [list : 0..MaxWrites, sums : 0..MaxWrites]
Fetches == [what : {"list", "sums", "accounts", "years"},
            year : 0..MaxYears, then : {"nothing", "sums"}]
OpKinds == {"storno", "seal", "fillGaps", "account", "importSie", "createYear",
          "post", "void", "generateIB", "transferVat", "lock", "postInvoice",
          "payInvoice", "settleInvoice"}
Ops == [kind : OpKinds \cup {"none", "init"},
        pc : {"idle", "ask", "act", "years"},
        year : 0..MaxYears]

OpInv ==
    /\ op \in Ops
    /\ op.pc = "ask" => op.kind \in Asking
    /\ op.pc = "act" => op.kind \in OpKinds
    /\ op.pc = "years" => op.kind \in {"init", "createYear"}
    /\ op.kind \in {"post", "void", "transferVat", "generateIB", "lock"}
          => op.year \in Years

BooksInv ==
    /\ years \in Years
    /\ books \in [Years -> Versions]

LedgerTyped ==
    /\ BooksInv
    /\ fiscalYears \in 0..years
    /\ activeFiscalYearId \in 0..fiscalYears
    /\ formYear \in 0..fiscalYears
    /\ verifications \in Shown
    /\ dashboard \in Shown
    /\ asked \subseteq Fetches
    /\ OpInv
    /\ unseen \subseteq {"list", "sums"}
    /\ rush \in Nat /\ losses \in Nat

LEMMA LedgerConstants ==
    /\ NoOp \in Ops /\ NoOp.pc = "idle"
    /\ NoSums \in Shown
    /\ MaxYears \in Nat \ {0} /\ MaxWrites \in Nat
    /\ Years \subseteq 0..MaxYears /\ 0 \in 0..MaxYears
BY LedgerViewAssumption DEF NoOp, Ops, NoSums, Shown, Years

LEMMA FetchTyped ==
    ASSUME NEW what \in {"list", "sums", "accounts", "years"},
           NEW y \in 0..MaxYears
    PROVE  /\ Fetch(what, y) \in Fetches
           /\ Fetch(what, y).what = what /\ Fetch(what, y).year = y
           /\ Fetch(what, y).then = "nothing"
           /\ LET f == [Fetch(what, y) EXCEPT !.then = "sums"]
              IN  f \in Fetches /\ f.what = what /\ f.year = y
                  /\ f.then = "sums"
BY DEF Fetch, Fetches

LEMMA FetchesTyped ==
    ASSUME NEW y \in 0..MaxYears
    PROVE  /\ FetchVerifications(y) \subseteq Fetches
           /\ FetchDashboardData(y) \subseteq Fetches
           /\ RefreshAllData(y) \subseteq Fetches
           /\ {[Fetch("list", y) EXCEPT !.then = "sums"]} \subseteq Fetches
           /\ {Fetch("accounts", 0)} \subseteq Fetches
           /\ {Fetch("years", 0)} \subseteq Fetches
<1>1. 0 \in 0..MaxYears
    BY LedgerConstants
<1>2. {[Fetch("list", y) EXCEPT !.then = "sums"]} \subseteq Fetches
    BY FetchTyped
<1>3. /\ Fetch("list", y) \in Fetches /\ Fetch("sums", y) \in Fetches
      /\ Fetch("accounts", 0) \in Fetches /\ Fetch("years", 0) \in Fetches
    BY <1>1, FetchTyped
<1>4. /\ FetchVerifications(y) \subseteq Fetches
      /\ FetchDashboardData(y) \subseteq Fetches
      /\ RefreshAllData(y) \subseteq Fetches
    BY <1>3 DEF FetchVerifications, FetchDashboardData, RefreshAllData
<1>5. {Fetch("accounts", 0)} \subseteq Fetches
      /\ {Fetch("years", 0)} \subseteq Fetches
    BY <1>3
<1> QED
    BY <1>2, <1>4, <1>5

LEMMA VersionTyped ==
    ASSUME BooksInv, NEW y \in 0..MaxYears
    PROVE  /\ [year |-> y, version |-> Version("list", y)] \in Shown
           /\ [year |-> y, version |-> Version("sums", y)] \in Shown
<1>1. y = 0 \/ y \in Years
    BY LedgerConstants DEF Years
<1>2. Version("list", y) \in 0..(MaxWrites + 1)
      /\ Version("sums", y) \in 0..(MaxWrites + 1)
    BY <1>1, LedgerConstants DEF Version, BooksInv, Versions
<1> QED
    BY <1>2 DEF Shown

(* What an operation changes on the server, and what it leaves alone.      *)
LEMMA Touched ==
    ASSUME BooksInv, MayWrite, NEW lists, NEW sums, BooksChange(lists, sums)
    PROVE  /\ books' \in [Years -> Versions]
           /\ \A y \in Years :
                 /\ y \notin lists => books'[y].list = books[y].list
                 /\ y \notin sums => books'[y].sums = books[y].sums
<1>1. SUFFICES ASSUME NEW y \in Years
               PROVE  /\ books'[y] \in Versions
                      /\ y \notin lists => books'[y].list = books[y].list
                      /\ y \notin sums => books'[y].sums = books[y].sums
    BY DEF BooksChange
<1>2. /\ books[y] \in Versions
      /\ books[y].list < MaxWrites /\ books[y].sums < MaxWrites
    BY DEF BooksInv, MayWrite
<1>3. /\ books[y].list \in 0..MaxWrites /\ books[y].sums \in 0..MaxWrites
      /\ books[y].list + 1 \in 0..MaxWrites
      /\ books[y].sums + 1 \in 0..MaxWrites
      /\ books[y].list + 0 = books[y].list
      /\ books[y].sums + 0 = books[y].sums
    BY <1>2, LedgerConstants DEF Versions
<1>4. books'[y] = [list |-> books[y].list + IF y \in lists THEN 1 ELSE 0,
                   sums |-> books[y].sums + IF y \in sums THEN 1 ELSE 0]
    BY DEF BooksChange
<1> QED
    BY <1>3, <1>4 DEF Versions

LEMMA Served ==
    ASSUME LedgerTyped, Serve
    PROVE  /\ BooksInv'
           /\ years' \in years..MaxYears
           /\ op.kind \in {"seal", "fillGaps", "lock"} =>
                 \A y \in Years : books'[y].sums = books[y].sums
           /\ op.kind = "account" => books' = books
           /\ op.kind = "createYear" =>
                 \A y \in 1..years : /\ books'[y].list = books[y].list
                                     /\ books'[y].sums = books[y].sums
           /\ op.kind # "account" => accounts' = accounts
<1>a. /\ BooksInv /\ MayWrite /\ op.kind \in OpKinds
      /\ years \in 1..MaxYears /\ 1..years \subseteq Years
    BY LedgerConstants DEF LedgerTyped, Serve, OpInv, BooksInv, Years
<1>b. years' = years => years' \in years..MaxYears
    BY <1>a, LedgerConstants
<1>c. ASSUME NEW lists, NEW sums, BooksChange(lists, sums),
             UNCHANGED <<years, accounts>>
      PROVE  BooksInv' /\ years' \in years..MaxYears /\ accounts' = accounts
    <2>1. books' \in [Years -> Versions]
        BY <1>a, <1>c, Touched
    <2> QED
        BY <2>1, <1>a, <1>b, <1>c DEF BooksInv
<1>d. ASSUME NEW lists, BooksChange(lists, {})
      PROVE  \A y \in Years : books'[y].sums = books[y].sums
    BY <1>a, <1>d, Touched
<1>1. CASE op.kind \in {"storno", "importSie", "post", "void", "transferVat",
                        "generateIB"}
    <2>1. PICK y : BothChange(y) /\ UNCHANGED <<years, accounts>>
        BY <1>1 DEF Serve
    <2> QED
        BY <2>1, <1>1, <1>c DEF BothChange
<1>2. CASE op.kind \in {"postInvoice", "payInvoice", "settleInvoice"}
    <2>1. PICK lists, sums :
              BooksChange(lists, sums) /\ UNCHANGED <<years, accounts>>
        BY <1>2 DEF Serve
    <2> QED
        BY <2>1, <1>2, <1>c
<1>3. CASE op.kind \in {"seal", "fillGaps"}
    <2>1. PICK lists : BooksChange(lists, {}) /\ UNCHANGED <<years, accounts>>
        BY <1>3 DEF Serve, ListChanges
    <2> QED
        BY <2>1, <1>3, <1>c, <1>d
<1>4. CASE op.kind = "lock"
    <2>1. /\ BooksChange({op.year}, {}) \/ UNCHANGED books
          /\ UNCHANGED <<years, accounts>>
        BY <1>4 DEF Serve, ListChanges
    <2>2. BooksInv' /\ years' \in years..MaxYears
        BY <2>1, <1>a, <1>b, <1>c DEF BooksInv
    <2>3. \A y \in Years : books'[y].sums = books[y].sums
        BY <2>1, <1>d
    <2> QED
        BY <2>1, <2>2, <2>3, <1>4
<1>5. CASE op.kind = "createYear"
    <2>1. /\ years < MaxYears /\ years' = years + 1
          /\ BooksChange({years + 1}, {years + 1}) /\ UNCHANGED accounts
        BY <1>5 DEF Serve, BothChange
    <2>2. /\ books' \in [Years -> Versions]
          /\ \A y \in Years :
                y # years + 1 => /\ books'[y].list = books[y].list
                                 /\ books'[y].sums = books[y].sums
        BY <2>1, <1>a, Touched
    <2>3. BooksInv'
        BY <2>1, <2>2, <1>a, LedgerConstants DEF BooksInv, Years
    <2>4. \A y \in 1..years : y \in Years /\ y # years + 1
        BY <1>a
    <2>5. years' \in years..MaxYears
        BY <2>1, <1>a, LedgerConstants
    <2> QED
        BY <2>1, <2>2, <2>3, <2>4, <2>5, <1>5
<1>6. CASE op.kind = "account"
    <2>1. UNCHANGED <<years, books>>
        BY <1>6 DEF Serve
    <2> QED
        BY <2>1, <1>a, <1>b, <1>6 DEF BooksInv
<1> QED
    BY <1>a, <1>1, <1>2, <1>3, <1>4, <1>5, <1>6 DEF OpKinds

(* What fetches under way ask for.                                         *)
AsksList(F) == \E f \in F : f.what = "list"
AsksSums(F) == \E f \in F : \/ f.what = "sums"
                            \/ f.what = "list" /\ f.then = "sums"
AsksAccounts(F) == \E f \in F : f.what = "accounts"
OfYear(F, y) == \A f \in F : f.what \in {"list", "sums"} => f.year = y

LEMMA OneFetch ==
    ASSUME NEW f, NEW y
    PROVE  /\ f.what = "list" => AsksList({f})
           /\ f.what = "sums" \/ (f.what = "list" /\ f.then = "sums")
                 => AsksSums({f})
           /\ f.what = "accounts" => AsksAccounts({f})
           /\ f.year = y \/ f.what \notin {"list", "sums"} => OfYear({f}, y)
BY DEF AsksList, AsksSums, AsksAccounts, OfYear

LEMMA FetchesAsk ==
    ASSUME NEW y \in 0..MaxYears, y # 0
    PROVE  /\ OfYear(FetchVerifications(y), y)
           /\ AsksList(FetchVerifications(y))
           /\ OfYear(FetchDashboardData(y), y)
           /\ AsksSums(FetchDashboardData(y))
           /\ LET F == {[Fetch("list", y) EXCEPT !.then = "sums"]}
              IN  OfYear(F, y) /\ AsksList(F) /\ AsksSums(F)
           /\ OfYear({Fetch("accounts", 0)}, y)
           /\ AsksAccounts({Fetch("accounts", 0)})
           /\ OfYear({Fetch("years", 0)}, y)
           /\ OfYear(RefreshAllData(y), y) /\ AsksList(RefreshAllData(y))
           /\ AsksSums(RefreshAllData(y))
<1>1. 0 \in 0..MaxYears
    BY LedgerConstants
<1> HIDE DEF Fetches
<1>2. OfYear(FetchVerifications(y), y) /\ AsksList(FetchVerifications(y))
    <2> DEFINE f == Fetch("list", y)
    <2>1. f.what = "list" /\ f.year = y
        BY DEF Fetch
    <2> HIDE DEF f
    <2>2. OfYear({f}, y) /\ AsksList({f})
        BY <2>1, OneFetch
    <2> QED
        BY <2>2 DEF FetchVerifications, f
<1>3. OfYear(FetchDashboardData(y), y) /\ AsksSums(FetchDashboardData(y))
    <2> DEFINE f == Fetch("sums", y)
    <2>1. f.what = "sums" /\ f.year = y
        BY DEF Fetch
    <2> HIDE DEF f
    <2>2. OfYear({f}, y) /\ AsksSums({f})
        BY <2>1, OneFetch
    <2> QED
        BY <2>2 DEF FetchDashboardData, f
<1>4. LET F == {[Fetch("list", y) EXCEPT !.then = "sums"]}
      IN  OfYear(F, y) /\ AsksList(F) /\ AsksSums(F)
    <2> DEFINE f == [Fetch("list", y) EXCEPT !.then = "sums"]
    <2>1. f.what = "list" /\ f.year = y /\ f.then = "sums"
        BY DEF Fetch
    <2> HIDE DEF f
    <2>2. OfYear({f}, y) /\ AsksList({f}) /\ AsksSums({f})
        BY <2>1, OneFetch
    <2> QED
        BY <2>2 DEF f
<1>5. OfYear({Fetch("accounts", 0)}, y) /\ AsksAccounts({Fetch("accounts", 0)})
    <2> DEFINE f == Fetch("accounts", 0)
    <2>1. f.what = "accounts"
        BY <1>1, FetchTyped
    <2> HIDE DEF f
    <2>2. OfYear({f}, y) /\ AsksAccounts({f})
        BY <2>1, OneFetch
    <2> QED
        BY <2>2 DEF f
<1>6. OfYear({Fetch("years", 0)}, y)
    <2> DEFINE f == Fetch("years", 0)
    <2>1. f.what = "years"
        BY <1>1, FetchTyped
    <2> HIDE DEF f
    <2>2. OfYear({f}, y)
        BY <2>1, OneFetch
    <2> QED
        BY <2>2 DEF f
<1>7. OfYear(RefreshAllData(y), y)
    <2>1. OfYear({Fetch("accounts", 0), Fetch("years", 0)}, y)
        BY <1>5, <1>6 DEF OfYear
    <2> QED
        BY <2>1, <1>2, <1>3 DEF RefreshAllData, OfYear
<1>8. AsksList(RefreshAllData(y))
    BY <1>2 DEF RefreshAllData, AsksList
<1>9. AsksSums(RefreshAllData(y))
    BY <1>3 DEF RefreshAllData, AsksSums
<1> QED
    BY <1>2, <1>3, <1>4, <1>5, <1>6, <1>7, <1>8, <1>9

LEMMA Refetched ==
    ASSUME OpInv, op.kind \in OpKinds \ {"createYear"}, NEW y \in 0..MaxYears
    PROVE  /\ Refetch(y) \subseteq Fetches
           /\ y # 0 => /\ OfYear(Refetch(y), y)
                       /\ op.kind \notin Unfetched \cup {"account"}
                             => AsksList(Refetch(y))
                       /\ op.kind \notin Unfetched
                                         \cup {"seal", "fillGaps", "account"}
                             => AsksSums(Refetch(y))
                       /\ op.kind = "account" => AsksAccounts(Refetch(y))
<1> HIDE DEF Fetches
<1>1. CASE op.kind \in {"storno", "void"}
    <2>1. Refetch(y) = FetchVerifications(y) \cup FetchDashboardData(y)
        BY <1>1 DEF Refetch
    <2>2. Refetch(y) \subseteq Fetches
        BY <2>1, FetchesTyped
    <2>3. ASSUME y # 0
          PROVE  OfYear(Refetch(y), y) /\ AsksList(Refetch(y))
                 /\ AsksSums(Refetch(y))
        BY <2>1, <2>3, FetchesAsk DEF OfYear, AsksList, AsksSums
    <2> QED
        BY <1>1, <2>2, <2>3
<1>2. CASE op.kind \in {"seal", "fillGaps"}
    <2>1. Refetch(y) = FetchVerifications(y)
        BY <1>2 DEF Refetch
    <2> QED
        BY <1>2, <2>1, FetchesTyped, FetchesAsk
<1>3. CASE op.kind = "post"
    <2>1. Refetch(y) = {[Fetch("list", y) EXCEPT !.then = "sums"]}
        BY <1>3 DEF Refetch
    <2>2. Refetch(y) \subseteq Fetches
        BY <2>1, FetchesTyped
    <2>3. ASSUME y # 0
          PROVE  OfYear(Refetch(y), y) /\ AsksList(Refetch(y))
                 /\ AsksSums(Refetch(y))
        BY <2>1, <2>3, FetchesAsk
    <2> QED
        BY <1>3, <2>2, <2>3
<1>4. CASE op.kind = "account"
    <2>1. Refetch(y) = {Fetch("accounts", 0)}
        BY <1>4 DEF Refetch
    <2> QED
        BY <1>4, <2>1, FetchesTyped, FetchesAsk
<1>5. CASE op.kind = "lock"
    <2>1. Refetch(y) = {Fetch("years", 0)}
        BY <1>5 DEF Refetch
    <2> QED
        BY <1>5, <2>1, FetchesTyped, FetchesAsk DEF Unfetched
<1>7. CASE op.kind \in {"postInvoice", "payInvoice", "settleInvoice"}
    <2>1. Refetch(y) = {}
        BY <1>7 DEF Refetch
    <2> QED
        BY <1>7, <2>1 DEF Unfetched, OfYear
<1>6. CASE op.kind \in {"importSie", "generateIB", "transferVat"}
    <2>1. Refetch(y) = RefreshAllData(y)
        BY <1>6 DEF Refetch
    <2> QED
        BY <1>6, <2>1, FetchesTyped, FetchesAsk
<1> QED
    BY <1>1, <1>2, <1>3, <1>4, <1>5, <1>6, <1>7 DEF OpKinds

LEMMA LedgerTypeInit == LedgerInit => LedgerTyped
<1> SUFFICES ASSUME LedgerInit PROVE LedgerTyped
    OBVIOUS
<1>1. 0 \in 0..MaxWrites /\ 0 \in Nat /\ 0 \in 0..years
    BY LedgerConstants DEF LedgerInit, Years
<1>2. \A y \in Years : books[y] \in Versions
    BY <1>1 DEF LedgerInit, Versions
<1>3. books \in [Years -> Versions]
    BY <1>2 DEF LedgerInit
<1>4. BooksInv
    BY <1>2, <1>3 DEF BooksInv, LedgerInit
<1>5. OpInv
    BY LedgerConstants DEF LedgerInit, OpInv, Ops
<1> QED
    BY <1>1, <1>4, <1>5, LedgerConstants DEF LedgerInit, LedgerTyped

LEMMA Hurry ==
    ASSUME LedgerTyped, UserActs
    PROVE  /\ rush' \in Nat
           /\ rush' = 0 => rush = 0 /\ asked = {} /\ op.pc = "idle"
BY DEF LedgerTyped, UserActs

LEMMA Lost ==
    ASSUME LedgerTyped, Loses
    PROVE  losses' \in Nat /\ losses' # 0
BY DEF LedgerTyped, Loses

LEMMA Began ==
    ASSUME LedgerTyped, NEW kind \in OpKinds, NEW y \in 0..MaxYears,
           kind \in {"post", "void", "transferVat", "generateIB", "lock"}
               => y \in Years,
           Begin(kind, y)
    PROVE  LedgerTyped' /\ UNCHANGED <<serverBooks, yearVars, shownVars, asked,
                                       unseen, losses>>
<1> DEFINE o == [kind |-> kind, year |-> y,
                 pc |-> IF kind \in Asking THEN "ask" ELSE "act"]
<1>1. op' = o
    BY DEF Begin
<1>2. o.kind = kind /\ o.year = y
      /\ o.pc = IF kind \in Asking THEN "ask" ELSE "act"
    OBVIOUS
<1>3. o \in Ops
    BY DEF Ops
<1> HIDE DEF o
<1>4. OpInv'
    BY <1>1, <1>2, <1>3 DEF OpInv
<1>5. rush' \in Nat
    BY Hurry DEF Begin
<1>6. UNCHANGED <<serverBooks, yearVars, shownVars, asked, unseen, losses>>
    BY DEF Begin
<1> QED
    BY <1>4, <1>5, <1>6
    DEF LedgerTyped, BooksInv, serverBooks, yearVars, shownVars

LEMMA Followed ==
    ASSUME LedgerTyped, NEW f \in asked
    PROVE  /\ Follow(f) \subseteq Fetches
           /\ activeFiscalYearId # 0
                 => /\ OfYear(Follow(f), activeFiscalYearId)
                    /\ f.then = "sums" => AsksSums(Follow(f))
<1> HIDE DEF Fetches
<1>1. activeFiscalYearId \in 0..MaxYears
    BY LedgerConstants DEF LedgerTyped, BooksInv, Years
<1>2. CASE f.then = "sums"
    <2>1. Follow(f) = FetchDashboardData(activeFiscalYearId)
        BY <1>2 DEF Follow
    <2> QED
        BY <2>1, <1>1, FetchesTyped, FetchesAsk
<1>3. CASE f.then # "sums"
    <2>1. Follow(f) = {}
        BY <1>3 DEF Follow
    <2> QED
        BY <2>1, <1>3 DEF OfYear
<1> QED
    BY <1>2, <1>3

LEMMA Arrived ==
    ASSUME LedgerTyped, NEW f \in asked, Arrives(f)
    PROVE  asked' \subseteq Fetches /\ f.year \in 0..MaxYears /\ OpInv'
           /\ BooksInv' /\ UNCHANGED rush
<1>1. asked' \subseteq Fetches
    BY Followed DEF Arrives, LedgerTyped
<1>2. f.year \in 0..MaxYears
    BY DEF LedgerTyped, Fetches
<1> QED
    BY <1>1, <1>2 DEF Arrives, LedgerTyped, OpInv, BooksInv, serverBooks

LEMMA Idle == ASSUME op' = NoOp PROVE OpInv'
<1>1. NoOp \in Ops /\ NoOp.pc = "idle" /\ NoOp.kind = "none"
    BY LedgerConstants DEF NoOp
<1> QED
    BY <1>1 DEF OpInv

LEMMA LedgerTypeNext ==
    ASSUME LedgerTyped, [LedgerNext]_ledgerVars
    PROVE  LedgerTyped'
<1> HIDE DEF Fetches
<1>a. /\ years \in 1..MaxYears /\ fiscalYears \in 0..MaxYears
      /\ activeFiscalYearId \in 0..MaxYears
      /\ activeFiscalYearId # 0 => activeFiscalYearId \in Years
    BY LedgerConstants DEF LedgerTyped, BooksInv, Years
<1>1. ASSUME NEW y \in Years, ChangeYear(y) PROVE LedgerTyped'
    <2>1. y \in 1..fiscalYears /\ y \in 0..MaxYears /\ y \in 0..fiscalYears
        BY <1>1, LedgerConstants DEF ChangeYear, LedgerTyped
    <2>2. asked' \subseteq Fetches
        BY <1>1, <2>1, FetchesTyped DEF ChangeYear, WatchedYear, LedgerTyped
    <2>3. rush' \in Nat
        BY <1>1, Hurry DEF ChangeYear
    <2> QED
        BY <1>1, <2>1, <2>2, <2>3
        DEF ChangeYear, WatchedYear, LedgerTyped, BooksInv, OpInv, serverBooks,
            shownVars
<1>2. ASSUME NEW f \in asked, VerificationsArrive(f) PROVE LedgerTyped'
    <2>1. Arrives(f)
        BY <1>2 DEF VerificationsArrive
    <2>2. asked' \subseteq Fetches /\ f.year \in 0..MaxYears /\ OpInv'
          /\ BooksInv' /\ UNCHANGED rush
        BY <2>1, Arrived
    <2>3. verifications' \in Shown
        BY <1>2, <2>2, VersionTyped DEF VerificationsArrive, LedgerTyped
    <2>4. losses' \in Nat
        BY <1>2, Lost DEF VerificationsArrive, LedgerTyped
    <2> QED
        BY <1>2, <2>1, <2>2, <2>3, <2>4
        DEF VerificationsArrive, Arrives, LedgerTyped, serverBooks, yearVars
<1>3. ASSUME NEW f \in asked, DashboardArrives(f) PROVE LedgerTyped'
    <2>1. Arrives(f)
        BY <1>3 DEF DashboardArrives
    <2>2. asked' \subseteq Fetches /\ f.year \in 0..MaxYears /\ OpInv'
          /\ BooksInv' /\ UNCHANGED rush
        BY <2>1, Arrived
    <2>3. dashboard' \in Shown
        BY <1>3, <2>2, VersionTyped DEF DashboardArrives, LedgerTyped
    <2>4. losses' \in Nat
        BY <1>3, Lost DEF DashboardArrives, LedgerTyped
    <2> QED
        BY <1>3, <2>1, <2>2, <2>3, <2>4
        DEF DashboardArrives, Arrives, LedgerTyped, serverBooks, yearVars
<1>4. ASSUME NEW f \in asked, AccountsArrive(f) PROVE LedgerTyped'
    <2>1. Arrives(f)
        BY <1>4 DEF AccountsArrive
    <2>2. asked' \subseteq Fetches /\ f.year \in 0..MaxYears /\ OpInv'
          /\ BooksInv' /\ UNCHANGED rush
        BY <2>1, Arrived
    <2>4. losses' \in Nat
        BY <1>4, Lost DEF AccountsArrive, LedgerTyped
    <2> QED
        BY <1>4, <2>1, <2>2, <2>4
        DEF AccountsArrive, Arrives, LedgerTyped, serverBooks, yearVars
<1>5. ASSUME NEW f \in asked, YearsArrive(f) PROVE LedgerTyped'
    <2>1. Arrives(f)
        BY <1>5 DEF YearsArrive
    <2>2. asked' \subseteq Fetches /\ f.year \in 0..MaxYears /\ OpInv'
          /\ BooksInv' /\ UNCHANGED rush
        BY <2>1, Arrived
    <2>3. /\ fiscalYears' \in 0..years
          /\ activeFiscalYearId \in 0..fiscalYears'
          /\ formYear \in 0..fiscalYears'
        BY <1>5, <1>a DEF YearsArrive, LedgerTyped
    <2>4. losses' \in Nat
        BY <1>5, Lost DEF YearsArrive, LedgerTyped
    <2> QED
        BY <1>5, <2>1, <2>2, <2>3, <2>4
        DEF YearsArrive, Arrives, LedgerTyped, serverBooks, shownVars
<1>6. CASE Starts
    <2>1. ASSUME NEW kind \in {"storno", "seal", "fillGaps", "account",
                               "importSie", "postInvoice", "payInvoice",
                               "settleInvoice"}, Begin(kind, 0)
          PROVE  LedgerTyped'
        <3>1. /\ kind \in OpKinds /\ 0 \in 0..MaxYears
              /\ kind \in {"post", "void", "transferVat", "generateIB", "lock"}
                    => 0 \in Years
            BY <2>1, LedgerConstants DEF OpKinds
        <3> QED
            BY <2>1, <3>1, Began
    <2>2. ASSUME Begin("createYear", 0) PROVE LedgerTyped'
        <3> DEFINE kind == "createYear"
        <3>1. /\ kind \in OpKinds /\ 0 \in 0..MaxYears
              /\ kind \in {"post", "void", "transferVat", "generateIB", "lock"}
                    => 0 \in Years
            BY LedgerConstants DEF OpKinds
        <3>2. Begin(kind, 0)
            BY <2>2
        <3> HIDE DEF kind
        <3> QED
            BY <3>1, <3>2, Began
    <2>3. ASSUME NEW kind \in {"post", "void", "generateIB", "transferVat"},
                 activeFiscalYearId # 0, Begin(kind, activeFiscalYearId)
          PROVE  LedgerTyped'
        <3>1. /\ kind \in OpKinds
              /\ kind \in {"post", "void", "transferVat", "generateIB", "lock"}
                    => activeFiscalYearId \in Years
            BY <2>3, <1>a DEF OpKinds
        <3> QED
            BY <2>3, <3>1, <1>a, Began
    <2>4. ASSUME NEW y \in 1..fiscalYears, Begin("lock", y) PROVE LedgerTyped'
        <3> DEFINE kind == "lock"
        <3>1. /\ kind \in OpKinds /\ y \in 0..MaxYears
              /\ kind \in {"post", "void", "transferVat", "generateIB", "lock"}
                    => y \in Years
            BY <1>a, LedgerConstants DEF OpKinds, Years
        <3>2. Begin(kind, y)
            BY <2>4
        <3> HIDE DEF kind
        <3> QED
            BY <3>1, <3>2, Began
    <2> QED
        BY <1>6, <2>1, <2>2, <2>3, <2>4 DEF Starts
<1>7. CASE Decline
    BY <1>7, Idle DEF Decline, LedgerTyped, BooksInv, serverBooks, yearVars,
                      shownVars
<1>8. CASE Proceed
    <2>1. PICK o \in Ops : o = op
        BY DEF LedgerTyped, OpInv
    <2>2. o.pc = "ask" /\ o.kind \in Asking
        BY <1>8, <2>1 DEF Proceed, LedgerTyped, OpInv
    <2>3. /\ [o EXCEPT !.pc = "act"] \in Ops
          /\ [o EXCEPT !.pc = "act"].pc = "act"
          /\ [o EXCEPT !.pc = "act"].kind = o.kind
          /\ [o EXCEPT !.pc = "act"].year = o.year
        BY DEF Ops
    <2>4. op' = [o EXCEPT !.pc = "act"]
        BY <1>8, <2>1 DEF Proceed
    <2>5. /\ op' \in Ops /\ op'.pc = "act" /\ op'.kind = o.kind
          /\ op'.year = o.year
        BY <2>3, <2>4
    <2>6. o.kind \in OpKinds
        BY <2>2 DEF Asking, OpKinds
    <2>7. OpInv'
        BY <2>1, <2>5, <2>6 DEF LedgerTyped, OpInv
    <2> QED
        BY <1>8, <2>7 DEF Proceed, LedgerTyped, BooksInv, serverBooks, yearVars,
                          shownVars
<1>9. ASSUME BooksInv', years' \in years..MaxYears, UNCHANGED yearVars
      PROVE  /\ fiscalYears' \in 0..years'
             /\ activeFiscalYearId' \in 0..fiscalYears'
             /\ formYear' \in 0..fiscalYears'
    BY <1>9, <1>a DEF LedgerTyped, yearVars
<1>10. CASE Done
    <2>1. Serve /\ op.kind \in OpKinds \ {"createYear"} /\ OpInv
        BY <1>10 DEF Done, Serve, LedgerTyped, OpInv
    <2>2. BooksInv' /\ years' \in years..MaxYears
        BY <2>1, Served
    <2>3. asked' \subseteq Fetches
        BY <1>10, <2>1, <1>a, Refetched DEF Done, LedgerTyped
    <2>4. dashboard' \in Shown
        <3>1. PICK d \in Shown : d = dashboard
            BY DEF LedgerTyped
        <3>2. [d EXCEPT !.version = MaxWrites + 1] \in Shown
            BY LedgerConstants DEF Shown
        <3> QED
            BY <1>10, <3>1, <3>2 DEF Done
    <2>5. OpInv'
        BY <1>10, Idle DEF Done
    <2>6. UNCHANGED <<yearVars, verifications, rush, losses>>
        BY <1>10 DEF Done
    <2>7. unseen' \subseteq {"list", "sums"}
        BY <1>10 DEF Done, YearChange, LedgerTyped
    <2> QED
        BY <1>9, <2>2, <2>3, <2>4, <2>5, <2>6, <2>7 DEF LedgerTyped
<1>11. CASE YearCreated
    <2>1. Serve /\ op.kind = "createYear"
        BY <1>11 DEF YearCreated
    <2>2. BooksInv' /\ years' \in years..MaxYears
        BY <2>1, Served
    <2>3. PICK o \in Ops : o = op
        BY DEF LedgerTyped, OpInv
    <2>4. /\ [o EXCEPT !.pc = "years"] \in Ops
          /\ [o EXCEPT !.pc = "years"].pc = "years"
          /\ [o EXCEPT !.pc = "years"].kind = o.kind
        BY DEF Ops
    <2>5. op' = [o EXCEPT !.pc = "years"]
        BY <1>11, <2>3 DEF YearCreated
    <2>6. op' \in Ops /\ op'.pc = "years" /\ op'.kind = "createYear"
        BY <2>1, <2>3, <2>4, <2>5
    <2>7. OpInv'
        BY <2>6 DEF OpInv
    <2>8. UNCHANGED <<yearVars, shownVars, asked, unseen, rush, losses>>
        BY <1>11 DEF YearCreated
    <2> QED
        BY <1>9, <2>2, <2>7, <2>8 DEF LedgerTyped, shownVars
<1>12. CASE YearsFetched
    <2>1. fiscalYears' \in 0..years /\ losses' \in Nat
        BY <1>12, <1>a, Lost DEF YearsFetched, LedgerTyped
    <2>2. fiscalYears' \in 0..MaxYears /\ 0 \in 0..MaxYears
        BY <2>1, <1>a, LedgerConstants
    <2>3. PICK y \in 0..MaxYears : y = fiscalYears'
        BY <2>2
    <2>4. formYear' = y /\ asked' \subseteq Fetches
        <3>1. CASE op.kind = "init"
            <4>1. /\ formYear' = y
                  /\ asked' = asked \cup FetchDashboardData(y)
                                    \cup FetchVerifications(y)
                                    \cup {Fetch("accounts", 0)}
                BY <1>12, <2>3, <3>1 DEF YearsFetched
            <4> QED
                BY <4>1, FetchesTyped DEF LedgerTyped
        <3>2. CASE op.kind # "init" /\ y # activeFiscalYearId
            <4>1. WatchedYear(y)
                BY <1>12, <2>3, <3>2 DEF YearsFetched
            <4> QED
                BY <4>1, FetchesTyped DEF LedgerTyped, WatchedYear
        <3>3. CASE op.kind # "init" /\ y = activeFiscalYearId
            <4>1. /\ formYear' = y
                  /\ asked' = asked \cup FetchVerifications(y)
                BY <1>12, <2>3, <3>3 DEF YearsFetched
            <4> QED
                BY <4>1, FetchesTyped DEF LedgerTyped
        <3> QED
            BY <3>1, <3>2, <3>3
    <2>5. OpInv'
        BY <1>12, Idle DEF YearsFetched
    <2>6. activeFiscalYearId' = fiscalYears' /\ UNCHANGED <<serverBooks,
              shownVars, unseen, rush>>
        BY <1>12 DEF YearsFetched
    <2>7. /\ activeFiscalYearId' \in 0..fiscalYears'
          /\ formYear' \in 0..fiscalYears'
        BY <2>2, <2>3, <2>4, <2>6, LedgerConstants
    <2> QED
        BY <2>1, <2>4, <2>5, <2>6, <2>7
        DEF LedgerTyped, BooksInv, serverBooks, shownVars
<1>13. CASE OpFails
    <2>1. BooksInv' /\ years' \in years..MaxYears
        <3>1. CASE Serve
            BY <3>1, Served
        <3>2. CASE UNCHANGED serverBooks
            BY <3>2, <1>a DEF serverBooks, LedgerTyped, BooksInv
        <3> QED
            BY <1>13, <3>1, <3>2 DEF OpFails
    <2>2. OpInv' /\ losses' \in Nat
        BY <1>13, Idle, Lost DEF OpFails
    <2>3. UNCHANGED <<yearVars, shownVars, asked, unseen, rush>>
        BY <1>13 DEF OpFails
    <2> QED
        BY <1>9, <2>1, <2>2, <2>3 DEF LedgerTyped, shownVars
<1>14. CASE AutoSeals
    <2>1. PICK lists : BooksChange(lists, {})
        BY <1>14 DEF AutoSeals
    <2>2. BooksInv'
        BY <1>14, <2>1, Touched DEF AutoSeals, LedgerTyped, BooksInv
    <2>3. unseen' \subseteq {"list", "sums"}
        BY <1>14 DEF AutoSeals, YearChange, LedgerTyped
    <2> QED
        BY <1>14, <2>2, <2>3
        DEF AutoSeals, LedgerTyped, OpInv, yearVars, shownVars
<1>15. CASE UNCHANGED ledgerVars
    BY <1>15 DEF ledgerVars, serverBooks, yearVars, shownVars, LedgerTyped,
                 BooksInv, OpInv
<1> QED
    BY <1>1, <1>2, <1>3, <1>4, <1>5, <1>6, <1>7, <1>8, <1>10, <1>11, <1>12,
       <1>13, <1>14, <1>15 DEF LedgerNext

(* With nobody in a hurry and nothing lost: operations do not overlap with *)
(* fetches, every fetch is for the active year, and what is not shown as   *)
(* it is on the server has been asked for, or is unseen.                   *)
ListShown ==
    /\ verifications.year = activeFiscalYearId
    /\ "list" \notin unseen
          => verifications.version = books[activeFiscalYearId].list
SumsShown ==
    /\ dashboard.year = activeFiscalYearId
    /\ "sums" \notin unseen
          => dashboard.version = books[activeFiscalYearId].sums
Opened ==
    /\ activeFiscalYearId # 0
    /\ formYear = activeFiscalYearId
    /\ OfYear(asked, activeFiscalYearId)
    /\ ListShown \/ AsksList(asked)
    /\ SumsShown \/ AsksSums(asked)
    /\ basAccounts = accounts \/ AsksAccounts(asked)

Calm == /\ asked # {} => op.pc = "idle"
        /\ op.kind # "init" => Opened
        /\ op.kind = "init" => op.pc = "years"

CalmInv == rush = 0 /\ losses = 0 => Calm

LEMMA Added ==
    ASSUME NEW F, NEW G, NEW y
    PROVE  /\ OfYear(F, y) /\ OfYear(G, y) => OfYear(F \cup G, y)
           /\ AsksList(F) \/ AsksList(G) => AsksList(F \cup G)
           /\ AsksSums(F) \/ AsksSums(G) => AsksSums(F \cup G)
           /\ AsksAccounts(F) \/ AsksAccounts(G) => AsksAccounts(F \cup G)
BY DEF OfYear, AsksList, AsksSums, AsksAccounts

LEMMA Removed ==
    ASSUME NEW F, NEW f \in F, NEW G, NEW y
    PROVE  /\ OfYear(F, y) /\ OfYear(G, y) => OfYear((F \ {f}) \cup G, y)
           /\ AsksList(F) /\ f.what # "list" => AsksList((F \ {f}) \cup G)
           /\ AsksSums(F) /\ f.what # "sums" /\ (f.then = "sums" => AsksSums(G))
                 => AsksSums((F \ {f}) \cup G)
           /\ AsksAccounts(F) /\ f.what # "accounts"
                 => AsksAccounts((F \ {f}) \cup G)
BY DEF OfYear, AsksList, AsksSums, AsksAccounts

LEMMA NothingAsked ==
    ASSUME NEW y
    PROVE  /\ ~AsksList({}) /\ ~AsksSums({}) /\ ~AsksAccounts({})
           /\ OfYear({}, y)
BY DEF OfYear, AsksList, AsksSums, AsksAccounts

(* What an answer leaves under way.                                        *)
LEMMA StillAsked ==
    ASSUME LedgerTyped, Opened, NEW f \in asked, Arrives(f)
    PROVE  /\ OfYear(asked', activeFiscalYearId)
           /\ AsksList(asked) /\ f.what # "list" => AsksList(asked')
           /\ AsksSums(asked) /\ f.what # "sums" => AsksSums(asked')
           /\ AsksAccounts(asked) /\ f.what # "accounts" => AsksAccounts(asked')
<1> DEFINE y == activeFiscalYearId
           A == (asked \ {f}) \cup Follow(f)
<1>1. OfYear(asked, y) /\ OfYear(Follow(f), y)
      /\ (f.then = "sums" => AsksSums(Follow(f)))
    BY Followed DEF Opened
<1>2. /\ OfYear(A, y)
      /\ AsksList(asked) /\ f.what # "list" => AsksList(A)
      /\ AsksSums(asked) /\ f.what # "sums" => AsksSums(A)
      /\ AsksAccounts(asked) /\ f.what # "accounts" => AsksAccounts(A)
    <2> HIDE DEF y
    <2> QED
        BY <1>1, Removed
<1>3. asked' = A
    BY DEF Arrives
<1> HIDE DEF A
<1> QED
    BY <1>2, <1>3

LEMMA CalmNext ==
    ASSUME LedgerTyped, CalmInv, LedgerNext, rush' = 0, losses' = 0
    PROVE  Calm'
<1> DEFINE y == activeFiscalYearId
<1>a. /\ years \in 1..MaxYears /\ y \in 0..MaxYears /\ y \in 0..years
      /\ 1..years \subseteq Years
    BY LedgerConstants DEF LedgerTyped, BooksInv, Years
<1>b. Opened => y \in Years /\ y \in 1..years /\ y # 0
    BY <1>a DEF Opened
<1>c. ASSUME rush' = rush, losses' = losses PROVE Calm
    BY <1>c DEF CalmInv
<1>d. ASSUME Calm, op.pc # "idle", op.kind # "init"
      PROVE  /\ asked = {} /\ Opened /\ ListShown /\ SumsShown
             /\ basAccounts = accounts
    BY <1>d, NothingAsked DEF Calm, Opened
<1>e. ~Loses
    BY Lost
<1>1. ASSUME NEW z \in Years, ChangeYear(z) PROVE Calm'
    <2>1. rush = 0 /\ asked = {} /\ op.pc = "idle"
        BY <1>1, Hurry DEF ChangeYear
    <2>2. Opened /\ op.kind # "init"
        BY <1>1, <2>1 DEF ChangeYear, CalmInv, Calm
    <2>3. basAccounts = accounts
        BY <2>1, <2>2, NothingAsked DEF Opened
    <2>4. asked' = FetchDashboardData(z) \cup FetchVerifications(z)
        BY <1>1, <2>1 DEF ChangeYear, WatchedYear
    <2>5. z \in 0..MaxYears /\ z # 0
        BY LedgerConstants DEF Years
    <2>6. /\ OfYear(FetchDashboardData(z), z) /\ AsksSums(FetchDashboardData(z))
          /\ OfYear(FetchVerifications(z), z) /\ AsksList(FetchVerifications(z))
        BY <2>5, FetchesAsk
    <2>7. OfYear(asked', z) /\ AsksList(asked') /\ AsksSums(asked')
        BY <2>4, <2>6, Added
    <2> QED
        BY <1>1, <2>1, <2>2, <2>3, <2>5, <2>7
        DEF ChangeYear, WatchedYear, Calm, Opened, serverBooks, shownVars
<1>2. ASSUME NEW f \in asked, VerificationsArrive(f) PROVE Calm'
    <2>1. Arrives(f) /\ f.what = "list" /\ rush' = rush /\ losses' = losses
        BY <1>2, <1>e DEF VerificationsArrive, Arrives
    <2>2. Opened /\ op.pc = "idle" /\ op.kind # "init" /\ f.year = y
        BY <1>c, <2>1 DEF Calm, Opened, OfYear
    <2>3. verifications' = [year |-> y, version |-> books[y].list]
          /\ unseen' = unseen \ {"list"}
        BY <1>2, <1>e, <1>b, <2>2 DEF VerificationsArrive, Version
    <2> QED
        BY <1>2, <2>1, <2>2, <2>3, StillAsked
        DEF VerificationsArrive, Arrives, Calm, Opened, ListShown, SumsShown,
            serverBooks, yearVars
<1>3. ASSUME NEW f \in asked, DashboardArrives(f) PROVE Calm'
    <2>1. Arrives(f) /\ f.what = "sums" /\ rush' = rush /\ losses' = losses
        BY <1>3, <1>e DEF DashboardArrives, Arrives
    <2>2. Opened /\ op.pc = "idle" /\ op.kind # "init" /\ f.year = y
        BY <1>c, <2>1 DEF Calm, Opened, OfYear
    <2>3. dashboard' = [year |-> y, version |-> books[y].sums]
          /\ unseen' = unseen \ {"sums"}
        BY <1>3, <1>e, <1>b, <2>2 DEF DashboardArrives, Version
    <2> QED
        BY <1>3, <2>1, <2>2, <2>3, StillAsked
        DEF DashboardArrives, Arrives, Calm, Opened, ListShown, SumsShown,
            serverBooks, yearVars
<1>4. ASSUME NEW f \in asked, AccountsArrive(f) PROVE Calm'
    <2>1. Arrives(f) /\ f.what = "accounts" /\ rush' = rush /\ losses' = losses
        BY <1>4, <1>e DEF AccountsArrive, Arrives
    <2>2. Opened /\ op.pc = "idle" /\ op.kind # "init"
        BY <1>c, <2>1 DEF Calm
    <2>3. basAccounts' = accounts
        BY <1>4, <1>e DEF AccountsArrive
    <2> QED
        BY <1>4, <2>1, <2>2, <2>3, StillAsked
        DEF AccountsArrive, Arrives, Calm, Opened, ListShown, SumsShown,
            serverBooks, yearVars
<1>5. ASSUME NEW f \in asked, YearsArrive(f) PROVE Calm'
    <2>1. Arrives(f) /\ f.what = "years" /\ rush' = rush /\ losses' = losses
        BY <1>5, <1>e DEF YearsArrive, Arrives
    <2>2. Opened /\ op.pc = "idle" /\ op.kind # "init"
        BY <1>c, <2>1 DEF Calm
    <2> QED
        BY <1>5, <2>1, <2>2, StillAsked
        DEF YearsArrive, Arrives, Calm, Opened, ListShown, SumsShown,
            serverBooks, shownVars
<1>6. ASSUME NEW kind \in OpKinds, NEW z, Begin(kind, z) PROVE Calm'
    <2>1. rush = 0 /\ asked = {} /\ op.pc = "idle"
        BY <1>6, Hurry DEF Begin
    <2>2. Opened /\ op.kind # "init"
        BY <1>6, <2>1 DEF Begin, CalmInv, Calm
    <2>3. op'.kind = kind /\ kind # "init"
        BY <1>6 DEF Begin, OpKinds
    <2>4. UNCHANGED <<serverBooks, yearVars, shownVars, asked, unseen>>
        BY <1>6 DEF Begin
    <2> QED
        BY <2>1, <2>2, <2>3, <2>4 DEF Calm, Opened, ListShown, SumsShown,
            serverBooks, yearVars, shownVars
<1>7. CASE Starts
    BY <1>6, <1>7 DEF Starts, OpKinds
<1>8. CASE Decline \/ Proceed
    <2>1. /\ rush' = rush /\ losses' = losses /\ op.pc = "ask"
          /\ UNCHANGED <<serverBooks, yearVars, shownVars, asked, unseen>>
        BY <1>8 DEF Decline, Proceed
    <2>2. Opened /\ op.kind # "init" /\ asked = {}
        BY <2>1, <1>c, <1>d DEF Calm
    <2>3. op'.kind # "init"
        BY <1>8, <2>2 DEF Decline, Proceed, NoOp, LedgerTyped, OpInv, Ops
    <2> QED
        BY <2>1, <2>2, <2>3 DEF Calm, Opened, ListShown, SumsShown,
            serverBooks, yearVars, shownVars
<1>9. CASE Done
    <2>1. /\ Serve /\ op.kind \in OpKinds \ {"createYear"} /\ OpInv
          /\ op.pc = "act" /\ rush' = rush /\ losses' = losses
        BY <1>9 DEF Done, Serve, LedgerTyped, OpInv
    <2>2. /\ asked = {} /\ Opened /\ ListShown /\ SumsShown
          /\ basAccounts = accounts
        BY <2>1, <1>c, <1>d DEF Calm
    <2>3. y \in Years /\ y # 0
        BY <2>2, <1>b
    <2>4. asked' = Refetch(y)
        BY <1>9, <2>2 DEF Done
    <2>5. OfYear(asked', y)
        BY <2>1, <2>3, <2>4, <1>a, Refetched
    <2>6. /\ op.kind \in Unfetched => unseen' = unseen \cup YearChange
          /\ op.kind \notin Unfetched => unseen' = unseen
          /\ UNCHANGED <<yearVars, verifications>>
        BY <1>9 DEF Done
    <2>7. ListShown' \/ AsksList(asked')
        <3>1. CASE op.kind \notin Unfetched \cup {"account"}
            BY <2>1, <2>3, <2>4, <3>1, <1>a, Refetched
        <3>2. CASE op.kind \in Unfetched
            BY <2>2, <2>3, <2>6, <3>2 DEF YearChange, ListShown, yearVars
        <3>3. CASE op.kind = "account"
            <4>1. books' = books
                BY <2>1, <3>3, Served
            <4>2. unseen' = unseen
                BY <2>6, <3>3 DEF Unfetched
            <4> QED
                BY <2>2, <2>6, <4>1, <4>2 DEF ListShown, yearVars
        <3> QED
            BY <3>1, <3>2, <3>3
    <2>10. SumsShown' \/ AsksSums(asked')
        <3>1. CASE op.kind \notin Unfetched \cup {"seal", "fillGaps", "account"}
            BY <2>1, <2>3, <2>4, <3>1, <1>a, Refetched
        <3>2. op.kind # "post" => dashboard' = dashboard
            BY <1>9 DEF Done
        <3>3. CASE op.kind \in Unfetched
            <4>1. dashboard' = dashboard
                BY <3>2, <3>3 DEF Unfetched
            <4> QED
                BY <2>2, <2>3, <2>6, <3>3, <4>1
                DEF YearChange, SumsShown, yearVars
        <3>4. CASE op.kind \in {"seal", "fillGaps", "account"}
            <4>1. books'[y].sums = books[y].sums
                BY <2>1, <2>3, <3>4, Served
            <4>2. unseen' = unseen
                BY <2>6, <3>4 DEF Unfetched
            <4> QED
                BY <2>2, <2>6, <3>2, <3>4, <4>1, <4>2 DEF SumsShown, yearVars
        <3> QED
            BY <3>1, <3>3, <3>4
    <2>8. (basAccounts = accounts)' \/ AsksAccounts(asked')
        <3>1. CASE op.kind = "account"
            BY <2>1, <2>3, <2>4, <3>1, <1>a, Refetched
        <3>2. CASE op.kind # "account"
            <4>1. accounts' = accounts
                BY <2>1, <3>2, Served
            <4> QED
                BY <1>9, <2>2, <4>1 DEF Done
        <3> QED
            BY <3>1, <3>2
    <2>9. op'.pc = "idle" /\ op'.kind = "none" /\ UNCHANGED yearVars
        BY <1>9 DEF Done, NoOp
    <2> QED
        BY <2>2, <2>5, <2>7, <2>8, <2>9, <2>10 DEF Calm, Opened, yearVars
<1>10. CASE YearCreated
    <2>1. /\ Serve /\ op.kind = "createYear" /\ op.pc = "act"
          /\ rush' = rush /\ losses' = losses
          /\ UNCHANGED <<yearVars, shownVars, asked, unseen>>
        BY <1>10 DEF YearCreated, Serve
    <2>2. /\ asked = {} /\ Opened /\ ListShown /\ SumsShown
          /\ basAccounts = accounts
        BY <2>1, <1>c, <1>d DEF Calm
    <2>3. /\ books'[y].list = books[y].list /\ books'[y].sums = books[y].sums
          /\ accounts' = accounts
        BY <2>1, <2>2, <1>b, Served
    <2>4. op'.kind # "init"
        BY <1>10, <2>1 DEF YearCreated, LedgerTyped, OpInv, Ops
    <2> QED
        BY <2>1, <2>2, <2>3, <2>4
        DEF Calm, Opened, ListShown, SumsShown, yearVars, shownVars
<1>11. CASE YearsFetched
    <2>1. /\ op.pc = "years" /\ rush' = rush /\ losses' = losses
          /\ fiscalYears' = years
        BY <1>11, <1>e DEF YearsFetched
    <2>2. asked = {} /\ (op.kind # "init" => Opened)
        BY <2>1, <1>c DEF Calm
    <2>3. PICK z \in 0..MaxYears : z = years /\ z # 0
        BY <1>a
    <2>4. /\ activeFiscalYearId' = z
          /\ UNCHANGED <<serverBooks, shownVars, unseen>>
        BY <1>11, <2>1, <2>3 DEF YearsFetched
    <2>5. /\ OfYear(FetchDashboardData(z), z) /\ AsksSums(FetchDashboardData(z))
          /\ OfYear(FetchVerifications(z), z) /\ AsksList(FetchVerifications(z))
          /\ OfYear({Fetch("accounts", 0)}, z)
          /\ AsksAccounts({Fetch("accounts", 0)})
        BY <2>3, FetchesAsk
    <2>6. /\ formYear' = z /\ OfYear(asked', z) /\ AsksList(asked')
          /\ SumsShown' \/ AsksSums(asked')
          /\ basAccounts = accounts \/ AsksAccounts(asked')
        <3>1. CASE op.kind = "init"
            <4>1. /\ formYear' = z
                  /\ asked' = FetchDashboardData(z) \cup FetchVerifications(z)
                              \cup {Fetch("accounts", 0)}
                BY <1>11, <2>1, <2>2, <2>3, <3>1 DEF YearsFetched
            <4>2. LET F == FetchDashboardData(z) \cup FetchVerifications(z)
                  IN  OfYear(F, z) /\ AsksList(F) /\ AsksSums(F)
                BY <2>5, Added
            <4>3. /\ OfYear(asked', z) /\ AsksList(asked') /\ AsksSums(asked')
                  /\ AsksAccounts(asked')
                BY <4>1, <4>2, <2>5, Added
            <4> QED
                BY <4>1, <4>3
        <3>2. CASE op.kind # "init" /\ z # y
            <4>1. WatchedYear(z)
                BY <1>11, <2>1, <2>3, <3>2 DEF YearsFetched
            <4>2. /\ formYear' = z
                  /\ asked' = FetchDashboardData(z) \cup FetchVerifications(z)
                BY <4>1, <2>2 DEF WatchedYear
            <4>3. OfYear(asked', z) /\ AsksList(asked') /\ AsksSums(asked')
                BY <4>2, <2>5, Added
            <4>4. basAccounts = accounts
                BY <2>2, <3>2, NothingAsked DEF Opened
            <4> QED
                BY <4>2, <4>3, <4>4
        <3>3. CASE op.kind # "init" /\ z = y
            <4>1. formYear' = z /\ asked' = FetchVerifications(z)
                BY <1>11, <2>1, <2>2, <2>3, <3>3 DEF YearsFetched
            <4>2. basAccounts = accounts /\ SumsShown
                BY <2>2, <3>3, NothingAsked DEF Opened
            <4>3. SumsShown'
                BY <4>2, <2>4, <3>3 DEF SumsShown, serverBooks, shownVars
            <4> QED
                BY <4>1, <4>2, <4>3, <2>5
        <3> QED
            BY <3>1, <3>2, <3>3
    <2>7. op'.pc = "idle" /\ op'.kind = "none"
        BY <1>11 DEF YearsFetched, NoOp
    <2> QED
        BY <2>3, <2>4, <2>6, <2>7 DEF Calm, Opened, serverBooks, shownVars
<1>12. CASE OpFails
    BY <1>12, <1>e DEF OpFails
<1>13. CASE AutoSeals
    <2>1. /\ unseen' = unseen \cup YearChange
          /\ rush' = rush /\ losses' = losses
          /\ UNCHANGED <<accounts, yearVars, shownVars, asked, op>>
        BY <1>13 DEF AutoSeals
    <2>2. Calm
        BY <2>1, <1>c
    <2>3. PICK lists : BooksChange(lists, {})
        BY <1>13 DEF AutoSeals
    <2>4. \A z \in Years : books'[z].sums = books[z].sums
        BY <1>13, <2>3, Touched DEF AutoSeals, LedgerTyped
    <2>5. ASSUME Opened PROVE Opened'
        <3>1. y \in Years /\ y # 0
            BY <2>5, <1>b
        <3>2. ListShown => ListShown'
            BY <2>1, <3>1 DEF YearChange, ListShown, yearVars, shownVars
        <3>3. SumsShown => SumsShown'
            BY <2>1, <2>4, <3>1 DEF YearChange, SumsShown, yearVars, shownVars
        <3> QED
            BY <2>1, <2>5, <3>2, <3>3 DEF Opened, yearVars, shownVars
    <2> QED
        BY <2>1, <2>2, <2>5 DEF Calm
<1> QED
    BY <1>1, <1>2, <1>3, <1>4, <1>5, <1>7, <1>8, <1>9, <1>10, <1>11, <1>12,
       <1>13 DEF LedgerNext

(* ActiveYearShown: with nobody in a hurry and nothing lost, the page at   *)
(* rest shows the active year as it is on the server, but for what has     *)
(* changed without being fetched (app.js:594-647, 746-767, 961-977,        *)
(* verification.go:88-104).                                                *)
THEOREM ActiveYearIsShown == LedgerSpec => []ActiveYearShown
<1>1. LedgerInit => LedgerTyped /\ CalmInv
    <2> SUFFICES ASSUME LedgerInit PROVE Calm
        BY LedgerTypeInit DEF CalmInv
    <2> QED
        BY DEF LedgerInit, Calm
<1>2. LedgerTyped /\ CalmInv /\ [LedgerNext]_ledgerVars
        => (LedgerTyped /\ CalmInv)'
    <2> SUFFICES ASSUME LedgerTyped, CalmInv, [LedgerNext]_ledgerVars
                 PROVE  LedgerTyped' /\ CalmInv'
        OBVIOUS
    <2>1. LedgerTyped'
        BY LedgerTypeNext
    <2>2. CASE LedgerNext
        BY <2>1, <2>2, CalmNext DEF CalmInv
    <2>3. CASE UNCHANGED ledgerVars
        <3>1. UNCHANGED <<serverBooks, yearVars, shownVars, asked, op, unseen,
                          rush, losses>>
            BY <2>3 DEF ledgerVars
        <3> QED
            BY <2>1, <3>1 DEF CalmInv, Calm, Opened, ListShown, SumsShown,
                serverBooks, yearVars, shownVars
    <2> QED
        BY <2>2, <2>3
<1>3. LedgerTyped /\ CalmInv => ActiveYearShown
    <2> SUFFICES ASSUME CalmInv, AtRestLedger PROVE ActiveYearShown
        BY DEF ActiveYearShown
    <2>1. Opened
        BY DEF CalmInv, Calm, AtRestLedger
    <2>2. ListShown /\ SumsShown /\ basAccounts = accounts
        BY <2>1, NothingAsked DEF AtRestLedger, Opened
    <2> QED
        BY <2>1, <2>2 DEF ActiveYearShown, Opened, ListShown, SumsShown, Version
<1> QED
    BY <1>1, <1>2, <1>3, PTL DEF LedgerSpec

-----------------------------------------------------------------------------
(* The reports (ReportView).                                               *)

(* Who acts without having been impatient has nothing to wait for. *)
LEMMA Waited ==
    ASSUME UserTurns, impatience \in Nat
    PROVE  /\ impatience' \in 0..MaxImpatience
           /\ impatience' = 0 => /\ impatience = 0
                                 /\ reportsAsked = {}
                                 /\ vatTransfer.pc = "idle"
BY ReportViewAssumption DEF UserTurns

ReportKinds == [what : {"vat", "report", "plan", "invoice"}, year : AnyYear]

LEMMA AskedFor ==
    ASSUME NEW what \in {"vat", "report", "plan", "invoice"}, NEW y,
           Asks(what, y)
    PROVE  /\ reportsAsked \subseteq reportsAsked'
           /\ \E r \in reportsAsked' : r.what = what
           /\ \A r \in reportsAsked' :
                 r \in reportsAsked \/ (r.what = what /\ r.year = y)
           /\ y \in AnyYear /\ reportsAsked \subseteq ReportKinds
                 => reportsAsked' \subseteq ReportKinds
<1> DEFINE new == [what |-> what, year |-> y]
<1>1. reportsAsked' = reportsAsked \cup {new}
    BY DEF Asks
<1>2. new.what = what /\ new.year = y /\ (y \in AnyYear => new \in ReportKinds)
    BY DEF ReportKinds
<1> HIDE DEF new
<1> QED
    BY <1>1, <1>2

LEMMA ReportTypeInit == ReportInit => ReportTypeOK
<1> SUFFICES ASSUME ReportInit PROVE ReportTypeOK
    OBVIOUS
<1>1. 0 \in AnyYear /\ activeYear \in 1..ReportYears
      /\ 0 \in 0..MaxImpatience /\ 0 \in 0..MaxErrors
    BY ReportViewAssumption DEF ReportInit, AnyYear
<1>2. vatTransfer \in [pc : {"idle", "ask", "sent"}, question : AnyYear,
                       report : AnyYear, posted : AnyYear]
    BY <1>1 DEF ReportInit, NoTransfer
<1> QED
    BY <1>1, <1>2 DEF ReportInit, ReportTypeOK

TransferTypes == [pc : {"idle", "ask", "sent"}, question : AnyYear,
                  report : AnyYear, posted : AnyYear]

LEMMA ReportTypeNext ==
    ReportTypeOK /\ [ReportNext]_reportVars => ReportTypeOK'
<1> SUFFICES ASSUME ReportTypeOK, [ReportNext]_reportVars
             PROVE  ReportTypeOK'
    OBVIOUS
<1>a. /\ 0 \in AnyYear
      /\ 1..ReportYears \subseteq AnyYear
      /\ impatience \in Nat
    BY ReportViewAssumption DEF ReportTypeOK, AnyYear
<1>b. /\ NoTransfer \in TransferTypes
      /\ NoTransfer.pc = "idle"
    BY <1>a DEF NoTransfer, TransferTypes
<1>c. vatTransfer \in TransferTypes
    BY DEF ReportTypeOK, TransferTypes
<1>1. ASSUME NEW y \in AnyYear, y # 0 PROVE TurnToYear(y) => ReportTypeOK'
    BY <1>a, <1>1, Waited
    DEF TurnToYear, ReportTypeOK, AnyYear, vatPage, reportPage, reportPast
<1>2. ASSUME NEW y \in AnyYear
      PROVE  VatReportArrives(y) \/ ReportArrives(y) \/ SamlingsplanArrives(y)
             \/ InvoicePDFArrives(y) => ReportTypeOK'
    <2> SUFFICES ASSUME VatReportArrives(y) \/ ReportArrives(y)
                        \/ SamlingsplanArrives(y) \/ InvoicePDFArrives(y)
                 PROVE  ReportTypeOK'
        OBVIOUS
    <2>1. reportsAsked' \subseteq reportsAsked
        BY DEF VatReportArrives, ReportArrives, SamlingsplanArrives, Answered,
               InvoicePDFArrives
    <2>2. errors' \in 0..MaxErrors /\ impatience' = impatience
        BY ReportViewAssumption
        DEF VatReportArrives, ReportArrives, SamlingsplanArrives, Errs,
            InvoicePDFArrives, ReportTypeOK
    <2>3. saved' \subseteq AnyYear \X AnyYear
        BY <1>a
        DEF VatReportArrives, ReportArrives, SamlingsplanArrives, reportPast,
            InvoicePDFArrives, ReportTypeOK
    <2> QED
        BY <2>1, <2>2, <2>3, <1>a
        DEF VatReportArrives, ReportArrives, SamlingsplanArrives,
            InvoicePDFArrives, ReportTypeOK, vatPage, reportPage, reportPast
<1>3. ASSUME NEW y \in AnyYear PROVE DownloadInvoicePDF(y) => ReportTypeOK'
    BY <1>a, <1>3, Waited, AskedFor
    DEF DownloadInvoicePDF, ReportKinds, ReportTypeOK, vatPage, reportPage,
        reportPast
<1>4. CASE SetVatPreset \/ LoadFinancialReport \/ DownloadSamlingsplan
           \/ DownloadExcel
    <2>1. impatience' \in 0..MaxImpatience
        BY <1>a, <1>4, Waited DEF SetVatPreset, LoadFinancialReport,
                                  DownloadSamlingsplan, DownloadExcel
    <2>2. reportsAsked' \subseteq ReportKinds
        <3>1. activeYear \in AnyYear /\ reportsAsked \subseteq ReportKinds
            BY <1>a DEF ReportTypeOK, ReportKinds
        <3> QED
            BY <3>1, <1>4, AskedFor
            DEF SetVatPreset, LoadFinancialReport, DownloadSamlingsplan,
                DownloadExcel
    <2>3. saved' \subseteq AnyYear \X AnyYear
        BY <1>4
        DEF SetVatPreset, LoadFinancialReport, DownloadSamlingsplan,
            DownloadExcel, ReportTypeOK, reportPast
    <2> QED
        BY <2>1, <2>2, <2>3, <1>a, <1>4
        DEF SetVatPreset, LoadFinancialReport, DownloadSamlingsplan,
            ReportKinds,
            DownloadExcel, ReportTypeOK, vatPage, reportPage, reportPast
<1>5. CASE TransferVat
    <2>1. vatTransfer' = [pc |-> "ask", question |-> vatPeriod,
                          report |-> vatReport, posted |-> 0]
        BY <1>5 DEF TransferVat, NoTransfer
    <2>2. vatPeriod \in AnyYear /\ vatReport \in AnyYear
        BY DEF ReportTypeOK
    <2>3. vatTransfer' \in TransferTypes /\ vatTransfer'.pc = "ask"
        BY <2>1, <2>2, <1>a DEF TransferTypes
    <2> HIDE <2>1
    <2> QED
        BY <2>3, <1>a, <1>5, Waited
        DEF TransferVat, ReportTypeOK, reportPage, reportPast, TransferTypes
<1>6. CASE TransferDeclined \/ TransferAnswered \/ TransferFails
    <2>1. vatTransfer' \in TransferTypes /\ vatTransfer' = NoTransfer
        BY <1>b, <1>6 DEF TransferDeclined, TransferAnswered, TransferFails
    <2>2. vatTransfer.question \in AnyYear /\ vatTransfer.report \in AnyYear
          /\ vatTransfer.posted \in AnyYear
        BY <1>c DEF TransferTypes
    <2>3. Transferred => transfers' \subseteq AnyYear \X AnyYear \X AnyYear
        BY <2>2 DEF Transferred, ReportTypeOK
    <2>4. reportsAsked' \subseteq ReportKinds
        BY <1>6, AskedFor DEF TransferDeclined, TransferAnswered, TransferFails,
                              CalculateVatReport, ReportTypeOK, ReportKinds
    <2>5. errors' \in 0..MaxErrors /\ impatience' = impatience
        BY <1>6, ReportViewAssumption
        DEF TransferDeclined, TransferAnswered, TransferFails, ReportTypeOK,
            Errs, reportPage
    <2>6. transfers' \subseteq AnyYear \X AnyYear \X AnyYear
        BY <2>3, <1>6
        DEF TransferDeclined, TransferAnswered, TransferFails, ReportTypeOK,
            reportPast
    <2> QED
        BY <2>1, <2>4, <2>5, <2>6, <1>a, <1>6
        DEF TransferDeclined, TransferAnswered, TransferFails, ReportTypeOK,
            reportPage, reportPast, TransferTypes, ReportKinds
<1>7. CASE TransferConfirmed
    <2>1. vatPeriod \in AnyYear
        BY DEF ReportTypeOK
    <2>2. vatTransfer' \in TransferTypes /\ vatTransfer'.pc = "sent"
        BY <1>7, <1>c, <2>1 DEF TransferConfirmed, TransferTypes
    <2> QED
        BY <2>2, <1>7
        DEF TransferConfirmed, ReportTypeOK, reportPage, reportPast,
            TransferTypes
<1>8. CASE UNCHANGED reportVars
    BY <1>8 DEF reportVars, ReportTypeOK, vatPage, reportPage, reportPast
<1>9. ASSUME NEW y \in AnyYear, SetVatDates(y) PROVE ReportTypeOK'
    <2>1. reportsAsked' \subseteq ReportKinds
        BY <1>9, AskedFor
        DEF SetVatDates, CalculateVatReport, ReportTypeOK, ReportKinds
    <2> QED
        BY <2>1, <1>a, <1>9, Waited
        DEF SetVatDates, ReportTypeOK, ReportKinds, reportPage, reportPast
<1> QED
    BY <1>1, <1>2, <1>3, <1>4, <1>5, <1>6, <1>7, <1>8, <1>9 DEF ReportNext

(* What is transferred is what the question names. *)
TransferInv ==
    /\ vatTransfer.pc = "ask" => vatTransfer.question = vatPeriod
    /\ vatTransfer.pc = "sent" => vatTransfer.posted = vatTransfer.question
    /\ TransferAsAsked
    /\ LoadingEnds

(* Without impatience nothing is shown or under way but what was chosen.   *)
PatientInv ==
    impatience = 0 =>
        /\ \A r \in reportsAsked :
              /\ r.what = "vat" => r.year = vatPeriod
              /\ r.what = "plan" => r.year = activeYear
        /\ \/ vatReport \in {0, vatPeriod} \/ vatPeriod = 0
           \/ \E r \in reportsAsked : r.what = "vat"
        /\ vatTransfer.pc # "idle" /\ vatTransfer.question # 0
              => vatTransfer.report = vatTransfer.question
        /\ \A t \in transfers : t[1] = t[3]
        /\ \A s \in saved : s[1] = s[2]

LEMMA TransferInvNext ==
    ReportTypeOK /\ TransferInv /\ [ReportNext]_reportVars => TransferInv'
<1> SUFFICES ASSUME ReportTypeOK, TransferInv, [ReportNext]_reportVars
             PROVE  TransferInv'
    OBVIOUS
<1> USE DEF TransferInv, TransferAsAsked, LoadingEnds, vatPage, reportPage,
            reportPast
<1>c. vatTransfer \in TransferTypes
    BY DEF ReportTypeOK, TransferTypes
<1>1. ASSUME NEW y \in AnyYear
      PROVE  TurnToYear(y) \/ DownloadInvoicePDF(y) \/ VatReportArrives(y)
             \/ SamlingsplanArrives(y) \/ InvoicePDFArrives(y)
             => TransferInv'
    BY AskedFor
    DEF TurnToYear, DownloadInvoicePDF, VatReportArrives, Answered,
        SamlingsplanArrives, InvoicePDFArrives
<1>2. ASSUME NEW y \in AnyYear PROVE ReportArrives(y) => TransferInv'
    BY DEF ReportArrives
<1>3. CASE SetVatPreset \/ LoadFinancialReport \/ DownloadSamlingsplan
           \/ DownloadExcel
    BY <1>3, AskedFor
    DEF SetVatPreset, LoadFinancialReport, DownloadSamlingsplan,
                DownloadExcel, UserTurns
<1>4. CASE TransferVat
    <2>1. vatTransfer' = [pc |-> "ask", question |-> vatPeriod,
                          report |-> vatReport, posted |-> 0]
        BY <1>4 DEF TransferVat, NoTransfer
    <2>2. vatTransfer'.pc = "ask" /\ vatTransfer'.question = vatPeriod
        BY <2>1
    <2> HIDE <2>1
    <2> QED
        BY <2>2, <1>4 DEF TransferVat
<1>5. CASE TransferDeclined
    BY <1>5 DEF TransferDeclined, NoTransfer
<1>6. CASE TransferConfirmed
    <2>1. /\ vatTransfer'.pc = "sent"
          /\ vatTransfer'.question = vatTransfer.question
          /\ vatTransfer'.posted = vatPeriod
        BY <1>6, <1>c DEF TransferConfirmed, TransferTypes
    <2> QED
        BY <2>1, <1>6 DEF TransferConfirmed
<1>7. CASE TransferAnswered \/ TransferFails
    <2>1. vatTransfer'.pc = "idle"
        BY <1>7 DEF TransferAnswered, TransferFails, NoTransfer
    <2>2. \A t \in transfers' : t[1] = t[2]
        BY <1>7 DEF TransferAnswered, TransferFails, Transferred
    <2> QED
        BY <2>1, <2>2, <1>7, AskedFor
        DEF TransferAnswered, TransferFails, CalculateVatReport
<1>8. ASSUME NEW y \in AnyYear, SetVatDates(y) PROVE TransferInv'
    <2>1. vatTransfer.pc # "ask"
        BY <1>8 DEF SetVatDates, UserTurns
    <2> QED
        BY <2>1, <1>8, AskedFor DEF SetVatDates, CalculateVatReport
<1>9. CASE UNCHANGED reportVars
    BY <1>9 DEF reportVars
<1> QED
    BY <1>1, <1>2, <1>3, <1>4, <1>5, <1>6, <1>7, <1>8, <1>9 DEF ReportNext

LEMMA PatientInvNext ==
    ReportTypeOK /\ TransferInv /\ PatientInv /\ [ReportNext]_reportVars
        => PatientInv'
<1> SUFFICES ASSUME ReportTypeOK, TransferInv, PatientInv,
                    [ReportNext]_reportVars, impatience' = 0
             PROVE  PatientInv'
    BY DEF PatientInv
<1> USE DEF vatPage, reportPage, reportPast
<1>a. impatience \in Nat
    BY DEF ReportTypeOK
<1>b. vatTransfer \in TransferTypes
    BY DEF ReportTypeOK, TransferTypes
<1>c. UserTurns => /\ impatience = 0
                   /\ reportsAsked = {}
                   /\ vatTransfer.pc = "idle"
    BY <1>a, Waited
<1>d. UserTurns => vatReport \in {0, vatPeriod} \/ vatPeriod = 0
    BY <1>c DEF PatientInv
<1>1. ASSUME NEW y \in AnyYear
      PROVE  TurnToYear(y) \/ DownloadInvoicePDF(y) => PatientInv'
    BY <1>c, AskedFor DEF TurnToYear, DownloadInvoicePDF, PatientInv
<1>2. ASSUME NEW y \in AnyYear, VatReportArrives(y) PROVE PatientInv'
    <2>1. y = vatPeriod
        BY <1>2 DEF VatReportArrives, Answered, PatientInv
    <2> QED
        BY <1>2, <2>1 DEF VatReportArrives, Answered, PatientInv
<1>3. ASSUME NEW y \in AnyYear,
             ReportArrives(y) \/ SamlingsplanArrives(y) \/ InvoicePDFArrives(y)
      PROVE  PatientInv'
    BY <1>3 DEF ReportArrives, SamlingsplanArrives, InvoicePDFArrives,
                Answered, PatientInv
<1>4. CASE SetVatPreset
    BY <1>4, <1>c, AskedFor DEF SetVatPreset, PatientInv
<1>5. CASE LoadFinancialReport \/ DownloadSamlingsplan \/ DownloadExcel
    BY <1>5, <1>c, AskedFor
    DEF LoadFinancialReport, DownloadSamlingsplan, DownloadExcel, PatientInv
<1>6. CASE TransferVat
    <2>1. vatTransfer' = [pc |-> "ask", question |-> vatPeriod,
                          report |-> vatReport, posted |-> 0]
        BY <1>6 DEF TransferVat, NoTransfer
    <2>2. vatTransfer'.report = vatReport /\ vatTransfer'.question = vatPeriod
        BY <2>1
    <2>3. vatReport = vatPeriod \/ vatPeriod = 0
        BY <1>6, <1>d DEF TransferVat
    <2> HIDE <2>1
    <2> QED
        BY <2>2, <2>3, <1>6, <1>c DEF TransferVat, PatientInv
<1>7. CASE TransferDeclined
    BY <1>7 DEF TransferDeclined, NoTransfer, PatientInv
<1>8. CASE TransferConfirmed
    <2>1. /\ vatTransfer.pc # "idle"
          /\ vatTransfer'.question = vatTransfer.question
          /\ vatTransfer'.report = vatTransfer.report
        BY <1>8, <1>b DEF TransferConfirmed, TransferTypes
    <2> QED
        BY <2>1, <1>8 DEF TransferConfirmed, PatientInv
<1>9. CASE TransferAnswered \/ TransferFails
    <2>1. vatTransfer'.pc = "idle"
        BY <1>9 DEF TransferAnswered, TransferFails, NoTransfer
    <2>2. vatTransfer.posted = vatTransfer.question /\ vatTransfer.pc # "idle"
        BY <1>9 DEF TransferAnswered, TransferFails, TransferInv
    <2>3. \A t \in transfers' : t[1] = t[3]
        BY <1>9, <2>2
        DEF TransferAnswered, TransferFails, Transferred, PatientInv
    <2>4. \A r \in reportsAsked' :
              \/ r \in reportsAsked
              \/ r.what = "vat" /\ r.year = vatPeriod
        BY <1>9, AskedFor
        DEF TransferAnswered, TransferFails, CalculateVatReport
    <2>5. vatReport' = 0 \/ UNCHANGED <<vatReport, reportsAsked>>
        BY <1>9 DEF TransferAnswered, TransferFails
    <2> QED
        BY <2>1, <2>3, <2>4, <2>5, <1>9
        DEF TransferAnswered, TransferFails, PatientInv
<1>10. ASSUME NEW y \in AnyYear, SetVatDates(y) PROVE PatientInv'
    <2>1. /\ \A r \in reportsAsked' : r.what = "vat" /\ r.year = y
          /\ y # 0 => \E r \in reportsAsked' : r.what = "vat"
        BY <1>10, <1>c, AskedFor DEF SetVatDates, CalculateVatReport
    <2> QED
        BY <2>1, <1>10, <1>c DEF SetVatDates, PatientInv
<1>11. CASE UNCHANGED reportVars
    BY <1>11 DEF reportVars, PatientInv
<1> QED
    BY <1>1, <1>2, <1>3, <1>4, <1>5, <1>6, <1>7, <1>8, <1>9, <1>10, <1>11
    DEF ReportNext

(* The reports: what is transferred, saved or waited for is what was asked *)
(* for, in whatever order the answers come (app.js:795-830, 1300-1355).    *)
THEOREM ReportsAreAsAsked == ReportSpec => []ReportAsAsked
<1>1. ReportInit => ReportTypeOK /\ TransferInv /\ PatientInv
    BY ReportTypeInit
    DEF ReportInit, TransferInv, PatientInv, NoTransfer, TransferAsAsked,
        LoadingEnds
<1>2. TransferInv /\ PatientInv => ReportAsAsked
    BY DEF TransferInv, PatientInv, ReportAsAsked, TransferAsShown,
           SavedAsNamed
<1> QED
    BY <1>1, <1>2, ReportTypeNext, TransferInvNext, PatientInvNext, PTL
    DEF ReportSpec

-----------------------------------------------------------------------------
(* SIE files and year close (SieImport).                                   *)

Previews == [file : AnyFile, year : SieYear, valid : BOOLEAN]
Forms == [file : AnyFile, year : SieYear, preview : Previews, busy : BOOLEAN]
SieRequests == [page : Pages,
                step : {"analyse", "import", "refresh", "export"},
                file : AnyFile, year : SieYear, seen : Previews]
Closings == [source : SieYear, target : SieYear, pc : {"idle", "sent"}]

(* The flag of a page is up only while one of its requests is under way;   *)
(* only app.js refreshes.                                                  *)
BusyInv ==
    /\ \A p \in Pages :
          sieForm[p].busy => \E r \in sieRequests :
                                 r.page = p /\ r.step # "export"
    /\ \A r \in sieRequests : r.step = "refresh" => r.page = "app"

SieTyped ==
    /\ booked \subseteq 1..SieYears
    /\ sieActiveYear \in 1..SieYears
    /\ sieForm \in [Pages -> Forms]
    /\ sieRequests \subseteq SieRequests
    /\ closing \in Closings
    /\ exportYear \in 1..SieYears
    /\ sieRush \in 0..MaxSieRush
    /\ sieErrors \in 0..MaxSieErrors
    /\ BusyInv

LEMMA SieConstants ==
    /\ NoPreview \in Previews /\ ~NoPreview.valid
    /\ NoClosing \in Closings /\ NoClosing.source = 0 /\ NoClosing.pc = "idle"
    /\ NoFile \in AnyFile /\ SieFiles \subseteq AnyFile
    /\ NoFile \notin SieFiles
    /\ 0 \in SieYear /\ 1..SieYears \subseteq SieYear /\ 1 \in 1..SieYears
    /\ "app" \in Pages /\ "tools" \in Pages
BY SieImportAssumption
DEF NoPreview, Previews, NoClosing, Closings, AnyFile, SieYear, Pages

LEMMA RequestTyped ==
    ASSUME NEW p \in Pages, NEW step \in {"analyse", "import", "refresh",
                                          "export"},
           NEW file \in AnyFile, NEW year \in SieYear, NEW preview \in Previews
    PROVE  LET r == Request(p, step, file, year, preview)
           IN  /\ r \in SieRequests
               /\ r.page = p /\ r.step = step /\ r.file = file
               /\ r.year = year /\ r.seen = preview
BY DEF Request, SieRequests

(* What becomes of the form of one page.                                   *)
FormIs(p, file, year, preview, busy) ==
    /\ sieForm' \in [Pages -> Forms]
    /\ \A q \in Pages : q # p => sieForm'[q] = sieForm[q]
    /\ sieForm'[p].file = file
    /\ sieForm'[p].year = year
    /\ sieForm'[p].preview = preview
    /\ sieForm'[p].busy = busy

LEMMA FormTyped ==
    ASSUME NEW f \in Forms
    PROVE  /\ f.file \in AnyFile /\ f.year \in SieYear
           /\ f.preview \in Previews /\ f.busy \in BOOLEAN
BY DEF Forms

LEMMA FormChanged ==
    ASSUME sieForm \in [Pages -> Forms], NEW p \in Pages,
           NEW file \in AnyFile, NEW year \in SieYear, NEW preview \in Previews,
           NEW busy \in BOOLEAN
    PROVE  LET f == sieForm[p]
           IN  /\ sieForm' = [sieForm EXCEPT ![p].file = file, ![p].year = year]
                   => FormIs(p, file, year, f.preview, f.busy)
               /\ sieForm' = [sieForm EXCEPT ![p].file = file, ![p].year = year,
                                             ![p].busy = busy]
                   => FormIs(p, file, year, f.preview, busy)
               /\ sieForm' = [sieForm EXCEPT ![p].busy = busy]
                   => FormIs(p, f.file, f.year, f.preview, busy)
               /\ sieForm' = [sieForm EXCEPT ![p].preview = preview]
                   => FormIs(p, f.file, f.year, preview, f.busy)
               /\ sieForm' = [sieForm EXCEPT ![p].busy = busy,
                                             ![p].preview = preview]
                   => FormIs(p, f.file, f.year, preview, busy)
<1> DEFINE f == sieForm[p]
<1>a. f \in Forms
    OBVIOUS
<1>b. /\ f.file \in AnyFile /\ f.year \in SieYear
      /\ f.preview \in Previews /\ f.busy \in BOOLEAN
    BY <1>a, FormTyped
<1>1. ASSUME sieForm' = [sieForm EXCEPT ![p].file = file, ![p].year = year]
      PROVE  FormIs(p, file, year, f.preview, f.busy)
    BY <1>1, <1>a, <1>b DEF FormIs, Forms
<1>2. ASSUME sieForm' = [sieForm EXCEPT ![p].file = file, ![p].year = year,
                                        ![p].busy = busy]
      PROVE  FormIs(p, file, year, f.preview, busy)
    BY <1>2, <1>a, <1>b DEF FormIs, Forms
<1>3. ASSUME sieForm' = [sieForm EXCEPT ![p].busy = busy]
      PROVE  FormIs(p, f.file, f.year, f.preview, busy)
    BY <1>3, <1>a, <1>b DEF FormIs, Forms
<1>4. ASSUME sieForm' = [sieForm EXCEPT ![p].preview = preview]
      PROVE  FormIs(p, f.file, f.year, preview, f.busy)
    BY <1>4, <1>a, <1>b DEF FormIs, Forms
<1>5. ASSUME sieForm' = [sieForm EXCEPT ![p].busy = busy,
                                        ![p].preview = preview]
      PROVE  FormIs(p, f.file, f.year, preview, busy)
    BY <1>5, <1>a, <1>b DEF FormIs, Forms
<1> QED
    BY <1>1, <1>2, <1>3, <1>4, <1>5

LEMMA FormsChange ==
    ASSUME SieTyped
    PROVE  /\ \A file \in SieFiles, y \in 1..SieYears :
                 ChooseForImport(file, y) =>
                     FormIs("tools", file, y, sieForm["tools"].preview,
                            sieForm["tools"].busy)
           /\ \A file \in SieFiles : UploadSIEFile(file) =>
                 FormIs("app", file, sieActiveYear, sieForm["app"].preview, TRUE)
           /\ UploadSieFile =>
                 FormIs("tools", sieForm["tools"].file, sieForm["tools"].year,
                        sieForm["tools"].preview, TRUE)
           /\ \A p \in Pages : ClosePreview(p) =>
                 FormIs(p, sieForm[p].file, sieForm[p].year, NoPreview,
                        sieForm[p].busy)
           /\ \A p \in Pages : ConfirmImportSie(p) =>
                 FormIs(p, sieForm[p].file, sieForm[p].year, sieForm[p].preview,
                        TRUE)
<1>a. sieForm \in [Pages -> Forms] /\ sieActiveYear \in 1..SieYears
    BY DEF SieTyped
<1>b. /\ "app" \in Pages /\ "tools" \in Pages
      /\ SieFiles \subseteq AnyFile /\ 1..SieYears \subseteq SieYear
      /\ NoPreview \in Previews
    BY SieConstants
<1>c. \A p \in Pages : /\ sieForm[p] \in Forms
                        /\ sieForm[p].file \in AnyFile
                        /\ sieForm[p].year \in SieYear
                        /\ sieForm[p].preview \in Previews
                        /\ sieForm[p].busy \in BOOLEAN
    BY <1>a, FormTyped
<1>1. ASSUME NEW file \in SieFiles, NEW y \in 1..SieYears,
             ChooseForImport(file, y)
      PROVE  FormIs("tools", file, y, sieForm["tools"].preview,
                    sieForm["tools"].busy)
    <2>1. sieForm' = [sieForm EXCEPT !["tools"].file = file,
                                     !["tools"].year = y]
        BY <1>1 DEF ChooseForImport
    <2> QED
        BY <2>1, <1>a, <1>b, <1>c, FormChanged
<1>2. ASSUME NEW file \in SieFiles, UploadSIEFile(file)
      PROVE  FormIs("app", file, sieActiveYear, sieForm["app"].preview, TRUE)
    <2>1. sieForm' = [sieForm EXCEPT !["app"].file = file,
                                     !["app"].year = sieActiveYear,
                                     !["app"].busy = TRUE]
        BY <1>2 DEF UploadSIEFile
    <2>2. sieActiveYear \in SieYear /\ file \in AnyFile
        BY <1>a, <1>b
    <2> QED
        BY <2>1, <2>2, <1>a, <1>b, <1>c, FormChanged
<1>3. ASSUME UploadSieFile
      PROVE  FormIs("tools", sieForm["tools"].file, sieForm["tools"].year,
                    sieForm["tools"].preview, TRUE)
    <2>1. sieForm' = [sieForm EXCEPT !["tools"].busy = TRUE]
        BY <1>3 DEF UploadSieFile
    <2> QED
        BY <2>1, <1>a, <1>b, <1>c, FormChanged
<1>4. ASSUME NEW p \in Pages, ClosePreview(p)
      PROVE  FormIs(p, sieForm[p].file, sieForm[p].year, NoPreview,
                    sieForm[p].busy)
    <2>1. sieForm' = [sieForm EXCEPT ![p].preview = NoPreview]
        BY <1>4 DEF ClosePreview
    <2> QED
        BY <2>1, <1>a, <1>b, <1>c, FormChanged
<1>5. ASSUME NEW p \in Pages, ConfirmImportSie(p)
      PROVE  FormIs(p, sieForm[p].file, sieForm[p].year,
                    sieForm[p].preview, TRUE)
    <2>1. sieForm' = [sieForm EXCEPT ![p].busy = TRUE]
        BY <1>5 DEF ConfirmImportSie
    <2> QED
        BY <2>1, <1>a, <1>b, <1>c, FormChanged
<1> QED
    BY <1>1, <1>2, <1>3, <1>4, <1>5

LEMMA FormsAnswered ==
    ASSUME SieTyped, NEW r \in sieRequests
    PROVE  LET f == sieForm[r.page]
           IN  /\ AnalysisArrives(r) =>
                     FormIs(r.page, f.file, f.year,
                            [file |-> r.file, year |-> r.year,
                             valid |-> Importable(r)], FALSE)
               /\ AnalysisFails(r) =>
                     FormIs(r.page, IF r.page = "app" THEN NoFile ELSE f.file,
                            IF r.page = "app" THEN 0 ELSE f.year,
                            f.preview, FALSE)
               /\ ImportSucceeds(r) =>
                     FormIs(r.page, NoFile,
                            IF r.page = "app" THEN 0 ELSE f.year, NoPreview,
                            IF r.page = "app" THEN f.busy ELSE FALSE)
               /\ ImportFails(r) =>
                     FormIs(r.page, f.file, f.year, f.preview, FALSE)
               /\ SieRefreshed(r) =>
                     FormIs("app", sieForm["app"].file, sieForm["app"].year,
                            sieForm["app"].preview, FALSE)
<1> DEFINE p == r.page
           f == sieForm[p]
<1>a. sieForm \in [Pages -> Forms] /\ r \in SieRequests
    BY DEF SieTyped
<1>b. /\ "app" \in Pages /\ NoFile \in AnyFile /\ 0 \in SieYear
      /\ NoPreview \in Previews
    BY SieConstants
<1>c. p \in Pages /\ r.file \in AnyFile /\ r.year \in SieYear
    BY <1>a DEF SieRequests
<1> HIDE DEF p
<1>d. \A q \in Pages : /\ sieForm[q] \in Forms
                        /\ sieForm[q].file \in AnyFile
                        /\ sieForm[q].year \in SieYear
                        /\ sieForm[q].preview \in Previews
                        /\ sieForm[q].busy \in BOOLEAN
    BY <1>a, FormTyped
<1>1. ASSUME AnalysisArrives(r)
      PROVE  FormIs(p, f.file, f.year,
                    [file |-> r.file, year |-> r.year, valid |-> Importable(r)],
                    FALSE)
    <2>1. PICK valid \in BOOLEAN : valid = Importable(r)
        BY Zenon DEF Importable
    <2>2. PICK preview \in Previews :
              preview = [file |-> r.file, year |-> r.year,
                         valid |-> Importable(r)]
        BY <2>1, <1>c DEF Previews
    <2>3. sieForm' = [sieForm EXCEPT ![p].busy = FALSE, ![p].preview = preview]
        BY <1>1, <2>2 DEF AnalysisArrives, p
    <2>4. FormIs(p, f.file, f.year, preview, FALSE)
        BY <2>3, <1>a, <1>c, <1>d, FormChanged
    <2> QED
        BY <2>2, <2>4
<1>2. ASSUME AnalysisFails(r)
      PROVE  FormIs(p, IF p = "app" THEN NoFile ELSE f.file,
                    IF p = "app" THEN 0 ELSE f.year, f.preview, FALSE)
    <2>1. sieForm' = [sieForm EXCEPT
              ![p].busy = FALSE,
              ![p].file = IF p = "app" THEN NoFile ELSE @,
              ![p].year = IF p = "app" THEN 0 ELSE @]
        BY <1>2 DEF AnalysisFails, p
    <2> QED
        BY <2>1, <1>a, <1>b, <1>c, <1>d DEF FormIs, Forms
<1>3. ASSUME ImportSucceeds(r)
      PROVE  FormIs(p, NoFile, IF p = "app" THEN 0 ELSE f.year, NoPreview,
                    IF p = "app" THEN f.busy ELSE FALSE)
    <2>1. sieForm' = [sieForm EXCEPT
              ![p].file = NoFile,
              ![p].year = IF p = "app" THEN 0 ELSE @,
              ![p].preview = NoPreview,
              ![p].busy = IF p = "app" THEN @ ELSE FALSE]
        BY <1>3 DEF ImportSucceeds, AfterImport, p
    <2> QED
        BY <2>1, <1>a, <1>b, <1>c, <1>d DEF FormIs, Forms
<1>4. ASSUME ImportFails(r)
      PROVE  FormIs(p, f.file, f.year, f.preview, FALSE)
    <2>1. sieForm' = [sieForm EXCEPT ![p].busy = FALSE]
        BY <1>4 DEF ImportFails, p
    <2> QED
        BY <2>1, <1>a, <1>c, <1>d, FormChanged
<1>5. ASSUME SieRefreshed(r)
      PROVE  FormIs("app", sieForm["app"].file, sieForm["app"].year,
                    sieForm["app"].preview, FALSE)
    <2>1. sieForm' = [sieForm EXCEPT !["app"].busy = FALSE]
        BY <1>5 DEF SieRefreshed
    <2> QED
        BY <2>1, <1>a, <1>b, <1>d, FormChanged
<1> QED
    BY <1>1, <1>2, <1>3, <1>4, <1>5 DEF p

LEMMA SieTypeInit == SieInit => SieTyped
<1> SUFFICES ASSUME SieInit PROVE SieTyped
    OBVIOUS
<1>1. 0 \in 0..MaxSieRush /\ 0 \in 0..MaxSieErrors
    BY SieImportAssumption
<1>2. /\ 0 \in SieYear /\ 1 \in SieYear
      /\ NoFile \in AnyFile /\ NoPreview \in Previews
    BY SieConstants
<1>3. \A p \in Pages : sieForm[p] \in Forms /\ ~sieForm[p].busy
    <2>1. NoForm \in Forms
        BY <1>2 DEF NoForm, Forms
    <2>2. \A y \in SieYear : /\ [NoForm EXCEPT !.year = y] \in Forms
                             /\ [NoForm EXCEPT !.year = y].busy = FALSE
        BY <2>1 DEF NoForm, Forms
    <2> QED
        BY <1>2, <2>2 DEF SieInit
<1>4. sieForm \in [Pages -> Forms]
    BY <1>3 DEF SieInit
<1> QED
    BY <1>1, <1>3, <1>4, SieConstants DEF SieInit, SieTyped, BusyInv

LEMMA SieUserTyped ==
    ASSUME SieTyped, SieUserActs
    PROVE  /\ sieRush' \in 0..MaxSieRush
           /\ sieRush' = 0 => sieRush = 0 /\ sieRequests = {}
BY SieImportAssumption DEF SieTyped, SieUserActs

LEMMA SieErrorTyped ==
    ASSUME SieTyped, LosesSie
    PROVE  sieErrors' \in 0..MaxSieErrors /\ sieErrors' # 0
BY SieImportAssumption DEF SieTyped, LosesSie

(* A request is sent, and the form of its page waits for it.               *)
LEMMA SendsTyped ==
    ASSUME SieTyped, NEW p \in Pages, NEW r \in SieRequests,
           NEW file, NEW year, NEW preview, NEW busy,
           FormIs(p, file, year, preview, busy), r.page = p,
           r.step \notin {"export", "refresh"}, Sends(r)
    PROVE  sieForm' \in [Pages -> Forms] /\ sieRequests' \subseteq SieRequests
           /\ BusyInv'
BY DEF SieTyped, FormIs, Sends, BusyInv

LEMMA SieUserNext ==
    ASSUME SieTyped,
           \/ \E y \in 1..SieYears :
                 SieChangeYear(y) \/ \E file \in SieFiles :
                                         ChooseForImport(file, y)
           \/ \E file \in SieFiles : UploadSIEFile(file)
           \/ UploadSieFile
           \/ \E p \in Pages : ConfirmImportSie(p) \/ ClosePreview(p)
    PROVE  SieTyped'
<1>a. \A p \in Pages : sieForm[p] \in Forms
    BY DEF SieTyped
<1>b. \A p \in Pages : /\ sieForm[p].file \in AnyFile
                        /\ sieForm[p].year \in SieYear
                        /\ sieForm[p].preview \in Previews
    BY <1>a, FormTyped
<1>1. ASSUME NEW y \in 1..SieYears, SieChangeYear(y) PROVE SieTyped'
    BY <1>1, SieUserTyped DEF SieChangeYear, SieTyped, BusyInv
<1>2. ASSUME NEW y \in 1..SieYears, NEW file \in SieFiles,
             ChooseForImport(file, y)
      PROVE  SieTyped'
    <2>1. FormIs("tools", file, y, sieForm["tools"].preview,
                 sieForm["tools"].busy)
        BY <1>2, FormsChange
    <2>2. BusyInv'
        BY <1>2, <2>1 DEF ChooseForImport, FormIs, BusyInv, SieTyped
    <2> QED
        BY <1>2, <2>1, <2>2, SieUserTyped
        DEF ChooseForImport, SieTyped, FormIs
<1>3. ASSUME NEW file \in SieFiles, UploadSIEFile(file) PROVE SieTyped'
    <2>1. FormIs("app", file, sieActiveYear, sieForm["app"].preview, TRUE)
        BY <1>3, FormsChange
    <2>2. sieActiveYear \in SieYear /\ file \in AnyFile
        BY SieConstants DEF SieTyped
    <2>3. PICK r \in SieRequests :
              /\ r = Request("app", "analyse", file, sieActiveYear, NoPreview)
              /\ r.page = "app" /\ r.step = "analyse"
        BY <2>2, SieConstants, RequestTyped
    <2>4. Sends(r)
        BY <1>3, <2>3 DEF UploadSIEFile
    <2>5. sieForm' \in [Pages -> Forms] /\ sieRequests' \subseteq SieRequests
          /\ BusyInv'
        BY <2>1, <2>3, <2>4, SieConstants, SendsTyped
    <2> QED
        BY <1>3, <2>5, SieUserTyped DEF UploadSIEFile, SieTyped
<1>4. CASE UploadSieFile
    <2>1. FormIs("tools", sieForm["tools"].file, sieForm["tools"].year,
                 sieForm["tools"].preview, TRUE)
        BY <1>4, FormsChange
    <2>2. "tools" \in Pages /\ NoPreview \in Previews
        BY SieConstants
    <2>3. PICK r \in SieRequests :
              /\ r = Request("tools", "analyse", sieForm["tools"].file,
                             sieForm["tools"].year, NoPreview)
              /\ r.page = "tools" /\ r.step = "analyse"
        BY <2>2, <1>b, RequestTyped
    <2>4. Sends(r)
        BY <1>4, <2>3 DEF UploadSieFile
    <2>5. sieForm' \in [Pages -> Forms] /\ sieRequests' \subseteq SieRequests
          /\ BusyInv'
        BY <2>1, <2>2, <2>3, <2>4, SendsTyped
    <2> QED
        BY <1>4, <2>5, SieUserTyped DEF UploadSieFile, SieTyped
<1>5. ASSUME NEW p \in Pages, ConfirmImportSie(p) PROVE SieTyped'
    <2>1. FormIs(p, sieForm[p].file, sieForm[p].year, sieForm[p].preview, TRUE)
        BY <1>5, FormsChange
    <2>3. PICK r \in SieRequests :
              /\ r = Request(p, "import", sieForm[p].file, sieForm[p].year,
                             sieForm[p].preview)
              /\ r.page = p /\ r.step = "import"
        BY <1>b, RequestTyped
    <2>4. Sends(r)
        BY <1>5, <2>3 DEF ConfirmImportSie
    <2>5. sieForm' \in [Pages -> Forms] /\ sieRequests' \subseteq SieRequests
          /\ BusyInv'
        BY <2>1, <2>3, <2>4, SendsTyped
    <2> QED
        BY <1>5, <2>5, SieUserTyped DEF ConfirmImportSie, SieTyped
<1>6. ASSUME NEW p \in Pages, ClosePreview(p) PROVE SieTyped'
    <2>1. FormIs(p, sieForm[p].file, sieForm[p].year, NoPreview,
                 sieForm[p].busy)
        BY <1>6, FormsChange
    <2>2. BusyInv'
        BY <1>6, <2>1 DEF ClosePreview, FormIs, BusyInv, SieTyped
    <2> QED
        BY <1>6, <2>1, <2>2, SieUserTyped DEF ClosePreview, SieTyped, FormIs
<1> QED
    BY <1>1, <1>2, <1>3, <1>4, <1>5, <1>6

LEMMA SieAnswerNext ==
    ASSUME SieTyped, NEW r \in sieRequests,
           AnalysisArrives(r) \/ AnalysisFails(r) \/ ImportSucceeds(r)
           \/ ImportFails(r) \/ SieRefreshed(r)
    PROVE  SieTyped'
<1>a. r \in SieRequests /\ sieRequests \subseteq SieRequests
    BY DEF SieTyped
<1>b. r.page \in Pages
    BY <1>a DEF SieRequests
<1>1. booked' \subseteq 1..SieYears
    <2>1. ImportedBy(r) => r.year \in 1..SieYears
        BY SieImportAssumption DEF ImportedBy, Importable
    <2> QED
        BY <2>1 DEF AnalysisArrives, AnalysisFails, ImportSucceeds, ImportFails,
                    SieRefreshed, ImportedBy, SieTyped
<1>2. sieErrors' \in 0..MaxSieErrors
    BY SieErrorTyped DEF AnalysisArrives, AnalysisFails, ImportSucceeds,
                         ImportFails, SieRefreshed, SieTyped
<1>3. UNCHANGED <<sieActiveYear, closing, exportYear, sieRush>>
    BY DEF AnalysisArrives, AnalysisFails, ImportSucceeds, ImportFails,
           SieRefreshed
<1>4. CASE ImportSucceeds(r) /\ r.page = "app"
    <2>1. PICK s \in SieRequests :
              /\ s = Request("app", "refresh", NoFile, 0, NoPreview)
              /\ s.page = "app" /\ s.step = "refresh"
        BY SieConstants, RequestTyped
    <2>2. sieRequests' = (sieRequests \ {r}) \cup {s}
        BY <1>4, <2>1 DEF ImportSucceeds
    <2>3. FormIs("app", NoFile, 0, NoPreview, sieForm["app"].busy)
        BY <1>4, FormsAnswered
    <2>4. BusyInv'
        BY <2>1, <2>2, <2>3, <1>4 DEF FormIs, BusyInv, SieTyped
    <2> QED
        BY <2>1, <2>2, <2>3, <2>4, <1>a, <1>1, <1>2, <1>3 DEF SieTyped, FormIs
<1>5. CASE ~(ImportSucceeds(r) /\ r.page = "app") /\ ~SieRefreshed(r)
    <2>1. sieRequests' = sieRequests \ {r}
        BY <1>5 DEF AnalysisArrives, AnalysisFails, ImportSucceeds, ImportFails,
                    Over
    <2>2. \E file, year, preview : FormIs(r.page, file, year, preview, FALSE)
        BY <1>5, FormsAnswered
    <2>3. BusyInv'
        BY <2>1, <2>2 DEF FormIs, BusyInv, SieTyped
    <2> QED
        BY <2>1, <2>2, <2>3, <1>a, <1>1, <1>2, <1>3 DEF SieTyped, FormIs
<1>6. CASE SieRefreshed(r)
    <2>1. sieRequests' = sieRequests \ {r} /\ r.step = "refresh"
        BY <1>6 DEF SieRefreshed, Over
    <2>2. FormIs("app", sieForm["app"].file, sieForm["app"].year,
                 sieForm["app"].preview, FALSE)
        BY <1>6, FormsAnswered
    <2>3. r.page = "app"
        BY <2>1 DEF SieTyped, BusyInv
    <2>4. BusyInv'
        BY <2>1, <2>2, <2>3 DEF FormIs, BusyInv, SieTyped
    <2> QED
        BY <2>1, <2>2, <2>4, <1>a, <1>1, <1>2, <1>3 DEF SieTyped, FormIs
<1> QED
    BY <1>4, <1>5, <1>6

LEMMA SieCloseTyped == SieTyped /\ SieCloseNext => SieTyped'
<1> SUFFICES ASSUME SieTyped, SieCloseNext PROVE SieTyped'
    OBVIOUS
<1>a. closing \in Closings /\ \A y \in 1..SieYears : y \in SieYear
    BY SieConstants DEF SieTyped
<1>1. ASSUME NEW y \in 1..SieYears, ChooseSource(y) PROVE SieTyped'
    <2>1. TargetOf(y) \in SieYear
        BY SieImportAssumption DEF TargetOf, SieYear
    <2>2. closing' \in Closings
        BY <1>1, <1>a, <2>1 DEF ChooseSource, Closings
    <2> QED
        BY <1>1, <2>2, SieUserTyped DEF ChooseSource, SieTyped, BusyInv
<1>2. ASSUME NEW y \in 1..SieYears, ChooseExport(y) PROVE SieTyped'
    BY <1>2, SieUserTyped DEF ChooseExport, SieTyped, BusyInv
<1>3. CASE GenerateIB
    <2>1. closing' \in Closings
        BY <1>3, <1>a DEF GenerateIB, Closings
    <2> QED
        BY <1>3, <2>1, SieUserTyped DEF GenerateIB, SieTyped, BusyInv
<1>4. CASE IBReturns
    <2>1. closing' \in Closings
        BY <1>4, <1>a, SieConstants DEF IBReturns, Closings
    <2>2. sieErrors' \in 0..MaxSieErrors
        BY <1>4, SieErrorTyped DEF IBReturns, SieTyped
    <2> QED
        BY <1>4, <2>1, <2>2 DEF IBReturns, SieTyped, BusyInv
<1>5. CASE ExportSIE4
    <2>1. PICK r \in SieRequests :
              /\ r = Request("tools", "export", NoFile, exportYear, NoPreview)
              /\ r.step = "export"
        BY <1>a, SieConstants, RequestTyped DEF SieTyped
    <2>2. sieRequests' = sieRequests \cup {r}
        BY <2>1, <1>5 DEF ExportSIE4, Sends
    <2>3. BusyInv'
        BY <2>1, <2>2, <1>5 DEF ExportSIE4, BusyInv, SieTyped
    <2> QED
        BY <1>5, <2>2, <2>3, SieUserTyped DEF ExportSIE4, SieTyped
<1>6. ASSUME NEW r \in sieRequests, SieFileArrives(r) PROVE SieTyped'
    <2>1. sieRequests' = sieRequests \ {r} /\ r.step = "export"
        BY <1>6 DEF SieFileArrives, Over
    <2>2. BusyInv'
        BY <2>1, <1>6 DEF SieFileArrives, BusyInv, SieTyped
    <2>3. sieErrors' \in 0..MaxSieErrors
        BY <1>6, SieErrorTyped DEF SieFileArrives, SieTyped
    <2> QED
        BY <1>6, <2>1, <2>2, <2>3 DEF SieFileArrives, SieTyped
<1> QED
    BY <1>1, <1>2, <1>3, <1>4, <1>5, <1>6 DEF SieCloseNext

LEMMA SieTypeNext == SieTyped /\ [SieNext]_sieVars => SieTyped'
<1> SUFFICES ASSUME SieTyped, [SieNext]_sieVars PROVE SieTyped'
    OBVIOUS
<1>1. CASE SieImportNext
    BY <1>1, SieUserNext, SieAnswerNext DEF SieImportNext
<1>2. CASE SieCloseNext
    BY <1>2, SieCloseTyped
<1>3. CASE UNCHANGED sieVars
    BY <1>3 DEF sieVars, siePast, SieTyped, BusyInv
<1> QED
    BY <1>1, <1>2, <1>3 DEF SieNext

(* Only what the target of a source is, is named.                          *)
NamedInv ==
    /\ closing.source # 0 => closing.target = TargetOf(closing.source)
    /\ ClosedAsNamed

(* For who waits there is one request and one preview at a time; a preview *)
(* is of the file and the year on the form, a request of what is on the    *)
(* form or of what was previewed.                                          *)
OnePreview ==
    \A p, q \in Pages :
        \/ p = q
        \/ sieForm[p].preview = NoPreview
        \/ sieForm[q].preview = NoPreview

PreviewOfForm ==
    \A p \in Pages :
        LET form == sieForm[p]
        IN  form.preview.valid => /\ form.preview.file = form.file
                                  /\ form.preview.year = form.year

AnalysisOfForm(r) ==
    r.step = "analyse" => /\ NoPreviewShown
                          /\ sieForm[r.page].file = r.file
                          /\ sieForm[r.page].year = r.year

ImportOfPreview(r) ==
    r.step = "import" => /\ r.seen.file = r.file /\ r.seen.year = r.year
                         /\ \A q \in Pages \ {r.page} :
                               sieForm[q].preview = NoPreview

SieQuietInv ==
    sieRush = 0 =>
        /\ \A r, s \in sieRequests : r = s
        /\ OnePreview
        /\ PreviewOfForm
        /\ \A r \in sieRequests :
              /\ AnalysisOfForm(r)
              /\ ImportOfPreview(r)
              /\ r.step = "export" => r.year = exportYear
        /\ ImportedWasPreviewed
        /\ PreviewStillTrue
        /\ ExportedAsNamed

LEMMA NamedInvNext == SieTyped /\ NamedInv /\ [SieNext]_sieVars => NamedInv'
<1> SUFFICES ASSUME SieTyped, NamedInv, [SieNext]_sieVars PROVE NamedInv'
    OBVIOUS
<1> USE DEF NamedInv, ClosedAsNamed
<1>a. closing \in Closings
    BY DEF SieTyped
<1>1. CASE SieImportNext \/ UNCHANGED sieVars
    BY <1>1
    DEF SieImportNext, sieVars, siePast, SieChangeYear, ChooseForImport,
        UploadSIEFile, UploadSieFile, ConfirmImportSie, ClosePreview,
        AnalysisArrives, AnalysisFails, ImportSucceeds, ImportFails,
        SieRefreshed
<1>2. ASSUME NEW y \in 1..SieYears, ChooseSource(y) PROVE NamedInv'
    <2>1. closing'.source = y /\ closing'.target = TargetOf(y)
        BY <1>2, <1>a DEF ChooseSource, Closings
    <2> QED
        BY <2>1, <1>2 DEF ChooseSource, siePast
<1>3. ASSUME NEW y \in 1..SieYears, ChooseExport(y) PROVE NamedInv'
    BY <1>3 DEF ChooseExport, siePast
<1>4. CASE GenerateIB
    <2>1. closing'.source = closing.source /\ closing'.target = closing.target
        BY <1>4, <1>a DEF GenerateIB, Closings
    <2>2. \A c \in closed' : c[2] = c[3]
        BY <1>4 DEF GenerateIB
    <2> QED
        BY <2>1, <2>2
<1>5. CASE IBReturns
    <2>1. closing'.source = 0 \/ (closing'.source = closing.source
                                  /\ closing'.target = closing.target)
        BY <1>5, <1>a, SieConstants DEF IBReturns, Closings
    <2> QED
        BY <2>1, <1>5 DEF IBReturns, siePast
<1>6. CASE ExportSIE4
    BY <1>6 DEF ExportSIE4, siePast
<1>7. ASSUME NEW r \in sieRequests, SieFileArrives(r) PROVE NamedInv'
    BY <1>7 DEF SieFileArrives
<1> QED
    BY <1>1, <1>2, <1>3, <1>4, <1>5, <1>6, <1>7 DEF SieNext, SieCloseNext

-----------------------------------------------------------------------------
(* The user chooses or sends something, and nothing was under way: at most *)
(* one request is now.                                                     *)
LEMMA QuietUserNext ==
    ASSUME SieTyped, SieQuietInv, sieRush' = 0,
           \/ \E y \in 1..SieYears :
                 SieChangeYear(y) \/ \E file \in SieFiles :
                                         ChooseForImport(file, y)
           \/ \E file \in SieFiles : UploadSIEFile(file)
           \/ UploadSieFile
           \/ \E p \in Pages : ConfirmImportSie(p) \/ ClosePreview(p)
    PROVE  SieQuietInv'
<1>a. sieRush = 0 /\ sieRequests = {} /\ UNCHANGED siePast
      /\ UNCHANGED <<booked, exportYear, sieErrors>>
    BY SieUserTyped DEF SieChangeYear, ChooseForImport, UploadSIEFile,
       UploadSieFile, ConfirmImportSie, ClosePreview
<1>b. /\ OnePreview /\ PreviewOfForm
      /\ ImportedWasPreviewed /\ PreviewStillTrue /\ ExportedAsNamed
    BY <1>a DEF SieQuietInv
<1>c. ImportedWasPreviewed' /\ ExportedAsNamed'
    BY <1>a, <1>b DEF ImportedWasPreviewed, ExportedAsNamed, siePast
<1>d. ~NoPreview.valid /\ "app" \in Pages /\ "tools" \in Pages
      /\ NoPreview \in Previews /\ SieFiles \subseteq AnyFile
    BY SieConstants
<1>e. \A p \in Pages : /\ sieForm[p].file \in AnyFile
                        /\ sieForm[p].year \in SieYear
                        /\ sieForm[p].preview \in Previews
    BY FormTyped DEF SieTyped
(* Nothing is shown, and nothing is imported. *)
<1>f. ASSUME NoPreviewShown', \A r, s \in sieRequests' : r = s,
             \A r \in sieRequests' :
                /\ r.step = "analyse"
                /\ sieForm'[r.page].file = r.file
                /\ sieForm'[r.page].year = r.year
      PROVE  SieQuietInv'
    BY <1>a, <1>b, <1>c, <1>d, <1>f
    DEF SieQuietInv, NoPreviewShown, OnePreview, PreviewOfForm, AnalysisOfForm,
        ImportOfPreview, PreviewStillTrue
<1>1. ASSUME NEW y \in 1..SieYears, SieChangeYear(y) PROVE SieQuietInv'
    BY <1>1, <1>a, <1>f DEF SieChangeYear, NoPreviewShown
<1>2. ASSUME NEW y \in 1..SieYears, NEW file \in SieFiles,
             ChooseForImport(file, y)
      PROVE  SieQuietInv'
    <2>1. FormIs("tools", file, y, sieForm["tools"].preview,
                 sieForm["tools"].busy)
        BY <1>2, FormsChange
    <2>2. NoPreviewShown'
        BY <1>2, <2>1, <1>d DEF ChooseForImport, FormIs, NoPreviewShown
    <2>3. sieRequests' = {}
        BY <1>2, <1>a DEF ChooseForImport
    <2> QED
        BY <2>2, <2>3, <1>f
<1>3. ASSUME NEW file \in SieFiles, UploadSIEFile(file) PROVE SieQuietInv'
    <2>1. FormIs("app", file, sieActiveYear, sieForm["app"].preview, TRUE)
        BY <1>3, FormsChange
    <2>2. sieActiveYear \in SieYear /\ file \in AnyFile
        BY SieConstants DEF SieTyped
    <2>3. PICK r \in SieRequests :
              /\ r = Request("app", "analyse", file, sieActiveYear, NoPreview)
              /\ r.page = "app" /\ r.step = "analyse"
              /\ r.file = file /\ r.year = sieActiveYear
        BY <2>2, <1>d, RequestTyped
    <2>4. sieRequests' = {r}
        BY <1>3, <1>a, <2>3 DEF UploadSIEFile, Sends
    <2>5. NoPreviewShown'
        BY <1>3, <2>1, <1>d DEF UploadSIEFile, FormIs, NoPreviewShown
    <2> QED
        BY <2>1, <2>3, <2>4, <2>5, <1>f DEF FormIs
<1>4. CASE UploadSieFile
    <2>1. FormIs("tools", sieForm["tools"].file, sieForm["tools"].year,
                 sieForm["tools"].preview, TRUE)
        BY <1>4, FormsChange
    <2>3. PICK r \in SieRequests :
              /\ r = Request("tools", "analyse", sieForm["tools"].file,
                             sieForm["tools"].year, NoPreview)
              /\ r.page = "tools" /\ r.step = "analyse"
              /\ r.file = sieForm["tools"].file
              /\ r.year = sieForm["tools"].year
        BY <1>d, <1>e, RequestTyped
    <2>4. sieRequests' = {r}
        BY <1>4, <1>a, <2>3 DEF UploadSieFile, Sends
    <2>5. NoPreviewShown'
        BY <1>4, <2>1, <1>d DEF UploadSieFile, FormIs, NoPreviewShown
    <2> QED
        BY <2>1, <2>3, <2>4, <2>5, <1>f DEF FormIs
<1>5. ASSUME NEW p \in Pages, ConfirmImportSie(p) PROVE SieQuietInv'
    <2>1. FormIs(p, sieForm[p].file, sieForm[p].year, sieForm[p].preview, TRUE)
        BY <1>5, FormsChange
    <2>2. PICK r \in SieRequests :
              /\ r = Request(p, "import", sieForm[p].file, sieForm[p].year,
                             sieForm[p].preview)
              /\ r.page = p /\ r.step = "import"
              /\ r.file = sieForm[p].file /\ r.year = sieForm[p].year
              /\ r.seen = sieForm[p].preview
        BY <1>e, RequestTyped
    <2>3. sieRequests' = {r}
        BY <1>5, <1>a, <2>2 DEF ConfirmImportSie, Sends
    <2>4. sieForm[p].preview.valid
        BY <1>5 DEF ConfirmImportSie
    <2>5. r.seen.file = r.file /\ r.seen.year = r.year
        BY <2>2, <2>4, <1>b DEF PreviewOfForm
    <2>6. \A q \in Pages : /\ sieForm'[q].preview = sieForm[q].preview
                           /\ sieForm'[q].file = sieForm[q].file
                           /\ sieForm'[q].year = sieForm[q].year
        BY <2>1 DEF FormIs
    <2>7. \A q \in Pages \ {p} : sieForm[q].preview = NoPreview
        BY <2>4, <1>b, <1>d DEF OnePreview
    <2>8. ImportOfPreview(r)'
        BY <2>2, <2>5, <2>6, <2>7 DEF ImportOfPreview
    <2>9. OnePreview' /\ PreviewOfForm' /\ PreviewStillTrue'
        BY <2>6, <1>a, <1>b DEF OnePreview, PreviewOfForm, PreviewStillTrue
    <2> QED
        BY <2>2, <2>3, <2>8, <2>9, <1>c DEF SieQuietInv, AnalysisOfForm
<1>6. ASSUME NEW p \in Pages, ClosePreview(p) PROVE SieQuietInv'
    <2>1. FormIs(p, sieForm[p].file, sieForm[p].year, NoPreview,
                 sieForm[p].busy)
        BY <1>6, FormsChange
    <2>2. sieRequests' = {}
        BY <1>6, <1>a DEF ClosePreview
    <2>3. \A q \in Pages : q # p => sieForm'[q] = sieForm[q]
        BY <2>1 DEF FormIs
    <2>4. sieForm'[p].preview = NoPreview
        BY <2>1 DEF FormIs
    <2>5. OnePreview' /\ PreviewOfForm' /\ PreviewStillTrue'
        BY <2>3, <2>4, <1>a, <1>b, <1>d
        DEF OnePreview, PreviewOfForm, PreviewStillTrue
    <2> QED
        BY <2>2, <2>5, <1>c DEF SieQuietInv
<1> QED
    BY <1>1, <1>2, <1>3, <1>4, <1>5, <1>6

(* The answer to the one request there is.                                 *)
LEMMA QuietAnswerNext ==
    ASSUME SieTyped, SieQuietInv, sieRush' = 0, NEW r \in sieRequests,
           AnalysisArrives(r) \/ AnalysisFails(r) \/ ImportSucceeds(r)
           \/ ImportFails(r) \/ SieRefreshed(r)
    PROVE  SieQuietInv'
<1>a. sieRush = 0 /\ UNCHANGED <<exportYear, exported>>
    BY DEF AnalysisArrives, AnalysisFails, ImportSucceeds, ImportFails,
           SieRefreshed, siePast
<1>b. /\ sieRequests = {r}
      /\ OnePreview /\ PreviewOfForm
      /\ AnalysisOfForm(r) /\ ImportOfPreview(r)
      /\ ImportedWasPreviewed /\ PreviewStillTrue /\ ExportedAsNamed
    BY <1>a DEF SieQuietInv
<1>c. r \in SieRequests /\ r.page \in Pages
    BY DEF SieTyped, SieRequests
<1>d. ~NoPreview.valid /\ "app" \in Pages /\ NoPreview \in Previews
      /\ NoFile \in AnyFile /\ 0 \in SieYear
    BY SieConstants
<1>e. ExportedAsNamed'
    BY <1>a, <1>b DEF ExportedAsNamed
<1>f. sieErrors' = 0 => sieErrors = 0 /\ ~LosesSie
    BY SieErrorTyped
    DEF AnalysisArrives, AnalysisFails, ImportSucceeds, ImportFails,
        SieRefreshed
(* What is under way then is nothing, or the refresh after an import. *)
<1>g. ASSUME OnePreview', PreviewOfForm', ImportedWasPreviewed',
             PreviewStillTrue',
             sieRequests' = {} \/ \E s : /\ sieRequests' = {s}
                                        /\ s.step = "refresh"
      PROVE  SieQuietInv'
    BY <1>e, <1>g DEF SieQuietInv, AnalysisOfForm, ImportOfPreview
<1>1. CASE AnalysisArrives(r)
    <2> DEFINE preview == [file |-> r.file, year |-> r.year,
                           valid |-> Importable(r)]
               f == sieForm[r.page]
    <2>1. FormIs(r.page, f.file, f.year, preview, FALSE)
        BY <1>1, FormsAnswered
    <2>2. /\ r.step = "analyse" /\ sieRequests' = {}
          /\ UNCHANGED <<booked, imports, sieErrors>>
        BY <1>1, <1>b DEF AnalysisArrives, Over, siePast
    <2>3. /\ NoPreviewShown /\ f.file = r.file /\ f.year = r.year
        BY <2>2, <1>b DEF AnalysisOfForm
    <2>4. \A q \in Pages : q # r.page => sieForm'[q].preview = NoPreview
        BY <2>1, <2>3 DEF FormIs, NoPreviewShown
    <2>5. /\ sieForm'[r.page].preview.file = r.file
          /\ sieForm'[r.page].preview.year = r.year
          /\ sieForm'[r.page].file = r.file
          /\ sieForm'[r.page].year = r.year
          /\ sieForm'[r.page].preview.valid => r.year \notin booked
        <3>1. /\ sieForm'[r.page].preview = preview
              /\ sieForm'[r.page].file = r.file
              /\ sieForm'[r.page].year = r.year
            BY <2>1, <2>3 DEF FormIs
        <3>2. preview.file = r.file /\ preview.year = r.year
              /\ (preview.valid => r.year \notin booked)
            BY Zenon DEF Importable
        <3> QED
            BY <3>1, <3>2
    <2>6. OnePreview' /\ PreviewOfForm' /\ PreviewStillTrue'
        BY <2>2, <2>4, <2>5, <1>d
        DEF OnePreview, PreviewOfForm, PreviewStillTrue
    <2>7. ImportedWasPreviewed'
        BY <2>2, <1>a, <1>b DEF ImportedWasPreviewed
    <2> QED
        BY <2>2, <2>6, <2>7, <1>g
<1>2. CASE AnalysisFails(r)
    <2>1. \A q \in Pages : sieForm'[q].preview = sieForm[q].preview
        BY <1>2, FormsAnswered DEF FormIs
    <2>2. /\ r.step = "analyse" /\ sieRequests' = {}
          /\ UNCHANGED <<booked, imports>>
        BY <1>2, <1>b DEF AnalysisFails, Over, siePast
    <2>3. \A q \in Pages : sieForm'[q].preview = NoPreview
        BY <2>1, <2>2, <1>b DEF AnalysisOfForm, NoPreviewShown
    <2>4. OnePreview' /\ PreviewOfForm' /\ PreviewStillTrue'
        BY <2>3, <1>d DEF OnePreview, PreviewOfForm, PreviewStillTrue
    <2>5. ImportedWasPreviewed'
        BY <2>2, <1>a, <1>b DEF ImportedWasPreviewed
    <2> QED
        BY <2>2, <2>4, <2>5, <1>g
<1>3. CASE ImportSucceeds(r)
    <2>1. /\ sieForm'[r.page].preview = NoPreview
          /\ \A q \in Pages : q # r.page => sieForm'[q] = sieForm[q]
        BY <1>3, FormsAnswered DEF FormIs
    <2>2. r.step = "import" /\ ImportedBy(r)
        BY <1>3 DEF ImportSucceeds
    <2>3. \A q \in Pages : sieForm'[q].preview = NoPreview
        BY <2>1, <2>2, <1>b DEF ImportOfPreview
    <2>4. OnePreview' /\ PreviewOfForm' /\ PreviewStillTrue'
        BY <2>3, <1>d DEF OnePreview, PreviewOfForm, PreviewStillTrue
    <2>5. ImportedWasPreviewed'
        BY <2>2, <1>a, <1>b
        DEF ImportedBy, ImportedWasPreviewed, ImportOfPreview
    <2>6. PICK s \in SieRequests :
              /\ s = Request("app", "refresh", NoFile, 0, NoPreview)
              /\ s.step = "refresh"
        BY <1>d, RequestTyped
    <2>7. sieRequests' = {} \/ sieRequests' = {s}
        BY <1>3, <1>b, <2>6 DEF ImportSucceeds
    <2> QED
        BY <2>4, <2>5, <2>6, <2>7, <1>g
<1>4. CASE ImportFails(r)
    <2> DEFINE f == sieForm[r.page]
    <2>1. FormIs(r.page, f.file, f.year, f.preview, FALSE)
        BY <1>4, FormsAnswered
    <2>2. /\ r.step = "import" /\ sieRequests' = {}
          /\ ImportedBy(r) \/ UNCHANGED imports
          /\ sieErrors' = 0 => UNCHANGED booked
        BY <1>4, <1>b, <1>f DEF ImportFails, Over
    <2>3. \A q \in Pages : /\ sieForm'[q].preview = sieForm[q].preview
                           /\ sieForm'[q].file = sieForm[q].file
                           /\ sieForm'[q].year = sieForm[q].year
        BY <2>1 DEF FormIs
    <2>4. OnePreview' /\ PreviewOfForm'
        BY <2>3, <1>b DEF OnePreview, PreviewOfForm
    <2>5. PreviewStillTrue'
        BY <2>2, <2>3, <1>a, <1>b, <1>f DEF PreviewStillTrue
    <2>6. ImportedWasPreviewed'
        BY <2>2, <1>a, <1>b
        DEF ImportedBy, ImportedWasPreviewed, ImportOfPreview
    <2> QED
        BY <2>2, <2>4, <2>5, <2>6, <1>g
<1>5. CASE SieRefreshed(r)
    <2>1. FormIs("app", sieForm["app"].file, sieForm["app"].year,
                 sieForm["app"].preview, FALSE)
        BY <1>5, FormsAnswered
    <2>2. sieRequests' = {} /\ UNCHANGED <<booked, imports, sieErrors>>
        BY <1>5, <1>b DEF SieRefreshed, Over, siePast
    <2>3. \A q \in Pages : /\ sieForm'[q].preview = sieForm[q].preview
                           /\ sieForm'[q].file = sieForm[q].file
                           /\ sieForm'[q].year = sieForm[q].year
        BY <2>1 DEF FormIs
    <2>4. OnePreview' /\ PreviewOfForm' /\ PreviewStillTrue'
        BY <2>2, <2>3, <1>a, <1>b
        DEF OnePreview, PreviewOfForm, PreviewStillTrue
    <2>5. ImportedWasPreviewed'
        BY <2>2, <1>a, <1>b DEF ImportedWasPreviewed
    <2> QED
        BY <2>2, <2>4, <2>5, <1>g
<1> QED
    BY <1>1, <1>2, <1>3, <1>4, <1>5

LEMMA QuietCloseNext ==
    ASSUME SieTyped, SieQuietInv, sieRush' = 0, SieCloseNext
    PROVE  SieQuietInv'
<1>a. UNCHANGED <<booked, sieForm, imports>>
    BY DEF SieCloseNext, ChooseSource, ChooseExport, GenerateIB, IBReturns,
           ExportSIE4, SieFileArrives, siePast
<1>b. sieErrors' = 0 => sieErrors = 0
    BY SieErrorTyped DEF SieCloseNext, ChooseSource, ChooseExport, GenerateIB,
       IBReturns, ExportSIE4, SieFileArrives
<1>c. sieRush = 0 /\ (SieUserActs => sieRequests = {})
    BY SieUserTyped DEF SieCloseNext, ChooseSource, ChooseExport, GenerateIB,
       IBReturns, ExportSIE4, SieFileArrives
<1>d. /\ \A r, s \in sieRequests : r = s
      /\ OnePreview /\ PreviewOfForm
      /\ \A r \in sieRequests :
            /\ AnalysisOfForm(r)
            /\ ImportOfPreview(r)
            /\ r.step = "export" => r.year = exportYear
      /\ ImportedWasPreviewed /\ PreviewStillTrue /\ ExportedAsNamed
    BY <1>c DEF SieQuietInv
<1>e. OnePreview' /\ PreviewOfForm' /\ PreviewStillTrue'
      /\ ImportedWasPreviewed'
    BY <1>a, <1>b, <1>c, <1>d
    DEF OnePreview, PreviewOfForm, PreviewStillTrue, ImportedWasPreviewed
<1>f. \A r : (AnalysisOfForm(r) => AnalysisOfForm(r)')
             /\ (ImportOfPreview(r) => ImportOfPreview(r)')
    BY <1>a DEF AnalysisOfForm, ImportOfPreview, NoPreviewShown
<1>g. ASSUME sieRequests' \subseteq sieRequests,
             sieRequests' = {} \/ exportYear' = exportYear, ExportedAsNamed'
      PROVE  SieQuietInv'
    <2>1. \A r \in sieRequests' : /\ AnalysisOfForm(r)'
                                  /\ ImportOfPreview(r)'
                                  /\ r.step = "export" => r.year = exportYear'
        BY <1>d, <1>f, <1>g
    <2>2. \A r, s \in sieRequests' : r = s
        BY <1>d, <1>g
    <2> QED
        BY <2>1, <2>2, <1>e, <1>g DEF SieQuietInv
<1>1. ASSUME NEW y \in 1..SieYears, ChooseSource(y) \/ ChooseExport(y)
      PROVE  SieQuietInv'
    <2>1. sieRequests' = {} /\ UNCHANGED exported
        BY <1>1, <1>c DEF ChooseSource, ChooseExport, siePast
    <2>2. ExportedAsNamed'
        BY <2>1, <1>c, <1>d DEF ExportedAsNamed
    <2> QED
        BY <2>1, <2>2, <1>g
<1>2. CASE GenerateIB \/ IBReturns
    <2>1. UNCHANGED <<sieRequests, exportYear, exported>>
        BY <1>2 DEF GenerateIB, IBReturns, siePast
    <2>2. ExportedAsNamed'
        BY <2>1, <1>c, <1>d DEF ExportedAsNamed
    <2> QED
        BY <2>1, <2>2, <1>g
<1>3. CASE ExportSIE4
    <2>1. PICK r \in SieRequests :
              /\ r = Request("tools", "export", NoFile, exportYear, NoPreview)
              /\ r.step = "export" /\ r.year = exportYear
        BY SieConstants, RequestTyped DEF SieTyped
    <2>2. sieRequests' = {r} /\ UNCHANGED <<exportYear, exported>>
        BY <2>1, <1>3, <1>c DEF ExportSIE4, Sends, siePast
    <2>3. ExportedAsNamed'
        BY <2>2, <1>c, <1>d DEF ExportedAsNamed
    <2> QED
        BY <2>1, <2>2, <2>3, <1>e
        DEF SieQuietInv, AnalysisOfForm, ImportOfPreview
<1>4. ASSUME NEW r \in sieRequests, SieFileArrives(r) PROVE SieQuietInv'
    <2>1. sieRequests' = sieRequests \ {r} /\ UNCHANGED exportYear
        BY <1>4 DEF SieFileArrives, Over
    <2>2. r.year = exportYear
        BY <1>4, <1>d DEF SieFileArrives
    <2>3. ExportedAsNamed'
        BY <2>1, <2>2, <1>4, <1>c, <1>d DEF SieFileArrives, ExportedAsNamed
    <2> QED
        BY <2>1, <2>3, <1>g
<1> QED
    BY <1>1, <1>2, <1>3, <1>4 DEF SieCloseNext

LEMMA SieQuietInvNext ==
    SieTyped /\ SieQuietInv /\ [SieNext]_sieVars => SieQuietInv'
<1> SUFFICES ASSUME SieTyped, SieQuietInv, [SieNext]_sieVars, sieRush' = 0
             PROVE  SieQuietInv'
    BY DEF SieQuietInv
<1>1. CASE SieImportNext
    BY <1>1, QuietUserNext, QuietAnswerNext DEF SieImportNext
<1>2. CASE SieCloseNext
    BY <1>2, QuietCloseNext
<1>3. CASE UNCHANGED sieVars
    BY <1>3
    DEF sieVars, siePast, SieQuietInv, OnePreview, PreviewOfForm,
        AnalysisOfForm, ImportOfPreview, NoPreviewShown, ImportedWasPreviewed,
        PreviewStillTrue, ExportedAsNamed
<1> QED
    BY <1>1, <1>2, <1>3 DEF SieNext

(* The tools: files and years are those on the screen, also when others    *)
(* were chosen, or requests failed, in between (app.js:1490-1540,          *)
(* tools.js:20-219).                                                       *)
THEOREM SieIsAsShown == SieSpec => []SieAsShown
<1>1. SieInit => NamedInv /\ SieQuietInv
    <2> SUFFICES ASSUME SieInit PROVE NamedInv /\ SieQuietInv
        OBVIOUS
    <2>1. closing.source = 0
        BY SieConstants DEF SieInit
    <2>2. NoForm.preview = NoPreview
        BY DEF NoForm
    <2>3. \A p \in Pages : sieForm[p].preview = NoPreview
        BY <2>2 DEF SieInit, NoForm
    <2>4. ~NoPreview.valid
        BY SieConstants
    <2> QED
        BY <2>1, <2>3, <2>4
        DEF SieInit, NamedInv, ClosedAsNamed, SieQuietInv, OnePreview,
            PreviewOfForm, ImportedWasPreviewed, PreviewStillTrue,
            ExportedAsNamed
<1>2. NamedInv /\ SieQuietInv => SieAsShown
    BY DEF NamedInv, SieQuietInv, SieAsShown, ImportedWasPreviewed,
           PreviewStillTrue, ExportedAsNamed
<1> QED
    BY <1>1, <1>2, SieTypeInit, SieTypeNext, NamedInvNext, SieQuietInvNext, PTL
    DEF SieSpec

-----------------------------------------------------------------------------
(* The settings (SettingsPage).                                            *)

SettingsRequests == [what : {"get", "save", "logo"},
                     body : Settings, edited : SUBSET Parts]

(* One setting is changed. *)
LEMMA Changed ==
    ASSUME NEW s \in Settings
    PROVE  /\ \A b \in BOOLEAN : [s EXCEPT !.named = b] \in Settings
           /\ \A n \in 0..MaxEdits : [s EXCEPT !.rest = n] \in Settings
           /\ \A l \in Logos \cup {NoLogo} : [s EXCEPT !.logo = l] \in Settings
           /\ s.named \in BOOLEAN /\ s.rest \in 0..MaxEdits
BY DEF Settings

LEMMA RequestTypes ==
    /\ Blank \in Settings
    /\ Get \in SettingsRequests /\ Get.what = "get"
    /\ \A body \in Settings, parts \in SUBSET Parts :
          /\ Save(body, parts) \in SettingsRequests
          /\ Save(body, parts).what = "save"
          /\ Save(body, parts).body = body
          /\ Save(body, parts).edited = parts
    /\ \A logo \in Logos :
          /\ Logo(logo) \in SettingsRequests
          /\ Logo(logo).what = "logo"
<1>1. Blank \in Settings
    BY SettingsAssumption DEF Blank, Settings
<1>2. \A logo \in Logos : [Blank EXCEPT !.logo = logo] \in Settings
    BY <1>1 DEF Settings
<1> QED
    BY <1>1, <1>2 DEF Get, Save, Logo, SettingsRequests

LEMMA SettingsTypeInit == SettingsInit => SettingsTypeOK
<1> SUFFICES ASSUME SettingsInit PROVE SettingsTypeOK
    OBVIOUS
<1>1. stored \in Settings
    <2>1. stored = [named |-> TRUE, rest |-> 1, logo |-> NoLogo]
        BY DEF SettingsInit, Blank
    <2>2. 1 \in 0..MaxEdits
        BY SettingsAssumption
    <2> QED
        BY <2>1, <2>2 DEF Settings
<1>2. 0 \in 0..MaxSettingsRush /\ 0 \in 0..MaxSettingsErrors
    BY SettingsAssumption
<1> QED
    BY <1>1, <1>2, RequestTypes
    DEF SettingsInit, SettingsTypeOK, SettingsRequests

LEMMA UserTyped ==
    ASSUME SettingsTypeOK, SettingsUserActs
    PROVE  settingsRush' \in 0..MaxSettingsRush
BY SettingsAssumption DEF SettingsTypeOK, SettingsUserActs

LEMMA SettingsTypeNext ==
    SettingsTypeOK /\ [SettingsNext]_settingsVars => SettingsTypeOK'
<1> SUFFICES ASSUME SettingsTypeOK, [SettingsNext]_settingsVars
             PROVE  SettingsTypeOK'
    OBVIOUS
<1>a. settingsAsked \subseteq SettingsRequests /\ stray \subseteq SettingsRequests
    BY DEF SettingsTypeOK, SettingsRequests
<1>b. LosesSettings => settingsErrors' \in 0..MaxSettingsErrors
    BY SettingsAssumption DEF LosesSettings, SettingsTypeOK
<1>1. CASE LoadPage
    BY <1>1, UserTyped, RequestTypes
    DEF LoadPage, SettingsTypeOK, SettingsRequests
<1>2. CASE SettingsArrive
    BY <1>2, <1>b DEF SettingsArrive, SettingsTypeOK
<1>3. CASE EditName \/ EditRest
    <2>1. settings' \in Settings
        <3>1. settings \in Settings
            BY DEF SettingsTypeOK
        <3>2. (~settings.named) \in BOOLEAN
            BY <3>1, Changed
        <3>3. CASE EditName
            BY <3>1, <3>2, <3>3, Changed DEF EditName
        <3>4. CASE EditRest
            <4>1. settings.rest + 1 \in 0..MaxEdits
                BY <3>1, <3>4, Changed, SettingsAssumption DEF EditRest
            <4> QED
                BY <3>1, <3>4, <4>1, Changed DEF EditRest
        <3> QED
            BY <1>3, <3>3, <3>4
    <2> QED
        BY <1>3, <2>1, UserTyped
        DEF EditName, EditRest, SettingsTypeOK, Parts
<1>4. CASE SaveSettings
    <2>1. settingsAsked' \subseteq SettingsRequests
        BY <1>4, <1>a, RequestTypes DEF SaveSettings, SettingsTypeOK
    <2> QED
        BY <1>4, <2>1, UserTyped
        DEF SaveSettings, SettingsTypeOK, settingsPast, SettingsRequests
<1>5. CASE RemoveLogo
    <2>1. settings' \in Settings /\ edited' \in SUBSET Parts
        BY <1>5, SettingsAssumption
        DEF RemoveLogo, SettingsTypeOK, Settings, Parts
    <2>2. settingsAsked' \subseteq SettingsRequests
        BY <1>5, <1>a, <2>1, RequestTypes DEF RemoveLogo
    <2> QED
        BY <1>5, <2>1, <2>2, UserTyped
        DEF RemoveLogo, SettingsTypeOK, SettingsRequests
<1>6. ASSUME NEW r \in settingsAsked, SaveArrives(r) PROVE SettingsTypeOK'
    <2>1. r.body \in Settings
        BY <1>a DEF SettingsRequests
    <2> QED
        BY <1>6, <1>b, <2>1
        DEF SaveArrives, Stores, SettingsTypeOK
<1>7. ASSUME NEW r \in settingsAsked, LogoArrives(r) PROVE SettingsTypeOK'
    <2>1. r.body.logo \in Logos \cup {NoLogo}
        BY <1>a DEF SettingsRequests, Settings
    <2>2. stored' \in Settings /\ settings' \in Settings
        BY <1>7, <2>1 DEF LogoArrives, Enters, SettingsTypeOK, Settings
    <2> QED
        BY <1>7, <1>b, <2>2 DEF LogoArrives, SettingsTypeOK
<1>8. ASSUME NEW logo \in Logos, UploadLogo(logo) PROVE SettingsTypeOK'
    <2>1. settingsAsked' \subseteq SettingsRequests
        BY <1>8, <1>a, RequestTypes DEF UploadLogo
    <2> QED
        BY <1>8, <2>1, UserTyped
        DEF UploadLogo, SettingsTypeOK, settingsPast, SettingsRequests
<1>9. ASSUME NEW r \in stray, StrayServed(r) PROVE SettingsTypeOK'
    <2>1. r.body \in Settings /\ r.body.logo \in Logos \cup {NoLogo}
        BY <1>a DEF SettingsRequests, Settings
    <2>2. Enters(r) => stored' \in Settings
        BY <2>1 DEF Enters, SettingsTypeOK, Settings
    <2>3. stored' \in Settings /\ nameless' \in BOOLEAN /\ erased' \in BOOLEAN
        BY <1>9, <2>1, <2>2 DEF StrayServed, Stores, SettingsTypeOK
    <2> QED
        BY <1>9, <2>3 DEF StrayServed, SettingsTypeOK
<1>10. CASE UNCHANGED settingsVars
    BY <1>10 DEF settingsVars, settingsPast, SettingsTypeOK
<1> QED
    BY <1>1, <1>2, <1>3, <1>4, <1>5, <1>6, <1>7, <1>8, <1>9, <1>10
    DEF SettingsNext

(* The form differs from the server in what the user has changed.          *)
Same == \A p \in Parts \ edited : settings[p] = stored[p]

(* One request at a time is under way, and a save sends what is on the     *)
(* form.                                                                   *)
OneAsked(r) ==
    /\ settingsAsked = {r}
    /\ r.what # "get" => Same
    /\ r.what = "save" => r.body = settings /\ r.edited = edited

CarefulInv ==
    Careful =>
        /\ ~erased
        /\ stored.named
        /\ stray = {}
        /\ \/ settingsAsked = {} /\ Same
           \/ \E r \in settingsAsked : OneAsked(r)

(* Care is not taken up again once it was left.                            *)
LEMMA CareIsLost ==
    ASSUME SettingsTypeOK, [SettingsNext]_settingsVars, Careful'
    PROVE  /\ Careful
           /\ SettingsUserActs => settingsAsked = {}
           /\ ~LosesSettings
<1>1. settingsRush \in Nat /\ settingsErrors \in Nat
    BY DEF SettingsTypeOK
<1>2. SettingsUserActs => settingsAsked = {} /\ settingsRush = 0
    BY <1>1 DEF SettingsUserActs, Careful
<1>3. ~LosesSettings
    BY <1>1 DEF LosesSettings, Careful
<1>4. settingsErrors' = settingsErrors /\ (nameless => nameless')
      /\ (settingsRush' = settingsRush \/ SettingsUserActs)
    <2>1. CASE LoadPage \/ EditName \/ EditRest \/ SaveSettings \/ RemoveLogo
               \/ (\E logo \in Logos : UploadLogo(logo))
        BY <2>1 DEF LoadPage, EditName, EditRest, SaveSettings, RemoveLogo,
                    UploadLogo, settingsPast
    <2>2. CASE SettingsArrive
        BY <2>2, <1>3 DEF SettingsArrive
    <2>3. ASSUME NEW r \in settingsAsked, SaveArrives(r)
          PROVE  UNCHANGED <<settingsErrors, settingsRush>>
                 /\ (nameless => nameless')
        BY <2>3, <1>3 DEF SaveArrives, Stores
    <2>4. ASSUME NEW r \in settingsAsked, LogoArrives(r)
          PROVE  UNCHANGED <<settingsErrors, settingsRush, nameless>>
        BY <2>4, <1>3 DEF LogoArrives
    <2>5. ASSUME NEW r \in stray, StrayServed(r)
          PROVE  UNCHANGED <<settingsErrors, settingsRush>>
                 /\ (nameless => nameless')
        <3>1. UNCHANGED <<settingsErrors, settingsRush>>
            BY <2>5 DEF StrayServed
        <3>2. Stores(r) \/ UNCHANGED nameless
            BY <2>5 DEF StrayServed
        <3>3. Stores(r) => (nameless => nameless')
            BY DEF Stores
        <3>4. UNCHANGED nameless => (nameless => nameless')
            OBVIOUS
        <3> QED
            BY <3>1, <3>2, <3>3, <3>4
    <2>6. CASE UNCHANGED settingsVars
        BY <2>6 DEF settingsVars, settingsPast
    <2> QED
        BY <2>1, <2>2, <2>3, <2>4, <2>5, <2>6 DEF SettingsNext
<1> QED
    BY <1>2, <1>3, <1>4 DEF Careful

LEMMA CarefulInvNext ==
    SettingsTypeOK /\ CarefulInv /\ [SettingsNext]_settingsVars => CarefulInv'
<1> SUFFICES ASSUME SettingsTypeOK, CarefulInv, [SettingsNext]_settingsVars,
                    Careful'
             PROVE  CarefulInv'
    BY DEF CarefulInv
<1>a. /\ ~erased /\ stored.named /\ stray = {}
      /\ \/ settingsAsked = {} /\ Same
         \/ \E r \in settingsAsked : OneAsked(r)
    BY CareIsLost DEF CarefulInv
<1>b. SettingsUserActs => settingsAsked = {} /\ Same
    BY <1>a, CareIsLost
<1>c. settings \in Settings /\ stored \in Settings
    BY DEF SettingsTypeOK
<1>d. settingsAsked \subseteq SettingsRequests
    BY DEF SettingsTypeOK, SettingsRequests
<1>1. CASE LoadPage
    <2>1. settingsAsked' = {Get} /\ Get.what = "get" /\ stray' = {}
        BY <1>1, <1>a, <1>b, RequestTypes DEF LoadPage
    <2>2. OneAsked(Get)'
        BY <2>1 DEF OneAsked
    <2> QED
        BY <2>1, <2>2, <1>1, <1>a DEF LoadPage, CarefulInv
<1>2. CASE SettingsArrive
    <2>1. Get.what = "get"
        BY RequestTypes
    <2>2. PICK r \in settingsAsked : OneAsked(r)
        BY <1>2, <1>a DEF SettingsArrive
    <2>3. settingsAsked' = {}
        BY <2>2, <1>2 DEF SettingsArrive, OneAsked
    <2>4. settings' = stored /\ UNCHANGED <<stored, stray, erased>>
        BY <1>2, <1>a, CareIsLost DEF SettingsArrive
    <2> QED
        BY <2>3, <2>4, <1>a DEF CarefulInv, Same
<1>3. CASE EditName \/ EditRest
    <2>1. Same'
        BY <1>3, <1>b, <1>c
        DEF EditName, EditRest, Same, Parts, Settings
    <2> QED
        BY <2>1, <1>3, <1>a, <1>b DEF EditName, EditRest, CarefulInv
<1>4. CASE SaveSettings
    <2>1. PICK r \in SettingsRequests : r = Save(settings, edited)
        BY RequestTypes, <1>c DEF SettingsTypeOK
    <2>2. r.what = "save" /\ r.body = settings /\ r.edited = edited
        BY <2>1, RequestTypes, <1>c DEF SettingsTypeOK
    <2>3. /\ settingsAsked' = {r}
          /\ UNCHANGED <<settings, edited, stored, stray, erased>>
        BY <2>1, <1>4, <1>b DEF SaveSettings, settingsPast
    <2>4. Same'
        BY <2>3, <1>b, <1>4 DEF SaveSettings, Same
    <2>5. OneAsked(r)'
        BY <2>2, <2>3, <2>4 DEF OneAsked
    <2> QED
        BY <2>3, <2>5, <1>a DEF CarefulInv
<1>5. CASE RemoveLogo
    <2>1. settings' \in Settings /\ edited' \in SUBSET Parts
        BY <1>5, SettingsAssumption
        DEF RemoveLogo, SettingsTypeOK, Settings, Parts
    <2>2. PICK r \in SettingsRequests : r = Save(settings', edited')
        BY RequestTypes, <2>1
    <2>3. r.what = "save" /\ r.body = settings' /\ r.edited = edited'
        BY <2>1, <2>2, RequestTypes
    <2>4. settingsAsked' = {r} /\ UNCHANGED <<stored, stray, erased>>
        BY <2>2, <1>5, <1>b DEF RemoveLogo
    <2>5. Same'
        BY <1>5, <1>b, <1>c DEF RemoveLogo, Same, Parts, Settings
    <2>6. OneAsked(r)'
        BY <2>3, <2>4, <2>5 DEF OneAsked
    <2> QED
        BY <2>4, <2>6, <1>a DEF CarefulInv
<1>6. ASSUME NEW r \in settingsAsked, SaveArrives(r) PROVE CarefulInv'
    <2>1. OneAsked(r) /\ r.what = "save"
        BY <1>6, <1>a DEF SaveArrives, OneAsked
    <2>2. /\ settingsAsked' = {} /\ stray' = stray
          /\ stored' = settings /\ settings' = settings
          /\ erased' = (erased \/ \E p \in Parts \ edited :
                                      settings[p] # stored[p])
          /\ ~nameless' => settings.named
        BY <2>1, <1>6, CareIsLost DEF SaveArrives, Stores, OneAsked
    <2>3. ~erased'
        BY <2>1, <2>2, <1>a DEF OneAsked, Same
    <2> QED
        BY <2>2, <2>3, <1>a DEF CarefulInv, Same, Careful
<1>7. ASSUME NEW r \in settingsAsked, LogoArrives(r) PROVE CarefulInv'
    <2>1. OneAsked(r) /\ r.what = "logo"
        BY <1>7, <1>a DEF LogoArrives, OneAsked
    <2>2. /\ settingsAsked' = {} /\ UNCHANGED <<stray, erased>>
          /\ stored' = [stored EXCEPT !.logo = r.body.logo]
          /\ settings' = [settings EXCEPT !.logo = r.body.logo]
          /\ edited' = edited \ {"logo"}
        BY <2>1, <1>7, CareIsLost DEF LogoArrives, Enters, OneAsked
    <2>3. Same'
        BY <2>1, <2>2, <1>c DEF OneAsked, Same, Parts, Settings
    <2>4. stored'.named
        BY <2>2, <1>a, <1>c DEF Settings
    <2> QED
        BY <2>2, <2>3, <2>4, <1>a DEF CarefulInv
<1>8. ASSUME NEW logo \in Logos, UploadLogo(logo) PROVE CarefulInv'
    <2>1. PICK r \in SettingsRequests : r = Logo(logo) /\ r.what = "logo"
        BY RequestTypes
    <2>2. /\ settingsAsked' = {r}
          /\ UNCHANGED <<settings, edited, stored, stray, erased>>
        BY <2>1, <1>8, <1>b DEF UploadLogo, settingsPast
    <2>3. Same'
        BY <2>2, <1>b, <1>8 DEF UploadLogo, Same
    <2>4. OneAsked(r)'
        BY <2>1, <2>2, <2>3 DEF OneAsked
    <2> QED
        BY <2>2, <2>4, <1>a DEF CarefulInv
<1>9. CASE UNCHANGED settingsVars
    <2>1. \A r \in settingsAsked : OneAsked(r) => OneAsked(r)'
        BY <1>9 DEF settingsVars, settingsPast, OneAsked, Same
    <2> QED
        BY <2>1, <1>9, <1>a DEF settingsVars, settingsPast, CarefulInv, Same
<1> QED
    BY <1>a, <1>1, <1>2, <1>3, <1>4, <1>5, <1>6, <1>7, <1>8, <1>9 DEF SettingsNext

(* Form and server have the same settings, though the form is sent as a    *)
(* whole and the logo goes by a way of its own (app.js:1030-1115).         *)
THEOREM SettingsAreKept == SettingsSpec => []SettingsKept
<1>1. SettingsInit => CarefulInv
    <2> SUFFICES ASSUME SettingsInit PROVE CarefulInv
        OBVIOUS
    <2>1. OneAsked(Get) /\ Get \in settingsAsked
        BY RequestTypes DEF SettingsInit, OneAsked
    <2>2. stored.named
        BY DEF SettingsInit, Blank
    <2> QED
        BY <2>1, <2>2 DEF SettingsInit, CarefulInv
<1>2. CarefulInv => SettingsKept
    BY DEF CarefulInv, SettingsKept, NothingErased, SettingsShown, Same
<1> QED
    BY <1>1, <1>2, SettingsTypeInit, SettingsTypeNext, CarefulInvNext, PTL
    DEF SettingsSpec

-----------------------------------------------------------------------------
(* Backup and restore (Restore).                                           *)

Exports == [show : BOOLEAN, password : Passwords, busy : BOOLEAN]
Restoring == [show : BOOLEAN, file : AnyBackup, required : BOOLEAN,
              password : Passwords, busy : BOOLEAN, complete : BOOLEAN]
BackupRequests ==
    [what : {"export", "restore"}, file : AnyBackup, password : Passwords]

RestoreTyped ==
    /\ RestoreTypeOK
    /\ backup \in Exports
    /\ restore \in Restoring

LEMMA NoTyped ==
    /\ NoExport \in Exports /\ NoExport.busy = FALSE
    /\ NoRestore \in Restoring
    /\ NoRestore.busy = FALSE /\ NoRestore.file = NoBackup
    /\ NoRestore.required = FALSE /\ NoRestore.complete = FALSE
BY DEF NoExport, NoRestore, Exports, Restoring, AnyBackup, Passwords

LEMMA SentTyped ==
    ASSUME NEW what \in {"export", "restore"}, NEW file \in AnyBackup,
           NEW password \in Passwords
    PROVE  /\ Sent(what, file, password) \in BackupRequests
           /\ Sent(what, file, password).what = what
           /\ Sent(what, file, password).file = file
           /\ Sent(what, file, password).password = password
BY DEF Sent, BackupRequests

LEMMA RestoreUserTyped ==
    ASSUME RestoreTypeOK, RestoreUserActs
    PROVE  /\ restoreRush' \in 0..MaxRestoreRush
           /\ restoreRush' = 0 => restoreRush = 0 /\ backupAsked = {}
BY RestoreAssumption DEF RestoreTypeOK, RestoreUserActs

LEMMA RestoreErrorTyped ==
    ASSUME RestoreTypeOK, LosesRestore
    PROVE  restoreErrors' \in 0..MaxRestoreErrors
BY RestoreAssumption DEF RestoreTypeOK, LosesRestore

(* The dialog of the backup changes. *)
LEMMA BackupChanges ==
    ASSUME NEW b \in Exports
    PROVE  /\ \A p \in Passwords :
                 LET c == [b EXCEPT !.password = p]
                 IN  c \in Exports /\ c.busy = b.busy
           /\ \A f \in BOOLEAN :
                 LET c == [b EXCEPT !.busy = f]
                 IN  c \in Exports /\ c.busy = f
BY DEF Exports

LEMMA BackupTypedNext ==
    ASSUME RestoreTyped,
           OpenBackupModal \/ TypeBackupPassword \/ CloseBackupModal
           \/ ExportBackup \/ \E r \in backupAsked : ExportArrives(r)
    PROVE  RestoreTyped'
<1>a. backup \in Exports /\ backup.password \in Passwords
    BY DEF RestoreTyped, Exports
<1>b. {"none", "right"} \subseteq Passwords /\ NoBackup \in AnyBackup
    BY DEF Passwords, AnyBackup
<1>c. RestoreTypeOK /\ restore \in Restoring
    BY DEF RestoreTyped
<1>1. CASE OpenBackupModal \/ TypeBackupPassword \/ CloseBackupModal
    <2>1. backup' \in Exports /\ backup'.busy = backup.busy
        <3>1. "none" \in Passwords /\ "right" \in Passwords
            BY <1>b
        <3>2. PICK b \in Exports : b = backup
            BY <1>a
        <3>3. LET c == [b EXCEPT !.password = "right"]
              IN  c \in Exports /\ c.busy = b.busy
            BY <3>1, BackupChanges
        <3>4. \A s \in BOOLEAN :
                  LET c == [b EXCEPT !.show = s, !.password = "none"]
                  IN  c \in Exports /\ c.busy = b.busy
            BY <3>1 DEF Exports
        <3>5. CASE TypeBackupPassword
            BY <3>5, <3>2, <3>3 DEF TypeBackupPassword
        <3>6. CASE OpenBackupModal \/ CloseBackupModal
            BY <3>6, <3>2, <3>4 DEF OpenBackupModal, CloseBackupModal
        <3> QED
            BY <1>1, <3>5, <3>6
    <2>2. restoreRush' \in 0..MaxRestoreRush
        BY <1>1, <1>c, RestoreUserTyped
        DEF OpenBackupModal, TypeBackupPassword, CloseBackupModal
    <2>3. backup'.password \in Passwords
        BY <2>1 DEF Exports
    <2> QED
        BY <2>1, <2>2, <2>3, <1>1, <1>c
        DEF OpenBackupModal, TypeBackupPassword, CloseBackupModal,
            RestoreTyped, RestoreTypeOK, restorePast
<1>2. CASE ExportBackup
    <2>1. backup' \in Exports
        BY <1>2, <1>a, BackupChanges DEF ExportBackup
    <2>2. restoreRush' \in 0..MaxRestoreRush
        BY <1>2, <1>c, RestoreUserTyped DEF ExportBackup
    <2>3. PICK r \in BackupRequests :
              r = Sent("export", NoBackup, backup.password)
              /\ r.what = "export"
        BY <1>a, <1>b, SentTyped
    <2>4. backupAsked' = backupAsked \cup {r}
        BY <2>3, <1>2 DEF ExportBackup, RestoreAsks
    <2>5. backup'.password \in Passwords
        BY <2>1 DEF Exports
    <2>6. backupAsked' \subseteq BackupRequests
          /\ (\E s \in backupAsked' : s.what = "export")
        BY <2>3, <2>4, <1>c DEF RestoreTypeOK, BackupRequests
    <2>7. restore'.busy => \E s \in backupAsked' : s.what = "restore"
        BY <2>4, <1>2, <1>c DEF ExportBackup, RestoreTypeOK
    <2>8. RestoreTypeOK'
        BY <2>2, <2>5, <2>6, <2>7, <1>2, <1>c
        DEF ExportBackup, RestoreTypeOK, restorePast, BackupRequests
    <2> QED
        BY <2>1, <2>8, <1>2, <1>c DEF ExportBackup, RestoreTyped
<1>3. ASSUME NEW r \in backupAsked, ExportArrives(r) PROVE RestoreTyped'
    <2>1. backup' \in Exports /\ backup'.busy = FALSE
        <3>1. PICK b \in Exports : b = backup
            BY <1>a
        <3>2. [b EXCEPT !.busy = FALSE] \in Exports
              /\ [b EXCEPT !.busy = FALSE].busy = FALSE
            BY DEF Exports
        <3> QED
            BY <1>3, <3>1, <3>2, NoTyped DEF ExportArrives
    <2>2. /\ backupAsked' = backupAsked \ {r} /\ r.what = "export"
          /\ UNCHANGED <<restored, unpicked, backupView, restore, picked,
                         restoreRush>>
        BY <1>3 DEF ExportArrives, RestoreAnswered
    <2>3. restoreErrors' \in 0..MaxRestoreErrors
        BY <1>3, <1>c, RestoreErrorTyped DEF ExportArrives, RestoreTypeOK
    <2>4. backups' \subseteq BOOLEAN \X BOOLEAN
        <3>1. PICK e \in BOOLEAN : e = (r.password # "none")
            BY Zenon
        <3>2. backups' \in {backups, backups \cup {<<e, e>>}}
            BY <1>3, <3>1 DEF ExportArrives
        <3>3. <<e, e>> \in BOOLEAN \X BOOLEAN
            BY <3>1
        <3>4. backups \subseteq BOOLEAN \X BOOLEAN
            BY <1>c DEF RestoreTypeOK
        <3> QED
            BY <3>2, <3>3, <3>4
    <2>5. backup'.password \in Passwords
        BY <2>1 DEF Exports
    <2>6. restore'.busy => \E s \in backupAsked' : s.what = "restore"
        BY <2>2, <1>c DEF RestoreTypeOK
    <2>7. backupAsked' \subseteq BackupRequests
        BY <2>2, <1>c DEF RestoreTypeOK, BackupRequests
    <2>8. RestoreTypeOK'
        BY <2>1, <2>2, <2>3, <2>4, <2>5, <2>6, <2>7, <1>c
        DEF RestoreTypeOK, BackupRequests
    <2> QED
        BY <2>1, <2>2, <2>8, <1>c DEF RestoreTyped
<1> QED
    BY <1>1, <1>2, <1>3

(* What the dialog of a restore becomes. *)
Hidden(s, t) ==
    /\ t \in Restoring
    /\ t.file = s.file /\ t.required = s.required
    /\ t.busy = s.busy /\ t.complete = s.complete

Cleared(s, t) ==
    /\ t \in Restoring
    /\ t.file = NoBackup /\ t.required = FALSE
    /\ t.busy = s.busy /\ t.complete = s.complete

Uploads(s, t, file) ==
    /\ t \in Restoring
    /\ t.file = file /\ t.required = s.required /\ t.complete = s.complete

Answers(s, t, required) ==
    /\ t \in Restoring
    /\ t.file = s.file /\ t.required = required
    /\ t.busy = FALSE /\ t.complete = s.complete

Completed(t) ==
    /\ t \in Restoring
    /\ t.file = NoBackup /\ t.required = FALSE
    /\ t.busy = FALSE /\ t.complete = TRUE

LEMMA RestoreChanges ==
    ASSUME RestoreTyped
    PROVE  /\ OpenRestoreModal \/ CancelRestore => Cleared(restore, restore')
           /\ HideRestoreModal => Hidden(restore, restore')
           /\ \A file \in BackupFiles :
                 UploadRestoreFile(file) => Uploads(restore, restore', file)
           /\ \A p \in Passwords :
                 UploadWithPassword(p)
                    => Uploads(restore, restore', restore.file)
           /\ \A r : PasswordRequired(r) => Answers(restore, restore', TRUE)
           /\ \A r : RestoreFails(r)
                        => Answers(restore, restore', restore.required)
           /\ \A r : RestoreSucceeds(r) => Completed(restore')
<1>a. PICK s \in Restoring : s = restore
    BY DEF RestoreTyped
<1>b. NoBackup \in AnyBackup /\ BackupFiles \subseteq AnyBackup
      /\ "none" \in Passwords
    BY DEF AnyBackup, Passwords
<1>1. \A b \in BOOLEAN :
        LET t == [s EXCEPT !.show = b, !.file = NoBackup, !.required = FALSE,
                           !.password = "none"]
        IN  Cleared(s, t)
    <2> TAKE b \in BOOLEAN
    <2> DEFINE t == [s EXCEPT !.show = b, !.file = NoBackup, !.required = FALSE,
                              !.password = "none"]
    <2>1. DOMAIN t = {"show", "file", "required", "password", "busy",
                      "complete"}
          /\ t = [x \in DOMAIN t |-> t[x]]
        BY DEF Restoring
    <2>2. s.busy \in BOOLEAN /\ s.complete \in BOOLEAN
        BY DEF Restoring
    <2>4. t.file = NoBackup /\ t.required = FALSE /\ t.busy = s.busy
          /\ t.complete = s.complete /\ t.show = b /\ t.password = "none"
        BY DEF Restoring
    <2> HIDE DEF t
    <2>3. t \in Restoring
        BY <2>1, <2>2, <2>4, <1>b DEF Restoring
    <2>5. Cleared(s, t)
        BY <2>3, <2>4 DEF Cleared
    <2> QED
        BY <2>5 DEF t
<1>2. Hidden(s, [s EXCEPT !.show = FALSE])
    BY DEF Hidden, Restoring
<1>3. \A file \in AnyBackup :
          Uploads(s, [s EXCEPT !.file = file, !.busy = TRUE], file)
    BY DEF Uploads, Restoring
<1>4. \A p \in Passwords :
          /\ Uploads(s, [s EXCEPT !.password = p], s.file)
          /\ Uploads(s, [s EXCEPT !.password = p, !.busy = TRUE], s.file)
    BY DEF Uploads, Restoring
<1>5. Answers(s, [s EXCEPT !.required = TRUE, !.busy = FALSE], TRUE)
    BY DEF Answers, Restoring
<1>6. Answers(s, [s EXCEPT !.busy = FALSE], s.required)
    BY DEF Answers, Restoring
<1>7. Completed([NoRestore EXCEPT !.show = s.show, !.complete = TRUE])
    <2> DEFINE t == [NoRestore EXCEPT !.show = s.show, !.complete = TRUE]
    <2>1. s.show \in BOOLEAN
        BY DEF Restoring
    <2>2. DOMAIN t = {"show", "file", "required", "password", "busy",
                      "complete"}
          /\ t = [x \in DOMAIN t |-> t[x]]
        BY DEF NoRestore
    <2>3. t.file = NoBackup /\ t.required = FALSE /\ t.busy = FALSE
          /\ t.complete = TRUE /\ t.show = s.show /\ t.password = "none"
        BY DEF NoRestore
    <2> HIDE DEF t
    <2>4. t \in Restoring
        BY <2>1, <2>2, <2>3, <1>b DEF Restoring
    <2>5. Completed(t)
        BY <2>3, <2>4 DEF Completed
    <2> QED
        BY <2>5 DEF t
<1>8. OpenRestoreModal \/ CancelRestore => Cleared(restore, restore')
    BY <1>a, <1>1 DEF OpenRestoreModal, CancelRestore
<1>9. HideRestoreModal => Hidden(restore, restore')
    BY <1>a, <1>2 DEF HideRestoreModal
<1>10. \A file \in BackupFiles :
          UploadRestoreFile(file) => Uploads(restore, restore', file)
    BY <1>a, <1>b, <1>3 DEF UploadRestoreFile
<1>11. \A p \in Passwords :
          UploadWithPassword(p) => Uploads(restore, restore', restore.file)
    BY <1>a, <1>4 DEF UploadWithPassword
<1>12. \A r : PasswordRequired(r) => Answers(restore, restore', TRUE)
    BY <1>a, <1>5 DEF PasswordRequired
<1>13. \A r : RestoreFails(r)
                  => Answers(restore, restore', restore.required)
    BY <1>a, <1>6 DEF RestoreFails
<1>14. \A r : RestoreSucceeds(r) => Completed(restore')
    BY <1>a, <1>7 DEF RestoreSucceeds
<1> QED
    BY <1>8, <1>9, <1>10, <1>11, <1>12, <1>13, <1>14

LEMMA RestoreTypeInit == RestoreInit => RestoreTyped
<1> SUFFICES ASSUME RestoreInit PROVE RestoreTyped
    OBVIOUS
<1>1. 0 \in 0..MaxRestoreRush /\ 0 \in 0..MaxRestoreErrors
    BY RestoreAssumption
<1>2. /\ backup \in Exports /\ backup.password \in Passwords /\ ~backup.busy
      /\ restore \in Restoring /\ ~restore.busy
      /\ restore.password \in Passwords
    BY NoTyped DEF RestoreInit, Exports, Restoring
<1> QED
    BY <1>1, <1>2, NoTyped
    DEF RestoreInit, RestoreTyped, RestoreTypeOK, AnyBackup

LEMMA RestoreTypeNext ==
    RestoreTyped /\ [RestoreNext]_restoreVars => RestoreTyped'
<1> SUFFICES ASSUME RestoreTyped, [RestoreNext]_restoreVars
             PROVE  RestoreTyped'
    OBVIOUS
<1>a. RestoreTypeOK /\ backup \in Exports /\ restore \in Restoring
    BY DEF RestoreTyped
<1>b. restore' \in Restoring => /\ restore'.password \in Passwords
                                /\ restore'.file \in AnyBackup
    BY DEF Restoring
<1>c. NoBackup \in AnyBackup /\ BackupFiles \subseteq AnyBackup
      /\ "none" \in Passwords
    BY DEF AnyBackup, Passwords
<1>d. backupAsked \subseteq BackupRequests
    BY <1>a DEF RestoreTypeOK, BackupRequests
<1>1. CASE OpenBackupModal \/ TypeBackupPassword \/ CloseBackupModal
           \/ ExportBackup \/ \E r \in backupAsked : ExportArrives(r)
    BY <1>1, BackupTypedNext
<1>2. CASE \E view \in {"settings", "tools"} : GoTo(view)
    BY <1>2, <1>a DEF GoTo, RestoreTyped, RestoreTypeOK, restorePast
<1>3. CASE OpenRestoreModal \/ CancelRestore \/ HideRestoreModal
    <2>1. restore' \in Restoring /\ restore'.busy = restore.busy
        BY <1>3, RestoreChanges DEF Cleared, Hidden
    <2>2. restoreRush' \in 0..MaxRestoreRush
        BY <1>3, <1>a, RestoreUserTyped
        DEF OpenRestoreModal, CancelRestore, HideRestoreModal
    <2> QED
        BY <2>1, <2>2, <1>3, <1>a, <1>b, <1>c
        DEF OpenRestoreModal, CancelRestore, HideRestoreModal, RestoreTyped,
            RestoreTypeOK, restorePast
<1>4. ASSUME NEW file \in BackupFiles, UploadRestoreFile(file)
      PROVE  RestoreTyped'
    <2>1. restore' \in Restoring
        BY <1>4, RestoreChanges DEF Uploads
    <2>2. restoreRush' \in 0..MaxRestoreRush
        BY <1>4, <1>a, RestoreUserTyped DEF UploadRestoreFile
    <2>3. PICK r \in BackupRequests : r = Sent("restore", file, "none")
                                      /\ r.what = "restore"
        BY <1>c, SentTyped
    <2>4. backupAsked' = backupAsked \cup {r}
        BY <2>3, <1>4 DEF UploadRestoreFile, RestoreAsks
    <2> QED
        BY <2>1, <2>2, <2>3, <2>4, <1>4, <1>a, <1>b, <1>c
        DEF UploadRestoreFile, RestoreTyped, RestoreTypeOK, BackupRequests
<1>5. ASSUME NEW password \in Passwords, UploadWithPassword(password)
      PROVE  RestoreTyped'
    <2>1. restore' \in Restoring
        BY <1>5, RestoreChanges DEF Uploads
    <2>2. restoreRush' \in 0..MaxRestoreRush
        BY <1>5, <1>a, RestoreUserTyped DEF UploadWithPassword
    <2>3. restore.file \in AnyBackup
        BY <1>a DEF Restoring
    <2>4. PICK r \in BackupRequests :
              r = Sent("restore", restore.file, password) /\ r.what = "restore"
        BY <2>3, SentTyped
    <2>5. backupAsked' \in {backupAsked, backupAsked \cup {r}}
        BY <2>4, <1>5 DEF UploadWithPassword, RestoreAsks
    <2>6. restore'.busy => \E s \in backupAsked' : s.what = "restore"
        <3>1. CASE restore.file = NoBackup
            <4>1. restore'.busy = restore.busy /\ backupAsked' = backupAsked
                BY <3>1, <1>5, <1>a DEF UploadWithPassword, Restoring
            <4> QED
                BY <4>1, <1>a DEF RestoreTypeOK
        <3>2. CASE restore.file # NoBackup
            <4>1. backupAsked' = backupAsked \cup {r}
                BY <3>2, <2>4, <1>5 DEF UploadWithPassword, RestoreAsks
            <4> QED
                BY <4>1, <2>4
        <3> QED
            BY <3>1, <3>2
    <2>7. backup.busy => \E s \in backupAsked' : s.what = "export"
        BY <2>5, <1>a DEF RestoreTypeOK
    <2>8. backupAsked' \subseteq BackupRequests
        BY <2>5, <1>d
    <2> QED
        BY <2>1, <2>2, <2>6, <2>7, <2>8, <1>5, <1>a, <1>b
        DEF UploadWithPassword, RestoreTyped, RestoreTypeOK, BackupRequests,
            restorePast
<1>6. ASSUME NEW r \in backupAsked,
             RestoreSucceeds(r) \/ PasswordRequired(r) \/ RestoreFails(r)
      PROVE  RestoreTyped'
    <2>1. restore' \in Restoring /\ restore'.busy = FALSE
        BY <1>6, RestoreChanges DEF Answers, Completed
    <2>2. r.file \in AnyBackup
        BY <1>d DEF BackupRequests
    <2>3. restored' \in AnyBackup /\ unpicked' \in BOOLEAN
        BY <2>2, <1>6, <1>a
        DEF RestoreSucceeds, PasswordRequired, RestoreFails, Restores,
            RestoreTypeOK, restorePast
    <2>4. restoreErrors' \in 0..MaxRestoreErrors
        BY <1>6, <1>a, RestoreErrorTyped
        DEF RestoreSucceeds, PasswordRequired, RestoreFails, RestoreTypeOK
    <2>5. backupAsked' = backupAsked \ {r} /\ r.what = "restore"
          /\ UNCHANGED <<backupView, backup, picked, backups, restoreRush>>
        BY <1>6 DEF RestoreSucceeds, PasswordRequired, RestoreFails,
                    RestoreAnswered, restorePast
    <2>6. backup.busy => \E s \in backupAsked' : s.what = "export"
        BY <2>5, <1>a DEF RestoreTypeOK
    <2>7. backupAsked' \subseteq BackupRequests
        BY <2>5, <1>d
    <2>8. RestoreTypeOK'
        BY <2>1, <2>3, <2>4, <2>5, <2>6, <2>7, <1>a, <1>b
        DEF RestoreTypeOK, BackupRequests
    <2> QED
        BY <2>1, <2>5, <2>8, <1>a DEF RestoreTyped
<1>7. CASE UNCHANGED restoreVars
    BY <1>7, <1>a
    DEF restoreVars, restorePast, RestoreTyped, RestoreTypeOK
<1> QED
    BY <1>1, <1>2, <1>3, <1>4, <1>5, <1>6, <1>7 DEF RestoreNext

(* A request to restore is for a file, and no file is kept on the dialog   *)
(* but the one picked.                                                     *)
PickedInv ==
    /\ \A r \in backupAsked : r.what = "restore" => r.file # NoBackup
    /\ restore.file \in {NoBackup, picked}
    /\ CompleteIsRestored
    /\ BackupNamed

(* For who waits there is one request at a time, for the file that is on   *)
(* the dialog and that was picked.                                         *)
WaitingInv ==
    restoreRush = 0 =>
        /\ ~unpicked
        /\ restore.required => restore.file # NoBackup
        /\ \A r, s \in backupAsked : r = s
        /\ \A r \in backupAsked :
              r.what = "restore" => restore.file = r.file /\ picked = r.file

LEMMA PickedInvNext ==
    RestoreTyped /\ PickedInv /\ [RestoreNext]_restoreVars => PickedInv'
<1> SUFFICES ASSUME RestoreTyped, PickedInv, [RestoreNext]_restoreVars
             PROVE  PickedInv'
    OBVIOUS
<1> USE DEF PickedInv, CompleteIsRestored, restorePast
<1>a. backup.password \in Passwords /\ NoBackup \in AnyBackup
    BY DEF RestoreTyped, RestoreTypeOK, AnyBackup
<1>1. CASE OpenBackupModal \/ TypeBackupPassword \/ CloseBackupModal
           \/ \E view \in {"settings", "tools"} : GoTo(view)
    BY <1>1 DEF OpenBackupModal, TypeBackupPassword, CloseBackupModal, GoTo,
                BackupNamed
<1>2. CASE ExportBackup
    <2>1. PICK r \in BackupRequests :
              r = Sent("export", NoBackup, backup.password)
              /\ r.what = "export"
        BY <1>a, SentTyped
    <2>2. backupAsked' = backupAsked \cup {r}
        BY <2>1, <1>2 DEF ExportBackup, RestoreAsks
    <2> QED
        BY <2>1, <2>2, <1>2 DEF ExportBackup, BackupNamed
<1>3. ASSUME NEW r \in backupAsked, ExportArrives(r) PROVE PickedInv'
    <2>1. BackupNamed'
        BY <1>3 DEF ExportArrives, BackupNamed
    <2> QED
        BY <2>1, <1>3 DEF ExportArrives, RestoreAnswered
<1>4. CASE OpenRestoreModal \/ CancelRestore
    <2>1. Cleared(restore, restore')
        BY <1>4, RestoreChanges
    <2> QED
        BY <2>1, <1>4 DEF OpenRestoreModal, CancelRestore, Cleared, BackupNamed
<1>5. CASE HideRestoreModal
    BY <1>5, RestoreChanges DEF HideRestoreModal, Hidden, BackupNamed
<1>6. ASSUME NEW file \in BackupFiles, UploadRestoreFile(file)
      PROVE  PickedInv'
    <2>1. Uploads(restore, restore', file)
        BY <1>6, RestoreChanges
    <2>2. PICK r \in BackupRequests : r = Sent("restore", file, "none")
                                      /\ r.file = file
        BY SentTyped DEF AnyBackup, Passwords
    <2>3. backupAsked' = backupAsked \cup {r}
        BY <2>2, <1>6 DEF UploadRestoreFile, RestoreAsks
    <2>4. file # NoBackup
        BY RestoreAssumption
    <2> QED
        BY <2>1, <2>2, <2>3, <2>4, <1>6
        DEF UploadRestoreFile, Uploads, BackupNamed
<1>7. ASSUME NEW password \in Passwords, UploadWithPassword(password)
      PROVE  PickedInv'
    <2>1. Uploads(restore, restore', restore.file)
        BY <1>7, RestoreChanges
    <2>2. restore.file \in AnyBackup
        BY DEF RestoreTyped, Restoring
    <2>3. PICK r \in BackupRequests :
              r = Sent("restore", restore.file, password)
              /\ r.file = restore.file
        BY <2>2, SentTyped
    <2>4. backupAsked' = backupAsked
          \/ (restore.file # NoBackup /\ backupAsked' = backupAsked \cup {r})
        BY <2>3, <1>7 DEF UploadWithPassword, RestoreAsks
    <2>5. \A s \in backupAsked' : s.what = "restore" => s.file # NoBackup
        BY <2>3, <2>4
    <2> QED
        BY <2>1, <2>5, <1>7 DEF UploadWithPassword, Uploads, BackupNamed
<1>8. ASSUME NEW r \in backupAsked,
             RestoreSucceeds(r) \/ PasswordRequired(r) \/ RestoreFails(r)
      PROVE  PickedInv'
    <2>1. r.file # NoBackup
        BY <1>8 DEF RestoreSucceeds, PasswordRequired, RestoreFails
    <2>2. Completed(restore') \/ \E b : Answers(restore, restore', b)
        BY <1>8, RestoreChanges
    <2>3. restore'.file \in {NoBackup, picked}
          /\ (restore'.complete => restore.complete \/ RestoreSucceeds(r))
        BY <1>8, <2>2, RestoreChanges DEF Completed, Answers
    <2>4. backupAsked' = backupAsked \ {r} /\ UNCHANGED <<picked, backups>>
        BY <1>8 DEF RestoreSucceeds, PasswordRequired, RestoreFails,
                    RestoreAnswered
    <2>5. restored' \in {restored, r.file}
          /\ (RestoreSucceeds(r) => restored' = r.file)
        BY <1>8 DEF RestoreSucceeds, PasswordRequired, RestoreFails, Restores
    <2> QED
        BY <2>1, <2>3, <2>4, <2>5 DEF BackupNamed
<1>9. CASE UNCHANGED restoreVars
    BY <1>9 DEF restoreVars, BackupNamed
<1> QED
    BY <1>1, <1>2, <1>3, <1>4, <1>5, <1>6, <1>7, <1>8, <1>9 DEF RestoreNext

LEMMA WaitingInvNext ==
    RestoreTyped /\ PickedInv /\ WaitingInv /\ [RestoreNext]_restoreVars
        => WaitingInv'
<1> SUFFICES ASSUME RestoreTyped, PickedInv, WaitingInv,
                    [RestoreNext]_restoreVars, restoreRush' = 0
             PROVE  WaitingInv'
    BY DEF WaitingInv
<1> USE DEF restorePast
<1>a. RestoreUserActs => restoreRush = 0 /\ backupAsked = {}
    BY RestoreUserTyped DEF RestoreTyped
<1>b. NoBackup \in AnyBackup /\ BackupFiles \subseteq AnyBackup
      /\ "none" \in Passwords /\ NoBackup \notin BackupFiles
    BY RestoreAssumption DEF AnyBackup, Passwords
<1>1. CASE OpenBackupModal \/ TypeBackupPassword \/ CloseBackupModal
           \/ \E view \in {"settings", "tools"} : GoTo(view)
    BY <1>1, <1>a DEF OpenBackupModal, TypeBackupPassword, CloseBackupModal,
                      GoTo, WaitingInv
<1>2. CASE ExportBackup
    <2>1. PICK r \in BackupRequests :
              r = Sent("export", NoBackup, backup.password)
              /\ r.what = "export"
        BY <1>b, SentTyped DEF RestoreTyped, RestoreTypeOK
    <2>2. backupAsked' = {r}
        BY <2>1, <1>2, <1>a DEF ExportBackup, RestoreAsks
    <2> QED
        BY <2>1, <2>2, <1>2, <1>a DEF ExportBackup, WaitingInv
<1>3. ASSUME NEW r \in backupAsked, ExportArrives(r) PROVE WaitingInv'
    BY <1>3 DEF ExportArrives, RestoreAnswered, WaitingInv
<1>4. CASE OpenRestoreModal \/ CancelRestore
    <2>1. Cleared(restore, restore')
        BY <1>4, RestoreChanges
    <2>2. restoreRush = 0 /\ backupAsked = {}
          /\ UNCHANGED <<backupAsked, unpicked>>
        BY <1>4, <1>a DEF OpenRestoreModal, CancelRestore
    <2> QED
        BY <2>1, <2>2 DEF Cleared, WaitingInv
<1>5. CASE HideRestoreModal
    <2>1. Hidden(restore, restore')
        BY <1>5, RestoreChanges
    <2>2. restoreRush = 0 /\ backupAsked = {}
          /\ UNCHANGED <<backupAsked, unpicked>>
        BY <1>5, <1>a DEF HideRestoreModal
    <2> QED
        BY <2>1, <2>2 DEF Hidden, WaitingInv
<1>6. ASSUME NEW file \in BackupFiles, UploadRestoreFile(file)
      PROVE  WaitingInv'
    <2>1. Uploads(restore, restore', file)
        BY <1>6, RestoreChanges
    <2>2. PICK r \in BackupRequests : r = Sent("restore", file, "none")
                                      /\ r.file = file
        BY <1>b, SentTyped
    <2>3. backupAsked' = {r}
        BY <2>2, <1>6, <1>a DEF UploadRestoreFile, RestoreAsks
    <2>4. restoreRush = 0 /\ picked' = file /\ UNCHANGED unpicked
        BY <1>6, <1>a DEF UploadRestoreFile
    <2> QED
        BY <2>1, <2>2, <2>3, <2>4, <1>b DEF Uploads, WaitingInv
<1>7. ASSUME NEW password \in Passwords, UploadWithPassword(password)
      PROVE  WaitingInv'
    <2>1. Uploads(restore, restore', restore.file)
        BY <1>7, RestoreChanges
    <2>2. restore.file \in AnyBackup
        BY DEF RestoreTyped, Restoring
    <2>3. PICK r \in BackupRequests :
              r = Sent("restore", restore.file, password)
              /\ r.file = restore.file
        BY <2>2, SentTyped
    <2>4. /\ restoreRush = 0 /\ UNCHANGED <<picked, unpicked>>
          /\ \/ backupAsked' = {}
             \/ restore.file # NoBackup /\ backupAsked' = {r}
        BY <2>3, <1>7, <1>a DEF UploadWithPassword, RestoreAsks
    <2>5. restore.file # NoBackup => restore.file = picked
        BY DEF PickedInv
    <2> QED
        BY <2>1, <2>3, <2>4, <2>5 DEF Uploads, WaitingInv
<1>8. ASSUME NEW r \in backupAsked,
             RestoreSucceeds(r) \/ PasswordRequired(r) \/ RestoreFails(r)
      PROVE  WaitingInv'
    <2>1. /\ restoreRush = 0 /\ UNCHANGED picked
          /\ backupAsked' = backupAsked \ {r} /\ r.what = "restore"
        BY <1>8 DEF RestoreSucceeds, PasswordRequired, RestoreFails,
                    RestoreAnswered
    <2>2. backupAsked' = {} /\ ~unpicked /\ restore.file = r.file
          /\ picked = r.file /\ r.file # NoBackup
        BY <2>1 DEF WaitingInv, PickedInv
    <2>3. ~unpicked'
        BY <1>8, <2>2
        DEF RestoreSucceeds, PasswordRequired, RestoreFails, Restores
    <2>4. restore'.required => restore'.file # NoBackup
        BY <1>8, <2>2, RestoreChanges DEF Completed, Answers
    <2> QED
        BY <2>2, <2>3, <2>4 DEF WaitingInv
<1>9. CASE UNCHANGED restoreVars
    BY <1>9 DEF restoreVars, WaitingInv
<1> QED
    BY <1>1, <1>2, <1>3, <1>4, <1>5, <1>6, <1>7, <1>8, <1>9 DEF RestoreNext

(* The dialogs of the backup do what they show, also when the answer comes *)
(* after they were cancelled or opened again (app.js:1385-1465).           *)
THEOREM DialogsDoWhatTheyShow == RestoreSpec => []RestoreAsShown
<1>1. RestoreInit => PickedInv /\ WaitingInv
    BY NoTyped DEF RestoreInit, PickedInv, WaitingInv, CompleteIsRestored,
                   BackupNamed
<1>2. PickedInv /\ WaitingInv => RestoreAsShown
    BY DEF PickedInv, WaitingInv, RestoreAsShown, RestoredIsPicked,
           PasswordHasFile
<1> QED
    BY <1>1, <1>2, RestoreTypeInit, RestoreTypeNext, PickedInvNext,
       WaitingInvNext, PTL DEF RestoreSpec

-----------------------------------------------------------------------------
(* Due dates and periods (Periods).                                        *)

(* Midnight in UTC is one or two o'clock in local time. *)
LEMMA Hours ==
    ASSUME NEW day
    PROVE  Offset(day) \in {1, 2} /\ (IsSummer(day) <=> Offset(day) = 2)
BY DEF Offset

(* A date that is written in UTC at the local hour of another day is at    *)
(* most one day early, and exact unless it is summer there and not here.   *)
LEMMA Written ==
    ASSUME NEW from \in Int, NEW day \in Int
    PROVE  LET d == ToISO(Offset(from), day)
           IN  /\ d \in {day - 1, day}
               /\ IsSummer(from) \/ ~IsSummer(day) => d = day
               /\ d = day - 1 => IsSummer(day) /\ ~IsSummer(from)
BY Hours DEF ToISO

LEMMA WrittenAtOnce ==
    ASSUME NEW day \in Int PROVE ToISO(Offset(day), day) = day
BY Written

-----------------------------------------------------------------------------
(* What the periods are. *)

DatesInv ==
    /\ billDates.date \in Int /\ billDates.terms \in Nat
    /\ billDates.due = IF billDates = [date |-> 0, terms |-> 0, due |-> 0]
                       THEN 0
                       ELSE ToISO(Offset(billDates.date),
                                  billDates.date + billDates.terms)

PresetsInv ==
    /\ fiscalStart \in FiscalStarts
    /\ periods = [p \in 0..4 |-> periods[p]]
    /\ \A q \in Quarters :
          periods[q] \in {Unset, QuarterOf(fiscalStart, q)}
    /\ periods[4] \in {Unset, YearOfPreset(fiscalStart)}

LEMMA DatesInvInit == PeriodsInit => DatesInv
BY DEF PeriodsInit, DatesInv

LEMMA DatesInvNext == DatesInv /\ [PeriodsNext]_periodVars => DatesInv'
<1> SUFFICES ASSUME DatesInv, [PeriodsNext]_periodVars PROVE DatesInv'
    OBVIOUS
<1>1. CASE UNCHANGED billDates
    BY <1>1 DEF DatesInv
<1>2. ASSUME NEW date \in InvoiceDates, NEW terms \in PaymentTerms,
             UpdateInvoiceDueDate(date, terms)
      PROVE  DatesInv'
    <2>1. date \in Int /\ terms \in Nat
        BY PeriodsAssumption
    <2> DEFINE due == ToISO(Offset(date), date + terms)
    <2>2. billDates' = [date |-> date, terms |-> terms, due |-> due]
        BY <1>2 DEF UpdateInvoiceDueDate
    <2>3. ASSUME date = 0, terms = 0 PROVE due = 0
        BY <2>1, <2>3, WrittenAtOnce
    <2> HIDE DEF due
    <2>4. billDates'.date = date /\ billDates'.terms = terms /\ billDates'.due = due
        BY <2>2
    <2>5. billDates' = [date |-> 0, terms |-> 0, due |-> 0]
              => date = 0 /\ terms = 0
        BY <2>4
    <2> QED
        BY <2>1, <2>3, <2>4, <2>5 DEF DatesInv, due
<1>3. CASE PresetNext
    BY <1>1, <1>3 DEF PresetNext, SetPreset
<1> QED
    BY <1>1, <1>2, <1>3 DEF PeriodsNext, DueDateNext, periodVars

(* An invoice is never due after the last day of payment, nor more than a  *)
(* day before it (app.js:501-506).                                         *)
THEOREM DueDatesAreNear == PeriodsSpec => []DueDateNear
<1>1. DatesInv => DueDateNear
    <2> SUFFICES ASSUME DatesInv PROVE DueDateNear
        OBVIOUS
    <2>1. CASE billDates = [date |-> 0, terms |-> 0, due |-> 0]
        BY <2>1 DEF DueDateNear
    <2>2. CASE billDates # [date |-> 0, terms |-> 0, due |-> 0]
        <3> DEFINE last == billDates.date + billDates.terms
        <3>1. billDates.due = ToISO(Offset(billDates.date), last)
            BY <2>2 DEF DatesInv
        <3>2. billDates.date \in Int /\ last \in Int
            BY DEF DatesInv
        <3> HIDE DEF last
        <3>3. /\ billDates.due \in {last - 1, last}
              /\ IsSummer(billDates.date) \/ ~IsSummer(last)
                    => billDates.due = last
            BY <3>1, <3>2, Written
        <3> QED
            BY <3>3 DEF DueDateNear, last
    <2> QED
        BY <2>1, <2>2
<1> QED
    BY <1>1, DatesInvInit, DatesInvNext, PTL DEF PeriodsSpec

-----------------------------------------------------------------------------
LEMMA PresetsInvInit == PeriodsInit => PresetsInv
BY DEF PeriodsInit, PresetsInv, Quarters

LEMMA PresetsInvNext == PresetsInv /\ [PeriodsNext]_periodVars => PresetsInv'
<1> SUFFICES ASSUME PresetsInv, [PeriodsNext]_periodVars PROVE PresetsInv'
    OBVIOUS
<1>1. CASE UNCHANGED <<fiscalStart, periods>>
    BY <1>1 DEF PresetsInv, QuarterOf, YearOfPreset
<1>2. CASE DueDateNext
    BY <1>1, <1>2 DEF DueDateNext, UpdateInvoiceDueDate
<1>3. ASSUME NEW preset \in 0..4, SetPreset(preset) PROVE PresetsInv'
    <2> DEFINE year == YearOfPreset(fiscalStart)
               quarter == QuarterOf(fiscalStart, preset)
    <2>1. /\ periods' = [periods EXCEPT ![preset] =
                            IF preset = 4 THEN year ELSE quarter]
          /\ fiscalStart' = fiscalStart
        BY <1>3 DEF SetPreset
    <2>2. /\ QuarterOf(fiscalStart, preset)' = quarter
          /\ YearOfPreset(fiscalStart)' = year
        BY <2>1 DEF QuarterOf, YearOfPreset
    <2>3. periods' = [p \in 0..4 |-> periods'[p]]
        BY <2>1 DEF PresetsInv
    <2>4. \A q \in Quarters :
              periods'[q] \in {Unset, QuarterOf(fiscalStart, q)}
        BY <2>1 DEF PresetsInv, Quarters
    <2>5. periods'[4] \in {Unset, YearOfPreset(fiscalStart)}
        BY <2>1 DEF PresetsInv
    <2> QED
        BY <2>1, <2>3, <2>4, <2>5 DEF PresetsInv
<1> QED
    BY <1>1, <1>2, <1>3 DEF PeriodsNext, PresetNext, periodVars

LEMMA StartsAreDays ==
    ASSUME NEW m \in FiscalStarts, NEW k \in 0..12
    PROVE  MonthStart[m + k] \in Int
<1>1. m + k \in 0..LastMonthStart
    BY PeriodsAssumption
<1> QED
    BY <1>1, PeriodsAssumption

(* Both ends of a quarter. *)
LEMMA QuarterEnds ==
    ASSUME NEW m \in FiscalStarts, NEW q \in Quarters
    PROVE  LET first == MonthStart[m + 3 * q]
               next == MonthStart[m + 3 * q + 3]
               quarter == QuarterOf(m, q)
           IN  /\ first \in Int /\ next \in Int
               /\ quarter.start = ToISO(Offset(MonthStart[m]), first)
               /\ quarter.start \in {first - 1, first}
               /\ quarter.end = ToISO(Offset(MonthStart[m]), next - 1)
               /\ quarter.end \in {next - 2, next - 1}
               /\ quarter.set
<1> DEFINE first == MonthStart[m + 3 * q]
           next == MonthStart[m + 3 * q + 3]
<1>1. 3 * q \in 0..12 /\ 3 * q + 3 \in 0..12
    BY DEF Quarters
<1>2. m \in Int
    BY PeriodsAssumption
<1>3. m + 3 * q + 3 = m + (3 * q + 3)
    BY <1>1, <1>2
<1>4. first \in Int /\ next \in Int
    BY <1>1, <1>3, StartsAreDays
<1>5. m + 0 = m
    BY <1>2
<1>6. MonthStart[m] \in Int
    BY <1>5, StartsAreDays
<1>7. /\ QuarterOf(m, q).start = ToISO(Offset(MonthStart[m]), first)
      /\ QuarterOf(m, q).end = ToISO(Offset(MonthStart[m]), next - 1)
      /\ QuarterOf(m, q).set
    BY DEF QuarterOf
<1> HIDE DEF first, next
<1>8. ToISO(Offset(MonthStart[m]), first) \in {first - 1, first}
    BY <1>4, <1>6, Written
<1>9. /\ next - 1 \in Int
      /\ ToISO(Offset(MonthStart[m]), next - 1) \in {next - 1 - 1, next - 1}
    BY <1>4, <1>6, Written
<1> QED
    BY <1>4, <1>7, <1>8, <1>9 DEF first, next

(* A quarter is at most one day off and a year is exact (app.js:1335-1347).*)
THEOREM PresetsAreNear == PeriodsSpec => []PeriodsNear
<1>1. PresetsInv => PeriodsNear
    <2> SUFFICES ASSUME PresetsInv PROVE PeriodsNear
        OBVIOUS
    <2>1. ASSUME NEW q \in Quarters, periods[q].set
          PROVE  LET m == fiscalStart + 3 * q
                 IN  /\ periods[q].start \in {MonthStart[m] - 1, MonthStart[m]}
                     /\ periods[q].end \in {MonthStart[m + 3] - 2,
                                            MonthStart[m + 3] - 1}
        <3>1. periods[q] = QuarterOf(fiscalStart, q)
            BY <2>1 DEF PresetsInv, Unset
        <3> QED
            BY <3>1, QuarterEnds DEF PresetsInv
    <2>2. ASSUME periods[4].set
          PROVE  /\ periods[4].start = MonthStart[fiscalStart]
                 /\ periods[4].end = MonthStart[fiscalStart + 12] - 1
        <3>1. periods[4] = YearOfPreset(fiscalStart)
            BY <2>2 DEF PresetsInv, Unset
        <3>2. fiscalStart \in FiscalStarts /\ fiscalStart + 0 = fiscalStart
            BY PeriodsAssumption DEF PresetsInv
        <3>3. MonthStart[fiscalStart] \in Int
            BY <3>2, StartsAreDays
        <3> QED
            BY <3>1, <3>3, WrittenAtOnce DEF YearOfPreset
    <2> QED
        BY <2>1, <2>2 DEF PeriodsNear
<1> QED
    BY <1>1, PresetsInvInit, PresetsInvNext, PTL DEF PeriodsSpec

(* No day of the year is without a VAT report, unless summer time ends on  *)
(* the last day of a quarter (app.js:1323-1355).                           *)
THEOREM QuartersCoverTheYear == PeriodsSpec => []NoDayLeftOut
<1>1. PresetsInv => NoDayLeftOut
    <2> SUFFICES ASSUME PresetsInv PROVE NoDayLeftOut
        OBVIOUS
    <2> DEFINE StartOf(q) == MonthStart[fiscalStart + 3 * q]
               Hour == Offset(MonthStart[fiscalStart])
    <2>1. fiscalStart \in FiscalStarts /\ fiscalStart \in Int
        BY PeriodsAssumption DEF PresetsInv
    <2>2. /\ \A q \in Quarters : fiscalStart + 3 * q + 3 = fiscalStart + 3 * (q + 1)
          /\ fiscalStart + 3 * 0 = fiscalStart
        BY <2>1 DEF Quarters
    <2>3. ASSUME NEW q \in Quarters, periods[q].set
          PROVE  /\ StartOf(q) \in Int /\ StartOf(q + 1) \in Int
                 /\ periods[q].start = ToISO(Hour, StartOf(q))
                 /\ periods[q].end = ToISO(Hour, StartOf(q + 1) - 1)
        <3>1. periods[q] = QuarterOf(fiscalStart, q)
            BY <2>3 DEF PresetsInv, Unset
        <3> QED
            BY <2>1, <2>2, <3>1, QuarterEnds
    <2>4. MonthStart[fiscalStart] \in Int
        <3>1. fiscalStart + 0 = fiscalStart
            BY <2>1
        <3> QED
            BY <2>1, <3>1, StartsAreDays
    <2>5. periods[0].set => periods[0].start = StartOf(0)
        BY <2>2, <2>3, <2>4, WrittenAtOnce DEF Quarters
    <2>6. ASSUME NEW q \in 1..3, periods[q - 1].set, periods[q].set,
                 IsSummer(StartOf(q) - 1) => IsSummer(StartOf(q))
          PROVE  periods[q].start <= periods[q - 1].end + 1
        <3>1. /\ q \in Quarters /\ q - 1 \in Quarters /\ q - 1 + 1 = q
            BY DEF Quarters
        <3>2. /\ StartOf(q) \in Int
              /\ periods[q].start = ToISO(Hour, StartOf(q))
              /\ periods[q - 1].end = ToISO(Hour, StartOf(q) - 1)
            BY <2>3, <2>6, <3>1
        <3> DEFINE s == StartOf(q)
                   d == MonthStart[fiscalStart]
        <3> HIDE DEF s
        <3>3. /\ ToISO(Offset(d), s) <= s
              /\ IsSummer(s) /\ ~IsSummer(d) => ToISO(Offset(d), s) = s - 1
            BY <2>4, <3>2, Hours DEF ToISO, s
        <3>4. /\ ToISO(Offset(d), s - 1) >= s - 2
              /\ IsSummer(d) \/ ~IsSummer(s - 1)
                    => ToISO(Offset(d), s - 1) = s - 1
            BY <2>4, <3>2, Hours DEF ToISO, s
        <3>5. IsSummer(s - 1) => IsSummer(s)
            BY <2>6 DEF s
        <3>6. /\ ToISO(Offset(d), s) \in Int
              /\ ToISO(Offset(d), s - 1) \in Int
            BY <3>2 DEF ToISO, s
        <3>7. ToISO(Offset(d), s) <= ToISO(Offset(d), s - 1) + 1
            BY <3>2, <3>3, <3>4, <3>5, <3>6 DEF s
        <3> QED
            BY <3>2, <3>7 DEF s
    <2>7. ASSUME periods[3].set, IsSummer(StartOf(4) - 1) => IsSummer(StartOf(0))
          PROVE  periods[3].end = StartOf(4) - 1
        <3>1. /\ 3 \in Quarters /\ 3 + 1 = 4
            BY DEF Quarters
        <3>2. /\ StartOf(4) \in Int
              /\ periods[3].end = ToISO(Hour, StartOf(4) - 1)
            BY <2>3, <2>7, <3>1
        <3>3. StartOf(0) = MonthStart[fiscalStart]
            BY <2>2
        <3> QED
            BY <2>4, <2>7, <3>2, <3>3, Written
    <2> QED
        BY <2>5, <2>6, <2>7 DEF NoDayLeftOut
<1> QED
    BY <1>1, PresetsInvInit, PresetsInvNext, PTL DEF PeriodsSpec

(* Every date the page moves is near (app.js:501-506, 1323-1355).          *)
THEOREM MovedDatesAreNear == PeriodsSpec => []DatesNear
<1>1. DueDateNear /\ NoDayLeftOut /\ PeriodsNear => DatesNear
    BY DEF DatesNear
<1> QED
    BY <1>1, DueDatesAreNear, QuartersCoverTheYear, PresetsAreNear, PTL

-----------------------------------------------------------------------------
(* MCPage checks the modules of the page in one run: its steps are those   *)
(* of one of them and leave the variables of the others alone, so that it  *)
(* implements each, whatever that one says of the code.  What is proved of *)
(* each module then holds of MCPage.  Only the shell has steps of two      *)
(* modules, its own and those of the palette over it.                      *)

LEMMA PageStep ==
    ASSUME [PageNext]_pageVars
    PROVE  /\ [LedgerNext]_ledgerVars /\ [ReportNext]_reportVars
           /\ [SieNext]_sieVars /\ [SettingsNext]_settingsVars
           /\ [RestoreNext]_restoreVars
           /\ [ToastNext]_toastVars /\ [ConfirmNext]_confirmVars
           /\ [InlineNext]_inlineVars /\ [PrintNext]_printVars
           /\ [PeriodsNext]_periodVars
           /\ [AmountsNext]_<<formVars, billVars>>
<1>1. CASE UNCHANGED pageVars
    BY <1>1 DEF pageVars
<1>2. CASE PageNext
    BY <1>2 DEF PageNext, KeepLedger, KeepReport, KeepSie, KeepSettings,
                KeepRestore, KeepWidgets, KeepFigures, SieNext, PeriodsNext,
                AmountsNext
<1> QED
    BY <1>1, <1>2

LEMMA PageImplementsItsParts ==
    PageSpec => /\ LedgerSpec /\ ReportSpec /\ SieSpec /\ SettingsSpec
                /\ RestoreSpec /\ ToastSpec /\ ConfirmSpec /\ InlineSpec
                /\ PrintSpec /\ PeriodsSpec /\ AmountsSpec
<1>1. PageInit => /\ LedgerInit /\ ReportInit /\ SieInit /\ SettingsInit
                  /\ RestoreInit /\ ToastInit /\ ConfirmInit /\ InlineInit
                  /\ PrintInit /\ PeriodsInit /\ AmountsInit
    BY DEF PageInit
<1> QED
    BY <1>1, PageStep, PTL
    DEF PageSpec, LedgerSpec, ReportSpec, SieSpec, SettingsSpec, RestoreSpec,
        ToastSpec, ConfirmSpec, InlineSpec, PrintSpec, PeriodsSpec, AmountsSpec

(* The palette is not opened where the page is about the shell alone.      *)
PageFrameInv ==
    /\ ShellInv /\ ListInv /\ PaletteInv
    /\ part = "shell" => ~isOpen

LEMMA PageFrameInvNext == PageFrameInv /\ [PageNext]_pageVars => PageFrameInv'
<1> SUFFICES ASSUME PageFrameInv, [PageNext]_pageVars PROVE PageFrameInv'
    OBVIOUS
<1>1. CASE UNCHANGED <<part, paletteVars>>
    <2>1. /\ UNCHANGED paletteVars /\ UNCHANGED shellVars
          /\ UNCHANGED <<part, isOpen>>
        BY <1>1 DEF paletteVars
    <2> QED
        BY <2>1, ShellInvNext, ListInvNext, PaletteInvNext DEF PageFrameInv
<1>2. CASE part' = part /\ part = "palette" /\ PaletteNext
    BY <1>2, PaletteOverShell, ListInvNext, PaletteInvNext DEF PageFrameInv
<1>3. CASE part' = part /\ part = "shell" /\ ShellNext /\ KeepList
    <2>1. ShellInv'
        BY <1>3, ShellInvNext DEF PageFrameInv
    <2>2. UNCHANGED <<isOpen, listVars, focusVars, ranVars>>
        BY <1>3 DEF KeepList
    <2>3. ListInv'
        BY <2>2 DEF PageFrameInv, ListInv, PaletteTypeOK, HighlightedIsRun,
                    listVars, focusVars, ranVars
    <2>4. PaletteInv'
        BY <1>3, <2>2 DEF PageFrameInv, PaletteInv, ClosedRunsNothing,
                          NoPaletteOverEula, focusVars, ranVars
    <2> QED
        BY <1>3, <2>1, <2>2, <2>3, <2>4 DEF PageFrameInv
<1> QED
    BY <1>1, <1>2, <1>3 DEF PageNext, KeepPalette, pageVars

(* Every part of the page keeps to its types. *)
THEOREM PageKeepsItsTypes == PageSpec => []PageTypeOK
<1>1. /\ LedgerTyped => LedgerTypeOK
      /\ SieTyped => SieTypeOK
      /\ RestoreTyped => RestoreTypeOK
      /\ PageFrameInv => ShellTypeOK /\ PaletteTypeOK
    <2>1. LedgerTyped => LedgerTypeOK
        BY DEF LedgerTyped, LedgerTypeOK, BooksInv, OpInv, Versions, Fetches, Ops
    <2>2. SieTyped => SieTypeOK
        BY DEF SieTyped, SieTypeOK, BusyInv, Forms, SieRequests, Closings
    <2> QED
        BY <2>1, <2>2 DEF RestoreTyped, PageFrameInv, ShellInv, ListInv
<1>2. /\ LedgerTypeOK /\ ReportTypeOK /\ SieTypeOK /\ SettingsTypeOK
      /\ RestoreTypeOK /\ WidgetsTypeOK /\ ShellTypeOK /\ PaletteTypeOK
      => PageTypeOK
    BY DEF PageTypeOK
<1>3. PageInit => PageFrameInv
    BY ShellInvInit, ListInvInit
    DEF PageInit, PaletteInit, PageFrameInv, PaletteInv, ClosedRunsNothing,
        NoPaletteOverEula
<1> QED
    BY <1>1, <1>2, <1>3, PageImplementsItsParts, PageFrameInvNext,
       LedgerTypeInit, LedgerTypeNext, ReportTypeInit, ReportTypeNext,
       SieTypeInit, SieTypeNext, SettingsTypeInit, SettingsTypeNext,
       RestoreTypeInit, RestoreTypeNext, WidgetsTyped, PTL
    DEF PageSpec, LedgerSpec, ReportSpec, SieSpec, SettingsSpec, RestoreSpec

(* The frame of the page in every mixture of its own steps and those of    *)
(* the palette.                                                            *)
THEOREM PageFrameInOrder == PageSpec => [](ShellInOrder /\ PaletteInOrder)
<1>1. PageInit => PageFrameInv
    BY ShellInvInit, ListInvInit
    DEF PageInit, PaletteInit, PageFrameInv, PaletteInv, ClosedRunsNothing,
        NoPaletteOverEula
<1>2. PageFrameInv => ShellInOrder /\ PaletteInOrder
    BY DEF PageFrameInv, ShellInv, EulaInv, StopInv, ShellInOrder, ListInv,
           PaletteInv, PaletteInOrder
<1> QED
    BY <1>1, <1>2, PageFrameInvNext, PTL DEF PageSpec
=============================================================================
