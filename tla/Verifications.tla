--------------------------- MODULE Verifications ---------------------------
(***************************************************************************)
(* The verification series of a LocalLedger workspace: drafts, storno,     *)
(* voiding, period and year locks, gap filling and the WORM seal           *)
(* (internal/ledger: verification.go, storno.go, locks.go, worm.go,        *)
(* maintenance.go, and the triggers of init.go).                           *)
(*                                                                         *)
(* Every transaction starts with BEGIN IMMEDIATE, so two of them never     *)
(* overlap and each handler that does all its reads and writes inside one  *)
(* transaction is one action here.  The goroutine PostVerification leaves  *)
(* behind runs later, in steps of its own.                                 *)
(*                                                                         *)
(* A verification's rows are abstracted to the balance they leave on one   *)
(* account that the reader picks; 0 stands for "no rows" (a gap filler or  *)
(* a voided draft).  SHA-256 is taken to be collision free, so a hash is   *)
(* identified with all that went into the chain up to it.                  *)
(***************************************************************************)
EXTENDS Integers, FiniteSets

CONSTANTS
    LastMonth,      \* months are numbered 1..LastMonth
    YearOf,         \* YearOf[m] is the fiscal year month m falls in
    InitialYears,   \* fiscal years that have a row when the workspace opens
    MonthAt,        \* MonthAt[t] is the month the clock shows at time t
    MaxClock,       \* bound: the clock stops here
    Day,            \* 24 hours, in ticks of the clock
    UtcOffset,      \* how far local time is ahead of UTC, in ticks
    Amounts,        \* balances a posted verification may leave
    Attachments,    \* attachment contents, named by their SHA-256
    NoAttachment,   \* stands for attachment_hash NULL
    MaxId,          \* bound: the highest number a posting may take
    MaxGaps,        \* fillSequenceGapsTx gives up on more holes than this
    InitialIds,     \* drafts found in the workspace when it opens
    LastInitialId   \* sqlite_sequence when the workspace opens

Months == 1..LastMonth
Years == {YearOf[m] : m \in Months}
Genesis == [n \in {} |-> n]             \* GenesisHash: nothing chained yet

ASSUME CalendarAssumption ==
    /\ LastMonth \in Nat \ {0}
    /\ YearOf \in [Months -> Nat]
    /\ InitialYears \subseteq Years
    /\ MaxClock \in Nat
    /\ MonthAt \in [0..MaxClock -> Months]
    /\ Day \in Nat
    /\ UtcOffset \in Int

ASSUME DataAssumption ==
    /\ Amounts \subseteq Int \ {0}
    /\ NoAttachment \notin Attachments
    /\ MaxId \in Nat
    /\ MaxGaps \in Nat
    /\ InitialIds \subseteq 1..LastInitialId
    /\ LastInitialId \in Nat
    /\ LastInitialId = 0 \/ LastInitialId \in InitialIds

(* Holes in a series come from workspaces written by other versions.  The   *)
(* drafts around them carry one of the amounts and were booked at time 0.   *)

VARIABLES
    ver,            \* table verifications with its rows; DOMAIN ver is the ids
    seq,            \* sqlite_sequence of the AUTOINCREMENT id
    hash,           \* column hash; DOMAIN hash is the sealed ids
    locks,          \* table period_locks: the locked months
    fiscalYears,    \* table fiscal_years: "absent", "open" or "locked"
    files,          \* the files in the attachments directory
    clock,          \* wall clock
    autoSeal        \* the stages at which some auto-seal goroutine is

vars == <<ver, seq, hash, locks, fiscalYears, files, clock, autoSeal>>

-----------------------------------------------------------------------------
(* The data.                                                               *)

Verification ==
    [month   : Months,
     kind    : {"NORMAL", "STORNO", "MOMSOMFORING"},    \* column type
     text    : {"posted", "voided", "gap"},
     att     : Attachments \cup {NoAttachment},
     amt     : Int,
     ref     : Nat,             \* storno_ref_id, 0 for NULL
     created : 0..MaxClock]     \* created_at, local time

Today == MonthAt[clock]

NewVerification(m, kind, text, att, amt, ref) ==
    [month |-> m, kind |-> kind, text |-> text, att |-> att, amt |-> amt,
     ref |-> ref, created |-> clock]

(* INSERT without an id: AUTOINCREMENT takes the number after seq. *)
WithNew(v) == [i \in DOMAIN ver \cup {seq + 1} |->
                  IF i \in DOMAIN ver THEN ver[i] ELSE v]

(* Mutant of PostingOpen: the period locks are not looked at. *)
PostingOpenYearOnly(m, lockedMonths, years) == years[YearOf[m]] = "open"

(* The fiscal year and period checks that guard every posting. *)
PostingOpen(m, lockedMonths, years) ==
    /\ years[YearOf[m]] = "open"
    /\ m \notin lockedMonths

Sealed(i) == i \in DOMAIN hash

OlderThan24h(v) == v.created + Day < clock

(* The goroutine compares created_at, written in local time, with          *)
(* datetime('now', '-24 hours'), which is UTC.                             *)
LooksOlderThan24h(v) == v.created + Day + UtcOffset < clock

-----------------------------------------------------------------------------
(* fillSequenceGapsTx.                                                     *)

(* Mutant of Gaps: the loop starts at 0. *)
GapsFromZero == {i \in 0..seq : i \notin DOMAIN ver /\ \E k \in DOMAIN ver : i < k}

Gaps == {i \in 1..seq : i \notin DOMAIN ver /\ \E k \in DOMAIN ver : i < k}

CanFillGaps(lockedMonths, years) ==
    \/ Gaps = {}
    \/ /\ Cardinality(Gaps) <= MaxGaps
       /\ PostingOpen(Today, lockedMonths, years)

(* Mutant of Filled: the gaps are left. *)
NotFilled == ver

Filled == [i \in DOMAIN ver \cup Gaps |->
             IF i \in DOMAIN ver THEN ver[i]
             ELSE NewVerification(Today, "NORMAL", "gap", NoAttachment, 0, 0)]

-----------------------------------------------------------------------------
(* sealVerificationsTx.                                                    *)

(* What the hash of one verification covers; type and storno_ref_id are not in it. *)
Payload(v) == [month |-> v.month, text |-> v.text, att |-> v.att, amt |-> v.amt]

(* Mutant of Batch: the first young draft is sealed before the loop stops. *)
BatchOneTooMany(series, onlyOlderThan24h) ==
    LET drafts == DOMAIN series \ DOMAIN hash
    IN  IF onlyOlderThan24h
        THEN {i \in drafts : \A k \in drafts : k < i => OlderThan24h(series[k])}
        ELSE drafts

(* The numbers to seal: every draft, or the leading drafts older than 24h. *)
Batch(series, onlyOlderThan24h) ==
    LET drafts == DOMAIN series \ DOMAIN hash
    IN  IF onlyOlderThan24h
        THEN {i \in drafts : \A k \in drafts : k <= i => OlderThan24h(series[k])}
        ELSE drafts

(* The hash of the sealed verification with the highest number. *)
PreviousHash ==
    IF DOMAIN hash = {} THEN Genesis
    ELSE hash[CHOOSE i \in DOMAIN hash : \A k \in DOMAIN hash : k <= i]

(* prev chained with the payloads of the given numbers. *)
Chain(prev, series, ids) ==
    [i \in DOMAIN prev \cup ids |->
        IF i \in DOMAIN prev THEN prev[i] ELSE Payload(series[i])]

SealedHashes(series, batch) ==
    [i \in DOMAIN hash \cup batch |->
        IF i \in DOMAIN hash THEN hash[i]
        ELSE Chain(PreviousHash, series, {k \in batch : k <= i})]

SealVerificationsTx(onlyOlderThan24h, lockedMonths, years) ==
    /\ CanFillGaps(lockedMonths, years)
    /\ ver' = Filled
    /\ hash' = SealedHashes(Filled, Batch(Filled, onlyOlderThan24h))

(* VerifyChain: every hash is the chain over the sealed verifications up   *)
(* to it, and the attachments of sealed verifications are on disk.         *)
VerifyChain ==
    \A i \in DOMAIN hash :
        /\ hash[i] = Chain(Genesis, ver, {k \in DOMAIN hash : k <= i})
        /\ ver[i].att # NoAttachment => ver[i].att \in files

-----------------------------------------------------------------------------
(* The handlers.                                                           *)

(* POST /api/verifications.  The attachment is written before the checks,  *)
(* unless a file with that hash is there already.                          *)
PostVerification(m, amt, att) ==
    /\ seq < MaxId
    /\ PostingOpen(m, locks, fiscalYears)
    /\ ver' = WithNew(NewVerification(m, "NORMAL", "posted", att, amt, 0))
    /\ seq' = seq + 1
    /\ files' = files \cup ({att} \cap Attachments)
    /\ autoSeal' = autoSeal \cup {"sleeping"}
    /\ UNCHANGED <<hash, locks, fiscalYears, clock>>

(* The same request turned down: an account is unknown, the year is missing *)
(* or locked, or the period is locked.  The transaction rolls back, but     *)
(* postVerificationTx returns no path, so the file just written stays.      *)
RejectVerification(m, accountsKnown, att) ==
    /\ ~accountsKnown \/ ~PostingOpen(m, locks, fiscalYears)
    /\ files' = files \cup ({att} \cap Attachments)
    /\ UNCHANGED <<ver, seq, hash, locks, fiscalYears, clock, autoSeal>>

(* Mutant of StornoVerification: an earlier reversal is not looked for. *)
StornoAgain(i) ==
    /\ seq < MaxId
    /\ ver[i].ref = 0
    /\ ver[i].amt # 0
    /\ PostingOpen(Today, locks, fiscalYears)
    /\ ver' = WithNew(NewVerification(Today, "STORNO", "posted", NoAttachment,
                                      -ver[i].amt, i))
    /\ seq' = seq + 1
    /\ UNCHANGED <<hash, locks, fiscalYears, files, clock, autoSeal>>

(* A reversal, dated today, of a verification that has rows, is no storno  *)
(* itself and has none yet.  Drafts can be reversed too.                   *)
StornoVerification(i) ==
    /\ seq < MaxId
    /\ \A k \in DOMAIN ver : ver[k].ref # i
    /\ ver[i].ref = 0
    /\ ver[i].amt # 0
    /\ PostingOpen(Today, locks, fiscalYears)
    /\ ver' = WithNew(NewVerification(Today, "STORNO", "posted", NoAttachment,
                                      -ver[i].amt, i))
    /\ seq' = seq + 1
    /\ UNCHANGED <<hash, locks, fiscalYears, files, clock, autoSeal>>

(* Mutant of VoidDraftVerification: the hash is not looked at. *)
VoidAnyVerification(i) ==
    /\ ver' = [ver EXCEPT ![i].text = "voided",
                          ![i].att  = NoAttachment,
                          ![i].amt  = 0]
    /\ UNCHANGED <<seq, hash, locks, fiscalYears, files, clock, autoSeal>>

(* A draft loses its rows and its attachment; the file is kept. *)
VoidDraftVerification(i) ==
    /\ ~Sealed(i)
    /\ ver' = [ver EXCEPT ![i].text = "voided",
                          ![i].att  = NoAttachment,
                          ![i].amt  = 0]
    /\ UNCHANGED <<seq, hash, locks, fiscalYears, files, clock, autoSeal>>

(* Mutant of LockPeriod: it seals the drafts older than 24 hours only. *)
LockPeriodSealsOld(m) ==
    /\ m \notin locks
    /\ locks' = locks \cup {m}
    /\ SealVerificationsTx(TRUE, locks', fiscalYears)
    /\ UNCHANGED <<seq, fiscalYears, files, clock, autoSeal>>

(* Lock one month and, in the same transaction, seal every draft. *)
LockPeriod(m) ==
    /\ m \notin locks
    /\ locks' = locks \cup {m}
    /\ SealVerificationsTx(FALSE, locks', fiscalYears)
    /\ UNCHANGED <<seq, fiscalYears, files, clock, autoSeal>>

LockFiscalYear(y) ==
    /\ fiscalYears[y] = "open"
    /\ fiscalYears' = [fiscalYears EXCEPT ![y] = "locked"]
    /\ SealVerificationsTx(FALSE, locks, fiscalYears')
    /\ UNCHANGED <<seq, locks, files, clock, autoSeal>>

(* POST /api/maintenance/seal and /api/maintenance/fill-gaps. *)
SealVerifications ==
    /\ SealVerificationsTx(TRUE, locks, fiscalYears)
    /\ UNCHANGED <<seq, locks, fiscalYears, files, clock, autoSeal>>

FillSequenceGaps ==
    /\ CanFillGaps(locks, fiscalYears)
    /\ ver' = Filled
    /\ UNCHANGED <<seq, hash, locks, fiscalYears, files, clock, autoSeal>>

-----------------------------------------------------------------------------
(* The goroutine a posting leaves behind: after 100 ms it looks for an old *)
(* draft, outside any transaction, and only if it saw one it seals.        *)

(* Mutant of AutoSealCheck: it looks at the last verification only. *)
AutoSealCheckLast ==
    /\ "sleeping" \in autoSeal
    /\ autoSeal' = (autoSeal \ {"sleeping"}) \cup
                   IF ~Sealed(seq) /\ LooksOlderThan24h(ver[seq]) THEN {"due"} ELSE {}
    /\ UNCHANGED <<ver, seq, hash, locks, fiscalYears, files, clock>>

AutoSealCheck ==
    /\ "sleeping" \in autoSeal
    /\ autoSeal' = (autoSeal \ {"sleeping"}) \cup
                   IF \E i \in DOMAIN ver : ~Sealed(i) /\ LooksOlderThan24h(ver[i])
                   THEN {"due"} ELSE {}
    /\ UNCHANGED <<ver, seq, hash, locks, fiscalYears, files, clock>>

AutoSealRun ==
    /\ "due" \in autoSeal
    /\ autoSeal' = autoSeal \ {"due"}
    /\ \/ SealVerificationsTx(TRUE, locks, fiscalYears)
       \/ ~CanFillGaps(locks, fiscalYears) /\ UNCHANGED <<ver, hash>>
    /\ UNCHANGED <<seq, locks, fiscalYears, files, clock>>

(* The process is killed and started again.  Committed rows survive, the   *)
(* goroutines do not; a posting cut off before its commit may have left    *)
(* its attachment.                                                         *)
Restart ==
    /\ autoSeal' = {}
    /\ \E att \in Attachments \cup {NoAttachment} :
           files' = files \cup ({att} \cap Attachments)
    /\ UNCHANGED <<ver, seq, hash, locks, fiscalYears, clock>>

Tick ==
    /\ clock < MaxClock
    /\ clock' = clock + 1
    /\ UNCHANGED <<ver, seq, hash, locks, fiscalYears, files, autoSeal>>

-----------------------------------------------------------------------------
Init ==
    /\ \E amt \in Amounts :
          ver = [i \in InitialIds |->
                    [month |-> MonthAt[0], kind |-> "NORMAL", text |-> "posted",
                     att |-> NoAttachment, amt |-> amt, ref |-> 0,
                     created |-> 0]]
    /\ seq = LastInitialId
    /\ hash = Genesis
    /\ locks = {}
    /\ fiscalYears = [y \in Years |-> IF y \in InitialYears THEN "open" ELSE "absent"]
    /\ files = {}
    /\ clock = 0
    /\ autoSeal = {}

(* What the process does while it is up. *)
Running ==
    \/ \E m \in Months, amt \in Amounts, att \in Attachments \cup {NoAttachment} :
          PostVerification(m, amt, att)
    \/ \E m \in Months, known \in BOOLEAN, att \in Attachments :
          RejectVerification(m, known, att)
    \/ \E i \in DOMAIN ver : StornoVerification(i) \/ VoidDraftVerification(i)
    \/ \E m \in Months : LockPeriod(m)
    \/ \E y \in Years : LockFiscalYear(y)
    \/ SealVerifications
    \/ FillSequenceGaps
    \/ AutoSealCheck
    \/ AutoSealRun
    \/ Tick

Next == Running \/ Restart

Spec == Init /\ [][Next]_vars

-----------------------------------------------------------------------------
(* Properties.                                                             *)

(* The state of the series is well typed: numbers run up to sqlite_sequence, *)
(* which is the highest of them, and only rows that exist carry a hash       *)
(* (verifications and verification_rows of init.go).                         *)
SeriesTypeOK ==
    /\ seq \in Nat
    /\ DOMAIN ver \subseteq 1..seq
    /\ seq = 0 \/ seq \in DOMAIN ver
    /\ ver \in [DOMAIN ver -> Verification]
    /\ DOMAIN hash \subseteq DOMAIN ver
    /\ hash = [i \in DOMAIN hash |-> hash[i]]

TypeOK ==
    /\ SeriesTypeOK
    /\ locks \subseteq Months
    /\ fiscalYears \in [Years -> {"absent", "open", "locked"}]
    /\ files \subseteq Attachments
    /\ clock \in 0..MaxClock
    /\ autoSeal \subseteq {"sleeping", "due"}

(* The sealed verifications are the first ones, without a hole: sealing    *)
(* fills the gaps first and stops at the first young draft, so nothing     *)
(* unsealed or missing is left below a sealed number (worm.go:111-113).    *)
SealedIsPrefix ==
    \A i \in DOMAIN hash : \A k \in 1..i : k \in DOMAIN hash

(* VerifyChain never reports a WORM violation, whatever handlers ran: the  *)
(* recomputed chain matches every stored hash and no attachment of a       *)
(* sealed verification is missing (worm.go:195-275).                       *)
ChainVerifies == VerifyChain

Closed(m) == m \in locks \/ fiscalYears[YearOf[m]] = "locked"

(* No draft is left in a locked month or a locked year: the lock and the   *)
(* seal of all drafts are one transaction, and nothing can be dated there  *)
(* afterwards, not even a gap filler or a storno (locks.go:51-55).         *)
ClosedIsSealed ==
    \A i \in DOMAIN ver : Closed(ver[i].month) => Sealed(i)

(* A storno that was not voided cancels a reversed verification that was   *)
(* not voided, and no verification is reversed twice or is the reversal of *)
(* a reversal (storno.go:25-47, idx_storno_ref_id).                        *)
StornoCancels ==
    \A s \in DOMAIN ver : ver[s].ref # 0 =>
        /\ ver[s].ref \in DOMAIN ver
        /\ ver[ver[s].ref].ref = 0
        /\ \A t \in DOMAIN ver : ver[t].ref = ver[s].ref => t = s
        /\ ver[s].text = "posted" /\ ver[ver[s].ref].text = "posted"
              => ver[s].amt + ver[ver[s].ref].amt = 0

(* What is booked in a closed month stays as it is: no later step adds a   *)
(* verification to it or changes one of its rows, whoever runs it and      *)
(* however drafts, locks and gaps came about (verification.go:169-191).    *)
DatedIn(m) == {i \in DOMAIN ver : ver[i].month = m}
ClosedMonthFrozen ==
    [][\A m \in Months : Closed(m) =>
          /\ DatedIn(m)' = DatedIn(m)
          /\ \A i \in DatedIn(m) : ver'[i] = ver[i]]_vars

(* A draft younger than 24 hours is only ever sealed by a step that locks  *)
(* a period or a year; the manual seal and the goroutine leave it alone,   *)
(* also when the UTC comparison of the goroutine fires (worm.go:98-115).   *)
YoungDraftsKept ==
    [][\A i \in DOMAIN ver \cap (DOMAIN hash' \ DOMAIN hash) :
          ~OlderThan24h(ver[i]) => locks' # locks \/ fiscalYears' # fiscalYears]_vars

(* While the process stays up, a goroutine that wakes while the first      *)
(* draft is old enough gets that draft sealed (verification.go:88-106).    *)
FirstDraft(i) == i \in DOMAIN ver \ DOMAIN hash /\ \A k \in 1..(i-1) : Sealed(k)
AutoSealCatchesUp ==
    \A i \in 1..MaxId :
        (autoSeal # {} /\ FirstDraft(i) /\ LooksOlderThan24h(ver[i])) ~>
            (i \in DOMAIN hash)

(* The sealed part of the series is the append-only log of WormLog: a      *)
(* sealed verification is never changed, unsealed or followed by a hole    *)
(* (worm.go:53-191, and VoidDraftVerification's check of the hash).        *)
SealedLog == [i \in DOMAIN hash |-> Payload(ver[i])]
SealedEntry == [month : Months, text : {"posted", "voided", "gap"},
                att : Attachments \cup {NoAttachment}, amt : Int]
Log == INSTANCE WormLog WITH log <- SealedLog, Entry <- SealedEntry
ImplementsWormLog == Log!Spec
=============================================================================
