---------------------------- MODULE VatTransfer ----------------------------
(***************************************************************************)
(* The VAT transfer (TransferVat of internal/ledger/vat.go) running beside *)
(* the verification series.  TransferVat checks the locks and reads the    *)
(* VAT balance with queries of their own, books and locks in a transaction *)
(* that comes later, and seals in a third one.  The other handlers run in  *)
(* between, and so do other transfers.                                     *)
(*                                                                         *)
(* amt of a verification is here its balance on the one VAT account that   *)
(* is followed; periods are whole months.                                  *)
(***************************************************************************)
EXTENDS Verifications, FiniteSetsExt

CONSTANT Requests       \* the requests that may be under way at one time

ASSUME RequestsAssumption == IsFiniteSet(Requests)

VARIABLE transfer       \* transfer[r] is how far request r has come

vatVars == <<vars, transfer>>

Period(from, to) == from..to

Periods == {p \in {Period(m, n) : m, n \in Months} :
               p # {} /\ \A m, n \in p : YearOf[m] = YearOf[n]}

EndOf(p) == CHOOSE m \in p : \A n \in p : n <= m

Idle == [pc |-> "idle", period |-> {}, balance |-> 0]

-----------------------------------------------------------------------------
(* The balance query: transfers and their reversals are left out.          *)
IsTransfer(i) == ver[i].kind = "MOMSOMFORING"

Counted(p) ==
    {i \in DOMAIN ver : /\ ver[i].month \in p
                        /\ ~IsTransfer(i)
                        /\ ver[i].ref # 0 => ~IsTransfer(ver[i].ref)}

Balance(p) == MapThenSumSet(LAMBDA i : ver[i].amt, Counted(p))

-----------------------------------------------------------------------------
(* The year must exist and be open and no month of the period be locked. *)
VatCheck(r, p) ==
    /\ transfer[r].pc = "idle"
    /\ \A m \in p : PostingOpen(m, locks, fiscalYears)
    /\ transfer' = [transfer EXCEPT ![r] = [Idle EXCEPT !.pc = "checked", !.period = p]]
    /\ UNCHANGED vars

(* The request ends if no account of the VAT has a balance; if another     *)
(* than the one that is followed has, the request goes on.                 *)
VatRead(r) ==
    /\ transfer[r].pc = "checked"
    /\ LET b == Balance(transfer[r].period)
       IN  \/ b = 0 /\ transfer' = [transfer EXCEPT ![r] = Idle]
           \/ transfer' = [transfer EXCEPT ![r] =
                               [@ EXCEPT !.pc = "read", !.balance = b]]
    /\ UNCHANGED vars

(* Mutant of VatPost: the loop that locks runs one month too far. *)
VatPostLocksNextMonth(r) ==
    LET p == transfer[r].period
    IN  /\ transfer[r].pc = "read"
        /\ seq < MaxId
        /\ PostingOpen(EndOf(p), locks, fiscalYears)
        /\ ver' = WithNew(NewVerification(EndOf(p), "MOMSOMFORING", "posted",
                                          NoAttachment, -transfer[r].balance, 0))
        /\ seq' = seq + 1
        /\ locks' = locks \cup p \cup {EndOf(p) + 1}
        /\ transfer' = [transfer EXCEPT ![r].pc = "posted"]
        /\ UNCHANGED <<hash, fiscalYears, files, clock, autoSeal>>

(* Mutant of VatPost: it trusts the check of the locks made before. *)
VatPostTrustsCheck(r) ==
    LET p == transfer[r].period
    IN  /\ transfer[r].pc = "read"
        /\ seq < MaxId
        /\ ver' = WithNew(NewVerification(EndOf(p), "MOMSOMFORING", "posted",
                                          NoAttachment, -transfer[r].balance, 0))
        /\ seq' = seq + 1
        /\ locks' = locks \cup p
        /\ transfer' = [transfer EXCEPT ![r].pc = "posted"]
        /\ UNCHANGED <<hash, fiscalYears, files, clock, autoSeal>>

(* The transaction: book against the balance read, at the end of the       *)
(* period, and lock the months of the period that are not locked already.  *)
(* postVerificationTx looks at the month of the booking only.              *)
VatPost(r) ==
    LET p == transfer[r].period
    IN  /\ transfer[r].pc = "read"
        /\ seq < MaxId
        /\ PostingOpen(EndOf(p), locks, fiscalYears)
        /\ ver' = WithNew(NewVerification(EndOf(p), "MOMSOMFORING", "posted",
                                          NoAttachment, -transfer[r].balance, 0))
        /\ seq' = seq + 1
        /\ locks' = locks \cup p
        /\ transfer' = [transfer EXCEPT ![r].pc = "posted"]
        /\ UNCHANGED <<hash, fiscalYears, files, clock, autoSeal>>

VatReject(r) ==
    /\ transfer[r].pc = "read"
    /\ ~PostingOpen(EndOf(transfer[r].period), locks, fiscalYears)
    /\ transfer' = [transfer EXCEPT ![r] = Idle]
    /\ UNCHANGED vars

(* Mutant of VatSeal: it seals the drafts older than 24 hours only. *)
VatSealOld(r) ==
    /\ transfer[r].pc = "posted"
    /\ transfer' = [transfer EXCEPT ![r] = Idle]
    /\ \/ SealVerificationsTx(TRUE, locks, fiscalYears)
       \/ ~CanFillGaps(locks, fiscalYears) /\ UNCHANGED <<ver, hash>>
    /\ UNCHANGED <<seq, locks, fiscalYears, files, clock, autoSeal>>

(* Seal every draft; a failure is logged and the request succeeds anyway.  *)
VatSeal(r) ==
    /\ transfer[r].pc = "posted"
    /\ transfer' = [transfer EXCEPT ![r] = Idle]
    /\ \/ SealVerificationsTx(FALSE, locks, fiscalYears)
       \/ ~CanFillGaps(locks, fiscalYears) /\ UNCHANGED <<ver, hash>>
    /\ UNCHANGED <<seq, locks, fiscalYears, files, clock, autoSeal>>

-----------------------------------------------------------------------------
VatInit ==
    /\ Init
    /\ transfer = [r \in Requests |-> Idle]

VatStep(r) == VatRead(r) \/ VatPost(r) \/ VatReject(r) \/ VatSeal(r)

VatRunning ==
    \/ Running /\ UNCHANGED transfer
    \/ \E r \in Requests : VatStep(r) \/ \E p \in Periods : VatCheck(r, p)

(* A restart forgets the requests under way. *)
VatRestart ==
    /\ Restart
    /\ transfer' = [r \in Requests |-> Idle]

VatSpec == VatInit /\ [][VatRunning \/ VatRestart]_vatVars

(* A request that is under way goes on until it returns, the Go scheduler  *)
(* runs a sleeping goroutine sooner or later (verification.go:89-105), and *)
(* time passes; nothing obliges anybody to send a request.                 *)
VatFairSpec ==
    /\ VatInit
    /\ [][VatRunning]_vatVars
    /\ \A r \in Requests : WF_vatVars(VatStep(r))
    /\ WF_vatVars(AutoSealCheck /\ UNCHANGED transfer)
    /\ WF_vatVars(AutoSealRun /\ UNCHANGED transfer)
    /\ WF_vatVars(Tick /\ UNCHANGED transfer)

-----------------------------------------------------------------------------
(* Every transfer is at a step of TransferVat, with a period of one year.  *)
VatTypeOK ==
    /\ TypeOK
    /\ transfer \in [Requests -> [pc : {"idle", "checked", "read", "posted"},
                                  period : Periods \cup {{}},
                                  balance : Int]]

(* No month is the end of two transfers: a transfer sent twice, or again   *)
(* after a crash, is booked once, because the lock that goes with the      *)
(* booking is looked at again inside the transaction (vat.go:283-338).     *)
TransferredOnce ==
    \A i, j \in DOMAIN ver :
        IsTransfer(i) /\ IsTransfer(j) /\ ver[i].month = ver[j].month => i = j

(* A month that is closed gets no further verification, also while         *)
(* transfers are half done and whatever they read before the lock          *)
(* (verification.go:169-191, called at vat.go:304).                        *)
ClosedMonthNotExtended ==
    [][\A m \in Months : Closed(m) => DatedIn(m)' = DatedIn(m)]_vatVars

(* As long as the process stays up and the series has no gap, drafts are   *)
(* found in a closed month only between the two transactions of a transfer *)
(* (vat.go:341-353).                                                       *)
DraftsOnlyDuringTransfer ==
    (\A r \in Requests : transfer[r].pc # "posted") => ClosedIsSealed

(* ... and each of them gets sealed.                                       *)
LockedDraftsGetSealed ==
    \A i \in 1..MaxId :
        (i \in DOMAIN ver /\ ver[i].month \in locks) ~> (i \in DOMAIN hash)

-----------------------------------------------------------------------------
(* What the documents say and the code does not do.                        *)

(* "Systemet nollstaller da automatiskt saldona [...] i en enda atomar     *)
(* transaktion" (docs/system_documentation.md:42): what a transfer books   *)
(* is the balance of the period when it is booked.  The balance was read   *)
(* before the transaction.                                                 *)
TransferZeroesBalance ==
    [][\A r \in Requests :
          transfer[r].pc = "read" /\ transfer'[r].pc = "posted"
              => transfer[r].balance = Balance(transfer[r].period)]_vatVars
=============================================================================
