---------------------------- MODULE SeriesProofs ----------------------------
(***************************************************************************)
(* Proofs about Verifications, for every calendar, every set of amounts    *)
(* and attachments and every bound; and about VatTransfer, which books     *)
(* into the same series, for every set of requests.                        *)
(*                                                                         *)
(* ClosedIsSealed and ChainVerifies are not inductive alone.  Sealing      *)
(* chains the new hashes to the hash of the highest sealed number, so the  *)
(* chain stays verifiable only because the sealed numbers are a prefix;    *)
(* they stay a prefix only because every number up to the last is present  *)
(* once the gaps are filled, which needs seq to be the highest number; and *)
(* the attachments of sealed verifications are on disk because those of    *)
(* the drafts already were.  IInv collects these facts; SInv is the part   *)
(* of it that VatTransfer keeps too.                                       *)
(***************************************************************************)
EXTENDS VatTransfer, SumTheorems

AttachmentsOnDisk ==
    \A i \in DOMAIN ver : ver[i].att # NoAttachment => ver[i].att \in files

SInv ==
    /\ TypeOK
    /\ SealedIsPrefix
    /\ ChainVerifies
    /\ AttachmentsOnDisk

(* What a step of the series keeps.  A step that closes a month and leaves *)
(* the drafts keeps SInv, so ClosedIsSealed stands apart.                  *)
SeriesKept == SInv' /\ (ClosedIsSealed => ClosedIsSealed')

IInv == SInv /\ ClosedIsSealed

-----------------------------------------------------------------------------
(* A set of positive numbers below a bound has a greatest element.         *)
LEMMA GreatestElement ==
    ASSUME NEW n \in Nat, NEW S, S \subseteq 1..n, S # {}
    PROVE  \E m \in S : \A k \in S : k <= m
<1> DEFINE Above == {b \in Nat : \A k \in S : k <= b}
<1>1. n \in Above
    OBVIOUS
<1>2. PICK m \in Above : \A b \in Above : ~ (<<b, m>> \in OpToRel(<, Nat))
    BY <1>1, NatLessThanWellFounded, WFMin, Above \subseteq Nat, Above # {}
<1>3. m \in Nat /\ \A b \in Above : ~ (b < m)
    BY <1>2 DEF OpToRel
<1>4. m \in S
    <2>1. SUFFICES ASSUME m \notin S PROVE FALSE
        OBVIOUS
    <2>2. \A k \in S : k < m
        BY <2>1, <1>3, S \subseteq 1..n
    <2>3. m # 0
        <3>1. PICK k \in S : TRUE
            BY S # {}
        <3>2. k \in Nat \ {0} /\ k < m
            BY <2>2, S \subseteq 1..n
        <3>3. QED
            BY <3>2, <1>3
    <2>4. m - 1 \in Above
        BY <2>2, <2>3, <1>3, S \subseteq 1..n
    <2>5. QED
        BY <2>4, <1>3, m - 1 < m
<1>5. QED
    BY <1>4

-----------------------------------------------------------------------------
(* fillSequenceGapsTx and sealVerificationsTx.                             *)

(* After the gaps are filled every number up to the last is present, the   *)
(* verifications already there are the same, and the fillers carry today's *)
(* month and no attachment.                                                *)
LEMMA FillingGaps ==
    ASSUME SeriesTypeOK, clock \in 0..MaxClock
    PROVE  /\ DOMAIN Filled = 1..seq
           /\ Filled \in [1..seq -> Verification]
           /\ \A i \in DOMAIN ver : Filled[i] = ver[i]
           /\ \A i \in (1..seq) \ DOMAIN ver :
                 /\ Filled[i].month = Today
                 /\ Filled[i].att = NoAttachment
                 /\ Filled[i].ref = 0
           /\ Gaps = {} => DOMAIN ver = 1..seq
<1> USE CalendarAssumption, DataAssumption
<1> DEFINE filler == NewVerification(Today, "NORMAL", "gap", NoAttachment, 0, 0)
<1>1. DOMAIN ver \cup Gaps = 1..seq
    BY DEF SeriesTypeOK, Gaps
<1>2. /\ filler \in Verification
      /\ filler.month = Today /\ filler.att = NoAttachment /\ filler.ref = 0
    BY DEF NewVerification, Verification, Today, Months
<1>3. Filled = [i \in 1..seq |-> IF i \in DOMAIN ver THEN ver[i] ELSE filler]
    BY <1>1 DEF Filled
<1>4. \A i \in DOMAIN ver : ver[i] \in Verification
    BY DEF SeriesTypeOK
<1> HIDE DEF filler
<1>5. QED
    BY <1>1, <1>2, <1>3, <1>4 DEF SeriesTypeOK

(* A chain depends only on the verifications it runs over.                 *)
LEMMA ChainOfSameRows ==
    ASSUME NEW s, NEW t, NEW ids, \A k \in ids : s[k] = t[k]
    PROVE  Chain(Genesis, s, ids) = Chain(Genesis, t, ids)
BY DEF Chain, Genesis

(* The hash of the highest sealed number is the chain over all of them.    *)
LEMMA PreviousHashIsWholeChain ==
    ASSUME SeriesTypeOK, ChainVerifies
    PROVE  PreviousHash = Chain(Genesis, ver, DOMAIN hash)
<1>1. CASE DOMAIN hash = {}
    BY <1>1 DEF PreviousHash, Chain, Genesis
<1>2. CASE DOMAIN hash # {}
    <2> DEFINE last == CHOOSE i \in DOMAIN hash : \A k \in DOMAIN hash : k <= i
    <2>1. \E i \in DOMAIN hash : \A k \in DOMAIN hash : k <= i
        BY <1>2, GreatestElement DEF SeriesTypeOK
    <2>2. last \in DOMAIN hash /\ \A k \in DOMAIN hash : k <= last
        BY <2>1
    <2>3. {k \in DOMAIN hash : k <= last} = DOMAIN hash
        BY <2>2
    <2>4. hash[last] = Chain(Genesis, ver, DOMAIN hash)
        BY <2>2, <2>3 DEF ChainVerifies, VerifyChain
    <2>5. QED
        BY <1>2, <2>4 DEF PreviousHash
<1>3. QED
    BY <1>1, <1>2

(* A seal leaves the verifications already there alone, seals a prefix of   *)
(* the filled series and keeps the chain verifiable; without the 24 hour    *)
(* condition nothing stays unsealed.                                        *)
LEMMA Sealing ==
    ASSUME SeriesTypeOK, SealedIsPrefix, ChainVerifies, AttachmentsOnDisk,
           clock \in 0..MaxClock, NEW b \in BOOLEAN, NEW L, NEW F,
           SealVerificationsTx(b, L, F), seq' = seq, files' = files
    PROVE  /\ SeriesTypeOK' /\ SealedIsPrefix' /\ ChainVerifies' /\ AttachmentsOnDisk'
           /\ DOMAIN ver' = 1..seq
           /\ \A i \in DOMAIN ver : ver'[i] = ver[i]
           /\ \A i \in (1..seq) \ DOMAIN ver : ver'[i].month = Today
           /\ DOMAIN hash \subseteq DOMAIN hash'
           /\ ~b => DOMAIN hash' = DOMAIN ver'
<1> USE CalendarAssumption, DataAssumption
<1> DEFINE batch == Batch(Filled, b)
<1>1. /\ DOMAIN Filled = 1..seq
      /\ Filled \in [1..seq -> Verification]
      /\ \A i \in DOMAIN ver : Filled[i] = ver[i]
      /\ \A i \in (1..seq) \ DOMAIN ver :
            Filled[i].month = Today /\ Filled[i].att = NoAttachment
    BY FillingGaps
<1>2. ver' = Filled /\ hash' = SealedHashes(Filled, batch)
    BY DEF SealVerificationsTx
<1>3. DOMAIN hash' = DOMAIN hash \cup batch
    BY <1>2 DEF SealedHashes
<1>4. batch \subseteq (1..seq) \ DOMAIN hash
    BY <1>1 DEF Batch
<1>5. ~b => batch = (1..seq) \ DOMAIN hash
    BY <1>1 DEF Batch
<1>6. \A i \in batch : \A k \in (1..seq) \ DOMAIN hash : k <= i => k \in batch
    BY <1>1 DEF Batch, SeriesTypeOK
<1>7. DOMAIN hash \subseteq 1..seq
    BY DEF SeriesTypeOK
<1> HIDE DEF batch
<1>8. SeriesTypeOK'
    <2>1. seq' \in Nat /\ (seq' = 0 \/ seq' \in DOMAIN ver')
        BY <1>1, <1>2 DEF SeriesTypeOK
    <2>2. DOMAIN ver' \subseteq 1..seq' /\ ver' \in [DOMAIN ver' -> Verification]
        BY <1>1, <1>2
    <2>3. DOMAIN hash' \subseteq DOMAIN ver'
        BY <1>1, <1>2, <1>3, <1>4, <1>7
    <2>4. hash' = [i \in DOMAIN hash' |-> hash'[i]]
        BY <1>2 DEF SealedHashes
    <2>5. QED
        BY <2>1, <2>2, <2>3, <2>4 DEF SeriesTypeOK
<1>9. SealedIsPrefix'
    <2>1. SUFFICES ASSUME NEW i \in DOMAIN hash', NEW k \in 1..i
                   PROVE  k \in DOMAIN hash'
        BY DEF SealedIsPrefix
    <2>2. CASE i \in DOMAIN hash
        BY <2>2, <1>3 DEF SealedIsPrefix
    <2>3. CASE i \in batch
        BY <2>3, <1>3, <1>4, <1>6 DEF SeriesTypeOK
    <2>4. QED
        BY <2>2, <2>3, <1>3
<1>10. AttachmentsOnDisk'
    BY <1>1, <1>2 DEF AttachmentsOnDisk
<1>11. ChainVerifies'
    <2>1. SUFFICES ASSUME NEW i \in DOMAIN hash'
                   PROVE  hash'[i] = Chain(Genesis, ver', {k \in DOMAIN hash' : k <= i})
        BY <1>3, <1>4, <1>7, <1>8, <1>10
        DEF ChainVerifies, VerifyChain, AttachmentsOnDisk, SeriesTypeOK
    <2>2. CASE i \in DOMAIN hash
        <3>1. hash'[i] = hash[i]
            BY <2>2, <1>2 DEF SealedHashes
        <3>2. hash[i] = Chain(Genesis, ver, {k \in DOMAIN hash : k <= i})
            BY <2>2 DEF ChainVerifies, VerifyChain
        <3>3. {k \in DOMAIN hash' : k <= i} = {k \in DOMAIN hash : k <= i}
            BY <2>2, <1>3, <1>4, <1>7 DEF SealedIsPrefix, SeriesTypeOK
        <3>4. \A k \in DOMAIN hash : ver'[k] = ver[k]
            BY <1>1, <1>2 DEF SeriesTypeOK
        <3> DEFINE upTo == {k \in DOMAIN hash : k <= i}
        <3>5. Chain(Genesis, ver', upTo) = Chain(Genesis, ver, upTo)
            BY <3>4, ChainOfSameRows
        <3>6. QED
            BY <3>1, <3>2, <3>3, <3>5
    <2>3. CASE i \in batch
        <3> DEFINE new == {k \in batch : k <= i}
        <3>1. hash'[i] = Chain(PreviousHash, Filled, new)
            BY <2>3, <1>2, <1>3, <1>4 DEF SealedHashes
        <3>2. PreviousHash = Chain(Genesis, ver, DOMAIN hash)
            BY PreviousHashIsWholeChain
        <3>3. {k \in DOMAIN hash' : k <= i} = DOMAIN hash \cup new
            BY <2>3, <1>3, <1>4, <1>7 DEF SealedIsPrefix, SeriesTypeOK
        <3>4. \A k \in DOMAIN hash : Filled[k] = ver[k]
            BY <1>1 DEF SeriesTypeOK
        <3> HIDE DEF new
        <3>5. QED
            BY <3>1, <3>2, <3>3, <3>4, <1>2 DEF Chain, Genesis
    <2>4. QED
        BY <2>2, <2>3, <1>3
<1>12. QED
    BY <1>1, <1>2, <1>3, <1>4, <1>5, <1>7, <1>8, <1>9, <1>10, <1>11

-----------------------------------------------------------------------------
(* The inductive invariant.                                                *)

(* A month that is open to posting is not closed. *)
LEMMA OpenIsNotClosed ==
    ASSUME NEW m, PostingOpen(m, locks, fiscalYears)
    PROVE  ~Closed(m)
BY DEF PostingOpen, Closed

(* A new verification that is not sealed, dated in an open month and with  *)
(* its attachment on disk, keeps the series.                               *)
LEMMA Booking ==
    ASSUME SInv, NEW v \in Verification, PostingOpen(v.month, locks, fiscalYears),
           ver' = WithNew(v), seq' = seq + 1,
           v.att # NoAttachment => v.att \in files',
           files \subseteq files', files' \subseteq Attachments,
           autoSeal' \subseteq {"sleeping", "due"},
           locks' \subseteq Months, UNCHANGED <<hash, fiscalYears, clock>>
    PROVE  SInv' /\ (ClosedIsSealed /\ locks' = locks => ClosedIsSealed')
<1>1. /\ DOMAIN ver' = DOMAIN ver \cup {seq + 1}
      /\ ver' \in [DOMAIN ver' -> Verification]
      /\ \A i \in DOMAIN ver : ver'[i] = ver[i]
      /\ seq + 1 \notin DOMAIN ver
      /\ ver'[seq + 1] = v
    BY DEF SInv, TypeOK, SeriesTypeOK, WithNew
<1>2. TypeOK'
    <2>1. SeriesTypeOK'
        BY <1>1 DEF SInv, TypeOK, SeriesTypeOK
    <2>2. QED
        BY <2>1 DEF SInv, TypeOK
<1>3. SealedIsPrefix'
    BY DEF SInv, SealedIsPrefix
<1>4. AttachmentsOnDisk'
    BY <1>1 DEF SInv, AttachmentsOnDisk
<1>5. ChainVerifies'
    <2>1. ASSUME NEW i \in DOMAIN hash
          PROVE  hash'[i] = Chain(Genesis, ver', {k \in DOMAIN hash' : k <= i})
        <3>1. \A k \in DOMAIN hash : ver'[k] = ver[k]
            BY <1>1 DEF SInv, TypeOK, SeriesTypeOK
        <3> DEFINE upTo == {k \in DOMAIN hash : k <= i}
        <3>2. Chain(Genesis, ver', upTo) = Chain(Genesis, ver, upTo)
            BY <3>1, ChainOfSameRows
        <3>3. QED
            BY <3>2 DEF SInv, ChainVerifies, VerifyChain
    <2>2. QED
        BY <1>1, <1>4, <2>1
        DEF SInv, TypeOK, SeriesTypeOK, ChainVerifies, VerifyChain, AttachmentsOnDisk
<1>6. ClosedIsSealed /\ locks' = locks => ClosedIsSealed'
    BY <1>1, OpenIsNotClosed DEF ClosedIsSealed, Closed, Sealed
<1>7. QED
    BY <1>2, <1>3, <1>4, <1>5, <1>6 DEF SInv

(* A seal of all drafts, with a lock added or not, leaves no draft.        *)
LEMMA LockAndSeal ==
    ASSUME SInv, SealVerificationsTx(FALSE, locks', fiscalYears'),
           locks' \subseteq Months,
           fiscalYears' \in [Years -> {"absent", "open", "locked"}],
           UNCHANGED <<seq, files, clock, autoSeal>>
    PROVE  SInv' /\ ClosedIsSealed'
<1>1. /\ SeriesTypeOK' /\ SealedIsPrefix' /\ ChainVerifies' /\ AttachmentsOnDisk'
      /\ DOMAIN hash' = DOMAIN ver'
    BY Sealing DEF SInv, TypeOK
<1>2. TypeOK' /\ ClosedIsSealed'
    BY <1>1 DEF SInv, TypeOK, ClosedIsSealed, Sealed
<1>3. QED
    BY <1>1, <1>2 DEF SInv

(* A seal without a lock: its gap fillers are dated in an open month, and  *)
(* it unseals nothing.                                                     *)
LEMMA SealOnly ==
    ASSUME SInv, NEW b \in BOOLEAN, SealVerificationsTx(b, locks, fiscalYears),
           UNCHANGED <<seq, locks, fiscalYears, files, clock>>,
           autoSeal' \subseteq {"sleeping", "due"}
    PROVE  SeriesKept
<1>1. /\ SeriesTypeOK' /\ SealedIsPrefix' /\ ChainVerifies' /\ AttachmentsOnDisk'
      /\ DOMAIN ver' = 1..seq
      /\ \A i \in DOMAIN ver : ver'[i] = ver[i]
      /\ \A i \in (1..seq) \ DOMAIN ver : ver'[i].month = Today
      /\ DOMAIN hash \subseteq DOMAIN hash'
    BY Sealing DEF SInv, TypeOK
<1>2. (1..seq) \ DOMAIN ver # {} => ~Closed(Today)
    <2>1. (1..seq) \ DOMAIN ver # {} => Gaps # {}
        BY FillingGaps DEF SInv, TypeOK
    <2>2. QED
        BY <2>1, OpenIsNotClosed DEF SealVerificationsTx, CanFillGaps
<1>3. ClosedIsSealed => ClosedIsSealed'
    BY <1>1, <1>2 DEF ClosedIsSealed, Closed, Sealed
<1>4. TypeOK'
    BY <1>1 DEF SInv, TypeOK
<1>5. QED
    BY <1>1, <1>3, <1>4 DEF SInv, SeriesKept

-----------------------------------------------------------------------------
(* What the handlers keep.                                                 *)

LEMMA InitIInv == Init => IInv
<1> SUFFICES ASSUME Init PROVE IInv
    OBVIOUS
<1> USE CalendarAssumption, DataAssumption DEF Init
<1>1. hash = Genesis /\ DOMAIN hash = {}
    BY DEF Genesis
<1>2. /\ DOMAIN ver = InitialIds
      /\ ver \in [InitialIds -> Verification]
      /\ \A i \in InitialIds : ver[i].att = NoAttachment
    BY DEF Verification, Months
<1>3. SeriesTypeOK
    BY <1>1, <1>2 DEF SeriesTypeOK
<1>4. TypeOK
    BY <1>3 DEF TypeOK
<1>5. SealedIsPrefix /\ ChainVerifies /\ AttachmentsOnDisk
    BY <1>1, <1>2 DEF SealedIsPrefix, ChainVerifies, VerifyChain, AttachmentsOnDisk
<1>6. ClosedIsSealed
    <2>1. SUFFICES ASSUME NEW i \in DOMAIN ver PROVE ~Closed(ver[i].month)
        BY DEF ClosedIsSealed
    <2>2. YearOf[ver[i].month] \in Years
        BY <1>2 DEF Verification, Years
    <2>3. QED
        BY <2>2 DEF Closed
<1>7. QED
    BY <1>4, <1>5, <1>6 DEF IInv, SInv

LEMMA PostVerificationKept ==
    ASSUME SInv, NEW m \in Months, NEW amt \in Amounts,
           NEW att \in Attachments \cup {NoAttachment}, PostVerification(m, amt, att)
    PROVE  SeriesKept
<1> DEFINE v == NewVerification(m, "NORMAL", "posted", att, amt, 0)
<1>1. v \in Verification /\ v.month = m /\ v.att = att
    BY DataAssumption DEF NewVerification, Verification, SInv, TypeOK
<1>2. files' \subseteq Attachments
    BY DEF PostVerification, SInv, TypeOK
<1> HIDE DEF v
<1>3. QED
    BY <1>1, <1>2, Booking DEF v, PostVerification, SInv, TypeOK, SeriesKept

LEMMA StornoVerificationKept ==
    ASSUME SInv, NEW i \in DOMAIN ver, StornoVerification(i)
    PROVE  SeriesKept
<1> DEFINE v == NewVerification(Today, "STORNO", "posted", NoAttachment, -ver[i].amt, i)
<1>1. ver[i].amt \in Int /\ i \in Nat
    BY DEF SInv, TypeOK, SeriesTypeOK, Verification
<1>2. v \in Verification /\ v.month = Today /\ v.att = NoAttachment
    BY <1>1, CalendarAssumption
    DEF NewVerification, Verification, SInv, TypeOK, Today, Months
<1> HIDE DEF v
<1>3. QED
    BY <1>2, Booking DEF v, StornoVerification, SInv, TypeOK, SeriesKept

(* Voiding touches one draft; a draft is in no chain and in no closed month. *)
LEMMA VoidDraftVerificationKept ==
    ASSUME SInv, NEW i \in DOMAIN ver, VoidDraftVerification(i)
    PROVE  SeriesKept
<1> DEFINE v == [ver[i] EXCEPT !.text = "voided", !.att = NoAttachment, !.amt = 0]
<1>1. /\ i \notin DOMAIN hash
      /\ UNCHANGED <<seq, hash, locks, fiscalYears, files, clock, autoSeal>>
    BY DEF VoidDraftVerification, Sealed
<1>2. ver' = [ver EXCEPT ![i] = v]
    BY DEF VoidDraftVerification
<1>3. ver \in [DOMAIN ver -> Verification]
    BY DEF SInv, TypeOK, SeriesTypeOK
<1>4. v \in Verification /\ v.month = ver[i].month /\ v.att = NoAttachment
    <2> DEFINE u == ver[i]
               w == [u EXCEPT !.text = "voided"]
               x == [w EXCEPT !.att = NoAttachment]
               y == [x EXCEPT !.amt = 0]
    <2>1. u \in Verification
        BY <1>3
    <2> HIDE DEF u
    <2>2. w \in Verification /\ w.month = u.month
        BY <2>1 DEF Verification
    <2> HIDE DEF w
    <2>3. x \in Verification /\ x.month = w.month /\ x.att = NoAttachment
        BY <2>2 DEF Verification
    <2> HIDE DEF x
    <2>4. y \in Verification /\ y.month = x.month /\ y.att = x.att
        BY <2>3 DEF Verification
    <2> HIDE DEF y
    <2>5. v = y
        BY DEF u, w, x, y
    <2>6. QED
        BY <2>2, <2>3, <2>4, <2>5 DEF u
<1> HIDE DEF v
<1>5. /\ DOMAIN ver' = DOMAIN ver
      /\ ver' \in [DOMAIN ver' -> Verification]
      /\ \A k \in DOMAIN ver : k # i => ver'[k] = ver[k]
      /\ ver'[i].month = ver[i].month /\ ver'[i].att = NoAttachment
    BY <1>2, <1>3, <1>4
<1>6. TypeOK'
    BY <1>1, <1>5 DEF SInv, TypeOK, SeriesTypeOK
<1>7. AttachmentsOnDisk'
    BY <1>1, <1>5 DEF SInv, AttachmentsOnDisk
<1>8. ChainVerifies'
    <2>1. \A k \in DOMAIN hash : ver'[k] = ver[k]
        BY <1>1, <1>5 DEF SInv, TypeOK, SeriesTypeOK
    <2>2. ASSUME NEW j \in DOMAIN hash
          PROVE  hash'[j] = Chain(Genesis, ver', {k \in DOMAIN hash' : k <= j})
        <3> DEFINE upTo == {k \in DOMAIN hash : k <= j}
        <3>1. Chain(Genesis, ver', upTo) = Chain(Genesis, ver, upTo)
            BY <2>1, ChainOfSameRows
        <3>2. hash[j] = Chain(Genesis, ver, upTo)
            BY DEF SInv, ChainVerifies, VerifyChain
        <3>3. QED
            BY <3>1, <3>2, <1>1
    <2>3. QED
        BY <1>1, <2>1, <2>2 DEF SInv, ChainVerifies, VerifyChain
<1>9. (ClosedIsSealed => ClosedIsSealed') /\ SealedIsPrefix'
    BY <1>1, <1>5 DEF SInv, ClosedIsSealed, SealedIsPrefix, Closed, Sealed
<1>10. QED
    BY <1>6, <1>7, <1>8, <1>9 DEF SInv, SeriesKept

(* Gap fillers alone: they are dated in an open month.                     *)
LEMMA FillSequenceGapsKept ==
    ASSUME SInv, CanFillGaps(locks, fiscalYears), ver' = Filled,
           UNCHANGED <<seq, hash, locks, fiscalYears, files, clock, autoSeal>>
    PROVE  SeriesKept
<1>1. /\ DOMAIN ver' = 1..seq
      /\ ver' \in [1..seq -> Verification]
      /\ \A i \in DOMAIN ver : ver'[i] = ver[i]
      /\ \A i \in (1..seq) \ DOMAIN ver :
            ver'[i].month = Today /\ ver'[i].att = NoAttachment
    BY FillingGaps DEF SInv, TypeOK
<1>2. DOMAIN ver \subseteq 1..seq /\ DOMAIN hash \subseteq DOMAIN ver /\ seq \in Nat
    BY DEF SInv, TypeOK, SeriesTypeOK
<1>3. TypeOK' /\ SealedIsPrefix'
    BY <1>1, <1>2 DEF SInv, TypeOK, SeriesTypeOK, SealedIsPrefix
<1>4. AttachmentsOnDisk'
    BY <1>1, <1>2 DEF SInv, AttachmentsOnDisk
<1>5. ChainVerifies'
    <2>1. ASSUME NEW j \in DOMAIN hash
          PROVE  hash'[j] = Chain(Genesis, ver', {k \in DOMAIN hash' : k <= j})
        <3> DEFINE upTo == {k \in DOMAIN hash : k <= j}
        <3>1. Chain(Genesis, ver', upTo) = Chain(Genesis, ver, upTo)
            BY <1>1, <1>2, ChainOfSameRows
        <3>2. hash[j] = Chain(Genesis, ver, upTo)
            BY DEF SInv, ChainVerifies, VerifyChain
        <3>3. QED
            BY <3>1, <3>2
    <2>2. QED
        BY <1>1, <1>2, <2>1 DEF SInv, ChainVerifies, VerifyChain
<1>6. (1..seq) \ DOMAIN ver # {} => ~Closed(Today)
    <2>1. (1..seq) \ DOMAIN ver # {} => Gaps # {}
        BY FillingGaps DEF SInv, TypeOK
    <2>2. QED
        BY <2>1, OpenIsNotClosed DEF CanFillGaps
<1>7. ClosedIsSealed => ClosedIsSealed'
    BY <1>1, <1>2, <1>6 DEF ClosedIsSealed, Closed, Sealed
<1>8. QED
    BY <1>3, <1>4, <1>5, <1>7 DEF SInv, SeriesKept

(* A step that leaves the rows, the hashes and the locks alone and only    *)
(* adds files.                                                             *)
LEMMA RowsUntouched ==
    ASSUME SInv, UNCHANGED <<ver, seq, hash, locks, fiscalYears>>,
           files \subseteq files', files' \subseteq Attachments,
           clock' \in 0..MaxClock, autoSeal' \subseteq {"sleeping", "due"}
    PROVE  SeriesKept
<1>1. /\ TypeOK' /\ SealedIsPrefix' /\ AttachmentsOnDisk'
      /\ ClosedIsSealed => ClosedIsSealed'
    BY DEF SInv, TypeOK, SeriesTypeOK, SealedIsPrefix, ClosedIsSealed, Closed, Sealed,
           AttachmentsOnDisk
<1>2. ChainVerifies'
    BY DEF SInv, ChainVerifies, VerifyChain
<1>3. QED
    BY <1>1, <1>2 DEF SInv, SeriesKept

LEMMA NextKept == ASSUME SInv, [Next]_vars PROVE SeriesKept
<1>1. ASSUME NEW m \in Months, NEW amt \in Amounts,
             NEW att \in Attachments \cup {NoAttachment}, PostVerification(m, amt, att)
      PROVE  SeriesKept
    BY <1>1, PostVerificationKept
<1>2. ASSUME NEW m \in Months, NEW known \in BOOLEAN, NEW att \in Attachments,
             RejectVerification(m, known, att)
      PROVE  SeriesKept
    BY <1>2, RowsUntouched DEF RejectVerification, SInv, TypeOK
<1>3. ASSUME NEW i \in DOMAIN ver, StornoVerification(i) PROVE SeriesKept
    BY <1>3, StornoVerificationKept
<1>4. ASSUME NEW i \in DOMAIN ver, VoidDraftVerification(i) PROVE SeriesKept
    BY <1>4, VoidDraftVerificationKept
<1>5. ASSUME NEW m \in Months, LockPeriod(m) PROVE SeriesKept
    <2>1. SealVerificationsTx(FALSE, locks', fiscalYears') /\ locks' \subseteq Months
        BY <1>5 DEF LockPeriod, SInv, TypeOK
    <2>2. fiscalYears' \in [Years -> {"absent", "open", "locked"}]
        BY <1>5 DEF LockPeriod, SInv, TypeOK
    <2>3. QED
        BY <1>5, <2>1, <2>2, LockAndSeal DEF LockPeriod, SeriesKept
<1>6. ASSUME NEW y \in Years, LockFiscalYear(y) PROVE SeriesKept
    <2>1. SealVerificationsTx(FALSE, locks', fiscalYears') /\ locks' \subseteq Months
        BY <1>6 DEF LockFiscalYear, SInv, TypeOK
    <2>2. fiscalYears' \in [Years -> {"absent", "open", "locked"}]
        BY <1>6 DEF LockFiscalYear, SInv, TypeOK
    <2>3. QED
        BY <1>6, <2>1, <2>2, LockAndSeal DEF LockFiscalYear, SeriesKept
<1>7. CASE SealVerifications
    BY <1>7, SealOnly DEF SealVerifications, SInv, TypeOK
<1>8. CASE FillSequenceGaps
    BY <1>8, FillSequenceGapsKept DEF FillSequenceGaps
<1>9. CASE AutoSealCheck
    BY <1>9, RowsUntouched DEF AutoSealCheck, SInv, TypeOK
<1>10. CASE AutoSealRun
    <2>1. autoSeal' \subseteq {"sleeping", "due"}
        BY <1>10 DEF AutoSealRun, SInv, TypeOK
    <2>2. CASE SealVerificationsTx(TRUE, locks, fiscalYears)
        BY <1>10, <2>1, <2>2, SealOnly DEF AutoSealRun
    <2>3. CASE UNCHANGED <<ver, hash>>
        BY <1>10, <2>1, <2>3, RowsUntouched DEF AutoSealRun, SInv, TypeOK
    <2>4. QED
        BY <1>10, <2>2, <2>3 DEF AutoSealRun
<1>11. CASE Tick
    BY <1>11, RowsUntouched, CalendarAssumption DEF Tick, SInv, TypeOK
<1>12. CASE Restart
    BY <1>12, RowsUntouched DEF Restart, SInv, TypeOK
<1>13. CASE UNCHANGED vars
    BY <1>13, RowsUntouched DEF vars, SInv, TypeOK
<1>14. QED
    BY <1>1, <1>2, <1>3, <1>4, <1>5, <1>6, <1>7, <1>8, <1>9, <1>10, <1>11, <1>12, <1>13
    DEF Next, Running

-----------------------------------------------------------------------------
(* What a step keeps.                                                      *)

(* Sealed verifications stay sealed and stay as they are; so does all that *)
(* is booked in a closed month, and nothing is added to it.                *)
SealedKept ==
    /\ DOMAIN hash \subseteq DOMAIN hash'
    /\ \A i \in DOMAIN hash : ver'[i] = ver[i]

Frozen ==
    \A m \in Months : Closed(m) =>
        /\ DatedIn(m)' = DatedIn(m)
        /\ \A i \in DatedIn(m) : ver'[i] = ver[i]

(* A step that only adds verifications, outside the closed months, and     *)
(* unseals nothing keeps both.                                             *)
LEMMA AddingKeeps ==
    ASSUME SInv, DOMAIN ver \subseteq DOMAIN ver',
           \A i \in DOMAIN ver : ver'[i] = ver[i],
           DOMAIN hash \subseteq DOMAIN hash',
           \A i \in DOMAIN ver' \ DOMAIN ver : ~Closed(ver'[i].month)
    PROVE  SealedKept /\ Frozen
<1>1. SealedKept
    BY DEF SealedKept, SInv, TypeOK, SeriesTypeOK
<1>2. Frozen
    BY DEF Frozen, DatedIn
<1>3. QED
    BY <1>1, <1>2

(* Filling the gaps is such a step: without gaps nothing is added, and with *)
(* gaps today is open, before the lock that may go with it as after it.    *)
LEMMA FillingKeeps ==
    ASSUME SInv, ver' = Filled, DOMAIN hash \subseteq DOMAIN hash',
           Gaps # {} => ~Closed(Today)
    PROVE  SealedKept /\ Frozen
<1>1. /\ DOMAIN ver' = 1..seq
      /\ \A i \in DOMAIN ver : ver'[i] = ver[i]
      /\ \A i \in (1..seq) \ DOMAIN ver : ver'[i].month = Today
      /\ Gaps = {} => DOMAIN ver = 1..seq
    BY FillingGaps DEF SInv, TypeOK
<1>2. DOMAIN ver \subseteq DOMAIN ver'
    BY <1>1 DEF SInv, TypeOK, SeriesTypeOK
<1>3. \A i \in DOMAIN ver' \ DOMAIN ver : ~Closed(ver'[i].month)
    BY <1>1
<1>4. QED
    BY <1>1, <1>2, <1>3, AddingKeeps

(* A seal that comes with more locks, or the same, keeps both.             *)
LEMMA SealingKeeps ==
    ASSUME SInv, NEW b, SealVerificationsTx(b, locks', fiscalYears'),
           locks \subseteq locks',
           \A y \in Years : fiscalYears'[y] = "open" => fiscalYears[y] = "open"
    PROVE  SealedKept /\ Frozen
<1>1. ver' = Filled /\ hash' = SealedHashes(Filled, Batch(Filled, b))
    BY DEF SealVerificationsTx
<1>2. DOMAIN hash \subseteq DOMAIN hash'
    BY <1>1 DEF SealedHashes
<1>3. YearOf[Today] \in Years
    BY CalendarAssumption DEF SInv, TypeOK, Today, Years
<1>4. Gaps # {} => ~Closed(Today)
    BY <1>3 DEF SealVerificationsTx, CanFillGaps, PostingOpen, Closed
<1>5. QED
    BY <1>1, <1>2, <1>4, FillingKeeps

LEMMA BookingKeeps ==
    ASSUME SInv, NEW v, PostingOpen(v.month, locks, fiscalYears),
           ver' = WithNew(v), hash' = hash
    PROVE  SealedKept /\ Frozen
<1>1. /\ DOMAIN ver' = DOMAIN ver \cup {seq + 1}
      /\ \A i \in DOMAIN ver : ver'[i] = ver[i]
      /\ seq + 1 \notin DOMAIN ver
      /\ ver'[seq + 1] = v
    BY DEF SInv, TypeOK, SeriesTypeOK, WithNew
<1>2. \A i \in DOMAIN ver' \ DOMAIN ver : ~Closed(ver'[i].month)
    BY <1>1, OpenIsNotClosed
<1>3. QED
    BY <1>1, <1>2, AddingKeeps

(* Voiding changes one draft, which is not in a closed month if these are  *)
(* sealed. *)
LEMMA VoidingKeeps ==
    ASSUME SInv, NEW i \in DOMAIN ver, VoidDraftVerification(i)
    PROVE  SealedKept /\ (ClosedIsSealed => Frozen)
<1>1. i \notin DOMAIN hash /\ hash' = hash
    BY DEF VoidDraftVerification, Sealed
<1>2. ClosedIsSealed => ~Closed(ver[i].month)
    BY <1>1 DEF ClosedIsSealed, Sealed
<1>3. /\ DOMAIN ver' = DOMAIN ver
      /\ \A k \in DOMAIN ver : k # i => ver'[k] = ver[k]
      /\ ver'[i].month = ver[i].month
    <2> DEFINE v == [ver[i] EXCEPT !.text = "voided", !.att = NoAttachment, !.amt = 0]
    <2>1. ver' = [ver EXCEPT ![i] = v]
        BY DEF VoidDraftVerification
    <2>2. ver[i] \in Verification
        BY DEF SInv, TypeOK, SeriesTypeOK
    <2>3. v.month = ver[i].month
        BY <2>2 DEF Verification
    <2> HIDE DEF v
    <2>4. QED
        BY <2>1, <2>3 DEF SInv, TypeOK, SeriesTypeOK
<1>4. SealedKept
    BY <1>1, <1>3 DEF SealedKept, SInv, TypeOK, SeriesTypeOK
<1>5. ClosedIsSealed => Frozen
    BY <1>2, <1>3 DEF Frozen, DatedIn
<1>6. QED
    BY <1>4, <1>5

LEMMA UntouchedKeeps ==
    ASSUME UNCHANGED <<ver, hash>>
    PROVE  SealedKept /\ Frozen
BY DEF SealedKept, Frozen, DatedIn

LEMMA NextKeeps ==
    ASSUME SInv, [Next]_vars
    PROVE  SealedKept /\ (ClosedIsSealed => Frozen)
<1> DEFINE Goal == SealedKept /\ (ClosedIsSealed => Frozen)
<1>1. ASSUME NEW m \in Months, NEW amt \in Amounts,
             NEW att \in Attachments \cup {NoAttachment}, PostVerification(m, amt, att)
      PROVE  Goal
    <2> DEFINE v == NewVerification(m, "NORMAL", "posted", att, amt, 0)
    <2>1. v.month = m
        BY DEF NewVerification
    <2> HIDE DEF v
    <2>2. QED
        BY <1>1, <2>1, BookingKeeps DEF v, PostVerification
<1>2. ASSUME NEW i \in DOMAIN ver, StornoVerification(i) PROVE Goal
    <2> DEFINE v == NewVerification(Today, "STORNO", "posted", NoAttachment, -ver[i].amt, i)
    <2>1. v.month = Today
        BY DEF NewVerification
    <2> HIDE DEF v
    <2>2. QED
        BY <1>2, <2>1, BookingKeeps DEF v, StornoVerification
<1>3. ASSUME NEW i \in DOMAIN ver, VoidDraftVerification(i) PROVE Goal
    BY <1>3, VoidingKeeps
<1>4. ASSUME NEW m \in Months, LockPeriod(m) PROVE Goal
    BY <1>4, SealingKeeps DEF LockPeriod
<1>5. ASSUME NEW y \in Years, LockFiscalYear(y) PROVE Goal
    <2>1. \A z \in Years : fiscalYears'[z] = "open" => fiscalYears[z] = "open"
        BY <1>5 DEF LockFiscalYear, SInv, TypeOK
    <2>2. QED
        BY <1>5, <2>1, SealingKeeps DEF LockFiscalYear
<1>6. CASE SealVerifications
    BY <1>6, SealingKeeps DEF SealVerifications
<1>7. CASE FillSequenceGaps
    <2>1. Gaps # {} => ~Closed(Today)
        BY <1>7, OpenIsNotClosed DEF FillSequenceGaps, CanFillGaps
    <2>2. QED
        BY <1>7, <2>1, FillingKeeps DEF FillSequenceGaps
<1>8. CASE AutoSealRun
    <2>1. CASE SealVerificationsTx(TRUE, locks, fiscalYears)
        BY <1>8, <2>1, SealingKeeps DEF AutoSealRun
    <2>2. CASE UNCHANGED <<ver, hash>>
        BY <2>2, UntouchedKeeps
    <2>3. QED
        BY <1>8, <2>1, <2>2 DEF AutoSealRun
<1>9. ASSUME \/ \E m \in Months, known \in BOOLEAN, att \in Attachments :
                   RejectVerification(m, known, att)
             \/ AutoSealCheck \/ Tick \/ Restart \/ UNCHANGED vars
      PROVE  Goal
    BY <1>9, UntouchedKeeps
    DEF RejectVerification, AutoSealCheck, Tick, Restart, vars
<1>10. QED
    BY <1>1, <1>2, <1>3, <1>4, <1>5, <1>6, <1>7, <1>8, <1>9 DEF Next, Running

-----------------------------------------------------------------------------
(* Reversals.                                                              *)

(* A step that only adds verifications which reverse nothing.              *)
LEMMA PlainRowsCancel ==
    ASSUME SeriesTypeOK, StornoCancels, DOMAIN ver \subseteq DOMAIN ver',
           \A i \in DOMAIN ver : ver'[i] = ver[i],
           \A i \in DOMAIN ver' \ DOMAIN ver : ver'[i].ref = 0
    PROVE  StornoCancels'
<1> SUFFICES ASSUME NEW s \in DOMAIN ver', ver'[s].ref # 0
             PROVE  /\ ver'[s].ref \in DOMAIN ver'
                    /\ ver'[ver'[s].ref].ref = 0
                    /\ \A t \in DOMAIN ver' : ver'[t].ref = ver'[s].ref => t = s
                    /\ ver'[s].text = "posted" /\ ver'[ver'[s].ref].text = "posted"
                          => ver'[s].amt + ver'[ver'[s].ref].amt = 0
    BY DEF StornoCancels
<1>1. s \in DOMAIN ver /\ ver'[s] = ver[s]
    OBVIOUS
<1>2. ver[s].ref \in DOMAIN ver /\ ver'[ver[s].ref] = ver[ver[s].ref]
    BY <1>1 DEF StornoCancels
<1> QED
    BY <1>1, <1>2 DEF StornoCancels

(* A gap filler reverses nothing. *)
LEMMA FillingCancels ==
    ASSUME SeriesTypeOK, StornoCancels, clock \in 0..MaxClock, ver' = Filled
    PROVE  StornoCancels'
<1>1. /\ DOMAIN ver' = 1..seq
      /\ \A i \in DOMAIN ver : ver'[i] = ver[i]
      /\ \A i \in (1..seq) \ DOMAIN ver : ver'[i].ref = 0
    BY FillingGaps
<1>2. DOMAIN ver \subseteq DOMAIN ver'
    BY <1>1 DEF SeriesTypeOK
<1> QED
    BY <1>1, <1>2, PlainRowsCancel

LEMMA BookingCancels ==
    ASSUME SeriesTypeOK, StornoCancels, NEW v, v.ref = 0, ver' = WithNew(v)
    PROVE  StornoCancels'
<1>1. /\ DOMAIN ver \subseteq DOMAIN ver'
      /\ \A i \in DOMAIN ver : ver'[i] = ver[i]
      /\ \A i \in DOMAIN ver' \ DOMAIN ver : ver'[i].ref = 0
    BY DEF WithNew
<1> QED
    BY <1>1, PlainRowsCancel

(* The reversal takes a number nothing refers to yet. *)
LEMMA StornoVerificationCancels ==
    ASSUME SeriesTypeOK, StornoCancels, NEW i \in DOMAIN ver, StornoVerification(i)
    PROVE  StornoCancels'
<1> DEFINE v == NewVerification(Today, "STORNO", "posted", NoAttachment, -ver[i].amt, i)
           n == seq + 1
<1>1. v.ref = i /\ v.amt = -ver[i].amt
    BY DEF NewVerification
<1>2. ver' = WithNew(v) /\ ver[i].ref = 0 /\ \A k \in DOMAIN ver : ver[k].ref # i
    BY DEF StornoVerification
<1>3. ver[i].amt \in Int /\ i # 0 /\ n \notin DOMAIN ver /\ n # 0
    BY DEF SeriesTypeOK, Verification
<1> HIDE DEF v
<1>4. /\ DOMAIN ver' = DOMAIN ver \cup {n}
      /\ ver'[n] = v
      /\ \A k \in DOMAIN ver : ver'[k] = ver[k]
    BY <1>2, <1>3 DEF WithNew
<1> HIDE DEF n
<1> SUFFICES ASSUME NEW s \in DOMAIN ver', ver'[s].ref # 0
             PROVE  /\ ver'[s].ref \in DOMAIN ver'
                    /\ ver'[ver'[s].ref].ref = 0
                    /\ \A t \in DOMAIN ver' : ver'[t].ref = ver'[s].ref => t = s
                    /\ ver'[s].text = "posted" /\ ver'[ver'[s].ref].text = "posted"
                          => ver'[s].amt + ver'[ver'[s].ref].amt = 0
    BY DEF StornoCancels
<1>5. CASE s = n
    <2>1. /\ ver'[s].ref = i /\ ver'[i] = ver[i]
          /\ ver'[s].amt = -ver[i].amt
        BY <1>1, <1>4, <1>5
    <2>2. \A t \in DOMAIN ver' : ver'[t].ref = i => t = s
        BY <1>2, <1>4, <1>5
    <2> QED
        BY <1>2, <1>3, <1>4, <2>1, <2>2
<1>6. CASE s \in DOMAIN ver
    <2>1. ver'[s] = ver[s] /\ ver[s].ref \in DOMAIN ver /\ ver[s].ref # i
        BY <1>2, <1>4, <1>6 DEF StornoCancels
    <2>2. ver'[ver[s].ref] = ver[ver[s].ref]
        BY <1>4, <2>1
    <2>3. \A t \in DOMAIN ver' : ver'[t].ref = ver[s].ref => t = s
        BY <1>1, <1>4, <1>6, <2>1 DEF StornoCancels
    <2> QED
        BY <1>4, <1>6, <2>1, <2>2, <2>3 DEF StornoCancels
<1> QED
    BY <1>4, <1>5, <1>6

(* A draft that is voided has its text to say so.                          *)
LEMMA VoidingCancels ==
    ASSUME SeriesTypeOK, StornoCancels, NEW i \in DOMAIN ver,
           VoidDraftVerification(i)
    PROVE  StornoCancels'
<1> DEFINE v == [ver[i] EXCEPT !.text = "voided", !.att = NoAttachment, !.amt = 0]
<1>1. ver' = [ver EXCEPT ![i] = v]
    BY DEF VoidDraftVerification
<1>2. v.ref = ver[i].ref /\ v.text = "voided"
    <2>1. ver[i] \in Verification
        BY DEF SeriesTypeOK
    <2> QED
        BY <2>1 DEF Verification
<1> HIDE DEF v
<1>3. /\ DOMAIN ver' = DOMAIN ver
      /\ \A k \in DOMAIN ver : /\ ver'[k].ref = ver[k].ref
                               /\ k # i => ver'[k] = ver[k]
      /\ ver'[i].text = "voided"
    BY <1>1, <1>2 DEF SeriesTypeOK
<1> QED
    BY <1>3 DEF StornoCancels

LEMMA NextCancels ==
    ASSUME SInv, StornoCancels, [Next]_vars PROVE StornoCancels'
<1>1. SeriesTypeOK /\ clock \in 0..MaxClock
    BY DEF SInv, TypeOK
<1>2. ASSUME NEW m \in Months, NEW amt \in Amounts,
             NEW att \in Attachments \cup {NoAttachment}, PostVerification(m, amt, att)
      PROVE  StornoCancels'
    <2> DEFINE v == NewVerification(m, "NORMAL", "posted", att, amt, 0)
    <2>1. v.ref = 0
        BY DEF NewVerification
    <2> HIDE DEF v
    <2> QED
        BY <1>1, <1>2, <2>1, BookingCancels DEF v, PostVerification
<1>3. ASSUME NEW i \in DOMAIN ver, StornoVerification(i) PROVE StornoCancels'
    BY <1>1, <1>3, StornoVerificationCancels
<1>4. ASSUME NEW i \in DOMAIN ver, VoidDraftVerification(i) PROVE StornoCancels'
    BY <1>1, <1>4, VoidingCancels
<1>5. ASSUME \/ \E m \in Months : LockPeriod(m)
             \/ \E y \in Years : LockFiscalYear(y)
             \/ SealVerifications \/ FillSequenceGaps
      PROVE  StornoCancels'
    BY <1>1, <1>5, FillingCancels
    DEF LockPeriod, LockFiscalYear, SealVerifications, FillSequenceGaps,
        SealVerificationsTx
<1>6. CASE AutoSealRun
    <2>1. CASE SealVerificationsTx(TRUE, locks, fiscalYears)
        BY <1>1, <2>1, FillingCancels DEF SealVerificationsTx
    <2>2. CASE UNCHANGED <<ver, hash>>
        BY <2>2 DEF StornoCancels
    <2> QED
        BY <1>6, <2>1, <2>2 DEF AutoSealRun
<1>7. ASSUME \/ \E m \in Months, known \in BOOLEAN, att \in Attachments :
                   RejectVerification(m, known, att)
             \/ AutoSealCheck \/ Tick \/ Restart \/ UNCHANGED vars
      PROVE  StornoCancels'
    BY <1>7
    DEF StornoCancels, RejectVerification, AutoSealCheck, Tick, Restart, vars
<1> QED
    BY <1>2, <1>3, <1>4, <1>5, <1>6, <1>7 DEF Next, Running

-----------------------------------------------------------------------------
(* Young drafts.                                                           *)

(* The manual seal and the goroutine take leading drafts older than a day. *)
LEMMA SealTakesOldDrafts ==
    ASSUME SeriesTypeOK, clock \in 0..MaxClock, NEW L, NEW F,
           SealVerificationsTx(TRUE, L, F),
           NEW i \in DOMAIN ver, i \in DOMAIN hash' \ DOMAIN hash
    PROVE  OlderThan24h(ver[i])
<1>1. i \in Batch(Filled, TRUE)
    BY DEF SealVerificationsTx, SealedHashes
<1>2. Filled[i] = ver[i] /\ i \in DOMAIN Filled
    BY FillingGaps DEF SeriesTypeOK
<1>3. i \in Int
    BY DEF SeriesTypeOK
<1> QED
    BY <1>1, <1>2, <1>3 DEF Batch

YoungKept ==
    \A i \in DOMAIN ver \cap (DOMAIN hash' \ DOMAIN hash) :
        ~OlderThan24h(ver[i]) => locks' # locks \/ fiscalYears' # fiscalYears

LEMMA NextKeepsYoung == ASSUME SInv, [Next]_vars PROVE YoungKept
<1>1. SeriesTypeOK /\ clock \in 0..MaxClock
    BY DEF SInv, TypeOK
<1>2. ASSUME NEW m \in Months, LockPeriod(m) PROVE YoungKept
    BY <1>2 DEF LockPeriod, YoungKept
<1>3. ASSUME NEW y \in Years, LockFiscalYear(y) PROVE YoungKept
    <2>1. fiscalYears'[y] # fiscalYears[y]
        BY <1>3 DEF LockFiscalYear, SInv, TypeOK
    <2> QED
        BY <2>1 DEF YoungKept
<1>4. CASE SealVerificationsTx(TRUE, locks, fiscalYears)
    BY <1>1, <1>4, SealTakesOldDrafts DEF YoungKept
<1>5. CASE hash' = hash
    BY <1>5 DEF YoungKept
<1> QED
    BY <1>2, <1>3, <1>4, <1>5
    DEF Next, Running, vars, PostVerification, RejectVerification,
        StornoVerification, VoidDraftVerification, SealVerifications,
        FillSequenceGaps, AutoSealCheck, AutoSealRun, Tick, Restart

-----------------------------------------------------------------------------
(* The theorems.                                                           *)

LEMMA Inductive == Spec => []IInv
<1>1. IInv /\ [Next]_vars => IInv'
    BY NextKept DEF IInv, SeriesKept
<1>2. QED
    BY InitIInv, <1>1, PTL DEF Spec

(* Every reachable state of the series is well typed; in particular        *)
(* sqlite_sequence is the highest number in use and only rows that exist   *)
(* carry a hash.                                                           *)
THEOREM TypeCorrect == Spec => []TypeOK
BY Inductive, PTL DEF IInv, SInv

(* The sealed verifications are always the first ones, without a hole.     *)
THEOREM SealedPrefix == Spec => []SealedIsPrefix
BY Inductive, PTL DEF IInv, SInv

(* VerifyChain succeeds in every reachable state: no handler of the        *)
(* program breaks the hash chain or loses a sealed attachment.             *)
THEOREM ChainAlwaysVerifies == Spec => []ChainVerifies
BY Inductive, PTL DEF IInv, SInv

(* No draft is ever left in a locked period or a locked year.              *)
THEOREM ClosedMonthsAreSealed == Spec => []ClosedIsSealed
BY Inductive, PTL DEF IInv, SInv

(* No verification is reversed twice and no reversal is reversed, and what *)
(* is reversed is cancelled unless one of the two was voided, in whatever  *)
(* order drafts were reversed, voided and sealed (storno.go:25-47).        *)
THEOREM StornosCancel == Spec => []StornoCancels
<1>1. Init => StornoCancels
    BY DEF Init, StornoCancels
<1>2. IInv /\ StornoCancels /\ [Next]_vars => StornoCancels'
    BY NextCancels DEF IInv
<1> QED
    BY <1>1, <1>2, Inductive, PTL DEF Spec

(* A draft younger than 24 hours is sealed by a lock or not at all, also   *)
(* when the comparison of the goroutine with UTC fires (worm.go:98-115).   *)
THEOREM YoungDraftsAreKept == Spec => YoungDraftsKept
<1>1. IInv /\ [Next]_vars =>
          [\A i \in DOMAIN ver \cap (DOMAIN hash' \ DOMAIN hash) :
              ~OlderThan24h(ver[i])
                  => locks' # locks \/ fiscalYears' # fiscalYears]_vars
    BY NextKeepsYoung DEF IInv, YoungKept
<1>2. QED
    BY <1>1, Inductive, PTL DEF Spec, YoungDraftsKept

(* Nothing is ever added to or changed in a closed month.                  *)
THEOREM ClosedMonthsAreFrozen == Spec => ClosedMonthFrozen
<1>1. IInv /\ [Next]_vars =>
          [\A m \in Months : Closed(m) =>
              /\ DatedIn(m)' = DatedIn(m)
              /\ \A i \in DatedIn(m) : ver'[i] = ver[i]]_vars
    BY NextKeeps DEF Frozen, IInv
<1>2. QED
    BY <1>1, Inductive, PTL DEF Spec, ClosedMonthFrozen

(* A step that keeps what is sealed writes at the end of the log.          *)
LEMMA KeepingIsWriting == ASSUME SInv, SInv', SealedKept PROVE Log!Write
<1>1. DOMAIN SealedLog = DOMAIN hash /\ DOMAIN SealedLog' = DOMAIN hash'
    BY DEF SealedLog
<1>2. Log!Extends(SealedLog', SealedLog)
    BY DEF SealedKept, SealedLog, Log!Extends
<1>3. ASSUME NEW n \in DOMAIN hash'
      PROVE  n \in Nat \ {0} /\ 1..n \subseteq DOMAIN hash'
    BY <1>3 DEF SInv, TypeOK, SeriesTypeOK, SealedIsPrefix
<1>4. ASSUME NEW n \in DOMAIN hash'
      PROVE  SealedLog'[n] \in SealedEntry
    <2>1. ver'[n] \in Verification
        BY <1>4 DEF SInv, TypeOK, SeriesTypeOK
    <2>2. Payload(ver'[n]) \in SealedEntry
        BY <2>1 DEF Verification, Payload, SealedEntry
    <2>3. QED
        BY <1>4, <2>2 DEF SealedLog
<1>5. QED
    BY <1>1, <1>2, <1>3, <1>4 DEF Log!Write

(* The sealed part of the series is an append-only log: a step of the      *)
(* series is a write at the end of WormLog's log or leaves it alone.       *)
THEOREM SealedPartIsWormLog == Spec => ImplementsWormLog
<1>1. Init => Log!Init
    BY DEF Init, Log!Init, Genesis, SealedLog
<1>2. IInv /\ IInv' /\ SealedKept => Log!Write
    BY KeepingIsWriting DEF IInv
<1>3. IInv /\ [Next]_vars => IInv' /\ SealedKept
    BY NextKept, NextKeeps DEF IInv, SeriesKept
<1>4. QED
    BY <1>1, <1>2, <1>3, Inductive, PTL DEF Spec, ImplementsWormLog, Log!Spec

-----------------------------------------------------------------------------
(***************************************************************************)
(* Transfers of VAT.                                                       *)
(*                                                                         *)
(* A transfer is booked once because the month it is booked in is open     *)
(* when it is and locked from then on.  The rest is that nothing else      *)
(* books transfers, moves one to another month or unlocks a month; the     *)
(* amounts do not matter for that (VatInv).                                *)
(*                                                                         *)
(* The chain verifies beside transfers because SInv, which does not ask    *)
(* for closed months to be sealed, is kept by the transaction that locks   *)
(* and leaves the seal for later.  Closed months are sealed again after    *)
(* it: in a series without gaps the seal cannot be refused.                *)
(***************************************************************************)

Fields == {"month", "kind", "text", "att", "amt", "ref", "created"}

(* The rows are records under numbers up to seq. *)
RowsInv ==
    /\ seq \in Nat
    /\ DOMAIN ver \subseteq 1..seq
    /\ ver = [i \in DOMAIN ver |-> ver[i]]
    /\ \A i \in DOMAIN ver : ver[i] = [f \in Fields |-> ver[i][f]]
    /\ fiscalYears \in [Years -> {"absent", "open", "locked"}]
    /\ clock \in 0..MaxClock

(* Whoever is under way has a period, and the months of the transfers are  *)
(* locked. *)
TransferInv ==
    /\ transfer = [r \in Requests |-> transfer[r]]
    /\ \A r \in Requests :
          /\ transfer[r] = [f \in {"pc", "period", "balance"} |->
                               transfer[r][f]]
          /\ transfer[r].pc # "idle" => transfer[r].period \in Periods
    /\ \A i \in DOMAIN ver : IsTransfer(i) => ver[i].month \in locks
    /\ TransferredOnce

VatInv == RowsInv /\ TransferInv

-----------------------------------------------------------------------------
(* The last month of a period is one of its months.                        *)
LEMMA EndIsOfPeriod ==
    ASSUME NEW p \in Periods PROVE EndOf(p) \in p /\ EndOf(p) \in Months
<1>1. p # {} /\ p \subseteq 1..LastMonth /\ LastMonth \in Nat
    BY CalendarAssumption DEF Periods, Period, Months
<1>2. \E m \in p : \A n \in p : n <= m
    BY <1>1, GreatestElement
<1> QED
    BY <1>1, <1>2 DEF EndOf, Months

-----------------------------------------------------------------------------
(* What every step but the transaction of a transfer does to the rows:     *)
(* those there are stay where they are and what they are, and the new ones *)
(* are in open months and no transfers.                                    *)

RowsKept ==
    /\ DOMAIN ver \subseteq DOMAIN ver'
    /\ \A i \in DOMAIN ver : /\ ver'[i].month = ver[i].month
                             /\ ver'[i].kind = ver[i].kind
    /\ \A i \in DOMAIN ver' \ DOMAIN ver :
          /\ ~Closed(ver'[i].month)
          /\ ver'[i].kind # "MOMSOMFORING"
    /\ locks \subseteq locks'

StepKeepsRows == RowsInv' /\ RowsKept

LEMMA SameRows ==
    ASSUME RowsInv, UNCHANGED <<ver, seq, locks, fiscalYears>>,
           clock' \in 0..MaxClock
    PROVE  StepKeepsRows
BY DEF RowsInv, RowsKept, StepKeepsRows

LEMMA NewRow ==
    ASSUME NEW m, NEW kind, NEW text, NEW att, NEW amt, NEW ref
    PROVE  LET v == NewVerification(m, kind, text, att, amt, ref)
           IN  /\ v = [f \in Fields |-> v[f]]
               /\ v.month = m /\ v.kind = kind
BY DEF NewVerification, Fields

(* A row under the next number. *)
LEMMA RowAdded ==
    ASSUME RowsInv, NEW v, v = [f \in Fields |-> v[f]], ver' = WithNew(v),
           seq' = seq + 1, UNCHANGED <<fiscalYears, clock>>
    PROVE  /\ RowsInv'
           /\ DOMAIN ver' = DOMAIN ver \cup {seq + 1}
           /\ seq + 1 \notin DOMAIN ver
           /\ ver'[seq + 1] = v
           /\ \A i \in DOMAIN ver : ver'[i] = ver[i]
<1>1. /\ DOMAIN ver' = DOMAIN ver \cup {seq + 1}
      /\ seq + 1 \notin DOMAIN ver
      /\ ver'[seq + 1] = v
      /\ \A i \in DOMAIN ver : ver'[i] = ver[i]
    BY DEF RowsInv, WithNew
<1>2. ver' = [i \in DOMAIN ver' |-> ver'[i]]
    BY <1>1 DEF WithNew
<1>3. \A i \in DOMAIN ver' : ver'[i] = [f \in Fields |-> ver'[i][f]]
    BY <1>1 DEF RowsInv
<1>4. seq' \in Nat /\ DOMAIN ver' \subseteq 1..seq'
    BY <1>1 DEF RowsInv
<1> QED
    BY <1>1, <1>2, <1>3, <1>4 DEF RowsInv

LEMMA Books ==
    ASSUME RowsInv, NEW v, v = [f \in Fields |-> v[f]], ver' = WithNew(v),
           seq' = seq + 1, UNCHANGED <<locks, fiscalYears, clock>>,
           PostingOpen(v.month, locks, fiscalYears), v.kind # "MOMSOMFORING"
    PROVE  StepKeepsRows
BY RowAdded DEF RowsKept, StepKeepsRows, PostingOpen, Closed

(* Gap fillers are of today, which is open if there are any, and stays or  *)
(* becomes closed in the same transaction.                                 *)
LEMMA Fills ==
    ASSUME RowsInv, NEW L, NEW Y, CanFillGaps(L, Y), locks \subseteq L,
           locks' = L, fiscalYears' = Y, ver' = Filled,
           Y \in [Years -> {"absent", "open", "locked"}],
           \A y \in Years : Y[y] = "open" => fiscalYears[y] = "open",
           UNCHANGED <<seq, clock>>
    PROVE  StepKeepsRows
<1> DEFINE filler == NewVerification(Today, "NORMAL", "gap", NoAttachment, 0, 0)
<1>1. /\ filler = [f \in Fields |-> filler[f]]
      /\ filler.month = Today /\ filler.kind = "NORMAL"
    BY NewRow
<1>2. /\ DOMAIN ver' = DOMAIN ver \cup Gaps
      /\ ver' = [i \in DOMAIN ver' |-> ver'[i]]
      /\ \A i \in DOMAIN ver : ver'[i] = ver[i]
      /\ \A i \in DOMAIN ver' \ DOMAIN ver : ver'[i] = filler
    BY DEF Filled
<1> HIDE DEF filler
<1>3. Gaps \subseteq 1..seq
    BY DEF Gaps
<1>4. RowsInv'
    <2>1. \A i \in DOMAIN ver' : ver'[i] = [f \in Fields |-> ver'[i][f]]
        BY <1>1, <1>2 DEF RowsInv
    <2>2. DOMAIN ver' \subseteq 1..seq' /\ seq' \in Nat
        BY <1>2, <1>3 DEF RowsInv
    <2> QED
        BY <1>2, <2>1, <2>2 DEF RowsInv
<1>5. Gaps # {} => ~Closed(Today)
    <2>1. YearOf[Today] \in Years
        BY CalendarAssumption DEF RowsInv, Today, Years
    <2> QED
        BY <2>1 DEF CanFillGaps, PostingOpen, Closed
<1> QED
    BY <1>1, <1>2, <1>4, <1>5 DEF RowsKept, StepKeepsRows

LEMMA VoidKeepsRows ==
    ASSUME RowsInv, NEW i \in DOMAIN ver, VoidDraftVerification(i)
    PROVE  StepKeepsRows
<1> DEFINE v == [ver[i] EXCEPT !.text = "voided", !.att = NoAttachment, !.amt = 0]
<1>1. ver' = [ver EXCEPT ![i] = v]
    BY DEF VoidDraftVerification
<1>2. /\ v = [f \in Fields |-> v[f]]
      /\ v.month = ver[i].month /\ v.kind = ver[i].kind
    <2>1. ver[i] = [f \in Fields |-> ver[i][f]]
        BY DEF RowsInv
    <2>2. DOMAIN ver[i] = Fields
        BY <2>1
    <2> QED
        BY <2>1, <2>2 DEF Fields
<1> HIDE DEF v
<1>3. /\ DOMAIN ver' = DOMAIN ver
      /\ ver' = [k \in DOMAIN ver' |-> ver'[k]]
      /\ ver'[i] = v
      /\ \A k \in DOMAIN ver : k # i => ver'[k] = ver[k]
    BY <1>1 DEF RowsInv
<1>4. UNCHANGED <<seq, locks, fiscalYears, clock>>
    BY DEF VoidDraftVerification
<1> QED
    BY <1>2, <1>3, <1>4 DEF RowsInv, RowsKept, StepKeepsRows

LEMMA NextKeepsRows == ASSUME RowsInv, [Next]_vars PROVE StepKeepsRows
<1>1. ASSUME NEW m \in Months, NEW amt \in Amounts,
             NEW att \in Attachments \cup {NoAttachment},
             PostVerification(m, amt, att)
      PROVE  StepKeepsRows
    <2> DEFINE v == NewVerification(m, "NORMAL", "posted", att, amt, 0)
    <2>1. v = [f \in Fields |-> v[f]] /\ v.month = m /\ v.kind = "NORMAL"
        BY NewRow
    <2> HIDE DEF v
    <2> QED
        BY <1>1, <2>1, Books DEF v, PostVerification
<1>2. ASSUME NEW i \in DOMAIN ver, StornoVerification(i) PROVE StepKeepsRows
    <2> DEFINE v == NewVerification(Today, "STORNO", "posted", NoAttachment,
                                    -ver[i].amt, i)
    <2>1. v = [f \in Fields |-> v[f]] /\ v.month = Today /\ v.kind = "STORNO"
        BY NewRow
    <2> HIDE DEF v
    <2> QED
        BY <1>2, <2>1, Books DEF v, StornoVerification
<1>3. ASSUME NEW i \in DOMAIN ver, VoidDraftVerification(i)
      PROVE  StepKeepsRows
    BY <1>3, VoidKeepsRows
<1>4. ASSUME NEW m \in Months, LockPeriod(m) PROVE StepKeepsRows
    BY <1>4, Fills DEF LockPeriod, SealVerificationsTx, RowsInv
<1>5. ASSUME NEW y \in Years, LockFiscalYear(y) PROVE StepKeepsRows
    <2>1. /\ fiscalYears' \in [Years -> {"absent", "open", "locked"}]
          /\ \A z \in Years : fiscalYears'[z] = "open" => fiscalYears[z] = "open"
        BY <1>5 DEF LockFiscalYear, RowsInv
    <2> QED
        BY <1>5, <2>1, Fills DEF LockFiscalYear, SealVerificationsTx
<1>6. CASE SealVerifications \/ FillSequenceGaps
    BY <1>6, Fills
    DEF SealVerifications, FillSequenceGaps, SealVerificationsTx, RowsInv
<1>7. CASE AutoSealRun
    <2>1. CASE SealVerificationsTx(TRUE, locks, fiscalYears)
        BY <1>7, <2>1, Fills DEF AutoSealRun, SealVerificationsTx, RowsInv
    <2>2. CASE UNCHANGED <<ver, hash>>
        BY <1>7, <2>2, SameRows DEF AutoSealRun, RowsInv
    <2> QED
        BY <1>7, <2>1, <2>2 DEF AutoSealRun
<1>8. CASE Tick
    BY <1>8, SameRows, CalendarAssumption DEF Tick, RowsInv
<1>9. ASSUME \/ \E m \in Months, known \in BOOLEAN, att \in Attachments :
                   RejectVerification(m, known, att)
             \/ AutoSealCheck \/ Restart \/ UNCHANGED vars
      PROVE  StepKeepsRows
    BY <1>9, SameRows
    DEF RejectVerification, AutoSealCheck, Restart, vars, RowsInv
<1> QED
    BY <1>1, <1>2, <1>3, <1>4, <1>5, <1>6, <1>7, <1>8, <1>9 DEF Next, Running

-----------------------------------------------------------------------------
(* The steps of the transfers.                                             *)

(* A step that keeps the rows keeps what is known of the transfers. *)
LEMMA RowsKeptTransfersKept ==
    ASSUME TransferInv, RowsKept
    PROVE  /\ TransferredOnce'
           /\ \A i \in DOMAIN ver' : IsTransfer(i)' => ver'[i].month \in locks'
<1>1. ASSUME NEW i \in DOMAIN ver', IsTransfer(i)'
      PROVE  /\ i \in DOMAIN ver /\ IsTransfer(i)
             /\ ver'[i].month = ver[i].month
    BY <1>1 DEF IsTransfer, RowsKept
<1> QED
    BY <1>1 DEF TransferInv, TransferredOnce, RowsKept

(* The transaction: the new row is the only transfer of its month, since   *)
(* that was not locked before. *)
LEMMA VatPostKeeps ==
    ASSUME VatInv, NEW r \in Requests, VatPost(r)
    PROVE  /\ VatInv'
           /\ \A i \in DOMAIN ver : ver'[i] = ver[i]
           /\ DOMAIN ver \subseteq DOMAIN ver'
           /\ \A i \in DOMAIN ver' \ DOMAIN ver : ~Closed(ver'[i].month)
<1> DEFINE p == transfer[r].period
           v == NewVerification(EndOf(p), "MOMSOMFORING", "posted",
                                NoAttachment, -transfer[r].balance, 0)
<1>1. p \in Periods
    BY DEF VatPost, VatInv, TransferInv
<1>2. EndOf(p) \in p
    BY <1>1, EndIsOfPeriod
<1>3. v = [f \in Fields |-> v[f]] /\ v.month = EndOf(p)
    BY NewRow
<1>4. /\ ver' = WithNew(v) /\ seq' = seq + 1
      /\ locks' = locks \cup p
      /\ UNCHANGED <<fiscalYears, clock>>
      /\ PostingOpen(EndOf(p), locks, fiscalYears)
      /\ transfer' = [transfer EXCEPT ![r].pc = "posted"]
    BY DEF VatPost
<1> HIDE DEF v
<1>5. /\ RowsInv'
      /\ DOMAIN ver' = DOMAIN ver \cup {seq + 1}
      /\ seq + 1 \notin DOMAIN ver
      /\ ver'[seq + 1] = v
      /\ \A i \in DOMAIN ver : ver'[i] = ver[i]
    BY <1>3, <1>4, RowAdded DEF VatInv
<1>6. ASSUME NEW i \in DOMAIN ver, IsTransfer(i)'
      PROVE  /\ IsTransfer(i) /\ ver'[i].month \in locks
             /\ ver'[i].month # EndOf(p)
    BY <1>4, <1>5, <1>6 DEF IsTransfer, VatInv, TransferInv, PostingOpen
<1>7. ver'[seq + 1].month = EndOf(p)
    BY <1>3, <1>5
<1>8. \A i \in DOMAIN ver' : IsTransfer(i)' => ver'[i].month \in locks'
    BY <1>2, <1>4, <1>5, <1>6, <1>7
<1>9. TransferredOnce'
    <2> SUFFICES ASSUME NEW i \in DOMAIN ver', NEW j \in DOMAIN ver',
                        IsTransfer(i)', IsTransfer(j)',
                        ver'[i].month = ver'[j].month
                 PROVE  i = j
        BY DEF TransferredOnce
    <2>1. CASE i \in DOMAIN ver /\ j \in DOMAIN ver
        BY <1>5, <1>6, <2>1 DEF VatInv, TransferInv, TransferredOnce
    <2>2. CASE i = seq + 1 \/ j = seq + 1
        BY <1>5, <1>6, <1>7, <2>2
    <2> QED
        BY <1>5, <2>1, <2>2
<1>10. /\ transfer' = [q \in Requests |-> transfer'[q]]
       /\ \A q \in Requests :
             /\ transfer'[q] = [f \in {"pc", "period", "balance"} |->
                                   transfer'[q][f]]
             /\ transfer'[q].pc # "idle" => transfer'[q].period \in Periods
    BY <1>1, <1>4 DEF VatInv, TransferInv
<1>11. ~Closed(EndOf(p))
    BY <1>4 DEF PostingOpen, Closed
<1> QED
    BY <1>5, <1>7, <1>8, <1>9, <1>10, <1>11 DEF VatInv, TransferInv

(* What the other steps do to the requests. *)
LEMMA RequestGoesOn ==
    ASSUME TransferInv, NEW r \in Requests, NEW t,
           transfer' = [transfer EXCEPT ![r] = t],
           t = [f \in {"pc", "period", "balance"} |-> t[f]],
           t.pc # "idle" => t.period \in Periods, RowsKept
    PROVE  TransferInv'
<1>1. /\ transfer' = [q \in Requests |-> transfer'[q]]
      /\ \A q \in Requests :
            /\ transfer'[q] = [f \in {"pc", "period", "balance"} |->
                                  transfer'[q][f]]
            /\ transfer'[q].pc # "idle" => transfer'[q].period \in Periods
    BY DEF TransferInv
<1> QED
    BY <1>1, RowsKeptTransfersKept DEF TransferInv

LEMMA IdleRequest ==
    /\ Idle = [f \in {"pc", "period", "balance"} |-> Idle[f]]
    /\ Idle.pc = "idle"
BY DEF Idle

LEMMA VatStepKeeps ==
    ASSUME VatInv, NEW r \in Requests,
           \/ VatRead(r) \/ VatReject(r) \/ VatSeal(r)
           \/ \E p \in Periods : VatCheck(r, p)
    PROVE  VatInv' /\ RowsKept
<1>1. ASSUME UNCHANGED vars PROVE StepKeepsRows
    BY <1>1, NextKeepsRows DEF VatInv
<1>2. ASSUME NEW p \in Periods, VatCheck(r, p) PROVE VatInv' /\ RowsKept
    <2> DEFINE t == [Idle EXCEPT !.pc = "checked", !.period = p]
    <2>1. /\ t = [f \in {"pc", "period", "balance"} |-> t[f]]
          /\ t.period = p
        BY DEF Idle
    <2>2. transfer' = [transfer EXCEPT ![r] = t] /\ UNCHANGED vars
        BY <1>2 DEF VatCheck
    <2> HIDE DEF t
    <2> QED
        BY <1>1, <2>1, <2>2, RequestGoesOn DEF VatInv, StepKeepsRows
<1>3. CASE VatRead(r)
    <2>1. UNCHANGED vars
        BY <1>3 DEF VatRead
    <2> DEFINE b == Balance(transfer[r].period)
               t == [transfer[r] EXCEPT !.pc = "read", !.balance = b]
    <2>2. transfer' = [transfer EXCEPT ![r] = Idle]
          \/ transfer' = [transfer EXCEPT ![r] = t]
        BY <1>3 DEF VatRead
    <2>3. /\ t = [f \in {"pc", "period", "balance"} |-> t[f]]
          /\ t.period = transfer[r].period
        <3>1. transfer[r] = [f \in {"pc", "period", "balance"} |->
                                transfer[r][f]]
            BY DEF VatInv, TransferInv
        <3> HIDE DEF b
        <3> QED
            BY <3>1
    <2>4. transfer[r].period \in Periods
        BY <1>3 DEF VatRead, VatInv, TransferInv
    <2> HIDE DEF t
    <2> QED
        BY <1>1, <2>1, <2>2, <2>3, <2>4, RequestGoesOn, IdleRequest
        DEF VatInv, StepKeepsRows
<1>4. CASE VatReject(r)
    <2>1. transfer' = [transfer EXCEPT ![r] = Idle] /\ UNCHANGED vars
        BY <1>4 DEF VatReject
    <2> QED
        BY <1>1, <2>1, RequestGoesOn, IdleRequest DEF VatInv, StepKeepsRows
<1>5. CASE VatSeal(r)
    <2>1. /\ transfer' = [transfer EXCEPT ![r] = Idle]
          /\ UNCHANGED <<seq, locks, fiscalYears, files, clock, autoSeal>>
        BY <1>5 DEF VatSeal
    <2>2. StepKeepsRows
        <3>1. CASE SealVerificationsTx(FALSE, locks, fiscalYears)
            BY <2>1, <3>1, Fills DEF SealVerificationsTx, VatInv, RowsInv
        <3>2. CASE UNCHANGED <<ver, hash>>
            BY <2>1, <3>2, SameRows DEF VatInv, RowsInv
        <3> QED
            BY <1>5, <3>1, <3>2 DEF VatSeal
    <2> QED
        BY <2>1, <2>2, RequestGoesOn, IdleRequest DEF VatInv, StepKeepsRows
<1> QED
    BY <1>2, <1>3, <1>4, <1>5

-----------------------------------------------------------------------------
(* The invariant.                                                          *)

LEMMA InitVatInv == VatInit => VatInv
<1> SUFFICES ASSUME VatInit PROVE VatInv
    OBVIOUS
<1>1. IInv
    BY InitIInv DEF VatInit
<1>2. PICK amt \in Amounts :
          ver = [i \in InitialIds |->
                    [month |-> MonthAt[0], kind |-> "NORMAL", text |-> "posted",
                     att |-> NoAttachment, amt |-> amt, ref |-> 0,
                     created |-> 0]]
    BY DEF VatInit, Init
<1>3. RowsInv
    <2>1. \A i \in DOMAIN ver : ver[i] = [f \in Fields |-> ver[i][f]]
        BY <1>2 DEF Fields
    <2> QED
        BY <1>1, <2>1 DEF IInv, SInv, TypeOK, SeriesTypeOK, RowsInv
<1>4. \A i \in DOMAIN ver : ~IsTransfer(i)
    BY <1>2 DEF IsTransfer
<1>5. TransferInv
    BY <1>4, IdleRequest DEF VatInit, TransferInv, TransferredOnce
<1> QED
    BY <1>3, <1>5 DEF VatInv

(* What a step does to the months that are closed. *)
NotExtended == \A m \in Months : Closed(m) => DatedIn(m)' = DatedIn(m)

LEMMA RowsKeptNotExtended == RowsKept => NotExtended
BY DEF RowsKept, NotExtended, DatedIn

LEMMA VatNextKeeps ==
    ASSUME VatInv, [VatRunning \/ VatRestart]_vatVars
    PROVE  VatInv' /\ NotExtended
<1>1. ASSUME NEW r \in Requests, VatPost(r) PROVE VatInv' /\ NotExtended
    BY <1>1, VatPostKeeps DEF NotExtended, DatedIn
<1>2. ASSUME NEW r \in Requests,
             \/ VatRead(r) \/ VatReject(r) \/ VatSeal(r)
             \/ \E p \in Periods : VatCheck(r, p)
      PROVE  VatInv' /\ NotExtended
    BY <1>2, VatStepKeeps, RowsKeptNotExtended
<1>3. ASSUME [Next]_vars, UNCHANGED transfer PROVE VatInv' /\ NotExtended
    <2>1. StepKeepsRows
        BY <1>3, NextKeepsRows DEF VatInv
    <2>2. TransferInv'
        BY <1>3, <2>1, RowsKeptTransfersKept
        DEF VatInv, TransferInv, StepKeepsRows
    <2> QED
        BY <2>1, <2>2, RowsKeptNotExtended DEF VatInv, StepKeepsRows
<1>4. CASE VatRestart
    <2>1. StepKeepsRows
        BY <1>4, NextKeepsRows DEF VatRestart, VatInv, Next
    <2>2. transfer' = [r \in Requests |-> Idle]
        BY <1>4 DEF VatRestart
    <2>3. TransferInv'
        BY <2>1, <2>2, IdleRequest, RowsKeptTransfersKept
        DEF VatInv, TransferInv, StepKeepsRows
    <2> QED
        BY <2>1, <2>3, RowsKeptNotExtended DEF VatInv, StepKeepsRows
<1> QED
    BY <1>1, <1>2, <1>3, <1>4 DEF VatRunning, VatStep, Next, vatVars

-----------------------------------------------------------------------------
(* The types of the requests and the chain.                                *)

Request == [pc : {"idle", "checked", "read", "posted"},
            period : Periods \cup {{}}, balance : Int]

LEMMA PeriodsAreMonths == \A p \in Periods \cup {{}} : p \subseteq Months
BY CalendarAssumption DEF Periods, Period, Months

(* The balance of a period is a whole number. *)
SumOver(rows, S) == MapThenSumSet(LAMBDA i : rows[i].amt, S)

LEMMA SumOfAmounts ==
    ASSUME NEW S, IsFiniteSet(S), NEW rows, \A i \in S : rows[i].amt \in Int
    PROVE  SumOver(rows, S) \in Int
<1> DEFINE f == [i \in S |-> rows[i].amt]
           Solves(h) == h = [s \in SUBSET S |->
                               IF s = {} THEN 0
                               ELSE LET x == CHOOSE x \in s : TRUE
                                    IN  rows[x].amt + h[s \ {x}]]
<1>1. ASSUME NEW h, NEW s \in SUBSET S
      PROVE  SumStep(f, h, s) = IF s = {} THEN 0
                                ELSE LET x == CHOOSE x \in s : TRUE
                                     IN  rows[x].amt + h[s \ {x}]
    BY DEF SumStep
<1>2. PICK g \in [SUBSET S -> Int] : \A s \in SUBSET S : g[s] = SumStep(f, g, s)
    BY SumExists
<1>3. Solves(g)
    BY <1>1, <1>2
<1>4. PICK h : /\ Solves(h)
               /\ SumOver(rows, S) = h[S]
    BY <1>3 DEF SumOver, MapThenSumSet, MapThenFoldSet
<1>5. \A s \in SUBSET S : h[s] = SumStep(f, h, s)
    BY <1>1, <1>4
<1>6. \A i \in S : f[i] \in Int
    OBVIOUS
<1> HIDE DEF f
<1> QED
    BY <1>4, <1>5, <1>6, SumType

LEMMA BalanceType == ASSUME SeriesTypeOK, NEW p PROVE Balance(p) \in Int
<1>1. seq \in Int /\ Counted(p) \subseteq 1..seq
    BY DEF SeriesTypeOK, Counted
<1>2. IsFiniteSet(Counted(p))
    <2>1. IsFiniteSet(1..seq)
        BY <1>1, FS_Interval
    <2> QED
        BY <1>1, <2>1, FS_Subset
<1>3. \A i \in Counted(p) : ver[i].amt \in Int
    BY DEF Counted, SeriesTypeOK, Verification
<1>4. SumOver(ver, Counted(p)) \in Int
    BY <1>2, <1>3, SumOfAmounts
<1> QED
    BY <1>4 DEF Balance, SumOver

LEMMA InitVatTypeOK == VatInit => SInv /\ ClosedIsSealed /\ VatTypeOK
<1> SUFFICES ASSUME VatInit PROVE SInv /\ ClosedIsSealed /\ VatTypeOK
    OBVIOUS
<1>1. IInv
    BY InitIInv DEF VatInit
<1>2. Idle \in Request
    BY DEF Idle, Request
<1> QED
    BY <1>1, <1>2 DEF VatInit, IInv, SInv, VatTypeOK, Request

(* The transaction of a transfer: a draft in a month it closes itself.     *)
LEMMA VatPostSeries ==
    ASSUME SInv, VatTypeOK, VatInv, NEW r \in Requests, VatPost(r)
    PROVE  SInv'
<1> DEFINE p == transfer[r].period
           v == NewVerification(EndOf(p), "MOMSOMFORING", "posted",
                                NoAttachment, -transfer[r].balance, 0)
<1>1. p \in Periods
    BY DEF VatPost, VatInv, TransferInv
<1>2. EndOf(p) \in Months /\ p \subseteq Months
    BY <1>1, EndIsOfPeriod, PeriodsAreMonths
<1>3. transfer[r].balance \in Int
    BY DEF VatTypeOK
<1>4. v \in Verification /\ v.month = EndOf(p) /\ v.att = NoAttachment
    BY <1>2, <1>3 DEF NewVerification, Verification, SInv, TypeOK
<1>5. /\ ver' = WithNew(v) /\ seq' = seq + 1 /\ locks' = locks \cup p
      /\ PostingOpen(EndOf(p), locks, fiscalYears)
      /\ UNCHANGED <<hash, fiscalYears, files, clock, autoSeal>>
    BY DEF VatPost
<1>6. locks' \subseteq Months
    BY <1>2, <1>5 DEF SInv, TypeOK
<1> HIDE DEF v
<1> QED
    BY <1>4, <1>5, <1>6, Booking DEF SInv, TypeOK

(* The other steps of a request book nothing. *)
LEMMA VatStepSeries ==
    ASSUME SInv, NEW r \in Requests,
           \/ VatRead(r) \/ VatReject(r) \/ VatSeal(r)
           \/ \E p \in Periods : VatCheck(r, p)
    PROVE  SeriesKept
<1>1. ASSUME UNCHANGED vars PROVE SeriesKept
    BY <1>1, NextKept
<1>2. CASE VatSeal(r)
    <2>1. /\ UNCHANGED <<seq, locks, fiscalYears, files, clock, autoSeal>>
          /\ autoSeal' \subseteq {"sleeping", "due"}
        BY <1>2 DEF VatSeal, SInv, TypeOK
    <2>2. CASE SealVerificationsTx(FALSE, locks, fiscalYears)
        BY <2>1, <2>2, SealOnly
    <2>3. CASE UNCHANGED <<ver, hash>>
        BY <1>1, <2>1, <2>3 DEF vars
    <2> QED
        BY <1>2, <2>2, <2>3 DEF VatSeal
<1> QED
    BY <1>1, <1>2 DEF VatRead, VatReject, VatCheck

(* What becomes of the record of a request. *)
LEMMA RequestTypes ==
    ASSUME SInv, VatTypeOK, VatInv, NEW r \in Requests,
           VatStep(r) \/ \E p \in Periods : VatCheck(r, p)
    PROVE  transfer' \in [Requests -> Request]
<1>1. transfer \in [Requests -> Request] /\ Idle \in Request
    BY DEF VatTypeOK, Request, Idle
<1>2. ASSUME NEW t \in Request, transfer' = [transfer EXCEPT ![r] = t]
      PROVE  transfer' \in [Requests -> Request]
    BY <1>1, <1>2
<1>3. ASSUME NEW p \in Periods, VatCheck(r, p)
      PROVE  transfer' \in [Requests -> Request]
    <2> DEFINE t == [Idle EXCEPT !.pc = "checked", !.period = p]
    <2>1. /\ t = [f \in {"pc", "period", "balance"} |-> t[f]]
          /\ t.pc = "checked" /\ t.period = p /\ t.balance = 0
        BY DEF Idle
    <2>2. transfer' = [transfer EXCEPT ![r] = t]
        BY <1>3 DEF VatCheck
    <2> HIDE DEF t
    <2>3. t \in Request
        BY <2>1 DEF Request
    <2> QED
        BY <1>2, <2>2, <2>3
<1>4. CASE VatRead(r)
    <2> DEFINE b == Balance(transfer[r].period)
    <2>1. b \in Int
        BY BalanceType DEF SInv, TypeOK
    <2>2. \/ transfer' = [transfer EXCEPT ![r] = Idle]
          \/ transfer' = [transfer EXCEPT ![r] =
                             [transfer[r] EXCEPT !.pc = "read", !.balance = b]]
        BY <1>4 DEF VatRead
    <2> HIDE DEF b
    <2>3. transfer[r] \in Request
        BY <1>1
    <2>4. [transfer[r] EXCEPT !.pc = "read", !.balance = b] \in Request
        BY <2>1, <2>3 DEF Request
    <2> QED
        BY <1>1, <1>2, <2>2, <2>4
<1>5. CASE VatPost(r)
    <2>1. transfer' = [transfer EXCEPT ![r] = [transfer[r] EXCEPT !.pc = "posted"]]
        BY <1>5 DEF VatPost
    <2>2. [transfer[r] EXCEPT !.pc = "posted"] \in Request
        BY <1>1 DEF Request
    <2> QED
        BY <1>2, <2>1, <2>2
<1>6. CASE VatReject(r) \/ VatSeal(r)
    BY <1>1, <1>2, <1>6 DEF VatReject, VatSeal
<1> QED
    BY <1>3, <1>4, <1>5, <1>6 DEF VatStep

LEMMA VatNextSeries ==
    ASSUME SInv, VatTypeOK, VatInv, [VatRunning \/ VatRestart]_vatVars
    PROVE  SInv' /\ VatTypeOK'
<1>1. SInv'
    <2>1. ASSUME [Next]_vars PROVE SInv'
        BY <2>1, NextKept DEF SeriesKept
    <2> QED
        BY <2>1, VatPostSeries, VatStepSeries
        DEF VatRunning, VatRestart, VatStep, Next, vatVars, SeriesKept
<1>2. transfer' \in [Requests -> Request]
    <2>1. Idle \in Request
        BY DEF Idle, Request
    <2>2. transfer \in [Requests -> Request]
        BY DEF VatTypeOK, Request
    <2> QED
        BY <2>1, <2>2, RequestTypes DEF VatRunning, VatRestart, vatVars
<1> QED
    BY <1>1, <1>2 DEF SInv, VatTypeOK, Request

LEMMA VatInductive == VatSpec => [](VatInv /\ SInv /\ VatTypeOK)
<1>1. /\ VatInv /\ SInv /\ VatTypeOK
      /\ [VatRunning \/ VatRestart]_vatVars
      => VatInv' /\ SInv' /\ VatTypeOK'
    BY VatNextKeeps, VatNextSeries
<1> QED
    BY <1>1, InitVatInv, InitVatTypeOK, PTL DEF VatSpec

-----------------------------------------------------------------------------
(* What a step keeps beside transfers.                                     *)

LEMMA VatNextKeepsSealed ==
    ASSUME SInv, [VatRunning \/ VatRestart]_vatVars PROVE SealedKept
<1>1. ASSUME [Next]_vars PROVE SealedKept
    BY <1>1, NextKeeps
<1>2. ASSUME NEW r \in Requests, VatPost(r) PROVE SealedKept
    BY <1>2 DEF VatPost, WithNew, SealedKept, SInv, TypeOK, SeriesTypeOK
<1>3. ASSUME NEW r \in Requests, VatSeal(r) PROVE SealedKept
    <2>1. CASE SealVerificationsTx(FALSE, locks, fiscalYears)
        BY <1>3, <2>1, SealingKeeps DEF VatSeal
    <2>2. CASE UNCHANGED <<ver, hash>>
        BY <2>2, UntouchedKeeps
    <2> QED
        BY <1>3, <2>1, <2>2 DEF VatSeal
<1> QED
    BY <1>1, <1>2, <1>3
    DEF VatRunning, VatRestart, VatStep, VatCheck, VatRead, VatReject, Next,
        vatVars

(* A transfer reverses nothing. *)
LEMMA VatNextCancels ==
    ASSUME SInv, StornoCancels, [VatRunning \/ VatRestart]_vatVars
    PROVE  StornoCancels'
<1>1. SeriesTypeOK /\ clock \in 0..MaxClock
    BY DEF SInv, TypeOK
<1>2. ASSUME [Next]_vars PROVE StornoCancels'
    BY <1>2, NextCancels
<1>3. ASSUME NEW r \in Requests, VatPost(r) PROVE StornoCancels'
    <2> DEFINE v == NewVerification(EndOf(transfer[r].period), "MOMSOMFORING",
                                    "posted", NoAttachment,
                                    -transfer[r].balance, 0)
    <2>1. v.ref = 0
        BY DEF NewVerification
    <2>2. ver' = WithNew(v)
        BY <1>3 DEF VatPost
    <2> HIDE DEF v
    <2> QED
        BY <1>1, <2>1, <2>2, BookingCancels
<1>4. ASSUME NEW r \in Requests, VatSeal(r) PROVE StornoCancels'
    <2>1. CASE ver' = Filled
        BY <1>1, <2>1, FillingCancels
    <2>2. CASE UNCHANGED ver
        BY <2>2 DEF StornoCancels
    <2> QED
        BY <1>4, <2>1, <2>2 DEF VatSeal, SealVerificationsTx
<1> QED
    BY <1>2, <1>3, <1>4
    DEF VatRunning, VatRestart, VatStep, VatCheck, VatRead, VatReject, Next,
        vatVars

-----------------------------------------------------------------------------
(* Drafts in closed months, as long as the process stays up.               *)

NoGap == DOMAIN ver = 1..seq

(* Posting leaves no number out, and neither does anything else. *)
LEMMA NoGapKept ==
    ASSUME SInv, NoGap, VatRunning \/ UNCHANGED vatVars
    PROVE  NoGap'
<1>1. SeriesTypeOK /\ clock \in 0..MaxClock /\ seq \in Nat
    BY DEF SInv, TypeOK, SeriesTypeOK
<1>2. ASSUME NEW v, ver' = WithNew(v), seq' = seq + 1 PROVE NoGap'
    BY <1>1, <1>2 DEF WithNew, NoGap
<1>3. ASSUME ver' = Filled, seq' = seq PROVE NoGap'
    BY <1>1, <1>3, FillingGaps DEF NoGap
<1>4. ASSUME DOMAIN ver' = DOMAIN ver, seq' = seq PROVE NoGap'
    BY <1>4 DEF NoGap
<1>5. ASSUME Running PROVE NoGap'
    BY <1>2, <1>3, <1>4, <1>5
    DEF Running, PostVerification, RejectVerification, StornoVerification,
        VoidDraftVerification, LockPeriod, LockFiscalYear, SealVerifications,
        FillSequenceGaps, AutoSealCheck, AutoSealRun, Tick, SealVerificationsTx
<1>6. ASSUME NEW r \in Requests, VatStep(r) \/ \E p \in Periods : VatCheck(r, p)
      PROVE  NoGap'
    BY <1>2, <1>3, <1>4, <1>6
    DEF VatStep, VatCheck, VatRead, VatPost, VatReject, VatSeal,
        SealVerificationsTx, vars
<1> QED
    BY <1>4, <1>5, <1>6 DEF VatRunning, vatVars, vars

(* Without a gap the seal of a transfer cannot be refused, and it takes    *)
(* every draft. *)
LEMMA VatSealSeals ==
    ASSUME SInv, NoGap, NEW r \in Requests, VatSeal(r) PROVE ClosedIsSealed'
<1>1. Gaps = {}
    BY DEF Gaps, NoGap
<1>2. SealVerificationsTx(FALSE, locks, fiscalYears)
    BY <1>1 DEF VatSeal, CanFillGaps
<1> QED
    BY <1>2, LockAndSeal DEF VatSeal, SInv, TypeOK

LEMMA DraftsKept ==
    ASSUME SInv, VatTypeOK, NoGap, DraftsOnlyDuringTransfer,
           VatRunning \/ UNCHANGED vatVars
    PROVE  DraftsOnlyDuringTransfer'
<1>1. transfer \in [Requests -> Request]
    BY DEF VatTypeOK, Request
<1>2. ASSUME NEW r \in Requests, VatSeal(r) PROVE DraftsOnlyDuringTransfer'
    BY <1>2, VatSealSeals DEF DraftsOnlyDuringTransfer
<1>3. ASSUME NEW r \in Requests, VatPost(r) PROVE DraftsOnlyDuringTransfer'
    BY <1>1, <1>3 DEF VatPost, DraftsOnlyDuringTransfer, Request
<1>4. ASSUME SeriesKept,
             \A r \in Requests : transfer[r].pc = "posted" => transfer'[r].pc = "posted"
      PROVE  DraftsOnlyDuringTransfer'
    BY <1>4 DEF SeriesKept, DraftsOnlyDuringTransfer
<1>5. ASSUME NEW r \in Requests,
             VatRead(r) \/ VatReject(r) \/ \E p \in Periods : VatCheck(r, p)
      PROVE  DraftsOnlyDuringTransfer'
    <2>1. SeriesKept
        BY <1>5, VatStepSeries
    <2>2. transfer[r].pc # "posted"
        BY <1>5 DEF VatRead, VatReject, VatCheck
    <2>3. \A q \in Requests \ {r} : transfer'[q] = transfer[q]
        BY <1>1, <1>5 DEF VatRead, VatReject, VatCheck
    <2> QED
        BY <1>4, <2>1, <2>2, <2>3
<1>6. ASSUME Running \/ UNCHANGED vars, UNCHANGED transfer
      PROVE  DraftsOnlyDuringTransfer'
    BY <1>4, <1>6, NextKept DEF Next
<1> QED
    BY <1>2, <1>3, <1>5, <1>6 DEF VatRunning, VatStep, vatVars

-----------------------------------------------------------------------------
(* The theorems.                                                           *)

(* Every request under way is at a step of TransferVat with a period of    *)
(* one year and a whole balance, and the series beside it is well typed.   *)
THEOREM TransfersAreTyped == VatSpec => []VatTypeOK
BY VatInductive, PTL

(* VerifyChain also succeeds while transfers book, lock and seal in        *)
(* transactions of their own, and after one was cut off (vat.go:283-353).  *)
THEOREM ChainVerifiesWithTransfers == VatSpec => []ChainVerifies
BY VatInductive, PTL DEF SInv

(* The sealed verifications stay the first ones beside transfers.          *)
THEOREM SealedPrefixWithTransfers == VatSpec => []SealedIsPrefix
BY VatInductive, PTL DEF SInv

(* The sealed part is an append-only log for transfers as well: whatever   *)
(* they book, lock and seal, and wherever they are cut off, nothing sealed *)
(* is changed, unsealed or followed by a hole (vat.go:283-353).            *)
THEOREM SealedPartIsWormLogWithTransfers == VatSpec => ImplementsWormLog
<1>1. VatInit => Log!Init
    BY DEF VatInit, Init, Log!Init, Genesis, SealedLog
<1>2. /\ VatInv /\ SInv /\ VatTypeOK
      /\ [VatRunning \/ VatRestart]_vatVars
      => Log!Write
    BY VatNextSeries, VatNextKeepsSealed, KeepingIsWriting
<1> QED
    BY <1>1, <1>2, VatInductive, PTL DEF VatSpec, ImplementsWormLog, Log!Spec

(* Reversals cancel what they reverse, once, also where the verification   *)
(* of a transfer is reversed (storno.go:25-47).                            *)
THEOREM StornosCancelWithTransfers == VatSpec => []StornoCancels
<1>1. VatInit => StornoCancels
    BY DEF VatInit, Init, StornoCancels
<1>2. /\ SInv /\ StornoCancels /\ [VatRunning \/ VatRestart]_vatVars
      => StornoCancels'
    BY VatNextCancels
<1> QED
    BY <1>1, <1>2, VatInductive, PTL DEF VatSpec

(* A series that starts without a gap has a draft in a closed month only   *)
(* while a transfer is between its two transactions, as long as the        *)
(* process is not killed there (vat.go:341-353).                           *)
THEOREM DraftsAreOfTransfers ==
    ASSUME InitialIds = 1..LastInitialId
    PROVE  VatFairSpec => []DraftsOnlyDuringTransfer
<1>1. VatInit => NoGap /\ DraftsOnlyDuringTransfer
    BY InitVatTypeOK DEF VatInit, Init, NoGap, DraftsOnlyDuringTransfer
<1> DEFINE Drafts == VatInv /\ SInv /\ VatTypeOK /\ NoGap /\ DraftsOnlyDuringTransfer
<1>2. VatInit => Drafts
    BY <1>1, InitVatInv, InitVatTypeOK
<1>3. Drafts /\ [VatRunning]_vatVars => Drafts'
    BY VatNextKeeps, VatNextSeries, NoGapKept, DraftsKept
<1>4. VatFairSpec => VatInit /\ [][VatRunning]_vatVars
    BY PTL DEF VatFairSpec
<1>5. Drafts => DraftsOnlyDuringTransfer
    OBVIOUS
<1> HIDE DEF Drafts
<1> QED
    BY <1>2, <1>3, <1>4, <1>5, PTL

(* No month is the end of two transfers, whatever requests overlap and     *)
(* whenever the process is killed (vat.go:283-338).                        *)
THEOREM TransfersAreUnique == VatSpec => []TransferredOnce
<1>1. VatInv => TransferredOnce
    BY DEF VatInv, TransferInv
<1> QED
    BY <1>1, InitVatInv, VatNextKeeps, PTL DEF VatSpec

(* Nothing is added to a closed month, by a transfer half done or by       *)
(* anything else (verification.go:169-191, vat.go:304).                    *)
THEOREM ClosedMonthsAreComplete == VatSpec => ClosedMonthNotExtended
<1>1. VatInv /\ [VatRunning \/ VatRestart]_vatVars
          => [\A m \in Months : Closed(m) => DatedIn(m)' = DatedIn(m)]_vatVars
    BY VatNextKeeps DEF NotExtended
<1>2. VatInv /\ [VatRunning \/ VatRestart]_vatVars => VatInv'
    BY VatNextKeeps
<1> QED
    BY <1>1, <1>2, InitVatInv, PTL DEF VatSpec, ClosedMonthNotExtended
=============================================================================
