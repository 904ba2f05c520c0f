---------------------------- MODULE PostingForm ----------------------------
(***************************************************************************)
(* The form that books a verification (frontend/static/js/app.js): the     *)
(* inbox drawer, the receipt that is loaded into the form, the scan of the *)
(* receipt and submitPost.  The page runs one callback at a time; whatever *)
(* follows an await is a step of its own, and any other callback may run   *)
(* in between.                                                             *)
(*                                                                         *)
(* A receipt stands for its file, its vendor and its amount.  A content is *)
(* what the user typed into a blank form, with balanced rows, whatever     *)
(* account a scan puts on one of them; content 0 is a form whose rows do   *)
(* not balance or have no amount.                                          *)
(***************************************************************************)
EXTENDS Naturals, FiniteSets

CONSTANTS
    Items,          \* receipts that come through the inbox
    Files,          \* receipts that are dropped from the disk
    Accepted,       \* the receipts of a type and size that the form takes
    Nothing,        \* no receipt, no text
    Own,            \* typed by the user
    Submits,        \* the calls of submitPost that may be under way
    MaxContent,     \* bound: the contents the user types in
    MaxCopies,      \* bound: the verifications booked of one content
    MaxHaste        \* bound: how often the user does not wait

Receipts == Items \cup Files

ASSUME PostingFormAssumption ==
    /\ Items \cap Files = {}
    /\ Accepted \subseteq Receipts
    /\ Nothing \notin Receipts \cup {Own}
    /\ Own \notin Receipts
    /\ MaxContent \in Nat
    /\ MaxCopies \in Nat
    /\ MaxHaste \in Nat

VARIABLES
    (* the server *)
    inbox,          \* the items of the inbox
    gone,           \* the items that have been deleted from it
    archived,       \* the receipts attached to a verification
    copies,         \* how many verifications a content has been booked as
    (* the page *)
    inboxItems,     \* the items the drawer shows
    form,           \* the form
    prompt,         \* where templatePrompt.amount comes from
    isScanningOcr,  \* the flag that holds submitPost back
    loads,          \* items being downloaded
    reads,          \* receipts in a FileReader
    scans,          \* receipts being scanned
    submit,         \* submit[s] is how far call s of submitPost has come
    (* what has happened, for the properties *)
    discarded,      \* the items the user deleted from the drawer
    haste,          \* how often the user did not wait for what was under way
    mishap          \* what has gone less than smoothly so far

serverVars == <<inbox, gone, archived, copies>>
formVars == <<form, prompt>>
receiptVars == <<isScanningOcr, loads, reads, scans>>
vars == <<serverVars, inboxItems, formVars, receiptVars, submit, discarded,
          haste, mishap>>

BlankForm == [text |-> Nothing, content |-> 0, dateInYear |-> TRUE,
              attachment |-> Nothing, inboxItemId |-> Nothing]

NoSubmit == [pc |-> "idle", content |-> 0, receipt |-> Nothing,
             item |-> Nothing]

Posting == \E s \in Submits : submit[s].pc # "idle"

Busy == loads \cup reads \cup scans # {} \/ Posting

Note(what) == mishap' = mishap \cup what

(* The user does something, and what was under way has not come to its end.*)
UserActs(underWay) ==
    /\ haste' = haste + IF underWay THEN 1 ELSE 0
    /\ haste' <= MaxHaste

Contents == 1..MaxContent
Used == {c \in Contents : copies[c] > 0} \cup {form.content}
        \cup {submit[s].content : s \in Submits}

-----------------------------------------------------------------------------
(* The inbox drawer.                                                       *)

(* New files arrive in the cloud folder; those fetched are shown at once.  *)
FetchCloudInbox ==
    \E new \in SUBSET (Items \ (inbox \cup gone)) :
        /\ inbox' = inbox \cup new
        /\ inboxItems' = IF new # {} THEN inbox' ELSE inboxItems
        /\ UNCHANGED <<gone, archived, copies, formVars, receiptVars, submit,
                       discarded, haste, mishap>>

FetchInbox ==
    /\ inboxItems' = inbox
    /\ UNCHANGED <<serverVars, formVars, receiptVars, submit, discarded,
                   haste, mishap>>

(* The item leaves the drawer only if the answer comes back.               *)
DeleteInboxItem(i) ==
    /\ i \in inboxItems \cap inbox
    /\ inbox' = inbox \ {i}
    /\ gone' = gone \cup {i}
    /\ inboxItems' \in {inboxItems \ {i}, inboxItems}
    /\ discarded' = discarded \cup {i}
    /\ UNCHANGED <<archived, copies, formVars, receiptVars, submit, haste,
                   mishap>>

-----------------------------------------------------------------------------
(* A receipt gets into the form.                                           *)

(* Only now is the file looked at; what is not accepted is dropped.        *)
ProcessDroppedFile(r) == reads' = reads \cup ({r} \cap Accepted)

LoadInboxItemToForm(i) ==
    /\ i \in inboxItems \cap inbox
    /\ loads' = loads \cup {i}
    /\ UserActs(Busy)
    /\ UNCHANGED <<serverVars, inboxItems, formVars, isScanningOcr, reads,
                   scans, submit, discarded, mishap>>

(* The download is there: the form remembers the item, to delete it when   *)
(* it is booked, before the file is looked at.                             *)
LoadArrives(i) ==
    /\ i \in loads
    /\ loads' = loads \ {i}
    /\ form' = [form EXCEPT !.inboxItemId = i]
    /\ ProcessDroppedFile(i)
    /\ Note(IF i \in Accepted THEN {} ELSE {"rejected"})
    /\ UNCHANGED <<serverVars, inboxItems, prompt, isScanningOcr, scans,
                   submit, discarded, haste>>

LoadFails(i) ==
    /\ i \in loads
    /\ loads' = loads \ {i}
    /\ UNCHANGED <<serverVars, inboxItems, formVars, isScanningOcr, reads,
                   scans, submit, discarded, haste, mishap>>

(* Mutant of HandleFileDrop: the item of the receipt before stays.         *)
HandleFileDropKeepsItem(f) ==
    /\ f \in Files
    /\ ProcessDroppedFile(f)
    /\ UserActs(Busy)
    /\ UNCHANGED <<serverVars, inboxItems, formVars, isScanningOcr, loads,
                   scans, submit, discarded, mishap>>

(* A file from the disk takes the place of an item.                        *)
HandleFileDrop(f) ==
    /\ f \in Files
    /\ form' = [form EXCEPT !.inboxItemId = Nothing]
    /\ ProcessDroppedFile(f)
    /\ UserActs(Busy)
    /\ UNCHANGED <<serverVars, inboxItems, prompt, isScanningOcr, loads,
                   scans, submit, discarded, mishap>>

(* reader.onload: the receipt is in the form and its scan begins.          *)
ReaderLoaded(r) ==
    /\ r \in reads
    /\ reads' = reads \ {r}
    /\ form' = [form EXCEPT !.attachment = r]
    /\ isScanningOcr' = TRUE
    /\ scans' = scans \cup {r}
    /\ UNCHANGED <<serverVars, inboxItems, prompt, loads, submit, discarded,
                   haste, mishap>>

(* The button is not shown during a scan.  The item stays remembered.      *)
RemoveAttachment ==
    /\ form.attachment # Nothing
    /\ ~isScanningOcr
    /\ form' = [form EXCEPT !.attachment = Nothing]
    /\ UserActs(Busy)
    /\ Note(IF form.inboxItemId # Nothing THEN {"removed"} ELSE {})
    /\ UNCHANGED <<serverVars, inboxItems, prompt, receiptVars, submit,
                   discarded>>

-----------------------------------------------------------------------------
(* The scan.                                                               *)

(* rasterizePDF and the text recognition either give a text or fail, and   *)
(* so does the parser of the server.  Any of the fields may be missing.    *)
Parsed == [vendor : BOOLEAN, amount : BOOLEAN, date : {"none", "in", "out"}]

(* What the answer of the parser does to the form: a text that is there    *)
(* stays, an amount in the prompt stays, a date is always taken over.      *)
FilledIn(r, data) ==
    /\ form' = [form EXCEPT
           !.text = IF data.vendor /\ @ = Nothing THEN r ELSE @,
           !.dateInYear = IF data.date = "none" THEN @ ELSE data.date = "in"]
    /\ prompt' = IF data.amount /\ prompt = Nothing THEN r ELSE prompt

(* Mutant of PerformOCR: the flag stays up when a scan fails.              *)
PerformOCRKeepsFlag(r) ==
    /\ r \in scans
    /\ scans' = scans \ {r}
    /\ \/ (\E data \in Parsed : FilledIn(r, data)) /\ isScanningOcr' = FALSE
       \/ UNCHANGED <<formVars, isScanningOcr>>
    /\ UNCHANGED <<serverVars, inboxItems, loads, reads, submit, discarded,
                   haste, mishap>>

PerformOCR(r) ==
    /\ r \in scans
    /\ scans' = scans \ {r}
    /\ isScanningOcr' = FALSE
    /\ (\E data \in Parsed : FilledIn(r, data)) \/ UNCHANGED formVars
    /\ UNCHANGED <<serverVars, inboxItems, loads, reads, submit, discarded,
                   haste, mishap>>

-----------------------------------------------------------------------------
(* The user.                                                               *)

(* Text, a date of the year and rows that balance.                         *)
FillIn ==
    /\ form.content = 0
    /\ \E c \in Contents \ Used :
          form' = [form EXCEPT !.text = IF @ = Nothing THEN Own ELSE @,
                               !.content = c, !.dateInYear = TRUE]
    /\ UserActs(Posting)
    /\ UNCHANGED <<serverVars, inboxItems, prompt, receiptVars, submit,
                   discarded, mishap>>

(* The rows of a template replace those of the form, and the prompt is     *)
(* empty again (applyTemplateAmount; Amounts has the rows).                *)
ApplyTemplateAmount ==
    /\ prompt # Nothing
    /\ \E c \in Contents \ Used :
          form' = [form EXCEPT !.text = IF @ = Nothing THEN Own ELSE @,
                               !.content = c]
    /\ prompt' = Nothing
    /\ UserActs(Posting)
    /\ UNCHANGED <<serverVars, inboxItems, receiptVars, submit, discarded,
                   mishap>>

CancelTemplate ==
    /\ prompt # Nothing
    /\ prompt' = Nothing
    /\ UNCHANGED <<serverVars, inboxItems, form, receiptVars, submit,
                   discarded, haste, mishap>>

-----------------------------------------------------------------------------
(* submitPost.                                                             *)

(* Mutant of SubmitPost: the scan does not hold it back.                   *)
SubmitPostDuringScan(s) ==
    /\ submit[s].pc = "idle"
    /\ form.text # Nothing
    /\ form.dateInYear
    /\ form.content # 0
    /\ submit' = [submit EXCEPT ![s] =
                      [pc |-> "sent", content |-> form.content,
                       receipt |-> form.attachment, item |-> Nothing]]
    /\ UserActs(loads \cup reads # {} \/ Posting)
    /\ UNCHANGED <<serverVars, inboxItems, formVars, receiptVars, discarded,
                   mishap>>

(* Everything that is asked of the form is asked before the request.       *)
SubmitPost(s) ==
    /\ submit[s].pc = "idle"
    /\ ~isScanningOcr
    /\ form.text # Nothing
    /\ form.dateInYear
    /\ form.content # 0
    /\ submit' = [submit EXCEPT ![s] =
                      [pc |-> "sent", content |-> form.content,
                       receipt |-> form.attachment, item |-> Nothing]]
    /\ UserActs(Busy)
    /\ UNCHANGED <<serverVars, inboxItems, formVars, receiptVars, discarded,
                   mishap>>

(* The server books, or refuses what it is sent.                           *)
ServerBooks(s) ==
    /\ submit[s].pc = "sent"
    /\ copies[submit[s].content] < MaxCopies
    /\ copies' = [copies EXCEPT ![submit[s].content] = @ + 1]
    /\ archived' = archived \cup ({submit[s].receipt} \ {Nothing})
    /\ submit' = [submit EXCEPT ![s].pc = "booked"]
    /\ UNCHANGED <<inbox, gone, inboxItems, formVars, receiptVars, discarded,
                   haste, mishap>>

ServerRefuses(s) ==
    /\ submit[s].pc = "sent"
    /\ submit' = [submit EXCEPT ![s] = NoSubmit]
    /\ UNCHANGED <<serverVars, inboxItems, formVars, receiptVars, discarded,
                   haste, mishap>>

(* The request or its answer gets lost: the form stays as it is.           *)
AnswerLost(s) ==
    /\ submit[s].pc \in {"sent", "booked"}
    /\ submit' = [submit EXCEPT ![s] = NoSubmit]
    /\ Note({"lost"})
    /\ UNCHANGED <<serverVars, inboxItems, formVars, receiptVars, discarded,
                   haste>>

(* Mutant of ResetForm: the rows stay in the form. *)
ResetFormKeepsRows(item) ==
    form' = [form EXCEPT !.attachment = Nothing, !.inboxItemId = item]

ResetForm(item) ==
    form' = [form EXCEPT !.text = Nothing, !.content = 0,
                         !.attachment = Nothing, !.inboxItemId = item]

(* Mutant of Answered: the form is taken to remember an item in any case.  *)
AnsweredDeletesAnyway(s) ==
    /\ submit[s].pc = "booked"
    /\ submit' = [submit EXCEPT ![s].pc = "deleting",
                                ![s].item = form.inboxItemId]
    /\ UNCHANGED <<serverVars, inboxItems, formVars, receiptVars, discarded,
                   haste, mishap>>

(* The answer is there.  The item the form remembers by now is deleted     *)
(* from the inbox; without one the form is reset.                          *)
Answered(s) ==
    /\ submit[s].pc = "booked"
    /\ \/ /\ form.inboxItemId # Nothing
          /\ submit' = [submit EXCEPT ![s].pc = "deleting",
                                      ![s].item = form.inboxItemId]
          /\ UNCHANGED form
       \/ /\ form.inboxItemId = Nothing
          /\ submit' = [submit EXCEPT ![s] = NoSubmit]
          /\ ResetForm(Nothing)
    /\ UNCHANGED <<serverVars, inboxItems, prompt, receiptVars, discarded,
                   haste, mishap>>

(* The deletion is answered, with success or not, or has been done and the *)
(* answer is lost: the drawer goes on showing the item.  The form is reset.*)
DeletionAnswered(s) ==
    /\ submit[s].pc = "deleting"
    /\ \/ /\ inbox' = inbox \ {submit[s].item}
          /\ gone' = gone \cup (inbox \cap {submit[s].item})
          /\ inboxItems' \in {inboxItems \ {submit[s].item}, inboxItems}
       \/ UNCHANGED <<inbox, gone, inboxItems>>
    /\ submit' = [submit EXCEPT ![s] = NoSubmit]
    /\ ResetForm(Nothing)
    /\ UNCHANGED <<archived, copies, prompt, receiptVars, discarded, haste,
                   mishap>>

-----------------------------------------------------------------------------
Init ==
    /\ inbox \in SUBSET Items
    /\ gone = {}
    /\ archived = {}
    /\ copies = [c \in Contents |-> 0]
    /\ inboxItems = {}
    /\ form = BlankForm
    /\ prompt = Nothing
    /\ isScanningOcr = FALSE
    /\ loads = {} /\ reads = {} /\ scans = {}
    /\ submit = [s \in Submits |-> NoSubmit]
    /\ discarded = {}
    /\ haste = 0
    /\ mishap = {}

Next ==
    \/ FetchCloudInbox
    \/ FetchInbox
    \/ \E i \in Items : \/ DeleteInboxItem(i) \/ LoadInboxItemToForm(i)
                        \/ LoadArrives(i) \/ LoadFails(i)
    \/ \E f \in Files : HandleFileDrop(f)
    \/ \E r \in Receipts : ReaderLoaded(r) \/ PerformOCR(r)
    \/ RemoveAttachment
    \/ FillIn \/ ApplyTemplateAmount \/ CancelTemplate
    \/ \E s \in Submits : \/ SubmitPost(s) \/ ServerBooks(s) \/ ServerRefuses(s)
                          \/ AnswerLost(s) \/ Answered(s) \/ DeletionAnswered(s)

Spec == Init /\ [][Next]_vars

-----------------------------------------------------------------------------
(* Properties.                                                             *)

(* Every variable has its type, and a call of submitPost holds what its    *)
(* step knows.                                                             *)
TypeOK ==
    /\ inbox \subseteq Items
    /\ gone \subseteq Items
    /\ archived \subseteq Receipts
    /\ copies \in [Contents -> 0..MaxCopies]
    /\ inboxItems \subseteq Items
    /\ form \in [text : Receipts \cup {Nothing, Own}, content : 0..MaxContent,
                 dateInYear : BOOLEAN, attachment : Receipts \cup {Nothing},
                 inboxItemId : Items \cup {Nothing}]
    /\ prompt \in Receipts \cup {Nothing}
    /\ isScanningOcr \in BOOLEAN
    /\ loads \subseteq Items
    /\ reads \subseteq Receipts
    /\ scans \subseteq Receipts
    /\ submit \in [Submits -> [pc : {"idle", "sent", "booked", "deleting"},
                               content : 0..MaxContent,
                               receipt : Receipts \cup {Nothing},
                               item : Items \cup {Nothing}]]
    /\ \A s \in Submits :
          /\ submit[s].pc # "idle" => submit[s].content \in Contents
          /\ submit[s].pc = "deleting" <=> submit[s].item \in Items
    /\ discarded \subseteq Items
    /\ mishap \subseteq {"rejected", "removed", "lost"}

(* Nothing leaves the inbox that is not attached to a verification, unless *)
(* the user deleted it, the form had turned down or given up the receipt   *)
(* of the item it remembers, or somebody did not wait (app.js:2068-2073).  *)
ReceiptsKept ==
    haste = 0 /\ mishap \subseteq {"lost"}
        => gone \subseteq archived \cup discarded

(* Who waits for the answer and gets it books a form once: what has been   *)
(* booked does not stay in the form (app.js:2078-2084).                    *)
BookedOnce ==
    haste = 0 /\ "lost" \notin mishap => \A c \in Contents : copies[c] <= 1

(* The scan of a receipt ends while its receipt is in the form, so that    *)
(* vendor and date are not written into the form of another one: the flag  *)
(* holds submitPost back (app.js:2014) for as long as there is a scan.     *)
ScanForOwnReceipt ==
    haste = 0 => \A r \in scans : form.attachment = r /\ ~Posting

(* A scan that has ended one way or another, with no other under way, does *)
(* not keep the form from being booked (app.js:1787-1790).                 *)
FlagMeansScan == isScanningOcr => scans # {}

(* A scan and its form belong together from the start of the scan to its   *)
(* end, however it ends (app.js:1725-1790, 2014).                          *)
ScanOfForm ==
    /\ ScanForOwnReceipt
    /\ FlagMeansScan

-----------------------------------------------------------------------------
(* What the documents say and the code does not do.                        *)

(* "Om det kom fran inkorgen, radera det darifran nu" (app.js:2068): an    *)
(* item that is deleted by a posting is what has been booked.              *)
DeletedWasBooked == gone \subseteq archived \cup discarded
=============================================================================
