------------------------- MODULE PostingFormProofs -------------------------
(***************************************************************************)
(* Proofs about PostingForm, for every set of receipts and calls and every *)
(* bound, however many items there are and calls of submitPost.            *)
(*                                                                         *)
(* Who waits has one thing under way (OneAtATime).  The form then holds    *)
(* the receipt of the item it remembers (FormKnown), and a content that    *)
(* has not been booked (Fresh).                                            *)
(***************************************************************************)
EXTENDS PostingForm, TLAPS

Typed == TypeOK /\ haste \in Nat

(* At most one call, download, reading or scan is under way; what is       *)
(* scanned is in the form.                                                 *)
OneAtATime ==
    haste = 0 =>
        /\ \A s, t \in Submits :
              submit[s].pc # "idle" /\ submit[t].pc # "idle" => s = t
        /\ Posting => loads = {} /\ reads = {} /\ scans = {}
        /\ loads # {} => reads = {} /\ scans = {}
        /\ reads # {} => scans = {}
        /\ \A x, y \in loads : x = y
        /\ \A x, y \in reads : x = y
        /\ \A r \in scans : form.attachment = r

(* The form holds the receipt of the item it remembers or is about to; a   *)
(* call of submitPost has sent it, and then it is archived.                *)
FormKnown ==
    haste = 0 /\ mishap \subseteq {"lost"} =>
        /\ reads # {} => form.inboxItemId \in reads \cup {Nothing}
        /\ reads = {} /\ form.inboxItemId # Nothing
              => form.attachment = form.inboxItemId
        /\ \A s \in Submits :
              /\ submit[s].pc = "sent" => submit[s].receipt = form.attachment
              /\ submit[s].pc = "booked"
                    => form.attachment \in archived \cup {Nothing}
              /\ submit[s].pc = "deleting" => submit[s].item \in archived
        /\ gone \subseteq archived \cup discarded

(* Until the server books it, the content of the form has not been booked. *)
Fresh ==
    haste = 0 /\ "lost" \notin mishap =>
        /\ \A c \in Contents : copies[c] <= 1
        /\ \A s \in Submits :
              submit[s].pc = "sent" => submit[s].content = form.content
        /\ /\ \A s \in Submits : submit[s].pc \in {"idle", "sent"}
           /\ form.content # 0
           => copies[form.content] = 0

Inv == Typed /\ FlagMeansScan /\ OneAtATime /\ FormKnown /\ Fresh

-----------------------------------------------------------------------------
(* The types.                                                              *)

FormType == [text : Receipts \cup {Nothing, Own}, content : 0..MaxContent,
             dateInYear : BOOLEAN, attachment : Receipts \cup {Nothing},
             inboxItemId : Items \cup {Nothing}]

SubmitType == [pc : {"idle", "sent", "booked", "deleting"},
               content : 0..MaxContent, receipt : Receipts \cup {Nothing},
               item : Items \cup {Nothing}]

(* What a call of submitPost may hold. *)
Held(t) ==
    /\ t \in SubmitType
    /\ t.pc # "idle" => t.content \in Contents
    /\ t.pc = "deleting" <=> t.item \in Items

SubmitsTyped == submit \in [Submits -> SubmitType] /\ \A s \in Submits : Held(submit[s])

RestTyped ==
    /\ inbox \subseteq Items
    /\ gone \subseteq Items
    /\ archived \subseteq Receipts
    /\ copies \in [Contents -> 0..MaxCopies]
    /\ inboxItems \subseteq Items
    /\ prompt \in Receipts \cup {Nothing}
    /\ isScanningOcr \in BOOLEAN
    /\ loads \subseteq Items
    /\ reads \subseteq Receipts
    /\ scans \subseteq Receipts
    /\ discarded \subseteq Items
    /\ mishap \subseteq {"rejected", "removed", "lost"}
    /\ haste \in Nat

LEMMA TypeParts == Typed <=> RestTyped /\ form \in FormType /\ SubmitsTyped
BY DEF Typed, TypeOK, RestTyped, FormType, SubmitType, SubmitsTyped, Held

LEMMA FormFields ==
    ASSUME NEW f \in FormType
    PROVE  f = [text |-> f.text, content |-> f.content,
                dateInYear |-> f.dateInYear, attachment |-> f.attachment,
                inboxItemId |-> f.inboxItemId]
BY DEF FormType

(* One call of submitPost goes on. *)
LEMMA SubmitsKept ==
    ASSUME SubmitsTyped, NEW s \in Submits, NEW t, Held(t),
           submit' = [submit EXCEPT ![s] = t]
    PROVE  SubmitsTyped'
<1>1. submit' \in [Submits -> SubmitType]
    BY DEF SubmitsTyped, Held
<1>2. ASSUME NEW r \in Submits PROVE Held(submit'[r])
    BY DEF SubmitsTyped
<1> QED
    BY <1>1, <1>2 DEF SubmitsTyped, Held

LEMMA FormChanges ==
    ASSUME NEW f \in FormType, NEW c \in Contents
    PROVE  /\ [f EXCEPT !.text = IF @ = Nothing THEN Own ELSE @,
                        !.content = c] \in FormType
           /\ [f EXCEPT !.text = IF @ = Nothing THEN Own ELSE @,
                        !.content = c, !.dateInYear = TRUE] \in FormType
<1>1. c \in 0..MaxContent
    BY PostingFormAssumption DEF Contents
<1>2. PICK t \in Receipts \cup {Nothing, Own} :
          t = IF f.text = Nothing THEN Own ELSE f.text
    BY DEF FormType
<1>3. [f EXCEPT !.text = t, !.content = c] \in FormType
    BY <1>1 DEF FormType
<1>4. [f EXCEPT !.text = t, !.content = c, !.dateInYear = TRUE] \in FormType
    BY <1>1 DEF FormType
<1> QED
    BY <1>2, <1>3, <1>4

LEMMA FormReset ==
    ASSUME form \in FormType, ResetForm(Nothing)
    PROVE  /\ form' \in FormType
           /\ form'.content = 0 /\ form'.attachment = Nothing
           /\ form'.inboxItemId = Nothing
<1>1. 0 \in 0..MaxContent
    BY PostingFormAssumption
<1>2. form = [text |-> form.text, content |-> form.content,
              dateInYear |-> form.dateInYear, attachment |-> form.attachment,
              inboxItemId |-> form.inboxItemId]
    BY FormFields
<1>3. DOMAIN form' = {"text", "content", "dateInYear", "attachment", "inboxItemId"}
    BY <1>2 DEF ResetForm
<1>4. /\ form'.text = Nothing /\ form'.content = 0 /\ form'.attachment = Nothing
      /\ form'.inboxItemId = Nothing /\ form'.dateInYear = form.dateInYear
    BY <1>2 DEF ResetForm
<1>5. form' = [x \in DOMAIN form' |-> form'[x]]
    BY DEF ResetForm
<1>6. form' = [text |-> Nothing, content |-> 0, dateInYear |-> form.dateInYear,
               attachment |-> Nothing, inboxItemId |-> Nothing]
    BY <1>3, <1>4, <1>5
<1> QED
    BY <1>1, <1>4, <1>6 DEF FormType

LEMMA HeldIdle == Held(NoSubmit)
BY PostingFormAssumption DEF Held, SubmitType, NoSubmit, Receipts

LEMMA InitTyped == Init => Typed
<1> SUFFICES ASSUME Init PROVE Typed
    OBVIOUS
<1> USE PostingFormAssumption
<1>0. copies \in [Contents -> 0..MaxCopies]
    BY DEF Init
<1>1. RestTyped
    BY <1>0 DEF Init, RestTyped
<1>2. form \in FormType
    BY DEF Init, FormType, BlankForm
<1>3. SubmitsTyped
    BY HeldIdle DEF Init, SubmitsTyped, Held
<1> QED
    BY <1>1, <1>2, <1>3, TypeParts

LEMMA NextTyped == Typed /\ [Next]_vars => Typed'
<1> SUFFICES ASSUME Typed, [Next]_vars PROVE Typed'
    OBVIOUS
<1> USE PostingFormAssumption
<1>a. RestTyped /\ form \in FormType /\ SubmitsTyped
    BY TypeParts
<1>b. RestTyped' /\ form' \in FormType /\ SubmitsTyped' => Typed'
    BY DEF Typed, TypeOK, RestTyped, FormType, SubmitType, SubmitsTyped, Held
<1>c. submit' = submit => SubmitsTyped'
    BY <1>a DEF SubmitsTyped
<1>d. \A s \in Submits : submit[s] \in SubmitType /\ Held(submit[s])
    BY <1>a DEF SubmitsTyped
<1>1. CASE FetchCloudInbox
    BY <1>1, <1>a, <1>b, <1>c
    DEF FetchCloudInbox, RestTyped, formVars, receiptVars
<1>2. CASE FetchInbox
    BY <1>2, <1>a, <1>b, <1>c
    DEF FetchInbox, RestTyped, serverVars, formVars, receiptVars
<1>3. ASSUME NEW i \in Items, DeleteInboxItem(i) PROVE Typed'
    BY <1>3, <1>a, <1>b, <1>c
    DEF DeleteInboxItem, RestTyped, formVars, receiptVars
<1>4. ASSUME NEW i \in Items, LoadInboxItemToForm(i) PROVE Typed'
    BY <1>4, <1>a, <1>b, <1>c
    DEF LoadInboxItemToForm, UserActs, RestTyped, serverVars, formVars
<1>5. ASSUME NEW i \in Items, LoadArrives(i) PROVE Typed'
    <2>1. form' \in FormType
        BY <1>5, <1>a DEF LoadArrives, FormType
    <2> QED
        BY <1>5, <1>a, <1>b, <1>c, <2>1
        DEF LoadArrives, ProcessDroppedFile, Note, RestTyped, serverVars, Receipts
<1>6. ASSUME NEW i \in Items, LoadFails(i) PROVE Typed'
    BY <1>6, <1>a, <1>b, <1>c DEF LoadFails, RestTyped, serverVars, formVars
<1>7. ASSUME NEW f \in Files, HandleFileDrop(f) PROVE Typed'
    <2>1. form' \in FormType
        BY <1>7, <1>a DEF HandleFileDrop, FormType
    <2> QED
        BY <1>7, <1>a, <1>b, <1>c, <2>1
        DEF HandleFileDrop, ProcessDroppedFile, UserActs, RestTyped, serverVars,
            Receipts
<1>8. ASSUME NEW r \in Receipts, ReaderLoaded(r) PROVE Typed'
    <2>1. form' \in FormType
        BY <1>8, <1>a DEF ReaderLoaded, FormType
    <2> QED
        BY <1>8, <1>a, <1>b, <1>c, <2>1 DEF ReaderLoaded, RestTyped, serverVars
<1>9. ASSUME NEW r \in Receipts, PerformOCR(r) PROVE Typed'
    <2>1. ASSUME NEW data \in Parsed, FilledIn(r, data)
          PROVE  form' \in FormType /\ prompt' \in Receipts \cup {Nothing}
        <3>1. PICK t \in Receipts \cup {Nothing, Own}, d \in BOOLEAN :
                  form' = [form EXCEPT !.text = t, !.dateInYear = d]
            BY <2>1, <1>a, FormFields DEF FilledIn, FormType
        <3>2. prompt' \in Receipts \cup {Nothing}
            BY <2>1, <1>a DEF FilledIn, RestTyped
        <3> QED
            BY <3>1, <3>2, <1>a DEF FormType
    <2>2. form' \in FormType /\ prompt' \in Receipts \cup {Nothing}
        BY <1>9, <1>a, <2>1 DEF PerformOCR, formVars, RestTyped
    <2> QED
        BY <1>9, <1>a, <1>b, <1>c, <2>2 DEF PerformOCR, RestTyped, serverVars
<1>10. CASE RemoveAttachment
    <2>1. form' \in FormType
        BY <1>10, <1>a DEF RemoveAttachment, FormType
    <2> QED
        BY <1>10, <1>a, <1>b, <1>c, <2>1
        DEF RemoveAttachment, UserActs, Note, RestTyped, serverVars, receiptVars
<1>11. CASE FillIn
    <2>1. PICK c \in Contents :
              form' = [form EXCEPT !.text = IF @ = Nothing THEN Own ELSE @,
                                   !.content = c, !.dateInYear = TRUE]
        BY <1>11 DEF FillIn
    <2>2. form' \in FormType
        BY <2>1, <1>a, FormChanges
    <2> QED
        BY <1>11, <1>a, <1>b, <1>c, <2>2
        DEF FillIn, UserActs, RestTyped, serverVars, receiptVars
<1>12. CASE ApplyTemplateAmount
    <2>1. PICK c \in Contents :
              form' = [form EXCEPT !.text = IF @ = Nothing THEN Own ELSE @,
                                   !.content = c]
        BY <1>12 DEF ApplyTemplateAmount
    <2>2. form' \in FormType
        BY <2>1, <1>a, FormChanges
    <2> QED
        BY <1>12, <1>a, <1>b, <1>c, <2>2
        DEF ApplyTemplateAmount, UserActs, RestTyped, serverVars, receiptVars
<1>13. CASE CancelTemplate
    BY <1>13, <1>a, <1>b, <1>c
    DEF CancelTemplate, RestTyped, serverVars, receiptVars
<1>14. ASSUME NEW s \in Submits, SubmitPost(s) PROVE Typed'
    <2>1. PICK t : t = [pc |-> "sent", content |-> form.content,
                        receipt |-> form.attachment, item |-> Nothing]
        OBVIOUS
    <2>2. form.content \in Contents /\ form.attachment \in Receipts \cup {Nothing}
        BY <1>14, <1>a DEF SubmitPost, FormType, Contents
    <2>3. Held(t)
        BY <2>1, <2>2 DEF Held, SubmitType, Receipts, Contents
    <2>4. submit' = [submit EXCEPT ![s] = t]
        BY <1>14, <2>1 DEF SubmitPost
    <2>5. SubmitsTyped'
        BY <1>a, <2>3, <2>4, SubmitsKept
    <2> QED
        BY <1>14, <1>a, <1>b, <2>5
        DEF SubmitPost, UserActs, RestTyped, serverVars, formVars, receiptVars
<1>15. ASSUME NEW s \in Submits, ServerBooks(s) PROVE Typed'
    <2>1. PICK t : t = [submit[s] EXCEPT !.pc = "booked"]
        OBVIOUS
    <2>2. submit[s].content \in Contents /\ submit[s].receipt \in Receipts \cup {Nothing}
        BY <1>15, <1>d DEF ServerBooks, Held, SubmitType
    <2>3. Held(t)
        BY <1>15, <1>d, <2>1 DEF ServerBooks, Held, SubmitType
    <2>4. submit' = [submit EXCEPT ![s] = t]
        BY <1>15, <2>1 DEF ServerBooks
    <2>5. SubmitsTyped'
        BY <1>a, <2>3, <2>4, SubmitsKept
    <2>6. copies' \in [Contents -> 0..MaxCopies] /\ archived' \subseteq Receipts
        BY <1>15, <1>a, <2>2 DEF ServerBooks, RestTyped
    <2> QED
        BY <1>15, <1>a, <1>b, <2>5, <2>6
        DEF ServerBooks, RestTyped, formVars, receiptVars
<1>16. ASSUME NEW s \in Submits, ServerRefuses(s) \/ AnswerLost(s) PROVE Typed'
    <2>1. SubmitsTyped'
        BY <1>16, <1>a, HeldIdle, SubmitsKept DEF ServerRefuses, AnswerLost
    <2> QED
        BY <1>16, <1>a, <1>b, <2>1
        DEF ServerRefuses, AnswerLost, Note, RestTyped, serverVars, formVars,
            receiptVars
<1>17. ASSUME NEW s \in Submits, Answered(s) PROVE Typed'
    <2>1. form' \in FormType
        BY <1>17, <1>a, FormReset DEF Answered
    <2>2. SubmitsTyped'
        <3>1. CASE form.inboxItemId = Nothing
            BY <1>17, <1>a, <3>1, HeldIdle, SubmitsKept DEF Answered
        <3>2. CASE form.inboxItemId # Nothing
            <4>1. PICK t : t = [submit[s] EXCEPT !.pc = "deleting",
                                                 !.item = form.inboxItemId]
                OBVIOUS
            <4>2. submit' = [submit EXCEPT ![s] = t]
                BY <1>17, <3>2, <4>1 DEF Answered
            <4>3. Held(t)
                BY <1>17, <1>a, <1>d, <3>2, <4>1
                DEF Answered, Held, SubmitType, FormType
            <4> QED
                BY <1>a, <4>2, <4>3, SubmitsKept
        <3> QED
            BY <3>1, <3>2
    <2> QED
        BY <1>17, <1>a, <1>b, <2>1, <2>2
        DEF Answered, RestTyped, serverVars, receiptVars
<1>18. ASSUME NEW s \in Submits, DeletionAnswered(s) PROVE Typed'
    <2>1. form' \in FormType
        BY <1>18, <1>a, FormReset DEF DeletionAnswered
    <2>2. SubmitsTyped'
        BY <1>18, <1>a, HeldIdle, SubmitsKept DEF DeletionAnswered
    <2> QED
        BY <1>18, <1>a, <1>b, <2>1, <2>2 DEF DeletionAnswered, RestTyped, receiptVars
<1>19. CASE UNCHANGED vars
    BY <1>19, <1>a, <1>b, <1>c DEF vars, serverVars, formVars, receiptVars, RestTyped
<1> QED
    BY <1>1, <1>2, <1>3, <1>4, <1>5, <1>6, <1>7, <1>8, <1>9, <1>10, <1>11,
       <1>12, <1>13, <1>14, <1>15, <1>16, <1>17, <1>18, <1>19 DEF Next
-----------------------------------------------------------------------------
(* The steps, with what they do to the variables the invariant is about.   *)

LEMMA SubmitStep ==
    ASSUME Typed, NEW s \in Submits, NEW t, submit' = [submit EXCEPT ![s] = t]
    PROVE  \A r \in Submits : submit'[r] = IF r = s THEN t ELSE submit[r]
BY TypeParts DEF SubmitsTyped

(* Time does not run back, and what went wrong stays known. *)
LEMMA Monotone ==
    ASSUME Typed, [Next]_vars
    PROVE  /\ haste' = 0 => haste = 0
           /\ mishap \subseteq mishap'
<1>1. \/ UNCHANGED haste
      \/ UserActs(Busy) \/ UserActs(Posting)
    BY DEF Next, vars, FetchCloudInbox, FetchInbox, DeleteInboxItem,
           LoadInboxItemToForm, LoadArrives, LoadFails, HandleFileDrop,
           ReaderLoaded, PerformOCR, RemoveAttachment, FillIn,
           ApplyTemplateAmount, CancelTemplate, SubmitPost, ServerBooks,
           ServerRefuses, AnswerLost, Answered, DeletionAnswered
<1>2. haste' = 0 => haste = 0
    BY <1>1 DEF UserActs, Typed
<1>3. UNCHANGED mishap \/ \E what : Note(what)
    BY DEF Next, vars, FetchCloudInbox, FetchInbox, DeleteInboxItem,
           LoadInboxItemToForm, LoadArrives, LoadFails, HandleFileDrop,
           ReaderLoaded, PerformOCR, RemoveAttachment, FillIn,
           ApplyTemplateAmount, CancelTemplate, SubmitPost, ServerBooks,
           ServerRefuses, AnswerLost, Answered, DeletionAnswered
<1> QED
    BY <1>2, <1>3 DEF Note

LEMMA FlagKept == FlagMeansScan /\ [Next]_vars => FlagMeansScan'
BY DEF FlagMeansScan, Next, vars, serverVars, formVars, receiptVars,
       FetchCloudInbox, FetchInbox, DeleteInboxItem, LoadInboxItemToForm,
       LoadArrives, LoadFails, HandleFileDrop, ReaderLoaded, PerformOCR,
       RemoveAttachment, FillIn, ApplyTemplateAmount, CancelTemplate, SubmitPost,
       ServerBooks, ServerRefuses, AnswerLost, Answered, DeletionAnswered

(* Who waits starts nothing while something is under way. *)
LEMMA Waits ==
    ASSUME Typed, NEW underWay \in BOOLEAN, UserActs(underWay), haste' = 0
    PROVE  haste = 0 /\ ~underWay
BY DEF Typed, UserActs

-----------------------------------------------------------------------------
(* One thing at a time.                                                    *)

LEMMA OneAtATimeKept == Typed /\ OneAtATime /\ [Next]_vars => OneAtATime'
<1> SUFFICES ASSUME Typed, OneAtATime, [Next]_vars, haste' = 0
             PROVE  OneAtATime'
    BY DEF OneAtATime
<1>0. haste = 0
    BY Monotone
<1>a. OneAtATime!2
    BY <1>0 DEF OneAtATime
<1>b. ASSUME loads' \subseteq loads, reads' = reads, scans' = scans,
             form'.attachment = form.attachment, submit' = submit
      PROVE  OneAtATime'
    BY <1>a, <1>b DEF OneAtATime, Posting
<1>c. ASSUME ~Busy, submit' = submit, NEW x,
             \/ loads' \subseteq {x} /\ reads' = reads /\ scans' = scans
             \/ loads' = loads /\ reads' \subseteq {x} /\ scans' = scans
      PROVE  OneAtATime'
    BY <1>c DEF OneAtATime, Posting, Busy
<1>d. ASSUME NEW s \in Submits, submit[s].pc # "idle",
             \A r \in Submits : r # s => submit'[r] = submit[r],
             loads' = loads, reads' = reads, scans' = scans
      PROVE  OneAtATime'
    <2>1. loads = {} /\ reads = {} /\ scans = {}
        BY <1>a, <1>d DEF Posting
    <2>2. \A r \in Submits : submit'[r].pc # "idle" => submit[r].pc # "idle"
        BY <1>d
    <2> QED
        BY <1>a, <1>d, <2>1, <2>2 DEF OneAtATime, Posting
<1>1. CASE FetchCloudInbox \/ FetchInbox \/ CancelTemplate \/ UNCHANGED vars
    BY <1>1, <1>b DEF FetchCloudInbox, FetchInbox, CancelTemplate, vars, formVars,
                      receiptVars
<1>2. ASSUME NEW i \in Items, DeleteInboxItem(i) PROVE OneAtATime'
    BY <1>2, <1>b DEF DeleteInboxItem, formVars, receiptVars
<1>3. ASSUME NEW i \in Items, LoadInboxItemToForm(i) PROVE OneAtATime'
    <2>1. ~Busy
        BY <1>3, Waits DEF LoadInboxItemToForm, Busy
    <2>2. loads' = {i} /\ reads' = reads /\ scans' = scans /\ submit' = submit
        BY <1>3, <2>1 DEF LoadInboxItemToForm, Busy
    <2> QED
        BY <1>c, <2>1, <2>2
<1>4. ASSUME NEW i \in Items, LoadArrives(i) PROVE OneAtATime'
    <2>1. /\ loads = {i} /\ reads = {} /\ scans = {} /\ ~Posting
          /\ loads' = {} /\ reads' \subseteq {i} /\ scans' = {} /\ submit' = submit
        BY <1>4, <1>a DEF LoadArrives, ProcessDroppedFile
    <2> QED
        BY <2>1 DEF OneAtATime, Posting
<1>5. ASSUME NEW i \in Items, LoadFails(i) PROVE OneAtATime'
    BY <1>5, <1>b DEF LoadFails, formVars
<1>6. ASSUME NEW f \in Files, HandleFileDrop(f) PROVE OneAtATime'
    <2>1. ~Busy
        BY <1>6, Waits DEF HandleFileDrop, Busy
    <2>2. loads' = loads /\ reads' \subseteq {f} /\ scans' = scans /\ submit' = submit
        BY <1>6, <2>1 DEF HandleFileDrop, ProcessDroppedFile, Busy
    <2> QED
        BY <1>c, <2>1, <2>2
<1>7. ASSUME NEW r \in Receipts, ReaderLoaded(r) PROVE OneAtATime'
    <2>1. /\ loads = {} /\ reads = {r} /\ scans = {} /\ ~Posting
          /\ loads' = {} /\ reads' = {} /\ scans' = {r} /\ submit' = submit
        BY <1>7, <1>a DEF ReaderLoaded
    <2>2. form'.attachment = r
        BY <1>7, TypeParts DEF ReaderLoaded, FormType
    <2> QED
        BY <2>1, <2>2 DEF OneAtATime, Posting
<1>8. ASSUME NEW r \in Receipts, PerformOCR(r) PROVE OneAtATime'
    <2>1. form'.attachment = form.attachment
        BY <1>8, TypeParts DEF PerformOCR, FilledIn, FormType, formVars
    <2>2. /\ loads' = loads /\ reads' = reads /\ scans' \subseteq scans
          /\ submit' = submit
        BY <1>8 DEF PerformOCR
    <2> QED
        BY <1>a, <2>1, <2>2 DEF OneAtATime, Posting
<1>9. CASE RemoveAttachment
    <2>1. ~Busy
        BY <1>9, Waits DEF RemoveAttachment, Busy
    <2>2. loads' = {} /\ reads' = reads /\ scans' = scans /\ submit' = submit
        BY <1>9, <2>1 DEF RemoveAttachment, receiptVars, Busy
    <2> QED
        BY <1>c, <2>1, <2>2
<1>10. CASE FillIn \/ ApplyTemplateAmount
    <2>1. form'.attachment = form.attachment
        BY <1>10, TypeParts DEF FillIn, ApplyTemplateAmount, FormType
    <2> QED
        BY <1>10, <1>b, <2>1 DEF FillIn, ApplyTemplateAmount, receiptVars
<1>11. ASSUME NEW s \in Submits, SubmitPost(s) PROVE OneAtATime'
    <2>1. ~Busy
        BY <1>11, Waits DEF SubmitPost, Busy
    <2>2. /\ loads' = {} /\ reads' = {} /\ scans' = {}
          /\ \A r \in Submits : r # s => submit'[r].pc = "idle"
        BY <1>11, <2>1, SubmitStep DEF SubmitPost, receiptVars, Busy, Posting
    <2> QED
        BY <2>2 DEF OneAtATime
<1>12. ASSUME NEW s \in Submits,
              \/ ServerBooks(s) \/ ServerRefuses(s) \/ AnswerLost(s)
              \/ Answered(s) \/ DeletionAnswered(s)
       PROVE  OneAtATime'
    <2>1. /\ submit[s].pc # "idle"
          /\ loads' = loads /\ reads' = reads /\ scans' = scans
        BY <1>12 DEF ServerBooks, ServerRefuses, AnswerLost, Answered,
                     DeletionAnswered, receiptVars
    <2>2. \A r \in Submits : r # s => submit'[r] = submit[r]
        BY <1>12, TypeParts DEF ServerBooks, ServerRefuses, AnswerLost, Answered,
                                DeletionAnswered, SubmitsTyped
    <2> QED
        BY <1>d, <2>1, <2>2
<1> QED
    BY <1>1, <1>2, <1>3, <1>4, <1>5, <1>6, <1>7, <1>8, <1>9, <1>10, <1>11, <1>12
    DEF Next
-----------------------------------------------------------------------------
(* The receipt of the item.                                                *)

LEMMA FormKnownKept ==
    Typed /\ OneAtATime /\ FormKnown /\ [Next]_vars => FormKnown'
<1> SUFFICES ASSUME Typed, OneAtATime, FormKnown, [Next]_vars, haste' = 0,
                    mishap' \subseteq {"lost"}
             PROVE  FormKnown'
    BY DEF FormKnown
<1>0. haste = 0 /\ mishap \subseteq {"lost"}
    BY Monotone
<1>a. OneAtATime!2
    BY <1>0 DEF OneAtATime
<1>b. FormKnown!2
    BY <1>0 DEF FormKnown
<1>c. ASSUME UNCHANGED <<reads, submit, archived>>,
             form'.attachment = form.attachment,
             form'.inboxItemId = form.inboxItemId,
             gone' \cap (archived \cup discarded) = gone',
             discarded \subseteq discarded'
      PROVE  FormKnown'
    BY <1>b, <1>c DEF FormKnown
<1>d. gone \subseteq archived \cup discarded
    BY <1>b
<1>1. CASE FetchCloudInbox \/ FetchInbox \/ CancelTemplate \/ UNCHANGED vars
    BY <1>1, <1>c, <1>d DEF FetchCloudInbox, FetchInbox, CancelTemplate, vars,
                            serverVars, formVars, receiptVars
<1>2. ASSUME NEW i \in Items, DeleteInboxItem(i) PROVE FormKnown'
    BY <1>2, <1>b DEF DeleteInboxItem, formVars, receiptVars, FormKnown
<1>3. ASSUME NEW i \in Items, LoadInboxItemToForm(i) \/ LoadFails(i)
      PROVE  FormKnown'
    BY <1>3, <1>c, <1>d DEF LoadInboxItemToForm, LoadFails, serverVars, formVars
<1>4. ASSUME NEW i \in Items, LoadArrives(i) PROVE FormKnown'
    <2>1. i \in Accepted
        BY <1>4, "rejected" # "lost" DEF LoadArrives, Note
    <2>2. reads' = {i} /\ ~Posting
        BY <1>4, <1>a, <2>1 DEF LoadArrives, ProcessDroppedFile
    <2>3. form'.inboxItemId = i
        BY <1>4, TypeParts DEF LoadArrives, FormType
    <2>4. UNCHANGED <<submit, gone, archived, discarded>>
        BY <1>4 DEF LoadArrives, serverVars
    <2> QED
        BY <1>d, <2>2, <2>3, <2>4 DEF FormKnown, Posting
<1>5. ASSUME NEW f \in Files, HandleFileDrop(f) PROVE FormKnown'
    <2>1. ~Busy
        BY <1>5, Waits DEF HandleFileDrop, Busy
    <2>2. form'.inboxItemId = Nothing
        BY <1>5, TypeParts DEF HandleFileDrop, FormType
    <2>3. UNCHANGED <<submit, gone, archived, discarded>>
        BY <1>5 DEF HandleFileDrop, serverVars
    <2> QED
        BY <1>d, <2>1, <2>2, <2>3 DEF FormKnown, Busy, Posting
<1>6. ASSUME NEW r \in Receipts, ReaderLoaded(r) PROVE FormKnown'
    <2>1. reads = {r} /\ reads' = {} /\ ~Posting
        BY <1>6, <1>a DEF ReaderLoaded
    <2>2. form'.attachment = r /\ form'.inboxItemId \in {r, Nothing}
        BY <1>6, <1>b, <2>1, TypeParts DEF ReaderLoaded, FormType
    <2>3. UNCHANGED <<submit, gone, archived, discarded>>
        BY <1>6 DEF ReaderLoaded, serverVars
    <2> QED
        BY <1>d, <2>1, <2>2, <2>3 DEF FormKnown, Posting
<1>7. ASSUME NEW r \in Receipts, PerformOCR(r) PROVE FormKnown'
    <2>1. /\ form'.attachment = form.attachment
          /\ form'.inboxItemId = form.inboxItemId
        BY <1>7, TypeParts DEF PerformOCR, FilledIn, FormType, formVars
    <2> QED
        BY <1>7, <1>c, <1>d, <2>1 DEF PerformOCR, serverVars
<1>8. CASE RemoveAttachment
    <2>1. ~Busy
        BY <1>8, Waits DEF RemoveAttachment, Busy
    <2>2. form.inboxItemId = Nothing
        BY <1>8, "removed" # "lost" DEF RemoveAttachment, Note
    <2>3. form'.inboxItemId = Nothing
        BY <1>8, <2>2, TypeParts DEF RemoveAttachment, FormType
    <2>4. UNCHANGED <<reads, submit, gone, archived, discarded>>
        BY <1>8 DEF RemoveAttachment, serverVars, receiptVars
    <2> QED
        BY <1>d, <2>1, <2>3, <2>4 DEF FormKnown, Busy, Posting
<1>9. CASE FillIn \/ ApplyTemplateAmount
    <2>1. /\ form'.attachment = form.attachment
          /\ form'.inboxItemId = form.inboxItemId
        BY <1>9, TypeParts DEF FillIn, ApplyTemplateAmount, FormType
    <2> QED
        BY <1>9, <1>c, <1>d, <2>1 DEF FillIn, ApplyTemplateAmount, serverVars,
                                      receiptVars
<1>10. ASSUME NEW s \in Submits, SubmitPost(s) PROVE FormKnown'
    <2>1. ~Busy
        BY <1>10, Waits DEF SubmitPost, Busy
    <2>2. \A r \in Submits : submit'[r].pc = "sent" => r = s
        BY <1>10, <2>1, SubmitStep DEF SubmitPost, Busy, Posting
    <2>3. submit'[s].pc = "sent" /\ submit'[s].receipt = form.attachment
        BY <1>10, TypeParts DEF SubmitPost, SubmitsTyped
    <2>4. \A r \in Submits : submit'[r].pc \in {"idle", "sent"}
        BY <1>10, <2>1, SubmitStep DEF SubmitPost, Busy, Posting
    <2> QED
        BY <1>10, <1>b, <2>2, <2>3, <2>4
        DEF SubmitPost, FormKnown, serverVars, formVars, receiptVars
<1>11. ASSUME NEW s \in Submits, ServerBooks(s) PROVE FormKnown'
    <2>1. submit[s].pc = "sent" /\ submit[s].receipt = form.attachment
        BY <1>11, <1>b DEF ServerBooks
    <2>2. archived \subseteq archived' /\ form.attachment \in archived' \cup {Nothing}
        BY <1>11, <2>1 DEF ServerBooks
    <2>3. \A r \in Submits :
              submit'[r].pc = (IF r = s THEN "booked" ELSE submit[r].pc)
              /\ submit'[r].receipt = submit[r].receipt
              /\ submit'[r].item = submit[r].item
        BY <1>11, TypeParts DEF ServerBooks, SubmitsTyped, SubmitType
    <2>4. UNCHANGED <<reads, form, gone, discarded>>
        BY <1>11 DEF ServerBooks, formVars, receiptVars
    <2> QED
        BY <1>b, <2>2, <2>3, <2>4 DEF FormKnown
<1>12. ASSUME NEW s \in Submits, ServerRefuses(s) \/ AnswerLost(s)
       PROVE  FormKnown'
    <2>1. \A r \in Submits : submit'[r] = IF r = s THEN NoSubmit ELSE submit[r]
        BY <1>12, SubmitStep DEF ServerRefuses, AnswerLost
    <2>2. UNCHANGED <<reads, form, gone, archived, discarded>>
        BY <1>12 DEF ServerRefuses, AnswerLost, serverVars, formVars, receiptVars
    <2> QED
        BY <1>b, <2>1, <2>2 DEF FormKnown, NoSubmit
<1>13. ASSUME NEW s \in Submits, Answered(s) PROVE FormKnown'
    <2>1. submit[s].pc = "booked" /\ reads = {} /\ reads' = {}
        BY <1>13, <1>a DEF Answered, Posting, receiptVars
    <2>2. UNCHANGED <<gone, archived, discarded>>
        BY <1>13 DEF Answered, serverVars
    <2>3. \A r \in Submits : r # s => submit'[r].pc = "idle"
        BY <1>13, <1>a, <2>1, TypeParts DEF Answered, SubmitsTyped
    <2>4. CASE form.inboxItemId # Nothing
        <3>1. form.inboxItemId \in archived
            BY <1>b, <2>1, <2>4
        <3>2. /\ form' = form
              /\ submit'[s].pc = "deleting" /\ submit'[s].item = form.inboxItemId
            BY <1>13, <2>4, TypeParts DEF Answered, SubmitsTyped, SubmitType
        <3> QED
            BY <1>b, <2>1, <2>2, <2>3, <3>1, <3>2 DEF FormKnown
    <2>5. CASE form.inboxItemId = Nothing
        <3>1. form'.inboxItemId = Nothing
            BY <1>13, <2>5, TypeParts, FormReset DEF Answered
        <3>2. submit'[s].pc = "idle"
            BY <1>13, <2>5, SubmitStep DEF Answered, NoSubmit
        <3> QED
            BY <1>b, <2>1, <2>2, <2>3, <3>1, <3>2 DEF FormKnown
    <2> QED
        BY <2>4, <2>5
<1>14. ASSUME NEW s \in Submits, DeletionAnswered(s) PROVE FormKnown'
    <2>1. submit[s].pc = "deleting" /\ reads = {} /\ reads' = {}
        BY <1>14, <1>a DEF DeletionAnswered, Posting, receiptVars
    <2>2. submit[s].item \in archived
        BY <1>b, <2>1
    <2>3. gone' \subseteq gone \cup {submit[s].item} /\ UNCHANGED <<archived, discarded>>
        BY <1>14 DEF DeletionAnswered
    <2>4. \A r \in Submits : submit'[r] = IF r = s THEN NoSubmit ELSE submit[r]
        BY <1>14, TypeParts DEF DeletionAnswered, SubmitsTyped
    <2>5. \A r \in Submits : submit'[r].pc = "idle"
        BY <1>a, <2>1, <2>4 DEF NoSubmit
    <2>6. form'.inboxItemId = Nothing
        BY <1>14, TypeParts, FormReset DEF DeletionAnswered
    <2> QED
        BY <1>d, <2>1, <2>2, <2>3, <2>5, <2>6 DEF FormKnown
<1> QED
    BY <1>1, <1>2, <1>3, <1>4, <1>5, <1>6, <1>7, <1>8, <1>9, <1>10, <1>11,
       <1>12, <1>13, <1>14 DEF Next
-----------------------------------------------------------------------------
(* What has been booked.                                                   *)

LEMMA FreshKept == Typed /\ OneAtATime /\ Fresh /\ [Next]_vars => Fresh'
<1> SUFFICES ASSUME Typed, OneAtATime, Fresh, [Next]_vars, haste' = 0,
                    "lost" \notin mishap'
             PROVE  Fresh'
    BY DEF Fresh
<1> USE PostingFormAssumption
<1>0. haste = 0 /\ "lost" \notin mishap
    BY Monotone
<1>a. OneAtATime!2
    BY <1>0 DEF OneAtATime
<1>b. Fresh!2
    BY <1>0 DEF Fresh
<1>c. copies \in [Contents -> 0..MaxCopies]
    BY TypeParts DEF RestTyped
<1>d. ASSUME UNCHANGED <<submit, copies>>, form'.content = form.content
      PROVE  Fresh'
    BY <1>b, <1>d DEF Fresh
<1>1. CASE FetchCloudInbox \/ FetchInbox \/ CancelTemplate \/ UNCHANGED vars
    BY <1>1, <1>d DEF FetchCloudInbox, FetchInbox, CancelTemplate, vars,
                      serverVars, formVars
<1>2. ASSUME NEW i \in Items,
             \/ DeleteInboxItem(i) \/ LoadInboxItemToForm(i) \/ LoadFails(i)
      PROVE  Fresh'
    BY <1>2, <1>d DEF DeleteInboxItem, LoadInboxItemToForm, LoadFails,
                      serverVars, formVars
<1>3. ASSUME NEW r \in Receipts,
             LoadArrives(r) \/ HandleFileDrop(r) \/ ReaderLoaded(r)
      PROVE  Fresh'
    <2>1. form'.content = form.content
        BY <1>3, TypeParts
        DEF LoadArrives, HandleFileDrop, ReaderLoaded, FormType
    <2> QED
        BY <1>3, <1>d, <2>1
        DEF LoadArrives, HandleFileDrop, ReaderLoaded, serverVars
<1>4. ASSUME NEW r \in Receipts, PerformOCR(r) PROVE Fresh'
    <2>1. form'.content = form.content
        BY <1>4, TypeParts DEF PerformOCR, FilledIn, FormType, formVars
    <2> QED
        BY <1>4, <1>d, <2>1 DEF PerformOCR, serverVars
<1>5. CASE FillIn \/ ApplyTemplateAmount
    <2>1. ~Posting
        BY <1>5, Waits DEF FillIn, ApplyTemplateAmount, Posting
    <2>2. PICK c \in Contents \ Used : form'.content = c
        BY <1>5, TypeParts DEF FillIn, ApplyTemplateAmount, FormType
    <2>3. copies[c] = 0
        BY <1>c, <2>2 DEF Used
    <2>4. UNCHANGED <<submit, copies>>
        BY <1>5 DEF FillIn, ApplyTemplateAmount, serverVars
    <2> QED
        BY <1>b, <2>1, <2>2, <2>3, <2>4 DEF Fresh, Posting
<1>6. ASSUME NEW s \in Submits, SubmitPost(s) PROVE Fresh'
    <2>1. ~Busy
        BY <1>6, Waits DEF SubmitPost, Busy
    <2>2. /\ submit'[s].pc = "sent" /\ submit'[s].content = form.content
          /\ \A r \in Submits : r # s => submit'[r] = submit[r]
        BY <1>6, TypeParts DEF SubmitPost, SubmitsTyped
    <2>3. UNCHANGED <<form, copies>>
        BY <1>6 DEF SubmitPost, serverVars, formVars
    <2> QED
        BY <1>b, <2>1, <2>2, <2>3 DEF Fresh, Busy, Posting
<1>7. ASSUME NEW s \in Submits, ServerBooks(s) PROVE Fresh'
    <2>1. submit[s].pc = "sent" /\ submit[s].content = form.content
        BY <1>7, <1>b DEF ServerBooks
    <2>2. form.content \in Contents
        BY <2>1, TypeParts DEF SubmitsTyped, Held
    <2>3. \A r \in Submits : r # s => submit[r].pc = "idle"
        BY <1>a, <2>1
    <2>4. copies[form.content] = 0
        BY <1>b, <2>1, <2>2, <2>3 DEF Contents
    <2>5. \A c \in Contents : copies'[c] = IF c = form.content THEN 1 ELSE copies[c]
        BY <1>7, <1>c, <2>1, <2>2, <2>4 DEF ServerBooks
    <2>6. submit'[s].pc = "booked" /\ \A r \in Submits : r # s => submit'[r] = submit[r]
        BY <1>7, TypeParts DEF ServerBooks, SubmitsTyped, SubmitType
    <2> QED
        BY <1>b, <2>3, <2>5, <2>6 DEF Fresh
<1>8. ASSUME NEW s \in Submits, ServerRefuses(s) PROVE Fresh'
    <2>1. submit[s].pc = "sent"
        BY <1>8 DEF ServerRefuses
    <2>2. \A r \in Submits : submit'[r] = IF r = s THEN NoSubmit ELSE submit[r]
        BY <1>8, SubmitStep DEF ServerRefuses
    <2>3. UNCHANGED <<form, copies>>
        BY <1>8 DEF ServerRefuses, serverVars, formVars
    <2> QED
        BY <1>b, <2>1, <2>2, <2>3 DEF Fresh, NoSubmit
<1>9. ASSUME NEW s \in Submits, AnswerLost(s) PROVE FALSE
    BY <1>9 DEF AnswerLost, Note
<1>10. ASSUME NEW s \in Submits, Answered(s) PROVE Fresh'
    <2>1. submit[s].pc = "booked" /\ UNCHANGED copies
        BY <1>10 DEF Answered, serverVars
    <2>2. \A r \in Submits : r # s => submit'[r].pc = "idle"
        BY <1>10, <1>a, <2>1, TypeParts DEF Answered, SubmitsTyped
    <2>3. CASE form.inboxItemId # Nothing
        <3>1. submit'[s].pc = "deleting"
            BY <1>10, <2>3, TypeParts DEF Answered, SubmitsTyped, SubmitType
        <3> QED
            BY <1>b, <2>1, <2>2, <3>1 DEF Fresh
    <2>4. CASE form.inboxItemId = Nothing
        <3>1. form'.content = 0
            BY <1>10, <2>4, TypeParts, FormReset DEF Answered
        <3>2. submit'[s].pc = "idle"
            BY <1>10, <2>4, SubmitStep DEF Answered, NoSubmit
        <3> QED
            BY <1>b, <2>1, <2>2, <3>1, <3>2 DEF Fresh
    <2> QED
        BY <2>3, <2>4
<1>11. ASSUME NEW s \in Submits, DeletionAnswered(s) PROVE Fresh'
    <2>1. submit[s].pc = "deleting" /\ UNCHANGED copies
        BY <1>11 DEF DeletionAnswered
    <2>2. \A r \in Submits : submit'[r] = IF r = s THEN NoSubmit ELSE submit[r]
        BY <1>11, TypeParts DEF DeletionAnswered, SubmitsTyped
    <2>3. form'.content = 0
        BY <1>11, TypeParts, FormReset DEF DeletionAnswered
    <2> QED
        BY <1>a, <1>b, <2>1, <2>2, <2>3 DEF Fresh, NoSubmit
<1>12. CASE RemoveAttachment
    <2>1. form'.content = form.content
        BY <1>12, TypeParts DEF RemoveAttachment, FormType
    <2> QED
        BY <1>12, <1>d, <2>1 DEF RemoveAttachment, serverVars
<1>13. Items \subseteq Receipts /\ Files \subseteq Receipts
    BY DEF Receipts
<1> QED
    BY <1>1, <1>2, <1>3, <1>4, <1>5, <1>6, <1>7, <1>8, <1>9, <1>10, <1>11, <1>12,
       <1>13 DEF Next

-----------------------------------------------------------------------------
(* The inductive invariant, and what follows from it.                      *)

LEMMA InitInv == Init => Inv
<1> SUFFICES ASSUME Init PROVE Inv
    OBVIOUS
<1>1. Typed
    BY InitTyped
<1>2. /\ form.content = 0 /\ form.inboxItemId = Nothing
      /\ \A s \in Submits : submit[s].pc = "idle"
    BY DEF Init, BlankForm, NoSubmit
<1>3. FlagMeansScan /\ OneAtATime
    BY <1>2 DEF Init, FlagMeansScan, OneAtATime, Posting
<1>4. FormKnown
    BY <1>2 DEF Init, FormKnown
<1>5. Fresh
    <2>1. \A c \in Contents : copies[c] <= 1
        BY DEF Init
    <2> QED
        BY <1>2, <2>1 DEF Fresh
<1> QED
    BY <1>1, <1>3, <1>4, <1>5 DEF Inv

LEMMA Inductive == Spec => []Inv
<1>1. Inv /\ [Next]_vars => Inv'
    BY NextTyped, FlagKept, OneAtATimeKept, FormKnownKept, FreshKept DEF Inv
<1> QED
    BY <1>1, InitInv, PTL DEF Spec

(* The columns of the form have their types, and a call of submitPost      *)
(* holds what its step knows (app.js:1994-2090).                           *)
THEOREM FormTyped == Spec => []TypeOK
<1>1. Inv => TypeOK
    BY DEF Inv, Typed
<1> QED
    BY <1>1, Inductive, PTL

(* Who waits loses no receipt: an item that leaves the inbox is attached   *)
(* to a verification, or was deleted by hand (app.js:2068-2073).           *)
THEOREM NoReceiptIsLost == Spec => []ReceiptsKept
<1>1. Inv => ReceiptsKept
    BY DEF Inv, FormKnown, ReceiptsKept
<1> QED
    BY <1>1, Inductive, PTL

(* Who waits for the answer and gets it books a form once                  *)
(* (app.js:2078-2084). *)
THEOREM FormsAreBookedOnce == Spec => []BookedOnce
<1>1. Inv => BookedOnce
    BY DEF Inv, Fresh, BookedOnce
<1> QED
    BY <1>1, Inductive, PTL

(* Scan and form belong together from the start of the scan to its end     *)
(* (app.js:1725-1790, 2014). *)
THEOREM ScansStayWithTheirForm == Spec => []ScanOfForm
<1>1. Inv => ScanOfForm
    BY DEF Inv, OneAtATime, ScanOfForm, ScanForOwnReceipt
<1> QED
    BY <1>1, Inductive, PTL
=============================================================================
