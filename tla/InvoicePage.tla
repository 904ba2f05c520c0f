---------------------------- MODULE InvoicePage ----------------------------
(***************************************************************************)
(* The invoice view of the page (frontend/static/js/app.js): the list, the *)
(* invoice that is open, and the calls that save, post, pay, credit,       *)
(* settle and delete it.  What follows an await is a step of its own; the  *)
(* invoice that is open may be another one by then.  The server's side is  *)
(* reduced to status and content of each invoice (Invoices has the rest).  *)
(*                                                                         *)
(* A body stands for all the user can type into an invoice; body 0 lacks   *)
(* the customer, or its date is not in the fiscal year.  Of the customer's *)
(* name it is kept whether it has been erased, which the server does to    *)
(* drafts on its own.  A request is served, and its answer arrives, in one *)
(* step.                                                                   *)
(***************************************************************************)
EXTENDS Naturals, FiniteSets

CONSTANTS
    Calls,          \* the calls that may be under way
    Null,           \* no invoice, no call
    MaxInvoice,     \* bound: the ids the server gives out
    MaxBody,        \* bound: the bodies the user types in
    MaxHaste,       \* bound: how often the user does not wait
    MaxFailures     \* bound: requests refused or lost

ASSUME InvoicePageAssumption ==
    /\ Null \notin Calls
    /\ MaxInvoice \in Nat
    /\ MaxBody \in Nat
    /\ MaxHaste \in Nat
    /\ MaxFailures \in Nat

VARIABLES
    (* the server *)
    invoice,        \* the invoices by id
    (* the page *)
    invoices,       \* the list: ids and statuses
    selectedInvoice,\* the invoice that is open, as it is on the screen
    fetches,        \* ids of the requests of selectInvoice not aborted
    calls,          \* the other calls under way
    modal,          \* the call whose question is on the screen
    customers,      \* the customers the page knows: none, old, current, or
                    \* current but for what a credit wrote over
    customersStale, \* the flag that they are to be fetched again
    customersFetch, \* showView is fetching them
    (* what has happened, for the properties *)
    wanted,         \* the id selectInvoice was called for last
    astray,         \* invoices posted or deleted other than as confirmed
    haste,          \* how often the user did not wait
    failures        \* requests refused or lost

customerVars == <<customers, customersStale, customersFetch>>
vars == <<invoice, invoices, selectedInvoice, fetches, calls, modal,
          customerVars, wanted, astray, haste, failures>>

Ids == 1..MaxInvoice
NoInvoice == [status |-> "none", body |-> 0, named |-> TRUE, creditOf |-> 0]
Exists(i) == invoice[i].status \notin {"none", "raderad"}
Listed == {<<i, invoice[i].status>> : i \in {k \in Ids : Exists(k)}}

(* A call knows what it asks the server about and what the user saw when   *)
(* it began.                                                               *)
Idle == [kind |-> "none", pc |-> "idle", id |-> 0, body |-> 0,
         named |-> TRUE, seen |-> <<0, 0>>]

IsBusy == \/ fetches # {}
          \/ customersFetch
          \/ \E c \in Calls : calls[c].pc # "idle"

(* The user clicks; a question on the screen keeps the rest from clicks.   *)
UserClicks ==
    /\ modal = Null
    /\ haste' = haste + IF IsBusy THEN 1 ELSE 0
    /\ haste' <= MaxHaste

Fails == failures < MaxFailures /\ failures' = failures + 1

Start(c, kind, pc, id, body, named) ==
    /\ calls[c].pc = "idle"
    /\ calls' = [calls EXCEPT ![c] =
                    [kind |-> kind, pc |-> pc, id |-> id, body |-> body,
                     named |-> named, seen |-> <<id, body>>]]

(* The call goes on with another request for an invoice, or ends.          *)
Goes(c, pc, id) == calls' = [calls EXCEPT ![c].pc = pc, ![c].id = id]
Ends(c) == calls' = [calls EXCEPT ![c] = Idle]

-----------------------------------------------------------------------------
(* What needs no server.                                                   *)

UsedBodies ==
    {invoice[i].body : i \in Ids} \cup {calls[c].body : c \in Calls}
    \cup (IF selectedInvoice = Null THEN {} ELSE {selectedInvoice.body})

CreateNewInvoice ==
    /\ UserClicks
    /\ selectedInvoice' = [id |-> 0, status |-> "utkast", body |-> 0,
                           named |-> TRUE, creditOf |-> 0, edited |-> TRUE]
    /\ UNCHANGED <<invoice, invoices, fetches, calls, modal, customerVars,
                   wanted, astray, failures>>

(* Fields and rows of a draft, with what follows from them (Amounts); the  *)
(* customer's name may be typed in again.                                  *)
EditInvoice ==
    /\ UserClicks
    /\ selectedInvoice # Null
    /\ selectedInvoice.status = "utkast"
    /\ \E b \in {0} \cup (1..MaxBody \ UsedBodies),
          named \in {TRUE, selectedInvoice.named} :
          selectedInvoice' = [selectedInvoice EXCEPT !.body = b,
                                                     !.named = named,
                                                     !.edited = TRUE]
    /\ UNCHANGED <<invoice, invoices, fetches, calls, modal, customerVars,
                   wanted, astray, failures>>

-----------------------------------------------------------------------------
(* The list and the invoice that is open.                                  *)

(* Mutant of SelectInvoice: the request before is not aborted.             *)
SelectInvoiceToo(i) ==
    /\ fetches' = fetches \cup {i}
    /\ wanted' = i

(* The request before is aborted: its answer will not be looked at.        *)
SelectInvoice(i) ==
    /\ fetches' = {i}
    /\ wanted' = i

ClickInvoice(i) ==
    /\ UserClicks
    /\ \E s \in {"utkast", "bokford", "betald"} : <<i, s>> \in invoices
    /\ SelectInvoice(i)
    /\ UNCHANGED <<invoice, invoices, selectedInvoice, calls, modal,
                   customerVars, astray, failures>>

InvoiceArrives(i) ==
    /\ i \in fetches
    /\ fetches' = fetches \ {i}
    /\ \/ /\ Exists(i)
          /\ selectedInvoice' = [id |-> i, status |-> invoice[i].status,
                                 body |-> invoice[i].body,
                                 named |-> invoice[i].named,
                                 creditOf |-> invoice[i].creditOf,
                                 edited |-> FALSE]
          /\ UNCHANGED failures
       \/ Fails /\ UNCHANGED selectedInvoice
    /\ UNCHANGED <<invoice, invoices, calls, modal, customerVars, wanted,
                   astray, haste>>

(* showView('fakturering'): the list is fetched, and the customers unless  *)
(* they are known and not stale.                                           *)
ShowInvoices(c) ==
    /\ UserClicks
    /\ ~customersFetch
    /\ Start(c, "show", "list", 0, 0, TRUE)
    /\ invoices' = {}
    /\ customersFetch' = (customersStale \/ customers = "none")
    /\ UNCHANGED <<invoice, selectedInvoice, fetches, modal, customers,
                   customersStale, wanted, astray, failures>>

(* The flag is cleared once the request is over, whatever came of it.      *)
ShowViewGotCustomers ==
    /\ customersFetch
    /\ customersFetch' = FALSE
    /\ customersStale' = FALSE
    /\ \/ customers' = "current" /\ UNCHANGED failures
       \/ Fails /\ UNCHANGED customers
    /\ UNCHANGED <<invoice, invoices, selectedInvoice, fetches, calls, modal,
                   wanted, astray, haste>>

(* Which invoice a call opens when it has the new list.                    *)
ToOpen(c) ==
    CASE calls[c].kind \in {"save", "post", "pay"} /\ selectedInvoice # Null ->
             selectedInvoice.id
      [] calls[c].kind \in {"credit", "settle"} -> calls[c].id
      [] OTHER -> 0

ListArrives(c) ==
    /\ calls[c].pc = "list"
    /\ Ends(c)
    /\ \/ /\ invoices' = Listed
          /\ IF ToOpen(c) \in Ids /\ Exists(ToOpen(c))
             THEN SelectInvoice(ToOpen(c))
             ELSE UNCHANGED <<fetches, wanted>>
          /\ UNCHANGED failures
       \/ Fails /\ UNCHANGED <<invoices, fetches, wanted>>
    /\ UNCHANGED <<invoice, selectedInvoice, modal, customerVars, astray,
                   haste>>

(* loadInvoices empties the list first.                                    *)
LoadInvoices(c, id) == Goes(c, "list", id) /\ invoices' = {}

-----------------------------------------------------------------------------
(* The server: what a request asks for, if it may have it.                 *)

Drafts == {i \in Ids : invoice[i].status = "utkast"}
IdsLeft == \E i \in Ids : invoice[i].status = "none"
NextId == CHOOSE i \in Ids : /\ invoice[i].status = "none"
                             /\ \A k \in 1..(i - 1) : invoice[k].status # "none"
CreditsOf(i) == {k \in Ids : Exists(k) /\ invoice[k].creditOf = i}

(* An invoice can be credited while the credits it has do not make up its  *)
(* total: certainly not once it has a credit of all of it.                 *)
May(c) ==
    LET i == calls[c].id
        has(statuses) == i \in Ids /\ invoice[i].status \in statuses
    IN  CASE calls[c].pc = "save" -> IF i = 0 THEN IdsLeft ELSE has({"utkast"})
          [] calls[c].pc = "post" -> has({"utkast"})
          [] calls[c].kind = "pay" -> has({"bokford"})
          [] calls[c].kind = "settle" -> has({"bokford"})
          [] calls[c].kind = "delete" -> has({"utkast"})
          [] calls[c].kind = "anonymize" -> TRUE
          [] calls[c].kind = "credit" ->
                /\ has({"bokford", "betald"})
                /\ \A k \in CreditsOf(i) : invoice[k].body # invoice[i].body
                /\ IdsLeft

(* What makes a customer anonymous is the one request that changes other   *)
(* invoices than it is about: it erases the name from the drafts that are  *)
(* the customer's, whichever they are.                                     *)
Serves(c) ==
    LET i == calls[c].id
        New(draft) == invoice' = [invoice EXCEPT ![NextId] = draft]
        Becomes(status) == invoice' = [invoice EXCEPT ![i].status = status]
    IN  CASE calls[c].pc = "save" /\ i = 0 ->
                New([status |-> "utkast", body |-> calls[c].body,
                     named |-> calls[c].named, creditOf |-> 0])
          [] calls[c].pc = "save" /\ i # 0 ->
                invoice' = [invoice EXCEPT ![i].body = calls[c].body,
                                           ![i].named = calls[c].named]
          [] calls[c].pc = "post" -> Becomes("bokford")
          [] calls[c].kind = "pay" -> Becomes("betald")
          [] calls[c].kind = "settle" ->
                \/ Becomes("betald")
                \/ invoice' = [invoice EXCEPT ![i].status = "betald",
                                  ![invoice[i].creditOf].status = "betald"]
          [] calls[c].kind = "delete" -> Becomes("raderad")
          [] calls[c].kind = "anonymize" ->
                \E D \in SUBSET Drafts :
                   invoice' = [k \in Ids |-> IF k \in D
                                  THEN [invoice[k] EXCEPT !.named = FALSE]
                                  ELSE invoice[k]]
          [] calls[c].kind = "credit" ->
                New([status |-> "utkast", body |-> invoice[i].body,
                     named |-> invoice[i].named, creditOf |-> i])

(* The customer of an invoice is stored with it; one that is made          *)
(* anonymous is changed.  A credit stores the customer of its original     *)
(* again, and brings back what has been changed or erased since.           *)
StoresCustomer(c) ==
    IF calls[c].pc = "save" \/ calls[c].kind = "anonymize"
    THEN customers' = IF customers = "none" THEN "none" ELSE "old"
    ELSE \/ UNCHANGED customers
         \/ /\ calls[c].kind = "credit"
            /\ customers = "current"
            /\ customers' = "rewritten"

AtServer == {"save", "post", "act"}

(* A request that is refused, or lost on its way there or back, ends its   *)
(* call; a new draft is stored twice if it is sent again.  A credit may be *)
(* refused for the sums of the invoice, which are not modelled.            *)
RequestFails(c) ==
    /\ calls[c].pc \in AtServer
    /\ \/ /\ ~May(c) \/ calls[c].kind = "credit"
          /\ UNCHANGED <<invoice, customers, failures>>
       \/ May(c) /\ Fails /\ Serves(c) /\ StoresCustomer(c)
       \/ Fails /\ UNCHANGED <<invoice, customers>>
    /\ Ends(c)
    /\ UNCHANGED <<invoices, selectedInvoice, fetches, modal, customersStale,
                   customersFetch, wanted, astray, haste>>

-----------------------------------------------------------------------------
(* saveInvoice, on its own and as the first half of postInvoice.           *)

SaveInvoice(c) ==
    /\ UserClicks
    /\ selectedInvoice # Null
    /\ selectedInvoice.status = "utkast"
    /\ selectedInvoice.body # 0
    /\ Start(c, "save", "save", selectedInvoice.id, selectedInvoice.body,
             selectedInvoice.named)
    /\ UNCHANGED <<invoice, invoices, selectedInvoice, fetches, modal,
                   customerVars, wanted, astray, failures>>

(* A loud save fetches the list, a silent one goes on to post the invoice  *)
(* that is open by now.                                                    *)
AfterSave(c) ==
    IF calls[c].kind = "save"
    THEN LoadInvoices(c, 0)
    ELSE /\ IF selectedInvoice = Null
            THEN Ends(c) ELSE Goes(c, "post", selectedInvoice.id)
         /\ UNCHANGED invoices

(* Mutant of SaveAnswered: the new draft does not learn its id.            *)
SaveAnsweredWithoutId(c) ==
    /\ customersStale' = TRUE
    /\ AfterSave(c)
    /\ UNCHANGED selectedInvoice

(* Mutant of SaveAnswered: the silent save does not mark the customers.    *)
SaveAnsweredNotStale(c) ==
    /\ customersStale' = (customersStale \/ calls[c].kind = "save")
    /\ AfterSave(c)
    /\ selectedInvoice' = IF calls[c].id = 0 /\ selectedInvoice # Null
                          THEN [selectedInvoice EXCEPT !.id = NextId]
                          ELSE selectedInvoice

(* The id of a new draft goes to the invoice that is open by now; with     *)
(* none, that is an error and nothing else happens.                        *)
SaveAnswered(c) ==
    IF calls[c].id = 0 /\ selectedInvoice = Null
    THEN Ends(c) /\ UNCHANGED <<invoices, selectedInvoice, customersStale>>
    ELSE /\ selectedInvoice' = IF calls[c].id = 0
                               THEN [selectedInvoice EXCEPT !.id = NextId]
                               ELSE selectedInvoice
         /\ customersStale' = TRUE
         /\ AfterSave(c)

SaveReturns(c) ==
    /\ calls[c].pc = "save"
    /\ May(c)
    /\ Serves(c)
    /\ StoresCustomer(c)
    /\ SaveAnswered(c)
    /\ UNCHANGED <<fetches, modal, customersFetch, wanted, astray, haste,
                   failures>>

-----------------------------------------------------------------------------
(* postInvoice, settleInvoice, deleteInvoice and anonymizeCustomer ask     *)
(* before they act.                                                        *)

Asks(c, kind) ==
    /\ UserClicks
    /\ Start(c, kind, "ask", selectedInvoice.id, selectedInvoice.body, TRUE)
    /\ modal' = c
    /\ UNCHANGED <<invoice, invoices, selectedInvoice, fetches, customerVars,
                   wanted, astray, failures>>

IsOpen(statuses) == /\ selectedInvoice # Null
                    /\ selectedInvoice.id # 0
                    /\ selectedInvoice.status \in statuses

PostInvoice(c) == IsOpen({"utkast"}) /\ Asks(c, "post")
SettleInvoice(c) ==
    IsOpen({"bokford"}) /\ selectedInvoice.creditOf # 0 /\ Asks(c, "settle")
DeleteInvoice(c) == IsOpen({"utkast"}) /\ Asks(c, "delete")

AnonymizeCustomer(c) ==
    /\ UserClicks
    /\ customers # "none"
    /\ Start(c, "anonymize", "ask", 0, 0, TRUE)
    /\ modal' = c
    /\ UNCHANGED <<invoice, invoices, selectedInvoice, fetches, customerVars,
                   wanted, astray, failures>>

(* A draft that was never saved is just closed. *)
CloseNewDraft ==
    /\ UserClicks
    /\ selectedInvoice # Null
    /\ selectedInvoice.id = 0
    /\ selectedInvoice' = Null
    /\ UNCHANGED <<invoice, invoices, fetches, calls, modal, customerVars,
                   wanted, astray, failures>>

(* Mutant of Declined: the call is left waiting for its answer.            *)
DeclinedUnanswered(c) ==
    /\ modal = c
    /\ modal' = Null
    /\ UNCHANGED <<invoice, invoices, selectedInvoice, fetches, calls,
                   customerVars, wanted, astray, haste, failures>>

Declined(c) ==
    /\ modal = c
    /\ modal' = Null
    /\ Ends(c)
    /\ UNCHANGED <<invoice, invoices, selectedInvoice, fetches, customerVars,
                   wanted, astray, haste, failures>>

(* Mutant of GoesAhead: postInvoice leaves out the save.                   *)
GoesAheadUnsaved(c) ==
    \/ /\ calls[c].kind \in {"settle", "anonymize"}
       /\ Goes(c, "act", calls[c].id)
    \/ /\ calls[c].kind \in {"delete", "post"}
       /\ IF selectedInvoice = Null
          THEN Ends(c)
          ELSE Goes(c, IF calls[c].kind = "post" THEN "post" ELSE "act",
                    selectedInvoice.id)

(* settleInvoice and anonymizeCustomer have been given an id.  The others  *)
(* take the invoice that is open by now; postInvoice saves it first, if it *)
(* can be saved.                                                           *)
GoesAhead(c) ==
    \/ /\ calls[c].kind \in {"settle", "anonymize"}
       /\ Goes(c, "act", calls[c].id)
    \/ /\ calls[c].kind \in {"delete", "post"}
       /\ selectedInvoice = Null
       /\ Ends(c)
    \/ /\ calls[c].kind = "delete"
       /\ selectedInvoice # Null
       /\ Goes(c, "act", selectedInvoice.id)
    \/ /\ calls[c].kind = "post"
       /\ selectedInvoice # Null
       /\ IF selectedInvoice.body = 0
          THEN Ends(c)
          ELSE calls' = [calls EXCEPT ![c].pc = "save",
                                     ![c].id = selectedInvoice.id,
                                     ![c].body = selectedInvoice.body,
                                     ![c].named = selectedInvoice.named]

Confirmed(c) ==
    /\ modal = c
    /\ modal' = Null
    /\ GoesAhead(c)
    /\ UNCHANGED <<invoice, invoices, selectedInvoice, fetches, customerVars,
                   wanted, astray, haste, failures>>

(* Mutant of PostReturns: the list is not fetched again. *)
PostReturnsOnly(c) ==
    /\ calls[c].pc = "post"
    /\ May(c)
    /\ Serves(c)
    /\ astray' = IF <<calls[c].id, invoice[calls[c].id].body>> = calls[c].seen
                 THEN astray ELSE astray \cup {calls[c].id}
    /\ Ends(c)
    /\ UNCHANGED <<invoices, selectedInvoice, fetches, modal, customerVars,
                   wanted, haste, failures>>

PostReturns(c) ==
    /\ calls[c].pc = "post"
    /\ May(c)
    /\ Serves(c)
    /\ astray' = IF <<calls[c].id, invoice[calls[c].id].body>> = calls[c].seen
                 THEN astray ELSE astray \cup {calls[c].id}
    /\ LoadInvoices(c, 0)
    /\ UNCHANGED <<selectedInvoice, fetches, modal, customerVars, wanted,
                   haste, failures>>

(* After a deletion nothing is open, whatever was by then. *)
DeleteReturns(c) ==
    /\ calls[c].pc = "act"
    /\ calls[c].kind = "delete"
    /\ May(c)
    /\ Serves(c)
    /\ astray' = IF calls[c].id = calls[c].seen[1]
                 THEN astray ELSE astray \cup {calls[c].id}
    /\ selectedInvoice' = Null
    /\ LoadInvoices(c, 0)
    /\ UNCHANGED <<fetches, modal, customerVars, wanted, haste, failures>>

(* The customers are fetched, then the list; the flag stays up.            *)
AnonymizeReturns(c) ==
    /\ calls[c].pc = "act"
    /\ calls[c].kind = "anonymize"
    /\ Serves(c)
    /\ StoresCustomer(c)
    /\ customersStale' = TRUE
    /\ Goes(c, "customers", 0)
    /\ UNCHANGED <<invoices, selectedInvoice, fetches, modal, customersFetch,
                   wanted, astray, haste, failures>>

CustomersArrive(c) ==
    /\ calls[c].pc = "customers"
    /\ \/ customers' = "current" /\ UNCHANGED failures
       \/ Fails /\ UNCHANGED customers
    /\ LoadInvoices(c, 0)
    /\ UNCHANGED <<invoice, selectedInvoice, fetches, modal, customersStale,
                   customersFetch, wanted, astray, haste>>

-----------------------------------------------------------------------------
(* payInvoice asks for the date in a dialog that stops the page, and       *)
(* creditInvoice asks nothing.                                             *)

PayInvoice(c) ==
    /\ UserClicks
    /\ IsOpen({"bokford"})
    /\ selectedInvoice.creditOf = 0
    /\ Start(c, "pay", "act", selectedInvoice.id, 0, TRUE)
    /\ UNCHANGED <<invoice, invoices, selectedInvoice, fetches, modal,
                   customerVars, wanted, astray, failures>>

CreditInvoice(c) ==
    /\ UserClicks
    /\ IsOpen({"bokford", "betald"})
    /\ selectedInvoice.creditOf = 0
    /\ Start(c, "credit", "act", selectedInvoice.id, 0, TRUE)
    /\ UNCHANGED <<invoice, invoices, selectedInvoice, fetches, modal,
                   customerVars, wanted, astray, failures>>

(* A credit that has been made is opened, instead of its original.         *)
OpensNext(c) == IF calls[c].kind = "credit" THEN NextId ELSE calls[c].id

(* Mutant of ActReturns: the invoice stays on the screen as it was.        *)
ActReturnsOnly(c) ==
    /\ calls[c].pc = "act"
    /\ calls[c].kind \in {"pay", "credit", "settle"}
    /\ May(c)
    /\ Serves(c)
    /\ StoresCustomer(c)
    /\ calls' = [calls EXCEPT ![c].kind = "show", ![c].pc = "list"]
    /\ invoices' = {}
    /\ UNCHANGED <<selectedInvoice, fetches, modal, customersStale,
                   customersFetch, wanted, astray, haste, failures>>

ActReturns(c) ==
    /\ calls[c].pc = "act"
    /\ calls[c].kind \in {"pay", "credit", "settle"}
    /\ May(c)
    /\ Serves(c)
    /\ StoresCustomer(c)
    /\ LoadInvoices(c, OpensNext(c))
    /\ UNCHANGED <<selectedInvoice, fetches, modal, customersStale,
                   customersFetch, wanted, astray, haste, failures>>

-----------------------------------------------------------------------------
Init ==
    /\ invoice = [i \in Ids |-> NoInvoice]
    /\ invoices = {}
    /\ selectedInvoice = Null
    /\ fetches = {}
    /\ calls = [c \in Calls |-> Idle]
    /\ modal = Null
    /\ customers = "none"
    /\ customersStale = TRUE
    /\ customersFetch = FALSE
    /\ wanted = 0
    /\ astray = {}
    /\ haste = 0
    /\ failures = 0

Next ==
    \/ CreateNewInvoice \/ EditInvoice \/ CloseNewDraft
    \/ \E i \in Ids : ClickInvoice(i) \/ InvoiceArrives(i)
    \/ ShowViewGotCustomers
    \/ \E c \in Calls :
          \/ ShowInvoices(c) \/ ListArrives(c)
          \/ SaveInvoice(c) \/ SaveReturns(c)
          \/ PostInvoice(c) \/ SettleInvoice(c) \/ DeleteInvoice(c)
          \/ Declined(c) \/ Confirmed(c)
          \/ AnonymizeCustomer(c) \/ AnonymizeReturns(c) \/ CustomersArrive(c)
          \/ PostReturns(c) \/ DeleteReturns(c)
          \/ PayInvoice(c) \/ CreditInvoice(c) \/ ActReturns(c)
          \/ RequestFails(c)

Spec == Init /\ [][Next]_vars

-----------------------------------------------------------------------------
(* Properties.                                                             *)

(* Every variable has its type; a call that has asked the user is the one  *)
(* whose question is on the screen.                                        *)
TypeOK ==
    /\ invoice \in [Ids ->
          [status : {"none", "utkast", "bokford", "betald", "raderad"},
           body : 0..MaxBody, named : BOOLEAN, creditOf : 0..MaxInvoice]]
    /\ invoices \subseteq (Ids \X {"utkast", "bokford", "betald"})
    /\ selectedInvoice = Null \/ selectedInvoice \in
          [id : 0..MaxInvoice, status : {"utkast", "bokford", "betald"},
           body : 0..MaxBody, named : BOOLEAN,
           creditOf : 0..MaxInvoice, edited : BOOLEAN]
    /\ fetches \subseteq Ids
    /\ calls \in [Calls ->
          [kind : {"none", "show", "save", "post", "pay", "credit", "settle",
                   "delete", "anonymize"},
           pc : {"idle", "ask", "save", "post", "act", "customers", "list"},
           id : 0..MaxInvoice, body : 0..MaxBody, named : BOOLEAN,
           seen : (0..MaxInvoice) \X (0..MaxBody)]]
    /\ \A c \in Calls : calls[c].pc = "ask" <=> modal = c
    /\ modal \in Calls \cup {Null}
    /\ customers \in {"none", "old", "current", "rewritten"}
    /\ customersStale \in BOOLEAN
    /\ customersFetch \in BOOLEAN
    /\ wanted \in 0..MaxInvoice
    /\ astray \subseteq Ids
    /\ haste \in 0..MaxHaste
    /\ failures \in 0..MaxFailures

(* Whatever the order of clicks and answers, the answer that is shown is   *)
(* that of the invoice clicked last, or opened last by a call              *)
(* (app.js:453-456).                                                       *)
LastClickWins == fetches \subseteq {wanted}

(* Who lets the page come to rest before he clicks posts and deletes what  *)
(* was on the screen when he was asked, with what he had typed in, also    *)
(* when saving or posting fails and is tried again (app.js:594-617).       *)
ConfirmedIsDone == haste = 0 => astray = {}

AtRest == ~IsBusy /\ haste = 0 /\ failures = 0

(* At rest, with no request refused or lost, the invoice on the screen has *)
(* the status it has on the server, and its content unless it is being     *)
(* edited: what changes an invoice opens it again (app.js:604-607), except *)
(* anonymizeCustomer (app.js:432-440): a name on the screen may be one the *)
(* server has erased, never the other way round.                           *)
ScreenIsServer ==
    AtRest /\ selectedInvoice # Null /\ selectedInvoice.id # 0
        => LET i == selectedInvoice.id
           IN  /\ selectedInvoice.status = invoice[i].status
               /\ \/ selectedInvoice.edited
                  \/ /\ selectedInvoice.body = invoice[i].body
                     /\ invoice[i].named => selectedInvoice.named

(* ... and the list is that of the server: whatever changes a status or    *)
(* the set of invoices fetches it (app.js:404-417).                        *)
ListIsServer == AtRest => invoices = Listed

(* At rest the page shows the invoices as the server has them, the open one*)
(* and the list (app.js:404-417, 604-607), but for an erased name.         *)
PageIsServer ==
    /\ ScreenIsServer
    /\ ListIsServer

(* No draft gets stored twice (app.js:568-571).                            *)
NoTwins ==
    AtRest => \A i, k \in Ids :
        /\ Exists(i) /\ invoice[i].creditOf = 0
        /\ Exists(k) /\ invoice[k].creditOf = 0
        /\ invoice[i].body = invoice[k].body
        => i = k

(* At rest, the page has the customers there are or knows that it does not *)
(* (app.js:572, 1974, 1994), except for what a credit writes over: that is *)
(* not marked (app.js:649-669).                                            *)
CustomersKnown == AtRest => customers # "old" \/ customersStale

(* What the question says (app.js:433), that personal data are erased, for *)
(* one who waits: saving a draft nothing was typed into brings no name back*)
(* that anonymizeCustomer has erased from it.  The code does not keep this.*)
EraseIsFinal ==
    haste = 0 => \A c \in Calls :
        /\ calls[c].pc = "save"
        /\ calls[c].id # 0
        /\ selectedInvoice # Null
        /\ ~selectedInvoice.edited
        /\ calls[c].named
        => invoice[calls[c].id].named
=============================================================================
