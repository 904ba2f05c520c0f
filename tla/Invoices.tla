------------------------------ MODULE Invoices ------------------------------
(***************************************************************************)
(* Customer invoices and what they leave on account 1510 (invoice.go and   *)
(* the triggers of migration 15 in init.go).                               *)
(*                                                                         *)
(* PostInvoice reads the draft and checks it with queries of their own and *)
(* books in a transaction that comes later, so it takes several steps.     *)
(* The other handlers are one step: UpdateInvoice and DeleteInvoice check  *)
(* early too, but the triggers check again inside the write, and the       *)
(* posted invoice CreateCreditInvoice reads early cannot change.           *)
(*                                                                         *)
(* The rows of an invoice are abstracted to the amount they add up to,     *)
(* beside the total stored in the header.                                  *)
(***************************************************************************)
EXTENDS Integers, Bags, FiniteSetsExt

CONSTANTS
    Totals,         \* what the rows of a new invoice may add up to
    StartNumber,    \* invoice_start_number of company_settings
    MaxInvoice,     \* bound: how many invoices are created
    Posts           \* the PostInvoice requests that may be under way at one time

ASSUME InvoicesAssumption ==
    /\ Totals \subseteq Nat \ {0}
    /\ StartNumber \in Nat \ {0}
    /\ MaxInvoice \in Nat
    /\ IsFiniteSet(Posts)

VARIABLES
    invoice,        \* table invoices; DOMAIN invoice is the ids
    created,        \* sqlite_sequence of invoices: ids handed out so far
    booking,        \* the bag of verifications of invoices and payments
    post            \* post[r] is how far request r has come

vars == <<invoice, created, booking, post>>

NoNumber == 0
NoInvoice == 0

Draft(amt, of) == [status |-> "utkast", number |-> NoNumber, total |-> amt,
                   items |-> amt, creditOf |-> of]

Idle == [pc |-> "idle", id |-> NoInvoice, total |-> 0, items |-> 0, creditOf |-> NoInvoice]

IsPosted(i) == i \in DOMAIN invoice /\ invoice[i].status # "utkast"

CreditsOf(i) == {c \in DOMAIN invoice : invoice[c].creditOf = i}
PostedCreditsOf(i) == {c \in CreditsOf(i) : IsPosted(c)}

SumOfTotals(ids) == MapThenSumSet(LAMBDA i : invoice[i].total, ids)

Magnitude(n) == IF n < 0 THEN -n ELSE n

(* A verification whose row on 1510 is amt. *)
Entry(kind, i, amt) == [kind |-> kind, invoice |-> i, amt |-> amt]

Booked(kind, i, amt) == booking (+) SetToBag({Entry(kind, i, amt)})

(* Mutant of NextNumber: it counts the invoices, drafts included. *)
CountedNumber == StartNumber + Cardinality(DOMAIN invoice) - 1

(* MAX(invoice_number) + 1, or the start number of the settings. *)
NextNumber ==
    LET taken == {invoice[i].number : i \in DOMAIN invoice}
        top == CHOOSE n \in taken \cup {NoNumber} : \A m \in taken : m <= n
    IN  IF top = NoNumber THEN StartNumber ELSE top + 1

-----------------------------------------------------------------------------
(* A new draft takes the next id; ids of deleted drafts are not used again. *)
Insert(draft) ==
    /\ created < MaxInvoice
    /\ created' = created + 1
    /\ invoice' = [i \in DOMAIN invoice \cup {created + 1} |->
                      IF i \in DOMAIN invoice THEN invoice[i] ELSE draft]
    /\ UNCHANGED <<booking, post>>

CreateInvoice(amt) == Insert(Draft(amt, NoInvoice))

(* A draft that credits all of a posted invoice, unless the credits there  *)
(* are, drafts included, already cover it.                                 *)
CreateCreditInvoice(i) ==
    /\ invoice[i].creditOf = NoInvoice
    /\ IsPosted(i)
    /\ Magnitude(SumOfTotals(CreditsOf(i))) < invoice[i].total
    /\ Insert([Draft(-invoice[i].total, i) EXCEPT !.items = -invoice[i].items])

(* New rows for a draft.  The rows of a credit may only shrink towards 0. *)
MayHold(i) == IF invoice[i].creditOf = NoInvoice THEN Totals
              ELSE -(invoice[invoice[i].creditOf].items)..0

(* Mutant of UpdateInvoice: without the triggers. *)
UpdateAnyInvoice(i, amt) ==
    /\ invoice' = [invoice EXCEPT ![i].total = amt, ![i].items = amt]
    /\ UNCHANGED <<created, booking, post>>

UpdateInvoice(i, amt) ==
    /\ ~IsPosted(i)
    /\ invoice' = [invoice EXCEPT ![i].total = amt, ![i].items = amt]
    /\ UNCHANGED <<created, booking, post>>

(* Mutant of DeleteInvoice: without the trigger. *)
DeleteAnyInvoice(i) ==
    /\ invoice' = [k \in DOMAIN invoice \ {i} |-> invoice[k]]
    /\ UNCHANGED <<created, booking, post>>

DeleteInvoice(i) ==
    /\ ~IsPosted(i)
    /\ invoice' = [k \in DOMAIN invoice \ {i} |-> invoice[k]]
    /\ UNCHANGED <<created, booking, post>>

-----------------------------------------------------------------------------
(* PostInvoice: GetInvoiceByID reads the header, then the rows.            *)
PostReadHeader(r, i) ==
    /\ post[r].pc = "idle"
    /\ ~IsPosted(i)
    /\ post' = [post EXCEPT ![r] = [Idle EXCEPT !.pc = "header", !.id = i,
                                        !.total = invoice[i].total,
                                        !.creditOf = invoice[i].creditOf]]
    /\ UNCHANGED <<invoice, created, booking>>

(* The rows, and for a credit the check against what is already credited;  *)
(* it looks at the total of the header.                                    *)
MayCredit(p) ==
    /\ p.total <= 0
    /\ Magnitude(SumOfTotals(PostedCreditsOf(p.creditOf)) + p.total)
          <= invoice[p.creditOf].total

PostReadItems(r) ==
    LET p == post[r]
        items == IF p.id \in DOMAIN invoice THEN invoice[p.id].items ELSE 0
    IN  /\ p.pc = "header"
        /\ post' = [post EXCEPT ![r] =
                       IF p.creditOf = NoInvoice \/ MayCredit(p)
                       THEN [p EXCEPT !.pc = "read", !.items = items]
                       ELSE Idle]
        /\ UNCHANGED <<invoice, created, booking>>

(* Mutant of PostTx: the update of a posted invoice is not refused. *)
PostTxAgain(r) ==
    LET p == post[r]
    IN  /\ p.pc = "read"
        /\ p.items # 0
        /\ booking' = Booked("invoice", p.id, p.items)
        /\ invoice' = [i \in DOMAIN invoice |->
                          IF i = p.id
                          THEN [invoice[i] EXCEPT !.status = "bokford",
                                                  !.number = NextNumber,
                                                  !.total = p.items]
                          ELSE invoice[i]]
        /\ post' = [post EXCEPT ![r] = Idle]
        /\ UNCHANGED created

(* The transaction.  It books the rows read before.  The update of the     *)
(* invoice changes nothing if the draft is gone, and nobody counts the     *)
(* rows it changed.                                                        *)
PostTx(r) ==
    LET p == post[r]
    IN  /\ p.pc = "read"
        /\ p.items # 0
        /\ ~IsPosted(p.id)
        /\ booking' = Booked("invoice", p.id, p.items)
        /\ invoice' = [i \in DOMAIN invoice |->
                          IF i = p.id
                          THEN [invoice[i] EXCEPT !.status = "bokford",
                                                  !.number = NextNumber,
                                                  !.total = p.items]
                          ELSE invoice[i]]
        /\ post' = [post EXCEPT ![r] = Idle]
        /\ UNCHANGED created

(* Rolled back: no amount, posted by another request in the meantime (the  *)
(* trigger fails the update), or refused by the ledger; or the request is  *)
(* lost with the process.                                                  *)
PostFails(r) ==
    /\ post[r].pc # "idle"
    /\ post' = [post EXCEPT ![r] = Idle]
    /\ UNCHANGED <<invoice, created, booking>>

-----------------------------------------------------------------------------
(* What is paid is the total, less the posted credits of an original.      *)
AmountToPay(i) ==
    invoice[i].total +
        IF invoice[i].total >= 0 /\ invoice[i].creditOf = NoInvoice
        THEN SumOfTotals(PostedCreditsOf(i)) ELSE 0

(* Mutant of RegisterPayment: a paid invoice is paid again. *)
RegisterPaymentAgain(i) ==
    /\ IsPosted(i)
    /\ AmountToPay(i) # 0
    /\ booking' = Booked("payment", i, -AmountToPay(i))
    /\ invoice' = [invoice EXCEPT ![i].status = "betald"]
    /\ UNCHANGED <<created, post>>

RegisterPayment(i) ==
    /\ invoice[i].status = "bokford"
    /\ AmountToPay(i) # 0
    /\ booking' = Booked("payment", i, -AmountToPay(i))
    /\ invoice' = [invoice EXCEPT ![i].status = "betald"]
    /\ UNCHANGED <<created, post>>

(* Close a credit, and the original with it when the credits cover it.     *)
SettleInvoice(c) ==
    LET i == invoice[c].creditOf
        covered == Magnitude(SumOfTotals(PostedCreditsOf(i)))
                      >= invoice[i].total
    IN  /\ i # NoInvoice
        /\ invoice[c].status = "bokford"
        /\ IsPosted(i)
        /\ invoice' = [k \in DOMAIN invoice |->
                          IF k = c \/ (k = i /\ covered)
                          THEN [invoice[k] EXCEPT !.status = "betald"]
                          ELSE invoice[k]]
        /\ UNCHANGED <<created, booking, post>>

-----------------------------------------------------------------------------
Init ==
    /\ invoice = [i \in {} |-> i]
    /\ created = 0
    /\ booking = EmptyBag
    /\ post = [r \in Posts |-> Idle]

Next ==
    \/ \E amt \in Totals : CreateInvoice(amt)
    \/ \E i \in DOMAIN invoice :
          \/ CreateCreditInvoice(i)
          \/ \E amt \in MayHold(i) : UpdateInvoice(i, amt)
          \/ DeleteInvoice(i)
          \/ RegisterPayment(i)
          \/ SettleInvoice(i)
          \/ \E r \in Posts : PostReadHeader(r, i)
    \/ \E r \in Posts : PostReadItems(r) \/ PostTx(r) \/ PostFails(r)

Spec == Init /\ [][Next]_vars

-----------------------------------------------------------------------------
(* The columns have their types; only a posted invoice has a number, and   *)
(* only a posted original has credits.                                     *)
TypeOK ==
    /\ created \in 0..MaxInvoice
    /\ DOMAIN invoice \subseteq 1..created
    /\ \A i \in DOMAIN invoice :
          /\ invoice[i] \in [status : {"utkast", "bokford", "betald"}, number : Nat,
                             total : Int, items : Int, creditOf : 0..created]
          /\ IsPosted(i) <=> invoice[i].number # NoNumber
          /\ invoice[i].creditOf # NoInvoice =>
                /\ IsPosted(invoice[i].creditOf)
                /\ invoice[invoice[i].creditOf].creditOf = NoInvoice
    /\ IsABag(booking)
    /\ BagToSet(booking) \subseteq
          [kind : {"invoice", "payment"}, invoice : 1..created, amt : Int]
    /\ \A r \in Posts : post[r].pc \in {"idle", "header", "read"}

BookingsOf(kind, i) ==
    [b \in {e \in BagToSet(booking) : e.kind = kind /\ e.invoice = i} |-> booking[b]]

(* An invoice is booked once, with its stored total, whatever was read     *)
(* before and by how many requests; a draft is not booked; and no invoice  *)
(* is paid twice or paid before it is booked (invoice.go:536-552, 583-588).*)
PostedIsBooked ==
    \A i \in DOMAIN invoice :
        /\ IsPosted(i) =>
              BookingsOf("invoice", i) = SetToBag({Entry("invoice", i, invoice[i].total)})
        /\ ~IsPosted(i) =>
              BookingsOf("invoice", i) = EmptyBag /\ BookingsOf("payment", i) = EmptyBag
        /\ BagCardinality(BookingsOf("payment", i)) <= 1

(* The numbers of the posted invoices are an unbroken series from the      *)
(* start number, without duplicates, also when drafts are deleted or       *)
(* postings fail halfway (invoice.go:425-444, ARCHITECTURE.md:76).         *)
NumbersUnbroken ==
    LET posted == {i \in DOMAIN invoice : IsPosted(i)}
    IN  {invoice[i].number : i \in posted}
            = StartNumber..(StartNumber + Cardinality(posted) - 1)

(* A posted invoice stays, keeps its number, its amounts and its rows, and *)
(* its status only ever advances from booked to paid (triggers of          *)
(* init.go:351-357).                                                       *)
PostedFrozen ==
    [][\A i \in DOMAIN invoice : IsPosted(i) =>
          /\ i \in DOMAIN invoice'
          /\ invoice'[i] = [invoice[i] EXCEPT !.status = invoice'[i].status]
          /\ invoice'[i].status # invoice[i].status => invoice'[i].status = "betald"]_vars

(* The balance of 1510 over an invoice and its credits.                    *)
Receivable(i) ==
    MapThenSumSet(LAMBDA e : e.amt * booking[e],
                  {e \in BagToSet(booking) : e.invoice \in {i} \cup CreditsOf(i)})

(* An invoice that is not credited owes its total until it is paid and     *)
(* nothing after that (invoice.go:590-640).                                *)
UncreditedClears ==
    \A i \in DOMAIN invoice :
        IsPosted(i) /\ invoice[i].creditOf = NoInvoice /\ PostedCreditsOf(i) = {} =>
            Receivable(i) = IF invoice[i].status = "betald" THEN 0 ELSE invoice[i].total
=============================================================================
