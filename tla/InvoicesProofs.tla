--------------------------- MODULE InvoicesProofs ---------------------------
(***************************************************************************)
(* Proofs about Invoices, for every set of totals and requests and every   *)
(* bound.                                                                  *)
(*                                                                         *)
(* The numbers and what is frozen need RowsInv and NumbersInv alone.  What *)
(* is booked needs FullInv: which rows 1510 holds for an invoice in each   *)
(* status (BookedFor), and that the requests read whole amounts.  Sums     *)
(* over credits and over rows come from SumTheorems.                       *)
(***************************************************************************)
EXTENDS Invoices, SumTheorems

Fields == {"status", "number", "total", "items", "creditOf"}

(* The rows are records under ids handed out, with a number once posted.   *)
RowsInv ==
    /\ created \in Nat
    /\ DOMAIN invoice \subseteq 1..created
    /\ invoice = [i \in DOMAIN invoice |-> invoice[i]]
    /\ \A i \in DOMAIN invoice :
          /\ invoice[i] = [f \in Fields |-> invoice[i][f]]
          /\ invoice[i].status \in {"utkast", "bokford", "betald"}
          /\ invoice[i].number \in Nat
          /\ invoice[i].number = NoNumber <=> invoice[i].status = "utkast"

Posted == {i \in DOMAIN invoice : IsPosted(i)}
Numbers == {invoice[i].number : i \in Posted}

(* The numbers are the first ones from the start number on, as many as     *)
(* there are posted invoices. *)
CountedBy(n) ==
    /\ IsFiniteSet(Posted) /\ Cardinality(Posted) = n
    /\ Numbers = StartNumber..(StartNumber + n - 1)

NumbersInv == \E n \in Nat : CountedBy(n)

-----------------------------------------------------------------------------
(* The number that comes next.                                             *)

LEMMA NextNumberFollows ==
    ASSUME RowsInv, NEW n \in Nat, CountedBy(n)
    PROVE  NextNumber = StartNumber + n
<1> USE InvoicesAssumption
<1> DEFINE taken == {invoice[i].number : i \in DOMAIN invoice}
           top == CHOOSE k \in taken \cup {NoNumber} :
                      \A m \in taken : m <= k
<1>1. taken \cup {NoNumber} = Numbers \cup {NoNumber}
    BY DEF RowsInv, Numbers, Posted, IsPosted
<1>2. Numbers = StartNumber..(StartNumber + n - 1)
    BY DEF CountedBy
<1> HIDE DEF taken
<1>3. CASE n = 0
    <2>1. taken \cup {NoNumber} = {NoNumber}
        BY <1>1, <1>2, <1>3
    <2>2. top = NoNumber
        BY <2>1 DEF NoNumber
    <2> QED
        BY <1>3, <2>2 DEF NextNumber, taken
<1>4. CASE n # 0
    <2> DEFINE last == StartNumber + n - 1
    <2>1. /\ last \in taken
          /\ \A m \in taken : m <= last
        BY <1>1, <1>2, <1>4 DEF NoNumber
    <2>2. \A k \in taken \cup {NoNumber} :
              (\A m \in taken : m <= k) => k = last
        <3>1. \A k \in taken \cup {NoNumber} : k \in Nat /\ k <= last
            BY <1>1, <1>2, <1>4 DEF NoNumber
        <3> QED
            BY <2>1, <3>1
    <2>3. top = last
        BY <2>1, <2>2
    <2>4. last # NoNumber /\ last + 1 = StartNumber + n
        BY <1>4 DEF NoNumber
    <2> HIDE DEF last
    <2> QED
        BY <2>3, <2>4 DEF NextNumber, taken
<1> QED
    BY <1>3, <1>4

-----------------------------------------------------------------------------
(* What the steps do to the posted invoices.                               *)

(* They stay, and keep all but their status, which only goes to betald.    *)
Frozen ==
    \A i \in DOMAIN invoice : IsPosted(i) =>
        /\ i \in DOMAIN invoice'
        /\ invoice'[i] = [invoice[i] EXCEPT !.status = invoice'[i].status]
        /\ invoice'[i].status # invoice[i].status
              => invoice'[i].status = "betald"

StepKeeps == RowsInv' /\ NumbersInv' /\ Frozen

(* A step that posts nothing and forgets nothing posted keeps the numbers. *)
LEMMA SamePosted ==
    ASSUME NumbersInv, Posted' = Posted,
           \A i \in Posted : invoice'[i].number = invoice[i].number
    PROVE  NumbersInv'
<1>1. Numbers' = Numbers
    BY DEF Numbers
<1> QED
    BY <1>1 DEF NumbersInv, CountedBy

LEMMA SameRows ==
    ASSUME RowsInv, NumbersInv, UNCHANGED <<invoice, created>>
    PROVE  StepKeeps
<1>1. RowsInv'
    BY DEF RowsInv
<1>2. Posted' = Posted
    BY DEF Posted, IsPosted
<1>3. NumbersInv'
    BY <1>2, SamePosted
<1>4. Frozen
    BY DEF Frozen, RowsInv, Fields
<1> QED
    BY <1>1, <1>3, <1>4 DEF StepKeeps

LEMMA InsertKeeps ==
    ASSUME RowsInv, NumbersInv, NEW draft,
           draft = [f \in Fields |-> draft[f]],
           draft.status = "utkast", draft.number = NoNumber, Insert(draft)
    PROVE  StepKeeps
<1>1. /\ DOMAIN invoice' = DOMAIN invoice \cup {created + 1}
      /\ invoice' = [i \in DOMAIN invoice' |-> invoice'[i]]
      /\ created + 1 \notin DOMAIN invoice
      /\ invoice'[created + 1] = draft
      /\ \A i \in DOMAIN invoice : invoice'[i] = invoice[i]
      /\ created' = created + 1
    BY DEF Insert, RowsInv
<1>2. RowsInv'
    <2>1. \A i \in DOMAIN invoice' :
              /\ invoice'[i] = [f \in Fields |-> invoice'[i][f]]
              /\ invoice'[i].status \in {"utkast", "bokford", "betald"}
              /\ invoice'[i].number \in Nat
              /\ invoice'[i].number = NoNumber
                    <=> invoice'[i].status = "utkast"
        BY <1>1 DEF RowsInv, NoNumber
    <2>2. created' \in Nat /\ DOMAIN invoice' \subseteq 1..created'
        BY <1>1 DEF RowsInv
    <2> QED
        BY <1>1, <2>1, <2>2 DEF RowsInv
<1>3. Posted' = Posted /\ \A i \in Posted : invoice'[i] = invoice[i]
    BY <1>1 DEF Posted, IsPosted
<1>4. NumbersInv'
    BY <1>3, SamePosted
<1>5. Frozen
    BY <1>1 DEF Frozen, RowsInv, Fields
<1> QED
    BY <1>2, <1>4, <1>5 DEF StepKeeps

LEMMA CreateCreditKeeps ==
    ASSUME RowsInv, NumbersInv, NEW i \in DOMAIN invoice, CreateCreditInvoice(i)
    PROVE  StepKeeps
<1> DEFINE d == [Draft(-invoice[i].total, i) EXCEPT !.items = -invoice[i].items]
<1>1. /\ d = [f \in Fields |-> d[f]]
      /\ d.status = "utkast" /\ d.number = NoNumber
    BY DEF Draft, Fields
<1>2. Insert(d)
    BY DEF CreateCreditInvoice
<1> HIDE DEF d
<1> QED
    BY <1>1, <1>2, InsertKeeps

(* One row changes, but for its number and whether it is posted. *)
LEMMA RowChanges ==
    ASSUME RowsInv, NumbersInv, NEW i \in DOMAIN invoice, NEW row,
           row = [f \in Fields |-> row[f]],
           row.number = invoice[i].number,
           row.status \in {"utkast", "bokford", "betald"},
           row.status = "utkast" <=> invoice[i].status = "utkast",
           invoice' = [invoice EXCEPT ![i] = row], created' = created
    PROVE  /\ RowsInv' /\ NumbersInv'
           /\ DOMAIN invoice' = DOMAIN invoice
           /\ invoice'[i] = row
           /\ \A k \in DOMAIN invoice : k # i => invoice'[k] = invoice[k]
<1>1. /\ DOMAIN invoice' = DOMAIN invoice
      /\ invoice' = [k \in DOMAIN invoice' |-> invoice'[k]]
      /\ invoice'[i] = row
      /\ \A k \in DOMAIN invoice : k # i => invoice'[k] = invoice[k]
    BY DEF RowsInv
<1>2. RowsInv'
    BY <1>1 DEF RowsInv
<1>3. /\ Posted' = Posted
      /\ \A k \in Posted : invoice'[k].number = invoice[k].number
    BY <1>1 DEF Posted, IsPosted
<1>4. NumbersInv'
    BY <1>3, SamePosted
<1> QED
    BY <1>1, <1>2, <1>4

LEMMA UpdateKeeps ==
    ASSUME RowsInv, NumbersInv, NEW i \in DOMAIN invoice, NEW amt,
           UpdateInvoice(i, amt)
    PROVE  StepKeeps
<1> DEFINE row == [invoice[i] EXCEPT !.total = amt, !.items = amt]
<1>1. invoice' = [invoice EXCEPT ![i] = row] /\ created' = created
    BY DEF UpdateInvoice
<1>2. /\ row = [f \in Fields |-> row[f]]
      /\ row.number = invoice[i].number
      /\ row.status = invoice[i].status
    <2>1. invoice[i] = [f \in Fields |-> invoice[i][f]]
        BY DEF RowsInv
    <2> QED
        BY <2>1 DEF Fields
<1>3. /\ ~IsPosted(i)
      /\ invoice[i].status \in {"utkast", "bokford", "betald"}
    BY DEF UpdateInvoice, RowsInv
<1> HIDE DEF row
<1>4. /\ RowsInv' /\ NumbersInv'
      /\ DOMAIN invoice' = DOMAIN invoice
      /\ \A k \in DOMAIN invoice : k # i => invoice'[k] = invoice[k]
    BY <1>1, <1>2, <1>3, RowChanges
<1>5. Frozen
    BY <1>3, <1>4 DEF Frozen, RowsInv, Fields
<1> QED
    BY <1>4, <1>5 DEF StepKeeps

LEMMA DeleteKeeps ==
    ASSUME RowsInv, NumbersInv, NEW i \in DOMAIN invoice, DeleteInvoice(i)
    PROVE  StepKeeps
<1>1. /\ ~IsPosted(i) /\ created' = created
      /\ DOMAIN invoice' = DOMAIN invoice \ {i}
      /\ \A k \in DOMAIN invoice' : invoice'[k] = invoice[k]
      /\ invoice' = [k \in DOMAIN invoice' |-> invoice'[k]]
    BY DEF DeleteInvoice
<1>2. RowsInv'
    BY <1>1 DEF RowsInv
<1>3. /\ Posted' = Posted
      /\ \A k \in Posted : invoice'[k].number = invoice[k].number
    BY <1>1 DEF Posted, IsPosted
<1>4. NumbersInv'
    BY <1>3, SamePosted
<1>5. Frozen
    BY <1>1 DEF Frozen, RowsInv, Fields, IsPosted
<1> QED
    BY <1>2, <1>4, <1>5 DEF StepKeeps

(* A posted invoice that is closed. *)
LEMMA PaidRow ==
    ASSUME RowsInv, NEW i \in DOMAIN invoice, IsPosted(i),
           NEW status \in {invoice[i].status, "betald"}
    PROVE  LET row == [invoice[i] EXCEPT !.status = status]
           IN  /\ row = [f \in Fields |-> row[f]]
               /\ row.number = invoice[i].number
               /\ row.status = status
               /\ row.status \in {"bokford", "betald"}
<1>1. invoice[i] = [f \in Fields |-> invoice[i][f]]
    BY DEF RowsInv
<1> QED
    BY <1>1 DEF Fields, IsPosted, RowsInv

LEMMA PaymentKeeps ==
    ASSUME RowsInv, NumbersInv, NEW i \in DOMAIN invoice, RegisterPayment(i)
    PROVE  StepKeeps
<1> DEFINE row == [invoice[i] EXCEPT !.status = "betald"]
<1>1. /\ invoice[i].status = "bokford" /\ IsPosted(i)
      /\ invoice' = [invoice EXCEPT ![i] = row] /\ created' = created
    BY DEF RegisterPayment, IsPosted
<1>2. /\ row = [f \in Fields |-> row[f]]
      /\ row.number = invoice[i].number /\ row.status = "betald"
    BY <1>1, PaidRow
<1>3. /\ RowsInv' /\ NumbersInv'
      /\ DOMAIN invoice' = DOMAIN invoice
      /\ invoice'[i] = row
      /\ \A k \in DOMAIN invoice : k # i => invoice'[k] = invoice[k]
    <2> HIDE DEF row
    <2> QED
        BY <1>1, <1>2, RowChanges
<1>4. Frozen
    BY <1>2, <1>3 DEF Frozen, RowsInv, Fields
<1> QED
    BY <1>3, <1>4 DEF StepKeeps

(* The two rows that are settled, which are posted. *)
LEMMA SettleKeeps ==
    ASSUME RowsInv, NumbersInv, NEW c \in DOMAIN invoice, SettleInvoice(c)
    PROVE  StepKeeps
<1> DEFINE i == invoice[c].creditOf
           covered == Magnitude(SumOfTotals(PostedCreditsOf(i)))
                         >= invoice[i].total
<1>1. /\ invoice[c].status = "bokford" /\ IsPosted(i)
      /\ invoice' = [k \in DOMAIN invoice |->
                        IF k = c \/ (k = i /\ covered)
                        THEN [invoice[k] EXCEPT !.status = "betald"]
                        ELSE invoice[k]]
      /\ created' = created
    BY DEF SettleInvoice
<1>2. \A k \in DOMAIN invoice :
          /\ invoice[k] = [f \in Fields |-> invoice[k][f]]
          /\ invoice[k].status \in {"utkast", "bokford", "betald"}
    BY DEF RowsInv
<1>3. IsPosted(c) /\ i \in DOMAIN invoice
    BY <1>1 DEF IsPosted
<1> HIDE DEF covered, i
<1>4. DOMAIN invoice' = DOMAIN invoice
    BY <1>1
<1>5. invoice' = [k \in DOMAIN invoice' |-> invoice'[k]]
    BY <1>1 DEF RowsInv
<1>6. \A k \in DOMAIN invoice :
          \/ invoice'[k] = invoice[k]
          \/ IsPosted(k) /\ invoice'[k] = [invoice[k] EXCEPT !.status = "betald"]
    BY <1>1, <1>3
<1> DEFINE Settled(k) ==
          /\ invoice'[k] = [f \in Fields |-> invoice'[k][f]]
          /\ invoice'[k] = [invoice[k] EXCEPT !.status = invoice'[k].status]
          /\ invoice'[k].number = invoice[k].number
          /\ invoice'[k].status \in {invoice[k].status, "betald"}
          /\ invoice'[k].status = "utkast" <=> invoice[k].status = "utkast"
<1>7. \A k \in DOMAIN invoice : Settled(k)
    <2>1. ASSUME NEW k \in DOMAIN invoice, invoice'[k] = invoice[k]
          PROVE  Settled(k)
        BY <1>2, <2>1 DEF Fields
    <2>2. ASSUME NEW k \in DOMAIN invoice, IsPosted(k),
                 invoice'[k] = [invoice[k] EXCEPT !.status = "betald"]
          PROVE  Settled(k)
        <3>1. invoice[k].status # "utkast"
            BY <2>2 DEF IsPosted
        <3>2. /\ invoice'[k].status = "betald"
              /\ invoice'[k].number = invoice[k].number
              /\ invoice'[k] = [f \in Fields |-> invoice'[k][f]]
            BY <1>2, <2>2 DEF Fields
        <3> QED
            BY <2>2, <3>1, <3>2
    <2> QED
        BY <1>6, <2>1, <2>2
<1>8. RowsInv'
    <2>1. \A k \in DOMAIN invoice :
              /\ invoice[k].number \in Nat
              /\ invoice[k].number = NoNumber <=> invoice[k].status = "utkast"
              /\ invoice[k].status \in {"utkast", "bokford", "betald"}
        BY DEF RowsInv
    <2>2. \A k \in DOMAIN invoice' :
              /\ invoice'[k] = [f \in Fields |-> invoice'[k][f]]
              /\ invoice'[k].status \in {"utkast", "bokford", "betald"}
              /\ invoice'[k].number \in Nat
              /\ invoice'[k].number = NoNumber
                    <=> invoice'[k].status = "utkast"
        BY <1>4, <1>7, <2>1
    <2>3. created' \in Nat /\ DOMAIN invoice' \subseteq 1..created'
        BY <1>1, <1>4 DEF RowsInv
    <2> QED
        BY <1>5, <2>2, <2>3 DEF RowsInv
<1>9. /\ Posted' = Posted
      /\ \A k \in Posted : invoice'[k].number = invoice[k].number
    BY <1>4, <1>7 DEF Posted, IsPosted
<1>10. NumbersInv'
    BY <1>9, SamePosted
<1>11. Frozen
    BY <1>4, <1>7 DEF Frozen
<1> QED
    BY <1>8, <1>10, <1>11 DEF StepKeeps

(* The transaction gives the next number, to a draft that is still there.  *)
LEMMA PostTxKeeps ==
    ASSUME RowsInv, NumbersInv, NEW r \in Posts, PostTx(r)
    PROVE  StepKeeps
<1>a. PICK id : id = post[r].id
    OBVIOUS
<1>b. PICK items : items = post[r].items
    OBVIOUS
<1>1. /\ ~IsPosted(id) /\ created' = created
      /\ invoice' = [i \in DOMAIN invoice |->
                        IF i = id
                        THEN [invoice[i] EXCEPT !.status = "bokford",
                                                !.number = NextNumber,
                                                !.total = items]
                        ELSE invoice[i]]
    BY <1>a, <1>b DEF PostTx
<1>2. PICK n \in Nat : CountedBy(n)
    BY DEF NumbersInv
<1>3. NextNumber = StartNumber + n
    BY <1>2, NextNumberFollows
<1>4. /\ DOMAIN invoice' = DOMAIN invoice
      /\ invoice' = [i \in DOMAIN invoice' |-> invoice'[i]]
      /\ \A i \in DOMAIN invoice : i # id => invoice'[i] = invoice[i]
    BY <1>1
<1>5. CASE id \notin DOMAIN invoice
    <2>1. invoice' = invoice
        BY <1>4, <1>5 DEF RowsInv
    <2> QED
        BY <1>1, <2>1, SameRows
<1>6. CASE id \in DOMAIN invoice
    <2> DEFINE row == invoice'[id]
    <2>1. /\ row = [f \in Fields |-> row[f]]
          /\ row.status = "bokford" /\ row.number = StartNumber + n
        <3>1. invoice[id] = [f \in Fields |-> invoice[id][f]]
            BY <1>6 DEF RowsInv
        <3>2. row = [invoice[id] EXCEPT !.status = "bokford",
                                          !.number = NextNumber,
                                          !.total = items]
            BY <1>1, <1>6
        <3> QED
            BY <1>3, <3>1, <3>2 DEF Fields
    <2>0. invoice'[id] = row
        OBVIOUS
    <2> HIDE DEF row
    <2>2. StartNumber + n \in Nat /\ StartNumber + n # NoNumber
        BY InvoicesAssumption DEF NoNumber
    <2>3. RowsInv'
        <3>1. \A i \in DOMAIN invoice' :
                  /\ invoice'[i] = [f \in Fields |-> invoice'[i][f]]
                  /\ invoice'[i].status \in {"utkast", "bokford", "betald"}
                  /\ invoice'[i].number \in Nat
                  /\ invoice'[i].number = NoNumber
                        <=> invoice'[i].status = "utkast"
            <4>1. ASSUME NEW i \in DOMAIN invoice, i # id
                  PROVE  invoice'[i] = invoice[i]
                BY <1>4, <4>1
            <4> QED
                BY <1>4, <2>0, <2>1, <2>2, <4>1 DEF RowsInv
        <3>2. created' \in Nat /\ DOMAIN invoice' \subseteq 1..created'
            BY <1>1, <1>4 DEF RowsInv
        <3> QED
            BY <1>4, <3>1, <3>2 DEF RowsInv
    <2>4. Posted' = Posted \cup {id} /\ id \notin Posted
        <3>1. row.status # "utkast"
            BY <2>1
        <3>2. \A i \in DOMAIN invoice :
                  i # id => (IsPosted(i)' <=> IsPosted(i))
            BY <1>4 DEF IsPosted
        <3>3. IsPosted(id)'
            BY <1>4, <1>6, <2>0, <3>1 DEF IsPosted
        <3> QED
            BY <1>1, <1>4, <1>6, <3>2, <3>3 DEF Posted
    <2>5. IsFiniteSet(Posted') /\ Cardinality(Posted') = n + 1
        BY <1>2, <2>4, FS_AddElement DEF CountedBy
    <2>6. Numbers' = Numbers \cup {StartNumber + n}
        <3>1. invoice'[id].number = StartNumber + n
            BY <2>0, <2>1
        <3>2. \A i \in Posted : invoice'[i].number = invoice[i].number
            BY <1>4, <2>4 DEF Posted
        <3> QED
            BY <2>4, <3>1, <3>2 DEF Numbers
    <2>7. Numbers' = StartNumber..(StartNumber + (n + 1) - 1)
        BY <1>2, <2>6, InvoicesAssumption DEF CountedBy
    <2>8. NumbersInv'
        BY <2>5, <2>7 DEF NumbersInv, CountedBy
    <2>9. Frozen
        BY <1>1, <1>4 DEF Frozen, RowsInv, Fields
    <2> QED
        BY <2>3, <2>8, <2>9 DEF StepKeeps
<1> QED
    BY <1>5, <1>6

-----------------------------------------------------------------------------
LEMMA InitInvoices == Init => RowsInv /\ NumbersInv
<1> SUFFICES ASSUME Init PROVE RowsInv /\ NumbersInv
    OBVIOUS
<1>1. DOMAIN invoice = {} /\ created = 0 /\ Posted = {} /\ Numbers = {}
    BY DEF Init, Posted, Numbers
<1>2. RowsInv
    BY <1>1 DEF Init, RowsInv
<1>3. CountedBy(0)
    BY <1>1, FS_EmptySet, InvoicesAssumption DEF CountedBy
<1> QED
    BY <1>2, <1>3 DEF NumbersInv

LEMMA NextKeeps ==
    ASSUME RowsInv, NumbersInv, [Next]_vars PROVE StepKeeps
<1>1. ASSUME NEW amt \in Totals, CreateInvoice(amt) PROVE StepKeeps
    <2> DEFINE d == Draft(amt, NoInvoice)
    <2>1. /\ d = [f \in Fields |-> d[f]]
          /\ d.status = "utkast" /\ d.number = NoNumber
        BY DEF Draft, Fields
    <2>2. Insert(d)
        BY <1>1 DEF CreateInvoice
    <2> HIDE DEF d
    <2> QED
        BY <2>1, <2>2, InsertKeeps
<1>2. ASSUME NEW i \in DOMAIN invoice,
             \/ CreateCreditInvoice(i) \/ DeleteInvoice(i)
             \/ RegisterPayment(i) \/ SettleInvoice(i)
             \/ \E amt \in MayHold(i) : UpdateInvoice(i, amt)
      PROVE  StepKeeps
    BY <1>2, CreateCreditKeeps, DeleteKeeps, PaymentKeeps, SettleKeeps,
       UpdateKeeps
<1>3. ASSUME NEW r \in Posts, PostTx(r) PROVE StepKeeps
    BY <1>3, PostTxKeeps
<1>4. ASSUME \/ \E r \in Posts, i \in DOMAIN invoice : PostReadHeader(r, i)
             \/ \E r \in Posts : PostReadItems(r) \/ PostFails(r)
             \/ UNCHANGED vars
      PROVE  StepKeeps
    BY <1>4, SameRows DEF PostReadHeader, PostReadItems, PostFails, vars
<1> QED
    BY <1>1, <1>2, <1>3, <1>4 DEF Next

LEMMA Inductive == Spec => [](RowsInv /\ NumbersInv)
<1>1. RowsInv /\ NumbersInv /\ [Next]_vars => RowsInv' /\ NumbersInv'
    BY NextKeeps DEF StepKeeps
<1> QED
    BY <1>1, InitInvoices, PTL DEF Spec

(* The numbers of the posted invoices are an unbroken series from the      *)
(* start number on, without duplicates, however postings overlap or fail   *)
(* and drafts are deleted (invoice.go:425-444).                            *)
THEOREM InvoiceNumbersUnbroken == Spec => []NumbersUnbroken
<1>1. NumbersInv => NumbersUnbroken
    BY DEF NumbersInv, CountedBy, Numbers, Posted, NumbersUnbroken
<1> QED
    BY <1>1, Inductive, PTL

(* What is posted stays as it is but for being paid, whatever was read of  *)
(* it before it was (init.go:351-357, invoice.go:536-552).                 *)
THEOREM PostedInvoicesAreFrozen == Spec => PostedFrozen
<1>1. RowsInv /\ NumbersInv /\ [Next]_vars =>
          [\A i \in DOMAIN invoice : IsPosted(i) =>
              /\ i \in DOMAIN invoice'
              /\ invoice'[i] = [invoice[i] EXCEPT !.status = invoice'[i].status]
              /\ invoice'[i].status # invoice[i].status
                    => invoice'[i].status = "betald"]_vars
    BY NextKeeps DEF StepKeeps, Frozen
<1> QED
    BY <1>1, Inductive, PTL DEF Spec, PostedFrozen

-----------------------------------------------------------------------------
(* The columns, the requests and the bookings.                             *)

(* What the columns of a row hold beside its status and number. *)
RowTypes ==
    /\ created \in 0..MaxInvoice
    /\ \A i \in DOMAIN invoice :
          /\ invoice[i].total \in Int
          /\ invoice[i].items \in Int
          /\ invoice[i].creditOf \in 0..created
          /\ invoice[i].creditOf # NoInvoice =>
                /\ IsPosted(invoice[i].creditOf)
                /\ invoice[invoice[i].creditOf].creditOf = NoInvoice

PostFields == {"pc", "id", "total", "items", "creditOf"}

(* A request has read an id that was handed out, and whole amounts. *)
PostInv ==
    /\ post = [r \in Posts |-> post[r]]
    /\ \A r \in Posts :
          /\ post[r] = [f \in PostFields |-> post[r][f]]
          /\ post[r].pc \in {"idle", "header", "read"}
          /\ post[r].pc # "idle" => post[r].id \in 1..created
          /\ post[r].pc = "read" => post[r].items \in Int

BagInv ==
    /\ IsABag(booking)
    /\ BagToSet(booking) \subseteq
          [kind : {"invoice", "payment"}, invoice : 1..created, amt : Int]

(* No row on 1510 for an invoice, and exactly one. *)
NoBooking(kind, i) ==
    \A e \in DOMAIN booking : ~(e.kind = kind /\ e.invoice = i)

OneBooking(kind, i, amt) ==
    /\ Entry(kind, i, amt) \in DOMAIN booking
    /\ booking[Entry(kind, i, amt)] = 1
    /\ \A e \in DOMAIN booking :
          e.kind = kind /\ e.invoice = i => e = Entry(kind, i, amt)

(* The bookings of an invoice in each status.  What was paid is known      *)
(* where no credit came between. *)
BookedFor(i) ==
    /\ invoice[i].status = "utkast" =>
          NoBooking("invoice", i) /\ NoBooking("payment", i)
    /\ IsPosted(i) => OneBooking("invoice", i, invoice[i].total)
    /\ invoice[i].status = "bokford" => NoBooking("payment", i)
    /\ invoice[i].status = "betald" =>
          \/ NoBooking("payment", i)
          \/ \E amt \in Int : OneBooking("payment", i, amt)
    /\ /\ invoice[i].status = "betald" /\ invoice[i].creditOf = NoInvoice
       /\ PostedCreditsOf(i) = {}
       => OneBooking("payment", i, -invoice[i].total)

BookingInv == \A i \in DOMAIN invoice : BookedFor(i)

FullInv == RowsInv /\ NumbersInv /\ RowTypes /\ PostInv /\ BagInv /\ BookingInv

-----------------------------------------------------------------------------
(* The types.                                                              *)

LEMMA FrozenRows ==
    ASSUME RowsInv, Frozen, NEW i, IsPosted(i)
    PROVE  /\ IsPosted(i)'
           /\ invoice'[i].creditOf = invoice[i].creditOf
           /\ invoice'[i].total = invoice[i].total
           /\ invoice'[i].status \in {invoice[i].status, "betald"}
<1>1. i \in DOMAIN invoice /\ invoice[i].status # "utkast"
    BY DEF IsPosted
<1>2. /\ i \in DOMAIN invoice'
      /\ invoice'[i] = [invoice[i] EXCEPT !.status = invoice'[i].status]
      /\ invoice'[i].status # invoice[i].status
            => invoice'[i].status = "betald"
    BY <1>1 DEF Frozen
<1>3. invoice[i] = [f \in Fields |-> invoice[i][f]]
    BY <1>1 DEF RowsInv
<1>4. /\ invoice'[i].creditOf = invoice[i].creditOf
      /\ invoice'[i].total = invoice[i].total
    BY <1>2, <1>3 DEF Fields
<1> QED
    BY <1>1, <1>2, <1>4 DEF IsPosted

(* Rows that stay keep what they credit, and new ones credit a posted      *)
(* original. *)
LEMMA RowTypesKept ==
    ASSUME RowsInv, Frozen, RowTypes,
           created' \in created..MaxInvoice,
           \A i \in DOMAIN invoice' :
              /\ invoice'[i].total \in Int
              /\ invoice'[i].items \in Int
              /\ \/ i \in DOMAIN invoice /\ invoice'[i].creditOf = invoice[i].creditOf
                 \/ invoice'[i].creditOf = NoInvoice
                 \/ /\ IsPosted(invoice'[i].creditOf)
                    /\ invoice[invoice'[i].creditOf].creditOf = NoInvoice
    PROVE  RowTypes'
<1>0. created \in Nat /\ created' \in Nat /\ created <= created'
    BY InvoicesAssumption DEF RowTypes
<1>1. ASSUME NEW i \in DOMAIN invoice', invoice'[i].creditOf # NoInvoice
      PROVE  /\ IsPosted(invoice'[i].creditOf)
             /\ invoice[invoice'[i].creditOf].creditOf = NoInvoice
    BY <1>1 DEF RowTypes
<1>2. ASSUME NEW i \in DOMAIN invoice', NEW c, c = invoice'[i].creditOf, c # NoInvoice
      PROVE  IsPosted(c)' /\ invoice'[c].creditOf = NoInvoice
    BY <1>1, <1>2, FrozenRows
<1>3. ASSUME NEW i \in DOMAIN invoice' PROVE invoice'[i].creditOf \in 0..created'
    <2>1. CASE invoice'[i].creditOf = NoInvoice
        BY <1>0, <2>1 DEF NoInvoice
    <2>2. CASE invoice'[i].creditOf # NoInvoice
        <3>1. invoice'[i].creditOf \in DOMAIN invoice
            BY <1>1, <2>2 DEF IsPosted
        <3> QED
            BY <1>0, <3>1 DEF RowsInv
    <2> QED
        BY <2>1, <2>2
<1>4. created' \in 0..MaxInvoice
    BY <1>0
<1>5. ASSUME NEW i \in DOMAIN invoice'
      PROVE  (/\ invoice[i].total \in Int
              /\ invoice[i].items \in Int
              /\ invoice[i].creditOf \in 0..created
              /\ invoice[i].creditOf # NoInvoice =>
                    /\ IsPosted(invoice[i].creditOf)
                    /\ invoice[invoice[i].creditOf].creditOf = NoInvoice)'
    <2>1. PICK c : c = invoice'[i].creditOf
        OBVIOUS
    <2>2. c # NoInvoice => IsPosted(c)' /\ invoice'[c].creditOf = NoInvoice
        BY <1>2, <2>1
    <2> QED
        BY <1>3, <2>1, <2>2 DEF IsPosted
<1> QED
    BY <1>4, <1>5 DEF RowTypes

LEMMA InsertTypes ==
    ASSUME RowsInv, Frozen, RowTypes, NEW draft, Insert(draft),
           draft.total \in Int, draft.items \in Int,
           \/ draft.creditOf = NoInvoice
           \/ /\ IsPosted(draft.creditOf)
              /\ invoice[draft.creditOf].creditOf = NoInvoice
    PROVE  RowTypes'
<1>1. /\ DOMAIN invoice' = DOMAIN invoice \cup {created + 1}
      /\ \A i \in DOMAIN invoice : invoice'[i] = invoice[i]
      /\ invoice'[created + 1] = draft
    BY DEF Insert, RowsInv
<1>2. created' \in created..MaxInvoice
    BY InvoicesAssumption DEF Insert, RowTypes
<1> QED
    BY <1>1, <1>2, RowTypesKept DEF RowTypes

LEMMA NextRowTypes ==
    ASSUME RowsInv, Frozen, RowTypes, PostInv, [Next]_vars
    PROVE  RowTypes' /\ created' \in created..MaxInvoice
<1>0. created \in created..MaxInvoice
    BY InvoicesAssumption DEF RowTypes
<1>1. ASSUME NEW amt \in Totals, CreateInvoice(amt) PROVE RowTypes'
    <2> DEFINE d == Draft(amt, NoInvoice)
    <2>1. d.total \in Int /\ d.items \in Int /\ d.creditOf = NoInvoice
        BY InvoicesAssumption DEF Draft
    <2>2. Insert(d)
        BY <1>1 DEF CreateInvoice
    <2> HIDE DEF d
    <2> QED
        BY <2>1, <2>2, InsertTypes
<1>2. ASSUME NEW i \in DOMAIN invoice, CreateCreditInvoice(i) PROVE RowTypes'
    <2> DEFINE d == [Draft(-invoice[i].total, i) EXCEPT !.items = -invoice[i].items]
    <2>1. d.total = -invoice[i].total /\ d.items = -invoice[i].items /\ d.creditOf = i
        BY DEF Draft
    <2>2. Insert(d) /\ IsPosted(i) /\ invoice[i].creditOf = NoInvoice
        BY <1>2 DEF CreateCreditInvoice
    <2> HIDE DEF d
    <2>3. d.total \in Int /\ d.items \in Int
        BY <2>1 DEF RowTypes
    <2> QED
        BY <2>1, <2>2, <2>3, InsertTypes
<1>3. ASSUME NEW i \in DOMAIN invoice, NEW amt \in MayHold(i), UpdateInvoice(i, amt)
      PROVE  RowTypes'
    <2> DEFINE row == [invoice[i] EXCEPT !.total = amt, !.items = amt]
    <2>1. invoice' = [invoice EXCEPT ![i] = row] /\ created' = created
        BY <1>3 DEF UpdateInvoice
    <2>2. amt \in Int
        <3>1. CASE invoice[i].creditOf = NoInvoice
            BY <3>1, InvoicesAssumption DEF MayHold
        <3>2. CASE invoice[i].creditOf # NoInvoice
            BY <3>2 DEF MayHold
        <3> QED
            BY <3>1, <3>2
    <2>3. invoice[i] = [f \in Fields |-> invoice[i][f]]
        BY DEF RowsInv
    <2>4. row.total = amt /\ row.items = amt /\ row.creditOf = invoice[i].creditOf
        BY <2>3 DEF Fields
    <2> HIDE DEF row
    <2>5. \A k \in DOMAIN invoice : k # i => invoice'[k] = invoice[k]
        BY <2>1
    <2>6. DOMAIN invoice' = DOMAIN invoice /\ invoice'[i] = row
        BY <2>1
    <2> QED
        BY <1>0, <2>1, <2>2, <2>4, <2>5, <2>6, RowTypesKept DEF RowTypes
<1>4. ASSUME NEW i \in DOMAIN invoice, DeleteInvoice(i) PROVE RowTypes'
    BY <1>0, <1>4, RowTypesKept DEF DeleteInvoice, RowTypes
<1>5. ASSUME created' = created, DOMAIN invoice' = DOMAIN invoice,
             \A k \in DOMAIN invoice :
                \/ invoice'[k] = invoice[k]
                \/ invoice'[k] = [invoice[k] EXCEPT !.status = "betald"]
      PROVE  RowTypes'
    <2>1. \A k \in DOMAIN invoice :
              /\ invoice'[k].total = invoice[k].total
              /\ invoice'[k].items = invoice[k].items
              /\ invoice'[k].creditOf = invoice[k].creditOf
        <3> SUFFICES ASSUME NEW k \in DOMAIN invoice
                     PROVE  /\ invoice'[k].total = invoice[k].total
                            /\ invoice'[k].items = invoice[k].items
                            /\ invoice'[k].creditOf = invoice[k].creditOf
            OBVIOUS
        <3>1. invoice[k] = [f \in Fields |-> invoice[k][f]]
            BY DEF RowsInv
        <3> QED
            BY <1>5, <3>1 DEF Fields
    <2> QED
        BY <1>0, <1>5, <2>1, RowTypesKept DEF RowTypes
<1>6. ASSUME NEW i \in DOMAIN invoice, RegisterPayment(i) \/ SettleInvoice(i)
      PROVE  RowTypes'
    <2>1. created' = created /\ DOMAIN invoice' = DOMAIN invoice
        BY <1>6 DEF RegisterPayment, SettleInvoice
    <2>2. \A k \in DOMAIN invoice :
                \/ invoice'[k] = invoice[k]
                \/ invoice'[k] = [invoice[k] EXCEPT !.status = "betald"]
        BY <1>6 DEF RegisterPayment, SettleInvoice
    <2> QED
        BY <1>5, <2>1, <2>2
<1>7. ASSUME NEW r \in Posts, PostTx(r) PROVE RowTypes'
    <2>1. PICK id : id = post[r].id
        OBVIOUS
    <2>2. PICK items \in Int : items = post[r].items
        BY <1>7 DEF PostTx, PostInv
    <2>3. PICK number : number = NextNumber
        OBVIOUS
    <2>4. /\ created' = created /\ DOMAIN invoice' = DOMAIN invoice
          /\ \A k \in DOMAIN invoice :
                invoice'[k] = IF k = id
                              THEN [invoice[k] EXCEPT !.status = "bokford",
                                                      !.number = number,
                                                      !.total = items]
                              ELSE invoice[k]
        BY <1>7, <2>1, <2>2, <2>3 DEF PostTx
    <2>5. ASSUME NEW k \in DOMAIN invoice
          PROVE  /\ invoice'[k].total \in Int
                 /\ invoice'[k].items = invoice[k].items
                 /\ invoice'[k].creditOf = invoice[k].creditOf
        <3>1. invoice[k] = [f \in Fields |-> invoice[k][f]]
            BY DEF RowsInv
        <3> QED
            BY <2>4, <3>1 DEF Fields, RowTypes
    <2> QED
        BY <1>0, <2>4, <2>5, RowTypesKept DEF RowTypes
<1>8. ASSUME UNCHANGED <<invoice, created>> PROVE RowTypes'
    BY <1>8 DEF RowTypes, IsPosted
<1>9. RowTypes'
    BY <1>1, <1>2, <1>3, <1>4, <1>6, <1>7, <1>8
    DEF Next, vars, PostReadHeader, PostReadItems, PostFails
<1>10. created' = created \/ (created < MaxInvoice /\ created' = created + 1)
    BY DEF Next, vars, CreateInvoice, CreateCreditInvoice, Insert, UpdateInvoice,
           DeleteInvoice, RegisterPayment, SettleInvoice, PostReadHeader,
           PostReadItems, PostTx, PostFails
<1>11. created' \in created..MaxInvoice
    BY <1>10, InvoicesAssumption DEF RowTypes
<1> QED
    BY <1>9, <1>11

-----------------------------------------------------------------------------
(* The requests.                                                           *)

LEMMA IdlePost ==
    /\ Idle = [f \in PostFields |-> Idle[f]]
    /\ Idle.pc = "idle"
BY DEF Idle, PostFields

LEMMA RequestKept ==
    ASSUME PostInv, created' \in Nat, created \in Nat, created <= created',
           NEW r \in Posts, NEW p, post' = [post EXCEPT ![r] = p],
           p = [f \in PostFields |-> p[f]],
           p.pc \in {"idle", "header", "read"},
           p.pc # "idle" => p.id \in 1..created,
           p.pc = "read" => p.items \in Int
    PROVE  PostInv'
<1>1. /\ post' = [q \in Posts |-> post'[q]]
      /\ post'[r] = p
      /\ \A q \in Posts : q # r => post'[q] = post[q]
    BY DEF PostInv
<1> QED
    BY <1>1 DEF PostInv

LEMMA NextPostInv ==
    ASSUME RowsInv, RowTypes, PostInv, created' \in created..MaxInvoice, [Next]_vars
    PROVE  PostInv'
<1>0. created \in Nat /\ created' \in Nat /\ created <= created'
    BY InvoicesAssumption DEF RowTypes
<1>1. ASSUME NEW r \in Posts, NEW i \in DOMAIN invoice, PostReadHeader(r, i)
      PROVE  PostInv'
    <2> DEFINE p == [Idle EXCEPT !.pc = "header", !.id = i,
                                 !.total = invoice[i].total,
                                 !.creditOf = invoice[i].creditOf]
    <2>1. post' = [post EXCEPT ![r] = p]
        BY <1>1 DEF PostReadHeader
    <2>2. p = [f \in PostFields |-> p[f]] /\ p.pc = "header" /\ p.id = i
        BY DEF Idle, PostFields
    <2>3. i \in 1..created
        BY DEF RowsInv
    <2> HIDE DEF p
    <2> QED
        BY <1>0, <2>1, <2>2, <2>3, RequestKept
<1>2. ASSUME NEW r \in Posts, PostReadItems(r) PROVE PostInv'
    <2>1. PICK items \in Int :
              items = IF post[r].id \in DOMAIN invoice
                      THEN invoice[post[r].id].items ELSE 0
        BY DEF RowTypes
    <2> DEFINE p == [post[r] EXCEPT !.pc = "read", !.items = items]
    <2>2. \/ post' = [post EXCEPT ![r] = p]
          \/ post' = [post EXCEPT ![r] = Idle]
        BY <1>2, <2>1 DEF PostReadItems
    <2>3. /\ p = [f \in PostFields |-> p[f]] /\ p.pc = "read"
          /\ p.id = post[r].id /\ p.items = items
        <3>1. post[r] = [f \in PostFields |-> post[r][f]]
            BY DEF PostInv
        <3> QED
            BY <3>1 DEF PostFields
    <2>4. post[r].id \in 1..created
        BY <1>2 DEF PostReadItems, PostInv
    <2> HIDE DEF p
    <2> QED
        BY <1>0, <2>1, <2>2, <2>3, <2>4, RequestKept, IdlePost
<1>3. ASSUME NEW r \in Posts, PostTx(r) \/ PostFails(r) PROVE PostInv'
    <2>1. post' = [post EXCEPT ![r] = Idle]
        BY <1>3 DEF PostTx, PostFails
    <2> QED
        BY <1>0, <2>1, RequestKept, IdlePost
<1>4. ASSUME post' = post PROVE PostInv'
    BY <1>0, <1>4 DEF PostInv
<1> QED
    BY <1>1, <1>2, <1>3, <1>4
    DEF Next, vars, CreateInvoice, CreateCreditInvoice, Insert, UpdateInvoice,
        DeleteInvoice, RegisterPayment, SettleInvoice

-----------------------------------------------------------------------------
(* The bookings.                                                           *)

(* One row more. *)
Added(b) ==
    /\ DOMAIN booking' = DOMAIN booking \cup {b}
    /\ booking' = [e \in DOMAIN booking' |-> booking'[e]]
    /\ \A e \in DOMAIN booking : e # b => booking'[e] = booking[e]
    /\ b \notin DOMAIN booking => booking'[b] = 1
    /\ b \in DOMAIN booking => booking'[b] = booking[b] + 1

LEMMA BookingRows ==
    ASSUME BagInv, NEW kind, NEW i, NEW amt, booking' = Booked(kind, i, amt)
    PROVE  Added(Entry(kind, i, amt))
BY DEF Added, Booked, SetToBag, (+), BagInv, IsABag

LEMMA EntryFields ==
    ASSUME NEW kind, NEW i, NEW amt
    PROVE  /\ Entry(kind, i, amt).kind = kind
           /\ Entry(kind, i, amt).invoice = i
           /\ Entry(kind, i, amt).amt = amt
BY DEF Entry

LEMMA BookingTypes ==
    ASSUME BagInv, created \in Nat, NEW kind \in {"invoice", "payment"},
           NEW i \in 1..created, NEW amt \in Int, created' = created,
           booking' = Booked(kind, i, amt)
    PROVE  BagInv'
<1> DEFINE b == Entry(kind, i, amt)
<1>1. Added(b)
    BY BookingRows
<1>2. b \in [kind : {"invoice", "payment"}, invoice : 1..created, amt : Int]
    BY DEF Entry
<1> HIDE DEF b
<1>3. \A e \in DOMAIN booking' : booking'[e] \in {n \in Nat : n > 0}
    BY <1>1 DEF Added, BagInv, IsABag
<1>4. IsABag(booking')
    BY <1>1, <1>3 DEF Added, IsABag
<1>5. BagToSet(booking') \subseteq
          [kind : {"invoice", "payment"}, invoice : 1..created', amt : Int]
    BY <1>1, <1>2 DEF Added, BagInv, BagToSet
<1> QED
    BY <1>4, <1>5 DEF BagInv

(* A booking says nothing of other invoices and of the other kind.         *)
LEMMA BookedElsewhere ==
    ASSUME BagInv, NEW kind, NEW i, NEW amt, booking' = Booked(kind, i, amt),
           NEW k, NEW j, k # kind \/ j # i
    PROVE  /\ NoBooking(k, j) => NoBooking(k, j)'
           /\ \A a : OneBooking(k, j, a) => OneBooking(k, j, a)'
<1> DEFINE b == Entry(kind, i, amt)
<1>1. Added(b) /\ b.kind = kind /\ b.invoice = i
    BY BookingRows, EntryFields
<1>2. ASSUME NEW a PROVE Entry(k, j, a) # b
    BY EntryFields
<1> HIDE DEF b
<1> QED
    BY <1>1, <1>2 DEF Added, NoBooking, OneBooking

LEMMA BookedFirst ==
    ASSUME BagInv, NEW kind, NEW i, NEW amt, booking' = Booked(kind, i, amt),
           NoBooking(kind, i)
    PROVE  OneBooking(kind, i, amt)'
<1> DEFINE b == Entry(kind, i, amt)
<1>1. Added(b) /\ b.kind = kind /\ b.invoice = i
    BY BookingRows, EntryFields
<1>2. b \notin DOMAIN booking
    BY <1>1 DEF NoBooking
<1> HIDE DEF b
<1>3. \A e \in DOMAIN booking : e.kind = kind /\ e.invoice = i => e = b
    BY DEF NoBooking
<1> QED
    BY <1>1, <1>2, <1>3 DEF Added, OneBooking, b

(* The sum over a set of invoices. *)
SumOver(rows, ids) == MapThenSumSet(LAMBDA i : rows[i].total, ids)

LEMMA SumOverType ==
    ASSUME NEW S, IsFiniteSet(S), NEW rows, \A i \in S : rows[i].total \in Int
    PROVE  SumOver(rows, S) \in Int /\ (S = {} => SumOver(rows, S) = 0)
<1> DEFINE f == [i \in S |-> rows[i].total]
           Solves(h) == h = [s \in SUBSET S |->
                               IF s = {} THEN 0
                               ELSE LET x == CHOOSE x \in s : TRUE
                                    IN  rows[x].total + h[s \ {x}]]
<1>1. ASSUME NEW h, NEW s \in SUBSET S
      PROVE  SumStep(f, h, s) = IF s = {} THEN 0
                                ELSE LET x == CHOOSE x \in s : TRUE
                                     IN  rows[x].total + h[s \ {x}]
    BY DEF SumStep
<1>2. PICK g \in [SUBSET S -> Int] : \A s \in SUBSET S : g[s] = SumStep(f, g, s)
    BY SumExists
<1>3. Solves(g)
    BY <1>1, <1>2
<1>4. PICK h : Solves(h) /\ SumOver(rows, S) = h[S]
    BY <1>3 DEF SumOver, MapThenSumSet, MapThenFoldSet
<1>5. \A s \in SUBSET S : h[s] = SumStep(f, h, s)
    BY <1>1, <1>4
<1>6. \A i \in S : f[i] \in Int
    OBVIOUS
<1>7. S = {} => h[S] = 0
    BY <1>4
<1> HIDE DEF f
<1> QED
    BY <1>4, <1>5, <1>6, <1>7, SumType

(* What is paid is a whole amount, and the total where nothing was credited. *)
LEMMA PaidAmount ==
    ASSUME RowsInv, RowTypes, NEW i \in DOMAIN invoice
    PROVE  /\ AmountToPay(i) \in Int
           /\ PostedCreditsOf(i) = {} => AmountToPay(i) = invoice[i].total
<1> DEFINE S == PostedCreditsOf(i)
<1>1. created \in Int /\ S \subseteq 1..created
    BY DEF RowsInv, PostedCreditsOf, CreditsOf
<1>2. IsFiniteSet(1..created)
    BY <1>1, FS_Interval
<1>3. IsFiniteSet(S)
    BY <1>1, <1>2, FS_Subset
<1>4. \A k \in S : invoice[k].total \in Int
    BY DEF PostedCreditsOf, CreditsOf, RowTypes
<1> HIDE DEF S
<1>5. SumOver(invoice, S) \in Int /\ (S = {} => SumOver(invoice, S) = 0)
    BY <1>3, <1>4, SumOverType
<1>6. SumOfTotals(S) = SumOver(invoice, S)
    BY DEF SumOfTotals, SumOver
<1>7. invoice[i].total \in Int
    BY DEF RowTypes
<1> QED
    BY <1>5, <1>6, <1>7 DEF AmountToPay, S

LEMMA NextBagInv ==
    ASSUME RowsInv, RowTypes, PostInv, BagInv, created' \in created..MaxInvoice,
           [Next]_vars
    PROVE  BagInv'
<1>0. created \in Nat /\ created' \in Nat /\ created <= created'
    BY InvoicesAssumption DEF RowTypes
<1>1. ASSUME NEW i \in DOMAIN invoice, RegisterPayment(i) PROVE BagInv'
    <2>1. AmountToPay(i) \in Int
        BY PaidAmount
    <2>2. PICK amt \in Int : amt = -AmountToPay(i)
        BY <2>1
    <2>3. booking' = Booked("payment", i, amt) /\ created' = created
        BY <1>1, <2>2 DEF RegisterPayment
    <2>4. i \in 1..created
        BY DEF RowsInv
    <2> QED
        BY <1>0, <2>3, <2>4, BookingTypes
<1>2. ASSUME NEW r \in Posts, PostTx(r) PROVE BagInv'
    <2>1. post[r].id \in 1..created /\ post[r].items \in Int
        BY <1>2 DEF PostTx, PostInv
    <2>2. PICK i \in 1..created, amt \in Int : i = post[r].id /\ amt = post[r].items
        BY <2>1
    <2>3. booking' = Booked("invoice", i, amt) /\ created' = created
        BY <1>2, <2>2 DEF PostTx
    <2> QED
        BY <1>0, <2>3, BookingTypes
<1>3. ASSUME booking' = booking PROVE BagInv'
    <2>1. [kind : {"invoice", "payment"}, invoice : 1..created, amt : Int]
              \subseteq [kind : {"invoice", "payment"}, invoice : 1..created', amt : Int]
        BY <1>0
    <2> QED
        BY <1>3, <2>1 DEF BagInv
<1> QED
    BY <1>1, <1>2, <1>3
    DEF Next, vars, CreateInvoice, CreateCreditInvoice, Insert, UpdateInvoice,
        DeleteInvoice, SettleInvoice, PostReadHeader, PostReadItems, PostFails

-----------------------------------------------------------------------------
(* The bookings of each invoice.                                           *)

LEMMA CreditsGrow ==
    ASSUME RowsInv, Frozen, NEW i
    PROVE  PostedCreditsOf(i) \subseteq PostedCreditsOf(i)'
<1> SUFFICES ASSUME NEW c \in PostedCreditsOf(i) PROVE c \in PostedCreditsOf(i)'
    OBVIOUS
<1>1. IsPosted(c) /\ invoice[c].creditOf = i
    BY DEF PostedCreditsOf, CreditsOf
<1>2. IsPosted(c)' /\ invoice'[c].creditOf = i
    BY <1>1, FrozenRows
<1> QED
    BY <1>2 DEF PostedCreditsOf, CreditsOf, IsPosted

(* The bookings of i are what they were. *)
SameBookings(i) ==
    \A k \in {"invoice", "payment"} :
        /\ NoBooking(k, i) => NoBooking(k, i)'
        /\ \A a : OneBooking(k, i, a) => OneBooking(k, i, a)'

LEMMA BookedForKept ==
    ASSUME RowsInv, Frozen, NEW i \in DOMAIN invoice, i \in DOMAIN invoice',
           BookedFor(i), invoice'[i].status = invoice[i].status,
           SameBookings(i)
    PROVE  BookedFor(i)'
<1>1. CASE IsPosted(i)
    <2>1. /\ IsPosted(i)'
          /\ invoice'[i].creditOf = invoice[i].creditOf
          /\ invoice'[i].total = invoice[i].total
        BY <1>1, FrozenRows
    <2>2. PostedCreditsOf(i)' = {} => PostedCreditsOf(i) = {}
        BY CreditsGrow
    <2>3. invoice[i].status # "utkast"
        BY <1>1 DEF IsPosted
    <2> QED
        BY <1>1, <2>1, <2>2, <2>3 DEF BookedFor, SameBookings
<1>2. CASE ~IsPosted(i)
    <2>1. invoice[i].status = "utkast" /\ ~IsPosted(i)'
        BY <1>2 DEF IsPosted
    <2> QED
        BY <2>1 DEF BookedFor, SameBookings
<1> QED
    BY <1>1, <1>2

LEMMA NextBookingInv ==
    ASSUME RowsInv, RowTypes, PostInv, BagInv, BookingInv, Frozen,
           RowTypes', [Next]_vars
    PROVE  BookingInv'
<1>a. ASSUME booking' = booking, NEW i PROVE SameBookings(i)
    BY <1>a DEF SameBookings, NoBooking, OneBooking
<1>b. ASSUME NEW i \in DOMAIN invoice, i \in DOMAIN invoice',
             invoice'[i].status = invoice[i].status, SameBookings(i)
      PROVE  BookedFor(i)'
    BY <1>b, BookedForKept DEF BookingInv
<1>1. ASSUME NEW draft, Insert(draft), draft.status = "utkast" PROVE BookingInv'
    <2>1. PICK n : n = created + 1 /\ n \notin 1..created
        BY DEF RowsInv
    <2>2. /\ DOMAIN invoice' = DOMAIN invoice \cup {n}
          /\ \A i \in DOMAIN invoice : invoice'[i] = invoice[i]
          /\ invoice'[n] = draft
          /\ booking' = booking
        BY <1>1, <2>1 DEF Insert, RowsInv
    <2>3. NoBooking("invoice", n)' /\ NoBooking("payment", n)'
        BY <2>1, <2>2 DEF NoBooking, BagInv, BagToSet
    <2>4. BookedFor(n)'
        BY <1>1, <2>2, <2>3 DEF BookedFor, IsPosted
    <2>5. \A i \in DOMAIN invoice : BookedFor(i)'
        BY <1>a, <1>b, <2>2
    <2> QED
        BY <2>2, <2>4, <2>5 DEF BookingInv
<1>2. ASSUME NEW amt \in Totals, CreateInvoice(amt) PROVE BookingInv'
    <2> DEFINE d == Draft(amt, NoInvoice)
    <2>1. Insert(d) /\ d.status = "utkast"
        BY <1>2 DEF CreateInvoice, Draft
    <2> HIDE DEF d
    <2> QED
        BY <1>1, <2>1
<1>3. ASSUME NEW i \in DOMAIN invoice, CreateCreditInvoice(i) PROVE BookingInv'
    <2> DEFINE d == [Draft(-invoice[i].total, i) EXCEPT !.items = -invoice[i].items]
    <2>1. Insert(d) /\ d.status = "utkast"
        BY <1>3 DEF CreateCreditInvoice, Draft
    <2> HIDE DEF d
    <2> QED
        BY <1>1, <2>1
<1>4. ASSUME NEW i \in DOMAIN invoice, NEW amt, UpdateInvoice(i, amt)
      PROVE  BookingInv'
    <2> DEFINE row == [invoice[i] EXCEPT !.total = amt, !.items = amt]
    <2>1. invoice' = [invoice EXCEPT ![i] = row] /\ booking' = booking
        BY <1>4 DEF UpdateInvoice
    <2>2. invoice[i] = [f \in Fields |-> invoice[i][f]]
        BY DEF RowsInv
    <2>3. row.status = invoice[i].status
        BY <2>2 DEF Fields
    <2> HIDE DEF row
    <2>4. /\ DOMAIN invoice' = DOMAIN invoice
          /\ \A k \in DOMAIN invoice : invoice'[k].status = invoice[k].status
        BY <2>1, <2>3
    <2> QED
        BY <1>a, <1>b, <2>1, <2>4 DEF BookingInv
<1>5. ASSUME NEW i \in DOMAIN invoice, DeleteInvoice(i) PROVE BookingInv'
    <2>1. /\ DOMAIN invoice' \subseteq DOMAIN invoice
          /\ \A k \in DOMAIN invoice' : invoice'[k].status = invoice[k].status
          /\ booking' = booking
        BY <1>5 DEF DeleteInvoice
    <2> QED
        BY <1>a, <1>b, <2>1 DEF BookingInv
<1>6. ASSUME NEW i \in DOMAIN invoice, RegisterPayment(i) PROVE BookingInv'
    <2>1. PICK amt : amt = -AmountToPay(i)
        OBVIOUS
    <2>2. /\ invoice[i].status = "bokford" /\ IsPosted(i)
          /\ invoice' = [invoice EXCEPT ![i] = [invoice[i] EXCEPT !.status = "betald"]]
          /\ booking' = Booked("payment", i, amt)
        BY <1>6, <2>1 DEF RegisterPayment, IsPosted
    <2>3. /\ DOMAIN invoice' = DOMAIN invoice
          /\ \A k \in DOMAIN invoice : k # i => invoice'[k] = invoice[k]
        BY <2>2
    <2>4. /\ IsPosted(i)'
          /\ invoice'[i].total = invoice[i].total
          /\ invoice'[i].status = "betald"
        <3>1. invoice[i] = [f \in Fields |-> invoice[i][f]]
            BY DEF RowsInv
        <3>2. invoice'[i].status = "betald"
            BY <2>2, <3>1 DEF Fields
        <3> QED
            BY <2>2, <3>2, FrozenRows
    <2>5. OneBooking("payment", i, amt)'
        BY <2>2, BookedFirst DEF BookingInv, BookedFor
    <2>6. \A a : OneBooking("invoice", i, a) => OneBooking("invoice", i, a)'
        BY <2>2, BookedElsewhere
    <2>7. amt \in Int /\ (PostedCreditsOf(i)' = {} => amt = -invoice[i].total)
        BY <2>1, PaidAmount, CreditsGrow
    <2>8. BookedFor(i)'
        BY <2>2, <2>4, <2>5, <2>6, <2>7 DEF BookingInv, BookedFor
    <2>9. ASSUME NEW k \in DOMAIN invoice, k # i PROVE BookedFor(k)'
        <3>1. SameBookings(k)
            BY <2>2, <2>9, BookedElsewhere DEF SameBookings
        <3> QED
            BY <1>b, <2>3, <2>9, <3>1
    <2> QED
        BY <2>3, <2>8, <2>9 DEF BookingInv
<1>7. ASSUME NEW c \in DOMAIN invoice, SettleInvoice(c) PROVE BookingInv'
    <2>1. PICK o : o = invoice[c].creditOf
        OBVIOUS
    <2>2. /\ invoice[c].status = "bokford" /\ IsPosted(o) /\ o # NoInvoice
          /\ DOMAIN invoice' = DOMAIN invoice /\ booking' = booking
        BY <1>7, <2>1 DEF SettleInvoice
    <2>3. /\ \A k \in DOMAIN invoice : k \notin {c, o} => invoice'[k] = invoice[k]
          /\ invoice'[c] = [invoice[c] EXCEPT !.status = "betald"]
          /\ \/ invoice'[o] = invoice[o]
             \/ invoice'[o] = [invoice[o] EXCEPT !.status = "betald"]
        BY <1>7, <2>1, <2>2 DEF SettleInvoice, IsPosted
    <2>4. IsPosted(c)
        BY <2>2 DEF IsPosted
    <2>5. ASSUME NEW k \in {c, o} PROVE BookedFor(k)'
        <3>1. IsPosted(k) /\ k \in DOMAIN invoice
            BY <2>2, <2>4 DEF IsPosted
        <3>2. /\ IsPosted(k)'
              /\ invoice'[k].total = invoice[k].total
              /\ invoice'[k].creditOf = invoice[k].creditOf
              /\ invoice'[k].status \in {invoice[k].status, "betald"}
            BY <3>1, FrozenRows
        <3>3. invoice[k].status \in {"bokford", "betald"}
            BY <3>1 DEF IsPosted, RowsInv
        <3>4. ~(invoice'[k].creditOf = NoInvoice /\ PostedCreditsOf(k)' = {})
            <4>1. CASE k = c
                BY <2>1, <2>2, <3>2, <4>1
            <4>2. CASE k = o
                <5>1. c \in PostedCreditsOf(k)
                    BY <2>1, <2>4, <4>2 DEF PostedCreditsOf, CreditsOf
                <5>2. c \in PostedCreditsOf(k)'
                    BY <5>1, CreditsGrow
                <5> QED
                    BY <5>2
            <4> QED
                BY <4>1, <4>2
        <3>5. BookedFor(k) /\ SameBookings(k)
            BY <1>a, <2>2, <3>1 DEF BookingInv
        <3> QED
            BY <3>1, <3>2, <3>3, <3>4, <3>5 DEF BookedFor, SameBookings
    <2>6. ASSUME NEW k \in DOMAIN invoice, k \notin {c, o} PROVE BookedFor(k)'
        BY <1>a, <1>b, <2>2, <2>3, <2>6
    <2> QED
        BY <2>2, <2>5, <2>6 DEF BookingInv
<1>8. ASSUME NEW r \in Posts, PostTx(r) PROVE BookingInv'
    <2>1. PICK id : id = post[r].id
        OBVIOUS
    <2>2. PICK items : items = post[r].items
        OBVIOUS
    <2>3. PICK number : number = NextNumber
        OBVIOUS
    <2>4. /\ ~IsPosted(id) /\ DOMAIN invoice' = DOMAIN invoice
          /\ booking' = Booked("invoice", id, items)
          /\ \A k \in DOMAIN invoice :
                invoice'[k] = IF k = id
                              THEN [invoice[k] EXCEPT !.status = "bokford",
                                                      !.number = number,
                                                      !.total = items]
                              ELSE invoice[k]
        BY <1>8, <2>1, <2>2, <2>3 DEF PostTx
    <2>5. ASSUME NEW k \in DOMAIN invoice, k # id PROVE BookedFor(k)'
        <3>1. SameBookings(k)
            BY <2>4, <2>5, BookedElsewhere DEF SameBookings
        <3> QED
            BY <1>b, <2>4, <2>5, <3>1
    <2>6. ASSUME id \in DOMAIN invoice PROVE BookedFor(id)'
        <3>1. invoice[id].status = "utkast"
            BY <2>4, <2>6 DEF IsPosted
        <3>2. NoBooking("invoice", id) /\ NoBooking("payment", id)
            BY <2>6, <3>1 DEF BookingInv, BookedFor
        <3>a. BagInv /\ booking' = Booked("invoice", id, items)
            BY <2>4
        <3>b. OneBooking("invoice", id, items)'
            BY <3>a, <3>2, BookedFirst
        <3>c. "payment" # "invoice"
            OBVIOUS
        <3>d. NoBooking("payment", id)'
            BY <3>a, <3>c, <3>2, BookedElsewhere
        <3>3. OneBooking("invoice", id, items)' /\ NoBooking("payment", id)'
            BY <3>b, <3>d
        <3>4. invoice'[id].status = "bokford" /\ invoice'[id].total = items
            <4>1. invoice[id] = [f \in Fields |-> invoice[id][f]]
                BY <2>6 DEF RowsInv
            <4> QED
                BY <2>4, <2>6, <4>1 DEF Fields
        <3> QED
            BY <3>3, <3>4 DEF BookedFor
    <2> QED
        BY <2>4, <2>5, <2>6 DEF BookingInv
<1>9. ASSUME invoice' = invoice, booking' = booking PROVE BookingInv'
    BY <1>a, <1>b, <1>9 DEF BookingInv
<1> QED
    BY <1>2, <1>3, <1>4, <1>5, <1>6, <1>7, <1>8, <1>9
    DEF Next, vars, PostReadHeader, PostReadItems, PostFails

-----------------------------------------------------------------------------
LEMMA InitFull == Init => FullInv
<1> SUFFICES ASSUME Init PROVE FullInv
    OBVIOUS
<1>1. DOMAIN invoice = {} /\ created = 0 /\ DOMAIN booking = {}
    BY DEF Init, EmptyBag, SetToBag
<1>2. RowTypes /\ BookingInv
    BY <1>1, InvoicesAssumption DEF RowTypes, BookingInv
<1>3. BagInv
    BY <1>1 DEF BagInv, IsABag, BagToSet, Init, EmptyBag, SetToBag
<1>4. PostInv
    BY IdlePost DEF Init, PostInv
<1> QED
    BY <1>2, <1>3, <1>4, InitInvoices DEF FullInv

LEMMA FullInductive == Spec => []FullInv
<1>1. FullInv /\ [Next]_vars => FullInv'
    <2> SUFFICES ASSUME FullInv, [Next]_vars PROVE FullInv'
        OBVIOUS
    <2>1. RowsInv' /\ NumbersInv' /\ Frozen
        BY NextKeeps DEF FullInv, StepKeeps
    <2>2. RowTypes' /\ created' \in created..MaxInvoice
        BY <2>1, NextRowTypes DEF FullInv
    <2>3. PostInv' /\ BagInv'
        BY <2>2, NextPostInv, NextBagInv DEF FullInv
    <2>4. BookingInv'
        BY <2>1, <2>2, NextBookingInv DEF FullInv
    <2> QED
        BY <2>1, <2>2, <2>3, <2>4 DEF FullInv
<1> QED
    BY <1>1, InitFull, PTL DEF Spec

-----------------------------------------------------------------------------
(* The columns, the credited originals and the rows on 1510 have their     *)
(* types: only a posted invoice has a number, and what is credited is a    *)
(* posted invoice that is no credit itself, also while requests overlap    *)
(* (invoice.go:108-174, 425-444, 463-527).                                 *)
THEOREM InvoicesTyped == Spec => []TypeOK
<1>1. FullInv => TypeOK
    <2> SUFFICES ASSUME FullInv PROVE TypeOK
        OBVIOUS
    <2>1. ASSUME NEW i \in DOMAIN invoice
          PROVE  /\ invoice[i] \in [status : {"utkast", "bokford", "betald"}, number : Nat,
                                    total : Int, items : Int, creditOf : 0..created]
                 /\ IsPosted(i) <=> invoice[i].number # NoNumber
                 /\ invoice[i].creditOf # NoInvoice =>
                       /\ IsPosted(invoice[i].creditOf)
                       /\ invoice[invoice[i].creditOf].creditOf = NoInvoice
        BY DEF FullInv, RowsInv, RowTypes, Fields, IsPosted
    <2> QED
        BY <2>1 DEF FullInv, TypeOK, RowsInv, RowTypes, PostInv, BagInv
<1> QED
    BY <1>1, FullInductive, PTL

LEMMA BookingsFound ==
    ASSUME BagInv, NEW kind, NEW i
    PROVE  /\ NoBooking(kind, i) => BookingsOf(kind, i) = EmptyBag
           /\ \A amt : OneBooking(kind, i, amt) =>
                 BookingsOf(kind, i) = SetToBag({Entry(kind, i, amt)})
<1> DEFINE S == {e \in BagToSet(booking) : e.kind = kind /\ e.invoice = i}
<1>1. BookingsOf(kind, i) = [b \in S |-> booking[b]]
    BY DEF BookingsOf
<1>2. ASSUME NoBooking(kind, i) PROVE BookingsOf(kind, i) = EmptyBag
    <2>1. S = {}
        BY <1>2 DEF NoBooking, BagToSet
    <2> QED
        BY <1>1, <2>1 DEF EmptyBag, SetToBag
<1>3. ASSUME NEW amt, OneBooking(kind, i, amt)
      PROVE  BookingsOf(kind, i) = SetToBag({Entry(kind, i, amt)})
    <2>1. S = {Entry(kind, i, amt)}
        BY <1>3, EntryFields DEF OneBooking, BagToSet
    <2>2. booking[Entry(kind, i, amt)] = 1
        BY <1>3 DEF OneBooking
    <2> HIDE DEF S
    <2> QED
        BY <1>1, <2>1, <2>2 DEF SetToBag
<1> QED
    BY <1>2, <1>3

LEMMA SmallBags ==
    /\ BagCardinality(EmptyBag) = 0
    /\ \A e : BagCardinality(SetToBag({e})) = 1
<1> DEFINE Solves(d, f) == d = [S \in SUBSET DOMAIN f |->
                                  LET elt == CHOOSE x \in S : TRUE
                                  IN  IF S = {} THEN 0
                                      ELSE f[elt] + d[S \ {elt}]]
<1>1. ASSUME NEW f, DOMAIN f = {} PROVE BagCardinality(f) = 0
    <2> DEFINE g == [S \in SUBSET DOMAIN f |-> 0]
    <2>1. \A S \in SUBSET DOMAIN f : S = {}
        BY <1>1
    <2>2. Solves(g, f)
        BY <2>1
    <2>3. PICK d : Solves(d, f) /\ BagCardinality(f) = d[DOMAIN f]
        BY <2>2 DEF BagCardinality
    <2> QED
        BY <1>1, <2>3
<1>2. ASSUME NEW e, NEW f, f = [x \in {e} |-> 1] PROVE BagCardinality(f) = 1
    <2> DEFINE g == [S \in SUBSET {e} |-> IF S = {} THEN 0 ELSE 1]
    <2>1. \A S \in SUBSET {e} : S = {} \/ S = {e}
        OBVIOUS
    <2>2. (CHOOSE x \in {e} : TRUE) = e /\ {e} \ {e} = {}
        OBVIOUS
    <2>3. g[{}] = 0 /\ g[{e}] = 1 /\ f[e] = 1 /\ DOMAIN f = {e}
        BY <1>2
    <2>4. Solves(g, f)
        <3>1. ASSUME NEW S \in SUBSET DOMAIN f
              PROVE  g[S] = LET elt == CHOOSE x \in S : TRUE
                            IN  IF S = {} THEN 0 ELSE f[elt] + g[S \ {elt}]
            BY <2>1, <2>2, <2>3
        <3>2. g = [S \in SUBSET DOMAIN f |-> g[S]]
            BY <2>3
        <3> HIDE DEF g
        <3> QED
            BY <3>1, <3>2
    <2>5. PICK d : Solves(d, f) /\ BagCardinality(f) = d[DOMAIN f]
        BY <2>4 DEF BagCardinality
    <2>6. d[{}] = 0
        BY <2>5, <2>3
    <2>7. d[{e}] = f[e] + d[{}]
        BY <2>5, <2>3, <2>2
    <2> QED
        BY <2>3, <2>5, <2>6, <2>7
<1> QED
    BY <1>1, <1>2 DEF EmptyBag, SetToBag

(* A posted invoice is booked once with its stored total and paid at most  *)
(* once, a draft is not booked (invoice.go:536-552, 583-588).              *)
THEOREM PostedInvoicesAreBooked == Spec => []PostedIsBooked
<1>1. FullInv => PostedIsBooked
    <2> SUFFICES ASSUME FullInv, NEW i \in DOMAIN invoice
                 PROVE  /\ IsPosted(i) => BookingsOf("invoice", i)
                              = SetToBag({Entry("invoice", i, invoice[i].total)})
                        /\ ~IsPosted(i) => /\ BookingsOf("invoice", i) = EmptyBag
                                           /\ BookingsOf("payment", i) = EmptyBag
                        /\ BagCardinality(BookingsOf("payment", i)) <= 1
        BY DEF PostedIsBooked
    <2>1. BookedFor(i) /\ BagInv
        BY DEF FullInv, BookingInv
    <2>2. \/ invoice[i].status = "utkast" /\ ~IsPosted(i)
          \/ invoice[i].status = "bokford" /\ IsPosted(i)
          \/ invoice[i].status = "betald" /\ IsPosted(i)
        BY DEF FullInv, RowsInv, IsPosted
    <2>3. NoBooking("payment", i) \/ \E amt : OneBooking("payment", i, amt)
        BY <2>1, <2>2 DEF BookedFor
    <2>4. BagCardinality(BookingsOf("payment", i)) <= 1
        <3>1. CASE NoBooking("payment", i)
            <4>1. BookingsOf("payment", i) = EmptyBag
                BY <2>1, <3>1, BookingsFound
            <4> QED
                BY <4>1, SmallBags
        <3>2. ASSUME NEW amt, OneBooking("payment", i, amt)
              PROVE  BagCardinality(BookingsOf("payment", i)) <= 1
            <4>1. BookingsOf("payment", i) = SetToBag({Entry("payment", i, amt)})
                BY <2>1, <3>2, BookingsFound
            <4>2. BagCardinality(SetToBag({Entry("payment", i, amt)})) = 1
                BY SmallBags
            <4> QED
                BY <4>1, <4>2
        <3> QED
            BY <2>3, <3>1, <3>2
    <2> QED
        BY <2>1, <2>2, <2>4, BookingsFound DEF BookedFor
<1> QED
    BY <1>1, FullInductive, PTL

(* What one row and two rows on 1510 come to. *)
AmountOf(bag, rows) == MapThenSumSet(LAMBDA e : e.amt * bag[e], rows)

LEMMA AmountOfRows ==
    ASSUME NEW S, IsFiniteSet(S), NEW f, \A e \in S : f[e] \in Int,
           NEW bag
    PROVE  (\A e \in S : e.amt * bag[e] = f[e])
           => /\ \A a : S = {a} => AmountOf(bag, S) = f[a]
              /\ \A a, b : S = {a, b} /\ a # b => AmountOf(bag, S) = f[a] + f[b]
<1> DEFINE Solves(h) == h = [s \in SUBSET S |->
                               IF s = {} THEN 0
                               ELSE LET x == CHOOSE x \in s : TRUE
                                    IN  x.amt * bag[x] + h[s \ {x}]]
<1>1. PICK g \in [SUBSET S -> Int] : \A s \in SUBSET S : g[s] = SumStep(f, g, s)
    BY SumExists
<1>2. HAVE \A e \in S : e.amt * bag[e] = f[e]
<1>3. ASSUME NEW h, NEW s \in SUBSET S
      PROVE  SumStep(f, h, s) = IF s = {} THEN 0
                                ELSE LET x == CHOOSE x \in s : TRUE
                                     IN  x.amt * bag[x] + h[s \ {x}]
    <2>1. CASE s = {}
        BY <2>1 DEF SumStep
    <2>2. CASE s # {}
        <3> DEFINE x == CHOOSE x \in s : TRUE
        <3>1. x \in S
            BY <2>2
        <3> HIDE DEF x
        <3>2. f[x] = x.amt * bag[x]
            BY <1>2, <3>1
        <3> QED
            BY <2>2, <3>2 DEF SumStep, x
    <2> QED
        BY <2>1, <2>2
<1>4. Solves(g)
    BY <1>1, <1>3
<1>5. PICK h : Solves(h) /\ AmountOf(bag, S) = h[S]
    BY <1>4 DEF AmountOf, MapThenSumSet, MapThenFoldSet
<1>6. \A s \in SUBSET S : h[s] = SumStep(f, h, s)
    BY <1>3, <1>5
<1>7. ASSUME NEW a, S = {a} PROVE AmountOf(bag, S) = f[a]
    <2>1. f[a] \in Int
        BY <1>7
    <2> QED
        BY <1>5, <1>6, <1>7, <2>1, SumOfOne
<1>8. ASSUME NEW a, NEW b, S = {a, b}, a # b PROVE AmountOf(bag, S) = f[a] + f[b]
    <2>1. f[a] \in Int /\ f[b] \in Int
        BY <1>8
    <2>2. SumRule(f, h, S)
        BY <1>6 DEF SumRule
    <2>4. Pair(S, a, b)
        BY <1>8 DEF Pair
    <2>3. h[S] = f[a] + f[b]
        BY <2>1, <2>2, <2>4, SumOfTwo
    <2> QED
        BY <1>5, <2>3
<1> QED
    BY <1>7, <1>8

(* What is not credited owes its total until it is paid and nothing after  *)
(* that, however its credits come and go (invoice.go:590-640).             *)
THEOREM UncreditedInvoicesClear == Spec => []UncreditedClears
<1>1. FullInv => UncreditedClears
    <2> SUFFICES ASSUME FullInv, NEW i \in DOMAIN invoice, IsPosted(i),
                        invoice[i].creditOf = NoInvoice, PostedCreditsOf(i) = {}
                 PROVE  Receivable(i) = IF invoice[i].status = "betald" THEN 0
                                        ELSE invoice[i].total
        BY DEF UncreditedClears
    <2> DEFINE T == {e \in BagToSet(booking) : e.invoice \in {i} \cup CreditsOf(i)}
               a == Entry("invoice", i, invoice[i].total)
               b == Entry("payment", i, -invoice[i].total)
    <2>1. Receivable(i) = AmountOf(booking, T)
        BY DEF Receivable, AmountOf
    <2>2. BagInv /\ \A k \in DOMAIN invoice : BookedFor(k)
        BY DEF FullInv, BookingInv
    <2>3. \A e \in BagToSet(booking) : e.kind \in {"invoice", "payment"}
        BY <2>2 DEF BagInv
    <2>4. ASSUME NEW e \in T PROVE e.invoice = i
        <3>1. ASSUME e.invoice \in CreditsOf(i) PROVE FALSE
            <4>1. PICK c : c = e.invoice /\ c \in DOMAIN invoice /\ invoice[c].creditOf = i
                BY <3>1 DEF CreditsOf
            <4>2. invoice[c].status = "utkast"
                BY <4>1 DEF PostedCreditsOf, CreditsOf, IsPosted
            <4>3. NoBooking("invoice", c) /\ NoBooking("payment", c)
                BY <2>2, <4>1, <4>2 DEF BookedFor
            <4> QED
                BY <2>3, <4>1, <4>3 DEF NoBooking, BagToSet
        <3> QED
            BY <3>1
    <2>5. T = {e \in BagToSet(booking) : e.invoice = i}
        BY <2>4
    <2>6. invoice[i].total \in Int /\ -invoice[i].total \in Int
        BY DEF FullInv, RowTypes
    <2>7. OneBooking("invoice", i, invoice[i].total)
        BY <2>2 DEF BookedFor
    <2>8. /\ a.kind = "invoice" /\ a.invoice = i /\ a.amt = invoice[i].total
          /\ b.kind = "payment" /\ b.invoice = i /\ b.amt = -invoice[i].total
          /\ a # b
        BY DEF Entry
    <2>9. a \in BagToSet(booking) /\ booking[a] = 1
        BY <2>7 DEF OneBooking, BagToSet
    <2>10. CASE invoice[i].status = "betald"
        <3>1. OneBooking("payment", i, -invoice[i].total)
            BY <2>2, <2>10 DEF BookedFor
        <3>2. b \in BagToSet(booking) /\ booking[b] = 1
            BY <3>1 DEF OneBooking, BagToSet
        <3>3. \A e \in T : e = a \/ e = b
            BY <2>3, <2>5, <2>7, <3>1 DEF OneBooking, BagToSet
        <3> HIDE DEF a, b
        <3>4. T = {a, b}
            BY <2>5, <2>8, <2>9, <3>2, <3>3
        <3> HIDE DEF T
        <3>5. IsFiniteSet(T)
            <4>1. IsFiniteSet({} \cup {a})
                BY FS_EmptySet, FS_AddElement
            <4>2. IsFiniteSet(({} \cup {a}) \cup {b})
                BY <4>1, FS_AddElement
            <4>3. T = ({} \cup {a}) \cup {b}
                BY <3>4
            <4> QED
                BY <4>2, <4>3
        <3>6. \A e \in T : e.amt \in Int /\ booking[e] = 1
            BY <2>6, <2>8, <2>9, <3>2, <3>4
        <3>8. PICK f : f = [e \in T |-> e.amt]
            OBVIOUS
        <3>9. \A e \in T : f[e] \in Int
            BY <3>6, <3>8
        <3>10. \A e \in T : e.amt * booking[e] = f[e]
            BY <3>6, <3>8
        <3>11. PICK B : B = booking
            OBVIOUS
        <3>12. \A e \in T : e.amt * B[e] = f[e]
            BY <3>10, <3>11
        <3>13. AmountOf(B, T) = f[a] + f[b]
            BY <2>8, <3>4, <3>5, <3>9, <3>12, AmountOfRows
        <3>7. AmountOf(booking, T) = a.amt + b.amt
            BY <3>4, <3>8, <3>11, <3>13
        <3> QED
            BY <2>1, <2>6, <2>8, <2>10, <3>7
    <2>11. CASE invoice[i].status # "betald"
        <3>1. invoice[i].status = "bokford"
            BY <2>11 DEF FullInv, RowsInv, IsPosted
        <3>2. NoBooking("payment", i)
            BY <2>2, <3>1 DEF BookedFor
        <3>3. \A e \in T : e = a
            BY <2>3, <2>5, <2>7, <3>2 DEF OneBooking, NoBooking, BagToSet
        <3> HIDE DEF a, b
        <3>4. T = {a}
            BY <2>5, <2>8, <2>9, <3>3
        <3> HIDE DEF T
        <3>5. IsFiniteSet(T)
            <4>1. IsFiniteSet({} \cup {a})
                BY FS_EmptySet, FS_AddElement
            <4>2. T = {} \cup {a}
                BY <3>4
            <4> QED
                BY <4>1, <4>2
        <3>6. \A e \in T : e.amt \in Int /\ booking[e] = 1
            BY <2>6, <2>8, <2>9, <3>4
        <3>8. PICK f : f = [e \in T |-> e.amt]
            OBVIOUS
        <3>9. \A e \in T : f[e] \in Int
            BY <3>6, <3>8
        <3>10. \A e \in T : e.amt * booking[e] = f[e]
            BY <3>6, <3>8
        <3>11. PICK B : B = booking
            OBVIOUS
        <3>12. \A e \in T : e.amt * B[e] = f[e]
            BY <3>10, <3>11
        <3>13. AmountOf(B, T) = f[a]
            BY <3>4, <3>5, <3>9, <3>12, AmountOfRows
        <3>7. AmountOf(booking, T) = a.amt
            BY <3>4, <3>8, <3>11, <3>13
        <3> QED
            BY <2>1, <2>8, <2>11, <3>7
    <2> QED
        BY <2>10, <2>11
<1> QED
    BY <1>1, FullInductive, PTL
=============================================================================
