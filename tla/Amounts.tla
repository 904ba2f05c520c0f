------------------------------ MODULE Amounts ------------------------------
(***************************************************************************)
(* The sums the page works out itself (frontend/static/js/app.js): the     *)
(* rows a template makes of an amount, the totals of the form, the         *)
(* dashboard after a posting, and the totals of an invoice.                *)
(*                                                                         *)
(* The rows of the form are in kronor, as floating point numbers, which    *)
(* have Precision bits here and 53 in a browser; everything that is sent   *)
(* or comes back is in öre.  A row in kronor is the number next to its öre *)
(* divided by 100, whether a template or the user has written it, so that  *)
(* the öre stand for it.  Accounts are numbers; NoAccount is not filled in. *)
(*                                                                         *)
(* Recursions are functions over numbers, and the choice of rows is one,   *)
(* for the provers expand neither 2 ^ n nor SelectSeq.                     *)
(***************************************************************************)
EXTENDS Integers, Sequences

CONSTANTS
    Precision,      \* bits of a floating point number
    MaxAmount,      \* bound: the amount of a template, in öre
    MaxRows,        \* bound: the rows of the form
    MaxTyped,       \* bound: the times rows are written before a posting
    TypedAmounts,   \* the amounts the user types into a row, in öre
    TypedAccounts,  \* the accounts he types
    InvoiceItems,   \* quantity and price in hundredths, and the VAT rate
    MaxItems        \* bound: the items of an invoice

-----------------------------------------------------------------------------
(* Numbers.                                                                *)

(* Every number is a multiple of 1/Scale, and below Power[Precision].      *)
Power[n \in 0..(Precision + 6)] == IF n = 0 THEN 1 ELSE 2 * Power[n - 1]

Scale == Power[Precision + 6]

(* No amount is too large for its öre to be told apart in the total of all *)
(* rows: in a browser, that is up to 500 million kronor in each of 100     *)
(* rows.  A template writes three rows.                                    *)
ASSUME AmountsAssumption ==
    LET IsSmall(ore) == 16 * MaxRows * MaxRows * ore <= Power[Precision]
    IN  /\ Precision \in Nat
        /\ MaxRows \in Nat \ 0..2
        /\ IsSmall(1)
        /\ MaxAmount \in Nat /\ IsSmall(MaxAmount)
        /\ \A ore \in TypedAmounts : ore \in Nat /\ IsSmall(ore)
        /\ MaxTyped \in Nat
        /\ TypedAccounts \subseteq 1000..8999
        /\ InvoiceItems \subseteq
              [quantity : Int, price : Nat, rate : {0, 6, 12, 25}]
        /\ MaxItems \in Nat

VARIABLES
    templatePrompt, \* the template whose amount is asked for, or "none"
    formRows,       \* form.rows
    postedRows,     \* the rows that were sent last, with those of the form
    summed,         \* what was added to the dashboard then
    typedRows,      \* how many rows have been typed since the last posting
    invoiceItems,   \* selectedInvoice.items
    invoiceTotal    \* its total_amount and total_vat

formVars == <<templatePrompt, formRows, postedRows, summed, typedRows>>
billVars == <<invoiceItems, invoiceTotal>>

-----------------------------------------------------------------------------
(* Rounding.                                                               *)

RoundEven(a, b) ==
    LET q == a \div b
        r == a % b
    IN  IF 2 * r < b \/ (2 * r = b /\ q % 2 = 0) THEN q ELSE q + 1

(* The floating point number next to a/b, which is not negative.           *)
Float(a, b) ==
    LET Fits(e) == a \div (b * Power[e]) < Power[Precision]
        e == CHOOSE n \in 0..(Precision + 6) :
                 Fits(n) /\ \A k \in 0..(n - 1) : ~Fits(k)
    IN  Power[e] * RoundEven(a, b * Power[e])

(* Math.round: halves go up. *)
RoundUp(a, b) == (2 * a + b) \div (2 * b)

Kronor(ore) == Float(ore * Scale, 100)

(* Mutant of Ore: fractions are cut off. *)
OreCutOff(kronor) == Float(kronor * 100, 1) \div Scale

(* Math.round(kronor * 100). *)
Ore(kronor) == RoundUp(Float(kronor * 100, 1), Scale)

NoAccount == 0

Row(account, debet, kredit) ==
    [account |-> account, debet |-> debet, kredit |-> kredit]
EmptyRows == <<Row(1930, 0, 0), Row(3010, 0, 0)>>

SumSeq(s) ==
    LET sum[n \in 0..Len(s)] == IF n = 0 THEN 0 ELSE sum[n - 1] + s[n]
    IN  sum[Len(s)]

(* The sum of one side of the rows, in öre. *)
Total(rows, side) == SumSeq([n \in DOMAIN rows |-> rows[n][side]])

(* What the rows leave on a set of accounts. *)
Balance(rows, accounts) ==
    SumSeq([n \in DOMAIN rows |-> IF rows[n].account \in accounts
                                  THEN rows[n].debet - rows[n].kredit
                                  ELSE 0])

(* getTotalDebet and getTotalKredit: in kronor, rounded with each row. *)
FloatTotal(rows, side) ==
    LET sum[n \in 0..Len(rows)] ==
            IF n = 0 THEN 0
            ELSE Float(sum[n - 1] + Kronor(rows[n][side]), 1)
    IN  sum[Len(rows)]

GetDiff(rows) == FloatTotal(rows, "debet") - FloatTotal(rows, "kredit")

-----------------------------------------------------------------------------
(* The templates.                                                          *)

Template(paid, rate, base, vat) ==
    [paid |-> paid, rate |-> rate, base |-> base, vat |-> vat]

(* Whether money is paid out, the rate of the VAT and the accounts against *)
(* 1930. *)
Templates ==
    [inkop_25        |-> Template(TRUE, 25, 5410, 2641),
     forsaljning_25  |-> Template(FALSE, 25, 3010, 2611),
     egen_insattning |-> Template(FALSE, 0, 2018, 0),
     eget_uttag      |-> Template(TRUE, 0, 2013, 0)]

VatOf(total, rate) == RoundUp(total * rate, 100 + rate)

Side(debet, account, ore) ==
    IF debet THEN Row(account, ore, 0) ELSE Row(account, 0, ore)

(* The rows are in öre, and the base is what the VAT leaves. *)
TemplateRows(t, total) ==
    LET vat == VatOf(total, t.rate)
    IN  <<Side(~t.paid, 1930, total)>>
        \o (IF vat > 0 THEN <<Side(t.paid, t.vat, vat)>> ELSE <<>>)
        \o <<Side(t.paid, t.base, total - vat)>>

InitiateTemplate(id) ==
    /\ templatePrompt' = id
    /\ UNCHANGED <<formRows, postedRows, summed, typedRows>>

CancelTemplate ==
    /\ templatePrompt # "none"
    /\ templatePrompt' = "none"
    /\ UNCHANGED <<formRows, postedRows, summed, typedRows>>

NoPosting == [sent |-> <<>>, form |-> <<>>, cleared |-> {}]
NoSum == [income |-> 0, expenses |-> 0, bank |-> 0, net |-> 0]
Touches == /\ typedRows < MaxTyped
           /\ typedRows' = typedRows + 1
           /\ postedRows' = NoPosting /\ summed' = NoSum

(* An amount that is not positive is refused. *)
ApplyTemplateAmount(total) ==
    /\ templatePrompt # "none"
    /\ total > 0
    /\ Touches
    /\ formRows' = TemplateRows(Templates[templatePrompt], total)
    /\ templatePrompt' = "none"

-----------------------------------------------------------------------------
(* The form.                                                               *)

TypeRow(i, account, side, ore) ==
    /\ templatePrompt = "none"
    /\ Touches
    /\ i \in DOMAIN formRows
    /\ formRows' = [formRows EXCEPT ![i].account = account, ![i][side] = ore]
    /\ UNCHANGED templatePrompt

AddRow ==
    /\ templatePrompt = "none"
    /\ Len(formRows) < MaxRows
    /\ formRows' = Append(formRows, Row(NoAccount, 0, 0))
    /\ postedRows' = NoPosting /\ summed' = NoSum
    /\ UNCHANGED <<templatePrompt, typedRows>>

(* Enter in the last field; in the others it only moves the focus.         *)
FocusNext == AddRow

Without(rows, i) == SubSeq(rows, 1, i - 1) \o SubSeq(rows, i + 1, Len(rows))

RemoveRow(i) ==
    /\ templatePrompt = "none"
    /\ Len(formRows) > 2
    /\ i \in DOMAIN formRows
    /\ formRows' = Without(formRows, i)
    /\ postedRows' = NoPosting /\ summed' = NoSum
    /\ UNCHANGED <<templatePrompt, typedRows>>

(* Mutant of UpdateDashboardLocally: the class of costs ends at 7. *)
UpdateDashboardLocallyTo7(rows) ==
    LET income == -Balance(rows, 3000..3999)
        expenses == Balance(rows, 4000..7999)
    IN  summed' = [income |-> income, expenses |-> expenses,
                   bank |-> Balance(rows, 1000..1999), net |-> income - expenses]

(* updateDashboardLocally goes by the first digit of the account. *)
UpdateDashboardLocally(rows) ==
    LET income == -Balance(rows, 3000..3999)
        expenses == Balance(rows, 4000..8999)
    IN  summed' = [income |-> income, expenses |-> expenses,
                   bank |-> Balance(rows, 1000..1999), net |-> income - expenses]

(* Rows without an account are left out, whatever their amounts, and so are *)
(* rows whose amounts are 0.  A field the user has cleared is the empty     *)
(* string, which is not 0, and keeps its row. *)
ValidRows(rows, cleared) ==
    LET IsValid(n) == /\ rows[n].account # NoAccount
                      /\ \/ rows[n].debet # 0 \/ rows[n].kredit # 0
                         \/ n \in cleared
        valid[n \in 0..Len(rows)] ==
            IF n = 0 THEN <<>>
            ELSE IF IsValid(n) THEN Append(valid[n - 1], rows[n])
            ELSE valid[n - 1]
    IN  valid[Len(rows)]

RowsSent(rows, cleared) ==
    LET valid == ValidRows(rows, cleared)
    IN  [n \in DOMAIN valid |-> Row(valid[n].account, Ore(Kronor(valid[n].debet)),
                                    Ore(Kronor(valid[n].kredit)))]

(* What the server lets pass. *)
Accepts(rows) ==
    /\ Len(rows) >= 2
    /\ \A i \in DOMAIN rows : (rows[i].debet > 0) # (rows[i].kredit > 0)
    /\ Total(rows, "debet") = Total(rows, "kredit")

(* A form that was booked is emptied, a refused one stays. *)
PostingReturns(rows) ==
    \/ /\ Accepts(rows)
       /\ UpdateDashboardLocally(rows)
       /\ formRows' = EmptyRows
       /\ typedRows' = 0
    \/ /\ ~Accepts(rows)
       /\ summed' = NoSum
       /\ UNCHANGED <<formRows, typedRows>>

(* Any row without an amount may have a field that has been cleared. *)
Submits(rows) ==
    \E cleared \in SUBSET {n \in DOMAIN rows : rows[n].debet = 0
                                             /\ rows[n].kredit = 0} :
       LET sent == RowsSent(rows, cleared)
       IN  /\ postedRows' = [sent |-> sent, form |-> rows, cleared |-> cleared]
           /\ PostingReturns(sent)

(* Mutant of SubmitAmounts: the totals are not compared. *)
SubmitAmountsUnbalanced ==
    /\ FloatTotal(formRows, "debet") > 0
    /\ Submits(formRows)
    /\ UNCHANGED templatePrompt

(* What submitPost makes of the amounts. *)
SubmitAmounts ==
    /\ GetDiff(formRows) = 0
    /\ FloatTotal(formRows, "debet") > 0
    /\ Submits(formRows)
    /\ UNCHANGED templatePrompt

TemplateInit ==
    /\ templatePrompt = "none"
    /\ formRows = EmptyRows
    /\ postedRows = NoPosting
    /\ summed = NoSum
    /\ typedRows = 0

TemplateNext ==
    \/ \E id \in DOMAIN Templates : InitiateTemplate(id)
    \/ CancelTemplate
    \/ \E total \in 0..MaxAmount : ApplyTemplateAmount(total)
    \/ \E i \in DOMAIN formRows, ore \in TypedAmounts :
          \E account \in TypedAccounts \cup {formRows[i].account},
             side \in {"debet", "kredit"} : TypeRow(i, account, side, ore)
    \/ AddRow \/ FocusNext
    \/ \E i \in 1..MaxRows : RemoveRow(i)
    \/ SubmitAmounts

-----------------------------------------------------------------------------
(* The invoice.                                                            *)

Line(item) == RoundUp(item.price * item.quantity, 100)

(* Mutant of RecalcInvoice: the VAT is worked out on the whole sum. *)
RecalcInvoiceAtOnce(items) ==
    LET ex == SumSeq([n \in DOMAIN items |-> Line(items[n])])
        exact == SumSeq([n \in DOMAIN items |-> Line(items[n]) * items[n].rate])
        vat == RoundUp(exact, 100)
    IN  /\ invoiceItems' = items
        /\ invoiceTotal' = [amount |-> ex + vat, vat |-> vat]

(* Every line and its VAT are rounded. *)
LineVat(item) == RoundUp(Line(item) * item.rate, 100)

RecalcInvoice(items) ==
    LET ex == SumSeq([n \in DOMAIN items |-> Line(items[n])])
        vat == SumSeq([n \in DOMAIN items |-> LineVat(items[n])])
    IN  /\ invoiceItems' = items
        /\ invoiceTotal' = [amount |-> ex + vat, vat |-> vat]

NewItem == [quantity |-> 100, price |-> 0, rate |-> 25]

AddInvoiceItem == /\ Len(invoiceItems) < MaxItems
                  /\ RecalcInvoice(Append(invoiceItems, NewItem))

RemoveInvoiceItem(i) == /\ i \in DOMAIN invoiceItems
                        /\ RecalcInvoice(Without(invoiceItems, i))

(* The sums follow every change of an item. *)
EditInvoiceItem(i, item) ==
    /\ i \in DOMAIN invoiceItems
    /\ RecalcInvoice([invoiceItems EXCEPT ![i] = item])

BillInit == invoiceItems = <<>> /\ invoiceTotal = [amount |-> 0, vat |-> 0]
BillNext ==
    \/ AddInvoiceItem
    \/ \E i \in 1..MaxItems : \/ RemoveInvoiceItem(i)
                              \/ \E item \in InvoiceItems :
                                    EditInvoiceItem(i, item)

AmountsInit == TemplateInit /\ BillInit
AmountsNext == \/ TemplateNext /\ UNCHANGED billVars
               \/ BillNext /\ UNCHANGED formVars

AmountsSpec == AmountsInit /\ [][AmountsNext]_<<formVars, billVars>>

-----------------------------------------------------------------------------
(* Properties.                                                             *)

(* The rows that are sent balance in öre, though the totals are compared   *)
(* in floating point numbers, if no amount stands without an account       *)
(* (app.js:2036-2059).                                                     *)
PostedBalances ==
    LET form == postedRows.form
    IN  (\A i \in DOMAIN form : form[i].account = NoAccount
                                => form[i].debet = 0 /\ form[i].kredit = 0)
        => Total(postedRows.sent, "debet") = Total(postedRows.sent, "kredit")

(* The rows with an account are sent as the form says, to the öre: the way *)
(* to kronor and back loses nothing (app.js:216-255, 2042-2058).           *)
PostedAsTyped ==
    postedRows.sent = ValidRows(postedRows.form, postedRows.cleared)

(* The server goes by the type of the account, as guessAccountType sets it, *)
(* and counts accounts 1900-1999 as the bank (internal/ledger/dashboard.go). *)
GuessAccountType(account) ==
    CASE account \in 1000..1999 -> "asset"
      [] account \in 2000..2999 -> "debt"
      [] account \in 3000..3999 \cup 8300..8399 -> "income"
      [] account \in 4000..8999 \ 8300..8399 -> "expense"
      [] OTHER -> "none"

Result == {account \in 1000..8999 :
              GuessAccountType(account) \in {"income", "expense"}}
Bank == 1900..1999

(* What the page adds to the result is what the server adds, nothing if it *)
(* refuses the rows; the same goes for the bank if no other asset is       *)
(* touched (app.js:1225-1248).                                             *)
NetAsServer ==
    LET rows == IF Accepts(postedRows.sent) THEN postedRows.sent ELSE <<>>
    IN  /\ summed.net = -Balance(rows, Result)
        /\ (\A i \in DOMAIN rows : rows[i].account \in 1000..1999
                                   => rows[i].account \in Bank)
           => summed.bank = Balance(rows, Bank)

(* Halves go away from zero on the server (PostInvoice, internal/ledger/   *)
(* invoice.go), and up on the page. *)
GoRound(a, b) == IF a < 0 THEN -RoundUp(-a, b) ELSE RoundUp(a, b)

ServerLine(item) ==
    LET ex == GoRound(item.price * item.quantity, 100)
    IN  ex + GoRound(ex * item.rate, 100)

ServerTotal(items) == SumSeq([n \in DOMAIN items |-> ServerLine(items[n])])

(* The total of an invoice is what the server will book, to the öre; that  *)
(* of a credit note, whose quantities are negative, is at most two öre per *)
(* line off (app.js:520-538, internal/ledger/invoice.go:455-466).          *)
TotalsAgree ==
    LET off == invoiceTotal.amount - ServerTotal(invoiceItems)
    IN  /\ (\A i \in DOMAIN invoiceItems : invoiceItems[i].quantity >= 0)
              => off = 0
        /\ off \in 0..(2 * Len(invoiceItems))

(* The figures of the page are those of the server (app.js:216-255,        *)
(* 520-538, 1225-1248, 2036-2059).                                         *)
FiguresAgree ==
    /\ PostedBalances
    /\ PostedAsTyped
    /\ NetAsServer
    /\ TotalsAgree

-----------------------------------------------------------------------------
(* What the page says and the code does not do.                            *)

(* "Verifikationen balanserar inte!" (app.js:2037), which is said only if  *)
(* it does not balance: the rows of a template, which do to the öre, can   *)
(* be posted. *)
BalancedCanBePosted ==
    Total(formRows, "debet") = Total(formRows, "kredit")
        => GetDiff(formRows) = 0
=============================================================================
