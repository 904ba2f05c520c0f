------------------------- MODULE InvoicePageProofs -------------------------
(***************************************************************************)
(* Proofs about InvoicePage, for every set of calls and every bound.       *)
(*                                                                         *)
(* Typed is the type invariant with two facts it needs: a call asks the    *)
(* server only for what its kind asks for (Asked), and what a credit       *)
(* credits has been posted.  QuietInv is what a user can rely on who waits:*)
(* one call at a time, working on what he saw.  FreshInv adds, when        *)
(* nothing is refused or lost, that the screen and the list are the        *)
(* server's or a call is about to fetch them (Reopens), that the bodies    *)
(* tell the invoices apart, and that stale customers are known to be so.   *)
(***************************************************************************)
EXTENDS InvoicePage, NaturalsInduction, WellFoundedInduction, TLAPS

Rows == [status : {"none", "utkast", "bokford", "betald", "raderad"},
         body : 0..MaxBody, named : BOOLEAN, creditOf : 0..MaxInvoice]

Screens == [id : 0..MaxInvoice, status : {"utkast", "bokford", "betald"},
            body : 0..MaxBody, named : BOOLEAN, creditOf : 0..MaxInvoice,
            edited : BOOLEAN]

Kinds == {"none", "show", "save", "post", "pay", "credit", "settle", "delete",
          "anonymize"}
Places == {"idle", "ask", "save", "post", "act", "customers", "list"}
Seen == (0..MaxInvoice) \X (0..MaxBody)

CallType == [kind : Kinds, pc : Places, id : 0..MaxInvoice, body : 0..MaxBody,
             named : BOOLEAN, seen : Seen]

(* What a call asks for where it is. *)
Asked(c) ==
    /\ calls[c].pc = "ask"
          => calls[c].kind \in {"post", "settle", "delete", "anonymize"}
    /\ calls[c].pc = "save" => calls[c].kind \in {"save", "post"}
    /\ calls[c].pc = "post" => calls[c].kind = "post"
    /\ calls[c].pc = "act"
          => calls[c].kind \in {"pay", "credit", "settle", "delete", "anonymize"}

CallsInv ==
    /\ calls \in [Calls -> CallType]
    /\ modal \in Calls \cup {Null}
    /\ \A c \in Calls : (calls[c].pc = "ask" <=> modal = c) /\ Asked(c)

(* What is credited has been posted. *)
RowsInv ==
    /\ invoice \in [Ids -> Rows]
    /\ \A i \in Ids : invoice[i].creditOf # 0
          => invoice[invoice[i].creditOf].status \in {"bokford", "betald"}

RestInv ==
    /\ invoices \subseteq (Ids \X {"utkast", "bokford", "betald"})
    /\ selectedInvoice = Null \/ selectedInvoice \in Screens
    /\ fetches \subseteq Ids
    /\ customers \in {"none", "old", "current", "rewritten"}
    /\ customersStale \in BOOLEAN
    /\ customersFetch \in BOOLEAN
    /\ wanted \in 0..MaxInvoice
    /\ astray \subseteq Ids
    /\ haste \in 0..MaxHaste
    /\ failures \in 0..MaxFailures

Typed == CallsInv /\ RowsInv /\ RestInv

-----------------------------------------------------------------------------
(* A call starts, goes on and ends.                                        *)

Others(c) ==
    /\ calls' \in [Calls -> CallType]
    /\ \A d \in Calls : d # c => calls'[d] = calls[d]

LEMMA IdleCall == Idle \in CallType /\ Idle.pc = "idle" /\ Idle.kind = "none"
<1>1. <<0, 0>> \in Seen
    BY InvoicePageAssumption DEF Seen
<1> QED
    BY <1>1, InvoicePageAssumption DEF Idle, CallType, Kinds, Places

LEMMA OneCall ==
    ASSUME calls \in [Calls -> CallType], NEW c \in Calls, NEW t \in CallType,
           calls' = [calls EXCEPT ![c] = t]
    PROVE  Others(c) /\ calls'[c] = t
BY DEF Others

LEMMA EndsAt ==
    ASSUME calls \in [Calls -> CallType], NEW c \in Calls, Ends(c)
    PROVE  Others(c) /\ calls'[c].pc = "idle" /\ calls'[c].kind = "none"
BY IdleCall, OneCall DEF Ends

LEMMA GoesTo ==
    ASSUME calls \in [Calls -> CallType], NEW c \in Calls, NEW pc \in Places,
           NEW id \in 0..MaxInvoice, Goes(c, pc, id)
    PROVE  /\ Others(c)
           /\ calls'[c].pc = pc /\ calls'[c].id = id
           /\ calls'[c].kind = calls[c].kind /\ calls'[c].body = calls[c].body
           /\ calls'[c].seen = calls[c].seen
<1>1. PICK t : t = [calls[c] EXCEPT !.pc = pc, !.id = id]
    OBVIOUS
<1>2. /\ t \in CallType
      /\ t.pc = pc /\ t.id = id /\ t.kind = calls[c].kind
      /\ t.body = calls[c].body /\ t.seen = calls[c].seen
    BY <1>1 DEF CallType
<1>3. calls' = [calls EXCEPT ![c] = t]
    BY <1>1 DEF Goes
<1> QED
    BY <1>2, <1>3, OneCall

LEMMA StartsAt ==
    ASSUME calls \in [Calls -> CallType], NEW c \in Calls, NEW kind \in Kinds,
           NEW pc \in Places, NEW id \in 0..MaxInvoice, NEW body \in 0..MaxBody,
           NEW named \in BOOLEAN, Start(c, kind, pc, id, body, named)
    PROVE  /\ Others(c) /\ calls[c].pc = "idle"
           /\ calls'[c].pc = pc /\ calls'[c].id = id /\ calls'[c].kind = kind
           /\ calls'[c].body = body /\ calls'[c].named = named
           /\ calls'[c].seen = <<id, body>>
<1>1. PICK t : t = [kind |-> kind, pc |-> pc, id |-> id, body |-> body,
                    named |-> named, seen |-> <<id, body>>]
    OBVIOUS
<1>2. t \in CallType
    BY <1>1 DEF CallType, Seen
<1>3. calls' = [calls EXCEPT ![c] = t]
    BY <1>1 DEF Start
<1>4. calls[c].pc = "idle"
    BY DEF Start
<1>5. /\ t.pc = pc /\ t.id = id /\ t.kind = kind /\ t.body = body
      /\ t.named = named /\ t.seen = <<id, body>>
    BY <1>1
<1>6. Others(c) /\ calls'[c] = t
    BY <1>2, <1>3, OneCall
<1> QED
    BY <1>4, <1>5, <1>6

(* A call that sends no content. *)
LEMMA StartsPlain ==
    ASSUME calls \in [Calls -> CallType], NEW c \in Calls, NEW kind \in Kinds,
           NEW pc \in Places, NEW id \in 0..MaxInvoice, NEW body \in 0..MaxBody,
           Start(c, kind, pc, id, body, TRUE)
    PROVE  /\ Others(c) /\ calls[c].pc = "idle"
           /\ calls'[c].pc = pc /\ calls'[c].id = id /\ calls'[c].kind = kind
           /\ calls'[c].seen = <<id, body>>
<1>1. PICK n \in BOOLEAN : n = TRUE
    OBVIOUS
<1>2. Start(c, kind, pc, id, body, n)
    BY <1>1 DEF Start
<1> QED
    BY <1>2, StartsAt

(* An id that is left.                                                     *)
LEMMA NextIdIsFree ==
    ASSUME IdsLeft PROVE NextId \in Ids /\ invoice[NextId].status = "none"
<1> DEFINE Free == {i \in Ids : invoice[i].status = "none"}
<1>1. Free # {} /\ Free \subseteq Nat
    BY DEF IdsLeft, Ids
<1>2. \A i \in Ids : i \in Free <=> invoice[i].status = "none"
    OBVIOUS
<1>3. Free \subseteq Ids
    OBVIOUS
<1> HIDE DEF Free
<1>4. PICK m \in Free : \A b \in Free : ~ (<<b, m>> \in OpToRel(<, Nat))
    BY <1>1, NatLessThanWellFounded, WFMin
<1>5. \A b \in Free : ~ (b < m)
    BY <1>1, <1>4 DEF OpToRel
<1>6. \A k \in 1..(m - 1) : k \in Ids /\ k < m
    BY <1>3, InvoicePageAssumption DEF Ids
<1>7. \A k \in 1..(m - 1) : invoice[k].status # "none"
    BY <1>2, <1>5, <1>6
<1> QED
    BY <1>2, <1>3, <1>7 DEF NextId

-----------------------------------------------------------------------------
(* What a request does, if it is served.                                   *)

Drafted(i, body, named, origin) ==
    invoice' = [invoice EXCEPT ![i] = [status |-> "utkast", body |-> body,
                                       named |-> named, creditOf |-> origin]]

(* The names of drafts are erased; nothing else changes. *)
Erases ==
    /\ invoice' \in [Ids -> Rows]
    /\ \A k \in Ids : /\ invoice'[k].status = invoice[k].status
                      /\ invoice'[k].body = invoice[k].body
                      /\ invoice'[k].creditOf = invoice[k].creditOf
                      /\ invoice'[k].named => invoice[k].named

Takes(i, status) ==
    /\ \A k \in Ids \ {i} : invoice'[k] = invoice[k]
    /\ invoice'[i] = [invoice[i] EXCEPT !.status = status]

(* The cases of Serves, with what May knows. *)
Did(c, i) ==
    \/ /\ calls[c].pc = "save" /\ i = 0
       /\ IdsLeft /\ Drafted(NextId, calls[c].body, calls[c].named, 0)
    \/ /\ calls[c].pc = "save" /\ i \in Ids /\ invoice[i].status = "utkast"
       /\ invoice' = [invoice EXCEPT ![i].body = calls[c].body,
                                  ![i].named = calls[c].named]
    \/ /\ calls[c].pc = "post" /\ i \in Ids /\ invoice[i].status = "utkast"
       /\ invoice' = [invoice EXCEPT ![i].status = "bokford"]
    \/ /\ calls[c].pc = "act" /\ calls[c].kind \in {"pay", "settle"}
       /\ i \in Ids /\ invoice[i].status = "bokford"
       /\ invoice' = [invoice EXCEPT ![i].status = "betald"]
    \/ /\ calls[c].pc = "act" /\ calls[c].kind = "settle"
       /\ i \in Ids /\ invoice[i].status = "bokford"
       /\ invoice' = [invoice EXCEPT ![i].status = "betald",
                                     ![invoice[i].creditOf].status = "betald"]
    \/ /\ calls[c].pc = "act" /\ calls[c].kind = "delete"
       /\ i \in Ids /\ invoice[i].status = "utkast"
       /\ invoice' = [invoice EXCEPT ![i].status = "raderad"]
    \/ /\ calls[c].pc = "act" /\ calls[c].kind = "anonymize"
       /\ Erases
    \/ /\ calls[c].pc = "act" /\ calls[c].kind = "credit" /\ IdsLeft
       /\ i \in Ids /\ invoice[i].status \in {"bokford", "betald"}
       /\ Drafted(NextId, invoice[i].body, invoice[i].named, i)

LEMMA CallFields ==
    ASSUME CallsInv, NEW c \in Calls
    PROVE  /\ calls[c].id \in 0..MaxInvoice /\ calls[c].body \in 0..MaxBody
           /\ calls[c].kind \in Kinds /\ calls[c].pc \in Places
           /\ calls[c].named \in BOOLEAN
           /\ calls[c].seen \in Seen /\ Asked(c)
BY DEF CallsInv, CallType

LEMMA ServesCases ==
    ASSUME CallsInv, RowsInv, NEW c \in Calls, calls[c].pc \in AtServer, May(c),
           Serves(c)
    PROVE  Did(c, calls[c].id)
<1>1. Asked(c)
    BY CallFields
<1>2. PICK i : i = calls[c].id
    OBVIOUS
<1>3. CASE calls[c].pc = "save"
    <2>1. calls[c].kind \in {"save", "post"}
        BY <1>1, <1>3 DEF Asked
    <2>2. CASE i = 0
        <3>1. IdsLeft
            BY <1>2, <1>3, <2>1, <2>2 DEF May
        <3>2. Drafted(NextId, calls[c].body, calls[c].named, 0)
            BY <1>2, <1>3, <2>1, <2>2 DEF Serves, Drafted
        <3> QED
            BY <1>2, <1>3, <2>2, <3>1, <3>2 DEF Did
    <2>3. CASE i # 0
        <3>1. i \in Ids /\ invoice[i].status = "utkast"
            BY <1>2, <1>3, <2>1, <2>3 DEF May
        <3>2. invoice' = [invoice EXCEPT ![i].body = calls[c].body,
                                  ![i].named = calls[c].named]
            BY <1>2, <1>3, <2>1, <2>3 DEF Serves
        <3> QED
            BY <1>2, <1>3, <3>1, <3>2 DEF Did
    <2> QED
        BY <2>2, <2>3
<1>4. CASE calls[c].pc = "post"
    <2>1. calls[c].kind = "post"
        BY <1>1, <1>4 DEF Asked
    <2>2. i \in Ids /\ invoice[i].status = "utkast"
        BY <1>2, <1>4, <2>1 DEF May
    <2>3. invoice' = [invoice EXCEPT ![i].status = "bokford"]
        BY <1>2, <1>4, <2>1 DEF Serves
    <2> QED
        BY <1>2, <1>4, <2>2, <2>3 DEF Did
<1>5. CASE calls[c].pc = "act" /\ calls[c].kind = "pay"
    BY <1>2, <1>5 DEF May, Serves, Did
<1>6. CASE calls[c].pc = "act" /\ calls[c].kind = "settle"
    BY <1>2, <1>6 DEF May, Serves, Did
<1>7. CASE calls[c].pc = "act" /\ calls[c].kind = "delete"
    BY <1>2, <1>7 DEF May, Serves, Did
<1>8. CASE calls[c].pc = "act" /\ calls[c].kind = "anonymize"
    <2>1. PICK D \in SUBSET Drafts :
             invoice' = [k \in Ids |-> IF k \in D
                            THEN [invoice[k] EXCEPT !.named = FALSE]
                            ELSE invoice[k]]
        BY <1>8 DEF Serves
    <2>2. ASSUME NEW k \in Ids
          PROVE  /\ invoice'[k] \in Rows
                 /\ invoice'[k].status = invoice[k].status
                 /\ invoice'[k].body = invoice[k].body
                 /\ invoice'[k].creditOf = invoice[k].creditOf
                 /\ invoice'[k].named => invoice[k].named
        <3>1. invoice[k] \in Rows
            BY DEF RowsInv
        <3> QED
            BY <2>1, <3>1 DEF Rows
    <2>3. invoice' \in [Ids -> Rows]
        BY <2>1, <2>2
    <2>4. Erases
        BY <2>2, <2>3 DEF Erases
    <2> QED
        BY <1>8, <2>4 DEF Did
<1>9. CASE calls[c].pc = "act" /\ calls[c].kind = "credit"
    <2>1. /\ i \in Ids /\ invoice[i].status \in {"bokford", "betald"}
          /\ IdsLeft
        BY <1>2, <1>9 DEF May
    <2>2. Drafted(NextId, invoice[i].body, invoice[i].named, i)
        BY <1>2, <1>9 DEF Serves, Drafted
    <2> QED
        BY <1>2, <1>9, <2>1, <2>2 DEF Did
<1> QED
    BY <1>1, <1>3, <1>4, <1>5, <1>6, <1>7, <1>8, <1>9 DEF Asked, AtServer

(* A new row, and one that changes. *)
LEMMA NewRow ==
    ASSUME RowsInv, IdsLeft, NEW body \in 0..MaxBody, NEW named \in BOOLEAN,
           NEW origin \in 0..MaxInvoice,
           origin # 0 => invoice[origin].status \in {"bokford", "betald"},
           Drafted(NextId, body, named, origin)
    PROVE  RowsInv'
<1>1. PICK n \in Ids : n = NextId /\ invoice[n].status = "none"
    BY NextIdIsFree
<1>2. invoice' = [invoice EXCEPT ![n] = [status |-> "utkast", body |-> body,
                                        named |-> named, creditOf |-> origin]]
    BY <1>1 DEF Drafted
<1>3. [status |-> "utkast", body |-> body, named |-> named,
       creditOf |-> origin] \in Rows
    BY DEF Rows
<1>4. invoice' \in [Ids -> Rows]
    BY <1>2, <1>3 DEF RowsInv
<1>5. \A k \in Ids : invoice[k].status \in {"bokford", "betald"}
                         => invoice'[k].status = invoice[k].status
    BY <1>1, <1>2 DEF RowsInv
<1>6. ASSUME NEW i \in Ids, invoice'[i].creditOf # 0
      PROVE  invoice'[invoice'[i].creditOf].status \in {"bokford", "betald"}
    <2>1. PICK o : o = invoice'[i].creditOf
        OBVIOUS
    <2>2. o \in Ids /\ invoice[o].status \in {"bokford", "betald"}
        <3>1. CASE i = n
            <4>1. o = origin
                BY <1>2, <2>1, <3>1 DEF RowsInv
            <4> QED
                BY <4>1, <1>6, <2>1, InvoicePageAssumption DEF Ids
        <3>2. CASE i # n
            <4>1. o = invoice[i].creditOf /\ o \in 0..MaxInvoice
                BY <1>2, <2>1, <3>2 DEF RowsInv, Rows
            <4>2. o # 0
                BY <1>6, <2>1
            <4>3. o \in Ids
                BY <4>1, <4>2, InvoicePageAssumption DEF Ids
            <4> QED
                BY <4>1, <4>2, <4>3 DEF RowsInv
        <3> QED
            BY <3>1, <3>2
    <2> QED
        BY <1>5, <2>1, <2>2
<1> QED
    BY <1>4, <1>6 DEF RowsInv

LEMMA SameCredits ==
    ASSUME RowsInv, invoice' \in [Ids -> Rows],
           \A k \in Ids : /\ invoice'[k].creditOf = invoice[k].creditOf
                          /\ invoice[k].status \in {"bokford", "betald"}
                               => invoice'[k].status \in {"bokford", "betald"}
    PROVE  RowsInv'
<1> SUFFICES ASSUME NEW i \in Ids, invoice'[i].creditOf # 0
             PROVE  invoice'[invoice'[i].creditOf].status \in {"bokford", "betald"}
    BY DEF RowsInv
<1>1. PICK o : o = invoice[i].creditOf
    OBVIOUS
<1>2. o \in Ids /\ invoice[o].status \in {"bokford", "betald"}
    BY <1>1, InvoicePageAssumption DEF RowsInv, Rows, Ids
<1>3. invoice'[i].creditOf = o
    BY <1>1
<1> QED
    BY <1>2, <1>3

LEMMA StatusChanges ==
    ASSUME RowsInv, NEW i \in Ids, NEW s \in {"bokford", "betald", "raderad"},
           invoice' = [invoice EXCEPT ![i].status = s],
           s = "raderad" => invoice[i].status = "utkast"
    PROVE  RowsInv' /\ Takes(i, s)
<1>1. Takes(i, s)
    BY DEF Takes, RowsInv
<1>2. invoice' \in [Ids -> Rows]
    BY DEF RowsInv, Rows
<1>3. \A k \in Ids : /\ invoice'[k].creditOf = invoice[k].creditOf
                     /\ invoice'[k].status = IF k = i THEN s ELSE invoice[k].status
    BY DEF RowsInv, Rows
<1> QED
    BY <1>1, <1>2, <1>3, SameCredits

LEMMA BodyChanges ==
    ASSUME RowsInv, NEW i \in Ids, NEW b \in 0..MaxBody, NEW named \in BOOLEAN,
           invoice' = [invoice EXCEPT ![i].body = b, ![i].named = named]
    PROVE  RowsInv'
<1>1. invoice' \in [Ids -> Rows]
    <2>1. PICK one : one = [invoice EXCEPT ![i].body = b]
        OBVIOUS
    <2>2. one \in [Ids -> Rows]
        BY <2>1 DEF RowsInv, Rows
    <2>3. invoice' = [one EXCEPT ![i].named = named]
        BY <2>1
    <2> QED
        BY <2>2, <2>3 DEF Rows
<1>2. \A k \in Ids : /\ invoice'[k].creditOf = invoice[k].creditOf
                     /\ invoice'[k].status = invoice[k].status
    BY DEF RowsInv, Rows
<1> QED
    BY <1>1, <1>2, SameCredits

LEMMA BothSettled ==
    ASSUME RowsInv, NEW i \in Ids, invoice[i].status = "bokford",
           invoice' = [invoice EXCEPT ![i].status = "betald",
                                      ![invoice[i].creditOf].status = "betald"]
    PROVE  /\ RowsInv'
           /\ \A k \in Ids :
                 /\ invoice'[k].creditOf = invoice[k].creditOf
                 /\ invoice'[k].body = invoice[k].body
                 /\ invoice'[k].status =
                       IF k = i \/ k = invoice[i].creditOf THEN "betald"
                       ELSE invoice[k].status
<1>1. PICK o : o = invoice[i].creditOf
    OBVIOUS
<1>2. invoice' = [invoice EXCEPT ![i].status = "betald", ![o].status = "betald"]
    BY <1>1
<1>3. invoice' \in [Ids -> Rows]
    <2>1. PICK one : one = [invoice EXCEPT ![i].status = "betald"]
        OBVIOUS
    <2>2. one \in [Ids -> Rows]
        BY <2>1 DEF RowsInv, Rows
    <2>3. invoice' = [one EXCEPT ![o].status = "betald"]
        BY <1>2, <2>1
    <2> QED
        BY <2>2, <2>3 DEF Rows
<1>4. \A k \in Ids :
          /\ invoice'[k].creditOf = invoice[k].creditOf
          /\ invoice'[k].body = invoice[k].body
          /\ invoice'[k].status = IF k = i \/ k = o THEN "betald"
                                  ELSE invoice[k].status
    BY <1>2 DEF RowsInv, Rows
<1> QED
    BY <1>1, <1>3, <1>4, SameCredits

LEMMA ServedRows ==
    ASSUME CallsInv, RowsInv, NEW c \in Calls, Did(c, calls[c].id)
    PROVE  RowsInv'
<1>1. PICK i : i = calls[c].id
    OBVIOUS
<1>2. calls[c].body \in 0..MaxBody /\ calls[c].named \in BOOLEAN
    BY CallFields
<1>3. i \in Ids => /\ invoice[i].body \in 0..MaxBody
                   /\ invoice[i].named \in BOOLEAN
                   /\ i \in 0..MaxInvoice
    BY InvoicePageAssumption DEF RowsInv, Rows, Ids
<1>4. 0 \in 0..MaxInvoice /\ \A k \in Ids : k # 0
    BY InvoicePageAssumption DEF Ids
<1>5. ASSUME IdsLeft, NEW b \in 0..MaxBody, NEW n \in BOOLEAN,
             Drafted(NextId, b, n, 0)
      PROVE  RowsInv'
    BY <1>4, <1>5, NewRow
<1>6. ASSUME IdsLeft, i \in Ids, invoice[i].status \in {"bokford", "betald"},
             Drafted(NextId, invoice[i].body, invoice[i].named, i)
      PROVE  RowsInv'
    BY <1>3, <1>6, NewRow
<1>7. Erases => RowsInv'
    BY SameCredits DEF Erases
<1> QED
    BY <1>1, <1>2, <1>5, <1>6, <1>7, StatusChanges, BodyChanges, BothSettled DEF Did

-----------------------------------------------------------------------------
(* The type invariant is inductive.                                        *)

LEMMA ScreenFields ==
    ASSUME RestInv, selectedInvoice # Null
    PROVE  /\ selectedInvoice \in Screens
           /\ selectedInvoice.id \in 0..MaxInvoice
           /\ selectedInvoice.body \in 0..MaxBody
           /\ selectedInvoice.named \in BOOLEAN
           /\ selectedInvoice.creditOf \in 0..MaxInvoice
           /\ selectedInvoice.status \in {"utkast", "bokford", "betald"}
BY DEF RestInv, Screens

LEMMA CallMoves ==
    ASSUME CallsInv, NEW c \in Calls, Others(c), Asked(c)',
           calls'[c].pc = "ask" <=> modal' = c,
           modal' \in Calls \cup {Null},
           \A d \in Calls : d # c => (modal' = d <=> modal = d)
    PROVE  CallsInv'
BY DEF CallsInv, Others, Asked

(* A call moves while the question on the screen, if any, is another's.    *)
LEMMA CallMovesAlone ==
    ASSUME CallsInv, NEW c \in Calls, Others(c), Asked(c)',
           calls[c].pc # "ask", calls'[c].pc # "ask", modal' = modal
    PROVE  CallsInv'
<1>1. modal # c /\ modal \in Calls \cup {Null}
    BY DEF CallsInv
<1> QED
    BY <1>1, CallMoves

LEMMA Starts ==
    ASSUME CallsInv, NEW c \in Calls, NEW kind \in Kinds, NEW pc \in Places,
           NEW id \in 0..MaxInvoice, NEW body \in 0..MaxBody,
           NEW named \in BOOLEAN, Start(c, kind, pc, id, body, named),
           modal' = modal,
           \/ kind = "show" /\ pc = "list"
           \/ kind = "save" /\ pc = "save"
           \/ kind \in {"pay", "credit"} /\ pc = "act"
    PROVE  CallsInv'
<1>1. /\ Others(c) /\ calls[c].pc = "idle"
      /\ calls'[c].pc = pc /\ calls'[c].kind = kind
    BY StartsAt DEF CallsInv
<1>2. Asked(c)'
    BY <1>1 DEF Asked
<1> QED
    BY <1>1, <1>2, CallMovesAlone

LEMMA StartsAsking ==
    ASSUME CallsInv, NEW c \in Calls, NEW kind \in Kinds,
           NEW id \in 0..MaxInvoice, NEW body \in 0..MaxBody,
           Start(c, kind, "ask", id, body, TRUE), modal = Null, modal' = c,
           kind \in {"post", "settle", "delete", "anonymize"}
    PROVE  CallsInv'
<1>1. "ask" \in Places
    BY DEF Places
<1>2. /\ Others(c) /\ calls[c].pc = "idle"
      /\ calls'[c].pc = "ask" /\ calls'[c].kind = kind
    BY <1>1, StartsPlain DEF CallsInv, Start
<1>3. Asked(c)'
    BY <1>2 DEF Asked
<1>4. \A d \in Calls : d # Null
    BY InvoicePageAssumption
<1> QED
    BY <1>2, <1>3, <1>4, CallMoves

LEMMA Loads ==
    ASSUME CallsInv, NEW c \in Calls, NEW id \in 0..MaxInvoice,
           LoadInvoices(c, id)
    PROVE  /\ Others(c)
           /\ calls'[c].pc = "list" /\ calls'[c].id = id
           /\ calls'[c].kind = calls[c].kind
           /\ calls'[c].seen = calls[c].seen
           /\ invoices' = {}
BY GoesTo DEF LoadInvoices, CallsInv, Places

LEMMA CallLoads ==
    ASSUME CallsInv, NEW c \in Calls, NEW id \in 0..MaxInvoice,
           LoadInvoices(c, id), calls[c].pc # "ask", modal' = modal
    PROVE  CallsInv'
<1>1. Others(c) /\ calls'[c].pc = "list"
    BY Loads
<1>2. Asked(c)'
    BY <1>1 DEF Asked
<1> QED
    BY <1>1, <1>2, CallMovesAlone

LEMMA CallEnds ==
    ASSUME CallsInv, NEW c \in Calls, Ends(c), calls[c].pc # "ask",
           modal' = modal
    PROVE  CallsInv'
<1>1. Others(c) /\ calls'[c].pc = "idle"
    BY EndsAt DEF CallsInv
<1>2. Asked(c)'
    BY <1>1 DEF Asked
<1> QED
    BY <1>1, <1>2, CallMovesAlone

LEMMA QuestionGoes ==
    ASSUME CallsInv, NEW c \in Calls, modal = c, modal' = Null, Others(c),
           Asked(c)', calls'[c].pc # "ask"
    PROVE  CallsInv'
<1>1. \A d \in Calls : d # Null
    BY InvoicePageAssumption
<1> QED
    BY <1>1, CallMoves

(* What a confirmed call goes on with. *)
LEMMA AfterYes ==
    ASSUME CallsInv, RestInv, NEW c \in Calls, Confirmed(c)
    PROVE  /\ Others(c) /\ calls[c].pc = "ask" /\ modal' = Null
           /\ calls'[c].kind \in {calls[c].kind, "none"}
           /\ \/ calls'[c].pc = "idle"
              \/ /\ calls[c].kind \in {"settle", "anonymize"}
                 /\ calls'[c].kind = calls[c].kind
                 /\ calls'[c].pc = "act" /\ calls'[c].id = calls[c].id
                 /\ calls'[c].seen = calls[c].seen
              \/ /\ calls[c].kind = "delete" /\ selectedInvoice # Null
                 /\ calls'[c].kind = calls[c].kind
                 /\ calls'[c].pc = "act" /\ calls'[c].id = selectedInvoice.id
                 /\ calls'[c].seen = calls[c].seen
              \/ /\ calls[c].kind = "post" /\ selectedInvoice # Null
                 /\ selectedInvoice.body # 0
                 /\ calls'[c].kind = calls[c].kind
                 /\ calls'[c].pc = "save" /\ calls'[c].id = selectedInvoice.id
                 /\ calls'[c].body = selectedInvoice.body
                 /\ calls'[c].named = selectedInvoice.named
                 /\ calls'[c].seen = calls[c].seen
<1>1. calls[c].pc = "ask" /\ modal' = Null /\ GoesAhead(c)
    BY DEF Confirmed, CallsInv
<1>2. calls[c].kind \in {"post", "settle", "delete", "anonymize"}
    BY <1>1, CallFields DEF Asked
<1>3. "act" \in Places /\ calls \in [Calls -> CallType]
    BY DEF Places, CallsInv
<1>4. CASE calls[c].kind \in {"settle", "anonymize"}
    <2>1. Goes(c, "act", calls[c].id)
        BY <1>4, <1>1 DEF GoesAhead
    <2>2. calls[c].id \in 0..MaxInvoice
        BY CallFields
    <2>3. /\ Others(c) /\ calls'[c].pc = "act" /\ calls'[c].id = calls[c].id
          /\ calls'[c].kind = calls[c].kind /\ calls'[c].seen = calls[c].seen
        BY <1>3, <2>1, <2>2, GoesTo
    <2> QED
        BY <1>1, <1>4, <2>3
<1>5. CASE calls[c].kind \in {"post", "delete"} /\ selectedInvoice = Null
    <2>1. Ends(c)
        BY <1>5, <1>1 DEF GoesAhead
    <2>2. Others(c) /\ calls'[c].pc = "idle" /\ calls'[c].kind = "none"
        BY <1>3, <2>1, EndsAt
    <2> QED
        BY <1>1, <2>2
<1>6. CASE calls[c].kind = "delete" /\ selectedInvoice # Null
    <2>1. Goes(c, "act", selectedInvoice.id)
        BY <1>6, <1>1 DEF GoesAhead
    <2>2. selectedInvoice.id \in 0..MaxInvoice
        BY <1>6, ScreenFields
    <2>3. /\ Others(c) /\ calls'[c].pc = "act"
          /\ calls'[c].id = selectedInvoice.id
          /\ calls'[c].kind = calls[c].kind /\ calls'[c].seen = calls[c].seen
        BY <1>3, <2>1, <2>2, GoesTo
    <2> QED
        BY <1>1, <1>6, <2>3
<1>7. CASE calls[c].kind = "post" /\ selectedInvoice # Null
    <2>1. CASE selectedInvoice.body = 0
        <3>1. Ends(c)
            BY <1>7, <1>1, <2>1 DEF GoesAhead
        <3> QED
            BY <1>1, <1>3, <3>1, EndsAt
    <2>2. CASE selectedInvoice.body # 0
        <3>1. PICK i, b, n : /\ i = selectedInvoice.id
                             /\ b = selectedInvoice.body
                             /\ n = selectedInvoice.named
            OBVIOUS
        <3>2. i \in 0..MaxInvoice /\ b \in 0..MaxBody /\ n \in BOOLEAN
            BY <1>7, <3>1, ScreenFields
        <3>3. calls' = [calls EXCEPT ![c].pc = "save", ![c].id = i,
                                     ![c].body = b, ![c].named = n]
            BY <1>7, <1>1, <2>2, <3>1 DEF GoesAhead
        <3>4. PICK t : t = [calls[c] EXCEPT !.pc = "save", !.id = i, !.body = b,
                                            !.named = n]
            OBVIOUS
        <3>5. /\ t \in CallType
              /\ t.pc = "save" /\ t.id = i /\ t.kind = calls[c].kind
              /\ t.body = b /\ t.named = n /\ t.seen = calls[c].seen
            BY <1>3, <3>2, <3>4 DEF CallType, Places
        <3>6. calls' = [calls EXCEPT ![c] = t]
            BY <3>3, <3>4
        <3>7. Others(c) /\ calls'[c] = t
            BY <1>3, <3>5, <3>6, OneCall
        <3> QED
            BY <1>1, <1>7, <2>2, <3>1, <3>5, <3>7
    <2> QED
        BY <2>1, <2>2
<1> QED
    BY <1>2, <1>4, <1>5, <1>6, <1>7

(* Where a save that has been answered goes on. *)
LEMMA AfterAnswer ==
    ASSUME CallsInv, RestInv, NEW c \in Calls, SaveReturns(c)
    PROVE  /\ Others(c) /\ calls[c].pc = "save" /\ modal' = modal
           /\ calls[c].kind \in {"save", "post"}
           /\ \/ calls'[c].pc = "idle" /\ selectedInvoice = Null
                 /\ invoices' = invoices
              \/ /\ calls[c].kind = "save"
                 /\ calls'[c].pc = "list" /\ calls'[c].kind = "save"
                 /\ invoices' = {}
              \/ /\ calls[c].kind = "post" /\ selectedInvoice # Null
                 /\ calls'[c].pc = "post" /\ calls'[c].kind = "post"
                 /\ calls'[c].id = selectedInvoice.id
                 /\ calls'[c].seen = calls[c].seen
                 /\ invoices' = invoices
<1>1. calls[c].pc = "save" /\ modal' = modal /\ SaveAnswered(c)
    BY DEF SaveReturns
<1>2. calls[c].kind \in {"save", "post"}
    BY <1>1, CallFields DEF Asked
<1>3. {"post", "list"} \subseteq Places /\ calls \in [Calls -> CallType]
    BY DEF Places, CallsInv
<1>4. CASE calls[c].id = 0 /\ selectedInvoice = Null
    <2>1. Ends(c) /\ invoices' = invoices
        BY <1>1, <1>4 DEF SaveAnswered
    <2> QED
        BY <1>1, <1>2, <1>3, <1>4, <2>1, EndsAt
<1>5. CASE ~ (calls[c].id = 0 /\ selectedInvoice = Null)
    <2>1. AfterSave(c)
        BY <1>1, <1>5 DEF SaveAnswered
    <2>2. CASE calls[c].kind = "save"
        <3>1. LoadInvoices(c, 0) /\ 0 \in 0..MaxInvoice
            BY <2>1, <2>2, InvoicePageAssumption DEF AfterSave
        <3> QED
            BY <1>1, <1>2, <2>2, <3>1, Loads
    <2>3. CASE calls[c].kind = "post" /\ selectedInvoice = Null
        <3>1. Ends(c) /\ invoices' = invoices
            BY <2>1, <2>3 DEF AfterSave
        <3> QED
            BY <1>1, <1>2, <1>3, <2>3, <3>1, EndsAt
    <2>4. CASE calls[c].kind = "post" /\ selectedInvoice # Null
        <3>1. Goes(c, "post", selectedInvoice.id) /\ invoices' = invoices
            BY <2>1, <2>4 DEF AfterSave
        <3>2. selectedInvoice.id \in 0..MaxInvoice
            BY <2>4, ScreenFields
        <3> QED
            BY <1>1, <1>2, <1>3, <2>4, <3>1, <3>2, GoesTo
    <2> QED
        BY <1>2, <2>2, <2>3, <2>4
<1> QED
    BY <1>4, <1>5

(* The invoice a call opens when it has been served.                       *)
LEMMA OpensAnInvoice ==
    ASSUME CallsInv, NEW c \in Calls, ActReturns(c)
    PROVE  \E id \in 0..MaxInvoice : LoadInvoices(c, id) /\ id = OpensNext(c)
<1>1. /\ calls[c].pc = "act" /\ May(c) /\ LoadInvoices(c, OpensNext(c))
      /\ calls[c].kind \in {"pay", "credit", "settle"}
    BY DEF ActReturns
<1>2. CASE calls[c].kind = "credit"
    <2>1. IdsLeft
        BY <1>1, <1>2 DEF May
    <2> QED
        BY <1>1, <1>2, <2>1, NextIdIsFree, InvoicePageAssumption
        DEF OpensNext, Ids
<1>3. CASE calls[c].kind # "credit"
    BY <1>1, <1>3, CallFields DEF OpensNext
<1> QED
    BY <1>2, <1>3

LEMMA CallsStep ==
    ASSUME CallsInv, RestInv, RowsInv, [Next]_vars
    PROVE  CallsInv'
<1>1. 0 \in 0..MaxInvoice /\ 0 \in 0..MaxBody
    BY InvoicePageAssumption
<1>2. CASE UNCHANGED <<calls, modal>>
    BY <1>2 DEF CallsInv, Asked
<1>3. CASE \/ CreateNewInvoice \/ EditInvoice \/ CloseNewDraft
           \/ \E i \in Ids : ClickInvoice(i) \/ InvoiceArrives(i)
           \/ ShowViewGotCustomers
    <2>1. UNCHANGED <<calls, modal>>
        BY <1>3 DEF CreateNewInvoice, EditInvoice, CloseNewDraft, ClickInvoice,
                    InvoiceArrives, ShowViewGotCustomers
    <2> QED
        BY <1>2, <2>1
<1>4. ASSUME NEW c \in Calls, ShowInvoices(c) PROVE CallsInv'
    BY <1>1, <1>4, Starts DEF ShowInvoices, Kinds, Places
<1>5. ASSUME NEW c \in Calls, ListArrives(c) PROVE CallsInv'
    BY <1>5, CallEnds DEF ListArrives
<1>6. ASSUME NEW c \in Calls, SaveInvoice(c) PROVE CallsInv'
    <2>1. Start(c, "save", "save", selectedInvoice.id, selectedInvoice.body,
                   selectedInvoice.named)
          /\ modal' = modal /\ selectedInvoice # Null
        BY <1>6 DEF SaveInvoice
    <2> QED
        BY <2>1, Starts, ScreenFields DEF Kinds, Places
<1>7. ASSUME NEW c \in Calls, SaveReturns(c) PROVE CallsInv'
    <2>1. /\ Others(c) /\ calls[c].pc = "save" /\ modal' = modal
          /\ calls'[c].pc # "ask"
        BY <1>7, AfterAnswer
    <2>2. Asked(c)'
        BY <1>7, AfterAnswer DEF Asked
    <2> QED
        BY <2>1, <2>2, CallMovesAlone
<1>8. ASSUME NEW c \in Calls, NEW kind \in {"post", "settle", "delete"},
             Asks(c, kind), IsOpen({"utkast"}) \/ IsOpen({"bokford"})
      PROVE CallsInv'
    <2>1. /\ Start(c, kind, "ask", selectedInvoice.id, selectedInvoice.body,
                   TRUE)
          /\ modal = Null /\ modal' = c /\ selectedInvoice # Null
        BY <1>8 DEF Asks, IsOpen, UserClicks
    <2>2. kind \in Kinds /\ kind \in {"post", "settle", "delete", "anonymize"}
        BY DEF Kinds
    <2> QED
        BY <2>1, <2>2, StartsAsking, ScreenFields
<1>9. ASSUME NEW c \in Calls, PostInvoice(c) PROVE CallsInv'
    BY <1>8, <1>9 DEF PostInvoice
<1>10. ASSUME NEW c \in Calls, SettleInvoice(c) PROVE CallsInv'
    BY <1>8, <1>10 DEF SettleInvoice
<1>11. ASSUME NEW c \in Calls, DeleteInvoice(c) PROVE CallsInv'
    BY <1>8, <1>11 DEF DeleteInvoice
<1>12. ASSUME NEW c \in Calls, Declined(c) PROVE CallsInv'
    <2>1. Others(c) /\ calls'[c].pc = "idle" /\ modal = c /\ modal' = Null
        BY <1>12, EndsAt DEF Declined, CallsInv
    <2>2. Asked(c)'
        BY <2>1 DEF Asked
    <2> QED
        BY <2>1, <2>2, QuestionGoes
<1>13. ASSUME NEW c \in Calls, Confirmed(c) PROVE CallsInv'
    <2>1. /\ Others(c) /\ modal' = Null /\ calls'[c].pc # "ask"
        BY <1>13, AfterYes
    <2>2. modal = c
        BY <1>13 DEF Confirmed
    <2>3. Asked(c)'
        BY <1>13, AfterYes DEF Asked
    <2> QED
        BY <2>1, <2>2, <2>3, QuestionGoes
<1>14. ASSUME NEW c \in Calls, AnonymizeCustomer(c) PROVE CallsInv'
    <2>1. /\ Start(c, "anonymize", "ask", 0, 0, TRUE)
          /\ modal = Null /\ modal' = c
        BY <1>14 DEF AnonymizeCustomer, UserClicks
    <2> QED
        BY <1>1, <2>1, StartsAsking DEF Kinds
<1>15. ASSUME NEW c \in Calls, AnonymizeReturns(c) PROVE CallsInv'
    <2>1. calls[c].pc = "act" /\ Goes(c, "customers", 0) /\ modal' = modal
        BY <1>15 DEF AnonymizeReturns
    <2>2. Others(c) /\ calls'[c].pc = "customers"
        BY <1>1, <2>1, GoesTo DEF CallsInv, Places
    <2>3. Asked(c)'
        BY <2>2 DEF Asked
    <2> QED
        BY <2>1, <2>2, <2>3, CallMovesAlone
<1>16. ASSUME NEW c \in Calls, CustomersArrive(c) PROVE CallsInv'
    BY <1>1, <1>16, CallLoads DEF CustomersArrive
<1>17. ASSUME NEW c \in Calls, PostReturns(c) PROVE CallsInv'
    BY <1>1, <1>17, CallLoads DEF PostReturns
<1>18. ASSUME NEW c \in Calls, DeleteReturns(c) PROVE CallsInv'
    BY <1>1, <1>18, CallLoads DEF DeleteReturns
<1>19. ASSUME NEW c \in Calls, NEW kind \in {"pay", "credit"},
              Start(c, kind, "act", selectedInvoice.id, 0, TRUE),
              selectedInvoice # Null, modal' = modal
       PROVE CallsInv'
    BY <1>1, <1>19, Starts, ScreenFields DEF Kinds, Places
<1>20. ASSUME NEW c \in Calls, PayInvoice(c) PROVE CallsInv'
    BY <1>19, <1>20 DEF PayInvoice, IsOpen
<1>21. ASSUME NEW c \in Calls, CreditInvoice(c) PROVE CallsInv'
    BY <1>19, <1>21 DEF CreditInvoice, IsOpen
<1>22. ASSUME NEW c \in Calls, ActReturns(c) PROVE CallsInv'
    <2>1. calls[c].pc = "act" /\ modal' = modal
        BY <1>22 DEF ActReturns
    <2> QED
        BY <1>22, <2>1, OpensAnInvoice, CallLoads
<1>23. ASSUME NEW c \in Calls, RequestFails(c) PROVE CallsInv'
    BY <1>23, CallEnds DEF RequestFails, AtServer
<1>24. CASE UNCHANGED vars
    BY <1>2, <1>24 DEF vars
<1> QED
    BY <1>3, <1>4, <1>5, <1>6, <1>7, <1>9, <1>10, <1>11, <1>12, <1>13, <1>14,
       <1>15, <1>16, <1>17, <1>18, <1>20, <1>21, <1>22, <1>23, <1>24 DEF Next

LEMMA RowsStep ==
    ASSUME CallsInv, RowsInv, RestInv, [Next]_vars
    PROVE  RowsInv'
<1>1. CASE invoice' = invoice
    BY <1>1 DEF RowsInv
<1>2. ASSUME NEW c \in Calls, calls[c].pc \in AtServer, May(c), Serves(c)
      PROVE  RowsInv'
    BY <1>2, ServesCases, ServedRows
<1>3. ASSUME NEW c \in Calls, SaveReturns(c) PROVE RowsInv'
    BY <1>2, <1>3 DEF SaveReturns, AtServer
<1>4. ASSUME NEW c \in Calls, AnonymizeReturns(c) PROVE RowsInv'
    <2>1. calls[c].pc = "act" /\ calls[c].kind = "anonymize" /\ Serves(c)
        BY <1>4 DEF AnonymizeReturns
    <2>2. May(c)
        BY <2>1 DEF May
    <2> QED
        BY <1>2, <2>1, <2>2 DEF AtServer
<1>5. ASSUME NEW c \in Calls, PostReturns(c) PROVE RowsInv'
    BY <1>2, <1>5 DEF PostReturns, AtServer
<1>6. ASSUME NEW c \in Calls, DeleteReturns(c) PROVE RowsInv'
    BY <1>2, <1>6 DEF DeleteReturns, AtServer
<1>7. ASSUME NEW c \in Calls, ActReturns(c) PROVE RowsInv'
    BY <1>2, <1>7 DEF ActReturns, AtServer
<1>8. ASSUME NEW c \in Calls, RequestFails(c) PROVE RowsInv'
    BY <1>1, <1>2, <1>8 DEF RequestFails
<1>9. CASE \/ CreateNewInvoice \/ EditInvoice \/ CloseNewDraft
           \/ \E i \in Ids : ClickInvoice(i) \/ InvoiceArrives(i)
           \/ ShowViewGotCustomers
           \/ UNCHANGED vars
    BY <1>1, <1>9 DEF CreateNewInvoice, EditInvoice, CloseNewDraft,
                      ClickInvoice, InvoiceArrives, ShowViewGotCustomers, vars
<1>10. ASSUME NEW c \in Calls,
              \/ ShowInvoices(c) \/ ListArrives(c) \/ SaveInvoice(c)
              \/ PostInvoice(c) \/ SettleInvoice(c) \/ DeleteInvoice(c)
              \/ Declined(c) \/ Confirmed(c)
              \/ AnonymizeCustomer(c) \/ CustomersArrive(c)
              \/ PayInvoice(c) \/ CreditInvoice(c)
       PROVE  RowsInv'
    BY <1>1, <1>10 DEF ShowInvoices, ListArrives, SaveInvoice, PostInvoice,
                       SettleInvoice, DeleteInvoice, Asks, Declined, Confirmed,
                       AnonymizeCustomer, CustomersArrive, PayInvoice,
                       CreditInvoice
<1> QED
    BY <1>3, <1>4, <1>5, <1>6, <1>7, <1>8, <1>9, <1>10 DEF Next

(* What is left of the type invariant, in parts a step leaves alone.       *)
Counted == haste \in 0..MaxHaste /\ failures \in 0..MaxFailures
Known == /\ customers \in {"none", "old", "current", "rewritten"}
         /\ customersStale \in BOOLEAN /\ customersFetch \in BOOLEAN
Asking == fetches \subseteq Ids /\ wanted \in 0..MaxInvoice
OnList == invoices \subseteq (Ids \X {"utkast", "bokford", "betald"})
OnScreen == selectedInvoice = Null \/ selectedInvoice \in Screens

LEMMA RestParts ==
    RestInv <=> /\ Counted /\ Known /\ Asking /\ OnList /\ OnScreen
                /\ astray \subseteq Ids
BY DEF RestInv, Counted, Known, Asking, OnList, OnScreen

LEMMA ClickCounts ==
    ASSUME Counted, UserClicks PROVE haste' \in 0..MaxHaste
BY InvoicePageAssumption DEF Counted, UserClicks

LEMMA FailureCounts ==
    ASSUME Counted, Fails \/ UNCHANGED failures
    PROVE  failures' \in 0..MaxFailures
BY InvoicePageAssumption DEF Counted, Fails

LEMMA ListedIsTyped ==
    ASSUME RowsInv PROVE Listed \subseteq (Ids \X {"utkast", "bokford", "betald"})
BY DEF RowsInv, Rows, Listed, Exists

LEMMA CountedStep ==
    ASSUME Counted, [Next]_vars PROVE Counted'
<1>1. CASE /\ UserClicks \/ UNCHANGED haste
           /\ Fails \/ UNCHANGED failures
    BY <1>1, ClickCounts, FailureCounts DEF Counted
<1>2. CASE \/ CreateNewInvoice \/ EditInvoice \/ CloseNewDraft
           \/ \E i \in Ids : ClickInvoice(i) \/ InvoiceArrives(i)
           \/ ShowViewGotCustomers
           \/ UNCHANGED vars
    <2>1. /\ UserClicks \/ UNCHANGED haste
          /\ Fails \/ UNCHANGED failures
        BY <1>2 DEF CreateNewInvoice, EditInvoice, CloseNewDraft,
                    ClickInvoice, InvoiceArrives, ShowViewGotCustomers, vars
    <2> QED
        BY <1>1, <2>1
<1>3. ASSUME NEW c \in Calls,
             \/ ShowInvoices(c) \/ SaveInvoice(c)
             \/ PostInvoice(c) \/ SettleInvoice(c) \/ DeleteInvoice(c)
             \/ AnonymizeCustomer(c) \/ PayInvoice(c) \/ CreditInvoice(c)
      PROVE  Counted'
    <2>1. UserClicks /\ UNCHANGED failures
        BY <1>3 DEF ShowInvoices, SaveInvoice, PostInvoice, SettleInvoice,
                    DeleteInvoice, Asks, AnonymizeCustomer, PayInvoice,
                    CreditInvoice
    <2> QED
        BY <1>1, <2>1
<1>4. ASSUME NEW c \in Calls,
             \/ ListArrives(c) \/ SaveReturns(c) \/ Declined(c) \/ Confirmed(c)
             \/ AnonymizeReturns(c) \/ CustomersArrive(c) \/ PostReturns(c)
             \/ DeleteReturns(c) \/ ActReturns(c) \/ RequestFails(c)
      PROVE  Counted'
    <2>1. UNCHANGED haste /\ (Fails \/ UNCHANGED failures)
        BY <1>4 DEF ListArrives, SaveReturns, Declined, Confirmed,
                    AnonymizeReturns, CustomersArrive, PostReturns,
                    DeleteReturns, ActReturns, RequestFails
    <2> QED
        BY <1>1, <2>1
<1> QED
    BY <1>2, <1>3, <1>4 DEF Next

LEMMA KnownStep ==
    ASSUME Known, [Next]_vars PROVE Known'
<1>1. CASE UNCHANGED customerVars
    BY <1>1 DEF Known, customerVars
<1>2. CASE \/ CreateNewInvoice \/ EditInvoice \/ CloseNewDraft
           \/ \E i \in Ids : ClickInvoice(i) \/ InvoiceArrives(i)
           \/ UNCHANGED vars
    BY <1>1, <1>2 DEF CreateNewInvoice, EditInvoice, CloseNewDraft,
                      ClickInvoice, InvoiceArrives, vars
<1>3. CASE ShowViewGotCustomers
    BY <1>3 DEF ShowViewGotCustomers, Known
<1>4. ASSUME NEW c \in Calls,
             \/ SaveInvoice(c)
             \/ PostInvoice(c) \/ SettleInvoice(c) \/ DeleteInvoice(c)
             \/ AnonymizeCustomer(c) \/ PayInvoice(c) \/ CreditInvoice(c)
             \/ ListArrives(c) \/ Declined(c) \/ Confirmed(c)
             \/ PostReturns(c) \/ DeleteReturns(c)
      PROVE  Known'
    BY <1>1, <1>4 DEF SaveInvoice, PostInvoice, SettleInvoice, DeleteInvoice,
                      Asks, AnonymizeCustomer, PayInvoice, CreditInvoice,
                      ListArrives, Declined, Confirmed, PostReturns,
                      DeleteReturns
<1>5. ASSUME NEW c \in Calls, ShowInvoices(c) PROVE Known'
    BY <1>5 DEF ShowInvoices, Known
<1>6. ASSUME NEW c \in Calls, StoresCustomer(c)
      PROVE  customers' \in {customers, "old", "rewritten"}
    BY <1>6 DEF StoresCustomer
<1>7. ASSUME NEW c \in Calls, SaveReturns(c) PROVE Known'
    <2>1. /\ customers' \in {customers, "old", "rewritten"}
          /\ customersStale' \in {customersStale, TRUE}
          /\ customersFetch' = customersFetch
        BY <1>6, <1>7 DEF SaveReturns, SaveAnswered
    <2> QED
        BY <2>1 DEF Known
<1>8. ASSUME NEW c \in Calls, AnonymizeReturns(c) PROVE Known'
    BY <1>6, <1>8 DEF AnonymizeReturns, Known
<1>9. ASSUME NEW c \in Calls, CustomersArrive(c) PROVE Known'
    BY <1>9 DEF CustomersArrive, Known
<1>10. ASSUME NEW c \in Calls, RequestFails(c) PROVE Known'
    BY <1>6, <1>10 DEF RequestFails, Known
<1>11. ASSUME NEW c \in Calls, ActReturns(c) PROVE Known'
    BY <1>6, <1>11 DEF ActReturns, Known
<1> QED
    BY <1>2, <1>3, <1>4, <1>5, <1>7, <1>8, <1>9, <1>10, <1>11 DEF Next

(* Requests that are on their way, and what was asked for last.            *)
LEMMA AskingStep ==
    ASSUME Asking, [Next]_vars
    PROVE  /\ Asking'
           /\ LastClickWins => LastClickWins'
<1> DEFINE Selects == \E i \in Ids : SelectInvoice(i)
<1>1. CASE UNCHANGED <<fetches, wanted>>
    BY <1>1 DEF Asking, LastClickWins
<1>2. ASSUME Selects PROVE Asking' /\ LastClickWins'
    BY <1>2, InvoicePageAssumption DEF Asking, LastClickWins, SelectInvoice, Ids
<1>3. ASSUME NEW i \in Ids, InvoiceArrives(i)
      PROVE  Asking' /\ (LastClickWins => LastClickWins')
    BY <1>3 DEF InvoiceArrives, Asking, LastClickWins
<1>4. ASSUME NEW i \in Ids, ClickInvoice(i) PROVE Selects
    BY <1>4 DEF ClickInvoice
<1>5. ASSUME NEW c \in Calls, ListArrives(c)
      PROVE  Selects \/ UNCHANGED <<fetches, wanted>>
    BY <1>5 DEF ListArrives
<1>6. CASE \/ CreateNewInvoice \/ EditInvoice \/ CloseNewDraft
           \/ ShowViewGotCustomers \/ UNCHANGED vars
    BY <1>1, <1>6 DEF CreateNewInvoice, EditInvoice, CloseNewDraft,
                      ShowViewGotCustomers, vars
<1>7. ASSUME NEW c \in Calls,
             \/ ShowInvoices(c) \/ SaveInvoice(c) \/ SaveReturns(c)
             \/ PostInvoice(c) \/ SettleInvoice(c) \/ DeleteInvoice(c)
             \/ Declined(c) \/ Confirmed(c)
             \/ AnonymizeCustomer(c) \/ AnonymizeReturns(c)
             \/ CustomersArrive(c) \/ PostReturns(c) \/ DeleteReturns(c)
             \/ PayInvoice(c) \/ CreditInvoice(c) \/ ActReturns(c)
             \/ RequestFails(c)
      PROVE  Asking' /\ (LastClickWins => LastClickWins')
    BY <1>1, <1>7 DEF ShowInvoices, SaveInvoice, SaveReturns, PostInvoice,
                      SettleInvoice, DeleteInvoice, Asks, Declined, Confirmed,
                      AnonymizeCustomer, AnonymizeReturns, CustomersArrive,
                      PostReturns, DeleteReturns, PayInvoice, CreditInvoice,
                      ActReturns, RequestFails
<1> QED
    BY <1>2, <1>3, <1>4, <1>5, <1>1, <1>6, <1>7 DEF Next

LEMMA OnListStep ==
    ASSUME CallsInv, RestInv, RowsInv, OnList, [Next]_vars PROVE OnList'
<1>1. CASE invoices' \in {invoices, {}, Listed}
    BY <1>1, ListedIsTyped DEF OnList
<1>2. CASE \/ CreateNewInvoice \/ EditInvoice \/ CloseNewDraft
           \/ \E i \in Ids : ClickInvoice(i) \/ InvoiceArrives(i)
           \/ ShowViewGotCustomers \/ UNCHANGED vars
    BY <1>1, <1>2 DEF CreateNewInvoice, EditInvoice, CloseNewDraft,
                      ClickInvoice, InvoiceArrives, ShowViewGotCustomers, vars
<1>3. ASSUME NEW c \in Calls,
             \/ ShowInvoices(c) \/ SaveInvoice(c) \/ ListArrives(c)
             \/ PostInvoice(c) \/ SettleInvoice(c) \/ DeleteInvoice(c)
             \/ Declined(c) \/ Confirmed(c)
             \/ AnonymizeCustomer(c) \/ AnonymizeReturns(c)
             \/ PayInvoice(c) \/ CreditInvoice(c) \/ RequestFails(c)
      PROVE  OnList'
    <2>1. invoices' \in {invoices, {}, Listed}
        BY <1>3 DEF ShowInvoices, SaveInvoice, ListArrives, PostInvoice,
                    SettleInvoice, DeleteInvoice, Asks, Declined, Confirmed,
                    AnonymizeCustomer, AnonymizeReturns, PayInvoice,
                    CreditInvoice, RequestFails
    <2> QED
        BY <1>1, <2>1
<1>4. ASSUME NEW c \in Calls,
             \/ CustomersArrive(c) \/ PostReturns(c) \/ DeleteReturns(c)
             \/ ActReturns(c)
      PROVE  OnList'
    <2>1. invoices' = {}
        BY <1>4 DEF CustomersArrive, PostReturns, DeleteReturns, ActReturns,
                    LoadInvoices
    <2> QED
        BY <1>1, <2>1
<1>5. ASSUME NEW c \in Calls, SaveReturns(c) PROVE OnList'
    <2>1. invoices' \in {invoices, {}}
        BY <1>5, AfterAnswer
    <2> QED
        BY <1>1, <2>1
<1> QED
    BY <1>2, <1>3, <1>4, <1>5 DEF Next

(* The server's answers, on the screen.                                    *)
LEMMA ArrivedScreen ==
    ASSUME RowsInv, NEW i \in Ids, Exists(i),
           selectedInvoice' = [id |-> i, status |-> invoice[i].status,
                               body |-> invoice[i].body,
                               named |-> invoice[i].named,
                               creditOf |-> invoice[i].creditOf, edited |-> FALSE]
    PROVE  selectedInvoice' \in Screens
<1>1. /\ invoice[i].status \in {"utkast", "bokford", "betald"}
      /\ invoice[i].body \in 0..MaxBody
      /\ invoice[i].named \in BOOLEAN
      /\ invoice[i].creditOf \in 0..MaxInvoice
      /\ i \in 0..MaxInvoice
    BY InvoicePageAssumption DEF RowsInv, Rows, Exists, Ids
<1> QED
    BY <1>1 DEF Screens

(* A draft with its id, on the screen. *)
LEMMA AnsweredScreen ==
    ASSUME CallsInv, RestInv, NEW c \in Calls, SaveReturns(c)
    PROVE  \/ selectedInvoice' = selectedInvoice
           \/ /\ calls[c].id = 0 /\ selectedInvoice # Null
              /\ IdsLeft /\ NextId \in Ids
              /\ selectedInvoice' = [selectedInvoice EXCEPT !.id = NextId]
<1>1. calls[c].pc = "save" /\ May(c) /\ SaveAnswered(c)
    BY DEF SaveReturns
<1>2. calls[c].kind \in {"save", "post"}
    BY <1>1, CallFields DEF Asked
<1>3. CASE calls[c].id = 0
    <2>1. IdsLeft
        BY <1>1, <1>2, <1>3 DEF May
    <2>2. NextId \in Ids
        BY <2>1, NextIdIsFree
    <2> QED
        BY <1>1, <1>3, <2>1, <2>2 DEF SaveAnswered
<1> QED
    BY <1>1, <1>3 DEF SaveAnswered

LEMMA OnScreenStep ==
    ASSUME CallsInv, RestInv, RowsInv, OnScreen, [Next]_vars PROVE OnScreen'
<1>1. CASE UNCHANGED selectedInvoice
    BY <1>1 DEF OnScreen
<1>2. CASE CreateNewInvoice
    BY <1>2, InvoicePageAssumption DEF CreateNewInvoice, Screens, OnScreen
<1>3. CASE EditInvoice
    <2>1. PICK b \in {0} \cup (1..MaxBody \ UsedBodies),
               n \in {TRUE, selectedInvoice.named} :
              selectedInvoice' = [selectedInvoice EXCEPT !.body = b, !.named = n,
                                                         !.edited = TRUE]
        BY <1>3 DEF EditInvoice
    <2>2. PICK s \in Screens : s = selectedInvoice
        BY <1>3 DEF EditInvoice, OnScreen
    <2>3. b \in 0..MaxBody
        BY InvoicePageAssumption
    <2>4. n \in BOOLEAN
        BY <2>2 DEF Screens
    <2>5. [s EXCEPT !.body = b, !.named = n, !.edited = TRUE] \in Screens
        BY <2>3, <2>4 DEF Screens
    <2> QED
        BY <2>1, <2>2, <2>5 DEF OnScreen
<1>4. ASSUME NEW i \in Ids, InvoiceArrives(i) PROVE OnScreen'
    BY <1>1, <1>4, ArrivedScreen DEF InvoiceArrives, OnScreen
<1>5. ASSUME NEW c \in Calls, SaveReturns(c) PROVE OnScreen'
    <2>1. CASE /\ selectedInvoice # Null /\ NextId \in Ids
               /\ selectedInvoice' = [selectedInvoice EXCEPT !.id = NextId]
        <3>1. PICK n : n = NextId
            OBVIOUS
        <3>2. n \in 0..MaxInvoice
            BY <2>1, <3>1, InvoicePageAssumption DEF Ids
        <3>3. PICK s \in Screens : s = selectedInvoice
            BY <2>1 DEF OnScreen
        <3>4. [s EXCEPT !.id = n] \in Screens
            BY <3>2 DEF Screens
        <3>5. selectedInvoice' = [s EXCEPT !.id = n]
            BY <2>1, <3>1, <3>3
        <3> QED
            BY <3>4, <3>5 DEF OnScreen
    <2> QED
        BY <1>1, <1>5, <2>1, AnsweredScreen
<1>6. CASE CloseNewDraft
    BY <1>6 DEF CloseNewDraft, OnScreen
<1>7. ASSUME NEW c \in Calls, DeleteReturns(c) PROVE OnScreen'
    BY <1>7 DEF DeleteReturns, OnScreen
<1>8. CASE ShowViewGotCustomers \/ (\E i \in Ids : ClickInvoice(i)) \/ UNCHANGED vars
    BY <1>1, <1>8 DEF ShowViewGotCustomers, ClickInvoice, vars
<1>9. ASSUME NEW c \in Calls,
             \/ ShowInvoices(c) \/ SaveInvoice(c) \/ ListArrives(c)
             \/ PostInvoice(c) \/ SettleInvoice(c) \/ DeleteInvoice(c)
             \/ Declined(c) \/ Confirmed(c)
             \/ AnonymizeCustomer(c) \/ AnonymizeReturns(c)
             \/ CustomersArrive(c) \/ PostReturns(c)
             \/ PayInvoice(c) \/ CreditInvoice(c) \/ ActReturns(c)
             \/ RequestFails(c)
      PROVE  OnScreen'
    BY <1>1, <1>9 DEF ShowInvoices, SaveInvoice, ListArrives, PostInvoice,
                      SettleInvoice, DeleteInvoice, Asks, Declined, Confirmed,
                      AnonymizeCustomer, AnonymizeReturns, CustomersArrive,
                      PostReturns, PayInvoice, CreditInvoice, ActReturns,
                      RequestFails
<1> QED
    BY <1>2, <1>3, <1>4, <1>5, <1>6, <1>7, <1>8, <1>9 DEF Next

LEMMA AstrayStep ==
    ASSUME CallsInv, RowsInv, astray \subseteq Ids, [Next]_vars
    PROVE  astray' \subseteq Ids
<1>1. ASSUME NEW c \in Calls, PostReturns(c) \/ DeleteReturns(c)
      PROVE  astray' \subseteq Ids
    <2>1. /\ May(c) /\ astray' \subseteq astray \cup {calls[c].id}
          /\ \/ calls[c].pc = "post"
             \/ calls[c].pc = "act" /\ calls[c].kind = "delete"
        BY <1>1 DEF PostReturns, DeleteReturns
    <2>2. calls[c].pc = "post" => calls[c].kind = "post"
        BY CallFields DEF Asked
    <2>3. calls[c].id \in Ids
        BY <2>1, <2>2 DEF May
    <2> QED
        BY <2>1, <2>3
<1>2. CASE \/ CreateNewInvoice \/ EditInvoice \/ CloseNewDraft
           \/ \E i \in Ids : ClickInvoice(i) \/ InvoiceArrives(i)
           \/ ShowViewGotCustomers \/ UNCHANGED vars
    BY <1>2 DEF CreateNewInvoice, EditInvoice, CloseNewDraft,
                ClickInvoice, InvoiceArrives, ShowViewGotCustomers, vars
<1>3. ASSUME NEW c \in Calls,
             \/ ShowInvoices(c) \/ SaveInvoice(c) \/ ListArrives(c)
             \/ PostInvoice(c) \/ SettleInvoice(c) \/ DeleteInvoice(c)
             \/ Declined(c) \/ Confirmed(c) \/ SaveReturns(c)
             \/ AnonymizeCustomer(c) \/ AnonymizeReturns(c)
             \/ CustomersArrive(c)
             \/ PayInvoice(c) \/ CreditInvoice(c) \/ ActReturns(c)
             \/ RequestFails(c)
      PROVE  astray' \subseteq Ids
    BY <1>3 DEF ShowInvoices, SaveInvoice, ListArrives, PostInvoice,
                SettleInvoice, DeleteInvoice, Asks, Declined, Confirmed,
                AnonymizeCustomer, AnonymizeReturns, CustomersArrive,
                SaveReturns, PayInvoice, CreditInvoice, ActReturns, RequestFails
<1> QED
    BY <1>1, <1>2, <1>3 DEF Next

LEMMA RestStep ==
    ASSUME CallsInv, RowsInv, RestInv, [Next]_vars PROVE RestInv'
<1>1. /\ Counted /\ Known /\ Asking /\ OnList /\ OnScreen /\ astray \subseteq Ids
    BY RestParts
<1>2. Counted'
    BY <1>1, CountedStep
<1>3. Known'
    BY <1>1, KnownStep
<1>4. Asking'
    BY <1>1, AskingStep
<1>5. OnList'
    BY <1>1, OnListStep
<1>6. OnScreen'
    BY <1>1, OnScreenStep
<1>7. astray' \subseteq Ids
    BY <1>1, AstrayStep
<1> QED
    BY <1>2, <1>3, <1>4, <1>5, <1>6, <1>7
    DEF RestInv, Counted, Known, Asking, OnList, OnScreen

LEMMA TypedInit ==
    ASSUME Init PROVE Typed /\ LastClickWins
<1>1. CallsInv
    <2>1. \A c \in Calls : calls[c] = Idle /\ c # Null
        BY InvoicePageAssumption DEF Init
    <2> QED
        BY <2>1, IdleCall DEF Init, CallsInv, Asked
<1>2. RowsInv
    <2>1. NoInvoice \in Rows /\ NoInvoice.creditOf = 0
        BY InvoicePageAssumption DEF NoInvoice, Rows
    <2> QED
        BY <2>1 DEF Init, RowsInv
<1>3. RestInv
    <2>1. 0 \in 0..MaxInvoice /\ 0 \in 0..MaxHaste /\ 0 \in 0..MaxFailures
        BY InvoicePageAssumption
    <2> QED
        BY <2>1 DEF Init, RestInv
<1> QED
    BY <1>1, <1>2, <1>3 DEF Typed, LastClickWins, Init

LEMMA TypedStep ==
    ASSUME Typed, [Next]_vars PROVE Typed'
BY CallsStep, RowsStep, RestStep DEF Typed

LEMMA TypedInvariant == Spec => []Typed
BY TypedInit, TypedStep, PTL DEF Spec

(* Every variable has its type, and a call that has asked the user is the  *)
(* one whose question is on the screen.                                    *)
THEOREM PageTyped == Spec => []TypeOK
<1>1. Typed => TypeOK
    BY DEF Typed, CallsInv, RowsInv, RestInv, TypeOK, Rows, Screens, CallType,
           Kinds, Places, Seen
<1> QED
    BY <1>1, TypedInvariant, PTL

(* Whatever the order of clicks and answers, the answer that is shown is   *)
(* that of the invoice clicked last, or opened last by a call              *)
(* (app.js:453-456).                                                       *)
THEOREM LastClickIsShown == Spec => []LastClickWins
<1>1. ASSUME Typed, LastClickWins, [Next]_vars PROVE LastClickWins'
    BY <1>1, RestParts, AskingStep DEF Typed
<1> QED
    BY <1>1, TypedInit, TypedInvariant, PTL DEF Spec

-----------------------------------------------------------------------------
(* The user who waits: one call at a time, and what it works on is what is *)
(* on the screen.                                                          *)

Busy(c) == calls[c].pc # "idle"

Alone == \A c \in Calls :
            Busy(c) => fetches = {} /\ \A d \in Calls : Busy(d) => d = c

ForScreen(c) == selectedInvoice # Null /\ calls[c].id = selectedInvoice.id

(* What the user has seen is what a call is about to save, post or delete. *)
Saw(c) ==
    /\ calls[c].kind = "post" /\ calls[c].pc \in {"ask", "save", "post"} =>
          /\ ForScreen(c)
          /\ calls[c].id # 0
          /\ calls[c].seen = <<calls[c].id, selectedInvoice.body>>
          /\ calls[c].pc = "post"
                => invoice[calls[c].id].body = selectedInvoice.body
    /\ calls[c].pc = "save" =>
          /\ ForScreen(c)
          /\ calls[c].body = selectedInvoice.body
          /\ calls[c].named = selectedInvoice.named
          /\ calls[c].body # 0
    /\ calls[c].kind = "delete" /\ calls[c].pc \in {"ask", "act"} =>
          ForScreen(c) /\ calls[c].seen[1] = calls[c].id

Seeing == Alone /\ (\A c \in Calls : Saw(c)) /\ astray = {}

QuietInv == haste = 0 => Seeing

LEMMA ByItself ==
    ASSUME Alone, NEW c \in Calls, Busy(c)
    PROVE  fetches = {} /\ \A d \in Calls : d # c => ~Busy(d)
BY DEF Alone

LEMMA AllIdle ==
    ASSUME \A c \in Calls : calls'[c].pc = "idle", astray' = {}
    PROVE  Seeing'
BY DEF Seeing, Alone, Busy, Saw

LEMMA OneBusy ==
    ASSUME NEW c \in Calls, Others(c), \A d \in Calls : d # c => ~Busy(d),
           fetches' = {}, Saw(c)', astray' = {}
    PROVE  Seeing'
<1>1. \A d \in Calls : d # c => calls'[d].pc = "idle"
    BY DEF Others, Busy
<1>2. Alone'
    BY <1>1 DEF Alone, Busy
<1>3. \A d \in Calls : d # c => Saw(d)'
    BY <1>1 DEF Saw
<1> QED
    BY <1>2, <1>3 DEF Seeing

(* A click of the user who waits. *)
LEMMA Waited ==
    ASSUME Counted, UserClicks, haste' = 0
    PROVE  /\ haste = 0 /\ fetches = {} /\ ~customersFetch /\ modal = Null
           /\ \A c \in Calls : calls[c].pc = "idle"
<1>1. haste \in Nat
    BY DEF Counted
<1>2. ~IsBusy /\ haste = 0
    BY <1>1 DEF UserClicks
<1> QED
    BY <1>2 DEF IsBusy, UserClicks

LEMMA SeeingStarts ==
    ASSUME CallsInv, Counted, QuietInv, haste' = 0, UserClicks,
           NEW c \in Calls, Others(c), Saw(c)',
           UNCHANGED <<fetches, astray>>
    PROVE  Seeing'
<1>1. /\ haste = 0 /\ fetches = {} /\ \A d \in Calls : calls[d].pc = "idle"
    BY Waited
<1>2. astray = {}
    BY <1>1 DEF QuietInv, Seeing
<1> QED
    BY <1>1, <1>2, OneBusy DEF Busy

LEMMA SeeingClicks ==
    ASSUME Counted, QuietInv, haste' = 0, UserClicks, UNCHANGED <<calls, astray>>
    PROVE  Seeing'
<1>1. haste = 0 /\ \A c \in Calls : calls[c].pc = "idle"
    BY Waited
<1>2. astray = {}
    BY <1>1 DEF QuietInv, Seeing
<1> QED
    BY <1>1, <1>2, AllIdle

LEMMA SeeingStays ==
    ASSUME Seeing,
           UNCHANGED <<calls, fetches, selectedInvoice, invoice, astray>>
    PROVE  Seeing'
BY DEF Seeing, Alone, Busy, Saw, ForScreen

LEMMA SeeingEnds ==
    ASSUME CallsInv, Seeing, NEW c \in Calls, Busy(c), Ends(c), astray' = astray
    PROVE  Seeing'
<1>1. Others(c) /\ calls'[c].pc = "idle"
    BY EndsAt DEF CallsInv
<1>2. \A d \in Calls : d # c => calls[d].pc = "idle"
    BY ByItself DEF Seeing, Busy
<1>3. \A d \in Calls : calls'[d].pc = "idle"
    BY <1>1, <1>2 DEF Others
<1> QED
    BY <1>3, AllIdle DEF Seeing

LEMMA SeeingGoes ==
    ASSUME Seeing, NEW c \in Calls, Busy(c), Others(c), Saw(c)',
           fetches' = fetches, astray' = astray
    PROVE  Seeing'
BY ByItself, OneBusy DEF Seeing

LEMMA SeeingLoads ==
    ASSUME CallsInv, Seeing, NEW c \in Calls, Busy(c), NEW id \in 0..MaxInvoice,
           LoadInvoices(c, id), fetches' = fetches, astray' = astray
    PROVE  Seeing'
<1>1. Others(c) /\ calls'[c].pc = "list"
    BY Loads
<1>2. Saw(c)'
    BY <1>1 DEF Saw
<1> QED
    BY <1>1, <1>2, SeeingGoes

(* What was saved is what is on the screen.                                *)
LEMMA SavedBody ==
    ASSUME CallsInv, RowsInv, NEW c \in Calls, SaveReturns(c)
    PROVE  /\ calls[c].pc = "save" /\ calls[c].kind \in {"save", "post"}
           /\ calls[c].id # 0 =>
                 /\ calls[c].id \in Ids
                 /\ invoice[calls[c].id].status = "utkast"
                 /\ invoice' = [invoice EXCEPT
                                   ![calls[c].id].body = calls[c].body,
                                   ![calls[c].id].named = calls[c].named]
           /\ calls[c].id = 0 =>
                 /\ IdsLeft
                 /\ Drafted(NextId, calls[c].body, calls[c].named, 0)
<1>1. calls[c].pc = "save" /\ May(c) /\ Serves(c) /\ calls[c].pc \in AtServer
    BY DEF SaveReturns, AtServer
<1>2. Did(c, calls[c].id)
    BY <1>1, ServesCases
<1>3. calls[c].kind \in {"save", "post"}
    BY <1>1, CallFields DEF Asked
<1>4. \A k \in Ids : k # 0
    BY InvoicePageAssumption DEF Ids
<1> QED
    BY <1>1, <1>2, <1>3, <1>4 DEF Did

LEMMA SeeingSaved ==
    ASSUME CallsInv, RowsInv, RestInv, Seeing, NEW c \in Calls, SaveReturns(c)
    PROVE  Seeing'
<1>1. /\ Others(c) /\ calls[c].pc = "save" /\ Busy(c)
    BY AfterAnswer DEF Busy
<1>2. /\ ForScreen(c) /\ calls[c].body = selectedInvoice.body
      /\ calls[c].kind = "post" =>
            /\ calls[c].id # 0
            /\ calls[c].seen = <<calls[c].id, selectedInvoice.body>>
    BY <1>1 DEF Seeing, Saw
<1>3. fetches' = fetches /\ astray' = astray
    BY DEF SaveReturns
<1>4. CASE calls'[c].pc \in {"idle", "list"}
    <2>1. Saw(c)'
        BY <1>4 DEF Saw
    <2> QED
        BY <1>1, <1>3, <2>1, SeeingGoes
<1>5. CASE /\ calls[c].kind = "post" /\ calls'[c].kind = "post"
           /\ calls'[c].pc = "post" /\ calls'[c].id = selectedInvoice.id
           /\ calls'[c].seen = calls[c].seen
    <2>1. calls[c].id # 0 /\ calls[c].id = selectedInvoice.id
        BY <1>2, <1>5 DEF ForScreen
    <2>2. selectedInvoice' = selectedInvoice
        BY <2>1, AnsweredScreen
    <2>3. /\ calls[c].id \in Ids
          /\ invoice' = [invoice EXCEPT ![calls[c].id].body = calls[c].body,
                                        ![calls[c].id].named = calls[c].named]
        BY <2>1, SavedBody
    <2>4. invoice'[calls[c].id].body = calls[c].body
        BY <2>3 DEF RowsInv, Rows
    <2>5. selectedInvoice # Null /\ selectedInvoice' # Null
        BY <1>2, <2>2 DEF ForScreen
    <2>6. Saw(c)'
        BY <1>2, <1>5, <2>1, <2>2, <2>4, <2>5 DEF Saw, ForScreen
    <2> QED
        BY <1>1, <1>3, <2>6, SeeingGoes
<1> QED
    BY <1>4, <1>5, AfterAnswer

LEMMA SeeingConfirmed ==
    ASSUME CallsInv, RestInv, Seeing, NEW c \in Calls, Confirmed(c)
    PROVE  Seeing'
<1>1. Others(c) /\ calls[c].pc = "ask" /\ Busy(c)
    BY AfterYes DEF Busy
<1>2. UNCHANGED <<invoice, fetches, astray, selectedInvoice>>
    BY DEF Confirmed
<1>3. Saw(c)
    BY DEF Seeing
<1>4. Saw(c)'
    <2>1. CASE calls'[c].pc = "idle"
        BY <2>1 DEF Saw
    <2>2. CASE /\ calls[c].kind \in {"settle", "anonymize"}
               /\ calls'[c].kind = calls[c].kind
               /\ calls'[c].pc = "act"
        BY <2>2 DEF Saw
    <2>3. CASE /\ calls[c].kind = "delete" /\ selectedInvoice # Null
               /\ calls'[c].kind = calls[c].kind
               /\ calls'[c].pc = "act" /\ calls'[c].id = selectedInvoice.id
               /\ calls'[c].seen = calls[c].seen
        BY <1>1, <1>2, <1>3, <2>3 DEF Saw, ForScreen
    <2>4. CASE /\ calls[c].kind = "post" /\ selectedInvoice # Null
               /\ selectedInvoice.body # 0
               /\ calls'[c].kind = calls[c].kind
               /\ calls'[c].pc = "save" /\ calls'[c].id = selectedInvoice.id
               /\ calls'[c].body = selectedInvoice.body
               /\ calls'[c].named = selectedInvoice.named
               /\ calls'[c].seen = calls[c].seen
        BY <1>1, <1>2, <1>3, <2>4 DEF Saw, ForScreen
    <2> QED
        BY <2>1, <2>2, <2>3, <2>4, AfterYes
<1> QED
    BY <1>1, <1>2, <1>4, SeeingGoes

(* Nothing is posted or deleted but what the user saw.                     *)
LEMMA PostedAsSeen ==
    ASSUME Seeing, NEW c \in Calls, PostReturns(c) \/ DeleteReturns(c), CallsInv
    PROVE  astray' = astray
<1>1. CASE PostReturns(c)
    <2>1. calls[c].pc = "post" /\ calls[c].kind = "post"
        BY <1>1, CallFields DEF PostReturns, Asked
    <2>2. calls[c].seen = <<calls[c].id, invoice[calls[c].id].body>>
        BY <2>1 DEF Seeing, Saw
    <2> QED
        BY <1>1, <2>2 DEF PostReturns
<1>2. CASE DeleteReturns(c)
    BY <1>2 DEF DeleteReturns, Seeing, Saw
<1> QED
    BY <1>1, <1>2

LEMMA QuietStep ==
    ASSUME Typed, QuietInv, [Next]_vars
    PROVE  QuietInv'
<1> SUFFICES ASSUME haste' = 0 PROVE Seeing'
    BY DEF QuietInv
<1>1. CallsInv /\ RowsInv /\ RestInv /\ Counted
    BY RestParts DEF Typed
<1>2. 0 \in 0..MaxInvoice /\ 0 \in 0..MaxBody
    BY InvoicePageAssumption
<1>3. haste' = haste => Seeing
    BY DEF QuietInv
<1>4. CASE CreateNewInvoice \/ EditInvoice \/ CloseNewDraft
    BY <1>1, <1>4, SeeingClicks DEF CreateNewInvoice, EditInvoice, CloseNewDraft
<1>5. ASSUME NEW i \in Ids, ClickInvoice(i) PROVE Seeing'
    BY <1>1, <1>5, SeeingClicks DEF ClickInvoice
<1>6. ASSUME NEW i \in Ids, InvoiceArrives(i) PROVE Seeing'
    <2>1. /\ Seeing /\ fetches # {} /\ UNCHANGED <<calls, astray>>
        BY <1>3, <1>6 DEF InvoiceArrives
    <2>2. \A c \in Calls : calls[c].pc = "idle"
        BY <2>1 DEF Seeing, Alone, Busy
    <2> QED
        BY <2>1, <2>2, AllIdle DEF Seeing
<1>7. CASE ShowViewGotCustomers
    BY <1>3, <1>7, SeeingStays DEF ShowViewGotCustomers
<1>8. ASSUME NEW c \in Calls, ShowInvoices(c) PROVE Seeing'
    <2>1. /\ Start(c, "show", "list", 0, 0, TRUE) /\ UserClicks
          /\ UNCHANGED <<fetches, astray>>
        BY <1>8 DEF ShowInvoices
    <2>2. Others(c) /\ calls'[c].pc = "list"
        BY <1>1, <1>2, <2>1, StartsAt DEF CallsInv, Kinds, Places
    <2>3. Saw(c)'
        BY <2>2 DEF Saw
    <2> QED
        BY <1>1, <2>1, <2>2, <2>3, SeeingStarts
<1>9. ASSUME NEW c \in Calls, ListArrives(c) PROVE Seeing'
    <2>1. /\ calls[c].pc = "list" /\ Busy(c) /\ Ends(c) /\ Seeing /\ astray' = astray
        BY <1>3, <1>9 DEF ListArrives, Busy
    <2> QED
        BY <1>1, <2>1, SeeingEnds
<1>10. ASSUME NEW c \in Calls, SaveInvoice(c) PROVE Seeing'
    <2>1. /\ Start(c, "save", "save", selectedInvoice.id, selectedInvoice.body,
                   selectedInvoice.named)
          /\ UserClicks /\ selectedInvoice # Null /\ selectedInvoice.body # 0
          /\ UNCHANGED <<fetches, astray, selectedInvoice, invoice>>
        BY <1>10 DEF SaveInvoice
    <2>2. /\ selectedInvoice.id \in 0..MaxInvoice
          /\ selectedInvoice.body \in 0..MaxBody
          /\ selectedInvoice.named \in BOOLEAN
        BY <1>1, <2>1, ScreenFields
    <2>3. /\ Others(c) /\ calls'[c].pc = "save" /\ calls'[c].kind = "save"
          /\ calls'[c].id = selectedInvoice.id
          /\ calls'[c].body = selectedInvoice.body
          /\ calls'[c].named = selectedInvoice.named
        BY <1>1, <2>1, <2>2, StartsAt DEF CallsInv, Kinds, Places
    <2>4. Saw(c)'
        BY <2>1, <2>3 DEF Saw, ForScreen
    <2> QED
        BY <1>1, <2>1, <2>3, <2>4, SeeingStarts
<1>11. ASSUME NEW c \in Calls, NEW kind \in {"post", "settle", "delete"},
              IsOpen({"utkast"}) \/ IsOpen({"bokford"}), Asks(c, kind)
       PROVE Seeing'
    <2>1. /\ Start(c, kind, "ask", selectedInvoice.id, selectedInvoice.body,
                   TRUE)
          /\ UserClicks /\ selectedInvoice # Null /\ selectedInvoice.id # 0
          /\ UNCHANGED <<fetches, astray, selectedInvoice, invoice>>
        BY <1>11 DEF Asks, IsOpen
    <2>2. /\ selectedInvoice.id \in 0..MaxInvoice
          /\ selectedInvoice.body \in 0..MaxBody
          /\ kind \in Kinds /\ "ask" \in Places
        BY <1>1, <2>1, ScreenFields DEF Kinds, Places
    <2>3. /\ Others(c) /\ calls'[c].pc = "ask" /\ calls'[c].kind = kind
          /\ calls'[c].id = selectedInvoice.id
          /\ calls'[c].seen = <<selectedInvoice.id, selectedInvoice.body>>
        BY <1>1, <2>1, <2>2, StartsPlain DEF CallsInv, Start
    <2>4. Saw(c)'
        BY <2>1, <2>3 DEF Saw, ForScreen
    <2> QED
        BY <1>1, <2>1, <2>3, <2>4, SeeingStarts
<1>12. ASSUME NEW c \in Calls,
              PostInvoice(c) \/ SettleInvoice(c) \/ DeleteInvoice(c)
       PROVE Seeing'
    BY <1>11, <1>12 DEF PostInvoice, SettleInvoice, DeleteInvoice
<1>13. ASSUME NEW c \in Calls, Declined(c) PROVE Seeing'
    <2>1. /\ modal = c /\ Ends(c) /\ Seeing /\ astray' = astray
        BY <1>3, <1>13 DEF Declined
    <2>2. Busy(c)
        BY <1>1, <2>1 DEF CallsInv, Busy
    <2> QED
        BY <1>1, <2>1, <2>2, SeeingEnds
<1>14. ASSUME NEW c \in Calls, Confirmed(c) PROVE Seeing'
    BY <1>1, <1>3, <1>14, SeeingConfirmed DEF Confirmed
<1>15. ASSUME NEW c \in Calls, AnonymizeCustomer(c) PROVE Seeing'
    <2>1. /\ Start(c, "anonymize", "ask", 0, 0, TRUE) /\ UserClicks
          /\ UNCHANGED <<fetches, astray>>
        BY <1>15 DEF AnonymizeCustomer
    <2>2. Others(c) /\ calls'[c].pc = "ask" /\ calls'[c].kind = "anonymize"
        BY <1>1, <1>2, <2>1, StartsAt DEF CallsInv, Kinds, Places
    <2>3. Saw(c)'
        BY <2>2 DEF Saw
    <2> QED
        BY <1>1, <2>1, <2>2, <2>3, SeeingStarts
<1>16. ASSUME NEW c \in Calls, AnonymizeReturns(c) PROVE Seeing'
    <2>1. /\ Busy(c) /\ Goes(c, "customers", 0) /\ Seeing
          /\ UNCHANGED <<fetches, astray>>
        BY <1>3, <1>16 DEF AnonymizeReturns, Busy
    <2>2. Others(c) /\ calls'[c].pc = "customers"
        BY <1>1, <1>2, <2>1, GoesTo DEF CallsInv, Places
    <2>3. Saw(c)'
        BY <2>2 DEF Saw
    <2> QED
        BY <2>1, <2>2, <2>3, SeeingGoes
<1>17. ASSUME NEW c \in Calls, CustomersArrive(c) PROVE Seeing'
    <2>1. /\ Busy(c) /\ LoadInvoices(c, 0) /\ Seeing
          /\ UNCHANGED <<fetches, astray>>
        BY <1>3, <1>17 DEF CustomersArrive, Busy
    <2> QED
        BY <1>1, <1>2, <2>1, SeeingLoads
<1>18. ASSUME NEW c \in Calls, PostReturns(c) \/ DeleteReturns(c) PROVE Seeing'
    <2>1. /\ Busy(c) /\ LoadInvoices(c, 0) /\ Seeing /\ fetches' = fetches
        BY <1>3, <1>18 DEF PostReturns, DeleteReturns, Busy
    <2>2. astray' = astray
        BY <1>1, <1>18, <2>1, PostedAsSeen
    <2> QED
        BY <1>1, <1>2, <2>1, <2>2, SeeingLoads
<1>19. ASSUME NEW c \in Calls, NEW kind \in {"pay", "credit"},
              selectedInvoice # Null,
              Start(c, kind, "act", selectedInvoice.id, 0, TRUE),
              UserClicks, UNCHANGED <<fetches, astray>>
       PROVE Seeing'
    <2>1. /\ selectedInvoice.id \in 0..MaxInvoice
          /\ kind \in Kinds /\ "act" \in Places
        BY <1>1, <1>19, ScreenFields DEF Kinds, Places
    <2>2. Others(c) /\ calls'[c].pc = "act" /\ calls'[c].kind = kind
        BY <1>1, <1>2, <1>19, <2>1, StartsPlain DEF CallsInv, Start
    <2>3. Saw(c)'
        BY <2>2 DEF Saw
    <2> QED
        BY <1>1, <1>19, <2>2, <2>3, SeeingStarts
<1>20. ASSUME NEW c \in Calls, PayInvoice(c) \/ CreditInvoice(c) PROVE Seeing'
    BY <1>19, <1>20 DEF PayInvoice, CreditInvoice, IsOpen
<1>21. ASSUME NEW c \in Calls, ActReturns(c) PROVE Seeing'
    <2>1. /\ Busy(c) /\ Seeing /\ UNCHANGED <<fetches, astray>>
        BY <1>3, <1>21 DEF ActReturns, Busy
    <2>2. PICK id \in 0..MaxInvoice : LoadInvoices(c, id)
        BY <1>1, <1>21, OpensAnInvoice
    <2> QED
        BY <1>1, <2>1, <2>2, SeeingLoads
<1>22. ASSUME NEW c \in Calls, RequestFails(c) PROVE Seeing'
    <2>1. /\ Busy(c) /\ Ends(c) /\ Seeing /\ astray' = astray
        BY <1>3, <1>22 DEF RequestFails, Busy, AtServer
    <2> QED
        BY <1>1, <2>1, SeeingEnds
<1>23. ASSUME NEW c \in Calls, SaveReturns(c) PROVE Seeing'
    BY <1>1, <1>3, <1>23, SeeingSaved DEF SaveReturns
<1>24. CASE UNCHANGED vars
    BY <1>3, <1>24, SeeingStays DEF vars
<1> QED
    BY <1>4, <1>5, <1>6, <1>7, <1>8, <1>9, <1>10, <1>12, <1>13, <1>14, <1>15,
       <1>16, <1>17, <1>18, <1>20, <1>21, <1>22, <1>23, <1>24 DEF Next

LEMMA QuietInvariant == Spec => []QuietInv
<1>1. Init => QuietInv
    <2>1. ASSUME Init PROVE \A c \in Calls : calls[c].pc = "idle"
        BY <2>1, IdleCall DEF Init
    <2> QED
        BY <2>1 DEF Init, QuietInv, Seeing, Alone, Busy, Saw
<1> QED
    BY <1>1, QuietStep, TypedInvariant, PTL DEF Spec

(* Who lets the page come to rest before he clicks posts and deletes what  *)
(* was on the screen when he was asked, with what he had typed in, also    *)
(* when saving or posting fails and is tried again (app.js:594-617).       *)
THEOREM ConfirmedIsWhatIsDone == Spec => []ConfirmedIsDone
<1>1. QuietInv => ConfirmedIsDone
    BY DEF QuietInv, Seeing, ConfirmedIsDone
<1> QED
    BY <1>1, QuietInvariant, PTL

-----------------------------------------------------------------------------
(* With no request refused or lost, what is on the screen is the server's, *)
(* or a call is about to fetch it.                                         *)

Reopens(c) == calls[c].pc = "list" /\ ToOpen(c) \in Ids /\ Exists(ToOpen(c))

Synced ==
    \/ selectedInvoice = Null
    \/ selectedInvoice.id = 0
    \/ /\ selectedInvoice.status = invoice[selectedInvoice.id].status
       /\ \/ selectedInvoice.edited
          \/ /\ selectedInvoice.body = invoice[selectedInvoice.id].body
             /\ invoice[selectedInvoice.id].named => selectedInvoice.named

SyncInv == Synced \/ fetches # {} \/ \E c \in Calls : Reopens(c)

ListInv == invoices = Listed \/ \E c \in Calls : calls[c].pc = "list"

(* Bodies tell invoices apart, but for the credits.                        *)
Counts(k) == k \in Ids /\ Exists(k) /\ invoice[k].creditOf = 0

Apart ==
    /\ \A k \in Ids : Exists(k) => invoice[k].body # 0
    /\ \A i, k \in Ids :
          Counts(i) /\ Counts(k) /\ invoice[i].body = invoice[k].body => i = k

ScreenApart ==
    selectedInvoice # Null =>
        /\ selectedInvoice.id = 0 => selectedInvoice.creditOf = 0
        /\ selectedInvoice.id # 0 =>
              /\ invoice[selectedInvoice.id].status # "none"
              /\ invoice[selectedInvoice.id].creditOf = selectedInvoice.creditOf
        /\ selectedInvoice.creditOf = 0 =>
              \A k \in Ids :
                  Counts(k) /\ invoice[k].body = selectedInvoice.body
                      => k = selectedInvoice.id

BodiesInv == Apart /\ ScreenApart

CustomersInv == customers # "old" \/ customersStale

Quiet == haste = 0 /\ failures = 0

FreshInv == Quiet => SyncInv /\ ListInv /\ BodiesInv /\ CustomersInv

(* What is true of a call under way, if nothing went wrong.                *)
LEMMA Meanwhile ==
    ASSUME Seeing, SyncInv, ListInv, NEW c \in Calls, Busy(c),
           calls[c].pc # "list"
    PROVE  Synced /\ invoices = Listed /\ fetches = {}
<1>1. fetches = {} /\ \A d \in Calls : calls[d].pc = "list" => d = c
    BY ByItself DEF Seeing, Busy
<1> QED
    BY <1>1 DEF SyncInv, ListInv, Reopens

LEMMA BeforeClick ==
    ASSUME \A c \in Calls : calls[c].pc = "idle", fetches = {}, SyncInv, ListInv
    PROVE  Synced /\ invoices = Listed
BY DEF SyncInv, ListInv, Reopens

(* The screen stays, and so do the status and the content of its invoice.  *)
LEMMA SyncedStays ==
    ASSUME Synced, UNCHANGED <<selectedInvoice, invoice>> PROVE Synced'
BY DEF Synced

LEMMA QuietBefore ==
    ASSUME Counted, [Next]_vars, Quiet' PROVE Quiet
<1>1. haste \in Nat /\ failures \in Nat
    BY DEF Counted
<1>2. CASE (UserClicks \/ UNCHANGED haste) /\ (Fails \/ UNCHANGED failures)
    BY <1>1, <1>2 DEF UserClicks, Fails, Quiet
<1>3. CASE \/ CreateNewInvoice \/ EditInvoice \/ CloseNewDraft
           \/ \E i \in Ids : ClickInvoice(i) \/ InvoiceArrives(i)
           \/ ShowViewGotCustomers
           \/ UNCHANGED vars
    <2>1. (UserClicks \/ UNCHANGED haste) /\ (Fails \/ UNCHANGED failures)
        BY <1>3 DEF CreateNewInvoice, EditInvoice, CloseNewDraft,
                    ClickInvoice, InvoiceArrives, ShowViewGotCustomers, vars
    <2> QED
        BY <1>2, <2>1
<1>4. ASSUME NEW c \in Calls,
             \/ ShowInvoices(c) \/ SaveInvoice(c)
             \/ PostInvoice(c) \/ SettleInvoice(c) \/ DeleteInvoice(c)
             \/ AnonymizeCustomer(c) \/ PayInvoice(c) \/ CreditInvoice(c)
      PROVE  Quiet
    <2>1. UserClicks /\ UNCHANGED failures
        BY <1>4 DEF ShowInvoices, SaveInvoice, PostInvoice, SettleInvoice,
                    DeleteInvoice, Asks, AnonymizeCustomer, PayInvoice,
                    CreditInvoice
    <2> QED
        BY <1>2, <2>1
<1>5. ASSUME NEW c \in Calls,
             \/ ListArrives(c) \/ SaveReturns(c) \/ Declined(c) \/ Confirmed(c)
             \/ AnonymizeReturns(c) \/ CustomersArrive(c) \/ PostReturns(c)
             \/ DeleteReturns(c) \/ ActReturns(c) \/ RequestFails(c)
      PROVE  Quiet
    <2>1. UNCHANGED haste /\ (Fails \/ UNCHANGED failures)
        BY <1>5 DEF ListArrives, SaveReturns, Declined, Confirmed,
                    AnonymizeReturns, CustomersArrive, PostReturns,
                    DeleteReturns, ActReturns, RequestFails
    <2> QED
        BY <1>2, <2>1
<1> QED
    BY <1>3, <1>4, <1>5 DEF Next

LEMMA NoFailure ==
    ASSUME Counted, Quiet' PROVE ~Fails
<1>1. failures \in Nat
    BY DEF Counted
<1> QED
    BY <1>1 DEF Fails, Quiet

(* Steps that touch neither the server nor the screen.                     *)
LEMMA SameBodies ==
    ASSUME BodiesInv, UNCHANGED <<invoice, selectedInvoice>> PROVE BodiesInv'
BY DEF BodiesInv, Apart, ScreenApart, Counts, Exists

LEMMA SameListed == ASSUME invoice' = invoice PROVE Listed' = Listed
BY DEF Listed, Exists

LEMMA NothingMoves ==
    ASSUME SyncInv, ListInv, BodiesInv,
           UNCHANGED <<invoice, invoices, selectedInvoice, fetches, calls>>
    PROVE  SyncInv' /\ ListInv' /\ BodiesInv'
<1>1. BodiesInv'
    BY SameBodies
<1>2. ListInv'
    BY SameListed DEF ListInv
<1>3. SyncInv'
    BY SyncedStays DEF SyncInv, Reopens, ToOpen, Exists
<1> QED
    BY <1>1, <1>2, <1>3

(* A call that is not waiting for the list moves, and nothing else.        *)
LEMMA OnlyMoves ==
    ASSUME Synced, invoices = Listed, BodiesInv,
           UNCHANGED <<invoice, invoices, selectedInvoice>>
    PROVE  SyncInv' /\ ListInv' /\ BodiesInv'
BY SameBodies, SameListed, SyncedStays DEF SyncInv, ListInv

LEMMA OnlyLoads ==
    ASSUME Synced, BodiesInv, NEW c \in Calls, calls'[c].pc = "list",
           UNCHANGED <<invoice, selectedInvoice>>
    PROVE  SyncInv' /\ ListInv' /\ BodiesInv'
BY SameBodies, SyncedStays DEF SyncInv, ListInv

(* The server's step, as the bodies see it. *)
SameContent ==
    \A k \in Ids : /\ invoice'[k].body = invoice[k].body
                   /\ invoice'[k].creditOf = invoice[k].creditOf
                   /\ Exists(k)' => Exists(k)
                   /\ invoice[k].status # "none" => invoice'[k].status # "none"

NewContent(n, body, origin) ==
    /\ n \in Ids /\ invoice[n].status = "none"
    /\ invoice'[n].status = "utkast"
    /\ invoice'[n].body = body /\ invoice'[n].creditOf = origin
    /\ \A k \in Ids : k # n => invoice'[k] = invoice[k]

LEMMA DraftedContent ==
    ASSUME RowsInv, IdsLeft, NEW body, NEW named, NEW origin,
           Drafted(NextId, body, named, origin)
    PROVE  NewContent(NextId, body, origin)
<1>1. PICK n \in Ids : n = NextId /\ invoice[n].status = "none"
    BY NextIdIsFree
<1>2. invoice' = [invoice EXCEPT ![n] = [status |-> "utkast", body |-> body,
                                        named |-> named, creditOf |-> origin]]
    BY <1>1 DEF Drafted
<1>3. NewContent(n, body, origin)
    BY <1>1, <1>2 DEF NewContent, RowsInv
<1> QED
    BY <1>1, <1>3

LEMMA StatusContent ==
    ASSUME RowsInv, NEW i \in Ids, invoice[i].status \in {"utkast", "bokford"},
           NEW s \in {"bokford", "betald", "raderad"},
           invoice' = [invoice EXCEPT ![i].status = s]
    PROVE  /\ SameContent
           /\ s # "raderad" => \A k \in Ids : Exists(k) => Exists(k)'
<1>1. \A k \in Ids : /\ invoice'[k].body = invoice[k].body
                     /\ invoice'[k].creditOf = invoice[k].creditOf
                     /\ invoice'[k].status = IF k = i THEN s ELSE invoice[k].status
    BY DEF RowsInv, Rows
<1> QED
    BY <1>1 DEF SameContent, Exists

LEMMA SettledContent ==
    ASSUME RowsInv, NEW i \in Ids, invoice[i].status = "bokford",
           invoice' = [invoice EXCEPT ![i].status = "betald",
                                      ![invoice[i].creditOf].status = "betald"]
    PROVE  SameContent /\ \A k \in Ids : Exists(k) => Exists(k)'
<1>1. \A k \in Ids : /\ invoice'[k].creditOf = invoice[k].creditOf
                     /\ invoice'[k].body = invoice[k].body
                     /\ invoice'[k].status =
                           IF k = i \/ k = invoice[i].creditOf THEN "betald"
                           ELSE invoice[k].status
    BY BothSettled
<1>2. invoice[i].creditOf \in Ids
          => invoice[invoice[i].creditOf].status \in {"bokford", "betald"}
    BY InvoicePageAssumption DEF RowsInv, Ids
<1> SUFFICES ASSUME NEW k \in Ids
             PROVE  /\ invoice'[k].body = invoice[k].body
                    /\ invoice'[k].creditOf = invoice[k].creditOf
                    /\ Exists(k)' => Exists(k)
                    /\ Exists(k) => Exists(k)'
                    /\ invoice[k].status # "none" => invoice'[k].status # "none"
    BY DEF SameContent
<1>3. CASE k = i \/ k = invoice[i].creditOf
    <2>1. invoice[k].status \in {"bokford", "betald"}
        BY <1>2, <1>3
    <2>2. invoice'[k].status = "betald"
        BY <1>1, <1>3
    <2> QED
        BY <1>1, <2>1, <2>2 DEF Exists
<1>4. CASE k # i /\ k # invoice[i].creditOf
    BY <1>1, <1>4 DEF Exists
<1> QED
    BY <1>3, <1>4

LEMMA ActedContent ==
    ASSUME CallsInv, RowsInv, NEW c \in Calls, calls[c].pc \in {"post", "act"},
           calls[c].kind \in {"post", "pay", "settle", "delete"},
           Did(c, calls[c].id)
    PROVE  /\ SameContent
           /\ calls[c].kind # "delete" => \A k \in Ids : Exists(k) => Exists(k)'
<1>1. calls[c].pc = "post" => calls[c].kind = "post"
    BY CallFields DEF Asked
<1>2. calls[c].pc = "act" => calls[c].kind # "post"
    BY CallFields DEF Asked
<1>3. PICK i : i = calls[c].id
    OBVIOUS
<1>4. i \in Ids
    BY <1>1, <1>2, <1>3 DEF Did
<1>5. \/ /\ calls[c].kind = "post" /\ invoice[i].status = "utkast"
         /\ invoice' = [invoice EXCEPT ![i].status = "bokford"]
      \/ /\ calls[c].kind \in {"pay", "settle"} /\ invoice[i].status = "bokford"
         /\ invoice' = [invoice EXCEPT ![i].status = "betald"]
      \/ /\ calls[c].kind = "settle" /\ invoice[i].status = "bokford"
         /\ invoice' = [invoice EXCEPT ![i].status = "betald",
                                       ![invoice[i].creditOf].status = "betald"]
      \/ /\ calls[c].kind = "delete" /\ invoice[i].status = "utkast"
         /\ invoice' = [invoice EXCEPT ![i].status = "raderad"]
    BY <1>1, <1>2, <1>3 DEF Did
<1> QED
    BY <1>4, <1>5, StatusContent, SettledContent

LEMMA CreditedContent ==
    ASSUME CallsInv, RowsInv, NEW c \in Calls, calls[c].pc = "act",
           calls[c].kind = "credit", Did(c, calls[c].id)
    PROVE  /\ calls[c].id \in Ids /\ Exists(calls[c].id)
           /\ NewContent(NextId, invoice[calls[c].id].body, calls[c].id)
<1>1. PICK i : i = calls[c].id
    OBVIOUS
<1>2. /\ i \in Ids /\ invoice[i].status \in {"bokford", "betald"}
      /\ IdsLeft /\ Drafted(NextId, invoice[i].body, invoice[i].named, i)
    BY <1>1 DEF Did
<1> QED
    BY <1>1, <1>2, DraftedContent DEF Exists

LEMMA ApartKept ==
    ASSUME Apart, SameContent PROVE Apart'
BY DEF Apart, SameContent, Counts

LEMMA ScreenApartKept ==
    ASSUME RestInv, ScreenApart, SameContent, selectedInvoice' = selectedInvoice
    PROVE  ScreenApart'
<1>1. CASE selectedInvoice = Null
    BY <1>1 DEF ScreenApart
<1>2. CASE selectedInvoice # Null
    <2>1. selectedInvoice.id # 0 => selectedInvoice.id \in Ids
        BY <1>2, ScreenFields, InvoicePageAssumption DEF Ids
    <2> QED
        BY <1>2, <2>1 DEF ScreenApart, SameContent, Counts
<1> QED
    BY <1>1, <1>2

(* A credit does not count. *)
LEMMA CreditApart ==
    ASSUME RestInv, BodiesInv, NEW n, NEW i \in Ids, Exists(i),
           NewContent(n, invoice[i].body, i), selectedInvoice' = selectedInvoice
    PROVE  BodiesInv'
<1>1. \A k \in Ids : k # 0
    BY InvoicePageAssumption DEF Ids
<1>2. /\ n \in Ids /\ Exists(n)' /\ invoice'[n].creditOf = i
      /\ invoice'[n].body = invoice[i].body
      /\ invoice[n].status = "none" /\ invoice'[n].status = "utkast"
    BY DEF NewContent, Exists
<1>3. \A k \in Ids : k # n => invoice'[k] = invoice[k]
    BY DEF NewContent
<1>4. \A k \in Ids : Counts(k)' => Counts(k) /\ invoice'[k] = invoice[k]
    BY <1>1, <1>2, <1>3 DEF Counts, Exists
<1>5. Apart'
    <2>1. \A k \in Ids : Exists(k)' => invoice'[k].body # 0
        BY <1>2, <1>3 DEF BodiesInv, Apart, Exists
    <2> QED
        BY <2>1, <1>4 DEF BodiesInv, Apart
<1>6. ScreenApart'
    <2>1. CASE selectedInvoice = Null
        BY <2>1 DEF ScreenApart
    <2>2. CASE selectedInvoice # Null
        <3>1. selectedInvoice.id # 0 => selectedInvoice.id \in Ids
            BY <2>2, ScreenFields, InvoicePageAssumption DEF Ids
        <3>2. selectedInvoice.id # 0 =>
                 invoice'[selectedInvoice.id] = invoice[selectedInvoice.id]
            BY <1>2, <1>3, <2>2, <3>1 DEF BodiesInv, ScreenApart
        <3> QED
            BY <1>4, <2>2, <3>2 DEF BodiesInv, ScreenApart
    <2> QED
        BY <2>1, <2>2
<1> QED
    BY <1>5, <1>6 DEF BodiesInv

(* A save that has been answered, of a draft that has its id and of one    *)
(* that gets it.                                                           *)
LEMMA SavedAgain ==
    ASSUME CallsInv, RowsInv, RestInv, Seeing, Synced, BodiesInv,
           NEW c \in Calls, SaveReturns(c), calls[c].id # 0
    PROVE  BodiesInv' /\ Synced' /\ Listed' = Listed
<1>1. PICK i, b, n : i = calls[c].id /\ b = calls[c].body /\ n = calls[c].named
    OBVIOUS
<1>2. /\ i \in Ids /\ invoice[i].status = "utkast"
      /\ invoice' = [invoice EXCEPT ![i].body = b, ![i].named = n]
      /\ calls[c].pc = "save"
    BY <1>1, SavedBody
<1>3. /\ selectedInvoice # Null /\ selectedInvoice.id = i
      /\ selectedInvoice.body = b /\ b # 0 /\ selectedInvoice.named = n
    BY <1>1, <1>2 DEF Seeing, Saw, ForScreen
<1>4. selectedInvoice' = selectedInvoice
    BY AnsweredScreen
<1>5. /\ \A k \in Ids : /\ invoice'[k].status = invoice[k].status
                        /\ invoice'[k].creditOf = invoice[k].creditOf
                        /\ k # i => invoice'[k].body = invoice[k].body
      /\ invoice'[i].body = b /\ invoice'[i].named = n
    BY <1>2 DEF RowsInv, Rows
<1>6. \A k \in Ids : (Exists(k)' <=> Exists(k)) /\ (Counts(k)' <=> Counts(k))
    BY <1>5 DEF Exists, Counts
<1>7. /\ Counts(i) => \A k \in Ids : Counts(k) /\ invoice[k].body = b => k = i
      /\ selectedInvoice.creditOf = invoice[i].creditOf
      /\ selectedInvoice.creditOf = 0 =>
            \A k \in Ids : Counts(k) /\ invoice[k].body = b => k = i
    <2>1. i # 0
        BY <1>2, InvoicePageAssumption DEF Ids
    <2> QED
        BY <1>3, <2>1 DEF BodiesInv, ScreenApart, Counts
<1>8. Apart'
    <2>1. \A k \in Ids : Exists(k)' => invoice'[k].body # 0
        BY <1>3, <1>5, <1>6 DEF BodiesInv, Apart
    <2>2. ASSUME NEW j \in Ids, NEW k \in Ids, Counts(j)', Counts(k)',
                 invoice'[j].body = invoice'[k].body
          PROVE  j = k
        <3>1. CASE j = i
            BY <1>5, <1>6, <1>7, <2>2, <3>1
        <3>2. CASE k = i
            BY <1>5, <1>6, <1>7, <2>2, <3>2
        <3>3. CASE j # i /\ k # i
            BY <1>5, <1>6, <2>2, <3>3 DEF BodiesInv, Apart
        <3> QED
            BY <3>1, <3>2, <3>3
    <2> QED
        BY <2>1, <2>2 DEF Apart
<1>9. ScreenApart'
    <2>1. i # 0
        BY <1>2, InvoicePageAssumption DEF Ids
    <2>2. invoice'[i].status # "none"
        BY <1>2, <1>5
    <2>3. selectedInvoice.creditOf = 0 =>
             \A k \in Ids : Counts(k)' /\ invoice'[k].body = b => k = i
        BY <1>5, <1>6, <1>7
    <2> QED
        BY <1>2, <1>3, <1>4, <1>5, <1>7, <2>1, <2>2, <2>3 DEF ScreenApart
<1>10. Synced'
    <2>1. i # 0
        BY <1>2, InvoicePageAssumption DEF Ids
    <2>2. selectedInvoice.status = invoice[i].status
        BY <1>3, <2>1 DEF Synced
    <2> QED
        BY <1>2, <1>3, <1>4, <1>5, <2>2 DEF Synced
<1>11. Listed' = Listed
    BY <1>5, <1>6 DEF Listed
<1> QED
    BY <1>8, <1>9, <1>10, <1>11 DEF BodiesInv

LEMMA SavedFirst ==
    ASSUME CallsInv, RowsInv, RestInv, Seeing, BodiesInv,
           NEW c \in Calls, SaveReturns(c), calls[c].id = 0
    PROVE  /\ BodiesInv' /\ calls'[c].pc = "list"
           /\ Synced' \/ Reopens(c)'
<1>1. PICK n, b : n = NextId /\ b = calls[c].body
    OBVIOUS
<1>2. calls[c].pc = "save" /\ IdsLeft /\ Drafted(n, b, calls[c].named, 0)
    BY <1>1, SavedBody
<1>3. NewContent(n, b, 0)
    BY <1>1, <1>2, DraftedContent
<1>4. /\ selectedInvoice # Null /\ selectedInvoice.id = 0
      /\ selectedInvoice.body = b /\ b # 0
      /\ calls[c].kind # "post"
    BY <1>1, <1>2 DEF Seeing, Saw, ForScreen
<1>5. PICK s \in Screens : s = selectedInvoice
    BY <1>4, ScreenFields
<1>6. selectedInvoice' = [s EXCEPT !.id = n]
    BY <1>1, <1>4, <1>5 DEF SaveReturns, SaveAnswered
<1>7. n \in Ids /\ n # 0 /\ n \in 0..MaxInvoice
    BY <1>3, InvoicePageAssumption DEF NewContent, Ids
<1>8. [s EXCEPT !.id = n] \in Screens
    BY <1>7 DEF Screens
<1>9. /\ selectedInvoice'.id = n /\ selectedInvoice'.body = b
      /\ selectedInvoice'.creditOf = selectedInvoice.creditOf
    BY <1>4, <1>5, <1>6 DEF Screens
<1>10. selectedInvoice.creditOf = 0 /\ \A k \in Ids :
              Counts(k) => invoice[k].body # b
    <2>1. \A k \in Ids : k # 0
        BY InvoicePageAssumption DEF Ids
    <2> QED
        BY <1>4, <2>1 DEF BodiesInv, ScreenApart
<1>11. /\ invoice'[n].status = "utkast" /\ invoice'[n].body = b
       /\ invoice'[n].creditOf = 0 /\ invoice[n].status = "none"
       /\ \A k \in Ids : k # n => invoice'[k] = invoice[k]
    BY <1>3 DEF NewContent
<1>12. \A k \in Ids : k # n => /\ Counts(k)' <=> Counts(k)
                               /\ Exists(k)' <=> Exists(k)
    BY <1>11 DEF Counts, Exists
<1>13. Apart'
    <2>1. \A k \in Ids : Exists(k)' => invoice'[k].body # 0
        BY <1>4, <1>11, <1>12 DEF BodiesInv, Apart
    <2>2. ASSUME NEW j \in Ids, NEW k \in Ids, Counts(j)', Counts(k)',
                 invoice'[j].body = invoice'[k].body
          PROVE  j = k
        <3>1. CASE j = n \/ k = n
            BY <1>10, <1>11, <1>12, <2>2, <3>1
        <3>2. CASE j # n /\ k # n
            BY <1>11, <1>12, <2>2, <3>2 DEF BodiesInv, Apart
        <3> QED
            BY <3>1, <3>2
    <2> QED
        BY <2>1, <2>2 DEF Apart
<1>14. ScreenApart'
    <2>1. \A k \in Ids : Counts(k)' /\ invoice'[k].body = b => k = n
        BY <1>10, <1>11, <1>12
    <2> QED
        BY <1>7, <1>9, <1>10, <1>11, <2>1 DEF ScreenApart
<1>15. calls'[c].pc = "list" /\ calls'[c].kind = "save"
    BY <1>4, AfterAnswer
<1>16. CASE selectedInvoice' # Null
    <2>1. ToOpen(c)' = n
        BY <1>9, <1>15, <1>16 DEF ToOpen
    <2>2. Exists(n)'
        BY <1>11 DEF Exists
    <2>3. Reopens(c)'
        BY <1>7, <1>15, <2>1, <2>2 DEF Reopens
    <2> QED
        BY <1>13, <1>14, <1>15, <2>3 DEF BodiesInv
<1> QED
    BY <1>13, <1>14, <1>15, <1>16 DEF BodiesInv, Synced

LEMMA FreshSaved ==
    ASSUME Typed, Seeing, SyncInv, ListInv, BodiesInv,
           NEW c \in Calls, SaveReturns(c)
    PROVE  SyncInv' /\ ListInv' /\ BodiesInv'
<1>1. CallsInv /\ RowsInv /\ RestInv
    BY DEF Typed
<1>2. calls[c].pc = "save" /\ Busy(c)
    BY DEF SaveReturns, Busy
<1>3. Synced /\ invoices = Listed
    BY <1>2, Meanwhile
<1>4. CASE calls[c].id = 0
    BY <1>1, <1>4, SavedFirst DEF SyncInv, ListInv
<1>5. CASE calls[c].id # 0
    <2>1. BodiesInv' /\ Synced' /\ Listed' = Listed
        BY <1>1, <1>3, <1>5, SavedAgain
    <2>2. selectedInvoice # Null
        BY <1>2 DEF Seeing, Saw, ForScreen
    <2>3. calls'[c].pc = "list" \/ invoices' = invoices
        BY <1>1, <2>2, AfterAnswer
    <2> QED
        BY <1>3, <2>1, <2>3 DEF SyncInv, ListInv
<1> QED
    BY <1>4, <1>5

(* An invoice that is on the screen as the server has it exists.           *)
LEMMA OpenExists ==
    ASSUME RestInv, Synced, ScreenApart, selectedInvoice # Null,
           selectedInvoice.id # 0
    PROVE  selectedInvoice.id \in Ids /\ Exists(selectedInvoice.id)
<1>1. selectedInvoice.id \in Ids
    BY ScreenFields, InvoicePageAssumption DEF Ids
<1> QED
    BY <1>1, ScreenFields DEF Synced, Exists

(* Posted or paid: the call opens the invoice again.                       *)
LEMMA FreshActed ==
    ASSUME Typed, Synced, BodiesInv, NEW c \in Calls, Did(c, calls[c].id),
           calls[c].pc \in {"post", "act"},
           calls[c].kind \in {"post", "pay", "settle"},
           calls'[c].pc = "list", calls'[c].kind = calls[c].kind,
           calls[c].kind = "settle" => calls'[c].id = calls[c].id,
           selectedInvoice' = selectedInvoice
    PROVE  SyncInv' /\ ListInv' /\ BodiesInv'
<1>1. CallsInv /\ RowsInv /\ RestInv
    BY DEF Typed
<1>2. SameContent /\ \A k \in Ids : Exists(k) => Exists(k)'
    BY <1>1, ActedContent
<1>3. BodiesInv'
    BY <1>1, <1>2, ApartKept, ScreenApartKept DEF BodiesInv
<1>4. ListInv'
    BY DEF ListInv
<1>5. SyncInv'
    <2>1. CASE selectedInvoice = Null \/ selectedInvoice.id = 0
        BY <2>1 DEF SyncInv, Synced
    <2>2. CASE /\ selectedInvoice # Null /\ selectedInvoice.id # 0
               /\ calls[c].kind # "settle"
        <3>1. selectedInvoice.id \in Ids /\ Exists(selectedInvoice.id)
            BY <1>1, <2>2, OpenExists DEF BodiesInv
        <3>2. ToOpen(c)' = selectedInvoice.id
            BY <2>2 DEF ToOpen
        <3>3. Reopens(c)'
            BY <1>2, <3>1, <3>2 DEF Reopens
        <3> QED
            BY <3>3 DEF SyncInv
    <2>3. CASE calls[c].kind = "settle"
        <3>1. calls[c].id \in Ids /\ Exists(calls[c].id)
            BY <1>1, <2>3, CallFields DEF Did, Exists, Asked
        <3>2. ToOpen(c)' = calls[c].id
            BY <2>3 DEF ToOpen
        <3>3. Reopens(c)'
            BY <1>2, <3>1, <3>2 DEF Reopens
        <3> QED
            BY <3>3 DEF SyncInv
    <2> QED
        BY <2>1, <2>2, <2>3
<1> QED
    BY <1>3, <1>4, <1>5

LEMMA FreshCredited ==
    ASSUME Typed, BodiesInv, NEW c \in Calls, Did(c, calls[c].id),
           calls[c].pc = "act", calls[c].kind = "credit",
           calls'[c].pc = "list", calls'[c].kind = "credit",
           calls'[c].id = NextId, selectedInvoice' = selectedInvoice
    PROVE  SyncInv' /\ ListInv' /\ BodiesInv'
<1>1. CallsInv /\ RowsInv /\ RestInv
    BY DEF Typed
<1>2. /\ calls[c].id \in Ids /\ Exists(calls[c].id)
      /\ NewContent(NextId, invoice[calls[c].id].body, calls[c].id)
    BY <1>1, CreditedContent
<1>3. BodiesInv'
    BY <1>1, <1>2, CreditApart
<1>4. ListInv'
    BY DEF ListInv
<1>5. PICK n : n = NextId
    OBVIOUS
<1>6. n \in Ids /\ Exists(n)'
    BY <1>2, <1>5 DEF NewContent, Exists
<1>7. ToOpen(c)' = n
    BY <1>5 DEF ToOpen
<1>8. Reopens(c)'
    BY <1>6, <1>7 DEF Reopens
<1> QED
    BY <1>3, <1>4, <1>8 DEF SyncInv

LEMMA FreshDeleted ==
    ASSUME Typed, BodiesInv, NEW c \in Calls, Did(c, calls[c].id),
           calls[c].pc = "act", calls[c].kind = "delete",
           calls'[c].pc = "list", selectedInvoice' = Null
    PROVE  SyncInv' /\ ListInv' /\ BodiesInv'
<1>1. SameContent
    BY ActedContent DEF Typed
<1>2. BodiesInv'
    BY <1>1, ApartKept DEF BodiesInv, ScreenApart
<1> QED
    BY <1>2 DEF SyncInv, Synced, ListInv

(* Names are erased from drafts: one of them may be on the screen.         *)
LEMMA FreshErased ==
    ASSUME Typed, Synced, invoices = Listed, BodiesInv, Erases,
           UNCHANGED <<invoices, selectedInvoice>>
    PROVE  SyncInv' /\ ListInv' /\ BodiesInv'
<1>1. RestInv
    BY DEF Typed
<1>2. SameContent /\ \A k \in Ids : Exists(k)' <=> Exists(k)
    BY DEF Erases, SameContent, Exists
<1>3. BodiesInv'
    BY <1>1, <1>2, ApartKept, ScreenApartKept DEF BodiesInv
<1>4. ListInv'
    BY <1>2 DEF ListInv, Listed, Erases
<1>5. Synced'
    <2>1. CASE selectedInvoice = Null \/ selectedInvoice.id = 0
        BY <2>1 DEF Synced
    <2>2. CASE selectedInvoice # Null /\ selectedInvoice.id # 0
        <3>1. selectedInvoice.id \in Ids
            BY <1>1, <2>2, ScreenFields, InvoicePageAssumption DEF Ids
        <3> QED
            BY <2>2, <3>1 DEF Synced, Erases
    <2> QED
        BY <2>1, <2>2
<1> QED
    BY <1>3, <1>4, <1>5 DEF SyncInv

(* What the user does to the screen himself.                               *)
LEMMA FreshTyped ==
    ASSUME Typed, Synced, invoices = Listed, BodiesInv,
           CreateNewInvoice \/ EditInvoice \/ CloseNewDraft
    PROVE  SyncInv' /\ ListInv' /\ BodiesInv'
<1>1. UNCHANGED <<invoice, invoices, calls>>
    BY DEF CreateNewInvoice, EditInvoice, CloseNewDraft
<1>2. ListInv'
    BY <1>1, SameListed DEF ListInv
<1>3. /\ \A k \in Ids : (Exists(k)' <=> Exists(k)) /\ (Counts(k)' <=> Counts(k))
      /\ Apart'
    BY <1>1 DEF Exists, Counts, BodiesInv, Apart
<1>4. CASE CreateNewInvoice
    <2>1. /\ selectedInvoice'.id = 0 /\ selectedInvoice'.creditOf = 0
          /\ selectedInvoice'.body = 0
        BY <1>4 DEF CreateNewInvoice
    <2>2. \A k \in Ids : Counts(k)' => invoice'[k].body # 0
        BY <1>3 DEF Apart, Counts
    <2> QED
        BY <1>2, <1>3, <2>1, <2>2 DEF BodiesInv, ScreenApart, SyncInv, Synced
<1>5. CASE EditInvoice
    <2>1. PICK b \in {0} \cup (1..MaxBody \ UsedBodies),
               n \in {TRUE, selectedInvoice.named} :
              selectedInvoice' = [selectedInvoice EXCEPT !.body = b, !.named = n,
                                                         !.edited = TRUE]
        BY <1>5 DEF EditInvoice
    <2>2. PICK s \in Screens : s = selectedInvoice
        BY <1>5, ScreenFields DEF EditInvoice, Typed
    <2>3. /\ selectedInvoice'.id = selectedInvoice.id
          /\ selectedInvoice'.status = selectedInvoice.status
          /\ selectedInvoice'.creditOf = selectedInvoice.creditOf
          /\ selectedInvoice'.body = b /\ selectedInvoice'.edited = TRUE
        BY <2>1, <2>2 DEF Screens
    <2>4. \A k \in Ids : Counts(k)' => invoice'[k].body # b
        <3>1. CASE b = 0
            BY <1>3, <3>1 DEF Apart, Counts
        <3>2. CASE b \notin UsedBodies
            BY <1>1, <3>2 DEF UsedBodies
        <3> QED
            BY <3>1, <3>2
    <2>5. selectedInvoice # Null
        BY <1>5 DEF EditInvoice
    <2>6. ScreenApart'
        BY <1>1, <2>3, <2>4, <2>5 DEF BodiesInv, ScreenApart
    <2>7. Synced'
        BY <1>1, <2>3, <2>5 DEF Synced
    <2> QED
        BY <1>2, <1>3, <2>6, <2>7 DEF BodiesInv, SyncInv
<1>6. CASE CloseNewDraft
    BY <1>2, <1>3, <1>6 DEF CloseNewDraft, BodiesInv, ScreenApart, SyncInv, Synced
<1> QED
    BY <1>4, <1>5, <1>6

LEMMA FreshArrived ==
    ASSUME Typed, ListInv, BodiesInv, NEW i \in Ids, InvoiceArrives(i), ~Fails
    PROVE  SyncInv' /\ ListInv' /\ BodiesInv'
<1>1. /\ Exists(i)
      /\ selectedInvoice' = [id |-> i, status |-> invoice[i].status,
                             body |-> invoice[i].body,
                             named |-> invoice[i].named,
                             creditOf |-> invoice[i].creditOf, edited |-> FALSE]
      /\ UNCHANGED <<invoice, invoices, calls>>
    BY DEF InvoiceArrives
<1>2. /\ selectedInvoice'.id = i /\ selectedInvoice'.body = invoice[i].body
      /\ selectedInvoice'.status = invoice[i].status
      /\ selectedInvoice'.named = invoice[i].named
      /\ selectedInvoice'.creditOf = invoice[i].creditOf
    BY <1>1
<1>3. i # 0
    BY InvoicePageAssumption DEF Ids
<1>4. ListInv'
    BY <1>1, SameListed DEF ListInv
<1>5. Synced'
    BY <1>1, <1>2 DEF Synced
<1>6. \A k \in Ids : (Exists(k)' <=> Exists(k)) /\ (Counts(k)' <=> Counts(k))
    BY <1>1 DEF Exists, Counts
<1>7. Apart'
    BY <1>1, <1>6 DEF BodiesInv, Apart
<1>8. ScreenApart'
    <2>1. invoice[i].creditOf = 0 => Counts(i)
        BY <1>1 DEF Counts
    <2>2. invoice[i].status # "none"
        BY <1>1 DEF Exists
    <2> QED
        BY <1>1, <1>2, <1>3, <1>6, <2>1, <2>2 DEF BodiesInv, Apart, ScreenApart
<1> QED
    BY <1>4, <1>5, <1>7, <1>8 DEF BodiesInv, SyncInv

LEMMA FreshListed ==
    ASSUME Typed, Seeing, SyncInv, BodiesInv, NEW c \in Calls, ListArrives(c),
           ~Fails
    PROVE  SyncInv' /\ ListInv' /\ BodiesInv'
<1>1. /\ calls[c].pc = "list" /\ invoices' = Listed
      /\ UNCHANGED <<invoice, selectedInvoice>>
      /\ IF ToOpen(c) \in Ids /\ Exists(ToOpen(c))
         THEN SelectInvoice(ToOpen(c)) ELSE UNCHANGED <<fetches, wanted>>
    BY DEF ListArrives
<1>2. fetches = {} /\ \A d \in Calls : d # c => ~Busy(d)
    BY <1>1, ByItself DEF Seeing, Busy
<1>3. BodiesInv' /\ ListInv'
    BY <1>1, SameBodies, SameListed DEF ListInv
<1>4. CASE Reopens(c)
    <2>1. fetches' # {}
        BY <1>1, <1>4 DEF Reopens, SelectInvoice
    <2> QED
        BY <1>3, <2>1 DEF SyncInv
<1>5. CASE Synced
    BY <1>1, <1>3, <1>5, SyncedStays DEF SyncInv
<1> QED
    BY <1>2, <1>4, <1>5 DEF SyncInv, Reopens, Busy

(* The page knows its customers, or that it does not.                      *)
LEMMA CustomersStep ==
    ASSUME CustomersInv, Seeing, [Next]_vars, ~Fails PROVE CustomersInv'
<1>1. CASE UNCHANGED <<customers, customersStale>>
    BY <1>1 DEF CustomersInv
<1>2. CASE ShowViewGotCustomers
    BY <1>2 DEF ShowViewGotCustomers, CustomersInv
<1>3. ASSUME NEW c \in Calls, SaveReturns(c) PROVE CustomersInv'
    <2>1. calls[c].pc = "save" /\ SaveAnswered(c)
        BY <1>3 DEF SaveReturns
    <2>2. selectedInvoice # Null
        BY <2>1 DEF Seeing, Saw, ForScreen
    <2>3. customersStale' = TRUE
        BY <2>1, <2>2 DEF SaveAnswered
    <2> QED
        BY <2>3 DEF CustomersInv
<1>4. ASSUME NEW c \in Calls, AnonymizeReturns(c) PROVE CustomersInv'
    BY <1>4 DEF AnonymizeReturns, CustomersInv
<1>5. ASSUME NEW c \in Calls, CustomersArrive(c) PROVE CustomersInv'
    BY <1>5 DEF CustomersArrive, CustomersInv
<1>6. ASSUME NEW c \in Calls, RequestFails(c) PROVE CustomersInv'
    BY <1>1, <1>6 DEF RequestFails
<1>7. CASE \/ CreateNewInvoice \/ EditInvoice \/ CloseNewDraft
           \/ \E i \in Ids : ClickInvoice(i) \/ InvoiceArrives(i)
           \/ UNCHANGED vars
    BY <1>1, <1>7 DEF CreateNewInvoice, EditInvoice, CloseNewDraft,
                      ClickInvoice, InvoiceArrives, vars, customerVars
<1>8. ASSUME NEW c \in Calls,
             \/ ShowInvoices(c) \/ SaveInvoice(c) \/ ListArrives(c)
             \/ PostInvoice(c) \/ SettleInvoice(c) \/ DeleteInvoice(c)
             \/ Declined(c) \/ Confirmed(c) \/ AnonymizeCustomer(c)
             \/ PayInvoice(c) \/ CreditInvoice(c)
             \/ PostReturns(c) \/ DeleteReturns(c)
      PROVE  CustomersInv'
    <2>1. UNCHANGED <<customers, customersStale>>
        BY <1>8 DEF ShowInvoices, SaveInvoice, ListArrives, PostInvoice,
                    SettleInvoice, DeleteInvoice, Asks, Declined, Confirmed,
                    AnonymizeCustomer, PayInvoice, CreditInvoice, PostReturns,
                    DeleteReturns, customerVars
    <2> QED
        BY <1>1, <2>1
<1>9. ASSUME NEW c \in Calls, ActReturns(c) PROVE CustomersInv'
    <2>1. /\ calls[c].pc # "save" /\ calls[c].kind # "anonymize"
          /\ StoresCustomer(c) /\ customersStale' = customersStale
        BY <1>9 DEF ActReturns
    <2>2. customers' = customers \/ customers' = "rewritten"
        BY <2>1 DEF StoresCustomer
    <2> QED
        BY <2>1, <2>2 DEF CustomersInv
<1> QED
    BY <1>2, <1>3, <1>4, <1>5, <1>6, <1>7, <1>8, <1>9 DEF Next

LEMMA FreshStep ==
    ASSUME Typed, QuietInv, FreshInv, [Next]_vars PROVE FreshInv'
<1> SUFFICES ASSUME Quiet'
             PROVE  SyncInv' /\ ListInv' /\ BodiesInv' /\ CustomersInv'
    BY DEF FreshInv
<1>1. CallsInv /\ RowsInv /\ RestInv /\ Counted
    BY RestParts DEF Typed
<1>2. Quiet /\ ~Fails /\ haste' = 0
    BY <1>1, QuietBefore, NoFailure DEF Quiet
<1>3. SyncInv /\ ListInv /\ BodiesInv /\ CustomersInv /\ Seeing
    BY <1>2 DEF FreshInv, QuietInv, Quiet
<1>4. CustomersInv'
    BY <1>2, <1>3, CustomersStep
<1>5. UserClicks => Synced /\ invoices = Listed
    BY <1>1, <1>2, <1>3, Waited, BeforeClick
<1> DEFINE Goal == SyncInv' /\ ListInv' /\ BodiesInv'
<1>6. CASE CreateNewInvoice \/ EditInvoice \/ CloseNewDraft
    <2>1. UserClicks
        BY <1>6 DEF CreateNewInvoice, EditInvoice, CloseNewDraft
    <2> QED
        BY <1>3, <1>4, <1>5, <1>6, <2>1, FreshTyped
<1>7. ASSUME NEW i \in Ids, ClickInvoice(i) PROVE Goal
    <2>1. UserClicks /\ UNCHANGED <<invoice, invoices, selectedInvoice>>
        BY <1>7 DEF ClickInvoice
    <2> QED
        BY <1>3, <1>5, <2>1, OnlyMoves
<1>8. ASSUME NEW i \in Ids, InvoiceArrives(i) PROVE Goal
    BY <1>2, <1>3, <1>8, FreshArrived
<1>9. CASE ShowViewGotCustomers \/ UNCHANGED vars
    <2>1. UNCHANGED <<invoice, invoices, selectedInvoice, fetches, calls>>
        BY <1>9 DEF ShowViewGotCustomers, vars
    <2> QED
        BY <1>3, <1>4, <2>1, NothingMoves
<1>10. ASSUME NEW c \in Calls, ShowInvoices(c) PROVE Goal
    <2>1. /\ UserClicks /\ UNCHANGED <<invoice, selectedInvoice>>
          /\ Start(c, "show", "list", 0, 0, TRUE)
        BY <1>10 DEF ShowInvoices
    <2>2. 0 \in 0..MaxInvoice /\ 0 \in 0..MaxBody
        BY InvoicePageAssumption
    <2>3. calls'[c].pc = "list"
        BY <1>1, <2>1, <2>2, StartsAt DEF CallsInv, Kinds, Places
    <2> QED
        BY <1>3, <1>5, <2>1, <2>3, OnlyLoads
<1>11. ASSUME NEW c \in Calls, ListArrives(c) PROVE Goal
    BY <1>2, <1>3, <1>11, FreshListed
<1>12. ASSUME NEW c \in Calls,
              \/ SaveInvoice(c) \/ PostInvoice(c) \/ SettleInvoice(c)
              \/ DeleteInvoice(c) \/ AnonymizeCustomer(c)
              \/ PayInvoice(c) \/ CreditInvoice(c)
       PROVE Goal
    <2>1. UserClicks /\ UNCHANGED <<invoice, invoices, selectedInvoice>>
        BY <1>12 DEF SaveInvoice, PostInvoice, SettleInvoice, DeleteInvoice,
                     Asks, AnonymizeCustomer, PayInvoice, CreditInvoice
    <2> QED
        BY <1>3, <1>5, <2>1, OnlyMoves
<1>13. ASSUME NEW c \in Calls, Busy(c), calls[c].pc # "list"
       PROVE  Synced /\ invoices = Listed
    BY <1>3, <1>13, Meanwhile
<1>14. ASSUME NEW c \in Calls, Declined(c) \/ Confirmed(c) PROVE Goal
    <2>1. modal = c /\ UNCHANGED <<invoice, invoices, selectedInvoice>>
        BY <1>14 DEF Declined, Confirmed
    <2>2. calls[c].pc = "ask"
        BY <1>1, <2>1 DEF CallsInv
    <2> QED
        BY <1>3, <1>13, <2>1, <2>2, OnlyMoves DEF Busy
<1>15. ASSUME NEW c \in Calls, AnonymizeReturns(c) PROVE Goal
    <2>1. /\ calls[c].pc = "act" /\ calls[c].kind = "anonymize" /\ Serves(c)
          /\ UNCHANGED <<invoices, selectedInvoice>>
        BY <1>15 DEF AnonymizeReturns
    <2>2. May(c) /\ calls[c].pc \in AtServer
        BY <2>1 DEF May, AtServer
    <2>3. Erases
        BY <1>1, <2>1, <2>2, ServesCases DEF Did
    <2> QED
        BY <1>3, <1>13, <2>1, <2>3, FreshErased DEF Busy
<1>16. ASSUME NEW c \in Calls, RequestFails(c) PROVE Goal
    <2>1. /\ calls[c].pc \in AtServer
          /\ UNCHANGED <<invoice, invoices, selectedInvoice>>
        BY <1>2, <1>16 DEF RequestFails
    <2> QED
        BY <1>3, <1>13, <2>1, OnlyMoves DEF Busy, AtServer
<1>17. ASSUME NEW c \in Calls, CustomersArrive(c) PROVE Goal
    <2>1. /\ calls[c].pc = "customers" /\ LoadInvoices(c, 0)
          /\ UNCHANGED <<invoice, selectedInvoice>>
        BY <1>17 DEF CustomersArrive
    <2>2. calls'[c].pc = "list"
        BY <1>1, <2>1, Loads, InvoicePageAssumption
    <2> QED
        BY <1>3, <1>13, <2>1, <2>2, OnlyLoads DEF Busy
<1>18. ASSUME NEW c \in Calls, SaveReturns(c) PROVE Goal
    BY <1>3, <1>18, FreshSaved
<1>19. ASSUME NEW c \in Calls, calls[c].pc \in AtServer, May(c), Serves(c)
       PROVE  Did(c, calls[c].id) /\ Synced
    BY <1>1, <1>13, <1>19, ServesCases DEF Busy, AtServer
<1>20. ASSUME NEW c \in Calls, PostReturns(c) PROVE Goal
    <2>1. /\ calls[c].pc = "post" /\ May(c) /\ Serves(c) /\ Goes(c, "list", 0)
          /\ selectedInvoice' = selectedInvoice
        BY <1>20 DEF PostReturns, LoadInvoices
    <2>2. calls[c].kind = "post"
        BY <1>1, <2>1, CallFields DEF Asked
    <2>3. calls'[c].pc = "list" /\ calls'[c].kind = "post"
        BY <1>1, <2>1, <2>2, GoesTo, InvoicePageAssumption DEF CallsInv, Places
    <2>4. Did(c, calls[c].id) /\ Synced
        BY <1>19, <2>1 DEF AtServer
    <2> QED
        BY <1>3, <2>1, <2>2, <2>3, <2>4, FreshActed
<1>21. ASSUME NEW c \in Calls, DeleteReturns(c) PROVE Goal
    <2>1. /\ calls[c].pc = "act" /\ calls[c].kind = "delete"
          /\ May(c) /\ Serves(c) /\ LoadInvoices(c, 0)
          /\ selectedInvoice' = Null
        BY <1>21 DEF DeleteReturns
    <2>2. calls'[c].pc = "list"
        BY <1>1, <2>1, Loads, InvoicePageAssumption
    <2>3. Did(c, calls[c].id)
        BY <1>19, <2>1 DEF AtServer
    <2> QED
        BY <1>3, <2>1, <2>2, <2>3, FreshDeleted
<1>22. ASSUME NEW c \in Calls, ActReturns(c) PROVE Goal
    <2>1. /\ calls[c].pc = "act" /\ calls[c].kind \in {"pay", "credit", "settle"}
          /\ May(c) /\ Serves(c)
          /\ selectedInvoice' = selectedInvoice
        BY <1>22 DEF ActReturns
    <2>2. PICK id \in 0..MaxInvoice : LoadInvoices(c, id) /\ id = OpensNext(c)
        BY <1>1, <1>22, OpensAnInvoice
    <2>3. /\ calls'[c].pc = "list" /\ calls'[c].kind = calls[c].kind
          /\ calls'[c].id = OpensNext(c)
        BY <1>1, <2>2, Loads
    <2>4. Did(c, calls[c].id) /\ Synced
        BY <1>19, <2>1 DEF AtServer
    <2>5. CASE calls[c].kind = "credit"
        BY <1>3, <2>1, <2>3, <2>4, <2>5, FreshCredited DEF OpensNext
    <2>6. CASE calls[c].kind # "credit"
        BY <1>3, <2>1, <2>3, <2>4, <2>6, FreshActed DEF OpensNext
    <2> QED
        BY <2>5, <2>6
<1> QED
    BY <1>4, <1>6, <1>7, <1>8, <1>9, <1>10, <1>11, <1>12, <1>14, <1>15, <1>16,
       <1>17, <1>18, <1>20, <1>21, <1>22 DEF Next

LEMMA FreshInvariant == Spec => [](Typed /\ FreshInv /\ QuietInv)
<1>1. Init => FreshInv
    <2> SUFFICES ASSUME Init
                 PROVE  SyncInv /\ ListInv /\ BodiesInv /\ CustomersInv
        BY DEF FreshInv
    <2>1. SyncInv /\ CustomersInv
        BY DEF Init, SyncInv, Synced, CustomersInv
    <2>2. \A k \in Ids : ~Exists(k)
        BY DEF Init, Exists, NoInvoice
    <2>3. ListInv
        BY <2>2 DEF Init, ListInv, Listed
    <2>4. BodiesInv
        BY <2>2 DEF Init, BodiesInv, Apart, ScreenApart, Counts
    <2> QED
        BY <2>1, <2>3, <2>4
<1> QED
    BY <1>1, FreshStep, TypedInvariant, QuietInvariant, PTL DEF Spec

LEMMA Rest ==
    ASSUME FreshInv, AtRest
    PROVE  Synced /\ invoices = Listed /\ BodiesInv /\ CustomersInv
<1>1. /\ Quiet /\ fetches = {} /\ \A c \in Calls : calls[c].pc = "idle"
    BY DEF AtRest, IsBusy, Quiet
<1> QED
    BY <1>1, BeforeClick DEF FreshInv

(* At rest the page shows the invoices as the server has them, the open one*)
(* and the list (app.js:404-417, 604-607), but for an erased name.         *)
THEOREM RestingPageIsServer == Spec => []PageIsServer
<1>1. FreshInv => PageIsServer
    BY Rest DEF PageIsServer, ScreenIsServer, ListIsServer, Synced
<1> QED
    BY <1>1, FreshInvariant, PTL

(* No draft gets stored twice (app.js:568-571).                            *)
THEOREM DraftsHaveNoTwins == Spec => []NoTwins
<1>1. FreshInv => NoTwins
    BY Rest DEF NoTwins, BodiesInv, Apart, Counts
<1> QED
    BY <1>1, FreshInvariant, PTL

(* At rest, the page has the customers there are or knows that it does not *)
(* (app.js:572, 1974, 1994), except for what a credit writes over.         *)
THEOREM CustomersAreKnown == Spec => []CustomersKnown
<1>1. FreshInv => CustomersKnown
    BY Rest DEF CustomersKnown, CustomersInv
<1> QED
    BY <1>1, FreshInvariant, PTL
=============================================================================
