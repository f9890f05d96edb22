------------------------------- MODULE Invoicing -------------------------------
(***************************************************************************)
(* The numbers of invoices (InvoicesService.createInvoiceRecord): one      *)
(* sequence for each financial year, one invoice for each order.           *)
(*                                                                         *)
(* A webhook that confirms an order asks for its invoice and does not wait *)
(* for it.  Nothing asks again, so an order may stay without one.          *)
(***************************************************************************)
EXTENDS Naturals

CONSTANTS
    Confirmed,        \* orders that are confirmed
    Billings,         \* calls of createInvoiceRecord served at the same time
    FinancialYears    \* from April to March, the first of them 1

ASSUME InvoicingAssumption == FinancialYears \subseteq Nat /\ 1 \in FinancialYears

VARIABLES
    invoice,          \* Invoice rows: [year, sequence] by order
    lastSequence,     \* InvoiceSequence, by year
    today,            \* the financial year it is
    billing           \* what each call has read, or holds in its transaction

invoiceVars == <<invoice, lastSequence, today, billing>>

NotBilling == [step |-> "none"]

BillingType ==
    {NotBilling}
    \cup [step : {"dated"}, order : Confirmed, year : FinancialYears]
    \cup [step : {"numbered"}, order : Confirmed, year : FinancialYears, sequence : Nat]

InvoicingTypeOK ==
    /\ DOMAIN invoice \subseteq Confirmed
    /\ \A o \in DOMAIN invoice : invoice[o].year \in FinancialYears /\ invoice[o].sequence \in Nat
    /\ lastSequence \in [FinancialYears -> Nat]
    /\ today \in FinancialYears
    /\ billing \in [Billings -> BillingType]

InvoicingInit ==
    /\ invoice = << >>
    /\ lastSequence = [y \in FinancialYears |-> 0]
    /\ today = 1
    /\ billing = [b \in Billings |-> NotBilling]

-----------------------------------------------------------------------------
\* There is no invoice yet; the year is that of the call.
StartBilling(b, o) ==
    /\ billing[b] = NotBilling
    /\ o \notin DOMAIN invoice
    /\ billing' = [billing EXCEPT ![b] = [step |-> "dated", order |-> o, year |-> today]]
    /\ UNCHANGED <<invoice, lastSequence, today>>

LocksYear(b, y) == billing[b].step = "numbered" /\ billing[b].year = y

\* The number taken before the transaction, and kept when that is rolled back.
TakeNumberForGood(b) ==
    /\ billing[b].step = "dated"
    /\ lastSequence' = [lastSequence EXCEPT ![billing[b].year] = @ + 1]
    /\ billing' = [billing EXCEPT ![b] =
          [step |-> "numbered", order |-> @.order, year |-> @.year,
           sequence |-> lastSequence'[@.year]]]
    /\ UNCHANGED <<invoice, today>>

\* The transaction takes the next number and locks the row of the year with it.
TakeNumber(b) ==
    /\ billing[b].step = "dated"
    /\ \A x \in Billings : ~LocksYear(x, billing[b].year)
    /\ billing' = [billing EXCEPT ![b] =
          [step |-> "numbered", order |-> @.order, year |-> @.year,
           sequence |-> lastSequence[@.year] + 1]]
    /\ UNCHANGED <<invoice, lastSequence, today>>

\* The order's id is unique among invoices.
CommitInvoice(b) ==
    LET new == billing[b]
    IN  /\ new.step = "numbered"
        /\ new.order \notin DOMAIN invoice
        /\ invoice' = [o \in DOMAIN invoice \cup {new.order} |->
              IF o = new.order THEN [year |-> new.year, sequence |-> new.sequence]
              ELSE invoice[o]]
        /\ lastSequence' = [lastSequence EXCEPT ![new.year] = new.sequence]
        /\ billing' = [billing EXCEPT ![b] = NotBilling]
        /\ UNCHANGED today

\* The order has an invoice by now, the database fails or the process dies.
AbortBilling(b) ==
    /\ billing[b] # NotBilling
    /\ billing' = [billing EXCEPT ![b] = NotBilling]
    /\ UNCHANGED <<invoice, lastSequence, today>>

AprilComes ==
    /\ today + 1 \in FinancialYears
    /\ today' = today + 1
    /\ UNCHANGED <<invoice, lastSequence, billing>>

InvoicingNext ==
    \/ \E b \in Billings :
          (\E o \in Confirmed : StartBilling(b, o)) \/ TakeNumber(b) \/ CommitInvoice(b) \/ AbortBilling(b)
    \/ AprilComes

InvoicingSpec == InvoicingInit /\ [][InvoicingNext]_invoiceVars
-----------------------------------------------------------------------------
SequencesOf(y) == {invoice[o].sequence : o \in {x \in DOMAIN invoice : invoice[x].year = y}}

\* invoices.service.ts:20 (I-13): the invoices of a year have the numbers up to the
\* last one, each once, whatever calls for them overlapped, failed or came twice.
NumbersAreConsecutive ==
    \A y \in FinancialYears :
        /\ SequencesOf(y) = 1..lastSequence[y]
        /\ \A o, p \in DOMAIN invoice :
              invoice[o] = invoice[p] => o = p
=============================================================================
