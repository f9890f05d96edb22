-------------------------------- MODULE Wallet --------------------------------
(***************************************************************************)
(* Store credit: the balance of each wallet and the book of its            *)
(* transactions, with everything that moves money through them: the wallet *)
(* part of an order, its reversal when the gateway fails, refunds that two *)
(* people must agree on, refunds of single items, chargebacks, operators   *)
(* and withdrawals.                                                        *)
(*                                                                         *)
(* credit and debit are transactions that hold the lock of the Wallet row  *)
(* from their update to their commit, so each is one step.  Their callers  *)
(* are not: placeOrder debits after it has committed the order, and        *)
(* approveRefundRequest reads, records, credits and concludes in four      *)
(* separate transactions, any of which may be the last.                    *)
(*                                                                         *)
(* A wallet that does not exist yet is one with nothing in it.  The        *)
(* LedgerEntry rows, written one for one with the book, are left out.      *)
(***************************************************************************)
EXTENDS Integers, FiniteSets

CONSTANTS
    Users,
    Orders,
    Approvals,    \* bound: refund requests ever made
    Staff,        \* those who may request, approve or reject a refund
    Requests,     \* requests the API serves at the same time
    MaxAmount,    \* MAX_SINGLE_TRANSACTION
    Total,        \* what an order costs
    Amounts,      \* sums that are refunded, credited, debited or withdrawn
    Vouchers,     \* references operators and withdrawals use
    MaxBalance    \* MAX_WALLET_BALANCE

ASSUME AmountsAssumption ==
    /\ MaxAmount \in Nat
    /\ Total \in 0..MaxAmount
    /\ Amounts \subseteq 1..MaxAmount
    /\ MaxBalance \in Nat

VARIABLES
    balance,    \* Wallet.balance
    book,       \* WalletTransaction rows
    order,      \* orders placed, with their user and walletAmountUsed
    approval,   \* RefundApproval rows
    refund,     \* status of the RefundRequest of each approval
    request     \* the request being served by each slot

walletVars == <<balance, book>>
vars == <<balance, book, order, approval, refund, request>>

None == [status |-> "NONE"]
Idle == [op |-> "idle"]

References ==
    ({"order", "reversal", "refund", "chargeback", "item"} \X Orders)
    \cup ({"operator", "withdrawal"} \X Vouchers)
Entries ==
    [user : Users, reference : References, type : {"CREDIT", "DEBIT"}, amount : 1..MaxAmount]
Order == {None} \cup [status : {"PLACED"}, user : Users, used : 0..MaxAmount]
Approval ==
    {None} \cup [status : {"PENDING", "REJECTED", "EXECUTED"},
                 order : Orders, amount : Amounts, maker : Staff]
Request ==
    {Idle}
    \cup [op : {"order"}, user : Users, used : 0..MaxAmount]
    \cup [op : {"debit"}, order : Orders]
    \cup [op : {"record", "credit", "execute", "reject"}, approval : Approvals]

TypeOK ==
    /\ balance \in [Users -> Nat]
    /\ book \subseteq Entries
    /\ order \in [Orders -> Order]
    /\ approval \in [Approvals -> Approval]
    /\ refund \in [Approvals -> {"NONE", "PROCESSING", "COMPLETED"}]
    /\ request \in [Requests -> Request]

Init ==
    /\ balance = [u \in Users |-> 0]
    /\ book = {}
    /\ order = [o \in Orders |-> None]
    /\ approval = [a \in Approvals |-> None]
    /\ refund = [a \in Approvals |-> "NONE"]
    /\ request = [q \in Requests |-> Idle]

-----------------------------------------------------------------------------
\* WalletService.

\* unique(walletId, reference, type)
Recorded(u, ref, type) ==
    \E e \in book : e.user = u /\ e.reference = ref /\ e.type = type

Write(u, ref, type, n) ==
    book' = book \cup {[user |-> u, reference |-> ref, type |-> type, amount |-> n]}

\* Keeping the increment when the reference turns out to be taken.
CreditKeepingIncrement(u, ref, n) ==
    /\ balance[u] + n <= MaxBalance
    /\ balance' = [balance EXCEPT ![u] = @ + n]
    /\ IF Recorded(u, ref, "CREDIT") THEN UNCHANGED book ELSE Write(u, ref, "CREDIT", n)

\* The limit is looked at before the reference: a credit that was made before
\* succeeds again, and changes nothing, only if there is room to make it twice.
Credit(u, ref, n) ==
    /\ balance[u] + n <= MaxBalance
    /\ IF Recorded(u, ref, "CREDIT")
       THEN UNCHANGED walletVars
       ELSE /\ balance' = [balance EXCEPT ![u] = @ + n]
            /\ Write(u, ref, "CREDIT", n)

\* Decrementing what was read rather than where balance >= amount.
DebitUnconditional(u, ref, n) ==
    IF Recorded(u, ref, "DEBIT")
    THEN UNCHANGED walletVars
    ELSE /\ balance' = [balance EXCEPT ![u] = @ - n]
         /\ Write(u, ref, "DEBIT", n)

\* So is the balance.
Debit(u, ref, n) ==
    /\ balance[u] >= n
    /\ IF Recorded(u, ref, "DEBIT")
       THEN UNCHANGED walletVars
       ELSE /\ balance' = [balance EXCEPT ![u] = @ - n]
            /\ Write(u, ref, "DEBIT", n)

Reply(q) == request' = [request EXCEPT ![q] = Idle]

-----------------------------------------------------------------------------
\* POST /orders with a wallet part.

Least(S) == CHOOSE n \in S : \A m \in S : n <= m

\* Reads the balance and clamps what the customer asked for.
ReadWallet(q, u, wanted) ==
    /\ request[q] = Idle
    /\ request' = [request EXCEPT ![q] =
           [op |-> "order", user |-> u, used |-> Least({wanted, balance[u], Total})]]
    /\ UNCHANGED <<walletVars, order, approval, refund>>

\* The transaction that creates the order, ...
CommitOrder(q, o) ==
    /\ request[q].op = "order"
    /\ order[o] = None
    /\ order' = [order EXCEPT ![o] =
           [status |-> "PLACED", user |-> request[q].user, used |-> request[q].used]]
    /\ request' = [request EXCEPT ![q] =
           IF request[q].used > 0 THEN [op |-> "debit", order |-> o] ELSE Idle]
    /\ UNCHANGED <<walletVars, approval, refund>>

\* ... then the debit; when it fails the order stands.
DebitOrder(q) ==
    /\ request[q].op = "debit"
    /\ LET o == request[q].order
       IN  \/ Debit(order[o].user, <<"order", o>>, order[o].used)
           \/ order[o].used > balance[order[o].user] /\ UNCHANGED walletVars
    /\ Reply(q)
    /\ UNCHANGED <<order, approval, refund>>

\* payment_intent.payment_failed, however often it is delivered.
PaymentFailed(o) ==
    /\ order[o].status = "PLACED"
    /\ order[o].used > 0
    /\ Credit(order[o].user, <<"reversal", o>>, order[o].used)
    /\ UNCHANGED <<order, approval, refund, request>>

-----------------------------------------------------------------------------
\* A refund above the threshold: one of the staff asks, another decides.

RequestRefund(a, o, n, s) ==
    /\ approval[a] = None
    /\ order[o].status = "PLACED"
    /\ approval' = [approval EXCEPT ![a] =
           [status |-> "PENDING", order |-> o, amount |-> n, maker |-> s]]
    /\ UNCHANGED <<walletVars, order, refund, request>>

\* approveRefundRequest and rejectRefundRequest read the row, ...
ReadApproval(q, a, s, next) ==
    /\ request[q] = Idle
    /\ approval[a].status = "PENDING"
    /\ approval[a].maker # s
    /\ request' = [request EXCEPT ![q] = [op |-> next, approval |-> a]]
    /\ UNCHANGED <<walletVars, order, approval, refund>>

\* Leaving the RefundRequest for later.
RecordRefundLater(q) ==
    /\ request[q].op = "record"
    /\ request' = [request EXCEPT ![q].op = "credit"]
    /\ UNCHANGED <<walletVars, order, approval, refund>>

\* ... the one upserts the RefundRequest, ...
RecordRefund(q) ==
    /\ request[q].op = "record"
    /\ refund' = [refund EXCEPT ![request[q].approval] = "PROCESSING"]
    /\ request' = [request EXCEPT ![q].op = "credit"]
    /\ UNCHANGED <<walletVars, order, approval>>

\* ... credits the wallet under a reference of the order, ...
CreditRefund(q) ==
    LET a == request[q].approval
        o == approval[a].order
    IN  /\ request[q].op = "credit"
        /\ Credit(order[o].user, <<"refund", o>>, approval[a].amount)
        /\ request' = [request EXCEPT ![q].op = "execute"]
        /\ UNCHANGED <<order, approval, refund>>

\* ... and concludes, whatever has become of the row.
ExecuteRefund(q) ==
    /\ request[q].op = "execute"
    /\ refund' = [refund EXCEPT ![request[q].approval] = "COMPLETED"]
    /\ approval' = [approval EXCEPT ![request[q].approval].status = "EXECUTED"]
    /\ Reply(q)
    /\ UNCHANGED <<walletVars, order>>

\* The other writes its verdict, whatever has become of the row.
RejectRefund(q) ==
    /\ request[q].op = "reject"
    /\ approval' = [approval EXCEPT ![request[q].approval].status = "REJECTED"]
    /\ Reply(q)
    /\ UNCHANGED <<walletVars, order, refund>>

-----------------------------------------------------------------------------
\* refundOrderItem, for the one line an order has here: one transaction marks
\* the line and credits it.  No limit applies.
RefundItem(o, n) ==
    /\ order[o].status = "PLACED"
    /\ ~Recorded(order[o].user, <<"item", o>>, "CREDIT")
    /\ balance' = [balance EXCEPT ![order[o].user] = @ + n]
    /\ Write(order[o].user, <<"item", o>>, "CREDIT", n)
    /\ UNCHANGED <<order, approval, refund, request>>

\* Clawing back what the order cost.
DisputeTotal(o) ==
    /\ order[o].status = "PLACED"
    /\ \E e \in book :
        /\ e.user = order[o].user /\ e.reference = <<"refund", o>> /\ e.type = "CREDIT"
        /\ Debit(e.user, <<"chargeback", o>>, Total)
    /\ UNCHANGED <<order, approval, refund, request>>

\* charge.dispute.created, however often it is delivered: takes back a refund
\* to the wallet, if there is enough left in it.
Dispute(o) ==
    /\ order[o].status = "PLACED"
    /\ \E e \in book :
        /\ e.user = order[o].user /\ e.reference = <<"refund", o>> /\ e.type = "CREDIT"
        /\ Debit(e.user, <<"chargeback", o>>, e.amount)
    /\ UNCHANGED <<order, approval, refund, request>>

\* POST /wallet/credit and /wallet/debit, by an operator who may repeat a reference.
OperatorCredits(u, k, n) ==
    /\ Credit(u, <<"operator", k>>, n)
    /\ UNCHANGED <<order, approval, refund, request>>

OperatorDebits(u, k, n) ==
    /\ Debit(u, <<"operator", k>>, n)
    /\ UNCHANGED <<order, approval, refund, request>>

\* POST /wallet/withdraw: the reference is new each time.
Withdraw(u, k, n) ==
    /\ ~Recorded(u, <<"withdrawal", k>>, "DEBIT")
    /\ Debit(u, <<"withdrawal", k>>, n)
    /\ UNCHANGED <<order, approval, refund, request>>

\* An error or a crash ends a request between two of its transactions.
Abort(q) ==
    /\ request[q] # Idle
    /\ Reply(q)
    /\ UNCHANGED <<walletVars, order, approval, refund>>

-----------------------------------------------------------------------------
Next ==
    \/ \E q \in Requests :
        \/ \E u \in Users, n \in {0} \cup Amounts : ReadWallet(q, u, n)
        \/ \E o \in Orders : CommitOrder(q, o)
        \/ DebitOrder(q)
        \/ \E a \in Approvals, s \in Staff, next \in {"record", "reject"} :
               ReadApproval(q, a, s, next)
        \/ RecordRefund(q)
        \/ CreditRefund(q)
        \/ ExecuteRefund(q)
        \/ RejectRefund(q)
        \/ Abort(q)
    \/ \E o \in Orders :
        \/ PaymentFailed(o)
        \/ \E a \in Approvals, n \in Amounts, s \in Staff : RequestRefund(a, o, n, s)
        \/ \E n \in Amounts : RefundItem(o, n)
        \/ Dispute(o)
    \/ \E u \in Users, k \in Vouchers, n \in Amounts :
        OperatorCredits(u, k, n) \/ OperatorDebits(u, k, n) \/ Withdraw(u, k, n)

Spec == Init /\ [][Next]_vars

-----------------------------------------------------------------------------
\* One element per unit of money that the entries of one type moved in u's
\* wallet; their number is the sum of the amounts.
Money(b, u, type) ==
    {m \in b \X (1..MaxAmount) : m[1].user = u /\ m[1].type = type /\ m[2] <= m[1].amount}

\* I-3: what is in a wallet is what its book says.  A credit or debit applied
\* twice, applied without its entry, or the other way around breaks it,
\* whichever of the eight callers does it and however it is repeated.
BalanceIsBook ==
    \A u \in Users :
        balance[u] + Cardinality(Money(book, u, "DEBIT")) = Cardinality(Money(book, u, "CREDIT"))

\* admin.service.ts:602 (I-11): a refund reaches a wallet only once a
\* RefundRequest of that order is on record, wherever the approval stops.
RefundIsRecorded ==
    \A e \in book : e.reference[1] = "refund" =>
        \E a \in Approvals : /\ approval[a].status # "NONE"
                             /\ approval[a].order = e.reference[2]
                             /\ refund[a] # "NONE"

\* Two approvers, a retry after a crash, a second approval of the same order:
\* the order's refund is paid once.
RefundedOnce ==
    \A e, f \in book :
        /\ e.reference[1] = "refund" /\ f.reference[1] = "refund"
        /\ e.reference[2] = f.reference[2]
        => e = f

\* admin.service.ts:601 (V-01): an approval that is EXECUTED did move money for its order.
ExecutedWasCredited ==
    \A a \in Approvals : (refund[a] = "COMPLETED" \/ approval[a].status = "EXECUTED") =>
        LET o == approval[a].order
        IN  Recorded(order[o].user, <<"refund", o>>, "CREDIT")

\* admin.service.ts:603: no money of a refund moves without its row, no approval
\* is EXECUTED without the money, and no refund is credited twice.
RefundsAreOnRecord == RefundIsRecorded /\ ExecutedWasCredited /\ RefundedOnce

\* payments.service.ts:467: a dispute takes back exactly what was refunded to the wallet.
ClawbackMatchesRefund ==
    \A e \in book : e.reference[1] = "chargeback" =>
        \E f \in book : /\ f.reference = <<"refund", e.reference[2]>>
                        /\ f.type = "CREDIT" /\ f.user = e.user /\ f.amount = e.amount
=============================================================================
