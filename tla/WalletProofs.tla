----------------------------- MODULE WalletProofs -----------------------------
(***************************************************************************)
(* Theorems about Wallet, for any users, orders, staff, amounts and number *)
(* of requests.  The argument counts units of money: an entry moves as     *)
(* many as its amount, a new entry is not in the book yet, and every step  *)
(* that writes an entry moves the balance by as much.  Refunds and         *)
(* disputes are followed from the approval to the book.                    *)
(***************************************************************************)
EXTENDS Wallet, FiniteSetTheorems, TLAPS

-----------------------------------------------------------------------------
(***************************************************************************)
(* Type correctness.                                                       *)
(***************************************************************************)

LEMMA TypeInit == Init => TypeOK
BY DEF Init, TypeOK, None, Idle, Order, Approval, Request

\* What the rows a caller finds are made of.
LEMMA OrderRowType ==
    ASSUME TypeOK, NEW o \in Orders, order[o].status = "PLACED"
    PROVE  order[o].user \in Users /\ order[o].used \in 0..MaxAmount
<1>1. order[o] \in Order /\ order[o] # None
  BY DEF TypeOK, None
<1> QED
  BY <1>1 DEF Order

LEMMA ApprovalRowType ==
    ASSUME TypeOK, NEW a \in Approvals, approval[a].status # "NONE"
    PROVE  /\ approval[a].status \in {"PENDING", "REJECTED", "EXECUTED"}
           /\ approval[a].order \in Orders
           /\ approval[a].amount \in 1..MaxAmount
           /\ approval[a].maker \in Staff
<1>1. approval[a] \in Approval /\ approval[a] # None
  BY DEF TypeOK, None
<1>2. approval[a] \in [status : {"PENDING", "REJECTED", "EXECUTED"},
                       order : Orders, amount : Amounts, maker : Staff]
  BY <1>1 DEF Approval
<1> QED
  BY <1>2, AmountsAssumption

\* What a request under way carries.
LEMMA RequestType ==
    ASSUME TypeOK, NEW q \in Requests
    PROVE  /\ request[q].op = "order" =>
                request[q].user \in Users /\ request[q].used \in 0..MaxAmount
           /\ request[q].op = "debit" => request[q].order \in Orders
           /\ request[q].op \in {"record", "credit", "execute", "reject"} =>
                request[q].approval \in Approvals
<1>1. request[q] \in Request
  BY DEF TypeOK
<1> QED
  BY <1>1 DEF Request, Idle

LEMMA ReferenceTypes ==
    /\ \A o \in Orders, kind \in {"order", "reversal", "refund", "chargeback", "item"} :
           <<kind, o>> \in References
    /\ \A k \in Vouchers, kind \in {"operator", "withdrawal"} : <<kind, k>> \in References
BY DEF References
-----------------------------------------------------------------------------
(***************************************************************************)
(* What a wallet does: an entry that is not in the book is added to it and *)
(* the balance moves by its amount, or nothing happens.                    *)
(***************************************************************************)

Paid ==
    \E u \in Users, ref \in References, n \in 1..MaxAmount :
        /\ ~Recorded(u, ref, "CREDIT")
        /\ balance' = [balance EXCEPT ![u] = @ + n]
        /\ Write(u, ref, "CREDIT", n)

Drawn ==
    \E u \in Users, ref \in References, n \in 1..MaxAmount :
        /\ ~Recorded(u, ref, "DEBIT")
        /\ balance[u] >= n
        /\ balance' = [balance EXCEPT ![u] = @ - n]
        /\ Write(u, ref, "DEBIT", n)

Moves == UNCHANGED walletVars \/ Paid \/ Drawn

LEMMA CreditMoves ==
    ASSUME NEW u \in Users, NEW ref \in References, NEW n \in 1..MaxAmount, Credit(u, ref, n)
    PROVE  Moves
BY DEF Credit, Moves, Paid

LEMMA DebitMoves ==
    ASSUME NEW u \in Users, NEW ref \in References, NEW n \in 1..MaxAmount, Debit(u, ref, n)
    PROVE  Moves
BY DEF Debit, Moves, Drawn

\* The rows that a request or an approval refers to exist.
Linked ==
    /\ \A q \in Requests :
        /\ request[q].op = "debit" =>
               /\ order[request[q].order].status = "PLACED"
               /\ order[request[q].order].used > 0
        /\ request[q].op \in {"record", "credit", "execute", "reject"} =>
               approval[request[q].approval].status # "NONE"
    /\ \A a \in Approvals : approval[a].status # "NONE" =>
           order[approval[a].order].status = "PLACED"

\* Whichever caller takes a step, the wallets see a movement or nothing.
LEMMA StepMoves ==
    ASSUME TypeOK, Linked, Next
    PROVE  Moves
<1>1. ASSUME NEW q \in Requests, DebitOrder(q)
      PROVE  Moves
  <2> DEFINE o == request[q].order
  <2>1. /\ o \in Orders
        /\ order[o].status = "PLACED"
        /\ order[o].used > 0
    BY <1>1, RequestType DEF DebitOrder, Linked
  <2>2. order[o].user \in Users /\ order[o].used \in 1..MaxAmount
    BY <2>1, OrderRowType, AmountsAssumption
  <2>3. Debit(order[o].user, <<"order", o>>, order[o].used) \/ UNCHANGED walletVars
    BY <1>1 DEF DebitOrder
  <2>4. <<"order", o>> \in References
    BY <2>1, ReferenceTypes
  <2> HIDE DEF o
  <2> QED
    BY <2>2, <2>3, <2>4, DebitMoves DEF Moves
<1>2. ASSUME NEW q \in Requests, CreditRefund(q)
      PROVE  Moves
  <2> DEFINE a == request[q].approval
             o == approval[a].order
  <2>1. a \in Approvals /\ approval[a].status # "NONE"
    BY <1>2, RequestType DEF CreditRefund, Linked
  <2>2. /\ o \in Orders
        /\ order[o].status = "PLACED"
        /\ approval[a].amount \in 1..MaxAmount
    BY <2>1, ApprovalRowType DEF Linked
  <2>3. order[o].user \in Users /\ <<"refund", o>> \in References
    BY <2>2, OrderRowType, ReferenceTypes
  <2>4. Credit(order[o].user, <<"refund", o>>, approval[a].amount)
    BY <1>2 DEF CreditRefund
  <2> HIDE DEF a, o
  <2> QED
    BY <2>2, <2>3, <2>4, CreditMoves
<1>3. ASSUME NEW o \in Orders, PaymentFailed(o)
      PROVE  Moves
  <2>1. order[o].user \in Users /\ order[o].used \in 1..MaxAmount
    BY <1>3, OrderRowType, AmountsAssumption DEF PaymentFailed
  <2> QED
    BY <1>3, <2>1, ReferenceTypes, CreditMoves DEF PaymentFailed
<1>4. ASSUME NEW o \in Orders, NEW n \in Amounts, RefundItem(o, n)
      PROVE  Moves
  <2>1. order[o].user \in Users /\ n \in 1..MaxAmount /\ <<"item", o>> \in References
    BY <1>4, OrderRowType, AmountsAssumption, ReferenceTypes DEF RefundItem
  <2> QED
    BY <1>4, <2>1 DEF RefundItem, Moves, Paid
<1>5. ASSUME NEW o \in Orders, Dispute(o)
      PROVE  Moves
  <2>1. PICK e \in book : e.user = order[o].user /\ Debit(e.user, <<"chargeback", o>>, e.amount)
    BY <1>5 DEF Dispute
  <2>2. e.user \in Users /\ e.amount \in 1..MaxAmount
    BY DEF TypeOK, Entries
  <2> QED
    BY <2>1, <2>2, ReferenceTypes, DebitMoves
<1>6. ASSUME NEW u \in Users, NEW k \in Vouchers, NEW n \in Amounts,
             OperatorCredits(u, k, n) \/ OperatorDebits(u, k, n) \/ Withdraw(u, k, n)
      PROVE  Moves
  <2>1. /\ n \in 1..MaxAmount
        /\ <<"operator", k>> \in References
        /\ <<"withdrawal", k>> \in References
    BY AmountsAssumption, ReferenceTypes
  <2> QED
    BY <1>6, <2>1, CreditMoves, DebitMoves DEF OperatorCredits, OperatorDebits, Withdraw
<1>7. ASSUME NEW q \in Requests,
             \/ \E u \in Users, n \in {0} \cup Amounts : ReadWallet(q, u, n)
             \/ \E o \in Orders : CommitOrder(q, o)
             \/ \E a \in Approvals, s \in Staff, next \in {"record", "reject"} :
                    ReadApproval(q, a, s, next)
             \/ RecordRefund(q) \/ ExecuteRefund(q) \/ RejectRefund(q) \/ Abort(q)
      PROVE  Moves
  BY <1>7 DEF ReadWallet, CommitOrder, ReadApproval, RecordRefund, ExecuteRefund,
              RejectRefund, Abort, Moves
<1>8. ASSUME NEW o \in Orders, NEW a \in Approvals, NEW n \in Amounts, NEW s \in Staff,
             RequestRefund(a, o, n, s)
      PROVE  Moves
  BY <1>8 DEF RequestRefund, Moves
<1> QED
  BY <1>1, <1>2, <1>3, <1>4, <1>5, <1>6, <1>7, <1>8 DEF Next

LEMMA MovesType ==
    ASSUME TypeOK, Moves
    PROVE  balance' \in [Users -> Nat] /\ book' \subseteq Entries
<1>1. CASE UNCHANGED walletVars
  BY <1>1 DEF TypeOK, walletVars
<1>2. CASE Paid
  <2>1. PICK u \in Users, ref \in References, n \in 1..MaxAmount :
            balance' = [balance EXCEPT ![u] = @ + n] /\ Write(u, ref, "CREDIT", n)
    BY <1>2 DEF Paid
  <2>2. balance' \in [Users -> Nat]
    BY <2>1, AmountsAssumption DEF TypeOK
  <2>3. book' \subseteq Entries
    BY <2>1 DEF TypeOK, Write, Entries
  <2> QED
    BY <2>2, <2>3
<1>3. CASE Drawn
  <2>1. PICK u \in Users, ref \in References, n \in 1..MaxAmount :
            /\ balance[u] >= n
            /\ balance' = [balance EXCEPT ![u] = @ - n]
            /\ Write(u, ref, "DEBIT", n)
    BY <1>3 DEF Drawn
  <2>2. balance' \in [Users -> Nat]
    BY <2>1, AmountsAssumption DEF TypeOK
  <2>3. book' \subseteq Entries
    BY <2>1 DEF TypeOK, Write, Entries
  <2> QED
    BY <2>2, <2>3
<1> QED
  BY <1>1, <1>2, <1>3 DEF Moves

-----------------------------------------------------------------------------
(***************************************************************************)
(* Orders, approvals and requests: their types, and that what they refer   *)
(* to exists.                                                              *)
(***************************************************************************)

WalletRows == TypeOK /\ Linked

\* The rows a step leaves behind are well-formed and refer to rows that exist.
RowsNext ==
    /\ order' \in [Orders -> Order]
    /\ approval' \in [Approvals -> Approval]
    /\ refund' \in [Approvals -> {"NONE", "PROCESSING", "COMPLETED"}]
    /\ request' \in [Requests -> Request]
    /\ Linked'

LEMMA ReplyRows ==
    ASSUME WalletRows, NEW q \in Requests, Reply(q), UNCHANGED <<order, approval, refund>>
    PROVE  RowsNext
<1>1. request' \in [Requests -> Request]
  BY DEF WalletRows, TypeOK, Reply, Request
<1>2. \A p \in Requests : request'[p] = IF p = q THEN Idle ELSE request[p]
  BY DEF WalletRows, TypeOK, Reply
<1>3. Linked'
  BY <1>2 DEF WalletRows, Linked, Idle
<1> QED
  BY <1>1, <1>3 DEF RowsNext, WalletRows, TypeOK

LEMMA PlacedRows ==
    ASSUME WalletRows, NEW q \in Requests,
           \/ \E u \in Users, n \in {0} \cup Amounts : ReadWallet(q, u, n)
           \/ \E o \in Orders : CommitOrder(q, o)
    PROVE  RowsNext
<1>1. ASSUME NEW u \in Users, NEW n \in {0} \cup Amounts, ReadWallet(q, u, n)
      PROVE  RowsNext
  <2> DEFINE m == Least({n, balance[u], Total})
             r == [op |-> "order", user |-> u, used |-> m]
  <2>1. n \in Nat /\ n <= MaxAmount /\ balance[u] \in Nat /\ Total \in Nat
    BY <1>1, AmountsAssumption DEF WalletRows, TypeOK
  <2>2. \E k \in {n, balance[u], Total} : \A l \in {n, balance[u], Total} : k <= l
    BY <2>1
  <2>3. m \in {n, balance[u], Total} /\ \A l \in {n, balance[u], Total} : m <= l
    BY <2>2 DEF Least
  <2>4. m \in 0..MaxAmount
    BY <2>1, <2>3, AmountsAssumption
  <2> HIDE DEF m
  <2>5. r \in Request
    BY <2>4 DEF Request
  <2>6. request' = [request EXCEPT ![q] = r]
    BY <1>1 DEF ReadWallet, m
  <2>7. request' \in [Requests -> Request]
    BY <2>5, <2>6 DEF WalletRows, TypeOK
  <2>8. \A p \in Requests : request'[p] = IF p = q THEN r ELSE request[p]
    BY <2>6 DEF WalletRows, TypeOK
  <2>9. UNCHANGED <<order, approval, refund>>
    BY <1>1 DEF ReadWallet
  <2>10. Linked'
    BY <2>8, <2>9 DEF WalletRows, Linked
  <2> QED
    BY <2>7, <2>9, <2>10 DEF RowsNext, WalletRows, TypeOK
<1>2. ASSUME NEW o \in Orders, CommitOrder(q, o)
      PROVE  RowsNext
  <2> DEFINE row == [status |-> "PLACED", user |-> request[q].user, used |-> request[q].used]
             next == IF request[q].used > 0 THEN [op |-> "debit", order |-> o] ELSE Idle
  <2>1. request[q].user \in Users /\ request[q].used \in 0..MaxAmount
    BY <1>2, RequestType DEF CommitOrder, WalletRows
  <2>2. row \in Order /\ next \in Request
    BY <2>1 DEF Order, Request
  <2>3. order' = [order EXCEPT ![o] = row] /\ request' = [request EXCEPT ![q] = next]
    BY <1>2 DEF CommitOrder
  <2>4. row.status = "PLACED" /\ row.used = request[q].used
    OBVIOUS
  <2>5. /\ next.op \in {"debit", "idle"}
        /\ next.op = "debit" => next.order = o /\ request[q].used > 0
    BY DEF Idle
  <2>6. order[o].status # "PLACED" /\ UNCHANGED <<approval, refund>>
    BY <1>2 DEF CommitOrder, None
  <2> HIDE DEF row, next
  <2>7. order' \in [Orders -> Order] /\ request' \in [Requests -> Request]
    BY <2>2, <2>3 DEF WalletRows, TypeOK
  <2>8. /\ \A x \in Orders : order'[x] = IF x = o THEN row ELSE order[x]
        /\ \A p \in Requests : request'[p] = IF p = q THEN next ELSE request[p]
    BY <2>3 DEF WalletRows, TypeOK
  <2>9. \A x \in Orders : order[x].status = "PLACED" => order'[x] = order[x]
    BY <2>6, <2>8
  <2>10. ASSUME NEW p \in Requests
         PROVE  /\ request'[p].op = "debit" =>
                       /\ order'[request'[p].order].status = "PLACED"
                       /\ order'[request'[p].order].used > 0
                /\ request'[p].op \in {"record", "credit", "execute", "reject"} =>
                       approval'[request'[p].approval].status # "NONE"
    <3>1. CASE p = q
      BY <3>1, <2>4, <2>5, <2>8
    <3>2. CASE p # q
      <4>1. request'[p] = request[p]
        BY <3>2, <2>8
      <4>2. request[p].op = "debit" => request[p].order \in Orders
        BY RequestType DEF WalletRows
      <4> QED
        BY <4>1, <4>2, <2>6, <2>9 DEF WalletRows, Linked
    <3> QED
      BY <3>1, <3>2
  <2>11. ASSUME NEW a \in Approvals, approval'[a].status # "NONE"
         PROVE  order'[approval'[a].order].status = "PLACED"
    BY <2>6, <2>9, <2>11, ApprovalRowType DEF WalletRows, Linked
  <2>12. Linked'
    BY <2>10, <2>11 DEF Linked
  <2> QED
    BY <2>6, <2>7, <2>12 DEF RowsNext, WalletRows, TypeOK
<1> QED
  BY <1>1, <1>2

LEMMA ApprovalRows ==
    ASSUME WalletRows, NEW a \in Approvals, NEW o \in Orders, NEW n \in Amounts, NEW s \in Staff,
           RequestRefund(a, o, n, s)
    PROVE  RowsNext
<1> DEFINE row == [status |-> "PENDING", order |-> o, amount |-> n, maker |-> s]
<1>1. row \in Approval /\ row.status # "NONE" /\ row.order = o
  BY DEF Approval
<1>2. /\ approval[a].status = "NONE"
      /\ order[o].status = "PLACED"
      /\ approval' = [approval EXCEPT ![a] = row]
      /\ UNCHANGED <<order, refund, request>>
  BY DEF RequestRefund, None
<1> HIDE DEF row
<1>3. /\ approval' \in [Approvals -> Approval]
      /\ \A b \in Approvals : approval'[b] = IF b = a THEN row ELSE approval[b]
  BY <1>1, <1>2 DEF WalletRows, TypeOK
<1>4. \A b \in Approvals : approval[b].status # "NONE" => approval'[b] = approval[b]
  BY <1>2, <1>3
<1>5. \A q \in Requests : request[q].op \in {"record", "credit", "execute", "reject"} =>
          request[q].approval \in Approvals
  BY RequestType DEF WalletRows
<1>6. \A q \in Requests : request[q].op \in {"record", "credit", "execute", "reject"} =>
          approval'[request[q].approval].status # "NONE"
  BY <1>4, <1>5 DEF WalletRows, Linked
<1>7. ASSUME NEW b \in Approvals, approval'[b].status # "NONE"
      PROVE  order[approval'[b].order].status = "PLACED"
  <2>1. CASE b = a
    BY <1>1, <1>2, <1>3, <2>1
  <2>2. CASE b # a
    BY <1>3, <1>7, <2>2 DEF WalletRows, Linked
  <2> QED
    BY <2>1, <2>2
<1>8. Linked'
  BY <1>2, <1>6, <1>7 DEF WalletRows, Linked
<1> QED
  BY <1>2, <1>3, <1>8 DEF RowsNext, WalletRows, TypeOK

LEMMA DecisionRows ==
    ASSUME WalletRows, NEW q \in Requests,
           \/ \E a \in Approvals, s \in Staff, next \in {"record", "reject"} :
                  ReadApproval(q, a, s, next)
           \/ RecordRefund(q) \/ CreditRefund(q)
    PROVE  RowsNext
<1>1. ASSUME NEW a \in Approvals, NEW op \in {"record", "credit", "execute", "reject"},
             approval[a].status # "NONE",
             request' = [request EXCEPT ![q] = [op |-> op, approval |-> a]],
             refund' \in [Approvals -> {"NONE", "PROCESSING", "COMPLETED"}],
             UNCHANGED <<order, approval>>
      PROVE  RowsNext
  <2> DEFINE r == [op |-> op, approval |-> a]
  <2>1. r \in Request /\ r.op # "debit" /\ r.approval = a
    BY DEF Request
  <2>2. request' = [request EXCEPT ![q] = r]
    BY <1>1
  <2> HIDE DEF r
  <2>3. /\ request' \in [Requests -> Request]
        /\ \A p \in Requests : request'[p] = IF p = q THEN r ELSE request[p]
    BY <2>1, <2>2 DEF WalletRows, TypeOK
  <2>4. Linked'
    BY <1>1, <2>1, <2>3 DEF WalletRows, Linked
  <2> QED
    BY <1>1, <2>3, <2>4 DEF RowsNext, WalletRows, TypeOK
<1>2. ASSUME NEW a \in Approvals, NEW s \in Staff, NEW next \in {"record", "reject"},
             ReadApproval(q, a, s, next)
      PROVE  RowsNext
  <2>1. /\ approval[a].status # "NONE"
        /\ request' = [request EXCEPT ![q] = [op |-> next, approval |-> a]]
        /\ UNCHANGED <<order, approval, refund>>
    BY <1>2 DEF ReadApproval
  <2> QED
    BY <1>1, <2>1 DEF WalletRows, TypeOK
<1>3. ASSUME request[q].op \in {"record", "credit"},
             NEW op \in {"credit", "execute"},
             request' = [request EXCEPT ![q].op = op]
      PROVE  /\ request[q].approval \in Approvals
             /\ approval[request[q].approval].status # "NONE"
             /\ request' = [request EXCEPT ![q] = [op |-> op, approval |-> request[q].approval]]
  <2> DEFINE a == request[q].approval
             r == [op |-> op, approval |-> a]
  <2>1. a \in Approvals /\ approval[a].status # "NONE"
    BY <1>3, RequestType DEF WalletRows, Linked
  <2>2. request[q] \in [op : {"record", "credit", "execute", "reject"}, approval : Approvals]
    BY <1>3 DEF WalletRows, TypeOK, Request, Idle
  <2>3. [request[q] EXCEPT !.op = op] = r
    BY <2>2
  <2>4. request' = [request EXCEPT ![q] = [request[q] EXCEPT !.op = op]]
    BY <1>3, Zenon DEF WalletRows, TypeOK
  <2> QED
    BY <2>1, <2>3, <2>4, Zenon
<1>4. CASE RecordRefund(q)
  <2>1. /\ request[q].op = "record"
        /\ request' = [request EXCEPT ![q].op = "credit"]
        /\ UNCHANGED <<order, approval>>
    BY <1>4 DEF RecordRefund
  <2>2. refund' \in [Approvals -> {"NONE", "PROCESSING", "COMPLETED"}]
    BY <1>4 DEF RecordRefund, WalletRows, TypeOK
  <2> QED
    BY <1>1, <1>3, <2>1, <2>2
<1>5. CASE CreditRefund(q)
  <2>1. /\ request[q].op = "credit"
        /\ request' = [request EXCEPT ![q].op = "execute"]
        /\ UNCHANGED <<order, approval, refund>>
    BY <1>5 DEF CreditRefund
  <2>2. refund' \in [Approvals -> {"NONE", "PROCESSING", "COMPLETED"}]
    BY <2>1 DEF WalletRows, TypeOK
  <2> QED
    BY <1>1, <1>3, <2>1, <2>2
<1> QED
  BY <1>2, <1>4, <1>5

LEMMA VerdictRows ==
    ASSUME WalletRows, NEW q \in Requests, ExecuteRefund(q) \/ RejectRefund(q)
    PROVE  RowsNext
<1> DEFINE a == request[q].approval
<1>1. PICK v \in {"EXECUTED", "REJECTED"} :
          approval' = [approval EXCEPT ![a].status = v]
  BY DEF ExecuteRefund, RejectRefund
<1>2. a \in Approvals /\ approval[a].status # "NONE"
  BY RequestType DEF ExecuteRefund, RejectRefund, WalletRows, Linked
<1>3. approval[a] \in [status : {"PENDING", "REJECTED", "EXECUTED"},
                       order : Orders, amount : Amounts, maker : Staff]
  BY <1>2 DEF WalletRows, TypeOK, Approval, None
<1>4. Reply(q) /\ UNCHANGED order /\ refund' \in [Approvals -> {"NONE", "PROCESSING", "COMPLETED"}]
  BY DEF ExecuteRefund, RejectRefund, WalletRows, TypeOK
<1> HIDE DEF a
<1>5. approval' \in [Approvals -> Approval]
  BY <1>1, <1>2, <1>3 DEF WalletRows, TypeOK, Approval
<1>6. \A b \in Approvals : /\ approval'[b].status = "NONE" => approval[b].status = "NONE"
                           /\ approval[b].status # "NONE" => approval'[b].order = approval[b].order
                           /\ approval'[b].status # "NONE" => approval[b].status # "NONE"
  <2>1. /\ approval'[a].status = v /\ approval'[a].order = approval[a].order
        /\ \A b \in Approvals \ {a} : approval'[b] = approval[b]
    BY <1>1, <1>2, <1>3 DEF WalletRows, TypeOK
  <2> QED
    BY <1>2, <2>1
<1>7. /\ request' \in [Requests -> Request]
      /\ \A p \in Requests : request'[p] = IF p = q THEN Idle ELSE request[p]
  BY <1>4 DEF Reply, WalletRows, TypeOK, Request
<1>8. \A p \in Requests : request[p].op \in {"record", "credit", "execute", "reject"} =>
          request[p].approval \in Approvals
  BY RequestType DEF WalletRows
<1>9. Linked'
  BY <1>4, <1>6, <1>7, <1>8 DEF WalletRows, Linked, Idle
<1> QED
  BY <1>4, <1>5, <1>7, <1>9 DEF RowsNext, WalletRows, TypeOK

LEMMA StepRows ==
    ASSUME WalletRows, Next
    PROVE  RowsNext
<1>1. ASSUME UNCHANGED <<order, approval, refund, request>>
      PROVE  RowsNext
  BY <1>1 DEF RowsNext, WalletRows, TypeOK, Linked
<1>2. ASSUME NEW q \in Requests, DebitOrder(q) \/ Abort(q)
      PROVE  RowsNext
  BY <1>2, ReplyRows DEF DebitOrder, Abort
<1>3. ASSUME NEW o \in Orders,
             PaymentFailed(o) \/ (\E n \in Amounts : RefundItem(o, n)) \/ Dispute(o)
      PROVE  RowsNext
  BY <1>1, <1>3 DEF PaymentFailed, RefundItem, Dispute
<1>4. ASSUME NEW u \in Users, NEW k \in Vouchers, NEW n \in Amounts,
             OperatorCredits(u, k, n) \/ OperatorDebits(u, k, n) \/ Withdraw(u, k, n)
      PROVE  RowsNext
  BY <1>1, <1>4 DEF OperatorCredits, OperatorDebits, Withdraw
<1> QED
  BY <1>2, <1>3, <1>4, PlacedRows, ApprovalRows, DecisionRows, VerdictRows DEF Next

LEMMA RowsInvariant == Spec => []WalletRows
<1>1. Init => WalletRows
  BY TypeInit DEF Init, WalletRows, Linked, None, Idle
<1>2. WalletRows /\ [Next]_vars => WalletRows'
  <2> SUFFICES ASSUME WalletRows, [Next]_vars PROVE WalletRows'
    OBVIOUS
  <2>1. CASE Next
    <3>1. balance' \in [Users -> Nat] /\ book' \subseteq Entries
      BY <2>1, StepMoves, MovesType DEF WalletRows
    <3>2. RowsNext
      BY <2>1, StepRows
    <3> QED
      BY <3>1, <3>2 DEF RowsNext, WalletRows, TypeOK
  <2>2. CASE UNCHANGED vars
    BY <2>2 DEF vars, WalletRows, TypeOK, Linked
  <2> QED
    BY <2>1, <2>2
<1> QED
  BY <1>1, <1>2, PTL DEF Spec

\* Types: no balance goes negative, whoever races for the last of the credit.
THEOREM WalletTypeCorrect == Spec => []TypeOK
BY RowsInvariant, PTL DEF WalletRows

-----------------------------------------------------------------------------
(***************************************************************************)
(* Counting money.                                                         *)
(***************************************************************************)

\* A finite book moves finitely many units.
LEMMA MoneyFinite ==
    ASSUME NEW b, IsFiniteSet(b), NEW u, NEW type
    PROVE  IsFiniteSet(Money(b, u, type)) /\ Cardinality(Money(b, u, type)) \in Nat
<1>1. IsFiniteSet(1..MaxAmount)
  BY FS_Interval, AmountsAssumption
<1>2. IsFiniteSet(b \X (1..MaxAmount))
  BY <1>1, FS_Product
<1>3. Money(b, u, type) \in SUBSET (b \X (1..MaxAmount))
  BY DEF Money
<1>4. IsFiniteSet(Money(b, u, type))
  BY <1>2, <1>3, FS_Subset
<1> QED
  BY <1>4, FS_CardinalityType

\* An entry moves its amount in its own wallet and in its own direction, ...
LEMMA MoneyOfOne ==
    ASSUME NEW e \in Entries, NEW u, NEW type
    PROVE  Cardinality(Money({e}, u, type))
             = IF e.user = u /\ e.type = type THEN e.amount ELSE 0
<1> DEFINE n == e.amount
           U == Money({e}, u, type)
           f == [i \in 1..n |-> <<e, i>>]
<1>1. n \in Nat /\ n <= MaxAmount
  BY AmountsAssumption DEF Entries
<1>2. CASE e.user = u /\ e.type = type
  <2>1. U = {<<e, i>> : i \in 1..n}
    BY <1>1, <1>2, AmountsAssumption DEF Money
  <2> HIDE DEF n, U
  <2>2. f \in Bijection(1..n, U)
    BY <2>1 DEF Bijection, Injection, Surjection, IsInjective
  <2>3. ExistsBijection(1..n, U)
    BY <2>2 DEF ExistsBijection
  <2>4. Cardinality(U) = n
    BY <1>1, <2>3, FS_CountingElements
  <2> QED
    BY <1>2, <2>4 DEF n, U
<1>3. CASE ~(e.user = u /\ e.type = type)
  <2>1. U = {}
    BY <1>3 DEF Money
  <2> QED
    BY <1>3, <2>1, FS_EmptySet
<1> QED
  BY <1>2, <1>3

\* ... on top of what the book moved before it was written.
LEMMA MoneyOfMore ==
    ASSUME NEW b \in SUBSET Entries, IsFiniteSet(b), NEW e \in Entries, e \notin b, NEW u, NEW type
    PROVE  Cardinality(Money(b \cup {e}, u, type))
             = Cardinality(Money(b, u, type))
               + (IF e.user = u /\ e.type = type THEN e.amount ELSE 0)
<1> DEFINE A == Money(b, u, type)
           B == Money({e}, u, type)
<1>1. Money(b \cup {e}, u, type) = A \cup B
  BY DEF Money
<1>2. A \cap B = {}
  BY DEF Money
<1>3. IsFiniteSet({e})
  BY FS_Singleton
<1>4. /\ IsFiniteSet(A) /\ IsFiniteSet(B)
      /\ Cardinality(A) \in Nat /\ Cardinality(B) \in Nat
  BY <1>3, MoneyFinite
<1>5. Cardinality(B) = IF e.user = u /\ e.type = type THEN e.amount ELSE 0
  BY MoneyOfOne
<1> HIDE DEF A, B
<1>6. Cardinality(A \cup B) = Cardinality(A) + Cardinality(B) - Cardinality(A \cap B)
  BY <1>4, FS_Union
<1>7. Cardinality(A \cap B) = 0
  BY <1>2, FS_EmptySet
<1>8. Cardinality(A \cup B) = Cardinality(A) + Cardinality(B)
  BY <1>4, <1>6, <1>7
<1>9. Cardinality(A \cup B) = Cardinality(A) + IF e.user = u /\ e.type = type THEN e.amount ELSE 0
  BY <1>5, <1>8, Zenon
<1> QED
  BY <1>1, <1>9, Zenon DEF A

\* The book is finite and says what is in the wallets.
Balanced == IsFiniteSet(book) /\ BalanceIsBook

\* A new entry, of either type, keeps the books balanced.
LEMMA EntryBalances ==
    ASSUME TypeOK, Balanced,
           NEW u \in Users, NEW ref \in References,
           NEW type \in {"CREDIT", "DEBIT"}, NEW n \in 1..MaxAmount,
           ~Recorded(u, ref, type),
           balance' = [balance EXCEPT ![u] = IF type = "CREDIT" THEN @ + n ELSE @ - n],
           Write(u, ref, type, n)
    PROVE  Balanced'
<1> DEFINE e == [user |-> u, reference |-> ref, type |-> type, amount |-> n]
<1>1. e \in Entries /\ e \notin book /\ book' = book \cup {e}
  BY DEF Entries, Recorded, Write
<1>2. e.user = u /\ e.type = type /\ e.amount = n
  OBVIOUS
<1>3. n \in Nat /\ book \in SUBSET Entries
  BY AmountsAssumption DEF TypeOK
<1> HIDE DEF e
<1>4. IsFiniteSet(book')
  BY <1>1, FS_AddElement DEF Balanced
<1>5. ASSUME NEW w \in Users
      PROVE  balance'[w] + Cardinality(Money(book', w, "DEBIT"))
               = Cardinality(Money(book', w, "CREDIT"))
  <2> DEFINE d == Cardinality(Money(book, w, "DEBIT"))
             c == Cardinality(Money(book, w, "CREDIT"))
             dd == Cardinality(Money(book', w, "DEBIT"))
             cc == Cardinality(Money(book', w, "CREDIT"))
  <2>1. d \in Nat /\ c \in Nat /\ balance[w] \in Nat /\ balance[w] + d = c
    BY MoneyFinite DEF Balanced, BalanceIsBook, TypeOK
  <2>2. /\ dd = d + (IF e.user = w /\ e.type = "DEBIT" THEN e.amount ELSE 0)
        /\ cc = c + (IF e.user = w /\ e.type = "CREDIT" THEN e.amount ELSE 0)
    BY <1>1, <1>3, MoneyOfMore DEF Balanced
  <2>3. balance'[w] = IF w = u THEN IF type = "CREDIT" THEN balance[w] + n ELSE balance[w] - n
                               ELSE balance[w]
    BY DEF TypeOK
  <2> HIDE DEF d, c, dd, cc
  <2>4. CASE w # u
    <3>1. dd = d + 0 /\ cc = c + 0 /\ balance'[w] = balance[w]
      BY <1>2, <2>2, <2>3, <2>4
    <3> QED
      BY <2>1, <3>1 DEF dd, cc
  <2>5. CASE w = u /\ type = "CREDIT"
    <3>1. dd = d + 0 /\ cc = c + n /\ balance'[w] = balance[w] + n
      BY <1>2, <2>2, <2>3, <2>5
    <3> QED
      BY <1>3, <2>1, <3>1 DEF dd, cc
  <2>6. CASE w = u /\ type = "DEBIT"
    <3>1. dd = d + n /\ cc = c + 0 /\ balance'[w] = balance[w] - n
      BY <1>2, <2>2, <2>3, <2>6
    <3> QED
      BY <1>3, <2>1, <3>1 DEF dd, cc
  <2> QED
    BY <2>4, <2>5, <2>6
<1> QED
  BY <1>4, <1>5 DEF Balanced, BalanceIsBook

LEMMA MovesBalance ==
    ASSUME TypeOK, Balanced, Moves
    PROVE  Balanced'
<1>1. CASE UNCHANGED walletVars
  BY <1>1 DEF walletVars, Balanced, BalanceIsBook
<1>2. CASE Paid
  <2>1. PICK u \in Users, ref \in References, n \in 1..MaxAmount :
            /\ ~Recorded(u, ref, "CREDIT")
            /\ balance' = [balance EXCEPT ![u] = @ + n]
            /\ Write(u, ref, "CREDIT", n)
    BY <1>2 DEF Paid
  <2>2. balance' = [balance EXCEPT ![u] = IF "CREDIT" = "CREDIT" THEN @ + n ELSE @ - n]
    BY <2>1
  <2> QED
    BY <2>1, <2>2, EntryBalances
<1>3. CASE Drawn
  <2>1. PICK u \in Users, ref \in References, n \in 1..MaxAmount :
            /\ ~Recorded(u, ref, "DEBIT")
            /\ balance' = [balance EXCEPT ![u] = @ - n]
            /\ Write(u, ref, "DEBIT", n)
    BY <1>3 DEF Drawn
  <2>2. balance' = [balance EXCEPT ![u] = IF "DEBIT" = "CREDIT" THEN @ + n ELSE @ - n]
    BY <2>1
  <2> QED
    BY <2>1, <2>2, EntryBalances
<1> QED
  BY <1>1, <1>2, <1>3 DEF Moves

LEMMA BalancedInit == Init => Balanced
<1> SUFFICES ASSUME Init PROVE Balanced
  OBVIOUS
<1>1. IsFiniteSet(book)
  BY FS_EmptySet DEF Init
<1>2. ASSUME NEW u \in Users, NEW type
      PROVE  Cardinality(Money(book, u, type)) = 0
  <2>1. Money(book, u, type) = {}
    BY DEF Init, Money
  <2> QED
    BY <2>1, FS_EmptySet
<1>3. \A u \in Users : balance[u] = 0
  BY DEF Init
<1> QED
  BY <1>1, <1>2, <1>3 DEF Balanced, BalanceIsBook

\* I-3: what is in a wallet is what its book says, for any callers, repeats,
\* crashes and interleavings.
THEOREM BalanceIsAlwaysBook == Spec => []BalanceIsBook
<1>1. Balanced /\ WalletRows /\ [Next]_vars => Balanced'
  <2> SUFFICES ASSUME Balanced, WalletRows, [Next]_vars PROVE Balanced'
    OBVIOUS
  <2>1. CASE Next
    BY <2>1, StepMoves, MovesBalance DEF WalletRows
  <2>2. CASE UNCHANGED vars
    BY <2>2 DEF vars, Balanced, BalanceIsBook
  <2> QED
    BY <2>1, <2>2
<1>2. Balanced => BalanceIsBook
  BY DEF Balanced
<1> QED
  BY <1>1, <1>2, BalancedInit, RowsInvariant, PTL DEF Spec

-----------------------------------------------------------------------------
(***************************************************************************)
(* Refunds to the wallet and disputes of them.  What the book says of them *)
(* is tied to orders, approvals and their RefundRequests, and to how far a *)
(* request has come that four transactions separate from its end.          *)
(***************************************************************************)

\* The entries of a refund and of a dispute belong to the customer of the order.
EntriesBelong ==
    \A e \in book : e.reference[1] \in {"refund", "chargeback"} =>
        /\ order[e.reference[2]].status = "PLACED"
        /\ e.user = order[e.reference[2]].user
        /\ e.reference[1] = "refund" => e.type = "CREDIT"

\* unique(walletId, reference, type)
EntriesAreUnique ==
    \A e, f \in book : e.user = f.user /\ e.reference = f.reference /\ e.type = f.type => e = f

RefundsHaveApproval ==
    \A a \in Approvals : refund[a] # "NONE" => approval[a].status # "NONE"

Credited(a) ==
    \E e \in book : /\ e.user = order[approval[a].order].user
                    /\ e.reference = <<"refund", approval[a].order>> /\ e.type = "CREDIT"

\* A request credits only what is on record, and concludes only what was credited.
StagesFollow ==
    \A q \in Requests :
        /\ request[q].op \in {"credit", "execute"} => refund[request[q].approval] # "NONE"
        /\ request[q].op = "execute" => Credited(request[q].approval)

RefundInv ==
    /\ WalletRows
    /\ EntriesBelong
    /\ EntriesAreUnique
    /\ RefundsHaveApproval
    /\ StagesFollow
    /\ RefundIsRecorded
    /\ ExecutedWasCredited
    /\ ClawbackMatchesRefund

\* A reference is a kind and what it is of.
LEMMA ReferencePairs ==
    ASSUME NEW ref \in References
    PROVE  /\ ref = <<ref[1], ref[2]>>
           /\ ref[1] \in {"refund", "chargeback"} => ref[2] \in Orders
BY DEF References

\* An order that is there stays as it is.
LEMMA OrdersStay ==
    ASSUME WalletRows, Next, NEW o \in Orders, order[o].status = "PLACED"
    PROVE  order'[o] = order[o]
<1>1. ASSUME NEW q \in Requests, NEW p \in Orders, CommitOrder(q, p)
      PROVE  order'[o] = order[o]
  <2>1. o # p
    BY <1>1 DEF CommitOrder, None
  <2> QED
    BY <1>1, <2>1 DEF CommitOrder, WalletRows, TypeOK
<1>2. UNCHANGED order => order'[o] = order[o]
  OBVIOUS
<1> QED
  BY <1>1, <1>2 DEF Next, ReadWallet, DebitOrder, ReadApproval, RecordRefund, CreditRefund,
     ExecuteRefund, RejectRefund, Abort, PaymentFailed, RequestRefund, RefundItem, Dispute,
     OperatorCredits, OperatorDebits, Withdraw

\* An approval that is there stays, with its order.
LEMMA ApprovalsStay ==
    ASSUME WalletRows, Next, NEW a \in Approvals, approval[a].status # "NONE"
    PROVE  approval'[a].status # "NONE" /\ approval'[a].order = approval[a].order
<1> DEFINE Goal == approval'[a].status # "NONE" /\ approval'[a].order = approval[a].order
<1>1. ASSUME NEW b \in Approvals, NEW o \in Orders, NEW n \in Amounts, NEW s \in Staff,
             RequestRefund(b, o, n, s)
      PROVE  Goal
  <2>1. a # b
    BY <1>1 DEF RequestRefund, None
  <2> QED
    BY <1>1, <2>1 DEF RequestRefund, WalletRows, TypeOK
<1>2. ASSUME NEW q \in Requests, ExecuteRefund(q) \/ RejectRefund(q)
      PROVE  Goal
  <2>1. PICK v \in {"EXECUTED", "REJECTED"} :
            approval' = [approval EXCEPT ![request[q].approval].status = v]
    BY <1>2 DEF ExecuteRefund, RejectRefund
  <2>2. approval[a] \in [status : {"PENDING", "REJECTED", "EXECUTED"},
                         order : Orders, amount : Amounts, maker : Staff]
    BY DEF WalletRows, TypeOK, Approval, None
  <2>3. approval'[a] = approval[a] \/ approval'[a] = [approval[a] EXCEPT !.status = v]
    BY <2>1 DEF WalletRows, TypeOK
  <2> QED
    BY <2>2, <2>3
<1>3. UNCHANGED approval => Goal
  OBVIOUS
<1> HIDE DEF Goal
<1>4. Goal
  BY <1>1, <1>2, <1>3 DEF Next, ReadWallet, CommitOrder, DebitOrder, ReadApproval, RecordRefund,
     CreditRefund, Abort, PaymentFailed, RefundItem, Dispute, OperatorCredits, OperatorDebits,
     Withdraw
<1> QED
  BY <1>4 DEF Goal

\* A RefundRequest that is there stays; one is written for an approval that is there.
LEMMA RefundsStay ==
    ASSUME WalletRows, Next, NEW a \in Approvals
    PROVE  /\ refund[a] # "NONE" => refund'[a] # "NONE"
           /\ refund[a] = "NONE" /\ refund'[a] # "NONE" => approval[a].status # "NONE"
<1> DEFINE Goal == /\ refund[a] # "NONE" => refund'[a] # "NONE"
                   /\ refund[a] = "NONE" /\ refund'[a] # "NONE" => approval[a].status # "NONE"
<1>1. ASSUME NEW q \in Requests, RecordRefund(q) \/ ExecuteRefund(q)
      PROVE  Goal
  <2>1. PICK v \in {"PROCESSING", "COMPLETED"} : refund' = [refund EXCEPT ![request[q].approval] = v]
    BY <1>1 DEF RecordRefund, ExecuteRefund
  <2>2. approval[request[q].approval].status # "NONE"
    BY <1>1 DEF RecordRefund, ExecuteRefund, WalletRows, Linked
  <2>3. refund'[a] = IF a = request[q].approval THEN v ELSE refund[a]
    BY <2>1 DEF WalletRows, TypeOK
  <2> QED
    BY <2>2, <2>3
<1>2. UNCHANGED refund => Goal
  OBVIOUS
<1> HIDE DEF Goal
<1>3. Goal
  BY <1>1, <1>2 DEF Next, ReadWallet, CommitOrder, DebitOrder, ReadApproval, CreditRefund,
     RejectRefund, Abort, PaymentFailed, RequestRefund, RefundItem, Dispute, OperatorCredits,
     OperatorDebits, Withdraw
<1> QED
  BY <1>3 DEF Goal

\* What a step may add to the book: the refund of an approval that is on record, a
\* dispute of what was refunded, or something of another kind.
NewRefund(r) ==
    \E q \in Requests :
        /\ CreditRefund(q)
        /\ r.reference = <<"refund", approval[request[q].approval].order>>
        /\ r.user = order[approval[request[q].approval].order].user
        /\ r.type = "CREDIT"

NewClawback(r) ==
    \E o \in Orders, f \in book :
        /\ order[o].status = "PLACED"
        /\ f.user = order[o].user /\ f.reference = <<"refund", o>> /\ f.type = "CREDIT"
        /\ r.reference = <<"chargeback", o>> /\ r.user = f.user /\ r.amount = f.amount

NewEntry ==
    \E r \in Entries :
        /\ book' = book \cup {r}
        /\ ~Recorded(r.user, r.reference, r.type)
        /\ NewRefund(r) \/ NewClawback(r) \/ r.reference[1] \notin {"refund", "chargeback"}

\* A wallet adds the entry it is asked for, once.
LEMMA WalletWrites ==
    ASSUME NEW u \in Users, NEW ref \in References, NEW n \in 1..MaxAmount,
           NEW type \in {"CREDIT", "DEBIT"},
           \/ type = "CREDIT" /\ Credit(u, ref, n)
           \/ type = "DEBIT" /\ Debit(u, ref, n)
    PROVE  \/ UNCHANGED book
           \/ \E r \in Entries : /\ r.user = u /\ r.reference = ref /\ r.type = type /\ r.amount = n
                                 /\ book' = book \cup {r} /\ ~Recorded(u, ref, type)
<1> DEFINE r == [user |-> u, reference |-> ref, type |-> type, amount |-> n]
<1>1. r \in Entries /\ r.user = u /\ r.reference = ref /\ r.type = type /\ r.amount = n
  BY DEF Entries
<1>2. UNCHANGED book \/ (book' = book \cup {r} /\ ~Recorded(u, ref, type))
  BY DEF Credit, Debit, walletVars, Write
<1> HIDE DEF r
<1> QED
  BY <1>1, <1>2

\* Whichever caller takes a step, the book stays or gets one such entry.
LEMMA StepWrites ==
    ASSUME WalletRows, Next
    PROVE  UNCHANGED book \/ NewEntry
<1> USE DEF WalletRows
<1>1. ASSUME NEW u \in Users, NEW ref \in References, NEW n \in 1..MaxAmount,
             ref[1] \notin {"refund", "chargeback"}, Credit(u, ref, n) \/ Debit(u, ref, n)
      PROVE  UNCHANGED book \/ NewEntry
  BY <1>1, WalletWrites DEF NewEntry
<1>2. ASSUME NEW q \in Requests, DebitOrder(q)
      PROVE  UNCHANGED book \/ NewEntry
  <2>1. PICK o : o = request[q].order
    OBVIOUS
  <2>2. o \in Orders /\ order[o].status = "PLACED" /\ order[o].used > 0
    BY <1>2, <2>1, RequestType DEF DebitOrder, Linked
  <2>3. order[o].user \in Users /\ order[o].used \in 1..MaxAmount
    BY <2>2, OrderRowType, AmountsAssumption
  <2>4. Debit(order[o].user, <<"order", o>>, order[o].used) \/ UNCHANGED book
    BY <1>2, <2>1 DEF DebitOrder, walletVars
  <2>5. <<"order", o>> \in References /\ <<"order", o>>[1] = "order"
    BY <2>2, ReferenceTypes
  <2> QED
    BY <1>1, <2>3, <2>4, <2>5
<1>3. ASSUME NEW q \in Requests, CreditRefund(q)
      PROVE  UNCHANGED book \/ NewEntry
  <2>1. PICK a : a = request[q].approval
    OBVIOUS
  <2>2. PICK o : o = approval[a].order
    OBVIOUS
  <2>3. a \in Approvals /\ approval[a].status # "NONE"
    BY <1>3, <2>1, RequestType DEF CreditRefund, Linked
  <2>4. o \in Orders /\ order[o].status = "PLACED" /\ approval[a].amount \in 1..MaxAmount
    BY <2>2, <2>3, ApprovalRowType DEF Linked
  <2>5. order[o].user \in Users /\ <<"refund", o>> \in References
    BY <2>4, OrderRowType, ReferenceTypes
  <2>6. Credit(order[o].user, <<"refund", o>>, approval[a].amount)
    BY <1>3, <2>1, <2>2 DEF CreditRefund
  <2>7. \/ UNCHANGED book
        \/ \E r \in Entries :
              /\ r.user = order[o].user /\ r.reference = <<"refund", o>> /\ r.type = "CREDIT"
              /\ book' = book \cup {r} /\ ~Recorded(order[o].user, <<"refund", o>>, "CREDIT")
    BY <2>4, <2>5, <2>6, WalletWrites
  <2> QED
    BY <1>3, <2>1, <2>2, <2>7 DEF NewEntry, NewRefund
<1>4. ASSUME NEW o \in Orders, PaymentFailed(o)
      PROVE  UNCHANGED book \/ NewEntry
  <2>1. order[o].user \in Users /\ order[o].used \in 1..MaxAmount
    BY <1>4, OrderRowType, AmountsAssumption DEF PaymentFailed
  <2>2. <<"reversal", o>> \in References /\ <<"reversal", o>>[1] = "reversal"
    BY ReferenceTypes
  <2> QED
    BY <1>1, <1>4, <2>1, <2>2 DEF PaymentFailed
<1>5. ASSUME NEW o \in Orders, NEW n \in Amounts, RefundItem(o, n)
      PROVE  NewEntry
  <2>1. order[o].user \in Users /\ n \in 1..MaxAmount
    BY <1>5, OrderRowType, AmountsAssumption DEF RefundItem
  <2>2. <<"item", o>> \in References /\ <<"item", o>>[1] = "item"
    BY ReferenceTypes
  <2> DEFINE r == [user |-> order[o].user, reference |-> <<"item", o>>, type |-> "CREDIT",
                   amount |-> n]
  <2>3. /\ r \in Entries /\ r.user = order[o].user /\ r.reference = <<"item", o>>
        /\ r.type = "CREDIT"
    BY <2>1, <2>2 DEF Entries
  <2>4. book' = book \cup {r} /\ ~Recorded(order[o].user, <<"item", o>>, "CREDIT")
    BY <1>5 DEF RefundItem, Write
  <2> HIDE DEF r
  <2> QED
    BY <2>2, <2>3, <2>4 DEF NewEntry
<1>6. ASSUME NEW o \in Orders, Dispute(o)
      PROVE  UNCHANGED book \/ NewEntry
  <2>1. PICK f \in book : /\ f.user = order[o].user /\ f.reference = <<"refund", o>>
                          /\ f.type = "CREDIT" /\ Debit(f.user, <<"chargeback", o>>, f.amount)
    BY <1>6 DEF Dispute
  <2>2. f.user \in Users /\ f.amount \in 1..MaxAmount /\ order[o].status = "PLACED"
    BY <1>6 DEF TypeOK, Entries, Dispute
  <2>3. <<"chargeback", o>> \in References
    BY ReferenceTypes
  <2>4. \/ UNCHANGED book
        \/ \E r \in Entries :
              /\ r.user = f.user /\ r.reference = <<"chargeback", o>> /\ r.type = "DEBIT"
              /\ r.amount = f.amount
              /\ book' = book \cup {r} /\ ~Recorded(f.user, <<"chargeback", o>>, "DEBIT")
    BY <2>1, <2>2, <2>3, WalletWrites
  <2> QED
    BY <2>1, <2>2, <2>4 DEF NewEntry, NewClawback
<1>7. ASSUME NEW u \in Users, NEW k \in Vouchers, NEW n \in Amounts,
             OperatorCredits(u, k, n) \/ OperatorDebits(u, k, n) \/ Withdraw(u, k, n)
      PROVE  UNCHANGED book \/ NewEntry
  <2>1. n \in 1..MaxAmount
    BY AmountsAssumption
  <2>2. /\ <<"operator", k>> \in References /\ <<"operator", k>>[1] = "operator"
        /\ <<"withdrawal", k>> \in References /\ <<"withdrawal", k>>[1] = "withdrawal"
    BY ReferenceTypes
  <2> QED
    BY <1>1, <1>7, <2>1, <2>2 DEF OperatorCredits, OperatorDebits, Withdraw
<1> QED
  BY <1>2, <1>3, <1>4, <1>5, <1>6, <1>7 DEF Next, ReadWallet, CommitOrder, ReadApproval,
     RecordRefund, ExecuteRefund, RejectRefund, Abort, RequestRefund, walletVars

\* What was credited for an approval stays credited for it.
LEMMA CreditedStays ==
    ASSUME WalletRows, Next, NEW a \in Approvals, approval[a].status # "NONE", Credited(a)
    PROVE  Credited(a)'
<1>1. PICK o : o = approval[a].order
  OBVIOUS
<1>2. o \in Orders /\ order[o].status = "PLACED"
  BY <1>1, ApprovalRowType DEF WalletRows, Linked
<1>3. order'[o] = order[o]
  BY <1>2, OrdersStay
<1>4. approval'[a].order = o
  BY <1>1, ApprovalsStay
<1>5. PICK e \in book : e.user = order[o].user /\ e.reference = <<"refund", o>> /\ e.type = "CREDIT"
  BY <1>1 DEF Credited
<1>6. e \in book'
  BY StepWrites DEF NewEntry
<1> QED
  BY <1>3, <1>4, <1>5, <1>6 DEF Credited

\* A new entry has no twin, and that of a refund or a dispute is its customer's.
LEMMA BelongingKept ==
    ASSUME RefundInv, Next
    PROVE  EntriesBelong' /\ EntriesAreUnique'
<1>0. WalletRows /\ EntriesBelong /\ EntriesAreUnique /\ book \subseteq Entries
  BY DEF RefundInv, WalletRows, TypeOK
<1>1. ASSUME NEW e \in book, e.reference[1] \in {"refund", "chargeback"}
      PROVE  /\ order'[e.reference[2]].status = "PLACED"
             /\ e.user = order'[e.reference[2]].user
             /\ e.reference[1] = "refund" => e.type = "CREDIT"
  <2>1. e.reference \in References
    BY <1>0 DEF Entries
  <2>2. PICK o \in Orders : o = e.reference[2]
    BY <1>1, <2>1, ReferencePairs
  <2>3. order[o].status = "PLACED" /\ e.user = order[o].user /\ (e.reference[1] = "refund" => e.type = "CREDIT")
    BY <1>0, <1>1, <2>2 DEF EntriesBelong
  <2> QED
    BY <1>0, <2>2, <2>3, OrdersStay
<1>2. ASSUME NEW r, NewRefund(r) \/ NewClawback(r)
      PROVE  /\ order'[r.reference[2]].status = "PLACED"
             /\ r.user = order'[r.reference[2]].user
             /\ r.reference[1] = "refund" => r.type = "CREDIT"
  <2>1. PICK o \in Orders : /\ order[o].status = "PLACED" /\ r.user = order[o].user
                            /\ r.reference[2] = o /\ (r.reference[1] = "refund" => r.type = "CREDIT")
    <3>1. CASE NewClawback(r)
      BY <3>1 DEF NewClawback
    <3>2. CASE NewRefund(r)
      <4>1. PICK q \in Requests : /\ request[q].op = "credit"
               /\ r.reference = <<"refund", approval[request[q].approval].order>>
               /\ r.user = order[approval[request[q].approval].order].user
               /\ r.type = "CREDIT"
        BY <3>2 DEF NewRefund, CreditRefund
      <4>2. request[q].approval \in Approvals /\ approval[request[q].approval].status # "NONE"
        BY <1>0, <4>1, RequestType DEF WalletRows, Linked
      <4>3. /\ approval[request[q].approval].order \in Orders
            /\ order[approval[request[q].approval].order].status = "PLACED"
        BY <1>0, <4>2, ApprovalRowType DEF WalletRows, Linked
      <4> QED
        BY <4>1, <4>3
    <3> QED
      BY <1>2, <3>1, <3>2
  <2> QED
    BY <1>0, <2>1, OrdersStay
<1>3. CASE UNCHANGED book
  BY <1>0, <1>1, <1>3 DEF EntriesBelong, EntriesAreUnique
<1>4. CASE NewEntry
  <2>1. PICK r \in Entries :
            /\ book' = book \cup {r}
            /\ ~Recorded(r.user, r.reference, r.type)
            /\ NewRefund(r) \/ NewClawback(r) \/ r.reference[1] \notin {"refund", "chargeback"}
    BY <1>4 DEF NewEntry
  <2>2. EntriesBelong'
    BY <1>1, <1>2, <2>1 DEF EntriesBelong
  <2>3. EntriesAreUnique'
    BY <1>0, <2>1 DEF EntriesAreUnique, Recorded
  <2> QED
    BY <2>2, <2>3
<1> QED
  BY <1>0, <1>3, <1>4, StepWrites

\* How the four transactions of an approval move a request on.
LEMMA StagesMove ==
    ASSUME WalletRows, Next, NEW p \in Requests
    PROVE  \/ request'[p] = request[p]
           \/ request'[p].op \notin {"credit", "execute"}
           \/ RecordRefund(p) /\ request'[p].op = "credit" /\ request'[p].approval = request[p].approval
           \/ CreditRefund(p) /\ request'[p].op = "execute" /\ request'[p].approval = request[p].approval
<1> DEFINE Goal ==
           \/ request'[p] = request[p]
           \/ request'[p].op \notin {"credit", "execute"}
           \/ RecordRefund(p) /\ request'[p].op = "credit" /\ request'[p].approval = request[p].approval
           \/ CreditRefund(p) /\ request'[p].op = "execute" /\ request'[p].approval = request[p].approval
<1>1. ASSUME NEW q \in Requests, NEW r, request' = [request EXCEPT ![q] = r],
             r.op \notin {"credit", "execute"}
      PROVE  Goal
  BY <1>1 DEF WalletRows, TypeOK
<1>2. ASSUME NEW q \in Requests, RecordRefund(q) \/ CreditRefund(q)
      PROVE  Goal
  <2>1. request[q] \in [op : {"record", "credit", "execute", "reject"}, approval : Approvals]
    BY <1>2 DEF RecordRefund, CreditRefund, WalletRows, TypeOK, Request, Idle
  <2>2. CASE p # q
    BY <1>2, <2>2 DEF RecordRefund, CreditRefund, WalletRows, TypeOK
  <2>3. CASE p = q /\ RecordRefund(q)
    <3>1. request'[q] = [request[q] EXCEPT !.op = "credit"]
      BY <2>3 DEF RecordRefund, WalletRows, TypeOK
    <3> QED
      BY <2>1, <2>3, <3>1
  <2>4. CASE p = q /\ CreditRefund(q)
    <3>1. request'[q] = [request[q] EXCEPT !.op = "execute"]
      BY <2>4 DEF CreditRefund, WalletRows, TypeOK
    <3> QED
      BY <2>1, <2>4, <3>1
  <2> QED
    BY <1>2, <2>2, <2>3, <2>4
<1>3. UNCHANGED request => Goal
  OBVIOUS
<1> HIDE DEF Goal
<1>4. ASSUME NEW q \in Requests, Reply(q) PROVE Goal
  BY <1>1, <1>4 DEF Reply, Idle
<1>5. ASSUME NEW q \in Requests, NEW u \in Users, NEW n \in {0} \cup Amounts, ReadWallet(q, u, n)
      PROVE  Goal
  BY <1>1, <1>5 DEF ReadWallet
<1>6. ASSUME NEW q \in Requests, NEW o \in Orders, CommitOrder(q, o) PROVE Goal
  BY <1>1, <1>6 DEF CommitOrder, Idle
<1>7. ASSUME NEW q \in Requests, NEW a \in Approvals, NEW s \in Staff, NEW next \in {"record", "reject"},
             ReadApproval(q, a, s, next)
      PROVE  Goal
  BY <1>1, <1>7 DEF ReadApproval
<1>8. Goal
  BY <1>2, <1>3, <1>4, <1>5, <1>6, <1>7 DEF Next, DebitOrder, ExecuteRefund, RejectRefund, Abort,
     PaymentFailed, RequestRefund, RefundItem, Dispute, OperatorCredits, OperatorDebits, Withdraw
<1> QED
  BY <1>8 DEF Goal

\* The credit of a refund leaves it in the book, made now or before.
LEMMA RefundIsCredited ==
    ASSUME NEW q \in Requests, CreditRefund(q), NEW a, a = request[q].approval
    PROVE  Credited(a)'
<1>1. PICK o : o = approval[a].order
  OBVIOUS
<1>2. UNCHANGED <<order, approval>> /\ Credit(order[o].user, <<"refund", o>>, approval[a].amount)
  BY <1>1 DEF CreditRefund
<1> DEFINE e == [user |-> order[o].user, reference |-> <<"refund", o>>, type |-> "CREDIT",
                 amount |-> approval[a].amount]
<1>3. \/ UNCHANGED book /\ Recorded(order[o].user, <<"refund", o>>, "CREDIT")
      \/ book' = book \cup {e}
  BY <1>2 DEF Credit, Write, walletVars
<1>4. e.user = order[o].user /\ e.reference = <<"refund", o>> /\ e.type = "CREDIT"
  OBVIOUS
<1> HIDE DEF e
<1>5. \E f \in book' : f.user = order[o].user /\ f.reference = <<"refund", o>> /\ f.type = "CREDIT"
  BY <1>3, <1>4 DEF Recorded
<1> QED
  BY <1>1, <1>2, <1>5 DEF Credited

\* A refund or an approval is concluded by the last transaction of an approval.
LEMMA Concludes ==
    ASSUME WalletRows, Next, NEW a \in Approvals, refund'[a] = "COMPLETED" \/ approval'[a].status = "EXECUTED"
    PROVE  \/ refund[a] = "COMPLETED" \/ approval[a].status = "EXECUTED"
           \/ \E q \in Requests : ExecuteRefund(q) /\ a = request[q].approval
<1> DEFINE Goal == \/ refund[a] = "COMPLETED" \/ approval[a].status = "EXECUTED"
                   \/ \E q \in Requests : ExecuteRefund(q) /\ a = request[q].approval
<1>1. ASSUME NEW q \in Requests, ExecuteRefund(q)
      PROVE  Goal
  <2>1. CASE a = request[q].approval
    BY <1>1, <2>1
  <2>2. CASE a # request[q].approval
    BY <1>1, <2>2 DEF ExecuteRefund, WalletRows, TypeOK
  <2> QED
    BY <2>1, <2>2
<1>2. ASSUME NEW q \in Requests, RejectRefund(q)
      PROVE  Goal
  <2>1. UNCHANGED refund /\ approval' = [approval EXCEPT ![request[q].approval].status = "REJECTED"]
    BY <1>2 DEF RejectRefund
  <2>2. request[q].approval \in Approvals /\ approval[request[q].approval].status # "NONE"
    BY <1>2, RequestType DEF RejectRefund, WalletRows, Linked
  <2>3. CASE a = request[q].approval
    <3>1. approval[a] \in [status : {"PENDING", "REJECTED", "EXECUTED"},
                           order : Orders, amount : Amounts, maker : Staff]
      BY <2>2, <2>3 DEF WalletRows, TypeOK, Approval, None
    <3>2. approval'[a].status = "REJECTED"
      BY <2>1, <2>3, <3>1 DEF WalletRows, TypeOK
    <3> QED
      BY <2>1, <3>2
  <2>4. CASE a # request[q].approval
    BY <2>1, <2>4 DEF WalletRows, TypeOK
  <2> QED
    BY <2>3, <2>4
<1>3. ASSUME NEW q \in Requests, RecordRefund(q)
      PROVE  Goal
  BY <1>3 DEF RecordRefund, WalletRows, TypeOK
<1>4. ASSUME NEW b \in Approvals, NEW o \in Orders, NEW n \in Amounts, NEW s \in Staff,
             RequestRefund(b, o, n, s)
      PROVE  Goal
  BY <1>4 DEF RequestRefund, WalletRows, TypeOK
<1>5. UNCHANGED <<approval, refund>> => Goal
  OBVIOUS
<1> HIDE DEF Goal
<1>6. Goal
  BY <1>1, <1>2, <1>3, <1>4, <1>5 DEF Next, ReadWallet, CommitOrder, DebitOrder, ReadApproval,
     CreditRefund, Abort, PaymentFailed, RefundItem, Dispute, OperatorCredits, OperatorDebits,
     Withdraw
<1> QED
  BY <1>6 DEF Goal

\* How far a request has come stays true of the tables.
LEMMA StagesKept ==
    ASSUME RefundInv, Next
    PROVE  StagesFollow'
<1>0. WalletRows /\ StagesFollow
  BY DEF RefundInv
<1> SUFFICES ASSUME NEW p \in Requests
             PROVE  /\ request'[p].op \in {"credit", "execute"} => refund'[request'[p].approval] # "NONE"
                    /\ request'[p].op = "execute" => Credited(request[p].approval)'
  BY DEF StagesFollow
<1>1. ASSUME NEW a \in Approvals, request'[p].approval = a, request'[p].op \in {"credit", "execute"},
             refund'[a] # "NONE", request'[p].op = "execute" => Credited(a)'
      PROVE  /\ refund'[request'[p].approval] # "NONE"
             /\ request'[p].op = "execute" => Credited(request[p].approval)'
  BY <1>1
<1>2. CASE request'[p] = request[p] /\ request[p].op \in {"credit", "execute"}
  <2>1. PICK a \in Approvals : a = request[p].approval /\ approval[a].status # "NONE"
    BY <1>0, <1>2, RequestType DEF WalletRows, Linked
  <2>2. refund[a] # "NONE" /\ (request[p].op = "execute" => Credited(a))
    BY <1>0, <1>2, <2>1 DEF StagesFollow
  <2> QED
    BY <1>0, <1>1, <1>2, <2>1, <2>2, RefundsStay, CreditedStays
<1>3. CASE RecordRefund(p) /\ request'[p].op = "credit" /\ request'[p].approval = request[p].approval
  <2>1. PICK a \in Approvals : a = request[p].approval
    BY <1>0, <1>3, RequestType DEF WalletRows, RecordRefund
  <2>2. refund'[a] = "PROCESSING"
    BY <1>0, <1>3, <2>1 DEF RecordRefund, WalletRows, TypeOK
  <2> QED
    BY <1>1, <1>3, <2>1, <2>2
<1>4. CASE CreditRefund(p) /\ request'[p].op = "execute" /\ request'[p].approval = request[p].approval
  <2>1. PICK a \in Approvals : a = request[p].approval
    BY <1>0, <1>4, RequestType DEF WalletRows, CreditRefund
  <2>2. refund[a] # "NONE"
    BY <1>0, <1>4, <2>1 DEF StagesFollow, CreditRefund
  <2>3. Credited(a)'
    BY <1>4, <2>1, RefundIsCredited
  <2> QED
    BY <1>0, <1>1, <1>4, <2>1, <2>2, <2>3, RefundsStay
<1> QED
  BY <1>0, <1>2, <1>3, <1>4, StagesMove

\* A refund reaches the book after its RefundRequest, which stays.
LEMMA RecordsKept ==
    ASSUME RefundInv, Next
    PROVE  RefundIsRecorded'
<1>0. WalletRows /\ RefundIsRecorded /\ StagesFollow /\ book \subseteq Entries
  BY DEF RefundInv, WalletRows, TypeOK
<1>1. ASSUME NEW a \in Approvals, approval[a].status # "NONE", refund[a] # "NONE"
      PROVE  /\ approval'[a].status # "NONE" /\ refund'[a] # "NONE"
             /\ approval'[a].order = approval[a].order
  BY <1>0, <1>1, ApprovalsStay, RefundsStay
<1>2. ASSUME NEW e \in book, e.reference[1] = "refund"
      PROVE  \E a \in Approvals : /\ approval'[a].status # "NONE" /\ refund'[a] # "NONE"
                                  /\ approval'[a].order = e.reference[2]
  <2>1. PICK a \in Approvals : /\ approval[a].status # "NONE" /\ refund[a] # "NONE"
                               /\ approval[a].order = e.reference[2]
    BY <1>0, <1>2 DEF RefundIsRecorded
  <2> QED
    BY <1>1, <2>1
<1>3. ASSUME NEW r, NewRefund(r)
      PROVE  \E a \in Approvals : /\ approval'[a].status # "NONE" /\ refund'[a] # "NONE"
                                  /\ approval'[a].order = r.reference[2]
  <2>1. PICK q \in Requests : request[q].op = "credit"
                              /\ r.reference = <<"refund", approval[request[q].approval].order>>
    BY <1>3 DEF NewRefund, CreditRefund
  <2>2. PICK a \in Approvals : a = request[q].approval /\ approval[a].status # "NONE"
    BY <1>0, <2>1, RequestType DEF WalletRows, Linked
  <2>3. refund[a] # "NONE" /\ r.reference[2] = approval[a].order
    BY <1>0, <2>1, <2>2 DEF StagesFollow
  <2> QED
    BY <1>1, <2>2, <2>3
<1>4. ASSUME NEW e \in book', e.reference[1] = "refund"
      PROVE  e \in book \/ NewRefund(e)
  BY <1>0, <1>4, StepWrites DEF NewEntry, NewClawback
<1> QED
  BY <1>2, <1>3, <1>4 DEF RefundIsRecorded

\* Who concludes has credited, and what was credited stays.
LEMMA ExecutionsKept ==
    ASSUME RefundInv, Next
    PROVE  ExecutedWasCredited'
<1>0. WalletRows /\ ExecutedWasCredited /\ StagesFollow /\ RefundsHaveApproval
  BY DEF RefundInv
<1>1. ASSUME NEW a \in Approvals, refund'[a] = "COMPLETED" \/ approval'[a].status = "EXECUTED"
      PROVE  Credited(a)'
  <2>1. CASE refund[a] = "COMPLETED" \/ approval[a].status = "EXECUTED"
    <3>1. approval[a].status # "NONE"
      BY <1>0, <2>1 DEF RefundsHaveApproval
    <3>2. Credited(a)
      BY <1>0, <2>1 DEF ExecutedWasCredited, Recorded, Credited
    <3> QED
      BY <1>0, <3>1, <3>2, CreditedStays
  <2>2. CASE \E q \in Requests : ExecuteRefund(q) /\ a = request[q].approval
    <3>1. PICK q \in Requests : request[q].op = "execute" /\ a = request[q].approval
      BY <2>2 DEF ExecuteRefund
    <3>2. approval[a].status # "NONE" /\ Credited(a)
      BY <1>0, <3>1 DEF WalletRows, Linked, StagesFollow
    <3> QED
      BY <1>0, <3>2, CreditedStays
  <2> QED
    BY <1>0, <1>1, <2>1, <2>2, Concludes
<1> QED
  BY <1>1 DEF ExecutedWasCredited, Recorded, Credited

\* A dispute looks for the refund it takes back.
LEMMA ClawbacksKept ==
    ASSUME RefundInv, Next
    PROVE  ClawbackMatchesRefund'
<1>0. WalletRows /\ ClawbackMatchesRefund
  BY DEF RefundInv
<1>1. book \subseteq book'
  BY <1>0, StepWrites DEF NewEntry
<1>2. ASSUME NEW e \in book', e.reference[1] = "chargeback"
      PROVE  e \in book \/ NewClawback(e)
  BY <1>0, <1>2, StepWrites DEF NewEntry, NewRefund
<1>3. ASSUME NEW e, NewClawback(e)
      PROVE  \E f \in book : /\ f.reference = <<"refund", e.reference[2]>>
                             /\ f.type = "CREDIT" /\ f.user = e.user /\ f.amount = e.amount
  BY <1>3 DEF NewClawback
<1> QED
  BY <1>0, <1>1, <1>2, <1>3 DEF ClawbackMatchesRefund

\* The order's refund has one customer, one reference and one type.
LEMMA PaidOnce == RefundInv => RefundedOnce
<1> SUFFICES ASSUME RefundInv, NEW e \in book, NEW f \in book,
                    e.reference[1] = "refund", f.reference[1] = "refund",
                    e.reference[2] = f.reference[2]
             PROVE  e = f
  BY DEF RefundedOnce
<1>1. /\ e.user = order[e.reference[2]].user /\ e.type = "CREDIT"
      /\ f.user = order[f.reference[2]].user /\ f.type = "CREDIT"
  BY DEF RefundInv, EntriesBelong
<1>2. e.reference \in References /\ f.reference \in References
  BY DEF RefundInv, WalletRows, TypeOK, Entries
<1>3. e.reference = f.reference
  BY <1>2, ReferencePairs
<1> QED
  BY <1>1, <1>3 DEF RefundInv, EntriesAreUnique

\* All of it together.
LEMMA RefundInvariant == Spec => []RefundInv
<1>1. Init => RefundInv
  BY TypeInit DEF Init, RefundInv, WalletRows, Linked, None, Idle, EntriesBelong, EntriesAreUnique,
     RefundsHaveApproval, StagesFollow, RefundIsRecorded, ExecutedWasCredited, ClawbackMatchesRefund
<1>2. RefundInv /\ WalletRows' /\ [Next]_vars => RefundInv'
  <2> SUFFICES ASSUME RefundInv, WalletRows', [Next]_vars PROVE RefundInv'
    OBVIOUS
  <2>1. CASE Next
    <3>1. RefundsHaveApproval'
      BY <2>1, RefundsStay, ApprovalsStay DEF RefundInv, RefundsHaveApproval
    <3> QED
      BY <2>1, <3>1, BelongingKept, StagesKept, RecordsKept, ExecutionsKept, ClawbacksKept
         DEF RefundInv
  <2>2. CASE UNCHANGED vars
    BY <2>2 DEF vars, RefundInv, EntriesBelong, EntriesAreUnique, RefundsHaveApproval, StagesFollow,
       Credited, RefundIsRecorded, ExecutedWasCredited, Recorded, ClawbackMatchesRefund
  <2> QED
    BY <2>1, <2>2
<1> QED
  BY <1>1, <1>2, RowsInvariant, PTL DEF Spec

\* admin.service.ts:603: no money of a refund moves without its row, no approval is
\* EXECUTED without the money, and no refund is credited twice, wherever any
\* number of approvals of any number of staff stop between their transactions.
THEOREM RefundsAreAlwaysOnRecord == Spec => []RefundsAreOnRecord
<1>1. RefundInv => RefundsAreOnRecord
  BY PaidOnce DEF RefundInv, RefundsAreOnRecord
<1> QED
  BY <1>1, RefundInvariant, PTL

\* payments.service.ts:467: a dispute takes back exactly what was refunded to the
\* wallet, however often and between what it is delivered.
THEOREM ClawbacksAlwaysMatch == Spec => []ClawbackMatchesRefund
<1>1. RefundInv => ClawbackMatchesRefund
  BY DEF RefundInv
<1> QED
  BY <1>1, RefundInvariant, PTL
=============================================================================
