---------------------------- MODULE TwoPhaseRefund ----------------------------
(***************************************************************************)
(* What a refund to the card promises, for each order on its own: at most  *)
(* one caller at a time holds a claim of the order, from when it made it   *)
(* until it ends or somebody writes over it; and the books say that money  *)
(* went back only after it did, to the card or, for the order as a whole,  *)
(* to the wallet.  Who calls, what the rows look like and how often the    *)
(* gateway is asked is left open.                                          *)
(***************************************************************************)
CONSTANTS Orders, Callers

VARIABLES
    claimants,   \* callers that hold a claim of the order
    returned,    \* the gateway has given money of the order back
    credited,    \* orders of which an item was paid back to the wallet
    completed,   \* the record of the refund to the card says that it was made
    refunded     \* the order says that it was refunded

books == <<completed, refunded>>

TypeOK ==
    /\ claimants \in [Orders -> SUBSET Callers]
    /\ returned \in [Orders -> BOOLEAN]
    /\ credited \subseteq Orders
    /\ completed \in [Orders -> BOOLEAN]
    /\ refunded \in [Orders -> BOOLEAN]

Init ==
    /\ claimants = [o \in Orders |-> {}]
    /\ returned = [o \in Orders |-> FALSE]
    /\ credited = {}
    /\ completed = [o \in Orders |-> FALSE]
    /\ refunded = [o \in Orders |-> FALSE]

Claim(o, c) ==
    /\ claimants[o] = {}
    /\ claimants' = [claimants EXCEPT ![o] = {c}]
    /\ UNCHANGED <<returned, credited, books>>

\* The refund is made, given up or abandoned, or its claim is written over.
Quit(o, c) ==
    /\ claimants[o] = {c}
    /\ claimants' = [claimants EXCEPT ![o] = {}]
    /\ UNCHANGED <<returned, credited, refunded>>
    /\ \/ UNCHANGED completed
       \/ returned[o] /\ completed' = [completed EXCEPT ![o] = TRUE]

\* The gateway gives money back, whoever asked it to.
Return(o) ==
    /\ returned' = [returned EXCEPT ![o] = TRUE]
    /\ UNCHANGED <<claimants, credited, books>>

\* An item is paid back to the wallet, and may be the last one of the order.
Credit(o) ==
    /\ credited' = credited \cup {o}
    /\ \E r \in BOOLEAN : refunded' = [refunded EXCEPT ![o] = r]
    /\ UNCHANGED <<claimants, returned, completed>>

Complete(o) ==
    /\ returned[o]
    /\ completed' = [completed EXCEPT ![o] = TRUE]
    /\ UNCHANGED <<claimants, returned, credited, refunded>>

Refund(o) ==
    /\ returned[o]
    /\ refunded' = [refunded EXCEPT ![o] = TRUE]
    /\ UNCHANGED <<claimants, returned, credited, completed>>

\* A later record says otherwise.
Reopen(o) ==
    /\ completed' = [completed EXCEPT ![o] = FALSE]
    /\ UNCHANGED <<claimants, returned, credited, refunded>>

Unrefund(o) ==
    /\ refunded' = [refunded EXCEPT ![o] = FALSE]
    /\ UNCHANGED <<claimants, returned, credited, completed>>

Next ==
    \E o \in Orders :
        \/ \E c \in Callers : Claim(o, c) \/ Quit(o, c)
        \/ Return(o) \/ Credit(o)
        \/ Complete(o) \/ Refund(o)
        \/ Reopen(o) \/ Unrefund(o)

Spec == Init /\ [][Next]_<<claimants, returned, credited, books>>
=============================================================================
