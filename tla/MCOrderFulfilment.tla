-------------------------- MODULE MCOrderFulfilment --------------------------
(***************************************************************************)
(* Finite instances of OrderFulfilment for TLC.                            *)
(***************************************************************************)
EXTENDS OrderFulfilment, TLC

CONSTANTS v1, v2

\* One line or two.
SomeCarts == {v1 :> 1 @@ v2 :> 0, v1 :> 1 @@ v2 :> 1}
SomeStock == v1 :> 2 @@ v2 :> 2

\* One line of one unit.
OneVariantCarts == {[v \in {v1} |-> 1]}
OneVariantStock == [v \in {v1} |-> 2]

\* What a careful operator does; SHIPPED may be submitted twice.
ForwardMoves ==
    {<<"PENDING", "CONFIRMED">>, <<"CONFIRMED", "PROCESSING">>, <<"PENDING", "SHIPPED">>,
     <<"CONFIRMED", "SHIPPED">>, <<"PROCESSING", "SHIPPED">>, <<"SHIPPED", "SHIPPED">>,
     <<"SHIPPED", "DELIVERED">>}
\* Those of them that move no stock.
StocklessMoves == {<<"CONFIRMED", "PROCESSING">>, <<"SHIPPED", "DELIVERED">>}
NoMoves == {}

\* Requests wait until the one before them about the same order is answered.
SerialSpec == Init /\ [][Next /\ Apart']_vars

Symmetry == Permutations(Requests)
=============================================================================
