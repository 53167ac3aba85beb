------------------------------ MODULE MCOrders ------------------------------
(* A small instance of the order service in front of the wallet service. *)
EXTENDS OrderClient, TLC

CONSTANTS w1, o1, o2, k1, n1, c1, c2, c3

MCCanon      == [n \in Names |-> n]
CallSymmetry == Permutations(Calls)

\* Two orders of which the wallet can pay one, a topup that pays for the second,
\* and a refund of whatever was charged first.
ShopRequests ==
  {OrderRequest(o) : o \in Orders}
    \cup {[op |-> TOPUP, name |-> w1, amount |-> 1, key |-> None,
           original |-> None, note |-> n1],
          [op |-> REFUND, name |-> w1, amount |-> 0, key |-> k1,
           original |-> <<w1, 1>>, note |-> n1]}
=============================================================================
