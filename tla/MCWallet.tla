------------------------------ MODULE MCWallet ------------------------------
(* Small instances of the wallet service for TLC. *)
EXTENDS DocClaims, TLC

CONSTANTS w1, w2, alias, k1, k2, n1, n2, c1, c2, c3

\* Two spellings of w1; `alias` differs from the canonical one.
MCCanon == [n \in Names |-> IF n = alias THEN w1 ELSE n]

CallSymmetry == Permutations(Calls)

Topup(w, a, k)   == [op |-> TOPUP, name |-> w, amount |-> a, key |-> k,
                     original |-> None, note |-> n1]
Deduct(w, a, k)  == [op |-> DEDUCT, name |-> w, amount |-> a, key |-> k,
                     original |-> None, note |-> n1]
Refund(w, t, k)  == [op |-> REFUND, name |-> w, amount |-> 0, key |-> k,
                     original |-> t, note |-> n1]
Read(w)          == [op |-> READ, name |-> w, amount |-> 0, key |-> None,
                     original |-> None, note |-> n1]

\* Two clients on one wallet that holds 2: a topup without a key, a deduct under
\* k1, another under k2 or k1, refunds of the first two rows, a refund of no
\* row, a read and two malformed requests.
OneWallet ==
  {Topup(w1, 1, None), Topup(w1, 1, k2), Deduct(w1, 2, k1), Deduct(w1, 1, k1),
   Refund(w1, <<w1, 1>>, k2), Refund(w1, <<w1, 2>>, k1),
   Refund(w1, <<w1, 0>>, k2), Read(w1), Deduct(w1, 1, None), Topup(w1, 0, k2)}

\* Two wallets, one of them under two spellings, and one key used on both: row
\* locks, not Redis locks, keep these writers apart.  The first row of w1 may be
\* refunded under either key, the second may itself be a refund.
TwoWallets ==
  {Topup(w1, 1, k1), Topup(w2, 1, k1), Deduct(w1, 2, k1), Deduct(alias, 2, k1),
   Topup(w1, 1, None), Refund(w1, <<w1, 1>>, k1), Refund(w1, <<w1, 1>>, k2),
   Refund(w1, <<w1, 2>>, k1), Refund(w1, <<w2, 1>>, k2),
   Refund(alias, <<w1, 1>>, k2), Read(alias)}

\* The scenarios the documents speak of: two deducts that race, a retry of one
\* that emptied the wallet, under either spelling, and a changed reference id.
TwoDeducts   == {Deduct(w1, 1, k1), Deduct(w1, 1, k2)}
SpentRetry   == {Deduct(w1, 2, k1)}
SpelledRetry == {Deduct(alias, 1, k1)}
ChangedNote  == {Deduct(w1, 1, k1), [Deduct(w1, 1, k1) EXCEPT !.note = n2]}
ReadOnly     == {Read(w1)}

\* Enough to wait for a Redis lock, for a row lock and for a pending key, and to
\* leave the cache entry of one spelling behind a write under the other.
Contention == {Deduct(w1, 1, k1), Deduct(w2, 1, k1), Deduct(alias, 1, k1),
               Read(w1), Read(alias)}
=============================================================================
