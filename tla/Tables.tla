------------------------------- MODULE Tables -------------------------------
(***************************************************************************)
(* The committed contents of the Postgres tables, the queries the          *)
(* repository runs on them, and what it means for them to be in order.     *)
(***************************************************************************)
EXTENDS WalletData

VARIABLES
  balance,    \* wallets.balance_paise, None while there is no such row
  opened,     \* history: the balance the wallet was created with (no column)
  ledger,     \* transactions, per wallet and in the order of commit
  processed   \* processed_requests by key, None while a key is not recorded

tables == <<balance, opened, ledger, processed>>

TablesInit ==
  /\ balance   = [w \in Wallets |-> None]
  /\ opened    = [w \in Wallets |-> None]
  /\ ledger    = [w \in Wallets |-> <<>>]
  /\ processed = [k \in Keys |-> None]

TablesTypeOK ==
  /\ balance   \in [Wallets -> Paise \cup {None}]
  /\ opened    \in [Wallets -> Paise \cup {None}]
  /\ ledger    \in [Wallets -> Seq(Transaction)]
  /\ processed \in [Keys -> ProcessedRequest \cup {None}]

-----------------------------------------------------------------------------
(* Queries.                                                                *)

WalletExists(w) == balance[w] # None

KnownTxs    == UNION {{w} \X DOMAIN ledger[w] : w \in Wallets}
TxExists(t) == t[2] \in DOMAIN ledger[t[1]]
Tx(t)       == ledger[t[1]][t[2]]

\* Some committed row reverses t.
RefundExists(t) ==
  \E w \in Wallets : \E i \in DOMAIN ledger[w] : ledger[w][i].original = t

Recorded(k) == processed[k] # None

\* What a row adds to its wallet's balance.  A refunded deduct credits the
\* wallet, a refunded topup debits it.
Credits(row) == \/ row.type = TOPUP
                \/ row.type = REFUND /\ Tx(row.original).type = DEDUCT
Delta(row)   == IF Credits(row) THEN row.amount ELSE -row.amount

\* The balance of w after its first i movements.
BalanceAfter(w, i) == IF i = 0 THEN opened[w] ELSE ledger[w][i].balance_after

-----------------------------------------------------------------------------
(* What it means for the tables to be in order.                            *)

\* The ledger explains the balance: starting from the opening balance every
\* row carries the running balance, and the last one is the stored balance.
\* A lost update, an oversold wallet or a row written without its balance (or
\* the balance without its row) breaks it.
LedgerReconciles ==
  \A w \in Wallets :
    IF WalletExists(w)
    THEN /\ balance[w] = BalanceAfter(w, Len(ledger[w]))
         /\ \A i \in DOMAIN ledger[w] :
              ledger[w][i].balance_after
                = BalanceAfter(w, i - 1) + Delta(ledger[w][i])
    ELSE ledger[w] = <<>>

\* A refund row reverses an earlier topup or deduct of the same wallet, for its
\* full amount, and no other row reverses the same one.
RefundsReverseOnce ==
  \A w \in Wallets : \A i \in DOMAIN ledger[w] :
    LET row == ledger[w][i]
    IN  IF row.type = REFUND
        THEN /\ row.original \in {w} \X (1 .. i - 1)
             /\ Tx(row.original).type \in REFUNDABLE_TYPES
             /\ Tx(row.original).amount = row.amount
             /\ \A v \in Wallets : \A j \in DOMAIN ledger[v] :
                  ledger[v][j].original = row.original => v = w /\ j = i
        ELSE row.original = None
=============================================================================
