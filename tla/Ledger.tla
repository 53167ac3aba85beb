------------------------------- MODULE Ledger -------------------------------
(***************************************************************************)
(* What the wallet service promises, without locks, workers or caches: a   *)
(* request moves money in one indivisible step or not at all.  A call      *)
(* moves money at most once, an idempotency key at most once, a refund     *)
(* reverses at most once, and no balance leaves 0 .. MaxPaise.             *)
(***************************************************************************)
EXTENDS Tables

\* The money one call of request r moves, and the ledger row it moves into.
\* `from` is the row a refund reverses.
Moves(r, from) ==
  CASE r.op = TOPUP  -> r.amount
    [] r.op = DEDUCT -> -r.amount
    [] r.op = REFUND -> IF from.type = DEDUCT THEN from.amount ELSE -from.amount

\* A wallet appears with its opening balance, without a ledger row.
Open(w, v) ==
  /\ balance[w] = None
  /\ balance' = [balance EXCEPT ![w] = v]
  /\ opened'  = [opened EXCEPT ![w] = v]
  /\ UNCHANGED <<ledger, processed>>

\* Call c of request r takes effect: balance, row and record at once.
Post(c, r) ==
  LET w     == Canon[r.name]
      moves == Moves(r, Tx(r.original))
      after == balance[w] + moves
      row   == [type |-> r.op, amount |-> IF moves < 0 THEN -moves ELSE moves,
                balance_after |-> after, original |-> r.original,
                note |-> r.note, call |-> c]
      body  == [id |-> <<w, Len(ledger[w]) + 1>>, balance_after |-> after]
  IN  /\ r.op \in MovementTypes /\ (r.op # REFUND => r.amount > 0)
      /\ WalletExists(w)
      /\ \A t \in KnownTxs : Tx(t).call # c
      /\ r.op = REFUND => /\ r.original \in {w} \X DOMAIN ledger[w]
                          /\ Tx(r.original).type \in REFUNDABLE_TYPES
                          /\ ~RefundExists(r.original)
      /\ r.key # None => ~Recorded(r.key)
      /\ after \in Paise
      /\ balance' = [balance EXCEPT ![w] = after]
      /\ ledger'  = [ledger EXCEPT ![w] = Append(@, row)]
      /\ processed' = IF r.key = None THEN processed
                      ELSE [processed EXCEPT ![r.key] =
                              [wallet |-> w, fingerprint |-> Fingerprint(r),
                               body |-> body]]
      /\ UNCHANGED opened

LedgerNext ==
  \/ \E w \in Wallets, v \in Openings : Open(w, v)
  \/ \E c \in Calls, r \in Requests : Post(c, r)

LedgerSpec == TablesInit /\ [][LedgerNext]_tables
=============================================================================
