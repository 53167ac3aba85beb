------------------------- MODULE WalletCorrectness --------------------------
(***************************************************************************)
(* What must hold of the wallet service, beside what Tables says of the    *)
(* committed rows (LedgerReconciles and RefundsReverseOnce).               *)
(***************************************************************************)
EXTENDS WalletService, FiniteSets

\* The committed rows that call c wrote.
RowsOf(c) == {t \in KnownTxs : Tx(t).call = c}

-----------------------------------------------------------------------------
(* Idempotency.                                                            *)

\* A key moves money at most once, whatever wallets it is used on, and the
\* record under it answers for exactly that row: the row exists if and only if
\* the record does, in the same wallet, with the same balance, under the
\* fingerprint of the request that wrote it.
RecordOf(t) ==
  [wallet |-> t[1], fingerprint |-> Fingerprint(req[Tx(t).call]),
   body |-> [id |-> t, balance_after |-> Tx(t).balance_after]]
KeyAppliedOnce ==
  /\ \A t \in KnownTxs : LET k == req[Tx(t).call].key
                         IN  k # None => processed[k] = RecordOf(t)
  /\ \A k \in Keys : Recorded(k) => \E t \in KnownTxs : req[Tx(t).call].key = k

\* What a call tells its client is what happened: "created" goes with the row
\* the call itself wrote; a replay with a row that another call wrote for the
\* same movement under the same key; a refusal with no row of the call.  Only
\* an internal error leaves the client in doubt.
SameMovement(r, s) ==
  /\ r.op = s.op /\ Canon[r.name] = Canon[s.name]
  /\ r.key = s.key /\ r.original = s.original
  /\ r.op # REFUND => r.amount = s.amount
TrueReply(c) ==
  LET code == reply[c].code body == reply[c].body
  IN  CASE code = "created" ->
             /\ RowsOf(c) = {body.id}
             /\ body.balance_after = Tx(body.id).balance_after
        [] code = "replay" ->
             /\ RowsOf(c) = {} /\ TxExists(body.id)
             /\ SameMovement(req[c], req[Tx(body.id).call])
             /\ body.balance_after = Tx(body.id).balance_after
        [] code = "internal_error" -> Cardinality(RowsOf(c)) <= 1
        [] code = "transaction_already_refunded" ->
             RowsOf(c) = {} /\ RefundExists(req[c].original)
        [] OTHER -> RowsOf(c) = {}
RepliesAreTrue ==
  \A c \in Calls : /\ pc[c] = "done" => reply[c] # None
                   /\ reply[c] # None => TrueReply(c)

\* However often a request is sent under its key, and whichever attempt wins,
\* every answer that is no refusal names the same transaction and the same
\* balance, and one attempt at most is told that it created it.
OneAnswerPerKey ==
  LET Served(c) == reply[c] # None /\ reply[c].code \in {"created", "replay"}
  IN  \A c, d \in Calls :
        Served(c) /\ Served(d) /\ req[c].key # None /\ req[c].key = req[d].key
          => /\ reply[c].body = reply[d].body
             /\ reply[c].code = "created" /\ reply[d].code = "created" => c = d

\* After an IntegrityError the service looks the key up once more and expects
\* to find it.  It always does: the insert can only have failed after the other
\* transaction committed, and no other constraint can break behind a row lock.
RecoveryFindsRecord ==
  \A c \in Calls : pc[c] = "recheck" => req[c].key # None /\ Recorded(req[c].key)

\* Nothing rewrites history: ledger rows and idempotency records stay as they
\* were written, at any interleaving, so that a retry can rely on them.
HistoryIsAppendOnly ==
  [][/\ \A w \in Wallets : /\ Len(ledger[w]) <= Len(ledger'[w])
                           /\ SubSeq(ledger'[w], 1, Len(ledger[w])) = ledger[w]
     /\ \A k \in Keys : Recorded(k) => processed'[k] = processed[k]]_vars

\* A retry returns the original response: once a request has taken effect, no
\* repetition of it under its key is refused, even when the balance is spent or
\* the refund done.  This needs the Redis lock: the row lock alone lets a retry
\* pass the key check before the original commits.
RetryGetsOriginal ==
  [][\A c, d \in Calls :
       /\ reply[c] = None /\ reply'[c] # None /\ reply'[c].code \in BusinessErrors
       /\ req[c].key # None
       => ~(req[d] = req[c] /\ RowsOf(d) # {})]_vars

\* A call frees no lock but its own: a holder that comes back after its lock
\* expired must not let a third call in beside the second.
FreesOwnLockOnly ==
  [][\A n \in Names : lock[n] # None /\ lock'[n] # lock[n]
       => \/ pc'[lock[n]] # pc[lock[n]]
          \/ ExpireLock(n) /\ UNCHANGED calls]_vars

-----------------------------------------------------------------------------
(* Waiting.                                                                *)

\* What c needs is d's: the Redis lock, the row of its wallet, or its key in
\* the index of processed_requests.
WaitsFor(c, d) ==
  \/ pc[c] = "acquire" /\ lock[Name(c)] = d
  \/ pc[c] = "select"  /\ rowLock[Wallet(c)] = d
  \/ pc[c] = "record"  /\ Inserted(d, req[c].key)

\* Redis lock, row lock and unique key are taken in one order by every write,
\* whatever wallets share a key and whatever spellings share a wallet: no calls
\* wait for each other in a circle.  In Postgres, where no wait has a limit,
\* they wait only for calls whose transaction is still open.
NoDeadlock ==
  /\ \A S \in (SUBSET Calls) \ {{}} : \E c \in S : \A d \in S : ~WaitsFor(c, d)
  /\ \A c, d \in Calls : WaitsFor(c, d) /\ pc[c] # "acquire"
                           => pc[d] \in InTransaction

-----------------------------------------------------------------------------
(* The balance cache.                                                      *)

\* The cache, and so a balance read, may lag behind but never shows money that
\* was not there: every cached balance is one its wallet had after some
\* committed movement.
CacheHoldsPastBalance ==
  \A n \in Names : CacheHit(n) =>
    \E i \in 0 .. Len(ledger[Canon[n]]) : cache[n] = BalanceAfter(Canon[n], i)

-----------------------------------------------------------------------------
(* The promise, and progress.                                              *)

Promise == INSTANCE Ledger

\* Locks, workers, crashes and retries never show in the tables: every step
\* leaves them alone, opens a wallet, or posts one whole movement.
ImplementsLedger == Promise!LedgerSpec

\* Every call that arrives is answered, or its worker dies: no wait for the
\* Redis lock, a row lock or a pending key lasts for ever.
EveryCallAnswered ==
  \A c \in Calls : (pc[c] # "idle") ~> (pc[c] \in Ended)

\* A lock that a crashed or failed call left behind does not disable its wallet
\* for good, and no transaction keeps a row locked.
LocksAreFreed ==
  \A n \in Names : (lock[n] # None) ~> (lock[n] = None)
RowLocksAreFreed ==
  \A w \in Wallets : (rowLock[w] # None) ~> (rowLock[w] = None)

\* A cache entry that a late refresh made stale does not stay: in the end the
\* cache is empty or right, under every spelling.
CacheSettles ==
  \A n \in Names : <>[](cache[n] \in {None, balance[Canon[n]]})
=============================================================================
