--------------------------- MODULE WalletService ----------------------------
(***************************************************************************)
(* The wallet service: gunicorn workers serving HTTP calls against one     *)
(* Postgres and one Redis.  Each call is a thread of control of its own,   *)
(* and each action below is one round trip to Postgres or Redis together   *)
(* with the Python that runs before the next one, so every interleaving of *)
(* round trips is a behaviour.                                             *)
(*                                                                         *)
(* Postgres runs at READ COMMITTED: a statement sees what is committed, a  *)
(* SELECT FOR UPDATE waits for the row's lock and then reads the newest    *)
(* balance, and inserting a unique key that an open transaction inserted   *)
(* waits for that transaction to end.  What a transaction wrote stays in   *)
(* `draft` until it commits.                                               *)
(***************************************************************************)
EXTENDS Tables, RedisLock, BalanceCache

CONSTANT Faults   \* the faults that may happen

FaultKinds == {"crash", "redis", "database", "expiry"}
ASSUME FaultsAssumption == Faults \subseteq FaultKinds

VARIABLES
  rowLock,   \* the call whose open transaction holds each wallet's row lock
  pc,        \* the next round trip of each call
  req,       \* the request each call carries
  draft,     \* the ledger row of each call's open transaction
  reply      \* the response each call has composed; it is sent at "done"

calls == <<rowLock, pc, req, draft, reply>>
vars  == <<tables, lock, cache, calls>>

\* Stages holding an open transaction that has locked its wallet's row.
InTransaction == {"flush", "record", "commit"}
Ended         == {"done", "crashed"}
Stages == {"idle", "acquire", "check", "select", "recheck", "release",
           "leave", "lookup", "load", "refresh"} \cup InTransaction \cup Ended

Init ==
  /\ TablesInit /\ LockInit /\ CacheInit
  /\ rowLock = [w \in Wallets |-> None]
  /\ pc      = [c \in Calls |-> "idle"]
  /\ req     = [c \in Calls |-> None]
  /\ draft   = [c \in Calls |-> None]
  /\ reply   = [c \in Calls |-> None]

TypeOK ==
  /\ TablesTypeOK /\ LockTypeOK /\ CacheTypeOK
  /\ rowLock \in [Wallets -> Calls \cup {None}]
  /\ pc      \in [Calls -> Stages]
  /\ req     \in [Calls -> Requests \cup {None}]
  /\ draft   \in [Calls -> Draft \cup {None}]
  /\ reply   \in [Calls -> Reply \cup {None}]

-----------------------------------------------------------------------------
(* Steps of a call.                                                        *)

Name(c)   == req[c].name
Wallet(c) == Canon[req[c].name]

Goto(c, stage) == pc' = [pc EXCEPT ![c] = stage]
Compose(c, code, body) ==
  reply' = [reply EXCEPT ![c] = [code |-> code, body |-> body]]
\* An exception: its code becomes the answer.
Raise(c, code) == Compose(c, code, None)

\* Mutant: the transaction is left open after its last statement.
EndTransaction_KeepsRow(c) ==
  draft' = [draft EXCEPT ![c] = None] /\ UNCHANGED rowLock

\* The transaction of c ends, committed or not.
EndTransaction(c) ==
  /\ rowLock' = [w \in Wallets |-> IF rowLock[w] = c THEN None ELSE rowLock[w]]
  /\ draft'   = [draft EXCEPT ![c] = None]

\* POST /wallets.  The id is a fresh UUID that no call can have named before it
\* is returned, so no call can tell the handler's steps apart.  With Redis down
\* the wallet stays behind uncached.
CreateWallet(w, v) ==
  /\ ~WalletExists(w)
  /\ \A c \in Calls : req[c] # None => Wallet(c) # w
  /\ balance' = [balance EXCEPT ![w] = v]
  /\ opened'  = [opened EXCEPT ![w] = v]
  /\ \/ SetCached(w, v)
     \/ Faults \cap {"redis", "crash"} # {} /\ UNCHANGED cache
  /\ UNCHANGED <<ledger, processed, lock, calls>>

\* What the schemas and the handlers reject before the service is called.
WellFormed(r) ==
  /\ (r.op = REFUND) = (r.original # None)
  /\ r.op \in {TOPUP, DEDUCT} => r.amount > 0
  /\ r.op \in {DEDUCT, REFUND} => r.key # None

\* A client can name a transaction only once its row is committed, or an id
\* that no row has.
Nameable(r) ==
  r.original # None => r.original[2] = 0 \/ TxExists(r.original)

Receive(c) == \E r \in Requests :
  /\ pc[c] = "idle" /\ Nameable(r)
  /\ req' = [req EXCEPT ![c] = r]
  /\ IF WellFormed(r)
     THEN Goto(c, IF r.op = READ THEN "lookup" ELSE "acquire") /\ UNCHANGED reply
     ELSE Goto(c, "done") /\ Raise(c, "invalid_request")
  /\ UNCHANGED <<tables, lock, cache, rowLock, draft>>

-----------------------------------------------------------------------------
(* Writes, under the wallet's lock.                                        *)

AcquireLock(c) ==
  /\ pc[c] = "acquire" /\ TakeLock(Name(c), c)
  /\ Goto(c, IF req[c].key = None THEN "select" ELSE "check")
  /\ UNCHANGED <<tables, cache, rowLock, req, draft, reply>>

\* The blocking timeout passes with the lock held: 503, ask the client to retry.
LockBusy(c) ==
  /\ pc[c] = "acquire" /\ ~LockFree(Name(c))
  /\ Goto(c, "done") /\ Raise(c, "wallet_busy")
  /\ UNCHANGED <<tables, lock, cache, rowLock, req, draft>>

\* Mutant: any record under the key will do.
SameRequest_KeyOnly(r) == Recorded(r.key)

\* The record under the key is of this request: its wallet, as Postgres prints
\* it, is the one the URL spells, and the fingerprints agree.
SameRequest(r) ==
  /\ processed[r.key].wallet = r.name
  /\ processed[r.key].fingerprint = Fingerprint(r)

\* Mutant: the stored status, 201, goes out with the stored body.
AnswerFromRecord_Stored(c) ==
  LET r == req[c]
  IN  IF SameRequest(r) THEN Compose(c, "created", processed[r.key].body)
                        ELSE Raise(c, "idempotency_conflict")

\* Mutant: the balance is read anew.
AnswerFromRecord_BalanceNow(c) ==
  LET r == req[c] body == processed[r.key].body
  IN  IF SameRequest(r)
      THEN Compose(c, "replay", [body EXCEPT !.balance_after = balance[Wallet(c)]])
      ELSE Raise(c, "idempotency_conflict")

\* _check_idempotency of a key that is recorded.
AnswerFromRecord(c) ==
  LET r == req[c]
  IN  IF SameRequest(r) THEN Compose(c, "replay", processed[r.key].body)
                        ELSE Raise(c, "idempotency_conflict")

\* Mutant: only the insert looks at the key.
Check_Skipped(c) ==
  /\ pc[c] = "check" /\ Goto(c, "select")
  /\ UNCHANGED <<tables, lock, cache, rowLock, req, draft, reply>>

\* A replay returns at once: it leaves the cache alone.
Check(c) ==
  /\ pc[c] = "check"
  /\ IF Recorded(req[c].key) THEN AnswerFromRecord(c) /\ Goto(c, "leave")
                             ELSE Goto(c, "select") /\ UNCHANGED reply
  /\ UNCHANGED <<tables, lock, cache, rowLock, req, draft>>

\* The movement that request r asks of wallet w, as a ledger row.
Movement(c, r, w) ==
  LET from   == Tx(r.original)
      amount == IF r.op = REFUND THEN from.amount ELSE r.amount
      debits == \/ r.op = DEDUCT
                \/ r.op = REFUND /\ from.type # DEDUCT
  IN  [type |-> r.op, amount |-> amount,
       balance_after |-> IF debits THEN balance[w] - amount
                                   ELSE balance[w] + amount,
       original |-> r.original, note |-> r.note, call |-> c]

\* Mutant: the transaction is looked up by its id alone.
OwnTransaction_AnyWallet(r) == TxExists(r.original)

\* The transaction to refund is one of the wallet the URL spells.
OwnTransaction(r) == TxExists(r.original) /\ r.original[1] = r.name

\* The rules of the service, in the order the code applies them.
Rejection(r) ==
  LET w == Canon[r.name]
  IN  CASE r.op = TOPUP -> None
        [] r.op = DEDUCT ->
             IF balance[w] < r.amount THEN "insufficient_balance" ELSE None
        [] r.op = REFUND ->
             IF ~OwnTransaction(r) THEN "transaction_not_found"
             ELSE IF Tx(r.original).type \notin REFUNDABLE_TYPES
             THEN "transaction_not_refundable"
             ELSE IF RefundExists(r.original)
             THEN "transaction_already_refunded"
             ELSE IF /\ Tx(r.original).type # DEDUCT
                     /\ balance[w] < Tx(r.original).amount
             THEN "refund_would_overdraw" ELSE None

\* Mutant: a plain SELECT.
RowLockFree_PlainSelect(w) == w \in Wallets

RowLockFree(w) == rowLock[w] = None

\* SELECT ... FOR UPDATE on the wallet's row, the refund's reads, and the
\* rules.  The row lock keeps what they read true until the transaction ends;
\* a broken rule rolls back.
SelectForUpdate(c) ==
  LET r == req[c] w == Wallet(c)
  IN  /\ pc[c] = "select"
      /\ IF ~WalletExists(w)
         THEN /\ Raise(c, "wallet_not_found") /\ Goto(c, "leave")
              /\ UNCHANGED <<rowLock, draft>>
         ELSE /\ RowLockFree(w)
              /\ IF Rejection(r) # None
                 THEN /\ Raise(c, Rejection(r)) /\ Goto(c, "leave")
                      /\ UNCHANGED <<rowLock, draft>>
                 ELSE /\ rowLock' = [rowLock EXCEPT ![w] = c]
                      /\ draft'   = [draft EXCEPT ![c] = Movement(c, r, w)]
                      /\ Goto(c, "flush") /\ UNCHANGED reply
      /\ UNCHANGED <<tables, lock, cache, req>>

\* Mutant: a column without limit.
FitsBigint_Always(row) == row.balance_after \in Int

FitsBigint(row) == row.balance_after <= MaxPaise

\* The constraints Postgres checks on the new wallet row and ledger row.
ConstraintsHold(row) ==
  /\ row.balance_after >= 0
  /\ row.amount > 0
  /\ row.original # None => ~RefundExists(row.original)

\* UPDATE wallets and INSERT INTO transactions.  A balance that no BIGINT holds
\* is a DataError, which nothing catches; a broken constraint is an
\* IntegrityError, after which the key is looked up again.
Flush(c) ==
  /\ pc[c] = "flush"
  /\ CASE ~FitsBigint(draft[c]) ->
            EndTransaction(c) /\ Raise(c, "internal_error") /\ Goto(c, "leave")
       [] FitsBigint(draft[c]) /\ ~ConstraintsHold(draft[c]) ->
            EndTransaction(c) /\ Goto(c, "recheck") /\ UNCHANGED reply
       [] OTHER ->
            /\ Goto(c, IF req[c].key = None THEN "commit" ELSE "record")
            /\ UNCHANGED <<rowLock, draft, reply>>
  /\ UNCHANGED <<tables, lock, cache, req>>

\* Mutant: the key is inserted before the row is locked.
Inserted_BeforeRowLock(d, k) == pc[d] \in {"select", "commit"} /\ req[d].key = k

\* The open transaction of d has inserted key k.
Inserted(d, k) == pc[d] = "commit" /\ req[d].key = k

\* Mutant: the key is no primary key.
KeyPending_NoIndex(k) == k \notin Keys

KeyPending(k) == \E d \in Calls : Inserted(d, k)

\* Mutant: the insert does not wait for the other transaction to end.
RecordKey_NoWait(c) ==
  /\ pc[c] = "record"
  /\ IF Recorded(req[c].key) \/ KeyPending(req[c].key)
     THEN EndTransaction(c) /\ Goto(c, "recheck")
     ELSE Goto(c, "commit") /\ UNCHANGED <<rowLock, draft>>
  /\ UNCHANGED <<tables, lock, cache, req, reply>>

\* Mutant: the last writer of a key wins.
RecordKey_Upsert(c) ==
  /\ pc[c] = "record" /\ ~KeyPending(req[c].key)
  /\ Goto(c, "commit")
  /\ UNCHANGED <<tables, lock, cache, rowLock, req, draft, reply>>

\* INSERT INTO processed_requests.  A key that was committed meanwhile rolls
\* the transaction back.
RecordKey(c) ==
  /\ pc[c] = "record" /\ ~KeyPending(req[c].key)
  /\ IF Recorded(req[c].key)
     THEN EndTransaction(c) /\ Goto(c, "recheck")
     ELSE Goto(c, "commit") /\ UNCHANGED <<rowLock, draft>>
  /\ UNCHANGED <<tables, lock, cache, req, reply>>

\* _check_idempotency after an IntegrityError.  Without a record the error is
\* raised again, for a refund as "already refunded" if that is what it was.
Recheck(c) ==
  /\ pc[c] = "recheck"
  /\ IF req[c].key # None /\ Recorded(req[c].key)
     THEN /\ AnswerFromRecord(c)
          /\ Goto(c, IF SameRequest(req[c]) THEN "release" ELSE "leave")
     ELSE /\ Raise(c, IF req[c].op = REFUND /\ RefundExists(req[c].original)
                      THEN "transaction_already_refunded" ELSE "internal_error")
          /\ Goto(c, "leave")
  /\ UNCHANGED <<tables, lock, cache, rowLock, req, draft>>

\* What the response carries once the draft is the next row of its wallet.
CreatedBody(c) ==
  [id |-> <<Wallet(c), Len(ledger[Wallet(c)]) + 1>>,
   balance_after |-> draft[c].balance_after]

\* Mutant: the record is forgotten.
ApplyDraft_NoRecord(c) ==
  LET w == Wallet(c)
  IN  /\ balance' = [balance EXCEPT ![w] = draft[c].balance_after]
      /\ ledger'  = [ledger EXCEPT ![w] = Append(@, draft[c])]
      /\ UNCHANGED <<opened, processed>>
      /\ EndTransaction(c)

\* The transaction's writes become visible together.
ApplyDraft(c) ==
  LET w == Wallet(c) k == req[c].key
  IN  /\ balance' = [balance EXCEPT ![w] = draft[c].balance_after]
      /\ ledger'  = [ledger EXCEPT ![w] = Append(@, draft[c])]
      /\ processed' = IF k = None THEN processed
                      ELSE [processed EXCEPT ![k] =
                              [wallet |-> w, fingerprint |-> Fingerprint(req[c]),
                               body |-> CreatedBody(c)]]
      /\ UNCHANGED opened
      /\ EndTransaction(c)

Commit(c) ==
  /\ pc[c] = "commit" /\ ApplyDraft(c)
  /\ Compose(c, "created", CreatedBody(c)) /\ Goto(c, "release")
  /\ UNCHANGED <<lock, cache, req>>

\* The lock goes back before the cache is refreshed.
Release(c) ==
  /\ pc[c] = "release" /\ DropLock(Name(c), c) /\ Goto(c, "refresh")
  /\ UNCHANGED <<tables, cache, rowLock, req, draft, reply>>

\* The lock goes back on the way out with a replay or an exception.
Leave(c) ==
  /\ pc[c] = "leave" /\ DropLock(Name(c), c) /\ Goto(c, "done")
  /\ UNCHANGED <<tables, cache, rowLock, req, draft, reply>>

\* set_cached_balance, the last step of a write and of a read that missed.
Refresh(c) ==
  /\ pc[c] = "refresh"
  /\ SetCached(Name(c), reply[c].body.balance_after)
  /\ Goto(c, "done")
  /\ UNCHANGED <<tables, lock, rowLock, req, draft, reply>>

-----------------------------------------------------------------------------
(* Balance reads.                                                          *)

BalanceBody(v) == [id |-> None, balance_after |-> v]

\* Mutant: the read sees what is not committed.
StoredBalance_Dirty(w) ==
  IF rowLock[w] # None THEN draft[rowLock[w]].balance_after ELSE balance[w]

StoredBalance(w) == balance[w]

LookupCache(c) ==
  /\ pc[c] = "lookup"
  /\ IF CacheHit(Name(c))
     THEN Compose(c, "ok", BalanceBody(cache[Name(c)])) /\ Goto(c, "done")
     ELSE Goto(c, "load") /\ UNCHANGED reply
  /\ UNCHANGED <<tables, lock, cache, rowLock, req, draft>>

LoadBalance(c) ==
  /\ pc[c] = "load"
  /\ IF WalletExists(Wallet(c))
     THEN Compose(c, "ok", BalanceBody(StoredBalance(Wallet(c)))) /\ Goto(c, "refresh")
     ELSE Raise(c, "wallet_not_found") /\ Goto(c, "done")
  /\ UNCHANGED <<tables, lock, cache, rowLock, req, draft>>

-----------------------------------------------------------------------------
(* Time and faults.                                                        *)

\* A lock whose holder ended without releasing it expires.  That a lock expires
\* under a holder still at work, slower than the ten seconds, is a fault.
LockExpires(n) ==
  /\ ~LockFree(n) /\ (pc[lock[n]] \in Ended \/ "expiry" \in Faults)
  /\ ExpireLock(n)
  /\ UNCHANGED <<tables, cache, calls>>

CacheExpires(n) == ExpireCached(n) /\ UNCHANGED <<tables, lock, calls>>

\* The worker dies: gunicorn kills one that is silent for 30 s, and a container
\* may stop at any time.  Postgres rolls the open transaction back; the Redis
\* lock stays until it expires.
Crash(c) ==
  /\ "crash" \in Faults /\ pc[c] \notin Ended \cup {"idle"}
  /\ EndTransaction(c) /\ Goto(c, "crashed")
  /\ reply' = [reply EXCEPT ![c] = None]
  /\ UNCHANGED <<tables, lock, cache, req>>

\* A Redis command fails: a ConnectionError nobody catches.  The command may
\* have taken effect before its answer was lost.
RedisFails(c) ==
  /\ "redis" \in Faults
  /\ \/ pc[c] = "acquire" /\ (TakeLock(Name(c), c) \/ UNCHANGED lock)
        /\ UNCHANGED cache
     \/ pc[c] \in {"release", "leave"}
        /\ (DropLock(Name(c), c) \/ UNCHANGED lock) /\ UNCHANGED cache
     \/ pc[c] = "lookup" /\ UNCHANGED <<lock, cache>>
     \/ pc[c] = "refresh" /\ UNCHANGED lock
        /\ (SetCached(Name(c), reply[c].body.balance_after) \/ UNCHANGED cache)
  /\ Raise(c, "internal_error") /\ Goto(c, "done")
  /\ UNCHANGED <<tables, rowLock, req, draft>>

\* A statement fails on its connection: an OperationalError nobody catches.
DatabaseFails(c) ==
  /\ "database" \in Faults
  /\ pc[c] \in {"check", "select", "recheck", "load"} \cup InTransaction
  /\ EndTransaction(c) /\ Raise(c, "internal_error")
  /\ Goto(c, IF pc[c] = "load" THEN "done" ELSE "leave")
  /\ UNCHANGED <<tables, lock, cache, req>>

\* COMMIT takes effect and its acknowledgement is lost.
CommitUnacknowledged(c) ==
  /\ "database" \in Faults /\ pc[c] = "commit" /\ ApplyDraft(c)
  /\ Raise(c, "internal_error") /\ Goto(c, "leave")
  /\ UNCHANGED <<lock, cache, req>>

-----------------------------------------------------------------------------

\* The steps of a call that has been received.
Step(c) ==
  \/ AcquireLock(c) \/ LockBusy(c) \/ Check(c) \/ SelectForUpdate(c)
  \/ Flush(c) \/ RecordKey(c) \/ Commit(c) \/ Recheck(c)
  \/ Release(c) \/ Leave(c) \/ Refresh(c)
  \/ LookupCache(c) \/ LoadBalance(c)

Fault(c) ==
  Crash(c) \/ RedisFails(c) \/ DatabaseFails(c) \/ CommitUnacknowledged(c)

\* The calls of the model are all used up; the service itself goes on.
Quiescent == (\A c \in Calls : pc[c] \in Ended) /\ UNCHANGED vars

Next ==
  \/ \E w \in Wallets, v \in Openings : CreateWallet(w, v)
  \/ \E c \in Calls : Receive(c) \/ Step(c) \/ Fault(c)
  \/ \E n \in Names : LockExpires(n) \/ CacheExpires(n)
  \/ Quiescent

Spec == Init /\ [][Next]_vars

\* A worker that has taken a call keeps running it, and time passes.  Nothing
\* is fair about clients sending calls or about faults.
Fairness ==
  /\ \A c \in Calls : WF_vars(Step(c))
  /\ \A n \in Names : WF_vars(LockExpires(n)) /\ WF_vars(CacheExpires(n))

FairSpec == Spec /\ Fairness
=============================================================================
