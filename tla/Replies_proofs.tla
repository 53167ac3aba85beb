--------------------------- MODULE Replies_proofs ---------------------------
(***************************************************************************)
(* Proofs about what the wallet service answers and caches, for every      *)
(* value of the constants.  They rest on KeyInv: a call's row is written   *)
(* once, and then the call has nothing left to do but to answer.           *)
(***************************************************************************)
EXTENDS Idempotency_proofs, FiniteSetTheorems

AllInv == TypeInv /\ MoneyInv /\ KeyInv

LEMMA RequestsStay ==
  ASSUME TypeInv, [Next]_vars, NEW c \in Calls, pc[c] # "idle"
  PROVE  req'[c] = req[c]
<1>1. ASSUME NEW d \in Calls, Receive(d) PROVE req'[c] = req[c]
  BY <1>1 DEF Receive, TypeInv, TypeOK
<1>2. ASSUME NEW d \in Calls, Step(d) PROVE req'[c] = req[c]
  BY <1>2 DEF Step, AcquireLock, LockBusy, Check, SelectForUpdate, Flush,
     RecordKey, Commit, Recheck, Release, Leave, Refresh, LookupCache,
     LoadBalance
<1>3. ASSUME NEW d \in Calls, Fault(d) PROVE req'[c] = req[c]
  BY <1>3 DEF Fault, Crash, RedisFails, DatabaseFails, CommitUnacknowledged
<1> QED BY <1>1, <1>2, <1>3 DEF Next, Quiescent, CreateWallet, LockExpires,
      CacheExpires, vars, calls

\* The rows after a commit: one more, the committing call's.
LEMMA CommitAddsRow ==
  ASSUME AllInv, NEW c \in Calls, pc[c] = "commit", ApplyDraft(c)
  PROVE  \E u : /\ u = <<Wallet(c), Len(ledger[Wallet(c)]) + 1>>
                /\ KnownTxs' = KnownTxs \cup {u} /\ u \notin KnownTxs
                /\ Tx(u)' = draft[c] /\ Tx(u)'.call = c
                /\ \A t \in KnownTxs : Tx(t)' = Tx(t) /\ Tx(t).call # c
<1>0. PICK w, n : w = Wallet(c) /\ n = Len(ledger[w])
  OBVIOUS
<1>1. /\ w \in Wallets /\ n \in Nat /\ DOMAIN ledger[w] = 1 .. n
      /\ DOMAIN ledger'[w] = 1 .. n + 1
      /\ ledger'[w][n + 1] = draft[c]
      /\ \A i \in 1 .. n : ledger'[w][i] = ledger[w][i]
      /\ \A v \in Wallets \ {w} : ledger'[v] = ledger[v]
  BY <1>0, ApplyDraftShape DEF AllInv
<1>2. PICK u : u = <<w, n + 1>>
  OBVIOUS
<1>3. ASSUME NEW t \in KnownTxs
      PROVE  t \in KnownTxs' /\ t # u /\ Tx(t)' = Tx(t) /\ Tx(t).call # c
  <2>1. PICK v \in Wallets : \E i \in DOMAIN ledger[v] : t = <<v, i>>
    BY KnownRows
  <2>2. PICK i \in DOMAIN ledger[v] : t = <<v, i>>
    BY <2>1
  <2>3. Written(v, i)
    BY DEF AllInv, KeyInv
  <2>4. Tx(t) = ledger[v][i] /\ Tx(t).call # c
    BY <2>2, <2>3 DEF Tx, Written, Finishing, Ended
  <2>5. i \in DOMAIN ledger'[v] /\ ledger'[v][i] = ledger[v][i]
    BY <1>1
  <2>6. t \in KnownTxs' /\ Tx(t)' = Tx(t)
    BY <2>2, <2>5 DEF KnownTxs, Tx
  <2>7. t # u
    BY <1>1, <1>2, <2>2
  <2> QED BY <2>4, <2>6, <2>7
<1>4. u \in KnownTxs' /\ Tx(u)' = draft[c]
  BY <1>1, <1>2 DEF KnownTxs, Tx
<1>5. ASSUME NEW t \in KnownTxs', t # u PROVE t \in KnownTxs
  <2>1. PICK v \in Wallets : t \in {v} \X DOMAIN ledger'[v]
    BY DEF KnownTxs
  <2>2. PICK i \in DOMAIN ledger'[v] : t = <<v, i>>
    BY <2>1
  <2>3. i \in DOMAIN ledger[v]
    BY <1>1, <1>2, <1>5, <2>2
  <2> QED BY <2>2, <2>3 DEF KnownTxs
<1>6. draft[c].call = c
  BY DEF AllInv, KeyInv, Drawn, InTransaction
<1> QED BY <1>0, <1>2, <1>3, <1>4, <1>5, <1>6

\* What a step does to the rows and whose they are.
LEMMA RowsGrow ==
  ASSUME AllInv, [Next]_vars
  PROVE  /\ \A t \in KnownTxs :
              t \in KnownTxs' /\ Tx(t)' = Tx(t) /\ Tx(t).call \in Calls
              /\ req'[Tx(t).call] = req[Tx(t).call]
         /\ \A c \in Calls : pc[c] # "commit" => RowsOf(c)' = RowsOf(c)
         /\ \A x : RefundExists(x) => RefundExists(x)'
<1>1. ASSUME NEW t \in KnownTxs
      PROVE  Tx(t).call \in Calls /\ pc[Tx(t).call] # "idle"
  <2>1. PICK v \in Wallets : \E i \in DOMAIN ledger[v] : t = <<v, i>>
    BY KnownRows
  <2>2. PICK i \in DOMAIN ledger[v] : t = <<v, i>>
    BY <2>1
  <2>3. Written(v, i) /\ ledger[v][i].call \in Calls /\ Tx(t) = ledger[v][i]
    BY <2>2, RowsTyped DEF AllInv, KeyInv, Tx
  <2> QED BY <2>3 DEF Written, Finishing, Ended
<1>2. \A t \in KnownTxs : req'[Tx(t).call] = req[Tx(t).call]
  BY <1>1, RequestsStay DEF AllInv
<1>3. CASE UNCHANGED ledger
  BY <1>1, <1>2, <1>3 DEF KnownTxs, Tx, RowsOf, RefundExists
<1>4. ASSUME NEW d \in Calls, pc[d] = "commit", ApplyDraft(d)
      PROVE  /\ \A t \in KnownTxs : t \in KnownTxs' /\ Tx(t)' = Tx(t)
             /\ \A c \in Calls : pc[c] # "commit" => RowsOf(c)' = RowsOf(c)
             /\ \A x : RefundExists(x) => RefundExists(x)'
  <2>1. PICK u : /\ KnownTxs' = KnownTxs \cup {u} /\ u \notin KnownTxs
                 /\ Tx(u)'.call = d
                 /\ \A t \in KnownTxs : Tx(t)' = Tx(t) /\ Tx(t).call # d
    BY <1>4, CommitAddsRow
  <2>2. ASSUME NEW c \in Calls, pc[c] # "commit" PROVE RowsOf(c)' = RowsOf(c)
    BY <1>4, <2>1, <2>2 DEF RowsOf
  <2>3. ASSUME NEW x, RefundExists(x) PROVE RefundExists(x)'
    <3>1. PICK v \in Wallets : \E i \in DOMAIN ledger[v] : ledger[v][i].original = x
      BY <2>3 DEF RefundExists
    <3>2. PICK i \in DOMAIN ledger[v] : ledger[v][i].original = x
      BY <3>1
    <3>3. PICK w, n : w = Wallet(d) /\ n = Len(ledger[w])
      OBVIOUS
    <3>4. i \in DOMAIN ledger'[v] /\ ledger'[v][i] = ledger[v][i]
      <4>1. /\ DOMAIN ledger[w] = 1 .. n /\ DOMAIN ledger'[w] = 1 .. n + 1
            /\ n \in Nat /\ \A j \in 1 .. n : ledger'[w][j] = ledger[w][j]
            /\ \A z \in Wallets \ {w} : ledger'[z] = ledger[z]
        BY <1>4, <3>3, ApplyDraftShape DEF AllInv
      <4> QED BY <3>2, <4>1
    <3> QED BY <3>2, <3>4 DEF RefundExists
  <2> QED BY <2>1, <2>2, <2>3
<1>5. \/ UNCHANGED ledger
      \/ \E d \in Calls : pc[d] = "commit" /\ ApplyDraft(d)
  BY TablesChange DEF tables, CreateWallet
<1> QED BY <1>1, <1>2, <1>3, <1>4, <1>5

-----------------------------------------------------------------------------
(* Replies.                                                                 *)

Answering == {"release", "leave", "refresh", "done"}
Served(c) == reply[c] # None /\ reply[c].code \in {"created", "replay"}
ReplyOK(c) ==
  /\ pc[c] \in Answering <=> reply[c] # None
  /\ reply[c] # None =>
       /\ TrueReply(c)
       /\ reply[c].code = "replay" => reply[c].body.id \in KnownTxs
       /\ Served(c) => reply[c].body \in Body

ReplyInv == \A c \in Calls : ReplyOK(c)

LEMMA InitReplies == Init => ReplyInv
  BY DEF Init, ReplyInv, ReplyOK, Answering

\* A call that has not finished its transaction has no row, and none has two.
LEMMA NoRowYet ==
  ASSUME AllInv, NEW c \in Calls, pc[c] \notin Finishing
  PROVE  RowsOf(c) = {}
<1> SUFFICES ASSUME NEW t \in KnownTxs PROVE Tx(t).call # c
  BY DEF RowsOf
<1>1. PICK w \in Wallets : \E i \in DOMAIN ledger[w] : t = <<w, i>>
  BY KnownRows
<1>2. PICK i \in DOMAIN ledger[w] : t = <<w, i>>
  BY <1>1
<1>3. Written(w, i) /\ Tx(t) = ledger[w][i]
  BY <1>2 DEF AllInv, KeyInv, Tx
<1> QED BY <1>3 DEF Written

LEMMA AtMostOneRow ==
  ASSUME AllInv, NEW c \in Calls
  PROVE  RowsOf(c) = {} \/ \E t : RowsOf(c) = {t}
<1>1. ASSUME NEW t \in RowsOf(c), NEW u \in RowsOf(c) PROVE t = u
  <2>1. t \in KnownTxs /\ u \in KnownTxs /\ Tx(t).call = Tx(u).call
    BY DEF RowsOf
  <2>2. PICK v \in Wallets : \E i \in DOMAIN ledger[v] : t = <<v, i>>
    BY <2>1, KnownRows
  <2>3. PICK i \in DOMAIN ledger[v] : t = <<v, i>>
    BY <2>2
  <2>4. PICK w \in Wallets : \E j \in DOMAIN ledger[w] : u = <<w, j>>
    BY <2>1, KnownRows
  <2>5. PICK j \in DOMAIN ledger[w] : u = <<w, j>>
    BY <2>4
  <2>6. ledger[v][i].call = ledger[w][j].call
    BY <2>1, <2>3, <2>5 DEF Tx
  <2> QED BY <2>3, <2>5, <2>6 DEF AllInv, KeyInv, OneRow
<1> QED BY <1>1

LEMMA FewRows ==
  ASSUME NEW S, S = {} \/ \E t : S = {t}
  PROVE  Cardinality(S) <= 1
<1>1. CASE S = {}
  <2>1. Cardinality(S) = 0
    BY <1>1, FS_EmptySet
  <2> QED BY <2>1
<1>2. ASSUME NEW t, S = {t} PROVE Cardinality(S) <= 1
  <2>1. Cardinality(S) = 1
    BY <1>2, FS_Singleton
  <2> QED BY <2>1
<1> QED BY <1>1, <1>2

\* A true reply stays true.
LEMMA ReplyKept ==
  ASSUME AllInv, [Next]_vars, NEW c \in Calls, ReplyOK(c),
         pc'[c] \in Answering <=> pc[c] \in Answering, reply'[c] = reply[c]
  PROVE  ReplyOK(c)'
<1>1. CASE reply[c] = None
  BY <1>1 DEF ReplyOK
<1>2. CASE reply[c] # None
  <2>1. /\ pc[c] \in Answering /\ TrueReply(c)
        /\ reply[c].code = "replay" => reply[c].body.id \in KnownTxs
        /\ Served(c) => reply[c].body \in Body
    BY <1>2 DEF ReplyOK
  <2>2. RowsOf(c)' = RowsOf(c) /\ req'[c] = req[c]
    BY <2>1, RowsGrow, RequestsStay DEF Answering, AllInv
  <2>3. ASSUME NEW t \in KnownTxs
        PROVE  /\ t \in KnownTxs' /\ Tx(t)' = Tx(t) /\ TxExists(t)'
               /\ req'[Tx(t).call] = req[Tx(t).call]
    <3>1. /\ t \in KnownTxs' /\ Tx(t)' = Tx(t)
          /\ req'[Tx(t).call] = req[Tx(t).call]
      BY RowsGrow
    <3>2. PICK v \in Wallets : t \in {v} \X DOMAIN ledger'[v]
      BY <3>1 DEF KnownTxs
    <3> QED BY <3>1, <3>2 DEF TxExists
  <2>4. TrueReply(c)'
    <3>1. CASE reply[c].code = "created"
      <4>1. /\ RowsOf(c) = {reply[c].body.id}
            /\ reply[c].body.balance_after = Tx(reply[c].body.id).balance_after
        BY <2>1, <3>1 DEF TrueReply
      <4>2. reply[c].body.id \in KnownTxs
        BY <4>1 DEF RowsOf
      <4> QED BY <2>2, <2>3, <3>1, <4>1, <4>2 DEF TrueReply
    <3>2. CASE reply[c].code = "replay"
      <4>1. /\ RowsOf(c) = {}
            /\ SameMovement(req[c], req[Tx(reply[c].body.id).call])
            /\ reply[c].body.balance_after = Tx(reply[c].body.id).balance_after
        BY <2>1, <3>2 DEF TrueReply
      <4>2. PICK t \in KnownTxs : t = reply[c].body.id
        BY <2>1, <3>2
      <4>3. SameMovement(req[c], req[Tx(t).call])' =
              SameMovement(req[c], req[Tx(t).call])
        BY <2>2, <2>3 DEF SameMovement
      <4> QED BY <2>2, <2>3, <3>2, <4>1, <4>2, <4>3 DEF TrueReply
    <3>3. CASE reply[c].code = "internal_error"
      BY <2>1, <2>2, <3>3 DEF TrueReply
    <3>4. CASE reply[c].code = "transaction_already_refunded"
      BY <2>1, <2>2, <3>4, RowsGrow DEF TrueReply
    <3>5. CASE reply[c].code \notin {"created", "replay", "internal_error",
                                     "transaction_already_refunded"}
      BY <2>1, <2>2, <3>5 DEF TrueReply
    <3> QED BY <3>1, <3>2, <3>3, <3>4, <3>5
  <2> QED BY <2>1, <2>3, <2>4 DEF ReplyOK, Served
<1> QED BY <1>1, <1>2

\* A refusal is true of a call that has no row.
LEMMA Refused ==
  ASSUME AllInv, [Next]_vars, NEW c \in Calls, pc[c] \notin Finishing \cup {"commit"},
         pc'[c] \in Answering, reply'[c] # None,
         reply'[c].code \notin {"created", "replay"},
         reply'[c].code = "transaction_already_refunded"
           => RefundExists(req'[c].original)
  PROVE  ReplyOK(c)'
<1>1. RowsOf(c)' = {}
  BY NoRowYet, RowsGrow
<1>2. Cardinality(RowsOf(c)') <= 1
  BY <1>1, FewRows
<1>3. reply'[c].code = "transaction_already_refunded"
        => RefundExists(req[c].original)'
  BY RowsGrow
<1>4. TrueReply(c)'
  BY <1>1, <1>2, <1>3 DEF TrueReply
<1> QED BY <1>4 DEF ReplyOK, Served

\* Fingerprints tell movements apart: a refund's has no amount.
LEMMA FingerprintsAgree ==
  ASSUME NEW r, NEW s, Fingerprint(r) = Fingerprint(s)
  PROVE  /\ r.op = s.op /\ r.name = s.name
         /\ r.op = REFUND => r.original = s.original
         /\ r.op # REFUND => r.amount = s.amount
<1>1. ASSUME NEW a, NEW b, NEW d, NEW p, NEW q, NEW u, NEW v
      PROVE  <<a, b, d>> # <<p, q, u, v>>
  BY Len(<<a, b, d>>) = 3, Len(<<p, q, u, v>>) = 4
<1>2. r.op = REFUND <=> s.op = REFUND
  BY <1>1 DEF Fingerprint
<1> QED BY <1>2 DEF Fingerprint

\* A record that passes _check_idempotency answers for the row of another call
\* that asked for the same movement.
LEMMA ReplayMatches ==
  ASSUME AllInv, NEW c \in Calls, pc[c] \in {"check", "recheck"},
         req[c].key \in Keys, Recorded(req[c].key), SameRequest(req[c])
  PROVE  \E t \in KnownTxs :
           /\ processed[req[c].key].body =
                [id |-> t, balance_after |-> Tx(t).balance_after]
           /\ t[1] = Wallet(c) /\ t[2] \in DOMAIN ledger[Wallet(c)]
           /\ SameMovement(req[c], req[Tx(t).call])
<1>0. PICK r, k : r = req[c] /\ k = r.key
  OBVIOUS
<1>1. /\ r \in Requests /\ r.op \in MovementTypes /\ WellFormed(r)
  BY <1>0 DEF AllInv, TypeInv, CallOK, Received, Writing, InService, Stages,
     Ended
<1>2. RowsAndRecords
  BY KeyAppliedOnceByRow DEF AllInv, KeyInv
<1>3. PICK w \in Wallets : \E i \in DOMAIN ledger[w] : RowKey(w, i) = k
  BY <1>0, <1>2 DEF RowsAndRecords
<1>4. PICK i \in DOMAIN ledger[w] : RowKey(w, i) = k
  BY <1>3
<1>5. PICK s : s = req[ledger[w][i].call]
  OBVIOUS
<1>6. /\ processed[k] = RowRecord(w, i) /\ s.key = k
  BY <1>0, <1>2, <1>4, <1>5, NoneAssumption DEF RowsAndRecords, RowKey, Values
<1>7. r.name = w /\ Fingerprint(r) = Fingerprint(s)
  BY <1>0, <1>5, <1>6 DEF SameRequest, RowRecord
<1>8. /\ Canon[s.name] = w /\ Canon[r.name] = w
      /\ ledger[w][i].type = s.op /\ ledger[w][i].original = s.original
  BY <1>5, <1>7, NamesAssumption DEF AllInv, KeyInv, Written
<1>9. r.op = s.op /\ (r.op = REFUND => r.original = s.original)
      /\ (r.op # REFUND => r.amount = s.amount)
  BY <1>7, FingerprintsAgree
<1>10. r.original = s.original
  <2>1. CASE r.op = REFUND
    BY <1>9, <2>1
  <2>2. CASE r.op # REFUND
    <3>1. ledger[w][i].original = None
      BY <1>8, <1>9, <2>2 DEF AllInv, MoneyInv, RefundsReverseOnce
    <3> QED BY <1>1, <1>8, <2>2, <3>1 DEF WellFormed
  <2> QED BY <2>1, <2>2
<1>11. SameMovement(r, s)
  BY <1>0, <1>6, <1>8, <1>9, <1>10 DEF SameMovement
<1>12. PICK t : t = <<w, i>>
  OBVIOUS
<1>13. t \in KnownTxs /\ Tx(t) = ledger[w][i] /\ t[1] = w /\ t[2] = i
  BY <1>12, KnownRows
<1>14. processed[k].body = [id |-> t, balance_after |-> Tx(t).balance_after]
  BY <1>6, <1>12, <1>13 DEF RowRecord
<1>15. Wallet(c) = w
  BY <1>0, <1>8 DEF Wallet
<1> QED BY <1>0, <1>5, <1>11, <1>13, <1>14, <1>15

LEMMA RecordAnswers ==
  ASSUME AllInv, [Next]_vars, NEW c \in Calls, pc[c] \in {"check", "recheck"},
         req[c].key \in Keys, Recorded(req[c].key), AnswerFromRecord(c),
         pc'[c] \in Answering
  PROVE  ReplyOK(c)'
<1>1. TypeOK /\ pc[c] \notin Finishing \cup {"commit"}
  BY DEF AllInv, TypeInv, Finishing, Ended
<1>2. req'[c] = req[c]
  BY RequestsStay DEF AllInv
<1>3. CASE SameRequest(req[c])
  <2>1. PICK t \in KnownTxs :
          /\ processed[req[c].key].body =
               [id |-> t, balance_after |-> Tx(t).balance_after]
          /\ SameMovement(req[c], req[Tx(t).call])
    BY <1>3, ReplayMatches
  <2>2. reply'[c] = [code |-> "replay",
                     body |-> [id |-> t, balance_after |-> Tx(t).balance_after]]
    BY <1>1, <1>3, <2>1 DEF AnswerFromRecord, Compose, TypeOK
  <2>3. /\ t \in KnownTxs' /\ Tx(t)' = Tx(t)
        /\ req'[Tx(t).call] = req[Tx(t).call]
    BY RowsGrow
  <2>4. TxExists(t)'
    <3>1. PICK v \in Wallets : t \in {v} \X DOMAIN ledger'[v]
      BY <2>3 DEF KnownTxs
    <3> QED BY <3>1 DEF TxExists
  <2>5. RowsOf(c)' = {}
    BY <1>1, NoRowYet, RowsGrow
  <2>6. SameMovement(req[c], req[Tx(t).call])'
    BY <1>2, <2>1, <2>3 DEF SameMovement
  <2>7. reply'[c] # None
    <3>1. reply'[c] \in Reply
      BY <1>3, AnswerFromRecordTyped DEF AllInv
    <3> QED BY <3>1, NoneAssumption DEF Values
  <2>8. TrueReply(c)'
    BY <2>2, <2>3, <2>4, <2>5, <2>6 DEF TrueReply
  <2>9. reply'[c].body \in Body
    <3>1. processed[req[c].key] \in ProcessedRequest
      BY DEF AllInv, TypeInv, TypeOK, TablesTypeOK, Recorded
    <3> QED BY <2>1, <2>2, <3>1 DEF ProcessedRequest
  <2> QED BY <2>2, <2>3, <2>7, <2>8, <2>9 DEF ReplyOK
<1>4. CASE ~SameRequest(req[c])
  <2>1. Raise(c, "idempotency_conflict")
    BY <1>4 DEF AnswerFromRecord
  <2>2. reply'[c] = [code |-> "idempotency_conflict", body |-> None]
    BY <1>1, <2>1, RaiseTyped DEF Codes, BusinessErrors
  <2>3. reply'[c] \in Reply
    BY <1>1, <2>1, ComposeTyped DEF Raise, Codes, BusinessErrors
  <2>4. reply'[c] # None
    BY <2>3, NoneAssumption DEF Values
  <2> QED BY <1>1, <2>2, <2>4, Refused
<1> QED BY <1>3, <1>4

\* A step of one call leaves the stage and the reply of the others alone.
LEMMA OthersStay ==
  ASSUME TypeInv, NEW c \in Calls, Receive(c) \/ Step(c) \/ Fault(c),
         NEW d \in Calls \ {c}
  PROVE  pc'[d] = pc[d] /\ reply'[d] = reply[d]
<1>1. TypeOK
  BY DEF TypeInv
<1>2. ASSUME NEW stage, Goto(c, stage) PROVE pc'[d] = pc[d]
  BY <1>1, <1>2 DEF Goto, TypeOK
<1>3. ASSUME NEW code, NEW body, Compose(c, code, body)
      PROVE  reply'[d] = reply[d]
  BY <1>1, <1>3 DEF Compose, TypeOK
<1>4. AnswerFromRecord(c) => reply'[d] = reply[d]
  BY <1>3 DEF AnswerFromRecord, Raise
<1>5. CASE Receive(c)
  BY <1>2, <1>3, <1>5 DEF Receive, Raise
<1>6. CASE AcquireLock(c) \/ LockBusy(c) \/ Release(c) \/ Leave(c) \/ Refresh(c)
  BY <1>2, <1>3, <1>6 DEF AcquireLock, LockBusy, Release, Leave, Refresh, Raise
<1>7. CASE Check(c) \/ Recheck(c)
  BY <1>2, <1>3, <1>4, <1>7 DEF Check, Recheck, Raise
<1>8. CASE SelectForUpdate(c)
  BY <1>2, <1>3, <1>8 DEF SelectForUpdate, Raise
<1>9. CASE Flush(c) \/ RecordKey(c) \/ Commit(c)
  BY <1>2, <1>3, <1>9 DEF Flush, RecordKey, Commit, Raise
<1>10. CASE LookupCache(c) \/ LoadBalance(c)
  BY <1>2, <1>3, <1>10 DEF LookupCache, LoadBalance, Raise
<1>11. CASE RedisFails(c) \/ DatabaseFails(c) \/ CommitUnacknowledged(c)
  BY <1>2, <1>3, <1>11 DEF RedisFails, DatabaseFails, CommitUnacknowledged,
     Raise
<1>12. CASE Crash(c)
  BY <1>1, <1>2, <1>12 DEF Crash, TypeOK
<1> QED BY <1>5, <1>6, <1>7, <1>8, <1>9, <1>10, <1>11, <1>12 DEF Step, Fault

\* Only a call's own steps move it.
LEMMA OneCallMoves ==
  ASSUME [Next]_vars
  PROVE  \/ UNCHANGED calls
         \/ \E c \in Calls : Receive(c) \/ Step(c) \/ Fault(c)
  BY DEF Next, Quiescent, CreateWallet, LockExpires, CacheExpires, vars

LEMMA Replied ==
  ASSUME TypeInv, NEW c \in Calls, NEW code \in Codes,
         NEW body \in Body \cup {None}, Compose(c, code, body)
  PROVE  reply'[c] = [code |-> code, body |-> body] /\ reply'[c] # None
<1>1. reply'[c] = [code |-> code, body |-> body] /\ reply'[c] \in Reply
  BY ComposeTyped DEF TypeInv
<1> QED BY <1>1, NoneAssumption DEF Values

LEMMA WentTo ==
  ASSUME TypeInv, NEW c \in Calls, NEW stage \in Stages, Goto(c, stage)
  PROVE  pc'[c] = stage
  BY GotoTyped DEF TypeInv

\* A call without a row refuses, fails or shows a balance.
LEMMA RefusedStep ==
  ASSUME AllInv, [Next]_vars, NEW c \in Calls,
         pc[c] \notin Finishing \cup {"commit"},
         NEW stage \in Answering, Goto(c, stage),
         NEW code \in Codes \ {"created", "replay"},
         NEW body \in Body \cup {None}, Compose(c, code, body),
         code = "transaction_already_refunded"
           => RefundExists(req'[c].original)
  PROVE  ReplyOK(c)'
<1>1. pc'[c] = stage
  BY WentTo DEF AllInv, Answering, Stages, Ended
<1>2. reply'[c] = [code |-> code, body |-> body] /\ reply'[c] # None
  BY Replied DEF AllInv
<1> QED BY <1>1, <1>2, Refused

\* A call that has not answered yet, and does not do so now.
LEMMA SilentStep ==
  ASSUME AllInv, [Next]_vars, NEW c \in Calls, ReplyOK(c),
         pc[c] \notin Answering,
         NEW stage \in Stages \ Answering, Goto(c, stage), UNCHANGED reply
  PROVE  ReplyOK(c)'
<1>1. pc'[c] = stage
  BY WentTo DEF AllInv
<1> QED BY <1>1, ReplyKept

LEMMA ReceiveReplies ==
  ASSUME AllInv, [Next]_vars, NEW c \in Calls, ReplyOK(c), Receive(c)
  PROVE  ReplyOK(c)'
<1>1. pc[c] = "idle"
  BY DEF Receive
<1>2. \/ \E stage \in {"lookup", "acquire"} : Goto(c, stage) /\ UNCHANGED reply
      \/ Goto(c, "done") /\ Compose(c, "invalid_request", None)
  BY DEF Receive, Raise
<1>3. CASE Goto(c, "done") /\ Compose(c, "invalid_request", None)
  BY <1>1, <1>3, RefusedStep DEF Answering, Codes, Finishing, Ended
<1>4. CASE \E stage \in {"lookup", "acquire"} : Goto(c, stage) /\ UNCHANGED reply
  BY <1>1, <1>4, SilentStep DEF Answering, Stages
<1> QED BY <1>2, <1>3, <1>4

LEMMA LockReplies ==
  ASSUME AllInv, [Next]_vars, NEW c \in Calls, ReplyOK(c),
         AcquireLock(c) \/ LockBusy(c)
  PROVE  ReplyOK(c)'
<1>1. pc[c] = "acquire"
  BY DEF AcquireLock, LockBusy
<1>2. CASE AcquireLock(c)
  <2>1. \E stage \in {"select", "check"} : Goto(c, stage)
    BY <1>2 DEF AcquireLock
  <2>2. UNCHANGED reply
    BY <1>2 DEF AcquireLock
  <2> QED BY <1>1, <2>1, <2>2, SilentStep DEF Answering, Stages
<1>3. CASE LockBusy(c)
  <2>1. Goto(c, "done") /\ Compose(c, "wallet_busy", None)
    BY <1>3 DEF LockBusy, Raise
  <2> QED BY <1>1, <2>1, RefusedStep DEF Answering, Codes, Finishing, Ended
<1> QED BY <1>2, <1>3

LEMMA CheckReplies ==
  ASSUME AllInv, [Next]_vars, NEW c \in Calls, ReplyOK(c), Check(c)
  PROVE  ReplyOK(c)'
<1>1. pc[c] = "check" /\ req[c].key \in Keys
  BY DEF Check, AllInv, TypeInv, CallOK, Keyed
<1>2. CASE Recorded(req[c].key)
  <2>1. AnswerFromRecord(c) /\ Goto(c, "leave")
    BY <1>2 DEF Check
  <2>2. pc'[c] = "leave"
    BY <2>1, WentTo DEF AllInv, Stages
  <2> QED BY <1>1, <1>2, <2>1, <2>2, RecordAnswers DEF Answering
<1>3. CASE ~Recorded(req[c].key)
  <2>1. Goto(c, "select") /\ UNCHANGED reply
    BY <1>3 DEF Check
  <2> QED BY <1>1, <2>1, SilentStep DEF Answering, Stages
<1> QED BY <1>2, <1>3

LEMMA SelectForUpdateReplies ==
  ASSUME AllInv, [Next]_vars, NEW c \in Calls, ReplyOK(c), SelectForUpdate(c)
  PROVE  ReplyOK(c)'
<1>0. PICK r, w : r = req[c] /\ w = Wallet(c)
  OBVIOUS
<1>1. pc[c] = "select" /\ req'[c] = r /\ r.op \in MovementTypes
  BY <1>0 DEF SelectForUpdate, AllInv, TypeInv, CallOK, Writing
<1>2. CASE ~WalletExists(w)
  <2>1. Compose(c, "wallet_not_found", None) /\ Goto(c, "leave")
    BY <1>0, <1>2 DEF SelectForUpdate, Raise
  <2> QED BY <1>1, <2>1, RefusedStep
          DEF Answering, Codes, BusinessErrors, Finishing, Ended
<1>3. CASE WalletExists(w) /\ Rejection(r) # None
  <2>1. Compose(c, Rejection(r), None) /\ Goto(c, "leave")
    BY <1>0, <1>3 DEF SelectForUpdate, Raise
  <2>2. Rejection(r) \in BusinessErrors
    BY <1>1, <1>3, RejectionTyped
  <2>3. Rejection(r) = "transaction_already_refunded" => RefundExists(r.original)
    BY <1>1, <1>3, NoneIsNoCode DEF Rejection, MovementTypes, TOPUP, DEDUCT,
       REFUND, Codes, BusinessErrors
  <2>4. Rejection(r) \in Codes \ {"created", "replay"}
    BY <2>2 DEF Codes, BusinessErrors
  <2> QED BY <1>1, <2>1, <2>3, <2>4, RefusedStep
          DEF Answering, Finishing, Ended
<1>4. CASE WalletExists(w) /\ Rejection(r) = None
  <2>1. Goto(c, "flush") /\ UNCHANGED reply
    BY <1>0, <1>4 DEF SelectForUpdate
  <2> QED BY <1>1, <2>1, SilentStep DEF Answering, Stages, InTransaction
<1> QED BY <1>2, <1>3, <1>4

LEMMA TransactionReplies ==
  ASSUME AllInv, [Next]_vars, NEW c \in Calls, ReplyOK(c),
         Flush(c) \/ RecordKey(c)
  PROVE  ReplyOK(c)'
<1>1. CASE Flush(c)
  <2>1. pc[c] = "flush"
    BY <1>1 DEF Flush
  <2>2. \/ Compose(c, "internal_error", None) /\ Goto(c, "leave")
        \/ /\ \E stage \in {"recheck", "commit", "record"} : Goto(c, stage)
           /\ UNCHANGED reply
    BY <1>1 DEF Flush, Raise
  <2>3. CASE Compose(c, "internal_error", None) /\ Goto(c, "leave")
    BY <2>1, <2>3, RefusedStep DEF Answering, Codes, Finishing, Ended
  <2> QED BY <2>1, <2>2, <2>3, SilentStep DEF Answering, Stages, InTransaction
<1>2. CASE RecordKey(c)
  <2>1. pc[c] = "record" /\ UNCHANGED reply
    BY <1>2 DEF RecordKey
  <2>2. \E stage \in {"recheck", "commit"} : Goto(c, stage)
    BY <1>2 DEF RecordKey
  <2> QED BY <2>1, <2>2, SilentStep DEF Answering, Stages, InTransaction
<1> QED BY <1>1, <1>2

LEMMA RecheckReplies ==
  ASSUME AllInv, [Next]_vars, NEW c \in Calls, ReplyOK(c), Recheck(c)
  PROVE  ReplyOK(c)'
<1>1. pc[c] = "recheck" /\ req[c].key # None /\ Recorded(req[c].key)
  BY DEF Recheck, AllInv, KeyInv, Found
<1>2. req[c].key \in Keys
  BY <1>1, RequestsAssumption DEF AllInv, TypeInv, CallOK, Received, RequestSpace
<1>3. /\ AnswerFromRecord(c)
      /\ \E stage \in {"release", "leave"} : Goto(c, stage)
  BY <1>1 DEF Recheck
<1>4. pc'[c] \in {"release", "leave"}
  BY <1>3, WentTo DEF AllInv, Stages
<1> QED BY <1>1, <1>2, <1>3, <1>4, RecordAnswers DEF Answering

LEMMA CommitReplies ==
  ASSUME AllInv, [Next]_vars, NEW c \in Calls, ReplyOK(c),
         Commit(c) \/ CommitUnacknowledged(c)
  PROVE  ReplyOK(c)'
<1>1. pc[c] = "commit" /\ ApplyDraft(c)
  BY DEF Commit, CommitUnacknowledged
<1>2. PICK u : /\ u = <<Wallet(c), Len(ledger[Wallet(c)]) + 1>>
               /\ KnownTxs' = KnownTxs \cup {u}
               /\ Tx(u)' = draft[c] /\ Tx(u)'.call = c
               /\ \A t \in KnownTxs : Tx(t)' = Tx(t) /\ Tx(t).call # c
  BY <1>1, CommitAddsRow
<1>3. RowsOf(c)' = {u}
  BY <1>2 DEF RowsOf
<1>4. CASE Commit(c)
  <2>1. Compose(c, "created", CreatedBody(c)) /\ Goto(c, "release")
    BY <1>4 DEF Commit
  <2>2. CreatedBody(c) \in Body /\ "created" \in Codes
    BY <1>1, ApplyDraftTyped DEF AllInv, Codes
  <2>3. /\ reply'[c] = [code |-> "created", body |-> CreatedBody(c)]
        /\ reply'[c] # None
    BY <2>1, <2>2, Replied DEF AllInv
  <2>4. /\ reply'[c].body.id = u
        /\ reply'[c].body.balance_after = Tx(u)'.balance_after
    BY <1>2, <2>3 DEF CreatedBody
  <2>5. TrueReply(c)'
    BY <1>3, <2>3, <2>4 DEF TrueReply
  <2>6. pc'[c] = "release"
    BY <2>1, WentTo DEF AllInv, Stages
  <2> QED BY <2>2, <2>3, <2>5, <2>6 DEF ReplyOK, Answering
<1>5. CASE CommitUnacknowledged(c)
  <2>1. Compose(c, "internal_error", None) /\ Goto(c, "leave")
    BY <1>5 DEF CommitUnacknowledged, Raise
  <2>2. /\ reply'[c] = [code |-> "internal_error", body |-> None]
        /\ reply'[c] # None
    BY <2>1, Replied DEF AllInv, Codes
  <2>3. Cardinality(RowsOf(c)') <= 1
    BY <1>3, FewRows
  <2>4. TrueReply(c)'
    BY <2>2, <2>3 DEF TrueReply
  <2>5. pc'[c] = "leave"
    BY <2>1, WentTo DEF AllInv, Stages
  <2> QED BY <2>2, <2>4, <2>5 DEF ReplyOK, Served, Answering
<1> QED BY <1>4, <1>5

LEMMA EndReplies ==
  ASSUME AllInv, [Next]_vars, NEW c \in Calls, ReplyOK(c),
         Release(c) \/ Leave(c) \/ Refresh(c)
  PROVE  ReplyOK(c)'
<1>1. pc[c] \in Answering /\ UNCHANGED reply
  BY DEF Release, Leave, Refresh, Answering
<1>2. \E stage \in {"refresh", "done"} : Goto(c, stage)
  BY DEF Release, Leave, Refresh
<1>3. pc'[c] \in Answering
  BY <1>2, WentTo DEF AllInv, Answering, Stages, Ended
<1> QED BY <1>1, <1>3, ReplyKept

LEMMA ReadReplies ==
  ASSUME AllInv, [Next]_vars, NEW c \in Calls, ReplyOK(c),
         LookupCache(c) \/ LoadBalance(c)
  PROVE  ReplyOK(c)'
<1>1. pc[c] \in {"lookup", "load"} /\ TypeOK
  BY DEF LookupCache, LoadBalance, AllInv, TypeInv
<1>2. Name(c) \in Names /\ Wallet(c) \in Wallets
  BY <1>1, NameTyped DEF AllInv
<1>3. ASSUME NEW v \in Paise, NEW stage \in {"done", "refresh"}, Goto(c, stage),
             Compose(c, "ok", BalanceBody(v))
      PROVE  ReplyOK(c)'
  <2>1. BalanceBody(v) \in Body
    BY BalanceBodyTyped
  <2> QED BY <1>1, <1>3, <2>1, RefusedStep
          DEF Answering, Codes, BusinessErrors, Finishing, Ended
<1>4. CASE LookupCache(c)
  <2>1. CASE CacheHit(Name(c))
    <3>1. cache[Name(c)] \in Paise
      BY <1>1, <1>2, <2>1 DEF TypeOK, CacheTypeOK, CacheHit
    <3> QED BY <1>3, <1>4, <2>1, <3>1 DEF LookupCache
  <2>2. CASE ~CacheHit(Name(c))
    <3>1. Goto(c, "load") /\ UNCHANGED reply
      BY <1>4, <2>2 DEF LookupCache
    <3> QED BY <1>1, <3>1, SilentStep DEF Answering, Stages
  <2> QED BY <2>1, <2>2
<1>5. CASE LoadBalance(c)
  <2>1. CASE WalletExists(Wallet(c))
    <3>1. StoredBalance(Wallet(c)) \in Paise
      BY <1>1, <1>2, <2>1 DEF TypeOK, TablesTypeOK, WalletExists, StoredBalance
    <3> QED BY <1>3, <1>5, <2>1, <3>1 DEF LoadBalance
  <2>2. CASE ~WalletExists(Wallet(c))
    <3>1. Compose(c, "wallet_not_found", None) /\ Goto(c, "done")
      BY <1>5, <2>2 DEF LoadBalance, Raise
    <3> QED BY <1>1, <3>1, RefusedStep
            DEF Answering, Codes, BusinessErrors, Finishing, Ended
  <2> QED BY <2>1, <2>2
<1> QED BY <1>4, <1>5

\* An internal error says nothing but that the call has at most one row.
LEMMA FaultReplies ==
  ASSUME AllInv, [Next]_vars, NEW c \in Calls, ReplyOK(c),
         Crash(c) \/ RedisFails(c) \/ DatabaseFails(c)
  PROVE  ReplyOK(c)'
<1>1. CASE Crash(c)
  <2>1. reply'[c] = None
    BY <1>1 DEF Crash, AllInv, TypeInv, TypeOK
  <2>2. pc'[c] = "crashed"
    BY <1>1, WentTo DEF Crash, AllInv, Stages, Ended
  <2> QED BY <2>1, <2>2 DEF ReplyOK, Answering
<1>2. CASE RedisFails(c) \/ DatabaseFails(c)
  <2>1. /\ \E stage \in {"done", "leave"} : Goto(c, stage)
        /\ Compose(c, "internal_error", None)
    BY <1>2 DEF RedisFails, DatabaseFails, Raise
  <2>2. /\ reply'[c] = [code |-> "internal_error", body |-> None]
        /\ reply'[c] # None
    BY <2>1, Replied DEF AllInv, Codes
  <2>3. UNCHANGED <<tables, req>>
    BY <1>2 DEF RedisFails, DatabaseFails
  <2>4. RowsOf(c)' = RowsOf(c)
    BY <2>3 DEF RowsOf, KnownTxs, Tx, tables
  <2>5. Cardinality(RowsOf(c)') <= 1
    BY <2>4, AtMostOneRow, FewRows
  <2>6. TrueReply(c)'
    BY <2>2, <2>5 DEF TrueReply
  <2>7. pc'[c] \in {"done", "leave"}
    BY <2>1, WentTo DEF AllInv, Stages, Ended
  <2> QED BY <2>2, <2>6, <2>7 DEF ReplyOK, Served, Answering
<1> QED BY <1>1, <1>2

LEMMA NextReplies == AllInv /\ ReplyInv /\ [Next]_vars => ReplyInv'
<1> SUFFICES ASSUME AllInv, ReplyInv, [Next]_vars, NEW d \in Calls
             PROVE  ReplyOK(d)'
  BY DEF ReplyInv
<1>1. ReplyOK(d)
  BY DEF ReplyInv
<1>2. ASSUME NEW c \in Calls, Receive(c) \/ Step(c) \/ Fault(c), c # d
      PROVE  ReplyOK(d)'
  <2>1. pc'[d] = pc[d] /\ reply'[d] = reply[d]
    BY <1>2, OthersStay DEF AllInv
  <2> QED BY <1>1, <2>1, ReplyKept
<1>3. CASE Receive(d)
  BY <1>1, <1>3, ReceiveReplies
<1>4. CASE Step(d)
  BY <1>1, <1>4, LockReplies, CheckReplies, SelectForUpdateReplies,
     TransactionReplies, RecheckReplies, CommitReplies, EndReplies, ReadReplies
     DEF Step
<1>5. CASE Fault(d)
  BY <1>1, <1>5, FaultReplies, CommitReplies DEF Fault
<1>6. CASE UNCHANGED calls
  <2>1. pc'[d] = pc[d] /\ reply'[d] = reply[d]
    BY <1>6 DEF calls
  <2> QED BY <1>1, <2>1, ReplyKept
<1>7. \/ UNCHANGED calls
      \/ \E c \in Calls : Receive(c) \/ Step(c) \/ Fault(c)
  BY OneCallMoves
<1> QED BY <1>2, <1>3, <1>4, <1>5, <1>6, <1>7

LEMMA AlwaysReplies == Spec => [](AllInv /\ ReplyInv)
<1>1. Init => AllInv /\ ReplyInv
  BY InitTyped, InitMoney, InitKeys, InitReplies DEF AllInv
<1>2. AllInv /\ ReplyInv /\ [Next]_vars => (AllInv /\ ReplyInv)'
  BY NextTyped, NextMoney, NextKeys, NextReplies DEF AllInv
<1> QED BY <1>1, <1>2, PTL DEF Spec

\* What a client is told is what happened, whatever fails: 201 goes with the one
\* row of the call, a replayed body with another call's row for the same
\* movement, a refusal with no row at all, and only a 500 leaves it open.
THEOREM RepliesCorrect == Spec => []RepliesAreTrue
<1>1. AllInv /\ ReplyInv => RepliesAreTrue
  BY DEF ReplyInv, ReplyOK, RepliesAreTrue, Answering
<1> QED BY <1>1, AlwaysReplies, PTL

\* A call that was served under a key was told what is recorded under it.
LEMMA ServedBody ==
  ASSUME AllInv, ReplyInv, NEW c \in Calls, Served(c), req[c].key # None
  PROVE  /\ reply[c].body = processed[req[c].key].body
         /\ reply[c].code = "created" => Tx(reply[c].body.id).call = c
<1>0. PICK t, b : b = reply[c].body /\ t = b.id
  OBVIOUS
<1>1. /\ ReplyOK(c) /\ TrueReply(c) /\ b \in Body
      /\ reply[c].code \in {"created", "replay"}
  BY <1>0 DEF ReplyInv, ReplyOK, Served
<1>2. /\ t \in KnownTxs /\ b.balance_after = Tx(t).balance_after
      /\ req[Tx(t).call].key = req[c].key
      /\ reply[c].code = "created" => Tx(t).call = c
  <2>1. CASE reply[c].code = "created"
    <3>1. t \in RowsOf(c) /\ b.balance_after = Tx(t).balance_after
      BY <1>0, <1>1, <2>1 DEF TrueReply
    <3> QED BY <3>1 DEF RowsOf
  <2>2. CASE reply[c].code = "replay"
    <3>1. /\ t \in KnownTxs /\ b.balance_after = Tx(t).balance_after
          /\ SameMovement(req[c], req[Tx(t).call])
      BY <1>0, <1>1, <2>2 DEF ReplyOK, Served, TrueReply
    <3> QED BY <2>2, <3>1 DEF SameMovement
  <2> QED BY <1>1, <2>1, <2>2
<1>3. processed[req[c].key].body = [id |-> t, balance_after |-> Tx(t).balance_after]
  <2>1. KeyAppliedOnce
    BY DEF AllInv, KeyInv
  <2>2. processed[req[c].key] = RecordOf(t)
    BY <1>2, <2>1 DEF KeyAppliedOnce
  <2> QED BY <2>2 DEF RecordOf
<1>4. b = [id |-> t, balance_after |-> Tx(t).balance_after]
  BY <1>0, <1>1, <1>2 DEF Body
<1> QED BY <1>0, <1>2, <1>3, <1>4

\* However often a request is sent under its key, and whichever attempt wins,
\* every answer that is no refusal names one transaction with one balance, and
\* one attempt at most is told that it created it.
THEOREM AnswersAgree == Spec => []OneAnswerPerKey
<1>1. ASSUME AllInv, ReplyInv, NEW c \in Calls, NEW d \in Calls,
             Served(c), Served(d), req[c].key # None, req[c].key = req[d].key
      PROVE  /\ reply[c].body = reply[d].body
             /\ reply[c].code = "created" /\ reply[d].code = "created" => c = d
  BY <1>1, ServedBody
<1>2. AllInv /\ ReplyInv => OneAnswerPerKey
  BY <1>1 DEF OneAnswerPerKey, Served
<1> QED BY <1>2, AlwaysReplies, PTL
=============================================================================
