------------------------- MODULE Idempotency_proofs -------------------------
(***************************************************************************)
(* Proofs about idempotency keys, the permanence of history and the        *)
(* abstract ledger, for every set of wallets, spellings, keys, calls and   *)
(* requests and for every set of faults, expiring locks among them.        *)
(***************************************************************************)
EXTENDS WalletService_proofs

-----------------------------------------------------------------------------
(* Calls and the rows they write.  An open transaction holds the movement   *)
(* its request asks for, within the constraints of the tables; its key, once *)
(* inserted, is nobody else's; and the call of a committed row has nothing   *)
(* left to do but to answer.                                                 *)

Drawn(c) ==
  pc[c] \in InTransaction =>
    /\ draft[c].type = req[c].op /\ draft[c].original = req[c].original
    /\ draft[c].note = req[c].note /\ draft[c].call = c
    /\ req[c].op # REFUND => draft[c].amount = req[c].amount
    /\ draft[c].amount > 0 /\ draft[c].balance_after >= 0

FirstUse(c) ==
  pc[c] = "commit" /\ req[c].key # None =>
    /\ ~Recorded(req[c].key)
    /\ \A d \in Calls \ {c} : pc[d] = "commit" => req[d].key # req[c].key

Found(c) == pc[c] = "recheck" => req[c].key # None /\ Recorded(req[c].key)

Finishing == {"release", "leave", "refresh"} \cup Ended
Written(w, i) ==
  LET row == ledger[w][i]
      r   == req[row.call]
  IN  /\ pc[row.call] \in Finishing /\ Canon[r.name] = w
      /\ row.type = r.op /\ row.original = r.original
      /\ row.amount > 0 /\ (r.op # REFUND => row.amount = r.amount)

OneRow ==
  \A v, w \in Wallets : \A i \in DOMAIN ledger[v], j \in DOMAIN ledger[w] :
    ledger[v][i].call = ledger[w][j].call => v = w /\ i = j

KeyInv ==
  /\ \A c \in Calls : Drawn(c) /\ FirstUse(c) /\ Found(c)
  /\ \A w \in Wallets : \A i \in DOMAIN ledger[w] : Written(w, i)
  /\ OneRow /\ KeyAppliedOnce

LEMMA KnownRows ==
  /\ \A w \in Wallets : \A i \in DOMAIN ledger[w] :
       <<w, i>> \in KnownTxs /\ Tx(<<w, i>>) = ledger[w][i]
  /\ \A t \in KnownTxs : \E w \in Wallets : \E i \in DOMAIN ledger[w] :
       t = <<w, i>>
<1>1. ASSUME NEW t \in KnownTxs
      PROVE  \E w \in Wallets : \E i \in DOMAIN ledger[w] : t = <<w, i>>
  BY DEF KnownTxs
<1>2. ASSUME NEW w \in Wallets, NEW i \in DOMAIN ledger[w]
      PROVE  <<w, i>> \in KnownTxs /\ Tx(<<w, i>>) = ledger[w][i]
  BY DEF KnownTxs, Tx
<1> QED BY <1>1, <1>2

\* What the record of the row <<w, i>> reads.
RowRecord(w, i) ==
  [wallet |-> w, fingerprint |-> Fingerprint(req[ledger[w][i].call]),
   body |-> [id |-> <<w, i>>, balance_after |-> ledger[w][i].balance_after]]

RowKey(w, i) == req[ledger[w][i].call].key

RowsAndRecords ==
  /\ \A w \in Wallets : \A i \in DOMAIN ledger[w] :
       RowKey(w, i) # None => processed[RowKey(w, i)] = RowRecord(w, i)
  /\ \A k \in Keys : Recorded(k) =>
       \E w \in Wallets : \E i \in DOMAIN ledger[w] : RowKey(w, i) = k

LEMMA KeyAppliedOnceByRow == KeyAppliedOnce <=> RowsAndRecords
<1>1. ASSUME NEW w \in Wallets, NEW i \in DOMAIN ledger[w]
      PROVE  /\ <<w, i>> \in KnownTxs /\ Tx(<<w, i>>) = ledger[w][i]
             /\ RecordOf(<<w, i>>) = RowRecord(w, i)
  BY KnownRows DEF RecordOf, RowRecord
<1>2. ASSUME NEW t \in KnownTxs
      PROVE  \E w \in Wallets : \E i \in DOMAIN ledger[w] : t = <<w, i>>
  BY KnownRows
<1>3. ASSUME KeyAppliedOnce PROVE RowsAndRecords
  <2>1. ASSUME NEW w \in Wallets, NEW i \in DOMAIN ledger[w]
        PROVE  RowKey(w, i) # None => processed[RowKey(w, i)] = RowRecord(w, i)
    <3>1. PICK t \in KnownTxs : /\ t = <<w, i>> /\ Tx(t) = ledger[w][i]
                                /\ RecordOf(t) = RowRecord(w, i)
      BY <1>1
    <3>2. req[Tx(t).call].key # None => processed[req[Tx(t).call].key] = RecordOf(t)
      BY <1>3 DEF KeyAppliedOnce
    <3> QED BY <3>1, <3>2 DEF RowKey
  <2>2. ASSUME NEW k \in Keys, Recorded(k)
        PROVE  \E w \in Wallets : \E i \in DOMAIN ledger[w] : RowKey(w, i) = k
    <3>1. PICK t \in KnownTxs : req[Tx(t).call].key = k
      BY <1>3, <2>2 DEF KeyAppliedOnce
    <3>2. PICK w \in Wallets : \E i \in DOMAIN ledger[w] : t = <<w, i>>
      BY <1>2
    <3>3. PICK i \in DOMAIN ledger[w] : t = <<w, i>>
      BY <3>2
    <3> QED BY <1>1, <3>1, <3>3 DEF RowKey
  <2> QED BY <2>1, <2>2 DEF RowsAndRecords
<1>4. ASSUME RowsAndRecords PROVE KeyAppliedOnce
  <2>1. ASSUME NEW t \in KnownTxs, req[Tx(t).call].key # None
        PROVE  processed[req[Tx(t).call].key] = RecordOf(t)
    <3>1. PICK w \in Wallets : \E i \in DOMAIN ledger[w] : t = <<w, i>>
      BY <1>2
    <3>2. PICK i \in DOMAIN ledger[w] : t = <<w, i>>
      BY <3>1
    <3> QED BY <1>1, <1>4, <2>1, <3>2 DEF RowsAndRecords, RowKey
  <2>2. ASSUME NEW k \in Keys, Recorded(k)
        PROVE  \E t \in KnownTxs : req[Tx(t).call].key = k
    <3>1. PICK w \in Wallets : \E i \in DOMAIN ledger[w] : RowKey(w, i) = k
      BY <1>4, <2>2 DEF RowsAndRecords
    <3>2. PICK i \in DOMAIN ledger[w] : RowKey(w, i) = k
      BY <3>1
    <3>3. PICK t \in KnownTxs : Tx(t) = ledger[w][i]
      BY <1>1
    <3> QED BY <3>2, <3>3 DEF RowKey
  <2> QED BY <2>1, <2>2 DEF KeyAppliedOnce
<1> QED BY <1>3, <1>4

LEMMA RowsTyped ==
  ASSUME TypeInv, NEW w \in Wallets, NEW i \in DOMAIN ledger[w]
  PROVE  ledger[w][i] \in Transaction /\ ledger[w][i].call \in Calls
         /\ i \in Nat \ {0}
<1>1. ledger[w] \in Seq(Transaction)
  BY DEF TypeInv, TypeOK, TablesTypeOK
<1>2. ledger[w][i] \in Transaction /\ i \in Nat \ {0}
  BY <1>1
<1> QED BY <1>2 DEF Transaction, Row

LEMMA InitKeys == Init => KeyInv
<1> SUFFICES ASSUME Init PROVE KeyInv
  OBVIOUS
<1>1. /\ \A c \in Calls : pc[c] = "idle"
      /\ \A w \in Wallets : DOMAIN ledger[w] = {}
      /\ \A k \in Keys : ~Recorded(k)
  BY DEF Init, TablesInit, Recorded
<1>2. KeyAppliedOnce
  BY <1>1, KeyAppliedOnceByRow DEF RowsAndRecords
<1>3. OneRow /\ \A c \in Calls : Drawn(c) /\ FirstUse(c) /\ Found(c)
  BY <1>1 DEF OneRow, Drawn, FirstUse, Found, InTransaction
<1> QED BY <1>1, <1>2, <1>3 DEF KeyInv

\* A step of call c that commits nothing: the rows and records stay, and only
\* what c claims of itself is to be shown.
LEMMA KeysKept ==
  ASSUME TypeInv, KeyInv, NEW c \in Calls, UNCHANGED <<ledger, processed>>,
         \A d \in Calls \ {c} : pc'[d] = pc[d] /\ req'[d] = req[d]
                                /\ draft'[d] = draft[d],
         pc[c] # "idle" => req'[c] = req[c],
         pc[c] \in Finishing => pc'[c] \in Finishing,
         Drawn(c)', FirstUse(c)', Found(c)'
  PROVE  KeyInv'
<1>1. ASSUME NEW d \in Calls PROVE Drawn(d)' /\ FirstUse(d)' /\ Found(d)'
  <2>1. CASE d = c
    BY <2>1
  <2>2. CASE d # c
    <3>1. Drawn(d) /\ FirstUse(d) /\ Found(d)
      BY DEF KeyInv
    <3>2. Drawn(d)' /\ Found(d)'
      BY <2>2, <3>1 DEF Drawn, Found, Recorded
    <3>3. FirstUse(d)'
      <4> SUFFICES ASSUME pc'[d] = "commit", req'[d].key # None
                   PROVE  /\ ~Recorded(req[d].key)'
                          /\ \A e \in Calls \ {d} :
                               pc'[e] = "commit" => req'[e].key # req'[d].key
        BY DEF FirstUse
      <4>1. ~Recorded(req[d].key)'
        BY <2>2, <3>1 DEF FirstUse, Recorded
      <4>2. ASSUME NEW e \in Calls \ {d}, pc'[e] = "commit"
            PROVE  req'[e].key # req'[d].key
        <5>1. CASE e = c
          BY <2>2, <4>2, <5>1 DEF FirstUse
        <5>2. CASE e # c
          BY <2>2, <3>1, <4>2, <5>2 DEF FirstUse
        <5> QED BY <5>1, <5>2
      <4> QED BY <4>1, <4>2
    <3> QED BY <3>2, <3>3
  <2> QED BY <2>1, <2>2
<1>2. ASSUME NEW w \in Wallets, NEW i \in DOMAIN ledger[w]
      PROVE  /\ Written(w, i)
             /\ pc'[ledger[w][i].call] \in Finishing
             /\ req'[ledger[w][i].call] = req[ledger[w][i].call]
  <2>1. Written(w, i) /\ ledger[w][i].call \in Calls
    BY RowsTyped DEF KeyInv
  <2>2. pc[ledger[w][i].call] \in Finishing /\ "idle" \notin Finishing
    BY <2>1 DEF Written, Finishing, Ended
  <2> QED BY <2>1, <2>2
<1>3. \A w \in Wallets : \A i \in DOMAIN ledger'[w] : Written(w, i)'
  BY <1>2 DEF Written
<1>4. OneRow'
  BY DEF KeyInv, OneRow
<1>5. KeyAppliedOnce'
  <2>1. \A w \in Wallets : \A i \in DOMAIN ledger[w] :
          RowRecord(w, i)' = RowRecord(w, i)
    BY <1>2 DEF RowRecord, Fingerprint
  <2>2. /\ \A k \in Keys : Recorded(k)' <=> Recorded(k)
        /\ \A w \in Wallets : \A i \in DOMAIN ledger[w] :
             RowKey(w, i)' = RowKey(w, i)
    BY <1>2 DEF Recorded, RowKey
  <2>3. RowsAndRecords'
    BY <2>1, <2>2, KeyAppliedOnceByRow DEF KeyInv, RowsAndRecords
  <2>4. (KeyAppliedOnce <=> RowsAndRecords)'
    BY KeyAppliedOnceByRow, PTL
  <2> QED BY <2>3, <2>4
<1> QED BY <1>1, <1>3, <1>4, <1>5 DEF KeyInv

\* The steps of a call outside its transaction.
LEMMA OutsideKeys ==
  ASSUME TypeInv, KeyInv, NEW c \in Calls,
         \/ AcquireLock(c) \/ LockBusy(c) \/ Check(c) \/ Recheck(c)
         \/ Release(c) \/ Leave(c) \/ Refresh(c)
         \/ LookupCache(c) \/ LoadBalance(c) \/ RedisFails(c)
  PROVE  KeyInv'
<1>1. UNCHANGED <<tables, req, draft>>
  BY DEF AcquireLock, LockBusy, Check, Recheck, Release, Leave, Refresh,
     LookupCache, LoadBalance, RedisFails
<1>2. PICK stage \in Stages \ (InTransaction \cup {"recheck"}) :
        Goto(c, stage) /\ (pc[c] \in Finishing => stage \in Finishing)
  BY DEF AcquireLock, LockBusy, Check, Recheck, Release, Leave, Refresh,
     LookupCache, LoadBalance, RedisFails, InTransaction, Stages, Ended,
     Finishing
<1>3. pc'[c] = stage /\ \A d \in Calls \ {c} : pc'[d] = pc[d]
  BY <1>2, GotoTyped DEF TypeInv
<1>4. Drawn(c)' /\ FirstUse(c)' /\ Found(c)'
  BY <1>2, <1>3 DEF Drawn, FirstUse, Found, InTransaction
<1> QED BY <1>1, <1>2, <1>3, <1>4, KeysKept DEF tables

LEMMA ReceiveKeys ==
  ASSUME TypeInv, KeyInv, NEW c \in Calls, Receive(c)
  PROVE  KeyInv'
<1>1. /\ pc[c] = "idle" /\ UNCHANGED <<tables, draft>>
      /\ \A d \in Calls \ {c} : req'[d] = req[d]
      /\ \E stage \in {"lookup", "acquire", "done"} : Goto(c, stage)
  BY DEF Receive, TypeInv, TypeOK
<1>2. /\ pc'[c] \in {"lookup", "acquire", "done"}
      /\ \A d \in Calls \ {c} : pc'[d] = pc[d]
  BY <1>1, GotoTyped DEF TypeInv, Stages, Ended
<1>3. Drawn(c)' /\ FirstUse(c)' /\ Found(c)'
  BY <1>2 DEF Drawn, FirstUse, Found, InTransaction
<1> QED BY <1>1, <1>2, <1>3, KeysKept DEF tables, Finishing, Ended

\* The movement a request asks for, once the rules let it pass, is within the
\* constraints of the tables.
LEMMA MovementDrawn ==
  ASSUME TypeInv, KeyInv, NEW c \in Calls, NEW r \in Requests,
         r.op \in MovementTypes, WellFormed(r),
         WalletExists(Canon[r.name]), Rejection(r) = None,
         NEW w, w = Canon[r.name], NEW row, row = Movement(c, r, w)
  PROVE  /\ row.type = r.op /\ row.original = r.original
         /\ row.note = r.note /\ row.call = c
         /\ r.op # REFUND => row.amount = r.amount
         /\ row.amount > 0 /\ row.balance_after >= 0
<1>1. r \in RequestSpace /\ r.name \in Names /\ w \in Wallets
  BY RequestsAssumption, NamesAssumption DEF RequestSpace
<1>2. r.amount \in Int /\ r.original \in TxIds \cup {None}
  BY <1>1 DEF RequestSpace
<1>3. balance[w] \in Int /\ balance[w] >= 0
  BY <1>1, PaiseAssumption
     DEF TypeInv, TypeOK, TablesTypeOK, WalletExists, Paise
<1>4. /\ row.type = r.op /\ row.original = r.original
      /\ row.note = r.note /\ row.call = c
  BY DEF Movement
<1>5. CASE r.op = REFUND
  <2> DEFINE from == Tx(r.original)
  <2>1. r.original \in TxIds /\ TxExists(r.original)
    BY <1>2, <1>5, NotRejected DEF WellFormed, OwnTransaction
  <2>2. from.amount \in Int /\ from.amount > 0
    <3>1. PICK v \in Wallets, i \in Nat : r.original = <<v, i>>
      BY <2>1 DEF TxIds
    <3>2. i \in DOMAIN ledger[v] /\ from = ledger[v][i]
      BY <2>1, <3>1 DEF TxExists, Tx
    <3>3. Written(v, i)
      BY <3>2 DEF KeyInv
    <3>4. from.amount > 0
      BY <3>2, <3>3 DEF Written
    <3> QED BY <2>1, <3>4, TxTyped DEF TypeInv, TypeOK
  <2>3. row.amount = from.amount
    BY <1>5 DEF Movement
  <2>4. row.balance_after = IF from.type # DEDUCT
                            THEN balance[w] - from.amount
                            ELSE balance[w] + from.amount
    BY <1>5, OpsDiffer DEF Movement
  <2>5. from.type # DEDUCT => ~(balance[w] < from.amount)
    BY <1>5, NotRejected
  <2> QED BY <1>3, <1>4, <1>5, <2>2, <2>3, <2>4, <2>5
<1>6. CASE r.op # REFUND
  <2>1. row.amount = r.amount /\ r.amount > 0
    BY <1>6 DEF Movement, WellFormed, MovementTypes
  <2>2. row.balance_after = IF r.op = DEDUCT THEN balance[w] - r.amount
                                             ELSE balance[w] + r.amount
    BY <1>6 DEF Movement
  <2>3. r.op = DEDUCT => ~(balance[w] < r.amount)
    BY NotRejected
  <2> QED BY <1>2, <1>3, <1>4, <2>1, <2>2, <2>3
<1> QED BY <1>5, <1>6

LEMMA SelectForUpdateKeys ==
  ASSUME TypeInv, KeyInv, NEW c \in Calls, SelectForUpdate(c)
  PROVE  KeyInv'
<1>0. PICK r, w : r = req[c] /\ w = Wallet(c)
  OBVIOUS
<1>1. /\ TypeOK /\ r \in Requests /\ r.op \in MovementTypes
      /\ WellFormed(r) /\ pc[c] = "select" /\ w = Canon[r.name]
  BY <1>0 DEF TypeInv, SelectForUpdate, CallOK, Received, Writing, InService,
     Stages, Ended, Wallet
<1>2. UNCHANGED <<ledger, processed, req>>
  BY DEF SelectForUpdate, tables
<1>3. CASE Goto(c, "leave") /\ UNCHANGED draft
  <2>1. pc'[c] = "leave" /\ \A d \in Calls \ {c} : pc'[d] = pc[d]
    BY <1>1, <1>3, GotoTyped DEF Stages
  <2>2. Drawn(c)' /\ FirstUse(c)' /\ Found(c)'
    BY <2>1 DEF Drawn, FirstUse, Found, InTransaction
  <2> QED BY <1>2, <1>3, <2>1, <2>2, KeysKept DEF Finishing
<1>4. CASE /\ WalletExists(w) /\ Rejection(r) = None
           /\ draft' = [draft EXCEPT ![c] = Movement(c, r, w)]
           /\ Goto(c, "flush")
  <2>1. pc'[c] = "flush" /\ \A d \in Calls \ {c} : pc'[d] = pc[d]
    BY <1>1, <1>4, GotoTyped DEF Stages, InTransaction
  <2>2. PICK row : row = Movement(c, r, w)
    OBVIOUS
  <2>3. draft'[c] = row /\ \A d \in Calls \ {c} : draft'[d] = draft[d]
    BY <1>1, <1>4, <2>2 DEF TypeOK
  <2>4. /\ row.type = r.op /\ row.original = r.original
        /\ row.note = r.note /\ row.call = c
        /\ r.op # REFUND => row.amount = r.amount
        /\ row.amount > 0 /\ row.balance_after >= 0
    BY <1>1, <1>4, <2>2, MovementDrawn
  <2>5. Drawn(c)' /\ FirstUse(c)' /\ Found(c)'
    BY <1>0, <1>2, <2>1, <2>3, <2>4 DEF Drawn, FirstUse, Found
  <2> QED BY <1>1, <1>2, <2>1, <2>3, <2>5, KeysKept DEF Finishing, Ended
<1>5. CASE ~WalletExists(w) \/ Rejection(r) # None
  BY <1>0, <1>3, <1>5 DEF SelectForUpdate
<1>6. CASE WalletExists(w) /\ Rejection(r) = None
  BY <1>0, <1>4, <1>6 DEF SelectForUpdate
<1> QED BY <1>5, <1>6

\* No constraint of the tables breaks behind the row lock, so the only insert
\* that can fail is that of the key.
LEMMA DraftPassesConstraints ==
  ASSUME MoneyInv, KeyInv, TypeInv, NEW c \in Calls, pc[c] = "flush"
  PROVE  ConstraintsHold(draft[c])
<1>1. Drawn(c) /\ Fresh(c) /\ pc[c] \in InTransaction
  BY DEF KeyInv, MoneyInv, InTransaction
<1>2. draft[c].amount > 0 /\ draft[c].balance_after >= 0
  BY <1>1 DEF Drawn
<1>3. RefundsOpenRow(draft[c], Wallet(c))
  BY <1>1 DEF Fresh
<1>4. draft[c].original # None => ~RefundExists(draft[c].original)
  BY <1>3 DEF RefundsOpenRow
<1> QED BY <1>2, <1>4 DEF ConstraintsHold

LEMMA TransactionKeys ==
  ASSUME TypeInv, MoneyInv, KeyInv, NEW c \in Calls,
         Flush(c) \/ RecordKey(c) \/ Crash(c) \/ DatabaseFails(c)
  PROVE  KeyInv'
<1>1. TypeOK /\ CallOK(c) /\ UNCHANGED <<tables, req>>
  BY DEF TypeInv, Flush, RecordKey, Crash, DatabaseFails
\* Rolled back for good.
<1>2. ASSUME EndTransaction(c), NEW stage \in {"leave", "done", "crashed"},
             Goto(c, stage), pc[c] \in Finishing => stage \in Finishing
      PROVE  KeyInv'
  <2>1. pc'[c] = stage /\ \A d \in Calls \ {c} : pc'[d] = pc[d]
    BY <1>1, <1>2, GotoTyped DEF Stages, Ended
  <2>2. \A d \in Calls \ {c} : draft'[d] = draft[d]
    BY <1>1, <1>2, EndTransactionTyped
  <2>3. Drawn(c)' /\ FirstUse(c)' /\ Found(c)'
    BY <2>1 DEF Drawn, FirstUse, Found, InTransaction
  <2> QED BY <1>1, <1>2, <2>1, <2>2, <2>3, KeysKept DEF tables
\* Rolled back because the key was there.
<1>3. ASSUME RecordKey(c), EndTransaction(c), Goto(c, "recheck"),
             Recorded(req[c].key)
      PROVE  KeyInv'
  <2>1. pc'[c] = "recheck" /\ \A d \in Calls \ {c} : pc'[d] = pc[d]
    BY <1>1, <1>3, GotoTyped DEF Stages
  <2>2. \A d \in Calls \ {c} : draft'[d] = draft[d]
    BY <1>1, <1>3, EndTransactionTyped
  <2>3. pc[c] = "record" /\ req[c].key \in Keys /\ None \notin Keys
    BY <1>1, <1>3, NoneAssumption DEF RecordKey, CallOK, Keyed, Values
  <2>4. Drawn(c)' /\ FirstUse(c)' /\ Found(c)'
    BY <1>1, <1>3, <2>1, <2>3
       DEF Drawn, FirstUse, Found, InTransaction, Recorded, tables
  <2> QED BY <1>1, <2>1, <2>2, <2>3, <2>4, KeysKept
          DEF tables, Finishing, Ended
\* Moving on.
<1>4. ASSUME UNCHANGED draft, pc[c] \in InTransaction,
             NEW stage \in {"record", "commit"}, Goto(c, stage),
             stage = "commit" /\ req[c].key # None =>
               ~Recorded(req[c].key) /\ ~KeyPending(req[c].key)
      PROVE  KeyInv'
  <2>1. pc'[c] = stage /\ \A d \in Calls \ {c} : pc'[d] = pc[d]
    BY <1>1, <1>4, GotoTyped DEF Stages, InTransaction
  <2>2. Drawn(c)' /\ Found(c)'
    BY <1>1, <1>4, <2>1 DEF KeyInv, Drawn, Found
  <2>3. FirstUse(c)'
    BY <1>1, <1>4, <2>1 DEF FirstUse, KeyPending, Inserted, Recorded, tables
  <2> QED BY <1>1, <1>4, <2>1, <2>2, <2>3, KeysKept
          DEF tables, Finishing, Ended, InTransaction
<1>5. ASSUME Flush(c) PROVE KeyInv'
  <2>1. ConstraintsHold(draft[c]) /\ pc[c] = "flush"
    BY <1>5, DraftPassesConstraints DEF Flush
  <2>2. \/ EndTransaction(c) /\ Goto(c, "leave")
        \/ /\ Goto(c, IF req[c].key = None THEN "commit" ELSE "record")
           /\ UNCHANGED draft
    BY <1>5, <2>1 DEF Flush
  <2> QED BY <1>2, <1>4, <2>1, <2>2 DEF Finishing, InTransaction
<1>6. ASSUME RecordKey(c) PROVE KeyInv'
  BY <1>3, <1>4, <1>6 DEF RecordKey, InTransaction
<1>7. ASSUME Crash(c) \/ DatabaseFails(c) PROVE KeyInv'
  BY <1>2, <1>7 DEF Crash, DatabaseFails, Finishing, Ended, InTransaction
<1> QED BY <1>5, <1>6, <1>7

\* Steps that touch neither a row, a record nor a call.
LEMMA ElsewhereKeys ==
  ASSUME TypeInv, KeyInv, UNCHANGED <<ledger, processed, calls>>
  PROVE  KeyInv'
<1>1. CASE Calls = {}
  <2>1. \A w \in Wallets : DOMAIN ledger[w] = {}
    BY <1>1, RowsTyped
  <2>2. RowsAndRecords'
    BY <2>1, KeyAppliedOnceByRow DEF KeyInv, RowsAndRecords, Recorded
  <2>3. (KeyAppliedOnce <=> RowsAndRecords)'
    BY KeyAppliedOnceByRow, PTL
  <2> QED BY <1>1, <2>1, <2>2, <2>3 DEF KeyInv, OneRow
<1>2. ASSUME NEW c \in Calls PROVE KeyInv'
  <2>1. Drawn(c) /\ FirstUse(c) /\ Found(c)
    BY DEF KeyInv
  <2>2. Drawn(c)' /\ FirstUse(c)' /\ Found(c)'
    BY <2>1 DEF Drawn, FirstUse, Found, Recorded, calls
  <2> QED BY <2>2, KeysKept DEF calls
<1> QED BY <1>1, <1>2

LEMMA RowRecordTyped ==
  ASSUME TypeInv, KeyInv, NEW w \in Wallets, NEW i \in DOMAIN ledger[w]
  PROVE  RowRecord(w, i) \in ProcessedRequest /\ RowRecord(w, i) # None
<1>1. /\ ledger[w][i] \in Transaction /\ ledger[w][i].call \in Calls
      /\ i \in Nat /\ Written(w, i)
  BY RowsTyped DEF KeyInv
<1>2. req[ledger[w][i].call] \in Requests
  BY <1>1 DEF TypeInv, CallOK, Received, Written, Finishing, Ended
<1>3. ledger[w][i].balance_after \in Paise /\ <<w, i>> \in TxIds
  BY <1>1 DEF Transaction, Row, TxIds
<1>4. RowRecord(w, i) \in ProcessedRequest
  BY <1>2, <1>3 DEF RowRecord, ProcessedRequest, Body
<1> QED BY <1>4, NoneAssumption DEF Values

\* The records after a commit.
LEMMA ApplyDraftRecords ==
  ASSUME TypeInv, NEW c \in Calls, pc[c] = "commit", ApplyDraft(c),
         NEW w, w = Wallet(c), NEW n, n = Len(ledger[w]),
         NEW k, k = req[c].key
  PROVE  /\ k \in Keys \cup {None} /\ None \notin Keys
         /\ k = None => processed' = processed
         /\ k # None =>
              /\ processed'[k] =
                   [wallet |-> w, fingerprint |-> Fingerprint(req[c]),
                    body |-> [id |-> <<w, n + 1>>,
                              balance_after |-> draft[c].balance_after]]
              /\ \A l \in Keys \ {k} : processed'[l] = processed[l]
<1>1. req[c] \in Requests /\ TablesTypeOK
  BY DEF TypeInv, TypeOK, CallOK, Received
<1>2. k \in Keys \cup {None} /\ None \notin Keys
  BY <1>1, RequestsAssumption, NoneAssumption DEF RequestSpace, Values
<1> QED BY <1>1, <1>2 DEF ApplyDraft, CreatedBody, TablesTypeOK

LEMMA CommitKeys ==
  ASSUME TypeInv, MoneyInv, KeyInv, NEW c \in Calls,
         Commit(c) \/ CommitUnacknowledged(c)
  PROVE  KeyInv'
<1>0. PICK w, n, k : w = Wallet(c) /\ n = Len(ledger[w]) /\ k = req[c].key
  OBVIOUS
<1>1. /\ TypeOK /\ pc[c] = "commit" /\ ApplyDraft(c) /\ req' = req
      /\ EndTransaction(c)
      /\ Goto(c, "release") \/ Goto(c, "leave")
  BY DEF Commit, CommitUnacknowledged, ApplyDraft, TypeInv
<1>2. pc'[c] \in {"release", "leave"} /\ \A d \in Calls \ {c} : pc'[d] = pc[d]
  BY <1>1, GotoTyped DEF Stages
<1>3. \A d \in Calls \ {c} : draft'[d] = draft[d]
  BY <1>1, EndTransactionTyped
<1>4. /\ w \in Wallets /\ n \in Nat /\ DOMAIN ledger[w] = 1 .. n
      /\ DOMAIN ledger'[w] = 1 .. n + 1
      /\ ledger'[w][n + 1] = draft[c]
      /\ \A i \in 1 .. n : ledger'[w][i] = ledger[w][i]
      /\ \A v \in Wallets \ {w} : ledger'[v] = ledger[v]
  BY <1>0, <1>1, ApplyDraftShape
<1>5. /\ k \in Keys \cup {None} /\ None \notin Keys
      /\ k = None => processed' = processed
      /\ k # None =>
           /\ processed'[k] =
                [wallet |-> w, fingerprint |-> Fingerprint(req[c]),
                 body |-> [id |-> <<w, n + 1>>,
                           balance_after |-> draft[c].balance_after]]
           /\ \A l \in Keys \ {k} : processed'[l] = processed[l]
  BY <1>0, <1>1, ApplyDraftRecords
<1>6. ASSUME NEW v \in Wallets, NEW i \in DOMAIN ledger[v]
      PROVE  /\ i \in DOMAIN ledger'[v] /\ ledger'[v][i] = ledger[v][i]
             /\ Written(v, i) /\ ledger[v][i].call \in Calls
             /\ ledger[v][i].call # c
  <2>1. Written(v, i) /\ ledger[v][i].call \in Calls
    BY RowsTyped DEF KeyInv
  <2>2. ledger[v][i].call # c
    BY <1>1, <2>1 DEF Written, Finishing, Ended
  <2>3. i \in DOMAIN ledger'[v] /\ ledger'[v][i] = ledger[v][i]
    BY <1>4
  <2> QED BY <2>1, <2>2, <2>3
<1>7. ASSUME NEW v \in Wallets, NEW i \in DOMAIN ledger'[v],
             ~(v = w /\ i = n + 1)
      PROVE  i \in DOMAIN ledger[v]
  BY <1>4, <1>7
<1>8. /\ w = Canon[req[c].name] /\ draft[c].call = c
      /\ draft[c].type = req[c].op /\ draft[c].original = req[c].original
      /\ req[c].op # REFUND => draft[c].amount = req[c].amount
      /\ draft[c].amount > 0
  BY <1>0, <1>1 DEF KeyInv, Drawn, InTransaction, Wallet
<1>9. RowRecord(w, n + 1)' = [wallet |-> w, fingerprint |-> Fingerprint(req[c]),
                              body |-> [id |-> <<w, n + 1>>,
                                        balance_after |-> draft[c].balance_after]]
      /\ RowKey(w, n + 1)' = k
  BY <1>0, <1>1, <1>4, <1>8 DEF RowRecord, RowKey
<1>10. ASSUME NEW d \in Calls PROVE Drawn(d)' /\ FirstUse(d)' /\ Found(d)'
  <2>1. CASE d = c
    BY <1>2, <2>1 DEF Drawn, FirstUse, Found, InTransaction
  <2>2. CASE d # c
    <3>1. Drawn(d) /\ FirstUse(d) /\ Found(d) /\ FirstUse(c)
      BY DEF KeyInv
    <3>2. Drawn(d)'
      BY <1>1, <1>2, <1>3, <2>2, <3>1 DEF Drawn
    <3>3. ASSUME NEW l \in Keys PROVE Recorded(l)' <=> Recorded(l) \/ l = k
      <4>1. CASE k = None \/ l # k
        BY <1>5, <4>1 DEF Recorded
      <4>2. CASE k # None /\ l = k
        <5>1. processed'[k] # None
          <6> DEFINE rec == processed'[k]
          <6>1. rec \in ProcessedRequest
            <7>1. req[c] \in Requests /\ draft[c].balance_after \in Paise
              BY <1>1 DEF TypeInv, CallOK, Received, Drafted, Transaction, Row
            <7> QED BY <1>4, <1>5, <4>2, <7>1 DEF ProcessedRequest, Body, TxIds
          <6> QED BY <6>1, NoneAssumption DEF Values
        <5> QED BY <4>2, <5>1 DEF Recorded
      <4> QED BY <4>1, <4>2
    <3>4. pc[d] # "idle" => req[d].key \in Keys \cup {None}
      BY RequestsAssumption DEF TypeInv, CallOK, Received, RequestSpace
    <3>5. FirstUse(d)'
      <4> SUFFICES ASSUME pc[d] = "commit", req[d].key # None
                   PROVE  ~Recorded(req[d].key)'
        BY <1>1, <1>2, <2>2, <3>1 DEF FirstUse
      <4>1. ~Recorded(req[d].key) /\ req[d].key # k
        BY <1>0, <1>1, <2>2, <3>1 DEF FirstUse
      <4>2. req[d].key \in Keys
        BY <3>4
      <4>3. ~Recorded(req[d].key)'
        BY <1>1, <3>3, <4>1, <4>2 DEF Recorded
      <4> QED BY <4>3
    <3>6. Found(d)'
      BY <1>1, <1>2, <2>2, <3>1, <3>3, <3>4 DEF Found, Recorded
    <3> QED BY <3>2, <3>5, <3>6
  <2> QED BY <2>1, <2>2
<1>11. ASSUME NEW v \in Wallets, NEW i \in DOMAIN ledger'[v]
       PROVE  Written(v, i)'
  <2>1. CASE v = w /\ i = n + 1
    BY <1>1, <1>2, <1>4, <1>8, <2>1 DEF Written, Finishing
  <2>2. CASE ~(v = w /\ i = n + 1)
    <3>1. i \in DOMAIN ledger[v]
      BY <1>7, <2>2
    <3> QED BY <1>1, <1>2, <1>6, <3>1 DEF Written
  <2> QED BY <2>1, <2>2
<1>12. OneRow'
  <2>1. OneRow
    BY DEF KeyInv
  <2>2. ASSUME NEW v \in Wallets, NEW i \in DOMAIN ledger'[v]
        PROVE  ledger'[v][i].call = c <=> v = w /\ i = n + 1
    BY <1>4, <1>6, <1>7, <1>8
  <2>3. ASSUME NEW u \in Wallets, NEW v \in Wallets,
               NEW i \in DOMAIN ledger'[u], NEW j \in DOMAIN ledger'[v],
               ledger'[u][i].call = ledger'[v][j].call
        PROVE  u = v /\ i = j
    <3>1. CASE ledger'[u][i].call = c
      BY <2>2, <2>3, <3>1
    <3>2. CASE ledger'[u][i].call # c
      <4>1. i \in DOMAIN ledger[u] /\ j \in DOMAIN ledger[v]
        BY <1>7, <2>2, <2>3, <3>2
      <4>2. ledger[u][i].call = ledger[v][j].call
        BY <1>6, <2>3, <4>1
      <4> QED BY <2>1, <4>1, <4>2 DEF OneRow
    <3> QED BY <3>1, <3>2
  <2> QED BY <2>3 DEF OneRow
<1>13. RowsAndRecords'
  <2>1. RowsAndRecords /\ FirstUse(c)
    BY KeyAppliedOnceByRow DEF KeyInv
  <2>2. ASSUME NEW v \in Wallets, NEW i \in DOMAIN ledger'[v],
               RowKey(v, i)' # None
        PROVE  processed'[RowKey(v, i)'] = RowRecord(v, i)'
    <3>1. CASE v = w /\ i = n + 1
      BY <1>5, <1>9, <2>2, <3>1
    <3>2. CASE ~(v = w /\ i = n + 1)
      <4>1. i \in DOMAIN ledger[v]
        BY <1>7, <3>2
      <4>2. RowKey(v, i)' = RowKey(v, i) /\ RowRecord(v, i)' = RowRecord(v, i)
        BY <1>1, <1>6, <4>1 DEF RowKey, RowRecord
      <4>3. processed[RowKey(v, i)] = RowRecord(v, i) /\ RowRecord(v, i) # None
        BY <2>1, <2>2, <4>1, <4>2, RowRecordTyped DEF RowsAndRecords
      <4>4. RowKey(v, i) # k
        BY <1>0, <1>1, <2>1, <2>2, <4>2, <4>3 DEF FirstUse, Recorded
      <4>5. RowKey(v, i) \in Keys
        <5>1. req[ledger[v][i].call] \in Requests
          BY <1>6, <4>1 DEF TypeInv, CallOK, Received, Written, Finishing, Ended
        <5> QED BY <2>2, <4>2, <5>1, RequestsAssumption DEF RequestSpace, RowKey
      <4> QED BY <1>5, <4>2, <4>3, <4>4, <4>5
    <3> QED BY <3>1, <3>2
  <2>3. ASSUME NEW l \in Keys, Recorded(l)'
        PROVE  \E v \in Wallets : \E i \in DOMAIN ledger'[v] : RowKey(v, i)' = l
    <3>1. CASE l = k
      BY <1>4, <1>9, <3>1
    <3>2. CASE l # k
      <4>1. Recorded(l)
        BY <1>5, <2>3, <3>2 DEF Recorded
      <4>2. PICK v \in Wallets : \E i \in DOMAIN ledger[v] : RowKey(v, i) = l
        BY <2>1, <4>1 DEF RowsAndRecords
      <4>3. PICK i \in DOMAIN ledger[v] : RowKey(v, i) = l
        BY <4>2
      <4>4. i \in DOMAIN ledger'[v] /\ RowKey(v, i)' = l
        BY <1>1, <1>6, <4>3 DEF RowKey
      <4> QED BY <4>4
    <3> QED BY <3>1, <3>2
  <2> QED BY <2>2, <2>3 DEF RowsAndRecords
<1>14. KeyAppliedOnce'
  <2>1. (KeyAppliedOnce <=> RowsAndRecords)'
    BY KeyAppliedOnceByRow, PTL
  <2> QED BY <1>13, <2>1
<1> QED BY <1>10, <1>11, <1>12, <1>14 DEF KeyInv

LEMMA NextKeys == TypeInv /\ MoneyInv /\ KeyInv /\ [Next]_vars => KeyInv'
<1> SUFFICES ASSUME TypeInv, MoneyInv, KeyInv, [Next]_vars PROVE KeyInv'
  OBVIOUS
<1>1. ASSUME NEW w \in Wallets, NEW v \in Openings, CreateWallet(w, v)
      PROVE KeyInv'
  BY <1>1, ElsewhereKeys DEF CreateWallet
<1>2. ASSUME NEW c \in Calls, Receive(c) PROVE KeyInv'
  BY <1>2, ReceiveKeys
<1>3. ASSUME NEW c \in Calls, Step(c) PROVE KeyInv'
  BY <1>3, OutsideKeys, SelectForUpdateKeys, TransactionKeys, CommitKeys
     DEF Step
<1>4. ASSUME NEW c \in Calls, Fault(c) PROVE KeyInv'
  BY <1>4, OutsideKeys, TransactionKeys, CommitKeys DEF Fault
<1>5. ASSUME NEW n \in Names, LockExpires(n) \/ CacheExpires(n) PROVE KeyInv'
  BY <1>5, ElsewhereKeys DEF LockExpires, CacheExpires, tables
<1>6. CASE UNCHANGED vars
  BY <1>6, ElsewhereKeys DEF vars, tables
<1> QED BY <1>1, <1>2, <1>3, <1>4, <1>5, <1>6 DEF Next, Quiescent

LEMMA AlwaysKeys == Spec => [](TypeInv /\ MoneyInv /\ KeyInv)
<1>1. Init => TypeInv /\ MoneyInv /\ KeyInv
  BY InitTyped, InitMoney, InitKeys
<1>2. TypeInv /\ MoneyInv /\ KeyInv /\ [Next]_vars
      => (TypeInv /\ MoneyInv /\ KeyInv)'
  BY NextTyped, NextMoney, NextKeys
<1> QED BY <1>1, <1>2, PTL DEF Spec

\* An idempotency key moves money at most once, and its record is of exactly
\* that row, with any number of retries in flight, with every fault, and even
\* when the Redis lock expires under its holder: the primary key of
\* processed_requests decides, in the transaction that writes the row.
THEOREM KeysCorrect == Spec => []KeyAppliedOnce
  BY AlwaysKeys, PTL DEF KeyInv

\* When _write or _write_refund looks the key up again after an
\* IntegrityError, the record is there: behind the row lock no other constraint
\* can break, and the insert of the key waits for the other transaction.
THEOREM RecoveryCorrect == Spec => []RecoveryFindsRecord
<1>1. KeyInv => RecoveryFindsRecord
  BY DEF KeyInv, Found, RecoveryFindsRecord
<1> QED BY <1>1, AlwaysKeys, PTL

-----------------------------------------------------------------------------
(* History, and the abstract ledger.                                        *)

\* The only steps the tables see.
LEMMA TablesChange ==
  ASSUME [Next]_vars
  PROVE  \/ UNCHANGED tables
         \/ \E w \in Wallets, v \in Openings : CreateWallet(w, v)
         \/ \E c \in Calls : /\ pc[c] = "commit" /\ ApplyDraft(c)
                             /\ Commit(c) \/ CommitUnacknowledged(c)
<1>1. ASSUME NEW c \in Calls, Receive(c) PROVE UNCHANGED tables
  BY <1>1 DEF Receive, tables
<1>2. ASSUME NEW c \in Calls, Step(c), ~Commit(c) PROVE UNCHANGED tables
  BY <1>2 DEF Step, AcquireLock, LockBusy, Check, SelectForUpdate, Flush,
     RecordKey, Recheck, Release, Leave, Refresh, LookupCache, LoadBalance,
     tables
<1>3. ASSUME NEW c \in Calls, Fault(c), ~CommitUnacknowledged(c)
      PROVE UNCHANGED tables
  BY <1>3 DEF Fault, Crash, RedisFails, DatabaseFails, tables
<1>4. ASSUME NEW c \in Calls, Commit(c) \/ CommitUnacknowledged(c)
      PROVE pc[c] = "commit" /\ ApplyDraft(c)
  BY <1>4 DEF Commit, CommitUnacknowledged
<1>5. ASSUME NEW n \in Names, LockExpires(n) \/ CacheExpires(n)
      PROVE UNCHANGED tables
  BY <1>5 DEF LockExpires, CacheExpires, tables
<1>6. UNCHANGED vars => UNCHANGED tables
  BY DEF vars, tables
<1> QED BY <1>1, <1>2, <1>3, <1>4, <1>5, <1>6 DEF Next, Quiescent

\* A record stays as it was written.
LEMMA RecordsStay ==
  ASSUME TypeInv, KeyInv, [Next]_vars, NEW l \in Keys, Recorded(l)
  PROVE  processed'[l] = processed[l]
<1>1. ASSUME NEW c \in Calls, pc[c] = "commit", ApplyDraft(c)
      PROVE  processed'[l] = processed[l]
  <2>0. PICK w, n, k : w = Wallet(c) /\ n = Len(ledger[w]) /\ k = req[c].key
    OBVIOUS
  <2>1. k # None => ~Recorded(k)
    BY <1>1, <2>0 DEF KeyInv, FirstUse
  <2>2. /\ k \in Keys \cup {None}
        /\ k = None => processed' = processed
        /\ k # None => \A m \in Keys \ {k} : processed'[m] = processed[m]
    BY <1>1, <2>0, ApplyDraftRecords
  <2>3. l # k
    BY <2>1, <2>2, NoneAssumption DEF Values
  <2> QED BY <2>2, <2>3
<1> QED BY <1>1, TablesChange DEF CreateWallet, tables

\* No step rewrites or drops a ledger row or a record: what a retry, a refund or
\* the history reads of the past is what was committed, since _write and
\* _write_refund only insert, and a key is only inserted while it is free.
THEOREM HistoryPermanent == Spec => HistoryIsAppendOnly
<1> DEFINE Appended ==
      /\ \A w \in Wallets : /\ Len(ledger[w]) <= Len(ledger'[w])
                            /\ SubSeq(ledger'[w], 1, Len(ledger[w])) = ledger[w]
      /\ \A k \in Keys : Recorded(k) => processed'[k] = processed[k]
<1>1. ASSUME TypeInv, KeyInv, [Next]_vars PROVE Appended
  <2>1. \A w \in Wallets : ledger[w] \in Seq(Transaction)
    BY <1>1 DEF TypeInv, TypeOK, TablesTypeOK
  <2>2. ASSUME NEW s \in Seq(Transaction)
        PROVE  Len(s) <= Len(s) /\ SubSeq(s, 1, Len(s)) = s
    OBVIOUS
  <2>3. CASE UNCHANGED <<ledger, processed>>
    BY <2>1, <2>2, <2>3
  <2>4. ASSUME NEW c \in Calls, pc[c] = "commit", ApplyDraft(c)
        PROVE  Appended
    <3>0. PICK w, n : w = Wallet(c) /\ n = Len(ledger[w])
      OBVIOUS
    <3>1. /\ w \in Wallets /\ draft[c] \in Transaction
          /\ \A v \in Wallets \ {w} : ledger'[v] = ledger[v]
      BY <1>1, <2>4, <3>0, ApplyDraftShape
    <3>2. ledger'[w] = Append(ledger[w], draft[c])
      BY <1>1, <2>4, <3>0, <3>1 DEF ApplyDraft, TypeInv, TypeOK, TablesTypeOK
    <3>3. ASSUME NEW s \in Seq(Transaction), NEW row \in Transaction
          PROVE  /\ Len(s) <= Len(Append(s, row))
                 /\ SubSeq(Append(s, row), 1, Len(s)) = s
      OBVIOUS
    <3>4. ASSUME NEW l \in Keys, Recorded(l) PROVE processed'[l] = processed[l]
      BY <1>1, <3>4, RecordsStay
    <3>5. ASSUME NEW v \in Wallets
          PROVE  /\ Len(ledger[v]) <= Len(ledger'[v])
                 /\ SubSeq(ledger'[v], 1, Len(ledger[v])) = ledger[v]
      <4>1. CASE v # w
        <5>1. ledger'[v] = ledger[v]
          BY <3>1, <4>1
        <5> QED BY <2>1, <2>2, <5>1
      <4>2. CASE v = w
        <5>1. /\ Len(ledger[w]) <= Len(Append(ledger[w], draft[c]))
              /\ SubSeq(Append(ledger[w], draft[c]), 1, Len(ledger[w])) = ledger[w]
          BY <2>1, <3>1, <3>3
        <5> QED BY <3>2, <4>2, <5>1
      <4> QED BY <4>1, <4>2
    <3> QED BY <3>4, <3>5
  <2> QED BY <1>1, <2>3, <2>4, TablesChange DEF CreateWallet, tables
<1>2. TypeInv /\ KeyInv /\ [Next]_vars => [Appended]_vars
  BY <1>1
<1>3. HistoryIsAppendOnly <=> [][Appended]_vars
  BY DEF HistoryIsAppendOnly
<1> HIDE DEF Appended
<1> QED BY <1>2, <1>3, AlwaysKeys, PTL DEF Spec

\* The draft of a transaction about to commit is the row the abstract ledger
\* posts for its request.
LEMMA DraftIsPosted ==
  ASSUME TypeInv, MoneyInv, KeyInv, NEW c \in Calls, pc[c] = "commit",
         NEW r, r = req[c], NEW w, w = Wallet(c), NEW row, row = draft[c],
         NEW moves, moves = Promise!Moves(r, Tx(r.original))
  PROVE  /\ row = [type |-> r.op,
                   amount |-> IF moves < 0 THEN -moves ELSE moves,
                   balance_after |-> balance[w] + moves,
                   original |-> r.original, note |-> r.note, call |-> c]
         /\ row.balance_after = balance[w] + moves
<1>1. /\ r \in Requests /\ r.op \in MovementTypes /\ WellFormed(r)
      /\ row \in Transaction /\ pc[c] \in InTransaction
  BY DEF TypeInv, CallOK, Received, Writing, InService, Drafted, Stages, Ended,
     InTransaction
<1>2. /\ row.type = r.op /\ row.original = r.original
      /\ row.note = r.note /\ row.call = c
      /\ r.op # REFUND => row.amount = r.amount
      /\ row.amount > 0
  BY <1>1 DEF KeyInv, Drawn
<1>3. /\ row.balance_after = balance[w] + Delta(row)
      /\ RefundsOpenRow(row, w)
  BY <1>1 DEF MoneyInv, Fresh
<1>4. row.amount \in Int /\ row.balance_after \in Int
  BY <1>1, PaiseAssumption DEF Transaction, Row, Paise
<1>5. /\ Delta(row) = moves
      /\ row.amount = IF moves < 0 THEN -moves ELSE moves
  <2>1. CASE r.op = TOPUP
    <3>1. Delta(row) = r.amount /\ moves = r.amount
      BY <1>2, <2>1 DEF Delta, Credits, Promise!Moves, TOPUP, DEDUCT, REFUND,
         Promise!TOPUP, Promise!DEDUCT, Promise!REFUND
    <3> QED BY <1>2, <1>4, <2>1, <3>1, OpsDiffer
  <2>2. CASE r.op = DEDUCT
    <3>1. Delta(row) = -r.amount /\ moves = -r.amount
      BY <1>2, <2>2 DEF Delta, Credits, Promise!Moves, TOPUP, DEDUCT, REFUND,
         Promise!TOPUP, Promise!DEDUCT, Promise!REFUND
    <3> QED BY <1>2, <1>4, <2>2, <3>1, OpsDiffer
  <2>3. CASE r.op = REFUND
    <3>1. Tx(r.original).amount = row.amount
      BY <1>2, <1>3, <2>3 DEF RefundsOpenRow
    <3>2. Delta(row) = IF Tx(r.original).type = DEDUCT THEN row.amount
                                                       ELSE -row.amount
      BY <1>2, <2>3, OpsDiffer DEF Delta, Credits
    <3>3. moves = IF Tx(r.original).type = DEDUCT THEN row.amount
                                                  ELSE -row.amount
      BY <2>3, <3>1 DEF Promise!Moves, TOPUP, DEDUCT, REFUND,
         Promise!TOPUP, Promise!DEDUCT, Promise!REFUND
    <3> QED BY <1>2, <1>4, <3>2, <3>3
  <2> QED BY <1>1, <2>1, <2>2, <2>3 DEF MovementTypes
<1>6. row = [type |-> row.type, amount |-> row.amount,
             balance_after |-> row.balance_after, original |-> row.original,
             note |-> row.note, call |-> row.call]
  BY <1>1 DEF Transaction, Row
<1> QED BY <1>2, <1>3, <1>5, <1>6

LEMMA CommitPosts ==
  ASSUME TypeInv, MoneyInv, KeyInv, NEW c \in Calls, pc[c] = "commit",
         ApplyDraft(c)
  PROVE  Promise!LedgerNext
<1>0. PICK r, w, row, n, moves, after :
        /\ r = req[c] /\ w = Wallet(c) /\ row = draft[c] /\ n = Len(ledger[w])
        /\ moves = Promise!Moves(r, Tx(r.original))
        /\ after = balance[w] + moves
  OBVIOUS
<1>1. /\ r \in Requests /\ r.op \in MovementTypes /\ WellFormed(r)
      /\ row \in Transaction /\ pc[c] \in InTransaction
  BY <1>0 DEF TypeInv, CallOK, Received, Writing, InService, Drafted, Stages,
     Ended, InTransaction
<1>2. /\ row = [type |-> r.op, amount |-> IF moves < 0 THEN -moves ELSE moves,
                balance_after |-> after, original |-> r.original,
                note |-> r.note, call |-> c]
      /\ row.balance_after = after
  BY <1>0, DraftIsPosted
<1>3. r.op # REFUND => r.amount > 0
  BY <1>1 DEF WellFormed, MovementTypes
<1>4. /\ WalletExists(w) /\ RefundsOpenRow(row, w)
      /\ row.type = r.op /\ row.original = r.original
  BY <1>0, <1>1 DEF MoneyInv, Fresh, KeyInv, Drawn
<1>5. \A t \in KnownTxs : Tx(t).call # c
  <2>1. ASSUME NEW v \in Wallets, NEW i \in DOMAIN ledger[v]
        PROVE  ledger[v][i].call # c
    <3>1. Written(v, i)
      BY DEF KeyInv
    <3> QED BY <3>1 DEF Written, Finishing, Ended
  <2> QED BY <2>1, KnownRows
<1>6. r.op = REFUND => /\ r.original \in {w} \X DOMAIN ledger[w]
                       /\ Tx(r.original).type \in REFUNDABLE_TYPES
                       /\ ~RefundExists(r.original)
  BY <1>4 DEF RefundsOpenRow
<1>7. r.key # None => ~Recorded(r.key)
  BY <1>0 DEF KeyInv, FirstUse
<1>8. after \in Paise
  BY <1>1, <1>2 DEF Transaction, Row
<1>9. /\ w = Canon[r.name]
      /\ balance' = [balance EXCEPT ![w] = after]
      /\ ledger'  = [ledger EXCEPT ![w] = Append(@, row)]
      /\ processed' = IF r.key = None THEN processed
                      ELSE [processed EXCEPT ![r.key] =
                              [wallet |-> w, fingerprint |-> Fingerprint(r),
                               body |-> [id |-> <<w, n + 1>>,
                                         balance_after |-> after]]]
      /\ UNCHANGED opened
  BY <1>0, <1>2 DEF ApplyDraft, Wallet, CreatedBody
<1>10. Promise!Post(c, r)
  BY <1>0, <1>1, <1>2, <1>3, <1>4, <1>5, <1>6, <1>7, <1>8, <1>9
     DEF Promise!Post, Promise!WalletExists, WalletExists, Promise!KnownTxs,
         KnownTxs, Promise!Tx, Tx, Promise!REFUND, REFUND,
         Promise!MovementTypes, MovementTypes, Promise!TOPUP, TOPUP,
         Promise!DEDUCT, DEDUCT, Promise!REFUNDABLE_TYPES, REFUNDABLE_TYPES,
         Promise!RefundExists, RefundExists, Promise!Recorded, Recorded,
         Promise!Paise, Paise, Promise!Fingerprint, Fingerprint
<1> QED BY <1>1, <1>10 DEF Promise!LedgerNext

\* The whole service, with its locks, workers, crashes, retries and lost
\* acknowledgements, implements the abstract ledger: whatever happens, the
\* tables only ever open a wallet or take one whole movement.
THEOREM LedgerImplemented == Spec => ImplementsLedger
<1>1. Init => Promise!TablesInit
  BY DEF Init, TablesInit, Promise!TablesInit
<1>2. ASSUME TypeInv, MoneyInv, KeyInv, [Next]_vars
      PROVE  [Promise!LedgerNext]_Promise!tables
  <2>1. CASE UNCHANGED tables
    BY <2>1 DEF tables, Promise!tables
  <2>2. ASSUME NEW w \in Wallets, NEW v \in Openings, CreateWallet(w, v)
        PROVE  Promise!LedgerNext
    <3>1. Promise!Open(w, v)
      BY <2>2 DEF CreateWallet, WalletExists, Promise!Open
    <3> QED BY <3>1 DEF Promise!LedgerNext
  <2>3. ASSUME NEW c \in Calls, pc[c] = "commit", ApplyDraft(c)
        PROVE  Promise!LedgerNext
    BY <1>2, <2>3, CommitPosts
  <2> QED BY <1>2, <2>1, <2>2, <2>3, TablesChange
<1>3. TypeInv /\ MoneyInv /\ KeyInv /\ [Next]_vars
      => [Promise!LedgerNext]_Promise!tables
  BY <1>2
<1> QED BY <1>1, <1>3, AlwaysKeys, PTL
        DEF Spec, ImplementsLedger, Promise!LedgerSpec
=============================================================================
