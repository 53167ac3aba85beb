--------------------------- MODULE Claims_proofs ----------------------------
(***************************************************************************)
(* What the documents claim and the code breaks (DocClaims), proved where  *)
(* its cause is absent.  Together with the run that refutes a claim the    *)
(* theorem says exactly what the claim takes: without the fault, the       *)
(* overlap or the changed body nothing else can break it.                  *)
(***************************************************************************)
EXTENDS DocClaims, Redis_proofs

-----------------------------------------------------------------------------
(* Reads.                                                                   *)

RedisAndPostgresAnswer == Faults \cap {"redis", "database"} = {}

\* A GET has no body, and so no transaction to refund.
ReadsAreBare == \A r \in Requests : r.op = READ => r.original = None

Reading(c) ==
  pc[c] # "idle" /\ req[c].op = READ =>
    /\ pc[c] \in {"lookup", "load", "refresh"} \cup Ended
    /\ reply[c] # None => reply[c].code \in {"ok", "wallet_not_found"}

LEMMA ReadingKept ==
  ASSUME RedisAndPostgresAnswer, ReadsAreBare, TypeInv, ReplyInv, [Next]_vars,
         NEW c \in Calls, Reading(c)
  PROVE  Reading(c)'
<1> SUFFICES ASSUME req'[c].op = READ, pc'[c] # "idle"
             PROVE  /\ pc'[c] \in {"lookup", "load", "refresh"} \cup Ended
                    /\ reply'[c] # None =>
                         reply'[c].code \in {"ok", "wallet_not_found"}
  BY DEF Reading
<1>1. ASSUME NEW stage \in Stages, Goto(c, stage) PROVE pc'[c] = stage
  BY <1>1, WentTo
<1>2. CASE Receive(c)
  <2>1. pc[c] = "idle" /\ reply[c] = None
    BY <1>2 DEF Receive, ReplyInv, ReplyOK, Answering
  <2>2. PICK r \in Requests :
          /\ req' = [req EXCEPT ![c] = r]
          /\ IF WellFormed(r)
             THEN Goto(c, IF r.op = READ THEN "lookup" ELSE "acquire")
                  /\ UNCHANGED reply
             ELSE Goto(c, "done") /\ Raise(c, "invalid_request")
    BY <1>2 DEF Receive
  <2>3. r.op = READ
    BY <2>2 DEF TypeInv, TypeOK
  <2>4. WellFormed(r)
    BY <2>3 DEF ReadsAreBare, WellFormed, READ, TOPUP, DEDUCT, REFUND
  <2> QED BY <1>1, <2>1, <2>2, <2>3, <2>4 DEF Stages
<1>3. ASSUME pc[c] # "idle"
      PROVE  /\ pc[c] \in {"lookup", "load", "refresh"} \cup Ended
             /\ reply[c] # None => reply[c].code \in {"ok", "wallet_not_found"}
  BY <1>3, RequestsStay DEF Reading
<1>4. CASE LookupCache(c) \/ LoadBalance(c)
  <2>1. \E stage \in {"load", "refresh", "done"} : Goto(c, stage)
    BY <1>4 DEF LookupCache, LoadBalance
  <2>2. \/ UNCHANGED reply
        \/ \E code \in {"ok", "wallet_not_found"} :
             \E body : Compose(c, code, body)
    BY <1>4 DEF LookupCache, LoadBalance, Raise
  <2>3. pc[c] # "idle"
    BY <1>4 DEF LookupCache, LoadBalance
  <2>4. reply'[c] # None => reply'[c].code \in {"ok", "wallet_not_found"}
    BY <1>3, <2>2, <2>3 DEF Compose, TypeInv, TypeOK
  <2> QED BY <1>1, <2>1, <2>4 DEF Stages, Ended
<1>5. CASE Refresh(c)
  BY <1>1, <1>3, <1>5 DEF Refresh, Stages, Ended
<1>6. CASE Step(c) /\ ~(LookupCache(c) \/ LoadBalance(c) \/ Refresh(c))
  BY <1>3, <1>6 DEF Step, AcquireLock, LockBusy, Check, SelectForUpdate, Flush,
     RecordKey, Commit, Recheck, Release, Leave, Ended
<1>7. CASE Fault(c)
  <2>1. Crash(c)
    BY <1>7 DEF Fault, RedisFails, DatabaseFails, CommitUnacknowledged,
       RedisAndPostgresAnswer
  <2> QED BY <1>1, <2>1 DEF Crash, Stages, Ended, TypeInv, TypeOK
<1>8. CASE pc'[c] = pc[c] /\ reply'[c] = reply[c]
  BY <1>3, <1>8
<1> QED BY <1>2, <1>4, <1>5, <1>6, <1>7, <1>8, OneCallMoves, OthersStay DEF calls

\* A balance read is answered with the balance or a 404 whatever else happens,
\* crashes, expiring locks and writers in the way included; only Redis or
\* Postgres failing it turns it into an internal error.
THEOREM ReadsAnswered ==
  ASSUME RedisAndPostgresAnswer, ReadsAreBare
  PROVE  Spec => []ReadsSurviveRedis
<1> DEFINE I == \A c \in Calls : Reading(c)
<1>1. Init => I
  BY DEF Init, Reading
<1>2. ASSUME TypeInv, ReplyInv, I, [Next]_vars PROVE I'
  BY <1>2, ReadingKept
<1>3. ASSUME ReplyInv, I PROVE ReadsSurviveRedis
  BY <1>3 DEF ReadsSurviveRedis, Reading, ReplyInv, ReplyOK, Answering
<1>4. Spec => [](TypeInv /\ ReplyInv)
  BY AlwaysReplies, PTL DEF AllInv
<1> HIDE DEF I
<1> QED BY <1>1, <1>2, <1>3, <1>4, PTL DEF Spec

-----------------------------------------------------------------------------
(* Replays.                                                                 *)

\* Clients never use a key again with another reference id or reason.
OneNotePerKey ==
  \A r, s \in Requests : r.key # None /\ r.key = s.key => r.note = s.note

\* The API has no field for it.
RefundsHaveNoAmount ==
  \A r, s \in Requests : r.op = REFUND /\ s.op = REFUND => r.amount = s.amount

\* A replay was checked against the record it came from.
Replayed(c) ==
  reply[c] # None /\ reply[c].code = "replay" =>
    /\ pc[c] # "idle" /\ req[c].key \in Keys
    /\ Recorded(req[c].key) /\ SameRequest(req[c])

LEMMA ReplayedStays ==
  ASSUME AllInv, [Next]_vars, NEW c \in Calls, Replayed(c), reply'[c] = reply[c]
  PROVE  Replayed(c)'
<1> SUFFICES ASSUME reply[c] # None, reply[c].code = "replay"
             PROVE  /\ pc'[c] # "idle" /\ req'[c].key \in Keys
                    /\ Recorded(req[c].key)' /\ SameRequest(req[c])'
  BY DEF Replayed
<1>1. /\ pc[c] # "idle" /\ req[c].key \in Keys
      /\ Recorded(req[c].key) /\ SameRequest(req[c])
  BY DEF Replayed
<1>2. req'[c] = req[c] /\ processed'[req[c].key] = processed[req[c].key]
  BY <1>1, RequestsStay, RecordsStay DEF AllInv
<1>3. pc'[c] # "idle"
  BY <1>1, IdleBefore DEF AllInv
<1> QED BY <1>1, <1>2, <1>3 DEF Recorded, SameRequest

LEMMA NextReplayed ==
  ASSUME AllInv, [Next]_vars, NEW c \in Calls, Replayed(c)
  PROVE  Replayed(c)'
<1>1. TypeInv /\ TypeOK
  BY DEF AllInv, TypeInv
<1>2. CASE reply'[c] = reply[c]
  BY <1>2, ReplayedStays
<1>3. ASSUME NEW code \in Codes \ {"replay"}, NEW body \in Body \cup {None},
             Compose(c, code, body)
      PROVE  Replayed(c)'
  <2>1. reply'[c] = [code |-> code, body |-> body]
    BY <1>1, <1>3, Replied
  <2> QED BY <2>1 DEF Replayed
<1>4. ASSUME NEW code \in Codes \ {"replay"}, Raise(c, code) PROVE Replayed(c)'
  BY <1>3, <1>4 DEF Raise
<1>5. ASSUME pc[c] \in {"check", "recheck"}, Check(c) \/ Recheck(c),
             AnswerFromRecord(c), Recorded(req[c].key), req[c].key # None
      PROVE  Replayed(c)'
  <2>1. CASE SameRequest(req[c])
    <3>1. req[c].key \in Keys /\ req'[c] = req[c] /\ UNCHANGED processed
      BY <1>1, <1>5, RequestsStay, RequestsAssumption
         DEF Check, Recheck, tables, TypeInv, CallOK, Received, RequestSpace
    <3>2. pc'[c] # "idle"
      BY <1>1, <1>5, IdleBefore
    <3> QED BY <1>5, <2>1, <3>1, <3>2 DEF Replayed, Recorded, SameRequest
  <2>2. CASE ~SameRequest(req[c])
    BY <1>4, <1>5, <2>2 DEF AnswerFromRecord, Codes, BusinessErrors
  <2> QED BY <2>1, <2>2
<1>6. CASE Check(c)
  <2>1. CASE Recorded(req[c].key)
    <3>1. pc[c] = "check" /\ req[c].key \in Keys
      BY <1>1, <1>6 DEF Check, TypeInv, CallOK, Keyed
    <3> QED BY <1>5, <1>6, <2>1, <3>1, NoneAssumption DEF Check, Values
  <2> QED BY <1>2, <1>6, <2>1 DEF Check
<1>7. CASE Recheck(c)
  BY <1>5, <1>7 DEF Recheck, AllInv, KeyInv, Found
<1>8. CASE Receive(c) \/ LockBusy(c) \/ Flush(c)
  BY <1>2, <1>4, <1>8 DEF Receive, LockBusy, Flush, Codes
<1>9. CASE SelectForUpdate(c)
  <2>1. req[c].op \in MovementTypes
    BY <1>1, <1>9 DEF SelectForUpdate, TypeInv, CallOK, Writing
  <2>2. Rejection(req[c]) # None => Rejection(req[c]) \in Codes \ {"replay"}
    BY <2>1, RejectionTyped DEF Codes, BusinessErrors
  <2> QED BY <1>2, <1>4, <1>9, <2>2 DEF SelectForUpdate, Codes, BusinessErrors
<1>10. CASE AcquireLock(c) \/ RecordKey(c) \/ Release(c) \/ Leave(c) \/ Refresh(c)
  BY <1>2, <1>10 DEF AcquireLock, RecordKey, Release, Leave, Refresh
<1>11. CASE Commit(c)
  <2>1. CreatedBody(c) \in Body
    BY <1>1, <1>11, ApplyDraftTyped DEF Commit
  <2> QED BY <1>3, <1>11, <2>1 DEF Commit, Codes
<1>12. CASE LookupCache(c) \/ LoadBalance(c)
  <2>1. Name(c) \in Names /\ Wallet(c) \in Wallets
    BY <1>1, <1>12, NameTyped DEF LookupCache, LoadBalance
  <2>2. /\ CacheHit(Name(c)) => BalanceBody(cache[Name(c)]) \in Body
        /\ WalletExists(Wallet(c)) => BalanceBody(balance[Wallet(c)]) \in Body
    BY <1>1, <2>1, BalanceBodyTyped
       DEF TypeOK, CacheTypeOK, TablesTypeOK, CacheHit, WalletExists
  <2> QED BY <1>2, <1>3, <1>4, <1>12, <2>2
          DEF LookupCache, LoadBalance, StoredBalance, Codes, BusinessErrors
<1>13. CASE Fault(c)
  <2>1. CASE Crash(c)
    BY <1>1, <2>1 DEF Crash, Replayed, TypeOK
  <2> QED BY <1>4, <1>13, <2>1
          DEF Fault, RedisFails, DatabaseFails, CommitUnacknowledged, Codes
<1> QED BY <1>1, <1>2, <1>6, <1>7, <1>8, <1>9, <1>10, <1>11, <1>12, <1>13,
        OneCallMoves, OthersStay DEF Step, calls

\* What the fingerprint leaves out is the reference id or the reason, and
\* nothing else: where a key always comes with one of them, a replay answers the
\* very request that was recorded, field by field.
THEOREM ReplaysAnswerTheRequest ==
  ASSUME OneNotePerKey, RefundsHaveNoAmount
  PROVE  Spec => []ReplayHasSameBody
<1> DEFINE I == \A c \in Calls : Replayed(c)
<1>1. Init => I
  BY DEF Init, Replayed
<1>2. AllInv /\ I /\ [Next]_vars => I'
  BY NextReplayed
<1>3. ASSUME AllInv, ReplyInv, I PROVE ReplayHasSameBody
  <2> SUFFICES ASSUME NEW c \in Calls, reply[c] # None, reply[c].code = "replay"
               PROVE  req[c] = req[Tx(reply[c].body.id).call]
    BY DEF ReplayHasSameBody
  <2>0. PICK t, r, s : t = reply[c].body.id /\ r = req[c] /\ s = req[Tx(t).call]
    OBVIOUS
  <2>1. t \in KnownTxs /\ SameMovement(r, s)
    BY <1>3, <2>0 DEF ReplyInv, ReplyOK, TrueReply
  <2>2. r.key \in Keys /\ SameRequest(r) /\ pc[c] # "idle"
    BY <1>3, <2>0 DEF Replayed
  <2>3. s.key = r.key /\ r.key # None
    BY <2>1, <2>2, NoneAssumption DEF SameMovement, Values
  <2>4. processed[r.key] = RecordOf(t)
    <3>1. KeyAppliedOnce
      BY <1>3 DEF AllInv, KeyInv
    <3> QED BY <2>0, <2>1, <2>3, <3>1 DEF KeyAppliedOnce
  <2>5. Fingerprint(r) = Fingerprint(s)
    BY <2>0, <2>2, <2>4 DEF SameRequest, RecordOf
  <2>6. r \in RequestSpace /\ s \in RequestSpace /\ r \in Requests /\ s \in Requests
    <3>1. Tx(t).call \in Calls /\ pc[Tx(t).call] # "idle"
      <4>1. PICK v \in Wallets : \E i \in DOMAIN ledger[v] : t = <<v, i>>
        BY <2>1, KnownRows
      <4>2. PICK i \in DOMAIN ledger[v] : t = <<v, i>>
        BY <4>1
      <4>3. Tx(t) = ledger[v][i] /\ Written(v, i) /\ ledger[v][i].call \in Calls
        BY <1>3, <4>2, RowsTyped DEF AllInv, KeyInv, Tx
      <4> QED BY <4>3 DEF Written, Finishing, Ended
    <3> QED BY <1>3, <2>0, <2>2, <3>1, RequestsAssumption
            DEF AllInv, TypeInv, CallOK, Received
  <2>7. /\ r.op = s.op /\ r.name = s.name /\ r.original = s.original
        /\ r.op # REFUND => r.amount = s.amount
    BY <2>1, <2>5, FingerprintsAgree DEF SameMovement
  <2>8. r.amount = s.amount /\ r.note = s.note
    BY <2>3, <2>6, <2>7 DEF OneNotePerKey, RefundsHaveNoAmount
  <2> QED BY <2>0, <2>3, <2>6, <2>7, <2>8 DEF RequestSpace
<1> HIDE DEF I
<1>4. Spec => [](AllInv /\ ReplyInv)
  BY AlwaysReplies
<1> QED BY <1>1, <1>2, <1>3, <1>4, PTL DEF Spec

-----------------------------------------------------------------------------
(* Reads after writes.                                                      *)

OnlyLocksExpire  == Faults \subseteq {"expiry"}
UrlsAreCanonical == \A r \in Requests : Canon[r.name] = r.name

\* Calls on one wallet, reads included, come one after the other.
Underway(c) == pc[c] \notin {"idle"} \cup Ended
NoOverlap ==
  \A c, d \in Calls :
    Underway(c) /\ Underway(d) /\ Wallet(c) = Wallet(d) => c = d

\* Past the key check, a record under the call's key is of another wallet.
PastCheck == {"select", "recheck"} \cup InTransaction
Foreign(c) ==
  pc[c] \in PastCheck /\ req[c].key # None /\ Recorded(req[c].key)
    => processed[req[c].key].wallet # Wallet(c)

\* What is about to be cached is the balance, and what is cached is the balance
\* too unless a call is about to replace it.
Refreshing == {"release", "refresh"}
CarriesBalance(c) ==
  pc[c] \in Refreshing => reply[c].body.balance_after = balance[Wallet(c)]
Exact(n) ==
  /\ CacheHit(n) => Canon[n] = n
  /\ \/ cache[n] \in {None, balance[Canon[n]]}
     \/ \E c \in Calls : pc[c] \in Refreshing /\ Name(c) = n

ExactInv == /\ \A n \in Names : Exact(n)
            /\ \A c \in Calls : CarriesBalance(c) /\ Foreign(c)

LEMMA InitExact == Init => ExactInv
  BY DEF Init, CacheInit, ExactInv, Exact, CacheHit, CarriesBalance, Foreign,
     PastCheck, Refreshing, InTransaction

LEMMA NoFault ==
  ASSUME OnlyLocksExpire, NEW c \in Calls
  PROVE  ~Fault(c)
  BY DEF OnlyLocksExpire, Fault, Crash, RedisFails, DatabaseFails,
     CommitUnacknowledged

LEMMA ChecksFirst ==
  ASSUME OnlyLocksExpire, TypeInv, [Next]_vars, NEW c \in Calls,
         pc'[c] \in PastCheck, pc[c] \notin PastCheck, req'[c].key # None
  PROVE  Check(c) /\ ~Recorded(req[c].key)
<1>1. ASSUME NEW stage \in Stages, Goto(c, stage) PROVE stage \in PastCheck
  BY <1>1, WentTo
<1>2. ~Receive(c)
  BY <1>1 DEF Receive, Stages, Ended, PastCheck, InTransaction
<1>3. ~AcquireLock(c)
  <2>1. AcquireLock(c) => Goto(c, "check") /\ "check" \in Stages
    BY DEF AcquireLock, Stages
  <2> QED BY <1>1, <2>1 DEF PastCheck, InTransaction
<1>4. ~(LockBusy(c) \/ Release(c) \/ Leave(c) \/ Refresh(c) \/ LookupCache(c)
        \/ LoadBalance(c))
  BY <1>1 DEF LockBusy, Release, Leave, Refresh, LookupCache, LoadBalance,
     Stages, Ended, PastCheck, InTransaction
<1>5. ~(SelectForUpdate(c) \/ Flush(c) \/ RecordKey(c) \/ Commit(c) \/ Recheck(c))
  BY DEF SelectForUpdate, Flush, RecordKey, Commit, Recheck, PastCheck,
     InTransaction
<1>6. Check(c) => ~Recorded(req[c].key)
  BY <1>1 DEF Check, Stages, PastCheck, InTransaction
<1> QED BY <1>2, <1>3, <1>4, <1>5, <1>6, NoFault, OneCallMoves, OthersStay
        DEF Step, calls

LEMMA ForeignKept ==
  ASSUME OnlyLocksExpire, AllInv, NoOverlap, [Next]_vars, NEW c \in Calls,
         Foreign(c)
  PROVE  Foreign(c)'
<1>0. PICK k : k = req'[c].key
  OBVIOUS
<1> SUFFICES ASSUME pc'[c] \in PastCheck, k # None, Recorded(k)'
             PROVE  processed'[k].wallet # Wallet(c)'
  BY <1>0 DEF Foreign, Recorded
<1>1. CASE pc[c] \notin PastCheck
  <2>1. Check(c) /\ ~Recorded(req[c].key) /\ req[c].key = k
    BY <1>0, <1>1, ChecksFirst DEF AllInv, Check
  <2> QED BY <2>1 DEF Check, tables, Recorded
<1>2. CASE pc[c] \in PastCheck
  <2>1. pc[c] # "idle" /\ Underway(c) /\ pc[c] \notin {"release", "leave"}
    BY <1>2 DEF PastCheck, InTransaction, Underway, Ended
  <2>2. req'[c] = req[c] /\ Wallet(c)' = Wallet(c) /\ req[c].key = k
    BY <1>0, <2>1, RequestsStay DEF AllInv, Wallet
  <2>3. k \in Keys
    BY <2>1, <2>2, RequestsAssumption
       DEF AllInv, TypeInv, CallOK, Received, RequestSpace
  <2>4. CASE Recorded(k)
    BY <1>2, <2>2, <2>3, <2>4, RecordsStay DEF AllInv, Foreign
  <2>5. CASE ~Recorded(k)
    <3>1. processed' # processed
      BY <2>5 DEF Recorded
    <3>2. PICK d \in Calls : pc[d] = "commit" /\ ApplyDraft(d)
                             /\ (Commit(d) \/ CommitUnacknowledged(d))
      BY <3>1, TablesChange DEF tables, CreateWallet
    <3>3. Goto(d, "release") \/ Goto(d, "leave")
      BY <3>2 DEF Commit, CommitUnacknowledged
    <3>4. d # c
      <4>1. pc'[d] \in {"release", "leave"}
        BY <3>3, WentTo DEF AllInv, Stages
      <4> QED BY <4>1 DEF PastCheck, InTransaction
    <3>5. Wallet(d) # Wallet(c)
      BY <2>1, <3>2, <3>4 DEF NoOverlap, Underway, Ended
    <3>6. PICK v, n, l : v = Wallet(d) /\ n = Len(ledger[v]) /\ l = req[d].key
      OBVIOUS
    <3>7. /\ l = None => processed' = processed
          /\ l # None => /\ processed'[l].wallet = v
                         /\ \A m \in Keys \ {l} : processed'[m] = processed[m]
      <4>1. /\ l = None => processed' = processed
            /\ l # None =>
                 /\ processed'[l] =
                      [wallet |-> v, fingerprint |-> Fingerprint(req[d]),
                       body |-> [id |-> <<v, n + 1>>,
                                 balance_after |-> draft[d].balance_after]]
                 /\ \A m \in Keys \ {l} : processed'[m] = processed[m]
        <5>1. TypeInv /\ pc[d] = "commit" /\ ApplyDraft(d)
          BY <3>2 DEF AllInv
        <5>2. v = Wallet(d) /\ n = Len(ledger[v]) /\ l = req[d].key
          BY <3>6
        <5> QED BY <5>1, <5>2, ApplyDraftRecords
      <4> QED BY <4>1
    <3>8. l = k
      BY <2>3, <2>5, <3>1, <3>7 DEF Recorded
    <3> QED BY <2>2, <3>5, <3>6, <3>7, <3>8
  <2> QED BY <2>4, <2>5
<1> QED BY <1>1, <1>2

\* While a call is served, only its own commit moves its wallet's balance.
LEMMA BalanceStays ==
  ASSUME AllInv, NoOverlap, [Next]_vars, NEW c \in Calls, Underway(c),
         pc[c] # "commit"
  PROVE  /\ balance'[Wallet(c)] = balance[Wallet(c)]
         /\ Wallet(c)' = Wallet(c) /\ Wallet(c) \in Wallets
<1>1. /\ pc[c] # "idle" /\ Wallet(c) \in Wallets /\ Wallet(c)' = Wallet(c)
      /\ req[c] # None
  <2>1. pc[c] # "idle" /\ req[c] \in Requests
    BY DEF Underway, AllInv, TypeInv, CallOK, Received
  <2> QED BY <2>1, NameTyped, RequestsStay, NoneAssumption DEF AllInv, Wallet, Values
<1>2. ASSUME NEW u \in Wallets, NEW v \in Openings, CreateWallet(u, v)
      PROVE  balance'[Wallet(c)] = balance[Wallet(c)]
  BY <1>1, <1>2 DEF CreateWallet, AllInv, TypeInv, TypeOK, TablesTypeOK
<1>3. ASSUME NEW d \in Calls, pc[d] = "commit", ApplyDraft(d)
      PROVE  balance'[Wallet(c)] = balance[Wallet(c)]
  <2>1. Wallet(d) # Wallet(c)
    BY <1>3 DEF NoOverlap, Underway, Ended
  <2>2. PICK v, n : v = Wallet(d) /\ n = Len(ledger[v])
    OBVIOUS
  <2>3. \A x \in Wallets \ {v} : balance'[x] = balance[x]
    BY <1>3, <2>2, ApplyDraftShape DEF AllInv
  <2> QED BY <1>1, <2>1, <2>2, <2>3
<1> QED BY <1>1, <1>2, <1>3, TablesChange DEF tables

LEMMA CarriesBalanceKept ==
  ASSUME OnlyLocksExpire, UrlsAreCanonical, AllInv, NoOverlap, [Next]_vars,
         NEW c \in Calls, CarriesBalance(c), Foreign(c)
  PROVE  CarriesBalance(c)'
<1> SUFFICES ASSUME pc'[c] \in Refreshing
             PROVE  reply'[c].body.balance_after = balance'[Wallet(c)']
  BY DEF CarriesBalance, Wallet
<1>1. TypeInv /\ TypeOK
  BY DEF AllInv, TypeInv
<1>2. ASSUME NEW stage \in Stages, Goto(c, stage) PROVE stage \in Refreshing
  BY <1>1, <1>2, WentTo
<1>3. ASSUME pc[c] \in Refreshing, reply'[c] = reply[c]
      PROVE  reply'[c].body.balance_after = balance'[Wallet(c)']
  <2>1. Underway(c) /\ pc[c] # "commit"
    BY <1>3 DEF Refreshing, Underway, Ended
  <2>2. balance'[Wallet(c)] = balance[Wallet(c)] /\ Wallet(c)' = Wallet(c)
    BY <2>1, BalanceStays
  <2> QED BY <1>3, <2>2 DEF CarriesBalance, Wallet
<1>4. CASE Commit(c)
  <2>0. PICK w, n : w = Wallet(c) /\ n = Len(ledger[w])
    OBVIOUS
  <2>1. balance'[w] = draft[c].balance_after
    BY <1>1, <1>4, <2>0, ApplyDraftShape DEF Commit
  <2>2. CreatedBody(c) \in Body /\ Compose(c, "created", CreatedBody(c))
    BY <1>1, <1>4, ApplyDraftTyped DEF Commit
  <2>3. reply'[c] = [code |-> "created", body |-> CreatedBody(c)]
    BY <1>1, <2>2, Replied DEF Codes
  <2>4. Wallet(c)' = w
    BY <1>4, <2>0 DEF Commit, Wallet
  <2> QED BY <2>1, <2>3, <2>4 DEF CreatedBody, Wallet
<1>5. ~Recheck(c)
  <2> SUFFICES ASSUME Recheck(c) PROVE FALSE
    OBVIOUS
  <2>1. /\ pc[c] = "recheck" /\ req[c].key # None /\ Recorded(req[c].key)
    BY DEF Recheck, AllInv, KeyInv, Found
  <2>2. SameRequest(req[c])
    <3>1. Goto(c, IF SameRequest(req[c]) THEN "release" ELSE "leave")
      BY <2>1 DEF Recheck
    <3> QED BY <1>2, <3>1 DEF Stages, Refreshing
  <2>3. req[c] \in Requests
    BY <1>1, <2>1 DEF TypeInv, CallOK, Received
  <2> QED BY <2>1, <2>2, <2>3
          DEF UrlsAreCanonical, SameRequest, Foreign, PastCheck, Wallet
<1>6. CASE Release(c)
  BY <1>3, <1>6 DEF Release, Refreshing
<1>7. CASE LoadBalance(c)
  <2>1. Name(c) \in Names /\ Wallet(c) \in Wallets
    BY <1>1, <1>7, NameTyped DEF LoadBalance
  <2>2. WalletExists(Wallet(c))
    BY <1>2, <1>7 DEF LoadBalance, Stages, Ended, Refreshing
  <2>3. BalanceBody(balance[Wallet(c)]) \in Body
    BY <1>1, <2>1, <2>2, BalanceBodyTyped DEF TypeOK, TablesTypeOK, WalletExists
  <2>4. reply'[c] = [code |-> "ok", body |-> BalanceBody(balance[Wallet(c)])]
    BY <1>1, <1>7, <2>2, <2>3, Replied DEF LoadBalance, StoredBalance, Codes
  <2> QED BY <1>7, <2>4 DEF LoadBalance, BalanceBody, tables, Wallet
<1>8. ~(Receive(c) \/ AcquireLock(c) \/ LockBusy(c) \/ Check(c)
        \/ SelectForUpdate(c) \/ Flush(c) \/ RecordKey(c) \/ Leave(c)
        \/ Refresh(c) \/ LookupCache(c))
  <2>1. ~(Receive(c) \/ AcquireLock(c) \/ LockBusy(c) \/ Check(c)
          \/ SelectForUpdate(c))
    BY <1>2 DEF Receive, AcquireLock, LockBusy, Check, SelectForUpdate, Stages,
       Ended, InTransaction, Refreshing
  <2>2. ~(Flush(c) \/ RecordKey(c) \/ Leave(c) \/ Refresh(c) \/ LookupCache(c))
    BY <1>2 DEF Flush, RecordKey, Leave, Refresh, LookupCache, Stages, Ended,
       InTransaction, Refreshing
  <2> QED BY <2>1, <2>2
<1>9. CASE pc'[c] = pc[c] /\ reply'[c] = reply[c]
  BY <1>3, <1>9
<1> QED BY <1>1, <1>4, <1>5, <1>6, <1>7, <1>8, <1>9, NoFault, OneCallMoves,
        OthersStay DEF Step, calls

LEMMA LeavesByRefresh ==
  ASSUME OnlyLocksExpire, TypeInv, [Next]_vars, NEW c \in Calls,
         pc[c] \in Refreshing, pc'[c] \notin Refreshing
  PROVE  Refresh(c)
<1>1. ~Release(c)
  <2>1. Release(c) => Goto(c, "refresh") /\ "refresh" \in Stages
    BY DEF Release, Stages
  <2> QED BY <2>1, WentTo DEF Refreshing
<1>2. ~(Receive(c) \/ AcquireLock(c) \/ LockBusy(c) \/ Check(c)
        \/ SelectForUpdate(c) \/ Flush(c) \/ RecordKey(c) \/ Commit(c)
        \/ Recheck(c) \/ Leave(c) \/ LookupCache(c) \/ LoadBalance(c))
  BY DEF Receive, AcquireLock, LockBusy, Check, SelectForUpdate, Flush,
     RecordKey, Commit, Recheck, Leave, LookupCache, LoadBalance, Refreshing
<1> QED BY <1>1, <1>2, NoFault, OneCallMoves, OthersStay DEF Step, calls

LEMMA ExactKept ==
  ASSUME OnlyLocksExpire, UrlsAreCanonical, AllInv, CacheInv, NoOverlap,
         ExactInv, [Next]_vars, NEW n \in Names
  PROVE  Exact(n)'
<1>0. PICK w : w = Canon[n]
  OBVIOUS
<1>1. TypeInv /\ w \in Wallets
  BY <1>0, NamesAssumption DEF AllInv
<1> SUFFICES /\ cache'[n] # None => w = n
             /\ \/ cache'[n] \in {None, balance'[w]}
                \/ \E c \in Calls : pc'[c] \in Refreshing /\ Name(c)' = n
  BY <1>0 DEF Exact, CacheHit
\* A call under way spells its wallet the canonical way, and goes on doing so.
<1>2. ASSUME NEW c \in Calls, pc[c] \in Refreshing \cup {"commit"}
      PROVE  Name(c)' = Name(c) /\ Wallet(c) = Name(c)
  <2>1. pc[c] # "idle" /\ req[c] \in Requests /\ req'[c] = req[c]
    BY <1>1, <1>2, RequestsStay DEF Refreshing, TypeInv, CallOK, Received
  <2> QED BY <2>1 DEF UrlsAreCanonical, Name, Wallet
\* What a call about to refresh the cache carries is the balance.
<1>3. ASSUME NEW c \in Calls, pc[c] = "refresh", n = Name(c),
             cache'[n] = reply[c].body.balance_after
      PROVE  w = n /\ cache'[n] = balance'[w]
  <2>1. Underway(c) /\ pc[c] # "commit" /\ pc[c] \in Refreshing
    BY <1>3 DEF Underway, Ended, Refreshing
  <2>2. Wallet(c) = w /\ w = n
    BY <1>0, <1>2, <1>3, <2>1 DEF Wallet, Name
  <2>3. reply[c].body.balance_after = balance[w]
    BY <2>1, <2>2 DEF ExactInv, CarriesBalance
  <2>4. balance'[w] = balance[w]
    BY <2>1, <2>2, BalanceStays
  <2> QED BY <1>3, <2>2, <2>3, <2>4
<1>4. CASE cache'[n] # cache[n]
  <2>1. ASSUME NEW u \in Wallets, NEW v \in Openings, CreateWallet(u, v),
               n = u, cache'[n] = v
        PROVE  w = n /\ cache'[n] = balance'[w]
    <3>1. w = n
      BY <1>0, <2>1, NamesAssumption
    <3>2. balance'[u] = v
      BY <1>1, <2>1 DEF CreateWallet, TypeInv, TypeOK, TablesTypeOK
    <3> QED BY <2>1, <3>1, <3>2
  <2> QED BY <1>3, <1>4, <2>1, CacheChanges
<1>5. CASE cache'[n] = cache[n] /\ cache[n] # None
  <2>1. w = n /\ Exact(n) /\ WalletExists(w)
    <3>1. Exact(n) /\ CacheHit(n)
      BY <1>5 DEF ExactInv, CacheHit
    <3>2. PastBalance(w, cache[n])
      BY <1>0, <3>1 DEF CacheInv
    <3> QED BY <1>0, <3>1, <3>2 DEF Exact, PastBalance
  <2>2. CASE balance'[w] # balance[w]
    <3>1. ~\E u \in Wallets, v \in Openings : CreateWallet(u, v)
      BY <1>1, <2>1, <2>2 DEF CreateWallet, TypeInv, TypeOK, TablesTypeOK
    <3>2. PICK d \in Calls : pc[d] = "commit" /\ ApplyDraft(d)
                             /\ (Commit(d) \/ CommitUnacknowledged(d))
      BY <2>2, <3>1, TablesChange DEF tables
    <3>3. Wallet(d) = w
      <4>1. PICK x, m : x = Wallet(d) /\ m = Len(ledger[x])
        OBVIOUS
      <4>2. \A y \in Wallets \ {x} : balance'[y] = balance[y]
        BY <1>1, <3>2, <4>1, ApplyDraftShape
      <4> QED BY <1>1, <2>2, <4>1, <4>2
    <3>4. Name(d)' = n
      BY <1>2, <2>1, <3>2, <3>3
    <3>5. pc'[d] = "release"
      <4>1. Commit(d)
        BY <3>2, NoFault DEF Fault
      <4> QED BY <1>1, <4>1, WentTo DEF Commit, Stages
    <3> QED BY <2>1, <3>4, <3>5 DEF Refreshing
  <2>3. CASE balance'[w] = balance[w] /\ cache[n] # balance[w]
    <3>1. PICK c \in Calls : pc[c] \in Refreshing /\ Name(c) = n
      BY <1>0, <1>5, <2>1, <2>3 DEF Exact
    <3>2. CASE pc'[c] \in Refreshing
      BY <1>2, <2>1, <3>1, <3>2
    <3>3. CASE pc'[c] \notin Refreshing
      <4>1. Refresh(c)
        BY <1>1, <3>1, <3>3, LeavesByRefresh
      <4>2. pc[c] = "refresh" /\ cache'[n] = reply[c].body.balance_after
        BY <1>1, <3>1, <4>1 DEF Refresh, SetCached, TypeInv, TypeOK, CacheTypeOK
      <4> QED BY <1>3, <3>1, <4>2
    <3> QED BY <3>2, <3>3
  <2> QED BY <1>5, <2>1, <2>2, <2>3
<1> QED BY <1>4, <1>5

\* Where calls on a wallet do not overlap, no worker dies, Redis and Postgres
\* answer, and every URL spells its wallet the canonical way, a balance read
\* after the writes is exact: what the documents promise fails only by the
\* refresh of one call running late into the next one.
THEOREM SequentialReadsExact ==
  ASSUME OnlyLocksExpire, UrlsAreCanonical
  PROVE  Spec /\ []NoOverlap => []ReadAfterWritesIsExact
<1>1. AllInv /\ CacheInv /\ NoOverlap /\ ExactInv /\ [Next]_vars => ExactInv'
  BY ExactKept, CarriesBalanceKept, ForeignKept DEF ExactInv
<1>2. ExactInv => ReadAfterWritesIsExact
  BY DEF ExactInv, Exact, ReadAfterWritesIsExact, Refreshing, Ended
<1> QED BY <1>1, <1>2, InitExact, AlwaysCached, PTL DEF Spec

-----------------------------------------------------------------------------
(* Sums.  What MapThenSumSet takes out of a set one arbitrary member at a    *)
(* time is the running total of the rows in their order.                    *)

\* A set of naturals has a least one. Cited with the set of what violates a claim,
\* this is induction without an operator as a parameter.
LEMMA LeastNumber ==
  ASSUME NEW T, T \subseteq Nat, T # {}
  PROVE  \E m \in T : \A k \in T : m <= k
<1>1. IsWellFoundedOn({ss \in Nat \X Nat : ss[1] < ss[2]}, Nat)
  BY NatLessThanWellFounded, Zenon DEF OpToRel
<1>2. PICK m \in T :
        \A k \in T : ~(<<k, m>> \in {ss \in Nat \X Nat : ss[1] < ss[2]})
  BY <1>1, WFMin
<1>3. ASSUME NEW k \in T PROVE m <= k
  <2>1. <<k, m>> \in Nat \X Nat /\ <<k, m>>[1] = k /\ <<k, m>>[2] = m
    OBVIOUS
  <2>2. ~(k < m)
    BY <1>2, <2>1
  <2> QED BY <2>2
<1> QED BY <1>3

\* f is the running total of g over the members of s.
Totals(f, g, s, n) ==
  /\ f \in [0 .. n -> Int] /\ f[0] = 0
  /\ \A i \in 1 .. n : f[i] = f[i - 1] + (IF i \in s THEN g[i] ELSE 0)

LEMMA TotalsExist ==
  ASSUME NEW N \in Nat, NEW g \in [1 .. N -> Int], NEW s, NEW n \in 0 .. N
  PROVE  \E f : Totals(f, g, s, n)
<1> DEFINE T == {m \in 0 .. N : ~\E f : Totals(f, g, s, m)}
<1> SUFFICES ASSUME T # {} PROVE FALSE
  OBVIOUS
<1>0. T \subseteq Nat
  OBVIOUS
<1>1. PICK m \in T : \A k \in T : m <= k
  <2> HIDE DEF T
  <2> QED BY <1>0, LeastNumber
<1>2. m # 0
  <2>1. Totals([i \in 0 .. 0 |-> 0], g, s, 0)
    BY DEF Totals
  <2> QED BY <2>1, <1>1
<1>3. m - 1 \in 0 .. N /\ m - 1 \notin T
  BY <1>1, <1>2
<1>4. PICK f : Totals(f, g, s, m - 1)
  BY <1>3
<1> DEFINE h == [i \in 0 .. m |->
                   IF i = m THEN f[m - 1] + (IF m \in s THEN g[m] ELSE 0)
                            ELSE f[i]]
<1>5. h \in [0 .. m -> Int] /\ h[0] = 0
  BY <1>2, <1>3, <1>4 DEF Totals
<1>6. ASSUME NEW i \in 1 .. m
      PROVE  h[i] = h[i - 1] + (IF i \in s THEN g[i] ELSE 0)
  BY <1>2, <1>3, <1>4 DEF Totals
<1>7. Totals(h, g, s, m)
  BY <1>5, <1>6 DEF Totals
<1> QED BY <1>1, <1>7

\* Taking x out of s takes g[x] off the total, and whatever totals are taken.
LEMMA TotalsDiffer ==
  ASSUME NEW n \in Nat, NEW g \in [1 .. n -> Int], NEW s, NEW x \in s \cap (1 .. n),
         NEW f, NEW h, Totals(f, g, s, n), Totals(h, g, s \ {x}, n)
  PROVE  f[n] = g[x] + h[n]
<1> DEFINE T == {m \in 0 .. n : f[m] # h[m] + (IF m >= x THEN g[x] ELSE 0)}
<1>1. T = {}
  <2> SUFFICES ASSUME T # {} PROVE FALSE
    OBVIOUS
  <2>0. T \subseteq Nat
    OBVIOUS
  <2>1. PICK m \in T : \A k \in T : m <= k
    <3> HIDE DEF T
    <3> QED BY <2>0, LeastNumber
  <2>2. m # 0
    BY <2>1 DEF Totals
  <2>3. m - 1 \in 0 .. n /\ m \in 1 .. n /\ m - 1 \notin T
    BY <2>1, <2>2
  <2>4. f[m - 1] = h[m - 1] + (IF m - 1 >= x THEN g[x] ELSE 0)
    BY <2>3
  <2>5. /\ f[m] = f[m - 1] + (IF m \in s THEN g[m] ELSE 0)
        /\ h[m] = h[m - 1] + (IF m \in s \ {x} THEN g[m] ELSE 0)
        /\ f[m - 1] \in Int /\ h[m - 1] \in Int /\ f[m] \in Int /\ h[m] \in Int
    BY <2>3 DEF Totals
  <2>6. f[m] = h[m] + (IF m >= x THEN g[x] ELSE 0)
    <3>1. CASE m = x
      BY <2>3, <2>4, <2>5, <3>1
    <3>2. CASE m # x
      <4>1. m >= x <=> m - 1 >= x
        BY <2>3, <3>2
      <4> QED BY <2>3, <2>4, <2>5, <3>2, <4>1
    <3> QED BY <3>1, <3>2
  <2> QED BY <2>1, <2>6
<1>2. n \in 0 .. n /\ n >= x /\ f[n] \in Int /\ h[n] \in Int /\ g[x] \in Int
  BY DEF Totals
<1>3. f[n] = h[n] + g[x]
  BY <1>1, <1>2
<1> QED BY <1>2, <1>3

LEMMA TotalsAgree ==
  ASSUME NEW n \in Nat, NEW g \in [1 .. n -> Int], NEW s,
         NEW f, NEW h, Totals(f, g, s, n), Totals(h, g, s, n)
  PROVE  f[n] = h[n]
<1> DEFINE T == {m \in 0 .. n : f[m] # h[m]}
<1>1. T = {}
  <2> SUFFICES ASSUME T # {} PROVE FALSE
    OBVIOUS
  <2>0. T \subseteq Nat
    OBVIOUS
  <2>1. PICK m \in T : \A k \in T : m <= k
    <3> HIDE DEF T
    <3> QED BY <2>0, LeastNumber
  <2>2. m # 0
    BY <2>1 DEF Totals
  <2>3. m - 1 \in 0 .. n /\ m \in 1 .. n /\ m - 1 \notin T
    BY <2>1, <2>2
  <2> QED BY <2>1, <2>3 DEF Totals
<1> QED BY <1>1

\* it is what MapThenSumSet computes on the subsets of 1 .. n.
Choice(s) == CHOOSE x \in s : TRUE
FoldOf(it, g, n) ==
  it = [s \in SUBSET (1 .. n) |->
          IF s = {} THEN 0 ELSE g[Choice(s)] + it[s \ {Choice(s)}]]

LEMMA TotalOfNone ==
  ASSUME NEW n \in Nat, NEW g \in [1 .. n -> Int], NEW f, Totals(f, g, {}, n)
  PROVE  f[n] = 0
<1>1. Totals([i \in 0 .. n |-> 0], g, {}, n)
  BY DEF Totals
<1> QED BY <1>1, TotalsAgree

LEMMA FoldExists ==
  ASSUME NEW n \in Nat, NEW g \in [1 .. n -> Int]
  PROVE  \E it : FoldOf(it, g, n)
<1> DEFINE total(s) == CHOOSE f : Totals(f, g, s, n)
           it == [s \in SUBSET (1 .. n) |-> total(s)[n]]
<1>1. ASSUME NEW s PROVE Totals(total(s), g, s, n)
  <2>1. n \in 0 .. n
    OBVIOUS
  <2> QED BY <2>1, TotalsExist
<1> HIDE DEF total
<1>2. ASSUME NEW s \in SUBSET (1 .. n)
      PROVE  it[s] = IF s = {} THEN 0 ELSE g[Choice(s)] + it[s \ {Choice(s)}]
  <2>1. CASE s = {}
    BY <1>1, <2>1, TotalOfNone
  <2>2. CASE s # {}
    <3>1. Choice(s) \in s \cap (1 .. n) /\ s \ {Choice(s)} \in SUBSET (1 .. n)
      BY <2>2 DEF Choice
    <3>2. total(s)[n] = g[Choice(s)] + total(s \ {Choice(s)})[n]
      BY <1>1, <3>1, TotalsDiffer
    <3> QED BY <2>2, <3>1, <3>2
  <2> QED BY <2>1, <2>2
<1>3. FoldOf(it, g, n)
  BY <1>2 DEF FoldOf
<1> QED BY <1>3

LEMMA FoldIsTotal ==
  ASSUME NEW n \in Nat, NEW g \in [1 .. n -> Int], NEW it, FoldOf(it, g, n),
         NEW s \in SUBSET (1 .. n), NEW f, Totals(f, g, s, n)
  PROVE  it[s] = f[n]
<1> DEFINE Wrong(r) == \E h : Totals(h, g, r, n) /\ it[r] # h[n]
           T == {Cardinality(r) : r \in {q \in SUBSET (1 .. n) : Wrong(q)}}
<1>1. \A r \in SUBSET (1 .. n) : IsFiniteSet(r) /\ Cardinality(r) \in Nat
  <2>1. IsFiniteSet(1 .. n)
    BY FS_Interval
  <2> QED BY <2>1, FS_Subset, FS_CardinalityType
<1>2. T = {}
  <2> SUFFICES ASSUME T # {} PROVE FALSE
    OBVIOUS
  <2>1. PICK m \in T : \A k \in T : m <= k
    <3>1. T \subseteq Nat
      BY <1>1
    <3> HIDE DEF T
    <3> QED BY <3>1, LeastNumber
  <2>2. PICK r \in SUBSET (1 .. n) : Wrong(r) /\ m = Cardinality(r)
    BY <2>1
  <2>3. PICK h : Totals(h, g, r, n) /\ it[r] # h[n]
    BY <2>2
  <2>4. r # {}
    BY <2>3, TotalOfNone DEF FoldOf
  <2>5. PICK x \in r : x = Choice(r)
    BY <2>4 DEF Choice
  <2>6. it[r] = g[x] + it[r \ {x}] /\ r \ {x} \in SUBSET (1 .. n)
        /\ x \in r \cap (1 .. n)
    BY <2>4, <2>5 DEF FoldOf
  <2>7. Cardinality(r \ {x}) < m
    BY <1>1, <2>2, FS_RemoveElement
  <2>8. ~Wrong(r \ {x})
    <3>1. Wrong(r \ {x}) => Cardinality(r \ {x}) \in T
      BY <2>6
    <3>2. Cardinality(r \ {x}) \in Nat /\ m \in Nat
      BY <1>1, <2>2, <2>6
    <3>3. ASSUME NEW k \in Nat, k < m, k \in T PROVE FALSE
      BY <2>1, <3>2, <3>3
    <3> HIDE DEF T, Wrong
    <3> QED BY <2>7, <3>1, <3>2, <3>3
  <2>9. PICK j : Totals(j, g, r \ {x}, n)
    <3>1. n \in 0 .. n
      OBVIOUS
    <3> QED BY <3>1, TotalsExist
  <2>10. it[r \ {x}] = j[n]
    BY <2>8, <2>9
  <2>11. h[n] = g[x] + j[n]
    BY <2>3, <2>6, <2>9, TotalsDiffer
  <2> QED BY <2>3, <2>6, <2>10, <2>11
<1>3. ~Wrong(s)
  BY <1>2
<1> QED BY <1>3

-----------------------------------------------------------------------------
(* The rows of a wallet and its balance.                                    *)

OpeningsKept == \A w \in Wallets : WalletExists(w) => opened[w] \in Openings

LEMMA NextOpenings ==
  AllInv /\ OpeningsKept /\ [Next]_vars => OpeningsKept'
<1> SUFFICES ASSUME AllInv, OpeningsKept, [Next]_vars, NEW w \in Wallets,
                    WalletExists(w)'
             PROVE  opened'[w] \in Openings
  BY DEF OpeningsKept
<1>1. CASE UNCHANGED tables
  BY <1>1 DEF tables, WalletExists, OpeningsKept
<1>2. ASSUME NEW u \in Wallets, NEW v \in Openings, CreateWallet(u, v)
      PROVE  opened'[w] \in Openings
  BY <1>2 DEF CreateWallet, WalletExists, OpeningsKept, AllInv, TypeInv,
     TypeOK, TablesTypeOK
<1>3. ASSUME NEW c \in Calls, pc[c] = "commit", ApplyDraft(c)
      PROVE  opened'[w] \in Openings
  <2>1. PICK u, n : u = Wallet(c) /\ n = Len(ledger[u])
    OBVIOUS
  <2>2. u \in Wallets /\ opened' = opened
        /\ \A v \in Wallets \ {u} : balance'[v] = balance[v]
    BY <1>3, <2>1, ApplyDraftShape DEF AllInv
  <2>3. WalletExists(u)
    BY <1>3, <2>1 DEF AllInv, MoneyInv, Fresh, InTransaction
  <2> QED BY <2>2, <2>3 DEF WalletExists, OpeningsKept
<1> QED BY <1>1, <1>2, <1>3, TablesChange

LEMMA RowsSum ==
  ASSUME AllInv, OpeningsKept, NEW w \in Wallets, WalletExists(w)
  PROVE  MapThenSumSet(LAMBDA i : Delta(ledger[w][i]), DOMAIN ledger[w])
           = balance[w] - opened[w]
<1>1. PICK n \in Nat : n = Len(ledger[w]) /\ DOMAIN ledger[w] = 1 .. n
  <2>1. ledger[w] \in Seq(Transaction)
    BY DEF AllInv, TypeInv, TypeOK, TablesTypeOK
  <2> QED BY <2>1
<1>2. opened[w] \in Int
  <2>1. opened[w] \in Openings
    BY DEF OpeningsKept
  <2>2. Openings \subseteq Int
    BY PaiseAssumption DEF Paise
  <2> QED BY <2>1, <2>2
<1>3. \A i \in 1 .. n : Delta(ledger[w][i]) \in Int
                        /\ ledger[w][i].balance_after \in Int
  BY <1>1, RowsTyped DEF AllInv, Transaction, Row, Delta, Paise
<1>4. PICK g \in [1 .. n -> Int] : \A i \in 1 .. n : g[i] = Delta(ledger[w][i])
  <2>1. [i \in 1 .. n |-> Delta(ledger[w][i])] \in [1 .. n -> Int]
    BY <1>3
  <2> QED BY <2>1
<1>5. /\ balance[w] = BalanceAfter(w, n)
      /\ \A i \in 1 .. n : ledger[w][i].balance_after
                             = BalanceAfter(w, i - 1) + g[i]
  BY <1>1, <1>4 DEF AllInv, MoneyInv, LedgerReconciles
<1> DEFINE f == [i \in 0 .. n |-> BalanceAfter(w, i) - opened[w]]
<1>6. Totals(f, g, 1 .. n, n)
  <2>1. \A i \in 0 .. n : BalanceAfter(w, i) \in Int
    BY <1>2, <1>3 DEF BalanceAfter
  <2>2. f \in [0 .. n -> Int] /\ f[0] = 0
    BY <1>2, <2>1 DEF BalanceAfter
  <2>3. ASSUME NEW i \in 1 .. n PROVE f[i] = f[i - 1] + g[i]
    <3>1. i \in 0 .. n /\ i - 1 \in 0 .. n /\ i # 0
      OBVIOUS
    <3>2. BalanceAfter(w, i) = BalanceAfter(w, i - 1) + g[i]
      BY <1>5, <3>1 DEF BalanceAfter
    <3> QED BY <1>2, <2>1, <3>1, <3>2
  <2> QED BY <2>2, <2>3 DEF Totals
<1>7. PICK it : /\ FoldOf(it, g, n)
                /\ MapThenSumSet(LAMBDA i : Delta(ledger[w][i]), 1 .. n)
                     = it[1 .. n]
  <2> DEFINE Body1(x) == [s \in SUBSET (1 .. n) |->
                IF s = {} THEN 0
                ELSE Delta(ledger[w][Choice(s)]) + x[s \ {Choice(s)}]]
             chosen == CHOOSE x : x = Body1(x)
  <2>1. MapThenSumSet(LAMBDA i : Delta(ledger[w][i]), 1 .. n) = chosen[1 .. n]
    BY DEF MapThenSumSet, MapThenFoldSet, Choice
  <2>2. \A x : x = Body1(x) <=> FoldOf(x, g, n)
    <3>1. \A s \in SUBSET (1 .. n) : s # {} => Choice(s) \in 1 .. n
      BY DEF Choice
    <3>2. ASSUME NEW x
          PROVE  Body1(x) = [s \in SUBSET (1 .. n) |->
                   IF s = {} THEN 0 ELSE g[Choice(s)] + x[s \ {Choice(s)}]]
      BY <1>4, <3>1
    <3> QED BY <3>2 DEF FoldOf
  <2>3. \E x : x = Body1(x)
    BY <2>2, FoldExists
  <2>4. chosen = Body1(chosen)
    <3> HIDE DEF Body1
    <3> QED BY <2>3
  <2> HIDE DEF Body1, chosen
  <2> QED BY <2>1, <2>2, <2>4
<1>8. it[1 .. n] = f[n]
  <2> HIDE DEF f
  <2> QED BY <1>6, <1>7, FoldIsTotal
<1>9. f[n] = balance[w] - opened[w] /\ balance[w] \in Int
  <2>1. n \in 0 .. n
    OBVIOUS
  <2>2. BalanceAfter(w, n) \in Int
    BY <1>2, <1>3 DEF BalanceAfter
  <2> QED BY <1>5, <2>1, <2>2
<1> QED BY <1>1, <1>2, <1>7, <1>8, <1>9

\* The rows of a wallet, summed in any order, are what its balance has become
\* less what it was opened with.
BalanceIsExplained ==
  \A w \in Wallets : WalletExists(w) =>
    MapThenSumSet(LAMBDA i : Delta(ledger[w][i]), DOMAIN ledger[w])
      = balance[w] - opened[w]

LEMMA AlwaysExplained == Spec => [](BalanceIsExplained /\ OpeningsKept /\ AllInv)
<1>1. Init => OpeningsKept
  BY DEF Init, TablesInit, OpeningsKept, WalletExists
<1>2. AllInv /\ OpeningsKept => BalanceIsExplained
  BY RowsSum DEF BalanceIsExplained
<1>3. Spec => []AllInv
  BY AlwaysCached, PTL
<1> QED BY <1>1, <1>2, <1>3, NextOpenings, PTL DEF Spec

\* With every fault, and on any number of wallets and calls, the ledger explains
\* each balance but for the money the wallet was opened with.
THEOREM RowsExplainBalance == Spec => []BalanceIsExplained
  BY AlwaysExplained, PTL

\* Where wallets are opened empty, the balance can be re-derived from the ledger.
THEOREM RowsAddUp ==
  ASSUME Openings \subseteq {0}
  PROVE  Spec => []BalanceIsLedgerSum
<1>1. BalanceIsExplained /\ OpeningsKept /\ AllInv => BalanceIsLedgerSum
  <2> SUFFICES ASSUME BalanceIsExplained, OpeningsKept, AllInv,
                      NEW w \in Wallets, WalletExists(w)
               PROVE  balance[w] = MapThenSumSet(LAMBDA i : Delta(ledger[w][i]),
                                                 DOMAIN ledger[w])
    BY DEF BalanceIsLedgerSum
  <2>1. opened[w] = 0
    BY DEF OpeningsKept
  <2>2. balance[w] \in Int
    BY PaiseAssumption
       DEF AllInv, TypeInv, TypeOK, TablesTypeOK, WalletExists, Paise
  <2>3. MapThenSumSet(LAMBDA i : Delta(ledger[w][i]), DOMAIN ledger[w])
          = balance[w] - opened[w]
    BY DEF BalanceIsExplained
  <2>4. balance[w] - opened[w] = balance[w]
    BY <2>1, <2>2
  <2> QED BY <2>3, <2>4
<1> QED BY <1>1, AlwaysExplained, PTL
=============================================================================
