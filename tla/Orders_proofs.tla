--------------------------- MODULE Orders_proofs ----------------------------
(***************************************************************************)
(* Proofs about the order service in front of the wallet service, for any  *)
(* number of orders, calls and other clients and for every set of faults,  *)
(* locks that expire included.  Every step of the client is a step of the  *)
(* wallet service or leaves it alone, so that what is proved of the        *)
(* service holds; OrderInv adds what the client may conclude.              *)
(***************************************************************************)
EXTENDS OrderClient, Redis_proofs

\* What the order service must see to: that nobody else uses an order's id as
\* a key, and that it spells its wallet as Postgres does.
OwnKeys       == \A r \in Requests : r.key \in Orders => r = OrderRequest(r.key)
ShopCanonical == Canon[ShopWallet] = ShopWallet

Charged(o) == ChargesOf(o) # {}

\* An answer that says no.
Denied(c) == /\ reply[c] # None
             /\ reply[c].code \notin {"created", "replay"}
             /\ ~Inconclusive(reply[c].code)

\* Past the key check, or denied.
Unpaid(c) == pc[c] = "select" \/ Denied(c)

\* The attempt a client waits for.
Waiting(o) ==
  attempt[o] # None =>
    /\ attempt[o] \in Attempts(o) /\ pc[attempt[o]] # "idle"
    /\ told[o] \in {"doubt", "paid"}
    /\ Unpaid(attempt[o]) => /\ told[o] # "paid" /\ o \notin settled
                             /\ Late(o) \/ ~Charged(o)

\* No other attempt runs but those the client gave up on.
Alone(o) ==
  \A d \in Attempts(o) :
    /\ pc[d] \notin {"lookup", "load"}
    /\ d # attempt[o] /\ pc[d] \notin Ended => d \in abandoned

ToldTrue(o) ==
  /\ told[o] = "paid" => Charged(o)
  /\ told[o] = "refused" => attempt[o] = None /\ (Late(o) \/ ~Charged(o))
  /\ o \in settled => Charged(o) /\ told[o] # "refused"

OrderOK(o) == Waiting(o) /\ Alone(o) /\ ToldTrue(o)

ClientTyped ==
  /\ attempt \in [Orders -> Calls \cup {None}] /\ DOMAIN told = Orders
  /\ \A c \in Calls : pc[c] = "idle" => req[c] = None /\ c \notin abandoned

OrderInv == ClientTyped /\ \A o \in Orders : OrderOK(o)

LEMMA OrderRequestIs ==
  ASSUME NEW o \in Orders
  PROVE  /\ OrderRequest(o) \in Requests /\ OrderRequest(o) # None
         /\ OrderRequest(o).key = o /\ o \in Keys /\ o # None
         /\ OrderRequest(o).op = DEDUCT /\ OrderRequest(o).name = ShopWallet
         /\ OrderRequest(o).amount = OrderAmount
         /\ WellFormed(OrderRequest(o))
<1>1. OrderRequest(o) \in Requests /\ o \in Keys /\ OrderAmount \in Nat \ {0}
  BY OrdersAssumption
<1>2. OrderRequest(o) # None /\ o # None
  BY <1>1, NoneAssumption DEF Values
<1> QED BY <1>1, <1>2
        DEF OrderRequest, IdempotencyKey, WellFormed, DEDUCT, TOPUP, REFUND

\* The client only ever adds to what the service does.
LEMMA ClientSteps ==
  [ClientNext]_clientVars => [Next]_vars
<1>1. ASSUME NEW o \in Orders, PlaceOrder(o) PROVE Next
  BY <1>1 DEF PlaceOrder, Next
<1>2. ASSUME NEW o \in Orders, GetAnswer(o) \/ ConnectionLost(o) \/ TimeOut(o)
      PROVE  UNCHANGED vars
  BY <1>2 DEF GetAnswer, ConnectionLost, TimeOut
<1>3. OtherStep => Next
  BY DEF OtherStep
<1>4. UNCHANGED clientVars => UNCHANGED vars
  BY DEF clientVars
<1> QED BY <1>1, <1>2, <1>3, <1>4 DEF ClientNext

LEMMA AlwaysService == ClientSpec => [](AllInv /\ ReplyInv)
<1>1. ClientInit => Init
  BY DEF ClientInit
<1>2. Init => AllInv /\ ReplyInv
  BY InitTyped, InitMoney, InitKeys, InitReplies DEF AllInv
<1>3. AllInv /\ ReplyInv /\ [Next]_vars => (AllInv /\ ReplyInv)'
  BY NextTyped, NextMoney, NextKeys, NextReplies DEF AllInv
<1> QED BY <1>1, <1>2, <1>3, ClientSteps, PTL DEF ClientSpec

-----------------------------------------------------------------------------
(* Charges.                                                                 *)

\* A charge is the row of an attempt.
ChargesAreRows ==
  \A o \in Orders :
    /\ \A t \in ChargesOf(o) : /\ t \in KnownTxs /\ Tx(t).call \in Attempts(o)
                               /\ t \in RowsOf(Tx(t).call)
    /\ \A d \in Attempts(o) : RowsOf(d) \subseteq ChargesOf(o)

LEMMA ChargeIsRow == AllInv => ChargesAreRows
<1> SUFFICES ASSUME AllInv, NEW o \in Orders
             PROVE  /\ \A t \in ChargesOf(o) :
                         /\ t \in KnownTxs /\ Tx(t).call \in Attempts(o)
                         /\ t \in RowsOf(Tx(t).call)
                    /\ \A d \in Attempts(o) : RowsOf(d) \subseteq ChargesOf(o)
  BY DEF ChargesAreRows
<1>1. ASSUME NEW t \in ChargesOf(o)
      PROVE  /\ t \in KnownTxs /\ Tx(t).call \in Attempts(o)
             /\ t \in RowsOf(Tx(t).call)
  <2>1. t \in KnownTxs /\ req[Tx(t).call] = OrderRequest(o)
    BY DEF ChargesOf
  <2>2. PICK w \in Wallets : \E i \in DOMAIN ledger[w] : t = <<w, i>>
    BY <2>1, KnownRows
  <2>3. PICK i \in DOMAIN ledger[w] : t = <<w, i>>
    BY <2>2
  <2>4. Tx(t).call \in Calls
    BY <2>3, RowsTyped DEF AllInv, Tx
  <2> QED BY <2>1, <2>4 DEF Attempts, RowsOf
<1>2. ASSUME NEW d \in Attempts(o), NEW t \in RowsOf(d) PROVE t \in ChargesOf(o)
  BY DEF Attempts, RowsOf, ChargesOf
<1> QED BY <1>1, <1>2

\* A charged order has its record, under which its attempts are answered.
LEMMA ChargedIsRecorded ==
  ASSUME AllInv, NEW o \in Orders, Charged(o)
  PROVE  Recorded(o)
<1>1. PICK t \in ChargesOf(o) : TRUE
  BY DEF Charged
<1>2. PICK d \in Calls : d = Tx(t).call /\ req[d] = OrderRequest(o) /\ t \in RowsOf(d)
  BY ChargeIsRow DEF ChargesAreRows, Attempts
<1>3. RowsOf(d) # {} /\ req[d].key = o /\ o # None
  BY <1>2, OrderRequestIs
<1> QED BY <1>2, <1>3, KeyedRow

\* An order is charged once.
LEMMA ChargedOnce ==
  ASSUME AllInv, NEW o \in Orders, NEW t \in ChargesOf(o), NEW u \in ChargesOf(o)
  PROVE  t = u
<1>1. ASSUME NEW s \in ChargesOf(o)
      PROVE  processed[o].body.id = s
  <2>1. s \in KnownTxs /\ req[Tx(s).call].key = o /\ o # None
    BY OrderRequestIs DEF ChargesOf
  <2>2. processed[o] = RecordOf(s)
    BY <2>1 DEF AllInv, KeyInv, KeyAppliedOnce
  <2> QED BY <2>2 DEF RecordOf
<1> QED BY <1>1

\* So its charges can be counted: there is none or one.
Counted ==
  \A o \in Orders :
    Cardinality(ChargesOf(o)) = IF ChargesOf(o) = {} THEN 0 ELSE 1

LEMMA ChargesCounted == AllInv => Counted
<1> SUFFICES ASSUME AllInv, NEW o \in Orders, ChargesOf(o) # {}
             PROVE  Cardinality(ChargesOf(o)) = 1
  BY FS_EmptySet DEF Counted
<1>1. PICK t \in ChargesOf(o) : TRUE
  OBVIOUS
<1>2. ChargesOf(o) = {t}
  BY <1>1, ChargedOnce
<1> QED BY <1>2, FS_Singleton

\* What a charge reads.
LEMMA ChargeReads ==
  ASSUME AllInv, NEW o \in Orders, NEW t \in ChargesOf(o)
  PROVE  /\ t \in KnownTxs /\ t[1] = Canon[ShopWallet]
         /\ Tx(t).type = DEDUCT /\ Tx(t).amount = OrderAmount
<1>1. t \in KnownTxs /\ req[Tx(t).call] = OrderRequest(o)
  BY DEF ChargesOf
<1>2. PICK w \in Wallets : \E i \in DOMAIN ledger[w] : t = <<w, i>>
  BY <1>1, KnownRows
<1>3. PICK i \in DOMAIN ledger[w] : t = <<w, i>>
  BY <1>2
<1>4. Written(w, i) /\ Tx(t) = ledger[w][i] /\ t[1] = w
  BY <1>3 DEF AllInv, KeyInv, Tx
<1>5. /\ Canon[OrderRequest(o).name] = w
      /\ Tx(t).type = OrderRequest(o).op
      /\ OrderRequest(o).op # REFUND => Tx(t).amount = OrderRequest(o).amount
  BY <1>1, <1>4 DEF Written
<1> QED BY <1>1, <1>4, <1>5, OrderRequestIs DEF DEDUCT, REFUND

LEMMA ChargesRest ==
  ASSUME AllInv, [Next]_vars, UNCHANGED ledger, NEW o \in Orders, Charged(o)'
  PROVE  Charged(o)
<1>1. PICK t \in KnownTxs' : req'[Tx(t)'.call] = OrderRequest(o)
  BY DEF Charged, ChargesOf, OrderRequest
<1>2. t \in KnownTxs /\ Tx(t)' = Tx(t)
  BY <1>1 DEF KnownTxs, Tx
<1>3. req[Tx(t).call] = OrderRequest(o)
  BY <1>1, <1>2, RowsGrow
<1> QED BY <1>2, <1>3 DEF Charged, ChargesOf

\* A step adds charges only by the commit of one attempt, of an order that has
\* none.
LEMMA ChargesGrow ==
  ASSUME AllInv, AllInv', [Next]_vars
  PROVE  /\ \A o \in Orders : Charged(o) => Charged(o)'
         /\ \A o \in Orders : ~Charged(o) /\ Charged(o)' =>
              \E d \in Attempts(o) : pc[d] = "commit"
         /\ \A o, p \in Orders :
              ~Charged(o) /\ Charged(o)' /\ ~Charged(p) /\ Charged(p)' => o = p
<1>1. ASSUME NEW o \in Orders, Charged(o) PROVE Charged(o)'
  <2>1. PICK t \in KnownTxs : req[Tx(t).call] = OrderRequest(o)
    BY <1>1 DEF Charged, ChargesOf
  <2>2. t \in KnownTxs' /\ req'[Tx(t)'.call] = OrderRequest(o)
    BY <2>1, RowsGrow
  <2> QED BY <2>2 DEF Charged, ChargesOf, OrderRequest
<1>2. ASSUME NEW o \in Orders, ~Charged(o), Charged(o)'
      PROVE  \E d \in Attempts(o) : pc[d] = "commit"
  <2>1. PICK t \in KnownTxs' : req'[Tx(t)'.call] = OrderRequest(o)
    BY <1>2 DEF Charged, ChargesOf, OrderRequest
  <2>2. PICK d \in Calls : d = Tx(t)'.call /\ t \in RowsOf(d)' /\ req'[d] = OrderRequest(o)
    <3>1. t \in ChargesOf(o)'
      BY <2>1 DEF ChargesOf, OrderRequest
    <3>2. ChargesAreRows'
      BY ChargeIsRow, PTL
    <3>3. Tx(t)'.call \in Calls
      BY <3>1, <3>2 DEF ChargesAreRows, Attempts
    <3> QED BY <2>1, <3>3 DEF RowsOf
  <2>3. ASSUME pc[d] # "commit" PROVE FALSE
    <3>1. t \in RowsOf(d)
      BY <2>2, <2>3, RowsGrow
    <3>2. t \in KnownTxs /\ Tx(t).call = d
      BY <3>1 DEF RowsOf
    <3>3. req[d] = OrderRequest(o)
      BY <2>2, <3>2, RowsGrow
    <3> QED BY <1>2, <3>2, <3>3 DEF Charged, ChargesOf
  <2>4. req[d] = OrderRequest(o)
    BY <2>2, <2>3, RequestsStay DEF AllInv
  <2> QED BY <2>3, <2>4 DEF Attempts
<1>3. ASSUME NEW o \in Orders, NEW p \in Orders, ~Charged(o), Charged(o)',
             ~Charged(p), Charged(p)'
      PROVE  o = p
  <2>1. PICK e \in Calls : pc[e] = "commit" /\ ApplyDraft(e)
    <3>1. ~UNCHANGED ledger
      BY <1>3, ChargesRest
    <3> QED BY <3>1, TablesChange DEF tables, CreateWallet
  <2>2. PICK u : /\ KnownTxs' = KnownTxs \cup {u} /\ u \notin KnownTxs
                 /\ Tx(u)'.call = e
    BY <2>1, CommitAddsRow
  <2>3. ASSUME NEW q \in Orders, ~Charged(q), Charged(q)'
        PROVE  req'[e] = OrderRequest(q)
    <3>1. PICK t \in KnownTxs' : req'[Tx(t)'.call] = OrderRequest(q)
      BY <2>3 DEF Charged, ChargesOf, OrderRequest
    <3>2. CASE t \in KnownTxs
      <4>1. req[Tx(t).call] = OrderRequest(q)
        BY <3>1, <3>2, RowsGrow
      <4> QED BY <2>3, <3>2, <4>1 DEF Charged, ChargesOf
    <3>3. CASE t = u
      BY <2>2, <3>1, <3>3
    <3> QED BY <2>2, <3>2, <3>3
  <2>4. req'[e] = OrderRequest(o) /\ req'[e] = OrderRequest(p)
    BY <1>3, <2>3
  <2>5. req'[e].key = o /\ req'[e].key = p
    BY <2>4, OrderRequestIs
  <2> QED BY <2>5
<1> QED BY <1>1, <1>2, <1>3

-----------------------------------------------------------------------------
(* What an attempt is answered.                                             *)

\* The record under an order's id is of that order's request.
LEMMA OrderIsServed ==
  ASSUME OwnKeys, ShopCanonical, AllInv, NEW o \in Orders, NEW c \in Attempts(o),
         Recorded(o)
  PROVE  SameRequest(req[c]) /\ Charged(o)
<1>1. PICK t \in KnownTxs : req[Tx(t).call].key = o
  BY OrderRequestIs DEF AllInv, KeyInv, KeyAppliedOnce
<1>2. PICK w \in Wallets : \E i \in DOMAIN ledger[w] : t = <<w, i>>
  BY KnownRows
<1>3. PICK i \in DOMAIN ledger[w] : t = <<w, i>>
  BY <1>2
<1>4. PICK d \in Calls : d = Tx(t).call
  BY <1>3, RowsTyped DEF AllInv, Tx
<1>5. t \in RowsOf(d) /\ req[d].key = o /\ o # None
  BY <1>1, <1>4, OrderRequestIs DEF RowsOf
<1>6. /\ processed[o].wallet = Wallet(d) /\ pc[d] # "idle"
      /\ processed[o].fingerprint = Fingerprint(req[d])
  BY <1>5, KeyedRow
<1>7. req[d] = OrderRequest(o)
  BY <1>5, <1>6 DEF AllInv, TypeInv, CallOK, Received, OwnKeys
<1>8. req[c] = OrderRequest(o) /\ req[c].key = o /\ req[c].name = ShopWallet
  BY OrderRequestIs DEF Attempts
<1>9. Wallet(d) = ShopWallet
  BY <1>7, OrderRequestIs DEF Wallet, ShopCanonical
<1>10. SameRequest(req[c])
  BY <1>6, <1>7, <1>8, <1>9 DEF SameRequest
<1>11. t \in ChargesOf(o)
  BY <1>4, <1>5, <1>7 DEF RowsOf, ChargesOf
<1> QED BY <1>10, <1>11 DEF Charged

\* Only a broken rule denies an order.
LEMMA DeniedAtSelect ==
  ASSUME OwnKeys, ShopCanonical, AllInv, [Next]_vars, NEW o \in Orders,
         NEW c \in Attempts(o), pc[c] \notin {"idle", "lookup", "load"},
         ~Denied(c), Denied(c)'
  PROVE  pc[c] = "select"
<1>1. TypeInv /\ TypeOK /\ c \in Calls /\ req[c] = OrderRequest(o)
      /\ req[c].key = o /\ o # None
  BY OrderRequestIs DEF AllInv, TypeInv, Attempts
<1>2. ASSUME NEW code \in {"created", "replay", "internal_error", "wallet_busy"},
             NEW body \in Body \cup {None}, Compose(c, code, body)
      PROVE  FALSE
  <2>1. reply'[c] = [code |-> code, body |-> body]
    BY <1>1, <1>2, Replied DEF Codes
  <2> QED BY <2>1 DEF Denied, Inconclusive
<1>3. reply'[c] # reply[c] /\ reply'[c] # None
  BY DEF Denied, Inconclusive
<1>4. ~Receive(c)
  BY DEF Receive
<1>5. ~(AcquireLock(c) \/ LockBusy(c) \/ Release(c) \/ Leave(c) \/ Refresh(c)
        \/ Flush(c) \/ RecordKey(c))
  <2>1. AcquireLock(c) \/ LockBusy(c) \/ Release(c) \/ Leave(c) \/ Refresh(c)
        \/ Flush(c) \/ RecordKey(c)
        => \/ Compose(c, "wallet_busy", None)
           \/ Compose(c, "internal_error", None)
           \/ UNCHANGED reply
    BY DEF AcquireLock, LockBusy, Release, Leave, Refresh, Flush, RecordKey,
       Raise
  <2> QED BY <1>2, <1>3, <2>1
<1>6. ASSUME Recorded(o), AnswerFromRecord(c) PROVE FALSE
  <2>1. SameRequest(req[c])
    BY <1>6, OrderIsServed
  <2>2. reply'[c].code = "replay"
    BY <1>1, <1>6, <2>1 DEF AnswerFromRecord, Compose, TypeOK
  <2> QED BY <2>2 DEF Denied, Inconclusive
<1>7. ~(Check(c) \/ Recheck(c))
  <2>1. ~Check(c)
    BY <1>1, <1>3, <1>6 DEF Check
  <2>2. ~Recheck(c)
    <3>1. pc[c] = "recheck" => req[c].key # None /\ Recorded(req[c].key)
      BY <1>1 DEF AllInv, KeyInv, Found
    <3> QED BY <1>1, <1>6, <3>1 DEF Recheck
  <2> QED BY <2>1, <2>2
<1>8. ~Commit(c)
  <2>1. pc[c] = "commit" /\ ApplyDraft(c) => CreatedBody(c) \in Body
    BY <1>1, ApplyDraftTyped
  <2> QED BY <1>2, <2>1 DEF Commit
<1>9. ~(LookupCache(c) \/ LoadBalance(c))
  BY DEF LookupCache, LoadBalance
<1>10. ~Fault(c)
  <2>1. Fault(c) => Compose(c, "internal_error", None) \/ reply'[c] = None
    BY <1>1 DEF Fault, Crash, RedisFails, DatabaseFails, CommitUnacknowledged,
       Raise, TypeOK
  <2> QED BY <1>2, <1>3, <2>1
<1>11. Step(c) => SelectForUpdate(c)
  BY <1>5, <1>7, <1>8, <1>9 DEF Step
<1>12. \/ UNCHANGED calls
       \/ \E e \in Calls : Receive(e) \/ Step(e) \/ Fault(e)
  BY OneCallMoves
<1>13. SelectForUpdate(c)
  BY <1>1, <1>3, <1>4, <1>10, <1>11, <1>12, OthersStay DEF calls
<1> QED BY <1>13 DEF SelectForUpdate

\* An attempt never reads the cache or the balance.
LEMMA NeverReads ==
  ASSUME TypeInv, [Next]_vars, NEW c \in Calls,
         pc[c] \notin {"idle", "lookup", "load"}
  PROVE  pc'[c] \notin {"idle", "lookup", "load"}
<1>1. ASSUME NEW stage \in Stages \ {"idle", "lookup", "load"}, Goto(c, stage)
      PROVE  pc'[c] \notin {"idle", "lookup", "load"}
  BY <1>1, WentTo
<1>2. ~Receive(c) /\ ~LookupCache(c) /\ ~LoadBalance(c)
  BY DEF Receive, LookupCache, LoadBalance
<1>3. CASE AcquireLock(c) \/ LockBusy(c) \/ Release(c) \/ Leave(c) \/ Refresh(c)
  BY <1>1, <1>3 DEF AcquireLock, LockBusy, Release, Leave, Refresh, Stages,
     Ended
<1>4. CASE Check(c) \/ Recheck(c)
  BY <1>1, <1>4 DEF Check, Recheck, Stages
<1>5. CASE SelectForUpdate(c)
  BY <1>1, <1>5 DEF SelectForUpdate, Stages, InTransaction
<1>6. CASE Flush(c) \/ RecordKey(c) \/ Commit(c)
  BY <1>1, <1>6 DEF Flush, RecordKey, Commit, Stages, InTransaction
<1>7. CASE Fault(c)
  BY <1>1, <1>7 DEF Fault, Crash, RedisFails, DatabaseFails,
     CommitUnacknowledged, Stages, Ended
<1>8. CASE pc'[c] = pc[c]
  BY <1>8
<1>9. \/ UNCHANGED calls
      \/ \E e \in Calls : Receive(e) \/ Step(e) \/ Fault(e)
  BY OneCallMoves
<1> QED BY <1>2, <1>3, <1>4, <1>5, <1>6, <1>7, <1>8, <1>9, OthersStay
        DEF Step, calls

LEMMA EndedStays ==
  ASSUME TypeInv, [Next]_vars, NEW c \in Calls, pc[c] \in Ended
  PROVE  pc'[c] = pc[c]
<1>1. ~Receive(c) /\ ~Fault(c)
  BY DEF Receive, Fault, Crash, RedisFails, DatabaseFails,
     CommitUnacknowledged, Ended, InTransaction
<1>2. ~Step(c)
  BY DEF Step, AcquireLock, LockBusy, Check, SelectForUpdate, Flush, RecordKey,
     Commit, Recheck, Release, Leave, Refresh, LookupCache, LoadBalance, Ended
<1>3. \/ UNCHANGED calls
      \/ \E e \in Calls : Receive(e) \/ Step(e) \/ Fault(e)
  BY OneCallMoves
<1> QED BY <1>1, <1>2, <1>3, OthersStay DEF calls

-----------------------------------------------------------------------------
(* The client's invariant.                                                  *)

LEMMA AttemptsRun ==
  ASSUME ClientTyped, NEW o \in Orders, NEW d \in Attempts(o)
  PROVE  d \in Calls /\ pc[d] # "idle"
  BY OrderRequestIs DEF ClientTyped, Attempts

\* While nobody was given up on, only the attempt waited for can charge.
LEMMA ChargedByAttempt ==
  ASSUME AllInv, AllInv', [Next]_vars, NEW o \in Orders, Alone(o), ~Late(o),
         ~Charged(o), Charged(o)'
  PROVE  attempt[o] # None /\ pc[attempt[o]] = "commit"
<1>1. PICK d \in Attempts(o) : pc[d] = "commit"
  BY ChargesGrow
<1>2. d = attempt[o]
  BY <1>1 DEF Alone, Late, Ended
<1>3. d # None
  BY <1>1, NoneAssumption DEF Attempts, Values
<1> QED BY <1>1, <1>2, <1>3

\* A step of the service keeps what an order's client knows, as long as the
\* client does nothing.
LEMMA OrderKept ==
  ASSUME OwnKeys, ShopCanonical, AllInv, AllInv', ReplyInv, ClientTyped,
         [Next]_vars, NEW o \in Orders, OrderOK(o),
         attempt'[o] = attempt[o], told'[o] = told[o],
         o \in settled' <=> o \in settled,
         abandoned \subseteq abandoned', Attempts(o)' = Attempts(o)
  PROVE  OrderOK(o)'
<1>1. Late(o) => Late(o)'
  BY DEF Late
<1>2. Waiting(o) /\ Alone(o) /\ ToldTrue(o) /\ TypeInv
  BY DEF OrderOK, AllInv
<1>3. ASSUME attempt[o] = None \/ pc[attempt[o]] # "commit",
             Late(o) \/ ~Charged(o)
      PROVE  Late(o)' \/ ~Charged(o)'
  BY <1>1, <1>2, <1>3, ChargedByAttempt
<1>4. Waiting(o)'
  <2> SUFFICES ASSUME attempt[o] # None PROVE Waiting(o)'
    BY DEF Waiting
  <2>1. PICK c \in Attempts(o) : c = attempt[o] /\ c \in Calls /\ pc[c] # "idle"
    BY <1>2, AttemptsRun DEF Waiting
  <2>2. pc[c] \notin {"idle", "lookup", "load"}
    BY <1>2, <2>1 DEF Alone
  <2>3. c \in Attempts(o)' /\ pc'[c] # "idle" /\ told[o] \in {"doubt", "paid"}
    BY <1>2, <2>1, <2>2, NeverReads DEF Waiting
  <2>4. ASSUME Unpaid(c)'
        PROVE  told[o] # "paid" /\ o \notin settled /\ (Late(o)' \/ ~Charged(o)')
    <3>1. CASE Unpaid(c)
      <4>1. pc[c] # "commit"
        <5>1. ReplyOK(c)
          BY <2>1 DEF ReplyInv
        <5> QED BY <3>1, <5>1 DEF Unpaid, Denied, ReplyOK, Answering
      <4> QED BY <1>2, <1>3, <2>1, <3>1, <4>1 DEF Waiting
    <3>2. CASE ~Unpaid(c)
      <4>1. ~Denied(c)'
        BY <2>2, <3>2, DeniedAtSelect DEF Unpaid
      <4>2. pc'[c] = "select"
        BY <2>4, <4>1 DEF Unpaid
      <4>3. req[c].key = o /\ o # None
        BY <2>1, OrderRequestIs DEF Attempts
      <4>4. Check(c) /\ ~Recorded(o)
        BY <1>2, <2>1, <3>2, <4>2, <4>3, SelectedFrom DEF Unpaid
      <4>5. ~Charged(o) /\ pc[c] # "commit"
        BY <4>4, ChargedIsRecorded DEF Check
      <4> QED BY <1>2, <1>3, <2>1, <4>5 DEF ToldTrue
    <3> QED BY <3>1, <3>2
  <2> QED BY <2>1, <2>3, <2>4 DEF Waiting
<1>5. Alone(o)'
  <2>1. ASSUME NEW d \in Attempts(o)
        PROVE  /\ pc'[d] \notin {"lookup", "load"}
               /\ d # attempt[o] /\ pc'[d] \notin Ended => d \in abandoned'
    <3>1. d \in Calls /\ pc[d] \notin {"idle", "lookup", "load"}
      BY <1>2, AttemptsRun DEF Alone
    <3> QED BY <1>2, <3>1, NeverReads, EndedStays DEF Alone
  <2> QED BY <2>1 DEF Alone
<1>6. ToldTrue(o)'
  BY <1>2, <1>3, ChargesGrow DEF ToldTrue
<1> QED BY <1>4, <1>5, <1>6 DEF OrderOK

\* The same with the service at rest.
LEMMA AtRest ==
  ASSUME UNCHANGED vars, NEW o \in Orders
  PROVE  /\ Attempts(o)' = Attempts(o) /\ Charged(o)' = Charged(o)
         /\ \A c : Unpaid(c)' = Unpaid(c)
  BY DEF vars, calls, tables, Attempts, Charged, ChargesOf, KnownTxs, Tx,
     OrderRequest, Unpaid, Denied

LEMMA PlaceOrderKeeps ==
  ASSUME AllInv, AllInv', ReplyInv, ClientTyped, [Next]_vars,
         NEW o \in Orders, OrderOK(o), PlaceOrder(o)
  PROVE  OrderOK(o)'
<1>1. PICK c \in Calls : Receive(c) /\ req'[c] = OrderRequest(o)
                         /\ attempt' = [attempt EXCEPT ![o] = c]
  BY DEF PlaceOrder
<1>2. /\ attempt[o] = None /\ attempt'[o] = c /\ UNCHANGED abandoned
      /\ told'[o] = IF told[o] = "paid" THEN "paid" ELSE "doubt"
      /\ o \in settled' => o \in settled \/ Charged(o)
  BY <1>1 DEF PlaceOrder, ClientTyped, Charged
<1>3. Waiting(o) /\ Alone(o) /\ ToldTrue(o) /\ TypeInv
  BY DEF OrderOK, AllInv
<1>4. /\ pc[c] = "idle" /\ UNCHANGED tables /\ c \notin abandoned
      /\ \A d \in Calls \ {c} : req'[d] = req[d] /\ pc'[d] = pc[d]
  BY <1>1, <1>3, OthersStay DEF Receive, ClientTyped, TypeInv, TypeOK
<1>5. pc'[c] = "acquire" /\ reply'[c] = None
  <2>1. WellFormed(OrderRequest(o)) /\ OrderRequest(o).op # READ
    BY OrderRequestIs DEF DEDUCT, READ
  <2>2. PICK r \in Requests :
          /\ req' = [req EXCEPT ![c] = r]
          /\ IF WellFormed(r)
             THEN Goto(c, IF r.op = READ THEN "lookup" ELSE "acquire") /\ UNCHANGED reply
             ELSE Goto(c, "done") /\ Raise(c, "invalid_request")
    BY <1>1 DEF Receive
  <2>3. r = OrderRequest(o)
    BY <1>1, <1>3, <2>2 DEF TypeInv, TypeOK
  <2>4. reply[c] = None
    BY <1>4 DEF ReplyInv, ReplyOK, Answering
  <2> QED BY <1>3, <2>1, <2>2, <2>3, <2>4, WentTo DEF Stages
<1>6. Attempts(o)' = Attempts(o) \cup {c}
  <2>1. c \in Attempts(o)'
    BY <1>1 DEF Attempts, OrderRequest
  <2>2. \A d \in Calls \ {c} : d \in Attempts(o)' <=> d \in Attempts(o)
    BY <1>4 DEF Attempts, OrderRequest
  <2> QED BY <2>1, <2>2 DEF Attempts
<1>7. Late(o)' = Late(o)
  BY <1>2, <1>4, <1>6 DEF Late
<1>8. Charged(o)' = Charged(o)
  <2>1. UNCHANGED ledger
    BY <1>4 DEF tables
  <2> QED BY <2>1, ChargesRest, ChargesGrow DEF Charged
<1>9. Waiting(o)'
  <2>1. ~Unpaid(c)'
    BY <1>5 DEF Unpaid, Denied
  <2>2. told'[o] \in {"doubt", "paid"}
    BY <1>2
  <2>3. c \in Attempts(o)' /\ pc'[c] # "idle"
    BY <1>5, <1>6
  <2> QED BY <1>2, <2>1, <2>2, <2>3 DEF Waiting
<1>10. Alone(o)'
  <2>1. ASSUME NEW d \in Attempts(o), d # c
        PROVE  /\ pc'[d] \notin {"lookup", "load"}
               /\ pc'[d] \notin Ended => d \in abandoned
    <3>1. d \in Calls /\ pc'[d] = pc[d] /\ d # None
      BY <1>4, <2>1, NoneAssumption DEF Attempts, Values
    <3> QED BY <1>2, <1>3, <3>1 DEF Alone
  <2> QED BY <1>2, <1>5, <1>6, <2>1 DEF Alone
<1>11. ToldTrue(o)'
  BY <1>2, <1>3, <1>8 DEF ToldTrue
<1> QED BY <1>9, <1>10, <1>11 DEF OrderOK

\* A success tells of a charge.
LEMMA SuccessIsCharge ==
  ASSUME OwnKeys, AllInv, ReplyInv, NEW o \in Orders, NEW c \in Attempts(o),
         reply[c] # None, reply[c].code \in {"created", "replay"}
  PROVE  Charged(o)
<1>1. c \in Calls /\ req[c] = OrderRequest(o) /\ req[c].key = o /\ o # None
  BY OrderRequestIs DEF Attempts
<1>2. TrueReply(c) /\ (reply[c].code = "replay" => reply[c].body.id \in KnownTxs)
  BY <1>1 DEF ReplyInv, ReplyOK
<1>3. CASE reply[c].code = "created"
  <2>1. RowsOf(c) # {}
    BY <1>2, <1>3 DEF TrueReply
  <2> QED BY <2>1, ChargeIsRow DEF ChargesAreRows, Charged
<1>4. CASE reply[c].code = "replay"
  <2>1. PICK t \in KnownTxs : t = reply[c].body.id
    BY <1>2, <1>4
  <2>2. req[Tx(t).call].key = o
    BY <1>1, <1>2, <1>4, <2>1 DEF TrueReply, SameMovement
  <2>3. PICK w \in Wallets : \E i \in DOMAIN ledger[w] : t = <<w, i>>
    BY KnownRows
  <2>4. PICK i \in DOMAIN ledger[w] : t = <<w, i>>
    BY <2>3
  <2>5. Written(w, i) /\ Tx(t) = ledger[w][i] /\ Tx(t).call \in Calls
    BY <2>4, RowsTyped DEF AllInv, KeyInv, Tx
  <2>6. req[Tx(t).call] \in Requests
    BY <2>5 DEF Written, Finishing, Ended, AllInv, TypeInv, CallOK, Received
  <2>7. req[Tx(t).call] = OrderRequest(o)
    BY <2>2, <2>6 DEF OwnKeys
  <2> QED BY <2>1, <2>7 DEF Charged, ChargesOf
<1> QED BY <1>3, <1>4

\* The client hears an answer, loses the connection or gives up.
LEMMA StopsWaiting ==
  ASSUME OwnKeys, AllInv, ReplyInv, ClientTyped, NEW o \in Orders, OrderOK(o),
         GetAnswer(o) \/ ConnectionLost(o) \/ TimeOut(o)
  PROVE  /\ OrderOK(o)' /\ abandoned \subseteq abandoned'
         /\ attempt' = [attempt EXCEPT ![o] = None]
         /\ \A p \in Orders \ {o} : told'[p] = told[p]
         /\ abandoned' \subseteq abandoned \cup {attempt[o]} /\ settled' = settled
<1>1. UNCHANGED vars /\ attempt[o] # None /\ settled' = settled
  BY DEF GetAnswer, ConnectionLost, TimeOut
<1>2. /\ attempt' = [attempt EXCEPT ![o] = None] /\ attempt'[o] = None
      /\ abandoned \subseteq abandoned'
      /\ abandoned' \subseteq abandoned \cup {attempt[o]}
  BY DEF GetAnswer, ConnectionLost, TimeOut, StopWaiting, ClientTyped
<1>3. \A p \in Orders \ {o} : told'[p] = told[p]
  BY DEF GetAnswer, ConnectionLost, TimeOut, ClientTyped
<1>4. Waiting(o) /\ Alone(o) /\ ToldTrue(o)
  BY DEF OrderOK
<1>5. PICK c \in Attempts(o) : c = attempt[o] /\ c \in Calls
  BY <1>1, <1>4 DEF Waiting, Attempts
<1>6. /\ Attempts(o)' = Attempts(o) /\ Charged(o)' = Charged(o) /\ pc' = pc
      /\ Late(o) => Late(o)'
  BY <1>1, <1>2, AtRest DEF vars, calls, Late
<1>7. Waiting(o)'
  BY <1>2 DEF Waiting
<1>8. Alone(o)'
  <2>1. pc[c] \in Ended \/ c \in abandoned'
    BY <1>5 DEF GetAnswer, ConnectionLost, TimeOut, Ended
  <2>2. ASSUME NEW d \in Attempts(o)
        PROVE  /\ pc[d] \notin {"lookup", "load"}
               /\ pc[d] \notin Ended => d \in abandoned'
    BY <1>2, <1>4, <1>5, <2>1 DEF Alone
  <2> QED BY <1>6, <2>2 DEF Alone
<1>9. ToldTrue(o)'
  <2>1. CASE told'[o] = told[o]
    BY <1>1, <1>2, <1>4, <1>6, <2>1 DEF ToldTrue
  <2>2. CASE told'[o] # told[o]
    <3>1. /\ GetAnswer(o) /\ ~Inconclusive(reply[c].code)
          /\ told'[o] = IF reply[c].code \in {"created", "replay"}
                        THEN "paid" ELSE "refused"
      BY <1>5, <2>2 DEF GetAnswer, ConnectionLost, TimeOut, ClientTyped
    <3>2. reply[c] # None
      BY <1>5, <3>1 DEF GetAnswer, ReplyInv, ReplyOK, Answering
    <3>3. CASE reply[c].code \in {"created", "replay"}
      BY <1>1, <1>6, <3>1, <3>2, <3>3, SuccessIsCharge DEF ToldTrue
    <3>4. CASE reply[c].code \notin {"created", "replay"}
      <4>1. Unpaid(c)
        BY <3>1, <3>2, <3>4 DEF Unpaid, Denied
      <4> QED BY <1>1, <1>2, <1>4, <1>5, <1>6, <3>1, <3>4, <4>1
              DEF Waiting, ToldTrue
    <3> QED BY <3>3, <3>4
  <2> QED BY <2>1, <2>2
<1> QED BY <1>1, <1>2, <1>3, <1>7, <1>8, <1>9 DEF OrderOK

LEMMA InitOrders == ClientInit => OrderInv
<1> SUFFICES ASSUME ClientInit PROVE OrderInv
  OBVIOUS
<1>1. /\ \A c \in Calls : pc[c] = "idle" /\ req[c] = None
      /\ \A o \in Orders : attempt[o] = None /\ told[o] = "nothing"
      /\ ClientTyped /\ settled = {}
  BY DEF ClientInit, Init, ClientTyped
<1>2. ASSUME NEW o \in Orders PROVE Attempts(o) = {}
  BY <1>1, OrderRequestIs DEF Attempts
<1> QED BY <1>1, <1>2 DEF OrderInv, OrderOK, Waiting, Alone, ToldTrue

LEMMA NextClientTyped ==
  ASSUME AllInv, OrderInv, [ClientNext]_clientVars
  PROVE  ClientTyped'
<1>1. TypeInv /\ ClientTyped /\ [Next]_vars
  BY ClientSteps DEF AllInv, OrderInv
<1>2. ASSUME attempt' \in [Orders -> Calls \cup {None}], DOMAIN told' = Orders,
             \A c \in Calls : pc'[c] = "idle" => c \notin abandoned'
      PROVE  ClientTyped'
  BY <1>1, <1>2, IdleBefore DEF ClientTyped
<1>3. CASE UNCHANGED client
  BY <1>1, <1>2, <1>3, IdleBefore DEF ClientTyped, client
<1>4. ASSUME NEW o \in Orders, PlaceOrder(o) PROVE ClientTyped'
  BY <1>1, <1>2, <1>4, IdleBefore DEF ClientTyped, PlaceOrder
<1>5. ASSUME NEW o \in Orders, GetAnswer(o) \/ ConnectionLost(o) \/ TimeOut(o)
      PROVE  ClientTyped'
  <2>1. /\ attempt' = [attempt EXCEPT ![o] = None] /\ attempt[o] # None
        /\ abandoned' \subseteq abandoned \cup {attempt[o]}
        /\ pc' = pc /\ DOMAIN told' = Orders
    BY <1>1, <1>5 DEF GetAnswer, ConnectionLost, TimeOut, StopWaiting, vars,
       calls, ClientTyped
  <2>2. pc[attempt[o]] # "idle"
    BY <2>1 DEF OrderInv, OrderOK, Waiting
  <2> QED BY <1>1, <1>2, <2>1, <2>2 DEF ClientTyped
<1> QED BY <1>3, <1>4, <1>5 DEF ClientNext, OtherStep, clientVars

LEMMA NextOrders ==
  ASSUME OwnKeys, ShopCanonical, AllInv, AllInv', ReplyInv, OrderInv,
         [ClientNext]_clientVars
  PROVE  OrderInv'
<1>1. ClientTyped /\ [Next]_vars
  BY ClientSteps DEF OrderInv
<1>2. ASSUME NEW p \in Orders PROVE OrderOK(p)'
  <2>1. OrderOK(p)
    BY DEF OrderInv
  <2>2. CASE OtherStep
    BY <1>1, <2>1, <2>2, OrderKept DEF OtherStep, client
  <2>3. CASE UNCHANGED clientVars
    <3>1. UNCHANGED vars /\ UNCHANGED client
      BY <2>3 DEF clientVars
    <3> QED BY <1>1, <2>1, <3>1, AtRest, OrderKept DEF client
  <2>4. ASSUME NEW o \in Orders, PlaceOrder(o) PROVE OrderOK(p)'
    <3>1. CASE p = o
      BY <1>1, <2>1, <2>4, <3>1, PlaceOrderKeeps
    <3>2. CASE p # o
      <4>1. PICK c \in Calls : Receive(c) /\ req'[c] = OrderRequest(o)
                               /\ attempt' = [attempt EXCEPT ![o] = c]
        BY <2>4 DEF PlaceOrder
      <4>2. attempt'[p] = attempt[p] /\ told'[p] = told[p] /\ UNCHANGED abandoned
                           /\ (p \in settled' <=> p \in settled)
        BY <1>1, <2>4, <3>2, <4>1 DEF PlaceOrder, ClientTyped
      <4>3. /\ pc[c] = "idle" /\ req[c] = None
            /\ \A d \in Calls \ {c} : req'[d] = req[d]
        BY <1>1, <4>1 DEF Receive, ClientTyped, AllInv, TypeInv, TypeOK
      <4>4. OrderRequest(o) # OrderRequest(p) /\ OrderRequest(p) # None
        <5>1. OrderRequest(o).key # OrderRequest(p).key
          BY <3>2, OrderRequestIs
        <5> QED BY <5>1, OrderRequestIs
      <4>5. Attempts(p)' = Attempts(p)
        BY <4>1, <4>3, <4>4 DEF Attempts, OrderRequest
      <4> QED BY <1>1, <2>1, <4>2, <4>5, OrderKept
    <3> QED BY <3>1, <3>2
  <2>5. ASSUME NEW o \in Orders, GetAnswer(o) \/ ConnectionLost(o) \/ TimeOut(o)
        PROVE  OrderOK(p)'
    <3>1. OrderOK(o)
      BY DEF OrderInv
    <3>2. /\ OrderOK(o)' /\ abandoned \subseteq abandoned'
          /\ attempt' = [attempt EXCEPT ![o] = None]
          /\ \A q \in Orders \ {o} : told'[q] = told[q]
          /\ settled' = settled
      BY <1>1, <2>5, <3>1, StopsWaiting
    <3>3. CASE p # o
      <4>1. UNCHANGED vars /\ attempt'[p] = attempt[p] /\ told'[p] = told[p]
        BY <1>1, <2>5, <3>2, <3>3
           DEF GetAnswer, ConnectionLost, TimeOut, ClientTyped
      <4> QED BY <1>1, <2>1, <3>2, <4>1, AtRest, OrderKept
    <3> QED BY <3>2, <3>3
  <2> QED BY <2>2, <2>3, <2>4, <2>5 DEF ClientNext
<1> QED BY <1>2, NextClientTyped DEF OrderInv

LEMMA AlwaysOrders ==
  ASSUME OwnKeys, ShopCanonical
  PROVE  ClientSpec => [](AllInv /\ ReplyInv /\ OrderInv)
<1>1. ASSUME AllInv, AllInv', ReplyInv, OrderInv, [ClientNext]_clientVars
      PROVE  OrderInv'
  BY <1>1, NextOrders
<1>2. AllInv /\ AllInv' /\ ReplyInv /\ OrderInv /\ [ClientNext]_clientVars
      => OrderInv'
  BY <1>1
<1> QED BY <1>2, InitOrders, AlwaysService, PTL DEF ClientSpec

-----------------------------------------------------------------------------
(* What the order service may rely on.                                      *)

\* An order its client was told is paid was charged, once and for its amount:
\* place_order may be repeated under one key as often as it likes, whatever
\* crashes, expires or goes unanswered.
THEOREM PaidOrdersCorrect ==
  ASSUME OwnKeys, ShopCanonical
  PROVE  ClientSpec => []PaidOrdersAreCharged
<1>1. ASSUME AllInv, OrderInv PROVE PaidOrdersAreCharged
  <2>1. ASSUME NEW o \in Orders, told[o] = "paid"
        PROVE  \E t \in KnownTxs : /\ ChargesOf(o) = {t}
                                   /\ t[1] = Canon[ShopWallet]
                                   /\ Tx(t).type = DEDUCT
                                   /\ Tx(t).amount = OrderAmount
    <3>1. Charged(o)
      BY <1>1, <2>1 DEF OrderInv, OrderOK, ToldTrue
    <3>2. PICK t \in ChargesOf(o) : TRUE
      BY <3>1 DEF Charged
    <3>3. ChargesOf(o) = {t}
      BY <1>1, <3>2, ChargedOnce
    <3> QED BY <1>1, <3>2, <3>3, ChargeReads
  <2> QED BY <2>1 DEF PaidOrdersAreCharged
<1>2. AllInv /\ OrderInv => PaidOrdersAreCharged
  BY <1>1
<1> QED BY <1>2, AlwaysOrders, PTL

\* An order its client was told is refused was not charged, unless by an
\* attempt that ran on after the client's time-out, and since the order was
\* last placed.  This holds without the Redis lock: attempts of one order
\* follow one another.
THEOREM RefusedOrdersCorrect ==
  ASSUME OwnKeys, ShopCanonical
  PROVE  ClientSpec => []RefusedOrdersAreNotCharged
<1>1. OrderInv => RefusedOrdersAreNotCharged
  BY DEF OrderInv, OrderOK, ToldTrue, Charged, RefusedOrdersAreNotCharged
<1> QED BY <1>1, AlwaysOrders, PTL

\* The order service's promise: over locks that expire, workers that die, lost
\* answers and attempts that outlive their clients, every step adds the first
\* ledger row of one order that is asked for, or tells its client the truth, or
\* does neither.  A second row of an order would be a step that Payment lacks.
THEOREM PaymentImplemented ==
  ASSUME OwnKeys, ShopCanonical
  PROVE  ClientSpec => ImplementsPayment
<1>1. ClientInit => Promised!PaymentInit
  <2> SUFFICES ASSUME ClientInit PROVE Promised!PaymentInit
    OBVIOUS
  <2>1. told = [o \in Orders |-> "nothing"] /\ abandoned = {} /\ settled = {}
    BY DEF ClientInit
  <2>2. ASSUME NEW o \in Orders PROVE Cardinality(ChargesOf(o)) = 0
    <3>1. KnownTxs = {}
      BY DEF ClientInit, Init, TablesInit, KnownTxs
    <3> QED BY <3>1, FS_EmptySet DEF ChargesOf
  <2> QED BY <2>1, <2>2 DEF Promised!PaymentInit, Late
<1>2. ASSUME AllInv, AllInv', ReplyInv, OrderInv, [ClientNext]_clientVars
      PROVE  [Promised!PaymentNext]_Promised!payment
  <2> DEFINE charges == [o \in Orders |-> Cardinality(ChargesOf(o))]
             late    == {o \in Orders : Late(o)}
  <2>0. [Next]_vars /\ ClientTyped
    BY <1>2, ClientSteps DEF OrderInv
  <2>a. ASSUME NEW o \in Orders
        PROVE  /\ charges[o]  = IF Charged(o)  THEN 1 ELSE 0
               /\ charges'[o] = IF Charged(o)' THEN 1 ELSE 0
    <3>1. Counted'
      BY <1>2, ChargesCounted, PTL
    <3> QED BY <1>2, <3>1, ChargesCounted DEF Counted, Charged
  <2>b. ASSUME \A o \in Orders : Charged(o)' = Charged(o)
        PROVE  charges' = charges
    BY <2>a, <2>b
  <2>1. CASE UNCHANGED clientVars
    <3>1. UNCHANGED vars /\ UNCHANGED client
      BY <2>1 DEF clientVars
    <3>2. charges' = charges
      BY <2>b, <3>1, AtRest
    <3>3. late' = late /\ told' = told /\ settled' = settled
      BY <3>1, AtRest DEF client, Late
    <3> QED BY <3>2, <3>3 DEF Promised!payment
  <2>2. CASE OtherStep
    <3>1. late' = late /\ told' = told /\ settled' = settled
      BY <2>2 DEF OtherStep, client, Late
    <3>2. CASE charges' = charges
      BY <3>1, <3>2 DEF Promised!payment
    <3>3. CASE charges' # charges
      <4>1. PICK o \in Orders : ~Charged(o) /\ Charged(o)'
        BY <1>2, <2>0, <2>b, <3>3, ChargesGrow DEF Charged
      <4>2. ASSUME NEW p \in Orders, p # o PROVE Charged(p)' = Charged(p)
        BY <1>2, <2>0, <4>1, <4>2, ChargesGrow DEF Charged
      <4>3. charges[o] = 0 /\ charges' = [charges EXCEPT ![o] = 1]
        BY <2>a, <4>1, <4>2
      <4>4. told[o] = "doubt" \/ o \in late
        <5> SUFFICES ASSUME ~Late(o) PROVE told[o] = "doubt"
          OBVIOUS
        <5>1. Waiting(o) /\ Alone(o) /\ ToldTrue(o)
          BY <1>2 DEF OrderInv, OrderOK
        <5>2. attempt[o] # None
          BY <1>2, <2>0, <4>1, <5>1, ChargedByAttempt
        <5> QED BY <4>1, <5>1, <5>2 DEF Waiting, ToldTrue
      <4>5. Promised!Charge(o)
        BY <3>1, <4>3, <4>4 DEF Promised!Charge
      <4> QED BY <4>5 DEF Promised!PaymentNext
    <3> QED BY <3>2, <3>3
  <2>3. ASSUME NEW o \in Orders, PlaceOrder(o)
        PROVE  Promised!PaymentNext
    <3>1. PICK c \in Calls : Receive(c) /\ req'[c] = OrderRequest(o)
      BY <2>3 DEF PlaceOrder
    <3>2. /\ pc[c] = "idle" /\ req[c] = None /\ UNCHANGED ledger
          /\ c \notin abandoned /\ abandoned' = abandoned
          /\ \A d \in Calls \ {c} : req'[d] = req[d]
      BY <1>2, <2>0, <2>3, <3>1
         DEF Receive, ClientTyped, AllInv, TypeInv, TypeOK, tables, PlaceOrder
    <3>3. charges' = charges
      BY <1>2, <2>0, <2>b, <3>2, ChargesRest, ChargesGrow DEF Charged
    <3>4. ASSUME NEW p \in Orders PROVE Late(p)' = Late(p)
      <4>1. Attempts(p)' \ {c} = Attempts(p) \ {c}
        BY <3>2 DEF Attempts, OrderRequest
      <4> QED BY <3>2, <4>1 DEF Late
    <3>5. settled' = IF charges[o] = 0 THEN settled ELSE settled \cup {o}
      <4>1. charges[o] = 0 <=> ChargesOf(o) = {}
        BY <2>a DEF Charged
      <4> QED BY <2>3, <4>1 DEF PlaceOrder
    <3>6. Promised!Ask(o)
      BY <2>3, <3>3, <3>4, <3>5 DEF Promised!Ask, PlaceOrder
    <3> QED BY <3>6 DEF Promised!PaymentNext
  <2>4. ASSUME NEW o \in Orders, GetAnswer(o) \/ ConnectionLost(o) \/ TimeOut(o)
        PROVE  [Promised!PaymentNext]_Promised!payment
    <3>1. OrderOK(o) /\ UNCHANGED vars
      BY <1>2, <2>4 DEF OrderInv, GetAnswer, ConnectionLost, TimeOut
    <3>2. settled' = settled
      BY <1>2, <2>0, <2>4, <3>1, StopsWaiting
    <3>3. charges' = charges /\ \A p \in Orders : Attempts(p)' = Attempts(p)
      BY <2>b, <3>1, AtRest
    <3>4. CASE TimeOut(o)
      <4>1. told' = told
        BY <3>4 DEF TimeOut
      <4>2. CASE abandoned' = abandoned
        <5>1. late' = late
          BY <3>3, <4>2 DEF Late
        <5> QED BY <3>2, <3>3, <4>1, <5>1 DEF Promised!payment
      <4>3. CASE abandoned' # abandoned
        <5>1. PICK c \in Attempts(o) :
                c = attempt[o] /\ abandoned' = abandoned \cup {c}
          BY <3>1, <3>4, <4>3 DEF TimeOut, OrderOK, Waiting
        <5>2. late' = late \cup {o}
          <6>1. ASSUME NEW p \in Orders, p # o PROVE c \notin Attempts(p)
            <7>1. req[c].key = o
              BY <5>1, OrderRequestIs DEF Attempts
            <7> QED BY <6>1, <7>1, OrderRequestIs DEF Attempts
          <6> QED BY <3>3, <5>1, <6>1 DEF Late
        <5>3. Promised!GiveUp(o)
          BY <3>2, <3>3, <4>1, <5>2 DEF Promised!GiveUp
        <5> QED BY <5>3 DEF Promised!PaymentNext
      <4> QED BY <4>2, <4>3
    <3>5. CASE ConnectionLost(o)
      <4>1. late' = late /\ told' = told
        BY <3>3, <3>5 DEF ConnectionLost, Late
      <4> QED BY <3>2, <3>3, <4>1 DEF Promised!payment
    <3>6. CASE GetAnswer(o)
      <4>1. late' = late
        BY <3>3, <3>6 DEF GetAnswer, Late
      <4>2. CASE told' = told
        BY <3>2, <3>3, <4>1, <4>2 DEF Promised!payment
      <4>3. CASE told' # told
        <5>1. PICK c : /\ c = attempt[o] /\ c # None /\ pc[c] = "done"
                       /\ ~Inconclusive(reply[c].code)
                       /\ told' = [told EXCEPT ![o] =
                                     IF reply[c].code \in {"created", "replay"}
                                     THEN "paid" ELSE "refused"]
          BY <3>6, <4>3 DEF GetAnswer
        <5>2. c \in Attempts(o) /\ reply[c] # None
          BY <1>2, <3>1, <5>1
             DEF OrderOK, Waiting, Attempts, ReplyInv, ReplyOK, Answering
        <5>3. CASE reply[c].code \in {"created", "replay"}
          <6>1. charges[o] = 1
            BY <1>2, <2>a, <5>2, <5>3, SuccessIsCharge
          <6>2. Promised!TellPaid(o)
            BY <3>2, <3>3, <4>1, <5>1, <5>3, <6>1 DEF Promised!TellPaid
          <6> QED BY <6>2 DEF Promised!PaymentNext
        <5>4. CASE reply[c].code \notin {"created", "replay"}
          <6>1. /\ told[o] # "paid" /\ o \notin settled
                /\ Late(o) \/ ~Charged(o)
            BY <3>1, <5>1, <5>2, <5>4 DEF OrderOK, Waiting, Unpaid, Denied
          <6>2. charges[o] = 0 \/ o \in late \ settled
            BY <2>a, <6>1
          <6>3. Promised!TellRefused(o)
            BY <3>2, <3>3, <4>1, <5>1, <5>4, <6>1, <6>2 DEF Promised!TellRefused
          <6> QED BY <6>3 DEF Promised!PaymentNext
        <5> QED BY <5>3, <5>4
      <4> QED BY <4>2, <4>3
    <3> QED BY <2>4, <3>4, <3>5, <3>6
  <2> QED BY <1>2, <2>1, <2>2, <2>3, <2>4 DEF ClientNext
<1>3. AllInv /\ AllInv' /\ ReplyInv /\ OrderInv /\ [ClientNext]_clientVars
      => [Promised!PaymentNext]_Promised!payment
  BY <1>2
<1> QED BY <1>1, <1>3, AlwaysOrders, PTL
        DEF ClientSpec, ImplementsPayment, Promised!PaymentSpec

\* What Payment promises by itself: whoever implements it never charges an order
\* twice and tells no client an untruth.  Together with PaymentImplemented, an
\* order has at most one ledger row, whatever its client was told.
THEOREM PaymentPromises ==
  ImplementsPayment => []Promised!PaymentKept
<1> DEFINE charges == [o \in Orders |-> Cardinality(ChargesOf(o))]
           late    == {o \in Orders : Late(o)}
           Kept    == /\ Promised!PaymentKept
                      /\ DOMAIN told = Orders
                      /\ \A o \in settled : o \in Orders /\ charges[o] = 1
<1>1. Promised!PaymentInit => Kept
  BY DEF Promised!PaymentInit, Promised!PaymentKept
<1>2. ASSUME Kept, [Promised!PaymentNext]_Promised!payment PROVE Kept'
  <2>1. CASE UNCHANGED Promised!payment
    BY <1>2, <2>1 DEF Promised!payment, Promised!PaymentKept
  <2>2. ASSUME NEW o \in Orders, Promised!Ask(o) PROVE Kept'
    BY <1>2, <2>2 DEF Promised!Ask, Promised!PaymentKept
  <2>3. ASSUME NEW o \in Orders, Promised!GiveUp(o) PROVE Kept'
    BY <1>2, <2>3 DEF Promised!GiveUp, Promised!PaymentKept
  <2>4. ASSUME NEW o \in Orders, Promised!Charge(o) PROVE Kept'
    BY <1>2, <2>4 DEF Promised!Charge, Promised!PaymentKept
  <2>5. ASSUME NEW o \in Orders, Promised!TellPaid(o) PROVE Kept'
    BY <1>2, <2>5 DEF Promised!TellPaid, Promised!PaymentKept
  <2>6. ASSUME NEW o \in Orders, Promised!TellRefused(o) PROVE Kept'
    BY <1>2, <2>6 DEF Promised!TellRefused, Promised!PaymentKept
  <2> QED BY <1>2, <2>1, <2>2, <2>3, <2>4, <2>5, <2>6 DEF Promised!PaymentNext
<1>3. Kept /\ [Promised!PaymentNext]_Promised!payment => Kept'
  BY <1>2
<1>4. Kept => Promised!PaymentKept
  OBVIOUS
<1> QED BY <1>1, <1>3, <1>4, PTL DEF ImplementsPayment, Promised!PaymentSpec
=============================================================================
