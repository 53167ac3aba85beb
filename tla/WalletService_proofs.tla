------------------------ MODULE WalletService_proofs ------------------------
(***************************************************************************)
(* Proofs about the wallet service, for every set of wallets, spellings,   *)
(* keys, calls and requests and for every set of faults.                   *)
(***************************************************************************)
EXTENDS WalletCorrectness, TLAPS

-----------------------------------------------------------------------------
(* Types.  A transaction's draft becomes the balance and a reply's body the *)
(* cached balance, so the type invariant needs to know at which stages they *)
(* are there, and that only a draft that passed the constraints commits.    *)

Received(c) == pc[c] # "idle" => req[c] \in Requests
InService(c) ==
  pc[c] \in Stages \ ({"idle"} \cup Ended) => WellFormed(req[c])
Writing(c) ==
  pc[c] \in {"acquire", "check", "select", "recheck"} \cup InTransaction
    => req[c].op \in MovementTypes
Keyed(c)   == pc[c] \in {"check", "record"} => req[c].key \in Keys
Drafted(c) ==
  /\ pc[c] \in InTransaction => draft[c] \in Draft
  /\ pc[c] \in {"record", "commit"} => draft[c] \in Transaction
Answered(c) == pc[c] \in {"release", "refresh"} =>
                 reply[c] \in Reply /\ reply[c].body \in Body

CallOK(c) == /\ Received(c) /\ InService(c) /\ Writing(c)
             /\ Keyed(c) /\ Drafted(c) /\ Answered(c)

TypeInv == TypeOK /\ \A c \in Calls : CallOK(c)

LEMMA InitTyped == Init => TypeInv
  BY DEF Init, TypeInv, TypeOK, TablesInit, LockInit, CacheInit, TablesTypeOK,
     LockTypeOK, CacheTypeOK, CallOK, Received, InService, Writing, Keyed,
     Drafted, Answered, Stages, Ended, InTransaction

\* What a call knows about itself survives the steps that leave it alone.
LEMMA CallFrame ==
  ASSUME NEW d \in Calls, CallOK(d), pc'[d] = pc[d], req'[d] = req[d],
         draft'[d] = draft[d], reply'[d] = reply[d]
  PROVE  CallOK(d)'
  BY DEF CallOK, Received, InService, Writing, Keyed, Drafted, Answered,
     WellFormed

LEMMA NoneIsNoCode == None \notin Codes
  BY NoneAssumption DEF Values

\* The two ways a step writes down where it goes and what it answers.
LEMMA GotoTyped ==
  ASSUME TypeOK, NEW c \in Calls, NEW stage \in Stages, Goto(c, stage)
  PROVE  /\ pc' \in [Calls -> Stages] /\ pc'[c] = stage
         /\ \A d \in Calls \ {c} : pc'[d] = pc[d]
  BY DEF TypeOK, Goto

LEMMA ComposeTyped ==
  ASSUME TypeOK, NEW c \in Calls, NEW code \in Codes,
         NEW body \in Body \cup {None}, Compose(c, code, body)
  PROVE  /\ reply' \in [Calls -> Reply \cup {None}]
         /\ reply'[c] = [code |-> code, body |-> body]
         /\ reply'[c] \in Reply
         /\ \A d \in Calls \ {c} : reply'[d] = reply[d]
<1>1. [code |-> code, body |-> body] \in Reply
  BY DEF Reply
<1> QED BY <1>1 DEF TypeOK, Compose

LEMMA RaiseTyped ==
  ASSUME TypeOK, NEW c \in Calls, NEW code \in Codes, Raise(c, code)
  PROVE  /\ reply' \in [Calls -> Reply \cup {None}]
         /\ reply'[c] = [code |-> code, body |-> None]
         /\ \A d \in Calls \ {c} : reply'[d] = reply[d]
  BY ComposeTyped DEF Raise

LEMMA EndTransactionTyped ==
  ASSUME TypeOK, NEW c \in Calls, EndTransaction(c)
  PROVE  /\ rowLock' \in [Wallets -> Calls \cup {None}]
         /\ draft' \in [Calls -> Draft \cup {None}]
         /\ \A d \in Calls \ {c} : draft'[d] = draft[d]
         /\ \A w \in Wallets : rowLock'[w] # c
         /\ \A w \in Wallets : rowLock[w] # c => rowLock'[w] = rowLock[w]
<1>1. None \notin Calls
  BY NoneAssumption DEF Values
<1> QED BY <1>1 DEF TypeOK, EndTransaction

LEMMA CreateWalletTyped ==
  ASSUME TypeInv, NEW w \in Wallets, NEW v \in Openings, CreateWallet(w, v)
  PROVE  TypeInv'
<1>1. v \in Paise /\ w \in Names
  BY PaiseAssumption, NamesAssumption
<1>2. TypeOK'
  BY <1>1 DEF TypeInv, TypeOK, TablesTypeOK, LockTypeOK, CacheTypeOK,
     CreateWallet, SetCached, calls
<1>3. \A d \in Calls : CallOK(d)'
  BY CallFrame DEF TypeInv, CreateWallet, calls
<1> QED BY <1>2, <1>3 DEF TypeInv

LEMMA ReceiveTyped ==
  ASSUME TypeInv, NEW c \in Calls, Receive(c)
  PROVE  TypeInv'
<1> USE DEF TypeInv
<1>1. PICK r \in Requests :
        /\ pc[c] = "idle" /\ Nameable(r)
        /\ req' = [req EXCEPT ![c] = r]
        /\ IF WellFormed(r)
           THEN /\ Goto(c, IF r.op = READ THEN "lookup" ELSE "acquire")
                /\ UNCHANGED reply
           ELSE Goto(c, "done") /\ Raise(c, "invalid_request")
        /\ UNCHANGED <<tables, lock, cache, rowLock, draft>>
  BY DEF Receive
<1>2. TypeOK'
  <2>1. CASE WellFormed(r)
    BY <1>1, <2>1 DEF TypeOK, TablesTypeOK, LockTypeOK, CacheTypeOK, tables,
       Goto, Stages, Ended
  <2>2. CASE ~WellFormed(r)
    <3>1. pc' \in [Calls -> Stages] /\ reply' \in [Calls -> Reply \cup {None}]
      BY <1>1, <2>2, GotoTyped, RaiseTyped DEF Codes, Stages, Ended
    <3> QED BY <1>1, <3>1 DEF TypeOK, TablesTypeOK, LockTypeOK, CacheTypeOK,
          tables
  <2> QED BY <2>1, <2>2
<1>3. ASSUME NEW d \in Calls PROVE CallOK(d)'
  <2>1. CASE d # c
    BY <2>1, <1>1, CallFrame DEF TypeOK, Goto, Raise, Compose
  <2>2. CASE d = c
    <3>1. r.op \in MovementTypes \cup {READ}
      BY RequestsAssumption DEF RequestSpace
    <3>2. req'[c] = r /\ pc'[c] \in {"done", "lookup", "acquire"}
      BY <1>1 DEF TypeOK, Goto
    <3>3. pc'[c] # "done" => WellFormed(r)
      BY <1>1 DEF TypeOK, Goto
    <3>4. pc'[c] = "acquire" => r.op # READ
      BY <1>1 DEF TypeOK, Goto
    <3> QED BY <2>2, <3>1, <3>2, <3>3, <3>4 DEF CallOK, Received, InService,
          Writing, Keyed, Drafted, Answered, WellFormed, Ended, InTransaction
  <2> QED BY <2>1, <2>2
<1> QED BY <1>2, <1>3

LEMMA AcquireLockTyped ==
  ASSUME TypeInv, NEW c \in Calls, AcquireLock(c)
  PROVE  TypeInv'
<1> USE DEF TypeInv
<1>1. req[c] \in Requests /\ req[c] \in RequestSpace /\ CallOK(c)
  BY RequestsAssumption DEF CallOK, Received, AcquireLock
<1>2. Name(c) \in Names /\ (req[c].key # None => req[c].key \in Keys)
  BY <1>1 DEF RequestSpace, Name
<1>3. /\ pc' \in [Calls -> Stages]
      /\ pc'[c] = IF req[c].key = None THEN "select" ELSE "check"
      /\ \A d \in Calls \ {c} : pc'[d] = pc[d]
  BY GotoTyped DEF AcquireLock, Stages
<1>4. TypeOK'
  BY <1>2, <1>3 DEF AcquireLock, TypeOK, TablesTypeOK, LockTypeOK,
     CacheTypeOK, tables, TakeLock
<1>5. ASSUME NEW d \in Calls PROVE CallOK(d)'
  <2>1. CASE d # c
    BY <2>1, <1>3, CallFrame DEF AcquireLock
  <2>2. CASE d = c
    BY <2>2, <1>1, <1>2, <1>3 DEF AcquireLock, CallOK, Received, InService,
       Writing, Keyed, Drafted, Answered, WellFormed, Stages, Ended,
       InTransaction
  <2> QED BY <2>1, <2>2
<1> QED BY <1>4, <1>5

\* A call that only composes its answer, or only moves on, keeps its word.
LEMMA MovesOn ==
  ASSUME NEW c \in Calls, CallOK(c), req'[c] = req[c],
         pc'[c] \in {"select", "release", "leave", "refresh", "load", "done",
                    "crashed", "recheck"},
         pc'[c] \in {"release", "refresh"} =>
           reply'[c] \in Reply /\ reply'[c].body \in Body,
         pc[c] # "idle",
         pc'[c] \notin Ended => pc[c] \in Stages \ ({"idle"} \cup Ended),
         pc'[c] \in {"select", "recheck"} =>
           pc[c] \in {"acquire", "check"} \cup InTransaction
  PROVE  CallOK(c)'
  BY DEF CallOK, Received, InService, Writing, Keyed, Drafted, Answered,
     WellFormed, Stages, Ended, InTransaction

LEMMA LockBusyTyped ==
  ASSUME TypeInv, NEW c \in Calls, LockBusy(c)
  PROVE  TypeInv'
<1> USE DEF TypeInv
<1>1. pc' \in [Calls -> Stages] /\ pc'[c] = "done"
      /\ \A d \in Calls \ {c} : pc'[d] = pc[d]
  BY GotoTyped DEF LockBusy, Stages, Ended
<1>2. reply' \in [Calls -> Reply \cup {None}]
      /\ \A d \in Calls \ {c} : reply'[d] = reply[d]
  BY RaiseTyped DEF LockBusy, Codes
<1>3. TypeOK'
  BY <1>1, <1>2 DEF LockBusy, TypeOK, TablesTypeOK, LockTypeOK, CacheTypeOK,
     tables
<1>4. ASSUME NEW d \in Calls PROVE CallOK(d)'
  BY <1>1, <1>2, CallFrame, MovesOn DEF LockBusy, Ended
<1> QED BY <1>3, <1>4

\* What is recorded is a reply's body.
LEMMA AnswerFromRecordTyped ==
  ASSUME TypeInv, NEW c \in Calls, req[c].key \in Keys, Recorded(req[c].key),
         AnswerFromRecord(c)
  PROVE  /\ reply' \in [Calls -> Reply \cup {None}]
         /\ \A d \in Calls \ {c} : reply'[d] = reply[d]
         /\ SameRequest(req[c]) =>
              reply'[c] \in Reply /\ reply'[c].body \in Body
<1>1. TypeOK /\ processed[req[c].key] \in ProcessedRequest
  BY DEF TypeInv, TypeOK, TablesTypeOK, Recorded
<1>2. processed[req[c].key].body \in Body
  BY <1>1 DEF ProcessedRequest
<1>3. CASE SameRequest(req[c])
  <2>1. Compose(c, "replay", processed[req[c].key].body)
    BY <1>3 DEF AnswerFromRecord
  <2>2. "replay" \in Codes
    BY DEF Codes
  <2>3. /\ reply' \in [Calls -> Reply \cup {None}] /\ reply'[c] \in Reply
        /\ reply'[c] = [code |-> "replay", body |-> processed[req[c].key].body]
        /\ \A d \in Calls \ {c} : reply'[d] = reply[d]
    BY <1>1, <1>2, <2>1, <2>2, ComposeTyped
  <2> QED BY <1>2, <2>3
<1>4. CASE ~SameRequest(req[c])
  <2>1. Raise(c, "idempotency_conflict")
    BY <1>4 DEF AnswerFromRecord
  <2> QED BY <1>1, <1>4, <2>1, RaiseTyped DEF Codes, BusinessErrors
<1> QED BY <1>3, <1>4

LEMMA CheckTyped ==
  ASSUME TypeInv, NEW c \in Calls, Check(c)
  PROVE  TypeInv'
<1>1. TypeOK /\ CallOK(c) /\ req[c].key \in Keys
  BY DEF TypeInv, Check, CallOK, Keyed
<1>2. /\ pc' \in [Calls -> Stages] /\ pc'[c] \in {"leave", "select"}
      /\ \A d \in Calls \ {c} : pc'[d] = pc[d]
  BY <1>1, GotoTyped DEF Check, Stages
<1>3. /\ reply' \in [Calls -> Reply \cup {None}]
      /\ \A d \in Calls \ {c} : reply'[d] = reply[d]
  <2>1. CASE Recorded(req[c].key)
    BY <1>1, <2>1, AnswerFromRecordTyped DEF Check
  <2>2. CASE ~Recorded(req[c].key)
    BY <1>1, <2>2 DEF Check, TypeOK
  <2> QED BY <2>1, <2>2
<1>4. TypeOK'
  BY <1>1, <1>2, <1>3 DEF Check, TypeOK, TablesTypeOK, LockTypeOK,
     CacheTypeOK, tables
<1>5. ASSUME NEW d \in Calls PROVE CallOK(d)'
  BY <1>1, <1>2, <1>3, CallFrame, MovesOn DEF Check, TypeInv, Stages, Ended,
     InTransaction
<1> QED BY <1>4, <1>5 DEF TypeInv

-----------------------------------------------------------------------------
(* The rules and the movement they admit.                                   *)

LEMMA OpsDiffer ==
  /\ TOPUP # DEDUCT /\ TOPUP # REFUND /\ DEDUCT # REFUND
  /\ READ \notin MovementTypes
  BY DEF TOPUP, DEDUCT, REFUND, READ, MovementTypes

LEMMA TxTyped ==
  ASSUME TablesTypeOK, NEW t \in TxIds, TxExists(t)
  PROVE  Tx(t) \in Transaction /\ Tx(t).amount \in Int
<1>1. t[1] \in Wallets
  BY DEF TxIds
<1>2. ledger[t[1]] \in Seq(Transaction) /\ t[2] \in DOMAIN ledger[t[1]]
  BY <1>1 DEF TablesTypeOK, TxExists
<1>3. ledger[t[1]][t[2]] \in Transaction
  BY <1>2
<1> QED BY <1>3 DEF Tx, Transaction, Row

LEMMA RejectionTyped ==
  ASSUME NEW r, r.op \in MovementTypes
  PROVE  Rejection(r) \in BusinessErrors \cup {None}
  BY OpsDiffer DEF Rejection, BusinessErrors, MovementTypes

\* What a request that no rule rejects may rely on.
LEMMA NotRejected ==
  ASSUME NEW r, r.op \in MovementTypes, Rejection(r) = None
  PROVE  /\ r.op = DEDUCT => ~(balance[Canon[r.name]] < r.amount)
         /\ r.op = REFUND =>
              /\ OwnTransaction(r)
              /\ Tx(r.original).type \in REFUNDABLE_TYPES
              /\ ~RefundExists(r.original)
              /\ Tx(r.original).type # DEDUCT =>
                   ~(balance[Canon[r.name]] < Tx(r.original).amount)
<1>1. /\ None # "insufficient_balance" /\ None # "transaction_not_found"
      /\ None # "transaction_not_refundable"
      /\ None # "transaction_already_refunded"
      /\ None # "refund_would_overdraw"
  BY NoneIsNoCode DEF Codes, BusinessErrors
<1>2. CASE r.op = DEDUCT
  BY <1>1, <1>2, OpsDiffer DEF Rejection
<1>3. CASE r.op = REFUND
  BY <1>1, <1>3, OpsDiffer DEF Rejection
<1>4. CASE r.op = TOPUP
  BY <1>4, OpsDiffer
<1> QED BY <1>2, <1>3, <1>4 DEF MovementTypes

LEMMA MovementTyped ==
  ASSUME TypeOK, NEW c \in Calls, NEW r \in Requests, r.op \in MovementTypes,
         WellFormed(r), WalletExists(Canon[r.name]), Rejection(r) = None
  PROVE  Movement(c, r, Canon[r.name]) \in Draft
<1> DEFINE w == Canon[r.name]
<1>1. r \in RequestSpace /\ r.name \in Names /\ w \in Wallets
  BY RequestsAssumption, NamesAssumption DEF RequestSpace
<1>2. r.amount \in Int /\ r.note \in Notes /\ r.original \in TxIds \cup {None}
  BY <1>1 DEF RequestSpace
<1>3. balance[w] \in Int
  BY <1>1, PaiseAssumption DEF TypeOK, TablesTypeOK, WalletExists, Paise
<1>4. r.op = REFUND => Tx(r.original).amount \in Int
  <2> SUFFICES ASSUME r.op = REFUND PROVE Tx(r.original).amount \in Int
    OBVIOUS
  <2>1. r.original \in TxIds
    BY <1>2 DEF WellFormed
  <2>2. TxExists(r.original)
    BY NotRejected DEF OwnTransaction
  <2> QED BY <2>1, <2>2, TxTyped DEF TypeOK
<1>5. (IF r.op = REFUND THEN Tx(r.original).amount ELSE r.amount) \in Int
  BY <1>2, <1>4
<1> QED BY <1>2, <1>3, <1>5 DEF Movement, Draft, Row

-----------------------------------------------------------------------------
(* Types, continued: the steps of a transaction.                            *)

LEMMA SelectForUpdateTyped ==
  ASSUME TypeInv, NEW c \in Calls, SelectForUpdate(c)
  PROVE  TypeInv'
<1> DEFINE r == req[c]
           w == Wallet(c)
<1>1. /\ TypeOK /\ CallOK(c) /\ r \in Requests /\ r.op \in MovementTypes
      /\ WellFormed(r) /\ pc[c] = "select"
  BY DEF TypeInv, SelectForUpdate, CallOK, Received, Writing, InService,
     Stages, Ended
<1>2. w \in Wallets /\ w = Canon[r.name]
  BY <1>1, RequestsAssumption, NamesAssumption DEF RequestSpace, Wallet
<1>3. UNCHANGED <<tables, lock, cache, req>>
  BY DEF SelectForUpdate
<1>4. CASE pc'[c] = "leave" /\ \E code \in Codes :
             Raise(c, code) /\ Goto(c, "leave") /\ UNCHANGED <<rowLock, draft>>
  <2>1. /\ pc' \in [Calls -> Stages] /\ pc'[c] = "leave"
        /\ \A d \in Calls \ {c} : pc'[d] = pc[d]
    BY <1>1, <1>4, GotoTyped DEF Stages
  <2>2. /\ reply' \in [Calls -> Reply \cup {None}]
        /\ \A d \in Calls \ {c} : reply'[d] = reply[d]
    BY <1>1, <1>4, RaiseTyped
  <2>3. TypeOK'
    BY <1>1, <1>3, <1>4, <2>1, <2>2 DEF TypeOK, TablesTypeOK, LockTypeOK,
       CacheTypeOK, tables
  <2>4. ASSUME NEW d \in Calls PROVE CallOK(d)'
    BY <1>1, <1>3, <1>4, <2>1, <2>2, CallFrame, MovesOn DEF TypeInv, Stages,
       Ended, InTransaction
  <2> QED BY <2>3, <2>4 DEF TypeInv
<1>5. CASE /\ WalletExists(w) /\ Rejection(r) = None
           /\ rowLock' = [rowLock EXCEPT ![w] = c]
           /\ draft'   = [draft EXCEPT ![c] = Movement(c, r, w)]
           /\ Goto(c, "flush") /\ UNCHANGED reply
  <2>1. /\ pc' \in [Calls -> Stages] /\ pc'[c] = "flush"
        /\ \A d \in Calls \ {c} : pc'[d] = pc[d]
    BY <1>1, <1>5, GotoTyped DEF Stages, InTransaction
  <2>2. Movement(c, r, w) \in Draft
    BY <1>1, <1>2, <1>5, MovementTyped
  <2>3. TypeOK'
    BY <1>1, <1>2, <1>3, <1>5, <2>1, <2>2 DEF TypeOK, TablesTypeOK,
       LockTypeOK, CacheTypeOK, tables
  <2>4. ASSUME NEW d \in Calls PROVE CallOK(d)'
    <3>1. CASE d # c
      BY <1>1, <1>3, <1>5, <2>1, <3>1, CallFrame DEF TypeInv, TypeOK
    <3>2. CASE d = c
      BY <1>1, <1>3, <1>5, <2>1, <2>2, <3>2 DEF TypeOK, CallOK, Received,
         InService, Writing, Keyed, Drafted, Answered, Stages, InTransaction
    <3> QED BY <3>1, <3>2
  <2> QED BY <2>3, <2>4 DEF TypeInv
<1>6. CASE ~WalletExists(w)
  <2>1. "wallet_not_found" \in Codes
    BY DEF Codes, BusinessErrors
  <2>2. Raise(c, "wallet_not_found") /\ Goto(c, "leave")
        /\ UNCHANGED <<rowLock, draft>>
    BY <1>6 DEF SelectForUpdate
  <2>3. pc'[c] = "leave"
    BY <1>1, <2>2, GotoTyped DEF Stages
  <2> QED BY <1>4, <2>1, <2>2, <2>3
<1>7. CASE WalletExists(w) /\ Rejection(r) # None
  <2>1. Rejection(r) \in Codes
    BY <1>1, <1>7, RejectionTyped DEF Codes
  <2>2. Raise(c, Rejection(r)) /\ Goto(c, "leave")
        /\ UNCHANGED <<rowLock, draft>>
    BY <1>7 DEF SelectForUpdate
  <2>3. pc'[c] = "leave"
    BY <1>1, <2>2, GotoTyped DEF Stages
  <2> QED BY <1>4, <2>1, <2>2, <2>3
<1>8. CASE WalletExists(w) /\ Rejection(r) = None
  BY <1>5, <1>8 DEF SelectForUpdate
<1> QED BY <1>6, <1>7, <1>8

LEMMA FlushTyped ==
  ASSUME TypeInv, NEW c \in Calls, Flush(c)
  PROVE  TypeInv'
<1>1. /\ TypeOK /\ CallOK(c) /\ pc[c] = "flush" /\ req[c] \in Requests
      /\ draft[c] \in Draft
  BY DEF TypeInv, Flush, CallOK, Received, Drafted, InTransaction
<1>2. UNCHANGED <<tables, lock, cache, req>>
  BY DEF Flush
<1>3. CASE EndTransaction(c) /\ Raise(c, "internal_error") /\ Goto(c, "leave")
  <2>1. /\ pc' \in [Calls -> Stages] /\ pc'[c] = "leave"
        /\ \A d \in Calls \ {c} : pc'[d] = pc[d]
    BY <1>1, <1>3, GotoTyped DEF Stages
  <2>2. /\ reply' \in [Calls -> Reply \cup {None}]
        /\ \A d \in Calls \ {c} : reply'[d] = reply[d]
    BY <1>1, <1>3, RaiseTyped DEF Codes
  <2>3. /\ rowLock' \in [Wallets -> Calls \cup {None}]
        /\ draft' \in [Calls -> Draft \cup {None}]
        /\ \A d \in Calls \ {c} : draft'[d] = draft[d]
    BY <1>1, <1>3, EndTransactionTyped
  <2>4. TypeOK'
    BY <1>1, <1>2, <2>1, <2>2, <2>3 DEF TypeOK, TablesTypeOK, LockTypeOK,
       CacheTypeOK, tables
  <2>5. ASSUME NEW d \in Calls PROVE CallOK(d)'
    BY <1>1, <1>2, <2>1, <2>2, <2>3, CallFrame, MovesOn DEF TypeInv, Stages,
       Ended, InTransaction
  <2> QED BY <2>4, <2>5 DEF TypeInv
<1>4. CASE EndTransaction(c) /\ Goto(c, "recheck") /\ UNCHANGED reply
  <2>1. /\ pc' \in [Calls -> Stages] /\ pc'[c] = "recheck"
        /\ \A d \in Calls \ {c} : pc'[d] = pc[d]
    BY <1>1, <1>4, GotoTyped DEF Stages
  <2>2. /\ rowLock' \in [Wallets -> Calls \cup {None}]
        /\ draft' \in [Calls -> Draft \cup {None}]
        /\ \A d \in Calls \ {c} : draft'[d] = draft[d]
    BY <1>1, <1>4, EndTransactionTyped
  <2>3. TypeOK'
    BY <1>1, <1>2, <1>4, <2>1, <2>2 DEF TypeOK, TablesTypeOK, LockTypeOK,
       CacheTypeOK, tables
  <2>4. ASSUME NEW d \in Calls PROVE CallOK(d)'
    BY <1>1, <1>2, <1>4, <2>1, <2>2, CallFrame, MovesOn DEF TypeInv, Stages,
       Ended, InTransaction
  <2> QED BY <2>3, <2>4 DEF TypeInv
<1>5. CASE /\ FitsBigint(draft[c]) /\ ConstraintsHold(draft[c])
           /\ Goto(c, IF req[c].key = None THEN "commit" ELSE "record")
           /\ UNCHANGED <<rowLock, draft, reply>>
  <2>1. /\ pc' \in [Calls -> Stages]
        /\ pc'[c] = IF req[c].key = None THEN "commit" ELSE "record"
        /\ \A d \in Calls \ {c} : pc'[d] = pc[d]
    BY <1>1, <1>5, GotoTyped DEF Stages, InTransaction
  <2>2. draft[c].balance_after \in Int
    BY <1>1 DEF Draft, Row
  <2>3. draft[c].balance_after \in Paise
    BY <1>5, <2>2, PaiseAssumption DEF Paise, FitsBigint, ConstraintsHold
  <2>4. draft[c] \in Transaction
    BY <1>1, <2>3 DEF Draft, Transaction, Row
  <2>5. req[c].key # None => req[c].key \in Keys
    BY <1>1, RequestsAssumption DEF RequestSpace
  <2>6. TypeOK'
    BY <1>1, <1>2, <1>5, <2>1 DEF TypeOK, TablesTypeOK, LockTypeOK,
       CacheTypeOK, tables
  <2>7. ASSUME NEW d \in Calls PROVE CallOK(d)'
    <3>1. CASE d # c
      BY <1>2, <1>5, <2>1, <3>1, CallFrame DEF TypeInv
    <3>2. CASE d = c
      BY <1>1, <1>2, <1>5, <2>1, <2>4, <2>5, <3>2 DEF CallOK, Received,
         InService, Writing, Keyed, Drafted, Answered, WellFormed, Stages,
         Ended, InTransaction
    <3> QED BY <3>1, <3>2
  <2> QED BY <2>6, <2>7 DEF TypeInv
<1>6. \/ EndTransaction(c) /\ Raise(c, "internal_error") /\ Goto(c, "leave")
      \/ EndTransaction(c) /\ Goto(c, "recheck") /\ UNCHANGED reply
      \/ /\ FitsBigint(draft[c]) /\ ConstraintsHold(draft[c])
         /\ Goto(c, IF req[c].key = None THEN "commit" ELSE "record")
         /\ UNCHANGED <<rowLock, draft, reply>>
  <2>1. CASE ~FitsBigint(draft[c])
    BY <2>1 DEF Flush
  <2>2. CASE FitsBigint(draft[c]) /\ ~ConstraintsHold(draft[c])
    BY <2>2 DEF Flush
  <2>3. CASE FitsBigint(draft[c]) /\ ConstraintsHold(draft[c])
    BY <2>3 DEF Flush
  <2> QED BY <2>1, <2>2, <2>3
<1> QED BY <1>3, <1>4, <1>5, <1>6

LEMMA RecordKeyTyped ==
  ASSUME TypeInv, NEW c \in Calls, RecordKey(c)
  PROVE  TypeInv'
<1>1. /\ TypeOK /\ CallOK(c) /\ pc[c] = "record"
      /\ UNCHANGED <<tables, lock, cache, req, reply>>
  BY DEF TypeInv, RecordKey
<1>2. /\ pc' \in [Calls -> Stages] /\ pc'[c] \in {"recheck", "commit"}
      /\ \A d \in Calls \ {c} : pc'[d] = pc[d]
  BY <1>1, GotoTyped DEF RecordKey, Stages, InTransaction
<1>3. CASE EndTransaction(c) /\ Goto(c, "recheck")
  <2>1. pc'[c] = "recheck"
    BY <1>1, <1>3, GotoTyped DEF Stages
  <2>2. /\ rowLock' \in [Wallets -> Calls \cup {None}]
        /\ draft' \in [Calls -> Draft \cup {None}]
        /\ \A d \in Calls \ {c} : draft'[d] = draft[d]
    BY <1>1, <1>3, EndTransactionTyped
  <2>3. TypeOK'
    BY <1>1, <1>2, <2>2 DEF TypeOK, TablesTypeOK, LockTypeOK, CacheTypeOK,
       tables
  <2>4. ASSUME NEW d \in Calls PROVE CallOK(d)'
    BY <1>1, <1>2, <2>1, <2>2, CallFrame, MovesOn DEF TypeInv, Stages, Ended,
       InTransaction
  <2> QED BY <2>3, <2>4 DEF TypeInv
<1>4. CASE Goto(c, "commit") /\ UNCHANGED <<rowLock, draft>>
  <2>1. pc'[c] = "commit"
    BY <1>1, <1>4, GotoTyped DEF Stages, InTransaction
  <2>2. TypeOK'
    BY <1>1, <1>2, <1>4 DEF TypeOK, TablesTypeOK, LockTypeOK, CacheTypeOK,
       tables
  <2>3. ASSUME NEW d \in Calls PROVE CallOK(d)'
    <3>1. CASE d # c
      BY <1>1, <1>2, <1>4, <3>1, CallFrame DEF TypeInv
    <3>2. CASE d = c
      BY <1>1, <1>4, <2>1, <3>2 DEF CallOK, Received, InService, Writing,
         Keyed, Drafted, Answered, WellFormed, Stages, Ended, InTransaction
    <3> QED BY <3>1, <3>2
  <2> QED BY <2>2, <2>3 DEF TypeInv
<1> QED BY <1>3, <1>4 DEF RecordKey

LEMMA ApplyDraftTyped ==
  ASSUME TypeInv, NEW c \in Calls, pc[c] = "commit", ApplyDraft(c)
  PROVE  /\ TablesTypeOK' /\ CreatedBody(c) \in Body
         /\ rowLock' \in [Wallets -> Calls \cup {None}]
         /\ draft' \in [Calls -> Draft \cup {None}]
         /\ \A d \in Calls \ {c} : draft'[d] = draft[d]
<1> DEFINE w == Wallet(c)
           k == req[c].key
<1>1. /\ TypeOK /\ TablesTypeOK /\ draft[c] \in Transaction
      /\ req[c] \in Requests
  BY DEF TypeInv, TypeOK, CallOK, Received, Drafted
<1>2. w \in Wallets /\ k \in Keys \cup {None}
  BY <1>1, RequestsAssumption, NamesAssumption DEF RequestSpace, Wallet
<1>3. draft[c].balance_after \in Paise
  BY <1>1 DEF Transaction, Row
<1>4. CreatedBody(c) \in Body
  <2>1. ledger[w] \in Seq(Transaction)
    BY <1>1, <1>2 DEF TablesTypeOK
  <2>2. Len(ledger[w]) + 1 \in Nat
    BY <2>1
  <2> QED BY <1>2, <1>3, <2>2 DEF CreatedBody, Body, TxIds
<1>5. balance' \in [Wallets -> Paise \cup {None}]
  BY <1>1, <1>3 DEF ApplyDraft, TablesTypeOK
<1>6. ledger' \in [Wallets -> Seq(Transaction)]
  <2>1. Append(ledger[w], draft[c]) \in Seq(Transaction)
    BY <1>1, <1>2 DEF TablesTypeOK
  <2> QED BY <1>1, <2>1 DEF ApplyDraft, TablesTypeOK
<1>7. processed' \in [Keys -> ProcessedRequest \cup {None}]
  <2> DEFINE rec == [wallet |-> w, fingerprint |-> Fingerprint(req[c]),
                     body |-> CreatedBody(c)]
  <2>1. rec \in ProcessedRequest
    BY <1>1, <1>2, <1>4 DEF ProcessedRequest
  <2>2. processed' = IF k = None THEN processed
                     ELSE [processed EXCEPT ![k] = rec]
    BY DEF ApplyDraft
  <2> HIDE DEF rec
  <2> QED BY <1>1, <2>1, <2>2 DEF TablesTypeOK
<1>8. opened' = opened /\ EndTransaction(c)
  BY DEF ApplyDraft
<1>9. TablesTypeOK'
  BY <1>1, <1>5, <1>6, <1>7, <1>8 DEF TablesTypeOK
<1> QED BY <1>1, <1>4, <1>8, <1>9, EndTransactionTyped

LEMMA CommitTyped ==
  ASSUME TypeInv, NEW c \in Calls, Commit(c)
  PROVE  TypeInv'
<1>1. /\ TypeOK /\ CallOK(c) /\ pc[c] = "commit" /\ ApplyDraft(c)
      /\ UNCHANGED <<lock, cache, req>>
  BY DEF TypeInv, Commit
<1>2. /\ pc' \in [Calls -> Stages] /\ pc'[c] = "release"
      /\ \A d \in Calls \ {c} : pc'[d] = pc[d]
  BY <1>1, GotoTyped DEF Commit, Stages
<1>3. /\ reply' \in [Calls -> Reply \cup {None}] /\ reply'[c] \in Reply
      /\ reply'[c] = [code |-> "created", body |-> CreatedBody(c)]
      /\ \A d \in Calls \ {c} : reply'[d] = reply[d]
  <2>1. "created" \in Codes /\ CreatedBody(c) \in Body
    BY <1>1, ApplyDraftTyped DEF Codes
  <2> QED BY <1>1, <2>1, ComposeTyped DEF Commit
<1>4. reply'[c].body \in Body
  BY <1>1, <1>3, ApplyDraftTyped
<1>5. TypeOK'
  BY <1>1, <1>2, <1>3, ApplyDraftTyped DEF TypeOK, LockTypeOK, CacheTypeOK
<1>6. ASSUME NEW d \in Calls PROVE CallOK(d)'
  <2>1. CASE d # c
    <3>1. draft'[d] = draft[d]
      BY <1>1, <2>1, ApplyDraftTyped
    <3> QED BY <1>1, <1>2, <1>3, <2>1, <3>1, CallFrame DEF TypeInv
  <2>2. CASE d = c
    BY <1>1, <1>2, <1>3, <1>4, <2>2, MovesOn DEF Stages, Ended, InTransaction
  <2> QED BY <2>1, <2>2
<1> QED BY <1>5, <1>6 DEF TypeInv

LEMMA CommitUnacknowledgedTyped ==
  ASSUME TypeInv, NEW c \in Calls, CommitUnacknowledged(c)
  PROVE  TypeInv'
<1>1. /\ TypeOK /\ CallOK(c) /\ pc[c] = "commit" /\ ApplyDraft(c)
      /\ UNCHANGED <<lock, cache, req>>
  BY DEF TypeInv, CommitUnacknowledged
<1>2. /\ pc' \in [Calls -> Stages] /\ pc'[c] = "leave"
      /\ \A d \in Calls \ {c} : pc'[d] = pc[d]
  BY <1>1, GotoTyped DEF CommitUnacknowledged, Stages
<1>3. /\ reply' \in [Calls -> Reply \cup {None}]
      /\ \A d \in Calls \ {c} : reply'[d] = reply[d]
  BY <1>1, RaiseTyped DEF CommitUnacknowledged, Codes
<1>4. TypeOK'
  BY <1>1, <1>2, <1>3, ApplyDraftTyped DEF TypeOK, LockTypeOK, CacheTypeOK
<1>5. ASSUME NEW d \in Calls PROVE CallOK(d)'
  <2>1. CASE d # c
    <3>1. draft'[d] = draft[d]
      BY <1>1, <2>1, ApplyDraftTyped
    <3> QED BY <1>1, <1>2, <1>3, <2>1, <3>1, CallFrame DEF TypeInv
  <2>2. CASE d = c
    BY <1>1, <1>2, <2>2, MovesOn DEF Stages, Ended, InTransaction
  <2> QED BY <2>1, <2>2
<1> QED BY <1>4, <1>5 DEF TypeInv

LEMMA RecheckTyped ==
  ASSUME TypeInv, NEW c \in Calls, Recheck(c)
  PROVE  TypeInv'
<1>1. /\ TypeOK /\ CallOK(c) /\ pc[c] = "recheck" /\ req[c] \in Requests
      /\ UNCHANGED <<tables, lock, cache, rowLock, req, draft>>
  BY DEF TypeInv, Recheck, CallOK, Received
<1>2. req[c].key # None => req[c].key \in Keys
  BY <1>1, RequestsAssumption DEF RequestSpace
<1>3. /\ pc' \in [Calls -> Stages] /\ pc'[c] \in {"release", "leave"}
      /\ \A d \in Calls \ {c} : pc'[d] = pc[d]
  BY <1>1, GotoTyped DEF Recheck, Stages
<1>4. /\ reply' \in [Calls -> Reply \cup {None}]
      /\ \A d \in Calls \ {c} : reply'[d] = reply[d]
      /\ pc'[c] = "release" => reply'[c] \in Reply /\ reply'[c].body \in Body
  <2>1. CASE req[c].key # None /\ Recorded(req[c].key)
    <3>1. AnswerFromRecord(c)
          /\ Goto(c, IF SameRequest(req[c]) THEN "release" ELSE "leave")
      BY <2>1 DEF Recheck
    <3>2. pc'[c] = "release" => SameRequest(req[c])
      BY <1>1, <3>1, GotoTyped DEF Stages
    <3> QED BY <1>2, <2>1, <3>1, <3>2, AnswerFromRecordTyped
  <2>2. CASE ~(req[c].key # None /\ Recorded(req[c].key))
    <3>1. /\ Goto(c, "leave")
          /\ \/ Raise(c, "transaction_already_refunded")
             \/ Raise(c, "internal_error")
      BY <2>2 DEF Recheck
    <3>2. pc'[c] = "leave"
      BY <1>1, <3>1, GotoTyped DEF Stages
    <3> QED BY <1>1, <3>1, <3>2, RaiseTyped DEF Codes, BusinessErrors
  <2> QED BY <2>1, <2>2
<1>5. TypeOK'
  BY <1>1, <1>3, <1>4 DEF TypeOK, TablesTypeOK, LockTypeOK, CacheTypeOK, tables
<1>6. ASSUME NEW d \in Calls PROVE CallOK(d)'
  BY <1>1, <1>3, <1>4, CallFrame, MovesOn DEF TypeInv, Stages, Ended,
     InTransaction
<1> QED BY <1>5, <1>6 DEF TypeInv

-----------------------------------------------------------------------------
(* Types, continued: Redis, reads, time and faults.                         *)

LEMMA NameTyped ==
  ASSUME TypeInv, NEW c \in Calls, pc[c] # "idle"
  PROVE  Name(c) \in Names /\ Wallet(c) \in Wallets
  BY RequestsAssumption, NamesAssumption
     DEF TypeInv, CallOK, Received, RequestSpace, Name, Wallet

\* The steps of Redis keep its types.
LEMMA RedisTyped ==
  ASSUME LockTypeOK, CacheTypeOK
  PROVE  /\ \A n \in Names, c \in Calls :
              (TakeLock(n, c) \/ DropLock(n, c)) => LockTypeOK'
         /\ \A n \in Names : ExpireLock(n) => LockTypeOK'
         /\ \A n \in Names, v \in Paise : SetCached(n, v) => CacheTypeOK'
         /\ \A n \in Names : ExpireCached(n) => CacheTypeOK'
  BY DEF LockTypeOK, CacheTypeOK, TakeLock, DropLock, ExpireLock, SetCached,
     ExpireCached

\* A step of call c that leaves the tables alone and sends c on to a stage that
\* needs nothing but what the step provides.
LEMMA StepTyped ==
  ASSUME TypeInv, NEW c \in Calls, pc[c] \notin {"idle"} \cup Ended,
         NEW stage \in {"release", "leave", "refresh", "load", "done", "crashed"},
         Goto(c, stage), UNCHANGED tables, req' = req,
         LockTypeOK', CacheTypeOK',
         rowLock' \in [Wallets -> Calls \cup {None}],
         draft' \in [Calls -> Draft \cup {None}],
         \A d \in Calls \ {c} : draft'[d] = draft[d],
         reply' \in [Calls -> Reply \cup {None}],
         \A d \in Calls \ {c} : reply'[d] = reply[d],
         stage \in {"release", "refresh"} =>
           reply'[c] \in Reply /\ reply'[c].body \in Body
  PROVE  TypeInv'
<1>1. TypeOK /\ CallOK(c) /\ stage \in Stages
  BY DEF TypeInv, Stages, Ended
<1>2. /\ pc' \in [Calls -> Stages] /\ pc'[c] = stage
      /\ \A d \in Calls \ {c} : pc'[d] = pc[d]
  BY <1>1, GotoTyped
<1>3. pc[c] \in Stages
  BY <1>1 DEF TypeOK
<1>4. TypeOK'
  BY <1>1, <1>2 DEF TypeOK, TablesTypeOK, tables
<1>5. ASSUME NEW d \in Calls PROVE CallOK(d)'
  <2>1. CASE d # c
    BY <1>2, <2>1, CallFrame DEF TypeInv
  <2>2. CASE d = c
    BY <1>1, <1>2, <1>3, <2>2, MovesOn
  <2> QED BY <2>1, <2>2
<1> QED BY <1>4, <1>5 DEF TypeInv

LEMMA ReleaseTyped ==
  ASSUME TypeInv, NEW c \in Calls, Release(c)
  PROVE  TypeInv'
<1>1. /\ pc[c] = "release" /\ Goto(c, "refresh") /\ DropLock(Name(c), c)
      /\ UNCHANGED <<tables, cache, rowLock, req, draft, reply>>
  BY DEF Release
<1>2. reply[c] \in Reply /\ reply[c].body \in Body
  BY <1>1 DEF TypeInv, CallOK, Answered
<1>3. TypeOK /\ LockTypeOK /\ CacheTypeOK /\ Name(c) \in Names
  BY <1>1, NameTyped DEF TypeInv, TypeOK
<1>4. LockTypeOK' /\ CacheTypeOK'
  BY <1>1, <1>3, RedisTyped DEF CacheTypeOK
<1> QED BY <1>1, <1>2, <1>3, <1>4, StepTyped DEF TypeOK, Ended

LEMMA LeaveTyped ==
  ASSUME TypeInv, NEW c \in Calls, Leave(c)
  PROVE  TypeInv'
<1>1. /\ pc[c] = "leave" /\ Goto(c, "done") /\ DropLock(Name(c), c)
      /\ UNCHANGED <<tables, cache, rowLock, req, draft, reply>>
  BY DEF Leave
<1>2. TypeOK /\ LockTypeOK /\ CacheTypeOK /\ Name(c) \in Names
  BY <1>1, NameTyped DEF TypeInv, TypeOK
<1>3. LockTypeOK' /\ CacheTypeOK'
  BY <1>1, <1>2, RedisTyped DEF CacheTypeOK
<1> QED BY <1>1, <1>2, <1>3, StepTyped DEF TypeOK, Ended

LEMMA RefreshTyped ==
  ASSUME TypeInv, NEW c \in Calls, Refresh(c)
  PROVE  TypeInv'
<1>1. /\ pc[c] = "refresh" /\ Goto(c, "done")
      /\ SetCached(Name(c), reply[c].body.balance_after)
      /\ UNCHANGED <<tables, lock, rowLock, req, draft, reply>>
  BY DEF Refresh
<1>2. reply[c].body.balance_after \in Paise
  BY <1>1 DEF TypeInv, CallOK, Answered, Body
<1>3. TypeOK /\ LockTypeOK /\ CacheTypeOK /\ Name(c) \in Names
  BY <1>1, NameTyped DEF TypeInv, TypeOK
<1>4. LockTypeOK' /\ CacheTypeOK'
  BY <1>1, <1>2, <1>3, RedisTyped DEF LockTypeOK
<1> QED BY <1>1, <1>3, <1>4, StepTyped DEF TypeOK, Ended

LEMMA BalanceBodyTyped ==
  ASSUME NEW v \in Paise PROVE BalanceBody(v) \in Body
  BY DEF BalanceBody, Body

LEMMA LookupCacheTyped ==
  ASSUME TypeInv, NEW c \in Calls, LookupCache(c)
  PROVE  TypeInv'
<1>1. /\ pc[c] = "lookup" /\ UNCHANGED <<tables, lock, cache, rowLock, req, draft>>
  BY DEF LookupCache
<1>2. TypeOK /\ LockTypeOK /\ CacheTypeOK /\ Name(c) \in Names
  BY <1>1, NameTyped DEF TypeInv, TypeOK
<1>3. LockTypeOK' /\ CacheTypeOK'
  BY <1>1, <1>2 DEF LockTypeOK, CacheTypeOK
<1>4. CASE CacheHit(Name(c))
  <2>1. cache[Name(c)] \in Paise
    BY <1>2, <1>4 DEF CacheTypeOK, CacheHit
  <2>2. /\ Compose(c, "ok", BalanceBody(cache[Name(c)])) /\ Goto(c, "done")
    BY <1>4 DEF LookupCache
  <2>3. "ok" \in Codes /\ BalanceBody(cache[Name(c)]) \in Body
    BY <2>1, BalanceBodyTyped DEF Codes
  <2>4. /\ reply' \in [Calls -> Reply \cup {None}]
        /\ \A d \in Calls \ {c} : reply'[d] = reply[d]
    BY <1>2, <2>2, <2>3, ComposeTyped
  <2> QED BY <1>1, <1>2, <1>3, <2>2, <2>4, StepTyped DEF TypeOK, Ended
<1>5. CASE ~CacheHit(Name(c))
  <2>1. Goto(c, "load") /\ UNCHANGED reply
    BY <1>5 DEF LookupCache
  <2> QED BY <1>1, <1>2, <1>3, <2>1, StepTyped DEF TypeOK, Ended
<1> QED BY <1>4, <1>5

LEMMA LoadBalanceTyped ==
  ASSUME TypeInv, NEW c \in Calls, LoadBalance(c)
  PROVE  TypeInv'
<1>1. /\ pc[c] = "load" /\ UNCHANGED <<tables, lock, cache, rowLock, req, draft>>
  BY DEF LoadBalance
<1>2. TypeOK /\ LockTypeOK /\ CacheTypeOK /\ Wallet(c) \in Wallets
  BY <1>1, NameTyped DEF TypeInv, TypeOK
<1>3. LockTypeOK' /\ CacheTypeOK'
  BY <1>1, <1>2 DEF LockTypeOK, CacheTypeOK
<1>4. CASE WalletExists(Wallet(c))
  <2> DEFINE body == BalanceBody(StoredBalance(Wallet(c)))
  <2>1. StoredBalance(Wallet(c)) \in Paise
    BY <1>2, <1>4 DEF TypeOK, TablesTypeOK, WalletExists, StoredBalance
  <2>2. Compose(c, "ok", body) /\ Goto(c, "refresh")
    BY <1>4 DEF LoadBalance
  <2>3. "ok" \in Codes /\ body \in Body
    BY <2>1, BalanceBodyTyped DEF Codes
  <2> HIDE DEF body
  <2>4. /\ reply' \in [Calls -> Reply \cup {None}] /\ reply'[c] \in Reply
        /\ reply'[c] = [code |-> "ok", body |-> body]
        /\ \A d \in Calls \ {c} : reply'[d] = reply[d]
    BY <1>2, <2>2, <2>3, ComposeTyped
  <2>5. reply'[c].body \in Body
    BY <2>3, <2>4
  <2> QED BY <1>1, <1>2, <1>3, <2>2, <2>4, <2>5, StepTyped DEF TypeOK, Ended
<1>5. CASE ~WalletExists(Wallet(c))
  <2>1. Raise(c, "wallet_not_found") /\ Goto(c, "done")
    BY <1>5 DEF LoadBalance
  <2>2. /\ reply' \in [Calls -> Reply \cup {None}]
        /\ \A d \in Calls \ {c} : reply'[d] = reply[d]
    BY <1>2, <2>1, RaiseTyped DEF Codes, BusinessErrors
  <2> QED BY <1>1, <1>2, <1>3, <2>1, <2>2, StepTyped DEF TypeOK, Ended
<1> QED BY <1>4, <1>5

LEMMA CrashTyped ==
  ASSUME TypeInv, NEW c \in Calls, Crash(c)
  PROVE  TypeInv'
<1>1. /\ pc[c] \notin {"idle"} \cup Ended /\ Goto(c, "crashed")
      /\ EndTransaction(c) /\ reply' = [reply EXCEPT ![c] = None]
      /\ UNCHANGED <<tables, lock, cache, req>>
  BY DEF Crash
<1>2. TypeOK /\ LockTypeOK' /\ CacheTypeOK'
  BY <1>1 DEF TypeInv, TypeOK, LockTypeOK, CacheTypeOK
<1>3. /\ reply' \in [Calls -> Reply \cup {None}]
      /\ \A d \in Calls \ {c} : reply'[d] = reply[d]
  BY <1>1, <1>2 DEF TypeOK
<1> QED BY <1>1, <1>2, <1>3, EndTransactionTyped, StepTyped

LEMMA RedisFailsTyped ==
  ASSUME TypeInv, NEW c \in Calls, RedisFails(c)
  PROVE  TypeInv'
<1>1. /\ pc[c] \notin {"idle"} \cup Ended /\ Goto(c, "done")
      /\ Raise(c, "internal_error") /\ UNCHANGED <<tables, rowLock, req, draft>>
  BY DEF RedisFails, Ended
<1>2. TypeOK /\ LockTypeOK /\ CacheTypeOK /\ Name(c) \in Names
  BY <1>1, NameTyped DEF TypeInv, TypeOK
<1>3. pc[c] = "refresh" => reply[c].body.balance_after \in Paise
  BY DEF TypeInv, CallOK, Answered, Body
<1>4. LockTypeOK' /\ CacheTypeOK'
  <2>1. lock' = lock => LockTypeOK'
    BY <1>2 DEF LockTypeOK
  <2>2. cache' = cache => CacheTypeOK'
    BY <1>2 DEF CacheTypeOK
  <2> QED BY <1>2, <1>3, <2>1, <2>2, RedisTyped DEF RedisFails
<1>5. /\ reply' \in [Calls -> Reply \cup {None}]
      /\ \A d \in Calls \ {c} : reply'[d] = reply[d]
  BY <1>1, <1>2, RaiseTyped DEF Codes
<1> QED BY <1>1, <1>2, <1>4, <1>5, StepTyped DEF TypeOK

LEMMA DatabaseFailsTyped ==
  ASSUME TypeInv, NEW c \in Calls, DatabaseFails(c)
  PROVE  TypeInv'
<1>1. /\ pc[c] \notin {"idle"} \cup Ended
      /\ Goto(c, "done") \/ Goto(c, "leave")
      /\ EndTransaction(c) /\ Raise(c, "internal_error")
      /\ UNCHANGED <<tables, lock, cache, req>>
  BY DEF DatabaseFails, Ended, InTransaction
<1>2. TypeOK /\ LockTypeOK' /\ CacheTypeOK'
  BY <1>1 DEF TypeInv, TypeOK, LockTypeOK, CacheTypeOK
<1>3. /\ reply' \in [Calls -> Reply \cup {None}]
      /\ \A d \in Calls \ {c} : reply'[d] = reply[d]
  BY <1>1, <1>2, RaiseTyped DEF Codes
<1> QED BY <1>1, <1>2, <1>3, EndTransactionTyped, StepTyped

LEMMA ExpiryTyped ==
  ASSUME TypeInv, NEW n \in Names, LockExpires(n) \/ CacheExpires(n)
  PROVE  TypeInv'
<1>1. UNCHANGED <<tables, calls>>
  BY DEF LockExpires, CacheExpires
<1>2. LockTypeOK' /\ CacheTypeOK'
  <2>1. LockTypeOK /\ CacheTypeOK
    BY DEF TypeInv, TypeOK
  <2>2. (lock' = lock => LockTypeOK') /\ (cache' = cache => CacheTypeOK')
    BY <2>1 DEF LockTypeOK, CacheTypeOK
  <2> QED BY <2>1, <2>2, RedisTyped DEF LockExpires, CacheExpires
<1>3. TypeOK'
  BY <1>1, <1>2 DEF TypeInv, TypeOK, TablesTypeOK, tables, calls
<1>4. \A d \in Calls : CallOK(d)'
  BY <1>1, CallFrame DEF TypeInv, calls
<1> QED BY <1>3, <1>4 DEF TypeInv

LEMMA StutterTyped ==
  ASSUME TypeInv, UNCHANGED vars
  PROVE  TypeInv'
<1>1. \A d \in Calls : CallOK(d)'
  BY CallFrame DEF TypeInv, vars, calls
<1> QED BY <1>1 DEF TypeInv, TypeOK, TablesTypeOK, LockTypeOK, CacheTypeOK,
      vars, tables, calls

LEMMA NextTyped == TypeInv /\ [Next]_vars => TypeInv'
<1> SUFFICES ASSUME TypeInv, [Next]_vars PROVE TypeInv'
  OBVIOUS
<1>1. ASSUME NEW w \in Wallets, NEW v \in Openings, CreateWallet(w, v)
      PROVE TypeInv'
  BY <1>1, CreateWalletTyped
<1>2. ASSUME NEW c \in Calls, Receive(c) PROVE TypeInv'
  BY <1>2, ReceiveTyped
<1>3. ASSUME NEW c \in Calls, Step(c) PROVE TypeInv'
  BY <1>3, AcquireLockTyped, LockBusyTyped, CheckTyped, SelectForUpdateTyped,
     FlushTyped, RecordKeyTyped, CommitTyped, RecheckTyped, ReleaseTyped,
     LeaveTyped, RefreshTyped, LookupCacheTyped, LoadBalanceTyped DEF Step
<1>4. ASSUME NEW c \in Calls, Fault(c) PROVE TypeInv'
  BY <1>4, CrashTyped, RedisFailsTyped, DatabaseFailsTyped,
     CommitUnacknowledgedTyped DEF Fault
<1>5. ASSUME NEW n \in Names, LockExpires(n) \/ CacheExpires(n) PROVE TypeInv'
  BY <1>5, ExpiryTyped
<1>6. CASE UNCHANGED vars
  BY <1>6, StutterTyped
<1> QED BY <1>1, <1>2, <1>3, <1>4, <1>5, <1>6 DEF Next, Quiescent

LEMMA AlwaysTyped == Spec => []TypeInv
  BY InitTyped, NextTyped, PTL DEF Spec

\* Every variable keeps its type: above all no stored balance, no row's running
\* balance and no cached balance leaves 0 .. MaxPaise, whatever requests arrive
\* and whatever fails (the guards of _write, the CHECKs and the BIGINT).
THEOREM TypeCorrect == Spec => []TypeOK
  BY AlwaysTyped, PTL DEF TypeInv

-----------------------------------------------------------------------------
(* Money.  Why the tables stay in order although only the row lock is sure  *)
(* to exclude other writers: an open transaction holds its wallet's row     *)
(* lock, and while it does its draft continues the committed ledger.        *)

Locked == \A w \in Wallets, c \in Calls :
            rowLock[w] = c <=> pc[c] \in InTransaction /\ Wallet(c) = w

\* The draft of a refund reverses a committed row of the wallet that no
\* committed row reverses.
RefundsOpenRow(row, w) ==
  IF row.type = REFUND
  THEN /\ row.original \in {w} \X DOMAIN ledger[w]
       /\ Tx(row.original).type \in REFUNDABLE_TYPES
       /\ Tx(row.original).amount = row.amount
       /\ ~RefundExists(row.original)
  ELSE row.original = None

Fresh(c) ==
  pc[c] \in InTransaction =>
    /\ WalletExists(Wallet(c))
    /\ draft[c].balance_after = balance[Wallet(c)] + Delta(draft[c])
    /\ RefundsOpenRow(draft[c], Wallet(c))

MoneyInv == /\ LedgerReconciles /\ RefundsReverseOnce
            /\ Locked /\ \A c \in Calls : Fresh(c)

LEMMA InitMoney == Init => MoneyInv
<1> SUFFICES ASSUME Init PROVE MoneyInv
  OBVIOUS
<1>1. None \notin Calls
  BY NoneAssumption DEF Values
<1>2. LedgerReconciles
  BY DEF Init, TablesInit, LedgerReconciles, WalletExists
<1>3. RefundsReverseOnce
  BY DEF Init, TablesInit, RefundsReverseOnce
<1>4. Locked /\ \A c \in Calls : Fresh(c)
  BY <1>1 DEF Init, Locked, Fresh, InTransaction
<1> QED BY <1>2, <1>3, <1>4 DEF MoneyInv

\* The tables' order depends on the tables only.
LEMMA TablesFrame ==
  ASSUME UNCHANGED <<balance, opened, ledger>>
  PROVE  /\ LedgerReconciles => LedgerReconciles'
         /\ RefundsReverseOnce => RefundsReverseOnce'
<1>1. LedgerReconciles => LedgerReconciles'
  BY DEF LedgerReconciles, WalletExists, BalanceAfter, Delta, Credits, Tx
<1>2. RefundsReverseOnce => RefundsReverseOnce'
  BY DEF RefundsReverseOnce, Tx
<1> QED BY <1>1, <1>2

LEMMA FreshFrame ==
  ASSUME NEW d \in Calls, Fresh(d), UNCHANGED <<balance, ledger>>,
         pc'[d] \in InTransaction => pc[d] \in InTransaction,
         pc'[d] \in InTransaction => req'[d] = req[d] /\ draft'[d] = draft[d]
  PROVE  Fresh(d)'
<1> SUFFICES ASSUME pc'[d] \in InTransaction PROVE Fresh(d)'
  BY DEF Fresh
<1>1. pc[d] \in InTransaction /\ req'[d] = req[d] /\ draft'[d] = draft[d]
  OBVIOUS
<1>2. Wallet(d)' = Wallet(d)
  BY <1>1 DEF Wallet
<1>3. Delta(draft[d])' = Delta(draft[d])
  BY <1>1 DEF Delta, Credits, Tx
<1>4. RefundsOpenRow(draft[d], Wallet(d))
      => RefundsOpenRow(draft[d], Wallet(d))'
  BY <1>1, <1>2 DEF RefundsOpenRow, Tx, RefundExists
<1> QED BY <1>1, <1>2, <1>3, <1>4 DEF Fresh, WalletExists

\* Steps of a call outside its transaction, or from one of its stages to the
\* next.
LEMMA MoneyKept ==
  ASSUME MoneyInv, NEW c \in Calls, UNCHANGED <<balance, opened, ledger>>,
         UNCHANGED <<rowLock, draft>>,
         pc'[c] \in InTransaction <=> pc[c] \in InTransaction,
         pc[c] \in InTransaction => req'[c] = req[c],
         \A d \in Calls \ {c} : pc'[d] = pc[d] /\ req'[d] = req[d]
  PROVE  MoneyInv'
<1>1. LedgerReconciles' /\ RefundsReverseOnce'
  BY TablesFrame DEF MoneyInv
<1>2. Locked'
  BY DEF MoneyInv, Locked, Wallet
<1>3. ASSUME NEW d \in Calls PROVE Fresh(d)'
  BY <1>3, FreshFrame DEF MoneyInv
<1> QED BY <1>1, <1>2, <1>3 DEF MoneyInv

\* Rollbacks.
LEMMA MoneyRolledBack ==
  ASSUME TypeInv, MoneyInv, NEW c \in Calls,
         UNCHANGED <<balance, opened, ledger, req>>, EndTransaction(c),
         pc'[c] \notin InTransaction, \A d \in Calls \ {c} : pc'[d] = pc[d]
  PROVE  MoneyInv'
<1>1. TypeOK
  BY DEF TypeInv
<1>2. LedgerReconciles' /\ RefundsReverseOnce'
  BY TablesFrame DEF MoneyInv
<1>3. Locked'
  <2> SUFFICES ASSUME NEW w \in Wallets, NEW d \in Calls
               PROVE  (rowLock[w] = d <=> pc[d] \in InTransaction
                                            /\ Wallet(d) = w)'
    BY DEF Locked
  <2>1. Wallet(d)' = Wallet(d)
    BY DEF Wallet
  <2>2. CASE d = c
    BY <1>1, <2>2, EndTransactionTyped
  <2>3. CASE d # c
    <3>1. rowLock'[w] = d <=> rowLock[w] = d
      BY <2>3, NoneAssumption DEF EndTransaction, Values
    <3> QED BY <2>1, <2>3, <3>1 DEF MoneyInv, Locked
  <2> QED BY <2>2, <2>3
<1>4. ASSUME NEW d \in Calls PROVE Fresh(d)'
  <2>1. d # c => draft'[d] = draft[d]
    BY <1>1, EndTransactionTyped
  <2> QED BY <2>1, FreshFrame DEF MoneyInv
<1> QED BY <1>2, <1>3, <1>4 DEF MoneyInv

LEMMA MovementFresh ==
  ASSUME TypeOK, NEW c \in Calls, NEW r \in Requests, r.op \in MovementTypes,
         WellFormed(r), WalletExists(Canon[r.name]), Rejection(r) = None,
         NEW w, w = Canon[r.name], NEW row, row = Movement(c, r, w)
  PROVE  /\ row.balance_after = balance[w] + Delta(row)
         /\ RefundsOpenRow(row, w)
<1>1. r \in RequestSpace /\ r.name \in Names /\ w \in Wallets
  BY RequestsAssumption, NamesAssumption DEF RequestSpace
<1>2. r.amount \in Int /\ r.original \in TxIds \cup {None}
  BY <1>1 DEF RequestSpace
<1>3. balance[w] \in Int
  BY <1>1, PaiseAssumption DEF TypeOK, TablesTypeOK, WalletExists, Paise
<1>4. row.type = r.op /\ row.original = r.original
  BY DEF Movement
<1>5. CASE r.op = REFUND
  <2> DEFINE from == Tx(r.original)
  <2>1. r.original \in TxIds
    BY <1>2, <1>5 DEF WellFormed
  <2>2. /\ OwnTransaction(r) /\ from.type \in REFUNDABLE_TYPES
        /\ ~RefundExists(r.original)
    BY <1>5, NotRejected
  <2>3. r.original \in {w} \X DOMAIN ledger[w]
    BY <1>1, <2>1, <2>2, NamesAssumption DEF OwnTransaction, TxExists, TxIds
  <2>4. from.amount \in Int
    BY <2>1, <2>2, TxTyped DEF OwnTransaction, TypeOK
  <2>5. row.amount = from.amount
    BY <1>5 DEF Movement
  <2>6. RefundsOpenRow(row, w)
    BY <1>4, <1>5, <2>2, <2>3, <2>5 DEF RefundsOpenRow
  <2>7. Delta(row) = IF from.type = DEDUCT THEN from.amount ELSE -from.amount
    BY <1>4, <1>5, <2>5, OpsDiffer DEF Delta, Credits
  <2>8. row.balance_after = IF from.type # DEDUCT
                            THEN balance[w] - from.amount
                            ELSE balance[w] + from.amount
    BY <1>5, OpsDiffer DEF Movement
  <2> QED BY <1>3, <2>4, <2>6, <2>7, <2>8
<1>6. CASE r.op # REFUND
  <2>1. RefundsOpenRow(row, w)
    BY <1>4, <1>6 DEF RefundsOpenRow, WellFormed
  <2>2. row.amount = r.amount
    BY <1>6 DEF Movement
  <2>3. Delta(row) = IF r.op = TOPUP THEN r.amount ELSE -r.amount
    BY <1>4, <1>6, <2>2 DEF Delta, Credits
  <2>4. row.balance_after = IF r.op = DEDUCT THEN balance[w] - r.amount
                                             ELSE balance[w] + r.amount
    BY <1>6 DEF Movement
  <2> QED BY <1>2, <1>3, <1>6, <2>1, <2>3, <2>4, OpsDiffer DEF MovementTypes
<1> QED BY <1>5, <1>6

LEMMA SelectForUpdateMoney ==
  ASSUME TypeInv, MoneyInv, NEW c \in Calls, SelectForUpdate(c)
  PROVE  MoneyInv'
<1> DEFINE r == req[c]
           w == Wallet(c)
<1>1. /\ TypeOK /\ r \in Requests /\ r.op \in MovementTypes
      /\ WellFormed(r) /\ pc[c] = "select" /\ w = Canon[r.name]
  BY DEF TypeInv, SelectForUpdate, CallOK, Received, Writing, InService,
     Stages, Ended, Wallet
<1>2. w \in Wallets /\ None \notin Calls
  BY <1>1, RequestsAssumption, NamesAssumption, NoneAssumption
     DEF RequestSpace, Values
<1>3. UNCHANGED <<balance, opened, ledger, req>>
  BY DEF SelectForUpdate, tables
<1>4. CASE Goto(c, "leave") /\ UNCHANGED <<rowLock, draft>>
  <2>1. pc'[c] = "leave" /\ \A d \in Calls \ {c} : pc'[d] = pc[d]
    BY <1>1, <1>4, GotoTyped DEF Stages
  <2> QED BY <1>1, <1>3, <1>4, <2>1, MoneyKept DEF InTransaction
<1>5. CASE /\ WalletExists(w) /\ Rejection(r) = None /\ RowLockFree(w)
           /\ rowLock' = [rowLock EXCEPT ![w] = c]
           /\ draft'   = [draft EXCEPT ![c] = Movement(c, r, w)]
           /\ Goto(c, "flush")
  <2>1. pc'[c] = "flush" /\ \A d \in Calls \ {c} : pc'[d] = pc[d]
    BY <1>1, <1>5, GotoTyped DEF Stages, InTransaction
  <2>2. LedgerReconciles' /\ RefundsReverseOnce'
    BY <1>3, TablesFrame DEF MoneyInv
  <2>3. Locked'
    BY <1>1, <1>2, <1>3, <1>5, <2>1
       DEF MoneyInv, Locked, Wallet, RowLockFree, TypeOK, InTransaction
  <2>4. ASSUME NEW d \in Calls PROVE Fresh(d)'
    <3>1. CASE d # c
      BY <1>1, <1>3, <1>5, <2>1, <3>1, FreshFrame DEF MoneyInv, TypeOK
    <3>2. CASE d = c
      <4>1. draft'[c] = Movement(c, r, w)
        BY <1>1, <1>5 DEF TypeOK
      <4>2. /\ draft'[c].balance_after = balance[w] + Delta(draft'[c])
            /\ RefundsOpenRow(draft'[c], w)
        BY <1>1, <1>5, <4>1, MovementFresh
      <4>3. Wallet(c)' = w
        BY <1>3 DEF Wallet
      <4>4. Delta(draft[c])' = Delta(draft'[c])
        BY <1>3 DEF Delta, Credits, Tx
      <4>5. RefundsOpenRow(draft[c], Wallet(c))' = RefundsOpenRow(draft'[c], w)
        BY <1>3, <4>3 DEF RefundsOpenRow, Tx, RefundExists
      <4> QED BY <1>3, <1>5, <3>2, <4>2, <4>3, <4>4, <4>5 DEF Fresh, WalletExists
    <3> QED BY <3>1, <3>2
  <2> QED BY <2>2, <2>3, <2>4 DEF MoneyInv
<1>6. CASE ~WalletExists(w) \/ Rejection(r) # None
  BY <1>4, <1>6 DEF SelectForUpdate
<1>7. CASE WalletExists(w) /\ Rejection(r) = None
  BY <1>5, <1>7 DEF SelectForUpdate
<1> QED BY <1>6, <1>7

LEMMA CreateWalletMoney ==
  ASSUME TypeInv, MoneyInv, NEW w \in Wallets, NEW v \in Openings,
         CreateWallet(w, v)
  PROVE  MoneyInv'
<1>1. /\ TypeOK /\ ~WalletExists(w) /\ v \in Paise
      /\ balance' = [balance EXCEPT ![w] = v] /\ opened' = [opened EXCEPT ![w] = v]
      /\ UNCHANGED <<ledger, rowLock, pc, req, draft, reply>>
  BY PaiseAssumption DEF TypeInv, CreateWallet, calls
<1>2. v # None /\ \A u \in Wallets \ {w} : balance'[u] = balance[u]
                                        /\ opened'[u] = opened[u]
  BY <1>1, NoneAssumption, PaiseAssumption DEF TypeOK, TablesTypeOK, Values, Paise
<1>3. ledger[w] = <<>> /\ balance'[w] = v /\ opened'[w] = v
  BY <1>1 DEF MoneyInv, LedgerReconciles, TypeOK, TablesTypeOK
<1>4. LedgerReconciles'
  <2> SUFFICES ASSUME NEW u \in Wallets
               PROVE  (IF WalletExists(u)
                       THEN /\ balance[u] = BalanceAfter(u, Len(ledger[u]))
                            /\ \A i \in DOMAIN ledger[u] :
                                 ledger[u][i].balance_after
                                   = BalanceAfter(u, i - 1) + Delta(ledger[u][i])
                       ELSE ledger[u] = <<>>)'
    BY DEF LedgerReconciles
  <2>1. CASE u = w
    BY <1>1, <1>2, <1>3, <2>1 DEF WalletExists, BalanceAfter
  <2>2. CASE u # w
    BY <1>1, <1>2, <2>2 DEF MoneyInv, LedgerReconciles, WalletExists,
       BalanceAfter, Delta, Credits, Tx
  <2> QED BY <2>1, <2>2
<1>5. RefundsReverseOnce'
  BY <1>1 DEF MoneyInv, RefundsReverseOnce, Tx
<1>6. Locked'
  BY <1>1 DEF MoneyInv, Locked, Wallet
<1>7. ASSUME NEW d \in Calls PROVE Fresh(d)'
  <2> SUFFICES ASSUME pc[d] \in InTransaction PROVE Fresh(d)'
    BY <1>1 DEF Fresh
  <2>1. Fresh(d) /\ WalletExists(Wallet(d))
    BY DEF MoneyInv, Fresh
  <2>2. Wallet(d) # w /\ Wallet(d)' = Wallet(d) /\ Wallet(d) \in Wallets
    <3>1. pc[d] # "idle"
      BY DEF InTransaction
    <3> QED BY <1>1, <2>1, <3>1, NameTyped DEF Wallet
  <2>3. balance'[Wallet(d)] = balance[Wallet(d)]
    BY <1>2, <2>2
  <2>4. Delta(draft[d])' = Delta(draft[d])
    BY <1>1 DEF Delta, Credits, Tx
  <2>5. RefundsOpenRow(draft[d], Wallet(d))
          => RefundsOpenRow(draft[d], Wallet(d))'
    BY <1>1, <2>2 DEF RefundsOpenRow, Tx, RefundExists
  <2> QED BY <1>1, <2>1, <2>2, <2>3, <2>4, <2>5 DEF Fresh, WalletExists
<1> QED BY <1>4, <1>5, <1>6, <1>7 DEF MoneyInv

\* A commit appends one row and leaves every other where and as it was.
LEMMA ApplyDraftShape ==
  ASSUME TypeInv, NEW c \in Calls, pc[c] = "commit", ApplyDraft(c),
         NEW w, w = Wallet(c), NEW n, n = Len(ledger[w])
  PROVE  /\ w \in Wallets /\ n \in Nat /\ draft[c] \in Transaction
         /\ balance'[w] = draft[c].balance_after
         /\ DOMAIN ledger[w] = 1 .. n
         /\ DOMAIN ledger'[w] = 1 .. n + 1 /\ Len(ledger'[w]) = n + 1
         /\ ledger'[w][n + 1] = draft[c]
         /\ \A i \in 1 .. n : ledger'[w][i] = ledger[w][i]
         /\ \A v \in Wallets \ {w} : /\ ledger'[v] = ledger[v]
                                     /\ balance'[v] = balance[v]
         /\ opened' = opened
<1>1. TypeOK /\ draft[c] \in Transaction /\ w \in Wallets
  <2>1. CallOK(c) /\ pc[c] # "idle"
    BY DEF TypeInv
  <2> QED BY <2>1, NameTyped DEF TypeInv, CallOK, Drafted, Wallet
<1>2. ledger[w] \in Seq(Transaction) /\ n \in Nat
  BY <1>1 DEF TypeOK, TablesTypeOK
<1>3. ledger'[w] = Append(ledger[w], draft[c])
  BY <1>1 DEF TypeOK, TablesTypeOK, ApplyDraft
<1>4. \A v \in Wallets \ {w} : ledger'[v] = ledger[v] /\ balance'[v] = balance[v]
  BY <1>1 DEF TypeOK, TablesTypeOK, ApplyDraft
<1>5. balance'[w] = draft[c].balance_after /\ opened' = opened
  BY <1>1 DEF TypeOK, TablesTypeOK, ApplyDraft
<1>6. /\ DOMAIN ledger'[w] = 1 .. n + 1 /\ Len(ledger'[w]) = n + 1
      /\ ledger'[w][n + 1] = draft[c] /\ DOMAIN ledger[w] = 1 .. n
      /\ \A i \in 1 .. n : ledger'[w][i] = ledger[w][i]
  BY <1>1, <1>2, <1>3
<1> QED BY <1>1, <1>2, <1>4, <1>5, <1>6

LEMMA ApplyDraftTables ==
  ASSUME TypeInv, MoneyInv, NEW c \in Calls, pc[c] = "commit", ApplyDraft(c),
         NEW w, w = Wallet(c), NEW row, row = draft[c],
         NEW n, n = Len(ledger[w])
  PROVE  /\ \A v \in Wallets : \A i \in DOMAIN ledger[v] :
              /\ i \in DOMAIN ledger'[v] /\ ledger'[v][i] = ledger[v][i]
              /\ Delta(ledger[v][i])' = Delta(ledger[v][i])
         /\ LedgerReconciles' /\ RefundsReverseOnce'
<1>1. /\ w \in Wallets /\ n \in Nat /\ row \in Transaction
      /\ balance'[w] = row.balance_after
      /\ DOMAIN ledger[w] = 1 .. n
      /\ DOMAIN ledger'[w] = 1 .. n + 1 /\ Len(ledger'[w]) = n + 1
      /\ ledger'[w][n + 1] = row
      /\ \A i \in 1 .. n : ledger'[w][i] = ledger[w][i]
      /\ \A v \in Wallets \ {w} : ledger'[v] = ledger[v] /\ balance'[v] = balance[v]
      /\ opened' = opened
  BY ApplyDraftShape
<1>2. ASSUME NEW v \in Wallets, NEW i \in DOMAIN ledger[v]
      PROVE  i \in DOMAIN ledger'[v] /\ ledger'[v][i] = ledger[v][i]
  BY <1>1
<1>3. ASSUME NEW v \in Wallets, NEW i \in DOMAIN ledger'[v]
      PROVE  i \in DOMAIN ledger[v] \/ (v = w /\ i = n + 1)
  BY <1>1
<1>4. /\ WalletExists(w) /\ row.balance_after = balance[w] + Delta(row)
      /\ RefundsOpenRow(row, w)
  BY DEF MoneyInv, Fresh, InTransaction
<1>5. ASSUME NEW v \in Wallets, NEW i \in DOMAIN ledger[v]
      PROVE  Delta(ledger[v][i])' = Delta(ledger[v][i])
  <2>1. CASE ledger[v][i].type = REFUND
    <3>1. /\ ledger[v][i].original[1] = v
          /\ ledger[v][i].original[2] \in 1 .. i - 1
      BY <2>1 DEF MoneyInv, RefundsReverseOnce
    <3>2. ledger[v][i].original[2] \in DOMAIN ledger[v]
      BY <1>5, <3>1 DEF TypeInv, TypeOK, TablesTypeOK
    <3> QED BY <1>2, <1>5, <3>1, <3>2 DEF Delta, Credits, Tx
  <2>2. CASE ledger[v][i].type # REFUND
    BY <1>2, <1>5, <2>2 DEF Delta, Credits
  <2> QED BY <2>1, <2>2
<1>6. Delta(ledger[w][n + 1])' = Delta(row)
  <2>1. CASE row.type = REFUND
    <3>1. row.original[1] = w /\ row.original[2] \in DOMAIN ledger[w]
      BY <1>4, <2>1 DEF RefundsOpenRow
    <3> QED BY <1>1, <1>2, <3>1 DEF Delta, Credits, Tx
  <2>2. CASE row.type # REFUND
    BY <1>1, <2>2 DEF Delta, Credits
  <2> QED BY <2>1, <2>2
<1>7. LedgerReconciles'
  <2> SUFFICES ASSUME NEW v \in Wallets
               PROVE  (IF WalletExists(v)
                       THEN /\ balance[v] = BalanceAfter(v, Len(ledger[v]))
                            /\ \A i \in DOMAIN ledger[v] :
                                 ledger[v][i].balance_after
                                   = BalanceAfter(v, i - 1) + Delta(ledger[v][i])
                       ELSE ledger[v] = <<>>)'
    BY DEF LedgerReconciles
  <2>1. CASE v # w
    <3>1. ledger'[v] = ledger[v] /\ balance'[v] = balance[v] /\ opened' = opened
      BY <1>1, <2>1
    <3>2. WalletExists(v)' <=> WalletExists(v)
      BY <3>1 DEF WalletExists
    <3>3. \A i : BalanceAfter(v, i)' = BalanceAfter(v, i)
      BY <3>1 DEF BalanceAfter
    <3>4. IF WalletExists(v)
          THEN /\ balance[v] = BalanceAfter(v, Len(ledger[v]))
               /\ \A i \in DOMAIN ledger[v] :
                    ledger[v][i].balance_after
                      = BalanceAfter(v, i - 1) + Delta(ledger[v][i])
          ELSE ledger[v] = <<>>
      BY DEF MoneyInv, LedgerReconciles
    <3>5. balance[v] = BalanceAfter(v, Len(ledger[v]))
            => balance'[v] = BalanceAfter(v, Len(ledger[v]))'
      BY <3>1 DEF BalanceAfter
    <3>6. ASSUME NEW i \in DOMAIN ledger[v],
                 ledger[v][i].balance_after
                   = BalanceAfter(v, i - 1) + Delta(ledger[v][i])
          PROVE  (ledger[v][i].balance_after
                   = BalanceAfter(v, i - 1) + Delta(ledger[v][i]))'
      BY <1>5, <3>1, <3>3, <3>6
    <3> QED BY <3>1, <3>2, <3>4, <3>5, <3>6
  <2>2. CASE v = w
    <3>1. balance[w] = BalanceAfter(w, n)
      BY <1>1, <1>4 DEF MoneyInv, LedgerReconciles
    <3>2. BalanceAfter(w, n)' = BalanceAfter(w, n)
      BY <1>1 DEF BalanceAfter
    <3>3. BalanceAfter(w, n + 1)' = row.balance_after
      BY <1>1 DEF BalanceAfter
    <3>4. ASSUME NEW i \in 1 .. n
          PROVE  (ledger[w][i].balance_after
                    = BalanceAfter(w, i - 1) + Delta(ledger[w][i]))'
      <4>1. BalanceAfter(w, i - 1)' = BalanceAfter(w, i - 1)
        BY <1>1 DEF BalanceAfter
      <4>2. ledger[w][i].balance_after
              = BalanceAfter(w, i - 1) + Delta(ledger[w][i])
        BY <1>1, <1>4 DEF MoneyInv, LedgerReconciles
      <4> QED BY <1>1, <1>5, <4>1, <4>2
    <3>5. (ledger[w][n + 1].balance_after
             = BalanceAfter(w, n + 1 - 1) + Delta(ledger[w][n + 1]))'
      <4>1. n + 1 - 1 = n
        BY <1>1
      <4>2. (ledger[w][n + 1].balance_after)' = balance[w] + Delta(row)
        BY <1>1, <1>4
      <4>3. BalanceAfter(w, n + 1 - 1)' = balance[w]
        BY <3>1, <3>2, <4>1
      <4> QED BY <1>6, <4>2, <4>3
    <3>6. WalletExists(w)'
      BY <1>1, NoneAssumption DEF WalletExists, Transaction, Row, Paise, Values
    <3>7. balance'[w] = BalanceAfter(w, Len(ledger[w]))'
      BY <1>1, <3>3
    <3>8. ASSUME NEW i \in DOMAIN ledger'[w]
          PROVE  (ledger[w][i].balance_after
                    = BalanceAfter(w, i - 1) + Delta(ledger[w][i]))'
      <4>1. CASE i \in 1 .. n
        BY <3>4, <4>1
      <4>2. CASE i = n + 1
        BY <3>5, <4>2
      <4> QED BY <1>1, <4>1, <4>2
    <3> QED BY <2>2, <3>6, <3>7, <3>8
  <2> QED BY <2>1, <2>2
<1>8. RefundsReverseOnce'
  <2>1. None \notin TxIds
    BY NoneAssumption DEF Values
  <2>2. ASSUME NEW v \in Wallets, NEW i \in DOMAIN ledger'[v],
               ledger'[v][i].type # REFUND
        PROVE  ledger'[v][i].original = None
    <3>1. CASE i \in DOMAIN ledger[v]
      BY <1>2, <2>2, <3>1 DEF MoneyInv, RefundsReverseOnce
    <3>2. CASE v = w /\ i = n + 1
      BY <1>1, <1>4, <2>2, <3>2 DEF RefundsOpenRow
    <3> QED BY <1>3, <3>1, <3>2
  <2>3. ASSUME NEW v \in Wallets, NEW i \in DOMAIN ledger'[v],
               ledger'[v][i].type = REFUND
        PROVE  /\ ledger'[v][i].original \in {v} \X (1 .. i - 1)
               /\ ledger'[v][i].original[2] \in DOMAIN ledger[v]
               /\ Tx(ledger'[v][i].original).type \in REFUNDABLE_TYPES
               /\ Tx(ledger'[v][i].original).amount = ledger'[v][i].amount
    <3>1. CASE i \in DOMAIN ledger[v]
      <4>1. ledger'[v][i] = ledger[v][i]
        BY <1>2, <3>1
      <4>2. /\ ledger[v][i].original \in {v} \X (1 .. i - 1)
            /\ Tx(ledger[v][i].original).type \in REFUNDABLE_TYPES
            /\ Tx(ledger[v][i].original).amount = ledger[v][i].amount
        BY <2>3, <3>1, <4>1 DEF MoneyInv, RefundsReverseOnce
      <4>3. ledger[v][i].original[2] \in DOMAIN ledger[v]
        BY <3>1, <4>2 DEF TypeInv, TypeOK, TablesTypeOK
      <4> QED BY <4>1, <4>2, <4>3
    <3>2. CASE v = w /\ i = n + 1
      <4>1. /\ row.original \in {w} \X DOMAIN ledger[w]
            /\ Tx(row.original).type \in REFUNDABLE_TYPES
            /\ Tx(row.original).amount = row.amount
        BY <1>1, <1>4, <2>3, <3>2 DEF RefundsOpenRow
      <4> QED BY <1>1, <3>2, <4>1
    <3> QED BY <1>3, <3>1, <3>2
  <2>4. ASSUME NEW v \in Wallets, NEW i \in DOMAIN ledger'[v],
               ledger'[v][i].type = REFUND
        PROVE  Tx(ledger[v][i].original)' = Tx(ledger'[v][i].original)
    <3>1. /\ ledger'[v][i].original[1] = v
          /\ ledger'[v][i].original[2] \in DOMAIN ledger[v]
      BY <2>3, <2>4
    <3> QED BY <1>2, <3>1 DEF Tx
  <2>5. ASSUME NEW v \in Wallets, NEW i \in DOMAIN ledger'[v],
               ledger'[v][i].type = REFUND,
               NEW u \in Wallets, NEW j \in DOMAIN ledger'[u],
               ledger'[u][j].original = ledger'[v][i].original
        PROVE  u = v /\ j = i
    <3>1. /\ ledger'[u][j].original # None /\ ledger'[u][j].type = REFUND
          /\ u = ledger'[u][j].original[1] /\ v = ledger'[v][i].original[1]
      <4>1. ledger'[v][i].original # None
        BY <2>1, <2>3, <2>5 DEF TxIds
      <4>2. ledger'[u][j].type = REFUND
        BY <2>2, <2>5, <4>1
      <4> QED BY <2>3, <2>5, <4>1, <4>2
    <3>2. u = v
      BY <2>5, <3>1
    <3>3. CASE i \in DOMAIN ledger[v] /\ j \in DOMAIN ledger[u]
      BY <1>2, <2>5, <3>3 DEF MoneyInv, RefundsReverseOnce
    <3>4. CASE v = w /\ i = n + 1 /\ j \in DOMAIN ledger[u]
      <4>1. ~RefundExists(row.original)
        BY <1>1, <1>4, <2>5, <3>4 DEF RefundsOpenRow
      <4> QED BY <1>1, <1>2, <2>5, <3>4, <4>1 DEF RefundExists
    <3>5. CASE u = w /\ j = n + 1 /\ i \in DOMAIN ledger[v]
      <4>1. ~RefundExists(row.original)
        BY <1>1, <1>4, <3>1, <3>5 DEF RefundsOpenRow
      <4> QED BY <1>1, <1>2, <2>5, <3>5, <4>1 DEF RefundExists
    <3> QED BY <1>3, <3>2, <3>3, <3>4, <3>5
  <2> QED BY <2>2, <2>3, <2>4, <2>5 DEF RefundsReverseOnce
<1> QED BY <1>2, <1>5, <1>7, <1>8

LEMMA ApplyDraftMoney ==
  ASSUME TypeInv, MoneyInv, NEW c \in Calls, pc[c] = "commit", ApplyDraft(c),
         req' = req, pc'[c] \notin InTransaction,
         \A d \in Calls \ {c} : pc'[d] = pc[d]
  PROVE  MoneyInv'
<1>0. PICK w, n : w = Wallet(c) /\ n = Len(ledger[w])
  OBVIOUS
<1>1. LedgerReconciles' /\ RefundsReverseOnce'
  BY <1>0, ApplyDraftTables
<1>2. TypeOK /\ EndTransaction(c) /\ pc[c] \in InTransaction
  BY DEF TypeInv, ApplyDraft, InTransaction
<1>3. Locked'
  <2> SUFFICES ASSUME NEW v \in Wallets, NEW d \in Calls
               PROVE  (rowLock[v] = d <=> pc[d] \in InTransaction
                                            /\ Wallet(d) = v)'
    BY DEF Locked
  <2>1. CASE d = c
    BY <1>2, <2>1, EndTransactionTyped
  <2>2. CASE d # c
    <3>1. rowLock'[v] = d <=> rowLock[v] = d
      BY <1>2, <2>2, NoneAssumption DEF EndTransaction, Values
    <3> QED BY <2>2, <3>1 DEF MoneyInv, Locked, Wallet
  <2> QED BY <2>1, <2>2
<1>4. ASSUME NEW d \in Calls PROVE Fresh(d)'
  <2> DEFINE v == Wallet(d)
  <2> SUFFICES ASSUME pc'[d] \in InTransaction PROVE Fresh(d)'
    BY DEF Fresh
  <2>1. /\ d # c /\ pc[d] \in InTransaction /\ draft'[d] = draft[d]
        /\ Wallet(d)' = v
    BY <1>2, EndTransactionTyped DEF Wallet
  <2>2. /\ WalletExists(v) /\ draft[d].balance_after = balance[v] + Delta(draft[d])
        /\ RefundsOpenRow(draft[d], v)
    BY <2>1 DEF MoneyInv, Fresh
  <2>3. v \in Wallets /\ v # w
    <3>1. v \in Wallets
      BY <2>1, NameTyped DEF Wallet, InTransaction
    <3>2. rowLock[v] = d
      BY <2>1, <3>1 DEF MoneyInv, Locked
    <3> QED BY <1>0, <1>2, <2>1, <3>1, <3>2 DEF MoneyInv, Locked
  <2>4. balance'[v] = balance[v] /\ ledger'[v] = ledger[v] /\ w \in Wallets
    BY <1>0, <2>3, ApplyDraftShape
  <2>5. /\ Delta(draft[d])' = Delta(draft[d])
        /\ RefundsOpenRow(draft[d], v)'
    <3>1. CASE draft[d].type = REFUND
      <4>1. /\ draft[d].original \in {v} \X DOMAIN ledger[v]
            /\ Tx(draft[d].original).type \in REFUNDABLE_TYPES
            /\ Tx(draft[d].original).amount = draft[d].amount
            /\ ~RefundExists(draft[d].original)
        BY <2>2, <3>1 DEF RefundsOpenRow
      <4>2. Tx(draft[d].original)' = Tx(draft[d].original)
        BY <2>1, <2>4, <4>1 DEF Tx
      <4>3. ~RefundExists(draft[d].original)'
        <5> SUFFICES ASSUME NEW u \in Wallets, NEW i \in DOMAIN ledger'[u],
                            ledger'[u][i].original = draft[d].original
                     PROVE  FALSE
          BY <2>1 DEF RefundExists
        <5>1. draft[d].original[1] = v /\ draft[d].original # None
          <6>1. draft[d].original \in TxIds
            BY <2>3, <4>1, <1>2 DEF TxIds, TypeOK, TablesTypeOK
          <6> QED BY <4>1, <6>1, NoneAssumption DEF Values
        <5>2. i \notin DOMAIN ledger[u] \/ ledger'[u][i] # ledger[u][i]
          BY <4>1 DEF RefundExists
        <5>3. u = w /\ ledger'[u][i] = draft[c]
          <6>1. u = w
            BY <1>0, <5>2, ApplyDraftShape
          <6> QED BY <1>0, <5>2, <6>1, ApplyDraftShape
        <5>4. RefundsOpenRow(draft[c], w)
          BY <1>0, <1>2 DEF MoneyInv, Fresh
        <5> QED BY <2>3, <5>1, <5>3, <5>4 DEF RefundsOpenRow
      <4> QED BY <2>1, <2>4, <3>1, <4>1, <4>2, <4>3
            DEF Delta, Credits, RefundsOpenRow
    <3>2. CASE draft[d].type # REFUND
      BY <2>1, <2>2, <3>2 DEF Delta, Credits, RefundsOpenRow
    <3> QED BY <3>1, <3>2
  <2> QED BY <2>1, <2>2, <2>4, <2>5 DEF Fresh, WalletExists, RefundsOpenRow
<1> QED BY <1>1, <1>3, <1>4 DEF MoneyInv

LEMMA CommitMoney ==
  ASSUME TypeInv, MoneyInv, NEW c \in Calls, Commit(c) \/ CommitUnacknowledged(c)
  PROVE  MoneyInv'
<1>1. /\ pc[c] = "commit" /\ ApplyDraft(c) /\ req' = req
      /\ Goto(c, "release") \/ Goto(c, "leave")
  BY DEF Commit, CommitUnacknowledged
<1>2. pc'[c] \in {"release", "leave"} /\ \A d \in Calls \ {c} : pc'[d] = pc[d]
  BY <1>1, GotoTyped DEF TypeInv, Stages
<1> QED BY <1>1, <1>2, ApplyDraftMoney DEF InTransaction

\* A call that holds no transaction leaves the money alone.
LEMMA OutsideMoney ==
  ASSUME TypeInv, MoneyInv, NEW c \in Calls,
         \/ AcquireLock(c) \/ LockBusy(c) \/ Check(c) \/ Recheck(c)
         \/ Release(c) \/ Leave(c) \/ Refresh(c)
         \/ LookupCache(c) \/ LoadBalance(c) \/ RedisFails(c)
  PROVE  MoneyInv'
<1>1. pc[c] \notin InTransaction
  BY DEF AcquireLock, LockBusy, Check, Recheck, Release, Leave, Refresh,
     LookupCache, LoadBalance, RedisFails, InTransaction
<1>2. UNCHANGED <<tables, rowLock, req, draft>>
  BY DEF AcquireLock, LockBusy, Check, Recheck, Release, Leave, Refresh,
     LookupCache, LoadBalance, RedisFails
<1>3. \E stage \in Stages \ InTransaction : Goto(c, stage)
  BY DEF AcquireLock, LockBusy, Check, Recheck, Release, Leave, Refresh,
     LookupCache, LoadBalance, RedisFails, InTransaction, Stages, Ended
<1>4. pc'[c] \notin InTransaction /\ \A d \in Calls \ {c} : pc'[d] = pc[d]
  BY <1>3, GotoTyped DEF TypeInv
<1> QED BY <1>1, <1>2, <1>4, MoneyKept DEF tables

LEMMA ReceiveMoney ==
  ASSUME TypeInv, MoneyInv, NEW c \in Calls, Receive(c)
  PROVE  MoneyInv'
<1>1. /\ pc[c] = "idle" /\ UNCHANGED <<tables, rowLock, draft>>
      /\ \A d \in Calls \ {c} : req'[d] = req[d]
      /\ \E stage \in {"lookup", "acquire", "done"} : Goto(c, stage)
  BY DEF Receive, TypeInv, TypeOK
<1>2. pc'[c] \notin InTransaction /\ \A d \in Calls \ {c} : pc'[d] = pc[d]
  BY <1>1, GotoTyped DEF TypeInv, Stages, Ended, InTransaction
<1> QED BY <1>1, <1>2, MoneyKept DEF tables, InTransaction

\* A transaction that fails is rolled back, one that goes on keeps its lock.
LEMMA TransactionMoney ==
  ASSUME TypeInv, MoneyInv, NEW c \in Calls,
         Flush(c) \/ RecordKey(c) \/ Crash(c) \/ DatabaseFails(c)
  PROVE  MoneyInv'
<1>1. UNCHANGED <<tables, req>>
  BY DEF Flush, RecordKey, Crash, DatabaseFails
<1>2. CASE EndTransaction(c) /\ \E stage \in Stages \ InTransaction : Goto(c, stage)
  <2>1. pc'[c] \notin InTransaction /\ \A d \in Calls \ {c} : pc'[d] = pc[d]
    BY <1>2, GotoTyped DEF TypeInv
  <2> QED BY <1>1, <1>2, <2>1, MoneyRolledBack DEF tables
<1>3. CASE /\ pc[c] \in InTransaction /\ UNCHANGED <<rowLock, draft>>
           /\ Goto(c, "record") \/ Goto(c, "commit")
  <2>1. pc'[c] \in InTransaction /\ \A d \in Calls \ {c} : pc'[d] = pc[d]
    BY <1>3, GotoTyped DEF TypeInv, Stages, InTransaction
  <2> QED BY <1>1, <1>3, <2>1, MoneyKept DEF tables
<1>4. ASSUME Flush(c) PROVE MoneyInv'
  BY <1>2, <1>3, <1>4 DEF Flush, Stages, InTransaction
<1>5. ASSUME RecordKey(c) PROVE MoneyInv'
  BY <1>2, <1>3, <1>5 DEF RecordKey, Stages, InTransaction
<1>6. ASSUME Crash(c) \/ DatabaseFails(c) PROVE MoneyInv'
  BY <1>2, <1>6 DEF Crash, DatabaseFails, Stages, Ended, InTransaction
<1> QED BY <1>4, <1>5, <1>6

LEMMA TimeMoney ==
  ASSUME MoneyInv, UNCHANGED <<tables, calls>>
  PROVE  MoneyInv'
<1>1. LedgerReconciles' /\ RefundsReverseOnce'
  BY TablesFrame DEF MoneyInv, tables
<1>2. Locked'
  BY DEF MoneyInv, Locked, Wallet, calls
<1>3. \A d \in Calls : Fresh(d)'
  BY FreshFrame DEF MoneyInv, tables, calls
<1> QED BY <1>1, <1>2, <1>3 DEF MoneyInv

LEMMA NextMoney == TypeInv /\ MoneyInv /\ [Next]_vars => MoneyInv'
<1> SUFFICES ASSUME TypeInv, MoneyInv, [Next]_vars PROVE MoneyInv'
  OBVIOUS
<1>1. ASSUME NEW w \in Wallets, NEW v \in Openings, CreateWallet(w, v)
      PROVE MoneyInv'
  BY <1>1, CreateWalletMoney
<1>2. ASSUME NEW c \in Calls, Receive(c) PROVE MoneyInv'
  BY <1>2, ReceiveMoney
<1>3. ASSUME NEW c \in Calls, Step(c) PROVE MoneyInv'
  BY <1>3, OutsideMoney, SelectForUpdateMoney, TransactionMoney, CommitMoney
     DEF Step
<1>4. ASSUME NEW c \in Calls, Fault(c) PROVE MoneyInv'
  BY <1>4, OutsideMoney, TransactionMoney, CommitMoney DEF Fault
<1>5. ASSUME NEW n \in Names, LockExpires(n) \/ CacheExpires(n) PROVE MoneyInv'
  BY <1>5, TimeMoney DEF LockExpires, CacheExpires
<1>6. CASE UNCHANGED vars
  BY <1>6, TimeMoney DEF vars
<1> QED BY <1>1, <1>2, <1>3, <1>4, <1>5, <1>6 DEF Next, Quiescent

LEMMA AlwaysMoney == Spec => []MoneyInv
<1>1. Init => TypeInv /\ MoneyInv
  BY InitTyped, InitMoney
<1>2. TypeInv /\ MoneyInv /\ [Next]_vars => (TypeInv /\ MoneyInv)'
  BY NextTyped, NextMoney
<1> QED BY <1>1, <1>2, PTL DEF Spec

\* The ledger always explains the balance, with any number of calls on any
\* number of wallets and with every fault: _write and _write_refund change wallet
\* and ledger in one transaction behind get_wallet_for_update, so no update is
\* lost, and the Redis lock, which may expire under its holder, is not needed.
THEOREM LedgerCorrect == Spec => []LedgerReconciles
  BY AlwaysMoney, PTL DEF MoneyInv

\* Two refunds of one transaction never both commit: the second waits in
\* _write_refund for the row lock, and then _load_refundable_original finds the
\* first.  And a refund reverses an earlier row of its own wallet in full.
THEOREM RefundsCorrect == Spec => []RefundsReverseOnce
  BY AlwaysMoney, PTL DEF MoneyInv
=============================================================================
