--------------------------- MODULE History_proofs ---------------------------
(***************************************************************************)
(* Proofs about the history of a wallet, for every value of the constants: *)
(* where the Redis lock holds, a write's transaction begins after every    *)
(* transaction whose row is in the wallet's ledger, so that the order of   *)
(* created_at is the order of the ledger, and the listing reads backwards  *)
(* what LedgerReconciles says forwards.                                    *)
(***************************************************************************)
EXTENDS History, Redis_proofs, FiniteSetTheorems

Early == {"idle", "acquire", "check"}
Begun == {"select"} \cup InTransaction

ClockTyped ==
  /\ clock \in Nat
  /\ began \in [Calls -> Nat \cup {None}]
  /\ \A c \in Calls : began[c] # None => began[c] <= clock
  /\ createdAt \in [Wallets -> Seq(Nat)]
  /\ \A w \in Wallets : Len(createdAt[w]) = Len(ledger[w])

\* The rows of a wallet were begun in the order in which they were committed.
InOrder ==
  \A w \in Wallets : \A j \in DOMAIN createdAt[w] :
    /\ createdAt[w][j] <= clock
    /\ \A i \in 1 .. j - 1 : createdAt[w][i] < createdAt[w][j]

\* A write begins once, before it locks the row and after the wallet's rows.
BeganOK(c) ==
  /\ pc[c] \in Early => began[c] = None
  /\ pc[c] \in InTransaction => began[c] # None
  /\ pc[c] \in Begun /\ began[c] # None =>
       \A i \in DOMAIN createdAt[Wallet(c)] : createdAt[Wallet(c)][i] < began[c]

StampInv == ClockTyped /\ InOrder /\ \A c \in Calls : BeganOK(c)

LEMMA InitStamps == HistoryInit => StampInv
<1> SUFFICES ASSUME HistoryInit PROVE StampInv
  OBVIOUS
<1>1. /\ \A w \in Wallets : createdAt[w] = <<>> /\ ledger[w] = <<>>
      /\ \A c \in Calls : pc[c] = "idle" /\ began[c] = None
  BY DEF HistoryInit, Init, TablesInit
<1>2. ClockTyped
  BY <1>1 DEF HistoryInit, ClockTyped
<1> QED BY <1>1, <1>2 DEF StampInv, InOrder, BeganOK, Begun, InTransaction

LEMMA HistorySteps == [HistoryNext]_historyVars => [Next]_vars
  BY DEF HistoryNext, BeginTransaction, historyVars

\* How a call gets to where its transaction runs.
LEMMA StageBefore ==
  ASSUME TypeInv, [Next]_vars, NEW c \in Calls
  PROVE  /\ pc'[c] \in Early => pc[c] \in Early
         /\ pc'[c] = "select" => pc[c] \in Early \cup {"select"}
         /\ pc'[c] \in InTransaction =>
              pc[c] \in InTransaction \/ (pc[c] = "select" /\ pc'[c] = "flush")
<1> DEFINE Ok(stage) ==
      /\ stage \in Early => pc[c] \in Early
      /\ stage = "select" => pc[c] \in Early \cup {"select"}
      /\ stage \in InTransaction =>
           pc[c] \in InTransaction \/ (pc[c] = "select" /\ stage = "flush")
<1>1. ASSUME NEW stage \in Stages, Goto(c, stage), Ok(stage) PROVE Ok(pc'[c])
  BY <1>1, WentTo
<1>2. CASE Receive(c)
  BY <1>1, <1>2 DEF Receive, Stages, Ended, Early, InTransaction
<1>3. CASE AcquireLock(c) \/ LockBusy(c) \/ Release(c) \/ Leave(c) \/ Refresh(c)
  BY <1>1, <1>3 DEF AcquireLock, LockBusy, Release, Leave, Refresh, Stages,
     Ended, Early, InTransaction
<1>4. CASE Check(c) \/ Recheck(c)
  BY <1>1, <1>4 DEF Check, Recheck, Stages, Early, InTransaction
<1>5. CASE SelectForUpdate(c)
  BY <1>1, <1>5 DEF SelectForUpdate, Stages, Early, InTransaction
<1>6. CASE Flush(c) \/ RecordKey(c) \/ Commit(c)
  BY <1>1, <1>6 DEF Flush, RecordKey, Commit, Stages, Early, InTransaction
<1>7. CASE LookupCache(c) \/ LoadBalance(c)
  BY <1>1, <1>7 DEF LookupCache, LoadBalance, Stages, Ended, Early, InTransaction
<1>8. CASE Fault(c)
  BY <1>1, <1>8 DEF Fault, Crash, RedisFails, DatabaseFails,
     CommitUnacknowledged, Stages, Ended, Early, InTransaction
<1>9. CASE pc'[c] = pc[c]
  BY <1>9
<1>10. \/ UNCHANGED calls
       \/ \E e \in Calls : Receive(e) \/ Step(e) \/ Fault(e)
  BY OneCallMoves
<1> QED BY <1>2, <1>3, <1>4, <1>5, <1>6, <1>7, <1>8, <1>9, <1>10, OthersStay
        DEF Step, calls

LEMMA BeginStamps ==
  ASSUME AllInv, StampInv, NEW c \in Calls, BeginTransaction(c)
  PROVE  StampInv'
<1>1. /\ clock' = clock + 1 /\ began' = [began EXCEPT ![c] = clock + 1]
      /\ pc' = pc /\ req' = req /\ ledger' = ledger /\ createdAt' = createdAt
      /\ clock \in Nat /\ pc[c] = "select"
  BY DEF BeginTransaction, vars, calls, tables, StampInv, ClockTyped
<1>2. ClockTyped'
  <2>1. began' \in [Calls -> Nat \cup {None}]
    BY <1>1 DEF StampInv, ClockTyped
  <2>2. ASSUME NEW d \in Calls, began'[d] # None PROVE began'[d] <= clock'
    BY <1>1, <2>2 DEF StampInv, ClockTyped
  <2> QED BY <1>1, <2>1, <2>2 DEF StampInv, ClockTyped
<1>3. ASSUME NEW w \in Wallets, NEW j \in DOMAIN createdAt[w]
      PROVE  createdAt[w][j] \in Nat /\ createdAt[w][j] <= clock
  BY DEF StampInv, ClockTyped, InOrder
<1>4. InOrder'
  BY <1>1, <1>3 DEF StampInv, InOrder
<1>5. ASSUME NEW d \in Calls PROVE BeganOK(d)'
  <2>1. CASE d # c
    <3>1. began'[d] = began[d] /\ Wallet(d)' = Wallet(d)
      BY <1>1, <2>1 DEF StampInv, ClockTyped, Wallet
    <3> QED BY <1>1, <3>1 DEF StampInv, BeganOK
  <2>2. CASE d = c
    <3>1. began'[c] = clock + 1 /\ began'[c] # None
      BY <1>1, NoneAssumption DEF StampInv, ClockTyped, Values
    <3>2. Wallet(c) \in Wallets /\ Wallet(c)' = Wallet(c)
      BY <1>1, NameTyped DEF AllInv, Wallet
    <3> QED BY <1>1, <1>3, <2>2, <3>1, <3>2 DEF BeganOK, Early, Begun, InTransaction
  <2> QED BY <2>1, <2>2
<1> QED BY <1>2, <1>4, <1>5 DEF StampInv

\* The writes of a wallet all spell it one way, whatever the way; its reads need
\* not.
SameSpelling ==
  \A r, s \in {x \in Requests : x.op \in MovementTypes} :
    Canon[r.name] = Canon[s.name] => r.name = s.name

\* Two writes of one wallet are not under way together.
LEMMA OneWriter ==
  ASSUME SameSpelling, AllInv, RetryInv, NEW c \in Calls, NEW d \in Calls,
         pc[c] = "commit", pc[d] \in Begun, Wallet(c) = Wallet(d)
  PROVE  c = d
<1>1. \A e \in {c, d} : req[e] \in {x \in Requests : x.op \in MovementTypes}
  BY DEF AllInv, TypeInv, CallOK, Received, Writing, Begun, InTransaction
<1>2. Name(c) = Name(d)
  BY <1>1 DEF SameSpelling, Wallet, Name
<1>3. lock[Name(c)] = c /\ lock[Name(d)] = d
  BY DEF RetryInv, Holds, Holding, Begun, InTransaction
<1> QED BY <1>2, <1>3

\* The rows' times grow by the committing call's.
LEMMA CommitStamps ==
  ASSUME AllInv, StampInv, NEW c \in Calls, pc[c] = "commit", ApplyDraft(c), Stamp,
         NEW w, w = Wallet(c)
  PROVE  /\ w \in Wallets /\ began[c] \in Nat
         /\ createdAt'[w] = Append(createdAt[w], began[c])
         /\ \A v \in Wallets \ {w} : /\ createdAt'[v] = createdAt[v]
                                     /\ ledger'[v] = ledger[v]
         /\ Len(ledger'[w]) = Len(ledger[w]) + 1
         /\ DOMAIN ledger'[w] = 1 .. Len(ledger[w]) + 1
         /\ ledger'[w][Len(ledger[w]) + 1].call = c
<1>0. PICK n : n = Len(ledger[w])
  OBVIOUS
<1>1. /\ w \in Wallets /\ n \in Nat /\ DOMAIN ledger[w] = 1 .. n
      /\ DOMAIN ledger'[w] = 1 .. n + 1
      /\ ledger'[w][n + 1] = draft[c] /\ Len(ledger'[w]) = n + 1
      /\ \A v \in Wallets \ {w} : ledger'[v] = ledger[v]
  BY <1>0, ApplyDraftShape DEF AllInv
<1>3. draft[c].call = c
  BY DEF AllInv, KeyInv, Drawn, InTransaction
<1>4. Last(ledger'[w]).call = c
  BY <1>1, <1>3 DEF Last
<1>5. ledger'[w] # ledger[w]
  BY <1>0, <1>1
<1>6. createdAt'[w] = Append(createdAt[w], began[c])
  BY <1>1, <1>4, <1>5 DEF Stamp
<1>7. began[c] \in Nat
  BY DEF StampInv, ClockTyped, BeganOK, InTransaction
<1> QED BY <1>0, <1>1, <1>3, <1>6, <1>7 DEF Stamp

LEMMA StampStamps ==
  ASSUME SameSpelling, AllInv, AllInv', RetryInv, StampInv, [Next]_vars, Stamp
  PROVE  StampInv'
<1>1. /\ clock' = clock /\ clock \in Nat /\ TypeInv
      /\ \A c \in Calls :
           began'[c] = IF pc'[c] \in BeforeEnd THEN began[c] ELSE None
      /\ \A c \in Calls : BeganOK(c)
  BY DEF Stamp, StampInv, ClockTyped, AllInv
<1>2. ASSUME NEW c \in Calls
      PROVE  /\ pc'[c] \in Early => began'[c] = None
             /\ pc'[c] \in InTransaction => began'[c] # None
             /\ pc'[c] \in Begun /\ began'[c] # None =>
                  /\ pc[c] \in Begun /\ began'[c] = began[c] /\ began[c] # None
                  /\ Wallet(c)' = Wallet(c) /\ Wallet(c) \in Wallets
  <2>1. /\ pc'[c] \in Early => pc[c] \in Early
        /\ pc'[c] = "select" => pc[c] \in Early \cup {"select"}
        /\ pc'[c] \in InTransaction =>
             pc[c] \in InTransaction \/ (pc[c] = "select" /\ pc'[c] = "flush")
    BY <1>1, StageBefore
  <2>2. pc'[c] \in Early => began'[c] = None
    BY <1>1, <2>1 DEF BeganOK
  <2>3. pc'[c] \in InTransaction => began'[c] # None
    BY <1>1, <2>1 DEF BeganOK, BeforeEnd, Stamp
  <2>4. ASSUME pc'[c] \in Begun, began'[c] # None
        PROVE  /\ pc[c] \in Begun /\ began'[c] = began[c] /\ began[c] # None
               /\ Wallet(c)' = Wallet(c) /\ Wallet(c) \in Wallets
    <3>1. began'[c] = began[c] /\ began[c] # None
      BY <1>1, <2>4
    <3>2. pc[c] \in Begun
      BY <1>1, <2>1, <2>4, <3>1 DEF BeganOK, Begun
    <3>3. pc[c] # "idle"
      BY <3>2 DEF Begun, InTransaction
    <3> QED BY <1>1, <3>1, <3>2, <3>3, RequestsStay, NameTyped DEF Wallet
  <2> QED BY <2>2, <2>3, <2>4
<1>3. began' \in [Calls -> Nat \cup {None}]
      /\ \A c \in Calls : began'[c] # None => began'[c] <= clock
  BY <1>1 DEF Stamp, StampInv, ClockTyped
<1>4. CASE UNCHANGED ledger
  <2>1. createdAt' = createdAt
    BY <1>4 DEF Stamp, StampInv, ClockTyped
  <2>2. ClockTyped' /\ InOrder'
    BY <1>1, <1>3, <1>4, <2>1 DEF StampInv, ClockTyped, InOrder
  <2>3. ASSUME NEW c \in Calls PROVE BeganOK(c)'
    BY <1>1, <1>2, <2>1 DEF BeganOK
  <2> QED BY <2>2, <2>3 DEF StampInv
<1>5. ASSUME NEW c \in Calls, pc[c] = "commit", ApplyDraft(c) PROVE StampInv'
  <2>0. PICK w, t, old : w = Wallet(c) /\ t = began[c] /\ old = createdAt[w]
    OBVIOUS
  <2>1. /\ w \in Wallets /\ t \in Nat /\ t <= clock
        /\ createdAt'[w] = Append(old, t)
        /\ \A v \in Wallets \ {w} : /\ createdAt'[v] = createdAt[v]
                                    /\ ledger'[v] = ledger[v]
        /\ Len(ledger'[w]) = Len(ledger[w]) + 1
        /\ DOMAIN ledger'[w] = 1 .. Len(ledger[w]) + 1
        /\ ledger'[w][Len(ledger[w]) + 1].call = c
    <3>1. t \in Nat => t <= clock
      BY <2>0, NoneAssumption DEF StampInv, ClockTyped, Values
    <3> QED BY <1>5, <2>0, <3>1, CommitStamps
  <2>2. old \in Seq(Nat) /\ Len(old) = Len(ledger[w]) /\ Len(old) \in Nat
    BY <2>0, <2>1 DEF StampInv, ClockTyped
  <2>3. \A i \in DOMAIN old : old[i] < t
    BY <1>1, <1>5, <2>0, <2>1, NoneAssumption
       DEF BeganOK, Begun, InTransaction, Values
  <2>4. /\ createdAt'[w] \in Seq(Nat) /\ Len(createdAt'[w]) = Len(old) + 1
        /\ DOMAIN createdAt'[w] = 1 .. Len(old) + 1 /\ DOMAIN old = 1 .. Len(old)
        /\ \A i \in DOMAIN old : createdAt'[w][i] = old[i] /\ old[i] \in Nat
        /\ createdAt'[w][Len(old) + 1] = t
    BY <2>1, <2>2
  <2>5. ClockTyped'
    <3>1. createdAt' \in [Wallets -> Seq(Nat)]
      <4>1. DOMAIN createdAt' = Wallets /\ createdAt' = [v \in Wallets |-> createdAt'[v]]
        BY DEF Stamp
      <4>2. \A v \in Wallets : createdAt'[v] \in Seq(Nat)
        BY <2>1, <2>4 DEF StampInv, ClockTyped
      <4> QED BY <4>1, <4>2
    <3>2. \A v \in Wallets : Len(createdAt'[v]) = Len(ledger'[v])
      BY <2>1, <2>2, <2>4 DEF StampInv, ClockTyped
    <3> QED BY <1>1, <1>3, <3>1, <3>2 DEF ClockTyped
  <2>6. InOrder'
    <3>1. ASSUME NEW j \in DOMAIN createdAt'[w]
          PROVE  /\ createdAt'[w][j] <= clock
                 /\ \A i \in 1 .. j - 1 : createdAt'[w][i] < createdAt'[w][j]
      <4>1. CASE j = Len(old) + 1
        BY <2>1, <2>2, <2>3, <2>4, <4>1
      <4>2. CASE j \in DOMAIN old
        <5>1. /\ old[j] <= clock
              /\ \A i \in 1 .. j - 1 : old[i] < old[j]
          BY <2>0, <2>1, <4>2 DEF StampInv, InOrder
        <5>2. \A i \in 1 .. j - 1 : i \in DOMAIN old
          BY <2>2, <2>4, <4>2
        <5> QED BY <2>4, <4>2, <5>1, <5>2
      <4> QED BY <2>2, <2>4, <4>1, <4>2
    <3>2. ASSUME NEW v \in Wallets \ {w}, NEW j \in DOMAIN createdAt'[v]
          PROVE  /\ createdAt'[v][j] <= clock
                 /\ \A i \in 1 .. j - 1 : createdAt'[v][i] < createdAt'[v][j]
      BY <2>1 DEF StampInv, InOrder
    <3> QED BY <1>1, <3>1, <3>2 DEF InOrder
  <2>7. ASSUME NEW d \in Calls PROVE BeganOK(d)'
    <3> SUFFICES ASSUME pc'[d] \in Begun, began'[d] # None
                 PROVE  \A i \in DOMAIN createdAt'[Wallet(d)'] :
                          createdAt'[Wallet(d)'][i] < began'[d]
      BY <1>2 DEF BeganOK
    <3>1. /\ pc[d] \in Begun /\ began'[d] = began[d] /\ began[d] # None
          /\ Wallet(d)' = Wallet(d) /\ Wallet(d) \in Wallets
      BY <1>2
    <3>2. d # c
      <4>1. PICK n : n \in DOMAIN ledger'[w] /\ ledger'[w][n].call = c
        BY <2>1, <2>2
      <4>2. Written(w, n)'
        BY <2>1, <4>1 DEF AllInv, KeyInv
      <4>3. pc'[c] \in Finishing
        BY <4>1, <4>2 DEF Written
      <4> QED BY <4>3 DEF Begun, InTransaction, Finishing, Ended
    <3>3. Wallet(d) # w
      BY <1>5, <2>0, <3>1, <3>2, OneWriter
    <3>4. createdAt'[Wallet(d)] = createdAt[Wallet(d)]
      BY <2>1, <3>1, <3>3
    <3> QED BY <1>1, <3>1, <3>4 DEF BeganOK
  <2> QED BY <2>5, <2>6, <2>7 DEF StampInv
<1> QED BY <1>4, <1>5, TablesChange DEF tables, CreateWallet

LEMMA AlwaysStamps ==
  ASSUME LockLasts, SameSpelling
  PROVE  HistorySpec => [](AllInv /\ StampInv)
<1> DEFINE I == AllInv /\ RetryInv
<1>1. HistoryInit => I /\ StampInv
  BY InitTyped, InitMoney, InitKeys, InitRetries, InitStamps
     DEF AllInv, HistoryInit
<1>2. ASSUME I, [Next]_vars PROVE I'
  <2>1. AllInv'
    BY <1>2, NextTyped, NextMoney, NextKeys DEF AllInv
  <2>2. RetryInv'
    BY <1>2, NextHolds, NextUnserved DEF RetryInv, AllInv
  <2> QED BY <2>1, <2>2
<1>3. ASSUME I, StampInv, [HistoryNext]_historyVars PROVE (I /\ StampInv)'
  <2>1. I'
    BY <1>2, <1>3, HistorySteps
  <2>2. CASE \E c \in Calls : BeginTransaction(c)
    BY <1>3, <2>1, <2>2, BeginStamps
  <2>3. CASE Next /\ Stamp
    BY <1>3, <2>1, <2>3, StampStamps
  <2>4. ASSUME UNCHANGED historyVars PROVE StampInv'
    BY <1>3, <2>4 DEF historyVars, stamps, vars, calls, tables, StampInv,
       ClockTyped, InOrder, BeganOK, Wallet
  <2> QED BY <1>3, <2>1, <2>2, <2>3, <2>4 DEF HistoryNext
<1> HIDE DEF I
<1>4. HistorySpec => [](I /\ StampInv)
  BY <1>1, <1>3, PTL DEF HistorySpec
<1>5. I => AllInv
  BY DEF I
<1> QED BY <1>4, <1>5, PTL

-----------------------------------------------------------------------------
(* The listing.                                                            *)

\* A permutation of 1 .. n that decreases is the reversal: p[i] has at least
\* n - i + 1 places up to it and at least i places from it on.
LEMMA DecreasingIsReversal ==
  ASSUME NEW n \in Nat, NEW p \in Bijection(1 .. n, 1 .. n),
         \A i, j \in 1 .. n : i < j => p[i] > p[j], NEW i \in 1 .. n
  PROVE  p[i] = n + 1 - i
<1>1. /\ p \in [1 .. n -> 1 .. n] /\ p[i] \in 1 .. n
      /\ \A j, k \in 1 .. n : p[j] = p[k] => j = k
  BY DEF Bijection, Injection, IsInjective
<1>2. n - i + 1 <= p[i]
  <2>1. [k \in i .. n |-> p[k]] \in Injection(i .. n, 1 .. p[i])
    <3>1. ASSUME NEW k \in i .. n PROVE k \in 1 .. n /\ p[k] \in 1 .. p[i]
      <4>1. k \in 1 .. n /\ p[k] \in 1 .. n /\ (k = i \/ i < k)
        BY <1>1
      <4> QED BY <1>1, <4>1
    <3> QED BY <1>1, <3>1 DEF Injection, IsInjective
  <2>2. Cardinality(i .. n) <= Cardinality(1 .. p[i])
    BY <1>1, <2>1, FS_Injection, FS_Interval
  <2>3. Cardinality(i .. n) = n - i + 1 /\ Cardinality(1 .. p[i]) = p[i]
    BY <1>1, FS_Interval
  <2> QED BY <2>2, <2>3
<1>3. i <= n - p[i] + 1
  <2>1. [k \in 1 .. i |-> p[k]] \in Injection(1 .. i, p[i] .. n)
    <3>1. ASSUME NEW k \in 1 .. i PROVE k \in 1 .. n /\ p[k] \in p[i] .. n
      <4>1. k \in 1 .. n /\ p[k] \in 1 .. n /\ (k = i \/ k < i)
        BY <1>1
      <4> QED BY <1>1, <4>1
    <3> QED BY <1>1, <3>1 DEF Injection, IsInjective
  <2>2. Cardinality(1 .. i) <= Cardinality(p[i] .. n)
    BY <1>1, <2>1, FS_Injection, FS_Interval
  <2>3. Cardinality(1 .. i) = i /\ Cardinality(p[i] .. n) = n - p[i] + 1
    BY <1>1, FS_Interval
  <2> QED BY <2>2, <2>3
<1>4. \A k \in 1 .. n : n - i + 1 <= k /\ i <= n - k + 1 => k = n + 1 - i
  OBVIOUS
<1> QED BY <1>1, <1>2, <1>3, <1>4

\* The listing reads the ledger backwards.
LEMMA ListsBackwards ==
  ASSUME AllInv, StampInv, NEW w \in Wallets, NEW n, n = Len(ledger[w])
  PROVE  /\ n \in Nat /\ DOMAIN ledger[w] = 1 .. n
         /\ DOMAIN ListTransactions(w) = 1 .. n /\ Len(ListTransactions(w)) = n
         /\ \A i \in 1 .. n : ListTransactions(w)[i] = n + 1 - i
<1> DEFINE Listed(p) ==
      \A i, j \in DOMAIN p : i < j => createdAt[w][p[i]] > createdAt[w][p[j]]
<1>1. n \in Nat /\ DOMAIN ledger[w] = 1 .. n
  BY DEF AllInv, TypeInv, TypeOK, TablesTypeOK
<1>2. PICK at : at = createdAt[w]
  OBVIOUS
<1>3. /\ \A i \in 1 .. n : at[i] \in Nat
      /\ \A i, j \in 1 .. n : i < j => at[i] < at[j]
  <2>1. at \in Seq(Nat) /\ Len(at) = n
    BY <1>2 DEF StampInv, ClockTyped
  <2>2. DOMAIN at = 1 .. n /\ \A i \in 1 .. n : at[i] \in Nat
    BY <1>1, <2>1
  <2>3. \A j \in 1 .. n : \A i \in 1 .. j - 1 : at[i] < at[j]
    BY <1>2, <2>2 DEF StampInv, InOrder
  <2> QED BY <1>1, <2>2, <2>3
<1>4. \E p \in Bijection(1 .. n, 1 .. n) : Listed(p)
  <2>1. PICK p : p = [i \in 1 .. n |-> n + 1 - i]
    OBVIOUS
  <2>2. /\ p \in [1 .. n -> 1 .. n] /\ DOMAIN p = 1 .. n
        /\ \A i \in 1 .. n : p[i] = n + 1 - i
    BY <1>1, <2>1
  <2>3. \A t \in 1 .. n : n + 1 - t \in 1 .. n /\ p[n + 1 - t] = t
    BY <1>1, <2>2
  <2>4. p \in Bijection(1 .. n, 1 .. n)
    <3>1. \A i, j \in 1 .. n : p[i] = p[j] => i = j
      BY <1>1, <2>2
    <3> QED BY <2>2, <2>3, <3>1 DEF Bijection, Injection, Surjection, IsInjective
  <2>5. \A i, j \in 1 .. n : i < j => at[p[i]] > at[p[j]]
    BY <1>1, <1>3, <2>2
  <2> QED BY <1>2, <2>2, <2>4, <2>5
<1>5. /\ ListTransactions(w) \in Bijection(1 .. n, 1 .. n)
      /\ Listed(ListTransactions(w))
  BY <1>1, <1>4 DEF ListTransactions
<1>6. PICK p : p = ListTransactions(w)
  OBVIOUS
<1>7. p \in Bijection(1 .. n, 1 .. n) /\ p \in [1 .. n -> 1 .. n]
  BY <1>5, <1>6 DEF Bijection, Injection
<1>8. \A i, j \in 1 .. n : i < j => p[i] > p[j]
  <2> SUFFICES ASSUME NEW i \in 1 .. n, NEW j \in 1 .. n, i < j PROVE p[i] > p[j]
    OBVIOUS
  <2>1. p[i] \in 1 .. n /\ p[j] \in 1 .. n /\ at[p[i]] > at[p[j]]
    BY <1>2, <1>5, <1>6, <1>7
  <2> QED BY <1>3, <2>1
<1>9. \A i \in 1 .. n : p[i] = n + 1 - i
  BY <1>1, <1>7, <1>8, DecreasingIsReversal
<1>10. Len(p) = n
  BY <1>1, <1>7
<1> QED BY <1>1, <1>6, <1>7, <1>9, <1>10

\* Newest first, the history of a wallet reads as a running balance, for every
\* number of wallets, calls and movements: where no lock expires under a holder
\* at work and the writes of a wallet spell it one way, a write begins its transaction
\* after the commit of every row of its wallet, so that the listing by
\* created_at is the ledger read backwards.
THEOREM HistoryInOrder ==
  ASSUME LockLasts, SameSpelling
  PROVE  HistorySpec => []HistoryReadsInOrder
<1>1. ASSUME AllInv, StampInv PROVE HistoryReadsInOrder
  <2> SUFFICES ASSUME NEW s \in Names, GetTransactions(s) # None
               PROVE  LET w        == Canon[s]
                          listed   == GetTransactions(s)
                          After(i) == IF i > Len(listed) THEN opened[w]
                                      ELSE ledger[w][listed[i]].balance_after
                      IN  /\ After(1) = balance[w]
                          /\ \A i \in DOMAIN listed :
                               After(i) = After(i + 1) + Delta(ledger[w][listed[i]])
    BY DEF HistoryReadsInOrder
  <2>1. PICK w, n : w = Canon[s] /\ n = Len(ledger[w])
    OBVIOUS
  <2>2. w \in Wallets /\ WalletExists(w) /\ GetTransactions(s) = ListTransactions(w)
    BY <2>1, NamesAssumption DEF GetTransactions
  <2>3. PICK listed : listed = ListTransactions(w)
    OBVIOUS
  <2>4. /\ n \in Nat /\ DOMAIN ledger[w] = 1 .. n
        /\ DOMAIN listed = 1 .. n /\ Len(listed) = n
        /\ \A i \in 1 .. n : listed[i] = n + 1 - i
    BY <1>1, <2>1, <2>2, <2>3, ListsBackwards
  <2> DEFINE After(i) == IF i > Len(listed) THEN opened[w]
                         ELSE ledger[w][listed[i]].balance_after
  <2>5. \A i \in 1 .. n + 1 : After(i) = BalanceAfter(w, n + 1 - i)
    BY <2>4 DEF BalanceAfter
  <2>6. /\ balance[w] = BalanceAfter(w, n)
        /\ \A i \in 1 .. n : ledger[w][i].balance_after
                               = BalanceAfter(w, i - 1) + Delta(ledger[w][i])
    BY <1>1, <2>1, <2>2, <2>4 DEF AllInv, MoneyInv, LedgerReconciles
  <2>7. After(1) = balance[w]
    BY <2>4, <2>5, <2>6
  <2>8. ASSUME NEW i \in 1 .. n
        PROVE  After(i) = After(i + 1) + Delta(ledger[w][listed[i]])
    <3>1. /\ n + 1 - i \in 1 .. n /\ listed[i] = n + 1 - i /\ ~(i > Len(listed))
          /\ i + 1 \in 1 .. n + 1 /\ (n + 1 - i) - 1 = n + 1 - (i + 1)
      BY <2>4
    <3>2. After(i) = ledger[w][n + 1 - i].balance_after
      BY <3>1
    <3> QED BY <2>5, <2>6, <3>1, <3>2
  <2> QED BY <2>1, <2>2, <2>3, <2>4, <2>7, <2>8
<1> QED BY <1>1, AlwaysStamps, PTL
=============================================================================
