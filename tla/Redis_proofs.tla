---------------------------- MODULE Redis_proofs ----------------------------
(***************************************************************************)
(* Proofs about what the service keeps in Redis: what a cached balance may *)
(* be, whose lock a call may free, and the one promise to a client that    *)
(* rests on the lock.                                                      *)
(***************************************************************************)
EXTENDS Replies_proofs

-----------------------------------------------------------------------------
(* Locks.                                                                   *)

\* How the locks change: only the call that holds one gives it back.
LEMMA LockChanges ==
  ASSUME TypeInv, [Next]_vars, NEW n \in Names, lock'[n] # lock[n]
  PROVE  \/ \E c \in Calls : /\ pc[c] = "acquire" /\ n = Name(c)
                             /\ lock[n] = None /\ lock'[n] = c
                             /\ Step(c) \/ Fault(c)
         \/ \E c \in Calls : /\ pc[c] \in {"release", "leave"} /\ lock[n] = c
                             /\ lock'[n] = None
                             /\ pc'[c] \in {"refresh", "done"} /\ n = Name(c)
         \/ LockExpires(n)
<1>1. TypeOK /\ lock \in [Names -> Calls \cup {None}]
  BY DEF TypeInv, TypeOK, LockTypeOK
<1>2. ASSUME NEW c \in Calls, TakeLock(Name(c), c), pc[c] = "acquire",
             Step(c) \/ Fault(c)
      PROVE  /\ n = Name(c) /\ lock[n] = None /\ lock'[n] = c
             /\ pc[c] = "acquire" /\ (Step(c) \/ Fault(c))
  BY <1>1, <1>2 DEF TakeLock, LockFree
<1>3. ASSUME NEW c \in Calls, DropLock(Name(c), c), pc[c] \in {"release", "leave"},
             Goto(c, "refresh") \/ Goto(c, "done")
      PROVE  /\ pc[c] \in {"release", "leave"} /\ lock[n] = c /\ lock'[n] = None
             /\ pc'[c] \in {"refresh", "done"} /\ n = Name(c)
  <2>1. lock[n] = c /\ lock'[n] = None /\ n = Name(c)
    BY <1>1, <1>3 DEF DropLock
  <2>2. pc'[c] \in {"refresh", "done"}
    BY <1>1, <1>3 DEF Goto, TypeOK
  <2> QED BY <1>3, <2>1, <2>2
<1>4. ASSUME NEW c \in Calls, Receive(c) PROVE FALSE
  BY <1>4 DEF Receive
<1>5. ASSUME NEW c \in Calls, Step(c)
      PROVE  AcquireLock(c) \/ Release(c) \/ Leave(c)
  BY <1>5 DEF Step, LockBusy, Check, SelectForUpdate, Flush, RecordKey, Commit,
     Recheck, Refresh, LookupCache, LoadBalance
<1>6. ASSUME NEW c \in Calls, Fault(c) PROVE RedisFails(c)
  BY <1>6 DEF Fault, Crash, DatabaseFails, CommitUnacknowledged
<1>7. ASSUME NEW c \in Calls, AcquireLock(c)
      PROVE  /\ n = Name(c) /\ lock[n] = None /\ lock'[n] = c
             /\ pc[c] = "acquire" /\ (Step(c) \/ Fault(c))
  BY <1>2, <1>7 DEF AcquireLock, Step
<1>8. ASSUME NEW c \in Calls, Release(c) \/ Leave(c)
      PROVE  /\ pc[c] \in {"release", "leave"} /\ lock[n] = c /\ lock'[n] = None
             /\ pc'[c] \in {"refresh", "done"} /\ n = Name(c)
  BY <1>3, <1>8 DEF Release, Leave
<1>9. ASSUME NEW c \in Calls, RedisFails(c)
      PROVE  \/ /\ n = Name(c) /\ lock[n] = None /\ lock'[n] = c
                /\ pc[c] = "acquire" /\ (Step(c) \/ Fault(c))
             \/ /\ pc[c] \in {"release", "leave"} /\ lock[n] = c
                /\ lock'[n] = None
                /\ pc'[c] \in {"refresh", "done"} /\ n = Name(c)
  <2>1. Fault(c) /\ Goto(c, "done")
    BY <1>9 DEF RedisFails, Fault
  <2>2. \/ pc[c] = "acquire" /\ TakeLock(Name(c), c)
        \/ pc[c] \in {"release", "leave"} /\ DropLock(Name(c), c)
    BY <1>9 DEF RedisFails
  <2> QED BY <1>2, <1>3, <2>1, <2>2
<1>10. ASSUME NEW m \in Names, LockExpires(m) PROVE m = n
  BY <1>1, <1>10 DEF LockExpires, ExpireLock
<1>11. ASSUME NEW m \in Names, CacheExpires(m) PROVE FALSE
  BY <1>11 DEF CacheExpires
<1>12. ASSUME NEW w \in Wallets, NEW v \in Openings, CreateWallet(w, v)
       PROVE FALSE
  BY <1>12 DEF CreateWallet
<1>13. ~UNCHANGED vars
  BY DEF vars
<1> QED BY <1>4, <1>5, <1>6, <1>7, <1>8, <1>9, <1>10, <1>11, <1>12, <1>13
        DEF Next, Quiescent

\* wallet_lock gives back its own token or nothing: a holder that comes back
\* after its lock expired does not let a third call in beside the second.
THEOREM LocksCorrect == Spec => FreesOwnLockOnly
<1> DEFINE OwnOnly ==
      \A n \in Names : lock[n] # None /\ lock'[n] # lock[n]
        => \/ pc'[lock[n]] # pc[lock[n]]
           \/ ExpireLock(n) /\ UNCHANGED calls
<1>1. ASSUME TypeInv, [Next]_vars PROVE OwnOnly
  <2> SUFFICES ASSUME NEW n \in Names, lock[n] # None, lock'[n] # lock[n]
               PROVE  \/ pc'[lock[n]] # pc[lock[n]]
                      \/ ExpireLock(n) /\ UNCHANGED calls
    OBVIOUS
  <2> QED BY <1>1, LockChanges DEF LockExpires
<1>2. TypeInv /\ [Next]_vars => [OwnOnly]_vars
  BY <1>1
<1>3. FreesOwnLockOnly <=> [][OwnOnly]_vars
  BY DEF FreesOwnLockOnly
<1> HIDE DEF OwnOnly
<1> QED BY <1>2, <1>3, AlwaysTyped, PTL DEF Spec

-----------------------------------------------------------------------------
(* Waiting.  A call only moves forward, so that it ends after a bounded      *)
(* number of steps of its own; what remains is that it never waits in a      *)
(* circle.                                                                   *)

Rank(stage) ==
  CASE stage = "idle" -> 0
    [] stage \in {"acquire", "lookup"} -> 1
    [] stage \in {"check", "load"} -> 2
    [] stage = "select" -> 3
    [] stage = "flush" -> 4
    [] stage = "record" -> 5
    [] stage = "commit" -> 6
    [] stage = "recheck" -> 7
    [] stage \in {"release", "leave"} -> 8
    [] stage = "refresh" -> 9
    [] stage \in Ended -> 10

LEMMA Ranks ==
  /\ Rank("idle") = 0 /\ Rank("acquire") = 1 /\ Rank("lookup") = 1
  /\ Rank("check") = 2 /\ Rank("load") = 2 /\ Rank("select") = 3
  /\ Rank("flush") = 4 /\ Rank("record") = 5 /\ Rank("commit") = 6
  /\ Rank("recheck") = 7 /\ Rank("release") = 8 /\ Rank("leave") = 8
  /\ Rank("refresh") = 9 /\ Rank("done") = 10 /\ Rank("crashed") = 10
  BY DEF Rank, Ended

LEMMA StepAdvances ==
  ASSUME TypeInv, NEW c \in Calls, Receive(c) \/ Step(c) \/ Fault(c)
  PROVE  Rank(pc[c]) < Rank(pc'[c])
<1> DEFINE Ahead(stage) == stage \in Stages /\ Rank(pc[c]) < Rank(stage)
<1>1. ASSUME NEW stage, Goto(c, stage), Ahead(stage)
      PROVE  Rank(pc[c]) < Rank(pc'[c])
  BY <1>1, WentTo
<1>2. CASE Receive(c)
  <2>1. \E stage \in {"lookup", "acquire", "done"} : Goto(c, stage) /\ Ahead(stage)
    BY <1>2, Ranks DEF Receive, Stages, Ended
  <2> QED BY <1>1, <2>1
<1>3. CASE AcquireLock(c) \/ LockBusy(c)
  <2>1. \E stage \in {"select", "check", "done"} : Goto(c, stage) /\ Ahead(stage)
    BY <1>3, Ranks DEF AcquireLock, LockBusy, Stages, Ended
  <2> QED BY <1>1, <2>1
<1>4. CASE Check(c) \/ SelectForUpdate(c)
  <2>1. \E stage \in {"leave", "select", "flush"} : Goto(c, stage) /\ Ahead(stage)
    BY <1>4, Ranks DEF Check, SelectForUpdate, Stages, InTransaction
  <2> QED BY <1>1, <2>1
<1>5. CASE Flush(c) \/ RecordKey(c)
  <2>1. \E stage \in {"leave", "recheck", "commit", "record"} :
          Goto(c, stage) /\ Ahead(stage)
    BY <1>5, Ranks DEF Flush, RecordKey, Stages, InTransaction
  <2> QED BY <1>1, <2>1
<1>6. CASE Commit(c) \/ Recheck(c)
  <2>1. \E stage \in {"release", "leave"} : Goto(c, stage) /\ Ahead(stage)
    BY <1>6, Ranks DEF Commit, Recheck, Stages
  <2> QED BY <1>1, <2>1
<1>7. CASE Release(c) \/ Leave(c) \/ Refresh(c)
  <2>1. \E stage \in {"refresh", "done"} : Goto(c, stage) /\ Ahead(stage)
    BY <1>7, Ranks DEF Release, Leave, Refresh, Stages, Ended
  <2> QED BY <1>1, <2>1
<1>8. CASE LookupCache(c) \/ LoadBalance(c)
  <2>1. \E stage \in {"load", "refresh", "done"} : Goto(c, stage) /\ Ahead(stage)
    BY <1>8, Ranks DEF LookupCache, LoadBalance, Stages, Ended
  <2> QED BY <1>1, <2>1
<1>9. CASE Crash(c) \/ RedisFails(c)
  <2>1. \A stage \in Stages \ Ended : Rank(stage) < 10
    BY Ranks DEF Stages, Ended, InTransaction
  <2>2. pc[c] \in Stages \ Ended
    BY <1>9 DEF Crash, RedisFails, TypeInv, TypeOK, Stages, Ended
  <2>3. \E stage \in Ended : Goto(c, stage)
    BY <1>9 DEF Crash, RedisFails, Ended
  <2> QED BY <1>1, <2>1, <2>2, <2>3, Ranks DEF Stages, Ended
<1>10. CASE DatabaseFails(c) \/ CommitUnacknowledged(c)
  <2>1. \E stage \in {"leave", "done"} : Goto(c, stage) /\ Ahead(stage)
    BY <1>10, Ranks
       DEF DatabaseFails, CommitUnacknowledged, Stages, Ended, InTransaction
  <2> QED BY <1>1, <2>1
<1> QED BY <1>2, <1>3, <1>4, <1>5, <1>6, <1>7, <1>8, <1>9, <1>10 DEF Step, Fault

LEMMA Advances ==
  ASSUME TypeInv, [Next]_vars, NEW c \in Calls, pc'[c] # pc[c]
  PROVE  Rank(pc[c]) < Rank(pc'[c])
<1>1. \/ UNCHANGED calls
      \/ \E d \in Calls : Receive(d) \/ Step(d) \/ Fault(d)
  BY OneCallMoves
<1> QED BY <1>1, OthersStay, StepAdvances DEF calls

\* A call that has not been received still has not: nothing makes it idle again.
LEMMA IdleBefore ==
  ASSUME TypeInv, [Next]_vars, NEW c \in Calls, pc'[c] = "idle"
  PROVE  pc[c] = "idle" /\ req'[c] = req[c]
<1>1. /\ pc[c] \in Stages
      /\ \A stage \in Stages : Rank(stage) \in Nat
      /\ \A i \in Nat : ~(i < 0)
  BY Ranks DEF TypeInv, TypeOK, Stages, Ended, InTransaction
<1>2. ~(Rank(pc[c]) < Rank("idle"))
  BY <1>1, Ranks
<1>3. pc[c] = "idle"
  BY <1>2, Advances
<1>4. ~Receive(c)
  BY <1>2, StepAdvances
<1>5. ASSUME NEW e \in Calls \ {c}, Receive(e) PROVE req'[c] = req[c]
  BY <1>5 DEF Receive, TypeInv, TypeOK
<1>6. ASSUME NEW e \in Calls, Step(e) PROVE req'[c] = req[c]
  BY <1>6 DEF Step, AcquireLock, LockBusy, Check, SelectForUpdate, Flush,
     RecordKey, Commit, Recheck, Release, Leave, Refresh, LookupCache,
     LoadBalance
<1>7. ASSUME NEW e \in Calls, Fault(e) PROVE req'[c] = req[c]
  BY <1>7 DEF Fault, Crash, RedisFails, DatabaseFails, CommitUnacknowledged
<1> QED BY <1>3, <1>4, <1>5, <1>6, <1>7, OneCallMoves DEF calls

\* No call goes back: it is answered, or dies, after at most seven round trips of
\* its own, faults or not (the safety half of EveryCallAnswered).
CallsMoveForward ==
  [][\A c \in Calls : pc'[c] # pc[c] => Rank(pc[c]) < Rank(pc'[c])]_vars

THEOREM CallsRunOut == Spec => CallsMoveForward
<1> DEFINE Forward ==
      \A c \in Calls : pc'[c] # pc[c] => Rank(pc[c]) < Rank(pc'[c])
<1>1. TypeInv /\ [Next]_vars => [Forward]_vars
  BY Advances
<1>2. CallsMoveForward <=> [][Forward]_vars
  BY DEF CallsMoveForward
<1> HIDE DEF Forward
<1> QED BY <1>1, <1>2, AlwaysTyped, PTL DEF Spec

\* Only a call that took a lock has it.
LockHeld ==
  \A n \in Names, c \in Calls : lock[n] = c => pc[c] \notin {"idle", "acquire"}

LEMMA NextHeld == TypeInv /\ LockHeld /\ [Next]_vars => LockHeld'
<1> SUFFICES ASSUME TypeInv, LockHeld, [Next]_vars, NEW n \in Names,
                    NEW c \in Calls, lock'[n] = c
             PROVE  pc'[c] \notin {"idle", "acquire"}
  BY DEF LockHeld
<1>1. /\ pc[c] \in Stages /\ c # None
      /\ Rank(pc[c]) \in Nat
      /\ pc[c] \notin {"idle", "acquire"} => Rank(pc[c]) >= 1
  BY Ranks, NoneAssumption
     DEF TypeInv, TypeOK, Values, Stages, Ended, InTransaction
<1>2. ASSUME Rank(pc[c]) >= 1, Rank(pc[c]) < Rank(pc'[c])
      PROVE  pc'[c] \notin {"idle", "acquire"}
  <2>1. \A i : Rank(pc[c]) < i => i # 0 /\ i # 1
    BY <1>1, <1>2
  <2> QED BY <1>2, <2>1, Ranks
<1>3. CASE lock[n] = c
  <2>1. pc[c] \notin {"idle", "acquire"} /\ Rank(pc[c]) >= 1
    BY <1>1, <1>3 DEF LockHeld
  <2> QED BY <1>2, <2>1, Advances
<1>4. CASE lock[n] # c
  <2>1. pc[c] = "acquire" /\ (Step(c) \/ Fault(c))
    <3>1. ~LockExpires(n)
      BY <1>1 DEF LockExpires, ExpireLock, TypeInv, TypeOK, LockTypeOK
    <3> QED BY <1>1, <1>4, <3>1, LockChanges
  <2> QED BY <1>2, <2>1, StepAdvances, Ranks
<1> QED BY <1>3, <1>4

\* Who waits has come less far than the call it waits for.
Depth(stage) ==
  CASE stage = "idle" -> 0 [] stage = "acquire" -> 1 [] stage = "select" -> 2
    [] stage = "record" -> 3 [] OTHER -> 4

LEMMA WaitsDeeper ==
  ASSUME TypeInv, MoneyInv, LockHeld, NEW c \in Calls, NEW d \in Calls,
         WaitsFor(c, d)
  PROVE  /\ Depth(pc[c]) \in 1 .. 3 /\ Depth(pc[d]) \in 2 .. 4
         /\ Depth(pc[c]) < Depth(pc[d])
         /\ pc[c] # "acquire" => pc[d] \in InTransaction
<1>1. CASE pc[c] = "acquire" /\ lock[Name(c)] = d
  <2>1. Name(c) \in Names
    BY <1>1, NameTyped
  <2>2. pc[d] \notin {"idle", "acquire"}
    BY <1>1, <2>1 DEF LockHeld
  <2> QED BY <1>1, <2>2 DEF Depth
<1>2. CASE pc[c] = "select" /\ rowLock[Wallet(c)] = d
  <2>1. Wallet(c) \in Wallets
    BY <1>2, NameTyped
  <2>2. pc[d] \in InTransaction
    BY <1>2, <2>1 DEF MoneyInv, Locked
  <2> QED BY <1>2, <2>2 DEF Depth, InTransaction
<1>3. CASE pc[c] = "record" /\ Inserted(d, req[c].key)
  BY <1>3 DEF Depth, Inserted, InTransaction
<1> QED BY <1>1, <1>2, <1>3 DEF WaitsFor

\* Every write takes the Redis lock, the row lock and its key in this order:
\* whatever wallets share a key and whatever spellings share a wallet, no calls
\* wait for each other in a circle, and a wait in Postgres, which has no limit, is
\* for a transaction that is still open.
THEOREM WaitsEnd == Spec => []NoDeadlock
<1>1. Init => LockHeld
  BY NoneAssumption DEF Init, LockInit, LockHeld, Values
<1>2. ASSUME TypeInv, MoneyInv, LockHeld PROVE NoDeadlock
  <2>1. ASSUME NEW S \in (SUBSET Calls) \ {{}}, NEW f \in S,
               \A c \in S : \E d \in S : WaitsFor(c, d)
        PROVE  FALSE
    <3>1. PICK c1 \in S : WaitsFor(f, c1)
      BY <2>1
    <3>2. PICK c2 \in S : WaitsFor(c1, c2)
      BY <2>1
    <3>3. PICK c3 \in S : WaitsFor(c2, c3)
      BY <2>1
    <3>4. PICK c4 \in S : WaitsFor(c3, c4)
      BY <2>1
    <3>5. /\ Depth(pc[f]) \in 1 .. 3 /\ Depth(pc[f]) < Depth(pc[c1])
          /\ Depth(pc[c1]) \in 1 .. 3 /\ Depth(pc[c1]) < Depth(pc[c2])
          /\ Depth(pc[c2]) \in 1 .. 3 /\ Depth(pc[c2]) < Depth(pc[c3])
          /\ Depth(pc[c3]) \in 1 .. 3
      BY <1>2, <3>1, <3>2, <3>3, <3>4, WaitsDeeper
    <3>6. \A i, j, k, l \in 1 .. 3 : ~(i < j /\ j < k /\ k < l)
      OBVIOUS
    <3> QED BY <3>5, <3>6
  <2>2. ASSUME NEW S \in (SUBSET Calls) \ {{}}
        PROVE  \E c \in S : \A d \in S : ~WaitsFor(c, d)
    <3>1. PICK f \in S : TRUE
      OBVIOUS
    <3>2. CASE \A c \in S : \E d \in S : WaitsFor(c, d)
      BY <2>1, <3>1, <3>2
    <3> QED BY <3>2
  <2>3. ASSUME NEW c \in Calls, NEW d \in Calls, WaitsFor(c, d), pc[c] # "acquire"
        PROVE  pc[d] \in InTransaction
    BY <1>2, <2>3, WaitsDeeper
  <2> QED BY <2>2, <2>3 DEF NoDeadlock
<1>3. TypeInv /\ LockHeld /\ [Next]_vars => LockHeld'
  BY NextHeld
<1>4. TypeInv /\ MoneyInv /\ LockHeld => NoDeadlock
  BY <1>2
<1> QED BY <1>1, <1>3, <1>4, AlwaysTyped, AlwaysMoney, PTL DEF Spec

-----------------------------------------------------------------------------
(* The cache.  What will be cached is a balance the wallet has had since     *)
(* before the lock was given back; time only adds to the past.              *)

PastBalance(w, v) ==
  WalletExists(w) /\ \E i \in 0 .. Len(ledger[w]) : v = BalanceAfter(w, i)

Carries(c) ==
  pc[c] \in {"release", "refresh"} =>
    PastBalance(Wallet(c), reply[c].body.balance_after)

CacheInv ==
  /\ \A n \in Names : CacheHit(n) => PastBalance(Canon[n], cache[n])
  /\ \A c \in Calls : Carries(c)

LEMMA InitCached == Init => CacheInv
  BY DEF Init, CacheInit, CacheInv, CacheHit, Carries

\* A past balance stays one.
LEMMA PastStays ==
  ASSUME AllInv, [Next]_vars, NEW w \in Wallets, NEW v, PastBalance(w, v)
  PROVE  PastBalance(w, v)'
<1>1. PICK i \in 0 .. Len(ledger[w]) : v = BalanceAfter(w, i)
  BY DEF PastBalance
<1>2. WalletExists(w) /\ ledger[w] \in Seq(Transaction) /\ Len(ledger[w]) \in Nat
  BY DEF PastBalance, AllInv, TypeInv, TypeOK, TablesTypeOK
<1>3. CASE UNCHANGED tables
  BY <1>1, <1>2, <1>3 DEF PastBalance, tables, WalletExists, BalanceAfter
<1>4. ASSUME NEW u \in Wallets, NEW x \in Openings, CreateWallet(u, x)
      PROVE  PastBalance(w, v)'
  <2>1. /\ u # w /\ balance'[w] = balance[w] /\ opened'[w] = opened[w]
        /\ ledger' = ledger
    BY <1>2, <1>4 DEF CreateWallet, AllInv, TypeInv, TypeOK, TablesTypeOK
  <2> QED BY <1>1, <1>2, <2>1 DEF PastBalance, WalletExists, BalanceAfter
<1>5. ASSUME NEW c \in Calls, pc[c] = "commit", ApplyDraft(c)
      PROVE  PastBalance(w, v)'
  <2>0. PICK u, n : u = Wallet(c) /\ n = Len(ledger[u])
    OBVIOUS
  <2>1. /\ u \in Wallets /\ n \in Nat /\ draft[c] \in Transaction
        /\ balance'[u] = draft[c].balance_after
        /\ DOMAIN ledger[u] = 1 .. n /\ Len(ledger'[u]) = n + 1
        /\ \A j \in 1 .. n : ledger'[u][j] = ledger[u][j]
        /\ \A x \in Wallets \ {u} : /\ ledger'[x] = ledger[x]
                                    /\ balance'[x] = balance[x]
        /\ opened' = opened
    BY <1>5, <2>0, ApplyDraftShape DEF AllInv
  <2>2. balance'[u] # None
    BY <2>1, NoneAssumption DEF Transaction, Row, Paise, Values
  <2>3. CASE w # u
    BY <1>1, <1>2, <2>1, <2>3 DEF PastBalance, WalletExists, BalanceAfter
  <2>4. CASE w = u
    <3>1. i \in 0 .. n /\ i \in 0 .. n + 1
      BY <1>1, <2>0, <2>1, <2>4
    <3>2. BalanceAfter(w, i)' = BalanceAfter(w, i)
      BY <2>1, <2>4, <3>1 DEF BalanceAfter
    <3> QED BY <1>1, <2>1, <2>2, <2>4, <3>1, <3>2 DEF PastBalance, WalletExists
  <2> QED BY <2>3, <2>4
<1> QED BY <1>3, <1>4, <1>5, TablesChange

\* The balance of a committed row, and the stored one, are of the past.
LEMMA RowsArePast ==
  ASSUME AllInv, NEW w \in Wallets, NEW i \in DOMAIN ledger[w]
  PROVE  PastBalance(w, ledger[w][i].balance_after)
<1>1. /\ ledger[w] \in Seq(Transaction) /\ i \in Nat \ {0}
      /\ DOMAIN ledger[w] = 1 .. Len(ledger[w]) /\ Len(ledger[w]) \in Nat
  BY RowsTyped DEF AllInv, TypeInv, TypeOK, TablesTypeOK
<1>2. ledger[w] # <<>>
  BY <1>1
<1>3. WalletExists(w)
  BY <1>2 DEF AllInv, MoneyInv, LedgerReconciles
<1>4. i \in 0 .. Len(ledger[w]) /\ BalanceAfter(w, i) = ledger[w][i].balance_after
  BY <1>1 DEF BalanceAfter
<1> QED BY <1>3, <1>4 DEF PastBalance

LEMMA StoredIsPast ==
  ASSUME AllInv, NEW w \in Wallets, WalletExists(w)
  PROVE  PastBalance(w, balance[w])
<1>1. Len(ledger[w]) \in Nat
  BY DEF AllInv, TypeInv, TypeOK, TablesTypeOK
<1>2. balance[w] = BalanceAfter(w, Len(ledger[w]))
  BY DEF AllInv, MoneyInv, LedgerReconciles
<1> QED BY <1>1, <1>2 DEF PastBalance

\* What the call of a step is about to cache.
LEMMA CallCarries ==
  ASSUME AllInv, [Next]_vars, NEW c \in Calls, Carries(c),
         Receive(c) \/ Step(c) \/ Fault(c)
  PROVE  Carries(c)'
<1> SUFFICES ASSUME pc'[c] \in {"release", "refresh"} PROVE Carries(c)'
  BY DEF Carries
<1>1. TypeInv /\ TypeOK
  BY DEF AllInv, TypeInv
<1>2. ASSUME NEW stage \in Stages, Goto(c, stage) PROVE stage \in {"release", "refresh"}
  BY <1>1, <1>2, WentTo
<1>3. \/ Commit(c) \/ Recheck(c) \/ Release(c) \/ LoadBalance(c)
  <2>1. ~(Receive(c) \/ AcquireLock(c) \/ LockBusy(c) \/ Check(c)
          \/ SelectForUpdate(c))
    BY <1>2 DEF Receive, AcquireLock, LockBusy, Check, SelectForUpdate, Stages,
       Ended, InTransaction
  <2>2. ~(Flush(c) \/ RecordKey(c) \/ Leave(c) \/ Refresh(c) \/ LookupCache(c))
    BY <1>2 DEF Flush, RecordKey, Leave, Refresh, LookupCache, Stages, Ended,
       InTransaction
  <2>3. ~Fault(c)
    BY <1>2 DEF Fault, Crash, RedisFails, DatabaseFails, CommitUnacknowledged,
       Stages, Ended
  <2> QED BY <2>1, <2>2, <2>3 DEF Step
<1>4. pc[c] # "idle" /\ Wallet(c) \in Wallets /\ Wallet(c)' = Wallet(c)
  <2>1. pc[c] # "idle" /\ req' = req
    BY <1>3 DEF Commit, Recheck, Release, LoadBalance
  <2> QED BY <1>1, <2>1, NameTyped DEF Wallet
<1>5. CASE Commit(c)
  <2>0. PICK w, n : w = Wallet(c) /\ n = Len(ledger[w])
    OBVIOUS
  <2>1. /\ w \in Wallets /\ n \in Nat /\ Len(ledger'[w]) = n + 1
        /\ ledger'[w][n + 1] = draft[c] /\ draft[c] \in Transaction
        /\ balance'[w] = draft[c].balance_after
    BY <1>1, <1>5, <2>0, ApplyDraftShape DEF Commit
  <2>2. CreatedBody(c) \in Body /\ Compose(c, "created", CreatedBody(c))
    BY <1>1, <1>5, ApplyDraftTyped DEF Commit
  <2>3. reply'[c] = [code |-> "created", body |-> CreatedBody(c)]
    BY <1>1, <2>2, Replied DEF Codes
  <2>4. reply'[c].body.balance_after = ledger'[w][n + 1].balance_after
    BY <2>1, <2>3 DEF CreatedBody
  <2>5. BalanceAfter(w, n + 1)' = ledger'[w][n + 1].balance_after
    BY <2>1 DEF BalanceAfter
  <2>6. WalletExists(w)'
    BY <2>1, NoneAssumption
       DEF WalletExists, Transaction, Row, Paise, Values
  <2>7. n + 1 \in 0 .. Len(ledger'[w])
    BY <2>1
  <2> QED BY <1>4, <2>0, <2>4, <2>5, <2>6, <2>7 DEF Carries, PastBalance
<1>6. CASE Recheck(c)
  <2>1. pc[c] = "recheck" /\ req[c].key # None /\ Recorded(req[c].key)
    BY <1>6 DEF Recheck, AllInv, KeyInv, Found
  <2>2. req[c].key \in Keys
    BY <2>1, RequestsAssumption
       DEF AllInv, TypeInv, CallOK, Received, RequestSpace
  <2>3. AnswerFromRecord(c) /\ SameRequest(req[c])
    <3>1. /\ AnswerFromRecord(c)
          /\ Goto(c, IF SameRequest(req[c]) THEN "release" ELSE "leave")
      BY <1>6, <2>1 DEF Recheck
    <3> QED BY <1>2, <3>1 DEF Stages
  <2>4. PICK t \in KnownTxs :
          /\ processed[req[c].key].body =
               [id |-> t, balance_after |-> Tx(t).balance_after]
          /\ t[1] = Wallet(c) /\ t[2] \in DOMAIN ledger[Wallet(c)]
    BY <2>1, <2>2, <2>3, ReplayMatches
  <2>5. reply'[c].body.balance_after = ledger[Wallet(c)][t[2]].balance_after
    BY <1>1, <2>3, <2>4 DEF AnswerFromRecord, Compose, TypeOK, Tx
  <2>6. PastBalance(Wallet(c), ledger[Wallet(c)][t[2]].balance_after)
    BY <1>4, <2>4, RowsArePast
  <2>7. UNCHANGED tables
    BY <1>6 DEF Recheck
  <2> QED BY <1>4, <2>5, <2>6, <2>7
          DEF Carries, PastBalance, tables, WalletExists, BalanceAfter
<1>7. CASE Release(c)
  <2>1. pc[c] = "release" /\ UNCHANGED <<tables, reply>>
    BY <1>7 DEF Release
  <2> QED BY <1>4, <2>1
          DEF Carries, PastBalance, tables, WalletExists, BalanceAfter
<1>8. CASE LoadBalance(c)
  <2>1. WalletExists(Wallet(c))
    BY <1>2, <1>8 DEF LoadBalance, Stages, Ended
  <2>2. balance[Wallet(c)] \in Paise
    BY <1>1, <1>4, <2>1 DEF TypeOK, TablesTypeOK, WalletExists
  <2>3. /\ Compose(c, "ok", BalanceBody(balance[Wallet(c)]))
        /\ UNCHANGED tables
    BY <1>8, <2>1 DEF LoadBalance, StoredBalance
  <2>4. reply'[c].body = BalanceBody(balance[Wallet(c)])
    <3>1. "ok" \in Codes /\ BalanceBody(balance[Wallet(c)]) \in Body
      BY <2>2, BalanceBodyTyped DEF Codes
    <3>2. reply'[c] = [code |-> "ok", body |-> BalanceBody(balance[Wallet(c)])]
      BY <1>1, <2>3, <3>1, Replied
    <3> QED BY <3>2
  <2>5. PastBalance(Wallet(c), balance[Wallet(c)])
    BY <1>4, <2>1, StoredIsPast
  <2> QED BY <1>4, <2>3, <2>4, <2>5
          DEF Carries, PastBalance, tables, WalletExists, BalanceAfter,
              BalanceBody
<1> QED BY <1>3, <1>5, <1>6, <1>7, <1>8

\* How the cache changes.
LEMMA CacheChanges ==
  ASSUME AllInv, [Next]_vars, NEW n \in Names, cache'[n] # cache[n]
  PROVE  \/ cache'[n] = None
         \/ \E c \in Calls : /\ pc[c] = "refresh" /\ n = Name(c)
                             /\ cache'[n] = reply[c].body.balance_after
         \/ \E w \in Wallets, v \in Openings :
              CreateWallet(w, v) /\ n = w /\ cache'[n] = v
<1>1. cache \in [Names -> Paise \cup {None}]
  BY DEF AllInv, TypeInv, TypeOK, CacheTypeOK
<1>2. ASSUME NEW m, NEW v, SetCached(m, v) PROVE n = m /\ cache'[n] = v
  BY <1>1, <1>2 DEF SetCached
<1>3. ASSUME NEW c \in Calls, Receive(c) PROVE FALSE
  BY <1>3 DEF Receive
<1>4. ASSUME NEW c \in Calls, Step(c) PROVE Refresh(c)
  BY <1>4 DEF Step, AcquireLock, LockBusy, Check, SelectForUpdate, Flush,
     RecordKey, Commit, Recheck, Release, Leave, LookupCache, LoadBalance
<1>5. ASSUME NEW c \in Calls, Fault(c) PROVE RedisFails(c)
  BY <1>5 DEF Fault, Crash, DatabaseFails, CommitUnacknowledged
<1>6. ASSUME NEW c \in Calls, Refresh(c) \/ RedisFails(c)
      PROVE  /\ pc[c] = "refresh" /\ n = Name(c)
             /\ cache'[n] = reply[c].body.balance_after
  <2>1. pc[c] = "refresh" /\ SetCached(Name(c), reply[c].body.balance_after)
    BY <1>6 DEF Refresh, RedisFails
  <2> QED BY <1>2, <2>1
<1>7. ASSUME NEW w \in Wallets, NEW v \in Openings, CreateWallet(w, v)
      PROVE  n = w /\ cache'[n] = v
  <2>1. SetCached(w, v)
    BY <1>7 DEF CreateWallet
  <2> QED BY <1>2, <2>1
<1>8. ASSUME NEW m \in Names, LockExpires(m) PROVE FALSE
  BY <1>8 DEF LockExpires
<1>9. ASSUME NEW m \in Names, CacheExpires(m) PROVE cache'[n] = None
  BY <1>1, <1>9 DEF CacheExpires, ExpireCached
<1>10. ~UNCHANGED vars
  BY DEF vars
<1> QED BY <1>3, <1>4, <1>5, <1>6, <1>7, <1>8, <1>9, <1>10 DEF Next, Quiescent

LEMMA NextCached == AllInv /\ CacheInv /\ [Next]_vars => CacheInv'
<1> SUFFICES ASSUME AllInv, CacheInv, [Next]_vars PROVE CacheInv'
  OBVIOUS
<1>1. ASSUME NEW n \in Names, CacheHit(n)'
      PROVE  PastBalance(Canon[n], cache[n])'
  <2>0. PICK x, w : x = cache'[n] /\ w = Canon[n]
    OBVIOUS
  <2>1. w \in Wallets
    BY <2>0, NamesAssumption
  <2>2. ASSUME PastBalance(w, x) PROVE PastBalance(Canon[n], cache[n])'
    <3>1. PastBalance(w, x)'
      BY <2>1, <2>2, PastStays
    <3> QED BY <2>0, <3>1 DEF PastBalance
  <2>3. CASE cache'[n] = cache[n]
    BY <1>1, <2>0, <2>2, <2>3 DEF CacheInv, CacheHit
  <2>4. ASSUME NEW c \in Calls, pc[c] = "refresh", n = Name(c),
               cache'[n] = reply[c].body.balance_after
        PROVE  PastBalance(Canon[n], cache[n])'
    <3>1. Wallet(c) = w
      BY <2>0, <2>4 DEF Name, Wallet
    <3> QED BY <2>0, <2>2, <2>4, <3>1 DEF CacheInv, Carries
  <2>5. ASSUME NEW u \in Wallets, NEW v \in Openings, CreateWallet(u, v),
               n = u, cache'[n] = v
        PROVE  PastBalance(Canon[n], cache[n])'
    <3>1. w = u /\ v # None /\ ledger' = ledger /\ Len(ledger[u]) \in Nat
          /\ balance'[u] = v /\ opened'[u] = v
      BY <2>0, <2>5, NamesAssumption, PaiseAssumption, NoneAssumption
         DEF CreateWallet, AllInv, TypeInv, TypeOK, TablesTypeOK, Paise, Values
    <3>2. BalanceAfter(u, 0)' = v
      BY <3>1 DEF BalanceAfter
    <3> QED BY <2>0, <2>5, <3>1, <3>2 DEF PastBalance, WalletExists
  <2> QED BY <1>1, <2>3, <2>4, <2>5, CacheChanges DEF CacheHit
<1>2. ASSUME NEW d \in Calls PROVE Carries(d)'
  <2>1. Carries(d)
    BY DEF CacheInv
  <2>2. CASE Receive(d) \/ Step(d) \/ Fault(d)
    BY <2>1, <2>2, CallCarries
  <2>3. ASSUME pc'[d] = pc[d], reply'[d] = reply[d] PROVE Carries(d)'
    <3> SUFFICES ASSUME pc[d] \in {"release", "refresh"}
                 PROVE  PastBalance(Wallet(d), reply[d].body.balance_after)'
      BY <2>3 DEF Carries
    <3>0. PICK x, w : x = reply[d].body.balance_after /\ w = Wallet(d)
      OBVIOUS
    <3>1. PastBalance(w, x) /\ w \in Wallets
      BY <2>1, <3>0, NameTyped DEF Carries, AllInv
    <3>2. PastBalance(w, x)'
      BY <3>1, PastStays
    <3>3. Wallet(d)' = w
      BY <3>0, RequestsStay DEF Wallet, AllInv
    <3> QED BY <2>3, <3>0, <3>2, <3>3 DEF PastBalance
  <2>4. \/ Receive(d) \/ Step(d) \/ Fault(d)
        \/ pc'[d] = pc[d] /\ reply'[d] = reply[d]
    <3>1. \/ UNCHANGED calls
          \/ \E c \in Calls : Receive(c) \/ Step(c) \/ Fault(c)
      BY OneCallMoves
    <3> QED BY <3>1, OthersStay DEF calls, AllInv
  <2> QED BY <2>2, <2>3, <2>4
<1> QED BY <1>1, <1>2 DEF CacheInv

LEMMA AlwaysCached == Spec => [](AllInv /\ CacheInv)
<1>1. Init => AllInv /\ CacheInv
  BY InitTyped, InitMoney, InitKeys, InitCached DEF AllInv
<1>2. AllInv /\ CacheInv /\ [Next]_vars => (AllInv /\ CacheInv)'
  BY NextTyped, NextMoney, NextKeys, NextCached DEF AllInv
<1> QED BY <1>1, <1>2, PTL DEF Spec

\* The cache may lag but never shows money that was not there: whichever write
\* or read comes last to set_cached_balance, and under whichever spelling, the
\* value is one the wallet had after some committed movement.
THEOREM CacheCorrect == Spec => []CacheHoldsPastBalance
<1>1. CacheInv => CacheHoldsPastBalance
  BY DEF CacheInv, CacheHoldsPastBalance, PastBalance
<1> QED BY <1>1, AlwaysCached, PTL

-----------------------------------------------------------------------------
(* The one promise that needs the Redis lock, and what else it needs: that   *)
(* no lock expires under a holder at work, and that requests with a key      *)
(* spell their wallet as Postgres does.                                      *)

LockLasts     == "expiry" \notin Faults
CanonicalKeys == \A r \in Requests : r.key # None => Canon[r.name] = r.name

Holding == {"check", "select", "recheck", "release", "leave"} \cup InTransaction
Holds(c) == pc[c] \in Holding => lock[Name(c)] = c

\* Past the key check, and while its caller holds the lock, no equal request has
\* taken effect.
Unserved(c) ==
  pc[c] = "select" /\ req[c].key # None =>
    \A d \in Calls : req[d] = req[c] => RowsOf(d) = {}

RetryInv == \A c \in Calls : Holds(c) /\ Unserved(c)

LEMMA InitRetries == Init => RetryInv
  BY DEF Init, RetryInv, Holds, Unserved, Holding, InTransaction

\* The lock is the only way in.
LEMMA EntersByLock ==
  ASSUME TypeInv, [Next]_vars, NEW c \in Calls, pc[c] \notin Holding,
         pc'[c] \in Holding
  PROVE  AcquireLock(c)
<1>1. ASSUME NEW stage \in Stages, Goto(c, stage) PROVE stage \in Holding
  BY <1>1, WentTo
<1>2. CASE Receive(c)
  BY <1>1, <1>2 DEF Receive, Stages, Ended, Holding, InTransaction
<1>3. CASE Step(c)
  <2>1. ~(LockBusy(c) \/ Refresh(c) \/ LookupCache(c) \/ LoadBalance(c))
    BY <1>1 DEF LockBusy, Refresh, LookupCache, LoadBalance, Stages, Ended,
       Holding, InTransaction
  <2>2. ~(Check(c) \/ SelectForUpdate(c) \/ Flush(c) \/ RecordKey(c)
          \/ Commit(c) \/ Recheck(c) \/ Release(c) \/ Leave(c))
    BY DEF Check, SelectForUpdate, Flush, RecordKey, Commit, Recheck, Release,
       Leave, Holding, InTransaction
  <2> QED BY <1>3, <2>1, <2>2 DEF Step
<1>4. CASE Fault(c)
  <2>1. ~(Crash(c) \/ RedisFails(c))
    BY <1>1 DEF Crash, RedisFails, Stages, Ended, Holding, InTransaction
  <2>2. ~CommitUnacknowledged(c)
    BY DEF CommitUnacknowledged, Holding, InTransaction
  <2>3. ~DatabaseFails(c)
    BY <1>1 DEF DatabaseFails, Stages, Ended, Holding, InTransaction
  <2> QED BY <1>4, <2>1, <2>2, <2>3 DEF Fault
<1>5. pc'[c] # pc[c]
  OBVIOUS
<1>6. \/ UNCHANGED calls
      \/ \E d \in Calls : Receive(d) \/ Step(d) \/ Fault(d)
  BY OneCallMoves
<1> QED BY <1>2, <1>3, <1>4, <1>5, <1>6, OthersStay DEF calls

LEMMA NextHolds ==
  ASSUME LockLasts, TypeInv, [Next]_vars, NEW c \in Calls, Holds(c)
  PROVE  Holds(c)'
<1> SUFFICES ASSUME pc'[c] \in Holding PROVE lock'[Name(c)'] = c
  BY DEF Holds
<1>1. CASE pc[c] \notin Holding
  <2>1. AcquireLock(c)
    BY <1>1, EntersByLock
  <2>2. pc[c] = "acquire" /\ TakeLock(Name(c), c) /\ req' = req
    BY <2>1 DEF AcquireLock
  <2>3. Name(c) \in Names /\ Name(c)' = Name(c)
    BY <2>2, NameTyped DEF Name
  <2> QED BY <2>2, <2>3 DEF TakeLock, TypeInv, TypeOK, LockTypeOK
<1>2. CASE pc[c] \in Holding
  <2>1. lock[Name(c)] = c /\ pc[c] # "idle"
    BY <1>2 DEF Holds, Holding, InTransaction
  <2>2. Name(c) \in Names /\ Name(c)' = Name(c)
    BY <2>1, NameTyped, RequestsStay DEF Name
  <2>3. lock'[Name(c)] = lock[Name(c)]
    <3> SUFFICES ASSUME lock'[Name(c)] # lock[Name(c)] PROVE FALSE
      OBVIOUS
    <3>1. lock[Name(c)] # None
      BY <2>1, NoneAssumption DEF Values
    <3>2. pc'[c] \notin {"refresh", "done"}
      BY DEF Holding, InTransaction
    <3>3. LockExpires(Name(c))
      BY <2>1, <2>2, <3>1, <3>2, LockChanges
    <3> QED BY <1>2, <2>1, <3>3
            DEF LockExpires, LockLasts, Ended, Holding, InTransaction
  <2> QED BY <2>1, <2>2, <2>3
<1> QED BY <1>1, <1>2

LEMMA SelectedFrom ==
  ASSUME TypeInv, [Next]_vars, NEW c \in Calls, pc'[c] = "select",
         req[c].key # None
  PROVE  \/ pc[c] = "select"
         \/ Check(c) /\ ~Recorded(req[c].key)
<1> SUFFICES ASSUME pc[c] # "select"
             PROVE  Check(c) /\ ~Recorded(req[c].key)
  OBVIOUS
<1>1. ASSUME NEW stage \in Stages, Goto(c, stage) PROVE stage = "select"
  BY <1>1, WentTo
<1>2. ~Receive(c)
  BY <1>1 DEF Receive, Stages, Ended
<1>3. ~Fault(c)
  BY <1>1 DEF Fault, Crash, RedisFails, DatabaseFails, CommitUnacknowledged,
     Stages, Ended
<1>4. Step(c) => Check(c)
  <2>1. ~(AcquireLock(c) \/ LockBusy(c) \/ SelectForUpdate(c))
    BY <1>1 DEF AcquireLock, LockBusy, SelectForUpdate, Stages, Ended
  <2>2. ~(Flush(c) \/ RecordKey(c) \/ Commit(c) \/ Recheck(c))
    BY <1>1 DEF Flush, RecordKey, Commit, Recheck, Stages, Ended, InTransaction
  <2>3. ~(Release(c) \/ Leave(c) \/ Refresh(c) \/ LookupCache(c)
          \/ LoadBalance(c))
    BY <1>1 DEF Release, Leave, Refresh, LookupCache, LoadBalance, Stages, Ended
  <2> QED BY <2>1, <2>2, <2>3 DEF Step
<1>5. Check(c) => ~Recorded(req[c].key)
  BY <1>1 DEF Check, Stages
<1>6. \/ UNCHANGED calls
      \/ \E d \in Calls : Receive(d) \/ Step(d) \/ Fault(d)
  BY OneCallMoves
<1> QED BY <1>2, <1>3, <1>4, <1>5, <1>6, OthersStay DEF calls

\* Whoever wrote a row under a key left the record of that row.
LEMMA KeyedRow ==
  ASSUME AllInv, NEW d \in Calls, RowsOf(d) # {}, req[d].key # None
  PROVE  /\ Recorded(req[d].key) /\ req[d].key \in Keys
         /\ processed[req[d].key].wallet = Wallet(d)
         /\ processed[req[d].key].fingerprint = Fingerprint(req[d])
         /\ WalletExists(Wallet(d)) /\ pc[d] # "idle"
<1>1. PICK t \in KnownTxs : Tx(t).call = d
  BY DEF RowsOf
<1>2. PICK w \in Wallets : \E i \in DOMAIN ledger[w] : t = <<w, i>>
  BY KnownRows
<1>3. PICK i \in DOMAIN ledger[w] : t = <<w, i>>
  BY <1>2
<1>4. ledger[w][i].call = d /\ Written(w, i)
  BY <1>1, <1>3 DEF Tx, AllInv, KeyInv
<1>5. Wallet(d) = w /\ pc[d] # "idle"
  BY <1>4 DEF Written, Wallet, Finishing, Ended
<1>6. processed[req[d].key] = RowRecord(w, i) /\ RowRecord(w, i) # None
  BY <1>4, KeyAppliedOnceByRow, RowRecordTyped
     DEF AllInv, KeyInv, RowsAndRecords, RowKey
<1>7. req[d].key \in Keys
  BY <1>5, RequestsAssumption
     DEF AllInv, TypeInv, CallOK, Received, RequestSpace
<1>8. WalletExists(w)
  <2>1. ledger[w] # <<>>
    BY <1>3
  <2> QED BY <2>1 DEF AllInv, MoneyInv, LedgerReconciles
<1> QED BY <1>4, <1>5, <1>6, <1>7, <1>8 DEF RowRecord, Recorded

LEMMA NextUnserved ==
  ASSUME AllInv, RetryInv, [Next]_vars, NEW c \in Calls
  PROVE  Unserved(c)'
<1> SUFFICES ASSUME pc'[c] = "select", req'[c].key # None,
                    NEW d \in Calls, req'[d] = req'[c]
             PROVE  RowsOf(d)' = {}
  BY DEF Unserved
<1>1. pc[c] # "idle" /\ req'[c] = req[c]
  <2>1. pc[c] # "idle"
    <3>1. pc[c] \in Holding \/ AcquireLock(c)
      BY EntersByLock DEF AllInv, Holding
    <3> QED BY <3>1 DEF AcquireLock, Holding, InTransaction
  <2> QED BY <2>1, RequestsStay DEF AllInv
<1>2. CASE pc[d] = "idle"
  BY <1>2, NoRowYet, RowsGrow DEF Finishing, Ended
<1>3. CASE pc[d] # "idle"
  <2>1. req[d] = req[c]
    BY <1>1, <1>3, RequestsStay DEF AllInv
  <2>2. CASE pc[c] = "select"
    <3>1. RowsOf(d) = {} /\ Holds(c) /\ Holds(d)
      BY <1>1, <2>1, <2>2 DEF RetryInv, Unserved
    <3>2. pc[d] # "commit"
      BY <2>1, <2>2, <3>1 DEF Holds, Holding, InTransaction, Name
    <3> QED BY <3>1, <3>2, RowsGrow
  <2>3. CASE Check(c) /\ ~Recorded(req[c].key)
    <3>1. RowsOf(d) = {}
      BY <1>1, <2>1, <2>3, KeyedRow
    <3>2. RowsOf(d)' = RowsOf(d)
      BY <2>3 DEF Check, tables, RowsOf, KnownTxs, Tx
    <3> QED BY <3>1, <3>2
  <2> QED BY <1>1, <2>2, <2>3, SelectedFrom DEF AllInv
<1> QED BY <1>2, <1>3

\* In the canonical spelling, a record is refused only to a different request.
LEMMA SameIsServed ==
  ASSUME CanonicalKeys, AllInv, NEW c \in Calls, NEW d \in Calls,
         pc[c] \in {"check", "recheck"}, req[d] = req[c], RowsOf(d) # {},
         req[c].key # None
  PROVE  SameRequest(req[c])
<1>1. /\ processed[req[c].key].wallet = Wallet(d)
      /\ processed[req[c].key].fingerprint = Fingerprint(req[c])
  BY KeyedRow
<1>2. Wallet(d) = req[c].name
  <2>1. req[c] \in Requests
    BY DEF AllInv, TypeInv, CallOK, Received
  <2> QED BY <2>1 DEF CanonicalKeys, Wallet
<1> QED BY <1>1, <1>2 DEF SameRequest

LEMMA RetryStep ==
  ASSUME CanonicalKeys, AllInv, RetryInv, [Next]_vars,
         NEW c \in Calls, NEW d \in Calls, reply[c] = None, reply'[c] # None,
         reply'[c].code \in BusinessErrors, req[c].key # None,
         req[d] = req[c], RowsOf(d) # {}
  PROVE  FALSE
<1>1. TypeInv /\ TypeOK
  BY DEF AllInv, TypeInv
<1>2. ASSUME NEW code \in Codes \ BusinessErrors,
             NEW body \in Body \cup {None}, Compose(c, code, body)
      PROVE  FALSE
  <2>1. reply'[c] = [code |-> code, body |-> body]
    BY <1>1, <1>2, Replied
  <2> QED BY <2>1
<1>3. /\ Recorded(req[c].key) /\ WalletExists(Wallet(c)) /\ Wallet(c) = Wallet(d)
  BY KeyedRow DEF Wallet
<1>4. ~Receive(c)
  <2>1. Receive(c) => Compose(c, "invalid_request", None) \/ UNCHANGED reply
    BY DEF Receive, Raise
  <2> QED BY <1>2, <2>1 DEF Codes, BusinessErrors
<1>5. ~(AcquireLock(c) \/ LockBusy(c) \/ Release(c) \/ Leave(c) \/ Refresh(c)
        \/ Flush(c) \/ RecordKey(c))
  <2>1. AcquireLock(c) \/ LockBusy(c) \/ Release(c) \/ Leave(c) \/ Refresh(c)
        \/ Flush(c) \/ RecordKey(c)
        => \/ Compose(c, "wallet_busy", None)
           \/ Compose(c, "internal_error", None)
           \/ UNCHANGED reply
    BY DEF AcquireLock, LockBusy, Release, Leave, Refresh, Flush, RecordKey,
       Raise
  <2> QED BY <1>2, <2>1 DEF Codes, BusinessErrors
<1>6. ASSUME pc[c] \in {"check", "recheck"}, AnswerFromRecord(c)
      PROVE  FALSE
  <2>1. SameRequest(req[c]) /\ req[c].key \in Keys
    BY <1>6, SameIsServed, KeyedRow
  <2>2. PICK t \in KnownTxs :
          processed[req[c].key].body =
            [id |-> t, balance_after |-> Tx(t).balance_after]
    BY <1>3, <1>6, <2>1, ReplayMatches
  <2>3. reply'[c].code = "replay"
    BY <1>1, <1>6, <2>1 DEF AnswerFromRecord, Compose, TypeOK
  <2> QED BY <2>3 DEF BusinessErrors
<1>7. ~(Check(c) \/ Recheck(c))
  BY <1>3, <1>6 DEF Check, Recheck
<1>8. ~SelectForUpdate(c)
  BY DEF SelectForUpdate, RetryInv, Unserved
<1>9. ~Commit(c)
  <2>1. pc[c] = "commit" /\ ApplyDraft(c) => CreatedBody(c) \in Body
    BY <1>1, ApplyDraftTyped
  <2> QED BY <1>2, <2>1 DEF Commit, Codes, BusinessErrors
<1>10. ~(LookupCache(c) \/ LoadBalance(c))
  <2>1. ASSUME LookupCache(c) \/ LoadBalance(c) PROVE FALSE
    <3>1. Name(c) \in Names /\ Wallet(c) \in Wallets
      BY <1>1, <2>1, NameTyped DEF LookupCache, LoadBalance
    <3>2. balance[Wallet(c)] \in Paise
      BY <1>1, <1>3, <3>1 DEF TypeOK, TablesTypeOK, WalletExists
    <3>3. CacheHit(Name(c)) => cache[Name(c)] \in Paise
      BY <1>1, <3>1 DEF TypeOK, CacheTypeOK, CacheHit
    <3>4. \/ UNCHANGED reply
          \/ \E v \in Paise : Compose(c, "ok", BalanceBody(v))
      BY <1>3, <2>1, <3>2, <3>3 DEF LookupCache, LoadBalance, StoredBalance
    <3> QED BY <1>2, <3>4, BalanceBodyTyped DEF Codes, BusinessErrors
  <2> QED BY <2>1
<1>11. ~Fault(c)
  <2>1. Fault(c) => Compose(c, "internal_error", None) \/ reply'[c] = None
    BY <1>1 DEF Fault, Crash, RedisFails, DatabaseFails, CommitUnacknowledged,
       Raise, TypeOK
  <2> QED BY <1>2, <2>1 DEF Codes, BusinessErrors
<1>12. ~Step(c)
  BY <1>5, <1>7, <1>8, <1>9, <1>10 DEF Step
<1>13. \/ UNCHANGED calls
       \/ \E e \in Calls : Receive(e) \/ Step(e) \/ Fault(e)
  BY OneCallMoves
<1> QED BY <1>1, <1>4, <1>11, <1>12, <1>13, OthersStay DEF calls

\* A retry gets the original response: once a request has taken effect, no
\* repetition of it under its key is refused by a rule, even when the balance is
\* spent meanwhile.  The row lock alone does not give this: it takes wallet_lock,
\* provided that no lock expires under a holder at work and that the requests
\* with a key spell their wallet as Postgres does; the other requests, and what
\* else fails, may be anything.
THEOREM RetriesCorrect ==
  ASSUME LockLasts, CanonicalKeys
  PROVE  Spec => RetryGetsOriginal
<1> DEFINE Lasting ==
      \A c, d \in Calls :
        /\ reply[c] = None /\ reply'[c] # None /\ reply'[c].code \in BusinessErrors
        /\ req[c].key # None
        => ~(req[d] = req[c] /\ RowsOf(d) # {})
<1>1. Init => AllInv /\ RetryInv
  BY InitTyped, InitMoney, InitKeys, InitRetries DEF AllInv
<1>2. ASSUME AllInv, RetryInv, [Next]_vars PROVE RetryInv'
  BY <1>2, NextHolds, NextUnserved DEF RetryInv, AllInv
<1>3. AllInv /\ RetryInv /\ [Next]_vars => (AllInv /\ RetryInv)'
  BY <1>2, NextTyped, NextMoney, NextKeys DEF AllInv
<1>4. AllInv /\ RetryInv /\ [Next]_vars => [Lasting]_vars
  BY RetryStep
<1>5. RetryGetsOriginal <=> [][Lasting]_vars
  BY DEF RetryGetsOriginal
<1> HIDE DEF Lasting
<1> QED BY <1>1, <1>3, <1>4, <1>5, PTL DEF Spec
=============================================================================
