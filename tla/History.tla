------------------------------ MODULE History -------------------------------
(***************************************************************************)
(* GET /wallets/:id/transactions lists a wallet's rows by created_at.  The *)
(* column defaults to now(), which in Postgres is the time at which the    *)
(* row's transaction began: the driver sends BEGIN in a round trip of its  *)
(* own, before the SELECT ... FOR UPDATE that may have to wait.  This      *)
(* module adds the time of BEGIN to every behaviour of the service.        *)
(***************************************************************************)
EXTENDS WalletCorrectness, SequencesExt

VARIABLES
  clock,      \* Postgres' clock; it ticks whenever a write transaction begins
  began,      \* when the open write transaction of each call began
  createdAt   \* transactions.created_at, of each row of each wallet's ledger

stamps      == <<clock, began, createdAt>>
historyVars == <<vars, stamps>>

HistoryInit ==
  /\ Init
  /\ clock     = 0
  /\ began     = [c \in Calls |-> None]
  /\ createdAt = [w \in Wallets |-> <<>>]

\* Mutant: the session is begun before the wallet's lock is taken.
BeginTransaction_BeforeLock(c) ==
  /\ pc[c] = "acquire" /\ began[c] = None
  /\ clock' = clock + 1
  /\ began' = [began EXCEPT ![c] = clock']
  /\ UNCHANGED <<vars, createdAt>>

\* BEGIN, ahead of the first statement of a write.
BeginTransaction(c) ==
  /\ pc[c] = "select" /\ began[c] = None
  /\ clock' = clock + 1
  /\ began' = [began EXCEPT ![c] = clock']
  /\ UNCHANGED <<vars, createdAt>>

\* Stages in which a write's transaction may be about to begin or be open.
BeforeEnd == {"idle", "acquire", "check", "select"} \cup InTransaction

\* Any step of the service: no statement of a write runs outside its
\* transaction, and a row that is committed keeps the time its writer began.
Stamp ==
  /\ \A c \in Calls :
       pc[c] = "select" /\ pc'[c] \in {"flush", "leave"} => began[c] # None
  /\ began' = [c \in Calls |-> IF pc'[c] \in BeforeEnd THEN began[c] ELSE None]
  /\ createdAt' =
       [w \in Wallets |->
          IF ledger'[w] = ledger[w] THEN createdAt[w]
          ELSE Append(createdAt[w], began[Last(ledger'[w]).call])]
  /\ UNCHANGED clock

HistoryNext == (\E c \in Calls : BeginTransaction(c)) \/ (Next /\ Stamp)

HistorySpec == HistoryInit /\ [][HistoryNext]_historyVars

-----------------------------------------------------------------------------
(* The listing.                                                            *)

\* The places, in the ledger of w, of the rows a client is sent, newest first.
\* The clock has microseconds and an id breaks ties; no two transactions begin
\* at one tick.
ListTransactions(w) ==
  CHOOSE p \in Bijection(DOMAIN ledger[w], DOMAIN ledger[w]) :
    \A i, j \in DOMAIN p : i < j => createdAt[w][p[i]] > createdAt[w][p[j]]

\* What GET answers for a wallet spelled n; None is "not found".  The rows are
\* read in one statement, so no commit falls between two of them.
GetTransactions(n) ==
  IF WalletExists(Canon[n]) THEN ListTransactions(Canon[n]) ELSE None

\* Newest first, the history of a wallet reads as a running balance: every
\* row's balance follows from the next row's, and the first row shows the
\* current balance (tests/test_wallet.py:117-120).  The query never looks at
\* the balance; that begin times agree with the order of commits is due to the
\* Redis lock, inside which a write begins and ends its transaction, whatever
\* fails.  Where the lock does not hold (it expires, or two spellings name two
\* locks) two writers wait for the row lock with transactions already begun.
HistoryReadsInOrder ==
  \A n \in Names :
    LET w        == Canon[n]
        listed   == GetTransactions(n)
        After(i) == IF i > Len(listed) THEN opened[w]
                                       ELSE ledger[w][listed[i]].balance_after
    IN  listed # None =>
          /\ After(1) = balance[w]
          /\ \A i \in DOMAIN listed :
               After(i) = After(i + 1) + Delta(ledger[w][listed[i]])
=============================================================================
