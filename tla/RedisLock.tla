----------------------------- MODULE RedisLock ------------------------------
(***************************************************************************)
(* The per-wallet lock in Redis.  Its name is built from the wallet id as  *)
(* the URL spells it, so two spellings of one wallet are two locks.  Every *)
(* acquisition writes a token of its own and a release deletes the lock    *)
(* only when the token matches, so the holder is identified by its call.   *)
(***************************************************************************)
EXTENDS WalletData

VARIABLE lock   \* the call whose token each lock holds, None when it is free

LockInit   == lock = [n \in Names |-> None]
LockTypeOK == lock \in [Names -> Calls \cup {None}]

LockFree(n) == lock[n] = None

\* SET NX PX succeeds.
TakeLock(n, c) == LockFree(n) /\ lock' = [lock EXCEPT ![n] = c]

\* Mutant: DEL, whatever the token.
DropLock_AnyToken(n, c) ==
  c \in Calls /\ lock' = [lock EXCEPT ![n] = None]

\* A release after the lock expired finds no token, or another holder's: the
\* LockError is suppressed and nothing is deleted.
DropLock(n, c) ==
  lock' = [lock EXCEPT ![n] = IF @ = c THEN None ELSE @]

\* Mutant: a lock without a time to live.
ExpireLock_NoTTL(n) == n \notin Names /\ UNCHANGED lock

\* The lock's time to live runs out, whether or not its holder still works.
ExpireLock(n) == ~LockFree(n) /\ lock' = [lock EXCEPT ![n] = None]
=============================================================================
