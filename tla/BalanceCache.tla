---------------------------- MODULE BalanceCache ----------------------------
(***************************************************************************)
(* The balance cache in Redis, keyed by the wallet id as the URL spells    *)
(* it.  A write replaces what is there without comparing, and every entry  *)
(* has a time to live.                                                     *)
(***************************************************************************)
EXTENDS WalletData

VARIABLE cache   \* the balance cached under each spelling, None on a miss

CacheInit   == cache = [n \in Names |-> None]
CacheTypeOK == cache \in [Names -> Paise \cup {None}]

CacheHit(n)      == cache[n] # None
SetCached(n, v)  == cache' = [cache EXCEPT ![n] = v]

\* Mutant: entries without a time to live.
ExpireCached_NoTTL(n) == n \notin Names /\ UNCHANGED cache

ExpireCached(n)  == CacheHit(n) /\ cache' = [cache EXCEPT ![n] = None]
=============================================================================
