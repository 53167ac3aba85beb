------------------------------ MODULE DocClaims -----------------------------
(***************************************************************************)
(* What the documents, comments and tests of the repository say of the     *)
(* service and the code does not do.  Each claim is quoted with its place; *)
(* the run that refutes it is named in the README.  RetryGetsOriginal of   *)
(* WalletCorrectness, which holds while no lock expires under a live       *)
(* holder and every URL spells its wallet the canonical way, belongs here  *)
(* too once either happens.                                                *)
(***************************************************************************)
EXTENDS WalletCorrectness, FiniteSetsExt

\* "final balance is 0" (README.md:307-308, asserted through GET /balance at
\* tests/test_wallet.py:157): when every write has been answered, a balance read
\* shows what the writes left.  set_cached_balance runs after the lock is
\* released, so an older balance can overwrite a newer one.
ReadAfterWritesIsExact ==
  (\A c \in Calls : pc[c] \in Ended \cup {"idle"})
    => \A n \in Names : cache[n] \in {None, balance[Canon[n]]}

\* "Redis is down | Balance reads fall back to Postgres" (README.md:334): a
\* balance read is answered from Postgres, not with an internal error.
ReadsSurviveRedis ==
  \A c \in Calls : pc[c] = "done" /\ req[c].op = READ
                     => reply[c].code \in {"ok", "wallet_not_found"}

\* "the balance can always be re-derived from the ledger" (README.md:233-234):
\* the rows of a wallet add up to its balance.
BalanceIsLedgerSum ==
  \A w \in Wallets : WalletExists(w) =>
    balance[w] = MapThenSumSet(LAMBDA i : Delta(ledger[w][i]), DOMAIN ledger[w])

\* "the same key with a different body is a conflict" (models.py:109): a replay
\* answers the request, reference id and reason included, that was recorded.
ReplayHasSameBody ==
  \A c \in Calls : reply[c] # None /\ reply[c].code = "replay"
                     => req[c] = req[Tx(reply[c].body.id).call]
=============================================================================
