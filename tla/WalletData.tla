----------------------------- MODULE WalletData -----------------------------
(***************************************************************************)
(* The data the wallet service exchanges and stores: wallets and the       *)
(* spellings of their ids, idempotency keys, requests, ledger rows,        *)
(* idempotency records and replies.  Amounts are integer paise.            *)
(*                                                                         *)
(* A transaction id (a fresh UUID in the code) is named by the place its   *)
(* row takes in the ledger: <<w, i>> is the i-th committed row of wallet   *)
(* w.  <<w, 0>> is an id no row ever has.                                  *)
(***************************************************************************)
EXTENDS Integers, Sequences

CONSTANTS
  Wallets,    \* ids of wallet rows, in the canonical spelling Postgres returns
  Names,      \* every spelling of a wallet id that a URL may carry
  Canon,      \* the wallet that Postgres' uuid input reads a spelling as
  Keys,       \* idempotency keys
  Notes,      \* the body fields no rule reads: reference_id, or a refund's reason
  Calls,      \* HTTP calls; a retry or a duplicate is a call of its own
  Requests,   \* the requests a call may carry
  Openings,   \* initial balances that wallets are created with
  MaxPaise,   \* the largest value a BIGINT column stores
  None        \* Python's None and SQL's NULL

TOPUP  == "topup"
DEDUCT == "deduct"
REFUND == "refund"
READ   == "balance"
REFUNDABLE_TYPES == {TOPUP, DEDUCT}
MovementTypes    == {TOPUP, DEDUCT, REFUND}

Paise == 0 .. MaxPaise
TxIds == Wallets \X Nat

\* What a client sends: an operation on the wallet it spells `name`.  Only a
\* refund carries `original`; a refund and a read carry no amount.
RequestSpace ==
  [op: MovementTypes \cup {READ}, name: Names, amount: Int,
   key: Keys \cup {None}, original: TxIds \cup {None}, note: Notes]

\* The key a request is served under: the header wins over the body, and an
\* empty header is none.
IdempotencyKey(header, body) == IF header # None THEN header ELSE body

\* The digest of a request.  SHA-256 is taken to be injective; the reference id
\* and the reason are not part of it, and a refund has no amount of its own.
Fingerprint(r) ==
  IF r.op = REFUND THEN <<r.op, r.name, r.original>>
                   ELSE <<r.op, r.name, r.op, r.amount>>

\* A row of `transactions`.  `call`, the HTTP call that wrote it, is the only
\* field that is no column: it lets properties say who moved the money.
Row(Balances) ==
  [type: MovementTypes, amount: Int, balance_after: Balances,
   original: TxIds \cup {None}, note: Notes, call: Calls]
Transaction == Row(Paise)
Draft       == Row(Int)

\* The fields of a response body that the properties tell apart.
Body == [id: TxIds \cup {None}, balance_after: Paise]

\* A row of `processed_requests`; its status_code is always 201.
ProcessedRequest ==
  [wallet: Wallets, fingerprint: {Fingerprint(r) : r \in Requests}, body: Body]

\* Outcomes a client can tell apart: the successes (201, 200 replay, 200 read)
\* and the error codes.
BusinessErrors ==
  {"wallet_not_found", "transaction_not_found", "transaction_not_refundable",
   "transaction_already_refunded", "refund_would_overdraw",
   "idempotency_conflict", "insufficient_balance"}
Codes == {"created", "replay", "ok", "invalid_request", "wallet_busy",
          "internal_error"} \cup BusinessErrors
Reply == [code: Codes, body: Body \cup {None}]

\* None is no value of any other kind.
Values == Wallets \cup Names \cup Keys \cup Calls \cup Int \cup TxIds
            \cup Draft \cup Body \cup ProcessedRequest \cup Reply \cup Requests
            \cup Codes

ASSUME NamesAssumption ==
  /\ Wallets \subseteq Names
  /\ Canon \in [Names -> Wallets]
  /\ \A w \in Wallets : Canon[w] = w
ASSUME RequestsAssumption == Requests \subseteq RequestSpace
ASSUME PaiseAssumption    == MaxPaise \in Nat /\ Openings \subseteq Paise
ASSUME NoneAssumption     == None \notin Values
=============================================================================
