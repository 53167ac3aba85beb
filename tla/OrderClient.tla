---------------------------- MODULE OrderClient -----------------------------
(***************************************************************************)
(* The order service, as its stub shows it, in front of the wallet         *)
(* service: an order is a deduct of a fixed amount whose idempotency key   *)
(* is the order's id, sent again as often as one likes, whatever came of   *)
(* the attempt before.  The client waits five seconds for an answer, which *)
(* is no longer than the service may wait for the wallet's lock alone, so  *)
(* an attempt may go on after its client has left.                         *)
(***************************************************************************)
EXTENDS WalletCorrectness

CONSTANTS
  Orders,        \* ids of orders
  ShopWallet,    \* the spelling of the wallet that pays for them
  OrderAmount    \* ORDER_AMOUNT_PAISE

VARIABLES
  attempt,       \* the call each order's client waits for, None if for none
  abandoned,     \* calls that clients stopped waiting for while they ran
  told,          \* what the answers so far say of each order
  settled        \* history: orders that had been charged when last placed

client     == <<attempt, abandoned, told, settled>>
clientVars == <<vars, client>>

\* The deduct that place_order sends.  The key goes into the header, the order's
\* id once more into the body as its reference.
OrderRequest(o) ==
  [op |-> DEDUCT, name |-> ShopWallet, amount |-> OrderAmount,
   key |-> IdempotencyKey(o, None), original |-> None, note |-> o]

ASSUME OrdersAssumption ==
  /\ Orders \subseteq Keys \cap Notes
  /\ OrderAmount \in Nat \ {0}
  /\ \A o \in Orders : OrderRequest(o) \in Requests

Attempts(o)  == {c \in Calls : req[c] = OrderRequest(o)}
ChargesOf(o) == {t \in KnownTxs : req[Tx(t).call] = OrderRequest(o)}

ClientInit ==
  /\ Init
  /\ attempt   = [o \in Orders |-> None]
  /\ abandoned = {}
  /\ told      = [o \in Orders |-> "nothing"]
  /\ settled   = {}

\* place_order, for the first time or again.
PlaceOrder(o) ==
  /\ attempt[o] = None /\ WalletExists(Canon[ShopWallet])
  /\ \E c \in Calls : /\ Receive(c) /\ req'[c] = OrderRequest(o)
                      /\ attempt' = [attempt EXCEPT ![o] = c]
  /\ told' = [told EXCEPT ![o] = IF @ = "paid" THEN "paid" ELSE "doubt"]
  /\ settled' = IF ChargesOf(o) = {} THEN settled ELSE settled \cup {o}
  /\ UNCHANGED abandoned

StopWaiting(o) == attempt' = [attempt EXCEPT ![o] = None]

\* Mutant: "ask again" is read as "no".
Inconclusive_ErrorsOnly(code) == code = "internal_error"

\* Answers that leave open whether the order was charged, by an attempt before.
Inconclusive(code) == code \in {"internal_error", "wallet_busy"}

\* The response arrives: 201 or 200, a refusal, or 500 or 503.
GetAnswer(o) ==
  LET c == attempt[o]
  IN  /\ c # None /\ pc[c] = "done" /\ StopWaiting(o)
      /\ told' =
           IF Inconclusive(reply[c].code) THEN told
           ELSE [told EXCEPT ![o] = IF reply[c].code \in {"created", "replay"}
                                    THEN "paid" ELSE "refused"]
      /\ UNCHANGED <<vars, abandoned, settled>>

\* The worker died: the connection is closed without a response.
ConnectionLost(o) ==
  /\ attempt[o] # None /\ pc[attempt[o]] = "crashed" /\ StopWaiting(o)
  /\ UNCHANGED <<vars, abandoned, told, settled>>

\* TIMEOUT_SECONDS pass.  Nothing tells the service, whose call goes on.
TimeOut(o) ==
  /\ attempt[o] # None /\ StopWaiting(o)
  /\ abandoned' = IF pc[attempt[o]] \in Ended THEN abandoned
                                              ELSE abandoned \cup {attempt[o]}
  /\ UNCHANGED <<vars, told, settled>>

\* The service, its faults and its other clients.
OtherStep ==
  /\ Next
  /\ \A o \in Orders : Attempts(o)' = Attempts(o)
  /\ UNCHANGED client

ClientNext ==
  \/ \E o \in Orders : PlaceOrder(o) \/ GetAnswer(o) \/ ConnectionLost(o) \/ TimeOut(o)
  \/ OtherStep

ClientSpec == ClientInit /\ [][ClientNext]_clientVars

-----------------------------------------------------------------------------
(* Properties.                                                             *)

Late(o) == Attempts(o) \cap abandoned # {}

\* An order whose client was told that it is paid was charged exactly once, for
\* its amount, however often it was sent and whatever became of the attempts.
PaidOrdersAreCharged ==
  \A o \in Orders : told[o] = "paid" =>
    \E t \in KnownTxs : /\ ChargesOf(o) = {t}
                        /\ t[1] = Canon[ShopWallet] /\ Tx(t).type = DEDUCT
                        /\ Tx(t).amount = OrderAmount

\* An order whose client was told that it is refused was not charged: not by an
\* attempt that ended with an error, a lost connection or a lost COMMIT before
\* either.  Only an attempt that ran on after its client timed out may charge it
\* at the time of the refusal or later; to ask once more is then enough to hear
\* that it is paid, however little the wallet has left.
RefusedOrdersAreNotCharged ==
  \A o \in Orders : told[o] = "refused" =>
    ChargesOf(o) = {} \/ (Late(o) /\ o \notin settled)

\* "order_id is the idempotency key, so retries are safe" (order_service_stub.py:33),
\* as the abstract specification Payment spells it out: over a service with locks,
\* caches, crashes and retries every ledger row of an order is a charge, there is
\* never a second one, a paid order is not refused afterwards, and no charge comes
\* out of nothing.
Promised == INSTANCE Payment WITH
  charges <- [o \in Orders |-> Cardinality(ChargesOf(o))],
  late    <- {o \in Orders : Late(o)}
ImplementsPayment == Promised!PaymentSpec
=============================================================================
