------------------------------ MODULE Payment -------------------------------
(***************************************************************************)
(* What the order service may rely on when it pays for orders through the  *)
(* wallet service: an order is charged at most once and only while it is   *)
(* being asked for, and a definite answer is the truth.  The one thing it  *)
(* cannot rely on is a refusal after it gave up on an attempt that the     *)
(* service still carries out: that attempt may yet charge the order.  Once *)
(* it has, whoever asks again is not refused.                              *)
(***************************************************************************)
EXTENDS Naturals

CONSTANT Orders

VARIABLES
  charges,   \* how many times money was taken for each order
  told,      \* what the answers so far say of each order
  late,      \* the orders with an attempt that was given up on
  settled    \* the orders that had been charged when they were last asked for

payment == <<charges, told, late, settled>>

PaymentInit ==
  /\ charges = [o \in Orders |-> 0]
  /\ told    = [o \in Orders |-> "nothing"]
  /\ late    = {}
  /\ settled = {}

\* The order is asked for.  What is paid stays paid.
Ask(o) ==
  /\ told'    = [told EXCEPT ![o] = IF @ = "paid" THEN "paid" ELSE "doubt"]
  /\ settled' = IF charges[o] = 0 THEN settled ELSE settled \cup {o}
  /\ UNCHANGED <<charges, late>>

GiveUp(o) == late' = late \cup {o} /\ UNCHANGED <<charges, told, settled>>

\* Never a second time, and never for two orders in one step.
Charge(o) ==
  /\ charges[o] = 0 /\ (told[o] = "doubt" \/ o \in late)
  /\ charges' = [charges EXCEPT ![o] = 1]
  /\ UNCHANGED <<told, late, settled>>

TellPaid(o) ==
  /\ charges[o] = 1
  /\ told' = [told EXCEPT ![o] = "paid"]
  /\ UNCHANGED <<charges, late, settled>>

TellRefused(o) ==
  /\ told[o] # "paid" /\ (charges[o] = 0 \/ o \in late \ settled)
  /\ told' = [told EXCEPT ![o] = "refused"]
  /\ UNCHANGED <<charges, late, settled>>

PaymentNext ==
  \E o \in Orders : Ask(o) \/ GiveUp(o) \/ Charge(o) \/ TellPaid(o) \/ TellRefused(o)

PaymentSpec == PaymentInit /\ [][PaymentNext]_payment

-----------------------------------------------------------------------------

\* What follows from it: no order is charged twice, a paid one was charged, and
\* a refused one was not, unless by an attempt that was given up on and since
\* the order was last asked for.
PaymentKept ==
  \A o \in Orders :
    /\ charges[o] \in {0, 1}
    /\ told[o] = "paid" => charges[o] = 1
    /\ told[o] = "refused" => charges[o] = 0 \/ o \in late \ settled
=============================================================================
