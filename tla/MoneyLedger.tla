----------------------------- MODULE MoneyLedger -----------------------------
(***************************************************************************)
(* What the order flow promises about money, with no service, queue or     *)
(* retry in sight.  Money moves at the payment provider first; the books    *)
(* follow, never run ahead of the provider, and never forget.               *)
(***************************************************************************)
EXTENDS Integers, FiniteSets

CONSTANTS Orders, Total

VARIABLES
  paid,        \* orders the buyer has paid for
  recognised,  \* orders the books hold as paid
  refunded,    \* cents given back on each order
  made,        \* refunds made on each order
  booked       \* refunds of each order that the books show, by position

ledgerVars == <<paid, recognised, refunded, made, booked>>

Init ==
  /\ paid = {}
  /\ recognised = {}
  /\ refunded = [o \in Orders |-> 0]
  /\ made = [o \in Orders |-> 0]
  /\ booked = [o \in Orders |-> {}]

\* The buyer pays, once.
PayOnce(o) ==
  /\ o \notin paid
  /\ paid' = paid \cup {o}
  /\ UNCHANGED <<recognised, refunded, made, booked>>

\* Money is given back, within what was paid.
GiveBack(o) ==
  /\ o \in paid
  /\ \E cents \in 1 .. (Total - refunded[o]) :
       refunded' = [refunded EXCEPT ![o] = @ + cents]
  /\ made' = [made EXCEPT ![o] = @ + 1]
  /\ UNCHANGED <<paid, recognised, booked>>

\* The books take note of a payment.
Recognise(o) ==
  /\ o \in paid
  /\ recognised' = recognised \cup {o}
  /\ UNCHANGED <<paid, refunded, made, booked>>

\* The books take note of refunds that have been made.
Book(o) ==
  /\ o \in paid
  /\ \E ids \in SUBSET (1 .. made[o]) : booked' = [booked EXCEPT ![o] = @ \cup ids]
  /\ recognised' = recognised \cup {o}
  /\ UNCHANGED <<paid, refunded, made>>

Next == \E o \in Orders : PayOnce(o) \/ GiveBack(o) \/ Recognise(o) \/ Book(o)

Spec == Init /\ [][Next]_ledgerVars
=============================================================================
