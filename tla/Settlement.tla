----------------------------- MODULE Settlement -----------------------------
(***************************************************************************)
(* What the purchase flow promises, without sessions, jobs or retries: an  *)
(* order is opened, may wait for the network, and is either paid by one    *)
(* payment of its own or closed; every payment credits the educator once   *)
(* and grants access once, and only when an order is paid with it.         *)
(***************************************************************************)
EXTENDS Naturals

CONSTANTS Orders, Payments, NoPayment

VARIABLES order, credited, granted

svars == <<order, credited, granted>>

SInit ==
    /\ order = [o \in Orders |-> [status |-> "none", hash |-> NoPayment]]
    /\ credited = [x \in Payments |-> 0]
    /\ granted = [x \in Payments |-> 0]

Unused(x) == \A o \in Orders : order[o].hash # x

Move(o, status, x) == order' = [order EXCEPT ![o] = [status |-> status, hash |-> x]]

Open(o) ==
    /\ order[o].status = "none"
    /\ Move(o, "pending", NoPayment)
    /\ UNCHANGED <<credited, granted>>

\* The buyer abandons or cancels a checkout no payment was seen for.
Abandon(o) ==
    /\ order[o].status = "pending"
    /\ \E status \in {"expired", "reaped", "failed"} : Move(o, status, NoPayment)
    /\ UNCHANGED <<credited, granted>>

\* A payment is seen for the order but it is not known yet whether it counts.
Await(o, x) ==
    /\ order[o].status = "pending" /\ Unused(x)
    /\ Move(o, "retrying", x)
    /\ UNCHANGED <<credited, granted>>

Refuse(o, x) ==
    /\ \/ order[o].status = "pending" /\ Unused(x)
       \/ order[o] = [status |-> "retrying", hash |-> x]
    /\ Move(o, "failed", x)
    /\ UNCHANGED <<credited, granted>>

\* The order is paid: the books follow in the same step or in later ones.
Pay(o, x) ==
    /\ \/ order[o].status = "pending" /\ Unused(x)
       \/ order[o] = [status |-> "retrying", hash |-> x]
    /\ Move(o, "confirmed", x)
    /\ \/ UNCHANGED <<credited, granted>>
       \/ /\ credited[x] = 0 /\ credited' = [credited EXCEPT ![x] = 1]
          /\ granted[x] = 0 /\ granted' = [granted EXCEPT ![x] = 1]

Paid(x) == \E o \in Orders : order[o] = [status |-> "confirmed", hash |-> x]

Credit(x) ==
    /\ Paid(x) /\ credited[x] = 0
    /\ credited' = [credited EXCEPT ![x] = 1]
    /\ UNCHANGED <<order, granted>>

Grant(x) ==
    /\ Paid(x) /\ credited[x] = 1 /\ granted[x] = 0
    /\ granted' = [granted EXCEPT ![x] = 1]
    /\ UNCHANGED <<order, credited>>

SNext ==
    \/ \E o \in Orders : Open(o) \/ Abandon(o)
    \/ \E o \in Orders, x \in Payments : Await(o, x) \/ Refuse(o, x) \/ Pay(o, x)
    \/ \E x \in Payments : Credit(x) \/ Grant(x)

Spec == SInit /\ [][SNext]_svars
=============================================================================
