------------------------------ MODULE MoneyBook ------------------------------
(***************************************************************************)
(* What the payment services promise about a customer's money, with none   *)
(* of their requests, events, locks or retries: money the provider has     *)
(* captured has at most one open entry in the ledger, nothing is entered   *)
(* that was not captured, and an entry is closed by a refund the provider  *)
(* made, never removed.  A closed entry may be opened again: a slow poll   *)
(* can book a payment that was refunded meanwhile.  PaymentLedger is shown *)
(* to implement this.                                                      *)
(***************************************************************************)
CONSTANTS
    Payments,
    References  \* what an entry may be filed under

VARIABLES
    captured,   \* payments the provider has collected
    refunded,   \* payments the provider has given back, in part or in full
    open        \* the ledger: the references of a payment's open entries

vars == <<captured, refunded, open>>

Init ==
    /\ captured = {}
    /\ refunded = {}
    /\ open = [p \in Payments |-> {}]

Capture(p) ==
    /\ captured' = captured \union {p}
    /\ UNCHANGED <<refunded, open>>

GiveBack(p) ==
    /\ p \in captured
    /\ refunded' = refunded \union {p}
    /\ UNCHANGED <<captured, open>>

Enter(p) ==
    /\ p \in captured
    /\ open[p] = {}
    /\ \E ref \in References : open' = [open EXCEPT ![p] = {ref}]
    /\ UNCHANGED <<captured, refunded>>

Close(p) ==
    /\ p \in refunded
    /\ open' = [open EXCEPT ![p] = {}]
    /\ UNCHANGED <<captured, refunded>>

Next == \E p \in Payments : Capture(p) \/ GiveBack(p) \/ Enter(p) \/ Close(p)

Spec == Init /\ [][Next]_vars
==============================================================================
