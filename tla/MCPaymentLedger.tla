--------------------------- MODULE MCPaymentLedger ---------------------------
EXTENDS PaymentLedger, TLC

Clients == {{"partial", "pay_in_full"}, {"partial"}, {"pay_in_full"}, {"payment_plan"}, {}}
Trouble == [o \in Clients |-> IF Cardinality(o) = 2 \/ o = {"payment_plan"} THEN 0 ELSE 1]
Symmetry == Permutations(Attempts) \union Permutations(Threads)
==============================================================================
