----------------------------- MODULE MCDelivery -----------------------------
(* Delivery on a small instance; threads are interchangeable. *)
EXTENDS Delivery, TLC

CONSTANTS t1, t2

Story(m, r, v, w, k, p) ==
    [msgs |-> m, reports |-> r, visits |-> v, trouble |-> w, keys |-> k, links |-> p # {}, pays |-> p]

MCBounds ==
    {Story(1, 3, 0, 1, FALSE, {}),                          \* events of one message
     Story(2, 1, 0, 1, TRUE, {}),                           \* requests made twice, complaints
     Story(2, 0, 0, 0, FALSE, {"initiated", "completed"}),  \* two messages share links
     Story(1, 1, 1, 0, FALSE, {"initiated", "completed"}),  \* events, visits and payments
     Story(1, 0, 1, 0, FALSE, Payment),                     \* every payment news
     Story(1, 0, 2, 1, FALSE, {"initiated", "completed"})}  \* visits, with crashes

Symmetry == Permutations({t1, t2})
=============================================================================
