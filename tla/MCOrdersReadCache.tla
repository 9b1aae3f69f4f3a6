-------------------------- MODULE MCOrdersReadCache --------------------------
(* A small instance of OrdersReadCache: two cancel loops and a reader. *)
EXTENDS OrdersReadCache, TLC

\* The shape of the default schedule (1, 3, 5, 10, 30 seconds).
MCBackoff == <<1, 2>>

\* The cancel loops do the same, and so are the orders.
MCSymmetry == Permutations(Cancellers) \cup Permutations(Orders)
=============================================================================
