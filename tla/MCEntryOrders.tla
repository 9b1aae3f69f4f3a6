----------------------------- MODULE MCEntryOrders -----------------------------
(***************************************************************************)
(* Model checking of EntryOrders; the configurations give the constants.   *)
(* No symmetry: the orders are sent in their order and the two sides have  *)
(* different modes.                                                        *)
(***************************************************************************)
EXTENDS EntryOrders
=============================================================================
