----------------------------- MODULE MCExitOrders -----------------------------
EXTENDS ExitOrders
==============================================================================
