SPECIFICATION FairSpec
CONSTANTS
    Holds = {1, 2}
    First = 1
    MaxOrders = 2
    Profit = TRUE
    Faults = {"read", "answer", "write"}
INVARIANTS TypeOK SoloClosedIsSold
PROPERTIES RowsSettle
