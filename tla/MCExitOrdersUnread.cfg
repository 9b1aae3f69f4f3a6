SPECIFICATION Spec
CONSTANTS
    Holds = {1, 2}
    First = 1
    MaxOrders = 2
    Profit = FALSE
    Faults = {"helper"}
INVARIANTS ClosedMeansSold

