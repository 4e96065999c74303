\* Two overlapping manual transactions on one stock row.
SPECIFICATION SessSpec
CONSTANTS
    Threads = {t1, t2}
    Warehouses = {w1}
    Products = {p1}
    Requests = {}
    PickLists = {}
    Shipments = {}
    Orders = {}
    None = None
    MaxQty = 1
    MaxManual = 2
    Source = w1
    OpeningStock = 1
    Opening <- OpeningAtSource
    ManualDeltas <- BothWays
    Deactivatable = {}
SYMMETRY SessionSymmetry
INVARIANTS
    LedgerInSync
