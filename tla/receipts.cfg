\* Three threads receive one order of two products that have no stock row yet,
\* and correct the stock meanwhile; the warehouse is deactivated and back.
SPECIFICATION SessSpec
CONSTANTS
    Threads = {t1, t2, t3}
    Warehouses = {w1}
    Products = {p1, p2}
    Requests = {}
    PickLists = {}
    Shipments = {}
    Orders = {o1}
    None = None
    MaxQty = 1
    MaxManual = 1
    Source = w1
    OpeningStock = 0
    Opening <- OpeningAtSource
    ManualDeltas <- BothWays
    Deactivatable = {w1}
SYMMETRY SessionSymmetry
INVARIANTS
    RowsInsertedOnce
PROPERTIES
    SerialUnlessStale
