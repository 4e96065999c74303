\* Two request threads and the worker drive one outbound request.
SPECIFICATION SessSpec
CONSTANTS
    Threads = {t1, t2}
    Warehouses = {w1, w2}
    Products = {p1}
    Requests = {r1}
    PickLists = {l1, l2}
    Shipments = {s1, s2}
    Orders = {}
    None = None
    MaxQty = 1
    MaxManual = 0
    Source = w1
    OpeningStock = 1
    Opening <- OpeningAtSource
    ManualDeltas <- BothWays
    Deactivatable = {}
SYMMETRY SessionSymmetry
INVARIANTS
    NeverNegative
    SafeUnlessStale
PROPERTIES
    SerialUnlessStale
