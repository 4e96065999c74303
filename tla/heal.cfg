\* The worker under its fairness, against two threads with an outbound request
\* and a correction.
SPECIFICATION SessFairSpec
CONSTANTS
    Threads = {t1, t2}
    Warehouses = {w1}
    Products = {p1}
    Requests = {r1}
    PickLists = {l1}
    Shipments = {s1}
    Orders = {}
    None = None
    MaxQty = 1
    MaxManual = 1
    Source = w1
    OpeningStock = 1
    Opening <- OpeningAtSource
    ManualDeltas <- BothWays
    Deactivatable = {}
PROPERTIES
    ReservationsHeal
