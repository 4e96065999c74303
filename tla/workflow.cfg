\* Two requests compete for the stock of one product; an order and a correction
\* change it meanwhile.
SPECIFICATION Spec
CONSTANTS
    Warehouses = {w1, w2}
    Products = {p1}
    Requests = {r1, r2}
    PickLists = {l1, l2}
    Shipments = {s1, s2}
    Orders = {o1}
    None = None
    MaxQty = 2
    MaxManual = 1
    Source = w1
    OpeningStock = 2
    Opening <- OpeningAtSource
    ManualDeltas <- BothWays
    Deactivatable = {}
SYMMETRY DocumentSymmetry
INVARIANTS
    TypeOK
    NeverNegative
    LedgerInSync
    ReservationsExact
    ReservedCovered
    DocumentsAgree
    ShipmentsMoveWhatWasPicked
    ReceiptsBooked
PROPERTIES
    StatusNeverReverts
    CompletedListsAreFrozen
    ImplementsGoodsFlow
