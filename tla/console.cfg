\* Each component of the browser for itself.
SPECIFICATION ConsoleSpec
CONSTANTS
    Rows = {1, 2, 3}
    Terms <- TableTerms
    Filters <- TableFilters
    Hits <- TableHits
    Everything = ""
    PageSize = 1
    MaxInputs = 3
    MaxFormInputs = 8
    Values = {1, 2}
    MaxEdits = 6
    HoldDuration = 2
    MaxPresses = 4
    MaxConfirms = 2
    Permissions = {1, 2}
    PermHits <- SelectorHits
    PermPageSize = 1
    MaxRoleInputs = 4
    ListRows = {x1, x2}
    Accounts = {a1, a2}
    Nothing = nothing
    MaxDialogs = 3
    Warehouses = {w1}
    Products = {p1}
    Requests = {r1}
    PickLists = {l1}
    Shipments = {s1}
    Orders = {}
    None = None
    MaxQty = 1
    MaxManual = 1
    Opening <- OneUnit
    ManualDeltas <- TakeOne
    Deactivatable = {}
    Clerks = {u1, u2}
    Viewed = r1
    Typed <- UpToTwo
    MaxClicks = 6
INVARIANTS
    ConsoleTypeOK
    ShowsWhatWasAsked
    CreatesOnce
    
    PasswordsReachTheirAccount
    OffersMatchTheBackend
    SavedMeansStored
PROPERTIES
    TableSettles
    SavesWhatWasEdited
    RoleKeepsPermissions
\* The inputs are bounded, and a user may stop at any time.
CHECK_DEADLOCK FALSE
