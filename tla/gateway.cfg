\* Two browsers, two requests at a time; three users behind one address.
SPECIFICATION Spec
CONSTANTS
    b1 = b1
    b2 = b2
    c1 = c1
    c2 = c2
    Browsers = {b1, b2}
    Calls = {c1, c2}
    Requests <- MixedRequests
    MaxPairs = 4
    NoTokens = NoTokens
    NoCookie = NoCookie
    None = None
    Users = {w1, w2, w3}
    Chunked = {w2, w3}
    AuthLimit = 2
    UnauthLimit = 1
    Window = 1
    MaxBuckets = 0
    MaxWrites = 1
INVARIANTS
    TypeOK
    OneFlightPerToken
    NobodyLoggedOutUntroubled
    AnswersAreHonest
    QuotasHold
PROPERTIES
    CallsAreAnswered
