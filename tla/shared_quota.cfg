\* Two signed-in workers behind one address, both with sessions in chunks.
SPECIFICATION Spec
CONSTANTS
    b1 = b1
    b2 = b2
    c1 = c1
    c2 = c2
    Browsers = {b1, b2}
    Calls = {c1, c2}
    Requests <- MixedRequests
    MaxPairs = 4
    NoTokens = NoTokens
    NoCookie = NoCookie
    None = None
    Users = {w1, w2}
    Chunked = {w1, w2}
    AuthLimit = 2
    UnauthLimit = 1
    Window = 1
    MaxBuckets = 0
    MaxWrites = 1
INVARIANT NobodySharesAQuota
