------------------------------ MODULE RateLimit ------------------------------
(***************************************************************************)
(* The limiter of proxy.ts in front of /api/v1: a bucket per key counts    *)
(* the requests of one fixed window.  The key is the session cookie when   *)
(* it travels under its unchunked name and the caller's address otherwise; *)
(* NextAuth splits a session that outgrows one cookie into chunks with     *)
(* other names, and encrypts it anew whenever it writes it.  The tokens in *)
(* it make that the ordinary case, and those browsers share one bucket.    *)
(***************************************************************************)
EXTENDS Sums

CONSTANTS
    Users,        \* browsers, all behind one address
    Chunked,      \* those whose session does not fit one cookie
    AuthLimit,    \* requests of one window under a session key
    UnauthLimit,  \* requests of one window under an address
    Window,       \* WINDOW_MS, in ticks
    MaxBuckets,   \* size beyond which stale buckets are evicted
    MaxWrites     \* bound on the times a session cookie is written again

ASSUME LimitAssumption ==
    /\ Chunked \subseteq Users /\ "address" \notin Users
    /\ {AuthLimit, UnauthLimit, Window, MaxBuckets, MaxWrites} \subseteq Nat

VARIABLES
    version,  \* the value of each session cookie
    bucket,   \* the map of buckets
    passed,   \* history: requests let through, by their age: those of each
              \* browser, and those of all that count against the address
    refused   \* history: the browser refused in the last step

limitVars == <<version, bucket, passed, refused>>

Parties == Users \cup {"address"}

\* Who has a bucket: a browser whose cookie is found, and the address.
Askers == (Users \ Chunked) \cup {"address"}

Keys == (Users \X (0..MaxWrites)) \cup {<<"address", 0>>}
\* resetIn is resetAt - now; a bucket is stale once it is negative.
Absent == [count |-> 0, resetIn |-> -1]

LimitInit ==
    /\ version = [u \in Users |-> 0]
    /\ bucket = [k \in Keys |-> Absent]
    /\ passed = [a \in Parties |-> [age \in 0..Window |-> 0]]
    /\ refused = {}

Asker(u) == IF u \notin Chunked THEN u ELSE "address"

Written(a) == IF a = "address" THEN 0 ELSE version[a]

FaultyRateKey(a) == <<"address", 0>>

RateKey(a) == <<a, Written(a)>>

Limit(a) == IF a = "address" THEN UnauthLimit ELSE AuthLimit

\* The bucket of this window, with the request counted.  A count is not
\* followed beyond the first refusal.
Counted(a) ==
    LET old == bucket[RateKey(a)]
    IN  IF old.resetIn < 0 THEN [count |-> 1, resetIn |-> Window]
        ELSE [old EXCEPT !.count = IF old.count > Limit(a) THEN old.count ELSE old.count + 1]

FaultyCleanupBuckets(rows) == [k \in Keys |-> Absent]

\* Stale entries go once there are too many.
CleanupBuckets(rows) ==
    IF Cardinality({k \in Keys : rows[k] # Absent}) > MaxBuckets
    THEN [k \in Keys |-> IF rows[k].resetIn < 0 THEN Absent ELSE rows[k]]
    ELSE rows

LetThrough(u) ==
    LET a    == Asker(u)
        rows == [bucket EXCEPT ![RateKey(a)] = Counted(a)]
    IN  /\ Counted(a).count <= Limit(a)
        /\ bucket' = CleanupBuckets(rows)
        /\ passed' = [b \in Parties |-> IF b \in {u, a} THEN [passed[b] EXCEPT ![0] = @ + 1]
                                       ELSE passed[b]]
        /\ refused' = {}
        /\ UNCHANGED version

TooMany(u) ==
    LET a == Asker(u)
    IN  /\ Counted(a).count > Limit(a)
        /\ bucket' = [bucket EXCEPT ![RateKey(a)] = Counted(a)]
        /\ refused' = {u}
        /\ UNCHANGED <<version, passed>>

\* The session endpoint writes the cookie again.
CookieWritten(u) ==
    /\ u \notin Chunked /\ version[u] < MaxWrites
    /\ version' = [version EXCEPT ![u] = version[u] + 1]
    /\ refused' = {}
    /\ UNCHANGED <<bucket, passed>>

Tick ==
    /\ bucket' = [k \in Keys |->
                     IF bucket[k].resetIn < 0 THEN bucket[k]
                     ELSE [count |-> bucket[k].count, resetIn |-> bucket[k].resetIn - 1]]
    /\ passed' = [b \in Parties |->
                     [age \in 0..Window |-> IF age = 0 THEN 0 ELSE passed[b][age - 1]]]
    /\ refused' = {}
    /\ UNCHANGED version

LimitNext == Tick \/ \E u \in Users : LetThrough(u) \/ TooMany(u) \/ CookieWritten(u)

LimitSpec == LimitInit /\ [][LimitNext]_limitVars

-----------------------------------------------------------------------------
LimitTypeOK ==
    /\ version \in [Users -> 0..MaxWrites]
    /\ bucket \in [Keys -> [count: Nat, resetIn: -1..Window]]
    /\ passed \in [Parties -> [0..Window -> Nat]] /\ refused \subseteq Users

\* The requests of b let through in the last Window ticks.
Lately(b) == Total(passed[b])

\* checkRateLimit: whoever is refused has had a whole quota in the last window,
\* whatever the others did, where "whoever" is one browser if its cookie is found
\* and otherwise all those behind the address together; and neither gets more
\* than two quotas in a window (fixed windows do not line up with it), and one
\* more for every time the cookie was written again.
QuotasHold ==
    /\ \A u \in refused : Lately(Asker(u)) >= Limit(Asker(u))
    /\ \A a \in Askers : Lately(a) <= (2 + Written(a)) * Limit(a)

\* proxy.ts:8-10 of the signed-in: "workers on the same IP don't share a quota".
\* Whoever is refused has used up at least the smaller quota alone.
NobodySharesAQuota == \A u \in refused : Lately(u) >= UnauthLimit

=============================================================================
