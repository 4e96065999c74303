------------------------------- MODULE Gateway -------------------------------
(***************************************************************************)
(* The Next.js server between the browsers and FastAPI: the session cookie *)
(* that carries one pair of Keycloak tokens, the refresh of a pair that is *)
(* about to expire (authOptions, tokenRefresh), the proxy route, the pages *)
(* that ask the backend who the caller is, the session poll of the         *)
(* SessionProvider and the logout endpoint.                                *)
(*                                                                         *)
(* A pair of tokens is an identifier; one that nobody holds any more may   *)
(* be issued again.  A call is one HTTP request of a browser; it carries   *)
(* the cookie the browser had when it was sent, however late it is read.   *)
(***************************************************************************)
EXTENDS Integers, FiniteSets

CONSTANTS
    Browsers, Calls,
    Requests,   \* what each call may be: pairs of a browser and a kind
    MaxPairs,   \* bound on the pairs of one browser in use at a time
    NoTokens,   \* a session whose tokens were dropped: accessToken undefined
    NoCookie,   \* no session cookie
    None

Kinds   == {"api", "page", "poll", "logout"}
Answers == {"served", "401", "502", "504", "signin", "noDashboard", "session", "loggedOut"}

ASSUME GatewayAssumption ==
    /\ IsFiniteSet(Browsers) /\ IsFiniteSet(Calls)
    /\ Requests \in [Calls -> SUBSET (Browsers \X Kinds)]
    /\ MaxPairs \in Nat /\ MaxPairs > 1 + Cardinality(Calls)
    /\ NoTokens # NoCookie /\ None \notin Browsers \cup Answers \cup {NoTokens, NoCookie}
    /\ \A x \in {NoTokens, NoCookie, None} : x \notin Browsers \X Nat

VARIABLES
    cookie,    \* the session cookie of each browser
    due,       \* pairs whose access token expires within the threshold
    dead,      \* pairs whose refresh token Keycloak refuses: consumed, or logged out
    oneTime,   \* the realm revokes a refresh token when it is used
    inflight,  \* the keys of the map of refreshes under way
    call,      \* the HTTP requests
    trouble    \* history: browsers one of whose refreshes got lost, or logged out

gatewayVars == <<cookie, due, dead, oneTime, inflight, call, trouble>>

-----------------------------------------------------------------------------
Tokens   == {<<b, i>> : b \in Browsers, i \in 1..MaxPairs}
Owner(t) == t[1]

Sessions == Tokens \cup {NoTokens, NoCookie}

\* A call is read by the server, leads or joins a refresh, knows its session,
\* waits for the backend and is answered.  session: the one its cookie carried,
\* then the one it continues with; reading: whether it is read a second time;
\* backend and runs: what became of the request sent upstream.
CallRows ==
    [phase: {"sent", "leading", "waiting", "session", "upstream", "answered"},
     browser: Browsers \cup {None}, kind: Kinds \cup {None},
     session: Sessions \cup {None}, reading: {"first", "second"},
     answer: Answers \cup {None}, backend: {"idle", "busy"}, runs: Nat]

NoCall == [phase |-> "answered", browser |-> None, kind |-> None, session |-> NoCookie,
           reading |-> "first", answer |-> None, backend |-> "idle", runs |-> 0]

GatewayInit ==
    /\ cookie = [b \in Browsers |-> NoCookie]
    /\ due = {} /\ dead = {} /\ inflight = {} /\ trouble = {}
    /\ oneTime \in BOOLEAN
    /\ call = [q \in Calls |-> NoCall]

Held == {cookie[b] : b \in Browsers} \cup {call[q].session : q \in Calls}

PairsOf(b) == {t \in Tokens \cap Held : Owner(t) = b}

NewPair(b) == <<b, CHOOSE i \in 1..MaxPairs : <<b, i>> \notin Held>>

\* A pair that nobody holds any more is forgotten.
PairsBecome(newDue, newDead) == due' = newDue \cap Held' /\ dead' = newDead \cap Held'

-----------------------------------------------------------------------------
(* Keycloak, the passing of time and the sign-in page.                     *)

\* The account branch of the jwt callback: a new session holds a new pair.
InitialSignIn(b) ==
    /\ cookie[b] \in {NoCookie, NoTokens}
    /\ cookie' = [cookie EXCEPT ![b] = NewPair(b)]
    /\ UNCHANGED <<due, dead, oneTime, inflight, call, trouble>>

\* The expiry of a pair matters where the jwt callback is still to look at it.
Watched == {cookie[b] : b \in Browsers}
               \cup {call[q].session : q \in {p \in Calls : call[p].phase = "sent"}}

Expire(t) ==
    /\ t \in Watched \ due
    /\ due' = due \cup {t}
    /\ UNCHANGED <<cookie, dead, oneTime, inflight, call, trouble>>

\* An administrator, or the idle limit, ends the user's Keycloak session.
SessionEnds(b) ==
    /\ PairsOf(b) \ dead # {}
    /\ dead' = dead \cup PairsOf(b)
    /\ trouble' = trouble \cup {b}
    /\ UNCHANGED <<cookie, due, oneTime, inflight, call>>

-----------------------------------------------------------------------------
(* The session of a call: getServerSession and the jwt callback.           *)

\* A browser sends a request; a slot is used again once it is settled.
Send(q, b, kind) ==
    /\ call[q].phase = "answered" /\ call[q].backend = "idle"
    /\ call' = [call EXCEPT ![q] = [NoCall EXCEPT !.phase = "sent", !.browser = b,
                                                  !.kind = kind, !.session = cookie[b]]]
    /\ UNCHANGED <<cookie, due, dead, oneTime, inflight, trouble>>

\* No session, a pair that is still valid, or no refresh token to use: the
\* callback returns what the cookie carries.
ReturnAsIs(q) ==
    /\ call[q].phase = "sent" /\ call[q].session \notin due
    /\ call' = [call EXCEPT ![q].phase = "session"]
    /\ UNCHANGED <<cookie, due, dead, oneTime, inflight, trouble>>

FaultyKey(q) == None

\* The map of refreshes under way is keyed by the refresh token.
Key(q) == call[q].session

FaultyJoins(q) == FALSE

Joins(q) == Key(q) \in inflight

RefreshAccessToken(q) ==
    /\ call[q].phase = "sent" /\ call[q].session \in due
    /\ call' = [call EXCEPT ![q].phase = IF Joins(q) THEN "waiting" ELSE "leading"]
    /\ inflight' = inflight \cup {Key(q)}
    /\ UNCHANGED <<cookie, due, dead, oneTime, trouble>>

\* The calls that await the promise of the leader.
Flight(q) == {q} \cup {p \in Calls : call[p].phase = "waiting" /\ Key(p) = Key(q)}

\* getMe(undefined): apiFetch finds no explicit token and reads the session of
\* a page a second time, from the cookie of the same request.
ResolveServerToken(p) == [call[p] EXCEPT !.phase = "sent", !.reading = "second"]

Continue(p, session) ==
    IF session = NoTokens /\ call[p].kind = "page" /\ call[p].reading = "first"
    THEN ResolveServerToken(p)
    ELSE [call[p] EXCEPT !.phase = "session", !.session = session]

\* The promise settles: all of them continue with its outcome and the map
\* forgets it.
Land(q, session) ==
    /\ call' = [p \in Calls |-> IF p \in Flight(q) THEN Continue(p, session) ELSE call[p]]
    /\ inflight' = inflight \ {Key(q)}
    /\ UNCHANGED <<cookie, oneTime>>

\* Keycloak issues a new pair, and revokes the old one where it is one-time.
Refreshed(q) ==
    LET old == call[q].session
        new == NewPair(Owner(old))
    IN  /\ call[q].phase = "leading" /\ old \notin dead
        /\ Land(q, new)
        /\ UNCHANGED trouble
        /\ PairsBecome(due, IF oneTime THEN dead \cup {old} ELSE dead)

Refused(q) ==
    /\ call[q].phase = "leading" /\ call[q].session \in dead
    /\ Land(q, NoTokens)
    /\ UNCHANGED trouble
    /\ PairsBecome(due, dead)

\* Keycloak is unreachable or answers with an error of its own.
RefreshLost(q) ==
    /\ call[q].phase = "leading"
    /\ Land(q, NoTokens)
    /\ trouble' = trouble \cup {call[q].browser}
    /\ PairsBecome(due, dead)

DoRefresh(q) == Refreshed(q) \/ Refused(q) \/ RefreshLost(q)

-----------------------------------------------------------------------------
(* What a call does with its session.                                      *)

HasSession(q, kind) == call[q].phase = "session" /\ call[q].kind = kind

\* Of an answered call, a pair it held is forgotten.
Answered(q, answer) ==
    [NoCall EXCEPT !.browser = call[q].browser, !.kind = call[q].kind, !.answer = answer,
                   !.session = IF call[q].session \in Tokens THEN None ELSE call[q].session,
                   !.backend = call[q].backend, !.runs = call[q].runs]

Answer(q, answer) ==
    /\ call' = [call EXCEPT ![q] = Answered(q, answer)]
    /\ UNCHANGED <<cookie, oneTime, inflight, trouble>>
    /\ PairsBecome(due, dead)

\* proxy(): no session, or a session without an access token.
Unauthorized(q) ==
    /\ HasSession(q, "api") /\ call[q].session \notin Tokens
    /\ Answer(q, "401")

\* proxy() attaches the bearer token; a page asks /auth/me with it.
Forward(q) ==
    /\ HasSession(q, "api") \/ HasSession(q, "page")
    /\ call[q].session \in Tokens
    /\ call' = [call EXCEPT ![q].phase = "upstream", ![q].backend = "busy", ![q].session = None]
    /\ UNCHANGED <<cookie, oneTime, inflight, trouble>>
    /\ PairsBecome(due, dead)

\* AppLayout and the dashboard page test for a session only.
RedirectToSignIn(q) ==
    /\ HasSession(q, "page") /\ call[q].session = NoCookie
    /\ Answer(q, "signin")

\* /auth/me without a bearer token fails and getMe answers null.
NobodyKnown(q) ==
    /\ HasSession(q, "page") /\ call[q].session = NoTokens
    /\ Answer(q, "noDashboard")

\* NextAuth's session endpoint writes the pair it ended up with to the cookie.
PollSession(q) ==
    /\ HasSession(q, "poll")
    /\ call' = [call EXCEPT ![q] = Answered(q, "session")]
    /\ cookie' = IF call[q].session = NoCookie THEN cookie
                 ELSE [cookie EXCEPT ![call[q].browser] = call[q].session]
    /\ UNCHANGED <<oneTime, inflight, trouble>>
    /\ PairsBecome(due, dead)

\* The logout endpoint clears the cookie; with an id_token in the session the
\* browser is sent on to end the Keycloak session as well.
Logout(q) ==
    LET b == call[q].browser
        known == call[q].session # NoCookie
    IN  /\ HasSession(q, "logout")
        /\ call' = [call EXCEPT ![q] = Answered(q, "loggedOut")]
        /\ cookie' = [cookie EXCEPT ![b] = NoCookie]
        /\ trouble' = IF known THEN trouble \cup {b} ELSE trouble
        /\ UNCHANGED <<oneTime, inflight>>
        /\ PairsBecome(due, IF known THEN dead \cup PairsOf(b) ELSE dead)

-----------------------------------------------------------------------------
(* The backend.  A request that was given up on may still be carried out.  *)

BackendRuns(q) ==
    /\ call[q].backend = "busy"
    /\ call' = [call EXCEPT ![q].backend = "idle", ![q].runs = call[q].runs + 1]
    /\ UNCHANGED <<cookie, due, dead, oneTime, inflight, trouble>>

BackendNeverRuns(q) ==
    /\ call[q].backend = "busy" /\ call[q].phase = "answered"
    /\ call' = [call EXCEPT ![q].backend = "idle"]
    /\ UNCHANGED <<cookie, due, dead, oneTime, inflight, trouble>>

BackendAnswers(q) ==
    /\ call[q].phase = "upstream" /\ call[q].backend = "idle"
    /\ Answer(q, "served")

\* getMe answers null on any failure, and the page shows no dashboard.
Failure(q, status) == IF call[q].kind = "api" THEN status ELSE "noDashboard"

FaultyConnectFailed(q) ==
    /\ call[q].phase = "upstream"
    /\ call' = [call EXCEPT ![q].backend = "busy"]
    /\ UNCHANGED <<cookie, due, dead, oneTime, inflight, trouble>>

\* Whatever breaks the connection, before the backend has run or after it.
ConnectFailed(q) ==
    /\ call[q].phase = "upstream"
    /\ Answer(q, Failure(q, "502"))

FaultyTimedOut(q) ==
    /\ call[q].phase = "upstream" /\ call[q].kind = "page"
    /\ Answer(q, "noDashboard")

\* UPSTREAM_TIMEOUT_MS in the proxy, fetch's own limit for a page.
TimedOut(q) ==
    /\ call[q].phase = "upstream"
    /\ Answer(q, Failure(q, "504"))

-----------------------------------------------------------------------------
UseSession(q) ==
    \/ Unauthorized(q) \/ Forward(q) \/ RedirectToSignIn(q) \/ NobodyKnown(q)
    \/ PollSession(q) \/ Logout(q)

Backend(q) == BackendRuns(q) \/ BackendNeverRuns(q) \/ BackendAnswers(q) \/ ConnectFailed(q)

ServerStep(q) ==
    ReturnAsIs(q) \/ RefreshAccessToken(q) \/ DoRefresh(q) \/ UseSession(q) \/ TimedOut(q)

GatewayNext ==
    \/ \E b \in Browsers : InitialSignIn(b) \/ SessionEnds(b)
    \/ \E t \in Tokens : Expire(t)
    \/ \E q \in Calls : \/ \E r \in Requests[q] : Send(q, r[1], r[2])
                        \/ ServerStep(q) \/ Backend(q)

\* Whatever a call is at, the server does its next step: it runs what is ready,
\* a refresh request ends one way or another and the timers fire.  Neither the
\* backend nor Keycloak need ever do their part.
GatewayFairness == \A q \in Calls : WF_gatewayVars(ServerStep(q))

GatewaySpec == GatewayInit /\ [][GatewayNext]_gatewayVars /\ GatewayFairness

-----------------------------------------------------------------------------
GatewayTypeOK ==
    /\ cookie \in [Browsers -> Sessions]
    /\ due \subseteq Tokens /\ dead \subseteq Tokens /\ inflight \subseteq Tokens
    /\ oneTime \in BOOLEAN
    /\ call \in [Calls -> CallRows]
    /\ trouble \subseteq Browsers

\* tokenRefresh's header: of the requests that need the same refresh, one hits
\* Keycloak and the others wait for it, never for somebody else's: a call goes
\* on with a pair issued to the browser that sent it, and so does the cookie
\* that a poll leaves behind.
OneFlightPerToken ==
    /\ \A q \in Calls :
          /\ call[q].phase = "leading" =>
                \A p \in Calls \ {q} :
                    call[p].phase = "leading" => call[p].session # call[q].session
          /\ call[q].phase = "waiting" =>
                \E p \in Calls : call[p].phase = "leading" /\ call[p].session = call[q].session
          /\ call[q].session \in Tokens => Owner(call[q].session) = call[q].browser
    /\ \A b \in Browsers : cookie[b] \in Tokens => Owner(cookie[b]) = b

\* Where refresh tokens are reusable, only trouble with Keycloak costs a user
\* the session: no interleaving of calls and polls drops a cookie's tokens or
\* refuses a call that carried them.
NobodyLoggedOutUntroubled ==
    \A b \in Browsers \ trouble :
        ~oneTime =>
            /\ cookie[b] # NoTokens
            /\ \A q \in Calls : call[q].browser = b /\ call[q].answer = "401" =>
                                    call[q].session = NoCookie

\* A 401 means that nothing was done and an answer that it was done once; after
\* a 502 or 504 it may or may not have been.
AnswersAreHonest ==
    \A q \in Calls :
        /\ call[q].runs <= 1
        /\ call[q].answer \in {"401", "signin"} => call[q].runs = 0 /\ call[q].backend = "idle"
        /\ call[q].answer = "served" => call[q].runs = 1 /\ call[q].backend = "idle"

\* Every request is answered, whether or not the backend ever answers: no call
\* stays for ever in a phase before that.
CallsAreAnswered == \A q \in Calls : []<>(call[q].phase = "answered")

\* tokenRefresh.ts:7-11, where each refresh token can be used once as well: the
\* lock "prevents the race condition where parallel widget requests [...] consume
\* the one-time refresh token, and cause random logouts".
NobodyLoggedOutAtRandom == \A b \in Browsers \ trouble : cookie[b] # NoTokens

\* The comment of the jwt callback and docs/auth-guide.md: a session whose
\* tokens were dropped sends its user to sign in again at the next page.
DeadSessionsGoToSignIn ==
    \A q \in Calls :
        call[q].kind = "page" /\ call[q].answer # None /\ call[q].session \in {NoTokens, NoCookie}
            => call[q].answer = "signin"

=============================================================================
