---------------------------- MODULE GatewayProofs ----------------------------
(***************************************************************************)
(* The type and safety invariants of Gateway and of RateLimit, for any     *)
(* number of browsers, of calls at once, of users and of requests.         *)
(***************************************************************************)
EXTENDS MCGateway, SumsProofs

\* What holds of the row of one call.
RowOK(c) ==
    /\ c \in CallRows
    /\ c.phase # "answered" => c.browser \in Browsers /\ c.answer = None
    /\ c.phase \in {"sent", "leading", "waiting", "session"} =>
           c.session \in Sessions /\ c.runs = 0 /\ c.backend = "idle"
    /\ c.session \in Tokens => Owner(c.session) = c.browser
    /\ c.backend = "busy" => c.runs = 0
    /\ c.runs <= 1
    /\ c.phase = "upstream" /\ c.backend = "idle" => c.runs = 1
    /\ c.answer \in {"401", "signin"} => c.runs = 0 /\ c.backend = "idle"
    /\ c.answer = "served" => c.runs = 1 /\ c.backend = "idle"

Rows == call \in [Calls -> CallRows] /\ \A q \in Calls : RowOK(call[q])

Cookies ==
    /\ cookie \in [Browsers -> Sessions]
    /\ \A b \in Browsers : cookie[b] \in Tokens => Owner(cookie[b]) = b
    /\ due \subseteq Tokens /\ dead \subseteq Tokens
    /\ oneTime \in BOOLEAN
    /\ trouble \subseteq Browsers

Flying(c) == c.phase \in {"leading", "waiting"}

\* The map holds the sessions that one call each is refreshing.
Flights ==
    /\ inflight \subseteq Tokens
    /\ \A q \in Calls : Flying(call[q]) => call[q].session \in inflight
    /\ \A t \in inflight :
           \E q \in Calls : call[q].phase = "leading" /\ call[q].session = t
    /\ \A q, p \in Calls :
           call[q].phase = "leading" /\ call[p].phase = "leading"
               /\ call[q].session = call[p].session => q = p

Keeps(c) ==
    c.browser \notin trouble =>
        c.session # NoTokens /\ (c.answer = "401" => c.session = NoCookie)

\* Where refresh tokens are reusable, only trouble takes the tokens away.
Untroubled ==
    ~oneTime =>
        /\ \A t \in dead : Owner(t) \in trouble
        /\ \A b \in Browsers : b \notin trouble => cookie[b] # NoTokens
        /\ \A q \in Calls : Keeps(call[q])

GatewayInv == Rows /\ Cookies /\ Flights /\ Untroubled

LEMMA SessionsApart ==
    /\ NoTokens \notin Tokens /\ NoCookie \notin Tokens /\ None \notin Tokens
    /\ None \notin Sessions /\ None \notin Browsers /\ None \notin Answers /\ NoTokens # NoCookie
    /\ \A t \in Tokens : Owner(t) \in Browsers
BY GatewayAssumption DEF Tokens, Sessions, Owner

LEMMA GatewayInvInit == GatewayInit => GatewayInv
<1> SUFFICES ASSUME GatewayInit PROVE GatewayInv
  OBVIOUS
<1> USE SessionsApart
<1>1. RowOK(NoCall) /\ NoCall.phase = "answered" /\ NoCall.browser = None
      /\ NoCall.session = NoCookie /\ NoCall.answer = None
  <2>1. NoCall \in CallRows
    BY DEF NoCall, CallRows, Sessions
  <2>2. /\ NoCall.phase = "answered" /\ NoCall.browser = None /\ NoCall.session = NoCookie
        /\ NoCall.answer = None /\ NoCall.backend = "idle" /\ NoCall.runs = 0
    BY DEF NoCall
  <2> HIDE DEF NoCall
  <2> QED BY <2>1, <2>2 DEF RowOK, Answers
<1>2. Rows
  <2>1. \A q \in Calls : call[q] = NoCall
    BY DEF GatewayInit
  <2>2. call \in [Calls -> CallRows]
    BY <1>1 DEF GatewayInit, RowOK
  <2> QED BY <1>1, <2>1, <2>2 DEF Rows
<1>3. Cookies
  BY DEF GatewayInit, Cookies, Sessions
<1>4. Flights
  BY <1>1 DEF GatewayInit, Flights, Flying
<1>5. Untroubled
  BY <1>1 DEF GatewayInit, Untroubled, Keeps, Answers
<1> QED BY <1>2, <1>3, <1>4, <1>5 DEF GatewayInv

-----------------------------------------------------------------------------
\* There is a pair that nobody holds: a browser's pairs are held by its cookie
\* and by the calls, of which there are fewer than pairs.
LEMMA NewPairIsIssued ==
    ASSUME GatewayInv, NEW b \in Browsers
    PROVE  NewPair(b) \in Tokens /\ Owner(NewPair(b)) = b
<1> DEFINE Free(i) == <<b, i>> \notin Held
<1>1. \E i \in 1..MaxPairs : Free(i)
  <2> SUFFICES ASSUME \A i \in 1..MaxPairs : ~Free(i) PROVE FALSE
    OBVIOUS
  <2>1. \A i \in 1..MaxPairs :
            cookie[b] = <<b, i>> \/ \E q \in Calls : call[q].session = <<b, i>>
    <3> SUFFICES ASSUME NEW i \in 1..MaxPairs
                 PROVE  cookie[b] = <<b, i>> \/ \E q \in Calls : call[q].session = <<b, i>>
      OBVIOUS
    <3>1. <<b, i>> \in Tokens /\ Owner(<<b, i>>) = b
      BY DEF Tokens, Owner
    <3>2. <<b, i>> \in Held
      OBVIOUS
    <3>3. ASSUME NEW a \in Browsers, cookie[a] = <<b, i>> PROVE a = b
      BY <3>1, <3>3 DEF GatewayInv, Cookies
    <3> QED BY <3>2, <3>3 DEF Held
  <2>2. PICK k \in 1..MaxPairs : \A i \in 1..MaxPairs : cookie[b] = <<b, i>> => i = k
    <3>1. 1 \in 1..MaxPairs
      BY GatewayAssumption, FS_CardinalityType
    <3>2. \A i, j \in 1..MaxPairs : <<b, i>> = <<b, j>> => i = j
      OBVIOUS
    <3> QED BY <3>1, <3>2
  <2> DEFINE S == (1..MaxPairs) \ {k}
             f == [i \in S |-> CHOOSE q \in Calls : call[q].session = <<b, i>>]
  <2>3. IsFiniteSet(S) /\ Cardinality(S) = MaxPairs - 1
    <3>1. IsFiniteSet(1..MaxPairs) /\ Cardinality(1..MaxPairs) = MaxPairs
      <4>1. MaxPairs \in Int /\ MaxPairs > 0
        BY GatewayAssumption, FS_CardinalityType
      <4> QED BY <4>1, FS_Interval
    <3> QED BY <3>1, FS_RemoveElement
  <2>4. Cardinality(Calls) < Cardinality(S) /\ IsFiniteSet(Calls)
    BY <2>3, GatewayAssumption, FS_CardinalityType
  <2>5. \A i \in S : \E q \in Calls : call[q].session = <<b, i>>
    BY <2>1, <2>2
  <2>6. \A i \in S : f[i] \in Calls /\ call[f[i]].session = <<b, i>>
    BY <2>5
  <2>7. f \in [S -> Calls]
    BY <2>6
  <2> HIDE DEF S, f
  <2>8. PICK i, j \in S : i # j /\ f[i] = f[j]
    BY <2>3, <2>4, <2>7, FS_PigeonHole
  <2>9. <<b, i>> = <<b, j>>
    BY <2>6, <2>8
  <2> QED BY <2>8, <2>9
<1>2. NewPair(b) = <<b, CHOOSE i \in 1..MaxPairs : Free(i)>>
  BY DEF NewPair
<1>3. (CHOOSE i \in 1..MaxPairs : Free(i)) \in 1..MaxPairs
  BY <1>1
<1> HIDE DEF Free
<1> QED BY <1>2, <1>3 DEF Tokens, Owner

-----------------------------------------------------------------------------
\* One call goes on, outside a flight, with the row c.
LEMMA OneCallGoesOn ==
    ASSUME GatewayInv, NEW q \in Calls, NEW c, RowOK(c), ~Flying(call[q]), ~Flying(c),
           call' = [call EXCEPT ![q] = c], inflight' = inflight
    PROVE  /\ Rows' /\ Flights'
           /\ call'[q] = c /\ \A p \in Calls \ {q} : call'[p] = call[p]
<1>1. call'[q] = c /\ \A p \in Calls \ {q} : call'[p] = call[p]
  BY DEF GatewayInv, Rows
<1>2. c \in CallRows
  BY DEF RowOK
<1>3. Rows'
  <2>1. call' \in [Calls -> CallRows]
    BY <1>2 DEF GatewayInv, Rows
  <2>2. \A p \in Calls : RowOK(call'[p])
    BY <1>1 DEF GatewayInv, Rows
  <2> QED BY <2>1, <2>2 DEF Rows, RowOK
<1>4. Flights'
  BY <1>1 DEF GatewayInv, Flights, Flying
<1> QED BY <1>1, <1>3, <1>4

\* Such a call keeps its user's tokens, if the new row does.
LEMMA OneCallKeeps ==
    ASSUME GatewayInv, NEW q \in Calls, \A p \in Calls \ {q} : call'[p] = call[p],
           oneTime' = oneTime, trouble \subseteq trouble', ~oneTime => Keeps(call[q])',
           ~oneTime => \A t \in dead' : t \in dead \/ Owner(t) \in trouble',
           ~oneTime => \A b \in Browsers : b \notin trouble' => cookie'[b] # NoTokens
    PROVE  Untroubled'
<1> SUFFICES ASSUME ~oneTime, NEW p \in Calls PROVE Keeps(call[p])'
  BY DEF GatewayInv, Untroubled
<1>1. CASE p = q
  BY <1>1
<1>2. CASE p # q
  BY <1>2 DEF GatewayInv, Untroubled, Keeps
<1> QED BY <1>1, <1>2

\* A promise settles with the session s.
LEMMA LandKeeps ==
    ASSUME GatewayInv, NEW q \in Calls, NEW s \in Sessions, call[q].phase = "leading",
           s \in Tokens => Owner(s) = Owner(call[q].session), Land(q, s)
    PROVE  /\ Rows' /\ Flights'
           /\ \A p \in Calls :
                  /\ call'[p].browser = call[p].browser /\ call'[p].answer = call[p].answer
                  /\ \/ call'[p].session = call[p].session
                     \/ call'[p].session = s /\ call[p].browser = call[q].browser
<1> DEFINE key == call[q].session
<1>1. key \in Tokens /\ key \in inflight /\ Owner(key) = call[q].browser
  BY DEF GatewayInv, Flights, Flying, Rows, RowOK
<1>2. \A p \in Flight(q) : /\ p \in Calls /\ Flying(call[p]) /\ call[p].session = key
                            /\ call[p].browser = call[q].browser
  BY <1>1 DEF Flight, Key, Flying, GatewayInv, Rows, RowOK
<1>3. \A p \in Calls : call'[p] = IF p \in Flight(q) THEN Continue(p, s) ELSE call[p]
  BY DEF Land
<1>4. inflight' = inflight \ {key}
  BY DEF Land, Key
<1>5. ASSUME NEW p \in Flight(q)
      PROVE  LET c == Continue(p, s)
             IN  /\ RowOK(c) /\ ~Flying(c)
                 /\ c.browser = call[p].browser /\ c.answer = call[p].answer
                 /\ c.session = call[p].session \/ c.session = s
  <2>1. p \in Calls /\ RowOK(call[p]) /\ Flying(call[p])
    BY <1>2 DEF GatewayInv, Rows
  <2>2. CASE Continue(p, s) = ResolveServerToken(p)
    BY <2>1, <2>2 DEF ResolveServerToken, RowOK, CallRows, Flying
  <2>3. CASE Continue(p, s) = [call[p] EXCEPT !.phase = "session", !.session = s]
    <3>1. s \in Tokens => Owner(s) = call[p].browser
      BY <1>1, <1>2
    <3> QED BY <2>1, <2>3, <3>1 DEF RowOK, CallRows, Flying
  <2> QED BY <2>2, <2>3 DEF Continue
<1> HIDE DEF key
<1>6. Rows'
  <2>1. \A p \in Calls : RowOK(call'[p])
    BY <1>3, <1>5 DEF GatewayInv, Rows
  <2>2. call' = [p \in Calls |-> call'[p]]
    BY DEF Land
  <2>3. call' \in [Calls -> CallRows]
    BY <2>1, <2>2 DEF RowOK
  <2> QED BY <2>1, <2>3 DEF Rows, RowOK
<1>7. Flights'
  <2>1. \A p \in Calls : Flying(call'[p]) => p \notin Flight(q) /\ call'[p] = call[p]
    BY <1>3, <1>5
  <2>2. \A p \in Calls \ Flight(q) : Flying(call[p]) => call[p].session # key
    BY DEF key, Flight, Key, Flying, GatewayInv, Flights
  <2>3. \A t \in inflight \ {key} :
            \E p \in Calls : call'[p].phase = "leading" /\ call'[p].session = t
    <3> SUFFICES ASSUME NEW t \in inflight, t # key
                 PROVE  \E p \in Calls : call'[p].phase = "leading" /\ call'[p].session = t
      OBVIOUS
    <3>1. PICK p \in Calls : call[p].phase = "leading" /\ call[p].session = t
      BY DEF GatewayInv, Flights
    <3>2. p \notin Flight(q)
      BY <1>2, <3>1
    <3> QED BY <1>3, <3>1, <3>2
  <2> QED BY <1>4, <2>1, <2>2, <2>3 DEF GatewayInv, Flights, Flying
<1> QED BY <1>2, <1>3, <1>5, <1>6, <1>7

-----------------------------------------------------------------------------
(* The steps.                                                              *)

LEMMA EnvironmentKeepsInv ==
    ASSUME GatewayInv, NEW b \in Browsers, NEW t \in Tokens,
           InitialSignIn(b) \/ SessionEnds(b) \/ Expire(t)
    PROVE  GatewayInv'
<1>1. CASE InitialSignIn(b)
  <2> DEFINE new == NewPair(b)
  <2>1. new \in Tokens /\ Owner(new) = b /\ new # NoTokens /\ new \in Sessions
    BY NewPairIsIssued, SessionsApart DEF Sessions
  <2>2. cookie' = [cookie EXCEPT ![b] = new]
    BY <1>1 DEF InitialSignIn
  <2> HIDE DEF new
  <2>3. UNCHANGED <<due, dead, oneTime, inflight, call, trouble>>
    BY <1>1 DEF InitialSignIn
  <2>4. Cookies'
    BY <2>1, <2>2, <2>3 DEF GatewayInv, Cookies
  <2>5. Rows' /\ Flights'
    BY <2>3 DEF GatewayInv, Rows, Flights
  <2>6. Untroubled'
    BY <2>1, <2>2, <2>3 DEF GatewayInv, Untroubled, Keeps, Cookies
  <2> QED BY <2>4, <2>5, <2>6 DEF GatewayInv
<1>2. CASE SessionEnds(b)
  <2>1. UNCHANGED <<cookie, due, oneTime, inflight, call>>
    BY <1>2 DEF SessionEnds
  <2>2. dead' = dead \cup PairsOf(b) /\ trouble' = trouble \cup {b}
    BY <1>2 DEF SessionEnds
  <2>3. PairsOf(b) \subseteq Tokens /\ \A x \in PairsOf(b) : Owner(x) = b
    BY DEF PairsOf
  <2>4. Cookies' /\ Rows' /\ Flights'
    BY <2>1, <2>2, <2>3 DEF GatewayInv, Cookies, Rows, Flights
  <2>5. Untroubled'
    BY <2>1, <2>2, <2>3 DEF GatewayInv, Untroubled, Keeps
  <2> QED BY <2>4, <2>5 DEF GatewayInv
<1>3. CASE Expire(t)
  BY <1>3 DEF Expire, GatewayInv, Cookies, Rows, Flights, Untroubled, Keeps
<1> QED BY <1>1, <1>2, <1>3

LEMMA SendKeepsInv ==
    ASSUME GatewayInv, NEW q \in Calls, NEW b \in Browsers, NEW kind \in Kinds, Send(q, b, kind)
    PROVE  GatewayInv'
<1> DEFINE c == [NoCall EXCEPT !.phase = "sent", !.browser = b, !.kind = kind,
                               !.session = cookie[b]]
<1>1. /\ c.phase = "sent" /\ c.browser = b /\ c.kind = kind /\ c.session = cookie[b]
      /\ c.answer = None /\ c.backend = "idle" /\ c.runs = 0 /\ c.reading = "first"
  BY DEF NoCall
<1>2. cookie[b] \in Sessions
  BY DEF GatewayInv, Cookies
<1>3. c \in CallRows
  BY <1>2 DEF NoCall, CallRows
<1>4. call' = [call EXCEPT ![q] = c] /\ call[q].phase = "answered"
      /\ UNCHANGED <<cookie, due, dead, oneTime, inflight, trouble>>
  BY DEF Send
<1> HIDE DEF c
<1>5. RowOK(c)
  BY <1>1, <1>2, <1>3, SessionsApart DEF RowOK, GatewayInv, Cookies, Answers
<1>6. Rows' /\ Flights' /\ call'[q] = c /\ \A p \in Calls \ {q} : call'[p] = call[p]
  BY <1>1, <1>4, <1>5, OneCallGoesOn DEF Flying
<1>7. Cookies'
  BY <1>4 DEF GatewayInv, Cookies
<1>8. ~oneTime => Keeps(call[q])'
  BY <1>1, <1>4, <1>6, SessionsApart DEF Keeps, GatewayInv, Untroubled, Answers
<1>9. Untroubled'
  BY <1>4, <1>6, <1>8, OneCallKeeps DEF GatewayInv, Untroubled
<1> QED BY <1>6, <1>7, <1>9 DEF GatewayInv

LEMMA ReturnAsIsKeepsInv ==
    ASSUME GatewayInv, NEW q \in Calls, ReturnAsIs(q)
    PROVE  GatewayInv'
<1> DEFINE c == [call[q] EXCEPT !.phase = "session"]
<1>1. call[q] \in CallRows /\ RowOK(call[q])
  BY DEF GatewayInv, Rows
<1>2. c \in CallRows /\ c.phase = "session" /\ c.browser = call[q].browser
      /\ c.session = call[q].session /\ c.answer = call[q].answer
      /\ c.backend = call[q].backend /\ c.runs = call[q].runs
  BY <1>1 DEF CallRows
<1>3. call' = [call EXCEPT ![q] = c] /\ call[q].phase = "sent"
      /\ UNCHANGED <<cookie, due, dead, oneTime, inflight, trouble>>
  BY DEF ReturnAsIs
<1> HIDE DEF c
<1>4. RowOK(c)
  BY <1>1, <1>2, <1>3 DEF RowOK
<1>5. Rows' /\ Flights' /\ call'[q] = c /\ \A p \in Calls \ {q} : call'[p] = call[p]
  BY <1>2, <1>3, <1>4, OneCallGoesOn DEF Flying
<1>6. Cookies'
  BY <1>3 DEF GatewayInv, Cookies
<1>7. Untroubled'
  BY <1>2, <1>3, <1>5, OneCallKeeps DEF Keeps, GatewayInv, Untroubled
<1> QED BY <1>5, <1>6, <1>7 DEF GatewayInv

LEMMA RefreshKeepsInv ==
    ASSUME GatewayInv, NEW q \in Calls, RefreshAccessToken(q)
    PROVE  GatewayInv'
<1> DEFINE key == call[q].session
           c == [call[q] EXCEPT !.phase = IF Joins(q) THEN "waiting" ELSE "leading"]
<1>1. call[q] \in CallRows /\ RowOK(call[q])
  BY DEF GatewayInv, Rows
<1>2. c \in CallRows /\ c.browser = call[q].browser
      /\ c.session = key /\ c.answer = call[q].answer
      /\ c.backend = call[q].backend /\ c.runs = call[q].runs
  BY <1>1 DEF CallRows
<1>3. IF key \in inflight THEN c.phase = "waiting" ELSE c.phase = "leading"
  BY <1>1 DEF CallRows, Joins, Key
<1>4. call' = [call EXCEPT ![q] = c] /\ call[q].phase = "sent" /\ inflight' = inflight \cup {key}
      /\ UNCHANGED <<cookie, due, dead, oneTime, trouble>>
  BY DEF RefreshAccessToken, Key
<1>5. key \in Tokens
  BY DEF RefreshAccessToken, GatewayInv, Cookies
<1>6. call'[q] = c /\ \A p \in Calls \ {q} : call'[p] = call[p]
  BY <1>4 DEF GatewayInv, Rows
<1> HIDE DEF c
<1>7. RowOK(c)
  BY <1>1, <1>2, <1>3, <1>4 DEF RowOK
<1>8. Rows'
  <2>1. call' \in [Calls -> CallRows]
    BY <1>2, <1>4 DEF GatewayInv, Rows
  <2> QED BY <2>1, <1>6, <1>7 DEF GatewayInv, Rows, RowOK
<1> HIDE DEF key
<1>9. Flights'
  <2>1. CASE key \in inflight
    BY <1>2, <1>3, <1>4, <1>5, <1>6, <2>1 DEF GatewayInv, Flights, Flying
  <2>2. CASE key \notin inflight
    <3>1. \A p \in Calls \ {q} : Flying(call[p]) => call[p].session # key
      BY <2>2 DEF GatewayInv, Flights
    <3> QED BY <1>2, <1>3, <1>4, <1>5, <1>6, <2>2, <3>1 DEF GatewayInv, Flights, Flying
  <2> QED BY <2>1, <2>2
<1>10. Cookies'
  BY <1>4 DEF GatewayInv, Cookies
<1>11. Untroubled'
  BY <1>2, <1>4, <1>6, OneCallKeeps DEF key, Keeps, GatewayInv, Untroubled
<1> QED BY <1>8, <1>9, <1>10, <1>11 DEF GatewayInv

LEMMA DoRefreshKeepsInv ==
    ASSUME GatewayInv, NEW q \in Calls, DoRefresh(q)
    PROVE  GatewayInv'
<1> DEFINE old == call[q].session
           b == call[q].browser
<1>1. old \in Tokens /\ Owner(old) = b /\ b \in Browsers
  BY SessionsApart DEF DoRefresh, Refreshed, Refused, RefreshLost, GatewayInv, Rows, RowOK, Flights, Flying
<1>2. PICK s \in Sessions :
          /\ call[q].phase = "leading" /\ Land(q, s)
          /\ s \in Tokens => Owner(s) = Owner(old)
          /\ trouble \subseteq trouble' /\ trouble' \subseteq trouble \cup {b}
          /\ ~oneTime => s # NoTokens \/ b \in trouble'
          /\ due' \subseteq due /\ dead' \subseteq dead \cup {old}
          /\ ~oneTime => dead' \subseteq dead
  <2>1. CASE Refreshed(q)
    <3>1. NewPair(Owner(old)) \in Tokens /\ Owner(NewPair(Owner(old))) = Owner(old)
      BY <1>1, NewPairIsIssued
    <3>2. NewPair(Owner(old)) \in Sessions /\ NewPair(Owner(old)) # NoTokens
      BY <3>1, SessionsApart DEF Sessions
    <3> QED BY <2>1, <3>1, <3>2 DEF Refreshed, PairsBecome
  <2>2. CASE Refused(q)
    <3>1. ~oneTime => b \in trouble
      BY <1>1, <2>2 DEF Refused, GatewayInv, Untroubled
    <3> QED BY <2>2, <3>1, SessionsApart DEF Refused, PairsBecome, Sessions
  <2>3. CASE RefreshLost(q)
    BY <2>3, SessionsApart DEF RefreshLost, PairsBecome, Sessions
  <2> QED BY <2>1, <2>2, <2>3 DEF DoRefresh
<1>3. Rows' /\ Flights'
  BY <1>2, LandKeeps
<1>4. \A p \in Calls :
          /\ call'[p].browser = call[p].browser /\ call'[p].answer = call[p].answer
          /\ \/ call'[p].session = call[p].session
             \/ call'[p].session = s /\ call[p].browser = b /\ call[p].answer = None
  <2>1. \A p \in Calls : call'[p] = call[p] \/ call[p].answer = None
    BY <1>2 DEF Land, Flight, GatewayInv, Rows, RowOK
  <2> QED BY <1>2, <2>1, LandKeeps
<1>5. UNCHANGED <<cookie, oneTime>>
  BY <1>2 DEF Land
<1> HIDE DEF old, b
<1>6. Cookies'
  BY <1>1, <1>2, <1>5 DEF GatewayInv, Cookies
<1>7. Untroubled'
  <2> SUFFICES ASSUME ~oneTime PROVE Untroubled'
    BY <1>5 DEF Untroubled
  <2>1. \A p \in Calls : Keeps(call[p])'
    BY <1>2, <1>4, SessionsApart DEF Keeps, GatewayInv, Untroubled, Answers
  <2> QED BY <1>2, <1>5, <2>1 DEF GatewayInv, Untroubled
<1> QED BY <1>3, <1>6, <1>7 DEF GatewayInv

-----------------------------------------------------------------------------
LEMMA AnsweredRow ==
    ASSUME GatewayInv, NEW q \in Calls, NEW a \in Answers, call[q].phase \in {"session", "upstream"},
           a \in {"401", "signin"} => call[q].phase = "session",
           a = "401" => call[q].session \notin Tokens,
           a = "served" => call[q].phase = "upstream" /\ call[q].backend = "idle"
    PROVE  LET c == Answered(q, a)
           IN  /\ RowOK(c) /\ ~Flying(c) /\ c.browser = call[q].browser
               /\ call[q].browser \in Browsers
               /\ c.session = None \/ c.session = call[q].session
               /\ c.answer = "401" => c.session = call[q].session /\ call[q].session \in Sessions \ Tokens
<1> DEFINE c == Answered(q, a)
<1>1. call[q] \in CallRows /\ RowOK(call[q])
  BY DEF GatewayInv, Rows
<1>2. /\ c.phase = "answered" /\ c.browser = call[q].browser /\ c.answer = a
      /\ c.session = IF call[q].session \in Tokens THEN None ELSE call[q].session
      /\ c.backend = call[q].backend /\ c.runs = call[q].runs
  BY DEF Answered, NoCall
<1>3. c \in CallRows
  BY <1>1 DEF Answered, NoCall, CallRows
<1> HIDE DEF c
<1>4. RowOK(c)
  BY <1>1, <1>2, <1>3, SessionsApart DEF RowOK
<1>5. c.answer = "401" => c.session = call[q].session /\ call[q].session \in Sessions \ Tokens
  BY <1>1, <1>2 DEF RowOK
<1> QED BY <1>1, <1>2, <1>4, <1>5 DEF RowOK, Flying, c

LEMMA AnswerKeepsInv ==
    ASSUME GatewayInv, NEW q \in Calls, NEW a \in Answers, call[q].phase \in {"session", "upstream"},
           a \in {"401", "signin"} => call[q].phase = "session",
           a = "401" => call[q].session \notin Tokens,
           a = "served" => call[q].phase = "upstream" /\ call[q].backend = "idle",
           Answer(q, a)
    PROVE  GatewayInv'
<1> DEFINE c == Answered(q, a)
<1>1. /\ RowOK(c) /\ ~Flying(c) /\ c.browser = call[q].browser /\ call[q].browser \in Browsers
      /\ c.session = None \/ c.session = call[q].session
      /\ c.answer = "401" => c.session = call[q].session /\ call[q].session \in Sessions \ Tokens
  BY AnsweredRow
<1>2. /\ call' = [call EXCEPT ![q] = c] /\ UNCHANGED <<cookie, oneTime, inflight, trouble>>
      /\ due' \subseteq due /\ dead' \subseteq dead
  BY DEF Answer, PairsBecome
<1> HIDE DEF c
<1>3. Rows' /\ Flights' /\ call'[q] = c /\ \A p \in Calls \ {q} : call'[p] = call[p]
  BY <1>1, <1>2, OneCallGoesOn DEF Flying
<1>4. Cookies'
  BY <1>2 DEF GatewayInv, Cookies
<1>5. ~oneTime => Keeps(call[q])'
  BY <1>1, <1>2, <1>3, SessionsApart DEF Keeps, GatewayInv, Untroubled, Sessions
<1>6. Untroubled'
  BY <1>2, <1>3, <1>5, OneCallKeeps DEF GatewayInv, Untroubled
<1> QED BY <1>3, <1>4, <1>6 DEF GatewayInv

LEMMA AnsweringKeepsInv ==
    ASSUME GatewayInv, NEW q \in Calls,
           \/ Unauthorized(q) \/ RedirectToSignIn(q) \/ NobodyKnown(q)
           \/ BackendAnswers(q) \/ ConnectFailed(q) \/ TimedOut(q)
    PROVE  GatewayInv'
<1> USE DEF Answers, HasSession
<1>1. CASE Unauthorized(q)
  BY <1>1, AnswerKeepsInv DEF Unauthorized
<1>2. CASE RedirectToSignIn(q)
  BY <1>2, AnswerKeepsInv DEF RedirectToSignIn
<1>3. CASE NobodyKnown(q)
  BY <1>3, AnswerKeepsInv DEF NobodyKnown
<1>4. CASE BackendAnswers(q)
  BY <1>4, AnswerKeepsInv DEF BackendAnswers
<1>5. CASE ConnectFailed(q)
  BY <1>5, AnswerKeepsInv DEF ConnectFailed, Failure
<1>6. CASE TimedOut(q)
  BY <1>6, AnswerKeepsInv DEF TimedOut, Failure
<1> QED BY <1>1, <1>2, <1>3, <1>4, <1>5, <1>6

LEMMA PollSessionKeepsInv ==
    ASSUME GatewayInv, NEW q \in Calls, PollSession(q)
    PROVE  GatewayInv'
<1> DEFINE c == Answered(q, "session")
           b == call[q].browser
           s == call[q].session
<1>1. /\ RowOK(c) /\ ~Flying(c) /\ c.browser = b /\ b \in Browsers
      /\ c.session = None \/ c.session = s
      /\ c.answer = "401" => c.session = s /\ s \in Sessions \ Tokens
  BY AnsweredRow DEF PollSession, HasSession, Answers
<1>2. call[q].phase = "session" /\ RowOK(call[q])
  BY DEF PollSession, HasSession, GatewayInv, Rows
<1>3. /\ call' = [call EXCEPT ![q] = c] /\ UNCHANGED <<oneTime, inflight, trouble>>
      /\ cookie' = IF s = NoCookie THEN cookie ELSE [cookie EXCEPT ![b] = s]
      /\ due' \subseteq due /\ dead' \subseteq dead
  BY DEF PollSession, PairsBecome
<1>4. s \in Sessions /\ (s \in Tokens => Owner(s) = b)
      /\ (~oneTime => Keeps(call[q]))
  BY <1>2 DEF RowOK, GatewayInv, Untroubled
<1>5. ~oneTime /\ b \notin trouble => s # NoTokens /\ (c.answer = "401" => s = NoCookie)
  BY <1>4, SessionsApart DEF Keeps, Answered, NoCall
<1> HIDE DEF c, b, s
<1>6. Rows' /\ Flights' /\ call'[q] = c /\ \A p \in Calls \ {q} : call'[p] = call[p]
  BY <1>1, <1>2, <1>3, OneCallGoesOn DEF Flying
<1>7. Cookies'
  BY <1>1, <1>3, <1>4 DEF GatewayInv, Cookies
<1>8. ~oneTime => Keeps(call[q])'
  BY <1>1, <1>3, <1>5, <1>6, SessionsApart DEF Keeps, Sessions
<1>9. ~oneTime => \A a \in Browsers : a \notin trouble' => cookie'[a] # NoTokens
  BY <1>1, <1>3, <1>5 DEF GatewayInv, Untroubled, Cookies
<1>10. Untroubled'
  BY <1>3, <1>6, <1>8, <1>9, OneCallKeeps
<1> QED BY <1>6, <1>7, <1>10 DEF GatewayInv

LEMMA LogoutKeepsInv ==
    ASSUME GatewayInv, NEW q \in Calls, Logout(q)
    PROVE  GatewayInv'
<1> DEFINE c == Answered(q, "loggedOut")
           b == call[q].browser
<1>1. /\ RowOK(c) /\ ~Flying(c) /\ c.browser = b /\ b \in Browsers
      /\ c.session = None \/ c.session = call[q].session
      /\ c.answer = "401" => c.session = call[q].session /\ call[q].session \in Sessions \ Tokens
  BY AnsweredRow DEF Logout, HasSession, Answers
<1>2. call[q].phase = "session"
  BY DEF Logout, HasSession
<1>3. /\ call' = [call EXCEPT ![q] = c] /\ UNCHANGED <<oneTime, inflight>>
      /\ cookie' = [cookie EXCEPT ![b] = NoCookie] /\ due' \subseteq due
      /\ trouble' = (IF call[q].session # NoCookie THEN trouble \cup {b} ELSE trouble)
      /\ dead' \subseteq (IF call[q].session # NoCookie THEN dead \cup PairsOf(b) ELSE dead)
  BY DEF Logout, PairsBecome
<1>4. PairsOf(b) \subseteq Tokens /\ \A t \in PairsOf(b) : Owner(t) = b
  BY DEF PairsOf
<1> HIDE DEF c, b
<1>5. Rows' /\ Flights' /\ call'[q] = c /\ \A p \in Calls \ {q} : call'[p] = call[p]
  BY <1>1, <1>2, <1>3, OneCallGoesOn DEF Flying
<1>6. trouble \subseteq trouble' /\ trouble' \subseteq Browsers /\ dead' \subseteq Tokens
      /\ \A t \in dead' : t \in dead \/ Owner(t) \in trouble'
  BY <1>1, <1>3, <1>4 DEF GatewayInv, Cookies
<1>7. Cookies'
  BY <1>1, <1>3, <1>6, SessionsApart DEF GatewayInv, Cookies, Sessions
<1>8. ~oneTime => Keeps(call[q])'
  <2>1. call[q].browser = b /\ (~oneTime => Keeps(call[q]))
    BY DEF b, GatewayInv, Untroubled
  <2> QED BY <1>1, <1>3, <1>5, <1>6, <2>1, SessionsApart DEF Keeps, Sessions
<1>9. ~oneTime => \A a \in Browsers : a \notin trouble' => cookie'[a] # NoTokens
  BY <1>1, <1>3, <1>6, SessionsApart DEF GatewayInv, Untroubled, Cookies
<1>10. Untroubled'
  BY <1>3, <1>5, <1>6, <1>8, <1>9, OneCallKeeps
<1> QED BY <1>5, <1>7, <1>10 DEF GatewayInv

LEMMA ForwardKeepsInv ==
    ASSUME GatewayInv, NEW q \in Calls, Forward(q)
    PROVE  GatewayInv'
<1> DEFINE c == [call[q] EXCEPT !.phase = "upstream", !.backend = "busy", !.session = None]
<1>1. call[q] \in CallRows /\ RowOK(call[q]) /\ call[q].phase = "session"
  BY DEF Forward, HasSession, GatewayInv, Rows
<1>2. c \in CallRows /\ c.phase = "upstream" /\ c.browser = call[q].browser /\ c.session = None
      /\ c.answer = call[q].answer /\ c.backend = "busy" /\ c.runs = call[q].runs
  BY <1>1 DEF CallRows
<1>3. /\ call' = [call EXCEPT ![q] = c] /\ UNCHANGED <<cookie, oneTime, inflight, trouble>>
      /\ due' \subseteq due /\ dead' \subseteq dead
  BY DEF Forward, PairsBecome
<1> HIDE DEF c
<1>4. RowOK(c)
  BY <1>1, <1>2, SessionsApart DEF RowOK, Answers
<1>5. Rows' /\ Flights' /\ call'[q] = c /\ \A p \in Calls \ {q} : call'[p] = call[p]
  BY <1>1, <1>2, <1>3, <1>4, OneCallGoesOn DEF Flying
<1>6. Cookies'
  BY <1>3 DEF GatewayInv, Cookies
<1>7. Keeps(call[q])'
  BY <1>1, <1>2, <1>5, SessionsApart DEF Keeps, Sessions, RowOK, Answers
<1>8. Untroubled'
  BY <1>3, <1>5, <1>7, OneCallKeeps DEF GatewayInv, Untroubled
<1> QED BY <1>5, <1>6, <1>8 DEF GatewayInv

LEMMA BackendSettles ==
    ASSUME GatewayInv, NEW q \in Calls, NEW c \in CallRows, call[q].backend = "busy",
           UNCHANGED <<cookie, due, dead, oneTime, inflight, trouble>>,
           call' = [call EXCEPT ![q] = c], c.phase = call[q].phase,
           c.browser = call[q].browser, c.session = call[q].session,
           c.answer = call[q].answer, c.backend = "idle",
           c.runs \in {0, 1}, c.runs = 0 => c.phase = "answered"
    PROVE  GatewayInv'
<1>1. RowOK(call[q])
  BY DEF GatewayInv, Rows
<1>2. ~Flying(call[q]) /\ ~Flying(c)
  BY <1>1 DEF RowOK, Flying
<1>3. RowOK(c)
  BY <1>1 DEF RowOK
<1>4. Rows' /\ Flights' /\ call'[q] = c /\ \A p \in Calls \ {q} : call'[p] = call[p]
  BY <1>2, <1>3, OneCallGoesOn
<1>5. Cookies'
  BY DEF GatewayInv, Cookies
<1>6. Untroubled'
  BY <1>4, OneCallKeeps DEF Keeps, GatewayInv, Untroubled
<1> QED BY <1>4, <1>5, <1>6 DEF GatewayInv

LEMMA BackendKeepsInv ==
    ASSUME GatewayInv, NEW q \in Calls, BackendRuns(q) \/ BackendNeverRuns(q)
    PROVE  GatewayInv'
<1>1. call[q] \in CallRows /\ call[q].backend = "busy" /\ call[q].runs = 0
  BY DEF BackendRuns, BackendNeverRuns, GatewayInv, Rows, RowOK
<1>2. CASE BackendRuns(q)
  <2> DEFINE c == [call[q] EXCEPT !.backend = "idle", !.runs = 1]
  <2>1. c \in CallRows /\ c.phase = call[q].phase /\ c.browser = call[q].browser
        /\ c.session = call[q].session /\ c.answer = call[q].answer /\ c.backend = "idle"
        /\ c.runs = 1
    BY <1>1 DEF CallRows
  <2>2. call[q].runs + 1 = 1
    BY <1>1
  <2>3. call' = [call EXCEPT ![q] = c]
        /\ UNCHANGED <<cookie, due, dead, oneTime, inflight, trouble>>
    BY <1>2, <2>2 DEF BackendRuns
  <2>4. c.runs \in {0, 1} /\ (c.runs = 0 => c.phase = "answered")
    BY <2>1
  <2> HIDE DEF c
  <2> QED BY <1>1, <2>1, <2>3, <2>4, BackendSettles
<1>3. CASE BackendNeverRuns(q)
  <2> DEFINE c == [call[q] EXCEPT !.backend = "idle"]
  <2>1. c \in CallRows /\ c.phase = call[q].phase /\ c.browser = call[q].browser
        /\ c.session = call[q].session /\ c.answer = call[q].answer /\ c.backend = "idle"
        /\ c.runs = 0
    BY <1>1 DEF CallRows
  <2>2. call' = [call EXCEPT ![q] = c] /\ call[q].phase = "answered"
        /\ UNCHANGED <<cookie, due, dead, oneTime, inflight, trouble>>
    BY <1>3 DEF BackendNeverRuns
  <2>3. c.runs \in {0, 1} /\ (c.runs = 0 => c.phase = "answered")
    BY <2>1, <2>2
  <2> HIDE DEF c
  <2> QED BY <1>1, <2>1, <2>2, <2>3, BackendSettles
<1> QED BY <1>2, <1>3

-----------------------------------------------------------------------------
LEMMA GatewayInvStep == GatewayInv /\ [GatewayNext]_gatewayVars => GatewayInv'
<1> SUFFICES ASSUME GatewayInv, [GatewayNext]_gatewayVars PROVE GatewayInv'
  OBVIOUS
<1>1. ASSUME NEW b \in Browsers, InitialSignIn(b) \/ SessionEnds(b) PROVE GatewayInv'
  <2>1. \E t \in Tokens : TRUE
    BY NewPairIsIssued
  <2> QED BY <1>1, <2>1, EnvironmentKeepsInv
<1>2. ASSUME NEW t \in Tokens, Expire(t) PROVE GatewayInv'
  BY <1>2, SessionsApart, EnvironmentKeepsInv
<1>3. ASSUME NEW q \in Calls, NEW r \in Requests[q], Send(q, r[1], r[2]) PROVE GatewayInv'
  <2>1. r[1] \in Browsers /\ r[2] \in Kinds
    BY GatewayAssumption
  <2> QED BY <1>3, <2>1, SendKeepsInv
<1>4. ASSUME NEW q \in Calls, ServerStep(q) \/ Backend(q) PROVE GatewayInv'
  BY <1>4, ReturnAsIsKeepsInv, RefreshKeepsInv, DoRefreshKeepsInv, AnsweringKeepsInv,
     PollSessionKeepsInv, LogoutKeepsInv, ForwardKeepsInv, BackendKeepsInv
     DEF ServerStep, Backend, UseSession
<1>5. CASE UNCHANGED gatewayVars
  BY <1>5 DEF gatewayVars, GatewayInv, Rows, Cookies, Flights, Untroubled, Keeps
<1> QED BY <1>1, <1>2, <1>3, <1>4, <1>5 DEF GatewayNext

LEMMA GatewayInvCorrect == GatewaySpec => []GatewayInv
BY GatewayInvInit, GatewayInvStep, PTL DEF GatewaySpec

\* Sessions, flights and calls keep their types.
THEOREM GatewayTypeCorrect == GatewaySpec => []GatewayTypeOK
<1>1. GatewayInv => GatewayTypeOK
  BY DEF GatewayInv, Rows, Cookies, Flights, GatewayTypeOK
<1> QED BY <1>1, GatewayInvCorrect, PTL

\* One call at a time refreshes a pair, the others wait for it, and nobody goes
\* on with the pair of somebody else.
THEOREM OneFlightCorrect == GatewaySpec => []OneFlightPerToken
<1>1. GatewayInv => OneFlightPerToken
  BY DEF GatewayInv, Rows, RowOK, Cookies, Flights, Flying, OneFlightPerToken
<1> QED BY <1>1, GatewayInvCorrect, PTL

\* Where refresh tokens are reusable, only trouble costs a user the session.
THEOREM UntroubledCorrect == GatewaySpec => []NobodyLoggedOutUntroubled
<1>1. GatewayInv => NobodyLoggedOutUntroubled
  BY DEF GatewayInv, Untroubled, Keeps, NobodyLoggedOutUntroubled
<1> QED BY <1>1, GatewayInvCorrect, PTL

\* A 401 means that nothing was done, an answer that it was done once.
THEOREM AnswersCorrect == GatewaySpec => []AnswersAreHonest
<1>1. GatewayInv => AnswersAreHonest
  BY DEF GatewayInv, Rows, RowOK, AnswersAreHonest
<1> QED BY <1>1, GatewayInvCorrect, PTL

-----------------------------------------------------------------------------
(* The rate limiter.                                                       *)

\* The requests of b let through at most n ticks ago.
Recent(b, n) == Total([age \in 0..n |-> passed[b][age]])

\* The bucket of a browser's cookie or of the address, and what it counted, less
\* the refusal.
Own(a)     == bucket[RateKey(a)]
Granted(a) == IF Own(a).count > Limit(a) THEN Limit(a) ELSE Own(a).count
Age(a)     == Window - Own(a).resetIn

\* While the bucket lives, it has let through all it granted since it was opened,
\* and nothing else since the tick after; what came before fits in one quota for
\* the last window and one for every cookie before this one.
BucketOK(a) ==
    IF Own(a).resetIn < 0 THEN Lately(a) <= (1 + Written(a)) * Limit(a)
    ELSE /\ Recent(a, Age(a)) >= Granted(a)
         /\ Recent(a, Age(a) - 1) <= Granted(a)
         /\ Lately(a) <= Granted(a) + (1 + Written(a)) * Limit(a)

\* A cookie that is not written yet has no bucket that counts.
FutureFree ==
    \A u \in Users \ Chunked, v \in 0..MaxWrites :
        v > version[u] => bucket[<<u, v>>].resetIn < 0

LimitInv ==
    /\ LimitTypeOK /\ FutureFree
    /\ \A a \in Askers : BucketOK(a)
    /\ \A u \in refused : Own(Asker(u)).resetIn >= 0 /\ Own(Asker(u)).count > Limit(Asker(u))

-----------------------------------------------------------------------------
(* Sums over the ages.                                                     *)

LEMMA RecentType ==
    ASSUME LimitAssumption, LimitTypeOK, NEW b \in Parties, NEW n \in Int, n <= Window
    PROVE  Recent(b, n) \in Nat /\ [age \in 0..n |-> passed[b][age]] \in [0..n -> Nat]
<1>1. Window \in Nat
  BY DEF LimitAssumption
<1>2. 0..n \subseteq 0..Window
  BY <1>1
<1>3. [age \in 0..n |-> passed[b][age]] \in [0..n -> Nat]
  BY <1>2 DEF LimitTypeOK
<1> QED BY <1>3, IntervalsFinite, TotalType DEF Recent

LEMMA RecentGrows ==
    ASSUME LimitAssumption, LimitTypeOK, NEW b \in Parties, NEW m \in Int, NEW n \in Int,
           m >= -1, m <= n, n <= Window
    PROVE  Recent(b, m) <= Recent(b, n)
<1> DEFINE f == [age \in 0..n |-> passed[b][age]]
           U == 0..n
           S == 0..m
           T == (m + 1)..n
           g == [x \in S |-> f[x]]
           h == [x \in T |-> f[x]]
<1>1. f \in [U -> Nat]
  BY RecentType
<1>2. U = S \cup T /\ S \cap T = {}
  OBVIOUS
<1>3. IsFiniteSet(S) /\ IsFiniteSet(T)
  BY IntervalsFinite
<1>4. g = [age \in 0..m |-> passed[b][age]]
  BY <1>2
<1>5. Recent(b, n) = Total(f) /\ Recent(b, m) = Total(g)
  BY <1>4 DEF Recent
<1> HIDE DEF U, S, T, f, g, h
<1>6. g = [x \in S |-> f[x]] /\ h = [x \in T |-> f[x]]
  BY DEF g, h
<1>7. Total(f) = Total(g) + Total(h) /\ Total(g) \in Nat /\ Total(h) \in Nat
  BY ONLY <1>1, <1>2, <1>3, <1>6, TotalParts
<1> QED BY <1>5, <1>7

LEMMA RecentEnds ==
    ASSUME LimitTypeOK, NEW b \in Parties
    PROVE  Recent(b, -1) = 0 /\ Recent(b, Window) = Lately(b)
<1>1. 0..(-1) = {}
  OBVIOUS
<1>2. Recent(b, -1) = 0
  BY <1>1, TotalEmpty DEF Recent
<1>3. [age \in 0..Window |-> passed[b][age]] = passed[b]
  BY DEF LimitTypeOK
<1> QED BY <1>2, <1>3 DEF Recent, Lately

\* A request that is let through counts for every age.
LEMMA RecentPass ==
    ASSUME LimitAssumption, LimitTypeOK, NEW b \in Parties, NEW n \in Int, 0 <= n, n <= Window,
           passed'[b] = [passed[b] EXCEPT ![0] = @ + 1]
    PROVE  Recent(b, n)' = Recent(b, n) + 1
<1> DEFINE U == 0..n
           R == U \ {0}
           f == [age \in U |-> passed[b][age]]
           g == [age \in U |-> passed'[b][age]]
           r == [age \in R |-> passed[b][age]]
<1>1. f \in [U -> Nat]
  BY RecentType
<1>2. 0 \in U /\ IsFiniteSet(U)
  BY IntervalsFinite
<1>3. U \subseteq 0..Window /\ passed[b] \in [0..Window -> Nat]
  BY DEF LimitTypeOK, LimitAssumption
<1> HIDE DEF U
<1>5. g \in [U -> Nat] /\ g[0] = f[0] + 1 /\ \A age \in R : g[age] = f[age]
  BY <1>2, <1>3
<1>6. r \in [R -> Nat] /\ R = U \ {0} /\ f[0] \in Nat
      /\ (\A age \in R : r[age] = f[age]) /\ (\A age \in R : r[age] = g[age])
  BY <1>1, <1>2, <1>5
<1>7. Recent(b, n) = Total(f) /\ Recent(b, n)' = Total(g)
  BY DEF Recent, U
<1> HIDE DEF f, g, r, R
<1>8. Total(f) = Total(r) + f[0] /\ Total(r) \in Nat
  BY ONLY <1>1, <1>2, <1>6, TotalSplit
<1>9. Total(g) = Total(r) + g[0]
  BY ONLY <1>2, <1>5, <1>6, TotalSplit
<1> QED BY <1>5, <1>6, <1>7, <1>8, <1>9

\* A tick makes every request one older.
LEMMA RecentTick ==
    ASSUME LimitAssumption, LimitTypeOK, NEW b \in Parties, NEW n \in Int, 0 <= n, n <= Window, Tick
    PROVE  Recent(b, n)' = Recent(b, n - 1)
<1> DEFINE f == [age \in 0..(n - 1) |-> passed[b][age]]
           g == [age \in 0..n |-> passed'[b][age]]
           h == [age \in 1..n |-> g[age]]
           z == [age \in {0} |-> g[age]]
<1>1. f \in [0..(n - 1) -> Nat] /\ Window \in Nat /\ passed[b] \in [0..Window -> Nat]
  BY RecentType DEF LimitAssumption, LimitTypeOK
<1>2. \A age \in 0..n : g[age] = IF age = 0 THEN 0 ELSE passed[b][age - 1]
  BY <1>1 DEF Tick
<1>3. g \in [0..n -> Nat] /\ g[0] = 0
  <2>1. ASSUME NEW age \in 0..n PROVE g[age] \in Nat
    <3>1. CASE age = 0
      BY <1>2, <3>1
    <3>2. CASE age # 0
      <4>1. age - 1 \in 0..Window
        BY <1>1, <3>2
      <4> QED BY <1>1, <1>2, <3>2, <4>1
    <3> QED BY <3>1, <3>2
  <2> QED BY <1>2, <2>1
<1>4. h \in [1..((n - 1) + 1) -> Nat] /\ \A i \in 0..(n - 1) : h[i + 1] = f[i]
  <2>1. (n - 1) + 1 = n /\ 1..n \subseteq 0..n
    OBVIOUS
  <2>2. h \in [1..n -> Nat]
    BY <1>3, <2>1
  <2>3. ASSUME NEW i \in 0..(n - 1) PROVE h[i + 1] = f[i]
    <3>1. i + 1 \in 1..n /\ i + 1 \in 0..n /\ i + 1 # 0 /\ (i + 1) - 1 = i
      OBVIOUS
    <3>2. g[i + 1] = passed[b][i]
      BY <1>2, <3>1
    <3> QED BY <3>1, <3>2
  <2> QED BY <2>1, <2>2, <2>3
<1>5. {0} \cup 1..n = 0..n /\ {0} \cap 1..n = {} /\ (n - 1) + 1 = n /\ n - 1 \in Int
  OBVIOUS
<1>6. IsFiniteSet({0}) /\ IsFiniteSet(1..n)
  <2>1. IsFiniteSet({0})
    BY FS_Singleton
  <2>2. IsFiniteSet(1..n)
    BY IntervalsFinite
  <2> QED BY <2>1, <2>2
<1>7. Total(z) = 0
  <2>1. z = [age \in {0} |-> 0]
    BY <1>3
  <2>2. Total([age \in {0} |-> 0]) = 0
    BY ONLY 0 \in Nat, TotalSingleton
  <2> QED BY <2>1, <2>2
<1>8. Recent(b, n)' = Total(g) /\ Recent(b, n - 1) = Total(f)
  BY DEF Recent
<1> DEFINE S == {0}
           T == 1..n
           U == 0..n
<1>9. /\ IsFiniteSet(S) /\ IsFiniteSet(T) /\ U = S \cup T /\ S \cap T = {}
      /\ g \in [U -> Nat]
  BY <1>3, <1>5, <1>6
<1>10. z = [x \in S |-> g[x]] /\ h = [x \in T |-> g[x]]
  OBVIOUS
<1> HIDE DEF f, g, h, z
<1>11. Total(h) = Total(f)
  BY ONLY <1>1, <1>4, <1>5, TotalShift
<1> HIDE DEF S, T, U
<1>12. Total(g) = Total(z) + Total(h) /\ Total(h) \in Nat
  BY ONLY <1>9, <1>10, TotalParts
<1> QED BY <1>7, <1>8, <1>11, <1>12

-----------------------------------------------------------------------------
(* The limiter, step by step.                                              *)

LEMMA Quotas ==
    ASSUME NEW a \in Nat, NEW v \in Nat
    PROVE  /\ (1 + v) * a \in Nat /\ a <= (1 + v) * a
           /\ (1 + (v + 1)) * a = a + (1 + v) * a /\ (2 + v) * a = a + (1 + v) * a
<1>1. v * a \in Nat
  OBVIOUS
<1>2. /\ (1 + v) * a = a + v * a /\ (1 + (v + 1)) * a = a + (a + v * a)
      /\ (2 + v) * a = a + (a + v * a)
  OBVIOUS
<1> QED BY <1>1, <1>2

LEMMA LimitNumbers ==
    ASSUME LimitAssumption
    PROVE  AuthLimit \in Nat /\ UnauthLimit \in Nat /\ Window \in Nat /\ MaxWrites \in Nat
BY DEF LimitAssumption

\* Nobody else counts in the bucket of a cookie, or of the address.
LEMMA OwnKey ==
    ASSUME LimitAssumption, LimitTypeOK, NEW a \in Askers
    PROVE  /\ a \in Parties /\ RateKey(a) \in Keys /\ RateKey(a) = <<a, Written(a)>>
           /\ Written(a) \in Nat /\ Limit(a) \in Nat
           /\ \A v : RateKey(a) = <<a, v>> => v = Written(a)
           /\ \A b, v : RateKey(a) = <<b, v>> => a = b
<1>1. a \in Parties /\ RateKey(a) = <<a, Written(a)>> /\ Limit(a) \in Nat
  BY LimitNumbers DEF Askers, Parties, RateKey, Limit
<1>2. RateKey(a) \in Keys /\ Written(a) \in Nat
  BY DEF Askers, RateKey, Written, Keys, LimitTypeOK
<1>3. /\ \A v : <<a, Written(a)>> = <<a, v>> => v = Written(a)
      /\ \A b, v : <<a, Written(a)>> = <<b, v>> => a = b
  OBVIOUS
<1> QED BY <1>1, <1>2, <1>3

LEMMA CookieKey ==
    ASSUME LimitAssumption, LimitTypeOK, NEW u \in Users \ Chunked
    PROVE  /\ u \in Askers /\ Asker(u) = u /\ Written(u) = version[u] /\ version[u] \in Nat
           /\ \A v \in 0..MaxWrites : v \in Nat /\ <<u, v>> \in Keys
<1>1. u # "address"
  BY DEF LimitAssumption
<1> QED BY <1>1, LimitNumbers DEF Askers, Asker, Written, Keys, LimitTypeOK

LEMMA AskerOf ==
    ASSUME LimitAssumption, NEW u \in Users
    PROVE  /\ Asker(u) \in Askers /\ u \in Parties
           /\ \A a \in Askers : a = u => a = Asker(u)
BY DEF LimitAssumption, Asker, Askers, Parties

BucketRows == [count: Nat, resetIn: -1..Window]

LEMMA CountedRow ==
    ASSUME LimitAssumption, LimitTypeOK, NEW a \in Askers
    PROVE  /\ RateKey(a) \in Keys /\ bucket[RateKey(a)] \in BucketRows
           /\ Counted(a) \in BucketRows /\ Counted(a).resetIn \in 0..Window
           /\ LET old == bucket[RateKey(a)]
              IN  IF old.resetIn < 0 THEN Counted(a).count = 1 /\ Counted(a).resetIn = Window
                  ELSE /\ Counted(a).resetIn = old.resetIn
                       /\ Counted(a).count = IF old.count > Limit(a) THEN old.count ELSE old.count + 1
<1>0. Limit(a) \in Nat
  BY OwnKey
<1> DEFINE old == bucket[RateKey(a)]
<1>1. RateKey(a) \in Keys
  BY OwnKey
<1>2. old \in BucketRows
  BY <1>1 DEF LimitTypeOK, BucketRows
<1>3. Window \in Nat
  BY LimitNumbers
<1>4. CASE old.resetIn < 0
  BY <1>1, <1>2, <1>3, <1>4 DEF Counted, BucketRows
<1>5. CASE ~(old.resetIn < 0)
  <2> DEFINE n == IF old.count > Limit(a) THEN old.count ELSE old.count + 1
  <2>1. n \in Nat
    BY <1>2 DEF BucketRows
  <2>2. Counted(a) = [old EXCEPT !.count = n]
    BY <1>5 DEF Counted
  <2> HIDE DEF n, old
  <2>3. Counted(a) \in BucketRows /\ Counted(a).count = n /\ Counted(a).resetIn = old.resetIn
    BY <1>2, <2>1, <2>2 DEF BucketRows
  <2>4. old.resetIn \in 0..Window
    BY <1>2, <1>3, <1>5 DEF BucketRows
  <2> QED BY <1>1, <1>2, <1>5, <2>3, <2>4 DEF old, n
<1> QED BY <1>4, <1>5

\* Clearing away what is stale loses no bucket that counts.
LEMMA CleanupKeeps ==
    ASSUME LimitAssumption, NEW rows \in [Keys -> BucketRows]
    PROVE  /\ CleanupBuckets(rows) \in [Keys -> BucketRows]
           /\ \A k \in Keys : IF rows[k].resetIn < 0 THEN CleanupBuckets(rows)[k].resetIn < 0
                              ELSE CleanupBuckets(rows)[k] = rows[k]
<1>1. Absent \in BucketRows /\ Absent.resetIn < 0
  BY LimitNumbers DEF Absent, BucketRows
<1>2. CASE CleanupBuckets(rows) = rows
  BY <1>2
<1>3. CASE CleanupBuckets(rows) = [k \in Keys |-> IF rows[k].resetIn < 0 THEN Absent ELSE rows[k]]
  BY <1>1, <1>3
<1> QED BY <1>2, <1>3 DEF CleanupBuckets

\* What a request does to the buckets, let through or not.
LEMMA RequestBuckets ==
    ASSUME LimitAssumption, LimitTypeOK, NEW w \in Users, NEW a, a = Asker(w), LetThrough(w) \/ TooMany(w)
    PROVE  /\ bucket' \in [Keys -> BucketRows]
           /\ bucket'[RateKey(a)] = Counted(a)
           /\ \A k \in Keys : k # RateKey(a) =>
                 IF bucket[k].resetIn < 0 THEN bucket'[k].resetIn < 0 ELSE bucket'[k] = bucket[k]
<1> DEFINE rows == [bucket EXCEPT ![RateKey(a)] = Counted(a)]
<1>1. Counted(a) \in BucketRows /\ Counted(a).resetIn >= 0 /\ RateKey(a) \in Keys
  BY AskerOf, CountedRow, LimitNumbers
<1>2. /\ rows \in [Keys -> BucketRows] /\ rows[RateKey(a)] = Counted(a)
      /\ \A k \in Keys : k # RateKey(a) => rows[k] = bucket[k]
  BY <1>1 DEF LimitTypeOK, BucketRows
<1>3. bucket' = rows \/ bucket' = CleanupBuckets(rows)
  BY DEF LetThrough, TooMany
<1> HIDE DEF rows
<1>4. ~(Counted(a).resetIn < 0)
  BY <1>1 DEF BucketRows
<1> QED BY <1>1, <1>2, <1>3, <1>4, CleanupKeeps

LEMMA LimitTypeStep ==
    ASSUME LimitAssumption, LimitTypeOK, [LimitNext]_limitVars
    PROVE  LimitTypeOK'
<1> USE DEF LimitTypeOK
<1>0. Window \in Nat /\ MaxWrites \in Nat
  BY LimitNumbers
<1>1. ASSUME NEW w \in Users, LetThrough(w) PROVE LimitTypeOK'
  <2>1. bucket' \in [Keys -> BucketRows]
    BY <1>1, RequestBuckets
  <2>2. passed' \in [Parties -> [0..Window -> Nat]]
    BY <1>0, <1>1 DEF LetThrough
  <2> QED BY <1>1, <2>1, <2>2 DEF LetThrough, BucketRows
<1>2. ASSUME NEW w \in Users, TooMany(w) PROVE LimitTypeOK'
  BY <1>2, RequestBuckets DEF TooMany, BucketRows
<1>3. ASSUME NEW w \in Users, CookieWritten(w) PROVE LimitTypeOK'
  BY <1>0, <1>3 DEF CookieWritten
<1>4. CASE Tick
  <2>1. bucket' \in [Keys -> [count: Nat, resetIn: -1..Window]]
    BY <1>0, <1>4 DEF Tick
  <2>2. passed' \in [Parties -> [0..Window -> Nat]]
    <3>1. ASSUME NEW b \in Parties, NEW age \in 0..Window
          PROVE  (IF age = 0 THEN 0 ELSE passed[b][age - 1]) \in Nat
      BY <1>0
    <3> QED BY <1>4, <3>1 DEF Tick
  <2> QED BY <1>4, <2>1, <2>2 DEF Tick
<1>5. CASE UNCHANGED limitVars
  BY <1>5 DEF limitVars
<1> QED BY <1>1, <1>2, <1>3, <1>4, <1>5 DEF LimitNext

\* The bucket of a cookie, and the numbers about it.
LEMMA OwnRow ==
    ASSUME LimitAssumption, LimitTypeOK, NEW a \in Askers
    PROVE  /\ Own(a) \in BucketRows /\ Own(a).count \in Nat /\ Own(a).resetIn \in -1..Window
           /\ Granted(a) \in Nat /\ Granted(a) <= Limit(a) /\ Lately(a) \in Nat
           /\ Own(a).resetIn >= 0 => Age(a) \in 0..Window
<1>1. Limit(a) \in Nat /\ Window \in Nat /\ a \in Parties
  BY LimitNumbers, OwnKey
<1>2. Own(a) \in BucketRows
  BY OwnKey DEF Own, LimitTypeOK, BucketRows
<1>3. Own(a).count \in Nat /\ Own(a).resetIn \in -1..Window
  BY <1>2 DEF BucketRows
<1>4. Recent(a, Window) \in Nat
  BY <1>1, RecentType
<1>5. Lately(a) \in Nat
  BY <1>1, <1>4, RecentEnds
<1>6. Own(a).resetIn >= 0 => Age(a) \in 0..Window
  BY <1>1, <1>3 DEF Age
<1> QED BY <1>1, <1>2, <1>3, <1>5, <1>6 DEF Granted

\* What BucketOK says after a step, with the numbers named.
LEMMA BucketNext ==
    ASSUME NEW a, NEW n, NEW g,
           Own(a)'.resetIn < 0 => Lately(a)' <= (1 + Written(a)') * Limit(a),
           ~(Own(a)'.resetIn < 0) =>
               /\ n = Age(a)' /\ g = Granted(a)'
               /\ Recent(a, n)' >= g /\ Recent(a, n - 1)' <= g
               /\ Lately(a)' <= g + (1 + Written(a)') * Limit(a)
    PROVE  BucketOK(a)'
BY DEF BucketOK, Recent

\* A bucket that nobody counts in and whose requests stay as they were.
LEMMA QuietBucket ==
    ASSUME LimitAssumption, LimitTypeOK, NEW a \in Askers, BucketOK(a),
           Written(a)' = Written(a), passed'[a] = passed[a],
           IF Own(a).resetIn < 0 THEN Own(a)'.resetIn < 0 ELSE Own(a)' = Own(a)
    PROVE  BucketOK(a)'
<1>1. Lately(a)' = Lately(a) /\ \A n : Recent(a, n)' = Recent(a, n)
  BY DEF Lately, Recent
<1>2. CASE Own(a).resetIn < 0
  BY <1>1, <1>2 DEF BucketOK
<1>3. CASE ~(Own(a).resetIn < 0)
  <2>1. Own(a)' = Own(a) /\ Age(a)' = Age(a) /\ Granted(a)' = Granted(a)
    BY <1>3 DEF Age, Granted
  <2>2. PICK n, g : n = Age(a) /\ g = Granted(a)
    OBVIOUS
  <2>3. /\ Recent(a, n)' >= g /\ Recent(a, n - 1)' <= g
        /\ Lately(a)' <= g + (1 + Written(a)') * Limit(a)
    BY <1>1, <1>3, <2>2 DEF BucketOK
  <2> QED BY <1>3, <2>1, <2>2, <2>3, BucketNext
<1> QED BY <1>2, <1>3

\* The own bucket after a request of its browser.
LEMMA OwnCounted ==
    ASSUME LimitAssumption, LimitTypeOK, NEW u \in Users, NEW a, a = Asker(u),
           LetThrough(u) \/ TooMany(u)
    PROVE  /\ Written(a)' = Written(a) /\ Own(a)' = Counted(a)
           /\ Own(a)'.resetIn \in 0..Window /\ Own(a)'.count \in Nat
           /\ IF Own(a).resetIn < 0 THEN Own(a)'.count = 1 /\ Own(a)'.resetIn = Window
              ELSE /\ Own(a)'.resetIn = Own(a).resetIn
                   /\ Own(a)'.count = IF Own(a).count > Limit(a) THEN Own(a).count
                                      ELSE Own(a).count + 1
<1>0. a \in Askers
  BY AskerOf
<1>1. Written(a)' = Written(a) /\ RateKey(a)' = RateKey(a)
  BY DEF LetThrough, TooMany, Written, RateKey
<1>3. Own(a)' = Counted(a) /\ bucket[RateKey(a)] = Own(a)
  BY <1>1, RequestBuckets DEF Own
<1> QED BY <1>0, <1>1, <1>3, CountedRow DEF BucketRows

LEMMA PassBucket ==
    ASSUME LimitAssumption, LimitTypeOK, NEW u \in Users, NEW a, a = Asker(u),
           BucketOK(a), LetThrough(u)
    PROVE  BucketOK(a)'
<1> DEFINE q == (1 + Written(a)) * Limit(a)
<1>0. a \in Askers /\ a \in Parties
  BY AskerOf, OwnKey
<1> USE <1>0
<1>1. Limit(a) \in Nat /\ Window \in Nat /\ Written(a) \in Nat /\ q \in Nat
  BY <1>0, LimitNumbers, OwnKey, Quotas
<1> HIDE DEF q
<1>2. Counted(a).count <= Limit(a) /\ passed'[a] = [passed[a] EXCEPT ![0] = @ + 1]
  BY <1>0 DEF LetThrough
<1>3. \A n \in 0..Window : Recent(a, n)' = Recent(a, n) + 1 /\ Recent(a, n) \in Nat
  <2> TAKE n \in 0..Window
  <2>1. n \in Int /\ 0 <= n /\ n <= Window
    BY <1>1
  <2> QED BY <1>0, <1>2, <2>1, RecentPass, RecentType
<1>4. Lately(a)' = Lately(a) + 1
  <2>1. Recent(a, Window)' = Recent(a, Window) + 1
    BY <1>1, <1>3
  <2>2. Recent(a, Window)' = Lately(a)'
    BY LimitTypeStep, RecentEnds DEF LimitNext, LimitTypeOK, Recent, Lately
  <2> QED BY <2>1, <2>2, RecentEnds
<1>5. Recent(a, -1)' = 0
  <2>1. 0..(-1) = {}
    OBVIOUS
  <2> QED BY <2>1, TotalEmpty DEF Recent
<1>6. Own(a)'.count <= Limit(a) /\ ~(Own(a)'.resetIn < 0) /\ Written(a)' = Written(a)
      /\ Granted(a)' = Own(a)'.count /\ Age(a)' = Window - Own(a)'.resetIn
  BY <1>1, <1>2, OwnCounted DEF Granted, Age
<1>7. CASE Own(a).resetIn < 0
  <2>1. Own(a)'.count = 1 /\ Age(a)' = 0
    BY <1>1, <1>6, <1>7, OwnCounted
  <2>2. Recent(a, 0)' >= 1
    <3>1. 0 \in 0..Window
      BY <1>1
    <3> QED BY <1>3, <3>1
  <2>3. Lately(a)' <= 1 + q
    BY <1>1, <1>4, <1>7, OwnRow DEF BucketOK, q
  <2>4. 0 - 1 = -1
    OBVIOUS
  <2> QED BY <1>5, <1>6, <2>1, <2>2, <2>3, <2>4, BucketNext DEF q
<1>8. CASE ~(Own(a).resetIn < 0)
  <2>1. PICK n \in 0..Window : n = Age(a)
    BY <1>8, OwnRow
  <2>2. Own(a)'.resetIn = Own(a).resetIn /\ Own(a)'.count = Own(a).count + 1
        /\ Own(a).count <= Limit(a) /\ Own(a).count \in Nat
    BY <1>1, <1>6, <1>8, OwnCounted, OwnRow
  <2>3. Age(a)' = n /\ Granted(a) = Own(a).count
    BY <1>1, <1>6, <2>1, <2>2 DEF Age, Granted
  <2>4. PICK g \in Nat : g = Granted(a)
    BY OwnRow
  <2>5. Recent(a, n) >= g /\ Recent(a, n - 1) <= g /\ Lately(a) <= g + q
    BY <1>8, <2>1, <2>4 DEF BucketOK, q
  <2>6. Recent(a, n)' >= g + 1
    BY <1>3, <2>1, <2>5
  <2>7. Recent(a, n - 1)' <= g + 1
    <3>1. CASE n = 0
      <4>1. n - 1 = -1
        BY <3>1
      <4> QED BY <1>5, <4>1
    <3>2. CASE n # 0
      <4>1. n - 1 \in 0..Window
        BY <1>1, <3>2
      <4> QED BY <1>3, <2>5, <4>1
    <3> QED BY <3>1, <3>2
  <2>8. Lately(a)' <= (g + 1) + q
    BY <1>1, <1>4, <2>5, OwnRow
  <2>9. g + 1 = Granted(a)'
    BY <1>6, <2>2, <2>3, <2>4
  <2> QED BY <1>6, <2>3, <2>6, <2>7, <2>8, <2>9, BucketNext DEF q
<1> QED BY <1>7, <1>8

\* A refusal grants nothing, and comes after a whole quota.
LEMMA RefuseBucket ==
    ASSUME LimitAssumption, LimitTypeOK, NEW u \in Users, NEW a, a = Asker(u),
           BucketOK(a), TooMany(u)
    PROVE  BucketOK(a)' /\ Own(a)'.resetIn >= 0 /\ Own(a)'.count > Limit(a)
<1> DEFINE q == (1 + Written(a)) * Limit(a)
<1>0. a \in Askers /\ a \in Parties
  BY AskerOf, OwnKey
<1> USE <1>0
<1>1. Limit(a) \in Nat /\ Window \in Nat /\ Written(a) \in Nat /\ q \in Nat
  BY <1>0, LimitNumbers, OwnKey, Quotas
<1> HIDE DEF q
<1>2. Counted(a).count > Limit(a) /\ passed' = passed
  BY DEF TooMany
<1>3. Own(a)'.count > Limit(a) /\ Own(a)'.resetIn >= 0 /\ ~(Own(a)'.resetIn < 0)
      /\ Written(a)' = Written(a) /\ Granted(a)' = Limit(a) /\ Age(a)' = Window - Own(a)'.resetIn
  BY <1>1, <1>2, OwnCounted DEF Granted, Age
<1>4. Lately(a)' = Lately(a) /\ \A n : Recent(a, n)' = Recent(a, n)
  BY <1>2 DEF Lately, Recent
<1>5. CASE Own(a).resetIn < 0
  <2>1. Own(a)'.count = 1 /\ Age(a)' = 0 /\ Limit(a) = 0
    BY <1>1, <1>3, <1>5, OwnCounted
  <2>2. Recent(a, 0)' >= Limit(a)
    <3>1. 0 \in Int /\ 0 <= Window
      BY <1>1
    <3>2. Recent(a, 0) \in Nat
      BY <3>1, RecentType
    <3> QED BY <1>4, <2>1, <3>2
  <2>3. Recent(a, 0 - 1)' <= Limit(a)
    <3>1. 0 - 1 = -1
      OBVIOUS
    <3> QED BY <1>4, <2>1, <3>1, RecentEnds
  <2>4. Lately(a)' <= Limit(a) + q
    BY <1>1, <1>4, <1>5, <2>1, OwnRow DEF BucketOK, q
  <2> QED BY <1>3, <2>1, <2>2, <2>3, <2>4, BucketNext DEF q
<1>6. CASE ~(Own(a).resetIn < 0)
  <2>1. PICK n \in 0..Window : n = Age(a)
    BY <1>6, OwnRow
  <2>2. Own(a)'.resetIn = Own(a).resetIn /\ Own(a).count \in Nat /\ Own(a).count + 1 > Limit(a)
    BY <1>1, <1>3, <1>6, OwnCounted, OwnRow
  <2>3. Age(a)' = n
    BY <1>3, <2>1, <2>2 DEF Age
  <2>4. PICK g \in Nat : g = Granted(a)
    BY OwnRow
  <2>5. g = Limit(a)
    BY <1>1, <2>2, <2>4 DEF Granted
  <2>6. Recent(a, n)' >= g /\ Recent(a, n - 1)' <= g /\ Lately(a)' <= g + q
    BY <1>4, <1>6, <2>1, <2>4 DEF BucketOK, q
  <2> QED BY <1>3, <2>3, <2>5, <2>6, BucketNext DEF q
<1> QED BY <1>3, <1>5, <1>6

\* A window that ends leaves what it let through since the tick after it began.
LEMMA TickBucket ==
    ASSUME LimitAssumption, LimitTypeOK, NEW a \in Askers, BucketOK(a), Tick
    PROVE  BucketOK(a)'
<1>0. a \in Parties
  BY OwnKey
<1> USE <1>0
<1> DEFINE q == (1 + Written(a)) * Limit(a)
<1>1. /\ Limit(a) \in Nat /\ Window \in Nat /\ Written(a) \in Nat /\ q \in Nat /\ Limit(a) <= q
      /\ RateKey(a) \in Keys /\ a \in Parties
  BY LimitNumbers, OwnKey, Quotas
<1> HIDE DEF q
<1>2. Written(a)' = Written(a) /\ RateKey(a)' = RateKey(a)
  BY DEF Tick, Written, RateKey
<1>3. Own(a)' = IF Own(a).resetIn < 0 THEN Own(a)
                ELSE [count |-> Own(a).count, resetIn |-> Own(a).resetIn - 1]
  BY <1>1, <1>2 DEF Own, Tick
<1>4. \A n \in 0..Window : Recent(a, n)' = Recent(a, n - 1)
  <2> TAKE n \in 0..Window
  <2>1. n \in Int /\ 0 <= n /\ n <= Window
    BY <1>1
  <2> QED BY <2>1, RecentTick
<1>5. Lately(a)' = Recent(a, Window - 1) /\ Recent(a, Window - 1) <= Lately(a)
      /\ Recent(a, Window - 1) \in Nat
  <2>1. Window \in 0..Window /\ Window - 1 \in Int /\ Window - 1 >= -1 /\ Window - 1 <= Window
        /\ Window \in Int /\ Window <= Window
    BY <1>1
  <2>2. Recent(a, Window - 1) \in Nat
    BY ONLY <2>1, LimitAssumption, LimitTypeOK, a \in Parties, RecentType
  <2>3. Recent(a, Window - 1) <= Recent(a, Window)
    BY ONLY <2>1, LimitAssumption, LimitTypeOK, a \in Parties, RecentGrows
  <2>4. Recent(a, Window)' = Lately(a)'
    BY LimitTypeStep, RecentEnds DEF LimitNext, LimitTypeOK, Recent, Lately
  <2> QED BY <1>4, <2>1, <2>2, <2>3, <2>4, RecentEnds
<1>6. CASE Own(a).resetIn < 0
  BY <1>1, <1>2, <1>3, <1>5, <1>6, OwnRow, BucketNext DEF BucketOK
<1>7. CASE ~(Own(a).resetIn < 0)
  <2>1. PICK n \in 0..Window : n = Age(a)
    BY <1>7, OwnRow
  <2>2. PICK g \in Nat : g = Granted(a)
    BY OwnRow
  <2>3. /\ Recent(a, n) >= g /\ Recent(a, n - 1) <= g /\ Lately(a) <= g + q
        /\ g <= Limit(a) /\ Lately(a) \in Nat
    BY <1>7, <2>1, <2>2, OwnRow DEF BucketOK, q
  <2>4. /\ Own(a)'.resetIn = Own(a).resetIn - 1 /\ Own(a)'.count = Own(a).count
        /\ Own(a).resetIn \in 0..Window
    BY <1>1, <1>3, <1>7, OwnRow
  <2>5. CASE Own(a).resetIn = 0
    <3>1. Own(a)'.resetIn < 0 /\ n = Window
      BY <1>1, <2>1, <2>4, <2>5 DEF Age
    <3>2. Lately(a)' <= q
      BY <1>1, <1>5, <2>3, <3>1
    <3> QED BY <1>2, <3>1, <3>2, BucketNext DEF q
  <2>6. CASE Own(a).resetIn # 0
    <3>1. ~(Own(a)'.resetIn < 0) /\ Age(a)' = n + 1 /\ Granted(a)' = g /\ n + 1 \in 0..Window
      BY <1>1, <2>1, <2>2, <2>4, <2>6 DEF Age, Granted
    <3>2. Recent(a, n + 1)' = Recent(a, n)
      <4>1. (n + 1) - 1 = n
        OBVIOUS
      <4> QED BY <1>4, <3>1, <4>1
    <3>3. Recent(a, (n + 1) - 1)' = Recent(a, n - 1)
      <4>1. (n + 1) - 1 = n
        OBVIOUS
      <4> QED BY <1>4, <4>1
    <3>4. Lately(a)' <= g + q
      BY <1>1, <1>5, <2>3
    <3> QED BY <1>2, <2>3, <3>1, <3>2, <3>3, <3>4, BucketNext DEF q
  <2> QED BY <2>5, <2>6
<1> QED BY <1>6, <1>7

\* A new cookie has no bucket yet: what was granted is one quota more.
LEMMA CookieBucket ==
    ASSUME LimitAssumption, LimitTypeOK, FutureFree, NEW u \in Users \ Chunked, BucketOK(u), CookieWritten(u)
    PROVE  BucketOK(u)'
<1> DEFINE q == (1 + Written(u)) * Limit(u)
<1>1. u \in Askers /\ u # "address" /\ Written(u) = version[u] /\ Written(u) < MaxWrites /\ Written(u)' = Written(u) + 1
      /\ bucket' = bucket /\ passed' = passed
  <2>1. u \in Askers /\ u # "address" /\ version'[u] = version[u] + 1
    BY CookieKey DEF CookieWritten, LimitTypeOK, LimitAssumption
  <2> QED BY <2>1 DEF CookieWritten, Written
<1>2. /\ Limit(u) \in Nat /\ q \in Nat /\ Limit(u) <= q /\ Written(u) \in Nat
      /\ (1 + (Written(u) + 1)) * Limit(u) = Limit(u) + q
  BY <1>1, LimitNumbers, OwnKey, Quotas
<1>3. Written(u) + 1 \in 0..MaxWrites /\ Written(u) + 1 > Written(u)
  BY <1>1, <1>2, LimitNumbers
<1>4. Own(u)'.resetIn < 0
  BY <1>1, <1>3 DEF FutureFree, Own, RateKey
<1>5. Lately(u)' = Lately(u)
  BY <1>1 DEF Lately
<1> HIDE DEF q
<1>6. Lately(u) <= Limit(u) + q
  <2>1. CASE Own(u).resetIn < 0
    <3>1. Lately(u) <= q
      BY <2>1 DEF BucketOK, q
    <3> QED BY <1>1, <1>2, <3>1, OwnRow
  <2>2. CASE ~(Own(u).resetIn < 0)
    <3>1. Lately(u) <= Granted(u) + q
      BY <2>2 DEF BucketOK, q
    <3> QED BY <1>1, <1>2, <3>1, OwnRow
  <2> QED BY <2>1, <2>2
<1>7. Lately(u)' <= (1 + Written(u)') * Limit(u)
  BY <1>1, <1>2, <1>5, <1>6
<1> QED BY <1>4, <1>7, BucketNext

LEMMA LimitInvInit == LimitInit => LimitInv
<1> SUFFICES ASSUME LimitInit PROVE LimitInv
  OBVIOUS
<1>1. Window \in Nat /\ MaxWrites \in Nat /\ LimitAssumption
  BY LimitAssumption, LimitNumbers
<1>2. LimitTypeOK
  BY <1>1 DEF LimitInit, LimitTypeOK, Absent
<1>3. FutureFree
  BY DEF LimitInit, FutureFree, Absent, Keys
<1>4. ASSUME NEW a \in Askers PROVE BucketOK(a)
  <2>1. Own(a).resetIn < 0 /\ Limit(a) \in Nat /\ Written(a) \in Nat
    BY <1>1, <1>2, OwnKey DEF LimitInit, Own, Absent
  <2>2. Lately(a) = 0
    <3>1. passed[a] = [age \in 0..Window |-> 0]
      BY <1>1, <1>2, OwnKey DEF LimitInit
    <3>2. Units(passed[a]) = {}
      BY <3>1 DEF Units
    <3> QED BY <3>2, FS_EmptySet DEF Lately, Total
  <2>3. (1 + Written(a)) * Limit(a) \in Nat
    BY <2>1, Quotas
  <2> QED BY <2>1, <2>2, <2>3 DEF BucketOK
<1> QED BY <1>2, <1>3, <1>4 DEF LimitInv, LimitInit

\* A request counts in the bucket of its asker and in no other.
LEMMA RequestStep ==
    ASSUME LimitInv, NEW w \in Users, LetThrough(w) \/ TooMany(w)
    PROVE  FutureFree' /\ \A a \in Askers : BucketOK(a)'
<1>0. LimitAssumption /\ LimitTypeOK /\ FutureFree /\ \A a \in Askers : BucketOK(a)
  BY LimitAssumption DEF LimitInv
<1>1. version' = version /\ Asker(w) \in Askers
  BY <1>0, AskerOf DEF LetThrough, TooMany
<1>2. ASSUME NEW k \in Keys, k # RateKey(Asker(w))
      PROVE  IF bucket[k].resetIn < 0 THEN bucket'[k].resetIn < 0 ELSE bucket'[k] = bucket[k]
  BY <1>0, <1>2, RequestBuckets
<1>3. FutureFree'
  <2> SUFFICES ASSUME NEW u \in Users \ Chunked, NEW v \in 0..MaxWrites, v > version[u]
               PROVE  bucket'[<<u, v>>].resetIn < 0
    BY <1>1 DEF FutureFree
  <2>1. <<u, v>> \in Keys /\ v \in Nat /\ Written(u) = version[u] /\ version[u] \in Nat
    BY <1>0, CookieKey
  <2>2. v # Written(u)
    BY <2>1
  <2>3. <<u, v>> # RateKey(Asker(w))
    BY <1>0, <1>1, <2>2, OwnKey
  <2>4. bucket[<<u, v>>].resetIn < 0
    BY <1>0 DEF FutureFree
  <2> QED BY <1>2, <2>1, <2>3, <2>4
<1>4. ASSUME NEW a \in Askers PROVE BucketOK(a)'
  <2>1. CASE a = Asker(w)
    BY <1>0, <2>1, PassBucket, RefuseBucket
  <2>2. CASE a # Asker(w)
    <3>1. RateKey(a) \in Keys /\ RateKey(a) # RateKey(Asker(w)) /\ a \in Parties
      BY <1>0, <1>1, <2>2, OwnKey
    <3>2. Written(a)' = Written(a) /\ RateKey(a)' = RateKey(a)
      BY <1>1 DEF Written, RateKey
    <3>3. IF Own(a).resetIn < 0 THEN Own(a)'.resetIn < 0 ELSE Own(a)' = Own(a)
      BY <1>2, <3>1, <3>2 DEF Own
    <3>4. a # w
      BY <1>0, <2>2, AskerOf
    <3>5. passed'[a] = passed[a]
      BY <2>2, <3>1, <3>4 DEF LetThrough, TooMany
    <3> QED BY <1>0, <3>2, <3>3, <3>5, QuietBucket
  <2> QED BY <2>1, <2>2
<1> QED BY <1>3, <1>4

\* A cookie written again has a bucket nobody has counted in.
LEMMA CookieStep ==
    ASSUME LimitInv, NEW w \in Users, CookieWritten(w)
    PROVE  FutureFree' /\ \A a \in Askers : BucketOK(a)'
<1>0. LimitAssumption /\ LimitTypeOK /\ FutureFree /\ \A a \in Askers : BucketOK(a)
  BY LimitAssumption DEF LimitInv
<1>1. /\ bucket' = bucket /\ passed' = passed /\ version'[w] = version[w] + 1
      /\ w \in Users \ Chunked /\ \A u \in Users : u # w => version'[u] = version[u]
  BY <1>0 DEF CookieWritten, LimitTypeOK
<1>2. ASSUME NEW u \in Users \ Chunked, NEW v \in 0..MaxWrites, v > version'[u]
      PROVE  bucket'[<<u, v>>].resetIn < 0
  <2>1. v \in Nat /\ version[u] \in Nat
    BY <1>0, CookieKey
  <2>2. v > version[u]
    BY <1>1, <1>2, <2>1
  <2> QED BY <1>0, <1>1, <2>2 DEF FutureFree
<1>3. ASSUME NEW a \in Askers PROVE BucketOK(a)'
  <2>1. CASE a = w
    BY <1>0, <1>1, <2>1, CookieBucket
  <2>2. CASE a # w
    <3>1. Written(a)' = Written(a) /\ RateKey(a)' = RateKey(a)
      BY <1>1, <2>2 DEF Written, RateKey, Askers
    <3>2. Own(a)' = Own(a) /\ passed'[a] = passed[a]
      BY <1>1, <3>1 DEF Own
    <3>3. IF Own(a).resetIn < 0 THEN Own(a)'.resetIn < 0 ELSE Own(a)' = Own(a)
      BY <3>2
    <3> QED BY <1>0, <3>1, <3>2, <3>3, QuietBucket
  <2> QED BY <2>1, <2>2
<1> QED BY <1>2, <1>3 DEF FutureFree

LEMMA LimitInvStep == LimitInv /\ [LimitNext]_limitVars => LimitInv'
<1> SUFFICES ASSUME LimitInv, [LimitNext]_limitVars PROVE LimitInv'
  OBVIOUS
<1>0. LimitAssumption /\ LimitTypeOK /\ FutureFree /\ \A a \in Askers : BucketOK(a)
  BY LimitAssumption DEF LimitInv
<1>1. LimitTypeOK'
  BY <1>0, LimitTypeStep
<1>2. ASSUME NEW w \in Users, LetThrough(w) PROVE LimitInv'
  <2>1. refused' = {}
    BY <1>2 DEF LetThrough
  <2> QED BY <1>1, <1>2, <2>1, RequestStep DEF LimitInv
<1>3. ASSUME NEW w \in Users, TooMany(w) PROVE LimitInv'
  <2>1. refused' = {w}
    BY <1>3 DEF TooMany
  <2>2. Own(Asker(w))'.resetIn >= 0 /\ Own(Asker(w))'.count > Limit(Asker(w))
    BY <1>0, <1>3, AskerOf, RefuseBucket
  <2> QED BY <1>1, <1>3, <2>1, <2>2, RequestStep DEF LimitInv
<1>4. ASSUME NEW w \in Users, CookieWritten(w) PROVE LimitInv'
  <2>1. refused' = {}
    BY <1>4 DEF CookieWritten
  <2> QED BY <1>1, <1>4, <2>1, CookieStep DEF LimitInv
<1>5. CASE Tick
  <2>1. FutureFree'
    <3> SUFFICES ASSUME NEW u \in Users \ Chunked, NEW v \in 0..MaxWrites, v > version[u]
                 PROVE  bucket'[<<u, v>>].resetIn < 0
      BY <1>5 DEF FutureFree, Tick
    <3>1. <<u, v>> \in Keys /\ bucket[<<u, v>>].resetIn < 0
      BY <1>0, CookieKey DEF FutureFree
    <3> QED BY <1>5, <3>1 DEF Tick
  <2>2. refused' = {}
    BY <1>5 DEF Tick
  <2>3. \A a \in Askers : BucketOK(a)'
    BY <1>0, <1>5, TickBucket
  <2> QED BY <1>1, <2>1, <2>2, <2>3 DEF LimitInv
<1>6. CASE UNCHANGED limitVars
  BY <1>6 DEF limitVars, LimitInv, LimitTypeOK, FutureFree, BucketOK, Own, RateKey, Written,
              Granted, Age, Recent, Lately
<1> QED BY <1>2, <1>3, <1>4, <1>5, <1>6 DEF LimitNext

-----------------------------------------------------------------------------
(* The theorems about the limiter.                                         *)

\* Buckets and histories of the limiter agree: what a user was let through since
\* the bucket was filled is what it counts, up to the quota.
THEOREM LimitCorrect == LimitSpec => []LimitInv
BY LimitInvInit, LimitInvStep, PTL DEF LimitSpec

LEMMA LimitInvQuotas == LimitInv => QuotasHold
<1> SUFFICES ASSUME LimitInv PROVE QuotasHold
  OBVIOUS
<1>0. LimitAssumption /\ LimitTypeOK /\ Window \in Nat
  BY LimitAssumption, LimitNumbers DEF LimitInv
<1>1. ASSUME NEW u \in refused PROVE Lately(Asker(u)) >= Limit(Asker(u))
  <2> DEFINE a == Asker(u)
  <2>1. a \in Askers /\ a \in Parties /\ Limit(a) \in Nat
    BY <1>0, AskerOf, OwnKey DEF LimitTypeOK
  <2>2. ~(Own(a).resetIn < 0) /\ Own(a).count > Limit(a) /\ BucketOK(a)
    BY <1>0, <2>1, OwnRow DEF LimitInv
  <2> HIDE DEF a
  <2>3. Granted(a) = Limit(a)
    BY <2>2 DEF Granted
  <2>4. PICK n \in 0..Window : n = Age(a)
    BY <1>0, <2>1, <2>2, OwnRow
  <2>5. Recent(a, n) >= Limit(a)
    BY <2>2, <2>3, <2>4 DEF BucketOK
  <2>6. n \in Int /\ n >= -1 /\ n <= Window /\ Window \in Int /\ Window <= Window
    BY <1>0
  <2>7. Recent(a, n) <= Recent(a, Window) /\ Recent(a, n) \in Nat /\ Recent(a, Window) \in Nat
    BY ONLY <1>0, <2>1, <2>6, RecentGrows, RecentType
  <2>8. Lately(a) >= Limit(a)
    BY <1>0, <2>1, <2>5, <2>7, RecentEnds
  <2> QED BY <2>8 DEF a
<1>2. ASSUME NEW a \in Askers PROVE Lately(a) <= (2 + Written(a)) * Limit(a)
  <2> DEFINE q == (1 + Written(a)) * Limit(a)
  <2>1. q \in Nat /\ (2 + Written(a)) * Limit(a) = Limit(a) + q /\ Limit(a) \in Nat
    BY <1>0, OwnKey, Quotas
  <2> HIDE DEF q
  <2>2. Lately(a) <= q \/ Lately(a) <= Granted(a) + q
    BY DEF LimitInv, BucketOK, q
  <2> QED BY <1>0, <2>1, <2>2, OwnRow
<1> QED BY <1>1, <1>2 DEF QuotasHold

\* checkRateLimit refuses nobody before the browser, or the address where its cookie
\* is not found, has had a whole quota, and lets neither have more than two in any
\* window, cookies written again aside.
THEOREM QuotasHoldCorrect == LimitSpec => []QuotasHold
BY LimitCorrect, LimitInvQuotas, PTL

-----------------------------------------------------------------------------
(* Both, as the run explores them.                                         *)

\* Every step of the run is a step of the sessions or of the limiter, and leaves
\* the other alone.
LEMMA ComposedSteps == [Next]_vars => [GatewayNext]_gatewayVars /\ [LimitNext]_limitVars
BY DEF Next, vars

\* The run's specification is one of each: what is proved of Gateway and of
\* RateLimit holds of what the run checks.
THEOREM ComposedImplements == Spec => GatewaySpec /\ LimitSpec
<1>1. Init => GatewayInit /\ LimitInit
  BY DEF Init
<1> QED BY <1>1, ComposedSteps, PTL DEF Spec, GatewaySpec, LimitSpec

\* Cookies, flights and calls of the proxy, and the buckets of its limiter, keep
\* their types.
THEOREM ComposedTypeCorrect == Spec => []TypeOK
<1>1. GatewaySpec => []GatewayTypeOK
  BY GatewayTypeCorrect
<1>2. LimitSpec => []LimitTypeOK
  <2>1. LimitInv => LimitTypeOK
    BY DEF LimitInv
  <2> QED BY <2>1, LimitCorrect, PTL
<1>3. GatewayTypeOK /\ LimitTypeOK => TypeOK
  BY DEF TypeOK
<1> QED BY <1>1, <1>2, <1>3, ComposedImplements, PTL

=============================================================================
