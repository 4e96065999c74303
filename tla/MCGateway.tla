------------------------------ MODULE MCGateway ------------------------------
(***************************************************************************)
(* Instances of Gateway and RateLimit for TLC.  The two share no state:    *)
(* part says which of them a behaviour explores.                           *)
(***************************************************************************)
EXTENDS Gateway, RateLimit

CONSTANTS b1, b2, c1, c2

VARIABLE part

\* The first browser asks and logs out while its session is polled; a page of
\* the second one is rendered meanwhile.
MixedRequests ==
    [q \in Calls |-> IF q = c1 THEN {<<b1, "api">>, <<b1, "logout">>}
                     ELSE {<<b1, "poll">>, <<b2, "page">>}]

\* One browser polls its session and opens a page.
PageAfterPoll ==
    [q \in Calls |-> IF q = c1 THEN {<<b1, "page">>} ELSE {<<b1, "poll">>}]

vars == <<gatewayVars, limitVars, part>>

Init ==
    /\ GatewayInit /\ LimitInit
    /\ part \in {"sessions", "limit"}
    /\ part = "limit" => ~oneTime

Next ==
    /\ UNCHANGED part
    /\ \/ part = "sessions" /\ GatewayNext /\ UNCHANGED limitVars
       \/ part = "limit" /\ LimitNext /\ UNCHANGED gatewayVars

Spec == Init /\ [][Next]_vars /\ GatewayFairness

TypeOK == GatewayTypeOK /\ LimitTypeOK

=============================================================================
