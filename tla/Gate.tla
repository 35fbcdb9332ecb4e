-------------------------------- MODULE Gate --------------------------------
(***************************************************************************)
(* The middleware stack of main.py: a request goes in through its layers   *)
(* until one of them answers, and the answer goes out through the layers   *)
(* around that one.  Around them all Starlette puts a layer of its own that *)
(* answers for a handler that raises.  What JWTAuth decides is Access's    *)
(* Decide; what the guard finds about a client is FailBan's Refused, and   *)
(* an input here.  The two layers that only bind a correlation id or       *)
(* correct the scheme are left out.  No layer keeps anything from one      *)
(* request for the next: a behaviour is one request.                       *)
(***************************************************************************)
EXTENDS Access, Sequences

CONSTANTS
    Queries,    \* method and path, as Access has them
    Bearers,    \* the access tokens requests carry, or NoToken
    Origins,    \* origins of pages
    Pinned,     \* settings.cors_origin: the operator's page
    NoOrigin,   \* no Origin header; cors_origin is empty
    Star,       \* the origin "*"
    NoAnswer    \* the request is still on its way in

ASSUME GateAssumption ==
    /\ Pinned \in Origins \cup {NoOrigin}
    /\ NoOrigin \notin Origins
    /\ Star \notin Origins \cup {NoOrigin}

VARIABLES
    request,    \* the request at work
    at,         \* the layer it or its answer is at, from the outside; 0 when sent
    answer      \* status, CORS headers, whether security headers are on it, by whom

gateVars == <<request, at, answer>>

\* Outermost first: add_middleware wraps what is there.
Stack == <<"SecurityHeaders", "JWTAuth", "Guard", "CredentialedCORS", "CORS">>

HttpRequests ==
    [query : Queries, bearer : Bearers, origin : Origins \cup {NoOrigin},
     cookie : BOOLEAN, refused : BOOLEAN]

GateInit ==
    /\ request \in HttpRequests
    /\ at = 1
    /\ answer = NoAnswer
-----------------------------------------------------------------------------
Inbound(layer) == answer = NoAnswer /\ at \in DOMAIN Stack /\ Stack[at] = layer
Outbound(layer) == answer # NoAnswer /\ at \in DOMAIN Stack /\ Stack[at] = layer

PassIn == at' = at + 1 /\ UNCHANGED <<request, answer>>
PassOut(a) == at' = at - 1 /\ answer' = a /\ UNCHANGED request

\* What a layer answers has no security headers yet.
Bare(by, status, origin, credentials) ==
    [by |-> by, status |-> status, origin |-> origin, credentials |-> credentials,
     stamped |-> FALSE]

\* A layer that answers does not see its answer again.
Respond(by, status, origin, credentials) == PassOut(Bare(by, status, origin, credentials))

\* SecurityHeadersMiddleware
HeadersIn == Inbound("SecurityHeaders") /\ PassIn
HeadersOut == Outbound("SecurityHeaders") /\ PassOut([answer EXCEPT !.stamped = TRUE])

\* JWTAuthMiddleware: a refusal is readable by every page.
JWTAuthIn ==
    /\ Inbound("JWTAuth")
    /\ LET status == Decide(request.query, request.bearer) IN
         IF status = 200 THEN PassIn ELSE Respond("JWTAuth", status, Star, FALSE)
JWTAuthOut == Outbound("JWTAuth") /\ PassOut(answer)

\* GuardMiddleware: its refusals carry no CORS header, so no page reads them.
PassesGuard(r) == ~r.refused \/ (r.query.area = "/health" /\ ~r.query.sub)

GuardIn ==
    /\ Inbound("Guard")
    /\ IF PassesGuard(request) THEN PassIn ELSE Respond("Guard", 403, NoOrigin, FALSE)
GuardOut == Outbound("Guard") /\ PassOut(answer)

\* CredentialedCORSMiddleware: the preflight is answered here, and the origin
\* of a request decides whose page may read the answer.
IsCredentialed(q) == q.area \in {"auth/token", "auth/refresh", "auth/logout"} /\ ~q.sub

\* Mutant: whoever asks is given the headers.
FromAnywhere(r) == TRUE

FromPinned(r) == r.origin = Pinned /\ Pinned # NoOrigin

CredentialedIn ==
    /\ Inbound("CredentialedCORS")
    /\ IF IsCredentialed(request.query) /\ request.query.method = "OPTIONS"
       THEN Respond("CredentialedCORS", 204, Pinned, TRUE)
       ELSE PassIn
CredentialedOut ==
    /\ Outbound("CredentialedCORS")
    /\ PassOut(IF IsCredentialed(request.query) /\ FromPinned(request)
               THEN [answer EXCEPT !.origin = Pinned, !.credentials = TRUE]
               ELSE answer)

\* CORSMiddleware of Starlette with "*": an OPTIONS with an origin is a
\* preflight, and a request with cookies gets its own origin back.
CORSIn ==
    /\ Inbound("CORS")
    /\ IF request.query.method = "OPTIONS" /\ request.origin # NoOrigin
       THEN Respond("CORS", 200, Star, FALSE)
       ELSE PassIn
CORSOut ==
    /\ Outbound("CORS")
    /\ PassOut(IF request.origin = NoOrigin THEN answer
               ELSE [answer EXCEPT !.origin = IF request.cookie THEN request.origin ELSE Star])

\* The application inside: a handler or a limit answers.  Any other status,
\* that of an HTTPException too, goes out like these.
Application ==
    /\ answer = NoAnswer /\ at = Len(Stack) + 1
    /\ \E status \in {200, 429} : Respond("app", status, NoOrigin, FALSE)

\* A handler raises what no exception handler is registered for: no database,
\* no signing key.  No layer catches it but Starlette's ServerErrorMiddleware,
\* and its 500 passes none of them on the way out.
ApplicationRaises ==
    /\ answer = NoAnswer /\ at = Len(Stack) + 1
    /\ answer' = Bare("ServerError", 500, NoOrigin, FALSE)
    /\ at' = 0
    /\ UNCHANGED request

GateNext ==
    \/ HeadersIn \/ HeadersOut
    \/ JWTAuthIn \/ JWTAuthOut
    \/ GuardIn \/ GuardOut
    \/ CredentialedIn \/ CredentialedOut
    \/ CORSIn \/ CORSOut
    \/ Application \/ ApplicationRaises

GateSpec == GateInit /\ [][GateNext]_gateVars
-----------------------------------------------------------------------------
(***************************************************************************)
(* Properties                                                              *)
(***************************************************************************)
\* Every answer of the application or of a layer has the security headers on
\* it when it is sent, a refusal of JWTAuth or of the guard too (comment before
\* add_middleware(JWTAuthMiddleware) in main.py).  The one answer without them
\* is the 500 for a handler that raised.
HeadersAreStamped == at = 0 /\ answer.by # "ServerError" => answer.stamped

\* Credentials are allowed to the pinned origin and to no other, and only on
\* the three paths that set or read the refresh cookie.
CredentialsArePinned ==
    answer # NoAnswer /\ answer.credentials =>
        /\ IsCredentialed(request.query)
        /\ answer.origin = Pinned
        /\ request.query.method = "OPTIONS" \/ request.origin = Pinned

\* The operator's page can read every answer about its cookie, but for those
\* of the guard and the 500 for a handler that raised: none is a refusal of
\* JWTAuth with the origin "*", which a browser does not accept with
\* credentials (comment in _deny).
PinnedPageReadsAnswers ==
    /\ at = 0 /\ IsCredentialed(request.query) /\ FromPinned(request)
    /\ answer.by \notin {"Guard", "ServerError"}
    => answer.origin = Pinned /\ answer.credentials
=============================================================================
