------------------------------- MODULE Access -------------------------------
(***************************************************************************)
(* Who may call what: JWTAuthMiddleware (auth/middleware.py) over the      *)
(* claims of an access token (auth/crypto.py), and the tenant a handler    *)
(* acts on (dependencies.py).  A path is its area below /api/v1 and        *)
(* whether a segment follows it, which is all the rules look at.           *)
(***************************************************************************)
EXTENDS Naturals

CONSTANTS
    Users,
    NoToken,        \* no Authorization header, or not a bearer one
    KeyConfigured   \* jwt_signing_key is set

Admin == "admin"
User == "user"
Roles == {Admin, User}

\* Both roles carry both scopes (User.scopes).
Scopes(role) == {"cv:read", "cv:manage"}

\* What sign_access_token puts into a token; life is the time left of it.
Claims(user, role, ttl) ==
    [sub |-> user, role |-> role, scope |-> Scopes(role), uid |-> user, life |-> ttl]

Request(method, area, sub) ==
    [method |-> method, area |-> area, sub |-> sub, tailored |-> FALSE]

\* Mutant: a path left out of the exception.
CredentialAreasWithoutLogout == {"auth/token", "auth/register", "auth/refresh"}

\* _TOKEN_PATH ... : they carry their own credentials, or none.
CredentialAreas == {"auth/token", "auth/register", "auth/refresh", "auth/logout"}

\* Pages and feeds outside /api/v1.
PublicAreas == {"/", "/health", "/cv", "/cv/html", "/cv/preview", "/cv/pdf", "/mcp"}

AdminRoutes ==
    {<<"POST", "cv/tailor">>, <<"POST", "postings">>, <<"POST", "tracked-boards">>,
     <<"GET", "auth/users">>}

\* Mutant: a subtree left out of the table.
AdminPrefixesWithoutRevisions ==
    {<<"POST", "postings">>, <<"DELETE", "postings">>, <<"PATCH", "tracked-boards">>,
     <<"DELETE", "tracked-boards">>, <<"POST", "auth/users">>}

AdminPrefixes ==
    {<<"POST", "postings">>, <<"DELETE", "postings">>, <<"PATCH", "tracked-boards">>,
     <<"DELETE", "tracked-boards">>, <<"DELETE", "revisions">>, <<"POST", "auth/users">>}

\* By scope instead of role: the tenant's own documents.
ManagePrefixes == {"PUT", "DELETE", "POST"} \X {"documents"}

ReadScopedPaths == {"revisions", "cv", "cv/pdf"}
ReadScopedPrefixes == {"gaps", "postings", "documents", "tracked-boards"}

IsTailoredRead(q) == q.method = "GET" /\ q.area = "/cv/html" /\ q.tailored

IsProtected(q) ==
    /\ q.method # "OPTIONS"
    /\ \/ q.area \notin PublicAreas /\ (q.area \in CredentialAreas => q.sub)
       \/ IsTailoredRead(q)

RequiresAdmin(q) ==
    \/ ~q.sub /\ <<q.method, q.area>> \in AdminRoutes
    \/ q.sub /\ <<q.method, q.area>> \in AdminPrefixes

RequiresManage(q) == q.sub /\ <<q.method, q.area>> \in ManagePrefixes

IsReadScoped(q) ==
    /\ q.method = "GET"
    /\ \/ ~q.sub /\ q.area \in ReadScopedPaths
       \/ q.area \in ReadScopedPrefixes

\* _required_scope: a set, empty when any verified token will do.
RequiredScope(q) ==
    IF RequiresAdmin(q) THEN {}
    ELSE IF RequiresManage(q) THEN {"cv:manage"}
    ELSE IF IsTailoredRead(q) \/ IsReadScoped(q) THEN {"cv:read"}
    ELSE {}

\* verify_access_token: signature, issuer and audience are those of every
\* token in the model; what is left is the expiry.
Verified(claims) == claims.life > 0

\* A token that verifies has claims, so no required scope means any token.
HasScope(claims, required) == required \subseteq claims.scope
HasRole(claims, role) == claims.role = role

\* The answer of the middleware: 200 stands for "passed on to the handler".
Decide(q, token) ==
    IF ~IsProtected(q) THEN 200
    ELSE IF token = NoToken THEN 401
    ELSE IF ~KeyConfigured THEN 503
    ELSE IF ~Verified(token) THEN 401
    ELSE IF ~HasScope(token, RequiredScope(q)) THEN 403
    ELSE IF RequiresAdmin(q) /\ ~HasRole(token, Admin) THEN 403
    ELSE 200

\* get_tenant_id: always the caller's own, whatever the path names.
TenantOf(claims) == claims.uid
=============================================================================
