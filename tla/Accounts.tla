------------------------------ MODULE Accounts ------------------------------
(***************************************************************************)
(* Accounts and the access tokens issued for them: auth/routes.py,         *)
(* user_service.py and user_repository.py behind the gate of Access.  An   *)
(* access token cannot be revoked, so what an administrator changes holds  *)
(* for others only when their tokens run out.  Refresh-token families are  *)
(* one bit per user here: RefreshTokens has them in full.                  *)
(***************************************************************************)
EXTENDS Access, FiniteSets

CONSTANTS
    First,          \* first_admin_username
    Requests,       \* HTTP requests in progress at one time
    Ttl,            \* access_token_ttl_minutes
    MaxTokens,      \* bound on access tokens that are still good
    Idle            \* a request slot that is free

ASSUME AccountsAssumption ==
    /\ First \in Users
    /\ Ttl \in Nat \ {0}
    /\ MaxTokens \in Nat

VARIABLES
    users,          \* rows of the users table: [active, role]
    emails,         \* emails[u]: the user whose placeholder it is, or "mailbox"
    session,        \* users with a live refresh-token family
    tokens,         \* access tokens issued and not run out
    req,            \* requests in progress: [op, sub, target, role], or Idle
    lastAdmin,      \* history: time since u was last an active administrator
    authority       \* history: lastAdmin of whoever last changed shared data

accountsVars == <<users, emails, session, tokens, req, lastAdmin, authority>>

Registered == DOMAIN users
IsActiveAdmin(u) == u \in Registered /\ users[u].active /\ users[u].role = Admin
SomeAdmin == \E u \in Users : IsActiveAdmin(u)

\* The first boot has seeded the first administrator; no one else exists.
AccountsInit ==
    /\ users = [u \in {First} |-> [active |-> TRUE, role |-> Admin]]
    /\ emails = [u \in {First} |-> "configured"]
    /\ session = {}
    /\ tokens = {}
    /\ req = [r \in Requests |-> Idle]
    /\ lastAdmin = [u \in Users |-> IF u = First THEN 0 ELSE Ttl + 1]
    /\ authority = 0

Work(op, sub, target, role) == [op |-> op, sub |-> sub, target |-> target, role |-> role]
Do(r, work) == req' = [req EXCEPT ![r] = work]
End(r) == Do(r, Idle)
Busy(r, op) == req[r] # Idle /\ req[r].op = op

Unchanged == UNCHANGED <<users, emails, session, tokens, lastAdmin, authority>>
-----------------------------------------------------------------------------
(* Signing in: the row is read, then a token is signed from what was read. *)

\* authenticate(): the right password, and an active account.
Login(r, u) ==
    /\ req[r] = Idle
    /\ u \in Registered /\ users[u].active
    /\ Do(r, Work("login", u, u, users[u].role))
    /\ Unchanged

\* A rotation that succeeded, and then the owner is read again.
Refresh(r, u) ==
    /\ req[r] = Idle
    /\ u \in session /\ u \in Registered /\ users[u].active
    /\ Do(r, Work("refresh", u, u, users[u].role))
    /\ Unchanged

Issue(r) ==
    /\ Busy(r, "login") \/ Busy(r, "refresh")
    /\ KeyConfigured /\ Cardinality(tokens) < MaxTokens
    /\ tokens' = tokens \cup {Claims(req[r].sub, req[r].role, Ttl)}
    /\ session' = IF req[r].op = "login" THEN session \cup {req[r].sub} ELSE session
    /\ End(r)
    /\ UNCHANGED <<users, emails, lastAdmin, authority>>

\* POST /auth/register looks the name up, and inserts later: always a user.
Register(r, u) ==
    /\ req[r] = Idle
    /\ u \notin Registered
    /\ Do(r, Work("register", u, u, User))
    /\ Unchanged

TakenEmails == {emails[u] : u \in Registered}

\* The unique indexes of the table refuse a second row of the name, and a
\* placeholder address that somebody has set as theirs; both are a 500.
Insert(r) ==
    LET u == req[r].sub IN
    /\ Busy(r, "register")
    /\ IF u \in Registered \/ u \in TakenEmails
       THEN UNCHANGED <<users, emails>>
       ELSE /\ users' = [v \in Registered \cup {u} |->
                           IF v = u THEN [active |-> TRUE, role |-> User] ELSE users[v]]
            /\ emails' = [v \in Registered \cup {u} |-> IF v = u THEN u ELSE emails[v]]
    /\ End(r)
    /\ UNCHANGED <<session, tokens, lastAdmin, authority>>
-----------------------------------------------------------------------------
(* Calls with an access token: the gate lets them in, the handler runs.    *)

Call(r, t, q, work) ==
    /\ req[r] = Idle
    /\ Decide(q, t) = 200
    /\ Do(r, work)
    /\ Unchanged

UserRoute == Request("POST", "auth/users", TRUE)

CallDisable(r, t, u) == Call(r, t, UserRoute, Work("disable", t.sub, u, User))
CallEnable(r, t, u) == Call(r, t, UserRoute, Work("enable", t.sub, u, User))
CallSetRole(r, t, u, role) == Call(r, t, UserRoute, Work("role", t.sub, u, role))

CallSetEmail(r, t, e) ==
    Call(r, t, Request("PATCH", "auth/profile", FALSE), Work("email", t.sub, e, User))

\* The routes that change what belongs to no single tenant: postings, tracked
\* boards and revisions.
SharedRoutes ==
    {Request("POST", "cv/tailor", FALSE), Request("POST", "postings", FALSE),
     Request("POST", "postings", TRUE), Request("DELETE", "postings", TRUE),
     Request("POST", "tracked-boards", FALSE), Request("PATCH", "tracked-boards", TRUE),
     Request("DELETE", "tracked-boards", TRUE), Request("DELETE", "revisions", TRUE)}

CallShared(r, t) == \E q \in SharedRoutes : Call(r, t, q, Work("shared", t.sub, t.sub, User))

\* Mutant: nobody is refused.
NoneRefused(r) == FALSE

\* The caller is refused when the target is the caller: 409.
SelfRefused(r) == req[r].target = req[r].sub

\* When the last step of a handler has run, who is an administrator now?
Remember ==
    lastAdmin' = [u \in Users |->
        IF u \in DOMAIN users' /\ users'[u].active /\ users'[u].role = Admin
        THEN 0 ELSE lastAdmin[u]]

\* disable_user: the flag, and in a second transaction the families.
Disable(r) ==
    LET u == req[r].target IN
    /\ Busy(r, "disable")
    /\ IF SelfRefused(r) \/ u \notin Registered
       THEN users' = users /\ End(r)
       ELSE /\ users' = [users EXCEPT ![u].active = FALSE]
            /\ Do(r, [req[r] EXCEPT !.op = "revoke"])
    /\ Remember
    /\ UNCHANGED <<emails, session, tokens, authority>>

Revoke(r) ==
    /\ Busy(r, "revoke")
    /\ session' = session \ {req[r].target}
    /\ End(r)
    /\ UNCHANGED <<users, emails, tokens, lastAdmin, authority>>

Enable(r) ==
    LET u == req[r].target IN
    /\ Busy(r, "enable")
    /\ users' = IF u \in Registered THEN [users EXCEPT ![u].active = TRUE] ELSE users
    /\ End(r)
    /\ Remember
    /\ UNCHANGED <<emails, session, tokens, authority>>

SetRole(r) ==
    LET u == req[r].target IN
    /\ Busy(r, "role")
    /\ users' = IF SelfRefused(r) \/ u \notin Registered THEN users
                ELSE [users EXCEPT ![u].role = req[r].role]
    /\ End(r)
    /\ Remember
    /\ UNCHANGED <<emails, session, tokens, authority>>

\* update_profile: an address another account has is refused with 409.
SetEmail(r) ==
    LET u == req[r].sub IN
    /\ Busy(r, "email")
    /\ emails' = IF u \notin Registered \/ \E v \in Registered \ {u} : emails[v] = req[r].target
                 THEN emails ELSE [emails EXCEPT ![u] = req[r].target]
    /\ End(r)
    /\ UNCHANGED <<users, session, tokens, lastAdmin, authority>>

ChangeShared(r) ==
    /\ Busy(r, "shared")
    /\ authority' = lastAdmin[req[r].sub]
    /\ End(r)
    /\ UNCHANGED <<users, emails, session, tokens, lastAdmin>>

\* The process or the connection to the database is lost.
Abort(r) ==
    /\ req[r] # Idle
    /\ End(r)
    /\ Unchanged

\* Time passes between requests: a request is short against the life of a token.
TokensAge ==
    /\ \A r \in Requests : req[r] = Idle
    /\ tokens' = {[t EXCEPT !.life = @ - 1] : t \in {t \in tokens : t.life > 1}}
    /\ lastAdmin' = [u \in Users |->
         IF IsActiveAdmin(u) \/ lastAdmin[u] > Ttl THEN lastAdmin[u] ELSE lastAdmin[u] + 1]
    /\ UNCHANGED <<users, emails, session, req, authority>>

AccountsNext ==
    \/ \E r \in Requests :
        \/ \E u \in Users : Login(r, u) \/ Refresh(r, u) \/ Register(r, u)
        \/ Issue(r) \/ Insert(r)
        \/ \E t \in tokens :
            \/ \E u \in Users :
                \/ CallDisable(r, t, u) \/ CallEnable(r, t, u)
                \/ \E role \in Roles : CallSetRole(r, t, u, role)
                \/ CallSetEmail(r, t, u)
            \/ CallSetEmail(r, t, "mailbox")
            \/ CallShared(r, t)
        \/ Disable(r) \/ Revoke(r) \/ Enable(r) \/ SetRole(r) \/ SetEmail(r) \/ ChangeShared(r)
        \/ Abort(r)
    \/ TokensAge

AccountsSpec == AccountsInit /\ [][AccountsNext]_accountsVars
-----------------------------------------------------------------------------
(***************************************************************************)
(* Properties                                                              *)
(***************************************************************************)
\* Postings, boards and revisions are changed only by somebody who was an
\* active administrator less long ago than an access token lives: the tables
\* of the gate, the expiry, and the role read again on every login and
\* refresh hold together.
SharedChangedByAdmins == authority < Ttl

\* While any administrator acts with a role that still is theirs, one is left:
\* the last one is lost only to a caller whose own account had been disabled
\* or demoted before (two who act on each other, or one whose token outlived
\* the role).
LastAdminFallsToStaleClaim ==
    [][SomeAdmin /\ ~SomeAdmin' =>
        \E r \in Requests :
            /\ req[r] # Idle /\ req[r] # req'[r]
            /\ ~IsActiveAdmin(req[r].sub)]_accountsVars
=============================================================================
