--------------------------- MODULE RefreshTokens ---------------------------
(***************************************************************************)
(* The refresh-token families of services/portfolio/auth: the tables       *)
(* refresh_token_families and refresh_token_index, the users.is_active     *)
(* flag, and the handlers of auth/routes.py that touch them.               *)
(*                                                                         *)
(* A handler is a process.  Each of its database transactions is one       *)
(* action, so the steps of concurrent handlers interleave exactly where    *)
(* the code awaits.  Tokens stand for their hashes.  A token is drawn when *)
(* it is stored: the code draws it earlier in the same request, where      *)
(* nobody else can see it.                                                 *)
(***************************************************************************)
EXTENDS Naturals

CONSTANTS
    Users,      \* usernames
    Tokens,     \* hashes of refresh tokens; bounds logins + rotations
    Requests,   \* handlers that can be in flight at once
    None        \* NULL / not found

ASSUME NoneAssumption == None \notin Users \cup Tokens

VARIABLES
    active,     \* active[u]: users.is_active
    index,      \* index[t]: refresh_token_index.family_id of token_hash t
    subject,    \* subject[f]: owner of family f
    current,    \* current[f]: current_hash of family f
    revoked,    \* families whose revoked flag is set
    pc,         \* pc[r]: next transaction of request r
    usr,        \* usr[r]: username the request is about
    tok,        \* tok[r]: token the request presents
    new,        \* new[r]: token the request stored and will hand out
    known,      \* tokens some client has received
    successors, \* history: successors[t], tokens t was traded for
    returned,   \* history: how many rotate() calls on t returned (stops at 2)
    late,       \* history: families created while their owner was inactive
    barred      \* history: users whose disable handler finished, not re-enabled

dbVars == <<active, index, subject, current, revoked>>
reqVars == <<pc, usr, tok, new>>
history == <<successors, returned, late, barred>>
vars == <<dbVars, reqVars, known, history>>

Families == {f \in Tokens : index[f] = f}
Fresh == {t \in Tokens : index[t] = None}
FamilyOf(r) == index[tok[r]]
Live(f) == f \in Families \ revoked

PC == {"idle", "create", "rotate", "replay", "check", "respond", "logout", "disable"}

TypeOK ==
    /\ active \in [Users -> BOOLEAN]
    /\ index \in [Tokens -> Tokens \cup {None}]
    /\ subject \in [Tokens -> Users \cup {None}]
    /\ current \in [Tokens -> Tokens \cup {None}]
    /\ revoked \subseteq Tokens
    /\ pc \in [Requests -> PC]
    /\ usr \in [Requests -> Users \cup {None}]
    /\ tok \in [Requests -> Tokens \cup {None}]
    /\ new \in [Requests -> Tokens \cup {None}]
    /\ known \subseteq Tokens
    /\ successors \in [Tokens -> SUBSET Tokens]
    /\ returned \in [Tokens -> 0..2]
    /\ late \subseteq Tokens
    /\ barred \subseteq Users

Init ==
    /\ active = [u \in Users |-> TRUE]
    /\ index = [t \in Tokens |-> None]
    /\ subject = [t \in Tokens |-> None]
    /\ current = [t \in Tokens |-> None]
    /\ revoked = {}
    /\ pc = [r \in Requests |-> "idle"]
    /\ usr = [r \in Requests |-> None]
    /\ tok = [r \in Requests |-> None]
    /\ new = [r \in Requests |-> None]
    /\ known = {}
    /\ successors = [t \in Tokens |-> {}]
    /\ returned = [t \in Tokens |-> 0]
    /\ late = {}
    /\ barred = {}

-----------------------------------------------------------------------------
(***************************************************************************)
(* Shared by the handlers                                                  *)
(***************************************************************************)
\* Request r becomes idle again: its handler returned, failed or was killed.
Finish(r) ==
    /\ pc' = [pc EXCEPT ![r] = "idle"]
    /\ usr' = [usr EXCEPT ![r] = None]
    /\ tok' = [tok EXCEPT ![r] = None]
    /\ new' = [new EXCEPT ![r] = None]

Goto(r, next) == pc' = [pc EXCEPT ![r] = next]

\* rotate() of the service returned to the handler for token t.
CountReturn(t) ==
    returned' = [returned EXCEPT ![t] = IF @ < 2 THEN @ + 1 ELSE @]

\* Mutant: revoke by the presented hash, as if it were the family id.
RevokeByHash(r) == revoked' = revoked \cup {tok[r]}

\* The family of tok[r] is revoked.
RevokeFamily(r) == revoked' = revoked \cup {FamilyOf(r)}

(***************************************************************************)
(* Handlers                                                                *)
(***************************************************************************)
(* POST /auth/token.  authenticate() reads the row, refuses an inactive    *)
(* user and then spends its time in bcrypt; a wrong password ends there    *)
(* and changes nothing.                                                    *)
LoginAuthenticate(r, u) ==
    /\ pc[r] = "idle"
    /\ active[u]
    /\ Goto(r, "create")
    /\ usr' = [usr EXCEPT ![r] = u]
    /\ UNCHANGED <<dbVars, tok, new, known, history>>

LoginCreateFamily(r) ==
    /\ pc[r] = "create"
    /\ \E f \in Fresh :
        /\ index' = [index EXCEPT ![f] = f]
        /\ subject' = [subject EXCEPT ![f] = usr[r]]
        /\ current' = [current EXCEPT ![f] = f]
        /\ new' = [new EXCEPT ![r] = f]
        /\ late' = IF active[usr[r]] THEN late ELSE late \cup {f}
    /\ Goto(r, "respond")
    /\ UNCHANGED <<active, revoked, usr, tok, known, successors, returned, barred>>

(* POST /auth/refresh, first transaction of rotate(): resolve the family.  *)
(* An unknown token or a revoked family is refused at once.                *)
RefreshLookup(r, t) ==
    /\ pc[r] = "idle"
    /\ t \in known
    /\ IF Live(index[t])
       THEN /\ Goto(r, IF current[index[t]] = t THEN "rotate" ELSE "replay")
            /\ tok' = [tok EXCEPT ![r] = t]
            /\ UNCHANGED returned
       ELSE /\ CountReturn(t)
            /\ UNCHANGED <<pc, tok>>
    /\ UNCHANGED <<dbVars, usr, new, known, successors, late, barred>>

\* Mutants: each half of the WHERE clause forgotten.
CanRotateAnyHash(f, t) == f \notin revoked
CanRotateRevoked(f, t) == current[f] = t

\* The WHERE clause of the conditional UPDATE.
CanRotate(f, t) == current[f] = t /\ f \notin revoked

\* The UPDATE matched its row: index the new token in the same transaction.
RefreshRotate(r) ==
    /\ pc[r] = "rotate"
    /\ CanRotate(FamilyOf(r), tok[r])
    /\ \E n \in Fresh :
        /\ current' = [current EXCEPT ![FamilyOf(r)] = n]
        /\ index' = [index EXCEPT ![n] = FamilyOf(r)]
        /\ new' = [new EXCEPT ![r] = n]
        /\ successors' = [successors EXCEPT ![tok[r]] = @ \cup {n}]
    /\ CountReturn(tok[r])
    /\ Goto(r, "check")
    /\ UNCHANGED <<active, subject, revoked, usr, tok, known, late, barred>>

\* Mutant: a lost race is answered 401 but not treated as a replay.
RefreshLostForgiven(r) ==
    /\ pc[r] = "rotate"
    /\ ~CanRotate(FamilyOf(r), tok[r])
    /\ CountReturn(tok[r])
    /\ Finish(r)
    /\ UNCHANGED <<dbVars, known, successors, late, barred>>

\* rowcount 0: another refresh or a revocation came first.
RefreshLost(r) ==
    /\ pc[r] = "rotate"
    /\ ~CanRotate(FamilyOf(r), tok[r])
    /\ Goto(r, "replay")
    /\ UNCHANGED <<dbVars, usr, tok, new, known, history>>

\* A replayed token revokes its whole family before the 401 is sent.
RefreshReplay(r) ==
    /\ pc[r] = "replay"
    /\ RevokeFamily(r)
    /\ CountReturn(tok[r])
    /\ Finish(r)
    /\ UNCHANGED <<active, index, subject, current, known, successors, late, barred>>

\* After the rotation the owner is read again; an inactive one gets a 401
\* without the new cookie, though the family has already moved to it.
RefreshCheckUser(r) ==
    /\ pc[r] = "check"
    /\ IF active[subject[FamilyOf(r)]]
       THEN Goto(r, "respond") /\ UNCHANGED <<usr, tok, new>>
       ELSE Finish(r)
    /\ UNCHANGED <<dbVars, known, history>>

\* The response of a login or a refresh reaches the client.
Respond(r) ==
    /\ pc[r] = "respond"
    /\ known' = known \cup {new[r]}
    /\ Finish(r)
    /\ UNCHANGED <<dbVars, history>>

\* POST /auth/logout: look the family up, then revoke it.
LogoutLookup(r, t) ==
    /\ pc[r] = "idle"
    /\ t \in known
    /\ Goto(r, "logout")
    /\ tok' = [tok EXCEPT ![r] = t]
    /\ UNCHANGED <<dbVars, usr, new, known, history>>

LogoutRevoke(r) ==
    /\ pc[r] = "logout"
    /\ RevokeFamily(r)
    /\ Finish(r)
    /\ UNCHANGED <<active, index, subject, current, known, history>>

\* POST /auth/users/{username}/disable: the flag first, the families next.
Disable(r, u) ==
    /\ pc[r] = "idle"
    /\ active' = [active EXCEPT ![u] = FALSE]
    /\ Goto(r, "disable")
    /\ usr' = [usr EXCEPT ![r] = u]
    /\ UNCHANGED <<index, subject, current, revoked, tok, new, known, history>>

DisableRevokeAll(r) ==
    /\ pc[r] = "disable"
    /\ revoked' = revoked \cup {f \in Families : subject[f] = usr[r]}
    /\ barred' = IF active[usr[r]] THEN barred ELSE barred \cup {usr[r]}
    /\ Finish(r)
    /\ UNCHANGED <<active, index, subject, current, known, successors, returned, late>>

\* POST /auth/users/{username}/enable.
Enable(u) ==
    /\ ~active[u]
    /\ active' = [active EXCEPT ![u] = TRUE]
    /\ barred' = barred \ {u}
    /\ UNCHANGED <<index, subject, current, revoked, reqVars, known,
                   successors, returned, late>>

\* A handler dies between two transactions, or its response is lost.
Abort(r) ==
    /\ pc[r] # "idle"
    /\ Finish(r)
    /\ UNCHANGED <<dbVars, known, history>>

Login(r) == (\E u \in Users : LoginAuthenticate(r, u)) \/ LoginCreateFamily(r)

Refresh(r) ==
    \/ \E t \in Tokens : RefreshLookup(r, t)
    \/ RefreshRotate(r) \/ RefreshLost(r) \/ RefreshReplay(r) \/ RefreshCheckUser(r)

Logout(r) == (\E t \in Tokens : LogoutLookup(r, t)) \/ LogoutRevoke(r)

\* Mutant: the families first, the flag next.
DisableUserLate(r) ==
    \/ \E u \in Users :
        /\ pc[r] = "idle"
        /\ revoked' = revoked \cup {f \in Families : subject[f] = u}
        /\ Goto(r, "disable")
        /\ usr' = [usr EXCEPT ![r] = u]
        /\ UNCHANGED <<active, index, subject, current, tok, new, known, history>>
    \/ /\ pc[r] = "disable"
       /\ active' = [active EXCEPT ![usr[r]] = FALSE]
       /\ barred' = barred \cup {usr[r]}
       /\ Finish(r)
       /\ UNCHANGED <<index, subject, current, revoked, known, successors, returned, late>>

DisableUser(r) == (\E u \in Users : Disable(r, u)) \/ DisableRevokeAll(r)

Next ==
    \/ \E r \in Requests : Login(r) \/ Refresh(r) \/ Respond(r) \/ Logout(r)
                           \/ DisableUser(r) \/ Abort(r)
    \/ \E u \in Users : Enable(u)

Spec == Init /\ [][Next]_vars
-----------------------------------------------------------------------------
(***************************************************************************)
(* Properties                                                              *)
(***************************************************************************)
\* A refresh token is traded for at most one successor, however many
\* refreshes present it at once: rotate()'s conditional UPDATE.
OneRefreshPerToken ==
    \A t \in Tokens : \A a, b \in successors[t] : a = b

\* Once two refreshes with the same token have been answered, its family is
\* revoked: replay detection misses no interleaving of lookup and UPDATE.
ReuseRevokes ==
    \A t \in Tokens : returned[t] = 2 => index[t] \in revoked

\* When a disable has finished, a family of the barred user that is still
\* live was created by a login that was already past authenticate(): all
\* others were cut, because the flag is cleared before families are revoked.
BarredSessionsCut ==
    \A f \in Families : subject[f] \in barred => f \in revoked \cup late

\* A revoked family stays revoked and never moves to another token, also when
\* a refresh looked it up before the logout, replay or disable revoked it.
RevokedIsFinal ==
    [][\A f \in revoked : f \in revoked' /\ current'[f] = current[f]]_vars

\* No client holds, and no response carries, the current token of family f.
Orphaned(f) ==
    /\ f \in Families
    /\ current[f] \notin known
    /\ \A r \in Requests : new[r] # current[f]

\* A family whose current token was lost with its response (or refused to an
\* inactive owner) can never be refreshed again: the older token the client
\* still holds is a replay.
OrphanStaysOrphan ==
    [][\A f \in Tokens : Orphaned(f) => Orphaned(f)']_vars

\* The tokens a refresh arriving now would accept.
Valid == {t \in Tokens : Live(index[t]) /\ current[index[t]] = t}

Lineage == INSTANCE TokenLineage
               WITH lineage <- index, valid <- Valid, dead <- revoked

\* The handlers implement the promise of refresh-token-families.md.
ImplementsLineage == Lineage!Spec
=============================================================================
