----------------------------- MODULE GateProofs -----------------------------
(***************************************************************************)
(* Proofs about what stands before the handlers, for any users, clients,   *)
(* limits and bounds: the ban list (FailBan), the accounts whose tokens    *)
(* pass the gate (Accounts), and the stack of middlewares (Gate).          *)
(***************************************************************************)
EXTENDS Accounts, FailBan, Gate, WellFoundedInduction, TLAPS

(***************************************************************************)
(* Accounts: what a token claims is backed by how recently its owner was   *)
(* an administrator.  lastAdmin plus the life that is left never exceeds   *)
(* a whole life.                                                           *)
(***************************************************************************)
Ops == {"login", "refresh", "register", "disable", "revoke", "enable", "role", "email", "shared"}

Works == [op : Ops, sub : Users, target : Users \cup {"mailbox"}, role : Roles]

UsersType ==
    /\ DOMAIN users \subseteq Users
    /\ users \in [DOMAIN users -> [active : BOOLEAN, role : Roles]]

RequestsType == req \in [Requests -> Works \cup {Idle}]

AgesType == lastAdmin \in [Users -> Nat] /\ authority \in Nat

\* Whoever is an administrator now has not been one for no time at all.
AdminsAreCurrent == \A u \in Users : IsActiveAdmin(u) => lastAdmin[u] = 0

\* A token that says admin was signed for somebody who was one, and both have
\* aged alike since.
TokensAreBacked ==
    \A t \in tokens :
        /\ t.sub \in Users /\ t.role \in Roles /\ t.life \in 1..Ttl
        /\ t.role = Admin => lastAdmin[t.sub] + t.life <= Ttl

\* What a request in progress is about to sign or to change.
RequestsAreBacked ==
    \A r \in Requests : req[r] # Idle =>
        /\ req[r].op \in {"login", "refresh"} /\ req[r].role = Admin => lastAdmin[req[r].sub] = 0
        /\ req[r].op = "shared" => lastAdmin[req[r].sub] < Ttl

AccountsInv ==
    /\ UsersType /\ RequestsType /\ AgesType
    /\ AdminsAreCurrent /\ TokensAreBacked /\ RequestsAreBacked
    /\ SharedChangedByAdmins

\* The routes of shared data are let through for an administrator's token only.
LEMMA SharedNeedsAdmin ==
    ASSUME NEW q \in SharedRoutes, NEW t, Decide(q, t) = 200
    PROVE  t.role = Admin /\ t.life > 0
<1>1. IsProtected(q)
  BY DEF SharedRoutes, Request, IsProtected, PublicAreas, CredentialAreas
<1>2. RequiresAdmin(q)
  BY DEF SharedRoutes, Request, RequiresAdmin, AdminRoutes, AdminPrefixes
<1>. QED  BY <1>1, <1>2 DEF Decide, Verified, HasRole

LEMMA AccountsInitInv == AccountsInit => AccountsInv
BY AccountsAssumption
   DEF AccountsInit, AccountsInv, UsersType, RequestsType, AgesType, AdminsAreCurrent, TokensAreBacked,
       RequestsAreBacked, SharedChangedByAdmins, IsActiveAdmin, Registered, Roles, Admin

\* A request begins: only its slot changes.
LEMMA Begins ==
    ASSUME AccountsInv, NEW r \in Requests, NEW w \in Works, Do(r, w), Unchanged,
           w.op \in {"login", "refresh"} /\ w.role = Admin => lastAdmin[w.sub] = 0,
           w.op = "shared" => lastAdmin[w.sub] < Ttl
    PROVE  AccountsInv'
BY DEF AccountsInv, Do, Unchanged, UsersType, RequestsType, AgesType, AdminsAreCurrent, TokensAreBacked,
       RequestsAreBacked, SharedChangedByAdmins, IsActiveAdmin, Registered

\* A request ends, or an account is disabled and its families are left to
\* revoke: nothing in progress gains anything.
LEMMA RequestsEnd ==
    ASSUME AccountsInv, NEW r \in Requests,
           End(r) \/ (req[r] # Idle /\ Do(r, [req[r] EXCEPT !.op = "revoke"])),
           \A u \in Users : lastAdmin'[u] = 0 \/ lastAdmin'[u] = lastAdmin[u]
    PROVE  RequestsType' /\ RequestsAreBacked'
<1>1. RequestsType'
  BY DEF AccountsInv, End, Do, RequestsType, Works, Ops
<1>2. SUFFICES ASSUME NEW s \in Requests, req'[s] # Idle
               PROVE  /\ req'[s].op \in {"login", "refresh"} /\ req'[s].role = Admin
                            => lastAdmin'[req'[s].sub] = 0
                      /\ req'[s].op = "shared" => lastAdmin'[req'[s].sub] < Ttl
  BY <1>1 DEF RequestsAreBacked
<1>3. CASE req'[s] = req[s]
  <2>1. req[s] \in Works
    BY <1>2, <1>3 DEF AccountsInv, RequestsType
  <2>2. req[s].sub \in Users
    BY <2>1 DEF Works
  <2>. QED  BY <1>2, <1>3, <2>2, AccountsAssumption DEF AccountsInv, RequestsAreBacked, AgesType
<1>4. CASE req'[s] # req[s]
  <2>1. s = r /\ req[r] # Idle /\ req'[r] = [req[r] EXCEPT !.op = "revoke"]
    BY <1>2, <1>4 DEF AccountsInv, End, Do, RequestsType
  <2>2. req'[s].op = "revoke"
    BY <2>1 DEF AccountsInv, RequestsType, Works
  <2>. QED  BY <2>2
<1>. QED  BY <1>3, <1>4

\* The rows change, and Remember notes who is an administrator now.
LEMMA RowsChange ==
    ASSUME AccountsInv, NEW r \in Requests, UsersType', Remember, UNCHANGED <<tokens, authority>>,
           End(r) \/ (req[r] # Idle /\ Do(r, [req[r] EXCEPT !.op = "revoke"]))
    PROVE  AccountsInv'
<1>1. \A u \in Users : lastAdmin'[u] = 0 \/ lastAdmin'[u] = lastAdmin[u]
  BY DEF Remember
<1>2. AgesType' /\ AdminsAreCurrent'
  BY DEF AccountsInv, AgesType, Remember, AdminsAreCurrent, IsActiveAdmin, Registered
<1>3. TokensAreBacked'
  BY <1>1, <1>2, AccountsAssumption DEF AccountsInv, TokensAreBacked, AgesType
<1>4. RequestsType' /\ RequestsAreBacked'
  BY <1>1, RequestsEnd
<1>. QED  BY <1>2, <1>3, <1>4 DEF AccountsInv, SharedChangedByAdmins

\* A request ends that has changed neither rows nor ages.
LEMMA Ends ==
    ASSUME AccountsInv, NEW r \in Requests, End(r), UNCHANGED <<users, tokens, lastAdmin>>,
           authority' \in Nat, authority' < Ttl
    PROVE  AccountsInv'
<1>1. RequestsType' /\ RequestsAreBacked'
  BY RequestsEnd
<1>. QED  BY <1>1 DEF AccountsInv, UsersType, AgesType, AdminsAreCurrent, TokensAreBacked,
                     SharedChangedByAdmins, IsActiveAdmin, Registered

LEMMA SignInStep ==
    ASSUME AccountsInv, NEW r \in Requests, NEW u \in Users, Login(r, u) \/ Refresh(r, u) \/ Register(r, u)
    PROVE  AccountsInv'
<1>1. CASE Login(r, u)
  <2>1. Work("login", u, u, users[u].role) \in Works
    BY <1>1 DEF Login, Work, Works, Ops, AccountsInv, UsersType, Registered
  <2>2. users[u].role = Admin => lastAdmin[u] = 0
    BY <1>1 DEF Login, AccountsInv, AdminsAreCurrent, IsActiveAdmin
  <2>. QED  BY <1>1, <2>1, <2>2, Begins DEF Login, Work
<1>2. CASE Refresh(r, u)
  <2>1. Work("refresh", u, u, users[u].role) \in Works
    BY <1>2 DEF Refresh, Work, Works, Ops, AccountsInv, UsersType, Registered
  <2>2. users[u].role = Admin => lastAdmin[u] = 0
    BY <1>2 DEF Refresh, AccountsInv, AdminsAreCurrent, IsActiveAdmin
  <2>. QED  BY <1>2, <2>1, <2>2, Begins DEF Refresh, Work
<1>3. CASE Register(r, u)
  <2>1. Work("register", u, u, User) \in Works
    BY DEF Work, Works, Ops, Roles
  <2>. QED  BY <1>3, <2>1, Begins DEF Register, Work
<1>. QED  BY <1>1, <1>2, <1>3

LEMMA IssueStep == ASSUME AccountsInv, NEW r \in Requests, Issue(r) PROVE AccountsInv'
<1>1. req[r] \in Works /\ req[r] # Idle
  BY DEF AccountsInv, Issue, Busy, RequestsType
<1>2. UNCHANGED <<users, lastAdmin, authority>> /\ End(r)
  BY DEF Issue
<1>3. RequestsType' /\ RequestsAreBacked'
  BY <1>2, RequestsEnd
<1>4. TokensAreBacked'
  <2> DEFINE new == Claims(req[r].sub, req[r].role, Ttl)
  <2>1. new.sub = req[r].sub /\ new.role = req[r].role /\ new.life = Ttl
    BY DEF Claims
  <2>2. req[r].sub \in Users /\ req[r].role \in Roles
    BY <1>1 DEF Works
  <2>3. req[r].role = Admin => lastAdmin[req[r].sub] = 0
    BY <1>1 DEF AccountsInv, RequestsAreBacked, Issue, Busy
  <2>4. \A t \in tokens' : t \in tokens \/ t = new
    BY DEF Issue
  <2>5. Ttl \in 1..Ttl
    BY AccountsAssumption
  <2>. HIDE DEF new
  <2>. QED
    BY <1>2, <2>1, <2>2, <2>3, <2>4, <2>5, AccountsAssumption DEF AccountsInv, TokensAreBacked
<1>. QED  BY <1>2, <1>3, <1>4 DEF AccountsInv, UsersType, AgesType, AdminsAreCurrent,
                                 SharedChangedByAdmins, IsActiveAdmin, Registered

LEMMA InsertStep == ASSUME AccountsInv, NEW r \in Requests, Insert(r) PROVE AccountsInv'
<1>1. req[r] \in Works
  BY DEF AccountsInv, Insert, Busy, RequestsType
<1>2. UNCHANGED <<tokens, lastAdmin, authority>> /\ End(r)
  BY DEF Insert
<1>3. CASE users' = users
  BY <1>2, <1>3, Ends DEF AccountsInv, AgesType, SharedChangedByAdmins
<1>4. CASE users' # users
  <2> DEFINE u == req[r].sub
  <2>1. u \in Users
    BY <1>1 DEF Works
  <2>2. /\ u \notin Registered
        /\ users' = [v \in Registered \cup {u} |->
                       IF v = u THEN [active |-> TRUE, role |-> User] ELSE users[v]]
    BY <1>4 DEF Insert
  <2>3. UsersType'
    BY <2>1, <2>2 DEF AccountsInv, UsersType, Registered, Roles
  <2>4. AdminsAreCurrent'
    BY <1>2, <2>2 DEF AccountsInv, AdminsAreCurrent, IsActiveAdmin, Registered, Admin, User
  <2>5. RequestsType' /\ RequestsAreBacked'
    BY <1>2, RequestsEnd
  <2>. QED  BY <1>2, <2>3, <2>4, <2>5 DEF AccountsInv, AgesType, TokensAreBacked, SharedChangedByAdmins
<1>. QED  BY <1>3, <1>4

LEMMA CallStep ==
    ASSUME AccountsInv, NEW r \in Requests, NEW t \in tokens,
           \/ \E u \in Users : CallDisable(r, t, u) \/ CallEnable(r, t, u)
                               \/ \E role \in Roles : CallSetRole(r, t, u, role)
           \/ \E e \in Users \cup {"mailbox"} : CallSetEmail(r, t, e)
           \/ CallShared(r, t)
    PROVE  AccountsInv'
<1>1. t.sub \in Users
  BY DEF AccountsInv, TokensAreBacked
<1>2. ASSUME NEW q, NEW op \in {"disable", "enable", "role", "email"},
             NEW e \in Users \cup {"mailbox"}, NEW role \in Roles,
             Call(r, t, q, Work(op, t.sub, e, role))
      PROVE  AccountsInv'
  <2>1. Work(op, t.sub, e, role) \in Works /\ Work(op, t.sub, e, role).op = op
    BY <1>1 DEF Work, Works, Ops
  <2>. QED  BY <1>2, <2>1, Begins DEF Call
<1>3. User \in Roles
  BY DEF Roles
<1>4. CASE CallShared(r, t)
  <2>1. PICK q \in SharedRoutes : Call(r, t, q, Work("shared", t.sub, t.sub, User))
    BY <1>4 DEF CallShared
  <2>2. t.role = Admin
    BY <2>1, SharedNeedsAdmin DEF Call
  <2>3. lastAdmin[t.sub] < Ttl
    BY <1>1, <2>2, AccountsAssumption DEF AccountsInv, TokensAreBacked, AgesType
  <2>4. Work("shared", t.sub, t.sub, User) \in Works
    BY <1>1, <1>3 DEF Work, Works, Ops
  <2>. QED  BY <2>1, <2>3, <2>4, Begins DEF Call, Work
<1>5. CASE \E u \in Users : CallDisable(r, t, u)
  BY <1>2, <1>3, <1>5 DEF CallDisable
<1>6. CASE \E u \in Users : CallEnable(r, t, u)
  BY <1>2, <1>3, <1>6 DEF CallEnable
<1>7. CASE \E u \in Users, role \in Roles : CallSetRole(r, t, u, role)
  BY <1>2, <1>7 DEF CallSetRole
<1>8. CASE \E e \in Users \cup {"mailbox"} : CallSetEmail(r, t, e)
  BY <1>2, <1>3, <1>8 DEF CallSetEmail
<1>. QED  BY <1>4, <1>5, <1>6, <1>7, <1>8

LEMMA AdminStep ==
    ASSUME AccountsInv, NEW r \in Requests, Disable(r) \/ Enable(r) \/ SetRole(r)
    PROVE  AccountsInv'
<1>1. req[r] \in Works /\ req[r] # Idle
  BY DEF AccountsInv, Disable, Enable, SetRole, Busy, RequestsType
<1>2. CASE Disable(r)
  <2>1. UsersType'
    BY <1>2 DEF Disable, AccountsInv, UsersType, Registered
  <2>. QED  BY <1>1, <1>2, <2>1, RowsChange DEF Disable
<1>3. CASE Enable(r)
  <2>1. UsersType'
    BY <1>3 DEF Enable, AccountsInv, UsersType, Registered
  <2>. QED  BY <1>3, <2>1, RowsChange DEF Enable
<1>4. CASE SetRole(r)
  <2>1. req[r].role \in Roles
    BY <1>1 DEF Works
  <2>2. UsersType'
    BY <1>4, <2>1 DEF SetRole, AccountsInv, UsersType, Registered
  <2>. QED  BY <1>4, <2>2, RowsChange DEF SetRole
<1>. QED  BY <1>2, <1>3, <1>4

\* Every token loses one unit, and whoever is no administrator gains at most
\* one: the sum does not grow.
LEMMA AgeStep == ASSUME AccountsInv, TokensAge PROVE AccountsInv'
<1>1. \A r \in Requests : req'[r] = Idle
  BY DEF TokensAge
<1>2. AgesType'
  BY DEF AccountsInv, TokensAge, AgesType
<1>3. AdminsAreCurrent'
  BY DEF AccountsInv, TokensAge, AgesType, AdminsAreCurrent, IsActiveAdmin, Registered
<1>4. TokensAreBacked'
  <2> SUFFICES ASSUME NEW n \in tokens'
               PROVE  /\ n.sub \in Users /\ n.role \in Roles /\ n.life \in 1..Ttl
                      /\ n.role = Admin => lastAdmin'[n.sub] + n.life <= Ttl
    BY DEF TokensAreBacked
  <2>1. PICK t \in tokens : t.life > 1 /\ n = [t EXCEPT !.life = @ - 1]
    BY DEF TokensAge
  <2>2. /\ t.sub \in Users /\ t.role \in Roles /\ t.life \in 1..Ttl
        /\ t.role = Admin => lastAdmin[t.sub] + t.life <= Ttl
    BY DEF AccountsInv, TokensAreBacked
  <2>3. n.sub = t.sub /\ n.role = t.role
    BY <2>1
  <2>4. n.life = t.life - 1
    BY <2>1
  <2>5. lastAdmin[t.sub] \in Nat /\ lastAdmin'[t.sub] \in Nat /\ lastAdmin'[t.sub] <= lastAdmin[t.sub] + 1
    BY <2>2 DEF AccountsInv, TokensAge, AgesType
  <2>. QED  BY <2>1, <2>2, <2>3, <2>4, <2>5, AccountsAssumption
<1>. QED  BY <1>1, <1>2, <1>3, <1>4
          DEF AccountsInv, TokensAge, UsersType, RequestsType, RequestsAreBacked, SharedChangedByAdmins

LEMMA AccountsNextInv == AccountsInv /\ [AccountsNext]_accountsVars => AccountsInv'
<1> SUFFICES ASSUME AccountsInv, [AccountsNext]_accountsVars PROVE AccountsInv'
  OBVIOUS
<1>1. ASSUME NEW r \in Requests, NEW u \in Users, Login(r, u) \/ Refresh(r, u) \/ Register(r, u)
      PROVE  AccountsInv'
  BY <1>1, SignInStep
<1>2. ASSUME NEW r \in Requests, Issue(r) \/ Insert(r) PROVE AccountsInv'
  BY <1>2, IssueStep, InsertStep
<1>3. ASSUME NEW r \in Requests, NEW t \in tokens,
             \/ \E u \in Users :
                  \/ CallDisable(r, t, u) \/ CallEnable(r, t, u)
                  \/ \E role \in Roles : CallSetRole(r, t, u, role)
                  \/ CallSetEmail(r, t, u)
             \/ CallSetEmail(r, t, "mailbox")
             \/ CallShared(r, t)
      PROVE  AccountsInv'
  BY <1>3, CallStep
<1>4. ASSUME NEW r \in Requests, Disable(r) \/ Enable(r) \/ SetRole(r) PROVE AccountsInv'
  BY <1>4, AdminStep
<1>5. ASSUME NEW r \in Requests, Revoke(r) \/ SetEmail(r) \/ Abort(r) PROVE AccountsInv'
  BY <1>5, Ends DEF Revoke, SetEmail, Abort, Unchanged, AccountsInv, AgesType, SharedChangedByAdmins
<1>6. ASSUME NEW r \in Requests, ChangeShared(r) PROVE AccountsInv'
  <2>1. req[r] \in Works /\ req[r] # Idle /\ req[r].op = "shared"
    BY <1>6 DEF AccountsInv, ChangeShared, Busy, RequestsType
  <2>2. req[r].sub \in Users
    BY <2>1 DEF Works
  <2>3. authority' \in Nat /\ authority' < Ttl
    BY <1>6, <2>1, <2>2 DEF ChangeShared, AccountsInv, RequestsAreBacked, AgesType
  <2>. QED  BY <1>6, <2>3, Ends DEF ChangeShared
<1>7. CASE TokensAge
  BY <1>7, AgeStep
<1>8. CASE UNCHANGED accountsVars
  BY <1>8 DEF accountsVars, AccountsInv, UsersType, RequestsType, AgesType, AdminsAreCurrent,
              TokensAreBacked, RequestsAreBacked, SharedChangedByAdmins, IsActiveAdmin, Registered
<1>. QED  BY <1>1, <1>2, <1>3, <1>4, <1>5, <1>6, <1>7, <1>8 DEF AccountsNext

\* The invariant behind the two theorems below.
THEOREM Backed == AccountsSpec => []AccountsInv
BY AccountsInitInv, AccountsNextInv, PTL DEF AccountsSpec

\* Postings, boards and revisions are changed only by somebody who was an
\* active administrator less than a token's life ago.
THEOREM SharedIsAdministered == AccountsSpec => []SharedChangedByAdmins
<1>1. AccountsInv => SharedChangedByAdmins
  BY DEF AccountsInv
<1>. QED  BY <1>1, Backed, PTL

\* An administrator who is not the target stays one.
LEMMA OthersStay ==
    ASSUME AccountsInv, NEW r \in Requests, Disable(r) \/ SetRole(r), NEW v \in Users,
           IsActiveAdmin(v), req[r].target = req[r].sub \/ v # req[r].target
    PROVE  IsActiveAdmin(v)'
<1>1. CASE Disable(r)
  BY <1>1 DEF Disable, SelfRefused, IsActiveAdmin, Registered, AccountsInv, UsersType
<1>2. CASE SetRole(r)
  BY <1>2 DEF SetRole, SelfRefused, IsActiveAdmin, Registered, AccountsInv, UsersType
<1>. QED  BY <1>1, <1>2

LEMMA LastAdminStep ==
    ASSUME AccountsInv, [AccountsNext]_accountsVars, SomeAdmin, ~SomeAdmin'
    PROVE  \E r \in Requests :
              /\ req[r] # Idle /\ req[r] # req'[r]
              /\ ~IsActiveAdmin(req[r].sub)
<1>1. users' # users
  BY DEF SomeAdmin, IsActiveAdmin, Registered
<1>2. ASSUME NEW r \in Requests, Insert(r) PROVE FALSE
  BY <1>2 DEF Insert, SomeAdmin, IsActiveAdmin, Registered
<1>3. ASSUME NEW r \in Requests, Enable(r) PROVE FALSE
  BY <1>3 DEF Enable, SomeAdmin, IsActiveAdmin, Registered, AccountsInv, UsersType
<1>4. ASSUME NEW r \in Requests, Disable(r) \/ SetRole(r)
      PROVE  req[r] # Idle /\ req[r] # req'[r] /\ ~IsActiveAdmin(req[r].sub)
  <2>1. req[r] \in Works /\ req[r] # Idle
    BY <1>4 DEF Disable, SetRole, Busy, AccountsInv, RequestsType
  <2>2. req[r].sub \in Users
    BY <2>1 DEF Works
  <2>3. req[r] # req'[r]
    <3>1. CASE req'[r] = Idle
      BY <2>1, <3>1
    <3>2. CASE req'[r] # Idle
      <4>1. req'[r] = [req[r] EXCEPT !.op = "revoke"] /\ req[r].op = "disable"
        BY <1>4, <3>2 DEF Disable, SetRole, Busy, Do, End, AccountsInv, RequestsType
      <4>2. req'[r].op = "revoke"
        BY <2>1, <4>1 DEF Works
      <4>. QED  BY <4>1, <4>2
    <3>. QED  BY <3>1, <3>2
  <2>4. ASSUME IsActiveAdmin(req[r].sub) PROVE FALSE
    <3>1. PICK u \in Users : u = req[r].sub
      BY <2>2
    <3>2. IsActiveAdmin(u) /\ (req[r].target = req[r].sub \/ u # req[r].target)
      BY <2>4, <3>1
    <3>3. IsActiveAdmin(u)'
      BY <1>4, <3>2, OthersStay
    <3>. QED  BY <3>3 DEF SomeAdmin
  <2>. QED  BY <2>1, <2>3, <2>4
<1>5. ASSUME NEW r \in Requests,
             \/ \E u \in Users : Login(r, u) \/ Refresh(r, u) \/ Register(r, u)
             \/ Issue(r) \/ Revoke(r) \/ SetEmail(r) \/ ChangeShared(r) \/ Abort(r)
      PROVE  FALSE
  BY <1>1, <1>5 DEF Login, Refresh, Register, Issue, Unchanged, Revoke, SetEmail, ChangeShared, Abort
<1>6. ASSUME NEW r \in Requests, NEW t \in tokens, NEW q, NEW work, Call(r, t, q, work)
      PROVE  FALSE
  BY <1>1, <1>6 DEF Call, Unchanged
<1>7. ~TokensAge /\ ~UNCHANGED accountsVars
  BY <1>1 DEF TokensAge, accountsVars
<1>8. PICK r \in Requests : Disable(r) \/ SetRole(r)
  BY <1>2, <1>3, <1>5, <1>6, <1>7
     DEF AccountsNext, CallDisable, CallEnable, CallSetRole, CallSetEmail, CallShared
<1>. QED  BY <1>4, <1>8

\* The last administrator falls only to a caller who was none any more.
THEOREM LastAdminIsSafe == AccountsSpec => LastAdminFallsToStaleClaim
<1>1. AccountsInv /\ [AccountsNext]_accountsVars =>
        [SomeAdmin /\ ~SomeAdmin' =>
          \E r \in Requests :
              /\ req[r] # Idle /\ req[r] # req'[r]
              /\ ~IsActiveAdmin(req[r].sub)]_accountsVars
  BY LastAdminStep
<1>. QED  BY <1>1, Backed, PTL DEF AccountsSpec, LastAdminFallsToStaleClaim

-----------------------------------------------------------------------------
(***************************************************************************)
(* FailBan: the strikes a client still has to answer for are the end of    *)
(* its latest strikes, and all of them unless some went to the cap.  The   *)
(* deque is pruned when it is looked at, the history when time passes;     *)
(* most of the lemmas say that this comes to the same.                     *)
(***************************************************************************)
\* Strikes are kept oldest first.
Sorted(hits) == \A i, j \in DOMAIN hits : i <= j => hits[i].age >= hits[j].age

\* a is the end of b.
EndOf(a, b) == Len(a) <= Len(b) /\ \A j \in 1..Len(a) : a[j] = b[j + (Len(b) - Len(a))]

InWindow(hits) == \A i \in DOMAIN hits : hits[i].age <= Window

\* What the tracker still counts of a client is the end of its latest strikes,
\* short of the threshold, and all of them unless some went to the cap.
History(hits, latest, complete) ==
    /\ Sorted(hits) /\ Sorted(latest) /\ InWindow(latest)
    /\ EndOf(Live(hits), latest) /\ Len(Live(hits)) < Threshold
    /\ complete => Len(Live(hits)) = Len(latest)

FailBanTypes ==
    /\ strikes \in [Clients -> Seq(Hit)] /\ recent \in [Clients -> Seq(Hit)]
    /\ bannedPaths \in [Clients -> SUBSET Paths]
    /\ open \in Seq([client : Clients, path : Paths])

FailBanInv ==
    /\ FailBanTypes
    /\ \A c \in Clients : History(strikes[c], recent[c], c \notin dropped)

-----------------------------------------------------------------------------
LEMMA LeastNat ==
    ASSUME NEW S \in SUBSET Nat, S # {}
    PROVE  \E x \in S : \A y \in S : x <= y
<1>1. PICK R : R = OpToRel(<, Nat)
  OBVIOUS
<1>2. IsWellFoundedOn(R, Nat)
  BY <1>1, NatLessThanWellFounded, Zenon
<1>3. R = {ss \in Nat \X Nat : ss[1] < ss[2]}
  BY <1>1, Zenon DEF OpToRel
<1>4. \E x \in S : \A y \in S : ~(<<y, x>> \in R)
  BY <1>2, WFMin
<1>5. \A x, y \in Nat : y < x => <<y, x>> \in R
  BY <1>3
<1>6. \A x, y \in Nat : <<y, x>> \notin R => x <= y
  BY <1>5
<1>. QED  BY <1>4, <1>6

\* The pruning stops at the first strike within the window.
LEMMA FirstExists ==
    ASSUME NEW hits \in Seq(Hit)
    PROVE  LET n == FirstSince(hits, Window)
           IN  /\ n \in 1..Len(hits) + 1
               /\ \A i \in 1..n - 1 : hits[i].age > Window
               /\ n <= Len(hits) => hits[n].age <= Window
<1>. DEFINE S == {n \in 1..Len(hits) + 1 : n <= Len(hits) => hits[n].age <= Window}
<1>1. S \subseteq Nat /\ Len(hits) + 1 \in S
  OBVIOUS
<1>2. PICK n \in S : \A m \in S : n <= m
  BY <1>1, LeastNat
<1>3. \A i \in 1..n - 1 : hits[i].age > Window
  <2>1. TAKE i \in 1..n - 1
  <2>2. i \in 1..Len(hits) /\ ~(n <= i)
    BY <1>2
  <2>3. hits[i] \in Hit
    BY <2>2
  <2>4. hits[i].age \in Nat /\ Window \in Nat
    BY <2>3, FailBanAssumption DEF Hit
  <2>5. i \notin S
    BY <1>2, <2>2
  <2>. QED  BY <2>2, <2>4, <2>5
<1>. HIDE DEF S
<1>4. n \in 1..Len(hits) + 1 /\ (n <= Len(hits) => hits[n].age <= Window)
  BY <1>2 DEF S
<1>. QED  BY <1>3, <1>4, Zenon DEF FirstSince

LEMMA HitAges ==
    ASSUME NEW hits \in Seq(Hit)
    PROVE  /\ \A i \in 1..Len(hits) : hits[i] \in Hit /\ hits[i].age \in Nat
           /\ Window \in Nat
<1>1. Window \in Nat /\ \A h \in Hit : h.age \in Nat
  BY FailBanAssumption DEF Hit
<1>2. \A i \in 1..Len(hits) : hits[i] \in Hit
  OBVIOUS
<1>. QED  BY <1>1, <1>2

\* Of a sorted deque, the pruning leaves the strikes within the window.
LEMMA Pruned ==
    ASSUME NEW hits \in Seq(Hit), Sorted(hits)
    PROVE  LET n == FirstSince(hits, Window)
           IN  /\ n \in 1..Len(hits) + 1
               /\ \A i \in 1..Len(hits) : i < n <=> hits[i].age > Window
               /\ Live(hits) \in Seq(Hit) /\ Len(Live(hits)) = Len(hits) + 1 - n
               /\ \A j \in 1..Len(Live(hits)) : Live(hits)[j] = hits[j + (n - 1)]
               /\ Sorted(Live(hits)) /\ InWindow(Live(hits))
<1>. DEFINE n == FirstSince(hits, Window)
<1>1. /\ n \in 1..Len(hits) + 1
      /\ \A i \in 1..n - 1 : hits[i].age > Window
      /\ n <= Len(hits) => hits[n].age <= Window
  BY FirstExists
<1>. HIDE DEF n
<1>2. ASSUME NEW i \in 1..Len(hits) PROVE i < n <=> hits[i].age > Window
  <2>1. CASE i < n
    BY <1>1, <2>1
  <2>2. CASE ~(i < n)
    <3>1. n \in 1..Len(hits) /\ n <= i
      BY <1>1, <2>2
    <3>2. hits[n].age >= hits[i].age
      BY <3>1 DEF Sorted
    <3>. QED  BY <1>1, <2>2, <3>1, <3>2, HitAges
  <2>. QED  BY <2>1, <2>2
<1>3. Live(hits) = SubSeq(hits, n, Len(hits))
  BY DEF Live, Since, n
<1>4. /\ Live(hits) \in Seq(Hit) /\ Len(Live(hits)) = Len(hits) + 1 - n
      /\ \A j \in 1..Len(Live(hits)) : Live(hits)[j] = hits[j + (n - 1)]
  BY <1>1, <1>3
<1>5. \A j \in 1..Len(Live(hits)) : j + (n - 1) \in 1..Len(hits) /\ ~(j + (n - 1) < n)
  BY <1>1, <1>4
<1>6. InWindow(Live(hits))
  BY <1>2, <1>4, <1>5, HitAges DEF InWindow
<1>7. Sorted(Live(hits))
  <2>. SUFFICES ASSUME NEW i \in DOMAIN Live(hits), NEW j \in DOMAIN Live(hits), i <= j
                PROVE  Live(hits)[i].age >= Live(hits)[j].age
    BY DEF Sorted
  <2>1. i + (n - 1) <= j + (n - 1)
    BY <1>1, <1>4
  <2>. QED  BY <1>4, <1>5, <2>1 DEF Sorted
<1>. QED  BY <1>1, <1>2, <1>4, <1>6, <1>7 DEF n

\* The pruning takes nothing from strikes within the window.
LEMMA InWindowStays ==
    ASSUME NEW hits \in Seq(Hit), Sorted(hits), InWindow(hits)
    PROVE  Live(hits) = hits
<1>. DEFINE n == FirstSince(hits, Window)
<1>1. /\ n \in 1..Len(hits) + 1
      /\ \A i \in 1..n - 1 : hits[i].age > Window
  BY FirstExists
<1>. HIDE DEF n
<1>2. n = 1
  <2>1. SUFFICES ASSUME n # 1 PROVE FALSE
    OBVIOUS
  <2>2. 1 \in 1..n - 1 /\ 1 \in DOMAIN hits
    BY <1>1, <2>1
  <2>. QED  BY <1>1, <2>2, HitAges DEF InWindow
<1>3. Live(hits) = SubSeq(hits, 1, Len(hits))
  BY <1>2 DEF Live, Since, n
<1>. QED  BY <1>3

\* The pruning of a client's strikes and of its latest ones agree.
LEMMA PruneEnd ==
    ASSUME NEW a \in Seq(Hit), NEW b \in Seq(Hit), Sorted(a), Sorted(b), EndOf(a, b)
    PROVE  /\ EndOf(Live(a), Live(b))
           /\ Len(Live(a)) <= Len(a)
           /\ (\A i \in 1..Len(b) - Len(a) : b[i].age > Window) =>
                 Len(Live(a)) = Len(Live(b))
<1>. DEFINE n == FirstSince(a, Window)
            m == FirstSince(b, Window)
            d == Len(b) - Len(a)
<1>1. /\ n \in 1..Len(a) + 1
      /\ \A i \in 1..Len(a) : i < n <=> a[i].age > Window
      /\ Len(Live(a)) = Len(a) + 1 - n
      /\ \A j \in 1..Len(Live(a)) : Live(a)[j] = a[j + (n - 1)]
  BY Pruned
<1>2. /\ m \in 1..Len(b) + 1
      /\ \A i \in 1..Len(b) : i < m <=> b[i].age > Window
      /\ Len(Live(b)) = Len(b) + 1 - m
      /\ \A j \in 1..Len(Live(b)) : Live(b)[j] = b[j + (m - 1)]
  BY Pruned
<1>. HIDE DEF n, m
<1>3. Len(a) \in Nat /\ Len(b) \in Nat /\ d \in Nat /\ \A j \in 1..Len(a) : a[j] = b[j + d]
  BY DEF EndOf
<1>4. \A j \in 1..Len(a) : j < n <=> j + d < m
  <2>1. TAKE j \in 1..Len(a)
  <2>2. j + d \in 1..Len(b) /\ a[j] = b[j + d]
    BY <1>3
  <2>. QED  BY <1>1, <1>2, <2>2
<1>5. m <= n + d
  <2>1. CASE n <= Len(a)
    <3>1. n \in 1..Len(a) /\ ~(n < n)
      BY <1>1, <2>1
    <3>2. ~(n + d < m)
      BY <1>4, <3>1
    <3>. QED  BY <1>1, <1>2, <1>3, <3>2
  <2>2. CASE n = Len(a) + 1
    BY <1>2, <1>3, <2>2
  <2>. QED  BY <1>1, <2>1, <2>2
<1>6. n = 1 \/ m = n + d
  <2>. SUFFICES ASSUME n # 1 PROVE m = n + d
    OBVIOUS
  <2>1. n - 1 \in 1..Len(a) /\ n - 1 < n
    BY <1>1
  <2>2. (n - 1) + d < m
    BY <1>4, <2>1
  <2>3. n \in Nat /\ m \in Nat /\ d \in Nat
    BY <1>1, <1>2, <1>3
  <2>. HIDE DEF d
  <2>. QED  BY <1>5, <2>2, <2>3
<1>. HIDE DEF d
<1>7. Len(Live(a)) <= Len(Live(b)) /\ Len(Live(a)) <= Len(a)
  BY <1>1, <1>2, <1>3, <1>5 DEF d
<1>8. ASSUME NEW j \in 1..Len(Live(a))
      PROVE  Live(a)[j] = Live(b)[j + (Len(Live(b)) - Len(Live(a)))]
  <2>. DEFINE k == j + (Len(Live(b)) - Len(Live(a)))
  <2>1. k \in 1..Len(Live(b)) /\ k + (m - 1) = j + (n - 1) + d
    BY <1>1, <1>2, <1>3, <1>7 DEF d
  <2>2. Live(b)[k] = b[k + (m - 1)]
    BY <1>2, <2>1
  <2>3. j + (n - 1) \in 1..Len(a)
    BY <1>1
  <2>4. Live(a)[j] = b[j + (n - 1) + d]
    BY <1>1, <1>3, <2>3
  <2>. QED  BY <2>1, <2>2, <2>4
<1>9. ASSUME \A i \in 1..Len(b) - Len(a) : b[i].age > Window
      PROVE  Len(Live(a)) = Len(Live(b))
  <2>1. n \in Nat /\ m \in Nat /\ d \in Nat /\ Len(a) \in Nat /\ Len(b) = Len(a) + d
    BY <1>1, <1>2, <1>3 DEF d
  <2>2. d < m
    <3>1. CASE d = 0
      BY <1>2, <3>1
    <3>2. CASE d # 0
      <4>1. d \in 1..Len(b) - Len(a) /\ d \in 1..Len(b)
        BY <2>1, <3>2
      <4>. QED  BY <1>2, <1>9, <4>1
    <3>. QED  BY <3>1, <3>2
  <2>3. m = n + d
    BY <1>5, <1>6, <2>1, <2>2
  <2>. QED  BY <1>1, <1>2, <2>1, <2>3
<1>. QED  BY <1>7, <1>8, <1>9 DEF EndOf

LEMMA SameEnd ==
    ASSUME NEW a \in Seq(Hit), NEW b \in Seq(Hit), EndOf(a, b), Len(a) = Len(b)
    PROVE  a = b
<1>1. \A j \in 1..Len(a) : a[j] = b[j]
  BY DEF EndOf
<1>. QED  BY <1>1

\* What was pruned stays out, whenever the pruning happens.
LEMMA PruneTwice ==
    ASSUME NEW a \in Seq(Hit), NEW b \in Seq(Hit), Sorted(a), Sorted(b), EndOf(a, b),
           \A i \in 1..Len(b) - Len(a) : b[i].age > Window
    PROVE  Live(a) = Live(b)
<1>1. EndOf(Live(a), Live(b)) /\ Len(Live(a)) = Len(Live(b))
  BY PruneEnd
<1>2. Live(a) \in Seq(Hit) /\ Live(b) \in Seq(Hit)
  BY Pruned
<1>. QED  BY <1>1, <1>2, SameEnd

LEMMA LiveIsEnd ==
    ASSUME NEW hits \in Seq(Hit), Sorted(hits)
    PROVE  /\ EndOf(Live(hits), hits)
           /\ \A i \in 1..Len(hits) - Len(Live(hits)) : hits[i].age > Window
<1>. DEFINE n == FirstSince(hits, Window)
<1>1. /\ n \in 1..Len(hits) + 1
      /\ \A i \in 1..Len(hits) : i < n <=> hits[i].age > Window
      /\ Len(Live(hits)) = Len(hits) + 1 - n
      /\ \A j \in 1..Len(Live(hits)) : Live(hits)[j] = hits[j + (n - 1)]
  BY Pruned
<1>. HIDE DEF n
<1>2. Len(hits) - Len(Live(hits)) = n - 1 /\ Len(Live(hits)) <= Len(hits)
  BY <1>1
<1>3. EndOf(Live(hits), hits)
  BY <1>1, <1>2 DEF EndOf
<1>4. \A i \in 1..n - 1 : i \in 1..Len(hits) /\ i < n
  BY <1>1
<1>. QED  BY <1>1, <1>2, <1>3, <1>4

-----------------------------------------------------------------------------
Now(p) == [age |-> 0, path |-> p]

\* A new strike comes last.
LEMMA StruckKeeps ==
    ASSUME NEW hits \in Seq(Hit), Sorted(hits), NEW p \in Paths
    PROVE  LET more == Append(hits, Now(p))
           IN  /\ more \in Seq(Hit) /\ Len(more) = Len(hits) + 1
               /\ \A i \in 1..Len(hits) : more[i] = hits[i]
               /\ more[Len(hits) + 1] = Now(p)
               /\ Sorted(more)
               /\ InWindow(hits) => InWindow(more)
<1>. DEFINE more == Append(hits, Now(p))
<1>1. Now(p) \in Hit /\ Now(p).age = 0 /\ Window \in Nat
  BY FailBanAssumption DEF Now, Hit
<1>2. /\ more \in Seq(Hit) /\ Len(more) = Len(hits) + 1 /\ Len(hits) \in Nat
      /\ \A i \in 1..Len(hits) : more[i] = hits[i]
      /\ more[Len(hits) + 1] = Now(p)
  BY <1>1
<1>. HIDE DEF more
<1>3. DOMAIN more = 1..Len(hits) + 1
  BY <1>2
<1>4. Sorted(more)
  <2>. SUFFICES ASSUME NEW i \in DOMAIN more, NEW j \in DOMAIN more, i <= j
                PROVE  more[i].age >= more[j].age
    BY DEF Sorted
  <2>1. CASE j \in 1..Len(hits)
    <3>1. i \in 1..Len(hits)
      BY <1>3, <2>1
    <3>. QED  BY <1>2, <2>1, <3>1 DEF Sorted
  <2>2. CASE j = Len(hits) + 1
    <3>1. more[j].age = 0 /\ more[i].age \in Nat
      BY <1>1, <1>2, <1>3, <2>2, HitAges
    <3>. QED  BY <3>1
  <2>. QED  BY <1>2, <1>3, <2>1, <2>2
<1>5. ASSUME InWindow(hits) PROVE InWindow(more)
  <2>. SUFFICES ASSUME NEW i \in DOMAIN more PROVE more[i].age <= Window
    BY DEF InWindow
  <2>1. CASE i \in 1..Len(hits)
    BY <1>2, <1>5, <2>1 DEF InWindow
  <2>2. CASE i = Len(hits) + 1
    BY <1>1, <1>2, <2>2
  <2>. QED  BY <1>2, <1>3, <2>1, <2>2
<1>. QED  BY <1>2, <1>4, <1>5 DEF more

LEMMA StruckEnd ==
    ASSUME NEW a \in Seq(Hit), NEW b \in Seq(Hit), Sorted(a), Sorted(b), EndOf(a, b),
           NEW p \in Paths
    PROVE  EndOf(Append(a, Now(p)), Append(b, Now(p)))
<1>. DEFINE x == Append(a, Now(p))
            y == Append(b, Now(p))
            d == Len(b) - Len(a)
<1>1. /\ Len(x) = Len(a) + 1 /\ x[Len(a) + 1] = Now(p)
      /\ \A i \in 1..Len(a) : x[i] = a[i]
  BY StruckKeeps
<1>2. /\ Len(y) = Len(b) + 1 /\ y[Len(b) + 1] = Now(p)
      /\ \A i \in 1..Len(b) : y[i] = b[i]
  BY StruckKeeps
<1>. HIDE DEF x, y
<1>3. Len(a) \in Nat /\ Len(b) \in Nat /\ d \in Nat /\ \A j \in 1..Len(a) : a[j] = b[j + d]
  BY DEF EndOf
<1>4. Len(y) - Len(x) = d /\ Len(x) <= Len(y)
  BY <1>1, <1>2, <1>3
<1>5. ASSUME NEW j \in 1..Len(x) PROVE x[j] = y[j + d]
  <2>1. CASE j = Len(a) + 1
    <3>1. j + d = Len(b) + 1
      BY <1>3, <2>1
    <3>. QED  BY <1>1, <1>2, <2>1, <3>1
  <2>2. CASE j # Len(a) + 1
    <3>1. j \in 1..Len(a) /\ j + d \in 1..Len(b)
      BY <1>1, <1>3, <2>2
    <3>. QED  BY <1>1, <1>2, <1>3, <3>1
  <2>. QED  BY <2>1, <2>2
<1>. QED  BY <1>4, <1>5 DEF EndOf, x, y

\* What record() counts: what it counted before, and this strike.
LEMMA Counted ==
    ASSUME NEW hits \in Seq(Hit), Sorted(hits), NEW p \in Paths
    PROVE  Live(Append(hits, Now(p))) = Append(Live(hits), Now(p))
<1>. DEFINE l == Live(hits)
            a == Append(l, Now(p))
            b == Append(hits, Now(p))
<1>1. l \in Seq(Hit) /\ Sorted(l) /\ InWindow(l)
  BY Pruned
<1>2. /\ EndOf(l, hits)
      /\ \A i \in 1..Len(hits) - Len(l) : hits[i].age > Window
  BY LiveIsEnd
<1>. HIDE DEF l
<1>3. a \in Seq(Hit) /\ Len(a) = Len(l) + 1 /\ Sorted(a) /\ InWindow(a)
  BY <1>1, StruckKeeps
<1>4. /\ b \in Seq(Hit) /\ Len(b) = Len(hits) + 1 /\ Sorted(b)
      /\ \A i \in 1..Len(hits) : b[i] = hits[i]
  BY StruckKeeps
<1>5. EndOf(a, b)
  BY <1>1, <1>2, StruckEnd
<1>. HIDE DEF a, b
<1>6. \A i \in 1..Len(b) - Len(a) : b[i].age > Window
  <2>1. Len(l) \in Nat /\ Len(hits) \in Nat
    BY <1>1
  <2>2. \A i \in 1..Len(b) - Len(a) : i \in 1..Len(hits) - Len(l) /\ i \in 1..Len(hits)
    BY <1>3, <1>4, <2>1
  <2>. QED  BY <1>2, <1>4, <2>2
<1>7. Live(a) = Live(b)
  BY <1>3, <1>4, <1>5, <1>6, PruneTwice
<1>8. Live(a) = a
  BY <1>3, InWindowStays
<1>. QED  BY <1>7, <1>8 DEF a, b, l

\* The history keeps more strikes than any client has without a ban.
LEMMA LatestKeeps ==
    ASSUME NEW a \in Seq(Hit), NEW b \in Seq(Hit), Sorted(b), InWindow(b),
           EndOf(a, b), Len(a) < Threshold
    PROVE  /\ Latest(b) \in Seq(Hit) /\ Sorted(Latest(b)) /\ InWindow(Latest(b))
           /\ EndOf(a, Latest(b))
           /\ Len(a) = Len(b) => Len(a) = Len(Latest(b))
<1>1. Threshold \in Nat /\ Len(a) \in Nat /\ Len(b) \in Nat /\ Len(a) <= Len(b)
  BY FailBanAssumption DEF EndOf
<1>2. CASE Len(b) > Threshold
  <2>. DEFINE l == SubSeq(b, 2, Len(b))
  <2>1. Latest(b) = l
    BY <1>2 DEF Latest
  <2>2. /\ l \in Seq(Hit) /\ Len(l) = Len(b) - 1
        /\ \A j \in 1..Len(l) : l[j] = b[j + 1]
    BY <1>1, <1>2
  <2>. HIDE DEF l
  <2>3. \A j \in 1..Len(l) : j \in Nat /\ j + 1 \in 1..Len(b)
    BY <1>1, <2>2
  <2>7. DOMAIN l = 1..Len(l) /\ DOMAIN b = 1..Len(b)
    BY <2>2
  <2>4. InWindow(l)
    BY <2>2, <2>3, <2>7 DEF InWindow
  <2>5. Sorted(l)
    <3>. SUFFICES ASSUME NEW i \in 1..Len(l), NEW j \in 1..Len(l), i <= j
                  PROVE  l[i].age >= l[j].age
      BY <2>2 DEF Sorted
    <3>1. i + 1 <= j + 1
      BY <2>3
    <3>2. b[i + 1].age >= b[j + 1].age
      BY <2>3, <2>7, <3>1 DEF Sorted
    <3>. QED  BY <2>2, <3>2
  <2>6. EndOf(a, l)
    <3>1. Len(a) <= Len(l)
      BY <1>1, <1>2, <2>2
    <3>2. ASSUME NEW j \in 1..Len(a) PROVE a[j] = l[j + (Len(l) - Len(a))]
      <4>1. /\ j + (Len(l) - Len(a)) \in 1..Len(l)
            /\ j + (Len(l) - Len(a)) + 1 = j + (Len(b) - Len(a))
        BY <1>1, <2>2, <3>1
      <4>. QED  BY <2>2, <4>1 DEF EndOf
    <3>. QED  BY <3>1, <3>2 DEF EndOf
  <2>. QED  BY <1>1, <1>2, <2>1, <2>2, <2>4, <2>5, <2>6
<1>3. CASE ~(Len(b) > Threshold)
  <2>1. Latest(b) = SubSeq(b, 1, Len(b))
    BY <1>3 DEF Latest
  <2>2. Latest(b) = b
    BY <2>1
  <2>. QED  BY <2>2
<1>. QED  BY <1>2, <1>3

\* Time passes for strikes alike.
LEMMA AgedKeeps ==
    ASSUME NEW hits \in Seq(Hit), Sorted(hits)
    PROVE  /\ Aged(hits) \in Seq(Hit) /\ Len(Aged(hits)) = Len(hits)
           /\ \A i \in 1..Len(hits) :
                 /\ Aged(hits)[i] = Older(hits[i])
                 /\ hits[i].age > Window => Aged(hits)[i].age > Window
           /\ Sorted(Aged(hits))
<1>1. Window \in Nat
  BY FailBanAssumption
<1>2. \A h \in Hit : /\ Older(h) \in Hit
                     /\ Older(h).age = IF h.age > Window THEN h.age ELSE h.age + 1
  BY <1>1 DEF Older, Hit
<1>3. \A i \in 1..Len(hits) : hits[i] \in Hit /\ hits[i].age \in Nat
  BY HitAges
<1>4. /\ Aged(hits) \in Seq(Hit) /\ Len(Aged(hits)) = Len(hits)
      /\ \A i \in 1..Len(hits) : Aged(hits)[i] = Older(hits[i])
  BY <1>2, <1>3 DEF Aged
<1>5. \A i \in 1..Len(hits) : hits[i].age > Window => Aged(hits)[i].age > Window
  BY <1>2, <1>3, <1>4
<1>6. Sorted(Aged(hits))
  <2>. SUFFICES ASSUME NEW i \in 1..Len(hits), NEW j \in 1..Len(hits), i <= j
                PROVE  Aged(hits)[i].age >= Aged(hits)[j].age
    BY <1>4 DEF Sorted
  <2>1. hits[i].age >= hits[j].age
    BY DEF Sorted
  <2>. DEFINE up(a) == IF a > Window THEN a ELSE a + 1
  <2>2. /\ hits[i].age \in Nat /\ Aged(hits)[i].age = up(hits[i].age)
        /\ hits[j].age \in Nat /\ Aged(hits)[j].age = up(hits[j].age)
    BY <1>2, <1>3, <1>4
  <2>. HIDE DEF Aged
  <2>. QED  BY <1>1, <2>1, <2>2
<1>. QED  BY <1>4, <1>5, <1>6

LEMMA AgedEnd ==
    ASSUME NEW a \in Seq(Hit), NEW b \in Seq(Hit), Sorted(a), Sorted(b), EndOf(a, b)
    PROVE  EndOf(Aged(a), Aged(b))
<1>1. /\ Len(Aged(a)) = Len(a) /\ Len(Aged(b)) = Len(b)
      /\ \A i \in 1..Len(a) : Aged(a)[i] = Older(a[i])
      /\ \A i \in 1..Len(b) : Aged(b)[i] = Older(b[i])
  BY AgedKeeps
<1>2. ASSUME NEW j \in 1..Len(a) PROVE Aged(a)[j] = Aged(b)[j + (Len(b) - Len(a))]
  <2>1. j + (Len(b) - Len(a)) \in 1..Len(b)
    BY DEF EndOf
  <2>. QED  BY <1>1, <2>1 DEF EndOf
<1>. QED  BY <1>1, <1>2 DEF EndOf
-----------------------------------------------------------------------------
LEMMA EmptyHistory == ASSUME NEW b PROVE History(<<>>, <<>>, b)
<1>1. <<>> \in Seq(Hit) /\ Sorted(<<>>) /\ InWindow(<<>>)
  BY DEF Sorted, InWindow
<1>2. Live(<<>>) = <<>>
  BY <1>1, InWindowStays
<1>. QED  BY <1>1, <1>2, FailBanAssumption DEF History, EndOf

\* A client whose strikes are given up, or were too old, has a history still.
LEMMA PrunedHistory ==
    ASSUME NEW hits \in Seq(Hit), NEW latest \in Seq(Hit), NEW b,
           History(hits, latest, b)
    PROVE  /\ Live(hits) \in Seq(Hit) /\ History(Live(hits), latest, b)
           /\ History(<<>>, latest, FALSE)
<1>1. Live(hits) \in Seq(Hit) /\ Sorted(Live(hits)) /\ Live(Live(hits)) = Live(hits)
  BY Pruned, InWindowStays DEF History
<1>2. <<>> \in Seq(Hit) /\ Sorted(<<>>) /\ Live(<<>>) = <<>>
  BY EmptyHistory, InWindowStays DEF History, InWindow
<1>. QED  BY <1>1, <1>2, FailBanAssumption DEF History, EndOf

LEMMA AgedHistory ==
    ASSUME NEW hits \in Seq(Hit), NEW latest \in Seq(Hit), NEW b,
           History(hits, latest, b)
    PROVE  /\ Aged(hits) \in Seq(Hit) /\ Timely(Aged(latest)) \in Seq(Hit)
           /\ History(Aged(hits), Timely(Aged(latest)), b)
           /\ Timely(Aged(latest)) = <<>> => History(Aged(hits), Timely(Aged(latest)), TRUE)
<1>. DEFINE l == Live(hits)
            x == Aged(l)
            y == Aged(latest)
            z == Aged(hits)
<1>1. /\ Sorted(hits) /\ Sorted(latest) /\ InWindow(latest) /\ EndOf(l, latest)
      /\ Len(l) < Threshold /\ (b => Len(l) = Len(latest))
  BY DEF History
<1>2. /\ l \in Seq(Hit) /\ Sorted(l) /\ EndOf(l, hits)
      /\ \A i \in 1..Len(hits) - Len(l) : hits[i].age > Window
  BY <1>1, Pruned, LiveIsEnd
<1>. HIDE DEF l
<1>3. /\ x \in Seq(Hit) /\ Sorted(x) /\ Len(x) = Len(l)
      /\ y \in Seq(Hit) /\ Sorted(y) /\ Len(y) = Len(latest)
      /\ z \in Seq(Hit) /\ Sorted(z) /\ Len(z) = Len(hits)
      /\ EndOf(x, y) /\ EndOf(x, z)
  BY <1>1, <1>2, AgedKeeps, AgedEnd
<1>4. \A i \in 1..Len(z) - Len(x) : z[i].age > Window
  <2>1. Len(l) \in Nat /\ Len(hits) \in Nat
    BY <1>2
  <2>2. \A i \in 1..Len(z) - Len(x) : i \in 1..Len(hits) /\ i \in 1..Len(hits) - Len(l)
    BY <1>3, <2>1
  <2>. QED  BY <1>1, <1>2, <2>2, AgedKeeps
<1>. HIDE DEF x, y, z
<1>5. Live(x) = Live(z)
  BY <1>3, <1>4, PruneTwice
<1>6. /\ EndOf(Live(x), Live(y)) /\ Len(Live(x)) <= Len(x)
      /\ Len(x) = Len(y) => Len(Live(x)) = Len(Live(y))
  <2>1. Len(x) \in Nat /\ Len(y) \in Nat
    BY <1>3
  <2>2. Len(x) = Len(y) => \A i \in 1..Len(y) - Len(x) : y[i].age > Window
    BY <2>1
  <2>. QED  BY <1>3, <2>2, PruneEnd
<1>7. Live(y) \in Seq(Hit) /\ Sorted(Live(y)) /\ InWindow(Live(y)) /\ Live(x) \in Seq(Hit)
  BY <1>3, Pruned
<1>8. Timely(y) = Live(y)
  BY DEF Timely, Live
<1>9. Len(Live(x)) < Threshold
  <2>1. Len(x) \in Nat /\ Len(Live(x)) \in Nat /\ Threshold \in Nat
    BY <1>3, <1>7, FailBanAssumption
  <2>. QED  BY <1>1, <1>3, <1>6, <2>1
<1>10. Live(y) = <<>> => Len(Live(x)) = Len(Live(y))
  BY <1>6, <1>7 DEF EndOf
<1>. QED  BY <1>1, <1>3, <1>5, <1>6, <1>7, <1>8, <1>9, <1>10 DEF History, x, y, z, l

\* A strike that is not one too many.
LEMMA StruckHistory ==
    ASSUME NEW hits \in Seq(Hit), NEW latest \in Seq(Hit), NEW b,
           History(hits, latest, b), NEW p \in Paths
    PROVE  LET counted == Live(Append(hits, Now(p)))
               all     == Append(latest, Now(p))
           IN  /\ counted \in Seq(Hit) /\ Latest(Timely(all)) \in Seq(Hit)
               /\ \A i \in DOMAIN counted :
                     counted[i] = Now(p) \/ \E j \in DOMAIN latest : counted[i] = latest[j]
               /\ Len(counted) < Threshold =>
                     /\ History(Live(counted), Latest(Timely(all)), b)
                     /\ History(<<>>, Latest(Timely(all)), FALSE)
<1>. DEFINE counted == Live(Append(hits, Now(p)))
            all == Append(latest, Now(p))
            l == Live(hits)
<1>1. /\ Sorted(hits) /\ Sorted(latest) /\ InWindow(latest) /\ EndOf(l, latest)
      /\ Len(l) < Threshold /\ (b => Len(l) = Len(latest))
  BY DEF History
<1>2. l \in Seq(Hit) /\ Sorted(l) /\ InWindow(l)
  BY <1>1, Pruned
<1>3. counted = Append(l, Now(p))
  BY <1>1, Counted
<1>. HIDE DEF l
<1>4. /\ counted \in Seq(Hit) /\ Len(counted) = Len(l) + 1
      /\ Sorted(counted) /\ InWindow(counted)
      /\ \A i \in 1..Len(l) : counted[i] = l[i]
      /\ counted[Len(l) + 1] = Now(p)
  BY <1>2, <1>3, StruckKeeps
<1>5. /\ all \in Seq(Hit) /\ Len(all) = Len(latest) + 1
      /\ Sorted(all) /\ InWindow(all)
  BY <1>1, StruckKeeps
<1>6. EndOf(counted, all)
  BY <1>1, <1>2, <1>3, StruckEnd
<1>7. Timely(all) = all
  <2>1. Timely(all) = Live(all)
    BY DEF Timely, Live
  <2>. QED  BY <1>5, <2>1, InWindowStays
<1>. HIDE DEF counted, all
<1>8. ASSUME NEW i \in DOMAIN counted
      PROVE  counted[i] = Now(p) \/ \E j \in DOMAIN latest : counted[i] = latest[j]
  <2>1. CASE i \in 1..Len(l)
    <3>1. i + (Len(latest) - Len(l)) \in DOMAIN latest
      BY <1>1, <1>2, <2>1 DEF EndOf
    <3>. QED  BY <1>1, <1>4, <2>1, <3>1 DEF EndOf
  <2>2. CASE i = Len(l) + 1
    BY <1>4, <2>2
  <2>. QED  BY <1>2, <1>4, <2>1, <2>2
<1>9. ASSUME Len(counted) < Threshold
      PROVE  /\ Latest(all) \in Seq(Hit) 
             /\ History(Live(counted), Latest(all), b)
             /\ History(<<>>, Latest(all), FALSE)
  <2>1. /\ Latest(all) \in Seq(Hit) /\ Sorted(Latest(all)) /\ InWindow(Latest(all))
        /\ EndOf(counted, Latest(all))
        /\ Len(counted) = Len(all) => Len(counted) = Len(Latest(all))
    BY <1>4, <1>5, <1>6, <1>9, LatestKeeps
  <2>2. b => Len(counted) = Len(all)
    BY <1>1, <1>4, <1>5
  <2>3. Live(counted) = counted
    BY <1>4, InWindowStays
  <2>4. History(counted, Latest(all), b)
    BY <1>4, <1>9, <2>1, <2>2, <2>3 DEF History
  <2>. QED  BY <1>4, <2>1, <2>3, <2>4, PrunedHistory
<1>10. Latest(all) \in Seq(Hit)
  <2>1. Len(all) \in Nat /\ Len(all) >= 1
    BY <1>5
  <2>. QED  BY <1>5, <2>1 DEF Latest
<1>. QED  BY <1>4, <1>7, <1>8, <1>9, <1>10 DEF counted, all
-----------------------------------------------------------------------------
Opened == [client : Clients, path : Paths]

LEMMA FailBanInitInv == FailBanInit => FailBanInv
<1>. SUFFICES ASSUME FailBanInit PROVE FailBanInv
  OBVIOUS
<1>1. <<>> \in Seq(Hit) /\ <<>> \in Seq(Opened)
  OBVIOUS
<1>2. FailBanTypes
  BY <1>1 DEF FailBanInit, FailBanTypes, Opened
<1>3. \A c \in Clients : History(strikes[c], recent[c], c \notin dropped)
  BY EmptyHistory DEF FailBanInit
<1>. QED  BY <1>2, <1>3 DEF FailBanInv

LEMMA RestartStep == ASSUME FailBanInv, Restart PROVE FailBanInv'
<1>1. <<>> \in Seq(Hit) /\ <<>> \in Seq(Opened)
  OBVIOUS
<1>2. FailBanTypes'
  BY <1>1 DEF Restart, FailBanTypes, Opened
<1>3. \A c \in Clients : History(strikes'[c], recent'[c], c \notin dropped')
  BY EmptyHistory DEF Restart
<1>. QED  BY <1>2, <1>3 DEF FailBanInv

LEMMA OpenKeeps ==
    ASSUME FailBanTypes, NEW i \in 1..Len(open), Close(i)
    PROVE  open' \in Seq(Opened) /\ open[i] \in Opened
<1>1. open \in Seq(Opened)
  BY DEF FailBanTypes, Opened
<1>. DEFINE a == SubSeq(open, 1, i - 1)
            b == SubSeq(open, i + 1, Len(open))
<1>2. a \in Seq(Opened) /\ b \in Seq(Opened)
  BY <1>1
<1>3. open' = a \o b
  BY DEF Close, RemoveAt
<1>. QED  BY <1>1, <1>2, <1>3

\* A request that arrives, or is answered, changes no history.
LEMMA GateStep ==
    ASSUME FailBanInv, UNCHANGED <<strikes, recent, dropped>>,
           bannedPaths' \in [Clients -> SUBSET Paths], open' \in Seq(Opened)
    PROVE  FailBanInv'
BY DEF FailBanInv, FailBanTypes, Opened

LEMMA ArriveStep ==
    ASSUME FailBanInv, NEW c \in Clients, NEW p \in Paths, Arrive(c, p)
    PROVE  FailBanInv'
<1>1. open' \in Seq(Opened)
  <2>1. open \in Seq(Opened) /\ [client |-> c, path |-> p] \in Opened
    BY DEF FailBanInv, FailBanTypes, Opened
  <2>. QED  BY <2>1 DEF Arrive
<1>2. bannedPaths' \in [Clients -> SUBSET Paths]
  BY DEF FailBanInv, FailBanTypes, Arrive
<1>. QED  BY <1>1, <1>2, GateStep DEF Arrive

LEMMA ServeStep ==
    ASSUME FailBanInv, NEW i \in 1..Len(open), Serve(i)
    PROVE  FailBanInv'
<1>1. open' \in Seq(Opened)
  BY OpenKeeps DEF FailBanInv, Serve
<1>. QED  BY <1>1, GateStep DEF Serve, FailBanInv, FailBanTypes

\* A strike of a client: what it leaves, and what a ban covers.
LEMMA StrikeStep ==
    ASSUME FailBanInv, NEW c \in Clients, NEW p \in Paths, Strike(c, p), open' \in Seq(Opened)
    PROVE  /\ FailBanInv'
           /\ \A d \in Clients \ {c} : bannedPaths'[d] = bannedPaths[d]
           /\ bannedPaths'[c] # bannedPaths[c] =>
                 \A q \in bannedPaths'[c] :
                    q = p \/ \E i \in DOMAIN recent[c] : recent[c][i].path = q
<1>. DEFINE now  == Now(p)
            hits == Live(Append(strikes[c], now))
            all  == Append(recent[c], now)
            hot  == Len(hits) >= Threshold
            kept == [strikes EXCEPT ![c] = IF hot THEN <<>> ELSE hits]
            left == [d \in Clients |-> Live(kept[d])]
            bans == Cardinality(Banned \cup (IF hot THEN {c} ELSE {}))
            gone == Oldest(Striking(left), Entered(c), Overflow(Cardinality(Striking(left)), bans))
<1>1. /\ bannedPaths' = IF hot THEN [bannedPaths EXCEPT ![c] = {hits[i].path : i \in DOMAIN hits}]
                        ELSE bannedPaths
      /\ strikes' = [d \in Clients |-> IF d \in gone THEN <<>> ELSE left[d]]
      /\ recent' = [recent EXCEPT ![c] = IF hot THEN <<>> ELSE Latest(Timely(all))]
      /\ dropped' = (dropped \ (IF hot THEN {c} ELSE {})) \cup gone
  BY DEF Strike, Now
<1>2. /\ strikes \in [Clients -> Seq(Hit)] /\ recent \in [Clients -> Seq(Hit)]
      /\ bannedPaths \in [Clients -> SUBSET Paths]
      /\ \A d \in Clients : History(strikes[d], recent[d], d \notin dropped)
  BY DEF FailBanInv, FailBanTypes
<1>3. now.path = p
  BY DEF Now
<1>4. /\ hits \in Seq(Hit) /\ Latest(Timely(all)) \in Seq(Hit)
      /\ \A i \in DOMAIN hits :
            hits[i] = now \/ \E j \in DOMAIN recent[c] : hits[i] = recent[c][j]
      /\ Len(hits) < Threshold =>
            /\ History(Live(hits), Latest(Timely(all)), c \notin dropped)
            /\ History(<<>>, Latest(Timely(all)), FALSE)
  <2>. HIDE DEF kept, left, bans, gone
  <2>. DEFINE s == strikes[c]
              l == recent[c]
              b == c \notin dropped
  <2>1. s \in Seq(Hit) /\ l \in Seq(Hit) /\ History(s, l, b)
    BY <1>2
  <2>. HIDE DEF s, l, b
  <2>2. LET counted == Live(Append(s, Now(p)))
            more    == Append(l, Now(p))
        IN  /\ counted \in Seq(Hit) /\ Latest(Timely(more)) \in Seq(Hit)
            /\ \A i \in DOMAIN counted :
                  counted[i] = Now(p) \/ \E j \in DOMAIN l : counted[i] = l[j]
            /\ Len(counted) < Threshold =>
                  /\ History(Live(counted), Latest(Timely(more)), b)
                  /\ History(<<>>, Latest(Timely(more)), FALSE)
    BY <2>1, StruckHistory
  <2>. QED  BY <2>2 DEF s, l, b
<1>5. <<>> \in Seq(Hit) /\ Live(<<>>) = <<>> /\ \A b \in BOOLEAN : History(<<>>, <<>>, b)
  BY EmptyHistory, InWindowStays DEF History, InWindow
<1>6. Len(hits) \in Nat /\ Threshold \in Nat
  BY <1>4, FailBanAssumption
<1>. HIDE DEF now, hits, all, bans
<1>7. ASSUME NEW d \in Clients
      PROVE  /\ left[d] \in Seq(Hit) /\ recent'[d] \in Seq(Hit)
             /\ History(left[d], recent'[d], d \notin dropped \/ (hot /\ d = c))
             /\ History(<<>>, recent'[d], FALSE)
  <2>1. CASE d # c
    <3>1. left[d] = Live(strikes[d]) /\ recent'[d] = recent[d]
      BY <1>1, <1>2, <2>1
    <3>. QED  BY <1>2, <2>1, <3>1, PrunedHistory
  <2>2. CASE d = c /\ hot
    <3>1. left[d] = <<>> /\ recent'[d] = <<>>
      BY <1>1, <1>2, <1>5, <2>2
    <3>. QED  BY <1>5, <2>2, <3>1
  <2>3. CASE d = c /\ ~hot
    <3>1. left[d] = Live(hits) /\ recent'[d] = Latest(Timely(all)) /\ Len(hits) < Threshold
      BY <1>1, <1>2, <1>6, <2>3
    <3>2. History(left[d], recent'[d], d \notin dropped) /\ History(<<>>, recent'[d], FALSE)
      BY <1>4, <2>3, <3>1
    <3>3. Sorted(hits)
      <4>1. Sorted(strikes[c]) /\ strikes[c] \in Seq(Hit)
        BY <1>2 DEF History
      <4>. QED  BY <4>1, StruckKeeps, Pruned DEF hits, now
    <3>. QED  BY <1>4, <2>3, <3>1, <3>2, <3>3, Pruned
  <2>. QED  BY <2>1, <2>2, <2>3
<1>. HIDE DEF left, gone
<1>8. ASSUME NEW d \in Clients
      PROVE  /\ strikes'[d] \in Seq(Hit) /\ recent'[d] \in Seq(Hit)
             /\ History(strikes'[d], recent'[d], d \notin dropped')
  <2>1. CASE d \in gone
    <3>1. strikes'[d] = <<>> /\ d \in dropped'
      BY <1>1, <2>1
    <3>. QED  BY <1>5, <1>7, <2>1, <3>1
  <2>2. CASE d \notin gone
    <3>1. strikes'[d] = left[d]
      BY <1>1, <2>2
    <3>2. (d \notin dropped') <=> (d \notin dropped \/ (hot /\ d = c))
      BY <1>1, <2>2
    <3>. QED  BY <1>7, <3>1, <3>2
  <2>. QED  BY <2>1, <2>2
<1>9. bannedPaths' \in [Clients -> SUBSET Paths]
  <2>1. \A i \in DOMAIN hits : hits[i] \in Hit
    BY <1>4
  <2>2. {hits[i].path : i \in DOMAIN hits} \subseteq Paths
    BY <2>1 DEF Hit
  <2>. QED  BY <1>1, <1>2, <2>2
<1>10. strikes' \in [Clients -> Seq(Hit)] /\ recent' \in [Clients -> Seq(Hit)]
  BY <1>1, <1>2, <1>8
<1>11. FailBanInv'
  BY <1>8, <1>9, <1>10 DEF FailBanInv, FailBanTypes, Opened
<1>12. ASSUME bannedPaths'[c] # bannedPaths[c], NEW q \in bannedPaths'[c]
       PROVE  q = p \/ \E i \in DOMAIN recent[c] : recent[c][i].path = q
  <2>1. PICK i \in DOMAIN hits : q = hits[i].path
    BY <1>1, <1>2, <1>12
  <2>. QED  BY <1>3, <1>4, <2>1
<1>. QED  BY <1>1, <1>2, <1>11, <1>12

LEMMA OverLimitStep ==
    ASSUME FailBanInv, NEW i \in 1..Len(open), OverLimit(i)
    PROVE  FailBanInv'
<1>1. open' \in Seq(Opened) /\ open[i] \in Opened
  BY OpenKeeps DEF FailBanInv, OverLimit
<1>2. open[i].client \in Clients /\ open[i].path \in Paths
  BY <1>1 DEF Opened
<1>. QED  BY <1>1, <1>2, StrikeStep DEF OverLimit

LEMMA TickStep == ASSUME FailBanInv, Tick PROVE FailBanInv'
<1>1. /\ strikes \in [Clients -> Seq(Hit)] /\ recent \in [Clients -> Seq(Hit)]
      /\ \A d \in Clients : History(strikes[d], recent[d], d \notin dropped)
  BY DEF FailBanInv, FailBanTypes
<1>2. /\ strikes' = [c \in Clients |-> Aged(strikes[c])]
      /\ recent' = [c \in Clients |-> Timely(Aged(recent[c]))]
      /\ dropped' = {c \in dropped : recent'[c] # <<>>}
      /\ UNCHANGED <<bannedPaths, open>>
  BY DEF Tick
<1>3. ASSUME NEW c \in Clients
      PROVE  /\ strikes'[c] \in Seq(Hit) /\ recent'[c] \in Seq(Hit)
             /\ History(strikes'[c], recent'[c], c \notin dropped')
  <2>1. strikes'[c] = Aged(strikes[c]) /\ recent'[c] = Timely(Aged(recent[c]))
    BY <1>2
  <2>2. /\ strikes'[c] \in Seq(Hit) /\ recent'[c] \in Seq(Hit)
        /\ History(strikes'[c], recent'[c], c \notin dropped)
        /\ recent'[c] = <<>> => History(strikes'[c], recent'[c], TRUE)
    BY <1>1, <2>1, AgedHistory
  <2>3. CASE recent'[c] = <<>>
    BY <2>2, <2>3 DEF History
  <2>4. CASE recent'[c] # <<>>
    <3>1. c \notin dropped' <=> c \notin dropped
      BY <1>2, <2>4
    <3>. QED  BY <2>2, <3>1
  <2>. QED  BY <2>3, <2>4
<1>4. FailBanTypes'
  BY <1>2, <1>3 DEF FailBanInv, FailBanTypes
<1>. QED  BY <1>3, <1>4 DEF FailBanInv

LEMMA FailBanNextInv == FailBanInv /\ [FailBanNext]_failBanVars => FailBanInv'
<1>. SUFFICES ASSUME FailBanInv, [FailBanNext]_failBanVars PROVE FailBanInv'
  OBVIOUS
<1>1. CASE UNCHANGED failBanVars
  BY <1>1, GateStep DEF failBanVars, FailBanInv, FailBanTypes, Opened
<1>2. CASE FailBanNext
  BY <1>2, RestartStep, ArriveStep, ServeStep, OverLimitStep, TickStep DEF FailBanNext
<1>. QED  BY <1>1, <1>2

\* Whatever expires, is asked about or goes to the cap: a client that has
\* lost no strikes to it is banned at the latest by its last strike.
THEOREM BannedInTime == FailBanSpec => []OffendersAreBanned
<1>1. FailBanInv => OffendersAreBanned
  <2>. SUFFICES ASSUME FailBanInv, NEW c \in Clients \ dropped
                PROVE  Len(recent[c]) < Threshold
    BY DEF OffendersAreBanned
  <2>. QED  BY DEF FailBanInv, History
<1>. QED  BY <1>1, FailBanInitInv, FailBanNextInv, PTL DEF FailBanSpec

LEMMA BansAreScoped ==
    FailBanInv /\ [FailBanNext]_failBanVars =>
      \A c \in Clients : bannedPaths'[c] \notin {{}, bannedPaths[c]} =>
         \A p \in bannedPaths'[c] :
            \/ \E i \in DOMAIN recent[c] : recent[c][i].path = p /\ recent[c][i].age <= Window
            \/ \E i \in DOMAIN open : open[i] = [client |-> c, path |-> p]
<1>. SUFFICES ASSUME FailBanInv, [FailBanNext]_failBanVars, NEW c \in Clients,
                     bannedPaths'[c] \notin {{}, bannedPaths[c]}, NEW p \in bannedPaths'[c]
              PROVE  \/ \E i \in DOMAIN recent[c] :
                           recent[c][i].path = p /\ recent[c][i].age <= Window
                     \/ \E i \in DOMAIN open : open[i] = [client |-> c, path |-> p]
  OBVIOUS
<1>1. bannedPaths \in [Clients -> SUBSET Paths] /\ InWindow(recent[c])
  BY DEF FailBanInv, FailBanTypes, History
<1>2. \E i \in 1..Len(open) : OverLimit(i)
  BY <1>1 DEF FailBanNext, Restart, Arrive, Serve, Tick, failBanVars
<1>3. PICK i \in 1..Len(open) : OverLimit(i)
  BY <1>2
<1>4. open' \in Seq(Opened) /\ open[i] \in Opened /\ i \in DOMAIN open
  BY <1>3, OpenKeeps DEF FailBanInv, FailBanTypes, OverLimit
<1>5. open[i] = [client |-> open[i].client, path |-> open[i].path]
  BY <1>4 DEF Opened
<1>7. /\ open[i].client \in Clients /\ open[i].path \in Paths
      /\ Strike(open[i].client, open[i].path)
  BY <1>3, <1>4 DEF OverLimit, Opened
<1>8. open[i].client = c
  BY <1>4, <1>7, StrikeStep
<1>6. /\ open[i].client = c
      /\ p = open[i].path \/ \E j \in DOMAIN recent[c] : recent[c][j].path = p
  BY <1>4, <1>7, <1>8, StrikeStep
<1>. QED  BY <1>1, <1>4, <1>5, <1>6 DEF InWindow

\* A ban covers what the client overran within Window and since its last ban.
THEOREM BansCoverWhatWasOverrun == FailBanSpec => BanIsScoped
BY FailBanInitInv, FailBanNextInv, BansAreScoped, PTL DEF FailBanSpec, BanIsScoped
-----------------------------------------------------------------------------
(***************************************************************************)
(* The stack: headers that say who may read an answer are set on the way   *)
(* out of the fourth layer, and no layer around it takes them back.        *)
(***************************************************************************)
Answers ==
    [by : {"app", "ServerError", "JWTAuth", "Guard", "CredentialedCORS", "CORS"},
     status : Nat, origin : Origins \cup {NoOrigin, Star},
     credentials : BOOLEAN, stamped : BOOLEAN]

GateType ==
    /\ request \in HttpRequests
    /\ at \in 0..6
    /\ answer # NoAnswer => answer \in Answers
    /\ at = 0 => answer \in Answers

IsOut == answer # NoAnswer \/ at = 0

Pinning ==
    answer # NoAnswer /\ answer.credentials =>
        /\ at <= 3
        /\ IsCredentialed(request.query)
        /\ answer.origin = Pinned
        /\ request.query.method = "OPTIONS" \/ FromPinned(request)

Readability ==
    IsOut /\ at <= 3 /\ IsCredentialed(request.query) /\ FromPinned(request)
    /\ answer.by \notin {"Guard", "ServerError"} =>
        answer.origin = Pinned /\ answer.credentials

GateInv == GateType /\ HeadersAreStamped /\ Pinning /\ Readability

\* The stack, layer by layer.
LEMMA Layers ==
    /\ DOMAIN Stack = 1..5 /\ Len(Stack) = 5
    /\ Stack[1] = "SecurityHeaders" /\ Stack[2] = "JWTAuth" /\ Stack[3] = "Guard"
    /\ Stack[4] = "CredentialedCORS" /\ Stack[5] = "CORS"
BY DEF Stack

LEMMA LayerAt ==
    ASSUME NEW layer, Inbound(layer) \/ Outbound(layer)
    PROVE  /\ layer = "SecurityHeaders" => at = 1
           /\ layer = "JWTAuth" => at = 2
           /\ layer = "Guard" => at = 3
           /\ layer = "CredentialedCORS" => at = 4
           /\ layer = "CORS" => at = 5
<1>1. at \in 1..5 /\ Stack[at] = layer
  BY Layers DEF Inbound, Outbound
<1>2. at = 1 \/ at = 2 \/ at = 3 \/ at = 4 \/ at = 5
  BY <1>1
<1>. QED  BY <1>1, <1>2, Layers

\* The middleware refuses none of the requests about the refresh cookie.
LEMMA CookiePathsAreOpen ==
    ASSUME NEW q, NEW t, IsCredentialed(q)
    PROVE  Decide(q, t) = 200
BY DEF IsCredentialed, Decide, IsProtected, IsTailoredRead, CredentialAreas, PublicAreas

LEMMA Statuses == ASSUME NEW q, NEW t PROVE Decide(q, t) \in Nat
BY DEF Decide

LEMMA GateInitInv == GateInit => GateInv
BY DEF GateInit, GateInv, GateType, HeadersAreStamped, Pinning, Readability, IsOut

LEMMA PassInInv ==
    ASSUME GateInv, answer = NoAnswer, at \in 1..5, PassIn
    PROVE  GateInv'
BY DEF PassIn, GateInv, GateType, HeadersAreStamped, Pinning, Readability, IsOut

\* An answer on its way out that a layer leaves alone.
LEMMA PassOutInv ==
    ASSUME GateInv, answer # NoAnswer, at \in 2..3, PassOut(answer)
    PROVE  GateInv'
BY DEF PassOut, GateInv, GateType, HeadersAreStamped, Pinning, Readability, IsOut

LEMMA HeadersInv == GateInv /\ (HeadersIn \/ HeadersOut) => GateInv'
<1>. SUFFICES ASSUME GateInv, HeadersIn \/ HeadersOut PROVE GateInv'
  OBVIOUS
<1>1. CASE HeadersIn
  <2>1. at = 1
    BY <1>1, LayerAt DEF HeadersIn
  <2>. QED  BY <1>1, <2>1, PassInInv DEF HeadersIn, Inbound
<1>2. CASE HeadersOut
  <2>1. at = 1 /\ answer # NoAnswer
    BY <1>2, LayerAt DEF HeadersOut, Outbound
  <2>2. answer \in Answers /\ answer' = [answer EXCEPT !.stamped = TRUE] /\ at' = 0
        /\ request' = request
    BY <1>2, <2>1 DEF HeadersOut, PassOut, GateInv, GateType
  <2>3. /\ answer' \in Answers /\ answer'.stamped
        /\ answer'.by = answer.by /\ answer'.origin = answer.origin
        /\ answer'.credentials = answer.credentials
    BY <2>2 DEF Answers
  <2>. QED
    BY <2>1, <2>2, <2>3
       DEF GateInv, GateType, HeadersAreStamped, Pinning, Readability, IsOut
<1>. QED  BY <1>1, <1>2

LEMMA JWTAuthInv == GateInv /\ (JWTAuthIn \/ JWTAuthOut) => GateInv'
<1>. SUFFICES ASSUME GateInv, JWTAuthIn \/ JWTAuthOut PROVE GateInv'
  OBVIOUS
<1>1. at = 2
  <2>1. Inbound("JWTAuth") \/ Outbound("JWTAuth")
    BY DEF JWTAuthIn, JWTAuthOut
  <2>. QED  BY <2>1, LayerAt
<1>2. CASE JWTAuthOut
  BY <1>1, <1>2, PassOutInv DEF JWTAuthOut, Outbound
<1>3. CASE JWTAuthIn
  <2>. DEFINE status == Decide(request.query, request.bearer)
  <2>1. CASE status = 200
    BY <1>1, <1>3, <2>1, PassInInv DEF JWTAuthIn, Inbound
  <2>2. CASE status # 200
    <3>1. ~IsCredentialed(request.query)
      BY <2>2, CookiePathsAreOpen
    <3>2. status \in Nat
      BY Statuses
    <3>3. /\ answer' = [by |-> "JWTAuth", status |-> status, origin |-> Star,
                        credentials |-> FALSE, stamped |-> FALSE]
          /\ at' = 1 /\ request' = request
      BY <1>1, <1>3, <2>2 DEF JWTAuthIn, Respond, Bare, PassOut
    <3>4. answer' \in Answers
      BY <3>2, <3>3 DEF Answers
    <3>. QED
      BY <3>1, <3>3, <3>4
         DEF GateInv, GateType, HeadersAreStamped, Pinning, Readability, IsOut, IsCredentialed
  <2>. QED  BY <2>1, <2>2
<1>. QED  BY <1>2, <1>3

LEMMA GuardInv == GateInv /\ (GuardIn \/ GuardOut) => GateInv'
<1>. SUFFICES ASSUME GateInv, GuardIn \/ GuardOut PROVE GateInv'
  OBVIOUS
<1>1. at = 3
  <2>1. Inbound("Guard") \/ Outbound("Guard")
    BY DEF GuardIn, GuardOut
  <2>. QED  BY <2>1, LayerAt
<1>2. CASE GuardOut
  BY <1>1, <1>2, PassOutInv DEF GuardOut, Outbound
<1>3. CASE GuardIn /\ PassesGuard(request)
  BY <1>1, <1>3, PassInInv DEF GuardIn, Inbound
<1>4. CASE GuardIn /\ ~PassesGuard(request)
  <2>1. /\ answer' = [by |-> "Guard", status |-> 403, origin |-> NoOrigin,
                      credentials |-> FALSE, stamped |-> FALSE]
        /\ at' = 2 /\ request' = request
    BY <1>1, <1>4 DEF GuardIn, Respond, Bare, PassOut
  <2>2. answer' \in Answers
    BY <2>1 DEF Answers
  <2>. QED
    BY <2>1, <2>2 DEF GateInv, GateType, HeadersAreStamped, Pinning, Readability, IsOut
<1>. QED  BY <1>2, <1>3, <1>4

LEMMA CredentialedInv == GateInv /\ (CredentialedIn \/ CredentialedOut) => GateInv'
<1>. SUFFICES ASSUME GateInv, CredentialedIn \/ CredentialedOut PROVE GateInv'
  OBVIOUS
<1>1. at = 4
  <2>1. Inbound("CredentialedCORS") \/ Outbound("CredentialedCORS")
    BY DEF CredentialedIn, CredentialedOut
  <2>. QED  BY <2>1, LayerAt
<1>. DEFINE own == IsCredentialed(request.query) /\ request.query.method = "OPTIONS"
            pinned == IsCredentialed(request.query) /\ FromPinned(request)
<1>2. CASE CredentialedIn /\ ~own
  <2>1. answer = NoAnswer
    BY <1>2 DEF CredentialedIn, Inbound
  <2>2. PassIn
    BY <1>2 DEF CredentialedIn
  <2>. QED  BY <1>1, <2>1, <2>2, PassInInv
<1>3. CASE CredentialedIn /\ own
  <2>1. /\ answer' = [by |-> "CredentialedCORS", status |-> 204, origin |-> Pinned,
                      credentials |-> TRUE, stamped |-> FALSE]
        /\ at' = 3 /\ request' = request
    BY <1>1, <1>3 DEF CredentialedIn, Respond, Bare, PassOut
  <2>2. answer' \in Answers
    BY <2>1, GateAssumption DEF Answers
  <2>. QED
    BY <1>3, <2>1, <2>2
       DEF GateInv, GateType, HeadersAreStamped, Pinning, Readability, IsOut, IsCredentialed
<1>4. CASE CredentialedOut /\ pinned
  <2>1. /\ answer \in Answers
        /\ answer' = [answer EXCEPT !.origin = Pinned, !.credentials = TRUE]
        /\ at' = 3 /\ request' = request
    BY <1>1, <1>4 DEF CredentialedOut, Outbound, PassOut, GateInv, GateType
  <2>2. answer' \in Answers /\ answer'.origin = Pinned /\ answer'.credentials
    BY <2>1, GateAssumption DEF Answers
  <2>. QED
    BY <1>4, <2>1, <2>2
       DEF GateInv, GateType, HeadersAreStamped, Pinning, Readability, IsOut, IsCredentialed,
           FromPinned
<1>5. CASE CredentialedOut /\ ~pinned
  <2>1. answer \in Answers /\ answer' = answer /\ at' = 3 /\ request' = request
    BY <1>1, <1>5 DEF CredentialedOut, Outbound, PassOut, GateInv, GateType
  <2>. QED
    BY <1>1, <1>5, <2>1
       DEF GateInv, GateType, HeadersAreStamped, Pinning, Readability, IsOut, IsCredentialed,
           FromPinned
<1>. QED  BY <1>2, <1>3, <1>4, <1>5

LEMMA CORSInv == GateInv /\ (CORSIn \/ CORSOut) => GateInv'
<1>. SUFFICES ASSUME GateInv, CORSIn \/ CORSOut PROVE GateInv'
  OBVIOUS
<1>1. at = 5
  <2>1. Inbound("CORS") \/ Outbound("CORS")
    BY DEF CORSIn, CORSOut
  <2>. QED  BY <2>1, LayerAt
<1>. DEFINE own == request.query.method = "OPTIONS" /\ request.origin # NoOrigin
<1>2. CASE CORSIn /\ ~own
  <2>1. answer = NoAnswer
    BY <1>2 DEF CORSIn, Inbound
  <2>2. PassIn
    BY <1>2 DEF CORSIn
  <2>. QED  BY <1>1, <2>1, <2>2, PassInInv
<1>3. CASE CORSIn /\ own
  <2>1. /\ answer' = [by |-> "CORS", status |-> 200, origin |-> Star,
                      credentials |-> FALSE, stamped |-> FALSE]
        /\ at' = 4 /\ request' = request
    BY <1>1, <1>3 DEF CORSIn, Respond, Bare, PassOut
  <2>2. answer' \in Answers
    BY <2>1 DEF Answers
  <2>. QED
    BY <2>1, <2>2 DEF GateInv, GateType, HeadersAreStamped, Pinning, Readability, IsOut
<1>4. CASE CORSOut
  <2>1. answer \in Answers /\ ~answer.credentials
    BY <1>1, <1>4 DEF CORSOut, Outbound, GateInv, GateType, Pinning, Answers
  <2>2. request.origin \in Origins \cup {NoOrigin}
    BY DEF GateInv, GateType, HttpRequests
  <2>3. answer' \in Answers /\ ~answer'.credentials /\ at' = 4 /\ request' = request
    BY <1>1, <1>4, <2>1, <2>2 DEF CORSOut, PassOut, Answers
  <2>. QED
    BY <2>3 DEF GateInv, GateType, HeadersAreStamped, Pinning, Readability, IsOut
<1>. QED  BY <1>2, <1>3, <1>4

LEMMA ApplicationInv == GateInv /\ Application => GateInv'
<1>. SUFFICES ASSUME GateInv, Application PROVE GateInv'
  OBVIOUS
<1>0. at = 6
  BY Layers DEF Application
<1>1. PICK status \in {200, 429} : Respond("app", status, NoOrigin, FALSE)
  BY DEF Application
<1>2. /\ answer' = [by |-> "app", status |-> status, origin |-> NoOrigin,
                    credentials |-> FALSE, stamped |-> FALSE]
      /\ at' = 5 /\ request' = request
  BY <1>1, <1>0 DEF Respond, Bare, PassOut
<1>3. answer' \in Answers
  BY <1>2 DEF Answers
<1>. QED
  BY <1>2, <1>3 DEF GateInv, GateType, HeadersAreStamped, Pinning, Readability, IsOut

\* The 500 for a handler that raised is sent as it is.
LEMMA RaisedInv == GateInv /\ ApplicationRaises => GateInv'
<1>. SUFFICES ASSUME GateInv, ApplicationRaises PROVE GateInv'
  OBVIOUS
<1>1. /\ answer' = [by |-> "ServerError", status |-> 500, origin |-> NoOrigin,
                    credentials |-> FALSE, stamped |-> FALSE]
      /\ at' = 0 /\ request' = request
  BY DEF ApplicationRaises, Bare
<1>2. answer' \in Answers
  BY <1>1 DEF Answers
<1>. QED
  BY <1>1, <1>2 DEF GateInv, GateType, HeadersAreStamped, Pinning, Readability, IsOut

LEMMA GateNextInv == GateInv /\ [GateNext]_gateVars => GateInv'
<1>1. GateInv /\ UNCHANGED gateVars => GateInv'
  BY DEF gateVars, GateInv, GateType, HeadersAreStamped, Pinning, Readability, IsOut
<1>. QED
  BY <1>1, HeadersInv, JWTAuthInv, GuardInv, CredentialedInv, CORSInv,
     ApplicationInv, RaisedInv DEF GateNext

\* What holds of the stack for any paths, tokens, origins and settings.
THEOREM GateInvariance == GateSpec => []GateInv
BY GateInitInv, GateNextInv, PTL DEF GateSpec

\* Refusals and preflights carry the security headers like any other answer
\* but the 500 for a handler that raised.
THEOREM LayersAnswersAreStamped == GateSpec => []HeadersAreStamped
<1>1. GateInv => HeadersAreStamped
  BY DEF GateInv
<1>. QED  BY <1>1, GateInvariance, PTL

\* Credentials are allowed on the three paths, to the configured page only.
THEOREM OnlyThePinnedPage == GateSpec => []CredentialsArePinned
<1>1. GateInv => CredentialsArePinned
  BY DEF GateInv, Pinning, CredentialsArePinned, FromPinned
<1>. QED  BY <1>1, GateInvariance, PTL

\* The operator's page can read what it is told about its session, unless the
\* guard refuses it or the handler raised: two lists of paths in middleware.py
\* have to agree.
THEOREM SessionAnswersAreReadable == GateSpec => []PinnedPageReadsAnswers
<1>1. GateInv => PinnedPageReadsAnswers
  BY DEF GateInv, GateType, Readability, IsOut, PinnedPageReadsAnswers
<1>. QED  BY <1>1, GateInvariance, PTL
=============================================================================
