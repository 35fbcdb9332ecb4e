---------------------------- MODULE BrowserTabs ----------------------------
(***************************************************************************)
(* The single-page app in the tabs of one browser: AuthContext.tsx,        *)
(* client.ts, api/auth.ts and RequireAuth.tsx.  The tabs share the refresh *)
(* cookie and nothing else; each keeps its access token in memory.  The    *)
(* server is TokenLineage, which RefreshTokens implements.                 *)
(*                                                                         *)
(* What a tab waits for is a job: a login, a logout, the check of a page   *)
(* that has no token (RequireAuth), or a call of the API (/auth/me after a *)
(* login or a check is one).  An access token may run out at any time, and *)
(* a page that lost it is one whose calls are answered 401: the token is   *)
(* not in the model, and neither is the user whose name the page shows.    *)
(***************************************************************************)
EXTENDS Naturals, FiniteSets

CONSTANTS
    Tabs,
    Jobs,           \* names of the jobs a tab can have at a time
    MaxJobs,        \* bound on jobs of all tabs together
    MaxTokens,      \* bound on refresh tokens ever issued
    Gone            \* where the answers go that a reloaded page asked for

ASSUME BrowserAssumption ==
    /\ MaxTokens \in Nat /\ MaxJobs \in Nat
    /\ Gone \notin Tabs

VARIABLES
    lineage, valid, dead,   \* the server's refresh tokens, as in TokenLineage
    cookie,         \* the refresh cookie of the browser, or None
    authed,         \* tabs whose React state has an access token
    job,            \* job[t][j]: what the tab waits for
    net,            \* requests to /auth/{token,refresh,logout} and their answers
    replays,        \* history: tokens the server took for replayed
    excused,        \* history: tokens two pages had under way, or whose answer was lost
    signedOut       \* history: a logout reached the server, and no login since

None == 0
Tokens == 1..MaxTokens
server == <<lineage, valid, dead>>
history == <<replays, excused, signedOut>>
vars == <<server, cookie, authed, job, net, history>>

Lineage == INSTANCE TokenLineage

\* What a job waits for; login and logout are named like their requests.
Idle == "idle"
LoggingIn == "login"
LoggingOut == "logout"
Checking == "check"     \* RequireAuth, for the refresh
Sent == "sent"          \* a call of the API
Resent == "resent"      \* isRetry
Waiting == "wait"       \* a call, for the refresh
AwaitsRefresh(w) == w \in {Checking, Waiting}

\* A request of tab t for its job j, with the cookie c.
Post(t, j, kind, c) ==
    [from |-> t, job |-> j, kind |-> kind, token |-> c, state |-> "sent", new |-> None]

Init ==
    /\ Lineage!Init
    /\ cookie = None
    /\ authed = {}
    /\ job = [t \in Tabs |-> [j \in Jobs |-> Idle]]
    /\ net = {}
    /\ replays = {} /\ excused = {} /\ signedOut = FALSE

Request == [from : Tabs \cup {Gone}, job : Jobs, kind : {"login", "refresh", "logout"},
            token : Tokens \cup {None}, state : {"sent", "ok", "no"}, new : Tokens \cup {None}]

TypeOK ==
    /\ lineage \in [Tokens -> Tokens \cup {None}]
    /\ valid \subseteq Tokens /\ dead \subseteq Tokens
    /\ cookie \in Tokens \cup {None}
    /\ authed \subseteq Tabs
    /\ job \in [Tabs -> [Jobs -> {Idle, LoggingIn, LoggingOut, Checking, Sent, Resent, Waiting}]]
    /\ net \subseteq Request
    /\ replays \subseteq Tokens /\ excused \subseteq Tokens
    /\ signedOut \in BOOLEAN
-----------------------------------------------------------------------------
(* The page *)

Put(t, j, w) == job' = [job EXCEPT ![t][j] = w]

Fresh == {n \in Tokens : lineage[n] = None}
NextToken == CHOOSE n \in Fresh : TRUE

Busy == {w \in Tabs \X Jobs : job[w[1]][w[2]] # Idle}

\* Tab t can start job j; bounds: MaxJobs, and while tokens are left.
Free(t, j) == job[t][j] = Idle /\ Cardinality(Busy) < MaxJobs /\ Fresh # {}

\* Mutant: tryRefresh does not share the request that is on its way.
RefreshingNever(t) == FALSE

\* inFlightRefresh
Refreshing(t) == \E q \in net : q.from = t /\ q.kind = "refresh"

\* Some other page has the token p under way.
Elsewhere(t, p) == \E q \in net : q.kind = "refresh" /\ q.token = p /\ q.from # t

\* tryRefresh() called by job j: one request per page at a time.
TryRefresh(t, j) ==
    IF Refreshing(t) THEN UNCHANGED <<net, excused>>
    ELSE /\ net' = net \cup {Post(t, j, "refresh", cookie)}
         /\ excused' = excused \cup {c \in Tokens : c = cookie /\ Elsewhere(t, c)}

\* The user signs in on /login or /register.
Login(t, j) ==
    /\ Free(t, j)
    /\ Put(t, j, LoggingIn)
    /\ net' = net \cup {Post(t, j, "login", None)}
    /\ signedOut' = FALSE
    /\ UNCHANGED <<server, cookie, authed, replays, excused>>

Logout(t, j) ==
    /\ t \in authed /\ Free(t, j)
    /\ Put(t, j, LoggingOut)
    /\ net' = net \cup {Post(t, j, "logout", cookie)}
    /\ UNCHANGED <<server, cookie, authed, history>>

\* RequireAuth on a page without a token: after a reload, a logout, or a
\* refresh that failed.
Check(t, j) ==
    /\ t \notin authed /\ Free(t, j)
    /\ \A i \in Jobs : job[t][i] # Checking
    /\ Put(t, j, Checking)
    /\ TryRefresh(t, j)
    /\ UNCHANGED <<server, cookie, authed, replays, signedOut>>

\* A page behind RequireAuth calls the API: apiFetch.
Call(t, j) ==
    /\ t \in authed /\ Free(t, j)
    /\ Put(t, j, Sent)
    /\ UNCHANGED <<server, cookie, authed, net, history>>

\* Any answer that ends the call: with a token that is good, a network error,
\* or a 401 for the second time.
CallEnds(t, j) ==
    /\ job[t][j] \in {Sent, Resent}
    /\ Put(t, j, Idle)
    /\ UNCHANGED <<server, cookie, authed, net, history>>

\* The first 401 leads to a refresh.
CallUnauthorized(t, j) ==
    /\ job[t][j] = Sent
    /\ Put(t, j, Waiting)
    /\ TryRefresh(t, j)
    /\ UNCHANGED <<server, cookie, authed, replays, signedOut>>

\* The page is loaded again: its memory is gone, its requests are still out.
Reload(t) ==
    \* Bound: a reload leaves one request behind, and none of another.
    /\ Cardinality({q \in net : q.from \in {t, Gone}}) <= 1
    /\ authed' = authed \ {t}
    /\ job' = [job EXCEPT ![t] = [j \in Jobs |-> Idle]]
    /\ net' = {[q EXCEPT !.from = IF @ = t THEN Gone ELSE @] : q \in net}
    /\ UNCHANGED <<server, cookie, history>>
-----------------------------------------------------------------------------
(* The server *)

Reply(q, state, n) == net' = (net \ {q}) \cup {[q EXCEPT !.state = state, !.new = n]}

\* The right password: a wrong one is to the page like a request that is lost.
HandleLogin(q) ==
    /\ q.kind = "login" /\ q.state = "sent"
    /\ Fresh # {}
    /\ Lineage!Issue(NextToken)
    /\ Reply(q, "ok", NextToken)
    /\ UNCHANGED <<cookie, authed, job, history>>

HandleRefresh(q) ==
    LET p == q.token IN
    /\ q.kind = "refresh" /\ q.state = "sent"
    /\ \/ /\ p \in valid /\ Fresh # {}
          /\ Lineage!Redeem(p, NextToken)
          /\ Reply(q, "ok", NextToken)
          /\ UNCHANGED replays
       \/ /\ p # None /\ p \notin valid /\ lineage[p] \notin dead
          /\ Lineage!Revoke({lineage[p]})
          /\ Reply(q, "no", None)
          /\ replays' = replays \cup {p}
       \/ /\ p # None => p \notin valid /\ lineage[p] \in dead
          /\ UNCHANGED <<server, replays>>
          /\ Reply(q, "no", None)
    /\ UNCHANGED <<cookie, authed, job, excused, signedOut>>

\* Mutant: a logout finds its family by the current token alone.
EndedByCurrent(p) == {lineage[t] : t \in valid \cap {p}}

\* The family a logout ends: any token of it will do.
EndedBy(p) == {lineage[p]}

\* Nothing under way belongs to another session than the one that ends.
OnlySession(f) ==
    /\ cookie # None => lineage[cookie] = f
    /\ \A r \in net :
        /\ r.kind # "login"
        /\ (r.kind = "refresh" /\ r.token # None) => lineage[r.token] = f

HandleLogout(q) ==
    LET p == q.token IN
    /\ q.kind = "logout" /\ q.state = "sent"
    /\ IF p = None THEN UNCHANGED <<server, signedOut>>
       ELSE /\ Lineage!Revoke(EndedBy(p))
            /\ signedOut' = (signedOut \/ OnlySession(lineage[p]))
    /\ Reply(q, "ok", None)
    /\ UNCHANGED <<cookie, authed, job, replays, excused>>
-----------------------------------------------------------------------------
(* Answers *)

\* setAccessToken for job j, and with a token a call of /auth/me.
SetAccessToken(t, j, got) ==
    /\ authed' = IF got THEN authed \cup {t} ELSE authed \ {t}
    /\ Put(t, j, IF got THEN Sent ELSE Idle)

\* Mutant: only the job that asked for the refresh goes on.
ResumedFirst(q) == {j \in {q.job} : AwaitsRefresh(job[q.from][j])}

\* The jobs of the page that share the refresh.
Resumed(q) == {j \in Jobs : AwaitsRefresh(job[q.from][j])}

\* The refresh is over: a check tells React, a call does not and is resent.
RefreshDone(q, got) ==
    LET t == q.from
        checked == \E j \in Resumed(q) : job[t][j] = Checking
    IN  /\ authed' = IF ~checked THEN authed ELSE IF got THEN authed \cup {t} ELSE authed \ {t}
        /\ job' = [job EXCEPT ![t] = [j \in Jobs |->
                     IF j \notin Resumed(q) THEN @[j]
                     ELSE IF ~got THEN Idle
                     ELSE IF @[j] = Checking THEN Sent ELSE Resent]]

\* The page of q learns how it ended; a failed login changes nothing else.
Learn(q, got) ==
    \/ q.from = Gone /\ UNCHANGED <<authed, job>>
    \/ /\ q.from # Gone /\ q.kind = "login" /\ ~got
       /\ Put(q.from, q.job, Idle) /\ UNCHANGED authed
    \/ q.from # Gone /\ q.kind = "refresh" /\ RefreshDone(q, got)
    \/ /\ q.from # Gone /\ (q.kind = "logout" \/ (q.kind = "login" /\ got))
       /\ SetAccessToken(q.from, q.job, got)

Answer(q) ==
    /\ q.state # "sent"
    /\ net' = net \ {q}
    /\ cookie' = IF q.state = "ok" THEN q.new ELSE cookie
    /\ Learn(q, q.new # None)
    /\ UNCHANGED <<server, history>>

\* The connection fails before or after the server has seen the request.
Lose(q) ==
    /\ net' = net \ {q}
    /\ excused' = IF q.kind = "refresh" /\ q.state = "ok" THEN excused \cup {q.token} ELSE excused
    /\ Learn(q, FALSE)
    /\ UNCHANGED <<server, cookie, replays, signedOut>>

Handle(q) == HandleLogin(q) \/ HandleRefresh(q) \/ HandleLogout(q)

CallStep(t, j) == CallEnds(t, j) \/ CallUnauthorized(t, j)

Next ==
    \/ \E t \in Tabs, j \in Jobs :
        Login(t, j) \/ Logout(t, j) \/ Check(t, j) \/ Call(t, j) \/ CallStep(t, j)
    \/ \E t \in Tabs : Reload(t)
    \/ \E q \in net : Handle(q) \/ Answer(q) \/ Lose(q)

Spec == Init /\ [][Next]_vars
-----------------------------------------------------------------------------
(***************************************************************************)
(* Properties                                                              *)
(***************************************************************************)
\* The server takes a token for replayed, and ends its session, only when two
\* pages had it under way at the same time or the answer to the first was
\* lost: the calls of one page share their refresh, whatever expires when.
ReplaysAreExcused == replays \subseteq excused

\* After a logout that reached the server, with nothing of another session
\* under way, the browser has no session until somebody signs in: a refresh
\* that was out may still bring a cookie back, but a dead one.
LogoutSticks == signedOut => cookie \notin valid

\* No job waits for an answer that is not on its way: whoever shares a refresh
\* is told of its end, however it ends, and a page that starts anew owes
\* nothing to its predecessor.
NoneWaitsInVain ==
    \A t \in Tabs, j \in Jobs :
        /\ AwaitsRefresh(job[t][j]) => Refreshing(t)
        /\ job[t][j] \in {LoggingIn, LoggingOut} =>
             \E q \in net : q.from = t /\ q.job = j /\ q.kind = job[t][j]
=============================================================================
