----------------------------- MODULE MCGateway -----------------------------
(***************************************************************************)
(* TLC instance of what stands before the handlers, and of the two stores  *)
(* only administrators change: the middleware stack, the ban list of one   *)
(* process, the accounts whose tokens pass the gate, tailored revisions    *)
(* and tracked boards.  They share no state, so a behaviour moves only the *)
(* one part names.                                                         *)
(***************************************************************************)
EXTENDS FailBan, Accounts, Revisions, TrackedBoards, Gate, TLC

CONSTANTS spa, other
VARIABLE part

others == <<failBanVars, accountsVars, revisionVars, boardVars>>
vars == <<others, gateVars, part>>

\* The paths about the cookie, one that resembles them, a protected one, two
\* public ones, and the one the guard lets pass.
MCQueries ==
    {Request(m, a, s) :
        m \in {"GET", "POST", "OPTIONS"}, s \in BOOLEAN,
        a \in {"auth/token", "auth/refresh", "auth/logout", "auth/register", "postings",
               "/cv", "/health"}}
    \cup {[Request("GET", "/cv/html", FALSE) EXCEPT !.tailored = TRUE]}

MCBearers ==
    {NoToken, Claims(First, Admin, 1), Claims(First, User, 1), Claims(First, Admin, 0)}

NoRequest ==
    /\ request = [query |-> Request("GET", "/cv", FALSE), bearer |-> NoToken,
                  origin |-> NoOrigin, cookie |-> FALSE, refused |-> FALSE]
    /\ at = 1
    /\ answer = NoAnswer

Init ==
    /\ part \in {"bans", "accounts", "revisions", "boards", "stack"}
    /\ FailBanInit /\ AccountsInit /\ RevisionsInit /\ TrackedBoardsInit
    /\ IF part = "stack" THEN GateInit ELSE NoRequest

Next ==
    /\ \/ /\ part = "bans" /\ FailBanNext
          /\ UNCHANGED <<accountsVars, revisionVars, boardVars, gateVars>>
       \/ /\ part = "accounts" /\ AccountsNext
          /\ UNCHANGED <<failBanVars, revisionVars, boardVars, gateVars>>
       \/ /\ part = "revisions" /\ RevisionsNext
          /\ UNCHANGED <<failBanVars, accountsVars, boardVars, gateVars>>
       \/ /\ part = "boards" /\ TrackedBoardsNext
          /\ UNCHANGED <<failBanVars, accountsVars, revisionVars, gateVars>>
       \/ /\ part = "stack" /\ GateNext
          /\ UNCHANGED others
    /\ UNCHANGED part

Spec == Init /\ [][Next]_vars

\* Editors are Requests.
Symmetry ==
    Permutations(Paths) \cup Permutations(Clients \ (Blocked \cup Exempt))
    \cup Permutations(Requests) \cup Permutations(Boards)
=============================================================================
