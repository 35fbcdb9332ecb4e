------------------------ MODULE RefreshTokensProofs ------------------------
(***************************************************************************)
(* Theorems about RefreshTokens, for any sets of users, tokens and         *)
(* concurrent requests.  They rest on one inductive invariant, Inv: how    *)
(* the two tables relate (IndexInv), what a request in flight holds        *)
(* (RequestInv), why a spent token never becomes current again (SpentInv)  *)
(* and what a finished disable leaves behind (BarredInv).                  *)
(***************************************************************************)
EXTENDS RefreshTokens, TLAPS

\* Every indexed token leads to a family, and a family's current token is
\* one of its own.
IndexInv ==
    /\ \A t \in Tokens : index[t] # None => index[t] \in Families
    /\ \A f \in Families : /\ current[f] \in Tokens
                           /\ index[current[f]] = f
                           /\ subject[f] \in Users
    /\ revoked \subseteq Families
    /\ \A t \in known : index[t] # None

\* What request r holds at each point of its handler.
RequestInv ==
    \A r \in Requests :
        /\ pc[r] \in {"create", "disable"} => usr[r] \in Users
        /\ pc[r] \in {"rotate", "replay", "check", "logout"} => tok[r] \in known
        /\ IF pc[r] \in {"check", "respond"}
           THEN new[r] \in Tokens /\ index[new[r]] # None
           ELSE new[r] = None

\* A token that was traded, or whose refresh was answered, is current no
\* more or its family is revoked; a second answer finds it revoked.
SpentInv ==
    \A t \in Tokens :
        /\ successors[t] # {} => index[t] # None /\ current[index[t]] # t
        /\ returned[t] > 0 =>
              index[t] # None /\ (index[t] \in revoked \/ current[index[t]] # t)

BarredInv == \A u \in barred : ~active[u]

\* What is said of the tables and the histories only, not of the requests.
StateInv ==
    /\ SpentInv /\ BarredInv
    /\ OneRefreshPerToken /\ ReuseRevokes /\ BarredSessionsCut

Inv == TypeOK /\ IndexInv /\ RequestInv /\ StateInv

-----------------------------------------------------------------------------
LEMMA InitInv == Init => Inv
BY NoneAssumption
   DEF Init, Inv, StateInv, TypeOK, PC, IndexInv, RequestInv, SpentInv, BarredInv,
       OneRefreshPerToken, ReuseRevokes, BarredSessionsCut, Families

\* Every action preserves the types.
LEMMA TypeStep == TypeOK /\ RequestInv /\ IndexInv /\ [Next]_vars => TypeOK'
<1> SUFFICES ASSUME TypeOK, RequestInv, IndexInv, [Next]_vars PROVE TypeOK'
  OBVIOUS
<1> USE NoneAssumption DEF TypeOK, PC, dbVars, reqVars, history, Goto, Finish
<1>1. ASSUME NEW r \in Requests, Login(r) PROVE TypeOK'
  BY <1>1 DEF Login, LoginAuthenticate, LoginCreateFamily, Fresh, RequestInv
<1>2. ASSUME NEW r \in Requests, Refresh(r) PROVE TypeOK'
  <2>1. ASSUME NEW t \in Tokens, RefreshLookup(r, t) PROVE TypeOK'
    BY <2>1 DEF RefreshLookup, CountReturn
  <2>2. CASE RefreshRotate(r)
    BY <2>2 DEF RefreshRotate, CanRotate, CountReturn, Fresh, FamilyOf, RequestInv, IndexInv, Families
  <2>3. CASE RefreshLost(r)
    BY <2>3 DEF RefreshLost
  <2>4. CASE RefreshReplay(r)
    BY <2>4 DEF RefreshReplay, RevokeFamily, CountReturn, FamilyOf, RequestInv, IndexInv, Families
  <2>5. CASE RefreshCheckUser(r)
    BY <2>5 DEF RefreshCheckUser
  <2>. QED  BY <1>2, <2>1, <2>2, <2>3, <2>4, <2>5 DEF Refresh
<1>3. ASSUME NEW r \in Requests, Respond(r) PROVE TypeOK'
  BY <1>3 DEF Respond, RequestInv
<1>4. ASSUME NEW r \in Requests, Logout(r) PROVE TypeOK'
  BY <1>4 DEF Logout, LogoutLookup, LogoutRevoke, RevokeFamily, FamilyOf, RequestInv, IndexInv, Families
<1>5. ASSUME NEW r \in Requests, DisableUser(r) PROVE TypeOK'
  <2>1. ASSUME NEW u \in Users, Disable(r, u) PROVE TypeOK'
    BY <2>1 DEF Disable
  <2>2. CASE DisableRevokeAll(r)
    BY <2>2 DEF DisableRevokeAll, Families, RequestInv
  <2>. QED  BY <1>5, <2>1, <2>2 DEF DisableUser
<1>6. ASSUME NEW r \in Requests, Abort(r) PROVE TypeOK'
  BY <1>6 DEF Abort
<1>7. ASSUME NEW u \in Users, Enable(u) PROVE TypeOK'
  BY <1>7 DEF Enable
<1>8. CASE UNCHANGED vars
  BY <1>8 DEF vars
<1>. QED  BY <1>1, <1>2, <1>3, <1>4, <1>5, <1>6, <1>7, <1>8 DEF Next

\* Steps of a handler that touch neither keep StateInv.
LEMMA Frame == StateInv /\ UNCHANGED <<dbVars, history>> => StateInv'
BY DEF StateInv, SpentInv, BarredInv, OneRefreshPerToken, ReuseRevokes,
       BarredSessionsCut, Families, dbVars, history

LEMMA LoginStep ==
    ASSUME Inv, TypeOK', NEW r \in Requests, Login(r) PROVE Inv'
<1> USE NoneAssumption
<1>1. ASSUME NEW u \in Users, LoginAuthenticate(r, u) PROVE Inv'
  <2>1. IndexInv' /\ RequestInv'
    BY <1>1 DEF LoginAuthenticate, Inv, TypeOK, IndexInv, RequestInv, Families, dbVars, Goto
  <2>2. StateInv'
    BY <1>1, Frame DEF LoginAuthenticate, Inv, dbVars, history
  <2>. QED  BY <2>1, <2>2 DEF Inv
<1>2. CASE LoginCreateFamily(r)
  <2> USE <1>2 DEF LoginCreateFamily, Inv, StateInv, Goto
  <2>1. PICK f \in Fresh :
          /\ index' = [index EXCEPT ![f] = f]
          /\ subject' = [subject EXCEPT ![f] = usr[r]]
          /\ current' = [current EXCEPT ![f] = f]
          /\ new' = [new EXCEPT ![r] = f]
          /\ late' = IF active[usr[r]] THEN late ELSE late \cup {f}
    OBVIOUS
  <2>2. f \in Tokens /\ index[f] = None /\ usr[r] \in Users
    BY DEF Fresh, RequestInv
  <2>3. Families' = Families \cup {f}
    BY <2>1, <2>2 DEF Families, TypeOK
  <2>4. IndexInv'
    BY <2>1, <2>2, <2>3 DEF IndexInv, TypeOK, Families
  <2>5. RequestInv'
    BY <2>1, <2>2 DEF RequestInv, TypeOK
  <2>6. SpentInv' /\ OneRefreshPerToken' /\ ReuseRevokes'
    BY <2>1, <2>2 DEF SpentInv, OneRefreshPerToken, ReuseRevokes, TypeOK, IndexInv, Families
  <2>7. BarredInv' /\ BarredSessionsCut'
    BY <2>1, <2>2, <2>3 DEF BarredInv, BarredSessionsCut, TypeOK, Families
  <2>. QED  BY <2>4, <2>5, <2>6, <2>7
<1>. QED  BY <1>1, <1>2 DEF Login

LEMMA RefreshStep ==
    ASSUME Inv, TypeOK', NEW r \in Requests, Refresh(r) PROVE Inv'
<1> USE NoneAssumption
<1>1. ASSUME NEW t \in Tokens, RefreshLookup(r, t) PROVE Inv'
  <2> USE <1>1 DEF RefreshLookup, Inv, StateInv, Goto, dbVars
  <2>1. IndexInv' /\ BarredInv' /\ BarredSessionsCut' /\ OneRefreshPerToken'
    BY DEF IndexInv, BarredInv, BarredSessionsCut, OneRefreshPerToken, Families
  <2>2. RequestInv'
    BY DEF RequestInv, TypeOK
  <2>3. SpentInv' /\ ReuseRevokes'
    <3>1. CASE Live(index[t])
      BY <3>1 DEF SpentInv, ReuseRevokes
    <3>2. CASE ~Live(index[t])
      <4>1. index[t] \in revoked
        BY <3>2 DEF Live, IndexInv, Families
      <4>. QED
        BY <3>2, <4>1 DEF SpentInv, ReuseRevokes, CountReturn, TypeOK, IndexInv, Families
    <3>. QED  BY <3>1, <3>2
  <2>. QED  BY <2>1, <2>2, <2>3
<1>2. CASE RefreshRotate(r)
  <2> USE <1>2 DEF RefreshRotate, Inv, StateInv, Goto, CanRotate, FamilyOf
  <2> DEFINE p == tok[r]
             f == index[p]
  <2>1. PICK n \in Fresh :
          /\ current' = [current EXCEPT ![f] = n]
          /\ index' = [index EXCEPT ![n] = f]
          /\ new' = [new EXCEPT ![r] = n]
          /\ successors' = [successors EXCEPT ![p] = @ \cup {n}]
    OBVIOUS
  <2>2. /\ n \in Tokens /\ index[n] = None
        /\ p \in Tokens /\ f \in Families /\ f \in Tokens /\ n # p /\ n # f
    BY DEF Fresh, RequestInv, IndexInv, TypeOK, Families
  <2>3. Families' = Families
    BY <2>1, <2>2 DEF Families, TypeOK
  <2>4. IndexInv'
    <3>1. \A t \in Tokens : index'[t] # None => index'[t] \in Families
      BY <2>1, <2>2 DEF IndexInv, TypeOK
    <3>2. \A g \in Families : /\ current'[g] \in Tokens
                              /\ index'[current'[g]] = g
                              /\ subject'[g] \in Users
      BY <2>1, <2>2 DEF IndexInv, TypeOK, Families
    <3>3. revoked' \subseteq Families /\ \A t \in known' : index'[t] # None
      BY <2>1, <2>2 DEF IndexInv, TypeOK
    <3>. QED  BY <2>3, <3>1, <3>2, <3>3 DEF IndexInv
  <2>5. RequestInv'
    BY <2>1, <2>2 DEF RequestInv, TypeOK
  <2>6. successors[p] = {} /\ returned[p] = 0
    BY <2>2 DEF SpentInv, TypeOK
  <2>7. OneRefreshPerToken' /\ ReuseRevokes'
    BY <2>1, <2>2, <2>6 DEF OneRefreshPerToken, ReuseRevokes, CountReturn, TypeOK, SpentInv
  <2>8. SpentInv'
    BY <2>1, <2>2, <2>6 DEF SpentInv, CountReturn, TypeOK, IndexInv
  <2>9. BarredInv' /\ BarredSessionsCut'
    BY <2>3 DEF BarredInv, BarredSessionsCut
  <2>. QED  BY <2>4, <2>5, <2>7, <2>8, <2>9
<1>3. CASE RefreshLost(r)
  <2>1. IndexInv' /\ RequestInv'
    BY <1>3 DEF RefreshLost, Inv, TypeOK, IndexInv, RequestInv, Families, dbVars, Goto
  <2>2. StateInv'
    BY <1>3, Frame DEF RefreshLost, Inv, dbVars, history
  <2>. QED  BY <2>1, <2>2 DEF Inv
<1>4. CASE RefreshReplay(r)
  <2> USE <1>4 DEF RefreshReplay, RevokeFamily, Inv, StateInv, FamilyOf
  <2>1. tok[r] \in Tokens /\ index[tok[r]] \in Families
    BY DEF RequestInv, IndexInv, TypeOK
  <2>2. IndexInv' /\ BarredInv' /\ BarredSessionsCut' /\ OneRefreshPerToken'
    BY <2>1 DEF IndexInv, BarredInv, BarredSessionsCut, OneRefreshPerToken, Families
  <2>3. RequestInv'
    BY DEF RequestInv, TypeOK, Finish
  <2>4. SpentInv' /\ ReuseRevokes'
    BY <2>1 DEF SpentInv, ReuseRevokes, CountReturn, TypeOK, Families
  <2>. QED  BY <2>2, <2>3, <2>4
<1>5. CASE RefreshCheckUser(r)
  <2>1. IndexInv' /\ RequestInv'
    BY <1>5 DEF RefreshCheckUser, Inv, TypeOK, IndexInv, RequestInv, Families, dbVars, Goto, Finish
  <2>2. StateInv'
    BY <1>5, Frame DEF RefreshCheckUser, Inv, dbVars, history
  <2>. QED  BY <2>1, <2>2 DEF Inv
<1>. QED  BY <1>1, <1>2, <1>3, <1>4, <1>5 DEF Refresh

LEMMA RespondStep ==
    ASSUME Inv, NEW r \in Requests, Respond(r) PROVE IndexInv' /\ RequestInv' /\ StateInv'
<1>1. IndexInv' /\ RequestInv'
  BY DEF Respond, Inv, TypeOK, IndexInv, RequestInv, Families, dbVars, Finish
<1>2. StateInv'
  BY Frame DEF Respond, Inv, dbVars, history
<1>. QED  BY <1>1, <1>2

LEMMA AbortStep ==
    ASSUME Inv, NEW r \in Requests, Abort(r) PROVE IndexInv' /\ RequestInv' /\ StateInv'
<1>1. IndexInv' /\ RequestInv'
  BY DEF Abort, Inv, TypeOK, IndexInv, RequestInv, Families, dbVars, Finish
<1>2. StateInv'
  BY Frame DEF Abort, Inv, dbVars, history
<1>. QED  BY <1>1, <1>2

LEMMA LogoutStep ==
    ASSUME Inv, NEW r \in Requests, Logout(r) PROVE IndexInv' /\ RequestInv' /\ StateInv'
<1>1. ASSUME NEW t \in Tokens, LogoutLookup(r, t)
      PROVE  IndexInv' /\ RequestInv' /\ StateInv'
  <2>1. IndexInv' /\ RequestInv'
    BY <1>1 DEF LogoutLookup, Inv, TypeOK, IndexInv, RequestInv, Families, dbVars, Goto
  <2>2. StateInv'
    BY <1>1, Frame DEF LogoutLookup, Inv, dbVars, history
  <2>. QED  BY <2>1, <2>2
<1>2. CASE LogoutRevoke(r)
  <2> USE <1>2 DEF LogoutRevoke, RevokeFamily, Inv, FamilyOf
  <2>1. tok[r] \in Tokens /\ index[tok[r]] \in Families
    BY DEF RequestInv, IndexInv, TypeOK
  <2>2. IndexInv' /\ RequestInv'
    BY <2>1 DEF IndexInv, RequestInv, TypeOK, Families, Finish
  <2>3. StateInv'
    BY <2>1 DEF StateInv, SpentInv, BarredInv, OneRefreshPerToken, ReuseRevokes,
                BarredSessionsCut, Families, history
  <2>. QED  BY <2>2, <2>3
<1>. QED  BY <1>1, <1>2 DEF Logout

LEMMA DisableStep ==
    ASSUME Inv, NEW r \in Requests, DisableUser(r) PROVE IndexInv' /\ RequestInv' /\ StateInv'
<1>1. ASSUME NEW u \in Users, Disable(r, u)
      PROVE  IndexInv' /\ RequestInv' /\ StateInv'
  <2>1. IndexInv' /\ RequestInv'
    BY <1>1, NoneAssumption
       DEF Disable, Inv, TypeOK, IndexInv, RequestInv, Families, Goto
  <2>2. StateInv'
    BY <1>1 DEF Disable, Inv, StateInv, SpentInv, BarredInv, OneRefreshPerToken,
                ReuseRevokes, BarredSessionsCut, Families, history, TypeOK
  <2>. QED  BY <2>1, <2>2
<1>2. CASE DisableRevokeAll(r)
  <2> USE <1>2 DEF DisableRevokeAll, Inv
  <2>1. usr[r] \in Users
    BY DEF RequestInv
  <2>2. IndexInv' /\ RequestInv'
    BY DEF IndexInv, RequestInv, TypeOK, Families, Finish
  <2>3. SpentInv' /\ OneRefreshPerToken' /\ ReuseRevokes'
    BY DEF StateInv, SpentInv, OneRefreshPerToken, ReuseRevokes, Families
  <2>4. BarredInv' /\ BarredSessionsCut'
    BY <2>1 DEF StateInv, BarredInv, BarredSessionsCut, Families
  <2>. QED  BY <2>2, <2>3, <2>4 DEF StateInv
<1>. QED  BY <1>1, <1>2 DEF DisableUser

LEMMA EnableStep ==
    ASSUME Inv, NEW u \in Users, Enable(u) PROVE IndexInv' /\ RequestInv' /\ StateInv'
<1>1. IndexInv' /\ RequestInv'
  BY DEF Enable, Inv, IndexInv, RequestInv, Families, reqVars
<1>2. StateInv'
  BY DEF Enable, Inv, StateInv, SpentInv, BarredInv, OneRefreshPerToken,
         ReuseRevokes, BarredSessionsCut, Families, TypeOK
<1>. QED  BY <1>1, <1>2

LEMMA NextInv == Inv /\ [Next]_vars => Inv'
<1> SUFFICES ASSUME Inv, [Next]_vars PROVE Inv'
  OBVIOUS
<1>1. TypeOK'
  BY TypeStep DEF Inv
<1>2. ASSUME NEW r \in Requests, Login(r) \/ Refresh(r) PROVE Inv'
  BY <1>1, <1>2, LoginStep, RefreshStep
<1>3. ASSUME NEW r \in Requests, Respond(r) \/ Logout(r) \/ DisableUser(r) \/ Abort(r)
      PROVE  Inv'
  <2>1. IndexInv' /\ RequestInv' /\ StateInv'
    BY <1>3, RespondStep, LogoutStep, DisableStep, AbortStep
  <2>. QED  BY <1>1, <2>1 DEF Inv
<1>4. ASSUME NEW u \in Users, Enable(u) PROVE Inv'
  <2>1. IndexInv' /\ RequestInv' /\ StateInv'
    BY <1>4, EnableStep
  <2>. QED  BY <1>1, <2>1 DEF Inv
<1>5. CASE UNCHANGED vars
  <2>1. IndexInv' /\ RequestInv'
    BY <1>5 DEF vars, Inv, IndexInv, RequestInv, Families, dbVars, reqVars
  <2>2. StateInv'
    BY <1>5, Frame DEF vars, Inv, dbVars, history
  <2>. QED  BY <1>1, <2>1, <2>2 DEF Inv
<1>. QED  BY <1>2, <1>3, <1>4, <1>5 DEF Next

THEOREM Invariance == Spec => []Inv
BY InitInv, NextInv, PTL DEF Spec

-----------------------------------------------------------------------------
\* The tables, the requests and the histories keep their types.
THEOREM TypeCorrect == Spec => []TypeOK
<1>1. Inv => TypeOK  BY DEF Inv
<1>. QED  BY <1>1, Invariance, PTL

\* However many refreshes race, a token is traded for at most one successor.
THEOREM TokenIsTradedOnce == Spec => []OneRefreshPerToken
<1>1. Inv => OneRefreshPerToken  BY DEF Inv, StateInv
<1>. QED  BY <1>1, Invariance, PTL

\* Two answered refreshes with one token leave its family revoked.
THEOREM ReuseIsDetected == Spec => []ReuseRevokes
<1>1. Inv => ReuseRevokes  BY DEF Inv, StateInv
<1>. QED  BY <1>1, Invariance, PTL

\* A finished disable leaves only the families of logins it overtook.
THEOREM DisableCuts == Spec => []BarredSessionsCut
<1>1. Inv => BarredSessionsCut  BY DEF Inv, StateInv
<1>. QED  BY <1>1, Invariance, PTL

-----------------------------------------------------------------------------
\* Only a login and a rotation move a current_hash, neither of a revoked family.
LEMMA RevokedStep ==
    ASSUME Inv, [Next]_vars, NEW f \in revoked
    PROVE  f \in revoked' /\ current'[f] = current[f]
<1> USE DEF Inv, TypeOK, dbVars, reqVars
<1>0. f \in Tokens /\ index[f] = f /\ f # None
  BY NoneAssumption DEF IndexInv, Families
<1>1. ASSUME NEW r \in Requests, Login(r) PROVE f \in revoked' /\ current'[f] = current[f]
  BY <1>0, <1>1 DEF Login, LoginAuthenticate, LoginCreateFamily, Fresh
<1>2. ASSUME NEW r \in Requests, Refresh(r) PROVE f \in revoked' /\ current'[f] = current[f]
  BY <1>0, <1>2 DEF Refresh, RefreshLookup, RefreshRotate, CanRotate, RefreshLost,
                    RefreshReplay, RevokeFamily, RefreshCheckUser
<1>3. ASSUME NEW r \in Requests, Respond(r) \/ Logout(r) \/ DisableUser(r) \/ Abort(r)
      PROVE  f \in revoked' /\ current'[f] = current[f]
  BY <1>3 DEF Respond, Logout, LogoutLookup, LogoutRevoke, RevokeFamily,
              DisableUser, Disable, DisableRevokeAll, Abort
<1>4. ASSUME NEW u \in Users, Enable(u) PROVE f \in revoked' /\ current'[f] = current[f]
  BY <1>4 DEF Enable
<1>5. CASE UNCHANGED vars
  BY <1>5 DEF vars
<1>. QED  BY <1>1, <1>2, <1>3, <1>4, <1>5 DEF Next

\* Revocation is final, whatever was in flight when it came.
THEOREM RevocationIsFinal == Spec => RevokedIsFinal
<1>1. Inv /\ [Next]_vars =>
        [\A f \in revoked : f \in revoked' /\ current'[f] = current[f]]_vars
  BY RevokedStep
<1>. QED  BY <1>1, Invariance, PTL DEF Spec, RevokedIsFinal

\* To rotate an orphan a request would have to present its current token,
\* and presented tokens are known ones.
LEMMA OrphanStep ==
    ASSUME Inv, [Next]_vars, NEW f \in Tokens, Orphaned(f)
    PROVE  Orphaned(f)'
<1> USE NoneAssumption DEF Inv, TypeOK, dbVars, reqVars, Goto, Finish
<1>0. /\ f \in Families /\ index[f] = f /\ current[f] \in Tokens
      /\ index[current[f]] = f /\ current[f] \notin known
      /\ \A r \in Requests : new[r] # current[f]
  BY DEF Orphaned, IndexInv, Families
<1>1. ASSUME NEW r \in Requests, Login(r) PROVE Orphaned(f)'
  <2>1. ASSUME NEW u \in Users, LoginAuthenticate(r, u) PROVE Orphaned(f)'
    BY <1>0, <2>1 DEF LoginAuthenticate, Orphaned, Families
  <2>2. CASE LoginCreateFamily(r)
    BY <1>0, <2>2 DEF LoginCreateFamily, Fresh, Orphaned, Families
  <2>. QED  BY <1>1, <2>1, <2>2 DEF Login
<1>2. ASSUME NEW r \in Requests, Refresh(r) PROVE Orphaned(f)'
  <2>1. ASSUME NEW t \in Tokens, RefreshLookup(r, t) PROVE Orphaned(f)'
    BY <1>0, <2>1 DEF RefreshLookup, Orphaned, Families
  <2>2. CASE RefreshRotate(r)
    <3>1. tok[r] \in known /\ current[index[tok[r]]] = tok[r]
      BY <2>2 DEF RefreshRotate, CanRotate, FamilyOf, RequestInv
    <3>2. index[tok[r]] # f
      BY <1>0, <3>1
    <3>. QED  BY <1>0, <2>2, <3>2 DEF RefreshRotate, FamilyOf, Fresh, Orphaned, Families
  <2>3. CASE RefreshLost(r) \/ RefreshReplay(r) \/ RefreshCheckUser(r)
    BY <1>0, <2>3 DEF RefreshLost, RefreshReplay, RevokeFamily, RefreshCheckUser,
                      Orphaned, Families
  <2>. QED  BY <1>2, <2>1, <2>2, <2>3 DEF Refresh
<1>3. ASSUME NEW r \in Requests, Respond(r) \/ Abort(r) PROVE Orphaned(f)'
  BY <1>0, <1>3 DEF Respond, Abort, Orphaned, Families
<1>4. ASSUME NEW r \in Requests, Logout(r) \/ DisableUser(r) PROVE Orphaned(f)'
  BY <1>0, <1>4 DEF Logout, LogoutLookup, LogoutRevoke, RevokeFamily,
                    DisableUser, Disable, DisableRevokeAll, Orphaned, Families
<1>5. ASSUME NEW u \in Users, Enable(u) PROVE Orphaned(f)'
  BY <1>0, <1>5 DEF Enable, Orphaned, Families
<1>6. CASE UNCHANGED vars
  BY <1>0, <1>6 DEF vars, Orphaned, Families
<1>. QED  BY <1>1, <1>2, <1>3, <1>4, <1>5, <1>6 DEF Next

\* A lineage whose newest token was lost cannot be refreshed ever again.
THEOREM LostTokenIsFinal == Spec => OrphanStaysOrphan
<1>1. Inv /\ [Next]_vars => [\A f \in Tokens : Orphaned(f) => Orphaned(f)']_vars
  BY OrphanStep
<1>. QED  BY <1>1, Invariance, PTL DEF Spec, OrphanStaysOrphan

-----------------------------------------------------------------------------
\* Each transaction is a step of TokenLineage or leaves it alone.
LEMMA LineageStutter ==
    UNCHANGED <<index, current, revoked>> => UNCHANGED Lineage!vars
BY DEF Lineage!vars, Valid, Live, Families

LEMMA LineageRevoke ==
    ASSUME Inv, NEW F \in SUBSET Families, revoked' = revoked \cup F,
           UNCHANGED <<index, current>>
    PROVE  Lineage!Next
<1>1. Lineage!Revoke(F)
  BY DEF Lineage!Revoke, Valid, Live, Families, Inv, IndexInv
<1>2. F \in SUBSET Tokens
  BY DEF Families
<1>. QED  BY <1>1, <1>2 DEF Lineage!Next

LEMMA LineageStep == Inv /\ [Next]_vars => [Lineage!Next]_(Lineage!vars)
<1> SUFFICES ASSUME Inv, [Next]_vars, ~UNCHANGED Lineage!vars PROVE Lineage!Next
  OBVIOUS
<1> USE NoneAssumption DEF Inv, dbVars, reqVars
<1>1. ASSUME NEW r \in Requests, LoginCreateFamily(r) PROVE Lineage!Next
  <2>1. PICK f \in Fresh : /\ index' = [index EXCEPT ![f] = f]
                           /\ current' = [current EXCEPT ![f] = f]
    BY <1>1 DEF LoginCreateFamily
  <2>2. f \in Tokens /\ index[f] = None /\ f \notin revoked /\ revoked' = revoked
    BY <1>1 DEF Fresh, LoginCreateFamily, IndexInv, Families
  <2>3. Valid' = Valid \cup {f}
    BY <2>1, <2>2 DEF Valid, Live, Families, TypeOK, IndexInv
  <2>. QED  BY <2>1, <2>2, <2>3 DEF Lineage!Next, Lineage!Issue
<1>2. ASSUME NEW r \in Requests, RefreshRotate(r) PROVE Lineage!Next
  <2> DEFINE p == tok[r]
             f == index[p]
  <2>1. PICK n \in Fresh : /\ current' = [current EXCEPT ![f] = n]
                           /\ index' = [index EXCEPT ![n] = f]
    BY <1>2 DEF RefreshRotate, FamilyOf
  <2>2. /\ n \in Tokens /\ index[n] = None /\ revoked' = revoked
        /\ p \in Tokens /\ f \in Families /\ f \in Tokens /\ n # p /\ n # f
        /\ f \notin revoked /\ current[f] = p
    BY <1>2 DEF RefreshRotate, CanRotate, FamilyOf, Fresh, RequestInv, IndexInv, TypeOK, Families
  <2>3. p \in Valid
    BY <2>2 DEF Valid, Live
  <2>4. Valid' = (Valid \ {p}) \cup {n}
    <3>1. Families' = Families
      BY <2>1, <2>2 DEF Families, TypeOK
    <3>2. ASSUME NEW t \in Tokens PROVE t \in Valid' <=> t \in (Valid \ {p}) \cup {n}
      BY <2>1, <2>2, <3>1 DEF Valid, Live, TypeOK, IndexInv
    <3>. QED  BY <2>2, <3>2 DEF Valid
  <2>. QED  BY <2>1, <2>2, <2>3, <2>4 DEF Lineage!Next, Lineage!Redeem
<1>3. ASSUME NEW r \in Requests, RefreshReplay(r) \/ LogoutRevoke(r) PROVE Lineage!Next
  <2>1. FamilyOf(r) \in Families
    BY <1>3 DEF RefreshReplay, LogoutRevoke, FamilyOf, RequestInv, IndexInv, TypeOK
  <2>. QED
    BY <1>3, <2>1, LineageRevoke DEF RefreshReplay, LogoutRevoke, RevokeFamily
<1>4. ASSUME NEW r \in Requests, DisableRevokeAll(r) PROVE Lineage!Next
  BY <1>4, LineageRevoke DEF DisableRevokeAll
<1>5. ASSUME UNCHANGED <<index, current, revoked>> PROVE Lineage!Next
  BY <1>5, LineageStutter
<1>. QED
  <2>1. ASSUME NEW r \in Requests, Login(r) \/ Refresh(r) \/ Respond(r)
        PROVE  Lineage!Next
    BY <2>1, <1>1, <1>2, <1>3, <1>5
       DEF Login, LoginAuthenticate, Refresh, RefreshLookup, RefreshLost,
           RefreshCheckUser, Respond
  <2>2. ASSUME NEW r \in Requests, Logout(r) \/ DisableUser(r) \/ Abort(r)
        PROVE  Lineage!Next
    BY <2>2, <1>3, <1>4, <1>5 DEF Logout, LogoutLookup, DisableUser, Disable, Abort
  <2>3. ASSUME NEW u \in Users, Enable(u) PROVE Lineage!Next
    BY <2>3, <1>5 DEF Enable
  <2>4. CASE UNCHANGED vars
    BY <2>4, <1>5 DEF vars
  <2>. QED  BY <2>1, <2>2, <2>3, <2>4 DEF Next

\* The handlers implement the promise TokenLineage makes.
THEOREM Refinement == Spec => ImplementsLineage
<1>1. Init => Lineage!Init
  BY NoneAssumption DEF Init, Lineage!Init, Valid, Live, Families
<1>. QED  BY <1>1, LineageStep, Invariance, PTL DEF Spec, ImplementsLineage, Lineage!Spec
=============================================================================
