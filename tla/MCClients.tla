----------------------------- MODULE MCClients -----------------------------
(***************************************************************************)
(* TLC instance of the two clients that send a request again: the tabs of  *)
(* a browser (BrowserTabs), and who pastes postings under a key            *)
(* (PostingIntake).  They share no table, so a behaviour moves only the    *)
(* one that client names; a tab's name also names a text.                  *)
(***************************************************************************)
EXTENDS BrowserTabs, PostingIntake, TLC

VARIABLE client

MCInit == client \in {"browser", "paster"} /\ Init /\ IntakeInit

MCNext ==
    /\ \/ client = "browser" /\ Next /\ UNCHANGED intakeVars
       \/ client = "paster" /\ IntakeNext /\ UNCHANGED vars
    /\ UNCHANGED client

MCSpec == MCInit /\ [][MCNext]_<<vars, intakeVars, client>>

Symmetry == Permutations(Tabs) \cup Permutations(Jobs)
=============================================================================
