----------------------------- MODULE Documents -----------------------------
(***************************************************************************)
(* One operator document (services/portfolio/documents): one tenant, one   *)
(* kind.  It is the database row if there is one, else the shipped file;   *)
(* PUT writes the row, DELETE drops it, and every instance that boots      *)
(* seeds it from the file when it finds none.  The version that counts a   *)
(* row's writes is left out.                                               *)
(***************************************************************************)
CONSTANTS
    Payloads,   \* documents that pass validation
    Shipped,    \* the payload of the JSON file
    Instances,  \* instances that boot while another one serves requests
    None        \* no row / no payload

ASSUME DocumentsAssumption == Shipped \in Payloads /\ None \notin Payloads

VARIABLES
    row,    \* documents.payload, None when there is no row
    boot    \* boot[n]: where instance n is in seed_from_files

documentVars == <<row, boot>>

DocumentsTypeOK ==
    /\ row \in Payloads \cup {None}
    /\ boot \in [Instances -> {"check", "seed", "up"}]

DocumentsInit ==
    /\ row = None
    /\ boot = [n \in Instances |-> "check"]

-----------------------------------------------------------------------------
\* DocumentService.read with its file: a failed SELECT counts as no row.
Read == {IF row = None THEN Shipped ELSE row, Shipped}

\* PUT /api/v1/documents/{kind}: one upsert, whatever was there.
Put(p) ==
    /\ row' = p
    /\ UNCHANGED boot

\* DELETE: reads fall back to the file.
Revert ==
    /\ row # None
    /\ row' = None
    /\ UNCHANGED boot

\* An instance restarts.
Boot(n) ==
    /\ boot[n] = "up"
    /\ boot' = [boot EXCEPT ![n] = "check"]
    /\ UNCHANGED row

\* seed_from_files: a row, an unreadable file and a failed read end it.
SeedCheck(n) ==
    /\ boot[n] = "check"
    /\ \E next \in IF row = None THEN {"seed", "up"} ELSE {"up"} :
         boot' = [boot EXCEPT ![n] = next]
    /\ UNCHANGED row

\* The write is the same upsert that PUT uses; it may fail.
SeedWrite(n) ==
    /\ boot[n] = "seed"
    /\ row' \in {Shipped, row}
    /\ boot' = [boot EXCEPT ![n] = "up"]

DocumentsNext ==
    \/ \E p \in Payloads : Put(p)
    \/ Revert
    \/ \E n \in Instances : Boot(n) \/ SeedCheck(n) \/ SeedWrite(n)

-----------------------------------------------------------------------------
\* seed_from_files' docstring and main.py: seeding never overwrites a row.
SeedKeepsEdits ==
    [][\A n \in Instances :
          boot[n] = "seed" /\ boot'[n] # "seed" /\ row # None => row' = row]_documentVars
=============================================================================
