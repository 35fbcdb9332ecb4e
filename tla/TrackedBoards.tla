--------------------------- MODULE TrackedBoards ---------------------------
(***************************************************************************)
(* The registry of boards the scheduled refresh polls (tracked_board_*.py, *)
(* and /trigger of refresh_trigger.py, which reads it; BoardSync is one of *)
(* its boards).  A PATCH is one transaction that locks the row, and writes *)
(* the columns that differ from what it has read.                          *)
(***************************************************************************)
EXTENDS Naturals, FiniteSets

CONSTANTS
    Boards,         \* ids of the registry; bound on boards ever made
    Slugs,          \* company_slug
    Editors,        \* requests in progress at one time: PATCH and DELETE
    Null, NoEdit

VARIABLES
    boards,         \* the table: [kind, slug, url, active] by id
    edit,           \* edit[e]: a PATCH or DELETE that has read its row, or NoEdit
    madeIds,        \* ids given out
    meant,          \* history: the rows as the committed PATCHes say
    unslugged       \* history: boards whose slug a PATCH has set to null

boardVars == <<boards, edit, madeIds, meant, unslugged>>

Api == "api"        \* greenhouse, lever, ashby: a slug, never a url
UrlOnly == "url_only"
Kinds == {Api, UrlOnly}
Urls == {"page", Null}

\* A body of PATCH: fields that are set, to any value of their type, null as
\* well; kind is not among them.  Bound: one field, or slug and active.
Patches ==
    LET S == Slugs \cup {Null} IN
    [slug : S] \cup [url : Urls] \cup [active : BOOLEAN] \cup [slug : S, active : BOOLEAN]

TrackedBoardsInit ==
    /\ boards = [b \in {} |-> 0]
    /\ edit = [e \in Editors |-> NoEdit]
    /\ madeIds = {}
    /\ meant = [b \in {} |-> 0]
    /\ unslugged = {}

Tracked == DOMAIN boards
Patched(row, patch) == [f \in DOMAIN row |-> IF f \in DOMAIN patch THEN patch[f] ELSE row[f]]
WithBoard(table, b, row) == [x \in DOMAIN table \cup {b} |-> IF x = b THEN row ELSE table[x]]
WithoutBoard(table, b) == [x \in DOMAIN table \ {b} |-> table[x]]
-----------------------------------------------------------------------------
\* Mutant: the fields are not checked against the kind.
WellFormedAny(kind, slug, url) == kind \in Kinds

\* _validate_create_fields
WellFormed(kind, slug, url) ==
    \/ kind = Api /\ slug # Null /\ url = Null
    \/ kind = UrlOnly /\ slug = Null /\ url # Null

\* uq_tracked_boards_kind_slug; NULLs are distinct.
Clashes(b, kind, slug) ==
    \E x \in Tracked \ {b} : slug # Null /\ boards[x].kind = kind /\ boards[x].slug = slug

\* POST: a clash is a 500, and ids count up.
CreateBoard(b, kind, slug, url) ==
    LET row == [kind |-> kind, slug |-> slug, url |-> url, active |-> TRUE] IN
    /\ b \notin madeIds
    /\ WellFormed(kind, slug, url) /\ ~Clashes(b, kind, slug)
    /\ boards' = WithBoard(boards, b, row)
    /\ meant' = WithBoard(meant, b, row)
    /\ madeIds' = madeIds \cup {b}
    /\ UNCHANGED <<edit, unslugged>>

Locked(b) == \E e \in Editors : edit[e] # NoEdit /\ edit[e].op = "patch" /\ edit[e].board = b

StartEdit(e, op, b, patch) ==
    edit' = [edit EXCEPT ![e] = [op |-> op, board |-> b, patch |-> patch, read |-> boards[b]]]

\* Mutant: SELECT without FOR UPDATE.
PatchReadUnlocked(e, b, patch) ==
    /\ edit[e] = NoEdit /\ b \in Tracked
    /\ StartEdit(e, "patch", b, patch)
    /\ UNCHANGED <<boards, madeIds, meant, unslugged>>

\* SELECT ... FOR UPDATE waits for the lock; without a row it is a 404.
PatchRead(e, b, patch) ==
    /\ edit[e] = NoEdit /\ b \in Tracked /\ ~Locked(b)
    /\ StartEdit(e, "patch", b, patch)
    /\ UNCHANGED <<boards, madeIds, meant, unslugged>>

\* The flush sends the columns that changed.
Changed(patch, read) == [f \in {f \in DOMAIN patch : patch[f] # read[f]} |-> patch[f]]

PatchCommit(e) ==
    LET b == edit[e].board
        row == Patched(boards[b], Changed(edit[e].patch, edit[e].read))
    IN  /\ edit[e] # NoEdit /\ edit[e].op = "patch"
        /\ b \in Tracked /\ ~Clashes(b, row.kind, row.slug)
        /\ boards' = [boards EXCEPT ![b] = row]
        /\ meant' = [meant EXCEPT ![b] = Patched(@, edit[e].patch)]
        /\ unslugged' = unslugged \cup
             (IF "slug" \in DOMAIN edit[e].patch /\ edit[e].patch["slug"] = Null THEN {b} ELSE {})
        /\ edit' = [edit EXCEPT ![e] = NoEdit]
        /\ UNCHANGED madeIds

\* DELETE reads the row without a lock; its DELETE waits for a PATCH's.
DeleteRead(e, b) ==
    /\ edit[e] = NoEdit /\ b \in Tracked
    /\ StartEdit(e, "delete", b, Null)
    /\ UNCHANGED <<boards, madeIds, meant, unslugged>>

DeleteCommit(e) ==
    LET b == edit[e].board IN
    /\ edit[e] # NoEdit /\ edit[e].op = "delete" /\ ~Locked(b)
    /\ boards' = WithoutBoard(boards, b)
    /\ meant' = WithoutBoard(meant, b)
    /\ edit' = [edit EXCEPT ![e] = NoEdit]
    /\ UNCHANGED <<madeIds, unslugged>>

\* A clash, a database error, a lost process: rolled back, and a 404.
EditFails(e) ==
    /\ edit[e] # NoEdit
    /\ edit' = [edit EXCEPT ![e] = NoEdit]
    /\ UNCHANGED <<boards, madeIds, meant, unslugged>>

TrackedBoardsNext ==
    \/ \E b \in Boards, kind \in Kinds, slug \in Slugs \cup {Null}, url \in Urls :
        CreateBoard(b, kind, slug, url)
    \/ \E e \in Editors :
        \/ \E b \in Boards :
            \/ \E patch \in Patches : PatchRead(e, b, patch)
            \/ DeleteRead(e, b)
        \/ PatchCommit(e) \/ DeleteCommit(e) \/ EditFails(e)

TrackedBoardsSpec == TrackedBoardsInit /\ [][TrackedBoardsNext]_boardVars
-----------------------------------------------------------------------------
\* What /trigger polls.
Polled ==
    {<<boards[b].kind, boards[b].slug>> :
        b \in {b \in Tracked : boards[b].active /\ boards[b].kind = Api /\ boards[b].slug # Null}}
-----------------------------------------------------------------------------
(***************************************************************************)
(* Properties                                                              *)
(***************************************************************************)
\* Every field of every board has the value the last PATCH that was committed
\* gave it: a PATCH that changes nothing it can see still counts, and one that
\* leaves a field out does not undo another's.
PatchesLand == boards = meant

\* An active API-backed board that no refresh polls had its slug taken away by
\* a PATCH: the rule that such boards have one is checked on creation only.
UnpolledWerePatched ==
    \A b \in Tracked :
        boards[b].active /\ boards[b].kind = Api /\ <<Api, boards[b].slug>> \notin Polled
            => b \in unslugged
=============================================================================
