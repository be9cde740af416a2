----------------------------- MODULE FolderTree -----------------------------
(***************************************************************************)
(* The folders of one tenant in file-service.  The tree is stored twice:   *)
(* parent_id links a folder to its parent, path spells out the names from  *)
(* the root down to it.  Some operations go by the links, others by the    *)
(* paths, each issues several queries with an await in between, and there  *)
(* is no transaction around them.                                          *)
(*                                                                         *)
(* A path is the sequence of its names.  Among plain names LIKE 'p/%' is   *)
(* "strictly below p" and String.replace exchanges the front of a path.    *)
(* Nothing keeps a name from containing '/', a wildcard of LIKE or a '$',  *)
(* though, and nothing escapes it: a path with such a name is Odd, which   *)
(* stands for any path, so that what a query or a replacement makes of it  *)
(* is left open.                                                           *)
(***************************************************************************)
EXTENDS Naturals, FiniteSets, SequencesExt

CONSTANTS
    Ids,        \* the ids that will be given to folders
    Names,
    Plain,      \* those of them without '/', '_', '%', '\' and '$'
    Odd,        \* the path with another name in it
    Root,       \* the value NULL of parent_id
    Omitted,    \* the value undefined: newParentId left out of the request
    Requests,   \* the requests that may be processed at the same time
    MaxPath,    \* what fits into the column path (1000 characters), in names
    InUse,      \* bound: the sets of names that are given in one behaviour
    MaxFaults   \* bound: crashes, database errors, moves without newParentId, other names

ASSUME FolderAssumption ==
    /\ Root \notin Ids /\ Omitted \notin Ids /\ Omitted # Root
    /\ Plain \subseteq Names /\ Plain # {} /\ Odd \notin Seq(Plain)
    /\ MaxPath \in Nat /\ MaxFaults \in Nat

VARIABLES
    folder,  \* the table folders
    op,      \* op[q]: what the request q is doing
    faults,
    names,   \* the one of InUse, chosen once
    intact   \* history: no request was cut short half-way, no move left newParentId
             \* out, and all names were plain

vars == <<folder, op, faults, names, intact>>
-----------------------------------------------------------------------------
\* A row; "unused" ids have not been given to a folder yet, "purged" ones were.
States == {"unused", "live", "deleted", "purged"}
Path == Seq(Plain) \cup {Odd}
Row == [name : Names, parent : Ids \cup {Root}, path : Path, state : States]
Copy == [name : Names, parent : Ids \cup {Root, Omitted}, path : Path, state : States]
Columns == {"name", "parent", "path", "state"}
Blank == [name |-> CHOOSE n \in Plain : TRUE, parent |-> Root, path |-> <<>>, state |-> "unused"]

Live(f) == folder[f].state = "live"
Exists(f) == folder[f].state \in {"live", "deleted"}
\* The path of a folder with this name in the one with that path.
Joined(path, name) == IF path = Odd \/ name \notin Plain THEN Odd ELSE Append(path, name)

\* LIKE 'path/%' finds the folders strictly below, and perhaps some of those
\* for which an odd path or pattern leaves it open.
Unclear(path) == {f \in Ids : Exists(f) /\ Odd \in {path, folder[f].path}}
Below(path) == {f \in Ids : /\ Exists(f) /\ Odd \notin {path, folder[f].path}
                            /\ IsStrictPrefix(path, folder[f].path)}
Like(path) == {Below(path) \cup others : others \in SUBSET Unclear(path)}

\* The foreign key of parent_id: no row points to a missing one.
Referable(p) == p = Root \/ (p \in Ids /\ Exists(p))
Unreferenced(S) == \A f \in Ids \ S : Exists(f) => folder[f].parent \notin S

\* A request: the folder it is about, the entity it holds, where it wants to
\* put it (at), the path the folder had when it was read (old), how far
\* isChildFolder got (cursor), the columns to be updated, and the rows that a
\* query for the folders below returned.
Kinds == {"none", "create", "update", "move", "delete", "purge"}
Stages == {"idle", "parent", "walk", "check", "path", "diff", "save", "insert", "children",
           "rewrite", "subtree", "remove", "removeSelf"}
Op == [kind : Kinds, stage : Stages, id : Ids \cup {Root}, copy : Copy,
       at : Ids \cup {Root}, old : Path, cursor : Ids \cup {Root},
       dirty : SUBSET Columns, found : SUBSET [id : Ids, path : Path]]
Idle == [kind |-> "none", stage |-> "idle", id |-> Root, copy |-> Blank, at |-> Root,
         old |-> <<>>, cursor |-> Root, dirty |-> {}, found |-> {}]

\* What the database refuses to store; a failure stands for it if the path is odd.
TooLong(path) == path # Odd /\ Len(path) > MaxPath

\* The ids not given to a folder, nor promised to one.
FreeIds == {f \in Ids : folder[f].state = "unused" /\ \A q \in Requests : op[q].id # f}

Goes(q, next) == op' = [op EXCEPT ![q] = next] /\ UNCHANGED <<faults, names, intact>>
Ends(q) == Goes(q, Idle)

\* A request begins.  One that is not usual counts as a fault.
Begins(q, next, usual) ==
    /\ op' = [op EXCEPT ![q] = next]
    /\ usual \/ faults < MaxFaults
    /\ faults' = IF usual THEN faults ELSE faults + 1
    /\ intact' = (intact /\ usual)
    /\ UNCHANGED names

\* The request has written some rows, and others are still to be written.
HalfWay(o) ==
    \/ o.kind = "move" /\ o.stage \in {"children", "rewrite"}
    \/ o.kind = "update" /\ o.stage \in {"rewrite", "diff", "save"}
    \/ o.stage = "subtree"

\* An error ends the request; what it has written stays.
Aborts(q) ==
    /\ op' = [op EXCEPT ![q] = Idle]
    /\ intact' = (intact /\ ~HalfWay(op[q]))
    /\ UNCHANGED names
Refused(q) == Aborts(q) /\ UNCHANGED faults

Init ==
    /\ folder = [f \in Ids |-> Blank]
    /\ op = [q \in Requests |-> Idle]
    /\ faults = 0
    /\ names \in InUse
    /\ intact = TRUE
-----------------------------------------------------------------------------
(* The first query of each operation.  A folder that is not found ends the  *)
(* request at once.                                                         *)

\* Which id the database will give to the new row does not matter.
CreateStarts(q, n, p) ==
    /\ op[q] = Idle /\ FreeIds # {} /\ n \in names
    /\ Begins(q, [Idle EXCEPT !.kind = "create", !.id = CHOOSE f \in FreeIds : TRUE, !.at = p,
                              !.stage = IF p = Root THEN "check" ELSE "parent",
                              !.copy = [name |-> n, parent |-> p, path |-> <<>>, state |-> "live"]],
              n \in Plain)
    /\ UNCHANGED folder

\* updateFolder; without a new name only the columns left out here change.
UpdateStarts(q, f, n) ==
    /\ op[q] = Idle /\ Live(f) /\ n \in names
    /\ Begins(q, [Idle EXCEPT !.kind = "update", !.id = f, !.at = folder[f].parent,
                              !.stage = IF n = folder[f].name THEN "diff" ELSE "check",
                              !.copy = [folder[f] EXCEPT !.name = n], !.old = folder[f].path],
              n \in Plain \cup {folder[f].name})
    /\ UNCHANGED folder

\* moveFolder.  newParentId may be left out of the request: the path is then
\* the one below the root, and save leaves parent_id alone.
Moves(q, f, t) ==
    /\ op[q] = Idle /\ Live(f)
    /\ Begins(q, [Idle EXCEPT !.kind = "move", !.id = f, !.old = folder[f].path,
                              !.at = IF t = Omitted THEN Root ELSE t,
                              !.stage = IF t \in Ids THEN "parent" ELSE "check",
                              !.copy = [folder[f] EXCEPT !.parent = t, !.path = Joined(<<>>, folder[f].name)]],
              t # Omitted)
    /\ UNCHANGED folder
\* Mutant: without the comparison of id and newParentId.
MoveStartsAnywhere(q, f, t) == Moves(q, f, t)
MoveStarts(q, f, t) == t # f /\ Moves(q, f, t)

DeleteStarts(q, f) ==
    /\ op[q] = Idle /\ Live(f)
    /\ Goes(q, [Idle EXCEPT !.kind = "delete", !.id = f, !.stage = "diff", !.old = folder[f].path,
                            !.copy = [folder[f] EXCEPT !.state = "deleted"]])
    /\ UNCHANGED folder

\* permanentlyDeleteFolder does not care whether the folder was deleted.
PurgeStarts(q, f) ==
    /\ op[q] = Idle /\ Exists(f)
    /\ Goes(q, [Idle EXCEPT !.kind = "purge", !.id = f, !.stage = "children",
                            !.copy = folder[f], !.old = folder[f].path])
    /\ UNCHANGED folder
-----------------------------------------------------------------------------
(* Looking at the place the folder is going to.                             *)

\* The (new) parent must be there.
FindParent(q) ==
    /\ op[q].stage = "parent"
    /\ IF ~Live(op[q].at) THEN Ends(q)
       ELSE IF op[q].kind = "create" THEN Goes(q, [op[q] EXCEPT !.stage = "check"])
       ELSE Goes(q, [op[q] EXCEPT !.stage = "walk", !.cursor = op[q].at,
                                  !.copy.path = Joined(folder[op[q].at].path, op[q].copy.name)])
    /\ UNCHANGED folder

\* isChildFolder: one query for each folder from the new parent upwards.
\* Mutant: it looks at the first one only.
WalkOnce(q) ==
    /\ op[q].stage = "walk"
    /\ IF Exists(op[q].cursor) /\ folder[op[q].cursor].parent = op[q].id
       THEN Ends(q)
       ELSE Goes(q, [op[q] EXCEPT !.stage = "check"])
    /\ UNCHANGED folder
Walk(q) ==
    /\ op[q].stage = "walk"
    /\ LET up == IF Exists(op[q].cursor) THEN folder[op[q].cursor].parent ELSE Root
       IN IF up = op[q].id THEN Ends(q)
          ELSE IF up = Root THEN Goes(q, [op[q] EXCEPT !.stage = "check"])
          ELSE Goes(q, [op[q] EXCEPT !.cursor = up])
    /\ UNCHANGED folder

\* No live folder of this name may be there already.  Mutant: deleted ones
\* hold their names as well, but live ones are forgotten.
Taken(o, states) ==
    \E g \in Ids \ {o.id} : /\ folder[g].state \in states
                            /\ folder[g].name = o.copy.name /\ folder[g].parent = o.at
Checked(q, taken) ==
    /\ op[q].stage = "check"
    /\ IF taken THEN Ends(q)
       ELSE IF op[q].kind = "move" THEN Goes(q, [op[q] EXCEPT !.stage = "diff"])
       ELSE Goes(q, [op[q] EXCEPT !.stage = "path"])
    /\ UNCHANGED folder
CheckDeleted(q) == Checked(q, Taken(op[q], {"deleted"}))
Check(q) == Checked(q, Taken(op[q], {"live"}))

\* The path below the parent, which is looked up once more, deleted or not;
\* createFolder trips over a parent that is gone.
ComputePath(q) ==
    /\ op[q].stage = "path"
    /\ LET p == op[q].at
           next == IF op[q].kind = "create" THEN "insert" ELSE "children"
           Placed(path) == Goes(q, [op[q] EXCEPT !.stage = next, !.copy.path = path])
       IN IF p = Root THEN Placed(Joined(<<>>, op[q].copy.name))
          ELSE IF Exists(p) THEN Placed(Joined(folder[p].path, op[q].copy.name))
          ELSE IF op[q].kind = "create" THEN Ends(q)
          ELSE Placed(Joined(<<>>, op[q].copy.name))
    /\ UNCHANGED folder
-----------------------------------------------------------------------------
(* Writing the folder.  save(entity) reads the row again and updates the    *)
(* columns in which the entity differs; it inserts a row that is gone.      *)

\* What follows the save of each operation.
Saved(q) ==
    CASE op[q].kind = "move"   -> Goes(q, [op[q] EXCEPT !.stage = "children"])
      [] op[q].kind = "delete" -> Goes(q, [op[q] EXCEPT !.stage = "subtree"])
      [] OTHER                 -> Ends(q)

Insert(q) ==
    /\ op[q].stage = "insert"
    /\ LET f == op[q].id
           p == IF op[q].copy.parent = Omitted THEN Root ELSE op[q].copy.parent
       IN IF ~Exists(f) /\ Referable(p) /\ ~TooLong(op[q].copy.path)
          THEN Saved(q) /\ folder' = [folder EXCEPT ![f] = [op[q].copy EXCEPT !.parent = p]]
          ELSE Ends(q) /\ UNCHANGED folder

\* undefined is no value to store.
Differs(o) ==
    {c \in Columns : o.copy[c] # folder[o.id][c] /\ ~(c = "parent" /\ o.copy.parent = Omitted)}
Diff(q) ==
    /\ op[q].stage = "diff"
    /\ IF Exists(op[q].id)
       THEN Goes(q, [op[q] EXCEPT !.stage = "save", !.dirty = Differs(op[q])])
       ELSE Goes(q, [op[q] EXCEPT !.stage = "insert"])
    /\ UNCHANGED folder

\* Mutant: the whole entity is written.
WrittenWhole(row, o) == o.copy
Written(row, o) ==
    LET Value(c) == IF c \in o.dirty THEN o.copy[c] ELSE row[c]
    IN [name |-> Value("name"), parent |-> Value("parent"),
        path |-> Value("path"), state |-> Value("state")]
Save(q) ==
    /\ op[q].stage = "save"
    /\ LET f == op[q].id
       IN IF ~Exists(f) THEN Saved(q) /\ UNCHANGED folder
          ELSE IF \/ "parent" \in op[q].dirty /\ ~Referable(op[q].copy.parent)
                  \/ "path" \in op[q].dirty /\ TooLong(op[q].copy.path)
          THEN Refused(q) /\ UNCHANGED folder
          ELSE Saved(q) /\ folder' = [folder EXCEPT ![f] = Written(@, op[q])]
-----------------------------------------------------------------------------
(* The folders below, found by the path.                                    *)

\* The query of updateChildrenPaths and of permanentlyDeleteFolder, deleted
\* folders included.  Mutant: the query asks for direct children.
Collects(q, ids) ==
    LET rows == {[id |-> f, path |-> folder[f].path] : f \in ids}
        Then(stage) == Goes(q, [op[q] EXCEPT !.stage = stage, !.found = rows])
    IN /\ op[q].stage = "children"
       /\ IF op[q].kind = "purge" THEN Then(IF rows = {} THEN "removeSelf" ELSE "remove")
          ELSE IF rows # {} THEN Then("rewrite")
          ELSE IF op[q].kind = "update" THEN Then("diff")
          ELSE Ends(q)
       /\ UNCHANGED folder
FindDirectChildren(q) ==
    Collects(q, {f \in Below(op[q].old) : folder[f].parent = op[q].id})
FindChildren(q) == \E ids \in Like(op[q].old) : Collects(q, ids)

\* childFolder.path.replace(oldPath, newPath), for a path that starts with old.
Rebased(o, path) ==
    IF Odd \in {o.old, o.copy.path, path} THEN Odd
    ELSE o.copy.path \o SubSeq(path, Len(o.old) + 1, Len(path))

\* One UPDATE for each row; renaming saves the folder itself afterwards.
Rewrite(q, row) ==
    /\ op[q].stage = "rewrite"
    /\ LET path == Rebased(op[q], row.path)
           left == op[q].found \ {row}
           fails == Exists(row.id) /\ TooLong(path)
       IN /\ folder' = IF Exists(row.id) /\ ~fails THEN [folder EXCEPT ![row.id].path = path]
                       ELSE folder
          /\ IF fails THEN Refused(q)
             ELSE IF left # {} THEN Goes(q, [op[q] EXCEPT !.found = left])
             ELSE IF op[q].kind = "update"
             THEN Goes(q, [op[q] EXCEPT !.found = {}, !.stage = "diff"])
             ELSE Ends(q)

\* deleteFolderSubtree, a single UPDATE.  Mutant: it is left to the children.
Marks(q, ids) ==
    /\ op[q].stage = "subtree"
    /\ folder' = [f \in Ids |-> IF f \in ids /\ Live(f)
                                THEN [folder[f] EXCEPT !.state = "deleted"] ELSE folder[f]]
    /\ Ends(q)
SubtreeChildren(q) == Marks(q, {f \in Below(op[q].old) : folder[f].parent = op[q].id})
Subtree(q) == \E ids \in Like(op[q].old) : Marks(q, ids)

\* A single DELETE, which the foreign key may refuse.
Removes(q, ids, next) ==
    IF Unreferenced(ids)
    THEN /\ folder' = [f \in Ids |-> IF f \in ids /\ Exists(f)
                                     THEN [Blank EXCEPT !.state = "purged"] ELSE folder[f]]
         /\ Goes(q, next)
    ELSE Ends(q) /\ UNCHANGED folder
RemoveChildren(q) ==
    /\ op[q].stage = "remove"
    /\ Removes(q, {row.id : row \in op[q].found},
               [op[q] EXCEPT !.stage = "removeSelf", !.found = {}])
RemoveSelf(q) ==
    /\ op[q].stage = "removeSelf"
    /\ Removes(q, {op[q].id}, Idle)
-----------------------------------------------------------------------------
\* The database or the process fails under the request.
Fails(q) ==
    /\ op[q] # Idle /\ faults < MaxFaults
    /\ Aborts(q) /\ faults' = faults + 1
    /\ UNCHANGED folder

Starts(q) ==
    \/ \E n \in Names, p \in Ids \cup {Root} : CreateStarts(q, n, p)
    \/ \E f \in Ids, n \in Names : UpdateStarts(q, f, n)
    \/ \E f \in Ids, t \in Ids \cup {Root, Omitted} : MoveStarts(q, f, t)
    \/ \E f \in Ids : DeleteStarts(q, f)
    \/ \E f \in Ids : PurgeStarts(q, f)

Continues(q) ==
    \/ FindParent(q) \/ Walk(q) \/ Check(q) \/ ComputePath(q)
    \/ Insert(q) \/ Diff(q) \/ Save(q)
    \/ FindChildren(q)
    \/ \E row \in op[q].found : Rewrite(q, row)
    \/ Subtree(q)
    \/ RemoveChildren(q) \/ RemoveSelf(q)

Next == \E q \in Requests : Starts(q) \/ Continues(q) \/ Fails(q)

Spec == Init /\ [][Next]_vars

\* A query that was sent is answered, so that every request goes on.
FairSpec == Spec /\ \A q \in Requests : WF_vars(Continues(q))
-----------------------------------------------------------------------------
\* The types of the table and of the requests; undefined never gets into a row.
TypeOK ==
    /\ folder \in [Ids -> Row]
    /\ op \in [Requests -> Op]
    /\ faults \in 0..MaxFaults
    /\ intact \in BOOLEAN

\* "Cannot move a folder to its own subfolder": going up from any folder one
\* leaves every set of folders, whatever requests failed half-way.
NoCycle ==
    \A S \in SUBSET {f \in Ids : Exists(f)} :
        S # {} => \E f \in S : folder[f].parent \notin S

\* Two live folders in the same place have different names: the checks for
\* duplicates suffice as long as requests do not overlap.
SiblingsDistinct ==
    \A f, g \in Ids :
        (f # g /\ Live(f) /\ Live(g) /\ folder[f].parent = folder[g].parent)
        => folder[f].name # folder[g].name

\* Nothing is in progress, nothing was ever interrupted between the first and
\* the last of its writes, no move left newParentId out, and all names were
\* plain: a folder 'a_b', renamed or deleted, takes the children of 'axb' along.
Settled == intact /\ \A q \in Requests : op[q] = Idle

\* The path of a live folder is its parent's path and its own name: among
\* plain names renaming and moving carry the whole subtree along, and nothing
\* else, whatever was deleted, purged and created again in between.
PathsMatchLinks ==
    Settled => \A f \in Ids : Live(f) =>
        LET p == folder[f].parent
        IN folder[f].path = Append(IF p = Root THEN <<>> ELSE folder[p].path, folder[f].name)

\* Among plain names deleting reaches every folder below, at whatever depth
\* and wherever it has been moved before: no live folder is left in a deleted
\* or purged one.
LiveUnderLive ==
    Settled => \A f \in Ids : (Live(f) /\ folder[f].parent # Root) => Live(folder[f].parent)

\* Every request gets its answer; isChildFolder would not on a cycle.
RequestsEnd == \A q \in Requests : op[q] # Idle ~> op[q] = Idle

\* "Get all children folders to delete them all": a live folder that a purge
\* removes was in the purged folder or in another one that it removes.
PurgeIsLocal ==
    [][\A q \in Requests : op[q].stage = "remove" =>
           \A f \in Ids : (Live(f) /\ ~Exists(f)') =>
               folder[f].parent \in {op[q].id} \cup {row.id : row \in op[q].found}]_vars
-----------------------------------------------------------------------------
(* What is inductive.                                                       *)

\* What a request in progress may rely on.
RequestOK(o) ==
    /\ o.id \in Ids
    /\ o.copy.state \in {"live", "deleted"}
    /\ o.stage = "parent" => o.at \in Ids
    /\ o.stage = "walk" => o.cursor \in Ids
    /\ "parent" \in o.dirty => o.copy.parent # Omitted
TypeInv == TypeOK /\ \A q \in Requests : op[q] = Idle \/ RequestOK(op[q])

RefsExist == \A f \in Ids : Exists(f) => Referable(folder[f].parent)

\* Going up from V does not lead to f: V keeps to itself, except for the
\* parent of c, which has not been looked at yet.
Avoids(V, f, c) ==
    f \notin V /\ \A x \in V : Exists(x) /\ (x = c \/ folder[x].parent \in V \cup {Root})

\* The parent that the request is about to write makes no cycle.
Harmless(o) ==
    \/ o.copy.parent \in {Root, Omitted, folder[o.id].parent}
    \/ \E V \in SUBSET Ids : o.copy.parent \in V /\ Avoids(V, o.id, Root)
Unsaved(o) ==
    \/ o.stage \in {"diff", "save"}
    \/ o.kind # "create" /\ o.stage \in {"check", "path"}
    \/ o.kind = "update" /\ o.stage \in {"children", "rewrite"}
RequestSafe(o) ==
    /\ (o.stage = "parent" /\ o.kind # "create") => o.copy.parent = o.at /\ o.at # o.id
    /\ o.stage = "walk" =>
           \E V \in SUBSET Ids : {o.copy.parent, o.cursor} \subseteq V /\ Avoids(V, o.id, o.cursor)
    /\ Unsaved(o) => Harmless(o)
ForestInv == /\ TypeInv /\ RefsExist /\ NoCycle
             /\ \A q \in Requests : RequestSafe(op[q])

\* Where the folder of the request will be, and that its name is free there.
Place(o) == IF o.copy.parent = Omitted THEN folder[o.id].parent ELSE o.copy.parent
Free(o) ==
    \A g \in Ids \ {o.id} :
        ~(Live(g) /\ folder[g].name = o.copy.name /\ folder[g].parent = Place(o))

\* The row has not been written yet.
Unwritten(o) ==
    \/ o.stage \in {"parent", "walk", "check", "path", "diff", "save", "insert"}
    \/ o.kind = "update" /\ o.stage \in {"children", "rewrite"}
RequestDistinct(o) ==
    /\ o.kind = "create" => /\ o.stage \in {"parent", "check", "path", "insert"}
                            /\ o.copy.parent # Omitted
    /\ o.kind # "create" => Live(o.id) /\ o.stage # "insert"
    /\ o.stage \in {"parent", "walk", "check"} => Free(o) \/ o.copy.parent = o.at
    /\ o.stage \notin {"parent", "walk", "check"} => Free(o) \/ o.copy.state = "deleted"
    /\ o.stage = "save" =>
           \A c \in Columns \ o.dirty :
               o.copy[c] = folder[o.id][c] \/ (c = "parent" /\ o.copy.parent = Omitted)
SiblingInv == /\ TypeInv /\ SiblingsDistinct
              /\ \A q \in Requests : Unwritten(op[q]) => RequestDistinct(op[q])
-----------------------------------------------------------------------------
(* Links and paths, while nothing has gone wrong.                           *)

\* There is nothing odd in the table, nor in the requests.
PlainCopy(c) == c.name \in Plain /\ c.path \in Seq(Plain)
PlainInv ==
    intact => /\ \A f \in Ids : PlainCopy(folder[f])
              /\ \A q \in Requests :
                     /\ PlainCopy(op[q].copy) /\ op[q].old \in Seq(Plain)
                     /\ \A row \in op[q].found : row.path \in Seq(Plain)

ParentPath(p) == IF p = Root THEN <<>> ELSE folder[p].path
Attached(p) == p = Root \/ Live(p)
Matched ==
    \A f \in Ids : Live(f) =>
        /\ Attached(folder[f].parent)
        /\ folder[f].path = Append(ParentPath(folder[f].parent), folder[f].name)

\* What a request that is half-way will have made of the tree in the end: the
\* folders whose paths it still has to rewrite, and what every folder is
\* called then, and where.
Awaiting(o) ==
    IF o.stage = "rewrite" THEN {row.id : row \in o.found}
    ELSE IF o.stage = "children" THEN Below(o.old) ELSE {}
FinalName(o, g) == IF g = o.id THEN o.copy.name ELSE folder[g].name
FinalPath(o, g) ==
    IF g \in Awaiting(o) THEN Rebased(o, folder[g].path)
    ELSE IF g = o.id THEN o.copy.path ELSE folder[g].path
FinalParentPath(o, p) == IF p = Root THEN <<>> ELSE FinalPath(o, p)
Completable(o) ==
    /\ o.id \notin Awaiting(o)
    /\ o.stage = "rewrite" => \A row \in o.found : Exists(row.id) /\ row.path = folder[row.id].path
    /\ \A g \in Ids : Live(g) =>
           LET p == folder[g].parent
           IN Attached(p) /\ FinalPath(o, g) = Append(FinalParentPath(o, p), FinalName(o, g))

\* What a delete has left to do: the children of its folder, and theirs.
Deletable(o) ==
    /\ folder[o.id].state = "deleted" /\ folder[o.id].path = o.old
    /\ \A g \in Ids : Live(g) =>
           /\ Attached(folder[g].parent) \/ folder[g].parent = o.id
           /\ folder[g].path = Append(ParentPath(folder[g].parent), folder[g].name)

\* The entity of a request is going to be where its path says.
Aligned(o) ==
    /\ o.copy.parent = o.at /\ Attached(o.at)
    /\ o.copy.path = Append(ParentPath(o.at), o.copy.name)

CreateOK(o) ==
    /\ Matched /\ o.copy.parent = o.at
    /\ o.stage \in {"check", "path", "insert"} => Attached(o.at)
    /\ o.stage = "insert" => Aligned(o)
UpdateOK(o) ==
    /\ o.old = folder[o.id].path /\ o.at = folder[o.id].parent
    /\ o.copy.parent = folder[o.id].parent /\ o.copy.state = "live" /\ Live(o.id)
    /\ o.stage \in {"check", "path", "children"} => Matched
    /\ o.stage = "children" => Aligned(o)
    /\ o.stage \in {"rewrite", "diff", "save"} => Completable(o)
MoveOK(o) ==
    /\ Live(o.id) /\ o.copy.name = folder[o.id].name /\ o.copy.state = "live"
    /\ o.stage \in {"parent", "walk", "check", "diff", "save"} =>
           /\ Matched /\ o.old = folder[o.id].path /\ o.copy.parent = o.at
    /\ o.stage \in {"walk", "check", "diff", "save"} => Aligned(o)
    /\ o.stage \in {"children", "rewrite"} => Completable(o) /\ folder[o.id].path = o.copy.path
DeleteOK(o) ==
    /\ o.stage \in {"diff", "save"} =>
           /\ Matched /\ o.old = folder[o.id].path
           /\ o.copy = [folder[o.id] EXCEPT !.state = "deleted"]
    /\ o.stage = "subtree" => Deletable(o)
TreeOK(o) ==
    /\ o.kind \in {"none", "purge"} => Matched
    /\ o.kind = "create" => CreateOK(o)
    /\ o.kind = "update" => UpdateOK(o)
    /\ o.kind = "move" => MoveOK(o)
    /\ o.kind = "delete" => DeleteOK(o)

\* A kind has certain stages only.
StagesOf(kind) ==
    CASE kind = "none"   -> {"idle"}
      [] kind = "create" -> {"parent", "check", "path", "insert"}
      [] kind = "update" -> {"check", "path", "children", "rewrite", "diff", "save"}
      [] kind = "move"   -> {"parent", "walk", "check", "diff", "save", "children", "rewrite"}
      [] kind = "delete" -> {"diff", "save", "subtree"}
      [] kind = "purge"  -> {"children", "remove", "removeSelf"}
TreeInv ==
    /\ ForestInv /\ SiblingInv /\ PlainInv
    /\ Settled => Matched
    /\ intact => \A q \in Requests : op[q].stage \in StagesOf(op[q].kind) /\ TreeOK(op[q])
=============================================================================
