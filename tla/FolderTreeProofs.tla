-------------------------- MODULE FolderTreeProofs --------------------------
(***************************************************************************)
(* Type correctness of the folder tree for any number of requests, and     *)
(* that it stays a forest as long as requests do not overlap.              *)
(***************************************************************************)
EXTENDS FolderTree, TLAPS

\* Joining and rebasing lead to paths again.
LEMMA JoinedType ==
    /\ <<>> \in Path
    /\ \A path \in Path, name \in Names : Joined(path, name) \in Path
BY DEF Joined, Path

LEMMA RebasedType ==
    ASSUME NEW o \in Op, NEW path \in Path
    PROVE  Rebased(o, path) \in Path
<1>1. o.old \in Path /\ o.copy.path \in Path
  BY DEF Op, Copy
<1>2. CASE Odd \in {o.old, o.copy.path, path}
  BY <1>2 DEF Rebased, Path
<1>3. CASE Odd \notin {o.old, o.copy.path, path}
  <2>1. o.old \in Seq(Plain) /\ o.copy.path \in Seq(Plain) /\ path \in Seq(Plain)
    BY <1>1, <1>3 DEF Path
  <2>2. SubSeq(path, Len(o.old) + 1, Len(path)) \in Seq(Plain)
    BY <2>1
  <2>3. o.copy.path \o SubSeq(path, Len(o.old) + 1, Len(path)) \in Seq(Plain)
    BY <2>1, <2>2
  <2> HIDE DEF Path
  <2>4. Rebased(o, path) \in Seq(Plain)
    BY <1>3, <2>3 DEF Rebased
  <2> QED BY <2>4 DEF Path
<1> QED BY <1>2, <1>3

\* What a query by the path finds are folders.
LEMMA LikeIds ==
    ASSUME NEW path, NEW ids \in Like(path)
    PROVE  ids \subseteq Ids
BY DEF Like, Below, Unclear

LEMMA IdleType == Idle \in Op /\ Blank \in Row
<1>1. Blank \in Row
  BY FolderAssumption, JoinedType DEF Blank, Row, States
<1>2. Blank \in Copy
  BY <1>1 DEF Row, Copy
<1> QED BY <1>1, <1>2, JoinedType DEF Idle, Op, Kinds, Stages

LEMMA TypeInit == Init => TypeInv
BY IdleType, FolderAssumption DEF Init, TypeInv, TypeOK

\* A request that changes its own record properly keeps the types.
LEMMA OpStep ==
    ASSUME TypeInv, NEW q \in Requests, NEW next, op' = [op EXCEPT ![q] = next],
           next = Idle \/ (next \in Op /\ RequestOK(next)),
           folder' \in [Ids -> Row], faults' \in 0..MaxFaults, intact' \in BOOLEAN
    PROVE  TypeInv'
<1>1. next \in Op
  BY IdleType
<1>2. op' \in [Requests -> Op]
  BY <1>1 DEF TypeInv, TypeOK
<1>3. \A r \in Requests : op'[r] = Idle \/ RequestOK(op'[r])
  BY DEF TypeInv, TypeOK
<1> QED BY <1>2, <1>3 DEF TypeInv, TypeOK, RequestOK, Idle, Blank

LEMMA StartsType ==
    ASSUME TypeInv, NEW q \in Requests, Starts(q)
    PROVE  TypeInv'
<1> USE FolderAssumption
<1>1. \A f \in Ids : folder[f] \in Row /\ (Live(f) \/ Exists(f) => folder[f].state \in {"live", "deleted"})
  BY DEF TypeInv, TypeOK, Live, Exists
<1>7. ASSUME NEW next, NEW usual, folder' = folder, Begins(q, next, usual),
             next \in Op, RequestOK(next)
      PROVE  TypeInv'
  <2>1. folder' \in [Ids -> Row] /\ faults' \in 0..MaxFaults /\ intact' \in BOOLEAN
    BY <1>7 DEF Begins, TypeInv, TypeOK
  <2> QED BY <1>7, <2>1, OpStep DEF Begins
<1>2. ASSUME NEW n \in Names, NEW p \in Ids \cup {Root}, CreateStarts(q, n, p)
      PROVE  TypeInv'
  <2>1. (CHOOSE f \in FreeIds : TRUE) \in Ids
    BY <1>2 DEF CreateStarts, FreeIds
  <2> DEFINE next == [Idle EXCEPT !.kind = "create", !.id = CHOOSE f \in FreeIds : TRUE, !.at = p,
                          !.stage = IF p = Root THEN "check" ELSE "parent",
                          !.copy = [name |-> n, parent |-> p, path |-> <<>>, state |-> "live"]]
  <2>2. next \in Op /\ RequestOK(next)
    BY <2>1, IdleType, JoinedType DEF Idle, Op, Kinds, Stages, Copy, Row, States, RequestOK
  <2>3. folder' = folder /\ Begins(q, next, n \in Plain)
    BY <1>2 DEF CreateStarts
  <2> HIDE DEF next
  <2> QED BY <1>7, <2>2, <2>3
<1>3. ASSUME NEW f \in Ids, NEW n \in Names, UpdateStarts(q, f, n)
      PROVE  TypeInv'
  <2> DEFINE next == [Idle EXCEPT !.kind = "update", !.id = f, !.at = folder[f].parent,
                          !.stage = IF n = folder[f].name THEN "diff" ELSE "check",
                          !.copy = [folder[f] EXCEPT !.name = n], !.old = folder[f].path]
  <2>1. [folder[f] EXCEPT !.name = n] \in Copy
    BY <1>1 DEF Row, Copy
  <2>2. folder[f].parent \in Ids \cup {Root} /\ folder[f].path \in Path
        /\ folder[f].state \in {"live", "deleted"} /\ folder[f] \in Row
    BY <1>1, <1>3 DEF UpdateStarts, Row
  <2>3. next \in Op
    BY <2>1, <2>2, IdleType DEF Idle, Op, Kinds, Stages
  <2>4. RequestOK(next)
    BY <2>2, IdleType DEF Idle, Op, Row, RequestOK
  <2>5. folder' = folder /\ Begins(q, next, n \in Plain \cup {folder[f].name})
    BY <1>3 DEF UpdateStarts
  <2> HIDE DEF next
  <2> QED BY <1>7, <2>3, <2>4, <2>5
<1>4. ASSUME NEW f \in Ids, NEW t \in Ids \cup {Root, Omitted}, MoveStarts(q, f, t)
      PROVE  TypeInv'
  <2> DEFINE next == [Idle EXCEPT !.kind = "move", !.id = f, !.old = folder[f].path,
                          !.at = IF t = Omitted THEN Root ELSE t,
                          !.stage = IF t \in Ids THEN "parent" ELSE "check",
                          !.copy = [folder[f] EXCEPT !.parent = t, !.path = Joined(<<>>, folder[f].name)]]
  <2>1. Joined(<<>>, folder[f].name) \in Path
    BY <1>1, JoinedType DEF Row
  <2>2. [folder[f] EXCEPT !.parent = t, !.path = Joined(<<>>, folder[f].name)] \in Copy
    BY <1>1, <2>1 DEF Row, Copy
  <2>3. folder[f].path \in Path /\ folder[f].state \in {"live", "deleted"}
        /\ folder[f] \in Row
    BY <1>1, <1>4 DEF MoveStarts, Moves, Row
  <2>4. next \in Op
    BY <2>2, <2>3, IdleType DEF Idle, Op, Kinds, Stages
  <2>5. RequestOK(next)
    BY <2>3, IdleType DEF Idle, Op, Row, RequestOK
  <2>6. folder' = folder /\ Begins(q, next, t # Omitted)
    BY <1>4 DEF MoveStarts, Moves
  <2> HIDE DEF next
  <2> QED BY <1>7, <2>4, <2>5, <2>6
<1>5. ASSUME NEW f \in Ids, DeleteStarts(q, f) PROVE TypeInv'
  <2> DEFINE next == [Idle EXCEPT !.kind = "delete", !.id = f, !.stage = "diff",
                          !.old = folder[f].path, !.copy = [folder[f] EXCEPT !.state = "deleted"]]
  <2>2. next \in Op /\ RequestOK(next)
    BY <1>1, <1>5, IdleType DEF Idle, Op, Kinds, Stages, Copy, Row, States, RequestOK
  <2> QED BY <1>5, <2>2, OpStep DEF DeleteStarts, Goes, TypeInv, TypeOK
<1>6. ASSUME NEW f \in Ids, PurgeStarts(q, f) PROVE TypeInv'
  <2> DEFINE next == [Idle EXCEPT !.kind = "purge", !.id = f, !.stage = "children",
                          !.copy = folder[f], !.old = folder[f].path]
  <2>2. next \in Op /\ RequestOK(next)
    BY <1>1, <1>6, IdleType
       DEF PurgeStarts, Exists, Idle, Op, Kinds, Stages, Copy, Row, States, RequestOK
  <2> QED BY <1>6, <2>2, OpStep DEF PurgeStarts, Goes, TypeInv, TypeOK
<1> QED BY <1>2, <1>3, <1>4, <1>5, <1>6 DEF Starts

LEMMA ContinuesType ==
    ASSUME TypeInv, NEW q \in Requests, Continues(q)
    PROVE  TypeInv'
<1> USE FolderAssumption
<1> DEFINE o == op[q]
<1>1. folder \in [Ids -> Row] /\ o \in Op /\ faults \in 0..MaxFaults /\ intact \in BOOLEAN
  BY DEF TypeInv, TypeOK
<1>2. o.stage # "idle" => RequestOK(o)
  BY DEF TypeInv, Idle
<1>3. \A f \in Ids : folder[f] \in Row /\ folder[f].parent \in Ids \cup {Root}
                     /\ folder[f].path \in Path
  BY <1>1 DEF Row
\* Going on to another stage.
<1>4. ASSUME o.stage # "idle", NEW s \in Stages \ {"parent", "walk"}
      PROVE  [o EXCEPT !.stage = s] \in Op /\ RequestOK([o EXCEPT !.stage = s])
  BY <1>1, <1>2, <1>4 DEF Op, RequestOK
<1>6. ASSUME FindParent(q) PROVE TypeInv'
  <2>1. o.at \in Ids
    BY <1>2, <1>6 DEF FindParent, RequestOK
  <2>2. Joined(folder[o.at].path, o.copy.name) \in Path
    BY <1>1, <1>3, <2>1, JoinedType DEF Op, Copy
  <2> DEFINE next == [o EXCEPT !.stage = "walk", !.cursor = o.at,
                               !.copy.path = Joined(folder[o.at].path, o.copy.name)]
  <2>3. next \in Op
    BY <1>1, <2>1, <2>2 DEF Op, Stages, Copy
  <2>4. RequestOK(next)
    BY <1>1, <1>2, <1>6, <2>1 DEF FindParent, RequestOK, Op, Copy
  <2>5. op' = [op EXCEPT ![q] = Idle] \/ op' = [op EXCEPT ![q] = [o EXCEPT !.stage = "check"]]
        \/ op' = [op EXCEPT ![q] = next]
    BY <1>6 DEF FindParent, Goes, Ends
  <2> QED BY <1>1, <1>4, <1>6, <2>3, <2>4, <2>5, OpStep DEF FindParent, Goes, Ends, Stages
<1>7. ASSUME Walk(q) PROVE TypeInv'
  <2>1. o.cursor \in Ids
    BY <1>2, <1>7 DEF Walk, RequestOK
  <2> DEFINE up == IF Exists(o.cursor) THEN folder[o.cursor].parent ELSE Root
             next == [o EXCEPT !.cursor = up]
  <2>2. up \in Ids \cup {Root}
    BY <1>3, <2>1
  <2>3. up # Root => next \in Op /\ RequestOK(next)
    BY <1>1, <1>2, <1>7, <2>2 DEF Walk, Op, RequestOK
  <2>4. op' = [op EXCEPT ![q] = Idle] \/ op' = [op EXCEPT ![q] = [o EXCEPT !.stage = "check"]]
        \/ (up # Root /\ op' = [op EXCEPT ![q] = next])
    BY <1>7 DEF Walk, Goes, Ends
  <2> QED BY <1>1, <1>4, <1>7, <2>3, <2>4, OpStep DEF Walk, Goes, Ends, Stages
<1>8. ASSUME Check(q) PROVE TypeInv'
  <2>1. \/ op' = [op EXCEPT ![q] = Idle]
        \/ op' = [op EXCEPT ![q] = [o EXCEPT !.stage = "diff"]]
        \/ op' = [op EXCEPT ![q] = [o EXCEPT !.stage = "path"]]
    BY <1>8 DEF Check, Checked, Goes, Ends
  <2> QED BY <1>1, <1>4, <1>8, <2>1, OpStep DEF Check, Checked, Goes, Ends, Stages
<1>9. ASSUME ComputePath(q) PROVE TypeInv'
  <2>1. o.copy.name \in Names /\ o.at \in Ids \cup {Root}
    BY <1>1 DEF Op, Copy
  <2>2. PICK s \in {"insert", "children"}, p \in Path :
            \/ op' = [op EXCEPT ![q] = Idle]
            \/ op' = [op EXCEPT ![q] = [o EXCEPT !.stage = s, !.copy.path = p]]
    <3>1. Joined(<<>>, o.copy.name) \in Path
          /\ (o.at # Root => Joined(folder[o.at].path, o.copy.name) \in Path)
      BY <1>3, <2>1, JoinedType
    <3> QED BY <1>9, <3>1 DEF ComputePath, Goes, Ends
  <2>3. [o EXCEPT !.stage = s, !.copy.path = p] \in Op
    BY <1>1 DEF Op, Stages, Copy
  <2>4. RequestOK([o EXCEPT !.stage = s, !.copy.path = p])
    BY <1>1, <1>2, <1>9 DEF ComputePath, Op, Copy, RequestOK
  <2> QED BY <1>1, <1>9, <2>2, <2>3, <2>4, OpStep DEF ComputePath, Goes, Ends
<1>10. ASSUME Saved(q), o.stage # "idle", folder' \in [Ids -> Row] PROVE TypeInv'
  <2>1. \/ op' = [op EXCEPT ![q] = Idle]
        \/ op' = [op EXCEPT ![q] = [o EXCEPT !.stage = "children"]]
        \/ op' = [op EXCEPT ![q] = [o EXCEPT !.stage = "subtree"]]
    BY <1>10 DEF Saved, Goes, Ends
  <2>2. faults' = faults /\ intact' = intact
    BY <1>10 DEF Saved, Goes, Ends
  <2> QED BY <1>1, <1>4, <1>10, <2>1, <2>2, OpStep DEF Stages
<1>11. ASSUME Ends(q), folder' \in [Ids -> Row] PROVE TypeInv'
  BY <1>1, <1>11, OpStep DEF Ends, Goes
<1>21. ASSUME Refused(q), folder' \in [Ids -> Row] PROVE TypeInv'
  BY <1>1, <1>21, OpStep DEF Refused, Aborts
<1>12. ASSUME Insert(q) PROVE TypeInv'
  <2> DEFINE p == IF o.copy.parent = Omitted THEN Root ELSE o.copy.parent
  <2>1. [o.copy EXCEPT !.parent = p] \in Row
    BY <1>1 DEF Op, Copy, Row
  <2>2. folder' \in [Ids -> Row]
    BY <1>1, <1>12, <2>1 DEF Insert
  <2> QED BY <1>10, <1>11, <1>12, <2>2 DEF Insert
<1>13. ASSUME Diff(q) PROVE TypeInv'
  <2> DEFINE next == [o EXCEPT !.stage = "save", !.dirty = Differs(o)]
  <2>1. "parent" \in Differs(o) => o.copy.parent # Omitted
    BY DEF Differs
  <2>2. next \in Op /\ RequestOK(next)
    <3>1. Differs(o) \in SUBSET Columns
      BY DEF Differs
    <3> HIDE DEF Differs
    <3> QED BY <1>1, <1>2, <1>13, <2>1, <3>1 DEF Diff, Op, Stages, RequestOK
  <2>3. op' = [op EXCEPT ![q] = next] \/ op' = [op EXCEPT ![q] = [o EXCEPT !.stage = "insert"]]
    BY <1>13 DEF Diff, Goes
  <2> QED BY <1>1, <1>4, <1>13, <2>2, <2>3, OpStep DEF Diff, Goes, Stages
<1>14. ASSUME Save(q) PROVE TypeInv'
  <2>1. o.id \in Ids /\ ("parent" \in o.dirty => o.copy.parent \in Ids \cup {Root})
    BY <1>1, <1>2, <1>14 DEF Save, RequestOK, Op, Copy
  <2>2. Written(folder[o.id], o) \in Row
    BY <1>1, <1>3, <2>1 DEF Written, Op, Copy, Row
  <2>3. folder' \in [Ids -> Row]
    BY <1>1, <1>14, <2>2 DEF Save
  <2> QED BY <1>10, <1>14, <1>21, <2>3 DEF Save
<1>15. ASSUME FindChildren(q) PROVE TypeInv'
  <2>4. PICK ids \in Like(o.old) : Collects(q, ids)
    BY <1>15 DEF FindChildren
  <2> DEFINE rows == {[id |-> f, path |-> folder[f].path] : f \in ids}
             Next1(s) == [o EXCEPT !.stage = s, !.found = rows]
  <2>1. rows \in SUBSET [id : Ids, path : Path]
    BY <1>3, LikeIds
  <2>2. ASSUME NEW s \in Stages \ {"parent", "walk"}
        PROVE  Next1(s) \in Op /\ RequestOK(Next1(s))
    <3> HIDE DEF rows
    <3> QED BY <1>1, <1>2, <2>1, <2>4 DEF Collects, Op, RequestOK
  <2>3. \/ op' = [op EXCEPT ![q] = Idle]
        \/ \E s \in {"removeSelf", "remove", "rewrite", "diff"} : op' = [op EXCEPT ![q] = Next1(s)]
    BY <2>4 DEF Collects, Goes, Ends
  <2> QED BY <1>1, <2>2, <2>3, <2>4, OpStep DEF Collects, Goes, Ends, Stages
<1>16. ASSUME NEW row \in o.found, Rewrite(q, row) PROVE TypeInv'
  <2> DEFINE left == o.found \ {row}
             path == Rebased(o, row.path)
  <2>1. row \in [id : Ids, path : Path]
    BY <1>1 DEF Op
  <2>2. path \in Path
    BY <1>1, <2>1, RebasedType
  <2>3. folder' \in [Ids -> Row]
    BY <1>1, <1>16, <2>1, <2>2 DEF Rewrite, Row
  <2>4. [o EXCEPT !.found = left] \in Op /\ RequestOK([o EXCEPT !.found = left])
    BY <1>1, <1>2, <1>16 DEF Rewrite, Op, RequestOK
  <2>5. /\ [o EXCEPT !.found = {}, !.stage = "diff"] \in Op
        /\ RequestOK([o EXCEPT !.found = {}, !.stage = "diff"])
    BY <1>1, <1>2, <1>16 DEF Rewrite, Op, Stages, RequestOK
  <2>6. \/ op' = [op EXCEPT ![q] = Idle]
        \/ op' = [op EXCEPT ![q] = [o EXCEPT !.found = left]]
        \/ op' = [op EXCEPT ![q] = [o EXCEPT !.found = {}, !.stage = "diff"]]
    BY <1>16 DEF Rewrite, Goes, Ends, Refused, Aborts
  <2>7. faults' = faults /\ intact' \in BOOLEAN
    BY <1>1, <1>16 DEF Rewrite, Goes, Ends, Refused, Aborts
  <2> QED BY <1>1, <2>3, <2>4, <2>5, <2>6, <2>7, OpStep
<1>17. ASSUME Subtree(q) PROVE TypeInv'
  <2>2. PICK ids \in Like(o.old) : Marks(q, ids)
    BY <1>17 DEF Subtree
  <2>1. folder' \in [Ids -> Row]
    BY <1>1, <2>2 DEF Marks, Row, States
  <2> QED BY <1>11, <2>1, <2>2 DEF Marks
<1>18. ASSUME NEW S, NEW next, Removes(q, S, next),
              next = Idle \/ (next \in Op /\ RequestOK(next))
       PROVE  TypeInv'
  <2>1. [Blank EXCEPT !.state = "purged"] \in Row
    BY IdleType DEF Row, States
  <2>2. folder' \in [Ids -> Row]
    BY <1>1, <1>18, <2>1 DEF Removes, Ends
  <2>3. op' = [op EXCEPT ![q] = next] \/ op' = [op EXCEPT ![q] = Idle]
    BY <1>18 DEF Removes, Goes, Ends
  <2>4. faults' = faults /\ intact' = intact
    BY <1>18 DEF Removes, Goes, Ends
  <2> QED BY <1>1, <1>18, <2>2, <2>3, <2>4, OpStep
<1>19. ASSUME RemoveChildren(q) PROVE TypeInv'
  <2> DEFINE next == [o EXCEPT !.stage = "removeSelf", !.found = {}]
  <2>1. next \in Op /\ RequestOK(next)
    BY <1>1, <1>2, <1>19 DEF RemoveChildren, Op, Stages, RequestOK
  <2> QED BY <1>18, <1>19, <2>1 DEF RemoveChildren
<1>20. ASSUME RemoveSelf(q) PROVE TypeInv'
  BY <1>18, <1>20 DEF RemoveSelf
<1> QED BY <1>6, <1>7, <1>8, <1>9, <1>12, <1>13, <1>14, <1>15, <1>16, <1>17, <1>19, <1>20
        DEF Continues

LEMMA TypeStep == TypeInv /\ [Next]_vars => TypeInv'
<1> SUFFICES ASSUME TypeInv, [Next]_vars PROVE TypeInv'
  OBVIOUS
<1>1. ASSUME NEW q \in Requests, Fails(q) PROVE TypeInv'
  <2>1. faults' \in 0..MaxFaults
    BY <1>1, FolderAssumption DEF Fails, TypeInv, TypeOK
  <2>2. intact' \in BOOLEAN
    BY <1>1 DEF Fails, Aborts
  <2> QED BY <1>1, <2>1, <2>2, OpStep DEF Fails, Aborts, TypeInv, TypeOK
<1>2. CASE UNCHANGED vars
  BY <1>2 DEF vars, TypeInv, TypeOK, RequestOK, Idle, Blank
<1> QED BY <1>1, <1>2, StartsType, ContinuesType DEF Next

\* However requests overlap, fail or are repeated: no row and no request ever
\* holds a value it must not hold; undefined, for one, never gets into a row.
THEOREM FolderTypes == Spec => []TypeOK
<1>1. TypeInv => TypeOK
  BY DEF TypeInv
<1> QED BY <1>1, TypeInit, TypeStep, PTL DEF Spec
-----------------------------------------------------------------------------
(* The links stay a forest.                                                 *)

\* The step is about other columns than parent_id, and removes nothing.
LinksKept ==
    \A f \in Ids : (Exists(f)' <=> Exists(f)) /\ folder'[f].parent = folder[f].parent

LEMMA KeptForest ==
    ASSUME RefsExist, NoCycle, LinksKept
    PROVE  RefsExist' /\ NoCycle'
<1>1. RefsExist'
  BY DEF RefsExist, LinksKept, Referable
<1>2. {f \in Ids : Exists(f)}' = {f \in Ids : Exists(f)}
  BY DEF LinksKept
<1>3. NoCycle'
  BY <1>2 DEF NoCycle, LinksKept
<1> QED BY <1>1, <1>3

LEMMA KeptAvoids ==
    ASSUME LinksKept, NEW V \in SUBSET Ids, NEW f, NEW c, Avoids(V, f, c)
    PROVE  Avoids(V, f, c)'
BY DEF LinksKept, Avoids

\* What may be written stays so while other fields of the request change.
LEMMA KeptHarmless ==
    ASSUME LinksKept, NEW o, NEW n, o.id \in Ids, n.id = o.id,
           n.copy.parent = o.copy.parent, Harmless(o)
    PROVE  Harmless(n)'
<1>1. CASE o.copy.parent \in {Root, Omitted, folder[o.id].parent}
  BY <1>1 DEF LinksKept, Harmless
<1>2. ASSUME NEW V \in SUBSET Ids, o.copy.parent \in V, Avoids(V, o.id, Root)
      PROVE  Harmless(n)'
  BY <1>2, KeptAvoids DEF Harmless
<1> QED BY <1>1, <1>2 DEF Harmless

\* In the other stages nothing is at stake.
LEMMA SafeStages ==
    ASSUME NEW n,
           \/ n.stage \in {"idle", "insert", "subtree", "remove", "removeSelf"}
           \/ n.stage = "children" /\ n.kind # "update"
           \/ n.stage = "rewrite" /\ n.kind # "update"
           \/ n.stage = "check" /\ n.kind = "create"
           \/ n.stage = "path" /\ n.kind = "create"
           \/ n.stage = "parent" /\ n.kind = "create"
    PROVE  RequestSafe(n)'
BY DEF RequestSafe, Unsaved

\* The only request there is.
LEMMA SafeAlone ==
    ASSUME NEW q \in Requests, \A p \in Requests : p = q, NEW n, op'[q] = n, RequestSafe(n)'
    PROVE  \A p \in Requests : RequestSafe(op[p])'
BY DEF RequestSafe, Unsaved, Harmless, Avoids

\* The heart of the matter.  A cycle made by writing the new parent goes
\* through the folder and its new parent; but the set V found on the way up
\* holds the parent and not the folder, and the part of the cycle inside V
\* would have been one before.
LEMMA RelinkForest ==
    ASSUME ForestInv, NEW o, o.id \in Ids, Exists(o.id), Harmless(o),
           \A f \in Ids : Exists(f)' <=> Exists(f),
           \A f \in Ids \ {o.id} : folder'[f].parent = folder[f].parent,
           \/ folder'[o.id].parent = folder[o.id].parent
           \/ folder'[o.id].parent = o.copy.parent /\ o.copy.parent # Omitted
              /\ Referable(o.copy.parent)
    PROVE  RefsExist' /\ NoCycle'
<1>1. RefsExist'
  BY DEF ForestInv, RefsExist, Referable
<1>2. SUFFICES ASSUME NEW S \in SUBSET {f \in Ids : Exists(f)}, S # {},
                      \A f \in S : folder'[f].parent \in S
               PROVE  FALSE
  <2>1. {f \in Ids : Exists(f)}' = {f \in Ids : Exists(f)}
    OBVIOUS
  <2> QED BY <1>1, <2>1 DEF NoCycle
<1>3. \E f \in S : folder[f].parent \notin S
  BY <1>2 DEF ForestInv, NoCycle
<1>4. o.id \in S /\ folder'[o.id].parent = o.copy.parent
      /\ o.copy.parent \notin {Root, Omitted, folder[o.id].parent}
  BY <1>2, <1>3, FolderAssumption
<1>5. PICK V \in SUBSET Ids : o.copy.parent \in V /\ Avoids(V, o.id, Root)
  BY <1>4 DEF Harmless
<1>6. o.copy.parent \in S \cap V
  BY <1>2, <1>4, <1>5
<1>7. \A f \in S \cap V : folder[f].parent \in S \cap V
  BY <1>2, <1>5, FolderAssumption DEF Avoids
<1> QED BY <1>6, <1>7 DEF ForestInv, NoCycle

\* A new row refers to one that exists, and nothing refers to the new one.
LEMMA InsertForest ==
    ASSUME RefsExist, NoCycle, NEW f \in Ids, ~Exists(f),
           \A g \in Ids \ {f} : folder'[g] = folder[g], Referable(folder'[f].parent)
    PROVE  RefsExist' /\ NoCycle'
<1>1. folder'[f].parent # f /\ \A g \in Ids : Exists(g) => folder[g].parent # f
  BY FolderAssumption DEF RefsExist, Referable
<1>2. \A g \in Ids \ {f} : Exists(g)' <=> Exists(g)
  BY DEF Exists
<1>3. RefsExist'
  <2>1. \A g \in Ids : Exists(g) => Exists(g)'
    BY <1>2
  <2> QED BY <1>2, <2>1 DEF RefsExist, Referable
<1>4. SUFFICES ASSUME NEW S \in SUBSET Ids, \A g \in S : Exists(g)', S # {},
                      \A g \in S : folder'[g].parent \in S
               PROVE  FALSE
  BY <1>3 DEF NoCycle
<1>5. S \ {f} # {}
  BY <1>1, <1>4
<1>6. \A g \in S \ {f} : Exists(g) /\ folder[g].parent \in S \ {f}
  BY <1>1, <1>2, <1>4
<1> QED BY <1>5, <1>6 DEF NoCycle

\* Removing rows nobody refers to.
LEMMA RemoveForest ==
    ASSUME RefsExist, NoCycle, NEW S, Unreferenced(S),
           folder' = [f \in Ids |-> IF f \in S /\ Exists(f)
                                    THEN [Blank EXCEPT !.state = "purged"] ELSE folder[f]]
    PROVE  RefsExist' /\ NoCycle'
<1>1. \A f \in Ids : Exists(f)' <=> Exists(f) /\ f \notin S
  BY DEF Exists, Blank
<1>2. \A f \in Ids : Exists(f)' => folder'[f].parent = folder[f].parent
  BY <1>1
<1>3. RefsExist'
  BY <1>1, <1>2 DEF RefsExist, Referable, Unreferenced
<1>4. NoCycle'
  BY <1>1, <1>2 DEF NoCycle
<1> QED BY <1>3, <1>4
-----------------------------------------------------------------------------
LEMMA ForestInit == Init => ForestInv
<1> SUFFICES ASSUME Init PROVE ForestInv
  OBVIOUS
<1>1. \A f \in Ids : ~Exists(f)
  BY DEF Init, Blank, Exists
<1>2. \A q \in Requests : RequestSafe(op[q])
  BY DEF Init, Idle, RequestSafe, Unsaved
<1> QED BY <1>1, <1>2, TypeInit DEF ForestInv, RefsExist, NoCycle

LEMMA StartsForest ==
    ASSUME ForestInv, NEW q \in Requests, Starts(q)
    PROVE  LinksKept /\ \E n : op'[q] = n /\ RequestSafe(n)'
<1> USE FolderAssumption
<1>1. op \in [Requests -> Op] /\ UNCHANGED folder
  BY DEF ForestInv, TypeInv, TypeOK, Starts, CreateStarts, UpdateStarts, MoveStarts, Moves,
         DeleteStarts, PurgeStarts
<1>2. LinksKept
  BY <1>1 DEF LinksKept, Exists
<1>3. PICK n : op'[q] = n
  OBVIOUS
<1>4. RequestSafe(n)'
  <2>1. ASSUME NEW m \in Names, NEW p \in Ids \cup {Root}, CreateStarts(q, m, p)
        PROVE  RequestSafe(n)'
    <3>1. n.kind = "create" /\ n.stage \in {"check", "parent"}
      BY <1>1, <1>3, <2>1 DEF CreateStarts, Begins, Idle
    <3> QED BY <3>1, SafeStages
  <2>2. ASSUME NEW f \in Ids, NEW m \in Names, UpdateStarts(q, f, m)
        PROVE  RequestSafe(n)'
    <3>1. /\ n.id = f /\ n.copy.parent = folder[f].parent
          /\ n.stage \in {"diff", "check"}
      BY <1>1, <1>3, <2>2 DEF UpdateStarts, Begins, Idle, ForestInv, TypeInv, TypeOK, Row
    <3> QED BY <1>1, <3>1 DEF RequestSafe, Harmless
  <2>3. ASSUME NEW f \in Ids, NEW t \in Ids \cup {Root, Omitted}, MoveStarts(q, f, t)
        PROVE  RequestSafe(n)'
    <3>1. /\ n.id = f /\ n.copy.parent = t /\ t # f
          /\ IF t \in Ids THEN n.stage = "parent" /\ n.at = t ELSE n.stage = "check"
      <4> DEFINE copy == [folder[f] EXCEPT !.parent = t, !.path = Joined(<<>>, folder[f].name)]
      <4>1. copy.parent = t
        BY DEF ForestInv, TypeInv, TypeOK, Row
      <4> HIDE DEF copy
      <4>2. n = [Idle EXCEPT !.kind = "move", !.id = f, !.old = folder[f].path,
                             !.at = IF t = Omitted THEN Root ELSE t,
                             !.stage = IF t \in Ids THEN "parent" ELSE "check", !.copy = copy]
        BY <1>1, <1>3, <2>3 DEF MoveStarts, Moves, Begins, copy
      <4>3. /\ n.id = f /\ n.copy = copy
            /\ n.at = IF t = Omitted THEN Root ELSE t
            /\ n.stage = IF t \in Ids THEN "parent" ELSE "check"
        BY <4>2 DEF Idle
      <4> QED BY <2>3, <4>1, <4>3 DEF MoveStarts
    <3> QED BY <3>1 DEF RequestSafe, Unsaved, Harmless
  <2>4. ASSUME NEW f \in Ids, DeleteStarts(q, f) PROVE RequestSafe(n)'
    <3>1. n.id = f /\ n.copy.parent = folder[f].parent /\ n.stage = "diff"
      BY <1>1, <1>3, <2>4 DEF DeleteStarts, Goes, Idle, ForestInv, TypeInv, TypeOK, Row
    <3> QED BY <1>1, <3>1 DEF RequestSafe, Harmless
  <2>5. ASSUME NEW f \in Ids, PurgeStarts(q, f) PROVE RequestSafe(n)'
    <3>1. n.kind = "purge" /\ n.stage = "children"
      BY <1>1, <1>3, <2>5 DEF PurgeStarts, Goes, Idle
    <3> QED BY <3>1, SafeStages
  <2> QED BY <2>1, <2>2, <2>3, <2>4, <2>5 DEF Starts
<1> QED BY <1>2, <1>3, <1>4

\* One step further up: the folder just looked at is in V, its parent joins.
LEMMA WalkForest ==
    ASSUME ForestInv, NEW q \in Requests, Walk(q)
    PROVE  \E n : op'[q] = n /\ RequestSafe(n)'
<1> USE FolderAssumption
<1>1. PICK o, n : op[q] = o /\ op'[q] = n
  OBVIOUS
<1>2. op \in [Requests -> Op] /\ UNCHANGED folder /\ o \in Op
  BY <1>1 DEF ForestInv, TypeInv, TypeOK, Walk
<1>3. PICK V \in SUBSET Ids : {o.copy.parent, o.cursor} \subseteq V /\ Avoids(V, o.id, o.cursor)
  BY <1>1 DEF ForestInv, RequestSafe, Walk
<1> DEFINE up == folder[o.cursor].parent
<1>4. Exists(o.cursor) /\ (up = Root \/ (up \in Ids /\ Exists(up)))
  BY <1>3 DEF ForestInv, RefsExist, Referable, Avoids
<1>5. CASE up = o.id
  <2>1. n.stage = "idle"
    BY <1>1, <1>2, <1>4, <1>5 DEF Walk, Ends, Goes, Idle
  <2> QED BY <1>1, <2>1, SafeStages
<1>6. CASE up # o.id /\ up = Root
  <2>1. n.stage = "check" /\ n.id = o.id /\ n.copy = o.copy
    BY <1>1, <1>2, <1>4, <1>6 DEF Walk, Goes, Op
  <2>2. Avoids(V, o.id, Root)
    BY <1>3, <1>6 DEF Avoids
  <2>3. Harmless(n)'
    BY <1>2, <1>3, <2>1, <2>2 DEF Harmless, Avoids, Exists
  <2> QED BY <1>1, <2>1, <2>3 DEF RequestSafe
<1>7. CASE up # o.id /\ up # Root
  <2>1. n.stage = "walk" /\ n.id = o.id /\ n.copy = o.copy /\ n.cursor = up
    BY <1>1, <1>2, <1>4, <1>7 DEF Walk, Goes, Op
  <2>2. Avoids(V \cup {up}, o.id, up)
    BY <1>3, <1>4, <1>7 DEF Avoids
  <2>3. \E W \in SUBSET Ids : {n.copy.parent, n.cursor} \subseteq W /\ Avoids(W, n.id, n.cursor)
    BY <1>3, <1>4, <1>7, <2>1, <2>2
  <2>4. (\E W \in SUBSET Ids : {n.copy.parent, n.cursor} \subseteq W /\ Avoids(W, n.id, n.cursor))'
    BY <1>2, <2>3 DEF Avoids, Exists
  <2> QED BY <1>1, <2>1, <2>4 DEF RequestSafe, Unsaved
<1> QED BY <1>5, <1>6, <1>7

\* The steps that leave the links alone.
LEMMA OthersForest ==
    ASSUME ForestInv, NEW q \in Requests,
           \/ FindParent(q) \/ Check(q) \/ ComputePath(q) \/ Diff(q) \/ FindChildren(q)
           \/ Subtree(q) \/ \E row \in op[q].found : Rewrite(q, row)
    PROVE  LinksKept /\ \E n : op'[q] = n /\ RequestSafe(n)'
<1> USE FolderAssumption
<1>1. PICK o, n : op[q] = o /\ op'[q] = n
  OBVIOUS
<1>2. op \in [Requests -> Op] /\ o \in Op /\ folder \in [Ids -> Row]
  BY <1>1 DEF ForestInv, TypeInv, TypeOK
<1>3. o.stage # "idle" => o.id \in Ids
  BY <1>1 DEF ForestInv, TypeInv, RequestOK, Idle
<1>4. RequestSafe(o)
  BY <1>1 DEF ForestInv
<1>5. ASSUME UNCHANGED folder PROVE LinksKept
  BY <1>5 DEF LinksKept, Exists
\* The request goes on with the same entity at stake, or with nothing.
<1>6. ASSUME LinksKept, o.stage # "idle", Unsaved(o), n.id = o.id,
             n.copy.parent = o.copy.parent, n.stage \notin {"parent", "walk"}
      PROVE  RequestSafe(n)'
  <2>1. Harmless(n)'
    BY <1>3, <1>4, <1>6, KeptHarmless DEF RequestSafe
  <2> QED BY <1>6, <2>1 DEF RequestSafe
<1>7. ASSUME FindParent(q) PROVE LinksKept /\ RequestSafe(n)'
  <2>1. CASE n = Idle
    BY <1>5, <1>7, <2>1, SafeStages DEF FindParent, Idle
  <2>2. CASE o.kind = "create" /\ n = [o EXCEPT !.stage = "check"]
    <3>1. n.stage = "check" /\ n.kind = "create"
      BY <1>2, <2>2 DEF Op
    <3> QED BY <1>5, <1>7, <3>1, SafeStages DEF FindParent
  <2>3. CASE /\ o.kind # "create" /\ Live(o.at)
             /\ n = [o EXCEPT !.stage = "walk", !.cursor = o.at,
                              !.copy.path = Joined(folder[o.at].path, o.copy.name)]
    <3>1. n.stage = "walk" /\ n.id = o.id /\ n.cursor = o.at /\ n.copy.parent = o.copy.parent
      BY <1>2, <2>3 DEF Op, Copy
    <3>2. o.copy.parent = o.at /\ o.at # o.id
      BY <1>1, <1>4, <1>7, <2>3 DEF FindParent, RequestSafe
    <3>3. o.at \in Ids
      BY <1>1, <1>7 DEF FindParent, ForestInv, TypeInv, RequestOK, Idle
    <3>4. Avoids({o.at}, o.id, o.at)
      BY <2>3, <3>2 DEF Avoids, Live, Exists
    <3>5. Avoids({o.at}, n.id, n.cursor)'
      BY <1>5, <1>7, <3>1, <3>3, <3>4, KeptAvoids DEF FindParent
    <3> QED BY <1>5, <1>7, <3>1, <3>2, <3>3, <3>5 DEF FindParent, RequestSafe, Unsaved
  <2> QED BY <1>1, <1>2, <1>7, <2>1, <2>2, <2>3 DEF FindParent, Goes, Ends
<1>8. ASSUME Check(q) PROVE LinksKept /\ RequestSafe(n)'
  <2>1. \/ n.stage = "idle"
        \/ /\ n.id = o.id /\ n.copy = o.copy /\ n.kind = o.kind
           /\ n.stage = "path" \/ (o.kind = "move" /\ n.stage = "diff")
    <3>1. \/ n = Idle
          \/ n = [o EXCEPT !.stage = "path"]
          \/ o.kind = "move" /\ n = [o EXCEPT !.stage = "diff"]
      BY <1>1, <1>2, <1>8 DEF Check, Checked, Goes, Ends
    <3> QED BY <1>2, <3>1 DEF Op, Idle
  <2>2. LinksKept
    BY <1>5, <1>8 DEF Check, Checked
  <2>3. CASE n.stage = "idle" \/ (n.stage = "path" /\ n.kind = "create")
    BY <2>2, <2>3, SafeStages
  <2>4. CASE n.stage # "idle" /\ o.kind # "create"
    <3>1. Unsaved(o) /\ o.stage # "idle"
      BY <1>1, <1>8, <2>4 DEF Check, Checked, Unsaved
    <3> QED BY <1>6, <2>1, <2>2, <2>4, <3>1
  <2> QED BY <2>1, <2>3, <2>4
<1>9. ASSUME ComputePath(q) PROVE LinksKept /\ RequestSafe(n)'
  <2>1. CASE n = Idle
    BY <1>5, <1>9, <2>1, SafeStages DEF ComputePath, Idle
  <2>2. ASSUME NEW p, n = [o EXCEPT !.stage = IF o.kind = "create" THEN "insert" ELSE "children",
                                    !.copy.path = p]
        PROVE  LinksKept /\ RequestSafe(n)'
    <3>1. /\ n.id = o.id /\ n.copy.parent = o.copy.parent /\ n.kind = o.kind
          /\ n.stage = IF o.kind = "create" THEN "insert" ELSE "children"
      BY <1>2, <2>2 DEF Op, Copy
    <3>2. CASE o.kind # "update"
      BY <1>5, <1>9, <3>1, <3>2, SafeStages DEF ComputePath
    <3>3. CASE o.kind = "update"
      <4>1. Unsaved(o) /\ o.stage # "idle"
        BY <1>1, <1>9, <3>3 DEF ComputePath, Unsaved
      <4> QED BY <1>5, <1>6, <1>9, <3>1, <3>3, <4>1 DEF ComputePath
    <3> QED BY <3>2, <3>3
  <2>3. \/ n = Idle
        \/ n = [o EXCEPT !.stage = IF o.kind = "create" THEN "insert" ELSE "children",
                         !.copy.path = Joined(<<>>, o.copy.name)]
        \/ n = [o EXCEPT !.stage = IF o.kind = "create" THEN "insert" ELSE "children",
                         !.copy.path = Joined(folder[o.at].path, o.copy.name)]
    BY <1>1, <1>2, <1>9 DEF ComputePath, Goes, Ends
  <2> QED BY <2>1, <2>2, <2>3
<1>10. ASSUME Diff(q) PROVE LinksKept /\ RequestSafe(n)'
  <2>1. n = [o EXCEPT !.stage = "insert"] \/ n = [o EXCEPT !.stage = "save", !.dirty = Differs(o)]
    BY <1>1, <1>2, <1>10 DEF Diff, Goes
  <2>2. n.id = o.id /\ n.copy = o.copy /\ n.stage \in {"insert", "save"}
    BY <1>2, <2>1 DEF Op
  <2>3. Unsaved(o) /\ o.stage # "idle"
    BY <1>1, <1>10 DEF Diff, Unsaved
  <2> QED BY <1>5, <1>6, <1>10, <2>2, <2>3 DEF Diff
<1>11. ASSUME FindChildren(q) PROVE LinksKept /\ RequestSafe(n)'
  <2>4. PICK ids : Collects(q, ids)
    BY <1>11 DEF FindChildren
  <2>1. /\ n.stage \in {"idle", "removeSelf", "remove", "rewrite", "diff"}
        /\ n.stage = "diff" => o.kind = "update"
        /\ n = Idle \/ (n.id = o.id /\ n.copy = o.copy /\ n.kind = o.kind)
    <3> DEFINE rows == {[id |-> f, path |-> folder[f].path] : f \in ids}
    <3>1. \/ n = Idle
          \/ n = [o EXCEPT !.stage = "removeSelf", !.found = rows]
          \/ n = [o EXCEPT !.stage = "remove", !.found = rows]
          \/ n = [o EXCEPT !.stage = "rewrite", !.found = rows]
          \/ n = [o EXCEPT !.stage = "diff", !.found = rows] /\ o.kind = "update"
      BY <1>1, <1>2, <2>4 DEF Collects, Goes, Ends
    <3> HIDE DEF rows
    <3>2. CASE n = Idle
      BY <3>2 DEF Idle
    <3>3. ASSUME NEW s \in {"removeSelf", "remove", "rewrite", "diff"},
                 n = [o EXCEPT !.stage = s, !.found = rows]
          PROVE  n.stage = s /\ n.id = o.id /\ n.copy = o.copy /\ n.kind = o.kind
      BY <1>2, <3>3 DEF Op
    <3> QED BY <3>1, <3>2, <3>3
  <2>2. CASE n.stage \in {"idle", "removeSelf", "remove"} \/ (n.stage = "rewrite" /\ n.kind # "update")
    BY <1>5, <2>2, <2>4, SafeStages DEF Collects
  <2>3. CASE n.stage = "diff" \/ (n.stage = "rewrite" /\ n.kind = "update")
    <3>1. n # Idle /\ o.kind = "update"
      BY <2>1, <2>3 DEF Idle
    <3>2. Unsaved(o) /\ o.stage # "idle"
      BY <1>1, <2>4, <3>1 DEF Collects, Unsaved
    <3> QED BY <1>5, <1>6, <2>1, <2>3, <2>4, <3>1, <3>2 DEF Collects
  <2> QED BY <2>1, <2>2, <2>3
<1>12. ASSUME Subtree(q) PROVE LinksKept /\ RequestSafe(n)'
  <2>3. PICK ids : Marks(q, ids)
    BY <1>12 DEF Subtree
  <2>1. LinksKept
    BY <1>2, <2>3 DEF Marks, LinksKept, Live, Exists, Row
  <2>2. n.stage = "idle"
    BY <1>1, <1>2, <2>3 DEF Marks, Ends, Goes, Idle
  <2> QED BY <2>1, <2>2, SafeStages
<1>13. ASSUME NEW row \in o.found, Rewrite(q, row) PROVE LinksKept /\ RequestSafe(n)'
  <2>1. LinksKept
    BY <1>1, <1>2, <1>13 DEF Rewrite, LinksKept, Exists, Row
  <2>2. n = Idle \/ (/\ n.id = o.id /\ n.copy = o.copy /\ n.kind = o.kind
                     /\ n.stage = "rewrite" \/ (n.stage = "diff" /\ o.kind = "update"))
    <3>1. \/ n = Idle
          \/ \E left : n = [o EXCEPT !.found = left]
          \/ o.kind = "update" /\ n = [o EXCEPT !.found = {}, !.stage = "diff"]
      BY <1>1, <1>2, <1>13 DEF Rewrite, Goes, Ends, Refused, Aborts
    <3>2. o.stage = "rewrite"
      BY <1>1, <1>13 DEF Rewrite
    <3> QED BY <1>2, <3>1, <3>2 DEF Op
  <2>3. CASE n = Idle \/ (n.stage = "rewrite" /\ n.kind # "update")
    BY <2>1, <2>3, SafeStages DEF Idle
  <2>4. CASE n # Idle /\ o.kind = "update"
    <3>1. Unsaved(o) /\ o.stage # "idle"
      BY <1>1, <1>13, <2>4 DEF Rewrite, Unsaved
    <3> QED BY <1>6, <2>1, <2>2, <2>4, <3>1
  <2> QED BY <2>2, <2>3, <2>4
<1> QED BY <1>1, <1>7, <1>8, <1>9, <1>10, <1>11, <1>12, <1>13

\* The steps that write or remove rows.
LEMMA WritesForest ==
    ASSUME ForestInv, NEW q \in Requests,
           Insert(q) \/ Save(q) \/ RemoveChildren(q) \/ RemoveSelf(q)
    PROVE  RefsExist' /\ NoCycle' /\ \E n : op'[q] = n /\ RequestSafe(n)'
<1> USE FolderAssumption
<1>1. PICK o, n : op[q] = o /\ op'[q] = n
  OBVIOUS
<1>2. op \in [Requests -> Op] /\ o \in Op /\ folder \in [Ids -> Row]
  BY <1>1 DEF ForestInv, TypeInv, TypeOK
<1>3. RequestOK(o)
  BY <1>1 DEF ForestInv, TypeInv, Idle, Insert, Save, RemoveChildren, RemoveSelf
<1>4. o.id \in Ids /\ RefsExist /\ NoCycle /\ RequestSafe(o)
  BY <1>1, <1>3 DEF RequestOK, ForestInv
<1>5. ASSUME UNCHANGED folder PROVE RefsExist' /\ NoCycle'
  <2>1. LinksKept
    BY <1>5 DEF LinksKept, Exists
  <2> QED BY <1>4, <2>1, KeptForest
<1>6. ASSUME Ends(q) \/ Refused(q) PROVE RequestSafe(n)'
  BY <1>1, <1>2, <1>6, SafeStages DEF Ends, Goes, Refused, Aborts, Idle
<1>7. ASSUME Saved(q) PROVE RequestSafe(n)'
  <2>1. \/ n = Idle
        \/ o.kind = "move" /\ n = [o EXCEPT !.stage = "children"]
        \/ o.kind = "delete" /\ n = [o EXCEPT !.stage = "subtree"]
    BY <1>1, <1>2, <1>7 DEF Saved, Goes, Ends
  <2>2. n.stage \in {"idle", "subtree"} \/ (n.stage = "children" /\ n.kind # "update")
    <3>1. CASE n = Idle
      BY <3>1 DEF Idle
    <3>2. CASE o.kind = "move" /\ n = [o EXCEPT !.stage = "children"]
      BY <1>2, <3>2 DEF Op
    <3>3. CASE o.kind = "delete" /\ n = [o EXCEPT !.stage = "subtree"]
      <4>1. n.stage = "subtree"
        BY <1>2, <3>3 DEF Op
      <4> QED BY <4>1
    <3> QED BY <2>1, <3>1, <3>2, <3>3
  <2> QED BY <2>2, SafeStages
<1>8. CASE Insert(q)
  <2> DEFINE p == IF o.copy.parent = Omitted THEN Root ELSE o.copy.parent
             row == [o.copy EXCEPT !.parent = p]
  <2>1. CASE /\ ~Exists(o.id) /\ Referable(p) /\ Saved(q)
             /\ folder' = [folder EXCEPT ![o.id] = row]
    <3>1. row.parent = p
      BY <1>2 DEF Op, Copy
    <3>2. folder'[o.id].parent = p /\ \A g \in Ids \ {o.id} : folder'[g] = folder[g]
      BY <1>2, <1>4, <2>1, <3>1
    <3>3. RefsExist' /\ NoCycle'
      BY <1>4, <2>1, <3>2, InsertForest
    <3> QED BY <1>1, <1>7, <2>1, <3>3
  <2> QED BY <1>1, <1>5, <1>6, <1>8, <2>1 DEF Insert
<1>9. CASE Save(q)
  <2>1. CASE /\ Exists(o.id) /\ Saved(q)
             /\ "parent" \in o.dirty => Referable(o.copy.parent)
             /\ folder' = [folder EXCEPT ![o.id] = Written(@, o)]
    <3>1. folder'[o.id] = Written(folder[o.id], o)
          /\ \A g \in Ids \ {o.id} : folder'[g] = folder[g]
      BY <1>2, <1>4, <2>1
    <3>2. /\ folder'[o.id].parent = IF "parent" \in o.dirty THEN o.copy.parent
                                    ELSE folder[o.id].parent
          /\ folder'[o.id].state \in {folder[o.id].state, o.copy.state}
      BY <3>1 DEF Written
    <3>3. \A f \in Ids : Exists(f)' <=> Exists(f)
      BY <1>3, <1>4, <2>1, <3>1, <3>2 DEF Exists, RequestOK
    <3>4. Harmless(o)
      BY <1>1, <1>4, <1>9 DEF Save, RequestSafe, Unsaved
    <3>5. \A f \in Ids \ {o.id} : folder'[f].parent = folder[f].parent
      BY <3>1
    <3>6. \/ folder'[o.id].parent = folder[o.id].parent
          \/ folder'[o.id].parent = o.copy.parent /\ o.copy.parent # Omitted
             /\ Referable(o.copy.parent)
      BY <1>3, <2>1, <3>2 DEF RequestOK
    <3>7. RefsExist' /\ NoCycle'
      BY <1>4, <2>1, <3>3, <3>4, <3>5, <3>6, RelinkForest
    <3> QED BY <1>1, <1>7, <2>1, <3>7
  <2> QED BY <1>1, <1>5, <1>6, <1>7, <1>9, <2>1 DEF Save
<1>10. ASSUME NEW S, NEW next, Removes(q, S, next) PROVE RefsExist' /\ NoCycle'
  BY <1>4, <1>5, <1>10, RemoveForest DEF Removes
<1>11. CASE RemoveChildren(q)
  <2>1. n = Idle \/ n = [o EXCEPT !.stage = "removeSelf", !.found = {}]
    BY <1>1, <1>2, <1>11 DEF RemoveChildren, Removes, Goes, Ends
  <2>2. n.stage \in {"idle", "removeSelf"}
    <3>1. CASE n = Idle
      BY <3>1 DEF Idle
    <3>2. CASE n = [o EXCEPT !.stage = "removeSelf", !.found = {}]
      <4>1. n.stage = "removeSelf"
        BY <1>2, <3>2 DEF Op
      <4> QED BY <4>1
    <3> QED BY <2>1, <3>1, <3>2
  <2> QED BY <1>1, <1>10, <1>11, <2>2, SafeStages DEF RemoveChildren
<1>12. CASE RemoveSelf(q)
  <2>1. n.stage = "idle"
    BY <1>1, <1>2, <1>12 DEF RemoveSelf, Removes, Goes, Ends, Idle
  <2> QED BY <1>1, <1>10, <1>12, <2>1, SafeStages DEF RemoveSelf
<1> QED BY <1>8, <1>9, <1>11, <1>12

LEMMA ForestStep ==
    ASSUME \A p, q \in Requests : p = q, ForestInv, [Next]_vars
    PROVE  ForestInv'
<1>1. TypeInv'
  BY TypeStep DEF ForestInv
<1>2. ASSUME NEW q \in Requests, RefsExist', NoCycle', \E n : op'[q] = n /\ RequestSafe(n)'
      PROVE  ForestInv'
  <2>1. PICK n : op'[q] = n /\ RequestSafe(n)'
    BY <1>2
  <2>2. \A p \in Requests : RequestSafe(op[p])'
    BY <2>1, SafeAlone
  <2> QED BY <1>1, <1>2, <2>2 DEF ForestInv
<1>3. ASSUME NEW q \in Requests, LinksKept, \E n : op'[q] = n /\ RequestSafe(n)'
      PROVE  ForestInv'
  BY <1>2, <1>3, KeptForest DEF ForestInv
<1>4. ASSUME NEW q \in Requests, Continues(q) PROVE ForestInv'
  <2>1. CASE Walk(q)
    <3>1. LinksKept
      BY <2>1 DEF Walk, LinksKept, Exists
    <3> QED BY <1>3, <2>1, <3>1, WalkForest
  <2>2. CASE \/ FindParent(q) \/ Check(q) \/ ComputePath(q) \/ Diff(q) \/ FindChildren(q)
             \/ Subtree(q) \/ \E row \in op[q].found : Rewrite(q, row)
    BY <1>3, <2>2, OthersForest
  <2>3. CASE Insert(q) \/ Save(q) \/ RemoveChildren(q) \/ RemoveSelf(q)
    BY <1>2, <2>3, WritesForest
  <2> QED BY <1>4, <2>1, <2>2, <2>3 DEF Continues
<1>5. ASSUME NEW q \in Requests, Starts(q) PROVE ForestInv'
  BY <1>3, <1>5, StartsForest
<1>6. ASSUME NEW q \in Requests, Fails(q) PROVE ForestInv'
  <2>1. LinksKept
    BY <1>6 DEF Fails, LinksKept, Exists
  <2>2. PICK n : op'[q] = n
    OBVIOUS
  <2>3. n.stage = "idle"
    BY <1>6, <2>2 DEF Fails, Aborts, Idle, ForestInv, TypeInv, TypeOK
  <2> QED BY <1>3, <1>6, <2>1, <2>2, <2>3, SafeStages
<1>7. CASE UNCHANGED vars
  <2>1. LinksKept
    BY <1>7 DEF vars, LinksKept, Exists
  <2>2. \A q \in Requests : RequestSafe(op[q])'
    BY <1>7 DEF vars, ForestInv, RequestSafe, Unsaved, Harmless, Avoids, Exists
  <2> QED BY <1>1, <2>1, <2>2, KeptForest DEF ForestInv
<1> QED BY <1>4, <1>5, <1>6, <1>7 DEF Next

\* As long as requests come one at a time, the folders are a forest, whatever
\* crashes and errors cut a request short: no move puts a folder below itself.
THEOREM NoCycleAlways ==
    ASSUME \A p, q \in Requests : p = q
    PROVE  Spec => []NoCycle
<1>1. ForestInv /\ [Next]_vars => ForestInv'
  BY ForestStep
<1>2. ForestInv => NoCycle
  BY DEF ForestInv
<1> QED BY <1>1, <1>2, ForestInit, PTL DEF Spec
-----------------------------------------------------------------------------
(* Folders in the same place keep different names.                          *)

\* The step is about paths only.
NamesKept ==
    \A f \in Ids : /\ Live(f)' <=> Live(f)
                   /\ folder'[f].name = folder[f].name /\ folder'[f].parent = folder[f].parent

LEMMA KeptDistinct ==
    ASSUME SiblingsDistinct, NamesKept
    PROVE  SiblingsDistinct'
<1>1. \A f, g \in Ids :
          (f # g /\ Live(f) /\ Live(g) /\ folder[f].parent = folder[g].parent)
          => folder[f].name # folder[g].name
  BY DEF SiblingsDistinct
<1>2. \A f, g \in Ids :
          (f # g /\ Live(f)' /\ Live(g)' /\ folder'[f].parent = folder'[g].parent)
          => folder'[f].name # folder'[g].name
  BY <1>1 DEF NamesKept
<1> QED BY <1>2 DEF SiblingsDistinct

\* Names that are given up take nothing away.
LEMMA FewerDistinct ==
    ASSUME SiblingsDistinct,
           \A f \in Ids : Live(f)' => Live(f) /\ folder'[f] = folder[f]
    PROVE  SiblingsDistinct'
<1>1. \A f, g \in Ids :
          (f # g /\ Live(f) /\ Live(g) /\ folder[f].parent = folder[g].parent)
          => folder[f].name # folder[g].name
  BY DEF SiblingsDistinct
<1>2. \A f, g \in Ids :
          (f # g /\ Live(f)' /\ Live(g)' /\ folder'[f].parent = folder'[g].parent)
          => folder'[f].name # folder'[g].name
  BY <1>1
<1> QED BY <1>2 DEF SiblingsDistinct

\* The folder that is written gets a name that is free.
LEMMA WrittenDistinct ==
    ASSUME SiblingsDistinct, NEW o, o.id \in Ids, Free(o) \/ ~Live(o.id)',
           folder'[o.id].name = o.copy.name, folder'[o.id].parent = Place(o),
           \A f \in Ids \ {o.id} : folder'[f] = folder[f]
    PROVE  SiblingsDistinct'
<1>1. \A f \in Ids \ {o.id} : Live(f)' <=> Live(f)
  BY DEF Live
<1>2. \A f, g \in Ids :
          (f # g /\ Live(f) /\ Live(g) /\ folder[f].parent = folder[g].parent)
          => folder[f].name # folder[g].name
  BY DEF SiblingsDistinct
<1>3. \A g \in Ids \ {o.id} : (Live(o.id)' /\ Live(g)' /\ folder'[o.id].parent = folder'[g].parent)
                              => folder'[o.id].name # folder'[g].name
  BY <1>1 DEF Free
<1>4. \A f, g \in Ids :
          (f # g /\ Live(f)' /\ Live(g)' /\ folder'[f].parent = folder'[g].parent)
          => folder'[f].name # folder'[g].name
  BY <1>1, <1>2, <1>3
<1> QED BY <1>4 DEF SiblingsDistinct

\* A free name stays free.
LEMMA KeptFree ==
    ASSUME NamesKept, NEW o, NEW n, o.id \in Ids, n.id = o.id,
           n.copy.name = o.copy.name, n.copy.parent = o.copy.parent, Free(o)
    PROVE  Free(n)'
BY DEF NamesKept, Free, Place

\* A request goes on with the same entity, to a stage that relies on no more.
LEMMA OnDistinct ==
    ASSUME NamesKept, NEW o, NEW n, o.id \in Ids, n.id = o.id, n.kind = o.kind, n.at = o.at,
           n.copy.name = o.copy.name, n.copy.parent = o.copy.parent, n.copy.state = o.copy.state,
           RequestDistinct(o), n.stage # "save",
           n.stage \in {"parent", "walk", "check"} <=> o.stage \in {"parent", "walk", "check"},
           n.kind = "create" => n.stage \in {"parent", "check", "path", "insert"},
           n.stage = "insert" => n.kind = "create"
    PROVE  RequestDistinct(n)'
<1>1. Free(o) => Free(n)'
  BY KeptFree
<1>2. n.kind # "create" => Live(n.id)'
  BY DEF RequestDistinct, NamesKept
<1> QED BY <1>1, <1>2 DEF RequestDistinct

LEMMA StartsDistinct ==
    ASSUME SiblingInv, NEW q \in Requests, Starts(q)
    PROVE  NamesKept /\ \E n : op'[q] = n /\ (Unwritten(n) => RequestDistinct(n)')
<1> USE FolderAssumption
<1>1. op \in [Requests -> Op] /\ UNCHANGED folder /\ folder \in [Ids -> Row]
  BY DEF SiblingInv, TypeInv, TypeOK, Starts, CreateStarts, UpdateStarts, MoveStarts, Moves,
         DeleteStarts, PurgeStarts
<1>2. NamesKept
  BY <1>1 DEF NamesKept, Live
<1>3. PICK n : op'[q] = n
  OBVIOUS
\* The folder has the name it had, in its place.
<1>4. ASSUME NEW f \in Ids, Live(f), n.id = f, n.copy.name = folder[f].name,
             Place(n) = folder[f].parent
      PROVE  Free(n)'
  <2>1. \A g \in Ids \ {f} : ~(/\ Live(g) /\ folder[g].name = folder[f].name
                               /\ folder[g].parent = folder[f].parent)
    BY <1>4 DEF SiblingInv, SiblingsDistinct
  <2>2. Free(n)
    BY <1>4, <2>1 DEF Free
  <2> QED BY <1>1, <2>2 DEF Free, Place, Live
<1>5. ASSUME NEW m \in Names, NEW p \in Ids \cup {Root}, CreateStarts(q, m, p)
      PROVE  RequestDistinct(n)'
  <2>1. /\ n.kind = "create" /\ n.stage \in {"check", "parent"}
        /\ n.copy.parent = p /\ n.at = p
    BY <1>1, <1>3, <1>5 DEF CreateStarts, Begins, Idle
  <2> QED BY <2>1 DEF RequestDistinct
<1>6. ASSUME NEW f \in Ids, NEW m \in Names, UpdateStarts(q, f, m)
      PROVE  RequestDistinct(n)'
  <2> DEFINE copy == [folder[f] EXCEPT !.name = m]
  <2>1. copy.name = m /\ copy.parent = folder[f].parent
    BY <1>1 DEF Row
  <2> HIDE DEF copy
  <2>2. n = [Idle EXCEPT !.kind = "update", !.id = f, !.at = folder[f].parent,
                         !.stage = IF m = folder[f].name THEN "diff" ELSE "check",
                         !.copy = copy, !.old = folder[f].path]
    BY <1>1, <1>3, <1>6 DEF UpdateStarts, Begins, copy
  <2>3. /\ n.kind = "update" /\ n.id = f /\ n.at = folder[f].parent /\ n.copy = copy
        /\ n.stage = IF m = folder[f].name THEN "diff" ELSE "check"
    BY <2>2 DEF Idle
  <2>4. Live(f) /\ Live(f)'
    BY <1>1, <1>6 DEF UpdateStarts, Live
  <2>5. folder[f].parent # Omitted
    BY <1>1 DEF Row
  <2>6. m = folder[f].name => Free(n)'
    BY <1>4, <2>1, <2>3, <2>4, <2>5 DEF Place
  <2> QED BY <2>1, <2>3, <2>4, <2>6 DEF RequestDistinct
<1>7. ASSUME NEW f \in Ids, NEW t \in Ids \cup {Root, Omitted}, MoveStarts(q, f, t)
      PROVE  RequestDistinct(n)'
  <2> DEFINE copy == [folder[f] EXCEPT !.parent = t, !.path = Joined(<<>>, folder[f].name)]
  <2>1. copy.parent = t /\ copy.name = folder[f].name
    BY <1>1 DEF Row
  <2> HIDE DEF copy
  <2>2. n = [Idle EXCEPT !.kind = "move", !.id = f, !.old = folder[f].path,
                         !.at = IF t = Omitted THEN Root ELSE t,
                         !.stage = IF t \in Ids THEN "parent" ELSE "check", !.copy = copy]
    BY <1>1, <1>3, <1>7 DEF MoveStarts, Moves, Begins, copy
  <2>3. /\ n.kind = "move" /\ n.id = f /\ n.copy = copy
        /\ n.at = (IF t = Omitted THEN Root ELSE t)
        /\ n.stage = (IF t \in Ids THEN "parent" ELSE "check")
    BY <2>2 DEF Idle
  <2>4. Live(f) /\ Live(f)'
    BY <1>1, <1>7 DEF MoveStarts, Moves, Live
  <2>5. t = Omitted => Free(n)'
    BY <1>4, <2>1, <2>3, <2>4 DEF Place
  <2>6. n.stage \in {"parent", "check"} /\ (t # Omitted => n.copy.parent = n.at)
    BY <2>1, <2>3
  <2> QED BY <2>3, <2>4, <2>5, <2>6 DEF RequestDistinct
<1>8. ASSUME NEW f \in Ids, DeleteStarts(q, f) PROVE RequestDistinct(n)'
  <2>1. n.kind = "delete" /\ n.id = f /\ n.stage = "diff" /\ n.copy.state = "deleted"
    BY <1>1, <1>3, <1>8 DEF DeleteStarts, Goes, Idle, Row
  <2>2. Live(f)'
    BY <1>1, <1>8 DEF DeleteStarts, Live
  <2> QED BY <2>1, <2>2 DEF RequestDistinct
<1>9. ASSUME NEW f \in Ids, PurgeStarts(q, f) PROVE ~Unwritten(n)
  <2>1. n.kind = "purge" /\ n.stage = "children"
    BY <1>1, <1>3, <1>9 DEF PurgeStarts, Goes, Idle
  <2> QED BY <2>1 DEF Unwritten
<1> QED BY <1>2, <1>3, <1>5, <1>6, <1>7, <1>8, <1>9 DEF Starts

\* The steps that leave names, places and states alone.
LEMMA ReadsDistinct ==
    ASSUME SiblingInv, NEW q \in Requests,
           \/ FindParent(q) \/ Walk(q) \/ Check(q) \/ ComputePath(q) \/ Diff(q) \/ FindChildren(q)
           \/ \E row \in op[q].found : Rewrite(q, row)
    PROVE  NamesKept /\ \E n : op'[q] = n /\ (Unwritten(n) => RequestDistinct(n)')
<1> USE FolderAssumption
<1>1. PICK o, n : op[q] = o /\ op'[q] = n
  OBVIOUS
<1>2. op \in [Requests -> Op] /\ o \in Op /\ folder \in [Ids -> Row]
  BY <1>1 DEF SiblingInv, TypeInv, TypeOK
<1>3. o.stage # "idle" => o.id \in Ids
  BY <1>1 DEF SiblingInv, TypeInv, RequestOK, Idle
<1>4. Unwritten(o) => RequestDistinct(o)
  BY <1>1 DEF SiblingInv
<1>5. ASSUME UNCHANGED folder PROVE NamesKept
  BY <1>5 DEF NamesKept, Live
<1>6. ~Unwritten(Idle)
  BY DEF Unwritten, Idle
<1>7. ASSUME FindParent(q) PROVE NamesKept /\ (Unwritten(n) => RequestDistinct(n)')
  <2>1. NamesKept
    BY <1>5, <1>7 DEF FindParent
  <2>2. o.stage = "parent" /\ Unwritten(o)
    BY <1>1, <1>7 DEF FindParent, Unwritten
  <2>3. CASE o.kind = "create" /\ n = [o EXCEPT !.stage = "check"]
    <3>1. n.stage = "check" /\ n.id = o.id /\ n.copy = o.copy /\ n.kind = o.kind /\ n.at = o.at
      BY <1>2, <2>3 DEF Op
    <3> QED BY <1>3, <1>4, <2>1, <2>2, <2>3, <3>1, OnDistinct
  <2>4. CASE /\ o.kind # "create"
             /\ n = [o EXCEPT !.stage = "walk", !.cursor = o.at,
                              !.copy.path = Joined(folder[o.at].path, o.copy.name)]
    <3>1. n.stage = "walk" /\ n.id = o.id /\ n.kind = o.kind /\ n.at = o.at
      BY <1>2, <2>4 DEF Op
    <3>2. n.copy = [o.copy EXCEPT !.path = Joined(folder[o.at].path, o.copy.name)]
      BY <1>2, <2>4 DEF Op
    <3>3. n.copy.name = o.copy.name /\ n.copy.parent = o.copy.parent /\ n.copy.state = o.copy.state
      BY <1>2, <3>2 DEF Op, Copy
    <3> QED BY <1>3, <1>4, <2>1, <2>2, <2>4, <3>1, <3>3, OnDistinct
  <2>5. n = Idle \/ (o.kind = "create" /\ n = [o EXCEPT !.stage = "check"])
        \/ (/\ o.kind # "create"
            /\ n = [o EXCEPT !.stage = "walk", !.cursor = o.at,
                             !.copy.path = Joined(folder[o.at].path, o.copy.name)])
    BY <1>1, <1>2, <1>7 DEF FindParent, Goes, Ends
  <2> QED BY <1>6, <2>1, <2>3, <2>4, <2>5
<1>8. ASSUME Walk(q) PROVE NamesKept /\ (Unwritten(n) => RequestDistinct(n)')
  <2>1. NamesKept
    BY <1>5, <1>8 DEF Walk
  <2>2. o.stage = "walk" /\ Unwritten(o)
    BY <1>1, <1>8 DEF Walk, Unwritten
  <2>3. n = Idle \/ n = [o EXCEPT !.stage = "check"] \/ \E c : n = [o EXCEPT !.cursor = c]
    BY <1>1, <1>2, <1>8 DEF Walk, Goes, Ends
  <2>4. CASE n # Idle
    <3>1. /\ n.stage \in {"walk", "check"} /\ n.id = o.id /\ n.copy = o.copy
          /\ n.kind = o.kind /\ n.at = o.at
      BY <1>2, <2>2, <2>3, <2>4 DEF Op
    <3>2. o.kind # "create"
      BY <1>4, <2>2 DEF RequestDistinct
    <3> QED BY <1>3, <1>4, <2>1, <2>2, <3>1, <3>2, OnDistinct
  <2> QED BY <1>6, <2>1, <2>4
\* The check is what makes the name free.
<1>9. ASSUME Check(q) PROVE NamesKept /\ (Unwritten(n) => RequestDistinct(n)')
  <2>1. NamesKept
    BY <1>5, <1>9 DEF Check, Checked
  <2>2. o.stage = "check" /\ Unwritten(o)
    BY <1>1, <1>9 DEF Check, Checked, Unwritten
  <2>3. \/ n = Idle
        \/ /\ ~Taken(o, {"live"})
           /\ \/ o.kind = "move" /\ n = [o EXCEPT !.stage = "diff"]
              \/ n = [o EXCEPT !.stage = "path"]
    BY <1>1, <1>2, <1>9 DEF Check, Checked, Goes, Ends
  <2>4. CASE n # Idle
    <3>1. /\ n.stage = "path" \/ (n.kind = "move" /\ n.stage = "diff")
          /\ n.id = o.id /\ n.copy = o.copy /\ n.kind = o.kind
      BY <1>2, <2>3, <2>4 DEF Op
    <3>2. o.at # Omitted
      BY <1>2 DEF Op
    <3>3. ASSUME o.copy.parent = o.at PROVE Free(o)
      BY <2>3, <2>4, <3>2, <3>3 DEF Taken, Free, Place, Live
    <3>4. Free(o)
      BY <1>4, <2>2, <3>3 DEF RequestDistinct
    <3>5. Free(n)'
      BY <1>3, <2>1, <2>2, <3>1, <3>4, KeptFree
    <3>6. n.kind # "create" => Live(n.id)'
      BY <1>3, <1>4, <2>1, <2>2, <3>1 DEF RequestDistinct, NamesKept
    <3> QED BY <1>4, <2>1, <2>2, <3>1, <3>5, <3>6 DEF RequestDistinct
  <2> QED BY <1>6, <2>1, <2>4
<1>10. ASSUME ComputePath(q) PROVE NamesKept /\ (Unwritten(n) => RequestDistinct(n)')
  <2>1. NamesKept
    BY <1>5, <1>10 DEF ComputePath
  <2>2. o.stage = "path" /\ Unwritten(o)
    BY <1>1, <1>10 DEF ComputePath, Unwritten
  <2>3. ASSUME NEW p, n = [o EXCEPT !.stage = IF o.kind = "create" THEN "insert" ELSE "children",
                                    !.copy.path = p]
        PROVE  RequestDistinct(n)'
    <3>1. /\ n.id = o.id /\ n.kind = o.kind /\ n.at = o.at
          /\ n.stage = IF o.kind = "create" THEN "insert" ELSE "children"
      BY <1>2, <2>3 DEF Op
    <3>2. n.copy = [o.copy EXCEPT !.path = p]
      BY <1>2, <2>3 DEF Op
    <3>3. n.copy.name = o.copy.name /\ n.copy.parent = o.copy.parent /\ n.copy.state = o.copy.state
      BY <1>2, <3>2 DEF Op, Copy
    <3> QED BY <1>3, <1>4, <2>1, <2>2, <3>1, <3>3, OnDistinct
  <2>4. \/ n = Idle
        \/ n = [o EXCEPT !.stage = IF o.kind = "create" THEN "insert" ELSE "children",
                         !.copy.path = Joined(<<>>, o.copy.name)]
        \/ n = [o EXCEPT !.stage = IF o.kind = "create" THEN "insert" ELSE "children",
                         !.copy.path = Joined(folder[o.at].path, o.copy.name)]
    BY <1>1, <1>2, <1>10 DEF ComputePath, Goes, Ends
  <2> QED BY <1>6, <2>1, <2>3, <2>4
\* save compares the entity with the row as it is now.
<1>11. ASSUME Diff(q) PROVE NamesKept /\ (Unwritten(n) => RequestDistinct(n)')
  <2>1. NamesKept
    BY <1>5, <1>11 DEF Diff
  <2>2. o.stage = "diff" /\ Unwritten(o)
    BY <1>1, <1>11 DEF Diff, Unwritten
  <2>3. o.kind # "create" /\ Live(o.id)
    BY <1>4, <2>2 DEF RequestDistinct
  <2>4. n = [o EXCEPT !.stage = "save", !.dirty = Differs(o)]
    BY <1>1, <1>2, <1>11, <2>3 DEF Diff, Goes, Live, Exists
  <2>5. /\ n.id = o.id /\ n.kind = o.kind /\ n.copy = o.copy
        /\ n.stage = "save" /\ n.dirty = Differs(o)
    BY <1>2, <2>4 DEF Op
  <2>6. \A c \in Columns \ n.dirty :
            n.copy[c] = folder[n.id][c] \/ (c = "parent" /\ n.copy.parent = Omitted)
    BY <2>5 DEF Differs, Columns
  <2>7. UNCHANGED folder
    BY <1>11 DEF Diff
  <2>8. (\A c \in Columns \ n.dirty :
            n.copy[c] = folder[n.id][c] \/ (c = "parent" /\ n.copy.parent = Omitted))'
    BY <2>6, <2>7
  <2>9. Free(o) => Free(n)'
    BY <1>3, <2>1, <2>2, <2>5, KeptFree
  <2>10. Live(n.id)'
    BY <1>3, <2>1, <2>2, <2>3, <2>5 DEF NamesKept
  <2> QED BY <1>4, <2>1, <2>2, <2>3, <2>5, <2>8, <2>9, <2>10 DEF RequestDistinct
<1>12. ASSUME FindChildren(q) PROVE NamesKept /\ (Unwritten(n) => RequestDistinct(n)')
  <2>4. PICK ids : Collects(q, ids)
    BY <1>12 DEF FindChildren
  <2>1. NamesKept
    BY <1>5, <2>4 DEF Collects
  <2> DEFINE rows == {[id |-> f, path |-> folder[f].path] : f \in ids}
  <2>2. \/ n = Idle
        \/ n = [o EXCEPT !.stage = "removeSelf", !.found = rows]
        \/ n = [o EXCEPT !.stage = "remove", !.found = rows]
        \/ n = [o EXCEPT !.stage = "rewrite", !.found = rows]
        \/ n = [o EXCEPT !.stage = "diff", !.found = rows] /\ o.kind = "update"
    BY <1>1, <1>2, <2>4 DEF Collects, Goes, Ends
  <2> HIDE DEF rows
  <2>3. ASSUME NEW s \in {"removeSelf", "remove", "rewrite", "diff"},
               s = "diff" => o.kind = "update", n = [o EXCEPT !.stage = s, !.found = rows]
        PROVE  Unwritten(n) => RequestDistinct(n)'
    <3>1. n.stage = s /\ n.id = o.id /\ n.copy = o.copy /\ n.kind = o.kind /\ n.at = o.at
      BY <1>2, <2>3 DEF Op
    <3>2. SUFFICES ASSUME Unwritten(n) PROVE RequestDistinct(n)'
      OBVIOUS
    <3>3. o.kind = "update" /\ s \in {"rewrite", "diff"}
      BY <2>3, <3>1, <3>2 DEF Unwritten
    <3>4. o.stage = "children" /\ Unwritten(o)
      BY <1>1, <2>4, <3>3 DEF Collects, Unwritten
    <3> QED BY <1>3, <1>4, <2>1, <3>1, <3>3, <3>4, OnDistinct
  <2> QED BY <1>6, <2>1, <2>2, <2>3
<1>13. ASSUME NEW row \in o.found, Rewrite(q, row)
       PROVE  NamesKept /\ (Unwritten(n) => RequestDistinct(n)')
  <2>1. NamesKept
    BY <1>1, <1>2, <1>13 DEF Rewrite, NamesKept, Live, Row
  <2>2. \/ n = Idle
        \/ \E left : n = [o EXCEPT !.found = left]
        \/ o.kind = "update" /\ n = [o EXCEPT !.found = {}, !.stage = "diff"]
    BY <1>1, <1>2, <1>13 DEF Rewrite, Goes, Ends, Refused, Aborts
  <2>3. o.stage = "rewrite"
    BY <1>1, <1>13 DEF Rewrite
  <2>4. CASE n # Idle /\ Unwritten(n)
    <3>1. /\ n.stage = "rewrite" \/ (n.stage = "diff" /\ o.kind = "update")
          /\ n.id = o.id /\ n.copy = o.copy /\ n.kind = o.kind /\ n.at = o.at
      BY <1>2, <2>2, <2>3, <2>4 DEF Op
    <3>2. Unwritten(o) /\ o.kind = "update"
      BY <2>3, <2>4, <3>1 DEF Unwritten
    <3> QED BY <1>3, <1>4, <2>1, <2>3, <3>1, <3>2, OnDistinct
  <2> QED BY <1>6, <2>1, <2>4
<1> QED BY <1>1, <1>7, <1>8, <1>9, <1>10, <1>11, <1>12, <1>13

\* The steps that write, mark or remove rows; the request is then past the
\* point where names matter.
LEMMA WritesDistinct ==
    ASSUME SiblingInv, NEW q \in Requests,
           Insert(q) \/ Save(q) \/ Subtree(q) \/ RemoveChildren(q) \/ RemoveSelf(q)
    PROVE  SiblingsDistinct' /\ \E n : op'[q] = n /\ ~Unwritten(n)
<1> USE FolderAssumption
<1>1. PICK o, n : op[q] = o /\ op'[q] = n
  OBVIOUS
<1>2. op \in [Requests -> Op] /\ o \in Op /\ folder \in [Ids -> Row]
  BY <1>1 DEF SiblingInv, TypeInv, TypeOK
<1>3. RequestOK(o)
  BY <1>1 DEF SiblingInv, TypeInv, Idle, Insert, Save, Subtree, Marks, RemoveChildren, RemoveSelf
<1>4. o.id \in Ids /\ o.copy.state \in {"live", "deleted"} /\ SiblingsDistinct
  BY <1>3 DEF RequestOK, SiblingInv
<1>5. Unwritten(o) => RequestDistinct(o)
  BY <1>1 DEF SiblingInv
<1>6. ASSUME UNCHANGED folder PROVE SiblingsDistinct'
  BY <1>4, <1>6, FewerDistinct DEF Live
<1>7. ~Unwritten(Idle)
  BY DEF Unwritten, Idle
<1>8. ASSUME Saved(q) PROVE ~Unwritten(n)
  <2>1. \/ n = Idle
        \/ o.kind = "move" /\ n = [o EXCEPT !.stage = "children"]
        \/ o.kind = "delete" /\ n = [o EXCEPT !.stage = "subtree"]
    BY <1>1, <1>2, <1>8 DEF Saved, Goes, Ends
  <2>2. CASE o.kind = "move" /\ n = [o EXCEPT !.stage = "children"]
    <3>1. n.kind = "move" /\ n.stage = "children"
      BY <1>2, <2>2 DEF Op
    <3> QED BY <3>1 DEF Unwritten
  <2>3. CASE o.kind = "delete" /\ n = [o EXCEPT !.stage = "subtree"]
    <3>1. n.stage = "subtree"
      BY <1>2, <2>3 DEF Op
    <3> QED BY <3>1 DEF Unwritten
  <2> QED BY <1>7, <2>1, <2>2, <2>3
<1>9. ASSUME Ends(q) \/ Refused(q) PROVE ~Unwritten(n)
  BY <1>1, <1>2, <1>7, <1>9 DEF Ends, Goes, Refused, Aborts
<1>10. CASE Insert(q)
  <2> DEFINE p == IF o.copy.parent = Omitted THEN Root ELSE o.copy.parent
             row == [o.copy EXCEPT !.parent = p]
  <2>1. CASE Saved(q) /\ folder' = [folder EXCEPT ![o.id] = row]
    <3>1. o.stage = "insert" /\ Unwritten(o)
      BY <1>1, <1>10 DEF Insert, Unwritten
    <3>2. o.copy.parent # Omitted /\ (Free(o) \/ o.copy.state = "deleted")
      BY <1>5, <3>1 DEF RequestDistinct
    <3>3. row.name = o.copy.name /\ row.parent = Place(o) /\ row.state = o.copy.state
      BY <1>2, <3>2 DEF Op, Copy, Place
    <3>4. folder'[o.id] = row /\ \A f \in Ids \ {o.id} : folder'[f] = folder[f]
      BY <1>2, <1>4, <2>1
    <3>5. o.copy.state = "deleted" => ~Live(o.id)'
      BY <3>3, <3>4 DEF Live
    <3>6. SiblingsDistinct'
      BY <1>4, <3>2, <3>3, <3>4, <3>5, WrittenDistinct
    <3> QED BY <1>1, <1>8, <2>1, <3>6
  <2> QED BY <1>1, <1>6, <1>9, <1>10, <2>1 DEF Insert
<1>11. CASE Save(q)
  <2>1. CASE Saved(q) /\ folder' = [folder EXCEPT ![o.id] = Written(@, o)]
    <3>1. o.stage = "save" /\ Unwritten(o)
      BY <1>1, <1>11 DEF Save, Unwritten
    <3>2. /\ Live(o.id) /\ (Free(o) \/ o.copy.state = "deleted")
          /\ \A c \in Columns \ o.dirty :
                 o.copy[c] = folder[o.id][c] \/ (c = "parent" /\ o.copy.parent = Omitted)
      BY <1>5, <3>1 DEF RequestDistinct
    <3>3. folder'[o.id] = Written(folder[o.id], o) /\ \A f \in Ids \ {o.id} : folder'[f] = folder[f]
      BY <1>2, <1>4, <2>1
    <3>4. /\ folder'[o.id].name = IF "name" \in o.dirty THEN o.copy.name ELSE folder[o.id].name
          /\ folder'[o.id].parent = IF "parent" \in o.dirty THEN o.copy.parent ELSE folder[o.id].parent
          /\ folder'[o.id].state = IF "state" \in o.dirty THEN o.copy.state ELSE folder[o.id].state
      BY <3>3 DEF Written
    <3>5. "parent" \in o.dirty => o.copy.parent # Omitted
      BY <1>3 DEF RequestOK
    <3>7. folder'[o.id].name = o.copy.name
      BY <3>2, <3>4 DEF Columns
    <3>8. folder'[o.id].parent = Place(o)
      BY <3>2, <3>4, <3>5 DEF Place, Columns
    <3>9. o.copy.state = "deleted" => ~Live(o.id)'
      BY <1>4, <3>2, <3>4 DEF Live, Columns
    <3>10. SiblingsDistinct'
      BY <1>4, <3>2, <3>3, <3>7, <3>8, <3>9, WrittenDistinct
    <3> QED BY <1>1, <1>8, <2>1, <3>10
  <2> QED BY <1>1, <1>6, <1>8, <1>9, <1>11, <2>1 DEF Save
<1>12. CASE Subtree(q)
  <2>2. PICK ids : Marks(q, ids)
    BY <1>12 DEF Subtree
  <2>1. \A f \in Ids : Live(f)' => Live(f) /\ folder'[f] = folder[f]
    BY <1>2, <2>2 DEF Marks, Live, Row
  <2> QED BY <1>1, <1>4, <1>9, <2>1, <2>2, FewerDistinct DEF Marks
<1>13. ASSUME NEW S, NEW next, Removes(q, S, next) PROVE SiblingsDistinct'
  <2>1. CASE folder' = [f \in Ids |-> IF f \in S /\ Exists(f)
                                      THEN [Blank EXCEPT !.state = "purged"] ELSE folder[f]]
    <3>1. [Blank EXCEPT !.state = "purged"].state # "live"
      BY DEF Blank
    <3>2. \A f \in Ids : Live(f)' => Live(f) /\ folder'[f] = folder[f]
      BY <2>1, <3>1 DEF Live
    <3> QED BY <1>4, <3>2, FewerDistinct
  <2> QED BY <1>6, <1>13, <2>1 DEF Removes
<1>14. CASE RemoveChildren(q)
  <2>1. n = Idle \/ n = [o EXCEPT !.stage = "removeSelf", !.found = {}]
    BY <1>1, <1>2, <1>14 DEF RemoveChildren, Removes, Goes, Ends
  <2>2. CASE n = [o EXCEPT !.stage = "removeSelf", !.found = {}]
    <3>1. n.stage = "removeSelf"
      BY <1>2, <2>2 DEF Op
    <3> QED BY <1>1, <1>13, <1>14, <3>1 DEF RemoveChildren, Unwritten
  <2> QED BY <1>1, <1>7, <1>13, <1>14, <2>1, <2>2 DEF RemoveChildren
<1>15. CASE RemoveSelf(q)
  <2>1. n = Idle
    BY <1>1, <1>2, <1>15 DEF RemoveSelf, Removes, Goes, Ends
  <2> QED BY <1>1, <1>7, <1>13, <1>15, <2>1 DEF RemoveSelf
<1> QED BY <1>10, <1>11, <1>12, <1>14, <1>15

\* The invariant after a step of the only request.
LEMMA AloneDistinct ==
    ASSUME TypeInv', SiblingsDistinct', NEW q \in Requests, \A p \in Requests : p = q,
           NEW n, op'[q] = n, Unwritten(n) => RequestDistinct(n)'
    PROVE  SiblingInv'
<1>1. \A p \in Requests : Unwritten(op'[p]) => (RequestDistinct(op[p]))'
  BY DEF RequestDistinct, Free, Place
<1> QED BY <1>1 DEF SiblingInv, Unwritten

LEMMA SiblingInit == Init => SiblingInv
<1> SUFFICES ASSUME Init PROVE SiblingInv
  OBVIOUS
<1>1. \A f \in Ids : ~Live(f)
  BY DEF Init, Blank, Live
<1>2. \A q \in Requests : ~Unwritten(op[q])
  BY DEF Init, Idle, Unwritten
<1> QED BY <1>1, <1>2, TypeInit DEF SiblingInv, SiblingsDistinct

LEMMA SiblingStep ==
    ASSUME \A p, q \in Requests : p = q, SiblingInv, [Next]_vars
    PROVE  SiblingInv'
<1>1. TypeInv'
  BY TypeStep DEF SiblingInv
<1>2. ASSUME NEW q \in Requests, NamesKept,
             \E n : op'[q] = n /\ (Unwritten(n) => RequestDistinct(n)')
      PROVE  SiblingInv'
  <2>1. SiblingsDistinct'
    BY <1>2, KeptDistinct DEF SiblingInv
  <2> QED BY <1>1, <1>2, <2>1, AloneDistinct
<1>3. ASSUME NEW q \in Requests, Continues(q) PROVE SiblingInv'
  <2>1. CASE \/ FindParent(q) \/ Walk(q) \/ Check(q) \/ ComputePath(q) \/ Diff(q)
             \/ FindChildren(q) \/ \E row \in op[q].found : Rewrite(q, row)
    BY <1>2, <2>1, ReadsDistinct
  <2>2. CASE Insert(q) \/ Save(q) \/ Subtree(q) \/ RemoveChildren(q) \/ RemoveSelf(q)
    BY <1>1, <2>2, WritesDistinct, AloneDistinct
  <2> QED BY <1>3, <2>1, <2>2 DEF Continues
<1>4. ASSUME NEW q \in Requests, Starts(q) PROVE SiblingInv'
  BY <1>2, <1>4, StartsDistinct
<1>5. ASSUME NEW q \in Requests, Fails(q) PROVE SiblingInv'
  <2>1. NamesKept
    BY <1>5 DEF Fails, NamesKept, Live
  <2>2. op'[q] = Idle
    BY <1>5 DEF Fails, Aborts, SiblingInv, TypeInv, TypeOK
  <2>3. ~Unwritten(Idle)
    BY DEF Unwritten, Idle
  <2> QED BY <1>2, <2>1, <2>2, <2>3
<1>6. CASE UNCHANGED vars
  <2>1. SiblingsDistinct'
    BY <1>6, KeptDistinct DEF vars, NamesKept, Live, SiblingInv
  <2>2. \A q \in Requests : (Unwritten(op[q]) => RequestDistinct(op[q]))'
    BY <1>6 DEF vars, SiblingInv, Unwritten, RequestDistinct, Free, Place, Live
  <2> QED BY <1>1, <2>1, <2>2 DEF SiblingInv
<1> QED BY <1>3, <1>4, <1>5, <1>6 DEF Next

\* As long as requests come one at a time, the checks for duplicates keep the
\* live folders of every place apart, whatever cuts a request short, and
\* although the check and the write that it permits are queries of their own.
THEOREM SiblingsDistinctAlways ==
    ASSUME \A p, q \in Requests : p = q
    PROVE  Spec => []SiblingsDistinct
<1>1. Init => SiblingInv
  BY SiblingInit
<1>2. SiblingInv /\ [Next]_vars => SiblingInv'
  BY SiblingStep
<1>3. SiblingInv => SiblingsDistinct
  BY DEF SiblingInv
<1> QED BY <1>1, <1>2, <1>3, PTL DEF Spec
=============================================================================
