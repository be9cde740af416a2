------------------------- MODULE FileVersionsProofs -------------------------
(***************************************************************************)
(* Files, versions and share links for any number of requests that         *)
(* overlap, fail and overwrite each other's rows.  Every theorem rests on  *)
(* what a request of each stage knows (Shape), and on one invariant for    *)
(* each of the stores.                                                     *)
(***************************************************************************)
EXTENDS FileVersions, FiniteSetTheorems, TLAPS

Uploading == {"last", "object", "version"}
OnFile == {"count", "find", "pick", "diff", "save", "stream"}

\* What the record of a request holds at its stage.
Shape(o) ==
    /\ o.stage \in Uploading => o.file \in Files /\ o.version \in Versions /\ o.share = Null
    /\ o.stage \in {"object", "version"} => o.number # 0
    /\ o.stage \in OnFile => o.file \in Files
    /\ o.stage \in {"count", "find", "pick"} => o.version = Null /\ o.number = 0
    /\ o.stage \in {"count", "shareDiff", "shareSave"} => o.share \in Shares
    /\ o.stage \in {"shareDiff", "shareSave"} => o.link.file \in Files
    /\ o.stage = "stream" => o.version \in Versions /\ o.number = 0

TypeInv ==
    /\ TypeOK
    /\ \A r \in Requests : Shape(op[r])
    /\ \A s \in Shares : share[s].status # "none" => share[s].file \in Files

LEMMA IdleType == Idle \in Op /\ Shape(Idle)
BY DEF Idle, NoRow, NoShare, Op, Row, ShareRow, OrNull, Stages, Columns, LinkColumns, Shape,
       Uploading, OnFile

LEMMA TypeInit == Init => TypeInv
BY IdleType, FileAssumption
   DEF Init, TypeInv, TypeOK, NoRow, NoShare, Row, ShareRow, VersionRow, OrNull

\* A request that changes its own record properly keeps the types.
LEMMA OpStep ==
    ASSUME TypeInv, NEW r \in Requests, NEW next \in Op, Shape(next), op' = [op EXCEPT ![r] = next]
    PROVE  op' \in [Requests -> Op] /\ \A q \in Requests : Shape(op'[q])
BY DEF TypeInv, TypeOK, Shape

\* The parts that most actions leave alone.
Rest == <<file, version, stored, share, served, edits, faults>>
LEMMA OpOnly ==
    ASSUME TypeInv, NEW r \in Requests, NEW next \in Op, Shape(next), op' = [op EXCEPT ![r] = next],
           UNCHANGED Rest
    PROVE  TypeInv'
<1>1. op' \in [Requests -> Op] /\ \A q \in Requests : Shape(op'[q])
  BY OpStep
<1> QED BY <1>1 DEF TypeInv, TypeOK, Rest, Shape

LEMMA UploadType ==
    ASSUME TypeInv, NEW u \in Requests, UploadStep(u)
    PROVE  TypeInv'
<1> DEFINE o == op[u]
<1> USE FileAssumption DEF OrNull, Stages, Shape, Uploading, OnFile
<1>1. /\ o \in Op /\ Shape(o)
      /\ \A f \in Files : file[f] \in Row
      /\ \A v \in Versions : version[v] \in VersionRow
  BY DEF TypeInv, TypeOK
<1>2. ASSUME NEW f \in Files, NEW v \in Versions, CreateFile(u, f, v) PROVE TypeInv'
  <2> DEFINE row == [NoRow EXCEPT !.status = "active"]
             next == [Idle EXCEPT !.stage = "object", !.file = f, !.version = v, !.number = 1,
                                  !.copy = row]
  <2>1. row \in Row
    BY DEF NoRow, Row
  <2>2. next \in Op /\ Shape(next)
    <3> HIDE DEF row
    <3>1. next \in Op
      BY <2>1, IdleType DEF Op, Idle
    <3>2. Shape(next)
      BY DEF Idle
    <3> QED BY <3>1, <3>2
  <2>3. op' \in [Requests -> Op] /\ \A q \in Requests : Shape(op'[q])
    <3>1. op' = [op EXCEPT ![u] = next]
      BY <1>2 DEF CreateFile, Goes
    <3> HIDE DEF next
    <3> QED BY <2>2, <3>1, OpStep
  <2>4. file' \in [Files -> Row]
    BY <1>2 DEF CreateFile, TypeInv, TypeOK, Row
  <2> QED BY <1>2, <2>3, <2>4 DEF CreateFile, TypeInv, TypeOK
<1>3. ASSUME NEW f \in Files, NEW v \in Versions, NewVersion(u, f, v) PROVE TypeInv'
  <2> DEFINE next == [Idle EXCEPT !.stage = "last", !.file = f, !.version = v, !.copy = file[f]]
  <2>1. next \in Op /\ Shape(next)
    BY <1>1, IdleType DEF Op, Idle, Row
  <2>2. op' = [op EXCEPT ![u] = next] /\ UNCHANGED Rest
    BY <1>3 DEF NewVersion, Goes, Rest
  <2> QED
    <3> HIDE DEF next
    <3> QED BY <2>1, <2>2, OpOnly
<1>4. CASE FindLast(u)
  <2>1. PICK n \in 1 .. Cardinality(Versions) + 1 :
          After(o.file, n) /\ Goes(u, [o EXCEPT !.stage = "object", !.number = n])
    BY <1>4 DEF FindLast
  <2> DEFINE next == [o EXCEPT !.stage = "object", !.number = n]
  <2>2. n \in Nat /\ n # 0
    BY <1>1, <2>1 DEF After, VersionsOf, VersionRow
  <2>3. next \in Op /\ Shape(next)
    BY <1>1, <1>4, <2>2 DEF FindLast, Op
  <2>4. op' = [op EXCEPT ![u] = next] /\ UNCHANGED Rest
    BY <1>4, <2>1 DEF FindLast, Goes, Rest
  <2> QED
    <3> HIDE DEF next
    <3> QED BY <2>3, <2>4, OpOnly
<1>5. CASE StoreObject(u)
  <2> DEFINE next == [o EXCEPT !.stage = "version"]
  <2>1. next \in Op /\ Shape(next)
    BY <1>1, <1>5 DEF StoreObject, Op
  <2>2. op' \in [Requests -> Op] /\ \A q \in Requests : Shape(op'[q])
    <3>1. op' = [op EXCEPT ![u] = next]
      BY <1>5 DEF StoreObject, Goes
    <3> HIDE DEF next
    <3> QED BY <2>1, <3>1, OpStep
  <2>3. stored' \in SUBSET Versions
    BY <1>1, <1>5 DEF StoreObject, TypeInv, TypeOK
  <2> QED BY <1>5, <2>2, <2>3 DEF StoreObject, TypeInv, TypeOK
<1>6. CASE SaveVersion(u)
  <2> DEFINE next == [o EXCEPT !.stage = "diff", !.copy.current = o.version, !.copy.meta = o.version]
  <2>1. next \in Op /\ Shape(next)
    BY <1>1, <1>6 DEF SaveVersion, Op, Row
  <2>2. op' \in [Requests -> Op] /\ \A q \in Requests : Shape(op'[q])
    <3>1. op' = [op EXCEPT ![u] = next]
      BY <1>6 DEF SaveVersion, Goes
    <3> HIDE DEF next
    <3> QED BY <2>1, <3>1, OpStep
  <2>3. [file |-> o.file, number |-> o.number] \in VersionRow
    BY <1>1 DEF Op, VersionRow
  <2>4. version' \in [Versions -> VersionRow]
    BY <1>6, <2>3 DEF SaveVersion, TypeInv, TypeOK
  <2> QED BY <1>6, <2>2, <2>4 DEF SaveVersion, TypeInv, TypeOK
<1> QED BY <1>2, <1>3, <1>4, <1>5, <1>6 DEF UploadStep

LEMMA SaveType ==
    ASSUME TypeInv, NEW r \in Requests, Diff(r) \/ Save(r) \/ Fails(r)
    PROVE  TypeInv'
<1> DEFINE o == op[r]
<1> USE FileAssumption DEF OrNull, Stages, Shape, Uploading, OnFile
<1>1. o \in Op /\ Shape(o) /\ \A f \in Files : file[f] \in Row
  BY DEF TypeInv, TypeOK
<1>2. CASE Diff(r)
  <2>1. DOMAIN file[o.file] = Columns
    BY <1>1, <1>2 DEF Diff, Row, Columns
  <2>2. Differs(file[o.file], o.copy) \subseteq Columns
    BY <2>1 DEF Differs
  <2> DEFINE next == [o EXCEPT !.stage = "save", !.dirty = o.dirty \cup Differs(file[o.file], o.copy)]
  <2>3. next \in Op /\ Shape(next)
    BY <1>1, <1>2, <2>2 DEF Diff, Op
  <2>4. op' = [op EXCEPT ![r] = next] /\ UNCHANGED Rest
    BY <1>2 DEF Diff, Goes, Rest
  <2> QED
    <3> HIDE DEF next
    <3> QED BY <2>3, <2>4, OpOnly
<1>3. CASE Save(r)
  <2> DEFINE next == IF Downloading(r) THEN [o EXCEPT !.stage = "stream", !.dirty = {}] ELSE Idle
  <2>1. next \in Op /\ Shape(next)
    <3>1. CASE Downloading(r)
      BY <1>1, <1>3, <3>1 DEF Downloading, Save, Op
    <3>2. CASE ~Downloading(r)
      BY <3>2, IdleType
    <3> QED BY <3>1, <3>2
  <2>2. op' \in [Requests -> Op] /\ \A q \in Requests : Shape(op'[q])
    <3>1. op' = [op EXCEPT ![r] = next]
      BY <1>3 DEF Save, Goes
    <3> HIDE DEF next
    <3> QED BY <2>1, <3>1, OpStep
  <2> DEFINE row == [c \in Columns |-> IF c \in o.dirty THEN o.copy[c] ELSE file[o.file][c]]
  <2>3. file' = [file EXCEPT ![o.file] = row] /\ o.file \in Files
    BY <1>1, <1>3 DEF Save, TypeInv, TypeOK
  <2>4. row \in Row
    BY <1>1, <2>3 DEF Row, Columns, Op
  <2>5. file' \in [Files -> Row]
    <3> HIDE DEF row
    <3> QED BY <2>3, <2>4 DEF TypeInv, TypeOK
  <2> QED BY <1>3, <2>2, <2>5 DEF Save, TypeInv, TypeOK
<1>4. CASE Fails(r)
  <2>1. op' \in [Requests -> Op] /\ \A q \in Requests : Shape(op'[q])
    BY <1>4, IdleType, OpStep DEF Fails, Ends, Goes
  <2>2. faults' \in 0 .. MaxFaults
    BY <1>4 DEF Fails, TypeInv, TypeOK
  <2> QED BY <1>4, <2>1, <2>2 DEF Fails, TypeInv, TypeOK
<1> QED BY <1>2, <1>3, <1>4

LEMMA ReadType ==
    ASSUME TypeInv, NEW d \in Requests, ReadStep(d)
    PROVE  TypeInv'
<1> DEFINE o == op[d]
<1> USE FileAssumption DEF OrNull, Stages, Shape, Uploading, OnFile
<1>1. /\ o \in Op /\ Shape(o)
      /\ \A f \in Files : file[f] \in Row
      /\ \A s \in Shares : share[s] \in ShareRow /\ served[s] \in Nat
  BY DEF TypeInv, TypeOK
\* A file is looked for: by its owner, or for a link.
<1>2. ASSUME NEW f \in Files, NEW prior \in Op, prior.version = Null, prior.number = 0,
             Find(d, f, prior), UNCHANGED Rest
      PROVE  TypeInv'
  <2> DEFINE next == [prior EXCEPT !.stage = "pick", !.file = f, !.copy = file[f]]
  <2>1. next \in Op
    BY <1>1, <1>2 DEF Op
  <2>2. Shape(next)
    BY <1>2 DEF Op
  <2>3. op' = [op EXCEPT ![d] = next] \/ op' = [op EXCEPT ![d] = Idle]
    BY <1>2 DEF Find, Goes, Ends
  <2> QED
    <3> HIDE DEF next
    <3> QED BY <1>2, <2>1, <2>2, <2>3, IdleType, OpOnly
<1>3. ASSUME NEW f \in Files, Download(d, f) PROVE TypeInv'
  <2>1. Idle.version = Null /\ Idle.number = 0
    BY DEF Idle
  <2> QED BY <1>2, <1>3, <2>1, IdleType DEF Download, Rest
<1>4. ASSUME NEW s \in Shares, ValidateAccess(d, s) PROVE TypeInv'
  <2> DEFINE next == [Idle EXCEPT !.stage = "count", !.share = s, !.file = share[s].file]
  <2>1. share[s].file \in Files
    BY <1>4 DEF ValidateAccess, Open, TypeInv
  <2>2. next \in Op /\ Shape(next)
    BY <2>1, IdleType DEF Op, Idle
  <2>3. op' = [op EXCEPT ![d] = next] /\ UNCHANGED Rest
    BY <1>4 DEF ValidateAccess, Goes, Rest
  <2> QED
    <3> HIDE DEF next
    <3> QED BY <2>2, <2>3, OpOnly
<1>5. CASE Count(d)
  <2> DEFINE next == [o EXCEPT !.stage = "find"]
  <2>1. next \in Op /\ Shape(next)
    BY <1>1, <1>5 DEF Count, Op
  <2>2. op' \in [Requests -> Op] /\ \A q \in Requests : Shape(op'[q])
    <3>1. op' = [op EXCEPT ![d] = next]
      BY <1>5 DEF Count, Goes
    <3> HIDE DEF next
    <3> QED BY <2>1, <3>1, OpStep
  <2>3. share' \in [Shares -> ShareRow]
        /\ \A s \in Shares : share'[s].status = share[s].status /\ share'[s].file = share[s].file
    BY <1>1, <1>5 DEF Count, TypeInv, TypeOK, ShareRow
  <2> QED BY <1>5, <2>2, <2>3 DEF Count, TypeInv, TypeOK
<1>6. CASE FindShared(d)
  BY <1>1, <1>2, <1>6 DEF FindShared, Rest
<1>7. CASE Pick(d)
  <2>1. CASE op' = [op EXCEPT ![d] = Idle]
    BY <1>7, <2>1, IdleType, OpOnly DEF Pick, Rest
  <2>2. CASE op' # [op EXCEPT ![d] = Idle]
    <3>1. PICK v \in Found(o.copy.current) : Goes(d, [o EXCEPT !.stage = "diff", !.version = v])
      BY <1>7, <2>2 DEF Pick, Ends, Goes
    <3> DEFINE next == [o EXCEPT !.stage = "diff", !.version = v]
    <3>2. next \in Op /\ Shape(next)
      BY <1>1, <1>7, <3>1 DEF Pick, Found, Op
    <3>3. op' = [op EXCEPT ![d] = next] /\ UNCHANGED Rest
      BY <1>7, <3>1 DEF Pick, Goes, Rest
    <3> QED
      <4> HIDE DEF next
      <4> QED BY <3>2, <3>3, OpOnly
  <2> QED BY <2>1, <2>2
<1>8. CASE Stream(d)
  <2>1. op' \in [Requests -> Op] /\ \A q \in Requests : Shape(op'[q])
    BY <1>8, IdleType, OpStep DEF Stream, Ends, Goes
  <2>2. served' \in [Shares -> Nat]
    BY <1>1, <1>8 DEF Stream, TypeInv, TypeOK, Op
  <2> QED BY <1>8, <2>1, <2>2 DEF Stream, TypeInv, TypeOK
<1>9. ASSUME NEW s \in Shares, Preview(d, s) PROVE TypeInv'
  <2> DEFINE next == [Idle EXCEPT !.stage = "find", !.file = share[s].file]
  <2>1. share[s].file \in Files
    BY <1>9 DEF Preview, Open, TypeInv
  <2>2. next \in Op /\ Shape(next)
    BY <2>1, IdleType DEF Op, Idle
  <2>3. op' = [op EXCEPT ![d] = next] /\ UNCHANGED Rest
    BY <1>9 DEF Preview, Goes, Rest
  <2> QED
    <3> HIDE DEF next
    <3> QED BY <2>2, <2>3, OpOnly
<1> QED BY <1>3, <1>4, <1>5, <1>6, <1>7, <1>8, <1>9 DEF ReadStep

LEMMA EditType ==
    ASSUME TypeInv, NEW e \in Requests, EditStep(e)
    PROVE  TypeInv'
<1> DEFINE o == op[e]
<1> USE FileAssumption DEF OrNull, Stages, Shape, Uploading, OnFile
<1>1. /\ o \in Op /\ Shape(o)
      /\ \A f \in Files : file[f] \in Row
      /\ \A s \in Shares : share[s] \in ShareRow /\ served[s] \in Nat
      /\ edits.file \in 0 .. MaxEdits /\ edits.share \in 0 .. MaxEdits
  BY DEF TypeInv, TypeOK
<1>2. ASSUME NEW f \in Files, NEW status \in {"active", "deleted"}, ChangeStatus(e, f, status)
      PROVE  TypeInv'
  <2> DEFINE row == [file[f] EXCEPT !.status = status]
             next == [Idle EXCEPT !.stage = "diff", !.file = f, !.copy = row]
  <2>1. row \in Row
    BY <1>1 DEF Row
  <2>2. next \in Op /\ Shape(next)
    <3> HIDE DEF row
    <3> QED BY <2>1, IdleType DEF Op, Idle
  <2>3. op' = [op EXCEPT ![e] = next] /\ UNCHANGED Rest
    BY <1>2 DEF ChangeStatus, Goes, Rest
  <2> QED
    <3> HIDE DEF next
    <3> QED BY <2>2, <2>3, OpOnly
<1>3. ASSUME NEW f \in Files, UpdateMetadata(e, f) PROVE TypeInv'
  <2> DEFINE next == [Idle EXCEPT !.stage = "diff", !.file = f, !.copy = file[f], !.dirty = {"meta"}]
  <2>1. next \in Op
    BY <1>1, IdleType DEF Op, Idle, Columns
  <2>2. Shape(next)
    BY DEF Idle
  <2>3. op' \in [Requests -> Op] /\ \A q \in Requests : Shape(op'[q])
    <3>1. op' = [op EXCEPT ![e] = next]
      BY <1>3 DEF UpdateMetadata, Goes
    <3> HIDE DEF next
    <3> QED BY <2>1, <2>2, <3>1, OpStep
  <2>4. edits' \in [{"file", "share"} -> 0 .. MaxEdits]
    BY <1>1, <1>3 DEF UpdateMetadata, TypeInv, TypeOK
  <2> QED BY <1>3, <2>3, <2>4 DEF UpdateMetadata, TypeInv, TypeOK
<1>4. ASSUME NEW s \in Shares, NEW f \in Files, CreateShare(e, s, f) PROVE TypeInv'
  <2> DEFINE row == [status |-> "active", file |-> f, count |-> 0]
  <2>1. row \in ShareRow /\ row.file \in Files
    BY DEF ShareRow
  <2>2. share' = [share EXCEPT ![s] = row]
    BY <1>4 DEF CreateShare
  <2>3. share' \in [Shares -> ShareRow]
        /\ \A t \in Shares : share'[t].status # "none" => share'[t].file \in Files
    <3> HIDE DEF row
    <3> QED BY <2>1, <2>2 DEF TypeInv, TypeOK
  <2> QED BY <1>4, <2>3 DEF CreateShare, TypeInv, TypeOK
<1>5. ASSUME NEW s \in Shares, NEW status \in {"active", "inactive"}, UpdateShare(e, s, status)
      PROVE  TypeInv'
  <2> DEFINE row == [share[s] EXCEPT !.status = status]
             next == [Idle EXCEPT !.stage = "shareDiff", !.share = s, !.link = row]
  <2>1. row \in ShareRow /\ row.file \in Files
    BY <1>1, <1>5 DEF UpdateShare, Linked, TypeInv, ShareRow
  <2>2. next \in Op /\ Shape(next)
    <3> HIDE DEF row
    <3>1. next \in Op
      BY <2>1, IdleType DEF Op, Idle
    <3>2. Shape(next)
      BY <2>1 DEF Idle
    <3> QED BY <3>1, <3>2
  <2>3. op' \in [Requests -> Op] /\ \A q \in Requests : Shape(op'[q])
    <3>1. op' = [op EXCEPT ![e] = next]
      BY <1>5 DEF UpdateShare, Goes
    <3> HIDE DEF next
    <3> QED BY <2>2, <3>1, OpStep
  <2>4. edits' \in [{"file", "share"} -> 0 .. MaxEdits]
    BY <1>1, <1>5 DEF UpdateShare, TypeInv, TypeOK
  <2> QED BY <1>5, <2>3, <2>4 DEF UpdateShare, TypeInv, TypeOK
<1>6. CASE DiffShare(e)
  <2> DEFINE next == [o EXCEPT !.stage = "shareSave",
                               !.dirty = LinkColumns \cap Differs(share[o.share], o.link)]
  <2>1. next \in Op /\ Shape(next)
    BY <1>1, <1>6 DEF DiffShare, Op
  <2>2. op' = [op EXCEPT ![e] = next] /\ UNCHANGED Rest
    BY <1>6 DEF DiffShare, Goes, Rest
  <2> QED
    <3> HIDE DEF next
    <3> QED BY <2>1, <2>2, OpOnly
<1>7. CASE SaveShare(e)
  <2> DEFINE row == [c \in LinkColumns \cup {"file"} |->
                        IF c \in o.dirty \/ c = "file" THEN o.link[c] ELSE share[o.share][c]]
  <2>1. share' = [share EXCEPT ![o.share] = row] /\ o.share \in Shares
    BY <1>1, <1>7 DEF SaveShare, TypeInv, TypeOK
  <2>2. row \in ShareRow /\ row.file \in Files
    BY <1>1, <1>7, <2>1 DEF SaveShare, ShareRow, LinkColumns, Op
  <2>3. share' \in [Shares -> ShareRow]
        /\ \A t \in Shares : share'[t].status # "none" => share'[t].file \in Files
    <3> HIDE DEF row
    <3> QED BY <2>1, <2>2 DEF TypeInv, TypeOK
  <2>4. op' \in [Requests -> Op] /\ \A q \in Requests : Shape(op'[q])
    BY <1>7, IdleType, OpStep DEF SaveShare, Ends, Goes
  <2> QED BY <1>7, <2>3, <2>4 DEF SaveShare, TypeInv, TypeOK
<1>8. ASSUME NEW s \in Shares, DeleteShare(e, s) PROVE TypeInv'
  <2>1. share' \in [Shares -> ShareRow]
        /\ \A t \in Shares : share'[t].status # "none" => share'[t].file \in Files
    BY <1>1, <1>8 DEF DeleteShare, Linked, TypeInv, TypeOK, ShareRow
  <2> QED BY <1>8, <2>1 DEF DeleteShare, TypeInv, TypeOK
<1> QED BY <1>2, <1>3, <1>4, <1>5, <1>6, <1>7, <1>8 DEF EditStep

LEMMA TypeStep == TypeInv /\ [Next]_vars => TypeInv'
<1>1. ASSUME TypeInv, UNCHANGED vars PROVE TypeInv'
  BY <1>1 DEF TypeInv, TypeOK, vars, Shape
<1> QED BY <1>1, UploadType, ReadType, EditType, SaveType, FileAssumption DEF Next

\* The tables, the history and what requests know keep their types, however
\* requests overlap and fail: no save writes a value of another column.
THEOREM FileTypes == Spec => []TypeOK
<1>1. TypeInv => TypeOK
  BY DEF TypeInv
<1> QED BY <1>1, TypeInit, TypeStep, PTL DEF Spec
-----------------------------------------------------------------------------
(* What is in the object store.                                             *)

\* An upload holds a version that nobody else has, and saves it when its
\* object is stored; the entities of files point to versions of theirs.
StoreInv ==
    /\ \A v \in Versions : Saved(v) => v \in stored
    /\ \A f \in Files : file[f].current # Null => version[file[f].current].file = f
    /\ \A r \in Requests : op[r].copy.current # Null =>
           Saved(op[r].copy.current) /\ version[op[r].copy.current].file = op[r].file
    /\ \A r \in Requests : op[r].stage \in Uploading => ~Saved(op[r].version)
    /\ \A r \in Requests : op[r].stage = "version" => op[r].version \in stored
    /\ \A r, q \in Requests : r # q /\ op[r].stage \in Uploading /\ op[q].stage \in Uploading
                              => op[r].version # op[q].version
    /\ \A r \in Requests : op[r].stage \in {"diff", "save", "stream"} /\ Downloading(r) =>
           Saved(op[r].version) /\ op[r].copy.current \in {op[r].version, Null}

LEMMA StoreInit == Init => StoreInv
BY DEF Init, StoreInv, Saved, Idle, NoRow, Uploading

\* A step that saves no version, stores no object and keeps the files' current
\* versions.
Quiet(o, n) ==
    /\ \/ n.copy.current = Null
       \/ n.copy.current = file[n.file].current /\ n.file \in Files
       \/ n.copy.current = o.copy.current /\ n.file = o.file
    /\ n.stage \in {"last", "object"} =>
           \/ n.version = o.version /\ o.stage \in Uploading
           \/ Fresh(n.version)
    /\ n.stage # "version"
    /\ n.stage \in {"diff", "save", "stream"} /\ n.version # Null /\ n.number = 0 =>
           Saved(n.version) /\ n.copy.current \in {n.version, Null}

LEMMA StoreQuiet ==
    ASSUME TypeInv, TypeInv', StoreInv, NEW r \in Requests,
           \A q \in Requests \ {r} : op'[q] = op[q],
           UNCHANGED <<version, stored>>, \A f \in Files : file'[f].current = file[f].current,
           Quiet(op[r], op'[r])
    PROVE  StoreInv'
<1> USE DEF Quiet, Fresh
<1>1. \A v : Saved(v)' <=> Saved(v)
  BY DEF Saved
<1>2. \A f \in Files : file'[f].current # Null => version'[file'[f].current].file = f
  BY DEF StoreInv
<1>3. \A q \in Requests : op'[q].stage \in Uploading => ~Saved(op'[q].version)
  BY DEF StoreInv, Saved, Uploading
<1>4. \A p, q \in Requests : p # q /\ op'[p].stage \in Uploading /\ op'[q].stage \in Uploading
                            => op'[p].version # op'[q].version
  BY DEF StoreInv, Uploading
<1>5. \A q \in Requests : Downloading(q)' <=> op'[q].version # Null /\ op'[q].number = 0
  BY DEF Downloading
<1>6. \A q \in Requests : op'[q].stage \in {"diff", "save", "stream"} /\ Downloading(q)' =>
           Saved(op'[q].version) /\ op'[q].copy.current \in {op'[q].version, Null}
  BY <1>5 DEF StoreInv, Saved, Downloading
<1>7. \A q \in Requests : op'[q].copy.current # Null =>
          Saved(op'[q].copy.current) /\ version'[op'[q].copy.current].file = op'[q].file
  BY FileAssumption DEF StoreInv, Saved
<1>8. \A q \in Requests : op'[q].stage = "version" => op'[q].version \in stored'
  BY DEF StoreInv, Uploading
<1> QED BY <1>1, <1>2, <1>3, <1>4, <1>6, <1>7, <1>8 DEF StoreInv, Saved, Downloading

LEMMA StoreUpload ==
    ASSUME TypeInv, TypeInv', StoreInv, NEW u \in Requests, UploadStep(u)
    PROVE  StoreInv'
<1> DEFINE o == op[u]
<1>1. o \in Op /\ Shape(o)
  BY DEF TypeInv, TypeOK
<1>2. ASSUME NEW f \in Files, NEW v \in Versions, CreateFile(u, f, v) PROVE StoreInv'
  <2> DEFINE next == [Idle EXCEPT !.stage = "object", !.file = f, !.version = v, !.number = 1,
                                  !.copy = [NoRow EXCEPT !.status = "active"]]
  <2>1. op'[u] = next /\ \A q \in Requests \ {u} : op'[q] = op[q]
    BY <1>2 DEF CreateFile, Goes, TypeInv, TypeOK
  <2>2. Quiet(o, next)
    BY <1>2 DEF CreateFile, Quiet, Idle, NoRow
  <2>3. UNCHANGED <<version, stored>> /\ \A g \in Files : file'[g].current = file[g].current
    BY <1>2 DEF CreateFile, TypeInv, TypeOK, Row
  <2> QED BY <2>1, <2>2, <2>3, StoreQuiet
<1>3. ASSUME NEW f \in Files, NEW v \in Versions, NewVersion(u, f, v) PROVE StoreInv'
  <2> DEFINE next == [Idle EXCEPT !.stage = "last", !.file = f, !.version = v, !.copy = file[f]]
  <2>1. op'[u] = next /\ \A q \in Requests \ {u} : op'[q] = op[q]
    BY <1>3 DEF NewVersion, Goes, TypeInv, TypeOK
  <2>2. Quiet(o, next)
    BY <1>3 DEF NewVersion, Quiet, Idle
  <2> QED BY <1>3, <2>1, <2>2, StoreQuiet DEF NewVersion
<1>4. CASE FindLast(u)
  <2>1. PICK n : op' = [op EXCEPT ![u] = [o EXCEPT !.stage = "object", !.number = n]]
    BY <1>4 DEF FindLast, Goes
  <2> DEFINE next == [o EXCEPT !.stage = "object", !.number = n]
  <2>2. op'[u] = next /\ \A q \in Requests \ {u} : op'[q] = op[q]
    BY <2>1 DEF TypeInv, TypeOK
  <2>3. Quiet(o, next)
    BY <1>1, <1>4 DEF FindLast, Quiet, Uploading, Op
  <2> QED BY <1>4, <2>2, <2>3, StoreQuiet DEF FindLast
<1>5. CASE StoreObject(u)
  <2> DEFINE next == [o EXCEPT !.stage = "version"]
  <2>1. /\ next.copy = o.copy /\ next.file = o.file /\ next.version = o.version
        /\ next.stage = "version" /\ o.stage = "object"
    BY <1>1, <1>5 DEF StoreObject, Op
  <2>2. op'[u] = next /\ \A q \in Requests \ {u} : op'[q] = op[q]
    BY <1>5 DEF StoreObject, Goes, TypeInv, TypeOK
  <2>3. stored' = stored \cup {o.version} /\ UNCHANGED <<version, file>>
    BY <1>5 DEF StoreObject
  <2> QED
    <3> HIDE DEF next
    <3> QED BY <2>1, <2>2, <2>3 DEF StoreInv, Saved, Downloading, Uploading
<1>6. CASE SaveVersion(u)
  <2> DEFINE next == [o EXCEPT !.stage = "diff", !.copy.current = o.version, !.copy.meta = o.version]
             row == [file |-> o.file, number |-> o.number]
  <2>1. /\ next.copy.current = o.version /\ next.file = o.file /\ next.stage = "diff"
        /\ next.number # 0 /\ o.file # Null /\ o.version \in Versions
    BY <1>1, <1>6, FileAssumption DEF SaveVersion, Op, Row, Shape, Uploading
  <2>2. op'[u] = next /\ \A q \in Requests \ {u} : op'[q] = op[q]
    BY <1>6 DEF SaveVersion, Goes, TypeInv, TypeOK
  <2>3. version' = [version EXCEPT ![o.version] = row] /\ UNCHANGED <<stored, file>>
    BY <1>6 DEF SaveVersion
  <2>4. ~Saved(o.version) /\ o.version \in stored /\ o.stage = "version"
    BY <1>6 DEF SaveVersion, StoreInv, Uploading
  <2>5. /\ version'[o.version].file = o.file /\ version'[o.version].file # Null
        /\ \A v \in Versions \ {o.version} : version'[v] = version[v]
    BY <2>1, <2>3 DEF Saved, TypeInv, TypeOK
  <2>6. \A v \in Versions : Saved(v) => v # o.version /\ version'[v].file # Null /\ version'[v].file = version[v].file
    BY <2>4, <2>5 DEF Saved
  <2> HIDE DEF next, row
  <2>7. \A v \in Versions : version'[v].file # Null => v \in stored'
    BY <2>3, <2>4, <2>5 DEF StoreInv, Saved
  <2>8. \A f \in Files : file'[f].current # Null => version'[file'[f].current].file = f
    <3> SUFFICES ASSUME NEW f \in Files, file[f].current # Null
                 PROVE  version'[file[f].current].file = f
      BY <2>3
    <3>1. file[f].current \in Versions /\ version[file[f].current].file = f
      BY DEF StoreInv, TypeInv, TypeOK, Row, OrNull
    <3> QED BY <2>6, <3>1, FileAssumption DEF Saved
  <2>9. \A q \in Requests : op'[q].copy.current # Null =>
            version'[op'[q].copy.current].file # Null /\ version'[op'[q].copy.current].file = op'[q].file
    <3> SUFFICES ASSUME NEW q \in Requests \ {u}, op[q].copy.current # Null
                 PROVE  version'[op[q].copy.current].file # Null /\ version'[op[q].copy.current].file = op[q].file
      BY <2>1, <2>2, <2>5
    <3>1. op[q].copy.current \in Versions
      BY DEF TypeInv, TypeOK, Op, Row, OrNull
    <3> QED BY <2>6, <3>1 DEF StoreInv
  <2>10. \A q \in Requests : op'[q].stage \in Uploading => q # u /\ op[q].version # o.version
    BY <2>1, <2>2, <2>4 DEF StoreInv, Uploading
  <2>11. \A q \in Requests : op'[q].stage \in Uploading => ~version'[op'[q].version].file # Null
    BY <2>2, <2>5, <2>10 DEF StoreInv, Saved, TypeInv, Shape
  <2>12. \A q \in Requests : op'[q].stage = "version" => op'[q].version \in stored'
    BY <2>2, <2>3, <2>10 DEF StoreInv, Uploading
  <2>13. \A p, q \in Requests : p # q /\ op'[p].stage \in Uploading /\ op'[q].stage \in Uploading
                              => op'[p].version # op'[q].version
    BY <2>2, <2>10 DEF StoreInv
  <2>14. \A q \in Requests : op'[q].stage \in {"diff", "save", "stream"} /\ Downloading(q)' =>
            version'[op'[q].version].file # Null /\ op'[q].copy.current \in {op'[q].version, Null}
    <3> SUFFICES ASSUME NEW q \in Requests \ {u}, op[q].stage \in {"diff", "save", "stream"},
                        Downloading(q)
                 PROVE  version'[op[q].version].file # Null /\ op[q].copy.current \in {op[q].version, Null}
      BY <2>1, <2>2 DEF Downloading
    <3>1. op[q].version \in Versions
      BY DEF TypeInv, TypeOK, Op, OrNull, Downloading
    <3> QED BY <2>6, <3>1 DEF StoreInv
  <2> QED BY <2>2, <2>7, <2>8, <2>9, <2>11, <2>12, <2>13, <2>14 DEF StoreInv, Saved, Downloading
<1> QED BY <1>2, <1>3, <1>4, <1>5, <1>6 DEF UploadStep

LEMMA StoreRead ==
    ASSUME TypeInv, TypeInv', StoreInv, NEW d \in Requests, ReadStep(d)
    PROVE  StoreInv'
<1> DEFINE o == op[d]
<1>1. o \in Op /\ Shape(o)
  BY DEF TypeInv, TypeOK
<1>2. UNCHANGED <<file, version, stored>>
  BY DEF ReadStep, Download, ValidateAccess, Preview, Count, FindShared, Pick, Stream
<1>3. ASSUME NEW next, op' = [op EXCEPT ![d] = next], Quiet(o, next) PROVE StoreInv'
  <2>1. op'[d] = next /\ \A q \in Requests \ {d} : op'[q] = op[q]
    BY <1>3 DEF TypeInv, TypeOK
  <2> QED BY <1>2, <1>3, <2>1, StoreQuiet
<1>4. Quiet(o, Idle)
  BY DEF Quiet, Idle, NoRow
<1>5. ASSUME NEW f \in Files, NEW prior \in Op, Find(d, f, prior) PROVE StoreInv'
  <2> DEFINE next == [prior EXCEPT !.stage = "pick", !.file = f, !.copy = file[f]]
  <2>1. Quiet(o, next)
    BY <1>5 DEF Quiet, Op
  <2>2. op' = [op EXCEPT ![d] = next] \/ op' = [op EXCEPT ![d] = Idle]
    BY <1>5 DEF Find, Goes, Ends
  <2> QED BY <1>3, <1>4, <2>1, <2>2
<1>6. ASSUME NEW f \in Files, Download(d, f) PROVE StoreInv'
  BY <1>5, <1>6, IdleType DEF Download
<1>7. ASSUME NEW s \in Shares, ValidateAccess(d, s) PROVE StoreInv'
  <2> DEFINE next == [Idle EXCEPT !.stage = "count", !.share = s, !.file = share[s].file]
  <2>1. Quiet(o, next)
    BY DEF Quiet, Idle, NoRow
  <2>2. op' = [op EXCEPT ![d] = next]
    BY <1>7 DEF ValidateAccess, Goes
  <2> QED BY <1>3, <2>1, <2>2
<1>8. CASE Count(d)
  <2> DEFINE next == [o EXCEPT !.stage = "find"]
  <2>1. Quiet(o, next)
    BY <1>1 DEF Quiet, Op
  <2>2. op' = [op EXCEPT ![d] = next]
    BY <1>8 DEF Count, Goes
  <2> QED BY <1>3, <2>1, <2>2
<1>9. CASE FindShared(d)
  BY <1>1, <1>5, <1>9 DEF FindShared, Shape, OnFile
<1>10. CASE Pick(d)
  <2>1. CASE op' = [op EXCEPT ![d] = Idle]
    BY <1>3, <1>4, <2>1
  <2>2. CASE op' # [op EXCEPT ![d] = Idle]
    <3>1. PICK v \in Found(o.copy.current) : Goes(d, [o EXCEPT !.stage = "diff", !.version = v])
      BY <1>10, <2>2 DEF Pick, Ends, Goes
    <3> DEFINE next == [o EXCEPT !.stage = "diff", !.version = v]
    <3>2. Quiet(o, next)
      BY <1>1, <3>1 DEF Quiet, Found, Op
    <3> QED BY <1>3, <3>1, <3>2 DEF Goes
  <2> QED BY <2>1, <2>2
<1>11. CASE Stream(d)
  BY <1>3, <1>4, <1>11 DEF Stream, Ends, Goes
<1>12. ASSUME NEW s \in Shares, Preview(d, s) PROVE StoreInv'
  <2> DEFINE next == [Idle EXCEPT !.stage = "find", !.file = share[s].file]
  <2>1. Quiet(o, next)
    BY DEF Quiet, Idle, NoRow
  <2>2. op' = [op EXCEPT ![d] = next]
    BY <1>12 DEF Preview, Goes
  <2> QED BY <1>3, <2>1, <2>2
<1> QED BY <1>6, <1>7, <1>8, <1>9, <1>10, <1>11, <1>12 DEF ReadStep

LEMMA StoreEdit ==
    ASSUME TypeInv, TypeInv', StoreInv, NEW e \in Requests, EditStep(e)
    PROVE  StoreInv'
<1> DEFINE o == op[e]
<1>1. o \in Op /\ Shape(o) /\ \A f \in Files : file[f] \in Row
  BY DEF TypeInv, TypeOK
<1>2. UNCHANGED <<file, version, stored>>
  BY DEF EditStep, ChangeStatus, UpdateMetadata, CreateShare, UpdateShare, DiffShare, SaveShare, DeleteShare
<1>3. ASSUME NEW next, op' = [op EXCEPT ![e] = next], Quiet(o, next) PROVE StoreInv'
  <2>1. op'[e] = next /\ \A q \in Requests \ {e} : op'[q] = op[q]
    BY <1>3 DEF TypeInv, TypeOK
  <2> QED BY <1>2, <1>3, <2>1, StoreQuiet
<1>4. Quiet(o, Idle)
  BY DEF Quiet, Idle, NoRow
<1>5. ASSUME NEW f \in Files, NEW status \in {"active", "deleted"}, ChangeStatus(e, f, status)
      PROVE  StoreInv'
  <2> DEFINE next == [Idle EXCEPT !.stage = "diff", !.file = f, !.copy = [file[f] EXCEPT !.status = status]]
  <2>1. Quiet(o, next)
    BY <1>1 DEF Quiet, Idle, Row
  <2> QED BY <1>3, <1>5, <2>1 DEF ChangeStatus, Goes
<1>6. ASSUME NEW f \in Files, UpdateMetadata(e, f) PROVE StoreInv'
  <2> DEFINE next == [Idle EXCEPT !.stage = "diff", !.file = f, !.copy = file[f], !.dirty = {"meta"}]
  <2>1. Quiet(o, next)
    BY DEF Quiet, Idle
  <2> QED BY <1>3, <1>6, <2>1 DEF UpdateMetadata, Goes
<1>7. ASSUME NEW s \in Shares, NEW status \in {"active", "inactive"}, UpdateShare(e, s, status)
      PROVE  StoreInv'
  <2> DEFINE next == [Idle EXCEPT !.stage = "shareDiff", !.share = s, !.link = [share[s] EXCEPT !.status = status]]
  <2>1. Quiet(o, next)
    BY DEF Quiet, Idle, NoRow
  <2> QED BY <1>3, <1>7, <2>1 DEF UpdateShare, Goes
<1>8. CASE DiffShare(e)
  <2> DEFINE next == [o EXCEPT !.stage = "shareSave",
                               !.dirty = LinkColumns \cap Differs(share[o.share], o.link)]
  <2>1. Quiet(o, next)
    BY <1>1 DEF Quiet, Op
  <2> QED BY <1>3, <1>8, <2>1 DEF DiffShare, Goes
<1>9. CASE SaveShare(e)
  BY <1>3, <1>4, <1>9 DEF SaveShare, Ends, Goes
<1>10. CASE UNCHANGED op
  BY <1>2, <1>10 DEF StoreInv, Saved, Downloading
<1>11. ASSUME NEW s \in Shares, DeleteShare(e, s) PROVE UNCHANGED op
  BY <1>11 DEF DeleteShare
<1>12. ASSUME NEW s \in Shares, NEW f \in Files, CreateShare(e, s, f) PROVE UNCHANGED op
  BY <1>12 DEF CreateShare
<1> QED BY <1>5, <1>6, <1>7, <1>8, <1>9, <1>10, <1>11, <1>12 DEF EditStep

LEMMA StoreSave ==
    ASSUME TypeInv, TypeInv', StoreInv, NEW r \in Requests, Diff(r) \/ Save(r) \/ Fails(r)
    PROVE  StoreInv'
<1> DEFINE o == op[r]
<1>1. o \in Op /\ Shape(o)
  BY DEF TypeInv, TypeOK
<1>2. Quiet(o, Idle)
  BY DEF Quiet, Idle, NoRow
<1>3. CASE Diff(r)
  <2> DEFINE next == [o EXCEPT !.stage = "save", !.dirty = o.dirty \cup Differs(file[o.file], o.copy)]
  <2>1. op'[r] = next /\ \A q \in Requests \ {r} : op'[q] = op[q]
    BY <1>3 DEF Diff, Goes, TypeInv, TypeOK
  <2>2. Quiet(o, next)
    BY <1>1, <1>3 DEF Diff, Quiet, StoreInv, Downloading, Op
  <2> QED BY <1>3, <2>1, <2>2, StoreQuiet DEF Diff
<1>4. CASE Save(r)
  <2> DEFINE next == IF Downloading(r) THEN [o EXCEPT !.stage = "stream", !.dirty = {}] ELSE Idle
  <2>1. op'[r] = next /\ \A q \in Requests \ {r} : op'[q] = op[q]
    BY <1>4 DEF Save, Goes, TypeInv, TypeOK
  <2>2. Quiet(o, next)
    <3>1. CASE Downloading(r)
      BY <1>1, <1>4, <3>1 DEF Save, Quiet, StoreInv, Op
    <3>2. CASE ~Downloading(r)
      BY <1>2, <3>2
    <3> QED BY <3>1, <3>2
  <2>3. /\ \A f \in Files \ {o.file} : file'[f] = file[f]
        /\ o.file \in Files /\ file'[o.file].current \in {file[o.file].current, o.copy.current}
    BY <1>1, <1>4 DEF Save, Columns, TypeInv, TypeOK, Shape, OnFile
  <2>4. \A f \in Files : file'[f].current # Null => version[file'[f].current].file = f
    BY <2>3 DEF StoreInv
  <2> HIDE DEF next
  <2>5. op'[r].copy.current = Null \/ (op'[r].copy.current = o.copy.current /\ op'[r].file = o.file)
    BY <1>1, <2>1 DEF next, Idle, NoRow, Op
  <2>6. op'[r].stage \notin Uploading
    BY <1>1, <2>1 DEF next, Idle, Uploading, Op
  <2>7. \A q \in Requests : op'[q].stage \in {"diff", "save", "stream"} /\ op'[q].version # Null /\ op'[q].number = 0 =>
            Saved(op'[q].version) /\ op'[q].copy.current \in {op'[q].version, Null}
    BY <2>1, <2>2 DEF Quiet, StoreInv, Downloading
  <2>8. \A q \in Requests : op'[q].copy.current # Null =>
            version[op'[q].copy.current].file # Null /\ version[op'[q].copy.current].file = op'[q].file
    BY <2>1, <2>5 DEF StoreInv, Saved
  <2>9. \A q \in Requests : op'[q].stage \in Uploading => q # r
    BY <2>6
  <2>10. UNCHANGED <<version, stored>>
    BY <1>4 DEF Save
  <2>11. /\ \A q \in Requests : op'[q].stage \in Uploading => ~Saved(op'[q].version)
         /\ \A q \in Requests : op'[q].stage = "version" => op'[q].version \in stored
         /\ \A p, q \in Requests : p # q /\ op'[p].stage \in Uploading /\ op'[q].stage \in Uploading
                                 => op'[p].version # op'[q].version
    BY <2>1, <2>9 DEF StoreInv, Uploading
  <2> QED BY <2>4, <2>7, <2>8, <2>10, <2>11 DEF StoreInv, Saved, Downloading
<1>5. CASE Fails(r)
  <2>1. op'[r] = Idle /\ \A q \in Requests \ {r} : op'[q] = op[q]
    BY <1>5 DEF Fails, Ends, Goes, TypeInv, TypeOK
  <2> QED BY <1>2, <1>5, <2>1, StoreQuiet DEF Fails
<1> QED BY <1>3, <1>4, <1>5

LEMMA StoreStep == TypeInv /\ StoreInv /\ [Next]_vars => StoreInv'
<1>1. ASSUME StoreInv, UNCHANGED vars PROVE StoreInv'
  BY <1>1 DEF StoreInv, Saved, Downloading, vars
<1> QED BY <1>1, TypeStep, StoreUpload, StoreRead, StoreEdit, StoreSave, FileAssumption DEF Next

\* Whatever uploads, downloads and updates overlap or stop half way, the
\* current version of a file is a saved one of that file with its object.
THEOREM CurrentIsStoredAlways == Spec => []CurrentIsStored
<1>1. TypeInv /\ StoreInv => CurrentIsStored
  BY FileAssumption DEF TypeInv, TypeOK, Row, OrNull, StoreInv, Saved, CurrentIsStored
<1> QED BY <1>1, TypeInit, TypeStep, StoreInit, StoreStep, PTL DEF Spec
-----------------------------------------------------------------------------
(* Decryption.                                                              *)

\* As long as nobody edits metadata, current and meta are read together,
\* changed together and saved together.
Together(n) == n.copy.meta = n.copy.current /\ ("current" \in n.dirty <=> "meta" \in n.dirty)
DecryptInv ==
    edits.file = 0 =>
        /\ \A f \in Files : file[f].meta = file[f].current
        /\ \A r \in Requests : Together(op[r])

\* A step that does not write a file.
LEMMA DecryptOp ==
    ASSUME TypeInv, DecryptInv, NEW r \in Requests, NEW next, op' = [op EXCEPT ![r] = next],
           edits'.file = edits.file, edits.file = 0 => Together(next),
           \A f \in Files : file'[f].meta = file[f].meta /\ file'[f].current = file[f].current
    PROVE  DecryptInv'
<1>1. op'[r] = next /\ \A q \in Requests \ {r} : op'[q] = op[q]
  BY DEF TypeInv, TypeOK
<1> QED BY <1>1 DEF DecryptInv, Together

LEMMA DecryptUpload ==
    ASSUME TypeInv, DecryptInv, NEW u \in Requests, UploadStep(u)
    PROVE  DecryptInv'
<1> DEFINE o == op[u]
<1>1. o \in Op
  BY DEF TypeInv, TypeOK
<1>2. ASSUME NEW f \in Files, NEW v \in Versions, CreateFile(u, f, v) PROVE DecryptInv'
  <2> DEFINE next == [Idle EXCEPT !.stage = "object", !.file = f, !.version = v, !.number = 1,
                                  !.copy = [NoRow EXCEPT !.status = "active"]]
  <2>1. Together(next)
    BY DEF Together, Idle, NoRow
  <2>2. \A g \in Files : file'[g].meta = file[g].meta /\ file'[g].current = file[g].current
    BY <1>2 DEF CreateFile, TypeInv, TypeOK, Row
  <2> QED BY <1>2, <2>1, <2>2, DecryptOp DEF CreateFile, Goes
<1>3. ASSUME NEW f \in Files, NEW v \in Versions, NewVersion(u, f, v) PROVE DecryptInv'
  <2> DEFINE next == [Idle EXCEPT !.stage = "last", !.file = f, !.version = v, !.copy = file[f]]
  <2>1. edits.file = 0 => Together(next)
    BY DEF Together, Idle, DecryptInv
  <2> QED BY <1>3, <2>1, DecryptOp DEF NewVersion, Goes
<1>4. CASE FindLast(u)
  <2>1. PICK n : op' = [op EXCEPT ![u] = [o EXCEPT !.stage = "object", !.number = n]]
    BY <1>4 DEF FindLast, Goes
  <2>2. edits.file = 0 => Together([o EXCEPT !.stage = "object", !.number = n])
    BY <1>1 DEF Together, DecryptInv, Op
  <2> QED BY <1>4, <2>1, <2>2, DecryptOp DEF FindLast
<1>5. CASE StoreObject(u)
  <2>1. edits.file = 0 => Together([o EXCEPT !.stage = "version"])
    BY <1>1 DEF Together, DecryptInv, Op
  <2> QED BY <1>5, <2>1, DecryptOp DEF StoreObject, Goes
<1>6. CASE SaveVersion(u)
  <2>1. edits.file = 0 =>
          Together([o EXCEPT !.stage = "diff", !.copy.current = o.version, !.copy.meta = o.version])
    BY <1>1 DEF Together, DecryptInv, Op, Row
  <2> QED BY <1>6, <2>1, DecryptOp DEF SaveVersion, Goes
<1> QED BY <1>2, <1>3, <1>4, <1>5, <1>6 DEF UploadStep

LEMMA DecryptRead ==
    ASSUME TypeInv, DecryptInv, NEW d \in Requests, ReadStep(d)
    PROVE  DecryptInv'
<1> DEFINE o == op[d]
<1>1. o \in Op /\ Shape(o)
  BY DEF TypeInv, TypeOK
<1>2. UNCHANGED <<file, edits>>
  BY DEF ReadStep, Download, ValidateAccess, Preview, Count, FindShared, Pick, Stream
<1>3. ASSUME NEW next, op' = [op EXCEPT ![d] = next], edits.file = 0 => Together(next)
      PROVE  DecryptInv'
  BY <1>2, <1>3, DecryptOp
<1>4. Together(Idle)
  BY DEF Together, Idle, NoRow
<1>5. ASSUME NEW f \in Files, NEW prior \in Op, Find(d, f, prior), edits.file = 0 => Together(prior)
      PROVE  DecryptInv'
  <2> DEFINE next == [prior EXCEPT !.stage = "pick", !.file = f, !.copy = file[f]]
  <2>1. edits.file = 0 => Together(next)
    BY <1>5 DEF Together, DecryptInv, Op
  <2>2. op' = [op EXCEPT ![d] = next] \/ op' = [op EXCEPT ![d] = Idle]
    BY <1>5 DEF Find, Goes, Ends
  <2> QED BY <1>3, <1>4, <2>1, <2>2
<1>6. ASSUME NEW f \in Files, Download(d, f) PROVE DecryptInv'
  BY <1>4, <1>5, <1>6, IdleType DEF Download
<1>7. ASSUME NEW s \in Shares, ValidateAccess(d, s) PROVE DecryptInv'
  <2> DEFINE next == [Idle EXCEPT !.stage = "count", !.share = s, !.file = share[s].file]
  <2>1. Together(next)
    BY DEF Together, Idle, NoRow
  <2> QED BY <1>3, <1>7, <2>1 DEF ValidateAccess, Goes
<1>8. CASE Count(d)
  <2>1. edits.file = 0 => Together([o EXCEPT !.stage = "find"])
    BY <1>1 DEF Together, DecryptInv, Op
  <2> QED BY <1>3, <1>8, <2>1 DEF Count, Goes
<1>9. CASE FindShared(d)
  BY <1>1, <1>5, <1>9 DEF FindShared, Shape, OnFile, DecryptInv, Together
<1>10. CASE Pick(d)
  <2>1. CASE op' = [op EXCEPT ![d] = Idle]
    BY <1>3, <1>4, <2>1
  <2>2. CASE op' # [op EXCEPT ![d] = Idle]
    <3>1. PICK v : op' = [op EXCEPT ![d] = [o EXCEPT !.stage = "diff", !.version = v]]
      BY <1>10, <2>2 DEF Pick, Ends, Goes
    <3>2. edits.file = 0 => Together([o EXCEPT !.stage = "diff", !.version = v])
      BY <1>1 DEF Together, DecryptInv, Op
    <3> QED BY <1>3, <3>1, <3>2
  <2> QED BY <2>1, <2>2
<1>11. CASE Stream(d)
  BY <1>3, <1>4, <1>11 DEF Stream, Ends, Goes
<1>12. ASSUME NEW s \in Shares, Preview(d, s) PROVE DecryptInv'
  <2> DEFINE next == [Idle EXCEPT !.stage = "find", !.file = share[s].file]
  <2>1. Together(next)
    BY DEF Together, Idle, NoRow
  <2> QED BY <1>3, <1>12, <2>1 DEF Preview, Goes
<1> QED BY <1>6, <1>7, <1>8, <1>9, <1>10, <1>11, <1>12 DEF ReadStep

LEMMA DecryptEdit ==
    ASSUME TypeInv, DecryptInv, NEW e \in Requests, EditStep(e)
    PROVE  DecryptInv'
<1> DEFINE o == op[e]
<1>1. o \in Op /\ \A f \in Files : file[f] \in Row
  BY DEF TypeInv, TypeOK
<1>2. UNCHANGED file
  BY DEF EditStep, ChangeStatus, UpdateMetadata, CreateShare, UpdateShare, DiffShare, SaveShare, DeleteShare
<1>3. ASSUME NEW next, op' = [op EXCEPT ![e] = next], edits.file = 0 => Together(next),
             edits'.file = edits.file
      PROVE  DecryptInv'
  BY <1>2, <1>3, DecryptOp
<1>4. Together(Idle)
  BY DEF Together, Idle, NoRow
<1>5. ASSUME NEW f \in Files, NEW status \in {"active", "deleted"}, ChangeStatus(e, f, status)
      PROVE  DecryptInv'
  <2> DEFINE next == [Idle EXCEPT !.stage = "diff", !.file = f, !.copy = [file[f] EXCEPT !.status = status]]
  <2>1. edits.file = 0 => Together(next)
    BY <1>1 DEF Together, Idle, Row, DecryptInv
  <2> QED BY <1>3, <1>5, <2>1 DEF ChangeStatus, Goes
<1>6. ASSUME NEW f \in Files, UpdateMetadata(e, f) PROVE DecryptInv'
  BY <1>6 DEF UpdateMetadata, DecryptInv, TypeInv, TypeOK
<1>7. ASSUME NEW s \in Shares, NEW status \in {"active", "inactive"}, UpdateShare(e, s, status)
      PROVE  DecryptInv'
  <2> DEFINE next == [Idle EXCEPT !.stage = "shareDiff", !.share = s, !.link = [share[s] EXCEPT !.status = status]]
  <2>1. Together(next)
    BY DEF Together, Idle, NoRow
  <2>2. edits'.file = edits.file
    BY <1>7 DEF UpdateShare, TypeInv, TypeOK
  <2> QED BY <1>3, <1>7, <2>1, <2>2 DEF UpdateShare, Goes
<1>8. CASE DiffShare(e)
  <2> DEFINE next == [o EXCEPT !.stage = "shareSave",
                               !.dirty = LinkColumns \cap Differs(share[o.share], o.link)]
  <2>1. edits.file = 0 => Together(next)
    BY <1>1 DEF Together, DecryptInv, Op, LinkColumns
  <2> QED BY <1>3, <1>8, <2>1 DEF DiffShare, Goes
<1>9. CASE SaveShare(e)
  BY <1>3, <1>4, <1>9 DEF SaveShare, Ends, Goes
<1>10. ASSUME NEW s \in Shares, NEW f \in Files, CreateShare(e, s, f) \/ DeleteShare(e, s) PROVE DecryptInv'
  BY <1>10 DEF CreateShare, DeleteShare, DecryptInv, Together
<1>11. ASSUME NEW s \in Shares, DeleteShare(e, s) PROVE DecryptInv'
  BY <1>11 DEF DeleteShare, DecryptInv, Together
<1> QED BY <1>5, <1>6, <1>7, <1>8, <1>9, <1>10, <1>11 DEF EditStep

LEMMA DecryptSave ==
    ASSUME TypeInv, DecryptInv, NEW r \in Requests, Diff(r) \/ Save(r) \/ Fails(r)
    PROVE  DecryptInv'
<1> DEFINE o == op[r]
<1>1. o \in Op /\ Shape(o) /\ \A f \in Files : file[f] \in Row
  BY DEF TypeInv, TypeOK
<1>2. Together(Idle)
  BY DEF Together, Idle, NoRow
<1>3. CASE Diff(r)
  <2> DEFINE next == [o EXCEPT !.stage = "save", !.dirty = o.dirty \cup Differs(file[o.file], o.copy)]
  <2>1. o.file \in Files /\ DOMAIN file[o.file] = Columns
    BY <1>1, <1>3 DEF Diff, Shape, OnFile, Row, Columns
  <2>2. edits.file = 0 => Together(next)
    BY <1>1, <2>1 DEF Differs, Columns, Together, DecryptInv, Op, Row
  <2> QED BY <1>3, <2>2, DecryptOp DEF Diff, Goes
<1>4. CASE Save(r)
  <2> DEFINE next == IF Downloading(r) THEN [o EXCEPT !.stage = "stream", !.dirty = {}] ELSE Idle
  <2>1. op'[r] = next /\ \A q \in Requests \ {r} : op'[q] = op[q]
    BY <1>4 DEF Save, Goes, TypeInv, TypeOK
  <2>2. edits.file = 0 => Together(next)
    BY <1>1, <1>2 DEF Together, DecryptInv, Op
  <2>3. /\ \A f \in Files \ {o.file} : file'[f] = file[f]
        /\ o.file \in Files
        /\ file'[o.file] = [c \in Columns |-> IF c \in o.dirty THEN o.copy[c] ELSE file[o.file][c]]
    BY <1>1, <1>4 DEF Save, TypeInv, TypeOK, Shape, OnFile
  <2>4. edits.file = 0 => file'[o.file].meta = file'[o.file].current
    BY <1>1, <2>3 DEF DecryptInv, Together, Columns, Op, Row
  <2> HIDE DEF next
  <2> QED BY <1>4, <2>1, <2>2, <2>3, <2>4 DEF Save, DecryptInv, Together
<1>5. CASE Fails(r)
  BY <1>2, <1>5, DecryptOp DEF Fails, Ends, Goes
<1> QED BY <1>3, <1>4, <1>5

LEMMA DecryptInit == Init => DecryptInv
BY DEF Init, DecryptInv, Together, Idle, NoRow

LEMMA DecryptStep == TypeInv /\ DecryptInv /\ [Next]_vars => DecryptInv'
<1>1. ASSUME DecryptInv, UNCHANGED vars PROVE DecryptInv'
  BY <1>1 DEF DecryptInv, Together, vars
<1> QED BY <1>1, DecryptUpload, DecryptRead, DecryptEdit, DecryptSave, FileAssumption DEF Next

\* A download holds the metadata of the version it serves, however old the
\* entities are that other requests save meanwhile.
THEOREM DownloadsDecryptAlways == Spec => []DownloadsDecrypt
<1>1. ASSUME TypeInv, StoreInv, DecryptInv PROVE DownloadsDecrypt
  <2> SUFFICES ASSUME edits.file = 0, NEW d \in Requests, op[d].stage = "stream",
                      op[d].copy.current # Null
               PROVE  op[d].version \in stored /\ op[d].copy.meta = op[d].version
    BY DEF DownloadsDecrypt
  <2>1. op[d].version \in Versions /\ op[d].number = 0
    BY <1>1 DEF TypeInv, Shape
  <2>2. Saved(op[d].version) /\ op[d].copy.current = op[d].version
    BY <1>1, <2>1, FileAssumption DEF StoreInv, Downloading
  <2> QED BY <1>1, <2>1, <2>2 DEF StoreInv, DecryptInv, Together
<1> QED BY <1>1, TypeInit, TypeStep, StoreInit, StoreStep, DecryptInit, DecryptStep, PTL DEF Spec

\* A download whose file had a current version serves a version of that very
\* file, whatever is uploaded, saved and deleted meanwhile: content of another
\* file can only be handed out where there was no current version to go by.
THEOREM OwnVersionServed ==
    Spec => [](\A d \in Requests : op[d].stage = "stream" /\ op[d].copy.current # Null =>
                   version[op[d].version].file = op[d].file)
<1> DEFINE Own(d) == op[d].stage = "stream" /\ op[d].copy.current # Null =>
                         version[op[d].version].file = op[d].file
<1>1. ASSUME TypeInv, StoreInv, NEW d \in Requests PROVE Own(d)
  <2> SUFFICES ASSUME op[d].stage = "stream", op[d].copy.current # Null
               PROVE  version[op[d].version].file = op[d].file
    OBVIOUS
  <2>1. op[d].version \in Versions /\ op[d].number = 0
    BY <1>1 DEF TypeInv, Shape
  <2>2. op[d].copy.current = op[d].version
    BY <1>1, <2>1, FileAssumption DEF StoreInv, Downloading
  <2> QED BY <1>1, <2>2 DEF StoreInv
<1>2. TypeInv /\ StoreInv => \A d \in Requests : Own(d)
  BY <1>1
<1> QED BY <1>2, TypeInit, TypeStep, StoreInit, StoreStep, PTL DEF Spec
-----------------------------------------------------------------------------
(* The numbers of versions, when uploads do not overlap.                    *)

Serial == \A u, w \in Uploads : u = w

\* An upload in progress has the next number of its file; files that have
\* versions exist, and no save makes them unused again.
NumberInv ==
    /\ NumbersAreConsecutive
    /\ \A r \in Requests : op[r].stage \in Uploading => r \in Uploads /\ Exists(op[r].file)
    /\ \A r \in Requests : op[r].stage \in {"object", "version"} => After(op[r].file, op[r].number)
    /\ \A f \in Files : ~Exists(f) => VersionsOf(f) = {}
    /\ \A r \in Requests : op[r].stage \in Uploading \cup {"pick", "diff", "save"} => op[r].copy.status # "unused"

LEMMA NumberInit == Init => NumberInv
BY FileAssumption DEF Init, NumberInv, NumbersAreConsecutive, Saved, VersionsOf, Exists, NoRow, Idle, Uploading

\* A step that saves no version.
Orderly(r, n) ==
    /\ n.stage \in Uploading => r \in Uploads
    /\ n.stage \in {"object", "version"} => After(n.file, n.number)
    /\ n.stage \in Uploading \cup {"pick", "diff", "save"} => n.copy.status # "unused"

LEMMA NumberQuiet ==
    ASSUME TypeInv, NumberInv, NEW r \in Requests, \A q \in Requests \ {r} : op'[q] = op[q],
           UNCHANGED version, \A f \in Files : Exists(f) => file'[f].status # "unused",
           Orderly(r, op'[r]), op'[r].stage \in Uploading => file'[op'[r].file].status # "unused"
    PROVE  NumberInv'
<1>1. \A f, n : After(f, n)' <=> After(f, n)
  BY DEF After, VersionsOf
<1>2. NumbersAreConsecutive'
  BY DEF NumberInv, NumbersAreConsecutive, Saved, VersionsOf
<1>3. \A q \in Requests \ {r} : op[q].stage \in Uploading => op[q].file \in Files
  BY DEF TypeInv, Shape
<1>4. \A q \in Requests : op'[q].stage \in Uploading => q \in Uploads /\ file'[op'[q].file].status # "unused"
  BY <1>3 DEF NumberInv, Orderly
<1>5. \A q \in Requests : op'[q].stage \in {"object", "version"} => After(op'[q].file, op'[q].number)
  BY DEF NumberInv, Orderly
<1>6. \A q \in Requests : op'[q].stage \in {"object", "version"} => After(op[q].file, op[q].number)'
  BY <1>1, <1>5
<1>7. \A f \in Files : file'[f].status = "unused" => VersionsOf(f)' = {}
  BY DEF NumberInv, Exists, VersionsOf
<1>8. \A q \in Requests : op'[q].stage \in Uploading \cup {"pick", "diff", "save"} => op'[q].copy.status # "unused"
  BY DEF NumberInv, Orderly
<1> QED BY <1>2, <1>4, <1>6, <1>7, <1>8 DEF NumberInv, Exists

LEMMA NumberUpload ==
    ASSUME TypeInv, StoreInv, NumberInv, Serial, NEW u \in Uploads, UploadStep(u)
    PROVE  NumberInv'
<1> DEFINE o == op[u]
<1>1. u \in Requests /\ o \in Op /\ Shape(o)
  BY FileAssumption DEF TypeInv, TypeOK
<1>2. ASSUME NEW f \in Files, NEW v \in Versions, CreateFile(u, f, v) PROVE NumberInv'
  <2> DEFINE next == [Idle EXCEPT !.stage = "object", !.file = f, !.version = v, !.number = 1,
                                  !.copy = [NoRow EXCEPT !.status = "active"]]
  <2>1. op'[u] = next /\ \A q \in Requests \ {u} : op'[q] = op[q]
    BY <1>1, <1>2 DEF CreateFile, Goes, TypeInv, TypeOK
  <2>2. After(f, 1)
    BY <1>2 DEF CreateFile, NumberInv, After
  <2>3. Orderly(u, next) /\ next.file = f
    BY <2>2 DEF Orderly, Idle, NoRow
  <2>4. file'[f].status # "unused" /\ \A g \in Files : Exists(g) => file'[g].status # "unused"
    BY <1>2 DEF CreateFile, Exists, TypeInv, TypeOK, Row
  <2>5. UNCHANGED version
    BY <1>2 DEF CreateFile
  <2> QED BY <1>1, <2>1, <2>3, <2>4, <2>5, NumberQuiet
<1>3. ASSUME NEW f \in Files, NEW v \in Versions, NewVersion(u, f, v) PROVE NumberInv'
  <2> DEFINE next == [Idle EXCEPT !.stage = "last", !.file = f, !.version = v, !.copy = file[f]]
  <2>1. op'[u] = next /\ \A q \in Requests \ {u} : op'[q] = op[q]
    BY <1>1, <1>3 DEF NewVersion, Goes, TypeInv, TypeOK
  <2>2. Orderly(u, next) /\ next.file = f
    BY <1>3 DEF NewVersion, Exists, Orderly, Idle
  <2> QED BY <1>1, <1>3, <2>1, <2>2, NumberQuiet DEF NewVersion, Exists
<1>4. CASE FindLast(u)
  <2>1. PICK n : After(o.file, n) /\ op' = [op EXCEPT ![u] = [o EXCEPT !.stage = "object", !.number = n]]
    BY <1>4 DEF FindLast, Goes
  <2> DEFINE next == [o EXCEPT !.stage = "object", !.number = n]
  <2>2. op'[u] = next /\ \A q \in Requests \ {u} : op'[q] = op[q]
    BY <1>1, <2>1 DEF TypeInv, TypeOK
  <2>3. next.file = o.file /\ next.number = n /\ next.copy = o.copy /\ next.stage = "object" /\ o.stage = "last"
    BY <1>1, <1>4 DEF FindLast, Op
  <2>4. Orderly(u, next) /\ Exists(next.file)
    BY <1>1, <2>1, <2>3 DEF Orderly, NumberInv, Uploading
  <2> QED BY <1>1, <1>4, <2>2, <2>4, NumberQuiet DEF FindLast, Exists
<1>5. CASE StoreObject(u)
  <2> DEFINE next == [o EXCEPT !.stage = "version"]
  <2>1. op'[u] = next /\ \A q \in Requests \ {u} : op'[q] = op[q]
    BY <1>1, <1>5 DEF StoreObject, Goes, TypeInv, TypeOK
  <2>2. next.file = o.file /\ next.number = o.number /\ next.copy = o.copy /\ o.stage = "object"
    BY <1>1, <1>5 DEF StoreObject, Op
  <2>3. Orderly(u, next) /\ Exists(next.file)
    BY <1>1, <2>2 DEF Orderly, NumberInv, Uploading
  <2> QED BY <1>1, <1>5, <2>1, <2>3, NumberQuiet DEF StoreObject, Exists
<1>6. CASE SaveVersion(u)
  <2> DEFINE next == [o EXCEPT !.stage = "diff", !.copy.current = o.version, !.copy.meta = o.version]
  <2>1. op'[u] = next /\ \A q \in Requests \ {u} : op'[q] = op[q]
    BY <1>1, <1>6 DEF SaveVersion, Goes, TypeInv, TypeOK
  <2>2. /\ o.stage = "version" /\ o.file \in Files /\ o.version \in Versions /\ o.number \in Nat
        /\ ~Saved(o.version) /\ After(o.file, o.number) /\ Exists(o.file) /\ o.copy.status # "unused"
    BY <1>1, <1>6 DEF SaveVersion, Shape, Uploading, StoreInv, NumberInv, Op
  <2>3. version' = [version EXCEPT ![o.version] = [file |-> o.file, number |-> o.number]]
        /\ UNCHANGED file
    BY <1>6 DEF SaveVersion
  <2>4. /\ version'[o.version].file = o.file /\ version'[o.version].number = o.number
        /\ \A v \in Versions \ {o.version} : version'[v] = version[v]
        /\ \A v \in Versions : version[v] \in VersionRow
    BY <2>2, <2>3 DEF TypeInv, TypeOK
  <2> HIDE DEF o
  <2>5. \A v \in VersionsOf(o.file) : v \in Versions \ {o.version} /\ version[v].number \in Nat
                                      /\ version[v].number < o.number
    BY <2>2, <2>4, FileAssumption DEF VersionsOf, Saved, After, VersionRow
  <2>6. ASSUME NEW v \in Versions, version'[v].file # Null
        PROVE  /\ \A w \in Versions : version'[w].file = version'[v].file /\ w # v =>
                      version'[w].number # version'[v].number
               /\ \/ version'[v].number = 1
                  \/ \E w \in Versions : version'[w].file = version'[v].file
                                         /\ version'[w].number + 1 = version'[v].number
    <3>1. CASE v = o.version
      BY <2>2, <2>4, <2>5, <3>1 DEF After, VersionsOf
    <3>2. CASE v # o.version
      <4>1. version'[v] = version[v] /\ Saved(v)
        BY <2>4, <2>6, <3>2 DEF Saved
      <4>2. \A w \in Versions : version'[w].file = version'[v].file /\ w # v =>
                version'[w].number # version'[v].number
        BY <2>2, <2>4, <2>5, <4>1 DEF NumberInv, NumbersAreConsecutive, VersionsOf
      <4>3. version[v].number = 1 \/ \E w \in Versions : version[w].file = version[v].file
                                         /\ version[w].number + 1 = version[v].number
        BY <4>1 DEF NumberInv, NumbersAreConsecutive, VersionsOf
      <4>4. \A w \in Versions : version[w].file = version[v].file => w # o.version
        BY <2>2, <4>1 DEF Saved
      <4> QED BY <2>4, <4>1, <4>2, <4>3, <4>4
    <3> QED BY <3>1, <3>2
  <2>7. NumbersAreConsecutive'
    BY <2>6 DEF NumbersAreConsecutive, Saved, VersionsOf
  <2>8. \A q \in Requests : op'[q].stage \in Uploading => q # u /\ op[q].stage \in Uploading
    BY <1>1, <2>1 DEF Uploading, Op, o
  <2>9. \A q \in Requests : op'[q].stage \notin Uploading
    BY <2>8 DEF NumberInv, Serial
  <2>10. \A f \in Files : file'[f].status = "unused" => VersionsOf(f)' = {}
    BY <2>2, <2>3, <2>4 DEF NumberInv, Exists, VersionsOf
  <2>11. op'[u].copy.status # "unused"
    <3>1. o.copy \in Row /\ op'[u].copy = [o.copy EXCEPT !.current = o.version, !.meta = o.version]
      BY <1>1, <2>1 DEF Op
    <3> QED BY <2>2, <3>1 DEF Row
  <2>12. \A q \in Requests : op'[q].stage \in Uploading \cup {"pick", "diff", "save"} => op'[q].copy.status # "unused"
    BY <2>1, <2>11 DEF NumberInv
  <2> QED BY <2>7, <2>9, <2>10, <2>12 DEF NumberInv, Exists, Uploading
<1> QED BY <1>2, <1>3, <1>4, <1>5, <1>6 DEF UploadStep

LEMMA NumberRead ==
    ASSUME TypeInv, NumberInv, NEW d \in Requests, ReadStep(d)
    PROVE  NumberInv'
<1> DEFINE o == op[d]
<1>1. o \in Op /\ Shape(o)
  BY DEF TypeInv, TypeOK
<1>2. UNCHANGED <<file, version>>
  BY DEF ReadStep, Download, ValidateAccess, Preview, Count, FindShared, Pick, Stream
<1>3. ASSUME NEW next, op' = [op EXCEPT ![d] = next], Orderly(d, next), next.stage \notin Uploading
      PROVE  NumberInv'
  <2>1. op'[d] = next /\ \A q \in Requests \ {d} : op'[q] = op[q]
    BY <1>3 DEF TypeInv, TypeOK
  <2> QED BY <1>2, <1>3, <2>1, NumberQuiet DEF Exists
<1>4. Orderly(d, Idle) /\ Idle.stage \notin Uploading
  BY DEF Orderly, Idle, Uploading
<1>5. ASSUME NEW f \in Files, NEW prior \in Op, Find(d, f, prior) PROVE NumberInv'
  <2> DEFINE next == [prior EXCEPT !.stage = "pick", !.file = f, !.copy = file[f]]
  <2>1. file[f].status = "active" => Orderly(d, next) /\ next.stage \notin Uploading
    BY DEF Orderly, Op, Uploading
  <2>2. \/ op' = [op EXCEPT ![d] = next] /\ file[f].status = "active"
        \/ op' = [op EXCEPT ![d] = Idle]
    BY <1>5 DEF Find, Goes, Ends
  <2> QED BY <1>3, <1>4, <2>1, <2>2
<1>6. ASSUME NEW f \in Files, Download(d, f) PROVE NumberInv'
  BY <1>5, <1>6, IdleType DEF Download
<1>7. ASSUME NEW s \in Shares, ValidateAccess(d, s) PROVE NumberInv'
  <2> DEFINE next == [Idle EXCEPT !.stage = "count", !.share = s, !.file = share[s].file]
  <2>1. Orderly(d, next) /\ next.stage \notin Uploading
    BY DEF Orderly, Idle, Uploading
  <2> QED BY <1>3, <1>7, <2>1 DEF ValidateAccess, Goes
<1>8. CASE Count(d)
  <2>1. Orderly(d, [o EXCEPT !.stage = "find"]) /\ [o EXCEPT !.stage = "find"].stage \notin Uploading
    BY <1>1 DEF Orderly, Op, Uploading
  <2> QED BY <1>3, <1>8, <2>1 DEF Count, Goes
<1>9. CASE FindShared(d)
  BY <1>1, <1>5, <1>9 DEF FindShared, Shape, OnFile
<1>10. CASE Pick(d)
  <2>1. CASE op' = [op EXCEPT ![d] = Idle]
    BY <1>3, <1>4, <2>1
  <2>2. CASE op' # [op EXCEPT ![d] = Idle]
    <3>1. PICK v : op' = [op EXCEPT ![d] = [o EXCEPT !.stage = "diff", !.version = v]]
      BY <1>10, <2>2 DEF Pick, Ends, Goes
    <3> DEFINE next == [o EXCEPT !.stage = "diff", !.version = v]
    <3>2. Orderly(d, next) /\ next.stage \notin Uploading
      BY <1>1, <1>10 DEF Pick, Orderly, NumberInv, Op, Uploading
    <3> QED BY <1>3, <3>1, <3>2
  <2> QED BY <2>1, <2>2
<1>11. CASE Stream(d)
  BY <1>3, <1>4, <1>11 DEF Stream, Ends, Goes
<1>12. ASSUME NEW s \in Shares, Preview(d, s) PROVE NumberInv'
  <2> DEFINE next == [Idle EXCEPT !.stage = "find", !.file = share[s].file]
  <2>1. Orderly(d, next) /\ next.stage \notin Uploading
    BY DEF Orderly, Idle, Uploading
  <2> QED BY <1>3, <1>12, <2>1 DEF Preview, Goes
<1> QED BY <1>6, <1>7, <1>8, <1>9, <1>10, <1>11, <1>12 DEF ReadStep

LEMMA NumberEdit ==
    ASSUME TypeInv, NumberInv, NEW e \in Requests, EditStep(e)
    PROVE  NumberInv'
<1> DEFINE o == op[e]
<1>1. o \in Op /\ \A f \in Files : file[f] \in Row
  BY DEF TypeInv, TypeOK
<1>2. UNCHANGED <<file, version>>
  BY DEF EditStep, ChangeStatus, UpdateMetadata, CreateShare, UpdateShare, DiffShare, SaveShare, DeleteShare
<1>3. ASSUME NEW next, op' = [op EXCEPT ![e] = next], Orderly(e, next), next.stage \notin Uploading
      PROVE  NumberInv'
  <2>1. op'[e] = next /\ \A q \in Requests \ {e} : op'[q] = op[q]
    BY <1>3 DEF TypeInv, TypeOK
  <2> QED BY <1>2, <1>3, <2>1, NumberQuiet DEF Exists
<1>4. Orderly(e, Idle) /\ Idle.stage \notin Uploading
  BY DEF Orderly, Idle, Uploading
<1>5. ASSUME NEW f \in Files, NEW status \in {"active", "deleted"}, ChangeStatus(e, f, status)
      PROVE  NumberInv'
  <2> DEFINE next == [Idle EXCEPT !.stage = "diff", !.file = f, !.copy = [file[f] EXCEPT !.status = status]]
  <2>1. Orderly(e, next) /\ next.stage \notin Uploading
    BY <1>1 DEF Orderly, Idle, Row, Uploading
  <2> QED BY <1>3, <1>5, <2>1 DEF ChangeStatus, Goes
<1>6. ASSUME NEW f \in Files, UpdateMetadata(e, f) PROVE NumberInv'
  <2> DEFINE next == [Idle EXCEPT !.stage = "diff", !.file = f, !.copy = file[f], !.dirty = {"meta"}]
  <2>1. Orderly(e, next) /\ next.stage \notin Uploading
    BY <1>6 DEF UpdateMetadata, Exists, Orderly, Idle, Uploading
  <2> QED BY <1>3, <1>6, <2>1 DEF UpdateMetadata, Goes
<1>7. ASSUME NEW s \in Shares, NEW status \in {"active", "inactive"}, UpdateShare(e, s, status)
      PROVE  NumberInv'
  <2> DEFINE next == [Idle EXCEPT !.stage = "shareDiff", !.share = s, !.link = [share[s] EXCEPT !.status = status]]
  <2>1. Orderly(e, next) /\ next.stage \notin Uploading
    BY DEF Orderly, Idle, Uploading
  <2> QED BY <1>3, <1>7, <2>1 DEF UpdateShare, Goes
<1>8. CASE DiffShare(e)
  <2> DEFINE next == [o EXCEPT !.stage = "shareSave",
                               !.dirty = LinkColumns \cap Differs(share[o.share], o.link)]
  <2>1. Orderly(e, next) /\ next.stage \notin Uploading
    BY <1>1 DEF Orderly, Op, Uploading
  <2> QED BY <1>3, <1>8, <2>1 DEF DiffShare, Goes
<1>9. CASE SaveShare(e)
  BY <1>3, <1>4, <1>9 DEF SaveShare, Ends, Goes
<1>10. CASE UNCHANGED op
  BY <1>2, <1>10 DEF NumberInv, NumbersAreConsecutive, Saved, VersionsOf, After, Exists
<1>11. ASSUME NEW s \in Shares, DeleteShare(e, s) PROVE UNCHANGED op
  BY <1>11 DEF DeleteShare
<1>12. ASSUME NEW s \in Shares, NEW f \in Files, CreateShare(e, s, f) PROVE UNCHANGED op
  BY <1>12 DEF CreateShare
<1> QED BY <1>5, <1>6, <1>7, <1>8, <1>9, <1>10, <1>11, <1>12 DEF EditStep

LEMMA NumberSave ==
    ASSUME TypeInv, NumberInv, NEW r \in Requests, Diff(r) \/ Save(r) \/ Fails(r)
    PROVE  NumberInv'
<1> DEFINE o == op[r]
<1>1. o \in Op /\ Shape(o)
  BY DEF TypeInv, TypeOK
<1>2. Orderly(r, Idle) /\ Idle.stage \notin Uploading
  BY DEF Orderly, Idle, Uploading
<1>3. CASE Diff(r)
  <2> DEFINE next == [o EXCEPT !.stage = "save", !.dirty = o.dirty \cup Differs(file[o.file], o.copy)]
  <2>1. op'[r] = next /\ \A q \in Requests \ {r} : op'[q] = op[q]
    BY <1>3 DEF Diff, Goes, TypeInv, TypeOK
  <2>2. Orderly(r, next) /\ next.stage \notin Uploading
    BY <1>1, <1>3 DEF Diff, Orderly, NumberInv, Op, Uploading
  <2> QED BY <1>3, <2>1, <2>2, NumberQuiet DEF Diff, Exists
<1>4. CASE Save(r)
  <2> DEFINE next == IF Downloading(r) THEN [o EXCEPT !.stage = "stream", !.dirty = {}] ELSE Idle
  <2>1. op'[r] = next /\ \A q \in Requests \ {r} : op'[q] = op[q]
    BY <1>4 DEF Save, Goes, TypeInv, TypeOK
  <2>2. Orderly(r, next) /\ next.stage \notin Uploading
    BY <1>1, <1>2 DEF Orderly, Op, Uploading
  <2>3. /\ \A f \in Files \ {o.file} : file'[f] = file[f]
        /\ o.file \in Files /\ file'[o.file].status \in {file[o.file].status, o.copy.status}
    BY <1>1, <1>4 DEF Save, Columns, TypeInv, TypeOK, Shape, OnFile
  <2>4. o.copy.status # "unused"
    BY <1>4 DEF Save, NumberInv
  <2>5. UNCHANGED version /\ \A f \in Files : Exists(f) => file'[f].status # "unused"
    BY <1>4, <2>3, <2>4 DEF Save, Exists
  <2> HIDE DEF next
  <2> QED BY <2>1, <2>2, <2>5, NumberQuiet
<1>5. CASE Fails(r)
  <2>1. op'[r] = Idle /\ \A q \in Requests \ {r} : op'[q] = op[q]
    BY <1>5 DEF Fails, Ends, Goes, TypeInv, TypeOK
  <2> QED BY <1>2, <1>5, <2>1, NumberQuiet DEF Fails, Exists
<1> QED BY <1>3, <1>4, <1>5

LEMMA NumberStep == Serial /\ TypeInv /\ StoreInv /\ NumberInv /\ [Next]_vars => NumberInv'
<1>1. ASSUME NumberInv, UNCHANGED vars PROVE NumberInv'
  BY <1>1 DEF NumberInv, NumbersAreConsecutive, Saved, VersionsOf, After, Exists, vars
<1> QED BY <1>1, NumberUpload, NumberRead, NumberEdit, NumberSave DEF Next

\* With one upload at a time, cut short or not, the versions of a file are
\* numbered 1, 2, 3, ..., whatever downloads and updates save meanwhile.
THEOREM NumbersAlways ==
    ASSUME \A u, w \in Uploads : u = w
    PROVE  Spec => []NumbersAreConsecutive
<1>1. Serial
  BY DEF Serial
<1>2. NumberInv => NumbersAreConsecutive
  BY DEF NumberInv
<1>3. TypeInv /\ StoreInv /\ NumberInv /\ [Next]_vars => NumberInv'
  BY <1>1, NumberStep
<1> QED BY <1>2, <1>3, TypeInit, TypeStep, StoreInit, StoreStep, NumberInit, PTL DEF Spec
-----------------------------------------------------------------------------
(* What links count and what they hand out.                                 *)

Serves == {"find", "pick", "diff", "save", "stream"}
Pending(s) == {r \in Requests : op[r].stage = "count" /\ op[r].share = s}
Serving(s) == {r \in Requests : op[r].stage \in Serves /\ op[r].share = s}

\* Requests between the comparison and the count may still be added to the
\* count; those behind the count may still be added to what was handed out.
CountInv ==
    edits.share = 0 =>
        /\ \A r \in Requests : op[r].stage \notin {"shareDiff", "shareSave"}
        /\ \A s \in Shares : share[s].count + Cardinality(Pending(s)) < Limit + Cardinality(Requests)
        /\ \A s \in Shares : Linked(s) => served[s] + Cardinality(Serving(s)) <= share[s].count
        /\ \A s \in Shares : share[s].status = "none" =>
               served[s] = 0 /\ \A r \in Requests : op[r].share # s

LEMMA SubsetCount ==
    ASSUME NEW S, NEW T, S \subseteq T, T \subseteq Requests
    PROVE  /\ Cardinality(S) \in Nat /\ Cardinality(T) \in Nat /\ Cardinality(Requests) \in Nat
           /\ Cardinality(S) <= Cardinality(T) /\ Cardinality(T) <= Cardinality(Requests)
<1>1. IsFiniteSet(T)
  BY FS_Subset, FileAssumption
<1> QED BY <1>1, FS_Subset, FS_CardinalityType, FileAssumption

LEMMA AddOne ==
    ASSUME NEW S, S \subseteq Requests, NEW r \in Requests
    PROVE  /\ r \notin S => Cardinality(S \cup {r}) = Cardinality(S) + 1
           /\ r \in S => Cardinality(S \ {r}) = Cardinality(S) - 1
BY FS_Subset, FS_AddElement, FS_RemoveElement, FileAssumption

LEMMA CountInit == Init => CountInv
<1> SUFFICES ASSUME Init PROVE CountInv
  OBVIOUS
<1>1. \A s \in Shares : Pending(s) = {} /\ Serving(s) = {}
  BY DEF Init, Pending, Serving, Idle, Serves
<1>2. Cardinality({}) = 0 /\ Cardinality(Requests) \in Nat
  BY FS_EmptySet, FS_CardinalityType, FileAssumption
<1>3. \A s \in Shares : Cardinality(Pending(s)) = 0 /\ Cardinality(Serving(s)) = 0
  BY <1>1, <1>2
<1>4. \A s \in Shares : share[s].count = 0 /\ share[s].status = "none" /\ served[s] = 0
  BY DEF Init, NoShare
<1>5. \A r \in Requests : op[r].stage = "idle" /\ op[r].share = Null
  BY DEF Init, Idle
<1> QED BY <1>2, <1>3, <1>4, <1>5, FileAssumption DEF CountInv, Linked

\* A step that neither counts nor hands out, for the request r.
Passive(o, n) ==
    /\ n.stage \notin {"count", "shareDiff", "shareSave"}
    /\ n.share \in {o.share, Null}
    /\ n.share = o.share /\ n.stage \in Serves => o.stage \in Serves \/ o.share = Null

LEMMA CountQuiet ==
    ASSUME TypeInv, CountInv, NEW r \in Requests, NEW next, op' = [op EXCEPT ![r] = next],
           Passive(op[r], next), UNCHANGED <<share, served>>, edits'.share = edits.share
    PROVE  CountInv'
<1> SUFFICES ASSUME edits.share = 0
             PROVE  /\ \A q \in Requests : op'[q].stage \notin {"shareDiff", "shareSave"}
                    /\ \A s \in Shares : share[s].count + Cardinality(Pending(s)') < Limit + Cardinality(Requests)
                    /\ \A s \in Shares : Linked(s) => served[s] + Cardinality(Serving(s)') <= share[s].count
                    /\ \A s \in Shares : share[s].status = "none" =>
                           served[s] = 0 /\ \A q \in Requests : op'[q].share # s
  BY DEF CountInv, Linked
<1>1. op'[r] = next /\ \A q \in Requests \ {r} : op'[q] = op[q]
  BY DEF TypeInv, TypeOK
<1>2. \A s \in Shares : Pending(s)' \subseteq Pending(s) /\ Serving(s)' \subseteq Serving(s)
                        /\ Pending(s) \subseteq Requests /\ Serving(s) \subseteq Requests
  BY <1>1, FileAssumption DEF Pending, Serving, Passive
<1>3. \A s \in Shares : share[s].count \in Nat /\ served[s] \in Nat
  BY DEF TypeInv, TypeOK, ShareRow
<1>4. ASSUME NEW s \in Shares
      PROVE  /\ share[s].count + Cardinality(Pending(s)') < Limit + Cardinality(Requests)
             /\ Linked(s) => served[s] + Cardinality(Serving(s)') <= share[s].count
  <2>1. /\ Cardinality(Pending(s)') \in Nat /\ Cardinality(Pending(s)) \in Nat
        /\ Cardinality(Pending(s)') <= Cardinality(Pending(s))
    BY <1>2, SubsetCount
  <2>2. /\ Cardinality(Serving(s)') \in Nat /\ Cardinality(Serving(s)) \in Nat /\ Cardinality(Requests) \in Nat
        /\ Cardinality(Serving(s)') <= Cardinality(Serving(s))
    BY <1>2, SubsetCount
  <2> QED BY <1>3, <2>1, <2>2, FileAssumption DEF CountInv
<1> QED BY <1>1, <1>4, FileAssumption DEF CountInv, Passive

LEMMA CountUpload ==
    ASSUME TypeInv, CountInv, NEW u \in Requests, UploadStep(u)
    PROVE  CountInv'
<1> DEFINE o == op[u]
<1>1. o \in Op /\ Shape(o)
  BY DEF TypeInv, TypeOK
<1>2. ASSUME NEW f \in Files, NEW v \in Versions, CreateFile(u, f, v) PROVE CountInv'
  <2> DEFINE next == [Idle EXCEPT !.stage = "object", !.file = f, !.version = v, !.number = 1,
                                  !.copy = [NoRow EXCEPT !.status = "active"]]
  <2>1. Passive(o, next)
    BY DEF Passive, Idle, Serves
  <2> QED BY <1>2, <2>1, CountQuiet DEF CreateFile, Goes
<1>3. ASSUME NEW f \in Files, NEW v \in Versions, NewVersion(u, f, v) PROVE CountInv'
  <2> DEFINE next == [Idle EXCEPT !.stage = "last", !.file = f, !.version = v, !.copy = file[f]]
  <2>1. Passive(o, next)
    BY DEF Passive, Idle, Serves
  <2> QED BY <1>3, <2>1, CountQuiet DEF NewVersion, Goes
<1>4. CASE FindLast(u)
  <2>1. PICK n : op' = [op EXCEPT ![u] = [o EXCEPT !.stage = "object", !.number = n]]
    BY <1>4 DEF FindLast, Goes
  <2>2. Passive(o, [o EXCEPT !.stage = "object", !.number = n])
    BY <1>1 DEF Passive, Op, Serves
  <2> QED BY <1>4, <2>1, <2>2, CountQuiet DEF FindLast
<1>5. CASE StoreObject(u)
  <2>1. Passive(o, [o EXCEPT !.stage = "version"])
    BY <1>1 DEF Passive, Op, Serves
  <2> QED BY <1>5, <2>1, CountQuiet DEF StoreObject, Goes
<1>6. CASE SaveVersion(u)
  <2>1. Passive(o, [o EXCEPT !.stage = "diff", !.copy.current = o.version, !.copy.meta = o.version])
    BY <1>1, <1>6 DEF SaveVersion, Passive, Op, Serves, Shape, Uploading
  <2> QED BY <1>6, <2>1, CountQuiet DEF SaveVersion, Goes
<1> QED BY <1>2, <1>3, <1>4, <1>5, <1>6 DEF UploadStep

\* A request that validates, counts or hands out changes its own record and
\* the numbers of its own link only.
LEMMA CountActive ==
    ASSUME TypeInv, CountInv, NEW d \in Requests, NEW next, op' = [op EXCEPT ![d] = next],
           NEW s \in Shares, next.share \in {s, Null}, op[d].share \in {s, Null},
           share[s].status # "none", next.stage \notin {"shareDiff", "shareSave"},
           edits'.share = edits.share,
           \A t \in Shares \ {s} : share'[t] = share[t] /\ served'[t] = served[t],
           share'[s].status # "none",
           edits.share = 0 => share'[s].count + Cardinality(Pending(s)') < Limit + Cardinality(Requests),
           edits.share = 0 /\ share'[s].status \in {"active", "inactive"} =>
               served'[s] + Cardinality(Serving(s)') <= share'[s].count
    PROVE  CountInv'
<1> SUFFICES ASSUME edits.share = 0
             PROVE  /\ \A q \in Requests : op'[q].stage \notin {"shareDiff", "shareSave"}
                    /\ \A t \in Shares : share'[t].count + Cardinality(Pending(t)') < Limit + Cardinality(Requests)
                    /\ \A t \in Shares : share'[t].status \in {"active", "inactive"} =>
                           served'[t] + Cardinality(Serving(t)') <= share'[t].count
                    /\ \A t \in Shares : share'[t].status = "none" =>
                           served'[t] = 0 /\ \A q \in Requests : op'[q].share # t
  BY DEF CountInv, Linked
<1>1. op'[d] = next /\ \A q \in Requests \ {d} : op'[q] = op[q]
  BY DEF TypeInv, TypeOK
<1>2. \A t \in Shares \ {s} : Pending(t)' = Pending(t) /\ Serving(t)' = Serving(t)
  BY <1>1, FileAssumption DEF Pending, Serving
<1>3. \A t \in Shares \ {s} :
          /\ share'[t].count + Cardinality(Pending(t)') < Limit + Cardinality(Requests)
          /\ share'[t].status \in {"active", "inactive"} =>
                 served'[t] + Cardinality(Serving(t)') <= share'[t].count
  BY <1>2 DEF CountInv, Linked
<1>4. \A t \in Shares : share'[t].status = "none" =>
          served'[t] = 0 /\ \A q \in Requests : op'[q].share # t
  BY <1>1, FileAssumption DEF CountInv
<1> QED BY <1>1, <1>3, <1>4 DEF CountInv

LEMMA CountRead ==
    ASSUME TypeInv, CountInv, NEW d \in Requests, ReadStep(d)
    PROVE  CountInv'
<1> DEFINE o == op[d]
<1>1. o \in Op /\ Shape(o) /\ \A s \in Shares : share[s] \in ShareRow /\ served[s] \in Nat
  BY DEF TypeInv, TypeOK
<1>2. UNCHANGED edits
  BY DEF ReadStep, Download, ValidateAccess, Preview, Count, FindShared, Pick, Stream
<1>3. ASSUME NEW next, op' = [op EXCEPT ![d] = next], Passive(o, next), UNCHANGED <<share, served>>
      PROVE  CountInv'
  BY <1>2, <1>3, CountQuiet
<1>4. Passive(o, Idle)
  BY DEF Passive, Idle, Serves
<1>5. ASSUME NEW f \in Files, Download(d, f) PROVE CountInv'
  <2> DEFINE next == [Idle EXCEPT !.stage = "pick", !.file = f, !.copy = file[f]]
  <2>1. o = Idle /\ Passive(o, next)
    BY <1>5 DEF Download, Passive, Idle, Serves
  <2>2. op' = [op EXCEPT ![d] = next] \/ op' = [op EXCEPT ![d] = Idle]
    BY <1>5 DEF Download, Find, Goes, Ends
  <2> QED BY <1>3, <1>4, <1>5, <2>1, <2>2 DEF Download
<1>6. ASSUME NEW s \in Shares, ValidateAccess(d, s) PROVE CountInv'
  <2> DEFINE next == [Idle EXCEPT !.stage = "count", !.share = s, !.file = share[s].file]
  <2>1. op' = [op EXCEPT ![d] = next] /\ UNCHANGED <<share, served>> /\ o = Idle
        /\ share[s].status = "active" /\ share[s].count < Limit
    BY <1>6 DEF ValidateAccess, Open, Goes
  <2>2. op'[d] = next /\ \A q \in Requests \ {d} : op'[q] = op[q]
    BY <2>1 DEF TypeInv, TypeOK
  <2>3. next.share = s /\ next.stage = "count" /\ o.share = Null
    BY <2>1 DEF Idle
  <2> HIDE DEF next
  <2>4. Pending(s)' \subseteq Requests /\ Serving(s)' \subseteq Serving(s) /\ Serving(s) \subseteq Requests
    BY <2>2, <2>3 DEF Pending, Serving, Serves
  <2>5. Cardinality(Pending(s)') \in Nat /\ Cardinality(Pending(s)') <= Cardinality(Requests)
        /\ Cardinality(Requests) \in Nat
    BY <2>4, SubsetCount
  <2>6. Cardinality(Serving(s)') \in Nat /\ Cardinality(Serving(s)) \in Nat
        /\ Cardinality(Serving(s)') <= Cardinality(Serving(s))
    BY <2>4, SubsetCount
  <2>7. share[s].count + Cardinality(Pending(s)') < Limit + Cardinality(Requests)
    BY <1>1, <2>1, <2>5, FileAssumption DEF ShareRow
  <2>8. edits.share = 0 /\ share[s].status \in {"active", "inactive"} =>
            served[s] + Cardinality(Serving(s)') <= share[s].count
    BY <1>1, <2>6 DEF CountInv, Linked, ShareRow
  <2> QED BY <1>2, <2>1, <2>3, <2>7, <2>8, CountActive
<1>7. CASE Count(d)
  <2> DEFINE next == [o EXCEPT !.stage = "find"]
  <2>0. PICK s \in Shares : s = o.share
    BY <1>1, <1>7 DEF Count, Shape
  <2>1. op' = [op EXCEPT ![d] = next] /\ UNCHANGED served /\ o.stage = "count" /\ o.share = s
    BY <1>7, <2>0 DEF Count, Goes
  <2>2. op'[d] = next /\ \A q \in Requests \ {d} : op'[q] = op[q]
    BY <2>1 DEF TypeInv, TypeOK
  <2>3. next.share = s /\ next.stage = "find"
    BY <1>1, <2>0 DEF Op
  <2>4. /\ \A t \in Shares \ {s} : share'[t] = share[t]
        /\ share'[s].status = share[s].status
        /\ share'[s].count \in {share[s].count, share[s].count + 1}
        /\ Linked(s) => share'[s].count = share[s].count + 1
    BY <1>1, <1>7, <2>1 DEF Count, TypeInv, TypeOK, ShareRow
  <2>5. edits.share = 0 => share[s].status # "none"
    BY <2>1 DEF CountInv
  <2>6. CASE edits.share # 0
    BY <1>2, <2>6 DEF CountInv
  <2>7. CASE edits.share = 0
    <3> HIDE DEF next
    <3>1. /\ d \in Pending(s) /\ Pending(s)' = Pending(s) \ {d}
          /\ d \notin Serving(s) /\ Serving(s)' = Serving(s) \cup {d}
      BY <2>1, <2>2, <2>3 DEF Pending, Serving, Serves
    <3>2. Pending(s) \subseteq Requests /\ Serving(s) \subseteq Requests
      BY DEF Pending, Serving
    <3>3. /\ Cardinality(Pending(s)') = Cardinality(Pending(s)) - 1
          /\ Cardinality(Serving(s)') = Cardinality(Serving(s)) + 1
          /\ Cardinality(Pending(s)) \in Nat /\ Cardinality(Serving(s)) \in Nat /\ Cardinality(Requests) \in Nat
      BY <3>1, <3>2, AddOne, SubsetCount
    <3>4. share[s].count \in Nat /\ served[s] \in Nat
      BY <1>1, <2>1 DEF ShareRow
    <3>5. share[s].count + Cardinality(Pending(s)) < Limit + Cardinality(Requests)
          /\ (Linked(s) => served[s] + Cardinality(Serving(s)) <= share[s].count)
      BY <2>1, <2>7 DEF CountInv
    <3>6. share'[s].count + Cardinality(Pending(s)') < Limit + Cardinality(Requests)
      BY <2>4, <3>3, <3>4, <3>5, FileAssumption
    <3>7. share'[s].status \in {"active", "inactive"} =>
              served'[s] + Cardinality(Serving(s)') <= share'[s].count
      BY <2>1, <2>4, <3>3, <3>4, <3>5 DEF Linked
    <3> QED BY <1>2, <2>1, <2>3, <2>4, <2>5, <2>7, <3>6, <3>7, CountActive
  <2> QED BY <2>6, <2>7
<1>8. CASE FindShared(d)
  <2> DEFINE next == [o EXCEPT !.stage = "pick", !.file = o.file, !.copy = file[o.file]]
  <2>1. Passive(o, next)
    BY <1>1, <1>8 DEF FindShared, Passive, Op, Serves
  <2>2. op' = [op EXCEPT ![d] = next] \/ op' = [op EXCEPT ![d] = Idle]
    BY <1>8 DEF FindShared, Find, Goes, Ends
  <2> QED BY <1>3, <1>4, <1>8, <2>1, <2>2 DEF FindShared
<1>9. CASE Pick(d)
  <2>1. CASE op' = [op EXCEPT ![d] = Idle]
    BY <1>3, <1>4, <1>9, <2>1 DEF Pick
  <2>2. CASE op' # [op EXCEPT ![d] = Idle]
    <3>1. PICK v : op' = [op EXCEPT ![d] = [o EXCEPT !.stage = "diff", !.version = v]]
      BY <1>9, <2>2 DEF Pick, Ends, Goes
    <3>2. Passive(o, [o EXCEPT !.stage = "diff", !.version = v])
      BY <1>1, <1>9 DEF Pick, Passive, Op, Serves
    <3> QED BY <1>3, <1>9, <3>1, <3>2 DEF Pick
  <2> QED BY <2>1, <2>2
<1>10. CASE Stream(d)
  <2>1. op' = [op EXCEPT ![d] = Idle] /\ UNCHANGED share /\ o.stage = "stream"
    BY <1>10 DEF Stream, Ends, Goes
  <2>2. CASE UNCHANGED served
    BY <1>3, <1>4, <2>1, <2>2
  <2>3. CASE served' # served
    <3>0. PICK s \in Shares : s = o.share
      BY <1>1, <1>10, <2>3 DEF Stream, Op, OrNull
    <3>1. s \in Shares /\ o.share = s /\ served' = [served EXCEPT ![s] = @ + 1]
      BY <1>10, <2>3, <3>0 DEF Stream
    <3>2. /\ \A t \in Shares \ {s} : served'[t] = served[t]
          /\ served'[s] = served[s] + 1
      BY <3>1 DEF TypeInv, TypeOK
    <3>3. op'[d] = Idle /\ \A q \in Requests \ {d} : op'[q] = op[q]
      BY <2>1 DEF TypeInv, TypeOK
    <3>4. /\ Pending(s)' \subseteq Pending(s)
          /\ d \in Serving(s) /\ Serving(s)' = Serving(s) \ {d}
      BY <2>1, <3>1, <3>3, FileAssumption DEF Pending, Serving, Serves, Idle
    <3>5. Pending(s) \subseteq Requests /\ Serving(s) \subseteq Requests
      BY DEF Pending, Serving
    <3>6. /\ Cardinality(Serving(s)') = Cardinality(Serving(s)) - 1
          /\ Cardinality(Pending(s)') <= Cardinality(Pending(s))
          /\ Cardinality(Pending(s)') \in Nat /\ Cardinality(Pending(s)) \in Nat
          /\ Cardinality(Serving(s)) \in Nat /\ Cardinality(Requests) \in Nat
      BY <3>4, <3>5, AddOne, SubsetCount
    <3>7. share[s].count \in Nat /\ served[s] \in Nat
      BY <1>1, <3>1 DEF ShareRow
    <3>8. CASE edits.share # 0
      BY <1>2, <3>8 DEF CountInv
    <3>9. CASE edits.share = 0
      <4>1. /\ share[s].status # "none"
            /\ share[s].count + Cardinality(Pending(s)) < Limit + Cardinality(Requests)
            /\ Linked(s) => served[s] + Cardinality(Serving(s)) <= share[s].count
        BY <3>1, <3>9 DEF CountInv
      <4>2. Idle.share = Null /\ Idle.stage = "idle"
        BY DEF Idle
      <4>3. share'[s].count + Cardinality(Pending(s)') < Limit + Cardinality(Requests)
        BY <2>1, <3>6, <3>7, <4>1, FileAssumption
      <4>4. share'[s].status \in {"active", "inactive"} =>
                served'[s] + Cardinality(Serving(s)') <= share'[s].count
        BY <2>1, <3>2, <3>6, <3>7, <4>1 DEF Linked
      <4> QED BY <1>2, <2>1, <3>1, <3>2, <4>1, <4>2, <4>3, <4>4, CountActive
    <3> QED BY <3>8, <3>9
  <2> QED BY <2>2, <2>3
<1>11. ASSUME NEW s \in Shares, Preview(d, s) PROVE CountInv'
  <2> DEFINE next == [Idle EXCEPT !.stage = "find", !.file = share[s].file]
  <2>1. o = Idle /\ Passive(o, next)
    BY <1>11 DEF Preview, Passive, Idle, Serves
  <2>2. op' = [op EXCEPT ![d] = next] /\ UNCHANGED <<share, served>>
    BY <1>11 DEF Preview, Goes
  <2> QED BY <1>3, <2>1, <2>2
<1> QED BY <1>5, <1>6, <1>7, <1>8, <1>9, <1>10, <1>11 DEF ReadStep

LEMMA CountEdit ==
    ASSUME TypeInv, CountInv, NEW e \in Requests, EditStep(e)
    PROVE  CountInv'
<1> DEFINE o == op[e]
<1>1. o \in Op /\ Shape(o) /\ \A s \in Shares : share[s] \in ShareRow /\ served[s] \in Nat
  BY DEF TypeInv, TypeOK
<1>2. ASSUME NEW f \in Files, NEW status \in {"active", "deleted"}, ChangeStatus(e, f, status)
      PROVE  CountInv'
  <2> DEFINE next == [Idle EXCEPT !.stage = "diff", !.file = f, !.copy = [file[f] EXCEPT !.status = status]]
  <2>1. o = Idle /\ Passive(o, next)
    BY <1>2 DEF ChangeStatus, Passive, Idle, Serves
  <2> QED BY <1>2, <2>1, CountQuiet DEF ChangeStatus, Goes
<1>3. ASSUME NEW f \in Files, UpdateMetadata(e, f) PROVE CountInv'
  <2> DEFINE next == [Idle EXCEPT !.stage = "diff", !.file = f, !.copy = file[f], !.dirty = {"meta"}]
  <2>1. o = Idle /\ Passive(o, next)
    BY <1>3 DEF UpdateMetadata, Passive, Idle, Serves
  <2>2. edits'.share = edits.share
    BY <1>3 DEF UpdateMetadata, TypeInv, TypeOK
  <2> QED BY <1>3, <2>1, <2>2, CountQuiet DEF UpdateMetadata, Goes
<1>4. ASSUME NEW s \in Shares, NEW status \in {"active", "inactive"}, UpdateShare(e, s, status)
      PROVE  CountInv'
  <2>1. edits'.share = edits.share + 1 /\ edits.share \in Nat
    BY <1>4 DEF UpdateShare, TypeInv, TypeOK
  <2> QED BY <2>1 DEF CountInv
<1>5. ASSUME DiffShare(e) \/ SaveShare(e) PROVE CountInv'
  <2>1. edits.share # 0 /\ UNCHANGED edits
    BY <1>5 DEF DiffShare, SaveShare, CountInv
  <2> QED BY <2>1 DEF CountInv
<1>6. ASSUME NEW s \in Shares, NEW f \in Files, CreateShare(e, s, f) PROVE CountInv'
  <2>1. UNCHANGED <<op, served, edits>>
    BY <1>6 DEF CreateShare
  <2>2. /\ \A t \in Shares \ {s} : share'[t] = share[t]
        /\ share'[s].status = "active" /\ share'[s].count = 0 /\ share[s].status = "none"
    BY <1>6 DEF CreateShare, NoShare, TypeInv, TypeOK
  <2>3. \A t \in Shares : Pending(t)' = Pending(t) /\ Serving(t)' = Serving(t)
    BY <2>1 DEF Pending, Serving
  <2>4. edits.share = 0 => served[s] = 0 /\ Pending(s) = {} /\ Serving(s) = {}
    BY <2>2 DEF CountInv, Pending, Serving
  <2>5. Cardinality({}) = 0 /\ Cardinality(Requests) \in Nat
    BY FS_EmptySet, FS_CardinalityType, FileAssumption
  <2>6. edits.share = 0 => Cardinality(Pending(s)) = 0 /\ Cardinality(Serving(s)) = 0
    BY <2>4, <2>5
  <2>7. edits.share = 0 =>
            /\ \A t \in Shares : share'[t].count + Cardinality(Pending(t)') < Limit + Cardinality(Requests)
            /\ \A t \in Shares : share'[t].status \in {"active", "inactive"} =>
                   served[t] + Cardinality(Serving(t)') <= share'[t].count
    BY <2>2, <2>3, <2>4, <2>5, <2>6, FileAssumption DEF CountInv, Linked
  <2>8. edits.share = 0 => \A t \in Shares : share'[t].status = "none" =>
            served[t] = 0 /\ \A r \in Requests : op[r].share # t
    BY <2>2 DEF CountInv
  <2> QED BY <2>1, <2>7, <2>8 DEF CountInv, Linked
<1>7. ASSUME NEW s \in Shares, DeleteShare(e, s) PROVE CountInv'
  <2>1. UNCHANGED <<op, served, edits>>
    BY <1>7 DEF DeleteShare
  <2>2. /\ \A t \in Shares : share'[t].count = share[t].count
        /\ \A t \in Shares : share'[t].status = share[t].status \/ share'[t].status = "removed"
    BY <1>1, <1>7 DEF DeleteShare, TypeInv, TypeOK, ShareRow
  <2>3. \A t \in Shares : Pending(t)' = Pending(t) /\ Serving(t)' = Serving(t)
    BY <2>1 DEF Pending, Serving
  <2> QED BY <2>1, <2>2, <2>3 DEF CountInv, Linked
<1> QED BY <1>2, <1>3, <1>4, <1>5, <1>6, <1>7 DEF EditStep

LEMMA CountSave ==
    ASSUME TypeInv, CountInv, NEW r \in Requests, Diff(r) \/ Save(r) \/ Fails(r)
    PROVE  CountInv'
<1> DEFINE o == op[r]
<1>1. o \in Op
  BY DEF TypeInv, TypeOK
<1>2. Passive(o, Idle)
  BY DEF Passive, Idle, Serves
<1>3. CASE Diff(r)
  <2>1. Passive(o, [o EXCEPT !.stage = "save", !.dirty = o.dirty \cup Differs(file[o.file], o.copy)])
    BY <1>1, <1>3 DEF Diff, Passive, Op, Serves
  <2> QED BY <1>3, <2>1, CountQuiet DEF Diff, Goes
<1>4. CASE Save(r)
  <2> DEFINE next == IF Downloading(r) THEN [o EXCEPT !.stage = "stream", !.dirty = {}] ELSE Idle
  <2>1. Passive(o, next)
    BY <1>1, <1>2, <1>4 DEF Save, Passive, Op, Serves
  <2>2. op' = [op EXCEPT ![r] = next] /\ UNCHANGED <<share, served, edits>>
    BY <1>4 DEF Save, Goes
  <2> HIDE DEF next
  <2> QED BY <2>1, <2>2, CountQuiet
<1>5. CASE Fails(r)
  BY <1>2, <1>5, CountQuiet DEF Fails, Ends, Goes
<1> QED BY <1>3, <1>4, <1>5

LEMMA CountStep == TypeInv /\ CountInv /\ [Next]_vars => CountInv'
<1>1. ASSUME CountInv, UNCHANGED vars PROVE CountInv'
  BY <1>1 DEF CountInv, Pending, Serving, Linked, vars
<1> QED BY <1>1, CountUpload, CountRead, CountEdit, CountSave, FileAssumption DEF Next

\* A link is used less than maxDownloads plus the number of requests that the
\* service processes at a time, unless somebody edits it meanwhile.
THEOREM OvershootAlways == Spec => []OvershootIsBounded
<1>1. ASSUME TypeInv, CountInv PROVE OvershootIsBounded
  <2> SUFFICES ASSUME edits.share = 0, NEW s \in Shares
               PROVE  share[s].count < Limit + Cardinality(Requests)
    BY DEF OvershootIsBounded
  <2>1. Cardinality(Pending(s)) \in Nat /\ Cardinality(Requests) \in Nat
    BY SubsetCount DEF Pending
  <2>2. share[s].count \in Nat
    BY <1>1 DEF TypeInv, TypeOK, ShareRow
  <2> QED BY <1>1, <2>1, <2>2, FileAssumption DEF CountInv
<1> QED BY <1>1, TypeInit, TypeStep, CountInit, CountStep, PTL DEF Spec

\* The download route hands out nothing by a link that it has not counted first.
THEOREM DownloadsAreCountedAlways == Spec => []DownloadsAreCounted
<1>1. ASSUME TypeInv, CountInv PROVE DownloadsAreCounted
  <2> SUFFICES ASSUME edits.share = 0, NEW s \in Shares, Linked(s)
               PROVE  served[s] <= share[s].count
    BY DEF DownloadsAreCounted
  <2>1. Cardinality(Serving(s)) \in Nat
    BY SubsetCount DEF Serving
  <2>2. share[s].count \in Nat /\ served[s] \in Nat
    BY <1>1 DEF TypeInv, TypeOK, ShareRow
  <2> QED BY <1>1, <2>1, <2>2 DEF CountInv
<1> QED BY <1>1, TypeInit, TypeStep, CountInit, CountStep, PTL DEF Spec
=============================================================================
