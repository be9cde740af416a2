---------------------------- MODULE FileVersions ----------------------------
(***************************************************************************)
(* The files of one tenant in file-service, their versions, the objects in *)
(* the object store, and the links by which files are shared.              *)
(*                                                                         *)
(* Four stores are written one after the other, without a transaction, and *)
(* the file row is saved whole from an entity that was loaded much earlier *)
(* - by a download too, which counts itself that way.                      *)
(*                                                                         *)
(* Files may be encrypted: decrypting a version takes the initial vector   *)
(* and the tag that its upload put into metadata of the file row, so that  *)
(* current and meta name the version they belong to.                       *)
(***************************************************************************)
EXTENDS Naturals, FiniteSets

CONSTANTS
    Files,     \* the ids that will be given to files
    Versions,  \* the ids of versions, each of them with a content of its own
    Shares,    \* the ids of share links
    Null,      \* the value NULL
    Requests,  \* the requests that may be processed at the same time
    Uploads,   \* those of them that may be uploads
    Limit,     \* maxDownloads of every share
    MaxEdits,  \* bound: updates of metadata, updates of shares
    MaxFaults  \* bound: crashes, errors of the database or the object store

ASSUME FileAssumption ==
    /\ Null \notin Files /\ Null \notin Versions /\ Null \notin Shares
    /\ Uploads \subseteq Requests /\ IsFiniteSet(Requests)
    /\ Limit \in Nat \ {0}
    /\ MaxEdits \in Nat /\ MaxFaults \in Nat

VARIABLES
    file,     \* the table files
    version,  \* the table file_versions
    stored,   \* the contents in the object store
    share,    \* the table file_shares
    op,       \* op[r]: what the request r is doing
    served,   \* history: what the download route handed out by each link
    edits,    \* how often metadata and shares were updated
    faults

vars == <<file, version, stored, share, op, served, edits, faults>>
-----------------------------------------------------------------------------
OrNull(S) == S \cup {Null}
Row == [status : {"unused", "active", "deleted"}, current : OrNull(Versions), meta : OrNull(Versions)]
VersionRow == [file : OrNull(Files), number : Nat]
ShareRow == [status : {"none", "active", "inactive", "removed"}, file : OrNull(Files), count : Nat]
NoRow == [status |-> "unused", current |-> Null, meta |-> Null]
NoShare == [status |-> "none", file |-> Null, count |-> 0]

\* A request: the entity it loaded, the version it uploads or serves, and the
\* columns that save is going to update.
Columns == {"status", "current", "meta"}
LinkColumns == {"status", "count"}
Stages == {"idle", "last", "object", "version", "count", "find", "pick", "diff", "save", "stream",
           "shareDiff", "shareSave"}
Op == [stage : Stages, file : OrNull(Files), share : OrNull(Shares), version : OrNull(Versions),
       number : Nat, copy : Row, link : ShareRow, dirty : SUBSET (Columns \cup LinkColumns)]
Idle == [stage |-> "idle", file |-> Null, share |-> Null, version |-> Null, number |-> 0,
         copy |-> NoRow, link |-> NoShare, dirty |-> {}]

Saved(v) == version[v].file # Null
VersionsOf(f) == {v \in Versions : version[v].file = f}
Exists(f) == file[f].status # "unused"
Linked(s) == share[s].status \in {"active", "inactive"}

Goes(r, next) == op' = [op EXCEPT ![r] = next]
Ends(r) == Goes(r, Idle)

Init ==
    /\ file = [f \in Files |-> NoRow]
    /\ version = [v \in Versions |-> [file |-> Null, number |-> 0]]
    /\ stored = {}
    /\ share = [s \in Shares |-> NoShare]
    /\ op = [r \in Requests |-> Idle]
    /\ served = [s \in Shares |-> 0]
    /\ edits = [file |-> 0, share |-> 0]
    /\ faults = 0
-----------------------------------------------------------------------------
(* Uploads.  A new file has its row before it has any content.              *)

\* A version id nobody has used: neither a row nor an object nor a request.
Fresh(v) == ~Saved(v) /\ v \notin stored /\ \A r \in Requests : op[r].version # v

\* createFile: the row is inserted first, to get its id.
CreateFile(u, f, v) ==
    /\ op[u] = Idle /\ ~Exists(f) /\ Fresh(v)
    /\ file' = [file EXCEPT ![f].status = "active"]
    /\ Goes(u, [Idle EXCEPT !.stage = "object", !.file = f, !.version = v, !.number = 1,
                            !.copy = [NoRow EXCEPT !.status = "active"]])
    /\ UNCHANGED <<version, stored, share, served, edits, faults>>

\* createNewVersion loads the row; the virus scan comes before the next query.
NewVersion(u, f, v) ==
    /\ op[u] = Idle /\ Exists(f) /\ Fresh(v)
    /\ Goes(u, [Idle EXCEPT !.stage = "last", !.file = f, !.version = v, !.copy = file[f]])
    /\ UNCHANGED <<file, version, stored, share, served, edits, faults>>

\* The number after the highest one so far.
After(f, n) ==
    IF VersionsOf(f) = {} THEN n = 1
    ELSE \E v \in VersionsOf(f) : n = version[v].number + 1 /\ \A w \in VersionsOf(f) : version[w].number < n

\* Mutant: the number after that of the current version.
FindLastCurrent(u) ==
    /\ op[u].stage = "last"
    /\ \E v \in Versions : v = op[u].copy.current
          /\ Goes(u, [op[u] EXCEPT !.stage = "object", !.number = version[v].number + 1])
    /\ UNCHANGED <<file, version, stored, share, served, edits, faults>>
FindLast(u) ==
    /\ op[u].stage = "last"
    /\ \E n \in 1 .. Cardinality(Versions) + 1 : After(op[u].file, n)
          /\ Goes(u, [op[u] EXCEPT !.stage = "object", !.number = n])
    /\ UNCHANGED <<file, version, stored, share, served, edits, faults>>

\* Mutant: without the await, a failed upload goes unnoticed.
StoreObjectUnawaited(u) ==
    /\ op[u].stage = "object"
    /\ stored' \in {stored, stored \cup {op[u].version}}
    /\ Goes(u, [op[u] EXCEPT !.stage = "version"])
    /\ UNCHANGED <<file, version, share, served, edits, faults>>
StoreObject(u) ==
    /\ op[u].stage = "object"
    /\ stored' = stored \cup {op[u].version}
    /\ Goes(u, [op[u] EXCEPT !.stage = "version"])
    /\ UNCHANGED <<file, version, share, served, edits, faults>>

\* The version is saved, then the entity of the file is made to point to it.
\* Mutant: without existingFile.metadata = fileMetadata.
SaveVersionAlone(u) ==
    /\ op[u].stage = "version"
    /\ version' = [version EXCEPT ![op[u].version] = [file |-> op[u].file, number |-> op[u].number]]
    /\ Goes(u, [op[u] EXCEPT !.stage = "diff", !.copy.current = op[u].version])
    /\ UNCHANGED <<file, stored, share, served, edits, faults>>
SaveVersion(u) ==
    /\ op[u].stage = "version"
    /\ version' = [version EXCEPT ![op[u].version] = [file |-> op[u].file, number |-> op[u].number]]
    /\ Goes(u, [op[u] EXCEPT !.stage = "diff", !.copy.current = op[u].version, !.copy.meta = op[u].version])
    /\ UNCHANGED <<file, stored, share, served, edits, faults>>
-----------------------------------------------------------------------------
(* TypeORM's save: read the row again, update the columns that differ.      *)

Differs(row, copy) == {c \in DOMAIN row : row[c] # copy[c]}

Diff(r) ==
    /\ op[r].stage = "diff"
    /\ Goes(r, [op[r] EXCEPT !.stage = "save",
                             !.dirty = op[r].dirty \cup Differs(file[op[r].file], op[r].copy)])
    /\ UNCHANGED <<file, version, stored, share, served, edits, faults>>

\* An upload knows the number of its version, a download does not.
Downloading(r) == op[r].version # Null /\ op[r].number = 0
Save(r) ==
    /\ op[r].stage = "save"
    /\ file' = [file EXCEPT ![op[r].file] =
                    [c \in Columns |-> IF c \in op[r].dirty THEN op[r].copy[c] ELSE @[c]]]
    /\ Goes(r, IF Downloading(r) THEN [op[r] EXCEPT !.stage = "stream", !.dirty = {}] ELSE Idle)
    /\ UNCHANGED <<version, stored, share, served, edits, faults>>
-----------------------------------------------------------------------------
(* Downloads.                                                               *)

\* downloadFile: a file that is not active ends the request.
Find(d, f, next) ==
    IF file[f].status = "active"
    THEN Goes(d, [next EXCEPT !.stage = "pick", !.file = f, !.copy = file[f]])
    ELSE Ends(d)

Download(d, f) ==
    /\ op[d] = Idle
    /\ Find(d, f, Idle)
    /\ UNCHANGED <<file, version, stored, share, served, edits, faults>>

\* downloadPublicShare: validateShareAccess compares the count it read ...
\* Mutant: > in place of >=.
OpenOneMore(row) == row.status = "active" /\ row.count <= Limit
Open(row) == row.status = "active" /\ row.count < Limit
\* Mutant: the route of a download does not count, as that of a preview does not.
ValidateAccessUncounted(d, s) ==
    /\ op[d] = Idle /\ Open(share[s])
    /\ Goes(d, [Idle EXCEPT !.stage = "find", !.share = s, !.file = share[s].file])
    /\ UNCHANGED <<file, version, stored, share, served, edits, faults>>
ValidateAccess(d, s) ==
    /\ op[d] = Idle /\ Open(share[s])
    /\ Goes(d, [Idle EXCEPT !.stage = "count", !.share = s, !.file = share[s].file])
    /\ UNCHANGED <<file, version, stored, share, served, edits, faults>>

\* ... and incrementDownloadCount counts later, with one UPDATE.
Count(d) ==
    /\ op[d].stage = "count"
    /\ share' = IF Linked(op[d].share) THEN [share EXCEPT ![op[d].share].count = @ + 1] ELSE share
    /\ Goes(d, [op[d] EXCEPT !.stage = "find"])
    /\ UNCHANGED <<file, version, stored, served, edits, faults>>

\* previewPublicShare counts a view, which no limit looks at, and streams the
\* same file: a link that is open may be previewed any number of times.
Preview(d, s) ==
    /\ op[d] = Idle /\ Open(share[s])
    /\ Goes(d, [Idle EXCEPT !.stage = "find", !.file = share[s].file])
    /\ UNCHANGED <<file, version, stored, share, served, edits, faults>>

FindShared(d) ==
    /\ op[d].stage = "find"
    /\ Find(d, op[d].file, op[d])
    /\ UNCHANGED <<file, version, stored, share, served, edits, faults>>

\* The version whose id is currentVersionId.  A condition on NULL is left out
\* of the query: without a current version any version of the tenant will do.
Found(id) == {v \in Versions : Saved(v) /\ id \in {v, Null}}
Pick(d) ==
    /\ op[d].stage = "pick"
    /\ IF Found(op[d].copy.current) = {} THEN Ends(d)
       ELSE \E v \in Found(op[d].copy.current) : Goes(d, [op[d] EXCEPT !.stage = "diff", !.version = v])
    /\ UNCHANGED <<file, version, stored, share, served, edits, faults>>

Stream(d) ==
    /\ op[d].stage = "stream"
    /\ \E encrypted \in BOOLEAN :
          LET succeeds == op[d].version \in stored /\ (encrypted => op[d].copy.meta = op[d].version)
          IN  served' = IF succeeds /\ op[d].share # Null
                        THEN [served EXCEPT ![op[d].share] = @ + 1] ELSE served
    /\ Ends(d)
    /\ UNCHANGED <<file, version, stored, share, edits, faults>>
-----------------------------------------------------------------------------
(* Changes of rows.                                                         *)

\* updateFileStatus, and deleteFile, which calls it.
\* Mutant: the status is misspelt.
ChangeStatusMisspelt(e, f, status) ==
    /\ op[e] = Idle /\ Exists(f)
    /\ Goes(e, [Idle EXCEPT !.stage = "diff", !.file = f, !.copy = [file[f] EXCEPT !.status = "removed"]])
    /\ UNCHANGED <<file, version, stored, share, served, edits, faults>>
ChangeStatus(e, f, status) ==
    /\ op[e] = Idle /\ Exists(f)
    /\ Goes(e, [Idle EXCEPT !.stage = "diff", !.file = f, !.copy = [file[f] EXCEPT !.status = status]])
    /\ UNCHANGED <<file, version, stored, share, served, edits, faults>>

\* updateFile with metadata: what is there is merged with what was sent, so
\* that the column differs from the row in any case.
UpdateMetadata(e, f) ==
    /\ op[e] = Idle /\ Exists(f) /\ edits.file + edits.share < MaxEdits
    /\ Goes(e, [Idle EXCEPT !.stage = "diff", !.file = f, !.copy = file[f], !.dirty = {"meta"}])
    /\ edits' = [edits EXCEPT !.file = @ + 1]
    /\ UNCHANGED <<file, version, stored, share, served, faults>>

CreateShare(e, s, f) ==
    /\ op[e] = Idle /\ Exists(f)
    /\ share[s] = NoShare
    /\ share' = [share EXCEPT ![s] = [status |-> "active", file |-> f, count |-> 0]]
    /\ UNCHANGED <<file, version, stored, op, served, edits, faults>>

\* updateShare loads the row, count included, and saves it.
UpdateShare(e, s, status) ==
    /\ op[e] = Idle /\ Linked(s) /\ edits.file + edits.share < MaxEdits
    /\ Goes(e, [Idle EXCEPT !.stage = "shareDiff", !.share = s, !.link = [share[s] EXCEPT !.status = status]])
    /\ edits' = [edits EXCEPT !.share = @ + 1]
    /\ UNCHANGED <<file, version, stored, share, served, faults>>

\* The re-read of save; without a row it is an INSERT of every column.
DiffShare(e) ==
    /\ op[e].stage = "shareDiff"
    /\ Goes(e, [op[e] EXCEPT !.stage = "shareSave",
                             !.dirty = LinkColumns \cap Differs(share[op[e].share], op[e].link)])
    /\ UNCHANGED <<file, version, stored, share, served, edits, faults>>

SaveShare(e) ==
    /\ op[e].stage = "shareSave"
    /\ share' = [share EXCEPT ![op[e].share] =
                     [c \in LinkColumns \cup {"file"} |->
                         IF c \in op[e].dirty \/ c = "file" THEN op[e].link[c] ELSE @[c]]]
    /\ Ends(e)
    /\ UNCHANGED <<file, version, stored, served, edits, faults>>

DeleteShare(e, s) ==
    /\ op[e] = Idle /\ Linked(s)
    /\ share' = [share EXCEPT ![s].status = "removed"]
    /\ UNCHANGED <<file, version, stored, op, served, edits, faults>>
-----------------------------------------------------------------------------
\* A query or the object store fails, or the process dies.
Fails(r) ==
    /\ op[r] # Idle /\ faults < MaxFaults
    /\ faults' = faults + 1
    /\ Ends(r)
    /\ UNCHANGED <<file, version, stored, share, served, edits>>

UploadStep(u) ==
    \/ \E f \in Files, v \in Versions : CreateFile(u, f, v) \/ NewVersion(u, f, v)
    \/ FindLast(u) \/ StoreObject(u) \/ SaveVersion(u)
ReadStep(d) ==
    \/ \E f \in Files : Download(d, f)
    \/ \E s \in Shares : ValidateAccess(d, s) \/ Preview(d, s)
    \/ Count(d) \/ FindShared(d) \/ Pick(d) \/ Stream(d)
EditStep(e) ==
    \/ \E f \in Files, status \in {"active", "deleted"} : ChangeStatus(e, f, status)
    \/ \E f \in Files : UpdateMetadata(e, f)
    \/ \E s \in Shares, f \in Files : CreateShare(e, s, f)
    \/ \E s \in Shares, status \in {"active", "inactive"} : UpdateShare(e, s, status)
    \/ \E s \in Shares : DeleteShare(e, s)
    \/ DiffShare(e) \/ SaveShare(e)
Next ==
    \/ \E u \in Uploads : UploadStep(u)
    \/ \E r \in Requests : ReadStep(r) \/ EditStep(r) \/ Diff(r) \/ Save(r) \/ Fails(r)

Spec == Init /\ [][Next]_vars
-----------------------------------------------------------------------------
\* The types of the tables, the object store and the requests.
TypeOK ==
    /\ file \in [Files -> Row]
    /\ version \in [Versions -> VersionRow]
    /\ stored \in SUBSET Versions
    /\ share \in [Shares -> ShareRow]
    /\ op \in [Requests -> Op]
    /\ served \in [Shares -> Nat]
    /\ edits \in [{"file", "share"} -> 0 .. MaxEdits]
    /\ faults \in 0 .. MaxFaults

\* Whatever was interrupted or overwritten: the current version of a file is a
\* saved version of that file, and its object is in the store.
CurrentIsStored ==
    \A f \in Files : file[f].current # Null =>
        version[file[f].current].file = f /\ file[f].current \in stored

\* A download that went by currentVersionId decrypts the object it gets: the
\* metadata it holds is that of the version, although other requests save
\* entities with older columns.  (An update of metadata may break this.)
DownloadsDecrypt ==
    edits.file = 0 => \A d \in Requests :
        op[d].stage = "stream" /\ op[d].copy.current # Null =>
            /\ op[d].version \in stored
            /\ op[d].copy.meta = op[d].version

\* The numbers of a file's versions are 1, 2, 3, ... as long as uploads do not
\* overlap, whatever downloads do to the current version, and also if uploads
\* are cut short.
NumbersAreConsecutive ==
    \A v \in Versions : Saved(v) =>
        /\ \A w \in VersionsOf(version[v].file) : w # v => version[w].number # version[v].number
        /\ \/ version[v].number = 1
           \/ \E w \in VersionsOf(version[v].file) : version[w].number + 1 = version[v].number

\* Validating and counting are two queries, so that a link may be used more
\* often than maxDownloads, but at most by the requests in flight at the time.
\* (Previews are not counted, and no limit is on them.)
OvershootIsBounded ==
    edits.share = 0 => \A s \in Shares : share[s].count < Limit + Cardinality(Requests)

\* Every file that the download route hands out by a link has been counted
\* before, also if the download fails half way: no interleaving of requests,
\* failures and changes of other rows loses a count.  The preview route hands the
\* same file out uncounted, as often as the link is open.
DownloadsAreCounted ==
    edits.share = 0 => \A s \in Shares : Linked(s) => served[s] <= share[s].count

\* A download reads a version of the file that was asked for.
ServesOwnVersion ==
    \A d \in Requests : op[d].stage = "stream" => version[op[d].version].file = op[d].file
=============================================================================
