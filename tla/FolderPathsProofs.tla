-------------------------- MODULE FolderPathsProofs --------------------------
(***************************************************************************)
(* Links and paths of the folders tell the same story as long as requests  *)
(* come one at a time, none of them is cut short half-way, and all names   *)
(* are plain.                                                              *)
(***************************************************************************)
EXTENDS FolderTreeProofs, SequenceTheorems

-----------------------------------------------------------------------------
(* Paths.                                                                   *)

LEMMA PrefixPointwise ==
    ASSUME NEW S, NEW s \in Seq(S), NEW t \in Seq(S)
    PROVE  IsPrefix(s, t) <=> Len(s) <= Len(t) /\ \A i \in 1..Len(s) : s[i] = t[i]
<1>1. Len(s) \in Nat /\ Len(t) \in Nat /\ SubSeq(s, 1, Len(s)) = s
  BY SubSeqFull, LenProperties
<1>2. SUFFICES ASSUME Len(s) <= Len(t)
               PROVE  SubSeq(t, 1, Len(s)) = s <=> \A i \in 1..Len(s) : s[i] = t[i]
  BY <1>1 DEF IsPrefix
<1>3. \A i \in 1..Len(s) : t[i] \in S
  BY <1>1, <1>2, ElementOfSeq
<1>4. /\ SubSeq(t, 1, Len(s)) \in Seq(S)
      /\ Len(SubSeq(t, 1, Len(s))) = Len(s)
      /\ \A i \in 1..Len(s) : SubSeq(t, 1, Len(s))[i] = t[i]
  <2> DEFINE n == Len(s)
  <2>1. n \in Nat /\ \A i \in 1..n : t[i] \in S
    BY <1>1, <1>3
  <2> HIDE DEF n
  <2>2. /\ SubSeq(t, 1, n) \in Seq(S)
        /\ Len(SubSeq(t, 1, n)) = IF 1 <= n THEN n - 1 + 1 ELSE 0
        /\ \A i \in 1..(n - 1 + 1) : SubSeq(t, 1, n)[i] = t[1 + i - 1]
    BY <2>1, SubSeqProperties
  <2>3. Len(SubSeq(t, 1, n)) = n /\ \A i \in 1..n : SubSeq(t, 1, n)[i] = t[i]
    BY <2>1, <2>2
  <2> QED BY <2>2, <2>3 DEF n
<1>5. ASSUME SubSeq(t, 1, Len(s)) = s PROVE \A i \in 1..Len(s) : s[i] = t[i]
  BY <1>4, <1>5
<1>6. ASSUME \A i \in 1..Len(s) : s[i] = t[i] PROVE SubSeq(t, 1, Len(s)) = s
  BY <1>4, <1>6, SeqEqual
<1> QED BY <1>5, <1>6

\* What is strictly below Append(t, e) is below t.
LEMMA PrefixAppend ==
    ASSUME NEW S, NEW s \in Seq(S), NEW t \in Seq(S), NEW e \in S
    PROVE  IsStrictPrefix(s, Append(t, e)) <=> IsPrefix(s, t)
<1> DEFINE u == Append(t, e)
<1>1. /\ u \in Seq(S) /\ Len(u) = Len(t) + 1
      /\ \A i \in 1..Len(t) : u[i] = t[i]
  BY AppendProperties
<1>2. Len(s) \in Nat /\ Len(t) \in Nat
  BY LenProperties
<1> HIDE DEF u
<1>3. IsPrefix(s, u) <=> Len(s) <= Len(u) /\ \A i \in 1..Len(s) : s[i] = u[i]
  BY <1>1, PrefixPointwise
<1>4. IsPrefix(s, t) <=> Len(s) <= Len(t) /\ \A i \in 1..Len(s) : s[i] = t[i]
  BY PrefixPointwise
<1>5. ASSUME IsPrefix(s, t) PROVE IsPrefix(s, u) /\ s # u
  BY <1>1, <1>2, <1>3, <1>4, <1>5
<1>6. ASSUME IsPrefix(s, u), s # u PROVE IsPrefix(s, t)
  <2>1. Len(s) # Len(u)
    BY <1>1, <1>3, <1>6, SeqEqual
  <2>2. Len(s) <= Len(t)
    BY <1>1, <1>2, <1>3, <1>6, <2>1
  <2> QED BY <1>1, <1>2, <1>3, <1>4, <1>6, <2>2
<1> QED BY <1>5, <1>6 DEF IsStrictPrefix, u

\* A prefix of a prefix, and how long prefixes are.
LEMMA PrefixFacts ==
    ASSUME NEW S, NEW s \in Seq(S), NEW t \in Seq(S)
    PROVE  /\ IsPrefix(s, s)
           /\ IsPrefix(s, t) <=> s = t \/ IsStrictPrefix(s, t)
           /\ IsPrefix(s, <<>>) => s = <<>>
<1>1. IsPrefix(s, s)
  BY PrefixPointwise, LenProperties
<1>2. IsPrefix(s, <<>>) => s = <<>>
  <2>1. <<>> \in Seq(S) /\ Len(<<>>) = 0 /\ Len(s) \in Nat
    BY EmptySeq, LenProperties
  <2>2. IsPrefix(s, <<>>) => Len(s) <= 0
    BY <2>1, PrefixPointwise
  <2> QED BY <2>1, <2>2, EmptySeq
<1> QED BY <1>1, <1>2 DEF IsStrictPrefix

\* Replacing the front of a path leaves its last name alone.
Spliced(n, s, t) == n \o SubSeq(t, Len(s) + 1, Len(t))
LEMMA RebaseAppend ==
    ASSUME NEW S, NEW s \in Seq(S), NEW t \in Seq(S), NEW n \in Seq(S), NEW e \in S,
           IsPrefix(s, t)
    PROVE  Spliced(n, s, Append(t, e)) = Append(Spliced(n, s, t), e)
<1> DEFINE u == Append(t, e)
           a == SubSeq(t, Len(s) + 1, Len(t))
           b == SubSeq(u, Len(s) + 1, Len(u))
<1>1. /\ u \in Seq(S) /\ Len(u) = Len(t) + 1 /\ u[Len(t) + 1] = e
      /\ \A i \in 1..Len(t) : u[i] = t[i]
  BY AppendProperties
<1>2. Len(s) \in Nat /\ Len(t) \in Nat /\ Len(s) <= Len(t)
  BY PrefixPointwise, LenProperties
<1>3. /\ \A i \in (Len(s) + 1)..Len(t) : t[i] \in S
      /\ \A i \in (Len(s) + 1)..Len(u) : u[i] \in S
  BY <1>1, <1>2, ElementOfSeq
<1>4. /\ a \in Seq(S) /\ Len(a) = Len(t) - Len(s)
      /\ \A i \in 1..(Len(t) - Len(s)) : a[i] = t[Len(s) + i]
  <2> DEFINE m == Len(s) + 1
             k == Len(t)
  <2>1. m \in Int /\ k \in Int /\ \A i \in m..k : t[i] \in S
    BY <1>2, <1>3
  <2>2. m <= k + 1 /\ m = Len(s) + 1 /\ k = Len(t)
    BY <1>2
  <2> HIDE DEF m, k
  <2>3. /\ SubSeq(t, m, k) \in Seq(S)
        /\ Len(SubSeq(t, m, k)) = IF m <= k THEN k - m + 1 ELSE 0
        /\ \A i \in 1..(k - m + 1) : SubSeq(t, m, k)[i] = t[m + i - 1]
    BY <2>1, SubSeqProperties
  <2>4. Len(SubSeq(t, m, k)) = Len(t) - Len(s)
    BY <1>2, <2>2, <2>3
  <2>5. \A i \in 1..(Len(t) - Len(s)) : SubSeq(t, m, k)[i] = t[Len(s) + i]
    BY <1>2, <2>2, <2>3
  <2> QED BY <2>3, <2>4, <2>5 DEF m, k
<1>5. /\ b \in Seq(S) /\ Len(b) = Len(t) - Len(s) + 1
      /\ \A i \in 1..(Len(t) - Len(s) + 1) : b[i] = u[Len(s) + i]
  <2> DEFINE m == Len(s) + 1
             k == Len(u)
  <2>1. m \in Int /\ k \in Int /\ \A i \in m..k : u[i] \in S
    BY <1>1, <1>2, <1>3
  <2>2. m <= k /\ m = Len(s) + 1 /\ k = Len(t) + 1
    BY <1>1, <1>2
  <2> HIDE DEF m, k, u
  <2>3. /\ SubSeq(u, m, k) \in Seq(S)
        /\ Len(SubSeq(u, m, k)) = IF m <= k THEN k - m + 1 ELSE 0
        /\ \A i \in 1..(k - m + 1) : SubSeq(u, m, k)[i] = u[m + i - 1]
    BY <2>1, SubSeqProperties
  <2>4. Len(SubSeq(u, m, k)) = Len(t) - Len(s) + 1
    BY <1>2, <2>2, <2>3
  <2>5. \A i \in 1..(Len(t) - Len(s) + 1) : SubSeq(u, m, k)[i] = u[Len(s) + i]
    BY <1>2, <2>2, <2>3
  <2> QED BY <2>3, <2>4, <2>5 DEF m, k
<1> HIDE DEF a, b, u
<1>6. b = Append(a, e)
  <2>1. /\ Append(a, e) \in Seq(S) /\ Len(Append(a, e)) = Len(a) + 1
        /\ \A i \in 1..Len(a) : Append(a, e)[i] = a[i]
        /\ Append(a, e)[Len(a) + 1] = e
    BY <1>4, AppendProperties
  <2>2. \A i \in 1..Len(b) : b[i] = Append(a, e)[i]
    <3>1. ASSUME NEW i \in 1..Len(b), i <= Len(a) PROVE b[i] = Append(a, e)[i]
      BY <1>1, <1>2, <1>4, <1>5, <2>1, <3>1
    <3>2. ASSUME NEW i \in 1..Len(b), ~(i <= Len(a)) PROVE b[i] = Append(a, e)[i]
      <4>1. i = Len(a) + 1 /\ Len(s) + i = Len(t) + 1
        <5>1. Len(a) = Len(t) - Len(s) /\ Len(b) = Len(t) - Len(s) + 1
          BY <1>4, <1>5
        <5> QED BY <1>2, <3>2, <5>1
      <4> QED BY <1>1, <1>2, <1>4, <1>5, <2>1, <4>1
    <3> QED BY <3>1, <3>2
  <2>3. Len(b) = Len(Append(a, e))
    BY <1>4, <1>5, <2>1
  <2> QED BY <1>5, <2>1, <2>2, <2>3, SeqEqual
<1>7. n \o Append(a, e) = Append(n \o a, e)
  <2>1. Append(a, e) = a \o <<e>> /\ n \o a \in Seq(S) /\ <<e>> \in Seq(S)
    BY <1>4, AppendIsConcat, ConcatProperties
  <2>2. Append(n \o a, e) = (n \o a) \o <<e>>
    BY <2>1, AppendIsConcat
  <2> QED BY <1>4, <2>1, <2>2, ConcatAssociative
<1> QED BY <1>6, <1>7 DEF a, b, u, Spliced

LEMMA RebaseSelf ==
    ASSUME NEW S, NEW s \in Seq(S), NEW n \in Seq(S)
    PROVE  n \o SubSeq(s, Len(s) + 1, Len(s)) = n
<1>1. Len(s) \in Nat
  BY LenProperties
<1>2. SubSeq(s, Len(s) + 1, Len(s)) = <<>>
  BY <1>1, SubSeqEmpty
<1> QED BY <1>2, ConcatEmptySeq

\* Among plain names joining and replacing are what they look like.
LEMMA JoinedPlain ==
    ASSUME FolderAssumption, NEW path \in Seq(Plain), NEW name \in Plain
    PROVE  Joined(path, name) = Append(path, name) /\ Joined(path, name) \in Seq(Plain)
<1>1. path # Odd
  BY DEF FolderAssumption
<1> QED BY <1>1, AppendProperties DEF Joined

\* A request that holds plain names and paths only.
PlainOp(o) ==
    /\ PlainCopy(o.copy) /\ o.old \in Seq(Plain)
    /\ \A row \in o.found : row.path \in Seq(Plain)

LEMMA RebasedPlain ==
    ASSUME FolderAssumption, NEW o, o.old \in Seq(Plain), o.copy.path \in Seq(Plain),
           NEW t \in Seq(Plain)
    PROVE  Rebased(o, t) = Spliced(o.copy.path, o.old, t) /\ Rebased(o, t) \in Seq(Plain)
<1>1. Odd \notin {o.old, o.copy.path, t}
  BY DEF FolderAssumption
<1>2. Rebased(o, t) = Spliced(o.copy.path, o.old, t)
  BY <1>1 DEF Rebased, Spliced
<1>3. SubSeq(t, Len(o.old) + 1, Len(t)) \in Seq(Plain)
  OBVIOUS
<1>4. Spliced(o.copy.path, o.old, t) \in Seq(Plain)
  BY <1>3, ConcatProperties DEF Spliced
<1> QED BY <1>2, <1>4

LEMMA RebasedAppend ==
    ASSUME FolderAssumption, NEW o, o.old \in Seq(Plain), o.copy.path \in Seq(Plain),
           NEW t \in Seq(Plain), NEW e \in Plain, IsPrefix(o.old, t)
    PROVE  Rebased(o, Append(t, e)) = Append(Rebased(o, t), e)
<1>1. Append(t, e) \in Seq(Plain)
  BY AppendProperties
<1>2. /\ Rebased(o, t) = Spliced(o.copy.path, o.old, t)
      /\ Rebased(o, Append(t, e)) = Spliced(o.copy.path, o.old, Append(t, e))
  BY <1>1, RebasedPlain
<1> QED BY <1>2, RebaseAppend
-----------------------------------------------------------------------------
(* A tree whose links and paths match.                                      *)

PlainTable == \A f \in Ids : PlainCopy(folder[f])

LEMMA ParentTypes ==
    ASSUME TypeInv
    PROVE  \A f \in Ids : folder[f].parent \in Ids \cup {Root}
BY DEF TypeInv, TypeOK, Row

LEMMA PathTypes ==
    ASSUME TypeInv, PlainTable
    PROVE  \A f \in Ids : /\ folder[f].path \in Seq(Plain) /\ folder[f].name \in Plain
                          /\ folder[f].parent \in Ids \cup {Root}
                          /\ ParentPath(folder[f].parent) \in Seq(Plain)
<1>1. <<>> \in Seq(Plain)
  BY EmptySeq
<1> QED BY <1>1, ParentTypes DEF PlainTable, PlainCopy, ParentPath

\* Among plain names LIKE finds what is below, and nothing else.
LEMMA BelowPlain ==
    ASSUME TypeInv, PlainTable, FolderAssumption, NEW path \in Seq(Plain)
    PROVE  /\ Below(path) = {f \in Ids : Exists(f) /\ IsStrictPrefix(path, folder[f].path)}
           /\ \A ids \in Like(path) : ids = Below(path)
<1>1. path # Odd /\ \A f \in Ids : folder[f].path # Odd
  BY PathTypes DEF FolderAssumption
<1>2. Unclear(path) = {}
  BY <1>1 DEF Unclear
<1>3. Below(path) = {f \in Ids : Exists(f) /\ IsStrictPrefix(path, folder[f].path)}
  BY <1>1 DEF Below
<1> QED BY <1>2, <1>3 DEF Like

\* Live folders are told apart by their paths: of two with the same path, the
\* parents would be two with the same path as well, and so on up, in a cycle.
LEMMA DistinctPaths ==
    ASSUME TypeInv, PlainTable, Matched, SiblingsDistinct, NoCycle,
           NEW f \in Ids, NEW g \in Ids, Live(f), Live(g), folder[f].path = folder[g].path
    PROVE  f = g
<1> DEFINE E == {x \in Ids : Live(x) /\ \E y \in Ids \ {x} : Live(y) /\ folder[x].path = folder[y].path}
<1>1. SUFFICES ASSUME f # g PROVE FALSE
  OBVIOUS
<1>2. f \in E /\ E \in SUBSET {x \in Ids : Exists(x)}
  BY <1>1 DEF Live, Exists
<1>3. PICK x \in E : folder[x].parent \notin E
  BY <1>2 DEF NoCycle
<1>4. PICK y \in Ids \ {x} : Live(y) /\ folder[x].path = folder[y].path
  BY <1>3
<1> DEFINE p == folder[x].parent
           r == folder[y].parent
<1>5. /\ x \in Ids /\ Live(x) /\ Attached(p) /\ Attached(r)
      /\ folder[x].path = Append(ParentPath(p), folder[x].name)
      /\ folder[y].path = Append(ParentPath(r), folder[y].name)
  BY <1>3, <1>4 DEF Matched
<1>6. /\ ParentPath(p) \in Seq(Plain) /\ ParentPath(r) \in Seq(Plain)
      /\ folder[x].name \in Plain /\ folder[y].name \in Plain
      /\ p \in Ids \cup {Root} /\ r \in Ids \cup {Root}
  BY <1>5, PathTypes
<1>7. ParentPath(p) = ParentPath(r) /\ folder[x].name = folder[y].name
  <2>1. Append(ParentPath(p), folder[x].name) = Append(ParentPath(r), folder[y].name)
    BY <1>4, <1>5
  <2> HIDE DEF p, r
  <2> QED BY ONLY <1>6, <2>1, AppendInjective
<1>8. p # r
  BY <1>4, <1>5, <1>7 DEF SiblingsDistinct
<1>9. \A z \in Ids : Live(z) => folder[z].path # <<>>
  BY PathTypes, AppendProperties DEF Matched
<1>10. p # Root /\ r # Root
  BY <1>5, <1>6, <1>7, <1>8, <1>9 DEF ParentPath, Attached
<1>11. p \in E
  BY <1>5, <1>6, <1>7, <1>8, <1>10 DEF ParentPath, Attached
<1> QED BY <1>3, <1>11

\* What is below a path is below by the links.
LEMMA BelowByLinks ==
    ASSUME TypeInv, PlainTable, Matched, SiblingsDistinct, NoCycle, FolderAssumption,
           NEW f \in Ids, NEW g \in Ids, Live(f), Live(g), NEW p, p = folder[g].parent
    PROVE  /\ g \in Below(folder[f].path) <=> p # Root /\ IsPrefix(folder[f].path, folder[p].path)
           /\ g \in Below(folder[f].path) <=> p = f \/ p \in Below(folder[f].path)
<1> DEFINE old == folder[f].path
<1>1. /\ old \in Seq(Plain) /\ ParentPath(p) \in Seq(Plain) /\ folder[g].name \in Plain
      /\ p \in Ids \cup {Root}
  BY PathTypes
<1>2. folder[g].path = Append(ParentPath(p), folder[g].name) /\ Attached(p)
  BY DEF Matched
<1>3. g \in Below(old) <=> IsStrictPrefix(old, folder[g].path)
  BY <1>1, BelowPlain DEF Live, Exists
<1>4. g \in Below(old) <=> IsPrefix(old, ParentPath(p))
  BY <1>1, <1>2, <1>3, PrefixAppend
<1>5. old # <<>>
  BY PathTypes, AppendProperties DEF Matched
<1>6. CASE p = Root
  <2>1. ~IsPrefix(old, ParentPath(p))
    BY <1>1, <1>5, <1>6, PrefixFacts DEF ParentPath
  <2>2. p # f /\ p \notin Below(old)
    BY <1>6, FolderAssumption DEF Below
  <2> QED BY <1>4, <1>6, <2>1, <2>2
<1>7. CASE p # Root
  <2>1. p \in Ids /\ Live(p) /\ ParentPath(p) = folder[p].path
    BY <1>1, <1>2, <1>7 DEF Attached, ParentPath
  <2>2. IsPrefix(old, folder[p].path) <=> old = folder[p].path \/ IsStrictPrefix(old, folder[p].path)
    BY <1>1, <2>1, PrefixFacts
  <2>3. old = folder[p].path <=> p = f
    BY <2>1, DistinctPaths
  <2>4. p \in Below(old) <=> IsStrictPrefix(old, folder[p].path)
    BY <1>1, <2>1, BelowPlain DEF Live, Exists
  <2> QED BY <1>4, <1>7, <2>1, <2>2, <2>3, <2>4
<1> QED BY <1>6, <1>7

\* A folder that isChildFolder admits as the new parent is not below by paths.
LEMMA AdmittedNotBelow ==
    ASSUME TypeInv, PlainTable, Matched, SiblingsDistinct, NoCycle, FolderAssumption,
           NEW f \in Ids, Live(f), NEW p \in Ids, Live(p),
           \/ p = folder[f].parent
           \/ \E V \in SUBSET Ids : p \in V /\ Avoids(V, f, Root)
    PROVE  ~IsPrefix(folder[f].path, folder[p].path)
<1> DEFINE old == folder[f].path
<1>1. old \in Seq(Plain) /\ folder[p].path \in Seq(Plain)
  BY PathTypes
<1>2. CASE p = folder[f].parent
  <2>1. old = Append(folder[p].path, folder[f].name) /\ folder[f].name \in Plain
    BY <1>2, FolderAssumption, PathTypes DEF Matched, ParentPath
  <2>2. Len(old) = Len(folder[p].path) + 1
    BY <1>1, <2>1, AppendProperties
  <2>3. Len(folder[p].path) \in Nat
    BY <1>1, LenProperties
  <2> QED BY <1>1, <2>2, <2>3, PrefixPointwise
<1>3. ASSUME NEW V \in SUBSET Ids, p \in V, Avoids(V, f, Root), IsPrefix(old, folder[p].path)
      PROVE  FALSE
  <2> DEFINE W == {v \in V : Live(v) /\ IsPrefix(old, folder[v].path)}
  <2>1. p \in W /\ W \in SUBSET {v \in Ids : Exists(v)}
    BY <1>3 DEF Live, Exists
  <2>2. PICK v \in W : folder[v].parent \notin W
    BY <2>1 DEF NoCycle
  <2>3. v \in Ids /\ Live(v) /\ v # f /\ IsPrefix(old, folder[v].path)
    BY <1>3, <2>2 DEF Avoids
  <2>4. old # folder[v].path
    BY <2>3, DistinctPaths
  <2>5. v \in Below(old)
    BY <1>1, <2>3, <2>4, BelowPlain DEF Live, Exists, IsStrictPrefix
  <2>6. folder[v].parent # Root /\ IsPrefix(old, folder[folder[v].parent].path)
    BY <2>3, <2>5, BelowByLinks
  <2>7. Live(folder[v].parent)
    BY <2>3, <2>6 DEF Matched, Attached
  <2>8. folder[v].parent \in V
    BY <1>3, <2>2, <2>3, <2>6, FolderAssumption DEF Avoids
  <2> QED BY <2>2, <2>6, <2>7, <2>8
<1> QED BY <1>2, <1>3

\* What the folder of the request and the folders below it become.
NewParent(o, g) == IF g = o.id THEN o.copy.parent ELSE folder[g].parent
NewPath(o, g) ==
    IF g \in Below(o.old) THEN Rebased(o, folder[g].path)
    ELSE IF g = o.id THEN o.copy.path ELSE folder[g].path
NewParentPath(o, p) == IF p = Root THEN <<>> ELSE NewPath(o, p)

\* Rewriting everything below makes links and paths match again.
LEMMA Rebasing ==
    ASSUME TypeInv, PlainTable, Matched, SiblingsDistinct, NoCycle, FolderAssumption,
           NEW o \in Op, PlainOp(o), o.id \in Ids, Live(o.id), o.old = folder[o.id].path,
           Aligned(o),
           o.at # Root => ~IsPrefix(o.old, folder[o.at].path)
    PROVE  /\ o.id \notin Below(o.old)
           /\ \A g \in Ids : Live(g) =>
                  NewPath(o, g) = Append(NewParentPath(o, NewParent(o, g)), FinalName(o, g))
<1> DEFINE f == o.id
           old == o.old
           new == o.copy.path
<1>1. /\ old \in Seq(Plain) /\ new \in Seq(Plain) /\ o.copy.name \in Plain
      /\ o.at \in Ids \cup {Root}
  BY DEF Op, PlainOp, PlainCopy
<1>2. f \notin Below(old)
  BY DEF Below, IsStrictPrefix
<1>3. /\ o.copy.parent = o.at /\ Attached(o.at)
      /\ new = Append(ParentPath(o.at), o.copy.name)
  BY DEF Aligned
<1>4. ASSUME o.at # Root PROVE o.at # f /\ o.at \notin Below(old)
  <2>1. o.at \in Ids /\ folder[o.at].path \in Seq(Plain) /\ ~IsPrefix(old, folder[o.at].path)
    BY <1>1, <1>4, PathTypes
  <2>2. old # folder[o.at].path /\ ~IsStrictPrefix(old, folder[o.at].path)
    BY <1>1, <2>1, PrefixFacts
  <2> QED BY <2>2 DEF Below
<1>5. NewPath(o, f) = Append(NewParentPath(o, NewParent(o, f)), FinalName(o, f))
  BY <1>2, <1>3, <1>4 DEF NewPath, NewParent, NewParentPath, FinalName, ParentPath
<1>6. ASSUME NEW g \in Ids, Live(g), g # f
      PROVE  NewPath(o, g) = Append(NewParentPath(o, NewParent(o, g)), FinalName(o, g))
  <2> DEFINE p == folder[g].parent
  <2>1. NewParent(o, g) = p /\ FinalName(o, g) = folder[g].name
    BY <1>6 DEF NewParent, FinalName
  <2>2. /\ folder[g].path = Append(ParentPath(p), folder[g].name) /\ Attached(p)
        /\ folder[g].name \in Plain /\ p \in Ids \cup {Root}
    BY <1>6, PathTypes DEF Matched
  <2>3. /\ g \in Below(old) <=> p # Root /\ IsPrefix(old, folder[p].path)
        /\ g \in Below(old) <=> p = f \/ p \in Below(old)
    BY <1>6, BelowByLinks
  <2>4. CASE g \notin Below(old)
    BY <1>6, <2>1, <2>2, <2>3, <2>4 DEF NewPath, NewParentPath, ParentPath
  <2>5. CASE g \in Below(old)
    <3> DEFINE t == folder[p].path
               e == folder[g].name
    <3>1. p # Root /\ p \in Ids /\ t \in Seq(Plain) /\ IsPrefix(old, t)
      BY <2>2, <2>3, <2>5, PathTypes
    <3>2. folder[g].path = Append(t, e) /\ e \in Plain
      BY <2>2, <3>1 DEF ParentPath
    <3>3. Rebased(o, Append(t, e)) = Append(Rebased(o, t), e)
      BY <1>1, <3>1, <3>2, RebasedAppend
    <3>4. NewPath(o, p) = Rebased(o, t)
      <4>1. CASE p = f
        <5>1. Rebased(o, old) = new
          BY <1>1, RebasedPlain, RebaseSelf DEF Spliced
        <5> QED BY <1>2, <4>1, <5>1 DEF NewPath
      <4>2. CASE p \in Below(old)
        BY <4>2 DEF NewPath
      <4> QED BY <2>3, <2>5, <4>1, <4>2
    <3>5. NewPath(o, g) = Rebased(o, Append(t, e))
      BY <2>5, <3>2 DEF NewPath
    <3> QED BY <2>1, <3>1, <3>3, <3>4, <3>5 DEF NewParentPath
  <2> QED BY <2>4, <2>5
<1> QED BY <1>2, <1>5, <1>6
-----------------------------------------------------------------------------
(* While nothing is odd, nothing becomes odd.                               *)

LEMMA RequestIntact ==
    ASSUME NEW q \in Requests, Starts(q) \/ Continues(q) \/ Fails(q), intact'
    PROVE  intact
<1>1. CASE Starts(q)
  BY <1>1 DEF Starts, CreateStarts, UpdateStarts, MoveStarts, Moves, DeleteStarts, PurgeStarts, Goes,
              Begins
<1>2. CASE Fails(q)
  BY <1>2 DEF Fails, Aborts
<1>3. CASE Insert(q) \/ Save(q) \/ Diff(q) \/ Subtree(q) \/ \E row \in op[q].found : Rewrite(q, row)
  BY <1>3 DEF Insert, Save, Saved, Diff, Subtree, Marks, Rewrite, Refused, Aborts, Goes, Ends
<1>4. CASE FindParent(q) \/ Walk(q) \/ Check(q) \/ ComputePath(q) \/ FindChildren(q)
  BY <1>4 DEF FindParent, Walk, Check, Checked, ComputePath, FindChildren, Collects, Goes, Ends
<1>5. CASE RemoveChildren(q) \/ RemoveSelf(q)
  BY <1>5 DEF RemoveChildren, RemoveSelf, Removes, Goes, Ends
<1> QED BY <1>1, <1>2, <1>3, <1>4, <1>5 DEF Continues

LEMMA PlainRequest ==
    ASSUME TypeInv, PlainTable, NEW q \in Requests, NEW o, op[q] = o, PlainOp(o),
           intact', NEW n, op'[q] = n, Starts(q) \/ Continues(q) \/ Fails(q)
    PROVE  PlainTable' /\ PlainOp(n)
<1>1. /\ o \in Op /\ folder \in [Ids -> Row] /\ op \in [Requests -> Op] /\ FolderAssumption
      /\ o.stage # "idle" => RequestOK(o)
  BY FolderAssumption DEF TypeInv, TypeOK, Idle
<1>2. PlainOp(Idle) /\ PlainCopy(Blank) /\ PlainCopy([Blank EXCEPT !.state = "purged"])
  <2>1. (CHOOSE m \in Plain : TRUE) \in Plain /\ <<>> \in Seq(Plain)
    BY <1>1, EmptySeq DEF FolderAssumption
  <2> QED BY <2>1 DEF PlainOp, PlainCopy, Idle, Blank
<1>3. ASSUME UNCHANGED folder PROVE PlainTable'
  BY <1>3 DEF PlainTable
<1>4. \A f \in Ids : folder[f].name \in Plain /\ folder[f].path \in Seq(Plain)
  BY DEF PlainTable, PlainCopy
<1>5. /\ o.copy.name \in Plain /\ o.copy.path \in Seq(Plain) /\ o.old \in Seq(Plain)
      /\ \A row \in o.found : row.path \in Seq(Plain)
  BY DEF PlainOp, PlainCopy
<1>6. ASSUME n.copy = o.copy, n.old = o.old, n.found \subseteq o.found PROVE PlainOp(n)
  BY <1>6 DEF PlainOp
<1>7. \A path \in Seq(Plain), name \in Plain : Joined(path, name) \in Seq(Plain)
  BY <1>1, JoinedPlain
<1>8. <<>> \in Seq(Plain)
  BY EmptySeq
<1>9. CASE Starts(q)
  <2>1. ASSUME NEW m \in Names, NEW p \in Ids \cup {Root}, CreateStarts(q, m, p)
        PROVE  PlainTable' /\ PlainOp(n)
    <3>1. /\ n = [Idle EXCEPT !.kind = "create", !.id = CHOOSE f \in FreeIds : TRUE, !.at = p,
                              !.stage = IF p = Root THEN "check" ELSE "parent",
                              !.copy = [name |-> m, parent |-> p, path |-> <<>>, state |-> "live"]]
          /\ m \in Plain /\ UNCHANGED folder
      BY <1>1, <2>1 DEF CreateStarts, Begins
    <3>2. n.copy.name = m /\ n.copy.path = <<>> /\ n.old = <<>> /\ n.found = {}
      BY <3>1 DEF Idle
    <3> QED BY <1>3, <1>8, <3>1, <3>2 DEF PlainOp, PlainCopy
  <2>2. ASSUME NEW f \in Ids, NEW m \in Names, UpdateStarts(q, f, m)
        PROVE  PlainTable' /\ PlainOp(n)
    <3> DEFINE copy == [folder[f] EXCEPT !.name = m]
    <3>1. copy.name = m /\ copy.path = folder[f].path
      BY <1>1 DEF Row
    <3> HIDE DEF copy
    <3>2. /\ n = [Idle EXCEPT !.kind = "update", !.id = f, !.at = folder[f].parent,
                              !.stage = IF m = folder[f].name THEN "diff" ELSE "check",
                              !.copy = copy, !.old = folder[f].path]
          /\ m \in Plain \cup {folder[f].name} /\ UNCHANGED folder
      BY <1>1, <2>2 DEF UpdateStarts, Begins, copy
    <3>3. n.copy = copy /\ n.old = folder[f].path /\ n.found = {}
      BY <3>2 DEF Idle
    <3> QED BY <1>3, <1>4, <3>1, <3>2, <3>3 DEF PlainOp, PlainCopy
  <2>3. ASSUME NEW f \in Ids, NEW t \in Ids \cup {Root, Omitted}, MoveStarts(q, f, t)
        PROVE  PlainTable' /\ PlainOp(n)
    <3> DEFINE path == Joined(<<>>, folder[f].name)
               copy == [folder[f] EXCEPT !.parent = t, !.path = path]
    <3>1. copy.name = folder[f].name /\ copy.path = path /\ path \in Seq(Plain)
      BY <1>1, <1>4, <1>7, <1>8 DEF Row
    <3> HIDE DEF copy
    <3>2. /\ n = [Idle EXCEPT !.kind = "move", !.id = f, !.old = folder[f].path,
                              !.at = IF t = Omitted THEN Root ELSE t,
                              !.stage = IF t \in Ids THEN "parent" ELSE "check", !.copy = copy]
          /\ UNCHANGED folder
      BY <1>1, <2>3 DEF MoveStarts, Moves, Begins, copy
    <3>3. n.copy = copy /\ n.old = folder[f].path /\ n.found = {}
      BY <3>2 DEF Idle
    <3> QED BY <1>3, <1>4, <3>1, <3>2, <3>3 DEF PlainOp, PlainCopy
  <2>4. ASSUME NEW f \in Ids, DeleteStarts(q, f) PROVE PlainTable' /\ PlainOp(n)
    <3> DEFINE copy == [folder[f] EXCEPT !.state = "deleted"]
    <3>1. copy.name = folder[f].name /\ copy.path = folder[f].path
      BY <1>1 DEF Row
    <3> HIDE DEF copy
    <3>2. /\ n = [Idle EXCEPT !.kind = "delete", !.id = f, !.stage = "diff",
                              !.old = folder[f].path, !.copy = copy]
          /\ UNCHANGED folder
      BY <1>1, <2>4 DEF DeleteStarts, Goes, copy
    <3>3. n.copy = copy /\ n.old = folder[f].path /\ n.found = {}
      BY <3>2 DEF Idle
    <3> QED BY <1>3, <1>4, <3>1, <3>2, <3>3 DEF PlainOp, PlainCopy
  <2>5. ASSUME NEW f \in Ids, PurgeStarts(q, f) PROVE PlainTable' /\ PlainOp(n)
    <3>1. /\ n = [Idle EXCEPT !.kind = "purge", !.id = f, !.stage = "children",
                              !.copy = folder[f], !.old = folder[f].path]
          /\ UNCHANGED folder
      BY <1>1, <2>5 DEF PurgeStarts, Goes
    <3>2. n.copy = folder[f] /\ n.old = folder[f].path /\ n.found = {}
      BY <3>1 DEF Idle
    <3> QED BY <1>3, <1>4, <3>1, <3>2 DEF PlainOp, PlainCopy
  <2> QED BY <1>9, <2>1, <2>2, <2>3, <2>4, <2>5 DEF Starts
<1>10. CASE Fails(q)
  BY <1>1, <1>2, <1>3, <1>10 DEF Fails, Aborts
\* The request goes on with the entity that it holds, or ends.
<1>11. ASSUME NEW s, NEW found \in SUBSET o.found,
              n = Idle \/ n = [o EXCEPT !.stage = s] \/ n = [o EXCEPT !.found = found]
                       \/ n = [o EXCEPT !.stage = s, !.found = found]
       PROVE  PlainOp(n)
  <2>1. CASE n = Idle
    BY <1>2, <2>1
  <2>2. CASE n # Idle
    <3>1. n.copy = o.copy /\ n.old = o.old /\ n.found \subseteq o.found
      BY <1>1, <1>11, <2>2 DEF Op
    <3> QED BY <1>6, <3>1
  <2> QED BY <2>1, <2>2
<1>12. ASSUME NEW path \in Seq(Plain), n.copy = [o.copy EXCEPT !.path = path],
              n.old = o.old, n.found = o.found
       PROVE  PlainOp(n)
  <2>1. n.copy.name = o.copy.name /\ n.copy.path = path
    BY <1>1, <1>12 DEF Op, Copy
  <2> QED BY <1>5, <1>12, <2>1 DEF PlainOp, PlainCopy
<1>13. CASE FindParent(q)
  <2>1. o.at \in Ids
    BY <1>1, <1>13 DEF FindParent, RequestOK
  <2>2. Joined(folder[o.at].path, o.copy.name) \in Seq(Plain)
    BY <1>4, <1>5, <1>7, <2>1
  <2>3. \/ n = Idle \/ n = [o EXCEPT !.stage = "check"]
        \/ n = [o EXCEPT !.stage = "walk", !.cursor = o.at,
                         !.copy.path = Joined(folder[o.at].path, o.copy.name)]
    BY <1>1, <1>13 DEF FindParent, Goes, Ends
  <2>4. ASSUME n = [o EXCEPT !.stage = "check"] PROVE PlainOp(n)
    BY <1>11, <2>4
  <2>5. ASSUME n = [o EXCEPT !.stage = "walk", !.cursor = o.at,
                             !.copy.path = Joined(folder[o.at].path, o.copy.name)]
        PROVE  PlainOp(n)
    <3> DEFINE path == Joined(folder[o.at].path, o.copy.name)
    <3>1. path \in Seq(Plain) /\ n = [o EXCEPT !.stage = "walk", !.cursor = o.at, !.copy.path = path]
      BY <2>2, <2>5
    <3> HIDE DEF path
    <3>2. n.copy = [o.copy EXCEPT !.path = path] /\ n.old = o.old /\ n.found = o.found
      BY <1>1, <3>1 DEF Op
    <3> QED BY <1>12, <3>1, <3>2
  <2> QED BY <1>2, <1>3, <1>13, <2>3, <2>4, <2>5 DEF FindParent
<1>14. CASE Walk(q)
  <2>1. n = Idle \/ n = [o EXCEPT !.stage = "check"] \/ \E c : n = [o EXCEPT !.cursor = c]
    BY <1>1, <1>14 DEF Walk, Goes, Ends
  <2>2. ASSUME NEW c, n = [o EXCEPT !.cursor = c] PROVE PlainOp(n)
    <3>1. n.copy = o.copy /\ n.old = o.old /\ n.found = o.found
      BY <1>1, <2>2 DEF Op
    <3> QED BY <1>6, <3>1
  <2> QED BY <1>3, <1>11, <1>14, <2>1, <2>2 DEF Walk
<1>15. CASE Check(q)
  <2>1. n = Idle \/ n = [o EXCEPT !.stage = "diff"] \/ n = [o EXCEPT !.stage = "path"]
    BY <1>1, <1>15 DEF Check, Checked, Goes, Ends
  <2> QED BY <1>3, <1>11, <1>15, <2>1 DEF Check, Checked
<1>16. CASE ComputePath(q)
  <2>1. o.at \in Ids \cup {Root}
    BY <1>1 DEF Op
  <2>2. /\ Joined(<<>>, o.copy.name) \in Seq(Plain)
        /\ o.at # Root => Joined(folder[o.at].path, o.copy.name) \in Seq(Plain)
    BY <1>4, <1>5, <1>7, <1>8, <2>1
  <2> DEFINE next == IF o.kind = "create" THEN "insert" ELSE "children"
  <2>3. \/ n = Idle
        \/ n = [o EXCEPT !.stage = next, !.copy.path = Joined(<<>>, o.copy.name)]
        \/ /\ o.at # Root
           /\ n = [o EXCEPT !.stage = next, !.copy.path = Joined(folder[o.at].path, o.copy.name)]
    BY <1>1, <1>16 DEF ComputePath, Goes, Ends
  <2> HIDE DEF next
  <2>4. ASSUME NEW path \in Seq(Plain), n = [o EXCEPT !.stage = next, !.copy.path = path]
        PROVE  PlainOp(n)
    <3>1. n.copy = [o.copy EXCEPT !.path = path] /\ n.old = o.old /\ n.found = o.found
      BY <1>1, <2>4 DEF Op
    <3> QED BY <1>12, <3>1
  <2> QED BY <1>2, <1>3, <1>16, <2>2, <2>3, <2>4 DEF ComputePath
<1>17. CASE Diff(q)
  <2>1. n = [o EXCEPT !.stage = "insert"] \/ n = [o EXCEPT !.stage = "save", !.dirty = Differs(o)]
    BY <1>1, <1>17 DEF Diff, Goes
  <2>2. n.copy = o.copy /\ n.old = o.old /\ n.found = o.found
    BY <1>1, <2>1 DEF Op
  <2> QED BY <1>3, <1>6, <1>17, <2>2 DEF Diff
<1>18. ASSUME Saved(q) \/ Ends(q) \/ Refused(q) PROVE PlainOp(n)
  <2>1. n = Idle \/ n = [o EXCEPT !.stage = "children"] \/ n = [o EXCEPT !.stage = "subtree"]
    BY <1>1, <1>18 DEF Saved, Goes, Ends, Refused, Aborts
  <2> QED BY <1>11, <2>1
<1>19. ASSUME NEW f \in Ids, NEW row, row.name \in Plain, row.path \in Seq(Plain),
              folder' = [folder EXCEPT ![f] = row]
       PROVE  PlainTable'
  <2>1. \A g \in Ids : folder'[g] = IF g = f THEN row ELSE folder[g]
    BY <1>1, <1>19
  <2> QED BY <1>4, <1>19, <2>1 DEF PlainTable, PlainCopy
<1>20. CASE Insert(q)
  <2> DEFINE p == IF o.copy.parent = Omitted THEN Root ELSE o.copy.parent
             row == [o.copy EXCEPT !.parent = p]
  <2>1. row.name = o.copy.name /\ row.path = o.copy.path
    BY <1>1 DEF Op, Copy
  <2>2. o.id \in Ids
    BY <1>1, <1>20 DEF Insert, RequestOK
  <2>3. UNCHANGED folder \/ folder' = [folder EXCEPT ![o.id] = row]
    BY <1>20 DEF Insert
  <2>4. Saved(q) \/ Ends(q)
    BY <1>20 DEF Insert
  <2> HIDE DEF row
  <2> QED BY <1>3, <1>5, <1>18, <1>19, <2>1, <2>2, <2>3, <2>4
<1>21. CASE Save(q)
  <2>1. o.id \in Ids
    BY <1>1, <1>21 DEF Save, RequestOK
  <2>2. UNCHANGED folder \/ folder' = [folder EXCEPT ![o.id] = Written(folder[o.id], o)]
    BY <1>21 DEF Save
  <2>3. Saved(q) \/ Refused(q)
    BY <1>21 DEF Save
  <2>4. /\ Written(folder[o.id], o).name \in {o.copy.name, folder[o.id].name}
        /\ Written(folder[o.id], o).path \in {o.copy.path, folder[o.id].path}
    BY DEF Written
  <2>5. Written(folder[o.id], o).name \in Plain /\ Written(folder[o.id], o).path \in Seq(Plain)
    BY <1>4, <1>5, <2>1, <2>4
  <2> QED BY <1>3, <1>18, <1>19, <2>1, <2>2, <2>3, <2>5
<1>22. CASE FindChildren(q)
  <2>1. PICK ids \in Like(o.old) : Collects(q, ids)
    BY <1>22 DEF FindChildren
  <2> DEFINE rows == {[id |-> f, path |-> folder[f].path] : f \in ids}
  <2>2. \A row \in rows : row.path \in Seq(Plain)
    BY <1>4, LikeIds
  <2>3. \/ n = Idle
        \/ \E s \in {"removeSelf", "remove", "rewrite", "diff"} : n = [o EXCEPT !.stage = s, !.found = rows]
    BY <1>1, <2>1 DEF Collects, Goes, Ends
  <2> HIDE DEF rows
  <2>4. ASSUME NEW s, n = [o EXCEPT !.stage = s, !.found = rows] PROVE PlainOp(n)
    <3>1. n.copy = o.copy /\ n.old = o.old /\ n.found = rows
      BY <1>1, <2>4 DEF Op
    <3> QED BY <2>2, <3>1 DEF PlainOp
  <2> QED BY <1>2, <1>3, <2>1, <2>3, <2>4 DEF Collects
<1>23. ASSUME NEW row \in o.found, Rewrite(q, row) PROVE PlainTable' /\ PlainOp(n)
  <2>1. \/ n = Idle
        \/ n = [o EXCEPT !.found = o.found \ {row}]
        \/ n = [o EXCEPT !.found = {}, !.stage = "diff"]
    BY <1>1, <1>23 DEF Rewrite, Goes, Ends, Refused, Aborts
  <2>2. row.id \in Ids /\ Rebased(o, row.path) \in Seq(Plain)
    BY <1>1, <1>5, RebasedPlain DEF Op
  <2>3. \/ UNCHANGED folder
        \/ folder' = [folder EXCEPT ![row.id].path = Rebased(o, row.path)]
    BY <1>23 DEF Rewrite
  <2>4. ASSUME folder' = [folder EXCEPT ![row.id].path = Rebased(o, row.path)] PROVE PlainTable'
    <3> DEFINE path == Rebased(o, row.path)
               new == [folder[row.id] EXCEPT !.path = path]
    <3>1. new.name = folder[row.id].name /\ new.path = path
      BY <1>1, <2>2 DEF Row
    <3>2. folder' = [folder EXCEPT ![row.id] = new]
      BY <2>4
    <3>3. new.name \in Plain /\ new.path \in Seq(Plain)
      BY <1>4, <2>2, <3>1
    <3> HIDE DEF new
    <3> QED BY <1>19, <2>2, <3>2, <3>3
  <2>5. PlainOp(n)
    <3>1. ASSUME n = [o EXCEPT !.found = o.found \ {row}] PROVE PlainOp(n)
      <4> DEFINE left == o.found \ {row}
      <4>1. left \in SUBSET o.found /\ n = [o EXCEPT !.found = left]
        BY <3>1
      <4> HIDE DEF left
      <4> QED BY <1>11, <4>1
    <3>2. ASSUME n = [o EXCEPT !.found = {}, !.stage = "diff"] PROVE PlainOp(n)
      <4>1. n.copy = o.copy /\ n.old = o.old /\ n.found = {}
        BY <1>1, <3>2 DEF Op
      <4> QED BY <1>6, <4>1
    <3> QED BY <1>2, <2>1, <3>1, <3>2
  <2> QED BY <1>3, <2>3, <2>4, <2>5
<1>24. CASE Subtree(q)
  <2>1. PICK ids : Marks(q, ids)
    BY <1>24 DEF Subtree
  <2>2. \A f \in Ids : folder'[f].name = folder[f].name /\ folder'[f].path = folder[f].path
    BY <1>1, <2>1 DEF Marks, Row
  <2> QED BY <1>4, <1>18, <2>1, <2>2 DEF Marks, PlainTable, PlainCopy
<1>25. ASSUME NEW S, NEW next, Removes(q, S, next)
       PROVE  PlainTable' /\ n \in {next, Idle}
  <2>1. \A f \in Ids : folder'[f] \in {folder[f], [Blank EXCEPT !.state = "purged"]}
    BY <1>25 DEF Removes
  <2>2. n \in {next, Idle}
    BY <1>1, <1>25 DEF Removes, Goes, Ends
  <2>3. PlainTable'
    BY <1>2, <2>1 DEF PlainTable
  <2> QED BY <2>2, <2>3
<1>26. CASE RemoveChildren(q) \/ RemoveSelf(q)
  <2>1. PlainTable' /\ n \in {[o EXCEPT !.stage = "removeSelf", !.found = {}], Idle}
    BY <1>25, <1>26 DEF RemoveChildren, RemoveSelf
  <2> QED BY <1>11, <2>1
<1> QED BY <1>9, <1>10, <1>13, <1>14, <1>15, <1>16, <1>17, <1>20, <1>21, <1>22, <1>23, <1>24, <1>26
        DEF Continues

LEMMA PlainStep ==
    ASSUME \A p, q \in Requests : p = q, TypeInv, PlainInv, [Next]_vars
    PROVE  PlainInv'
<1>1. CASE UNCHANGED vars
  BY <1>1 DEF vars, PlainInv
<1>2. ASSUME NEW q \in Requests, Starts(q) \/ Continues(q) \/ Fails(q), intact'
      PROVE  /\ \A f \in Ids : PlainCopy(folder'[f])
             /\ \A p \in Requests :
                    /\ PlainCopy(op'[p].copy) /\ op'[p].old \in Seq(Plain)
                    /\ \A row \in op'[p].found : row.path \in Seq(Plain)
  <2>1. PICK o, n : op[q] = o /\ op'[q] = n
    OBVIOUS
  <2>2. PlainTable /\ PlainOp(o)
    BY <1>2, <2>1, RequestIntact DEF PlainInv, PlainTable, PlainOp
  <2>3. PlainTable' /\ PlainOp(n)
    BY <1>2, <2>1, <2>2, PlainRequest
  <2>4. \A p \in Requests : op'[p] = n
    BY <2>1
  <2> QED BY <2>3, <2>4 DEF PlainTable, PlainOp
<1>3. ASSUME NEW q \in Requests, Starts(q) \/ Continues(q) \/ Fails(q) PROVE PlainInv'
  BY <1>2, <1>3 DEF PlainInv
<1> QED BY <1>1, <1>3 DEF Next

LEMMA PlainInit == Init => PlainInv
<1>1. (CHOOSE m \in Plain : TRUE) \in Plain /\ <<>> \in Seq(Plain)
  BY FolderAssumption, EmptySeq
<1>2. PlainCopy(Blank) /\ PlainCopy(Idle.copy) /\ Idle.old \in Seq(Plain) /\ Idle.found = {}
  BY <1>1 DEF PlainCopy, Idle, Blank
<1> HIDE DEF Blank, Idle
<1> QED BY <1>2 DEF Init, PlainInv
-----------------------------------------------------------------------------
(* What every step needs.                                                   *)

\* A step that leaves the table alone.
LEMMA KeptTree ==
    ASSUME UNCHANGED folder, NEW o
    PROVE  /\ Matched' <=> Matched
           /\ TreeOK(o)' <=> TreeOK(o)
<1>1. /\ \A f : (Live(f)' <=> Live(f)) /\ (Exists(f)' <=> Exists(f))
      /\ \A p : (Attached(p)' <=> Attached(p)) /\ ParentPath(p)' = ParentPath(p)
      /\ \A path : Below(path)' = Below(path)
      /\ \A path : Rebased(o, path)' = Rebased(o, path)
  BY DEF Live, Exists, Attached, ParentPath, Below, Rebased
<1>2. Matched' <=> Matched
  BY <1>1 DEF Matched
<1>3. Awaiting(o)' = Awaiting(o)
  BY <1>1 DEF Awaiting
<1>4. /\ \A g : FinalName(o, g)' = FinalName(o, g)
      /\ \A g : FinalPath(o, g)' = FinalPath(o, g)
      /\ \A p : FinalParentPath(o, p)' = FinalParentPath(o, p)
  BY <1>1, <1>3 DEF FinalName, FinalPath, FinalParentPath
<1>5. /\ Completable(o)' <=> Completable(o)
      /\ Deletable(o)' <=> Deletable(o)
      /\ Aligned(o)' <=> Aligned(o)
  BY <1>1, <1>3, <1>4 DEF Completable, Deletable, Aligned
<1>6. /\ CreateOK(o)' <=> CreateOK(o)
      /\ UpdateOK(o)' <=> UpdateOK(o)
      /\ MoveOK(o)' <=> MoveOK(o)
      /\ DeleteOK(o)' <=> DeleteOK(o)
  BY <1>1, <1>2, <1>5 DEF CreateOK, UpdateOK, MoveOK, DeleteOK
<1> QED BY <1>2, <1>6 DEF TreeOK

\* The request and the tree are as they should be.
Fine(o) == o.stage \in StagesOf(o.kind) /\ TreeOK(o)

LEMMA IdleFine == Matched <=> Fine(Idle)
BY DEF Fine, TreeOK, Idle, StagesOf

LEMMA IdleFineNext == Matched' => Fine(Idle)'
BY DEF Fine, TreeOK, Idle, StagesOf

LEMMA KeptFine ==
    ASSUME UNCHANGED folder, NEW o, Fine(o)
    PROVE  Fine(o)'
BY KeptTree DEF Fine

\* The tree is whole unless the request is half-way.
LEMMA WholeTree ==
    ASSUME NEW o \in Op, Fine(o), ~HalfWay(o)
    PROVE  Matched
<1>1. o.kind \in Kinds
  BY DEF Op
<1>2. CASE o.kind \in {"none", "purge"}
  BY <1>2 DEF Fine, TreeOK
<1>3. CASE o.kind = "create"
  BY <1>3 DEF Fine, TreeOK, CreateOK
<1>4. CASE o.kind = "update"
  BY <1>4 DEF Fine, TreeOK, UpdateOK, StagesOf, HalfWay
<1>5. CASE o.kind = "move"
  BY <1>5 DEF Fine, TreeOK, MoveOK, StagesOf, HalfWay
<1>6. CASE o.kind = "delete"
  BY <1>6 DEF Fine, TreeOK, DeleteOK, StagesOf, HalfWay
<1> QED BY <1>1, <1>2, <1>3, <1>4, <1>5, <1>6 DEF Kinds

\* What a step of a request may use.
LEMMA StepFacts ==
    ASSUME TreeInv, intact, NEW q \in Requests, NEW o, op[q] = o
    PROVE  /\ o \in Op /\ Fine(o)
           /\ folder \in [Ids -> Row] /\ op \in [Requests -> Op]
           /\ TypeInv /\ PlainTable /\ PlainOp(o) /\ FolderAssumption
           /\ NoCycle /\ SiblingsDistinct /\ RequestSafe(o) /\ (Unwritten(o) => RequestDistinct(o))
           /\ o.stage # "idle" => RequestOK(o)
BY FolderAssumption
DEF TreeInv, ForestInv, SiblingInv, PlainInv, PlainTable, PlainOp, TypeInv, TypeOK, Fine, Idle

\* What has to be shown of the tree after a step.
LEMMA MatchedNext ==
    ASSUME \A g \in Ids : \A p : (Live(g)' /\ folder'[g].parent = p) =>
               /\ p = Root \/ Live(p)'
               /\ folder'[g].path = Append(IF p = Root THEN <<>> ELSE folder'[p].path, folder'[g].name)
    PROVE  Matched'
BY DEF Matched, Attached, ParentPath

\* The folder of the request has become what was to become of it.
LEMMA Completed ==
    ASSUME TypeInv, NEW o, o.id \in Ids, Completable(o), Awaiting(o) = {},
           folder'[o.id].path = o.copy.path, folder'[o.id].name = o.copy.name,
           folder'[o.id].parent = folder[o.id].parent, folder'[o.id].state = folder[o.id].state,
           \A g \in Ids \ {o.id} : folder'[g] = folder[g]
    PROVE  Matched'
<1>1. \A g \in Ids : /\ Live(g)' <=> Live(g)
                     /\ folder'[g].parent = folder[g].parent
                     /\ folder'[g].path = FinalPath(o, g) /\ folder'[g].name = FinalName(o, g)
  BY DEF Live, FinalPath, FinalName
<1>2. ASSUME NEW g \in Ids, Live(g)', NEW p, folder'[g].parent = p
      PROVE  /\ p = Root \/ Live(p)'
             /\ folder'[g].path = Append(IF p = Root THEN <<>> ELSE folder'[p].path, folder'[g].name)
  <2>1. /\ Live(g) /\ folder[g].parent = p /\ p \in Ids \cup {Root}
        /\ Attached(p) /\ FinalPath(o, g) = Append(FinalParentPath(o, p), FinalName(o, g))
    BY <1>1, <1>2, ParentTypes DEF Completable
  <2> QED BY <1>1, <2>1 DEF Attached, FinalParentPath
<1> QED BY <1>2, MatchedNext

\* Nothing is left to be rewritten when the entity is what the row is.
LEMMA NothingLeft ==
    ASSUME Matched, TypeInv, NEW o, o.id \in Ids, Awaiting(o) = {}, o.stage # "rewrite",
           o.copy.name = folder[o.id].name, o.copy.path = folder[o.id].path
    PROVE  Completable(o)
<1>1. \A g \in Ids : FinalPath(o, g) = folder[g].path /\ FinalName(o, g) = folder[g].name
  BY DEF FinalPath, FinalName
<1>2. ASSUME NEW g \in Ids, Live(g), NEW p, p = folder[g].parent
      PROVE  Attached(p) /\ FinalPath(o, g) = Append(FinalParentPath(o, p), FinalName(o, g))
  <2>1. Attached(p) /\ folder[g].path = Append(ParentPath(p), folder[g].name) /\ p \in Ids \cup {Root}
    BY <1>2, ParentTypes DEF Matched
  <2> QED BY <1>1, <2>1 DEF ParentPath, FinalParentPath
<1> QED BY <1>2 DEF Completable
-----------------------------------------------------------------------------
(* The steps that only read.                                                *)

LEMMA StartsTree ==
    ASSUME TreeInv, NEW q \in Requests, Starts(q), intact', NEW n, op'[q] = n
    PROVE  UNCHANGED folder /\ intact /\ Fine(n)
<1>1. PICK o : op[q] = o
  OBVIOUS
<1>2. UNCHANGED folder /\ o = Idle /\ intact
  BY <1>1 DEF Starts, CreateStarts, UpdateStarts, MoveStarts, Moves, DeleteStarts, PurgeStarts,
                 Goes, Begins
<1>3. /\ o \in Op /\ folder \in [Ids -> Row] /\ op \in [Requests -> Op]
      /\ TypeInv /\ PlainTable /\ PlainOp(o) /\ FolderAssumption /\ Fine(Idle)
  BY <1>1, <1>2, StepFacts
<1>4. Matched
  BY <1>3, IdleFine
<1>5. \A f \in Ids : folder[f] \in Row
  BY <1>3
<1>6. Idle \in Op
  BY IdleType
<1>7. ASSUME NEW m \in Names, NEW p \in Ids \cup {Root}, CreateStarts(q, m, p)
      PROVE  Fine(n)
  <2>1. n = [Idle EXCEPT !.kind = "create", !.id = CHOOSE f \in FreeIds : TRUE, !.at = p,
                         !.stage = IF p = Root THEN "check" ELSE "parent",
                         !.copy = [name |-> m, parent |-> p, path |-> <<>>, state |-> "live"]]
    BY <1>3, <1>7 DEF CreateStarts, Begins
  <2>2. /\ n.kind = "create" /\ n.at = p /\ n.copy.parent = p
        /\ n.stage = IF p = Root THEN "check" ELSE "parent"
    BY <2>1 DEF Idle
  <2> QED BY <1>4, <2>2 DEF Fine, TreeOK, CreateOK, StagesOf, Attached
<1>8. ASSUME NEW f \in Ids, NEW m \in Names, UpdateStarts(q, f, m)
      PROVE  Fine(n)
  <2> DEFINE copy == [folder[f] EXCEPT !.name = m]
  <2>1. n = [Idle EXCEPT !.kind = "update", !.id = f, !.at = folder[f].parent,
                         !.stage = IF m = folder[f].name THEN "diff" ELSE "check",
                         !.copy = copy, !.old = folder[f].path]
    BY <1>3, <1>8 DEF UpdateStarts, Begins
  <2>2. /\ copy.name = m /\ copy.parent = folder[f].parent
        /\ copy.path = folder[f].path /\ copy.state = "live" /\ Live(f)
    BY <1>5, <1>8 DEF Row, UpdateStarts, Live
  <2> HIDE DEF copy
  <2>3. /\ n.kind = "update" /\ n.id = f /\ n.at = folder[f].parent /\ n.copy = copy
        /\ n.stage = IF m = folder[f].name THEN "diff" ELSE "check"
        /\ n.old = folder[f].path
    BY <2>1 DEF Idle
  <2>4. n.stage = "diff" => Completable(n)
    BY <1>3, <1>4, <2>2, <2>3, NothingLeft DEF Awaiting
  <2> QED BY <1>4, <2>2, <2>3, <2>4 DEF Fine, TreeOK, UpdateOK, StagesOf
<1>9. ASSUME NEW f \in Ids, NEW t \in Ids \cup {Root, Omitted}, MoveStarts(q, f, t)
      PROVE  Fine(n)
  <2> DEFINE copy == [folder[f] EXCEPT !.parent = t, !.path = Joined(<<>>, folder[f].name)]
  <2>1. /\ n = [Idle EXCEPT !.kind = "move", !.id = f, !.old = folder[f].path,
                           !.at = IF t = Omitted THEN Root ELSE t,
                           !.stage = IF t \in Ids THEN "parent" ELSE "check",
                           !.copy = copy]
        /\ t # Omitted /\ Live(f)
    BY <1>3, <1>9 DEF MoveStarts, Moves, Begins
  <2>2. /\ copy.name = folder[f].name /\ copy.parent = t
        /\ copy.path = Append(<<>>, folder[f].name) /\ copy.state = "live"
    <3>1. Joined(<<>>, folder[f].name) = Append(<<>>, folder[f].name)
      BY <1>3, EmptySeq, PathTypes, JoinedPlain
    <3> QED BY <1>5, <2>1, <3>1 DEF Row, Live
  <2> HIDE DEF copy
  <2>3. /\ n.kind = "move" /\ n.id = f /\ n.at = t /\ n.copy = copy /\ n.old = folder[f].path
        /\ n.stage = IF t \in Ids THEN "parent" ELSE "check"
    BY <2>1 DEF Idle
  <2>4. t = Root => copy.path = Append(ParentPath(t), copy.name)
    BY <2>2 DEF ParentPath
  <2>5. n.stage \in {"walk", "check", "diff", "save"} => Aligned(n)
    BY <2>1, <2>2, <2>3, <2>4 DEF Aligned, Attached
  <2>6. MoveOK(n)
    BY <1>4, <2>1, <2>2, <2>3, <2>5 DEF MoveOK
  <2> QED BY <2>3, <2>6 DEF Fine, TreeOK, StagesOf
<1>10. ASSUME NEW f \in Ids, DeleteStarts(q, f) PROVE Fine(n)
  <2>1. n = [Idle EXCEPT !.kind = "delete", !.id = f, !.stage = "diff", !.old = folder[f].path,
                         !.copy = [folder[f] EXCEPT !.state = "deleted"]]
    BY <1>3, <1>10 DEF DeleteStarts, Goes
  <2>2. /\ n.kind = "delete" /\ n.id = f /\ n.stage = "diff" /\ n.old = folder[f].path
        /\ n.copy = [folder[f] EXCEPT !.state = "deleted"]
    BY <2>1 DEF Idle
  <2> QED BY <1>4, <2>2 DEF Fine, TreeOK, DeleteOK, StagesOf
<1>11. ASSUME NEW f \in Ids, PurgeStarts(q, f) PROVE Fine(n)
  <2>1. n = [Idle EXCEPT !.kind = "purge", !.id = f, !.stage = "children",
                         !.copy = folder[f], !.old = folder[f].path]
    BY <1>3, <1>11 DEF PurgeStarts, Goes
  <2>2. n.kind = "purge" /\ n.stage = "children"
    BY <2>1 DEF Idle
  <2> QED BY <1>4, <2>2 DEF Fine, TreeOK, StagesOf
<1> QED BY <1>2, <1>7, <1>8, <1>9, <1>10, <1>11 DEF Starts

\* Before its first write a request finds the tree whole.
LEMMA ReadsTree ==
    ASSUME TreeInv, NEW q \in Requests, intact', NEW n, op'[q] = n,
           FindParent(q) \/ Walk(q) \/ Check(q) \/ ComputePath(q) \/ Diff(q)
    PROVE  UNCHANGED folder /\ intact /\ Fine(n)
<1>1. PICK o : op[q] = o
  OBVIOUS
<1>2. UNCHANGED folder /\ intact
  BY DEF FindParent, Walk, Check, Checked, ComputePath, Diff, Goes, Ends
<1> SUFFICES Fine(n)
  BY <1>2
<1>3. /\ o \in Op /\ Fine(o) /\ folder \in [Ids -> Row] /\ op \in [Requests -> Op]
      /\ TypeInv /\ PlainTable /\ PlainOp(o) /\ FolderAssumption
      /\ Unwritten(o) => RequestDistinct(o)
      /\ o.stage # "idle" => RequestOK(o)
  BY <1>1, <1>2, StepFacts
<1>4. o.kind \in Kinds /\ o.stage \in StagesOf(o.kind) /\ TreeOK(o)
  BY <1>3 DEF Op, Fine
<1>5. n = Idle /\ ~HalfWay(o) => Fine(n)
  BY <1>3, WholeTree, IdleFine
<1>6. CASE FindParent(q)
  <2>1. o.stage = "parent" /\ ~HalfWay(o) /\ o.at \in Ids
    BY <1>1, <1>3, <1>6 DEF FindParent, HalfWay, RequestOK
  <2>2. o.kind = "create" \/ o.kind = "move"
    BY <1>4, <2>1 DEF StagesOf, Kinds
  <2>3. CASE o.kind = "create" /\ n # Idle
    <3>1. n = [o EXCEPT !.stage = "check"] /\ Live(o.at)
      BY <1>1, <1>3, <1>6, <2>3 DEF FindParent, Goes, Ends
    <3>2. n.stage = "check" /\ n.kind = o.kind /\ n.at = o.at /\ n.copy = o.copy
      BY <1>3, <3>1 DEF Op
    <3> QED BY <1>4, <2>3, <3>1, <3>2 DEF Fine, TreeOK, CreateOK, StagesOf, Attached
  <2>4. CASE o.kind = "move" /\ n # Idle
    <3>1. /\ n = [o EXCEPT !.stage = "walk", !.cursor = o.at,
                           !.copy.path = Append(folder[o.at].path, o.copy.name)]
          /\ Live(o.at)
      <4>1. Joined(folder[o.at].path, o.copy.name) = Append(folder[o.at].path, o.copy.name)
        BY <1>3, <2>1, PathTypes, JoinedPlain DEF PlainOp, PlainCopy
      <4> QED BY <1>1, <1>3, <1>6, <2>4, <4>1 DEF FindParent, Goes, Ends
    <3>2. /\ n.stage = "walk" /\ n.kind = o.kind /\ n.at = o.at /\ n.id = o.id /\ n.old = o.old
          /\ n.copy = [o.copy EXCEPT !.path = Append(folder[o.at].path, o.copy.name)]
      BY <1>3, <3>1 DEF Op
    <3>3. /\ n.copy.path = Append(folder[o.at].path, o.copy.name) /\ n.copy.name = o.copy.name
          /\ n.copy.parent = o.copy.parent /\ n.copy.state = o.copy.state
      BY <1>3, <3>2 DEF Op, Copy
    <3>4. ParentPath(o.at) = folder[o.at].path /\ Attached(o.at)
      BY <1>3, <2>1, <3>1 DEF ParentPath, Attached, FolderAssumption
    <3>5. MoveOK(o)
      BY <1>4, <2>4 DEF TreeOK
    <3>6. Aligned(n)
      BY <2>1, <3>2, <3>3, <3>4, <3>5 DEF Aligned, MoveOK
    <3>7. MoveOK(n)
      BY <2>1, <3>2, <3>3, <3>5, <3>6 DEF MoveOK
    <3> QED BY <2>4, <3>2, <3>7 DEF Fine, TreeOK, StagesOf
  <2> QED BY <1>5, <2>1, <2>2, <2>3, <2>4
<1>7. CASE Walk(q)
  <2>1. o.stage = "walk" /\ ~HalfWay(o)
    BY <1>1, <1>7 DEF Walk, HalfWay
  <2>2. o.kind = "move"
    BY <1>4, <2>1 DEF StagesOf, Kinds
  <2>3. n = Idle \/ n = [o EXCEPT !.stage = "check"] \/ \E c : n = [o EXCEPT !.cursor = c]
    BY <1>1, <1>3, <1>7 DEF Walk, Goes, Ends
  <2>4. CASE n # Idle
    <3>1. /\ n.stage \in {"walk", "check"} /\ n.kind = o.kind /\ n.at = o.at /\ n.id = o.id
          /\ n.old = o.old /\ n.copy = o.copy
      BY <1>3, <2>1, <2>3, <2>4 DEF Op
    <3>2. MoveOK(o)
      BY <1>4, <2>2 DEF TreeOK
    <3>3. MoveOK(n)
      BY <2>1, <3>1, <3>2 DEF MoveOK, Aligned
    <3> QED BY <2>2, <3>1, <3>3 DEF Fine, TreeOK, StagesOf
  <2> QED BY <1>5, <2>1, <2>4
<1>8. CASE Check(q)
  <2>1. o.stage = "check" /\ ~HalfWay(o)
    BY <1>1, <1>8 DEF Check, Checked, HalfWay
  <2>2. o.kind \in {"create", "update", "move"}
    BY <1>4, <2>1 DEF StagesOf, Kinds
  <2>3. \/ n = Idle
        \/ o.kind = "move" /\ n = [o EXCEPT !.stage = "diff"]
        \/ o.kind # "move" /\ n = [o EXCEPT !.stage = "path"]
    BY <1>1, <1>3, <1>8 DEF Check, Checked, Goes, Ends
  <2>4. CASE n # Idle
    <3>1. /\ n.stage = IF o.kind = "move" THEN "diff" ELSE "path"
          /\ n.kind = o.kind /\ n.at = o.at /\ n.id = o.id /\ n.old = o.old /\ n.copy = o.copy
      BY <1>3, <2>3, <2>4 DEF Op
    <3>2. CASE o.kind = "create"
      BY <1>4, <2>1, <3>1, <3>2 DEF Fine, TreeOK, CreateOK, StagesOf
    <3>3. CASE o.kind = "update"
      BY <1>4, <2>1, <3>1, <3>3 DEF Fine, TreeOK, UpdateOK, StagesOf
    <3>4. CASE o.kind = "move"
      BY <1>4, <2>1, <3>1, <3>4 DEF Fine, TreeOK, MoveOK, Aligned, StagesOf
    <3> QED BY <2>2, <3>2, <3>3, <3>4
  <2> QED BY <1>5, <2>1, <2>4
<1>9. CASE ComputePath(q)
  <2>1. o.stage = "path" /\ ~HalfWay(o)
    BY <1>1, <1>9 DEF ComputePath, HalfWay
  <2>2. o.kind \in {"create", "update"} /\ o.id \in Ids /\ o.at \in Ids \cup {Root}
    BY <1>3, <1>4, <2>1 DEF StagesOf, Kinds, RequestOK, Op
  <2>3. Matched /\ Attached(o.at) /\ o.copy.parent = o.at
    BY <1>4, <2>1, <2>2 DEF TreeOK, CreateOK, UpdateOK, Matched
  <2>4. o.at = Root \/ Exists(o.at)
    BY <2>3 DEF Attached, Live, Exists
  <2>5. ParentPath(o.at) = IF o.at = Root THEN <<>> ELSE folder[o.at].path
    BY DEF ParentPath
  <2>6. Joined(ParentPath(o.at), o.copy.name) = Append(ParentPath(o.at), o.copy.name)
    <3>1. ParentPath(o.at) \in Seq(Plain)
      BY <1>3, <2>2, <2>5, EmptySeq, PathTypes
    <3> QED BY <1>3, <3>1, JoinedPlain DEF PlainOp, PlainCopy
  <2>7. n = [o EXCEPT !.stage = IF o.kind = "create" THEN "insert" ELSE "children",
                      !.copy.path = Append(ParentPath(o.at), o.copy.name)]
    <3>1. CASE o.at = Root
      <4>1. Joined(<<>>, o.copy.name) = Append(ParentPath(o.at), o.copy.name)
        BY <2>5, <2>6, <3>1
      <4> QED BY <1>1, <1>3, <1>9, <3>1, <4>1 DEF ComputePath, Goes
    <3>2. CASE o.at # Root
      <4>1. Joined(folder[o.at].path, o.copy.name) = Append(ParentPath(o.at), o.copy.name)
        BY <2>5, <2>6, <3>2
      <4> QED BY <1>1, <1>3, <1>9, <2>4, <3>2, <4>1 DEF ComputePath, Goes
    <3> QED BY <3>1, <3>2
  <2>8. /\ n.stage = IF o.kind = "create" THEN "insert" ELSE "children"
        /\ n.kind = o.kind /\ n.at = o.at /\ n.id = o.id /\ n.old = o.old
        /\ n.copy = [o.copy EXCEPT !.path = Append(ParentPath(o.at), o.copy.name)]
    BY <1>3, <2>7 DEF Op
  <2>9. /\ n.copy.path = Append(ParentPath(o.at), o.copy.name) /\ n.copy.name = o.copy.name
        /\ n.copy.parent = o.copy.parent /\ n.copy.state = o.copy.state
    BY <1>3, <2>8 DEF Op, Copy
  <2>10. Aligned(n)
    BY <2>3, <2>8, <2>9 DEF Aligned
  <2>11. CASE o.kind = "create"
    BY <1>4, <2>3, <2>8, <2>9, <2>10, <2>11 DEF Fine, TreeOK, CreateOK, StagesOf
  <2>12. CASE o.kind = "update"
    BY <1>4, <2>3, <2>8, <2>9, <2>10, <2>12 DEF Fine, TreeOK, UpdateOK, StagesOf
  <2> QED BY <2>2, <2>11, <2>12
<1>10. CASE Diff(q)
  <2>1. o.stage = "diff" /\ Unwritten(o)
    BY <1>1, <1>10 DEF Diff, Unwritten
  <2>2. o.kind \in {"update", "move", "delete"}
    BY <1>4, <2>1 DEF StagesOf, Kinds
  <2>3. Live(o.id)
    BY <1>3, <2>1, <2>2 DEF RequestDistinct
  <2>4. n = [o EXCEPT !.stage = "save", !.dirty = Differs(o)]
    BY <1>1, <1>3, <1>10, <2>3 DEF Diff, Goes, Live, Exists
  <2>5. /\ n.stage = "save" /\ n.kind = o.kind /\ n.at = o.at /\ n.id = o.id
        /\ n.old = o.old /\ n.copy = o.copy /\ n.found = o.found
    BY <1>3, <2>4 DEF Op
  <2>6. CASE o.kind = "update"
    <3>1. Awaiting(o) = {} /\ Awaiting(n) = {}
      BY <2>1, <2>5 DEF Awaiting
    <3>2. /\ \A g : FinalName(n, g) = FinalName(o, g) /\ FinalPath(n, g) = FinalPath(o, g)
          /\ \A p : FinalParentPath(n, p) = FinalParentPath(o, p)
      BY <2>5, <3>1 DEF FinalName, FinalPath, FinalParentPath
    <3>3. Completable(o) => Completable(n)
      BY <2>1, <2>5, <3>1, <3>2 DEF Completable
    <3> QED BY <1>4, <2>1, <2>5, <2>6, <3>3 DEF Fine, TreeOK, UpdateOK, StagesOf
  <2>7. CASE o.kind = "move"
    BY <1>4, <2>1, <2>5, <2>7 DEF Fine, TreeOK, MoveOK, Aligned, StagesOf
  <2>8. CASE o.kind = "delete"
    BY <1>4, <2>1, <2>5, <2>8 DEF Fine, TreeOK, DeleteOK, StagesOf
  <2> QED BY <2>2, <2>6, <2>7, <2>8
<1> QED BY <1>6, <1>7, <1>8, <1>9, <1>10
-----------------------------------------------------------------------------
(* The folders below.                                                       *)

\* The place a request puts its folder in is not below the folder.
LEMMA PlaceNotBelow ==
    ASSUME TypeInv, PlainTable, Matched, SiblingsDistinct, NoCycle, FolderAssumption,
           NEW o \in Op, o.id \in Ids, Live(o.id), o.old = folder[o.id].path,
           o.copy.parent = o.at, Attached(o.at), Harmless(o)
    PROVE  /\ o.at # Root => ~IsPrefix(o.old, folder[o.at].path)
           /\ ~IsPrefix(o.old, ParentPath(o.at))
<1>1. o.at \in Ids \cup {Root} /\ o.at # Omitted
  BY DEF Op, FolderAssumption
<1>2. ASSUME o.at # Root PROVE ~IsPrefix(o.old, folder[o.at].path)
  <2>1. o.at \in Ids /\ Live(o.at)
    BY <1>1, <1>2 DEF Attached
  <2>2. o.at = folder[o.id].parent \/ \E V \in SUBSET Ids : o.at \in V /\ Avoids(V, o.id, Root)
    BY <1>1, <1>2 DEF Harmless
  <2> QED BY <2>1, <2>2, AdmittedNotBelow
<1>3. ASSUME o.at = Root PROVE ~IsPrefix(o.old, ParentPath(o.at))
  <2>1. o.old \in Seq(Plain) /\ o.old # <<>>
    BY PathTypes, AppendProperties DEF Matched
  <2> QED BY <1>3, <2>1, PrefixFacts DEF ParentPath
<1> QED BY <1>2, <1>3 DEF ParentPath

\* Renaming: what the query returns is what has to be rewritten.
LEMMA FindChildrenTree ==
    ASSUME TreeInv, NEW q \in Requests, intact', NEW n, op'[q] = n, FindChildren(q)
    PROVE  Fine(n)'
<1>1. PICK o : op[q] = o
  OBVIOUS
<1>2. UNCHANGED folder /\ intact
  BY DEF FindChildren, Collects, Goes, Ends
<1>3. /\ o \in Op /\ Fine(o) /\ folder \in [Ids -> Row] /\ op \in [Requests -> Op]
      /\ TypeInv /\ PlainTable /\ PlainOp(o) /\ FolderAssumption
      /\ NoCycle /\ SiblingsDistinct /\ RequestSafe(o)
      /\ o.stage # "idle" => RequestOK(o)
  BY <1>1, <1>2, StepFacts
<1>4. o.kind \in Kinds /\ o.stage \in StagesOf(o.kind) /\ TreeOK(o)
  BY <1>3 DEF Op, Fine
<1>5. o.stage = "children" /\ o.id \in Ids
  BY <1>1, <1>3 DEF FindChildren, Collects, RequestOK
<1> DEFINE rows == {[id |-> f, path |-> folder[f].path] : f \in Below(o.old)}
<1>14. Collects(q, Below(o.old))
  <2>1. \A ids \in Like(o.old) : ids = Below(o.old)
    BY <1>3, BelowPlain DEF PlainOp
  <2> QED BY <1>1, <2>1 DEF FindChildren
<1>6. \/ o.kind = "purge" /\ \E s \in {"removeSelf", "remove"} : n = [o EXCEPT !.stage = s, !.found = rows]
      \/ o.kind # "purge" /\ rows # {} /\ n = [o EXCEPT !.stage = "rewrite", !.found = rows]
      \/ o.kind = "update" /\ rows = {} /\ n = [o EXCEPT !.stage = "diff", !.found = rows]
      \/ o.kind \notin {"purge", "update"} /\ rows = {} /\ n = Idle
  BY <1>1, <1>3, <1>14 DEF Collects, Goes, Ends
<1>7. {row.id : row \in rows} = Below(o.old) /\ (rows = {} <=> Below(o.old) = {})
  <2>1. ASSUME NEW f \in Below(o.old) PROVE \E row \in rows : row.id = f
    <3>1. [id |-> f, path |-> folder[f].path] \in rows
      OBVIOUS
    <3>2. [id |-> f, path |-> folder[f].path].id = f
      OBVIOUS
    <3> QED BY <3>1, <3>2
  <2>2. \A row \in rows : row.id \in Below(o.old)
    OBVIOUS
  <2> HIDE DEF rows
  <2> QED BY <2>1, <2>2
<1>8. \A row \in rows : Exists(row.id) /\ row.path = folder[row.id].path
  BY DEF Below
<1> HIDE DEF rows
<1>9. o.kind \in {"update", "move", "purge"}
  BY <1>4, <1>5 DEF StagesOf, Kinds
\* The query leaves to be rewritten what was to be looked up.
<1>10. ASSUME Completable(o), n # Idle, o.kind # "purge" PROVE Completable(n)
  <2>1. /\ n.id = o.id /\ n.copy = o.copy /\ n.old = o.old /\ n.found = rows
        /\ n.stage = IF rows = {} THEN "diff" ELSE "rewrite"
    BY <1>3, <1>6, <1>10 DEF Op
  <2>2. Awaiting(n) = Awaiting(o)
    BY <1>5, <1>7, <2>1 DEF Awaiting
  <2>3. /\ \A g : FinalName(n, g) = FinalName(o, g)
        /\ \A g : FinalPath(n, g) = FinalPath(o, g)
        /\ \A p : FinalParentPath(n, p) = FinalParentPath(o, p)
    BY <2>1, <2>2 DEF FinalName, FinalPath, FinalParentPath, Rebased
  <2> QED BY <1>8, <1>10, <2>1, <2>2, <2>3 DEF Completable
<1>11. CASE o.kind = "purge"
  <2>1. n.kind = "purge" /\ n.stage \in {"removeSelf", "remove"}
    BY <1>3, <1>6, <1>11 DEF Op
  <2>2. Matched'
    BY <1>2, <1>4, <1>11, KeptTree DEF TreeOK
  <2> QED BY <1>11, <2>1, <2>2 DEF Fine, TreeOK, StagesOf
<1>12. CASE o.kind = "update"
  <2>1. UpdateOK(o) /\ Matched /\ Aligned(o) /\ Live(o.id)
    BY <1>4, <1>5, <1>12 DEF TreeOK, UpdateOK
  <2>2. Harmless(o)
    BY <1>3, <1>5, <1>12 DEF RequestSafe, Unsaved
  <2>3. o.old = folder[o.id].path /\ o.copy.parent = folder[o.id].parent
    BY <2>1 DEF UpdateOK
  <2>4. o.at # Root => ~IsPrefix(o.old, folder[o.at].path)
    BY <1>3, <1>5, <2>1, <2>2, <2>3, PlaceNotBelow DEF Aligned
  <2>5. /\ o.id \notin Below(o.old)
        /\ \A g \in Ids : Live(g) =>
               NewPath(o, g) = Append(NewParentPath(o, NewParent(o, g)), FinalName(o, g))
    BY <1>3, <1>5, <2>1, <2>3, <2>4, Rebasing
  <2>6. /\ \A g : FinalPath(o, g) = NewPath(o, g)
        /\ \A p : FinalParentPath(o, p) = NewParentPath(o, p)
        /\ \A g : NewParent(o, g) = folder[g].parent
        /\ Awaiting(o) = Below(o.old)
    BY <1>5, <2>3 DEF FinalPath, FinalParentPath, NewPath, NewParentPath, NewParent, Awaiting
  <2>7. Completable(o)
    BY <1>5, <2>1, <2>5, <2>6 DEF Completable, Matched
  <2>8. /\ n.id = o.id /\ n.copy = o.copy /\ n.old = o.old /\ n.at = o.at /\ n.kind = o.kind
        /\ n.stage \in {"diff", "rewrite"}
    BY <1>3, <1>6, <1>12 DEF Op
  <2>9. n # Idle
    BY <1>12, <2>8 DEF Idle
  <2>10. UpdateOK(n)
    BY <1>10, <1>12, <2>1, <2>7, <2>8, <2>9 DEF UpdateOK
  <2>11. Fine(n)
    BY <1>12, <2>8, <2>10 DEF Fine, TreeOK, StagesOf
  <2> QED BY <1>2, <2>11, KeptFine
<1>13. CASE o.kind = "move"
  <2>1. MoveOK(o) /\ Completable(o)
    BY <1>4, <1>5, <1>13 DEF TreeOK, MoveOK
  <2>2. CASE n # Idle
    <3>1. /\ n.id = o.id /\ n.copy = o.copy /\ n.kind = o.kind /\ n.stage = "rewrite"
      BY <1>3, <1>6, <1>13, <2>2 DEF Op
    <3>2. MoveOK(n)
      BY <1>5, <1>10, <1>13, <2>1, <2>2, <3>1 DEF MoveOK
    <3>3. Fine(n)
      BY <1>13, <3>1, <3>2 DEF Fine, TreeOK, StagesOf
    <3> QED BY <1>2, <3>3, KeptFine
  <2>3. CASE n = Idle
    <3>1. rows = {}
      <4>1. ASSUME n = [o EXCEPT !.stage = "rewrite", !.found = rows] PROVE FALSE
        <5>1. n.stage = "rewrite"
          BY <1>3, <4>1 DEF Op
        <5> QED BY <2>3, <5>1 DEF Idle
      <4> QED BY <1>6, <1>13, <4>1
    <3>2. Awaiting(o) = {}
      BY <1>5, <1>7, <3>1 DEF Awaiting
    <3>3. o.copy.path = folder[o.id].path /\ o.copy.name = folder[o.id].name
      BY <1>5, <2>1 DEF MoveOK
    <3>4. Matched'
      BY <1>2, <1>3, <1>5, <2>1, <3>2, <3>3, Completed
    <3> QED BY <2>3, <3>4, IdleFineNext
  <2> QED BY <2>2, <2>3
<1> QED BY <1>9, <1>11, <1>12, <1>13

\* One row more; what the tree is going to be stays the same.
LEMMA RewriteKeeps ==
    ASSUME TypeInv, NEW o \in Op, o.id \in Ids, o.stage = "rewrite", Completable(o),
           NEW row \in o.found, NEW m, m.id = o.id, m.copy = o.copy, m.old = o.old,
           \/ m.stage = "rewrite" /\ m.found = o.found \ {row}
           \/ m.stage \notin {"rewrite", "children"} /\ o.found \ {row} = {},
           folder' = [folder EXCEPT ![row.id].path = Rebased(o, row.path)]
    PROVE  /\ Completable(m)'
           /\ folder'[o.id] = folder[o.id] /\ (Live(o.id)' <=> Live(o.id))
<1>1. row.id \in Ids /\ row.path = folder[row.id].path /\ row.id # o.id
  BY DEF Completable, Awaiting, Op
<1>2. /\ folder'[row.id] = [folder[row.id] EXCEPT !.path = Rebased(o, row.path)]
      /\ \A g \in Ids \ {row.id} : folder'[g] = folder[g]
  BY <1>1 DEF TypeInv, TypeOK
<1>3. /\ folder'[row.id].path = Rebased(o, row.path)
      /\ folder'[row.id].name = folder[row.id].name
      /\ folder'[row.id].parent = folder[row.id].parent
      /\ folder'[row.id].state = folder[row.id].state
  BY <1>1, <1>2 DEF TypeInv, TypeOK, Row
<1>4. \A g \in Ids : /\ Live(g)' <=> Live(g)
                     /\ Exists(g)' <=> Exists(g)
                     /\ folder'[g].parent = folder[g].parent /\ folder'[g].name = folder[g].name
  BY <1>2, <1>3 DEF Live, Exists
<1>5. \A r \in o.found : r.id = row.id => r = row
  <2>1. \A r \in o.found : r \in [id : Ids, path : Path] /\ r.path = folder[r.id].path
    BY DEF Op, Completable
  <2> QED BY <2>1
<1>6. Awaiting(m)' = Awaiting(o) \ {row.id} /\ row.id \in Awaiting(o)
  <2>1. Awaiting(m)' = Awaiting(m)
    BY DEF Awaiting, Below
  <2> QED BY <1>5 DEF Awaiting
<1>7. \A g \in Ids : FinalPath(m, g)' = FinalPath(o, g)
  <2>1. FinalPath(m, row.id)' = FinalPath(o, row.id)
    BY <1>1, <1>3, <1>6 DEF FinalPath
  <2>2. ASSUME NEW g \in Ids \ {row.id} PROVE FinalPath(m, g)' = FinalPath(o, g)
    <3>1. folder'[g] = folder[g] /\ (g \in Awaiting(m)' <=> g \in Awaiting(o))
      BY <1>2, <1>6
    <3>2. Rebased(m, folder[g].path) = Rebased(o, folder[g].path)
      BY DEF Rebased
    <3>3. FinalPath(m, g)' = IF g \in Awaiting(m)' THEN Rebased(m, folder'[g].path)
                             ELSE IF g = m.id THEN m.copy.path ELSE folder'[g].path
      BY DEF FinalPath, Rebased
    <3> QED BY <3>1, <3>2, <3>3 DEF FinalPath
  <2> QED BY <2>1, <2>2
<1>8. \A g \in Ids : FinalName(m, g)' = FinalName(o, g)
  BY <1>4 DEF FinalName
<1>9. m.id \notin Awaiting(m)'
  BY <1>6 DEF Completable
<1>10. m.stage = "rewrite" => \A r \in m.found : Exists(r.id)' /\ r.path = folder'[r.id].path
  <2>1. \A r \in o.found : r.id \in Ids /\ Exists(r.id) /\ r.path = folder[r.id].path
    BY DEF Op, Completable
  <2> QED BY <1>2, <1>4, <1>5, <2>1
<1>11. ASSUME NEW g \in Ids, Live(g)', NEW p, p = folder'[g].parent
       PROVE  /\ Attached(p)'
              /\ FinalPath(m, g)' = Append(FinalParentPath(m, p)', FinalName(m, g)')
  <2>1. Live(g) /\ p = folder[g].parent /\ p \in Ids \cup {Root}
    BY <1>4, <1>11, ParentTypes
  <2>2. Attached(p) /\ FinalPath(o, g) = Append(FinalParentPath(o, p), FinalName(o, g))
    BY <2>1 DEF Completable
  <2>3. Attached(p)'
    BY <1>4, <2>1, <2>2 DEF Attached
  <2>4. FinalParentPath(m, p)' = FinalParentPath(o, p)
    BY <1>7, <2>1 DEF FinalParentPath
  <2> QED BY <1>7, <1>8, <2>2, <2>3, <2>4
<1>12. Completable(m)'
  BY <1>9, <1>10, <1>11 DEF Completable
<1> QED BY <1>1, <1>2, <1>4, <1>12

LEMMA RewriteTree ==
    ASSUME TreeInv, NEW q \in Requests, intact', NEW n, op'[q] = n,
           NEW row \in op[q].found, Rewrite(q, row)
    PROVE  Fine(n)'
<1>1. PICK o : op[q] = o
  OBVIOUS
<1>2. o.stage = "rewrite" /\ op \in [Requests -> Op]
  BY <1>1 DEF Rewrite, TreeInv, ForestInv, TypeInv, TypeOK
<1>3. intact
  BY DEF Rewrite, Goes, Ends, Refused, Aborts
<1>4. /\ o \in Op /\ Fine(o) /\ folder \in [Ids -> Row] /\ TypeInv /\ PlainTable /\ o.id \in Ids
  BY <1>1, <1>2, <1>3, StepFacts DEF RequestOK
<1>5. o.kind \in {"update", "move"} /\ TreeOK(o) /\ HalfWay(o)
  BY <1>2, <1>4 DEF Op, Fine, StagesOf, Kinds, HalfWay
<1>6. ~Refused(q)
  BY <1>1, <1>5 DEF Refused, Aborts
<1>7. Completable(o) /\ Live(o.id)
  BY <1>2, <1>5 DEF TreeOK, UpdateOK, MoveOK
<1>8. row \in o.found /\ Exists(row.id)
  BY <1>1, <1>2, <1>7 DEF Completable
<1>9. folder' = [folder EXCEPT ![row.id].path = Rebased(o, row.path)]
  BY <1>1, <1>6, <1>8 DEF Rewrite
<1>10. \/ o.found \ {row} # {} /\ n = [o EXCEPT !.found = o.found \ {row}]
       \/ o.found \ {row} = {} /\ o.kind = "update" /\ n = [o EXCEPT !.found = {}, !.stage = "diff"]
       \/ o.found \ {row} = {} /\ o.kind = "move" /\ n = Idle
  BY <1>1, <1>2, <1>5, <1>6 DEF Rewrite, Goes, Ends
<1>11. CASE n # Idle
  <2>1. /\ n.id = o.id /\ n.copy = o.copy /\ n.old = o.old /\ n.at = o.at /\ n.kind = o.kind
        /\ \/ n.stage = "rewrite" /\ n.found = o.found \ {row}
           \/ n.stage = "diff" /\ o.found \ {row} = {} /\ o.kind = "update"
    <3>1. CASE n = [o EXCEPT !.found = o.found \ {row}]
      BY <1>2, <1>4, <3>1 DEF Op
    <3>2. CASE /\ o.found \ {row} = {} /\ o.kind = "update"
               /\ n = [o EXCEPT !.found = {}, !.stage = "diff"]
      BY <1>4, <3>2 DEF Op
    <3> QED BY <1>10, <1>11, <3>1, <3>2
  <2>2. Completable(n)' /\ folder'[o.id] = folder[o.id] /\ (Live(o.id)' <=> Live(o.id))
    BY <1>2, <1>4, <1>7, <1>8, <1>9, <2>1, RewriteKeeps
  <2>3. CASE o.kind = "update"
    <3>1. UpdateOK(o)
      BY <1>5, <2>3 DEF TreeOK
    <3>2. UpdateOK(n)'
      BY <1>7, <2>1, <2>2, <3>1 DEF UpdateOK
    <3> QED BY <2>1, <2>3, <3>2 DEF Fine, TreeOK, StagesOf
  <2>4. CASE o.kind = "move"
    <3>1. MoveOK(o) /\ n.stage = "rewrite"
      BY <1>5, <2>1, <2>4 DEF TreeOK
    <3>2. MoveOK(n)'
      BY <1>2, <1>7, <2>1, <2>2, <3>1 DEF MoveOK
    <3> QED BY <2>1, <2>4, <3>1, <3>2 DEF Fine, TreeOK, StagesOf
  <2> QED BY <1>5, <2>3, <2>4
<1>12. CASE n = Idle
  <2>1. o.found \ {row} = {} /\ o.kind = "move"
    <3>1. ASSUME n = [o EXCEPT !.found = o.found \ {row}] PROVE FALSE
      <4>1. n.stage = "rewrite"
        BY <1>2, <1>4, <3>1 DEF Op
      <4> QED BY <1>12, <4>1 DEF Idle
    <3>2. ASSUME n = [o EXCEPT !.found = {}, !.stage = "diff"] PROVE FALSE
      <4>1. n.stage = "diff"
        BY <1>4, <3>2 DEF Op
      <4> QED BY <1>12, <4>1 DEF Idle
    <3> QED BY <1>10, <3>1, <3>2
  <2>2. PICK m : m = [o EXCEPT !.stage = "diff"]
    OBVIOUS
  <2>3. m.id = o.id /\ m.copy = o.copy /\ m.old = o.old /\ m.stage = "diff"
    BY <1>4, <2>2 DEF Op
  <2>4. Completable(m)' /\ folder'[o.id] = folder[o.id] /\ (Live(o.id)' <=> Live(o.id))
    BY <1>2, <1>4, <1>7, <1>8, <1>9, <2>1, <2>3, RewriteKeeps
  <2>5. MoveOK(o)
    BY <1>5, <2>1 DEF TreeOK
  <2>6. folder'[o.id].path = o.copy.path /\ folder'[o.id].name = o.copy.name
    BY <1>2, <2>4, <2>5 DEF MoveOK
  <2>7. Awaiting(m)' = {}
    BY <2>3 DEF Awaiting
  <2>8. /\ \A g : FinalPath(m, g)' = folder'[g].path
        /\ \A g : FinalName(m, g)' = folder'[g].name
    BY <2>3, <2>6, <2>7 DEF FinalPath, FinalName
  <2>9. ASSUME NEW g \in Ids, NEW p, Live(g)', folder'[g].parent = p
        PROVE  /\ p = Root \/ Live(p)'
               /\ folder'[g].path = Append(IF p = Root THEN <<>> ELSE folder'[p].path, folder'[g].name)
    <3>1. Attached(p)' /\ FinalPath(m, g)' = Append(FinalParentPath(m, p)', FinalName(m, g)')
      BY <2>4, <2>9 DEF Completable
    <3>2. FinalParentPath(m, p)' = IF p = Root THEN <<>> ELSE FinalPath(m, p)'
      BY DEF FinalParentPath
    <3> QED BY <2>8, <3>1, <3>2 DEF Attached
  <2>10. Matched'
    BY <2>9, MatchedNext
  <2> QED BY <1>12, <2>10, IdleFineNext
<1> QED BY <1>11, <1>12
-----------------------------------------------------------------------------
(* The steps that write, mark or remove the folder itself.                  *)

LEMMA InsertTree ==
    ASSUME TreeInv, NEW q \in Requests, intact', NEW n, op'[q] = n, Insert(q)
    PROVE  Fine(n)'
<1>1. PICK o : op[q] = o
  OBVIOUS
<1>2. intact
  BY DEF Insert, Saved, Goes, Ends
<1>3. /\ o \in Op /\ Fine(o) /\ folder \in [Ids -> Row] /\ op \in [Requests -> Op]
      /\ TypeInv /\ PlainTable /\ PlainOp(o) /\ FolderAssumption
      /\ o.stage # "idle" => RequestOK(o)
  BY <1>1, <1>2, StepFacts
<1>4. o.stage = "insert" /\ o.id \in Ids
  BY <1>1, <1>3 DEF Insert, RequestOK
<1>5. o.kind = "create" /\ TreeOK(o)
  BY <1>3, <1>4 DEF Op, Fine, StagesOf, Kinds
<1>6. Matched /\ Aligned(o) /\ o.at \in Ids \cup {Root}
  BY <1>3, <1>4, <1>5 DEF TreeOK, CreateOK, Op
<1>7. n = Idle
  BY <1>1, <1>3, <1>5 DEF Insert, Saved, Goes, Ends
<1>8. CASE UNCHANGED folder
  BY <1>6, <1>7, <1>8, KeptTree, IdleFineNext
<1>9. CASE ~UNCHANGED folder
  <2>1. /\ ~Exists(o.id)
        /\ folder' = [folder EXCEPT ![o.id] = [o.copy EXCEPT !.parent = o.at]]
    BY <1>1, <1>3, <1>6, <1>9 DEF Insert, Aligned, FolderAssumption
  <2>2. /\ folder'[o.id].name = o.copy.name /\ folder'[o.id].parent = o.at
        /\ folder'[o.id].path = o.copy.path
    BY <1>3, <1>4, <2>1 DEF Op, Copy
  <2>3. \A g \in Ids \ {o.id} : folder'[g] = folder[g]
    BY <1>3, <2>1
  <2>4. o.at # o.id /\ \A g \in Ids : Live(g) => g # o.id /\ folder[g].parent # o.id
    BY <1>4, <1>6, <2>1, <1>3 DEF Aligned, Attached, Matched, Live, Exists, FolderAssumption
  <2>5. ASSUME NEW g \in Ids, NEW p, Live(g)', folder'[g].parent = p
        PROVE  /\ p = Root \/ Live(p)'
               /\ folder'[g].path = Append(IF p = Root THEN <<>> ELSE folder'[p].path, folder'[g].name)
    <3>1. CASE g = o.id
      BY <1>6, <2>2, <2>3, <2>4, <2>5, <3>1 DEF Aligned, Attached, ParentPath, Live
    <3>2. CASE g # o.id
      <4>1. Live(g) /\ folder[g].parent = p /\ p \in Ids \cup {Root} /\ p # o.id
        BY <1>3, <2>3, <2>4, <2>5, <3>2, PathTypes DEF Live
      <4> QED BY <1>6, <2>3, <3>2, <4>1 DEF Matched, Attached, ParentPath, Live
    <3> QED BY <3>1, <3>2
  <2>6. Matched'
    BY <2>5, MatchedNext
  <2> QED BY <1>7, <2>6, IdleFineNext
<1> QED BY <1>8, <1>9

\* What is below the deleted folder is marked with it; what is not does not
\* hang below something that is.
LEMMA SubtreeTree ==
    ASSUME TreeInv, NEW q \in Requests, intact', NEW n, op'[q] = n, Subtree(q)
    PROVE  Fine(n)'
<1>1. PICK o : op[q] = o
  OBVIOUS
<1>2. intact
  BY DEF Subtree, Marks, Goes, Ends
<1>3. /\ o \in Op /\ Fine(o) /\ folder \in [Ids -> Row] /\ op \in [Requests -> Op]
      /\ TypeInv /\ PlainTable /\ PlainOp(o) /\ FolderAssumption
      /\ o.stage # "idle" => RequestOK(o)
  BY <1>1, <1>2, StepFacts
<1>4. o.stage = "subtree" /\ o.id \in Ids /\ o.old \in Seq(Plain)
  BY <1>1, <1>3 DEF Subtree, Marks, RequestOK, PlainOp
<1>5. o.kind = "delete" /\ TreeOK(o)
  BY <1>3, <1>4 DEF Op, Fine, StagesOf, Kinds
<1>6. Deletable(o)
  BY <1>4, <1>5 DEF TreeOK, DeleteOK
<1>7. n = Idle
  BY <1>1, <1>3 DEF Subtree, Marks, Goes, Ends
<1>8. \A f \in Ids : folder'[f] = IF f \in Below(o.old) /\ Live(f)
                                  THEN [folder[f] EXCEPT !.state = "deleted"] ELSE folder[f]
  <2>1. \A ids \in Like(o.old) : ids = Below(o.old)
    BY <1>3, <1>4, BelowPlain
  <2> QED BY <1>1, <2>1 DEF Subtree, Marks
<1>9. \A f \in Ids : /\ folder'[f].path = folder[f].path
                     /\ folder'[f].parent = folder[f].parent /\ folder'[f].name = folder[f].name
                     /\ Live(f)' <=> Live(f) /\ f \notin Below(o.old)
  BY <1>3, <1>8 DEF Row, Live
<1>10. ASSUME NEW g \in Ids, NEW p, Live(g)', folder'[g].parent = p
       PROVE  /\ p = Root \/ Live(p)'
              /\ folder'[g].path = Append(IF p = Root THEN <<>> ELSE folder'[p].path, folder'[g].name)
  <2>1. /\ Live(g) /\ g \notin Below(o.old) /\ folder[g].parent = p /\ p \in Ids \cup {Root}
        /\ ParentPath(p) \in Seq(Plain) /\ folder[g].name \in Plain
    BY <1>3, <1>9, <1>10, PathTypes
  <2>2. /\ Attached(p) \/ p = o.id
        /\ folder[g].path = Append(ParentPath(p), folder[g].name)
    BY <1>6, <2>1 DEF Deletable
  <2>3. ~IsPrefix(o.old, ParentPath(p))
    <3>1. ~IsStrictPrefix(o.old, folder[g].path)
      BY <1>3, <1>4, <2>1, BelowPlain DEF Live, Exists
    <3> QED BY <1>4, <2>1, <2>2, <3>1, PrefixAppend
  <2>4. p # o.id
    <3>1. ASSUME p = o.id PROVE FALSE
      <4>1. ParentPath(p) = o.old
        BY <1>3, <1>4, <1>6, <3>1 DEF Deletable, ParentPath, FolderAssumption
      <4> QED BY <1>4, <2>3, <4>1, PrefixFacts
    <3> QED BY <3>1
  <2>5. p # Root => Live(p) /\ p \in Ids /\ p \notin Below(o.old)
    <3>1. ASSUME p # Root PROVE Live(p) /\ p \in Ids /\ ParentPath(p) = folder[p].path
      BY <2>1, <2>2, <2>4, <3>1 DEF Attached, ParentPath
    <3>2. ASSUME p # Root PROVE ~IsStrictPrefix(o.old, folder[p].path)
      BY <2>3, <3>1, <3>2 DEF IsStrictPrefix
    <3> QED BY <3>1, <3>2 DEF Below
  <2> QED BY <1>9, <2>1, <2>2, <2>5 DEF ParentPath
<1>11. Matched'
  BY <1>10, MatchedNext
<1> QED BY <1>7, <1>11, IdleFineNext

LEMMA RemoveTree ==
    ASSUME TreeInv, NEW q \in Requests, intact', NEW n, op'[q] = n,
           RemoveChildren(q) \/ RemoveSelf(q)
    PROVE  Fine(n)'
<1>1. PICK o : op[q] = o
  OBVIOUS
<1>2. intact
  BY DEF RemoveChildren, RemoveSelf, Removes, Goes, Ends
<1>3. /\ o \in Op /\ Fine(o) /\ folder \in [Ids -> Row] /\ op \in [Requests -> Op]
      /\ TypeInv /\ PlainTable /\ PlainOp(o) /\ FolderAssumption
  BY <1>1, <1>2, StepFacts
<1>4. o.kind = "purge" /\ TreeOK(o)
  BY <1>1, <1>3 DEF RemoveChildren, RemoveSelf, Op, Fine, StagesOf, Kinds
<1>5. Matched
  BY <1>4 DEF TreeOK
<1>6. n = Idle \/ (n.kind = "purge" /\ n.stage = "removeSelf")
  <2>1. n = Idle \/ n = [o EXCEPT !.stage = "removeSelf", !.found = {}]
    BY <1>1, <1>3 DEF RemoveChildren, RemoveSelf, Removes, Goes, Ends
  <2>2. n = [o EXCEPT !.stage = "removeSelf", !.found = {}] => n.kind = "purge" /\ n.stage = "removeSelf"
    BY <1>3, <1>4 DEF Op
  <2> QED BY <2>1, <2>2
<1>7. PICK S : /\ S \subseteq Ids
               /\ \/ UNCHANGED folder
                  \/ /\ Unreferenced(S)
                     /\ folder' = [f \in Ids |-> IF f \in S /\ Exists(f)
                                                 THEN [Blank EXCEPT !.state = "purged"] ELSE folder[f]]
  <2>1. CASE RemoveChildren(q)
    <3>1. {row.id : row \in o.found} \subseteq Ids
      BY <1>3 DEF Op
    <3> QED BY <1>1, <2>1, <3>1 DEF RemoveChildren, Removes
  <2>2. CASE RemoveSelf(q)
    <3>1. o.id \in Ids
      BY <1>1, <1>2, <2>2, StepFacts DEF RemoveSelf, RequestOK
    <3> QED BY <1>1, <2>2, <3>1 DEF RemoveSelf, Removes
  <2> QED BY <2>1, <2>2
<1>8. Matched'
  <2>1. CASE UNCHANGED folder
    BY <1>5, <2>1, KeptTree
  <2>2. CASE /\ Unreferenced(S)
             /\ folder' = [f \in Ids |-> IF f \in S /\ Exists(f)
                                         THEN [Blank EXCEPT !.state = "purged"] ELSE folder[f]]
    <3>1. [Blank EXCEPT !.state = "purged"].state = "purged"
      BY DEF Blank
    <3>2. \A f \in Ids : /\ Live(f)' => Live(f) /\ f \notin S
                         /\ f \notin S => folder'[f] = folder[f]
      BY <2>2, <3>1 DEF Live, Exists
    <3>3. ASSUME NEW g \in Ids, NEW p, Live(g)', folder'[g].parent = p
          PROVE  /\ p = Root \/ Live(p)'
                 /\ folder'[g].path = Append(IF p = Root THEN <<>> ELSE folder'[p].path, folder'[g].name)
      <4>1. Live(g) /\ g \notin S /\ folder'[g] = folder[g]
        BY <3>2, <3>3
      <4>2. folder[g].parent = p /\ p \in Ids \cup {Root} /\ p \notin S
        BY <1>3, <2>2, <3>3, <4>1, PathTypes DEF Unreferenced, Live, Exists
      <4>3. Attached(p) /\ folder[g].path = Append(ParentPath(p), folder[g].name)
        BY <1>5, <4>1, <4>2 DEF Matched
      <4> QED BY <3>2, <4>1, <4>2, <4>3 DEF Attached, ParentPath, Live
    <3> QED BY <3>3, MatchedNext
  <2> QED BY <1>7, <2>1, <2>2
<1>9. CASE n = Idle
  BY <1>8, <1>9, IdleFineNext
<1>10. CASE n.kind = "purge" /\ n.stage = "removeSelf"
  BY <1>8, <1>10 DEF Fine, TreeOK, StagesOf
<1> QED BY <1>6, <1>9, <1>10

\* What save does to the row, when it is not refused.
LEMMA SaveWrites ==
    ASSUME TypeInv, NEW q \in Requests, NEW o, op[q] = o, Save(q), ~Refused(q),
           RequestOK(o), RequestDistinct(o)
    PROVE  /\ Saved(q)
           /\ \A g \in Ids \ {o.id} : folder'[g] = folder[g]
           /\ folder'[o.id].name = o.copy.name /\ folder'[o.id].path = o.copy.path
           /\ folder'[o.id].state = o.copy.state /\ folder'[o.id].parent = Place(o)
<1>1. o \in Op /\ folder \in [Ids -> Row] /\ o.id \in Ids /\ o.stage = "save" /\ Live(o.id)
  <2>1. o.stage = "save"
    BY DEF Save
  <2> QED BY <2>1 DEF TypeInv, TypeOK, RequestOK, RequestDistinct, Save, Saved, Goes, Live, Exists
<1>2. Saved(q) /\ folder' = [folder EXCEPT ![o.id] = Written(@, o)]
  BY <1>1 DEF Save, Live, Exists
<1>3. folder'[o.id] = Written(folder[o.id], o) /\ \A g \in Ids \ {o.id} : folder'[g] = folder[g]
  BY <1>1, <1>2
<1>4. /\ folder'[o.id].name = IF "name" \in o.dirty THEN o.copy.name ELSE folder[o.id].name
      /\ folder'[o.id].parent = IF "parent" \in o.dirty THEN o.copy.parent ELSE folder[o.id].parent
      /\ folder'[o.id].path = IF "path" \in o.dirty THEN o.copy.path ELSE folder[o.id].path
      /\ folder'[o.id].state = IF "state" \in o.dirty THEN o.copy.state ELSE folder[o.id].state
  BY <1>3 DEF Written
<1>5. \A c \in Columns \ o.dirty :
          o.copy[c] = folder[o.id][c] \/ (c = "parent" /\ o.copy.parent = Omitted)
  BY <1>1 DEF RequestDistinct
<1>6. /\ "name" \notin o.dirty => o.copy.name = folder[o.id].name
      /\ "path" \notin o.dirty => o.copy.path = folder[o.id].path
      /\ "state" \notin o.dirty => o.copy.state = folder[o.id].state
      /\ "parent" \notin o.dirty => Place(o) = folder[o.id].parent
  BY <1>5 DEF Columns, Place
<1>7. "parent" \in o.dirty => Place(o) = o.copy.parent
  BY DEF RequestOK, Place
<1> QED BY <1>2, <1>3, <1>4, <1>6, <1>7

LEMMA SaveTree ==
    ASSUME TreeInv, NEW q \in Requests, intact', NEW n, op'[q] = n, Save(q)
    PROVE  Fine(n)'
<1>1. PICK o : op[q] = o
  OBVIOUS
<1>2. intact
  BY DEF Save, Saved, Goes, Ends, Refused, Aborts
<1>3. /\ o \in Op /\ Fine(o) /\ folder \in [Ids -> Row] /\ op \in [Requests -> Op]
      /\ TypeInv /\ PlainTable /\ PlainOp(o) /\ FolderAssumption
      /\ NoCycle /\ SiblingsDistinct /\ RequestSafe(o)
      /\ Unwritten(o) => RequestDistinct(o)
      /\ o.stage # "idle" => RequestOK(o)
  BY <1>1, <1>2, StepFacts
<1>4. o.stage = "save" /\ RequestOK(o) /\ RequestDistinct(o) /\ o.id \in Ids
  BY <1>1, <1>3 DEF Save, Unwritten, RequestOK
<1>5. o.kind \in {"update", "move", "delete"} /\ TreeOK(o) /\ Live(o.id)
  BY <1>3, <1>4 DEF Op, Fine, StagesOf, Kinds, RequestDistinct
<1>6. CASE Refused(q)
  <2>1. n = Idle /\ ~HalfWay(o) /\ UNCHANGED folder
    <3>1. UNCHANGED folder
      <4>1. ASSUME Saved(q) PROVE n # Idle \/ o.kind = "update"
        <5>1. ASSUME o.kind # "update" PROVE n.stage \in {"children", "subtree"}
          <6>1. n = [o EXCEPT !.stage = "children"] \/ n = [o EXCEPT !.stage = "subtree"]
            BY <1>1, <1>3, <1>5, <4>1, <5>1 DEF Saved, Goes
          <6> QED BY <1>3, <6>1 DEF Op
        <5> QED BY <5>1 DEF Idle
      <4>2. n = Idle
        BY <1>3, <1>6 DEF Refused, Aborts
      <4>3. o.kind # "update"
        BY <1>1, <1>4, <1>6 DEF Refused, Aborts, HalfWay
      <4> QED BY <4>1, <4>2, <4>3 DEF Save
    <3> QED BY <1>1, <1>3, <1>6, <3>1 DEF Refused, Aborts
  <2>2. Matched'
    BY <1>3, <2>1, WholeTree, KeptTree
  <2> QED BY <2>1, <2>2, IdleFineNext
<1>7. CASE ~Refused(q)
  <2>1. /\ Saved(q)
        /\ \A g \in Ids \ {o.id} : folder'[g] = folder[g]
        /\ folder'[o.id].name = o.copy.name /\ folder'[o.id].path = o.copy.path
        /\ folder'[o.id].state = o.copy.state /\ folder'[o.id].parent = Place(o)
    BY <1>1, <1>3, <1>4, <1>7, SaveWrites
  \* Renaming: this was the last write.
  <2>2. CASE o.kind = "update"
    <3>1. /\ Completable(o) /\ Awaiting(o) = {} /\ o.copy.parent = folder[o.id].parent
          /\ o.copy.state = "live"
      BY <1>4, <1>5, <2>2 DEF TreeOK, UpdateOK, Awaiting
    <3>2. Place(o) = folder[o.id].parent /\ folder[o.id].state = "live"
      BY <1>5, <3>1 DEF Place, Live
    <3>3. Matched'
      BY <1>3, <1>4, <2>1, <3>1, <3>2, Completed
    <3>4. n = Idle
      BY <1>1, <1>3, <2>1, <2>2 DEF Saved, Goes, Ends
    <3> QED BY <3>3, <3>4, IdleFineNext
  \* Moving: the first write; what is below the old path has to follow.
  <2>3. CASE o.kind = "move"
    <3>1. /\ Matched /\ o.old = folder[o.id].path /\ Aligned(o) /\ o.copy.state = "live"
          /\ o.copy.name = folder[o.id].name
      BY <1>4, <1>5, <2>3 DEF TreeOK, MoveOK
    <3>2. /\ o.copy.parent = o.at /\ Attached(o.at) /\ Harmless(o)
          /\ o.copy.path = Append(ParentPath(o.at), o.copy.name)
      BY <1>3, <1>4, <3>1 DEF Aligned, RequestSafe, Unsaved
    <3>3. /\ o.at # Root => ~IsPrefix(o.old, folder[o.at].path)
          /\ ~IsPrefix(o.old, ParentPath(o.at))
      BY <1>3, <1>4, <1>5, <3>1, <3>2, PlaceNotBelow
    <3>4. /\ o.id \notin Below(o.old)
          /\ \A g \in Ids : Live(g) =>
                 NewPath(o, g) = Append(NewParentPath(o, NewParent(o, g)), FinalName(o, g))
      BY <1>3, <1>4, <1>5, <3>1, <3>3, Rebasing
    <3>5. o.at \in Ids \cup {Root} /\ Place(o) = o.at
      BY <1>3, <3>2 DEF Op, Place, FolderAssumption
    <3>6. \A g \in Ids : /\ Live(g)' <=> Live(g)
                         /\ Exists(g)' <=> Exists(g)
                         /\ folder'[g].parent = NewParent(o, g)
                         /\ folder'[g].name = folder[g].name
      BY <1>5, <2>1, <3>1, <3>2, <3>5 DEF Live, Exists, NewParent
    <3>7. ~IsStrictPrefix(o.old, folder'[o.id].path)
      <4>1. /\ o.old \in Seq(Plain) /\ o.copy.name \in Plain /\ ParentPath(o.at) \in Seq(Plain)
        BY <1>3, <3>2, <3>5, PathTypes, EmptySeq DEF PlainOp, PlainCopy, ParentPath
      <4> QED BY <2>1, <3>2, <3>3, <4>1, PrefixAppend
    <3>8. Below(o.old)' = Below(o.old)
      BY <2>1, <3>4, <3>6, <3>7 DEF Below
    <3>9. n = [o EXCEPT !.stage = "children"]
      BY <1>1, <1>3, <2>1, <2>3 DEF Saved, Goes
    <3>10. /\ n.stage = "children" /\ n.kind = "move" /\ n.id = o.id /\ n.copy = o.copy
           /\ n.old = o.old /\ n.at = o.at
      BY <1>3, <2>3, <3>9 DEF Op
    <3>11. Awaiting(n)' = Below(o.old)
      BY <3>8, <3>10 DEF Awaiting
    <3>12. \A g \in Ids : FinalPath(n, g)' = NewPath(o, g)
      <4>1. \A g : FinalPath(n, g)' = IF g \in Awaiting(n)' THEN Rebased(n, folder'[g].path)
                                      ELSE IF g = n.id THEN n.copy.path ELSE folder'[g].path
        BY DEF FinalPath, Rebased
      <4>2. \A path : Rebased(n, path) = Rebased(o, path)
        BY <3>10 DEF Rebased
      <4> QED BY <2>1, <3>4, <3>10, <3>11, <4>1, <4>2 DEF NewPath
    <3>13. \A g \in Ids : FinalName(n, g)' = FinalName(o, g)
      BY <3>6, <3>10 DEF FinalName
    <3>14. ASSUME NEW g \in Ids, Live(g)', NEW p, p = folder'[g].parent
           PROVE  /\ Attached(p)'
                  /\ FinalPath(n, g)' = Append(FinalParentPath(n, p)', FinalName(n, g)')
      <4>1. Live(g) /\ p = NewParent(o, g) /\ p \in Ids \cup {Root}
        BY <1>3, <3>2, <3>5, <3>6, <3>14, PathTypes DEF NewParent
      <4>2. Attached(p)
        BY <3>1, <3>2, <4>1 DEF NewParent, Matched
      <4>3. Attached(p)'
        BY <3>6, <4>1, <4>2 DEF Attached
      <4>4. FinalParentPath(n, p)' = NewParentPath(o, p)
        BY <3>12, <4>1 DEF FinalParentPath, NewParentPath
      <4> QED BY <3>4, <3>12, <3>13, <4>1, <4>3, <4>4
    <3>15. Completable(n)'
      BY <3>4, <3>10, <3>11, <3>14 DEF Completable
    <3>16. MoveOK(n)'
      BY <1>5, <2>1, <3>1, <3>6, <3>10, <3>15, <1>4 DEF MoveOK
    <3> QED BY <3>10, <3>16 DEF Fine, TreeOK, StagesOf
  \* Deleting: what is below has to be marked yet.
  <2>4. CASE o.kind = "delete"
    <3>1. /\ Matched /\ o.old = folder[o.id].path
          /\ o.copy = [folder[o.id] EXCEPT !.state = "deleted"]
      BY <1>4, <1>5, <2>4 DEF TreeOK, DeleteOK
    <3>2. /\ o.copy.name = folder[o.id].name /\ o.copy.path = folder[o.id].path
          /\ o.copy.parent = folder[o.id].parent /\ o.copy.state = "deleted"
      BY <1>3, <1>4, <3>1 DEF Row
    <3>3. Place(o) = folder[o.id].parent
      BY <3>2 DEF Place
    <3>4. \A g \in Ids : /\ Live(g)' <=> Live(g) /\ g # o.id
                         /\ folder'[g].parent = folder[g].parent
                         /\ folder'[g].name = folder[g].name /\ folder'[g].path = folder[g].path
      BY <2>1, <3>2, <3>3 DEF Live
    <3>5. n = [o EXCEPT !.stage = "subtree"]
      BY <1>1, <1>3, <2>1, <2>4 DEF Saved, Goes
    <3>6. n.stage = "subtree" /\ n.kind = "delete" /\ n.id = o.id /\ n.old = o.old
      BY <1>3, <2>4, <3>5 DEF Op
    <3>7. ASSUME NEW g \in Ids, Live(g)', NEW p, p = folder'[g].parent
          PROVE  /\ Attached(p)' \/ p = n.id
                 /\ folder'[g].path = Append(ParentPath(p)', folder'[g].name)
      <4>1. Live(g) /\ folder[g].parent = p /\ p \in Ids \cup {Root}
        BY <1>3, <3>4, <3>7, PathTypes
      <4>2. Attached(p) /\ folder[g].path = Append(ParentPath(p), folder[g].name)
        BY <3>1, <4>1 DEF Matched
      <4>3. Attached(p)' \/ p = n.id
        BY <3>4, <3>6, <4>1, <4>2 DEF Attached
      <4>4. ParentPath(p)' = ParentPath(p)
        BY <3>4, <4>1 DEF ParentPath
      <4> QED BY <3>4, <4>2, <4>3, <4>4
    <3>8. folder'[n.id].state = "deleted" /\ folder'[n.id].path = n.old
      BY <2>1, <3>1, <3>2, <3>6
    <3>9. Deletable(n)'
      BY <3>7, <3>8 DEF Deletable
    <3> QED BY <3>6, <3>9 DEF Fine, TreeOK, DeleteOK, StagesOf
  <2> QED BY <1>5, <2>2, <2>3, <2>4
<1> QED BY <1>6, <1>7
-----------------------------------------------------------------------------
(* The tree as a whole.                                                     *)

\* Whatever the only request does next leaves it and the tree as they should be.
LEMMA RequestTree ==
    ASSUME TreeInv, NEW q \in Requests, intact', NEW n, op'[q] = n,
           Starts(q) \/ Continues(q) \/ Fails(q)
    PROVE  Fine(n)'
<1>1. CASE Starts(q)
  BY <1>1, StartsTree, KeptFine
<1>2. CASE FindParent(q) \/ Walk(q) \/ Check(q) \/ ComputePath(q) \/ Diff(q)
  BY <1>2, ReadsTree, KeptFine
<1>3. CASE Fails(q)
  <2>1. PICK o : op[q] = o
    OBVIOUS
  <2>2. intact /\ ~HalfWay(o) /\ UNCHANGED folder
    BY <1>3, <2>1 DEF Fails, Aborts
  <2>3. o \in Op /\ Fine(o) /\ op \in [Requests -> Op]
    BY <2>1, <2>2, StepFacts
  <2>4. n = Idle
    BY <1>3, <2>3 DEF Fails, Aborts
  <2>5. Matched'
    BY <2>2, <2>3, WholeTree, KeptTree
  <2> QED BY <2>4, <2>5, IdleFineNext
<1> QED BY <1>1, <1>2, <1>3, FindChildrenTree, RewriteTree, InsertTree, SaveTree, SubtreeTree,
           RemoveTree DEF Continues

LEMMA TreeInit == Init => TreeInv
<1> SUFFICES ASSUME Init PROVE TreeInv
  OBVIOUS
<1>1. \A f \in Ids : ~Live(f)
  BY DEF Init, Blank, Live
<1>2. Matched
  BY <1>1 DEF Matched
<1>3. ForestInv
  BY ForestInit
<1>4. SiblingInv /\ PlainInv
  BY SiblingInit, PlainInit
<1>5. \A q \in Requests : op[q] = Idle
  BY DEF Init
<1>6. Fine(Idle)
  BY <1>2, IdleFine
<1> QED BY <1>2, <1>3, <1>4, <1>5, <1>6 DEF TreeInv, Fine

LEMMA TreeStep ==
    ASSUME \A p, q \in Requests : p = q, TreeInv, [Next]_vars
    PROVE  TreeInv'
<1>1. ForestInv' /\ SiblingInv' /\ PlainInv'
  BY ForestStep, SiblingStep, PlainStep DEF TreeInv, ForestInv
<1>2. ASSUME NEW q \in Requests, Starts(q) \/ Continues(q) \/ Fails(q)
      PROVE  TreeInv'
  <2>1. PICK n : op'[q] = n
    OBVIOUS
  <2>2. \A p \in Requests : p = q
    OBVIOUS
  <2>3. ASSUME intact' PROVE n.stage \in StagesOf(n.kind) /\ TreeOK(n)'
    <3>1. Fine(n)'
      BY <1>2, <2>1, <2>3, RequestTree
    <3> QED BY <3>1 DEF Fine
  <2>4. ASSUME intact', NEW p \in Requests
        PROVE  op'[p].stage \in StagesOf(op'[p].kind) /\ TreeOK(op[p])'
    <3>1. p = q
      BY <2>2
    <3>2. op'[p] = n
      BY <2>1, <3>1
    <3>3. TreeOK(op[p])' <=> TreeOK(n)'
      BY <3>2 DEF TreeOK, CreateOK, UpdateOK, MoveOK, DeleteOK, Completable, Deletable, Aligned,
                  Awaiting, FinalName, FinalPath, FinalParentPath, Rebased
    <3> QED BY <2>3, <2>4, <3>2, <3>3
  <2>5. Settled' => Matched'
    <3>1. ASSUME Settled' PROVE intact' /\ n = Idle
      BY <2>1, <3>1 DEF Settled
    <3> QED BY <2>3, <3>1 DEF TreeOK, Idle
  <2> QED BY <1>1, <2>4, <2>5 DEF TreeInv
<1>3. CASE UNCHANGED vars
  <2>1. UNCHANGED <<folder, op, intact>>
    BY <1>3 DEF vars
  <2>2. \A q \in Requests : TreeOK(op[q]) => TreeOK(op[q])'
    <3>1. ASSUME NEW q \in Requests, NEW n, n = op[q], TreeOK(n) PROVE TreeOK(op[q])'
      <4>1. TreeOK(n)' /\ op'[q] = n
        BY <2>1, <3>1, KeptTree
      <4>3. op'[q] = n
        BY <4>1
      <4>2. TreeOK(op[q])' <=> TreeOK(n)'
        BY <4>3 DEF TreeOK, CreateOK, UpdateOK, MoveOK, DeleteOK, Completable, Deletable,
                    Aligned, Awaiting, FinalName, FinalPath, FinalParentPath, Rebased
      <4> QED BY <4>1, <4>2
    <3> QED BY <3>1
  <2>3. Settled' => Matched'
    BY <2>1, KeptTree DEF TreeInv, Settled
  <2> QED BY <1>1, <2>1, <2>2, <2>3 DEF TreeInv
<1> QED BY <1>2, <1>3 DEF Next

\* As long as all names are plain, requests come one at a time and nothing cuts
\* one short between its first and its last write, renaming and moving carry
\* the whole subtree along: the path of every live folder is its parent's and
\* its own name.
THEOREM PathsMatchLinksAlways ==
    ASSUME \A p, q \in Requests : p = q
    PROVE  Spec => []PathsMatchLinks
<1>1. TreeInv /\ [Next]_vars => TreeInv'
  BY TreeStep
<1>2. TreeInv => PathsMatchLinks
  BY DEF TreeInv, PathsMatchLinks, Matched, ParentPath
<1> QED BY <1>1, <1>2, TreeInit, PTL DEF Spec

\* Under the same conditions deleting a folder, which goes by the paths, leaves
\* none alive that the links put below it, at whatever depth and wherever the
\* folder had been moved before.
THEOREM LiveUnderLiveAlways ==
    ASSUME \A p, q \in Requests : p = q
    PROVE  Spec => []LiveUnderLive
<1>1. TreeInv /\ [Next]_vars => TreeInv'
  BY TreeStep
<1>2. TreeInv => LiveUnderLive
  BY DEF TreeInv, LiveUnderLive, Matched, Attached
<1> QED BY <1>1, <1>2, TreeInit, PTL DEF Spec
-----------------------------------------------------------------------------
(* Purging.                                                                 *)

\* A purge knows its folder as it is, and then everything below its path.
Purging(o) == o.kind = "purge" /\ o.stage \in {"children", "remove"}
PurgeFine(o) ==
    Purging(o) => /\ o.old = folder[o.id].path /\ o.copy.state = folder[o.id].state
                  /\ o.stage = "remove" => {row.id : row \in o.found} = Below(o.old)
PurgeInv == intact => \A q \in Requests : PurgeFine(op[q])

\* Only a purge becomes a purge, and only where it reads the table.
LEMMA PurgeKinds ==
    ASSUME TreeInv, intact, NEW q \in Requests, NEW n, op'[q] = n, Purging(n),
           Starts(q) \/ Continues(q) \/ Fails(q)
    PROVE  (\E f \in Ids : PurgeStarts(q, f)) \/ FindChildren(q)
<1>1. PICK o : op[q] = o
  OBVIOUS
<1>2. /\ o \in Op /\ op \in [Requests -> Op] /\ Idle \in Op
      /\ o.stage \in StagesOf(o.kind) /\ o.kind \in Kinds
  BY <1>1, StepFacts, IdleType DEF Fine, Op
<1>3. n # Idle
  BY DEF Purging, Idle
<1>4. CASE Starts(q)
  <2>1. ASSUME NEW m \in Names, NEW p \in Ids \cup {Root}, CreateStarts(q, m, p) PROVE FALSE
    BY <1>2, <2>1 DEF CreateStarts, Begins, Purging, Idle
  <2>2. ASSUME NEW f \in Ids, NEW m \in Names, UpdateStarts(q, f, m) PROVE FALSE
    BY <1>2, <2>2 DEF UpdateStarts, Begins, Purging, Idle
  <2>3. ASSUME NEW f \in Ids, NEW t \in Ids \cup {Root, Omitted}, MoveStarts(q, f, t) PROVE FALSE
    BY <1>2, <2>3 DEF MoveStarts, Moves, Begins, Purging, Idle
  <2>4. ASSUME NEW f \in Ids, DeleteStarts(q, f) PROVE FALSE
    BY <1>2, <2>4 DEF DeleteStarts, Goes, Purging, Idle
  <2> QED BY <1>4, <2>1, <2>2, <2>3, <2>4 DEF Starts
<1>5. CASE o.stage \in {"parent", "walk", "check", "path", "diff", "insert", "save", "subtree", "rewrite"}
  <2>1. o.kind # "purge"
    BY <1>2, <1>5 DEF StagesOf
  <2>2. n.kind = "purge"
    BY DEF Purging
  <2>3. ~Fails(q)
    BY <1>2, <1>3 DEF Fails, Aborts
  <2>4. ASSUME FindParent(q) PROVE FALSE
    <3>1. \/ n = [o EXCEPT !.stage = "check"]
          \/ n = [o EXCEPT !.stage = "walk", !.cursor = o.at,
                           !.copy.path = Joined(folder[o.at].path, o.copy.name)]
      BY <1>1, <1>2, <1>3, <2>4 DEF FindParent, Goes, Ends
    <3> QED BY <1>2, <2>1, <2>2, <3>1 DEF Op
  <2>5. ASSUME Walk(q) PROVE FALSE
    <3>1. n = [o EXCEPT !.stage = "check"] \/ \E c : n = [o EXCEPT !.cursor = c]
      BY <1>1, <1>2, <1>3, <2>5 DEF Walk, Goes, Ends
    <3> QED BY <1>2, <2>1, <2>2, <3>1 DEF Op
  <2>6. ASSUME Check(q) PROVE FALSE
    <3>1. n = [o EXCEPT !.stage = "diff"] \/ n = [o EXCEPT !.stage = "path"]
      BY <1>1, <1>2, <1>3, <2>6 DEF Check, Checked, Goes, Ends
    <3> QED BY <1>2, <2>1, <2>2, <3>1 DEF Op
  <2>7. ASSUME ComputePath(q) PROVE FALSE
    <3> DEFINE next == IF o.kind = "create" THEN "insert" ELSE "children"
    <3>1. \/ n = [o EXCEPT !.stage = next, !.copy.path = Joined(<<>>, o.copy.name)]
          \/ n = [o EXCEPT !.stage = next, !.copy.path = Joined(folder[o.at].path, o.copy.name)]
      BY <1>1, <1>2, <1>3, <2>7 DEF ComputePath, Goes, Ends
    <3> QED BY <1>2, <2>1, <2>2, <3>1 DEF Op
  <2>8. ASSUME Diff(q) PROVE FALSE
    <3>1. \E dirty : n = [o EXCEPT !.stage = "save", !.dirty = dirty] \/ n = [o EXCEPT !.stage = "insert"]
      BY <1>1, <1>2, <1>3, <2>8 DEF Diff, Goes, Ends
    <3> QED BY <1>2, <2>1, <2>2, <3>1 DEF Op
  <2>9. ASSUME Insert(q) \/ Save(q) PROVE FALSE
    <3>1. Saved(q)
      BY <1>2, <1>3, <2>9 DEF Insert, Save, Refused, Aborts, Goes, Ends
    <3>2. n = [o EXCEPT !.stage = "children"] \/ n = [o EXCEPT !.stage = "subtree"]
      BY <1>1, <1>2, <1>3, <3>1 DEF Saved, Goes, Ends
    <3> QED BY <1>2, <2>1, <2>2, <3>2 DEF Op
  <2>10. ~Subtree(q)
    BY <1>2, <1>3 DEF Subtree, Marks, Goes, Ends
  <2>11. ASSUME NEW row, Rewrite(q, row) PROVE FALSE
    <3>1. \E found : n = [o EXCEPT !.found = found] \/ n = [o EXCEPT !.found = found, !.stage = "diff"]
      BY <1>1, <1>2, <1>3, <2>11 DEF Rewrite, Refused, Aborts, Goes, Ends
    <3> QED BY <1>2, <2>1, <2>2, <3>1 DEF Op
  <2>12. ~RemoveChildren(q) /\ ~RemoveSelf(q)
    BY <1>1, <1>5 DEF RemoveChildren, RemoveSelf
  <2> QED BY <1>4, <2>3, <2>4, <2>5, <2>6, <2>7, <2>8, <2>9, <2>10, <2>11, <2>12 DEF Continues
<1>6. CASE o.stage \notin {"parent", "walk", "check", "path", "diff", "insert", "save", "subtree", "rewrite"}
  <2>1. Starts(q) \/ FindChildren(q) \/ RemoveChildren(q) \/ RemoveSelf(q) \/ Fails(q)
    BY <1>1, <1>6 DEF Continues, FindParent, Walk, Check, Checked, ComputePath, Insert, Diff, Save,
                      Rewrite, Subtree, Marks
  <2>2. ASSUME RemoveChildren(q) \/ RemoveSelf(q) \/ Fails(q) PROVE FALSE
    <3>1. n = [o EXCEPT !.stage = "removeSelf", !.found = {}]
      BY <1>1, <1>2, <1>3, <2>2 DEF RemoveChildren, RemoveSelf, Fails, Removes, Aborts, Goes, Ends
    <3> QED BY <1>2, <3>1 DEF Purging, Op
  <2> QED BY <1>4, <2>1, <2>2
<1> QED BY <1>5, <1>6

LEMMA PurgeInit == Init => PurgeInv
BY DEF Init, PurgeInv, PurgeFine, Purging, Idle

LEMMA PurgeStep ==
    ASSUME \A p, q \in Requests : p = q, TreeInv, PurgeInv, [Next]_vars
    PROVE  PurgeInv'
<1>1. ASSUME UNCHANGED folder PROVE \A path : Below(path)' = Below(path)
  BY <1>1 DEF Below, Exists
<1>2. CASE UNCHANGED vars
  BY <1>1, <1>2 DEF vars, PurgeInv, PurgeFine, Purging
<1>3. ASSUME NEW q \in Requests, Starts(q) \/ Continues(q) \/ Fails(q), intact'
      PROVE  PurgeFine(op[q])'
  <2>1. PICK n : op'[q] = n
    OBVIOUS
  <2>2. PICK o : op[q] = o
    OBVIOUS
  <2> SUFFICES ASSUME Purging(n)
               PROVE  /\ n.old = folder'[n.id].path /\ n.copy.state = folder'[n.id].state
                      /\ n.stage = "remove" => {row.id : row \in n.found} = Below(n.old)'
    BY <2>1 DEF PurgeFine, Purging
  <2>3. intact
    BY <1>3, RequestIntact
  <2>4. /\ o \in Op /\ op \in [Requests -> Op] /\ PurgeFine(o)
        /\ \A ids \in Like(o.old) : ids = Below(o.old)
    BY <2>2, <2>3, StepFacts, BelowPlain DEF PurgeInv, PlainOp
  <2>5. ASSUME NEW f \in Ids, PurgeStarts(q, f)
        PROVE  /\ n.old = folder'[n.id].path /\ n.copy.state = folder'[n.id].state
               /\ n.stage # "remove"
    <3>1. n = [Idle EXCEPT !.kind = "purge", !.id = f, !.stage = "children",
                           !.copy = folder[f], !.old = folder[f].path]
      BY <2>1, <2>4, <2>5 DEF PurgeStarts, Goes
    <3>2. n.id = f /\ n.stage = "children" /\ n.copy = folder[f] /\ n.old = folder[f].path
      BY <3>1 DEF Idle
    <3> QED BY <2>5, <3>2 DEF PurgeStarts
  <2>6. ASSUME FindChildren(q)
        PROVE  /\ n.old = folder'[n.id].path /\ n.copy.state = folder'[n.id].state
               /\ n.stage = "remove" => {row.id : row \in n.found} = Below(n.old)'
    <3> DEFINE rows == {[id |-> f, path |-> folder[f].path] : f \in Below(o.old)}
    <3>1. o.stage = "children" /\ UNCHANGED folder
      BY <2>2, <2>6 DEF FindChildren, Collects
    <3>2. n # Idle
      BY DEF Purging, Idle
    <3>8. Collects(q, Below(o.old))
      BY <2>2, <2>4, <2>6 DEF FindChildren
    <3>3. \/ \E stage : n = [o EXCEPT !.stage = stage, !.found = rows]
          \/ n = [o EXCEPT !.stage = "diff"]
      BY <2>1, <2>2, <2>4, <3>2, <3>8 DEF Collects, Goes, Ends
    <3> HIDE DEF rows
    <3>4. n.kind = o.kind /\ n.id = o.id /\ n.copy = o.copy /\ n.old = o.old
      BY <2>4, <3>3 DEF Op
    <3>5. n.stage = "remove" => n.found = rows
      BY <2>4, <3>3 DEF Op
    <3>6. {row.id : row \in rows} = Below(o.old)
      <4>1. ASSUME NEW f \in Below(o.old) PROVE f \in {row.id : row \in rows}
        <5>1. [id |-> f, path |-> folder[f].path] \in rows
          BY DEF rows
        <5>2. [id |-> f, path |-> folder[f].path].id = f
          OBVIOUS
        <5> QED BY <5>1, <5>2
      <4>2. \A row \in rows : row.id \in Below(o.old)
        BY DEF rows
      <4> QED BY <4>1, <4>2
    <3>7. Purging(o)
      BY <3>1, <3>4 DEF Purging
    <3> QED BY <1>1, <2>4, <3>1, <3>4, <3>5, <3>6, <3>7 DEF PurgeFine
  <2> QED BY <1>3, <2>1, <2>3, <2>5, <2>6, PurgeKinds
<1>4. ASSUME NEW q \in Requests, Starts(q) \/ Continues(q) \/ Fails(q) PROVE PurgeInv'
  BY <1>3, <1>4 DEF PurgeInv
<1> QED BY <1>2, <1>4 DEF Next

\* Where purging goes wrong is told by the folder alone: as long as all names
\* are plain, requests come one at a time and nothing cuts one short half-way,
\* a purge of a folder that was not deleted before removes only live folders
\* that the links put below it.  A live folder of another one is in danger from
\* deleted ones only, whose paths somebody else may have taken over.
THEOREM PurgeOfLiveIsLocal ==
    ASSUME \A p, q \in Requests : p = q
    PROVE  Spec => [][\A q \in Requests :
               intact /\ op[q].stage = "remove" /\ op[q].copy.state = "live" =>
                   \A f \in Ids : (Live(f) /\ ~Exists(f)') =>
                       folder[f].parent \in {op[q].id} \cup {row.id : row \in op[q].found}]_vars
<1> DEFINE Stays(q) ==
               intact /\ op[q].stage = "remove" /\ op[q].copy.state = "live" =>
                   \A f \in Ids : (Live(f) /\ ~Exists(f)') =>
                       folder[f].parent \in {op[q].id} \cup {row.id : row \in op[q].found}
<1>1. ASSUME TreeInv, PurgeInv, Next, NEW q \in Requests PROVE Stays(q)
  <2>1. PICK o : op[q] = o
    OBVIOUS
  <2> SUFFICES ASSUME intact, o.stage = "remove", o.copy.state = "live",
                      NEW f \in Ids, Live(f), ~Exists(f)', NEW p, p = folder[f].parent
               PROVE  p \in {o.id} \cup {row.id : row \in o.found}
    BY <2>1
  <2>2. /\ o \in Op /\ Fine(o) /\ TypeInv /\ PlainTable /\ NoCycle /\ SiblingsDistinct /\ FolderAssumption
        /\ RequestOK(o)
    BY <1>1, <2>1, StepFacts
  <2>3. o.kind = "purge"
    BY <2>2 DEF Fine, StagesOf, Op, Kinds
  <2>4. /\ o.old = folder[o.id].path /\ Live(o.id)
        /\ {row.id : row \in o.found} = Below(o.old)
    BY <1>1, <2>1, <2>3 DEF PurgeInv, PurgeFine, Purging, Live
  <2>5. Matched /\ o.id \in Ids
    BY <2>2, <2>3 DEF Fine, TreeOK, RequestOK
  <2>6. \A r \in Requests : r = q
    OBVIOUS
  <2>7. RemoveChildren(q)
    <3>1. ~UNCHANGED folder
      BY DEF Live, Exists
    <3>2. Starts(q) \/ Continues(q) \/ Fails(q)
      BY <1>1, <2>6 DEF Next
    <3> QED BY <2>1, <3>1, <3>2
            DEF Starts, CreateStarts, UpdateStarts, MoveStarts, Moves, DeleteStarts, PurgeStarts,
                Continues, FindParent, Walk, Check, Checked, ComputePath, Insert, Diff, Save,
                FindChildren, Collects, Rewrite, Subtree, Marks, RemoveSelf, Fails
  <2>8. f \in Below(o.old)
    BY <2>1, <2>2, <2>4, <2>7 DEF RemoveChildren, Removes, Ends, Live, Exists, TypeInv, TypeOK
  <2> QED BY <2>2, <2>4, <2>5, <2>8, BelowByLinks
<1>2. TreeInv /\ PurgeInv /\ [Next]_vars => [\A q \in Requests : Stays(q)]_vars
  BY <1>1
<1>3. TreeInv /\ [Next]_vars => TreeInv'
  BY TreeStep
<1>4. TreeInv /\ PurgeInv /\ [Next]_vars => PurgeInv'
  BY PurgeStep
<1> QED BY <1>2, <1>3, <1>4, TreeInit, PurgeInit, PTL DEF Spec
=============================================================================
