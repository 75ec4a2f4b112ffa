---------------------------- MODULE ObjectProofs ----------------------------
(***************************************************************************)
(* The objects of a store, for every set of catalogs, layout of roots and  *)
(* bound: what a row names exists, what is scheduled stays scheduled until *)
(* it is gone, and without forks whatever is left can be found.            *)
(***************************************************************************)
EXTENDS ObjectStepProofs, FiniteSetTheorems

\* A leaf may take its time: the provers get more than their default.
USE SMTT(30), ZenonT(30)

\* Elsewhere is no layout.
LEMMA LayoutNotElsewhere ==
    ASSUME NEW c \in Catalogs
    PROVE  Layout(c) # Elsewhere
<1>1. Root[c] \in Seq(Segments) /\ ~IsPrefix(Root[c], Elsewhere)
  BY PathAssumption, Zenon
<1>2. IsPrefix(Root[c], Root[c])
  BY <1>1 DEF IsPrefix
<1> QED
  BY <1>1, <1>2, LayoutBelow, Zenon

\* clear_dropped_data_paths clears no root below which an object is left.
LEMMA ListedSweepSteps ==
    ASSUME IInv, LInv,
           \/ \E root \in ListedRoots, all \in BOOLEAN : SweepBegin(root, all)
           \/ SweepNow \/ SweepReferences \/ SweepList \/ SweepDelete \/ SweepEnd \/ SweepFails
    PROVE  LInv'
<1>1. /\ UNCHANGED <<scope, catalogs, dropping, dropped, files, scheduled, write, fork>>
      /\ store' \subseteq store
  BY Zenon DEF SweepBegin, SweepNow, SweepReferences, SweepList, SweepDelete, SweepEnd, SweepFails,
         SweeperOnly, rowVars
<1> SUFFICES ASSUME NoForks PROVE LInv'
  BY <1>1, Zenon DEF LInv, NoForks, May
<1>2. fork' = None /\ OwnRowsOnly /\ OwnRowsOnly' /\ ObjectsListed /\ SweepComplete
  BY <1>1, Zenon DEF LInv, OwnRowsOnly, IsReference, Layout, Multi
<1>3. UNCHANGED tombstones => ObjectsListed'
  BY <1>1, <1>2, Zenon DEF ObjectsListed, RootListed, ListedRoots, Layout, Multi
<1>4. ASSUME NEW root \in ListedRoots, NEW all \in BOOLEAN, SweepBegin(root, all) PROVE LInv'
  <2>1. UNCHANGED tombstones /\ sweeper'.paths = Group(root) /\ sweeper'.root = root
        /\ sweeper'.all = all /\ (all => sweeper'.cutoff = scope.lastObject + 1)
        /\ sweeper'.referenced = {} /\ sweeper'.step = IF Multi THEN "now" ELSE "references"
    BY <1>4, Zenon DEF SweepBegin
  <2>2. ~ClearsTombstones'
    BY <1>1, <2>1, Zenon DEF ClearsTombstones, Multi
  <2>3. SweepComplete'
    BY <1>1, <2>1, <2>2, Zenon DEF SweepComplete, Group
  <2> QED
    BY <1>2, <1>3, <2>1, <2>3, Zenon DEF LInv
<1>5. ASSUME SweepNow PROVE LInv'
  <2>0. sweeper \in Sweep /\ sweeper # None
    BY <1>5, Zenon DEF IInv, TypeInv, SweepNow
  <2>1. /\ UNCHANGED <<tombstones, store>>
        /\ sweeper' = [sweeper EXCEPT !.begun = dropping \cup dropped, !.step = "references"]
        /\ sweeper.all => dropping = {}
        /\ sweeper.step = "now"
    BY <1>5, Zenon DEF SweepNow
  <2>2. /\ sweeper'.paths = sweeper.paths /\ sweeper'.root = sweeper.root
        /\ sweeper'.all = sweeper.all
        /\ sweeper'.cutoff = sweeper.cutoff /\ sweeper'.begun = dropping \cup dropped
        /\ sweeper'.referenced = sweeper.referenced /\ sweeper'.step = "references"
    BY <2>0, <2>1, Zenon DEF Sweep
  <2>3. sweeper.referenced = {}
    BY <1>2, <2>0, <2>1, Zenon DEF SweepComplete
  <2>4. SweepComplete'
    BY <1>1, <1>2, <2>0, <2>1, <2>2, <2>3, Zenon DEF SweepComplete, ClearsTombstones, Layout, Multi, Under
  <2> QED
    BY <1>2, <1>3, <2>1, <2>4, Zenon DEF LInv
<1>6. ASSUME SweepReferences PROVE LInv'
  <2>1. /\ sweeper \in Sweep /\ sweeper # None /\ sweeper.step = "references"
        /\ UNCHANGED <<tombstones, store>>
    BY <1>6, Zenon DEF IInv, TypeInv, SweepReferences
  <2>2. PICK root \in sweeper.unread :
            sweeper' = [sweeper EXCEPT !.referenced = @ \cup ReferencedPaths(root),
                                       !.unread = @ \ {root},
                                       !.step = IF sweeper.unread = {root} THEN "list" ELSE @]
    BY <1>6, Zenon DEF SweepReferences
  <2>3. /\ sweeper'.paths = sweeper.paths /\ sweeper'.root = sweeper.root
        /\ sweeper'.all = sweeper.all
        /\ sweeper'.cutoff = sweeper.cutoff /\ sweeper'.begun = sweeper.begun
        /\ sweeper'.referenced = sweeper.referenced \cup ReferencedPaths(root)
        /\ sweeper'.step \in {"references", "list"}
    BY <2>1, <2>2, Zenon DEF Sweep
  <2>4. ASSUME Multi, NEW o \in ReferencedPaths(root), NEW c \in dropped, o.at = Layout(c)
        PROVE  FALSE
    <3>1. PICK r \in files \cup scheduled : r.cat \in catalogs /\ r.obj = o
      BY <1>2, <2>4, Zenon DEF ReferencedPaths, AllReferencePaths, OwnRowsOnly
    <3>2. o.at \in {Layout(r.cat), Elsewhere}
      BY <1>2, <3>1, Zenon DEF IInv, RowsInv, OwnRowsOnly, IsReference
    <3>3. c \in Catalogs /\ r.cat \in Catalogs /\ c \notin catalogs
      BY <1>2, <2>4, <3>1, Zenon DEF IInv, TypeInv, ObjectsListed
    <3>4. Layout(c) # Elsewhere
      BY <3>3, LayoutNotElsewhere, Zenon
    <3> QED
      BY <2>4, <3>1, <3>2, <3>3, <3>4, LayoutsDiffer, Zenon
  <2>5. SweepComplete'
    BY <1>1, <1>2, <2>1, <2>3, <2>4, Zenon DEF SweepComplete, ClearsTombstones, Layout, Multi, Under
  <2> QED
    BY <1>2, <1>3, <2>1, <2>5, Zenon DEF LInv
<1>7. ASSUME SweepList PROVE LInv'
  <2>1. /\ sweeper \in Sweep /\ sweeper # None /\ sweeper.step = "list"
        /\ UNCHANGED <<tombstones, store>>
    BY <1>7, Zenon DEF IInv, TypeInv, SweepList
  <2> DEFINE orphans == {o \in store : /\ Under(o, sweeper.root) /\ o.n < sweeper.cutoff
                                       /\ o \notin sweeper.referenced}
  <2>2. sweeper' = [sweeper EXCEPT !.orphans = orphans, !.step = "delete"]
    BY <1>7, Zenon DEF SweepList
  <2>3. /\ sweeper'.paths = sweeper.paths /\ sweeper'.root = sweeper.root
        /\ sweeper'.all = sweeper.all
        /\ sweeper'.cutoff = sweeper.cutoff /\ sweeper'.begun = sweeper.begun
        /\ sweeper'.referenced = sweeper.referenced
        /\ sweeper'.orphans = orphans /\ sweeper'.step = "delete"
    BY <2>1, <2>2, Zenon DEF Sweep
  <2>4. sweeper.all => \A o \in store : o.n < sweeper.cutoff
    <3>1. scope.lastObject \in Nat
      BY ScopeAssumption, Zenon DEF IInv, TypeInv
    <3>2. \A o \in store : o.n \in Nat /\ o.n <= scope.lastObject
      BY <1>2, Zenon DEF IInv, TypeInv, Objects, ObjectsListed
    <3>3. sweeper.all => sweeper.cutoff = scope.lastObject + 1
      BY <1>2, <2>1, Zenon DEF SweepComplete
    <3> QED
      BY <3>1, <3>2, <3>3
  <2>5. SweepComplete'
    BY <1>1, <1>2, <2>1, <2>3, <2>4, Zenon DEF SweepComplete, ClearsTombstones, Layout, Multi, Under
  <2> QED
    BY <1>2, <1>3, <2>1, <2>5, Zenon DEF LInv
<1>8. ASSUME SweepDelete PROVE LInv'
  <2>1. sweeper \in Sweep /\ sweeper # None /\ sweeper.step = "delete" /\ UNCHANGED tombstones
    BY <1>8, Zenon DEF IInv, TypeInv, SweepDelete
  <2>2. PICK o \in sweeper.orphans :
            store' = store \ {o} /\ sweeper' = [sweeper EXCEPT !.orphans = @ \ {o}]
    BY <1>8, Zenon DEF SweepDelete
  <2>3. /\ sweeper'.paths = sweeper.paths /\ sweeper'.root = sweeper.root
        /\ sweeper'.all = sweeper.all
        /\ sweeper'.cutoff = sweeper.cutoff /\ sweeper'.begun = sweeper.begun
        /\ sweeper'.referenced = sweeper.referenced
        /\ sweeper'.orphans = sweeper.orphans \ {o} /\ sweeper'.step = "delete"
    BY <2>1, <2>2, Zenon DEF Sweep
  <2>4. SweepComplete'
    BY <1>1, <1>2, <2>1, <2>2, <2>3, Zenon DEF SweepComplete, ClearsTombstones, Layout, Multi, Under
  <2> QED
    BY <1>2, <1>3, <2>1, <2>4, Zenon DEF LInv
<1>9. ASSUME SweepEnd PROVE LInv'
  <2>1. sweeper \in Sweep /\ sweeper # None /\ sweeper.step = "delete" /\ sweeper.orphans = {}
        /\ UNCHANGED store /\ sweeper' = None
    BY <1>9, Zenon DEF IInv, TypeInv, SweepEnd
  <2>2. SweepComplete'
    BY <2>1, Zenon DEF SweepComplete, ClearsTombstones
  <2>3. CASE UNCHANGED tombstones
    BY <1>2, <1>3, <2>2, <2>3, Zenon DEF LInv
  <2>4. CASE Multi /\ sweeper.all
    <3>1. tombstones' = {t \in tombstones : ~Clearable(t)} /\ ClearsTombstones
      BY <1>9, <2>1, <2>4, Zenon DEF SweepEnd, ClearsTombstones
    <3>2. ASSUME NEW o \in store, o.at # Elsewhere
          PROVE  \E c \in Catalogs : o.at = Layout(c) /\ RootListed(c)'
      <4>1. PICK c \in Catalogs : o.at = Layout(c) /\ RootListed(c)
        BY <1>2, <3>2, Zenon DEF ObjectsListed
      <4>2. CASE Root[c] \in {Root[d] : d \in catalogs}
        BY <1>1, <4>1, <4>2, Zenon DEF RootListed, ListedRoots
      <4>3. CASE Root[c] \notin {Root[d] : d \in catalogs}
        <5>1. PICK t \in tombstones : t.root = Root[c]
          BY <4>1, <4>3, Zenon DEF RootListed, ListedRoots
        <5>2. c \in dropped
          BY <4>1, <4>3, Zenon DEF RootListed
        <5>3. ~Clearable(t)
          <6> SUFFICES ASSUME Clearable(t) PROVE FALSE
            BY Zenon
          <6>1. c \in sweeper.begun /\ Root[c] \in sweeper.paths
            BY <1>2, <3>1, <5>1, <5>2, Zenon DEF Clearable, SweepComplete
          <6>2. IsPrefix(sweeper.root, Root[c])
            BY <1>2, <2>1, <6>1, Zenon DEF SweepComplete
          <6>3. sweeper.root \in Seq(Segments)
            BY <2>1, Zenon DEF Sweep
          <6>4. Under(o, sweeper.root)
            BY <4>1, <6>2, <6>3, LayoutBelow, Zenon DEF Under
          <6> QED
            BY <1>2, <2>1, <3>1, <4>1, <6>1, <6>4, Zenon DEF SweepComplete
        <5> QED
          BY <1>1, <3>1, <4>1, <5>1, <5>2, <5>3, Zenon DEF RootListed, ListedRoots
      <4> QED
        BY <4>2, <4>3, Zenon
    <3>3. write = None
      BY <2>1, <2>4, Zenon DEF IInv, SweeperInv
    <3>4. ObjectsListed'
      BY <1>1, <1>2, <2>1, <3>2, <3>3, Zenon DEF ObjectsListed, Layout, Multi
    <3> QED
      BY <1>2, <2>2, <3>4, Zenon DEF LInv
  <2> QED
    BY <1>9, <2>3, <2>4, Zenon DEF SweepEnd
<1>10. ASSUME SweepFails PROVE LInv'
  <2>1. UNCHANGED tombstones /\ sweeper' = None
    BY <1>10, Zenon DEF SweepFails
  <2>2. SweepComplete'
    BY <2>1, Zenon DEF SweepComplete, ClearsTombstones
  <2> QED
    BY <1>2, <1>3, <2>1, <2>2, Zenon DEF LInv
<1> QED
  BY <1>4, <1>5, <1>6, <1>7, <1>8, <1>9, <1>10, Zenon

\* At first every object is listed.
LEMMA InitListed ==
    ASSUME Init
    PROVE  LInv
<1> USE DEF Init
<1>1. PICK path \in scope.places : files = {FirstFile(path)} /\ store = {FirstFile(path).obj}
  BY Zenon
<1>2. /\ scope \in Scopes /\ scope.first \in Catalogs /\ scope.first \in catalogs
      /\ scope.lastObject >= 1
  BY ScopeAssumption
<1>3. path \in {Layout(scope.first), Elsewhere}
  BY <1>2, ScopeAssumption, Zenon DEF Layout, Multi
<1>4. /\ FirstFile(path).cat = scope.first /\ FirstFile(path).owner = scope.first
      /\ FirstFile(path).obj.at = path /\ FirstFile(path).obj.n = 1
  BY Zenon DEF FirstFile
<1>5. RootListed(scope.first)
  BY <1>2, Zenon DEF RootListed, ListedRoots
<1> SUFFICES ASSUME NoForks PROVE LInv
  BY Zenon DEF LInv
<1>6. OwnRowsOnly
  BY <1>1, <1>4, Zenon DEF OwnRowsOnly, IsReference, NoForks
<1>7. ObjectsListed
  BY <1>1, <1>2, <1>3, <1>4, <1>5, Zenon DEF ObjectsListed
<1>8. SweepComplete
  BY Zenon DEF SweepComplete, ClearsTombstones
<1> QED
  BY <1>6, <1>7, <1>8, Zenon DEF LInv

\* With that nothing is stranded.
LEMMA ListedIsEnough ==
    ASSUME IInv, LInv
    PROVE  NothingStranded
<1> SUFFICES ASSUME NoForks, NEW o \in Stranded PROVE FALSE
  BY Zenon DEF NothingStranded, NoForks
<1>1. o \in store /\ o.at # Elsewhere /\ \A root \in ListedRoots : ~Under(o, root)
  BY Zenon DEF Stranded
<1>2. PICK c \in Catalogs : o.at = Layout(c) /\ RootListed(c)
  BY <1>1, Zenon DEF LInv, ObjectsListed
<1>3. Root[c] \in Seq(Segments)
  BY PathAssumption, Zenon
<1>4. IsPrefix(Root[c], Root[c])
  BY <1>3 DEF IsPrefix
<1> QED
  BY <1>1, <1>2, <1>3, <1>4, LayoutBelow, Zenon DEF Under, RootListed

-----------------------------------------------------------------------------
\* Nothing changes when nothing happens.
LEMMA StutterStep ==
    ASSUME IInv, LInv, UNCHANGED vars
    PROVE  IInv' /\ LInv'
<1>1. UNCHANGED <<scope, catalogs, dropping, dropped, tombstones, files, scheduled, store, now,
                  nextId, write, fork, cleaner, sweeper>>
  BY Zenon DEF vars, catalogVars, rowVars
<1>2. TypeInv' /\ FlightInv'
  BY <1>1, ZenonT(60) DEF IInv, TypeInv, FlightInv, Held, Layout, Multi
<1>3. RowsInv' /\ ForkInv' /\ ScheduleInv'
  BY <1>1, RowsFrame, ForkFrame, ScheduleFrame DEF IInv, TypeInv, RowsInv
<1>4. CleanerInv' /\ SweeperInv'
  BY <1>1, CleanerFrame, SweeperFrame DEF IInv, TypeInv, CleanerInv
<1>5. LInv'
  BY <1>1, ListedFrame, Zenon DEF LInv, OwnRowsOnly, IsReference, Layout, Multi
<1> QED
  BY <1>2, <1>3, <1>4, <1>5, Zenon DEF IInv

\* InOrder numbers the elements of a finite set.
LEMMA InOrderNumbers ==
    ASSUME NEW S, IsFiniteSet(S), NEW s, s = InOrder(S)
    PROVE  /\ Len(s) \in Nat /\ DOMAIN s = 1 .. Len(s)
           /\ \A n \in DOMAIN s : s[n] \in S
           /\ \A x \in S : \E n \in DOMAIN s : s[n] = x
           /\ Range(s) = S
<1> DEFINE N == Cardinality(S)
<1>1. N \in Nat /\ ExistsBijection(1 .. N, S)
  BY FS_CardinalityType, Zenon
<1>2. \E f \in [1 .. N -> S] : IsInjective(f)
  BY <1>1, Zenon DEF ExistsBijection, Bijection, Injection, IsInjective
<1>3. s \in [1 .. N -> S] /\ IsInjective(s)
  BY <1>2, Zenon DEF InOrder
<1>4. s \in Injection(1 .. N, S)
  BY <1>3, Zenon DEF Injection, IsInjective
<1>5. IsFiniteSet(1 .. N) /\ Cardinality(1 .. N) = N
  BY <1>1, FS_Interval
<1>6. s \in Surjection(1 .. N, S)
  BY <1>4, <1>5, FS_Injection, Zenon
<1>7. Len(s) = N /\ DOMAIN s = 1 .. N
  BY <1>1, <1>3
<1>8. /\ \A n \in DOMAIN s : s[n] \in S
      /\ \A x \in S : \E n \in DOMAIN s : s[n] = x
  BY <1>3, <1>6, Zenon DEF Surjection
<1>9. Range(s) = S
  BY <1>8, Zenon DEF Range
<1> QED
  BY <1>1, <1>7, <1>8, <1>9, Zenon

\* Rows that differ in their ids, with ids below a bound, are finitely many.
LEMMA RowsAreFinite ==
    ASSUME NEW S \in SUBSET Row, NEW k \in Nat, \A r \in S : r.id < k,
           \A q, r \in S : q.id = r.id => q = r
    PROVE  IsFiniteSet(S)
<1> DEFINE f == [r \in S |-> r.id]
<1>1. f \in Injection(S, 0 .. k)
  <2>1. f \in [S -> 0 .. k]
    BY DEF Row
  <2> QED
    BY <2>1, Zenon DEF Injection, IsInjective
<1>2. IsFiniteSet(0 .. k)
  BY FS_Interval
<1> QED
  BY <1>1, <1>2, FS_Injection, Zenon

\* The rows of one kind that a fork copies are finitely many.
LEMMA CopiedFinite ==
    ASSUME IInv, fork # None, NEW k \in {"data", "delete"},
           NEW S \in SUBSET fork.rows, \A r \in S : r.kind = k
    PROVE  IsFiniteSet(S)
<1>1. S \in SUBSET Row /\ NextOf(k) \in Nat
  BY Zenon DEF IInv, TypeInv, Fork, NextOf
<1>2. \A r \in S : r.id < NextOf(k)
  BY Zenon DEF IInv, ForkInv
<1>3. \A q, r \in S : q.id = r.id => q = r
  BY Zenon DEF IInv, ForkInv
<1> QED
  BY <1>1, <1>2, <1>3, RowsAreFinite, Zenon

HasId(s, id) == \E n \in DOMAIN s : s[n].id = id

\* The files a fork references, numbered: the data files, and the delete files of the
\* data files that it does not mask.
LEMMA ForkSources ==
    ASSUME IInv, fork # None,
           NEW copied \in SUBSET fork.rows, \A d \in fork.rows : d.kind = "data" => d \in copied,
           SourceRowsStand(copied), \A r \in copied : r.owner # fork.dst,
           NEW data, data = InOrder({r \in copied : r.kind = "data"}),
           NEW deletes, deletes = InOrder(copied \ Range(data))
    PROVE  /\ DOMAIN data = 1 .. Len(data) /\ Sources(data, Len(data), fork.dst)
           /\ DOMAIN deletes = 1 .. Len(deletes) /\ Sources(deletes, Len(deletes), fork.dst)
           /\ \A n \in DOMAIN deletes : HasId(data, deletes[n].of)
           /\ fork.masked # 0 => HasId(data, fork.masked)
<1> DEFINE D == {r \in copied : r.kind = "data"}
           E == copied \ Range(data)
<1>1. /\ D \in SUBSET fork.rows /\ \A r \in D : r.kind = "data" /\ r \in copied
      /\ \A d \in fork.rows : d.kind = "data" => d \in D
      /\ \A r \in copied \ D : r.kind # "data"
      /\ data = InOrder(D)
  BY Zenon
<1> HIDE DEF D
<1>2. IsFiniteSet(D)
  BY <1>1, CopiedFinite, Zenon
<1>3. /\ Len(data) \in Nat /\ DOMAIN data = 1 .. Len(data)
      /\ \A n \in DOMAIN data : data[n] \in D
      /\ \A x \in D : \E n \in DOMAIN data : data[n] = x
      /\ Range(data) = D
  BY <1>1, <1>2, InOrderNumbers, Zenon
<1>4. /\ E \in SUBSET fork.rows /\ \A r \in E : r.kind # "data" /\ r \in copied
      /\ deletes = InOrder(E)
  BY <1>1, <1>3, Zenon
<1> HIDE DEF E
<1>5. \A r \in E : r.kind = "delete"
  BY <1>4, Zenon DEF IInv, TypeInv, Fork, Row
<1>6. IsFiniteSet(E)
  BY <1>4, <1>5, CopiedFinite, Zenon
<1>7. /\ Len(deletes) \in Nat /\ DOMAIN deletes = 1 .. Len(deletes)
      /\ \A n \in DOMAIN deletes : deletes[n] \in E
  BY <1>4, <1>6, InOrderNumbers, Zenon
<1>8. \A r \in copied : Source(r, fork.dst)
  BY CopiedStand, Zenon
<1>9. /\ \A r \in fork.rows : r.kind # "data" => \E d \in D : d.id = r.of
      /\ fork.masked # 0 => \E d \in D : d.id = fork.masked
  BY <1>1, CopiedDataFiles, Zenon
<1>10. Sources(data, Len(data), fork.dst)
  BY <1>1, <1>3, <1>8, Zenon DEF Sources
<1>11. Sources(deletes, Len(deletes), fork.dst)
  BY <1>4, <1>7, <1>8, Zenon DEF Sources
<1>12. \A d \in D : HasId(data, d.id)
  BY <1>3 DEF HasId
<1>13. \A n \in DOMAIN deletes : HasId(data, deletes[n].of)
  <2> TAKE n \in DOMAIN deletes
  <2>1. deletes[n] \in fork.rows /\ deletes[n].kind # "data"
    BY <1>4, <1>7, Zenon
  <2>2. PICK d \in D : d.id = deletes[n].of
    BY <1>9, <2>1, Zenon
  <2> QED
    BY <1>12, <2>2, Zenon
<1>14. fork.masked # 0 => HasId(data, fork.masked)
  BY <1>9, <1>12, Zenon
<1> QED
  BY <1>3, <1>7, <1>10, <1>11, <1>13, <1>14, Zenon

\* register_existing_data_files_tagged keeps the invariant: a row it copies stands for
\* an object that a row it has checked still names, and the rest is its own upload.
LEMMA ForkCommitStep ==
    ASSUME IInv, ForkCommit
    PROVE  IInv'
<1> DEFINE copied == {r \in fork.rows : r.kind = "data" \/ r.of # fork.masked}
           data == InOrder({r \in copied : r.kind = "data"})
           deletes == InOrder(copied \ Range(data))
           own == IF fork.masked = 0 THEN fork.objs ELSE {}
           IdOf(id) == nextId.data - 1 + CHOOSE n \in DOMAIN data : data[n].id = id
           ofs == [n \in DOMAIN deletes |-> IdOf(deletes[n].of)]
           of == IdOf(fork.masked)
           c == fork.dst
           nd == Len(data)
           ne == Len(deletes)
           k == Cardinality(own)
<1>1. /\ fork # None /\ Commits(c, nd + k, ne + 1) /\ fork' = None
      /\ UNCHANGED <<scope, catalogVars, scheduled, store, now, write, cleaner, sweeper>>
  BY Zenon DEF ForkCommit
<1>2. SourceRowsStand(copied) /\ \A r \in copied : r.owner # c
  BY Zenon DEF ForkCommit
<1>3. files' = Retired(c)
             \cup {DataRow(c, data[n].obj, data[n].owner, Snapshot, n - 1) :
                       n \in DOMAIN data}
             \cup {DeleteRow(c, deletes[n].obj, deletes[n].owner, Snapshot,
                             IdOf(deletes[n].of), n) : n \in DOMAIN deletes}
             \cup {DataRow(c, o, c, Snapshot, Len(data)) : o \in own}
             \cup {DeleteRow(c, o, c, Snapshot, of, 0) : o \in fork.objs \ own}
  BY Zenon DEF ForkCommit
<1>4. copied \in SUBSET fork.rows /\ \A d \in fork.rows : d.kind = "data" => d \in copied
  BY Zenon
<1>5. own \in SUBSET fork.objs /\ (fork.masked # 0 \/ fork.objs \ own = {})
  BY Zenon
<1> HIDE DEF copied, own
<1>6. /\ DOMAIN data = 1 .. nd /\ Sources(data, nd, c)
      /\ DOMAIN deletes = 1 .. ne /\ Sources(deletes, ne, c)
      /\ \A n \in DOMAIN deletes : HasId(data, deletes[n].of)
      /\ fork.masked # 0 => HasId(data, fork.masked)
  BY <1>1, <1>2, <1>4, ForkSources, Zenon
<1> HIDE DEF data, deletes, nd, ne
<1>7. /\ nextId \in [snapshot : Nat, data : Nat, delete : Nat] /\ c \in Catalogs /\ Multi
      /\ \A o, u \in fork.objs : o = u
  BY <1>1, Zenon DEF IInv, TypeInv, Fork, FlightInv, Held
<1>8. nd \in Nat /\ ne \in Nat
  BY <1>6, Zenon DEF Sources
<1>9. k \in Nat /\ (own # {} => k = 1)
  <2>1. CASE own = {}
    BY <2>1, FS_EmptySet
  <2>2. CASE own # {}
    <3>1. PICK o : own = {o}
      BY <1>5, <1>7, <2>2
    <3>2. Cardinality({o}) = 1
      BY FS_Singleton, Zenon
    <3> QED
      BY <3>1, <3>2
  <2> QED
    BY <2>1, <2>2, Zenon
<1> HIDE DEF k
<1>10. \A id : HasId(data, id) => IdOf(id) \in Int
  <2> TAKE id
  <2> HAVE HasId(data, id)
  <2>1. (CHOOSE n \in DOMAIN data : data[n].id = id) \in DOMAIN data
    BY Zenon DEF HasId
  <2> QED
    BY <1>6, <1>7, <2>1
<1> HIDE DEF IdOf
<1>11. /\ \A n \in 1 .. ne : ofs[n] \in Int
       /\ fork.objs \ own # {} => of \in Int
  BY <1>5, <1>6, <1>10, Zenon
<1> HIDE DEF c
<1> DEFINE N1 == DataRows(c, data, nd)
           N2 == DeleteRows(c, deletes, ofs, ne)
           N3 == OwnDataRows(c, own, nd)
           N4 == OwnDeleteRows(c, fork.objs \ own, of)
           N == N1 \cup N2 \cup N3 \cup N4
<1>12. files' = Retired(c) \cup N
  <2>1. N1 = {DataRow(c, data[n].obj, data[n].owner, Snapshot, n - 1) : n \in DOMAIN data}
    BY <1>6, Zenon DEF DataRows
  <2>2. N2 = {DeleteRow(c, deletes[n].obj, deletes[n].owner, Snapshot,
                        IdOf(deletes[n].of), n) : n \in DOMAIN deletes}
    BY <1>6, Zenon DEF DeleteRows
  <2>3. N3 = {DataRow(c, o, c, Snapshot, Len(data)) : o \in own}
    BY Zenon DEF OwnDataRows, nd
  <2>4. N4 = {DeleteRow(c, o, c, Snapshot, of, 0) : o \in fork.objs \ own}
    BY Zenon DEF OwnDeleteRows
  <2> HIDE DEF N1, N2, N3, N4, of
  <2> QED
    BY <1>3, <2>1, <2>2, <2>3, <2>4, Zenon
<1>13. N3 = {} \/ N4 = {}
  <2>1. own = {} \/ fork.objs \ own = {}
    BY <1>5, <1>7, Zenon
  <2> QED
    BY <2>1, Zenon DEF OwnDataRows, OwnDeleteRows
<1>14. N3 # {} => k = 1
  BY <1>9, Zenon DEF OwnDataRows
<1> HIDE DEF ofs, of
<1>15. /\ c \in catalogs /\ c = fork.dst /\ c \in Catalogs
       /\ nextId' = [snapshot |-> Snapshot + 1, data |-> nextId.data + (nd + k),
                     delete |-> nextId.delete + (ne + 1)]
  BY <1>1, <1>7, Zenon DEF Commits, c
<1>16. /\ IdsGrow
       /\ nextId'.data = nextId.data + (nd + k)
       /\ nextId'.delete = nextId.delete + (ne + 1)
  BY <1>7, <1>8, <1>9, <1>15 DEF Snapshot, IdsGrow
<1>17. CopiedRows(N1, "data", nextId.data, nextId.data + nd)
  BY <1>6, <1>7, <1>15, CopiedDataRows, Zenon
<1>18. CopiedRows(N2, "delete", nextId.delete + 1, nextId.delete + (ne + 1))
  BY <1>6, <1>7, <1>11, <1>15, CopiedDeleteRows, Zenon
<1>19. OwnRow(N3, "data", nextId.data + nd)
  BY <1>1, <1>5, <1>8, <1>15, OwnDataRow, Zenon
<1>20. OwnRow(N4, "delete", nextId.delete)
  BY <1>1, <1>5, <1>11, <1>15, OwnDeleteRow, Zenon
<1> HIDE DEF N1, N2, N3, N4
<1>21. NewRows(N, nextId.data + (nd + k), nextId.delete + (ne + 1))
  BY <1>1, <1>8, <1>9, <1>13, <1>14, <1>17, <1>18, <1>19, <1>20,
     ForkRows, Zenon
<1> HIDE DEF N
<1> QED
  BY <1>1, <1>12, <1>16, <1>21, ForkBatchStep, Zenon

\* Every step keeps the invariants.
LEMMA NextKeepsInv ==
    ASSUME IInv, LInv, Next
    PROVE  IInv' /\ LInv'
<1> USE DEF Next
<1>0. Elsewhere \in Seq(Segments) /\ \A c \in Catalogs : Layout(c) \in Seq(Segments)
  BY PathAssumption, LayoutIsPath, Zenon
<1>1. ASSUME NEW c \in Catalogs,
             \/ BeginWrite(c) \/ DropTable(c)
             \/ CreateCatalog(c) \/ DropBegin(c) \/ DropCommit(c) \/ DropFails(c)
             \/ \E S \in SUBSET snapshots[c] : Expire(c, S)
             \/ \E rows \in SUBSET scheduled : CleanupList(c, rows)
             \/ \E d \in Catalogs, s \in snapshots[c] : ForkRead(c, d, s)
      PROVE  IInv' /\ LInv'
  <2>1. CASE BeginWrite(c)
    BY <2>1, BeginWriteStep, ListedWriteSteps, Zenon
  <2>2. CASE DropTable(c)
    BY <2>2, DropTableStep, ListedRowSteps, Zenon
  <2>3. CASE CreateCatalog(c) \/ DropBegin(c) \/ DropFails(c)
    BY <2>3, CatalogStep, ListedCatalogSteps, Zenon
  <2>4. CASE DropCommit(c)
    BY <2>4, DropCommitStep, ListedCatalogSteps, Zenon
  <2>5. CASE \E S \in SUBSET snapshots[c] : Expire(c, S)
    BY <2>5, ExpireStep, ListedRowSteps, Zenon
  <2>6. CASE \E rows \in SUBSET scheduled : CleanupList(c, rows)
    BY <2>6, CleanupListStep, ListedCleanupSteps, Zenon
  <2>7. CASE \E d \in Catalogs, s \in snapshots[c] : ForkRead(c, d, s)
    BY <2>7, ForkReadStep, ListedForkSteps, Zenon
  <2> QED
    BY <1>1, <2>1, <2>2, <2>3, <2>4, <2>5, <2>6, <2>7, Zenon
<1>2. CASE (\E c \in Catalogs : Upload(Layout(c))) \/ Upload(Elsewhere)
  BY <1>0, <1>2, UploadStep, ListedWriteSteps, Zenon
<1>3. CASE CommitWrite
  BY <1>3, CommitWriteStep, ListedRowSteps, Zenon
<1>4. CASE WriteFails
  BY <1>4, WriteFailsStep, ListedRowSteps, Zenon
<1>5. CASE ForkUpload \/ ForkCommit \/ ForkFails
  BY <1>5, ForkUploadStep, ForkCommitStep, ForkFailsStep, ListedForkSteps, Zenon
<1>6. CASE CleanupLayouts \/ CleanupReferences \/ CleanupDelete \/ CleanupRemove \/ CleanupFails
  BY <1>6, CleanupLayoutsStep, CleanupReferencesStep, CleanupDeleteStep, CleanupEndStep,
     ListedCleanupSteps, Zenon
<1>7. CASE \E root \in ListedRoots, all \in BOOLEAN : SweepBegin(root, all)
  BY <1>7, SweepBeginStep, ListedSweepSteps, Zenon
<1>8. CASE \/ SweepNow \/ SweepReferences \/ SweepList \/ SweepDelete \/ SweepEnd \/ SweepFails
  <2>1. IInv'
    BY <1>8, SweepNowStep, SweepReferencesStep, SweepListStep, SweepDeleteStep, SweepEndStep, Zenon
  <2> QED
    BY <1>8, <2>1, ListedSweepSteps, Zenon
<1> QED
  BY <1>1, <1>2, <1>3, <1>4, <1>5, <1>6, <1>7, <1>8, Zenon

\* The invariants hold in every state of every store.
THEOREM ObjectInvariants == Spec => [](IInv /\ LInv)
<1>1. Init => IInv /\ LInv
  BY InitInv, InitListed, Zenon
<1>2. IInv /\ LInv /\ [Next]_vars => IInv' /\ LInv'
  BY StutterStep, NextKeepsInv, Zenon
<1> QED
  BY <1>1, <1>2, PTL DEF Spec

\* Whatever a data or delete file row names, in its owner's catalog or in one that
\* references it, is in the store: no interleaving of writes, forks, expiry, merges,
\* cleanups, sweeps and drops, cut off anywhere, deletes it (retain_unreferenced,
\* list_referenced_paths_in_data_paths, refuse_removed_source_rows).
THEOREM NamedObjectsAreKept == Spec => []NamedObjectsExist
<1>1. IInv => NamedObjectsExist
  BY Zenon DEF IInv, RowsInv, NamedObjectsExist
<1> QED
  BY <1>1, ObjectInvariants, PTL

\* A scheduled row of a multicatalog store goes only when its object is gone or its
\* catalog is dropped (remove_scheduled_paths_in_catalog, drop_catalog).
THEOREM ScheduledRowsAreKept == Spec => ScheduledUntilGone
<1> DEFINE Kept1 == Multi => \A r \in scheduled \ scheduled' :
                                 r.obj \notin store' \/ r.cat \notin catalogs'
<1>1. IInv /\ [Next]_vars => [Kept1]_vars
  <2> SUFFICES ASSUME IInv, Next, Multi, NEW r \in scheduled, r \notin scheduled'
               PROVE  r.obj \notin store' \/ r.cat \notin catalogs'
    BY Zenon DEF vars
  <2>1. CASE CleanupRemove
    <3>1. PICK q \in cleaner.rows : q.obj = r.obj
      BY <2>1, Zenon DEF CleanupRemove, RemovedWith
    <3> QED
      BY <2>1, <3>1, Zenon DEF CleanupRemove, IInv, CleanerInv
  <2>2. ASSUME NEW c \in Catalogs, DropCommit(c)
        PROVE  r.cat \notin catalogs'
    BY <2>2, Zenon DEF DropCommit
  <2>3. CASE CommitWrite
    <3>1. PICK o \in write.objs : \/ CommitInsert(write.cat, o)
                                  \/ CommitDelete(write.cat, o)
                                  \/ CommitFlushedDelete(write.cat, o)
                                  \/ CommitMerge(write.cat, o)
      BY <2>3, Zenon DEF CommitWrite
    <3>2. CASE CommitInsert(write.cat, o) \/ CommitDelete(write.cat, o)
      BY <3>2, Zenon DEF CommitInsert, CommitDelete, RemoveRows
    <3>3. CASE CommitFlushedDelete(write.cat, o)
      BY <3>3, Zenon DEF CommitFlushedDelete, RemoveRows
    <3>4. CASE CommitMerge(write.cat, o)
      BY <3>4, Zenon DEF CommitMerge, RemoveRows
    <3> QED
      BY <3>1, <3>2, <3>3, <3>4, Zenon
  <2>4. ASSUME NEW c \in Catalogs
        PROVE  /\ ~BeginWrite(c) /\ ~DropTable(c) /\ ~CreateCatalog(c) /\ ~DropBegin(c)
               /\ ~DropFails(c) /\ ~Upload(Layout(c))
               /\ \A S \in SUBSET snapshots[c] : ~Expire(c, S)
               /\ \A rows \in SUBSET scheduled : ~CleanupList(c, rows)
               /\ \A d \in Catalogs, s \in snapshots[c] : ~ForkRead(c, d, s)
    BY Zenon DEF BeginWrite, DropTable, CreateCatalog, DropBegin, DropFails, Expire, RemoveRows,
           CleanupList, ForkRead, Upload, rowVars
  <2>5. Upload(Elsewhere) \/ WriteFails => UNCHANGED scheduled
    BY Zenon DEF Upload, WriteFails, rowVars
  <2>6. /\ ForkUpload => UNCHANGED scheduled
        /\ ForkCommit => UNCHANGED scheduled
        /\ ForkFails => UNCHANGED scheduled
    <3>1. ForkUpload => UNCHANGED scheduled
      BY Zenon DEF ForkUpload, rowVars
    <3>2. ForkCommit => UNCHANGED scheduled
      BY Zenon DEF ForkCommit
    <3>3. ForkFails => UNCHANGED scheduled
      BY Zenon DEF ForkFails, rowVars
    <3> QED
      BY <3>1, <3>2, <3>3, Zenon
  <2>7. CleanupLayouts \/ CleanupReferences \/ CleanupDelete \/ CleanupFails
            => UNCHANGED scheduled
    BY Zenon DEF CleanupLayouts, CleanupReferences, CleanupDelete, CleanupFails
  <2>8. \A root \in ListedRoots, all \in BOOLEAN : SweepBegin(root, all) => UNCHANGED scheduled
    BY Zenon DEF SweepBegin, SweeperOnly, rowVars
  <2>9. /\ SweepNow => UNCHANGED scheduled
        /\ SweepReferences => UNCHANGED scheduled
        /\ SweepList => UNCHANGED scheduled
    <3>1. SweepNow => UNCHANGED scheduled
      BY Zenon DEF SweepNow, SweeperOnly, rowVars
    <3>2. SweepReferences => UNCHANGED scheduled
      BY Zenon DEF SweepReferences, SweeperOnly, rowVars
    <3>3. SweepList => UNCHANGED scheduled
      BY Zenon DEF SweepList, SweeperOnly, rowVars
    <3> QED
      BY <3>1, <3>2, <3>3, Zenon
  <2>10. SweepDelete \/ SweepEnd \/ SweepFails => UNCHANGED scheduled
    BY Zenon DEF SweepDelete, SweepEnd, SweepFails, SweeperOnly, rowVars
  <2> QED
    BY <2>1, <2>2, <2>3, <2>4, <2>5, <2>6, <2>7, <2>8, <2>9, <2>10, Zenon DEF Next
<1> QED
  BY <1>1, ObjectInvariants, PTL DEF Spec, ScheduledUntilGone

\* In a store without forks nothing is stranded: what is left of a dropped catalog
\* stays below a root the orphan sweep lists until a sweep that takes everything has
\* removed it (drop_catalog, clear_dropped_data_paths).
THEOREM EverythingCanBeFound == Spec => []NothingStranded
<1>1. IInv /\ LInv => NothingStranded
  BY ListedIsEnough, Zenon
<1> QED
  BY <1>1, ObjectInvariants, PTL
=============================================================================
