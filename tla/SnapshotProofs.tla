--------------------------- MODULE SnapshotProofs ---------------------------
(***************************************************************************)
(* What a snapshot of TableWrites holds, for any writers, operations and   *)
(* bounds: retire_appends_since leaves the content of its base snapshot.   *)
(*                                                                         *)
(* Its purity check reads begin_snapshot and partial_max of the delete     *)
(* files, so it takes PInv: partial_max bounds the deletions of a file     *)
(* that has one.  The delete file a flush writes beside its rows has none, *)
(* which is the case the theorem leaves out.                               *)
(***************************************************************************)
EXTENDS DeleteFileProofs

\* A leaf may take its time: the provers get more than their default.
USE SMTT(30), ZenonT(30)

\* The partial_max an entry's delete file is registered with bounds its
\* deletions: redate and plan_file_deletes take the greatest of them.
LEMMA NewKnowsLatest ==
    ASSUME IInv, NEW st, StatementOK(st, Head, nextRowId),
           NEW e \in st.entries, e.how \in Writing
    PROVE  KnowsLatest(NewDeleteFile(st, e))
<1> DEFINE date  == IF e.how = "positional" THEN Own ELSE st.date
           dels  == e.carried \cup {[pos |-> p, at |-> date] : p \in e.pos}
           dates == {d.at : d \in dels}
<1>1. DeleteFileOK(NewDeleteFile(st, e), Own) /\ Own \in Nat
    BY NewDeleteFileOK, HeadIsNat DEF IInv, Writing
<1>2. NewDeleteFile(st, e).dels = dels
    BY Zenon DEF NewDeleteFile
<1>3. NewDeleteFile(st, e).partialMax = IF e.how = "positional" THEN NULL
                                        ELSE Greatest(dates)
    BY Zenon DEF NewDeleteFile
<1>4. \A d \in dels : d.at \in Nat /\ d.at <= Own
    BY <1>1, <1>2, Zenon DEF DeleteFileOK, DeleteFileRow, DatedPosition
<1>5. dates \subseteq Nat /\ \A t \in dates : t <= Own
    BY <1>4, Zenon
<1>6. \A d \in dels : d.at \in dates
    BY Zenon
<1> HIDE DEF dels, dates
<1>7. \A d \in dels : d.at <= Greatest(dates)
    BY <1>1, <1>5, <1>6, GreatestIsNat, Zenon
<1> QED
    BY <1>2, <1>3, <1>7, Zenon DEF KnowsLatest

\* So do those of every delete file after a commit that registers st's.
LEMMA AfterKnowLatest ==
    ASSUME IInv, PInv, NEW st, StatementOK(st, Head, nextRowId)
    PROVE  \A d \in DOMAIN DeleteFilesAfter(st) : KnowsLatest(DeleteFilesAfter(st)[d])
<1> DEFINE writing == {e \in st.entries : e.how \in Writing}
           added   == {<<e.file, Own>> : e \in writing}
           removed == PrevOf(st, {"rewritten", "flushed"})
           of(d)   == CHOOSE e \in writing : e.file = d[1]
           D       == DeleteFilesAfter(st)
<1>1. /\ DOMAIN D = (DOMAIN deleteFile \ removed) \cup added
      /\ \A d \in added : D[d] = NewDeleteFile(st, of(d))
      /\ \A d \in DOMAIN deleteFile \ removed : d \notin added =>
             D[d] = deleteFile[d] \/ D[d] = End(deleteFile[d])
    BY Zenon DEF DeleteFilesAfter, Writing
<1>2. \A d \in added : of(d) \in writing
    OBVIOUS
<1>3. \A d \in DOMAIN deleteFile :
          /\ End(deleteFile[d]).partialMax = deleteFile[d].partialMax
          /\ End(deleteFile[d]).dels = deleteFile[d].dels
    BY Zenon DEF IInv, CatalogOK, DeleteFileOK, DeleteFileRow, End
<1>4. \A d \in DOMAIN deleteFile : KnowsLatest(deleteFile[d]) /\ KnowsLatest(End(deleteFile[d]))
    BY <1>3, Zenon DEF PInv, KnowsLatest
<1>5. \A e \in writing : KnowsLatest(NewDeleteFile(st, e))
    BY NewKnowsLatest, Zenon
<1> HIDE DEF D, writing, added, removed, of
<1>6. \A d \in DOMAIN D : KnowsLatest(D[d])
    BY <1>1, <1>2, <1>4, <1>5, Zenon
<1> QED
    BY <1>6, Zenon DEF D

\* Ending delete files changes neither their deletions nor their partial_max.
LEMMA EndedKnowLatest ==
    ASSUME IInv, PInv, NEW D, deleteFile' = EndDeleteFiles(D) PROVE PInv'
<1>1. \A d \in DOMAIN deleteFile :
          /\ End(deleteFile[d]).partialMax = deleteFile[d].partialMax
          /\ End(deleteFile[d]).dels = deleteFile[d].dels
    BY Zenon DEF IInv, CatalogOK, DeleteFileOK, DeleteFileRow, End
<1>2. /\ DOMAIN deleteFile' = DOMAIN deleteFile
      /\ \A d \in DOMAIN deleteFile :
             deleteFile'[d] = deleteFile[d] \/ deleteFile'[d] = End(deleteFile[d])
    BY Zenon DEF EndDeleteFiles
<1> QED
    BY <1>1, <1>2, Zenon DEF PInv, KnowsLatest

\* Every way a statement proceeds or ends keeps PInv.
LEMMA SettleKnowsLatest ==
    ASSUME IInv, PInv, NEW w \in Writers, Settle(w) PROVE PInv'
<1>1. StatementOK(stmt[w], Head, nextRowId)
    BY Zenon DEF IInv, StatementsOK
<1>2. CASE CommitAppend(w) \/ CommitStaged(w) \/ CommitDirect(w)
  <2>1. deleteFile' = DeleteFilesAfter(stmt[w])
      BY <1>2, Zenon DEF CommitAppend, CommitStaged, CommitDirect, WritesRows
  <2> QED
      BY <1>1, <2>1, AfterKnowLatest, Zenon DEF PInv
<1>3. CASE \/ CommitReplace(w) \/ AcceptDisjoint(w) \/ Redate(w) \/ Refuse(w)
           \/ TruncateNothing(w)
  <2>1. deleteFile' = deleteFile
      BY <1>3, Zenon DEF CommitReplace, AcceptDisjoint, Redate, Refuse, TruncateNothing,
                         catalogVars
  <2> QED
      BY <2>1, Zenon DEF PInv
<1>4. CASE CommitTruncate(w) \/ CommitRewrite(w)
  <2>1. PICK D : deleteFile' = EndDeleteFiles(D)
      BY <1>4, Zenon DEF CommitTruncate, CommitRewrite
  <2> QED
      BY <2>1, EndedKnowLatest, Zenon
<1>5. CASE CommitMerge(w)
    BY <1>5, Zenon DEF CommitMerge, Without, PInv
<1>6. CASE CommitFlush(w)
  <2> DEFINE st     == stmt[w]
             beside == IF st.dels = {} THEN {} ELSE {<<Own, Own>>}
             others == DeleteFilesAfter(st)
  <2>1. deleteFile' = [d \in (DOMAIN others) \cup beside |->
                          IF d \in beside THEN BesideOutput(st) ELSE others[d]]
      BY <1>6, Zenon DEF CommitFlush
  <2>2. KnowsLatest(BesideOutput(st))
      BY Zenon DEF KnowsLatest, BesideOutput
  <2>3. \A d \in DOMAIN others : KnowsLatest(others[d])
      BY <1>1, AfterKnowLatest, Zenon
  <2> HIDE DEF st, beside, others
  <2> QED
      BY <2>1, <2>2, <2>3, Zenon DEF PInv
<1> QED
    BY <1>2, <1>3, <1>4, <1>5, <1>6, Zenon DEF Settle

\* A delete file's partial_max is never before one of its deletions.
THEOREM LatestDeletionKnown == Spec => []PInv
<1>1. Init => PInv
    BY Zenon DEF Init, PInv
<1>2. IInv /\ PInv /\ [Next]_vars => PInv'
  <2> SUFFICES ASSUME IInv, PInv, [Next]_vars PROVE PInv'
      BY Zenon
  <2>1. CASE \E w \in Writers : Begin(w)
    <3>1. \A w, op, n, limit : BeginInsert(w, op, n, limit) => deleteFile' = deleteFile
        BY Zenon DEF BeginInsert, Starts, catalogVars
    <3>2. \A w, op, b, T, limit :
              BeginMutation(w, op, b, T, limit) => deleteFile' = deleteFile
        BY Zenon DEF BeginMutation, Starts, catalogVars
    <3>3. \A w, b : BeginTruncate(w, b) \/ BeginFlush(w, b) => deleteFile' = deleteFile
        BY Zenon DEF BeginTruncate, BeginFlush, Starts, catalogVars
    <3>4. \A w, b, f : BeginRewrite(w, b, f) \/ BeginMerge(w, b, f) =>
              deleteFile' = deleteFile
        BY ZenonT(60) DEF BeginRewrite, BeginMerge, Starts, catalogVars
    <3>5. deleteFile' = deleteFile
        BY <2>1, <3>1, <3>2, <3>3, <3>4, Zenon DEF Begin
    <3> QED
        BY <3>5, Zenon DEF PInv
  <2>2. CASE \E w \in Writers : Settle(w)
      BY <2>2, SettleKnowsLatest, Zenon
  <2>3. CASE \/ Alter \/ OtherCommit \/ Quiescent \/ UNCHANGED vars
             \/ \E b \in snapshots : RetireAppends(b)
    <3>1. deleteFile' = deleteFile
        BY <2>3, Zenon DEF Alter, OtherCommit, Quiescent, RetireAppends, vars, catalogVars
    <3> QED
        BY <3>1, Zenon DEF PInv
  <2>4. CASE Drop
      BY <2>4, EndedKnowLatest, Zenon DEF Drop
  <2>5. CASE \E S \in SUBSET snapshots : Expire(S)
      BY <2>5, Zenon DEF Expire, Without, PInv
  <2> QED
      BY <2>1, <2>2, <2>3, <2>4, <2>5, Zenon DEF Next
<1> QED
    BY <1>1, <1>2, Invariance, PTL DEF Spec

-----------------------------------------------------------------------------
\* The inlined rows retire_appends_since leaves are those of b: it ends the
\* later ones, and none was ended since b.
LEMMA RetiredInlinedRows ==
    ASSUME IInv, NEW b \in snapshots, RetireAppends(b)
    PROVE  StoredInlinedAt(Head)' = StoredInlinedAt(b)
<1> DEFINE R == AppendedRows(b)
<1>1. /\ Head \in Nat /\ Own = Head + 1 /\ Own \in Nat /\ b \in Nat /\ b <= Head
      /\ Head' = Own
  <2>1. PICK tokens : Records(tokens)
      BY Zenon DEF RetireAppends
  <2>2. Head' = Own
      BY <2>1, HeadAdvances, Zenon DEF IInv
  <2> QED
      BY <2>2, HeadIsNat DEF IInv, HeadOK
<1>2. inlinedRow' = {IF r \in R THEN End(r) ELSE r : r \in inlinedRow}
    BY Zenon DEF RetireAppends, InlinedRowsAfter, NoStatement
<1>3. \A r \in inlinedRow : /\ r \in InlinedRow /\ r.begin \in Nat /\ r.end \in Nat
                           /\ r.end <= b
    BY Zenon DEF IInv, CatalogOK, InlinedRowOK, InlinedRow, RetireAppends, PureAppendSince
<1>4. \A r \in inlinedRow : VisibleAt(r, b) <=> r.begin <= b /\ r.end = NULL
    BY <1>1, <1>3 DEF VisibleAt, NULL
<1>5. \A r \in R : ~VisibleAt(End(r), Own)
  <2>1. \A r \in R : End(r).end = Own
      BY <1>3, Zenon DEF End, InlinedRow, AppendedRows, LiveInlinedRows
  <2> QED
      BY <1>1, <2>1 DEF VisibleAt, NULL
<1>6. \A r \in inlinedRow \ R : VisibleAt(r, Own) <=> VisibleAt(r, b)
    BY <1>1, <1>3, <1>4 DEF VisibleAt, AppendedRows, LiveInlinedRows, IsLive, NULL
<1>7. \A r \in R : ~VisibleAt(r, b)
    BY <1>1, <1>3 DEF VisibleAt, AppendedRows, LiveInlinedRows
<1> HIDE DEF R
<1>8. {q \in inlinedRow' : VisibleAt(q, Own)} = {q \in inlinedRow : VisibleAt(q, b)}
    BY <1>2, <1>5, <1>6, <1>7, Zenon
<1> QED
    BY <1>1, <1>8, Zenon DEF StoredInlinedAt

\* The data files it leaves are those of b, and each serves every row it holds:
\* none that began by b has a row or an end from after b.
LEMMA RetiredDataFiles ==
    ASSUME IInv, NEW b \in snapshots, RetireAppends(b)
    PROVE  /\ Head' = Own /\ Own \in Nat /\ b \in Nat /\ b < Own
           /\ DataFilesAt(Head)' = DataFilesAt(b)
           /\ \A f \in DataFilesAt(b) :
                  /\ f \in LiveDataFiles /\ dataFile'[f] = dataFile[f]
                  /\ dataFile[f].partialMax \in Nat /\ dataFile[f].partialMax <= b
<1> DEFINE F == AppendedFiles(b)
<1>1. /\ Head \in Nat /\ Own = Head + 1 /\ Own \in Nat /\ b \in Nat /\ b <= Head
      /\ Head' = Own
  <2>1. PICK tokens : Records(tokens)
      BY Zenon DEF RetireAppends
  <2>2. Head' = Own
      BY <2>1, HeadAdvances, Zenon DEF IInv
  <2> QED
      BY <2>2, HeadIsNat DEF IInv, HeadOK
<1>2. /\ DOMAIN dataFile' = DOMAIN dataFile
      /\ \A f \in DOMAIN dataFile :
             dataFile'[f] = IF f \in F THEN End(dataFile[f]) ELSE dataFile[f]
  <2>1. ~Inserts(NoStatement)
      BY DEF Inserts, NoStatement
  <2> QED
      BY <2>1, Zenon DEF RetireAppends, DataFilesAfter
<1>3. \A f \in DOMAIN dataFile :
          /\ dataFile[f] \in DataFileRow
          /\ dataFile[f].begin \in Nat /\ dataFile[f].end \in Nat
          /\ dataFile[f].partialMax \in Nat /\ dataFile[f].end <= Head
          /\ dataFile[f].begin <= b =>
                 /\ dataFile[f].end <= b
                 /\ IsLive(dataFile[f]) => dataFile[f].partialMax <= b
    BY Zenon DEF IInv, CatalogOK, DataFileOK, DataFileRow, RetireAppends, PureAppendSince
<1>4. \A f \in DOMAIN dataFile :
          VisibleAt(dataFile[f], b) <=> dataFile[f].begin <= b /\ dataFile[f].end = NULL
    BY <1>1, <1>3 DEF VisibleAt, NULL
<1>5. \A f \in F : f \in DOMAIN dataFile /\ ~VisibleAt(dataFile'[f], Own)
                  /\ ~VisibleAt(dataFile[f], b)
  <2>1. \A f \in F : /\ f \in DOMAIN dataFile /\ dataFile[f].begin > b
                    /\ dataFile'[f].end = Own
      BY <1>2, <1>3, Zenon DEF End, DataFileRow, AppendedFiles, LiveDataFiles
  <2> QED
      BY <1>1, <1>3, <2>1 DEF VisibleAt, NULL
<1>6. \A f \in DOMAIN dataFile \ F :
          VisibleAt(dataFile'[f], Own) <=> VisibleAt(dataFile[f], b)
  <2>1. \A f \in DOMAIN dataFile \ F : dataFile'[f] = dataFile[f]
      BY <1>2, Zenon
  <2>2. \A f \in DOMAIN dataFile \ F : dataFile[f].end = NULL => ~(dataFile[f].begin > b)
      BY Zenon DEF AppendedFiles, LiveDataFiles, IsLive
  <2> QED
      BY <1>1, <1>3, <1>4, <2>1, <2>2 DEF VisibleAt, NULL
<1>7. DataFilesAt(Head)' = DataFilesAt(b)
    BY <1>1, <1>2, <1>5, <1>6, Zenon DEF DataFilesAt
<1>8. \A f \in DataFilesAt(b) : /\ f \in LiveDataFiles /\ dataFile'[f] = dataFile[f]
                                /\ dataFile[f].partialMax \in Nat
                                /\ dataFile[f].partialMax <= b
  <2> HIDE DEF F
  <2> QED
      BY <1>2, <1>3, <1>4, <1>5, Zenon DEF DataFilesAt, LiveDataFiles, IsLive
<1>9. b < Own
    BY <1>1
<1> QED
    BY <1>1, <1>7, <1>8, <1>9, Zenon

\* No delete file of a file it leaves holds a deletion from after b that the
\* purity check of retire_appends_since missed.
LEMMA RetiredDeletions ==
    ASSUME IInv, DInv, PInv, NEW b \in snapshots, RetireAppends(b),
           ~FlushedDeletionSince(b), NEW f \in DataFilesAt(b)
    PROVE  /\ DeletedByFilesAt(f, Head)' = DeletedByFilesAt(f, b)
           /\ InlinedDeletesAt(f, Head)' = InlinedDeletesAt(f, b)
<1>1. /\ Head' = Own /\ Own \in Nat /\ b \in Nat /\ b < Own /\ f \in LiveDataFiles
    BY RetiredDataFiles, Zenon
<1>2. deleteFile' = deleteFile /\ inlinedDelete' = inlinedDelete
    BY Zenon DEF RetireAppends
<1>3. \A d \in DOMAIN deleteFile : d[1] = f =>
          VisibleAt(deleteFile[d], b) /\ VisibleAt(deleteFile[d], Own)
  <2>1. \A d \in DOMAIN deleteFile : /\ deleteFile[d].begin \in Nat
                                     /\ deleteFile[d].begin <= b
      BY Zenon DEF IInv, CatalogOK, DeleteFileOK, DeleteFileRow, RetireAppends,
                   PureAppendSince
  <2>2. \A d \in DOMAIN deleteFile : d[1] = f => deleteFile[d].end = NULL
      BY <1>1, Zenon DEF DInv, LiveWithItsFile, IsLive
  <2> QED
      BY <1>1, <2>1, <2>2 DEF VisibleAt
<1>4. \A d \in DOMAIN deleteFile : d[1] = f =>
          \A x \in deleteFile[d].dels : x.at <= b /\ x.at <= Own
  <2> SUFFICES ASSUME NEW d \in DOMAIN deleteFile, d[1] = f, NEW x \in deleteFile[d].dels
               PROVE  x.at <= b /\ x.at <= Own
      BY Zenon
  <2>1. /\ deleteFile[d].partialMax \in Nat /\ x.at \in Nat
        /\ deleteFile[d].partialMax <= b
      BY Zenon DEF IInv, CatalogOK, DeleteFileOK, DeleteFileRow, DatedPosition, RetireAppends,
                   PureAppendSince
  <2>2. deleteFile[d].partialMax # NULL => x.at <= deleteFile[d].partialMax
      BY Zenon DEF PInv, KnowsLatest
  <2>3. deleteFile[d].partialMax = NULL => ~(x.at > b)
      BY <1>1, Zenon DEF FlushedDeletionSince
  <2> QED
      BY <1>1, <2>1, <2>2, <2>3
<1>5. /\ DeleteFilesAt(f, b) = {d \in DOMAIN deleteFile : d[1] = f}
      /\ DeleteFilesAt(f, Head)' = {d \in DOMAIN deleteFile : d[1] = f}
    BY <1>1, <1>2, <1>3, Zenon DEF DeleteFilesAt
<1> DEFINE D == {d \in DOMAIN deleteFile : d[1] = f}
<1>6. \A x \in EntriesOf(D) : x.at <= b /\ x.at <= Own
    BY <1>4, Zenon DEF EntriesOf
<1>7. EntriesOf(DeleteFilesAt(f, Head))' = EntriesOf(D)
    BY <1>2, <1>5, Zenon DEF EntriesOf
<1>8. DeletedByFilesAt(f, b) = PositionsOf(EntriesOf(D))
  <2>1. {x \in EntriesOf(DeleteFilesAt(f, b)) : x.at <= b} = EntriesOf(D)
      BY <1>5, <1>6, Zenon
  <2> QED
      BY <2>1, Zenon DEF DeletedByFilesAt
<1>9. DeletedByFilesAt(f, Head)' = PositionsOf(EntriesOf(D))
  <2> DEFINE E == EntriesOf(D)
  <2> HIDE DEF D, E
  <2>1. {x \in E : x.at <= Own} = E
      BY <1>6, Zenon DEF E
  <2> QED
      BY <1>1, <1>7, <2>1, Zenon DEF DeletedByFilesAt, PositionsOf, E
<1>10. InlinedDeletesAt(f, Head)' = InlinedDeletesAt(f, b)
  <2>1. \A i \in inlinedDelete : i.begin \in Nat /\ i.begin <= b
      BY Zenon DEF IInv, CatalogOK, InlinedDeleteOK, InlinedDelete, RetireAppends,
                   PureAppendSince
  <2>2. \A i \in inlinedDelete : i.begin <= b /\ i.begin <= Own
      BY <1>1, <2>1
  <2> QED
      BY <1>1, <1>2, <2>2, Zenon DEF InlinedDeletesAt
<1> QED
    BY <1>8, <1>9, <1>10, Zenon

\* retire_appends_since leaves the content of its base snapshot, unless a flush
\* wrote a later deletion into a delete file it cannot date.
THEOREM RetirementRestores == Spec => RetireRestoresUnlessFlushed
<1> DEFINE Restores ==
        \A b \in snapshots : RetireAppends(b) /\ ~FlushedDeletionSince(b) =>
            ContentAt(Head)' = ContentAt(b)
<1>1. ASSUME IInv, DInv, PInv PROVE Restores
  <2> SUFFICES ASSUME NEW b \in snapshots, RetireAppends(b), ~FlushedDeletionSince(b)
               PROVE  ContentAt(Head)' = ContentAt(b)
      BY Zenon
  <2>1. /\ Head' = Own /\ Own \in Nat /\ b \in Nat /\ b < Own
        /\ DataFilesAt(Head)' = DataFilesAt(b)
      BY <1>1, RetiredDataFiles, Zenon
  <2>2. StoredInlinedAt(Head)' = StoredInlinedAt(b)
      BY <1>1, RetiredInlinedRows, Zenon
  <2>3. \A f \in DataFilesAt(b) : LivePositionsAt(f, Head)' = LivePositionsAt(f, b)
    <3> SUFFICES ASSUME NEW f \in DataFilesAt(b)
                 PROVE  LivePositionsAt(f, Head)' = LivePositionsAt(f, b)
        BY Zenon
    <3>1. /\ DeletedByFilesAt(f, Head)' = DeletedByFilesAt(f, b)
          /\ InlinedDeletesAt(f, Head)' = InlinedDeletesAt(f, b)
        BY <1>1, RetiredDeletions, Zenon
    <3>2. /\ dataFile'[f] = dataFile[f] /\ dataFile[f].partialMax \in Nat
          /\ dataFile[f].partialMax <= b
        BY <1>1, RetiredDataFiles, Zenon
    <3>3. b >= dataFile[f].partialMax /\ Own >= dataFile[f].partialMax
        BY <2>1, <3>2
    <3>4. \A p : OriginVisible(f, p, b) /\ OriginVisible(f, p, Head)'
        BY <2>1, <3>2, <3>3, Zenon DEF OriginVisible
    <3> QED
        BY <3>1, <3>2, <3>4, Zenon DEF LivePositionsAt
  <2>4. TableExistsAt(b) /\ TableExistsAt(Head)'
      BY Zenon DEF RetireAppends, Immediate, TableExistsAt
  <2>5. ScannedAt(Head)' = ScannedAt(b)
    <3>1. {StoredIn(f, LivePositionsAt(f, Head)') : f \in DataFilesAt(b)}
              = {StoredIn(f, LivePositionsAt(f, b)) : f \in DataFilesAt(b)}
        BY <2>3, Zenon
    <3>2. ScannedAt(Head)' =
              StoredInlinedAt(Head)' \cup
                  UNION {StoredIn(f, LivePositionsAt(f, Head)') : f \in DataFilesAt(Head)'}
        BY <2>4, Zenon DEF ScannedAt, StoredIn
    <3>3. ScannedAt(b) = StoredInlinedAt(b) \cup
                             UNION {StoredIn(f, LivePositionsAt(f, b)) : f \in DataFilesAt(b)}
        BY <2>4, Zenon DEF ScannedAt
    <3> QED
        BY <2>1, <2>2, <3>1, <3>2, <3>3, Zenon
  <2> QED
      BY <2>5, Zenon DEF ContentAt
<1>2. [][Restores]_vars => RetireRestoresUnlessFlushed
    BY PTL DEF RetireRestoresUnlessFlushed
<1> QED
    BY <1>1, <1>2, Invariance, DeleteFileInvariance, LatestDeletionKnown, PTL
=============================================================================
