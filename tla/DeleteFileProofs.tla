-------------------------- MODULE DeleteFileProofs --------------------------
(***************************************************************************)
(* OneDeleteFile and NoSpuriousConflict of TableWrites, for any writers,   *)
(* operations and bounds.                                                  *)
(*                                                                         *)
(* OneDeleteFile speaks of the delete files a snapshot sees.  What the     *)
(* commits keep is more: a data file has at most one delete file row at    *)
(* all.  A commit that finds a predecessor replaces its row, and one that  *)
(* registers a delete file beside nothing (a "positional" entry) has       *)
(* checked that nothing is there.  That the check suffices takes two       *)
(* facts: the delete file of a live data file is live, so the compare-and- *)
(* swap on the live one sees it; and no delete file is empty, so a         *)
(* statement that read no deletion read no delete file.                    *)
(*                                                                         *)
(* NoSpuriousConflict rests on CInv: what a statement based on the head    *)
(* has read stands as long as the head does.  A read at the head finds     *)
(* what is live; every commit moves the head past every base; an expiry    *)
(* moves nothing and removes only ended rows, which matter to a flush of   *)
(* a retired file alone, and there a file has one delete file row.         *)
(***************************************************************************)
EXTENDS TableWritesProofs

\* A leaf may take its time: the provers get more than their default.
USE SMTT(30), ZenonT(30)

Writing == {"positional", "rewritten", "flushed"}

\* What a commit checks of an entry before it registers its delete file.
Checked(e) ==
    IF e.how = "flushed" THEN StillFlushable(e) ELSE StillCurrent(e)

-----------------------------------------------------------------------------
\* The delete file an entry registers records a deletion, and is live unless it
\* is one a flush merged for a retired file.
LEMMA NewDeleteFileIs ==
    ASSUME NEW st, NEW e, EntryOK(e, Head), RecordedOK(e), e.how \in Writing
    PROVE  /\ NewDeleteFile(st, e).dels # {}
           /\ e.how # "flushed" \/ e.fileEnd = NULL => IsLive(NewDeleteFile(st, e))
<1> DEFINE date == IF e.how = "positional" THEN Own ELSE st.date
           dels == e.carried \cup {[pos |-> p, at |-> date] : p \in e.pos}
<1>1. NewDeleteFile(st, e).dels = dels
    BY Zenon DEF NewDeleteFile
<1>2. e.pos # {} \/ e.carried # {}
    BY Zenon DEF RecordedOK, EntryOK, Writing
<1>3. dels # {}
    BY <1>2, Zenon
<1>4. NewDeleteFile(st, e).end = IF e.how = "positional" THEN NULL ELSE e.delEnd
    BY Zenon DEF NewDeleteFile
<1> QED
    BY <1>1, <1>3, <1>4, Zenon DEF IsLive, RecordedOK, Writing

\* A checked entry knows every delete file of its data file: the commit's
\* compare-and-swap leaves no other one behind.
LEMMA CheckedKnows ==
    ASSUME IInv, DInv, NEW e, RecordedOK(e), e.how \in Writing, Checked(e),
           NEW d \in DOMAIN deleteFile, d[1] = e.file
    PROVE  d \in e.prev /\ e.how # "positional"
<1>1. CASE e.how # "flushed"
  <2>1. e.file \in LiveDataFiles /\ LiveDeleteFile(e.file) = e.prev
      BY <1>1, Zenon DEF Checked, StillCurrent
  <2>2. d \in LiveDeleteFile(e.file)
      BY <2>1, Zenon DEF DInv, LiveWithItsFile, LiveDeleteFile
  <2> QED
      BY <2>1, <2>2, Zenon DEF RecordedOK
<1>2. CASE e.how = "flushed"
  <2> DEFINE D == {x \in DeleteFilesOf({e.file}) :
                      e.fileEnd # NULL \/ IsLive(deleteFile[x])}
  <2>1. /\ e.file \in DOMAIN dataFile /\ dataFile[e.file].end = e.fileEnd
        /\ e.prev = {x \in D : \A o \in D : deleteFile[o].begin <= deleteFile[x].begin}
      BY <1>2, Zenon DEF Checked, StillFlushable
  <2>2. e.fileEnd = NULL => IsLive(deleteFile[d])
      BY <2>1, Zenon DEF DInv, LiveWithItsFile, LiveDataFiles, IsLive
  <2>3. d \in D
      BY <2>2, Zenon DEF DeleteFilesOf
  <2>4. \A o \in D : o = d
      BY Zenon DEF DeleteFilesOf, DInv, SingleDeleteFile
  <2>5. deleteFile[d].begin \in Nat
      BY Zenon DEF IInv, CatalogOK, DeleteFileOK, DeleteFileRow
  <2> HIDE DEF D
  <2>6. d \in e.prev
      BY <2>1, <2>3, <2>4, <2>5
  <2> QED
      BY <1>2, <2>6, Zenon
<1> QED
    BY <1>1, <1>2, Zenon

\* What DeleteFilesAfter leaves when every entry that registers a delete file
\* has been checked; Live are the data files live after the commit.
LEMMA DeleteFilesAfterSingle ==
    ASSUME IInv, DInv, NEW st, StatementOK(st, Head, nextRowId),
           \A e \in st.entries : RecordedOK(e),
           \A e \in st.entries : e.how \in Writing => Checked(e),
           NEW Live, \A f \in Live : f \in 1 .. Head => f \in LiveDataFiles
    PROVE  LET D == DeleteFilesAfter(st)
           IN  /\ \A d \in DOMAIN D : d[1] \in 1 .. Head
               /\ \A c, d \in DOMAIN D : c[1] = d[1] => c = d
               /\ \A d \in DOMAIN D : D[d].dels # {}
               /\ \A d \in DOMAIN D : d[1] \in Live => IsLive(D[d])
<1> DEFINE D       == DeleteFilesAfter(st)
           writing == {e \in st.entries : e.how \in Writing}
           added   == {<<e.file, Own>> : e \in writing}
           removed == PrevOf(st, {"rewritten", "flushed"})
           of(d)   == CHOOSE e \in writing : e.file = d[1]
<1>1. /\ DOMAIN D = (DOMAIN deleteFile \ removed) \cup added
      /\ \A d \in added : D[d] = NewDeleteFile(st, of(d))
      /\ \A d \in DOMAIN deleteFile \ removed : d \notin added =>
             D[d] = IF d \in PrevOf(st, {"positional"}) THEN End(deleteFile[d])
                    ELSE deleteFile[d]
    BY Zenon DEF DeleteFilesAfter, Writing
<1>2. \A d \in added : /\ of(d) \in writing /\ of(d).file = d[1]
                       /\ d = <<d[1], Own>>
    OBVIOUS
<1>3. PrevOf(st, {"positional"}) = {}
    BY Zenon DEF PrevOf, RecordedOK
<1>4. \A e \in writing : /\ EntryOK(e, Head) /\ RecordedOK(e) /\ Checked(e)
                         /\ e.how \in Writing /\ e.file \in 1 .. Head
    BY Zenon DEF StatementOK, EntryOK
<1>5. \A d \in DOMAIN deleteFile : d[1] \in 1 .. Head
    BY Zenon DEF IInv, CatalogOK
<1>6. \A e \in writing : \A d \in DOMAIN deleteFile : d[1] = e.file => d \in removed
  <2> SUFFICES ASSUME NEW e \in writing, NEW d \in DOMAIN deleteFile, d[1] = e.file
               PROVE  d \in removed
      BY Zenon
  <2>1. d \in e.prev /\ e.how # "positional"
      BY <1>4, CheckedKnows, Zenon
  <2> QED
      BY <2>1, <1>4, Zenon DEF PrevOf, Writing
<1> HIDE DEF D, added, writing, removed, of
<1>7. \A d \in DOMAIN D : d[1] \in 1 .. Head
    BY <1>1, <1>2, <1>4, <1>5, Zenon
<1>8. \A c, d \in DOMAIN D : c[1] = d[1] => c = d
  <2>1. \A c, d \in DOMAIN deleteFile : c[1] = d[1] => c = d
      BY Zenon DEF DInv, SingleDeleteFile
  <2>2. \A c \in DOMAIN deleteFile \ removed : \A d \in added : c[1] # d[1]
      BY <1>2, <1>6, Zenon
  <2> QED
      BY <1>1, <1>2, <2>1, <2>2
<1>9. \A d \in DOMAIN deleteFile \ removed : d \notin added => D[d] = deleteFile[d]
    BY <1>1, <1>3, Zenon
<1>10. \A d \in added : D[d].dels # {}
    BY <1>1, <1>2, <1>4, NewDeleteFileIs
<1>11. \A d \in DOMAIN D : D[d].dels # {}
    BY <1>1, <1>9, <1>10, Zenon DEF DInv, NoneEmpty
<1>12. \A d \in added : d[1] \in Live => IsLive(D[d])
  <2> SUFFICES ASSUME NEW d \in added, d[1] \in Live PROVE IsLive(D[d])
      BY Zenon
  <2>1. of(d) \in writing /\ of(d).file = d[1] /\ d[1] \in LiveDataFiles
      BY <1>2, <1>4, Zenon
  <2>2. of(d).how = "flushed" => of(d).fileEnd = NULL
      BY <2>1, <1>4, Zenon DEF Checked, StillFlushable, LiveDataFiles, IsLive
  <2> QED
      BY <1>1, <1>4, <2>1, <2>2, NewDeleteFileIs
<1>13. \A d \in DOMAIN D : d[1] \in Live => IsLive(D[d])
    BY <1>1, <1>5, <1>9, <1>12, Zenon DEF DInv, LiveWithItsFile
<1> QED
    BY <1>7, <1>8, <1>11, <1>13, Zenon DEF D

-----------------------------------------------------------------------------
\* A data file other than a commit's own is live after DataFilesAfter only if
\* it was live before and the commit does not end it.
LEMMA LiveAfter ==
    ASSUME IInv, NEW st, NEW F,
           NEW f \in DOMAIN DataFilesAfter(st, F), f # Own,
           IsLive(DataFilesAfter(st, F)[f])
    PROVE  f \in LiveDataFiles \ F
<1>1. Head \in Nat /\ Own \in Nat /\ Own # NULL
    BY HeadIsNat DEF IInv, NULL
<1>2. f \in DOMAIN dataFile
    BY Zenon DEF DataFilesAfter
<1>3. DataFilesAfter(st, F)[f] = IF f \in F THEN End(dataFile[f]) ELSE dataFile[f]
    BY <1>2, Zenon DEF DataFilesAfter
<1>4. dataFile[f] \in DataFileRow
    BY <1>2, Zenon DEF IInv, CatalogOK, DataFileOK
<1>5. End(dataFile[f]).end = Own
    BY <1>4, Zenon DEF End, DataFileRow
<1> QED
    BY <1>1, <1>2, <1>3, <1>5, Zenon DEF IsLive, LiveDataFiles

\* A data file other than the output is live beside it only if it was live.
LEMMA LiveWithOutput ==
    ASSUME NEW st, NEW files, NEW f \in DOMAIN WithOutput(st, files), f # Own
    PROVE  f \in DOMAIN files /\ WithOutput(st, files)[f] = files[f]
BY Zenon DEF WithOutput

\* Ending delete files keeps them one per data file, and none empty.
LEMMA EndedDeleteFiles ==
    ASSUME IInv, DInv, NEW D
    PROVE  LET E == EndDeleteFiles(D)
           IN  /\ DOMAIN E = DOMAIN deleteFile
               /\ \A d \in DOMAIN E : E[d].dels # {}
               /\ \A d \in DOMAIN E : d \notin D => E[d] = deleteFile[d]
<1>1. \A d \in DOMAIN deleteFile : deleteFile[d] \in DeleteFileRow
    BY Zenon DEF IInv, CatalogOK, DeleteFileOK
<1>2. \A d \in DOMAIN deleteFile : End(deleteFile[d]).dels = deleteFile[d].dels
    BY <1>1, Zenon DEF End, DeleteFileRow
<1> QED
    BY <1>2, Zenon DEF EndDeleteFiles, DInv, NoneEmpty

\* No delete file belongs to the data file of a commit to come.
LEMMA NoneOfOwn == ASSUME IInv PROVE \A d \in DOMAIN deleteFile : d[1] # Own
<1>1. Head \in Nat /\ Own = Head + 1
    BY HeadIsNat, Zenon DEF IInv
<1>2. \A d \in DOMAIN deleteFile : d[1] \in 1 .. Head
    BY Zenon DEF IInv, CatalogOK
<1> QED
    BY <1>1, <1>2

\* A settled statement carries nothing.
LEMMA SettledRecords ==
    ASSUME IInv, RecordsOK, NEW w \in Writers, Settles(w) PROVE RecordsOK'
<1>1. stmt' = [stmt EXCEPT ![w] = NoStatement] /\ stmt = [v \in Writers |-> stmt[v]]
    BY Zenon DEF Settles, IInv, StatementsOK
<1>2. \A v \in Writers : stmt'[v] = IF v = w THEN NoStatement ELSE stmt[v]
    BY <1>1, Zenon
<1>3. NoStatement.entries = {}
    BY Zenon DEF NoStatement
<1> QED
    BY <1>2, <1>3, Zenon DEF RecordsOK

\* A statement that begins carries what is asked of its entries.
LEMMA BegunRecords ==
    ASSUME IInv, DInv, NEW w \in Writers, NEW st,
           stmt' = [stmt EXCEPT ![w] = st], UNCHANGED catalogVars,
           \A e \in st.entries : RecordedOK(e)
    PROVE  DInv'
<1>1. dataFile' = dataFile /\ deleteFile' = deleteFile
    BY Zenon DEF catalogVars
<1>2. stmt = [v \in Writers |-> stmt[v]]
    BY Zenon DEF IInv, StatementsOK
<1>3. \A v \in Writers : stmt'[v] = IF v = w THEN st ELSE stmt[v]
    BY <1>2, Zenon
<1>4. RecordsOK'
    BY <1>3, Zenon DEF DInv, RecordsOK
<1> QED
    BY <1>1, <1>4, Zenon DEF DInv, SingleDeleteFile, LiveWithItsFile, LiveDataFiles, NoneEmpty

-----------------------------------------------------------------------------
\* A commit that writes st's rows and deletions keeps one delete file per file.
LEMMA WritesRowsSingle ==
    ASSUME IInv, DInv, NEW w \in Writers, WritesRows(stmt[w]), Settles(w),
           \A e \in stmt[w].entries : e.how \in Writing => Checked(e)
    PROVE  DInv'
<1> DEFINE st   == stmt[w]
           Live == {f \in DOMAIN dataFile' : IsLive(dataFile'[f])}
<1>1. /\ dataFile' = DataFilesAfter(st, FilesOf(st, "dropped"))
      /\ deleteFile' = DeleteFilesAfter(st)
    BY Zenon DEF WritesRows
<1>2. Head \in Nat /\ Own = Head + 1
    BY HeadIsNat, Zenon DEF IInv
<1>3. \A f \in Live : f \in 1 .. Head => f \in LiveDataFiles
  <2> SUFFICES ASSUME NEW f \in Live, f \in 1 .. Head PROVE f \in LiveDataFiles
      BY Zenon
  <2>1. f # Own
      BY <1>2
  <2> QED
      BY <1>1, <2>1, LiveAfter, Zenon
<1>4. StatementOK(st, Head, nextRowId) /\ \A e \in st.entries : RecordedOK(e)
    BY Zenon DEF IInv, StatementsOK, DInv, RecordsOK
<1>5. LiveDataFiles' = Live
    BY Zenon DEF LiveDataFiles
<1> HIDE DEF Live, st
<1>6. /\ \A c, d \in DOMAIN deleteFile' : c[1] = d[1] => c = d
      /\ \A d \in DOMAIN deleteFile' : deleteFile'[d].dels # {}
      /\ \A d \in DOMAIN deleteFile' : d[1] \in Live => IsLive(deleteFile'[d])
    BY <1>1, <1>3, <1>4, DeleteFilesAfterSingle, Zenon DEF st
<1>7. RecordsOK'
    BY SettledRecords, Zenon DEF DInv
<1> QED
    BY <1>5, <1>6, <1>7, Zenon DEF DInv, SingleDeleteFile, LiveWithItsFile, NoneEmpty

\* INSERT, DELETE and UPDATE keep one delete file per data file.
LEMMA CommitRowsSingle ==
    ASSUME IInv, DInv, NEW w \in Writers,
           CommitAppend(w) \/ CommitStaged(w) \/ CommitDirect(w)
    PROVE  DInv'
<1>1. WritesRows(stmt[w]) /\ Settles(w)
    BY Zenon DEF CommitAppend, CommitStaged, CommitDirect
<1>2. \A e \in stmt[w].entries : e.how \in Writing => Checked(e)
  <2>1. StatementOK(stmt[w], Head, nextRowId)
      BY Zenon DEF IInv, StatementsOK
  <2>2. CASE CommitAppend(w)
      BY <2>1, <2>2, Zenon DEF CommitAppend, StatementOK
  <2>3. CASE CommitStaged(w) \/ CommitDirect(w)
    <3>1. /\ stmt[w].op \in {"delete", "update"}
          /\ \A e \in stmt[w].entries : StillCurrent(e)
        BY <2>3, Zenon DEF CommitStaged, CanCommitStaged, CommitDirect, CanCommitDirect
    <3>2. \A e \in stmt[w].entries : e.how # "flushed"
        BY <2>1, <3>1, Zenon DEF StatementOK
    <3> QED
        BY <3>1, <3>2, Zenon DEF Checked
  <2> QED
      BY <2>2, <2>3, Zenon
<1> QED
    BY <1>1, <1>2, WritesRowsSingle, Zenon

\* INSERT OVERWRITE leaves the delete files of what it retires as they are.
LEMMA CommitReplaceSingle ==
    ASSUME IInv, DInv, NEW w \in Writers, CommitReplace(w) PROVE DInv'
<1>1. /\ dataFile' = DataFilesAfter(stmt[w], LiveDataFiles)
      /\ deleteFile' = deleteFile /\ Settles(w)
    BY Zenon DEF CommitReplace
<1>2. \A f \in LiveDataFiles' : f # Own => f \in LiveDataFiles
    BY <1>1, LiveAfter, Zenon DEF LiveDataFiles
<1>3. LiveWithItsFile'
    BY <1>1, <1>2, NoneOfOwn, Zenon DEF DInv, LiveWithItsFile
<1> QED
    BY <1>1, <1>3, SettledRecords, Zenon DEF DInv, SingleDeleteFile, NoneEmpty

\* TRUNCATE and DROP TABLE end the live delete files with the live data files.
LEMMA EndsAllSingle ==
    ASSUME IInv, DInv, RecordsOK', NEW st,
           dataFile' = DataFilesAfter(st, LiveDataFiles),
           deleteFile' = EndDeleteFiles(LiveDeleteFiles)
    PROVE  DInv'
<1>1. \A f \in LiveDataFiles' : f = Own
    BY LiveAfter, Zenon DEF LiveDataFiles
<1>2. /\ DOMAIN deleteFile' = DOMAIN deleteFile
      /\ \A d \in DOMAIN deleteFile' : deleteFile'[d].dels # {}
    BY EndedDeleteFiles, Zenon
<1>3. LiveWithItsFile'
    BY <1>1, <1>2, NoneOfOwn, Zenon DEF LiveWithItsFile
<1> QED
    BY <1>2, <1>3, Zenon DEF DInv, SingleDeleteFile, NoneEmpty

\* merge_adjacent_files takes its sources' delete files with them.
LEMMA CommitMergeSingle ==
    ASSUME IInv, DInv, NEW w \in Writers, CommitMerge(w) PROVE DInv'
<1> DEFINE F == FilesOf(stmt[w], "source")
           D == DeleteFilesOf(F)
<1>1. /\ dataFile' = WithOutput(stmt[w], Without(dataFile, F))
      /\ deleteFile' = Without(deleteFile, D) /\ Settles(w)
    BY Zenon DEF CommitMerge
<1> HIDE DEF F, D
<1>2. \A f \in LiveDataFiles' : f # Own => f \in LiveDataFiles
  <2>1. \A f \in DOMAIN dataFile' : f # Own =>
            f \in DOMAIN dataFile /\ dataFile'[f] = dataFile[f]
      BY <1>1, LiveWithOutput DEF Without
  <2> QED
      BY <2>1, Zenon DEF LiveDataFiles
<1>3. /\ DOMAIN deleteFile' \subseteq DOMAIN deleteFile
      /\ \A d \in DOMAIN deleteFile' : deleteFile'[d] = deleteFile[d]
    BY <1>1, Zenon DEF Without
<1>4. LiveWithItsFile'
    BY <1>2, <1>3, NoneOfOwn, Zenon DEF DInv, LiveWithItsFile
<1> QED
    BY <1>1, <1>3, <1>4, SettledRecords, Zenon DEF DInv, SingleDeleteFile, NoneEmpty

\* rewrite_data_files ends its sources' delete files with them.
LEMMA CommitRewriteSingle ==
    ASSUME IInv, DInv, NEW w \in Writers, CommitRewrite(w) PROVE DInv'
<1> DEFINE F == FilesOf(stmt[w], "source")
           D == DeleteFilesOf(F) \cap LiveDeleteFiles
<1>1. /\ dataFile' = WithOutput(stmt[w], DataFilesAfter(stmt[w], F))
      /\ deleteFile' = EndDeleteFiles(D) /\ Settles(w)
    BY Zenon DEF CommitRewrite
<1>2. \A d \in D : d[1] \in F
    BY Zenon DEF DeleteFilesOf
<1> HIDE DEF F, D
<1>3. \A f \in LiveDataFiles' : f # Own => f \in LiveDataFiles \ F
  <2>1. \A f \in DOMAIN dataFile' : f # Own =>
            /\ f \in DOMAIN DataFilesAfter(stmt[w], F)
            /\ dataFile'[f] = DataFilesAfter(stmt[w], F)[f]
      BY <1>1, LiveWithOutput
  <2>2. \A f \in LiveDataFiles' : f \in DOMAIN dataFile' /\ IsLive(dataFile'[f])
      BY Zenon DEF LiveDataFiles
  <2> QED
      BY <2>1, <2>2, LiveAfter, Zenon
<1>4. /\ DOMAIN deleteFile' = DOMAIN deleteFile
      /\ \A d \in DOMAIN deleteFile' : deleteFile'[d].dels # {}
      /\ \A d \in DOMAIN deleteFile' : d \notin D => deleteFile'[d] = deleteFile[d]
    BY <1>1, EndedDeleteFiles, Zenon
<1>5. LiveWithItsFile'
    BY <1>2, <1>3, <1>4, NoneOfOwn, Zenon DEF DInv, LiveWithItsFile
<1> QED
    BY <1>1, <1>4, <1>5, SettledRecords, Zenon DEF DInv, SingleDeleteFile, NoneEmpty

\* flush_inlined_data replaces the delete files it merges into, and registers
\* one beside the file it writes.
LEMMA CommitFlushSingle ==
    ASSUME IInv, DInv, NEW w \in Writers, CommitFlush(w) PROVE DInv'
<1> DEFINE st     == stmt[w]
           Live   == {f \in DOMAIN dataFile' : IsLive(dataFile'[f])}
           beside == IF st.dels = {} THEN {} ELSE {<<Own, Own>>}
           others == DeleteFilesAfter(st)
<1>1. /\ dataFile' = WithOutput(st, dataFile) /\ Settles(w) /\ st.op = "flush"
      /\ \A e \in st.entries : StillFlushable(e)
      /\ deleteFile' = [d \in (DOMAIN others) \cup beside |->
                           IF d \in beside THEN BesideOutput(st) ELSE others[d]]
    BY Zenon DEF CommitFlush, CanFlush
<1>2. Head \in Nat /\ Own = Head + 1
    BY HeadIsNat, Zenon DEF IInv
<1>3. \A f \in Live : f \in 1 .. Head => f \in LiveDataFiles
  <2>1. \A f \in DOMAIN dataFile' : f # Own =>
            f \in DOMAIN dataFile /\ dataFile'[f] = dataFile[f]
      BY <1>1, LiveWithOutput
  <2> QED
      BY <1>2, <2>1 DEF LiveDataFiles
<1>4. StatementOK(st, Head, nextRowId) /\ \A e \in st.entries : RecordedOK(e)
    BY Zenon DEF IInv, StatementsOK, DInv, RecordsOK
<1>5. \A e \in st.entries : e.how \in Writing => Checked(e)
    BY <1>1, <1>4, Zenon DEF StatementOK, Checked
<1>6. /\ \A d \in beside : d = <<Own, Own>> /\ st.dels # {}
      /\ BesideOutput(st).dels = st.dels /\ IsLive(BesideOutput(st))
    BY Zenon DEF BesideOutput, IsLive
<1>7. LiveDataFiles' = Live
    BY Zenon DEF LiveDataFiles
<1> HIDE DEF Live, beside
<1>8. /\ \A d \in DOMAIN others : d[1] \in 1 .. Head
      /\ \A c, d \in DOMAIN others : c[1] = d[1] => c = d
      /\ \A d \in DOMAIN others : others[d].dels # {}
      /\ \A d \in DOMAIN others : d[1] \in Live => IsLive(others[d])
    BY <1>3, <1>4, <1>5, DeleteFilesAfterSingle, Zenon
<1> HIDE DEF others, st
<1>9. \A d \in beside : d[1] = Own /\ d[1] \notin 1 .. Head
    BY <1>2, <1>6
<1>10. /\ DOMAIN deleteFile' = DOMAIN others \cup beside
       /\ \A d \in beside : deleteFile'[d] = BesideOutput(st)
       /\ \A d \in DOMAIN others : deleteFile'[d] = others[d]
    BY <1>1, <1>8, <1>9, Zenon
<1>11. SingleDeleteFile'
    BY <1>6, <1>8, <1>9, <1>10 DEF SingleDeleteFile
<1>12. NoneEmpty'
    BY <1>6, <1>8, <1>10, Zenon DEF NoneEmpty
<1>13. LiveWithItsFile'
    BY <1>6, <1>7, <1>8, <1>10, Zenon DEF LiveWithItsFile
<1> QED
    BY <1>1, <1>11, <1>12, <1>13, SettledRecords, Zenon DEF DInv

-----------------------------------------------------------------------------
\* FileDeletions::record registers a delete file beside nothing only when the
\* snapshot the statement reads shows no delete file.
LEMMA RecordDeletionRecords ==
    ASSUME DInv, NEW f, NEW pos, pos # {}, NEW limit, NEW b
    PROVE  RecordedOK(RecordDeletion(f, pos, limit, b))
<1> DEFINE e    == RecordDeletion(f, pos, limit, b)
           prev == DeleteFilesAt(f, b)
<1>1. /\ e.prev = prev /\ e.pos = pos /\ e.delEnd = NULL
      /\ e.how = HowRecorded(f, pos, EntriesOf(prev), limit)
    BY Zenon DEF RecordDeletion
<1>2. /\ e.how # "flushed"
      /\ e.how = "positional" => EntriesOf(prev) = {}
    BY <1>1, Zenon DEF HowRecorded
<1>3. EntriesOf(prev) = {} => prev = {}
  <2>1. \A d \in prev : deleteFile[d].dels # {} /\ deleteFile[d].dels \subseteq EntriesOf(prev)
      BY Zenon DEF DeleteFilesAt, EntriesOf, DInv, NoneEmpty
  <2> QED
      BY <2>1, Zenon
<1> HIDE DEF e, prev
<1>4. RecordedOK(e)
    BY <1>1, <1>2, <1>3, Zenon DEF RecordedOK
<1> QED
    BY <1>4, Zenon DEF e

\* A DELETE or UPDATE that begins carries what is asked of its entries.
LEMMA BeginMutationSingle ==
    ASSUME IInv, DInv, NEW w \in Writers, NEW op, NEW b, NEW T, NEW limit,
           BeginMutation(w, op, b, T, limit)
    PROVE  DInv'
<1> DEFINE files   == {t.in : t \in T} \ {NULL}
           at(f)   == {t.row : t \in {u \in T : u.in = f}}
           entries == {RecordDeletion(f, at(f), limit, b) : f \in files}
           rids    == {t.row.rid : t \in T}
           st      == [NoStatement EXCEPT !.op = op, !.base = b,
                          !.kept = IF op = "update" THEN rids ELSE {},
                          !.inline = op = "update" /\ Cardinality(T) <= limit,
                          !.entries = entries,
                          !.ended = {r.rid : r \in at(NULL)},
                          !.date = Head + 1,
                          !.targets = {VersionOf(t.row) : t \in T}]
<1>1. stmt' = [stmt EXCEPT ![w] = st] /\ UNCHANGED catalogVars
    BY Zenon DEF BeginMutation, Starts
<1>2. st.entries = entries
    BY Zenon DEF NoStatement
<1>3. \A f \in files : at(f) # {}
    BY Zenon
<1>4. \A f \in files : RecordedOK(RecordDeletion(f, at(f), limit, b))
    BY <1>3, RecordDeletionRecords, Zenon
<1>5. \A e \in entries : RecordedOK(e)
    BY <1>4, Zenon
<1> HIDE DEF st, entries
<1> QED
    BY <1>1, <1>2, <1>5, BegunRecords, Zenon

\* A flush that begins carries what is asked of its entries.
LEMMA BeginFlushSingle ==
    ASSUME IInv, DInv, NEW w \in Writers, NEW b, BeginFlush(w, b) PROVE DInv'
<1> DEFINE rows    == {r \in inlinedRow : r.begin <= b}
           files   == {f \in DOMAIN dataFile : /\ dataFile[f].begin <= b
                                               /\ InlinedDeletionsOf(f, b) # {}}
           entries == {e \in {FlushEntry(f, b) : f \in files} : ~StaysInlined(e, b)}
           origins == {r.begin : r \in rows}
           st      == [NoStatement EXCEPT !.op = "flush", !.base = b, !.entries = entries,
                          !.out = {InlinedAsRow(r) : r \in rows},
                          !.outBegin = IF rows = {} THEN NULL ELSE Least(origins),
                          !.outMax = IF rows = {} THEN NULL ELSE Greatest(origins),
                          !.dels = {[pos |-> InlinedAsRow(r), at |-> r.end] :
                                       r \in {q \in rows : q.end # NULL}}]
<1>1. stmt' = [stmt EXCEPT ![w] = st] /\ UNCHANGED catalogVars
    BY Zenon DEF BeginFlush, Starts
<1>2. st.entries = entries
    BY Zenon DEF NoStatement
<1>3. \A f : /\ FlushEntry(f, b).how = "flushed"
             /\ FlushEntry(f, b).fileEnd = NULL => FlushEntry(f, b).delEnd = NULL
    BY Zenon DEF FlushEntry
<1>4. \A e \in entries : RecordedOK(e)
    BY <1>3, Zenon DEF RecordedOK
<1> HIDE DEF st, entries
<1> QED
    BY <1>1, <1>2, <1>4, BegunRecords, Zenon

\* A merge or rewrite that begins registers no delete file.
LEMMA BeginCompactionSingle ==
    ASSUME IInv, DInv, NEW w \in Writers, NEW b, NEW F,
           BeginMerge(w, b, F) \/ BeginRewrite(w, b, F)
    PROVE  DInv'
<1>1. \A f, prev : RecordedOK(SourceEntry(f, prev))
    BY Zenon DEF RecordedOK, SourceEntry
<1>2. CASE BeginMerge(w, b, F)
  <2> DEFINE begins  == {dataFile[f].begin : f \in F}
             maxes   == {LatestOrigin(f) : f \in F}
             partial == \/ Least(begins) # Greatest(maxes)
                        \/ \E f \in F : dataFile[f].partialMax # NULL
             originIn(f, p) == IF ~partial THEN 0
                               ELSE IF dataFile[f].partialMax # NULL THEN p.origin
                               ELSE dataFile[f].begin
             entries == {SourceEntry(f, {}) : f \in F}
             st      == [NoStatement EXCEPT !.op = "merge", !.base = b,
                            !.entries = entries,
                            !.out = UNION {{[p EXCEPT !.origin = originIn(f, p)] :
                                               p \in dataFile[f].rows} : f \in F},
                            !.outBegin = Least(begins),
                            !.outMax = IF partial THEN Greatest(maxes) ELSE NULL]
  <2>1. stmt' = [stmt EXCEPT ![w] = st] /\ UNCHANGED catalogVars
      BY <1>2, Zenon DEF BeginMerge, Starts
  <2>2. st.entries = entries
      BY Zenon DEF NoStatement
  <2>3. \A e \in entries : RecordedOK(e)
      BY <1>1, Zenon
  <2> HIDE DEF st, entries
  <2> QED
      BY <2>1, <2>2, <2>3, BegunRecords, Zenon
<1>3. CASE BeginRewrite(w, b, F)
  <2> DEFINE entries == {SourceEntry(F, DeleteFilesAt(F, b))}
             st == [NoStatement EXCEPT !.op = "rewrite", !.base = b,
                       !.entries = entries,
                       !.out = {[p EXCEPT !.origin = 0] : p \in RawPositionsAt(F, b)}]
  <2>1. stmt' = [stmt EXCEPT ![w] = st] /\ UNCHANGED catalogVars
      BY <1>3, Zenon DEF BeginRewrite, Starts
  <2>2. st.entries = entries
      BY Zenon DEF NoStatement
  <2>3. \A e \in entries : RecordedOK(e)
      BY <1>1, Zenon
  <2> HIDE DEF st, entries
  <2> QED
      BY <2>1, <2>2, <2>3, BegunRecords, Zenon
<1> QED
    BY <1>2, <1>3, Zenon

\* An INSERT, INSERT OVERWRITE or TRUNCATE that begins has no entries.
LEMMA BeginPlainSingle ==
    ASSUME IInv, DInv, NEW w \in Writers, NEW op, NEW n, NEW limit, NEW b,
           BeginInsert(w, op, n, limit) \/ BeginTruncate(w, b)
    PROVE  DInv'
<1> DEFINE insert   == [NoStatement EXCEPT !.op = op, !.base = Head, !.fresh = n,
                           !.inline = n <= limit, !.saw = ContentAt(Head)]
           truncate == [NoStatement EXCEPT !.op = "truncate", !.base = b,
                           !.saw = ContentAt(b)]
<1>1. /\ UNCHANGED catalogVars
      /\ stmt' = [stmt EXCEPT ![w] = insert] \/ stmt' = [stmt EXCEPT ![w] = truncate]
    BY Zenon DEF BeginInsert, BeginTruncate, Starts
<1>2. insert.entries = {} /\ truncate.entries = {}
    BY Zenon DEF NoStatement
<1> HIDE DEF insert, truncate
<1> QED
    BY <1>1, <1>2, BegunRecords, Zenon

\* Every way to begin a statement keeps one delete file per data file.
LEMMA BeginSingle == ASSUME IInv, DInv, NEW w \in Writers, Begin(w) PROVE DInv'
<1>1. CASE \E op \in {"append", "replace"}, n \in InsertSizes, limit \in InlineLimits :
               BeginInsert(w, op, n, limit)
    BY <1>1, BeginPlainSingle, Zenon
<1>2. CASE \E op \in {"delete", "update"}, b \in Bases, limit \in InlineLimits :
               \E T \in SUBSET MatchableAt(b) :
                   /\ Cardinality(T) \in 1 .. MaxTargets
                   /\ BeginMutation(w, op, b, T, limit)
    BY <1>2, BeginMutationSingle, Zenon
<1>3. CASE \E b \in Bases : BeginTruncate(w, b)
    BY <1>3, BeginPlainSingle, Zenon
<1>4. CASE \E b \in Bases : BeginFlush(w, b)
    BY <1>4, BeginFlushSingle, Zenon
<1>5. CASE \E b \in Bases : \E f \in DataFilesAt(b) : BeginRewrite(w, b, f)
    BY <1>5, BeginCompactionSingle, Zenon
<1>6. CASE \E b \in Bases : \E f, g \in DataFilesAt(b) : f < g /\ BeginMerge(w, b, {f, g})
    BY <1>6, BeginCompactionSingle, Zenon
<1> QED
    BY <1>1, <1>2, <1>3, <1>4, <1>5, <1>6, Zenon DEF Begin

-----------------------------------------------------------------------------
\* A retry changes no entry but one whose deletions are inlined.
LEMMA RetrySingle ==
    ASSUME IInv, DInv, NEW w \in Writers, AcceptDisjoint(w) \/ Redate(w) PROVE DInv'
<1>1. stmt[w] \in Statement /\ \A e \in stmt[w].entries : RecordedOK(e) /\ e \in Entry
    BY Zenon DEF IInv, StatementsOK, StatementOK, EntryOK, DInv, RecordsOK
<1>2. CASE AcceptDisjoint(w)
  <2>1. PICK e \in stmt[w].entries :
            /\ DisjointEntry(stmt[w], e)
            /\ stmt' = [stmt EXCEPT ![w] =
                  [stmt[w] EXCEPT !.attempt = @ + 1,
                      !.entries = (@ \ {e}) \cup
                          {[e EXCEPT !.prev = LiveDeleteFile(e.file)]}]]
      BY <1>2, Zenon DEF AcceptDisjoint
  <2> DEFINE new     == [e EXCEPT !.prev = LiveDeleteFile(e.file)]
             entries == (stmt[w].entries \ {e}) \cup {new}
             st      == [stmt[w] EXCEPT !.attempt = @ + 1, !.entries = entries]
  <2>2. RecordedOK(new)
    <3>1. e.how = "inlined" /\ e \in Entry
        BY <1>1, <2>1, Zenon DEF DisjointEntry
    <3>2. new.how = "inlined"
        BY <3>1, Zenon DEF Entry
    <3> QED
        BY <3>2, Zenon DEF RecordedOK
  <2>3. stmt' = [stmt EXCEPT ![w] = st]
      BY <2>1, Zenon
  <2> HIDE DEF new
  <2>4. \A x \in entries : RecordedOK(x)
      BY <1>1, <2>2, Zenon
  <2> HIDE DEF entries
  <2>5. st.entries = entries
      BY <1>1, Zenon DEF Statement
  <2>6. UNCHANGED catalogVars
      BY <1>2, Zenon DEF AcceptDisjoint
  <2> HIDE DEF st
  <2> QED
      BY <2>3, <2>4, <2>5, <2>6, BegunRecords, Zenon
<1>3. CASE Redate(w)
  <2> DEFINE st == [stmt[w] EXCEPT !.attempt = @ + 1, !.date = Head + 1]
  <2>1. stmt' = [stmt EXCEPT ![w] = st] /\ UNCHANGED catalogVars
      BY <1>3, Zenon DEF Redate
  <2>2. st.entries = stmt[w].entries
      BY <1>1, Zenon DEF Statement
  <2> HIDE DEF st
  <2> QED
      BY <1>1, <2>1, <2>2, BegunRecords, Zenon
<1> QED
    BY <1>2, <1>3, Zenon

\* Every way a statement proceeds or ends keeps one delete file per data file.
LEMMA SettleSingle == ASSUME IInv, DInv, NEW w \in Writers, Settle(w) PROVE DInv'
<1>1. CASE CommitAppend(w) \/ CommitStaged(w) \/ CommitDirect(w)
    BY <1>1, CommitRowsSingle, Zenon
<1>2. CASE CommitReplace(w)
    BY <1>2, CommitReplaceSingle, Zenon
<1>3. CASE CommitTruncate(w)
  <2>1. /\ dataFile' = DataFilesAfter(stmt[w], LiveDataFiles)
        /\ deleteFile' = EndDeleteFiles(LiveDeleteFiles) /\ Settles(w)
      BY <1>3, Zenon DEF CommitTruncate
  <2>2. RecordsOK'
      BY <2>1, SettledRecords, Zenon DEF DInv
  <2> QED
      BY <2>1, <2>2, EndsAllSingle, Zenon
<1>4. CASE CommitMerge(w) \/ CommitRewrite(w) \/ CommitFlush(w)
    BY <1>4, CommitMergeSingle, CommitRewriteSingle, CommitFlushSingle, Zenon
<1>5. CASE AcceptDisjoint(w) \/ Redate(w)
    BY <1>5, RetrySingle, Zenon
<1>6. CASE Refuse(w) \/ TruncateNothing(w)
  <2>1. stmt' = [stmt EXCEPT ![w] = NoStatement] /\ UNCHANGED catalogVars
      BY <1>6, Zenon DEF Refuse, TruncateNothing, Settles
  <2>2. NoStatement.entries = {}
      BY Zenon DEF NoStatement
  <2> QED
      BY <2>1, <2>2, BegunRecords, Zenon
<1> QED
    BY <1>1, <1>2, <1>3, <1>4, <1>5, <1>6, Zenon DEF Settle

\* So do the transactions that belong to no statement.
LEMMA ImmediateSingle ==
    ASSUME IInv, DInv,
           \/ Alter \/ Drop \/ OtherCommit \/ Quiescent \/ UNCHANGED vars
           \/ \E b \in snapshots : RetireAppends(b)
           \/ \E S \in SUBSET snapshots : Expire(S)
    PROVE  DInv'
<1>1. CASE Alter \/ OtherCommit \/ Quiescent \/ UNCHANGED vars
  <2>1. dataFile' = dataFile /\ deleteFile' = deleteFile /\ stmt' = stmt
      BY <1>1, Zenon DEF Alter, OtherCommit, Quiescent, vars, catalogVars
  <2> QED
      BY <2>1, Zenon DEF DInv, SingleDeleteFile, LiveWithItsFile, LiveDataFiles, NoneEmpty,
                  RecordsOK
<1>2. CASE Drop
  <2>1. /\ dataFile' = DataFilesAfter(NoStatement, LiveDataFiles) /\ stmt' = stmt
        /\ deleteFile' = EndDeleteFiles(LiveDeleteFiles)
      BY <1>2, Zenon DEF Drop
  <2>2. RecordsOK'
      BY <2>1, Zenon DEF DInv, RecordsOK
  <2> QED
      BY <2>1, <2>2, EndsAllSingle, Zenon
<1>3. CASE \E b \in snapshots : RetireAppends(b)
  <2>1. PICK b \in snapshots : RetireAppends(b)
      BY <1>3, Zenon
  <2>2. /\ dataFile' = DataFilesAfter(NoStatement, AppendedFiles(b))
        /\ deleteFile' = deleteFile /\ stmt' = stmt
      BY <2>1, Zenon DEF RetireAppends
  <2>3. \A f \in LiveDataFiles' : f # Own => f \in LiveDataFiles
      BY <2>2, LiveAfter, Zenon DEF LiveDataFiles
  <2>4. LiveWithItsFile'
      BY <2>2, <2>3, NoneOfOwn, Zenon DEF DInv, LiveWithItsFile
  <2> QED
      BY <2>2, <2>4, Zenon DEF DInv, SingleDeleteFile, NoneEmpty, RecordsOK
<1>4. CASE \E S \in SUBSET snapshots : Expire(S)
  <2>1. PICK S \in SUBSET snapshots : Expire(S)
      BY <1>4, Zenon
  <2>2. /\ dataFile' = Without(dataFile, DeadDataFiles(S)) /\ stmt' = stmt
        /\ deleteFile' = Without(deleteFile, DeadDeleteFiles(S))
      BY <2>1, Zenon DEF Expire
  <2>3. /\ DOMAIN deleteFile' \subseteq DOMAIN deleteFile
        /\ \A d \in DOMAIN deleteFile' : deleteFile'[d] = deleteFile[d]
        /\ LiveDataFiles' \subseteq LiveDataFiles
      BY <2>2, Zenon DEF Without, LiveDataFiles
  <2>4. LiveWithItsFile'
      BY <2>3, Zenon DEF DInv, LiveWithItsFile
  <2> QED
      BY <2>2, <2>3, <2>4, Zenon DEF DInv, SingleDeleteFile, NoneEmpty, RecordsOK
<1> QED
    BY <1>1, <1>2, <1>3, <1>4, Zenon

-----------------------------------------------------------------------------
\* Every commit keeps at most one delete file row per data file, live while the
\* data file is, and none without a deletion.
THEOREM DeleteFileInvariance == Spec => []DInv
<1>1. Init => DInv
  <2> SUFFICES ASSUME Init PROVE DInv
      BY Zenon
  <2>1. DOMAIN deleteFile = {}
      BY Zenon DEF Init
  <2>2. \A w \in Writers : stmt[w].entries = {}
      BY Zenon DEF Init, NoStatement
  <2> QED
      BY <2>1, <2>2, Zenon DEF DInv, SingleDeleteFile, LiveWithItsFile, NoneEmpty, RecordsOK
<1>2. IInv /\ DInv /\ [Next]_vars => DInv'
  <2> SUFFICES ASSUME IInv, DInv, [Next]_vars PROVE DInv'
      BY Zenon
  <2>1. CASE \E w \in Writers : Begin(w) \/ Settle(w)
      BY <2>1, BeginSingle, SettleSingle, Zenon
  <2>2. CASE \/ Alter \/ Drop \/ OtherCommit \/ Quiescent \/ UNCHANGED vars
             \/ \E b \in snapshots : RetireAppends(b)
             \/ \E S \in SUBSET snapshots : Expire(S)
      BY <2>2, ImmediateSingle, Zenon
  <2> QED
      BY <2>1, <2>2, Zenon DEF Next
<1> QED
    BY <1>1, <1>2, Invariance, PTL DEF Spec

\* A data file has at most one delete file at any snapshot and at most one live
\* one, so the one-to-one join of SQL_GET_DATA_FILES is right and the single id
\* the commits compare is the one there is.
THEOREM AtMostOneDeleteFile == Spec => []OneDeleteFile
<1>1. DInv => OneDeleteFile
    BY Zenon DEF DInv, SingleDeleteFile, OneDeleteFile, LiveDeleteFile, DeleteFilesAt
<1> QED
    BY <1>1, DeleteFileInvariance, PTL

-----------------------------------------------------------------------------
\* A read at the head finds exactly what is live.
LEMMA ReadAtHead ==
    ASSUME IInv
    PROVE  /\ \A f : DeleteFilesAt(f, Head) = LiveDeleteFile(f)
           /\ DataFilesAt(Head) = LiveDataFiles
<1>1. Head \in Nat
    BY HeadIsNat, Zenon DEF IInv
<1>2. \A f \in DOMAIN dataFile :
          /\ dataFile[f].begin \in Nat /\ dataFile[f].end \in Nat
          /\ dataFile[f].begin <= Head /\ dataFile[f].end <= Head
    BY Zenon DEF IInv, CatalogOK, DataFileOK, DataFileRow
<1>3. \A d \in DOMAIN deleteFile :
          /\ deleteFile[d].begin \in Nat /\ deleteFile[d].end \in Nat
          /\ deleteFile[d].begin <= Head /\ deleteFile[d].end <= Head
    BY Zenon DEF IInv, CatalogOK, DeleteFileOK, DeleteFileRow
<1>4. \A f \in DOMAIN dataFile : VisibleAt(dataFile[f], Head) <=> IsLive(dataFile[f])
    BY <1>1, <1>2 DEF VisibleAt, IsLive
<1>5. \A d \in DOMAIN deleteFile : VisibleAt(deleteFile[d], Head) <=> IsLive(deleteFile[d])
    BY <1>1, <1>3 DEF VisibleAt, IsLive
<1> QED
    BY <1>4, <1>5, Zenon DEF DeleteFilesAt, LiveDeleteFile, DataFilesAt, LiveDataFiles

\* Nothing is dated after the head, in the ledger or in the catalog rows.
LEMMA NothingSinceHead ==
    ASSUME IInv
    PROVE  /\ TokensSince(Head) = {}
           /\ \A f : NewInlinedDeletes(f, Head) = {}
           /\ \A f \in DOMAIN dataFile : ~ChangedSince(dataFile[f], Head)
           /\ \A d \in DOMAIN deleteFile : ~ChangedSince(deleteFile[d], Head)
           /\ \A r \in inlinedRow : ~ChangedSince(r, Head)
           /\ \A i \in inlinedDelete : i.begin <= Head
           /\ alteredAt <= Head
<1>1. Head \in Nat
    BY HeadIsNat, Zenon DEF IInv
<1>2. TokensSince(Head) = {}
  <2>1. \A t \in snapshots : t \in Nat /\ t <= Head
      BY Zenon DEF IInv, HeadOK
  <2>2. \A t \in snapshots : ~(t > Head)
      BY <1>1, <2>1
  <2>3. {t \in snapshots : t > Head} = {}
      BY <2>2, Zenon
  <2> QED
      BY <2>3, Zenon DEF TokensSince
<1>3. \A f \in DOMAIN dataFile : ~ChangedSince(dataFile[f], Head)
    BY <1>1 DEF IInv, CatalogOK, DataFileOK, DataFileRow, ChangedSince
<1>4. \A d \in DOMAIN deleteFile : ~ChangedSince(deleteFile[d], Head)
    BY <1>1 DEF IInv, CatalogOK, DeleteFileOK, DeleteFileRow, ChangedSince
<1>5. \A r \in inlinedRow : ~ChangedSince(r, Head)
    BY <1>1 DEF IInv, CatalogOK, InlinedRowOK, InlinedRow, ChangedSince
<1>6. \A i \in inlinedDelete : i.begin \in Nat /\ i.begin <= Head
    BY Zenon DEF IInv, CatalogOK, InlinedDeleteOK, InlinedDelete
<1>7. \A f : NewInlinedDeletes(f, Head) = {}
    BY <1>1, <1>6 DEF NewInlinedDeletes
<1>8. alteredAt <= Head
    BY <1>1 DEF IInv, CatalogOK
<1> QED
    BY <1>2, <1>3, <1>4, <1>5, <1>6, <1>7, <1>8, Zenon

\* A statement whose reading stands passes every check of its commit.
LEMMA StandingCommits ==
    ASSUME IInv, NEW st, st.base = Head, Stands(st)
    PROVE  CanCommit(st) \/ TruncatesNothing(st) \/ \E e \in st.entries : Expired(e)
<1>1. \A ours : ~TableConflict(ours, TokensSince(st.base))
    BY NothingSinceHead, Zenon DEF TableConflict
<1>2. tableEnd = NULL
    BY Zenon DEF Stands
<1>3. \A e : ~MeetsInlinedDelete(st, e)
    BY NothingSinceHead, Zenon DEF MeetsInlinedDelete
<1>4. CASE st.op = "append"
    BY <1>1, <1>2, <1>4, Zenon DEF CanCommit, CanAppend
<1>5. CASE st.op = "replace"
  <2>1. CanReplace(st)
      BY <1>2, NothingSinceHead, Zenon DEF CanReplace
  <2> QED
      BY <1>5, <2>1, Zenon DEF CanCommit
<1>6. CASE st.op = "truncate"
  <2>1. StorageInUse # {} => CanTruncate(st)
      BY <1>1, Zenon DEF CanTruncate
  <2> QED
      BY <1>6, <2>1, Zenon DEF CanCommit, TruncatesNothing
<1>7. CASE st.op = "flush"
  <2>1. ASSUME \A e \in st.entries : ~Expired(e) PROVE CanFlush(st)
      BY <1>1, <1>2, <1>7, <2>1, Zenon DEF CanFlush, Stands
  <2>2. CanFlush(st) => CanCommit(st)
      BY <1>7, Zenon DEF CanCommit
  <2> QED
      BY <2>1, <2>2, Zenon
<1>8. CASE st.op \in {"merge", "rewrite"}
  <2>1. CanCompact(st)
      BY <1>8, NothingSinceHead, Zenon DEF CanCompact, Stands
  <2> QED
      BY <1>8, <2>1, Zenon DEF CanCommit
<1>9. CASE st.op \in {"delete", "update"}
  <2>1. \A e \in st.entries : StillCurrent(e)
      BY <1>9, Zenon DEF Stands
  <2>2. PassesTableChecks(st)
      BY <1>1, <1>2, <1>3, NothingSinceHead, Zenon DEF PassesTableChecks
  <2>3. DateHolds(st)
      BY <1>9, Zenon DEF DateHolds, Stands
  <2>4. InlinedRowsUnchanged(st)
      BY NothingSinceHead, Zenon DEF InlinedRowsUnchanged
  <2>5. CanCommitStaged(st)
      BY <2>1, <2>2, <2>3, <2>4, Zenon DEF CanCommitStaged
  <2>6. CanCommitDirect(st)
      BY <1>1, <1>2, <1>3, <2>1, Zenon DEF CanCommitDirect
  <2> QED
      BY <1>9, <2>5, <2>6, Zenon DEF CanCommit
<1> QED
    BY <1>4, <1>5, <1>6, <1>7, <1>8, <1>9, Zenon DEF Stands

-----------------------------------------------------------------------------
\* A step that leaves the catalog alone and puts st in w's place.
LEMMA BegunStands ==
    ASSUME IInv, CInv, NEW w \in Writers, NEW st,
           stmt' = [stmt EXCEPT ![w] = st], UNCHANGED catalogVars,
           st.op # "none" /\ st.base = Head => Stands(st)
    PROVE  CInv'
<1>1. \A v \in Writers : stmt'[v] = IF v = w THEN st ELSE stmt[v]
  <2>1. stmt = [v \in Writers |-> stmt[v]]
      BY Zenon DEF IInv, StatementsOK
  <2> QED
      BY <2>1, Zenon
<1>2. Head' = Head
    BY Zenon DEF catalogVars, Head
<1>3. ASSUME NEW v \in Writers, stmt'[v].op # "none", stmt'[v].base = Head
      PROVE  Stands(stmt'[v])
  <2>1. CASE v = w
      BY <1>1, <1>3, <2>1, Zenon
  <2>2. CASE v # w
      BY <1>1, <1>3, <2>2, Zenon DEF CInv, Active
  <2> QED
      BY <2>1, <2>2, Zenon
<1>4. SUFFICES ASSUME NEW v \in Writers, stmt'[v].op # "none", stmt'[v].base = Head
               PROVE  Stands(stmt[v])'
    BY <1>2, Zenon DEF CInv, Active
<1> DEFINE x == stmt'[v]
<1>5. Stands(x)
    BY <1>3, <1>4, Zenon
<1> QED
    BY <1>2, <1>5 DEF catalogVars, Stands, StillCurrent, LiveDataFiles, LiveDeleteFile,
                      StillFlushable, DeleteFilesOf, Expired

\* A commit moves the head past every base.
LEMMA CommitMovesOn ==
    ASSUME IInv, NEW tokens, Records(tokens),
           \A v \in Writers : stmt'[v] \in {stmt[v], NoStatement}
    PROVE  CInv'
<1>1. Head' = Head + 1 /\ Head \in Nat
    BY HeadAdvances, HeadIsNat, Zenon DEF IInv
<1>2. \A v \in Writers : stmt[v].base \in Nat /\ stmt[v].base <= Head
    BY Zenon DEF IInv, StatementsOK, StatementOK, Statement
<1>3. \A v \in Writers : stmt'[v].op # "none" => stmt'[v] = stmt[v]
    BY IdleFields, Zenon
<1>4. \A v \in Writers : stmt'[v].op # "none" => stmt'[v].base # Head'
    BY <1>1, <1>2, <1>3
<1> QED
    BY <1>4, Zenon DEF CInv, Active

\* Every commit call adds a snapshot.
LEMMA CommitStands ==
    ASSUME IInv, NEW w \in Writers,
           \/ CommitAppend(w) \/ CommitReplace(w) \/ CommitStaged(w) \/ CommitDirect(w)
           \/ CommitTruncate(w) \/ CommitMerge(w) \/ CommitRewrite(w) \/ CommitFlush(w)
    PROVE  CInv'
<1>1. Settles(w) /\ \E tokens : Records(tokens)
    BY Zenon DEF CommitAppend, CommitReplace, CommitStaged, CommitDirect, CommitTruncate,
                 CommitMerge, CommitRewrite, CommitFlush
<1>2. \A v \in Writers : stmt'[v] \in {stmt[v], NoStatement}
  <2>1. stmt = [v \in Writers |-> stmt[v]]
      BY Zenon DEF IInv, StatementsOK
  <2> QED
      BY <1>1, <2>1, Zenon DEF Settles
<1> QED
    BY <1>1, <1>2, CommitMovesOn, Zenon

\* So does every transaction that belongs to no statement but an expiry.
LEMMA ImmediateStands ==
    ASSUME IInv, Alter \/ Drop \/ OtherCommit \/ \E b \in snapshots : RetireAppends(b)
    PROVE  CInv'
<1>1. stmt' = stmt /\ \E tokens : Records(tokens)
    BY Zenon DEF Alter, Drop, OtherCommit, RetireAppends
<1> QED
    BY <1>1, CommitMovesOn, Zenon

-----------------------------------------------------------------------------
\* What a DELETE, UPDATE, merge or rewrite reads at the head is what its commit
\* compares.
LEMMA CurrentAtHead ==
    ASSUME IInv, NEW e, e.file \in DataFilesAt(Head),
           e.prev = DeleteFilesAt(e.file, Head)
    PROVE  StillCurrent(e)
BY ReadAtHead, Zenon DEF StillCurrent

\* An INSERT, INSERT OVERWRITE or TRUNCATE reads nothing its commit compares.
LEMMA BeginPlainStands ==
    ASSUME IInv, CInv, NEW w \in Writers, NEW op \in {"append", "replace"}, NEW n,
           NEW limit, NEW b, BeginInsert(w, op, n, limit) \/ BeginTruncate(w, b)
    PROVE  CInv'
<1> DEFINE insert   == [NoStatement EXCEPT !.op = op, !.base = Head, !.fresh = n,
                           !.inline = n <= limit, !.saw = ContentAt(Head)]
           truncate == [NoStatement EXCEPT !.op = "truncate", !.base = b,
                           !.saw = ContentAt(b)]
<1>1. /\ UNCHANGED catalogVars /\ tableEnd = NULL
      /\ stmt' = [stmt EXCEPT ![w] = insert] \/ stmt' = [stmt EXCEPT ![w] = truncate]
    BY Zenon DEF BeginInsert, BeginTruncate, Starts
<1>2. insert.op = op /\ truncate.op = "truncate"
    BY Zenon DEF NoStatement
<1> HIDE DEF insert, truncate
<1>3. Stands(insert) /\ Stands(truncate)
    BY <1>1, <1>2, Zenon DEF Stands
<1> QED
    BY <1>1, <1>3, BegunStands, Zenon

\* A DELETE or UPDATE based on the head.
LEMMA BeginMutationStands ==
    ASSUME IInv, CInv, NEW w \in Writers, NEW op \in {"delete", "update"}, NEW b,
           NEW limit, NEW T \in SUBSET MatchableAt(b), BeginMutation(w, op, b, T, limit)
    PROVE  CInv'
<1> DEFINE files   == {t.in : t \in T} \ {NULL}
           at(f)   == {t.row : t \in {u \in T : u.in = f}}
           entries == {RecordDeletion(f, at(f), limit, b) : f \in files}
           rids    == {t.row.rid : t \in T}
           st      == [NoStatement EXCEPT !.op = op, !.base = b,
                          !.kept = IF op = "update" THEN rids ELSE {},
                          !.inline = op = "update" /\ Cardinality(T) <= limit,
                          !.entries = entries,
                          !.ended = {r.rid : r \in at(NULL)},
                          !.date = Head + 1,
                          !.targets = {VersionOf(t.row) : t \in T}]
<1>1. stmt' = [stmt EXCEPT ![w] = st] /\ UNCHANGED catalogVars /\ tableEnd = NULL
    BY Zenon DEF BeginMutation, Starts
<1>2. st.op = op /\ st.base = b /\ st.entries = entries /\ st.date = Head + 1
    BY Zenon DEF NoStatement
<1>3. Head \in Nat
    BY HeadIsNat, Zenon DEF IInv
<1>4. \A f \in files : f \in DataFilesAt(b)
    BY MatchableOK, Zenon DEF IInv
<1>5. \A e \in entries : e.file \in DataFilesAt(b) /\ e.prev = DeleteFilesAt(e.file, b)
  <2> SUFFICES ASSUME NEW f \in files
               PROVE  LET e == RecordDeletion(f, at(f), limit, b)
                      IN  e.file \in DataFilesAt(b) /\ e.prev = DeleteFilesAt(e.file, b)
      BY Zenon
  <2> HIDE DEF at
  <2> QED
      BY <1>4, Zenon DEF RecordDeletion
<1> HIDE DEF st, entries
<1>6. ASSUME b = Head PROVE \A e \in entries : StillCurrent(e)
    BY <1>5, <1>6, CurrentAtHead, Zenon
<1>7. st.base = Head => Stands(st)
    BY <1>1, <1>2, <1>3, <1>6 DEF Stands
<1> QED
    BY <1>1, <1>7, BegunStands, Zenon

\* The delete file a flush at the head merges into is the one its commit finds.
LEMMA FlushableAtHead ==
    ASSUME IInv, DInv, NEW f \in DOMAIN dataFile
    PROVE  StillFlushable(FlushEntry(f, Head))
<1> DEFINE e == FlushEntry(f, Head)
           D == {d \in DeleteFilesOf({f}) :
                    dataFile[f].end # NULL \/ IsLive(deleteFile[d])}
<1>1. Head \in Nat
    BY HeadIsNat, Zenon DEF IInv
<1>2. dataFile[f].end \in Nat /\ dataFile[f].end <= Head
    BY Zenon DEF IInv, CatalogOK, DataFileOK, DataFileRow
<1>3. \A d \in DOMAIN deleteFile : deleteFile[d].begin \in Nat /\ deleteFile[d].begin <= Head
    BY Zenon DEF IInv, CatalogOK, DeleteFileOK, DeleteFileRow
<1>4. \A c, d \in D : c = d
    BY Zenon DEF DeleteFilesOf, DInv, SingleDeleteFile
<1>5. D = {d \in D : \A o \in D : deleteFile[o].begin <= deleteFile[d].begin}
    BY <1>3, <1>4 DEF DeleteFilesOf
<1>6. e.file = f /\ e.fileEnd = dataFile[f].end /\ e.prev = DeleteFileToFlush(f, Head)
    BY Zenon DEF FlushEntry
<1>7. DeleteFileToFlush(f, Head) = D
  <2>1. CASE dataFile[f].end = NULL
    <3>1. DeleteFileToFlush(f, Head) = LiveDeleteFile(f)
        BY <2>1, ReadAtHead, Zenon DEF DeleteFileToFlush
    <3> QED
        BY <2>1, <3>1, Zenon DEF LiveDeleteFile, DeleteFilesOf
  <2>2. CASE dataFile[f].end # NULL
    <3> DEFINE R == {d \in DOMAIN deleteFile : d[1] = f /\ deleteFile[d].begin <= Head}
    <3>1. DeleteFileToFlush(f, Head)
              = {d \in R : \A o \in R : deleteFile[o].begin <= deleteFile[d].begin}
        BY <1>1, <1>2, <2>2 DEF DeleteFileToFlush
    <3>2. R = D
        BY <1>3, <2>2, Zenon DEF DeleteFilesOf
    <3> QED
        BY <1>5, <3>1, <3>2, Zenon
  <2> QED
      BY <2>1, <2>2, Zenon
<1> HIDE DEF e
<1>8. StillFlushable(e)
    BY <1>5, <1>6, <1>7, Zenon DEF StillFlushable
<1> QED
    BY <1>8, Zenon DEF e

\* A flush based on the head.
LEMMA BeginFlushStands ==
    ASSUME IInv, DInv, CInv, NEW w \in Writers, NEW b, BeginFlush(w, b) PROVE CInv'
<1> DEFINE rows    == {r \in inlinedRow : r.begin <= b}
           files   == {f \in DOMAIN dataFile : /\ dataFile[f].begin <= b
                                               /\ InlinedDeletionsOf(f, b) # {}}
           entries == {e \in {FlushEntry(f, b) : f \in files} : ~StaysInlined(e, b)}
           origins == {r.begin : r \in rows}
           st      == [NoStatement EXCEPT !.op = "flush", !.base = b, !.entries = entries,
                          !.out = {InlinedAsRow(r) : r \in rows},
                          !.outBegin = IF rows = {} THEN NULL ELSE Least(origins),
                          !.outMax = IF rows = {} THEN NULL ELSE Greatest(origins),
                          !.dels = {[pos |-> InlinedAsRow(r), at |-> r.end] :
                                       r \in {q \in rows : q.end # NULL}}]
<1>1. stmt' = [stmt EXCEPT ![w] = st] /\ UNCHANGED catalogVars /\ tableEnd = NULL
    BY Zenon DEF BeginFlush, Starts
<1>2. st.op = "flush" /\ st.base = b /\ st.entries = entries
    BY Zenon DEF NoStatement
<1>3. ASSUME b = Head PROVE \A e \in entries : StillFlushable(e)
    BY <1>3, FlushableAtHead, Zenon
<1> HIDE DEF st, entries
<1>4. st.base = Head => Stands(st)
    BY <1>1, <1>2, <1>3, Zenon DEF Stands
<1> QED
    BY <1>1, <1>4, BegunStands, Zenon

\* A merge based on the head.
LEMMA BeginMergeStands ==
    ASSUME IInv, CInv, NEW w \in Writers, NEW b, NEW F, F \subseteq DataFilesAt(b),
           BeginMerge(w, b, F)
    PROVE  CInv'
<1> DEFINE begins  == {dataFile[f].begin : f \in F}
           maxes   == {LatestOrigin(f) : f \in F}
           partial == \/ Least(begins) # Greatest(maxes)
                      \/ \E f \in F : dataFile[f].partialMax # NULL
           originIn(f, p) == IF ~partial THEN 0
                             ELSE IF dataFile[f].partialMax # NULL THEN p.origin
                             ELSE dataFile[f].begin
           entries == {SourceEntry(f, {}) : f \in F}
           st      == [NoStatement EXCEPT !.op = "merge", !.base = b,
                          !.entries = entries,
                          !.out = UNION {{[p EXCEPT !.origin = originIn(f, p)] :
                                             p \in dataFile[f].rows} : f \in F},
                          !.outBegin = Least(begins),
                          !.outMax = IF partial THEN Greatest(maxes) ELSE NULL]
<1>1. stmt' = [stmt EXCEPT ![w] = st] /\ UNCHANGED catalogVars /\ tableEnd = NULL
    BY Zenon DEF BeginMerge, Starts
<1>2. \A f \in F : DeleteFilesAt(f, b) = {}
    BY Zenon DEF BeginMerge, MergeCandidate
<1>3. st.op = "merge" /\ st.base = b /\ st.entries = entries
    BY Zenon DEF NoStatement
<1>4. \A e \in entries : e.file \in DataFilesAt(b) /\ e.prev = DeleteFilesAt(e.file, b)
    BY <1>2 DEF SourceEntry
<1> HIDE DEF st, entries
<1>5. ASSUME b = Head PROVE \A e \in entries : StillCurrent(e)
    BY <1>4, <1>5, CurrentAtHead, Zenon
<1>6. st.base = Head => Stands(st)
    BY <1>1, <1>3, <1>5, Zenon DEF Stands
<1> QED
    BY <1>1, <1>6, BegunStands, Zenon

\* A rewrite based on the head.
LEMMA BeginRewriteStands ==
    ASSUME IInv, CInv, NEW w \in Writers, NEW b, NEW f \in DataFilesAt(b),
           BeginRewrite(w, b, f)
    PROVE  CInv'
<1> DEFINE entries == {SourceEntry(f, DeleteFilesAt(f, b))}
           st == [NoStatement EXCEPT !.op = "rewrite", !.base = b,
                     !.entries = entries,
                     !.out = {[p EXCEPT !.origin = 0] : p \in RawPositionsAt(f, b)}]
<1>1. stmt' = [stmt EXCEPT ![w] = st] /\ UNCHANGED catalogVars /\ tableEnd = NULL
    BY Zenon DEF BeginRewrite, Starts
<1>2. st.op = "rewrite" /\ st.base = b /\ st.entries = entries
    BY Zenon DEF NoStatement
<1>3. \A e \in entries : e.file \in DataFilesAt(b) /\ e.prev = DeleteFilesAt(e.file, b)
    BY DEF SourceEntry
<1> HIDE DEF st, entries
<1>4. ASSUME b = Head PROVE \A e \in entries : StillCurrent(e)
    BY <1>3, <1>4, CurrentAtHead, Zenon
<1>5. st.base = Head => Stands(st)
    BY <1>1, <1>2, <1>4, Zenon DEF Stands
<1> QED
    BY <1>1, <1>5, BegunStands, Zenon

\* Whatever a statement reads as it begins stands while the head does.
LEMMA BeginStands ==
    ASSUME IInv, DInv, CInv, NEW w \in Writers, Begin(w) PROVE CInv'
<1>1. CASE \E op \in {"append", "replace"}, n \in InsertSizes, limit \in InlineLimits :
               BeginInsert(w, op, n, limit)
    BY <1>1, BeginPlainStands, Zenon
<1>2. CASE \E op \in {"delete", "update"}, b \in Bases, limit \in InlineLimits :
               \E T \in SUBSET MatchableAt(b) :
                   /\ Cardinality(T) \in 1 .. MaxTargets
                   /\ BeginMutation(w, op, b, T, limit)
    BY <1>2, BeginMutationStands, Zenon
<1>3. CASE \E b \in Bases : BeginTruncate(w, b)
    BY <1>3, BeginPlainStands, Zenon
<1>4. CASE \E b \in Bases : BeginFlush(w, b)
    BY <1>4, BeginFlushStands, Zenon
<1>5. CASE \E b \in Bases : \E f \in DataFilesAt(b) : BeginRewrite(w, b, f)
    BY <1>5, BeginRewriteStands, Zenon
<1>6. CASE \E b \in Bases : \E f, g \in DataFilesAt(b) : f < g /\ BeginMerge(w, b, {f, g})
  <2>1. PICK b \in Bases : \E f, g \in DataFilesAt(b) : BeginMerge(w, b, {f, g})
      BY <1>6, Zenon
  <2>2. PICK f \in DataFilesAt(b), g \in DataFilesAt(b) : BeginMerge(w, b, {f, g})
      BY <2>1, Zenon
  <2>3. {f, g} \subseteq DataFilesAt(b)
      BY Zenon
  <2> QED
      BY <2>2, <2>3, BeginMergeStands, Zenon
<1> QED
    BY <1>1, <1>2, <1>3, <1>4, <1>5, <1>6, Zenon DEF Begin

-----------------------------------------------------------------------------
\* A retry is for a statement whose base is no longer the head, or it dates the
\* statement past the head.
LEMMA RetryStands ==
    ASSUME IInv, CInv, NEW w \in Writers, AcceptDisjoint(w) \/ Redate(w) PROVE CInv'
<1>1. stmt[w] \in Statement /\ stmt[w].op \in {"delete", "update"}
    BY Zenon DEF IInv, StatementsOK, StatementOK, AcceptDisjoint, Redate
<1>2. stmt[w].base = Head => Stands(stmt[w])
    BY <1>1, Zenon DEF CInv, Active
<1>3. CASE AcceptDisjoint(w)
  <2>1. PICK e \in stmt[w].entries :
            /\ DisjointEntry(stmt[w], e)
            /\ stmt' = [stmt EXCEPT ![w] =
                  [stmt[w] EXCEPT !.attempt = @ + 1,
                      !.entries = (@ \ {e}) \cup
                          {[e EXCEPT !.prev = LiveDeleteFile(e.file)]}]]
      BY <1>3, Zenon DEF AcceptDisjoint
  <2> DEFINE st == [stmt[w] EXCEPT !.attempt = @ + 1,
                       !.entries = (@ \ {e}) \cup
                           {[e EXCEPT !.prev = LiveDeleteFile(e.file)]}]
  <2>2. stmt[w].base # Head
    <3>1. Stands(stmt[w]) => StillCurrent(e)
        BY <1>1, Zenon DEF Stands
    <3>2. ~StillCurrent(e)
        BY <2>1, Zenon DEF DisjointEntry, StillCurrent
    <3> QED
        BY <1>2, <3>1, <3>2, Zenon
  <2>3. st.base # Head
      BY <1>1, <2>2, Zenon DEF Statement
  <2>4. stmt' = [stmt EXCEPT ![w] = st] /\ UNCHANGED catalogVars
      BY <1>3, <2>1, Zenon DEF AcceptDisjoint
  <2> HIDE DEF st
  <2> QED
      BY <2>3, <2>4, BegunStands, Zenon
<1>4. CASE Redate(w)
  <2> DEFINE st == [stmt[w] EXCEPT !.attempt = @ + 1, !.date = Head + 1]
  <2>1. stmt' = [stmt EXCEPT ![w] = st] /\ UNCHANGED catalogVars
      BY <1>4, Zenon DEF Redate
  <2>2. /\ st.op = stmt[w].op /\ st.base = stmt[w].base
        /\ st.entries = stmt[w].entries /\ st.date = Head + 1
      BY <1>1, Zenon DEF Statement
  <2> HIDE DEF st
  <2>3. Head < Head + 1
      BY HeadIsNat DEF IInv
  <2>4. st.base = Head => Stands(st)
      BY <1>1, <1>2, <2>2, <2>3, Zenon DEF Stands
  <2> QED
      BY <2>1, <2>4, BegunStands, Zenon
<1> QED
    BY <1>3, <1>4, Zenon

\* Every way a statement proceeds or ends leaves the others' readings standing.
LEMMA SettleStands == ASSUME IInv, CInv, NEW w \in Writers, Settle(w) PROVE CInv'
<1>1. CASE AcceptDisjoint(w) \/ Redate(w)
    BY <1>1, RetryStands, Zenon
<1>2. CASE Refuse(w) \/ TruncateNothing(w)
  <2>1. stmt' = [stmt EXCEPT ![w] = NoStatement] /\ UNCHANGED catalogVars
      BY <1>2, Zenon DEF Refuse, TruncateNothing, Settles
  <2>2. NoStatement.op = "none"
      BY Zenon DEF NoStatement
  <2> QED
      BY <2>1, <2>2, BegunStands, Zenon
<1> QED
    BY <1>1, <1>2, CommitStands, Zenon DEF Settle

-----------------------------------------------------------------------------
\* expire_snapshots of a table that is not dropped removes no live row.
LEMMA ExpiryKeepsLive ==
    ASSUME IInv, NEW S \in SUBSET snapshots, Expire(S), tableEnd = NULL
    PROVE  /\ DOMAIN dataFile' \subseteq DOMAIN dataFile
           /\ \A f \in DOMAIN dataFile' : dataFile'[f] = dataFile[f]
           /\ DOMAIN deleteFile' \subseteq DOMAIN deleteFile
           /\ \A d \in DOMAIN deleteFile' : deleteFile'[d] = deleteFile[d]
           /\ \A f \in LiveDataFiles : f \in DOMAIN dataFile'
           /\ \A d \in DOMAIN deleteFile :
                  d[1] \in LiveDataFiles /\ IsLive(deleteFile[d]) => d \in DOMAIN deleteFile'
           /\ Head' = Head
<1>1. /\ dataFile' = Without(dataFile, DeadDataFiles(S))
      /\ deleteFile' = Without(deleteFile, DeadDeleteFiles(S))
      /\ snapshots' = snapshots \ S /\ Head \notin S
    BY Zenon DEF Expire
<1>2. /\ DOMAIN dataFile' = DOMAIN dataFile \ DeadDataFiles(S)
      /\ \A f \in DOMAIN dataFile' : dataFile'[f] = dataFile[f]
      /\ DOMAIN deleteFile' = DOMAIN deleteFile \ DeadDeleteFiles(S)
      /\ \A d \in DOMAIN deleteFile' : deleteFile'[d] = deleteFile[d]
    BY <1>1, Zenon DEF Without
<1>3. \A f \in LiveDataFiles : f \in DOMAIN dataFile /\ f \notin DeadDataFiles(S)
    BY Zenon DEF LiveDataFiles, IsLive, DeadDataFiles, TableDead, Uncovered
<1>4. \A d \in DOMAIN deleteFile :
          d[1] \in LiveDataFiles /\ IsLive(deleteFile[d]) => d \notin DeadDeleteFiles(S)
    BY <1>3, Zenon DEF IsLive, DeadDeleteFiles, TableDead, Uncovered
<1>5. Head' = Head
    BY <1>1, HeadIsNat, HeadStays, Zenon DEF IInv
<1> QED
    BY <1>2, <1>3, <1>4, <1>5, Zenon

\* So what a DELETE, UPDATE, merge or rewrite read is still current.
LEMMA ExpiryKeepsCurrent ==
    ASSUME IInv, NEW S \in SUBSET snapshots, Expire(S), tableEnd = NULL,
           NEW e, StillCurrent(e)
    PROVE  e.file \in LiveDataFiles' /\ LiveDeleteFile(e.file)' = e.prev
<1>1. /\ e.file \in LiveDataFiles /\ e.file \in DOMAIN dataFile'
      /\ dataFile'[e.file] = dataFile[e.file]
    BY ExpiryKeepsLive, Zenon DEF StillCurrent
<1>2. e.file \in LiveDataFiles'
    BY <1>1, Zenon DEF LiveDataFiles
<1>3. \A d : d \in LiveDeleteFile(e.file)' <=> d \in LiveDeleteFile(e.file)
    BY <1>1, ExpiryKeepsLive, Zenon DEF LiveDeleteFile
<1>4. LiveDeleteFile(e.file)' = LiveDeleteFile(e.file)
    BY <1>3, Zenon DEF LiveDeleteFile
<1> QED
    BY <1>2, <1>4, Zenon DEF StillCurrent

\* What a flush read is still as it was, or an expiry removed it.
LEMMA ExpiryKeepsFlushable ==
    ASSUME IInv, DInv, NEW S \in SUBSET snapshots, Expire(S), tableEnd = NULL,
           NEW e, StillFlushable(e) \/ Expired(e)
    PROVE  StillFlushable(e)' \/ Expired(e)'
<1> DEFINE D == {d \in DeleteFilesOf({e.file}) :
                    e.fileEnd # NULL \/ IsLive(deleteFile[d])}
           E == {d \in DeleteFilesOf({e.file})' :
                    e.fileEnd # NULL \/ IsLive(deleteFile'[d])}
<1>1. CASE Expired(e)
    BY <1>1, ExpiryKeepsLive, Zenon DEF Expired
<1>2. CASE StillFlushable(e) /\ Expired(e)'
    BY <1>2, Zenon
<1>3. CASE StillFlushable(e) /\ ~Expired(e)'
  <2>1. /\ e.file \in DOMAIN dataFile /\ dataFile[e.file].end = e.fileEnd
        /\ e.prev = {d \in D : \A o \in D : deleteFile[o].begin <= deleteFile[d].begin}
      BY <1>3, Zenon DEF StillFlushable
  <2>2. e.fileEnd = NULL => e.file \in LiveDataFiles
      BY <2>1, Zenon DEF LiveDataFiles, IsLive
  <2>3. e.file \in DOMAIN dataFile' /\ dataFile'[e.file] = dataFile[e.file]
      BY <1>3, <2>2, ExpiryKeepsLive, Zenon DEF Expired
  <2>4. \A d \in D : d \in DOMAIN deleteFile'
    <3>1. CASE e.fileEnd = NULL
        BY <2>2, <3>1, ExpiryKeepsLive, Zenon DEF DeleteFilesOf
    <3>2. CASE e.fileEnd # NULL
      <4>1. \A c, d \in D : c = d
          BY Zenon DEF DeleteFilesOf, DInv, SingleDeleteFile
      <4>2. \A d \in D : deleteFile[d].begin \in Nat
          BY Zenon DEF DeleteFilesOf, IInv, CatalogOK, DeleteFileOK, DeleteFileRow
      <4>3. \A d \in D : deleteFile[d].begin <= deleteFile[d].begin
          BY <4>2
      <4> HIDE DEF D
      <4>4. D \subseteq e.prev
          BY <2>1, <4>1, <4>3, Zenon
      <4>5. e.prev \subseteq DOMAIN deleteFile'
          BY <1>3, <2>3, <3>2, Zenon DEF Expired
      <4> QED
          BY <4>4, <4>5, Zenon
    <3> QED
        BY <3>1, <3>2, Zenon
  <2>5. E = D /\ \A d \in D : deleteFile'[d] = deleteFile[d]
    <3>1. \A d \in D : deleteFile'[d] = deleteFile[d]
        BY <2>4, ExpiryKeepsLive, Zenon
    <3>2. \A d : d \in E <=> d \in D
        BY <2>4, <3>1, ExpiryKeepsLive, Zenon DEF DeleteFilesOf
    <3> HIDE DEF D, E
    <3> QED
        BY <3>1, <3>2, Zenon
  <2>6. e.prev = {d \in E : \A o \in E : deleteFile'[o].begin <= deleteFile'[d].begin}
    <3> HIDE DEF D, E
    <3> QED
        BY <2>1, <2>5, Zenon
  <2> QED
      BY <2>1, <2>3, <2>6, Zenon DEF StillFlushable
<1> QED
    BY <1>1, <1>2, <1>3, Zenon

\* So an expiry leaves every reading standing.
LEMMA ExpireStands ==
    ASSUME IInv, DInv, CInv, NEW S \in SUBSET snapshots, Expire(S) PROVE CInv'
<1>1. stmt' = stmt /\ tableEnd' = tableEnd
    BY Zenon DEF Expire
<1>2. Head' = Head
    BY HeadIsNat, HeadStays, Zenon DEF Expire, IInv
<1>3. SUFFICES ASSUME NEW w \in Writers, stmt[w].op # "none", stmt[w].base = Head
               PROVE  Stands(stmt[w])'
    BY <1>1, <1>2, Zenon DEF CInv, Active
<1>4. Stands(stmt[w])
    BY <1>3, Zenon DEF CInv, Active
<1>5. \A e \in stmt[w].entries : StillCurrent(e) =>
          e.file \in LiveDataFiles' /\ LiveDeleteFile(e.file)' = e.prev
    BY <1>4, ExpiryKeepsCurrent, Zenon DEF Stands
<1>6. \A e \in stmt[w].entries : StillFlushable(e) \/ Expired(e) =>
          StillFlushable(e)' \/ Expired(e)'
    BY <1>4, ExpiryKeepsFlushable, Zenon DEF Stands
<1> DEFINE st == stmt[w]
<1>7. st' = st
    BY <1>1, Zenon
<1> QED
    BY <1>1, <1>2, <1>4, <1>5, <1>6, Zenon DEF Stands, StillCurrent

-----------------------------------------------------------------------------
\* What a statement based on the head has read is what its commit compares, for
\* as long as the head stays.
THEOREM ReadingsStand == Spec => []CInv
<1>1. Init => CInv
  <2> SUFFICES ASSUME Init PROVE CInv
      BY Zenon
  <2>1. \A w \in Writers : stmt[w].op = "none"
      BY Zenon DEF Init, NoStatement
  <2> QED
      BY <2>1, Zenon DEF CInv, Active
<1>2. IInv /\ DInv /\ CInv /\ [Next]_vars => CInv'
  <2> SUFFICES ASSUME IInv, DInv, CInv, [Next]_vars PROVE CInv'
      BY Zenon
  <2>1. CASE \E w \in Writers : Begin(w) \/ Settle(w)
      BY <2>1, BeginStands, SettleStands, Zenon
  <2>2. CASE Alter \/ Drop \/ OtherCommit \/ \E b \in snapshots : RetireAppends(b)
      BY <2>2, ImmediateStands, Zenon
  <2>3. CASE \E S \in SUBSET snapshots : Expire(S)
      BY <2>3, ExpireStands, Zenon
  <2>4. CASE Quiescent \/ UNCHANGED vars
    <3>1. UNCHANGED <<tableEnd, dataFile, deleteFile, stmt, snapshots>>
        BY <2>4, Zenon DEF Quiescent, vars, catalogVars
    <3> QED
        BY <3>1 DEF CInv, Active, Head, Stands, StillCurrent, LiveDataFiles,
                    LiveDeleteFile, StillFlushable, DeleteFilesOf, Expired
  <2> QED
      BY <2>1, <2>2, <2>3, <2>4, Zenon DEF Next
<1> QED
    BY <1>1, <1>2, Invariance, DeleteFileInvariance, PTL DEF Spec

\* While a statement's base is the head its commit passes every check, so what
\* register_data_files, commit_positional_deletes, commit_compaction,
\* commit_truncate and replace_delete_files refuse as a conflict is always some
\* commit made since, or what an expiry took from under a flush.
THEOREM ConflictsAreReal == Spec => []NoSpuriousConflict
<1>1. IInv /\ CInv => NoSpuriousConflict
  <2> SUFFICES ASSUME IInv, CInv, NEW w \in Active, stmt[w].base = Head
               PROVE  \/ CanCommit(stmt[w]) \/ TruncatesNothing(stmt[w])
                      \/ \E e \in stmt[w].entries : Expired(e)
      BY Zenon DEF NoSpuriousConflict
  <2>1. Stands(stmt[w])
      BY Zenon DEF CInv
  <2> QED
      BY <2>1, StandingCommits, Zenon
<1> QED
    BY <1>1, Invariance, ReadingsStand, PTL
=============================================================================
