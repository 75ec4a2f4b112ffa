------------------------- MODULE TableCommitProofs --------------------------
(***************************************************************************)
(* What the pieces of a catalog transaction of TableWrites do to the       *)
(* inductive invariant IInv, and that every action that commits keeps it:  *)
(* the transactions that belong to no statement, then those that settle    *)
(* one, a lemma per action.                                                *)
(***************************************************************************)
EXTENDS TableInvariant, TLAPS, WellFoundedInduction

\* A leaf may take its time: the provers get more than their default.
USE SMTT(30), ZenonT(30)

\* A nonempty set of naturals has a least element, and Least is it.
LEMMA LeastIsNat ==
    ASSUME NEW S, S \subseteq Nat, S # {}
    PROVE  Least(S) \in S /\ \A y \in S : Least(S) <= y
<1>1. PICK x \in S : \A y \in S : ~(<<y, x>> \in OpToRel(<, Nat))
    BY NatLessThanWellFounded, WFMin, Zenon
<1>2. \A y \in Nat : y < x => <<y, x>> \in OpToRel(<, Nat)
    BY Zenon DEF OpToRel
<1>3. \A y \in S : ~(y < x)
    BY <1>1, <1>2, Zenon
<1>4. \A y \in S : x <= y
    BY <1>3
<1> QED
    BY <1>4, Zenon DEF Least

\* A bounded nonempty set of naturals has a greatest element, and Greatest is it.
LEMMA GreatestIsNat ==
    ASSUME NEW S, S \subseteq Nat, S # {}, NEW B \in Nat, \A y \in S : y <= B
    PROVE  Greatest(S) \in S /\ \A y \in S : y <= Greatest(S)
<1> DEFINE U == {n \in Nat : \A y \in S : y <= n}
<1>1. U \subseteq Nat /\ U # {}
    BY Zenon
<1>2. Least(U) \in U /\ \A n \in U : Least(U) <= n
    BY <1>1, LeastIsNat, Zenon
<1> DEFINE m == Least(U)
<1>3. m \in Nat /\ \A y \in S : y <= m
    BY <1>2, Zenon
<1>4. m \in S
  <2>1. SUFFICES ASSUME m \notin S PROVE FALSE
      BY Zenon
  <2>2. \A y \in S : y <= m - 1
      BY <1>3, <2>1
  <2>3. m - 1 \in Nat
    <3>1. PICK y \in S : TRUE
        BY Zenon
    <3>2. y \in Nat /\ y <= m - 1
        BY <2>2, Zenon
    <3> QED
        BY <1>3, <3>2
  <2>4. m - 1 \in U
      BY <2>2, <2>3, Zenon
  <2> QED
      BY <1>2, <1>3, <2>4
<1> QED
    BY <1>3, <1>4, Zenon DEF Greatest

\* Greatest is the element that bounds the set.
LEMMA GreatestIs ==
    ASSUME NEW S, S \subseteq Nat, NEW x \in S, \A y \in S : y <= x
    PROVE  Greatest(S) = x
<1>1. Greatest(S) \in S /\ \A y \in S : y <= Greatest(S)
    BY GreatestIsNat, Zenon
<1>2. Greatest(S) <= x /\ x <= Greatest(S) /\ Greatest(S) \in Nat /\ x \in Nat
    BY <1>1, Zenon
<1> QED
    BY <1>2

-----------------------------------------------------------------------------
\* The head, before and after a commit.

\* The head is a snapshot, and a commit takes the number after it.
LEMMA HeadIsNat ==
    ASSUME HeadOK
    PROVE Head \in Nat /\ Head \in snapshots /\ Own = Head + 1
BY Zenon DEF HeadOK, Own

\* insert_snapshot numbers its snapshot one past the head and makes it the head.
LEMMA HeadAdvances ==
    ASSUME HeadOK, NEW tokens, Records(tokens)
    PROVE  Head' = Own /\ HeadOK'
<1>1. Own \in Nat /\ Own = Head + 1 /\ snapshots' = snapshots \cup {Own}
    BY HeadIsNat DEF Records
<1>2. \A s \in snapshots' : s <= Own
    BY <1>1 DEF HeadOK
<1>3. Own \in snapshots' /\ snapshots' \subseteq Nat
    BY <1>1, Zenon DEF HeadOK
<1>4. Head' = Own
    BY <1>2, <1>3, GreatestIs, Zenon DEF Head
<1> QED
    BY <1>1, <1>2, <1>3, <1>4 DEF HeadOK

\* Expiry, which never takes the head, leaves MAX(snapshot_id) alone.
LEMMA HeadStays ==
    ASSUME HeadOK, snapshots' \subseteq snapshots, Head \in snapshots'
    PROVE  Head' = Head /\ HeadOK'
<1>1. \A s \in snapshots' : s <= Head
    BY Zenon DEF HeadOK
<1>2. Head' = Head
    BY <1>1, GreatestIs, Zenon DEF Head, HeadOK
<1> QED
    BY <1>1, <1>2, Zenon DEF HeadOK

-----------------------------------------------------------------------------
\* What held at head h and counter n holds at a later head and counter.

\* What is bounded by the head and the counter is bounded by later ones.
LEMMA RowLater ==
    ASSUME NEW h \in Nat, NEW k \in Nat, h <= k, NEW n \in Nat, NEW m \in Nat, n <= m,
           NEW p, RowOK(p, h, n)
    PROVE  RowOK(p, k, m)
BY DEF RowOK, FileRow

\* The same of a data file's row,
LEMMA DataFileLater ==
    ASSUME NEW h \in Nat, NEW k \in Nat, h <= k, NEW n \in Nat, NEW m \in Nat, n <= m,
           NEW r, DataFileOK(r, h, n)
    PROVE  DataFileOK(r, k, m)
<1>1. \A p \in r.rows : RowOK(p, k, m)
    BY RowLater, Zenon DEF DataFileOK
<1> QED
    BY <1>1 DEF DataFileOK, DataFileRow

\* of a delete file's,
LEMMA DeleteFileLater ==
    ASSUME NEW h \in Nat, NEW k \in Nat, h <= k, NEW r, DeleteFileOK(r, h)
    PROVE  DeleteFileOK(r, k)
<1>1. \A x \in r.dels : x.at \in Nat
    BY Zenon DEF DeleteFileOK, DeleteFileRow, DatedPosition
<1> QED
    BY <1>1 DEF DeleteFileOK, DeleteFileRow

\* of inlined rows and deletions,
LEMMA InlinedLater ==
    ASSUME NEW h \in Nat, NEW k \in Nat, h <= k, NEW n \in Nat, NEW m \in Nat, n <= m
    PROVE  /\ \A r : InlinedRowOK(r, h, n) => InlinedRowOK(r, k, m)
           /\ \A i : InlinedDeleteOK(i, h) => InlinedDeleteOK(i, k)
BY DEF InlinedRowOK, InlinedRow, InlinedDeleteOK, InlinedDelete

\* of what a statement recorded for one data file,
LEMMA EntryLater ==
    ASSUME NEW h \in Nat, NEW k \in Nat, h <= k, NEW e, EntryOK(e, h)
    PROVE  EntryOK(e, k)
<1>1. \A x \in e.carried : x.at \in Nat
    BY Zenon DEF EntryOK, Entry, DatedPosition
<1>2. e.fileEnd \in Nat /\ e.delEnd \in Nat /\ e.file \in Nat
    BY Zenon DEF EntryOK, Entry
<1> QED
    BY <1>1, <1>2 DEF EntryOK

\* and of a statement: one in flight stays right while others commit.
LEMMA StatementLater ==
    ASSUME NEW h \in Nat, NEW k \in Nat, h <= k, NEW n \in Nat, NEW m \in Nat, n <= m,
           NEW st, StatementOK(st, h, n)
    PROVE  StatementOK(st, k, m)
<1>1. \A p \in st.out : RowOK(p, k, m)
    BY RowLater, Zenon DEF StatementOK
<1>2. \A e \in st.entries : EntryOK(e, k)
    BY EntryLater, Zenon DEF StatementOK
<1>3. \A x \in st.dels : x.at \in Nat
    BY Zenon DEF StatementOK, Statement, DatedPosition
<1>4. /\ st.base \in Nat /\ st.date \in Nat /\ st.outBegin \in Nat /\ st.outMax \in Nat
      /\ st.kept \subseteq Nat
    BY Zenon DEF StatementOK, Statement
<1> QED
    BY <1>1, <1>2, <1>3, <1>4 DEF StatementOK

-----------------------------------------------------------------------------
\* The pieces of a commit keep their part of the invariant, at the new head.

\* The fields of a session without a statement.
LEMMA IdleFields ==
    /\ NoStatement \in Statement
    /\ NoStatement.op = "none" /\ NoStatement.base = 0 /\ NoStatement.fresh = 0
    /\ NoStatement.kept = {} /\ NoStatement.entries = {} /\ NoStatement.date = 0
    /\ NoStatement.out = {} /\ NoStatement.outBegin = 0 /\ NoStatement.outMax = 0
    /\ NoStatement.dels = {}
BY Zenon DEF NoStatement, Statement, NULL, AllOps

\* A session without a statement carries nothing.
LEMMA IdleOK ==
    ASSUME NEW h \in Nat, NEW n \in Nat PROVE StatementOK(NoStatement, h, n)
BY IdleFields DEF StatementOK

\* Settling one statement leaves the other sessions' right.
LEMMA SettlesOK ==
    ASSUME NEW h \in Nat, NEW k \in Nat, h <= k, NEW n \in Nat, NEW m \in Nat, n <= m,
           StatementsOK(h, n), NEW w \in Writers, Settles(w)
    PROVE  /\ stmt' = [v \in Writers |-> stmt'[v]]
           /\ \A v \in Writers : StatementOK(stmt'[v], k, m)
<1>1. \A v \in Writers : stmt'[v] = IF v = w THEN NoStatement ELSE stmt[v]
    BY Zenon DEF Settles, StatementsOK
<1>2. stmt' = [v \in Writers |-> stmt'[v]]
    BY Zenon DEF Settles, StatementsOK
<1>3. \A v \in Writers : StatementOK(stmt'[v], k, m)
    BY <1>1, IdleOK, StatementLater, Zenon DEF StatementsOK
<1> QED
    BY <1>2, <1>3, Zenon

\* The row ids a commit draws are below the counter it leaves.
LEMMA NewRowsOK ==
    ASSUME HeadOK, nextRowId \in Nat, NEW st, StatementOK(st, Head, nextRowId)
    PROVE  /\ st.fresh \in Nat
           /\ \A r \in RowIds(st) : r \in Nat /\ r < nextRowId + st.fresh
<1>1. st.fresh \in Nat /\ st.kept \subseteq Nat /\ \A k \in st.kept : k < nextRowId
    BY Zenon DEF StatementOK, Statement
<1> QED
    BY <1>1 DEF RowIds

\* The data files after a commit that adds st's rows and ends the files F.
LEMMA DataFilesAfterOK ==
    ASSUME HeadOK, CatalogOK(Head, nextRowId), NEW st, NEW F,
           StatementOK(st, Head, nextRowId)
    PROVE  /\ DOMAIN DataFilesAfter(st, F) \subseteq DOMAIN dataFile \cup {Own}
           /\ \A f \in DOMAIN DataFilesAfter(st, F) :
                 /\ f \in 1 .. Own
                 /\ DataFileOK(DataFilesAfter(st, F)[f], Own, nextRowId + st.fresh)
<1> DEFINE m == nextRowId + st.fresh
<1>1. /\ Head \in Nat /\ Own \in Nat /\ Own = Head + 1 /\ nextRowId \in Nat
      /\ m \in Nat /\ nextRowId <= m
  <2>1. Head \in Nat /\ Own = Head + 1
      BY HeadIsNat, Zenon
  <2>2. nextRowId \in Nat
      BY Zenon DEF CatalogOK
  <2>3. st.fresh \in Nat
      BY <2>2, NewRowsOK, Zenon
  <2> QED
      BY <2>1, <2>2, <2>3
<1>2. \A r \in RowIds(st) : r \in Nat /\ r < m
    BY <1>1, NewRowsOK, Zenon
<1>3. DataFileOK(NewDataFile(st), Own, m)
    BY <1>1, <1>2 DEF DataFileOK, NewDataFile, NewRows, DataFileRow, RowOK, FileRow, NULL
<1>4. \A f \in DOMAIN dataFile : DataFileOK(dataFile[f], Own, m)
    BY <1>1, DataFileLater DEF CatalogOK
<1>5. \A f \in DOMAIN dataFile : DataFileOK(End(dataFile[f]), Own, m)
    BY <1>1, <1>4 DEF DataFileOK, DataFileRow, End
<1>6. \A f \in DOMAIN dataFile : f \in 1 .. Own
    BY <1>1 DEF CatalogOK
<1> QED
    BY <1>1, <1>3, <1>4, <1>5, <1>6 DEF DataFilesAfter

\* The inlined rows after a commit that adds st's rows and ends the rows R.
LEMMA InlinedRowsAfterOK ==
    ASSUME HeadOK, CatalogOK(Head, nextRowId), NEW st, NEW R,
           StatementOK(st, Head, nextRowId)
    PROVE  \A r \in InlinedRowsAfter(st, R) :
               InlinedRowOK(r, Own, nextRowId + st.fresh)
<1> DEFINE m == nextRowId + st.fresh
<1>1. /\ Head \in Nat /\ Own \in Nat /\ Own = Head + 1 /\ nextRowId \in Nat
      /\ m \in Nat /\ nextRowId <= m
  <2>1. Head \in Nat /\ Own = Head + 1
      BY HeadIsNat, Zenon
  <2>2. nextRowId \in Nat
      BY Zenon DEF CatalogOK
  <2>3. st.fresh \in Nat
      BY <2>2, NewRowsOK, Zenon
  <2> QED
      BY <2>1, <2>2, <2>3
<1>2. \A r \in RowIds(st) : r \in Nat /\ r < m
    BY <1>1, NewRowsOK, Zenon
<1>3. \A r \in RowIds(st) :
          InlinedRowOK([rid |-> r, begin |-> Own, end |-> NULL], Own, m)
    BY <1>1, <1>2 DEF InlinedRowOK, InlinedRow, NULL
<1>4. \A r \in inlinedRow : InlinedRowOK(r, Own, m)
    BY <1>1, InlinedLater DEF CatalogOK
<1>5. \A r \in inlinedRow : InlinedRowOK(End(r), Own, m)
    BY <1>1, <1>4 DEF InlinedRowOK, InlinedRow, End
<1> QED
    BY <1>3, <1>4, <1>5, Zenon DEF InlinedRowsAfter

\* The inlined deletions after a commit of st's.
LEMMA InlinedDeletesAfterOK ==
    ASSUME HeadOK, CatalogOK(Head, nextRowId), NEW st,
           StatementOK(st, Head, nextRowId)
    PROVE  \A i \in InlinedDeletesAfter(st) : InlinedDeleteOK(i, Own)
<1>1. Head \in Nat /\ Own \in Nat /\ Own = Head + 1
    BY HeadIsNat
<1>2. \A i \in inlinedDelete : InlinedDeleteOK(i, Own)
    BY <1>1 DEF CatalogOK, InlinedDeleteOK, InlinedDelete
<1>3. \A e \in st.entries : \A p \in e.pos :
          InlinedDeleteOK([file |-> e.file, pos |-> p, begin |-> Own], Own)
    BY <1>1 DEF StatementOK, EntryOK, Entry, InlinedDeleteOK, InlinedDelete
<1> QED
    BY <1>2, <1>3 DEF InlinedDeletesAfter

\* The delete file a commit registers carries no date after its snapshot.
LEMMA NewDeleteFileOK ==
    ASSUME HeadOK, NEW st, NEW e, e \in st.entries,
           StatementOK(st, Head, nextRowId),
           e.how \in {"positional", "rewritten", "flushed"}
    PROVE  DeleteFileOK(NewDeleteFile(st, e), Own)
<1> DEFINE date  == IF e.how = "positional" THEN Own ELSE st.date
           dels  == e.carried \cup {[pos |-> p, at |-> date] : p \in e.pos}
           dates == {d.at : d \in dels}
<1>1. Head \in Nat /\ Own \in Nat /\ Own = Head + 1
    BY HeadIsNat
<1>2. EntryOK(e, Head) /\ e.delEnd \in Nat /\ e.delEnd <= Own
    BY <1>1 DEF StatementOK, EntryOK, Entry
<1>3. date \in Nat /\ date <= Own
    BY <1>1 DEF StatementOK, Statement
<1>4. dels \subseteq DatedPosition
    BY <1>2, <1>3 DEF EntryOK, Entry, DatedPosition
<1>5. \A d \in dels : d.at \in Nat /\ d.at <= Own
  <2>1. ASSUME NEW d \in e.carried PROVE d.at \in Nat /\ d.at <= Own
    <3>1. d.at \in Nat /\ d.at <= Head
        BY <1>2, <1>4, <2>1, Zenon DEF EntryOK, DatedPosition
    <3> QED
        BY <1>1, <3>1
  <2>2. \A p : [pos |-> p, at |-> date].at = date
      BY Zenon
  <2> HIDE DEF date
  <2> QED
      BY <1>3, <2>1, <2>2, Zenon
<1>6. CASE e.how = "positional"
    BY <1>1, <1>4, <1>5, <1>6 DEF DeleteFileOK, NewDeleteFile, DeleteFileRow, NULL
<1>7. CASE e.how # "positional"
  <2>1. dels # {}
      BY <1>2, <1>7, Zenon DEF EntryOK
  <2>2. dates # {} /\ dates \subseteq Nat /\ \A t \in dates : t <= Own
      BY <1>5, <2>1, Zenon
  <2>3. Least(dates) \in dates
      BY <2>2, LeastIsNat, Zenon
  <2>4. Greatest(dates) \in dates
      BY <1>1, <2>2, GreatestIsNat, Zenon
  <2>5. /\ Least(dates) \in Nat /\ Least(dates) <= Own
        /\ Greatest(dates) \in Nat /\ Greatest(dates) <= Own
      BY <2>2, <2>3, <2>4, Zenon
  <2>6. NewDeleteFile(st, e) = [begin |-> Least(dates), end |-> e.delEnd,
                                partialMax |-> Greatest(dates), dels |-> dels]
      BY <1>7, Zenon DEF NewDeleteFile
  <2> HIDE DEF dels, dates, date
  <2> QED
      BY <1>2, <1>4, <1>5, <2>5, <2>6 DEF DeleteFileOK, DeleteFileRow
<1> QED
    BY <1>6, <1>7, Zenon

\* The delete files after a commit that registers st's.
LEMMA DeleteFilesAfterOK ==
    ASSUME HeadOK, CatalogOK(Head, nextRowId), NEW st,
           StatementOK(st, Head, nextRowId)
    PROVE  /\ DOMAIN DeleteFilesAfter(st) \subseteq
                 (DOMAIN deleteFile \ PrevOf(st, {"rewritten", "flushed"}))
                     \cup (1 .. Own) \X {Own}
           /\ \A d \in DOMAIN DeleteFilesAfter(st) :
                 /\ d \in (1 .. Own) \X (1 .. Own)
                 /\ DeleteFileOK(DeleteFilesAfter(st)[d], Own)
<1> DEFINE writing == {e \in st.entries :
                          e.how \in {"positional", "rewritten", "flushed"}}
           added   == {<<e.file, Own>> : e \in writing}
           kept    == DOMAIN deleteFile \ PrevOf(st, {"rewritten", "flushed"})
<1>1. Head \in Nat /\ Own \in Nat /\ Own = Head + 1 /\ Own \in 1 .. Own
    BY HeadIsNat DEF HeadOK
<1>2. \A e \in writing : e.file \in 1 .. Own
    BY <1>1 DEF StatementOK, EntryOK
<1>3. added \subseteq (1 .. Own) \X {Own}
    BY <1>2
<1>4. \A d \in added : \E e \in writing : e.file = d[1]
    OBVIOUS
<1>5. \A d \in added :
          DeleteFileOK(NewDeleteFile(st, CHOOSE e \in writing : e.file = d[1]), Own)
    BY <1>4, NewDeleteFileOK, Zenon
<1>6. \A d \in kept : d \in (1 .. Own) \X (1 .. Own) /\ DeleteFileOK(deleteFile[d], Own)
    BY <1>1, DeleteFileLater DEF CatalogOK
<1>7. \A d \in kept : DeleteFileOK(End(deleteFile[d]), Own)
    BY <1>1, <1>6 DEF DeleteFileOK, DeleteFileRow, End
<1>8. DeleteFilesAfter(st) = [d \in kept \cup added |->
          IF d \in added
          THEN NewDeleteFile(st, CHOOSE e \in writing : e.file = d[1])
          ELSE IF d \in PrevOf(st, {"positional"}) THEN End(deleteFile[d])
          ELSE deleteFile[d]]
    BY Zenon DEF DeleteFilesAfter
<1> HIDE DEF writing, added, kept
<1>9. DOMAIN DeleteFilesAfter(st) = kept \cup added
    BY <1>8, Zenon
<1>10. added \subseteq (1 .. Own) \X (1 .. Own)
    BY <1>1, <1>3, Zenon
<1>11. \A d \in kept \cup added : DeleteFileOK(DeleteFilesAfter(st)[d], Own)
    BY <1>5, <1>6, <1>7, <1>8, Zenon
<1> QED
    BY <1>3, <1>6, <1>9, <1>10, <1>11, Zenon DEF kept

\* Ending delete files moves no date past the commit's snapshot.
LEMMA EndDeleteFilesOK ==
    ASSUME HeadOK, CatalogOK(Head, nextRowId), NEW D
    PROVE  /\ DOMAIN EndDeleteFiles(D) = DOMAIN deleteFile
           /\ \A d \in DOMAIN deleteFile :
                 /\ d \in (1 .. Own) \X (1 .. Own)
                 /\ DeleteFileOK(EndDeleteFiles(D)[d], Own)
<1>1. Head \in Nat /\ Own \in Nat /\ Own = Head + 1
    BY HeadIsNat
<1>2. \A d \in DOMAIN deleteFile :
          d \in (1 .. Own) \X (1 .. Own) /\ DeleteFileOK(deleteFile[d], Own)
    BY <1>1, DeleteFileLater DEF CatalogOK
<1>3. \A d \in DOMAIN deleteFile : DeleteFileOK(End(deleteFile[d]), Own)
    BY <1>1, <1>2 DEF DeleteFileOK, DeleteFileRow, End
<1> QED
    BY <1>2, <1>3, Zenon DEF EndDeleteFiles

\* The file a merge, rewrite or flush registers is dated within the history.
LEMMA OutputFileOK ==
    ASSUME HeadOK, CatalogOK(Head, nextRowId), NEW st, StatementOK(st, Head, nextRowId)
    PROVE  DataFileOK(OutputFile(st), Own, nextRowId)
<1>1. Head \in Nat /\ Own \in Nat /\ Own = Head + 1 /\ nextRowId \in Nat
    BY HeadIsNat DEF CatalogOK
<1>2. \A p \in st.out : RowOK(p, Own, nextRowId)
    BY <1>1, RowLater DEF StatementOK
<1>3. /\ st.outBegin \in Nat /\ st.outBegin <= Head
      /\ st.outMax \in Nat /\ st.outMax <= Head /\ st.out \subseteq FileRow
    BY Zenon DEF StatementOK, Statement
<1> QED
    BY <1>1, <1>2, <1>3 DEF DataFileOK, OutputFile, DataFileRow, NULL

\* So is the delete file a flush registers beside it.
LEMMA BesideOutputOK ==
    ASSUME HeadOK, NEW st, StatementOK(st, Head, nextRowId), st.dels # {}
    PROVE  DeleteFileOK(BesideOutput(st), Own)
<1> DEFINE dates == {d.at : d \in st.dels}
<1>1. Head \in Nat /\ Own \in Nat /\ Own = Head + 1
    BY HeadIsNat
<1>2. st.dels \subseteq DatedPosition /\ \A d \in st.dels : d.at \in Nat /\ d.at <= Own
    BY <1>1 DEF StatementOK, Statement, DatedPosition
<1>3. dates # {} /\ dates \subseteq Nat /\ \A t \in dates : t <= Own
    BY <1>2, Zenon
<1>4. Least(dates) \in dates
    BY <1>3, LeastIsNat, Zenon
<1>5. Least(dates) \in Nat /\ Least(dates) <= Own
    BY <1>3, <1>4, Zenon
<1> QED
    BY <1>1, <1>2, <1>5 DEF DeleteFileOK, BesideOutput, DeleteFileRow, NULL

-----------------------------------------------------------------------------
\* Files leave the catalog when they are scheduled, and new ones get new ids.
LEMMA SchedulingOK ==
    ASSUME HeadOK, CatalogOK(Head, nextRowId),
           NEW F, F \subseteq DOMAIN dataFile, NEW D, D \subseteq DOMAIN deleteFile,
           scheduled' = ScheduledAfter(F, D),
           DOMAIN dataFile' \subseteq (DOMAIN dataFile \ F) \cup {Own},
           DOMAIN deleteFile' \subseteq (DOMAIN deleteFile \ D) \cup (1 .. Own) \X {Own}
    PROVE  scheduled' \subseteq (0 .. Own) \X (0 .. Own) /\ ScheduledUnreachable'
<1>1. Head \in Nat /\ Own \in Nat /\ Own = Head + 1
    BY HeadIsNat
<1>2. /\ scheduled \subseteq (0 .. Head) \X (0 .. Head)
      /\ DOMAIN dataFile \subseteq 1 .. Head
      /\ DOMAIN deleteFile \subseteq (1 .. Head) \X (1 .. Head)
      /\ scheduled \cap (DOMAIN deleteFile \cup (DOMAIN dataFile) \X {0}) = {}
    BY Zenon DEF CatalogOK, ScheduledUnreachable
<1>3. scheduled' = scheduled \cup D \cup (F \X {0})
    BY Zenon DEF ScheduledAfter
<1>4. scheduled' \subseteq (0 .. Own) \X (0 .. Own)
    BY <1>1, <1>2, <1>3
<1>5. ASSUME NEW x \in scheduled', x \in DOMAIN deleteFile' PROVE FALSE
    BY <1>1, <1>2, <1>3, <1>5
<1>6. ASSUME NEW x \in scheduled', x \in (DOMAIN dataFile') \X {0} PROVE FALSE
    BY <1>1, <1>2, <1>3, <1>6
<1> QED
    BY <1>4, <1>5, <1>6, Zenon DEF ScheduledUnreachable

\* A commit whose pieces are right keeps the invariant.
LEMMA CommitOK ==
    ASSUME IInv, NEW tokens \in SUBSET Token, Records(tokens),
           tableEnd' \in {tableEnd, Own}, alteredAt' \in {alteredAt, Own},
           nextRowId' \in Nat, nextRowId <= nextRowId',
           \A f \in DOMAIN dataFile' :
               f \in 1 .. Own /\ DataFileOK(dataFile'[f], Own, nextRowId'),
           \A d \in DOMAIN deleteFile' :
               d \in (1 .. Own) \X (1 .. Own) /\ DeleteFileOK(deleteFile'[d], Own),
           \A r \in inlinedRow' : InlinedRowOK(r, Own, nextRowId'),
           \A i \in inlinedDelete' : InlinedDeleteOK(i, Own),
           NEW F, F \subseteq DOMAIN dataFile, NEW D, D \subseteq DOMAIN deleteFile,
           scheduled' = ScheduledAfter(F, D),
           DOMAIN dataFile' \subseteq (DOMAIN dataFile \ F) \cup {Own},
           DOMAIN deleteFile' \subseteq (DOMAIN deleteFile \ D) \cup (1 .. Own) \X {Own},
           \/ \E w \in Writers : Settles(w)
           \/ UNCHANGED stmt
    PROVE  IInv'
<1>1. /\ Head \in Nat /\ Own \in Nat /\ Own = Head + 1 /\ Head <= Own
      /\ nextRowId \in Nat
    BY HeadIsNat DEF IInv, CatalogOK
<1>2. Head' = Own /\ HeadOK'
    BY HeadAdvances, Zenon DEF IInv
<1>3. changes' \in [snapshots' -> SUBSET Token]
    BY Zenon DEF IInv, CatalogOK, Records
<1>4. tableEnd' \in 0 .. Own /\ alteredAt' \in 0 .. Own
    BY <1>1 DEF IInv, CatalogOK
<1>5. scheduled' \subseteq (0 .. Own) \X (0 .. Own) /\ ScheduledUnreachable'
    BY SchedulingOK, Zenon DEF IInv
<1>6. CatalogOK(Head, nextRowId)'
    BY <1>2, <1>3, <1>4, <1>5, Zenon DEF CatalogOK
<1>7. /\ stmt' = [v \in Writers |-> stmt'[v]]
      /\ \A v \in Writers : StatementOK(stmt'[v], Own, nextRowId')
  <2>1. CASE \E w \in Writers : Settles(w)
      BY <1>1, <2>1, SettlesOK, Zenon DEF IInv
  <2>2. CASE UNCHANGED stmt
      BY <1>1, <2>2, StatementLater, Zenon DEF IInv, StatementsOK
  <2> QED
      BY <2>1, <2>2, Zenon
<1>8. StatementsOK(Head, nextRowId)'
    BY <1>2, <1>7, Zenon DEF StatementsOK
<1> QED
    BY <1>2, <1>6, <1>8, Zenon DEF IInv

\* What a commit leaves alone.
LEMMA KeptOK ==
    ASSUME HeadOK, CatalogOK(Head, nextRowId), NEW m \in Nat, nextRowId <= m
    PROVE  /\ \A f \in DOMAIN dataFile :
                 f \in 1 .. Own /\ DataFileOK(dataFile[f], Own, m)
           /\ \A d \in DOMAIN deleteFile :
                 d \in (1 .. Own) \X (1 .. Own) /\ DeleteFileOK(deleteFile[d], Own)
           /\ \A r \in inlinedRow : InlinedRowOK(r, Own, m)
           /\ \A i \in inlinedDelete : InlinedDeleteOK(i, Own)
           /\ scheduled = ScheduledAfter({}, {})
<1>1. Head \in Nat /\ Own \in Nat /\ Own = Head + 1 /\ nextRowId \in Nat
    BY HeadIsNat DEF CatalogOK
<1>2. \A f \in DOMAIN dataFile : f \in 1 .. Own /\ DataFileOK(dataFile[f], Own, m)
    BY <1>1, DataFileLater DEF CatalogOK
<1>3. \A d \in DOMAIN deleteFile :
          d \in (1 .. Own) \X (1 .. Own) /\ DeleteFileOK(deleteFile[d], Own)
    BY <1>1, DeleteFileLater DEF CatalogOK
<1>4. /\ \A r \in inlinedRow : InlinedRowOK(r, Own, m)
      /\ \A i \in inlinedDelete : InlinedDeleteOK(i, Own)
    BY <1>1, InlinedLater DEF CatalogOK
<1> QED
    BY <1>2, <1>3, <1>4, Zenon DEF ScheduledAfter

-----------------------------------------------------------------------------
\* The transactions that belong to no statement.

\* What the steps below need of numbers, so that the rest is set reasoning.
LEMMA SameCounter == \A n \in Nat : n <= n /\ n + 0 = n
OBVIOUS

\* A commit that schedules no file for deletion keeps the invariant.
LEMMA PlainCommitOK ==
    ASSUME IInv, NEW tokens \in SUBSET Token, Records(tokens),
           tableEnd' \in {tableEnd, Own}, alteredAt' \in {alteredAt, Own},
           nextRowId' \in Nat, nextRowId <= nextRowId',
           DOMAIN dataFile' \subseteq DOMAIN dataFile \cup {Own},
           \A f \in DOMAIN dataFile' :
               f \in 1 .. Own /\ DataFileOK(dataFile'[f], Own, nextRowId'),
           DOMAIN deleteFile' \subseteq DOMAIN deleteFile \cup (1 .. Own) \X {Own},
           \A d \in DOMAIN deleteFile' :
               d \in (1 .. Own) \X (1 .. Own) /\ DeleteFileOK(deleteFile'[d], Own),
           \A r \in inlinedRow' : InlinedRowOK(r, Own, nextRowId'),
           \A i \in inlinedDelete' : InlinedDeleteOK(i, Own),
           scheduled' = scheduled,
           \/ \E w \in Writers : Settles(w)
           \/ UNCHANGED stmt
    PROVE  IInv'
<1> DEFINE none == {}
<1>1. none \subseteq DOMAIN dataFile /\ none \subseteq DOMAIN deleteFile
    BY Zenon
<1>2. scheduled' = ScheduledAfter(none, none)
    BY Zenon DEF ScheduledAfter
<1>3. DOMAIN dataFile' \subseteq (DOMAIN dataFile \ none) \cup {Own}
    BY Zenon
<1>4. DOMAIN deleteFile' \subseteq (DOMAIN deleteFile \ none) \cup (1 .. Own) \X {Own}
    BY Zenon
<1> HIDE DEF none
<1> QED
    BY <1>1, <1>2, <1>3, <1>4, CommitOK, Zenon

\* An alteration keeps the invariant.
LEMMA AlterOK ==
    ASSUME IInv, Alter PROVE IInv'
<1>1. HeadOK /\ CatalogOK(Head, nextRowId) /\ nextRowId \in Nat
    BY Zenon DEF IInv, CatalogOK
<1>2. /\ nextRowId' = nextRowId /\ nextRowId <= nextRowId'
      /\ dataFile' = dataFile /\ deleteFile' = deleteFile /\ scheduled' = scheduled
      /\ inlinedRow' = inlinedRow /\ inlinedDelete' = inlinedDelete
      /\ tableEnd' = tableEnd /\ alteredAt' = Own /\ UNCHANGED stmt
      /\ Records({"altered_table"})
    BY <1>1, SameCounter, Zenon DEF Alter
<1>3. {"altered_table"} \in SUBSET Token
    BY Zenon DEF Token
<1>4. /\ DOMAIN dataFile' \subseteq DOMAIN dataFile \cup {Own}
      /\ DOMAIN deleteFile' \subseteq DOMAIN deleteFile \cup (1 .. Own) \X {Own}
      /\ \A f \in DOMAIN dataFile' :
            f \in 1 .. Own /\ DataFileOK(dataFile'[f], Own, nextRowId')
      /\ \A d \in DOMAIN deleteFile' :
            d \in (1 .. Own) \X (1 .. Own) /\ DeleteFileOK(deleteFile'[d], Own)
      /\ \A r \in inlinedRow' : InlinedRowOK(r, Own, nextRowId')
      /\ \A i \in inlinedDelete' : InlinedDeleteOK(i, Own)
    BY <1>1, <1>2, KeptOK, Zenon
<1> QED
    BY <1>1, <1>2, <1>3, <1>4, PlainCommitOK, Zenon

\* Another table's commit keeps the invariant.
LEMMA OtherCommitOK ==
    ASSUME IInv, OtherCommit PROVE IInv'
<1>1. HeadOK /\ CatalogOK(Head, nextRowId) /\ nextRowId \in Nat
    BY Zenon DEF IInv, CatalogOK
<1>2. /\ nextRowId' = nextRowId /\ nextRowId <= nextRowId'
      /\ dataFile' = dataFile /\ deleteFile' = deleteFile /\ scheduled' = scheduled
      /\ inlinedRow' = inlinedRow /\ inlinedDelete' = inlinedDelete
      /\ tableEnd' = tableEnd /\ alteredAt' = alteredAt /\ UNCHANGED stmt
      /\ Records({})
    BY <1>1, SameCounter, Zenon DEF OtherCommit
<1>3. /\ DOMAIN dataFile' \subseteq DOMAIN dataFile \cup {Own}
      /\ DOMAIN deleteFile' \subseteq DOMAIN deleteFile \cup (1 .. Own) \X {Own}
      /\ \A f \in DOMAIN dataFile' :
            f \in 1 .. Own /\ DataFileOK(dataFile'[f], Own, nextRowId')
      /\ \A d \in DOMAIN deleteFile' :
            d \in (1 .. Own) \X (1 .. Own) /\ DeleteFileOK(deleteFile'[d], Own)
      /\ \A r \in inlinedRow' : InlinedRowOK(r, Own, nextRowId')
      /\ \A i \in inlinedDelete' : InlinedDeleteOK(i, Own)
    BY <1>1, <1>2, KeptOK, Zenon
<1>4. {} \in SUBSET Token
    BY Zenon
<1> QED
    BY <1>1, <1>2, <1>3, <1>4, PlainCommitOK, Zenon

\* The data files after a commit that adds none.
LEMMA EndedFilesOK ==
    ASSUME HeadOK, CatalogOK(Head, nextRowId), NEW F, NEW R
    PROVE  /\ DOMAIN DataFilesAfter(NoStatement, F) \subseteq DOMAIN dataFile \cup {Own}
           /\ \A f \in DOMAIN DataFilesAfter(NoStatement, F) :
                 /\ f \in 1 .. Own
                 /\ DataFileOK(DataFilesAfter(NoStatement, F)[f], Own, nextRowId)
           /\ \A r \in InlinedRowsAfter(NoStatement, R) :
                 InlinedRowOK(r, Own, nextRowId)
<1>1. Head \in Nat /\ nextRowId \in Nat
    BY HeadIsNat, Zenon DEF CatalogOK
<1>2. NoStatement.fresh = 0 /\ nextRowId + NoStatement.fresh = nextRowId
    BY <1>1 DEF NoStatement
<1>3. StatementOK(NoStatement, Head, nextRowId)
    BY <1>1, IdleOK, Zenon
<1> QED
    BY <1>2, <1>3, DataFilesAfterOK, InlinedRowsAfterOK, Zenon

\* DROP TABLE keeps the invariant.
LEMMA DropOK ==
    ASSUME IInv, Drop PROVE IInv'
<1> DEFINE none == {}
           tokens == {"dropped_table"}
<1>1. HeadOK /\ CatalogOK(Head, nextRowId) /\ nextRowId \in Nat
    BY Zenon DEF IInv, CatalogOK
<1>2. /\ nextRowId' = nextRowId /\ nextRowId <= nextRowId' /\ scheduled' = scheduled
      /\ inlinedRow' = inlinedRow /\ inlinedDelete' = inlinedDelete
      /\ tableEnd' = Own /\ alteredAt' = alteredAt /\ UNCHANGED stmt
      /\ Records(tokens)
      /\ dataFile' = DataFilesAfter(NoStatement, LiveDataFiles)
      /\ deleteFile' = EndDeleteFiles(LiveDeleteFiles)
    BY <1>1, SameCounter, Zenon DEF Drop
<1>3. tokens \in SUBSET Token
    BY Zenon DEF Token
<1>4. /\ \A r \in inlinedRow' : InlinedRowOK(r, Own, nextRowId')
      /\ \A i \in inlinedDelete' : InlinedDeleteOK(i, Own)
      /\ scheduled' = ScheduledAfter(none, none)
    BY <1>1, <1>2, KeptOK, Zenon
<1>5. /\ DOMAIN dataFile' \subseteq (DOMAIN dataFile \ none) \cup {Own}
      /\ \A f \in DOMAIN dataFile' :
            f \in 1 .. Own /\ DataFileOK(dataFile'[f], Own, nextRowId')
    BY <1>1, <1>2, EndedFilesOK, Zenon
<1>6. /\ DOMAIN deleteFile' \subseteq (DOMAIN deleteFile \ none) \cup (1 .. Own) \X {Own}
      /\ \A d \in DOMAIN deleteFile' :
            d \in (1 .. Own) \X (1 .. Own) /\ DeleteFileOK(deleteFile'[d], Own)
    BY <1>1, <1>2, EndDeleteFilesOK, Zenon
<1>7. /\ tableEnd' \in {tableEnd, Own} /\ alteredAt' \in {alteredAt, Own}
      /\ nextRowId' \in Nat /\ nextRowId <= nextRowId'
      /\ Records(tokens) /\ UNCHANGED stmt
    BY <1>1, <1>2, Zenon
<1>8. none \subseteq DOMAIN dataFile /\ none \subseteq DOMAIN deleteFile
    BY Zenon
<1> HIDE DEF none, tokens
<1> QED
    BY <1>3, <1>4, <1>5, <1>6, <1>7, <1>8, CommitOK, Zenon

\* retire_appends_since keeps the invariant.
LEMMA RetireAppendsOK ==
    ASSUME IInv, NEW b \in snapshots, RetireAppends(b) PROVE IInv'
<1> DEFINE tokens == (IF AppendedFiles(b) # {} THEN {"deleted_from_table"} ELSE {})
                        \cup (IF AppendedRows(b) # {} THEN {"inlined_delete"} ELSE {})
           none == {}
<1>1. HeadOK /\ CatalogOK(Head, nextRowId) /\ nextRowId \in Nat
    BY Zenon DEF IInv, CatalogOK
<1>2. /\ nextRowId' = nextRowId /\ nextRowId <= nextRowId' /\ scheduled' = scheduled
      /\ deleteFile' = deleteFile /\ inlinedDelete' = inlinedDelete
      /\ tableEnd' = tableEnd /\ alteredAt' = alteredAt /\ UNCHANGED stmt
      /\ Records(tokens)
      /\ dataFile' = DataFilesAfter(NoStatement, AppendedFiles(b))
      /\ inlinedRow' = InlinedRowsAfter(NoStatement, AppendedRows(b))
    BY <1>1, SameCounter, Zenon DEF RetireAppends
<1>3. tokens \in SUBSET Token
    BY Zenon DEF Token
<1> HIDE DEF none, tokens
<1>4. /\ \A d \in DOMAIN deleteFile :
            d \in (1 .. Own) \X (1 .. Own) /\ DeleteFileOK(deleteFile[d], Own)
      /\ \A i \in inlinedDelete : InlinedDeleteOK(i, Own)
      /\ scheduled = ScheduledAfter({}, {})
    BY <1>1, <1>2, KeptOK, Zenon
<1>5. /\ DOMAIN deleteFile' \subseteq (DOMAIN deleteFile \ none) \cup (1 .. Own) \X {Own}
      /\ \A d \in DOMAIN deleteFile' :
            d \in (1 .. Own) \X (1 .. Own) /\ DeleteFileOK(deleteFile'[d], Own)
      /\ \A i \in inlinedDelete' : InlinedDeleteOK(i, Own)
      /\ scheduled' = ScheduledAfter(none, none)
    BY <1>2, <1>4, Zenon DEF none
<1>6. /\ DOMAIN dataFile' \subseteq (DOMAIN dataFile \ none) \cup {Own}
      /\ \A f \in DOMAIN dataFile' :
            f \in 1 .. Own /\ DataFileOK(dataFile'[f], Own, nextRowId')
      /\ \A r \in inlinedRow' : InlinedRowOK(r, Own, nextRowId')
    BY <1>1, <1>2, EndedFilesOK, Zenon DEF none
<1>7. /\ tableEnd' \in {tableEnd, Own} /\ alteredAt' \in {alteredAt, Own}
      /\ nextRowId' \in Nat /\ nextRowId <= nextRowId'
      /\ Records(tokens) /\ UNCHANGED stmt
    BY <1>1, <1>2, Zenon
<1>8. none \subseteq DOMAIN dataFile /\ none \subseteq DOMAIN deleteFile
    BY Zenon DEF none
<1> QED
    BY <1>3, <1>5, <1>6, <1>7, <1>8, CommitOK, Zenon

\* expire_snapshots keeps the invariant: it schedules what it removes.
LEMMA ExpireOK ==
    ASSUME IInv, NEW S \in SUBSET snapshots, Expire(S) PROVE IInv'
<1> DEFINE F == DeadDataFiles(S)
           D == DeadDeleteFiles(S)
<1>1. HeadOK /\ CatalogOK(Head, nextRowId) /\ StatementsOK(Head, nextRowId)
    BY Zenon DEF IInv
<1>2. /\ snapshots' = snapshots \ S /\ Head \notin S
      /\ changes' = [s \in snapshots \ S |-> changes[s]]
      /\ dataFile' = Without(dataFile, F) /\ deleteFile' = Without(deleteFile, D)
      /\ scheduled' = ScheduledAfter(F, D)
      /\ inlinedRow' \subseteq inlinedRow /\ inlinedDelete' \subseteq inlinedDelete
      /\ tableEnd' = tableEnd /\ alteredAt' = alteredAt /\ nextRowId' = nextRowId
      /\ stmt' = stmt
    BY Zenon DEF Expire
<1>3. F \subseteq DOMAIN dataFile /\ D \subseteq DOMAIN deleteFile
    BY Zenon DEF DeadDataFiles, DeadDeleteFiles
<1> HIDE DEF F, D
<1>4. Head' = Head /\ HeadOK'
    BY <1>1, <1>2, HeadIsNat, HeadStays, Zenon
<1>5. /\ DOMAIN dataFile' = DOMAIN dataFile \ F
      /\ \A f \in DOMAIN dataFile' : dataFile'[f] = dataFile[f]
      /\ DOMAIN deleteFile' = DOMAIN deleteFile \ D
      /\ \A d \in DOMAIN deleteFile' : deleteFile'[d] = deleteFile[d]
    BY <1>2, Zenon DEF Without
<1>6. changes' \in [snapshots' -> SUBSET Token]
    BY <1>1, <1>2, Zenon DEF CatalogOK
<1>7. ScheduledUnreachable'
    <2>1. /\ scheduled \subseteq (0 .. Head) \X (0 .. Head)
          /\ DOMAIN dataFile \subseteq 1 .. Head
          /\ DOMAIN deleteFile \subseteq (1 .. Head) \X (1 .. Head)
          /\ scheduled \cap (DOMAIN deleteFile \cup (DOMAIN dataFile) \X {0}) = {}
          /\ Head \in Nat
        BY <1>1, HeadIsNat, Zenon DEF CatalogOK, ScheduledUnreachable
    <2>2. scheduled' = scheduled \cup D \cup (F \X {0})
        BY <1>2, Zenon DEF ScheduledAfter
    <2>3. ASSUME NEW x \in scheduled', x \in DOMAIN deleteFile' PROVE FALSE
        BY <1>3, <1>5, <2>1, <2>2, <2>3
    <2>4. ASSUME NEW x \in scheduled', x \in (DOMAIN dataFile') \X {0} PROVE FALSE
      <3>1. PICK f \in DOMAIN dataFile : x = <<f, 0>> /\ f \notin F
          BY <1>5, <2>4
      <3>2. x \notin scheduled
          BY <2>1, <3>1
      <3>3. x \notin D
          BY <1>3, <2>1, <3>1
      <3>4. x \notin F \X {0}
          BY <3>1
      <3> QED
          BY <2>2, <2>4, <3>2, <3>3, <3>4, Zenon
    <2> QED
        BY <2>3, <2>4, Zenon DEF ScheduledUnreachable
<1>8. scheduled' \subseteq (0 .. Head) \X (0 .. Head)
  <2>1. /\ scheduled \subseteq (0 .. Head) \X (0 .. Head)
        /\ F \subseteq 1 .. Head /\ D \subseteq (1 .. Head) \X (1 .. Head)
        /\ scheduled' = scheduled \cup D \cup (F \X {0})
      BY <1>1, <1>2, <1>3, Zenon DEF CatalogOK, ScheduledAfter
  <2>2. Head \in Nat
      BY <1>1, HeadIsNat, Zenon
  <2>3. 1 .. Head \subseteq 0 .. Head /\ {0} \subseteq 0 .. Head
      BY <2>2
  <2>4. D \subseteq (0 .. Head) \X (0 .. Head)
      BY <2>1, <2>3, Zenon
  <2>5. F \X {0} \subseteq (0 .. Head) \X (0 .. Head)
      BY <2>1, <2>3, Zenon
  <2> QED
      BY <2>1, <2>4, <2>5, Zenon
<1>9. CatalogOK(Head, nextRowId)'
    BY <1>1, <1>2, <1>4, <1>5, <1>6, <1>7, <1>8, Zenon DEF CatalogOK
<1>10. StatementsOK(Head, nextRowId)'
    BY <1>1, <1>2, <1>4, Zenon DEF StatementsOK
<1> QED
    BY <1>4, <1>9, <1>10, Zenon DEF IInv

-----------------------------------------------------------------------------
\* The commits of statements.

\* A commit records tokens of the ledger.
LEMMA TokensOK ==
    ASSUME NEW C \in SUBSET TableChange
    PROVE TokensOf(C) \in SUBSET Token
BY Zenon DEF TokensOf, TokenOf, TableChange, Token

\* What a commit declares is a set of table changes.
LEMMA ChangesOK ==
    ASSUME NEW st
    PROVE  /\ ChangesOf(st) \in SUBSET TableChange
           /\ StorageInUse \in SUBSET TableChange
BY Zenon DEF ChangesOf, StorageInUse, TableChange

\* An entry that is still current names delete files of the catalog only.
LEMMA CurrentPrevOK ==
    ASSUME NEW st, NEW hows, \A e \in st.entries : e.how \in hows => StillCurrent(e)
    PROVE  PrevOf(st, hows) \subseteq DOMAIN deleteFile
BY DEF PrevOf, StillCurrent, LiveDeleteFile

\* A commit that writes st's rows and deletions keeps the invariant.
LEMMA WritesRowsOK ==
    ASSUME IInv, NEW w \in Writers, NEW tokens \in SUBSET Token,
           stmt[w].op # "flush", WritesRows(stmt[w]), Records(tokens), Settles(w),
           PrevOf(stmt[w], {"rewritten"}) \subseteq DOMAIN deleteFile
    PROVE  IInv'
<1> DEFINE st == stmt[w]
           D  == PrevOf(st, {"rewritten"})
<1>1. HeadOK /\ CatalogOK(Head, nextRowId) /\ StatementOK(st, Head, nextRowId)
    BY Zenon DEF IInv, StatementsOK
<1>2. nextRowId \in Nat /\ st.fresh \in Nat /\ nextRowId' = nextRowId + st.fresh
    BY <1>1, NewRowsOK, Zenon DEF CatalogOK, WritesRows
<1>3. D \subseteq PrevOf(st, {"rewritten", "flushed"})
    BY Zenon DEF PrevOf
<1>4. /\ DOMAIN dataFile' \subseteq DOMAIN dataFile \cup {Own}
      /\ \A f \in DOMAIN dataFile' :
            f \in 1 .. Own /\ DataFileOK(dataFile'[f], Own, nextRowId')
    BY <1>1, <1>2, DataFilesAfterOK, Zenon DEF WritesRows
<1>5. /\ DOMAIN deleteFile' \subseteq (DOMAIN deleteFile \ D) \cup (1 .. Own) \X {Own}
      /\ \A d \in DOMAIN deleteFile' :
            d \in (1 .. Own) \X (1 .. Own) /\ DeleteFileOK(deleteFile'[d], Own)
    BY <1>1, <1>3, DeleteFilesAfterOK, Zenon DEF WritesRows
<1>6. \A r \in inlinedRow' : InlinedRowOK(r, Own, nextRowId')
    BY <1>1, <1>2, InlinedRowsAfterOK, Zenon DEF WritesRows
<1>7. \A i \in inlinedDelete' : InlinedDeleteOK(i, Own)
    BY <1>1, InlinedDeletesAfterOK, Zenon DEF WritesRows
<1>8. scheduled' = ScheduledAfter({}, D)
    BY Zenon DEF WritesRows, ScheduledAfter
<1>9. nextRowId' \in Nat /\ nextRowId <= nextRowId'
    BY <1>2
<1>10. tableEnd' = tableEnd /\ alteredAt' = alteredAt
    BY Zenon DEF WritesRows
<1> HIDE DEF D, st
<1>11. D \subseteq DOMAIN deleteFile
    BY Zenon DEF D, st
<1>12. \E v \in Writers : Settles(v)
    BY Zenon
<1> QED
    BY <1>4, <1>5, <1>6, <1>7, <1>8, <1>9, <1>10, <1>11, <1>12, CommitOK, Zenon

\* INSERT keeps the invariant.
LEMMA CommitAppendOK ==
    ASSUME IInv, NEW w \in Writers, CommitAppend(w) PROVE IInv'
<1>1. PrevOf(stmt[w], {"rewritten"}) \subseteq DOMAIN deleteFile
    BY Zenon DEF CommitAppend, PrevOf, IInv, StatementsOK, StatementOK
<1> QED
    BY <1>1, WritesRowsOK, TokensOK, ChangesOK, Zenon DEF CommitAppend

\* DELETE and UPDATE through a transaction keep the invariant.
LEMMA CommitStagedOK ==
    ASSUME IInv, NEW w \in Writers, CommitStaged(w) PROVE IInv'
<1>1. PrevOf(stmt[w], {"rewritten"}) \subseteq DOMAIN deleteFile
    BY CurrentPrevOK, Zenon DEF CommitStaged, CanCommitStaged
<1> QED
    BY <1>1, WritesRowsOK, TokensOK, ChangesOK, Zenon DEF CommitStaged

\* DELETE and UPDATE outside one keep the invariant.
LEMMA CommitDirectOK ==
    ASSUME IInv, NEW w \in Writers, CommitDirect(w) PROVE IInv'
<1>1. PrevOf(stmt[w], {"rewritten"}) \subseteq DOMAIN deleteFile
    BY CurrentPrevOK, Zenon DEF CommitDirect, CanCommitDirect
<1> QED
    BY <1>1, WritesRowsOK, TokensOK, ChangesOK, Zenon DEF CommitDirect

\* INSERT OVERWRITE keeps the invariant.
LEMMA CommitReplaceOK ==
    ASSUME IInv, NEW w \in Writers, CommitReplace(w) PROVE IInv'
<1> DEFINE st == stmt[w]
           tokens == TokensOf(ChangesOf(st) \cup StorageInUse)
<1>1. HeadOK /\ CatalogOK(Head, nextRowId) /\ StatementOK(st, Head, nextRowId)
    BY Zenon DEF IInv, StatementsOK
<1>2. /\ nextRowId' = nextRowId + st.fresh
      /\ nextRowId' \in Nat /\ nextRowId <= nextRowId'
    BY <1>1, NewRowsOK DEF CatalogOK, CommitReplace
<1>3. /\ DOMAIN dataFile' \subseteq DOMAIN dataFile \cup {Own}
      /\ \A f \in DOMAIN dataFile' :
            f \in 1 .. Own /\ DataFileOK(dataFile'[f], Own, nextRowId')
    BY <1>1, <1>2, DataFilesAfterOK, Zenon DEF CommitReplace
<1>4. \A r \in inlinedRow' : InlinedRowOK(r, Own, nextRowId')
    BY <1>1, <1>2, InlinedRowsAfterOK, Zenon DEF CommitReplace
<1>5. tokens \in SUBSET Token /\ Records(tokens) /\ Settles(w)
    BY ChangesOK, TokensOK, Zenon DEF CommitReplace
<1>6. /\ deleteFile' = deleteFile /\ inlinedDelete' = inlinedDelete
      /\ scheduled' = scheduled /\ tableEnd' = tableEnd /\ alteredAt' = alteredAt
    BY Zenon DEF CommitReplace
<1>7. /\ DOMAIN deleteFile' \subseteq DOMAIN deleteFile \cup (1 .. Own) \X {Own}
      /\ \A d \in DOMAIN deleteFile' :
            d \in (1 .. Own) \X (1 .. Own) /\ DeleteFileOK(deleteFile'[d], Own)
      /\ \A i \in inlinedDelete' : InlinedDeleteOK(i, Own)
    BY <1>1, <1>2, <1>6, KeptOK, Zenon
<1> HIDE DEF tokens
<1> QED
    BY <1>2, <1>3, <1>4, <1>5, <1>6, <1>7, PlainCommitOK, Zenon

\* TRUNCATE keeps the invariant.
LEMMA CommitTruncateOK ==
    ASSUME IInv, NEW w \in Writers, CommitTruncate(w) PROVE IInv'
<1> DEFINE st == stmt[w]
           tokens == TokensOf(StorageInUse)
<1>1. HeadOK /\ CatalogOK(Head, nextRowId) /\ StatementOK(st, Head, nextRowId)
    BY Zenon DEF IInv, StatementsOK
<1>2. st.fresh = 0 /\ nextRowId + st.fresh = nextRowId
    BY <1>1, SameCounter, Zenon DEF StatementOK, CommitTruncate, CatalogOK
<1>3. /\ nextRowId' = nextRowId /\ nextRowId \in Nat /\ nextRowId <= nextRowId'
      /\ inlinedDelete' = inlinedDelete /\ scheduled' = scheduled
      /\ tableEnd' = tableEnd /\ alteredAt' = alteredAt
    BY <1>1, SameCounter, Zenon DEF CommitTruncate, CatalogOK
<1>4. /\ DOMAIN dataFile' \subseteq DOMAIN dataFile \cup {Own}
      /\ \A f \in DOMAIN dataFile' :
            f \in 1 .. Own /\ DataFileOK(dataFile'[f], Own, nextRowId')
    BY <1>1, <1>2, <1>3, DataFilesAfterOK, Zenon DEF CommitTruncate
<1>5. \A r \in inlinedRow' : InlinedRowOK(r, Own, nextRowId')
    BY <1>1, <1>2, <1>3, InlinedRowsAfterOK, Zenon DEF CommitTruncate
<1>6. /\ DOMAIN deleteFile' \subseteq DOMAIN deleteFile \cup (1 .. Own) \X {Own}
      /\ \A d \in DOMAIN deleteFile' :
            d \in (1 .. Own) \X (1 .. Own) /\ DeleteFileOK(deleteFile'[d], Own)
    BY <1>1, EndDeleteFilesOK, Zenon DEF CommitTruncate
<1>7. tokens \in SUBSET Token /\ Records(tokens) /\ Settles(w)
    BY ChangesOK, TokensOK, Zenon DEF CommitTruncate
<1>8. \A i \in inlinedDelete' : InlinedDeleteOK(i, Own)
    BY <1>1, <1>3, KeptOK, Zenon
<1> HIDE DEF tokens
<1> QED
    BY <1>3, <1>4, <1>5, <1>6, <1>7, <1>8, PlainCommitOK, Zenon

\* Registering an output file beside right data files.
LEMMA WithOutputOK ==
    ASSUME HeadOK, CatalogOK(Head, nextRowId), NEW st,
           StatementOK(st, Head, nextRowId), NEW files,
           \A f \in DOMAIN files : f \in 1 .. Own /\ DataFileOK(files[f], Own, nextRowId)
    PROVE  /\ DOMAIN WithOutput(st, files) \subseteq DOMAIN files \cup {Own}
           /\ \A f \in DOMAIN WithOutput(st, files) :
                 /\ f \in 1 .. Own
                 /\ DataFileOK(WithOutput(st, files)[f], Own, nextRowId)
<1>1. DataFileOK(OutputFile(st), Own, nextRowId) /\ Own \in 1 .. Own
    BY OutputFileOK, HeadIsNat, SMTT(60)
<1> QED
    BY <1>1, Zenon DEF WithOutput

\* Merging adjacent files keeps the invariant.
LEMMA CommitMergeOK ==
    ASSUME IInv, NEW w \in Writers, CommitMerge(w) PROVE IInv'
<1> DEFINE st == stmt[w]
           F  == FilesOf(st, "source")
           D  == DeleteFilesOf(F)
<1>1. HeadOK /\ CatalogOK(Head, nextRowId) /\ StatementOK(st, Head, nextRowId)
    BY Zenon DEF IInv, StatementsOK
<1>2. /\ nextRowId' = nextRowId /\ nextRowId \in Nat /\ nextRowId <= nextRowId'
      /\ inlinedRow' = inlinedRow /\ inlinedDelete' = inlinedDelete
      /\ tableEnd' = tableEnd /\ alteredAt' = alteredAt
      /\ Records({"merge_adjacent"}) /\ Settles(w)
      /\ scheduled' = ScheduledAfter(F, D)
      /\ dataFile' = WithOutput(st, Without(dataFile, F))
      /\ deleteFile' = Without(deleteFile, D)
    BY <1>1, SameCounter, Zenon DEF CommitMerge, CatalogOK
<1>3. F \subseteq DOMAIN dataFile /\ D \subseteq DOMAIN deleteFile
    BY Zenon DEF CommitMerge, CanCompact, FilesOf, StillCurrent, LiveDataFiles, DeleteFilesOf
<1>4. /\ \A f \in DOMAIN dataFile : f \in 1 .. Own /\ DataFileOK(dataFile[f], Own, nextRowId)
      /\ \A d \in DOMAIN deleteFile :
            d \in (1 .. Own) \X (1 .. Own) /\ DeleteFileOK(deleteFile[d], Own)
      /\ \A r \in inlinedRow : InlinedRowOK(r, Own, nextRowId)
      /\ \A i \in inlinedDelete : InlinedDeleteOK(i, Own)
    BY <1>1, <1>2, KeptOK, Zenon
<1> HIDE DEF st, F, D
<1>5. /\ DOMAIN Without(dataFile, F) = DOMAIN dataFile \ F
      /\ \A f \in DOMAIN Without(dataFile, F) :
            f \in 1 .. Own /\ DataFileOK(Without(dataFile, F)[f], Own, nextRowId)
    BY <1>4, Zenon DEF Without
<1>6. /\ DOMAIN dataFile' \subseteq (DOMAIN dataFile \ F) \cup {Own}
      /\ \A f \in DOMAIN dataFile' :
            f \in 1 .. Own /\ DataFileOK(dataFile'[f], Own, nextRowId')
    BY <1>1, <1>2, <1>5, WithOutputOK, Zenon
<1>7. /\ DOMAIN deleteFile' \subseteq (DOMAIN deleteFile \ D) \cup (1 .. Own) \X {Own}
      /\ \A d \in DOMAIN deleteFile' :
            d \in (1 .. Own) \X (1 .. Own) /\ DeleteFileOK(deleteFile'[d], Own)
    BY <1>2, <1>4, Zenon DEF Without
<1>8. {"merge_adjacent"} \in SUBSET Token
    BY Zenon DEF Token
<1> QED
    BY <1>2, <1>3, <1>4, <1>6, <1>7, <1>8, CommitOK, Zenon

\* Rewriting a file without its deleted rows keeps the invariant.
LEMMA CommitRewriteOK ==
    ASSUME IInv, NEW w \in Writers, CommitRewrite(w) PROVE IInv'
<1> DEFINE st == stmt[w]
           F  == FilesOf(st, "source")
<1>1. HeadOK /\ CatalogOK(Head, nextRowId) /\ StatementOK(st, Head, nextRowId)
    BY Zenon DEF IInv, StatementsOK
<1>2. nextRowId \in Nat /\ nextRowId + st.fresh = nextRowId
    BY <1>1, SameCounter, Zenon DEF StatementOK, CommitRewrite, CatalogOK
<1>3. /\ nextRowId' = nextRowId /\ nextRowId <= nextRowId'
      /\ inlinedRow' = inlinedRow /\ inlinedDelete' = inlinedDelete
      /\ tableEnd' = tableEnd /\ alteredAt' = alteredAt /\ scheduled' = scheduled
      /\ Records({"rewrite_delete"}) /\ Settles(w)
      /\ dataFile' = WithOutput(st, DataFilesAfter(st, F))
      /\ deleteFile' = EndDeleteFiles(DeleteFilesOf(F) \cap LiveDeleteFiles)
    BY <1>2, SameCounter, Zenon DEF CommitRewrite
<1> HIDE DEF st, F
<1>4. /\ \A r \in inlinedRow : InlinedRowOK(r, Own, nextRowId)
      /\ \A i \in inlinedDelete : InlinedDeleteOK(i, Own)
    BY <1>1, <1>2, <1>3, KeptOK, Zenon
<1>5. /\ DOMAIN DataFilesAfter(st, F) \subseteq DOMAIN dataFile \cup {Own}
      /\ \A f \in DOMAIN DataFilesAfter(st, F) :
            f \in 1 .. Own /\ DataFileOK(DataFilesAfter(st, F)[f], Own, nextRowId)
    BY <1>1, <1>2, DataFilesAfterOK, Zenon
<1>6. /\ DOMAIN dataFile' \subseteq DOMAIN dataFile \cup {Own}
      /\ \A f \in DOMAIN dataFile' :
            f \in 1 .. Own /\ DataFileOK(dataFile'[f], Own, nextRowId')
    BY <1>1, <1>3, <1>5, WithOutputOK, Zenon
<1>7. /\ DOMAIN deleteFile' \subseteq DOMAIN deleteFile \cup (1 .. Own) \X {Own}
      /\ \A d \in DOMAIN deleteFile' :
            d \in (1 .. Own) \X (1 .. Own) /\ DeleteFileOK(deleteFile'[d], Own)
    BY <1>1, <1>3, EndDeleteFilesOK, Zenon
<1>8. {"rewrite_delete"} \in SUBSET Token
    BY Zenon DEF Token
<1>9. /\ \A r \in inlinedRow' : InlinedRowOK(r, Own, nextRowId')
      /\ \A i \in inlinedDelete' : InlinedDeleteOK(i, Own)
      /\ scheduled' = scheduled
      /\ nextRowId' \in Nat /\ nextRowId <= nextRowId'
      /\ tableEnd' \in {tableEnd, Own} /\ alteredAt' \in {alteredAt, Own}
      /\ Records({"rewrite_delete"}) /\ \E v \in Writers : Settles(v)
    BY <1>2, <1>3, <1>4, Zenon
<1> QED
    BY <1>6, <1>7, <1>8, <1>9, PlainCommitOK, Zenon

\* Flushing inlined data keeps the invariant.
LEMMA CommitFlushOK ==
    ASSUME IInv, NEW w \in Writers, CommitFlush(w) PROVE IInv'
<1> DEFINE st     == stmt[w]
           D      == PrevOf(st, {"flushed"})
           beside == IF st.dels = {} THEN {} ELSE {<<Own, Own>>}
           others == DeleteFilesAfter(st)
           tokens == TokensOf(ChangesOf(st))
<1>1. HeadOK /\ CatalogOK(Head, nextRowId) /\ StatementOK(st, Head, nextRowId)
    BY Zenon DEF IInv, StatementsOK
<1>2. Head \in Nat /\ Own \in Nat /\ Own = Head + 1 /\ nextRowId \in Nat
    BY <1>1, HeadIsNat, SMTT(60) DEF CatalogOK
<1>3. /\ nextRowId' = nextRowId /\ nextRowId <= nextRowId'
      /\ tableEnd' = tableEnd /\ alteredAt' = alteredAt
      /\ scheduled' = ScheduledAfter({}, D)
      /\ dataFile' = WithOutput(st, dataFile)
      /\ deleteFile' = [d \in (DOMAIN others) \cup beside |->
                           IF d \in beside THEN BesideOutput(st) ELSE others[d]]
      /\ inlinedRow' \subseteq inlinedRow /\ inlinedDelete' \subseteq inlinedDelete
      /\ Settles(w)
  <2>1. /\ nextRowId' = nextRowId /\ tableEnd' = tableEnd /\ alteredAt' = alteredAt
        /\ scheduled' = ScheduledAfter({}, D)
        /\ dataFile' = WithOutput(st, dataFile)
        /\ deleteFile' = [d \in (DOMAIN others) \cup beside |->
                             IF d \in beside THEN BesideOutput(st) ELSE others[d]]
        /\ Settles(w)
      BY Zenon DEF CommitFlush
  <2>2. inlinedRow' \subseteq inlinedRow /\ inlinedDelete' \subseteq inlinedDelete
      BY Zenon DEF CommitFlush
  <2>3. nextRowId <= nextRowId'
      BY <1>2, <2>1, SameCounter, Zenon
  <2> QED
      BY <2>1, <2>2, <2>3, Zenon
<1>4. tokens \in SUBSET Token /\ Records(tokens)
    BY ChangesOK, TokensOK, Zenon DEF CommitFlush
<1>5. D \subseteq DOMAIN deleteFile
  <2>1. \A e \in st.entries : StillFlushable(e)
      BY Zenon DEF CommitFlush, CanFlush
  <2>2. \A e \in st.entries : e.how = "flushed" => e.prev \subseteq DOMAIN deleteFile
      BY <2>1, Zenon DEF StillFlushable, DeleteFilesOf
  <2> QED
      BY <2>2, Zenon DEF PrevOf
<1>6. D \subseteq PrevOf(st, {"rewritten", "flushed"})
    BY Zenon DEF PrevOf
<1>7. /\ \A f \in DOMAIN dataFile : f \in 1 .. Own /\ DataFileOK(dataFile[f], Own, nextRowId)
      /\ \A r \in inlinedRow : InlinedRowOK(r, Own, nextRowId)
      /\ \A i \in inlinedDelete : InlinedDeleteOK(i, Own)
    BY <1>1, <1>2, <1>3, KeptOK, SameCounter, Zenon
<1>8. /\ DOMAIN others \subseteq (DOMAIN deleteFile \ D) \cup (1 .. Own) \X {Own}
      /\ \A d \in DOMAIN others :
            d \in (1 .. Own) \X (1 .. Own) /\ DeleteFileOK(others[d], Own)
    BY <1>1, <1>6, DeleteFilesAfterOK, Zenon
<1>9. /\ beside \subseteq (1 .. Own) \X {Own}
      /\ beside \subseteq (1 .. Own) \X (1 .. Own)
      /\ beside # {} => DeleteFileOK(BesideOutput(st), Own)
    BY <1>1, <1>2, BesideOutputOK
<1> HIDE DEF st, D, beside, others, tokens
<1>10. /\ DOMAIN dataFile' \subseteq (DOMAIN dataFile \ {}) \cup {Own}
       /\ \A f \in DOMAIN dataFile' :
             f \in 1 .. Own /\ DataFileOK(dataFile'[f], Own, nextRowId')
    BY <1>1, <1>3, <1>7, WithOutputOK, Zenon
<1>11. /\ DOMAIN deleteFile' \subseteq (DOMAIN deleteFile \ D) \cup (1 .. Own) \X {Own}
       /\ \A d \in DOMAIN deleteFile' :
             d \in (1 .. Own) \X (1 .. Own) /\ DeleteFileOK(deleteFile'[d], Own)
    BY <1>3, <1>8, <1>9, Zenon
<1>12. /\ \A r \in inlinedRow' : InlinedRowOK(r, Own, nextRowId')
       /\ \A i \in inlinedDelete' : InlinedDeleteOK(i, Own)
    BY <1>3, <1>7, Zenon
<1> QED
    BY <1>2, <1>3, <1>4, <1>5, <1>10, <1>11, <1>12, CommitOK, Zenon
=============================================================================
