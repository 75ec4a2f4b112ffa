------------------------- MODULE TableWritesProofs --------------------------
(***************************************************************************)
(* TypeOK, NothingFromTheFuture, RowIdsDrawn, ScheduledUnreachable and     *)
(* RemovedIsScheduled of TableWrites, for any writers, operations and      *)
(* bounds, from the inductive invariant IInv.                              *)
(*                                                                         *)
(* The actions that begin a statement, or prepare another attempt of one,  *)
(* come first: what they read from the catalog is the catalog's.           *)
(***************************************************************************)
EXTENDS TableCommitProofs

\* A leaf may take its time: the provers get more than their default.
USE SMTT(30), ZenonT(30)

\* One lemma per way a statement begins: what it reads is the catalog's.

\* A session may take on any statement bounded by the head and the counter.
LEMMA BegunOK ==
    ASSUME IInv, NEW w \in Writers, NEW st, StatementOK(st, Head, nextRowId),
           stmt' = [stmt EXCEPT ![w] = st], UNCHANGED catalogVars
    PROVE  IInv'
<1>1. /\ HeadOK' /\ CatalogOK(Head, nextRowId)'
      /\ Head' = Head /\ nextRowId' = nextRowId
    BY Zenon DEF IInv, catalogVars, HeadOK, CatalogOK, Head, ScheduledUnreachable
<1>2. /\ stmt' = [v \in Writers |-> stmt'[v]]
      /\ \A v \in Writers : stmt'[v] = IF v = w THEN st ELSE stmt[v]
    BY Zenon DEF IInv, StatementsOK
<1>3. StatementsOK(Head, nextRowId)'
    BY <1>1, <1>2, Zenon DEF IInv, StatementsOK
<1> QED
    BY <1>1, <1>3, Zenon DEF IInv

\* An inlined row, read as a row, keeps its bounds.
LEMMA InlinedAsRowOK ==
    ASSUME NEW h \in Nat, NEW n \in Nat, NEW r, InlinedRowOK(r, h, n)
    PROVE  RowOK(InlinedAsRow(r), h, n)
BY Zenon DEF InlinedRowOK, InlinedRow, InlinedAsRow, RowOK, FileRow

\* The rows a DELETE or UPDATE matches are rows of the catalog.
LEMMA MatchableOK ==
    ASSUME HeadOK, CatalogOK(Head, nextRowId), NEW b
    PROVE  \A t \in MatchableAt(b) :
               t.in \in {NULL} \cup DataFilesAt(b) /\ RowOK(t.row, Head, nextRowId)
<1>1. Head \in Nat /\ nextRowId \in Nat
    BY HeadIsNat, Zenon DEF CatalogOK
<1>2. \A r \in inlinedRow : RowOK(InlinedAsRow(r), Head, nextRowId)
    BY <1>1, InlinedAsRowOK, Zenon DEF CatalogOK
<1>3. \A t \in StoredInlinedAt(b) : t.in = NULL /\ RowOK(t.row, Head, nextRowId)
    BY <1>2 DEF StoredInlinedAt
<1>4. \A f \in DataFilesAt(b) : \A p \in RawPositionsAt(f, b) : RowOK(p, Head, nextRowId)
    BY Zenon DEF DataFilesAt, RawPositionsAt, CatalogOK, DataFileOK
<1>5. \A f \in DataFilesAt(b) : \A t \in StoredIn(f, RawPositionsAt(f, b)) :
          t.in = f /\ RowOK(t.row, Head, nextRowId)
    BY <1>4 DEF StoredIn
<1> DEFINE U == UNION {StoredIn(f, RawPositionsAt(f, b)) : f \in DataFilesAt(b)}
<1>6. \A t \in U : \E f \in DataFilesAt(b) : t \in StoredIn(f, RawPositionsAt(f, b))
    BY Zenon
<1>7. MatchableAt(b) = U \cup StoredInlinedAt(b)
    BY Zenon DEF MatchableAt
<1> HIDE DEF U
<1> QED
    BY <1>3, <1>5, <1>6, <1>7

\* The contents of a snapshot are row versions.
LEMMA ContentOK ==
    ASSUME HeadOK, CatalogOK(Head, nextRowId), NEW b
    PROVE  ContentAt(b) \in SUBSET RowVersion
<1>1. Head \in Nat /\ nextRowId \in Nat
    BY HeadIsNat, Zenon DEF CatalogOK
<1>2. \A r \in inlinedRow : InlinedAsRow(r) \in FileRow
    BY <1>1, InlinedAsRowOK, Zenon DEF CatalogOK, RowOK
<1>3. \A t \in StoredInlinedAt(b) : t.row \in FileRow
    BY <1>2 DEF StoredInlinedAt
<1>4. \A f \in DataFilesAt(b) : LivePositionsAt(f, b) \subseteq FileRow
    BY Zenon DEF DataFilesAt, LivePositionsAt, CatalogOK, DataFileOK, DataFileRow
<1>5. \A f \in DataFilesAt(b) : \A t \in StoredIn(f, LivePositionsAt(f, b)) :
          t.row \in FileRow
    BY <1>4 DEF StoredIn
<1> DEFINE U == UNION {StoredIn(f, LivePositionsAt(f, b)) : f \in DataFilesAt(b)}
<1>6. \A t \in U : \E f \in DataFilesAt(b) : t \in StoredIn(f, LivePositionsAt(f, b))
    BY Zenon
<1>7. ScannedAt(b) \subseteq U \cup StoredInlinedAt(b)
    BY Zenon DEF ScannedAt
<1> HIDE DEF U
<1>8. \A t \in ScannedAt(b) : t.row \in FileRow
    BY <1>3, <1>5, <1>6, <1>7, Zenon
<1>9. \A p \in FileRow : VersionOf(p) \in RowVersion
    BY Zenon DEF FileRow, VersionOf, RowVersion
<1> QED
    BY <1>8, <1>9, Zenon DEF ContentAt

\* The deletions of some of the catalog's delete files.
LEMMA EntriesOfOK ==
    ASSUME HeadOK, CatalogOK(Head, nextRowId), NEW D, D \subseteq DOMAIN deleteFile
    PROVE  /\ EntriesOf(D) \subseteq DatedPosition
           /\ \A x \in EntriesOf(D) : x.at <= Head
           /\ D \subseteq DeleteFileId
<1>1. Head \in Nat
    BY HeadIsNat, Zenon
<1>2. \A d \in D : DeleteFileOK(deleteFile[d], Head) /\ d \in Nat \X Nat
    BY <1>1 DEF CatalogOK
<1> QED
    BY <1>2, Zenon DEF EntriesOf, DeleteFileOK, DeleteFileRow, DeleteFileId

\* Beginning INSERT or INSERT OVERWRITE keeps the invariant.
LEMMA BeginInsertOK ==
    ASSUME IInv, NEW w \in Writers, NEW op \in {"append", "replace"},
           NEW n \in InsertSizes, NEW limit \in InlineLimits,
           BeginInsert(w, op, n, limit)
    PROVE  IInv'
<1> DEFINE inline == n <= limit
           st == [NoStatement EXCEPT !.op = op, !.base = Head, !.fresh = n,
                      !.inline = inline, !.saw = ContentAt(Head)]
<1>1. HeadOK /\ CatalogOK(Head, nextRowId) /\ Head \in Nat /\ nextRowId \in Nat
    BY HeadIsNat, Zenon DEF IInv, CatalogOK
<1>2. n \in Nat /\ inline \in BOOLEAN
    BY BoundsAssumption
<1>3. ContentAt(Head) \in SUBSET RowVersion
    BY <1>1, ContentOK, Zenon
<1>4. stmt' = [stmt EXCEPT ![w] = st] /\ UNCHANGED catalogVars
    BY Zenon DEF BeginInsert, Starts
<1> HIDE DEF inline
<1>5. StatementOK(st, Head, nextRowId)
  <2>1. st \in Statement
      BY <1>1, <1>2, <1>3, IdleFields, Zenon DEF Statement, AllOps
  <2>2. /\ st.op = op /\ st.base = Head /\ st.kept = {} /\ st.entries = {}
        /\ st.date = 0 /\ st.out = {} /\ st.outBegin = 0 /\ st.outMax = 0
        /\ st.dels = {}
      BY IdleFields, Zenon DEF Statement
  <2> HIDE DEF st
  <2> QED
      BY <1>1, <1>2, <1>3, <2>1, <2>2 DEF StatementOK
<1> HIDE DEF st
<1> QED
    BY <1>4, <1>5, BegunOK, Zenon

\* Beginning TRUNCATE keeps the invariant.
LEMMA BeginTruncateOK ==
    ASSUME IInv, NEW w \in Writers, NEW b \in Bases, BeginTruncate(w, b)
    PROVE  IInv'
<1> DEFINE st == [NoStatement EXCEPT !.op = "truncate", !.base = b, !.saw = ContentAt(b)]
<1>1. HeadOK /\ CatalogOK(Head, nextRowId) /\ Head \in Nat /\ nextRowId \in Nat
    BY HeadIsNat, Zenon DEF IInv, CatalogOK
<1>2. b \in Nat /\ b <= Head
    BY <1>1, Zenon DEF Bases, HeadOK
<1>3. ContentAt(b) \in SUBSET RowVersion
    BY <1>1, ContentOK, Zenon
<1>4. StatementOK(st, Head, nextRowId)
  <2>1. st \in Statement
      BY <1>1, <1>2, <1>3, IdleFields, Zenon DEF Statement, AllOps
  <2>2. /\ st.op = "truncate" /\ st.base = b /\ st.fresh = 0 /\ st.kept = {}
        /\ st.entries = {} /\ st.date = 0 /\ st.out = {} /\ st.outBegin = 0
        /\ st.outMax = 0 /\ st.dels = {}
      BY IdleFields, Zenon DEF Statement
  <2> HIDE DEF st
  <2> QED
      BY <1>1, <1>2, <1>3, <2>1, <2>2 DEF StatementOK
<1>5. stmt' = [stmt EXCEPT ![w] = st] /\ UNCHANGED catalogVars
    BY Zenon DEF BeginTruncate, Starts
<1> HIDE DEF st
<1> QED
    BY <1>4, <1>5, BegunOK, Zenon

\* What FileDeletions::record records for a file is bounded by the head.
LEMMA RecordDeletionOK ==
    ASSUME HeadOK, CatalogOK(Head, nextRowId), NEW b, NEW f \in DataFilesAt(b),
           NEW pos \in SUBSET FileRow, pos # {}, NEW limit
    PROVE  /\ EntryOK(RecordDeletion(f, pos, limit, b), Head)
           /\ RecordDeletion(f, pos, limit, b).how # "flushed"
<1>1. Head \in Nat /\ f \in 1 .. Head
    BY HeadIsNat, Zenon DEF DataFilesAt, CatalogOK
<1> DEFINE prev == DeleteFilesAt(f, b)
           how  == HowRecorded(f, pos, EntriesOf(prev), limit)
<1>2. prev \subseteq DOMAIN deleteFile
    BY Zenon DEF DeleteFilesAt
<1>3. /\ EntriesOf(prev) \subseteq DatedPosition /\ prev \subseteq DeleteFileId
      /\ \A x \in EntriesOf(prev) : x.at <= Head
    BY <1>2, EntriesOfOK, Zenon
<1>4. how \in {"inlined", "dropped", "positional", "rewritten"}
    BY Zenon DEF HowRecorded
<1>5. RecordDeletion(f, pos, limit, b) =
          [file |-> f, prev |-> prev, pos |-> pos, carried |-> EntriesOf(prev),
           how |-> how, fileEnd |-> NULL, delEnd |-> NULL]
    BY Zenon DEF RecordDeletion
<1> HIDE DEF prev, how
<1> QED
    BY <1>1, <1>3, <1>4, <1>5 DEF EntryOK, Entry, How, NULL

\* Beginning DELETE or UPDATE keeps the invariant.
LEMMA BeginMutationOK ==
    ASSUME IInv, NEW w \in Writers, NEW op \in {"delete", "update"}, NEW b \in Bases,
           NEW limit \in InlineLimits, NEW T \in SUBSET MatchableAt(b),
           BeginMutation(w, op, b, T, limit)
    PROVE  IInv'
<1> DEFINE files   == {t.in : t \in T} \ {NULL}
           at(f)   == {t.row : t \in {u \in T : u.in = f}}
           entries == {RecordDeletion(f, at(f), limit, b) : f \in files}
           kept    == IF op = "update" THEN {t.row.rid : t \in T} ELSE {}
           inline  == op = "update" /\ Cardinality(T) <= limit
           ended   == {r.rid : r \in at(NULL)}
           targets == {VersionOf(t.row) : t \in T}
           st      == [NoStatement EXCEPT !.op = op, !.base = b, !.kept = kept,
                          !.inline = inline, !.entries = entries, !.ended = ended,
                          !.date = Head + 1, !.targets = targets]
<1>1. HeadOK /\ CatalogOK(Head, nextRowId) /\ Head \in Nat /\ nextRowId \in Nat
    BY HeadIsNat, Zenon DEF IInv, CatalogOK
<1>2. b \in Nat /\ b <= Head
    BY <1>1, Zenon DEF Bases, HeadOK
<1>3. \A t \in T : t.in \in {NULL} \cup DataFilesAt(b) /\ RowOK(t.row, Head, nextRowId)
    BY <1>1, MatchableOK, Zenon
<1>4. files \subseteq DataFilesAt(b) /\ \A f : at(f) \in SUBSET FileRow
    BY <1>3, Zenon DEF RowOK
<1>5. \A f \in files : at(f) # {}
    BY Zenon
<1>6. \A e \in entries : EntryOK(e, Head) /\ e \in Entry /\ e.how # "flushed"
  <2>1. SUFFICES ASSUME NEW f \in files
                 PROVE  LET e == RecordDeletion(f, at(f), limit, b)
                        IN  EntryOK(e, Head) /\ e \in Entry /\ e.how # "flushed"
      BY Zenon
  <2>2. f \in DataFilesAt(b) /\ at(f) \in SUBSET FileRow /\ at(f) # {}
      BY <1>4, <1>5, Zenon
  <2> HIDE DEF at
  <2> QED
      BY <1>1, <2>2, RecordDeletionOK, Zenon DEF EntryOK
<1>7. /\ kept \in SUBSET Nat /\ \A k \in kept : k < nextRowId
      /\ ended \in SUBSET Nat /\ targets \in SUBSET RowVersion
    BY <1>3 DEF RowOK, FileRow, VersionOf, RowVersion
<1>8. inline \in BOOLEAN /\ entries \in SUBSET Entry /\ Head + 1 \in Nat
  <2>1. inline \in BOOLEAN
      BY Zenon
  <2> HIDE DEF entries, inline
  <2> QED
      BY <1>1, <1>6, <2>1
<1>9. stmt' = [stmt EXCEPT ![w] = st] /\ UNCHANGED catalogVars
    BY Zenon DEF BeginMutation, Starts
<1> HIDE DEF files, at, entries, kept, inline, ended, targets
<1>10. StatementOK(st, Head, nextRowId)
  <2>1. st \in Statement
      BY <1>1, <1>2, <1>6, <1>7, <1>8, IdleFields, Zenon DEF Statement, AllOps
  <2>2. /\ st.op = op /\ st.base = b /\ st.fresh = 0 /\ st.kept = kept
        /\ st.entries = entries /\ st.date = Head + 1 /\ st.out = {}
        /\ st.outBegin = 0 /\ st.outMax = 0 /\ st.dels = {}
      BY IdleFields, Zenon DEF Statement
  <2> HIDE DEF st
  <2>3. /\ st.op \notin {"append", "replace", "truncate", "flush"} /\ st.base <= Head
        /\ st.date <= Head + 1 /\ st.outBegin <= Head /\ st.outMax <= Head
      BY <1>1, <1>2, <2>2
  <2>4. /\ \A k \in st.kept : k < nextRowId
        /\ \A e \in st.entries : EntryOK(e, Head) /\ e.how # "flushed"
        /\ st.out = {} /\ st.dels = {} /\ st.fresh = 0
      BY <1>6, <1>7, <2>2, Zenon
  <2> QED
      BY <2>1, <2>3, <2>4, Zenon DEF StatementOK
<1> HIDE DEF st
<1> QED
    BY <1>9, <1>10, BegunOK, Zenon

\* The entry of a compaction source is bounded by the head.
LEMMA SourceEntryOK ==
    ASSUME HeadOK, CatalogOK(Head, nextRowId), NEW f \in DOMAIN dataFile,
           NEW prev, prev \subseteq DOMAIN deleteFile
    PROVE  EntryOK(SourceEntry(f, prev), Head) /\ SourceEntry(f, prev).how = "source"
<1>1. Head \in Nat /\ f \in 1 .. Head /\ prev \subseteq DeleteFileId
    BY HeadIsNat, EntriesOfOK, Zenon DEF CatalogOK
<1> QED
    BY <1>1 DEF SourceEntry, EntryOK, Entry, How, NULL

\* Planning a rewrite keeps the invariant.
LEMMA BeginRewriteOK ==
    ASSUME IInv, NEW w \in Writers, NEW b \in Bases, NEW f \in DataFilesAt(b),
           BeginRewrite(w, b, f)
    PROVE  IInv'
<1> DEFINE prev    == DeleteFilesAt(f, b)
           entries == {SourceEntry(f, prev)}
           out     == {[p EXCEPT !.origin = 0] : p \in RawPositionsAt(f, b)}
           st      == [NoStatement EXCEPT !.op = "rewrite", !.base = b,
                          !.entries = entries, !.out = out]
<1>1. HeadOK /\ CatalogOK(Head, nextRowId) /\ Head \in Nat /\ nextRowId \in Nat
    BY HeadIsNat, Zenon DEF IInv, CatalogOK
<1>2. b \in Nat /\ b <= Head /\ f \in DOMAIN dataFile /\ prev \subseteq DOMAIN deleteFile
    BY <1>1, Zenon DEF Bases, HeadOK, DataFilesAt, DeleteFilesAt
<1>3. \A e \in entries : EntryOK(e, Head) /\ e.how = "source"
    BY <1>1, <1>2, SourceEntryOK, Zenon
<1>4. entries \in SUBSET Entry
    BY <1>3, Zenon DEF EntryOK
<1>5. \A p \in RawPositionsAt(f, b) : RowOK([p EXCEPT !.origin = 0], Head, nextRowId)
    BY <1>1, <1>2 DEF CatalogOK, DataFileOK, RawPositionsAt, RowOK, FileRow
<1>6. (\A p \in out : RowOK(p, Head, nextRowId)) /\ out \in SUBSET FileRow
    BY <1>5, Zenon DEF RowOK
<1>7. stmt' = [stmt EXCEPT ![w] = st] /\ UNCHANGED catalogVars
    BY Zenon DEF BeginRewrite, Starts
<1> HIDE DEF prev, entries, out
<1>8. StatementOK(st, Head, nextRowId)
  <2>1. st \in Statement
      BY <1>2, <1>4, <1>6, IdleFields, Zenon DEF Statement, AllOps
  <2>2. /\ st.op = "rewrite" /\ st.base = b /\ st.fresh = 0 /\ st.kept = {}
        /\ st.entries = entries /\ st.date = 0 /\ st.out = out /\ st.outBegin = 0
        /\ st.outMax = 0 /\ st.dels = {}
      BY IdleFields, Zenon DEF Statement
  <2> HIDE DEF st
  <2> QED
      BY <1>1, <1>2, <1>3, <1>6, <2>1, <2>2 DEF StatementOK
<1> HIDE DEF st
<1> QED
    BY <1>7, <1>8, BegunOK, Zenon

\* Planning a merge keeps the invariant.
LEMMA BeginMergeOK ==
    ASSUME IInv, NEW w \in Writers, NEW b \in Bases, NEW F \in SUBSET DataFilesAt(b),
           F # {}, BeginMerge(w, b, F)
    PROVE  IInv'
<1> DEFINE begins  == {dataFile[f].begin : f \in F}
           maxes   == {LatestOrigin(f) : f \in F}
           partial == \/ Least(begins) # Greatest(maxes)
                      \/ \E f \in F : dataFile[f].partialMax # NULL
           originIn(f, p) == IF ~partial THEN 0
                             ELSE IF dataFile[f].partialMax # NULL THEN p.origin
                             ELSE dataFile[f].begin
           entries == {SourceEntry(f, {}) : f \in F}
           outOf(f) == {[p EXCEPT !.origin = originIn(f, p)] : p \in dataFile[f].rows}
           out     == UNION {outOf(f) : f \in F}
           first   == Least(begins)
           last    == IF partial THEN Greatest(maxes) ELSE NULL
           st      == [NoStatement EXCEPT !.op = "merge", !.base = b,
                          !.entries = entries, !.out = out, !.outBegin = first,
                          !.outMax = last]
<1>1. HeadOK /\ CatalogOK(Head, nextRowId) /\ Head \in Nat /\ nextRowId \in Nat
    BY HeadIsNat, Zenon DEF IInv, CatalogOK
<1>2. b \in Nat /\ b <= Head /\ F \subseteq DOMAIN dataFile
    BY <1>1, Zenon DEF Bases, HeadOK, DataFilesAt
<1>3. \A e \in entries : EntryOK(e, Head) /\ e.how = "source"
    BY <1>1, <1>2, SourceEntryOK
<1>4. entries \in SUBSET Entry
    BY <1>3, Zenon DEF EntryOK
<1>5. \A f \in F : DataFileOK(dataFile[f], Head, nextRowId)
    BY <1>1, <1>2, Zenon DEF CatalogOK
<1>6. \A f \in F : /\ dataFile[f].begin \in Nat /\ dataFile[f].begin <= Head
                   /\ LatestOrigin(f) \in Nat /\ LatestOrigin(f) <= Head
    BY <1>5, Zenon DEF DataFileOK, DataFileRow, LatestOrigin
<1>7. first \in Nat /\ first <= Head
  <2>1. begins \subseteq Nat /\ begins # {} /\ \A x \in begins : x <= Head
      BY <1>6, Zenon
  <2>2. Least(begins) \in begins
      BY <2>1, LeastIsNat, Zenon
  <2> QED
      BY <2>1, <2>2, Zenon
<1>8. last \in Nat /\ last <= Head
  <2>1. maxes \subseteq Nat /\ maxes # {} /\ \A x \in maxes : x <= Head
      BY <1>6, Zenon
  <2>2. Greatest(maxes) \in maxes
      BY <1>1, <2>1, GreatestIsNat, Zenon
  <2> QED
      BY <1>1, <2>1, <2>2 DEF NULL
<1>9. stmt' = [stmt EXCEPT ![w] = st] /\ UNCHANGED catalogVars
    BY Zenon DEF BeginMerge, Starts
<1> HIDE DEF begins, maxes, partial, first, last, entries
<1>10. \A f \in F : \A p \in dataFile[f].rows :
           RowOK([p EXCEPT !.origin = originIn(f, p)], Head, nextRowId)
    BY <1>1, <1>5, <1>6 DEF DataFileOK, DataFileRow, RowOK, FileRow
<1> HIDE DEF originIn
<1>11. \A f \in F : \A p \in outOf(f) : RowOK(p, Head, nextRowId)
    BY <1>10, Zenon
<1> HIDE DEF outOf
<1>12. (\A p \in out : RowOK(p, Head, nextRowId)) /\ out \in SUBSET FileRow
    BY <1>11, Zenon DEF RowOK
<1> HIDE DEF out
<1>13. StatementOK(st, Head, nextRowId)
  <2>1. st \in Statement
      BY <1>2, <1>4, <1>7, <1>8, <1>12, IdleFields, Zenon DEF Statement, AllOps
  <2>2. /\ st.op = "merge" /\ st.base = b /\ st.fresh = 0 /\ st.kept = {}
        /\ st.entries = entries /\ st.date = 0 /\ st.out = out /\ st.outBegin = first
        /\ st.outMax = last /\ st.dels = {}
      BY IdleFields, Zenon DEF Statement
  <2> HIDE DEF st
  <2> QED
      BY <1>1, <1>2, <1>3, <1>7, <1>8, <1>12, <2>1, <2>2 DEF StatementOK
<1> HIDE DEF st
<1> QED
    BY <1>9, <1>13, BegunOK, Zenon

\* Keeping each position's earliest deletion keeps positions and dates.
LEMMA EarliestOK ==
    ASSUME NEW D, D \subseteq DatedPosition
    PROVE  Earliest(D) \subseteq D /\ (D # {} => Earliest(D) # {})
<1>1. Earliest(D) \subseteq D
    BY Zenon DEF Earliest
<1>2. ASSUME D # {} PROVE Earliest(D) # {}
  <2>1. PICK e \in D : TRUE
      BY <1>2, Zenon
  <2> DEFINE ats == {x.at : x \in {y \in D : y.pos = e.pos}}
  <2>2. ats \subseteq Nat /\ ats # {}
      BY Zenon DEF DatedPosition
  <2>3. Least(ats) \in ats /\ \A y \in ats : Least(ats) <= y
      BY <2>2, LeastIsNat, Zenon
  <2>4. PICK x \in D : x.pos = e.pos /\ x.at = Least(ats)
      BY <2>3, Zenon
  <2>5. \A o \in D : o.pos = x.pos => x.at <= o.at
      BY <2>3, <2>4, Zenon
  <2> QED
      BY <2>5, Zenon DEF Earliest
<1> QED
    BY <1>1, <1>2, Zenon

\* What a flush carries over for a file is bounded by the head.
LEMMA FlushEntryOK ==
    ASSUME HeadOK, CatalogOK(Head, nextRowId), NEW b, NEW f \in DOMAIN dataFile,
           InlinedDeletionsOf(f, b) # {}
    PROVE  EntryOK(FlushEntry(f, b), Head) /\ FlushEntry(f, b).how = "flushed"
<1> DEFINE prev    == DeleteFileToFlush(f, b)
           found   == InlinedDeletionsOf(f, b) \cup EntriesOf(prev)
           carried == Earliest(found)
           delEnd  == IF dataFile[f].end = NULL \/ prev = {} THEN NULL
                      ELSE deleteFile[CHOOSE d \in prev : TRUE].end
<1>1. Head \in Nat /\ f \in 1 .. Head
    BY HeadIsNat, Zenon DEF CatalogOK
<1>2. prev \subseteq DOMAIN deleteFile
    BY Zenon DEF DeleteFileToFlush, DeleteFilesAt
<1>3. /\ EntriesOf(prev) \subseteq DatedPosition /\ prev \subseteq DeleteFileId
      /\ \A x \in EntriesOf(prev) : x.at <= Head
    BY <1>2, EntriesOfOK, Zenon
<1>4. /\ InlinedDeletionsOf(f, b) \subseteq DatedPosition
      /\ \A x \in InlinedDeletionsOf(f, b) : x.at <= Head
    BY DEF InlinedDeletionsOf, CatalogOK, InlinedDeleteOK, InlinedDelete, DatedPosition
<1>5. found \subseteq DatedPosition /\ found # {} /\ \A x \in found : x.at <= Head
    BY <1>3, <1>4, Zenon
<1>6. carried \subseteq DatedPosition /\ carried # {} /\ \A x \in carried : x.at <= Head
    BY <1>5, EarliestOK, Zenon
<1>7. dataFile[f].end \in Nat /\ dataFile[f].end <= Head
    BY Zenon DEF CatalogOK, DataFileOK, DataFileRow
<1>8. \A d \in DOMAIN deleteFile : deleteFile[d].end \in Nat /\ deleteFile[d].end <= Head
    BY Zenon DEF CatalogOK, DeleteFileOK, DeleteFileRow
<1>9. delEnd \in Nat /\ delEnd <= Head
    BY <1>1, <1>2, <1>8 DEF NULL
<1>10. FlushEntry(f, b) = [file |-> f, prev |-> prev, how |-> "flushed", pos |-> {},
                           carried |-> carried, fileEnd |-> dataFile[f].end,
                           delEnd |-> delEnd]
    BY Zenon DEF FlushEntry
<1> HIDE DEF prev, found, carried, delEnd
<1> QED
    BY <1>1, <1>3, <1>6, <1>7, <1>9, <1>10 DEF EntryOK, Entry, How

\* Planning a flush keeps the invariant.
LEMMA BeginFlushOK ==
    ASSUME IInv, NEW w \in Writers, NEW b \in Bases, BeginFlush(w, b)
    PROVE  IInv'
<1> DEFINE rows    == {r \in inlinedRow : r.begin <= b}
           files   == {f \in DOMAIN dataFile : /\ dataFile[f].begin <= b
                                               /\ InlinedDeletionsOf(f, b) # {}}
           entries == {e \in {FlushEntry(f, b) : f \in files} : ~StaysInlined(e, b)}
           origins == {r.begin : r \in rows}
           out     == {InlinedAsRow(r) : r \in rows}
           first   == IF rows = {} THEN NULL ELSE Least(origins)
           last    == IF rows = {} THEN NULL ELSE Greatest(origins)
           dels    == {[pos |-> InlinedAsRow(r), at |-> r.end] :
                          r \in {q \in rows : q.end # NULL}}
           st      == [NoStatement EXCEPT !.op = "flush", !.base = b,
                          !.entries = entries, !.out = out, !.outBegin = first,
                          !.outMax = last, !.dels = dels]
<1>1. HeadOK /\ CatalogOK(Head, nextRowId) /\ Head \in Nat /\ nextRowId \in Nat
    BY HeadIsNat, Zenon DEF IInv, CatalogOK
<1>2. b \in Nat /\ b <= Head
    BY <1>1, Zenon DEF Bases, HeadOK
<1>3. \A e \in entries : EntryOK(e, Head) /\ e.how = "flushed"
    BY <1>1, FlushEntryOK, Zenon
<1>4. \A r \in rows : /\ InlinedRowOK(r, Head, nextRowId)
                      /\ RowOK(InlinedAsRow(r), Head, nextRowId)
    BY <1>1, InlinedAsRowOK, Zenon DEF CatalogOK
<1>5. (\A p \in out : RowOK(p, Head, nextRowId)) /\ out \in SUBSET FileRow
    BY <1>4, Zenon DEF RowOK
<1>6. origins \subseteq Nat /\ \A x \in origins : x <= Head
    BY <1>4, Zenon DEF InlinedRowOK, InlinedRow
<1>7. /\ first \in Nat /\ first <= Head
      /\ last \in Nat /\ last <= Head
  <2>1. CASE rows = {}
      BY <1>1, <2>1 DEF NULL
  <2>2. CASE rows # {}
    <3>1. origins # {}
        BY <2>2, Zenon
    <3>2. Least(origins) \in origins
        BY <1>6, <3>1, LeastIsNat, Zenon
    <3>3. Greatest(origins) \in origins
        BY <1>1, <1>6, <3>1, GreatestIsNat, Zenon
    <3> QED
        BY <1>6, <2>2, <3>2, <3>3, Zenon
  <2> QED
      BY <2>1, <2>2, Zenon
<1>8. dels \in SUBSET DatedPosition /\ \A x \in dels : x.at <= Head
    BY <1>4 DEF InlinedRowOK, InlinedRow, RowOK, DatedPosition
<1>9. stmt' = [stmt EXCEPT ![w] = st] /\ UNCHANGED catalogVars
    BY Zenon DEF BeginFlush, Starts
<1> HIDE DEF rows, files, entries, origins, out, first, last, dels
<1>10. entries \in SUBSET Entry
    BY <1>3, Zenon DEF EntryOK
<1>11. StatementOK(st, Head, nextRowId)
  <2>1. st \in Statement
      BY <1>2, <1>5, <1>7, <1>8, <1>10, IdleFields, Zenon DEF Statement, AllOps
  <2>2. /\ st.op = "flush" /\ st.base = b /\ st.fresh = 0 /\ st.kept = {}
        /\ st.entries = entries /\ st.date = 0 /\ st.out = out /\ st.outBegin = first
        /\ st.outMax = last /\ st.dels = dels
      BY IdleFields, Zenon DEF Statement
  <2> HIDE DEF st
  <2> QED
      BY <1>1, <1>2, <1>3, <1>5, <1>7, <1>8, <2>1, <2>2 DEF StatementOK
<1> HIDE DEF st
<1> QED
    BY <1>9, <1>11, BegunOK, Zenon

-----------------------------------------------------------------------------
\* The retries, and the ends without a commit.

\* Taking over a disjoint delete file as the predecessor keeps the invariant.
LEMMA AcceptDisjointOK ==
    ASSUME IInv, NEW w \in Writers, AcceptDisjoint(w) PROVE IInv'
<1> DEFINE old == stmt[w]
<1>1. /\ HeadOK /\ CatalogOK(Head, nextRowId) /\ StatementOK(old, Head, nextRowId)
      /\ old.op \in {"delete", "update"} /\ UNCHANGED catalogVars
    BY Zenon DEF IInv, StatementsOK, AcceptDisjoint
<1>2. PICK e \in old.entries :
          /\ DisjointEntry(old, e)
          /\ stmt' = [stmt EXCEPT ![w] =
                 [old EXCEPT !.attempt = @ + 1,
                     !.entries = (@ \ {e}) \cup {[e EXCEPT !.prev = LiveDeleteFile(e.file)]}]]
    BY Zenon DEF AcceptDisjoint
<1> DEFINE new     == [e EXCEPT !.prev = LiveDeleteFile(e.file)]
           entries == (old.entries \ {e}) \cup {new}
           st      == [old EXCEPT !.attempt = old.attempt + 1, !.entries = entries]
<1>3. EntryOK(new, Head) /\ new.how = "inlined"
  <2>1. LiveDeleteFile(e.file) \in SUBSET DeleteFileId
      BY <1>1, EntriesOfOK, Zenon DEF LiveDeleteFile
  <2>2. EntryOK(e, Head) /\ e.how = "inlined"
      BY <1>1, <1>2, Zenon DEF StatementOK, DisjointEntry
  <2> QED
      BY <2>1, <2>2, Zenon DEF EntryOK, Entry
<1>4. stmt' = [stmt EXCEPT ![w] = st]
    BY <1>2, Zenon
<1> HIDE DEF new, old
<1>5. /\ entries \in SUBSET Entry
      /\ \A x \in entries : EntryOK(x, Head)
      /\ \A x \in entries : x.how # "flushed"
    BY <1>1, <1>3, Zenon DEF StatementOK, EntryOK
<1> HIDE DEF entries
<1>6. StatementOK(st, Head, nextRowId)
  <2>1. old \in Statement /\ old.attempt + 1 \in Nat
      BY <1>1 DEF StatementOK, Statement
  <2>2. st \in Statement
      BY <1>5, <2>1, Zenon DEF Statement
  <2>3. /\ st.op = old.op /\ st.base = old.base /\ st.fresh = old.fresh
        /\ st.kept = old.kept /\ st.entries = entries /\ st.date = old.date
        /\ st.out = old.out /\ st.outBegin = old.outBegin
        /\ st.outMax = old.outMax /\ st.dels = old.dels
      BY <2>1, Zenon DEF Statement
  <2> HIDE DEF st
  <2> QED
      BY <1>1, <1>5, <2>2, <2>3, Zenon DEF StatementOK
<1> HIDE DEF st
<1> QED
    BY <1>1, <1>4, <1>6, BegunOK, Zenon

\* Dating delete files again for another attempt keeps the invariant.
LEMMA RedateOK ==
    ASSUME IInv, NEW w \in Writers, Redate(w) PROVE IInv'
<1> DEFINE old == stmt[w]
           st  == [old EXCEPT !.attempt = old.attempt + 1, !.date = Head + 1]
<1>1. /\ HeadOK /\ CatalogOK(Head, nextRowId) /\ StatementOK(old, Head, nextRowId)
      /\ Head \in Nat /\ UNCHANGED catalogVars
    BY HeadIsNat, Zenon DEF IInv, StatementsOK, Redate
<1>2. stmt' = [stmt EXCEPT ![w] = st]
    BY Zenon DEF Redate
<1> HIDE DEF old
<1>3. StatementOK(st, Head, nextRowId)
  <2>1. old \in Statement /\ old.attempt + 1 \in Nat /\ Head + 1 \in Nat
      BY <1>1 DEF StatementOK, Statement
  <2>2. st \in Statement
      BY <2>1, Zenon DEF Statement
  <2>3. /\ st.op = old.op /\ st.base = old.base /\ st.fresh = old.fresh
        /\ st.kept = old.kept /\ st.entries = old.entries /\ st.date = Head + 1
        /\ st.out = old.out /\ st.outBegin = old.outBegin
        /\ st.outMax = old.outMax /\ st.dels = old.dels
      BY <2>1, Zenon DEF Statement
  <2> HIDE DEF st
  <2> QED
      BY <1>1, <2>1, <2>2, <2>3 DEF StatementOK
<1> HIDE DEF st
<1> QED
    BY <1>1, <1>2, <1>3, BegunOK, Zenon

\* A statement that ends without a commit keeps the invariant.
LEMMA SettledOK ==
    ASSUME IInv, NEW w \in Writers, Settles(w), UNCHANGED catalogVars PROVE IInv'
BY IdleOK, HeadIsNat, BegunOK, Zenon DEF Settles, IInv, CatalogOK

-----------------------------------------------------------------------------
\* The new table satisfies the invariant.
LEMMA InitOK == ASSUME Init PROVE IInv
<1>1. snapshots = {1}
    BY Zenon DEF Init
<1>2. Head = 1
    BY <1>1, GreatestIs DEF Head
<1>3. HeadOK
    BY <1>1, <1>2 DEF HeadOK
<1>4. DOMAIN dataFile = {} /\ DOMAIN deleteFile = {} /\ scheduled = {}
    BY Zenon DEF Init
<1>5. CatalogOK(1, 0)
    BY <1>1, <1>4 DEF Init, CatalogOK, ScheduledUnreachable, Token, NULL
<1>6. StatementsOK(1, 0)
    BY IdleOK, Zenon DEF Init, StatementsOK
<1>7. nextRowId = 0
    BY Zenon DEF Init
<1> QED
    BY <1>2, <1>3, <1>5, <1>6, <1>7, Zenon DEF IInv

\* Every way to begin a statement keeps the invariant.
LEMMA BeginOK == ASSUME IInv, NEW w \in Writers, Begin(w) PROVE IInv'
<1>1. CASE \E op \in {"append", "replace"}, n \in InsertSizes, limit \in InlineLimits :
               BeginInsert(w, op, n, limit)
    BY <1>1, BeginInsertOK, Zenon
<1>2. CASE \E op \in {"delete", "update"}, b \in Bases, limit \in InlineLimits :
               \E T \in SUBSET MatchableAt(b) :
                   /\ Cardinality(T) \in 1 .. MaxTargets
                   /\ BeginMutation(w, op, b, T, limit)
    BY <1>2, BeginMutationOK, Zenon
<1>3. CASE \E b \in Bases : BeginTruncate(w, b)
    BY <1>3, BeginTruncateOK, Zenon
<1>4. CASE \E b \in Bases : BeginFlush(w, b)
    BY <1>4, BeginFlushOK, Zenon
<1>5. CASE \E b \in Bases : \E f \in DataFilesAt(b) : BeginRewrite(w, b, f)
    BY <1>5, BeginRewriteOK, Zenon
<1>6. CASE \E b \in Bases : \E f, g \in DataFilesAt(b) : f < g /\ BeginMerge(w, b, {f, g})
  <2>1. PICK b \in Bases : \E f, g \in DataFilesAt(b) : BeginMerge(w, b, {f, g})
      BY <1>6, Zenon
  <2>2. PICK f \in DataFilesAt(b), g \in DataFilesAt(b) : BeginMerge(w, b, {f, g})
      BY <2>1, Zenon
  <2>3. {f, g} \in SUBSET DataFilesAt(b) /\ {f, g} # {}
      BY Zenon
  <2> QED
      BY <2>2, <2>3, BeginMergeOK, Zenon
<1> QED
    BY <1>1, <1>2, <1>3, <1>4, <1>5, <1>6, Zenon DEF Begin

\* Every way a statement proceeds or ends keeps the invariant.
LEMMA SettleOK == ASSUME IInv, NEW w \in Writers, Settle(w) PROVE IInv'
<1>1. CASE CommitAppend(w) \/ CommitReplace(w) \/ CommitStaged(w) \/ CommitDirect(w)
    BY <1>1, CommitAppendOK, CommitReplaceOK, CommitStagedOK, CommitDirectOK, Zenon
<1>2. CASE CommitTruncate(w) \/ CommitMerge(w) \/ CommitRewrite(w) \/ CommitFlush(w)
    BY <1>2, CommitTruncateOK, CommitMergeOK, CommitRewriteOK, CommitFlushOK, Zenon
<1>3. CASE AcceptDisjoint(w) \/ Redate(w)
    BY <1>3, AcceptDisjointOK, RedateOK, Zenon
<1>4. CASE Refuse(w) \/ TruncateNothing(w)
    BY <1>4, SettledOK, Zenon DEF Refuse, TruncateNothing
<1> QED
    BY <1>1, <1>2, <1>3, <1>4, Zenon DEF Settle

\* A stuttering step keeps the invariant.
LEMMA UnchangedOK == ASSUME IInv, UNCHANGED vars PROVE IInv'
<1>1. UNCHANGED <<snapshots, changes, tableEnd, alteredAt, dataFile, deleteFile,
                  inlinedRow, inlinedDelete, nextRowId, scheduled, stmt>>
    BY Zenon DEF vars, catalogVars
<1> QED
    BY <1>1, Zenon DEF IInv, HeadOK, CatalogOK, StatementsOK, Head, ScheduledUnreachable

\* The invariant is inductive.
LEMMA NextOK == ASSUME IInv, [Next]_vars PROVE IInv'
<1>1. CASE \E w \in Writers : Begin(w) \/ Settle(w)
    BY <1>1, BeginOK, SettleOK, Zenon
<1>2. CASE Alter \/ Drop \/ OtherCommit
    BY <1>2, AlterOK, DropOK, OtherCommitOK, Zenon
<1>3. CASE \E b \in snapshots : RetireAppends(b)
    BY <1>3, RetireAppendsOK, Zenon
<1>4. CASE \E S \in SUBSET snapshots : Expire(S)
    BY <1>4, ExpireOK, Zenon
<1>5. CASE Quiescent \/ UNCHANGED vars
    BY <1>5, UnchangedOK, Zenon DEF Quiescent
<1> QED
    BY <1>1, <1>2, <1>3, <1>4, <1>5, Zenon DEF Next

\* The inductive invariant holds in every reachable state.
THEOREM Invariance == Spec => []IInv
<1>1. Init => IInv
    BY InitOK, Zenon
<1>2. IInv /\ [Next]_vars => IInv'
    BY NextOK, Zenon
<1> QED
    BY <1>1, <1>2, PTL DEF Spec

\* Every catalog row and every statement keeps the shape the code gives it.
THEOREM TypeCorrectness == Spec => []TypeOK
<1>1. IInv => TypeOK
  <2> SUFFICES ASSUME IInv PROVE TypeOK
      BY Zenon
  <2>2. HeadOK /\ CatalogOK(Head, nextRowId) /\ StatementsOK(Head, nextRowId)
      BY Zenon DEF IInv
  <2>3. Head \in Nat /\ snapshots \subseteq Nat
      BY <2>2, HeadIsNat, Zenon DEF HeadOK
  <2>4. /\ DOMAIN dataFile \subseteq Nat
        /\ \A f \in DOMAIN dataFile : dataFile[f] \in DataFileRow
        /\ DOMAIN deleteFile \subseteq DeleteFileId
        /\ \A d \in DOMAIN deleteFile : deleteFile[d] \in DeleteFileRow
      BY <2>2, <2>3 DEF CatalogOK, DataFileOK, DeleteFileOK, DeleteFileId
  <2>5. inlinedRow \subseteq InlinedRow /\ inlinedDelete \subseteq InlinedDelete
      BY <2>2, Zenon DEF CatalogOK, InlinedRowOK, InlinedDeleteOK
  <2>6. /\ tableEnd \in Nat /\ alteredAt \in Nat /\ nextRowId \in Nat
        /\ changes \in [snapshots -> SUBSET Token] /\ scheduled \subseteq DeleteFileId
      BY <2>2, <2>3 DEF CatalogOK, DeleteFileId
  <2>7. stmt \in [Writers -> Statement]
      BY <2>2, Zenon DEF StatementsOK, StatementOK
  <2> QED
      BY <2>3, <2>4, <2>5, <2>6, <2>7, Zenon DEF TypeOK
<1> QED
    BY <1>1, Invariance, PTL

\* No commit, redated delete file, merged file or flushed file dates a catalog
\* row after the head.
THEOREM NoFutureDates == Spec => []NothingFromTheFuture
<1>1. IInv => NothingFromTheFuture
  <2> SUFFICES ASSUME IInv PROVE NothingFromTheFuture
      BY Zenon
  <2>2. CatalogOK(Head, nextRowId)
      BY Zenon DEF IInv
  <2> QED
      BY <2>2 DEF CatalogOK, DataFileOK, RowOK, DeleteFileOK, InlinedRowOK,
                  InlinedDeleteOK, NothingFromTheFuture
<1> QED
    BY <1>1, Invariance, PTL

\* allocate_row_id_start never hands out a row id some stored row already has.
THEOREM RowIdsAreDrawn == Spec => []RowIdsDrawn
<1>1. IInv => RowIdsDrawn
    BY SMTT(60), Zenon DEF IInv, CatalogOK, DataFileOK, RowOK, InlinedRowOK, RowIdsDrawn
<1> QED
    BY <1>1, Invariance, PTL

\* The cleaner removes no object that a catalog row names.
THEOREM ScheduledAreUnreachable == Spec => []ScheduledUnreachable
<1>1. IInv => ScheduledUnreachable
    BY Zenon DEF IInv, CatalogOK
<1> QED
    BY <1>1, Invariance, PTL

-----------------------------------------------------------------------------
\* What one step removes, it schedules.
SchedulesRemoved ==
    /\ \A f \in DOMAIN dataFile \ DOMAIN dataFile' : <<f, 0>> \in scheduled'
    /\ DOMAIN deleteFile \ DOMAIN deleteFile' \subseteq scheduled'

\* A commit that supersedes delete files schedules them.
LEMMA WritesRowsSchedules ==
    ASSUME IInv, NEW w \in Writers, stmt[w].op # "flush", WritesRows(stmt[w])
    PROVE  SchedulesRemoved
<1> DEFINE st == stmt[w]
<1>1. DOMAIN dataFile \subseteq DOMAIN dataFile'
    BY Zenon DEF WritesRows, DataFilesAfter
<1>2. DOMAIN deleteFile \ PrevOf(st, {"rewritten", "flushed"}) \subseteq DOMAIN deleteFile'
    BY Zenon DEF WritesRows, DeleteFilesAfter
<1>3. \A e \in st.entries : e.how # "flushed"
    BY Zenon DEF IInv, StatementsOK, StatementOK
<1>4. PrevOf(st, {"rewritten", "flushed"}) = PrevOf(st, {"rewritten"})
    BY <1>3, Zenon DEF PrevOf
<1>5. scheduled' = scheduled \cup PrevOf(st, {"rewritten"})
    BY Zenon DEF WritesRows
<1> QED
    BY <1>1, <1>2, <1>4, <1>5, Zenon DEF SchedulesRemoved

\* INSERT, DELETE, UPDATE, INSERT OVERWRITE and TRUNCATE schedule what they remove.
LEMMA CommitSchedules ==
    ASSUME IInv, NEW w \in Writers,
           \/ CommitAppend(w) \/ CommitStaged(w) \/ CommitDirect(w)
           \/ CommitReplace(w) \/ CommitTruncate(w)
    PROVE  SchedulesRemoved
<1>1. CASE CommitAppend(w) \/ CommitStaged(w) \/ CommitDirect(w)
    BY <1>1, WritesRowsSchedules, Zenon DEF CommitAppend, CommitStaged, CommitDirect
<1>2. CASE CommitReplace(w)
    BY <1>2, Zenon DEF CommitReplace, DataFilesAfter, SchedulesRemoved
<1>3. CASE CommitTruncate(w)
    BY <1>3, Zenon DEF CommitTruncate, DataFilesAfter, EndDeleteFiles, SchedulesRemoved
<1> QED
    BY <1>1, <1>2, <1>3, Zenon

\* So do a merge, a rewrite and a flush,
LEMMA CompactionSchedules ==
    ASSUME IInv, NEW w \in Writers, CommitMerge(w) \/ CommitRewrite(w) \/ CommitFlush(w)
    PROVE  SchedulesRemoved
<1> DEFINE st == stmt[w]
<1>1. \A files : DOMAIN files \subseteq DOMAIN WithOutput(st, files)
    BY Zenon DEF WithOutput
<1>2. CASE CommitMerge(w)
  <2> DEFINE F == FilesOf(st, "source")
             D == DeleteFilesOf(F)
  <2>1. /\ dataFile' = WithOutput(st, Without(dataFile, F))
        /\ deleteFile' = Without(deleteFile, D)
        /\ scheduled' = scheduled \cup D \cup (F \X {0})
      BY <1>2, Zenon DEF CommitMerge, ScheduledAfter
  <2> HIDE DEF F, D
  <2>2. DOMAIN dataFile \ F \subseteq DOMAIN dataFile'
      BY <1>1, <2>1, Zenon DEF Without
  <2>3. DOMAIN deleteFile \ D \subseteq DOMAIN deleteFile'
      BY <2>1, Zenon DEF Without
  <2> QED
      BY <2>1, <2>2, <2>3, Zenon DEF SchedulesRemoved
<1>3. CASE CommitRewrite(w)
  <2>1. DOMAIN dataFile \subseteq DOMAIN DataFilesAfter(st, FilesOf(st, "source"))
      BY Zenon DEF DataFilesAfter
  <2>2. DOMAIN dataFile \subseteq DOMAIN dataFile'
      BY <1>1, <1>3, <2>1, Zenon DEF CommitRewrite
  <2>3. DOMAIN deleteFile \subseteq DOMAIN deleteFile'
      BY <1>3, Zenon DEF CommitRewrite, EndDeleteFiles
  <2> QED
      BY <2>2, <2>3, Zenon DEF SchedulesRemoved
<1>4. CASE CommitFlush(w)
  <2>1. DOMAIN dataFile \subseteq DOMAIN dataFile'
      BY <1>1, <1>4, Zenon DEF CommitFlush
  <2>2. DOMAIN deleteFile \ PrevOf(st, {"rewritten", "flushed"})
            \subseteq DOMAIN DeleteFilesAfter(st)
      BY Zenon DEF DeleteFilesAfter
  <2>3. DOMAIN DeleteFilesAfter(st) \subseteq DOMAIN deleteFile'
      BY <1>4, Zenon DEF CommitFlush
  <2>4. \A e \in st.entries : e.how = "flushed"
      BY <1>4, Zenon DEF CommitFlush, IInv, StatementsOK, StatementOK
  <2>5. PrevOf(st, {"rewritten", "flushed"}) = PrevOf(st, {"flushed"})
      BY <2>4, Zenon DEF PrevOf
  <2>6. PrevOf(st, {"flushed"}) \subseteq scheduled'
      BY <1>4, Zenon DEF CommitFlush, ScheduledAfter
  <2> QED
      BY <2>1, <2>2, <2>3, <2>5, <2>6, Zenon DEF SchedulesRemoved
<1> QED
    BY <1>2, <1>3, <1>4, Zenon

\* and the transactions that belong to no statement.
LEMMA ImmediateSchedules ==
    ASSUME \/ Alter \/ Drop \/ OtherCommit \/ Quiescent \/ UNCHANGED catalogVars
           \/ \E b \in snapshots : RetireAppends(b)
           \/ \E S \in SUBSET snapshots : Expire(S)
    PROVE  SchedulesRemoved
<1>1. CASE Alter \/ OtherCommit \/ Quiescent \/ UNCHANGED catalogVars
    BY <1>1, Zenon DEF Alter, OtherCommit, Quiescent, vars, catalogVars, SchedulesRemoved
<1>2. CASE Drop
    BY <1>2, Zenon DEF Drop, DataFilesAfter, EndDeleteFiles, SchedulesRemoved
<1>3. CASE \E b \in snapshots : RetireAppends(b)
    BY <1>3, Zenon DEF RetireAppends, DataFilesAfter, SchedulesRemoved
<1>4. CASE \E S \in SUBSET snapshots : Expire(S)
  <2>1. PICK S \in SUBSET snapshots : Expire(S)
      BY <1>4, Zenon
  <2> DEFINE F == DeadDataFiles(S)
             D == DeadDeleteFiles(S)
  <2>2. /\ dataFile' = Without(dataFile, F) /\ deleteFile' = Without(deleteFile, D)
        /\ scheduled' = scheduled \cup D \cup (F \X {0})
      BY <2>1, Zenon DEF Expire, ScheduledAfter
  <2> HIDE DEF F, D
  <2> QED
      BY <2>2, Zenon DEF Without, SchedulesRemoved
<1> QED
    BY <1>1, <1>2, <1>3, <1>4, Zenon

\* No step takes a data file or a delete file out of the catalog without
\* scheduling its object for deletion in the same transaction.
THEOREM RemovedFilesAreScheduled == Spec => RemovedIsScheduled
<1>1. ASSUME IInv, [Next]_vars PROVE [SchedulesRemoved]_vars
  <2>1. CASE \E w \in Writers : Begin(w)
    <3>1. \A w, op, n, limit : BeginInsert(w, op, n, limit) => UNCHANGED catalogVars
        BY Zenon DEF BeginInsert, Starts
    <3>2. \A w, op, b, T, limit :
              BeginMutation(w, op, b, T, limit) => UNCHANGED catalogVars
        BY Zenon DEF BeginMutation, Starts
    <3>3. \A w, b : BeginTruncate(w, b) \/ BeginFlush(w, b) => UNCHANGED catalogVars
        BY Zenon DEF BeginTruncate, BeginFlush, Starts
    <3>4. \A w, b, f : BeginRewrite(w, b, f) \/ BeginMerge(w, b, f) => UNCHANGED catalogVars
        BY ZenonT(60) DEF BeginRewrite, BeginMerge, Starts
    <3>5. UNCHANGED catalogVars
        BY <2>1, <3>1, <3>2, <3>3, <3>4, Zenon DEF Begin
    <3> QED
        BY <3>5, ImmediateSchedules, Zenon
  <2>2. CASE \E w \in Writers : Settle(w)
    <3>1. PICK w \in Writers : Settle(w)
        BY <2>2, Zenon
    <3>2. CASE \/ CommitAppend(w) \/ CommitStaged(w) \/ CommitDirect(w)
               \/ CommitReplace(w) \/ CommitTruncate(w)
        BY <1>1, <3>2, CommitSchedules, Zenon
    <3>3. CASE CommitMerge(w) \/ CommitRewrite(w) \/ CommitFlush(w)
        BY <1>1, <3>3, CompactionSchedules, Zenon
    <3>4. CASE AcceptDisjoint(w) \/ Redate(w) \/ Refuse(w) \/ TruncateNothing(w)
        BY <3>4, ImmediateSchedules, Zenon DEF AcceptDisjoint, Redate, Refuse, TruncateNothing
    <3> QED
        BY <3>1, <3>2, <3>3, <3>4, Zenon DEF Settle
  <2>3. CASE \/ Alter \/ Drop \/ OtherCommit \/ Quiescent
             \/ \E b \in snapshots : RetireAppends(b)
             \/ \E S \in SUBSET snapshots : Expire(S)
      BY <2>3, ImmediateSchedules, Zenon
  <2>4. CASE UNCHANGED vars
      BY <2>4, Zenon
  <2> QED
      BY <1>1, <2>1, <2>2, <2>3, <2>4, Zenon DEF Next
<1>2. [][SchedulesRemoved]_vars => RemovedIsScheduled
    BY PTL DEF RemovedIsScheduled, SchedulesRemoved
<1> QED
    BY <1>1, <1>2, Invariance, PTL DEF Spec
=============================================================================
