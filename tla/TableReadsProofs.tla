-------------------------- MODULE TableReadsProofs --------------------------
(***************************************************************************)
(* Proofs about the CatalogReadMemo of TableReads: MemoCurrent, from the   *)
(* inductive invariants TableOK and RInv of ReadInvariant.                 *)
(*                                                                         *)
(* A commit moves the head past every fill and every entry, so it has only *)
(* absences to keep; an expiry keeps the head, and what the snapshots that *)
(* survive it read.  A query's own steps leave the catalog as it is.       *)
(***************************************************************************)
EXTENDS ReadInvariant, FiniteSetTheorems, TLAPS

\* A leaf may take its time: the provers get more than their default.
USE SMTT(30), ZenonT(30)

\* Greatest is the element that bounds the set.
LEMMA GreatestBounds ==
    ASSUME NEW S, S \subseteq Nat, NEW x \in S, \A y \in S : y <= x
    PROVE  Greatest(S) = x
<1>1. Greatest(S) \in S /\ \A y \in S : y <= Greatest(S)
    BY Zenon DEF Greatest
<1>2. Greatest(S) <= x /\ x <= Greatest(S) /\ Greatest(S) \in Nat /\ x \in Nat
    BY <1>1, Zenon
<1> QED
    BY <1>2

\* The head is a snapshot, and a commit takes the number after it.
LEMMA HeadNumber ==
    ASSUME TableOK
    PROVE  Head \in Nat /\ Own \in Nat /\ Own = Head + 1
BY DEF TableOK, Own

-----------------------------------------------------------------------------
\* What a step of the table does to the catalog a query reads.

\* A commit: a new head, inlined rows that begin at it or began before, and at
\* most one data file, named by it.
RowsBeginLater ==
    \A r \in inlinedRow' :
        /\ DOMAIN r = {"rid", "begin", "end"}
        /\ r.begin = Own \/ \E x \in inlinedRow : x.begin = r.begin

Advances ==
    /\ snapshots' = snapshots \cup {Own}
    /\ Head' = Own
    /\ tableEnd' \in {tableEnd, Own}
    /\ DOMAIN dataFile' \subseteq DOMAIN dataFile \cup {Own}
    /\ RowsBeginLater

\* commit_inlined_at_snapshot's rows begin at the commit, and a row that ends
\* began when it did.
LEMMA InlinedRowsBegin ==
    ASSUME TableOK, NEW st, NEW R, inlinedRow' = InlinedRowsAfter(st, R)
    PROVE  RowsBeginLater
<1>1. \A r \in inlinedRow : DOMAIN r = {"rid", "begin", "end"}
    BY Zenon DEF TableOK
<1>2. \A r \in inlinedRow :
          DOMAIN End(r) = {"rid", "begin", "end"} /\ End(r).begin = r.begin
    BY <1>1, Zenon DEF End
<1>3. \A i : LET r == [rid |-> i, begin |-> Own, end |-> NULL]
             IN  DOMAIN r = {"rid", "begin", "end"} /\ r.begin = Own
    BY Zenon
<1> QED
    BY <1>1, <1>2, <1>3 DEF InlinedRowsAfter, RowsBeginLater

\* Rows that stay began when they did.
LEMMA RowsStay ==
    ASSUME TableOK, inlinedRow' \subseteq inlinedRow PROVE RowsBeginLater
BY Zenon DEF TableOK, RowsBeginLater

\* A commit registers at most one data file, under its own number.
LEMMA FilesAdded ==
    ASSUME NEW st
    PROVE  /\ \A F : DOMAIN DataFilesAfter(st, F) \subseteq DOMAIN dataFile \cup {Own}
           /\ \A files : DOMAIN WithOutput(st, files) \subseteq DOMAIN files \cup {Own}
           /\ \A F : DOMAIN Without(dataFile, F) \subseteq DOMAIN dataFile
<1>1. \A F : DOMAIN DataFilesAfter(st, F) \subseteq DOMAIN dataFile \cup {Own}
    BY Zenon DEF DataFilesAfter
<1>2. \A files : DOMAIN WithOutput(st, files) \subseteq DOMAIN files \cup {Own}
    BY Zenon DEF WithOutput
<1>3. \A F : DOMAIN Without(dataFile, F) \subseteq DOMAIN dataFile
    BY Zenon DEF Without
<1> QED
    BY <1>1, <1>2, <1>3, Zenon

\* A step that records a snapshot (insert_snapshot) and has such rows and files
\* is a commit.
LEMMA CommitAdvances ==
    ASSUME TableOK, NEW tokens, Records(tokens), tableEnd' \in {tableEnd, Own},
           DOMAIN dataFile' \subseteq DOMAIN dataFile \cup {Own}, RowsBeginLater
    PROVE  Advances
<1>1. snapshots' = snapshots \cup {Own}
    BY Zenon DEF Records
<1>2. snapshots' \subseteq Nat /\ Own \in snapshots' /\ \A s \in snapshots' : s <= Own
  <2>1. \A s \in snapshots : s \in Nat /\ s <= Head
      BY Zenon DEF TableOK
  <2> QED
      BY <1>1, <2>1, HeadNumber
<1>3. Head' = Own
    BY <1>2, GreatestBounds, Zenon DEF Head
<1> QED
    BY <1>1, <1>3, Zenon DEF Advances

\* Every commit of a statement moves the head.
LEMMA SettleAdvances ==
    ASSUME TableOK, NEW w \in Writers, Settle(w)
    PROVE  Advances \/ UNCHANGED catalogVars
<1>1. CASE CommitAppend(w) \/ CommitStaged(w) \/ CommitDirect(w)
    BY <1>1, InlinedRowsBegin, FilesAdded, CommitAdvances, Zenon
       DEF CommitAppend, CommitStaged, CommitDirect, WritesRows
<1>2. CASE CommitReplace(w) \/ CommitTruncate(w)
    BY <1>2, InlinedRowsBegin, FilesAdded, CommitAdvances, Zenon
       DEF CommitReplace, CommitTruncate
<1>3. CASE CommitMerge(w)
  <2>1. DOMAIN dataFile' \subseteq DOMAIN dataFile \cup {Own}
      BY <1>3, FilesAdded, Zenon DEF CommitMerge
  <2> QED
      BY <1>3, <2>1, RowsStay, CommitAdvances, Zenon DEF CommitMerge
<1>4. CASE CommitRewrite(w)
  <2>1. DOMAIN dataFile' \subseteq DOMAIN dataFile \cup {Own}
      BY <1>4, FilesAdded, Zenon DEF CommitRewrite
  <2> QED
      BY <1>4, <2>1, RowsStay, CommitAdvances, Zenon DEF CommitRewrite
<1>5. CASE CommitFlush(w)
    BY <1>5, FilesAdded, RowsStay, CommitAdvances, Zenon DEF CommitFlush
<1>6. CASE AcceptDisjoint(w) \/ Redate(w) \/ Refuse(w) \/ TruncateNothing(w)
    BY <1>6, Zenon DEF AcceptDisjoint, Redate, Refuse, TruncateNothing
<1> QED
    BY <1>1, <1>2, <1>3, <1>4, <1>5, <1>6, Zenon DEF Settle

\* A statement that begins reads only.
LEMMA BeginReads ==
    ASSUME NEW w \in Writers, Begin(w) PROVE UNCHANGED catalogVars
<1>1. \A op, n, limit : BeginInsert(w, op, n, limit) => UNCHANGED catalogVars
    BY Zenon DEF BeginInsert, Starts
<1>2. \A op, b, T, limit : BeginMutation(w, op, b, T, limit) => UNCHANGED catalogVars
    BY Zenon DEF BeginMutation, Starts
<1>3. \A b : BeginTruncate(w, b) \/ BeginFlush(w, b) => UNCHANGED catalogVars
    BY Zenon DEF BeginTruncate, BeginFlush, Starts
<1>4. \A b, f : BeginRewrite(w, b, f) \/ BeginMerge(w, b, f) => UNCHANGED catalogVars
    BY Zenon DEF BeginRewrite, BeginMerge, Starts
<1> QED
    BY <1>1, <1>2, <1>3, <1>4, Zenon DEF Begin

\* A step of the table commits, or expires snapshots, or leaves the catalog.
LEMMA TableMoves ==
    ASSUME TableOK, [Next]_vars
    PROVE  \/ Advances
           \/ UNCHANGED catalogVars
           \/ \E S \in SUBSET snapshots : Expire(S)
<1>1. CASE \E w \in Writers : Begin(w) \/ Settle(w)
    BY <1>1, BeginReads, SettleAdvances, Zenon
<1>2. CASE Alter \/ Drop \/ OtherCommit
    BY <1>2, RowsStay, FilesAdded, CommitAdvances, Zenon DEF Alter, Drop, OtherCommit
<1>3. CASE \E b \in snapshots : RetireAppends(b)
    BY <1>3, InlinedRowsBegin, FilesAdded, CommitAdvances, Zenon DEF RetireAppends
<1>4. CASE Quiescent \/ UNCHANGED vars
    BY <1>4, Zenon DEF Quiescent, vars, catalogVars
<1> QED
    BY <1>1, <1>2, <1>3, <1>4, Zenon DEF Next

-----------------------------------------------------------------------------
\* What such a step leaves of what a query has read.

\* The head does not fall, and the table stays at the snapshots it was at.
LEMMA HeadGrows ==
    ASSUME TableOK, [Next]_vars
    PROVE  /\ Head \in Nat /\ Head' \in Nat /\ Head <= Head'
           /\ \A s \in 0 .. Head : TableExistsAt(s) => TableExistsAt(s)'
<1>1. Head \in Nat /\ Own = Head + 1 /\ tableEnd \in Nat
    BY HeadNumber, Zenon DEF TableOK
<1>2. CASE Advances
    BY <1>1, <1>2 DEF Advances, TableExistsAt, NULL
<1>3. CASE UNCHANGED catalogVars
    BY <1>1, <1>3 DEF catalogVars, Head, TableExistsAt
<1>4. ASSUME NEW S \in SUBSET snapshots, Expire(S)
      PROVE  Head' = Head /\ tableEnd' = tableEnd
  <2>1. snapshots' \subseteq snapshots /\ Head \in snapshots' /\ tableEnd' = tableEnd
      BY <1>4, Zenon DEF Expire, TableOK
  <2>2. \A s \in snapshots' : s <= Head
      BY <2>1, Zenon DEF TableOK
  <2>3. snapshots' \subseteq Nat
      BY <2>1, Zenon DEF TableOK
  <2> QED
      BY <2>1, <2>2, <2>3, GreatestBounds, Zenon DEF Head
<1>5. CASE \E S \in SUBSET snapshots : Expire(S)
    BY <1>1, <1>4, <1>5 DEF TableExistsAt
<1> QED
    BY <1>2, <1>3, <1>5, TableMoves, Zenon

\* An absence holds at every later head: a commit's rows begin above the head.
LEMMA AbsenceStays ==
    ASSUME TableOK, [Next]_vars, NEW x, AbsenceHolds(x)
    PROVE  AbsenceHolds(x)'
<1>1. Head \in Nat /\ Head' \in Nat /\ Head <= Head' /\ Own = Head + 1
    BY HeadGrows, HeadNumber, Zenon
<1>2. x \in 0 .. Head /\ x \in 0 .. Head' /\ \A r \in inlinedRow : r.begin > x
    BY <1>1 DEF AbsenceHolds, NoRowThrough
<1>3. CASE Advances
    BY <1>1, <1>2, <1>3 DEF Advances, RowsBeginLater, AbsenceHolds, NoRowThrough
<1>4. CASE inlinedRow' \subseteq inlinedRow
    BY <1>2, <1>4, Zenon DEF AbsenceHolds, NoRowThrough
<1>5. UNCHANGED catalogVars => inlinedRow' \subseteq inlinedRow
    BY Zenon DEF catalogVars
<1>6. \A S : Expire(S) => inlinedRow' \subseteq inlinedRow
    BY Zenon DEF Expire
<1> QED
    BY <1>3, <1>4, <1>5, <1>6, TableMoves, Zenon

\* An expiry keeps what the snapshots that survive it read of the table.
LEMMA ExpiryKeepsReads ==
    ASSUME TableOK, NEW S \in SUBSET snapshots, Expire(S),
           NEW s \in snapshots', TableExistsAt(s)
    PROVE  /\ DeletesRead(s)' = DeletesRead(s)
           /\ StoredInlinedAt(s)' = StoredInlinedAt(s)
           /\ DataFilesAt(s)' = DataFilesAt(s)
           /\ \A f \in DataFilesAt(s) : Listed(f, s)' = Listed(f, s)
<1>1. s \in snapshots \ S /\ s \in Nat /\ tableEnd \in Nat
    BY Zenon DEF Expire, TableOK
<1>2. ~TableDead(S)
    BY <1>1 DEF TableDead, TableExistsAt, NULL
<1>3. inlinedRow' = inlinedRow /\ inlinedDelete' = inlinedDelete
    BY <1>2, Zenon DEF Expire
<1>4. \A row : Uncovered(row, S) => ~VisibleAt(row, s)
    BY <1>1, Zenon DEF Uncovered, VisibleAt
<1>5. /\ DOMAIN dataFile' \subseteq DOMAIN dataFile
      /\ \A f \in DOMAIN dataFile' : dataFile'[f] = dataFile[f]
      /\ \A f \in DOMAIN dataFile : VisibleAt(dataFile[f], s) => f \in DOMAIN dataFile'
    BY <1>2, <1>4, Zenon DEF Expire, Without, DeadDataFiles
<1>6. DataFilesAt(s)' = DataFilesAt(s)
    BY <1>5, Zenon DEF DataFilesAt, VisibleAt
<1>7. ASSUME NEW f \in DataFilesAt(s) PROVE Listed(f, s)' = Listed(f, s)
  <2>1. f \in DOMAIN dataFile /\ VisibleAt(dataFile[f], s) /\ dataFile'[f] = dataFile[f]
      BY <1>5, <1>7, Zenon DEF DataFilesAt
  <2>2. f \notin DeadDataFiles(S)
      BY <1>2, <1>4, <2>1, Zenon DEF DeadDataFiles
  <2>3. /\ DOMAIN deleteFile' \subseteq DOMAIN deleteFile
        /\ \A d \in DOMAIN deleteFile' : deleteFile'[d] = deleteFile[d]
        /\ \A d \in DOMAIN deleteFile :
               d[1] = f /\ VisibleAt(deleteFile[d], s) => d \in DOMAIN deleteFile'
      BY <1>2, <1>4, <2>2, Zenon DEF Expire, Without, DeadDeleteFiles
  <2>4. DeleteFilesAt(f, s)' = DeleteFilesAt(f, s)
      BY <2>3, Zenon DEF DeleteFilesAt, VisibleAt
  <2>5. \A d \in DeleteFilesAt(f, s) : deleteFile'[d] = deleteFile[d]
      BY <2>3, <2>4, Zenon DEF DeleteFilesAt
  <2>6. EntriesOf(DeleteFilesAt(f, s))' = EntriesOf(DeleteFilesAt(f, s))
      BY <2>4, <2>5, Zenon DEF EntriesOf
  <2>7. DeletedByFilesAt(f, s)' = DeletedByFilesAt(f, s)
      BY <2>6, Zenon DEF DeletedByFilesAt, PositionsOf
  <2>8. {p \in dataFile[f].rows : OriginVisible(f, p, s)}'
            = {p \in dataFile[f].rows : OriginVisible(f, p, s)}
      BY <2>1, Zenon DEF OriginVisible
  <2> QED
      BY <2>7, <2>8, Zenon DEF Listed, StoredIn
<1> QED
    BY <1>3, <1>6, <1>7, Zenon DEF DeletesRead, StoredInlinedAt

\* While the head stays, so does what a query at a surviving snapshot reads.
LEMMA ReadsStay ==
    ASSUME TableOK, [Next]_vars, Head' = Head, NEW s \in snapshots', TableExistsAt(s)
    PROVE  /\ s \in snapshots
           /\ DeletesRead(s)' = DeletesRead(s)
           /\ StoredInlinedAt(s)' = StoredInlinedAt(s)
           /\ DataFilesAt(s)' = DataFilesAt(s)
           /\ \A f \in DataFilesAt(s) : Listed(f, s)' = Listed(f, s)
<1>1. ~Advances
    BY HeadNumber DEF Advances
<1>2. CASE UNCHANGED catalogVars
  <2>1. UNCHANGED <<snapshots, dataFile, deleteFile, inlinedRow, inlinedDelete>>
      BY <1>2, Zenon DEF catalogVars
  <2>2. \A f : Listed(f, s)' = Listed(f, s)
      BY <2>1, ZenonT(60) DEF Listed, StoredIn, OriginVisible, DeletedByFilesAt, PositionsOf,
                         EntriesOf, DeleteFilesAt, VisibleAt
  <2> QED
      BY <2>1, <2>2, Zenon DEF DeletesRead, StoredInlinedAt, DataFilesAt, VisibleAt
<1>3. CASE \E S \in SUBSET snapshots : Expire(S)
    BY <1>3, ExpiryKeepsReads, Zenon DEF Expire
<1> QED
    BY <1>1, <1>2, <1>3, TableMoves, Zenon

\* Kept reads stay those of their snapshot,
LEMMA WholeStays ==
    ASSUME TableOK, [Next]_vars, Head' = Head, NEW s \in snapshots', TableExistsAt(s),
           NEW reads, Whole(reads, s)
    PROVE  Whole(reads, s)'
<1>1. /\ DeletesRead(s)' = DeletesRead(s) /\ StoredInlinedAt(s)' = StoredInlinedAt(s)
      /\ DataFilesAt(s)' = DataFilesAt(s)
      /\ \A f \in DataFilesAt(s) : Listed(f, s)' = Listed(f, s)
    BY ReadsStay, Zenon
<1>2. {Listed(f, s) : f \in DataFilesAt(s)}' = {Listed(f, s) : f \in DataFilesAt(s)}
    BY <1>1, Zenon
<1> QED
    BY <1>1, <1>2, Zenon DEF Whole

\* and a fill under way stays right so far.
LEMMA ProgressStays ==
    ASSUME TableOK, [Next]_vars, Head' = Head, NEW c, c.at \in snapshots', TableExistsAt(c.at),
           Progress(c)
    PROVE  Progress(c)'
<1> DEFINE s == c.at
<1>1. /\ DeletesRead(s)' = DeletesRead(s) /\ StoredInlinedAt(s)' = StoredInlinedAt(s)
      /\ DataFilesAt(s)' = DataFilesAt(s)
      /\ \A f \in DataFilesAt(s) : Listed(f, s)' = Listed(f, s)
    BY ReadsStay, Zenon
<1>2. {Listed(f, s) : f \in DataFilesAt(s)}' = {Listed(f, s) : f \in DataFilesAt(s)}
    BY <1>1, Zenon
<1>3. ListedThrough(c.after, s)' = ListedThrough(c.after, s)
    BY <1>1, Zenon DEF ListedThrough
<1>4. Whole(c.reads, s) => Whole(c.reads, s)'
    BY WholeStays, Zenon
<1> QED
    BY <1>1, <1>2, <1>3, <1>4, Zenon DEF Progress

\* The table's steps keep what a query holds,
LEMMA QueryStays ==
    ASSUME TableOK, [Next]_vars, NEW c, QueryOK(c) PROVE QueryOK(c)'
<1>1. /\ Head \in Nat /\ Head' \in Nat /\ Head <= Head'
      /\ \A s \in 0 .. Head : TableExistsAt(s) => TableExistsAt(s)'
    BY HeadGrows, Zenon
<1>2. QueryShape(c)'
  <2>1. c.head \in 0 .. Head'
      BY <1>1 DEF QueryOK, QueryShape
  <2>2. AbsenceHolds(c.reads.absent)'
      BY AbsenceStays, Zenon DEF QueryOK, QueryShape, ReadsShape
  <2> QED
      BY <2>1, <2>2, Zenon DEF QueryOK, QueryShape, ReadsShape
<1>3. c.phase \notin AtRest => c.at \in 0 .. Head' /\ TableExistsAt(c.at)'
  <2>1. c.at \in 0 .. Head => c.at \in 0 .. Head'
      BY <1>1
  <2> QED
      BY <1>1, <2>1, Zenon DEF QueryOK
<1>4. ASSUME c.fill, c.head = Head', c.at \in snapshots', c.phase \notin AtRest
      PROVE  Progress(c)'
  <2>1. Head' = Head
      BY <1>1, <1>4 DEF QueryOK, QueryShape
  <2>2. c.at \in snapshots /\ TableExistsAt(c.at)
      BY <1>4, <2>1, ReadsStay, Zenon DEF QueryOK
  <2> QED
      BY <1>4, <2>1, <2>2, ProgressStays, Zenon DEF QueryOK
<1>5. c.phase \in AtRest => Progress(c)'
    BY Zenon DEF Progress, AtRest
<1> QED
    BY <1>2, <1>3, <1>4, <1>5, Zenon DEF QueryOK

\* and what the memo keeps.
LEMMA MemoStays ==
    ASSUME TableOK, [Next]_vars, NEW m, MemoOK(m) PROVE MemoOK(m)'
<1>1. /\ Head \in Nat /\ Head' \in Nat /\ Head <= Head'
      /\ \A s \in 0 .. Head : TableExistsAt(s) => TableExistsAt(s)'
    BY HeadGrows, Zenon
<1>2. m.head \in 0 .. Head' /\ (m.head = Head' => Head' = Head)
    BY <1>1 DEF MemoOK
<1>3. AbsenceHolds(m.absentThrough)'
    BY AbsenceStays, Zenon DEF MemoOK
<1>4. ASSUME NEW s \in DOMAIN m.tables
      PROVE  /\ s \in 0 .. Head' /\ TableExistsAt(s)' /\ ReadsShape(m.tables[s])'
             /\ m.head = Head' /\ s \in snapshots' => Whole(m.tables[s], s)'
  <2>1. /\ s \in 0 .. Head /\ TableExistsAt(s) /\ ReadsShape(m.tables[s])
        /\ m.head = Head /\ s \in snapshots => Whole(m.tables[s], s)
      BY <1>4, Zenon DEF MemoOK
  <2>2. s \in 0 .. Head'
      BY <1>1, <2>1
  <2>3. ReadsShape(m.tables[s])'
      BY <2>1, AbsenceStays, Zenon DEF ReadsShape
  <2>4. ASSUME m.head = Head', s \in snapshots' PROVE Whole(m.tables[s], s)'
      BY <1>2, <2>1, <2>4, ReadsStay, WholeStays, Zenon
  <2> QED
      BY <1>1, <2>1, <2>2, <2>3, <2>4, Zenon
<1> QED
    BY <1>2, <1>3, <1>4, Zenon DEF MemoOK

\* So the table's steps keep the invariant.
LEMMA TableStepKeeps ==
    ASSUME TableOK, RInv, [Next]_vars, UNCHANGED readVars PROVE RInv'
<1>1. query' = query /\ memo' = memo /\ noted' = noted
    BY Zenon DEF readVars
<1>2. \A q \in Queries : QueryOK(query[q])'
  <2> SUFFICES ASSUME NEW q \in Queries PROVE QueryOK(query[q])'
      BY Zenon
  <2>1. \A c : QueryOK(c) => QueryOK(c)'
      BY QueryStays, Zenon
  <2> QED
      BY <1>1, <2>1, Zenon DEF RInv
<1> QED
    BY <1>1, <1>2, MemoStays, AbsenceStays, Zenon DEF RInv

-----------------------------------------------------------------------------
\* The steps of the queries: the catalog stays, one query changes to d, and what
\* the memo and the table note about absences holds.
LEMMA QueryStepKeeps ==
    ASSUME TableOK, RInv, UNCHANGED vars, NEW q \in Queries, NEW d, Goes(q, d), QueryOK(d),
           MemoOK(memo'), \A s \in noted' : AbsenceHolds(s)
    PROVE  RInv'
<1>1. [Next]_vars
    BY Zenon
<1>2. /\ query' = [v \in Queries |-> query'[v]]
      /\ \A v \in Queries : query'[v] = IF v = q THEN d ELSE query[v]
    BY Zenon DEF Goes, RInv
<1>3. \A v \in Queries : QueryOK(query'[v])
    BY <1>2, Zenon DEF RInv
<1>4. \A c : QueryOK(c) => QueryOK(c)'
    BY <1>1, QueryStays, Zenon
<1>5. \A m : MemoOK(m) => MemoOK(m)'
    BY <1>1, MemoStays, Zenon
<1>6. \A x : AbsenceHolds(x) => AbsenceHolds(x)'
    BY <1>1, AbsenceStays, Zenon
<1>7. (\A v \in Queries : QueryOK(query[v]))'
    BY <1>3, <1>4, Zenon
<1>8. MemoOK(memo)' /\ (\A s \in noted : AbsenceHolds(s))'
    BY <1>5, <1>6, Zenon
<1> QED
    BY <1>2, <1>7, <1>8, Zenon DEF RInv

\* An absence holds for every earlier snapshot, and for none at all (NULL).
LEMMA AbsenceBelow ==
    ASSUME TableOK, NEW x, AbsenceHolds(x), NEW y \in 0 .. x
    PROVE  AbsenceHolds(y)
<1>1. Head \in Nat /\ \A r \in inlinedRow : r.begin \in Nat
    BY HeadNumber, Zenon DEF TableOK
<1> QED
    BY <1>1 DEF AbsenceHolds, NoRowThrough

\* Nothing read claims no absence.
LEMMA NoAbsence ==
    ASSUME TableOK, RInv PROVE AbsenceHolds(0) /\ ReadsShape(NoReads)
<1>1. AbsenceHolds(memo.absentThrough) /\ Head \in Nat
    BY HeadNumber, Zenon DEF RInv, MemoOK
<1>2. 0 \in 0 .. memo.absentThrough
    BY <1>1 DEF AbsenceHolds
<1>3. AbsenceHolds(0)
    BY <1>1, <1>2, AbsenceBelow, Zenon
<1>4. NoReads.absent = 0
    BY Zenon DEF NoReads, NULL
<1> QED
    BY <1>3, <1>4, Zenon DEF ReadsShape

\* A query at rest holds nothing of the catalog.
LEMMA RestOK ==
    ASSUME TableOK, RInv, NEW d, DOMAIN d = DOMAIN NoQuery, d.phase \in AtRest, d.at \in Nat,
           d.fill = FALSE, d.reading = "rows", d.after = 0, d.seen = 0, d.head = 0,
           d.reads = NoReads
    PROVE  QueryOK(d)
<1>1. 0 \in Nat /\ 0 \in 0 .. Head
    BY HeadNumber
<1>2. d.phase \in Phases /\ d.phase \notin {"bind", "pick", "deletes", "registry", "rows",
                                           "head", "keep"}
    BY Zenon DEF AtRest, Phases
<1>3. QueryShape(d)
    BY <1>1, <1>2, NoAbsence, Zenon DEF QueryShape
<1> QED
    BY <1>2, <1>3, Zenon DEF QueryOK

\* A query that has answered holds nothing of the catalog.
LEMMA DoneOK ==
    ASSUME TableOK, RInv, NEW c, c.at \in Nat, NEW reads PROVE QueryOK(Done(c, reads))
<1> DEFINE answer == (IF c.rowIds THEN reads.ids ELSE reads.rows)
                         \cup (UNION {f.rows : f \in reads.files} \ reads.deletes)
           d == [NoQuery EXCEPT !.phase = "done", !.at = c.at, !.split = c.split,
                     !.scans = c.scans, !.answer = answer]
<1>1. /\ DOMAIN d = DOMAIN NoQuery
      /\ d.phase = "done" /\ d.at = c.at /\ d.fill = FALSE /\ d.reading = "rows"
      /\ d.after = 0 /\ d.seen = 0 /\ d.head = 0 /\ d.reads = NoReads
  <2> HIDE DEF answer
  <2> QED
      BY Zenon DEF NoQuery, NULL
<1>2. "done" \in AtRest
    BY Zenon DEF AtRest
<1> HIDE DEF d
<1>3. QueryOK(d)
    BY <1>1, <1>2, RestOK, Zenon
<1> QED
    BY <1>3, Zenon DEF Done, d

\* A query opens the table.
LEMMA OpenKeeps ==
    ASSUME TableOK, RInv, UNCHANGED vars, NEW q \in Queries, NEW s \in snapshots, NEW rowIds,
           NEW memoized \in BOOLEAN, NEW consistent, Open(q, s, rowIds, memoized, consistent)
    PROVE  RInv'
<1> DEFINE phase == IF memoized THEN "bind" ELSE "deletes"
           head  == IF memoized THEN Head ELSE NULL
           d == [NoQuery EXCEPT !.phase = phase,
                   !.at = s, !.rowIds = rowIds, !.memoized = memoized,
                   !.consistent = consistent, !.scans = query[q].scans + 1,
                   !.head = head]
<1>1. Head \in Nat /\ s \in 0 .. Head /\ s \in Nat /\ 0 \in Nat /\ head \in 0 .. Head
  <2>1. Head \in Nat /\ s \in Nat /\ s <= Head
      BY HeadNumber, Zenon DEF TableOK
  <2> QED
      BY <2>1 DEF NULL
<1>2. /\ DOMAIN d = DOMAIN NoQuery
      /\ d.phase = phase /\ d.at = s /\ d.fill = FALSE /\ d.reading = "rows"
      /\ d.after = 0 /\ d.seen = 0 /\ d.head = head /\ d.reads = NoReads
    BY Zenon DEF NoQuery, NULL
<1>3. phase \in {"bind", "deletes"}
    BY Zenon
<1>4. phase \in Phases /\ phase \notin {"registry", "rows", "head", "keep"}
    BY <1>3, Zenon DEF Phases
<1>5. TableExistsAt(s) /\ Goes(q, d) /\ memo' = memo /\ noted' = noted
    BY Zenon DEF Open
<1> HIDE DEF d, phase, head
<1>6. QueryShape(d)
    BY <1>1, <1>2, <1>4, NoAbsence, Zenon DEF QueryShape
<1>7. QueryOK(d)
    BY <1>1, <1>2, <1>4, <1>5, <1>6, Zenon DEF QueryOK
<1> QED
    BY <1>5, <1>7, QueryStepKeeps, Zenon DEF RInv

\* A bind drops the entries of an older head.
LEMMA BindKeeps ==
    ASSUME TableOK, RInv, UNCHANGED vars, NEW q \in Queries, Bind(q) PROVE RInv'
<1> DEFINE c == query[q]
           d == [c EXCEPT !.phase = "pick"]
           m == [memo EXCEPT !.head = c.head, !.tables = <<>>, !.noRoom = {}, !.bytes = 0]
<1>1. QueryOK(c) /\ MemoOK(memo) /\ c.phase = "bind"
    BY Zenon DEF RInv, Bind
<1>2. /\ DOMAIN d = DOMAIN NoQuery
      /\ d.phase = "pick" /\ d.at = c.at /\ d.fill = c.fill /\ d.reading = c.reading
      /\ d.after = c.after /\ d.seen = c.seen /\ d.head = c.head /\ d.reads = c.reads
    BY <1>1, Zenon DEF QueryOK, QueryShape, NoQuery
<1>3. QueryOK(d)
  <2> HIDE DEF c, d
  <2>1. "pick" \in Phases /\ "bind" \notin AtRest
      BY Zenon DEF Phases, AtRest
  <2>2. QueryShape(d)
      BY <1>1, <1>2, <2>1, Zenon DEF QueryOK, QueryShape
  <2>3. Progress(d)
      BY <1>2, Zenon DEF Progress
  <2> QED
      BY <1>1, <1>2, <2>1, <2>2, <2>3, Zenon DEF QueryOK
<1>4. MemoOK(m)
  <2>1. /\ DOMAIN m = DOMAIN EmptyMemo
        /\ m.head = c.head /\ m.tables = <<>> /\ m.absentThrough = memo.absentThrough
      BY <1>1, Zenon DEF MemoOK, EmptyMemo
  <2>2. DOMAIN m.tables = {}
      BY <2>1
  <2> HIDE DEF m, c
  <2> QED
      BY <1>1, <2>1, <2>2, Zenon DEF MemoOK, QueryOK, QueryShape
<1>5. MemoOK(memo') /\ Goes(q, d) /\ noted' = noted
    BY <1>1, <1>4, Zenon DEF Bind
<1> QED
    BY <1>3, <1>5, QueryStepKeeps, Zenon DEF RInv

\* A pick serves from an entry, or begins to fill one, or reads for itself.
LEMMA PickKeeps ==
    ASSUME TableOK, RInv, UNCHANGED vars, NEW q \in Queries, Pick(q) PROVE RInv'
<1> DEFINE c == query[q]
           same == memo.head = c.head
           fill == ~memo.tooLarge /\ ~(same /\ c.at \in memo.noRoom)
           d == [c EXCEPT !.phase = "serve", !.reads = memo.tables[c.at]]
           e == [c EXCEPT !.phase = "deletes", !.fill = fill]
<1>1. QueryOK(c) /\ MemoOK(memo) /\ c.phase = "pick" /\ memo' = memo /\ noted' = noted
    BY Zenon DEF RInv, Pick
<1>2. "serve" \in Phases /\ "deletes" \in Phases /\ "pick" \notin AtRest
    BY Zenon DEF Phases, AtRest
<1>3. ASSUME c.at \in DOMAIN memo.tables PROVE QueryOK(d)
  <2>1. /\ DOMAIN d = DOMAIN NoQuery
        /\ d.phase = "serve" /\ d.at = c.at /\ d.fill = c.fill /\ d.reading = c.reading
        /\ d.after = c.after /\ d.seen = c.seen /\ d.head = c.head
        /\ d.reads = memo.tables[c.at]
      BY <1>1, Zenon DEF QueryOK, QueryShape, NoQuery
  <2> HIDE DEF c, d
  <2>2. ReadsShape(d.reads)
      BY <1>1, <1>3, <2>1, Zenon DEF MemoOK
  <2>3. QueryShape(d)
      BY <1>1, <1>2, <2>1, <2>2, Zenon DEF QueryOK, QueryShape
  <2>4. Progress(d)
      BY <2>1, Zenon DEF Progress
  <2> QED
      BY <1>1, <1>2, <2>1, <2>3, <2>4, Zenon DEF QueryOK
<1>4. QueryOK(e)
  <2>1. /\ DOMAIN e = DOMAIN NoQuery
        /\ e.phase = "deletes" /\ e.at = c.at /\ e.fill \in BOOLEAN /\ e.reading = c.reading
        /\ e.after = c.after /\ e.seen = c.seen /\ e.head = c.head /\ e.reads = c.reads
      BY <1>1, Zenon DEF QueryOK, QueryShape, NoQuery
  <2> HIDE DEF c, e
  <2>3. QueryShape(e)
      BY <1>1, <1>2, <2>1, Zenon DEF QueryOK, QueryShape
  <2>4. Progress(e)
      BY <2>1, Zenon DEF Progress
  <2> QED
      BY <1>1, <1>2, <2>1, <2>3, <2>4, Zenon DEF QueryOK
<1>5. (Goes(q, d) /\ c.at \in DOMAIN memo.tables) \/ Goes(q, e)
    BY Zenon DEF Pick
<1> QED
    BY <1>1, <1>3, <1>4, <1>5, QueryStepKeeps, Zenon DEF RInv

\* What a table notes holds.
LEMMA NotedOK ==
    ASSUME TableOK, RInv, NEW c, c.at \in Nat, NEW reads, AbsenceHolds(reads.absent)
    PROVE  \A s \in NotedAfter(c, reads) : AbsenceHolds(s)
<1>1. c.at <= reads.absent => c.at \in 0 .. reads.absent
    BY HeadNumber DEF AbsenceHolds
<1>2. c.at <= reads.absent => AbsenceHolds(c.at)
    BY <1>1, AbsenceBelow, Zenon
<1> QED
    BY <1>2, Zenon DEF NotedAfter, RInv

\* A scan served from the memo, or from its fill, notes an absence that holds.
LEMMA ServeKeeps ==
    ASSUME TableOK, RInv, UNCHANGED vars, NEW q \in Queries, Serve(q) PROVE RInv'
<1> DEFINE c == query[q]
           reads == IF c.at \in noted THEN [c.reads EXCEPT !.rows = {}] ELSE c.reads
           d == Done(c, reads)
<1>1. QueryOK(c) /\ Goes(q, d) /\ memo' = memo /\ noted' = NotedAfter(c, c.reads)
    BY Zenon DEF RInv, Serve
<1>2. c.at \in Nat /\ AbsenceHolds(c.reads.absent)
    BY <1>1, Zenon DEF QueryOK, QueryShape, ReadsShape
<1>3. \A s \in noted' : AbsenceHolds(s)
    BY <1>1, <1>2, NotedOK, Zenon
<1>4. QueryOK(d)
    BY <1>2, DoneOK, Zenon
<1> QED
    BY <1>1, <1>3, <1>4, QueryStepKeeps, Zenon DEF RInv

\* The head read at the end of a fill changes nothing the fill has read.
LEMMA ReadHeadKeeps ==
    ASSUME TableOK, RInv, UNCHANGED vars, NEW q \in Queries, ReadHead(q) PROVE RInv'
<1> DEFINE c == query[q]
           d == [c EXCEPT !.phase = "keep", !.unmoved = Unmoved(c)]
<1>1. /\ QueryOK(c) /\ c.phase = "head" /\ Goes(q, d)
      /\ memo' = memo /\ noted' = noted
    BY Zenon DEF RInv, ReadHead
<1>2. /\ DOMAIN d = DOMAIN NoQuery
      /\ d.phase = "keep" /\ d.at = c.at /\ d.fill = c.fill /\ d.reading = c.reading
      /\ d.after = c.after /\ d.seen = c.seen /\ d.head = c.head /\ d.reads = c.reads
    BY <1>1, Zenon DEF QueryOK, QueryShape, NoQuery
<1> HIDE DEF c, d
<1>3. "keep" \in Phases /\ "head" \notin AtRest
    BY Zenon DEF Phases, AtRest
<1>4. QueryShape(d)
    BY <1>1, <1>2, <1>3, Zenon DEF QueryOK, QueryShape
<1>5. Progress(c) => Progress(d)
    BY <1>1, <1>2, Zenon DEF Progress, Whole
<1>6. QueryOK(d)
    BY <1>1, <1>2, <1>3, <1>4, <1>5, Zenon DEF QueryOK
<1> QED
    BY <1>1, <1>6, QueryStepKeeps, Zenon DEF RInv

\* The memo keeps a fill only at the head it was bound at.
LEMMA KeepKeeps ==
    ASSUME TableOK, RInv, UNCHANGED vars, NEW q \in Queries, Keep(q) PROVE RInv'
<1> DEFINE c == query[q]
           same  == memo.head = c.head
           other == same /\ c.at \in DOMAIN memo.tables
           reads == IF other THEN memo.tables[c.at] ELSE c.reads
           split == c.split /\ ~other
           bytes == memo.bytes + Size(reads)
           tables == [s \in DOMAIN memo.tables \cup {c.at} |->
                         IF s = c.at THEN reads ELSE memo.tables[s]]
           d == [c EXCEPT !.phase = "serve", !.reads = reads, !.split = split]
           m == [memo EXCEPT !.bytes = bytes, !.tables = tables]
           n == [memo EXCEPT !.noRoom = memo.noRoom \cup {c.at}]
<1>1. /\ QueryOK(c) /\ MemoOK(memo) /\ c.phase = "keep" /\ noted' = noted
      /\ DOMAIN memo = DOMAIN EmptyMemo
    BY Zenon DEF RInv, Keep, MemoOK
<1>2. Goes(q, d)
    BY Zenon DEF Keep
<1>3. memo' = memo \/ memo' = n \/ (memo' = m /\ same /\ ~other)
  <2>1. "bytes" \in DOMAIN memo /\ "tables" \in DOMAIN memo /\ "noRoom" \in DOMAIN memo
      BY <1>1, Zenon DEF EmptyMemo
  <2> QED
      BY <2>1, Zenon DEF Keep
<1>4. ReadsShape(reads)
    BY <1>1, Zenon DEF QueryOK, QueryShape, MemoOK
<1>5. /\ DOMAIN d = DOMAIN NoQuery
      /\ d.phase = "serve" /\ d.at = c.at /\ d.fill = c.fill /\ d.reading = c.reading
      /\ d.after = c.after /\ d.seen = c.seen /\ d.head = c.head /\ d.reads = reads
  <2> HIDE DEF split, reads
  <2> QED
      BY <1>1, Zenon DEF QueryOK, QueryShape, NoQuery
<1>6. /\ DOMAIN m = DOMAIN EmptyMemo /\ m.head = memo.head
      /\ m.absentThrough = memo.absentThrough /\ m.tables = tables
  <2> HIDE DEF tables, bytes
  <2> QED
      BY <1>1, Zenon DEF EmptyMemo
<1>7. /\ DOMAIN n = DOMAIN EmptyMemo /\ n.head = memo.head
      /\ n.absentThrough = memo.absentThrough /\ n.tables = memo.tables
    BY <1>1, Zenon DEF EmptyMemo
<1>8. "serve" \in Phases /\ "keep" \notin AtRest
    BY Zenon DEF Phases, AtRest
<1>9. QueryOK(d)
  <2> HIDE DEF c, d, reads
  <2>1. QueryShape(d)
      BY <1>1, <1>4, <1>5, <1>8, Zenon DEF QueryOK, QueryShape
  <2>2. Progress(d)
      BY <1>5, Zenon DEF Progress
  <2> QED
      BY <1>1, <1>5, <1>8, <2>1, <2>2, Zenon DEF QueryOK
<1>10. MemoOK(n)
  <2> HIDE DEF n
  <2> QED
      BY <1>1, <1>7, Zenon DEF MemoOK
<1>11. ASSUME same, ~other PROVE MemoOK(m)
  <2>1. reads = c.reads
      BY <1>11, Zenon
  <2>2. c.at \in 0 .. Head /\ TableExistsAt(c.at)
      BY <1>1, <1>8, Zenon DEF QueryOK
  <2>3. memo.head = Head /\ c.at \in snapshots => Whole(reads, c.at)
      BY <1>1, <1>11, <2>1, Zenon DEF QueryOK, Progress
  <2> HIDE DEF m, c, reads, same, other
  <2>4. ASSUME NEW s \in DOMAIN m.tables
        PROVE  /\ s \in 0 .. Head /\ TableExistsAt(s) /\ ReadsShape(m.tables[s])
               /\ m.head = Head /\ s \in snapshots => Whole(m.tables[s], s)
    <3>1. CASE s = c.at
        BY <1>4, <1>6, <2>2, <2>3, <2>4, <3>1, Zenon
    <3>2. CASE s # c.at
      <4>1. s \in DOMAIN memo.tables /\ m.tables[s] = memo.tables[s]
          BY <1>6, <2>4, <3>2, Zenon
      <4> QED
          BY <1>1, <1>6, <4>1, Zenon DEF MemoOK
    <3> QED
        BY <3>1, <3>2, Zenon
  <2> QED
      BY <1>1, <1>6, <2>4, Zenon DEF MemoOK
<1>12. MemoOK(memo')
    BY <1>1, <1>3, <1>10, <1>11, Zenon
<1> QED
    BY <1>1, <1>2, <1>9, <1>12, QueryStepKeeps, Zenon DEF RInv

-----------------------------------------------------------------------------
\* The reads of a scan, statement by statement.

\* A fill beyond the budget gives up, and its query begins again without it.
LEMMA ContinuedOK ==
    ASSUME TableOK, RInv, NEW c, QueryOK(c), c.phase \notin AtRest
    PROVE  QueryOK(Continued(c))
<1> DEFINE d == [c EXCEPT !.phase = "deletes", !.fill = FALSE, !.reads = NoReads,
                     !.reading = "rows", !.after = 0, !.attempt = 1]
<1>1. /\ DOMAIN d = DOMAIN NoQuery
      /\ d.phase = "deletes" /\ d.at = c.at /\ d.fill = FALSE /\ d.reading = "rows"
      /\ d.after = 0 /\ d.seen = c.seen /\ d.head = c.head /\ d.reads = NoReads
    BY Zenon DEF QueryOK, QueryShape, NoQuery
<1>2. "deletes" \in Phases /\ 0 \in Nat
    BY Zenon DEF Phases
<1>3. QueryOK(d)
  <2> HIDE DEF d
  <2>1. QueryShape(d)
      BY <1>1, <1>2, NoAbsence, Zenon DEF QueryOK, QueryShape
  <2> QED
      BY <1>1, <2>1, Zenon DEF QueryOK
<1> QED
    BY <1>3, Zenon DEF Continued

\* A memo that finds a listing too large keeps its entries.
LEMMA MemoKeptOK ==
    ASSUME NEW m, MemoOK(m), NEW c PROVE MemoOK(Kept(m, c))
<1> DEFINE n == [m EXCEPT !.tooLarge = TRUE]
<1>1. /\ DOMAIN n = DOMAIN EmptyMemo /\ n.head = m.head
      /\ n.absentThrough = m.absentThrough /\ n.tables = m.tables
    BY Zenon DEF MemoOK, EmptyMemo
<1>2. MemoOK(n)
  <2> HIDE DEF n
  <2> QED
      BY <1>1, Zenon DEF MemoOK
<1> QED
    BY <1>2, Zenon DEF Kept

\* A step of a fill or a scan that reads and goes on.
LEMMA ReadGoesOn ==
    ASSUME TableOK, RInv, UNCHANGED vars, NEW q \in Queries, NEW next, QueryOK(next),
           next.phase \notin AtRest, Goes(q, Continued(next)),
           NEW m, MemoOK(m), NEW c, memo' = Kept(m, c), \A s \in noted' : AbsenceHolds(s)
    PROVE  RInv'
<1>1. QueryOK(Continued(next)) /\ MemoOK(memo')
    BY ContinuedOK, MemoKeptOK, Zenon
<1> QED
    BY <1>1, QueryStepKeeps, Zenon

\* get_inlined_deletes.
LEMMA ReadDeletesKeeps ==
    ASSUME TableOK, RInv, UNCHANGED vars, NEW q \in Queries, ReadDeletes(q) PROVE RInv'
<1> DEFINE c == query[q]
           D == DeletesRead(c.at)
           reading == IF c.rowIds /\ ~c.fill THEN "ids" ELSE "rows"
           next == [c EXCEPT !.phase = "registry", !.reads.deletes = D, !.reading = reading]
<1>1. /\ QueryOK(c) /\ MemoOK(memo) /\ c.phase = "deletes"
      /\ Goes(q, Continued(next)) /\ memo' = Kept(memo, next) /\ noted' = noted
    BY Zenon DEF RInv, ReadDeletes
<1>2. DOMAIN c = DOMAIN NoQuery /\ c.reads = NoReads /\ c.after = 0
    BY <1>1, Zenon DEF QueryOK, QueryShape
<1>3. reading \in {"rows", "ids"} /\ (c.fill => reading = "rows")
    BY Zenon
<1>4. /\ DOMAIN next = DOMAIN NoQuery
      /\ next.phase = "registry" /\ next.at = c.at /\ next.fill = c.fill
      /\ next.reading = reading /\ next.after = c.after /\ next.seen = c.seen
      /\ next.head = c.head /\ next.reads = [NoReads EXCEPT !.deletes = D]
  <2> HIDE DEF D, reading, c
  <2> QED
      BY <1>2, Zenon DEF NoQuery
<1>5. /\ DOMAIN next.reads = DOMAIN NoReads /\ next.reads.deletes = D
      /\ next.reads.rows = {} /\ next.reads.files = {} /\ next.reads.absent = 0
  <2> HIDE DEF D, next
  <2> QED
      BY <1>4, Zenon DEF NoReads, NULL
<1>6. "registry" \in Phases /\ "registry" \notin AtRest /\ "deletes" \notin AtRest
    BY Zenon DEF Phases, AtRest
<1> HIDE DEF c, next, reading
<1>7. QueryShape(next)
    BY <1>1, <1>3, <1>4, <1>5, <1>6, NoAbsence, Zenon DEF QueryOK, QueryShape, ReadsShape
<1>8. next.fill => Progress(next)
    BY <1>3, <1>4, <1>5, Zenon DEF Progress
<1>9. QueryOK(next)
    BY <1>1, <1>2, <1>4, <1>5, <1>6, <1>7, <1>8, Zenon DEF QueryOK
<1> QED
    BY <1>1, <1>4, <1>6, <1>9, ReadGoesOn, Zenon DEF RInv

\* A known absence is an empty read.
LEMMA AbsentRows ==
    ASSUME TableOK, NEW x, AbsenceHolds(x), NEW s \in Nat, s <= x
    PROVE  StoredInlinedAt(s) = {}
<1>1. Head \in Nat /\ \A r \in inlinedRow : r.begin \in Nat
    BY HeadNumber, Zenon DEF TableOK
<1>2. \A r \in inlinedRow : ~VisibleAt(r, s)
    BY <1>1 DEF AbsenceHolds, NoRowThrough, VisibleAt
<1> QED
    BY <1>2, Zenon DEF StoredInlinedAt

\* No file of the listing has been read yet.
LEMMA NothingListed ==
    ASSUME TableOK, NEW s PROVE ListedThrough(0, s) = {}
<1>1. \A f \in DataFilesAt(s) : ~(f <= 0)
    BY HeadNumber DEF TableOK, DataFilesAt
<1> QED
    BY <1>1, Zenon DEF ListedThrough

\* The registry, or the absence the memo knows of.
LEMMA ReadRegistryKeeps ==
    ASSUME TableOK, RInv, UNCHANGED vars, NEW q \in Queries, ReadRegistry(q) PROVE RInv'
<1> DEFINE c == query[q]
           absent == IF c.fill THEN memo.absentThrough ELSE NULL
           d == [c EXCEPT !.phase = "page", !.reads.absent = absent]
           e == [c EXCEPT !.phase = "rows", !.seen = NextFileId]
<1>1. /\ QueryOK(c) /\ MemoOK(memo) /\ c.phase = "registry" /\ memo' = memo /\ noted' = noted
      /\ \/ Goes(q, d) /\ c.reading = "rows" /\ KnownAbsent(c)
         \/ Goes(q, e)
    BY Zenon DEF RInv, ReadRegistry
<1>2. /\ "page" \in Phases /\ "rows" \in Phases
      /\ "page" \notin AtRest /\ "rows" \notin AtRest /\ "registry" \notin AtRest
    BY Zenon DEF Phases, AtRest
<1>3. DOMAIN c = DOMAIN NoQuery /\ DOMAIN c.reads = DOMAIN NoReads
    BY <1>1, Zenon DEF QueryOK, QueryShape, ReadsShape
<1>4. ASSUME c.reading = "rows", KnownAbsent(c) PROVE QueryOK(d)
  <2>1. /\ DOMAIN d = DOMAIN NoQuery
        /\ d.phase = "page" /\ d.at = c.at /\ d.fill = c.fill /\ d.reading = c.reading
        /\ d.after = c.after /\ d.seen = c.seen /\ d.head = c.head
        /\ d.reads = [c.reads EXCEPT !.absent = absent]
    <3> HIDE DEF c, absent
    <3> QED
        BY <1>3, Zenon DEF NoQuery
  <2>2. /\ DOMAIN d.reads = DOMAIN NoReads /\ d.reads.deletes = c.reads.deletes
        /\ d.reads.rows = c.reads.rows /\ d.reads.files = c.reads.files
        /\ d.reads.absent = absent
    <3> HIDE DEF c, d, absent
    <3> QED
        BY <1>3, <2>1, Zenon DEF NoReads
  <2>3. AbsenceHolds(absent)
      BY <1>1, NoAbsence, Zenon DEF MemoOK, NULL
  <2>4. c.fill => StoredInlinedAt(c.at) = {}
      BY <1>1, <1>4, AbsentRows, Zenon DEF KnownAbsent, MemoOK, QueryOK, QueryShape
  <2>5. ListedThrough(0, c.at) = {}
      BY NothingListed, Zenon
  <2> HIDE DEF c, d, absent
  <2>6. QueryShape(d)
      BY <1>1, <1>2, <2>1, <2>2, <2>3, Zenon DEF QueryOK, QueryShape, ReadsShape
  <2>7. ASSUME c.fill, Progress(c) PROVE Progress(d)
    <3>1. c.reads.deletes = DeletesRead(c.at) /\ c.reads.rows = {}
        BY <1>1, <1>4, <2>7, Zenon DEF Progress
    <3>2. c.reads.files = {} /\ c.after = 0
        BY <1>1, Zenon DEF QueryOK
    <3>3. /\ d.reads.deletes = DeletesRead(d.at) /\ d.reads.rows = StoredInlinedAt(d.at)
          /\ d.reads.files = ListedThrough(d.after, d.at)
        BY <2>1, <2>2, <2>4, <2>5, <2>7, <3>1, <3>2
    <3> QED
        BY <2>1, <3>3, Zenon DEF Progress
  <2> QED
      BY <1>1, <1>2, <2>1, <2>6, <2>7, Zenon DEF QueryOK
<1>5. QueryOK(e)
  <2>1. /\ DOMAIN e = DOMAIN NoQuery
        /\ e.phase = "rows" /\ e.at = c.at /\ e.fill = c.fill /\ e.reading = c.reading
        /\ e.after = c.after /\ e.seen = NextFileId /\ e.head = c.head /\ e.reads = c.reads
    <3> HIDE DEF c
    <3> QED
        BY <1>3, Zenon DEF NoQuery
  <2>2. NextFileId \in Nat /\ NextFileId # 0
      BY HeadNumber DEF NextFileId
  <2> HIDE DEF c, e
  <2>3. QueryShape(e)
      BY <1>1, <1>2, <2>1, <2>2, Zenon DEF QueryOK, QueryShape
  <2>4. Progress(c) => Progress(e)
      BY <1>1, <2>1, Zenon DEF Progress
  <2> QED
      BY <1>1, <1>2, <2>1, <2>2, <2>3, <2>4, Zenon DEF QueryOK
<1> QED
    BY <1>1, <1>4, <1>5, QueryStepKeeps, Zenon DEF RInv

\* The absence a read reports holds: scan_inlined_data_on saw no row by it.
LEMMA ReportedAbsence ==
    ASSUME TableOK, RInv, NEW c, c.at \in 0 .. Head, c.seen \in Nat, c.seen # 0
    PROVE  AbsenceHolds(AbsentThrough(c))
<1> DEFINE through == Lower(c.at, c.seen - 1)
<1>1. Head \in Nat /\ AbsenceHolds(0)
    BY HeadNumber, NoAbsence, Zenon
<1>2. through \in 0 .. Head
    BY <1>1 DEF Lower
<1> HIDE DEF through
<1>3. NoRowThrough(through) => AbsenceHolds(through)
    BY <1>2, Zenon DEF AbsenceHolds
<1>4. AbsentThrough(c) \in {through, 0} /\ (AbsentThrough(c) # 0 => NoRowThrough(through))
    BY Zenon DEF AbsentThrough, through, NULL
<1> QED
    BY <1>1, <1>3, <1>4, Zenon

\* The memo raises the absence it knows of to one that was reported.
LEMMA RaisedOK ==
    ASSUME NEW m, MemoOK(m), NEW x, AbsenceHolds(x)
    PROVE  MemoOK([m EXCEPT !.absentThrough = Higher(m.absentThrough, x)])
<1> DEFINE higher == Higher(m.absentThrough, x)
           n == [m EXCEPT !.absentThrough = higher]
<1>1. AbsenceHolds(higher)
    BY Zenon DEF MemoOK, Higher
<1> HIDE DEF higher
<1>2. /\ DOMAIN n = DOMAIN EmptyMemo /\ n.head = m.head
      /\ n.absentThrough = higher /\ n.tables = m.tables
    BY Zenon DEF MemoOK, EmptyMemo
<1>3. MemoOK(n)
  <2> HIDE DEF n
  <2> QED
      BY <1>1, <1>2, Zenon DEF MemoOK
<1> QED
    BY <1>3, Zenon DEF n, higher

\* The rows of the inlined tables, without and then with row ids.
LEMMA ReadRowsKeeps ==
    ASSUME TableOK, RInv, UNCHANGED vars, NEW q \in Queries, ReadRows(q) PROVE RInv'
<1> DEFINE c == query[q]
           R == StoredInlinedAt(c.at)
           absent == AbsentThrough(c)
           after == IF R = {} \/ c.reads.next # NULL THEN c.reads.next ELSE c.seen
           known == IF absent = NULL THEN c.reads.absent ELSE absent
           reads == [c.reads EXCEPT ![c.reading] = R, !.next = after, !.absent = known]
           again == c.fill /\ c.reading = "rows" /\ (absent = NULL \/ c.at > absent)
           phase == IF again THEN "registry" ELSE "page"
           reading == IF again THEN "ids" ELSE c.reading
           next == [c EXCEPT !.reads = reads, !.phase = phase, !.reading = reading]
           m == IF c.fill /\ absent # NULL
                THEN [memo EXCEPT !.absentThrough = Higher(memo.absentThrough, absent)]
                ELSE memo
<1>1. /\ QueryOK(c) /\ MemoOK(memo) /\ c.phase = "rows"
      /\ Goes(q, Continued(next)) /\ memo' = Kept(m, next)
      /\ noted' = IF c.fill THEN noted ELSE NotedAfter(c, reads)
    BY Zenon DEF RInv, ReadRows
<1>2. /\ {"registry", "page"} \subseteq Phases
      /\ "registry" \notin AtRest /\ "page" \notin AtRest /\ "rows" \notin AtRest
    BY Zenon DEF Phases, AtRest
<1>3. /\ DOMAIN c = DOMAIN NoQuery /\ DOMAIN c.reads = DOMAIN NoReads
      /\ c.reading \in {"rows", "ids"} /\ c.at \in 0 .. Head /\ c.at \in Nat
      /\ c.seen \in Nat /\ c.seen # 0 /\ c.reads.files = {} /\ c.after = 0
      /\ AbsenceHolds(c.reads.absent)
    BY <1>1, <1>2, Zenon DEF QueryOK, QueryShape, ReadsShape
<1>4. AbsenceHolds(absent) /\ AbsenceHolds(known)
    BY <1>3, ReportedAbsence, Zenon
<1>5. /\ DOMAIN next = DOMAIN NoQuery
      /\ next.phase = phase /\ next.at = c.at /\ next.fill = c.fill
      /\ next.reading = reading /\ next.after = c.after /\ next.seen = c.seen
      /\ next.head = c.head /\ next.reads = reads
  <2> HIDE DEF c, reads, phase, reading
  <2> QED
      BY <1>3, Zenon DEF NoQuery
<1>6. /\ DOMAIN reads = DOMAIN NoReads /\ reads.deletes = c.reads.deletes
      /\ reads.files = {} /\ reads.absent = known
      /\ reads.rows = IF c.reading = "rows" THEN R ELSE c.reads.rows
  <2> HIDE DEF c, R, known, after
  <2> QED
      BY <1>3, Zenon DEF NoReads
<1>7. /\ phase \in {"registry", "page"} /\ reading \in {"rows", "ids"}
      /\ phase = "registry" => c.reading = "rows" /\ reading = "ids"
    BY <1>3, Zenon
<1> HIDE DEF c, R, reads, phase, reading, again, next, absent, known
<1>8. QueryShape(next)
    BY <1>1, <1>2, <1>4, <1>5, <1>6, <1>7, Zenon DEF QueryOK, QueryShape, ReadsShape
<1>9. ASSUME Progress(c) PROVE Progress(next)
  <2>1. next.reads.deletes = DeletesRead(next.at)
      BY <1>1, <1>5, <1>6, <1>9, Zenon DEF Progress
  <2>2. next.reads.rows = StoredInlinedAt(next.at)
    <3>1. CASE c.reading = "rows"
        BY <1>5, <1>6, <3>1, Zenon DEF R
    <3>2. CASE c.reading # "rows"
        BY <1>1, <1>5, <1>6, <1>9, <3>2, Zenon DEF Progress
    <3> QED
        BY <3>1, <3>2, Zenon
  <2>3. next.reads.files = ListedThrough(next.after, next.at)
      BY <1>3, <1>5, <1>6, NothingListed, Zenon
  <2>4. next.phase \in {"registry", "page"} /\ (next.phase = "registry" => next.reading # "rows")
      BY <1>5, <1>7, Zenon
  <2> QED
      BY <2>1, <2>2, <2>3, <2>4, Zenon DEF Progress
<1>10. QueryOK(next)
  <2>1. next.phase \in {"registry", "page"} /\ next.phase \notin AtRest
      BY <1>2, <1>5, <1>7, Zenon
  <2>2. next.phase \notin {"bind", "pick", "deletes", "rows", "head", "keep"}
      BY <2>1, Zenon
  <2> QED
      BY <1>1, <1>2, <1>3, <1>5, <1>6, <1>8, <1>9, <2>1, <2>2, Zenon DEF QueryOK
<1>11. MemoOK(m)
    BY <1>1, <1>4, RaisedOK, Zenon
<1>12. \A s \in noted' : AbsenceHolds(s)
  <2>1. \A s \in NotedAfter(c, reads) : AbsenceHolds(s)
      BY <1>3, <1>4, <1>6, NotedOK, Zenon
  <2> QED
      BY <1>1, <2>1, Zenon DEF RInv
<1>13. next.phase \notin AtRest
    BY <1>2, <1>5, <1>7, Zenon
<1> QED
    BY <1>1, <1>10, <1>11, <1>12, <1>13, ReadGoesOn, Zenon

\* A nonempty set of naturals has a least element, and Least is it.
LEMMA LeastIsNat ==
    ASSUME NEW S, S \subseteq Nat, S # {}
    PROVE  Least(S) \in S /\ \A y \in S : Least(S) <= y
<1>1. PICK x \in S : \A y \in S : ~(<<y, x>> \in OpToRel(<, Nat))
    BY NatLessThanWellFounded, WFMin, Zenon
<1>2. \A y \in Nat : y < x => <<y, x>> \in OpToRel(<, Nat)
    BY Zenon DEF OpToRel
<1>3. \A y \in S : ~(y < x)
    BY <1>1, <1>2, Zenon
<1>4. \A y \in S : x <= y
    BY <1>3
<1> QED
    BY <1>4, Zenon DEF Least

\* A bounded nonempty set of naturals has a greatest element, and Greatest is it.
LEMMA GreatestIsNat ==
    ASSUME NEW S, S \subseteq Nat, S # {}, NEW B \in Nat, \A y \in S : y <= B
    PROVE  Greatest(S) \in S /\ \A y \in S : y <= Greatest(S)
<1> DEFINE U == {n \in Nat : \A y \in S : y <= n}
<1>1. U \subseteq Nat /\ U # {}
    BY Zenon
<1>2. Least(U) \in U /\ \A n \in U : Least(U) <= n
    BY <1>1, LeastIsNat, Zenon
<1> DEFINE m == Least(U)
<1>3. m \in Nat /\ \A y \in S : y <= m
    BY <1>2, Zenon
<1>4. m \in S
  <2>1. SUFFICES ASSUME m \notin S PROVE FALSE
      BY Zenon
  <2>2. \A y \in S : y <= m - 1
      BY <1>3, <2>1
  <2>3. m - 1 \in Nat
    <3>1. PICK y \in S : TRUE
        BY Zenon
    <3>2. y \in Nat /\ y <= m - 1
        BY <2>2, Zenon
    <3> QED
        BY <1>3, <3>2
  <2>4. m - 1 \in U
      BY <2>2, <2>3, Zenon
  <2> QED
      BY <1>2, <1>3, <2>4
<1> QED
    BY <1>3, <1>4, Zenon DEF Greatest

\* A page of the listing is its next files in order, and a short one the last.
LEMMA PageIsNext ==
    ASSUME TableOK, NEW s, NEW after \in Nat
    PROVE  /\ Page(after, s) \subseteq {f \in DataFilesAt(s) : f > after}
           /\ Cardinality(Page(after, s)) < PageSize =>
                  Page(after, s) = {f \in DataFilesAt(s) : f > after}
           /\ Page(after, s) # {} =>
                  /\ Greatest(Page(after, s)) \in Nat
                  /\ \A f \in DataFilesAt(s) :
                        f <= Greatest(Page(after, s)) <=> f <= after \/ f \in Page(after, s)
<1> DEFINE F == {f \in DataFilesAt(s) : f > after}
           below(f) == {g \in F : g < f}
           P == Page(after, s)
<1>1. Head \in Nat /\ PageSize \in Nat
    BY HeadNumber, ReadAssumption, Zenon
<1>2. \A f \in DataFilesAt(s) : f \in 1 .. Head
    BY Zenon DEF TableOK, DataFilesAt
<1>3. F \subseteq 1 .. Head /\ F \subseteq Nat
    BY <1>1, <1>2
<1>4. P \subseteq F /\ \A f \in F : f \in P <=> Cardinality(below(f)) < PageSize
    BY Zenon DEF Page
<1> HIDE DEF F, P
<1>5. \A A, B : A \subseteq B /\ B \subseteq F =>
          Cardinality(A) \in Nat /\ Cardinality(B) \in Nat /\ Cardinality(A) <= Cardinality(B)
  <2> SUFFICES ASSUME NEW A, NEW B, A \subseteq B, B \subseteq F
               PROVE  /\ Cardinality(A) \in Nat /\ Cardinality(B) \in Nat
                      /\ Cardinality(A) <= Cardinality(B)
      BY Zenon
  <2>1. IsFiniteSet(1 .. Head)
      BY <1>1, FS_Interval
  <2>2. IsFiniteSet(B)
      BY <1>3, <2>1, FS_Subset, Zenon
  <2> QED
      BY <2>2, FS_Subset, FS_CardinalityType, Zenon
<1>6. ASSUME Cardinality(P) < PageSize PROVE P = F
  <2> SUFFICES ASSUME F \ P # {} PROVE FALSE
      BY <1>4, Zenon
  <2> DEFINE least == Least(F \ P)
  <2>1. least \in F \ P /\ \A y \in F \ P : least <= y
    <3>1. F \ P \subseteq Nat
        BY <1>3, Zenon
    <3> QED
        BY <3>1, LeastIsNat, Zenon
  <2> HIDE DEF least
  <2>2. below(least) \subseteq P
    <3> SUFFICES ASSUME NEW g \in F, g < least PROVE g \in P
        BY Zenon
    <3>1. g \in Nat /\ least \in Nat /\ (g \notin P => least <= g)
        BY <1>3, <2>1, Zenon
    <3> QED
        BY <3>1
  <2>3. Cardinality(below(least)) <= Cardinality(P) /\ Cardinality(below(least)) \in Nat
        /\ Cardinality(P) \in Nat
      BY <1>4, <1>5, <2>2, Zenon
  <2>4. ~(Cardinality(below(least)) < PageSize)
      BY <1>4, <2>1, Zenon
  <2> QED
      BY <1>1, <1>6, <2>3, <2>4
<1>7. ASSUME P # {}
      PROVE  /\ Greatest(P) \in Nat
             /\ \A f \in DataFilesAt(s) : f <= Greatest(P) <=> f <= after \/ f \in P
  <2> DEFINE last == Greatest(P)
  <2>1. last \in P /\ \A y \in P : y <= last
    <3>1. P \subseteq Nat /\ \A y \in P : y <= Head
        BY <1>3, <1>4
    <3> QED
        BY <1>1, <1>7, <3>1, GreatestIsNat, Zenon
  <2> HIDE DEF last
  <2>2. last \in Nat /\ after < last /\ last \in F
      BY <1>3, <1>4, <2>1, Zenon DEF F
  <2>3. ASSUME NEW f \in F, f <= last PROVE f \in P
    <3>1. below(f) \subseteq below(last) /\ below(last) \subseteq F
      <4>1. \A g \in F : g < f => g < last
          BY <1>3, <2>2, <2>3
      <4> QED
          BY <4>1, Zenon
    <3>2. /\ Cardinality(below(f)) \in Nat /\ Cardinality(below(last)) \in Nat
          /\ Cardinality(below(f)) <= Cardinality(below(last))
        BY <1>5, <3>1, Zenon
    <3>3. Cardinality(below(last)) < PageSize
        BY <1>4, <2>1, <2>2, Zenon
    <3>4. Cardinality(below(f)) < PageSize
        BY <1>1, <3>2, <3>3
    <3> QED
        BY <1>4, <2>3, <3>4, Zenon
  <2>4. ASSUME NEW f \in DataFilesAt(s) PROVE f <= last <=> f <= after \/ f \in P
    <3>1. f \in Nat /\ (f \in F <=> f > after)
        BY <1>1, <1>2, <2>4 DEF F
    <3> QED
        BY <1>4, <2>1, <2>2, <2>3, <3>1
  <2> QED
      BY <2>2, <2>4, Zenon DEF last
<1> QED
    BY <1>4, <1>6, <1>7, Zenon DEF P, F

\* A page of the listing; after a file newer than the rows, the rows again.
LEMMA ReadAgainOK ==
    ASSUME TableOK, RInv, NEW c, QueryOK(c), c.phase = "page" PROVE QueryOK(Again(c))
<1> DEFINE reading == IF c.rowIds /\ ~c.fill THEN "ids" ELSE "rows"
           reads == [NoReads EXCEPT !.deletes = c.reads.deletes]
           d == [c EXCEPT !.phase = "registry", !.attempt = c.attempt + 1, !.after = 0,
                     !.reads = reads, !.reading = reading]
           e == [NoQuery EXCEPT !.phase = "failed", !.scans = c.scans]
<1>1. Again(c) = d \/ Again(c) = e
    BY Zenon DEF Again
<1>2. /\ "registry" \in Phases /\ "registry" \notin AtRest /\ "page" \notin AtRest
      /\ "failed" \in AtRest /\ 0 \in Nat
    BY Zenon DEF Phases, AtRest
<1>3. reading \in {"rows", "ids"} /\ (c.fill => reading = "rows")
    BY Zenon
<1>4. /\ DOMAIN d = DOMAIN NoQuery
      /\ d.phase = "registry" /\ d.at = c.at /\ d.fill = c.fill /\ d.reading = reading
      /\ d.after = 0 /\ d.seen = c.seen /\ d.head = c.head /\ d.reads = reads
  <2> HIDE DEF reading, reads
  <2> QED
      BY Zenon DEF QueryOK, QueryShape, NoQuery
<1>5. /\ DOMAIN reads = DOMAIN NoReads /\ reads.deletes = c.reads.deletes
      /\ reads.rows = {} /\ reads.files = {} /\ reads.absent = 0
    BY Zenon DEF NoReads, NULL
<1>6. QueryOK(d)
  <2> HIDE DEF d, reads, reading
  <2>1. QueryShape(d)
      BY <1>2, <1>3, <1>4, <1>5, NoAbsence, Zenon DEF QueryOK, QueryShape, ReadsShape
  <2>2. c.fill /\ Progress(c) => Progress(d)
      BY <1>3, <1>4, <1>5, Zenon DEF Progress
  <2> QED
      BY <1>2, <1>4, <1>5, <2>1, <2>2, Zenon DEF QueryOK
<1>7. QueryOK(e)
  <2>1. /\ DOMAIN e = DOMAIN NoQuery
        /\ e.phase = "failed" /\ e.at = 0 /\ e.fill = FALSE /\ e.reading = "rows"
        /\ e.after = 0 /\ e.seen = 0 /\ e.head = 0 /\ e.reads = NoReads
      BY Zenon DEF NoQuery, NULL
  <2> HIDE DEF e
  <2> QED
      BY <1>2, <2>1, RestOK, Zenon
<1> QED
    BY <1>1, <1>6, <1>7, Zenon

\* get_table_file_metadata_page: the next page extends the listing, a short one ends it.
LEMMA ReadPageKeeps ==
    ASSUME TableOK, RInv, UNCHANGED vars, NEW q \in Queries, ReadPage(q) PROVE RInv'
<1> DEFINE c == query[q]
           P == Page(c.after, c.at)
           L == {Listed(f, c.at) : f \in P}
           files == c.reads.files \cup L
           reads == [c.reads EXCEPT !.files = files]
           short == Cardinality(P) < PageSize
           after == IF P = {} THEN c.after ELSE Greatest(P)
           split == short /\ \E f \in reads.files : f.id \notin DOMAIN dataFile
           next == [c EXCEPT !.reads = reads, !.after = after, !.split = split]
           last == [next EXCEPT !.phase = "head"]
           goes == IF short THEN last ELSE next
<1>1. /\ QueryOK(c) /\ MemoOK(memo) /\ c.phase = "page" /\ noted' = noted
      /\ \/ Goes(q, Again(c)) /\ memo' = memo
         \/ Goes(q, Done(next, reads)) /\ memo' = memo
         \/ /\ Goes(q, Continued(goes)) /\ memo' = Kept(memo, next)
            /\ short => c.fill
    BY Zenon DEF RInv, ReadPage
<1>2. "page" \notin AtRest /\ "head" \notin AtRest /\ "head" \in Phases
    BY Zenon DEF Phases, AtRest
<1>3. /\ DOMAIN c = DOMAIN NoQuery /\ DOMAIN c.reads = DOMAIN NoReads
      /\ c.after \in Nat /\ c.at \in Nat /\ AbsenceHolds(c.reads.absent)
    BY <1>1, Zenon DEF QueryOK, QueryShape, ReadsShape
<1>4. /\ P \subseteq {f \in DataFilesAt(c.at) : f > c.after}
      /\ short => P = {f \in DataFilesAt(c.at) : f > c.after}
      /\ P # {} => /\ Greatest(P) \in Nat
                   /\ \A f \in DataFilesAt(c.at) :
                         f <= Greatest(P) <=> f <= c.after \/ f \in P
    BY <1>3, PageIsNext, Zenon
<1>5. /\ DOMAIN reads = DOMAIN NoReads /\ reads.deletes = c.reads.deletes
      /\ reads.rows = c.reads.rows /\ reads.files = files /\ reads.absent = c.reads.absent
  <2> HIDE DEF c, files
  <2> QED
      BY <1>3, Zenon DEF NoReads
<1>6. /\ DOMAIN next = DOMAIN NoQuery
      /\ next.phase = c.phase /\ next.at = c.at /\ next.fill = c.fill
      /\ next.reading = c.reading /\ next.after = after /\ next.seen = c.seen
      /\ next.head = c.head /\ next.reads = reads
  <2> HIDE DEF c, reads, after, split
  <2> QED
      BY <1>3, Zenon DEF NoQuery
<1>7. /\ DOMAIN last = DOMAIN NoQuery
      /\ last.phase = "head" /\ last.at = c.at /\ last.fill = c.fill
      /\ last.reading = c.reading /\ last.after = after /\ last.seen = c.seen
      /\ last.head = c.head /\ last.reads = reads
  <2> HIDE DEF c, next, reads, after
  <2> QED
      BY <1>6, Zenon DEF NoQuery
<1>8. after \in Nat
    BY <1>3, <1>4, Zenon
<1>9. c.reads.files = ListedThrough(c.after, c.at) => files = ListedThrough(after, c.at)
  <2>1. CASE P = {}
      BY <2>1, Zenon
  <2>2. CASE P # {}
    <3>1. {g \in DataFilesAt(c.at) : g <= after}
              = {g \in DataFilesAt(c.at) : g <= c.after} \cup P
        BY <1>4, <2>2, Zenon
    <3> HIDE DEF P, after, c
    <3> QED
        BY <3>1, Zenon DEF ListedThrough
  <2> QED
      BY <2>1, <2>2, Zenon
<1>10. c.reads.files = ListedThrough(c.after, c.at) /\ short
           => files = {Listed(f, c.at) : f \in DataFilesAt(c.at)}
  <2>1. \A f \in DataFilesAt(c.at) : f <= c.after \/ f > c.after
      BY <1>3, HeadNumber DEF TableOK, DataFilesAt
  <2>2. short => DataFilesAt(c.at) = {g \in DataFilesAt(c.at) : g <= c.after} \cup P
      BY <1>4, <2>1, Zenon
  <2> HIDE DEF P, c, short
  <2> QED
      BY <2>2, Zenon DEF ListedThrough
<1> HIDE DEF c, P, files, reads, short, after, split, next, last
<1>11. QueryShape(next) /\ QueryShape(last)
    BY <1>1, <1>2, <1>3, <1>5, <1>6, <1>7, <1>8, Zenon DEF QueryOK, QueryShape, ReadsShape
<1>12. QueryOK(next)
  <2>1. ASSUME Progress(c) PROVE Progress(next)
    <3>1. /\ next.reads.deletes = DeletesRead(next.at)
          /\ next.reads.rows = StoredInlinedAt(next.at)
          /\ c.reads.files = ListedThrough(c.after, c.at)
        BY <1>1, <1>5, <1>6, <2>1, Zenon DEF Progress
    <3>2. next.reads.files = ListedThrough(next.after, next.at) /\ next.phase = "page"
        BY <1>1, <1>5, <1>6, <1>9, <3>1, Zenon
    <3> QED
        BY <3>1, <3>2, Zenon DEF Progress
  <2> QED
      BY <1>1, <1>2, <1>6, <1>11, <2>1, Zenon DEF QueryOK
<1>13. ASSUME short, c.fill PROVE QueryOK(last)
  <2>1. ASSUME Progress(c) PROVE Progress(last)
    <3>1. /\ last.reads.deletes = DeletesRead(last.at)
          /\ last.reads.rows = StoredInlinedAt(last.at)
          /\ c.reads.files = ListedThrough(c.after, c.at)
        BY <1>1, <1>5, <1>7, <2>1, Zenon DEF Progress
    <3>2. last.reads.files = {Listed(f, last.at) : f \in DataFilesAt(last.at)}
        BY <1>5, <1>7, <1>10, <1>13, <3>1, Zenon
    <3> QED
        BY <1>7, <3>1, <3>2, Zenon DEF Progress
  <2> QED
      BY <1>1, <1>2, <1>7, <1>11, <1>13, <2>1, Zenon DEF QueryOK
<1>14. CASE Goes(q, Again(c)) /\ memo' = memo
    BY <1>1, <1>14, ReadAgainOK, QueryStepKeeps, Zenon DEF RInv
<1>15. CASE Goes(q, Done(next, reads)) /\ memo' = memo
    BY <1>1, <1>3, <1>6, <1>15, DoneOK, QueryStepKeeps, Zenon DEF RInv
<1>16. CASE Goes(q, Continued(goes)) /\ memo' = Kept(memo, next) /\ (short => c.fill)
  <2>1. QueryOK(goes) /\ goes.phase \notin AtRest
      BY <1>1, <1>2, <1>6, <1>7, <1>12, <1>13, <1>16, Zenon
  <2> HIDE DEF goes
  <2> QED
      BY <1>1, <1>16, <2>1, ReadGoesOn, Zenon DEF RInv
<1> QED
    BY <1>1, <1>14, <1>15, <1>16, Zenon

-----------------------------------------------------------------------------
\* A consistent read: its statements all see the catalog of the first.
LEMMA BeginConsistentReadKeeps ==
    ASSUME TableOK, RInv, UNCHANGED vars, NEW q \in Queries, BeginConsistentRead(q)
    PROVE  RInv'
<1> DEFINE c == query[q]
           R == StoredInlinedAt(c.at)
           unmoved == Unmoved(c)
           began == [c EXCEPT !.seen = NextFileId]
           absent == AbsentThrough(began)
           after == IF R = {} THEN NULL ELSE NextFileId
           files == {Listed(f, c.at) : f \in DataFilesAt(c.at)}
           D == DeletesRead(c.at)
           reads == [deletes |-> D, rows |-> R, ids |-> R, next |-> after,
                     absent |-> absent, files |-> files]
           d == [c EXCEPT !.phase = "view", !.unmoved = unmoved, !.reads = reads]
<1>1. /\ QueryOK(c) /\ c.phase = "deletes" /\ Goes(q, d)
      /\ memo' = memo /\ noted' = noted
    BY Zenon DEF RInv, BeginConsistentRead
<1>2. "view" \in Phases /\ "view" \notin AtRest /\ "deletes" \notin AtRest
    BY Zenon DEF Phases, AtRest
<1>3. DOMAIN c = DOMAIN NoQuery /\ c.at \in 0 .. Head
    BY <1>1, <1>2, Zenon DEF QueryOK, QueryShape
<1>4. began.at = c.at /\ began.seen = NextFileId
  <2> HIDE DEF c
  <2> QED
      BY <1>3, Zenon DEF NoQuery
<1>5. NextFileId \in Nat /\ NextFileId # 0
    BY HeadNumber DEF NextFileId
<1>6. AbsenceHolds(absent)
  <2> HIDE DEF began
  <2> QED
      BY <1>3, <1>4, <1>5, ReportedAbsence, Zenon
<1>7. /\ DOMAIN reads = DOMAIN NoReads /\ reads.absent = absent
      /\ reads.deletes = D /\ reads.rows = R /\ reads.files = files
  <2> HIDE DEF D, R, absent, after, files
  <2> QED
      BY Zenon DEF NoReads
<1>8. /\ DOMAIN d = DOMAIN NoQuery
      /\ d.phase = "view" /\ d.at = c.at /\ d.fill = c.fill /\ d.reading = c.reading
      /\ d.after = c.after /\ d.seen = c.seen /\ d.head = c.head /\ d.reads = reads
  <2> HIDE DEF c, reads, unmoved
  <2> QED
      BY <1>3, Zenon DEF NoQuery
<1>9. Whole(d.reads, d.at)
  <2> HIDE DEF d, reads, c
  <2> QED
      BY <1>7, <1>8, Zenon DEF Whole
<1> HIDE DEF c, d, reads, absent
<1>10. QueryShape(d)
    BY <1>1, <1>2, <1>6, <1>7, <1>8, Zenon DEF QueryOK, QueryShape, ReadsShape
<1>11. Progress(d)
    BY <1>8, <1>9, Zenon DEF Progress
<1>12. QueryOK(d)
    BY <1>1, <1>2, <1>8, <1>10, <1>11, Zenon DEF QueryOK
<1> QED
    BY <1>1, <1>12, QueryStepKeeps, Zenon DEF RInv

\* The scan or the fill then takes what the consistent read showed.
LEMMA ReadConsistentlyKeeps ==
    ASSUME TableOK, RInv, UNCHANGED vars, NEW q \in Queries, ReadConsistently(q)
    PROVE  RInv'
<1> DEFINE c == query[q]
           known == KnownAbsent(c)
           rows == IF known THEN {} ELSE c.reads.rows
           ids == IF known /\ c.fill THEN {} ELSE c.reads.ids
           after == IF known THEN NULL ELSE c.reads.next
           absent == IF ~known THEN c.reads.absent
                     ELSE IF c.fill THEN memo.absentThrough ELSE NULL
           reads == [c.reads EXCEPT !.rows = rows, !.ids = ids, !.next = after,
                        !.absent = absent]
           large == c.fill /\ Size(reads) > MaxBytes
           m == IF c.fill /\ reads.absent # NULL
                THEN [memo EXCEPT !.absentThrough = Higher(memo.absentThrough, reads.absent)]
                ELSE memo
           tooLarge == m.tooLarge \/ large
           n == [m EXCEPT !.tooLarge = tooLarge]
           d == [c EXCEPT !.fill = FALSE]
           e == [c EXCEPT !.phase = "keep", !.reads = reads]
<1>1. /\ QueryOK(c) /\ MemoOK(memo) /\ c.phase = "view"
      /\ \/ /\ c.fill /\ (Goes(q, d) \/ Goes(q, e))
            /\ memo' = n /\ noted' = noted
         \/ Goes(q, Done(c, reads)) /\ noted' = NotedAfter(c, reads) /\ memo' = memo
    BY Zenon DEF RInv, ReadConsistently
<1>2. "keep" \in Phases /\ "keep" \notin AtRest /\ "view" \notin AtRest
    BY Zenon DEF Phases, AtRest
<1>3. /\ DOMAIN c = DOMAIN NoQuery /\ DOMAIN c.reads = DOMAIN NoReads /\ c.at \in Nat
      /\ AbsenceHolds(c.reads.absent)
    BY <1>1, Zenon DEF QueryOK, QueryShape, ReadsShape
<1>4. AbsenceHolds(absent)
    BY <1>1, <1>3, NoAbsence, Zenon DEF MemoOK, NULL
<1>5. /\ DOMAIN reads = DOMAIN NoReads /\ reads.absent = absent /\ reads.rows = rows
      /\ reads.deletes = c.reads.deletes /\ reads.files = c.reads.files
  <2> HIDE DEF c, rows, ids, after, absent
  <2> QED
      BY <1>3, Zenon DEF NoReads
<1>6. c.fill /\ known => StoredInlinedAt(c.at) = {}
    BY <1>1, <1>3, AbsentRows, Zenon DEF KnownAbsent, MemoOK
<1>7. MemoOK(n)
  <2>1. MemoOK(m)
    <3> HIDE DEF reads
    <3> QED
        BY <1>1, <1>4, <1>5, RaisedOK, Zenon
  <2> HIDE DEF m, tooLarge
  <2>2. /\ DOMAIN n = DOMAIN EmptyMemo /\ n.head = m.head
        /\ n.absentThrough = m.absentThrough /\ n.tables = m.tables
      BY <2>1, Zenon DEF MemoOK, EmptyMemo
  <2> HIDE DEF n
  <2> QED
      BY <2>1, <2>2, Zenon DEF MemoOK
<1>8. /\ DOMAIN d = DOMAIN NoQuery
      /\ d.phase = c.phase /\ d.at = c.at /\ d.fill = FALSE /\ d.reading = c.reading
      /\ d.after = c.after /\ d.seen = c.seen /\ d.head = c.head /\ d.reads = c.reads
  <2> HIDE DEF c
  <2> QED
      BY <1>3, Zenon DEF NoQuery
<1>9. /\ DOMAIN e = DOMAIN NoQuery
      /\ e.phase = "keep" /\ e.at = c.at /\ e.fill = c.fill /\ e.reading = c.reading
      /\ e.after = c.after /\ e.seen = c.seen /\ e.head = c.head /\ e.reads = reads
  <2> HIDE DEF c, reads
  <2> QED
      BY <1>3, Zenon DEF NoQuery
<1>10. QueryOK(d)
  <2> HIDE DEF c, d
  <2>1. QueryShape(d)
      BY <1>1, <1>8, Zenon DEF QueryOK, QueryShape
  <2> QED
      BY <1>1, <1>2, <1>8, <2>1, Zenon DEF QueryOK
<1>11. ASSUME c.fill PROVE QueryOK(e)
  <2>1. ASSUME Progress(c) PROVE Progress(e)
    <3>1. Whole(c.reads, c.at)
        BY <1>1, <2>1, Zenon DEF Progress
    <3>2. rows = StoredInlinedAt(c.at)
        BY <1>6, <1>11, <3>1, Zenon DEF Whole
    <3>3. Whole(e.reads, e.at)
      <4> HIDE DEF c, e, reads, rows
      <4> QED
          BY <1>5, <1>9, <3>1, <3>2, ZenonT(60) DEF Whole
    <3> HIDE DEF e
    <3> QED
        BY <1>9, <3>3, Zenon DEF Progress
  <2> HIDE DEF c, e, reads, absent
  <2>2. QueryShape(e)
      BY <1>1, <1>2, <1>4, <1>5, <1>9, Zenon DEF QueryOK, QueryShape, ReadsShape
  <2> QED
      BY <1>1, <1>2, <1>9, <1>11, <2>1, <2>2, Zenon DEF QueryOK
<1> HIDE DEF d, e, n, reads, absent
<1>12. CASE c.fill /\ (Goes(q, d) \/ Goes(q, e)) /\ memo' = n /\ noted' = noted
    BY <1>7, <1>10, <1>11, <1>12, QueryStepKeeps, Zenon DEF RInv
<1>13. CASE Goes(q, Done(c, reads)) /\ noted' = NotedAfter(c, reads) /\ memo' = memo
  <2>1. \A s \in noted' : AbsenceHolds(s)
      BY <1>3, <1>4, <1>5, <1>13, NotedOK, Zenon
  <2>2. QueryOK(Done(c, reads))
      BY <1>3, DoneOK, Zenon
  <2> QED
      BY <1>13, <2>1, <2>2, QueryStepKeeps, Zenon DEF RInv
<1> QED
    BY <1>1, <1>12, <1>13, Zenon

-----------------------------------------------------------------------------
\* Every step of a query keeps the invariant.
LEMMA ReadStepKeeps ==
    ASSUME TableOK, RInv, UNCHANGED vars, NEW q \in Queries, ReadStep(q) PROVE RInv'
<1>1. CASE \E s \in snapshots, rowIds, memoized, consistent \in BOOLEAN :
               Open(q, s, rowIds, memoized, consistent)
    BY <1>1, OpenKeeps, Zenon
<1>2. CASE Bind(q) \/ Pick(q) \/ Serve(q) \/ Keep(q)
    BY <1>2, BindKeeps, PickKeeps, ServeKeeps, KeepKeeps, Zenon
<1>3. CASE BeginConsistentRead(q) \/ ReadConsistently(q)
    BY <1>3, BeginConsistentReadKeeps, ReadConsistentlyKeeps, Zenon
<1>4. CASE ReadDeletes(q) \/ ReadRegistry(q) \/ ReadRows(q) \/ ReadPage(q) \/ ReadHead(q)
    BY <1>4, ReadDeletesKeeps, ReadRegistryKeeps, ReadRowsKeeps, ReadPageKeeps,
       ReadHeadKeeps, Zenon
<1> QED
    BY <1>1, <1>2, <1>3, <1>4, Zenon DEF ReadStep, Reads

\* The table's own steps keep the bounds.
LEMMA TableStaysOK ==
    ASSUME TableOK, [Next]_vars PROVE TableOK'
<1>1. Head \in Nat /\ Own \in Nat /\ Own = Head + 1
    BY HeadNumber, Zenon
<1>2. CASE Advances
  <2>1. snapshots' = snapshots \cup {Own} /\ Head' = Own /\ tableEnd' \in {tableEnd, Own}
      BY <1>2, Zenon DEF Advances
  <2>2. snapshots' \subseteq Nat /\ Head' \in snapshots' /\ tableEnd' \in Nat
      BY <1>1, <2>1, Zenon DEF TableOK
  <2>3. \A s \in snapshots' : s <= Head'
      BY <1>1, <2>1 DEF TableOK
  <2>4. DOMAIN dataFile' \subseteq 1 .. Head'
    <3>1. \A f \in 1 .. Head : f \in 1 .. Own
        BY <1>1
    <3>2. Own \in 1 .. Own
        BY <1>1
    <3> QED
        BY <1>2, <2>1, <3>1, <3>2, Zenon DEF Advances, TableOK
  <2>5. \A r \in inlinedRow' : DOMAIN r = {"rid", "begin", "end"} /\ r.begin \in Nat
      BY <1>1, <1>2, Zenon DEF Advances, RowsBeginLater, TableOK
  <2> QED
      BY <2>2, <2>3, <2>4, <2>5, Zenon DEF TableOK
<1>3. CASE UNCHANGED catalogVars
    BY <1>3, Zenon DEF TableOK, catalogVars, Head
<1>4. ASSUME NEW S \in SUBSET snapshots, Expire(S) PROVE TableOK'
  <2>1. /\ snapshots' \subseteq snapshots /\ Head \in snapshots' /\ tableEnd' = tableEnd
        /\ DOMAIN dataFile' \subseteq DOMAIN dataFile /\ inlinedRow' \subseteq inlinedRow
      BY <1>4, Zenon DEF Expire, TableOK, Without
  <2>2. snapshots' \subseteq Nat /\ \A s \in snapshots' : s <= Head
      BY <2>1, Zenon DEF TableOK
  <2>3. Head' = Head
      BY <2>1, <2>2, GreatestBounds, Zenon DEF Head
  <2> QED
      BY <2>1, <2>2, <2>3, Zenon DEF TableOK
<1> QED
    BY <1>2, <1>3, <1>4, TableMoves, Zenon

\* The new table is within them.
LEMMA TableInitOK == ASSUME Init PROVE TableOK
<1>1. /\ snapshots = {1} /\ tableEnd = 0 /\ inlinedRow = {} /\ DOMAIN dataFile = {}
    BY Zenon DEF Init, NULL
<1>2. Head = 1
    BY <1>1, GreatestBounds DEF Head
<1> QED
    BY <1>1, <1>2 DEF TableOK

\* Before the first query nothing is read, kept or noted.
LEMMA ReadInitOK == ASSUME TableOK, Init, ReadInit PROVE RInv
<1>1. Head \in Nat /\ 0 \in Nat /\ 0 \in 0 .. Head
    BY HeadNumber
<1>2. AbsenceHolds(0)
    BY <1>1, Zenon DEF Init, AbsenceHolds, NoRowThrough
<1>3. NoReads.absent = 0 /\ ReadsShape(NoReads)
  <2>1. NoReads.absent = 0
      BY Zenon DEF NoReads, NULL
  <2> QED
      BY <1>2, <2>1, Zenon DEF ReadsShape
<1>4. /\ NoQuery.phase = "closed" /\ NoQuery.at = 0 /\ NoQuery.fill = FALSE
      /\ NoQuery.reading = "rows" /\ NoQuery.after = 0 /\ NoQuery.seen = 0
      /\ NoQuery.head = 0 /\ NoQuery.reads = NoReads
    BY Zenon DEF NoQuery, NULL
<1>5. "closed" \in Phases /\ "closed" \in AtRest
    BY Zenon DEF Phases, AtRest
<1>6. QueryShape(NoQuery)
    BY <1>1, <1>3, <1>4, <1>5, Zenon DEF QueryShape
<1>7. QueryOK(NoQuery)
    BY <1>4, <1>5, <1>6, Zenon DEF QueryOK
<1>8. MemoOK(EmptyMemo)
  <2>1. EmptyMemo.head = 0 /\ EmptyMemo.absentThrough = 0 /\ EmptyMemo.tables = <<>>
      BY Zenon DEF EmptyMemo, NULL
  <2>2. DOMAIN EmptyMemo.tables = {}
      BY <2>1
  <2> QED
      BY <1>1, <1>2, <2>1, <2>2, Zenon DEF MemoOK
<1> QED
    BY <1>7, <1>8, Zenon DEF ReadInit, RInv

\* The invariant holds in every state of a table that is read and written.
THEOREM ReadInvariance == ReadersSpec => [](TableOK /\ RInv)
<1>1. ReadersInit => TableOK /\ RInv
    BY TableInitOK, ReadInitOK, Zenon DEF ReadersInit
<1>2. ASSUME TableOK, RInv, [ReadersNext]_<<vars, readVars>> PROVE TableOK' /\ RInv'
  <2>1. [Next]_vars
      BY <1>2, Zenon DEF ReadersNext
  <2>2. TableOK'
      BY <1>2, <2>1, TableStaysOK, Zenon
  <2>3. CASE UNCHANGED readVars
      BY <1>2, <2>1, <2>2, <2>3, TableStepKeeps, Zenon
  <2>4. CASE (\E q \in Queries : ReadStep(q)) /\ UNCHANGED vars
      BY <1>2, <2>2, <2>4, ReadStepKeeps, Zenon
  <2> QED
      BY <1>2, <2>2, <2>3, <2>4, Zenon DEF ReadersNext
<1> QED
    BY <1>1, <1>2, PTL DEF ReadersSpec

\* Every entry the memo keeps is what a query bound at the head would read, and
\* every absence it and the tables keep holds for every later read.
THEOREM MemoIsCurrent == ReadersSpec => []MemoCurrent
<1>1. TableOK /\ RInv => MemoCurrent
    BY Zenon DEF RInv, MemoOK, Whole, AbsenceHolds, MemoCurrent
<1> QED
    BY <1>1, ReadInvariance, PTL
=============================================================================
