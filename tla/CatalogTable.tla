---------------------------- MODULE CatalogTable ----------------------------
(***************************************************************************)
(* The catalog rows that make up one DuckLake table, and how a reader at a *)
(* snapshot resolves them to rows.                                         *)
(*                                                                         *)
(* A data file, a delete file and an inlined row live from begin_snapshot  *)
(* until end_snapshot (NULL while live).  A merged or flushed file is      *)
(* "partial": it holds rows of several snapshots, each embedding its       *)
(* origin, and partial_max is the latest of them.  A delete file records   *)
(* the snapshot of each position it deletes (its own begin_snapshot when   *)
(* the Parquet file carries none).                                         *)
(*                                                                         *)
(* A row version is a row id and the snapshot that wrote it.  A data file  *)
(* never changes, so a physical position in it is named by the row stored  *)
(* there.  A data file is identified by the snapshot that registered it    *)
(* and a delete file by its data file and the snapshot that registered it: *)
(* a commit registers at most one data file of the table, and at most one  *)
(* delete file per data file.                                              *)
(***************************************************************************)
EXTENDS Naturals, FiniteSets, TableConflicts

VARIABLES
    snapshots,      \* ducklake_snapshot: the unexpired snapshot ids
    changes,        \* ducklake_snapshot_changes naming the table, per snapshot
    tableEnd,       \* ducklake_table.end_snapshot
    alteredAt,      \* the snapshot of the live column generation
    dataFile,       \* ducklake_data_file rows, by data file id
    deleteFile,     \* ducklake_delete_file rows, by delete file id
    inlinedRow,     \* the rows of the table's inlined data tables
    inlinedDelete,  \* the rows of ducklake_inlined_delete_<table_id>
    nextRowId,      \* ducklake_table_stats.next_row_id
    scheduled       \* ducklake_files_scheduled_for_deletion

catalogVars == <<snapshots, changes, tableEnd, alteredAt, dataFile, deleteFile,
                 inlinedRow, inlinedDelete, nextRowId, scheduled>>

NULL == 0

Least(S) == CHOOSE x \in S : \A y \in S : x <= y
Greatest(S) == CHOOSE x \in S : \A y \in S : y <= x

\* The catalog head: MAX(snapshot_id).
Head == Greatest(snapshots)

RowVersion == [rid : Nat, val : Nat]
FileRow == [rid : Nat, val : Nat, origin : Nat]
DatedPosition == [pos : FileRow, at : Nat]
DeleteFileId == Nat \X Nat

DataFileRow == [begin : Nat, end : Nat, partialMax : Nat, rows : SUBSET FileRow]
DeleteFileRow == [begin : Nat, end : Nat, partialMax : Nat,
                  dels : SUBSET DatedPosition]
InlinedRow == [rid : Nat, begin : Nat, end : Nat]
InlinedDelete == [file : Nat, pos : FileRow, begin : Nat]

-----------------------------------------------------------------------------
\* Which catalog rows a read at snapshot s resolves to (SQL_GET_DATA_FILES,
\* with its join of the delete files, and the inlined queries).

VisibleAt(row, s) == row.begin <= s /\ (row.end = NULL \/ s < row.end)

IsLive(row) == row.end = NULL

DataFilesAt(s) == {f \in DOMAIN dataFile : VisibleAt(dataFile[f], s)}

DeleteFilesAt(f, s) ==
    {d \in DOMAIN deleteFile : d[1] = f /\ VisibleAt(deleteFile[d], s)}

LiveDataFiles == {f \in DOMAIN dataFile : IsLive(dataFile[f])}

\* The live delete file of data file f: no element, or the one.
LiveDeleteFile(f) ==
    {d \in DOMAIN deleteFile : d[1] = f /\ IsLive(deleteFile[d])}

LiveInlinedRows == {r \in inlinedRow : IsLive(r)}

\* Every deletion the delete files D record, whatever its snapshot
\* (read_delete_file_entries), and the positions a read at s applies
\* (read_visible_delete_file_positions).
EntriesOf(D) == UNION {deleteFile[d].dels : d \in D}
PositionsOf(entries) == {e.pos : e \in entries}

DeletedByFilesAt(f, s) ==
    PositionsOf({e \in EntriesOf(DeleteFilesAt(f, s)) : e.at <= s})

\* inlined_deletes_by_file at snapshot s.
InlinedDeletesAt(f, s) ==
    {i.pos : i \in {j \in inlinedDelete : j.file = f /\ j.begin <= s}}

\* A read below partial_max keeps only the rows whose embedded origin is not
\* later than the read snapshot (needs_snapshot_filter).
OriginVisible(f, p, s) ==
    \/ dataFile[f].partialMax = NULL
    \/ s >= dataFile[f].partialMax
    \/ p.origin <= s

LivePositionsAt(f, s) ==
    {p \in dataFile[f].rows : OriginVisible(f, p, s)}
        \ (DeletedByFilesAt(f, s) \cup InlinedDeletesAt(f, s))

\* What a DELETE or UPDATE reading at s resolves its predicate over
\* (resolve_positions, build_update_scan_selecting): every row of the file that
\* no delete file entry or inlined deletion names, without an origin filter.
RawPositionsAt(f, s) ==
    dataFile[f].rows
        \ (PositionsOf(EntriesOf(DeleteFilesAt(f, s))) \cup InlinedDeletesAt(f, s))

\* An inlined row as the row it holds; `in` is NULL for inlined storage.
InlinedAsRow(r) == [rid |-> r.rid, val |-> r.begin, origin |-> r.begin]
StoredInlinedAt(s) ==
    {[in |-> NULL, row |-> InlinedAsRow(r)] :
        r \in {q \in inlinedRow : VisibleAt(q, s)}}

StoredIn(f, P) == {[in |-> f, row |-> p] : p \in P}

TableExistsAt(s) == tableEnd = NULL \/ s < tableEnd

\* The stored rows a scan at snapshot s returns.
ScannedAt(s) ==
    IF TableExistsAt(s)
    THEN StoredInlinedAt(s)
             \cup UNION {StoredIn(f, LivePositionsAt(f, s)) : f \in DataFilesAt(s)}
    ELSE {}

VersionOf(row) == [rid |-> row.rid, val |-> row.val]

\* The table's contents at snapshot s: what time travel to s returns.
ContentAt(s) == {VersionOf(t.row) : t \in ScannedAt(s)}
=============================================================================
