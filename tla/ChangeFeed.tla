------------------------------ MODULE ChangeFeed ------------------------------
(***************************************************************************)
(* The change feeds over a window of snapshots a .. b: which rows          *)
(* ducklake_table_insertions, ducklake_table_deletions and                 *)
(* ducklake_table_changes report, from the catalog rows as they are now.   *)
(*                                                                         *)
(* A change is a row version, the snapshot that made it and the place it   *)
(* was found: `in` is the data file (NULL for inlined storage) and `by`    *)
(* the delete record that reports a deletion.  The two tell a change       *)
(* reported twice from one reported once.                                  *)
(***************************************************************************)
EXTENDS CatalogTable

Within(s, a, b) == a <= s /\ s <= b

Partial(f) == dataFile[f].partialMax # NULL

\* rewrite_snapshots: a rewrite changes no row.
RewriteSnapshots(a, b) ==
    {s \in snapshots : Within(s, a, b) /\ "rewrite_delete" \in changes[s]}

\* written_by_rewrite: an ordinary file that begins at a rewrite.
WrittenByRewrite(f, rewrites) == ~Partial(f) /\ dataFile[f].begin \in rewrites

\* SQL_GET_DATA_FILES_ADDED_BETWEEN_SNAPSHOTS.
FilesAdded(a, b) ==
    {f \in DOMAIN dataFile : /\ dataFile[f].begin <= b
                             /\ dataFile[f].begin >= a \/ dataFile[f].partialMax >= a}

\* The snapshots whose rows a merged file carries without having inserted them
\* (insert_source, excluded_snapshots).
ExcludedSnapshots(f, rewrites) ==
    rewrites \cap (dataFile[f].begin .. dataFile[f].partialMax)

\* inserted_batch: a merged file's rows belong to their own snapshots.
InsertedBatch(f, rewrites, a, b) ==
    IF Partial(f)
    THEN {[at |-> p.origin, row |-> VersionOf(p), in |-> f] :
             p \in {q \in dataFile[f].rows :
                       /\ Within(q.origin, a, b)
                       /\ q.origin \notin ExcludedSnapshots(f, rewrites)}}
    ELSE {[at |-> dataFile[f].begin, row |-> VersionOf(p), in |-> f] :
             p \in dataFile[f].rows}

\* InlinedRowSelection::InsertedBetween and DeletedBetween.
InlinedInserted(a, b) ==
    {[at |-> r.begin, row |-> VersionOf(InlinedAsRow(r)), in |-> NULL] :
        r \in {q \in inlinedRow : Within(q.begin, a, b)}}

InlinedDeleted(a, b) ==
    {[at |-> r.end, row |-> VersionOf(InlinedAsRow(r)), in |-> NULL, by |-> <<>>] :
        r \in {q \in inlinedRow : q.end # NULL /\ Within(q.end, a, b)}}

\* get_inlined_file_deletes_between: inlined deletions of rows in data files.
InlinedFileDeletes(f, a, b) ==
    {[pos |-> i.pos, at |-> i.begin] :
        i \in {j \in inlinedDelete : j.file = f /\ Within(j.begin, a, b)}}

-----------------------------------------------------------------------------
\* A delete record: a delete file, or (del = 0) the retirement of a data file,
\* with the snapshot it is dated at.
DeleteRecord(f, del, at) == [file |-> f, del |-> del, at |-> at]

\* SQL_GET_DELETE_FILES_ADDED_BETWEEN_SNAPSHOTS, its two halves.
DeleteFilesUpTo(b) ==
    {DeleteRecord(d[1], d[2], deleteFile[d].begin) :
        d \in {e \in DOMAIN deleteFile :
                  e[1] \in DOMAIN dataFile /\ deleteFile[e].begin <= b}}

FilesRetired(a, b) ==
    {DeleteRecord(f, 0, dataFile[f].end) :
        f \in {g \in DOMAIN dataFile : dataFile[g].end # NULL
                                          /\ Within(dataFile[g].end, a, b)}}

\* Its join to the delete file before: strictly before a delete file, no later
\* than a retirement.
PreviousDeleteFile(r) ==
    LET D == {d \in DOMAIN deleteFile :
                 /\ d[1] = r.file
                 /\ IF r.del = 0 THEN deleteFile[d].begin <= r.at
                    ELSE deleteFile[d].begin < r.at}
    IN  {d \in D : \A e \in D : deleteFile[e].begin <= deleteFile[d].begin}

\* WindowDeletions::read: but the retirements of rewrites.
WindowDeletions(rewrites, a, b) ==
    DeleteFilesUpTo(b) \cup {r \in FilesRetired(a, b) : r.at \notin rewrites}

\* The inlined deletions made before the window of a file the window retires
\* (WindowDeletions::read, earlier_inlined).
EarlierInlined(r, a) ==
    IF r.del = 0 THEN PositionsOf(InlinedFileDeletes(r.file, 0, a - 1)) ELSE {}

\* InlinedFileDeletes::claim: a retired file's inlined deletions go with its
\* retirement, another file's with the first of its delete records.
Claim(r, records, a, b) ==
    LET ofFile  == {o \in records : o.file = r.file}
        retired == {o \in ofFile : o.del = 0}
        first   == CHOOSE o \in IF retired # {} THEN retired ELSE ofFile : TRUE
    IN  IF r = first THEN InlinedFileDeletes(r.file, a, b) ELSE {}

\* Whether a delete file carries the snapshot of each deletion.  One whose
\* deletions all date from its begin_snapshot reads the same either way.
Cumulative(d) == \E e \in deleteFile[d].dels : e.at # deleteFile[d].begin

\* DeletedPositionsBuilder, in its order: the delete file's positions (those of
\* the window when they carry their snapshots, all or none when they do not) or
\* every position of a retired file, ...
RecordedPositions(r, a, b) ==
    LET d == <<r.file, r.del>>
    IN  IF r.del = 0 THEN {[pos |-> p, at |-> r.at] : p \in dataFile[r.file].rows}
        ELSE IF Cumulative(d)
             THEN {e \in deleteFile[d].dels : Within(e.at, a, b)}
        ELSE IF r.at < a THEN {}
        ELSE {[pos |-> e.pos, at |-> r.at] : e \in deleteFile[d].dels}

\* ... replaced by the claimed inlined deletions (add_inlined), ...
WithInlined(recorded, claimed) ==
    {e \in recorded : e.pos \notin PositionsOf(claimed)} \cup claimed

\* Mutant: a retirement deletes again what was deleted before the window.
ExceptPositions_PreviousOnly(r, a, b) ==
    PositionsOf(EntriesOf(PreviousDeleteFile(r)))

\* ... but for what was deleted before (add_except_batch, add_except).
ExceptPositions(r, a, b) ==
    EarlierInlined(r, a) \cup
        (IF r.del # 0 /\ (Cumulative(<<r.file, r.del>>) \/ r.at < a) THEN {}
         ELSE PositionsOf(EntriesOf(PreviousDeleteFile(r))))

\* DeletionRead::deleted_rows and filter_batch.
DeletedByRecord(r, claimed, a, b) ==
    LET except == ExceptPositions(r, a, b)
    IN  {[at |-> e.at, row |-> VersionOf(e.pos), in |-> r.file, by |-> <<r.del>>] :
            e \in {x \in WithInlined(RecordedPositions(r, a, b), claimed) :
                      x.pos \notin except}}

\* deletion_sources: the delete records, and the data files no record of the
\* window names.
DeletedInFiles(a, b) ==
    LET records   == WindowDeletions(RewriteSnapshots(a, b), a, b)
        unclaimed == {f \in DOMAIN dataFile : \A r \in records : r.file # f}
    IN  UNION {DeletedByRecord(r, Claim(r, records, a, b), a, b) : r \in records}
            \cup UNION {{[at |-> e.at, row |-> VersionOf(e.pos), in |-> f, by |-> <<>>] :
                            e \in InlinedFileDeletes(f, a, b)} : f \in unclaimed}

-----------------------------------------------------------------------------
\* ducklake_table_insertions and ducklake_table_deletions.
Insertions(a, b) ==
    LET rewrites == RewriteSnapshots(a, b)
    IN  UNION {InsertedBatch(f, rewrites, a, b) :
                  f \in {g \in FilesAdded(a, b) : ~WrittenByRewrite(g, rewrites)}}
            \cup InlinedInserted(a, b)

Deletions(a, b) == DeletedInFiles(a, b) \cup InlinedDeleted(a, b)

\* pair_rows: a change is half of an UPDATE when the other side changes the
\* same row id at the same snapshot.
Pairs(rows, keys, matched, unmatched) ==
    {[at |-> c.at, row |-> c.row,
      change |-> IF \E k \in keys : k.at = c.at /\ k.row.rid = c.row.rid
                 THEN matched ELSE unmatched] : c \in rows}

\* ducklake_table_changes (build_correlated_changes).  A plain insert skips the
\* join: no deletion has its row id at its snapshot.
Changes(inserted, deleted) ==
    Pairs(inserted, deleted, "update_postimage", "insert")
        \cup Pairs(deleted, inserted, "update_preimage", "delete")

-----------------------------------------------------------------------------
\* The changes from snapshot to snapshot that the contents show.
RowIdsOf(versions) == {v.rid : v \in versions}

Labelled(s, versions, others, matched, unmatched) ==
    LET pairing == RowIdsOf(others)
    IN  {[at |-> s, row |-> v,
          change |-> IF v.rid \in pairing THEN matched ELSE unmatched] : v \in versions}

ChangesAt(s) ==
    LET before == ContentAt(s - 1)
        after  == ContentAt(s)
    IN  Labelled(s, after \ before, before \ after, "update_postimage", "insert")
            \cup Labelled(s, before \ after, after \ before, "update_preimage", "delete")

\* Every change of a set is found in one place.
ReportedOnce(changesFound) ==
    \A c, d \in changesFound : c.at = d.at /\ c.row = d.row => c = d

\* The windows whose snapshots, and the one before, have not expired, over a
\* table that exists at their end.
Windows ==
    {w \in snapshots \X snapshots :
        /\ w[1] - 1 \in snapshots /\ w[1] <= w[2]
        /\ w[1] .. w[2] \subseteq snapshots
        /\ TableExistsAt(w[2])}
=============================================================================
