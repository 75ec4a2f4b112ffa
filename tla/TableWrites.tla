----------------------------- MODULE TableWrites -----------------------------
(***************************************************************************)
(* The statements that read and write one table, from the snapshot they    *)
(* read to the catalog transaction that commits or refuses them.           *)
(*                                                                         *)
(* A statement reads the catalog as of a base snapshot and writes its      *)
(* Parquet files (Begin...), and later commits in one catalog transaction  *)
(* (Commit...): insert_snapshot takes the catalog's write lock first, so a *)
(* commit is one step, and a refused commit rolls back whole (Refuse).     *)
(* Other writers commit in between.  A writable catalog resolves its head  *)
(* when a statement is planned and reads the catalog rows a little later,  *)
(* so a reading statement's base is any unexpired snapshot.                *)
(***************************************************************************)
EXTENDS CatalogTable

CONSTANTS
    Writers,            \* the concurrent sessions
    Ops,                \* the operations they perform
    InsertSizes,        \* rows one INSERT writes
    InlineLimits,       \* data_inlining_row_limit values in effect
    MaxTargets,         \* rows one DELETE or UPDATE matches at most
    MaxAttempts,        \* MAX_COMMIT_ATTEMPTS
    ExpiryWaits,        \* expiry keeps the snapshots statements in flight need
    MaxSnapshot         \* bound: snapshots created

AllOps == {"append", "replace", "delete", "update", "truncate", "merge",
           "rewrite", "flush", "alter", "drop", "retire", "expire", "other"}

ASSUME OpsAssumption == Ops \subseteq AllOps
ASSUME BoundsAssumption ==
    /\ InsertSizes \subseteq Nat \ {0}
    /\ InlineLimits \subseteq Nat
    /\ MaxTargets \in Nat
    /\ MaxAttempts \in Nat
    /\ ExpiryWaits \in BOOLEAN
    /\ MaxSnapshot \in Nat

VARIABLE stmt   \* the statement each writer has begun and not yet settled

vars == <<catalogVars, stmt>>

-----------------------------------------------------------------------------
(***************************************************************************)
(* A statement, as its commit call receives it.                            *)
(*   fresh, kept      new rows that draw row ids; row ids new versions keep *)
(*   inline           the new rows are inlined rather than a Parquet file  *)
(*   entries          what it does to each data file it read               *)
(*   ended            the inlined rows it ends                             *)
(*   date             the snapshot its rewritten delete files are dated to *)
(*   out, outBegin, outMax, dels                                           *)
(*                    the file a compaction or a flush wrote (outBegin     *)
(*                    NULL: the commit's snapshot), and the deletions a    *)
(*                    flush writes beside it                               *)
(*   attempt          commits refused and retried so far                   *)
(* targets and saw only record what the statement read: the row versions a *)
(* DELETE or UPDATE matched, and the contents an INSERT or a truncate began *)
(* from.                                                                   *)
(***************************************************************************)
How == {"inlined", "dropped", "positional", "rewritten", "source", "flushed"}

Entry == [file : Nat, prev : SUBSET DeleteFileId, how : How,
          pos : SUBSET FileRow, carried : SUBSET DatedPosition,
          fileEnd : Nat, delEnd : Nat]

Statement ==
    [op : AllOps \cup {"none"}, base : Nat, fresh : Nat, kept : SUBSET Nat,
     inline : BOOLEAN, entries : SUBSET Entry, ended : SUBSET Nat, date : Nat,
     out : SUBSET FileRow, outBegin : Nat, outMax : Nat,
     dels : SUBSET DatedPosition, attempt : Nat,
     targets : SUBSET RowVersion, saw : SUBSET RowVersion]

NoStatement ==
    [op |-> "none", base |-> 0, fresh |-> 0, kept |-> {}, inline |-> FALSE,
     entries |-> {}, ended |-> {}, date |-> 0, out |-> {}, outBegin |-> NULL,
     outMax |-> NULL, dels |-> {}, attempt |-> 0, targets |-> {}, saw |-> {}]

Active == {w \in Writers : stmt[w].op # "none"}

\* Every active statement can still commit within the bound.
WithinBound == Head + Cardinality(Active) < MaxSnapshot

Starts(w, op) ==
    /\ op \in Ops
    /\ stmt[w].op = "none"
    /\ tableEnd = NULL
    /\ WithinBound
    /\ UNCHANGED catalogVars

\* The snapshots a reading statement may be based on.
Bases == {b \in snapshots : ExpiryWaits => b .. Head \subseteq snapshots}

-----------------------------------------------------------------------------
\* INSERT and INSERT OVERWRITE: setup reads the head, then writes a file unless
\* the rows number at most the inlining limit.
BeginInsert(w, op, n, limit) ==
    /\ Starts(w, op)
    /\ stmt' = [stmt EXCEPT ![w] =
           [NoStatement EXCEPT !.op = op, !.base = Head, !.fresh = n,
               !.inline = n <= limit,
               !.saw = ContentAt(Head)]]

\* The row a DELETE or UPDATE at snapshot b can match, and where it is stored.
MatchableAt(b) ==
    StoredInlinedAt(b)
        \cup UNION {StoredIn(f, RawPositionsAt(f, b)) : f \in DataFilesAt(b)}

\* FileDeletions::record: how the deletion of `pos` from file f is recorded,
\* given the deletions `existing` of its delete file.
HowRecorded(f, pos, existing, limit) ==
    LET every == Cardinality(PositionsOf(existing)) + Cardinality(pos)
                     = Cardinality(dataFile[f].rows)
    IN  IF Cardinality(pos) <= limit THEN "inlined"
        ELSE IF every THEN "dropped"
        ELSE IF existing = {} THEN "positional"
        ELSE "rewritten"

RecordDeletion(f, pos, limit, b) ==
    LET prev == DeleteFilesAt(f, b)
    IN  [file |-> f, prev |-> prev, pos |-> pos, carried |-> EntriesOf(prev),
         how |-> HowRecorded(f, pos, EntriesOf(prev), limit),
         fileEnd |-> NULL, delEnd |-> NULL]

\* run_delete and the UPDATE executor, reading at snapshot b and matching the
\* stored rows T.  An UPDATE writes a new version of each row under its row id.
BeginMutation(w, op, b, T, limit) ==
    LET files   == {t.in : t \in T} \ {NULL}
        at(f)   == {t.row : t \in {u \in T : u.in = f}}
        entries == {RecordDeletion(f, at(f), limit, b) : f \in files}
        rids    == {t.row.rid : t \in T}
    IN  /\ Starts(w, op)
        /\ stmt' = [stmt EXCEPT ![w] =
               [NoStatement EXCEPT !.op = op, !.base = b,
                   !.kept = IF op = "update" THEN rids ELSE {},
                   !.inline = op = "update" /\ Cardinality(T) <= limit,
                   !.entries = entries,
                   !.ended = {r.rid : r \in at(NULL)},
                   !.date = Head + 1,
                   !.targets = {VersionOf(t.row) : t \in T}]]

\* A caller of commit_truncate, which supersedes everything it saw at b.
BeginTruncate(w, b) ==
    /\ Starts(w, "truncate")
    /\ stmt' = [stmt EXCEPT ![w] =
           [NoStatement EXCEPT !.op = "truncate", !.base = b,
                               !.saw = ContentAt(b)]]

\* A file merge_adjacent_files may take at snapshot b: no deletion of it, and
\* no row of it later than b.
MergeCandidate(f, b) ==
    /\ DeleteFilesAt(f, b) = {}
    /\ InlinedDeletesAt(f, b) = {}
    /\ dataFile[f].partialMax <= b

SourceEntry(f, prev) ==
    [file |-> f, prev |-> prev, how |-> "source", pos |-> {}, carried |-> {},
     fileEnd |-> NULL, delEnd |-> NULL]

\* The latest origin a file's rows reach: partial_max, or begin_snapshot.
LatestOrigin(f) ==
    IF dataFile[f].partialMax # NULL THEN dataFile[f].partialMax
    ELSE dataFile[f].begin

\* merge_adjacent_files over the bin F, two files of one schema version.  The
\* output holds every row; it is partial, and embeds each row's origin, when the
\* origins differ or a source embeds them.
BeginMerge(w, b, F) ==
    LET begins  == {dataFile[f].begin : f \in F}
        maxes   == {LatestOrigin(f) : f \in F}
        partial == \/ Least(begins) # Greatest(maxes)
                   \/ \E f \in F : dataFile[f].partialMax # NULL
        originIn(f, p) == IF ~partial THEN 0
                          ELSE IF dataFile[f].partialMax # NULL THEN p.origin
                          ELSE dataFile[f].begin
    IN  /\ Starts(w, "merge")
        /\ \A f \in F : MergeCandidate(f, b)
        /\ \A f, g \in F : dataFile[f].begin < alteredAt
                              <=> dataFile[g].begin < alteredAt
        /\ stmt' = [stmt EXCEPT ![w] =
               [NoStatement EXCEPT !.op = "merge", !.base = b,
                   !.entries = {SourceEntry(f, {}) : f \in F},
                   !.out = UNION {{[p EXCEPT !.origin = originIn(f, p)] :
                                      p \in dataFile[f].rows} : f \in F},
                   !.outBegin = Least(begins),
                   !.outMax = IF partial THEN Greatest(maxes) ELSE NULL]]

\* rewrite_data_files over file f: the output holds its undeleted rows, without
\* origins, from the commit on.
BeginRewrite(w, b, f) ==
    LET prev == DeleteFilesAt(f, b)
    IN  /\ Starts(w, "rewrite")
        /\ prev # {} \/ InlinedDeletesAt(f, b) # {}
        /\ stmt' = [stmt EXCEPT ![w] =
               [NoStatement EXCEPT !.op = "rewrite", !.base = b,
                   !.entries = {SourceEntry(f, prev)},
                   !.out = {[p EXCEPT !.origin = 0] : p \in RawPositionsAt(f, b)}]]

\* plan_file_deletes: the earliest snapshot each position is deleted at.
Earliest(D) == {e \in D : \A o \in D : o.pos = e.pos => e.at <= o.at}

InlinedDeletionsOf(f, b) ==
    {[pos |-> i.pos, at |-> i.begin] :
        i \in {j \in inlinedDelete : j.file = f /\ j.begin <= b}}

\* The delete file a flush at b merges f's inlined deletions into: the visible
\* one, or the latest one of a file retired by b.
DeleteFileToFlush(f, b) ==
    IF dataFile[f].end = NULL \/ dataFile[f].end > b THEN DeleteFilesAt(f, b)
    ELSE LET D == {d \in DOMAIN deleteFile : d[1] = f /\ deleteFile[d].begin <= b}
         IN  {d \in D : \A o \in D : deleteFile[o].begin <= deleteFile[d].begin}

FlushEntry(f, b) ==
    LET prev == DeleteFileToFlush(f, b)
    IN  [file |-> f, prev |-> prev, how |-> "flushed", pos |-> {},
         carried |-> Earliest(InlinedDeletionsOf(f, b) \cup EntriesOf(prev)),
         fileEnd |-> dataFile[f].end,
         delEnd |-> IF dataFile[f].end = NULL \/ prev = {} THEN NULL
                    ELSE deleteFile[CHOOSE d \in prev : TRUE].end]

\* A retired file's deletions stay inlined when its merged delete file would
\* overlap an earlier one, or when one of them follows the end of the latest.
StaysInlined(e, b) ==
    /\ e.fileEnd # NULL
    /\ \E d \in e.prev :
        \/ \E o \in DOMAIN deleteFile :
               /\ o[1] = e.file
               /\ deleteFile[o].begin < deleteFile[d].begin
               /\ deleteFile[o].end > Least({c.at : c \in e.carried})
        \/ /\ deleteFile[d].end # NULL
           /\ \E i \in InlinedDeletionsOf(e.file, b) : i.at >= deleteFile[d].end

\* flush_inlined_data at base b: every inlined row written up to b goes to one
\* file that keeps its origin, its ended rows to a delete file beside it, and
\* the inlined deletions of data files to those files' delete files.
BeginFlush(w, b) ==
    LET rows    == {r \in inlinedRow : r.begin <= b}
        files   == {f \in DOMAIN dataFile : /\ dataFile[f].begin <= b
                                            /\ InlinedDeletionsOf(f, b) # {}}
        entries == {e \in {FlushEntry(f, b) : f \in files} : ~StaysInlined(e, b)}
        origins == {r.begin : r \in rows}
    IN  /\ Starts(w, "flush")
        /\ rows # {} \/ entries # {}
        /\ stmt' = [stmt EXCEPT ![w] =
               [NoStatement EXCEPT !.op = "flush", !.base = b, !.entries = entries,
                   !.out = {InlinedAsRow(r) : r \in rows},
                   !.outBegin = IF rows = {} THEN NULL ELSE Least(origins),
                   !.outMax = IF rows = {} THEN NULL ELSE Greatest(origins),
                   !.dels = {[pos |-> InlinedAsRow(r), at |-> r.end] :
                                r \in {q \in rows : q.end # NULL}}]]

-----------------------------------------------------------------------------
\* The pieces of a commit.

Own == Head + 1

\* Mutant: a commit that does not record its changes.
Records_Nothing(tokens) ==
    /\ snapshots' = snapshots \cup {Own}
    /\ UNCHANGED changes

\* insert_snapshot and record_snapshot_changes.
Records(tokens) ==
    /\ snapshots' = snapshots \cup {Own}
    /\ changes' = [s \in snapshots \cup {Own} |->
                      IF s = Own THEN tokens ELSE changes[s]]

\* changes_between: what other transactions did since the base.
TokensSince(b) == UNION {changes[s] : s \in {t \in snapshots : t > b}}

Inserts(st) == st.fresh > 0 \/ st.kept # {}
Has(st, hows) == \E e \in st.entries : e.how \in hows

\* TableChanges::of_staged, of_flush and append.
ChangesOf(st) ==
    {c \in TableChange :
        \/ c = "inserted_into" /\ Inserts(st) /\ ~st.inline
        \/ c = "inserted_inlined" /\ Inserts(st) /\ st.inline
        \/ c = "deleted_from"
               /\ Has(st, {"positional", "rewritten", "dropped", "flushed"})
        \/ c = "deleted_inlined" /\ (st.ended # {} \/ Has(st, {"inlined"}))
        \/ c = "flushed_inlined" /\ st.op = "flush" /\ st.out # {}}

\* The positions of file f with an inlined deletion since b and none before
\* (detect_new_inlined_deletes).
NewInlinedDeletes(f, b) ==
    {i.pos : i \in {j \in inlinedDelete : j.file = f /\ j.begin > b}}
        \ InlinedDeletesAt(f, b)

\* row_mutation_source_files and inlined_deletion_conflict.
MeetsInlinedDelete(st, e) ==
    LET new == NewInlinedDeletes(e.file, st.base)
    IN  IF Inserts(st) \/ e.how \in {"dropped", "source"} THEN new # {}
        ELSE new \cap (e.pos \cup PositionsOf(e.carried)) # {}

\* Mutant: a commit that compares only the data file.
StillCurrent_DataFileOnly(e) == e.file \in LiveDataFiles

\* The compare-and-swap on a data file and its delete file that every commit
\* runs before it touches them.
StillCurrent(e) ==
    e.file \in LiveDataFiles /\ LiveDeleteFile(e.file) = e.prev

\* Mutant: row ids are counted from one.
RowIds_FromOne(st) == st.kept \cup {nextRowId + i : i \in 1 .. st.fresh}

\* allocate_row_id_start: appended rows draw ids, rewritten ones embed theirs.
RowIds(st) == st.kept \cup {nextRowId + i : i \in 0 .. st.fresh - 1}
NewRows(st) == {[rid |-> r, val |-> Own, origin |-> 0] : r \in RowIds(st)}

NewDataFile(st) ==
    [begin |-> Own, end |-> NULL, partialMax |-> NULL, rows |-> NewRows(st)]

FilesOf(st, how) == {e.file : e \in {x \in st.entries : x.how = how}}
PrevOf(st, hows) == UNION {e.prev : e \in {x \in st.entries : x.how \in hows}}

End(row) == [row EXCEPT !.end = Own]

\* commit_files_at_snapshot, and drop_data_files or retire_prior_generation:
\* the data files once the statement's rows are added and those of F ended.
DataFilesAfter(st, F) ==
    LET added == IF Inserts(st) /\ ~st.inline THEN {Own} ELSE {}
    IN  [f \in DOMAIN dataFile \cup added |->
            IF f \in added THEN NewDataFile(st)
            ELSE IF f \in F THEN End(dataFile[f]) ELSE dataFile[f]]

\* Mutant: the inlined rows a statement supersedes are not ended.
InlinedRowsAfter_NoneEnded(st, R) ==
    inlinedRow
        \cup (IF st.inline THEN {[rid |-> i, begin |-> Own, end |-> NULL] :
                                    i \in RowIds(st)} ELSE {})

\* commit_inlined_at_snapshot, and apply_inlined_deletes or
\* retire_prior_generation ending the rows of R.
InlinedRowsAfter(st, R) ==
    {IF r \in R THEN End(r) ELSE r : r \in inlinedRow}
        \cup (IF st.inline THEN {[rid |-> i, begin |-> Own, end |-> NULL] :
                                    i \in RowIds(st)} ELSE {})

\* A delete file an entry registers: undated positions count from the commit;
\* a rewritten or flushed file carries the date of each.
NewDeleteFile(st, e) ==
    LET date  == IF e.how = "positional" THEN Own ELSE st.date
        dels  == e.carried \cup {[pos |-> p, at |-> date] : p \in e.pos}
        dates == {d.at : d \in dels}
    IN  IF e.how = "positional"
        THEN [begin |-> Own, end |-> NULL, partialMax |-> NULL, dels |-> dels]
        ELSE [begin |-> Least(dates), end |-> e.delEnd,
              partialMax |-> Greatest(dates), dels |-> dels]

\* apply_positional_deletes and replace_delete_files.  A rewritten delete file
\* replaces the row of its predecessor, which is removed.
DeleteFilesAfter(st) ==
    LET writing == {e \in st.entries :
                       e.how \in {"positional", "rewritten", "flushed"}}
        added   == {<<e.file, Own>> : e \in writing}
        removed == PrevOf(st, {"rewritten", "flushed"})
    IN  [d \in (DOMAIN deleteFile \ removed) \cup added |->
            IF d \in added
            THEN NewDeleteFile(st, CHOOSE e \in writing : e.file = d[1])
            ELSE IF d \in PrevOf(st, {"positional"}) THEN End(deleteFile[d])
            ELSE deleteFile[d]]

InlinedDeletesAfter(st) ==
    inlinedDelete \cup
        UNION {{[file |-> e.file, pos |-> p, begin |-> Own] : p \in e.pos} :
                  e \in {x \in st.entries : x.how = "inlined"}}

\* The rows of a commit that inserts, deletes or updates.
WritesRows(st) ==
    /\ dataFile' = DataFilesAfter(st, FilesOf(st, "dropped"))
    /\ inlinedRow' = InlinedRowsAfter(st, {r \in LiveInlinedRows : r.rid \in st.ended})
    /\ deleteFile' = DeleteFilesAfter(st)
    /\ inlinedDelete' = InlinedDeletesAfter(st)
    /\ nextRowId' = nextRowId + st.fresh
    /\ scheduled' = scheduled \cup PrevOf(st, {"rewritten"})
    /\ UNCHANGED <<tableEnd, alteredAt>>

Settles(w) == stmt' = [stmt EXCEPT ![w] = NoStatement]

-----------------------------------------------------------------------------
\* register_data_files and register_inlined_data, mode Append.
CanAppend(st) ==
    /\ tableEnd = NULL
    /\ ~TableConflict({"inserted_into"}, TokensSince(st.base))

CommitAppend(w) ==
    LET st == stmt[w]
    IN  /\ st.op = "append"
        /\ CanAppend(st)
        /\ WritesRows(st)
        /\ Records(TokensOf(ChangesOf(st)))
        /\ Settles(w)

\* What ending everything live deletes (replaced_storage, commit_truncate).
StorageInUse ==
    (IF LiveDataFiles # {} THEN {"deleted_from"} ELSE {})
        \cup (IF LiveInlinedRows # {} THEN {"deleted_inlined"} ELSE {})

\* Mutant: a row of the base snapshot itself counts as changed since.
ChangedSince_AtBase(row, b) == row.begin >= b \/ row.end >= b

\* detect_replace_conflict: the table's storage has not changed since the base.
ChangedSince(row, b) == row.begin > b \/ row.end > b

CanReplace(st) ==
    /\ tableEnd = NULL
    /\ \A f \in DOMAIN dataFile : ~ChangedSince(dataFile[f], st.base)
    /\ \A d \in DOMAIN deleteFile : ~ChangedSince(deleteFile[d], st.base)
    /\ \A r \in inlinedRow : ~ChangedSince(r, st.base)
    /\ \A i \in inlinedDelete : i.begin <= st.base

\* The same calls, mode Replace: the prior generation ends, its delete files
\* stay as they are (retire_prior_generation, replaced_storage).
CommitReplace(w) ==
    LET st == stmt[w]
    IN  /\ st.op = "replace"
        /\ CanReplace(st)
        /\ dataFile' = DataFilesAfter(st, LiveDataFiles)
        /\ inlinedRow' = InlinedRowsAfter(st, LiveInlinedRows)
        /\ nextRowId' = nextRowId + st.fresh
        /\ Records(TokensOf(ChangesOf(st) \cup StorageInUse))
        /\ Settles(w)
        /\ UNCHANGED <<deleteFile, inlinedDelete, scheduled, tableEnd, alteredAt>>

\* Whether a DELETE or UPDATE goes through the staged commit
\* (needs_staged_commit, or inlined rows on either side).
Staged(st) ==
    \/ st.inline
    \/ st.ended # {}
    \/ Has(st, {"inlined", "dropped", "rewritten"})

\* The checks commit_multi_table runs before it touches a file, in their order.
PassesTableChecks(st) ==
    /\ ~TableConflict(ChangesOf(st), TokensSince(st.base))
    /\ tableEnd = NULL
    /\ alteredAt <= st.base
    /\ \A e \in st.entries : e.how # "inlined" => ~MeetsInlinedDelete(st, e)

\* No snapshot was committed at or after the one rewritten delete files date
\* their deletions to (rewritten_deletes_snapshot).
DateHolds(st) == Has(st, {"rewritten"}) => Head < st.date

\* apply_inlined_deletes: no inlined row was written or ended since the base.
InlinedRowsUnchanged(st) ==
    st.ended # {} => \A r \in inlinedRow : ~ChangedSince(r, st.base)

CanCommitStaged(st) ==
    /\ PassesTableChecks(st)
    /\ DateHolds(st)
    /\ InlinedRowsUnchanged(st)
    /\ \A e \in st.entries : StillCurrent(e)

CommitStaged(w) ==
    LET st == stmt[w]
    IN  /\ st.op \in {"delete", "update"} /\ Staged(st)
        /\ CanCommitStaged(st)
        /\ WritesRows(st)
        /\ Records(TokensOf(ChangesOf(st)))
        /\ Settles(w)

\* commit_positional_deletes (DELETE) and register_data_files_with_deletes
\* (UPDATE): new delete files only, and for an UPDATE one new data file.
CanCommitDirect(st) ==
    /\ ~TableConflict(ChangesOf(st), TokensSince(st.base))
    /\ st.op = "update" => tableEnd = NULL
    /\ \A e \in st.entries : ~MeetsInlinedDelete(st, e) /\ StillCurrent(e)

CommitDirect(w) ==
    LET st == stmt[w]
    IN  /\ st.op \in {"delete", "update"} /\ ~Staged(st)
        /\ CanCommitDirect(st)
        /\ WritesRows(st)
        /\ Records(TokensOf(ChangesOf(st)))
        /\ Settles(w)

\* DuckLakeWriteTransaction::commit, after a refusal because a data file it
\* deletes from inline got another delete file: the statement expects that one
\* when it deletes none of the same rows (accept_disjoint_delete_file).
DisjointEntry(st, e) ==
    /\ e.how = "inlined"
    /\ e.file \in LiveDataFiles
    /\ LiveDeleteFile(e.file) \notin {{}, e.prev}
    /\ PositionsOf(EntriesOf(LiveDeleteFile(e.file))) \cap e.pos = {}

CanAcceptDisjoint(st) ==
    /\ st.attempt + 1 < MaxAttempts
    /\ PassesTableChecks(st) /\ DateHolds(st) /\ InlinedRowsUnchanged(st)
    /\ \A e \in st.entries :
           e.how \in {"positional", "rewritten"} => StillCurrent(e)
    /\ \E e \in st.entries : DisjointEntry(st, e)

AcceptDisjoint(w) ==
    LET st == stmt[w]
    IN  /\ st.op \in {"delete", "update"} /\ Staged(st)
        /\ CanAcceptDisjoint(st)
        /\ \E e \in {x \in st.entries : DisjointEntry(st, x)} :
              stmt' = [stmt EXCEPT ![w] =
                  [st EXCEPT !.attempt = @ + 1,
                      !.entries = (@ \ {e}) \cup
                          {[e EXCEPT !.prev = LiveDeleteFile(e.file)]}]]
        /\ UNCHANGED catalogVars

\* The other retry: the rewritten delete files are written again, dated to the
\* next snapshot (redate_target, redate).
CanRedate(st) ==
    /\ st.attempt + 1 < MaxAttempts
    /\ PassesTableChecks(st)
    /\ ~DateHolds(st)

\* Mutants: the delete files are dated one snapshot too late; or to the head,
\* again and again.
Redate_TooLate(w) ==
    /\ stmt[w].op \in {"delete", "update"} /\ Staged(stmt[w])
    /\ CanRedate(stmt[w])
    /\ stmt' = [stmt EXCEPT ![w].attempt = @ + 1, ![w].date = Head + 2]
    /\ UNCHANGED catalogVars

Redate_ToHead(w) ==
    /\ stmt[w].op \in {"delete", "update"} /\ Staged(stmt[w])
    /\ CanRedate(stmt[w])
    /\ stmt' = [stmt EXCEPT ![w].date = Head]
    /\ UNCHANGED catalogVars

Redate(w) ==
    LET st == stmt[w]
    IN  /\ st.op \in {"delete", "update"} /\ Staged(st)
        /\ CanRedate(st)
        /\ stmt' = [stmt EXCEPT ![w] =
               [st EXCEPT !.attempt = @ + 1, !.date = Head + 1]]
        /\ UNCHANGED catalogVars

\* commit_truncate: every live file, delete file and inlined row ends.  With
\* nothing live it commits nothing.
CanTruncate(st) ==
    /\ StorageInUse # {}
    /\ ~TableConflict(StorageInUse, TokensSince(st.base))

EndDeleteFiles(D) ==
    [d \in DOMAIN deleteFile |->
        IF d \in D THEN End(deleteFile[d]) ELSE deleteFile[d]]

LiveDeleteFiles == {d \in DOMAIN deleteFile : IsLive(deleteFile[d])}

CommitTruncate(w) ==
    LET st == stmt[w]
    IN  /\ st.op = "truncate"
        /\ CanTruncate(st)
        /\ dataFile' = DataFilesAfter(st, LiveDataFiles)
        /\ inlinedRow' = InlinedRowsAfter(st, LiveInlinedRows)
        /\ deleteFile' = EndDeleteFiles(LiveDeleteFiles)
        /\ Records(TokensOf(StorageInUse))
        /\ Settles(w)
        /\ UNCHANGED <<inlinedDelete, nextRowId, scheduled, tableEnd, alteredAt>>

\* commit_compaction: no table-level check; the sources must be as they were read.
CanCompact(st) ==
    \A e \in st.entries :
        NewInlinedDeletes(e.file, st.base) = {} /\ StillCurrent(e)

DeleteFilesOf(F) == {d \in DOMAIN deleteFile : d[1] \in F}

\* Mutant: delete files are not scheduled.
ScheduledAfter_DataOnly(F, D) == scheduled \cup (F \X {0})

\* Schedules data files F and delete files D (a data file f as <<f, 0>>).
ScheduledAfter(F, D) == scheduled \cup D \cup (F \X {0})

\* The file a compaction or a flush wrote; it writes none for no rows.
OutputFile(st) ==
    [begin |-> IF st.outBegin = NULL THEN Own ELSE st.outBegin, end |-> NULL,
     partialMax |-> st.outMax, rows |-> st.out]

WithOutput(st, files) ==
    [f \in (DOMAIN files) \cup (IF st.out = {} THEN {} ELSE {Own}) |->
        IF f = Own THEN OutputFile(st) ELSE files[f]]

\* Mutant: the rows of scheduled files stay.
Without_None(files, F) == files

Without(files, F) == [f \in DOMAIN files \ F |-> files[f]]

\* SourceRetirement::Remove: the output serves every snapshot the sources did.
CommitMerge(w) ==
    LET st == stmt[w]
        F  == FilesOf(st, "source")
        D  == DeleteFilesOf(F)
    IN  /\ st.op = "merge"
        /\ CanCompact(st)
        /\ dataFile' = WithOutput(st, Without(dataFile, F))
        /\ deleteFile' = Without(deleteFile, D)
        /\ scheduled' = ScheduledAfter(F, D)
        /\ Records({"merge_adjacent"})
        /\ Settles(w)
        /\ UNCHANGED <<inlinedRow, inlinedDelete, nextRowId, tableEnd, alteredAt>>

\* SourceRetirement::Retire: the sources keep serving the snapshots before.
CommitRewrite(w) ==
    LET st == stmt[w]
        F  == FilesOf(st, "source")
    IN  /\ st.op = "rewrite"
        /\ CanCompact(st)
        /\ dataFile' = WithOutput(st, DataFilesAfter(st, F))
        /\ deleteFile' = EndDeleteFiles(DeleteFilesOf(F) \cap LiveDeleteFiles)
        /\ Records({"rewrite_delete"})
        /\ Settles(w)
        /\ UNCHANGED <<inlinedRow, inlinedDelete, nextRowId, scheduled, tableEnd,
                       alteredAt>>

\* replace_delete_files: the file is as live or as retired as it was, and its
\* live (or, once retired, latest) delete file is the one the flush read.
StillFlushable(e) ==
    LET D == {d \in DeleteFilesOf({e.file}) : e.fileEnd # NULL \/ IsLive(deleteFile[d])}
    IN  /\ e.file \in DOMAIN dataFile
        /\ dataFile[e.file].end = e.fileEnd
        /\ e.prev = {d \in D : \A o \in D : deleteFile[o].begin <= deleteFile[d].begin}

CanFlush(st) ==
    /\ ~TableConflict(ChangesOf(st), TokensSince(st.base))
    /\ tableEnd = NULL
    /\ \A e \in st.entries : StillFlushable(e)

\* The delete file beside a flushed file, each position dated.
BesideOutput(st) ==
    [begin |-> Least({d.at : d \in st.dels}), end |-> NULL, partialMax |-> NULL,
     dels |-> st.dels]

CommitFlush(w) ==
    LET st     == stmt[w]
        beside == IF st.dels = {} THEN {} ELSE {<<Own, Own>>}
        others == DeleteFilesAfter(st)
    IN  /\ st.op = "flush"
        /\ CanFlush(st)
        /\ dataFile' = WithOutput(st, dataFile)
        /\ deleteFile' = [d \in (DOMAIN others) \cup beside |->
                             IF d \in beside THEN BesideOutput(st) ELSE others[d]]
        /\ inlinedDelete' = {i \in inlinedDelete :
                                i.file \in FilesOf(st, "flushed") => i.begin > st.base}
        /\ inlinedRow' = {r \in inlinedRow : st.out # {} => r.begin > st.base}
        /\ scheduled' = ScheduledAfter({}, PrevOf(st, {"flushed"}))
        /\ Records(TokensOf(ChangesOf(st)))
        /\ Settles(w)
        /\ UNCHANGED <<nextRowId, tableEnd, alteredAt>>

-----------------------------------------------------------------------------
\* How a statement ends without a commit.
CanCommit(st) ==
    CASE st.op = "append"   -> CanAppend(st)
      [] st.op = "replace"  -> CanReplace(st)
      [] st.op = "truncate" -> CanTruncate(st)
      [] st.op = "flush"    -> CanFlush(st)
      [] st.op \in {"merge", "rewrite"}  -> CanCompact(st)
      [] st.op \in {"delete", "update"} ->
             IF Staged(st) THEN CanCommitStaged(st) ELSE CanCommitDirect(st)

CanRetry(st) ==
    /\ st.op \in {"delete", "update"}
    /\ Staged(st)
    /\ CanAcceptDisjoint(st) \/ CanRedate(st)

TruncatesNothing(st) == st.op = "truncate" /\ StorageInUse = {}

\* A Conflict: the transaction rolls back and the statement fails.
Refuse(w) ==
    LET st == stmt[w]
    IN  /\ st.op # "none"
        /\ ~CanCommit(st) /\ ~CanRetry(st) /\ ~TruncatesNothing(st)
        /\ Settles(w)
        /\ UNCHANGED catalogVars

TruncateNothing(w) ==
    /\ TruncatesNothing(stmt[w])
    /\ Settles(w)
    /\ UNCHANGED catalogVars

-----------------------------------------------------------------------------
\* The operations that run in one catalog transaction.
Immediate(op) == op \in Ops /\ tableEnd = NULL /\ WithinBound

\* promote_column_type: a new column generation.
Alter ==
    /\ Immediate("alter")
    /\ alteredAt' = Own
    /\ Records({"altered_table"})
    /\ UNCHANGED <<tableEnd, dataFile, deleteFile, inlinedRow, inlinedDelete,
                   nextRowId, scheduled, stmt>>

\* drop_table ends the table, its data files and its delete files; the inlined
\* rows stay as they are.
Drop ==
    /\ Immediate("drop")
    /\ tableEnd' = Own
    /\ dataFile' = DataFilesAfter(NoStatement, LiveDataFiles)
    /\ deleteFile' = EndDeleteFiles(LiveDeleteFiles)
    /\ Records({"dropped_table"})
    /\ UNCHANGED <<alteredAt, inlinedRow, inlinedDelete, nextRowId, scheduled, stmt>>

\* Mutant: a delete file rewritten since b passes for one of before b.
PureAppendSince_ByBegin(b) ==
    /\ \A d \in DOMAIN deleteFile : deleteFile[d].begin <= b
    /\ \A f \in DOMAIN dataFile : dataFile[f].begin <= b =>
           /\ dataFile[f].end <= b
           /\ IsLive(dataFile[f]) => dataFile[f].partialMax <= b
    /\ alteredAt <= b
    /\ \A r \in inlinedRow : r.end <= b
    /\ \A i \in inlinedDelete : i.begin <= b

\* retire_appends_since(b): nothing but appends happened since b.
PureAppendSince(b) ==
    /\ \A d \in DOMAIN deleteFile :
           deleteFile[d].begin <= b /\ deleteFile[d].partialMax <= b
    /\ \A f \in DOMAIN dataFile : dataFile[f].begin <= b =>
           /\ dataFile[f].end <= b
           /\ IsLive(dataFile[f]) => dataFile[f].partialMax <= b
    /\ alteredAt <= b
    /\ \A r \in inlinedRow : r.end <= b
    /\ \A i \in inlinedDelete : i.begin <= b

AppendedFiles(b) == {f \in LiveDataFiles : dataFile[f].begin > b}
AppendedRows(b) == {r \in LiveInlinedRows : r.begin > b}

\* Its contract has the caller serialize writes to the table.
RetireAppends(b) ==
    /\ Immediate("retire")
    /\ Active = {}
    /\ PureAppendSince(b)
    /\ AppendedFiles(b) # {} \/ AppendedRows(b) # {}
    /\ dataFile' = DataFilesAfter(NoStatement, AppendedFiles(b))
    /\ inlinedRow' = InlinedRowsAfter(NoStatement, AppendedRows(b))
    /\ Records((IF AppendedFiles(b) # {} THEN {"deleted_from_table"} ELSE {})
                  \cup (IF AppendedRows(b) # {} THEN {"inlined_delete"} ELSE {}))
    /\ UNCHANGED <<tableEnd, alteredAt, deleteFile, inlinedDelete, nextRowId,
                   scheduled, stmt>>

\* Mutant: the snapshot a row begins at does not keep it.
Uncovered_AfterBegin(row, S) ==
    row.end # NULL /\ \A s \in snapshots \ S : ~(row.begin < s /\ s < row.end)

\* expire_snapshots(S).  A catalog row that ended goes with the last surviving
\* snapshot that sees it, everything of a dropped table with the table.
Uncovered(row, S) ==
    row.end # NULL /\ \A s \in snapshots \ S : ~(row.begin <= s /\ s < row.end)

TableDead(S) ==
    tableEnd # NULL /\ \A s \in snapshots \ S : s >= tableEnd

DeadDataFiles(S) ==
    {f \in DOMAIN dataFile : TableDead(S) \/ Uncovered(dataFile[f], S)}

DeadDeleteFiles(S) ==
    {d \in DOMAIN deleteFile : \/ TableDead(S)
                               \/ d[1] \in DeadDataFiles(S)
                               \/ Uncovered(deleteFile[d], S)}

Expire(S) ==
    /\ "expire" \in Ops
    /\ S # {} /\ S \subseteq snapshots \ {Head}
    /\ ExpiryWaits => \A w \in Active, s \in S : s <= stmt[w].base
    /\ snapshots' = snapshots \ S
    /\ changes' = [s \in snapshots \ S |-> changes[s]]
    /\ dataFile' = Without(dataFile, DeadDataFiles(S))
    /\ deleteFile' = Without(deleteFile, DeadDeleteFiles(S))
    /\ scheduled' = ScheduledAfter(DeadDataFiles(S), DeadDeleteFiles(S))
    /\ inlinedRow' = IF TableDead(S) THEN {} ELSE inlinedRow
    /\ inlinedDelete' = IF TableDead(S) THEN {} ELSE inlinedDelete
    /\ UNCHANGED <<tableEnd, alteredAt, nextRowId, stmt>>

\* Another table's commit: a snapshot that names nothing of this one.
OtherCommit ==
    /\ "other" \in Ops
    /\ WithinBound
    /\ Records({})
    /\ UNCHANGED <<tableEnd, alteredAt, dataFile, deleteFile, inlinedRow,
                   inlinedDelete, nextRowId, scheduled, stmt>>

\* The end of a bounded run: no statement is in flight and none can begin.
Quiescent ==
    /\ Active = {}
    /\ tableEnd # NULL \/ ~WithinBound
    /\ UNCHANGED vars

-----------------------------------------------------------------------------
\* SQLite's create: the table is there, empty, at snapshot 1.
Init ==
    /\ snapshots = {1}
    /\ changes = [s \in {1} |-> {"created_table"}]
    /\ tableEnd = NULL
    /\ alteredAt = 1
    /\ dataFile = [f \in {} |-> {}]
    /\ deleteFile = [d \in {} |-> {}]
    /\ inlinedRow = {}
    /\ inlinedDelete = {}
    /\ nextRowId = 0
    /\ scheduled = {}
    /\ stmt = [w \in Writers |-> NoStatement]

Begin(w) ==
    \/ \E op \in {"append", "replace"}, n \in InsertSizes, limit \in InlineLimits :
           BeginInsert(w, op, n, limit)
    \/ \E op \in {"delete", "update"}, b \in Bases, limit \in InlineLimits :
           \E T \in SUBSET MatchableAt(b) :
               /\ Cardinality(T) \in 1 .. MaxTargets
               /\ BeginMutation(w, op, b, T, limit)
    \/ \E b \in Bases :
           \/ BeginTruncate(w, b)
           \/ BeginFlush(w, b)
           \/ \E f \in DataFilesAt(b) : BeginRewrite(w, b, f)
           \/ \E f, g \in DataFilesAt(b) : f < g /\ BeginMerge(w, b, {f, g})

Settle(w) ==
    \/ CommitAppend(w)   \/ CommitReplace(w) \/ CommitStaged(w)
    \/ CommitDirect(w)   \/ AcceptDisjoint(w) \/ Redate(w)
    \/ CommitTruncate(w) \/ CommitMerge(w)   \/ CommitRewrite(w)
    \/ CommitFlush(w)    \/ Refuse(w)        \/ TruncateNothing(w)

Next ==
    \/ \E w \in Writers : Begin(w) \/ Settle(w)
    \/ Alter
    \/ Drop
    \/ \E b \in snapshots : RetireAppends(b)
    \/ \E S \in SUBSET snapshots : Expire(S)
    \/ OtherCommit
    \/ Quiescent

Spec == Init /\ [][Next]_vars

-----------------------------------------------------------------------------
\* Every catalog row and every statement has the shape the code gives it.
TypeOK ==
    /\ snapshots \subseteq Nat
    /\ changes \in [snapshots -> SUBSET Token]
    /\ tableEnd \in Nat /\ alteredAt \in Nat
    /\ DOMAIN dataFile \subseteq Nat
    /\ \A f \in DOMAIN dataFile : dataFile[f] \in DataFileRow
    /\ DOMAIN deleteFile \subseteq DeleteFileId
    /\ \A d \in DOMAIN deleteFile : deleteFile[d] \in DeleteFileRow
    /\ inlinedRow \subseteq InlinedRow
    /\ inlinedDelete \subseteq InlinedDelete
    /\ nextRowId \in Nat
    /\ scheduled \subseteq DeleteFileId
    /\ stmt \in [Writers -> Statement]
=============================================================================
