---------------------------- MODULE SqlStatements ----------------------------
(***************************************************************************)
(* The SQL statements the catalog writers are made of.  A MetadataWriter   *)
(* method is a transaction program, a sequence of these statements; the    *)
(* backend modules spell the programs out and SqlTransactions runs them.   *)
(*                                                                         *)
(* A statement says what it does, the row, table or lock it must hold      *)
(* first ("" for none), and the changes, ledger entries or counters it is  *)
(* about.  The programs are about one table, one data file of it that      *)
(* every deleting writer targets, and one name ("table+") that writers of  *)
(* a table that does not exist yet create.                                 *)
(***************************************************************************)
EXTENDS Sequences, TableConflicts

\* What a commit may do to the table's catalog rows.  "x-" ends the row at the
\* commit's snapshot, "x~" removes it without a trace.  "file-" and "delete"
\* are about the data file the deleting writers target, "append-" about files
\* and rows added since.  "reserved" adds a column with a name that inlined
\* data tables keep for themselves, "inlining" is a setting that lets the table
\* have one; "columns+" are the columns of a table the same snapshot created.
Change == {"table+", "table-", "column", "promote", "partition", "unpartition", "sort",
           "file+", "merged+", "rewritten+", "flushed+", "file-", "file~",
           "delete+", "delete-", "delete~", "idelete+", "idelete~",
           "row+", "row-", "row~", "append-",
           "schema+", "columns+", "setting", "inlining", "reserved"}

NoLock == ""

Statement(do, lock, of) == [do |-> do, lock |-> lock, of |-> of]

\* A plain SELECT whose result decides nothing modelled here.
Select == Statement("select", NoLock, {})

\* SELECT MAX(snapshot_id): the base snapshot of the write.
SelectHead == Statement("head", NoLock, {})

\* SELECT ... FOR UPDATE, LOCK TABLE, an advisory lock.
Lock(row) == Statement("lock", row, {})

\* UPDATE of a counter and read back; `row` stays locked.
Draw(row, counter) == Statement("draw", row, {counter})

\* nextval: takes no lock and is never rolled back.
NextVal(counter) == Statement("nextval", NoLock, {counter})

\* The new snapshot's id, past every snapshot, taken under `row`.
Allocate(row) == Statement("allocate", row, {})

\* The same from an identity sequence, which a rollback does not take back.
NextSnapshot == Statement("next_snapshot", NoLock, {})

\* next_snapshot_id: the id the next snapshot should get, before a transaction
\* that dates the deletions it rewrites by it.
PeekSnapshot == Statement("peek", NoLock, {})
RefuseMisdated == Statement("misdated", NoLock, {})

\* MAX(schema_version) of the snapshots, kept or raised for a schema change.
CarryVersion == Statement("carry", NoLock, {})
BumpVersion == Statement("bump", NoLock, {})

\* schema_version + 1 on the snapshot, for the table's first inlined data table.
RaiseVersion == Statement("raise", NoLock, {})

\* A schema change the commit finds out about: it raises the version when the
\* columns it proposes differ from the live ones.
Reconcile(changes) == Statement("reconcile", NoLock, changes)

\* A plain SELECT that raises Conflict when one of `changes` was committed by
\* a snapshot past the base.
Refuse(changes) == Statement("refuse", NoLock, changes)

\* A plain SELECT that fails when one of `changes` was ever committed.
RefuseEver(changes) == Statement("refuse_ever", NoLock, changes)

\* Conflict by the row count of an UPDATE or DELETE, under `row`.
RefuseNow(row, changes) == Statement("refuse_now", row, changes)

\* A plain SELECT of the ledger since the base, checked by table_conflict.
RefuseChanges(ours) == Statement("refuse_changes", NoLock, ours)

\* A plain SELECT of the live partition spec, compared with the spec the write
\* was planned for (enforce_partition_fence).
Fence == Statement("fence", NoLock, {})

\* INSERT, UPDATE and DELETE of the table's rows.
Write(changes) == Statement("write", NoLock, changes)

\* A plain SELECT of a row by name: one that is there skips the statements up to
\* its Write.
LookUp(changes) == Statement("look_up", NoLock, changes)

\* DELETE of every row of a setting there is, before its INSERT.
Sweep(row) == Statement("sweep", row, {})

\* The changes_made of the snapshot.
Record(tokens) == Statement("record", NoLock, tokens)

\* A plain SELECT of next_row_id; its rows are numbered from it, and the
\* UPDATE that follows adds their number.
RowIds == Statement("row_ids", NoLock, {})

\* SELECT of the table's column statistics, merged with the commit's own and
\* written back.
MergeColumnStats == Statement("stats", NoLock, {})

\* An early return that rolls back: the program found nothing to do.
MayStop == Statement("may_stop", NoLock, {})
\* An UPDATE of the live partition spec that hits no row.
StopUnlessPartitioned == Statement("stop_unpartitioned", NoLock, {})
StopIfCreated == Statement("stop_created", NoLock, {})

Commit == Statement("commit", NoLock, {})

When(condition, program) == IF condition THEN program ELSE <<>>

\* The statements that write, and so take SQLite's database lock.
Writing == {"lock", "draw", "allocate", "raise", "write", "sweep",
            "record", "refuse_now", "stop_unpartitioned"}

-----------------------------------------------------------------------------
\* What every backend's programs share.

\* The read at the head that a DELETE, an UPDATE, a compaction or a flush starts
\* from; a staged DELETE that rewrites delete files also asks for the next id.
Scan == <<SelectHead, Commit>>
RewriteScan == <<SelectHead, Commit, PeekSnapshot, Commit>>

\* What changes the data file a writer expects live with the delete file it saw.
FileChanged == {"file-", "file~", "delete+", "delete-", "delete~"}

\* The columns set_columns gives a table.
ColumnsSet(new) == IF new THEN {"columns+"} ELSE {"column"}

\* A Replace of the table's data file and inlined rows deletes both.
WriteTokens(mode, inserted) ==
    {inserted} \cup (IF mode = "replace"
                     THEN {"deleted_from_table", "inlined_delete"} ELSE {})
=============================================================================
