-------------------------- MODULE WriterProperties --------------------------
(***************************************************************************)
(* What every catalog backend owes its writers, whatever its isolation     *)
(* level and locks.                                                        *)
(***************************************************************************)
EXTENDS SqlTransactions

Entries == 1..Len(log)
Snapshots == {i \in Entries : log[i].id # 0}
\* The commits a writer could not have read when it fixed its base.
Unseen(i) == (log[i].baseAt + 1)..(i - 1)

\* Snapshot ids follow the commit order: insert_snapshot hands them out under a
\* lock held until COMMIT, so `> base_snapshot` means "committed since".
IdsFollowCommits == \A i, j \in Snapshots : i < j => log[i].id < log[j].id

\* The scalar conflict test is exact: nothing that a commit refused, in the rows
\* (detect_replace_conflict and the like) or in the ledger
\* (check_table_conflicts), was committed between its base and itself.
ConflictTestExact ==
    \A i \in Entries : \A j \in Unseen(i) :
        /\ log[j].made \cap log[i].refused = {}
        /\ ~TableConflict(log[i].ours, log[j].tokens)

\* enforce_partition_fence and enforce_inline_partition_fence: rows land under
\* the partition spec they were written for, whoever sets or resets the spec
\* meanwhile.
FilesMatchSpec ==
    \A i \in Entries :
        log[i].made \cap {"file+", "row+"} # {} => SpecAt(i - 1) = SpecAt(log[i].baseAt)

\* No two commits insert rows under the same row id (next_row_id is read, then
\* advanced), and no id of a counter or sequence is handed out twice.
NothingIssuedTwice ==
    \A i, j \in Entries : i < j =>
        /\ log[i].row = log[j].row => log[i].row = NoRow
        /\ log[i].ids \cap log[j].ids = {}

ChangesSchema(e) ==
    e.made \cap {"table+", "table-", "column", "promote", "partition", "unpartition",
                 "sort"} # {}

\* Schema versions never go back, and a schema change has one of its own:
\* insert_snapshot carries the version forward, bump_schema_version raises it.
VersionsGrow ==
    \A i, j \in Snapshots : i < j =>
        /\ log[i].version <= log[j].version
        /\ ChangesSchema(log[j]) => log[i].version < log[j].version

\* The column statistics a commit merges and stores back include those of every
\* commit before it (merge_file_table_column_stats reads, then writes).
StatsKeepEveryCommit ==
    \A i \in Entries : log[i].stats # NoView =>
        \A j \in (log[i].stats + 1)..(i - 1) : log[j].stats = NoView

\* What a commit must not do when another committed the second change since
\* its base: the deletions it replaces or copies would be lost, the file it
\* deletes from is gone, its name is taken.  A Replace or a truncation ends
\* every row there is.
FileGone == {"file-", "file~"}
Deletions == {"delete+", "delete~", "idelete+"}

Clashes ==
    ({"delete+", "delete~"} \X (FileGone \cup {"delete+", "delete~"}))
    \cup ({"idelete+"} \X FileGone)
    \cup ({"merged+", "rewritten+"} \X (FileGone \cup Deletions))
    \cup ({"flushed+"} \X {"row-", "row~"})
    \cup {<<"schema+", "schema+">>, <<"table+", "table+">>}
    \cup ({"file+", "merged+", "rewritten+", "flushed+", "row+", "row-", "delete+", "delete~",
           "idelete+", "append-", "promote", "partition", "sort"} \X {"table-"})

EndsTable(e) == "file-" \in e.made
Adds(e) == e.made \cap {"file+", "row+"} # {} /\ ~EndsTable(e)

\* No update is lost: a commit that copies or replaces rows, deletions or a name
\* it read at its base never lands after another that changed them, and rows are
\* added to the columns they were written for (the ledger check of an append and
\* validate_staged_table; a Replace, which ends the rows before it, brings its
\* own columns).
NoLostUpdate ==
    \A i \in Entries : \A j \in Unseen(i) :
        /\ (log[i].made \X log[j].made) \cap Clashes = {}
        /\ "row-" \in log[i].made /\ ~EndsTable(log[i]) => "row~" \notin log[j].made
        /\ Adds(log[i]) => log[j].made \cap {"column", "promote"} = {}

Sets(e) == e.made \cap {"setting", "inlining"} # {}

\* A setting has one row: the DELETE of every set_*_setting removes the rows of
\* all setters that committed before it.
OneRowPerSetting ==
    \A i, j \in Entries : i < j /\ Sets(log[i]) /\ Sets(log[j]) => log[j].swept >= i

\* A table with a column of a reserved name never has an inlining limit above
\* zero: reject_new_reserved_columns and the setters look at each other's rows.
ReservedNamesRefused ==
    ~\E i, j \in Entries : "reserved" \in log[i].made /\ "inlining" \in log[j].made

\* A SQLite transaction holds the write lock before it has read anything that
\* another commit could make stale (insert_snapshot comes first), so it never
\* fails because another session committed.
WriteLockFirst == \A s \in Sessions : Active(s) => ~StaleUpgrade(s)

\* Every call ends, with a commit or an error: nobody waits for ever for a lock.
CallsEnd == \A s \in Sessions : Active(s) ~> ~Active(s)
=============================================================================
