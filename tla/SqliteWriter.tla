---------------------------- MODULE SqliteWriter ----------------------------
(***************************************************************************)
(* The transaction programs of metadata_writer_sqlite.rs, one definition   *)
(* per function.  A deferred transaction must write before it reads: one   *)
(* that read first fails when another commits in between.                  *)
(***************************************************************************)
EXTENDS SqlStatements

\* What a SELECT of begin_snapshot and end_snapshot past the base finds.
RowsDated == {"file+", "rewritten+", "file-", "delete+", "delete-", "row+", "row-",
              "idelete+", "append-"}

BeginImmediate == <<Lock("database")>>

-----------------------------------------------------------------------------
\* Ids, versions and the ledger.

reserve_ids(counter) == <<Draw(NoLock, counter)>>
next_file_id == <<Select, Draw(NoLock, "next_file_id")>>

\* The largest id in use is read before the counter is raised past it.
max_catalog_id == <<Select>>
seed_catalog_counter == <<Select>>
reserve_catalog_id == seed_catalog_counter \o max_catalog_id \o <<Draw(NoLock, "next_catalog_id")>>
raise_column_ids_past_table == <<Draw(NoLock, "next_column_id")>>
raise_snapshot_watermarks == <<Write({})>>

\* Mutant: the next id is computed by a SELECT before the INSERT.
insert_snapshot_select_first == <<Select, Allocate("snapshot"), CarryVersion>>

\* INSERT ... SELECT MAX + 1 takes the database lock.
insert_snapshot == <<Allocate("snapshot"), CarryVersion>> \o raise_snapshot_watermarks

bump_schema_version == <<BumpVersion>>

record_snapshot_changes(tokens) == <<Record(tokens)>>

-----------------------------------------------------------------------------
\* Conflict checks.

check_table_conflicts(ours) == <<RefuseChanges(ours)>>
check_staged_conflicts(ours) == <<RefuseChanges(ours)>>
detect_replace_conflict == <<Refuse(RowsDated)>>
detect_created_table_conflict == <<Refuse({"table+"})>>
detect_new_inlined_deletes == <<Refuse({"idelete+"})>>
enforce_inline_partition_fence == <<Refuse({"partition", "unpartition"})>>

\* A staged write must find its table and the columns it staged for.
validate_staged_table == <<Refuse({"table-", "column", "promote"})>>

-----------------------------------------------------------------------------
\* The rows of one table.

\* A name another transaction took since the setup is refused, and so is a row
\* of the id that no live table has: the table was dropped.
reserved_table_id == <<Refuse({"table-"})>>

insert_new_table_rows(new) ==
    IF new
    THEN <<RefuseEver({"table+"}), LookUp({"schema+"})>> \o reserve_catalog_id
         \o <<Write({"schema+"}), Write({"table+"})>>
    ELSE reserved_table_id

retire_prior_generation == <<Write({"file-", "row-"})>>

\* The live delete file of the live data file must be the one the writer read.
apply_positional_deletes ==
    <<Refuse(FileChanged)>> \o next_file_id \o <<Write({"delete+"})>>
replace_delete_files ==
    <<Refuse(FileChanged)>> \o next_file_id \o <<Write({"delete~"})>>
apply_inlined_file_deletes == <<Refuse(FileChanged), Write({"idelete+"})>>
drop_data_files ==
    <<Refuse({"delete+", "delete-", "delete~"}), RefuseNow(NoLock, {"file-", "file~"}),
      Write({"file-"})>>
apply_inlined_deletes == <<Refuse({"row+", "row-"}), Write({"row-"})>>

merge_file_table_column_stats == <<MergeColumnStats>>
merge_inlined_table_column_stats == <<MergeColumnStats>>

\* A table without an inlined data table gets one under a version of its own.
inlined_insert_table(first) == When(first, <<RaiseVersion>>)

\* Mutant: a partition spec set since the write was planned goes unnoticed.
commit_files_at_snapshot_unfenced ==
    <<RowIds>> \o next_file_id \o <<Write({"file+"})>> \o merge_file_table_column_stats

commit_files_at_snapshot ==
    <<Fence, RowIds>> \o next_file_id \o <<Write({"file+"})>>
    \o merge_file_table_column_stats

commit_inlined_at_snapshot(first) ==
    enforce_inline_partition_fence \o inlined_insert_table(first)
    \o <<RowIds, Write({"row+"})>> \o merge_inlined_table_column_stats

-----------------------------------------------------------------------------
\* Names an inlined data table keeps for itself are refused where the table may
\* have one.

reject_new_reserved_columns == <<RefuseEver({"inlining"})>>

\* A new table's columns are all new; `ddl` are the changes a write proposes to
\* the columns its setup found.
reconcile_columns(ddl, new) ==
    IF new THEN bump_schema_version ELSE <<Reconcile(ddl)>>

finalize_columns(ddl, new) ==
    When("reserved" \in ddl, reject_new_reserved_columns)
    \o reconcile_columns(ddl, new)

finalize_data(mode, inserts) ==
    IF mode = "replace"
    THEN detect_replace_conflict \o retire_prior_generation
    ELSE When(inserts, check_table_conflicts({"inserted_into"}))

finalize_table_snapshot(mode, ddl, new, inserts) ==
    insert_new_table_rows(new) \o finalize_columns(ddl, new)
    \o finalize_data(mode, inserts)

finalize_snapshot(mode, ddl, new) ==
    insert_snapshot \o finalize_table_snapshot(mode, ddl, new, TRUE)

-----------------------------------------------------------------------------
\* The calls of MetadataWriter.

begin_write_transaction(new) ==
    reserve_ids("next_column_id") \o <<SelectHead>>
    \o When(new, <<StopIfCreated>> \o reserve_catalog_id)
    \o raise_column_ids_past_table \o <<Commit>>

register_data_file_with_commit_metadata(mode, expected) ==
    finalize_snapshot(mode, {}, FALSE)
    \o When(expected /\ mode # "replace", detect_replace_conflict)
    \o commit_files_at_snapshot
    \o record_snapshot_changes(WriteTokens(mode, "inserted_into_table"))
    \o <<Commit>>

register_data_files_with_commit_metadata(mode, ddl) ==
    finalize_snapshot(mode, ddl, FALSE) \o commit_files_at_snapshot
    \o record_snapshot_changes(WriteTokens(mode, "inserted_into_table"))
    \o <<Commit>>

\* CREATE TABLE.
publish_snapshot ==
    finalize_snapshot("append", {}, TRUE) \o record_snapshot_changes({}) \o <<Commit>>

register_inlined_data(mode, expected, first) ==
    BeginImmediate \o enforce_inline_partition_fence
    \o finalize_snapshot(mode, {}, FALSE)
    \o When(expected /\ mode # "replace", detect_replace_conflict)
    \o inlined_insert_table(first)
    \o <<RowIds, Write({"row+"})>> \o merge_inlined_table_column_stats
    \o record_snapshot_changes(WriteTokens(mode, "inlined_insert"))
    \o <<Commit>>

set_delete_file ==
    insert_snapshot \o check_table_conflicts({"deleted_from"})
    \o <<Refuse(FileChanged)>> \o next_file_id \o <<Write({"delete+"})>>
    \o record_snapshot_changes({"deleted_from_table"}) \o <<Commit>>

\* The new row versions and the deletions of the old ones.
register_row_versions ==
    commit_files_at_snapshot \o apply_positional_deletes
    \o record_snapshot_changes({"inserted_into_table", "deleted_from_table"})
    \o <<Commit>>

register_data_file_with_deletes_and_commit_metadata ==
    finalize_snapshot("append", {}, FALSE)
    \o check_table_conflicts({"inserted_into", "deleted_from"})
    \o detect_new_inlined_deletes \o register_row_versions

register_data_files_with_deletes_and_commit_metadata ==
    finalize_snapshot("append", {}, FALSE) \o detect_replace_conflict
    \o check_table_conflicts({"inserted_into", "deleted_from"})
    \o detect_new_inlined_deletes \o register_row_versions

commit_positional_deletes ==
    insert_snapshot \o check_table_conflicts({"deleted_from"})
    \o detect_new_inlined_deletes \o apply_positional_deletes
    \o record_snapshot_changes({"deleted_from_table"}) \o <<Commit>>

commit_inlined_deletes ==
    insert_snapshot \o check_table_conflicts({"deleted_inlined"})
    \o apply_inlined_deletes \o record_snapshot_changes({"inlined_delete"})
    \o <<Commit>>

commit_deletes ==
    insert_snapshot \o check_table_conflicts({"deleted_from", "deleted_inlined"})
    \o apply_positional_deletes \o apply_inlined_deletes
    \o record_snapshot_changes({"deleted_from_table", "inlined_delete"})
    \o <<Commit>>

\* Remove leaves the merged files' rows under their old snapshots; Retire ends
\* the sources and starts the outputs at the commit's.
retire_sources(retirement) ==
    IF retirement = "Remove" THEN <<Write({"file~", "delete~"})>>
                             ELSE <<Write({"file-", "delete-"})>>

commit_compaction(retirement) ==
    insert_snapshot \o detect_new_inlined_deletes \o <<Refuse(FileChanged)>>
    \o retire_sources(retirement) \o next_file_id
    \o (IF retirement = "Remove"
        THEN <<Write({"merged+"})>> \o record_snapshot_changes({"merge_adjacent"})
        ELSE <<Write({"rewritten+"})>> \o record_snapshot_changes({"rewrite_delete"}))
    \o <<Commit>>

\* The rows of the inlined tables, and the inlined deletions of the data file.
commit_inlined_flush(ours) ==
    insert_snapshot \o check_table_conflicts(ours) \o <<Refuse({"table-"})>>
    \o When("flushed_inlined" \in ours, next_file_id \o <<Write({"flushed+"})>>)
    \o When("deleted_from" \in ours,
            replace_delete_files \o <<Write({"idelete~"})>>)
    \o When("flushed_inlined" \in ours,
            <<Write({"row~"})>> \o merge_file_table_column_stats)
    \o record_snapshot_changes(TokensOf(ours)) \o <<Commit>>

\* Only appends may have been committed since the base.
appends_only ==
    <<Refuse({"delete+", "file-", "column", "promote", "partition", "unpartition",
              "row-", "idelete+", "append-"})>>

retire_appends_since ==
    insert_snapshot \o appends_only \o <<MayStop, Write({"append-"})>>
    \o record_snapshot_changes({"deleted_from_table", "inlined_delete"})
    \o <<Commit>>

commit_truncate ==
    insert_snapshot \o <<MayStop>>
    \o check_table_conflicts({"deleted_from", "deleted_inlined"})
    \o <<Write({"file-", "row-", "delete-"})>>
    \o record_snapshot_changes({"deleted_from_table", "inlined_delete"})
    \o <<Commit>>

\* `parts` of a StagedTableWrite: whether it rewrites delete files, drops files,
\* or expects its base to be the head.
check_staged_tables(ours, parts) ==
    check_staged_conflicts(ours) \o validate_staged_table
    \o When("deleted_from" \in ours, detect_new_inlined_deletes)
    \o When("expected" \in parts,
            detect_replace_conflict \o detect_created_table_conflict)

commit_multi_table(ours, parts) ==
    BeginImmediate \o check_staged_tables(ours, parts) \o insert_snapshot
    \o When("rewrites" \in parts, <<RefuseMisdated>>)
    \o finalize_table_snapshot("append", {}, FALSE,
           ours \cap {"inserted_into", "inserted_inlined"} # {})
    \o When("inserted_into" \in ours, commit_files_at_snapshot)
    \o When("inserted_inlined" \in ours, commit_inlined_at_snapshot(FALSE))
    \o When("deleted_from" \in ours,
            CASE "rewrites" \in parts -> replace_delete_files
              [] "drops" \in parts -> drop_data_files
              [] OTHER -> apply_positional_deletes)
    \o When("deleted_inlined" \in ours,
            apply_inlined_deletes \o apply_inlined_file_deletes)
    \o record_snapshot_changes(TokensOf(ours)) \o <<Commit>>

\* The columns named must be live, which a dropped table has none of.
promote_column_type ==
    insert_snapshot \o <<Refuse({"table-"})>> \o bump_schema_version
    \o <<Write({"promote"})>> \o record_snapshot_changes({"altered_table"}) \o <<Commit>>

\* The partition id is reserved before the snapshot is allocated.
set_partition_spec ==
    reserve_catalog_id \o insert_snapshot \o <<Refuse({"table-"}), Write({"partition"})>>
    \o bump_schema_version \o record_snapshot_changes({"altered_table"})
    \o <<Commit>>

reset_partition_spec ==
    insert_snapshot \o <<StopUnlessPartitioned, Write({"unpartition"})>>
    \o bump_schema_version \o record_snapshot_changes({"altered_table"})
    \o <<Commit>>

set_sort_spec ==
    reserve_catalog_id \o insert_snapshot \o bump_schema_version
    \o <<Refuse({"table-"}), Write({"sort"})>>
    \o record_snapshot_changes({"altered_table"}) \o <<Commit>>

reset_sort_spec ==
    insert_snapshot \o bump_schema_version \o <<Write({})>>
    \o record_snapshot_changes({"altered_table"}) \o <<Commit>>

set_tag ==
    insert_snapshot \o <<Refuse({"table-"})>> \o bump_schema_version
    \o <<Write({})>> \o record_snapshot_changes({"altered_table"}) \o <<Commit>>

drop_table ==
    insert_snapshot \o <<MayStop>> \o bump_schema_version
    \o <<Write({"table-", "column", "file-", "delete-"})>>
    \o record_snapshot_changes({"dropped_table"}) \o <<Commit>>

create_snapshot == insert_snapshot \o <<Commit>>

\* Settings are not versioned: the old row is removed.  The ones that let a
\* table inline its data look for reserved names first.
set_global_setting == <<RefuseEver({"reserved"}), Sweep(NoLock), Write({"inlining"}), Commit>>
set_schema_setting == <<Select, RefuseEver({"reserved"}), Sweep(NoLock), Write({"inlining"}), Commit>>

set_table_setting ==
    <<RefuseEver({"table-"}), RefuseEver({"reserved"}), Sweep(NoLock), Write({"inlining"}), Commit>>

get_or_create_schema ==
    <<LookUp({"schema+"})>> \o reserve_catalog_id
    \o <<Write({"schema+"}), Write({})>> \o record_snapshot_changes({}) \o <<Commit>>

get_or_create_table ==
    <<LookUp({"table+"})>> \o reserve_catalog_id
    \o <<Write({"table+"})>> \o record_snapshot_changes({}) \o <<Commit>>

\* The columns of a table, dated by a snapshot of the caller's: an alteration
\* unless that snapshot created the table.
set_columns(new) ==
    <<Select, Write(ColumnsSet(new))>> \o reserve_ids("next_column_id")
    \o raise_column_ids_past_table \o <<Write({})>>
    \o When(~new, record_snapshot_changes({"altered_table"})) \o <<Commit>>

-----------------------------------------------------------------------------
SqlitePrograms ==
    [append_file |-> begin_write_transaction(FALSE)
                \o register_data_file_with_commit_metadata("append", FALSE),
     append_expected |-> begin_write_transaction(FALSE)
                \o register_data_file_with_commit_metadata("append", TRUE),
     append |-> begin_write_transaction(FALSE)
                \o register_data_files_with_commit_metadata("append", {}),
     append_columns |-> begin_write_transaction(FALSE)
                \o register_data_files_with_commit_metadata("append", {"column"}),
     append_reserved |-> begin_write_transaction(FALSE)
                \o register_data_files_with_commit_metadata("append", {"column", "reserved"}),
     replace |-> begin_write_transaction(FALSE)
                \o register_data_files_with_commit_metadata("replace", {}),
     create |-> begin_write_transaction(TRUE) \o publish_snapshot,
     append_inlined |-> begin_write_transaction(FALSE)
                \o register_inlined_data("append", FALSE, FALSE),
     append_first_inlined |-> begin_write_transaction(FALSE)
                \o register_inlined_data("append", FALSE, TRUE),
     replace_inlined |-> begin_write_transaction(FALSE)
                \o register_inlined_data("replace", FALSE, FALSE),
     inlined_expected |-> begin_write_transaction(FALSE)
                \o register_inlined_data("append", TRUE, FALSE),
     set_delete |-> Scan \o set_delete_file,
     update |-> Scan \o register_data_file_with_deletes_and_commit_metadata,
     update_expected |-> Scan \o register_data_files_with_deletes_and_commit_metadata,
     delete |-> Scan \o commit_positional_deletes,
     delete_both |-> Scan \o commit_deletes,
     delete_inlined |-> Scan \o commit_inlined_deletes,
     merge_files |-> Scan \o commit_compaction("Remove"),
     rewrite_files |-> Scan \o commit_compaction("Retire"),
     flush |-> Scan \o commit_inlined_flush({"flushed_inlined"}),
     flush_deletes |-> Scan \o commit_inlined_flush({"deleted_from", "flushed_inlined"}),
     retire |-> Scan \o retire_appends_since,
     truncate |-> Scan \o commit_truncate,
     staged_update |-> Scan \o commit_multi_table({"inserted_into", "deleted_from"}, {}),
     staged_inlined |-> Scan \o commit_multi_table({"inserted_inlined", "deleted_inlined"}, {}),
     staged_drop |-> Scan \o commit_multi_table({"inserted_into", "deleted_from"}, {"drops"}),
     staged_rewrite |-> RewriteScan \o commit_multi_table({"deleted_from"}, {"rewrites"}),
     staged_expected |-> Scan \o commit_multi_table({"inserted_into"}, {"expected"}),
     promote |-> promote_column_type,
     partition |-> set_partition_spec,
     unpartition |-> reset_partition_spec,
     sort |-> set_sort_spec,
     unsort |-> reset_sort_spec,
     comment |-> set_tag,
     drop |-> drop_table,
     snapshot |-> create_snapshot,
     global_setting |-> set_global_setting,
     schema_setting |-> set_schema_setting,
     table_setting |-> set_table_setting,
     get_schema |-> get_or_create_schema,
     get_table |-> get_or_create_table,
     new_columns |-> set_columns(TRUE),
     set_columns |-> set_columns(FALSE)]
=============================================================================
