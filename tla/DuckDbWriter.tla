---------------------------- MODULE DuckDbWriter ----------------------------
(***************************************************************************)
(* The transaction programs of metadata_writer_duckdb.rs, one definition   *)
(* per function.  Sessions share one connection behind a mutex, held for   *)
(* the whole transaction; what a session read before it is what goes       *)
(* stale.                                                                  *)
(***************************************************************************)
EXTENDS SqlStatements

\* What a SELECT of begin_snapshot and end_snapshot past the base finds.
RowsDated == {"file+", "rewritten+", "file-", "delete+", "delete-", "row+", "row-",
              "idelete+", "append-"}

\* Mutant: the connection is used without its mutex.
connection_unlocked == <<Select>>

\* The guard of the connection's mutex lives until the transaction ends.
connection == <<Lock("connection")>>

-----------------------------------------------------------------------------
\* Ids, versions and the ledger.

reserve_ids(counter) == <<Draw(NoLock, counter)>>
reserve_ids_of(counter) == <<Select, Draw(NoLock, counter)>>
reserve_catalog_id == reserve_ids_of("next_catalog_id")
reserve_file_ids == reserve_ids_of("next_file_id")
raise_column_ids_past_table == <<Draw(NoLock, "next_column_id")>>
raise_snapshot_watermarks == <<Write({})>>

insert_snapshot == <<Allocate(NoLock), CarryVersion>> \o raise_snapshot_watermarks

bump_schema_version == <<BumpVersion>>

record_snapshot_changes(tokens) == <<Record(tokens)>> \o raise_snapshot_watermarks

\* created_table or altered_table comes before the write's own tokens.
record_table_changes(tokens) == record_snapshot_changes(tokens)
record_table_write_changes(tokens) == record_table_changes(tokens)

-----------------------------------------------------------------------------
\* Conflict checks.

check_table_conflicts(ours) == <<RefuseChanges(ours)>>
check_staged_conflicts(ours) == <<RefuseChanges(ours)>>
detect_replace_conflict == <<Refuse(RowsDated)>>
detect_created_table_conflict == <<Refuse({"table+"})>>
detect_new_inlined_deletes == <<Refuse({"idelete+"})>>
enforce_inline_partition_fence == <<Refuse({"partition", "unpartition"})>>

\* A staged write must find its table and the columns it staged for.
validate_staged_table == <<Refuse({"table-", "column", "promote"})>>

-----------------------------------------------------------------------------
\* The rows of one table.

\* A name another transaction took since the setup is refused.
insert_new_table_rows(new) ==
    IF new
    THEN <<RefuseEver({"table+"}), LookUp({"schema+"})>> \o reserve_catalog_id
         \o <<Write({"schema+"}), Write({"table+"})>>
    ELSE <<Refuse({"table-"})>>

retire_prior_generation == <<Write({"file-", "row-"})>>

\* The live delete file of the live data file must be the one the writer read.
apply_delete_entry ==
    <<Refuse(FileChanged)>> \o reserve_file_ids \o <<Write({"delete+"})>>
replace_delete_files ==
    <<Refuse(FileChanged)>> \o reserve_file_ids \o <<Write({"delete~"})>>
apply_inlined_file_deletes == <<Refuse(FileChanged), Write({"idelete+"})>>
drop_data_files ==
    <<Refuse({"delete+", "delete-", "delete~"}), RefuseNow(NoLock, {"file-", "file~"}),
      Write({"file-"})>>
apply_inlined_deletes == <<Refuse({"row+", "row-"}), Write({"row-"})>>
apply_staged_inlined_deletes == apply_inlined_deletes

merge_file_table_column_stats == <<MergeColumnStats>>
merge_inlined_table_column_stats == <<MergeColumnStats>>

\* A table without an inlined data table gets one under a version of its own.
inlined_insert_table(first) == When(first, <<RaiseVersion>>)

commit_staged_files ==
    <<Fence, RowIds>> \o reserve_file_ids \o <<Write({"file+"})>>
    \o merge_file_table_column_stats

commit_staged_inline(first) ==
    enforce_inline_partition_fence \o inlined_insert_table(first)
    \o <<RowIds, Write({"row+"})>> \o merge_inlined_table_column_stats

-----------------------------------------------------------------------------
\* Mutant: a reserved name is let through.
reject_new_reserved_columns_never == <<Select>>

\* Names an inlined data table keeps for itself are refused where the table may
\* have one.
reject_new_reserved_columns == <<RefuseEver({"inlining"})>>

\* A new table's columns are all new; `ddl` are the changes a write proposes to
\* the columns its setup found.
reconcile_columns(ddl, new) ==
    IF new THEN bump_schema_version ELSE <<Reconcile(ddl)>>

finalize_columns(ddl, new) ==
    When("reserved" \in ddl, reject_new_reserved_columns)
    \o reconcile_columns(ddl, new)

finalize_data(mode, inserts) ==
    IF mode = "replace"
    THEN detect_replace_conflict \o retire_prior_generation
    ELSE When(inserts, check_table_conflicts({"inserted_into"}))

finalize_table_snapshot(mode, ddl, new, inserts) ==
    finalize_columns(ddl, new) \o finalize_data(mode, inserts)

finalize_snapshot(mode, ddl, new) ==
    insert_snapshot \o insert_new_table_rows(new)
    \o finalize_table_snapshot(mode, ddl, new, TRUE)

-----------------------------------------------------------------------------
\* The calls of MetadataWriter.

begin_write_transaction(new) ==
    connection \o reserve_ids("next_column_id") \o <<SelectHead>>
    \o When(new, <<StopIfCreated>> \o reserve_catalog_id)
    \o raise_column_ids_past_table \o <<Commit>>

register_data_file_with_commit_metadata(mode) ==
    connection \o finalize_snapshot(mode, {}, FALSE) \o commit_staged_files
    \o record_table_write_changes(WriteTokens(mode, "inserted_into_table"))
    \o <<Commit>>

register_data_files_with_commit_metadata(mode, ddl) ==
    connection \o finalize_snapshot(mode, ddl, FALSE) \o commit_staged_files
    \o record_table_write_changes(WriteTokens(mode, "inserted_into_table"))
    \o <<Commit>>

\* CREATE TABLE.
publish_snapshot ==
    connection \o finalize_snapshot("append", {}, TRUE)
    \o record_table_write_changes({}) \o <<Commit>>

register_inlined_data(mode, expected, first) ==
    connection \o enforce_inline_partition_fence
    \o finalize_snapshot(mode, {}, FALSE)
    \o When(expected /\ mode # "replace", detect_replace_conflict)
    \o inlined_insert_table(first)
    \o <<RowIds, Write({"row+"})>> \o merge_inlined_table_column_stats
    \o record_table_write_changes(WriteTokens(mode, "inlined_insert"))
    \o <<Commit>>

set_delete_file ==
    connection \o insert_snapshot \o check_table_conflicts({"deleted_from"})
    \o apply_delete_entry \o record_snapshot_changes({"deleted_from_table"})
    \o <<Commit>>

register_files_with_deletes ==
    connection \o finalize_snapshot("append", {}, FALSE)
    \o check_table_conflicts({"inserted_into", "deleted_from"})
    \o detect_new_inlined_deletes \o commit_staged_files \o apply_delete_entry
    \o record_table_write_changes({"inserted_into_table", "deleted_from_table"})
    \o <<Commit>>

commit_positional_deletes ==
    connection \o insert_snapshot \o check_table_conflicts({"deleted_from"})
    \o detect_new_inlined_deletes \o apply_delete_entry
    \o record_snapshot_changes({"deleted_from_table"}) \o <<Commit>>

commit_inlined_deletes ==
    connection \o insert_snapshot \o check_table_conflicts({"deleted_inlined"})
    \o apply_inlined_deletes \o record_snapshot_changes({"inlined_delete"})
    \o <<Commit>>

commit_deletes ==
    connection \o insert_snapshot
    \o check_table_conflicts({"deleted_from", "deleted_inlined"})
    \o detect_new_inlined_deletes \o apply_delete_entry \o apply_inlined_deletes
    \o record_snapshot_changes({"deleted_from_table", "inlined_delete"})
    \o <<Commit>>

\* Remove leaves the merged files' rows under their old snapshots; Retire ends
\* the sources and starts the outputs at the commit's.
commit_compaction(retirement) ==
    connection \o insert_snapshot \o detect_new_inlined_deletes
    \o <<Refuse(FileChanged)>>
    \o (IF retirement = "Remove" THEN <<Write({"file~", "delete~"})>>
                                 ELSE <<Write({"file-", "delete-"})>>)
    \o reserve_file_ids
    \o (IF retirement = "Remove"
        THEN <<Write({"merged+"})>> \o record_snapshot_changes({"merge_adjacent"})
        ELSE <<Write({"rewritten+"})>> \o record_snapshot_changes({"rewrite_delete"}))
    \o <<Commit>>

\* The rows of the inlined tables, and the inlined deletions of the data file.
commit_inlined_flush(ours) ==
    connection \o insert_snapshot \o check_table_conflicts(ours)
    \o <<Refuse({"table-"})>>
    \o When("flushed_inlined" \in ours, reserve_file_ids \o <<Write({"flushed+"})>>)
    \o When("deleted_from" \in ours,
            replace_delete_files \o <<Write({"idelete~"})>>)
    \o When("flushed_inlined" \in ours,
            <<Write({"row~"})>> \o merge_file_table_column_stats)
    \o record_snapshot_changes(TokensOf(ours)) \o <<Commit>>

\* Only appends may have been committed since the base.
retire_appends_since ==
    connection \o insert_snapshot
    \o <<Refuse({"delete+", "file-", "column", "promote", "partition", "unpartition",
                 "row-", "idelete+", "append-"}),
         MayStop, Write({"append-"})>>
    \o record_snapshot_changes({"deleted_from_table", "inlined_delete"})
    \o <<Commit>>

commit_truncate ==
    connection \o insert_snapshot \o <<MayStop>>
    \o check_table_conflicts({"deleted_from", "deleted_inlined"})
    \o <<Write({"file-", "row-", "delete-"})>>
    \o record_snapshot_changes({"deleted_from_table", "inlined_delete"})
    \o <<Commit>>

\* `parts` of a StagedTableWrite: whether it rewrites delete files, drops files,
\* or expects its base to be the head.
commit_multi_table(ours, parts) ==
    connection
    \o When("expected" \in parts,
            detect_replace_conflict \o detect_created_table_conflict)
    \o check_staged_conflicts(ours)
    \o When("deleted_from" \in ours, detect_new_inlined_deletes)
    \o insert_snapshot
    \o When("rewrites" \in parts, <<RefuseMisdated>>)
    \o insert_new_table_rows(FALSE) \o validate_staged_table
    \o finalize_table_snapshot("append", {}, FALSE,
           ours \cap {"inserted_into", "inserted_inlined"} # {})
    \o When("inserted_into" \in ours, commit_staged_files)
    \o When("inserted_inlined" \in ours, commit_staged_inline(FALSE))
    \o When("deleted_from" \in ours,
            CASE "rewrites" \in parts -> replace_delete_files
              [] "drops" \in parts -> drop_data_files
              [] OTHER -> apply_delete_entry)
    \o When("deleted_inlined" \in ours,
            apply_staged_inlined_deletes \o apply_inlined_file_deletes)
    \o record_table_changes(TokensOf(ours)) \o <<Commit>>

promote_column_type ==
    connection \o insert_snapshot \o bump_schema_version \o <<Write({"promote"})>>
    \o record_snapshot_changes({"altered_table"}) \o <<Commit>>

set_partition_spec ==
    connection \o reserve_catalog_id \o insert_snapshot \o <<Write({"partition"})>>
    \o bump_schema_version \o record_snapshot_changes({"altered_table"})
    \o <<Commit>>

reset_partition_spec ==
    connection \o insert_snapshot \o <<StopUnlessPartitioned, Write({"unpartition"})>>
    \o bump_schema_version \o record_snapshot_changes({"altered_table"})
    \o <<Commit>>

set_sort_spec ==
    connection \o reserve_catalog_id \o insert_snapshot \o bump_schema_version
    \o <<Write({"sort"})>> \o record_snapshot_changes({"altered_table"})
    \o <<Commit>>

reset_sort_spec ==
    connection \o insert_snapshot \o bump_schema_version \o <<Write({})>>
    \o record_snapshot_changes({"altered_table"}) \o <<Commit>>

create_snapshot == connection \o insert_snapshot \o <<Commit>>

\* Settings are not versioned: the old row is removed.  The ones that let a
\* table inline its data look for reserved names first.
set_global_setting ==
    connection \o <<RefuseEver({"reserved"}), Sweep(NoLock), Write({"inlining"}), Commit>>
set_schema_setting ==
    connection \o <<Select, RefuseEver({"reserved"}), Sweep(NoLock), Write({"inlining"}), Commit>>
set_table_setting ==
    connection \o <<RefuseEver({"table-"}), RefuseEver({"reserved"}), Sweep(NoLock),
                    Write({"inlining"}), Commit>>

\* The data path is not touched when it is the one there is.
set_data_path == connection \o <<MayStop, Sweep(NoLock), Write({"setting"}), Commit>>

get_or_create_schema ==
    connection \o <<LookUp({"schema+"})>> \o reserve_catalog_id
    \o <<Write({"schema+"})>> \o record_snapshot_changes({}) \o <<Commit>>

get_or_create_table ==
    connection \o <<LookUp({"table+"})>> \o reserve_catalog_id
    \o <<Write({"table+"})>> \o record_snapshot_changes({}) \o <<Commit>>

\* The columns of a table, dated by a snapshot of the caller's: an alteration
\* unless that snapshot created the table.
set_columns(new) ==
    connection \o <<Write(ColumnsSet(new))>> \o reserve_ids("next_column_id")
    \o raise_column_ids_past_table \o <<Write({}), Select>>
    \o When(~new, record_snapshot_changes({"altered_table"})) \o <<Commit>>

-----------------------------------------------------------------------------
DuckDbPrograms ==
    [append_file |-> begin_write_transaction(FALSE)
                \o register_data_file_with_commit_metadata("append"),
     append |-> begin_write_transaction(FALSE)
                \o register_data_files_with_commit_metadata("append", {}),
     append_columns |-> begin_write_transaction(FALSE)
                \o register_data_files_with_commit_metadata("append", {"column"}),
     append_reserved |-> begin_write_transaction(FALSE)
                \o register_data_files_with_commit_metadata("append", {"column", "reserved"}),
     replace |-> begin_write_transaction(FALSE)
                \o register_data_files_with_commit_metadata("replace", {}),
     create |-> begin_write_transaction(TRUE) \o publish_snapshot,
     append_inlined |-> begin_write_transaction(FALSE)
                \o register_inlined_data("append", FALSE, FALSE),
     append_first_inlined |-> begin_write_transaction(FALSE)
                \o register_inlined_data("append", FALSE, TRUE),
     replace_inlined |-> begin_write_transaction(FALSE)
                \o register_inlined_data("replace", FALSE, FALSE),
     inlined_expected |-> begin_write_transaction(FALSE)
                \o register_inlined_data("append", TRUE, FALSE),
     set_delete |-> Scan \o set_delete_file,
     update |-> Scan \o register_files_with_deletes,
     delete |-> Scan \o commit_positional_deletes,
     delete_both |-> Scan \o commit_deletes,
     delete_inlined |-> Scan \o commit_inlined_deletes,
     merge_files |-> Scan \o commit_compaction("Remove"),
     rewrite_files |-> Scan \o commit_compaction("Retire"),
     flush |-> Scan \o commit_inlined_flush({"flushed_inlined"}),
     flush_deletes |-> Scan \o commit_inlined_flush({"deleted_from", "flushed_inlined"}),
     retire |-> Scan \o retire_appends_since,
     truncate |-> Scan \o commit_truncate,
     staged_update |-> Scan \o commit_multi_table({"inserted_into", "deleted_from"}, {}),
     staged_inlined |-> Scan \o commit_multi_table({"inserted_inlined", "deleted_inlined"}, {}),
     staged_drop |-> Scan \o commit_multi_table({"inserted_into", "deleted_from"}, {"drops"}),
     staged_rewrite |-> RewriteScan \o commit_multi_table({"deleted_from"}, {"rewrites"}),
     staged_expected |-> Scan \o commit_multi_table({"inserted_into"}, {"expected"}),
     promote |-> promote_column_type,
     partition |-> set_partition_spec,
     unpartition |-> reset_partition_spec,
     sort |-> set_sort_spec,
     unsort |-> reset_sort_spec,
     snapshot |-> create_snapshot,
     global_setting |-> set_global_setting,
     schema_setting |-> set_schema_setting,
     table_setting |-> set_table_setting,
     data_path |-> set_data_path,
     get_schema |-> get_or_create_schema,
     get_table |-> get_or_create_table,
     new_columns |-> set_columns(TRUE),
     set_columns |-> set_columns(FALSE)]
=============================================================================
