--------------------------- MODULE PostgresWriter ---------------------------
(***************************************************************************)
(* The transaction programs of metadata_writer_postgres.rs, the writer of  *)
(* one catalog of a multi-catalog PostgreSQL store.  Every commit starts   *)
(* by locking its catalog's row; ids, snapshots' included, come from       *)
(* identity sequences, which a rollback leaves advanced.                   *)
(***************************************************************************)
EXTENDS SqlStatements

\* What a SELECT of begin_snapshot and end_snapshot past the base finds.
RowsDated == {"file+", "rewritten+", "file-", "delete+", "delete-", "row+", "row-",
              "idelete+", "append-", "column", "promote"}

-----------------------------------------------------------------------------
\* The catalog's lock, ids, versions and the ledger.

\* Mutant: no lock is taken.
lock_catalog_unlocked == <<Select>>

lock_catalog == <<Lock("catalog")>>

reserve_ids(sequence) == <<NextVal(sequence)>>

\* Each commit inserts its snapshot with a literal schema_version of 0, then
\* corrects it.
insert_metadata_snapshot == <<NextSnapshot, CarryVersion>>

record_schema_version_bump == <<BumpVersion>>

record_snapshot_changes(tokens) == <<Record(tokens)>>

\* Publishing is the last write of the transaction: readers find a snapshot
\* through the catalog's map.
advance_catalog_head == <<Write({})>>

commit_networked == <<Commit>>

-----------------------------------------------------------------------------
\* Conflict checks.

check_table_conflicts(ours) == <<RefuseChanges(ours)>>
check_staged_conflicts(ours) == <<RefuseChanges(ours)>>
detect_inlined_delete_since == <<Refuse({"idelete+"})>>
detect_replace_conflict == <<Refuse(RowsDated \ {"idelete+"})>> \o detect_inlined_delete_since
detect_created_table_conflict == <<Refuse({"table+"})>>
detect_new_inlined_deletes == <<Lock("inlined_delete"), Refuse({"idelete+"})>>
enforce_inline_partition_fence == <<Refuse({"partition", "unpartition"})>>

\* A staged write must find its table and the columns it staged for.
validate_staged_table == <<Refuse({"table-", "column", "promote"})>>
detect_row_mutation_conflicts == detect_new_inlined_deletes

-----------------------------------------------------------------------------
\* The rows of one table.

\* Inlined rows end with the files.
retire_prior_generation == <<Write({"file-", "row-"})>>

\* The live delete file of the live data file must be the one the writer read.
apply_positional_deletes_at_snapshot ==
    <<Refuse(FileChanged), Write({"delete+"})>>
replace_delete_files_at_snapshot == <<Refuse(FileChanged), Write({"delete~"})>>
apply_inlined_file_deletes_at_snapshot ==
    <<Refuse(FileChanged), Lock("inlined_delete"), Write({"idelete+"})>>
drop_data_files_at_snapshot ==
    <<Refuse({"delete+", "delete-", "delete~"}), RefuseNow(NoLock, {"file-", "file~"}),
      Write({"file-"})>>
apply_inlined_deletes_at_snapshot == <<Refuse({"row+", "row-"}), Write({"row-"})>>

merge_file_table_column_stats == <<MergeColumnStats>>
merge_inlined_table_column_stats == <<MergeColumnStats>>

commit_files_at_snapshot ==
    <<Fence, RowIds, Write({"file+"})>> \o merge_file_table_column_stats

\* A table without an inlined data table gets one under a version of its own.
inlined_insert_table(first) == When(first, <<RaiseVersion>>)

commit_inlined_at_snapshot(first) ==
    enforce_inline_partition_fence \o inlined_insert_table(first)
    \o <<RowIds, Write({"row+"})>> \o merge_inlined_table_column_stats

\* Deletions dated by an id the snapshot did not get are refused first.
apply_row_mutation_at_snapshot(ours, parts) ==
    When("rewrites" \in parts, <<RefuseMisdated>> \o replace_delete_files_at_snapshot)
    \o When("deleted_inlined" \in ours, apply_inlined_file_deletes_at_snapshot)
    \o When("drops" \in parts, drop_data_files_at_snapshot)

\* The rows of the inlined tables, and the inlined deletions of the data file.
apply_inlined_flush_at_snapshot(ours) ==
    check_table_conflicts(ours)
    \o When("flushed_inlined" \in ours, <<Write({"flushed+"})>>)
    \o When("deleted_from" \in ours,
            replace_delete_files_at_snapshot \o <<Write({"idelete~"})>>)
    \o When("flushed_inlined" \in ours,
            <<Write({"row~"})>> \o merge_file_table_column_stats)

-----------------------------------------------------------------------------
\* Names an inlined data table keeps for itself are refused where the table may
\* have one.
reject_new_reserved_columns == <<RefuseEver({"inlining"})>>

\* A name another transaction took since the setup has columns of other ids,
\* and a table it dropped keeps its id.
create_table(new) ==
    IF new
    THEN <<LookUp({"schema+"})>> \o reserve_ids("next_catalog_id")
         \o <<Write({"schema+"}), RefuseEver({"table+"}), Write({"table+"})>>
    ELSE <<Refuse({"table-"})>>

\* A new table's columns are all new; `ddl` are the changes a write proposes to
\* the columns its setup found.
reconcile_columns(ddl, new) ==
    IF new THEN <<BumpVersion>> ELSE <<CarryVersion, Reconcile(ddl)>>

finalize_columns(ddl, new) ==
    When("reserved" \in ddl, reject_new_reserved_columns) \o reconcile_columns(ddl, new)

finalize_data(mode, new, inserts) ==
    IF mode = "replace"
    THEN retire_prior_generation
    ELSE When(inserts /\ ~new, check_table_conflicts({"inserted_into"}))

finalize_table_snapshot(mode, ddl, new, inserts) ==
    When(mode = "replace", detect_replace_conflict)
    \o create_table(new) \o finalize_columns(ddl, new)
    \o finalize_data(mode, new, inserts)

finalize_snapshot(mode, ddl, new) ==
    <<NextSnapshot>> \o finalize_table_snapshot(mode, ddl, new, TRUE)

\* A Replace of the table's data file and inlined rows deletes both.
replaced_storage(mode) ==
    IF mode = "replace" THEN {"deleted_from_table", "inlined_delete"} ELSE {}

-----------------------------------------------------------------------------
\* The calls of MetadataWriter.

begin_write_transaction(new) ==
    lock_catalog
    \o When(new, <<StopIfCreated>> \o reserve_ids("next_catalog_id"))
    \o reserve_ids("next_column_id") \o <<SelectHead, Commit>>

register_data_file_with_commit_metadata(mode, expected) ==
    lock_catalog \o When(expected /\ mode # "replace", detect_replace_conflict)
    \o finalize_snapshot(mode, {}, FALSE) \o commit_files_at_snapshot
    \o record_snapshot_changes({"inserted_into_table"} \cup replaced_storage(mode))
    \o advance_catalog_head \o commit_networked

register_data_files_with_commit_metadata(mode, ddl) ==
    lock_catalog \o finalize_snapshot(mode, ddl, FALSE) \o commit_files_at_snapshot
    \o record_snapshot_changes({"inserted_into_table"} \cup replaced_storage(mode))
    \o advance_catalog_head \o commit_networked

\* CREATE TABLE.
publish_snapshot ==
    lock_catalog \o finalize_snapshot("append", {}, TRUE)
    \o record_snapshot_changes({}) \o advance_catalog_head \o <<Commit>>

register_inlined_data(mode, expected, first) ==
    lock_catalog \o enforce_inline_partition_fence
    \o finalize_snapshot(mode, {}, FALSE)
    \o When(expected /\ mode # "replace", detect_replace_conflict)
    \o inlined_insert_table(first)
    \o <<RowIds, Write({"row+"})>> \o merge_inlined_table_column_stats
    \o record_snapshot_changes({"inlined_insert"} \cup replaced_storage(mode))
    \o advance_catalog_head \o <<Commit>>

set_delete_file ==
    lock_catalog \o check_table_conflicts({"deleted_from"})
    \o <<Refuse(FileChanged)>> \o insert_metadata_snapshot \o <<Write({"delete+"})>>
    \o record_snapshot_changes({"deleted_from_table"})
    \o advance_catalog_head \o <<Commit>>

\* The new row versions and the deletions of the old ones.
register_row_versions ==
    commit_files_at_snapshot \o apply_positional_deletes_at_snapshot
    \o record_snapshot_changes({"inserted_into_table", "deleted_from_table"})
    \o advance_catalog_head \o commit_networked

register_data_file_with_deletes_and_commit_metadata ==
    lock_catalog \o check_table_conflicts({"inserted_into", "deleted_from"})
    \o detect_new_inlined_deletes \o finalize_snapshot("append", {}, FALSE)
    \o register_row_versions

register_data_files_with_deletes_and_commit_metadata ==
    lock_catalog \o detect_replace_conflict
    \o check_table_conflicts({"inserted_into", "deleted_from"})
    \o detect_new_inlined_deletes \o finalize_snapshot("append", {}, FALSE)
    \o register_row_versions

\* Mutant: the inlined deletions are locked before the catalog.
commit_positional_deletes_table_first ==
    detect_new_inlined_deletes \o lock_catalog \o check_table_conflicts({"deleted_from"})
    \o insert_metadata_snapshot \o apply_positional_deletes_at_snapshot
    \o record_snapshot_changes({"deleted_from_table"})
    \o advance_catalog_head \o <<Commit>>

\* Mutant: the deletion is recorded without looking at the ledger or the file.
commit_positional_deletes_blind ==
    lock_catalog \o insert_metadata_snapshot \o <<Write({"delete+"})>>
    \o record_snapshot_changes({"deleted_from_table"}) \o <<Commit>>

commit_positional_deletes ==
    lock_catalog \o check_table_conflicts({"deleted_from"})
    \o detect_new_inlined_deletes \o insert_metadata_snapshot
    \o apply_positional_deletes_at_snapshot
    \o record_snapshot_changes({"deleted_from_table"})
    \o advance_catalog_head \o <<Commit>>

commit_inlined_deletes ==
    lock_catalog \o check_table_conflicts({"deleted_inlined"})
    \o insert_metadata_snapshot \o apply_inlined_deletes_at_snapshot
    \o record_snapshot_changes({"inlined_delete"})
    \o advance_catalog_head \o <<Commit>>

commit_deletes ==
    lock_catalog \o check_table_conflicts({"deleted_from", "deleted_inlined"})
    \o insert_metadata_snapshot \o apply_positional_deletes_at_snapshot
    \o apply_inlined_deletes_at_snapshot
    \o record_snapshot_changes({"deleted_from_table", "inlined_delete"})
    \o advance_catalog_head \o commit_networked

commit_inlined_flush(ours) ==
    lock_catalog \o insert_metadata_snapshot \o apply_inlined_flush_at_snapshot(ours)
    \o record_snapshot_changes(TokensOf(ours))
    \o advance_catalog_head \o commit_networked

\* Remove leaves the merged files' rows under their old snapshots; Retire ends
\* the sources and starts the outputs at the commit's.
retire_sources(retirement) ==
    IF retirement = "Remove" THEN <<Write({"file~", "delete~"})>>
                             ELSE <<Write({"file-", "delete-"})>>

commit_compaction(retirement) ==
    lock_catalog \o detect_new_inlined_deletes \o insert_metadata_snapshot
    \o <<Refuse(FileChanged)>> \o retire_sources(retirement)
    \o (IF retirement = "Remove"
        THEN <<Write({"merged+"})>> \o record_snapshot_changes({"merge_adjacent"})
        ELSE <<Write({"rewritten+"})>> \o record_snapshot_changes({"rewrite_delete"}))
    \o advance_catalog_head \o <<Commit>>

commit_truncate ==
    lock_catalog \o <<MayStop>>
    \o check_table_conflicts({"deleted_from", "deleted_inlined"})
    \o insert_metadata_snapshot \o <<Write({"file-", "row-", "delete-"})>>
    \o record_snapshot_changes({"deleted_from_table", "inlined_delete"})
    \o advance_catalog_head \o <<Commit>>

\* Only appends may have been committed since the base.
appends_only ==
    <<Refuse({"delete+", "file-", "column", "promote", "row-", "idelete+", "append-"})>>

retire_appends_since ==
    lock_catalog \o appends_only \o <<MayStop>>
    \o insert_metadata_snapshot \o <<Write({"append-"})>>
    \o record_snapshot_changes({"deleted_from_table", "inlined_delete"})
    \o advance_catalog_head \o <<Commit>>

\* `parts` of a StagedTableWrite: whether it rewrites delete files, drops files,
\* or expects its base to be the head.
check_staged_tables(ours, parts) ==
    check_staged_conflicts(ours) \o validate_staged_table
    \o When("deleted_from" \in ours, detect_row_mutation_conflicts)
    \o When("expected" \in parts,
            detect_replace_conflict \o detect_created_table_conflict)

commit_multi_table(ours, parts) ==
    lock_catalog \o check_staged_tables(ours, parts) \o <<NextSnapshot>>
    \o finalize_table_snapshot("append", {}, FALSE,
           ours \cap {"inserted_into", "inserted_inlined"} # {})
    \o When("inserted_into" \in ours, commit_files_at_snapshot)
    \o When("inserted_inlined" \in ours, commit_inlined_at_snapshot(FALSE))
    \o When("deleted_from" \in ours /\ parts \cap {"rewrites", "drops"} = {},
            apply_positional_deletes_at_snapshot)
    \o When("deleted_inlined" \in ours, apply_inlined_deletes_at_snapshot)
    \o apply_row_mutation_at_snapshot(ours, parts)
    \o record_snapshot_changes(TokensOf(ours))
    \o advance_catalog_head \o commit_networked

promote_column_type ==
    lock_catalog \o <<Refuse({"table-"}), NextSnapshot, BumpVersion>>
    \o record_snapshot_changes({"altered_table"})
    \o <<Write({"promote"}), Commit>>

\* The columns named must be live, which a dropped table has none of.
write_partition_generation == <<Refuse({"table-"}), Write({"partition"})>>
write_sort_generation == <<Refuse({"table-"}), Write({"sort"})>>

set_partition_spec ==
    lock_catalog \o <<NextSnapshot>> \o record_schema_version_bump
    \o write_partition_generation \o record_snapshot_changes({"altered_table"})
    \o <<Commit>>

reset_partition_spec ==
    lock_catalog \o <<StopUnlessPartitioned, NextSnapshot, BumpVersion,
                      Write({"unpartition"})>>
    \o record_snapshot_changes({"altered_table"}) \o <<Commit>>

set_sort_spec ==
    lock_catalog \o insert_metadata_snapshot \o <<BumpVersion>>
    \o write_sort_generation
    \o record_snapshot_changes({"altered_table"}) \o <<Commit>>

reset_sort_spec ==
    lock_catalog \o insert_metadata_snapshot \o <<BumpVersion, Write({})>>
    \o record_snapshot_changes({"altered_table"}) \o <<Commit>>

set_tag ==
    lock_catalog \o <<Refuse({"table-"})>> \o insert_metadata_snapshot
    \o <<RaiseVersion, Write({})>> \o record_snapshot_changes({"altered_table"})
    \o <<Commit>>

drop_table ==
    lock_catalog \o <<MayStop, NextSnapshot, BumpVersion,
                      Write({"table-", "column", "file-", "delete-"})>>
    \o record_snapshot_changes({"dropped_table"}) \o <<Commit>>

\* fork_table registers the files of a table of another catalog, whose commits
\* wait for its lock too; `carried` is what comes with them.
refuse_removed_source_rows == <<Select>>
refuse_foreign_column_ids(new) == IF new THEN <<RefuseEver({"table+"})>> ELSE <<Select>>
carried_layout ==
    record_schema_version_bump \o write_partition_generation \o write_sort_generation
carried_tags ==
    <<Select, Write({}), BumpVersion>> \o record_snapshot_changes({"altered_table"})
existing_files ==
    <<RowIds, Fence, Write({"file+"})>> \o merge_file_table_column_stats
existing_changes(mode) ==
    record_snapshot_changes({"inserted_into_table"} \cup replaced_storage(mode))
    \o advance_catalog_head \o commit_networked

register_existing_data_files_tagged(mode, new, carried) ==
    <<Lock("source")>> \o lock_catalog \o refuse_removed_source_rows
    \o refuse_foreign_column_ids(new) \o <<SelectHead>> \o reserve_ids("next_catalog_id")
    \o finalize_snapshot(mode, {}, new)
    \o When("layout" \in carried, carried_layout) \o When("tags" \in carried, carried_tags)
    \o existing_files \o existing_changes(mode)

\* Takes no catalog lock.
create_snapshot ==
    <<NextSnapshot, Write({})>> \o record_snapshot_changes({}) \o <<Commit>>

\* Settings are not versioned: the old row is removed.  The ones that let a
\* table inline its data look for reserved names first.
set_global_setting ==
    lock_catalog \o <<RefuseEver({"reserved"}), Sweep(NoLock), Write({"inlining"}), Commit>>

\* The row of the schema or table is locked, the catalog's is not.
set_postgres_schema_setting ==
    <<Lock("schema"), RefuseEver({"reserved"}), Sweep(NoLock), Write({"inlining"}), Commit>>
set_postgres_table_setting ==
    <<Lock("table"), RefuseEver({"reserved"}), Sweep(NoLock), Write({"inlining"}), Commit>>

get_or_create_schema ==
    lock_catalog \o <<LookUp({"schema+"}), Write({"schema+"})>>
    \o record_snapshot_changes({}) \o <<Commit>>

get_or_create_table ==
    lock_catalog \o <<LookUp({"table+"}), Write({"table+"})>>
    \o record_snapshot_changes({}) \o <<Commit>>

\* The columns of a table, dated by a snapshot of the caller's: an alteration
\* unless that snapshot created the table.
set_columns(new) ==
    lock_catalog \o <<Select, Write(ColumnsSet(new))>> \o reserve_ids("next_column_id")
    \o <<Write({})>> \o When(~new, record_snapshot_changes({"altered_table"}))
    \o <<Commit>>

-----------------------------------------------------------------------------
PostgresPrograms ==
    [append_file |-> begin_write_transaction(FALSE)
                \o register_data_file_with_commit_metadata("append", FALSE),
     append_expected |-> begin_write_transaction(FALSE)
                \o register_data_file_with_commit_metadata("append", TRUE),
     append |-> begin_write_transaction(FALSE)
                \o register_data_files_with_commit_metadata("append", {}),
     append_columns |-> begin_write_transaction(FALSE)
                \o register_data_files_with_commit_metadata("append", {"column"}),
     append_reserved |-> begin_write_transaction(FALSE)
                \o register_data_files_with_commit_metadata("append", {"column", "reserved"}),
     replace |-> begin_write_transaction(FALSE)
                \o register_data_files_with_commit_metadata("replace", {}),
     create |-> begin_write_transaction(TRUE) \o publish_snapshot,
     append_inlined |-> begin_write_transaction(FALSE)
                \o register_inlined_data("append", FALSE, FALSE),
     append_first_inlined |-> begin_write_transaction(FALSE)
                \o register_inlined_data("append", FALSE, TRUE),
     replace_inlined |-> begin_write_transaction(FALSE)
                \o register_inlined_data("replace", FALSE, FALSE),
     inlined_expected |-> begin_write_transaction(FALSE)
                \o register_inlined_data("append", TRUE, FALSE),
     set_delete |-> Scan \o set_delete_file,
     update |-> Scan \o register_data_file_with_deletes_and_commit_metadata,
     update_expected |-> Scan \o register_data_files_with_deletes_and_commit_metadata,
     delete |-> Scan \o commit_positional_deletes,
     delete_both |-> Scan \o commit_deletes,
     delete_inlined |-> Scan \o commit_inlined_deletes,
     merge_files |-> Scan \o commit_compaction("Remove"),
     rewrite_files |-> Scan \o commit_compaction("Retire"),
     flush |-> Scan \o commit_inlined_flush({"flushed_inlined"}),
     flush_deletes |-> Scan \o commit_inlined_flush({"deleted_from", "flushed_inlined"}),
     retire |-> Scan \o retire_appends_since,
     truncate |-> Scan \o commit_truncate,
     staged_update |-> Scan \o commit_multi_table({"inserted_into", "deleted_from"}, {}),
     staged_inlined |-> Scan \o commit_multi_table({"inserted_inlined", "deleted_inlined"}, {}),
     staged_drop |-> Scan \o commit_multi_table({"inserted_into", "deleted_from"}, {"drops"}),
     staged_rewrite |-> RewriteScan \o commit_multi_table({"deleted_from"}, {"rewrites"}),
     staged_expected |-> Scan \o commit_multi_table({"inserted_into"}, {"expected"}),
     promote |-> promote_column_type,
     partition |-> set_partition_spec,
     unpartition |-> reset_partition_spec,
     sort |-> set_sort_spec,
     unsort |-> reset_sort_spec,
     comment |-> set_tag,
     fork |-> register_existing_data_files_tagged("replace", FALSE, {"tags"}),
     fork_layout |-> register_existing_data_files_tagged("replace", FALSE, {"layout"}),
     fork_new |-> register_existing_data_files_tagged("append", TRUE, {}),
     drop |-> drop_table,
     snapshot |-> create_snapshot,
     global_setting |-> set_global_setting,
     schema_setting |-> set_postgres_schema_setting,
     table_setting |-> set_postgres_table_setting,
     get_schema |-> get_or_create_schema,
     get_table |-> get_or_create_table,
     new_columns |-> set_columns(TRUE),
     set_columns |-> set_columns(FALSE)]
=============================================================================
