------------------------- MODULE PostgresSingleWriter -------------------------
(***************************************************************************)
(* The transaction programs of metadata_writer_postgres_single.rs, the     *)
(* writer of the one catalog of an official PostgreSQL store.  Ids come    *)
(* from rows of ducklake_metadata, each locked by its own UPDATE.  Staged  *)
(* writes and flushes are the multi-catalog writer's.                      *)
(***************************************************************************)
EXTENDS SqlStatements

Postgres == INSTANCE PostgresWriter

-----------------------------------------------------------------------------
\* Ids, versions and the ledger.

reserve_ids(counter) == <<Draw(counter, counter)>>
raise_column_ids_past_table == <<Draw("next_column_id", "next_column_id")>>
reserve_catalog_id == <<Draw("next_catalog_id", "next_catalog_id")>>
ducklake_next_file_id == <<Draw("next_file_id", "next_file_id")>>

\* The official sequences are pushed past the ids in use.
skip_official_ids == <<Select>>

insert_snapshot ==
    <<Allocate("next_snapshot_id")>> \o skip_official_ids \o <<CarryVersion>>

bump_schema_version == <<BumpVersion>>

record_snapshot_changes(tokens) == <<Record(tokens)>>

\* created_table or altered_table comes before the write's own tokens.
record_table_changes(tokens) == record_snapshot_changes(tokens)
record_table_write_changes(tokens) == record_table_changes(tokens)

raise_head_watermarks == <<Write({})>>
commit == raise_head_watermarks \o <<Commit>>
commit_networked == raise_head_watermarks \o <<Commit>>

-----------------------------------------------------------------------------
\* The rows of one table.

detect_replace_conflict ==
    <<Refuse({"file+", "rewritten+", "file-", "delete+", "delete-", "append-"})>>
    \o Postgres!detect_inlined_delete_since
detect_created_table_conflict == <<Refuse({"table+"})>>

\* Inlined rows are left alone.
retire_prior_generation == <<Write({"file-"})>>

\* A name another transaction took since the setup is refused, and so is a row
\* of the id that no live table has: the table was dropped.
create_table(new) ==
    IF new
    THEN <<LookUp({"schema+"})>> \o reserve_catalog_id
         \o <<Write({"schema+"}), RefuseEver({"table+"}), Write({"table+"})>>
    ELSE <<Refuse({"table-"})>>

\* A new table's columns are all new; `ddl` are the changes a write proposes to
\* the columns its setup found.
reconcile_columns(ddl, new) ==
    IF new THEN bump_schema_version ELSE <<Reconcile(ddl)>>

finalize_columns(ddl, new) ==
    When("reserved" \in ddl, Postgres!reject_new_reserved_columns)
    \o reconcile_columns(ddl, new)

finalize_data(mode, inserts) ==
    IF mode = "replace"
    THEN detect_replace_conflict \o retire_prior_generation
    ELSE When(inserts, Postgres!check_table_conflicts({"inserted_into"}))

finalize_table_snapshot(mode, ddl, new, inserts) ==
    create_table(new) \o finalize_columns(ddl, new) \o finalize_data(mode, inserts)

finalize_snapshot(mode, ddl, new) ==
    insert_snapshot \o finalize_table_snapshot(mode, ddl, new, TRUE)

register_file_rows ==
    <<Fence, RowIds>> \o ducklake_next_file_id \o <<Write({"file+"})>>
    \o Postgres!merge_file_table_column_stats

WriteTokensOf(mode) ==
    {"inserted_into_table"} \cup (IF mode = "replace" THEN {"deleted_from_table"} ELSE {})

-----------------------------------------------------------------------------
\* The calls of MetadataWriter.

begin_write_transaction(new) ==
    reserve_ids("next_column_id") \o <<SelectHead>>
    \o When(new, <<StopIfCreated>> \o reserve_catalog_id)
    \o raise_column_ids_past_table \o commit

register_data_file_with_commit_metadata(mode, expected) ==
    finalize_snapshot(mode, {}, FALSE)
    \o When(expected /\ mode # "replace", detect_replace_conflict)
    \o register_file_rows \o record_table_write_changes(WriteTokensOf(mode))
    \o commit_networked

register_data_files_with_commit_metadata(mode, ddl) ==
    finalize_snapshot(mode, ddl, FALSE) \o register_file_rows
    \o record_table_write_changes(WriteTokensOf(mode)) \o commit_networked

\* CREATE TABLE.
publish_snapshot ==
    finalize_snapshot("append", {}, TRUE) \o record_table_write_changes({}) \o commit

\* `parts` of a StagedTableWrite: whether it rewrites delete files, drops files,
\* or expects its base to be the head.
check_staged_tables(ours, parts) ==
    Postgres!check_staged_conflicts(ours) \o Postgres!validate_staged_table
    \o When("deleted_from" \in ours, Postgres!detect_row_mutation_conflicts)
    \o When("expected" \in parts,
            Postgres!detect_replace_conflict \o detect_created_table_conflict)

commit_multi_table(ours, parts) ==
    insert_snapshot \o check_staged_tables(ours, parts)
    \o finalize_table_snapshot("append", {}, FALSE,
           ours \cap {"inserted_into", "inserted_inlined"} # {})
    \o When("inserted_into" \in ours,
            ducklake_next_file_id \o Postgres!commit_files_at_snapshot)
    \o When("inserted_inlined" \in ours, Postgres!commit_inlined_at_snapshot(FALSE))
    \o When("deleted_from" \in ours /\ parts \cap {"rewrites", "drops"} = {},
            ducklake_next_file_id \o Postgres!apply_positional_deletes_at_snapshot)
    \o When("deleted_inlined" \in ours, Postgres!apply_inlined_deletes_at_snapshot)
    \o Postgres!apply_row_mutation_at_snapshot(ours, parts)
    \o record_table_changes(TokensOf(ours)) \o commit_networked

commit_inlined_flush(ours) ==
    insert_snapshot \o ducklake_next_file_id
    \o Postgres!apply_inlined_flush_at_snapshot(ours)
    \o record_snapshot_changes(TokensOf(ours)) \o commit_networked

\* The partition id is reserved before the snapshot is allocated.
set_partition_spec ==
    reserve_catalog_id \o insert_snapshot \o <<Refuse({"table-"}), Write({"partition"})>>
    \o bump_schema_version \o record_snapshot_changes({"altered_table"}) \o commit

reset_partition_spec ==
    insert_snapshot \o <<StopUnlessPartitioned, Write({"unpartition"})>>
    \o bump_schema_version \o record_snapshot_changes({"altered_table"}) \o commit

set_sort_spec ==
    reserve_catalog_id \o insert_snapshot \o bump_schema_version
    \o <<Refuse({"table-"}), Write({"sort"})>>
    \o record_snapshot_changes({"altered_table"}) \o commit

reset_sort_spec ==
    insert_snapshot \o bump_schema_version \o <<Write({})>>
    \o record_snapshot_changes({"altered_table"}) \o commit

set_tag ==
    insert_snapshot \o <<Refuse({"table-"})>> \o bump_schema_version
    \o <<Write({})>> \o record_snapshot_changes({"altered_table"}) \o commit

create_snapshot == insert_snapshot \o commit

\* Settings are not versioned: the old row is removed.  The ones that let a
\* table inline its data look for reserved names first.
set_global_setting ==
    <<RefuseEver({"reserved"}), Sweep(NoLock), Write({"inlining"}), Commit>>

get_or_create_schema ==
    <<LookUp({"schema+"})>> \o reserve_catalog_id
    \o <<Write({"schema+"})>> \o record_snapshot_changes({}) \o commit

get_or_create_table ==
    <<LookUp({"table+"})>> \o reserve_catalog_id
    \o <<Write({"table+"})>> \o record_snapshot_changes({}) \o commit

\* The columns of a table, dated by a snapshot of the caller's: an alteration
\* unless that snapshot created the table.
set_columns(new) ==
    <<Write(ColumnsSet(new))>> \o reserve_ids("next_column_id")
    \o raise_column_ids_past_table \o <<Write({}), Select>>
    \o When(~new, record_snapshot_changes({"altered_table"})) \o commit

-----------------------------------------------------------------------------
PostgresSinglePrograms ==
    [append_file |-> begin_write_transaction(FALSE)
                \o register_data_file_with_commit_metadata("append", FALSE),
     append_expected |-> begin_write_transaction(FALSE)
                \o register_data_file_with_commit_metadata("append", TRUE),
     append |-> begin_write_transaction(FALSE)
                \o register_data_files_with_commit_metadata("append", {}),
     append_columns |-> begin_write_transaction(FALSE)
                \o register_data_files_with_commit_metadata("append", {"column"}),
     append_reserved |-> begin_write_transaction(FALSE)
                \o register_data_files_with_commit_metadata("append", {"column", "reserved"}),
     replace |-> begin_write_transaction(FALSE)
                \o register_data_files_with_commit_metadata("replace", {}),
     create |-> begin_write_transaction(TRUE) \o publish_snapshot,
     flush |-> Scan \o commit_inlined_flush({"flushed_inlined"}),
     flush_deletes |-> Scan \o commit_inlined_flush({"deleted_from", "flushed_inlined"}),
     staged_update |-> Scan \o commit_multi_table({"inserted_into", "deleted_from"}, {}),
     staged_inlined |-> Scan \o commit_multi_table({"inserted_inlined", "deleted_inlined"}, {}),
     staged_drop |-> Scan \o commit_multi_table({"inserted_into", "deleted_from"}, {"drops"}),
     staged_rewrite |-> RewriteScan \o commit_multi_table({"deleted_from"}, {"rewrites"}),
     staged_expected |-> Scan \o commit_multi_table({"inserted_into"}, {"expected"}),
     partition |-> set_partition_spec,
     unpartition |-> reset_partition_spec,
     sort |-> set_sort_spec,
     unsort |-> reset_sort_spec,
     comment |-> set_tag,
     snapshot |-> create_snapshot,
     global_setting |-> set_global_setting,
     schema_setting |-> Postgres!set_postgres_schema_setting,
     table_setting |-> Postgres!set_postgres_table_setting,
     get_schema |-> get_or_create_schema,
     get_table |-> get_or_create_table,
     new_columns |-> set_columns(TRUE),
     set_columns |-> set_columns(FALSE)]
=============================================================================
