-------------------------- MODULE PostgresProvider --------------------------
(***************************************************************************)
(* The methods of PostgresMetadataProvider as programs of statements.      *)
(* PostgreSQL ends a transaction at its first failed statement, so a       *)
(* method skips the tables the probe found missing instead of reading them *)
(* (read_if_present), and the `_on` helpers run their statements on one    *)
(* connection.                                                             *)
(***************************************************************************)
EXTENDS ReadStatements

\* SchemaCapabilities::PROBES.
SchemaCapabilities == {"partial_max", "schema_versions", "ledger_table_id", "partition_id",
                       "inlined_data_tables", "view", "file_column_stats", "partition_value",
                       "partition_info", "sort_info", "table_stats", "table_column_stats",
                       "tag", "column_tag"}

\* ledger(): per table with the column, catalog-wide without it.
LedgerColumns == Where({"schema_versions", "ledger_table_id"})
FileColumns == Where({"partial_max", "partition_id"}) \cup WhereLedger

\* The `_on` helpers.
read_postgres_inlined_table ==
    <<On({"inlined_data"}), OnUsing({"column", "inlined_data_tables"}, LedgerColumns),
      On({"inlined_data"})>>
first_inlined_snapshot_on == <<On({"inlined_data"}), On({"inlined_data"})>>
inlined_rows_visible_on == <<On({"inlined_data"}), On({"inlined_data"})>>
inlined_version_snapshot_on ==
    <<OnUsing({"inlined_data_tables", "table", "snapshot"}, LedgerColumns)>>
inlined_table_for_flush_on == read_postgres_inlined_table

\* The registry, the head and the next file id in one statement; a table without
\* rows for the snapshot is asked for its first row.
scan_inlined_data_on ==
    OnEachTable(read_postgres_inlined_table \o Maybe(first_inlined_snapshot_on))
read_inlined_rows_on == OnEachTable(read_postgres_inlined_table)

partition_count_facts_on ==
    Concat(<< <<OnLearnAll({"partition_value", "partial_max", "partition_id",
                            "delete_partial_max", "inlined_data_tables"}),
                ReturnUnless({"partition_value", "partial_max", "partition_id",
                              "delete_partial_max"}),
                MayReturn>>,
              Having({"inlined_data_tables"}, OnEachTable(inlined_rows_visible_on)),
              <<On({"partition_value", "data_file"}),
                On({"partition_value", "data_file", "delete_file", "partial_max",
                    "partition_id", "delete_partial_max"})>> >>)

-----------------------------------------------------------------------------
OnConnection(body) == <<Take>> \o body \o <<Drop>>

registered_inlined_tables(each) ==
    <<Probe>> \o Having({"inlined_data_tables"}, EachTable(each))

read_inlined_rows_postgres ==
    <<Probe, ReturnUnless({"inlined_data_tables"})>> \o OnConnection(read_inlined_rows_on)

inlined_file_deletes == LookForDeletes \o <<ReadDeletes>>

\* The statistics and partition values of the page's files.
page_statistics == <<IfPresent("file_column_stats"), IfPresent("partition_value")>>

file_metadata_page ==
    Concat(<< <<Probe>>, OnConnection(<<OnPage(FileColumns)>>), <<MayReturn>>,
              page_statistics>>)

-----------------------------------------------------------------------------
get_current_snapshot == <<Query({"snapshot"})>>
get_metadata_settings == <<Learn("scope"), QueryUsing({"metadata"}, Where({"scope"}))>>
get_data_path == get_metadata_settings
list_snapshots == <<Query({"snapshot"})>>
snapshot_ids_between == <<Query({"snapshot"})>>
list_table_snapshot_changes == <<Query({"snapshot", "snapshot_changes"})>>
list_snapshot_changes == <<Query({"snapshot", "snapshot_changes"})>>
find_snapshot_by_commit_extra_info == <<Query({"snapshot_changes", "data_file"})>>

list_schemas == <<Query({"schema"})>>
list_tables == <<Query({"table"})>>
list_views == <<Probe, ReturnUnless({"view"}), Query({"view"})>>
get_schema_by_name == <<Query({"schema"})>>
get_table_by_name == <<Query({"table"})>>
get_view_by_name == <<Probe, ReturnUnless({"view"}), Query({"view"})>>
table_exists == <<Query({"table"})>>
get_view_id_by_name == <<Probe, ReturnUnlessPresent("view")>>
list_all_tables == <<Query({"schema", "table"})>>
list_all_views == <<Probe, ReturnUnless({"view"}), Query({"schema", "view"})>>
list_all_columns == <<Query({"schema", "table", "column"})>>
list_all_object_tags == <<Probe, ReturnUnlessPresent("tag")>>
list_all_column_tags == <<Probe, ReturnUnlessPresent("column_tag")>>
list_all_files == <<Query({"schema", "table", "data_file", "delete_file"})>>

get_table_structure == <<Query({"column"})>>
get_table_fields == <<Query({"column"})>>
get_name_mapping == <<Query({"column_mapping", "name_mapping"})>>
get_sort_spec == <<Probe, ReturnUnlessPresent("sort_info")>>
get_partition_spec ==
    <<Probe, ReturnUnlessPresent("partition_info"), ReturnUnlessPresent("partition_info")>>

\* An object's tags, or a column's.
get_object_tags == <<Probe, ReturnUnlessPresent("tag")>>
get_column_tags == <<Probe, ReturnUnlessPresent("column_tag")>>

get_table_files_for_select ==
    <<Probe, QueryUsing({"data_file", "delete_file"}, FileColumns), MayReturn,
      IfPresent("partition_value")>>

get_table_file_metadata_page_filtered == file_metadata_page

get_table_summary_statistics ==
    <<Probe, IfPresent("table_stats"), Query({"delete_file"}), IfPresent("table_column_stats")>>

get_table_statistics ==
    <<Probe, IfPresent("table_stats"), IfPresent("table_column_stats"),
      IfPresent("file_column_stats")>>

get_partition_count_facts == OnConnection(partition_count_facts_on)

-----------------------------------------------------------------------------
\* Inlined rows and deletions.

scan_inlined_data_noting_absence ==
    <<Probe, ReturnUnless({"inlined_data_tables"})>> \o OnConnection(scan_inlined_data_on)
scan_inlined_data == scan_inlined_data_noting_absence
get_inlined_data == scan_inlined_data
get_inlined_data_with_row_ids == read_inlined_rows_postgres
read_inlined_rows == read_inlined_rows_postgres

\* (The capabilities are asked for after the registry, tables or none.)
oldest_inlined_row_snapshot ==
    registered_inlined_tables(
        <<Probe>> \o OnConnection(first_inlined_snapshot_on \o Maybe(inlined_version_snapshot_on)))

\* The structure is read between two connections.
get_inlined_data_for_flush ==
    registered_inlined_tables(
        Concat(<< <<Probe, Take>>, first_inlined_snapshot_on,
                  <<MayReturn>>, inlined_version_snapshot_on, <<MayReturn, Drop>>,
                  get_table_structure, OnConnection(inlined_table_for_flush_on)>>))

get_inlined_deletes == LookForDeletes \o <<ReadDeletes>>
get_inlined_file_deletes_for_flush == LookForDeletes \o <<ReadDeletes>>
get_inlined_file_deletes_between == inlined_file_deletes
get_inlined_file_deletes_of_files_between == inlined_file_deletes
get_delete_file_begin_snapshot == <<Query({"delete_file"})>>

get_data_files_added_between_snapshots_Unprobed == <<Query({"data_file", "partial_max"})>>

get_data_files_added_between_snapshots ==
    <<Probe, QueryUsing({"data_file"}, Where({"partial_max"}))>>
get_delete_files_added_between_snapshots == <<Query({"data_file", "delete_file"})>>

\* The methods.
PostgresMethods ==
    {get_current_snapshot, get_metadata_settings, get_data_path, list_snapshots,
     snapshot_ids_between, list_table_snapshot_changes, list_snapshot_changes,
     find_snapshot_by_commit_extra_info, list_schemas, list_tables, list_views,
     get_schema_by_name, get_table_by_name, get_view_by_name, table_exists,
     get_view_id_by_name, list_all_tables, list_all_views, list_all_columns,
     list_all_object_tags, list_all_column_tags, list_all_files,
     get_table_structure, get_table_fields, get_name_mapping, get_sort_spec,
     get_partition_spec, get_object_tags, get_column_tags,
     get_table_files_for_select, get_table_file_metadata_page_filtered,
     get_table_summary_statistics, get_table_statistics, get_partition_count_facts,
     get_inlined_data, scan_inlined_data, scan_inlined_data_noting_absence,
     get_inlined_data_with_row_ids, read_inlined_rows, oldest_inlined_row_snapshot,
     get_inlined_data_for_flush, get_inlined_deletes,
     get_inlined_file_deletes_for_flush, get_inlined_file_deletes_between,
     get_inlined_file_deletes_of_files_between, get_delete_file_begin_snapshot,
     get_data_files_added_between_snapshots,
     get_delete_files_added_between_snapshots}
=============================================================================
