---------------------------- MODULE MySqlProvider ---------------------------
(***************************************************************************)
(* The methods of MySqlMetadataProvider as programs of statements, each on *)
(* a connection of its own: the consistent read's or one of the pool.      *)
(***************************************************************************)
EXTENDS ReadStatements

\* What schema_capabilities probes in one statement.
SchemaCapabilities == {"partial_max", "delete_partial_max", "partition_id",
                       "schema_versions", "inlined_data_tables", "view"}

\* schema_version_ledger.
Ledger == <<Probe>>

registered_inlined_tables(each) ==
    <<Probe>> \o Having({"inlined_data_tables"}, EachTable(each))

\* The registry's tables and the next data file id, in one statement.
registered_inlined_tables_and_next_file_id(each) ==
    <<Probe>> \o Having({"inlined_data_tables"}, EachTable(each))

\* The table's layout, its version's columns and its rows, on one connection.
read_mysql_inlined_table ==
    <<Take, On({"inlined_data"}),
      OnUsing({"column", "inlined_data_tables"}, WhereLedger),
      On({"inlined_data"}), Drop>>

read_inlined_rows_mysql ==
    Ledger \o registered_inlined_tables_and_next_file_id(read_mysql_inlined_table)

inlined_file_deletes == <<TolerantReturn({"inlined_delete"})>>

-----------------------------------------------------------------------------
get_current_snapshot == <<Query({"snapshot"})>>
get_metadata_settings == <<Learn("scope"), QueryUsing({"metadata"}, Where({"scope"}))>>
get_data_path == get_metadata_settings
list_snapshots == <<Query({"snapshot"})>>
snapshot_ids_between == <<Query({"snapshot"})>>
list_table_snapshot_changes == <<Query({"snapshot", "snapshot_changes"})>>
list_snapshot_changes == <<Query({"snapshot", "snapshot_changes"})>>
find_snapshot_by_commit_extra_info == <<Query({"snapshot_changes", "data_file"})>>

list_schemas == <<Query({"schema"})>>
list_tables == <<Query({"table"})>>
list_views == <<Probe, ReturnUnless({"view"}), Query({"view"})>>
get_schema_by_name == <<Query({"schema"})>>
get_table_by_name == <<Query({"table"})>>
get_view_by_name == <<Probe, ReturnUnless({"view"}), Query({"view"})>>
table_exists == <<Query({"table"})>>
get_view_id_by_name == <<TolerantReturn({"view"})>>
list_all_tables == <<Query({"schema", "table"})>>
list_all_views == <<Probe, ReturnUnless({"view"}), Query({"schema", "view"})>>
list_all_columns == <<Query({"schema", "table", "column"})>>
list_all_object_tags == <<TolerantReturn({"tag"})>>
list_all_column_tags == <<TolerantReturn({"column_tag"})>>
list_all_files == <<Query({"schema", "table", "data_file", "delete_file"})>>

get_table_structure == <<Query({"column"})>>
get_table_fields == <<Query({"column"})>>
get_name_mapping == <<Query({"column_mapping", "name_mapping"})>>
get_sort_spec == <<TolerantReturn({"sort_info"})>>
get_partition_spec == <<TolerantReturn({"partition_info"}), TolerantReturn({"partition_info"})>>

\* An object's tags, or a column's.
get_object_tags == <<TolerantReturn({"tag"})>>
get_column_tags == <<TolerantReturn({"column_tag"})>>

\* The columns of a listing that an older catalog may lack.
FileColumns == Where({"partial_max", "partition_id"}) \cup WhereLedger

get_table_files_for_select ==
    <<Probe,
      QueryUsing({"data_file", "delete_file"}, FileColumns),
      MayReturn,
      Tolerant({"partition_value"})>>

\* The statistics and partition values of the page's files.
page_statistics == <<Tolerant({"file_column_stats"}), Tolerant({"partition_value"})>>

get_table_file_metadata_page_filtered ==
    <<Probe, Page(FileColumns), MayReturn>> \o page_statistics

get_table_summary_statistics ==
    <<Tolerant({"table_stats"}), Query({"delete_file"}), Tolerant({"table_column_stats"})>>

get_table_statistics ==
    <<Tolerant({"table_stats"}), Tolerant({"table_column_stats"}),
      Tolerant({"file_column_stats"})>>

-----------------------------------------------------------------------------
\* Inlined rows and deletions.

get_inlined_data == read_inlined_rows_mysql
scan_inlined_data == read_inlined_rows_mysql
scan_inlined_data_noting_absence == read_inlined_rows_mysql
get_inlined_data_with_row_ids == read_inlined_rows_mysql
read_inlined_rows == read_inlined_rows_mysql

\* A table's first row by the snapshot, and the schema version it was written with.
FirstAndVersion(then) ==
    <<Query({"inlined_data"}), Query({"inlined_data"})>>
        \o Maybe(<<QueryUsing({"inlined_data_tables", "snapshot"}, WhereLedger)>> \o then)

oldest_inlined_row_snapshot == Ledger \o registered_inlined_tables(FirstAndVersion(<<>>))

\* (The ledger is asked for after the registry, tables or none.)
get_inlined_data_for_flush ==
    registered_inlined_tables(
        Ledger \o FirstAndVersion(Maybe(get_table_structure \o read_mysql_inlined_table)))

get_inlined_deletes == <<TolerantReturn({"inlined_delete"})>>
get_inlined_file_deletes_for_flush == <<TolerantReturn({"inlined_delete"})>>
get_inlined_file_deletes_between == inlined_file_deletes
get_inlined_file_deletes_of_files_between == inlined_file_deletes
get_delete_file_begin_snapshot == <<Query({"delete_file"})>>

get_data_files_added_between_snapshots ==
    <<Probe, QueryUsing({"data_file"}, Where({"partial_max"}))>>
get_delete_files_added_between_snapshots == <<Query({"data_file", "delete_file"})>>

\* The methods.
MySqlMethods ==
    {get_current_snapshot, get_metadata_settings, get_data_path, list_snapshots,
     snapshot_ids_between, list_table_snapshot_changes, list_snapshot_changes,
     find_snapshot_by_commit_extra_info, list_schemas, list_tables, list_views,
     get_schema_by_name, get_table_by_name, get_view_by_name, table_exists,
     get_view_id_by_name, list_all_tables, list_all_views, list_all_columns,
     list_all_object_tags, list_all_column_tags, list_all_files,
     get_table_structure, get_table_fields, get_name_mapping, get_sort_spec,
     get_partition_spec, get_object_tags, get_column_tags,
     get_table_files_for_select, get_table_file_metadata_page_filtered,
     get_table_summary_statistics, get_table_statistics, get_inlined_data,
     scan_inlined_data, scan_inlined_data_noting_absence,
     get_inlined_data_with_row_ids, read_inlined_rows, oldest_inlined_row_snapshot,
     get_inlined_data_for_flush, get_inlined_deletes,
     get_inlined_file_deletes_for_flush, get_inlined_file_deletes_between,
     get_inlined_file_deletes_of_files_between, get_delete_file_begin_snapshot,
     get_data_files_added_between_snapshots,
     get_delete_files_added_between_snapshots}
=============================================================================
