--------------------------- MODULE DuckDbProvider ---------------------------
(***************************************************************************)
(* The methods of DuckdbMetadataProvider as programs of statements.  A     *)
(* method holds the connection's lock from its first statement to its      *)
(* last: the shared connection's, or the consistent read's clone of it.    *)
(***************************************************************************)
EXTENDS ReadStatements

\* What schema_capabilities probes in one statement; column_defaults stands for
\* the four default columns of ducklake_column.
SchemaCapabilities == {"partial_max", "delete_partial_max", "partition_id", "column_defaults",
                       "ledger_table_id", "inlined_data_tables", "view"}

\* connection() and the guard's scope.
Locked(body) == <<Take>> \o body \o <<Drop>>
Read(of) == Locked(<<On(of)>>)
ReadTolerant(of) == Locked(<<OnTolerantReturn(of)>>)

\* A ledger without table_id counts versions for the whole catalog.
schema_version_ledger ==
    <<OnProbe>> \o Lacking({"ledger_table_id"}, <<OnLearn("schema_versions")>>)
LedgerColumns == Where({"ledger_table_id", "schema_versions"})

registered_inlined_tables(each) ==
    <<OnProbe>> \o Having({"inlined_data_tables"}, OnEachTable(each))
registered_inlined_tables_and_next_file_id(each) ==
    <<OnProbe>> \o Having({"inlined_data_tables"}, OnEachTable(each))

\* The layout, the version's columns and the rows.
read_duckdb_inlined_table ==
    <<On({"inlined_data"}), OnUsing({"column", "inlined_data_tables"}, LedgerColumns),
      On({"inlined_data"})>>

read_inlined_rows_duckdb ==
    Locked(schema_version_ledger
               \o registered_inlined_tables_and_next_file_id(read_duckdb_inlined_table))

inlined_file_deletes == ReadTolerant({"inlined_delete"})

\* file_provenance_sql and get_table_columns_sql leave out the columns it lacks.
file_provenance == Where({"ledger_table_id", "partial_max", "partition_id"})
get_table_columns(of) == Locked(<<OnProbe, OnUsing(of, Where({"column_defaults"}))>>)
ReadViews(of) == Locked(<<OnProbe, ReturnUnless({"view"}), On(of)>>)

-----------------------------------------------------------------------------
get_current_snapshot == Read({"snapshot"})
get_metadata_settings == Locked(<<OnLearn("scope"), OnUsing({"metadata"}, Where({"scope"}))>>)
get_data_path == get_metadata_settings
list_snapshots == Read({"snapshot"})
snapshot_ids_between == Read({"snapshot"})
list_table_snapshot_changes == Read({"snapshot", "snapshot_changes"})
list_snapshot_changes == Read({"snapshot", "snapshot_changes"})
find_snapshot_by_commit_extra_info == Read({"snapshot_changes", "data_file"})

list_schemas == Read({"schema"})
list_tables == Read({"table"})
list_views == ReadViews({"view"})
get_schema_by_name == Read({"schema"})
get_table_by_name == Read({"table"})
get_view_by_name == ReadViews({"view"})
table_exists == Read({"table"})
get_view_id_by_name == ReadTolerant({"view"})
list_all_tables == Read({"schema", "table"})
list_all_views == ReadViews({"schema", "view"})
list_all_columns == get_table_columns({"schema", "table", "column"})
list_all_object_tags == ReadTolerant({"tag"})
list_all_column_tags == ReadTolerant({"column_tag"})
list_all_files ==
    Locked(<<OnProbe, OnUsing({"schema", "table", "data_file", "delete_file"}, file_provenance)>>)

get_table_structure == get_table_columns({"column"})
get_table_fields == get_table_columns({"column"})
get_name_mapping == Read({"column_mapping", "name_mapping"})
get_sort_spec == ReadTolerant({"sort_info"})
get_partition_spec ==
    Locked(<<OnTolerantReturn({"partition_info"}), OnTolerantReturn({"partition_info"})>>)

\* An object's tags, or a column's.
get_object_tags == ReadTolerant({"tag"})
get_column_tags == ReadTolerant({"column_tag"})

get_table_files_for_select ==
    Locked(<<OnProbe, OnUsing({"data_file", "delete_file"}, file_provenance), MayReturn,
             OnTolerant({"partition_value"})>>)

\* The statistics and partition values of the page's files.
page_statistics == <<OnTolerant({"file_column_stats"}), OnTolerant({"partition_value"})>>

get_table_file_metadata_page_filtered ==
    Locked(<<OnProbe, OnPage(file_provenance), MayReturn>> \o page_statistics)

get_table_summary_statistics ==
    Locked(<<OnTolerant({"table_stats"}), On({"delete_file"}),
             OnTolerant({"table_column_stats"})>>)

get_table_statistics ==
    Locked(<<OnTolerant({"table_stats"}), OnTolerant({"table_column_stats"}),
             OnTolerant({"file_column_stats"})>>)

-----------------------------------------------------------------------------
\* Inlined rows and deletions.

get_inlined_data == read_inlined_rows_duckdb
scan_inlined_data == read_inlined_rows_duckdb
scan_inlined_data_noting_absence == read_inlined_rows_duckdb
get_inlined_data_with_row_ids == read_inlined_rows_duckdb
read_inlined_rows == read_inlined_rows_duckdb

\* A table's layout and first row, and the schema version it was written with.
FirstAndVersion(then) ==
    <<On({"inlined_data"}), On({"inlined_data"})>>
        \o Maybe(<<OnUsing({"inlined_data_tables", "snapshot"}, LedgerColumns)>> \o then)

oldest_inlined_row_snapshot ==
    Locked(schema_version_ledger \o registered_inlined_tables(FirstAndVersion(<<>>)))

\* The lock is let go while the table's structure is read.
get_inlined_data_for_flush ==
    Locked(schema_version_ledger
               \o registered_inlined_tables(
                      FirstAndVersion(<<MayReturn, Drop>> \o get_table_structure
                                          \o Locked(read_duckdb_inlined_table) \o <<Return>>)))

get_inlined_deletes == ReadTolerant({"inlined_delete"})
get_inlined_file_deletes_for_flush == ReadTolerant({"inlined_delete"})
get_inlined_file_deletes_between == inlined_file_deletes
get_inlined_file_deletes_of_files_between == inlined_file_deletes
get_delete_file_begin_snapshot == Read({"delete_file"})

get_data_files_added_between_snapshots ==
    Locked(<<OnProbe, OnUsing({"data_file"}, Where({"partial_max"}))>>)
get_delete_files_added_between_snapshots == Read({"data_file", "delete_file"})

\* The methods.
DuckDbMethods ==
    {get_current_snapshot, get_metadata_settings, get_data_path, list_snapshots,
     snapshot_ids_between, list_table_snapshot_changes, list_snapshot_changes,
     find_snapshot_by_commit_extra_info, list_schemas, list_tables, list_views,
     get_schema_by_name, get_table_by_name, get_view_by_name, table_exists,
     get_view_id_by_name, list_all_tables, list_all_views, list_all_columns,
     list_all_object_tags, list_all_column_tags, list_all_files,
     get_table_structure, get_table_fields, get_name_mapping, get_sort_spec,
     get_partition_spec, get_object_tags, get_column_tags,
     get_table_files_for_select, get_table_file_metadata_page_filtered,
     get_table_summary_statistics, get_table_statistics, get_inlined_data,
     scan_inlined_data, scan_inlined_data_noting_absence,
     get_inlined_data_with_row_ids, read_inlined_rows, oldest_inlined_row_snapshot,
     get_inlined_data_for_flush, get_inlined_deletes,
     get_inlined_file_deletes_for_flush, get_inlined_file_deletes_between,
     get_inlined_file_deletes_of_files_between, get_delete_file_begin_snapshot,
     get_data_files_added_between_snapshots,
     get_delete_files_added_between_snapshots}
=============================================================================
