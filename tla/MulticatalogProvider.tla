------------------------ MODULE MulticatalogProvider ------------------------
(***************************************************************************)
(* The methods of MulticatalogProvider, the reader of one catalog of a     *)
(* multi-catalog PostgreSQL store, as programs of statements.  Every read  *)
(* goes through on_connection, which holds its connection for the closure  *)
(* it runs; the helpers on a connection are the PostgreSQL provider's.     *)
(***************************************************************************)
EXTENDS ReadStatements

P == INSTANCE PostgresProvider

\* SchemaCapabilities::PROBES.
SchemaCapabilities == {"partial_max", "schema_versions", "ledger_table_id", "partition_id",
                       "view", "file_column_stats", "partition_value", "inlined_data_tables",
                       "partition_info", "sort_info", "table_stats", "table_column_stats",
                       "tag", "column_tag"}

FileColumns == Where({"partial_max", "partition_id"}) \cup WhereLedger

\* on_connection with a closure of several statements.
on_connection(body) == <<Take>> \o body \o <<Drop>>

read_inlined_rows_shaped ==
    <<Probe, ReturnUnless({"inlined_data_tables"})>> \o on_connection(P!read_inlined_rows_on)

inlined_file_deletes == LookForDeletes \o <<ReadDeletes>>

\* listing_page_sql reads a page's statistics, and whether the table has partition
\* values, in the page's own statement.
listing_page_sql == FileColumns \cup Where({"file_column_stats", "partition_value"})
read_page_partition_values == <<IfPresent("partition_value")>>

file_metadata_page ==
    Concat(<< <<Probe>>, on_connection(<<OnPage(listing_page_sql)>>), <<MayReturn>>,
              read_page_partition_values>>)

-----------------------------------------------------------------------------
get_current_snapshot == <<Query({"catalog_snapshot_map"})>>
\* The catalog's own path, or the store's before catalogs had one.
get_data_path ==
    <<Learn("catalog_data_path"),
      QueryUsing({"catalog", "metadata"}, Where({"catalog_data_path"}))>>
get_metadata_settings == <<Learn("scope"), QueryUsing({"metadata"}, Where({"scope"}))>>
list_snapshots == <<Query({"snapshot", "catalog_snapshot_map"})>>
table_first_snapshot == <<Query({"table"})>>
snapshot_ids_between == <<Query({"snapshot", "catalog_snapshot_map"})>>
list_table_snapshot_changes == <<Query({"snapshot", "catalog_snapshot_map", "snapshot_changes"})>>
list_snapshot_changes == <<Query({"snapshot", "catalog_snapshot_map", "snapshot_changes"})>>
find_snapshot_by_commit_extra_info ==
    <<Query({"snapshot_changes", "catalog_snapshot_map", "data_file", "table",
             "catalog_schema_map"})>>

list_schemas == <<Query({"schema", "catalog_schema_map"})>>
list_tables == <<Query({"table"})>>
list_views == <<Probe, ReturnUnless({"view"}), Query({"view"})>>
get_schema_by_name == <<Query({"schema", "catalog_schema_map"})>>
get_table_by_name == <<Query({"table"})>>
get_view_by_name == <<Probe, ReturnUnless({"view"}), Query({"view"})>>
table_exists == <<Query({"table"})>>
get_view_id_by_name == <<Probe, ReturnUnlessPresent("view")>>
list_all_tables == <<Query({"schema", "catalog_schema_map", "table"})>>
list_all_views ==
    <<Probe, ReturnUnless({"view"}), Query({"schema", "catalog_schema_map", "view"})>>
list_all_columns == <<Query({"schema", "catalog_schema_map", "table", "column"})>>
list_all_object_tags == <<Probe, ReturnUnlessPresent("tag")>>
list_all_column_tags == <<Probe, ReturnUnlessPresent("column_tag")>>
list_all_files ==
    <<Query({"schema", "catalog_schema_map", "table", "data_file", "delete_file"})>>

get_table_structure == <<Query({"column"})>>
get_table_fields == <<Query({"column"})>>
get_name_mapping == <<Query({"column_mapping", "name_mapping"})>>
get_sort_spec == <<Probe, ReturnUnlessPresent("sort_info")>>
get_partition_spec ==
    <<Probe, ReturnUnlessPresent("partition_info"), ReturnUnlessPresent("partition_info")>>

\* An object's tags, or a column's.
get_object_tags == <<Probe, ReturnUnlessPresent("tag")>>
get_column_tags == <<Probe, ReturnUnlessPresent("column_tag")>>

get_table_files_for_select ==
    <<Probe, QueryUsing({"data_file", "delete_file"}, FileColumns), MayReturn,
      IfPresent("partition_value")>>

get_table_file_metadata_page_filtered == file_metadata_page

get_table_summary_statistics ==
    <<Probe, IfPresent("table_stats"), Query({"delete_file"}), IfPresent("table_column_stats")>>

get_table_statistics ==
    <<Probe, IfPresent("table_stats"), IfPresent("table_column_stats"),
      IfPresent("file_column_stats")>>

get_partition_count_facts == on_connection(P!partition_count_facts_on)

-----------------------------------------------------------------------------
\* Inlined rows and deletions.

scan_inlined_data_noting_absence ==
    <<Probe, ReturnUnless({"inlined_data_tables"})>> \o on_connection(P!scan_inlined_data_on)
scan_inlined_data == scan_inlined_data_noting_absence
get_inlined_data == scan_inlined_data
get_inlined_data_with_row_ids == read_inlined_rows_shaped
read_inlined_rows == read_inlined_rows_shaped

oldest_inlined_row_snapshot ==
    <<Probe, ReturnUnless({"inlined_data_tables"}), Probe>>
        \o on_connection(OnEachTable(P!first_inlined_snapshot_on
                                         \o Maybe(P!inlined_version_snapshot_on)))

get_inlined_data_for_flush_Held ==
    <<Probe, ReturnUnless({"inlined_data_tables"})>>
        \o EachTable(
               Concat(<< <<Probe, Take>>, P!first_inlined_snapshot_on,
                         <<MayReturn>>, P!inlined_version_snapshot_on,
                         get_table_structure, P!inlined_table_for_flush_on, <<Drop>> >>))

\* The connection is released before the structure read takes it again.
get_inlined_data_for_flush ==
    <<Probe, ReturnUnless({"inlined_data_tables"})>>
        \o EachTable(
               Concat(<< <<Probe, Take>>, P!first_inlined_snapshot_on,
                         <<MayReturn>>, P!inlined_version_snapshot_on, <<MayReturn, Drop>>,
                         get_table_structure, on_connection(P!inlined_table_for_flush_on)>>))

get_inlined_deletes == LookForDeletes \o <<ReadDeletes>>
get_inlined_file_deletes_for_flush == LookForDeletes \o <<ReadDeletes>>
get_inlined_file_deletes_between == inlined_file_deletes
get_inlined_file_deletes_of_files_between == inlined_file_deletes
get_delete_file_begin_snapshot == <<Query({"delete_file"})>>

get_data_files_added_between_snapshots ==
    <<Probe, QueryUsing({"data_file"}, Where({"partial_max"}))>>
get_delete_files_added_between_snapshots == <<Query({"data_file", "delete_file"})>>

\* The methods.
MulticatalogMethods ==
    {get_current_snapshot, get_metadata_settings, get_data_path, list_snapshots,
     table_first_snapshot, snapshot_ids_between, list_table_snapshot_changes,
     list_snapshot_changes, find_snapshot_by_commit_extra_info, list_schemas,
     list_tables, list_views, get_schema_by_name, get_table_by_name,
     get_view_by_name, table_exists, get_view_id_by_name, list_all_tables,
     list_all_views, list_all_columns, list_all_object_tags, list_all_column_tags,
     list_all_files, get_table_structure, get_table_fields, get_name_mapping,
     get_sort_spec, get_partition_spec, get_object_tags, get_column_tags,
     get_table_files_for_select, get_table_file_metadata_page_filtered,
     get_table_summary_statistics, get_table_statistics, get_partition_count_facts,
     get_inlined_data, scan_inlined_data, scan_inlined_data_noting_absence,
     get_inlined_data_with_row_ids, read_inlined_rows, oldest_inlined_row_snapshot,
     get_inlined_data_for_flush, get_inlined_deletes,
     get_inlined_file_deletes_for_flush, get_inlined_file_deletes_between,
     get_inlined_file_deletes_of_files_between, get_delete_file_begin_snapshot,
     get_data_files_added_between_snapshots,
     get_delete_files_added_between_snapshots}
=============================================================================
