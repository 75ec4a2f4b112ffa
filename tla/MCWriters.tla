------------------------------ MODULE MCWriters ------------------------------
(***************************************************************************)
(* The catalogs of every backend: all pairs of commits on each, and the    *)
(* SQLite calls on specs, settings and names three at a time.              *)
(***************************************************************************)
EXTENDS WriterProperties

Sqlite == INSTANCE SqliteWriter
DuckDb == INSTANCE DuckDbWriter
MySql == INSTANCE MySqlWriter
Postgres == INSTANCE PostgresWriter
PostgresSingle == INSTANCE PostgresSingleWriter

AllCatalogs == {"sqlite", "sqlite_specs", "duckdb", "mysql", "postgres", "postgres_single"}

AllPrograms ==
    [c \in AllCatalogs |->
        CASE c \in {"sqlite", "sqlite_specs"} -> Sqlite!SqlitePrograms
          [] c = "duckdb" -> DuckDb!DuckDbPrograms
          [] c = "mysql" -> MySql!MySqlPrograms
          [] c = "postgres" -> Postgres!PostgresPrograms
          [] c = "postgres_single" -> PostgresSingle!PostgresSinglePrograms]

\* The legacy calls date their rows by a snapshot of the caller's, which a check
\* for changes since a base may not find.
Legacy == {"get_schema", "get_table", "set_columns"}
Settings == {"global_setting", "schema_setting", "table_setting"}

\* The calls that read before they lock, or lock nothing, promise less.
SqliteReadsFirst == {"partition", "sort", "new_columns"} \cup Settings
MySqlReadsFirst == {"append_inlined", "append_first_inlined", "replace_inlined",
                    "inlined_expected"}
PostgresUnlocked == {"snapshot", "schema_setting", "table_setting"}

CallsOf ==
    [c \in AllCatalogs |->
        CASE c = "sqlite" -> DOMAIN AllPrograms[c] \ (SqliteReadsFirst \cup Legacy)
          [] c = "sqlite_specs" ->
                 {"replace", "append_inlined", "append_reserved", "create", "partition",
                  "unpartition", "sort", "table_setting", "get_schema", "new_columns"}
          [] c = "duckdb" -> DOMAIN AllPrograms[c] \ {"get_table", "set_columns"}
          [] c = "mysql" -> DOMAIN AllPrograms[c] \ (MySqlReadsFirst \cup Legacy)
          [] c = "postgres" ->
                 DOMAIN AllPrograms[c] \ (PostgresUnlocked \cup {"get_table", "set_columns"})
          [] c = "postgres_single" -> DOMAIN AllPrograms[c] \ (Settings \cup Legacy)]

\* create_snapshot, without the catalog lock, beside the commits under it.
SnapshotCalls == [c \in AllCatalogs |-> {"snapshot", "append"}]

IsolationOf ==
    [c \in AllCatalogs |->
        CASE c \in {"sqlite", "sqlite_specs"} -> "deferred"
          [] c \in {"duckdb", "mysql"} -> "repeatable"
          [] c \in {"postgres", "postgres_single"} -> "committed"]

MaxCallsOf == [c \in AllCatalogs |-> IF c = "sqlite_specs" THEN 3 ELSE 2]

\* A SQLite commit never fails because another session committed
\* (WriteLockFirst); the calls of SqliteReadsFirst make no such promise.
CommitsLockFirst == catalog = "sqlite" => WriteLockFirst

\* Settings hold what their setters checked: a setting has one row, and a table
\* with a column of a reserved name has no inlining limit above zero (save on
\* MySQL, whose setters and commits lock nothing that the other locks).
SettingsHold == OneRowPerSetting /\ (catalog # "mysql" => ReservedNamesRefused)

\* Writers never wait for each other in a cycle: every program takes its row
\* locks in one order (save in the official PostgreSQL layout, where each counter
\* is a row of its own).
LocksInOrder == catalog # "postgres_single" => LockCycle = {}
=============================================================================
