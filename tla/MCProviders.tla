----------------------------- MODULE MCProviders -----------------------------
(***************************************************************************)
(* The providers of every backend, each method called on catalogs old and  *)
(* new, beside a second reader of the methods that share its state.        *)
(***************************************************************************)
EXTENDS ReaderProperties

CONSTANTS r1, r2

Sqlite == INSTANCE SqliteProvider
MySql == INSTANCE MySqlProvider
DuckDb == INSTANCE DuckDbProvider
Postgres == INSTANCE PostgresProvider
Multicatalog == INSTANCE MulticatalogProvider

AllProviders == {"sqlite", "mysql", "duckdb", "postgres", "multicatalog"}

AllMethods ==
    [sqlite |-> Sqlite!SqliteMethods, mysql |-> MySql!MySqlMethods,
     duckdb |-> DuckDb!DuckDbMethods, postgres |-> Postgres!PostgresMethods,
     multicatalog |-> Multicatalog!MulticatalogMethods]

AllCapabilities ==
    [sqlite |-> Sqlite!SchemaCapabilities, mysql |-> MySql!SchemaCapabilities,
     duckdb |-> DuckDb!SchemaCapabilities, postgres |-> Postgres!SchemaCapabilities,
     multicatalog |-> Multicatalog!SchemaCapabilities]

\* One reader calling any method once; both sharing what a PostgreSQL provider
\* remembers of the inlined deletions; and both reading consistently, a method of several
\* statements and one of a single statement.
AllPlans == {"each method", "deletions", "shared reads"}

DeletionsOf ==
    [p \in AllProviders |->
        CASE p = "postgres" -> {Postgres!get_inlined_deletes}
          [] p = "multicatalog" -> {Multicatalog!get_inlined_deletes}
          [] OTHER -> {}]
SharedOf ==
    [sqlite |-> {Sqlite!scan_inlined_data, Sqlite!get_current_snapshot},
     mysql |-> {MySql!scan_inlined_data, MySql!get_current_snapshot},
     duckdb |-> {DuckDb!scan_inlined_data, DuckDb!get_current_snapshot},
     postgres |-> {Postgres!scan_inlined_data, Postgres!get_current_snapshot},
     multicatalog |-> {Multicatalog!scan_inlined_data, Multicatalog!get_current_snapshot}]

MethodsOf ==
    [n \in AllPlans |-> [p \in AllProviders |-> [r \in Readers |->
        CASE n = "each method" -> IF r = r1 THEN AllMethods[p] ELSE {}
          [] n = "deletions" -> DeletionsOf[p]
          [] n = "shared reads" -> SharedOf[p]]]]

CallsOf ==
    [n \in AllPlans |-> [r \in Readers |->
        IF n = "each method" /\ r # r1 THEN 0 ELSE 1]]

ChangesOf == [n \in AllPlans |-> IF n = "deletions" THEN 2 ELSE 1]

\* A catalog as this release writes it, a bare one, one with the later tables, and
\* one with the later columns.  The SQLite, MySQL and PostgreSQL providers take a
\* ledger for one that numbers each table's versions.
Ledger == {"schema_versions", "ledger_table_id"}
LegacyOf ==
    [n \in AllPlans |-> [p \in AllProviders |->
        CASE n # "each method" -> {Optional}
          [] p = "duckdb" -> {Optional, {}, OptionalTables, OptionalColumns}
          [] OTHER -> {Optional, {}, OptionalTables \ Ledger, OptionalColumns \cup Ledger}]]

PoolSizeOf == [p \in AllProviders |-> 1]
=============================================================================
