--------------------------- MODULE ReadStatements ---------------------------
(***************************************************************************)
(* The statements the catalog providers' methods are made of.  A           *)
(* MetadataProvider method is a sequence of these; the provider modules    *)
(* spell them out and CatalogReads runs them.                              *)
(*                                                                         *)
(* A statement names the catalog tables and columns it reads.  A catalog   *)
(* an earlier release wrote may lack the ones in Optional, which a method  *)
(* learns from schema_capabilities or from the error of a statement.       *)
(***************************************************************************)
EXTENDS Naturals, Sequences

OptionalColumns == {"partial_max", "partition_id", "delete_partial_max", "scope",
                    "catalog_data_path",
                    "column_defaults", "ledger_table_id"}
OptionalTables == {"schema_versions", "inlined_data_tables", "view", "partition_value",
                   "partition_info", "sort_info", "file_column_stats", "table_stats",
                   "table_column_stats", "tag", "column_tag"}
TableOf == [partial_max |-> "data_file", partition_id |-> "data_file",
            delete_partial_max |-> "delete_file", scope |-> "metadata",
            column_defaults |-> "column", ledger_table_id |-> "schema_versions",
            catalog_data_path |-> "catalog"]
Optional == OptionalColumns \cup OptionalTables

\* Tables DuckLake creates and drops as it runs: a table's inlined rows, and its
\* inlined deletions of data file rows.
Transient == {"inlined_data", "inlined_delete"}

\* The tables every catalog has and no migration alters are the same to a reader.
Altered == {TableOf[c] : c \in OptionalColumns}

\* do       what it does
\* of       the tables and columns it reads, of those that may be missing or altered
\* needs    the capabilities without which it is not sent
\* uses     what it reads only `where` the capabilities have a table or column
\* looks    the table or column whose existence it asks for
\* missing  what a missing table means: "fail", "none" (it holds nothing) or
\*          "return" (so the method is done)
\* n        how many statements a branch skips
Statement(do, of, missing) ==
    [do |-> do, of |-> of \cap (Optional \cup Transient \cup Altered), needs |-> {}, uses |-> {}, looks |-> {}, missing |-> missing,
     n |-> 0]

\* One statement on a connection taken for it (connection()).
Query(of) == Statement("query", of, "fail")
QueryUsing(of, uses) == [Query(of) EXCEPT !.uses = uses]

Where(caps) == {[where |-> c, reads |-> {c}] : c \in caps}
\* A read of the ledger by table, sent where the ledger's table was found.
WhereLedger == {[where |-> "schema_versions", reads |-> {"schema_versions", "ledger_table_id"}]}

\* One that takes the error of a missing table for an empty one.
Tolerant(of) == Statement("query", of, "none")
TolerantReturn(of) == Statement("query", of, "return")

\* One sent only where the probe found its tables (read_if_present).
IfPresent(cap) == [Statement("query", {cap}, "none") EXCEPT !.needs = {cap}]
ReturnUnlessPresent(cap) == [Statement("query", {cap}, "return") EXCEPT !.needs = {cap}]

\* A connection kept for the statements of a helper, and those statements.
Take == Statement("take", {}, "fail")
On(of) == Statement("on", of, "fail")
OnUsing(of, uses) == [On(of) EXCEPT !.uses = uses]
OnTolerant(of) == Statement("on", of, "none")
OnTolerantReturn(of) == Statement("on", of, "return")
Drop == Statement("drop", {}, "fail")

\* schema_capabilities, on a connection of its own or on the one kept.
Probe == Statement("probe", {}, "fail")
OnProbe == Statement("on_probe", {}, "fail")

\* A page of the file listing, narrowed by a statistics filter the database may
\* fail to run; the page is then read again without it.
Page(uses) == [Statement("page", {"data_file", "delete_file"}, "fail")
                   EXCEPT !.uses = uses]
OnPage(uses) == [Page(uses) EXCEPT !.do = "on_page"]

\* Whether the table's inlined-deletion table exists, from the memo or from the
\* catalog; without it the method is done.
LookForDeletes == <<Statement("look", {}, "fail"), Statement("note", {}, "fail")>>
\* A read of that table after the look, which forgets the memo when it is gone.
ReadDeletes == Statement("deletes", {"inlined_delete"}, "return")

\* A look for one table or column, or for several.
Learn(cap) == [Statement("learn", {}, "fail") EXCEPT !.looks = {cap}]
OnLearnAll(caps) == [Statement("on_learn", {}, "fail") EXCEPT !.looks = caps]
OnLearn(cap) == OnLearnAll({cap})

\* The registry of the table's inlined data tables, and the statements that read
\* one of them.
EachTable(body) ==
    <<[Statement("tables", {"inlined_data_tables"}, "fail") EXCEPT !.n = Len(body)]>> \o body
OnEachTable(body) ==
    <<[Statement("on_tables", {"inlined_data_tables"}, "fail") EXCEPT !.n = Len(body)]>>
        \o body

\* What the method read may end it.
MayReturn == Statement("may_return", {}, "fail")

\* The method is done without the capabilities, or just done.
ReturnUnless(caps) == [Statement("unless", {}, "fail") EXCEPT !.needs = caps]
Return == ReturnUnless({"more to do"})

\* The body runs only with the capabilities, only without them, or only if what was
\* read says so.
Lacking(caps, body) ==
    <<[Statement("lacking", {}, "fail") EXCEPT !.needs = caps, !.n = Len(body)]>> \o body
Having(caps, body) ==
    <<[Statement("having", {}, "fail") EXCEPT !.needs = caps, !.n = Len(body)]>> \o body
Maybe(body) == <<[Statement("maybe", {}, "fail") EXCEPT !.n = Len(body)]>> \o body

Concat(parts) ==
    LET join[k \in 0..Len(parts)] ==
            IF k = 0 THEN <<>> ELSE join[k - 1] \o parts[k]
    IN  join[Len(parts)]
=============================================================================
