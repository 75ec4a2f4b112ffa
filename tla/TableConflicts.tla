--------------------------- MODULE TableConflicts ---------------------------
(***************************************************************************)
(* The change ledger of one table (ducklake_snapshot_changes.changes_made) *)
(* and the table-level conflict check every commit runs against it:        *)
(* TableChanges and table_conflict in metadata_writer.rs.  A token is the  *)
(* kind of a "kind:table_id" entry naming this table; entries that name    *)
(* another object are left out.                                            *)
(***************************************************************************)

Token == {"created_table", "dropped_table", "altered_table",
          "inserted_into_table", "inlined_insert",
          "deleted_from_table", "inlined_delete", "inline_flush",
          "merge_adjacent", "rewrite_delete"}

\* What one commit changes in the table, as the conflict check classifies it.
TableChange == {"inserted_into", "inserted_inlined", "deleted_from",
                "deleted_inlined", "flushed_inlined"}

\* Mutant: an insert no longer minds a concurrent deletion from Parquet files.
INSERT_IgnoringDeletes == {"dropped_table", "altered_table", "inlined_delete"}

\* The rules of table_conflict: the changes of another transaction that each
\* change of ours conflicts with.
INSERT == {"dropped_table", "altered_table", "deleted_from_table",
           "inlined_delete"}

DELETE_FROM == {"dropped_table", "altered_table", "merge_adjacent",
                "rewrite_delete", "inserted_into_table", "inlined_insert"}

DELETE_INLINED == {"dropped_table", "altered_table", "inlined_delete",
                   "inline_flush", "inserted_into_table", "inlined_insert"}

\* Mutant: a flush no longer minds a concurrent deletion of inlined data.
FLUSH_IgnoringDeletes == {"dropped_table", "inline_flush"}

FLUSH == {"dropped_table", "inlined_delete", "inline_flush"}

ConflictsWith(change) ==
    CASE change \in {"inserted_into", "inserted_inlined"} -> INSERT
      [] change = "deleted_from"    -> DELETE_FROM
      [] change = "deleted_inlined" -> DELETE_INLINED
      [] change = "flushed_inlined" -> FLUSH

\* `ours` is the set of changes the commit makes, `other` the tokens of the
\* snapshots committed since its base.
TableConflict(ours, other) ==
    \E change \in ours : ConflictsWith(change) \cap other # {}

\* The token a commit records for each change it makes (table_storage_tokens,
\* inlined_flush_changes).
TokenOf(change) ==
    CASE change = "inserted_into"    -> "inserted_into_table"
      [] change = "inserted_inlined" -> "inlined_insert"
      [] change = "deleted_from"     -> "deleted_from_table"
      [] change = "deleted_inlined"  -> "inlined_delete"
      [] change = "flushed_inlined"  -> "inline_flush"

TokensOf(ours) == {TokenOf(change) : change \in ours}
=============================================================================
