-------------------------- MODULE ReaderProperties --------------------------
(***************************************************************************)
(* What the readers of a catalog may rely on.                              *)
(***************************************************************************)
EXTENDS CatalogReads

\* The statements of one consistent read see one state of the catalog
\* (begin_consistent_read), until its end or the end of the read session it is
\* on; reads that share a session's transaction share its state.
OneState ==
    /\ \A r \in Readers : Consistent(r) => Cardinality(reader[r].seen) <= 1
    /\ \A r, q \in Readers :
           reader[r].counted /\ reader[q].counted /\ conn[Session].open =>
               Cardinality(reader[r].seen \cup reader[q].seen) <= 1

\* A read of a catalog an earlier release wrote never fails for a table or column
\* that catalog lacks (schema_capabilities, read_if_present).
NoMissingRelation ==
    \A r \in Readers : reader[r].out = "missing" => reader[r].lack = {}

\* A call never answers after a failed statement ended its PostgreSQL transaction
\* (missing_table_as_none): the answer would be put together from statements that
\* did not run.
ErrorsSurface ==
    \A r \in Readers : reader[r].out = "ok" => ~reader[r].broke

\* A call that took the inlined-deletion table for absent, from the catalog or from
\* the memo the provider's clones share, missed no deletion its snapshot sees:
\* none was in the state the call reads (InlinedDeletionTables), unless the table
\* was dropped since.
NoDeletionMissed ==
    \A r \in Readers :
        LET call == reader[r]
            base == IF Consistent(r) /\ call.seen # {}
                    THEN CHOOSE k \in call.seen : TRUE ELSE call.since
            deleted == history[base].deleted
        IN  Idle(r) /\ call.at # 0 /\ call.out = "ok" /\ ~call.found.table =>
                \/ deleted = 0
                \/ call.at < deleted
                \/ \E k \in base..Now : "inlined_delete" \notin history[k].rels

\* The calls that wait for a connection, their statement's or the version check's.
Waits(r) ==
    /\ Active(r)
    /\ Current(r).do \in {"query", "probe", "learn", "tables", "page", "look", "deletes", "take"}
    /\ IF NeedsCheck(r) /\ provider # "duckdb" THEN free = 0 ELSE ~Available(Runs(r))

\* No call waits for a connection it holds itself, or for one whose holder waits
\* for it, with a pool of one connection: while a call is under way, some call can
\* go on, or a connection is with somebody who can give it back.
NobodyStuck ==
    (\E r \in Readers : Active(r)) =>
        \/ \E r \in Readers : (Active(r) /\ ~Waits(r)) \/ (Idle(r) /\ Reading(r))
        \/ conn[Session].open /\ conn[Session].holder = Nobody
        \/ ending > 0
=============================================================================
