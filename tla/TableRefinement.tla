--------------------------- MODULE TableRefinement ---------------------------
(***************************************************************************)
(* TableWrites implements SnapshotHistory: the abstract history has the    *)
(* contents a reader resolves the catalog rows to, and the requests the    *)
(* statements in flight stand for.                                         *)
(***************************************************************************)
EXTENDS TableProperties

\* The snapshot history the catalog rows stand for.
RequestOf(st) ==
    [op |-> IF st.op \in {"merge", "rewrite", "flush"} THEN "maintain" ELSE st.op,
     fresh |-> st.fresh, targets |-> st.targets, saw |-> st.saw]

History == INSTANCE SnapshotHistory WITH
    content <- [s \in snapshots |-> ContentAt(s)],
    used    <- 0 .. nextRowId - 1,
    pending <- [w \in Writers |-> RequestOf(stmt[w])]

\* The catalog implements the snapshot history: no commit, compaction, flush or
\* expiry changes what time travel to a surviving snapshot returns, and every
\* statement that commits takes effect whole, on exactly the rows it read, as if
\* it ran alone on the latest snapshot.  (The conflict checks of every commit
\* call, and the dating of delete files, merged files and flushed files.)
ImplementsHistory == History!Spec
=============================================================================
