--------------------------- MODULE FeedProperties ----------------------------
(***************************************************************************)
(* What the change feeds must report of the statements of TableWrites.     *)
(***************************************************************************)
EXTENDS TableWrites, ChangeFeed

\* The change feed over any unexpired window reports exactly what the window's
\* snapshots changed, each change once and an UPDATE as its two halves, whatever
\* merges, rewrites and flushes have moved since (build_correlated_changes,
\* deletion_sources).  Statements in flight touch no catalog row, so every state
\* of the catalog is met with none in flight.
FeedExact ==
    Active = {} =>
        LET changed == [s \in {t \in snapshots : t - 1 \in snapshots} |-> ChangesAt(s)]
        IN  \A w \in Windows :
                LET inserted == Insertions(w[1], w[2])
                    deleted  == Deletions(w[1], w[2])
                IN  /\ ReportedOnce(inserted) /\ ReportedOnce(deleted)
                    /\ Changes(inserted, deleted)
                           = UNION {changed[s] : s \in w[1] .. w[2]}
==============================================================================
