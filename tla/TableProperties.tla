--------------------------- MODULE TableProperties ---------------------------
(***************************************************************************)
(* What the statements of TableWrites must keep true of the table.         *)
(***************************************************************************)
EXTENDS TableWrites

\* A scan at a surviving snapshot returns no row id twice: a merge, a rewrite or
\* a flush never leaves a row in both its old and its new place, and UPDATE ends
\* the version it supersedes.
NoRowTwice ==
    \A s \in snapshots : \A t, u \in ScannedAt(s) : t.row.rid = u.row.rid => t = u

\* A data file has at most one delete file at a surviving snapshot and at most
\* one live one: SQL_GET_DATA_FILES joins them one to one and the commits'
\* compare-and-swap reads a single id, so a second one would duplicate the file
\* in the scan or hide deletions.
OneDeleteFile ==
    \A f \in DOMAIN dataFile :
        /\ \A c, d \in LiveDeleteFile(f) : c = d
        /\ \A s \in snapshots : f \in DataFilesAt(s) =>
               \A c, d \in DeleteFilesAt(f, s) : c = d

\* An expiry removed the retired file, or its delete file, that a flush was to
\* record deletions of.
Expired(e) ==
    /\ e.fileEnd # NULL
    /\ e.file \notin DOMAIN dataFile \/ ~(e.prev \subseteq DOMAIN deleteFile)

\* A statement is refused only for a commit made since its base: while its base
\* is the head, its commit passes every check (or a truncate finds nothing, or
\* expire_snapshots took a retired file from under a flush).
NoSpuriousConflict ==
    \A w \in Active : stmt[w].base = Head =>
        \/ CanCommit(stmt[w])
        \/ TruncatesNothing(stmt[w])
        \/ \E e \in stmt[w].entries : Expired(e)

\* Every row id in storage was drawn from the table's counter, so the ids an
\* INSERT draws next (allocate_row_id_start) belong to no row, live or ended.
RowIdsDrawn ==
    /\ \A f \in DOMAIN dataFile : \A p \in dataFile[f].rows : p.rid < nextRowId
    /\ \A r \in inlinedRow : r.rid < nextRowId

\* No catalog row is dated after the head: a delete file written again for a
\* later attempt (redate), a merged file and a flushed file carry no snapshot
\* that has not been committed, so the next commit changes no snapshot's past.
NothingFromTheFuture ==
    /\ alteredAt <= Head /\ tableEnd <= Head
    /\ \A f \in DOMAIN dataFile :
           /\ dataFile[f].begin <= Head /\ dataFile[f].end <= Head
           /\ dataFile[f].partialMax <= Head
           /\ \A p \in dataFile[f].rows : p.val <= Head /\ p.origin <= Head
    /\ \A d \in DOMAIN deleteFile :
           /\ deleteFile[d].begin <= Head /\ deleteFile[d].end <= Head
           /\ deleteFile[d].partialMax <= Head
           /\ \A x \in deleteFile[d].dels : x.at <= Head
    /\ \A r \in inlinedRow : r.begin <= Head /\ r.end <= Head
    /\ \A i \in inlinedDelete : i.begin <= Head

\* A file scheduled for deletion is one no catalog row names, so the cleaner
\* never removes an object a scan can reach (commit_compaction,
\* replace_delete_files, expire_snapshots).
ScheduledUnreachable ==
    scheduled \cap (DOMAIN deleteFile \cup (DOMAIN dataFile) \X {0}) = {}

\* A file whose catalog row is removed is scheduled for deletion in the same
\* transaction: nothing is leaked.
RemovedIsScheduled ==
    [][/\ \A f \in DOMAIN dataFile \ DOMAIN dataFile' : <<f, 0>> \in scheduled'
       /\ DOMAIN deleteFile \ DOMAIN deleteFile' \subseteq scheduled']_vars

\* A snapshot is immutable: whatever commits, compacts, flushes or expires, time
\* travel to a snapshot that stays returns what it returned before.
HistoryKept ==
    [][\A s \in snapshots \cap snapshots' : ContentAt(s)' = ContentAt(s)]_vars

\* retire_appends_since(b) returns "the table's live content to exactly what it
\* was at `base_snapshot`" (metadata_writer.rs).
RetireRestores ==
    [][\A b \in snapshots : RetireAppends(b) => ContentAt(Head)' = ContentAt(b)]_vars

\* A flush wrote a deletion made since b beside the file of the rows it moved.
\* That delete file begins at its earliest deletion and has no partial_max, so
\* retire_appends_since does not see the later one.
FlushedDeletionSince(b) ==
    \E d \in DOMAIN deleteFile :
        /\ d[1] \in LiveDataFiles
        /\ deleteFile[d].partialMax = NULL
        /\ \E x \in deleteFile[d].dels : x.at > b

\* What retire_appends_since does restore: with no such deletion, what it leaves
\* is the content at b, whatever was flushed, merged, rewritten, updated or
\* expired before, in files, partial files, inlined rows and their deletions.
RetireRestoresUnlessFlushed ==
    [][\A b \in snapshots : RetireAppends(b) /\ ~FlushedDeletionSince(b) =>
           ContentAt(Head)' = ContentAt(b)]_vars

\* An INSERT OVERWRITE ends only contents it saw when it began: it "aborts ...
\* rather than clobbering" what was committed since (detect_replace_conflict).
ReplaceClobbersNothing ==
    [][\A w \in Writers : CommitReplace(w) => ContentAt(Head) = stmt[w].saw]_vars

\* Every statement a session goes on with is committed or refused: the retries
\* of DuckLakeWriteTransaction::commit end.
EveryStatementSettles ==
    \A w \in Writers : stmt[w].op # "none" ~> stmt[w].op = "none"
=============================================================================
