----------------------------- MODULE TableReads -----------------------------
(***************************************************************************)
(* Queries that scan the table at a snapshot while statements commit.      *)
(*                                                                         *)
(* A scan reads the inlined deletions, the inlined rows and the pages of   *)
(* the file listing, each in a statement of its own, or all of them in one *)
(* consistent read when its provider can begin one.  A query may read      *)
(* through a CatalogReadMemo, which keeps the reads of a table across      *)
(* queries while the head does not move: then the first scan fills it.     *)
(*                                                                         *)
(* The columns of the table at a snapshot do not change, so a fill's       *)
(* columns are always those of the scan.                                   *)
(***************************************************************************)
EXTENDS TableWrites

CONSTANTS
    Queries,        \* the sessions that query the table, one scan at a time
    MaxScans,       \* bound: scans of one session
    PageSize,       \* FILE_METADATA_BATCH_SIZE
    ReadAttempts,   \* SCAN_READ_ATTEMPTS
    MaxBytes        \* the memo's budget: files, rows and deletions it keeps

ASSUME ReadAssumption ==
    /\ PageSize \in Nat \ {0}
    /\ ReadAttempts \in Nat \ {0}
    /\ MaxBytes \in Nat
    /\ MaxScans \in Nat

VARIABLES
    query,      \* each query's progress
    memo,       \* MemoState, for this table
    noted       \* the snapshots whose table object noted that no inlined row
                \* exists (DuckLakeTable::inlined_absent_through)

readVars == <<query, memo, noted>>

\* ScanCatalogReads, and TableReads in the memo: next is the next data file id
\* read with the inlined rows (NULL without rows), absent the snapshot through
\* which the provider reported none (NULL without a report).
NoReads == [deletes |-> {}, rows |-> {}, ids |-> {}, next |-> NULL,
            absent |-> NULL, files |-> {}]

EmptyMemo == [head |-> NULL, tables |-> <<>>, bytes |-> 0, noRoom |-> {},
              tooLarge |-> FALSE, absentThrough |-> 0]

\* rowIds: the scan reads row ids; reading: which of the two reads of the
\* inlined rows is under way; seen: the next file id and head its registry
\* statement saw; split: a merge removed a file of an earlier page.
NoQuery == [phase |-> "closed", at |-> NULL, rowIds |-> FALSE,
            memoized |-> FALSE, consistent |-> FALSE, head |-> NULL,
            fill |-> FALSE, reads |-> NoReads, reading |-> "rows", seen |-> NULL,
            after |-> 0, attempt |-> 1, unmoved |-> FALSE, split |-> FALSE,
            answer |-> {}, scans |-> 0]

ReadInit ==
    /\ query = [q \in Queries |-> NoQuery]
    /\ memo = EmptyMemo
    /\ noted = {}

Goes(q, c) == query' = [query EXCEPT ![q] = c]

-----------------------------------------------------------------------------
\* What each statement of a scan at snapshot s returns.

\* get_inlined_deletes.
DeletesRead(s) ==
    {[in |-> i.file, row |-> i.pos] : i \in {j \in inlinedDelete : j.begin <= s}}

\* The next data file id.  A data file is named by the snapshot that registers
\* it, so the next one is above the head.
NextFileId == Head + 1

\* first_inlined_snapshot_on: no inlined row of any version begins by `through`.
NoRowThrough(through) == \A r \in inlinedRow : r.begin > through

\* A listed file, with the rows its delete file and origins leave.
Listed(f, s) ==
    [id |-> f,
     rows |-> StoredIn(f, {p \in dataFile[f].rows : OriginVisible(f, p, s)}
                              \ DeletedByFilesAt(f, s))]

\* get_table_file_metadata_page: the first PageSize files after `after`.
Page(after, s) ==
    LET F == {f \in DataFilesAt(s) : f > after}
    IN  {f \in F : Cardinality({g \in F : g < f}) < PageSize}

\* Mutant: the file a flush wrote under the last id seen passes.
WrittenSince_Above(P, next) == next # NULL /\ \E f \in P : f > next

\* written_since.
WrittenSince(P, next) == next # NULL /\ \E f \in P : f >= next

Size(reads) ==
    Cardinality(reads.deletes) + Cardinality(reads.rows)
        + Cardinality(reads.ids) + Cardinality(reads.files)

\* The end of a scan: the rows its reads hold, without the deleted ones.
Done(c, reads) ==
    [NoQuery EXCEPT !.phase = "done", !.at = c.at, !.split = c.split,
        !.scans = c.scans,
        !.answer = (IF c.rowIds THEN reads.ids ELSE reads.rows)
                       \cup (UNION {f.rows : f \in reads.files} \ reads.deletes)]

\* The table object notes an absence a plain scan was told of.
NotedAfter(c, reads) ==
    IF ~c.rowIds /\ reads.absent # NULL /\ c.at <= reads.absent
    THEN noted \cup {c.at} ELSE noted

-----------------------------------------------------------------------------
\* A query opens the table at snapshot s, through the memo or not.  A bind
\* reads the head (CatalogReadMemo::bind).
Open(q, s, rowIds, memoized, consistent) ==
    /\ query[q].phase \in {"closed", "done", "failed"}
    /\ query[q].scans < MaxScans
    /\ TableExistsAt(s)
    /\ Goes(q, [NoQuery EXCEPT !.phase = IF memoized THEN "bind" ELSE "deletes",
                   !.at = s, !.rowIds = rowIds, !.memoized = memoized,
                   !.consistent = consistent, !.scans = query[q].scans + 1,
                   !.head = IF memoized THEN Head ELSE NULL])
    /\ UNCHANGED <<memo, noted>>

\* Mutant: the entries stay when the head moves.
Bind_KeepsEntries(q) ==
    /\ query[q].phase = "bind"
    /\ memo' = [memo EXCEPT !.head = Greatest({@, query[q].head})]
    /\ Goes(q, [query[q] EXCEPT !.phase = "pick"])
    /\ UNCHANGED noted

\* A head newer than the memo's drops every entry.
Bind(q) ==
    /\ query[q].phase = "bind"
    /\ memo' = IF memo.head < query[q].head
               THEN [memo EXCEPT !.head = query[q].head, !.tables = <<>>,
                                 !.noRoom = {}, !.bytes = 0]
               ELSE memo
    /\ Goes(q, [query[q] EXCEPT !.phase = "pick"])
    /\ UNCHANGED noted

\* pick: a fill kept at this query's head, else a new fill, else the catalog.
Pick(q) ==
    LET c    == query[q]
        same == memo.head = c.head
    IN  /\ c.phase = "pick"
        /\ IF ~memo.tooLarge /\ same /\ c.at \in DOMAIN memo.tables
           THEN Goes(q, [c EXCEPT !.phase = "serve", !.reads = memo.tables[c.at]])
           ELSE Goes(q, [c EXCEPT !.phase = "deletes",
                            !.fill = ~memo.tooLarge
                                         /\ ~(same /\ c.at \in memo.noRoom)])
        /\ UNCHANGED <<memo, noted>>

\* The scan's reads, all from the reads it picked.  A plain scan asks for the
\* inlined rows only while its table has not noted that there are none.
Serve(q) ==
    LET c == query[q]
    IN  /\ c.phase = "serve"
        /\ Goes(q, Done(c, IF c.at \in noted THEN [c.reads EXCEPT !.rows = {}]
                           ELSE c.reads))
        /\ noted' = NotedAfter(c, c.reads)
        /\ UNCHANGED memo

\* A read of a fill that exceeds the whole budget ends the fill: the table is
\* not memoized again, and the query reads the catalog.
Kept(m, c) ==
    IF c.fill /\ Size(c.reads) > MaxBytes THEN [m EXCEPT !.tooLarge = TRUE] ELSE m
Continued(c) ==
    IF c.fill /\ Size(c.reads) > MaxBytes
    THEN [c EXCEPT !.phase = "deletes", !.fill = FALSE, !.reads = NoReads,
                   !.reading = "rows", !.after = 0, !.attempt = 1]
    ELSE c

\* The first of its reads (fill_from, scan_catalog_reads).
ReadDeletes(q) ==
    LET c    == query[q]
        next == [c EXCEPT !.phase = "registry", !.reads.deletes = DeletesRead(c.at),
                    !.reading = IF c.rowIds /\ ~c.fill THEN "ids" ELSE "rows"]
    IN  /\ c.phase = "deletes" /\ ~c.consistent
        /\ Goes(q, Continued(next))
        /\ memo' = Kept(memo, next)
        /\ UNCHANGED noted

\* What an earlier read showed: no inlined row exists at this snapshot
\* (fill_inlined, scan_inlined_rows).
KnownAbsent(c) ==
    IF c.fill THEN c.at <= memo.absentThrough
    ELSE ~c.rowIds /\ c.at \in noted

\* The registry of inlined tables, with the next data file id and the head.
ReadRegistry(q) ==
    LET c == query[q]
    IN  /\ c.phase = "registry"
        /\ IF c.reading = "rows" /\ KnownAbsent(c)
           THEN Goes(q, [c EXCEPT !.phase = "page",
                            !.reads.absent = IF c.fill THEN memo.absentThrough
                                             ELSE NULL])
           ELSE Goes(q, [c EXCEPT !.phase = "rows", !.seen = NextFileId])
        /\ UNCHANGED <<memo, noted>>

Lower(a, b) == IF a <= b THEN a ELSE b
Higher(a, b) == IF a >= b THEN a ELSE b

\* scan_inlined_data_on: the snapshot through which no inlined row exists.
AbsentThrough(c) ==
    LET through == Lower(c.at, c.seen - 1)
    IN  IF /\ c.reading = "rows"
           /\ StoredInlinedAt(c.at) = {}
           /\ NoRowThrough(through)
        THEN through ELSE NULL

\* The rows of the inlined tables.  A fill reads them without and with row ids.
ReadRows(q) ==
    LET c      == query[q]
        R      == StoredInlinedAt(c.at)
        absent == AbsentThrough(c)
        reads  == [c.reads EXCEPT ![c.reading] = R,
                      !.next = IF R = {} \/ @ # NULL THEN @ ELSE c.seen,
                      !.absent = IF absent = NULL THEN @ ELSE absent]
        again  == c.fill /\ c.reading = "rows" /\ (absent = NULL \/ c.at > absent)
        next   == [c EXCEPT !.reads = reads,
                      !.phase = IF again THEN "registry" ELSE "page",
                      !.reading = IF again THEN "ids" ELSE @]
        m      == IF c.fill /\ absent # NULL
                  THEN [memo EXCEPT !.absentThrough = Higher(@, absent)] ELSE memo
    IN  /\ c.phase = "rows"
        /\ Goes(q, Continued(next))
        /\ memo' = Kept(m, next)
        /\ noted' = IF c.fill THEN noted ELSE NotedAfter(c, reads)

\* A listed file was written since the inlined rows: both are read again.
Again(c) ==
    IF c.attempt < ReadAttempts
    THEN [c EXCEPT !.phase = "registry", !.attempt = @ + 1, !.after = 0,
             !.reads = [NoReads EXCEPT !.deletes = c.reads.deletes],
             !.reading = IF c.rowIds /\ ~c.fill THEN "ids" ELSE "rows"]
    ELSE [NoQuery EXCEPT !.phase = "failed", !.scans = c.scans]

\* One page of the listing, keyset by data file id, until a short one
\* (FileMetadataPages::next, fill_listing).
ReadPage(q) ==
    LET c     == query[q]
        P     == Page(c.after, c.at)
        reads == [c.reads EXCEPT !.files = @ \cup {Listed(f, c.at) : f \in P}]
        short == Cardinality(P) < PageSize
        next  == [c EXCEPT !.reads = reads,
                     !.after = IF P = {} THEN @ ELSE Greatest(P),
                     !.split = short /\ \E f \in reads.files : f.id \notin DOMAIN dataFile]
    IN  /\ c.phase = "page"
        /\ CASE WrittenSince(P, c.reads.next) ->
                    Goes(q, Again(c)) /\ UNCHANGED <<memo, noted>>
             [] ~WrittenSince(P, c.reads.next) /\ short /\ ~c.fill ->
                    Goes(q, Done(next, reads)) /\ UNCHANGED <<memo, noted>>
             [] OTHER ->
                    /\ Goes(q, Continued(IF short THEN [next EXCEPT !.phase = "head"]
                                         ELSE next))
                    /\ memo' = Kept(memo, next)
                    /\ UNCHANGED noted

\* fill: the head after the reads is the one the bind read.
Unmoved(c) == Head = c.head

ReadHead(q) ==
    /\ query[q].phase = "head"
    /\ Goes(q, [query[q] EXCEPT !.phase = "keep", !.unmoved = Unmoved(query[q])])
    /\ UNCHANGED <<memo, noted>>

\* The end of pick: another query's fill at this head, else this one, kept when
\* the catalog did not move and there is room.
Keep(q) ==
    LET c     == query[q]
        same  == memo.head = c.head
        other == same /\ c.at \in DOMAIN memo.tables
        reads == IF other THEN memo.tables[c.at] ELSE c.reads
        room  == memo.bytes + Size(reads) <= MaxBytes
    IN  /\ c.phase = "keep"
        /\ Goes(q, [c EXCEPT !.phase = "serve", !.reads = reads,
                             !.split = @ /\ ~other])
        /\ UNCHANGED noted
        /\ memo' = IF other \/ ~same \/ ~c.unmoved THEN memo
                   ELSE IF room
                   THEN [memo EXCEPT !.bytes = @ + Size(reads),
                            !.tables = [s \in DOMAIN @ \cup {c.at} |->
                                           IF s = c.at THEN reads ELSE @[s]]]
                   ELSE [memo EXCEPT !.noRoom = @ \cup {c.at}]

-----------------------------------------------------------------------------
\* read_consistently: the first statement of a consistent read fixes the state
\* of the catalog that all of them see.
BeginConsistentRead(q) ==
    LET c == query[q]
        R == StoredInlinedAt(c.at)
    IN  /\ c.phase = "deletes" /\ c.consistent
        /\ Goes(q, [c EXCEPT !.phase = "view", !.unmoved = Unmoved(c),
               !.reads = [deletes |-> DeletesRead(c.at),
                          rows |-> R, ids |-> R,
                          next |-> IF R = {} THEN NULL ELSE NextFileId,
                          absent |-> AbsentThrough([c EXCEPT !.seen = NextFileId]),
                          files |-> {Listed(f, c.at) : f \in DataFilesAt(c.at)}]])
        /\ UNCHANGED <<memo, noted>>

\* Its later statements.  No listed file is newer than the rows, so they are
\* read once; a fill that exceeds the budget leaves its scan to read in the
\* same consistent read.
ReadConsistently(q) ==
    LET c     == query[q]
        known == KnownAbsent(c)
        reads == [c.reads EXCEPT
                     !.rows = IF known THEN {} ELSE @,
                     !.ids = IF known /\ c.fill THEN {} ELSE @,
                     !.next = IF known THEN NULL ELSE @,
                     !.absent = IF ~known THEN @
                                ELSE IF c.fill THEN memo.absentThrough ELSE NULL]
        large == c.fill /\ Size(reads) > MaxBytes
        m     == IF c.fill /\ reads.absent # NULL
                 THEN [memo EXCEPT !.absentThrough = Higher(@, reads.absent)] ELSE memo
    IN  /\ c.phase = "view"
        /\ IF c.fill
           THEN /\ Goes(q, IF large THEN [c EXCEPT !.fill = FALSE]
                           ELSE [c EXCEPT !.phase = "keep", !.reads = reads])
                /\ memo' = [m EXCEPT !.tooLarge = @ \/ large]
                /\ UNCHANGED noted
           ELSE /\ Goes(q, Done(c, reads))
                /\ noted' = NotedAfter(c, reads)
                /\ UNCHANGED memo

Reads(q) ==
    \/ Bind(q) \/ Pick(q) \/ Serve(q) \/ Keep(q)
    \/ BeginConsistentRead(q) \/ ReadConsistently(q)
    \/ ReadDeletes(q) \/ ReadRegistry(q) \/ ReadRows(q) \/ ReadPage(q) \/ ReadHead(q)

ReadStep(q) ==
    \/ \E s \in snapshots, rowIds, memoized, consistent \in BOOLEAN :
           Open(q, s, rowIds, memoized, consistent)
    \/ Reads(q)

ReadersInit == Init /\ ReadInit

ReadersNext ==
    \/ Next /\ UNCHANGED readVars
    \/ (\E q \in Queries : ReadStep(q)) /\ UNCHANGED vars

ReadersSpec == ReadersInit /\ [][ReadersNext]_<<vars, readVars>>

-----------------------------------------------------------------------------
\* A finished scan returned the contents of its snapshot, whatever was
\* committed while it read, and each row once.  A scan that reads statement by
\* statement returns a row twice only when a merge took a file between two of
\* its pages (begin_consistent_read's documented limit).
ScanExact ==
    \A q \in Queries : query[q].phase = "done" /\ query[q].at \in snapshots =>
        LET rows == query[q].answer
        IN  /\ {VersionOf(t.row) : t \in rows} = ContentAt(query[q].at)
            /\ ~query[q].split =>
                   \A t, u \in rows : VersionOf(t.row) = VersionOf(u.row) => t = u

\* What the memo keeps is what a query bound at the head would read itself, and
\* the absence it and the tables keep across heads holds for every later read
\* (CatalogReadMemo: every kept fill shows the catalog at its head).
MemoCurrent ==
    /\ memo.head = Head => \A s \in DOMAIN memo.tables \cap snapshots :
           LET kept == memo.tables[s]
           IN  /\ kept.deletes = DeletesRead(s)
               /\ kept.rows = StoredInlinedAt(s)
               /\ kept.files = {Listed(f, s) : f \in DataFilesAt(s)}
    /\ NoRowThrough(memo.absentThrough)
    /\ \A s \in noted : NoRowThrough(s)
=============================================================================
