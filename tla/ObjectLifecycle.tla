--------------------------- MODULE ObjectLifecycle ---------------------------
(***************************************************************************)
(* The Parquet objects of a store of DuckLake catalogs, from upload to      *)
(* physical deletion: writes, forks that reference another catalog's files, *)
(* expiry, the cleanup of scheduled files, the orphan sweep and the drop of *)
(* a catalog, each as the steps between which others run.                   *)
(*                                                                         *)
(* An object is the directory it lies in and its modification time.  A file *)
(* row whose owner is another catalog is a reference (it has a row in       *)
(* ducklake_catalog_{data,delete}_file_reference).  Data and delete files   *)
(* draw their ids from two sequences.  In a store of one catalog (SQLite,   *)
(* MySQL, DuckDB) there are no references, layouts or tombstones.           *)
(***************************************************************************)
EXTENDS Integers, FiniteSets, Sequences, Functions

CONSTANTS Root,     \* [catalog -> the path of its data_path]
          Elsewhere,\* a path below no root, for begin_write_to_path
          Scopes    \* the stores explored: their catalogs, calls and bounds

VARIABLES
    scope,      \* the store
    catalogs,   \* ducklake_catalog
    dropping,   \* the catalogs whose drop transaction has begun
    dropped,    \* the catalogs dropped
    tombstones, \* ducklake_dropped_data_path: the root, and the drop that dated it
    snapshots,  \* ducklake_catalog_snapshot_map
    files,      \* ducklake_data_file and ducklake_delete_file
    scheduled,  \* ducklake_files_scheduled_for_deletion
    store,      \* the objects
    now,        \* the modification time of the next object
    nextId,     \* the sequences of snapshots, data files and delete files
    write,      \* the streaming write in flight
    fork,       \* the fork in flight
    cleaner,    \* the cleanup of scheduled files in progress
    sweeper     \* the orphan sweep in progress

catalogVars == <<catalogs, dropping, dropped, tombstones>>
rowVars == <<snapshots, files, scheduled, nextId>>
vars == <<scope, catalogVars, rowVars, store, now, write, fork, cleaner, sweeper>>

LIVE == 0
None == <<>>

Catalogs == DOMAIN Root

\* A path is a sequence of segments, and a prefix of what lies below it.
IsPrefix(s, t) == Len(s) <= Len(t) /\ SubSeq(s, 1, Len(s)) = SubSeq(t, 1, Len(s))

\* A finite set in the order some loop visits it.
InOrder(S) == CHOOSE f \in [1 .. Cardinality(S) -> S] : IsInjective(f)

\* The names a path is made of; a catalog is the cat_{id} of its layout.
Segments == Catalogs \cup UNION {Range(Root[c]) : c \in Catalogs} \cup Range(Elsewhere)

\* begin_write_to_path stays out of the data paths, and no catalog is given a
\* data_path inside the layout of another (set_data_path accepts one).
ASSUME PathAssumption ==
    /\ Elsewhere \in Seq(Segments)
    /\ \A c \in Catalogs :
           /\ Root[c] \in Seq(Segments)
           /\ ~IsPrefix(Root[c], Elsewhere)
           /\ \A d \in Catalogs : ~IsPrefix(Append(Root[c], c), Root[d])

\* Only a multicatalog store has forks and rows scheduled before owners were
\* stamped.  A row of that age for an object outside every layout is kept from
\* the cleanup of its catalog as long as that catalog is not dropped.
ASSUME ScopeAssumption ==
    \A s \in Scopes :
        /\ s.multi \in BOOLEAN /\ s.lastObject \in Nat \ {0} /\ s.lastSnapshot \in Nat
        /\ s.first \in s.created /\ s.created \subseteq Catalogs
        /\ s.legacy \subseteq s.created \ {s.first}
        /\ s.places \subseteq {Elsewhere, IF s.multi THEN Append(Root[s.first], s.first)
                                          ELSE Root[s.first]}
        /\ ~s.multi => s.legacy = {} /\ "fork" \notin s.calls
        /\ Elsewhere \in s.places /\ s.legacy # {} => "drop" \notin s.calls

Multi == scope.multi
May(call) == call \in scope.calls

\* own_layout: cat_{id} below the catalog's data_path.
Layout(c) == IF Multi THEN Append(Root[c], c) ELSE Root[c]
Under(o, path) == IsPrefix(path, o.at)

RowsOf(c) == {r \in files : r.cat = c}
LiveRows(c) == {r \in RowsOf(c) : r.end = LIVE}
LiveData(c) == {r \in LiveRows(c) : r.kind = "data"}
VisibleAt(r, s) == r.begin <= s /\ (r.end = LIVE \/ s < r.end)
DeletesOf(R) == {e \in files : e.kind = "delete" /\ \E d \in R : d.kind = "data" /\ e.of = d.id}

IsReference(r) == r.owner # r.cat

\* reference_paths_sql: what the reference rows of every catalog name.
AllReferencePaths == {r.obj : r \in {q \in files : IsReference(q)}}

\* schedule_pg_files, schedule_compaction_files: of the rows removed, those the
\* catalog owns.
Scheduled(R) ==
    {[cat |-> r.cat, id |-> r.id, obj |-> r.obj, relative |-> Under(r.obj, Root[r.cat]),
      byOwner |-> TRUE] : r \in {q \in R : ~IsReference(q)}}

\* Removing file rows, with their reference rows.
RemoveRows(R, added) ==
    /\ files' = (files \ R) \cup added
    /\ scheduled' = scheduled \cup Scheduled(R)

EndAt(R, s) == {[r EXCEPT !.end = s] : r \in R}

\* A snapshot of catalog c, mapped to it by its commit.
Snapshot == nextId.snapshot
Commits(c, data, delete) ==
    /\ c \in catalogs
    /\ Snapshot <= scope.lastSnapshot
    /\ snapshots' = [snapshots EXCEPT ![c] = @ \cup {Snapshot}]
    /\ nextId' = [snapshot |-> Snapshot + 1, data |-> nextId.data + data,
                  delete |-> nextId.delete + delete]

DataRow(c, obj, owner, begin, n) ==
    [cat |-> c, kind |-> "data", id |-> nextId.data + n, of |-> 0, obj |-> obj,
     owner |-> owner, begin |-> begin, end |-> LIVE]

DeleteRow(c, obj, owner, begin, of, n) ==
    [cat |-> c, kind |-> "delete", id |-> nextId.delete + n, of |-> of, obj |-> obj,
     owner |-> owner, begin |-> begin, end |-> LIVE]

InFlight == {p \in {write, fork} : p # None}
Uploaded == UNION {p.objs : p \in InFlight}

\* No write begins while a sweep takes objects of any age: CleanupCriteria::All is
\* for an idle catalog.
SweepsAll == sweeper # None /\ sweeper.all

Put(path) ==
    /\ now <= scope.lastObject
    /\ store' = store \cup {[at |-> path, n |-> now]}
    /\ now' = now + 1

-----------------------------------------------------------------------------
\* A streaming write: it uploads its objects as they are finished and registers
\* them in one commit.

BeginWrite(c) ==
    /\ May("write") /\ write = None /\ ~SweepsAll
    /\ c \in catalogs
    /\ write' = [cat |-> c, start |-> now, objs |-> {}]
    /\ UNCHANGED <<scope, catalogVars, rowVars, store, now, fork, cleaner, sweeper>>

Upload(path) ==
    /\ write # None /\ write.objs = {}
    /\ path \in {Layout(write.cat)} \cup (IF May("elsewhere") THEN {Elsewhere} ELSE {})
    /\ Put(path)
    /\ write' = [write EXCEPT !.objs = {[at |-> path, n |-> now]}]
    /\ UNCHANGED <<scope, catalogVars, rowVars, fork, cleaner, sweeper>>

\* retire_prior_generation: the live data files end.
Retired(c) == (files \ LiveData(c)) \cup EndAt(LiveData(c), Snapshot)

\* register_data_files, Append and Replace.
CommitInsert(c, o) ==
    /\ Commits(c, 1, 0)
    /\ \/ RemoveRows({}, {DataRow(c, o, c, Snapshot, 0)})
       \/ /\ May("replace")
          /\ files' = Retired(c) \cup {DataRow(c, o, c, Snapshot, 0)}
          /\ UNCHANGED scheduled

\* commit_positional_deletes: a delete file supersedes the live one.
CommitDelete(c, o) ==
    /\ May("delete")
    /\ Commits(c, 0, 1)
    /\ \E d \in LiveData(c) :
           LET live == DeletesOf({d}) \cap LiveRows(c)
           IN  files' = (files \ live) \cup EndAt(live, Snapshot)
                            \cup {DeleteRow(c, o, c, Snapshot, d.id, 0)}
    /\ UNCHANGED scheduled

\* replace_delete_files_at_snapshot: a flush replaces the delete file it merges
\* with from its begin_snapshot on.
CommitFlushedDelete(c, o) ==
    /\ May("delete")
    /\ Commits(c, 0, 1)
    /\ \E e \in {r \in LiveRows(c) : r.kind = "delete"} :
           RemoveRows({e}, {DeleteRow(c, o, c, e.begin, e.of, 0)})

\* commit_compaction with SourceRetirement::Remove.
CommitMerge(c, o) ==
    /\ May("merge")
    /\ Commits(c, 1, 0)
    /\ \E d \in LiveData(c) :
           RemoveRows({d} \cup DeletesOf({d}), {DataRow(c, o, c, d.begin, 0)})

EndWrite == write' = None
            /\ UNCHANGED <<scope, catalogVars, now, fork, cleaner, sweeper>>

CommitWrite ==
    /\ write # None
    /\ \E o \in write.objs :
           \/ CommitInsert(write.cat, o)
           \/ CommitDelete(write.cat, o)
           \/ CommitFlushedDelete(write.cat, o)
           \/ CommitMerge(write.cat, o)
    /\ UNCHANGED store
    /\ EndWrite

\* A write that is refused or given up removes its objects if it can.
WriteFails ==
    /\ write # None
    /\ store' \in {store, store \ write.objs}
    /\ UNCHANGED rowVars
    /\ EndWrite

\* drop_live_table: every live row ends at the drop snapshot.
DropTable(c) ==
    /\ May("drop_table") /\ LiveRows(c) # {}
    /\ Commits(c, 0, 0)
    /\ files' = (files \ LiveRows(c)) \cup EndAt(LiveRows(c), Snapshot)
    /\ UNCHANGED <<scope, catalogVars, scheduled, store, now, write, fork, cleaner, sweeper>>

-----------------------------------------------------------------------------
\* fork_table: the rows of a snapshot of the source, referenced from another
\* catalog.

ForkRead(src, dst, s) ==
    /\ May("fork") /\ fork = None /\ ~SweepsAll
    /\ {src, dst} \subseteq catalogs /\ src # dst
    /\ s \in snapshots[src]
    /\ LET data == {r \in RowsOf(src) : r.kind = "data" /\ VisibleAt(r, s)}
           deletes == {e \in DeletesOf(data) : VisibleAt(e, s)}
       IN  /\ data # {}
           /\ fork' = [src |-> src, dst |-> dst, rows |-> data \cup deletes,
                       start |-> now, objs |-> {}, masked |-> 0]
    /\ UNCHANGED <<scope, catalogVars, rowVars, store, now, write, cleaner, sweeper>>

\* The source's inlined rows go to a data file of the fork's own, the inlined
\* deletions of a data file (masked) to a delete file of its own, which takes the
\* place of the source's.
ForkUpload ==
    /\ fork # None /\ fork.objs = {}
    /\ Put(Layout(fork.dst))
    /\ \E m \in {0} \cup {r.id : r \in {q \in fork.rows : q.kind = "data"}} :
           fork' = [fork EXCEPT !.objs = {[at |-> Layout(fork.dst), n |-> now]},
                                !.masked = m]
    /\ UNCHANGED <<scope, catalogVars, rowVars, write, cleaner, sweeper>>

\* Mutant: a batch is registered whatever became of the rows it copies.
SourceRowsStand_Unchecked(rows) == TRUE

\* refuse_removed_source_rows, under the locks of both catalogs.
SourceRowsStand(rows) ==
    \A r \in rows : \E q \in files : q.kind = r.kind /\ q.id = r.id

\* register_existing_data_files_tagged: a reference names the owner of the object,
\* and no catalog references a file of its own.
ForkCommit ==
    LET copied == {r \in fork.rows : r.kind = "data" \/ r.of # fork.masked}
        data == InOrder({r \in copied : r.kind = "data"})
        deletes == InOrder(copied \ Range(data))
        ownData == IF fork.masked = 0 THEN fork.objs ELSE {}
        IdOf(id) == nextId.data - 1 + CHOOSE n \in DOMAIN data : data[n].id = id
    IN  /\ fork # None
        /\ fork.src \in catalogs
        /\ Commits(fork.dst, Len(data) + Cardinality(ownData), Len(deletes) + 1)
        /\ SourceRowsStand(copied)
        /\ \A r \in copied : r.owner # fork.dst
        /\ files' = Retired(fork.dst)
               \cup {DataRow(fork.dst, data[n].obj, data[n].owner, Snapshot, n - 1) :
                         n \in DOMAIN data}
               \cup {DeleteRow(fork.dst, deletes[n].obj, deletes[n].owner, Snapshot,
                               IdOf(deletes[n].of), n) : n \in DOMAIN deletes}
               \cup {DataRow(fork.dst, o, fork.dst, Snapshot, Len(data)) : o \in ownData}
               \cup {DeleteRow(fork.dst, o, fork.dst, Snapshot, IdOf(fork.masked), 0) :
                         o \in fork.objs \ ownData}
        /\ fork' = None
        /\ UNCHANGED <<scope, catalogVars, scheduled, store, now, write, cleaner, sweeper>>

ForkFails ==
    /\ fork # None
    /\ store' \in {store, store \ fork.objs}
    /\ fork' = None
    /\ UNCHANGED <<scope, catalogVars, rowVars, now, write, cleaner, sweeper>>

-----------------------------------------------------------------------------
\* expire_snapshots: never the catalog's most recent one.

Latest(c) == CHOOSE s \in snapshots[c] : \A t \in snapshots[c] : t <= s

\* The rows no snapshot of S reads, and the delete files of such data files.
DeadRows(c, S) ==
    LET unread == {r \in RowsOf(c) : r.end # LIVE /\ \A s \in S : ~VisibleAt(r, s)}
    IN  unread \cup DeletesOf(unread)

Expire(c, S) ==
    /\ May("expire")
    /\ c \in catalogs /\ S # {} /\ S \subseteq snapshots[c] \ {Latest(c)}
    /\ snapshots' = [snapshots EXCEPT ![c] = @ \ S]
    /\ RemoveRows(DeadRows(c, snapshots[c] \ S), {})
    /\ UNCHANGED <<scope, catalogVars, nextId, store, now, write, fork, cleaner, sweeper>>

-----------------------------------------------------------------------------
\* cleanup_old_files: delete the objects of scheduled rows, then remove the rows.
\* CleanupCriteria::OlderThan lists any of them: a deferred row is one that a later
\* listing leaves out.

EndCleanup == cleaner' = None
CleanerOnly == UNCHANGED <<scope, catalogVars, snapshots, files, nextId, now, write, fork,
                           sweeper>>

\* list_scheduled_for_deletion.
CleanupList(c, rows) ==
    /\ May("cleanup") /\ cleaner = None
    /\ c \in catalogs /\ rows # {} /\ rows \subseteq {r \in scheduled : r.cat = c}
    /\ cleaner' = [cat |-> c, rows |-> rows, foreign |-> {}, own |-> TRUE,
                   deleted |-> {}, step |-> IF Multi THEN "layouts" ELSE "delete"]
    /\ UNCHANGED <<scheduled, store>> /\ CleanerOnly

\* retain_unreferenced: the catalog's id, then list_catalog_data_paths.
CleanupLayouts ==
    /\ cleaner # None /\ cleaner.step = "layouts"
    /\ cleaner' = [cleaner EXCEPT !.own = cleaner.cat \in catalogs,
                                  !.foreign = {Layout(c) : c \in catalogs \ {cleaner.cat}},
                                  !.step = "references"]
    /\ UNCHANGED <<scheduled, store>> /\ CleanerOnly

\* Its two guards.
InForeignLayout(r) == \E l \in cleaner.foreign : Under(r.obj, l)
Unverified(r) == /\ ~r.byOwner /\ ~r.relative
                 /\ cleaner.own /\ ~Under(r.obj, Layout(cleaner.cat))

\* Its read of all_reference_paths, and defer_scheduled.
CleanupReferences ==
    /\ cleaner # None /\ cleaner.step = "references"
    /\ cleaner' = [cleaner EXCEPT
           !.rows = {r \in @ : /\ ~InForeignLayout(r) /\ ~Unverified(r)
                               /\ r.obj \notin AllReferencePaths},
           !.step = "delete"]
    /\ UNCHANGED <<scheduled, store>> /\ CleanerOnly

\* run_cleanup: one object after the other; a missing one counts as deleted.
CleanupDelete ==
    /\ cleaner # None /\ cleaner.step = "delete"
    /\ \E r \in cleaner.rows \ cleaner.deleted :
           /\ store' = store \ {r.obj}
           /\ cleaner' = [cleaner EXCEPT !.deleted = @ \cup {r}]
    /\ UNCHANGED scheduled /\ CleanerOnly

\* Mutant: the multicatalog store removes by id as well.
RemovedWith_ById(rows) == {r \in scheduled : \E q \in rows : q.cat = r.cat /\ q.id = r.id}

\* remove_scheduled_paths_in_catalog goes by path, remove_scheduled by data_file_id.
RemovedWith(rows) ==
    {r \in scheduled : \E q \in rows : /\ q.cat = r.cat
                                       /\ IF Multi THEN q.obj = r.obj ELSE q.id = r.id}

CleanupRemove ==
    /\ cleaner # None /\ cleaner.step = "delete" /\ cleaner.deleted = cleaner.rows
    /\ scheduled' = scheduled \ RemovedWith(cleaner.rows)
    /\ EndCleanup
    /\ UNCHANGED store /\ CleanerOnly

\* A store or catalog error, or a crash, ends a cleanup anywhere.
CleanupFails ==
    /\ cleaner # None
    /\ EndCleanup
    /\ UNCHANGED <<scheduled, store>> /\ CleanerOnly

-----------------------------------------------------------------------------
\* delete_orphaned_files: the objects below a root that nothing names.

SweeperOnly == UNCHANGED <<scope, catalogs, dropping, dropped, rowVars, now, write, fork,
                           cleaner>>

\* list_data_paths.
ListedRoots == {Root[c] : c \in catalogs} \cup {t.root : t \in tombstones}

\* registered_data_path_group, merge_data_path_groups: a root and those below it.
Group(root) == {r \in ListedRoots : IsPrefix(root, r)}

\* An OlderThan cutoff is earlier than the start of every write still running.
LatestCutoff ==
    LET starts == {now} \cup {p.start : p \in InFlight}
    IN  CHOOSE t \in starts : \A u \in starts : t <= u

SweepBegin(root, all) ==
    /\ May("sweep") /\ sweeper = None
    /\ root \in ListedRoots
    /\ all => InFlight = {}
    /\ sweeper' = [root |-> root, all |-> all, paths |-> Group(root), unread |-> Group(root),
                   cutoff |-> IF all THEN scope.lastObject + 1 ELSE LatestCutoff,
                   begun |-> {}, referenced |-> {}, orphans |-> {},
                   step |-> IF Multi THEN "now" ELSE "references"]
    /\ UNCHANGED <<tombstones, store>> /\ SweeperOnly

\* current_timestamp; NOW() is the start of a drop's transaction.  No drop that has
\* begun is still open: one that commits after the sweep has read the references
\* would lose its tombstone.
SweepNow ==
    /\ sweeper # None /\ sweeper.step = "now"
    /\ sweeper.all => dropping = {}
    /\ sweeper' = [sweeper EXCEPT !.begun = dropping \cup dropped, !.step = "references"]
    /\ UNCHANGED <<tombstones, store>> /\ SweeperOnly

\* list_referenced_paths, and list_referenced_paths_in_data_paths for one root:
\* what the catalogs there name or have scheduled, and every reference.
ReferencedPaths(root) ==
    LET here == {c \in catalogs : Root[c] = root}
    IN  {r.obj : r \in {q \in files \cup scheduled : q.cat \in here}}
            \cup AllReferencePaths

SweepReferences ==
    /\ sweeper # None /\ sweeper.step = "references"
    /\ \E root \in sweeper.unread :
           sweeper' = [sweeper EXCEPT !.referenced = @ \cup ReferencedPaths(root),
                                      !.unread = @ \ {root},
                                      !.step = IF sweeper.unread = {root} THEN "list" ELSE @]
    /\ UNCHANGED <<tombstones, store>> /\ SweeperOnly

\* run_orphan_cleanup: the listing, then one object after the other.
SweepList ==
    /\ sweeper # None /\ sweeper.step = "list"
    /\ sweeper' = [sweeper EXCEPT
           !.orphans = {o \in store : /\ Under(o, sweeper.root) /\ o.n < sweeper.cutoff
                                      /\ o \notin sweeper.referenced},
           !.step = "delete"]
    /\ UNCHANGED <<tombstones, store>> /\ SweeperOnly

SweepDelete ==
    /\ sweeper # None /\ sweeper.step = "delete"
    /\ \E o \in sweeper.orphans :
           /\ store' = store \ {o}
           /\ sweeper' = [sweeper EXCEPT !.orphans = @ \ {o}]
    /\ UNCHANGED tombstones /\ SweeperOnly

\* Mutant: every tombstone of the group goes, whenever its catalog was dropped.
Clearable_Any(t) == t.root \in sweeper.paths

\* clear_dropped_data_paths.
Clearable(t) == t.root \in sweeper.paths /\ t.by \in sweeper.begun

SweepEnd ==
    /\ sweeper # None /\ sweeper.step = "delete" /\ sweeper.orphans = {}
    /\ tombstones' = IF Multi /\ sweeper.all THEN {t \in tombstones : ~Clearable(t)}
                     ELSE tombstones
    /\ sweeper' = None
    /\ UNCHANGED store /\ SweeperOnly

SweepFails ==
    /\ sweeper # None
    /\ sweeper' = None
    /\ UNCHANGED <<tombstones, store>> /\ SweeperOnly

-----------------------------------------------------------------------------
\* create_catalog; ids are not used again.
CreateCatalog(c) ==
    /\ May("create") /\ c \in scope.catalogs \ (catalogs \cup dropped)
    /\ catalogs' = catalogs \cup {c}
    /\ UNCHANGED <<scope, dropping, dropped, tombstones, rowVars, store, now, write, fork,
                   cleaner, sweeper>>

\* drop_catalog: its transaction begins, and commits or does not.
DropBegin(c) ==
    /\ May("drop") /\ c \in catalogs \ dropping
    /\ dropping' = dropping \cup {c}
    /\ UNCHANGED <<scope, catalogs, dropped, tombstones, rowVars, store, now, write, fork,
                   cleaner, sweeper>>

DropCommit(c) ==
    /\ c \in dropping
    /\ dropping' = dropping \ {c} /\ dropped' = dropped \cup {c}
    /\ catalogs' = catalogs \ {c}
    /\ tombstones' = {t \in tombstones : t.root # Root[c]} \cup {[root |-> Root[c], by |-> c]}
    /\ files' = files \ RowsOf(c)
    /\ scheduled' = {r \in scheduled : r.cat # c}
    /\ snapshots' = [snapshots EXCEPT ![c] = {}]
    /\ UNCHANGED <<scope, nextId, store, now, write, fork, cleaner, sweeper>>

DropFails(c) ==
    /\ c \in dropping
    /\ dropping' = dropping \ {c}
    /\ UNCHANGED <<scope, catalogs, dropped, tombstones, rowVars, store, now, write, fork,
                   cleaner, sweeper>>

-----------------------------------------------------------------------------
\* A row an earlier version scheduled in a catalog that only references the object.
Legacy(c, r, byOwner) ==
    [cat |-> c, id |-> 0, obj |-> r.obj, relative |-> FALSE, byOwner |-> byOwner]

\* The file of the first catalog.
FirstFile(path) ==
    [cat |-> scope.first, kind |-> "data", id |-> 1, of |-> 0, obj |-> [at |-> path, n |-> 1],
     owner |-> scope.first, begin |-> 1, end |-> LIVE]

\* The store has catalogs with at most one file, in the first of them.
Init ==
    /\ scope \in Scopes
    /\ catalogs = scope.created /\ dropping = {} /\ dropped = {} /\ tombstones = {}
    /\ nextId = [snapshot |-> 2, data |-> 2, delete |-> 1]
    /\ snapshots = [c \in Catalogs |-> IF c = scope.first THEN {1} ELSE {}]
    /\ now = 2
    /\ \E path \in scope.places :
           /\ files = {FirstFile(path)} /\ store = {FirstFile(path).obj}
           /\ \/ scheduled = {}
              \/ \E c \in scope.legacy, byOwner \in {path # Elsewhere, FALSE} :
                     scheduled = {Legacy(c, FirstFile(path), byOwner)}
    /\ write = None /\ fork = None /\ cleaner = None /\ sweeper = None

Next ==
    \/ \E c \in Catalogs : \/ BeginWrite(c) \/ DropTable(c)
                           \/ CreateCatalog(c) \/ DropBegin(c) \/ DropCommit(c) \/ DropFails(c)
                           \/ \E S \in SUBSET snapshots[c] : Expire(c, S)
                           \/ \E rows \in SUBSET scheduled : CleanupList(c, rows)
                           \/ \E d \in Catalogs, s \in snapshots[c] : ForkRead(c, d, s)
    \/ \E c \in Catalogs : Upload(Layout(c))
    \/ Upload(Elsewhere) \/ CommitWrite \/ WriteFails
    \/ ForkUpload \/ ForkCommit \/ ForkFails
    \/ CleanupLayouts \/ CleanupReferences \/ CleanupDelete \/ CleanupRemove \/ CleanupFails
    \/ \E root \in ListedRoots, all \in BOOLEAN : SweepBegin(root, all)
    \/ SweepNow \/ SweepReferences \/ SweepList \/ SweepDelete \/ SweepEnd \/ SweepFails

Spec == Init /\ [][Next]_vars
=============================================================================
