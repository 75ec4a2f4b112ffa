--------------------------- MODULE ObjectInvariant ---------------------------
(***************************************************************************)
(* The inductive invariant behind NamedObjectsExist and ScheduledUntilGone, *)
(* for every store, number of catalogs and bound.  Its heart: an object     *)
(* that no row names and no write or fork holds is never named again.  A    *)
(* cleanup past its guards, and a sweep past its reads, only holds such     *)
(* objects.                                                                *)
(***************************************************************************)
EXTENDS ObjectProperties

Objects == [at : Seq(Segments), n : Nat]

Row == [cat : Catalogs, kind : {"data", "delete"}, id : Nat, of : Int, obj : Objects,
        owner : Catalogs, begin : Nat, end : Nat]

ScheduledRow == [cat : Catalogs, id : Nat, obj : Objects, relative : BOOLEAN,
                 byOwner : BOOLEAN]

Write == [cat : Catalogs, start : Nat, objs : SUBSET Objects]

Fork == [src : Catalogs, dst : Catalogs, rows : SUBSET Row, start : Nat,
         objs : SUBSET Objects, masked : Nat]

Cleanup == [cat : Catalogs, rows : SUBSET ScheduledRow, foreign : SUBSET Seq(Segments),
            own : BOOLEAN, deleted : SUBSET ScheduledRow,
            step : {"layouts", "references", "delete"}]

Sweep == [root : Seq(Segments), all : BOOLEAN, paths : SUBSET Seq(Segments),
          unread : SUBSET Seq(Segments), cutoff : Nat, begun : SUBSET Catalogs,
          referenced : SUBSET Objects, orphans : SUBSET Objects,
          step : {"now", "references", "list", "delete"}]

TypeInv ==
    /\ scope \in Scopes
    /\ catalogs \subseteq Catalogs /\ dropping \subseteq Catalogs /\ dropped \subseteq Catalogs
    /\ files \subseteq Row /\ scheduled \subseteq ScheduledRow
    /\ store \subseteq Objects /\ now \in Nat
    /\ nextId \in [snapshot : Nat, data : Nat, delete : Nat]
    /\ write = None \/ write \in Write
    /\ fork = None \/ fork \in Fork
    /\ cleaner = None \/ cleaner \in Cleanup
    /\ sweeper = None \/ sweeper \in Sweep
    /\ \A t \in tombstones : t.root \in {Root[c] : c \in Catalogs}

NextOf(kind) == IF kind = "data" THEN nextId.data ELSE nextId.delete

\* One row for each id, one row of its owner for each object, and each object in
\* the layout of its owner or elsewhere.
RowsInv ==
    /\ \A q, r \in files : q.kind = r.kind /\ q.id = r.id => q = r
    /\ \A q, r \in files : ~IsReference(q) /\ ~IsReference(r) /\ q.obj = r.obj => q = r
    /\ \A r \in files : /\ r.obj \in store
                        /\ r.cat \in catalogs
                        /\ r.id < NextOf(r.kind)
                        /\ r.obj.at \in {Layout(r.owner), Elsewhere}
                        /\ IsReference(r) => Multi

\* What a write or a fork has uploaded is new: no row names it or schedules it.
Held(p) ==
    /\ p.objs \subseteq store
    /\ \A o, u \in p.objs : o = u
    /\ \A o \in p.objs :
           /\ p.start <= o.n
           /\ \A r \in files \cup scheduled : r.obj # o
           /\ cleaner # None => \A r \in cleaner.rows : r.obj # o

FlightInv ==
    /\ \A o \in store : o.n < now
    /\ write # None =>
           /\ Held(write) /\ write.start <= now
           /\ \A o \in write.objs : o.at \in {Layout(write.cat), Elsewhere}
    /\ fork # None =>
           /\ Held(fork) /\ fork.start <= now
           /\ \A o \in fork.objs : o.at = Layout(fork.dst)
           /\ Multi
    /\ write # None /\ fork # None => \A o \in write.objs : o \notin fork.objs

\* A row a fork has read stands as it was read, or is gone for ever.
ForkInv ==
    fork # None =>
        /\ \A q, r \in fork.rows : q.kind = r.kind /\ q.id = r.id => q = r
        /\ \A r \in fork.rows :
               /\ r.id < NextOf(r.kind)
               /\ r.kind = "delete" => \E d \in fork.rows : d.kind = "data" /\ d.id = r.of
               /\ \A q \in files : q.kind = r.kind /\ q.id = r.id =>
                                       q.obj = r.obj /\ q.owner = r.owner
        /\ fork.masked # 0 => \E d \in fork.rows : d.kind = "data" /\ d.id = fork.masked

\* A scheduled object whose owner still names it was scheduled by an earlier version
\* in another catalog, and one of the two guards holds it back.
HeldBack(r, q) ==
    /\ Multi /\ q.cat # r.cat
    /\ \/ Under(r.obj, Layout(q.cat))
       \/ /\ ~r.byOwner /\ ~r.relative /\ ~Under(r.obj, Layout(r.cat))
          /\ ~May("drop") /\ r.cat \in catalogs

Pending(R) ==
    \A r \in R : /\ r.obj.n < now
                 /\ \A q \in files : ~IsReference(q) /\ q.obj = r.obj => HeldBack(r, q)

ScheduleInv ==
    /\ Pending(scheduled)
    /\ ~May("drop") => dropping = {}

CleanerInv ==
    cleaner # None =>
        /\ Pending(cleaner.rows)
        /\ \A r \in cleaner.rows : r.cat = cleaner.cat
        /\ \A r \in cleaner.deleted : r.obj \notin store
        /\ cleaner.deleted \subseteq cleaner.rows
        /\ cleaner.step # "delete" => Multi /\ cleaner.deleted = {}
        /\ cleaner.step = "references" =>
               \A r \in cleaner.rows, q \in files :
                   ~IsReference(q) /\ q.obj = r.obj => InForeignLayout(r) \/ Unverified(r)
        /\ cleaner.step = "delete" =>
               \A r \in cleaner.rows, q \in files : q.obj # r.obj

Swept(q) == Under(q.obj, sweeper.root) /\ q.obj.n < sweeper.cutoff

SweeperInv ==
    sweeper # None =>
        /\ sweeper.root \in sweeper.paths /\ sweeper.root \in {Root[c] : c \in Catalogs}
        /\ sweeper.all => write = None /\ fork = None
        /\ write # None => sweeper.cutoff <= write.start
        /\ fork # None => sweeper.cutoff <= fork.start
        /\ ~sweeper.all => sweeper.cutoff <= now
        /\ sweeper.step = "now" => sweeper.unread = sweeper.paths
        /\ sweeper.step = "references" => sweeper.unread # {}
        /\ sweeper.step \in {"now", "references"} =>
               \A q \in files : Swept(q) =>
                   \/ q.obj \in sweeper.referenced
                   \/ Root[q.owner] \in sweeper.unread
                   \/ sweeper.unread = sweeper.paths /\ IsReference(q)
        /\ sweeper.step = "list" =>
               \A q \in files : Swept(q) => q.obj \in sweeper.referenced
        /\ sweeper.step = "delete" =>
               \A o \in sweeper.orphans : /\ o.n < sweeper.cutoff
                                          /\ \A q \in files : q.obj # o

\* The inductive invariant.
IInv ==
    /\ TypeInv /\ RowsInv /\ FlightInv /\ ForkInv
    /\ ScheduleInv /\ CleanerInv /\ SweeperInv

-----------------------------------------------------------------------------
\* What NothingStranded rests on: every object lies in the layout of a catalog whose
\* root is listed, and an All sweep past its first read has every object of the
\* catalogs whose tombstones it may clear in hand.
NoForks == ~May("fork") /\ scope.legacy = {}

RootListed(c) == c \in catalogs \cup dropped /\ Root[c] \in ListedRoots

OwnRowsOnly ==
    /\ \A r \in files : ~IsReference(r)
    /\ \A r \in scheduled : r.obj.at \in {Layout(r.cat), Elsewhere}

ObjectsListed ==
    /\ catalogs \cap dropped = {} /\ dropping \subseteq catalogs
    /\ \A o \in store : /\ o.n <= scope.lastObject
                        /\ \/ o.at = Elsewhere
                           \/ \E c \in Catalogs : o.at = Layout(c) /\ RootListed(c)
    /\ write # None => RootListed(write.cat)

ClearsTombstones == sweeper # None /\ sweeper.all /\ Multi /\ sweeper.step # "now"

SweepComplete ==
    /\ sweeper # None => /\ \A p \in sweeper.paths : IsPrefix(sweeper.root, p)
                         /\ sweeper.all => sweeper.cutoff = scope.lastObject + 1
                         /\ sweeper.step = "now" => sweeper.referenced = {}
    /\ ClearsTombstones =>
           /\ sweeper.begun \subseteq dropped
           /\ \A t \in tombstones, c \in dropped :
                  t.root = Root[c] /\ t.by \in sweeper.begun => c \in sweeper.begun
           /\ \A o \in store, c \in sweeper.begun :
                  o.at = Layout(c) =>
                      /\ o \notin sweeper.referenced
                      /\ sweeper.step = "delete" /\ Under(o, sweeper.root) =>
                             o \in sweeper.orphans

LInv == NoForks => fork = None /\ OwnRowsOnly /\ ObjectsListed /\ SweepComplete
=============================================================================
