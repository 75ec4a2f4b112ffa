-------------------------- MODULE ObjectStepProofs --------------------------
(***************************************************************************)
(* The initial states and the steps of ObjectLifecycle keep its invariant: *)
(* those of a write and of a fork, then those of the cleanup, of the sweep *)
(* and of a catalog's drop; and the steps of writes and catalogs keep what *)
(* NothingStranded rests on.                                               *)
(***************************************************************************)
EXTENDS ObjectInvariant, TLAPS

\* A leaf may take its time: the provers get more than their default.
USE SMTT(30), ZenonT(30)

-----------------------------------------------------------------------------
\* The steps that leave the file rows as they are.

\* A layout is a path.
LEMMA LayoutIsPath ==
    ASSUME NEW c \in Catalogs
    PROVE  Layout(c) \in Seq(Segments)
<1>1. Root[c] \in Seq(Segments) /\ c \in Segments
  BY PathAssumption, Zenon DEF Segments
<1> QED
  BY <1>1 DEF Layout

\* The clock is a number, and stays where a step leaves it.
LEMMA NowStays == ASSUME IInv, UNCHANGED now PROVE now' \in Nat /\ now <= now'
  BY DEF IInv, TypeInv

\* The rows keep their invariant while the objects they name stay.
LEMMA RowsFrame ==
    ASSUME RowsInv, UNCHANGED <<scope, files, nextId>>, catalogs \subseteq catalogs',
           \A r \in files : r.obj \in store'
    PROVE  RowsInv'
  BY Zenon DEF RowsInv, NextOf, IsReference, Layout, Multi

\* What a fork has read stays true while no row changes.
LEMMA ForkFrame ==
    ASSUME ForkInv, UNCHANGED <<files, nextId>>, fork' # None => UNCHANGED fork
    PROVE  ForkInv'
  BY Zenon DEF ForkInv, NextOf

\* Scheduled rows stay held back while no file row changes and no catalog goes.
LEMMA PendingFrame ==
    ASSUME TypeInv, UNCHANGED <<scope, files>>,
           catalogs \subseteq catalogs', now <= now', now' \in Nat,
           NEW R, NEW S, R \subseteq ScheduledRow, Pending(R), S \subseteq R
    PROVE  Pending(S)'
  BY DEF TypeInv, Pending, HeldBack, IsReference, Under, Layout, Multi, May, ScheduledRow, Objects

\* The scheduled rows keep their invariant, also when some are removed.
LEMMA ScheduleFrame ==
    ASSUME TypeInv, ScheduleInv, UNCHANGED <<scope, files>>,
           catalogs \subseteq catalogs', now <= now', now' \in Nat,
           scheduled' \subseteq scheduled, ~May("drop") => dropping' \subseteq dropping
    PROVE  ScheduleInv'
  BY PendingFrame, Zenon DEF TypeInv, ScheduleInv, May, Pending

\* A cleanup in progress keeps its invariant while no file row changes.
LEMMA CleanerFrame ==
    ASSUME TypeInv, CleanerInv, UNCHANGED <<scope, files, cleaner>>,
           catalogs \subseteq catalogs', now <= now', now' \in Nat,
           cleaner # None => \A r \in cleaner.deleted : r.obj \notin store'
    PROVE  CleanerInv'
<1>1. cleaner # None => Pending(cleaner.rows)'
  BY PendingFrame, Zenon DEF TypeInv, CleanerInv, Cleanup
<1> QED
  BY <1>1, Zenon DEF CleanerInv, Pending, InForeignLayout, Unverified, IsReference, Under, Layout, Multi

\* A sweep in progress keeps its invariant while no file row changes.
LEMMA SweeperFrame ==
    ASSUME TypeInv, SweeperInv, UNCHANGED <<files, sweeper>>, now <= now', now' \in Nat,
           write' # None => write # None /\ write'.start = write.start,
           fork' # None => fork # None /\ fork'.start = fork.start
    PROVE  SweeperInv'
  BY DEF TypeInv, SweeperInv, Swept, Under, IsReference, Sweep

\* An upload is new to every row, cleanup and sweep.
LEMMA PutStep ==
    ASSUME IInv, NEW path \in Seq(Segments), Put(path),
           UNCHANGED <<scope, catalogs, dropping, files, nextId, scheduled, cleaner>>
    PROVE  /\ now' \in Nat /\ now <= now' /\ store' \subseteq Objects
           /\ RowsInv' /\ ScheduleInv' /\ CleanerInv'
           /\ \A o \in store' : o.n < now'
           /\ [at |-> path, n |-> now] \notin store
           /\ \A r \in files \cup scheduled : r.obj # [at |-> path, n |-> now]
           /\ cleaner # None => \A r \in cleaner.rows : r.obj # [at |-> path, n |-> now]
<1> DEFINE o == [at |-> path, n |-> now]
<1>1. now' = now + 1 /\ now \in Nat /\ store' = store \cup {o} /\ o \in Objects
  BY Zenon DEF Put, IInv, TypeInv, Objects
<1>2. \A u \in store : u.n < now /\ u \in Objects
  BY Zenon DEF IInv, FlightInv, TypeInv
<1>3. \A r \in files : r.obj \in store
  BY Zenon DEF IInv, RowsInv
<1>4. \A r \in scheduled : r.obj.n < now
  BY Zenon DEF IInv, ScheduleInv, Pending
<1>5. cleaner # None => \A r \in cleaner.rows : r.obj.n < now
  BY Zenon DEF IInv, CleanerInv, Pending
<1>6. RowsInv' /\ ScheduleInv'
  BY <1>1, <1>3, RowsFrame, ScheduleFrame DEF IInv
<1>7. cleaner # None => \A r \in cleaner.deleted : r.obj \notin store'
  BY <1>1, <1>5 DEF IInv, CleanerInv, Objects
<1>8. CleanerInv'
  BY <1>1, <1>7, CleanerFrame DEF IInv
<1> QED
  BY <1>1, <1>2, <1>3, <1>4, <1>5, <1>6, <1>8 DEF Objects

\* begin_write keeps the invariant: a sweep under way has an earlier cutoff.
LEMMA BeginWriteStep ==
    ASSUME IInv, NEW c \in Catalogs, BeginWrite(c)
    PROVE  IInv'
<1> USE DEF BeginWrite, rowVars, catalogVars
<1>1. TypeInv'
  BY Zenon DEF IInv, TypeInv, Write
<1>2. RowsInv' /\ ForkInv' /\ ScheduleInv' /\ CleanerInv'
  BY RowsFrame, ForkFrame, ScheduleFrame, CleanerFrame, NowStays, Zenon DEF IInv, RowsInv, CleanerInv
<1>3. FlightInv'
  BY DEF IInv, TypeInv, FlightInv, Held, Multi, Layout
<1>4. SweeperInv'
  BY Zenon DEF IInv, TypeInv, Sweep, SweeperInv, SweepsAll, Swept, Under, IsReference
<1> QED
  BY <1>1, <1>2, <1>3, <1>4, Zenon DEF IInv

\* The upload of a finished file keeps the invariant.
LEMMA UploadStep ==
    ASSUME IInv, NEW path \in Seq(Segments), Upload(path)
    PROVE  IInv'
<1> USE DEF Upload, rowVars, catalogVars
<1> DEFINE o == [at |-> path, n |-> now]
<1>1. now' = now + 1 /\ now \in Nat /\ store' = store \cup {o} /\ o \in Objects
      /\ write \in Write /\ write' = [write EXCEPT !.objs = {o}]
  BY Zenon DEF IInv, TypeInv, Put, Objects
<1>2. /\ now' \in Nat /\ now <= now' /\ store' \subseteq Objects
      /\ RowsInv' /\ ScheduleInv' /\ CleanerInv'
      /\ \A u \in store' : u.n < now'
      /\ o \notin store
      /\ \A r \in files \cup scheduled : r.obj # o
      /\ cleaner # None => \A r \in cleaner.rows : r.obj # o
  BY PutStep, Zenon
<1>3. TypeInv'
  BY <1>1, <1>2, Zenon DEF IInv, TypeInv, Write
<1>4. write' # None /\ write'.objs = {o} /\ write'.cat = write.cat /\ write'.start = write.start
  BY <1>1 DEF Write, None
<1>5. Held(write)' /\ write'.start <= now' /\ o.at \in {Layout(write.cat), Elsewhere}
  BY <1>1, <1>2, <1>4 DEF IInv, FlightInv, Held, Write
<1>6. FlightInv'
  BY <1>1, <1>2, <1>4, <1>5 DEF IInv, TypeInv, FlightInv, Held, Multi, Layout, Fork
<1>7. ForkInv'
  BY ForkFrame, Zenon DEF IInv
<1>8. SweeperInv'
  BY <1>2, <1>4, SweeperFrame, Zenon DEF IInv
<1> QED
  BY <1>2, <1>3, <1>6, <1>7, <1>8, Zenon DEF IInv

\* A write given up keeps the invariant: nobody names what it removes.
LEMMA WriteFailsStep ==
    ASSUME IInv, WriteFails
    PROVE  IInv'
<1> USE DEF WriteFails, EndWrite, rowVars, catalogVars
<1>1. TypeInv'
  BY Zenon DEF IInv, TypeInv
<1>2. \A r \in files : r.obj \in store'
  BY Zenon DEF IInv, RowsInv, FlightInv, Held
<1>3. cleaner # None => \A r \in cleaner.deleted : r.obj \notin store'
  BY Zenon DEF IInv, CleanerInv
<1>4. RowsInv' /\ ForkInv' /\ ScheduleInv'
  BY <1>2, RowsFrame, ForkFrame, ScheduleFrame, NowStays, Zenon DEF IInv
<1>5. CleanerInv' /\ SweeperInv'
  BY <1>3, CleanerFrame, SweeperFrame, NowStays, Zenon DEF IInv
<1>6. FlightInv'
  BY Zenon DEF IInv, FlightInv, Held, Multi, Layout
<1> QED
  BY <1>1, <1>4, <1>5, <1>6, Zenon DEF IInv

\* fork_table's read of its source keeps the invariant.
LEMMA ForkReadStep ==
    ASSUME IInv, NEW src \in Catalogs, NEW dst \in Catalogs, NEW s, ForkRead(src, dst, s)
    PROVE  IInv'
<1>0. UNCHANGED <<scope, catalogs, dropping, dropped, tombstones, snapshots, files, scheduled,
                  nextId, store, now, write, cleaner, sweeper>>
  BY Zenon DEF ForkRead, rowVars, catalogVars
<1>1. TypeInv'
  BY <1>0, Zenon DEF ForkRead, IInv, TypeInv, Fork, RowsOf, DeletesOf
<1>2. RowsInv' /\ ScheduleInv' /\ CleanerInv'
  <2>1. RowsInv'
    BY <1>0, RowsFrame, Zenon DEF IInv, RowsInv
  <2>2. ScheduleInv'
    BY <1>0, ScheduleFrame, NowStays, Zenon DEF IInv
  <2>3. CleanerInv'
    BY <1>0, CleanerFrame, NowStays, Zenon DEF IInv, CleanerInv
  <2> QED
    BY <2>1, <2>2, <2>3, Zenon
<1>3. Multi
  BY ScopeAssumption, Zenon DEF ForkRead, IInv, TypeInv, May, Multi
<1>4. FlightInv'
  BY <1>0, <1>3 DEF ForkRead, IInv, TypeInv, FlightInv, Held, Multi, Layout
<1>5. ForkInv'
  BY <1>0 DEF ForkRead, IInv, RowsInv, ForkInv, NextOf, RowsOf, DeletesOf
<1>6. SweeperInv'
  BY <1>0, Zenon DEF ForkRead, IInv, TypeInv, Sweep, SweeperInv, SweepsAll, Swept, Under, IsReference
<1> QED
  BY <1>1, <1>2, <1>4, <1>5, <1>6, Zenon DEF IInv

\* fork_table's upload of inlined rows and deletions keeps the invariant.
LEMMA ForkUploadStep ==
    ASSUME IInv, ForkUpload
    PROVE  IInv'
<1> USE DEF ForkUpload, rowVars, catalogVars
<1> DEFINE path == Layout(fork.dst)
           o == [at |-> path, n |-> now]
<1>1. fork \in Fork /\ path \in Seq(Segments)
  BY LayoutIsPath, Zenon DEF IInv, TypeInv, Fork
<1>2. now' = now + 1 /\ now \in Nat /\ store' = store \cup {o} /\ o \in Objects
  BY <1>1, Zenon DEF IInv, TypeInv, Put, Objects
<1>3. /\ now' \in Nat /\ now <= now' /\ store' \subseteq Objects
      /\ RowsInv' /\ ScheduleInv' /\ CleanerInv'
      /\ \A u \in store' : u.n < now'
      /\ o \notin store
      /\ \A r \in files \cup scheduled : r.obj # o
      /\ cleaner # None => \A r \in cleaner.rows : r.obj # o
  BY <1>1, PutStep, Zenon
<1>4. PICK m \in {0} \cup {r.id : r \in {q \in fork.rows : q.kind = "data"}} :
          fork' = [fork EXCEPT !.objs = {o}, !.masked = m]
  BY Zenon
<1>5. m \in Nat
  BY <1>1 DEF Fork, Row
<1>6. /\ fork' \in Fork /\ fork'.objs = {o} /\ fork'.masked = m
      /\ fork'.src = fork.src /\ fork'.dst = fork.dst /\ fork'.rows = fork.rows
      /\ fork'.start = fork.start
  BY <1>1, <1>2, <1>4, <1>5, Zenon DEF Fork
<1>7. TypeInv'
  BY <1>2, <1>3, <1>6, Zenon DEF IInv, TypeInv
<1>8. Held(fork)' /\ fork'.start <= now'
  BY <1>1, <1>2, <1>3, <1>6 DEF IInv, FlightInv, Held, Fork
<1>9. FlightInv'
  <2>1. write # None => Held(write)' /\ write'.start <= now'
    BY <1>2, <1>3 DEF IInv, TypeInv, FlightInv, Held, Write
  <2>2. write # None => \A u \in write.objs : u \notin fork'.objs
    BY <1>3, <1>6, Zenon DEF IInv, FlightInv, Held
  <2>3. write # None => \A u \in write.objs : u.at \in {Layout(write.cat)', Elsewhere}
    BY Zenon DEF IInv, FlightInv, Multi, Layout
  <2>4. Multi' /\ \A u \in fork'.objs : u.at = Layout(fork.dst)'
    <3>1. Multi' /\ Layout(fork.dst)' = path
      BY <1>6, Zenon DEF IInv, FlightInv, Multi, Layout
    <3>2. \A u \in fork'.objs : u.at = path
      BY <1>6
    <3> QED
      BY <3>1, <3>2, Zenon
  <2> QED
    BY <1>3, <1>8, <2>1, <2>2, <2>3, <2>4, Zenon DEF FlightInv
<1>10. ForkInv'
  BY <1>6 DEF IInv, ForkInv, NextOf
<1>11. SweeperInv'
  BY <1>3, <1>6, SweeperFrame, Zenon DEF IInv
<1> QED
  BY <1>3, <1>7, <1>9, <1>10, <1>11, Zenon DEF IInv

\* A fork given up keeps the invariant.
LEMMA ForkFailsStep ==
    ASSUME IInv, ForkFails
    PROVE  IInv'
<1> USE DEF ForkFails, rowVars, catalogVars
<1>1. TypeInv'
  BY Zenon DEF IInv, TypeInv
<1>2. \A r \in files : r.obj \in store'
  BY Zenon DEF IInv, RowsInv, FlightInv, Held
<1>3. cleaner # None => \A r \in cleaner.deleted : r.obj \notin store'
  BY Zenon DEF IInv, CleanerInv
<1>4. RowsInv' /\ ForkInv' /\ ScheduleInv'
  BY <1>2, RowsFrame, ForkFrame, ScheduleFrame, NowStays, Zenon DEF IInv
<1>5. CleanerInv' /\ SweeperInv'
  BY <1>3, CleanerFrame, SweeperFrame, NowStays, Zenon DEF IInv
<1>6. FlightInv'
  BY Zenon DEF IInv, FlightInv, Held, Multi, Layout
<1> QED
  BY <1>1, <1>4, <1>5, <1>6, Zenon DEF IInv

-----------------------------------------------------------------------------
\* The steps that change file rows.

\* The same file row, perhaps ended.
SameFile(q, r) ==
    q.cat = r.cat /\ q.kind = r.kind /\ q.id = r.id /\ q.obj = r.obj /\ q.owner = r.owner

Kept(q) == \E r \in files : SameFile(q, r)

\* A reference to an object that a row names.
Copied(q) ==
    /\ Multi /\ IsReference(q) /\ q.cat \in catalogs
    /\ NextOf(q.kind) <= q.id
    /\ \E r \in files : r.obj = q.obj /\ r.owner = q.owner

\* A file of the catalog's own, of the objects O.
Registered(q, O) ==
    /\ ~IsReference(q) /\ q.cat \in catalogs
    /\ NextOf(q.kind) <= q.id
    /\ q.obj \in O /\ q.obj.at \in {Layout(q.owner), Elsewhere}

\* Objects no row names, no cleanup holds, and no sweep is old enough to take.
Fresh(O) ==
    \A o \in O : /\ o \in store
                 /\ \A r \in files \cup scheduled : r.obj # o
                 /\ cleaner # None => \A r \in cleaner.rows : r.obj # o
                 /\ sweeper # None => sweeper.cutoff <= o.n

UniqueIds == \A q, r \in files : q.kind = r.kind /\ q.id = r.id => q = r
OneOwner == \A q, r \in files : ~IsReference(q) /\ ~IsReference(r) /\ q.obj = r.obj => q = r

\* What a write or a fork in flight has uploaded is fresh: BeginWrite and ForkRead
\* note a start that no sweep's cutoff passes (cleanup_orphans' OlderThan).
LEMMA FlightIsFresh ==
    ASSUME IInv
    PROVE  (write # None => Fresh(write.objs)) /\ (fork # None => Fresh(fork.objs))
<1>1. write # None => Fresh(write.objs)
  BY DEF IInv, TypeInv, FlightInv, Held, SweeperInv, Fresh, Write, Sweep, Objects
<1>2. fork # None => Fresh(fork.objs)
  BY DEF IInv, TypeInv, FlightInv, Held, SweeperInv, Fresh, Fork, Sweep, Objects
<1> QED
  BY <1>1, <1>2, Zenon

\* What all changes of file rows share: ids are drawn in order, rows are kept, copied
\* from rows that stand, or registered with a fresh object, and what is scheduled is
\* what the owner removed.
IdsGrow ==
    /\ nextId' \in [snapshot : Nat, data : Nat, delete : Nat]
    /\ nextId.data <= nextId'.data /\ nextId.delete <= nextId'.delete

FlightsEnd(O) ==
    /\ write' # None => UNCHANGED write /\ write.objs \cap O = {}
    /\ fork' # None => UNCHANGED fork /\ fork.objs \cap O = {}

RowsChange(O) ==
    /\ files' \subseteq Row
    /\ \A q \in files' : q.id < NextOf(q.kind)'
    /\ \A q \in files' : Kept(q) \/ Copied(q) \/ Registered(q, O)

OthersStay ==
    UNCHANGED <<scope, catalogs, dropping, dropped, tombstones, store, now, cleaner, sweeper>>

Schedules(R) ==
    /\ R \subseteq files /\ scheduled' = scheduled \cup Scheduled(R)
    /\ \A q \in files', r \in R : ~SameFile(q, r)

\* Every such change keeps the invariant.
LEMMA RowStep ==
    ASSUME IInv, OthersStay, IdsGrow, UniqueIds', OneOwner',
           NEW O, O \subseteq Objects, Fresh(O), FlightsEnd(O), RowsChange(O),
           NEW R, Schedules(R)
    PROVE  IInv'
<1>0. \A q \in files' : \/ \E r \in files : /\ r.obj = q.obj /\ r.owner = q.owner
                                            /\ IsReference(r) => IsReference(q)
                        \/ q.obj \in O
  BY Zenon DEF RowsChange, Kept, Copied, Registered, SameFile, IsReference
<1>1. \A x \in Scheduled(R) : /\ x \in ScheduledRow
                              /\ \E r \in R : ~IsReference(r) /\ x.obj = r.obj
  <2>1. \A o, path : Under(o, path) \in BOOLEAN
    BY Zenon DEF Under, IsPrefix
  <2>2. \A r \in R : r.cat \in Catalogs /\ r.id \in Nat /\ r.obj \in Objects
    BY Zenon DEF IInv, TypeInv, Row, Schedules
  <2> TAKE x \in Scheduled(R)
  <2>3. PICK r \in R : /\ ~IsReference(r)
                        /\ x = [cat |-> r.cat, id |-> r.id, obj |-> r.obj,
                                relative |-> Under(r.obj, Root[r.cat]), byOwner |-> TRUE]
    BY Zenon DEF Scheduled
  <2> DEFINE relative == Under(r.obj, Root[r.cat])
  <2>4. relative \in BOOLEAN
    BY <2>1, Zenon
  <2> HIDE DEF relative
  <2>5. x = [cat |-> r.cat, id |-> r.id, obj |-> r.obj, relative |-> relative, byOwner |-> TRUE]
    BY <2>3, Zenon DEF relative
  <2> QED
    BY <2>2, <2>3, <2>4, <2>5 DEF ScheduledRow
<1>2. TypeInv'
  <2>1. scheduled' \subseteq ScheduledRow
    BY <1>1, Zenon DEF IInv, TypeInv, Schedules
  <2> QED
    BY <2>1, Zenon DEF IInv, TypeInv, OthersStay, IdsGrow, RowsChange, FlightsEnd
<1>3. RowsInv'
  <2>1. \A q \in files' : /\ q.obj \in store /\ q.cat \in catalogs
                          /\ q.obj.at \in {Layout(q.owner), Elsewhere}
                          /\ IsReference(q) => Multi
    BY DEF IInv, RowsInv, RowsChange, Kept, Copied, Registered, SameFile, Fresh, IsReference
  <2> QED
    BY <2>1, Zenon DEF RowsInv, RowsChange, OthersStay, UniqueIds, OneOwner, IsReference, Layout, Multi
<1>4. FlightInv'
  <2>1. \A x \in files' \cup scheduled' :
            x.obj \in O \/ \E r \in files \cup scheduled : r.obj = x.obj
    BY <1>0, <1>1, Zenon DEF Schedules
  <2>2. write' # None => Held(write)'
    BY <2>1 DEF IInv, FlightInv, Held, OthersStay, FlightsEnd
  <2>3. fork' # None => Held(fork)'
    BY <2>1 DEF IInv, FlightInv, Held, OthersStay, FlightsEnd
  <2> QED
    BY <2>2, <2>3, Zenon DEF IInv, FlightInv, Layout, Multi, OthersStay, FlightsEnd
<1>5. ForkInv'
  <2> SUFFICES ASSUME fork' # None PROVE ForkInv'
    BY Zenon DEF ForkInv
  <2>0. fork # None /\ fork' = fork /\ ForkInv
    BY Zenon DEF IInv, FlightsEnd
  <2>1. ASSUME NEW r \in fork.rows, NEW q \in files', q.kind = r.kind, q.id = r.id
        PROVE  q.obj = r.obj /\ q.owner = r.owner
    <3>1. r \in Row /\ r.id < NextOf(r.kind)
      BY <2>0, Zenon DEF IInv, TypeInv, ForkInv, Fork
    <3>2. NextOf(r.kind) \in Nat
      BY Zenon DEF IInv, TypeInv, NextOf
    <3>3. Kept(q)
      BY <2>1, <3>1, <3>2 DEF RowsChange, Copied, Registered, Row
    <3>4. PICK x \in files : SameFile(q, x)
      BY <3>3, Zenon DEF Kept
    <3>5. x.kind = r.kind /\ x.id = r.id /\ x.obj = q.obj /\ x.owner = q.owner
      BY <2>1, <3>4, Zenon DEF SameFile
    <3> QED
      BY <2>0, <3>5, Zenon DEF ForkInv
  <2>2. \A r \in fork.rows : r.id < NextOf(r.kind)'
    BY <2>0 DEF IInv, TypeInv, ForkInv, Fork, Row, NextOf, IdsGrow
  <2> QED
    BY <2>0, <2>1, <2>2 DEF ForkInv
<1>6. ASSUME NEW S, Pending(S), \A x \in S : x.obj \notin O
      PROVE  Pending(S)'
  <2>1. ASSUME NEW x \in S, NEW q \in files', ~IsReference(q), q.obj = x.obj
        PROVE  HeldBack(x, q)'
    <3>1. PICK r \in files : SameFile(q, r)
      BY <1>6, <2>1, Zenon DEF RowsChange, Copied, Registered, Kept
    <3>2. HeldBack(x, r)
      BY <1>6, <2>1, <3>1, Zenon DEF Pending, SameFile, IsReference
    <3> QED
      BY <3>1, <3>2, Zenon DEF OthersStay, HeldBack, SameFile, Under, Layout, Multi, May
  <2> QED
    BY <1>6, <2>1, Zenon DEF OthersStay, Pending, IsReference
<1>7. ScheduleInv'
  <2>1. Pending(scheduled)'
    <3>1. Pending(scheduled) /\ \A x \in scheduled : x.obj \notin O
      BY Zenon DEF IInv, ScheduleInv, Fresh
    <3>2. ASSUME NEW x \in scheduled
          PROVE  /\ x.obj.n < now
                 /\ \A q \in files' : ~IsReference(q) /\ q.obj = x.obj => HeldBack(x, q)'
      <4>1. Pending({x})
        BY <3>1, Zenon DEF Pending
      <4>2. Pending({x})'
        BY <1>6, <3>1, <4>1, Zenon
      <4> QED
        BY <4>2, Zenon DEF Pending, IsReference, OthersStay
    <3>3. ASSUME NEW x \in Scheduled(R)
          PROVE  x.obj.n < now /\ \A q \in files' : ~IsReference(q) => q.obj # x.obj
      <4>1. PICK r \in R : ~IsReference(r) /\ x.obj = r.obj
        BY <1>1, <3>3, Zenon
      <4>2. ASSUME NEW q \in files', ~IsReference(q), q.obj = x.obj PROVE FALSE
        <5>1. r \in files /\ r.obj \notin O
          BY <4>1, Zenon DEF Schedules, Fresh
        <5>2. PICK k \in files : SameFile(q, k)
          BY <4>1, <4>2, <5>1, Zenon DEF RowsChange, Kept, Copied, Registered
        <5>3. OneOwner
          BY Zenon DEF IInv, RowsInv, OneOwner
        <5>4. k = r
          BY <4>1, <4>2, <5>1, <5>2, <5>3, Zenon DEF OneOwner, SameFile, IsReference
        <5> QED
          BY <5>2, <5>4, Zenon DEF Schedules
      <4>3. x.obj.n < now
        BY <4>1, Zenon DEF IInv, RowsInv, FlightInv, Schedules
      <4> QED
        BY <4>2, <4>3, Zenon
    <3> QED
      BY <3>2, <3>3, Zenon DEF Pending, IsReference, Schedules, OthersStay
  <2> QED
    BY <2>1, Zenon DEF IInv, ScheduleInv, May, OthersStay
<1>8. CleanerInv'
  <2> SUFFICES ASSUME cleaner # None PROVE CleanerInv'
    BY Zenon DEF CleanerInv, OthersStay
  <2>1. \A x \in cleaner.rows : x.obj \notin O
    BY Zenon DEF Fresh
  <2>2. Pending(cleaner.rows)'
    BY <1>6, <2>1, Zenon DEF IInv, CleanerInv, OthersStay
  <2>3. ASSUME cleaner.step = "references", NEW x \in cleaner.rows, NEW q \in files',
               ~IsReference(q), q.obj = x.obj
        PROVE  InForeignLayout(x) \/ Unverified(x)
    <3>1. PICK r \in files : SameFile(q, r)
      BY <2>1, <2>3, Zenon DEF RowsChange, Copied, Registered, Kept
    <3> QED
      BY <2>3, <3>1, Zenon DEF IInv, CleanerInv, SameFile, IsReference
  <2>4. cleaner.step = "delete" => \A x \in cleaner.rows, q \in files' : q.obj # x.obj
    BY <1>0, <2>1 DEF IInv, CleanerInv
  <2> QED
    BY <2>2, <2>3, <2>4, Zenon
    DEF IInv, CleanerInv, IsReference, InForeignLayout, Unverified, Under, Layout, Multi, OthersStay
<1>9. SweeperInv'
  <2> SUFFICES ASSUME sweeper # None PROVE SweeperInv'
    BY Zenon DEF SweeperInv, OthersStay
  <2>1. \A o \in O : o.n \in Nat /\ sweeper.cutoff \in Nat /\ sweeper.cutoff <= o.n
    BY Zenon DEF IInv, TypeInv, Sweep, Objects, Fresh
  <2>2. ASSUME NEW q \in files', Swept(q)
        PROVE  \E r \in files : /\ r.obj = q.obj /\ r.owner = q.owner
                                /\ IsReference(r) => IsReference(q)
                                /\ Swept(r)
    <3>1. q.obj \notin O
      BY <2>1, <2>2 DEF Swept
    <3> QED
      BY <1>0, <2>2, <3>1, Zenon DEF Swept
  <2>3. sweeper.step = "delete" => \A o \in sweeper.orphans, q \in files' : q.obj # o
    BY <1>0, <2>1 DEF IInv, SweeperInv
  <2>4. sweeper.step = "list" => \A q \in files' : Swept(q) => q.obj \in sweeper.referenced
    BY <2>2 DEF IInv, SweeperInv
  <2>5. sweeper.step \in {"now", "references"} =>
            \A q \in files' : Swept(q) =>
                   \/ q.obj \in sweeper.referenced
                   \/ Root[q.owner] \in sweeper.unread
                   \/ sweeper.unread = sweeper.paths /\ IsReference(q)
    BY <2>2, Zenon DEF IInv, SweeperInv
  <2>6. /\ sweeper.all => write' = None /\ fork' = None
        /\ write' # None => sweeper.cutoff <= write'.start
        /\ fork' # None => sweeper.cutoff <= fork'.start
    BY Zenon DEF IInv, SweeperInv, FlightsEnd
  <2> QED
    BY <2>3, <2>4, <2>5, <2>6, Zenon
    DEF IInv, SweeperInv, Swept, Under, IsReference, OthersStay
<1> QED
  BY <1>2, <1>3, <1>4, <1>5, <1>7, <1>8, <1>9, Zenon DEF IInv

\* The file rows a commit leaves when it removes R and ends L at its snapshot.
Remaining(R, L) == ((files \ R) \ L) \cup EndAt(L, Snapshot)

Remain(K, R) ==
    /\ K \subseteq Row
    /\ \A q \in K : Kept(q) /\ q.id < NextOf(q.kind)
    /\ \A q \in K, r \in R : ~SameFile(q, r)
    /\ \A q, r \in K : \/ q.kind = r.kind /\ q.id = r.id
                       \/ ~IsReference(q) /\ ~IsReference(r) /\ q.obj = r.obj
                       => q = r

\* The rows that remain are the rows there were, with their ids and their objects.
LEMMA RemainingRows ==
    ASSUME IInv, NEW R \in SUBSET files, NEW L \in SUBSET files, L \cap R = {}
    PROVE  Remain(Remaining(R, L), R)
<1> DEFINE s == Snapshot
           After(r) == IF r \in L THEN [r EXCEPT !.end = s] ELSE r
           K == Remaining(R, L)
<1>1. files \subseteq Row /\ s \in Nat
  BY Zenon DEF IInv, TypeInv, Snapshot
<1> HIDE DEF s
<1>2. \A r \in files : After(r) \in Row /\ SameFile(After(r), r)
  BY <1>1, Zenon DEF Row, SameFile
<1>3. \A q \in K : \E r \in files \ R : q = After(r)
  BY Zenon DEF Remaining, EndAt, s
<1> HIDE DEF K, After
<1>4. \A q \in K : \E r \in files \ R : q = After(r) /\ SameFile(q, r) /\ q \in Row
  BY <1>2, <1>3, Zenon
<1>5. K \subseteq Row
  BY <1>4, Zenon
<1>6. \A q \in K : Kept(q) /\ q.id < NextOf(q.kind)
  BY <1>4, Zenon DEF IInv, RowsInv, Kept, SameFile
<1>7. \A q \in K, r \in R : ~SameFile(q, r)
  BY <1>4 DEF IInv, RowsInv, SameFile
<1>8. ASSUME NEW q \in K, NEW r \in K,
             \/ q.kind = r.kind /\ q.id = r.id
             \/ ~IsReference(q) /\ ~IsReference(r) /\ q.obj = r.obj
      PROVE  q = r
  <2>1. PICK x \in files : q = After(x) /\ SameFile(q, x)
    BY <1>4, Zenon
  <2>2. PICK y \in files : r = After(y) /\ SameFile(r, y)
    BY <1>4, Zenon
  <2>3. x = y
    BY <1>8, <2>1, <2>2 DEF IInv, RowsInv, SameFile, IsReference
  <2> QED
    BY <2>1, <2>2, <2>3, Zenon
<1> QED
  BY <1>5, <1>6, <1>7, <1>8, Zenon DEF Remain, K

\* A commit that registers the object of the write it ends keeps the invariant.
LEMMA RegisterStep ==
    ASSUME IInv, write # None, NEW o \in write.objs,
           NEW R \in SUBSET files, NEW L \in SUBSET files, L \cap R = {},
           NEW x \in Row, x.cat = write.cat, x.owner = write.cat, x.obj = o,
           x.id = NextOf(x.kind), x.id < NextOf(x.kind)', write.cat \in catalogs,
           IdsGrow, files' = Remaining(R, L) \cup {x},
           scheduled' = scheduled \cup Scheduled(R), UNCHANGED store, EndWrite
    PROVE  IInv'
<1> DEFINE K == Remaining(R, L)
           O == write.objs
<1>0. files' = K \cup {x} /\ Remain(K, R)
  BY RemainingRows, Zenon
<1> HIDE DEF K, O
<1>1. OthersStay /\ fork' = fork /\ write' = None
  BY Zenon DEF OthersStay, EndWrite, catalogVars
<1>2. Fresh(O) /\ O \subseteq Objects /\ o \in O
  BY FlightIsFresh, Zenon DEF IInv, TypeInv, Write, O
<1>3. \A k : NextOf(k) \in Nat /\ NextOf(k)' \in Nat /\ NextOf(k) <= NextOf(k)'
  BY Zenon DEF IInv, TypeInv, NextOf, IdsGrow
<1>4. \A r \in files : r \in Row /\ r.id < NextOf(r.kind)
  BY Zenon DEF IInv, TypeInv, RowsInv
<1>5. ASSUME NEW q \in K
      PROVE  /\ q \in Row /\ Kept(q) /\ ~(q.kind = x.kind /\ q.id = x.id)
             /\ q.obj # x.obj /\ q.id < NextOf(q.kind)'
  <2>1. q \in Row /\ q.id \in Nat /\ Kept(q) /\ q.id < NextOf(q.kind)
    BY <1>0, Zenon DEF Remain, Row
  <2>2. q.obj # o
    BY <1>2, <2>1, Zenon DEF Kept, SameFile, Fresh
  <2>3. q.id < NextOf(q.kind)'
    BY <1>3, <2>1
  <2> QED
    BY <1>3, <2>1, <2>2, <2>3
<1>6. Registered(x, O)
  <2>1. o.at \in {Layout(write.cat), Elsewhere}
    BY Zenon DEF IInv, FlightInv
  <2>2. NextOf(x.kind) <= x.id
    BY <1>3
  <2> QED
    BY <1>2, <2>1, <2>2, Zenon DEF Registered, IsReference
<1>7. UniqueIds'
  BY <1>0, <1>5, Zenon DEF Remain, UniqueIds
<1>8. OneOwner'
  BY <1>0, <1>5, Zenon DEF Remain, OneOwner, IsReference
<1>9. FlightsEnd(O)
  BY <1>1, Zenon DEF IInv, FlightInv, FlightsEnd, O
<1>10. RowsChange(O)
  BY <1>0, <1>5, <1>6, Zenon DEF RowsChange
<1>11. Schedules(R)
  <2>1. \A r \in R : ~SameFile(x, r)
    BY <1>3, <1>4 DEF SameFile, Row
  <2> QED
    BY <1>0, <2>1, Zenon DEF Remain, Schedules
<1> QED
  BY <1>1, <1>2, <1>7, <1>8, <1>9, <1>10, <1>11, RowStep, Zenon

\* register_data_files, commit_positional_deletes, replace_delete_files_at_snapshot
\* and commit_compaction keep the invariant.
LEMMA CommitWriteStep ==
    ASSUME IInv, CommitWrite
    PROVE  IInv'
<1>1. PICK o \in write.objs : \/ CommitInsert(write.cat, o)
                              \/ CommitDelete(write.cat, o)
                              \/ CommitFlushedDelete(write.cat, o)
                              \/ CommitMerge(write.cat, o)
  BY Zenon DEF CommitWrite
<1>2. write # None /\ UNCHANGED store /\ EndWrite
  BY Zenon DEF CommitWrite
<1> DEFINE c == write.cat
<1>3. /\ c \in Catalogs /\ o \in Objects /\ files \subseteq Row
      /\ nextId \in [snapshot : Nat, data : Nat, delete : Nat] /\ Snapshot \in Nat
  BY <1>2, Zenon DEF IInv, TypeInv, Write, Snapshot
<1>4. Scheduled({}) = {}
  BY Zenon DEF Scheduled
<1> HIDE DEF c
<1>5. ASSUME NEW data \in {0, 1}, NEW delete \in {0, 1}, Commits(c, data, delete)
      PROVE  /\ c \in catalogs /\ IdsGrow
             /\ nextId'.data = nextId.data + data /\ nextId'.delete = nextId.delete + delete
  BY <1>3, <1>5 DEF Commits, Snapshot, IdsGrow
<1>6. \A begin \in Nat : LET x == DataRow(c, o, c, begin, 0) IN
          /\ x \in Row /\ x.cat = c /\ x.owner = c /\ x.obj = o
          /\ x.kind = "data" /\ x.id = nextId.data
  BY <1>3 DEF DataRow, Row, LIVE
<1>7. \A begin \in Nat, of \in Int : LET x == DeleteRow(c, o, c, begin, of, 0) IN
          /\ x \in Row /\ x.cat = c /\ x.owner = c /\ x.obj = o
          /\ x.kind = "delete" /\ x.id = nextId.delete
  BY <1>3 DEF DeleteRow, Row, LIVE
<1>8. CASE CommitInsert(c, o)
  <2> DEFINE row == DataRow(c, o, c, Snapshot, 0)
  <2>1. PICK L \in SUBSET files : files' = Remaining({}, L) \cup {row}
    <3>1. CASE RemoveRows({}, {row})
      <4>1. files' = Remaining({}, {}) \cup {row}
        BY <3>1, Zenon DEF RemoveRows, Remaining, EndAt
      <4> QED
        BY <4>1, Zenon
    <3>2. CASE files' = Retired(c) \cup {row}
      <4>1. files' = Remaining({}, LiveData(c)) \cup {row} /\ LiveData(c) \subseteq files
        BY <3>2, Zenon DEF Retired, Remaining, LiveData, LiveRows, RowsOf
      <4> QED
        BY <4>1, Zenon
    <3> QED
      BY <1>8, <3>1, <3>2, Zenon DEF CommitInsert
  <2>2. scheduled' = scheduled \cup Scheduled({})
    BY <1>4, <1>8, Zenon DEF CommitInsert, RemoveRows
  <2>3. Commits(c, 1, 0)
    BY <1>8, Zenon DEF CommitInsert
  <2>4. PICK x \in Row : /\ x = row /\ x.cat = c /\ x.owner = c /\ x.obj = o
                         /\ x.kind = "data" /\ x.id = nextId.data
    BY <1>3, <1>6, Zenon
  <2> HIDE DEF row
  <2>5. c \in catalogs /\ IdsGrow /\ nextId'.data = nextId.data + 1
    BY <1>5, <2>3, Zenon
  <2>6. x.id = NextOf(x.kind) /\ x.id < NextOf(x.kind)'
    BY <1>3, <2>4, <2>5 DEF NextOf
  <2> QED
    BY <1>2, <2>1, <2>2, <2>4, <2>5, <2>6, RegisterStep, Zenon DEF c
<1>9. CASE CommitDelete(c, o)
  <2>1. PICK d \in LiveData(c) :
            files' = Remaining({}, DeletesOf({d}) \cap LiveRows(c))
                       \cup {DeleteRow(c, o, c, Snapshot, d.id, 0)}
    BY <1>9, Zenon DEF CommitDelete, Remaining
  <2> DEFINE L == DeletesOf({d}) \cap LiveRows(c)
             row == DeleteRow(c, o, c, Snapshot, d.id, 0)
  <2>2. L \subseteq files /\ d.id \in Int
    BY <1>3 DEF LiveData, LiveRows, RowsOf, Row
  <2>3. scheduled' = scheduled \cup Scheduled({})
    BY <1>4, <1>9, Zenon DEF CommitDelete
  <2>4. files' = Remaining({}, L) \cup {row}
    BY <2>1, Zenon
  <2> HIDE DEF L
  <2>5. Commits(c, 0, 1)
    BY <1>9, Zenon DEF CommitDelete
  <2>6. PICK x \in Row : /\ x = row /\ x.cat = c /\ x.owner = c /\ x.obj = o
                         /\ x.kind = "delete" /\ x.id = nextId.delete
    BY <1>3, <1>7, <2>2, Zenon
  <2> HIDE DEF row
  <2>7. c \in catalogs /\ IdsGrow /\ nextId'.delete = nextId.delete + 1
    BY <1>5, <2>5, Zenon
  <2>8. x.id = NextOf(x.kind) /\ x.id < NextOf(x.kind)'
    BY <1>3, <2>6, <2>7 DEF NextOf
  <2> QED
    BY <1>2, <2>2, <2>3, <2>4, <2>6, <2>7, <2>8, RegisterStep, Zenon DEF c
<1>10. CASE CommitFlushedDelete(c, o)
  <2>1. PICK e \in LiveRows(c) : RemoveRows({e}, {DeleteRow(c, o, c, e.begin, e.of, 0)})
    BY <1>10, Zenon DEF CommitFlushedDelete
  <2> DEFINE row == DeleteRow(c, o, c, e.begin, e.of, 0)
  <2>2. e \in files /\ e.begin \in Nat /\ e.of \in Int
    BY <1>3, Zenon DEF LiveRows, RowsOf, Row
  <2>3. files' = Remaining({e}, {}) \cup {row} /\ scheduled' = scheduled \cup Scheduled({e})
    BY <2>1, Zenon DEF RemoveRows, Remaining, EndAt
  <2>4. Commits(c, 0, 1)
    BY <1>10, Zenon DEF CommitFlushedDelete
  <2>5. PICK x \in Row : /\ x = row /\ x.cat = c /\ x.owner = c /\ x.obj = o
                         /\ x.kind = "delete" /\ x.id = nextId.delete
    BY <1>3, <1>7, <2>2, Zenon
  <2> HIDE DEF row
  <2>6. c \in catalogs /\ IdsGrow /\ nextId'.delete = nextId.delete + 1
    BY <1>5, <2>4, Zenon
  <2>7. x.id = NextOf(x.kind) /\ x.id < NextOf(x.kind)'
    BY <1>3, <2>5, <2>6 DEF NextOf
  <2> QED
    BY <1>2, <2>2, <2>3, <2>5, <2>6, <2>7, RegisterStep, Zenon DEF c
<1>11. CASE CommitMerge(c, o)
  <2>1. PICK d \in LiveData(c) :
            RemoveRows({d} \cup DeletesOf({d}), {DataRow(c, o, c, d.begin, 0)})
    BY <1>11, Zenon DEF CommitMerge
  <2> DEFINE R == {d} \cup DeletesOf({d})
             row == DataRow(c, o, c, d.begin, 0)
  <2>2. R \subseteq files /\ d.begin \in Nat
    BY <1>3, Zenon DEF LiveData, LiveRows, RowsOf, DeletesOf, Row
  <2>3. files' = Remaining(R, {}) \cup {row} /\ scheduled' = scheduled \cup Scheduled(R)
    BY <2>1, Zenon DEF RemoveRows, Remaining, EndAt
  <2> HIDE DEF R
  <2>4. Commits(c, 1, 0)
    BY <1>11, Zenon DEF CommitMerge
  <2>5. PICK x \in Row : /\ x = row /\ x.cat = c /\ x.owner = c /\ x.obj = o
                         /\ x.kind = "data" /\ x.id = nextId.data
    BY <1>3, <1>6, <2>2, Zenon
  <2> HIDE DEF row
  <2>6. c \in catalogs /\ IdsGrow /\ nextId'.data = nextId.data + 1
    BY <1>5, <2>4, Zenon
  <2>7. x.id = NextOf(x.kind) /\ x.id < NextOf(x.kind)'
    BY <1>3, <2>5, <2>6 DEF NextOf
  <2> QED
    BY <1>2, <2>2, <2>3, <2>5, <2>6, <2>7, RegisterStep, Zenon DEF c
<1> QED
  BY <1>1, <1>8, <1>9, <1>10, <1>11, Zenon DEF c

\* A step that only ends or removes file rows keeps the invariant.
LEMMA RetireStep ==
    ASSUME IInv, NEW R \in SUBSET files, NEW L \in SUBSET files, L \cap R = {},
           IdsGrow, files' = Remaining(R, L), scheduled' = scheduled \cup Scheduled(R),
           UNCHANGED <<scope, catalogVars, store, now, write, fork, cleaner, sweeper>>
    PROVE  IInv'
<1>1. OthersStay /\ UNCHANGED <<write, fork>>
  BY Zenon DEF OthersStay, catalogVars
<1>2. Remain(files', R)
  BY RemainingRows, Zenon
<1>3. \A q \in files' : q \in Row /\ q.id < NextOf(q.kind)'
  <2>1. TAKE q \in files'
  <2>2. q \in Row /\ q.id < NextOf(q.kind)
    BY <1>2, Zenon DEF Remain
  <2>3. q.id \in Nat /\ NextOf(q.kind) \in Nat /\ NextOf(q.kind)' \in Nat
    BY <2>2, Zenon DEF IInv, TypeInv, Row, NextOf, IdsGrow
  <2>4. NextOf(q.kind) <= NextOf(q.kind)'
    BY Zenon DEF NextOf, IdsGrow
  <2> QED
    BY <2>2, <2>3, <2>4
<1>4. UniqueIds'
  BY <1>2, Zenon DEF UniqueIds, Remain
<1>5. OneOwner'
  BY <1>2, Zenon DEF OneOwner, Remain, IsReference
<1>6. {} \subseteq Objects /\ Fresh({}) /\ FlightsEnd({})
  BY <1>1, Zenon DEF Fresh, FlightsEnd
<1>7. RowsChange({})
  BY <1>2, <1>3, Zenon DEF RowsChange, Remain
<1>8. Schedules(R)
  BY <1>2, Zenon DEF Schedules, Remain
<1> QED
  BY <1>1, <1>4, <1>5, <1>6, <1>7, <1>8, RowStep, Zenon

\* drop_live_table keeps the invariant.
LEMMA DropTableStep ==
    ASSUME IInv, NEW c \in Catalogs, DropTable(c)
    PROVE  IInv'
<1>1. LiveRows(c) \subseteq files /\ files' = Remaining({}, LiveRows(c))
  BY Zenon DEF DropTable, LiveRows, RowsOf, Remaining
<1>2. scheduled' = scheduled \cup Scheduled({})
  BY Zenon DEF DropTable, Scheduled
<1>3. IdsGrow
  BY DEF IInv, TypeInv, DropTable, Commits, Snapshot, IdsGrow
<1> QED
  BY <1>1, <1>2, <1>3, RetireStep, Zenon DEF DropTable

\* expire_snapshots keeps the invariant: what it removes it schedules.
LEMMA ExpireStep ==
    ASSUME IInv, NEW c \in Catalogs, NEW S, Expire(c, S)
    PROVE  IInv'
<1> DEFINE R == DeadRows(c, snapshots[c] \ S)
<1>1. R \subseteq files
  BY Zenon DEF DeadRows, RowsOf, DeletesOf
<1>2. files' = Remaining(R, {}) /\ scheduled' = scheduled \cup Scheduled(R)
  BY Zenon DEF Expire, RemoveRows, Remaining, EndAt
<1>3. IdsGrow
  BY DEF IInv, TypeInv, Expire, IdsGrow
<1> HIDE DEF R
<1> QED
  BY <1>1, <1>2, <1>3, RetireStep DEF Expire

\* What a fork may reference: an object that a row of another catalog names.
Source(r, c) ==
    /\ r.obj \in Objects /\ r.owner \in Catalogs /\ r.owner # c
    /\ \E q \in files : q.obj = r.obj /\ q.owner = r.owner

Sources(s, n, c) == n \in Nat /\ \A i \in 1 .. n : Source(s[i], c)

\* The rows it inserts: those of the data files and the delete files it references,
\* and that of its own object, a data file or a delete file.
DataRows(c, s, n) ==
    {DataRow(c, s[i].obj, s[i].owner, Snapshot, i - 1) : i \in 1 .. n}
DeleteRows(c, s, ofs, n) ==
    {DeleteRow(c, s[i].obj, s[i].owner, Snapshot, ofs[i], i) : i \in 1 .. n}
OwnDataRows(c, own, n) == {DataRow(c, o, c, Snapshot, n) : o \in own}
OwnDeleteRows(c, own, of) == {DeleteRow(c, o, c, Snapshot, of, 0) : o \in own}

\* What holds of the former, of the latter, and of the batch as a whole: the ids are new
\* and no two rows share one, and no two own the same object.
CopiedRows(N, k, lo, hi) ==
    /\ \A q \in N : q \in Row /\ q.kind = k /\ Copied(q) /\ lo <= q.id /\ q.id < hi
    /\ \A q, r \in N : q.id = r.id => q = r

OwnRow(N, k, id) ==
    /\ \A q \in N : q \in Row /\ q.kind = k /\ q.id = id /\ Registered(q, fork.objs)
    /\ \A q, r \in N : q = r

NewRows(N, data, delete) ==
    /\ \A q \in N : /\ q \in Row /\ NextOf(q.kind) <= q.id
                    /\ Copied(q) \/ Registered(q, fork.objs)
                    /\ q.id < IF q.kind = "data" THEN data ELSE delete
    /\ \A q, r \in N : q.kind = r.kind /\ q.id = r.id => q = r
    /\ \A q, r \in N : ~IsReference(q) /\ ~IsReference(r) /\ q.obj = r.obj => q = r

\* What a new row of a data file carries,
LEMMA NewDataRow ==
    ASSUME NEW c \in Catalogs, NEW o \in Objects, NEW d \in Catalogs, NEW b \in Nat,
           NEW n, nextId.data + n \in Nat
    PROVE  LET q == DataRow(c, o, d, b, n)
           IN  /\ q \in Row /\ q.kind = "data" /\ q.id = nextId.data + n
               /\ q.cat = c /\ q.obj = o /\ q.owner = d
BY DEF DataRow, Row, LIVE

\* and one of a delete file.
LEMMA NewDeleteRow ==
    ASSUME NEW c \in Catalogs, NEW o \in Objects, NEW d \in Catalogs, NEW b \in Nat,
           NEW of \in Int, NEW n, nextId.delete + n \in Nat
    PROVE  LET q == DeleteRow(c, o, d, b, of, n)
           IN  /\ q \in Row /\ q.kind = "delete" /\ q.id = nextId.delete + n
               /\ q.cat = c /\ q.obj = o /\ q.owner = d
BY Zenon DEF DeleteRow, Row, LIVE

\* The data row of a file the fork references,
LEMMA CopiedDataRow ==
    ASSUME IInv, Multi, NEW c \in Catalogs, c \in catalogs, NEW r, Source(r, c), NEW n \in Nat,
           NEW q, q = DataRow(c, r.obj, r.owner, Snapshot, n)
    PROVE  q \in Row /\ q.kind = "data" /\ q.id = nextId.data + n /\ Copied(q)
<1>1. nextId.data \in Nat /\ Snapshot \in Nat /\ nextId.data + n \in Nat
  BY DEF IInv, TypeInv, Snapshot
<1>2. /\ q \in Row /\ q.kind = "data" /\ q.id = nextId.data + n /\ q.cat = c
      /\ q.obj = r.obj /\ q.owner = r.owner
  <2>1. r.obj \in Objects /\ r.owner \in Catalogs
    BY Zenon DEF Source
  <2> QED
    BY <1>1, <2>1, NewDataRow
<1>3. Copied(q)
  BY <1>1, <1>2 DEF Copied, IsReference, NextOf, Source
<1> QED
  BY <1>2, <1>3, Zenon

\* and that of a delete file.
LEMMA CopiedDeleteRow ==
    ASSUME IInv, Multi, NEW c \in Catalogs, c \in catalogs, NEW r, Source(r, c),
           NEW of \in Int, NEW n \in Nat, NEW q, q = DeleteRow(c, r.obj, r.owner, Snapshot, of, n)
    PROVE  q \in Row /\ q.kind = "delete" /\ q.id = nextId.delete + n /\ Copied(q)
<1>1. nextId.delete \in Nat /\ Snapshot \in Nat /\ nextId.delete + n \in Nat
  BY DEF IInv, TypeInv, Snapshot
<1>2. /\ q \in Row /\ q.kind = "delete" /\ q.id = nextId.delete + n /\ q.cat = c
      /\ q.obj = r.obj /\ q.owner = r.owner
  <2>1. r.obj \in Objects /\ r.owner \in Catalogs
    BY Zenon DEF Source
  <2> QED
    BY <1>1, <2>1, NewDeleteRow
<1>3. Copied(q)
  BY <1>1, <1>2 DEF Copied, IsReference, NextOf, Source
<1> QED
  BY <1>2, <1>3, Zenon

\* The rows of all the data files it references, each with an id of its own,
LEMMA CopiedDataRows ==
    ASSUME IInv, Multi, NEW c \in Catalogs, c \in catalogs,
           NEW data, NEW nd, Sources(data, nd, c)
    PROVE  CopiedRows(DataRows(c, data, nd), "data", nextId.data, nextId.data + nd)
<1> DEFINE N == DataRows(c, data, nd)
<1>1. \A q \in N : \E n \in 1 .. nd :
          /\ q = DataRow(c, data[n].obj, data[n].owner, Snapshot, n - 1)
          /\ q \in Row /\ q.kind = "data" /\ q.id = nextId.data + (n - 1) /\ Copied(q)
  <2> TAKE q \in N
  <2>1. PICK n \in 1 .. nd : q = DataRow(c, data[n].obj, data[n].owner, Snapshot, n - 1)
    BY Zenon DEF DataRows
  <2> DEFINE r == data[n]
             m == n - 1
  <2>2. m \in Nat /\ Source(r, c) /\ q = DataRow(c, r.obj, r.owner, Snapshot, m)
    BY <2>1 DEF Sources
  <2> HIDE DEF r, m
  <2>3. q \in Row /\ q.kind = "data" /\ q.id = nextId.data + m /\ Copied(q)
    BY <2>2, CopiedDataRow
  <2> QED
    BY <2>1, <2>3, Zenon DEF m
<1>2. nextId.data \in Nat /\ nd \in Nat
  BY Zenon DEF IInv, TypeInv, Sources
<1> HIDE DEF N
<1> QED
  BY <1>1, <1>2 DEF CopiedRows, N

\* and of all the delete files, past the id that the fork's own would take.
LEMMA CopiedDeleteRows ==
    ASSUME IInv, Multi, NEW c \in Catalogs, c \in catalogs,
           NEW deletes, NEW ne, Sources(deletes, ne, c),
           NEW ofs, \A n \in 1 .. ne : ofs[n] \in Int
    PROVE  CopiedRows(DeleteRows(c, deletes, ofs, ne), "delete",
                      nextId.delete + 1, nextId.delete + (ne + 1))
<1> DEFINE N == DeleteRows(c, deletes, ofs, ne)
<1>1. \A q \in N : \E n \in 1 .. ne :
          /\ q = DeleteRow(c, deletes[n].obj, deletes[n].owner, Snapshot, ofs[n], n)
          /\ q \in Row /\ q.kind = "delete" /\ q.id = nextId.delete + n /\ Copied(q)
  <2> TAKE q \in N
  <2>1. PICK n \in 1 .. ne : q = DeleteRow(c, deletes[n].obj, deletes[n].owner, Snapshot,
                                           ofs[n], n)
    BY Zenon DEF DeleteRows
  <2> DEFINE r == deletes[n]
             of == ofs[n]
  <2>2. /\ n \in Nat /\ of \in Int /\ Source(r, c)
        /\ q = DeleteRow(c, r.obj, r.owner, Snapshot, of, n)
    BY <2>1 DEF Sources
  <2> HIDE DEF r, of
  <2>3. q \in Row /\ q.kind = "delete" /\ q.id = nextId.delete + n /\ Copied(q)
    BY <2>2, CopiedDeleteRow
  <2> QED
    BY <2>1, <2>3, Zenon
<1>2. nextId.delete \in Nat /\ ne \in Nat
  BY Zenon DEF IInv, TypeInv, Sources
<1> HIDE DEF N
<1> QED
  BY <1>1, <1>2 DEF CopiedRows, N

\* The data row of the file a fork has uploaded for itself,
LEMMA OwnDataRow ==
    ASSUME IInv, fork # None, NEW c, c = fork.dst, c \in catalogs, NEW n \in Nat,
           NEW own \in SUBSET fork.objs
    PROVE  OwnRow(OwnDataRows(c, own, n), "data", nextId.data + n)
<1>1. /\ nextId.data \in Nat /\ Snapshot \in Nat /\ nextId.data + n \in Nat
      /\ c \in Catalogs /\ own \subseteq Objects
      /\ \A o \in own : o.at = Layout(c)
      /\ \A o, u \in own : o = u
  BY DEF IInv, TypeInv, Snapshot, Fork, FlightInv, Held
<1>2. ASSUME NEW o \in own, NEW q, q = DataRow(c, o, c, Snapshot, n)
      PROVE  /\ q \in Row /\ q.kind = "data" /\ q.id = nextId.data + n
             /\ Registered(q, fork.objs)
  <2>1. /\ q \in Row /\ q.kind = "data" /\ q.id = nextId.data + n
        /\ q.cat = c /\ q.obj = o /\ q.owner = c
    BY <1>1, <1>2 DEF DataRow, Row, LIVE
  <2> QED
    <3>1. NextOf(q.kind) <= q.id
      BY <1>1, <2>1 DEF NextOf
    <3> QED
      BY <1>1, <2>1, <3>1, Zenon DEF Registered, IsReference
<1>3. \A q, r \in OwnDataRows(c, own, n) : q = r
  BY <1>1, Zenon DEF OwnDataRows
<1> QED
  BY <1>2, <1>3, Zenon DEF OwnRow, OwnDataRows

\* and its delete row.
LEMMA OwnDeleteRow ==
    ASSUME IInv, fork # None, NEW c, c = fork.dst, c \in catalogs, NEW of,
           NEW own \in SUBSET fork.objs, own # {} => of \in Int
    PROVE  OwnRow(OwnDeleteRows(c, own, of), "delete", nextId.delete)
<1>1. /\ nextId.delete \in Nat /\ Snapshot \in Nat /\ nextId.delete + 0 = nextId.delete
      /\ c \in Catalogs /\ own \subseteq Objects
      /\ \A o \in own : o.at = Layout(c)
      /\ \A o, u \in own : o = u
  BY DEF IInv, TypeInv, Snapshot, Fork, FlightInv, Held
<1>2. ASSUME NEW o \in own, NEW q, q = DeleteRow(c, o, c, Snapshot, of, 0)
      PROVE  /\ q \in Row /\ q.kind = "delete" /\ q.id = nextId.delete
             /\ Registered(q, fork.objs)
  <2>1. /\ q \in Row /\ q.kind = "delete" /\ q.id = nextId.delete
        /\ q.cat = c /\ q.obj = o /\ q.owner = c
    BY <1>1, <1>2, Zenon DEF DeleteRow, Row, LIVE
  <2> QED
    <3>1. NextOf(q.kind) <= q.id
      BY <1>1, <2>1 DEF NextOf
    <3> QED
      BY <1>1, <2>1, <3>1, Zenon DEF Registered, IsReference
<1>3. \A q, r \in OwnDeleteRows(c, own, of) : q = r
  BY <1>1, Zenon DEF OwnDeleteRows
<1> QED
  BY <1>2, <1>3, Zenon DEF OwnRow, OwnDeleteRows

\* A batch of rows that are copied from rows that stand or registered with the fork's
\* object, numbered past every row there is, keeps the invariant.
LEMMA ForkBatchStep ==
    ASSUME IInv, fork # None, NEW c,
           UNCHANGED <<scope, catalogVars, scheduled, store, now, write, cleaner, sweeper>>,
           fork' = None, IdsGrow,
           NEW N, files' = Retired(c) \cup N, NewRows(N, nextId'.data, nextId'.delete)
    PROVE  IInv'
<1> DEFINE none == {}
           K == Remaining(none, LiveData(c))
           O == fork.objs
<1>1. OthersStay /\ write' = write /\ scheduled' = scheduled
  BY Zenon DEF OthersStay, catalogVars
<1>2. /\ files' = K \cup N /\ LiveData(c) \in SUBSET files
      /\ none \in SUBSET files /\ LiveData(c) \cap none = {}
  BY Zenon DEF Remaining, Retired, LiveData, LiveRows, RowsOf
<1>3. Schedules(none)
  BY <1>1, Zenon DEF Schedules, Scheduled
<1> HIDE DEF none
<1>4. Remain(K, none)
  BY <1>2, RemainingRows, Zenon
<1>5. Fresh(O) /\ O \subseteq Objects
  BY FlightIsFresh, Zenon DEF IInv, TypeInv, Fork
<1> HIDE DEF K, O
<1>6. \A k : NextOf(k) \in Nat /\ NextOf(k)' \in Nat /\ NextOf(k) <= NextOf(k)'
  BY Zenon DEF IInv, TypeInv, NextOf, IdsGrow
<1>7. ASSUME NEW r \in N
      PROVE  /\ r \in Row /\ NextOf(r.kind) <= r.id /\ r.id < NextOf(r.kind)'
             /\ Copied(r) \/ Registered(r, O)
  <2>1. NextOf(r.kind)' = IF r.kind = "data" THEN nextId'.data ELSE nextId'.delete
    BY Zenon DEF NextOf
  <2> QED
    BY <2>1, Zenon DEF NewRows, O
<1>8. ASSUME NEW q \in K PROVE q \in Row /\ q.id < NextOf(q.kind)' /\ Kept(q)
  <2>1. q \in Row /\ q.id \in Nat /\ q.id < NextOf(q.kind) /\ Kept(q)
    BY <1>4, Zenon DEF Remain, Row
  <2> QED
    BY <1>6, <2>1
<1>9. ASSUME NEW q \in K, NEW r \in N
      PROVE  /\ ~(q.kind = r.kind /\ q.id = r.id)
             /\ ~IsReference(q) /\ ~IsReference(r) => q.obj # r.obj
  <2>1. q.id \in Nat /\ r.id \in Nat /\ q.id < NextOf(q.kind) /\ NextOf(r.kind) <= r.id
    BY <1>4, <1>7, Zenon DEF Remain, Row
  <2>2. ~(q.kind = r.kind /\ q.id = r.id)
    BY <1>6, <2>1
  <2>3. ~IsReference(r) => r.obj \in O
    BY <1>7, Zenon DEF Copied, Registered
  <2>4. q.obj \notin O
    BY <1>5, <1>8 DEF Kept, SameFile, Fresh
  <2> QED
    BY <2>2, <2>3, <2>4, Zenon
<1>10. UniqueIds'
  BY <1>2, <1>4, <1>9, Zenon DEF UniqueIds, Remain, NewRows
<1>11. OneOwner'
  BY <1>2, <1>4, <1>9, Zenon DEF OneOwner, Remain, NewRows, IsReference
<1>12. RowsChange(O)
  BY <1>2, <1>7, <1>8, Zenon DEF RowsChange
<1>13. FlightsEnd(O)
  BY <1>1, Zenon DEF IInv, FlightInv, FlightsEnd, O
<1> QED
  BY <1>1, <1>3, <1>5, <1>10, <1>11, <1>12, <1>13, RowStep, Zenon

\* The rows a fork inserts are such a batch: N1 and N2 reference the files of other
\* catalogs, N3 and N4 name its own object as a data file or as a delete file.
LEMMA ForkRows ==
    ASSUME IInv, fork # None, NEW nd \in Nat, NEW k \in Nat, NEW ne \in Nat,
           NEW N1, CopiedRows(N1, "data", nextId.data, nextId.data + nd),
           NEW N2, CopiedRows(N2, "delete", nextId.delete + 1, nextId.delete + (ne + 1)),
           NEW N3, OwnRow(N3, "data", nextId.data + nd), N3 # {} => k = 1,
           NEW N4, OwnRow(N4, "delete", nextId.delete),
           N3 = {} \/ N4 = {}
    PROVE  NewRows(N1 \cup N2 \cup N3 \cup N4, nextId.data + (nd + k),
                   nextId.delete + (ne + 1))
<1> DEFINE N == N1 \cup N2 \cup N3 \cup N4
           d == nextId.data
           e == nextId.delete
           dd == d + (nd + k)
           ee == e + (ne + 1)
<1>1. /\ d \in Nat /\ e \in Nat /\ NextOf("data") = d /\ NextOf("delete") = e
  BY Zenon DEF IInv, TypeInv, NextOf
<1>2. \A q \in N1 \cup N3 : /\ q.kind = "data" /\ q.id \in Nat /\ q \in Row
                            /\ d <= q.id /\ q.id < dd
                            /\ Copied(q) \/ Registered(q, fork.objs)
  BY <1>1 DEF Row, CopiedRows, OwnRow
<1>3. \A q \in N2 \cup N4 : /\ q.kind = "delete" /\ q.id \in Nat /\ q \in Row
                            /\ e <= q.id /\ q.id < ee
                            /\ Copied(q) \/ Registered(q, fork.objs)
  BY <1>1 DEF Row, CopiedRows, OwnRow
<1>4. \A q, r \in N1 \cup N3 : q.id = r.id => q = r
  BY <1>1, <1>2 DEF CopiedRows, OwnRow
<1>5. \A q, r \in N2 \cup N4 : q.id = r.id => q = r
  BY <1>1, <1>3 DEF CopiedRows, OwnRow
<1>6. \A q \in N : ~IsReference(q) => q \in N3 \cup N4
  BY Zenon DEF Copied, CopiedRows
<1>7. \A q, r \in N : ~IsReference(q) /\ ~IsReference(r) /\ q.obj = r.obj => q = r
  BY <1>6, Zenon DEF OwnRow
<1> HIDE DEF d, e, dd, ee
<1>8. NewRows(N, dd, ee)
  BY <1>1, <1>2, <1>3, <1>4, <1>5, <1>7, Zenon DEF NewRows
<1> QED
  BY <1>8, Zenon DEF d, e, dd, ee

\* Every row that a fork copies has a source that stands,
LEMMA CopiedStand ==
    ASSUME IInv, fork # None, NEW S \in SUBSET fork.rows, SourceRowsStand(S),
           \A r \in S : r.owner # fork.dst
    PROVE  \A r \in S : Source(r, fork.dst)
<1> TAKE r \in S
<1>1. PICK q \in files : q.kind = r.kind /\ q.id = r.id
  BY Zenon DEF SourceRowsStand
<1>2. q.obj = r.obj /\ q.owner = r.owner
  BY <1>1, Zenon DEF IInv, ForkInv
<1>3. r \in Row
  BY Zenon DEF IInv, TypeInv, Fork
<1> QED
  BY <1>2, <1>3, Zenon DEF Row, Source

\* and the data file of a delete file it has read is among the rows it copies.
LEMMA CopiedDataFiles ==
    ASSUME IInv, fork # None,
           NEW D, \A d \in fork.rows : d.kind = "data" => d \in D
    PROVE  /\ \A r \in fork.rows : r.kind # "data" => \E d \in D : d.id = r.of
           /\ fork.masked # 0 => \E d \in D : d.id = fork.masked
<1>1. \A r \in fork.rows : r.kind # "data" => r.kind = "delete"
  BY Zenon DEF IInv, TypeInv, Fork, Row
<1> QED
  BY <1>1, Zenon DEF IInv, ForkInv

-----------------------------------------------------------------------------
\* The steps of the cleanup, of the sweep and of a drop.

\* list_scheduled_for_deletion keeps the invariant.
LEMMA CleanupListStep ==
    ASSUME IInv, NEW c \in Catalogs, NEW rows, CleanupList(c, rows)
    PROVE  IInv'
<1> USE DEF CleanupList, CleanerOnly, catalogVars
<1>1. TypeInv'
  BY Zenon DEF IInv, TypeInv, Cleanup
<1>2. RowsInv' /\ ForkInv' /\ ScheduleInv'
  <2>1. now' \in Nat /\ now <= now'
    BY DEF IInv, TypeInv
  <2>2. \A r \in files : r.obj \in store'
    BY Zenon DEF IInv, RowsInv
  <2> QED
    BY <2>1, <2>2, RowsFrame, ForkFrame, ScheduleFrame, Zenon DEF IInv
<1>3. SweeperInv'
  BY SweeperFrame, NowStays, Zenon DEF IInv
<1>4. FlightInv'
  BY ZenonT(60) DEF IInv, FlightInv, Held, Multi, Layout
<1>5. CleanerInv'
  <2>1. /\ cleaner' # None /\ cleaner'.rows = rows /\ cleaner'.cat = c /\ cleaner'.deleted = {}
        /\ cleaner'.step = IF Multi THEN "layouts" ELSE "delete"
    BY DEF None
  <2>2. Pending(rows)'
    BY PendingFrame DEF IInv, TypeInv, ScheduleInv
  <2>3. \A r \in rows : r.cat = c
    BY Zenon
  <2>4. ~Multi => \A r \in rows, q \in files : q.obj # r.obj
    BY Zenon DEF IInv, ScheduleInv, Pending, HeldBack, RowsInv
  <2> QED
    BY <2>1, <2>2, <2>3, <2>4, Zenon DEF CleanerInv, Multi
<1> QED
  BY <1>1, <1>2, <1>3, <1>4, <1>5, Zenon DEF IInv

\* retain_unreferenced's list of layouts keeps the invariant: an object its owner still
\* names is in a foreign layout or unverified.
LEMMA CleanupLayoutsStep ==
    ASSUME IInv, CleanupLayouts
    PROVE  IInv'
<1> USE DEF CleanupLayouts, CleanerOnly, catalogVars
<1>0. cleaner \in Cleanup /\ catalogs \subseteq Catalogs
  BY Zenon DEF IInv, TypeInv
<1> DEFINE foreign == {Layout(c) : c \in catalogs \ {cleaner.cat}}
           own == cleaner.cat \in catalogs
<1>1. /\ cleaner' \in Cleanup /\ cleaner'.rows = cleaner.rows /\ cleaner'.cat = cleaner.cat
      /\ cleaner'.deleted = cleaner.deleted /\ cleaner'.step = "references"
      /\ cleaner'.own = own /\ cleaner'.foreign = foreign
  <2>1. foreign \in SUBSET Seq(Segments)
    BY <1>0, LayoutIsPath, Zenon
  <2>2. own \in BOOLEAN
    OBVIOUS
  <2>3. cleaner' = [cleaner EXCEPT !.own = own, !.foreign = foreign, !.step = "references"]
    BY Zenon
  <2> HIDE DEF foreign, own, CleanupLayouts
  <2> QED
    BY <1>0, <2>1, <2>2, <2>3, Zenon DEF Cleanup
<1>2. TypeInv'
  BY <1>1, Zenon DEF IInv, TypeInv
<1>3. RowsInv' /\ ForkInv' /\ ScheduleInv'
  BY RowsFrame, ForkFrame, ScheduleFrame, NowStays, Zenon DEF IInv, RowsInv
<1>4. SweeperInv'
  BY SweeperFrame, NowStays, Zenon DEF IInv
<1>5. FlightInv'
  BY <1>1, ZenonT(60) DEF IInv, FlightInv, Held, Multi, Layout
<1>6. Pending(cleaner.rows)'
  <2>1. cleaner.rows \subseteq ScheduledRow /\ cleaner'.rows \subseteq cleaner.rows
    BY <1>0, <1>1, Zenon DEF Cleanup
  <2>2. TypeInv /\ Pending(cleaner.rows) /\ UNCHANGED <<scope, files, catalogs, now>> /\ now \in Nat
    BY Zenon DEF IInv, TypeInv, CleanerInv
  <2> HIDE DEF CleanupLayouts, CleanupReferences
  <2> QED
    BY <2>1, <2>2, PendingFrame
<1>7. ASSUME NEW r \in cleaner.rows, NEW q \in files, ~IsReference(q), q.obj = r.obj
      PROVE  (InForeignLayout(r) \/ Unverified(r))'
  <2>1. HeldBack(r, q) /\ r.cat = cleaner.cat /\ q.cat \in catalogs
    BY <1>7, Zenon DEF IInv, CleanerInv, Pending, RowsInv
  <2>2. CASE Under(r.obj, Layout(q.cat))
    <3>1. Layout(q.cat) \in foreign
      BY <2>1, Zenon DEF HeldBack
    <3> QED
      BY <1>1, <2>2, <3>1, Zenon DEF InForeignLayout, Under
  <2>3. CASE ~Under(r.obj, Layout(q.cat))
    BY <1>1, <2>1, <2>3, Zenon DEF HeldBack, Unverified, Under, Layout, Multi
  <2> QED
    BY <2>2, <2>3, Zenon
<1>8. CleanerInv'
  BY <1>1, <1>6, <1>7, Zenon DEF IInv, CleanerInv, IsReference, Multi
<1> QED
  BY <1>2, <1>3, <1>4, <1>5, <1>8, Zenon DEF IInv

\* retain_unreferenced's read of the references keeps the invariant: no row names what
\* it lets pass.
LEMMA CleanupReferencesStep ==
    ASSUME IInv, CleanupReferences
    PROVE  IInv'
<1> USE DEF CleanupReferences, CleanerOnly, catalogVars
<1> DEFINE rows == {r \in cleaner.rows : /\ ~InForeignLayout(r) /\ ~Unverified(r)
                                         /\ r.obj \notin AllReferencePaths}
<1>0. cleaner \in Cleanup
  BY Zenon DEF IInv, TypeInv
<1>1. /\ cleaner' \in Cleanup /\ cleaner'.rows = rows /\ cleaner'.cat = cleaner.cat
      /\ cleaner'.deleted = cleaner.deleted /\ cleaner'.step = "delete"
  BY <1>0, Zenon DEF Cleanup
<1>2. TypeInv'
  BY <1>1, Zenon DEF IInv, TypeInv
<1>3. RowsInv' /\ ForkInv' /\ ScheduleInv'
  BY RowsFrame, ForkFrame, ScheduleFrame, NowStays, Zenon DEF IInv, RowsInv
<1>4. SweeperInv'
  BY SweeperFrame, NowStays, Zenon DEF IInv
<1>5. FlightInv'
  BY <1>1, ZenonT(60) DEF IInv, FlightInv, Held, Multi, Layout
<1>6. Pending(cleaner.rows)'
  <2>1. cleaner.rows \subseteq ScheduledRow /\ cleaner'.rows \subseteq cleaner.rows
    BY <1>0, <1>1, Zenon DEF Cleanup
  <2>2. TypeInv /\ Pending(cleaner.rows) /\ UNCHANGED <<scope, files, catalogs, now>> /\ now \in Nat
    BY Zenon DEF IInv, TypeInv, CleanerInv
  <2> HIDE DEF CleanupLayouts, CleanupReferences
  <2> QED
    BY <2>1, <2>2, PendingFrame
<1>7. \A r \in rows, q \in files : q.obj # r.obj
  BY Zenon DEF IInv, CleanerInv, AllReferencePaths
<1>8. CleanerInv'
  BY <1>1, <1>6, <1>7, Zenon DEF IInv, CleanerInv
<1> QED
  BY <1>2, <1>3, <1>4, <1>5, <1>8, Zenon DEF IInv

\* run_cleanup's delete keeps the invariant: no row names the object.
LEMMA CleanupDeleteStep ==
    ASSUME IInv, CleanupDelete
    PROVE  IInv'
<1> USE DEF CleanupDelete, CleanerOnly, catalogVars
<1>0. cleaner \in Cleanup
  BY Zenon DEF IInv, TypeInv
<1>1. PICK x \in cleaner.rows \ cleaner.deleted :
          store' = store \ {x.obj} /\ cleaner' = [cleaner EXCEPT !.deleted = @ \cup {x}]
  BY Zenon
<1>2. /\ cleaner' \in Cleanup /\ cleaner'.rows = cleaner.rows /\ cleaner'.cat = cleaner.cat
      /\ cleaner'.deleted = cleaner.deleted \cup {x} /\ cleaner'.step = "delete"
  BY <1>0, <1>1, Zenon DEF Cleanup
<1>3. TypeInv'
  BY <1>1, <1>2, Zenon DEF IInv, TypeInv
<1>4. \A r \in files : r.obj \in store'
  BY <1>1, Zenon DEF IInv, RowsInv, CleanerInv
<1>5. RowsInv' /\ ForkInv' /\ ScheduleInv'
  BY <1>4, RowsFrame, ForkFrame, ScheduleFrame, NowStays, Zenon DEF IInv
<1>6. SweeperInv'
  BY SweeperFrame, NowStays, Zenon DEF IInv
<1>7. FlightInv'
  BY <1>1, <1>2 DEF IInv, FlightInv, Held, Multi, Layout
<1>8. Pending(cleaner.rows)'
  BY <1>0, <1>2, PendingFrame DEF IInv, TypeInv, CleanerInv, Cleanup
<1>9. CleanerInv'
  BY <1>1, <1>2, <1>8, Zenon DEF IInv, CleanerInv
<1> QED
  BY <1>3, <1>5, <1>6, <1>7, <1>9, Zenon DEF IInv

\* remove_scheduled, remove_scheduled_paths_in_catalog and a failed cleanup keep the
\* invariant.
LEMMA CleanupEndStep ==
    ASSUME IInv, CleanupRemove \/ CleanupFails
    PROVE  IInv'
<1> USE DEF CleanupRemove, CleanupFails, EndCleanup, CleanerOnly, catalogVars
<1>1. TypeInv'
  BY Zenon DEF IInv, TypeInv
<1>2. scheduled' \subseteq scheduled
  BY Zenon
<1>3. RowsInv' /\ ForkInv' /\ ScheduleInv'
  BY <1>2, RowsFrame, ForkFrame, ScheduleFrame, NowStays, Zenon DEF IInv, RowsInv
<1>4. SweeperInv'
  BY SweeperFrame, NowStays, Zenon DEF IInv
<1>5. FlightInv'
  BY <1>2, Zenon DEF IInv, FlightInv, Held, Multi, Layout
<1>6. CleanerInv'
  BY Zenon DEF CleanerInv
<1> QED
  BY <1>1, <1>3, <1>4, <1>5, <1>6, Zenon DEF IInv

\* create_catalog, and a drop that begins or fails, keep the invariant.
LEMMA CatalogStep ==
    ASSUME IInv, NEW c \in Catalogs, CreateCatalog(c) \/ DropBegin(c) \/ DropFails(c)
    PROVE  IInv'
<1> USE DEF CreateCatalog, DropBegin, DropFails, rowVars
<1>0. /\ catalogs \subseteq catalogs' /\ catalogs' \subseteq Catalogs
      /\ ~May("drop") => dropping' \subseteq dropping
      /\ UNCHANGED <<scope, dropped, tombstones, snapshots, files, scheduled, nextId, store, now,
                     write, fork, cleaner, sweeper>>
  BY Zenon DEF IInv, TypeInv
<1> HIDE DEF CreateCatalog, DropBegin, DropFails
<1>1. TypeInv'
  BY <1>0, Zenon DEF IInv, TypeInv, CreateCatalog, DropBegin, DropFails
<1>2. RowsInv' /\ ForkInv' /\ ScheduleInv'
  <2>1. now' \in Nat /\ now <= now'
    BY <1>0 DEF IInv, TypeInv
  <2>2. \A r \in files : r.obj \in store'
    BY <1>0, Zenon DEF IInv, RowsInv
  <2> QED
    BY <1>0, <2>1, <2>2, RowsFrame, ForkFrame, ScheduleFrame, Zenon DEF IInv
<1>3. SweeperInv' /\ CleanerInv'
  <2>1. now' \in Nat /\ now <= now'
    BY <1>0 DEF IInv, TypeInv
  <2>2. cleaner # None => \A r \in cleaner.deleted : r.obj \notin store'
    BY <1>0, Zenon DEF IInv, CleanerInv
  <2> QED
    BY <1>0, <2>1, <2>2, SweeperFrame, CleanerFrame, Zenon DEF IInv
<1>4. FlightInv'
  BY <1>0, Zenon DEF IInv, FlightInv, Held, Multi, Layout
<1> QED
  BY <1>1, <1>2, <1>3, <1>4, Zenon DEF IInv

\* A path is below itself.
LEMMA PrefixIsReflexive ==
    ASSUME NEW S, NEW s \in Seq(S)
    PROVE  IsPrefix(s, s)
  BY DEF IsPrefix

\* A path above a directory, and not below it, is above the directory's parent.
LEMMA PrefixOfAppend ==
    ASSUME NEW S, NEW r \in Seq(S), NEW q \in Seq(S), NEW e \in S,
           IsPrefix(r, Append(q, e)), ~IsPrefix(Append(q, e), r)
    PROVE  IsPrefix(r, q)
  BY DEF IsPrefix

\* Of three numbers one is least.
LEMMA LeastOfThree ==
    ASSUME NEW a \in Nat, NEW b \in Nat, NEW c \in Nat
    PROVE  \E t \in {a, b, c} : \A u \in {a, b, c} : t <= u
<1>1. CASE a <= b /\ a <= c
  <2> WITNESS a \in {a, b, c}
  <2> QED
    BY <1>1
<1>2. CASE b <= a /\ b <= c
  <2> WITNESS b \in {a, b, c}
  <2> QED
    BY <1>2
<1>3. CASE c <= a /\ c <= b
  <2> WITNESS c \in {a, b, c}
  <2> QED
    BY <1>3
<1> QED
  BY <1>1, <1>2, <1>3

\* The owner of an object below a root has its data_path there.
LEMMA RootOfOwner ==
    ASSUME IInv, NEW c \in Catalogs, NEW q \in files, Under(q.obj, Root[c])
    PROVE  IsPrefix(Root[c], Root[q.owner])
<1>1. q.owner \in Catalogs /\ q.owner \in Segments
  BY Zenon DEF IInv, TypeInv, Row, Segments
<1>2. q.obj.at = Layout(q.owner)
  BY PathAssumption, Zenon DEF IInv, RowsInv, Under
<1>3. Root[c] \in Seq(Segments) /\ Root[q.owner] \in Seq(Segments)
  BY <1>1, PathAssumption, Zenon
<1>4. CASE Multi
  <2>1. ~IsPrefix(Append(Root[q.owner], q.owner), Root[c])
    BY <1>1, PathAssumption, Zenon
  <2> QED
    BY <1>1, <1>2, <1>3, <1>4, <2>1, PrefixOfAppend, Zenon DEF Under, Layout
<1>5. CASE ~Multi
  BY <1>2, <1>5, Zenon DEF Under, Layout
<1> QED
  BY <1>4, <1>5, Zenon

\* What a sweeper's step leaves alone.
LEMMA SweeperAlone ==
    ASSUME IInv, SweeperOnly, \A r \in files : r.obj \in store', store' \subseteq store,
           write # None => write.objs \subseteq store', fork # None => fork.objs \subseteq store'
    PROVE  RowsInv' /\ FlightInv' /\ ForkInv' /\ ScheduleInv' /\ CleanerInv'
<1> USE DEF SweeperOnly, rowVars
<1>1. RowsInv' /\ ForkInv' /\ ScheduleInv'
  <2>1. now' \in Nat /\ now <= now'
    BY DEF IInv, TypeInv
  <2> QED
    BY <2>1, RowsFrame, ForkFrame, ScheduleFrame, Zenon DEF IInv
<1>2. CleanerInv'
  BY CleanerFrame, NowStays, Zenon DEF IInv, CleanerInv
<1>3. FlightInv'
  BY Zenon DEF IInv, FlightInv, Held, Multi, Layout
<1> QED
  BY <1>1, <1>2, <1>3, Zenon

\* delete_orphaned_files' choice of root, group and cutoff keeps the invariant.
LEMMA SweepBeginStep ==
    ASSUME IInv, NEW root, NEW all \in BOOLEAN, SweepBegin(root, all)
    PROVE  IInv'
<1> USE DEF SweepBegin, SweeperOnly, rowVars
<1>1. RowsInv' /\ FlightInv' /\ ForkInv' /\ ScheduleInv' /\ CleanerInv'
  BY SweeperAlone, Zenon DEF IInv, RowsInv, FlightInv, Held
<1>2. ListedRoots \subseteq {Root[c] : c \in Catalogs}
  BY Zenon DEF IInv, TypeInv, ListedRoots
<1>3. PICK c \in Catalogs : root = Root[c]
  BY <1>2, Zenon
<1>4. root \in Seq(Segments) /\ Group(root) \subseteq Seq(Segments) /\ root \in Group(root)
  BY <1>2, <1>3, PathAssumption, PrefixIsReflexive, Zenon DEF Group
<1>5. /\ LatestCutoff \in Nat /\ LatestCutoff <= now
      /\ write # None => LatestCutoff <= write.start
      /\ fork # None => LatestCutoff <= fork.start
  <2> DEFINE starts == {now} \cup {p.start : p \in InFlight}
  <2>1. now \in Nat /\ (write # None => write.start \in Nat) /\ (fork # None => fork.start \in Nat)
    BY Zenon DEF IInv, TypeInv, Write, Fork
  <2>2. \E t \in starts : \A u \in starts : t <= u
    <3> DEFINE a == IF write # None THEN write.start ELSE now
               b == IF fork # None THEN fork.start ELSE now
    <3>1. starts = {now, a, b}
      BY Zenon DEF InFlight
    <3>2. a \in Nat /\ b \in Nat
      BY <2>1, Zenon
    <3> HIDE DEF starts, a, b
    <3> QED
      BY <2>1, <3>1, <3>2, LeastOfThree
  <2>3. LatestCutoff \in starts /\ \A u \in starts : LatestCutoff <= u
    BY <2>2, Zenon DEF LatestCutoff
  <2> QED
    BY <2>1, <2>3, Zenon DEF InFlight
<1>6. scope.lastObject + 1 \in Nat
  BY ScopeAssumption DEF IInv, TypeInv
<1> DEFINE cutoff == IF all THEN scope.lastObject + 1 ELSE LatestCutoff
           step == IF Multi THEN "now" ELSE "references"
<1>7. cutoff \in Nat /\ step \in {"now", "references"}
  BY <1>5, <1>6, Zenon
<1>8. /\ sweeper' = [root |-> root, all |-> all, paths |-> Group(root), unread |-> Group(root),
                     cutoff |-> cutoff, begun |-> {}, referenced |-> {}, orphans |-> {},
                     step |-> step]
      /\ UNCHANGED <<scope, catalogs, dropping, dropped, files, scheduled, store, now, nextId,
                     write, fork, cleaner, tombstones>>
      /\ all => InFlight = {}
  BY Zenon
<1>9. ~all => cutoff = LatestCutoff
  BY Zenon
<1> HIDE DEF cutoff, step, SweepBegin, SweeperOnly
<1>10. TypeInv'
  BY <1>4, <1>7, <1>8, Zenon DEF IInv, TypeInv, Sweep
<1>11. all => write = None /\ fork = None
  BY <1>8, Zenon DEF InFlight
<1>12. \A q \in files : Under(q.obj, root) => Root[q.owner] \in Group(root) \/ IsReference(q)
  <2> SUFFICES ASSUME NEW q \in files, Under(q.obj, root), ~IsReference(q)
               PROVE  Root[q.owner] \in Group(root)
    BY Zenon
  <2>1. IsPrefix(root, Root[q.owner])
    BY <1>3, RootOfOwner, Zenon
  <2>2. Root[q.owner] \in ListedRoots
    BY Zenon DEF IInv, RowsInv, IsReference, ListedRoots
  <2> QED
    BY <2>1, <2>2, Zenon DEF Group
<1>13. SweeperInv'
  BY <1>3, <1>4, <1>5, <1>7, <1>8, <1>9, <1>11, <1>12, Zenon DEF SweeperInv, Swept, Under, IsReference
<1> QED
  BY <1>1, <1>10, <1>13, Zenon DEF IInv

\* current_timestamp keeps the invariant.
LEMMA SweepNowStep ==
    ASSUME IInv, SweepNow
    PROVE  IInv'
<1> USE DEF SweepNow, SweeperOnly, rowVars
<1>1. RowsInv' /\ FlightInv' /\ ForkInv' /\ ScheduleInv' /\ CleanerInv'
  BY SweeperAlone, Zenon DEF IInv, RowsInv, FlightInv, Held
<1>2. TypeInv'
  BY Zenon DEF IInv, TypeInv, Sweep
<1>3. SweeperInv'
  BY Zenon DEF IInv, TypeInv, Sweep, SweeperInv, Swept, Under, IsReference
<1> QED
  BY <1>1, <1>2, <1>3, Zenon DEF IInv

\* list_referenced_paths_in_data_paths keeps the invariant: root after root, what is
\* named below them is read.
LEMMA SweepReferencesStep ==
    ASSUME IInv, SweepReferences
    PROVE  IInv'
<1> USE DEF SweepReferences, SweeperOnly, rowVars
<1>1. RowsInv' /\ FlightInv' /\ ForkInv' /\ ScheduleInv' /\ CleanerInv'
  BY SweeperAlone, Zenon DEF IInv, RowsInv, FlightInv, Held
<1>2. sweeper \in Sweep
  BY Zenon DEF IInv, TypeInv
<1>3. PICK root \in sweeper.unread :
          sweeper' = [sweeper EXCEPT !.referenced = @ \cup ReferencedPaths(root),
                                     !.unread = @ \ {root},
                                     !.step = IF sweeper.unread = {root} THEN "list" ELSE @]
  BY Zenon
<1>4. ReferencedPaths(root) \subseteq Objects
  BY DEF IInv, TypeInv, Row, ScheduledRow, ReferencedPaths, AllReferencePaths
<1> DEFINE step == IF sweeper.unread = {root} THEN "list" ELSE "references"
<1>5. /\ sweeper'.referenced = sweeper.referenced \cup ReferencedPaths(root)
      /\ sweeper'.unread = sweeper.unread \ {root}
      /\ sweeper'.step = step
      /\ sweeper'.root = sweeper.root /\ sweeper'.paths = sweeper.paths
      /\ sweeper'.all = sweeper.all
      /\ sweeper'.cutoff = sweeper.cutoff /\ sweeper'.orphans = sweeper.orphans
      /\ sweeper' \in Sweep
  BY <1>2, <1>3, <1>4, Zenon DEF Sweep
<1>6. \A q \in files : Swept(q) => \/ q.obj \in sweeper'.referenced
                                   \/ Root[q.owner] \in sweeper'.unread
  <2> SUFFICES ASSUME NEW q \in files, Swept(q)
               PROVE  q.obj \in sweeper'.referenced \/ Root[q.owner] \in sweeper'.unread
    BY Zenon
  <2>1. CASE IsReference(q)
    BY <1>5, <2>1, Zenon DEF ReferencedPaths, AllReferencePaths
  <2>2. CASE ~IsReference(q)
    <3>1. q.obj \in sweeper.referenced \/ Root[q.owner] \in sweeper.unread
      BY <2>2, Zenon DEF IInv, SweeperInv
    <3>2. q.cat = q.owner /\ q.cat \in catalogs
      BY <2>2, Zenon DEF IInv, RowsInv, IsReference
    <3> QED
      BY <1>5, <3>1, <3>2, Zenon DEF ReferencedPaths
  <2> QED
    BY <2>1, <2>2, Zenon
<1>7. UNCHANGED <<scope, catalogs, dropping, dropped, files, scheduled, store, now, nextId, write,
                     fork, cleaner, tombstones>>
  BY Zenon
<1> HIDE DEF SweepReferences, SweeperOnly
<1>8. TypeInv'
  BY <1>5, <1>7, Zenon DEF IInv, TypeInv
<1>9. sweeper # None /\ sweeper.step = "references"
  BY Zenon DEF SweepReferences
<1>10. SweeperInv'
  BY <1>5, <1>6, <1>7, <1>9, Zenon DEF IInv, SweeperInv, Swept, Under, IsReference
<1> QED
  BY <1>1, <1>8, <1>10, Zenon DEF IInv

\* The listing keeps the invariant: no row names an orphan.
LEMMA SweepListStep ==
    ASSUME IInv, SweepList
    PROVE  IInv'
<1> USE DEF SweepList, SweeperOnly, rowVars
<1>1. RowsInv' /\ FlightInv' /\ ForkInv' /\ ScheduleInv' /\ CleanerInv'
  BY SweeperAlone, Zenon DEF IInv, RowsInv, FlightInv, Held
<1>2. sweeper \in Sweep
  BY Zenon DEF IInv, TypeInv
<1>3. /\ sweeper'.orphans = {o \in store : /\ Under(o, sweeper.root) /\ o.n < sweeper.cutoff
                                           /\ o \notin sweeper.referenced}
      /\ sweeper'.step = "delete"
      /\ sweeper'.root = sweeper.root /\ sweeper'.paths = sweeper.paths
      /\ sweeper'.all = sweeper.all
      /\ sweeper'.cutoff = sweeper.cutoff
      /\ sweeper' \in Sweep
  BY <1>2, Zenon DEF IInv, TypeInv, Sweep
<1>4. TypeInv'
  BY <1>3, Zenon DEF IInv, TypeInv
<1>5. \A o \in sweeper'.orphans : o.n < sweeper.cutoff /\ \A q \in files : q.obj # o
  BY <1>3, Zenon DEF IInv, SweeperInv, Swept
<1>6. SweeperInv'
  BY <1>3, <1>5, Zenon DEF IInv, SweeperInv
<1> QED
  BY <1>1, <1>4, <1>6, Zenon DEF IInv

\* run_orphan_cleanup's delete keeps the invariant.
LEMMA SweepDeleteStep ==
    ASSUME IInv, SweepDelete
    PROVE  IInv'
<1> USE DEF SweepDelete, SweeperOnly, rowVars
<1>1. sweeper \in Sweep
  BY Zenon DEF IInv, TypeInv
<1>2. PICK o \in sweeper.orphans :
          store' = store \ {o} /\ sweeper' = [sweeper EXCEPT !.orphans = @ \ {o}]
  BY Zenon
<1>3. o.n < sweeper.cutoff /\ \A q \in files : q.obj # o
  BY Zenon DEF IInv, SweeperInv
<1>4. (write # None => o \notin write.objs) /\ (fork # None => o \notin fork.objs)
  BY <1>1, <1>3 DEF IInv, TypeInv, FlightInv, Held, SweeperInv, Sweep, Write, Fork, Objects
<1>5. RowsInv' /\ FlightInv' /\ ForkInv' /\ ScheduleInv' /\ CleanerInv'
  BY <1>2, <1>3, <1>4, SweeperAlone, Zenon DEF IInv, RowsInv, FlightInv, Held
<1>6. /\ sweeper'.orphans = sweeper.orphans \ {o}
      /\ sweeper'.step = "delete"
      /\ sweeper'.root = sweeper.root /\ sweeper'.paths = sweeper.paths
      /\ sweeper'.all = sweeper.all
      /\ sweeper'.cutoff = sweeper.cutoff
      /\ sweeper' \in Sweep
  BY <1>1, <1>2, Zenon DEF Sweep
<1>7. TypeInv'
  BY <1>2, <1>6, Zenon DEF IInv, TypeInv
<1>8. SweeperInv'
  BY <1>6, Zenon DEF IInv, SweeperInv
<1> QED
  BY <1>5, <1>7, <1>8, Zenon DEF IInv

\* clear_dropped_data_paths, and a failed sweep, keep the invariant.
LEMMA SweepEndStep ==
    ASSUME IInv, SweepEnd \/ SweepFails
    PROVE  IInv'
<1> USE DEF SweepEnd, SweepFails, SweeperOnly, rowVars
<1>1. RowsInv' /\ FlightInv' /\ ForkInv' /\ ScheduleInv' /\ CleanerInv'
  BY SweeperAlone, Zenon DEF IInv, RowsInv, FlightInv, Held
<1>2. TypeInv'
  BY Zenon DEF IInv, TypeInv
<1>3. SweeperInv'
  BY Zenon DEF SweeperInv
<1> QED
  BY <1>1, <1>2, <1>3, Zenon DEF IInv

\* What is below a directory is below the directory's parent.
LEMMA BelowItsRoot ==
    ASSUME NEW S, NEW r \in Seq(S), NEW q \in Seq(S), NEW e \in S, IsPrefix(Append(r, e), q)
    PROVE  IsPrefix(r, q)
  BY DEF IsPrefix

\* drop_catalog keeps the invariant.
LEMMA DropCommitStep ==
    ASSUME IInv, NEW c \in Catalogs, DropCommit(c)
    PROVE  IInv'
<1> USE DEF DropCommit
<1>1. /\ files' \subseteq files /\ scheduled' \subseteq scheduled /\ catalogs' = catalogs \ {c}
      /\ \A r \in files' : r.cat # c
      /\ UNCHANGED <<scope, nextId, store, now, write, fork, cleaner, sweeper>>
  BY Zenon DEF RowsOf
<1>2. May("drop")
  BY Zenon DEF IInv, ScheduleInv
<1>3. TypeInv'
  BY DEF IInv, TypeInv, RowsOf
<1> HIDE DEF DropCommit
<1>4. RowsInv'
  BY <1>1, Zenon DEF IInv, RowsInv, NextOf, IsReference, Layout, Multi
<1>5. FlightInv'
  BY <1>1, Zenon DEF IInv, FlightInv, Held, Layout, Multi
<1>6. ForkInv'
  BY <1>1, Zenon DEF IInv, ForkInv, NextOf
<1>7. ASSUME NEW S, NEW R, S \subseteq R, Pending(R)
      PROVE  Pending(S)'
  BY <1>1, <1>2, <1>7, Zenon DEF Pending, HeldBack, IsReference, Under, Layout, Multi, May
<1>8. ScheduleInv'
  BY <1>1, <1>2, <1>7, Zenon DEF IInv, ScheduleInv, May
<1>9. CleanerInv'
  <2> SUFFICES ASSUME cleaner # None PROVE CleanerInv'
    BY <1>1, Zenon DEF CleanerInv
  <2>1. Pending(cleaner.rows)'
    BY <1>1, <1>7, Zenon DEF IInv, CleanerInv
  <2> QED
    BY <1>1, <2>1, Zenon DEF IInv, CleanerInv, IsReference, InForeignLayout, Unverified, Under, Layout,
                      Multi
<1>10. SweeperInv'
  BY <1>1, Zenon DEF IInv, SweeperInv, Swept, Under, IsReference
<1> QED
  BY <1>3, <1>4, <1>5, <1>6, <1>8, <1>9, <1>10, Zenon DEF IInv

\* A store with one file and perhaps a row scheduled by an earlier version satisfies the
\* invariant.
LEMMA InitInv ==
    ASSUME Init
    PROVE  IInv
<1> USE DEF Init
<1>1. scope \in Scopes /\ scope.first \in Catalogs /\ scope.first \in scope.created
      /\ scope.created \subseteq Catalogs
      /\ scope.legacy \subseteq scope.created \ {scope.first}
      /\ (scope.legacy # {} => Multi)
  BY ScopeAssumption, Zenon DEF Multi
<1>2. PICK path \in scope.places :
          /\ files = {FirstFile(path)} /\ store = {FirstFile(path).obj}
          /\ \/ scheduled = {}
             \/ \E c \in scope.legacy, byOwner \in {path # Elsewhere, FALSE} :
                    scheduled = {Legacy(c, FirstFile(path), byOwner)}
  BY Zenon
<1> DEFINE o == [at |-> path, n |-> 1]
           r == FirstFile(path)
<1>3. path \in {Layout(scope.first), Elsewhere} /\ path \in Seq(Segments)
  <2>1. path \in {Layout(scope.first), Elsewhere}
    BY <1>1, ScopeAssumption, Zenon DEF Layout, Multi
  <2> QED
    BY <1>1, <2>1, LayoutIsPath, PathAssumption, Zenon
<1>4. o \in Objects /\ r \in Row /\ r.obj = o
  BY <1>1, <1>3 DEF Objects, Row, LIVE, FirstFile
<1>5. \A x \in scheduled :
          \E c \in scope.legacy : /\ x.cat = c /\ x.id = 0 /\ x.obj = o /\ x.relative = FALSE
                                  /\ path = Elsewhere => x.byOwner = FALSE
                                  /\ x \in ScheduledRow
  <2> SUFFICES ASSUME NEW x \in scheduled
               PROVE  \E c \in scope.legacy :
                          /\ x.cat = c /\ x.id = 0 /\ x.obj = o /\ x.relative = FALSE
                          /\ path = Elsewhere => x.byOwner = FALSE
                          /\ x \in ScheduledRow
    BY Zenon
  <2>1. PICK c \in scope.legacy, b \in {path # Elsewhere, FALSE} : x = Legacy(c, r, b)
    BY <1>2, ZenonT(60)
  <2>2. b \in BOOLEAN /\ c \in Catalogs
    BY <1>1, <2>1, Zenon
  <2> QED
    BY <1>4, <2>1, <2>2, Zenon DEF Legacy, ScheduledRow
<1>6. /\ files = {r} /\ store = {o} /\ write = None /\ fork = None /\ cleaner = None
      /\ sweeper = None /\ now = 2 /\ catalogs = scope.created /\ dropping = {} /\ dropped = {}
      /\ tombstones = {} /\ nextId = [snapshot |-> 2, data |-> 2, delete |-> 1]
  BY <1>2, <1>4, Zenon
<1>11. r.cat = scope.first /\ r.owner = scope.first /\ r.id = 1 /\ r.kind = "data"
  BY Zenon DEF FirstFile
<1> HIDE DEF Init, r
<1>7. TypeInv
  BY <1>1, <1>4, <1>5, <1>6, Zenon DEF TypeInv
<1>8. RowsInv
  BY <1>1, <1>3, <1>4, <1>6, <1>11 DEF RowsInv, IsReference, NextOf
<1>9. FlightInv /\ ForkInv /\ CleanerInv /\ SweeperInv
  BY <1>4, <1>6 DEF FlightInv, ForkInv, CleanerInv, SweeperInv
<1>10. ScheduleInv
  <2>1. ASSUME NEW x \in scheduled, NEW q \in files, ~IsReference(q), q.obj = x.obj
        PROVE  HeldBack(x, q)
    <3>1. /\ x.cat # q.cat /\ x.cat \in catalogs /\ Multi /\ q.cat = scope.first
          /\ x.obj.at = path /\ x.relative = FALSE /\ scope.legacy # {} /\ x.cat \in Catalogs
          /\ path = Elsewhere => x.byOwner = FALSE
      <4>1. q = r
        BY <1>6, Zenon
      <4>2. PICK c \in scope.legacy : /\ x.cat = c /\ x.obj = o /\ x.relative = FALSE
                                      /\ path = Elsewhere => x.byOwner = FALSE
        BY <1>5, Zenon
      <4>3. x.obj.at = path
        BY <4>2
      <4>4. c \in scope.created /\ c # scope.first /\ Multi /\ c \in Catalogs
        BY <1>1, Zenon
      <4> HIDE DEF o
      <4> QED
        BY <1>6, <1>11, <4>1, <4>2, <4>3, <4>4, Zenon
    <3>2. CASE path = Layout(scope.first)
      <4>1. Under(x.obj, Layout(q.cat))
        BY <1>3, <3>1, <3>2, PrefixIsReflexive, Zenon DEF Under
      <4> QED
        BY <3>1, <4>1, Zenon DEF HeldBack
    <3>3. CASE path = Elsewhere
      <4>1. ~IsPrefix(Layout(x.cat), Elsewhere)
        <5>1. /\ ~IsPrefix(Root[x.cat], Elsewhere)
              /\ Root[x.cat] \in Seq(Segments) /\ Elsewhere \in Seq(Segments)
              /\ x.cat \in Segments
          BY <3>1, PathAssumption, Zenon DEF Segments
        <5> QED
          BY <3>1, <5>1, BelowItsRoot, Zenon DEF Layout
      <4>2. ~May("drop")
        BY <1>1, <3>1, <3>3, ScopeAssumption, Zenon DEF May
      <4>3. x.byOwner = FALSE
        BY <3>1, <3>3, Zenon
      <4> QED
        BY <3>1, <3>3, <4>1, <4>2, <4>3, Zenon DEF HeldBack, Under
    <3> QED
      BY <1>3, <3>2, <3>3, Zenon
  <2>2. \A x \in scheduled : x.obj.n < now
    <3>1. \A x \in scheduled : x.obj = o
      BY <1>5, Zenon
    <3> QED
      BY <1>6, <3>1
  <2> QED
    BY <1>6, <2>1, <2>2, Zenon DEF ScheduleInv, Pending
<1> QED
  BY <1>7, <1>8, <1>9, <1>10, Zenon DEF IInv

-----------------------------------------------------------------------------
\* A path above another is above what lies in it.
LEMMA PrefixOfAppended ==
    ASSUME NEW S, NEW r \in Seq(S), NEW q \in Seq(S), NEW e \in S, IsPrefix(r, q)
    PROVE  IsPrefix(r, Append(q, e))
  BY DEF IsPrefix

\* Equal paths have equal names.
LEMMA LastOfAppend ==
    ASSUME NEW S, NEW q \in Seq(S), NEW r \in Seq(S), NEW d \in S, NEW e \in S,
           Append(q, d) = Append(r, e)
    PROVE  d = e
<1>1. Len(Append(q, d)) = Len(q) + 1 /\ Len(Append(r, e)) = Len(r) + 1
  OBVIOUS
<1>2. Append(q, d)[Len(q) + 1] = d /\ Append(r, e)[Len(r) + 1] = e
  OBVIOUS
<1> QED
  BY <1>1, <1>2, Zenon

\* In a multicatalog store a layout belongs to one catalog (own_layout).
LEMMA LayoutsDiffer ==
    ASSUME Multi, NEW c \in Catalogs, NEW d \in Catalogs, Layout(c) = Layout(d)
    PROVE  c = d
<1>1. c \in Segments /\ d \in Segments /\ Root[c] \in Seq(Segments) /\ Root[d] \in Seq(Segments)
  BY PathAssumption, Zenon DEF Segments
<1> QED
  BY <1>1, LastOfAppend, Zenon DEF Layout

\* A layout lies below each prefix of its root.
LEMMA LayoutBelow ==
    ASSUME NEW c \in Catalogs, NEW root \in Seq(Segments), IsPrefix(root, Root[c])
    PROVE  IsPrefix(root, Layout(c))
<1>1. c \in Segments /\ Root[c] \in Seq(Segments)
  BY PathAssumption, Zenon DEF Segments
<1> QED
  BY <1>1, PrefixOfAppended, Zenon DEF Layout

\* Steps that leave catalogs, tombstones and the sweep alone keep every object listed.
LEMMA ListedFrame ==
    ASSUME LInv, NoForks => OwnRowsOnly',
           UNCHANGED <<scope, catalogs, dropping, dropped, tombstones, sweeper>>,
           store' \subseteq store, write' # None => UNCHANGED write,
           NoForks => fork' = None
    PROVE  LInv'
<1> SUFFICES ASSUME NoForks PROVE LInv'
  BY Zenon DEF LInv, NoForks, May
<1>1. fork' = None /\ OwnRowsOnly' /\ ObjectsListed /\ SweepComplete
  BY Zenon DEF LInv
<1>2. ObjectsListed'
  BY <1>1, Zenon DEF ObjectsListed, RootListed, ListedRoots, Layout, Multi
<1>3. SweepComplete'
  BY <1>1, Zenon DEF SweepComplete, ClearsTombstones, Layout, Multi, Under
<1> QED
  BY <1>1, <1>2, <1>3, Zenon DEF LInv

\* Without forks a catalog's rows, scheduled or not, name its own objects.
LEMMA OwnRowsFrame ==
    ASSUME NoForks, LInv, IInv, UNCHANGED scope, \A r \in files' : ~IsReference(r),
           NEW R \in SUBSET files, scheduled' \subseteq scheduled \cup Scheduled(R)
    PROVE  OwnRowsOnly'
<1>1. \A x \in Scheduled(R) : x.obj.at \in {Layout(x.cat), Elsewhere}
  <2> TAKE x \in Scheduled(R)
  <2>1. PICK r \in R : ~IsReference(r) /\ x.cat = r.cat /\ x.obj = r.obj
    BY DEF Scheduled
  <2> QED
    BY <2>1, Zenon DEF IInv, RowsInv, IsReference
<1> QED
  BY <1>1, Zenon DEF LInv, OwnRowsOnly, Layout, Multi, IsReference

\* Commits, failed writes and expiry keep every object listed.
LEMMA ListedRowSteps ==
    ASSUME IInv, LInv,
           \/ CommitWrite \/ WriteFails
           \/ \E c \in Catalogs : DropTable(c)
           \/ \E c \in Catalogs : \E S \in SUBSET snapshots[c] : Expire(c, S)
    PROVE  LInv'
<1>1. /\ UNCHANGED <<scope, catalogs, dropping, dropped, tombstones, sweeper, fork>>
      /\ write' # None => UNCHANGED write
  BY Zenon DEF CommitWrite, WriteFails, DropTable, Expire, EndWrite, catalogVars
<1>2. store' \subseteq store
  BY Zenon DEF CommitWrite, WriteFails, DropTable, Expire
<1>3. ASSUME NoForks PROVE OwnRowsOnly' /\ fork' = None
  <2>0. fork' = None /\ \A r \in files : ~IsReference(r)
    BY <1>1, <1>3, Zenon DEF LInv, OwnRowsOnly
  <2>1. Scheduled({}) = {}
    BY Zenon DEF Scheduled
  <2>2. ASSUME NEW L, NEW s, L \subseteq files PROVE \A r \in EndAt(L, s) : ~IsReference(r)
    <3>1. \A r \in L : r \in Row /\ ~IsReference(r)
      BY <2>0, <2>2, Zenon DEF IInv, TypeInv
    <3> QED
      BY <3>1, Zenon DEF EndAt, IsReference, Row
  <2>3. /\ \A c, o, b, n : ~IsReference(DataRow(c, o, c, b, n))
        /\ \A c, o, b, d, n : ~IsReference(DeleteRow(c, o, c, b, d, n))
    BY Zenon DEF DataRow, DeleteRow, IsReference
  <2>4. \A c : LiveRows(c) \subseteq files /\ LiveData(c) \subseteq files
    BY Zenon DEF LiveRows, LiveData, RowsOf
  <2> DEFINE Own(rows) == \A r \in rows : ~IsReference(r)
  <2>5. ASSUME NEW R, NEW added, RemoveRows(R, added), Own(added)
        PROVE  Own(files') /\ scheduled' \subseteq scheduled \cup Scheduled(R)
    BY <2>0, <2>5, Zenon DEF RemoveRows
  <2>6. ASSUME NEW L, NEW added, L \subseteq files, Own(added),
               files' = (files \ L) \cup EndAt(L, Snapshot) \cup added
        PROVE  Own(files')
    BY <2>0, <2>2, <2>6, Zenon
  <2> HIDE DEF Own
  <2>7. /\ \A c, o, b, n : Own({DataRow(c, o, c, b, n)})
        /\ \A c, o, b, d, n : Own({DeleteRow(c, o, c, b, d, n)})
    BY <2>3, Zenon DEF Own
  <2>8. PICK R \in SUBSET files : /\ Own(files')
                                  /\ scheduled' \subseteq scheduled \cup Scheduled(R)
    <3>1. CASE CommitWrite
      <4>1. PICK o \in write.objs : \/ CommitInsert(write.cat, o)
                                    \/ CommitDelete(write.cat, o)
                                    \/ CommitFlushedDelete(write.cat, o)
                                    \/ CommitMerge(write.cat, o)
        BY <3>1, Zenon DEF CommitWrite
      <4>2. CASE CommitInsert(write.cat, o)
        <5> DEFINE row == DataRow(write.cat, o, write.cat, Snapshot, 0)
        <5>1. \/ RemoveRows({}, {row})
              \/ files' = Retired(write.cat) \cup {row} /\ scheduled' = scheduled
          BY <4>2, Zenon DEF CommitInsert
        <5>2. Own({row})
          BY <2>7, Zenon
        <5> HIDE DEF row
        <5>3. CASE RemoveRows({}, {row})
          BY <2>5, <5>2, <5>3, Zenon
        <5>4. CASE files' = Retired(write.cat) \cup {row} /\ scheduled' = scheduled
          BY <2>4, <2>6, <5>2, <5>4, Zenon DEF Retired
        <5> QED
          BY <5>1, <5>3, <5>4, Zenon
      <4>3. CASE CommitDelete(write.cat, o)
        <5>1. PICK d \in LiveData(write.cat) :
                  files' = (files \ (DeletesOf({d}) \cap LiveRows(write.cat)))
                           \cup EndAt(DeletesOf({d}) \cap LiveRows(write.cat), Snapshot)
                           \cup {DeleteRow(write.cat, o, write.cat, Snapshot, d.id, 0)}
          BY <4>3, Zenon DEF CommitDelete
        <5>2. Own({DeleteRow(write.cat, o, write.cat, Snapshot, d.id, 0)})
          BY <2>7, Zenon
        <5>3. Own(files')
          <6> DEFINE L == DeletesOf({d}) \cap LiveRows(write.cat)
                     row == DeleteRow(write.cat, o, write.cat, Snapshot, d.id, 0)
          <6>1. L \subseteq files /\ files' = (files \ L) \cup EndAt(L, Snapshot) \cup {row}
            BY <2>4, <5>1, Zenon
          <6> HIDE DEF L, row
          <6> QED
            BY <2>6, <5>2, <6>1, Zenon DEF row
        <5>4. scheduled' = scheduled
          BY <4>3, Zenon DEF CommitDelete
        <5> QED
          BY <5>3, <5>4, Zenon
      <4>4. CASE CommitFlushedDelete(write.cat, o)
        <5>1. PICK e \in LiveRows(write.cat) :
                RemoveRows({e}, {DeleteRow(write.cat, o, write.cat, e.begin, e.of, 0)})
          BY <4>4, Zenon DEF CommitFlushedDelete
        <5>2. Own(files') /\ scheduled' \subseteq scheduled \cup Scheduled({e})
          BY <2>5, <2>7, <5>1, Zenon
        <5>3. {e} \in SUBSET files
          BY <2>4, Zenon
        <5> QED
          BY <5>2, <5>3, Zenon
      <4>5. CASE CommitMerge(write.cat, o)
        <5>1. PICK d \in LiveData(write.cat) :
                  RemoveRows({d} \cup DeletesOf({d}),
                             {DataRow(write.cat, o, write.cat, d.begin, 0)})
          BY <4>5, Zenon DEF CommitMerge
        <5>2. {d} \cup DeletesOf({d}) \in SUBSET files
          BY <2>4, Zenon DEF DeletesOf
        <5>3. /\ Own(files')
              /\ scheduled' \subseteq scheduled \cup Scheduled({d} \cup DeletesOf({d}))
          BY <2>5, <2>7, <5>1, Zenon
        <5> QED
          BY <5>2, <5>3, Zenon
      <4> QED
        BY <4>1, <4>2, <4>3, <4>4, <4>5, Zenon
    <3>2. CASE WriteFails
      <4>1. files' = files /\ scheduled' = scheduled
        BY <3>2, Zenon DEF WriteFails, rowVars
      <4> QED
        BY <2>0, <4>1, Zenon DEF Own
    <3>3. ASSUME NEW c \in Catalogs, DropTable(c)
          PROVE  Own(files') /\ scheduled' = scheduled
      BY <2>0, <2>2, <2>4, <3>3, Zenon DEF DropTable, Own
    <3>4. ASSUME NEW c \in Catalogs, NEW S, Expire(c, S)
          PROVE  /\ Own(files')
                 /\ scheduled' \subseteq scheduled \cup Scheduled(DeadRows(c, snapshots[c] \ S))
                 /\ DeadRows(c, snapshots[c] \ S) \subseteq files
      BY <2>0, <3>4, Zenon DEF Expire, RemoveRows, DeadRows, RowsOf, DeletesOf, Own
    <3> QED
      BY <3>1, <3>2, <3>3, <3>4, Zenon
  <2> QED
    BY <1>1, <1>3, <2>0, <2>8, OwnRowsFrame, Zenon DEF Own
<1> QED
  BY <1>1, <1>2, <1>3, ListedFrame, Zenon

\* The steps of a cleanup keep every object listed.
LEMMA ListedCleanupSteps ==
    ASSUME LInv,
           \/ \E c \in Catalogs : \E rows \in SUBSET scheduled : CleanupList(c, rows)
           \/ CleanupLayouts \/ CleanupReferences \/ CleanupDelete \/ CleanupRemove \/ CleanupFails
    PROVE  LInv'
<1>1. /\ UNCHANGED <<scope, catalogs, dropping, dropped, tombstones, sweeper, write, fork, files>>
      /\ store' \subseteq store /\ scheduled' \subseteq scheduled
  BY Zenon DEF CleanupList, CleanupLayouts, CleanupReferences, CleanupDelete, CleanupRemove, CleanupFails,
         CleanerOnly, catalogVars
<1>2. NoForks => OwnRowsOnly' /\ fork' = None
  BY <1>1, Zenon DEF LInv, OwnRowsOnly, IsReference, Layout, Multi
<1> QED
  BY <1>1, <1>2, ListedFrame, Zenon

\* Without forks none is in flight.
LEMMA ListedForkSteps ==
    ASSUME LInv,
           \/ \E c, d \in Catalogs : \E s \in snapshots[c] : ForkRead(c, d, s)
           \/ ForkUpload \/ ForkCommit \/ ForkFails
    PROVE  LInv'
<1>1. UNCHANGED scope
  BY Zenon DEF ForkRead, ForkUpload, ForkCommit, ForkFails
<1>2. ~NoForks
  BY Zenon DEF LInv, NoForks, ForkRead, ForkUpload, ForkCommit, ForkFails
<1> QED
  BY <1>1, <1>2, Zenon DEF LInv, NoForks, May

\* A write puts its objects below the root of its catalog, which is listed even when
\* the catalog has been dropped meanwhile.
LEMMA ListedWriteSteps ==
    ASSUME IInv, LInv,
           \/ \E c \in Catalogs : BeginWrite(c)
           \/ \E path \in Seq(Segments) : Upload(path)
    PROVE  LInv'
<1>1. UNCHANGED <<scope, catalogs, dropping, dropped, tombstones, sweeper, fork, files, scheduled>>
  BY Zenon DEF BeginWrite, Upload, catalogVars, rowVars
<1> SUFFICES ASSUME NoForks PROVE LInv'
  BY <1>1, Zenon DEF LInv, NoForks, May
<1>2. fork' = None /\ OwnRowsOnly' /\ ObjectsListed /\ SweepComplete
  BY <1>1, Zenon DEF LInv, OwnRowsOnly, IsReference, Layout, Multi
<1>3. CASE \E c \in Catalogs : BeginWrite(c)
  <2>1. PICK c \in Catalogs : BeginWrite(c)
    BY <1>3, Zenon
  <2>2. store' = store /\ write'.cat = c /\ c \in catalogs
    BY <2>1, Zenon DEF BeginWrite
  <2>3. ObjectsListed'
    BY <1>1, <1>2, <2>2, Zenon DEF ObjectsListed, RootListed, ListedRoots, Layout, Multi
  <2>4. SweepComplete'
    BY <1>1, <1>2, <2>2, Zenon DEF SweepComplete, ClearsTombstones, Layout, Multi, Under
  <2> QED
    BY <1>2, <2>3, <2>4, Zenon DEF LInv
<1>4. CASE \E path \in Seq(Segments) : Upload(path)
  <2>1. PICK path \in Seq(Segments) : Upload(path)
    BY <1>4, Zenon
  <2> DEFINE o == [at |-> path, n |-> now]
  <2>2. /\ store' = store \cup {o} /\ write # None /\ now <= scope.lastObject
        /\ path \in {Layout(write.cat), Elsewhere}
        /\ write' = [write EXCEPT !.objs = {o}]
    BY <2>1, Zenon DEF Upload, Put
  <2>3. write \in Write /\ write'.cat = write.cat
    BY <2>2, Zenon DEF IInv, TypeInv, Write
  <2>4. RootListed(write.cat) /\ write.cat \in Catalogs
    BY <1>2, <2>2, <2>3, Zenon DEF ObjectsListed, Write
  <2>5. o.at = path /\ o.n = now
    BY Zenon
  <2> HIDE DEF o
  <2>6. ObjectsListed'
    BY <1>1, <1>2, <2>2, <2>3, <2>4, <2>5, Zenon DEF ObjectsListed, RootListed, ListedRoots,
                                                     Layout, Multi
  <2>7. ~ClearsTombstones
    BY <2>2, Zenon DEF ClearsTombstones, IInv, SweeperInv
  <2>8. SweepComplete'
    BY <1>1, <1>2, <2>7, Zenon DEF SweepComplete, ClearsTombstones, Multi
  <2> QED
    BY <1>2, <2>6, <2>8, Zenon DEF LInv
<1> QED
  BY <1>3, <1>4, Zenon

\* drop_catalog's tombstone lists the root from then on.
LEMMA ListedCatalogSteps ==
    ASSUME IInv, LInv, NEW c \in Catalogs,
           CreateCatalog(c) \/ DropBegin(c) \/ DropCommit(c) \/ DropFails(c)
    PROVE  LInv'
<1>1. UNCHANGED <<scope, sweeper, fork, store, write>>
  BY Zenon DEF CreateCatalog, DropBegin, DropCommit, DropFails
<1>2. files' \subseteq files /\ scheduled' \subseteq scheduled
  BY Zenon DEF CreateCatalog, DropBegin, DropCommit, DropFails, rowVars
<1> SUFFICES ASSUME NoForks PROVE LInv'
  BY <1>1, Zenon DEF LInv, NoForks, May
<1>3. fork' = None /\ OwnRowsOnly' /\ ObjectsListed /\ SweepComplete
  BY <1>1, <1>2, Zenon DEF LInv, OwnRowsOnly, IsReference, Layout, Multi
<1>4. catalogs \subseteq Catalogs /\ dropped \subseteq Catalogs
  BY Zenon DEF IInv, TypeInv
<1>5. \A d \in Catalogs : RootListed(d) => RootListed(d)'
  <2>1. CASE CreateCatalog(c) \/ DropBegin(c) \/ DropFails(c)
    BY <2>1, Zenon DEF CreateCatalog, DropBegin, DropFails, RootListed, ListedRoots
  <2>2. CASE DropCommit(c)
    <3> SUFFICES ASSUME NEW d \in Catalogs, RootListed(d) PROVE RootListed(d)'
      BY Zenon
    <3>1. /\ dropped' = dropped \cup {c} /\ catalogs' = catalogs \ {c}
          /\ tombstones' = {t \in tombstones : t.root # Root[c]} \cup {[root |-> Root[c], by |-> c]}
      BY <2>2, Zenon DEF DropCommit
    <3>2. Root[c] \in ListedRoots'
      <4>1. /\ [root |-> Root[c], by |-> c] \in tombstones'
            /\ [root |-> Root[c], by |-> c].root = Root[c]
        BY <3>1, Zenon
      <4>2. \E t \in tombstones' : t.root = Root[c]
        BY <4>1, Zenon
      <4> QED
        BY <4>2, Zenon DEF ListedRoots
    <3>3. CASE Root[d] = Root[c]
      BY <3>1, <3>2, <3>3, Zenon DEF RootListed
    <3>4. CASE Root[d] # Root[c]
      <4>1. CASE \E e \in catalogs : Root[e] = Root[d]
        <5>1. Root[d] \in {Root[e] : e \in catalogs'}
          BY <3>1, <3>4, <4>1, Zenon
        <5> QED
          BY <3>1, <5>1, Zenon DEF RootListed, ListedRoots
      <4>2. CASE \E t \in tombstones : t.root = Root[d]
        <5>1. Root[d] \in {t.root : t \in tombstones'}
          BY <3>1, <3>4, <4>2, Zenon
        <5> QED
          BY <3>1, <5>1, Zenon DEF RootListed, ListedRoots
      <4> QED
        BY <4>1, <4>2, Zenon DEF RootListed, ListedRoots
    <3> QED
      BY <3>3, <3>4, Zenon
  <2> QED
    BY <2>1, <2>2, Zenon
<1>6. catalogs' \cap dropped' = {} /\ dropping' \subseteq catalogs'
  BY <1>3, Zenon DEF ObjectsListed, CreateCatalog, DropBegin, DropCommit, DropFails
<1>7. ObjectsListed'
  <2>1. write # None => RootListed(write.cat)'
    <3>1. write # None => write.cat \in Catalogs
      BY Zenon DEF IInv, TypeInv, Write
    <3> QED
      BY <1>1, <1>3, <1>5, <3>1, Zenon DEF ObjectsListed, RootListed, ListedRoots
  <2> QED
    BY <1>1, <1>3, <1>5, <1>6, <2>1, Zenon DEF ObjectsListed, Layout, Multi
<1>8. SweepComplete'
  <2>1. CASE CreateCatalog(c) \/ DropBegin(c) \/ DropFails(c)
    <3>1. UNCHANGED <<dropped, tombstones>>
      BY <2>1, Zenon DEF CreateCatalog, DropBegin, DropFails
    <3> QED
      BY <1>1, <1>3, <3>1, Zenon DEF SweepComplete, ClearsTombstones, Layout, Multi, Under
  <2>2. CASE DropCommit(c)
    <3>1. /\ dropped' = dropped \cup {c} /\ c \in dropping
          /\ tombstones' = {t \in tombstones : t.root # Root[c]} \cup {[root |-> Root[c], by |-> c]}
      BY <2>2, Zenon DEF DropCommit
    <3>2. c \notin dropped
      BY <1>3, <3>1, Zenon DEF ObjectsListed
    <3>3. ASSUME ClearsTombstones
          PROVE  \A t \in tombstones', d \in dropped' :
                     t.root = Root[d] /\ t.by \in sweeper.begun => d \in sweeper.begun
      <4> SUFFICES ASSUME NEW t \in tombstones', NEW d \in dropped',
                          t.root = Root[d], t.by \in sweeper.begun
                   PROVE  d \in sweeper.begun
        BY Zenon
      <4>1. /\ sweeper.begun \subseteq dropped
            /\ \A u \in tombstones, e \in dropped :
                   u.root = Root[e] /\ u.by \in sweeper.begun => e \in sweeper.begun
        BY <1>3, <3>3, Zenon DEF SweepComplete
      <4>2. t # [root |-> Root[c], by |-> c]
        BY <3>2, <4>1
      <4>3. t \in tombstones /\ t.root # Root[c]
        BY <3>1, <4>2, Zenon
      <4>4. d \in dropped
        BY <3>1, <4>3, Zenon
      <4> QED
        BY <4>1, <4>3, <4>4, Zenon
    <3>4. ASSUME ClearsTombstones
          PROVE  sweeper.begun \subseteq dropped'
      BY <1>3, <3>1, <3>4, Zenon DEF SweepComplete
    <3> QED
      BY <1>1, <1>3, <3>3, <3>4, Zenon DEF SweepComplete, ClearsTombstones, Layout, Multi, Under
  <2> QED
    BY <2>1, <2>2, Zenon
<1> QED
  BY <1>3, <1>7, <1>8, Zenon DEF LInv
=============================================================================
