---------------------------- MODULE WriteSession ----------------------------
(***************************************************************************)
(* One streaming write: TableWriteSession with its PartitionSink and the   *)
(* StagedUploads that uploads finished files in the background, until the  *)
(* files are registered, released or removed.                              *)
(*                                                                         *)
(* File p is the p-th file handed to the uploads; it names its position,   *)
(* its DataFileInfo and its object.  A rolling session is a sink with one  *)
(* partition.  Calls on the session are steps; the upload tasks run        *)
(* between them, and a future may be dropped wherever it awaits.           *)
(***************************************************************************)
EXTENDS Naturals, FiniteSets, Sequences, Functions

CONSTANTS
    Partitions,     \* the partition values of the rows written
    MaxOpen,        \* max_open_partitions
    Concurrency,    \* upload_concurrency
    MaxFiles        \* bound: the files one session hands over

ASSUME SessionAssumption ==
    /\ IsFiniteSet(Partitions) /\ Partitions # {}
    /\ MaxOpen \in Nat \ {0} /\ Concurrency \in Nat \ {0} /\ MaxFiles \in Nat

VARIABLES
    open,           \* PartitionSink.open: the files in progress, oldest first
    handing,        \* the partitions of finished files a call is about to stage
    stagedValues,   \* PartitionSink.staged_values
    up,             \* the StagedUploads
    task,           \* the upload tasks
    object,         \* the session's objects in the object store
    objects,        \* the objects of the commit: UploadedFiles.objects
    left,           \* what a removal in progress has still to remove
    cleaner,        \* the uploads the task spawned by Drop still awaits
    registered,     \* the files the commit registered, with their partitions
    excused,        \* objects a removal failed for, or that the code keeps
    pc              \* where the caller is

vars == <<open, handing, stagedValues, up, task, object, objects, left, cleaner,
          registered, excused, pc>>

sinkVars == <<open, handing, stagedValues>>
removalVars == <<objects, left, cleaner, excused>>

File == 1 .. MaxFiles
None == 0

\* The file finish_single_file writes when no row arrived.
Marker == MaxFiles + 1

NewUploads == [waiting |-> <<>>, running |-> {}, uploaded |-> <<>>, started |-> {},
               failure |-> FALSE, failed |-> FALSE, runtime |-> FALSE,
               settled |-> FALSE]

Init ==
    /\ open = <<>> /\ handing = <<>> /\ stagedValues = <<>>
    /\ up = NewUploads
    /\ task = [p \in File |-> "none"]
    /\ object = {} /\ objects = {} /\ left = {} /\ registered = <<>> /\ excused = {}
    /\ cleaner = {}
    /\ pc = "open"

Ended == {p \in File : task[p] \in {"ok", "failed"}}

-----------------------------------------------------------------------------
\* StagedUploads.

\* record, for each of the ended uploads C: the result goes to its write
\* position, and only the first failure is kept for the caller.
Record(u, C) ==
    LET bad == {p \in C : task[p] = "failed"}
    IN  [u EXCEPT !.running = @ \ C,
                  !.uploaded = [p \in DOMAIN @ |-> IF p \in C \ bad THEN p ELSE @[p]],
                  !.failed = @ \/ bad # {},
                  !.failure = @ \/ (~u.failed /\ bad # {})]

\* Mutant: one upload too many is started.
StartWaiting_OneMore(u, current) ==
    LET room  == Concurrency + 1 - Cardinality(u.running)
        n     == IF Len(u.waiting) < room THEN Len(u.waiting) ELSE room
        batch == Range(SubSeq(u.waiting, 1, n))
    IN  IF u.failed \/ ~(u.runtime \/ current) THEN u
        ELSE [u EXCEPT !.runtime = TRUE,
                       !.waiting = SubSeq(@, n + 1, Len(@)),
                       !.running = @ \cup batch,
                       !.started = @ \cup batch]

\* start_waiting; `current` says whether the caller runs on a tokio runtime.
StartWaiting(u, current) ==
    LET runtime == u.runtime \/ current
        room    == Concurrency - Cardinality(u.running)
        n       == IF Len(u.waiting) < room THEN Len(u.waiting) ELSE room
        batch   == Range(SubSeq(u.waiting, 1, n))
    IN  IF u.failed THEN u
        ELSE IF ~runtime THEN u
        ELSE [u EXCEPT !.runtime = TRUE,
                       !.waiting = SubSeq(@, n + 1, Len(@)),
                       !.running = @ \cup batch,
                       !.started = @ \cup batch]

\* add, before it advances.
Queue(u) ==
    [u EXCEPT !.waiting = Append(@, Len(u.uploaded) + 1),
              !.uploaded = Append(@, None)]

\* advance: collect_finished takes any of the uploads that ended (tokio's budget
\* may defer some).
Advance(u, C, current) == StartWaiting(Record(u, C), current)

\* check fails iff an upload failed; it hands the failure over once.
Check(u) == [u EXCEPT !.failure = FALSE]

Collectable(u) == u.running \cap Ended

\* The tasks spawned for uploads started by this step.
Spawn == task' = [p \in File |-> IF p \in up'.started \ up.started
                                 THEN "running" ELSE task[p]]

-----------------------------------------------------------------------------
\* The session's calls.

\* Vec::remove.
RemoveAt(s, i) == SubSeq(s, 1, i - 1) \o SubSeq(s, i + 1, Len(s))

\* write_batch with rows of one partition (write_group_batch): it may finish the
\* oldest open file to make place and may roll the partition's own.
WriteBatch(part, rolls) ==
    LET evicts == part \notin Range(open) /\ Len(open) >= MaxOpen
        kept   == IF evicts THEN Tail(open) ELSE open
        opened == IF part \in Range(open) THEN open ELSE Append(kept, part)
        index  == CHOOSE i \in DOMAIN opened : opened[i] = part
    IN  /\ pc = "open"
        /\ handing' = (IF evicts THEN <<Head(open)>> ELSE <<>>)
                          \o (IF rolls THEN <<part>> ELSE <<>>)
        /\ open' = IF rolls THEN RemoveAt(opened, index) ELSE opened
        /\ Len(stagedValues) + Len(handing') + Len(open') <= MaxFiles
        /\ pc' = "writing"
        /\ UNCHANGED <<stagedValues, up, task, object, registered, removalVars>>

\* stage, and the add it calls; other uploads go on meanwhile.
Stage(C, current) ==
    /\ handing # <<>>
    /\ stagedValues' = Append(stagedValues, Head(handing))
    /\ handing' = Tail(handing)
    /\ C \subseteq Collectable(up)
    /\ up' = Advance(Queue(up), C, current)
    /\ Spawn
    /\ UNCHANGED <<open, object, registered, removalVars, pc>>

\* The end of write_batch.
WriteReturns(C, current) ==
    /\ pc = "writing" /\ handing = <<>>
    /\ C \subseteq Collectable(up)
    /\ up' = Check(Advance(up, C, current))
    /\ pc' = IF up'.failed THEN "erred" ELSE "open"
    /\ Spawn
    /\ UNCHANGED <<sinkVars, object, registered, removalVars>>

\* The staging file of a finished file cannot be completed, and write_batch or
\* finish_uploads returns at once.  A failed finish drops the session.
FinalizeFails ==
    /\ handing # <<>>
    /\ handing' = <<>>
    /\ pc' = "erred"
    /\ UNCHANGED <<open, stagedValues, up, task, object, registered, removalVars>>

\* Mutant: the files that wait are started and not awaited.
RoomTurn_NoWait(u, C, current) ==
    /\ C \subseteq Collectable(u)
    /\ up' = Check(Advance(u, C, current))
    /\ pc' = IF up'.failed THEN "erred" ELSE "open"
    /\ Spawn
    /\ UNCHANGED <<sinkVars, object, registered, removalVars>>

\* One turn of wait_for_room: it goes on while a file waits and an upload runs.
RoomTurn(u, C, current) ==
    /\ C \subseteq Collectable(u)
    /\ up' = Check(Advance(u, C, current))
    /\ pc' = IF up'.failed THEN "erred"
             ELSE IF up'.waiting # <<>> /\ up'.running # {} THEN "room" ELSE "open"
    /\ Spawn
    /\ UNCHANGED <<sinkVars, object, registered, removalVars>>

\* write_batch_async waits for room after a write that succeeded.
WaitForRoom(C, current) == pc = "open" /\ RoomTurn(up, C, current)

\* collect_next: an upload ended.
RoomAwaits(p, C, current) ==
    /\ pc = "room" /\ p \in Collectable(up)
    /\ RoomTurn(Record(up, {p}), C, current)

\* The future of write_batch_async is dropped; the session goes on.
CancelRoom ==
    /\ pc = "room" /\ pc' = "open"
    /\ UNCHANGED <<sinkVars, up, task, object, registered, removalVars>>

\* finish: the open files are finished and staged first.
Finish ==
    /\ pc = "open"
    /\ handing' = open
    /\ open' = <<>>
    /\ pc' = "finishing"
    /\ UNCHANGED <<stagedValues, up, task, object, registered, removalVars>>

\* remove_started begins: files not started are dropped.
Abandon(u) == [u EXCEPT !.waiting = <<>>]

\* StagedUploads::finish hands its files over, and finish_uploads pairs them with
\* their partitions.
HandOver(v) ==
    IF None \in Range(v.uploaded)
    THEN /\ up' = v /\ pc' = "erred" /\ UNCHANGED <<objects, left>>
    ELSE /\ up' = [v EXCEPT !.settled = TRUE, !.started = {}]
         /\ objects' = v.started
         /\ IF Len(v.uploaded) # Len(stagedValues)
            THEN pc' = "releasing" /\ left' = objects'
            ELSE /\ pc' = IF v.uploaded = <<>> THEN "marker" ELSE "commit"
                 /\ UNCHANGED left

\* Mutant: files that no runtime can upload are awaited like the others.
FinishTurn_NoRuntimeUnchecked(u, C, current) ==
    LET v == Advance(u, C, current)
    IN  /\ C \subseteq Collectable(u)
        /\ \/ /\ v.failed
              /\ up' = Abandon(Check(v))
              /\ pc' = "remove"
              /\ UNCHANGED <<objects, left>>
           \/ /\ ~v.failed /\ (v.running # {} \/ v.waiting # <<>>)
              /\ up' = v
              /\ pc' = "finish"
              /\ UNCHANGED <<objects, left>>
           \/ /\ ~v.failed /\ v.running = {} /\ v.waiting = <<>>
              /\ HandOver(v)
        /\ Spawn
        /\ UNCHANGED <<sinkVars, object, registered, cleaner, excused>>

\* One turn of StagedUploads::finish.
FinishTurn(u, C, current) ==
    LET v        == Advance(u, C, current)
        noUpload == v.running = {} /\ v.waiting # <<>>
    IN  /\ C \subseteq Collectable(u)
        /\ \/ /\ v.failed \/ noUpload
              /\ up' = Abandon(Check([v EXCEPT !.failed = TRUE]))
              /\ pc' = "remove"
              /\ UNCHANGED <<objects, left>>
           \/ /\ ~v.failed /\ v.running # {}
              /\ up' = v
              /\ pc' = "finish"
              /\ UNCHANGED <<objects, left>>
           \/ /\ ~v.failed /\ v.running = {} /\ v.waiting = <<>>
              /\ HandOver(v)
        /\ Spawn
        /\ UNCHANGED <<sinkVars, object, registered, cleaner, excused>>

FinishStarts(C, current) ==
    pc = "finishing" /\ handing = <<>> /\ FinishTurn(up, C, current)

FinishAwaits(p, C, current) ==
    pc = "finish" /\ p \in Collectable(up) /\ FinishTurn(Record(up, {p}), C, current)

Abort ==
    /\ pc \in {"open", "erred"}
    /\ open' = <<>>
    /\ up' = Abandon(up)
    /\ pc' = "remove"
    /\ UNCHANGED <<handing, stagedValues, task, object, registered, removalVars>>

-----------------------------------------------------------------------------
\* remove_started, within abort or a failed finish: it awaits the uploads in
\* flight, then removes every object started.
RemoveAwaits(p) ==
    /\ pc = "remove" /\ p \in Collectable(up)
    /\ up' = [up EXCEPT !.running = @ \ {p}]
    /\ UNCHANGED <<sinkVars, task, object, registered, removalVars, pc>>

RemoveStarts ==
    /\ pc = "remove" /\ up.running = {}
    /\ left' = up.started
    /\ pc' = "removing"
    /\ UNCHANGED <<sinkVars, up, task, object, objects, cleaner, registered, excused>>

\* remove_objects deletes one of its objects, or fails to.  The caller is the
\* session, or the task Drop spawned once the uploads it awaits have ended.
RemoveObject(p) ==
    /\ p \in left
    /\ cleaner = {}
    /\ left' = left \ {p}
    /\ \/ object' = object \ {p} /\ UNCHANGED excused
       \/ UNCHANGED object /\ excused' = excused \cup {p}
    /\ UNCHANGED <<sinkVars, up, task, objects, cleaner, registered, pc>>

RemoveEnds ==
    /\ pc = "removing" /\ left = {}
    /\ up' = [up EXCEPT !.started = {}, !.settled = TRUE]
    /\ pc' = "gone"
    /\ UNCHANGED <<sinkVars, task, object, registered, removalVars>>

-----------------------------------------------------------------------------
\* The commit of the files handed over.

Handed == IF stagedValues = <<>> THEN <<[file |-> Marker, part |-> None]>>
          ELSE [i \in 1 .. Len(up.uploaded) |->
                   [file |-> up.uploaded[i], part |-> stagedValues[i]]]

\* A write of no rows: upload_staged uploads the marker file.
MarkerUploaded ==
    /\ pc = "marker"
    /\ object' = object \cup {Marker}
    /\ objects' = {Marker}
    /\ pc' = "commit"
    /\ UNCHANGED <<sinkVars, up, task, left, cleaner, registered, excused>>

MarkerFails ==
    /\ pc = "marker"
    /\ object' \in {object, object \cup {Marker}}
    /\ left' = {Marker}
    /\ pc' = "releasing"
    /\ UNCHANGED <<sinkVars, up, task, objects, cleaner, registered, excused>>

Committed ==
    /\ pc = "commit"
    /\ registered' = Handed
    /\ pc' = "gone"
    /\ UNCHANGED <<sinkVars, up, task, object, removalVars>>

\* commit_definitely_rolled_back: a refused commit's objects are removed, and
\* those of a COMMIT whose outcome is unknown kept (release_after_failed_commit).
Refused ==
    /\ pc = "commit"
    /\ left' = objects
    /\ pc' = "releasing"
    /\ UNCHANGED <<sinkVars, up, task, object, objects, cleaner, registered, excused>>

\* Mutant: the objects of a commit whose outcome is unknown are removed.
OutcomeUnknown_Removed ==
    /\ pc = "commit"
    /\ registered' \in {Handed, <<>>}
    /\ left' = objects
    /\ pc' = "releasing"
    /\ UNCHANGED <<sinkVars, up, task, object, objects, cleaner, excused>>

OutcomeUnknown ==
    /\ pc = "commit"
    /\ registered' \in {Handed, <<>>}
    /\ excused' = excused \cup objects
    /\ pc' = "gone"
    /\ UNCHANGED <<sinkVars, up, task, object, objects, left, cleaner>>

ReleaseEnds ==
    /\ pc = "releasing" /\ left = {}
    /\ pc' = "gone"
    /\ UNCHANGED <<sinkVars, up, task, object, registered, removalVars>>

-----------------------------------------------------------------------------
\* Mutant: the cleanup does not await the uploads in flight.
Dropped_NotAwaiting ==
    /\ pc \in {"open", "erred", "finish", "remove", "removing"}
    /\ pc' = "gone"
    /\ open' = <<>>
    /\ up' = [up EXCEPT !.waiting = <<>>, !.running = {}, !.started = {}]
    /\ cleaner' = {}
    /\ left' = IF ~up.settled /\ up.runtime THEN up.started ELSE {}
    /\ UNCHANGED <<handing, stagedValues, task, object, objects, registered, excused>>

\* Mutant: the cleanup also awaits the files whose upload never started.
Dropped_AwaitingAll ==
    /\ pc \in {"open", "erred", "finish", "remove", "removing"}
    /\ pc' = "gone"
    /\ open' = <<>>
    /\ up' = [up EXCEPT !.waiting = <<>>, !.running = {}, !.started = {}]
    /\ cleaner' = up.running \cup Range(up.waiting)
    /\ left' = IF ~up.settled /\ up.runtime THEN up.started ELSE {}
    /\ UNCHANGED <<handing, stagedValues, task, object, objects, registered, excused>>

\* The session is dropped, on its own or with the future that owns it.  Drop
\* hands what it has not settled to a task on the uploads' runtime; nobody goes
\* on with a removal the session had taken over from the uploads, or with the
\* marker's upload.
Dropped ==
    LET cleans == ~up.settled /\ up.started # {} /\ up.runtime
    IN  /\ pc \in {"open", "erred", "finish", "remove", "removing", "marker",
                   "releasing"}
        /\ pc' = "gone"
        /\ open' = <<>>
        /\ up' = [up EXCEPT !.waiting = <<>>, !.running = {}, !.started = {}]
        /\ cleaner' = IF cleans THEN up.running ELSE {}
        /\ left' = IF cleans THEN up.started ELSE {}
        /\ object' \in {object} \cup (IF pc = "marker" THEN {object \cup {Marker}} ELSE {})
        /\ excused' = excused \cup (IF pc = "releasing" THEN left ELSE {})
                              \cup (IF pc = "marker" THEN {Marker} ELSE {})
        /\ UNCHANGED <<handing, stagedValues, task, objects, registered>>

\* The task Drop spawned awaits the uploads in flight.
CleanerAwaits(p) ==
    /\ p \in cleaner \cap Ended
    /\ cleaner' = cleaner \ {p}
    /\ UNCHANGED <<sinkVars, up, task, object, objects, left, registered, excused, pc>>

\* upload_staged_file ends.  One that fails at its last request may have created
\* its object.
UploadEnds(p) ==
    /\ task[p] = "running"
    /\ \/ task' = [task EXCEPT ![p] = "ok"] /\ object' = object \cup {p}
       \/ task' = [task EXCEPT ![p] = "failed"] /\ object' \in {object, object \cup {p}}
    /\ UNCHANGED <<sinkVars, up, registered, removalVars, pc>>

-----------------------------------------------------------------------------
\* The session's own steps, once a call is made.
Calls ==
    \/ \E C \in SUBSET File, current \in BOOLEAN :
           \/ Stage(C, current) \/ WriteReturns(C, current) \/ FinishStarts(C, current)
           \/ \E p \in File : RoomAwaits(p, C, current) \/ FinishAwaits(p, C, current)
    \/ FinalizeFails
    \/ \E p \in File : RemoveAwaits(p)
    \/ RemoveStarts \/ RemoveEnds \/ ReleaseEnds
    \/ MarkerUploaded \/ MarkerFails
    \/ Committed \/ Refused \/ OutcomeUnknown

Cleaning == \E p \in File \cup {Marker} : CleanerAwaits(p) \/ RemoveObject(p)

Next ==
    \/ \E part \in Partitions, rolls \in BOOLEAN : WriteBatch(part, rolls)
    \/ \E C \in SUBSET File, current \in BOOLEAN : WaitForRoom(C, current)
    \/ Finish \/ Abort \/ CancelRoom \/ Dropped
    \/ Calls
    \/ Cleaning
    \/ \E p \in File : UploadEnds(p)

\* The runtime runs its tasks, an upload's requests end (the object store's
\* retries are bounded), and a caller awaits or drops the future it holds.
Fairness ==
    /\ \A p \in File : WF_vars(UploadEnds(p))
    /\ WF_vars(Calls)
    /\ WF_vars(Cleaning)

Spec == Init /\ [][Next]_vars /\ Fairness
=============================================================================
