-------------------------- MODULE SessionProperties --------------------------
(***************************************************************************)
(* What a streaming write must keep true of its files and objects.         *)
(***************************************************************************)
EXTENDS WriteSession

\* The session is over and nothing works on its objects any more.
Quiet == pc = "gone" /\ left = {} /\ cleaner = {}

\* A commit registers every file written, in write order, each under the
\* partition whose rows it holds and each with its object in place, although the
\* uploads end in any order (record, finish, finish_uploads); and no removal
\* ever touches a registered object.
RegisteredWhole ==
    registered # <<>> =>
        /\ open = <<>>
        /\ \/ registered = [i \in 1 .. Len(stagedValues) |->
                               [file |-> i, part |-> stagedValues[i]]]
           \/ stagedValues = <<>> /\ registered = <<[file |-> Marker, part |-> None]>>
        /\ {r.file : r \in Range(registered)} \subseteq object

\* "A session dropped or aborted without finishing removes its staging files and
\* every object it uploaded, and so does a finish() that fails with nothing
\* committed" (table_writer.rs): once everything is quiet, an object is left
\* behind only if it is registered, its removal failed, the commit's outcome is
\* unknown, or the caller dropped the future that was removing it.
NothingLeftBehind ==
    Quiet => object \subseteq {r.file : r \in Range(registered)} \cup excused

\* At most upload_concurrency uploads run at once, those a dropped session left
\* in flight included.
UploadsBounded ==
    Cardinality({p \in File : task[p] = "running"}) <= Concurrency

\* A write_batch_async that succeeds on a runtime leaves at most
\* upload_concurrency finished files on local disk: no file waits.
RoomIsMade ==
    [][(\E p \in File, C \in SUBSET File, current \in BOOLEAN :
            WaitForRoom(C, current) \/ RoomAwaits(p, C, current))
       /\ pc' = "open" /\ up'.runtime => up'.waiting = <<>>]_vars

\* Every call on the session returns (write_batch_async, finish, abort), one made
\* with no runtime to upload on included: the caller never waits for an upload
\* that was not started.
CallsReturn == pc \notin {"open", "erred", "gone"} ~> pc \in {"open", "erred", "gone"}

\* Once the session is gone the task that Drop spawned comes to its end, however
\* many uploads were in flight or waiting.
CleanupEnds == pc = "gone" ~> Quiet
=============================================================================
