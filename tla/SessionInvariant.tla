-------------------------- MODULE SessionInvariant --------------------------
(***************************************************************************)
(* The inductive invariant of a streaming write: who answers for each      *)
(* object between its upload and the end of the session.                   *)
(***************************************************************************)
EXTENDS SessionProperties

Object == File \cup {Marker}

Uploads == [waiting : Seq(File), running : SUBSET File, uploaded : Seq(File \cup {None}),
            started : SUBSET File, failure : BOOLEAN, failed : BOOLEAN,
            runtime : BOOLEAN, settled : BOOLEAN]

TaskStates == {"none", "running", "ok", "failed"}

TypeInv ==
    /\ open \in Seq(Partitions) /\ handing \in Seq(Partitions)
    /\ stagedValues \in Seq(Partitions)
    /\ up \in Uploads
    /\ task \in [File -> TaskStates]
    /\ object \subseteq Object /\ objects \subseteq Object /\ left \subseteq Object
    /\ excused \subseteq Object /\ cleaner \subseteq File
    /\ pc \in {"open", "writing", "room", "finishing", "finish", "erred", "remove", "removing",
               "marker", "commit", "releasing", "gone"}

\* The calls during which the session still holds its uploads.
Holding == pc \in {"open", "writing", "room", "finishing", "finish", "erred", "remove"}

\* A finished file waits for its turn, is uploaded, or has been: a result is stored
\* at the file's own position, and what was started is remembered until it is
\* settled.  u and t are the uploads and the tasks.
UploadsOK(u, t) ==
    /\ u \in Uploads
    /\ Len(u.uploaded) <= MaxFiles
    /\ \A i \in 1 .. Len(u.uploaded) : /\ u.uploaded[i] \in {None, i}
                                       /\ u.uploaded[i] = i => t[i] = "ok"
    /\ \A j \in 1 .. Len(u.waiting) : /\ u.waiting[j] <= Len(u.uploaded)
                                      /\ t[u.waiting[j]] = "none"
    /\ \A i, j \in 1 .. Len(u.waiting) : i # j => u.waiting[i] # u.waiting[j]
    /\ \A p \in File : t[p] # "none" => p <= Len(u.uploaded)
    /\ \A p \in u.running : p \in u.started
    /\ \A p \in u.started : t[p] # "none"
    /\ u.started # {} => u.runtime
    /\ Cardinality(u.running) <= Concurrency

\* The uploads know of exactly the files staged.
UploadInv ==
    /\ UploadsOK(up, task)
    /\ Len(up.uploaded) = Len(stagedValues)
    /\ Len(stagedValues) + Len(handing) + Len(open) <= MaxFiles

\* The tasks that run are those the session or Drop's cleaner awaits.
TaskInv ==
    /\ \A p \in File : task[p] = "running" => p \in up.running \cup cleaner
    /\ Cardinality(cleaner) <= Concurrency
    /\ cleaner # {} => pc = "gone"
    /\ up.running # {} => Holding
    /\ cleaner \subseteq left

\* Where the caller is tells what it still has in hand.
CallInv ==
    /\ handing # <<>> => pc \in {"writing", "finishing"}
    /\ pc \notin {"open", "writing", "room", "erred"} => open = <<>>
    /\ left # {} => pc \in {"removing", "releasing", "gone"}
    /\ up.settled => pc \in {"marker", "commit", "releasing", "gone"} /\ up.started = {}
    /\ pc \in {"marker", "commit", "releasing"} => up.settled
    /\ pc = "marker" => stagedValues = <<>> /\ object = {}
    /\ pc = "commit" => /\ stagedValues = <<>> <=> Marker \in object
                        /\ \A i \in 1 .. Len(up.uploaded) : up.uploaded[i] = i /\ i \in object
    /\ registered # <<>> => pc = "gone" /\ left = {}

\* Every object in the store is registered, excused, or in the hands of whoever
\* has to remove it or to register it.
ObjectInv ==
    /\ \A p \in File : p \in object => task[p] \in {"ok", "failed"}
    /\ Holding => \A p \in File : task[p] # "none" => p \in up.started
    /\ Holding => Marker \notin object
    /\ Holding => \A p \in File : task[p] = "ok" => p \in object
    /\ pc = "removing" => object \subseteq up.started /\ object \subseteq left \cup excused
    /\ pc = "commit" => object \subseteq objects
    /\ pc = "releasing" => object \subseteq left \cup excused
    /\ pc = "gone" => object \subseteq left \cup {r.file : r \in Range(registered)} \cup excused

IInv == TypeInv /\ UploadInv /\ TaskInv /\ CallInv /\ ObjectInv /\ RegisteredWhole
=============================================================================
