---------------------------- MODULE SessionProofs ----------------------------
(***************************************************************************)
(* Proofs about one streaming write.  First the steps while it takes rows: *)
(* what the uploads keep when they are queued, started and recorded, and   *)
(* the writer's calls until finish returns.  Then the other steps, that    *)
(* the invariant is inductive, and what it gives for the files registered, *)
(* the objects left behind and the uploads in flight.                      *)
(***************************************************************************)
EXTENDS SessionInvariant, FiniteSetTheorems, TLAPS

\* A leaf may take its time: the provers get more than their default.
USE SMTT(30), ZenonT(30)

\* Sets of files are finite: a session hands over at most MaxFiles.
LEMMA FilesFinite ==
    ASSUME NEW S \in SUBSET File
    PROVE  IsFiniteSet(S) /\ Cardinality(S) \in Nat
<1>1. IsFiniteSet(File)
  BY FS_Interval, SessionAssumption DEF File
<1> QED
  BY <1>1, FS_Subset, FS_CardinalityType, Zenon

\* The batch start_waiting takes off the queue: the first n files, so at most n.
LEMMA BatchSize ==
    ASSUME NEW w \in Seq(File), NEW n \in 0 .. Len(w)
    PROVE  /\ Range(SubSeq(w, 1, n)) = {w[j] : j \in 1 .. n}
           /\ Range(SubSeq(w, 1, n)) \in SUBSET File
           /\ Cardinality(Range(SubSeq(w, 1, n))) <= n
<1> DEFINE s == SubSeq(w, 1, n)
<1>1. s \in Seq(File) /\ DOMAIN s = 1 .. n /\ \A j \in 1 .. n : s[j] = w[j]
  OBVIOUS
<1>2. Range(s) = {w[j] : j \in 1 .. n}
  <2> HIDE DEF s
  <2> QED BY <1>1, Zenon DEF Range
<1>3. \A j \in 1 .. n : w[j] \in File
  OBVIOUS
<1> DEFINE f == [j \in 1 .. n |-> w[j]]
           B == {w[j] : j \in 1 .. n}
<1>4. f \in Surjection(1 .. n, B)
  BY Zenon DEF Surjection
<1>5. IsFiniteSet(1 .. n) /\ Cardinality(1 .. n) = n
  BY FS_Interval
<1>6. Cardinality(B) <= n
  <2> HIDE DEF f, B
  <2> QED BY <1>4, <1>5, FS_Surjection
<1> QED
  BY <1>2, <1>3, <1>6, Zenon

\* Tasks as an upload's start leaves them.
Spawned(t, fresh) == [p \in File |-> IF p \in fresh THEN "running" ELSE t[p]]

\* record keeps the uploads in order: it only stores results at their own
\* positions and takes uploads that ended off the running ones.
LEMMA RecordOK ==
    ASSUME NEW u, UploadsOK(u, task), task \in [File -> TaskStates],
           NEW C \in SUBSET (u.running \cap Ended), NEW v, v = Record(u, C)
    PROVE  /\ UploadsOK(v, task)
           /\ v.waiting = u.waiting /\ v.started = u.started /\ v.running = u.running \ C
           /\ Len(v.uploaded) = Len(u.uploaded) /\ v.settled = u.settled
           /\ v.runtime = u.runtime /\ DOMAIN v = DOMAIN u
<1> DEFINE bad == {p \in C : task[p] = "failed"}
           f == [p \in DOMAIN u.uploaded |-> IF p \in C \ bad THEN p ELSE u.uploaded[p]]
<1>1. u \in Uploads /\ C \subseteq File
  BY Zenon DEF UploadsOK, Uploads
<1>2. /\ v.waiting = u.waiting /\ v.started = u.started /\ v.running = u.running \ C
      /\ v.settled = u.settled /\ v.runtime = u.runtime /\ v.uploaded = f
      /\ v.failed \in BOOLEAN /\ v.failure \in BOOLEAN
  BY <1>1, Zenon DEF Record, Uploads
<1>3. DOMAIN u.uploaded = 1 .. Len(u.uploaded) /\ Len(u.uploaded) \in Nat
  BY <1>1 DEF Uploads
<1>4. \A i \in 1 .. Len(u.uploaded) : /\ f[i] \in {None, i} /\ f[i] \in File \cup {None}
                                      /\ f[i] = i => task[i] = "ok"
  BY <1>1, <1>3 DEF UploadsOK, Ended, Uploads, File
<1>5. f \in Seq(File \cup {None}) /\ Len(f) = Len(u.uploaded)
  <2>1. f \in [1 .. Len(u.uploaded) -> File \cup {None}]
    BY <1>3, <1>4, Zenon
  <2> HIDE DEF f
  <2> QED BY <2>1, <1>3
<1> HIDE DEF f
<1>6. v \in Uploads
  BY <1>1, <1>2, <1>5, ZenonT(60) DEF Record, Uploads
<1>7. Cardinality(v.running) <= Concurrency
  <2>1. u.running \in SUBSET File /\ v.running \in SUBSET u.running
    BY <1>1, <1>2, Zenon DEF Uploads
  <2>2. IsFiniteSet(u.running) /\ Cardinality(u.running) \in Nat /\ Cardinality(v.running) \in Nat
    BY <2>1, FilesFinite, Zenon
  <2>3. Cardinality(v.running) <= Cardinality(u.running)
    BY <2>1, <2>2, FS_Subset, Zenon
  <2> QED
    BY <2>2, <2>3, SessionAssumption DEF UploadsOK
<1> QED
  BY <1>1, <1>2, <1>4, <1>5, <1>6, <1>7 DEF UploadsOK, Uploads

\* add queues the next file, which no task knows of yet.
LEMMA QueueOK ==
    ASSUME NEW u, UploadsOK(u, task), task \in [File -> TaskStates],
           Len(u.uploaded) < MaxFiles, NEW v, v = Queue(u)
    PROVE  /\ UploadsOK(v, task)
           /\ v.started = u.started /\ v.running = u.running
           /\ Len(v.uploaded) = Len(u.uploaded) + 1 /\ v.settled = u.settled
           /\ v.runtime = u.runtime
<1> DEFINE n == Len(u.uploaded) + 1
<1>1. u \in Uploads /\ n \in File /\ Len(u.uploaded) \in Nat
  BY SessionAssumption DEF UploadsOK, Uploads, File
<1>2. /\ v.waiting = Append(u.waiting, n) /\ v.started = u.started /\ v.running = u.running
      /\ v.settled = u.settled /\ v.runtime = u.runtime
      /\ v.uploaded = Append(u.uploaded, None)
      /\ v \in Uploads
  <2> DEFINE a == Append(u.waiting, n)
             b == Append(u.uploaded, None)
  <2>1. a \in Seq(File) /\ b \in Seq(File \cup {None})
    BY <1>1 DEF Uploads
  <2>2. v = [u EXCEPT !.waiting = a, !.uploaded = b]
    BY Zenon DEF Queue
  <2> HIDE DEF a, b
  <2>3. /\ v.waiting = a /\ v.started = u.started /\ v.running = u.running
        /\ v.settled = u.settled /\ v.runtime = u.runtime /\ v.uploaded = b /\ v \in Uploads
    BY <1>1, <2>1, <2>2, Zenon DEF Uploads
  <2> QED
    BY <2>3, Zenon DEF a, b
<1>3. task[n] = "none"
  BY <1>1 DEF UploadsOK
<1>4. \A i \in 1 .. Len(v.uploaded) :
          v.uploaded[i] \in {None, i} /\ (v.uploaded[i] = i => task[i] = "ok")
  BY <1>1, <1>2 DEF UploadsOK, Uploads, None
<1>5. /\ \A j \in 1 .. Len(v.waiting) : /\ v.waiting[j] <= Len(v.uploaded)
                                        /\ task[v.waiting[j]] = "none"
      /\ \A i, j \in 1 .. Len(v.waiting) : i # j => v.waiting[i] # v.waiting[j]
  <2> DEFINE w == u.waiting
  <2>1. w \in Seq(File) /\ Len(v.uploaded) = n /\ v.waiting = Append(w, n)
    BY <1>1, <1>2 DEF Uploads
  <2>2. \A j \in 1 .. Len(w) : w[j] <= Len(u.uploaded) /\ task[w[j]] = "none"
    BY Zenon DEF UploadsOK
  <2>4. \A i, j \in 1 .. Len(w) : i # j => w[i] # w[j]
    BY Zenon DEF UploadsOK
  <2> HIDE DEF w
  <2>3. \A j \in 1 .. Len(w) : w[j] \in File /\ w[j] < n
    <3>1. \A j \in 1 .. Len(w) : w[j] \in File
      BY <2>1
    <3> QED
      BY <1>1, <2>2, <3>1 DEF File
  <2>5. Len(v.waiting) = Len(w) + 1 /\ Len(w) \in Nat /\ v.waiting[Len(w) + 1] = n
        /\ \A j \in 1 .. Len(w) : v.waiting[j] = w[j]
    BY <1>1, <2>1
  <2>6. \A j \in 1 .. Len(v.waiting) : j = Len(w) + 1 \/ j \in 1 .. Len(w)
    BY <2>5
  <2> QED
    BY <1>1, <1>3, <2>1, <2>2, <2>3, <2>4, <2>5, <2>6 DEF File
<1>6. Len(v.uploaded) = n /\ n <= MaxFiles /\ \A p \in File : task[p] # "none" => p <= n
  BY <1>1, <1>2 DEF UploadsOK, Uploads, File
<1> QED
  BY <1>2, <1>4, <1>5, <1>6 DEF UploadsOK

\* What start_waiting leaves waiting once it has taken the first n.
LEMMA RestOfQueue ==
    ASSUME NEW w \in Seq(File), NEW n \in 0 .. Len(w)
    PROVE  LET rest == SubSeq(w, n + 1, Len(w))
           IN  /\ rest \in Seq(File) /\ Len(rest) = Len(w) - n
               /\ \A j \in 1 .. Len(rest) : rest[j] = w[j + n] /\ j + n \in 1 .. Len(w)
OBVIOUS

\* start_waiting starts files that waited, as many as there is room for, and leaves
\* no file waiting when nothing runs although a runtime is there.
LEMMA StartOK ==
    ASSUME NEW u, UploadsOK(u, task), task \in [File -> TaskStates],
           NEW current \in BOOLEAN, NEW v, v = StartWaiting(u, current),
           NEW t, t = Spawned(task, v.started \ u.started)
    PROVE  /\ UploadsOK(v, t) /\ t \in [File -> TaskStates]
           /\ u.started \subseteq v.started /\ u.running \subseteq v.running
           /\ v.uploaded = u.uploaded /\ v.settled = u.settled
           /\ \A p \in File : t[p] # task[p] => /\ p \in v.running /\ p \in v.started
                                                /\ task[p] = "none" /\ t[p] = "running"
           /\ v.started = u.started \/ v.running # {}
           /\ ~v.failed /\ v.runtime /\ v.running = {} => v.waiting = <<>>
<1> DEFINE room == Concurrency - Cardinality(u.running)
           n == IF Len(u.waiting) < room THEN Len(u.waiting) ELSE room
           w == u.waiting
           B == {w[j] : j \in 1 .. n}
           rest == SubSeq(w, n + 1, Len(w))
<1>1. /\ u \in Uploads /\ w \in Seq(File) /\ Len(w) \in Nat /\ u.running \in SUBSET File
      /\ Cardinality(u.running) \in Nat /\ IsFiniteSet(u.running)
  BY FilesFinite DEF UploadsOK, Uploads
<1>2. n \in 0 .. Len(w) /\ n <= room /\ room \in Nat /\ (n = 0 => Len(w) = 0 \/ room = 0)
  BY <1>1, SessionAssumption DEF UploadsOK
<1>3. Range(SubSeq(w, 1, n)) = B /\ B \in SUBSET File /\ Cardinality(B) <= n
  BY <1>1, <1>2, BatchSize, Zenon
<1> HIDE DEF room, n, w
<1>4. CASE u.failed \/ ~(u.runtime \/ current)
  <2>1. v = u
    BY <1>4, Zenon DEF StartWaiting
  <2>2. t = task
    BY <2>1, Zenon DEF Spawned
  <2>3. ~v.failed => ~v.runtime
    BY <1>1, <1>4, <2>1, Zenon DEF Uploads
  <2> QED
    BY <2>1, <2>2, <2>3, Zenon
<1>5. CASE ~u.failed /\ (u.runtime \/ current)
  <2>1. v = [u EXCEPT !.runtime = TRUE, !.waiting = rest,
                      !.running = u.running \cup B, !.started = u.started \cup B]
    BY <1>1, <1>3, <1>5, Zenon DEF StartWaiting, Uploads, room, n, w
  <2>2. /\ rest \in Seq(File) /\ Len(rest) = Len(w) - n
        /\ \A j \in 1 .. Len(rest) : rest[j] = w[j + n] /\ j + n \in 1 .. Len(w)
    BY <1>1, <1>2, RestOfQueue, Zenon
  <2>3. /\ \A j \in 1 .. Len(w) : w[j] <= Len(u.uploaded) /\ task[w[j]] = "none"
        /\ \A i, j \in 1 .. Len(w) : i # j => w[i] # w[j]
    BY Zenon DEF UploadsOK, w
  <2>4. /\ v.uploaded = u.uploaded /\ v.settled = u.settled /\ v.waiting = rest /\ v.runtime
        /\ v.running = u.running \cup B /\ v.started = u.started \cup B /\ v.failed = u.failed
        /\ v \in Uploads
    <3> DEFINE R == u.running \cup B
               S == u.started \cup B
    <3>1. R \in SUBSET File /\ S \in SUBSET File /\ rest \in Seq(File)
      BY <1>1, <1>3, <2>2, Zenon DEF Uploads
    <3>2. v = [u EXCEPT !.runtime = TRUE, !.waiting = rest, !.running = R, !.started = S]
      BY <2>1, Zenon
    <3> HIDE DEF rest, R, S
    <3>3. /\ v.uploaded = u.uploaded /\ v.settled = u.settled /\ v.waiting = rest /\ v.runtime
          /\ v.running = R /\ v.started = S /\ v.failed = u.failed
      BY <1>1, <3>2, Zenon DEF Uploads
    <3>4. v \in Uploads
      BY <1>1, <3>1, <3>2, Zenon DEF Uploads
    <3> QED
      BY <3>3, <3>4, Zenon DEF R, S
  <2>5. \A p \in B : task[p] = "none" /\ p <= Len(u.uploaded) /\ p \in File
    BY <1>1, <1>2, <1>3, <2>3
  <2>6. B \cap u.started = {}
    BY <2>5, Zenon DEF UploadsOK
  <2>7. \A j \in 1 .. Len(rest) : rest[j] \notin B
    <3> SUFFICES ASSUME NEW j \in 1 .. Len(rest), NEW i \in 1 .. n, rest[j] = w[i] PROVE FALSE
      BY Zenon
    <3>1. j + n \in 1 .. Len(w) /\ rest[j] = w[j + n]
      BY <2>2, Zenon
    <3> HIDE DEF rest
    <3>2. n \in Nat /\ n <= Len(w) /\ Len(w) \in Nat /\ Len(rest) \in Nat
      BY <1>1, <1>2, <2>2
    <3>3. i \in 1 .. Len(w) /\ i # j + n
      BY <3>2
    <3> QED
      BY <2>3, <3>1, <3>3, Zenon
  <2>8. Cardinality(v.running) <= Concurrency
    <3>0. room = Concurrency - Cardinality(u.running)
      BY Zenon DEF room
    <3>1. IsFiniteSet(B) /\ Cardinality(B) \in Nat /\ Cardinality(u.running \cap B) \in Nat
      BY <1>1, <1>3, FilesFinite, Zenon
    <3>2. Cardinality(u.running \cup B)
            = Cardinality(u.running) + Cardinality(B) - Cardinality(u.running \cap B)
      BY <1>1, <3>1, FS_Union, Zenon
    <3> QED
      BY <1>1, <1>2, <1>3, <2>4, <3>0, <3>1, <3>2, SessionAssumption
  <2>9. v.running = {} => rest = <<>>
    <3> SUFFICES ASSUME v.running = {} PROVE Len(rest) = 0
      BY <2>2
    <3>1. B = {} /\ u.running = {}
      BY <2>4, Zenon
    <3>2. n = 0
      <4>1. n # 0 => 1 \in 1 .. n
        BY <1>2
      <4> QED
        BY <3>1, <4>1, <1>2, Zenon
    <3>3. room # 0
      BY <3>1, FS_EmptySet, SessionAssumption DEF room
    <3> QED
      BY <1>2, <2>2, <3>2, <3>3
  <2> HIDE DEF rest, B
  <2>10. t = [p \in File |-> IF p \in B THEN "running" ELSE task[p]]
    BY <2>4, <2>6, Zenon DEF Spawned
  <2>11. t \in [File -> TaskStates] /\ \A p \in File : t[p] = IF p \in B THEN "running" ELSE task[p]
    BY <2>10, Zenon DEF TaskStates
  <2>12. \A j \in 1 .. Len(rest) : rest[j] <= Len(u.uploaded) /\ t[rest[j]] = "none"
    <3>1. \A j \in 1 .. Len(rest) : rest[j] \in File
      BY <2>2
    <3> QED
      <4> SUFFICES ASSUME NEW j \in 1 .. Len(rest)
                   PROVE  rest[j] <= Len(u.uploaded) /\ t[rest[j]] = "none"
        BY Zenon
      <4>1. t[rest[j]] = task[rest[j]]
        BY <2>7, <2>11, <3>1, Zenon
      <4>2. rest[j] = w[j + n] /\ j + n \in 1 .. Len(w)
        BY <2>2, Zenon
      <4> QED
        BY <2>3, <4>1, <4>2, Zenon
  <2>13. \A i, j \in 1 .. Len(rest) : i # j => rest[i] # rest[j]
    <3> SUFFICES ASSUME NEW i \in 1 .. Len(rest), NEW j \in 1 .. Len(rest), i # j
                 PROVE  rest[i] # rest[j]
      BY Zenon
    <3>1. i + n # j + n
      BY <1>2, <2>2
    <3>2. /\ rest[i] = w[i + n] /\ i + n \in 1 .. Len(w)
          /\ rest[j] = w[j + n] /\ j + n \in 1 .. Len(w)
      BY <2>2, Zenon
    <3> QED
      BY <2>3, <3>1, <3>2, Zenon
  <2>14. \A i \in 1 .. Len(u.uploaded) : /\ u.uploaded[i] \in {None, i}
                                         /\ u.uploaded[i] = i => t[i] = "ok"
    <3>1. /\ \A i \in 1 .. Len(u.uploaded) : /\ u.uploaded[i] \in {None, i}
                                             /\ u.uploaded[i] = i => task[i] = "ok"
          /\ Len(u.uploaded) \in Nat /\ Len(u.uploaded) <= MaxFiles
      BY <1>1 DEF UploadsOK, Uploads
    <3>2. 1 .. Len(u.uploaded) \subseteq File
      BY <3>1, SessionAssumption DEF File
    <3> QED
      BY <2>5, <2>11, <3>1, <3>2, Zenon
  <2>15. UploadsOK(v, t)
    <3>1. /\ \A p \in File : task[p] # "none" => p <= Len(u.uploaded)
          /\ \A p \in u.running : p \in u.started
          /\ \A p \in u.started : task[p] # "none"
          /\ Len(u.uploaded) <= MaxFiles /\ u.started \in SUBSET File
      BY <1>1, Zenon DEF UploadsOK, Uploads
    <3>2. \A p \in File : t[p] # "none" => p <= Len(v.uploaded)
      BY <2>4, <2>5, <2>11, <3>1, Zenon
    <3>3. \A p \in v.running : p \in v.started
      BY <2>4, <3>1, Zenon
    <3>4. \A p \in v.started : t[p] # "none"
      BY <1>3, <2>4, <2>11, <3>1, Zenon
    <3>0. v.waiting = rest /\ v.uploaded = u.uploaded
      BY <2>4, Zenon
    <3>5. \A j \in 1 .. Len(v.waiting) : v.waiting[j] <= Len(v.uploaded) /\ t[v.waiting[j]] = "none"
      BY <3>0, <2>12, Zenon
    <3>6. \A i, j \in 1 .. Len(v.waiting) : i # j => v.waiting[i] # v.waiting[j]
      BY <3>0, <2>13, Zenon
    <3>7. \A i \in 1 .. Len(v.uploaded) : /\ v.uploaded[i] \in {None, i}
                                          /\ v.uploaded[i] = i => t[i] = "ok"
      BY <3>0, <2>14, Zenon
    <3> QED
      BY <2>4, <2>8, <3>1, <3>2, <3>3, <3>4, <3>5, <3>6, <3>7, Zenon DEF UploadsOK
  <2> QED
    BY <1>3, <2>4, <2>5, <2>6, <2>9, <2>11, <2>15, Zenon
<1> QED
  BY <1>1, <1>4, <1>5, Zenon DEF Uploads

\* What a step may do to the uploads u and the tasks while the session holds them,
\* leading to v and t.
Moved(u, v, t) ==
    /\ UploadsOK(v, t) /\ t \in [File -> TaskStates]
    /\ u.started \subseteq v.started
    /\ v.settled = u.settled
    /\ \A p \in File : t[p] # task[p] => /\ p \in v.running /\ p \in v.started
                                         /\ task[p] = "none" /\ t[p] = "running"
    /\ \A p \in u.running : task[p] = "running" => p \in v.running

\* advance collects results and starts uploads, and does no more than Moved says.
LEMMA AdvanceOK ==
    ASSUME NEW u, UploadsOK(u, task), task \in [File -> TaskStates],
           NEW C \in SUBSET (u.running \cap Ended),
           NEW current \in BOOLEAN, NEW v, v = Advance(u, C, current),
           NEW t, t = Spawned(task, v.started \ u.started)
    PROVE  /\ Moved(u, v, t)
           /\ Len(v.uploaded) = Len(u.uploaded)
           /\ v.started = u.started \/ v.running # {}
           /\ ~v.failed /\ v.runtime /\ v.running = {} => v.waiting = <<>>
<1> DEFINE r == Record(u, C)
<1>1. /\ UploadsOK(r, task) /\ r.started = u.started /\ r.running = u.running \ C
      /\ Len(r.uploaded) = Len(u.uploaded) /\ r.settled = u.settled
  BY RecordOK
<1>2. v = StartWaiting(r, current)
  BY Zenon DEF Advance
<1> HIDE DEF r
<1>3. \A p \in u.running : task[p] = "running" => p \in r.running
  BY <1>1, Zenon DEF Ended
<1>4. t = Spawned(task, v.started \ r.started)
  BY <1>1, Zenon
<1>5. /\ UploadsOK(v, t) /\ t \in [File -> TaskStates]
      /\ r.started \subseteq v.started /\ r.running \subseteq v.running
      /\ v.uploaded = r.uploaded /\ v.settled = r.settled
      /\ \A p \in File : t[p] # task[p] => /\ p \in v.running /\ p \in v.started
                                           /\ task[p] = "none" /\ t[p] = "running"
      /\ v.started = r.started \/ v.running # {}
      /\ ~v.failed /\ v.runtime /\ v.running = {} => v.waiting = <<>>
  BY <1>1, <1>2, <1>4, StartOK
<1> QED
  BY <1>1, <1>3, <1>5, Zenon DEF Moved

\* A step of the sink or of the uploads that leaves the objects alone keeps the
\* invariant.
LEMMA HoldingStep ==
    ASSUME IInv, Holding, Holding', Moved(up, up', task'),
           open' \in Seq(Partitions), handing' \in Seq(Partitions),
           stagedValues' \in Seq(Partitions),
           Len(up'.uploaded) = Len(stagedValues'),
           Len(stagedValues') + Len(handing') + Len(open') <= MaxFiles,
           handing' # <<>> => pc' \in {"writing", "finishing"},
           pc' \notin {"open", "writing", "room", "erred"} => open' = <<>>,
           UNCHANGED <<object, objects, left, cleaner, registered, excused>>
    PROVE  IInv'
<1>1. ~up.settled /\ left = {} /\ registered = <<>> /\ cleaner = {}
  BY Zenon DEF IInv, CallInv, TaskInv, Holding
<1>2. /\ UploadsOK(up', task') /\ task' \in [File -> TaskStates] /\ up.started \subseteq up'.started
      /\ up'.settled = up.settled
      /\ \A p \in File : task'[p] # task[p] => /\ p \in up'.running /\ p \in up'.started
                                               /\ task[p] = "none" /\ task'[p] = "running"
      /\ \A p \in up.running : task[p] = "running" => p \in up'.running
  BY Zenon DEF Moved
<1>3. TypeInv'
  BY <1>2, Zenon DEF IInv, TypeInv, UploadsOK, Holding, TaskStates
<1>4. UploadInv'
  BY <1>2, Zenon DEF UploadInv
<1>5. TaskInv'
  <2>1. \A p \in File : task'[p] = "running" => p \in up'.running
    BY <1>1, <1>2, Zenon DEF IInv, TaskInv
  <2> QED
    BY <1>1, <2>1, Zenon DEF IInv, TaskInv, Holding
<1>6. CallInv'
  BY <1>1, <1>2, Zenon DEF CallInv, Holding
<1>7. ObjectInv'
  <2>1. \A p \in File : p \in object => task'[p] \in {"ok", "failed"}
    BY <1>2, Zenon DEF IInv, ObjectInv
  <2>2. \A p \in File : task'[p] # "none" => p \in up'.started
    BY <1>2, Zenon DEF IInv, ObjectInv
  <2>3. \A p \in File : task'[p] = "ok" => p \in object
    BY <1>2, Zenon DEF IInv, ObjectInv
  <2> QED
    BY <2>1, <2>2, <2>3, Zenon DEF IInv, ObjectInv, Holding
<1>8. RegisteredWhole'
  BY <1>1, Zenon DEF RegisteredWhole
<1> QED
  BY <1>3, <1>4, <1>5, <1>6, <1>7, <1>8, Zenon DEF IInv

\* Uploads left alone have moved in this sense.
LEMMA Unmoved ==
    ASSUME IInv
    PROVE  Moved(up, up, task)
  BY Zenon DEF IInv, TypeInv, UploadInv, UploadsOK, Moved, TaskStates

\* Failure flags aside, w is v with its waiting files dropped or not.
LEMMA MovedLess ==
    ASSUME NEW u, NEW v, NEW t, Moved(u, v, t), NEW w \in Uploads,
           w.uploaded = v.uploaded, w.started = v.started, w.running = v.running,
           w.runtime = v.runtime, w.settled = v.settled, w.waiting \in {v.waiting, <<>>}
    PROVE  Moved(u, w, t)
<1>1. UploadsOK(v, t)
  BY Zenon DEF Moved
<1>2. UploadsOK(w, t)
  <2>1. /\ \A j \in 1 .. Len(w.waiting) : /\ w.waiting[j] <= Len(w.uploaded)
                                          /\ t[w.waiting[j]] = "none"
        /\ \A i, j \in 1 .. Len(w.waiting) : i # j => w.waiting[i] # w.waiting[j]
    <3>1. CASE w.waiting = v.waiting
      BY <1>1, <3>1 DEF UploadsOK
    <3>2. CASE w.waiting = <<>>
      BY <3>2
    <3> QED
      BY <3>1, <3>2, Zenon
  <2> QED
    BY <1>1, <2>1 DEF UploadsOK
<1> QED
  BY <1>2, Zenon DEF Moved

\* A turn that begins by recording a result has moved from where it began.
LEMMA MovedFrom ==
    ASSUME NEW u, NEW v, NEW t, Moved(u, v, t), u.started = up.started, u.settled = up.settled,
           \A q \in up.running : task[q] = "running" => q \in u.running
    PROVE  Moved(up, v, t)
  BY Zenon DEF Moved

\* write_batch takes rows: it may finish files, none of them staged yet.
LEMMA WriteBatchStep ==
    ASSUME IInv, NEW part \in Partitions, NEW rolls \in BOOLEAN, WriteBatch(part, rolls)
    PROVE  IInv'
<1> DEFINE evicts == part \notin Range(open) /\ Len(open) >= MaxOpen
           kept   == IF evicts THEN Tail(open) ELSE open
           opened == IF part \in Range(open) THEN open ELSE Append(kept, part)
           index  == CHOOSE i \in DOMAIN opened : opened[i] = part
<1>1. open \in Seq(Partitions) /\ stagedValues \in Seq(Partitions) /\ MaxOpen \in Nat \ {0}
  BY SessionAssumption, Zenon DEF IInv, TypeInv
<1>2. evicts => Head(open) \in Partitions /\ Tail(open) \in Seq(Partitions)
  BY <1>1
<1>3. opened \in Seq(Partitions) /\ \E i \in DOMAIN opened : opened[i] = part
  <2>1. CASE part \in Range(open)
    BY <1>1, <2>1, Zenon DEF Range
  <2>2. CASE part \notin Range(open)
    <3>1. kept \in Seq(Partitions) /\ opened = Append(kept, part)
      BY <1>1, <1>2, <2>2, Zenon
    <3> HIDE DEF kept
    <3>2. Append(kept, part) \in Seq(Partitions) /\ Len(kept) + 1 \in DOMAIN Append(kept, part)
          /\ Append(kept, part)[Len(kept) + 1] = part
      BY <3>1
    <3> QED
      BY <3>1, <3>2, Zenon
  <2> QED
    BY <2>1, <2>2, Zenon
<1>4. RemoveAt(opened, index) \in Seq(Partitions)
  <2> HIDE DEF opened
  <2>1. index \in DOMAIN opened
    BY <1>3, Zenon
  <2> HIDE DEF index
  <2>2. /\ SubSeq(opened, 1, index - 1) \in Seq(Partitions)
        /\ SubSeq(opened, index + 1, Len(opened)) \in Seq(Partitions)
    BY <1>3, <2>1
  <2> QED
    BY <2>2 DEF RemoveAt
<1>5. open' \in Seq(Partitions)
  BY <1>3, <1>4, Zenon DEF WriteBatch
<1>6. handing' \in Seq(Partitions)
  <2> DEFINE a == IF evicts THEN <<Head(open)>> ELSE <<>>
             b == IF rolls THEN <<part>> ELSE <<>>
  <2>1. a \in Seq(Partitions) /\ b \in Seq(Partitions)
    BY <1>2
  <2>2. handing' = a \o b
    BY Zenon DEF WriteBatch
  <2> HIDE DEF a, b
  <2> QED
    BY <2>1, <2>2
<1>7. /\ pc = "open" /\ pc' = "writing"
      /\ Len(stagedValues) + Len(handing') + Len(open') <= MaxFiles
      /\ UNCHANGED <<stagedValues, up, task, object, registered, objects, left, cleaner, excused>>
  BY Zenon DEF WriteBatch, removalVars
<1>8. Moved(up, up', task')
  BY <1>7, Unmoved, Zenon
<1>9. Holding /\ Holding' /\ Len(up'.uploaded) = Len(stagedValues')
  BY <1>7, Zenon DEF Holding, IInv, UploadInv
<1> QED
  BY <1>1, <1>5, <1>6, <1>7, <1>8, <1>9, HoldingStep, Zenon

\* stage hands one finished file over to the uploads.
LEMMA StageStep ==
    ASSUME IInv, NEW C \in SUBSET File, NEW current \in BOOLEAN, Stage(C, current)
    PROVE  IInv'
<1> DEFINE u == Queue(up)
<1>1. /\ handing # <<>> /\ handing \in Seq(Partitions) /\ stagedValues \in Seq(Partitions)
      /\ open \in Seq(Partitions) /\ UploadsOK(up, task) /\ task \in [File -> TaskStates]
      /\ Len(up.uploaded) = Len(stagedValues)
      /\ Len(stagedValues) + Len(handing) + Len(open) <= MaxFiles
      /\ pc \in {"writing", "finishing"} /\ (pc = "finishing" => open = <<>>)
  BY Zenon DEF Stage, IInv, TypeInv, UploadInv, CallInv, TaskStates
<1>2. /\ stagedValues' = Append(stagedValues, Head(handing)) /\ handing' = Tail(handing)
      /\ C \subseteq up.running \cap Ended /\ up' = Advance(u, C, current)
      /\ task' = Spawned(task, up'.started \ up.started)
      /\ UNCHANGED <<open, object, registered, objects, left, cleaner, excused, pc>>
  BY Zenon DEF Stage, Collectable, Spawn, Spawned, removalVars
<1>3. /\ handing' \in Seq(Partitions) /\ stagedValues' \in Seq(Partitions)
      /\ Len(handing') = Len(handing) - 1 /\ Len(stagedValues') = Len(stagedValues) + 1
      /\ Len(handing) \in Nat \ {0} /\ Len(stagedValues) \in Nat /\ Len(open) \in Nat
  BY <1>1, <1>2
<1>4. Len(up.uploaded) < MaxFiles
  BY <1>1, <1>3, SessionAssumption
<1>5. /\ UploadsOK(u, task) /\ u.started = up.started /\ u.running = up.running
      /\ Len(u.uploaded) = Len(up.uploaded) + 1 /\ u.settled = up.settled
  BY <1>1, <1>4, QueueOK, Zenon
<1> HIDE DEF u
<1>6. Moved(u, up', task') /\ Len(up'.uploaded) = Len(u.uploaded)
  BY <1>1, <1>2, <1>5, AdvanceOK, ZenonT(60)
<1>7. Moved(up, up', task')
  BY <1>5, <1>6, MovedFrom, Zenon
<1>8. /\ Len(up'.uploaded) = Len(stagedValues')
      /\ Len(stagedValues') + Len(handing') + Len(open') <= MaxFiles
  BY <1>1, <1>2, <1>3, <1>5, <1>6
<1>9. Holding /\ Holding' /\ pc' \in {"writing", "finishing"} /\ open' \in Seq(Partitions)
      /\ (pc' \notin {"open", "writing", "room", "erred"} => open' = <<>>)
  BY <1>1, <1>2, Zenon DEF Holding
<1> QED
  BY <1>2, <1>3, <1>7, <1>8, <1>9, HoldingStep, Zenon

\* The sequences of the sink, and the uploads with their tasks, are well formed.
LEMMA SinkTyped ==
    ASSUME IInv
    PROVE  /\ open \in Seq(Partitions) /\ handing \in Seq(Partitions)
           /\ stagedValues \in Seq(Partitions) /\ Len(up.uploaded) = Len(stagedValues)
           /\ Len(stagedValues) + Len(handing) + Len(open) <= MaxFiles
           /\ UploadsOK(up, task) /\ up \in Uploads /\ task \in [File -> TaskStates]
  BY Zenon DEF IInv, TypeInv, UploadInv, TaskStates

\* A turn of the uploads that leaves the sink alone keeps the invariant, whether it
\* drops the waiting files or not.
LEMMA TurnStep ==
    ASSUME IInv, Holding, Holding', NEW v, Moved(up, v, task'),
           Len(v.uploaded) = Len(up.uploaded),
           up' \in Uploads, up'.uploaded = v.uploaded, up'.started = v.started,
           up'.running = v.running, up'.runtime = v.runtime, up'.settled = v.settled,
           up'.waiting \in {v.waiting, <<>>},
           handing = <<>>, pc' \notin {"open", "writing", "room", "erred"} => open = <<>>,
           UNCHANGED <<sinkVars, object, registered, objects, left, cleaner, excused>>
    PROVE  IInv'
<1>1. Moved(up, up', task')
  BY MovedLess, Zenon
<1>2. UNCHANGED <<open, handing, stagedValues>>
  BY Zenon DEF sinkVars
<1> QED
  BY <1>1, <1>2, SinkTyped, HoldingStep, Zenon

\* write_batch returns.
LEMMA WriteReturnsStep ==
    ASSUME IInv, NEW C \in SUBSET File, NEW current \in BOOLEAN, WriteReturns(C, current)
    PROVE  IInv'
<1> DEFINE v == Advance(up, C, current)
<1>1. /\ pc = "writing" /\ handing = <<>> /\ C \subseteq up.running \cap Ended
      /\ up' = Check(v) /\ pc' \in {"erred", "open"}
      /\ task' = Spawned(task, up'.started \ up.started)
      /\ UNCHANGED <<sinkVars, object, registered, objects, left, cleaner, excused>>
  BY Zenon DEF WriteReturns, Collectable, Spawn, Spawned, removalVars
<1> HIDE DEF v
<1>2. v \in Uploads => /\ up' \in Uploads /\ up'.uploaded = v.uploaded /\ up'.started = v.started
                       /\ up'.running = v.running /\ up'.runtime = v.runtime
                       /\ up'.settled = v.settled /\ up'.waiting = v.waiting
  BY <1>1, Zenon DEF Check, Uploads
<1>3. up'.started = v.started
  BY <1>1 DEF Check
<1>4. Moved(up, v, task') /\ Len(v.uploaded) = Len(up.uploaded)
  BY <1>1, <1>3, SinkTyped, AdvanceOK DEF v
<1>5. v \in Uploads
  BY <1>4, Zenon DEF Moved, UploadsOK
<1> QED
  BY <1>1, <1>2, <1>4, <1>5, TurnStep, Zenon DEF Holding

\* What one turn of wait_for_room or finish starts from: the uploads as they are,
\* or with one result recorded.
Turning(u) == u = up \/ \E p \in up.running \cap Ended : u = Record(up, {p})

\* One turn of wait_for_room or finish advances the uploads.
LEMMA TurnAdvances ==
    ASSUME IInv, NEW u, Turning(u), NEW C \in SUBSET (u.running \cap Ended),
           NEW current \in BOOLEAN, NEW v, v = Advance(u, C, current),
           NEW t, t = Spawned(task, v.started \ up.started)
    PROVE  /\ Moved(up, v, t) /\ v \in Uploads
           /\ Len(v.uploaded) = Len(up.uploaded)
           /\ v.started = up.started \/ v.running # {}
           /\ ~v.failed /\ v.runtime /\ v.running = {} => v.waiting = <<>>
<1>1. /\ UploadsOK(u, task) /\ u.started = up.started /\ u.settled = up.settled
      /\ Len(u.uploaded) = Len(up.uploaded)
      /\ \A q \in up.running : task[q] = "running" => q \in u.running
  <2>1. CASE u = up
    BY <2>1, SinkTyped, Zenon
  <2>2. CASE \E p \in up.running \cap Ended : u = Record(up, {p})
    <3>0. PICK p \in up.running \cap Ended : u = Record(up, {p})
      BY <2>2, Zenon
    <3>1. /\ UploadsOK(u, task) /\ u.started = up.started /\ u.running = up.running \ {p}
          /\ Len(u.uploaded) = Len(up.uploaded) /\ u.settled = up.settled
      BY <3>0, SinkTyped, RecordOK
    <3> QED
      BY <3>0, <3>1, Zenon DEF Ended
  <2> QED
    BY <2>1, <2>2, Zenon DEF Turning
<1>2. t = Spawned(task, v.started \ u.started)
  BY <1>1, Zenon
<1>3. /\ Moved(u, v, t) /\ Len(v.uploaded) = Len(u.uploaded)
      /\ v.started = u.started \/ v.running # {}
      /\ ~v.failed /\ v.runtime /\ v.running = {} => v.waiting = <<>>
  BY <1>1, <1>2, SinkTyped, AdvanceOK, Zenon
<1>4. Moved(up, v, t)
  BY <1>1, <1>3, MovedFrom, Zenon
<1> QED
  BY <1>1, <1>3, <1>4, Zenon DEF Moved, UploadsOK

\* A turn of wait_for_room; when write_batch_async succeeds on a runtime, no file
\* waits any more.
LEMMA RoomTurnStep ==
    ASSUME IInv, pc \in {"open", "room"}, NEW u, Turning(u), NEW C \in SUBSET File,
           NEW current \in BOOLEAN, RoomTurn(u, C, current)
    PROVE  IInv' /\ (pc' = "open" /\ up'.runtime => up'.waiting = <<>>)
<1> DEFINE v == Advance(u, C, current)
<1>1. /\ C \subseteq u.running \cap Ended
      /\ up' = Check(v)
      /\ pc' = IF up'.failed THEN "erred"
               ELSE IF up'.waiting # <<>> /\ up'.running # {} THEN "room" ELSE "open"
      /\ task' = Spawned(task, up'.started \ up.started)
      /\ UNCHANGED <<sinkVars, object, registered, objects, left, cleaner, excused>>
  BY Zenon DEF RoomTurn, Collectable, Spawn, Spawned, removalVars
<1> HIDE DEF v
<1>2. v \in Uploads => /\ up' \in Uploads /\ up'.uploaded = v.uploaded /\ up'.started = v.started
                       /\ up'.running = v.running /\ up'.runtime = v.runtime
                       /\ up'.settled = v.settled /\ up'.waiting = v.waiting
                       /\ up'.failed = v.failed
  BY <1>1, Zenon DEF Check, Uploads
<1>3. up'.started = v.started
  BY <1>1 DEF Check
<1>4. /\ Moved(up, v, task') /\ Len(v.uploaded) = Len(up.uploaded) /\ v \in Uploads
      /\ ~v.failed /\ v.runtime /\ v.running = {} => v.waiting = <<>>
  BY <1>1, <1>3, TurnAdvances, Zenon DEF v
<1>5. handing = <<>> /\ Holding /\ Holding' /\ pc' \in {"erred", "room", "open"}
  BY <1>1, Zenon DEF IInv, CallInv, Holding
<1>6. IInv'
  BY <1>1, <1>2, <1>4, <1>5, TurnStep, Zenon
<1> QED
  BY <1>1, <1>2, <1>4, <1>6, Zenon

\* remove_started drops the waiting files and nothing else.
LEMMA AbandonOK ==
    ASSUME NEW u \in Uploads, NEW w, w = Abandon(u)
    PROVE  /\ w \in Uploads /\ w.waiting = <<>>
           /\ w.uploaded = u.uploaded /\ w.started = u.started /\ w.running = u.running
           /\ w.runtime = u.runtime /\ w.settled = u.settled
<1> DEFINE e == <<>>
<1>1. e \in Seq(File) /\ w = [u EXCEPT !.waiting = e]
  BY DEF Abandon
<1> HIDE DEF e
<1>2. /\ w \in Uploads /\ w.waiting = e
      /\ w.uploaded = u.uploaded /\ w.started = u.started /\ w.running = u.running
      /\ w.runtime = u.runtime /\ w.settled = u.settled
  BY <1>1, Zenon DEF Uploads
<1> QED
  BY <1>2, Zenon DEF e

\* A turn of StagedUploads::finish: it fails, goes on, or hands over every file at
\* its position with its object in place.
LEMMA FinishTurnStep ==
    ASSUME IInv, pc \in {"finishing", "finish"}, handing = <<>>, NEW u, Turning(u),
           NEW C \in SUBSET File, NEW current \in BOOLEAN, FinishTurn(u, C, current)
    PROVE  IInv'
<1> DEFINE v == Advance(u, C, current)
<1>1. /\ C \subseteq u.running \cap Ended
      /\ \/ /\ up' = Abandon(Check([v EXCEPT !.failed = TRUE]))
            /\ pc' = "remove"
            /\ UNCHANGED <<objects, left>>
         \/ /\ up' = v
            /\ pc' = "finish"
            /\ UNCHANGED <<objects, left>>
         \/ /\ v.running = {}
            /\ HandOver(v)
      /\ task' = Spawned(task, up'.started \ up.started)
      /\ UNCHANGED <<sinkVars, object, registered, cleaner, excused>>
  BY Zenon DEF FinishTurn, Collectable, Spawn, Spawned
<1>2. \A t : t = Spawned(task, v.started \ up.started) =>
        /\ Moved(up, v, t) /\ v \in Uploads /\ Len(v.uploaded) = Len(up.uploaded)
        /\ v.started = up.started \/ v.running # {}
  BY <1>1, TurnAdvances, Zenon
<1> HIDE DEF v
<1>3. v \in Uploads /\ (v.started = up.started \/ v.running # {})
      /\ Len(v.uploaded) = Len(up.uploaded)
  BY <1>2, Zenon
<1>4. up'.started = v.started => Moved(up, v, task')
  BY <1>1, <1>2, Zenon
<1>5. Holding /\ open = <<>>
  BY Zenon DEF Holding, IInv, CallInv
<1>6. CASE /\ up' = Abandon(Check([v EXCEPT !.failed = TRUE])) /\ pc' = "remove"
           /\ UNCHANGED <<objects, left>>
  <2>1. /\ up' \in Uploads /\ up'.uploaded = v.uploaded /\ up'.started = v.started
        /\ up'.running = v.running /\ up'.runtime = v.runtime
        /\ up'.settled = v.settled /\ up'.waiting = <<>>
    <3> DEFINE a == [v EXCEPT !.failed = TRUE]
               b == Check(a)
    <3>1. /\ a \in Uploads /\ a.uploaded = v.uploaded /\ a.started = v.started
          /\ a.running = v.running /\ a.runtime = v.runtime /\ a.settled = v.settled
      BY <1>3, Zenon DEF Uploads
    <3> HIDE DEF a
    <3>2. /\ b \in Uploads /\ b.uploaded = v.uploaded /\ b.started = v.started
          /\ b.running = v.running /\ b.runtime = v.runtime /\ b.settled = v.settled
      BY <3>1, Zenon DEF Check, Uploads
    <3>3. up' = Abandon(b)
      BY <1>6, Zenon DEF a
    <3> HIDE DEF b
    <3> QED
      BY <3>2, <3>3, AbandonOK, Zenon
  <2> QED
    BY <1>1, <1>3, <1>4, <1>5, <1>6, <2>1, TurnStep, Zenon DEF Holding
<1>7. CASE up' = v /\ pc' = "finish" /\ UNCHANGED <<objects, left>>
  BY <1>1, <1>3, <1>4, <1>5, <1>7, TurnStep, Zenon DEF Holding
<1>8. CASE v.running = {} /\ HandOver(v)
  <2>1. v.started = up.started
    BY <1>3, <1>8, Zenon
  <2>2. CASE None \in Range(v.uploaded)
    <3>1. up' = v /\ pc' = "erred" /\ UNCHANGED <<objects, left>>
      BY <1>8, <2>2, Zenon DEF HandOver
    <3> QED
      BY <1>1, <1>3, <1>4, <1>5, <3>1, TurnStep, Zenon DEF Holding
  <2>3. CASE None \notin Range(v.uploaded)
    <3>1. /\ up' = [v EXCEPT !.settled = TRUE, !.started = {}] /\ objects' = up.started
          /\ \/ pc' = "releasing" /\ left' = objects'
             \/ /\ pc' = IF v.uploaded = <<>> THEN "marker" ELSE "commit"
                /\ UNCHANGED left
      BY <1>8, <2>1, <2>3, Zenon DEF HandOver
    <3>2. /\ up' \in Uploads /\ up'.settled /\ up'.started = {} /\ up'.running = {}
          /\ up'.uploaded = v.uploaded /\ up'.waiting = v.waiting
      BY <1>3, <1>8, <3>1, Zenon DEF Uploads
    <3>3. UNCHANGED <<open, handing, stagedValues, task, object, registered, cleaner, excused>>
      BY <1>1, <3>2, SinkTyped, Zenon DEF Spawned, sinkVars
    <3>4. task = Spawned(task, v.started \ up.started)
      BY <2>1, SinkTyped, Zenon DEF Spawned
    <3>5. UploadsOK(v, task) /\ \A p \in up.running : task[p] # "running"
      BY <1>2, <1>8, <3>4, Zenon DEF Moved
    <3>6. /\ \A p \in File : task[p] # "none" => p \in up.started
          /\ \A p \in File : task[p] = "ok" => p \in object
          /\ \A p \in File : p \in object => task[p] \in {"ok", "failed"}
          /\ Marker \notin object /\ object \subseteq Object
          /\ up.started \subseteq File
      BY <1>5, Zenon DEF IInv, TypeInv, ObjectInv, Uploads
    <3>7. left = {} /\ registered = <<>> /\ cleaner = {} /\ \A p \in File : task[p] # "running"
      BY <1>5, <3>5, Zenon DEF IInv, CallInv, TaskInv, Holding
    <3>8. /\ Len(v.uploaded) = Len(stagedValues) /\ Len(v.uploaded) \in Nat
          /\ Len(v.uploaded) <= MaxFiles /\ v.uploaded \in Seq(File \cup {None})
      BY <1>3, <3>5, SinkTyped DEF UploadsOK, Uploads
    <3>9. \A i \in 1 .. Len(v.uploaded) : v.uploaded[i] = i /\ i \in object
      <4> SUFFICES ASSUME NEW i \in 1 .. Len(v.uploaded) PROVE v.uploaded[i] = i /\ i \in object
        BY Zenon
      <4>1. v.uploaded[i] # None
        BY <2>3, <3>8 DEF Range
      <4>2. v.uploaded[i] = i /\ task[i] = "ok" /\ i \in File
        BY <3>5, <3>8, <4>1, SessionAssumption DEF UploadsOK, File
      <4> QED
        BY <3>6, <4>2, Zenon
    <3>10. object \subseteq up.started /\ (Len(v.uploaded) = 0 => object = {})
      <4>1. \A p \in object : p \in File /\ task[p] # "none"
        BY <3>6, Zenon DEF Object
      <4>2. \A p \in object : p <= Len(v.uploaded) /\ p >= 1 /\ p \in Nat
        BY <3>5, <4>1, SessionAssumption DEF UploadsOK, File
      <4> QED
        BY <3>6, <4>1, <4>2
    <3>11. pc' \in {"releasing", "marker", "commit"}
           /\ (pc' # "releasing" => left' = {} /\ (pc' = "marker" => v.uploaded = <<>>))
           /\ (pc' = "releasing" => left' = up.started)
           /\ (pc' = "commit" => stagedValues # <<>>)
      BY <3>1, <3>7, <3>8, SinkTyped
    <3>12. TypeInv'
      BY <3>1, <3>2, <3>3, <3>6, <3>11, Zenon DEF IInv, TypeInv, Object
    <3>13. UploadInv'
      <4>1. UploadsOK(up', task)
        BY <3>2, <3>5, FS_EmptySet, SessionAssumption DEF UploadsOK
      <4> QED
        BY <3>2, <3>3, <3>8, <4>1, SinkTyped, Zenon DEF UploadInv
    <3>14. TaskInv'
      BY <3>2, <3>3, <3>7, FS_EmptySet, SessionAssumption DEF TaskInv
    <3>15. CallInv'
      BY <1>5, <3>2, <3>3, <3>6, <3>7, <3>8, <3>9, <3>10, <3>11, SinkTyped DEF CallInv
    <3>16. ObjectInv'
      BY <3>1, <3>3, <3>6, <3>10, <3>11, Zenon DEF ObjectInv, Holding
    <3>17. RegisteredWhole'
      BY <3>3, <3>7, Zenon DEF RegisteredWhole
    <3> QED
      BY <3>12, <3>13, <3>14, <3>15, <3>16, <3>17, Zenon DEF IInv
  <2> QED
    BY <2>2, <2>3, Zenon
<1> QED
  BY <1>1, <1>6, <1>7, <1>8, Zenon

\* A staging file that cannot be completed, a dropped write_batch_async, and the
\* start of finish.
LEMMA SinkSteps ==
    ASSUME IInv, FinalizeFails \/ CancelRoom \/ Finish
    PROVE  IInv'
<1>1. Moved(up, up, task)
  BY Unmoved, Zenon
<1>2. CASE FinalizeFails
  <2>1. /\ handing # <<>> /\ handing' = <<>> /\ pc' = "erred"
        /\ UNCHANGED <<open, stagedValues, up, task, object, registered, objects, left, cleaner,
                       excused>>
    BY <1>2, Zenon DEF FinalizeFails, removalVars
  <2>2. Holding /\ Holding' /\ handing' \in Seq(Partitions) /\ Len(handing') = 0
        /\ Len(handing) \in Nat
    BY <2>1, SinkTyped DEF IInv, CallInv, Holding
  <2>3. Len(stagedValues') + Len(handing') + Len(open') <= MaxFiles
    BY <2>1, <2>2, SinkTyped, SessionAssumption
  <2> QED
    BY <1>1, <2>1, <2>2, <2>3, SinkTyped, HoldingStep, Zenon
<1>3. CASE CancelRoom
  <2>1. /\ pc = "room" /\ pc' = "open"
        /\ UNCHANGED <<open, handing, stagedValues, up, task, object, registered, objects, left,
                       cleaner, excused>>
    BY <1>3, Zenon DEF CancelRoom, removalVars, sinkVars
  <2>2. Holding /\ Holding' /\ handing = <<>>
    BY <2>1, Zenon DEF IInv, CallInv, Holding
  <2> QED
    BY <1>1, <2>1, <2>2, SinkTyped, HoldingStep, Zenon
<1>4. CASE Finish
  <2>1. /\ pc = "open" /\ pc' = "finishing" /\ handing' = open /\ open' = <<>>
        /\ UNCHANGED <<stagedValues, up, task, object, registered, objects, left, cleaner, excused>>
    BY <1>4, Zenon DEF Finish, removalVars
  <2>2. Holding /\ Holding' /\ handing = <<>> /\ open' \in Seq(Partitions) /\ Len(open') = 0
        /\ Len(handing) = 0
    BY <2>1, SinkTyped, Zenon DEF IInv, CallInv, Holding
  <2>3. Len(stagedValues') + Len(handing') + Len(open') <= MaxFiles
    BY <2>1, <2>2, SinkTyped, SessionAssumption
  <2> QED
    BY <1>1, <2>1, <2>2, <2>3, SinkTyped, HoldingStep, Zenon
<1> QED
  BY <1>2, <1>3, <1>4, Zenon

-----------------------------------------------------------------------------
\* abort drops the files not started.
LEMMA AbortStep ==
    ASSUME IInv, Abort
    PROVE  IInv'
<1>1. /\ pc \in {"open", "erred"} /\ open' = <<>> /\ up' = Abandon(up) /\ pc' = "remove"
      /\ UNCHANGED <<handing, stagedValues, task, object, registered, objects, left, cleaner,
                     excused>>
  BY Zenon DEF Abort, removalVars
<1>2. Moved(up, up', task')
  <2>1. Moved(up, up, task)
    BY Unmoved, Zenon
  <2>2. /\ up' \in Uploads /\ up'.waiting = <<>>
        /\ up'.uploaded = up.uploaded /\ up'.started = up.started /\ up'.running = up.running
        /\ up'.runtime = up.runtime /\ up'.settled = up.settled
    BY <1>1, SinkTyped, AbandonOK, Zenon
  <2>3. Moved(up, up', task)
    BY <2>1, <2>2, MovedLess, Zenon
  <2> QED
    BY <1>1, <2>3, Zenon
<1>3. up'.uploaded = up.uploaded
  BY <1>1, SinkTyped, AbandonOK, Zenon
<1>4. Holding /\ Holding' /\ handing = <<>> /\ open' \in Seq(Partitions) /\ Len(open') = 0
      /\ Len(open) \in Nat
  BY <1>1, SinkTyped DEF IInv, CallInv, Holding
<1>5. Len(stagedValues') + Len(handing') + Len(open') <= MaxFiles
  BY <1>1, <1>4, SinkTyped, SessionAssumption
<1> QED
  BY <1>1, <1>2, <1>3, <1>4, <1>5, SinkTyped, HoldingStep, Zenon

\* remove_started awaits an upload in flight.
LEMMA RemoveAwaitsStep ==
    ASSUME IInv, NEW p \in File, RemoveAwaits(p)
    PROVE  IInv'
<1> DEFINE R == up.running \ {p}
<1>1. /\ pc = "remove" /\ pc' = pc /\ p \in up.running \cap Ended /\ up' = [up EXCEPT !.running = R]
      /\ UNCHANGED <<open, handing, stagedValues, task, object, registered, objects, left,
                     cleaner, excused>>
  BY Zenon DEF RemoveAwaits, Collectable, removalVars, sinkVars
<1>2. R \in SUBSET File /\ R \subseteq up.running
  BY SinkTyped, Zenon DEF Uploads
<1>3. Cardinality(R) <= Concurrency
  <2>1. up.running \in SUBSET File /\ Cardinality(up.running) <= Concurrency
    BY SinkTyped, Zenon DEF Uploads, UploadsOK
  <2>2. IsFiniteSet(up.running) /\ Cardinality(up.running) \in Nat /\ Cardinality(R) \in Nat
    BY <1>2, <2>1, FilesFinite, Zenon
  <2>3. Cardinality(R) <= Cardinality(up.running)
    BY <1>2, <2>2, FS_Subset, Zenon
  <2> QED
    BY <2>1, <2>2, <2>3, SessionAssumption
<1>4. \A q \in up.running : task[q] = "running" => q \in R
  BY <1>1, Zenon DEF Ended
<1> HIDE DEF R
<1>5. /\ up' \in Uploads /\ up'.waiting = up.waiting /\ up'.uploaded = up.uploaded
      /\ up'.started = up.started /\ up'.running = R /\ up'.runtime = up.runtime
      /\ up'.settled = up.settled
  BY <1>1, <1>2, SinkTyped, Zenon DEF Uploads
<1>6. UploadsOK(up', task)
  BY <1>2, <1>3, <1>5, SinkTyped DEF UploadsOK
<1>7. Moved(up, up', task')
  BY <1>1, <1>4, <1>5, <1>6, SinkTyped, Zenon DEF Moved
<1>8. Holding /\ Holding' /\ handing = <<>> /\ open = <<>>
  BY <1>1, Zenon DEF IInv, CallInv, Holding
<1> QED
  BY <1>1, <1>5, <1>7, <1>8, SinkTyped, HoldingStep, Zenon

\* Uploads that give up all they started are in order.
LEMMA LetGo ==
    ASSUME NEW u, NEW t, UploadsOK(u, t), NEW w \in Uploads, w.uploaded = u.uploaded,
           w.running = {}, w.started = {}, w.waiting \in {u.waiting, <<>>}
    PROVE  UploadsOK(w, t)
<1>1. /\ \A j \in 1 .. Len(w.waiting) : /\ w.waiting[j] <= Len(w.uploaded)
                                        /\ t[w.waiting[j]] = "none"
      /\ \A i, j \in 1 .. Len(w.waiting) : i # j => w.waiting[i] # w.waiting[j]
  <2>1. CASE w.waiting = u.waiting
    BY <2>1 DEF UploadsOK
  <2>2. CASE w.waiting = <<>>
    BY <2>2
  <2> QED
    BY <2>1, <2>2, Zenon
<1> QED
  BY <1>1, FS_EmptySet, SessionAssumption DEF UploadsOK

\* remove_started has awaited the uploads and goes on to remove every object.
LEMMA RemoveStartsStep ==
    ASSUME IInv, RemoveStarts
    PROVE  IInv'
<1>1. /\ pc = "remove" /\ pc' = "removing" /\ up.running = {} /\ left' = up.started
      /\ UNCHANGED <<open, handing, stagedValues, up, task, object, registered, objects,
                     cleaner, excused>>
  BY Zenon DEF RemoveStarts, sinkVars
<1>2. Holding /\ cleaner = {} /\ registered = <<>> /\ up.started \subseteq File /\ open = <<>>
      /\ handing = <<>> /\ ~up.settled
  BY <1>1, Zenon DEF IInv, TypeInv, CallInv, TaskInv, Holding, Uploads
<1>3. TypeInv' /\ UploadInv' /\ TaskInv'
  <2>1. TypeInv'
    BY <1>1, <1>2, Zenon DEF IInv, TypeInv, Object
  <2>2. UploadInv'
    BY <1>1, Zenon DEF IInv, UploadInv
  <2>3. TaskInv'
    BY <1>1, <1>2, Zenon DEF IInv, TaskInv
  <2> QED
    BY <2>1, <2>2, <2>3, Zenon
<1>4. CallInv' /\ RegisteredWhole'
  BY <1>1, <1>2, Zenon DEF CallInv, RegisteredWhole
<1>5. object \subseteq up.started /\ \A p \in File : p \in object => task[p] \in {"ok", "failed"}
  BY <1>2, Zenon DEF IInv, TypeInv, ObjectInv, Object
<1>6. ObjectInv'
  BY <1>1, <1>5, Zenon DEF ObjectInv, Holding
<1> QED
  BY <1>3, <1>4, <1>6, Zenon DEF IInv

\* remove_objects removes an object that nothing registered names, or excuses it.
LEMMA RemoveObjectStep ==
    ASSUME IInv, NEW p \in File \cup {Marker}, RemoveObject(p)
    PROVE  IInv'
<1>1. /\ p \in left /\ cleaner = {} /\ left' = left \ {p}
      /\ \/ object' = object \ {p} /\ excused' = excused
         \/ object' = object /\ excused' = excused \cup {p}
      /\ UNCHANGED <<open, handing, stagedValues, up, task, registered, objects, cleaner, pc>>
  BY Zenon DEF RemoveObject, sinkVars
<1>2. pc \in {"removing", "releasing", "gone"} /\ registered = <<>> /\ registered' = <<>>
  BY <1>1, Zenon DEF IInv, CallInv
<1>3. TypeInv' /\ UploadInv' /\ TaskInv'
  <2>1. TypeInv'
    BY <1>1, Zenon DEF IInv, TypeInv
  <2>2. UploadInv'
    BY <1>1, Zenon DEF IInv, UploadInv
  <2>3. TaskInv'
    BY <1>1, Zenon DEF IInv, TaskInv, Holding
  <2> QED
    BY <2>1, <2>2, <2>3, Zenon
<1>4. CallInv' /\ RegisteredWhole'
  BY <1>1, <1>2, Zenon DEF IInv, CallInv, RegisteredWhole
<1>5. ObjectInv'
  <2>1. object' \subseteq object /\ \A o \in object' : o \in left => o \in left' \cup excused'
    BY <1>1, Zenon
  <2>2. excused \subseteq excused'
    BY <1>1, Zenon
  <2> QED
    BY <1>1, <1>2, <2>1, <2>2, Zenon DEF IInv, ObjectInv, Holding
<1> QED
  BY <1>3, <1>4, <1>5, Zenon DEF IInv

\* remove_started has settled the uploads.
LEMMA RemoveEndsStep ==
    ASSUME IInv, RemoveEnds
    PROVE  IInv'
<1>1. /\ pc = "removing" /\ pc' = "gone" /\ left = {}
      /\ up' = [up EXCEPT !.started = {}, !.settled = TRUE]
      /\ UNCHANGED <<open, handing, stagedValues, task, object, registered, objects, left,
                     cleaner, excused>>
  BY Zenon DEF RemoveEnds, sinkVars, removalVars
<1>2. /\ up' \in Uploads /\ up'.started = {} /\ up'.settled /\ up'.running = up.running
      /\ up'.uploaded = up.uploaded /\ up'.waiting = up.waiting
  BY <1>1, SinkTyped, Zenon DEF Uploads
<1>3. up.running = {} /\ cleaner = {} /\ registered = <<>> /\ open = <<>> /\ handing = <<>>
  BY <1>1, Zenon DEF IInv, TaskInv, CallInv, Holding
<1>4. UploadsOK(up', task)
  BY <1>2, <1>3, SinkTyped, LetGo, Zenon
<1>5. TypeInv'
  BY <1>1, <1>2, Zenon DEF IInv, TypeInv
<1>6. UploadInv'
  BY <1>1, <1>2, <1>4, SinkTyped, Zenon DEF UploadInv
<1>7. TaskInv'
  BY <1>1, <1>2, <1>3, Zenon DEF IInv, TaskInv
<1>8. CallInv' /\ RegisteredWhole'
  BY <1>1, <1>2, <1>3, Zenon DEF CallInv, RegisteredWhole
<1>9. ObjectInv'
  BY <1>1, Zenon DEF IInv, ObjectInv, Holding
<1> QED
  BY <1>5, <1>6, <1>7, <1>8, <1>9, Zenon DEF IInv

\* The marker file of a write of no rows, a refused commit, and the end of a
\* release.
LEMMA ReleaseSteps ==
    ASSUME IInv, MarkerUploaded \/ MarkerFails \/ Refused \/ ReleaseEnds
    PROVE  IInv'
<1>1. /\ UNCHANGED <<open, handing, stagedValues, up, task, cleaner, registered, excused>>
      /\ pc \in {"marker", "commit", "releasing"} /\ pc' \in {"commit", "releasing", "gone"}
      /\ objects' \subseteq Object /\ left' \subseteq Object /\ object' \subseteq Object
      /\ object' \in {object, object \cup {Marker}} /\ objects' \in {objects, {Marker}}
  BY Zenon DEF MarkerUploaded, MarkerFails, Refused, ReleaseEnds, sinkVars, removalVars, IInv,
         TypeInv, Object
<1>2. /\ cleaner = {} /\ up.running = {} /\ registered = <<>> /\ open = <<>> /\ handing = <<>>
      /\ up.settled /\ up.started = {}
  BY <1>1, Zenon DEF IInv, TaskInv, CallInv, Holding
<1>3. TypeInv'
  BY <1>1, Zenon DEF IInv, TypeInv
<1>4. UploadInv'
  BY <1>1, Zenon DEF IInv, UploadInv
<1>5. TaskInv'
  BY <1>1, <1>2, Zenon DEF IInv, TaskInv
<1>6. RegisteredWhole'
  BY <1>1, <1>2, Zenon DEF RegisteredWhole
<1>7. Marker \notin File
  BY SessionAssumption DEF Marker, File
<1>8. \A p \in File : p \in object' => task'[p] \in {"ok", "failed"}
  BY <1>1, <1>7, Zenon DEF IInv, ObjectInv
<1>9. CASE MarkerUploaded
  <2>1. /\ pc = "marker" /\ pc' = "commit" /\ object' = object \cup {Marker} /\ objects' = {Marker}
        /\ left' = left
    BY <1>9, Zenon DEF MarkerUploaded
  <2>2. object = {} /\ stagedValues = <<>> /\ left = {} /\ Len(up.uploaded) = 0
    BY <2>1, SinkTyped, Zenon DEF IInv, CallInv
  <2>3. CallInv'
    BY <1>1, <1>2, <2>1, <2>2 DEF CallInv
  <2>4. ObjectInv'
    BY <1>8, <2>1, <2>2, Zenon DEF ObjectInv, Holding
  <2> QED
    BY <1>3, <1>4, <1>5, <1>6, <2>3, <2>4, Zenon DEF IInv
<1>10. CASE MarkerFails
  <2>1. /\ pc = "marker" /\ pc' = "releasing" /\ object' \in {object, object \cup {Marker}}
        /\ left' = {Marker}
    BY <1>10, Zenon DEF MarkerFails
  <2>2. object = {}
    BY <2>1, Zenon DEF IInv, CallInv
  <2>3. CallInv'
    BY <1>1, <1>2, <2>1, Zenon DEF CallInv
  <2>4. ObjectInv'
    BY <1>8, <2>1, <2>2, Zenon DEF ObjectInv, Holding
  <2> QED
    BY <1>3, <1>4, <1>5, <1>6, <2>3, <2>4, Zenon DEF IInv
<1>11. CASE Refused
  <2>1. pc = "commit" /\ pc' = "releasing" /\ object' = object /\ left' = objects
    BY <1>11, Zenon DEF Refused
  <2>2. CallInv'
    BY <1>1, <1>2, <2>1, Zenon DEF CallInv
  <2>3. ObjectInv'
    BY <1>8, <2>1, Zenon DEF IInv, ObjectInv, Holding
  <2> QED
    BY <1>3, <1>4, <1>5, <1>6, <2>2, <2>3, Zenon DEF IInv
<1>12. CASE ReleaseEnds
  <2>1. pc = "releasing" /\ pc' = "gone" /\ object' = object /\ left' = left /\ left = {}
        /\ excused' = excused
    BY <1>12, Zenon DEF ReleaseEnds, removalVars
  <2>2. CallInv'
    BY <1>1, <1>2, <2>1, Zenon DEF CallInv
  <2>3. ObjectInv'
    BY <1>8, <2>1, Zenon DEF IInv, ObjectInv, Holding
  <2> QED
    BY <1>3, <1>4, <1>5, <1>6, <2>2, <2>3, Zenon DEF IInv
<1> QED
  BY <1>9, <1>10, <1>11, <1>12, Zenon

\* What the commit registers.
LEMMA HandedWhole ==
    ASSUME IInv, pc = "commit", NEW h, h = Handed
    PROVE  /\ \/ h = [i \in 1 .. Len(stagedValues) |-> [file |-> i, part |-> stagedValues[i]]]
              \/ stagedValues = <<>> /\ h = <<[file |-> Marker, part |-> None]>>
           /\ {r.file : r \in Range(h)} = object
<1>1. /\ Len(up.uploaded) = Len(stagedValues) /\ Len(stagedValues) \in Nat
      /\ stagedValues = <<>> <=> Marker \in object
      /\ \A i \in 1 .. Len(up.uploaded) : up.uploaded[i] = i /\ i \in object
      /\ object \subseteq File \cup {Marker}
      /\ \A p \in File : p \in object => p \in 1 .. Len(stagedValues)
  <2>1. \A p \in File : p \in object => task[p] # "none"
    BY Zenon DEF IInv, ObjectInv
  <2>2. \A p \in File : task[p] # "none" => p <= Len(up.uploaded)
    BY SinkTyped, Zenon DEF UploadsOK
  <2>3. \A p \in File : p \in Nat /\ p >= 1
    BY DEF File
  <2> QED
    BY <2>1, <2>2, <2>3, SinkTyped DEF IInv, CallInv, TypeInv, Object
<1>2. CASE stagedValues = <<>>
  <2>1. h = <<[file |-> Marker, part |-> None]>>
    BY <1>2, Zenon DEF Handed
  <2>2. DOMAIN h = {1} /\ h[1] = [file |-> Marker, part |-> None]
    BY <2>1
  <2>3. Range(h) = {[file |-> Marker, part |-> None]}
    BY <2>2, Zenon DEF Range
  <2>4. {r.file : r \in Range(h)} = {Marker}
    BY <2>3
  <2>5. object = {Marker}
    BY <1>1, <1>2
  <2> QED
    BY <1>2, <2>1, <2>4, <2>5, Zenon
<1>3. CASE stagedValues # <<>>
  <2> DEFINE n == Len(stagedValues)
             g == [i \in 1 .. n |-> [file |-> i, part |-> stagedValues[i]]]
  <2>1. h = [i \in 1 .. Len(up.uploaded) |-> [file |-> up.uploaded[i], part |-> stagedValues[i]]]
    BY <1>3, Zenon DEF Handed
  <2>2. h = g
    BY <1>1, <2>1, Zenon
  <2>3. DOMAIN g = 1 .. n /\ \A i \in 1 .. n : g[i].file = i
    BY Zenon
  <2>4. object = 1 .. n
    BY <1>1, <1>3, Zenon
  <2>5. {r.file : r \in Range(h)} = object
    <3> HIDE DEF g, n
    <3>1. Range(h) = {g[i] : i \in 1 .. n}
      BY <2>2, <2>3, Zenon DEF Range
    <3> QED
      BY <2>3, <2>4, <3>1
  <2> QED
    BY <2>2, <2>5, Zenon
<1> QED
  BY <1>2, <1>3, Zenon

\* The commit registers the files handed over, or its outcome is unknown.
LEMMA CommitSteps ==
    ASSUME IInv, Committed \/ OutcomeUnknown
    PROVE  IInv'
<1>1. /\ pc = "commit" /\ pc' = "gone" /\ registered' \in {Handed, <<>>}
      /\ excused \subseteq excused' /\ excused' \subseteq excused \cup objects
      /\ registered' = Handed \/ objects \subseteq excused'
      /\ UNCHANGED <<open, handing, stagedValues, up, task, object, objects, left, cleaner>>
  BY Zenon DEF Committed, OutcomeUnknown, sinkVars, removalVars
<1>2. /\ cleaner = {} /\ up.running = {} /\ open = <<>> /\ handing = <<>> /\ left = {}
      /\ up.settled /\ up.started = {}
  BY <1>1, Zenon DEF IInv, TaskInv, CallInv, Holding
<1>3. registered' # <<>> =>
        /\ \/ registered' = [i \in 1 .. Len(stagedValues) |-> [file |-> i, part |-> stagedValues[i]]]
           \/ stagedValues = <<>> /\ registered' = <<[file |-> Marker, part |-> None]>>
        /\ {r.file : r \in Range(registered')} = object
  BY <1>1, HandedWhole, Zenon
<1>4. TypeInv'
  BY <1>1, Zenon DEF IInv, TypeInv
<1>5. UploadInv'
  BY <1>1, Zenon DEF IInv, UploadInv
<1>6. TaskInv'
  BY <1>1, <1>2, Zenon DEF IInv, TaskInv
<1>7. CallInv'
  BY <1>1, <1>2, Zenon DEF CallInv
<1>8. RegisteredWhole'
  BY <1>1, <1>2, <1>3, Zenon DEF RegisteredWhole
<1>9. ObjectInv'
  <2>1. object \subseteq objects /\ \A p \in File : p \in object => task[p] \in {"ok", "failed"}
    BY <1>1, Zenon DEF IInv, ObjectInv
  <2>2. object \subseteq {r.file : r \in Range(registered')} \cup excused'
    <3>1. CASE registered' = Handed
      BY <1>1, <3>1, HandedWhole, Zenon
    <3>2. CASE objects \subseteq excused'
      BY <2>1, <3>2, Zenon
    <3> QED
      BY <1>1, <3>1, <3>2, Zenon
  <2> DEFINE R == {r.file : r \in Range(registered)}
  <2>3. object' \subseteq left' \cup R' \cup excused'
    BY <1>1, <2>2, Zenon
  <2> HIDE DEF R
  <2> QED
    BY <1>1, <2>1, <2>3, Zenon DEF ObjectInv, Holding, R
<1> QED
  BY <1>4, <1>5, <1>6, <1>7, <1>8, <1>9, Zenon DEF IInv

\* Drop hands what is not settled to its cleaner.
LEMMA DroppedStep ==
    ASSUME IInv, Dropped
    PROVE  IInv'
<1> DEFINE cleans == ~up.settled /\ up.started # {} /\ up.runtime
           e == <<>>
<1>1. /\ pc \in {"open", "erred", "finish", "remove", "removing", "marker", "releasing"}
      /\ pc' = "gone" /\ open' = <<>>
      /\ up' = [up EXCEPT !.waiting = e, !.running = {}, !.started = {}]
      /\ cleaner' = IF cleans THEN up.running ELSE {}
      /\ left' = IF cleans THEN up.started ELSE {}
      /\ object' \in {object} \cup (IF pc = "marker" THEN {object \cup {Marker}} ELSE {})
      /\ excused' = excused \cup (IF pc = "releasing" THEN left ELSE {})
                            \cup (IF pc = "marker" THEN {Marker} ELSE {})
      /\ UNCHANGED <<handing, stagedValues, task, objects, registered>>
  BY Zenon DEF Dropped
<1>2. registered = <<>> /\ handing = <<>> /\ cleaner = {}
      /\ (pc \notin {"marker", "releasing"} => ~up.settled /\ object' = object)
      /\ (pc \in {"marker", "releasing"} => up.settled)
  BY <1>1, Zenon DEF IInv, CallInv, TaskInv
<1>3. e \in Seq(File) /\ up \in Uploads /\ up.running \subseteq up.started
  BY SinkTyped DEF UploadsOK
<1> HIDE DEF e
<1>4. /\ up' \in Uploads /\ up'.waiting = e /\ up'.running = {} /\ up'.started = {}
      /\ up'.uploaded = up.uploaded /\ up'.settled = up.settled
  BY <1>1, <1>3, Zenon DEF Uploads
<1>5. UploadsOK(up', task)
  BY <1>4, SinkTyped, LetGo, Zenon DEF e
<1>6. pc \notin {"marker", "releasing"} => cleaner' = up.running /\ left' = up.started
  <2>1. up.started # {} => up.runtime
    BY SinkTyped, Zenon DEF UploadsOK
  <2> QED
    BY <1>1, <1>2, <1>3, <2>1, Zenon
<1>7. pc \in {"marker", "releasing"} => cleaner' = {} /\ left' = {} /\ up.running = {}
  BY <1>1, <1>2, <1>3, Zenon DEF IInv, CallInv
<1>8. /\ up.running \subseteq File /\ up.started \subseteq File /\ object' \subseteq Object
      /\ excused' \subseteq Object /\ left' \subseteq Object /\ cleaner' \subseteq File
  <2>1. up.running \subseteq File /\ up.started \subseteq File
    BY <1>3, Zenon DEF Uploads
  <2> QED
    BY <1>1, <1>6, <1>7, <2>1, Zenon DEF IInv, TypeInv, Object
<1>9. TypeInv'
  <2>1. open' \in Seq(Partitions)
    BY <1>1
  <2> QED
    BY <1>1, <1>4, <1>8, <2>1, Zenon DEF IInv, TypeInv
<1>10. UploadInv'
  <2>1. Len(open') = 0 /\ Len(open) \in Nat /\ Len(handing) \in Nat /\ Len(stagedValues) \in Nat
    BY <1>1, SinkTyped
  <2>2. Len(stagedValues') + Len(handing') + Len(open') <= MaxFiles
    BY <1>1, <2>1, SinkTyped, SessionAssumption
  <2> QED
    BY <1>1, <1>4, <1>5, <2>2, SinkTyped, Zenon DEF UploadInv
<1>11. TaskInv'
  <2>1. \A p \in File : task[p] = "running" => p \in up.running
    BY <1>2, Zenon DEF IInv, TaskInv
  <2>2. \A p \in File : task[p] = "running" => p \in cleaner'
    BY <1>6, <1>7, <2>1, Zenon
  <2>3. cleaner' \subseteq left'
    BY <1>3, <1>6, <1>7, Zenon
  <2>4. Cardinality(cleaner') <= Concurrency
    BY <1>6, <1>7, SinkTyped, FS_EmptySet, SessionAssumption, Zenon DEF UploadsOK
  <2> QED
    BY <1>1, <1>4, <2>2, <2>3, <2>4, Zenon DEF TaskInv
<1>12. CallInv' /\ RegisteredWhole'
  BY <1>1, <1>2, <1>4, Zenon DEF CallInv, RegisteredWhole
<1>13. ObjectInv'
  <2>1. \A p \in File : p \in object' => task[p] \in {"ok", "failed"}
    <3>1. Marker \notin File
      BY SessionAssumption DEF Marker, File
    <3> QED
      BY <1>1, <3>1, Zenon DEF IInv, ObjectInv
  <2>2. object' \subseteq left' \cup excused'
    <3>1. CASE pc \in {"open", "erred", "finish", "remove"}
      <4>1. \A p \in object : p \in File /\ task[p] # "none"
        BY <3>1, Zenon DEF IInv, TypeInv, ObjectInv, Object, Holding
      <4>2. object \subseteq up.started
        BY <3>1, <4>1, Zenon DEF IInv, ObjectInv, Holding
      <4> QED
        BY <1>2, <1>6, <3>1, <4>2, Zenon
    <3>2. CASE pc = "removing"
      BY <1>2, <1>6, <3>2, Zenon DEF IInv, ObjectInv
    <3>3. CASE pc = "marker"
      BY <1>1, <3>3, Zenon DEF IInv, CallInv
    <3>4. CASE pc = "releasing"
      BY <1>1, <3>4, Zenon DEF IInv, ObjectInv
    <3> QED
      BY <1>1, <3>1, <3>2, <3>3, <3>4, Zenon
  <2> QED
    BY <1>1, <2>1, <2>2, Zenon DEF ObjectInv, Holding
<1> QED
  BY <1>9, <1>10, <1>11, <1>12, <1>13, Zenon DEF IInv

\* The cleaner has awaited one of the uploads in flight.
LEMMA CleanerAwaitsStep ==
    ASSUME IInv, NEW p \in File \cup {Marker}, CleanerAwaits(p)
    PROVE  IInv'
<1>1. /\ p \in cleaner \cap Ended /\ cleaner' = cleaner \ {p}
      /\ UNCHANGED <<open, handing, stagedValues, up, task, object, objects, left, registered,
                     excused, pc>>
  BY Zenon DEF CleanerAwaits, sinkVars
<1>2. /\ cleaner \subseteq File /\ cleaner \subseteq left /\ pc = "gone"
      /\ Cardinality(cleaner) <= Concurrency
  BY <1>1, Zenon DEF IInv, TypeInv, TaskInv
<1>3. registered = <<>>
  BY <1>1, <1>2, Zenon DEF IInv, CallInv
<1>4. Cardinality(cleaner') <= Concurrency
  <2>1. cleaner' \subseteq cleaner /\ cleaner' \subseteq File
    BY <1>1, <1>2, Zenon
  <2>2. IsFiniteSet(cleaner) /\ Cardinality(cleaner) \in Nat /\ Cardinality(cleaner') \in Nat
    BY <1>2, <2>1, FilesFinite, Zenon
  <2>3. Cardinality(cleaner') <= Cardinality(cleaner)
    BY <2>1, <2>2, FS_Subset, Zenon
  <2> QED
    BY <1>2, <2>2, <2>3, SessionAssumption
<1>5. TypeInv'
  BY <1>1, <1>2, Zenon DEF IInv, TypeInv
<1>6. UploadInv'
  BY <1>1, Zenon DEF IInv, UploadInv
<1>7. TaskInv'
  <2>1. \A q \in File : task[q] = "running" => q \in up.running \cup cleaner'
    BY <1>1, Zenon DEF IInv, TaskInv, Ended
  <2> QED
    BY <1>1, <1>2, <1>4, <2>1, Zenon DEF IInv, TaskInv, Holding
<1>8. CallInv' /\ RegisteredWhole'
  BY <1>1, <1>3, Zenon DEF IInv, CallInv, RegisteredWhole
<1>9. ObjectInv'
  BY <1>1, Zenon DEF IInv, ObjectInv, Holding
<1> QED
  BY <1>5, <1>6, <1>7, <1>8, <1>9, Zenon DEF IInv

\* An upload ends, while the session holds it or while the cleaner awaits it.
LEMMA UploadEndsStep ==
    ASSUME IInv, NEW p \in File, UploadEnds(p)
    PROVE  IInv'
<1>1. PICK end \in {"ok", "failed"} :
        /\ task[p] = "running" /\ task' = [task EXCEPT ![p] = end]
        /\ object' \in {object, object \cup {p}} /\ (end = "ok" => object' = object \cup {p})
  BY Zenon DEF UploadEnds
<1>2. UNCHANGED <<open, handing, stagedValues, up, registered, objects, left, cleaner, excused, pc>>
  BY Zenon DEF UploadEnds, sinkVars, removalVars
<1>3. /\ task' \in [File -> TaskStates] /\ task'[p] = end
      /\ \A q \in File : q # p => task'[q] = task[q]
  BY <1>1, SinkTyped, Zenon DEF TaskStates
<1>4. UploadsOK(up, task')
  <2>1. \A i \in 1 .. Len(up.uploaded) : /\ up.uploaded[i] \in {None, i}
                                         /\ up.uploaded[i] = i => task'[i] = "ok"
    <3>1. /\ \A i \in 1 .. Len(up.uploaded) : /\ up.uploaded[i] \in {None, i}
                                              /\ up.uploaded[i] = i => task[i] = "ok"
          /\ Len(up.uploaded) \in Nat /\ Len(up.uploaded) <= MaxFiles
      BY SinkTyped DEF UploadsOK, Uploads
    <3>2. 1 .. Len(up.uploaded) \subseteq File
      BY <3>1, SessionAssumption DEF File
    <3> QED
      BY <1>1, <1>3, <3>1, <3>2, Zenon
  <2>2. \A j \in 1 .. Len(up.waiting) : /\ up.waiting[j] <= Len(up.uploaded)
                                        /\ task'[up.waiting[j]] = "none"
    <3>1. \A j \in 1 .. Len(up.waiting) : /\ up.waiting[j] <= Len(up.uploaded)
                                          /\ task[up.waiting[j]] = "none"
                                          /\ up.waiting[j] \in File
      BY SinkTyped DEF UploadsOK, Uploads
    <3> QED
      BY <1>1, <1>3, <3>1, Zenon
  <2>3. /\ \A q \in File : task'[q] # "none" => q <= Len(up.uploaded)
        /\ \A q \in up.started : task'[q] # "none"
    BY <1>1, <1>3, SinkTyped, Zenon DEF UploadsOK, Uploads
  <2> QED
    BY <2>1, <2>2, <2>3, SinkTyped, Zenon DEF UploadsOK
<1>5. p \in up.running \/ p \in cleaner
  BY <1>1, Zenon DEF IInv, TaskInv
<1>6. TypeInv'
  BY <1>1, <1>2, <1>3, Zenon DEF IInv, TypeInv, Object, TaskStates
<1>7. UploadInv'
  BY <1>2, <1>4, SinkTyped, Zenon DEF UploadInv
<1>8. TaskInv'
  <2>1. \A q \in File : task'[q] = "running" => q \in up.running \cup cleaner
    BY <1>3, Zenon DEF IInv, TaskInv
  <2> QED
    BY <1>2, <2>1, Zenon DEF IInv, TaskInv, Holding
<1>9. (Holding /\ p \in up.running) \/ (pc = "gone" /\ p \in cleaner /\ p \in left)
  BY <1>5, Zenon DEF IInv, TaskInv
<1>10. registered = <<>>
  BY <1>9, Zenon DEF IInv, CallInv, Holding
<1>11. CallInv' /\ RegisteredWhole'
  <2>1. pc # "commit" /\ pc # "marker"
    BY <1>9, Zenon DEF Holding
  <2> QED
    BY <1>2, <1>10, <2>1, Zenon DEF IInv, CallInv, RegisteredWhole
<1>12. ObjectInv'
  <2>1. \A q \in File : q \in object' => task'[q] \in {"ok", "failed"}
    BY <1>1, <1>3 DEF IInv, ObjectInv
  <2>2. CASE Holding /\ p \in up.running
    <3>1. \A q \in File : task'[q] # "none" => q \in up.started
      BY <1>1, <1>3, <2>2, Zenon DEF IInv, ObjectInv
    <3>2. \A q \in File : task'[q] = "ok" => q \in object'
      BY <1>1, <1>3, <2>2, Zenon DEF IInv, ObjectInv
    <3>3. Marker \notin object'
      <4>1. Marker \notin File
        BY SessionAssumption DEF Marker, File
      <4> QED
        BY <1>1, <2>2, <4>1, Zenon DEF IInv, ObjectInv
    <3> QED
      BY <1>2, <2>1, <2>2, <3>1, <3>2, <3>3, Zenon DEF ObjectInv, Holding
  <2>3. CASE pc = "gone" /\ p \in left
    <3> DEFINE R == {r.file : r \in Range(registered)}
    <3>1. object \subseteq left \cup R \cup excused
      BY <2>3, Zenon DEF IInv, ObjectInv
    <3>2. object' \subseteq left' \cup R' \cup excused'
      BY <1>1, <1>2, <2>3, <3>1, Zenon
    <3> HIDE DEF R
    <3> QED
      BY <1>2, <2>1, <2>3, <3>2, Zenon DEF ObjectInv, Holding, R
  <2> QED
    BY <1>9, <2>2, <2>3, Zenon
<1> QED
  BY <1>6, <1>7, <1>8, <1>11, <1>12, Zenon DEF IInv

\* A step that changes nothing keeps the invariant.
LEMMA StutterStep ==
    ASSUME IInv, UNCHANGED vars
    PROVE  IInv'
<1>1. UNCHANGED <<open, handing, stagedValues, up, task, object, objects, left, cleaner,
                  registered, excused, pc>>
  BY Zenon DEF vars
<1>2. TypeInv' /\ UploadInv'
  BY <1>1, Zenon DEF IInv, TypeInv, UploadInv
<1>3. TaskInv' /\ CallInv'
  BY <1>1, Zenon DEF IInv, TaskInv, CallInv, Holding
<1>4. ObjectInv'
  BY <1>1, Zenon DEF IInv, ObjectInv, Holding
<1>5. RegisteredWhole'
  BY <1>1, Zenon DEF IInv, RegisteredWhole
<1> QED
  BY <1>2, <1>3, <1>4, <1>5, Zenon DEF IInv

\* The awaits of wait_for_room and of finish.
LEMMA AwaitSteps ==
    ASSUME IInv, NEW C \in SUBSET File, NEW current \in BOOLEAN
    PROVE  /\ WaitForRoom(C, current) \/ (\E p \in File : RoomAwaits(p, C, current)) =>
                IInv' /\ (pc' = "open" /\ up'.runtime => up'.waiting = <<>>)
           /\ FinishStarts(C, current) \/ (\E p \in File : FinishAwaits(p, C, current)) => IInv'
<1>1. ASSUME WaitForRoom(C, current)
      PROVE  IInv' /\ (pc' = "open" /\ up'.runtime => up'.waiting = <<>>)
  BY <1>1, RoomTurnStep, Zenon DEF WaitForRoom, Turning
<1>2. ASSUME NEW p \in File, RoomAwaits(p, C, current)
      PROVE  IInv' /\ (pc' = "open" /\ up'.runtime => up'.waiting = <<>>)
  BY <1>2, RoomTurnStep, Zenon DEF RoomAwaits, Turning, Collectable
<1>3. ASSUME FinishStarts(C, current)
      PROVE  IInv'
  BY <1>3, FinishTurnStep, Zenon DEF FinishStarts, Turning
<1>4. ASSUME NEW p \in File, FinishAwaits(p, C, current)
      PROVE  IInv'
  <2>1. pc = "finish" /\ handing = <<>>
    BY <1>4, Zenon DEF FinishAwaits, IInv, CallInv
  <2> QED
    BY <1>4, <2>1, FinishTurnStep, Zenon DEF FinishAwaits, Turning, Collectable
<1> QED
  BY <1>1, <1>2, <1>3, <1>4, Zenon

\* Every step of the session, its uploads and its cleaner keeps the invariant.
LEMMA NextStep ==
    ASSUME IInv, [Next]_vars
    PROVE  IInv'
<1>1. ASSUME NEW part \in Partitions, NEW rolls \in BOOLEAN, WriteBatch(part, rolls)
      PROVE  IInv'
  BY <1>1, WriteBatchStep, Zenon
<1>2. ASSUME NEW C \in SUBSET File, NEW current \in BOOLEAN, WaitForRoom(C, current)
      PROVE  IInv'
  BY <1>2, AwaitSteps, Zenon
<1>3. CASE Finish \/ CancelRoom
  BY <1>3, SinkSteps, Zenon
<1>4. CASE Abort
  BY <1>4, AbortStep, Zenon
<1>5. CASE Dropped
  BY <1>5, DroppedStep, Zenon
<1>6. CASE Calls
  <2>1. ASSUME NEW C \in SUBSET File, NEW current \in BOOLEAN,
               \/ Stage(C, current) \/ WriteReturns(C, current) \/ FinishStarts(C, current)
               \/ \E p \in File : RoomAwaits(p, C, current) \/ FinishAwaits(p, C, current)
        PROVE  IInv'
    BY <2>1, StageStep, WriteReturnsStep, AwaitSteps, Zenon
  <2>2. CASE FinalizeFails
    BY <2>2, SinkSteps, Zenon
  <2>3. CASE \E p \in File : RemoveAwaits(p)
    BY <2>3, RemoveAwaitsStep, Zenon
  <2>4. CASE RemoveStarts
    BY <2>4, RemoveStartsStep, Zenon
  <2>5. CASE RemoveEnds
    BY <2>5, RemoveEndsStep, Zenon
  <2>6. CASE ReleaseEnds \/ MarkerUploaded \/ MarkerFails \/ Refused
    BY <2>6, ReleaseSteps, Zenon
  <2>7. CASE Committed \/ OutcomeUnknown
    BY <2>7, CommitSteps, Zenon
  <2> QED
    BY <1>6, <2>1, <2>2, <2>3, <2>4, <2>5, <2>6, <2>7, Zenon DEF Calls
<1>7. CASE Cleaning
  BY <1>7, CleanerAwaitsStep, RemoveObjectStep, Zenon DEF Cleaning
<1>8. CASE \E p \in File : UploadEnds(p)
  BY <1>8, UploadEndsStep, Zenon
<1>9. CASE UNCHANGED vars
  BY <1>9, StutterStep, Zenon
<1> QED
  BY <1>1, <1>2, <1>3, <1>4, <1>5, <1>6, <1>7, <1>8, <1>9, Zenon DEF Next

\* A session that has just begun satisfies the invariant.
LEMMA InitHolds == Init => IInv
<1> SUFFICES ASSUME Init PROVE IInv
  BY Zenon
<1>1. /\ open = <<>> /\ handing = <<>> /\ stagedValues = <<>> /\ up = NewUploads
      /\ task = [p \in File |-> "none"]
      /\ object = {} /\ objects = {} /\ left = {} /\ registered = <<>> /\ excused = {}
      /\ cleaner = {} /\ pc = "open"
  BY Zenon DEF Init
<1>2. /\ up \in Uploads /\ up.waiting = <<>> /\ up.running = {} /\ up.uploaded = <<>>
      /\ up.started = {} /\ up.settled = FALSE
  BY <1>1 DEF NewUploads, Uploads
<1>3. TypeInv
  BY <1>1, <1>2 DEF TypeInv, TaskStates
<1>4. UploadInv
  BY <1>1, <1>2, FS_EmptySet, SessionAssumption DEF UploadInv, UploadsOK
<1>5. TaskInv
  BY <1>1, <1>2, FS_EmptySet, SessionAssumption DEF TaskInv
<1>6. CallInv /\ ObjectInv /\ RegisteredWhole
  BY <1>1, <1>2, Zenon DEF CallInv, ObjectInv, RegisteredWhole, Holding
<1> QED
  BY <1>3, <1>4, <1>5, <1>6, Zenon DEF IInv

\* The inductive invariant holds in every state of a session, for all partitions,
\* limits and numbers of files.
THEOREM SessionInvariants == Spec => []IInv
<1>1. IInv /\ [Next]_vars => IInv'
  BY NextStep, Zenon
<1> QED
  BY <1>1, InitHolds, PTL DEF Spec

\* A commit registers every file written, in write order, under its partition and
\* with its object in place, whatever order the uploads end in (RegisteredWhole:
\* record, finish, finish_uploads).
THEOREM FilesAreRegistered == Spec => []RegisteredWhole
<1>1. IInv => RegisteredWhole
  BY Zenon DEF IInv
<1> QED
  BY <1>1, SessionInvariants, PTL

\* A session that is over leaves behind no object but those registered or excused,
\* wherever its future was dropped (NothingLeftBehind: Drop, remove_started,
\* release_after_failed_commit).
THEOREM NoObjectIsLeftBehind == Spec => []NothingLeftBehind
<1>1. IInv => NothingLeftBehind
  BY Zenon DEF IInv, ObjectInv, NothingLeftBehind, Quiet
<1> QED
  BY <1>1, SessionInvariants, PTL

\* No more than upload_concurrency uploads run at once, those of a dropped session
\* included (UploadsBounded: start_waiting).
THEOREM UploadsStayBounded == Spec => []UploadsBounded
<1>1. IInv => UploadsBounded
  <2> SUFFICES ASSUME IInv PROVE UploadsBounded
    BY Zenon
  <2> DEFINE R == {p \in File : task[p] = "running"}
  <2>1. R \subseteq up.running \/ R \subseteq cleaner
    BY Zenon DEF IInv, TaskInv, Holding
  <2>2. up.running \in SUBSET File /\ cleaner \in SUBSET File /\ R \in SUBSET File
    BY Zenon DEF IInv, TypeInv, Uploads
  <2>3. Cardinality(up.running) <= Concurrency /\ Cardinality(cleaner) <= Concurrency
    BY Zenon DEF IInv, UploadInv, UploadsOK, TaskInv
  <2> HIDE DEF R
  <2>4. /\ IsFiniteSet(up.running) /\ IsFiniteSet(cleaner) /\ Cardinality(R) \in Nat
        /\ Cardinality(up.running) \in Nat /\ Cardinality(cleaner) \in Nat
    BY <2>2, FilesFinite, Zenon
  <2>5. Cardinality(R) <= Cardinality(up.running) \/ Cardinality(R) <= Cardinality(cleaner)
    BY <2>1, <2>4, FS_Subset, Zenon
  <2>6. Cardinality(R) <= Concurrency
    BY <2>3, <2>4, <2>5, SessionAssumption
  <2> QED
    BY <2>6, Zenon DEF UploadsBounded, R
<1> QED
  BY <1>1, SessionInvariants, PTL

\* A write_batch_async that succeeds on a runtime leaves no file waiting
\* (RoomIsMade: wait_for_room).
THEOREM RoomIsAlwaysMade == Spec => RoomIsMade
<1> DEFINE Made == (\E p \in File, C \in SUBSET File, current \in BOOLEAN :
                        WaitForRoom(C, current) \/ RoomAwaits(p, C, current))
                   /\ pc' = "open" /\ up'.runtime => up'.waiting = <<>>
<1>1. IInv /\ [Next]_vars => [Made]_vars
  BY AwaitSteps, Zenon
<1>2. Spec => [][Made]_vars
  BY <1>1, SessionInvariants, PTL DEF Spec
<1> QED
  BY <1>2, Zenon DEF RoomIsMade

=============================================================================
