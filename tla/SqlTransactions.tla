--------------------------- MODULE SqlTransactions ---------------------------
(***************************************************************************)
(* Writers of one catalog running their transaction programs at once, as   *)
(* the database's isolation level lets them: which commits a SELECT sees,  *)
(* which statements wait for whom, and what a rollback leaves behind.      *)
(*                                                                         *)
(*   "repeatable"  InnoDB, DuckDB: the first plain SELECT fixes what every *)
(*                 later one sees; locking reads, UPDATE and DELETE see    *)
(*                 every commit and keep their row locks until the end.    *)
(*   "committed"   PostgreSQL: every statement sees every commit.          *)
(*   "deferred"    SQLite: the first statement fixes the view; the first   *)
(*                 write takes the database lock and fails on a view that  *)
(*                 is no longer current.                                   *)
(***************************************************************************)
EXTENDS SqlStatements, Integers, FiniteSets

CONSTANTS
    Sessions,   \* the writers
    Catalogs,   \* the kinds of catalog they may share: a backend and some of its calls
    Programs,   \* of each kind: the backend's programs, by call
    Calls,      \* ... the calls made
    Isolation,  \* ... the isolation level of its database
    MaxCalls    \* ... bound on the calls made

VARIABLES
    catalog,    \* which kind this catalog is
    log,        \* the committed snapshots, in commit order
    counters,   \* the id counters
    tx,         \* the transaction of each writer
    calls       \* the calls made so far

vars == <<catalog, log, counters, tx, calls>>

Level == Isolation[catalog]

Counters == {"next_snapshot_id", "next_catalog_id", "next_file_id", "next_column_id"}
Database == "database"
NoView == -1
NoRow == -1

Idle == [todo |-> <<>>, view |-> NoView, locks |-> {},
         base |-> 0, baseAt |-> 0, dated |-> 0, id |-> 0, version |-> 0, bumped |-> FALSE,
         row |-> NoRow, stats |-> NoView, swept |-> NoView, ids |-> {}, made |-> {},
         tokens |-> {}, refused |-> {}, ours |-> {}]

Init ==
    /\ catalog \in Catalogs
    /\ log = <<>>
    /\ counters = [c \in Counters |-> 0]
    /\ tx = [s \in Sessions |-> Idle]
    /\ calls = 0

-----------------------------------------------------------------------------
\* What the first n commits left in the catalog.

GreatestOf(S) == CHOOSE x \in S \cup {0} : \A y \in S : y <= x

HeadAt(n) == GreatestOf({log[i].id : i \in 1..n})
VersionAt(n) == GreatestOf({log[i].version : i \in 1..n})
NextRowAt(n) == Cardinality({i \in 1..n : log[i].row # NoRow})
Since(base, n) == {log[i] : i \in {k \in 1..n : log[k].id > base}}
MadeAt(n) == UNION {log[i].made : i \in 1..n}
CreatedAt(n) == "table+" \in MadeAt(n)

\* The live partition spec: the snapshot that set it, 0 for none.
SpecAt(n) ==
    LET last == GreatestOf({i \in 1..n :
                    log[i].made \cap {"partition", "unpartition"} # {}})
    IN  IF last = 0 \/ "unpartition" \in log[last].made THEN 0 ELSE log[last].id

-----------------------------------------------------------------------------
\* Running a statement.

Active(s) == tx[s].todo # <<>>
Current(s) == Head(tx[s].todo)
At(s, do) == Active(s) /\ Current(s).do = do

\* The lock a statement takes before it runs.
LockOf(s) ==
    IF Level # "deferred" THEN Current(s).lock
    ELSE IF Current(s).do \in Writing THEN Database ELSE NoLock

Holds(s, lock) == lock \in tx[s].locks
WaitsFor(s, o) ==
    /\ s # o /\ Active(s)
    /\ LockOf(s) # NoLock /\ Holds(o, LockOf(s))

\* A deferred SQLite transaction whose view is stale cannot start to write.
StaleUpgrade(s) ==
    /\ Level = "deferred"
    /\ Current(s).do \in Writing
    /\ tx[s].view \notin {NoView, Len(log)}

\* How many commits a plain SELECT of s sees.
Sees(s) ==
    IF Level \in {"repeatable", "deferred"} /\ tx[s].view # NoView
    THEN tx[s].view
    ELSE Len(log)

Runs(s, do) ==
    /\ At(s, do)
    /\ \A o \in Sessions : ~WaitsFor(s, o)
    /\ ~StaleUpgrade(s)

\* Statements that are, or end with, a plain SELECT.
Plain == {"select", "head", "peek", "draw", "allocate", "carry", "bump", "reconcile",
          "refuse", "refuse_ever", "refuse_changes", "fence", "look_up", "row_ids", "stats",
          "may_stop", "stop_created"}

\* The transaction after its statement: moved on, its view fixed, its lock
\* taken.
Ran(s) ==
    [tx[s] EXCEPT
        !.todo = Tail(@),
        !.view = IF Current(s).do \in Plain \/ Level = "deferred"
                 THEN Sees(s) ELSE @,
        !.locks = (@ \cup {LockOf(s)}) \ {NoLock}]

Continue(s, t) ==
    /\ tx' = [tx EXCEPT ![s] = t]
    /\ UNCHANGED <<catalog, log, calls>>

\* The transaction is gone and so are its locks; the caller has its error or
\* its early return.
RollBack(s) ==
    /\ tx' = [tx EXCEPT ![s] = Idle]
    /\ UNCHANGED <<catalog, log, counters, calls>>

\* The first id after those handed out and those s itself drew.
NextId(s, c) ==
    1 + GreatestOf({counters[c]} \cup {i[2] : i \in {j \in tx[s].ids : j[1] = c}})

-----------------------------------------------------------------------------
Begin(s) ==
    /\ ~Active(s)
    /\ calls < MaxCalls[catalog]
    /\ \E call \in Calls[catalog] :
           tx' = [tx EXCEPT ![s] = [Idle EXCEPT !.todo = Programs[catalog][call]]]
    /\ calls' = calls + 1
    /\ UNCHANGED <<catalog, log, counters>>

Read(s) ==
    /\ \/ Runs(s, "select")
       \/ Runs(s, "lock")
       \/ Runs(s, "may_stop")
       \/ Runs(s, "stop_unpartitioned") /\ SpecAt(Len(log)) # 0
       \/ Runs(s, "stop_created") /\ ~CreatedAt(Sees(s))
    /\ Continue(s, Ran(s))
    /\ UNCHANGED counters

ReadHead(s) ==
    /\ Runs(s, "head")
    /\ Continue(s, [Ran(s) EXCEPT !.base = HeadAt(Sees(s)), !.baseAt = Sees(s)])
    /\ UNCHANGED counters

DrawId(s) ==
    /\ Runs(s, "draw")
    /\ \E c \in Current(s).of :
           Continue(s, [Ran(s) EXCEPT !.ids = @ \cup {<<c, NextId(s, c)>>}])
    /\ UNCHANGED counters

NextValId(s) ==
    /\ Runs(s, "nextval")
    /\ \E c \in Current(s).of :
           /\ Continue(s, [Ran(s) EXCEPT !.ids = @ \cup {<<c, NextId(s, c)>>}])
           /\ counters' = [counters EXCEPT ![c] = NextId(s, c)]

AllocateSnapshot(s) ==
    /\ Runs(s, "allocate")
    /\ Continue(s, [Ran(s) EXCEPT !.id = HeadAt(Len(log)) + 1])
    /\ UNCHANGED counters

NextSnapshotId(s) ==
    /\ Runs(s, "next_snapshot")
    /\ LET id == counters["next_snapshot_id"] + 1
       IN  /\ Continue(s, [Ran(s) EXCEPT !.id = id])
           /\ counters' = [counters EXCEPT !["next_snapshot_id"] = id]

PeekNextSnapshot(s) ==
    /\ Runs(s, "peek")
    /\ Continue(s, [Ran(s) EXCEPT !.dated =
                       1 + GreatestOf({HeadAt(Sees(s)), counters["next_snapshot_id"]})])
    /\ UNCHANGED counters

CarrySchemaVersion(s) ==
    /\ Runs(s, "carry")
    /\ Continue(s, [Ran(s) EXCEPT !.version = VersionAt(Sees(s))])
    /\ UNCHANGED counters

Bumped(s) ==
    [Ran(s) EXCEPT !.version = VersionAt(Sees(s)) + 1, !.bumped = TRUE]

BumpSchemaVersion(s) ==
    /\ \/ Runs(s, "bump") /\ Continue(s, Bumped(s))
       \/ Runs(s, "raise") /\ Continue(s, [Ran(s) EXCEPT !.version = @ + 1])
    /\ UNCHANGED counters

ColumnsDiffer(s) ==
    \/ Current(s).of # {}
    \/ \E e \in Since(tx[s].base, Sees(s)) : "column" \in e.made

ReconcileColumns(s) ==
    /\ Runs(s, "reconcile")
    /\ Continue(s, IF ColumnsDiffer(s)
                   THEN [Bumped(s) EXCEPT !.made = @ \cup Current(s).of \cup {"column"}]
                   ELSE Ran(s))
    /\ UNCHANGED counters

\* The conflict the statement would report.
Conflicts(s) ==
    LET st == Current(s)
        Found(n) == \E e \in Since(tx[s].base, n) : e.made \cap st.of # {}
    IN  CASE st.do = "refuse" -> Found(Sees(s))
          [] st.do = "refuse_ever" -> MadeAt(Sees(s)) \cap st.of # {}
          [] st.do = "refuse_now" -> Found(Len(log))
          [] st.do = "refuse_changes" ->
                 TableConflict(st.of,
                     UNION {e.tokens : e \in Since(tx[s].base, Sees(s))})
          [] st.do = "misdated" -> tx[s].id # tx[s].dated
          [] st.do = "fence" -> SpecAt(Sees(s)) # SpecAt(tx[s].baseAt)

Checks == {"refuse", "refuse_ever", "refuse_now", "refuse_changes", "fence", "misdated"}

\* The transaction remembers what it ruled out.
Ruled(s) ==
    LET st == Current(s)
    IN  [Ran(s) EXCEPT
            !.refused = IF st.do \in {"refuse", "refuse_now"} THEN @ \cup st.of ELSE @,
            !.ours = IF st.do = "refuse_changes" THEN @ \cup st.of ELSE @]

Check(s) ==
    \E do \in Checks :
        /\ Runs(s, do)
        /\ \/ /\ ~Conflicts(s)
              /\ Continue(s, Ruled(s))
              /\ UNCHANGED counters
           \/ Conflicts(s) /\ RollBack(s)

Stop(s) ==
    /\ \/ Runs(s, "may_stop")
       \/ Runs(s, "stop_unpartitioned") /\ SpecAt(Len(log)) = 0
       \/ Runs(s, "stop_created") /\ CreatedAt(Sees(s))
    /\ RollBack(s)

WriteRows(s) ==
    /\ Runs(s, "write")
    /\ Continue(s, [Ran(s) EXCEPT !.made = @ \cup Current(s).of])
    /\ UNCHANGED counters

\* The rest of a program after its first statement st.
After(st, todo) ==
    SubSeq(todo, 1 + (CHOOSE k \in 1..Len(todo) :
                         todo[k] = st /\ \A j \in 1..(k - 1) : todo[j] # st), Len(todo))

LookUpRows(s) ==
    /\ Runs(s, "look_up")
    /\ LET rows == Current(s).of
       IN  Continue(s, IF rows \subseteq MadeAt(Sees(s))
                       THEN [Ran(s) EXCEPT !.todo = After(Write(rows), @)]
                       ELSE Ran(s))
    /\ UNCHANGED counters

SweepSetting(s) ==
    /\ Runs(s, "sweep")
    /\ Continue(s, [Ran(s) EXCEPT !.swept = Len(log)])
    /\ UNCHANGED counters

\* changes_made names the schema change before the write's own changes.
SchemaTokens(t) ==
    CASE "table+" \in t.made -> {"created_table"}
      [] t.bumped -> {"altered_table"}
      [] OTHER -> {}

RecordChanges(s) ==
    /\ Runs(s, "record")
    /\ Continue(s, [Ran(s) EXCEPT !.tokens = @ \cup Current(s).of \cup SchemaTokens(tx[s])])
    /\ UNCHANGED counters

TakeRowIds(s) ==
    /\ Runs(s, "row_ids")
    /\ Continue(s, [Ran(s) EXCEPT !.row = NextRowAt(Sees(s))])
    /\ UNCHANGED counters

MergeStats(s) ==
    /\ Runs(s, "stats")
    /\ Continue(s, [Ran(s) EXCEPT !.stats = Sees(s)])
    /\ UNCHANGED counters

\* COMMIT: a transaction that wrote or allocated a snapshot enters the log (a
\* setting has no snapshot of its own, and the id 0).  A setup keeps what it read
\* for the program's next transaction.
Entry(t) ==
    [id |-> t.id, baseAt |-> t.baseAt, version |-> t.version,
     row |-> t.row, stats |-> t.stats, swept |-> t.swept, ids |-> t.ids,
     made |-> t.made, tokens |-> t.tokens, refused |-> t.refused, ours |-> t.ours]

Enters(t) == t.id # 0 \/ t.made # {}

CommitTransaction(s) ==
    /\ Runs(s, "commit")
    /\ log' = IF Enters(tx[s]) THEN Append(log, Entry(tx[s])) ELSE log
    /\ counters' = [c \in Counters |->
                       GreatestOf({counters[c]} \cup
                           {i[2] : i \in {j \in tx[s].ids : j[1] = c}})]
    /\ tx' = [tx EXCEPT ![s] =
                 IF Len(tx[s].todo) = 1 \/ Enters(tx[s])
                 THEN [Idle EXCEPT !.todo = Tail(tx[s].todo)]
                 ELSE [@ EXCEPT !.todo = Tail(@), !.view = NoView, !.locks = {}]]
    /\ UNCHANGED <<catalog, calls>>

Step(s) ==
    \/ Read(s) \/ ReadHead(s) \/ DrawId(s) \/ NextValId(s)
    \/ AllocateSnapshot(s) \/ NextSnapshotId(s) \/ PeekNextSnapshot(s)
    \/ CarrySchemaVersion(s) \/ BumpSchemaVersion(s) \/ ReconcileColumns(s)
    \/ Check(s) \/ Stop(s) \/ WriteRows(s)
    \/ LookUpRows(s) \/ SweepSetting(s)
    \/ RecordChanges(s) \/ TakeRowIds(s) \/ MergeStats(s)
    \/ CommitTransaction(s)

\* A statement fails, the connection is lost, a lock wait times out, or the
\* process stops: the database rolls the transaction back.
Fail(s) == Active(s) /\ RollBack(s)

\* SQLITE_BUSY_SNAPSHOT.
FailStale(s) == Active(s) /\ StaleUpgrade(s) /\ RollBack(s)

\* The database breaks a cycle of waiting transactions by rolling one back.
Reaches[n \in Nat, s \in Sessions, o \in Sessions] ==
    \/ WaitsFor(s, o)
    \/ n > 0 /\ \E m \in Sessions : WaitsFor(s, m) /\ Reaches[n - 1, m, o]

LockCycle == {s \in Sessions : Reaches[Cardinality(Sessions), s, s]}

\* Mutant: nobody notices the cycle.
BreakCycle_Never(s) == s \in LockCycle /\ FALSE

BreakCycle(s) == s \in LockCycle /\ RollBack(s)

Next == \E s \in Sessions : Begin(s) \/ Step(s) \/ Fail(s) \/ FailStale(s) \/ BreakCycle(s)

\* The database runs every statement it can, notices a stale upgrade and breaks
\* every cycle; nothing obliges a caller to call, or a connection to fail.
Fairness ==
    \A s \in Sessions : WF_vars(Step(s) \/ FailStale(s) \/ BreakCycle(s))

Spec == Init /\ [][Next]_vars /\ Fairness
=============================================================================
