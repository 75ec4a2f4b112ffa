---------------------------- MODULE CatalogReads ----------------------------
(***************************************************************************)
(* Readers of one catalog making calls on a provider, while writers commit *)
(* to the catalog and a migration may bring it up to date: which           *)
(* connection each statement runs on, which state of the catalog it sees,  *)
(* what its error means, and what the provider remembers.                  *)
(*                                                                         *)
(* A reader calls methods one at a time, each statement on a connection of *)
(* its own, or between begin_consistent_read and the end or drop of that   *)
(* read.  A multicatalog reader may be bound to a read session, one        *)
(* connection several readers take turns on.                               *)
(***************************************************************************)
EXTENDS ReadStatements, Integers, FiniteSets

CONSTANTS
    Readers,     \* the tasks that read, on clones of one provider
    Providers,   \* the kinds of provider
    Capabilities, \* of each kind: the optional tables and columns it probes
    PoolSize,    \* ... the connections of its pool
    Plans,       \* what the readers may set out to do
    Legacy,      \* of each plan and kind: the optional tables and columns there may be
    Methods,     \* ... the methods each reader calls, as programs
    MaxCalls,    \* of each plan: bound on the calls of each reader
    MaxChanges   \* of each plan: bound on the changes writers make

VARIABLES
    provider,    \* which kind of provider this is
    plan,        \* what its readers set out to do
    history,     \* the states of the catalog, in commit order
    free,        \* the connections left in the pool
    conn,        \* each reader's consistent read, and the read session
    openReads,   \* SessionConnection.open_reads
    ending,      \* the connections a spawned task is rolling back
    late,        \* the session reads a spawned task is to end
    memo,        \* what the provider's clones remember
    reader,      \* where each reader is
    calls        \* the calls each reader has made

vars == <<provider, plan, history, free, conn, openReads, ending, late, memo, reader, calls>>

Session == "session"
Pool == "pool"
Nobody == "nobody"

IsPostgres == provider \in {"postgres", "multicatalog"}
\* The databases whose transactions see the tables of their snapshot only.
OwnSchema == provider \in {"sqlite", "duckdb"}

NoConnection == [open |-> FALSE, tx |-> "none", view |-> 0, holder |-> Nobody]

AtRest == [todo |-> <<>>, caps |-> {}, at |-> 0, since |-> 0, guard |-> Nobody,
           found |-> [table |-> FALSE, head |-> 0], out |-> "none", broke |-> FALSE,
           lack |-> {}, own |-> FALSE, bound |-> FALSE, counted |-> FALSE, seen |-> {}]

Unknown == [table |-> "unknown", through |-> 0]

Init ==
    /\ provider \in Providers
    /\ plan \in Plans
    /\ \E has \in Legacy[plan][provider] :
           history = <<[head |-> 1, rels |-> has \cup {"inlined_data"}, deleted |-> 0]>>
    /\ free = PoolSize[provider]
    /\ conn = [c \in Readers \cup {Session} |-> NoConnection]
    /\ openReads = 0
    /\ ending = 0
    /\ late = 0
    /\ memo = [caps |-> {}, deletes |-> Unknown, readable |-> FALSE]
    /\ reader = [r \in Readers |-> AtRest]
    /\ calls = [r \in Readers |-> 0]

Now == Len(history)

-----------------------------------------------------------------------------
\* The writers: a commit, the first inlined deletion, a migration, and the drop of
\* a table that holds nothing a surviving snapshot sees.

Change(state) ==
    /\ Now <= MaxChanges[plan]
    /\ history' = Append(history, state)
    /\ UNCHANGED <<provider, plan, free, conn, openReads, ending, late, memo, reader, calls>>

CommitSnapshot == Change([history[Now] EXCEPT !.head = @ + 1])

CommitInlinedDelete ==
    /\ "inlined_delete" \notin history[Now].rels
    /\ Change([head |-> history[Now].head + 1,
               rels |-> history[Now].rels \cup {"inlined_delete"},
               deleted |-> history[Now].head + 1])

Migrate ==
    /\ ~(Optional \subseteq history[Now].rels)
    /\ Change([history[Now] EXCEPT !.rels = @ \cup Optional])

DropInlined ==
    \E t \in Transient \cap history[Now].rels :
        Change([history[Now] EXCEPT !.rels = @ \ {t},
                                    !.deleted = IF t = "inlined_delete" THEN 0 ELSE @])

-----------------------------------------------------------------------------
\* Connections.

Active(r) == reader[r].todo # <<>>
Current(r) == Head(reader[r].todo)

\* The connection a statement of r runs on: the consistent read's, the read
\* session's while it is open, or one from the pool (catalog_connection,
\* on_connection_in_transaction).
Runs(r) ==
    IF reader[r].own THEN r
    ELSE IF reader[r].bound /\ conn[Session].open THEN Session
    ELSE Pool

InTransaction(c) == c # Pool /\ conn[c].tx # "none"

\* A read on the pool, and in a read of a pooled provider, first has the catalog's
\* version checked, once.
NeedsCheck(r) == ~memo.readable /\ (provider # "multicatalog" \/ Runs(r) = Pool)

Available(c) == IF c = Pool THEN free > 0 ELSE conn[c].holder = Nobody

\* The state of the catalog a statement on connection c sees.
SeenOn(c) == IF InTransaction(c) /\ conn[c].view # 0 THEN conn[c].view ELSE Now

\* The tables and columns a statement on c can name.
Named(c) == IF OwnSchema THEN history[SeenOn(c)].rels ELSE history[Now].rels

\* MySQL refuses a transaction a table defined, or altered, after its snapshot.
Changed(c) ==
    LET new == history[Now].rels \ history[SeenOn(c)].rels
    IN  IF provider = "mysql"
        THEN new \cup {TableOf[x] : x \in new \cap OptionalColumns} ELSE {}

\* The connections after a statement on c: the first one fixes the snapshot.
Seen(c) ==
    IF InTransaction(c) THEN [conn EXCEPT ![c].view = SeenOn(c)] ELSE conn

-----------------------------------------------------------------------------
\* Running a statement.

\* The statements that run on the connection their helper keeps.
Held == {"on", "on_probe", "on_learn", "on_tables", "on_page"}

Place(r) == IF Current(r).do \in Held THEN reader[r].guard ELSE Runs(r)

Sendable(r) ==
    \/ Current(r).do \in Held
    \/ ~NeedsCheck(r) /\ Available(Runs(r))

At(r, dos) == Active(r) /\ Current(r).do \in dos

Consistent(r) == reader[r].own \/ (reader[r].counted /\ conn[Session].open)

\* The reader after a statement on c (Nobody: no statement was sent) that leaves it
\* with `rest` to do, and ends its call when that is nothing.  A failed statement
\* ends a transaction when `aborts`.
Move(r, t, c, rest, out, aborts) ==
    LET done == rest = <<>>
        failed == aborts /\ c \notin {Pool, Nobody} /\ conn[c].tx # "none"
    IN  /\ reader' = [reader EXCEPT ![r] =
               [t EXCEPT !.todo = rest,
                         !.seen = IF Consistent(r) /\ c # Nobody THEN @ \cup {SeenOn(c)} ELSE @,
                         !.out = IF done THEN out ELSE @,
                         !.caps = IF done THEN {} ELSE @,
                         !.guard = IF done THEN Nobody ELSE @,
                         !.broke = @ \/ failed]]
        /\ free' = IF done /\ t.guard = Pool THEN free + 1 ELSE free
        /\ conn' = [k \in DOMAIN conn |->
               [(IF c = Nobody THEN conn ELSE Seen(c))[k] EXCEPT
                   !.tx = IF k = c /\ failed THEN "failed" ELSE @,
                   !.holder = IF done /\ @ = r THEN Nobody ELSE @]]
        /\ UNCHANGED <<provider, plan, history, openReads, ending, late, calls>>

After(r, n) == SubSeq(reader[r].todo, n + 2, Len(reader[r].todo))

Goes(r, t, c) == Move(r, t, c, After(r, 0), "ok", FALSE)
Returns(r, t, c) == Move(r, t, c, <<>>, "ok", FALSE)
Fails(r, t, c, out) == Move(r, t, c, <<>>, out, IsPostgres)

\* What the statement reads, with the columns the capabilities have, and what of
\* it is not there.
Reads(r) ==
    Current(r).of \cup UNION {u.reads : u \in {v \in Current(r).uses : v.where \in reader[r].caps}}
Missing(r) == (Reads(r) \cap (Optional \cup Transient)) \ Named(Place(r))
Redefined(r) == Reads(r) \cap Changed(Place(r))

MissingAsNone_InTransaction(r) == Current(r).missing # "fail"

\* missing_table_as_none: inside a transaction PostgreSQL's error is returned.
MissingAsNone(r) ==
    Current(r).missing # "fail" /\ ~(IsPostgres /\ InTransaction(Place(r)))

\* is_absent_inlined_deletion_table.
RedefinedAsNone(r) == Current(r).missing # "fail" /\ Redefined(r) = {"inlined_delete"}

Ended(c) == c \in DOMAIN conn /\ conn[c].tx = "failed"

\* What the statement comes to.
Outcome(r) ==
    IF Ended(Place(r)) THEN "error"
    ELSE IF Missing(r) # {}
         THEN IF MissingAsNone(r) THEN Current(r).missing ELSE "missing"
    ELSE IF Redefined(r) # {}
         THEN IF RedefinedAsNone(r) THEN Current(r).missing ELSE "missing"
    ELSE "ok"

\* The reader goes on from an outcome; t is the reader if the statement answered.
Continue(r, t, c) ==
    LET absent == Missing(r) \cup Redefined(r)
        aborts == IsPostgres /\ absent # {}
    IN  CASE Outcome(r) \in {"error", "missing"} ->
                 Fails(r, [reader[r] EXCEPT !.lack = (absent \cap Optional) \ history[Now].rels],
                       c, Outcome(r))
          [] Outcome(r) = "return" -> Move(r, reader[r], c, <<>>, "ok", aborts)
          [] Outcome(r) = "none" -> Move(r, reader[r], c, After(r, 0), "ok", aborts)
          [] OTHER -> Goes(r, t, c)

\* A read of the inlined-deletion table found it.
Answered(r) ==
    [reader[r] EXCEPT !.found.table = @ \/ "inlined_delete" \in Current(r).of]

Execute(r) ==
    /\ At(r, {"query", "on"})
    /\ Current(r).needs \subseteq reader[r].caps
    /\ Sendable(r)
    /\ Continue(r, Answered(r), Place(r))
    /\ UNCHANGED memo

\* A statement for what the capabilities do not have is not sent.
NotSent(r) ==
    /\ At(r, {"query", "on"})
    /\ ~(Current(r).needs \subseteq reader[r].caps)
    /\ IF Current(r).missing = "return"
       THEN Returns(r, reader[r], Nobody) ELSE Goes(r, reader[r], Nobody)
    /\ UNCHANGED memo

-----------------------------------------------------------------------------
\* What the capability probe finds: PostgreSQL looks tables up as they are now,
\* and columns in its transaction's snapshot.
Found(c) ==
    IF IsPostgres
    THEN (history[Now].rels \cap OptionalTables)
             \cup (history[SeenOn(c)].rels \cap OptionalColumns)
    ELSE Named(c)

Probed == Capabilities[provider]

\* schema_capabilities: PostgreSQL keeps each capability found and asks for the
\* others; the other providers keep the answer once it is complete.
Known(c) ==
    IF IsPostgres THEN memo.caps \cup (Found(c) \cap Probed) ELSE Found(c) \cap Probed

ProbeSchema(r) ==
    /\ At(r, {"probe", "on_probe"})
    /\ memo.caps # Probed
    /\ Sendable(r)
    /\ LET c == Place(r)
       IN  IF Ended(c) THEN Fails(r, reader[r], c, "error") /\ UNCHANGED memo
           ELSE /\ Goes(r, [reader[r] EXCEPT !.caps = Known(c)], c)
                /\ memo' = IF IsPostgres \/ Known(c) = Probed
                           THEN [memo EXCEPT !.caps = @ \cup Known(c)] ELSE memo

ProbeMemo(r) ==
    /\ At(r, {"probe", "on_probe"})
    /\ memo.caps = Probed
    /\ Goes(r, [reader[r] EXCEPT !.caps = memo.caps], Nobody)
    /\ UNCHANGED memo

\* A look for one table or column in the statement's own snapshot.
LearnOne(r) ==
    /\ At(r, {"learn", "on_learn"})
    /\ Sendable(r)
    /\ Continue(r, [reader[r] EXCEPT !.caps =
                       @ \cup (Current(r).looks \cap Found(Place(r)))], Place(r))
    /\ UNCHANGED memo

\* The registry lists the inlined data table as the statement's snapshot has it.
ListTables(r) ==
    /\ At(r, {"tables", "on_tables"})
    /\ Sendable(r)
    /\ LET c == Place(r)
       IN  IF Outcome(r) = "ok" /\ "inlined_data" \notin history[SeenOn(c)].rels
           THEN Move(r, reader[r], c, After(r, Current(r).n), "ok", FALSE)
           ELSE Continue(r, reader[r], c)
    /\ UNCHANGED memo

\* A narrowed page the database fails to run is read again without its filter,
\* save inside a transaction that PostgreSQL has ended.
Unnarrowed(r) ==
    [Current(r) EXCEPT !.do = IF Current(r).do = "page" THEN "query" ELSE "on"]

ListPage(r) ==
    /\ At(r, {"page", "on_page"})
    /\ Sendable(r)
    /\ LET c == Place(r)
       IN  \/ Continue(r, reader[r], c)
           \/ /\ Outcome(r) = "ok"
              /\ IF IsPostgres /\ InTransaction(c)
                 THEN Fails(r, reader[r], c, "error")
                 ELSE Move(r, reader[r], c, <<Unnarrowed(r)>> \o After(r, 0), "ok",
                           provider = "duckdb")
    /\ UNCHANGED memo

-----------------------------------------------------------------------------
\* The inlined-deletion table (InlinedDeletionTables).

Lower(a, b) == IF a <= b THEN a ELSE b
Higher(a, b) == IF a <= b THEN b ELSE a

\* known: what the memo says of a read at a snapshot.
KnownDeletes(at) ==
    CASE memo.deletes.table = "exists" -> "exists"
      [] memo.deletes.table = "absent" /\ at <= memo.deletes.through -> "absent"
      [] OTHER -> "unknown"

\* to_regclass looks the table up as it is now; the head is the snapshot's.
LookForTable(r) ==
    /\ At(r, {"look"})
    /\ LET known == KnownDeletes(reader[r].at)
           c == Place(r)
       IN  \/ known = "exists" /\ Move(r, reader[r], Nobody, After(r, 1), "ok", FALSE)
           \/ known = "absent" /\ Returns(r, [reader[r] EXCEPT !.found.table = FALSE], Nobody)
           \/ /\ known = "unknown"
              /\ Sendable(r)
              /\ Continue(r, [reader[r] EXCEPT !.found =
                     [table |-> "inlined_delete" \in history[Now].rels,
                      head |-> history[SeenOn(c)].head]], c)
    /\ UNCHANGED memo

Recorded_BeyondHead(at, found) ==
    IF found.table \/ memo.deletes.table = "exists" THEN [table |-> "exists", through |-> 0]
    ELSE [table |-> "absent", through |-> Higher(memo.deletes.through, at)]

\* record: absence holds up to the lower of the snapshot read and the head.
Recorded(at, found) ==
    LET old == memo.deletes
        through == Lower(at, found.head)
    IN  IF found.table \/ old.table = "exists" THEN [table |-> "exists", through |-> 0]
        ELSE [table |-> "absent",
              through |-> IF old.table = "absent" THEN Higher(old.through, through) ELSE through]

RecordTable(r) ==
    /\ At(r, {"note"})
    /\ memo' = [memo EXCEPT !.deletes = Recorded(reader[r].at, reader[r].found)]
    /\ IF reader[r].found.table THEN Goes(r, reader[r], Nobody)
       ELSE Returns(r, reader[r], Nobody)

\* rows_or_forget: a read that finds the table gone, or fails, forgets it.
ReadDeletions(r) ==
    /\ At(r, {"deletes"})
    /\ Sendable(r)
    /\ Continue(r, Answered(r), Place(r))
    /\ memo' = IF Outcome(r) = "ok" THEN memo ELSE [memo EXCEPT !.deletes = Unknown]

-----------------------------------------------------------------------------
\* Steps that send no statement.

TakeGuard(r) ==
    /\ At(r, {"take"})
    /\ ~NeedsCheck(r) /\ Available(Runs(r))
    /\ LET c == Runs(r)
       IN  /\ reader' = [reader EXCEPT ![r].todo = Tail(@), ![r].guard = c]
           /\ free' = IF c = Pool THEN free - 1 ELSE free
           /\ conn' = IF c = Pool THEN conn ELSE [conn EXCEPT ![c].holder = r]
    /\ UNCHANGED <<provider, plan, history, openReads, ending, late, memo, calls>>

DropGuard(r) ==
    /\ At(r, {"drop"})
    /\ LET c == reader[r].guard
           rest == Tail(reader[r].todo)
       IN  /\ reader' = [reader EXCEPT ![r].todo = rest, ![r].guard = Nobody,
                                       ![r].caps = IF rest = <<>> THEN {} ELSE @,
                                       ![r].out = IF rest = <<>> THEN "ok" ELSE @]
           /\ free' = IF c = Pool THEN free + 1 ELSE free
           /\ conn' = IF c = Pool THEN conn ELSE [conn EXCEPT ![c].holder = Nobody]
    /\ UNCHANGED <<provider, plan, history, openReads, ending, late, memo, calls>>

Decide(r) ==
    /\ LET st == Current(r)
           has == st.needs \subseteq reader[r].caps
           skip == Move(r, reader[r], Nobody, After(r, st.n), "ok", FALSE)
       IN  \/ At(r, {"having"}) /\ (IF has THEN Goes(r, reader[r], Nobody) ELSE skip)
           \/ At(r, {"lacking"}) /\ (IF has THEN skip ELSE Goes(r, reader[r], Nobody))
           \/ At(r, {"unless"})
                  /\ (IF has THEN Goes(r, reader[r], Nobody) ELSE Returns(r, reader[r], Nobody))
           \/ At(r, {"maybe"}) /\ (Goes(r, reader[r], Nobody) \/ skip)
           \/ At(r, {"may_return"})
                  /\ (Goes(r, reader[r], Nobody) \/ Returns(r, reader[r], Nobody))
    /\ UNCHANGED memo

-----------------------------------------------------------------------------
\* Consistent reads and read sessions.

Idle(r) == ~Active(r)
Reading(r) == reader[r].own \/ reader[r].counted
Released(r) == [AtRest EXCEPT !.bound = reader[r].bound]
\* A consistent read of DuckDB is on a clone of the shared connection.
FromPool == IF provider = "duckdb" THEN 0 ELSE 1

\* require_readable, before a read session, a consistent read or a statement.
CheckReadable(r) ==
    /\ NeedsCheck(r)
    /\ \/ Idle(r) /\ calls[r] < MaxCalls[plan][r]
       \/ At(r, {"query", "probe", "learn", "tables", "page", "look", "deletes", "take"})
    /\ IF provider = "duckdb" THEN Available(Runs(r)) ELSE free > 0
    /\ memo' = [memo EXCEPT !.readable = TRUE]
    /\ UNCHANGED <<provider, plan, history, free, conn, openReads, ending, late, reader, calls>>

\* ReadTransaction::begin: DuckDB fixes the snapshot here, the others at the first
\* statement.
BeginRead(r) ==
    /\ Idle(r) /\ ~Reading(r) /\ calls[r] < MaxCalls[plan][r]
    /\ Runs(r) = Pool
    /\ memo.readable
    /\ free > 0
    /\ conn' = [conn EXCEPT ![r] = [open |-> TRUE, tx |-> "open", holder |-> Nobody,
                                    view |-> IF provider = "duckdb" THEN Now ELSE 0]]
    /\ free' = free - FromPool
    /\ reader' = [reader EXCEPT ![r] = [Released(r) EXCEPT !.own = TRUE]]
    /\ UNCHANGED <<provider, plan, history, openReads, ending, late, memo, calls>>

\* ReadTransaction::commit: a connection whose COMMIT fails is closed, and the
\* pool may open another.
EndRead(r) ==
    /\ Idle(r) /\ reader[r].own
    /\ conn' = [conn EXCEPT ![r] = NoConnection]
    /\ free' = free + FromPool
    /\ reader' = [reader EXCEPT ![r] = Released(r)]
    /\ UNCHANGED <<provider, plan, history, openReads, ending, late, memo, calls>>

\* A read dropped without its end: a spawned task rolls it back.
DropRead(r) ==
    /\ Idle(r) /\ reader[r].own
    /\ conn' = [conn EXCEPT ![r] = NoConnection]
    /\ ending' = ending + FromPool
    /\ reader' = [reader EXCEPT ![r] = Released(r)]
    /\ UNCHANGED <<provider, plan, history, free, openReads, late, memo, calls>>

\* The task's ROLLBACK, or the close of a connection that fails it.
RollBack ==
    /\ ending > 0
    /\ ending' = ending - 1
    /\ free' = free + 1
    /\ UNCHANGED <<provider, plan, history, conn, openReads, late, memo, reader, calls>>

\* begin_read_session, and the providers bound to it.
BeginSession ==
    /\ provider = "multicatalog"
    /\ \A r \in Readers : Idle(r) /\ ~Reading(r) /\ ~reader[r].bound
    /\ memo.readable /\ free > 0
    /\ free' = free - 1
    /\ conn' = [conn EXCEPT ![Session].open = TRUE]
    /\ \E S \in SUBSET Readers \ {{}} :
           reader' = [r \in Readers |-> [reader[r] EXCEPT !.bound = r \in S]]
    /\ UNCHANGED <<provider, plan, history, openReads, ending, late, memo, calls>>

\* A consistent read on the session: the first begins the transaction, and one
\* that cannot ends the session.
BeginSessionRead(r) ==
    /\ Idle(r) /\ ~Reading(r) /\ calls[r] < MaxCalls[plan][r]
    /\ Runs(r) = Session
    /\ conn[Session].holder = Nobody
    /\ \/ /\ conn' = IF openReads = 0
                     THEN [conn EXCEPT ![Session].tx = "open", ![Session].view = 0] ELSE conn
          /\ openReads' = openReads + 1
          /\ reader' = [reader EXCEPT ![r] = [Released(r) EXCEPT !.counted = TRUE]]
          /\ UNCHANGED free
       \/ /\ openReads = 0
          /\ conn' = [conn EXCEPT ![Session] = NoConnection]
          /\ free' = free + 1
          /\ UNCHANGED <<openReads, reader>>
    /\ UNCHANGED <<provider, plan, history, ending, late, memo, calls>>

CountOut_CommitsEarly ==
    /\ openReads' = IF openReads > 1 THEN openReads - 1 ELSE 0
    /\ conn' = [conn EXCEPT ![Session].tx = "none", ![Session].view = 0]
    /\ UNCHANGED free

\* SessionRead::end: the last read commits, or loses the connection.
CountOut ==
    \/ /\ openReads > 1
       /\ openReads' = openReads - 1
       /\ UNCHANGED <<conn, free>>
    \/ /\ openReads <= 1
       /\ openReads' = 0
       /\ \/ /\ conn' = [conn EXCEPT ![Session].tx = "none", ![Session].view = 0]
             /\ UNCHANGED free
          \/ /\ openReads = 1 /\ conn[Session].open
             /\ conn' = [conn EXCEPT ![Session] = NoConnection]
             /\ free' = free + 1

EndSessionRead(r) ==
    /\ Idle(r) /\ reader[r].counted
    /\ conn[Session].holder = Nobody
    /\ CountOut
    /\ reader' = [reader EXCEPT ![r] = Released(r)]
    /\ UNCHANGED <<provider, plan, history, ending, late, memo, calls>>

\* Drop of a SessionRead: counted out at once when no statement runs on the
\* session, the last one ending the session, else by a spawned task.
DropSessionRead(r) ==
    /\ Idle(r) /\ reader[r].counted
    /\ IF conn[Session].holder # Nobody
       THEN late' = late + 1 /\ UNCHANGED <<conn, openReads, ending>>
       ELSE /\ UNCHANGED late
            /\ IF openReads > 1
               THEN openReads' = openReads - 1 /\ UNCHANGED <<conn, ending>>
               ELSE /\ openReads' = 0
                    /\ conn' = [conn EXCEPT ![Session] = NoConnection]
                    /\ ending' = IF conn[Session].open THEN ending + 1 ELSE ending
    /\ reader' = [reader EXCEPT ![r] = Released(r)]
    /\ UNCHANGED <<provider, plan, history, free, memo, calls>>

EndLate ==
    /\ late > 0
    /\ conn[Session].holder = Nobody
    /\ late' = late - 1
    /\ CountOut
    /\ UNCHANGED <<provider, plan, history, ending, memo, reader, calls>>

\* MetadataReadSession::end, or the drop of its last handle: the open reads end
\* with it.
EndSession ==
    /\ conn[Session].open /\ conn[Session].holder = Nobody
    /\ conn' = [conn EXCEPT ![Session] = NoConnection]
    /\ openReads' = 0
    /\ free' = free + 1
    /\ UNCHANGED <<provider, plan, history, ending, late, memo, reader, calls>>

-----------------------------------------------------------------------------
ReadsDeletes(program) ==
    \E i \in 1..Len(program) :
        program[i].do = "look" \/ "inlined_delete" \in program[i].of

Call(r) ==
    /\ Idle(r) /\ calls[r] < MaxCalls[plan][r]
    /\ \E program \in Methods[plan][provider][r] :
           \E at \in IF ReadsDeletes(program) THEN 1..(history[Now].head + 1) ELSE {0} :
               reader' = [reader EXCEPT ![r] =
                   [AtRest EXCEPT !.todo = program, !.at = at, !.since = Now,
                                  !.own = reader[r].own, !.bound = reader[r].bound,
                                  !.counted = reader[r].counted, !.seen = reader[r].seen]]
    /\ calls' = [calls EXCEPT ![r] = @ + 1]
    /\ UNCHANGED <<provider, plan, history, free, conn, openReads, ending, late, memo>>

Step(r) ==
    \/ Execute(r) \/ NotSent(r) \/ ProbeSchema(r) \/ ProbeMemo(r) \/ LearnOne(r)
    \/ ListTables(r) \/ ListPage(r) \/ LookForTable(r) \/ RecordTable(r) \/ ReadDeletions(r)
    \/ TakeGuard(r) \/ DropGuard(r) \/ Decide(r)
    \/ (Active(r) /\ CheckReadable(r))

Finish(r) == EndRead(r) \/ DropRead(r) \/ EndSessionRead(r) \/ DropSessionRead(r)

Next ==
    \/ CommitSnapshot \/ CommitInlinedDelete \/ Migrate \/ DropInlined
    \/ \E r \in Readers : \/ Step(r) \/ Call(r) \/ CheckReadable(r)
                          \/ BeginRead(r) \/ BeginSessionRead(r) \/ Finish(r)
    \/ RollBack \/ EndLate \/ BeginSession \/ EndSession

Spec == Init /\ [][Next]_vars
=============================================================================
