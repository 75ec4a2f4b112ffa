--------------------------- MODULE ReadInvariant ----------------------------
(***************************************************************************)
(* The inductive invariant of TableReads, beside that of TableWrites.      *)
(*                                                                         *)
(* A fill that the head has not left behind holds exactly what its         *)
(* statements would return now: RInv follows it through its phases, from   *)
(* its first read to the entry the memo keeps, while snapshots expire.  An *)
(* absence holds at every later head, since a commit's inlined rows begin  *)
(* above the head.                                                         *)
(***************************************************************************)
EXTENDS TableReads

AtRest == {"closed", "done", "failed"}
Phases == AtRest \cup {"bind", "pick", "serve", "deletes", "registry", "rows",
                       "page", "head", "keep", "view"}

\* No inlined row begins by x, now or later.
AbsenceHolds(x) == x \in 0 .. Head /\ NoRowThrough(x)

\* The listing of the files up to n.
ListedThrough(n, s) == {Listed(f, s) : f \in {g \in DataFilesAt(s) : g <= n}}

\* The reads are those a query at s would make.
Whole(reads, s) ==
    /\ reads.deletes = DeletesRead(s)
    /\ reads.rows = StoredInlinedAt(s)
    /\ reads.files = {Listed(f, s) : f \in DataFilesAt(s)}

\* What a fill has read in each of its phases.
Progress(c) ==
    /\ c.phase \in {"registry", "rows", "page", "head"} =>
           c.reads.deletes = DeletesRead(c.at)
    /\ c.phase \in {"registry", "rows"} =>
           c.reads.rows = IF c.reading = "rows" THEN {} ELSE StoredInlinedAt(c.at)
    /\ c.phase \in {"page", "head"} => c.reads.rows = StoredInlinedAt(c.at)
    /\ c.phase = "page" => c.reads.files = ListedThrough(c.after, c.at)
    /\ c.phase \in {"head"} => c.reads.files = {Listed(f, c.at) : f \in DataFilesAt(c.at)}
    /\ c.phase \in {"view", "keep"} => Whole(c.reads, c.at)

ReadsShape(r) ==
    /\ DOMAIN r = DOMAIN NoReads
    /\ AbsenceHolds(r.absent)

QueryShape(c) ==
    /\ DOMAIN c = DOMAIN NoQuery
    /\ c.phase \in Phases /\ c.fill \in BOOLEAN /\ c.reading \in {"rows", "ids"}
    /\ c.at \in Nat /\ c.after \in Nat /\ c.seen \in Nat /\ c.head \in 0 .. Head
    /\ ReadsShape(c.reads)

QueryOK(c) ==
    /\ QueryShape(c)
    /\ c.phase \notin AtRest => c.at \in 0 .. Head /\ TableExistsAt(c.at)
    /\ c.phase \in {"bind", "pick", "deletes"} =>
           c.reads = NoReads /\ c.after = 0 /\ c.reading = "rows"
    /\ c.phase \in {"registry", "rows"} => c.reads.files = {} /\ c.after = 0
    /\ c.phase = "rows" => c.seen # 0
    /\ c.phase \in {"head", "keep"} => c.fill
    /\ c.fill /\ c.head = Head /\ c.at \in snapshots => Progress(c)

MemoOK(m) ==
    /\ DOMAIN m = DOMAIN EmptyMemo
    /\ m.head \in 0 .. Head
    /\ AbsenceHolds(m.absentThrough)
    /\ \A s \in DOMAIN m.tables :
           /\ s \in 0 .. Head /\ TableExistsAt(s)
           /\ ReadsShape(m.tables[s])
           /\ m.head = Head /\ s \in snapshots => Whole(m.tables[s], s)

\* Of the table, that the head bounds the snapshots and the file ids.
TableOK ==
    /\ snapshots \subseteq Nat
    /\ Head \in snapshots
    /\ \A s \in snapshots : s <= Head
    /\ tableEnd \in Nat
    /\ DOMAIN dataFile \subseteq 1 .. Head
    /\ \A r \in inlinedRow : DOMAIN r = {"rid", "begin", "end"} /\ r.begin \in Nat

\* The inductive invariant, beside TableOK.
RInv ==
    /\ query = [q \in Queries |-> query[q]]
    /\ \A q \in Queries : QueryOK(query[q])
    /\ MemoOK(memo)
    /\ \A s \in noted : AbsenceHolds(s)
=============================================================================
