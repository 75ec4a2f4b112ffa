--------------------------- MODULE TableInvariant ---------------------------
(***************************************************************************)
(* The inductive invariants of TableWrites.                                *)
(*                                                                         *)
(* IInv bounds every snapshot number in the catalog by the head h, every   *)
(* row id by the counter n and every file id by the head, and says the     *)
(* same of what the statements in flight carry: a commit writes what its   *)
(* statement carries, so the catalog alone is not inductive.               *)
(*                                                                         *)
(* DInv says that a data file has at most one delete file row at all, where *)
(* OneDeleteFile speaks of those a snapshot sees: see DeleteFileProofs.    *)
(*                                                                         *)
(* PInv says that a delete file's partial_max, where it has one, bounds    *)
(* the deletions it holds, which retire_appends_since relies on.           *)
(*                                                                         *)
(* CInv says that what a statement read at the head stands as long as the  *)
(* head does, whatever expires and whoever else begins or gives up.        *)
(***************************************************************************)
EXTENDS TableProperties

RowOK(p, h, n) == p \in FileRow /\ p.val <= h /\ p.origin <= h /\ p.rid < n

DataFileOK(r, h, n) ==
    /\ r \in DataFileRow
    /\ r.begin <= h /\ r.end <= h /\ r.partialMax <= h
    /\ \A p \in r.rows : RowOK(p, h, n)

DeleteFileOK(r, h) ==
    /\ r \in DeleteFileRow
    /\ r.begin <= h /\ r.end <= h /\ r.partialMax <= h
    /\ \A x \in r.dels : x.at <= h

InlinedRowOK(r, h, n) == r \in InlinedRow /\ r.begin <= h /\ r.end <= h /\ r.rid < n

InlinedDeleteOK(i, h) == i \in InlinedDelete /\ i.begin <= h

EntryOK(e, h) ==
    /\ e \in Entry /\ e.file \in 1 .. h
    /\ \A x \in e.carried : x.at <= h
    /\ e.fileEnd <= h /\ e.delEnd <= h
    /\ e.how = "rewritten" => e.pos # {}
    /\ e.how = "flushed" => e.carried # {}

StatementOK(st, h, n) ==
    /\ st \in Statement
    /\ st.base <= h /\ st.date <= h + 1 /\ st.outBegin <= h /\ st.outMax <= h
    /\ \A p \in st.out : RowOK(p, h, n)
    /\ \A x \in st.dels : x.at <= h
    /\ \A k \in st.kept : k < n
    /\ \A e \in st.entries : EntryOK(e, h)
    /\ \A e \in st.entries : e.how = "flushed" <=> st.op = "flush"
    /\ st.op \in {"append", "replace", "truncate"} => st.entries = {}
    /\ st.op \notin {"append", "replace"} => st.fresh = 0

HeadOK ==
    /\ snapshots \subseteq Nat
    /\ Head \in snapshots /\ 1 <= Head
    /\ \A s \in snapshots : s <= Head

CatalogOK(h, n) ==
    /\ changes \in [snapshots -> SUBSET Token]
    /\ tableEnd \in 0 .. h /\ alteredAt \in 0 .. h
    /\ \A f \in DOMAIN dataFile : f \in 1 .. h /\ DataFileOK(dataFile[f], h, n)
    /\ \A d \in DOMAIN deleteFile :
           d \in (1 .. h) \X (1 .. h) /\ DeleteFileOK(deleteFile[d], h)
    /\ \A r \in inlinedRow : InlinedRowOK(r, h, n)
    /\ \A i \in inlinedDelete : InlinedDeleteOK(i, h)
    /\ n \in Nat
    /\ scheduled \subseteq (0 .. h) \X (0 .. h)
    /\ ScheduledUnreachable

StatementsOK(h, n) ==
    /\ stmt = [w \in Writers |-> stmt[w]]
    /\ \A w \in Writers : StatementOK(stmt[w], h, n)

\* The inductive invariant.
IInv == HeadOK /\ CatalogOK(Head, nextRowId) /\ StatementsOK(Head, nextRowId)

-----------------------------------------------------------------------------
\* What a statement in flight carries about the delete file it will register.
RecordedOK(e) ==
    /\ e.how = "positional" => e.prev = {} /\ e.pos # {}
    /\ e.how = "rewritten" => e.delEnd = NULL
    /\ e.how = "flushed" => (e.fileEnd = NULL => e.delEnd = NULL)

RecordsOK == \A w \in Writers : \A e \in stmt[w].entries : RecordedOK(e)

SingleDeleteFile ==
    \A c, d \in DOMAIN deleteFile : c[1] = d[1] => c = d

LiveWithItsFile ==
    \A d \in DOMAIN deleteFile : d[1] \in LiveDataFiles => IsLive(deleteFile[d])

NoneEmpty == \A d \in DOMAIN deleteFile : deleteFile[d].dels # {}

\* The inductive invariant, beside IInv.
DInv == SingleDeleteFile /\ LiveWithItsFile /\ NoneEmpty /\ RecordsOK

-----------------------------------------------------------------------------
\* partial_max, where a delete file has one, is not before any of its deletions.
KnowsLatest(r) == r.partialMax # NULL => \A x \in r.dels : x.at <= r.partialMax

\* The inductive invariant, beside IInv.
PInv == \A d \in DOMAIN deleteFile : KnowsLatest(deleteFile[d])

-----------------------------------------------------------------------------
\* What a statement based on the head has read is what its commit will compare.
Stands(st) ==
    /\ tableEnd = NULL
    /\ st.op \in {"append", "replace", "truncate", "flush", "merge", "rewrite",
                  "delete", "update"}
    /\ st.op \in {"merge", "rewrite", "delete", "update"} =>
           \A e \in st.entries : StillCurrent(e)
    /\ st.op \in {"delete", "update"} => Head < st.date
    /\ st.op = "flush" => \A e \in st.entries : StillFlushable(e) \/ Expired(e)

\* The inductive invariant, beside IInv and DInv.
CInv == \A w \in Active : stmt[w].base = Head => Stands(stmt[w])
=============================================================================
