---------------------------- MODULE MCTableReads ----------------------------
(***************************************************************************)
(* TableReads against mixes of operations: those of MCTableWrites, with    *)
(* the sessions that query and how their scans may read.                   *)
(***************************************************************************)
EXTENDS MCTableWrites, TableReads

\* The sessions that query and how often; whether with row ids, through the
\* memo, in a consistent read.
Readers(queries, scans, rowIds, memoized, consistent) ==
    [queries |-> queries, scans |-> scans, rowIds |-> rowIds,
     memoized |-> memoized, consistent |-> consistent]

ScanInit == MixInit /\ ReadInit

ScanNext ==
    \/ MixNext /\ UNCHANGED readVars
    \/ /\ \E q \in mix.queries :
              \/ \E s \in snapshots, rowIds \in mix.rowIds, memoized \in mix.memoized,
                    consistent \in mix.consistent :
                    /\ query[q].scans < mix.scans
                    /\ Open(q, s, rowIds, memoized, consistent)
              \/ Reads(q)
       /\ UNCHANGED mixVars

ScanSpec == ScanInit /\ [][ScanNext]_<<mixVars, readVars>>

OneQuery == {CHOOSE q \in Queries : TRUE}

ScanMixes ==
    {Mix({"append", "delete", "flush"}, {1}, 1, One, 4)
         @@ Readers(OneQuery, 2, BOOLEAN, BOOLEAN, BOOLEAN),
     Mix({"append", "flush", "merge"}, {1}, 1, One, 5)
         @@ Readers(OneQuery, 1, {FALSE}, BOOLEAN, {FALSE}),
     Mix({"append", "merge"}, {1}, 1, One, 4)
         @@ Readers(Queries, 1, {FALSE}, {TRUE}, {FALSE})}

SharedMixes ==
    {Mix({"append", "flush"}, {1}, 1, One, 3)
         @@ Readers(Queries, 1, {FALSE}, {FALSE}, {TRUE})}

ScanSymmetry == Permutations(Queries)
=============================================================================
