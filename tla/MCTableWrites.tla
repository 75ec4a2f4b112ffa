---------------------------- MODULE MCTableWrites ----------------------------
(***************************************************************************)
(* TableWrites for one of several mixes of operations, so that each mix is *)
(* explored as deep as its bound allows.                                   *)
(***************************************************************************)
EXTENDS TableRefinement, FeedProperties, FiniteSetsExt, TLC

CONSTANT Mixes

VARIABLE mix    \* the operations, the sizes of INSERTs, the rows a DELETE or UPDATE
                \* matches, the writers at work and the last snapshot

mixVars == <<vars, mix>>

Mix(ops, sizes, targets, writers, last) ==
    [ops |-> ops, sizes |-> sizes, targets |-> targets, writers |-> writers, last |-> last]

InMix == Head + Cardinality(Active) <= mix.last

\* Begin, for the statements of the mix.
MixBegin(w) ==
    /\ Head + Cardinality(Active) < mix.last
    /\ \/ \E op \in {"append", "replace"} \cap mix.ops,
             n \in InsertSizes \cap mix.sizes, limit \in InlineLimits :
              BeginInsert(w, op, n, limit)
       \/ \E op \in {"delete", "update"} \cap mix.ops, b \in Bases,
             limit \in InlineLimits :
              \E T \in UNION {kSubset(n, MatchableAt(b)) : n \in 1 .. mix.targets} :
                  BeginMutation(w, op, b, T, limit)
       \/ \E b \in Bases :
              \/ "truncate" \in mix.ops /\ BeginTruncate(w, b)
              \/ "flush" \in mix.ops /\ BeginFlush(w, b)
              \/ /\ "rewrite" \in mix.ops
                 /\ \E f \in DataFilesAt(b) : BeginRewrite(w, b, f)
              \/ /\ "merge" \in mix.ops
                 /\ \E f, g \in DataFilesAt(b) : f < g /\ BeginMerge(w, b, {f, g})

\* A table nobody writes to.
Rests == Active = {} /\ UNCHANGED vars

MixInit == Init /\ mix \in Mixes

MixNext ==
    /\ \/ \E w \in mix.writers : MixBegin(w) \/ Settle(w)
       \/ "alter" \in mix.ops /\ Alter
       \/ "drop" \in mix.ops /\ Drop
       \/ "retire" \in mix.ops /\ \E b \in snapshots : RetireAppends(b)
       \/ "expire" \in mix.ops /\ \E S \in SUBSET snapshots : Expire(S)
       \/ "other" \in mix.ops /\ OtherCommit
       \/ Rests
    /\ UNCHANGED mix
    /\ InMix'

MixSpec == MixInit /\ [][MixNext]_mixVars

\* A session goes on with the statement it has begun.
FairMixSpec == MixSpec /\ \A w \in Writers : WF_vars(Settle(w))

One == {CHOOSE w \in Writers : TRUE}

StatementMixes ==
    {Mix({"append", "delete", "update", "truncate", "alter", "drop", "other"},
         {2}, 2, Writers, 5),
     Mix({"append", "replace", "delete", "truncate", "rewrite"}, {1, 2}, 1, Writers, 5),
     Mix({"append", "delete", "retire"}, {3}, 1, One, 6),
     Mix({"append", "replace", "update", "truncate", "rewrite", "retire"}, {2}, 1, One, 5),
     Mix({"append", "delete", "flush", "merge", "rewrite", "drop"}, {1, 2}, 1, Writers, 5),
     Mix({"append", "delete", "flush", "merge", "rewrite"}, {1}, 1, Writers, 6),
     Mix({"append", "update", "flush", "merge", "rewrite"}, {2}, 1, Writers, 6),
     Mix({"append", "replace", "delete", "flush", "expire"}, {2}, 1, One, 5),
     Mix({"append", "delete", "flush", "merge", "rewrite", "drop", "expire"},
         {1}, 1, Writers, 5),
     Mix({"append", "delete", "merge", "rewrite", "drop", "expire"}, {2}, 1, Writers, 5)}

RetryMixes ==
    {Mix({"append", "delete", "other"}, {3}, 1, Writers, 5),
     Mix({"append", "delete", "flush", "retire"}, {2}, 1, One, 6),
     Mix({"append", "update", "flush", "retire"}, {2}, 1, One, 6)}

Symmetry == Permutations(Writers)
=============================================================================
