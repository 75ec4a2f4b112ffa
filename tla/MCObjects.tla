------------------------------ MODULE MCObjects ------------------------------
(***************************************************************************)
(* Stores small enough to explore: each a few catalogs, calls and objects. *)
(***************************************************************************)
EXTENDS ObjectProperties, TLC

CONSTANTS a, b, c

\* b lies below a's root, c beside it.
RootOf == (a :> <<"data">>) @@ (b :> <<"data", "nested">>) @@ (c :> <<"other">>)
ElsewhereIs == <<"elsewhere">>

Store(multi, cats, created, first, places, legacy, calls, objects, last) ==
    [multi |-> multi, catalogs |-> cats, created |-> created, first |-> first,
     places |-> places, legacy |-> legacy, calls |-> calls, lastObject |-> objects,
     lastSnapshot |-> last]

LayoutOf(x) == Append(RootOf[x], x)

\* One catalog; the files of a fork under expiry and cleanup, under drops and sweeps
\* of nested roots, under merges and under writes; a root within another; files
\* written elsewhere.
ObjectScopes ==
    {Store(FALSE, {a}, {a}, a, {RootOf[a]}, {},
           {"write", "replace", "delete", "merge", "drop_table", "expire", "cleanup", "sweep"},
           3, 3),
     Store(TRUE, {a, c}, {a, c}, a, {LayoutOf(a)}, {c},
           {"fork", "drop_table", "expire", "cleanup", "drop"}, 1, 4),
     Store(TRUE, {a, b, c}, {a, b, c}, b, {LayoutOf(b)}, {}, {"fork", "sweep", "drop"}, 1, 3),
     Store(TRUE, {a, c}, {a, c}, a, {LayoutOf(a)}, {},
           {"fork", "write", "delete", "merge", "cleanup"}, 3, 4),
     Store(TRUE, {a, c}, {a, c}, a, {LayoutOf(a)}, {},
           {"fork", "write", "delete", "expire", "sweep"}, 2, 3),
     Store(TRUE, {a, b}, {b}, b, {LayoutOf(b)}, {}, {"write", "sweep", "drop", "create"}, 2, 2),
     Store(TRUE, {a, c}, {a, c}, a, {Elsewhere, LayoutOf(a)}, {c},
           {"write", "elsewhere", "replace", "delete", "expire", "cleanup", "sweep"}, 2, 3)}
=============================================================================
