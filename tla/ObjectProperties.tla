--------------------------- MODULE ObjectProperties ---------------------------
(***************************************************************************)
(* What the owners of a store rely on: files that are named exist, files   *)
(* that are scheduled stay so until they are gone, and files nobody names  *)
(* can be found.                                                           *)
(***************************************************************************)
EXTENDS ObjectLifecycle

\* Every data and delete file a catalog names, its own or another catalog's, is in
\* the store: no cleanup, sweep, expiry, merge, drop or fork, interleaved in any
\* way or cut off after any step, deletes an object under a reader
\* (retain_unreferenced, list_referenced_paths_in_data_paths,
\* refuse_removed_source_rows).
NamedObjectsExist == \A r \in files : r.obj \in store

\* In a multicatalog store a scheduled row is removed only when its object is gone
\* or its catalog is dropped, so that a cleanup that crashed, or that put a row
\* off because another catalog references its object, is taken up again
\* (run_cleanup, remove_scheduled_paths_in_catalog).
ScheduledUntilGone ==
    [][Multi => \A r \in scheduled \ scheduled' :
                    r.obj \notin store' \/ r.cat \notin catalogs']_vars

\* What no sweep can reach: an object that nothing names, below no listed root.
Stranded ==
    {o \in store : /\ o.at # Elsewhere /\ o \notin Uploaded
                   /\ \A r \in files \cup scheduled : r.obj # o
                   /\ \A root \in ListedRoots : ~Under(o, root)}

\* In a store that has had no forks every object left below the root of a catalog,
\* live or dropped, stays below a root the orphan sweep lists, however sweeps and
\* drops overlap (drop_catalog's tombstone, clear_dropped_data_paths).
NothingStranded == ~May("fork") /\ scope.legacy = {} => Stranded = {}
=============================================================================
