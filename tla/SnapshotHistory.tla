--------------------------- MODULE SnapshotHistory ---------------------------
(***************************************************************************)
(* What the catalog promises about one table: a history of immutable       *)
(* snapshots, each with the row versions a read at it returns, and         *)
(* statements that either take effect whole in one new snapshot or not at  *)
(* all.  There are no files, delete files, inlined rows or conflict tokens *)
(* here.                                                                   *)
(***************************************************************************)
EXTENDS Naturals, FiniteSets

CONSTANT Writers

VARIABLES
    content,    \* the row versions of each unexpired snapshot
    used,       \* the row ids ever drawn
    pending     \* what each session has asked for and not yet settled

vars == <<content, used, pending>>

Version == [rid : Nat, val : Nat]

Idle == [op |-> "none", fresh |-> 0, targets |-> {}, saw |-> {}]

Latest == CHOOSE s \in DOMAIN content : \A t \in DOMAIN content : t <= s
New == Latest + 1

\* A new snapshot holds C; every earlier one keeps what it has.
Extends(C) ==
    content' = [s \in DOMAIN content \cup {New} |->
                   IF s = New THEN C ELSE content[s]]

Keeps == UNCHANGED used

\* `fresh` rows under row ids nobody ever had.
Draws(fresh) ==
    /\ used \subseteq used'
    /\ Cardinality(used' \ used) = fresh

Written(rids) == {[rid |-> r, val |-> New] : r \in rids}

Done(w) == pending' = [pending EXCEPT ![w] = Idle]

Init ==
    /\ content = [s \in {1} |-> {}]
    /\ used = {}
    /\ pending = [w \in Writers |-> Idle]

-----------------------------------------------------------------------------
Ask(w) ==
    /\ pending[w] = Idle
    /\ pending'[w].op # "none"
    /\ pending' = [pending EXCEPT ![w] = pending'[w]]
    /\ UNCHANGED <<content, used>>

\* A refused statement leaves no trace.
GiveUp(w) == Done(w) /\ UNCHANGED <<content, used>>

\* INSERT commutes with other INSERTs, and never follows a deletion since its
\* base.
Append(w) ==
    /\ pending[w].op = "append"
    /\ pending[w].saw \subseteq content[Latest]
    /\ Draws(pending[w].fresh)
    /\ Extends(content[Latest] \cup Written(used' \ used))
    /\ Done(w)

\* INSERT OVERWRITE supersedes exactly what it saw.
Replace(w) ==
    /\ pending[w].op = "replace"
    /\ content[Latest] = pending[w].saw
    /\ Draws(pending[w].fresh)
    /\ Extends(Written(used' \ used))
    /\ Done(w)

\* DELETE removes exactly the versions it matched: each is still there, and
\* everything else stays.
Delete(w) ==
    /\ pending[w].op = "delete"
    /\ pending[w].targets \subseteq content[Latest]
    /\ Extends(content[Latest] \ pending[w].targets)
    /\ Keeps /\ Done(w)

\* UPDATE replaces exactly the versions it matched, row id by row id.
Update(w) ==
    LET targets == pending[w].targets
    IN  /\ pending[w].op = "update"
        /\ targets \subseteq content[Latest]
        /\ Extends((content[Latest] \ targets) \cup Written({t.rid : t \in targets}))
        /\ Keeps /\ Done(w)

\* TRUNCATE removes nothing its caller had not seen.
Truncate(w) ==
    /\ pending[w].op = "truncate"
    /\ content[Latest] \subseteq pending[w].saw
    /\ Extends({})
    /\ Keeps /\ Done(w)

\* Merging, rewriting and flushing change no snapshot's contents.
Maintain(w) ==
    /\ pending[w].op = "maintain"
    /\ Extends(content[Latest])
    /\ Keeps /\ Done(w)

\* Alterations, and other tables' commits.
Unaffected == Extends(content[Latest]) /\ UNCHANGED <<used, pending>>

Drop == Extends({}) /\ UNCHANGED <<used, pending>>

\* Undoing appends returns the table to an earlier snapshot.
Retire == \E s \in DOMAIN content : Extends(content[s]) /\ UNCHANGED <<used, pending>>

\* Expiry forgets snapshots, never the latest, and changes none it keeps.
Expire ==
    /\ DOMAIN content' \subseteq DOMAIN content
    /\ Latest \in DOMAIN content'
    /\ \A s \in DOMAIN content' : content'[s] = content[s]
    /\ UNCHANGED <<used, pending>>

Next ==
    \/ \E w \in Writers :
           \/ Ask(w) \/ GiveUp(w)
           \/ Append(w) \/ Replace(w) \/ Delete(w) \/ Update(w)
           \/ Truncate(w) \/ Maintain(w)
    \/ Unaffected
    \/ Drop
    \/ Retire
    \/ Expire

Spec == Init /\ [][Next]_vars
=============================================================================
