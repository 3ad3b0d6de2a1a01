---------------------------- MODULE AtomicOutput ----------------------------
(***************************************************************************)
(* What flatten-ctl export promises of a named destination shared by       *)
(* several exports: the name shows somebody's complete file at all times,  *)
(* an export replaces it at most once and in one step, and the status it   *)
(* exits with says whether it did.                                         *)
(***************************************************************************)
CONSTANTS Procs, Others

VARIABLES shown,      \* whose complete file the name shows; Others: not an export's
          status,     \* of each export
          named,      \* the exports asked for a named destination
          uploading   \* the exports that also upload

vars == <<shown, status, named, uploading>>

Init ==
    /\ shown = Others
    /\ status = [p \in Procs |-> "working"]
    /\ named \in SUBSET Procs
    /\ uploading \in SUBSET Procs

Move(p, from, to) == /\ status[p] = from
                     /\ status' = [status EXCEPT ![p] = to]
                     /\ UNCHANGED <<named, uploading>>

Publish(p) == /\ p \in named
              /\ Move(p, "working", "published")
              /\ shown' = p

Succeed(p) == /\ IF p \in named THEN Move(p, "published", "ok") ELSE Move(p, "working", "ok")
              /\ UNCHANGED shown

\* Only the key of an upload can still fail once the destination is replaced.
Fail(p) == /\ \/ Move(p, "working", "failed")
              \/ p \in uploading /\ Move(p, "published", "failed")
           /\ UNCHANGED shown

Vanish(p) == /\ \/ Move(p, "working", "dead")
                \/ Move(p, "published", "dead")
             /\ UNCHANGED shown

OthersWrite == /\ shown' = Others
               /\ UNCHANGED <<status, named, uploading>>

Next == \/ \E p \in Procs : Publish(p) \/ Succeed(p) \/ Fail(p) \/ Vanish(p)
        \/ OthersWrite

Spec == Init /\ [][Next]_vars
=============================================================================
