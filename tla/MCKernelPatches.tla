--------------------------- MODULE MCKernelPatches ---------------------------
(***************************************************************************)
(* Instances of KernelPatches for TLC: a repository that had no patch, one *)
(* and two.                                                                *)
(***************************************************************************)
EXTENDS KernelPatches

balloon == [subject |-> "balloon", text |-> 1]
pmem    == [subject |-> "pmem", text |-> 1]
ThreeVersions == {<<>>, <<balloon>>, <<balloon, pmem>>}

\* A tree that make itself fetched: the commits in it are the tool's own unless
\* the developer adds one.
FetchedSpec == (Init /\ git = "none") /\ [][Next]_vars
=============================================================================
