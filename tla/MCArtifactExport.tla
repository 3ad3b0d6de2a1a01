--------------------------- MODULE MCArtifactExport ---------------------------
(***************************************************************************)
(* Instances of ArtifactExport for TLC, and the abstract specification it   *)
(* is checked against.                                                     *)
(***************************************************************************)
EXTENDS ArtifactExport

\* Every command line runExport accepts.
AllRequests == {r \in [dest : {"named", "stdout", "none"}, upload : BOOLEAN] :
                   r.upload \/ r.dest # "none"}
===============================================================================
