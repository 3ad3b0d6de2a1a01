------------------------- MODULE MCReleasePublisher -------------------------
(***************************************************************************)
(* Instances of ReleasePublisher for TLC.                                  *)
(***************************************************************************)
EXTENDS ReleasePublisher, TLC

CONSTANTS c1, c2, j1, j2, j3

V(unit, num) == [unit |-> unit, num |-> num, preview |-> FALSE]
Run(t, c, ref) == [tag |-> t, commit |-> c, ref |-> ref]

\* A tag object n steps from c1; 16 steps are one too many, "loop" is a cycle.
Nested   == {ToString(n) : n \in 1 .. 16}
Depth(o) == CHOOSE n \in 1 .. 16 : ToString(n) = o
Chain    == [o \in Nested |-> IF o = "1" THEN c1 ELSE ToString(Depth(o) - 1)] @@ "loop" :> "loop"
RivalRefs == {c1, c2, "15", "16", "loop"}
NoObjects == <<>>

\* The release notes do not tell the commits apart.
SameNotes == [c \in {c1, c2} |-> "notes"]

\* Two runs compete for one version from different commits.
RivalTags == {V("runtime", 1)}
RivalJobs == {j1, j2}
RivalPlan == [j \in RivalJobs |-> IF j = j1 THEN Run(V("runtime", 1), c1, "main")
                                  ELSE Run(V("runtime", 1), c2, "main")]

\* Stables of both units contend for Latest, one of them from a maintenance branch.
LatestTags == {V("runtime", 1), V("runtime", 2), V("vmlinux", 1)}
LatestJobs == {j1, j2, j3}
LatestPlan == [j \in LatestJobs |->
                 CASE j = j1 -> Run(V("runtime", 1), c1, "main")
                   [] j = j2 -> Run(V("runtime", 2), c2, "maintenance")
                   [] j = j3 -> Run(V("vmlinux", 1), c1, "main")]
=============================================================================
