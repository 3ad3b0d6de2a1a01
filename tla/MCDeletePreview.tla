--------------------------- MODULE MCDeletePreview ---------------------------
(***************************************************************************)
(* Instances of DeletePreview for TLC: one Preview, the run that publishes *)
(* it, and orders to delete it.                                            *)
(***************************************************************************)
EXTENDS DeletePreview, TLC

CONSTANTS c1, c2, j1, k1, k2, k3

PreviewTag  == [unit |-> "runtime", num |-> 1, preview |-> TRUE]
PreviewPlan == [j \in Jobs |-> [tag |-> PreviewTag, commit |-> c1, ref |-> "main"]]
PreviewNotes == [c \in Commits |-> "notes"]
OneObject   == "annotated" :> c1
PreviewRefs == {c2, "annotated"}
\* k3 names the wrong unit.
Orders == [k \in Collectors |-> [unit |-> IF k = k3 THEN "vmlinux" ELSE "runtime", tag |-> PreviewTag,
                                 commit |-> c1, mode |-> IF k = k1 THEN "incomplete" ELSE "gc"]]
PreviewTags == {PreviewTag}
=============================================================================
