---------------------------- MODULE DeletePreview ----------------------------
(***************************************************************************)
(* scripts/delete-preview.py, run by the Delete Preview workflow, beside   *)
(* the publisher and under the version group both share.  A collector      *)
(* reads the tag and the Release twice, refuses what it does not recognise,*)
(* then deletes the Release and after it the tag.  It may be cut off       *)
(* anywhere and is dispatched again.                                       *)
(***************************************************************************)
EXTENDS ReleasePublisher

CONSTANT Order   \* [Collectors -> [unit, tag : Tags, commit : Commits, mode]]

ASSUME OrderAssumption ==
    Order \in [Collectors -> [unit : {"runtime", "vmlinux"}, tag : Tags,
                              commit : Commits, mode : {"incomplete", "gc"}]]

VARIABLES cpc,          \* next call of each collector
          oldTag,       \* original_ref
          oldRelease    \* release as first read

collectorVars == <<cpc, oldTag, oldRelease>>
allVars       == <<vars, collectorVars>>

CInit ==
    /\ Init
    /\ cpc = [k \in Collectors |-> "new"]
    /\ oldTag = [k \in Collectors |-> NoCommit]
    /\ oldRelease = [k \in Collectors |-> NoRelease]

-----------------------------------------------------------------------------
CTag(k) == Order[k].tag
CAt(k, l) == cpc[k] = l

CGoto(k, l) == /\ cpc' = [cpc EXCEPT ![k] = l]
               /\ UNCHANGED mutating
CEnd(k, l)  == /\ cpc' = [cpc EXCEPT ![k] = l]
               /\ mutating' = [mutating EXCEPT ![CTag(k)] = NoJob]
CRequire(k, ok, l) == IF ok THEN CGoto(k, l) ELSE CEnd(k, "failed")

\* A deletion that takes effect; its response may be lost.
CRespond(k, l) == \/ CGoto(k, l) /\ UNCHANGED faults
                  \/ /\ faults < MaxFaults
                     /\ faults' = faults + 1
                     /\ CEnd(k, "failed")

\* What a collector never touches.
restVars == <<made, latest, clock, publishing, pc, jobVars, edits>>

\* complete(): public, all archives or those of x86_64 alone, all uploaded.
Complete(r) ==
    /\ Exists(r) /\ ~r.draft /\ r.prerelease
    /\ Present(r.assets) \in {Names, Names \cap {"x86_64"}}
    /\ \A n \in Present(r.assets) : r.assets[n].bytes # "partial"

\* An asset of another name, or half an asset with unknown metadata, is an
\* error; half an asset may also just count as not uploaded.
Unknown(r) == \/ r.extra
              \/ \E n \in Names : r.assets[n].bytes = "partial"

\* release_for: the listing also shows drafts.
\* Faulty variant: drafts are missing, as in a lookup by tag.
ListedPublic(t) == IF release[t].draft THEN NoRelease ELSE release[t]
Listed(t) == release[t]

\* Faulty variant: the workflow has no concurrency group.
CStartUngrouped(k) ==
    /\ cpc[k] \in {"new", "failed"}
    /\ cpc' = [cpc EXCEPT ![k] = "readTag"]
    /\ UNCHANGED <<tag, release, twin, mutating, restVars, faults, oldTag, oldRelease>>

\* collect takes a Preview tag of the unit named.
Orderly(k) == CTag(k).preview /\ Order[k].unit = CTag(k).unit

\* The workflow run gets the version's group; first run or rerun.
CStart(k) ==
    /\ cpc[k] \in {"new", "failed"} /\ mutating[CTag(k)] = NoJob
    /\ IF Orderly(k)
       THEN /\ mutating' = [mutating EXCEPT ![CTag(k)] = k]
            /\ cpc' = [cpc EXCEPT ![k] = "readTag"]
       ELSE /\ cpc' = [cpc EXCEPT ![k] = "failed"]
            /\ UNCHANGED mutating
    /\ UNCHANGED <<tag, release, twin, restVars, faults, oldTag, oldRelease>>

ReadTag(k) ==
    /\ CAt(k, "readTag")
    /\ oldTag' = [oldTag EXCEPT ![k] = tag[CTag(k)]]
    /\ CGoto(k, "readRelease")
    /\ UNCHANGED <<tag, release, twin, restVars, faults, oldRelease>>

\* tag_target of the ref read: the source the order names.
IsSource(k, ref) == Target[ref] = Order[k].commit

\* Faulty variant: a tag without its Release is refused.
ReadReleaseRequired(k) ==
    LET r == Listed(CTag(k)) IN
    /\ CAt(k, "readRelease")
    /\ oldRelease' = [oldRelease EXCEPT ![k] = r]
    /\ IF oldTag[k] = NoCommit /\ ~Exists(r)
       THEN CEnd(k, "done")
       ELSE CRequire(k, /\ Exists(r)
                        /\ oldTag[k] # NoCommit => IsSource(k, oldTag[k]), "rereadRelease")
    /\ UNCHANGED <<tag, release, twin, restVars, faults, oldTag>>

\* The identity of both, the Preview state, and the mode's condition.
ReadRelease(k) ==
    LET r == Listed(CTag(k)) IN
    /\ CAt(k, "readRelease")
    /\ oldRelease' = [oldRelease EXCEPT ![k] = r]
    /\ IF Ambiguous(CTag(k)) THEN CEnd(k, "failed")
       ELSE IF oldTag[k] = NoCommit /\ ~Exists(r) THEN CEnd(k, "done")
       ELSE \/ CRequire(k, /\ IF oldTag[k] # NoCommit THEN IsSource(k, oldTag[k])
                              ELSE r.target = Order[k].commit
                           /\ r.draft \/ r.prerelease
                           /\ ~r.extra
                           /\ Order[k].mode = "incomplete" => ~Complete(r), "rereadRelease")
            \/ Unknown(r) /\ CEnd(k, "failed")
    /\ UNCHANGED <<tag, release, twin, restVars, faults, oldTag>>

\* Every field but the notes must be as first read.
SameRelease(r, s) == /\ r.number = s.number /\ r.draft = s.draft
                     /\ r.prerelease = s.prerelease /\ r.target = s.target
                     /\ r.assets = s.assets /\ r.extra = s.extra

RereadRelease(k) ==
    /\ CAt(k, "rereadRelease")
    /\ CRequire(k, /\ ~Ambiguous(CTag(k))
                   /\ SameRelease(Listed(CTag(k)), oldRelease[k]), "rereadTag")
    /\ UNCHANGED <<tag, release, twin, restVars, faults, oldTag, oldRelease>>

AfterRelease(k) == IF oldTag[k] = NoCommit THEN "done" ELSE "listAgain"

RereadTag(k) ==
    /\ CAt(k, "rereadTag")
    /\ CRequire(k, tag[CTag(k)] = oldTag[k],
                IF Exists(oldRelease[k]) THEN "deleteRelease" ELSE AfterRelease(k))
    /\ UNCHANGED <<tag, release, twin, restVars, faults, oldTag, oldRelease>>

\* DELETE by number; a Release already gone is as good as deleted.
DeleteRelease(k) ==
    LET t    == CTag(k)
        mine == release[t].number = oldRelease[k].number IN
    /\ CAt(k, "deleteRelease")
    /\ release' = [release EXCEPT ![t] = IF mine THEN twin[t] ELSE @]
    /\ twin' = [twin EXCEPT ![t] = IF mine THEN NoRelease ELSE @]
    /\ CRespond(k, "releaseGone")
    /\ UNCHANGED <<tag, restVars, oldTag, oldRelease>>

ReleaseGone(k) ==
    /\ CAt(k, "releaseGone")
    /\ IF release[CTag(k)].number = oldRelease[k].number THEN CEnd(k, "failed")
       ELSE IF AfterRelease(k) = "done" THEN CEnd(k, "done") ELSE CGoto(k, "listAgain")
    /\ UNCHANGED <<tag, release, twin, restVars, faults, oldTag, oldRelease>>

\* The tag stays as long as any Release uses it.
ListAgain(k) ==
    /\ CAt(k, "listAgain")
    /\ CRequire(k, ~Exists(Listed(CTag(k))), "tagAgain")
    /\ UNCHANGED <<tag, release, twin, restVars, faults, oldTag, oldRelease>>

\* Faulty variant: a tag that moved is taken for a deleted one.
TagAgainMoved(k) ==
    /\ CAt(k, "tagAgain")
    /\ IF tag[CTag(k)] # oldTag[k] THEN CEnd(k, "done") ELSE CGoto(k, "deleteTag")
    /\ UNCHANGED <<tag, release, twin, restVars, faults, oldTag, oldRelease>>

TagAgain(k) ==
    /\ CAt(k, "tagAgain")
    /\ IF tag[CTag(k)] = NoCommit THEN CEnd(k, "done")
       ELSE CRequire(k, tag[CTag(k)] = oldTag[k], "deleteTag")
    /\ UNCHANGED <<tag, release, twin, restVars, faults, oldTag, oldRelease>>

DeleteTag(k) ==
    /\ CAt(k, "deleteTag")
    /\ tag' = [tag EXCEPT ![CTag(k)] = NoCommit]
    /\ CRespond(k, "tagGone")
    /\ UNCHANGED <<release, twin, restVars, oldTag, oldRelease>>

TagGone(k) ==
    /\ CAt(k, "tagGone")
    /\ CEnd(k, IF tag[CTag(k)] = NoCommit THEN "done" ELSE "failed")
    /\ UNCHANGED <<tag, release, twin, restVars, faults, oldTag, oldRelease>>

CCalls == {"readTag", "readRelease", "rereadRelease", "rereadTag", "deleteRelease",
           "releaseGone", "listAgain", "tagAgain", "deleteTag", "tagGone"}

CCallFails(k) ==
    /\ cpc[k] \in CCalls /\ faults < MaxFaults
    /\ faults' = faults + 1
    /\ CEnd(k, "failed")
    /\ UNCHANGED <<tag, release, twin, restVars, oldTag, oldRelease>>

Collector(k) == \/ ReadTag(k) \/ ReadRelease(k) \/ RereadRelease(k) \/ RereadTag(k)
                \/ DeleteRelease(k) \/ ReleaseGone(k) \/ ListAgain(k) \/ TagAgain(k)
                \/ DeleteTag(k) \/ TagGone(k)

\* People leave a Preview alone between a collector's last look at its Release
\* and tag and their deletion: no GitHub call closes that window.
Watched(t) == \E k \in Collectors :
                 /\ CTag(k) = t
                 /\ cpc[k] \in {"rereadTag", "deleteRelease", "tagAgain", "deleteTag"}

CNext ==
    \/ /\ \/ \E j \in Jobs : Publisher(j) \/ Workflow(j) \/ CallFails(j)
          \/ \E t \in Tags : (People(t) /\ ~Watched(t)) \/ DeletePartial(t)
       /\ UNCHANGED collectorVars
    \/ \E k \in Collectors : CStart(k) \/ Collector(k) \/ CCallFails(k)

CSpec == CInit /\ [][CNext]_allVars

\* Cut off collections are dispatched again; the version's group is fair.
CFairness == \A k \in Collectors : WF_allVars(Collector(k)) /\ SF_allVars(CStart(k))

CFairSpec == CSpec /\ Fairness /\ CFairness

-----------------------------------------------------------------------------
\* Recovery of an incomplete publication never deletes a Preview that became
\* complete, though a publisher of the same version may be rerun at any time.
KeepsComplete ==
    [][\A k \in Collectors, t \in Tags :
          Order[k].mode = "incomplete" /\ Complete(release[t]) /\ release'[t] # release[t]
             => ~DeleteRelease(k)]_allVars

\* A tag is never deleted from under a Release, be it one that somebody made
\* meanwhile, and only a Preview's at the commit the order names; so no Release
\* is left without the source it was built from.
TagOutlivesRelease ==
    [][\A k \in Collectors : Collector(k) /\ tag' # tag =>
          /\ ~Exists(release[CTag(k)])
          /\ CTag(k).preview /\ IsSource(k, tag[CTag(k)])]_allVars

\* A collector that reports success leaves neither Release nor tag, unless
\* somebody made a draft or a tag meanwhile that it was not asked to delete.
DoneIsGone ==
    [][\A k \in Collectors : ~CAt(k, "done") /\ cpc'[k] = "done" =>
          /\ LET r == release'[CTag(k)]
             IN  Exists(r) => r.body \in {"by hand", "edited"} /\ r.number > oldRelease'[k].number
          /\ oldTag'[k] # NoCommit => tag'[CTag(k)] = NoCommit]_allVars

\* Cut off between its two deletions and dispatched again, a garbage
\* collection ends, unless somebody edits the version by hand.
EveryCollectionEnds ==
    \A k \in Collectors :
        Orderly(k) /\ Order[k].mode = "gc" /\ [](edits = 0) => <>CAt(k, "done")
=============================================================================
