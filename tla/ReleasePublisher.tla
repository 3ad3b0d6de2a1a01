-------------------------- MODULE ReleasePublisher --------------------------
(***************************************************************************)
(* scripts/release-publisher.py as the publish job of the release          *)
(* workflows runs it.  Each job takes one validated bundle to a tag, a     *)
(* draft Release, its assets, the public Release and, for a Stable from    *)
(* main, the repository's Latest mark.  GitHub calls are separate steps:   *)
(* each may fail, a write may take effect although its response is lost,   *)
(* an upload may leave half an asset, and the job is rerun from the start. *)
(* People edit drafts and tags meanwhile.  The concurrency groups of the   *)
(* workflows admit one run per version and one publish job per repository. *)
(***************************************************************************)
EXTENDS Naturals

CONSTANTS Jobs,       \* workflow runs, each for one version and commit
          NoJob,
          Collectors, \* Delete Preview runs, which share the version's group
          Tags,       \* release versions: [unit, num, preview]
          Commits,
          Plan,       \* [Jobs -> [tag : Tags, commit : Commits, ref]]
          Notes,      \* [Commits -> text]: release notes of each commit's bundle
          Names,      \* archives of a bundle, one per architecture
          PointsTo,   \* [annotated tag objects -> tag objects and Commits]
          Refs,       \* what people point a tag at: Commits and tag objects
          MaxFaults,  \* bound on failed calls, lost responses, cut uploads
          MaxEdits    \* bound on edits by people

NoCommit == "no commit"

ASSUME JobAssumption  == NoJob \notin Jobs /\ Collectors \cap (Jobs \cup {NoJob}) = {}
ASSUME PlanAssumption ==
    /\ Tags \subseteq [unit : {"runtime", "vmlinux"}, num : Nat, preview : BOOLEAN]
    /\ Plan \in [Jobs -> [tag : Tags, commit : Commits, ref : {"main", "maintenance"}]]
    /\ Commits \cap {NoCommit, "none", "foreign", "partial"} = {}
    /\ Commits \cap DOMAIN PointsTo = {} /\ Refs \subseteq Commits \cup DOMAIN PointsTo
ASSUME BoundAssumption == MaxFaults \in Nat /\ MaxEdits \in Nat

TagOf(j)    == Plan[j].tag
CommitOf(j) == Plan[j].commit
NotesOf(j)  == Notes[CommitOf(j)]
Bodies      == {Notes[c] : c \in Commits} \cup {"none", "edited", "by hand"}

(* The bytes of an asset stand for the commit whose bundle they come from;  *)
(* copy tells an asset from one uploaded again under the same name.        *)
Asset   == [bytes : Commits \cup {"none", "foreign", "partial"}, copy : {0, 1}]
NoAsset == [bytes |-> "none", copy |-> 0]
Assets  == [Names -> Asset]
NoAssets == [n \in Names |-> NoAsset]

(* A Release; number 0 is none.  extra: it has an asset of another name.   *)
(* verified is a ghost: this publisher made it public.                     *)
Release   == [number : Nat, draft : BOOLEAN, prerelease : BOOLEAN, body : Bodies,
              assets : Assets, extra : BOOLEAN, target : Commits \cup {NoCommit}, time : Nat, verified : BOOLEAN]
NoRelease == [number |-> 0, draft |-> TRUE, prerelease |-> FALSE, body |-> "none",
              assets |-> NoAssets, extra |-> FALSE, target |-> NoCommit, time |-> 0, verified |-> FALSE]

VARIABLES tag,        \* the commit or tag object each tag points to
          release,    \* the Release using each tag
          twin,       \* another draft using the same tag
          made,       \* Releases created for each tag so far
          latest,     \* tags marked Latest: at most one
          clock,      \* publication time
          mutating,   \* holder of component-mutation-<version>
          publishing, \* holder of component-publication
          pc,         \* next call of each job
          number,     \* the Release the job works on; 0 before it has one
          public,     \* whether the job found it already public
          hadTag,     \* whether the job found the tag
          seen,       \* identities: assets the job has observed
          todo,       \* archives the job has to upload
          faults, edits

githubVars == <<tag, release, twin, made, latest, clock>>
jobVars    == <<number, public, hadTag, seen, todo>>
vars       == <<tag, release, twin, made, latest, clock, mutating, publishing, pc, number, public,
                hadTag, seen, todo, faults, edits>>

Init ==
    /\ tag = [t \in Tags |-> NoCommit]
    /\ release = [t \in Tags |-> NoRelease]
    /\ twin = [t \in Tags |-> NoRelease]
    /\ made = [t \in Tags |-> 0]
    /\ latest = {}
    /\ clock = 1
    /\ mutating = [t \in Tags |-> NoJob]
    /\ publishing = NoJob
    /\ pc = [j \in Jobs |-> "new"]
    /\ number = [j \in Jobs |-> 0]
    /\ public = [j \in Jobs |-> FALSE]
    /\ hadTag = [j \in Jobs |-> FALSE]
    /\ seen = [j \in Jobs |-> NoAssets]
    /\ todo = [j \in Jobs |-> {}]
    /\ faults = 0
    /\ edits = 0

-----------------------------------------------------------------------------
At(j, l)   == pc[j] = l
Exists(r)  == r.number # 0
Present(a) == {n \in Names : a[n] # NoAsset}
Stable(t)  == ~t.preview

MaxNesting == 16
Invalid    == "invalid target"

Behind == [ref \in DOMAIN PointsTo \cup Commits |->
              IF ref \in DOMAIN PointsTo THEN PointsTo[ref] ELSE ref]

\* tag_target: the commit behind each ref, at most MaxNesting objects away; a
\* cycle of tag objects never gets to one.
Target == [ref \in DOMAIN Behind |->
    LET path[k \in 1 .. MaxNesting] == IF k = 1 THEN ref ELSE Behind[path[k - 1]]
        last == path[MaxNesting]
    IN  IF last \in Commits THEN last ELSE Invalid]

TagTarget(t) == IF tag[t] = NoCommit THEN NoCommit ELSE Target[tag[t]]

\* find_release: the listing also shows drafts, and two rows are refused.
Ambiguous(t) == Exists(twin[t])

\* release_identity: a Preview, and nothing else, is a prerelease.
ReleaseIdentity(r, t) == r.prerelease = t.preview

Goto(j, l) == /\ pc' = [pc EXCEPT ![j] = l]
              /\ UNCHANGED <<mutating, publishing>>

\* The job ends, done or failed: its workflow run lets go of both groups.
End(j, l) == /\ pc' = [pc EXCEPT ![j] = l]
             /\ mutating' = [t \in Tags |-> IF mutating[t] = j THEN NoJob ELSE mutating[t]]
             /\ publishing' = IF publishing = j THEN NoJob ELSE publishing

\* require(ok): go on to l or fail the job.
Require(j, ok, l) == IF ok THEN Goto(j, l) ELSE End(j, "failed")

\* A write that takes effect; its response may be lost, which fails the job.
Respond(j, l) == \/ Goto(j, l) /\ UNCHANGED faults
                 \/ /\ faults < MaxFaults
                    /\ faults' = faults + 1
                    /\ End(j, "failed")

\* Faulty variant: a missing archive goes unnoticed.
AssetsMatchPartly(r, j, known, complete) ==
    /\ ~r.extra
    /\ \A n \in Present(r.assets) : r.assets[n].bytes = CommitOf(j)
    /\ \A n \in Present(known)    : r.assets[n] = known[n]

\* remote_assets: only expected names and bytes, nothing observed has changed
\* or vanished.
AssetsMatch(r, j, known, complete) ==
    /\ ~r.extra
    /\ \A n \in Present(r.assets) : r.assets[n].bytes = CommitOf(j)
    /\ \A n \in Present(known)    : r.assets[n] = known[n]
    /\ complete => Present(r.assets) = Names

(***************************************************************************)
(* The workflow around the publisher                                       *)
(***************************************************************************)
\* Preflight under the version's group: publish-release.sh check.
Preflight(j) ==
    /\ At(j, "new") /\ mutating[TagOf(j)] = NoJob
    /\ IF release[TagOf(j)].draft /\ ~Ambiguous(TagOf(j))
       THEN /\ pc' = [pc EXCEPT ![j] = "queued"]
            /\ mutating' = [mutating EXCEPT ![TagOf(j)] = j]
       ELSE /\ pc' = [pc EXCEPT ![j] = "refused"]
            /\ UNCHANGED mutating
    /\ UNCHANGED <<githubVars, publishing, jobVars, faults, edits>>

\* "Re-run failed jobs": the bundle of the first attempt is still staged.
Rerun(j) ==
    /\ At(j, "failed") /\ mutating[TagOf(j)] = NoJob
    /\ mutating' = [mutating EXCEPT ![TagOf(j)] = j]
    /\ pc' = [pc EXCEPT ![j] = "queued"]
    /\ UNCHANGED <<githubVars, publishing, jobVars, faults, edits>>

\* Faulty variant: publish jobs are not serialized.
StartPublishParallel(j) ==
    /\ At(j, "queued")
    /\ pc' = [pc EXCEPT ![j] = "find"]
    /\ UNCHANGED <<githubVars, mutating, publishing, jobVars, faults, edits>>

\* The publish job gets the repository's publication group.
StartPublish(j) ==
    /\ At(j, "queued") /\ publishing = NoJob
    /\ publishing' = j
    /\ pc' = [pc EXCEPT ![j] = "find"]
    /\ UNCHANGED <<githubVars, mutating, jobVars, faults, edits>>

(***************************************************************************)
(* publish                                                                 *)
(***************************************************************************)
\* Faulty variant: the archives of an existing draft are not compared.
FindReleaseNotesOnly(j) ==
    LET r == release[TagOf(j)] IN
    /\ At(j, "find")
    /\ Require(j, /\ ~Ambiguous(TagOf(j))
                  /\ Exists(r) => ReleaseIdentity(r, TagOf(j))
                  /\ Exists(r) /\ r.draft => r.body = NotesOf(j), "target")
    /\ number' = [number EXCEPT ![j] = r.number]
    /\ public' = [public EXCEPT ![j] = Exists(r) /\ ~r.draft]
    /\ seen' = [seen EXCEPT ![j] = r.assets]
    /\ UNCHANGED <<githubVars, hadTag, todo, faults, edits>>

\* Faulty variant: an existing public Release is an error.
FindReleaseRefusesPublic(j) ==
    LET r == release[TagOf(j)] IN
    /\ At(j, "find")
    /\ Require(j, /\ ~Ambiguous(TagOf(j))
                  /\ Exists(r) => /\ ReleaseIdentity(r, TagOf(j))
                                  /\ AssetsMatch(r, j, NoAssets, ~r.draft)
                                  /\ r.draft /\ r.body = NotesOf(j), "target")
    /\ number' = [number EXCEPT ![j] = r.number]
    /\ public' = [public EXCEPT ![j] = FALSE]
    /\ seen' = [seen EXCEPT ![j] = r.assets]
    /\ UNCHANGED <<githubVars, hadTag, todo, faults, edits>>

\* find_release and the checks of what a previous attempt left.
FindRelease(j) ==
    LET r == release[TagOf(j)] IN
    /\ At(j, "find")
    /\ Require(j, /\ ~Ambiguous(TagOf(j))
                  /\ Exists(r) => /\ ReleaseIdentity(r, TagOf(j))
                                  /\ AssetsMatch(r, j, NoAssets, ~r.draft)
                                  /\ r.draft => r.body = NotesOf(j), "target")
    /\ number' = [number EXCEPT ![j] = r.number]
    /\ public' = [public EXCEPT ![j] = Exists(r) /\ ~r.draft]
    /\ seen' = [seen EXCEPT ![j] = r.assets]
    /\ UNCHANGED <<githubVars, hadTag, todo, faults, edits>>

CheckTarget(j) ==
    LET target == TagTarget(TagOf(j)) IN
    /\ At(j, "target")
    /\ Require(j, target = CommitOf(j) \/ (target = NoCommit /\ ~public[j]),
               IF public[j] THEN "latestTag" ELSE "revalidate")
    /\ hadTag' = [hadTag EXCEPT ![j] = target # NoCommit]
    /\ UNCHANGED <<githubVars, number, public, seen, todo, faults, edits>>

\* revalidate_preview and the local bytes; they fail through CallFails only.
Revalidate(j) ==
    /\ At(j, "revalidate")
    /\ Goto(j, IF hadTag[j] THEN "recheckTag" ELSE "createTag")
    /\ UNCHANGED <<githubVars, jobVars, faults, edits>>

CreateTag(j) ==
    /\ At(j, "createTag")
    /\ IF tag[TagOf(j)] = NoCommit
       THEN /\ tag' = [tag EXCEPT ![TagOf(j)] = CommitOf(j)]
            /\ Respond(j, "recheckTag")
       ELSE End(j, "failed") /\ UNCHANGED <<tag, faults>>
    /\ UNCHANGED <<release, twin, made, latest, clock, jobVars, edits>>

NextUpload(missing) == IF missing = {} THEN "fresh" ELSE "upload"

\* With an existing draft the archives to upload follow from the first look.
RecheckTag(j) ==
    LET missing == Names \ Present(seen[j]) IN
    /\ At(j, "recheckTag")
    /\ Require(j, TagTarget(TagOf(j)) = CommitOf(j),
               IF number[j] = 0 THEN "createDraft" ELSE NextUpload(missing))
    /\ todo' = [todo EXCEPT ![j] = missing]
    /\ UNCHANGED <<githubVars, number, public, hadTag, seen, faults, edits>>

\* GitHub takes a second draft for the tag as well.
CreateDraft(j) ==
    LET t == TagOf(j)
        r == [NoRelease EXCEPT !.number = made[t] + 1, !.body = NotesOf(j),
                               !.prerelease = t.preview, !.target = CommitOf(j)] IN
    /\ At(j, "createDraft")
    /\ release' = [release EXCEPT ![t] = r]
    /\ twin' = [twin EXCEPT ![t] = release[t]]
    /\ made' = [made EXCEPT ![t] = @ + 1]
    /\ number' = [number EXCEPT ![j] = r.number]
    /\ Respond(j, "upload")
    /\ UNCHANGED <<tag, latest, clock, public, hadTag, seen, todo, edits>>

\* gh release upload finds the Release by its tag, not by its number; without
\* --clobber an existing name is an error.  Half an upload may stay.
Upload(j) ==
    LET t == TagOf(j)
        Put(r, n, b) == [r EXCEPT !.assets[n] = [bytes |-> b, copy |-> 0]]
        Open(r, n)   == Exists(r) /\ r.assets[n] = NoAsset IN
    /\ At(j, "upload")
    /\ \E n \in todo[j] :
         \/ \E b \in {CommitOf(j), "partial"} :
               /\ \/ Open(release[t], n) /\ release' = [release EXCEPT ![t] = Put(@, n, b)]
                     /\ UNCHANGED twin
                  \/ Open(twin[t], n) /\ twin' = [twin EXCEPT ![t] = Put(@, n, b)]
                     /\ UNCHANGED release
               /\ IF b # "partial" THEN Respond(j, "checkUpload")
                  ELSE /\ faults < MaxFaults /\ faults' = faults + 1
                       /\ End(j, "failed")
         \/ /\ \E r \in {release[t], twin[t]} : ~Open(r, n) /\ (r = release[t] \/ Exists(r))
            /\ End(j, "failed") /\ UNCHANGED <<release, twin, faults>>
    /\ UNCHANGED <<tag, made, latest, clock, jobVars, edits>>

\* The Release as the job sees it by number.
Same(j) == release[TagOf(j)].number = number[j]

\* Re-read by number: exactly one archive of todo must have appeared.
CheckUpload(j) ==
    LET r == release[TagOf(j)]
        left == {n \in todo[j] : r.assets[n] = NoAsset} IN
    /\ At(j, "checkUpload")
    /\ Require(j, /\ Same(j) /\ ReleaseIdentity(r, TagOf(j))
                  /\ AssetsMatch(r, j, seen[j], FALSE) /\ left # todo[j], NextUpload(left))
    /\ seen' = [seen EXCEPT ![j] = r.assets]
    /\ todo' = [todo EXCEPT ![j] = left]
    /\ UNCHANGED <<githubVars, number, public, hadTag, faults, edits>>

\* Faulty variant: the notes are not compared again.
FreshDraftAnyNotes(j) ==
    LET r == release[TagOf(j)] IN
    /\ At(j, "fresh")
    /\ Require(j, /\ Same(j) /\ ReleaseIdentity(r, TagOf(j)) /\ r.draft
                  /\ AssetsMatch(r, j, seen[j], TRUE), "tagBefore")
    /\ UNCHANGED <<githubVars, jobVars, faults, edits>>

\* The last look at the draft before publication.
FreshDraft(j) ==
    LET r == release[TagOf(j)] IN
    /\ At(j, "fresh")
    /\ Require(j, /\ Same(j) /\ ReleaseIdentity(r, TagOf(j))
                  /\ AssetsMatch(r, j, seen[j], TRUE)
                  /\ r.draft /\ r.body = NotesOf(j), "tagBefore")
    /\ UNCHANGED <<githubVars, jobVars, faults, edits>>

TagBefore(j) ==
    /\ At(j, "tagBefore")
    /\ Require(j, TagTarget(TagOf(j)) = CommitOf(j), "revalidateAgain")
    /\ UNCHANGED <<githubVars, jobVars, faults, edits>>

RevalidateAgain(j) ==
    /\ At(j, "revalidateAgain")
    /\ Goto(j, "undraft")
    /\ UNCHANGED <<githubVars, jobVars, faults, edits>>

\* A tag that is missing is made at the draft's target, main if it has none.
TagMade(t) == IF tag[t] # NoCommit THEN {tag[t]}
              ELSE IF release[t].target # NoCommit THEN {release[t].target} ELSE Commits

\* GitHub publishes the Release and dates it.  Two publications may fall into
\* the same second.
MakePublic(t, prerelease, ghost) ==
    \E tick \in {0, 1} :
        /\ clock' = clock + tick
        /\ release' = [release EXCEPT ![t].draft = FALSE, ![t].prerelease = prerelease,
                                      ![t].time = clock + tick, ![t].verified = ghost]
        /\ tag' \in {[tag EXCEPT ![t] = ref] : ref \in TagMade(t)}

Undraft(j) ==
    /\ At(j, "undraft")
    /\ IF Same(j)
       THEN MakePublic(TagOf(j), TagOf(j).preview, TRUE) /\ Respond(j, "confirm")
       ELSE End(j, "failed") /\ UNCHANGED <<tag, release, clock, faults>>
    /\ UNCHANGED <<twin, made, latest, jobVars, edits>>

Confirm(j) ==
    LET r == release[TagOf(j)] IN
    /\ At(j, "confirm")
    /\ Require(j, /\ Same(j) /\ ReleaseIdentity(r, TagOf(j)) /\ ~r.draft
                  /\ AssetsMatch(r, j, seen[j], TRUE) /\ r.body = NotesOf(j), "latestTag")
    /\ UNCHANGED <<githubVars, jobVars, faults, edits>>

(***************************************************************************)
(* update_latest                                                           *)
(***************************************************************************)
\* Only a Stable from main; the tag must still be the commit.  The head of main
\* still contains it, and a head that does not is a failing call.
LatestTag(j) ==
    /\ At(j, "latestTag")
    /\ IF Plan[j].ref # "main" \/ ~Stable(TagOf(j)) THEN End(j, "done")
       ELSE Require(j, TagTarget(TagOf(j)) = CommitOf(j), "latestList")
    /\ UNCHANGED <<githubVars, jobVars, faults, edits>>

Published(t) == Exists(release[t]) /\ ~release[t].draft
Higher(t)    == {u \in Tags : /\ u.unit = t.unit /\ u.num > t.num /\ Stable(u)
                              /\ Published(u) /\ ~release[u].prerelease}

\* A higher Stable of the same unit keeps Latest.
LatestList(j) ==
    /\ At(j, "latestList")
    /\ IF Higher(TagOf(j)) # {} THEN End(j, "done") ELSE Goto(j, "latestRead")
    /\ UNCHANGED <<githubVars, jobVars, faults, edits>>

PublishedTime(t) == release[t].time

\* Faulty variant: the publication times are compared the wrong way round.
GivesWayToOlder(u, t) == IF u.unit = t.unit THEN u.num < t.num
                         ELSE PublishedTime(u) > PublishedTime(t)

\* Latest gives way to a higher version of its unit or a later publication.
GivesWay(u, t) == IF u.unit = t.unit THEN u.num < t.num
                  ELSE PublishedTime(u) < PublishedTime(t)

LatestRead(j) ==
    /\ At(j, "latestRead")
    /\ IF \A u \in latest : u # TagOf(j) /\ GivesWay(u, TagOf(j))
       THEN Goto(j, "latestPatch") ELSE End(j, "done")
    /\ UNCHANGED <<githubVars, jobVars, faults, edits>>

LatestPatch(j) ==
    /\ At(j, "latestPatch")
    /\ latest' = {TagOf(j)}
    /\ Respond(j, "latestConfirm")
    /\ UNCHANGED <<tag, release, twin, made, clock, jobVars, edits>>

LatestConfirm(j) ==
    /\ At(j, "latestConfirm")
    /\ End(j, IF latest = {TagOf(j)} THEN "done" ELSE "failed")
    /\ UNCHANGED <<githubVars, jobVars, faults, edits>>

-----------------------------------------------------------------------------
(***************************************************************************)
(* Failed calls and people                                                 *)
(***************************************************************************)
Calls == {"find", "target", "revalidate", "createTag", "recheckTag", "createDraft", "upload",
          "checkUpload", "fresh", "tagBefore", "revalidateAgain", "undraft", "confirm",
          "latestTag", "latestList", "latestRead", "latestPatch", "latestConfirm"}
Steps == Calls \cup {"new", "refused", "queued", "failed", "done"}

\* A call has no effect and fails, or the runner is lost before it.
CallFails(j) ==
    /\ pc[j] \in Calls /\ faults < MaxFaults
    /\ faults' = faults + 1
    /\ End(j, "failed")
    /\ UNCHANGED <<githubVars, jobVars, edits>>

\* People edit what is not public yet, other than between the publisher's last
\* look at it and the publication: no GitHub call closes that window.
LastLook == {"tagBefore", "revalidateAgain", "undraft"}
Editable(t) == /\ ~Published(t)
               /\ \A j \in Jobs : TagOf(j) = t => pc[j] \notin LastLook

Edit(t) == /\ Editable(t) /\ edits < MaxEdits
           /\ edits' = edits + 1
           /\ UNCHANGED <<mutating, publishing, pc, jobVars, faults>>

\* The notes, or the prerelease box.
EditNotes(t) ==
    /\ Edit(t) /\ Exists(release[t])
    /\ \/ release' = [release EXCEPT ![t].body = "edited"]
       \/ release' = [release EXCEPT ![t].prerelease = ~@]
    /\ UNCHANGED <<tag, twin, made, latest, clock>>

\* An asset is deleted, uploaded again, replaced by other bytes, or added.
EditAsset(t) ==
    /\ Edit(t) /\ Exists(release[t])
    /\ \/ \E n \in Present(release[t].assets) :
            \E a \in {NoAsset, [bytes |-> "foreign", copy |-> 0],
                     [release[t].assets[n] EXCEPT !.copy = 1]} :
               release' = [release EXCEPT ![t].assets[n] = a]
       \/ release' = [release EXCEPT ![t].extra = TRUE]
    /\ UNCHANGED <<tag, twin, made, latest, clock>>

\* At most one draft made by hand at a time.
DraftByHand(t) ==
    LET r == [NoRelease EXCEPT !.number = made[t] + 1, !.body = "by hand",
                               !.prerelease = t.preview] IN
    /\ Edit(t) /\ "by hand" \notin {release[t].body, twin[t].body}
    /\ IF Exists(release[t]) THEN twin' = [twin EXCEPT ![t] = r] /\ UNCHANGED release
       ELSE release' = [release EXCEPT ![t] = r] /\ UNCHANGED twin
    /\ made' = [made EXCEPT ![t] = @ + 1]
    /\ UNCHANGED <<tag, latest, clock>>

\* Either of two drafts may be the one deleted.
DeleteDraft(t) ==
    /\ Edit(t) /\ Exists(release[t])
    /\ \/ release' = [release EXCEPT ![t] = twin[t]]
       \/ Exists(twin[t]) /\ UNCHANGED release
    /\ twin' = [twin EXCEPT ![t] = NoRelease]
    /\ UNCHANGED <<tag, made, latest, clock>>

MoveTag(t) ==
    /\ Edit(t)
    /\ \E ref \in Refs \cup {NoCommit} : tag' = [tag EXCEPT ![t] = ref]
    /\ UNCHANGED <<release, twin, made, latest, clock>>

PublishByHand(t) ==
    /\ Edit(t) /\ Exists(release[t])
    /\ MakePublic(t, release[t].prerelease, FALSE)
    /\ UNCHANGED <<twin, made, latest>>

\* The refusal of half an asset asks a person to delete it.
DeletePartial(t) ==
    /\ ~Published(t)
    /\ \E n \in Names :
         /\ release[t].assets[n].bytes = "partial"
         /\ release' = [release EXCEPT ![t].assets[n] = NoAsset]
    /\ UNCHANGED <<tag, twin, made, latest, clock, mutating, publishing, pc, jobVars, faults, edits>>

DraftStep(j)   == \/ FindRelease(j) \/ CheckTarget(j) \/ Revalidate(j) \/ CreateTag(j)
                  \/ RecheckTag(j) \/ CreateDraft(j) \/ Upload(j) \/ CheckUpload(j)
PublicStep(j)  == \/ FreshDraft(j) \/ TagBefore(j) \/ RevalidateAgain(j) \/ Undraft(j)
                  \/ Confirm(j)
LatestStep(j)  == \/ LatestTag(j) \/ LatestList(j) \/ LatestRead(j) \/ LatestPatch(j)
                  \/ LatestConfirm(j)
Publisher(j)   == DraftStep(j) \/ PublicStep(j) \/ LatestStep(j)
Workflow(j)    == Preflight(j) \/ Rerun(j) \/ StartPublish(j)
People(t)      == \/ EditNotes(t) \/ EditAsset(t) \/ DraftByHand(t) \/ DeleteDraft(t)
                  \/ MoveTag(t) \/ PublishByHand(t)

Next == \/ \E j \in Jobs : Publisher(j) \/ Workflow(j) \/ CallFails(j)
        \/ \E t \in Tags : People(t) \/ DeletePartial(t)

Spec == Init /\ [][Next]_vars

\* A job that runs goes on; queued runs are admitted in turn; a failed job is
\* rerun and half an asset deleted, as the publisher's messages ask.
Fairness == /\ \A j \in Jobs : WF_vars(Publisher(j)) /\ SF_vars(Workflow(j))
            /\ \A t \in Tags : WF_vars(DeletePartial(t))

FairSpec == Spec /\ Fairness

-----------------------------------------------------------------------------
(***************************************************************************)
(* Properties                                                              *)
(***************************************************************************)
\* Every variable has its type.
TypeOK ==
    /\ tag \in [Tags -> Refs \cup Commits \cup {NoCommit}]
    /\ release \in [Tags -> Release] /\ twin \in [Tags -> Release]
    /\ made \in [Tags -> Nat]
    /\ latest \subseteq Tags
    /\ clock \in Nat
    /\ mutating \in [Tags -> Jobs \cup Collectors \cup {NoJob}]
    /\ publishing \in Jobs \cup {NoJob}
    /\ pc \in [Jobs -> Steps]
    /\ number \in [Jobs -> Nat]
    /\ public \in [Jobs -> BOOLEAN]
    /\ hadTag \in [Jobs -> BOOLEAN]
    /\ seen \in [Jobs -> Assets]
    /\ todo \in [Jobs -> SUBSET Names]
    /\ faults \in 0 .. MaxFaults
    /\ edits \in 0 .. MaxEdits

\* The Release t holds one commit's bundle, whole: tag, notes, every archive.
Consistent(t, c) == /\ TagTarget(t) = c
                    /\ release[t].body = Notes[c] /\ ~release[t].extra
                    /\ release[t].prerelease = t.preview
                    /\ \A n \in Names : release[t].assets[n].bytes = c

\* What the publisher made public is one commit's complete bundle under its
\* tag, whatever failed, was retried or edited before, and by whichever of the
\* runs that competed for the version.
PublicIsVerified ==
    \A t \in Tags : Published(t) /\ release[t].verified =>
        \E j \in Jobs : TagOf(j) = t /\ Consistent(t, CommitOf(j))

\* A job that reports success leaves its own commit's bundle public.
DoneIsPublished ==
    \A j \in Jobs : At(j, "done") =>
        /\ Published(TagOf(j))
        /\ TagTarget(TagOf(j)) = CommitOf(j)
        /\ release[TagOf(j)].prerelease = TagOf(j).preview /\ ~release[TagOf(j)].extra
        /\ \A n \in Names : release[TagOf(j)].assets[n].bytes = CommitOf(j)

\* The archives of one Release never come from two commits, not even in a
\* draft that two runs, a moved tag and reruns pass between them, nor in
\* another draft of the tag that an upload goes to by mistake.
OneCommitPerRelease ==
    \A t \in Tags : \A r \in {release[t], twin[t]} : \A m, n \in Names :
        LET b == r.assets[m].bytes
            d == r.assets[n].bytes
        IN  b \in Commits /\ d \in Commits => b = d

\* Latest never falls back: it moves to a higher version of its unit or to a
\* Release published later, never below a Stable already public in the unit.
LatestAdvances ==
    [][latest' # latest => \A t \in latest' :
          /\ Higher(t) = {}
          /\ \A u \in latest : GivesWay(u, t)]_vars

\* When all jobs have ended well, Latest is marked if any Stable from main was
\* published, and is no older than any of those that head their unit.
LatestIsCurrent ==
    (\A j \in Jobs : At(j, "done")) =>
        \A j \in Jobs :
            Plan[j].ref = "main" /\ Stable(TagOf(j)) /\ Higher(TagOf(j)) = {} =>
                /\ latest # {}
                /\ \A u \in latest : release[u].time >= release[TagOf(j)].time

\* Reruns finish every publication, whichever call failed or response was lost.
AllPublished == <>(\A j \in Jobs : At(j, "done"))
=============================================================================
