---------------------- MODULE ReleasePublisher_proofs ----------------------
(***************************************************************************)
(* Proofs about the publisher and the deletion of Previews beside it: the  *)
(* types, the inductive invariant behind what is public and reported, the  *)
(* collectors' invariant, and the Latest mark.                             *)
(***************************************************************************)
EXTENDS DeletePreview, TLAPS

-----------------------------------------------------------------------------
(***************************************************************************)
(* Types.                                                                  *)
(***************************************************************************)

\* What a job takes and how it ends is of the types.
LEMMA PlanTypes ==
    ASSUME NEW j \in Jobs
    PROVE  /\ TagOf(j) \in Tags /\ CommitOf(j) \in Commits /\ NotesOf(j) \in Bodies
           /\ TagOf(j).preview \in BOOLEAN
<1>1. Plan[j] \in [tag : Tags, commit : Commits, ref : {"main", "maintenance"}]
  BY PlanAssumption
<1>2. Plan[j].tag \in Tags /\ Plan[j].commit \in Commits
  BY <1>1
<1>3. Plan[j].tag.preview \in BOOLEAN
  BY <1>2, PlanAssumption
<1> QED BY <1>2, <1>3 DEF TagOf, CommitOf, NotesOf, Bodies

\* Assets and Releases that are none are of the types, and of no commit.
LEMMA AssetTypes ==
    /\ NoAsset \in Asset /\ NoAssets \in Assets /\ NoRelease \in Release
    /\ \A b \in Commits \cup {"none", "foreign", "partial"}, c \in {0, 1} : [bytes |-> b, copy |-> c] \in Asset
    /\ NoAsset.bytes \notin Commits /\ "partial" \notin Commits /\ "foreign" \notin Commits
<1>1. NoAsset \in Asset /\ NoAssets \in Assets
  BY DEF NoAsset, Asset, NoAssets, Assets
<1>2. NoRelease \in Release
  BY <1>1 DEF NoRelease, Release, Bodies
<1> QED BY <1>1, <1>2, PlanAssumption DEF NoAsset, Asset

\* The types hold at first.
LEMMA PublishTypesInit == Init => TypeOK
BY AssetTypes, BoundAssumption DEF Init, TypeOK, Steps

\* A job goes on, or lets go of the groups.
LEMMA JobMoves ==
    ASSUME TypeOK, NEW j \in Jobs, NEW l \in Steps, Goto(j, l) \/ End(j, l)
    PROVE  /\ pc' = [pc EXCEPT ![j] = l] /\ pc' \in [Jobs -> Steps]
           /\ mutating' \in [Tags -> Jobs \cup Collectors \cup {NoJob}] /\ publishing' \in Jobs \cup {NoJob}
BY DEF TypeOK, Goto, End

\* The bound on faults is kept.
LEMMA FaultTypes ==
    ASSUME TypeOK, faults < MaxFaults, faults' = faults + 1 PROVE faults' \in 0 .. MaxFaults
BY BoundAssumption DEF TypeOK

\* The bound on edits is kept.
LEMMA EditTypes ==
    ASSUME TypeOK, edits < MaxEdits, edits' = edits + 1 PROVE edits' \in 0 .. MaxEdits
BY BoundAssumption DEF TypeOK

\* A write whose response may be lost moves the job on or ends it.
LEMMA RespondMoves ==
    ASSUME TypeOK, NEW j \in Jobs, NEW l \in Steps, Respond(j, l)
    PROVE  /\ Goto(j, l) \/ End(j, "failed")
           /\ pc' \in [Jobs -> Steps] /\ faults' \in 0 .. MaxFaults
           /\ mutating' \in [Tags -> Jobs \cup Collectors \cup {NoJob}] /\ publishing' \in Jobs \cup {NoJob}
<1>1. "failed" \in Steps
  BY DEF Steps
<1> QED BY <1>1, JobMoves, FaultTypes DEF Respond, TypeOK

\* The looks of the publisher at GitHub, which write nothing there.
Look(j) == \/ FindRelease(j) \/ CheckTarget(j) \/ Revalidate(j) \/ RecheckTag(j) \/ CheckUpload(j)
           \/ FreshDraft(j) \/ TagBefore(j) \/ RevalidateAgain(j) \/ Confirm(j)
           \/ LatestTag(j) \/ LatestList(j) \/ LatestRead(j) \/ LatestConfirm(j) \/ CallFails(j)

\* A look leaves GitHub alone and moves the job on or ends it.
LEMMA LookMoves ==
    ASSUME TypeOK, NEW j \in Jobs, Look(j)
    PROVE  /\ UNCHANGED <<githubVars, edits>> /\ faults' \in 0 .. MaxFaults
           /\ number' \in [Jobs -> Nat] /\ public' \in [Jobs -> BOOLEAN]
           /\ hadTag' \in [Jobs -> BOOLEAN] /\ seen' \in [Jobs -> Assets]
           /\ todo' \in [Jobs -> SUBSET Names]
           /\ pc[j] \in Calls
           /\ (\E l \in Steps : Goto(j, l)) \/ End(j, "failed") \/ End(j, "done")
<1>1. Release = [number : Nat, draft : BOOLEAN, prerelease : BOOLEAN, body : Bodies,
                 assets : Assets, extra : BOOLEAN, target : Commits \cup {NoCommit}, time : Nat,
                 verified : BOOLEAN]
  BY DEF Release
<1>2. release[TagOf(j)] \in Release
  BY PlanTypes DEF TypeOK
<1>3. release[TagOf(j)].number \in Nat /\ release[TagOf(j)].draft \in BOOLEAN
      /\ release[TagOf(j)].assets \in Assets
  BY <1>1, <1>2
<1>calls. pc[j] \in Calls
  BY DEF Look, FindRelease, CheckTarget, Revalidate, RecheckTag, CheckUpload, FreshDraft, TagBefore,
         RevalidateAgain, Confirm, LatestTag, LatestList, LatestRead, LatestConfirm, CallFails, At, Calls
<1>4. CASE FindRelease(j)
  <2>1. UNCHANGED <<githubVars, hadTag, todo, faults, edits>>
    BY <1>4 DEF FindRelease
  <2>2. /\ number' = [number EXCEPT ![j] = release[TagOf(j)].number]
        /\ public' = [public EXCEPT ![j] = Exists(release[TagOf(j)]) /\ ~release[TagOf(j)].draft]
        /\ seen' = [seen EXCEPT ![j] = release[TagOf(j)].assets]
    BY <1>4 DEF FindRelease
  <2>3. Goto(j, "target") \/ End(j, "failed")
    BY <1>4 DEF FindRelease, Require
  <2>4. public' \in [Jobs -> BOOLEAN]
    BY <2>2 DEF TypeOK
  <2> QED BY <1>calls, <1>3, <2>1, <2>2, <2>3, <2>4 DEF TypeOK, Steps, Calls
<1>5. CASE CheckTarget(j)
  <2>1. hadTag' \in [Jobs -> BOOLEAN]
    BY <1>5 DEF CheckTarget, TypeOK
  <2>2. (\E l \in {"latestTag", "revalidate"} : Goto(j, l)) \/ End(j, "failed")
    BY <1>5 DEF CheckTarget, Require
  <2> QED BY <1>calls, <1>5, <2>1, <2>2 DEF CheckTarget, TypeOK, Steps, Calls
<1>6. CASE RecheckTag(j)
  <2>1. todo' = [todo EXCEPT ![j] = Names \ Present(seen[j])]
    BY <1>6 DEF RecheckTag
  <2>2. todo' \in [Jobs -> SUBSET Names]
    BY <2>1 DEF TypeOK
  <2>3. (\E l \in {"createDraft", "fresh", "upload"} : Goto(j, l)) \/ End(j, "failed")
    BY <1>6 DEF RecheckTag, Require, NextUpload
  <2> QED BY <1>calls, <1>6, <2>2, <2>3 DEF RecheckTag, TypeOK, Steps, Calls
<1>7. CASE CheckUpload(j)
  <2>1. todo' = [todo EXCEPT ![j] = {n \in todo[j] : release[TagOf(j)].assets[n] = NoAsset}]
        /\ seen' = [seen EXCEPT ![j] = release[TagOf(j)].assets]
    BY <1>7 DEF CheckUpload
  <2>2. todo' \in [Jobs -> SUBSET Names] /\ seen' \in [Jobs -> Assets]
    BY <1>3, <2>1 DEF TypeOK
  <2>3. (\E l \in {"fresh", "upload"} : Goto(j, l)) \/ End(j, "failed")
    BY <1>7 DEF CheckUpload, Require, NextUpload
  <2> QED BY <1>calls, <1>7, <2>2, <2>3 DEF CheckUpload, TypeOK, Steps, Calls
<1>8. CASE Revalidate(j) \/ FreshDraft(j) \/ TagBefore(j) \/ RevalidateAgain(j) \/ Confirm(j)
           \/ LatestTag(j) \/ LatestList(j) \/ LatestRead(j) \/ LatestConfirm(j)
  <2>1. UNCHANGED <<githubVars, jobVars, faults, edits>>
    BY <1>8 DEF Revalidate, FreshDraft, TagBefore, RevalidateAgain, Confirm, LatestTag, LatestList,
                LatestRead, LatestConfirm
  <2>2. \/ \E l \in {"recheckTag", "createTag", "tagBefore", "revalidateAgain", "undraft", "latestTag",
                     "latestList", "latestRead", "latestPatch"} : Goto(j, l)
        \/ End(j, "failed") \/ End(j, "done")
    BY <1>8 DEF Revalidate, FreshDraft, TagBefore, RevalidateAgain, Confirm, LatestTag, LatestList,
                LatestRead, LatestConfirm, Require
  <2> QED BY <1>calls, <2>1, <2>2 DEF TypeOK, Steps, Calls, jobVars
<1>9. CASE CallFails(j)
  <2>1. UNCHANGED <<githubVars, jobVars, edits>> /\ End(j, "failed")
    BY <1>9 DEF CallFails
  <2>2. faults' \in 0 .. MaxFaults
    BY <1>9, FaultTypes DEF CallFails
  <2> QED BY <1>calls, <2>1, <2>2 DEF TypeOK, Steps, jobVars
<1> QED BY <1>4, <1>5, <1>6, <1>7, <1>8, <1>9, <1>calls DEF Look

\* The fields of a Release have their types.
LEMMA Released ==
    ASSUME NEW r \in Release
    PROVE  /\ r.number \in Nat /\ r.draft \in BOOLEAN /\ r.prerelease \in BOOLEAN /\ r.body \in Bodies
           /\ r.assets \in Assets /\ r.target \in Commits \cup {NoCommit} /\ r.time \in Nat
           /\ \A a \in Assets : [r EXCEPT !.assets = a] \in Release
BY DEF Release

\* A new draft.
LEMMA Drafted ==
    ASSUME NEW n \in Nat, NEW b \in Bodies, NEW p \in BOOLEAN, NEW c \in Commits \cup {NoCommit}
    PROVE  /\ [NoRelease EXCEPT !.number = n, !.body = b, !.prerelease = p, !.target = c] \in Release
           /\ [NoRelease EXCEPT !.number = n, !.body = b, !.prerelease = p] \in Release
           /\ [NoRelease EXCEPT !.number = n, !.body = b, !.prerelease = p, !.target = c].number = n
<1>1. NoRelease \in Release
  BY AssetTypes
<1> HIDE DEF NoRelease
<1> QED BY <1>1 DEF Release

\* What GitHub does to publish a Release.
LEMMA MadePublic ==
    ASSUME TypeOK, NEW t \in Tags, NEW p \in BOOLEAN, NEW g \in BOOLEAN, MakePublic(t, p, g)
    PROVE  /\ clock' \in Nat
           /\ release' \in [Tags -> Release] /\ tag' \in [Tags -> Refs \cup Commits \cup {NoCommit}]
           /\ \A u \in Tags \ {t} : release'[u] = release[u] /\ tag'[u] = tag[u]
           /\ release'[t].number = release[t].number /\ ~release'[t].draft
           /\ release'[t].prerelease = p /\ release'[t].body = release[t].body
           /\ release'[t].assets = release[t].assets /\ release'[t].extra = release[t].extra
           /\ release'[t].verified = g
           /\ tag[t] # NoCommit => tag' = tag
<1>1. PICK tick \in {0, 1} :
        /\ clock' = clock + tick
        /\ release' = [release EXCEPT ![t].draft = FALSE, ![t].prerelease = p,
                                      ![t].time = clock + tick, ![t].verified = g]
        /\ tag' \in {[tag EXCEPT ![t] = ref] : ref \in TagMade(t)}
  BY DEF MakePublic
<1> DEFINE r == release[t]
           s == [r EXCEPT !.draft = FALSE, !.prerelease = p, !.time = clock + tick, !.verified = g]
<1>2. clock' \in Nat /\ r \in Release
  BY <1>1 DEF TypeOK
<1>3. release' = [release EXCEPT ![t] = s]
  BY <1>1
<1>4. /\ s \in Release /\ s.number = r.number /\ ~s.draft /\ s.prerelease = p /\ s.body = r.body
      /\ s.assets = r.assets /\ s.extra = r.extra /\ s.verified = g
  BY <1>1, <1>2 DEF Release
<1>5. TagMade(t) \subseteq Refs \cup Commits \cup {NoCommit}
  BY <1>2, Released DEF TagMade, TypeOK
<1>6. PICK ref \in TagMade(t) : tag' = [tag EXCEPT ![t] = ref]
  BY <1>1
<1>7. tag[t] # NoCommit => tag' = tag
  BY <1>6 DEF TagMade, TypeOK
<1> HIDE DEF s
<1> QED BY <1>2, <1>3, <1>4, <1>5, <1>6, <1>7 DEF TypeOK

\* What a job writes at GitHub is of the types.
LEMMA WriteTypes ==
    ASSUME TypeOK, NEW j \in Jobs,
           CreateTag(j) \/ CreateDraft(j) \/ Upload(j) \/ Undraft(j) \/ LatestPatch(j)
    PROVE  TypeOK'
<1>1. TagOf(j) \in Tags /\ CommitOf(j) \in Commits /\ NotesOf(j) \in Bodies /\ TagOf(j).preview \in BOOLEAN
  BY PlanTypes
<1>2. {"failed", "recheckTag", "upload", "checkUpload", "confirm", "latestConfirm"} \subseteq Steps
  BY DEF Steps, Calls
<1>3. CASE CreateTag(j)
  <2>1. UNCHANGED <<release, twin, made, latest, clock, jobVars, edits>>
    BY <1>3 DEF CreateTag
  <2>2. tag' \in [Tags -> Refs \cup Commits \cup {NoCommit}]
    BY <1>1, <1>3 DEF CreateTag, TypeOK
  <2>3. /\ pc' \in [Jobs -> Steps] /\ faults' \in 0 .. MaxFaults
        /\ mutating' \in [Tags -> Jobs \cup Collectors \cup {NoJob}] /\ publishing' \in Jobs \cup {NoJob}
    BY <1>2, <1>3, RespondMoves, JobMoves DEF CreateTag, TypeOK
  <2> QED BY <2>1, <2>2, <2>3 DEF TypeOK, jobVars
<1>4. CASE CreateDraft(j)
  <2> DEFINE t == TagOf(j)
             r == [NoRelease EXCEPT !.number = made[t] + 1, !.body = NotesOf(j),
                                    !.prerelease = t.preview, !.target = CommitOf(j)]
  <2>1. UNCHANGED <<tag, latest, clock, public, hadTag, seen, todo, edits>> /\ Respond(j, "upload")
    BY <1>4 DEF CreateDraft
  <2>2. /\ release' = [release EXCEPT ![t] = r] /\ twin' = [twin EXCEPT ![t] = release[t]]
        /\ made' = [made EXCEPT ![t] = @ + 1] /\ number' = [number EXCEPT ![j] = r.number]
    BY <1>4 DEF CreateDraft
  <2>3. r \in Release /\ r.number \in Nat
    <3>1. made[t] + 1 \in Nat
      BY <1>1 DEF TypeOK
    <3>2. CommitOf(j) \in Commits \cup {NoCommit}
      BY <1>1
    <3>3. r \in Release
      <4> DEFINE m == made[t] + 1
      <4> HIDE DEF m
      <4>1. [NoRelease EXCEPT !.number = m, !.body = NotesOf(j), !.prerelease = t.preview,
                              !.target = CommitOf(j)] \in Release
        <5>1. m \in Nat
          BY <3>1 DEF m
        <5> QED BY <1>1, <3>2, <5>1, Drafted
      <4> QED BY <4>1 DEF m
    <3>4. r.number = made[t] + 1
      BY <1>1, <3>1, AssetTypes DEF NoRelease
    <3> QED BY <3>1, <3>3, <3>4
  <2> HIDE DEF r
  <2>4. /\ release' \in [Tags -> Release] /\ twin' \in [Tags -> Release]
        /\ made' \in [Tags -> Nat] /\ number' \in [Jobs -> Nat]
    BY <1>1, <2>2, <2>3 DEF TypeOK
  <2>5. /\ pc' \in [Jobs -> Steps] /\ faults' \in 0 .. MaxFaults
        /\ mutating' \in [Tags -> Jobs \cup Collectors \cup {NoJob}] /\ publishing' \in Jobs \cup {NoJob}
    BY <1>2, <2>1, RespondMoves
  <2> QED BY <2>1, <2>4, <2>5 DEF TypeOK
<1>5. CASE Upload(j)
  <2> DEFINE t == TagOf(j)
  <2>1. UNCHANGED <<tag, made, latest, clock, jobVars, edits>>
    BY <1>5 DEF Upload
  <2>2. ASSUME NEW r \in Release, NEW n \in Names, NEW b \in {CommitOf(j), "partial"}
        PROVE  [r EXCEPT !.assets[n] = [bytes |-> b, copy |-> 0]] \in Release
    <3>1. [bytes |-> b, copy |-> 0] \in Asset
      BY <1>1, AssetTypes
    <3>2. [r.assets EXCEPT ![n] = [bytes |-> b, copy |-> 0]] \in Assets
      BY <3>1, Released DEF Assets
    <3> QED BY <3>2, Released
  <2>3. \A n \in todo[j] : n \in Names
    BY DEF TypeOK
  <2>4. release' \in [Tags -> Release] /\ twin' \in [Tags -> Release]
    <3> DEFINE Put(r, n, b) == [r EXCEPT !.assets[n] = [bytes |-> b, copy |-> 0]]
    <3>1. \/ UNCHANGED <<release, twin>>
          \/ \E n \in todo[j], b \in {CommitOf(j), "partial"} :
                \/ release' = [release EXCEPT ![t] = Put(release[t], n, b)] /\ UNCHANGED twin
                \/ twin' = [twin EXCEPT ![t] = Put(twin[t], n, b)] /\ UNCHANGED release
      BY <1>5 DEF Upload
    <3>2. \A n \in todo[j], b \in {CommitOf(j), "partial"} :
             Put(release[t], n, b) \in Release /\ Put(twin[t], n, b) \in Release
      BY <1>1, <2>2, <2>3 DEF TypeOK
    <3> HIDE DEF Put
    <3> QED BY <3>1, <3>2 DEF TypeOK
  <2>5. /\ pc' \in [Jobs -> Steps] /\ faults' \in 0 .. MaxFaults
        /\ mutating' \in [Tags -> Jobs \cup Collectors \cup {NoJob}] /\ publishing' \in Jobs \cup {NoJob}
    <3>1. \/ Respond(j, "checkUpload")
          \/ faults < MaxFaults /\ faults' = faults + 1 /\ End(j, "failed")
          \/ UNCHANGED faults /\ End(j, "failed")
      BY <1>5 DEF Upload
    <3> QED BY <1>2, <3>1, RespondMoves, JobMoves, FaultTypes DEF TypeOK
  <2> QED BY <2>1, <2>4, <2>5 DEF TypeOK, jobVars
<1>6. CASE Undraft(j)
  <2>1. UNCHANGED <<twin, made, latest, jobVars, edits>>
    BY <1>6 DEF Undraft
  <2>2. /\ clock' \in Nat /\ release' \in [Tags -> Release]
        /\ tag' \in [Tags -> Refs \cup Commits \cup {NoCommit}]
    BY <1>1, <1>6, MadePublic DEF Undraft, TypeOK
  <2>3. /\ pc' \in [Jobs -> Steps] /\ faults' \in 0 .. MaxFaults
        /\ mutating' \in [Tags -> Jobs \cup Collectors \cup {NoJob}] /\ publishing' \in Jobs \cup {NoJob}
    BY <1>2, <1>6, RespondMoves, JobMoves DEF Undraft, TypeOK
  <2> QED BY <2>1, <2>2, <2>3 DEF TypeOK, jobVars
<1>7. CASE LatestPatch(j)
  <2>1. UNCHANGED <<tag, release, twin, made, clock, jobVars, edits>> /\ latest' \subseteq Tags
    BY <1>1, <1>7 DEF LatestPatch
  <2>2. /\ pc' \in [Jobs -> Steps] /\ faults' \in 0 .. MaxFaults
        /\ mutating' \in [Tags -> Jobs \cup Collectors \cup {NoJob}] /\ publishing' \in Jobs \cup {NoJob}
    BY <1>2, <1>7, RespondMoves DEF LatestPatch
  <2> QED BY <2>1, <2>2 DEF TypeOK, jobVars
<1> QED BY <1>3, <1>4, <1>5, <1>6, <1>7

\* What the workflow does with a run is of the types.
LEMMA WorkflowTypes == ASSUME TypeOK, NEW j \in Jobs, Workflow(j) PROVE TypeOK'
<1>1. UNCHANGED <<githubVars, jobVars, faults, edits>>
  BY DEF Workflow, Preflight, Rerun, StartPublish
<1>2. /\ pc' \in [Jobs -> Steps] /\ mutating' \in [Tags -> Jobs \cup Collectors \cup {NoJob}]
      /\ publishing' \in Jobs \cup {NoJob}
  BY PlanTypes DEF TypeOK, Workflow, Preflight, Rerun, StartPublish, Steps, Calls
<1> QED BY <1>1, <1>2 DEF TypeOK, githubVars, jobVars

\* What people do to a Release.
LEMMA PeopleTypes == ASSUME TypeOK, NEW t \in Tags, People(t) \/ DeletePartial(t) PROVE TypeOK'
<1>1. UNCHANGED <<latest, mutating, publishing, pc, jobVars, faults>> /\ edits' \in 0 .. MaxEdits
  BY EditTypes DEF People, EditNotes, EditAsset, DraftByHand, DeleteDraft, MoveTag, PublishByHand,
                   DeletePartial, Edit, TypeOK
<1>2. release[t] \in Release /\ twin[t] \in Release
  BY DEF TypeOK
<1>3. CASE EditNotes(t)
  <2>1. "edited" \in Bodies
    BY DEF Bodies
  <2>2. /\ [release[t] EXCEPT !.body = "edited"] \in Release
        /\ [release[t] EXCEPT !.prerelease = ~release[t].prerelease] \in Release
    BY <1>2, <2>1 DEF Release
  <2>3. release' \in {[release EXCEPT ![t] = [release[t] EXCEPT !.body = "edited"]],
                      [release EXCEPT ![t] = [release[t] EXCEPT !.prerelease = ~release[t].prerelease]]}
    BY <1>3 DEF EditNotes
  <2>4. release' \in [Tags -> Release]
    BY <2>2, <2>3 DEF TypeOK
  <2> QED BY <1>1, <1>3, <2>4 DEF EditNotes, TypeOK, jobVars
<1>4. ASSUME NEW n \in Names, NEW a \in Asset, release' = [release EXCEPT ![t].assets[n] = a]
      PROVE  release' \in [Tags -> Release]
  <2>1. [release[t].assets EXCEPT ![n] = a] \in Assets
    BY <1>2, Released DEF Assets
  <2>2. [release[t] EXCEPT !.assets[n] = a] \in Release
    BY <1>2, <2>1, Released
  <2>3. release' = [release EXCEPT ![t] = [release[t] EXCEPT !.assets[n] = a]]
    BY <1>4
  <2> QED BY <2>2, <2>3 DEF TypeOK
<1>5. CASE EditAsset(t)
  <2>1. \A n \in Names : [release[t].assets[n] EXCEPT !.copy = 1] \in Asset
    BY <1>2, Released DEF Assets, Asset
  <2>2. [release[t] EXCEPT !.extra = TRUE] \in Release
    BY <1>2 DEF Release
  <2>3. release' \in [Tags -> Release]
    <3>1. CASE release' = [release EXCEPT ![t].extra = TRUE]
      BY <2>2, <3>1 DEF TypeOK
    <3>2. CASE ~(release' = [release EXCEPT ![t].extra = TRUE])
      BY <1>4, <1>5, <2>1, <3>2, AssetTypes DEF EditAsset, Present
    <3> QED BY <3>1, <3>2
  <2> QED BY <1>1, <1>5, <2>3 DEF EditAsset, TypeOK, jobVars
<1>6. CASE DraftByHand(t)
  <2> DEFINE r == [NoRelease EXCEPT !.number = made[t] + 1, !.body = "by hand",
                                    !.prerelease = t.preview]
  <2>1. r \in Release
    <3>1. made[t] + 1 \in Nat /\ "by hand" \in Bodies /\ t.preview \in BOOLEAN
      BY PlanAssumption DEF TypeOK, Bodies
    <3> QED BY <3>1, Drafted
  <2>2. /\ release' = [release EXCEPT ![t] = r] \/ UNCHANGED release
        /\ twin' = [twin EXCEPT ![t] = r] \/ UNCHANGED twin
        /\ made' = [made EXCEPT ![t] = made[t] + 1]
    BY <1>6 DEF DraftByHand
  <2> HIDE DEF r
  <2>3. release' \in [Tags -> Release] /\ twin' \in [Tags -> Release] /\ made' \in [Tags -> Nat]
    BY <2>1, <2>2 DEF TypeOK
  <2> QED BY <1>1, <1>6, <2>3 DEF DraftByHand, TypeOK, jobVars
<1>7. CASE DeleteDraft(t)
  BY <1>1, <1>2, <1>7, AssetTypes DEF DeleteDraft, TypeOK, jobVars
<1>8. CASE MoveTag(t)
  BY <1>1, <1>8 DEF MoveTag, TypeOK, jobVars
<1>9. CASE PublishByHand(t)
  <2>1. MakePublic(t, release[t].prerelease, FALSE) /\ UNCHANGED <<twin, made, latest>>
    BY <1>9 DEF PublishByHand
  <2>2. /\ clock' \in Nat /\ release' \in [Tags -> Release]
        /\ tag' \in [Tags -> Refs \cup Commits \cup {NoCommit}]
    BY <1>2, <2>1, Released, MadePublic
  <2> QED BY <1>1, <2>1, <2>2 DEF TypeOK, jobVars
<1>10. CASE DeletePartial(t)
  <2>1. release' \in [Tags -> Release]
    BY <1>4, <1>10, AssetTypes DEF DeletePartial
  <2> QED BY <1>1, <1>10, <2>1 DEF DeletePartial, TypeOK, jobVars
<1> QED BY <1>3, <1>5, <1>6, <1>7, <1>8, <1>9, <1>10 DEF People

\* Every step keeps the types.
LEMMA PublishTypesStep == TypeOK /\ [Next]_vars => TypeOK'
<1> SUFFICES ASSUME TypeOK, [Next]_vars PROVE TypeOK'
  OBVIOUS
<1>1. ASSUME NEW j \in Jobs, Look(j) PROVE TypeOK'
  <2>1. PICK l \in Steps : Goto(j, l) \/ End(j, l)
    BY <1>1, LookMoves DEF Steps
  <2> QED BY <1>1, <2>1, LookMoves, JobMoves DEF TypeOK, githubVars
<1>2. CASE UNCHANGED vars
  BY <1>2 DEF vars, githubVars, jobVars, TypeOK
<1> QED BY <1>1, <1>2, WriteTypes, WorkflowTypes, PeopleTypes
        DEF Next, Publisher, DraftStep, PublicStep, LatestStep, Look

\* Every variable of the publisher has its type.
THEOREM TypeCorrect == Spec => []TypeOK
BY PublishTypesInit, PublishTypesStep, PTL DEF Spec

-----------------------------------------------------------------------------
(***************************************************************************)
(* The inductive invariant of the publisher.                               *)
(***************************************************************************)
Drafting == {"revalidate", "createTag", "recheckTag", "createDraft", "upload", "checkUpload",
             "fresh", "tagBefore", "revalidateAgain", "undraft"}
Running  == Calls \cup {"queued"}
Reported == {"latestTag", "latestList", "latestRead", "latestPatch", "latestConfirm", "done"}

\* The job will make the Release public, if all goes well.
Drafts(j) == pc[j] \in Drafting \/ (pc[j] = "target" /\ ~public[j])

\* The job takes the Release for published.
Trusts(j) == pc[j] \in {"confirm"} \cup Reported \/ (pc[j] = "target" /\ public[j])

\* A Release holds the archives of a commit, all of them and nothing else.
Holds(r, c) == ~r.extra /\ \A n \in Names : r.assets[n].bytes = c

\* A Release may have the archives of no commit but this one.
Only(r, c) == \A n \in Names : r.assets[n].bytes \in Commits => r.assets[n].bytes = c

NoMix(r) == \A m, n \in Names : r.assets[m].bytes \in Commits /\ r.assets[n].bytes \in Commits
                                   => r.assets[m].bytes = r.assets[n].bytes

\* One run at a time works on a version.
OneRun == \A j \in Jobs : pc[j] \in Running => mutating[TagOf(j)] = j

\* Nobody drafts a Release that a job has reported as published.
NoneDrafts == \A j, q \in Jobs : TagOf(j) = TagOf(q) /\ Drafts(j) => pc[q] \notin Reported

ReleaseInv(t) ==
    /\ release[t].number = 0 => release[t].assets = NoAssets
    /\ twin[t].number = 0 => twin[t].assets = NoAssets
    /\ NoMix(release[t]) /\ NoMix(twin[t])
    /\ ~twin[t].verified
    /\ release[t].verified => Published(t) /\ \E j \in Jobs : TagOf(j) = t /\ Consistent(t, CommitOf(j))

JobInv(j) ==
    LET t == TagOf(j)
        c == CommitOf(j)
        r == release[t] IN
    /\ pc[j] \in Calls \ {"find"} => Only(r, c) /\ Only(twin[t], c)
    /\ Drafts(j) => ~r.verified
    /\ pc[j] \in {"upload", "checkUpload", "fresh"} \cup LastLook \cup {"confirm"} => number[j] # 0
    /\ pc[j] \in LastLook => /\ Same(j) /\ r.draft /\ r.body = NotesOf(j)
                             /\ r.prerelease = t.preview /\ Holds(r, c)
    /\ pc[j] \in {"revalidateAgain", "undraft", "confirm"} \cup Reported => TagTarget(t) = c
    /\ Trusts(j) => Published(t) /\ r.prerelease = t.preview /\ Holds(r, c)

PublishInv == OneRun /\ NoneDrafts /\ (\A t \in Tags : ReleaseInv(t)) /\ (\A j \in Jobs : JobInv(j))

\* The invariant holds at first.
LEMMA PublishInvInit == Init => PublishInv
<1> SUFFICES ASSUME Init PROVE PublishInv
  OBVIOUS
<1>1. ASSUME NEW j \in Jobs PROVE pc[j] = "new"
  BY DEF Init
<1>2. ASSUME NEW t \in Tags PROVE ReleaseInv(t)
  <2>1. release[t] = NoRelease /\ twin[t] = NoRelease
    BY DEF Init
  <2>2. NoMix(NoRelease)
    BY AssetTypes DEF NoMix, NoRelease, NoAssets
  <2> QED BY <2>1, <2>2 DEF ReleaseInv, NoRelease
<1>3. ASSUME NEW j \in Jobs PROVE JobInv(j) /\ ~Drafts(j) /\ pc[j] \notin Running
  BY <1>1 DEF JobInv, Drafts, Drafting, Trusts, Reported, Calls, LastLook, Running
<1> QED BY <1>2, <1>3 DEF PublishInv, OneRun, NoneDrafts

\* A job that is not at work claims nothing.
LEMMA Idle ==
    ASSUME NEW q \in Jobs, pc'[q] \in {"new", "refused", "queued", "find", "failed"}
    PROVE  JobInv(q)' /\ ~Drafts(q)' /\ pc'[q] \notin Reported
BY DEF JobInv, Drafts, Drafting, Trusts, Reported, Calls, LastLook

\* A job whose version and state are left alone claims what it claimed.
LEMMA JobFrame ==
    ASSUME NEW q \in Jobs, JobInv(q), pc'[q] = pc[q], number'[q] = number[q], public'[q] = public[q],
           release'[TagOf(q)] = release[TagOf(q)], twin'[TagOf(q)] = twin[TagOf(q)],
           tag'[TagOf(q)] = tag[TagOf(q)]
    PROVE  JobInv(q)'
BY DEF JobInv, Drafts, Trusts, Same, Published, TagTarget

\* A version that is left alone keeps what holds of its Releases.
LEMMA ReleaseFrame ==
    ASSUME NEW t \in Tags, ReleaseInv(t), release'[t] = release[t], twin'[t] = twin[t], tag'[t] = tag[t]
    PROVE  ReleaseInv(t)'
BY DEF ReleaseInv, Published, Consistent, TagTarget

\* A job that runs is the only one of its version that does.
LEMMA Alone ==
    ASSUME TypeOK, OneRun, NEW j \in Jobs, NEW q \in Jobs, q # j, TagOf(q) = TagOf(j), pc[j] \in Running
    PROVE  pc[q] \in {"new", "refused", "failed", "done"}
<1>1. pc[q] \notin Running /\ pc[q] \in Steps
  BY DEF OneRun, TypeOK
<1> QED BY <1>1 DEF Running, Steps

\* A job that goes on keeps the version to itself.
LEMMA OneRunKept ==
    ASSUME TypeOK, OneRun, NEW j \in Jobs, pc[j] \in Running,
           (\E l \in Steps : Goto(j, l)) \/ End(j, "failed") \/ End(j, "done")
    PROVE  OneRun' /\ \A q \in Jobs \ {j} : pc'[q] = pc[q]
<1>1. \A q \in Jobs \ {j} : pc'[q] = pc[q]
  BY DEF Goto, End, TypeOK
<1>2. CASE \E l \in Steps : Goto(j, l)
  BY <1>1, <1>2 DEF Goto, OneRun
<1>3. CASE End(j, "failed") \/ End(j, "done")
  <2>1. pc'[j] \notin Running
    BY <1>3 DEF End, TypeOK, Running, Calls
  <2>2. ASSUME NEW q \in Jobs \ {j}, pc[q] \in Running PROVE mutating'[TagOf(q)] = q
    BY <1>3, <2>2, PlanTypes DEF End, OneRun
  <2> QED BY <1>1, <2>1, <2>2 DEF OneRun
<1> QED BY <1>2, <1>3

\* What the publisher compares with its bundle.
LEMMA Matched ==
    ASSUME NEW j \in Jobs, NEW r, NEW known, NEW complete \in BOOLEAN, AssetsMatch(r, j, known, complete)
    PROVE  /\ Only(r, CommitOf(j))
           /\ complete => Holds(r, CommitOf(j))
<1>1. \A n \in Names : r.assets[n].bytes = CommitOf(j) \/ r.assets[n] = NoAsset
  BY DEF AssetsMatch, Present
<1>2. complete => \A n \in Names : r.assets[n] # NoAsset
  BY DEF AssetsMatch, Present
<1> QED BY <1>1, <1>2, AssetTypes DEF Only, Holds, AssetsMatch

\* What a job knows after a look.
LEMMA LookJob ==
    ASSUME TypeOK, PublishInv, NEW j \in Jobs, Look(j)
    PROVE  /\ JobInv(j)'
           /\ Drafts(j)' => Drafts(j) \/ ~Published(TagOf(j))
           /\ pc'[j] \in Reported => Trusts(j)
<1> DEFINE t == TagOf(j)
           c == CommitOf(j)
<1>1. UNCHANGED <<release, twin, tag>>
  BY LookMoves DEF githubVars
<1>2. ReleaseInv(t) /\ JobInv(j) /\ c \in Commits
  BY PlanTypes DEF PublishInv
<1>3. pc'[j] \in {"failed"} => JobInv(j)' /\ ~Drafts(j)' /\ pc'[j] \notin Reported
  BY Idle
<1>4. \A l : Goto(j, l) => pc'[j] = l
  BY DEF Goto, TypeOK
<1>5. \A l : End(j, l) => pc'[j] = l
  BY DEF End, TypeOK
<1>6. CASE FindRelease(j)
  <2>1. SUFFICES ASSUME pc'[j] # "failed"
                 PROVE  JobInv(j)' /\ (Drafts(j)' => ~Published(t)) /\ pc'[j] \notin Reported
    BY <1>3
  <2>2. /\ ~Ambiguous(t) /\ pc'[j] = "target" /\ public'[j] = Published(t)
        /\ Exists(release[t]) => /\ ReleaseIdentity(release[t], t)
                                 /\ AssetsMatch(release[t], j, NoAssets, ~release[t].draft)
    BY <1>4, <1>5, <1>6, <2>1 DEF FindRelease, Require, TypeOK, Published
  <2>3. Only(release[t], c) /\ (Published(t) => Holds(release[t], c))
    <3>1. CASE Exists(release[t])
      BY <2>2, <3>1, Matched DEF Published
    <3>2. CASE ~Exists(release[t])
      BY <1>2, <3>2, AssetTypes DEF Exists, ReleaseInv, Only, NoAssets, Published
    <3> QED BY <3>1, <3>2
  <2>4. Only(twin[t], c)
    BY <1>2, <2>2, AssetTypes DEF Ambiguous, Exists, ReleaseInv, Only, NoAssets
  <2>5. ~Published(t) => ~release[t].verified
    BY <1>2 DEF ReleaseInv
  <2>6. Published(t) => release[t].prerelease = t.preview
    BY <2>2 DEF Published, ReleaseIdentity
  <2> QED BY <1>1, <2>2, <2>3, <2>4, <2>5, <2>6
          DEF JobInv, Drafts, Drafting, Trusts, Reported, Published, LastLook
<1>7. CASE CheckTarget(j)
  <2>1. SUFFICES ASSUME pc'[j] # "failed"
                 PROVE  JobInv(j)' /\ (Drafts(j)' => Drafts(j)) /\ (pc'[j] \in Reported => Trusts(j))
    BY <1>3
  <2>2. /\ pc[j] = "target" /\ public'[j] = public[j] /\ number'[j] = number[j]
        /\ pc'[j] = IF public[j] THEN "latestTag" ELSE "revalidate"
        /\ public[j] => TagTarget(t) = c
    BY <1>4, <1>5, <1>7, <2>1 DEF CheckTarget, Require, At
  <2>3. public[j] \in BOOLEAN
    BY DEF TypeOK
  <2>4. TagTarget(t)' = TagTarget(t) /\ Published(t)' = Published(t)
    BY <1>1 DEF TagTarget, Published
  <2>5. CASE public[j]
    BY <1>1, <1>2, <2>2, <2>4, <2>5 DEF JobInv, Drafts, Drafting, Trusts, Reported, LastLook, Calls
  <2>6. CASE ~public[j]
    BY <1>1, <1>2, <2>2, <2>4, <2>6 DEF JobInv, Drafts, Drafting, Trusts, Reported, LastLook, Calls
  <2> QED BY <2>3, <2>5, <2>6
<1>8. ASSUME UNCHANGED <<number, public>>, pc[j] \in Drafting,
             \/ pc'[j] \in {"recheckTag", "createTag", "createDraft"}
             \/ pc'[j] \in {"upload", "fresh"} /\ number[j] # 0
      PROVE  JobInv(j)' /\ Drafts(j) /\ pc'[j] \notin Reported
  <2>1. Only(release[t], c) /\ Only(twin[t], c) /\ ~release[t].verified
    BY <1>2, <1>8 DEF JobInv, Drafts, Drafting, Calls
  <2> QED BY <1>1, <1>8, <2>1 DEF JobInv, Drafts, Drafting, Trusts, Reported, LastLook, Same
<1>9. CASE Revalidate(j)
  BY <1>4, <1>8, <1>9 DEF Revalidate, At, Drafting, jobVars
<1>10. CASE RecheckTag(j)
  <2>1. pc[j] \in Drafting /\ UNCHANGED <<number, public>>
    BY <1>10 DEF RecheckTag, At, Drafting
  <2>2. \/ pc'[j] = "failed" \/ pc'[j] = "createDraft"
        \/ pc'[j] \in {"upload", "fresh"} /\ number[j] # 0
    BY <1>4, <1>5, <1>10 DEF RecheckTag, Require, NextUpload
  <2> QED BY <1>3, <1>8, <2>1, <2>2
<1>11. CASE CheckUpload(j)
  <2>1. pc[j] \in Drafting /\ UNCHANGED <<number, public>> /\ number[j] # 0
    BY <1>2, <1>11 DEF CheckUpload, At, Drafting, JobInv
  <2>2. pc'[j] = "failed" \/ pc'[j] \in {"upload", "fresh"}
    BY <1>4, <1>5, <1>11 DEF CheckUpload, Require, NextUpload
  <2> QED BY <1>3, <1>8, <2>1, <2>2
<1>12. ASSUME UNCHANGED <<number, public>>, pc[j] \in Drafting, number[j] # 0,
              Same(j), release[t].draft, release[t].body = NotesOf(j), release[t].prerelease = t.preview,
              Holds(release[t], c), pc'[j] \in LastLook, pc'[j] = "tagBefore" \/ TagTarget(t) = c
       PROVE  JobInv(j)' /\ Drafts(j) /\ pc'[j] \notin Reported
  <2>1. Only(release[t], c) /\ Only(twin[t], c) /\ ~release[t].verified
    BY <1>2, <1>12 DEF JobInv, Drafts, Drafting, Calls
  <2> QED BY <1>1, <1>12, <2>1 DEF JobInv, Drafts, Drafting, Trusts, Reported, LastLook, Same, TagTarget
<1>13. CASE FreshDraft(j)
  <2>1. pc[j] \in Drafting /\ UNCHANGED <<number, public>> /\ number[j] # 0
    BY <1>2, <1>13 DEF FreshDraft, At, Drafting, JobInv, jobVars
  <2>2. \/ pc'[j] = "failed"
        \/ /\ pc'[j] = "tagBefore" /\ Same(j) /\ ReleaseIdentity(release[t], t)
           /\ AssetsMatch(release[t], j, seen[j], TRUE)
           /\ release[t].draft /\ release[t].body = NotesOf(j)
    BY <1>4, <1>5, <1>13 DEF FreshDraft, Require
  <2>3. AssetsMatch(release[t], j, seen[j], TRUE) => Holds(release[t], c)
    BY Matched
  <2> QED BY <1>3, <1>12, <2>1, <2>2, <2>3 DEF LastLook, ReleaseIdentity
<1>14. CASE TagBefore(j) \/ RevalidateAgain(j)
  <2>1. /\ pc[j] \in Drafting /\ UNCHANGED <<number, public>> /\ pc[j] \in LastLook
        /\ pc[j] = "tagBefore" \/ pc[j] = "revalidateAgain"
    BY <1>14 DEF TagBefore, RevalidateAgain, At, Drafting, jobVars, LastLook
  <2>2. /\ number[j] # 0 /\ Same(j) /\ release[t].draft /\ release[t].body = NotesOf(j)
        /\ release[t].prerelease = t.preview /\ Holds(release[t], c)
        /\ pc[j] = "revalidateAgain" => TagTarget(t) = c
    BY <1>2, <2>1 DEF JobInv
  <2>3. \/ pc'[j] = "failed"
        \/ pc'[j] \in LastLook /\ (TagTarget(t) = c \/ pc[j] = "revalidateAgain")
    BY <1>4, <1>5, <1>14 DEF TagBefore, RevalidateAgain, Require, At, LastLook
  <2> QED BY <1>3, <1>12, <2>1, <2>2, <2>3
<1>15. CASE Confirm(j) \/ LatestTag(j) \/ LatestList(j) \/ LatestRead(j) \/ LatestConfirm(j)
  <2>1. pc[j] \in {"confirm"} \cup Reported /\ UNCHANGED <<number, public>>
    BY <1>15 DEF Confirm, LatestTag, LatestList, LatestRead, LatestConfirm, At, Reported, jobVars
  <2>2. pc'[j] = "failed" \/ pc'[j] \in Reported
    BY <1>4, <1>5, <1>15 DEF Confirm, LatestTag, LatestList, LatestRead, LatestConfirm, Require, Reported
  <2>3. /\ Trusts(j) /\ TagTarget(t) = c /\ Published(t) /\ release[t].prerelease = t.preview
        /\ Holds(release[t], c)
    BY <1>2, <2>1 DEF JobInv, Trusts
  <2>4. pc[j] # "done" => Only(twin[t], c)
    BY <1>2, <2>1 DEF JobInv, Reported, Calls
  <2>5. pc[j] # "done"
    BY <1>15 DEF Confirm, LatestTag, LatestList, LatestRead, LatestConfirm, At
  <2>6. pc'[j] \in Reported => JobInv(j)' /\ ~Drafts(j)'
    BY <1>1, <2>3, <2>4, <2>5 DEF JobInv, Drafts, Drafting, Trusts, Reported, LastLook, Holds, Only,
                                  TagTarget, Published
  <2> QED BY <1>3, <2>2, <2>3, <2>6
<1>16. CASE CallFails(j)
  BY <1>3, <1>5, <1>16 DEF CallFails
<1> QED BY <1>6, <1>7, <1>9, <1>10, <1>11, <1>13, <1>14, <1>15, <1>16 DEF Look

\* While a job drafts a version, no other run of it claims anything.
LEMMA OthersIdle ==
    ASSUME TypeOK, PublishInv, NEW j \in Jobs, Drafts(j), NEW q \in Jobs, q # j, TagOf(q) = TagOf(j)
    PROVE  pc[q] \in {"new", "refused", "failed"}
<1>1. pc[j] \in Running
  BY DEF Drafts, Drafting, Running, Calls
<1>2. pc[q] # "done"
  BY DEF PublishInv, NoneDrafts, Reported
<1> QED BY <1>1, <1>2, Alone DEF PublishInv

\* Two jobs of a version never draft it and report it.
LEMMA NoneDraftsKept ==
    ASSUME TypeOK, PublishInv, NEW j \in Jobs, pc[j] \in Running,
           UNCHANGED public \/ pc[j] = "find", public' \in [Jobs -> BOOLEAN],
           \A q \in Jobs \ {j} : pc'[q] = pc[q] /\ public'[q] = public[q],
           Drafts(j)' => Drafts(j) \/ ~Published(TagOf(j))
    PROVE  NoneDrafts'
<1> SUFFICES ASSUME NEW a \in Jobs, NEW b \in Jobs, TagOf(a) = TagOf(b), Drafts(a)', pc'[b] \in Reported
             PROVE  FALSE
  BY DEF NoneDrafts
<1>1. OneRun /\ NoneDrafts /\ JobInv(b)
  BY DEF PublishInv
<1>2. CASE a # j /\ b # j
  BY <1>1, <1>2 DEF NoneDrafts, Drafts
<1>3. CASE a = j /\ b = j
  BY <1>3 DEF Drafts, Drafting, Reported
<1>4. CASE a = j /\ b # j
  <2>1. pc[b] = "done"
    BY <1>1, <1>4, Alone DEF Reported
  <2>2. Published(TagOf(b)) /\ pc[b] \in Reported
    BY <1>1, <2>1 DEF JobInv, Trusts, Reported
  <2> QED BY <1>1, <1>4, <2>2 DEF NoneDrafts
<1>5. CASE a # j /\ b = j
  <2>1. Drafts(a)
    BY <1>5 DEF Drafts
  <2> QED BY <1>1, <1>5, <2>1, Alone DEF Drafts, Drafting
<1> QED BY <1>2, <1>3, <1>4, <1>5

\* A look keeps the invariant.
LEMMA LookKeeps == ASSUME TypeOK, PublishInv, NEW j \in Jobs, Look(j) PROVE PublishInv'
<1>1. UNCHANGED <<release, twin, tag>> /\ pc[j] \in Running /\ public' \in [Jobs -> BOOLEAN]
  BY LookMoves DEF githubVars, Running
<1>2. OneRun' /\ \A q \in Jobs \ {j} : pc'[q] = pc[q]
  BY <1>1, LookMoves, OneRunKept DEF PublishInv
<1>3. \A q \in Jobs \ {j} : public'[q] = public[q] /\ number'[q] = number[q]
  BY DEF Look, FindRelease, CheckTarget, Revalidate, RecheckTag, CheckUpload, FreshDraft, TagBefore,
         RevalidateAgain, Confirm, LatestTag, LatestList, LatestRead, LatestConfirm, CallFails, jobVars, TypeOK
<1>4. UNCHANGED public \/ pc[j] = "find"
  BY DEF Look, FindRelease, CheckTarget, Revalidate, RecheckTag, CheckUpload, FreshDraft, TagBefore,
         RevalidateAgain, Confirm, LatestTag, LatestList, LatestRead, LatestConfirm, CallFails, jobVars, At
<1>5. NoneDrafts'
  BY <1>1, <1>2, <1>3, <1>4, LookJob, NoneDraftsKept
<1>6. ASSUME NEW t \in Tags PROVE ReleaseInv(t)'
  BY <1>1, ReleaseFrame DEF PublishInv
<1>7. ASSUME NEW q \in Jobs PROVE JobInv(q)'
  <2>1. CASE q = j
    BY <2>1, LookJob
  <2>2. CASE q # j
    BY <1>1, <1>2, <1>3, <2>2, JobFrame DEF PublishInv
  <2> QED BY <2>1, <2>2
<1> QED BY <1>2, <1>5, <1>6, <1>7 DEF PublishInv

\* The Latest mark says nothing about a Release.
LEMMA PatchKeeps == ASSUME TypeOK, PublishInv, NEW j \in Jobs, LatestPatch(j) PROVE PublishInv'
<1>1. UNCHANGED <<release, twin, tag, number, public>> /\ pc[j] = "latestPatch"
  BY DEF LatestPatch, jobVars, At
<1>2. Goto(j, "latestConfirm") \/ End(j, "failed")
  BY RespondMoves DEF LatestPatch, Steps, Calls
<1>3. pc[j] \in Running /\ "latestConfirm" \in Steps
  BY <1>1 DEF Running, Calls, Steps
<1>4. OneRun' /\ \A q \in Jobs \ {j} : pc'[q] = pc[q]
  BY <1>2, <1>3, OneRunKept DEF PublishInv
<1>5. pc'[j] \in {"latestConfirm", "failed"}
  BY <1>2 DEF Goto, End, TypeOK
<1>6. NoneDrafts'
  BY <1>1, <1>3, <1>4, <1>5, NoneDraftsKept DEF Drafts, Drafting, TypeOK
<1>7. ASSUME NEW t \in Tags PROVE ReleaseInv(t)'
  BY <1>1, ReleaseFrame DEF PublishInv
<1>8. JobInv(j)'
  <2>1. JobInv(j)
    BY DEF PublishInv
  <2>2. CASE pc'[j] = "failed"
    BY <2>2, Idle
  <2>3. CASE pc'[j] = "latestConfirm"
    BY <1>1, <2>1, <2>3 DEF JobInv, Drafts, Drafting, Trusts, Reported, LastLook, Calls, TagTarget, Published
  <2> QED BY <1>5, <2>2, <2>3
<1>9. ASSUME NEW q \in Jobs, q # j PROVE JobInv(q)'
  BY <1>1, <1>4, <1>9, JobFrame DEF PublishInv
<1> QED BY <1>4, <1>6, <1>7, <1>8, <1>9 DEF PublishInv

\* A run that starts takes a version that nobody has, and keeps to it.
LEMMA WorkflowMoves ==
    ASSUME TypeOK, OneRun, NEW j \in Jobs, Workflow(j)
    PROVE  /\ UNCHANGED <<release, twin, tag, made, number, public>>
           /\ pc'[j] \in {"queued", "refused", "find"} /\ \A q \in Jobs \ {j} : pc'[q] = pc[q]
           /\ mutating[TagOf(j)] = NoJob \/ (pc[j] \in Running /\ UNCHANGED mutating)
           /\ \A t \in Tags \ {TagOf(j)} : mutating'[t] = mutating[t]
           /\ OneRun'
<1>1. UNCHANGED <<release, twin, tag, made, number, public>>
  BY DEF Workflow, Preflight, Rerun, StartPublish, githubVars, jobVars
<1>2. /\ pc'[j] \in {"queued", "refused", "find"}
      /\ \A q \in Jobs \ {j} : pc'[q] = pc[q]
      /\ \/ UNCHANGED mutating /\ (pc[j] \in Running \/ mutating[TagOf(j)] = NoJob)
         \/ mutating[TagOf(j)] = NoJob /\ mutating' = [mutating EXCEPT ![TagOf(j)] = j]
      /\ pc'[j] \in Running => mutating'[TagOf(j)] = j
  <2>1. CASE Preflight(j)
    BY <2>1, PlanTypes DEF Preflight, TypeOK, Running, Calls
  <2>2. CASE Rerun(j)
    BY <2>2, PlanTypes DEF Rerun, TypeOK
  <2>3. CASE StartPublish(j)
    BY <2>3 DEF StartPublish, TypeOK, At, OneRun, Running
  <2> QED BY <2>1, <2>2, <2>3 DEF Workflow
<1>3. OneRun'
  <2> SUFFICES ASSUME NEW q \in Jobs, q # j, pc[q] \in Running PROVE mutating'[TagOf(q)] = q
    BY <1>2 DEF OneRun
  <2>1. mutating[TagOf(q)] = q /\ q # NoJob
    BY JobAssumption DEF OneRun
  <2> QED BY <1>2, <2>1, PlanTypes DEF TypeOK
<1> QED BY <1>1, <1>2, <1>3 DEF TypeOK

\* A run that starts keeps the invariant.
LEMMA WorkflowKeeps == ASSUME TypeOK, PublishInv, NEW j \in Jobs, Workflow(j) PROVE PublishInv'
<1>1. UNCHANGED <<release, twin, tag, number, public>>
  BY WorkflowMoves DEF PublishInv
<1>2. pc'[j] \in {"queued", "refused", "find"} /\ \A q \in Jobs \ {j} : pc'[q] = pc[q]
  BY WorkflowMoves DEF PublishInv
<1>3. OneRun'
  BY WorkflowMoves DEF PublishInv
<1>4. NoneDrafts'
  BY <1>1, <1>2 DEF PublishInv, NoneDrafts, Drafts, Drafting, Reported
<1>5. ASSUME NEW t \in Tags PROVE ReleaseInv(t)'
  BY <1>1, ReleaseFrame DEF PublishInv
<1>6. ASSUME NEW q \in Jobs PROVE JobInv(q)'
  <2>1. CASE q = j
    BY <1>2, <2>1, Idle
  <2>2. CASE q # j
    BY <1>1, <1>2, <2>2, JobFrame DEF PublishInv
  <2> QED BY <2>1, <2>2
<1> QED BY <1>3, <1>4, <1>5, <1>6 DEF PublishInv

\* What is left to show of a write: its version's Releases, and the job itself.
LEMMA WriteKeeps ==
    ASSUME TypeOK, PublishInv, NEW j \in Jobs, pc[j] \in Drafting, NEW l \in Steps,
           Goto(j, l) \/ End(j, "failed"), UNCHANGED public,
           \A q \in Jobs \ {j} : number'[q] = number[q],
           \A t \in Tags \ {TagOf(j)} : /\ release'[t] = release[t] /\ twin'[t] = twin[t]
                                       /\ tag'[t] = tag[t],
           ReleaseInv(TagOf(j))', pc'[j] = l => JobInv(j)'
    PROVE  PublishInv'
<1>1. pc[j] \in Running /\ Drafts(j) /\ TagOf(j) \in Tags
  BY PlanTypes DEF Running, Drafting, Calls, Drafts
<1>2. OneRun' /\ \A q \in Jobs \ {j} : pc'[q] = pc[q]
  BY <1>1, OneRunKept DEF PublishInv
<1>3. NoneDrafts'
  BY <1>1, <1>2, NoneDraftsKept DEF TypeOK
<1>4. ASSUME NEW t \in Tags PROVE ReleaseInv(t)'
  <2>1. CASE t = TagOf(j)
    BY <2>1
  <2>2. CASE t # TagOf(j)
    BY <2>2, ReleaseFrame DEF PublishInv
  <2> QED BY <2>1, <2>2
<1>5. JobInv(j)'
  <2>1. pc'[j] = l \/ pc'[j] = "failed"
    BY DEF Goto, End, TypeOK
  <2> QED BY <2>1, Idle
<1>6. ASSUME NEW q \in Jobs, q # j PROVE JobInv(q)'
  <2>1. CASE TagOf(q) = TagOf(j)
    <3>1. pc'[q] \in {"new", "refused", "failed"}
      BY <1>1, <1>2, <1>6, <2>1, OthersIdle
    <3> QED BY <3>1, Idle
  <2>2. CASE TagOf(q) # TagOf(j)
    <3>1. TagOf(q) \in Tags \ {TagOf(j)}
      BY <2>2, PlanTypes
    <3> QED BY <1>2, <1>6, <3>1, JobFrame DEF PublishInv
  <2> QED BY <2>1, <2>2
<1> QED BY <1>2, <1>3, <1>4, <1>5, <1>6 DEF PublishInv

\* Making the tag keeps the invariant.
LEMMA CreateTagKeeps == ASSUME TypeOK, PublishInv, NEW j \in Jobs, CreateTag(j) PROVE PublishInv'
<1> DEFINE t == TagOf(j)
<1>1. /\ UNCHANGED <<release, twin, number, public>> /\ pc[j] = "createTag" /\ pc[j] \in Drafting
      /\ Goto(j, "recheckTag") \/ End(j, "failed")
  BY RespondMoves DEF CreateTag, jobVars, At, Drafting, Steps, Calls
<1>2. "recheckTag" \in Steps
  BY DEF Steps, Calls
<1>3. \A u \in Tags \ {t} : tag'[u] = tag[u]
  BY DEF CreateTag, TypeOK
<1>4. ReleaseInv(t) /\ JobInv(j) /\ t \in Tags
  BY PlanTypes DEF PublishInv
<1>5. Only(release[t], CommitOf(j)) /\ Only(twin[t], CommitOf(j)) /\ ~release[t].verified
  BY <1>1, <1>4 DEF JobInv, Drafts, Calls
<1>6. ReleaseInv(t)'
  BY <1>1, <1>4, <1>5 DEF ReleaseInv
<1>7. pc'[j] = "recheckTag" => JobInv(j)'
  BY <1>1, <1>5 DEF JobInv, Drafts, Trusts, Reported, LastLook
<1> QED BY <1>1, <1>2, <1>3, <1>6, <1>7, WriteKeeps

\* A new draft keeps the invariant, be it a second one of its tag.
LEMMA CreateDraftKeeps == ASSUME TypeOK, PublishInv, NEW j \in Jobs, CreateDraft(j) PROVE PublishInv'
<1> DEFINE t == TagOf(j)
           c == CommitOf(j)
           r == [NoRelease EXCEPT !.number = made[t] + 1, !.body = NotesOf(j),
                                  !.prerelease = t.preview, !.target = c]
<1>1. /\ UNCHANGED <<tag, public>> /\ pc[j] = "createDraft" /\ pc[j] \in Drafting
      /\ Goto(j, "upload") \/ End(j, "failed")
      /\ number' = [number EXCEPT ![j] = r.number]
      /\ release' = [release EXCEPT ![t] = r] /\ twin' = [twin EXCEPT ![t] = release[t]]
  BY RespondMoves DEF CreateDraft, jobVars, At, Drafting, Steps, Calls
<1>2. "upload" \in Steps /\ t \in Tags /\ made[t] \in Nat
  BY PlanTypes DEF Steps, Calls, TypeOK
<1>3. r.number = made[t] + 1 /\ r.assets = NoAssets /\ ~r.verified
  BY DEF NoRelease
<1>4. ReleaseInv(t) /\ JobInv(j) /\ t \in Tags
  BY <1>2 DEF PublishInv
<1>5. Only(release[t], c) /\ ~release[t].verified
  BY <1>1, <1>4 DEF JobInv, Drafts, Calls, Drafting
<1> HIDE DEF r
<1>6. /\ release'[t] = r /\ twin'[t] = release[t] /\ number'[j] # 0
      /\ \A u \in Tags \ {t} : release'[u] = release[u] /\ twin'[u] = twin[u] /\ tag'[u] = tag[u]
      /\ \A q \in Jobs \ {j} : number'[q] = number[q]
  BY <1>1, <1>2, <1>3 DEF TypeOK
<1>7. NoMix(r) /\ Only(r, c)
  BY <1>3, AssetTypes DEF NoMix, Only, NoAssets
<1>8. ReleaseInv(t)'
  BY <1>2, <1>3, <1>4, <1>5, <1>6, <1>7 DEF ReleaseInv
<1>9. pc'[j] = "upload" => JobInv(j)'
  BY <1>3, <1>5, <1>6, <1>7 DEF JobInv, Drafts, Trusts, Reported, LastLook
<1> QED BY <1>1, <1>2, <1>6, <1>8, <1>9, WriteKeeps

\* An upload keeps the invariant, whole or half and to whichever draft it goes.
LEMMA UploadKeeps == ASSUME TypeOK, PublishInv, NEW j \in Jobs, Upload(j) PROVE PublishInv'
<1> DEFINE t == TagOf(j)
           c == CommitOf(j)
           Put(r, n, b) == [r EXCEPT !.assets[n] = [bytes |-> b, copy |-> 0]]
<1>1. /\ UNCHANGED <<tag, number, public>> /\ pc[j] = "upload" /\ pc[j] \in Drafting
      /\ Goto(j, "checkUpload") \/ End(j, "failed")
  BY RespondMoves DEF Upload, jobVars, At, Drafting, Steps, Calls
<1>2. "checkUpload" \in Steps /\ t \in Tags /\ c \in Commits
  BY PlanTypes DEF Steps, Calls
<1>3. ReleaseInv(t) /\ JobInv(j)
  BY <1>2 DEF PublishInv
<1>4. /\ Only(release[t], c) /\ Only(twin[t], c) /\ ~release[t].verified /\ number[j] # 0
  BY <1>1, <1>3 DEF JobInv, Drafts, Calls, Drafting
<1>5. \/ UNCHANGED <<release, twin>>
      \/ \E n \in todo[j], b \in {c, "partial"} :
            \/ /\ Exists(release[t]) /\ release' = [release EXCEPT ![t] = Put(release[t], n, b)]
               /\ UNCHANGED twin
            \/ /\ Exists(twin[t]) /\ twin' = [twin EXCEPT ![t] = Put(twin[t], n, b)]
               /\ UNCHANGED release
  BY DEF Upload
<1>6. ASSUME NEW r \in Release, Exists(r), Only(r, c), ~r.verified, NEW n \in todo[j], NEW b \in {c, "partial"}
      PROVE  LET s == Put(r, n, b)
             IN  Exists(s) /\ Only(s, c) /\ NoMix(s) /\ ~s.verified
  <2> DEFINE s == Put(r, n, b)
  <2>1. r.assets \in [Names -> Asset] /\ n \in Names
    BY <1>6, Released DEF TypeOK, Assets
  <2>2. s.assets = [r.assets EXCEPT ![n] = [bytes |-> b, copy |-> 0]] /\ s.number = r.number
        /\ s.verified = r.verified
    BY <1>6 DEF Release
  <2> HIDE DEF s
  <2>3. \A m \in Names : s.assets[m].bytes = b \/ s.assets[m] = r.assets[m]
    BY <2>1, <2>2
  <2>4. Only(s, c)
    BY <1>2, <1>6, <2>3, AssetTypes DEF Only
  <2> QED BY <1>6, <2>2, <2>4 DEF Exists, Only, NoMix, s
<1>7. /\ \A u \in Tags \ {t} : release'[u] = release[u] /\ twin'[u] = twin[u]
      /\ release'[t].number = 0 => release'[t].assets = NoAssets
      /\ twin'[t].number = 0 => twin'[t].assets = NoAssets
      /\ Only(release'[t], c) /\ Only(twin'[t], c) /\ NoMix(release'[t]) /\ NoMix(twin'[t])
      /\ ~release'[t].verified /\ ~twin'[t].verified
  <2>1. release[t] \in Release /\ twin[t] \in Release /\ ~twin[t].verified
    BY <1>2, <1>3 DEF TypeOK, ReleaseInv
  <2>2. CASE UNCHANGED <<release, twin>>
    BY <1>3, <1>4, <2>2 DEF ReleaseInv
  <2>3. ASSUME NEW n \in todo[j], NEW b \in {c, "partial"},
               Exists(release[t]) /\ release' = [release EXCEPT ![t] = Put(release[t], n, b)] /\ UNCHANGED twin
        PROVE  <1>7!:
    <3> DEFINE s == Put(release[t], n, b)
    <3>1. Exists(s) /\ Only(s, c) /\ NoMix(s) /\ ~s.verified
      BY <1>4, <1>6, <2>1, <2>3
    <3> HIDE DEF s
    <3>2. release' = [release EXCEPT ![t] = s] /\ UNCHANGED twin
      BY <2>3 DEF s
    <3>3. release'[t] = s /\ twin'[t] = twin[t]
      BY <1>2, <3>2 DEF TypeOK
    <3> QED BY <1>2, <1>3, <1>4, <2>1, <3>1, <3>2, <3>3 DEF TypeOK, ReleaseInv, Exists
  <2>4. ASSUME NEW n \in todo[j], NEW b \in {c, "partial"},
               Exists(twin[t]) /\ twin' = [twin EXCEPT ![t] = Put(twin[t], n, b)] /\ UNCHANGED release
        PROVE  <1>7!:
    <3> DEFINE s == Put(twin[t], n, b)
    <3>1. Exists(s) /\ Only(s, c) /\ NoMix(s) /\ ~s.verified
      BY <1>4, <1>6, <2>1, <2>4
    <3> HIDE DEF s
    <3>2. twin' = [twin EXCEPT ![t] = s] /\ UNCHANGED release
      BY <2>4 DEF s
    <3>3. twin'[t] = s /\ release'[t] = release[t]
      BY <1>2, <3>2 DEF TypeOK
    <3> QED BY <1>2, <1>3, <1>4, <2>1, <3>1, <3>2, <3>3 DEF TypeOK, ReleaseInv, Exists
  <2> QED BY <1>5, <2>2, <2>3, <2>4
<1>8. ReleaseInv(t)'
  BY <1>7 DEF ReleaseInv
<1>9. pc'[j] = "checkUpload" => JobInv(j)'
  BY <1>1, <1>4, <1>7 DEF JobInv, Drafts, Trusts, Reported, LastLook
<1> QED BY <1>1, <1>2, <1>7, <1>8, <1>9, WriteKeeps

\* Publication keeps the invariant: the last looks still hold.
LEMMA UndraftKeeps == ASSUME TypeOK, PublishInv, NEW j \in Jobs, Undraft(j) PROVE PublishInv'
<1> DEFINE t == TagOf(j)
           c == CommitOf(j)
<1>1. /\ UNCHANGED <<twin, number, public>> /\ pc[j] = "undraft" /\ pc[j] \in Drafting
      /\ Goto(j, "confirm") \/ End(j, "failed")
  BY RespondMoves DEF Undraft, jobVars, At, Drafting, Steps, Calls
<1>2. "confirm" \in Steps /\ t \in Tags /\ c \in Commits /\ t.preview \in BOOLEAN /\ c # NoCommit
  BY PlanTypes, PlanAssumption DEF Steps, Calls
<1>3. ReleaseInv(t) /\ JobInv(j)
  BY <1>2 DEF PublishInv
<1>4. /\ Only(release[t], c) /\ Only(twin[t], c) /\ number[j] # 0 /\ Same(j)
      /\ release[t].body = NotesOf(j) /\ release[t].prerelease = t.preview
      /\ Holds(release[t], c) /\ TagTarget(t) = c
  BY <1>1, <1>3 DEF JobInv, Drafts, Calls, LastLook
<1>5. MakePublic(t, t.preview, TRUE)
  BY <1>4 DEF Undraft
<1>6. tag' = tag
  BY <1>2, <1>4, <1>5, MadePublic DEF TagTarget
<1>7. /\ \A u \in Tags \ {t} : release'[u] = release[u]
      /\ release'[t].number = release[t].number /\ ~release'[t].draft
      /\ release'[t].prerelease = t.preview /\ release'[t].body = release[t].body
      /\ release'[t].assets = release[t].assets /\ release'[t].extra = release[t].extra
  BY <1>2, <1>5, MadePublic
<1>8. Published(t)' /\ Consistent(t, c)' /\ Only(release'[t], c) /\ Holds(release'[t], c)
  <2>1. Published(t)'
    BY <1>4, <1>7 DEF Published, Exists, Same
  <2>2. TagTarget(t)' = c
    BY <1>4, <1>6 DEF TagTarget
  <2> QED BY <1>4, <1>7, <2>1, <2>2 DEF Consistent, Only, Holds, NotesOf
<1>9. ReleaseInv(t)'
  <2>1. NoMix(release'[t]) /\ (release'[t].number = 0 => release'[t].assets = NoAssets)
    BY <1>3, <1>7 DEF ReleaseInv, NoMix
  <2> QED BY <1>1, <1>3, <1>8, <2>1 DEF ReleaseInv
<1>10. pc'[j] = "confirm" => JobInv(j)'
  <2>1. TagTarget(t)' = c
    BY <1>8 DEF Consistent
  <2> QED BY <1>1, <1>4, <1>7, <1>8, <2>1 DEF JobInv, Drafts, Drafting, Trusts, LastLook
<1> QED BY <1>1, <1>2, <1>6, <1>7, <1>9, <1>10, WriteKeeps

\* An edit of a Release that is not public and whose jobs took no last look.
LEMMA EditKeeps ==
    ASSUME TypeOK, PublishInv, NEW t \in Tags, ~Published(t),
           UNCHANGED <<pc, mutating, number, public>>,
           \A q \in Jobs : TagOf(q) = t => pc[q] \notin LastLook,
           \A u \in Tags \ {t} : /\ release'[u] = release[u] /\ twin'[u] = twin[u]
                              /\ tag'[u] = tag[u],
           release'[t].number = 0 => release'[t].assets = NoAssets,
           twin'[t].number = 0 => twin'[t].assets = NoAssets,
           NoMix(release'[t]), NoMix(twin'[t]), ~release'[t].verified, ~twin'[t].verified,
           \A c \in Commits : Only(release[t], c) /\ Only(twin[t], c)
                              => Only(release'[t], c) /\ Only(twin'[t], c)
    PROVE  PublishInv'
<1>1. OneRun' /\ NoneDrafts'
  BY DEF PublishInv, OneRun, NoneDrafts, Drafts
<1>2. ASSUME NEW u \in Tags PROVE ReleaseInv(u)'
  <2>1. CASE u = t
    BY <2>1 DEF ReleaseInv
  <2>2. CASE u # t
    BY <2>2, ReleaseFrame DEF PublishInv
  <2> QED BY <2>1, <2>2
<1>3. ASSUME NEW q \in Jobs PROVE JobInv(q)'
  <2>1. CASE TagOf(q) = t
    <3>1. JobInv(q) /\ CommitOf(q) \in Commits
      BY PlanTypes DEF PublishInv
    <3>2. ~Trusts(q) /\ pc[q] \notin LastLook
      BY <2>1, <3>1 DEF JobInv
    <3>3. pc[q] \in Calls \ {"find"} => Only(release'[t], CommitOf(q)) /\ Only(twin'[t], CommitOf(q))
      BY <2>1, <3>1 DEF JobInv
    <3>4. number'[q] = number[q] /\ pc'[q] = pc[q] /\ Drafts(q)' = Drafts(q) /\ Trusts(q)' = Trusts(q)
      BY DEF Drafts, Trusts
    <3>5. pc[q] \in {"upload", "checkUpload", "fresh"} \cup LastLook \cup {"confirm"} => number[q] # 0
      BY <3>1 DEF JobInv
    <3>6. pc[q] \notin {"revalidateAgain", "undraft", "confirm"} \cup Reported
      BY <3>2 DEF Trusts, LastLook
    <3> QED BY <2>1, <3>2, <3>3, <3>4, <3>5, <3>6 DEF JobInv
  <2>2. CASE TagOf(q) # t
    <3>1. TagOf(q) \in Tags \ {t}
      BY <2>2, PlanTypes
    <3> QED BY <3>1, JobFrame DEF PublishInv
  <2> QED BY <2>1, <2>2
<1> QED BY <1>1, <1>2, <1>3 DEF PublishInv

\* An asset that is gone, or of no commit, or the same bytes again.
LEMMA AssetEdited ==
    ASSUME NEW r \in Release, NEW n \in Names, NEW a \in Asset,
           a.bytes \notin Commits \/ a.bytes = r.assets[n].bytes, NoMix(r)
    PROVE  LET s == [r EXCEPT !.assets[n] = a]
           IN  /\ NoMix(s) /\ s.number = r.number /\ s.verified = r.verified
               /\ \A c \in Commits : Only(r, c) => Only(s, c)
<1> DEFINE s == [r EXCEPT !.assets[n] = a]
<1>1. r.assets \in [Names -> Asset]
  BY Released DEF Assets
<1>2. s.assets = [r.assets EXCEPT ![n] = a] /\ s.number = r.number /\ s.verified = r.verified
  BY DEF Release
<1> HIDE DEF s
<1>3. \A m \in Names : s.assets[m].bytes \in Commits => s.assets[m].bytes = r.assets[m].bytes
  BY <1>1, <1>2
<1>4. NoMix(s)
  BY <1>3 DEF NoMix
<1>5. \A c \in Commits : Only(r, c) => Only(s, c)
  BY <1>3 DEF Only
<1> QED BY <1>2, <1>4, <1>5 DEF s

\* Edits by people keep the invariant.
LEMMA PeopleKeep ==
    ASSUME TypeOK, PublishInv, NEW t \in Tags, People(t) \/ DeletePartial(t) PROVE PublishInv'
<1>1. ~Published(t) /\ UNCHANGED <<pc, mutating, number, public>>
  BY DEF People, EditNotes, EditAsset, DraftByHand, DeleteDraft, MoveTag, PublishByHand, DeletePartial,
         Edit, Editable, jobVars
<1>2. /\ release[t] \in Release /\ twin[t] \in Release /\ ReleaseInv(t)
  BY DEF TypeOK, PublishInv
<1>3. /\ ~release[t].verified /\ ~twin[t].verified /\ NoMix(release[t]) /\ NoMix(twin[t])
      /\ release[t].number = 0 => release[t].assets = NoAssets
      /\ twin[t].number = 0 => twin[t].assets = NoAssets
  BY <1>1, <1>2 DEF ReleaseInv
<1>4. ASSUME People(t) PROVE \A q \in Jobs : TagOf(q) = t => pc[q] \notin LastLook
  BY <1>4 DEF People, EditNotes, EditAsset, DraftByHand, DeleteDraft, MoveTag, PublishByHand, Edit, Editable
<1>5. ASSUME UNCHANGED <<twin, tag>>, \A q \in Jobs : TagOf(q) = t => pc[q] \notin LastLook,
             NEW r, release' = [release EXCEPT ![t] = r], ~r.verified, NoMix(r),
             r.number = 0 => r.assets = NoAssets,
             \A c \in Commits : Only(release[t], c) => Only(r, c)
      PROVE  PublishInv'
  <2>1. release'[t] = r /\ \A u \in Tags \ {t} : release'[u] = release[u]
    BY <1>5 DEF TypeOK
  <2> QED BY <1>1, <1>3, <1>5, <2>1, EditKeeps
<1>6. CASE EditNotes(t)
  <2>1. UNCHANGED <<twin, tag>>
    BY <1>6 DEF EditNotes
  <2>2. PICK r \in {[release[t] EXCEPT !.body = "edited"],
                    [release[t] EXCEPT !.prerelease = ~release[t].prerelease]} :
           release' = [release EXCEPT ![t] = r]
    BY <1>6 DEF EditNotes
  <2>3. r.assets = release[t].assets /\ r.number = release[t].number /\ r.verified = release[t].verified
    BY <1>2, <2>2 DEF Release
  <2>4. ~r.verified /\ NoMix(r) /\ (r.number = 0 => r.assets = NoAssets)
    BY <1>3, <2>3 DEF NoMix
  <2>5. \A c \in Commits : Only(release[t], c) => Only(r, c)
    BY <2>3 DEF Only
  <2>6. \A q \in Jobs : TagOf(q) = t => pc[q] \notin LastLook
    BY <1>4, <1>6 DEF People
  <2> QED BY <1>5, <2>1, <2>2, <2>4, <2>5, <2>6
<1>7. ASSUME Exists(release[t]), UNCHANGED <<twin, tag>>,
             \A q \in Jobs : TagOf(q) = t => pc[q] \notin LastLook,
             NEW n \in Names, NEW a \in Asset, a.bytes \notin Commits \/ a.bytes = release[t].assets[n].bytes,
             release' = [release EXCEPT ![t].assets[n] = a]
      PROVE  PublishInv'
  <2> DEFINE r == [release[t] EXCEPT !.assets[n] = a]
  <2>1. /\ NoMix(r) /\ r.number = release[t].number /\ r.verified = release[t].verified
        /\ \A c \in Commits : Only(release[t], c) => Only(r, c)
    BY <1>2, <1>3, <1>7, AssetEdited
  <2>2. release' = [release EXCEPT ![t] = r]
    BY <1>7
  <2> HIDE DEF r
  <2> QED BY <1>3, <1>5, <1>7, <2>1, <2>2 DEF Exists
<1>8. CASE EditAsset(t)
  <2>1. UNCHANGED <<twin, tag>> /\ Exists(release[t])
    BY <1>8 DEF EditAsset
  <2>2. CASE release' = [release EXCEPT ![t].extra = TRUE]
    <3> DEFINE r == [release[t] EXCEPT !.extra = TRUE]
    <3>1. r.assets = release[t].assets /\ r.number = release[t].number /\ r.verified = release[t].verified
      BY <1>2 DEF Release
    <3>2. release' = [release EXCEPT ![t] = r]
      BY <2>2
    <3> HIDE DEF r
    <3>3. ~r.verified /\ NoMix(r) /\ (r.number = 0 => r.assets = NoAssets)
      BY <1>3, <3>1 DEF NoMix
    <3>4. \A c \in Commits : Only(release[t], c) => Only(r, c)
      BY <3>1 DEF Only
    <3>5. \A q \in Jobs : TagOf(q) = t => pc[q] \notin LastLook
      BY <1>4, <1>8 DEF People
    <3> QED BY <1>5, <2>1, <3>2, <3>3, <3>4, <3>5
  <2>3. ASSUME NEW n \in Names, NEW a \in {NoAsset, [bytes |-> "foreign", copy |-> 0],
                                           [release[t].assets[n] EXCEPT !.copy = 1]},
               release' = [release EXCEPT ![t].assets[n] = a]
        PROVE  PublishInv'
    <3>1. release[t].assets[n] \in Asset
      BY <1>2, Released DEF Assets
    <3>2. /\ [release[t].assets[n] EXCEPT !.copy = 1] \in Asset
          /\ [release[t].assets[n] EXCEPT !.copy = 1].bytes = release[t].assets[n].bytes
      BY <3>1 DEF Asset
    <3>3. a \in Asset /\ (a.bytes \notin Commits \/ a.bytes = release[t].assets[n].bytes)
      <4>1. [bytes |-> "foreign", copy |-> 0] \in Asset /\ NoAsset \in Asset
        BY AssetTypes
      <4>2. [bytes |-> "foreign", copy |-> 0].bytes \notin Commits /\ NoAsset.bytes \notin Commits
        BY AssetTypes
      <4> QED BY <2>3, <3>2, <4>1, <4>2
    <3> QED BY <1>4, <1>7, <1>8, <2>1, <2>3, <3>3 DEF People
  <2> QED BY <1>8, <2>2, <2>3 DEF EditAsset, Present
<1>9. CASE DraftByHand(t)
  <2> DEFINE r == [NoRelease EXCEPT !.number = made[t] + 1, !.body = "by hand", !.prerelease = t.preview]
  <2>1. \/ Exists(release[t]) /\ twin' = [twin EXCEPT ![t] = r] /\ UNCHANGED release
        \/ ~Exists(release[t]) /\ release' = [release EXCEPT ![t] = r] /\ UNCHANGED twin
    BY <1>9 DEF DraftByHand
  <2>2. UNCHANGED tag /\ r.assets = NoAssets /\ ~r.verified
    BY <1>9 DEF NoRelease, DraftByHand
  <2> HIDE DEF r
  <2>3. NoMix(r) /\ \A c \in Commits : Only(r, c)
    BY <2>2, AssetTypes DEF NoMix, Only, NoAssets
  <2>4. \A q \in Jobs : TagOf(q) = t => pc[q] \notin LastLook
    BY <1>4, <1>9 DEF People
  <2>5. CASE release' = [release EXCEPT ![t] = r] /\ UNCHANGED twin
    BY <1>5, <2>2, <2>3, <2>4, <2>5
  <2>6. CASE twin' = [twin EXCEPT ![t] = r] /\ UNCHANGED release
    <3>1. twin'[t] = r /\ \A u \in Tags \ {t} : twin'[u] = twin[u]
      BY <2>6 DEF TypeOK
    <3> QED BY <1>1, <1>3, <2>2, <2>3, <2>4, <2>6, <3>1, EditKeeps
  <2> QED BY <2>1, <2>5, <2>6
<1>10. CASE DeleteDraft(t)
  <2>1. /\ UNCHANGED tag /\ twin'[t] = NoRelease /\ \A u \in Tags \ {t} : twin'[u] = twin[u]
        /\ release'[t] = twin[t] \/ release'[t] = release[t]
        /\ \A u \in Tags \ {t} : release'[u] = release[u]
    BY <1>10 DEF DeleteDraft, TypeOK
  <2>2. NoRelease.assets = NoAssets /\ ~NoRelease.verified
    BY DEF NoRelease
  <2>3. NoMix(NoRelease) /\ \A c \in Commits : Only(NoRelease, c)
    BY <2>2, AssetTypes DEF NoMix, Only, NoAssets
  <2> HIDE DEF NoRelease
  <2>4. \A q \in Jobs : TagOf(q) = t => pc[q] \notin LastLook
    BY <1>4, <1>10 DEF People
  <2> QED BY <1>1, <1>3, <2>1, <2>2, <2>3, <2>4, EditKeeps
<1>11. CASE MoveTag(t)
  <2>1. UNCHANGED <<release, twin>> /\ \A u \in Tags \ {t} : tag'[u] = tag[u]
    BY <1>11 DEF MoveTag, TypeOK
  <2>2. \A q \in Jobs : TagOf(q) = t => pc[q] \notin LastLook
    BY <1>4, <1>11 DEF People
  <2> QED BY <1>1, <1>3, <2>1, <2>2, EditKeeps
<1>12. CASE PublishByHand(t)
  <2>1. MakePublic(t, release[t].prerelease, FALSE) /\ UNCHANGED twin /\ release[t].prerelease \in BOOLEAN
    BY <1>2, <1>12, Released DEF PublishByHand
  <2>2. /\ \A u \in Tags \ {t} : release'[u] = release[u] /\ tag'[u] = tag[u]
        /\ release'[t].number = release[t].number /\ release'[t].assets = release[t].assets
        /\ ~release'[t].verified
    BY <2>1, MadePublic
  <2>3. \A q \in Jobs : TagOf(q) = t => pc[q] \notin LastLook
    BY <1>4, <1>12 DEF People
  <2>4. NoMix(release'[t]) /\ \A c \in Commits : Only(release[t], c) => Only(release'[t], c)
    BY <1>3, <2>2 DEF NoMix, Only
  <2> QED BY <1>1, <1>3, <2>1, <2>2, <2>3, <2>4, EditKeeps
<1>13. CASE DeletePartial(t)
  <2>1. PICK n \in Names : /\ release[t].assets[n].bytes = "partial"
                          /\ release' = [release EXCEPT ![t].assets[n] = NoAsset]
    BY <1>13 DEF DeletePartial
  <2>2. UNCHANGED <<twin, tag>> /\ Exists(release[t])
    BY <1>3, <1>13, <2>1 DEF DeletePartial, Exists, NoAssets, NoAsset
  <2>3. ASSUME NEW q \in Jobs, TagOf(q) = t PROVE pc[q] \notin LastLook
    <3>1. JobInv(q) /\ CommitOf(q) \in Commits
      BY PlanTypes DEF PublishInv
    <3> QED BY <2>1, <2>3, <3>1, AssetTypes DEF JobInv, Holds
  <2> QED BY <1>7, <2>1, <2>2, <2>3, AssetTypes
<1> QED BY <1>6, <1>8, <1>9, <1>10, <1>11, <1>12, <1>13 DEF People

\* Every step keeps the invariant.
LEMMA PublishInvStep == TypeOK /\ PublishInv /\ [Next]_vars => PublishInv'
<1> SUFFICES ASSUME TypeOK, PublishInv, [Next]_vars PROVE PublishInv'
  OBVIOUS
<1>1. CASE UNCHANGED vars
  <2>1. UNCHANGED <<pc, mutating, number, public, release, twin, tag>>
    BY <1>1 DEF vars
  <2>2. OneRun' /\ NoneDrafts'
    BY <2>1 DEF PublishInv, OneRun, NoneDrafts, Drafts
  <2> QED BY <2>1, <2>2, ReleaseFrame, JobFrame DEF PublishInv
<1>2. CASE Next
  BY <1>2, LookKeeps, PatchKeeps, CreateTagKeeps, CreateDraftKeeps, UploadKeeps, UndraftKeeps,
     WorkflowKeeps, PeopleKeep DEF Next, Publisher, DraftStep, PublicStep, LatestStep, Look
<1> QED BY <1>1, <1>2

\* The types and the inductive invariant hold throughout.
THEOREM PublishInvCorrect == Spec => [](TypeOK /\ PublishInv)
BY PublishTypesInit, PublishInvInit, PublishTypesStep, PublishInvStep, PTL DEF Spec

\* What the publisher made public is one commit's complete bundle under its
\* tag, for any runs, edits, faults and however many of them.
THEOREM PublicCorrect == Spec => []PublicIsVerified
<1>1. TypeOK /\ PublishInv => PublicIsVerified
  BY DEF PublishInv, ReleaseInv, PublicIsVerified
<1> QED BY <1>1, PublishInvCorrect, PTL

\* A job that reports success leaves its own commit's bundle public.
THEOREM DoneCorrect == Spec => []DoneIsPublished
<1>1. TypeOK /\ PublishInv => DoneIsPublished
  BY DEF PublishInv, JobInv, Trusts, Reported, Holds, DoneIsPublished, At
<1> QED BY <1>1, PublishInvCorrect, PTL

\* The archives of one Release never come from two commits.
THEOREM OneCommitCorrect == Spec => []OneCommitPerRelease
<1>1. TypeOK /\ PublishInv => OneCommitPerRelease
  BY DEF PublishInv, ReleaseInv, NoMix, OneCommitPerRelease
<1> QED BY <1>1, PublishInvCorrect, PTL

-----------------------------------------------------------------------------
(***************************************************************************)
(* The collectors beside the publisher.                                    *)
(***************************************************************************)
\* The numbers of a tag's Releases are given out one after the other.
Numbered(t) == release[t].number <= made[t] /\ twin[t].number <= made[t]

\* Made by a person after the collector looked.
Later(r, k) == Exists(r) => r.number > oldRelease[k].number /\ r.body \in {"by hand", "edited"}

CollectTypes == /\ cpc \in [Collectors -> CCalls \cup {"new", "failed", "done"}]
                /\ oldTag \in [Collectors -> Refs \cup Commits \cup {NoCommit}]
                /\ oldRelease \in [Collectors -> Release]

CollectInv(k) ==
    LET t == CTag(k)
        old == oldRelease[k] IN
    /\ cpc[k] \in CCalls => mutating[t] = k /\ Orderly(k)
    /\ old.number <= made[t]
    /\ cpc[k] \in CCalls \ {"readTag", "readRelease"} =>
          /\ oldTag[k] # NoCommit => IsSource(k, oldTag[k])
          /\ Exists(old) \/ oldTag[k] # NoCommit
    /\ cpc[k] = "rereadRelease" /\ Order[k].mode = "incomplete" => ~Complete(old)
    /\ cpc[k] \in {"rereadTag", "deleteRelease"} =>
          /\ release[t].number = old.number /\ ~Ambiguous(t)
          /\ Order[k].mode = "incomplete" => ~Complete(release[t])
    /\ cpc[k] \in {"releaseGone", "listAgain", "tagAgain", "deleteTag", "tagGone"} =>
          Later(release[t], k) /\ Later(twin[t], k)
    /\ cpc[k] \in {"tagAgain", "deleteTag"} => ~Exists(release[t])
    /\ cpc[k] \in {"listAgain", "tagAgain", "deleteTag", "tagGone"} => oldTag[k] # NoCommit
    /\ cpc[k] = "deleteTag" => tag[t] = oldTag[k]

CInv == /\ TypeOK /\ CollectTypes /\ OneRun
        /\ \A t \in Tags : Numbered(t)
        /\ \A k \in Collectors : CollectInv(k)

\* The collectors' invariant holds at first.
LEMMA CInvInit == CInit => CInv
<1> SUFFICES ASSUME CInit PROVE CInv
  OBVIOUS
<1>1. TypeOK /\ CollectTypes /\ OneRun
  BY PublishTypesInit, PublishInvInit, AssetTypes DEF CInit, PublishInv, CollectTypes
<1>2. NoRelease.number = 0
  BY DEF NoRelease
<1>3. ASSUME NEW t \in Tags PROVE Numbered(t)
  BY <1>2 DEF CInit, Init, Numbered
<1>4. ASSUME NEW k \in Collectors PROVE CTag(k) \in Tags
  BY OrderAssumption DEF CTag
<1>5. ASSUME NEW k \in Collectors PROVE CollectInv(k)
  BY <1>2, <1>4 DEF CInit, Init, CollectInv, CCalls
<1> QED BY <1>1, <1>3, <1>5 DEF CInv

\* An order names a tag.
LEMMA OrderTypes == ASSUME NEW k \in Collectors PROVE CTag(k) \in Tags
BY OrderAssumption DEF CTag

\* A collector that is not at work claims nothing.
LEMMA CollectIdle ==
    ASSUME NEW k \in Collectors, cpc'[k] \in {"new", "failed", "done"},
           oldRelease'[k].number <= made'[CTag(k)]
    PROVE  CollectInv(k)'
BY DEF CollectInv, CCalls, CTag

\* A collector at work whose version is left alone claims what it claimed.
LEMMA CollectFrame ==
    ASSUME NEW k \in Collectors, CollectInv(k), UNCHANGED collectorVars,
           release'[CTag(k)] = release[CTag(k)], twin'[CTag(k)] = twin[CTag(k)],
           tag'[CTag(k)] = tag[CTag(k)], mutating'[CTag(k)] = mutating[CTag(k)],
           made'[CTag(k)] = made[CTag(k)]
    PROVE  CollectInv(k)'
BY DEF CollectInv, collectorVars, CTag, Orderly, IsSource, Ambiguous, Later

\* A run keeps to its version, and leaves a version alone that is not its own.
LEMMA JobLocal ==
    ASSUME TypeOK, OneRun, NEW j \in Jobs, Publisher(j) \/ Workflow(j) \/ CallFails(j)
    PROVE  /\ mutating[TagOf(j)] \in {j, NoJob}
           /\ \A t \in Tags \ {TagOf(j)} : /\ release'[t] = release[t] /\ twin'[t] = twin[t]
                                          /\ tag'[t] = tag[t] /\ made'[t] = made[t]
           /\ \A t \in Tags : mutating[t] \in Collectors => mutating'[t] = mutating[t]
           /\ OneRun'
<1>1. CASE Workflow(j)
  <2>1. mutating[TagOf(j)] \in {j, NoJob}
    BY <1>1, WorkflowMoves DEF OneRun
  <2>2. \A t \in Tags : mutating[t] \in Collectors => mutating'[t] = mutating[t]
    BY <1>1, WorkflowMoves, JobAssumption
  <2> QED BY <1>1, <2>1, <2>2, WorkflowMoves
<1>2. CASE Look(j) \/ CreateTag(j) \/ CreateDraft(j) \/ Upload(j) \/ Undraft(j) \/ LatestPatch(j)
  <2>1. /\ pc[j] \in Running
        /\ (\E l \in Steps : Goto(j, l)) \/ End(j, "failed") \/ End(j, "done")
    <3>1. CASE Look(j)
      BY <3>1, LookMoves DEF Running
    <3>2. CASE CreateTag(j)
      BY <3>2, RespondMoves DEF CreateTag, At, Running, Calls, Steps
    <3>3. CASE CreateDraft(j)
      BY <3>3, RespondMoves DEF CreateDraft, At, Running, Calls, Steps
    <3>4. CASE Upload(j)
      BY <3>4, RespondMoves DEF Upload, At, Running, Calls, Steps
    <3>5. CASE Undraft(j)
      BY <3>5, RespondMoves DEF Undraft, At, Running, Calls, Steps
    <3>6. CASE LatestPatch(j)
      BY <3>6, RespondMoves DEF LatestPatch, At, Running, Calls, Steps
    <3> QED BY <1>2, <3>1, <3>2, <3>3, <3>4, <3>5, <3>6
  <2>2. OneRun' /\ mutating[TagOf(j)] = j
    BY <2>1, OneRunKept DEF OneRun
  <2>3. \A t \in Tags : mutating[t] \in Collectors => mutating'[t] = mutating[t]
    BY <2>1, JobAssumption DEF Goto, End, TypeOK
  <2>4. \A t \in Tags \ {TagOf(j)} : /\ release'[t] = release[t] /\ twin'[t] = twin[t]
                                   /\ tag'[t] = tag[t] /\ made'[t] = made[t]
    <3>1. CASE Look(j)
      BY <3>1, LookMoves DEF githubVars
    <3>2. CASE CreateTag(j)
      BY <3>2 DEF CreateTag, TypeOK
    <3>3. CASE CreateDraft(j)
      BY <3>3 DEF CreateDraft, TypeOK
    <3>4. CASE Upload(j)
      BY <3>4 DEF Upload, TypeOK
    <3>5. CASE Undraft(j)
      BY <3>5, PlanTypes, MadePublic DEF Undraft
    <3>6. CASE LatestPatch(j)
      BY <3>6 DEF LatestPatch
    <3> QED BY <1>2, <3>1, <3>2, <3>3, <3>4, <3>5, <3>6
  <2> QED BY <2>2, <2>3, <2>4
<1> QED BY <1>1, <1>2 DEF Publisher, DraftStep, PublicStep, LatestStep, Look

\* A run gives a new Release the next number.
LEMMA JobNumbers ==
    ASSUME TypeOK, OneRun, NEW j \in Jobs, Publisher(j) \/ Workflow(j) \/ CallFails(j),
           \A t \in Tags : Numbered(t)
    PROVE  \A t \in Tags : Numbered(t)' /\ made[t] <= made'[t]
<1> DEFINE t == TagOf(j)
<1>1. t \in Tags /\ \A u \in Tags : made[u] \in Nat
  BY PlanTypes DEF TypeOK
<1>2. \A u \in Tags : release[u] \in Release /\ twin[u] \in Release
  BY DEF TypeOK
<1>3. SUFFICES made[t] <= made'[t] /\ release'[t].number <= made'[t] /\ twin'[t].number <= made'[t]
  BY <1>1, JobLocal DEF Numbered
<1>4. Numbered(t)
  BY <1>1
<1>5. CASE Look(j) \/ CreateTag(j) \/ LatestPatch(j) \/ Workflow(j)
  <2>1. UNCHANGED <<release, twin, made>>
    BY <1>5, LookMoves, WorkflowMoves DEF githubVars, CreateTag, LatestPatch
  <2> QED BY <1>1, <1>4, <2>1 DEF Numbered
<1>6. CASE CreateDraft(j)
  <2> DEFINE r == [NoRelease EXCEPT !.number = made[t] + 1, !.body = NotesOf(j),
                                    !.prerelease = t.preview, !.target = CommitOf(j)]
  <2>1. /\ release' = [release EXCEPT ![t] = r] /\ twin' = [twin EXCEPT ![t] = release[t]]
        /\ made' = [made EXCEPT ![t] = made[t] + 1]
    BY <1>6 DEF CreateDraft
  <2>2. r.number = made[t] + 1
    BY DEF NoRelease
  <2> HIDE DEF r
  <2>3. release'[t] = r /\ twin'[t] = release[t] /\ made'[t] = made[t] + 1
    BY <1>1, <2>1 DEF TypeOK
  <2>4. release[t].number \in Nat
    BY <1>1, <1>2, Released
  <2> QED BY <1>1, <1>4, <2>2, <2>3, <2>4 DEF Numbered
<1>7. CASE Upload(j)
  <2> DEFINE Put(r, n, b) == [r EXCEPT !.assets[n] = [bytes |-> b, copy |-> 0]]
  <2>1. \A r \in Release, n \in Names, b \in {CommitOf(j), "partial"} : Put(r, n, b).number = r.number
    BY DEF Release
  <2>2. /\ UNCHANGED made
        /\ \/ UNCHANGED <<release, twin>>
           \/ \E n \in todo[j], b \in {CommitOf(j), "partial"} :
                 \/ release' = [release EXCEPT ![t] = Put(release[t], n, b)] /\ UNCHANGED twin
                 \/ twin' = [twin EXCEPT ![t] = Put(twin[t], n, b)] /\ UNCHANGED release
    BY <1>7 DEF Upload
  <2>3. \A n \in todo[j] : n \in Names
    BY DEF TypeOK
  <2> HIDE DEF Put
  <2>4. release'[t].number = release[t].number /\ twin'[t].number = twin[t].number
    BY <1>1, <1>2, <2>1, <2>2, <2>3 DEF TypeOK
  <2> QED BY <1>1, <1>4, <2>2, <2>4 DEF Numbered
<1>8. CASE Undraft(j)
  <2>1. UNCHANGED <<twin, made>>
    BY <1>8 DEF Undraft
  <2>2. release'[t].number = release[t].number
    BY <1>1, <1>8, PlanTypes, MadePublic DEF Undraft
  <2> QED BY <1>1, <1>4, <2>1, <2>2 DEF Numbered
<1> QED BY <1>5, <1>6, <1>7, <1>8 DEF Publisher, DraftStep, PublicStep, LatestStep, Look

\* A Release of t after an edit: none, made by hand just now, or one there was.
Edited(s, t) == \/ s.number = 0
                \/ s.number = made[t] + 1 /\ s.body = "by hand" /\ made'[t] = made[t] + 1
                \/ \E r \in {release[t], twin[t]} : /\ s.number = r.number
                                                  /\ s.body \in {r.body, "edited"}

\* What an edit does to a version, and that it leaves the others alone.
LEMMA PeopleMove ==
    ASSUME TypeOK, NEW t \in Tags, People(t) \/ DeletePartial(t)
    PROVE  /\ UNCHANGED <<mutating, pc>>
           /\ \A u \in Tags \ {t} : /\ release'[u] = release[u] /\ twin'[u] = twin[u]
                                  /\ tag'[u] = tag[u] /\ made'[u] = made[u]
           /\ made'[t] \in {made[t], made[t] + 1}
           /\ Edited(release'[t], t) /\ Edited(twin'[t], t)
           /\ DeletePartial(t) => /\ UNCHANGED <<twin, tag>> /\ ~Published(t)' /\ ~Published(t)
                                  /\ release'[t].number = release[t].number
<1>1. UNCHANGED <<mutating, pc>>
  BY DEF People, EditNotes, EditAsset, DraftByHand, DeleteDraft, MoveTag, PublishByHand, DeletePartial, Edit
<1>2. release[t] \in Release /\ twin[t] \in Release /\ made[t] \in Nat
  BY DEF TypeOK
<1>3. Edited(release[t], t) /\ Edited(twin[t], t)
  BY DEF Edited
<1>4. Edit(t) => ~DeletePartial(t)
  BY BoundAssumption DEF Edit, DeletePartial, TypeOK
<1>5. ASSUME UNCHANGED <<twin, tag, made>>, NEW s, release' = [release EXCEPT ![t] = s],
             s.number = release[t].number, s.body \in {release[t].body, "edited"}
      PROVE  /\ \A u \in Tags \ {t} : /\ release'[u] = release[u] /\ twin'[u] = twin[u]
                                    /\ tag'[u] = tag[u] /\ made'[u] = made[u]
             /\ made'[t] \in {made[t], made[t] + 1} /\ Edited(release'[t], t) /\ Edited(twin'[t], t)
             /\ release'[t] = s
  <2>1. release'[t] = s /\ \A u \in Tags \ {t} : release'[u] = release[u]
    BY <1>5 DEF TypeOK
  <2> QED BY <1>3, <1>5, <2>1 DEF Edited
<1>6. CASE EditNotes(t)
  <2>1. UNCHANGED <<twin, tag, made>> /\ ~DeletePartial(t)
    BY <1>6, <1>4 DEF EditNotes
  <2>2. PICK s \in {[release[t] EXCEPT !.body = "edited"],
                    [release[t] EXCEPT !.prerelease = ~release[t].prerelease]} :
           release' = [release EXCEPT ![t] = s]
    BY <1>6 DEF EditNotes
  <2>3. s.number = release[t].number /\ s.body \in {release[t].body, "edited"}
    BY <1>2, <2>2 DEF Release
  <2> QED BY <1>1, <1>5, <2>1, <2>2, <2>3
<1>7. ASSUME NEW n \in Names, NEW a, UNCHANGED <<twin, tag, made>>,
             release' = [release EXCEPT ![t].assets[n] = a]
      PROVE  /\ \A u \in Tags \ {t} : /\ release'[u] = release[u] /\ twin'[u] = twin[u]
                                    /\ tag'[u] = tag[u] /\ made'[u] = made[u]
             /\ made'[t] \in {made[t], made[t] + 1} /\ Edited(release'[t], t) /\ Edited(twin'[t], t)
             /\ release'[t].number = release[t].number /\ release'[t].draft = release[t].draft
  <2> DEFINE s == [release[t] EXCEPT !.assets[n] = a]
  <2>1. s.number = release[t].number /\ s.body = release[t].body /\ s.draft = release[t].draft
    BY <1>2 DEF Release
  <2>2. release' = [release EXCEPT ![t] = s]
    BY <1>7
  <2> HIDE DEF s
  <2> QED BY <1>5, <1>7, <2>1, <2>2
<1>8. CASE EditAsset(t)
  <2>1. UNCHANGED <<twin, tag, made>> /\ ~DeletePartial(t)
    BY <1>8, <1>4 DEF EditAsset
  <2>2. CASE release' = [release EXCEPT ![t].extra = TRUE]
    <3> DEFINE s == [release[t] EXCEPT !.extra = TRUE]
    <3>1. s.number = release[t].number /\ s.body = release[t].body
      BY <1>2 DEF Release
    <3>2. release' = [release EXCEPT ![t] = s]
      BY <2>2
    <3> HIDE DEF s
    <3> QED BY <1>1, <1>5, <2>1, <3>1, <3>2
  <2>3. CASE \E n \in Names : \E a : release' = [release EXCEPT ![t].assets[n] = a]
    BY <1>1, <1>7, <2>1, <2>3
  <2> QED BY <1>8, <2>2, <2>3 DEF EditAsset, Present
<1>9. CASE DraftByHand(t)
  <2> DEFINE r == [NoRelease EXCEPT !.number = made[t] + 1, !.body = "by hand", !.prerelease = t.preview]
  <2>1. \/ twin' = [twin EXCEPT ![t] = r] /\ UNCHANGED release
        \/ release' = [release EXCEPT ![t] = r] /\ UNCHANGED twin
    BY <1>9 DEF DraftByHand
  <2>2. /\ UNCHANGED tag /\ made' = [made EXCEPT ![t] = made[t] + 1] /\ ~DeletePartial(t)
        /\ r.number = made[t] + 1 /\ r.body = "by hand"
    BY <1>9, <1>4 DEF NoRelease, DraftByHand
  <2> HIDE DEF r
  <2>3. made'[t] = made[t] + 1 /\ \A u \in Tags \ {t} : made'[u] = made[u]
    BY <2>2 DEF TypeOK
  <2>4. Edited(r, t)
    BY <2>2, <2>3 DEF Edited
  <2> QED BY <1>1, <1>3, <2>1, <2>2, <2>3, <2>4 DEF TypeOK
<1>10. CASE DeleteDraft(t)
  <2>1. /\ UNCHANGED <<tag, made>> /\ twin' = [twin EXCEPT ![t] = NoRelease]
        /\ release' = [release EXCEPT ![t] = twin[t]] \/ UNCHANGED release
        /\ ~DeletePartial(t)
    BY <1>10, <1>4 DEF DeleteDraft
  <2>2. Edited(NoRelease, t)
    BY DEF NoRelease, Edited
  <2> QED BY <1>1, <1>3, <2>1, <2>2 DEF TypeOK
<1>11. CASE MoveTag(t)
  BY <1>1, <1>3, <1>11, <1>4 DEF MoveTag, TypeOK
<1>12. CASE PublishByHand(t)
  <2>1. MakePublic(t, release[t].prerelease, FALSE) /\ release[t].prerelease \in BOOLEAN
        /\ UNCHANGED <<twin, made>> /\ ~DeletePartial(t)
    BY <1>2, <1>12, <1>4, Released DEF PublishByHand
  <2>2. /\ \A u \in Tags \ {t} : release'[u] = release[u] /\ tag'[u] = tag[u]
        /\ release'[t].number = release[t].number /\ release'[t].body = release[t].body
    BY <2>1, MadePublic
  <2> QED BY <1>1, <1>3, <2>1, <2>2 DEF Edited
<1>13. CASE DeletePartial(t)
  <2>1. UNCHANGED <<twin, tag, made>> /\ ~Published(t)
    BY <1>13 DEF DeletePartial
  <2>2. PICK n \in Names : release' = [release EXCEPT ![t].assets[n] = NoAsset]
    BY <1>13 DEF DeletePartial
  <2> QED BY <1>1, <1>7, <2>1, <2>2 DEF Published, Exists
<1> QED BY <1>6, <1>8, <1>9, <1>10, <1>11, <1>12, <1>13 DEF People

\* Edits by people keep the collectors' invariant.
LEMMA PeopleCollect ==
    ASSUME CInv, NEW t \in Tags, (People(t) /\ ~Watched(t)) \/ DeletePartial(t), UNCHANGED collectorVars
    PROVE  CInv'
<1>1. TypeOK /\ CollectTypes /\ OneRun /\ TypeOK'
  BY PeopleTypes DEF CInv
<1>2. CollectTypes' /\ OneRun'
  BY <1>1, PeopleMove DEF CollectTypes, collectorVars, OneRun
<1>3. ASSUME NEW u \in Tags
      PROVE  /\ release[u].number \in Nat /\ twin[u].number \in Nat /\ made[u] \in Nat
             /\ release'[u].number \in Nat /\ twin'[u].number \in Nat /\ made'[u] \in Nat
             /\ made[u] <= made'[u] /\ Numbered(u)
  <2>1. release[u] \in Release /\ twin[u] \in Release /\ made[u] \in Nat
    BY <1>1 DEF TypeOK
  <2>2. release'[u] \in Release /\ twin'[u] \in Release /\ made'[u] \in Nat
    BY <1>1 DEF TypeOK
  <2> QED BY <1>1, <2>1, <2>2, Released, PeopleMove DEF CInv
<1>4. /\ release[t].number \in Nat /\ twin[t].number \in Nat /\ made[t] \in Nat /\ made'[t] \in Nat
      /\ release[t].number <= made[t] /\ twin[t].number <= made[t] /\ made[t] <= made'[t]
  BY <1>3 DEF Numbered
<1>5. ASSUME NEW u \in Tags PROVE Numbered(u)'
  <2>1. CASE u # t
    BY <1>1, <1>3, <2>1, PeopleMove DEF Numbered
  <2>2. CASE u = t
    <3>1. made'[t] \in {made[t], made[t] + 1} /\ Edited(release'[t], t) /\ Edited(twin'[t], t)
      BY <1>1, PeopleMove
    <3>2. ASSUME NEW s, Edited(s, t), s.number \in Nat PROVE s.number <= made'[t]
      <4>1. s.number = made[t] + 1 /\ made'[t] = made[t] + 1 => s.number <= made'[t]
        BY <1>4
      <4>2. \A r \in {release[t], twin[t]} : s.number = r.number => s.number <= made'[t]
        BY <1>4
      <4>3. s.number = 0 => s.number <= made'[t]
        BY <1>4
      <4> QED BY <3>2, <4>1, <4>2, <4>3 DEF Edited
    <3> QED BY <1>3, <2>2, <3>1, <3>2 DEF Numbered
  <2> QED BY <2>1, <2>2
<1>6. ASSUME NEW k \in Collectors PROVE CollectInv(k)'
  <2> DEFINE v == CTag(k)
  <2>1. v \in Tags /\ CollectInv(k) /\ oldRelease[k].number \in Nat /\ cpc'[k] = cpc[k]
        /\ UNCHANGED collectorVars /\ oldRelease'[k] = oldRelease[k]
    BY <1>1, OrderTypes, Released DEF CInv, CollectTypes, collectorVars
  <2>2. oldRelease'[k].number <= made'[v]
    BY <1>3, <2>1 DEF CollectInv
  <2>3. CASE v # t
    BY <1>1, <2>1, <2>3, PeopleMove, CollectFrame
  <2>4. CASE cpc[k] \notin CCalls
    BY <1>1, <2>1, <2>2, <2>4, CollectIdle DEF CollectTypes
  <2>5. ASSUME v = t, cpc[k] \in {"releaseGone", "listAgain", "tagAgain", "deleteTag", "tagGone"},
               NEW s, Edited(s, t), s.number \in Nat
        PROVE  Later(s, k)'
    <3>1. /\ Later(release[t], k) /\ Later(twin[t], k) /\ oldRelease[k].number <= made[t]
          /\ oldRelease'[k] = oldRelease[k]
      BY <2>1, <2>5 DEF CollectInv
    <3>2. CASE s.number = 0
      BY <3>2 DEF Later, Exists
    <3>3. CASE s.number = made[t] + 1 /\ s.body = "by hand"
      <4>1. s.number > oldRelease'[k].number
        <5>1. oldRelease[k].number < made[t] + 1
          BY <1>4, <2>1, <3>1
        <5> QED BY <3>1, <3>3, <5>1
      <4> QED BY <3>3, <4>1 DEF Later
    <3>4. ASSUME NEW r \in {release[t], twin[t]}, s.number = r.number, s.body \in {r.body, "edited"}
          PROVE  Later(s, k)'
      <4>1. Later(r, k)
        BY <3>1, <3>4
      <4> QED BY <3>1, <3>4, <4>1 DEF Later, Exists
    <3> QED BY <2>5, <3>2, <3>3, <3>4 DEF Edited
  <2>6. CASE v = t /\ cpc[k] \in CCalls /\ People(t) /\ ~Watched(t)
    <3>1. cpc[k] \notin {"rereadTag", "deleteRelease", "tagAgain", "deleteTag"}
      BY <2>6 DEF Watched
    <3>2. mutating'[t] = mutating[t]
      BY <1>1, <2>6, PeopleMove
    <3>3. cpc[k] \in {"releaseGone", "listAgain", "tagGone"} => Later(release[t], k)' /\ Later(twin[t], k)'
      BY <1>1, <1>3, <2>5, <2>6, PeopleMove
    <3> QED BY <2>1, <2>2, <2>6, <3>1, <3>2, <3>3
            DEF CollectInv, collectorVars, CTag, Orderly, IsSource
  <2>7. CASE v = t /\ cpc[k] \in CCalls /\ DeletePartial(t)
    <3>1. /\ UNCHANGED <<twin, tag, mutating>> /\ ~Published(t)'
          /\ release'[t].number = release[t].number
      BY <1>1, <2>7, PeopleMove
    <3>2. ~Complete(release[t])'
      BY <3>1 DEF Complete, Published
    <3>3. cpc[k] \in {"releaseGone", "listAgain", "tagAgain", "deleteTag", "tagGone"}
             => Later(release[t], k)' /\ Later(twin[t], k)'
      BY <1>1, <1>3, <2>5, <2>7, PeopleMove
    <3> QED BY <2>1, <2>2, <2>7, <3>1, <3>2, <3>3
            DEF CollectInv, collectorVars, CTag, Orderly, IsSource, Ambiguous, Exists
  <2> QED BY <2>3, <2>4, <2>6, <2>7
<1> QED BY <1>1, <1>2, <1>5, <1>6 DEF CInv

\* The publisher's steps keep the collectors' invariant.
LEMMA JobCollect ==
    ASSUME CInv, NEW j \in Jobs, Publisher(j) \/ Workflow(j) \/ CallFails(j), UNCHANGED collectorVars
    PROVE  CInv'
<1>1. TypeOK /\ CollectTypes /\ OneRun
  BY DEF CInv
<1>2. TypeOK'
  BY <1>1, PublishTypesStep DEF Next
<1>3. CollectTypes' /\ OneRun'
  BY <1>1, JobLocal DEF CollectTypes, collectorVars
<1>4. \A t \in Tags : Numbered(t)' /\ made[t] <= made'[t]
  BY <1>1, JobNumbers DEF CInv
<1>5. ASSUME NEW k \in Collectors PROVE CollectInv(k)'
  <2> DEFINE t == CTag(k)
  <2>1. t \in Tags /\ CollectInv(k) /\ k # j /\ k # NoJob
    BY OrderTypes, JobAssumption DEF CInv
  <2>2. CASE cpc[k] \in CCalls
    <3>1. mutating[t] = k
      BY <2>1, <2>2 DEF CollectInv
    <3>2. TagOf(j) # t /\ mutating'[t] = k
      BY <1>1, <2>1, <3>1, JobLocal
    <3> QED BY <1>1, <2>1, <3>1, <3>2, JobLocal, CollectFrame
  <2>3. CASE cpc[k] \notin CCalls
    <3>1. oldRelease'[k].number <= made'[t]
      <4>1. made[t] \in Nat /\ made'[t] \in Nat /\ oldRelease[k].number \in Nat
        BY <1>1, <1>2, <2>1, Released DEF TypeOK, CollectTypes
      <4> QED BY <1>4, <2>1, <4>1 DEF CollectInv, collectorVars
    <3> QED BY <1>1, <2>3, <3>1, CollectIdle DEF CollectTypes, collectorVars
  <2> QED BY <2>2, <2>3
<1> QED BY <1>2, <1>3, <1>4, <1>5 DEF CInv

\* A collector goes on, or lets go of the version.
LEMMA CollectMoves ==
    ASSUME CInv, NEW k \in Collectors, NEW l \in CCalls \cup {"new", "failed", "done"},
           CGoto(k, l) \/ CEnd(k, l)
    PROVE  /\ cpc' = [cpc EXCEPT ![k] = l] /\ cpc'[k] = l /\ \A i \in Collectors \ {k} : cpc'[i] = cpc[i]
           /\ cpc' \in [Collectors -> CCalls \cup {"new", "failed", "done"}]
           /\ mutating' \in [Tags -> Jobs \cup Collectors \cup {NoJob}]
           /\ \A t \in Tags \ {CTag(k)} : mutating'[t] = mutating[t]
           /\ CGoto(k, l) => mutating' = mutating
BY DEF CInv, TypeOK, CollectTypes, CGoto, CEnd

\* What a collector's step is shown to keep, once its own claim is.
LEMMA CollectKeeps ==
    ASSUME CInv, NEW k \in Collectors, mutating[CTag(k)] \in {k, NoJob},
           UNCHANGED <<restVars>>, faults' \in 0 .. MaxFaults,
           mutating' \in [Tags -> Jobs \cup Collectors \cup {NoJob}],
           \A t \in Tags \ {CTag(k)} : /\ mutating'[t] = mutating[t] /\ release'[t] = release[t]
                                      /\ twin'[t] = twin[t] /\ tag'[t] = tag[t],
           release' \in [Tags -> Release], twin' \in [Tags -> Release],
           tag' \in [Tags -> Refs \cup Commits \cup {NoCommit}],
           Numbered(CTag(k))', CollectTypes',
           \A i \in Collectors \ {k} : /\ cpc'[i] = cpc[i] /\ oldTag'[i] = oldTag[i]
                                     /\ oldRelease'[i] = oldRelease[i],
           CollectInv(k)'
    PROVE  CInv'
<1>1. TypeOK'
  BY DEF CInv, TypeOK, restVars, jobVars
<1>2. OneRun'
  <2> SUFFICES ASSUME NEW j \in Jobs, pc[j] \in Running PROVE mutating'[TagOf(j)] = j
    BY DEF OneRun, restVars
  <2>1. mutating[TagOf(j)] = j /\ j # k /\ j # NoJob /\ TagOf(j) \in Tags
    BY PlanTypes, JobAssumption DEF CInv, OneRun
  <2> QED BY <2>1
<1>3. ASSUME NEW t \in Tags PROVE Numbered(t)'
  <2>1. CASE t = CTag(k)
    BY <2>1
  <2>2. CASE t # CTag(k)
    BY <2>2 DEF CInv, Numbered, restVars
  <2> QED BY <2>1, <2>2
<1>4. ASSUME NEW i \in Collectors, i # k PROVE CollectInv(i)'
  <2>1. CollectInv(i) /\ CTag(i) \in Tags /\ i # NoJob /\ made' = made
    BY OrderTypes, JobAssumption DEF CInv, restVars
  <2>2. CASE cpc[i] \in CCalls
    <3>1. mutating[CTag(i)] = i
      BY <2>1, <2>2 DEF CollectInv
    <3>2. CTag(i) \in Tags \ {CTag(k)}
      BY <1>4, <2>1, <3>1
    <3> QED BY <1>4, <2>1, <3>2 DEF CollectInv, CTag, Orderly, IsSource, Ambiguous, Later
  <2>3. CASE cpc[i] \notin CCalls
    <3>1. oldRelease'[i].number <= made'[CTag(i)]
      BY <1>4, <2>1 DEF CollectInv
    <3> QED BY <1>4, <2>3, <3>1, CollectIdle DEF CInv, CollectTypes
  <2> QED BY <2>2, <2>3
<1> QED BY <1>1, <1>2, <1>3, <1>4 DEF CInv

\* The collector that ends claims nothing more.
LEMMA CollectEnds ==
    ASSUME CInv, NEW k \in Collectors, cpc[k] \in CCalls, UNCHANGED <<tag, release, twin, restVars>>,
           faults' \in 0 .. MaxFaults, NEW l \in CCalls \cup {"failed", "done"}, CGoto(k, l) \/ CEnd(k, l),
           \A i \in Collectors \ {k} : oldTag'[i] = oldTag[i] /\ oldRelease'[i] = oldRelease[i],
           oldTag' \in [Collectors -> Refs \cup Commits \cup {NoCommit}],
           oldRelease' \in [Collectors -> Release], oldRelease'[k].number <= made[CTag(k)],
           l \in CCalls => CGoto(k, l) /\ (mutating'[CTag(k)] = k /\ cpc'[k] = l => CollectInv(k)')
    PROVE  CInv'
<1>1. TypeOK /\ CollectTypes /\ CTag(k) \in Tags /\ Numbered(CTag(k)) /\ mutating[CTag(k)] = k
  BY OrderTypes DEF CInv, CollectInv
<1>2. l \in CCalls \cup {"new", "failed", "done"}
  OBVIOUS
<1>3. /\ cpc'[k] = l /\ \A i \in Collectors \ {k} : cpc'[i] = cpc[i]
      /\ cpc' \in [Collectors -> CCalls \cup {"new", "failed", "done"}]
      /\ mutating' \in [Tags -> Jobs \cup Collectors \cup {NoJob}]
      /\ \A t \in Tags \ {CTag(k)} : mutating'[t] = mutating[t]
      /\ CGoto(k, l) => mutating' = mutating
  BY <1>2, CollectMoves
<1>4. CollectInv(k)'
  <2>1. CASE l \in CCalls
    BY <1>1, <1>3, <2>1
  <2>2. CASE l \notin CCalls
    BY <1>1, <1>3, <2>2, CollectIdle DEF restVars
  <2> QED BY <2>1, <2>2
<1>5. CollectTypes'
  BY <1>3 DEF CollectTypes
<1>6. Numbered(CTag(k))'
  BY <1>1 DEF Numbered, restVars, CTag
<1> QED BY <1>1, <1>3, <1>4, <1>5, <1>6, CollectKeeps DEF TypeOK

\* A collector that starts takes a version that nobody has.
LEMMA CStartKeeps == ASSUME CInv, NEW k \in Collectors, CStart(k) PROVE CInv'
<1>1. /\ TypeOK /\ CollectTypes /\ CTag(k) \in Tags /\ Numbered(CTag(k)) /\ CollectInv(k)
  BY OrderTypes DEF CInv
<1>2. UNCHANGED <<tag, release, twin, restVars, faults, oldTag, oldRelease>> /\ mutating[CTag(k)] = NoJob
  BY DEF CStart
<1>3. \/ /\ Orderly(k) /\ mutating' = [mutating EXCEPT ![CTag(k)] = k]
         /\ cpc' = [cpc EXCEPT ![k] = "readTag"]
      \/ cpc' = [cpc EXCEPT ![k] = "failed"] /\ UNCHANGED mutating
  BY DEF CStart
<1>4. /\ mutating' \in [Tags -> Jobs \cup Collectors \cup {NoJob}]
      /\ \A t \in Tags \ {CTag(k)} : mutating'[t] = mutating[t]
      /\ cpc' \in [Collectors -> CCalls \cup {"new", "failed", "done"}]
      /\ \A i \in Collectors \ {k} : cpc'[i] = cpc[i]
      /\ \/ cpc'[k] = "failed"
         \/ cpc'[k] = "readTag" /\ Orderly(k) /\ mutating'[CTag(k)] = k
  BY <1>1, <1>3 DEF TypeOK, CollectTypes, CCalls
<1>5. oldRelease'[k].number <= made'[CTag(k)]
  BY <1>1, <1>2 DEF CollectInv, restVars
<1>6. CollectInv(k)'
  <2>1. CASE cpc'[k] = "failed"
    BY <1>5, <2>1, CollectIdle
  <2>2. CASE cpc'[k] = "readTag" /\ Orderly(k) /\ mutating'[CTag(k)] = k
    BY <1>5, <2>2 DEF CollectInv, CTag, Orderly
  <2> QED BY <1>4, <2>1, <2>2
<1>7. CollectTypes' /\ Numbered(CTag(k))'
  BY <1>1, <1>2, <1>4 DEF CollectTypes, Numbered, restVars, CTag
<1> QED BY <1>1, <1>2, <1>4, <1>6, <1>7, CollectKeeps DEF TypeOK

\* A collector's looks keep the invariant.
LEMMA LooksKeep ==
    ASSUME CInv, NEW k \in Collectors,
           \/ ReadTag(k) \/ ReadRelease(k) \/ RereadRelease(k) \/ RereadTag(k) \/ ReleaseGone(k)
           \/ ListAgain(k) \/ TagAgain(k) \/ TagGone(k) \/ CCallFails(k)
    PROVE  CInv'
<1> DEFINE t == CTag(k)
           old == oldRelease[k]
<1>1. /\ TypeOK /\ CollectTypes /\ t \in Tags /\ Numbered(t) /\ CollectInv(k) /\ Order' = Order
  BY OrderTypes DEF CInv
<1>2. /\ release[t] \in Release /\ tag[t] \in Refs \cup Commits \cup {NoCommit} /\ old.number <= made[t]
      /\ release[t].number <= made[t]
  BY <1>1 DEF TypeOK, CollectInv, Numbered
<1>3. UNCHANGED <<tag, release, twin, restVars>> /\ made' = made
  BY DEF ReadTag, ReadRelease, RereadRelease, RereadTag, ReleaseGone, ListAgain, TagAgain, TagGone,
         CCallFails, restVars
<1>4. faults' \in 0 .. MaxFaults
  BY <1>1, FaultTypes DEF ReadTag, ReadRelease, RereadRelease, RereadTag, ReleaseGone, ListAgain, TagAgain,
                          TagGone, CCallFails, TypeOK
<1>5. cpc[k] \in CCalls
  BY DEF ReadTag, ReadRelease, RereadRelease, RereadTag, ReleaseGone, ListAgain, TagAgain, TagGone,
         CCallFails, CAt, CCalls
<1>6. ASSUME UNCHANGED <<oldTag, oldRelease>>, NEW l \in CCalls \cup {"failed", "done"},
             \/ CGoto(k, l) /\ (mutating'[t] = k /\ cpc'[k] = l => CollectInv(k)')
             \/ l \notin CCalls /\ CEnd(k, l)
      PROVE  CInv'
  BY <1>1, <1>2, <1>3, <1>4, <1>5, <1>6, CollectEnds DEF CollectTypes
<1>7. "failed" \notin CCalls /\ "done" \notin CCalls
  BY DEF CCalls
<1>8. Orderly(k) /\ Orderly(k)' = Orderly(k) /\ CTag(k)' = CTag(k)
  BY <1>1, <1>5 DEF CollectInv, Orderly, CTag
<1>9. CASE ReadTag(k)
  <2>1. /\ oldTag' = [oldTag EXCEPT ![k] = tag[t]] /\ CGoto(k, "readRelease") /\ UNCHANGED oldRelease
        /\ "readRelease" \in CCalls
    BY <1>9 DEF ReadTag, CCalls
  <2>2. /\ oldTag' \in [Collectors -> Refs \cup Commits \cup {NoCommit}]
        /\ \A i \in Collectors \ {k} : oldTag'[i] = oldTag[i]
    BY <1>1, <1>2, <2>1 DEF CollectTypes
  <2>3. mutating'[t] = k /\ cpc'[k] = "readRelease" => CollectInv(k)'
    BY <1>2, <1>3, <1>8, <2>1 DEF CollectInv
  <2> QED BY <1>1, <1>2, <1>3, <1>4, <1>5, <2>1, <2>2, <2>3, CollectEnds DEF CollectTypes
<1>10. CASE ReadRelease(k)
  <2>1. oldRelease' = [oldRelease EXCEPT ![k] = release[t]] /\ UNCHANGED oldTag
    BY <1>10 DEF ReadRelease, Listed
  <2>2. /\ oldRelease' \in [Collectors -> Release] /\ oldRelease'[k] = release[t]
        /\ \A i \in Collectors \ {k} : oldRelease'[i] = oldRelease[i]
    BY <1>1, <1>2, <2>1 DEF CollectTypes
  <2>3. \/ CEnd(k, "failed") \/ CEnd(k, "done")
        \/ /\ CGoto(k, "rereadRelease") /\ (oldTag[k] # NoCommit \/ Exists(release[t]))
           /\ oldTag[k] # NoCommit => IsSource(k, oldTag[k])
           /\ Order[k].mode = "incomplete" => ~Complete(release[t])
    BY <1>10 DEF ReadRelease, CRequire, Listed
  <2>4. CASE CEnd(k, "failed") \/ CEnd(k, "done")
    BY <1>1, <1>2, <1>3, <1>4, <1>5, <1>7, <2>1, <2>2, <2>4, CollectEnds DEF CollectTypes
  <2>5. CASE ~(CEnd(k, "failed") \/ CEnd(k, "done"))
    <3>1. mutating'[t] = k /\ cpc'[k] = "rereadRelease" => CollectInv(k)'
      BY <1>2, <1>3, <1>8, <2>1, <2>2, <2>3, <2>5 DEF CollectInv, CCalls, IsSource
    <3>2. "rereadRelease" \in CCalls
      BY DEF CCalls
    <3> QED BY <1>1, <1>2, <1>3, <1>4, <1>5, <2>1, <2>2, <2>3, <2>5, <3>1, <3>2, CollectEnds DEF CollectTypes
  <2> QED BY <2>4, <2>5
<1>11. CASE RereadRelease(k)
  <2>1. UNCHANGED <<oldTag, oldRelease>> /\ cpc[k] = "rereadRelease" /\ "rereadTag" \in CCalls
    BY <1>11 DEF RereadRelease, CAt, CCalls
  <2>2. CEnd(k, "failed") \/ (CGoto(k, "rereadTag") /\ ~Ambiguous(t) /\ SameRelease(release[t], old))
    BY <1>11 DEF RereadRelease, CRequire, Listed
  <2>3. SameRelease(release[t], old) => /\ release[t].number = old.number
                                        /\ Complete(release[t]) = Complete(old)
    BY DEF SameRelease, Complete, Exists
  <2>4. ASSUME ~Ambiguous(t), SameRelease(release[t], old), mutating'[t] = k, cpc'[k] = "rereadTag"
        PROVE  CollectInv(k)'
    BY <1>1, <1>2, <1>3, <1>5, <1>8, <2>1, <2>3, <2>4 DEF CollectInv, CCalls, IsSource, Ambiguous
  <2> QED BY <1>6, <1>7, <2>1, <2>2, <2>4
<1>12. CASE RereadTag(k)
  <2>1. /\ UNCHANGED <<oldTag, oldRelease>> /\ cpc[k] = "rereadTag"
        /\ {"deleteRelease", "listAgain"} \subseteq CCalls
    BY <1>12 DEF RereadTag, CAt, CCalls
  <2>2. /\ release[t].number = old.number /\ ~Ambiguous(t) /\ (Exists(old) \/ oldTag[k] # NoCommit)
        /\ Order[k].mode = "incomplete" => ~Complete(release[t])
        /\ oldTag[k] # NoCommit => IsSource(k, oldTag[k])
    BY <1>1, <2>1 DEF CollectInv, CCalls
  <2>3. \/ CEnd(k, "failed")
        \/ Exists(old) /\ CGoto(k, "deleteRelease")
        \/ ~Exists(old) /\ CGoto(k, "listAgain")
    BY <1>12, <2>2 DEF RereadTag, CRequire, AfterRelease
  <2>4. ASSUME mutating'[t] = k, cpc'[k] = "deleteRelease" PROVE CollectInv(k)'
    BY <1>2, <1>3, <1>8, <2>1, <2>2, <2>4 DEF CollectInv, CCalls, IsSource, Ambiguous
  <2>5. ASSUME ~Exists(old), mutating'[t] = k, cpc'[k] = "listAgain" PROVE CollectInv(k)'
    <3>1. Later(release[t], k)' /\ Later(twin[t], k)'
      BY <1>3, <1>8, <2>2, <2>5 DEF Later, Exists, Ambiguous
    <3> QED BY <1>2, <1>3, <1>8, <2>1, <2>2, <2>5, <3>1 DEF CollectInv, CCalls, IsSource
  <2> QED BY <1>6, <1>7, <2>1, <2>3, <2>4, <2>5
<1>13. CASE ReleaseGone(k) \/ ListAgain(k) \/ TagAgain(k) \/ TagGone(k)
  <2>1. /\ UNCHANGED <<oldTag, oldRelease>> /\ cpc[k] \in {"releaseGone", "listAgain", "tagAgain", "tagGone"}
        /\ {"tagAgain", "listAgain", "deleteTag"} \subseteq CCalls
    BY <1>13 DEF ReleaseGone, ListAgain, TagAgain, TagGone, CAt, CCalls
  <2>2. /\ Later(release[t], k) /\ Later(twin[t], k) /\ (oldTag[k] # NoCommit => IsSource(k, oldTag[k]))
        /\ cpc[k] = "tagAgain" => ~Exists(release[t])
        /\ cpc[k] # "releaseGone" => oldTag[k] # NoCommit
    BY <1>1, <2>1 DEF CollectInv, CCalls
  <2>3. Later(release[t], k)' /\ Later(twin[t], k)'
    BY <1>3, <1>8, <2>1, <2>2 DEF Later
  <2>4. \/ CEnd(k, "failed") \/ CEnd(k, "done")
        \/ CGoto(k, "listAgain") /\ oldTag[k] # NoCommit
        \/ CGoto(k, "tagAgain") /\ ~Exists(release[t]) /\ oldTag[k] # NoCommit
        \/ CGoto(k, "deleteTag") /\ ~Exists(release[t]) /\ oldTag[k] # NoCommit /\ tag[t] = oldTag[k]
    BY <1>13, <2>1, <2>2 DEF ReleaseGone, ListAgain, TagAgain, TagGone, CAt, CRequire, AfterRelease, Listed
  <2>5. ASSUME mutating'[t] = k, oldTag[k] # NoCommit,
               \/ cpc'[k] = "listAgain"
               \/ cpc'[k] = "tagAgain" /\ ~Exists(release[t])
               \/ cpc'[k] = "deleteTag" /\ ~Exists(release[t]) /\ tag[t] = oldTag[k]
        PROVE  CollectInv(k)'
    BY <1>2, <1>3, <1>8, <2>1, <2>2, <2>3, <2>5 DEF CollectInv, CCalls, IsSource
  <2> QED BY <1>6, <1>7, <2>1, <2>4, <2>5
<1>14. CASE CCallFails(k)
  BY <1>6, <1>7, <1>14 DEF CCallFails
<1> QED BY <1>9, <1>10, <1>11, <1>12, <1>13, <1>14

\* A deletion whose response may be lost moves the collector on or ends it.
LEMMA CRespondMoves ==
    ASSUME CInv, NEW k \in Collectors, NEW l \in CCalls, CRespond(k, l)
    PROVE  /\ faults' \in 0 .. MaxFaults
           /\ cpc'[k] \in {l, "failed"} /\ \A i \in Collectors \ {k} : cpc'[i] = cpc[i]
           /\ cpc' \in [Collectors -> CCalls \cup {"new", "failed", "done"}]
           /\ mutating' \in [Tags -> Jobs \cup Collectors \cup {NoJob}]
           /\ \A t \in Tags \ {CTag(k)} : mutating'[t] = mutating[t]
           /\ cpc'[k] # "failed" => mutating' = mutating
<1>1. faults' \in 0 .. MaxFaults
  BY FaultTypes DEF CRespond, CInv, TypeOK
<1>2. CASE CGoto(k, l)
  BY <1>1, <1>2, CollectMoves
<1>3. CASE CEnd(k, "failed")
  BY <1>1, <1>3, CollectMoves
<1> QED BY <1>2, <1>3 DEF CRespond

\* The two deletions keep the invariant.
LEMMA DeletesKeep ==
    ASSUME CInv, NEW k \in Collectors, DeleteRelease(k) \/ DeleteTag(k) PROVE CInv'
<1> DEFINE t == CTag(k)
           old == oldRelease[k]
<1>1. /\ TypeOK /\ CollectTypes /\ t \in Tags /\ Numbered(t) /\ CollectInv(k)
  BY OrderTypes DEF CInv
<1>2. release[t] \in Release /\ twin[t] \in Release /\ made[t] \in Nat
  BY <1>1 DEF TypeOK
<1>3. UNCHANGED <<restVars, oldTag, oldRelease>> /\ made' = made /\ CTag(k)' = CTag(k)
  BY DEF DeleteRelease, DeleteTag, restVars, CTag
<1>4. /\ cpc[k] \in CCalls /\ mutating[t] = k /\ Orderly(k) /\ old.number <= made[t]
      /\ oldTag[k] # NoCommit => IsSource(k, oldTag[k])
      /\ Exists(old) \/ oldTag[k] # NoCommit
  BY <1>1 DEF DeleteRelease, DeleteTag, CAt, CCalls, CollectInv
<1>5. "releaseGone" \in CCalls /\ "tagGone" \in CCalls /\ (CRespond(k, "releaseGone") \/ CRespond(k, "tagGone"))
  BY DEF DeleteRelease, DeleteTag, CCalls
<1>6. /\ faults' \in 0 .. MaxFaults /\ \A i \in Collectors \ {k} : cpc'[i] = cpc[i]
      /\ cpc' \in [Collectors -> CCalls \cup {"new", "failed", "done"}]
      /\ mutating' \in [Tags -> Jobs \cup Collectors \cup {NoJob}]
      /\ \A u \in Tags \ {t} : mutating'[u] = mutating[u]
      /\ cpc'[k] # "failed" => mutating'[t] = k
  BY <1>4, <1>5, CRespondMoves
<1>7. CollectTypes'
  BY <1>1, <1>3, <1>6 DEF CollectTypes
<1>8. old.number <= made'[t] /\ oldRelease'[k].number <= made'[CTag(k)]
  BY <1>3, <1>4
<1>9. CASE DeleteRelease(k)
  <2>1. cpc[k] = "deleteRelease" /\ cpc'[k] \in {"releaseGone", "failed"} /\ UNCHANGED tag
    BY <1>5, <1>9, CRespondMoves DEF DeleteRelease, CAt
  <2>2. release[t].number = old.number /\ ~Ambiguous(t)
    BY <1>1, <2>1 DEF CollectInv
  <2>3. release' = [release EXCEPT ![t] = twin[t]] /\ twin' = [twin EXCEPT ![t] = NoRelease]
    BY <1>9, <2>2 DEF DeleteRelease
  <2>4. /\ release' \in [Tags -> Release] /\ twin' \in [Tags -> Release]
        /\ release'[t] = twin[t] /\ twin'[t] = NoRelease
        /\ \A u \in Tags \ {t} : release'[u] = release[u] /\ twin'[u] = twin[u]
    BY <1>1, <1>2, <2>3, AssetTypes DEF TypeOK
  <2>5. ~Exists(release'[t]) /\ ~Exists(twin'[t])
    BY <2>2, <2>4 DEF Ambiguous, Exists, NoRelease
  <2>6. Numbered(t)'
    BY <1>1, <1>2, <1>3, <2>4, <2>5 DEF Numbered, Exists
  <2>7. CollectInv(k)'
    <3>1. CASE cpc'[k] = "failed"
      BY <1>8, <3>1, CollectIdle
    <3>2. CASE cpc'[k] = "releaseGone"
      <4>1. Later(release[t], k)' /\ Later(twin[t], k)'
        BY <1>3, <2>5 DEF Later, Exists
      <4> QED BY <1>3, <1>4, <1>6, <1>8, <3>2, <4>1 DEF CollectInv, Orderly, IsSource
    <3> QED BY <2>1, <3>1, <3>2
  <2> QED BY <1>1, <1>3, <1>4, <1>6, <1>7, <2>1, <2>4, <2>6, <2>7, CollectKeeps DEF TypeOK
<1>10. CASE DeleteTag(k)
  <2>1. /\ cpc[k] = "deleteTag" /\ cpc'[k] \in {"tagGone", "failed"} /\ UNCHANGED <<release, twin>>
        /\ tag' = [tag EXCEPT ![t] = NoCommit]
    BY <1>5, <1>10, CRespondMoves DEF DeleteTag, CAt
  <2>2. Later(release[t], k) /\ Later(twin[t], k) /\ oldTag[k] # NoCommit
    BY <1>1, <2>1 DEF CollectInv
  <2>3. /\ tag' \in [Tags -> Refs \cup Commits \cup {NoCommit}]
        /\ \A u \in Tags \ {t} : tag'[u] = tag[u]
    BY <1>1, <2>1 DEF TypeOK
  <2>4. Numbered(t)'
    BY <1>1, <1>3, <2>1 DEF Numbered
  <2>5. CollectInv(k)'
    <3>1. CASE cpc'[k] = "failed"
      BY <1>8, <3>1, CollectIdle
    <3>2. CASE cpc'[k] = "tagGone"
      <4>1. Later(release[t], k)' /\ Later(twin[t], k)'
        BY <1>3, <2>1, <2>2 DEF Later
      <4> QED BY <1>3, <1>4, <1>6, <1>8, <2>2, <3>2, <4>1 DEF CollectInv, Orderly, IsSource
    <3> QED BY <2>1, <3>1, <3>2
  <2> QED BY <1>1, <1>3, <1>4, <1>6, <1>7, <2>1, <2>3, <2>4, <2>5, CollectKeeps DEF TypeOK
<1> QED BY <1>9, <1>10

\* Every step keeps the collectors' invariant.
LEMMA CInvStep == CInv /\ [CNext]_allVars => CInv'
<1> SUFFICES ASSUME CInv, [CNext]_allVars PROVE CInv'
  OBVIOUS
<1>1. CASE UNCHANGED allVars
  <2>1. TypeOK' /\ CollectTypes' /\ OneRun'
    BY <1>1, PublishTypesStep DEF CInv, allVars, vars, collectorVars, CollectTypes, OneRun
  <2>2. ASSUME NEW t \in Tags PROVE Numbered(t)'
    BY <1>1 DEF CInv, allVars, vars, Numbered
  <2>3. ASSUME NEW k \in Collectors PROVE CollectInv(k)'
    BY <1>1, CollectFrame DEF CInv, allVars, vars, collectorVars
  <2> QED BY <2>1, <2>2, <2>3 DEF CInv
<1>2. CASE CNext
  BY <1>2, JobCollect, PeopleCollect, CStartKeeps, LooksKeep, DeletesKeep DEF CNext, Collector
<1> QED BY <1>1, <1>2

\* Runs of the publisher and of Delete Preview keep out of each other's way.
THEOREM CollectorsCorrect == CSpec => []CInv
BY CInvInit, CInvStep, PTL DEF CSpec

\* Recovery of an incomplete publication never deletes a complete Preview.
THEOREM CompleteKept == CSpec => KeepsComplete
<1>1. ASSUME CInv, [CNext]_allVars, NEW k \in Collectors, NEW t \in Tags, Order[k].mode = "incomplete",
             Complete(release[t]), release'[t] # release[t], DeleteRelease(k)
      PROVE  FALSE
  <2>1. cpc[k] = "deleteRelease" /\ \A u \in Tags \ {CTag(k)} : release'[u] = release[u]
    BY <1>1 DEF CInv, TypeOK, DeleteRelease, CAt
  <2>2. ~Complete(release[CTag(k)])
    BY <1>1, <2>1 DEF CInv, CollectInv
  <2> QED BY <1>1, <2>1, <2>2
<1>2. CInv /\ [CNext]_allVars =>
        [\A k \in Collectors, t \in Tags :
            Order[k].mode = "incomplete" /\ Complete(release[t]) /\ release'[t] # release[t]
               => ~DeleteRelease(k)]_allVars
  BY <1>1
<1> QED BY <1>2, CollectorsCorrect, PTL DEF CSpec, KeepsComplete

\* A tag is never deleted from under a Release, and only at the order's commit.
THEOREM TagOutlives == CSpec => TagOutlivesRelease
<1>1. ASSUME CInv, NEW k \in Collectors, Collector(k), tag' # tag
      PROVE  ~Exists(release[CTag(k)]) /\ CTag(k).preview /\ IsSource(k, tag[CTag(k)])
  <2>1. DeleteTag(k)
    BY <1>1 DEF Collector, ReadTag, ReadRelease, RereadRelease, RereadTag, DeleteRelease, ReleaseGone,
                ListAgain, TagAgain, TagGone
  <2>2. cpc[k] = "deleteTag"
    BY <2>1 DEF DeleteTag, CAt
  <2> QED BY <1>1, <2>2 DEF CInv, CollectInv, CCalls, Orderly
<1>2. CInv /\ [CNext]_allVars =>
        [\A k \in Collectors : Collector(k) /\ tag' # tag =>
            /\ ~Exists(release[CTag(k)])
            /\ CTag(k).preview /\ IsSource(k, tag[CTag(k)])]_allVars
  BY <1>1
<1> QED BY <1>2, CollectorsCorrect, PTL DEF CSpec, TagOutlivesRelease

\* A collector that reports success leaves neither the Release nor the tag.
THEOREM DoneGone == CSpec => DoneIsGone
<1> DEFINE Gone(k) == /\ LET r == release'[CTag(k)]
                         IN  Exists(r) => r.body \in {"by hand", "edited"} /\ r.number > oldRelease'[k].number
                      /\ oldTag'[k] # NoCommit => tag'[CTag(k)] = NoCommit
<1>1. ASSUME CInv, CNext, NEW k \in Collectors, ~CAt(k, "done"), cpc'[k] = "done"
      PROVE  Gone(k)
  <2>1. cpc \in [Collectors -> CCalls \cup {"new", "failed", "done"}] /\ CollectInv(k)
    BY <1>1 DEF CInv, CollectTypes
  <2>2. \A i \in Collectors, l \in CCalls \cup {"new", "failed", "done"} :
           (CGoto(i, l) \/ CEnd(i, l)) /\ l # "done" => cpc'[k] # "done"
    BY <1>1, CollectMoves DEF CAt
  <2>3. {"readRelease", "rereadRelease", "rereadTag", "deleteRelease", "listAgain", "releaseGone", "tagAgain",
         "deleteTag", "tagGone", "failed"} \subseteq CCalls \cup {"new", "failed", "done"}
    BY DEF CCalls
  <2>4. PICK i \in Collectors : ReadRelease(i) \/ RereadTag(i) \/ ReleaseGone(i) \/ TagAgain(i) \/ TagGone(i)
    <3>1. ASSUME NEW i \in Collectors, CStart(i) PROVE FALSE
      BY <1>1, <2>1, <3>1 DEF CStart, CAt
    <3>2. ASSUME NEW i \in Collectors,
                 ReadTag(i) \/ RereadRelease(i) \/ DeleteRelease(i) \/ ListAgain(i) \/ DeleteTag(i) \/ CCallFails(i)
          PROVE  FALSE
      BY <1>1, <2>2, <2>3, <3>2 DEF ReadTag, RereadRelease, DeleteRelease, ListAgain, DeleteTag, CCallFails,
                                    CRequire, CRespond
    <3>3. ~UNCHANGED collectorVars
      BY <1>1 DEF collectorVars, CAt
    <3> QED BY <1>1, <3>1, <3>2, <3>3 DEF CNext, Collector
  <2>5. i = k
    <3>1. \E l \in CCalls \cup {"failed", "done"} : CGoto(i, l) \/ CEnd(i, l)
      BY <2>4 DEF ReadRelease, RereadTag, ReleaseGone, TagAgain, TagGone, CRequire, CCalls, AfterRelease
    <3>2. i # k => cpc'[k] = cpc[k]
      BY <1>1, <3>1, CollectMoves
    <3> QED BY <1>1, <3>2 DEF CAt
  <2>6. UNCHANGED <<tag, release>>
    BY <2>4 DEF ReadRelease, RereadTag, ReleaseGone, TagAgain, TagGone
  <2>7. CASE ReadRelease(k)
    <3>1. oldTag[k] = NoCommit /\ ~Exists(release[CTag(k)])
      BY <1>1, <2>2, <2>3, <2>7 DEF ReadRelease, CRequire, Listed
    <3> QED BY <2>6, <2>7, <3>1 DEF ReadRelease
  <2>8. CASE RereadTag(k)
    <3>1. Exists(oldRelease[k]) \/ oldTag[k] # NoCommit
      BY <2>1, <2>8 DEF RereadTag, CAt, CollectInv, CCalls
    <3> QED BY <1>1, <2>2, <2>3, <2>8, <3>1 DEF RereadTag, CRequire, AfterRelease
  <2>9. CASE ReleaseGone(k) \/ TagAgain(k) \/ TagGone(k)
    <3>1. Later(release[CTag(k)], k) /\ UNCHANGED <<oldTag, oldRelease>>
      BY <2>1, <2>9 DEF ReleaseGone, TagAgain, TagGone, CAt, CollectInv
    <3>2. oldTag[k] = NoCommit \/ tag[CTag(k)] = NoCommit
      BY <1>1, <2>2, <2>3, <2>9 DEF ReleaseGone, TagAgain, TagGone, CRequire, AfterRelease
    <3> QED BY <2>6, <3>1, <3>2 DEF Later
  <2> QED BY <2>4, <2>5, <2>7, <2>8, <2>9
<1>2. CInv /\ [CNext]_allVars =>
        [\A k \in Collectors : ~CAt(k, "done") /\ cpc'[k] = "done" => Gone(k)]_allVars
  BY <1>1
<1> QED BY <1>2, CollectorsCorrect, PTL DEF CSpec, DoneIsGone

-----------------------------------------------------------------------------
(***************************************************************************)
(* The Latest mark, as long as nobody edits anything by hand.              *)
(***************************************************************************)
\* The publication group serializes the jobs' calls.
Serial == \A j \in Jobs : pc[j] \in Calls => publishing = j

\* What a job knows of the mark and of the versions above its own.
LatestJob(j) ==
    LET t == TagOf(j) IN
    /\ Drafts(j) => ~Published(t)
    /\ pc[j] \in {"latestList", "latestRead", "latestPatch", "latestConfirm"} =>
          Plan[j].ref = "main" /\ Stable(t)
    /\ pc[j] \in {"latestRead", "latestPatch"} => Higher(t) = {}
    /\ pc[j] = "latestPatch" => \A u \in latest : u # t /\ GivesWay(u, t)
    /\ pc[j] = "done" /\ Plan[j].ref = "main" /\ Stable(t) /\ Higher(t) = {} =>
          latest # {} /\ \A u \in latest : release[u].time >= release[t].time

\* What is marked Latest is public, and what is above it was published later.
Marked(u) == /\ Published(u) /\ Stable(u) /\ ~release[u].prerelease
             /\ \A v \in Higher(u) : release[v].time >= release[u].time

LatestInv ==
    /\ Serial
    /\ \A t \in Tags : Published(t) => release[t].time <= clock
    /\ \A u, v \in latest : u = v
    /\ \A u \in latest : Marked(u)
    /\ \A j \in Jobs : LatestJob(j)

\* What is public stays as it is, and nothing else becomes public.
SameView == \A t \in Tags :
    /\ Published(t)' = Published(t)
    /\ Published(t) => /\ release'[t].time = release[t].time
                       /\ release'[t].prerelease = release[t].prerelease

\* The versions above one another are then the same.
LEMMA HigherFrame == ASSUME SameView PROVE \A t \in Tags : Higher(t)' = Higher(t)
BY DEF SameView, Higher, Stable

\* A job that is left alone, as is what is public, knows what it knew.
LEMMA LatestJobFrame ==
    ASSUME PublishInv, LatestInv, SameView, latest' = latest, latest \subseteq Tags, NEW q \in Jobs,
           pc'[q] = pc[q], public'[q] = public[q]
    PROVE  LatestJob(q)'
<1> DEFINE t == TagOf(q)
<1>1. /\ LatestJob(q) /\ JobInv(q) /\ t \in Tags /\ \A u \in latest : Published(u) /\ u \in Tags
  BY PlanTypes DEF LatestInv, PublishInv, Marked
<1>2. Higher(t)' = Higher(t) /\ Published(t)' = Published(t)
  BY <1>1, HigherFrame DEF SameView
<1>3. \A u \in latest : release'[u].time = release[u].time
  BY <1>1 DEF SameView
<1>4. pc[q] \in Reported => Published(t) /\ release'[t].time = release[t].time
  BY <1>1 DEF JobInv, Trusts, SameView
<1>5. Drafts(q)' = Drafts(q)
  BY DEF Drafts
<1>6. pc[q] = "latestPatch" => \A u \in latest : GivesWay(u, t)' = GivesWay(u, t)
  BY <1>3, <1>4 DEF GivesWay, PublishedTime, Reported
<1>7. pc'[q] = "latestPatch" => \A u \in latest' : u # t /\ GivesWay(u, t)'
  BY <1>1, <1>6 DEF LatestJob
<1>8. pc'[q] = "done" /\ Plan[q].ref = "main" /\ Stable(t) /\ Higher(t)' = {} =>
          latest' # {} /\ \A u \in latest' : release'[u].time >= release'[t].time
  BY <1>1, <1>2, <1>3, <1>4 DEF LatestJob, Reported
<1> QED BY <1>1, <1>2, <1>5, <1>7, <1>8 DEF LatestJob

\* What is left to show of a step that publishes and marks nothing.
LEMMA LatestFrame ==
    ASSUME LatestInv, SameView, UNCHANGED <<latest, clock>>, latest \subseteq Tags,
           Serial', \A q \in Jobs : LatestJob(q)'
    PROVE  LatestInv'
<1>1. \A t \in Tags : Published(t)' => release'[t].time <= clock'
  BY DEF LatestInv, SameView
<1>2. ASSUME NEW u \in latest PROVE Marked(u)'
  <2>1. Marked(u) /\ u \in Tags
    BY DEF LatestInv
  <2>2. Higher(u)' = Higher(u) /\ \A v \in Higher(u) : v \in Tags /\ Published(v)
    BY <2>1, HigherFrame DEF Higher
  <2> QED BY <2>1, <2>2 DEF Marked, SameView
<1> QED BY <1>1, <1>2 DEF LatestInv

\* A job that goes on keeps the publication group.
LEMMA SerialKept ==
    ASSUME TypeOK, Serial, NEW j \in Jobs, pc[j] \in Calls,
           (\E l \in Steps : Goto(j, l)) \/ End(j, "failed") \/ End(j, "done")
    PROVE  Serial' /\ \A q \in Jobs \ {j} : pc'[q] = pc[q]
<1>1. \A q \in Jobs \ {j} : pc'[q] = pc[q] /\ pc[q] \notin Calls
  BY DEF Serial, Goto, End, TypeOK
<1>2. CASE \E l \in Steps : Goto(j, l)
  BY <1>1, <1>2 DEF Serial, Goto
<1>3. CASE End(j, "failed") \/ End(j, "done")
  <2>1. pc'[j] \notin Calls
    BY <1>3 DEF End, TypeOK, Calls
  <2> QED BY <1>1, <2>1 DEF Serial
<1> QED BY <1>2, <1>3

\* What holds of the mark holds at first.
LEMMA LatestInvInit == Init => LatestInv
<1> SUFFICES ASSUME Init PROVE LatestInv
  OBVIOUS
<1>1. ASSUME NEW t \in Tags PROVE ~Published(t)
  BY DEF Init, NoRelease, Published, Exists
<1>2. ASSUME NEW j \in Jobs PROVE LatestJob(j) /\ pc[j] \notin Calls
  <2>1. pc[j] = "new"
    BY DEF Init
  <2> QED BY <2>1 DEF LatestJob, Drafts, Drafting, Calls
<1>3. latest = {}
  BY DEF Init
<1> QED BY <1>1, <1>2, <1>3 DEF LatestInv, Serial

\* What a job learns of the mark.
LEMMA LookLatest ==
    ASSUME TypeOK, PublishInv, LatestInv, NEW j \in Jobs, Look(j) PROVE LatestInv'
<1> DEFINE t == TagOf(j)
<1>1. /\ UNCHANGED <<release, latest, clock>> /\ pc[j] \in Calls /\ t \in Tags
      /\ latest \subseteq Tags
  BY LookMoves, PlanTypes DEF githubVars, TypeOK
<1>2. SameView
  BY <1>1 DEF SameView, Published
<1>3. Serial' /\ \A q \in Jobs \ {j} : pc'[q] = pc[q]
  BY <1>1, LookMoves, SerialKept DEF LatestInv
<1>4. \A q \in Jobs \ {j} : public'[q] = public[q]
  BY DEF Look, FindRelease, CheckTarget, Revalidate, RecheckTag, CheckUpload, FreshDraft, TagBefore,
         RevalidateAgain, Confirm, LatestTag, LatestList, LatestRead, LatestConfirm, CallFails, jobVars, TypeOK
<1>5. \A q \in Jobs \ {j} : LatestJob(q)'
  BY <1>1, <1>2, <1>3, <1>4, LatestJobFrame
<1>6. LatestJob(j) /\ JobInv(j) /\ \A u \in latest : Marked(u) /\ u \in Tags
  BY <1>1 DEF LatestInv, PublishInv
<1>7. Higher(t)' = Higher(t) /\ Published(t)' = Published(t)
  BY <1>1, <1>2, HigherFrame DEF SameView
<1>8. \A u \in Tags : release[u].time \in Nat
  BY Released DEF TypeOK
<1>9. \A l : Goto(j, l) \/ End(j, l) => pc'[j] = l
  BY DEF Goto, End, TypeOK
<1>10. Drafts(j)' => ~Published(t)
  BY <1>6, LookJob DEF LatestJob
<1>11. pc'[j] \in {"latestTag", "failed"} \/ pc'[j] \notin Reported => LatestJob(j)'
  BY <1>7, <1>10 DEF LatestJob, Reported
<1>12. CASE LatestTag(j)
  <2>1. \/ pc'[j] = "done" /\ ~(Plan[j].ref = "main" /\ Stable(t))
        \/ pc'[j] = "failed"
        \/ pc'[j] = "latestList" /\ Plan[j].ref = "main" /\ Stable(t)
    BY <1>9, <1>12 DEF LatestTag, Require
  <2> QED BY <1>1, <1>2, <1>3, <1>5, <1>7, <1>10, <1>11, <2>1, LatestFrame DEF LatestJob
<1>13. CASE LatestList(j)
  <2>1. pc[j] = "latestList"
    BY <1>13 DEF LatestList, At
  <2>2. \/ pc'[j] = "done" /\ Higher(t) # {}
        \/ pc'[j] = "latestRead" /\ Higher(t) = {}
    BY <1>9, <1>13 DEF LatestList
  <2>3. LatestJob(j)'
    BY <1>6, <1>7, <1>10, <2>1, <2>2 DEF LatestJob
  <2> QED BY <1>1, <1>2, <1>3, <1>5, <2>3, LatestFrame
<1>14. CASE LatestRead(j)
  <2>1. pc[j] = "latestRead" /\ Plan[j].ref = "main" /\ Stable(t) /\ Higher(t) = {} /\ Published(t)
    BY <1>6, <1>14 DEF LatestRead, At, LatestJob, JobInv, Trusts, Reported
  <2>2. \/ pc'[j] = "latestPatch" /\ \A u \in latest : u # t /\ GivesWay(u, t)
        \/ pc'[j] = "done" /\ \E u \in latest : u = t \/ ~GivesWay(u, t)
    BY <1>9, <1>14 DEF LatestRead
  <2>3. ASSUME NEW u \in latest, u = t \/ ~GivesWay(u, t)
        PROVE  latest # {} /\ \A v \in latest : release[v].time >= release[t].time
    <3>1. Published(u) /\ Stable(u) /\ u \in Tags /\ \A v \in latest : v = u
      BY <1>6 DEF LatestInv, Marked
    <3>2. /\ u \in [unit : {"runtime", "vmlinux"}, num : Nat, preview : BOOLEAN]
          /\ t \in [unit : {"runtime", "vmlinux"}, num : Nat, preview : BOOLEAN]
      BY <1>1, <3>1, PlanAssumption
    <3>3. CASE u = t
      BY <1>1, <1>8, <3>1, <3>3
    <3>4. CASE u # t /\ u.unit # t.unit
      BY <1>1, <1>8, <2>3, <3>1, <3>4 DEF GivesWay, PublishedTime
    <3>5. CASE u # t /\ u.unit = t.unit
      <4>1. u.num > t.num
        <5>1. u.num \in Nat /\ t.num \in Nat /\ ~(u.num < t.num)
          BY <2>3, <3>2, <3>5 DEF GivesWay
        <5>2. u.num # t.num
          BY <2>1, <3>1, <3>2, <3>5 DEF Stable
        <5> QED BY <5>1, <5>2
      <4>2. ~release[u].prerelease
        BY <1>6 DEF Marked
      <4> QED BY <2>1, <3>1, <3>5, <4>1, <4>2 DEF Higher, Stable
    <3> QED BY <3>3, <3>4, <3>5
  <2>4. LatestJob(j)'
    <3>1. CASE pc'[j] = "latestPatch"
      <4>1. \A u \in latest : GivesWay(u, t)' = GivesWay(u, t)
        BY <1>1 DEF GivesWay, PublishedTime
      <4> QED BY <1>1, <1>7, <1>10, <2>1, <2>2, <3>1, <4>1 DEF LatestJob
    <3>2. CASE pc'[j] = "done"
      BY <1>1, <1>7, <1>10, <2>1, <2>2, <2>3, <3>2 DEF LatestJob
    <3> QED BY <2>2, <3>1, <3>2
  <2> QED BY <1>1, <1>2, <1>3, <1>5, <2>4, LatestFrame
<1>15. CASE LatestConfirm(j)
  <2>1. \/ pc'[j] = "done" /\ latest = {t}
        \/ pc'[j] = "failed"
    BY <1>9, <1>15 DEF LatestConfirm
  <2>2. LatestJob(j)'
    BY <1>1, <1>7, <1>8, <1>10, <1>11, <2>1 DEF LatestJob
  <2> QED BY <1>1, <1>2, <1>3, <1>5, <2>2, LatestFrame
<1>16. CASE ~(LatestTag(j) \/ LatestList(j) \/ LatestRead(j) \/ LatestConfirm(j))
  <2>1. pc'[j] \in {"latestTag", "failed"} \/ pc'[j] \notin Reported
    BY <1>9, <1>16 DEF Look, FindRelease, CheckTarget, Revalidate, RecheckTag, CheckUpload, FreshDraft,
         TagBefore, RevalidateAgain, Confirm, CallFails, Require, NextUpload, Reported
  <2> QED BY <1>1, <1>2, <1>3, <1>5, <1>11, <2>1, LatestFrame
<1> QED BY <1>12, <1>13, <1>14, <1>15, <1>16

\* A draft, its tag or its archives say nothing of the mark.
LEMMA DraftLatest ==
    ASSUME TypeOK, PublishInv, LatestInv, NEW j \in Jobs, CreateTag(j) \/ CreateDraft(j) \/ Upload(j)
    PROVE  LatestInv'
<1> DEFINE t == TagOf(j)
<1>1. /\ UNCHANGED <<latest, clock, public>> /\ t \in Tags /\ latest \subseteq Tags
      /\ pc[j] \in Calls /\ Drafts(j)
  BY PlanTypes DEF CreateTag, CreateDraft, Upload, jobVars, TypeOK, At, Calls, Drafts, Drafting
<1>2. /\ \E l \in Steps : Goto(j, l) \/ End(j, "failed")
      /\ pc'[j] \in {"recheckTag", "upload", "checkUpload", "failed"}
  <2>1. CASE CreateTag(j)
    BY <2>1, RespondMoves DEF CreateTag, Steps, Calls, Goto, End, TypeOK
  <2>2. CASE CreateDraft(j)
    BY <2>2, RespondMoves DEF CreateDraft, Steps, Calls, Goto, End, TypeOK
  <2>3. CASE Upload(j)
    <3>1. Goto(j, "checkUpload") \/ End(j, "failed")
      BY <2>3, RespondMoves DEF Upload, Steps, Calls
    <3> QED BY <3>1 DEF Steps, Calls, Goto, End, TypeOK
  <2> QED BY <2>1, <2>2, <2>3
<1>3. Serial' /\ \A q \in Jobs \ {j} : pc'[q] = pc[q]
  BY <1>1, <1>2, SerialKept DEF LatestInv
<1>4. ~Published(t)
  BY <1>1 DEF LatestInv, LatestJob
<1>5. ~Published(t)' /\ \A u \in Tags \ {t} : release'[u] = release[u]
  <2>1. CASE CreateTag(j)
    BY <1>4, <2>1 DEF CreateTag, Published
  <2>2. CASE CreateDraft(j)
    <3> DEFINE r == [NoRelease EXCEPT !.number = made[t] + 1, !.body = NotesOf(j),
                                      !.prerelease = t.preview, !.target = CommitOf(j)]
    <3>1. release' = [release EXCEPT ![t] = r]
      BY <2>2 DEF CreateDraft
    <3>2. r.draft
      BY DEF NoRelease
    <3> HIDE DEF r
    <3> QED BY <1>1, <3>1, <3>2 DEF TypeOK, Published
  <2>3. CASE Upload(j)
    <3> DEFINE Put(r, n, b) == [r EXCEPT !.assets[n] = [bytes |-> b, copy |-> 0]]
    <3>1. \A r \in Release, n \in Names, b \in {CommitOf(j), "partial"} :
             Put(r, n, b).draft = r.draft /\ Put(r, n, b).number = r.number
      BY DEF Release
    <3>2. \/ UNCHANGED release
          \/ \E n \in todo[j], b \in {CommitOf(j), "partial"} :
                release' = [release EXCEPT ![t] = Put(release[t], n, b)]
      BY <2>3 DEF Upload
    <3>3. release[t] \in Release /\ \A n \in todo[j] : n \in Names
      BY <1>1 DEF TypeOK
    <3> HIDE DEF Put
    <3>4. /\ release'[t].draft = release[t].draft /\ release'[t].number = release[t].number
          /\ \A u \in Tags \ {t} : release'[u] = release[u]
      BY <1>1, <3>1, <3>2, <3>3 DEF TypeOK
    <3> QED BY <1>4, <3>4 DEF Published, Exists
  <2> QED BY <2>1, <2>2, <2>3
<1>6. SameView
  BY <1>4, <1>5 DEF SameView, Published
<1>7. \A q \in Jobs \ {j} : LatestJob(q)'
  BY <1>1, <1>3, <1>6, LatestJobFrame
<1>8. LatestJob(j)'
  BY <1>2, <1>5 DEF LatestJob
<1> QED BY <1>1, <1>3, <1>6, <1>7, <1>8, LatestFrame

\* A run that starts keeps what holds of the mark.
LEMMA WorkflowLatest ==
    ASSUME TypeOK, PublishInv, LatestInv, NEW j \in Jobs, Workflow(j) PROVE LatestInv'
<1>1. UNCHANGED <<release, latest, clock, public>> /\ latest \subseteq Tags
  BY DEF Workflow, Preflight, Rerun, StartPublish, githubVars, jobVars, TypeOK
<1>2. /\ pc'[j] \in {"queued", "refused", "find"} /\ \A q \in Jobs \ {j} : pc'[q] = pc[q]
  BY WorkflowMoves DEF PublishInv
<1>3. SameView
  BY <1>1 DEF SameView, Published
<1>4. Serial'
  <2>1. CASE Preflight(j) \/ Rerun(j)
    <3>1. UNCHANGED publishing /\ pc'[j] \notin Calls
      BY <2>1 DEF Preflight, Rerun, Calls, TypeOK
    <3> QED BY <1>2, <3>1 DEF LatestInv, Serial
  <2>2. CASE StartPublish(j)
    <3>1. \A q \in Jobs : pc[q] \notin Calls
      BY <2>2, JobAssumption DEF StartPublish, LatestInv, Serial
    <3> QED BY <1>2, <2>2, <3>1 DEF StartPublish, Serial
  <2> QED BY <2>1, <2>2 DEF Workflow
<1>5. \A q \in Jobs \ {j} : LatestJob(q)'
  BY <1>1, <1>2, <1>3, LatestJobFrame
<1>6. LatestJob(j)'
  BY <1>2 DEF LatestJob, Drafts, Drafting
<1> QED BY <1>1, <1>3, <1>4, <1>5, <1>6, LatestFrame

\* Half an asset is deleted from a draft only.
LEMMA PartialLatest ==
    ASSUME TypeOK, PublishInv, LatestInv, NEW t \in Tags, DeletePartial(t) PROVE LatestInv'
<1>1. UNCHANGED <<latest, clock, public, pc, publishing>> /\ latest \subseteq Tags
  BY DEF DeletePartial, jobVars, TypeOK
<1>2. /\ \A u \in Tags \ {t} : release'[u] = release[u]
      /\ ~Published(t) /\ ~Published(t)'
  BY PeopleMove
<1>3. SameView
  BY <1>2 DEF SameView, Published
<1>4. Serial' /\ \A q \in Jobs : LatestJob(q)'
  BY <1>1, <1>3, LatestJobFrame DEF LatestInv, Serial
<1> QED BY <1>1, <1>3, <1>4, LatestFrame

\* A publication is the newest one; nothing marked is overtaken by an older one.
LEMMA UndraftLatest ==
    ASSUME TypeOK, PublishInv, LatestInv, NEW j \in Jobs, Undraft(j) PROVE LatestInv'
<1> DEFINE t == TagOf(j)
<1>1. /\ UNCHANGED <<latest, public>> /\ pc[j] = "undraft" /\ Drafts(j) /\ t \in Tags /\ latest \subseteq Tags
      /\ t.preview \in BOOLEAN /\ Same(j)
  <2>1. JobInv(j)
    BY DEF PublishInv
  <2> QED BY <2>1, PlanTypes DEF Undraft, jobVars, At, Drafts, Drafting, TypeOK, JobInv, LastLook
<1>2. Goto(j, "confirm") \/ End(j, "failed")
  BY RespondMoves DEF Undraft, Steps, Calls
<1>3. Serial' /\ \A q \in Jobs \ {j} : pc'[q] = pc[q]
  BY <1>1, <1>2, SerialKept DEF LatestInv, Steps, Calls
<1>4. ~Published(t) /\ \A q \in Jobs \ {j} : pc[q] \notin Calls
  BY <1>1 DEF LatestInv, LatestJob, Serial, Calls
<1>5. MakePublic(t, t.preview, TRUE)
  BY <1>1 DEF Undraft
<1>6. PICK tick \in {0, 1} :
        /\ clock' = clock + tick
        /\ release' = [release EXCEPT ![t].draft = FALSE, ![t].prerelease = t.preview,
                                      ![t].time = clock + tick, ![t].verified = TRUE]
  BY <1>5 DEF MakePublic
<1>7. /\ \A u \in Tags \ {t} : release'[u] = release[u]
      /\ release'[t].time = clock' /\ clock \in Nat /\ clock' \in Nat /\ clock <= clock'
  <2> DEFINE r == release[t]
             s == [r EXCEPT !.draft = FALSE, !.prerelease = t.preview, !.time = clock + tick, !.verified = TRUE]
  <2>1. release' = [release EXCEPT ![t] = s]
    BY <1>6
  <2>2. s.time = clock + tick
    BY <1>1 DEF Release, TypeOK
  <2> HIDE DEF s
  <2>3. release'[t] = s /\ \A u \in Tags \ {t} : release'[u] = release[u]
    BY <1>1, <2>1 DEF TypeOK
  <2> QED BY <1>6, <2>2, <2>3 DEF TypeOK
<1>8. \A u \in Tags \ {t} : Published(u)' = Published(u)
  BY <1>7 DEF Published
<1>9. \A u \in Tags : Higher(u) \subseteq Higher(u)' /\ Higher(u)' \subseteq Higher(u) \cup {t}
  BY <1>1, <1>4, <1>7, <1>8 DEF Higher
<1>10. ASSUME NEW u \in Tags, Published(u)' PROVE release'[u].time <= clock' /\ release'[u].time \in Nat
  <2>1. CASE u = t
    BY <1>7, <2>1
  <2>2. CASE u # t
    <3>1. release[u].time \in Nat /\ release[u].time <= clock
      BY <1>8, <1>10, <2>2, Released DEF TypeOK, LatestInv
    <3> QED BY <1>7, <2>2, <3>1
  <2> QED BY <2>1, <2>2
<1>11. ASSUME NEW u \in latest PROVE Marked(u)' /\ u # t
  <2>1. Marked(u) /\ u # t /\ u \in Tags
    BY <1>4 DEF LatestInv, Marked, TypeOK
  <2>2. release'[u] = release[u] /\ Published(u)'
    BY <1>7, <1>8, <2>1 DEF Marked
  <2>3. ASSUME NEW v \in Higher(u)' PROVE release'[v].time >= release'[u].time
    <3>1. CASE v = t
      <4>1. release[u].time <= clock /\ release[u].time \in Nat
        BY <2>1, Released DEF LatestInv, Marked, TypeOK
      <4> QED BY <1>7, <2>2, <3>1, <4>1
    <3>2. CASE v # t
      BY <1>7, <1>9, <2>1, <2>2, <2>3, <3>2 DEF Marked, Higher
    <3> QED BY <3>1, <3>2
  <2> QED BY <2>1, <2>2, <2>3 DEF Marked
<1>12. ASSUME NEW q \in Jobs, q # j PROVE LatestJob(q)'
  <2>1. pc'[q] = pc[q] /\ pc[q] \notin Calls /\ LatestJob(q) /\ JobInv(q) /\ TagOf(q) \in Tags
    BY <1>3, <1>4, <1>12, PlanTypes DEF LatestInv, PublishInv
  <2>2. ~Drafts(q)'
    BY <2>1 DEF Drafts, Drafting, Calls
  <2>3. pc[q] = "done" => TagOf(q) # t
    BY <1>4, <2>1 DEF JobInv, Trusts, Reported
  <2>4. pc[q] = "done" => release'[TagOf(q)] = release[TagOf(q)] /\ (Higher(TagOf(q))' = {} => Higher(TagOf(q)) = {})
    BY <1>7, <1>9, <2>1, <2>3
  <2>5. \A u \in latest : release'[u] = release[u]
    BY <1>1, <1>7, <1>11
  <2> QED BY <1>1, <2>1, <2>2, <2>4, <2>5 DEF LatestJob, Calls
<1>13. LatestJob(j)'
  <2>1. pc'[j] \in {"confirm", "failed"}
    BY <1>2 DEF Goto, End, TypeOK
  <2> QED BY <2>1 DEF LatestJob, Drafts, Drafting
<1> QED BY <1>1, <1>3, <1>10, <1>11, <1>12, <1>13 DEF LatestInv

\* The mark moves to a version published no earlier than those before it.
LEMMA PatchLatest ==
    ASSUME TypeOK, PublishInv, LatestInv, NEW j \in Jobs, LatestPatch(j) PROVE LatestInv'
<1> DEFINE t == TagOf(j)
<1>1. UNCHANGED <<release, clock, public>> /\ pc[j] = "latestPatch" /\ latest' = {t} /\ t \in Tags
  BY PlanTypes DEF LatestPatch, jobVars, At
<1>2. Goto(j, "latestConfirm") \/ End(j, "failed")
  BY RespondMoves DEF LatestPatch, Steps, Calls
<1>3. Serial' /\ \A q \in Jobs \ {j} : pc'[q] = pc[q]
  BY <1>1, <1>2, SerialKept DEF LatestInv, Steps, Calls
<1>4. \A q \in Jobs \ {j} : pc[q] \notin Calls
  BY <1>1 DEF LatestInv, Serial, Calls
<1>5. \A u \in Tags : Higher(u)' = Higher(u) /\ Published(u)' = Published(u)
  BY <1>1 DEF Higher, Published
<1>6. /\ Stable(t) /\ Plan[j].ref = "main" /\ Higher(t) = {} /\ \A u \in latest : GivesWay(u, t)
      /\ Published(t) /\ ~release[t].prerelease
  BY <1>1 DEF LatestInv, LatestJob, PublishInv, JobInv, Trusts, Reported, Stable
<1>7. Marked(t)'
  BY <1>1, <1>5, <1>6 DEF Marked
<1>8. \A u \in Tags : release[u].time \in Nat
  BY Released DEF TypeOK
<1>9. ASSUME NEW u \in latest PROVE release[t].time >= release[u].time
  <2>1. Marked(u) /\ u \in Tags /\ GivesWay(u, t)
    BY <1>6 DEF LatestInv, TypeOK
  <2>2. CASE u.unit = t.unit
    <3>1. t \in Higher(u)
      <4>1. /\ u \in [unit : {"runtime", "vmlinux"}, num : Nat, preview : BOOLEAN]
            /\ t \in [unit : {"runtime", "vmlinux"}, num : Nat, preview : BOOLEAN]
        BY <1>1, <2>1, PlanAssumption
      <4>2. t.num > u.num
        BY <2>1, <2>2, <4>1 DEF GivesWay
      <4> QED BY <1>1, <1>6, <2>2, <4>2 DEF Higher
    <3> QED BY <2>1, <3>1 DEF Marked
  <2>3. CASE u.unit # t.unit
    BY <1>1, <1>8, <2>1, <2>3 DEF GivesWay, PublishedTime
  <2> QED BY <2>2, <2>3
<1>10. ASSUME NEW q \in Jobs, q # j PROVE LatestJob(q)'
  <2>1. pc'[q] = pc[q] /\ pc[q] \notin Calls /\ LatestJob(q) /\ TagOf(q) \in Tags
    BY <1>3, <1>4, <1>10, PlanTypes DEF LatestInv
  <2>2. ~Drafts(q)'
    BY <2>1 DEF Drafts, Drafting, Calls
  <2>3. ASSUME pc[q] = "done", Plan[q].ref = "main", Stable(TagOf(q)), Higher(TagOf(q)) = {}
        PROVE  release[t].time >= release[TagOf(q)].time
    <3>1. PICK u \in latest : release[u].time >= release[TagOf(q)].time
      BY <2>1, <2>3 DEF LatestJob
    <3>2. u \in Tags /\ release[t].time >= release[u].time
      BY <1>9 DEF TypeOK
    <3> QED BY <1>1, <1>8, <2>1, <3>1, <3>2
  <2> QED BY <1>1, <1>5, <2>1, <2>2, <2>3 DEF LatestJob, Calls
<1>11. LatestJob(j)'
  <2>1. pc'[j] \in {"latestConfirm", "failed"}
    BY <1>2 DEF Goto, End, TypeOK
  <2> QED BY <1>6, <2>1 DEF LatestJob, Drafts, Drafting
<1>12. \A u \in Tags : Published(u)' => release'[u].time <= clock'
  BY <1>1, <1>5 DEF LatestInv
<1> QED BY <1>1, <1>3, <1>7, <1>10, <1>11, <1>12 DEF LatestInv

\* As long as nobody has edited anything by hand.
LatestAlways == edits = 0 => LatestInv

\* Every step keeps what holds of the mark.
LEMMA LatestStepKeeps == TypeOK /\ PublishInv /\ LatestAlways /\ [Next]_vars => LatestAlways'
<1> SUFFICES ASSUME TypeOK, PublishInv, edits = 0 => LatestInv, [Next]_vars, edits' = 0 PROVE LatestInv'
  BY DEF LatestAlways
<1>1. CASE UNCHANGED vars
  <2>1. UNCHANGED <<release, latest, clock, publishing, pc, public, edits>> /\ latest \subseteq Tags
    BY <1>1 DEF vars, TypeOK
  <2>2. LatestInv /\ SameView
    BY <2>1 DEF SameView, Published
  <2>3. Serial' /\ \A q \in Jobs : LatestJob(q)'
    BY <2>1, <2>2, LatestJobFrame DEF LatestInv, Serial
  <2> QED BY <2>1, <2>2, <2>3, LatestFrame
<1>2. ASSUME NEW j \in Jobs, Publisher(j) \/ Workflow(j) \/ CallFails(j) PROVE LatestInv'
  <2>1. UNCHANGED edits
    <3>1. CASE Look(j)
      BY <3>1, LookMoves
    <3>2. CASE CreateTag(j) \/ CreateDraft(j) \/ Upload(j) \/ Undraft(j) \/ LatestPatch(j) \/ Workflow(j)
      BY <3>2 DEF CreateTag, CreateDraft, Upload, Undraft, LatestPatch, Workflow, Preflight, Rerun, StartPublish
    <3> QED BY <1>2, <3>1, <3>2 DEF Publisher, DraftStep, PublicStep, LatestStep, Look
  <2> QED BY <1>2, <2>1, LookLatest, DraftLatest, WorkflowLatest, UndraftLatest, PatchLatest
          DEF Publisher, DraftStep, PublicStep, LatestStep, Look
<1>3. ASSUME NEW t \in Tags, People(t) PROVE FALSE
  <2>1. edits' = edits + 1
    BY <1>3 DEF People, EditNotes, EditAsset, DraftByHand, DeleteDraft, MoveTag, PublishByHand, Edit
  <2> QED BY <2>1, BoundAssumption DEF TypeOK
<1>4. ASSUME NEW t \in Tags, DeletePartial(t) PROVE LatestInv'
  BY <1>4, PartialLatest DEF DeletePartial
<1> QED BY <1>1, <1>2, <1>3, <1>4 DEF Next

\* What holds of the mark holds throughout.
THEOREM LatestInvCorrect == Spec => []LatestAlways
<1>1. Init => LatestAlways
  BY LatestInvInit DEF LatestAlways
<1> QED BY <1>1, PublishInvCorrect, LatestStepKeeps, PTL DEF Spec

\* When all jobs have ended well, Latest is marked and no older than any Stable
\* from main that heads its unit; as long as nobody edits anything by hand.
THEOREM LatestCurrent == Spec => [](edits = 0 => LatestIsCurrent)
<1>1. LatestAlways => (edits = 0 => LatestIsCurrent)
  BY DEF LatestAlways, LatestInv, LatestJob, LatestIsCurrent, At
<1> QED BY <1>1, LatestInvCorrect, PTL

\* Latest never falls back, as long as nobody edits anything by hand.
THEOREM LatestAdvancing == Spec /\ [](edits = 0) => LatestAdvances
<1>1. ASSUME LatestInv, Next, edits' = 0, TypeOK, latest' # latest
      PROVE  \A t \in latest' : Higher(t) = {} /\ \A u \in latest : GivesWay(u, t)
  <2>1. PICK j \in Jobs : LatestPatch(j)
    <3>1. ASSUME NEW j \in Jobs, Publisher(j) \/ Workflow(j) \/ CallFails(j), ~LatestPatch(j) PROVE FALSE
      <4>1. CASE Look(j)
        BY <1>1, <4>1, LookMoves DEF githubVars
      <4>2. CASE ~Look(j)
        BY <1>1, <3>1, <4>2 DEF Publisher, DraftStep, PublicStep, LatestStep, Look, CreateTag, CreateDraft, Upload,
                    Undraft, Workflow, Preflight, Rerun, StartPublish, githubVars
      <4> QED BY <4>1, <4>2
    <3>2. ASSUME NEW t \in Tags, People(t) \/ DeletePartial(t) PROVE FALSE
      BY <1>1, <3>2 DEF People, EditNotes, EditAsset, DraftByHand, DeleteDraft, MoveTag, PublishByHand, DeletePartial
    <3> QED BY <1>1, <3>1, <3>2 DEF Next
  <2>2. pc[j] = "latestPatch" /\ latest' = {TagOf(j)}
    BY <2>1 DEF LatestPatch, At
  <2> QED BY <1>1, <2>2 DEF LatestInv, LatestJob
<1>2. LatestAlways /\ TypeOK /\ edits = 0 /\ (edits = 0)' /\ [Next]_vars =>
        [latest' # latest => \A t \in latest' :
            /\ Higher(t) = {}
            /\ \A u \in latest : GivesWay(u, t)]_vars
  BY <1>1 DEF LatestAlways
<1> QED BY <1>2, LatestInvCorrect, TypeCorrect, PTL DEF Spec, LatestAdvances
====
