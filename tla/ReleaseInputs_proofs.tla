--------------------------- MODULE ReleaseInputs_proofs ---------------------------
(***************************************************************************)
(* Proofs of what a release run goes through before and while it           *)
(* publishes, one component after another: the admission of a Preview, the *)
(* release bundle, the preparation of sandbox-init, the crypto catalog and *)
(* the Runtime bundle.                                                     *)
(***************************************************************************)
EXTENDS SelectedInit, CryptoCatalog, ReleaseBundle, PreviewLine, RuntimeBundle, TLAPS

(***************************************************************************)
(* PreviewLine.  A run knows where on a branch it has seen its commit and  *)
(* where it has read the manifest; pushes only add positions behind.       *)
(***************************************************************************)

\* What a run may be at.
LineSteps == {"start", "look", "read", "again", "select", "stable", "write", "staged", "once",
              "passed", "failed"}
LineTypes ==
    /\ head \in [Branches -> Nat] /\ \A b \in Branches : head[b] <= Len(History[b])
    /\ at \in [Runs -> LineSteps]
    /\ DOMAIN looking = Runs /\ DOMAIN text = Runs /\ DOMAIN digest = Runs

\* The commit asked for is behind or at the head of the branch looked at.
SawCommit(r, k) ==
    /\ looking[r] \in Branches /\ k \in 1 .. head[looking[r]]
    /\ History[looking[r]][k] = InputOf(r).sha

\* The manifest is that of a commit the branch has been at since.
ReadAt(r, m) == text[r] = Manifest[History[looking[r]][m]]

Asked(r) == Manifest[InputOf(r).sha]

RunInv(r) ==
    /\ at[r] \notin {"start", "failed"} /\ InputOf(r).tag.preview =>
          InputOf(r).sha \in DOMAIN Manifest
    /\ at[r] \notin {"start", "failed", "passed"} => InputOf(r).tag.preview
    /\ at[r] = "look" => looking[r] \in Branches
    /\ at[r] = "read" => \E k \in Nat : SawCommit(r, k)
    /\ at[r] = "again" => \E k, m \in Nat : /\ SawCommit(r, k) /\ ReadAt(r, m)
                                            /\ k <= m /\ m <= head[looking[r]]
    /\ at[r] \in {"select", "stable", "write"} => text[r] = Asked(r)
    /\ at[r] \in {"stable", "write", "passed"} /\ InputOf(r).tag.preview =>
          Selects(Asked(r), InputOf(r))
    /\ digest[r] \in {NoEvidence, <<InputOf(r), Asked(r)>>}

PlatformInv ==
    /\ DOMAIN platform = {"step", "observed", "fetched"}
    /\ platform.step = "yield" => platform.fetched = platform.observed

LineInv == LineTypes /\ (\A r \in Runs : RunInv(r)) /\ PlatformInv

\* A branch is at each of its commits once.
LEMMA HistoryFacts ==
    ASSUME NEW b \in Branches
    PROVE  /\ Len(History[b]) \in Nat
           /\ \A i \in 1 .. Len(History[b]) : History[b][i] \in DOMAIN Manifest
           /\ \A i, j \in 1 .. Len(History[b]) : History[b][i] = History[b][j] => i = j
BY HistoryAssumption DEF IsInjective

\* It holds at first.
LEMMA LineInvInit == LineInit => LineInv
<1> SUFFICES ASSUME LineInit PROVE LineInv
  OBVIOUS
<1>1. \A b \in Branches : head[b] \in Nat /\ head[b] <= Len(History[b])
  <2>1. 1 <= Len(History["main"])
    BY HistoryAssumption
  <2>2. \A b \in Branches : Len(History[b]) \in Nat
    BY HistoryFacts
  <2> QED BY <2>1, <2>2 DEF LineInit
<1>2. LineTypes
  BY <1>1, HistoryAssumption DEF LineInit, LineTypes, LineSteps
<1> QED BY <1>2 DEF LineInit, LineInv, RunInv, PlatformInv

\* A step of a run leaves the notes of the others alone.
LEMMA OtherRuns ==
    ASSUME NEW q \in Runs, RunInv(q), UNCHANGED head,
           at'[q] = at[q], looking'[q] = looking[q], text'[q] = text[q], digest'[q] = digest[q]
    PROVE  RunInv(q)'
BY DEF RunInv, SawCommit, ReadAt, Asked

\* A run that fails keeps its digest.
LEMMA RunFailed ==
    ASSUME NEW r \in Runs, LineInv, RunInv(r), at'[r] = "failed", digest'[r] = digest[r]
    PROVE  RunInv(r)'
BY DEF RunInv, Asked

\* Only a Preview of a full commit goes on to the branches.
LEMMA LineArguments == LineInv /\ (\E r \in Runs : Arguments(r)) => LineInv'
<1> SUFFICES ASSUME LineInv, NEW r \in Runs, Arguments(r) PROVE LineInv'
  OBVIOUS
<1> USE DEF LineInv
<1>1. LineTypes'
  BY HistoryAssumption DEF LineTypes, Arguments, Turn, runVars, LineSteps
<1>2. RunInv(r)'
  BY HistoryAssumption DEF LineTypes, Arguments, Turn, WellFormed, RunInv, Asked, runVars
<1>3. \A q \in Runs \ {r} : RunInv(q)'
  BY OtherRuns DEF LineTypes, Arguments, Turn, runVars
<1> QED BY <1>1, <1>2, <1>3 DEF Arguments, PlatformInv

\* A run that goes on to read has seen the commit at the head.
LEMMA LineLook == LineInv /\ (\E r \in Runs : Look(r)) => LineInv'
<1> SUFFICES ASSUME LineInv, NEW r \in Runs, Look(r) PROVE LineInv'
  OBVIOUS
<1> USE DEF LineInv
<1>1. LineTypes'
  BY HistoryAssumption DEF LineTypes, Look, Turn, runVars, LineSteps
<1>2. RunInv(r)'
  <2>1. CASE HeadOf(looking[r]) = InputOf(r).sha
    <3>1. SawCommit(r, head[looking[r]])
      <4>1. at[r] = "look" /\ RunInv(r)
        BY DEF Look
      <4>2. looking[r] \in Branches /\ InputOf(r).sha \in DOMAIN Manifest
        BY <4>1 DEF RunInv
      <4>3. HeadOf(looking[r]) # "none"
        BY <2>1, <4>2, HistoryAssumption
      <4> QED BY <2>1, <4>2, <4>3 DEF LineTypes, SawCommit, HeadOf
    <3>2. SawCommit(r, head[looking[r]])' /\ head[looking[r]] \in Nat
      BY <2>1, <3>1 DEF Look, SawCommit, LineTypes
    <3> QED BY <2>1, <3>2 DEF LineTypes, Look, Turn, RunInv, Asked, runVars
  <2>2. CASE HeadOf(looking[r]) # InputOf(r).sha
    BY <2>2 DEF LineTypes, Look, Turn, RunInv, Asked, runVars
  <2> QED BY <2>1, <2>2
<1>3. \A q \in Runs \ {r} : RunInv(q)'
  BY OtherRuns DEF LineTypes, Look, Turn, runVars
<1> QED BY <1>1, <1>2, <1>3 DEF Look, PlatformInv

\* It reads the manifest of the head, no earlier than it saw the commit.
LEMMA LineReadManifest == LineInv /\ (\E r \in Runs : ReadManifest(r)) => LineInv'
<1> SUFFICES ASSUME LineInv, NEW r \in Runs, ReadManifest(r) PROVE LineInv'
  OBVIOUS
<1> USE DEF LineInv
<1> DEFINE b == looking[r]
           h == head[b]
<1>1. PICK k \in Nat : SawCommit(r, k)
  BY DEF ReadManifest, Turn, RunInv
<1>2. b \in Branches /\ h \in Nat /\ k <= h /\ 1 <= k /\ h <= Len(History[b])
  BY <1>1 DEF SawCommit, LineTypes
<1>3. HeadOf(b) = History[b][h] /\ HeadOf(b) \in DOMAIN Manifest
  BY <1>2, HistoryFacts DEF HeadOf
<1>4. LineTypes'
  BY <1>3 DEF LineTypes, ReadManifest, Turn, LineSteps
<1>5. RunInv(r)'
  <2>1. SawCommit(r, k)' /\ ReadAt(r, h)'
    BY <1>1, <1>3 DEF SawCommit, ReadAt, LineTypes, ReadManifest
  <2> QED BY <1>2, <2>1 DEF LineTypes, ReadManifest, Turn, RunInv, Asked
<1>6. \A q \in Runs \ {r} : RunInv(q)'
  BY OtherRuns DEF LineTypes, ReadManifest, Turn
<1> QED BY <1>4, <1>5, <1>6 DEF ReadManifest, PlatformInv

\* If the branch is at the commit still, it was so when the manifest was read:
\* a position between two of the same commit is that commit's.
LEMMA LineHeadAgain == LineInv /\ (\E r \in Runs : HeadAgain(r)) => LineInv'
<1> SUFFICES ASSUME LineInv, NEW r \in Runs, HeadAgain(r) PROVE LineInv'
  OBVIOUS
<1> USE DEF LineInv
<1> DEFINE b == looking[r]
           h == head[b]
<1>1. PICK k, m \in Nat : SawCommit(r, k) /\ ReadAt(r, m) /\ k <= m /\ m <= h
  BY DEF HeadAgain, RunInv
<1>2. b \in Branches /\ h \in Nat /\ k <= h /\ 1 <= k /\ h <= Len(History[b])
  BY <1>1 DEF SawCommit, LineTypes
<1>3. LineTypes'
  BY DEF LineTypes, HeadAgain, Turn, LineSteps, runVars
<1>4. HeadOf(b) = InputOf(r).sha => text[r] = Asked(r)
  <2>1. SUFFICES ASSUME HeadOf(b) = InputOf(r).sha PROVE text[r] = Asked(r)
    OBVIOUS
  <2>2. History[b][h] = History[b][k]
    BY <1>1, <1>2, <2>1 DEF HeadOf, SawCommit
  <2>3. h = k
    BY <1>2, <2>2, HistoryFacts
  <2> QED BY <1>1, <1>2, <2>3 DEF ReadAt, SawCommit, Asked
<1>5. RunInv(r)'
  BY <1>4 DEF LineTypes, HeadAgain, Turn, RunInv, Asked, runVars
<1>6. \A q \in Runs \ {r} : RunInv(q)'
  BY OtherRuns DEF LineTypes, HeadAgain, Turn, runVars
<1> QED BY <1>3, <1>5, <1>6 DEF HeadAgain, PlatformInv

\* The manifest is compared with the request.
LEMMA LineSelect == LineInv /\ (\E r \in Runs : Select(r)) => LineInv'
<1> SUFFICES ASSUME LineInv, NEW r \in Runs, Select(r) PROVE LineInv'
  OBVIOUS
<1> USE DEF LineInv
<1>1. LineTypes'
  BY DEF LineTypes, Select, Turn, LineSteps, runVars
<1>2. RunInv(r)'
  BY DEF LineTypes, Select, Turn, RunInv, Asked, runVars
<1>3. \A q \in Runs \ {r} : RunInv(q)'
  BY OtherRuns DEF LineTypes, Select, Turn, runVars
<1> QED BY <1>1, <1>2, <1>3 DEF Select, PlatformInv

\* The Stable of the line is looked for.
LEMMA LineCheckStable == LineInv /\ (\E r \in Runs : CheckStable(r)) => LineInv'
<1> SUFFICES ASSUME LineInv, NEW r \in Runs, CheckStable(r) PROVE LineInv'
  OBVIOUS
<1> USE DEF LineInv
<1>1. LineTypes'
  BY DEF LineTypes, CheckStable, Turn, LineSteps, runVars
<1>2. RunInv(r)'
  BY DEF LineTypes, CheckStable, Turn, RunInv, Asked, runVars
<1>3. \A q \in Runs \ {r} : RunInv(q)'
  BY OtherRuns DEF LineTypes, CheckStable, Turn, runVars
<1> QED BY <1>1, <1>2, <1>3 DEF CheckStable, PlatformInv

\* The evidence is of the manifest that was compared.
LEMMA LineWriteEvidence == LineInv /\ (\E r \in Runs : WriteEvidence(r)) => LineInv'
<1> SUFFICES ASSUME LineInv, NEW r \in Runs, WriteEvidence(r) PROVE LineInv'
  OBVIOUS
<1> USE DEF LineInv
<1>1. LineTypes'
  BY DEF LineTypes, WriteEvidence, Turn, LineSteps
<1>2. RunInv(r)'
  BY DEF LineTypes, WriteEvidence, Turn, RunInv, Asked
<1>3. \A q \in Runs \ {r} : RunInv(q)'
  BY OtherRuns DEF LineTypes, WriteEvidence, Turn
<1> QED BY <1>1, <1>2, <1>3 DEF WriteEvidence, PlatformInv

\* Evidence that has the trusted digest is what the first run wrote.
LEMMA LineRevalidate == LineInv /\ (\E r \in Runs : Revalidate(r)) => LineInv'
<1> SUFFICES ASSUME LineInv, NEW r \in Runs, Revalidate(r) PROVE LineInv'
  OBVIOUS
<1> USE DEF LineInv
<1>3. LineTypes'
  BY DEF LineTypes, Revalidate, Turn, LineSteps
<1>4. evidence[r] = digest[r] => evidence[r][2] = Asked(r)
  BY DEF RunInv, Revalidate
<1>5. RunInv(r)'
  BY <1>4 DEF LineTypes, Revalidate, Turn, RunInv, Asked
<1>6. \A q \in Runs \ {r} : RunInv(q)'
  BY OtherRuns DEF LineTypes, Revalidate, Turn
<1> QED BY <1>3, <1>5, <1>6 DEF Revalidate, PlatformInv

\* A run that fails shows nothing.
LEMMA LineRunFails == LineInv /\ (\E r \in Runs : RunFails(r)) => LineInv'
<1> SUFFICES ASSUME LineInv, NEW r \in Runs, RunFails(r) PROVE LineInv'
  OBVIOUS
<1> USE DEF LineInv
<1>1. LineTypes'
  BY DEF LineTypes, RunFails, LineSteps, runVars
<1>2. RunInv(r)'
  BY RunFailed DEF LineTypes, RunFails, runVars
<1>3. \A q \in Runs \ {r} : RunInv(q)'
  BY OtherRuns DEF LineTypes, RunFails, runVars
<1> QED BY <1>1, <1>2, <1>3 DEF RunFails, PlatformInv

\* The checkout of the workflow tests touches no run.
LEMMA LinePlatform == LineInv /\ (Observe \/ Fetch \/ Compare) => LineInv'
<1> SUFFICES ASSUME LineInv, Observe \/ Fetch \/ Compare PROVE LineInv'
  OBVIOUS
<1> USE DEF LineInv
<1>1. UNCHANGED <<head, at, looking, text, evidence, digest>>
  BY DEF Observe, Fetch, Compare, runVars
<1>2. LineTypes'
  BY <1>1 DEF LineTypes
<1>3. \A q \in Runs : RunInv(q)'
  BY <1>1, OtherRuns
<1>4. PlatformInv'
  <2>1. CASE Observe
    BY <2>1 DEF PlatformInv, Observe
  <2>2. CASE Fetch
    BY <2>2 DEF PlatformInv, Fetch
  <2>3. CASE Compare
    BY <2>3 DEF PlatformInv, Compare
  <2> QED BY <2>1, <2>2, <2>3
<1> QED BY <1>2, <1>3, <1>4

\* A branch that advances leaves behind it what was seen of it.
LEMMA LinePush == LineInv /\ (\E b \in Branches : Push(b)) => LineInv'
<1> SUFFICES ASSUME LineInv, NEW b \in Branches, Push(b) PROVE LineInv'
  OBVIOUS
<1> USE DEF LineInv
<1>1. LineTypes'
  <2>1. head' = [head EXCEPT ![b] = @ + 1] /\ head[b] < Len(History[b])
    BY DEF Push
  <2>2. head' \in [Branches -> Nat] /\ \A c \in Branches : head'[c] <= Len(History[c])
    BY <2>1, HistoryFacts DEF LineTypes
  <2> QED BY <2>2 DEF LineTypes, Push, Move
<1>2. \A c \in Branches : head[c] \in Nat /\ head'[c] \in Nat /\ head[c] <= head'[c]
  BY DEF LineTypes, Push
<1>3. ASSUME NEW q \in Runs PROVE RunInv(q)'
  <2>1. \A k \in Nat : SawCommit(q, k) => SawCommit(q, k)'
    BY <1>2 DEF SawCommit, Push, Move
  <2>2. \A m \in Nat : ReadAt(q, m) => ReadAt(q, m)'
    BY DEF ReadAt, Push, Move
  <2>3. \A m, k \in Nat : SawCommit(q, k) /\ m <= head[looking[q]] => m <= head'[looking'[q]]
    BY <1>2 DEF SawCommit, Push, Move
  <2>4. UNCHANGED <<at, looking, text, digest>>
    BY DEF Push, Move
  <2>5. RunInv(q)
    OBVIOUS
  <2>6. at[q] = "again" => (\E k, m \in Nat : /\ SawCommit(q, k) /\ ReadAt(q, m)
                                              /\ k <= m /\ m <= head[looking[q]])'
    BY <2>1, <2>2, <2>3, <2>4, <2>5 DEF RunInv
  <2>7. at[q] = "read" => (\E k \in Nat : SawCommit(q, k))'
    BY <2>1, <2>4, <2>5 DEF RunInv
  <2> QED BY <2>4, <2>5, <2>6, <2>7 DEF RunInv, Asked
<1> QED BY <1>1, <1>3 DEF Push, Move, PlatformInv

\* Closed lines and mixed up evidence change nothing that a run knows.
LEMMA LineOthers == LineInv /\ (CloseLine \/ \E r \in Runs : MixUp(r)) => LineInv'
<1> SUFFICES ASSUME LineInv, CloseLine \/ \E r \in Runs : MixUp(r) PROVE LineInv'
  OBVIOUS
<1> USE DEF LineInv
<1>1. UNCHANGED <<head, at, looking, text, digest, platform>>
  BY DEF CloseLine, MixUp, Move
<1>3. \A q \in Runs : RunInv(q)'
  BY <1>1, OtherRuns
<1> QED BY <1>1, <1>3 DEF LineTypes, PlatformInv

\* A Preview that passes is selected by the manifest of its own commit, for any
\* number of runs, branches and pushes, whatever becomes of the evidence.
THEOREM PreviewLineCorrect == LineSpec => []PassedIsSelected
<1>1. LineInv /\ [LineNext]_lineVars => LineInv'
  <2> SUFFICES ASSUME LineInv, [LineNext]_lineVars PROVE LineInv'
    OBVIOUS
  <2>1. CASE UNCHANGED lineVars
    <3>1. \A q \in Runs : RunInv(q)'
      BY <2>1, OtherRuns DEF lineVars, LineInv
    <3> QED BY <2>1, <3>1 DEF lineVars, LineInv, LineTypes, PlatformInv
  <2> QED BY <2>1, LineArguments, LineLook, LineReadManifest, LineHeadAgain, LineSelect,
             LineCheckStable, LineWriteEvidence, LineRevalidate, LineRunFails, LinePlatform,
             LinePush, LineOthers DEF LineNext, LineRun
<1>2. LineInv => PassedIsSelected
  BY DEF LineInv, RunInv, PlatformInv, PassedIsSelected, Asked
<1> QED BY LineInvInit, <1>1, <1>2, PTL DEF LineSpec

(***************************************************************************)
(* ReleaseBundle.  While a validation runs, a file that is as it was at the*)
(* beginning is the file that was copied and judged, since no write brings *)
(* back earlier bytes.                                                     *)
(***************************************************************************)

BundleFile == [fits : Arches \cup {"absent", "odd", "neither"}, copy : Nat]
BundleFiles == [Arches -> BundleFile]
BundleSet == [there : BOOLEAN, files : BundleFiles, extra : BOOLEAN,
              notes : {"notes", "edited", "odd"}]

BundleTypes ==
    /\ request \in Requests /\ stage \in {"assemble", "publish"}
    /\ bundle \in [Dirs -> BundleSet] /\ checking \in Dirs
    /\ before \in BundleFiles /\ view \in BundleFiles
    /\ expected \in BundleFiles /\ remote \in BundleFiles
    /\ writes \in Nat

\* No file has bytes that somebody will write only later.
CopiesWritten ==
    /\ \A d \in Dirs, a \in Arches : bundle[d].files[a].copy <= writes
    /\ \A a \in Arches : before[a].copy <= writes

\* The file is as it was when the validation began.
AsBefore(a) == bundle[checking].files[a] = before[a]

ValidatingInv ==
    /\ job \in {"view", "judge", "after"} =>
          \A a \in NamesIn(checking) : before[a] \notin {Absent, Odd}
    /\ job \in {"view", "judge"} /\ checking = "output" =>
          \A a \in Arches : view[a] # Absent /\ AsBefore(a) => view[a] = before[a]
    /\ job = "after" => \A a \in NamesIn(checking) : AsBefore(a) => before[a].fits = a

StageInv ==
    /\ stage = "assemble" \/ checking = PublishedDir
    /\ job \in {"mkdir", "copyX86", "copyArm", "copyNotes"} => stage = "assemble"
    /\ job \notin {"start", "failed"} => UnitFor(request) /\ ReleaseCli(request)

PublishingInv ==
    /\ job \in {"find", "send", "compareRemote", "upload"} =>
          /\ stage = "publish" /\ checking = PublishedDir
          /\ \A a \in NamesIn(checking) : expected[a].fits = a
    /\ job \in {"send", "compareRemote", "upload"} => ~shown

BundleInv == BundleTypes /\ CopiesWritten /\ ValidatingInv /\ StageInv /\ PublishingInv /\ ShownIsValidated

\* A directory is for one architecture or for both.
LEMMA NamesInDirs == ASSUME NEW d \in Dirs PROVE NamesIn(d) \subseteq Arches
BY DEF NamesIn, Dirs, Arches

\* What is published is one of the directories.
LEMMA PublishedInDirs == BundleTypes => PublishedDir \in Dirs
BY RequestAssumption DEF BundleTypes, PublishedDir, Dirs, Arches

\* The files and bundles that the definitions name are of their types, and old.
LEMMA KnownFiles ==
    /\ Absent \in BundleFile /\ Odd \in BundleFile /\ Absent # Odd
    /\ Absent.copy = 0 /\ Odd.copy = 0 /\ Absent.fits = "absent"
    /\ \A a \in Arches : Good(a) \in BundleFile /\ Good(a).copy = 0 /\ Good(a) # Absent
    /\ NoBytes \in BundleFiles /\ \A a \in Arches : NoBytes[a] = Absent
    /\ \A n \in {"notes", "edited", "odd"} : \A f \in BundleFiles :
          Bundle(f, n) \in BundleSet /\ Bundle(f, n).files = f
    /\ NoBundle \in BundleSet /\ \A a \in Arches : NoBundle.files[a] = Absent
    /\ \A a \in Arches : Staged(a) \in BundleSet /\ \A b \in Arches : Staged(a).files[b].copy = 0
<1>1. /\ Absent \in BundleFile /\ Odd \in BundleFile /\ Absent # Odd
      /\ Absent.copy = 0 /\ Odd.copy = 0 /\ Absent.fits = "absent"
  BY DEF Absent, Odd, BundleFile
<1>2. \A a \in Arches : Good(a) \in BundleFile /\ Good(a).copy = 0 /\ Good(a) # Absent
  BY DEF Good, BundleFile, Absent, Arches
<1>3. NoBytes \in BundleFiles /\ \A a \in Arches : NoBytes[a] = Absent
  BY <1>1 DEF NoBytes, BundleFiles
<1>4. \A n \in {"notes", "edited", "odd"} : \A f \in BundleFiles :
          Bundle(f, n) \in BundleSet /\ Bundle(f, n).files = f
  BY DEF Bundle, BundleSet
<1>5. NoBundle = [Bundle(NoBytes, "odd") EXCEPT !.there = FALSE]
  BY DEF NoBundle, NoBytes
<1>6. NoBundle \in BundleSet /\ \A a \in Arches : NoBundle.files[a] = Absent
  <2> DEFINE empty == Bundle(NoBytes, "odd")
  <2>1. empty \in BundleSet /\ empty.files = NoBytes
    BY <1>3, <1>4
  <2> HIDE DEF empty
  <2>2. [empty EXCEPT !.there = FALSE] \in BundleSet /\ [empty EXCEPT !.there = FALSE].files = NoBytes
    BY <2>1 DEF BundleSet
  <2> QED BY <1>3, <1>5, <2>2 DEF empty
<1>7. ASSUME NEW a \in Arches
      PROVE  Staged(a) \in BundleSet /\ \A b \in Arches : Staged(a).files[b].copy = 0
  <2> DEFINE f == [b \in Arches |-> IF b = a THEN Good(a) ELSE Absent]
  <2>1. f \in BundleFiles /\ \A b \in Arches : f[b].copy = 0
    BY <1>1, <1>2 DEF BundleFiles
  <2> QED BY <1>4, <2>1 DEF Staged
<1> QED BY <1>1, <1>2, <1>3, <1>4, <1>6, <1>7

\* It holds at first.
LEMMA BundleInvInit == BundleInit => BundleInv
<1> SUFFICES ASSUME BundleInit PROVE BundleInv
  OBVIOUS
<1>1. BundleTypes
  BY KnownFiles DEF BundleInit, BundleTypes, Dirs, Arches
<1>2. CopiesWritten
  BY KnownFiles DEF BundleInit, CopiesWritten, Dirs, Arches
<1>3. ValidatingInv /\ StageInv /\ PublishingInv /\ ShownIsValidated
  BY DEF BundleInit, ValidatingInv, StageInv, PublishingInv, ShownIsValidated
<1> QED BY <1>1, <1>2, <1>3 DEF BundleInv

\* Outside a validation nothing ties the directory to what was read of it.
NotValidating == job \notin {"view", "judge", "after"}

\* Only a request for the unit of the repository goes on.
LEMMA BundleCheckRequest == BundleInv /\ CheckRequest => BundleInv'
<1> SUFFICES ASSUME BundleInv, CheckRequest PROVE BundleInv'
  OBVIOUS
<1>1. BundleTypes' /\ CopiesWritten'
  BY DEF BundleInv, BundleTypes, CopiesWritten, CheckRequest, checkVars, remoteVars
<1>2. ValidatingInv' /\ PublishingInv'
  BY DEF ValidatingInv, PublishingInv, CheckRequest, If
<1>3. StageInv' /\ ShownIsValidated'
  BY DEF BundleInv, StageInv, ShownIsValidated, CheckRequest, If, checkVars, remoteVars,
         PublishedDir, UnitFor,
         ReleaseCli, NamesIn
<1> QED BY <1>1, <1>2, <1>3 DEF BundleInv

\* Assembly begins.
LEMMA BundleCompareNotes == BundleInv /\ CompareNotes => BundleInv'
<1> SUFFICES ASSUME BundleInv, CompareNotes PROVE BundleInv'
  OBVIOUS
<1>1. BundleTypes' /\ CopiesWritten'
  BY DEF BundleInv, BundleTypes, CopiesWritten, CompareNotes, checkVars, remoteVars, Dirs, Arches
<1>2. ValidatingInv' /\ PublishingInv'
  BY DEF ValidatingInv, PublishingInv, CompareNotes, If
<1>3. StageInv' /\ ShownIsValidated'
  BY DEF BundleInv, StageInv, ShownIsValidated, CompareNotes, If, checkVars, remoteVars,
         PublishedDir, UnitFor,
         ReleaseCli, NamesIn
<1> QED BY <1>1, <1>2, <1>3 DEF BundleInv

\* A fresh output has no files.
LEMMA BundleMakeOutput == BundleInv /\ MakeOutput => BundleInv'
<1> SUFFICES ASSUME BundleInv, MakeOutput PROVE BundleInv'
  OBVIOUS
<1>0. UNCHANGED <<request, stage, checking, before, view, expected, remote, shown, writes>>
  BY DEF MakeOutput, checkVars, remoteVars
<1>1. bundle' \in [Dirs -> BundleSet] /\ \A d \in Dirs : \/ bundle'[d] = bundle[d]
                                                         \/ bundle'[d].files = NoBytes
  BY KnownFiles DEF BundleInv, BundleTypes, MakeOutput, Dirs
<1>2. BundleTypes' /\ CopiesWritten'
  BY <1>0, <1>1, KnownFiles DEF BundleInv, BundleTypes, CopiesWritten
<1>3. ValidatingInv' /\ PublishingInv'
  BY DEF ValidatingInv, PublishingInv, MakeOutput, If
<1>4. StageInv' /\ ShownIsValidated'
  BY <1>0 DEF BundleInv, StageInv, ShownIsValidated, MakeOutput, If, PublishedDir, UnitFor,
         ReleaseCli, NamesIn
<1> QED BY <1>2, <1>3, <1>4 DEF BundleInv

\* A copy has the bytes of its original.
LEMMA BundleCopyOutput == BundleInv /\ CopyOutput => BundleInv'
<1> SUFFICES ASSUME BundleInv, NEW a \in Arches, job \in {"copyX86", "copyArm"}, CopyTo(a)
             PROVE  BundleInv'
  BY DEF CopyOutput, Arches
<1> DEFINE f == bundle[a].files[a]
<1>0. UNCHANGED <<request, stage, checking, before, view, expected, remote, shown, writes>>
  BY DEF CopyTo, checkVars, remoteVars
<1>1. f \in BundleFile /\ f.copy <= writes /\ a \in Dirs
  BY DEF BundleInv, BundleTypes, BundleSet, BundleFiles, CopiesWritten, Dirs
<1>2. bundle' \in [Dirs -> BundleSet] /\ \A d \in Dirs, b \in Arches :
         bundle'[d].files[b] \in {bundle[d].files[b], f}
  BY <1>1 DEF BundleInv, BundleTypes, CopyTo, Dirs, BundleSet, BundleFiles
<1>3. BundleTypes' /\ CopiesWritten'
  BY <1>0, <1>1, <1>2 DEF BundleInv, BundleTypes, CopiesWritten
<1>4. job' \in {"copyArm", "copyNotes", "failed"}
  BY DEF CopyTo, If
<1>5. ValidatingInv' /\ PublishingInv'
  BY <1>4 DEF ValidatingInv, PublishingInv
<1>6. StageInv' /\ ShownIsValidated'
  BY <1>0, <1>4 DEF BundleInv, StageInv, ShownIsValidated, PublishedDir, UnitFor,
         ReleaseCli, NamesIn
<1> QED BY <1>3, <1>5, <1>6 DEF BundleInv

\* Notes are no archive.
LEMMA BundleCopyNotes == BundleInv /\ CopyNotes => BundleInv'
<1> SUFFICES ASSUME BundleInv, CopyNotes PROVE BundleInv'
  OBVIOUS
<1>0. UNCHANGED <<request, stage, before, view, expected, remote, shown, writes>>
  BY DEF CopyNotes, checkVars, remoteVars
<1>1. bundle' \in [Dirs -> BundleSet] /\ \A d \in Dirs : bundle'[d].files = bundle[d].files
  <2> DEFINE n == bundle["x86_64"].notes
  <2>1. n \in {"notes", "edited", "odd"} /\ bundle["output"] \in BundleSet
    BY DEF BundleInv, BundleTypes, Dirs, Arches, BundleSet
  <2> HIDE DEF n
  <2>2. [bundle["output"] EXCEPT !.notes = n] \in BundleSet
    BY <2>1 DEF BundleSet
  <2>3. bundle' \in {bundle, [bundle EXCEPT !["output"] = [bundle["output"] EXCEPT !.notes = n]]}
    BY DEF CopyNotes, n
  <2> QED BY <2>1, <2>2, <2>3 DEF BundleInv, BundleTypes, Dirs, BundleSet
<1>2. BundleTypes' /\ CopiesWritten'
  BY <1>0, <1>1 DEF BundleInv, BundleTypes, CopiesWritten, CopyNotes, Dirs
<1>3. ValidatingInv' /\ PublishingInv'
  BY DEF ValidatingInv, PublishingInv, CopyNotes, If
<1>4. StageInv' /\ ShownIsValidated'
  BY <1>0 DEF BundleInv, StageInv, ShownIsValidated, CopyNotes, If, PublishedDir, UnitFor,
         ReleaseCli, NamesIn
<1> QED BY <1>2, <1>3, <1>4 DEF BundleInv

\* A validation begins with every archive there.
LEMMA BundleBefore == BundleInv /\ Before => BundleInv'
<1> SUFFICES ASSUME BundleInv, Before PROVE BundleInv'
  OBVIOUS
<1>0. UNCHANGED <<request, bundle, stage, checking, expected, remote, shown, writes>>
  BY DEF Before, remoteVars
<1>1. before' = bundle[checking].files /\ bundle[checking] \in BundleSet /\ view' = NoBytes
  BY DEF BundleInv, BundleTypes, Before
<1>2. BundleTypes' /\ CopiesWritten'
  BY <1>0, <1>1, KnownFiles DEF BundleInv, BundleTypes, CopiesWritten, BundleSet
<1>3. ValidatingInv'
  <2>1. job' \in {"view", "judge"} => LocalAssets(checking)
    BY DEF Before, If
  <2>2. job' \in {"view", "judge", "failed"}
    BY DEF Before, If
  <2>3. NamesIn(checking) \subseteq Arches
    BY NamesInDirs DEF BundleInv, BundleTypes
  <2> QED BY <1>0, <1>1, <2>1, <2>2, <2>3, KnownFiles DEF ValidatingInv, LocalAssets, NamesIn
<1>4. PublishingInv'
  BY DEF PublishingInv, Before, If
<1>5. StageInv' /\ ShownIsValidated'
  BY <1>0 DEF BundleInv, StageInv, ShownIsValidated, Before, If, PublishedDir, UnitFor,
         ReleaseCli, NamesIn
<1> QED BY <1>2, <1>3, <1>4, <1>5 DEF BundleInv

\* A private view of a file that is as before is a view of what was before.
LEMMA BundleCopyView == BundleInv /\ CopyView => BundleInv'
<1> SUFFICES ASSUME BundleInv, CopyView PROVE BundleInv'
  OBVIOUS
<1>0. UNCHANGED <<request, bundle, stage, checking, before, expected, remote, shown, writes>>
  BY DEF CopyView, remoteVars
<1>1. PICK a \in Arches : view' = [view EXCEPT ![a] = bundle[checking].files[a]]
  BY DEF CopyView, Arches
<1>2. BundleTypes' /\ CopiesWritten'
  BY <1>0, <1>1 DEF BundleInv, BundleTypes, CopiesWritten, BundleSet, BundleFiles
<1>3. job' \in {"view", "judge", "failed"} /\ job = "view"
  BY DEF CopyView, If
<1>4. ValidatingInv'
  <2>1. \A b \in Arches : view'[b] = IF b = a THEN bundle[checking].files[a] ELSE view[b]
    BY <1>1 DEF BundleInv, BundleTypes, BundleFiles
  <2>2. \A b \in Arches : AsBefore(b)' <=> AsBefore(b)
    BY <1>0 DEF AsBefore
  <2> QED BY <1>0, <1>3, <2>1, <2>2 DEF BundleInv, ValidatingInv, AsBefore, NamesIn
<1>5. PublishingInv'
  BY <1>3 DEF PublishingInv
<1>6. StageInv' /\ ShownIsValidated'
  BY <1>0, <1>3 DEF BundleInv, StageInv, ShownIsValidated, PublishedDir, UnitFor,
         ReleaseCli, NamesIn
<1> QED BY <1>2, <1>4, <1>5, <1>6 DEF BundleInv

\* What was judged is what was before, if it is now.
LEMMA BundleJudge == BundleInv /\ Judge => BundleInv'
<1> SUFFICES ASSUME BundleInv, Judge PROVE BundleInv'
  OBVIOUS
<1>0. UNCHANGED <<request, bundle, stage, checking, before, view, expected, remote, shown, writes>>
  BY DEF Judge, checkVars, remoteVars
<1>1. BundleTypes' /\ CopiesWritten'
  BY <1>0 DEF BundleInv, BundleTypes, CopiesWritten
<1>2. job' \in {"after", "failed"} /\ job = "judge"
  BY DEF Judge, If
<1>3. ValidatingInv'
  <2>1. ASSUME job' = "after", NEW a \in NamesIn(checking), AsBefore(a) PROVE before[a].fits = a
    <3>1. a \in Arches
      BY NamesInDirs DEF BundleInv, BundleTypes
    <3>2. CASE checking = "output"
      <4>1. view[a].fits = a
        BY <2>1, <3>2 DEF Judge, If
      <4>2. view[a] # Absent
        BY <3>1, <4>1 DEF Absent, Arches
      <4> QED BY <1>2, <2>1, <3>1, <3>2, <4>1, <4>2 DEF BundleInv, ValidatingInv
    <3>3. CASE checking # "output"
      BY <2>1, <3>3 DEF Judge, If, AsBefore
    <3> QED BY <3>2, <3>3
  <2>2. \A a : AsBefore(a)' <=> AsBefore(a)
    BY <1>0 DEF AsBefore
  <2> QED BY <1>0, <1>2, <2>1, <2>2 DEF BundleInv, ValidatingInv, NamesIn
<1>4. PublishingInv'
  BY <1>2 DEF PublishingInv
<1>5. StageInv' /\ ShownIsValidated'
  BY <1>0, <1>2 DEF BundleInv, StageInv, ShownIsValidated, PublishedDir, UnitFor,
         ReleaseCli, NamesIn
<1> QED BY <1>1, <1>3, <1>4, <1>5 DEF BundleInv

\* And it is: so the bytes expected from here on were judged.
LEMMA BundleAfter == BundleInv /\ After => BundleInv'
<1> SUFFICES ASSUME BundleInv, After PROVE BundleInv'
  OBVIOUS
<1>0. UNCHANGED <<request, bundle, stage, before, view, remote, shown, writes>>
  BY DEF After, checkVars, remoteVars
<1>1. job = "after" /\ job' \in {"failed", "find", "before", "mkdir", "read"}
  BY DEF After, If, NextCheck
<1>2. BundleTypes' /\ CopiesWritten'
  BY <1>0 DEF BundleInv, BundleTypes, CopiesWritten, After, Dirs, Arches
<1>3. ValidatingInv'
  BY <1>1 DEF ValidatingInv
<1>4. PublishingInv'
  <2>1. SUFFICES ASSUME job' = "find" PROVE PublishingInv'
    BY <1>1 DEF PublishingInv
  <2>2. stage = "publish" /\ \A a \in Arches : AsBefore(a)
    <3>1. LocalAssets(checking) /\ bundle[checking].files = before /\ NextCheck = "find"
      BY <2>1 DEF After, If
    <3> QED BY <3>1 DEF NextCheck, AsBefore
  <2>3. checking' = checking /\ expected' = before /\ checking = PublishedDir
    BY <2>2 DEF After, BundleInv, StageInv
  <2>4. NamesIn(checking) \subseteq Arches
    BY NamesInDirs DEF BundleInv, BundleTypes
  <2>5. \A a \in NamesIn(checking) : before[a].fits = a
    BY <1>1, <2>2, <2>4 DEF BundleInv, ValidatingInv
  <2> QED BY <1>0, <2>1, <2>2, <2>3, <2>5 DEF PublishingInv, PublishedDir, NamesIn
<1>5. StageInv'
  <2>1. stage = "assemble" \/ checking' = PublishedDir
    BY DEF BundleInv, StageInv, After
  <2>2. job' = "mkdir" => stage = "assemble"
    <3>1. job' = "mkdir" => NextCheck = "mkdir"
      BY DEF After, If
    <3>2. CASE stage = "publish"
      BY <3>1, <3>2 DEF NextCheck
    <3>3. CASE stage # "publish" /\ checking = PublishedDir
      BY <3>3 DEF BundleInv, BundleTypes
    <3> QED BY <3>1, <3>2, <3>3 DEF BundleInv, StageInv
  <2> QED BY <1>0, <1>1, <2>1, <2>2 DEF BundleInv, StageInv, PublishedDir, UnitFor, ReleaseCli
<1>6. ShownIsValidated'
  BY <1>0 DEF BundleInv, ShownIsValidated, PublishedDir, UnitFor,
         ReleaseCli, NamesIn
<1> QED BY <1>2, <1>3, <1>4, <1>5, <1>6 DEF BundleInv

\* Publication begins with a validation of its own.
LEMMA BundleReadNotes == BundleInv /\ ReadNotes => BundleInv'
<1> SUFFICES ASSUME BundleInv, ReadNotes PROVE BundleInv'
  OBVIOUS
<1>1. BundleTypes' /\ CopiesWritten'
  BY PublishedInDirs DEF BundleInv, BundleTypes, CopiesWritten, ReadNotes, checkVars, remoteVars
<1>2. ValidatingInv' /\ PublishingInv'
  BY DEF ValidatingInv, PublishingInv, ReadNotes, If
<1>3. StageInv' /\ ShownIsValidated'
  BY DEF BundleInv, StageInv, ShownIsValidated, ReadNotes, If, checkVars, remoteVars,
         PublishedDir, UnitFor,
         ReleaseCli, NamesIn
<1> QED BY <1>1, <1>2, <1>3 DEF BundleInv

\* The looks at the draft and at the directory that write nothing.
LEMMA BundleLooks ==
    BundleInv /\ (FindDraft \/ BeforeUpload \/ CompareRemote \/ ConfirmLocal) => BundleInv'
<1> SUFFICES ASSUME BundleInv, FindDraft \/ BeforeUpload \/ CompareRemote \/ ConfirmLocal
             PROVE  BundleInv'
  OBVIOUS
<1>0. UNCHANGED <<request, bundle, stage, checking, before, view, expected, remote, shown, writes>>
  BY DEF FindDraft, BeforeUpload, CompareRemote, ConfirmLocal, checkVars, remoteVars
<1>1. /\ job' \in {"done", "upload", "send", "failed"} /\ job \notin {"start", "failed"}
      /\ job' \in {"upload", "send"} => job \in {"find", "upload", "compareRemote"}
      /\ job' \in {"upload", "send"} /\ job = "find" => ~shown
  BY DEF FindDraft, BeforeUpload, CompareRemote, ConfirmLocal, If
<1>2. BundleTypes' /\ CopiesWritten'
  BY <1>0 DEF BundleInv, BundleTypes, CopiesWritten
<1>3. ValidatingInv'
  BY <1>1 DEF ValidatingInv
<1>4. PublishingInv'
  BY <1>0, <1>1 DEF BundleInv, PublishingInv, NamesIn, PublishedDir
<1>5. StageInv' /\ ShownIsValidated'
  BY <1>0, <1>1 DEF BundleInv, StageInv, ShownIsValidated, PublishedDir, UnitFor,
         ReleaseCli, NamesIn
<1> QED BY <1>2, <1>3, <1>4, <1>5 DEF BundleInv

\* The client sends whatever is there, to a draft.
LEMMA BundleSend == BundleInv /\ Send => BundleInv'
<1> SUFFICES ASSUME BundleInv, Send PROVE BundleInv'
  OBVIOUS
<1>0. UNCHANGED <<request, bundle, stage, checking, before, view, expected, shown, writes>>
  BY DEF Send, checkVars
<1>1. PICK a \in NamesIn(checking) : /\ remote' = [remote EXCEPT ![a] = bundle[checking].files[a]]
                                     /\ job' \in {"compareRemote", "failed"}
  BY DEF Send, If
<1>2. a \in Arches
  BY NamesInDirs DEF BundleInv, BundleTypes
<1>3. bundle[checking].files[a] \in BundleFile
  BY <1>2 DEF BundleInv, BundleTypes, BundleSet, BundleFiles
<1>4. BundleTypes' /\ CopiesWritten'
  BY <1>0, <1>1, <1>2, <1>3 DEF BundleInv, BundleTypes, CopiesWritten, BundleFiles
<1>5. job = "send" /\ ~shown /\ ValidatingInv'
  BY <1>1 DEF BundleInv, PublishingInv, Send, ValidatingInv
<1>6. PublishingInv'
  BY <1>0, <1>1, <1>5 DEF BundleInv, PublishingInv, NamesIn, PublishedDir
<1>7. StageInv' /\ ShownIsValidated'
  BY <1>0, <1>1, <1>5 DEF BundleInv, StageInv, ShownIsValidated, PublishedDir, UnitFor, ReleaseCli
<1> QED BY <1>4, <1>5, <1>6, <1>7 DEF BundleInv

\* Only a draft that holds the expected bytes is shown.
LEMMA BundleShow == BundleInv /\ Show => BundleInv'
<1> SUFFICES ASSUME BundleInv, Show PROVE BundleInv'
  OBVIOUS
<1>0. UNCHANGED <<request, bundle, stage, checking, before, view, expected, remote, writes>>
  BY DEF Show, checkVars
<1>1. job = "upload" /\ job' \in {"confirm", "failed"} /\ (shown' => shown \/ Complete)
  BY DEF Show, If
<1>2. BundleTypes' /\ CopiesWritten'
  BY <1>0 DEF BundleInv, BundleTypes, CopiesWritten
<1>3. ValidatingInv' /\ PublishingInv'
  BY <1>1 DEF ValidatingInv, PublishingInv
<1>4. StageInv'
  BY <1>0, <1>1 DEF BundleInv, StageInv, PublishedDir, UnitFor, ReleaseCli
<1>5. ShownIsValidated'
  <2>1. SUFFICES ASSUME Complete PROVE ShownIsValidated'
    BY <1>1 DEF BundleInv, PublishingInv, ShownIsValidated
  <2>2. /\ checking = PublishedDir /\ \A a \in NamesIn(checking) : expected[a].fits = a
        /\ UnitFor(request) /\ ReleaseCli(request)
    BY <1>1 DEF BundleInv, PublishingInv, StageInv
  <2>3. ASSUME NEW a \in Arches
        PROVE  remote[a].fits = IF a \in NamesIn(checking) THEN a ELSE "absent"
    BY <2>1, <2>2 DEF Complete, Matches, Uploaded, Absent
  <2> QED BY <1>0, <2>2, <2>3 DEF ShownIsValidated, NamesIn, PublishedDir, UnitFor, ReleaseCli
<1> QED BY <1>2, <1>3, <1>4, <1>5 DEF BundleInv

\* A job that is started again begins with nothing but the directories.
LEMMA BundleKilled == BundleInv /\ (KillJob \/ RunAgain) => BundleInv'
<1> SUFFICES ASSUME BundleInv, KillJob \/ RunAgain PROVE BundleInv'
  OBVIOUS
<1>0. UNCHANGED <<request, stage, checking, before, view, expected, remote, shown, writes>>
  BY DEF KillJob, RunAgain, checkVars, remoteVars
<1>1. job' \in {"failed", "start"}
  BY DEF KillJob, RunAgain, Do
<1>2. bundle' \in {bundle, [bundle EXCEPT !["output"] = NoBundle]}
  BY DEF KillJob, RunAgain
<1>3. BundleTypes' /\ CopiesWritten'
  BY <1>0, <1>2, KnownFiles DEF BundleInv, BundleTypes, CopiesWritten, Dirs
<1>4. ValidatingInv' /\ PublishingInv'
  BY <1>1 DEF ValidatingInv, PublishingInv
<1>5. StageInv' /\ ShownIsValidated'
  BY <1>0, <1>1 DEF BundleInv, StageInv, ShownIsValidated, PublishedDir, UnitFor,
         ReleaseCli, NamesIn
<1> QED BY <1>3, <1>4, <1>5 DEF BundleInv

\* A write puts new bytes, or none, in the place of a file; it never brings
\* back what a validation began with.
LEMMA BundleWritten == BundleInv /\ WriteBundle => BundleInv'
<1> SUFFICES ASSUME BundleInv, WriteBundle PROVE BundleInv'
  OBVIOUS
<1>0. UNCHANGED <<request, job, stage, checking, before, view, expected, remote, shown>>
  BY DEF WriteBundle, checkVars, remoteVars
<1>1. writes' = writes + 1 /\ writes' \in Nat /\ writes \in Nat
  BY DEF WriteBundle, BundleInv, BundleTypes
<1> DEFINE New(f) == f \in {Absent, Odd} \/ f.copy = writes'
<1>2. /\ bundle' \in [Dirs -> BundleSet]
      /\ \A d \in Dirs, a \in Arches : \/ bundle'[d].files[a] = bundle[d].files[a]
                                       \/ New(bundle'[d].files[a])
  <2>1. PICK d \in Dirs :
         \/ \E a \in Arches, fits \in Arches \cup {"neither"} :
               bundle' = [bundle EXCEPT ![d].files[a] = [fits |-> fits, copy |-> writes']]
         \/ \E a \in Arches, f \in {Absent, Odd} : bundle' = [bundle EXCEPT ![d].files[a] = f]
         \/ \E n \in {"edited", "odd"} : bundle' = [bundle EXCEPT ![d].notes = n]
         \/ bundle' = [bundle EXCEPT ![d].extra = TRUE]
    BY DEF WriteBundle
  <2>2. bundle[d] \in BundleSet /\ bundle[d].files \in BundleFiles
    BY DEF BundleInv, BundleTypes, BundleSet
  <2>3. ASSUME NEW a \in Arches, NEW f \in BundleFile, New(f),
               bundle' = [bundle EXCEPT ![d].files[a] = f]
        PROVE  <1>2!1 /\ <1>2!2
    BY <2>2, <2>3 DEF BundleInv, BundleTypes, BundleSet, BundleFiles
  <2>4. ASSUME NEW a \in Arches, NEW fits \in Arches \cup {"neither"}
        PROVE  [fits |-> fits, copy |-> writes'] \in BundleFile /\ New([fits |-> fits, copy |-> writes'])
    BY <1>1 DEF BundleFile
  <2>5. ASSUME NEW n \in {"edited", "odd"}, bundle' = [bundle EXCEPT ![d].notes = n]
        PROVE  <1>2!1 /\ <1>2!2
    BY <2>2, <2>5 DEF BundleInv, BundleTypes, BundleSet
  <2>6. ASSUME bundle' = [bundle EXCEPT ![d].extra = TRUE]
        PROVE  <1>2!1 /\ <1>2!2
    BY <2>2, <2>6 DEF BundleInv, BundleTypes, BundleSet
  <2> QED BY <2>1, <2>3, <2>4, <2>5, <2>6, KnownFiles
<1>3. BundleTypes' /\ CopiesWritten'
  <2>1. ASSUME NEW d \in Dirs, NEW a \in Arches PROVE bundle'[d].files[a].copy <= writes'
    <3>1. bundle[d].files[a].copy <= writes /\ bundle[d].files[a].copy \in Nat
      BY DEF BundleInv, BundleTypes, CopiesWritten, BundleSet, BundleFiles, BundleFile
    <3>2. New(bundle'[d].files[a]) => bundle'[d].files[a].copy \in {0, writes'}
      BY KnownFiles
    <3> QED BY <1>1, <1>2, <3>1, <3>2
  <2>2. ASSUME NEW a \in Arches PROVE before[a].copy <= writes'
    BY <1>1 DEF BundleInv, BundleTypes, CopiesWritten, BundleFiles, BundleFile
  <2> QED BY <1>0, <1>1, <1>2, <2>1, <2>2 DEF BundleInv, BundleTypes, CopiesWritten
<1>4. ASSUME job \in {"view", "judge", "after"}, NEW a \in NamesIn(checking), AsBefore(a)'
      PROVE  AsBefore(a)
  <2>1. a \in Arches /\ checking \in Dirs
    BY NamesInDirs DEF BundleInv, BundleTypes
  <2>2. before[a] \notin {Absent, Odd} /\ before[a].copy <= writes /\ before[a].copy \in Nat
    BY <1>4, <2>1 DEF BundleInv, BundleTypes, BundleFiles, BundleFile, ValidatingInv, CopiesWritten
  <2>3. ~New(before[a])
    BY <1>1, <2>2
  <2> QED BY <1>0, <1>2, <1>4, <2>1, <2>3 DEF AsBefore
<1>5. ValidatingInv'
  BY <1>0, <1>4 DEF BundleInv, ValidatingInv, NamesIn
<1>6. PublishingInv' /\ StageInv' /\ ShownIsValidated'
  BY <1>0 DEF BundleInv, PublishingInv, StageInv, ShownIsValidated, PublishedDir, UnitFor,
         ReleaseCli, NamesIn
<1> QED BY <1>3, <1>5, <1>6 DEF BundleInv

\* What becomes public was validated for its architecture, for any number of
\* writes to the directories during validation, assembly and upload, and of
\* jobs killed and started again.
THEOREM ReleaseBundleCorrect == BundleSpec => []ShownIsValidated
<1>1. BundleInv /\ [BundleNext]_bundleVars => BundleInv'
  <2> SUFFICES ASSUME BundleInv, [BundleNext]_bundleVars PROVE BundleInv'
    OBVIOUS
  <2>1. CASE UNCHANGED bundleVars
    BY <2>1 DEF bundleVars, BundleInv, BundleTypes, CopiesWritten, ValidatingInv, AsBefore,
                StageInv, PublishingInv, ShownIsValidated, PublishedDir, UnitFor,
         ReleaseCli, NamesIn
  <2> QED BY <2>1, BundleCheckRequest, BundleCompareNotes, BundleMakeOutput, BundleCopyOutput,
             BundleCopyNotes, BundleBefore, BundleCopyView, BundleJudge, BundleAfter,
             BundleReadNotes, BundleLooks, BundleSend, BundleShow, BundleKilled, BundleWritten
          DEF BundleNext, Assemble, Validate, Publish
<1>2. BundleInv => ShownIsValidated
  BY DEF BundleInv
<1> QED BY BundleInvInit, <1>1, <1>2, PTL DEF BundleSpec

(***************************************************************************)
(* SelectedInit.                                                           *)
(***************************************************************************)

\* The notices of an archive, all of them.
NoticesOfArchive(u) == [from |-> u, whole |-> TRUE]

\* What a preparer has in hand at each step, and what it leaves when it is done
\* and nobody else wrote there.
PreparerInv(p) ==
    /\ step[p] \in {"admitted", "private", "cleared", "putInit"} =>
          Sound(payload[p]) /\ payload[p] = row[p].archive
    /\ step[p] \in {"private", "cleared"} => private[p] = NoticesOfArchive(payload[p])
    /\ step[p] = "putInit" /\ ~met[p] => notices = NoticesOfArchive(row[p].archive)
    /\ step[p] = "done" /\ ~met[p] => /\ installed = row[p].archive
                                      /\ notices = NoticesOfArchive(row[p].archive)

PrepareInv ==
    /\ DOMAIN step = Preparers /\ DOMAIN row = Preparers /\ DOMAIN payload = Preparers
    /\ DOMAIN private = Preparers /\ DOMAIN met = Preparers
    /\ installed # Torn => Sound(installed)
    /\ \A p \in Preparers : PreparerInv(p)

\* It holds at first.
LEMMA PrepareInit == InitInit => PrepareInv
BY DEF InitInit, PrepareInv, PreparerInv

\* A preparer that others wrote beside has nothing to lose by it.
LEMMA OtherPreparers ==
    ASSUME NEW q \in Preparers, PreparerInv(q),
           step'[q] = step[q], row'[q] = row[q], payload'[q] = payload[q], private'[q] = private[q],
           met'[q] \/ (met'[q] = met[q] /\ notices' = notices /\ installed' = installed)
    PROVE  PreparerInv(q)'
BY DEF PreparerInv

\* Every step keeps it: a preparer that writes marks the others as met.
LEMMA PrepareStep == PrepareInv /\ [InitNext]_initVars => PrepareInv'
<1> SUFFICES ASSUME PrepareInv, [InitNext]_initVars PROVE PrepareInv'
  OBVIOUS
<1> USE DEF PrepareInv
<1>1. ASSUME NEW p \in Preparers, ReadRelease(p) \/ Download(p) \/ Admit(p) \/ MakePrivate(p)
                                  \/ PrepareAgain(p)
      PROVE  PrepareInv'
  <2>1. UNCHANGED <<notices, installed, met>>
    BY <1>1 DEF ReadRelease, Download, Admit, MakePrivate, PrepareAgain, treeVars
  <2>2. \A q \in Preparers \ {p} : /\ step'[q] = step[q] /\ row'[q] = row[q]
                                   /\ payload'[q] = payload[q] /\ private'[q] = private[q]
    BY <1>1 DEF ReadRelease, Download, Admit, MakePrivate, PrepareAgain, Go, Fail
  <2>3. /\ DOMAIN step' = Preparers /\ DOMAIN row' = Preparers /\ DOMAIN payload' = Preparers
        /\ DOMAIN private' = Preparers
    BY <1>1 DEF ReadRelease, Download, Admit, MakePrivate, PrepareAgain, Go, Fail
  <2>4. PreparerInv(p)'
    <3>1. CASE ReadRelease(p)
      BY <3>1 DEF ReadRelease, Go, PreparerInv
    <3>2. CASE Download(p)
      BY <3>2 DEF Download, Go, Fail, PreparerInv
    <3>3. CASE Admit(p)
      BY <3>3 DEF Admit, Go, Fail, PreparerInv
    <3>4. CASE MakePrivate(p)
      BY <3>4 DEF MakePrivate, Go, PreparerInv, NoticesOfArchive
    <3>5. CASE PrepareAgain(p)
      BY <3>5 DEF PrepareAgain, Go, PreparerInv
    <3> QED BY <1>1, <3>1, <3>2, <3>3, <3>4, <3>5
  <2>5. \A q \in Preparers \ {p} : PreparerInv(q)'
    BY <2>1, <2>2, OtherPreparers
  <2> QED BY <2>1, <2>3, <2>4, <2>5
<1>2. ASSUME NEW p \in Preparers, ClearNotices(p) \/ PutNotices(p) \/ PutInit(p) \/ KillPreparer(p)
      PROVE  PrepareInv'
  <2>1. UNCHANGED <<row, payload>>
    BY <1>2 DEF ClearNotices, PutNotices, PutInit, KillPreparer
  <2>2. \A q \in Preparers \ {p} : /\ step'[q] = step[q] /\ private'[q] = private[q]
                                   /\ \/ met'[q]
                                      \/ met'[q] = met[q] /\ notices' = notices /\ installed' = installed
    BY <1>2 DEF ClearNotices, PutNotices, PutInit, KillPreparer, Go, Fail, Wrote
  <2>3. DOMAIN step' = Preparers /\ DOMAIN private' = Preparers /\ DOMAIN met' = Preparers
    BY <1>2 DEF ClearNotices, PutNotices, PutInit, KillPreparer, Go, Fail, Wrote
  <2>4. PreparerInv(p)'
    <3>1. CASE ClearNotices(p)
      BY <3>1 DEF ClearNotices, Go, PreparerInv
    <3>2. CASE PutNotices(p)
      BY <3>2 DEF PutNotices, Go, Fail, Wrote, PreparerInv, NoticesOfArchive
    <3>3. CASE PutInit(p)
      BY <3>3 DEF PutInit, Go, Wrote, PreparerInv
    <3>4. CASE KillPreparer(p)
      BY <3>4 DEF KillPreparer, Fail, PreparerInv
    <3> QED BY <1>2, <3>1, <3>2, <3>3, <3>4
  <2>5. \A q \in Preparers \ {p} : PreparerInv(q)'
    BY <2>1, <2>2, OtherPreparers
  <2>6. installed' # Torn => Sound(installed')
    BY <1>2 DEF ClearNotices, PutNotices, PutInit, KillPreparer, Go, PreparerInv
  <2> QED BY <2>1, <2>3, <2>4, <2>5, <2>6
<1>3. CASE EditRelease \/ UNCHANGED initVars
  <2>1. UNCHANGED <<step, row, payload, private, notices, installed, met>>
    BY <1>3 DEF EditRelease, initVars, treeVars
  <2> QED BY <2>1, OtherPreparers
<1> QED BY <1>1, <1>2, <1>3 DEF InitNext, Preparer

\* The installed binary is of a sound archive at all times, and an undisturbed
\* preparation installs what the Release named, for any archives and any number
\* of preparers.
THEOREM SelectedInitCorrect == InitSpec => []PreparedIsSelected
<1>1. PrepareInv => PreparedIsSelected
  BY DEF PrepareInv, PreparerInv, PreparedIsSelected, NoticesOfArchive
<1> QED BY PrepareInit, PrepareStep, <1>1, PTL DEF InitSpec

(***************************************************************************)
(* CryptoCatalog.  A destination that was found valid is frozen: at most one*)
(* collector ever copies to it, and that one has nothing left to copy.     *)
(***************************************************************************)

CopyEnd == 6 + 5 * Len(Pins)

\* The files of a catalog are copied once each, and all of them.
LEMMA CopyOrderFacts ==
    /\ CopyEnd \in Nat /\ CopyEnd >= 6 /\ Len(CopyOrder) = CopyEnd
    /\ \A f \in Places : \E i \in 1 .. CopyEnd : CopyOrder[i] = f
    /\ \A i \in 1 .. CopyEnd : CopyOrder[i] \in Places
    /\ \A i \in 2 .. CopyEnd : CopyOrder[i] \in Paths
    /\ \A i, j \in 1 .. CopyEnd : CopyOrder[i] = CopyOrder[j] => i = j
<1> DEFINE n == CopyEnd - 1
           S == {CopyOrder[i] : i \in 1 .. CopyEnd}
<1>1. n \in Nat /\ CopyEnd = n + 1 /\ n >= 5 /\ n = 5 + 5 * Len(Pins)
  BY CatalogAssumption DEF CopyEnd
<1>2. PathSeq = [k \in 1 .. n |-> PathSeq[k]] /\ DOMAIN PathSeq = 1 .. n
  BY <1>1 DEF PathSeq
<1> HIDE DEF n
<1>3. /\ Len(CopyOrder) = CopyEnd /\ CopyOrder[1] = Unlisted
      /\ \A i \in 2 .. CopyEnd : CopyOrder[i] = PathSeq[i - 1]
  <2>1. PathSeq \in Seq({PathSeq[k] : k \in 1 .. n}) /\ Len(PathSeq) = n
    BY <1>1, <1>2
  <2> QED BY <1>1, <2>1 DEF CopyOrder
<1>4. Paths = {PathSeq[k] : k \in 1 .. n}
  BY <1>2 DEF Paths, ToSet
<1>5. \A k \in 1 .. n : /\ k <= 5 => PathSeq[k] = <<Global[k], 0>>
                        /\ k > 5 => PathSeq[k] = <<PerLib[((k - 1) % 5) + 1], (k - 1) \div 5>>
  BY <1>1 DEF PathSeq
<1>6. /\ \A k, m \in 1 .. 5 : Global[k] = Global[m] => k = m
      /\ \A k, m \in 1 .. 5 : PerLib[k] = PerLib[m] => k = m
      /\ \A k \in 1 .. 5 : Global[k] # "unlisted" /\ PerLib[k] # "unlisted"
  BY DEF Global, PerLib
<1>7. \A k, m \in 1 .. n : PathSeq[k] = PathSeq[m] => k = m
  <2> SUFFICES ASSUME NEW k \in 1 .. n, NEW m \in 1 .. n, PathSeq[k] = PathSeq[m] PROVE k = m
    OBVIOUS
  <2>0. k \in Nat /\ m \in Nat /\ k >= 1 /\ m >= 1
    BY <1>1
  <2>1. CASE k <= 5 /\ m <= 5
    BY <1>5, <1>6, <2>0, <2>1
  <2>2. CASE k <= 5 /\ m > 5
    <3>1. (m - 1) \div 5 # 0
      BY <2>0, <2>2
    <3> QED BY <1>5, <2>0, <2>2, <3>1
  <2>3. CASE k > 5 /\ m <= 5
    <3>1. (k - 1) \div 5 # 0
      BY <2>0, <2>3
    <3> QED BY <1>5, <2>0, <2>3, <3>1
  <2>4. CASE k > 5 /\ m > 5
    <3>1. (k - 1) \div 5 = (m - 1) \div 5 /\ PerLib[((k - 1) % 5) + 1] = PerLib[((m - 1) % 5) + 1]
      BY <1>5, <2>4
    <3>2. ((k - 1) % 5) + 1 \in 1 .. 5 /\ ((m - 1) % 5) + 1 \in 1 .. 5
      BY <2>0
    <3>3. (k - 1) % 5 = (m - 1) % 5
      BY <1>6, <2>0, <3>1, <3>2
    <3> QED BY <2>0, <3>1, <3>3
  <2> QED BY <2>0, <2>1, <2>2, <2>3, <2>4
<1>8. \A k \in 1 .. n : PathSeq[k] # Unlisted
  <2> SUFFICES ASSUME NEW k \in 1 .. n PROVE PathSeq[k][1] # "unlisted"
    BY DEF Unlisted
  <2>1. k <= 5 => k \in 1 .. 5
    BY <1>1
  <2>2. ((k - 1) % 5) + 1 \in 1 .. 5
    BY <1>1
  <2> QED BY <1>1, <1>5, <1>6, <2>1, <2>2
<1>9. \A i, j \in 1 .. CopyEnd : CopyOrder[i] = CopyOrder[j] => i = j
  <2> SUFFICES ASSUME NEW i \in 1 .. CopyEnd, NEW j \in 1 .. CopyEnd, CopyOrder[i] = CopyOrder[j]
               PROVE  i = j
    OBVIOUS
  <2>1. \A h \in 1 .. CopyEnd : h = 1 \/ (h \in 2 .. CopyEnd /\ h - 1 \in 1 .. n)
    BY <1>1
  <2> QED BY <1>1, <1>3, <1>7, <1>8, <2>1
<1>10. \A i \in 2 .. CopyEnd : CopyOrder[i] \in Paths
  BY <1>1, <1>3, <1>4
<1>11. \A f \in Paths : \E i \in 1 .. CopyEnd : CopyOrder[i] = f
  <2> SUFFICES ASSUME NEW k \in 1 .. n PROVE \E i \in 1 .. CopyEnd : CopyOrder[i] = PathSeq[k]
    BY <1>4
  <2>1. k + 1 \in 2 .. CopyEnd /\ k + 1 \in 1 .. CopyEnd /\ (k + 1) - 1 = k
    BY <1>1
  <2> QED BY <1>3, <2>1
<1>12. \A f \in Places : \E i \in 1 .. CopyEnd : CopyOrder[i] = f
  BY <1>1, <1>3, <1>11 DEF Places
<1>13. \A i \in 1 .. CopyEnd : CopyOrder[i] \in Places
  BY <1>1, <1>3, <1>10 DEF Places
<1> QED BY <1>1, <1>3, <1>9, <1>10, <1>12, <1>13

CatalogTypes ==
    /\ buildId \in CatalogIds
    /\ destination = [b \in CatalogIds |-> [f \in Places |-> destination[b][f]]]
    /\ made \subseteq CatalogIds /\ reported \subseteq CatalogIds
    /\ cpc \in [Collectors -> {"idle", "found", "make", "copy", "recheck"}]
    /\ cid \in [Collectors -> CatalogIds]
    /\ copied \in [Collectors -> 0 .. CopyEnd]
    /\ \A claim \in claims : claim.id \in CatalogIds

Copies(p, b) == cpc[p] = "copy" /\ cid[p] = b

\* One copy at most is under way to each destination, and what it has not come
\* to is not there.
DestinationInv ==
    /\ \A b \in CatalogIds \ made : destination[b] = NoCatalog
    /\ \A p \in Collectors : cpc[p] \in {"copy", "recheck"} => cid[p] \in made
    /\ \A p, q \in Collectors, b \in CatalogIds : Copies(p, b) /\ Copies(q, b) => p = q
    /\ \A p \in Collectors : cpc[p] = "copy" =>
          \A i \in 1 .. CopyEnd : i > copied[p] => destination[cid[p]][CopyOrder[i]] = Missing

\* A catalog that nobody writes to any more.
Frozen(b) ==
    /\ b \in made /\ IsGenuine(b)
    /\ \A p \in Collectors : Copies(p, b) => copied[p] = CopyEnd

CatalogInv ==
    /\ CatalogTypes /\ DestinationInv
    /\ \A b \in reported : Frozen(b)
    /\ \A claim \in accepted :
         /\ Frozen(claim.id) /\ claim.archive = Made[claim.id][<<"lib", claim.lib>>]
         /\ \A i \in Libs : \E r \in accepted : r.id = claim.id /\ r.lib = i

\* A valid catalog is the list of materials that its id is of, of a build that
\* is pinned; and all of it is there.
LEMMA ValidIsGenuine ==
    ASSUME CatalogTypes, NEW b \in CatalogIds, Valid(destination[b], b)
    PROVE  IsGenuine(b) /\ \A f \in Paths : destination[b][f] # Missing
<1> DEFINE c == destination[b]
<1>1. PICK a \in CatalogIds : c[<<"MATERIALS.sha256", 0>>] = <<a>> /\ \A f \in Places : c[f] = Made[a][f]
  BY DEF Valid, Listed
<1>2. a = b
  BY <1>1 DEF Valid
<1>3. c = [f \in Places |-> c[f]]
  BY DEF CatalogTypes
<1>4. c = Made[b]
  BY <1>1, <1>2, <1>3, CatalogAssumption
<1>5. PinnedBuild(c)
  <2>1. \A i \in Libs : Library(c, i)
    BY DEF Valid
  <2> QED BY <2>1 DEF Valid, PinnedBuild, Library, VerifiedSources
<1>6. \A f \in Paths : c[f] # Missing
  BY DEF Valid, Places
<1> QED BY <1>4, <1>5, <1>6, GenuineAssumption DEF IsGenuine

\* So a destination that is valid is complete: its copy, if one is still under
\* way, has nothing left to write.
LEMMA ValidIsKept ==
    ASSUME CatalogTypes, DestinationInv, NEW b \in made, Valid(destination[b], b)
    PROVE  Frozen(b)
<1>1. b \in CatalogIds
  BY DEF CatalogTypes
<1>2. IsGenuine(b) /\ \A f \in Paths : destination[b][f] # Missing
  BY <1>1, ValidIsGenuine
<1>3. ASSUME NEW p \in Collectors, Copies(p, b), copied[p] # CopyEnd PROVE FALSE
  <2>1. copied[p] \in 0 .. CopyEnd - 1 /\ CopyEnd \in 2 .. CopyEnd
    BY <1>3, CopyOrderFacts DEF CatalogTypes
  <2>2. CopyEnd \in 1 .. CopyEnd /\ CopyEnd > copied[p]
    BY <2>1, CopyOrderFacts
  <2>3. destination[b][CopyOrder[CopyEnd]] = Missing
    BY <1>3, <2>2 DEF DestinationInv, Copies
  <2> QED BY <1>2, <2>1, <2>3, CopyOrderFacts
<1> QED BY <1>2, <1>3 DEF Frozen

\* It holds at first.
LEMMA CatalogInvInit == CatalogInit => CatalogInv
<1> SUFFICES ASSUME CatalogInit PROVE CatalogInv
  OBVIOUS
<1>1. CatalogTypes
  BY CopyOrderFacts DEF CatalogInit, CatalogTypes, NoCatalog
<1>2. DestinationInv
  BY <1>1 DEF CatalogInit, DestinationInv, Copies
<1> QED BY <1>1, <1>2 DEF CatalogInit, CatalogInv

\* A step that leaves the destinations alone and begins no copy keeps what is
\* kept, and what was accepted.
LEMMA KeptByOthers ==
    ASSUME CatalogInv, destination' = destination, made \subseteq made', accepted' = accepted,
           \A p \in Collectors, b \in made : Copies(p, b)' => Copies(p, b) /\ copied'[p] = copied[p]
    PROVE  /\ \A b : Frozen(b) => Frozen(b)'
           /\ \A claim \in accepted' :
                /\ Frozen(claim.id)' /\ claim.archive = Made[claim.id][<<"lib", claim.lib>>]
                /\ \A i \in Libs : \E r \in accepted' : r.id = claim.id /\ r.lib = i
<1>1. ASSUME NEW b, Frozen(b) PROVE Frozen(b)'
  BY <1>1 DEF Frozen, IsGenuine
<1> QED BY <1>1 DEF CatalogInv

\* Looking at catalogs, the builder and the packager change no destination.
LEMMA CatalogLooks ==
    CatalogInv /\ (Claim \/ Install \/ DamageFile \/ \E p \in Collectors :
                     FindInstalled(p) \/ CheckCatalog(p) \/ CopyEnds(p) \/ KillCollector(p))
      => CatalogInv'
<1> SUFFICES ASSUME CatalogInv,
                    Claim \/ Install \/ DamageFile \/ \E p \in Collectors :
                       FindInstalled(p) \/ CheckCatalog(p) \/ CopyEnds(p) \/ KillCollector(p)
             PROVE  CatalogInv'
  OBVIOUS
<1>1. UNCHANGED <<destination, made, copied, reported, accepted>>
  BY DEF Claim, Install, DamageFile, FindInstalled, CheckCatalog, CopyEnds, KillCollector, collectorVars
<1>2. CatalogTypes /\ DestinationInv
  BY DEF CatalogInv
<1>3. buildId' \in CatalogIds
  BY <1>2 DEF CatalogTypes, Claim, Install, DamageFile, FindInstalled, CheckCatalog, CopyEnds,
              KillCollector, builderVars
<1>4. \A claim \in claims' : claim.id \in CatalogIds
  <2>1. CASE Claim
    <3>1. PICK b \in reported, i \in Libs : \E a \in {Made[b][<<"lib", i>>], linked[i]} :
             claims' = claims \cup {[id |-> b, lib |-> i, archive |-> a,
                                     notices |-> Made[b][<<"licenses", i>>]]}
      BY <2>1 DEF Claim
    <3>2. b \in CatalogIds
      BY <1>2 DEF CatalogTypes
    <3> QED BY <1>2, <3>1, <3>2 DEF CatalogTypes
  <2>2. CASE ~Claim
    BY <1>2, <2>2 DEF CatalogTypes, Install, DamageFile, FindInstalled, CheckCatalog, CopyEnds,
                      KillCollector
  <2> QED BY <2>1, <2>2
<1>5. /\ cpc' \in [Collectors -> {"idle", "found", "make", "copy", "recheck"}]
      /\ cid' \in [Collectors -> CatalogIds]
      /\ \A p \in Collectors : /\ cpc'[p] = "copy" => cpc[p] = "copy"
                               /\ cpc'[p] = "recheck" => cpc[p] \in {"copy", "recheck"} \/ cid[p] \in made
                               /\ cpc'[p] \in {"copy", "recheck"} => cid'[p] = cid[p]
  <2>1. CASE Claim \/ Install \/ DamageFile
    BY <1>2, <2>1 DEF CatalogTypes, Claim, Install, DamageFile, collectorVars
  <2>2. ASSUME NEW p \in Collectors, FindInstalled(p) \/ CheckCatalog(p) \/ CopyEnds(p) \/ KillCollector(p)
        PROVE  <1>5!1 /\ <1>5!2 /\ <1>5!3
    BY <1>2, <2>2 DEF CatalogTypes, FindInstalled, CheckCatalog, CopyEnds, KillCollector, StepTo, GiveUp
  <2> QED BY <2>1, <2>2
<1>6. CatalogTypes'
  BY <1>1, <1>2, <1>3, <1>4, <1>5 DEF CatalogTypes
<1>7. \A p \in Collectors, b \in CatalogIds : Copies(p, b)' => Copies(p, b)
  BY <1>5 DEF Copies
<1>8. DestinationInv'
  <2>1. \A p \in Collectors : cpc'[p] \in {"copy", "recheck"} => cid'[p] \in made'
    BY <1>1, <1>2, <1>5 DEF DestinationInv
  <2>2. \A p, q \in Collectors, b \in CatalogIds : Copies(p, b)' /\ Copies(q, b)' => p = q
    BY <1>2, <1>7 DEF DestinationInv
  <2>3. \A p \in Collectors : cpc'[p] = "copy" =>
           \A i \in 1 .. CopyEnd : i > copied'[p] => destination'[cid'[p]][CopyOrder[i]] = Missing
    BY <1>1, <1>2, <1>5 DEF DestinationInv
  <2> QED BY <1>1, <1>2, <2>1, <2>2, <2>3 DEF DestinationInv
<1>9. \A p \in Collectors, b \in made : Copies(p, b)' => Copies(p, b) /\ copied'[p] = copied[p]
  BY <1>1, <1>2, <1>7 DEF CatalogTypes
<1> QED BY <1>1, <1>6, <1>8, <1>9, KeptByOthers DEF CatalogInv

\* A collector copies to a directory that nobody else copies to.
LEMMA CatalogMakeDestination ==
    CatalogInv /\ (\E p \in Collectors : MakeDestination(p)) => CatalogInv'
<1> SUFFICES ASSUME CatalogInv, NEW p \in Collectors, MakeDestination(p) PROVE CatalogInv'
  OBVIOUS
<1>1. UNCHANGED <<buildId, destination, cid, reported, claims, accepted>> /\ made \subseteq made'
  BY DEF MakeDestination, builderVars
<1>2. CatalogTypes /\ DestinationInv
  BY DEF CatalogInv
<1>3. CASE cid[p] \in made
  <2>1. UNCHANGED <<made, copied>> /\ cpc' = [cpc EXCEPT ![p] = "idle"]
    BY <1>3 DEF MakeDestination, GiveUp
  <2>2. CatalogTypes'
    BY <1>1, <1>2, <2>1 DEF CatalogTypes
  <2>3. \A q \in Collectors, b \in CatalogIds : Copies(q, b)' => Copies(q, b)
    BY <1>1, <1>2, <2>1 DEF Copies, CatalogTypes
  <2>4. DestinationInv'
    BY <1>1, <1>2, <2>1, <2>3 DEF DestinationInv, CatalogTypes
  <2>5. \A q \in Collectors, b \in made : Copies(q, b)' => Copies(q, b) /\ copied'[q] = copied[q]
    BY <1>2, <2>1, <2>3 DEF CatalogTypes
  <2> QED BY <1>1, <2>2, <2>4, <2>5, KeptByOthers DEF CatalogInv
<1>4. CASE cid[p] \notin made
  <2>1. /\ made' = made \cup {cid[p]} /\ cpc' = [cpc EXCEPT ![p] = "copy"]
        /\ copied' = [copied EXCEPT ![p] = 0] /\ cpc[p] = "make"
    BY <1>4 DEF MakeDestination, StepTo
  <2>2. CatalogTypes'
    BY <1>1, <1>2, <2>1, CopyOrderFacts DEF CatalogTypes
  <2>3. \A q \in Collectors : q # p => cpc'[q] = cpc[q] /\ copied'[q] = copied[q]
    BY <1>2, <2>1 DEF CatalogTypes
  <2>4. \A q \in Collectors, b \in CatalogIds : Copies(q, b)' => Copies(q, b) \/ (q = p /\ b = cid[p])
    BY <1>1, <2>3 DEF Copies
  <2>5. \A q \in Collectors : ~Copies(q, cid[p])
    BY <1>2, <1>4 DEF Copies, DestinationInv
  <2>6. \A f \in Places : destination[cid[p]][f] = Missing
    BY <1>2, <1>4 DEF DestinationInv, NoCatalog, CatalogTypes
  <2>7. DestinationInv'
    <3>1. \A b \in CatalogIds \ made' : destination'[b] = NoCatalog
      BY <1>1, <1>2, <2>1 DEF DestinationInv
    <3>2. \A q \in Collectors : cpc'[q] \in {"copy", "recheck"} => cid'[q] \in made'
      BY <1>1, <1>2, <2>1, <2>3 DEF DestinationInv
    <3>3. \A q, o \in Collectors, b \in CatalogIds : Copies(q, b)' /\ Copies(o, b)' => q = o
      BY <1>2, <2>4, <2>5 DEF DestinationInv
    <3>4. ASSUME NEW q \in Collectors, cpc'[q] = "copy", NEW i \in 1 .. CopyEnd, i > copied'[q]
          PROVE  destination[cid[q]][CopyOrder[i]] = Missing
      <4>1. CASE q = p
        BY <2>6, <4>1, CopyOrderFacts
      <4>2. CASE q # p
        BY <1>2, <2>3, <3>4, <4>2 DEF DestinationInv
      <4> QED BY <4>1, <4>2
    <3> QED BY <1>1, <3>1, <3>2, <3>3, <3>4 DEF DestinationInv
  <2>8. \A q \in Collectors, b \in made : Copies(q, b)' => Copies(q, b) /\ copied'[q] = copied[q]
    BY <1>2, <1>4, <2>1, <2>3, <2>4 DEF CatalogTypes, Copies
  <2> QED BY <1>1, <2>2, <2>7, <2>8, KeptByOthers DEF CatalogInv
<1> QED BY <1>3, <1>4

\* A copy writes a file that was not there, so to no valid catalog.
LEMMA CatalogCopyFile == CatalogInv /\ (\E p \in Collectors : CopyFile(p)) => CatalogInv'
<1> SUFFICES ASSUME CatalogInv, NEW p \in Collectors, CopyFile(p) PROVE CatalogInv'
  OBVIOUS
<1> DEFINE d == cid[p]
           k == copied[p] + 1
           f == CopyOrder[k]
<1>1. UNCHANGED <<buildId, made, cpc, cid, reported, claims, accepted>>
  BY DEF CopyFile, builderVars
<1>2. CatalogTypes /\ DestinationInv
  BY DEF CatalogInv
<1>3. cpc[p] = "copy" /\ k \in 1 .. CopyEnd /\ f \in Places /\ d \in CatalogIds /\ copied[p] \in Nat
  BY <1>2, CopyOrderFacts DEF CopyFile, CatalogTypes
<1>4. PICK v : destination' = [destination EXCEPT ![d][f] = v]
  BY DEF CopyFile
<1>5. copied' = [copied EXCEPT ![p] = k]
  BY DEF CopyFile
<1> HIDE DEF k, f, d
<1>6. /\ \A b \in CatalogIds, g \in Places : b # d \/ g # f => destination'[b][g] = destination[b][g]
      /\ \A b \in CatalogIds : b # d => destination'[b] = destination[b]
  BY <1>2, <1>3, <1>4 DEF CatalogTypes
<1>7. CatalogTypes'
  <2>1. destination' = [b \in CatalogIds |-> [g \in Places |-> destination'[b][g]]]
    BY <1>2, <1>3, <1>4 DEF CatalogTypes
  <2>2. copied' \in [Collectors -> 0 .. CopyEnd]
    BY <1>2, <1>3, <1>5 DEF CatalogTypes
  <2> QED BY <1>1, <1>2, <2>1, <2>2 DEF CatalogTypes
<1>8. \A q \in Collectors, b \in CatalogIds : Copies(q, b)' <=> Copies(q, b)
  BY <1>1 DEF Copies
<1>9. Copies(p, d) /\ d \in made
  BY <1>2, <1>3 DEF Copies, DestinationInv, d
<1>10. DestinationInv'
  <2>1. \A b \in CatalogIds \ made' : destination'[b] = NoCatalog
    BY <1>1, <1>2, <1>6, <1>9 DEF DestinationInv
  <2>2. ASSUME NEW q \in Collectors, cpc[q] = "copy", NEW i \in 1 .. CopyEnd, i > copied'[q]
        PROVE  destination'[cid[q]][CopyOrder[i]] = Missing
    <3>1. cid[q] \in CatalogIds /\ CopyOrder[i] \in Places /\ i \in Nat
      BY <1>2, CopyOrderFacts DEF CatalogTypes
    <3>2. CASE q = p
      <4>1. i > k /\ i > copied[p]
        BY <1>2, <1>3, <1>5, <2>2, <3>1, <3>2 DEF CatalogTypes, k
      <4>2. CopyOrder[i] # f
        BY <1>3, <3>1, <4>1, CopyOrderFacts DEF f
      <4> QED BY <1>2, <1>3, <1>6, <3>1, <3>2, <4>1, <4>2 DEF DestinationInv, d
    <3>3. CASE q # p
      <4>1. copied'[q] = copied[q]
        BY <1>2, <1>5, <3>3 DEF CatalogTypes
      <4>2. cid[q] # d
        BY <1>2, <1>9, <2>2, <3>1, <3>3 DEF DestinationInv, Copies
      <4> QED BY <1>2, <1>6, <2>2, <3>1, <4>1, <4>2 DEF DestinationInv
    <3> QED BY <3>2, <3>3
  <2> QED BY <1>1, <1>2, <1>8, <2>1, <2>2 DEF DestinationInv
<1>11. \A b : Frozen(b) => Frozen(b)'
  <2> SUFFICES ASSUME NEW b, Frozen(b) PROVE Frozen(b)'
    OBVIOUS
  <2>1. b # d
    BY <1>3, <1>9, CopyOrderFacts DEF Frozen, k
  <2>2. b \in CatalogIds
    BY <1>2 DEF Frozen, CatalogTypes
  <2>3. \A q \in Collectors : Copies(q, b) => copied'[q] = copied[q]
    BY <1>2, <1>5, <1>9, <2>1 DEF Copies, CatalogTypes
  <2> QED BY <1>1, <1>6, <1>8, <2>1, <2>2, <2>3 DEF Frozen, IsGenuine
<1> QED BY <1>1, <1>7, <1>10, <1>11 DEF CatalogInv

\* A collector reports what it has validated itself.
LEMMA CatalogRecheck == CatalogInv /\ (\E p \in Collectors : Recheck(p)) => CatalogInv'
<1> SUFFICES ASSUME CatalogInv, NEW p \in Collectors, Recheck(p) PROVE CatalogInv'
  OBVIOUS
<1>1. UNCHANGED <<buildId, destination, made, cid, copied, claims, accepted>>
  BY DEF Recheck, builderVars
<1>2. CatalogTypes /\ DestinationInv
  BY DEF CatalogInv
<1>3. cpc[p] = "recheck" /\ cpc' = [cpc EXCEPT ![p] = "idle"]
  BY DEF Recheck, StepTo
<1>4. cid[p] \in made
  BY <1>2, <1>3 DEF DestinationInv
<1>5. CatalogTypes'
  BY <1>1, <1>2, <1>3, <1>4 DEF CatalogTypes, Recheck
<1>6. \A q \in Collectors, b \in CatalogIds : Copies(q, b)' => Copies(q, b)
  BY <1>1, <1>2, <1>3 DEF Copies, CatalogTypes
<1>7. DestinationInv'
  BY <1>1, <1>2, <1>3, <1>6 DEF DestinationInv, CatalogTypes
<1>8. \A q \in Collectors, b \in made : Copies(q, b)' => Copies(q, b) /\ copied'[q] = copied[q]
  BY <1>1, <1>2, <1>6 DEF CatalogTypes
<1>9. \A b \in reported' : Frozen(b)
  <2>1. ValidLinked(destination[cid[p]], cid[p]) => Frozen(cid[p])
    BY <1>2, <1>4, ValidIsKept DEF ValidLinked
  <2> QED BY <2>1 DEF Recheck, CatalogInv
<1> QED BY <1>1, <1>5, <1>7, <1>8, <1>9, KeptByOthers DEF CatalogInv

\* A release is accepted with catalogs that are frozen.
LEMMA CatalogValidateRelease == CatalogInv /\ ValidateRelease => CatalogInv'
<1> SUFFICES ASSUME CatalogInv, ValidateRelease PROVE CatalogInv'
  OBVIOUS
<1>1. UNCHANGED <<buildId, destination, made, cpc, cid, copied, reported, claims>>
  BY DEF ValidateRelease, builderVars, collectorVars
<1>2. CatalogTypes /\ DestinationInv
  BY DEF CatalogInv
<1>3. CatalogTypes' /\ DestinationInv'
  BY <1>1, <1>2 DEF CatalogTypes, DestinationInv, Copies
<1>4. \A b : Frozen(b) => Frozen(b)'
  BY <1>1 DEF Frozen, IsGenuine, Copies
<1>5. ASSUME NEW claim \in claims
      PROVE  /\ Frozen(claim.id) /\ claim.archive = Made[claim.id][<<"lib", claim.lib>>]
             /\ \A i \in Libs : \E r \in claims : r.id = claim.id /\ r.lib = i
  <2>1. Backed(claim) /\ claim.id \in made
    BY DEF ValidateRelease
  <2>2. Frozen(claim.id)
    BY <1>2, <2>1, ValidIsKept DEF Backed
  <2>3. {o.lib : o \in {r \in claims : r.id = claim.id}} = Libs
    BY <2>1 DEF ValidateRelease
  <2> QED BY <2>1, <2>2, <2>3 DEF Backed, Frozen, IsGenuine
<1>6. accepted' = claims
  BY DEF ValidateRelease
<1> QED BY <1>1, <1>3, <1>4, <1>5, <1>6 DEF CatalogInv

\* What collections report and releases claim are builds of the pinned sources,
\* whole, for any pins, any number of collectors and any damage.
THEOREM CryptoCatalogCorrect == CatalogSpec => []CatalogsAreGenuine
<1>1. CatalogInv /\ [CatalogNext]_catalogVars => CatalogInv'
  <2> SUFFICES ASSUME CatalogInv, [CatalogNext]_catalogVars PROVE CatalogInv'
    OBVIOUS
  <2>1. CASE UNCHANGED catalogVars
    BY <2>1 DEF catalogVars, builderVars, collectorVars, CatalogInv, CatalogTypes, DestinationInv, Copies,
                Frozen, IsGenuine
  <2> QED BY <2>1, CatalogLooks, CatalogMakeDestination, CatalogCopyFile, CatalogRecheck,
             CatalogValidateRelease DEF CatalogNext, Collector
<1>2. CatalogInv => CatalogsAreGenuine
  BY DEF CatalogInv, Frozen, CatalogsAreGenuine
<1> QED BY CatalogInvInit, <1>1, <1>2, PTL DEF CatalogSpec

(***************************************************************************)
(* RuntimeBundle.                                                          *)
(***************************************************************************)

(***************************************************************************)
(* The layout in bytes.                                                    *)
(***************************************************************************)

\* The marker is at least 98 and at most 1046 bytes long.
LEMMA ZipSizeBounds == zipSize \in Nat /\ 98 <= zipSize /\ zipSize <= 1046
BY MarkerAssumption DEF zipSize, EndSize

\* Rounding up to the alignment reaches a multiple, and does not go down.
LEMMA AlignUpIsAligned ==
    ASSUME NEW n \in Nat
    PROVE  /\ alignUp(n, pmemAlignment) \in Nat
           /\ n <= alignUp(n, pmemAlignment)
           /\ alignUp(n, pmemAlignment) % pmemAlignment = 0
<1> DEFINE q == (n + 2097152 - 1) \div 2097152
<1>1. q \in Nat /\ n <= q * 2097152
  OBVIOUS
<1>2. alignUp(n, pmemAlignment) = q * 2097152
  BY DEF alignUp, pmemAlignment
<1>3. (q * 2097152) % 2097152 = 0
  BY <1>1
<1> QED BY <1>1, <1>2, <1>3 DEF pmemAlignment

\* The padding is never negative, whatever the input's size.
LEMMA PaddingIsNatural ==
    ASSUME NEW n \in Nat
    PROVE  paddingSize(n) \in Nat
<1>1. n + zipSize \in Nat
  BY ZipSizeBounds
<1>2. /\ alignUp(n + zipSize, pmemAlignment) \in Nat
      /\ n + zipSize <= alignUp(n + zipSize, pmemAlignment)
  BY <1>1, AlignUpIsAligned
<1> QED BY <1>2, ZipSizeBounds DEF paddingSize, prefixSize

(***************************************************************************)
(* The inductive invariant.                                                *)
(***************************************************************************)

\* A bundle of an image and some padding that ends at a boundary.
Aligned(f) ==
    \E i \in Images, p \in Nat : /\ f = File(i, SizeOf[i], p)
                                 /\ FileSize(f) % pmemAlignment = 0

\* A builder's notes of its input, and what it has named.
BuildInv ==
    /\ input \in Images
    /\ taken \in [Builders -> Images]
    /\ statSize \in [Builders -> Nat]
    /\ output = NoFile \/ Aligned(output)

\* Every bundle that a builder makes of what it took has natural numbers in it.
LEMMA BuiltIsFile ==
    ASSUME BuildInv, NEW b \in Builders
    PROVE  \E p \in Nat : Built(b) = File(taken[b], SizeOf[taken[b]], p)
<1>1. statSize[b] \in Nat
  BY DEF BuildInv
<1>2. paddingSize(statSize[b]) \in Nat
  BY <1>1, PaddingIsNatural
<1> QED BY <1>2 DEF Built

\* No bundle has the output's name at first.
LEMMA BuildInit == RuntimeInit => BuildInv
BY SizeAssumption DEF RuntimeInit, BuildInv

\* BuildInv is inductive: only Finish gives a bundle its name.
LEMMA BuildStep == BuildInv /\ [RuntimeNext]_runtimeVars => BuildInv'
<1> SUFFICES ASSUME BuildInv, [RuntimeNext]_runtimeVars PROVE BuildInv'
  OBVIOUS
<1>1. ASSUME NEW b \in Builders, Open(b) PROVE BuildInv'
  BY <1>1, SizeAssumption DEF BuildInv, Open, Aligned, FileSize, File, Named, zipSize
<1>2. ASSUME NEW b \in Builders, Copy(b) PROVE BuildInv'
  <2>1. \E i \in Images : taken' = [taken EXCEPT ![b] = i]
    BY <1>2 DEF BuildInv, Copy
  <2>2. taken' \in [Builders -> Images]
    BY <2>1 DEF BuildInv
  <2> QED BY <1>2, <2>2 DEF BuildInv, Copy, Aligned
<1>3. ASSUME NEW b \in Builders, Finish(b) PROVE BuildInv'
  <2>1. input' = input /\ taken' = taken /\ statSize' = statSize
    BY <1>3 DEF Finish
  <2>2. taken[b] \in Images
    BY DEF BuildInv
  <2>3. CASE FileSize(Built(b)) % pmemAlignment = 0
    <3>1. output' = Built(b)
      BY <1>3, <2>3 DEF Finish
    <3>2. Aligned(Built(b))
      BY <2>2, <2>3, BuiltIsFile DEF Aligned
    <3>3. Aligned(output)'
      BY <3>1, <3>2 DEF Aligned
    <3> QED BY <2>1, <3>3 DEF BuildInv
  <2>4. CASE ~(FileSize(Built(b)) % pmemAlignment = 0)
    <3>1. output' = output
      BY <1>3, <2>4 DEF Finish
    <3> QED BY <2>1, <3>1 DEF BuildInv, Aligned
  <2> QED BY <2>3, <2>4
<1>4. ASSUME NEW b \in Builders, KillBuilder(b) PROVE BuildInv'
  BY <1>4 DEF BuildInv, KillBuilder, Aligned
<1>5. ASSUME NEW r \in Readers, Reader(r) \/ DamageReceived(r) PROVE BuildInv'
  <2>1. UNCHANGED buildVars
    BY <1>5 DEF Reader, Receive, Verify, Extract, SkipPayload, Cat, CheckAbi, ToolFails,
                ReadAgain, DamageReceived
  <2> QED BY <2>1 DEF BuildInv, buildVars, Aligned
<1>6. ASSUME WriteInput PROVE BuildInv'
  BY <1>6 DEF BuildInv, WriteInput, Aligned
<1>7. ASSUME UNCHANGED runtimeVars PROVE BuildInv'
  BY <1>7 DEF BuildInv, runtimeVars, buildVars, Aligned
<1> QED BY <1>1, <1>2, <1>3, <1>4, <1>5, <1>6, <1>7 DEF RuntimeNext, Builder

(***************************************************************************)
(* What verify_bundle recomputes from the end of the file is the layout.   *)
(***************************************************************************)

\* A file that holds a whole entry, directory and end at a boundary, and
\* begins with EROFS, is what verify_bundle accepts: in particular the prefix
\* is long enough to hold the magic.
LEMMA AlignedVerifies ==
    ASSUME NEW f, Aligned(f), IsErofs[f.prefix.image]
    PROVE  verify_bundle(f)
<1>1. PICK i \in Images, p \in Nat : /\ f = File(i, SizeOf[i], p)
                                     /\ FileSize(f) % pmemAlignment = 0
  BY DEF Aligned
<1> DEFINE n == SizeOf[i]
<1>2. n \in Nat
  BY SizeAssumption
<1>3. /\ f.prefix = Named(i, n, p) /\ f.digest = f.prefix
      /\ f.markers = 1 /\ f.comment = 0
      /\ f.prefix.size = n /\ f.prefix.padding = p
  BY <1>1 DEF File, Named
<1>4. f # NoFile
  <2>1. NoFile.markers = 0
    BY DEF NoFile, File, Named
  <2> QED BY <1>3, <2>1
<1>5. FileSize(f) = n + p + zipSize
  BY <1>2, <1>3, ZipSizeBounds DEF FileSize
<1>6. FileSize(f) \in Nat /\ 0 < FileSize(f) /\ FileSize(f) - zipSize = n + p
  BY <1>2, <1>5, ZipSizeBounds
<1>7. 2097152 <= FileSize(f)
  BY <1>1, <1>6 DEF pmemAlignment
<1>8. FileSize(f) - EndSize - CentralSize - LocalSize = n + p
  <2>1. LocalSize \in Nat /\ CentralSize \in Nat /\ EndSize \in Nat
    BY MarkerAssumption DEF EndSize
  <2>2. n + p \in Nat /\ FileSize(f) = (n + p) + (LocalSize + CentralSize + EndSize)
    BY <1>2, <1>5 DEF zipSize
  <2> QED BY <2>1, <2>2
<1>9. n + p > 1028
  BY <1>2, <1>5, <1>7, ZipSizeBounds
<1> QED BY <1>1, <1>3, <1>4, <1>6, <1>8, <1>9, MarkerAssumption DEF verify_bundle

\* Whatever was written to its input while it was copied, whoever raced for the
\* name: a bundle of EROFS that has the output's name passes verify_bundle.
THEOREM BuiltCorrect == RuntimeSpec => []BuiltVerifies
<1>1. BuildInv => BuiltVerifies
  BY AlignedVerifies DEF BuildInv, BuiltVerifies
<1> QED BY BuildInit, BuildStep, <1>1, PTL DEF RuntimeSpec

\* The layout that Build computes from the input's size is one it accepts
\* itself: as long as the file has the size it had at first, the last check of
\* Build does not refuse it, whatever that size is.
THEOREM SteadyInputIsBuilt ==
    ASSUME NEW b \in Builders, BuildInv, SizeOf[taken[b]] = statSize[b], Finish(b)
    PROVE  output' = Built(b)
<1> DEFINE n == statSize[b]
<1>1. n \in Nat /\ n + zipSize \in Nat
  BY ZipSizeBounds DEF BuildInv
<1>2. /\ alignUp(n + zipSize, pmemAlignment) \in Nat
      /\ alignUp(n + zipSize, pmemAlignment) % pmemAlignment = 0
  BY <1>1, AlignUpIsAligned
<1>3. FileSize(Built(b)) = n + paddingSize(n) + zipSize
  <2>1. /\ Built(b).prefix.size = n /\ Built(b).prefix.padding = paddingSize(n)
        /\ Built(b).comment = 0
    BY DEF Built, File, Named
  <2> QED BY <1>1, <2>1, PaddingIsNatural, ZipSizeBounds DEF FileSize
<1>4. n + paddingSize(n) + zipSize = alignUp(n + zipSize, pmemAlignment)
  BY <1>1, <1>2, ZipSizeBounds DEF paddingSize, prefixSize
<1> QED BY <1>2, <1>3, <1>4 DEF Finish

(***************************************************************************)
(* Reading a bundle: what each step of a reader has established of its     *)
(* own copy, which nothing changes once it is verified.                    *)
(***************************************************************************)
PrefixRecords    == [image : Images \cup {"none"}, size : Nat, padding : Nat]
BundleCopies == [prefix : PrefixRecords, digest : PrefixRecords, markers : Nat, comment : Nat]
ReaderSteps == {"idle", "verify", "extract", "payload", "abi", "accepted", "failed"}

ReadTypes ==
    /\ received \in [Readers -> BundleCopies]
    /\ rpc \in [Readers -> ReaderSteps]
    /\ contract \in [Readers -> BOOLEAN]
    /\ label \in [Readers -> 1 .. 4]
    /\ DOMAIN got = Readers /\ \A r \in Readers : DOMAIN got[r] = LabelSet

\* A payload that was read whole.
Fetched(r, l) == /\ l \in DOMAIN PayloadsOf(r)
                 /\ PayloadsOf(r)[l].regular /\ PayloadsOf(r)[l].private
                 /\ got[r][l] = PayloadsOf(r)[l].size

ReaderInv(r) ==
    /\ rpc[r] \notin {"idle", "failed"} => received[r].prefix.image \in Images
    /\ rpc[r] \in {"idle", "verify", "extract"} => label[r] = 1
    /\ rpc[r] \in {"extract", "payload", "abi", "accepted"} => verify_bundle(received[r])
    /\ rpc[r] \in {"payload", "abi", "accepted"} =>
          /\ FsckPasses[received[r].prefix.image]
          /\ contract[r] => "mkfs.erofs" \notin DOMAIN PayloadsOf(r)
    /\ rpc[r] = "payload" =>
          \A i \in 1 .. label[r] - 1 : Labels[i] \in Wanted(r) => Fetched(r, Labels[i])
    /\ rpc[r] \in {"abi", "accepted"} => \A l \in Wanted(r) : Fetched(r, l)
    /\ rpc[r] = "accepted" => \A l \in Static \cup {"init"} : Fits(PayloadsOf(r)[l], l)

ReadInv == ReadTypes /\ \A r \in Readers : ReaderInv(r)

\* What a reader has established is about its own part of the state.
LEMMA ReaderFrame ==
    ASSUME NEW q, ReaderInv(q),
           received'[q] = received[q], rpc'[q] = rpc[q], contract'[q] = contract[q],
           label'[q] = label[q], got'[q] = got[q]
    PROVE  ReaderInv(q)'
<1>1. Wanted(q)' = Wanted(q) /\ PayloadsOf(q)' = PayloadsOf(q)
  BY DEF Wanted, PayloadsOf
<1>2. \A l : Fetched(q, l)' <=> Fetched(q, l)
  BY <1>1 DEF Fetched
<1>3. verify_bundle(received[q])' <=> verify_bundle(received[q])
  BY DEF verify_bundle, FileSize, zipSize, NoFile, File, Named
<1> QED BY <1>1, <1>2, <1>3 DEF ReaderInv

\* The labels of payloads are four.
LEMMA FourLabels ==
    /\ Labels[1] = "init" /\ Labels[2] = "envd" /\ Labels[3] = "mkfs.erofs"
    /\ Labels[4] = "flatten-ctl"
    /\ LabelSet = {"init", "envd", "mkfs.erofs", "flatten-ctl"}
<1>1. /\ Labels[1] = "init" /\ Labels[2] = "envd" /\ Labels[3] = "mkfs.erofs"
      /\ Labels[4] = "flatten-ctl"
  BY DEF Labels
<1>2. 1 .. 4 = {1, 2, 3, 4}
  OBVIOUS
<1> QED BY <1>1, <1>2 DEF LabelSet

\* What builders name is a bundle.
LEMMA OutputIsFile == BuildInv => output \in BundleCopies
<1>1. ASSUME NEW i \in Images \cup {"none"}, NEW n \in Nat, NEW p \in Nat
      PROVE  File(i, n, p) \in BundleCopies
  BY DEF File, Named, BundleCopies, PrefixRecords
<1>2. NoFile \in BundleCopies
  <2>1. File("none", 0, 0) \in BundleCopies
    BY <1>1
  <2> QED BY <2>1 DEF NoFile, BundleCopies
<1> SUFFICES ASSUME BuildInv PROVE output \in BundleCopies
  OBVIOUS
<1>3. CASE output = NoFile
  BY <1>2, <1>3
<1>4. CASE Aligned(output)
  <2>1. PICK i \in Images, p \in Nat : output = File(i, SizeOf[i], p)
    BY <1>4 DEF Aligned
  <2>2. SizeOf[i] \in Nat
    BY SizeAssumption
  <2> QED BY <1>1, <2>1, <2>2
<1> QED BY <1>3, <1>4 DEF BuildInv

\* Before anything is read.
LEMMA ReadInit == RuntimeInit => ReadInv
<1> SUFFICES ASSUME RuntimeInit PROVE ReadInv
  OBVIOUS
<1>1. output = NoFile /\ output \in BundleCopies
  BY BuildInit, OutputIsFile DEF RuntimeInit
<1>2. ReadTypes
  BY <1>1 DEF RuntimeInit, ReadTypes, ReaderSteps, Nothing
<1>3. ASSUME NEW r \in Readers PROVE ReaderInv(r)
  BY DEF RuntimeInit, ReaderInv
<1> QED BY <1>2, <1>3 DEF ReadInv

\* A reader that gives up, or begins anew, has established nothing.
LEMMA ReaderEnds ==
    ASSUME NEW r, rpc'[r] = "failed" \/ (rpc'[r] = "idle" /\ label'[r] = 1)
    PROVE  ReaderInv(r)'
  BY DEF ReaderInv

\* The step of one reader is the step of one reader.
LEMMA OneReader ==
    ASSUME ReadInv, NEW r \in Readers, ReadTypes', ReaderInv(r)',
           \A q \in Readers \ {r} : /\ received'[q] = received[q] /\ rpc'[q] = rpc[q]
                                    /\ contract'[q] = contract[q] /\ label'[q] = label[q]
                                    /\ got'[q] = got[q]
    PROVE  ReadInv'
<1>1. ASSUME NEW q \in Readers, q # r PROVE ReaderInv(q)'
  BY <1>1, ReaderFrame DEF ReadInv
<1> QED BY <1>1 DEF ReadInv

\* A reader takes a copy of the bundle, while its label is the first.
LEMMA ReceiveReads == ASSUME BuildInv, ReadInv, NEW r \in Readers, Receive(r) PROVE ReadInv'
<1>1. /\ rpc[r] = "idle" /\ rpc' = [rpc EXCEPT ![r] = "verify"]
      /\ received' = [received EXCEPT ![r] = output]
      /\ \E w \in BOOLEAN : contract' = [contract EXCEPT ![r] = w]
      /\ label' = label /\ got' = got
  BY DEF Receive, GoTo
<1>2. ReadTypes'
  BY <1>1, OutputIsFile DEF ReadInv, ReadTypes, ReaderSteps
<1>3. rpc'[r] = "verify" /\ label'[r] = 1 /\ received'[r] = output
  BY <1>1 DEF ReadInv, ReadTypes, ReaderInv
<1>4. output.prefix.image \in Images
  <2>1. PICK i \in Images, p \in Nat : output = File(i, SizeOf[i], p)
    BY DEF Receive, BuildInv, Aligned
  <2> QED BY <2>1 DEF File, Named
<1>5. ReaderInv(r)'
  BY <1>3, <1>4 DEF ReaderInv
<1> QED BY <1>1, <1>2, <1>5, OneReader DEF ReadInv, ReadTypes

\* Where only the step of a reader moves on, its types are kept.
LEMMA StepTypes ==
    ASSUME ReadInv, NEW r \in Readers, NEW from, NEW ok, NEW to \in ReaderSteps,
           GoTo(r, from, ok, to), UNCHANGED <<received, contract, label, got>>
    PROVE  /\ ReadTypes'
           /\ rpc'[r] = IF ok THEN to ELSE "failed"
           /\ \A q \in Readers \ {r} : rpc'[q] = rpc[q]
<1> DEFINE n == IF ok THEN to ELSE "failed"
<1>1. rpc' = [rpc EXCEPT ![r] = n] /\ n \in ReaderSteps
  BY DEF GoTo, ReaderSteps
<1>2. rpc \in [Readers -> ReaderSteps]
  BY DEF ReadInv, ReadTypes
<1> HIDE DEF n
<1>3. /\ rpc' \in [Readers -> ReaderSteps] /\ rpc'[r] = n
      /\ \A q \in Readers \ {r} : rpc'[q] = rpc[q]
  BY <1>1, <1>2
<1>4. ReadTypes'
  BY <1>3 DEF ReadInv, ReadTypes
<1> QED BY <1>3, <1>4 DEF n

\* What verify_bundle has accepted, it would accept again.
LEMMA VerifyReads == ASSUME ReadInv, NEW r \in Readers, Verify(r) PROVE ReadInv'
<1> DEFINE ok == verify_bundle(received[r])
<1>1. GoTo(r, "verify", ok, "extract") /\ UNCHANGED <<received, contract, label, got>>
  BY DEF Verify
<1>2. rpc[r] = "verify"
  BY <1>1 DEF GoTo
<1>3. ok' <=> ok
  BY <1>1 DEF verify_bundle, FileSize, zipSize, NoFile, File, Named
<1> HIDE DEF ok
<1>4. /\ ReadTypes' /\ rpc'[r] = (IF ok THEN "extract" ELSE "failed")
      /\ \A q \in Readers \ {r} : rpc'[q] = rpc[q]
  BY <1>1, StepTypes DEF ReaderSteps
<1>5. CASE ok
  <2>1. rpc'[r] = "extract" /\ label'[r] = 1 /\ received'[r].prefix.image \in Images
    BY <1>1, <1>2, <1>4, <1>5 DEF ReadInv, ReaderInv
  <2>2. verify_bundle(received[r])'
    BY <1>3, <1>5 DEF ok
  <2>3. ReaderInv(r)'
    BY <2>1, <2>2 DEF ReaderInv
  <2> QED BY <1>1, <1>4, <2>3, OneReader
<1>6. CASE ~ok
  BY <1>1, <1>4, <1>6, ReaderEnds, OneReader
<1> QED BY <1>5, <1>6

\* Extraction ends with a tree of the contract that was asked for.
LEMMA ExtractReads == ASSUME ReadInv, NEW r \in Readers, Extract(r) PROVE ReadInv'
<1> DEFINE ok == /\ FsckPasses[received[r].prefix.image]
                 /\ contract[r] => /\ "mkfs.erofs" \notin DOMAIN PayloadsOf(r)
                                   /\ {"envd", "flatten-ctl"} \subseteq DOMAIN PayloadsOf(r)
<1>1. GoTo(r, "extract", ok, "payload") /\ UNCHANGED <<received, contract, label, got>>
  BY DEF Extract
<1>2. /\ rpc[r] = "extract" /\ label[r] = 1 /\ verify_bundle(received[r])
      /\ received[r].prefix.image \in Images
  BY <1>1 DEF GoTo, ReadInv, ReaderInv
<1>3. ok => /\ FsckPasses[received[r].prefix.image]
            /\ contract[r] => "mkfs.erofs" \notin DOMAIN PayloadsOf(r)
  OBVIOUS
<1> HIDE DEF ok
<1>4. /\ ReadTypes' /\ rpc'[r] = (IF ok THEN "payload" ELSE "failed")
      /\ \A q \in Readers \ {r} : rpc'[q] = rpc[q]
  BY <1>1, StepTypes DEF ReaderSteps
<1>5. CASE ok
  <2>1. rpc'[r] = "payload" /\ label'[r] = 1 /\ received'[r].prefix.image \in Images
    BY <1>1, <1>2, <1>4, <1>5
  <2>2. verify_bundle(received[r])'
    BY <1>1, <1>2 DEF verify_bundle, FileSize, zipSize, NoFile, File, Named
  <2>3. /\ FsckPasses[received[r].prefix.image]'
        /\ (contract[r] => "mkfs.erofs" \notin DOMAIN PayloadsOf(r))'
    BY <1>1, <1>3, <1>5 DEF PayloadsOf
  <2>4. \A i \in 1 .. label'[r] - 1 : FALSE
    BY <2>1
  <2>5. ReaderInv(r)'
    BY <2>1, <2>2, <2>3, <2>4 DEF ReaderInv
  <2> QED BY <1>1, <1>4, <2>5, OneReader
<1>6. CASE ~ok
  BY <1>1, <1>4, <1>6, ReaderEnds, OneReader
<1> QED BY <1>5, <1>6

\* What is known of the copy stays known while nothing changes it.
LEMMA KeptCopy ==
    ASSUME ReadInv, NEW r \in Readers, rpc[r] \in {"payload", "abi", "accepted"},
           UNCHANGED <<received, contract>>
    PROVE  /\ verify_bundle(received[r])' /\ FsckPasses[received[r].prefix.image]'
           /\ (contract[r] => "mkfs.erofs" \notin DOMAIN PayloadsOf(r))'
           /\ received'[r].prefix.image \in Images
<1>1. /\ verify_bundle(received[r]) /\ FsckPasses[received[r].prefix.image]
      /\ contract[r] => "mkfs.erofs" \notin DOMAIN PayloadsOf(r)
      /\ received[r].prefix.image \in Images
  BY DEF ReadInv, ReaderInv
<1>2. verify_bundle(received[r])'
  BY <1>1 DEF verify_bundle, FileSize, zipSize, NoFile, File, Named
<1>3. PayloadsOf(r)' = PayloadsOf(r)
  BY DEF PayloadsOf
<1> QED BY <1>1, <1>2, <1>3

\* A payload that is not wanted is passed over.
LEMMA SkipReads == ASSUME ReadInv, NEW r \in Readers, SkipPayload(r) PROVE ReadInv'
<1>1. /\ rpc[r] = "payload" /\ Labels[label[r]] \notin Wanted(r)
      /\ rpc' = [rpc EXCEPT ![r] = "payload"] /\ label' = [label EXCEPT ![r] = @ + 1]
      /\ UNCHANGED <<received, contract, got>>
  BY DEF SkipPayload, GoTo
<1>2. label[r] \in {1, 2, 3, 4} /\ contract[r] \in BOOLEAN
  <2>1. 1 .. 4 = {1, 2, 3, 4}
    OBVIOUS
  <2> QED BY <2>1 DEF ReadInv, ReadTypes
<1>3. label[r] = 3
  BY <1>1, <1>2, FourLabels DEF Wanted
<1>4. rpc'[r] = "payload" /\ label'[r] = 4
  BY <1>1, <1>3 DEF ReadInv, ReadTypes
<1>5. ReadTypes'
  <2>1. label' \in [Readers -> 1 .. 4]
    BY <1>1, <1>3 DEF ReadInv, ReadTypes
  <2> QED BY <1>1, <2>1 DEF ReadInv, ReadTypes, ReaderSteps
<1>6. /\ verify_bundle(received[r])' /\ FsckPasses[received[r].prefix.image]'
      /\ (contract[r] => "mkfs.erofs" \notin DOMAIN PayloadsOf(r))'
      /\ received'[r].prefix.image \in Images
  BY <1>1, KeptCopy
<1>7. ASSUME NEW i \in 1 .. label'[r] - 1, (Labels[i] \in Wanted(r))'
      PROVE  Fetched(r, Labels[i])'
  <2>1. i \in {1, 2, 3}
    BY <1>4
  <2>2. Labels[i] \in Wanted(r)
    BY <1>1, <1>7 DEF Wanted
  <2>3. i # 3
    BY <1>1, <1>3, <2>2
  <2>4. i \in 1 .. label[r] - 1
    BY <1>3, <2>1, <2>3
  <2>5. Fetched(r, Labels[i])
    BY <1>1, <2>2, <2>4 DEF ReadInv, ReaderInv
  <2> QED BY <1>1, <2>5 DEF Fetched, PayloadsOf
<1>8. ReaderInv(r)'
  BY <1>4, <1>6, <1>7 DEF ReaderInv
<1> QED BY <1>1, <1>5, <1>8, OneReader DEF ReadInv, ReadTypes

\* A payload that is read is one that was asked for, whole.
LEMMA CatReads == ASSUME ReadInv, NEW r \in Readers, Cat(r) PROVE ReadInv'
<1>0. PICK l : l = Labels[label[r]]
  OBVIOUS
<1> DEFINE to == IF AtLast(r) THEN "abi" ELSE "payload"
           lb == IF AtLast(r) THEN label[r] ELSE label[r] + 1
<1>1. PICK n : /\ rpc[r] = "payload" /\ l \in Wanted(r)
               /\ GoTo(r, "payload", /\ l \in DOMAIN PayloadsOf(r) /\ Regular(PayloadsOf(r)[l])
                                     /\ n = PayloadsOf(r)[l].size, to)
               /\ got' = [got EXCEPT ![r][l] = n]
               /\ label' = [label EXCEPT ![r] = lb]
               /\ UNCHANGED <<received, contract>>
  BY <1>0 DEF Cat
<1> DEFINE ok == /\ l \in DOMAIN PayloadsOf(r) /\ Regular(PayloadsOf(r)[l])
                 /\ n = PayloadsOf(r)[l].size
           st == IF ok THEN to ELSE "failed"
<1>2. rpc' = [rpc EXCEPT ![r] = st]
  BY <1>1 DEF GoTo
<1>3. label[r] \in {1, 2, 3, 4} /\ contract[r] \in BOOLEAN
  <2>1. 1 .. 4 = {1, 2, 3, 4}
    OBVIOUS
  <2> QED BY <2>1 DEF ReadInv, ReadTypes
<1>4. l \in LabelSet /\ label \in [Readers -> 1 .. 4] /\ rpc \in [Readers -> ReaderSteps]
  BY <1>0, <1>3, FourLabels DEF ReadInv, ReadTypes
<1>5. st \in {"abi", "payload", "failed"} /\ lb \in 1 .. 4
  BY <1>3 DEF AtLast
<1>6. /\ AtLast(r) => label[r] = 4 /\ to = "abi"
      /\ ~AtLast(r) => label[r] # 4 /\ to = "payload" /\ lb = label[r] + 1
  BY DEF AtLast
<1>7. ok => /\ l \in DOMAIN PayloadsOf(r) /\ PayloadsOf(r)[l].regular /\ PayloadsOf(r)[l].private
            /\ n = PayloadsOf(r)[l].size
  BY DEF Regular
<1>8. (ok => st = to) /\ (~ok => st = "failed")
  OBVIOUS
<1> HIDE DEF st, lb, to, ok
<1>9. /\ rpc'[r] = st /\ label'[r] = lb /\ rpc' \in [Readers -> ReaderSteps]
      /\ label' \in [Readers -> 1 .. 4]
      /\ \A q \in Readers \ {r} : rpc'[q] = rpc[q] /\ label'[q] = label[q]
  BY <1>1, <1>2, <1>4, <1>5 DEF ReaderSteps
<1>10. /\ DOMAIN got' = Readers /\ \A q \in Readers : DOMAIN got'[q] = LabelSet
       /\ \A q \in Readers \ {r} : got'[q] = got[q]
       /\ got'[r][l] = n /\ \A k \in LabelSet \ {l} : got'[r][k] = got[r][k]
  BY <1>1, <1>4 DEF ReadInv, ReadTypes
<1>11. ReadTypes'
  BY <1>1, <1>9, <1>10 DEF ReadInv, ReadTypes
<1>12. CASE ~ok
  BY <1>1, <1>8, <1>9, <1>10, <1>11, <1>12, ReaderEnds, OneReader
<1>13. CASE ok
  <2>1. rpc'[r] = to
    BY <1>8, <1>9, <1>13
  <2>2. /\ verify_bundle(received[r])' /\ FsckPasses[received[r].prefix.image]'
        /\ (contract[r] => "mkfs.erofs" \notin DOMAIN PayloadsOf(r))'
        /\ received'[r].prefix.image \in Images
    BY <1>1, KeptCopy
  <2>3. PayloadsOf(r)' = PayloadsOf(r) /\ Wanted(r)' = Wanted(r) /\ Wanted(r) \subseteq LabelSet
    BY <1>1 DEF PayloadsOf, Wanted
  <2>4. Fetched(r, l)'
    BY <1>7, <1>10, <1>13, <2>3 DEF Fetched
  <2>5. ASSUME NEW k \in Wanted(r), Fetched(r, k) PROVE Fetched(r, k)'
    <3>1. CASE k = l
      BY <2>4, <3>1
    <3>2. CASE k # l
      BY <1>10, <2>3, <2>5, <3>2 DEF Fetched
    <3> QED BY <3>1, <3>2
  <2>6. ASSUME NEW i \in 1 .. label[r], Labels[i] \in Wanted(r) PROVE Fetched(r, Labels[i])'
    <3>1. CASE i = label[r]
      BY <1>0, <2>4, <3>1
    <3>2. CASE i # label[r]
      <4>1. i \in 1 .. label[r] - 1
        BY <1>3, <3>2
      <4>2. Fetched(r, Labels[i])
        BY <1>1, <2>6, <4>1 DEF ReadInv, ReaderInv
      <4> QED BY <2>5, <2>6, <4>2
    <3> QED BY <3>1, <3>2
  <2>7. CASE AtLast(r)
    <3>1. rpc'[r] = "abi" /\ label[r] = 4
      BY <1>6, <2>1, <2>7
    <3>2. \A k \in Wanted(r) : \E i \in 1 .. 4 : k = Labels[i]
      BY DEF Wanted, LabelSet
    <3>3. \A k \in Wanted(r)' : Fetched(r, k)'
      BY <2>3, <2>6, <3>1, <3>2
    <3>4. ReaderInv(r)'
      BY <2>2, <3>1, <3>3 DEF ReaderInv
    <3> QED BY <1>1, <1>9, <1>10, <1>11, <3>4, OneReader
  <2>8. CASE ~AtLast(r)
    <3>1. rpc'[r] = "payload" /\ label'[r] = label[r] + 1
      BY <1>6, <1>9, <2>1, <2>8
    <3>2. label'[r] - 1 = label[r]
      BY <1>3, <3>1
    <3>3. \A i \in 1 .. label'[r] - 1 : Labels[i] \in Wanted(r)' => Fetched(r, Labels[i])'
      BY <2>3, <2>6, <3>2
    <3>4. ReaderInv(r)'
      BY <2>2, <3>1, <3>3 DEF ReaderInv
    <3> QED BY <1>1, <1>9, <1>10, <1>11, <3>4, OneReader
  <2> QED BY <2>7, <2>8
<1> QED BY <1>12, <1>13

\* The ABI check looks at the payloads that were read.
LEMMA AbiReads == ASSUME ReadInv, NEW r \in Readers, CheckAbi(r) PROVE ReadInv'
<1> DEFINE ok == \A l \in Static \cup {"init"} : Fits(PayloadsOf(r)[l], l)
<1>1. GoTo(r, "abi", ok, "accepted") /\ UNCHANGED <<received, contract, label, got>>
  BY DEF CheckAbi
<1>2. rpc[r] = "abi"
  BY <1>1 DEF GoTo
<1>3. ok' <=> ok
  BY <1>1 DEF PayloadsOf, Fits
<1> HIDE DEF ok
<1>4. /\ ReadTypes' /\ rpc'[r] = (IF ok THEN "accepted" ELSE "failed")
      /\ \A q \in Readers \ {r} : rpc'[q] = rpc[q]
  BY <1>1, StepTypes DEF ReaderSteps
<1>5. CASE ok
  <2>1. rpc'[r] = "accepted"
    BY <1>4, <1>5
  <2>2. /\ verify_bundle(received[r])' /\ FsckPasses[received[r].prefix.image]'
        /\ (contract[r] => "mkfs.erofs" \notin DOMAIN PayloadsOf(r))'
        /\ received'[r].prefix.image \in Images
    BY <1>1, <1>2, KeptCopy
  <2>3. \A l \in Wanted(r)' : Fetched(r, l)'
    BY <1>1, <1>2 DEF ReadInv, ReaderInv, Wanted, Fetched, PayloadsOf
  <2>4. (\A l \in Static \cup {"init"} : Fits(PayloadsOf(r)[l], l))'
    BY <1>3, <1>5 DEF ok
  <2>5. ReaderInv(r)'
    BY <2>1, <2>2, <2>3, <2>4 DEF ReaderInv
  <2> QED BY <1>1, <1>4, <2>5, OneReader
<1>6. CASE ~ok
  BY <1>1, <1>4, <1>6, ReaderEnds, OneReader
<1> QED BY <1>5, <1>6

\* A tool that fails, and a new attempt.
LEMMA EndReads == ASSUME ReadInv, NEW r \in Readers, ToolFails(r) \/ ReadAgain(r) PROVE ReadInv'
<1>1. CASE ToolFails(r)
  <2>1. GoTo(r, rpc[r], FALSE, "failed") /\ UNCHANGED <<received, contract, label, got>>
    BY <1>1 DEF ToolFails
  <2>2. /\ ReadTypes' /\ rpc'[r] = "failed" /\ \A q \in Readers \ {r} : rpc'[q] = rpc[q]
    BY <2>1, StepTypes DEF ReaderSteps
  <2> QED BY <2>1, <2>2, ReaderEnds, OneReader
<1>2. CASE ReadAgain(r)
  <2>1. /\ rpc' = [rpc EXCEPT ![r] = "idle"] /\ received' = [received EXCEPT ![r] = NoFile]
        /\ contract' = [contract EXCEPT ![r] = FALSE] /\ label' = [label EXCEPT ![r] = 1]
        /\ got' = [got EXCEPT ![r] = Nothing]
    BY <1>2 DEF ReadAgain
  <2>2. NoFile \in BundleCopies
    BY DEF NoFile, File, Named, BundleCopies, PrefixRecords
  <2>3. ReadTypes'
    BY <2>1, <2>2 DEF ReadInv, ReadTypes, ReaderSteps, Nothing
  <2>4. rpc'[r] = "idle" /\ label'[r] = 1
    BY <2>1 DEF ReadInv, ReadTypes
  <2> QED BY <2>1, <2>3, <2>4, ReaderEnds, OneReader DEF ReadInv, ReadTypes
<1> QED BY <1>1, <1>2

\* Damage comes to a copy before it is verified.
LEMMA DamageReads == ASSUME ReadInv, NEW r \in Readers, DamageReceived(r) PROVE ReadInv'
<1>1. PICK f \in {[received[r] EXCEPT !.prefix.image = i] : i \in Images}
                   \cup {[received[r] EXCEPT !.markers = 2], [received[r] EXCEPT !.markers = 0],
                         [received[r] EXCEPT !.comment = pmemAlignment],
                         [received[r] EXCEPT !.prefix.padding = 0]} :
             received' = [received EXCEPT ![r] = f]
  BY DEF DamageReceived
<1>2. rpc[r] = "verify" /\ UNCHANGED <<rpc, contract, label, got>>
  BY DEF DamageReceived
<1>3. received[r] \in BundleCopies /\ received[r].prefix \in PrefixRecords
  BY DEF ReadInv, ReadTypes, BundleCopies
<1>4. f \in BundleCopies
  <2>1. ASSUME NEW i \in Images, f = [received[r] EXCEPT !.prefix.image = i]
        PROVE  f \in BundleCopies
    <3>1. [received[r].prefix EXCEPT !.image = i] \in PrefixRecords
      BY <1>3 DEF PrefixRecords
    <3> QED BY <1>3, <2>1, <3>1 DEF BundleCopies
  <2>2. ASSUME f = [received[r] EXCEPT !.prefix.padding = 0] PROVE f \in BundleCopies
    <3>1. [received[r].prefix EXCEPT !.padding = 0] \in PrefixRecords
      BY <1>3 DEF PrefixRecords
    <3> QED BY <1>3, <2>2, <3>1 DEF BundleCopies
  <2>3. ASSUME \/ f = [received[r] EXCEPT !.markers = 2]
               \/ f = [received[r] EXCEPT !.markers = 0]
               \/ f = [received[r] EXCEPT !.comment = pmemAlignment]
        PROVE  f \in BundleCopies
    BY <1>3, <2>3 DEF BundleCopies, pmemAlignment
  <2> QED BY <1>1, <2>1, <2>2, <2>3
<1>5. ReadTypes'
  BY <1>1, <1>2, <1>4 DEF ReadInv, ReadTypes
<1>6. f.prefix.image \in Images
  <2>1. received[r].prefix.image \in Images
    BY <1>2 DEF ReadInv, ReaderInv
  <2> QED BY <1>1, <1>3, <2>1 DEF BundleCopies, PrefixRecords
<1>7. rpc'[r] = "verify" /\ label'[r] = 1 /\ received'[r] = f
  BY <1>1, <1>2 DEF ReadInv, ReaderInv, ReadTypes
<1>8. ReaderInv(r)'
  BY <1>6, <1>7 DEF ReaderInv
<1> QED BY <1>1, <1>2, <1>5, <1>8, OneReader DEF ReadInv, ReadTypes

\* What the readers know is kept by every step.
LEMMA ReadStep == BuildInv /\ ReadInv /\ [RuntimeNext]_runtimeVars => ReadInv'
<1> SUFFICES ASSUME BuildInv, ReadInv, [RuntimeNext]_runtimeVars PROVE ReadInv'
  OBVIOUS
<1>1. CASE UNCHANGED readVars
  <2>1. ReadTypes'
    BY <1>1 DEF ReadInv, ReadTypes, readVars
  <2>2. ASSUME NEW r \in Readers PROVE ReaderInv(r)'
    BY <1>1, ReaderFrame DEF ReadInv, readVars
  <2> QED BY <2>1, <2>2 DEF ReadInv
<1>2. CASE \E b \in Builders : Builder(b)
  BY <1>1, <1>2 DEF Builder, Open, Copy, Finish, KillBuilder
<1>3. ASSUME NEW r \in Readers, Reader(r) \/ DamageReceived(r) PROVE ReadInv'
  BY <1>3, ReceiveReads, VerifyReads, ExtractReads, SkipReads, CatReads, AbiReads, EndReads,
     DamageReads DEF Reader
<1>4. CASE WriteInput \/ UNCHANGED runtimeVars
  BY <1>1, <1>4 DEF WriteInput, runtimeVars
<1> QED BY <1>2, <1>3, <1>4 DEF RuntimeNext

\* A bundle that verify_bundle accepts is one as Build writes them.
LEMMA VerifiedIsUndamaged ==
    ASSUME NEW f \in BundleCopies, verify_bundle(f)
    PROVE  f = File(f.prefix.image, f.prefix.size, f.prefix.padding) /\ IsErofs[f.prefix.image]
<1>1. f.digest = f.prefix /\ f.markers = 1 /\ f.comment = 0 /\ IsErofs[f.prefix.image]
  BY DEF verify_bundle
<1>2. f.prefix = Named(f.prefix.image, f.prefix.size, f.prefix.padding)
  BY DEF BundleCopies, PrefixRecords, Named
<1> QED BY <1>1, <1>2 DEF BundleCopies, File

\* Versions are ordered part by part.
LEMMA NotNewer == ASSUME NEW v \in Seq(Nat), ~Exceeds(v) PROVE Released(v)
<1>1. Part(v, 1) \in Nat /\ Part(v, 2) \in Nat /\ Part(v, 3) \in Nat
  <2>1. \A i \in DOMAIN v : v[i] \in Nat
    OBVIOUS
  <2> QED BY <2>1 DEF Part
<1>2. Baseline[1] = 2 /\ Baseline[2] = 38 /\ Baseline[3] = 0
  BY DEF Baseline
<1>3. Part(v, 1) <= 2
  <2>1. \A k \in 1 .. 1 - 1 : Part(v, k) = Baseline[k]
    OBVIOUS
  <2> QED BY <1>1, <1>2, <2>1 DEF Exceeds
<1>4. Part(v, 1) = 2 => Part(v, 2) <= 38
  <2>1. Part(v, 1) = 2 => \A k \in 1 .. 2 - 1 : Part(v, k) = Baseline[k]
    BY <1>2
  <2> QED BY <1>1, <1>2, <2>1 DEF Exceeds
<1>5. Part(v, 1) = 2 /\ Part(v, 2) = 38 => Part(v, 3) = 0
  <2>1. Part(v, 1) = 2 /\ Part(v, 2) = 38 => \A k \in 1 .. 3 - 1 : Part(v, k) = Baseline[k]
    BY <1>2
  <2> QED BY <1>1, <1>2, <2>1 DEF Exceeds
<1> QED BY <1>1, <1>3, <1>4, <1>5 DEF Released

\* Payloads are accepted out of an undamaged bundle only, whole, and none needs
\* a newer libc, whatever tools fail or stop early.
THEOREM AcceptedCorrect == RuntimeSpec => []AcceptedIsWhole
<1>1. ReadInv /\ BuildInv => AcceptedIsWhole
  <2> SUFFICES ASSUME ReadInv, BuildInv, NEW r \in Readers, rpc[r] = "accepted"
               PROVE  LET f == received[r] IN
                      /\ f = File(f.prefix.image, f.prefix.size, f.prefix.padding)
                      /\ IsErofs[f.prefix.image] /\ FsckPasses[f.prefix.image]
                      /\ contract[r] <=> "mkfs.erofs" \notin DOMAIN PayloadsOf(r)
                      /\ \A l \in Wanted(r) : LET p == PayloadsOf(r)[l] IN
                            /\ p.regular /\ p.private /\ got[r][l] = p.size
                            /\ l # "mkfs.erofs" => \A v \in p.needs : Released(v)
    BY DEF AcceptedIsWhole
  <2>1. /\ verify_bundle(received[r]) /\ FsckPasses[received[r].prefix.image]
        /\ contract[r] => "mkfs.erofs" \notin DOMAIN PayloadsOf(r)
        /\ \A l \in Wanted(r) : Fetched(r, l)
        /\ \A l \in Static \cup {"init"} : Fits(PayloadsOf(r)[l], l)
        /\ received[r] \in BundleCopies /\ contract[r] \in BOOLEAN
    BY DEF ReadInv, ReadTypes, ReaderInv
  <2>2. /\ received[r] = File(received[r].prefix.image, received[r].prefix.size,
                              received[r].prefix.padding)
        /\ IsErofs[received[r].prefix.image]
    BY <2>1, VerifiedIsUndamaged
  <2>3. contract[r] <=> "mkfs.erofs" \notin DOMAIN PayloadsOf(r)
    <3>1. ~contract[r] => "mkfs.erofs" \in Wanted(r)
      BY FourLabels DEF Wanted
    <3> QED BY <2>1, <3>1 DEF Fetched
  <2>4. ASSUME NEW l \in Wanted(r), l # "mkfs.erofs", NEW v \in PayloadsOf(r)[l].needs
        PROVE  Released(v)
    <3>1. l \in Static \cup {"init"}
      BY <2>4, FourLabels DEF Wanted, Static
    <3>2. ~Exceeds(v)
      BY <2>1, <2>4, <3>1 DEF Fits
    <3>3. v \in Seq(Nat)
      <4>1. received[r].prefix.image \in Images
        BY DEF ReadInv, ReaderInv
      <4> QED BY <2>1, <2>4, <4>1, NeedsAssumption DEF Fetched, PayloadsOf
    <3> QED BY <3>2, <3>3, NotNewer
  <2> QED BY <2>1, <2>2, <2>3, <2>4 DEF Fetched
<1>2. BuildInv /\ ReadInv /\ [RuntimeNext]_runtimeVars => BuildInv' /\ ReadInv'
  BY BuildStep, ReadStep
<1> QED BY BuildInit, ReadInit, <1>1, <1>2, PTL DEF RuntimeSpec

==================================================================================
