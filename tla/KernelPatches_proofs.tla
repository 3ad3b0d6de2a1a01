------------------------- MODULE KernelPatches_proofs -------------------------
(***************************************************************************)
(* Proofs about KernelPatches, for any commits and patch series, any work  *)
(* of the developer and any failures and kills.                            *)
(***************************************************************************)
EXTENDS KernelPatches, SequenceTheorems, TLAPS

Types ==
    /\ log \in Seq(Patches) /\ patches \in Seq(Patches)
    /\ pc \in Labels /\ target \in Goals \cup {"none"}

\* git am has committed the first patch files, and not all of them.
AmProgress ==
    pc = "am" => Len(log) < Len(patches) /\ \A i \in 1..Len(log) : log[i] = patches[i]

\* git format-patch has written at most as many files as there are commits.
FormatProgress == pc = "write" => Len(patches) <= Len(log)

\* What the vmlinux rule goes on to build carries the tracked subjects.
BuildsSeries ==
    pc \in {"build", "copy"} /\ target = "vmlinux" => SubjectsOf(log) = SubjectsOf(patches)

KInv == Types /\ AmProgress /\ FormatProgress /\ BuildsSeries

-----------------------------------------------------------------------------
\* Nothing is lost from a sequence by keeping or extending it.
LEMMA PrefixSame == ASSUME NEW s PROVE IsPrefix(s, s)
  BY DEF IsPrefix

\* A commit more leaves those before it where they are.
LEMMA PrefixAppend ==
  ASSUME NEW S, NEW s \in Seq(S), NEW e \in S
  PROVE  IsPrefix(s, Append(s, e))
<1> DEFINE t == Append(s, e)
<1>1. Len(s) \in Nat /\ Len(t) = Len(s) + 1 /\ \A i \in 1..Len(s) : t[i] = s[i] /\ s[i] \in S
  BY AppendProperties, LenProperties, ElementOfSeq
<1> HIDE DEF t
<1>2. /\ SubSeq(s, 1, Len(s)) \in Seq(S) /\ SubSeq(t, 1, Len(s)) \in Seq(S)
      /\ Len(SubSeq(s, 1, Len(s))) = Len(SubSeq(t, 1, Len(s)))
      /\ \A i \in 1..Len(s) : SubSeq(s, 1, Len(s))[i] = s[i] /\ SubSeq(t, 1, Len(s))[i] = t[i]
      /\ Len(SubSeq(s, 1, Len(s))) = Len(s)
  <2>1. \A u : (\A i \in 1..Len(s) : u[i] \in S)
                  => /\ SubSeq(u, 1, Len(s)) \in Seq(S)
                     /\ Len(SubSeq(u, 1, Len(s))) = Len(s)
                     /\ \A i \in 1..Len(s) : SubSeq(u, 1, Len(s))[i] = u[i]
    <3> SUFFICES ASSUME NEW u, \A i \in 1..Len(s) : u[i] \in S
                 PROVE  /\ SubSeq(u, 1, Len(s)) \in Seq(S)
                        /\ Len(SubSeq(u, 1, Len(s))) = Len(s)
                        /\ \A i \in 1..Len(s) : SubSeq(u, 1, Len(s))[i] = u[i]
      OBVIOUS
    <3> DEFINE v == SubSeq(u, 1, Len(s))
    <3>1. /\ v \in Seq(S)
          /\ Len(v) = IF 1 <= Len(s) THEN Len(s) - 1 + 1 ELSE 0
          /\ \A i \in 1..Len(s) - 1 + 1 : v[i] = u[1 + i - 1]
      BY <1>1, SubSeqProperties
    <3> HIDE DEF v
    <3>2. v \in Seq(S) /\ Len(v) = Len(s) /\ \A i \in 1..Len(s) : v[i] = u[i]
      BY <1>1, <3>1
    <3>3. QED
      BY <3>2 DEF v
  <2>2. QED
    BY <1>1, <2>1
<1>3. SubSeq(s, 1, Len(s)) = SubSeq(t, 1, Len(s))
  BY <1>1, <1>2, SeqEqual
<1>4. QED
  BY <1>1, <1>3 DEF IsPrefix, t

-----------------------------------------------------------------------------
\* The trees a make command may find at first.
LEMMA InitK == Init => KInv
<1> SUFFICES ASSUME Init PROVE KInv
  OBVIOUS
<1>1. log \in Seq(Patches)
  <2>1. CASE log = <<>>
    BY <2>1, EmptySeq
  <2>2. ASSUME NEW c \in Patches, log = <<c>> PROVE log \in Seq(Patches)
    BY <2>2
  <2>3. QED
    BY <2>1, <2>2 DEF Init
<1>2. patches \in Seq(Patches)
  BY SeriesAssumption DEF Init
<1>3. QED
  BY <1>1, <1>2 DEF Init, KInv, Types, Labels, AmProgress, FormatProgress, BuildsSeries

\* A step that leaves commits and patch files alone and goes neither into a
\* git am nor into a format nor on to a build.
LEMMA Quiet ==
  ASSUME KInv, UNCHANGED <<log, patches>>, pc' \in Labels, target' \in Goals \cup {"none"},
         pc' \notin {"am", "write", "build", "copy"}
  PROVE  KInv'
  BY DEF KInv, Types, AmProgress, FormatProgress, BuildsSeries

\* A failing stage ends the command.
LEMMA FailEnds == Fail => pc' = "idle" /\ target' = "none"
  BY DEF Fail, Goto

\* The stage behind apply depends on the goal.
LEMMA AfterApply == StageAfter("apply") = IF target = "vmlinux" THEN "build" ELSE "idle"
  BY DEF StageAfter

\* The stages of build-vmlinux.sh keep KInv and take no commit off the tree.
LEMMA StageStep == ASSUME KInv, Stage PROVE KInv' /\ IsPrefix(log, log')
<1> USE DEF KInv
<1>1. CASE FetchSkip \/ FetchRefuse \/ Extract \/ GitInit \/ GitTag
  <2>1. UNCHANGED <<log, patches>>
    BY <1>1 DEF FetchSkip, FetchRefuse, Extract, GitInit, GitTag, tree
  <2>2. pc' \in {"idle", "apply", "init", "tag"} /\ target' \in Goals \cup {"none"}
    BY <1>1 DEF Types, FetchSkip, FetchRefuse, Extract, GitInit, GitTag, Fail, Goto, StageAfter
  <2>3. QED
    BY <2>1, <2>2, Quiet, PrefixSame DEF Labels
<1>2. CASE ApplyNone
  <2>1. /\ UNCHANGED <<log, patches>> /\ target' \in Goals \cup {"none"}
        /\ pc' = "idle" \/ (pc' = "build" /\ log = patches)
    <3>1. UNCHANGED <<log, patches>> /\ patches = <<>>
      BY <1>2 DEF ApplyNone, tree
    <3>2. CASE log = <<>>
      BY <1>2, <3>1, <3>2, AfterApply DEF ApplyNone, Types, Goto
    <3>3. CASE log # <<>>
      BY <1>2, <3>1, <3>3, FailEnds DEF ApplyNone
    <3>4. QED
      BY <3>2, <3>3
  <2>2. QED
    BY <2>1, PrefixSame
       DEF Types, Labels, AmProgress, FormatProgress, BuildsSeries, SubjectsOf
<1>3. CASE ApplyStart
  <2>1. /\ UNCHANGED <<log, patches>> /\ target' \in Goals \cup {"none"}
        /\ pc' \in {"idle", "am"} /\ log = <<>> /\ patches # <<>>
    BY <1>3 DEF ApplyStart, Types, Fail, Goto
  <2>2. Len(log) = 0 /\ Len(patches) > 0
    BY <2>1, EmptySeq DEF Types
  <2>3. QED
    BY <2>1, <2>2, PrefixSame DEF Types, Labels, AmProgress, FormatProgress, BuildsSeries
<1>4. CASE AmPatch
  <2> DEFINE n == Len(log) + 1
  <2>1. Len(log) \in Nat /\ Len(patches) \in Nat /\ n <= Len(patches)
    BY <1>4, LenProperties DEF AmPatch, AmProgress, Types
  <2>2. patches[n] \in Patches
    BY <2>1, ElementOfSeq DEF Types
  <2>3. log' = Append(log, patches[n]) /\ patches' = patches
    BY <1>4 DEF AmPatch
  <2>4. /\ log' \in Seq(Patches) /\ Len(log') = n
        /\ \A i \in 1..n : log'[i] = patches[i]
    BY <1>4, <2>1, <2>2, <2>3, AppendProperties DEF Types, AmProgress, AmPatch
  <2>5. IsPrefix(log, log')
    BY <2>2, <2>3, PrefixAppend DEF Types
  <2> HIDE DEF n
  <2>6. CASE n = Len(patches)
    <3>1. log' = patches
      BY <2>1, <2>4, <2>6, SeqEqual DEF Types
    <3>2. pc' \in {"idle", "build"} /\ target' \in Goals \cup {"none"}
      BY <1>4, <2>3, <2>4, <2>6 DEF AmPatch, Types, Goto, StageAfter
    <3>3. QED
      BY <2>3, <2>4, <2>5, <3>1, <3>2
         DEF Types, Labels, AmProgress, FormatProgress, BuildsSeries
  <2>7. CASE n # Len(patches)
    <3>1. pc' = "am" /\ target' = target
      BY <1>4, <2>3, <2>4, <2>7 DEF AmPatch, run
    <3>2. Len(log') < Len(patches')
      BY <2>1, <2>3, <2>4, <2>7
    <3>3. QED
      BY <2>3, <2>4, <2>5, <3>1, <3>2
         DEF Types, Labels, AmProgress, FormatProgress, BuildsSeries
  <2>8. QED
    BY <2>6, <2>7
<1>5. CASE ApplyCheck
  <2>1. /\ UNCHANGED <<log, patches>> /\ target' \in Goals \cup {"none"}
        /\ pc' = "idle" \/ (pc' = "build" /\ SubjectsOf(log) = SubjectsOf(patches))
    <3>1. UNCHANGED <<log, patches>>
      BY <1>5 DEF ApplyCheck, tree
    <3>2. CASE AlreadyApplied
      BY <1>5, <3>1, <3>2, AfterApply DEF ApplyCheck, AlreadyApplied, Types, Goto
    <3>3. CASE ~AlreadyApplied
      BY <1>5, <3>1, <3>3, FailEnds DEF ApplyCheck
    <3>4. QED
      BY <3>2, <3>3
  <2>2. QED
    BY <2>1, PrefixSame
       DEF Types, Labels, AmProgress, FormatProgress, BuildsSeries, SubjectsOf
<1>6. CASE FormatClear
  <2>1. /\ log' = log /\ target' \in Goals \cup {"none"}
        /\ \/ pc' = "write" /\ patches' = <<>>
           \/ pc' = "idle" /\ patches' = patches
    BY <1>6 DEF FormatClear, Types, Fail, Goto, tree
  <2>2. <<>> \in Seq(Patches) /\ Len(<<>>) = 0 /\ Len(log) \in Nat
    BY EmptySeq, LenProperties DEF Types
  <2>3. CASE pc' = "write" /\ patches' = <<>>
    <3>1. patches' \in Seq(Patches) /\ Len(patches') <= Len(log')
      BY <2>1, <2>2, <2>3
    <3>2. QED
      BY <2>1, <2>3, <3>1, PrefixSame
         DEF Types, Labels, AmProgress, FormatProgress, BuildsSeries
  <2>4. CASE pc' = "idle" /\ patches' = patches
    BY <2>1, <2>4, Quiet, PrefixSame DEF Labels
  <2>5. QED
    BY <2>1, <2>3, <2>4
<1>7. CASE FormatWrite
  <2>0. pc = "write" /\ log' = log
    BY <1>7 DEF FormatWrite, tree
  <2>1. Len(log) \in Nat /\ Len(patches) \in Nat /\ Len(patches) <= Len(log)
    BY <2>0, LenProperties DEF FormatProgress, Types
  <2>2. CASE Len(patches) = Len(log)
    <3>1. UNCHANGED <<log, patches>> /\ pc' = "idle" /\ target' = "none"
      BY <1>7, <2>0, <2>2 DEF FormatWrite, Formatted, Goto
    <3>2. QED
      BY <3>1, Quiet, PrefixSame DEF Labels
  <2>3. CASE Len(patches) # Len(log)
    <3>1. /\ patches' = Append(patches, log[Len(patches) + 1])
          /\ pc' = pc /\ target' = target
      BY <1>7, <2>3 DEF FormatWrite, FormatCommit, run
    <3>2. log[Len(patches) + 1] \in Patches
      BY <2>1, <2>3, ElementOfSeq DEF Types
    <3>3. patches' \in Seq(Patches) /\ Len(patches') = Len(patches) + 1
      BY <3>1, <3>2, AppendProperties DEF Types
    <3>4. QED
      BY <2>0, <2>1, <2>3, <3>1, <3>3, PrefixSame
         DEF Types, Labels, AmProgress, FormatProgress, BuildsSeries
  <2>4. QED
    BY <2>2, <2>3
<1>8. CASE Kbuild
  <2>1. /\ UNCHANGED <<log, patches>> /\ pc = "build"
        /\ \/ pc' = "idle" /\ target' = "none"
           \/ pc' = "copy" /\ target' = target
    BY <1>8 DEF Kbuild, Fail, Goto, tree
  <2>2. QED
    BY <2>1, PrefixSame
       DEF Types, Labels, AmProgress, FormatProgress, BuildsSeries, SubjectsOf
<1>9. CASE CopyImage
  <2>1. UNCHANGED <<log, patches>> /\ pc' = "idle" /\ target' = "none"
    BY <1>9 DEF CopyImage, Goto, tree
  <2>2. QED
    BY <2>1, Quiet, PrefixSame DEF Labels
<1>10. QED
  BY <1>1, <1>2, <1>3, <1>4, <1>5, <1>6, <1>7, <1>8, <1>9 DEF Stage

\* ... and so does a command that is killed.
LEMMA DiesStep == ASSUME KInv, Dies PROVE KInv' /\ IsPrefix(log, log')
<1>1. UNCHANGED <<log, patches>> /\ pc' = "idle" /\ target' = "none"
  BY DEF Dies, Fail, Goto, tree
<1>2. QED
  BY <1>1, Quiet, PrefixSame DEF Labels

\* A new make command begins where none is running.
LEMMA MakeStep == ASSUME KInv, NEW g \in Goals, Make(g) PROVE KInv' /\ pc = "idle"
<1>1. FirstStage(g) \in {"fetch", "format", "build"} /\ (g = "vmlinux" => FirstStage(g) = "fetch")
  BY DEF FirstStage, Goals
<1>2. UNCHANGED <<log, patches>> /\ pc' = FirstStage(g) /\ target' = g /\ pc = "idle"
  BY DEF Make, tree
<1>3. QED
  BY <1>1, <1>2 DEF KInv, Types, Labels, AmProgress, FormatProgress, BuildsSeries

\* The developer works between two commands, on commits and patch files alike.
LEMMA DeveloperStep == ASSUME KInv, Developer PROVE KInv' /\ pc = "idle"
<1>1. UNCHANGED <<pc, target>> /\ pc = "idle"
  BY DEF Developer, Edit, Commit, Amend, Pull, TagBase, StartFresh, AmAbort, Reset, Clean,
         Works, Elsewhere, run
<1>2. log' \in Seq(Patches) /\ patches' \in Seq(Patches)
  <2>1. CASE Edit \/ TagBase \/ Clean
    BY <2>1 DEF Edit, TagBase, Clean, KInv, Types, tree
  <2>2. CASE StartFresh \/ AmAbort \/ Reset
    BY <2>2, EmptySeq DEF StartFresh, AmAbort, Reset, KInv, Types
  <2>3. ASSUME NEW c \in Patches, Commit(c) PROVE log' \in Seq(Patches) /\ patches' \in Seq(Patches)
    BY <2>3, AppendProperties DEF Commit, KInv, Types
  <2>4. ASSUME NEW t \in Texts, Amend(t) PROVE log' \in Seq(Patches) /\ patches' \in Seq(Patches)
    <3>1. /\ log \in Seq(Patches) /\ log # <<>> /\ patches' = patches
          /\ log' = [log EXCEPT ![Len(log)].text = t]
      BY <2>4 DEF Amend, KInv, Types
    <3>2. Len(log) \in 1..Len(log)
      BY <3>1, EmptySeq
    <3>3. log[Len(log)] \in Patches
      BY <3>1, <3>2, ElementOfSeq
    <3>4. [log[Len(log)] EXCEPT !.text = t] \in Patches
      BY <3>3 DEF Patches
    <3>5. log' = [log EXCEPT ![Len(log)] = [log[Len(log)] EXCEPT !.text = t]]
      BY <3>1
    <3>6. QED
      BY <3>1, <3>2, <3>4, <3>5, ExceptSeq DEF KInv, Types
  <2>5. ASSUME NEW s \in Series, Pull(s) PROVE log' \in Seq(Patches) /\ patches' \in Seq(Patches)
    BY <2>5, SeriesAssumption DEF Pull, KInv, Types, tree
  <2>6. QED
    BY <2>1, <2>2, <2>3, <2>4, <2>5 DEF Developer
<1>3. QED
  BY <1>1, <1>2 DEF KInv, Types, AmProgress, FormatProgress, BuildsSeries

\* KInv is inductive.
LEMMA NextStep == KInv /\ [Next]_vars => KInv'
<1> SUFFICES ASSUME KInv, [Next]_vars PROVE KInv'
  OBVIOUS
<1>1. CASE UNCHANGED vars
  BY <1>1 DEF vars, tree, run, KInv, Types, AmProgress, FormatProgress, BuildsSeries, SubjectsOf
<1>2. QED
  BY <1>1, StageStep, DiesStep, MakeStep, DeveloperStep DEF Next

-----------------------------------------------------------------------------
\* No make command takes a commit off the source tree.
THEOREM WorkIsKept == Spec => WorkKept
<1>1. KInv /\ [Next]_vars => [pc # "idle" => IsPrefix(log, log')]_vars
  <2> SUFFICES ASSUME KInv, [Next]_vars, pc # "idle" PROVE IsPrefix(log, log') \/ UNCHANGED vars
    OBVIOUS
  <2>1. QED
    BY StageStep, DiesStep, MakeStep, DeveloperStep DEF Next
<1>2. QED
  BY <1>1, InitK, NextStep, PTL DEF Spec, WorkKept

\* What make vmlinux installs was built from commits with the subjects of the
\* tracked patch files, in their order.
THEOREM TrackedSeriesBuilt == Spec => BuildsTrackedSeries
<1>1. KInv /\ [Next]_vars
        => [CopyImage /\ target = "vmlinux" => SubjectsOf(image'.log) = SubjectsOf(patches)]_vars
  <2> SUFFICES ASSUME KInv, CopyImage, target = "vmlinux"
               PROVE  SubjectsOf(image'.log) = SubjectsOf(patches)
    OBVIOUS
  <2>1. image'.log = log /\ pc = "copy"
    BY DEF CopyImage
  <2>2. SubjectsOf(log) = SubjectsOf(patches)
    BY <2>1 DEF KInv, BuildsSeries
  <2>3. QED
    BY <2>1, <2>2
<1>2. QED
  BY <1>1, InitK, NextStep, PTL DEF Spec, BuildsTrackedSeries

-----------------------------------------------------------------------------
(* The advice of a refusal: format, reset, run again.                      *)

\* The files git format-patch has written are those of the first commits.
FormatsLog == pc = "write" => \A i \in 1..Len(patches) : patches[i] = log[i]

\* Until he formats, the commits of the refusal are those of the tree: any
\* other command, and any other work, and he no longer follows the advice.
AdviceFormat ==
    advised = "format" => pc \in {"idle", "format", "write"} /\ held.commits = ToSet(log)

\* Once he has formatted, they are in the patch files.
AdviceFormatted ==
    advised \in {"reset", "done"} => pc = "idle" /\ held.commits \subseteq ToSet(patches)

AdviceInv == KInv /\ FormatsLog /\ AdviceFormat /\ AdviceFormatted

\* No advice is given before the first command.
LEMMA AdviceInit == Init => AdviceInv
  BY InitK DEF Init, AdviceInv, FormatsLog, AdviceFormat, AdviceFormatted

\* A step of make that leaves commits, files and advice alone, while the
\* developer is not following one that would forbid it.
LEMMA AdviceQuiet ==
  ASSUME AdviceInv, KInv', UNCHANGED <<log, patches, advised, held>>, pc' # "write",
         advised = "format" => pc' \in {"idle", "format"},
         advised \in {"reset", "done"} => pc' = "idle"
  PROVE  AdviceInv'
  BY DEF AdviceInv, FormatsLog, AdviceFormat, AdviceFormatted

\* The stages keep what a format that follows the advice has written.
LEMMA AdviceStage == ASSUME AdviceInv, Stage PROVE AdviceInv'
<1>0. KInv /\ KInv'
  BY StageStep DEF AdviceInv
<1>1. CASE \/ FetchSkip \/ FetchRefuse \/ Extract \/ GitInit \/ GitTag
           \/ ApplyNone \/ Kbuild \/ CopyImage
  <2>1. UNCHANGED <<log, patches, advised, held>>
    BY <1>1 DEF FetchSkip, FetchRefuse, Extract, GitInit, GitTag, ApplyNone, Kbuild, CopyImage,
                tree, history
  <2>2. pc \in {"fetch", "init", "tag", "apply", "build", "copy"}
    BY <1>1 DEF FetchSkip, FetchRefuse, Extract, GitInit, GitTag, ApplyNone, Kbuild, CopyImage
  <2>3. pc' # "write"
    BY <1>1 DEF FetchSkip, FetchRefuse, Extract, GitInit, GitTag, ApplyNone, Kbuild, CopyImage,
                Fail, Goto, StageAfter
  <2>4. advised \notin {"format", "reset", "done"}
    BY <2>2 DEF AdviceInv, AdviceFormat, AdviceFormatted
  <2>5. QED
    BY <1>0, <2>1, <2>3, <2>4, AdviceQuiet
<1>2. CASE ApplyStart \/ AmPatch
  <2>1. pc \in {"apply", "am"} /\ UNCHANGED <<advised, held>>
    BY <1>2 DEF ApplyStart, AmPatch, history
  <2>2. pc' # "write"
    BY <1>2 DEF ApplyStart, AmPatch, Fail, Goto, StageAfter, run
  <2>3. advised \notin {"format", "reset", "done"}
    BY <2>1 DEF AdviceInv, AdviceFormat, AdviceFormatted
  <2>4. QED
    BY <1>0, <2>1, <2>2, <2>3 DEF AdviceInv, FormatsLog, AdviceFormat, AdviceFormatted
<1>3. CASE ApplyCheck
  <2>1. pc = "apply" /\ UNCHANGED <<log, patches>>
    BY <1>3 DEF ApplyCheck, tree
  <2>2. advised \notin {"format", "reset", "done"}
    BY <2>1 DEF AdviceInv, AdviceFormat, AdviceFormatted
  <2>3. CASE AlreadyApplied
    <3>1. UNCHANGED <<advised, held>> /\ pc' # "write"
      BY <1>3, <2>3 DEF ApplyCheck, Goto, StageAfter, history
    <3>2. QED
      BY <1>0, <2>1, <2>2, <3>1, AdviceQuiet
  <2>4. CASE ~AlreadyApplied
    <3>1. /\ pc' = "idle" /\ advised' = "format"
          /\ held' = [commits |-> ToSet(log), tracked |-> ToSet(patches)]
      BY <1>3, <2>4 DEF ApplyCheck, Fail, Goto
    <3>2. held'.commits = ToSet(log) /\ ToSet(log)' = ToSet(log)
      BY <2>1, <3>1
    <3>3. QED
      BY <1>0, <3>1, <3>2 DEF AdviceInv, FormatsLog, AdviceFormat, AdviceFormatted
  <2>5. QED
    BY <2>3, <2>4
<1>4. CASE FormatClear
  <2>1. pc = "format" /\ UNCHANGED <<log, advised, held>>
    BY <1>4 DEF FormatClear, tree, history
  <2>2. advised \notin {"reset", "done"}
    BY <2>1 DEF AdviceInv, AdviceFormatted
  <2>3. CASE git = "tagged"
    <3>1. pc' = "write" /\ patches' = <<>>
      BY <1>4, <2>3 DEF FormatClear, Goto
    <3>2. Len(patches') = 0
      BY <3>1
    <3>3. ToSet(log)' = ToSet(log)
      BY <2>1
    <3>4. QED
      BY <1>0, <2>1, <2>2, <3>1, <3>2, <3>3
         DEF AdviceInv, FormatsLog, AdviceFormat, AdviceFormatted
  <2>4. CASE git # "tagged"
    <3>1. pc' = "idle" /\ patches' = patches
      BY <1>4, <2>4 DEF FormatClear, Fail, Goto
    <3>2. QED
      BY <1>0, <2>1, <2>2, <3>1, AdviceQuiet
  <2>5. QED
    BY <2>3, <2>4
<1>5. CASE FormatWrite
  <2>1. /\ pc = "write" /\ log' = log /\ held' = held
        /\ \A i \in 1..Len(patches) : patches[i] = log[i]
        /\ advised \notin {"reset", "done"}
        /\ advised = "format" => held.commits = ToSet(log)
    BY <1>5 DEF FormatWrite, AdviceInv, FormatsLog, AdviceFormat, AdviceFormatted, tree
  <2>2. /\ log \in Seq(Patches) /\ patches \in Seq(Patches)
        /\ Len(log) \in Nat /\ Len(patches) \in Nat /\ Len(patches) <= Len(log)
    BY <1>0, <2>1, LenProperties DEF KInv, Types, FormatProgress
  <2>3. CASE Len(patches) = Len(log)
    <3>1. patches = log
      BY <2>1, <2>2, <2>3, SeqEqual
    <3>2. /\ patches' = patches /\ pc' = "idle"
          /\ advised' = IF advised = "format" THEN "reset" ELSE advised
      BY <1>5, <2>3 DEF FormatWrite, Formatted, Goto
    <3>3. ToSet(patches)' = ToSet(log)
      BY <3>1, <3>2
    <3>4. QED
      BY <1>0, <2>1, <3>2, <3>3 DEF AdviceInv, FormatsLog, AdviceFormat, AdviceFormatted
  <2>4. CASE Len(patches) # Len(log)
    <3>1. /\ patches' = Append(patches, log[Len(patches) + 1])
          /\ pc' = pc /\ advised' = advised
      BY <1>5, <2>4 DEF FormatWrite, FormatCommit, run
    <3>2. log[Len(patches) + 1] \in Patches
      BY <2>2, <2>4, ElementOfSeq
    <3>3. /\ Len(patches') = Len(patches) + 1
          /\ \A i \in 1..Len(patches) : patches'[i] = patches[i]
          /\ patches'[Len(patches) + 1] = log[Len(patches) + 1]
      BY <2>2, <3>1, <3>2, AppendProperties
    <3>4. \A i \in 1..Len(patches') : patches'[i] = log'[i]
      BY <2>1, <2>2, <3>3
    <3>5. ToSet(log)' = ToSet(log)
      BY <2>1
    <3>6. QED
      BY <1>0, <2>1, <3>1, <3>4, <3>5 DEF AdviceInv, FormatsLog, AdviceFormat, AdviceFormatted
  <2>5. QED
    BY <2>3, <2>4
<1>6. QED
  BY <1>1, <1>2, <1>3, <1>4, <1>5 DEF Stage

\* A command that fails ends there; the commits and the advice stay.
LEMMA AdviceDies == ASSUME AdviceInv, Dies PROVE AdviceInv'
<1>1. UNCHANGED <<log, patches, advised, held>> /\ pc' = "idle"
  BY DEF Dies, Fail, Goto, tree, history
<1>2. KInv'
  BY DiesStep DEF AdviceInv
<1>3. QED
  BY <1>1, <1>2, AdviceQuiet

\* Any command but the format, or make again after the reset, is another thing
\* than the refusal advised.
LEMMA AdviceMake == ASSUME AdviceInv, NEW g \in Goals, Make(g) PROVE AdviceInv'
<1>1. KInv'
  BY MakeStep DEF AdviceInv
<1>2. /\ UNCHANGED <<log, patches, held>> /\ pc' = FirstStage(g)
      /\ advised' \in {"none", "format", "rerun"}
      /\ advised' = "format" => g = "linux-patches-format" /\ advised = "format"
  BY DEF Make, AfterMake, tree
<1>3. /\ FirstStage(g) \in {"fetch", "format", "build"}
      /\ g = "linux-patches-format" => FirstStage(g) = "format"
  BY DEF FirstStage, Goals
<1>4. ToSet(log)' = ToSet(log)
  BY <1>2
<1>5. QED
  BY <1>1, <1>2, <1>3, <1>4 DEF AdviceInv, FormatsLog, AdviceFormat, AdviceFormatted

\* The developer works between two commands only.
LEMMA AdviceDeveloper == ASSUME AdviceInv, Developer PROVE AdviceInv'
<1>0. KInv' /\ pc = "idle" /\ pc' = "idle"
  <2>1. pc' = pc
    BY DEF Developer, Edit, Commit, Amend, Pull, TagBase, StartFresh, AmAbort, Reset, Clean,
           Elsewhere, run
  <2>2. QED
    BY <2>1, DeveloperStep DEF AdviceInv
<1>1. CASE Reset
  <2>1. /\ advised = "reset" /\ advised' = "done" /\ UNCHANGED <<patches, held>>
    BY <1>1 DEF Reset
  <2>2. ToSet(patches)' = ToSet(patches)
    BY <2>1
  <2>3. QED
    BY <1>0, <2>1, <2>2 DEF AdviceInv, FormatsLog, AdviceFormat, AdviceFormatted
<1>2. CASE ~Reset
  <2>1. advised' = "none"
    BY <1>2 DEF Developer, Edit, Commit, Amend, Pull, TagBase, StartFresh, AmAbort, Clean, Elsewhere
  <2>2. QED
    BY <1>0, <2>1 DEF AdviceInv, FormatsLog, AdviceFormat, AdviceFormatted
<1>3. QED
  BY <1>1, <1>2

\* AdviceInv is inductive.
LEMMA AdviceNext == AdviceInv /\ [Next]_vars => AdviceInv'
<1> SUFFICES ASSUME AdviceInv, [Next]_vars PROVE AdviceInv'
  OBVIOUS
<1>1. CASE UNCHANGED vars
  <2>1. UNCHANGED <<log, patches, advised, held, pc>>
    BY <1>1 DEF vars, tree, run, history
  <2>2. KInv'
    BY NextStep DEF AdviceInv
  <2>3. ToSet(log)' = ToSet(log) /\ ToSet(patches)' = ToSet(patches)
    BY <2>1
  <2>4. QED
    BY <2>1, <2>2, <2>3 DEF AdviceInv, FormatsLog, AdviceFormat, AdviceFormatted
<1>2. QED
  BY <1>1, AdviceStage, AdviceDies, AdviceMake, AdviceDeveloper DEF Next

\* A developer who formats and resets as a refusal tells him, and does nothing
\* else in between, has every commit of that moment in the patch files,
\* however often the format failed and was run again.
THEOREM AdviceLosesNoCommit == Spec => []AdviceKeepsCommits
<1>1. AdviceInv => AdviceKeepsCommits
  BY DEF AdviceInv, AdviceFormatted, AdviceKeepsCommits
<1>2. QED
  BY <1>1, AdviceInit, AdviceNext, PTL DEF Spec
=============================================================================
