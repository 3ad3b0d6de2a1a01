---------------------------- MODULE KernelPatches ----------------------------
(***************************************************************************)
(* native-deps/deps/build-vmlinux.sh under native-deps/Makefile: the git   *)
(* tree of the kernel in build/src/linux, the tracked patch files, and the *)
(* image made of them.  A make command runs its stages in order; between   *)
(* commands a developer commits, pulls other patches, or does what the     *)
(* last refusal told him to.                                               *)
(*                                                                         *)
(* A commit and a patch file are both [subject, text].                     *)
(***************************************************************************)
EXTENDS Naturals, Sequences, SequencesExt

CONSTANTS Subjects, Texts,   \* of commits and patches
          Series,            \* the patch files of the repository's versions
          MaxCommits,        \* bound on commits above the base
          MaxWork,           \* bound on steps of the developer
          MaxFaults          \* bound on failing commands and kills

Patches == [subject : Subjects, text : Texts]
ASSUME SeriesAssumption ==
    Series \subseteq Seq(Patches) /\ \A s \in Series : Len(s) <= MaxCommits
ASSUME BoundsAssumption == MaxCommits \in Nat /\ MaxWork \in Nat /\ MaxFaults \in Nat

VARIABLES
    git,       \* $src_dir/.git: none, without the base tag, or with it
    log,       \* commits $LINUX_BASE_TAG..HEAD, oldest first
    dirty,     \* uncommitted edits in the source tree?
    session,   \* .git/rebase-apply: [open, head]
    patches,   \* deps/linux-patches/*.patch in glob order
    image,     \* $out_bin: [kind, log, dirty] it was built from
    newer,     \* is an input of the Makefile's rule newer than it?
    target,    \* goal of the running make
    pc,        \* its next command
    advised,   \* how far the developer has followed a refusal's advice
    held,      \* history: commits and patches at that refusal
    work, faults

tree    == <<git, log, dirty, session>>
output  == <<image, newer>>
run     == <<target, pc>>
history == <<advised, held>>
vars    == <<tree, patches, output, run, history, work, faults>>

Logs   == BoundedSeq(Patches, MaxCommits)
Goals  == {"vmlinux", "linux-fetch", "linux-patches-apply", "linux-patches-format",
           "linux-build"}
Labels == {"idle", "fetch", "init", "tag", "apply", "am", "format", "write", "build", "copy"}

TypeOK ==
    /\ git \in {"none", "untagged", "tagged"}
    /\ log \in Logs
    /\ dirty \in BOOLEAN
    /\ session \in [open : BOOLEAN, head : Logs]
    /\ patches \in Logs
    /\ image \in [kind : {"none", "partial", "whole"}, log : Logs, dirty : BOOLEAN]
    /\ newer \in BOOLEAN
    /\ target \in Goals \cup {"none"}
    /\ pc \in Labels
    /\ advised \in {"none", "format", "reset", "done", "rerun"}
    /\ held \in [commits : SUBSET Patches, tracked : SUBSET Patches]
    /\ work \in 0..MaxWork /\ faults \in 0..MaxFaults

NoHeld    == [commits |-> {}, tracked |-> {}]
NoSession == [open |-> FALSE, head |-> <<>>]
NoImage   == [kind |-> "none", log |-> <<>>, dirty |-> FALSE]

\* A fresh checkout, or somebody's own clone of Linux at the source path.
Init ==
    /\ \/ git = "none" /\ log = <<>>
       \/ git = "untagged" /\ log \in {<<c>> : c \in Patches}
    /\ dirty = FALSE /\ session = NoSession
    /\ patches \in Series
    /\ image = NoImage /\ newer = FALSE
    /\ target = "none" /\ pc = "idle"
    /\ advised = "none" /\ held = NoHeld
    /\ work = 0 /\ faults = 0

-----------------------------------------------------------------------------
(* make                                                                    *)
SubjectsOf(s) == [i \in 1..Len(s) |-> s[i].subject]

FirstStage(g) == CASE g \in {"vmlinux", "linux-fetch", "linux-patches-apply"} -> "fetch"
                   [] g = "linux-patches-format" -> "format"
                   [] g = "linux-build" -> "build"

\* The stage after a successful one; "idle" ends the command.
StageAfter(s) == IF s = "fetch" /\ target # "linux-fetch" THEN "apply"
                 ELSE IF s = "apply" /\ target = "vmlinux" THEN "build"
                 ELSE "idle"

Goto(l)  == pc' = l /\ target' = IF l = "idle" THEN "none" ELSE target
Fail     == Goto("idle")

\* Making g is the developer's next step after a refusal: format, and once he
\* has reset the tree, "Then re-run".
AfterMake(g) == CASE g = "linux-patches-format" /\ advised = "format"   -> "format"
                  [] g = "vmlinux" /\ advised \in {"done", "rerun"}     -> "rerun"
                  [] OTHER                                             -> "none"

\* The rule of vmlinux runs when the image is missing or an input is newer.
Make(g) ==
    /\ pc = "idle"
    /\ g = "vmlinux" => image.kind = "none" \/ newer
    /\ target' = g /\ pc' = FirstStage(g)
    /\ advised' = AfterMake(g)
    /\ UNCHANGED <<tree, patches, output, held, work, faults>>

-----------------------------------------------------------------------------
(* do_fetch                                                                *)
FetchSkip ==
    /\ pc = "fetch" /\ git = "tagged"
    /\ Goto(StageAfter("fetch"))
    /\ UNCHANGED <<tree, patches, output, history, work, faults>>

\* Faulty variant: the tree is extracted anew, which removes the old one.
FetchRefuseOverwrites ==
    /\ pc = "fetch" /\ git = "untagged"
    /\ git' = "none" /\ log' = <<>>
    /\ Goto("init")
    /\ UNCHANGED <<dirty, session, patches, output, history, work, faults>>

\* "refusing to overwrite": a git tree without the base tag.
FetchRefuse ==
    /\ pc = "fetch" /\ git = "untagged"
    /\ Fail
    /\ UNCHANGED <<tree, patches, output, history, work, faults>>

\* resolve_tarball and extract_tarball: see SourceCache.
Extract ==
    /\ pc = "fetch" /\ git = "none"
    /\ Goto("init")
    /\ UNCHANGED <<tree, patches, output, history, work, faults>>

GitInit ==
    /\ pc = "init"
    /\ git' = "untagged"
    /\ Goto("tag")
    /\ UNCHANGED <<log, dirty, session, patches, output, history, work, faults>>

\* add -A, commit and tag.
GitTag ==
    /\ pc = "tag"
    /\ git' = "tagged"
    /\ Goto(StageAfter("fetch"))
    /\ UNCHANGED <<log, dirty, session, patches, output, history, work, faults>>

-----------------------------------------------------------------------------
(* do_patches_apply                                                        *)

\* No patch files: HEAD has to be the base.
ApplyNone ==
    /\ pc = "apply" /\ patches = <<>>
    /\ IF log = <<>> THEN Goto(StageAfter("apply")) ELSE Fail
    /\ UNCHANGED <<tree, patches, output, history, work, faults>>

\* git am refuses while the session of an earlier one is there.
ApplyStart ==
    /\ pc = "apply" /\ patches # <<>> /\ log = <<>>
    /\ IF session.open
       THEN Fail /\ UNCHANGED session
       ELSE Goto("am") /\ session' = [open |-> TRUE, head |-> <<>>]
    /\ UNCHANGED <<git, log, dirty, patches, output, history, work, faults>>

\* git am commits the next patch; after the last it removes its session.
AmPatch ==
    /\ pc = "am"
    /\ LET next == Append(log, patches[Len(log) + 1])
           last == Len(next) = Len(patches)
       IN  /\ log' = next
           /\ session' = IF last THEN NoSession ELSE [open |-> TRUE, head |-> next]
           /\ IF last THEN Goto(StageAfter("apply")) ELSE UNCHANGED run
    /\ UNCHANGED <<git, dirty, patches, output, history, work, faults>>

\* Faulty variant: as many commits as patches are taken for the patches.
AlreadyAppliedCount == Len(log) = Len(patches)
AlreadyApplied == Len(log) = Len(patches) /\ SubjectsOf(log) = SubjectsOf(patches)

\* HEAD differs from the base: applied already, or refused with the advice to
\* format, reset and run again.
ApplyCheck ==
    /\ pc = "apply" /\ patches # <<>> /\ log # <<>>
    /\ IF AlreadyApplied
       THEN Goto(StageAfter("apply")) /\ UNCHANGED history
       ELSE /\ Fail
            /\ advised' = "format"
            /\ held' = [commits |-> ToSet(log), tracked |-> ToSet(patches)]
    /\ UNCHANGED <<tree, patches, output, work, faults>>

-----------------------------------------------------------------------------
(* do_patches_format                                                       *)

\* rm -f *.patch; the directory is an input of the rule of vmlinux.
FormatClear ==
    /\ pc = "format"
    /\ IF git = "tagged"
       THEN /\ patches' = <<>>
            /\ newer' = (newer \/ patches # <<>>)
            /\ Goto("write")
       ELSE Fail /\ UNCHANGED <<patches, newer>>
    /\ UNCHANGED <<tree, image, history, work, faults>>

Formatted ==
    /\ advised' = IF advised = "format" THEN "reset" ELSE advised
    /\ Goto("idle")
    /\ UNCHANGED <<patches, newer>>

FormatCommit ==
    /\ patches' = Append(patches, log[Len(patches) + 1])
    /\ newer' = TRUE
    /\ UNCHANGED <<run, advised>>

\* Faulty variant: the newest commit is not in the range.
FormatWriteShort ==
    /\ pc = "write"
    /\ IF Len(patches) + 1 >= Len(log) THEN Formatted ELSE FormatCommit
    /\ UNCHANGED <<tree, image, held, work, faults>>

\* git format-patch base..HEAD, one file after the other.
FormatWrite ==
    /\ pc = "write"
    /\ IF Len(patches) = Len(log) THEN Formatted ELSE FormatCommit
    /\ UNCHANGED <<tree, image, held, work, faults>>

-----------------------------------------------------------------------------
(* do_build                                                                *)
\* Without .git the source directory may be there or not.
Kbuild ==
    /\ pc = "build"
    /\ Goto("copy") \/ (git = "none" /\ Fail)
    /\ UNCHANGED <<tree, patches, output, history, work, faults>>

\* cp "$image_full" "$out_bin".
CopyImage ==
    /\ pc = "copy"
    /\ image' = [kind |-> "whole", log |-> log, dirty |-> dirty]
    /\ newer' = FALSE
    /\ Goto("idle")
    /\ UNCHANGED <<tree, patches, history, work, faults>>

\* A kill, or a command that fails: a patch that does not apply, a compiler,
\* a full disk.  git am keeps its session; an interrupted cp keeps what it
\* wrote unless make removes it.
Dies ==
    /\ pc # "idle" /\ faults < MaxFaults
    /\ faults' = faults + 1
    /\ Fail
    /\ \/ UNCHANGED output
       \/ /\ pc = "copy"
          /\ \E k \in {"none", "partial"} : image' = [image EXCEPT !.kind = k]
          /\ newer' = FALSE
    /\ UNCHANGED <<tree, patches, history, work>>

-----------------------------------------------------------------------------
(* The developer, between two commands.                                    *)
Works == pc = "idle" /\ work < MaxWork /\ work' = work + 1
Elsewhere == advised' = "none" /\ UNCHANGED <<held, run, faults>>

Edit ==
    /\ Works /\ git # "none"
    /\ dirty' = TRUE
    /\ Elsewhere /\ UNCHANGED <<git, log, session, patches, output>>

Commit(c) ==
    /\ Works /\ dirty /\ Len(log) < MaxCommits
    /\ log' = Append(log, c) /\ dirty' = FALSE
    /\ Elsewhere /\ UNCHANGED <<git, session, patches, output>>

Amend(t) ==
    /\ Works /\ dirty /\ log # <<>>
    /\ log' = [log EXCEPT ![Len(log)].text = t] /\ dirty' = FALSE
    /\ Elsewhere /\ UNCHANGED <<git, session, patches, output>>

\* git checkout or pull of this repository brings another series.
Pull(s) ==
    /\ Works /\ s # patches
    /\ patches' = s /\ newer' = TRUE
    /\ Elsewhere /\ UNCHANGED <<tree, image>>

\* What the refusal of do_fetch offers: tag the commit the work is based on,
\* or start fresh.
TagBase ==
    /\ Works /\ git = "untagged"
    /\ git' = "tagged"
    /\ Elsewhere /\ UNCHANGED <<log, dirty, session, patches, output>>

StartFresh ==
    /\ Works /\ git = "untagged"
    /\ git' = "none" /\ log' = <<>> /\ dirty' = FALSE /\ session' = NoSession
    /\ Elsewhere /\ UNCHANGED <<patches, output>>

\* git am --abort goes back to the base unless HEAD moved since.
AmAbort ==
    /\ Works /\ session.open
    /\ log' = IF log = session.head THEN <<>> ELSE log
    /\ session' = NoSession
    /\ Elsewhere /\ UNCHANGED <<git, dirty, patches, output>>

\* The last step of the advice, after the format succeeded.
Reset ==
    /\ Works /\ advised = "reset"
    /\ log' = <<>> /\ dirty' = FALSE
    /\ advised' = "done"
    /\ UNCHANGED <<git, session, patches, output, held, run, faults>>

Clean ==
    /\ Works /\ image.kind # "none"
    /\ image' = NoImage /\ newer' = FALSE
    /\ Elsewhere /\ UNCHANGED <<tree, patches>>

Stage ==
    \/ FetchSkip \/ FetchRefuse \/ Extract \/ GitInit \/ GitTag
    \/ ApplyNone \/ ApplyStart \/ AmPatch \/ ApplyCheck
    \/ FormatClear \/ FormatWrite \/ Kbuild \/ CopyImage

Developer ==
    \/ Edit \/ TagBase \/ StartFresh \/ AmAbort \/ Reset \/ Clean
    \/ \E c \in Patches : Commit(c)
    \/ \E t \in Texts : Amend(t)
    \/ \E s \in Series : Pull(s)

Next == Stage \/ Dies \/ Developer \/ \E g \in Goals : Make(g)

Spec == Init /\ [][Next]_vars

-----------------------------------------------------------------------------
\* native-deps/README.md: the stages "must never silently overwrite work in
\* progress".  No make command, failing or killed, takes a commit off the
\* tree, whoever made it.
WorkKept == [][pc # "idle" => IsPrefix(log, log')]_vars

\* make vmlinux builds the tracked series, as its subjects tell: not less
\* after an interrupted git am or format, not an older one after a pull, and
\* not a kernel of which a patch was withdrawn.
BuildsTrackedSeries ==
    [][CopyImage /\ target = "vmlinux"
          => SubjectsOf(image'.log) = SubjectsOf(patches)]_vars

\* A developer who formats and resets as a refusal tells him has every commit
\* he had in the patch files.
AdviceKeepsCommits == advised = "done" => held.commits \subseteq ToSet(patches)

\* The same refusal: "Save WIP and reset: ... Then re-run."  When a developer
\* has done all of it, make vmlinux builds every patch that was tracked.
AdviceBuildsTracked ==
    [][CopyImage /\ advised = "rerun"
          => {p.subject : p \in held.tracked} \subseteq ToSet(SubjectsOf(image'.log))]_vars
=============================================================================
