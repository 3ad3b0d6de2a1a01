----------------------------- MODULE ReleaseBundle -----------------------------
(***************************************************************************)
(* The files behind a publication, in scripts/release-publisher.py: the    *)
(* bundles of the two architectures are validated and assembled into one,  *)
(* which the publisher validates again, uploads archive by archive and     *)
(* compares with what GitHub says it holds.  Others write to the           *)
(* directories between any two of these steps, and the job is killed and   *)
(* started again.  ReleasePublisher models the other side, GitHub.         *)
(***************************************************************************)
EXTENDS Naturals, FiniteSets

CONSTANTS Requests,     \* what a job is asked: [owner, unit, kind, arch], owner the
                        \* repository, unit that of the tag, kind RELEASE_KIND
          MaxWrites     \* bound on writes of others

Arches == {"x86_64", "aarch64"}
Dirs   == Arches \cup {"output"}
NoUnit == "none"

ASSUME RequestAssumption ==
    /\ MaxWrites \in Nat
    /\ \A r \in Requests : r.arch \in Arches \cup {"all"}

(* A file's bytes: the architecture whose validation accepts them, and a   *)
(* number, since nobody writes the same bytes twice.                       *)
Absent == [fits |-> "absent", copy |-> 0]
Odd    == [fits |-> "odd", copy |-> 0]      \* a link, or nothing in it
Good(a) == [fits |-> a, copy |-> 0]
Bundle(f, n) == [there |-> TRUE, files |-> f, extra |-> FALSE, notes |-> n]
NoBundle == [Bundle([a \in Arches |-> Absent], "odd") EXCEPT !.there = FALSE]
Staged(a) == Bundle([b \in Arches |-> IF b = a THEN Good(a) ELSE Absent], "notes")

VARIABLES request,    \* what the job is asked
          bundle,     \* [Dirs -> bundle]; notes is "notes", "edited", or "odd" for a text
                      \* that is empty, too long, a link, or holds a retired marker
          job,        \* its next step
          stage,      \* "assemble" or "publish"
          checking,   \* the directory it is validating or publishing
          before,     \* local_assets at the beginning of a validation
          view,       \* private copies that release.sh validates
          expected,   \* validated bytes: what may be uploaded
          remote,     \* the assets of the draft
          shown,      \* whether it is public
          writes

bundleVars == <<request, bundle, job, stage, checking, before, view, expected, remote, shown, writes>>
checkVars  == <<before, view>>
remoteVars == <<remote, shown>>
NoBytes    == [a \in Arches |-> Absent]

BundleInit ==
    /\ request \in Requests
    /\ bundle = [d \in Dirs |-> IF d = "output" THEN NoBundle ELSE Staged(d)]
    /\ job = "start" /\ stage = "assemble" /\ checking = "output"
    /\ before = NoBytes /\ view = NoBytes /\ expected = NoBytes
    /\ remote = NoBytes /\ shown = FALSE /\ writes = 0

-----------------------------------------------------------------------------
\* unit_for: a tag without a unit is for the component's own repository.
Owners == {"accelerator", "connector", "sandboxer", "orchestrator"}
UnitFor(r) == IF r.owner = "guest-runtime" THEN r.unit \in {"runtime", "vmlinux"}
              ELSE r.owner \in Owners /\ r.unit = NoUnit

\* release_cli: the release the job builds is of the tag's unit.
ReleaseCli(r) == r.kind \in {"unset", r.unit}

\* names: an archive for each architecture asked for.
NamesIn(d) == IF d = "output" THEN Arches ELSE {d}

\* Exactly the archives selected, each a regular file with something in it.
LocalAssets(d) == LET b == bundle[d] IN
    /\ b.there /\ ~b.extra
    /\ \A a \in Arches : b.files[a] # Absent <=> a \in NamesIn(d)
    /\ \A a \in NamesIn(d) : b.files[a] # Odd

HumanNotes(d) == bundle[d].there /\ bundle[d].notes # "odd"

Do(from, to) == job = from /\ job' = to
If(ok, to)   == job' = IF ok THEN to ELSE "failed"

\* What the job publishes: one architecture as it is, or both assembled.
PublishedDir == IF request.arch = "all" THEN "output" ELSE request.arch

CheckRequest ==
    /\ job = "start"
    /\ If(UnitFor(request) /\ ReleaseCli(request),
          IF request.arch = "all" THEN "compare" ELSE "read")
    /\ UNCHANGED <<request, bundle, stage, checking, checkVars, expected, remoteVars, writes>>

-----------------------------------------------------------------------------
(* assemble                                                                *)

\* A fresh output, and the same notes on both sides.
CompareNotes ==
    /\ job = "compare"
    /\ If(/\ ~bundle["output"].there /\ \A a \in Arches : HumanNotes(a)
          /\ bundle["x86_64"].notes = bundle["aarch64"].notes, "before")
    /\ checking' = "x86_64" /\ stage' = "assemble"
    /\ UNCHANGED <<request, bundle, checkVars, expected, remoteVars, writes>>

MakeOutput ==
    /\ job = "mkdir" /\ If(~bundle["output"].there, "copyX86")
    /\ bundle' = IF bundle["output"].there THEN bundle
                 ELSE [bundle EXCEPT !["output"] = Bundle(NoBytes, "odd")]
    /\ UNCHANGED <<request, stage, checking, checkVars, expected, remoteVars, writes>>

CopyTo(a) ==
    LET f == bundle[a].files[a]
        ok == bundle["output"].there /\ f # Absent IN
    /\ If(ok, IF a = "x86_64" THEN "copyArm" ELSE "copyNotes")
    /\ bundle' = IF ok THEN [bundle EXCEPT !["output"].files[a] = f] ELSE bundle
    /\ UNCHANGED <<request, stage, checking, checkVars, expected, remoteVars, writes>>

CopyOutput == \/ job = "copyX86" /\ CopyTo("x86_64")
              \/ job = "copyArm" /\ CopyTo("aarch64")

CopyNotes ==
    /\ job = "copyNotes" /\ If(bundle["output"].there, "before")
    /\ bundle' = IF bundle["output"].there
                 THEN [bundle EXCEPT !["output"].notes = bundle["x86_64"].notes] ELSE bundle
    /\ checking' = "output"
    /\ UNCHANGED <<request, stage, checkVars, expected, remoteVars, writes>>

-----------------------------------------------------------------------------
(* validate_bundle, for assemble and for publish                           *)

Before ==
    /\ job = "before"
    /\ If(LocalAssets(checking), IF checking = "output" THEN "view" ELSE "judge")
    /\ before' = bundle[checking].files /\ view' = NoBytes
    /\ UNCHANGED <<request, bundle, stage, checking, expected, remoteVars, writes>>

\* One private view after another.
CopyView ==
    /\ job = "view"
    /\ LET a == IF view["x86_64"] = Absent THEN "x86_64" ELSE "aarch64"
           f == bundle[checking].files[a] IN
       /\ If(f # Absent /\ bundle[checking].there, IF a = "x86_64" THEN "view" ELSE "judge")
       /\ view' = [view EXCEPT ![a] = f]
    /\ UNCHANGED <<request, bundle, stage, checking, before, expected, remoteVars, writes>>

\* release.sh validate: the views, or a single architecture where it is.
Judge ==
    /\ job = "judge"
    /\ LET judged == IF checking = "output" THEN view ELSE bundle[checking].files IN
       If(\A a \in NamesIn(checking) : judged[a].fits = a, "after")
    /\ UNCHANGED <<request, bundle, stage, checking, checkVars, expected, remoteVars, writes>>

NextCheck == IF stage = "publish" THEN "find"
             ELSE CASE checking = "x86_64" -> "before" [] checking = "aarch64" -> "mkdir"
                    [] OTHER -> "read"

\* Faulty variant: what is there now is taken for what was validated.
AfterTakes ==
    /\ job = "after"
    /\ If(LocalAssets(checking), NextCheck)
    /\ checking' = IF stage = "assemble" /\ checking = "x86_64" THEN "aarch64" ELSE checking
    /\ expected' = IF stage = "publish" THEN bundle[checking].files ELSE expected
    /\ UNCHANGED <<request, bundle, stage, checkVars, remoteVars, writes>>

\* Nothing has changed during the validation: these bytes are the validated ones.
After ==
    /\ job = "after"
    /\ If(LocalAssets(checking) /\ bundle[checking].files = before,
          NextCheck)
    /\ checking' = IF stage = "assemble" /\ checking = "x86_64" THEN "aarch64" ELSE checking
    /\ expected' = IF stage = "publish" THEN before ELSE expected
    /\ UNCHANGED <<request, bundle, stage, checkVars, remoteVars, writes>>

-----------------------------------------------------------------------------
(* publish                                                                 *)

ReadNotes ==
    /\ job = "read" /\ If(HumanNotes(PublishedDir), "before")
    /\ checking' = PublishedDir /\ stage' = "publish"
    /\ UNCHANGED <<request, bundle, checkVars, expected, remoteVars, writes>>

Unchanged(d) == LocalAssets(d) /\ bundle[d].files = expected
Uploaded     == {a \in Arches : remote[a] # Absent}
Matches      == \A a \in Uploaded : remote[a] = expected[a]
Complete     == Matches /\ Uploaded = NamesIn(checking)

\* A draft of an earlier attempt holds nothing but validated bytes.
FindDraft ==
    /\ job = "find" /\ If(Matches /\ (shown => Complete) /\ (~shown => Unchanged(checking)),
                          IF shown THEN "done" ELSE "upload")
    /\ UNCHANGED <<request, bundle, stage, checking, checkVars, expected, remoteVars, writes>>

BeforeUpload ==
    /\ job = "upload" /\ Uploaded # NamesIn(checking)
    /\ If(Unchanged(checking), "send")
    /\ UNCHANGED <<request, bundle, stage, checking, checkVars, expected, remoteVars, writes>>

\* The client reads the file once more.
Send ==
    /\ job = "send"
    /\ \E a \in NamesIn(checking) \ Uploaded :
         /\ If(bundle[checking].files[a] # Absent, "compareRemote")
         /\ remote' = [remote EXCEPT ![a] = bundle[checking].files[a]]
    /\ UNCHANGED <<request, bundle, stage, checking, checkVars, expected, shown, writes>>

\* By size and digest.
CompareRemote ==
    /\ job = "compareRemote" /\ If(Matches, "upload")
    /\ UNCHANGED <<request, bundle, stage, checking, checkVars, expected, remoteVars, writes>>

Show ==
    /\ job = "upload" /\ Uploaded = NamesIn(checking)
    /\ If(Complete, "confirm") /\ shown' = (shown \/ Complete)
    /\ UNCHANGED <<request, bundle, stage, checking, checkVars, expected, remote, writes>>

ConfirmLocal ==
    /\ job = "confirm" /\ If(Complete /\ Unchanged(checking), "done")
    /\ UNCHANGED <<request, bundle, stage, checking, checkVars, expected, remoteVars, writes>>

-----------------------------------------------------------------------------
(* Others                                                                  *)

KillJob ==
    /\ job \notin {"start", "done", "failed"} /\ job' = "failed"
    /\ UNCHANGED <<request, bundle, stage, checking, checkVars, expected, remoteVars, writes>>

\* Again, with or without what an earlier assembly left.
RunAgain ==
    /\ Do("failed", "start")
    /\ bundle' \in {bundle, [bundle EXCEPT !["output"] = NoBundle]}
    /\ UNCHANGED <<request, stage, checking, checkVars, expected, remoteVars, writes>>

WriteBundle ==
    /\ writes < MaxWrites /\ writes' = writes + 1
    /\ \E d \in {d \in Dirs : bundle[d].there} :
         \/ \E a \in Arches, fits \in Arches \cup {"neither"} :
               bundle' = [bundle EXCEPT ![d].files[a] = [fits |-> fits, copy |-> writes']]
         \/ \E a \in Arches, f \in {Absent, Odd} : bundle' = [bundle EXCEPT ![d].files[a] = f]
         \/ \E n \in {"edited", "odd"} : bundle' = [bundle EXCEPT ![d].notes = n]
         \/ bundle' = [bundle EXCEPT ![d].extra = TRUE]
    /\ UNCHANGED <<request, job, stage, checking, checkVars, expected, remoteVars>>

Assemble == CompareNotes \/ MakeOutput \/ CopyOutput \/ CopyNotes
Validate == Before \/ CopyView \/ Judge \/ After
Publish  == ReadNotes \/ FindDraft \/ BeforeUpload \/ Send \/ CompareRemote \/ Show \/ ConfirmLocal

BundleNext == CheckRequest \/ Assemble \/ Validate \/ Publish \/ KillJob \/ RunAgain \/ WriteBundle

BundleSpec == BundleInit /\ [][BundleNext]_bundleVars

-----------------------------------------------------------------------------
\* "Publish the current validated bundle": whoever writes to the directories
\* during validation, assembly or upload, what becomes public is an archive
\* that was validated for its architecture, for every architecture asked for,
\* in the repository of the tag's unit.
ShownIsValidated ==
    shown => /\ UnitFor(request) /\ ReleaseCli(request)
             /\ \A a \in Arches : remote[a].fits = IF a \in NamesIn(PublishedDir) THEN a ELSE "absent"
===============================================================================
