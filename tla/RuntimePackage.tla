---------------------------- MODULE RuntimePackage ----------------------------
(***************************************************************************)
(* make release-runtime: prepare-sandbox-init.py installs the binary of    *)
(* the selected sandboxer release and its Go notices, the Makefile builds  *)
(* flatten-ctl and packs sandbox-runtime.bundle, and release.sh package    *)
(* assembles and validates the archive.  make sandbox-runtime can also be  *)
(* called by itself, and so can release.sh package, with the variables the *)
(* recipe gives it, in the same build tree.                                *)
(*                                                                         *)
(* One command runs at a time, a step is one of its commands.  Between any *)
(* two steps others may use the checkouts and replace files of the tree.   *)
(***************************************************************************)
EXTENDS Naturals, FiniteSets

CONSTANTS Commits,       \* of guest-runtime
          Releases,      \* of sandboxer; each names its tagged commit
          Toolchain,     \* [Releases -> compiler of its sandbox-init]
          Contexts,      \* Go compilers of the checkouts on this host
          GoVersion,     \* the one that builds guest-runtime and envd
          OldEnvds,      \* envd binaries other recipes have left
          Deps,          \* [Revs -> modules linked into a build of it]
          MaxMishaps     \* bound on failing commands, kills and steps of others

Toolchains == {Toolchain[r] : r \in Releases} \cup Contexts \cup {e.tc : e \in OldEnvds}

\* What a Go binary records of itself, and the notices its payload needs.
Binary(unit, rev, clean, tc) == [unit |-> unit, rev |-> rev, clean |-> clean, tc |-> tc]
Flats == {Binary("flatten-ctl", c, b, GoVersion) : c \in Commits, b \in BOOLEAN}
InitOf(r) == Binary("init", r, TRUE, Toolchain[r])
DevInit == Binary("init", "dev", FALSE, GoVersion)
Inits == {InitOf(r) : r \in Releases} \cup {DevInit}
NewEnvd == Binary("envd", "2026.22", TRUE, GoVersion)
Envds == OldEnvds \cup {NewEnvd}
Revs == {b.rev : b \in Inits \cup Envds \cup Flats}
Modules == UNION {Deps[v] : v \in Revs}
NoticesOf(b) == {<<"toolchain", b.tc>>} \cup {<<"module", m>> : m \in Deps[b.rev]}

ASSUME SelectionAssumption ==
    /\ Toolchain \in [Releases -> Toolchains] /\ GoVersion \in Contexts
    /\ Deps \in [Revs -> SUBSET Modules]
    /\ \A e \in OldEnvds : e = Binary("envd", e.rev, TRUE, e.tc)
    /\ MaxMishaps \in Nat

NoFile      == [unit |-> "none"]
NoBundle    == [init |-> NoFile, envd |-> NoFile, flat |-> NoFile]
NoToolchain == "none"
NoArchive   == [kind |-> "none"]

VARIABLES
    head, dirty,   \* checkout of guest-runtime: HEAD, uncommitted edits
    checkout,      \* checkout of ../sandboxer: the release it is at
    files,         \* [init: release-inputs/sandbox-init, envd, flat: bin/]
    notices,       \* release-inputs/sandboxer-go: the toolchain it is for
    staging,       \* build/<arch>/sandbox-runtime, the tree to be packed
    erofs, bundle, \* sandbox-runtime.erofs and .bundle, by what they contain
    archive,       \* the output of release.sh
    pc,            \* next command, or idle
    job,           \* the running make, and the private $WORK of release.sh
    result,        \* how the last one ended
    moved,         \* history: what others changed since it began
    mishaps

sources == <<head, dirty, checkout>>
inputs  == <<files, notices>>
images  == <<staging, erofs, bundle>>
vars    == <<sources, inputs, images, archive, pc, job, result, moved, mishaps>>

Goals == {"release-runtime", "sandbox-runtime", "package"}
Steps == {"select", "fetch", "clearNotices", "putNotices", "putInit", "flatten",
          "prerequisites", "clean", "init", "envd", "flat", "rmBundle", "mkfs", "bundle",
          "rmOutput", "source", "licenses", "sandboxer", "stageBundle", "stageFlat",
          "version", "sandboxerLicenses", "initNotices", "envdNotices", "finish", "tar",
          "validate", "cmpInit", "cmpEnvd"}
Entry == [g \in Goals |-> CASE g = "release-runtime" -> "select"
                            [] g = "sandbox-runtime" -> "prerequisites"
                            [] g = "package"         -> "source"]

Contents == [init : Inits \cup {NoFile}, envd : Envds \cup {NoFile}, flat : Flats \cup {NoFile}]
Notices  == ({"toolchain"} \X Toolchains) \cup ({"module"} \X Modules)
NoRev    == "none"
Archives == [kind : {"whole", "partial"}, bundle : Contents, flat : Flats \cup {NoFile},
             notices : SUBSET Notices, project : Commits \cup {NoRev},
             sandboxer : Releases \cup {NoRev}]
Staged0  == [kind |-> "whole", bundle |-> NoBundle, flat |-> NoFile, notices |-> {},
             project |-> NoRev, sandboxer |-> NoRev]
Job(g, r) == [goal |-> g, version |-> r, sha |-> NoRev, sandboxer |-> NoRev,
              stage |-> Staged0]

\* A fresh checkout of both repositories.
Init ==
    /\ head \in Commits /\ dirty = FALSE /\ checkout \in Releases
    /\ files = NoBundle /\ notices = NoToolchain
    /\ staging = NoBundle /\ erofs = NoBundle /\ bundle = NoBundle
    /\ archive = NoArchive
    /\ pc = "idle" /\ job = Job("package", checkout) /\ result = "none"
    /\ moved = {} /\ mishaps = 0

-----------------------------------------------------------------------------
At(l)   == pc = l
Go(l)   == pc' = l /\ UNCHANGED result
End(r)  == pc' = "idle" /\ result' = r
Require(cond, l) == IF cond THEN Go(l) ELSE End("failed")
Note(x) == moved' = moved \cup {x}

Make(g, r) ==
    /\ At("idle")
    /\ pc' = Entry[g] /\ job' = Job(g, r) /\ result' = "none" /\ moved' = {}
    /\ UNCHANGED <<sources, inputs, images, archive, mishaps>>

(* prepare-sandbox-init.py                                                 *)

\* The checkout of sandboxer is at the selected tag.
Select ==
    /\ At("select") /\ Require(checkout = job.version, "fetch")
    /\ UNCHANGED <<sources, inputs, images, archive, job, moved, mishaps>>

\* The release's asset passed every check, and its notices are complete in a
\* private directory.
Fetch ==
    /\ At("fetch") /\ Go("clearNotices")
    /\ UNCHANGED <<sources, inputs, images, archive, job, moved, mishaps>>

ClearNotices ==
    /\ At("clearNotices") /\ Go("putNotices")
    /\ notices' = NoToolchain
    /\ UNCHANGED <<sources, files, images, archive, job, moved, mishaps>>

PutNotices ==
    /\ At("putNotices") /\ Go("putInit")
    /\ notices' = Toolchain[job.version]
    /\ UNCHANGED <<sources, files, images, archive, job, moved, mishaps>>

PutInit ==
    /\ At("putInit") /\ Go("flatten")
    /\ files' = [files EXCEPT !.init = InitOf(job.version)]
    /\ moved' = moved \ {"init"}
    /\ UNCHANGED <<sources, notices, images, archive, job, mishaps>>

(* The Makefile                                                            *)
Built == Binary("flatten-ctl", head, ~dirty, GoVersion)

Flatten ==
    /\ At("flatten") /\ Go("prerequisites")
    /\ files' = [files EXCEPT !.flat = Built]
    /\ UNCHANGED <<sources, notices, images, archive, job, moved, mishaps>>

\* What is missing is built; what is there is taken as it is.
Prerequisites ==
    /\ At("prerequisites") /\ Go("clean")
    /\ files' = [files EXCEPT !.envd = IF @ = NoFile THEN NewEnvd ELSE @,
                              !.flat = IF @ = NoFile THEN Built ELSE @]
    /\ UNCHANGED <<sources, notices, images, archive, job, moved, mishaps>>

Clean ==
    /\ At("clean") /\ Go("init")
    /\ staging' = NoBundle
    /\ UNCHANGED <<sources, inputs, erofs, bundle, archive, job, moved, mishaps>>

\* The development entry packs the binary of the sandboxer checkout.
SandboxInit == IF job.goal = "release-runtime" THEN files.init ELSE DevInit

CopyPayload(u, source, next) ==
    /\ At(u) /\ Go(next)
    /\ staging' = [staging EXCEPT ![u] = source]
    /\ UNCHANGED <<sources, inputs, erofs, bundle, archive, job, moved, mishaps>>

RemoveBundle ==
    /\ At("rmBundle") /\ Go("mkfs")
    /\ erofs' = NoBundle /\ bundle' = NoBundle
    /\ UNCHANGED <<sources, inputs, staging, archive, job, moved, mishaps>>

Mkfs ==
    /\ At("mkfs") /\ Go("bundle")
    /\ erofs' = staging
    /\ UNCHANGED <<sources, inputs, staging, bundle, archive, job, moved, mishaps>>

Bundle ==
    /\ At("bundle")
    /\ IF job.goal = "release-runtime" THEN Go("rmOutput") ELSE End("built")
    /\ bundle' = erofs
    /\ UNCHANGED <<sources, inputs, staging, erofs, archive, job, moved, mishaps>>

\* Faulty variant: an earlier output stays.
RemoveOutputKept ==
    /\ At("rmOutput") /\ Go("source")
    /\ UNCHANGED <<sources, inputs, images, archive, job, moved, mishaps>>

RemoveOutput ==
    /\ At("rmOutput") /\ Go("source")
    /\ archive' = NoArchive
    /\ UNCHANGED <<sources, inputs, images, job, moved, mishaps>>

(* release.sh package                                                      *)
Stage(f, v) == job' = [job EXCEPT !.stage[f] = v]
AddNotices(b) == job' = [job EXCEPT !.stage.notices = @ \cup NoticesOf(b)]

\* No earlier output, and a clean worktree.
ResolveSource ==
    /\ At("source") /\ Require(archive = NoArchive /\ ~dirty, "licenses")
    /\ job' = [job EXCEPT !.sha = head]
    /\ UNCHANGED <<sources, inputs, images, archive, moved, mishaps>>

\* License files are compared with HEAD as it is now.
ProjectLicenses ==
    /\ At("licenses") /\ Go("sandboxer")
    /\ Stage("project", head)
    /\ UNCHANGED <<sources, inputs, images, archive, moved, mishaps>>

ResolveSandboxer ==
    /\ At("sandboxer") /\ Go("stageBundle")
    /\ job' = [job EXCEPT !.sandboxer = checkout]
    /\ UNCHANGED <<sources, inputs, images, archive, moved, mishaps>>

StageBundle ==
    /\ At("stageBundle") /\ Require(bundle # NoBundle, "stageFlat")
    /\ Stage("bundle", bundle)
    /\ UNCHANGED <<sources, inputs, images, archive, moved, mishaps>>

FromSource(b) == b # NoFile /\ b.rev = job.sha /\ b.clean

StageFlat ==
    /\ At("stageFlat") /\ Require(FromSource(files.flat), "version")
    /\ Stage("flat", files.flat)
    /\ UNCHANGED <<sources, inputs, images, archive, moved, mishaps>>

\* The selected tag is the commit the sandboxer checkout was at.  It exists:
\* the recipe demands it before it prepares anything, and tags stay.
SandboxerVersion ==
    /\ At("version") /\ Require(job.sandboxer = job.version, "sandboxerLicenses")
    /\ UNCHANGED <<sources, inputs, images, archive, job, moved, mishaps>>

SandboxerLicenses ==
    /\ At("sandboxerLicenses") /\ Go("initNotices")
    /\ Stage("sandboxer", checkout)
    /\ UNCHANGED <<sources, inputs, images, archive, moved, mishaps>>

\* The inventory is taken of the staged flatten-ctl, and of the two inputs
\* beside the bundle.
InitNotices ==
    /\ At("initNotices") /\ Require(files.init # NoFile, "envdNotices")
    /\ IF files.init # NoFile
       THEN job' = [job EXCEPT !.stage.notices =
                       NoticesOf(job.stage.flat) \cup NoticesOf(files.init)]
       ELSE UNCHANGED job
    /\ UNCHANGED <<sources, inputs, images, archive, moved, mishaps>>

EnvdNotices ==
    /\ At("envdNotices") /\ Require(files.envd # NoFile, "finish")
    /\ IF files.envd # NoFile THEN AddNotices(files.envd) ELSE UNCHANGED job
    /\ UNCHANGED <<sources, inputs, images, archive, moved, mishaps>>

\* Go notices come from this host's compilers or from the prepared directory.
Finish ==
    /\ At("finish")
    /\ Require(\A t \in Toolchains : <<"toolchain", t>> \in job.stage.notices
                                        => t \in Contexts \/ t = notices, "tar")
    /\ UNCHANGED <<sources, inputs, images, archive, job, moved, mishaps>>

Tar ==
    /\ At("tar") /\ Go("validate")
    /\ archive' = job.stage
    /\ UNCHANGED <<sources, inputs, images, job, moved, mishaps>>

Covered(b) == b # NoFile /\ NoticesOf(b) \subseteq archive.notices

\* Faulty variants: the payloads of the bundle are not looked at, or the
\* embedded flatten-ctl is not compared.
ValidateOuter ==
    /\ At("validate")
    /\ Require(FromSource(archive.flat) /\ archive.bundle.flat = archive.flat, "cmpInit")
    /\ UNCHANGED <<sources, inputs, images, archive, job, moved, mishaps>>
ValidateNotCompared ==
    /\ At("validate")
    /\ Require(/\ FromSource(archive.flat)
               /\ Covered(archive.bundle.init) /\ Covered(archive.bundle.envd), "cmpInit")
    /\ UNCHANGED <<sources, inputs, images, archive, job, moved, mishaps>>

\* release.sh validate, of the archive just written.
Validate ==
    /\ At("validate")
    /\ Require(/\ FromSource(archive.flat) /\ Covered(archive.flat)
               /\ archive.bundle.flat = archive.flat
               /\ Covered(archive.bundle.init) /\ Covered(archive.bundle.envd), "cmpInit")
    /\ UNCHANGED <<sources, inputs, images, archive, job, moved, mishaps>>

\* Faulty variant: the embedded init is taken for the selected one.
CompareInitSkipped ==
    /\ At("cmpInit") /\ Go("cmpEnvd")
    /\ UNCHANGED <<sources, inputs, images, archive, job, moved, mishaps>>

CompareInit ==
    /\ At("cmpInit") /\ Require(archive.bundle.init = files.init, "cmpEnvd")
    /\ UNCHANGED <<sources, inputs, images, archive, job, moved, mishaps>>

CompareEnvd ==
    /\ At("cmpEnvd")
    /\ End(IF archive.bundle.envd = files.envd THEN "released" ELSE "failed")
    /\ UNCHANGED <<sources, inputs, images, archive, job, moved, mishaps>>

-----------------------------------------------------------------------------
(* Failures and others                                                     *)

Mishap == mishaps < MaxMishaps /\ mishaps' = mishaps + 1

\* A command fails or the make is killed; half an archive may stay.
Fails ==
    /\ ~At("idle") /\ Mishap /\ End("failed")
    /\ archive' \in {archive} \cup (IF At("tar") THEN {[Staged0 EXCEPT !.kind = "partial"]} ELSE {})
    /\ UNCHANGED <<sources, inputs, images, job, moved>>

UsesCheckouts ==
    /\ \/ head' \in Commits \ {head} /\ Note("head") /\ UNCHANGED <<dirty, checkout>>
       \/ dirty' = ~dirty /\ UNCHANGED <<head, checkout, moved>>
       \/ checkout' \in Releases \ {checkout} /\ Note("checkout") /\ UNCHANGED <<head, dirty>>
    /\ UNCHANGED <<inputs, images>>

ReplacesInput ==
    /\ \/ \E b \in Inits  : files' = [files EXCEPT !.init = b] /\ Note("init")
       \/ \E b \in Envds  : files' = [files EXCEPT !.envd = b] /\ UNCHANGED moved
       \/ \E b \in Flats  : files' = [files EXCEPT !.flat = b] /\ UNCHANGED moved
    /\ UNCHANGED <<sources, notices, images>>

\* Another build of the same tree packs, or clears, the directory, or
\* installs a bundle with an init of its own.
ReplacesImage ==
    /\ \/ \E b \in Inits : staging' = [staging EXCEPT !.init = b] /\ UNCHANGED <<erofs, bundle>>
       \/ staging' = NoBundle /\ UNCHANGED <<erofs, bundle>>
       \/ \E b \in Inits : bundle' = [files EXCEPT !.init = b] /\ UNCHANGED <<staging, erofs>>
    /\ UNCHANGED <<sources, inputs, moved>>

Others ==
    /\ Mishap
    /\ UsesCheckouts \/ ReplacesInput \/ ReplacesImage
    /\ UNCHANGED <<archive, pc, job, result>>

Prepare  == Select \/ Fetch \/ ClearNotices \/ PutNotices \/ PutInit
Assemble == \/ Flatten \/ Prerequisites \/ Clean \/ RemoveBundle \/ Mkfs \/ Bundle \/ RemoveOutput
            \/ CopyPayload("init", SandboxInit, "envd")
            \/ CopyPayload("envd", files.envd, "flat")
            \/ CopyPayload("flat", files.flat, "rmBundle")
Package  == \/ ResolveSource \/ ProjectLicenses \/ ResolveSandboxer \/ StageBundle \/ StageFlat
            \/ SandboxerVersion \/ SandboxerLicenses \/ InitNotices \/ EnvdNotices \/ Finish
            \/ Tar \/ Validate \/ CompareInit \/ CompareEnvd
Step     == Prepare \/ Assemble \/ Package

Next == Step \/ Fails \/ Others \/ \E g \in Goals, r \in Releases : Make(g, r)

Spec == Init /\ [][Next]_vars

\* A running make goes on, and somebody keeps asking for the release of the
\* sandboxer version that is checked out.
Fairness == WF_vars(Step) /\ SF_vars(Make("release-runtime", checkout))

FairSpec == Spec /\ Fairness

-----------------------------------------------------------------------------
(***************************************************************************)
(* Properties                                                              *)
(***************************************************************************)
\* Every variable has its type.
TypeOK ==
    /\ head \in Commits /\ dirty \in BOOLEAN /\ checkout \in Releases
    /\ files \in Contents /\ notices \in Toolchains \cup {NoToolchain}
    /\ staging \in Contents /\ erofs \in Contents /\ bundle \in Contents
    /\ archive \in Archives \cup {NoArchive}
    /\ pc \in Steps \cup {"idle"}
    /\ job \in [goal : Goals, version : Releases, sha : Commits \cup {NoRev},
                sandboxer : Releases \cup {NoRev}, stage : Archives]
    /\ result \in {"none", "failed", "built", "released"}
    /\ moved \subseteq {"head", "checkout", "init"}
    /\ mishaps \in 0..MaxMishaps

Payloads == {archive.flat, archive.bundle.init, archive.bundle.envd, archive.bundle.flat}

\* However the tree changed during the run: a package that release.sh reports
\* has one flatten-ctl, outside and in the bundle, built of the clean commit
\* the run began with.
OneFlattenCtl ==
    result = "released" =>
        /\ archive.bundle.flat = archive.flat
        /\ archive.flat.rev = job.sha /\ archive.flat.clean

\* And it carries the compiler and module notices of every binary it ships,
\* though they were collected from other files than the ones shipped.
NoticesCoverPayloads ==
    result = "released" => \A b \in Payloads : Covered(b)

\* Makefile: "Release assembly must consume a verified selected archive, never
\* a leftover development binary".  What earlier commands left in the tree
\* gets into no release; init is the selected one unless others replaced the
\* prepared file, licenses are the selected commits' unless they moved HEAD.
SelectedOnly ==
    result = "released" /\ job.goal = "release-runtime" =>
        /\ "init" \notin moved => archive.bundle.init = InitOf(job.version)
        /\ "head" \notin moved => archive.project = job.sha
        /\ "checkout" \notin moved => archive.sandboxer = job.version

\* Whatever failed runs left behind, repeating make release-runtime ends with
\* a package, once the worktree stays clean and envd is of a compiler at hand.
Packable == ~dirty /\ (files.envd = NoFile \/ files.envd.tc \in Contexts)
ReleaseCompletes == <>[]Packable => <>(result = "released")
=============================================================================
