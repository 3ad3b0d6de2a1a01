------------------------ MODULE RuntimePackage_proofs ------------------------
(***************************************************************************)
(* Proofs about RuntimePackage: the types, and what a released archive     *)
(* contains, for all commits, releases, compilers, modules and any number  *)
(* of failures and steps of others.                                        *)
(***************************************************************************)
EXTENDS RuntimePackage, TLAPS

Jobs == [goal : Goals, version : Releases, sha : Commits \cup {NoRev},
         sandboxer : Releases \cup {NoRev}, stage : Archives]

Built0 == Inits \cup Envds \cup Flats

\* The commands that follow one of release.sh package, or the preparation.
AfterValidate   == {"cmpInit", "cmpEnvd"}
AfterTar        == {"validate"} \cup AfterValidate
AfterSandboxerL == {"initNotices", "envdNotices", "finish", "tar"} \cup AfterTar
AfterVersion    == {"sandboxerLicenses"} \cup AfterSandboxerL
AfterStageFlat  == {"version"} \cup AfterVersion
AfterSandboxer  == {"stageBundle", "stageFlat"} \cup AfterStageFlat
AfterLicenses   == {"sandboxer"} \cup AfterSandboxer
AfterSource     == {"licenses"} \cup AfterLicenses
AfterInit       == {"flatten", "prerequisites", "clean", "init", "envd", "flat", "rmBundle",
                    "mkfs", "bundle", "rmOutput", "source"} \cup AfterSource

Releasing == job.goal = "release-runtime"

\* A command in progress has reported nothing.
Quiet == pc # "idle" => result = "none"

\* The flatten-ctl being packaged is there.
FlatStaged == pc \in AfterStageFlat => job.stage.flat \in Flats

\* What was looked at is still there, unless somebody changed it since.
InitKept == Releasing /\ pc \in AfterInit /\ "init" \notin moved
                => files.init = InitOf(job.version)
HeadKept == "head" \notin moved =>
    /\ pc \in AfterSource => job.sha = head
    /\ pc \in AfterLicenses => job.stage.project = job.sha
SandboxerKept ==
    /\ pc \in AfterVersion => job.sandboxer = job.version
    /\ "checkout" \notin moved =>
        /\ pc \in AfterSandboxer => job.sandboxer = checkout
        /\ pc \in AfterSandboxerL => job.stage.sandboxer = job.version

\* The archive is what was staged; validation has passed what it is to pass,
\* and the init in it is the prepared one.
Validated == /\ archive.bundle.flat = archive.flat
             /\ FromSource(archive.flat)
             /\ \A b \in Payloads : Covered(b)
ArchiveKept ==
    /\ pc \in AfterTar => archive = job.stage
    /\ pc \in AfterValidate => Validated
    /\ Releasing /\ pc = "cmpEnvd" /\ "init" \notin moved
            => archive.bundle.init = InitOf(job.version)

PackageInv == /\ TypeOK /\ Quiet /\ FlatStaged /\ InitKept /\ HeadKept /\ SandboxerKept
              /\ ArchiveKept
              /\ OneFlattenCtl /\ NoticesCoverPayloads /\ SelectedOnly

(***************************************************************************)
(* Binaries and the values built of them                                   *)
(***************************************************************************)
\* The notices of any binary the commands can meet are notices.
LEMMA NoticesTyped ==
    ASSUME NEW b \in Built0
    PROVE  NoticesOf(b) \subseteq Notices
<1>1. b.rev \in Revs
  BY DEF Built0, Revs
<1>2. Deps[b.rev] \subseteq Modules
  BY <1>1 DEF Modules
<1>3. b.tc \in Toolchains
  <2>1. CASE b \in Inits
    BY <2>1, SelectionAssumption DEF Inits, InitOf, DevInit, Binary, Toolchains
  <2>2. CASE b \in Envds
    BY <2>2, SelectionAssumption DEF Envds, NewEnvd, Binary, Toolchains
  <2>3. CASE b \in Flats
    BY <2>3, SelectionAssumption DEF Flats, Binary, Toolchains
  <2> QED
    BY <2>1, <2>2, <2>3 DEF Built0
<1> QED
  BY <1>2, <1>3 DEF NoticesOf, Notices

\* What is there is not NoFile.
LEMMA BinariesExist ==
    /\ \A b \in Built0 : b # NoFile
    /\ DevInit \in Inits /\ NewEnvd \in Envds
    /\ \A r \in Releases : InitOf(r) \in Inits /\ Toolchain[r] \in Toolchains
    /\ \A c \in Commits, k \in BOOLEAN : Binary("flatten-ctl", c, k, GoVersion) \in Flats
<1>1. \A b \in Built0 : b.unit # "none"
  BY SelectionAssumption
  DEF Built0, Inits, Envds, Flats, InitOf, DevInit, NewEnvd, Binary
<1>2. NoFile.unit = "none"
  BY DEF NoFile
<1> QED
  BY <1>1, <1>2 DEF Inits, Envds, Flats, Toolchains

\* An empty package, and the three that are packed, cleared and assembled.
LEMMA ValuesTyped ==
    /\ NoBundle \in Contents /\ Staged0 \in Archives
    /\ [Staged0 EXCEPT !.kind = "partial"] \in Archives
    /\ \A g \in Goals, r \in Releases : Job(g, r) \in Jobs
<1>1. NoBundle \in Contents
  BY DEF NoBundle, Contents
<1>2. Staged0 \in Archives /\ [Staged0 EXCEPT !.kind = "partial"] \in Archives
  BY <1>1 DEF Staged0, Archives
<1> QED
  BY <1>1, <1>2 DEF Job, Jobs

(***************************************************************************)
(* Types                                                                   *)
(***************************************************************************)
\* The fields of the typed variables, as the provers use them.
LEMMA ContentsFields ==
    /\ \A c \in Contents, b \in Inits \cup {NoFile} : [c EXCEPT !.init = b] \in Contents
    /\ \A c \in Contents, b \in Envds \cup {NoFile} : [c EXCEPT !.envd = b] \in Contents
    /\ \A c \in Contents, b \in Flats \cup {NoFile} : [c EXCEPT !.flat = b] \in Contents
    /\ \A c \in Contents : /\ c.init \in Inits \cup {NoFile}
                           /\ c.envd \in Envds \cup {NoFile}
                           /\ c.flat \in Flats \cup {NoFile}
  BY DEF Contents

\* Assigning fields of a job and of its stage.
LEMMA JobFields ==
    /\ \A j \in Jobs : /\ j.goal \in Goals /\ j.version \in Releases /\ j.stage \in Archives
                       /\ j.stage.flat \in Flats \cup {NoFile} /\ j.stage.bundle \in Contents
    /\ \A j \in Jobs, c \in Commits :
           [j EXCEPT !.sha = c] \in Jobs /\ [j EXCEPT !.stage["project"] = c] \in Jobs
    /\ \A j \in Jobs, r \in Releases :
           [j EXCEPT !.sandboxer = r] \in Jobs /\ [j EXCEPT !.stage["sandboxer"] = r] \in Jobs
    /\ \A j \in Jobs, b \in Contents : [j EXCEPT !.stage["bundle"] = b] \in Jobs
    /\ \A j \in Jobs, b \in Flats \cup {NoFile} : [j EXCEPT !.stage["flat"] = b] \in Jobs
    /\ \A j \in Jobs, n \in SUBSET Notices : [j EXCEPT !.stage.notices = n] \in Jobs
    /\ \A j \in Jobs, n \in SUBSET Notices : j.stage.notices \cup n \in SUBSET Notices
  BY DEF Jobs, Archives

\* The initial states have the types.
LEMMA InitTyped == Init => TypeOK
<1> SUFFICES ASSUME Init PROVE TypeOK
  OBVIOUS
<1>1. job \in Jobs
  BY ValuesTyped DEF Init, Goals
<1>2. mishaps \in 0..MaxMishaps /\ moved = {}
  BY SelectionAssumption DEF Init
<1>3. /\ files \in Contents /\ staging \in Contents
      /\ erofs \in Contents /\ bundle \in Contents
  BY ValuesTyped DEF Init
<1> QED
  BY <1>1, <1>2, <1>3 DEF Init, TypeOK, Jobs

\* A step of the program keeps the types.
LEMMA PrepareTyped == TypeOK /\ Prepare => TypeOK'
<1> SUFFICES ASSUME TypeOK, Prepare PROVE TypeOK'
  OBVIOUS
<1> USE DEF TypeOK, At, Go, End, Require, Steps, sources, inputs, images
<1>1. CASE Select
  BY <1>1 DEF Select
<1>2. CASE Fetch
  BY <1>2 DEF Fetch
<1>3. CASE ClearNotices
  BY <1>3 DEF ClearNotices
<1>4. CASE PutNotices
  BY <1>4, JobFields, BinariesExist DEF PutNotices, Jobs
<1>5. CASE PutInit
  BY <1>5, JobFields, BinariesExist, ContentsFields DEF PutInit, Jobs
<1> QED
  BY <1>1, <1>2, <1>3, <1>4, <1>5 DEF Prepare

\* Types are kept by the assembly of the bundle.
LEMMA AssembleTyped == TypeOK /\ Assemble => TypeOK'
<1> SUFFICES ASSUME TypeOK, Assemble PROVE TypeOK'
  OBVIOUS
<1> USE DEF TypeOK, At, Go, End, Require, Steps, sources, inputs, images
<1>0. Built \in Flats /\ SandboxInit \in Inits \cup {NoFile}
  BY BinariesExist, ContentsFields DEF Built, SandboxInit
<1>1. CASE Flatten
  BY <1>0, <1>1, ContentsFields DEF Flatten
<1>2. CASE Prerequisites
  <2>1. files' \in Contents
    <3> DEFINE e == IF files.envd = NoFile THEN NewEnvd ELSE files.envd
               f == IF files.flat = NoFile THEN Built ELSE files.flat
    <3>1. e \in Envds \cup {NoFile} /\ f \in Flats \cup {NoFile}
      BY <1>0, BinariesExist, ContentsFields
    <3>2. files' = [[files EXCEPT !.envd = e] EXCEPT !.flat = f]
      BY <1>2 DEF Prerequisites, Contents
    <3> QED
      BY <3>1, <3>2, ContentsFields
  <2> QED
    BY <1>2, <2>1 DEF Prerequisites
<1>3. CASE Clean
  BY <1>3, ValuesTyped DEF Clean
<1>4. CASE RemoveBundle
  BY <1>4, ValuesTyped DEF RemoveBundle
<1>5. CASE Mkfs
  BY <1>5 DEF Mkfs
<1>6. CASE Bundle
  BY <1>6 DEF Bundle
<1>7. CASE RemoveOutput
  BY <1>7 DEF RemoveOutput
<1>8. CASE CopyPayload("init", SandboxInit, "envd")
  BY <1>0, <1>8, ContentsFields DEF CopyPayload
<1>9. CASE CopyPayload("envd", files.envd, "flat")
  BY <1>9, ContentsFields DEF CopyPayload
<1>10. CASE CopyPayload("flat", files.flat, "rmBundle")
  BY <1>10, ContentsFields DEF CopyPayload
<1> QED
  BY <1>1, <1>2, <1>3, <1>4, <1>5, <1>6, <1>7, <1>8, <1>9, <1>10 DEF Assemble

\* ... by release.sh package.
LEMMA PackageTyped == TypeOK /\ FlatStaged /\ Package => TypeOK'
<1> SUFFICES ASSUME TypeOK, FlatStaged, Package PROVE TypeOK'
  OBVIOUS
<1> USE DEF TypeOK, At, Go, End, Require, Steps, sources, inputs, images
<1>0. /\ job \in Jobs
      /\ files.init \in Inits \cup {NoFile} /\ files.envd \in Envds \cup {NoFile}
      /\ files.flat \in Flats \cup {NoFile}
      /\ \A b \in Built0 : NoticesOf(b) \in SUBSET Notices
  BY NoticesTyped, ContentsFields DEF Jobs
<1>1. CASE ResolveSource
  BY <1>0, <1>1, JobFields DEF ResolveSource, Jobs
<1>2. CASE ProjectLicenses
  BY <1>0, <1>2, JobFields DEF ProjectLicenses, Stage, Jobs
<1>3. CASE ResolveSandboxer
  BY <1>0, <1>3, JobFields DEF ResolveSandboxer, Jobs
<1>4. CASE StageBundle
  BY <1>0, <1>4, JobFields DEF StageBundle, Stage, Jobs
<1>5. CASE StageFlat
  BY <1>0, <1>5, JobFields DEF StageFlat, Stage, Jobs
<1>6. CASE SandboxerVersion
  BY <1>6 DEF SandboxerVersion
<1>7. CASE SandboxerLicenses
  BY <1>0, <1>7, JobFields DEF SandboxerLicenses, Stage, Jobs
<1>8. CASE InitNotices
  <2>1. job.stage.flat \in Flats
    BY <1>8 DEF InitNotices, FlatStaged, AfterStageFlat, AfterVersion, AfterSandboxerL
  <2>2. files.init # NoFile => job' \in Jobs
    <3> SUFFICES ASSUME files.init # NoFile PROVE job' \in Jobs
      OBVIOUS
    <3>1. NoticesOf(job.stage.flat) \cup NoticesOf(files.init) \in SUBSET Notices
      BY <1>0, <2>1 DEF Built0
    <3> QED
      BY <1>0, <1>8, <3>1, JobFields DEF InitNotices
  <2> QED
    BY <1>8, <2>2 DEF InitNotices, Jobs
<1>9. CASE EnvdNotices
  <2>1. files.envd # NoFile => job' \in Jobs
    <3> SUFFICES ASSUME files.envd # NoFile PROVE job' \in Jobs
      OBVIOUS
    <3>1. job.stage.notices \cup NoticesOf(files.envd) \in SUBSET Notices
      BY <1>0, JobFields DEF Built0
    <3> QED
      BY <1>0, <1>9, <3>1, JobFields DEF EnvdNotices, AddNotices
  <2> QED
    BY <1>9, <2>1 DEF EnvdNotices, Jobs
<1>10. CASE Finish
  BY <1>10 DEF Finish
<1>11. CASE Tar
  BY <1>0, <1>11, JobFields DEF Tar
<1>12. CASE Validate
  BY <1>12 DEF Validate
<1>13. CASE CompareInit
  BY <1>13 DEF CompareInit
<1>14. CASE CompareEnvd
  BY <1>14 DEF CompareEnvd
<1> QED
  BY <1>1, <1>2, <1>3, <1>4, <1>5, <1>6, <1>7, <1>8, <1>9, <1>10, <1>11, <1>12, <1>13, <1>14
  DEF Package

\* So do failures, the steps of others and the next command.
LEMMA FailsTyped == TypeOK /\ Fails => TypeOK'
  BY ValuesTyped, SelectionAssumption
  DEF TypeOK, Fails, Mishap, End, sources, inputs, images

\* ... by what others do in the build tree.
LEMMA OthersTyped == TypeOK /\ Others => TypeOK'
<1> SUFFICES ASSUME TypeOK, Others PROVE TypeOK'
  OBVIOUS
<1> USE DEF TypeOK, Others, Mishap, Note, sources, inputs, images
<1>1. mishaps' \in 0..MaxMishaps
  BY SelectionAssumption
<1>2. CASE UsesCheckouts
  BY <1>1, <1>2 DEF UsesCheckouts
<1>3. CASE ReplacesInput
  BY <1>1, <1>3, ContentsFields DEF ReplacesInput
<1>4. CASE ReplacesImage
  BY <1>1, <1>4, ContentsFields, ValuesTyped DEF ReplacesImage
<1> QED
  BY <1>2, <1>3, <1>4

\* ... by a new make command.
LEMMA MakeTyped ==
    ASSUME TypeOK, NEW g \in Goals, NEW r \in Releases, Make(g, r)
    PROVE  TypeOK'
<1>1. job' \in Jobs
  BY ValuesTyped DEF Make
<1>2. pc' \in Steps
  BY DEF Make, Entry, Goals, Steps
<1> QED
  BY <1>1, <1>2 DEF TypeOK, Make, Jobs, sources, inputs, images

-----------------------------------------------------------------------------
(***************************************************************************)
(* The contents of a released archive                                      *)
(***************************************************************************)
\* Staging one thing leaves the rest of the job and of the stage alone.
LEMMA StageFields ==
    ASSUME NEW j \in Jobs, NEW f \in {"bundle", "flat", "project", "sandboxer", "notices"}, NEW v
    PROVE  LET k == [j EXCEPT !.stage[f] = v]
           IN  /\ k.goal = j.goal /\ k.version = j.version /\ k.sha = j.sha
               /\ k.sandboxer = j.sandboxer /\ k.stage[f] = v
               /\ \A g \in {"bundle", "flat", "project", "sandboxer", "notices"} \ {f} :
                      k.stage[g] = j.stage[g]
  BY DEF Jobs, Archives

\* PackageInv is kept by the preparation of sandbox-init.
LEMMA PrepareKeeps == PackageInv /\ Prepare => PackageInv'
<1> SUFFICES ASSUME PackageInv, Prepare PROVE PackageInv'
  OBVIOUS
<1>1. TypeOK'
  BY PrepareTyped DEF PackageInv
<1> USE DEF At, Go, End, Require, sources, inputs, images
<1>2. /\ pc' \in {"fetch", "clearNotices", "putNotices", "putInit", "flatten", "idle"}
      /\ result' \in {"none", "failed"} /\ (pc' # "idle" => result' = "none")
      /\ job' = job
  BY DEF Prepare, Select, Fetch, ClearNotices, PutNotices, PutInit, PackageInv, Quiet
<1>3. InitKept'
  <2>1. CASE PutInit
    BY <2>1 DEF PutInit, InitKept, PackageInv, TypeOK, Contents
  <2>2. CASE ~PutInit
    BY <1>2, <2>2 DEF Prepare, Select, Fetch, ClearNotices, PutNotices, InitKept, AfterInit,
                AfterSource, AfterLicenses, AfterSandboxer, AfterStageFlat, AfterVersion,
                AfterSandboxerL, AfterTar, AfterValidate
  <2> QED
    BY <2>1, <2>2
<1>4. /\ Quiet' /\ FlatStaged' /\ HeadKept' /\ SandboxerKept' /\ ArchiveKept'
      /\ OneFlattenCtl' /\ NoticesCoverPayloads' /\ SelectedOnly'
  BY <1>2 DEF Quiet, FlatStaged, HeadKept, SandboxerKept, ArchiveKept, OneFlattenCtl,
              NoticesCoverPayloads, SelectedOnly,
              AfterSource, AfterLicenses, AfterSandboxer, AfterStageFlat, AfterVersion,
              AfterSandboxerL, AfterTar, AfterValidate
<1> QED
  BY <1>1, <1>3, <1>4 DEF PackageInv

\* ... by the assembly of the bundle.
LEMMA AssembleKeeps == PackageInv /\ Assemble => PackageInv'
<1> SUFFICES ASSUME PackageInv, Assemble PROVE PackageInv'
  OBVIOUS
<1>1. TypeOK'
  BY AssembleTyped DEF PackageInv
<1> USE DEF At, Go, End, Require, sources, inputs, images
<1>2. /\ pc' \in {"prerequisites", "clean", "init", "envd", "flat", "rmBundle", "mkfs",
                  "bundle", "rmOutput", "source", "idle"}
      /\ result' \in {"none", "failed", "built"} /\ (pc' # "idle" => result' = "none")
      /\ pc \in AfterInit /\ job' = job /\ moved' = moved /\ files'.init = files.init
  BY DEF Assemble, Flatten, Prerequisites, Clean, CopyPayload, RemoveBundle, Mkfs, Bundle,
         RemoveOutput, PackageInv, Quiet, AfterInit, TypeOK, Contents
<1>3. InitKept'
  BY <1>2 DEF InitKept, PackageInv, Releasing, AfterInit
<1>4. /\ Quiet' /\ FlatStaged' /\ HeadKept' /\ SandboxerKept' /\ ArchiveKept'
      /\ OneFlattenCtl' /\ NoticesCoverPayloads' /\ SelectedOnly'
  BY <1>2 DEF Quiet, FlatStaged, HeadKept, SandboxerKept, ArchiveKept, OneFlattenCtl,
              NoticesCoverPayloads, SelectedOnly,
              AfterSource, AfterLicenses, AfterSandboxer, AfterStageFlat, AfterVersion,
              AfterSandboxerL, AfterTar, AfterValidate
<1> QED
  BY <1>1, <1>3, <1>4 DEF PackageInv

\* ... by release.sh package, which compares what it packed.
LEMMA PackageKeeps == PackageInv /\ Package => PackageInv'
<1> SUFFICES ASSUME PackageInv, Package PROVE PackageInv'
  OBVIOUS
<1>1. TypeOK'
  BY PackageTyped DEF PackageInv
<1>2. job \in Jobs
  BY DEF PackageInv, TypeOK, Jobs
<1>3. /\ pc \in AfterInit /\ pc' # pc
      /\ files' = files /\ moved' = moved /\ head' = head /\ checkout' = checkout
      /\ job'.goal = job.goal /\ job'.version = job.version
      /\ pc' \in AfterSource \cup {"idle"} /\ result' \in {"none", "failed", "released"}
      /\ (pc' # "idle" => result' = "none")
  <2> USE <1>2 DEF At, Go, End, Require, sources, inputs, images, AfterInit, AfterSource,
                   AfterLicenses, AfterSandboxer, AfterStageFlat, AfterVersion,
                   AfterSandboxerL, AfterTar, AfterValidate, Jobs, PackageInv, Quiet
  <2>1. CASE ResolveSource
    BY <2>1 DEF ResolveSource
  <2>2. CASE ProjectLicenses \/ StageBundle \/ StageFlat \/ SandboxerLicenses
    BY <2>2, StageFields DEF ProjectLicenses, StageBundle, StageFlat, SandboxerLicenses, Stage
  <2>3. CASE ResolveSandboxer
    BY <2>3 DEF ResolveSandboxer
  <2>4. CASE InitNotices
    BY <2>4 DEF InitNotices
  <2>5. CASE EnvdNotices
    BY <2>5 DEF EnvdNotices, AddNotices
  <2>6. CASE SandboxerVersion \/ Finish \/ Tar \/ Validate \/ CompareInit \/ CompareEnvd
    BY <2>6 DEF SandboxerVersion, Finish, Tar, Validate, CompareInit, CompareEnvd
  <2> QED
    BY <2>1, <2>2, <2>3, <2>4, <2>5, <2>6 DEF Package
<1>4. Quiet' /\ InitKept'
  BY <1>3 DEF Quiet, InitKept, Releasing, PackageInv, AfterInit
<1>5. FlatStaged'
  <2> USE <1>2 DEF FlatStaged, At, Go, End, Require, AfterStageFlat, AfterVersion,
                   AfterSandboxerL, AfterTar, AfterValidate, PackageInv, Jobs
  <2>1. CASE StageFlat
    <3>1. files.flat \in Flats \/ files.flat = NoFile
      BY ContentsFields DEF TypeOK
    <3> QED
      BY <2>1, <3>1 DEF StageFlat, Stage, FromSource, Archives
  <2>2. CASE ResolveSource \/ ProjectLicenses \/ ResolveSandboxer \/ StageBundle
    BY <2>2 DEF ResolveSource, ProjectLicenses, ResolveSandboxer, StageBundle
  <2>3. CASE SandboxerLicenses
    BY <2>3, StageFields DEF SandboxerLicenses, Stage
  <2>4. CASE InitNotices \/ EnvdNotices
    BY <2>4 DEF InitNotices, EnvdNotices, AddNotices, Archives
  <2>5. CASE SandboxerVersion \/ Finish \/ Tar \/ Validate \/ CompareInit \/ CompareEnvd
    BY <2>5 DEF SandboxerVersion, Finish, Tar, Validate, CompareInit, CompareEnvd
  <2> QED
    BY <2>1, <2>2, <2>3, <2>4, <2>5 DEF Package
<1>6. HeadKept' /\ SandboxerKept'
  <2> USE <1>2 DEF HeadKept, SandboxerKept, At, Go, End, Require, AfterSource, AfterLicenses,
                   AfterSandboxer, AfterStageFlat, AfterVersion, AfterSandboxerL, AfterTar,
                   AfterValidate, PackageInv, Jobs, sources
  <2>1. CASE ResolveSource
    BY <2>1 DEF ResolveSource
  <2>2. CASE ProjectLicenses
    BY <2>2, StageFields DEF ProjectLicenses, Stage
  <2>3. CASE ResolveSandboxer
    BY <2>3 DEF ResolveSandboxer
  <2>4. CASE StageBundle
    BY <2>4, StageFields DEF StageBundle, Stage
  <2>5. CASE StageFlat
    BY <2>5, StageFields DEF StageFlat, Stage
  <2>6. CASE SandboxerLicenses
    BY <2>6, StageFields DEF SandboxerLicenses, Stage
  <2>7. CASE InitNotices \/ EnvdNotices
    BY <2>7 DEF InitNotices, EnvdNotices, AddNotices, Archives
  <2>8. CASE SandboxerVersion \/ Finish \/ Tar \/ Validate \/ CompareInit \/ CompareEnvd
    BY <2>8 DEF SandboxerVersion, Finish, Tar, Validate, CompareInit, CompareEnvd
  <2> QED
    BY <2>1, <2>2, <2>3, <2>4, <2>5, <2>6, <2>7, <2>8 DEF Package
<1>7. ArchiveKept'
  <2> USE DEF ArchiveKept, Validated, At, Go, End, Require, AfterTar, AfterValidate,
              PackageInv, inputs
  <2>1. CASE Tar
    BY <2>1 DEF Tar
  <2>2. CASE Validate
    BY <2>2 DEF Validate, Payloads, Covered, FromSource
  <2>3. CASE CompareInit
    <3>1. Releasing /\ "init" \notin moved => files.init = InitOf(job.version)
      BY <2>3 DEF CompareInit, InitKept, AfterInit, AfterSource, AfterLicenses, AfterSandboxer,
                  AfterStageFlat, AfterVersion, AfterSandboxerL
    <3> QED
      BY <2>3, <3>1 DEF CompareInit, Payloads, Covered, FromSource, Releasing
  <2>4. CASE CompareEnvd
    BY <2>4 DEF CompareEnvd
  <2>5. CASE ~(Tar \/ Validate \/ CompareInit \/ CompareEnvd)
    BY <2>5 DEF Package, ResolveSource, ProjectLicenses, ResolveSandboxer, StageBundle,
                StageFlat, SandboxerVersion, SandboxerLicenses, InitNotices, EnvdNotices, Finish
  <2> QED
    BY <2>1, <2>2, <2>3, <2>4, <2>5
<1>8. OneFlattenCtl' /\ NoticesCoverPayloads' /\ SelectedOnly'
  <2> USE DEF OneFlattenCtl, NoticesCoverPayloads, SelectedOnly
  <2>1. CASE CompareEnvd /\ result' = "released"
    <3>1. /\ pc = "cmpEnvd" /\ Validated /\ archive = job.stage
          /\ archive' = archive /\ job' = job /\ moved' = moved
      BY <2>1 DEF CompareEnvd, At, PackageInv, ArchiveKept, AfterTar, AfterValidate
    <3>2. /\ "head" \notin moved => job.stage.project = job.sha
          /\ "checkout" \notin moved => job.stage.sandboxer = job.version
          /\ Releasing /\ "init" \notin moved => archive.bundle.init = InitOf(job.version)
      BY <3>1 DEF PackageInv, HeadKept, SandboxerKept, ArchiveKept, AfterLicenses, AfterSandboxer,
                  AfterStageFlat, AfterVersion, AfterSandboxerL, AfterTar, AfterValidate
    <3> QED
      BY <3>1, <3>2 DEF Validated, FromSource, Payloads, Covered, Releasing
  <2>2. CASE result' # "released"
    BY <2>2
  <2>3. result' = "released" => CompareEnvd
    BY <1>3 DEF Package, ResolveSource, ProjectLicenses, ResolveSandboxer, StageBundle,
                StageFlat, SandboxerVersion, SandboxerLicenses, InitNotices, EnvdNotices, Finish,
                Tar, Validate, CompareInit, At, Go, End, Require, PackageInv, Quiet
  <2> QED
    BY <2>1, <2>2, <2>3
<1> QED
  BY <1>1, <1>4, <1>5, <1>6, <1>7, <1>8 DEF PackageInv

\* ... by a command that fails.
LEMMA FailsKeeps == PackageInv /\ Fails => PackageInv'
<1> SUFFICES ASSUME PackageInv, Fails PROVE PackageInv'
  OBVIOUS
<1>1. TypeOK'
  BY FailsTyped DEF PackageInv
<1>2. pc' = "idle" /\ result' = "failed"
  BY DEF Fails, End
<1> QED
  BY <1>1, <1>2 DEF PackageInv, Quiet, FlatStaged, InitKept, HeadKept, SandboxerKept, ArchiveKept,
       OneFlattenCtl, NoticesCoverPayloads, SelectedOnly, AfterInit, AfterSource, AfterLicenses,
       AfterSandboxer, AfterStageFlat, AfterVersion, AfterSandboxerL, AfterTar, AfterValidate

\* Others may change a checkout or an input: the history says so.
LEMMA OthersKeep == PackageInv /\ Others => PackageInv'
<1> SUFFICES ASSUME PackageInv, Others PROVE PackageInv'
  OBVIOUS
<1>1. TypeOK'
  BY OthersTyped DEF PackageInv
<1>2. /\ UNCHANGED <<archive, pc, job, result>> /\ moved \subseteq moved'
      /\ "head" \in moved' \/ head' = head
      /\ "checkout" \in moved' \/ checkout' = checkout
      /\ "init" \in moved' \/ files'.init = files.init
  <2> USE DEF Others, Note, sources, inputs, images
  <2>1. CASE UsesCheckouts
    BY <2>1 DEF UsesCheckouts
  <2>2. CASE ReplacesInput
    BY <2>2 DEF ReplacesInput, PackageInv, TypeOK, Contents
  <2>3. CASE ReplacesImage
    BY <2>3 DEF ReplacesImage
  <2> QED
    BY <2>1, <2>2, <2>3
<1>3. Quiet' /\ FlatStaged' /\ InitKept' /\ HeadKept' /\ SandboxerKept'
  BY <1>2 DEF PackageInv, Quiet, FlatStaged, InitKept, HeadKept, SandboxerKept, Releasing
<1>4. ArchiveKept' /\ OneFlattenCtl' /\ NoticesCoverPayloads' /\ SelectedOnly'
  BY <1>2 DEF PackageInv, ArchiveKept, Validated, Releasing, FromSource, Payloads, Covered,
              OneFlattenCtl, NoticesCoverPayloads, SelectedOnly
<1> QED
  BY <1>1, <1>3, <1>4 DEF PackageInv

\* ... by a new make command, which has looked at nothing yet.
LEMMA MakeKeeps ==
    ASSUME PackageInv, NEW g \in Goals, NEW r \in Releases, Make(g, r)
    PROVE  PackageInv'
<1>1. TypeOK'
  BY MakeTyped DEF PackageInv
<1>2. pc' \in {"select", "prerequisites", "source"} /\ result' = "none"
      /\ (pc' = "select" <=> g = "release-runtime") /\ job'.goal = g
  BY DEF Make, Entry, Goals, Job
<1> QED
  BY <1>1, <1>2 DEF PackageInv, Quiet, FlatStaged, InitKept, HeadKept, SandboxerKept, ArchiveKept,
       OneFlattenCtl, NoticesCoverPayloads, SelectedOnly, Releasing, AfterInit, AfterSource,
       AfterLicenses, AfterSandboxer, AfterStageFlat, AfterVersion, AfterSandboxerL, AfterTar,
       AfterValidate

\* PackageInv holds in every reachable state.
LEMMA PackageInductive == Spec => []PackageInv
<1>1. Init => PackageInv
  <2> SUFFICES ASSUME Init PROVE PackageInv
    OBVIOUS
  <2>1. TypeOK /\ pc = "idle" /\ result = "none"
    BY InitTyped DEF Init
  <2> QED
    BY <2>1 DEF PackageInv, Quiet, FlatStaged, InitKept, HeadKept, SandboxerKept, ArchiveKept,
       OneFlattenCtl, NoticesCoverPayloads, SelectedOnly, AfterInit, AfterSource, AfterLicenses,
       AfterSandboxer, AfterStageFlat, AfterVersion, AfterSandboxerL, AfterTar, AfterValidate
<1>2. PackageInv /\ [Next]_vars => PackageInv'
  <2> SUFFICES ASSUME PackageInv, [Next]_vars PROVE PackageInv'
    OBVIOUS
  <2>1. CASE Step
    BY <2>1, PrepareKeeps, AssembleKeeps, PackageKeeps DEF Step
  <2>2. CASE Fails
    BY <2>2, FailsKeeps
  <2>3. CASE Others
    BY <2>3, OthersKeep
  <2>4. CASE \E g \in Goals, r \in Releases : Make(g, r)
    BY <2>4, MakeKeeps
  <2>5. CASE UNCHANGED vars
    <3>1. /\ UNCHANGED <<head, dirty, checkout, files, notices, staging, erofs, bundle, archive,
                         pc, job, result, moved, mishaps>>
      BY <2>5 DEF vars, sources, inputs, images
    <3> QED
      BY <3>1 DEF PackageInv, TypeOK, Quiet, FlatStaged, InitKept, HeadKept, SandboxerKept,
         ArchiveKept, Validated, OneFlattenCtl, NoticesCoverPayloads, SelectedOnly, Releasing,
         FromSource, Payloads, Covered
  <2> QED
    BY <2>1, <2>2, <2>3, <2>4, <2>5 DEF Next
<1> QED
  BY <1>1, <1>2, PTL DEF Spec

\* TypeOK holds whatever the commands, the failures and the others are.
THEOREM TypeCorrect == Spec => []TypeOK
  BY PackageInductive, PTL DEF PackageInv

\* A released package has one flatten-ctl, outside and in the bundle, of the
\* clean commit the run began with: StageFlat checks the revision, validate
\* compares the two, and nothing writes the archive in between.
THEOREM FlattenCorrect == Spec => []OneFlattenCtl
  BY PackageInductive, PTL DEF PackageInv

\* It has the notices of all it ships, since validate takes the inventory of
\* the payloads again.
THEOREM NoticesCorrect == Spec => []NoticesCoverPayloads
  BY PackageInductive, PTL DEF PackageInv

\* It has the selected sandbox-init and licenses, unless others changed the
\* prepared file or moved a checkout.
THEOREM SelectionCorrect == Spec => []SelectedOnly
  BY PackageInductive, PTL DEF PackageInv
=============================================================================
