# Verification of guest-runtime

TLA+ models of the parts of this repository whose correctness depends on the
order in which processes, tools, people and failures act on shared state; TLC
runs that check them on small instances; and TLAPS proofs that hold for every
instance. Every definition of a model names, in `PROJECT.json`, the lines of the
code it stands for.

- [1. The system](#1-the-system) — components, state, interaction, what is hard
- [2. Modules](#2-modules) — what models what, and how
- [3. Runs](#3-runs) — what is checked, within which bounds
- [4. Fairness and assumptions](#4-fairness-and-assumptions)
- [5. Proofs](#5-proofs)
- [6. Findings and known limits](#6-findings-and-known-limits)
- [7. Not modelled, and what comes next](#7-not-modelled-and-what-comes-next)

## 1. The system

The repository builds and publishes two independently versioned units: the guest
kernel `vmlinux`, and the guest runtime (`sandbox-runtime.bundle` with
sandbox-init, envd and flatten-ctl, and flatten-ctl itself). There is no daemon.
What runs concurrently are command-line tools, builds and workflow runs, and they
meet in directories, in git trees and on GitHub.

| Component | Code | State it keeps | Operations | Correct when |
| --- | --- | --- | --- | --- |
| flatten-ctl export | `cmd/flatten-ctl/{pending_linux,export,main}.go` | a private staging directory beside `--output`, the destination name, the open file, the report | reserve, inherit group and ACL, write, verify, commit by one `renameat`, upload, print key, clean up | the name shows a complete file at all times; the exit status and the key tell the truth; nothing of others is removed |
| Component release publisher | `scripts/release-publisher.py`, `publish-release.sh` | a tag, a draft or public Release, its assets, the Latest mark, all on GitHub; the bundle directories they come from | assemble, validate, publish, check, update Latest, each a series of calls | what becomes public is one commit's validated bundle; a rerun finishes what was cut off; Latest never goes back |
| Preview deletion | `scripts/delete-preview.py` | the same tag and Release | recover an incomplete preview, collect an old one | no complete preview is recovered away, no tag is deleted from under a Release |
| Release workflows | `.github/workflows/release-*.yml`, `delete-preview.yml` | concurrency groups | preflight, queue, rerun | one run per version, one publish job per repository |
| Preview line validation | `scripts/validate-preview-line.sh` | none at first (two branches, a manifest, the Stables), then an evidence file and its digest | validate; revalidate twice while publishing | the manifest that admits a Preview is that of the commit that was asked for |
| Tarball cache, source extraction | `native-deps/deps/common.sh`, `build-envd.sh`, `build-versitygw.sh` | `build/tarball`, `build/src/*` with a marker, binaries | resolve (download or copy, verify), extract, compile | a cache entry and a marked tree are whole, whatever was interrupted |
| Kernel source and patches | `native-deps/deps/build-vmlinux.sh` | the git tree, the tracked `*.patch` files, the image | fetch, apply, format, build | no commit is lost; what is built is the tracked series |
| sandbox-init preparation | `scripts/prepare-sandbox-init.py` | `release-inputs/` in the build tree | download, verify, install notices and binary | binary and notices fit each other by the time they are packaged |
| Runtime bundle builder | `Makefile` (`sandbox-runtime`), `internal/runtimebundle`, `cmd/runtime-bundle`, `scripts/release-runtime-payloads.py`, `ci-check-runtime-abi.py` | staging tree, EROFS image, bundle | stage, mkfs, pack; verify, extract, check the ABI | the bundle holds the selected payloads; what gets its name verifies; what is accepted of it is whole |
| Release archive builder | `scripts/release.sh`, `release-materials.sh` | private stage, output archive | package, validate, compare | what is released is consistent, has its notices, and is of the commits it names |
| End-to-end test harness | `test/e2e/lib/process.py`, `common.sh` | the process tree of one command | spawn, time out, stop, signal, reap | no process outlives a run; every stop ends it |
| Static crypto catalog | `scripts/static-crypto-catalog.py` | catalogs of sources, notices and archives, named by the digest of their list; one installed, others beside a release | validate, find the installed one, collect, validate a release | only whole catalogs of builds of the pinned sources are reported or accepted |
| Guest inspection | `scripts/guest-inspect.py` | the output file and its `.tmp`; reads a log and `/proc/<pid>/mem` of a running guest | parse the log, sample, flush, watch | announced samples are on disk; a sample is what the counters were |
| flatten-ctl read-only commands | `cmd/flatten-ctl/*_cmd.go`, ... | none | info, tar, config, mountpoint | — |
| Utilities | `internal/util` | none | parse a size, find a binary | — |

Interaction. An export shares its destination directory with other exports and
with anybody who may write there. Publisher and collector share tags and Releases
of one version and are kept apart by the `version` concurrency group only, while
people edit drafts in the web interface. The builds of all architectures share
`build/tarball` and `build/src`. `make release-runtime` runs
`prepare-sandbox-init.py`, the bundle recipe and `release.sh package` one after the
other in one build tree that other make commands use too. The test shell starts
`process.py`, signals it, and may die before it. The inspector reads a log that
sandbox-ctl appends to, and the memory of a guest that runs on.

What is hard, and seldom reached by a test: two actors between two system calls or
two GitHub calls of each other; what was read before a long step and is used after
it; a kill between two commands of a script, followed by a rerun; a write that took
effect although its response was lost; a signal racing the commit; processes that
fork behind the reading of the process tree; a file that changes between its
validation and its use. `PROJECT.json` lists these hazards at
their lines with the properties that watch them.

## 2. Modules

| Module | Models | Composed of / checked against |
| --- | --- | --- |
| `ArtifactExport` | flatten-ctl export, several processes | implements `AtomicOutput` |
| `AtomicOutput` | what an export promises of the destination name | abstract |
| `ReleasePublisher` | publisher, workflows, people, GitHub | |
| `DeletePreview` | the collector, beside all of the publisher | EXTENDS `ReleasePublisher` |
| `ReleaseBundle` | the publisher's local side: assembly, validation, the bytes that are uploaded | |
| `PreviewLine` | admission of a Preview, its revalidation, the platform checkout of the workflow tests | |
| `SourceCache` | tarball cache, source trees, builds of one source | |
| `KernelPatches` | kernel tree, patch files, image, developer | |
| `RuntimePackage` | init preparation, bundle recipe, release packaging | three components in one build tree |
| `SelectedInit` | the download and installation of the selected sandbox-init, several at once | |
| `CryptoCatalog` | catalogs, their collection, what a release claims of them | |
| `RuntimeBundle` | the bundle's bytes: building, verification, payloads, ABI | |
| `Supervisor` | process.py and the process tree it supervises | |
| `GuestInspect` | the inspector, the VM manager and its log, the guest's memory | |
| `MC*` | instances for TLC; `MCReleaseInputs` of five modules together | |
| `ArtifactExport_proofs`, `ReleasePublisher_proofs` (with `DeletePreview`), `ReleaseInputs_proofs` (the five modules of `release_inputs`), `SourceCache_proofs`, `KernelPatches_proofs`, `RuntimePackage_proofs`, `Supervisor_proofs`, `GuestInspect_proofs` | theorems and proofs | |

**ArtifactExport.** A step is one system call that reads or changes a shared
directory, or one test of the context. `stage`, `reserve` and `staging` are the
entries of the parent and of the private directory, `out` the destination, each an
object with owner and kind; `data` counts chunks written; `fileAttr` and `outAttr`
stand for mode, owner and ACL together. `pc` follows `reserveArtifact`,
`inheritFileGroup`, the branches of `writePreparedExport`, `commit` and `Close`.
`StepFails` is the error return of whichever call is next, with the deferred
cleanup it runs. `Cancel` is the first signal, `RestoreSignals` the goroutine of
`main.go` that then restores the default disposition, and `SecondSignal` ends an export
only after that; `Crash` may happen anywhere. `unread` records that the identity of a
reservation could not be read, when it was made or when it was to be removed. `OthersChangeOutput`, `OthersTakeStage`,
`OthersTakeReserve` and `OthersTakeImage` are the rest of the world. The contents
that the accelerator module computes are only a number of chunks.

**AtomicOutput** has one name, shown by somebody's complete file. An export
replaces it at most once, in one step, and ends with a status that says so. The
refinement mapping (`Shown`, `Status`) counts a file as an export's artifact only
when it is that export's own, finished and with its final attributes: were the
code to publish anything else, the mapped step would not exist.

**ReleasePublisher.** `tag` and `release` are GitHub's; a Release is absent, a
draft or public, with notes and assets whose `bytes` are a commit's, `partial` or
foreign. `Respond` gives every write three outcomes: done, done with the response
lost, not done. The actions follow `publish`, `check` and `update_latest` call by
call, rereads included. `Preflight`, `StartPublish` and `Rerun` are the workflow with its
concurrency groups. The variables of a job (`seen`, `todo`, `number`, ...) are the
locals of its Python functions and start again on a rerun. `verified` and
`clock` are history and GitHub's `published_at`. A tag may be annotated and the
annotation nested (`Target` follows it for the script's sixteen steps); people add a second
draft (`twin`), an asset of another name, the prerelease box, or a draft of their own.

**DeletePreview** adds the collector's ten calls to the publisher's system, in both
modes (`incomplete`, `gc`), under the version group both workflows name, and a
collector that was given the wrong unit.

**ReleaseBundle** is the other side of a publication: `request` is what the job is
asked, `bundle` the directories of the two architectures and of the assembly. A file's
bytes are the architecture whose validation they pass and a number that tells one
writing from another. `before`, `view` and `expected` are the digests and private
copies the script keeps of them. Others write to the directories between any two steps,
and a killed job starts again on what is there.

**PreviewLine.** A branch is a position in its history. `Look`, `ReadManifest` and
`HeadAgain` are the three reads; `evidence` and `digest` what the first run leaves to
the two of the publisher, which go through `Revalidate`. Branches advance, Stables come
out, and evidence is exchanged or edited meanwhile.

**SourceCache** follows `resolve_tarball` and `extract_tarball` command by command.
A file is an inode, because a second `curl -o` truncates the file a first one is
writing, and a `mv` carries the open file along. `errexit` is off inside
`"$(resolve_tarball ...)"`, so a failing `cp` falls through to the digest
(`TransferFails`), as in the shell.

**KernelPatches.** `log` are the commits above the base tag, `patches` the tracked
files, both sequences of subject and text; `session` is an open `git am`. The four
stages of the script run under the Makefile's goals; `Dies` is a kill or failing
command between any two of their commands. The developer commits, amends, pulls,
aborts, tags, or follows the advice of the last refusal; `advised` says how far he has
followed it (format, reset, make again).

**RuntimePackage.** A binary is what its build information records: unit, revision,
clean or not, compiler. `files`, `notices`, `staging`, `erofs`, `bundle` and
`archive` are the build tree; `job.stage` is the private `$WORK/stage` of
`release.sh`. Each command is a step; `Fails` is a failing command or a kill, with
the `EXIT` trap of `release.sh`; `Others` use the checkouts and replace inputs and
images between any two steps.

**SelectedInit.** One reading of the Release (`row`), one download by id, the checks of
the archive's members (paths, kinds, owners, modes, machine, notices of the compiler the
binary names), the private directory of notices, its rename, and the binary's. People
replace the asset or take the Release back; downloads are cut; two preparations share
`release-inputs`.

**CryptoCatalog.** A catalog maps paths to contents, a content is a short sequence of
words, and an id stands for the list of materials it is the digest of (`Made`). `Valid`
is `validate` with its pins; `collect` copies file by file into a directory that another
collection, or a killed one, may have made. `Claim` and `ValidateRelease` are the
packager's rows and `validate_release`.

**RuntimeBundle.** `Build` opens, copies and finishes; the padding follows from the size
at the beginning, the digest from what was copied. A bundle is an image, its padding and
what the marker says of them; `FileSize` and `alignUp` are the code's arithmetic.
Readers go through `verify_bundle`, `fsck`, one `Cat` per payload and the GLIBC check,
with tools that fail or stop early.

**GuestInspect.** `ParseLine` reads the log a line at a time while CH boots, exits and
boots again; every read of guest memory is a step, through the chain virtual address,
guest physical address, memfd offset, address in the CH process (`VirtToChVa`), and is
answered by what the process has mapped there by then (`Mapped`). `LabelLayout` finds the
blocks of `vmstat_text` by their markers. `dump.before` is a ghost: the counters when a
sample began. Addresses are small numbers of the real layout's shape.

**Supervisor.** The process tree is `state` and `parent`. The children files are read
one process at a time (`ReadChildren`) and signals sent one by one (`Signal`), while
processes fork, exit, wait for children, and leave orphans to the subreaper
(`Adopter`). `late` is the deadline in force, `deathsig` and `subreaper` the two
`prctl` settings.

## 3. Runs

Every run finishes within five minutes on two workers, the largest with about 2.3
million distinct states. Deadlock checking is off where everything ends (jobs done,
binaries built, processes exited, bounds used up) and on for `kernel_*` and
`runtime_package`, where make can always be asked again.

| Run | Asks | Instance and bounds |
| --- | --- | --- |
| `export_one` | destination, report, key, cleanup, what others own, cancellation and its end; refinement of `AtomicOutput` | one export, every command line, one chunk, one step of others on any entry |
| `publish_rivals` | what becomes public is one commit's bundle | two runs of one version from two commits, two archives, two faults, two edits by people; tags nested 15 and 16 deep and in a circle |
| `publish_latest` | Latest advances and is current; every publication completes | three Stables of both units, one from a maintenance branch, two faults |
| `preview_delete` | collector and publisher of one preview; every collection ends | both modes and a wrong unit, two archives, an annotated tag, one fault, one edit |
| `source_turns` | cache, marker, trees; a rerun builds | two architectures taking turns, three chunks, four faults (retries, kills, failing commands) |
| `source_download` | *violated:* temporary bytes of a failed download are not promoted | two builds at once, two chunks, one fault |
| `kernel_series` | no commit lost; the tracked series is built; the advice keeps commits | three versions of the repository (0, 1, 2 patches), two subjects, two texts, two commits, four steps of the developer, one fault |
| `kernel_advice` | *violated:* after format, reset and make, as the refusal says, every tracked patch is built | the same in a tree that make fetched, without faults, two steps of the developer (the pull and the reset) |
| `runtime_package` | consistency, notices and selection of what is released; repeating the release completes | two commits, two sandboxer releases of different compilers, a leftover envd and development init, two mishaps |
| `release_inputs` | what is installed, collected, published, passed and unpacked was validated, and is still that | five modules, see below |
| `supervisor` | nobody survives; numbers stay; every stop ends the run | a command and two descendants |
| `guest_inspect` | announced samples are on disk; the report is of the file; a sample is true | two boots, a kernel without NUMA and other data behind its table, one with NUMA whose last event lies beyond `--vmstat-entries`, three regions, two CPUs, two runs of the inspector, two samples, one tick |

`release_inputs` takes five modules that share no state. The workflow goes through them
one after another on files of their own, so a behaviour of the run is a behaviour of
one of them (`part`), and they cost the sum of their states, not the product.

Why these bounds are enough to be interesting, by the case that sets them.

- *Export.* With one chunk there are two lengths, partial and complete, and signals
  before, between and after every call. One step of others replaces an entry at the
  worst moment. Two and more exports of one name are left to the proofs
  (`AtomicCorrect`, `ReportCorrect`, `KeyCorrect`), which hold for any number.
- *Publisher.* Two archives are needed for a Release of mixed commits; two faults
  for a failure during a recovery from a failure; two edits for one before and one
  after a reread. Latest needs two units and two versions of one.
- *SourceCache.* A chunk transferred, one missing and a retry that starts over need
  three chunks; `curl` retries, so several faults are needed to use the retries up.
- *KernelPatches.* A patch added and one withdrawn need versions 0, 1 and 2; an
  interrupted `git am` needs two patches; two texts of one subject tell a rewritten
  commit from the tracked one.
- *RuntimePackage.* Two mishaps are a change and a kill, or two changes of different
  entries. The development init links what the newer release links, so notices do
  not give it away and only the comparison of bytes does.
- *Supervisor.* Three processes give a child, a grandchild, an orphan with its
  sibling alive, and a fork between the reading of two children files.
- *SelectedInit.* Seven archives, each wrong in one respect but two sound ones; two
  preparations meet between the removal and the rename; one edit after the Release was
  read.
- *CryptoCatalog.* Two builds of the pinned sources, so that one replaces the other
  during a copy, and one that lists less than it must; two collections of one id; one
  reinstallation or damaged file.
- *ReleaseBundle.* Five requests, three of them misfits; one write between any two steps
  is a change before, during or after a validation, and an attempt that was killed goes
  on with what it left.
- *PreviewLine.* Two branches and three moves: a branch that advances twice during the
  reads, or advances and has its line closed; a manifest that goes back to an earlier
  aggregate; three runs, so that there is evidence of another run and of another unit.
- *RuntimeBundle.* Six images at and around an alignment boundary (one byte decides
  between two sizes), one cut short, one that is no EROFS, one too new and one dynamic;
  two builders for one name.
- *GuestInspect.* Two boots that map the same memory at each other's addresses, so that a
  stale region reads real memory of the wrong place; both CPUs have their counters behind
  the hole, the second in the last region. The table of the first kernel is followed by
  other data and a null pointer that are read with it; that of the second is cut before
  its last name.

The properties are stated next to the models, each with the behaviour it is about.
`MaxMeddle`, `MaxFaults`, `MaxEdits`, `MaxWork`, `MaxCommits`, `MaxMishaps`, `InitEdits`,
`MaxDamage`, `MaxWrites`, `MaxMoves`, `MaxChanges`, `Runs`, `MaxSamples`, `MaxTicks`,
`Chunks` and the sets of actors are the only bounds, all of them constants. Beside each
definition that a property depends on stands a faulty variant of it, a plausible bug (a
dropped check, a swapped order, a missing reset); with it in place TLC reports the
property violated.

## 4. Fairness and assumptions

| Specification | Fairness | Why the code justifies it |
| --- | --- | --- |
| `ArtifactExport!FairSpec` | a step of the process, or its error return, except where it waits for a peer (`AtPeer`); the goroutine that restores the signals | both goroutines are scheduled. Nothing obliges whoever feeds the input or reads standard output, and nobody has to signal twice: `CancelledExportEnds` says that a cancelled export ends by itself, or stays with its peer where another signal ends it |
| `ReleasePublisher!FairSpec` | weak for a running job, strong for admission and rerun, weak for deleting half an asset | runners run; the groups admit waiting runs in turn; a failed job is rerun and a refused asset deleted, as the error messages ask |
| `DeletePreview!CFairSpec` | the above; weak for a running collector, strong for its dispatch | as above; `EveryCollectionEnds` holds only where nobody edits by hand, and says so |
| `SourceCache!FairSpec` | each command of a build, and its start | commands end; whoever wants the binary runs make again. `RerunBuilds` is about downloads only |
| `RuntimePackage!FairSpec` | each command of the running make; strong for asking for the release that is checked out | the same. `ReleaseCompletes` supposes that the worktree ends up clean and envd of a compiler at hand, both of which the code demands |
| `Supervisor!FairSpec` | the supervisor's steps; the end of a process a fatal signal was sent to; time in the SIGTERM loop | the loop polls, SIGKILL and SIGTERM that is not ignored end a process. Time is *not* assumed to pass in the SIGKILL loop nor for the time limit of the command |
| `KernelPatches`, `GuestInspect`, the five modules of `release_inputs` | none | their properties are safety properties: the scripts stop at the first failure and promise nothing more |

Assumptions about the environment, each of them a guard or a constant of a model.

- *No system call combines a check with a rename.* `OthersTakeImage` does not act
  while `commit` runs (`InCommit`): somebody of the same user who replaces `image`
  inside the private directory just then wins. The destination may change at any
  time.
- *No GitHub call combines a check with a write.* People do not edit a draft between
  the publisher's last look and the publication (`Editable`, `LastLook`), nor a
  preview between the collector's second look and its deletions (`Watched`). At every
  other time they do. Nobody makes more than one draft of a tag by hand.
- *Developers work between two make commands*, not during one (`Works`).
- *One build of a source at a time* in `source_turns` and in its theorems
  (`~Concurrent`); `source_download` shows what happens otherwise.
- *In the build tree of a release* others replace inputs, but do not delete them
  under a running command; release tags neither move nor disappear (so the branch of
  `release_materials_git_version` for a missing tag is not taken: the recipe has found the
  tag before), and the worktree of sandboxer is
  clean where its release is checked out. `release.sh package` is called with the
  variables the recipe gives it.
- *Branches of the platform repository only advance*, and none returns to a commit it has
  left. The main branch of this one keeps the commits of its Stables; a head that does not
  (`release-publisher.py:192-195`) is a failing call.
- *The processes of an end-to-end test may be signalled* by their supervisor.
- *Nobody writes the same bytes twice* in `ReleaseBundle`: a file that is changed and
  changed back between two looks passes for one that was not changed, and is not.
- *One validation of a catalog, and one run of `release.sh validate`, is a step*: a file
  that changes while it is being read is not modelled.
- *The bundle a reader verifies is its own copy*, out of the release archive.
- *The ZIP writer's records* have lengths `LocalSize` and `CentralSize` within the bounds
  `verify_bundle` demands.
- *CH's regions are accepted in order*, and CPUs come up when all are.
- *The guest's memory* (`RegionAssumption`): regions do not overlap, neither in the memfd
  nor in a CH process; guest RAM has the hole where the script has it; each CPU, at most
  512 of them, has an area of its own in the direct map. A slot of `__per_cpu_offset`
  that is not set up holds no kernel pointer, as `discover_nr_cpus` says; what it would
  do with one that does is therefore not checked.
- *The guest's kernel* (`KernelAssumption`): its table of names has no null pointer
  inside, each event has one name, `numa_` names stand in the NUMA block until the events
  begin, the node block begins with `nr_inactive_anon`, and behind the table no event's
  name is repeated. What is promised of an event holds if `--vmstat-entries` reaches its
  name (`Asked`).
- *tar* fails on a truncated archive, and `go build -o` installs its output whole.
- *Process numbers* are not reused in `Supervisor` and `GuestInspect`; `OwnNumbersStay`
  says for which processes the kernel guarantees it.

## 5. Proofs

Every theorem below is proved by TLAPS for all values of the constants that satisfy
the named assumptions. Each proof module has one inductive invariant, one lemma per
group of actions, and the theorems at its end.

| Theorem | States | Assumes |
| --- | --- | --- |
| `ArtifactExport_proofs!TypeCorrect` | `TypeOK` | `OthersAssumption`, `ChunksAssumption`, `RequestsAssumption`, `MeddleAssumption` |
| `ArtifactExport_proofs!PublicationSafe` | `PublicationInv`, for any number of exports | the same |
| `ArtifactExport_proofs!NoPartialOutputCorrect` | the destination never shows a partial, replaced or hidden file of an export | the same |
| `ArtifactExport_proofs!ReportCorrect`, `KeyCorrect` | `ReportMatchesOutcome`, `KeyIsLast`, for any number of exports | the same |
| `ArtifactExport_proofs!AtomicCorrect` | `Atomic`: any number of exports implement `AtomicOutput` | the same |
| `ArtifactExport_proofs!EntriesKnown`, `ResidueCorrect`, `OthersKept` | `EntryInv`; `NoResidue`, `KeepsOthers`, for any number of exports | the same |
| `ArtifactExport_proofs!CancelledCorrect` | `CancelledStaysUnpublished` | the same |
| `ReleasePublisher_proofs!TypeCorrect`, `PublishInvCorrect` | types and `PublishInv`, for any jobs, versions, commits and assets | `JobAssumption`, `PlanAssumption`, `BoundAssumption` |
| `ReleasePublisher_proofs!PublicCorrect`, `DoneCorrect`, `OneCommitCorrect` | `PublicIsVerified`, `DoneIsPublished`, `OneCommitPerRelease` | the same |
| `ReleasePublisher_proofs!LatestCurrent`, `LatestAdvancing` | `LatestIsCurrent`, `LatestAdvances`, where nobody edits by hand | the same |
| `ReleasePublisher_proofs!CollectorsCorrect`, `CompleteKept`, `TagOutlives`, `DoneGone` | `CInv`; `KeepsComplete`, `TagOutlivesRelease`, `DoneIsGone`, for any number of collectors beside any number of jobs | the same, `OrderAssumption` |
| `SourceCache_proofs!SerialType`, `SerialMarker`, `SerialBuilt`, `SerialCache`, `SerialPinned` | types; a marker means a whole tree; binaries are of whole trees; a downloaded entry is whole; a pinned one verified | `~Concurrent`, `BuildsAssumption`, `BoundsAssumption` |
| `KernelPatches_proofs!WorkIsKept`, `TrackedSeriesBuilt`, `AdviceLosesNoCommit` | `WorkKept`, `BuildsTrackedSeries`, `AdviceKeepsCommits`, for any series | `SeriesAssumption`, `BoundsAssumption` |
| `RuntimePackage_proofs!TypeCorrect`, `FlattenCorrect`, `NoticesCorrect`, `SelectionCorrect` | `TypeOK`, `OneFlattenCtl`, `NoticesCoverPayloads`, `SelectedOnly`, for any commits, releases, compilers and dependencies | `SelectionAssumption` |
| `ReleaseInputs_proofs!PreviewLineCorrect` | `PassedIsSelected`, for any branches, manifests and runs | `HistoryAssumption` |
| `ReleaseInputs_proofs!ReleaseBundleCorrect` | `ShownIsValidated`, for any requests and any number of writes | `RequestAssumption` |
| `ReleaseInputs_proofs!SelectedInitCorrect` | `PreparedIsSelected`, for any uploads and any number of preparations | `UploadAssumption` |
| `ReleaseInputs_proofs!CryptoCatalogCorrect` | `CatalogsAreGenuine`, for any pins, builds and number of collections | `CatalogAssumption`, `GenuineAssumption` |
| `ReleaseInputs_proofs!BuiltCorrect` | `BuiltVerifies`, for inputs of any size and any number of builders | `SizeAssumption`, `MarkerAssumption` |
| `ReleaseInputs_proofs!SteadyInputIsBuilt` | an input whose size stays is never refused by the last check of `Build` | the same |
| `ReleaseInputs_proofs!AcceptedCorrect` | `AcceptedIsWhole`, for images of any content and any number of readers | the same, `NeedsAssumption` |
| `GuestInspect_proofs!FilesCorrect`, `HeartbeatCorrect`, `ReportTrue` | `FileInv`; `HeartbeatIsDurable`, `ReportMatchesFile`, for any guest, log and memory | none |
| `GuestInspect_proofs!SamplingCorrect`, `SampleCorrect` | `SampleInv`; `SampleIsTrue`, for any kernel, memory layout, log, interrupts and reruns | `BootAssumption`, `LayoutAssumption`, `RegionAssumption`, `KernelAssumption` |
| `GuestInspect_proofs!LayoutTrue` | `label_layout` finds the kernel's blocks and the one place of each event asked for | `LayoutAssumption`, `KernelAssumption` |
| `GuestInspect_proofs!ReadsOwnCounters`, `DiscoversCpusUp` | the address translations lead to the CPU's own counters; the CPUs counted are those set up | `LayoutAssumption`, `RegionAssumption` |
| `Supervisor_proofs!TypeCorrect`, `NumbersCorrect`, `SurvivorsCorrect` | `TypeOK`, `OwnNumbersStay`, `NothingSurvives`, for any set of processes | `CommandAssumption` |

*Publication.* That the destination shows complete files only is not inductive: at
the rename one must know that `image` in staging is the export's own file, that it
has all its chunks and its final attributes. `PublicationInv` says so for each stage:
what is written is complete from the last chunk on (`WrittenIsComplete`), the commit
is entered for a named destination only (`CommitIsNamed`), between its verification
and the rename `image` is the own file (`CommitIsVerified`), no hidden attributes are
inherited (`NeverHidden`), a published file is never written again
(`PublishedIsFinished`), and only published files are shown (`ShownIsPublished`).

*Report and refinement.* `ReportInv` adds what an exit status rests on: key and result
are printed last (`KeyAndResultLast`), an upload that is behind the export left its
image in the store (`UploadIsComplete`), a key is only due to those who asked for one
(`KeyIsDue`), only a requested destination is published (`PublishedIsAsked`), an export
without an error so far has done what its stage implies (`NoErrorIsSuccess`), and the
status agrees with it (`ResultIsTrue`). The refinement needs no more than that: `Rename`
is the abstract publication, the report of success or failure its end, a crash its
disappearance; what others do to the destination is theirs in both; every other step
leaves the shown file and the status alone and is a stutter.

*Names and others.* `EntryInv` says of each name an export makes what is there. As long
as nobody else has touched them, the staging directory is there exactly between its
creation and its removal, and empties before it goes (`StageKnown`, `ContentsKnown`),
the reservation between its creation and the move out of the parent (`ReserveKnown`),
unless its identity could not be read (`unread`), for which an error is already noted.
Hence what is left at the end of an export whose cleanup calls worked is a staging
directory that it did not come to own, or such a reservation, and both go with an error. The
attributes given to the artifact are those that were seen (`AttrsRestored`), which is
what `KeepsOthers` needs at the rename. `CancelledStaysUnpublished` follows from two
facts: cancellation is never taken back, and the only way to `rename` is through a test
of the context.

*Publisher.* `PublishInv` has four parts. At most one job holds the group of a version
(`OneRun`). Nobody drafts a Release that a job has reported (`NoneDrafts`). Of each
Release (`ReleaseInv`), nothing is verified in a draft, in no draft are the archives of
two commits, and what is verified is consistent. Of each job (`JobInv`), what it has read
bounds what may be there: since `find`, the Release and a draft beside it hold no archive
of another commit; from the last look on, the draft is the one it means and holds all
of its bundle; after the publication, tag and assets are its own. Hand edits are covered
by it: they may put anything into a draft, but not between the last look and the
publication, which is the assumption of section 4.

*Latest.* `LatestInv`: jobs that publish are serial (`Serial`), the mark is on one
Release at most, on a Stable from main that is public (`Marked`), and what a job has read
of the list is still so (`LatestJob`). The two theorems suppose that nobody edits by hand
(`edits = 0`), and so does the run: with two edits TLC finds that somebody publishes a higher
version by hand between the moment a run lists the Releases and the one it sets the mark.

*Collector.* `CInv`: numbers of Releases grow (`Numbered`), so a Release that a collector
read first is told from one made since; and between its second look and its deletions the
version is as it was seen (`CollectInv`), since the group keeps publishers out.

*Admission and release inputs.* `LineInv`: a run knows a position of the branch at which
it saw its commit, and one not before it at which it read the manifest; a head that is at
the commit again has not moved in between, because no branch returns to a commit
(`HistoryAssumption`). `BundleInv`: whatever was validated has a digest or a private copy,
and what is uploaded agrees with it. `PrepareInv` of the preparation says the same of row,
download and installed files, `CatalogInv` of catalogs: one that was compared whole after
its copy stays as it is (`Frozen`), because a collection never writes to a directory that
exists. `ReadInv`: what a reader has established is about its own copy of the bundle.

*Runtime bundle.* `BuildInv`: what has the output's name is an image, a natural number of
padding bytes and a marker that names them, and ends at a boundary. A file of at least
one alignment unit is so much longer than its marker that the prefix holds the magic
(`AlignedVerifies`), for inputs of no bytes too. The padding is natural because rounding
up never goes down (`AlignUpIsAligned`), even where the input has shrunk since.

*Source cache.* `IInv` adds to the types that at most one build runs (`Solo`), and
what each program counter says of tree and cache (`TreeStages`, `FileStages`): a marker
is only written where the move has ended, and `$cache.tmp` only renamed after a whole
transfer, because with one build its inode is not shared.

*Kernel.* `KInv`: an open `git am` has committed a prefix of the patch files
(`AmProgress`), a format has written no more files than there are commits
(`FormatProgress`), and past `ApplyCheck` the subjects agree until the image is copied
(`BuildsSeries`). `AdviceInv` adds what a format writes: the files written so far are the
first commits (`FormatsLog`), and while the developer follows the advice nothing commits
or formats but him (`AdviceFormat`), so that at the reset every commit has its file
(`AdviceFormatted`).

*Packaging.* In `PackageInv`, what was looked at is still there unless others changed
it since (`InitKept`, `HeadKept`, `SandboxerKept`), the archive is what was staged, and
past `Validate` it has passed the comparisons (`ArchiveKept`). Notices are collected
from files of the tree that others may replace after the bundle was packed, so nothing
before `Validate` makes `NoticesCoverPayloads` true; it holds because that step looks at
the payloads taken out of the archive itself.

*Supervisor.* `SInv` says that listed children of the supervisor are its children and
exist. For survivors, `TreeInv` adds that whoever is left has the supervisor or a
running process as parent (`Adopted`) and that no set of processes consists of each
other's children (`Grounded`). Hence, if the supervisor has no child, nobody is left
(`NobodyLeft`): the loop's stopping condition, which looks at direct children only, is
enough. Without adoption, before `PR_SET_CHILD_SUBREAPER`, `Adopted` would fail.

*Inspector.* `FileInv`: of the two counters, samples are one ahead from the sample to its
heartbeat and equal otherwise (`CountsMatch`); the temporary file holds all samples when
it takes the name, and the output holds them at the heartbeat and at the report
(`FilesMatch`); a run that has reported has ended (`ReportLast`).

*Samples.* `SampleIsTrue` compares sums, in a layout found by markers, of memory reached
by four translations; each has its part of the proof.

- *Sums.* `MapThenSumSet` is a recursion on a chosen element. The induction that says
  what it does is stated of sets, not of predicates: a set of numbers that has zero and
  each successor has all of them (`NumberInduction`, from the library's `WFMin`), and a
  family of subsets that has each set whose proper subsets it has contains them all
  (`SubsetInduction`). From these follow that the recursive function exists and is
  unique on finite sets, that any element may be taken out first (`SumRemove`), that a
  CPU more adds its count (`SumAdd`), and that counters that only grow have growing sums
  (`SumGrows`).
- *Names.* `Markers` says where in `vmstat_text` the markers can stand; `NamesPrefix` that
  what was read is the beginning of it, up to the last name within `--vmstat-entries`, or
  runs on behind it. Hence the blocks are the kernel's (`LayoutParts`), and no event is
  found twice (`LayoutTrue`).
- *Addresses.* In `ReadsOwnCounters` each translation has one candidate because regions
  are apart, and the one it finds belongs to the process that is open because `ParseInv`
  says so: after each line of the log, the regions kept are those of the pid kept, since
  the lines of a boot are not mixed with another's (`LogInv`).
- *The sample.* From its first read on, counters and CPUs have only grown (`BeforeInv`);
  the sums so far lie between those of then and of now, over the CPUs read so far, all
  of which were up (`SumsInv`). The last is inductive only with the address theorem: a
  read that fell into other memory would break the upper bound, or the lower.

The type invariants and the inductive invariants (`TypeOK`, `PublicationInv`,
`NoPartialOutput`, ...) are proved and are not repeated as properties of runs. Each
inductive invariant was first checked by TLC on the instance of its run.

Every safety property and every action property of the runs that pass has its theorem.
Model-checked only:

- liveness (`CancelledExportEnds`, `AllPublished`, `EveryCollectionEnds`, `RerunBuilds`,
  `ReleaseCompletes`, `EveryStopEnds`), which needs ENABLED and fairness, beyond this
  prover;
- `LatestIsCurrent` and `LatestAdvances` where people edit by hand, in no run either.

## 6. Findings and known limits

Two runs show the code doing other than its text says.

- `source_download`: *"temporary bytes were not promoted into the cache"*
  (`common.sh:65`). Builds of two architectures share `$cache.tmp`. The second `curl`
  truncates the file the first has just finished, the first build's `mv` gives it the
  cache name, and then the second fails with this message. Without a digest every
  later build takes the entry for a hit.
- `kernel_advice`: *"Likely WIP not yet formatted. Save WIP and reset: make
  linux-patches-format, git reset --hard. Then re-run."* (`build-vmlinux.sh:147-151`; so
  also `native-deps/README.md:77`). The run applies a series of one patch, pulls a second
  one, and makes vmlinux: commits and files differ in number, although nothing is in
  progress, and this is the refusal. Format removes every `*.patch` first, the new one
  with them (`native-deps/README.md:58` says so of the target, neither text says so
  here); after the reset, make builds the older series and reports no error.

Limits met while modelling. No property states their absence, since the code does not
claim it.

- Mode, owner and ACL given to a replacement are those the destination had at the
  reservation; a later change is lost (`KeepsOthers` says only that attributes that stay
  as they were seen are kept).
- A symlink or device put at the destination after the last look is replaced; an empty
  directory put at the staging name after the last comparison is removed.
- A reservation is left in the parent when its `Stat` fails, and also when its name
  cannot be read during cleanup; the error reported is then the earlier one, and says
  nothing of the entry (`NoResidue` names both).
- Two extractions at once may nest one source tree inside the other.
- Half a copy of a *local* tarball without a digest is a cache hit for ever.
- Commits and patches are compared by subject, and uncommitted edits are not looked
  at: a vmlinux may hold edits no patch describes.
- Licenses are checked against HEAD at the moment they are copied; a checkout moved
  during packaging can give those of another commit.
- A leftover envd is packed if its notices can be made.
- A watch interrupted before its first sample writes an empty list; a single sample
  interrupted before it is taken raises and leaves an empty `.tmp`.
- Two inspectors with one `--out` share its `.tmp`.
- A read of guest memory is translated by its first byte: one that crosses the end of a
  region goes on in whatever the process has mapped behind it, or stops there; of a CPU's
  counters the first ones would then be added and the CPU be reported as skipped. The
  model has a CPU's counters within one region.
- The last line of a log that is being written may be read in part, and a process number
  may be another process's by the time its memory is opened.
- A collection that was killed leaves a destination that every later one refuses until
  it is removed.
- A draft that GitHub makes immutable on publication is only a failing call here, and
  `delete-preview.py` reads the immutable mark (lines 115, 119) with no counterpart in the
  model.
- `process.py` catches only that a process has gone: one it may not signal (a set-uid
  descendant) would end its cleanup with the others alive.
- A grandchild whose parent waits for it frees its number before `process.py` signals
  it.

## 7. Not modelled, and what comes next

Not modelled: the read-only commands of flatten-ctl (command lines over the accelerator
module, which is not in this repository); build and aggregation jobs of the workflows;
the vmlinux kind, the batch commands and the listing checks of `release.sh`; Kbuild; the
shell side of the end-to-end harness; `ci-test-workflows.py` beyond its platform
checkout, which compares texts; the repository's own unit tests; formats, messages and
layouts.

Done, in order: the export and its abstract specification; publisher and collector;
source cache; kernel series; packaging; supervisor; their proofs; then admission,
selection, catalogs, bundle directories and the Runtime bundle; the inspector; the
proofs of the export's report and refinement, and of the Runtime bundle; the proofs of
the publisher, of Latest and of the collector, of the five modules of `release_inputs`, of
the advice, of the export's names and cancellation, of the inspector's files, and of its
samples. What is left:

1. `Harness`: `stop_owned` and `cleanup` of `common.sh` above `Supervisor`, in
   particular the supervisor killed after six seconds.
2. The vmlinux kind of `release.sh` in `RuntimePackage`, with the kernel's image and
   checksum.
3. `ParseSize` of `internal/util` on 64-bit integers.
4. What is left of the source cache's promises while several builds of one source run,
   stated, checked and proved; the theorems have them take turns.
