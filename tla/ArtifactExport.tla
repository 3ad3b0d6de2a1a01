--------------------------- MODULE ArtifactExport ---------------------------
(***************************************************************************)
(* flatten-ctl export: the pending artifact of cmd/flatten-ctl/            *)
(* pending_linux.go and the driver writePreparedExport of export.go.       *)
(*                                                                         *)
(* Several export processes write to the same destination name.  Each      *)
(* reserves a private staging directory beside the destination, writes     *)
(* "image" there, and publishes it with one renameat.  Other processes     *)
(* share the destination directory: they may replace the destination, the  *)
(* staging entry or the public reservation between any two system calls.   *)
(* Every system call may fail, the first signal cancels the context, and a *)
(* process may die anywhere.                                               *)
(*                                                                         *)
(* A step is one system call that reads or changes a shared directory, or  *)
(* one test of the context.  File-system objects are identities (device    *)
(* and inode), file contents a number of chunks, permissions one attribute.*)
(***************************************************************************)
EXTENDS Naturals

CONSTANTS Procs,      \* export processes with the same --output
          Others,     \* every other process that can write the directory
          Chunks,     \* the artifact is complete with this many chunks
          Requests,   \* the command lines considered: [dest, upload]
          Meddlers,   \* which entries other processes may touch
          MaxMeddle   \* bound on the steps of other processes

ASSUME OthersAssumption   == Others \notin Procs
ASSUME ChunksAssumption   == Chunks \in Nat \ {0}
\* runExport refuses an empty --output without --upload.
ASSUME RequestsAssumption ==
    Requests \subseteq {r \in [dest : {"named", "stdout", "none"}, upload : BOOLEAN] :
                            r.upload \/ r.dest # "none"}
ASSUME MeddleAssumption   == /\ Meddlers \subseteq {"output", "stage", "reserve", "image"}
                             /\ MaxMeddle \in Nat

(* File-system objects: who created one, and what it is. *)
Kinds  == {"none", "file", "symlink", "emptydir", "fulldir", "stage", "image", "inherited"}
Object == [owner : Procs \cup {Others}, kind : Kinds]

Absent        == [owner |-> Others, kind |-> "none"]
Foreign       == {[owner |-> Others, kind |-> k] : k \in {"file", "symlink", "emptydir", "fulldir"}}
StageDir(p)   == [owner |-> p, kind |-> "stage"]
ImageFile(p)  == [owner |-> p, kind |-> "image"]
Inherited(p)  == [owner |-> p, kind |-> "inherited"]
IsRegular(o)  == o.kind \in {"file", "image", "inherited"}
IsDir(o)      == o.kind \in {"emptydir", "fulldir", "stage"}

(* Owner, group, permission bits and ACL of a file, as one value. *)
Attrs == {"none", "hidden", "default", "open", "strict"}

VARIABLES out,        \* entry at the destination name
          outAttr,    \* its attributes
          stage,      \* entry at each process's staging name in the parent
          reserve,    \* entry at each process's public reservation name
          staging,    \* what each private staging directory contains
          linked,     \* reservations another process made a hard link to
          meddled,    \* processes whose entries others touched
          meddles,    \* steps of other processes so far
          pc,         \* next step of each process
          req,        \* command line of each process
          cancelled,  \* ctx: SIGINT or SIGTERM was received
          restored,   \* the default disposition of both is in force again
          pending,    \* the pendingArtifact structure
          data,       \* chunks in the artifact file
          fileAttr,   \* attributes of the artifact file
          streamed,   \* chunks written to standard output
          outcome     \* what happened so far and what is reported

target    == <<out, outAttr>>
given     == <<linked, meddled, meddles, req, cancelled, restored>>   \* not written by the export
contents  == <<data, fileAttr, streamed>>
control   == <<pc, outcome>>
dataVars  == <<target, stage, reserve, staging, given, pending, contents>>
vars      == <<dataVars, control>>

Terminated(p) == pc[p] \in {"done", "killed"}
Named(p)      == req[p].dest = "named"
Upload(p)     == req[p].upload
HasPending(p) == Named(p) \/ Upload(p)

\* The file whose identity p.fileInfo holds.
OwnFile(p) == IF pending[p].file = "inherited" THEN Inherited(p) ELSE ImageFile(p)

Init ==
    /\ out \in {Absent, [owner |-> Others, kind |-> "file"]}
    /\ outAttr \in IF out = Absent THEN {"none"} ELSE {"open", "strict"}
    /\ stage = [p \in Procs |-> Absent]
    /\ reserve = [p \in Procs |-> Absent]
    /\ staging = [p \in Procs |-> [image |-> Absent, inherited |-> Absent]]
    /\ linked = [p \in Procs |-> FALSE]
    /\ meddled = [p \in Procs |-> FALSE]
    /\ meddles = 0
    /\ pc = [p \in Procs |-> "start"]
    /\ req \in [Procs -> Requests]
    /\ cancelled = [p \in Procs |-> FALSE]
    /\ restored = [p \in Procs |-> FALSE]
    /\ pending = [p \in Procs |-> [created |-> FALSE, dir |-> FALSE, owned |-> FALSE,
                                   inherit |-> FALSE, file |-> "none", attr |-> "none"]]
    /\ data = [p \in Procs |-> 0]
    /\ fileAttr = [p \in Procs |-> "none"]
    /\ streamed = [p \in Procs |-> 0]
    /\ outcome = [p \in Procs |-> [err |-> FALSE, cleanErr |-> FALSE, published |-> FALSE,
                                   ingested |-> FALSE, key |-> FALSE, committed |-> FALSE,
                                   unread |-> FALSE, result |-> "none"]]

-----------------------------------------------------------------------------
At(p, l)   == pc[p] = l
Goto(p, l) == pc' = [pc EXCEPT ![p] = l]
Move(p, from, to) == At(p, from) /\ Goto(p, to) /\ UNCHANGED outcome

\* An error return: deferred cleanup runs next.
Abort(p, l) == /\ Goto(p, l)
               /\ outcome' = [outcome EXCEPT ![p].err = TRUE]

\* The function goes on at next if ok holds, and returns an error otherwise.
Check(p, l, ok, next) ==
    At(p, l) /\ IF ok THEN Goto(p, next) /\ UNCHANGED outcome ELSE Abort(p, "unlinkImage")

\* A step that only decides where to go on.
Test(p, l, ok, next) == Check(p, l, ok, next) /\ UNCHANGED dataVars

RegularOrAbsent(o) == o = Absent \/ IsRegular(o)

(***************************************************************************)
(* reserveArtifact                                                         *)
(***************************************************************************)
\* writePreparedExport: outputPermissions, before anything is created.
Start(p) == Test(p, "start", Named(p) => RegularOrAbsent(out),
                 IF HasPending(p) THEN "reserve" ELSE "prepare")

\* outputPermissions again, the ACL of an existing destination, the parent descriptor.
ReserveParent(p) ==
    LET replacing == Named(p) /\ IsRegular(out)
    IN  /\ Check(p, "reserve", Named(p) => RegularOrAbsent(out),
                 IF replacing THEN "replaceable" ELSE "mkdir")
        /\ pending' = [pending EXCEPT ![p].attr = IF replacing THEN outAttr ELSE "none"]
        /\ UNCHANGED <<target, stage, reserve, staging, given, contents>>

\* checkMountedOutput and checkStickyReplacement deny early what renameat would
\* refuse later; both refusals are failed calls.
CheckReplaceable(p) == Test(p, "replaceable", TRUE, "mkdir")

\* Mkdirat of a fresh random name; ten taken names are a failed call.
MakeStage(p) ==
    /\ Move(p, "mkdir", "statStage")
    /\ stage' = [stage EXCEPT ![p] = StageDir(p)]
    /\ UNCHANGED <<target, reserve, staging, given, pending, contents>>

\* Only a private directory of this user qualifies for cleanup.
StatStage(p) ==
    /\ Check(p, "statStage", stage[p] = StageDir(p), "openStage")
    /\ pending' = [pending EXCEPT ![p].created = stage[p] = StageDir(p)]
    /\ UNCHANGED <<target, stage, reserve, staging, given, contents>>

\* Openat with O_NOFOLLOW, then privacy and identity on the descriptor; the
\* umask may have cost the directory its inherited set-group-ID bit.
OpenStage(p) ==
    /\ Check(p, "openStage", stage[p] = StageDir(p), "createImage")
    /\ \E inherit \in BOOLEAN :
          pending' = [pending EXCEPT ![p].dir = IsDir(stage[p]),
                                     ![p].inherit = inherit /\ stage[p] = StageDir(p)]
    /\ UNCHANGED <<target, stage, reserve, staging, given, contents>>

\* Openat O_CREAT|O_EXCL of "image" in the private directory.
CreateImage(p) ==
    /\ Move(p, "createImage", IF pending[p].inherit THEN "reserveName" ELSE "restore")
    /\ staging[p].image = Absent
    /\ staging' = [staging EXCEPT ![p].image = ImageFile(p)]
    /\ pending' = [pending EXCEPT ![p].owned = TRUE, ![p].file = "image"]
    /\ fileAttr' = [fileAttr EXCEPT ![p] = "default"]
    /\ UNCHANGED <<target, stage, reserve, given, data, streamed>>

(***************************************************************************)
(* inheritFileGroup: a file born in the parent gets the parent's group; it *)
(* is public, with mode 000, until it is moved into the staging directory. *)
(***************************************************************************)
ReserveName(p) ==
    /\ Move(p, "reserveName", "reserveInfo")
    /\ reserve' = [reserve EXCEPT ![p] = Inherited(p)]
    /\ fileAttr' = [fileAttr EXCEPT ![p] = "hidden"]
    /\ UNCHANGED <<target, stage, staging, given, pending, data, streamed>>

\* file.Stat on the new descriptor; the deferred removal starts after it.
ReserveInfo(p) == Test(p, "reserveInfo", TRUE, "moveIn")

\* Renameat moves whatever the public name holds now.
MoveIn(p) ==
    /\ Move(p, "moveIn", "checkMoved")
    /\ reserve[p] # Absent
    /\ staging' = [staging EXCEPT ![p].inherited = reserve[p]]
    /\ reserve' = [reserve EXCEPT ![p] = Absent]
    /\ UNCHANGED <<target, stage, given, pending, contents>>

\* Identity, one link, mode 000; then the template's mode and ACL; closeFile.
CheckMoved(p) ==
    /\ Move(p, "checkMoved", "adopt")
    /\ staging[p].inherited = Inherited(p) /\ ~linked[p]
    /\ fileAttr' = [fileAttr EXCEPT ![p] = "default"]
    /\ UNCHANGED <<target, stage, reserve, staging, given, pending, data, streamed>>

\* Renameat "inherited" over the template; p.file = file.
Adopt(p) ==
    /\ Move(p, "adopt", "restore")
    /\ ~IsDir(staging[p].image)
    /\ staging' = [staging EXCEPT ![p].image = staging[p].inherited, ![p].inherited = Absent]
    /\ pending' = [pending EXCEPT ![p].file = "inherited"]
    /\ UNCHANGED <<target, stage, reserve, given, contents>>

\* Faulty variant: only a file that was moved is removed.
DropForgotten(p) == Test(p, "dropCheck", TRUE, "unlinkImage")

\* Deferred cleanup before the move: compare the public name, then unlink it.
DropCheck(p) == Test(p, "dropCheck", TRUE,
                     IF reserve[p] = Inherited(p) THEN "dropUnlink" ELSE "unlinkImage")

DropUnlink(p) ==
    /\ Move(p, "dropUnlink", "unlinkImage")
    /\ reserve' = [reserve EXCEPT ![p] = IF IsDir(@) THEN @ ELSE Absent]
    /\ UNCHANGED <<target, stage, staging, given, pending, contents>>

\* Deferred cleanup after the move: unlink the entry inside the staging directory.
DropInherited(p) ==
    /\ Move(p, "dropInherited", "unlinkImage")
    /\ staging' = [staging EXCEPT ![p].inherited = IF IsDir(@) THEN @ ELSE Absent]
    /\ UNCHANGED <<target, stage, reserve, given, pending, contents>>

Restore(p, attr) ==
    /\ Move(p, "restore", "prepare")
    /\ fileAttr' = [fileAttr EXCEPT ![p] = attr]
    /\ UNCHANGED <<target, stage, reserve, staging, given, pending, data, streamed>>

\* The attributes of the destination as outputPermissions saw it.
RestoreAttrs(p) == Restore(p, IF pending[p].attr = "none" THEN fileAttr[p] ELSE pending[p].attr)

(***************************************************************************)
(* writePreparedExport                                                     *)
(***************************************************************************)
\* prepare plans the image; it belongs to the accelerator module.
Prepare(p) == Test(p, "prepare", TRUE, "write")

Append1(p, limit) ==
    /\ At(p, "write") /\ HasPending(p) /\ data[p] < limit
    /\ data' = [data EXCEPT ![p] = @ + 1]
    /\ UNCHANGED <<control, target, stage, reserve, staging, given, pending, fileAttr, streamed>>

\* WriteArtifact into the duplicate of the reserved descriptor.
WriteChunk(p) == Append1(p, Chunks)

Stream(p) ==
    /\ streamed' = [streamed EXCEPT ![p] = @ + 1]
    /\ UNCHANGED <<control, target, stage, reserve, staging, given, pending, data, fileAttr>>

\* WriteArtifact directly to standard output: there is no pending file.
StreamChunk(p) == At(p, "write") /\ ~HasPending(p) /\ streamed[p] < Chunks /\ Stream(p)

\* The writer and the prepared sources are closed.
CloseWriter(p) ==
    /\ IF HasPending(p) THEN data[p] = Chunks ELSE streamed[p] = Chunks
    /\ Test(p, "write", TRUE, IF HasPending(p) THEN "verifyWritten" ELSE "ctxAfterUpload")

\* Faulty variant: only the directory entry is compared.
VerifiedParent(p) == stage[p] = StageDir(p)

\* pendingArtifact.verify: both names still hold the reserved objects.
Verified(p) == stage[p] = StageDir(p) /\ staging[p].image = OwnFile(p)

\* Faulty variant: an upload to a named destination is forgotten.
AfterWrittenNoUpload(p) == CASE req[p].dest = "stdout" -> "copyOut"
                             [] req[p].dest = "none"   -> "ingest"
                             [] OTHER                  -> "ctxAfterUpload"

AfterWritten(p) == CASE req[p].dest = "stdout" -> "copyOut"
                     [] Named(p) /\ ~Upload(p) -> "ctxAfterUpload"
                     [] OTHER                  -> "ingest"

VerifyWritten(p) == Test(p, "verifyWritten", Verified(p), AfterWritten(p))

\* io.Copy to standard output through exportContextReader, which fails once
\* the context is cancelled, at the end of the file too.
CopyChunk(p) == At(p, "copyOut") /\ streamed[p] < data[p] /\ ~cancelled[p] /\ Stream(p)

CopyDone(p) == streamed[p] = data[p] /\ ~cancelled[p] /\ Test(p, "copyOut", TRUE, "ingest")

\* ingestArtifact reads the reserved descriptor into the content store.
Ingest(p) ==
    /\ At(p, "ingest")
    /\ Goto(p, "ctxAfterUpload")
    /\ outcome' = [outcome EXCEPT ![p].ingested = data[p] = Chunks]
    /\ UNCHANGED dataVars

CtxAfterUpload(p) == Test(p, "ctxAfterUpload", ~cancelled[p],
                          IF HasPending(p) THEN "closeFile" ELSE "ctxBeforeCommit")

CloseFile(p) == Test(p, "closeFile", TRUE, "verifyClosed")

VerifyClosed(p) == Test(p, "verifyClosed", Verified(p), "ctxBeforeCommit")

CtxBeforeCommit(p) == Test(p, "ctxBeforeCommit", ~cancelled[p],
                           CASE Named(p)               -> "commitVerify"
                             [] ~Named(p) /\ Upload(p) -> "printKey"
                             [] OTHER                  -> "unlinkImage")

(* commit *)
CommitVerify(p) == Test(p, "commitVerify", Verified(p), "commitStat")

CommitStat(p) == Test(p, "commitStat", RegularOrAbsent(out), "commitCtx")

\* Faulty variant: cancellation during verification goes unseen.
CommitCtxUnseen(p) == Test(p, "commitCtx", TRUE, "rename")

CommitCtx(p) == Test(p, "commitCtx", ~cancelled[p], "rename")

\* Renameat of "image" over the destination; the kernel refuses a directory.
Rename(p) ==
    /\ At(p, "rename") /\ staging[p].image # Absent /\ ~IsDir(out)
    /\ out' = staging[p].image
    /\ outAttr' = fileAttr[p]
    /\ staging' = [staging EXCEPT ![p].image = Absent]
    /\ outcome' = [outcome EXCEPT ![p].published = TRUE, ![p].committed = TRUE]
    /\ Goto(p, IF Upload(p) THEN "printKey" ELSE "unlinkImage")
    /\ UNCHANGED <<stage, reserve, given, pending, contents>>

\* fmt.Println of the manifest key.
PrintKey(p) ==
    /\ At(p, "printKey")
    /\ outcome' = [outcome EXCEPT ![p].key = TRUE, ![p].committed = TRUE]
    /\ Goto(p, "unlinkImage")
    /\ UNCHANGED dataVars

(***************************************************************************)
(* pendingArtifact.Close and finishArtifactOutput                          *)
(***************************************************************************)
\* Faulty variant: only a directory that was opened is removed.
AfterUnlinkOpened(p) == IF pending[p].dir THEN "statDir" ELSE "report"

AfterUnlink(p) == IF pending[p].created THEN "statDir" ELSE "report"

\* "image" is unlinked if this process created it.
UnlinkImage(p) ==
    LET owned == pending[p].dir /\ pending[p].owned
    IN  /\ Move(p, "unlinkImage", AfterUnlink(p))
        /\ ~(owned /\ IsDir(staging[p].image))
        /\ staging' = [staging EXCEPT ![p].image = IF owned THEN Absent ELSE @]
        /\ UNCHANGED <<target, stage, reserve, given, pending, contents>>

\* The staging name must still hold the directory this process verified.
StatDir(p) == Test(p, "statDir", TRUE, IF stage[p] = StageDir(p) THEN "rmdir" ELSE "report")

RemoveStage(p) ==
    /\ Move(p, "rmdir", "report")
    /\ stage' = [stage EXCEPT ![p] = Absent]
    /\ UNCHANGED <<target, reserve, staging, given, pending, contents>>

\* Faulty variant: the tree under the staging name is removed.
RmdirTree(p) == RemoveStage(p)

\* Unlinkat AT_REMOVEDIR acts on the name and removes only an empty directory.
Rmdir(p) ==
    /\ \/ stage[p].kind = "emptydir"
       \/ stage[p] = StageDir(p) /\ staging[p] = [image |-> Absent, inherited |-> Absent]
    /\ RemoveStage(p)

Exit(p, failed) ==
    /\ At(p, "report")
    /\ outcome' = [outcome EXCEPT ![p].result = IF failed THEN "error" ELSE "ok"]
    /\ Goto(p, "done")
    /\ UNCHANGED dataVars

\* Faulty variant: a cleanup error is always a failure.
ReportCleanupError(p) == Exit(p, outcome[p].err \/ outcome[p].cleanErr)

\* A cleanup error after the commit is a warning.
Report(p) == Exit(p, outcome[p].err \/ (outcome[p].cleanErr /\ ~outcome[p].committed))

-----------------------------------------------------------------------------
(***************************************************************************)
(* Failures, signals and other processes                                   *)
(***************************************************************************)
BodySteps == {"start", "reserve", "replaceable", "mkdir", "statStage", "openStage", "createImage",
              "reserveName", "reserveInfo", "moveIn", "checkMoved", "adopt", "restore",
              "prepare", "write", "verifyWritten", "copyOut", "ingest", "ctxAfterUpload",
              "closeFile", "verifyClosed", "ctxBeforeCommit", "commitVerify", "commitStat",
              "commitCtx", "rename", "printKey"}
CleanupSteps == {"unlinkImage", "statDir", "rmdir", "dropCheck", "dropUnlink",
                 "dropInherited", "report"}
Steps == BodySteps \cup CleanupSteps \cup {"done", "killed"}

\* Which deferred cleanup an error return of the step runs first.
ErrorExit(l) == CASE l = "moveIn"                  -> "dropCheck"
                  [] l \in {"checkMoved", "adopt"} -> "dropInherited"
                  [] OTHER                         -> "unlinkImage"

\* A system call, the planner, the writer or the store returns an error: for a
\* reason of its own, or because the step above it cannot succeed.
StepFails(p) ==
    /\ pc[p] \in BodySteps \ {"ctxAfterUpload", "ctxBeforeCommit", "commitCtx"}
    /\ Goto(p, ErrorExit(pc[p]))
    /\ outcome' = [outcome EXCEPT ![p].err = TRUE, ![p].unread = @ \/ At(p, "reserveInfo")]
    /\ UNCHANGED dataVars

\* A cleanup call returns an error; cleanup goes on.  An error of the fstatat
\* in sameArtifactAt is joined to nothing: the names count as different.
CleanupFails(p) ==
    /\ pc[p] \in CleanupSteps \ {"report"}
    /\ outcome' = [outcome EXCEPT ![p].cleanErr = @ \/ ~At(p, "dropCheck"),
                                  ![p].unread = @ \/ At(p, "dropCheck")]
    /\ Goto(p, CASE At(p, "unlinkImage") -> AfterUnlink(p)
                 [] At(p, "statDir") \/ At(p, "rmdir") -> "report"
                 [] OTHER -> "unlinkImage")
    /\ UNCHANGED dataVars

\* SIGINT or SIGTERM cancels the context.  NotifyContext swallows this signal
\* and every further one until its stop function is called.
Cancel(p) ==
    /\ ~Terminated(p) /\ ~cancelled[p]
    /\ cancelled' = [cancelled EXCEPT ![p] = TRUE]
    /\ UNCHANGED <<control, target, stage, reserve, staging, linked, meddled, meddles, req,
                   restored, pending, contents>>

Restoring(p) ==
    /\ restored' = [restored EXCEPT ![p] = TRUE]
    /\ UNCHANGED <<control, target, stage, reserve, staging, linked, meddled, meddles, req,
                   cancelled, pending, contents>>

\* Faulty variant: stop is only deferred to the return of runExport.
RestoreOnReturn(p) == At(p, "report") /\ ~restored[p] /\ Restoring(p)

\* The goroutine of runExport waits for the context and calls stop.
RestoreSignals(p) == ~Terminated(p) /\ cancelled[p] /\ ~restored[p] /\ Restoring(p)

Die(p) == ~Terminated(p) /\ Goto(p, "killed") /\ UNCHANGED <<dataVars, outcome>>

\* A signal under the default disposition.
SecondSignal(p) == restored[p] /\ Die(p)

\* SIGKILL, out of memory, a crash of the machine.
Crash(p) == Die(p)

Meddle(what) == /\ what \in Meddlers /\ meddles < MaxMeddle
                /\ meddles' = meddles + 1
                /\ UNCHANGED <<control, req, cancelled, restored, pending, contents>>
MeddleWith(p, what, entry) == /\ Meddle(what) /\ entry # Absent
                              /\ meddled' = [meddled EXCEPT ![p] = TRUE]
                              /\ UNCHANGED target

\* Another process replaces or removes the destination, or changes its attributes.
OthersChangeOutput ==
    /\ Meddle("output")
    /\ out' \in {Absent, out} \cup Foreign
    /\ outAttr' \in IF out' = Absent THEN {"none"} ELSE {"open", "strict"}
    /\ UNCHANGED <<stage, reserve, staging, linked, meddled>>

\* Another process moves the staging directory away, perhaps leaving something.
OthersTakeStage(p) ==
    /\ MeddleWith(p, "stage", stage[p])
    /\ \E o \in {Absent} \cup Foreign : stage' = [stage EXCEPT ![p] = o]
    /\ UNCHANGED <<reserve, staging, linked>>

\* ... or the public reservation, or makes a second link to it.
OthersTakeReserve(p) ==
    /\ MeddleWith(p, "reserve", reserve[p])
    /\ \/ /\ \E o \in {Absent} \cup Foreign : reserve' = [reserve EXCEPT ![p] = o]
          /\ UNCHANGED linked
       \/ /\ reserve[p] = Inherited(p)
          /\ linked' = [linked EXCEPT ![p] = TRUE]
          /\ UNCHANGED reserve
    /\ UNCHANGED <<stage, staging>>

\* Another process of the same user replaces "image" inside the staging
\* directory, other than while commit runs: no system call closes that window.
InCommit(p) == pc[p] \in {"commitStat", "commitCtx", "rename"}
OthersTakeImage(p) ==
    /\ MeddleWith(p, "image", staging[p].image) /\ ~InCommit(p)
    /\ \E o \in {Absent} \cup Foreign : staging' = [staging EXCEPT ![p].image = o]
    /\ UNCHANGED <<stage, reserve, linked>>

ReserveStep(p) == \/ Start(p) \/ ReserveParent(p) \/ CheckReplaceable(p) \/ MakeStage(p)
                  \/ StatStage(p) \/ OpenStage(p) \/ CreateImage(p) \/ RestoreAttrs(p)
InheritStep(p) == \/ ReserveName(p) \/ ReserveInfo(p) \/ MoveIn(p) \/ CheckMoved(p)
                  \/ Adopt(p) \/ DropCheck(p) \/ DropUnlink(p) \/ DropInherited(p)
WriteStep(p)   == \/ Prepare(p) \/ WriteChunk(p) \/ CloseWriter(p) \/ VerifyWritten(p)
                  \/ CopyDone(p) \/ Ingest(p) \/ CtxAfterUpload(p) \/ CloseFile(p)
                  \/ VerifyClosed(p) \/ CtxBeforeCommit(p)
CommitStep(p)  == CommitVerify(p) \/ CommitStat(p) \/ CommitCtx(p) \/ Rename(p)
CleanupStep(p) == UnlinkImage(p) \/ StatDir(p) \/ Rmdir(p) \/ Report(p)
SignalStep(p)  == Cancel(p) \/ RestoreSignals(p) \/ SecondSignal(p)
FailureStep(p) == StepFails(p) \/ CleanupFails(p) \/ SignalStep(p) \/ Crash(p)
OthersStep(p)  == OthersTakeStage(p) \/ OthersTakeReserve(p) \/ OthersTakeImage(p)

\* Steps of an export: writes to standard output, and all others.
StdoutStep(p) == StreamChunk(p) \/ CopyChunk(p) \/ PrintKey(p)
Progress(p)   == ReserveStep(p) \/ InheritStep(p) \/ WriteStep(p) \/ CommitStep(p) \/ CleanupStep(p)

\* Reading the input and writing standard output take as long as the peer
\* pleases; a read or write that blocks does not observe the context.
AtPeer(p) == \/ pc[p] \in {"prepare", "printKey"}
             \/ At(p, "write") /\ ~HasPending(p) /\ streamed[p] < Chunks
             \/ At(p, "copyOut") /\ streamed[p] < data[p]

\* Any other step, or its error return, is always possible.
Proceed(p) == ~AtPeer(p) /\ (Progress(p) \/ StepFails(p) \/ CleanupFails(p))

Export(p) == Progress(p) \/ StdoutStep(p)

Next == \/ \E p \in Procs : Export(p) \/ FailureStep(p) \/ OthersStep(p)
        \/ OthersChangeOutput

Spec == Init /\ [][Next]_vars

\* Both goroutines are scheduled.  Nothing obliges the peers, and nobody has
\* to signal twice.
Fairness == \A p \in Procs : WF_vars(Proceed(p)) /\ WF_vars(RestoreSignals(p))

FairSpec == Spec /\ Fairness

-----------------------------------------------------------------------------
(***************************************************************************)
(* Properties                                                              *)
(***************************************************************************)
Directory       == [image : Object, inherited : Object]
PendingArtifact == [created : BOOLEAN, dir : BOOLEAN, owned : BOOLEAN, inherit : BOOLEAN,
                    file : {"none", "image", "inherited"}, attr : Attrs]
Outcome         == [err : BOOLEAN, cleanErr : BOOLEAN, published : BOOLEAN, ingested : BOOLEAN,
                    key : BOOLEAN, committed : BOOLEAN, unread : BOOLEAN,
                    result : {"none", "ok", "error"}]

\* Every variable has its type.
TypeOK ==
    /\ out \in Object /\ outAttr \in Attrs
    /\ stage \in [Procs -> Object]
    /\ reserve \in [Procs -> Object]
    /\ staging \in [Procs -> Directory]
    /\ linked \in [Procs -> BOOLEAN] /\ meddled \in [Procs -> BOOLEAN]
    /\ meddles \in Nat
    /\ pc \in [Procs -> Steps]
    /\ req \in [Procs -> Requests]
    /\ cancelled \in [Procs -> BOOLEAN] /\ restored \in [Procs -> BOOLEAN]
    /\ pending \in [Procs -> PendingArtifact]
    /\ data \in [Procs -> 0 .. Chunks]
    /\ fileAttr \in [Procs -> Attrs]
    /\ streamed \in [Procs -> 0 .. Chunks]
    /\ outcome \in [Procs -> Outcome]

\* The destination never shows a partial artifact, a template that inherited
\* staging replaced, or a file still hidden by mode 000: what a process put
\* there is its finished file ("A failure never exposes a named partial
\* artifact", export.go:127).
NoPartialOutput ==
    \A p \in Procs :
        out.owner = p => /\ outcome[p].published
                         /\ out = OwnFile(p)
                         /\ data[p] = Chunks
                         /\ fileAttr[p] # "hidden"

\* Why NoPartialOutput holds, one step at a time: what each part of the
\* program may rely on.  PublicationInv is inductive together with TypeOK.
EndSteps     == {"printKey", "unlinkImage", "statDir", "rmdir", "report", "done", "killed"}
CommitSteps  == {"commitVerify", "commitStat", "commitCtx", "rename"}
WrittenSteps == CommitSteps \cup {"verifyWritten", "copyOut", "ingest", "ctxAfterUpload",
                                  "closeFile", "verifyClosed", "ctxBeforeCommit"}
VisibleSteps == WrittenSteps \cup {"start", "adopt", "restore", "prepare", "write"}

WrittenIsComplete(p)   == pc[p] \in WrittenSteps /\ HasPending(p) => data[p] = Chunks
CommitIsNamed(p)       == pc[p] \in CommitSteps => Named(p)
CommitIsVerified(p)    == InCommit(p) => staging[p].image = OwnFile(p)
NeverHidden(p)         == /\ pc[p] \in VisibleSteps => fileAttr[p] # "hidden"
                          /\ pending[p].attr # "hidden"
PublishedIsFinished(p) == outcome[p].published => /\ pc[p] \in EndSteps
                                                  /\ data[p] = Chunks
                                                  /\ fileAttr[p] # "hidden"
ShownIsPublished(p)    == out.owner = p => outcome[p].published /\ out = OwnFile(p)

PublicationInv == /\ outAttr # "hidden"
                  /\ \A p \in Procs : /\ WrittenIsComplete(p) /\ CommitIsNamed(p)
                                      /\ CommitIsVerified(p) /\ NeverHidden(p)
                                      /\ PublishedIsFinished(p) /\ ShownIsPublished(p)

\* The exit status tells the truth.  Success means the destination was
\* replaced, all bytes reached standard output and the store holds the image,
\* as far as each was asked for; an error without an upload means that the
\* destination was never touched; staging cleanup changes neither.
ReportMatchesOutcome ==
    \A p \in Procs :
        /\ outcome[p].result = "ok" =>
               /\ Named(p) => outcome[p].published
               /\ req[p].dest = "stdout" => streamed[p] = Chunks
               /\ Upload(p) => outcome[p].ingested /\ outcome[p].key
        /\ outcome[p].result = "error" /\ ~Upload(p) => ~outcome[p].published

\* Requested upload succeeds before the rename, and the key comes last:
\* whoever reads it finds the store and the destination complete.
KeyIsLast ==
    \A p \in Procs :
        /\ outcome[p].published /\ Upload(p) => outcome[p].ingested
        /\ outcome[p].key => /\ outcome[p].ingested
                             /\ Named(p) => outcome[p].published
                             /\ req[p].dest = "stdout" => streamed[p] = Chunks

\* An export that reported and whose cleanup calls worked leaves nothing in
\* the parent, unless somebody else touched its names.  Two entries stay for
\* want of an identity, and then an error is reported: a staging directory
\* whose Stat failed or that was not private, and a reservation whose Stat
\* failed or whose name could not be read.
NoResidue ==
    \A p \in Procs :
        At(p, "done") /\ ~meddled[p] /\ ~outcome[p].cleanErr =>
            /\ stage[p] # Absent   => ~pending[p].created /\ outcome[p].result = "error"
            /\ reserve[p] # Absent => outcome[p].unread /\ outcome[p].result = "error"

\* Cancellation seen before the last test of the context: the destination is
\* never replaced by this process.
CancelledStaysUnpublished ==
    \A p \in Procs :
        [](cancelled[p] /\ ~outcome[p].published /\ ~At(p, "rename")
             => [](~outcome[p].published))

\* No step of an export removes what another process put at its names, but for
\* an empty directory at the staging name (the window of Rmdir) and a file at
\* the reservation name; it never removes a directory with entries.
KeepsForeign ==
    [][\A p \in Procs : (Export(p) \/ StepFails(p) \/ CleanupFails(p)) =>
          /\ stage[p].owner = Others /\ stage'[p] # stage[p] =>
                 stage[p].kind \in {"none", "emptydir"}
          /\ reserve[p].owner = Others /\ reserve[p] # Absent /\ reserve'[p] # reserve[p] =>
                 \/ ~IsDir(reserve[p])
                 \/ staging'[p].inherited = reserve[p]
          /\ staging[p].inherited.kind = "fulldir" =>
                 staging'[p].inherited = staging[p].inherited]_vars

\* Replacing the destination keeps the attributes the export saw when it
\* reserved: they change only if somebody changed them meanwhile.
KeepsSeenAttributes ==
    [][\A p \in Procs :
          ~outcome[p].published /\ outcome'[p].published /\ outAttr = pending[p].attr
            => out' = OwnFile(p) /\ (outAttr # "none" => outAttr' = outAttr)]_vars

\* What others have at the names of an export, and the attributes it saw.
KeepsOthers == KeepsForeign /\ KeepsSeenAttributes

\* A cancelled export ends by itself, wherever it was, or stays with its peer
\* while the default disposition is in force, so that another signal ends it.
CancelledExportEnds ==
    \A p \in Procs : cancelled[p] ~> (Terminated(p) \/ [](AtPeer(p) /\ restored[p]))

(***************************************************************************)
(* The abstract specification this one implements                          *)
(***************************************************************************)
\* A file of p counts as p's artifact only when it is the finished one.
Shown == IF out.owner = Others THEN Others
         ELSE IF /\ out = OwnFile(out.owner)
                 /\ data[out.owner] = Chunks
                 /\ fileAttr[out.owner] # "hidden"
         THEN out.owner ELSE "partial"

Status(p) == CASE At(p, "killed")                            -> "dead"
               [] At(p, "done") /\ outcome[p].result = "ok"  -> "ok"
               [] At(p, "done") /\ outcome[p].result # "ok"  -> "failed"
               [] ~Terminated(p) /\ outcome[p].published     -> "published"
               [] OTHER                                      -> "working"

Abstract == INSTANCE AtomicOutput WITH
                shown     <- Shown,
                status    <- [p \in Procs |-> Status(p)],
                named     <- {p \in Procs : Named(p)},
                uploading <- {p \in Procs : Upload(p)}

\* Every behaviour of the exports is one of AtomicOutput: publication is one
\* step, of a finished file, by an export that has not reported.
Atomic == Abstract!Spec
=============================================================================
