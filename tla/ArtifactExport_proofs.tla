------------------------- MODULE ArtifactExport_proofs -------------------------
(***************************************************************************)
(* Proofs about ArtifactExport, for any number of exports, any artifact    *)
(* size and any steps of other processes: a published artifact is whole    *)
(* and stays what it was; what an export reports is what happened, and its *)
(* key comes last; the exports together implement AtomicOutput; an export  *)
(* leaves nothing behind and spares what others have at its names; and one *)
(* cancelled in time does not publish.                                     *)
(***************************************************************************)
EXTENDS ArtifactExport, TLAPS

\* Every file a program or somebody else can make is an object.
LEMMA Objects ==
    /\ Absent \in Object
    /\ Foreign \subseteq Object
    /\ \A p \in Procs : /\ StageDir(p) \in Object
                        /\ ImageFile(p) \in Object
                        /\ Inherited(p) \in Object
  BY DEF Object, Kinds, Absent, Foreign, StageDir, ImageFile, Inherited

\* Assigning fields of a pendingArtifact.
LEMMA PendingUpdate ==
  ASSUME NEW r \in PendingArtifact
  PROVE  /\ \A b \in BOOLEAN : /\ [r EXCEPT !.created = b] \in PendingArtifact
                               /\ [r EXCEPT !.dir = b] \in PendingArtifact
                               /\ [r EXCEPT !.owned = b] \in PendingArtifact
                               /\ [r EXCEPT !.inherit = b] \in PendingArtifact
         /\ \A a \in Attrs : [r EXCEPT !.attr = a] \in PendingArtifact
         /\ [r EXCEPT !.file = "image"] \in PendingArtifact
         /\ [r EXCEPT !.file = "inherited"] \in PendingArtifact
  BY DEF PendingArtifact

\* Assigning fields of what an export has brought about.
LEMMA OutcomeUpdate ==
  ASSUME NEW r \in Outcome
  PROVE  /\ [r EXCEPT !.err = TRUE] \in Outcome
         /\ \A b \in BOOLEAN, u \in BOOLEAN : /\ [r EXCEPT !.err = b, !.unread = u] \in Outcome
                                             /\ [r EXCEPT !.cleanErr = b, !.unread = u] \in Outcome
         /\ [r EXCEPT !.published = TRUE] \in Outcome
         /\ \A b \in BOOLEAN : [r EXCEPT !.ingested = b] \in Outcome
         /\ [r EXCEPT !.key = TRUE] \in Outcome
         /\ [r EXCEPT !.committed = TRUE] \in Outcome
         /\ \A x \in {"ok", "error"} : [r EXCEPT !.result = x] \in Outcome
  BY DEF Outcome

\* The initial states have the types.
LEMMA InitType == Init => TypeOK
<1> SUFFICES ASSUME Init PROVE TypeOK
  OBVIOUS
<1>1. out \in Object /\ outAttr \in Attrs
  BY Objects DEF Init, Attrs, Object, Kinds
<1>2. staging \in [Procs -> Directory]
  BY Objects DEF Init, Directory
<1>3. pending \in [Procs -> PendingArtifact] /\ outcome \in [Procs -> Outcome]
  BY DEF Init, PendingArtifact, Outcome, Attrs
<1>4. data \in [Procs -> 0 .. Chunks] /\ streamed \in [Procs -> 0 .. Chunks]
  BY ChunksAssumption DEF Init
<1>5. pc \in [Procs -> Steps]
  BY DEF Init, Steps, BodySteps
<1>6. QED
  BY Objects, <1>1, <1>2, <1>3, <1>4, <1>5 DEF Init, TypeOK, Attrs

(***************************************************************************)
(* The control part of the state after a step.                             *)
(***************************************************************************)
ControlType == pc \in [Procs -> Steps] /\ outcome \in [Procs -> Outcome]

\* A step that goes on.
LEMMA MoveType ==
  ASSUME ControlType, NEW p \in Procs, NEW from, NEW to \in Steps, Move(p, from, to)
  PROVE  ControlType'
  BY DEF ControlType, Move, Goto

\* A step that ends in an error.
LEMMA AbortType ==
  ASSUME ControlType, NEW p \in Procs, NEW l \in Steps, Abort(p, l)
  PROVE  ControlType'
<1>1. [outcome[p] EXCEPT !.err = TRUE] \in Outcome
  BY DEF ControlType, Outcome
<1>2. QED
  BY <1>1 DEF ControlType, Abort, Goto

\* A step that goes on or ends in an error.
LEMMA CheckType ==
  ASSUME ControlType, NEW p \in Procs, NEW l, NEW ok \in BOOLEAN, NEW next \in Steps,
         Check(p, l, ok, next)
  PROVE  ControlType'
<1>1. CASE ok
  BY <1>1 DEF Check, ControlType, Goto
<1>2. CASE ~ok
  BY <1>2, AbortType DEF Check, Steps, CleanupSteps
<1>3. QED
  BY <1>1, <1>2

\* A test changes nothing but the control part.
LEMMA TestType ==
  ASSUME TypeOK, NEW p \in Procs, NEW l, NEW ok \in BOOLEAN, NEW next \in Steps,
         Test(p, l, ok, next)
  PROVE  TypeOK'
<1>1. ControlType'
  BY CheckType DEF Test, TypeOK, ControlType
<1>2. QED
  BY <1>1 DEF Test, dataVars, target, given, contents, TypeOK, ControlType

\* Types are kept while staging is made.
LEMMA ReserveType ==
  ASSUME TypeOK, NEW p \in Procs, ReserveStep(p)
  PROVE  TypeOK'
<1> USE Objects DEF TypeOK, ControlType, target, given, contents
<1> USE DEF Steps, BodySteps
<1>1. CASE Start(p)
  BY <1>1, TestType DEF Start
<1>2. CASE ReserveParent(p)
  <2>1. ControlType'
    BY <1>2, CheckType DEF ReserveParent
  <2>2. pending' \in [Procs -> PendingArtifact]
    BY <1>2, PendingUpdate DEF ReserveParent, Attrs
  <2>3. QED
    BY <1>2, <2>1, <2>2 DEF ReserveParent
<1>3. CASE CheckReplaceable(p)
  BY <1>3, TestType DEF CheckReplaceable
<1>4. CASE MakeStage(p)
  BY <1>4, MoveType DEF MakeStage
<1>5. CASE StatStage(p)
  <2>1. ControlType'
    BY <1>5, CheckType DEF StatStage
  <2>2. pending' \in [Procs -> PendingArtifact]
    BY <1>5, PendingUpdate DEF StatStage
  <2>3. QED
    BY <1>5, <2>1, <2>2 DEF StatStage
<1>6. CASE OpenStage(p)
  <2>1. ControlType'
    BY <1>6, CheckType DEF OpenStage
  <2>2. pending' \in [Procs -> PendingArtifact]
    <3> DEFINE inherits(b) == b /\ stage[p] = StageDir(p)
    <3>1. \A b \in BOOLEAN :
             [[pending[p] EXCEPT !.dir = IsDir(stage[p])] EXCEPT !.inherit = inherits(b)]
                 \in PendingArtifact
      <4>1. IsDir(stage[p]) \in BOOLEAN /\ \A b \in BOOLEAN : inherits(b) \in BOOLEAN
        BY DEF IsDir
      <4>2. QED
        BY <4>1, PendingUpdate
    <3>2. QED
      BY <1>6, <3>1 DEF OpenStage
  <2>3. QED
    BY <1>6, <2>1, <2>2 DEF OpenStage
<1>7. CASE CreateImage(p)
  <2>1. ControlType'
    BY <1>7, MoveType DEF CreateImage
  <2>2. pending' \in [Procs -> PendingArtifact]
    BY <1>7, PendingUpdate DEF CreateImage
  <2>3. staging' \in [Procs -> Directory]
    BY <1>7 DEF CreateImage, Directory
  <2>4. QED
    BY <1>7, <2>1, <2>2, <2>3 DEF CreateImage, Attrs
<1>8. CASE RestoreAttrs(p)
  <2>1. ControlType'
    BY <1>8, MoveType DEF RestoreAttrs, Restore
  <2>2. pending[p].attr \in Attrs
    BY DEF PendingArtifact
  <2>3. QED
    BY <1>8, <2>1, <2>2 DEF RestoreAttrs, Restore
<1>9. QED
  BY <1>1, <1>2, <1>3, <1>4, <1>5, <1>6, <1>7, <1>8 DEF ReserveStep

\* ... while the group and the ACL of the parent are taken over.
LEMMA InheritType ==
  ASSUME TypeOK, NEW p \in Procs, InheritStep(p)
  PROVE  TypeOK'
<1> USE Objects DEF TypeOK, ControlType, target, given, contents
<1> USE DEF Steps, BodySteps, CleanupSteps
<1>1. CASE ReserveName(p)
  BY <1>1, MoveType DEF ReserveName, Attrs
<1>2. CASE ReserveInfo(p)
  BY <1>2, TestType DEF ReserveInfo
<1>3. CASE MoveIn(p)
  <2>1. ControlType'
    BY <1>3, MoveType DEF MoveIn
  <2>2. staging' \in [Procs -> Directory]
    BY <1>3 DEF MoveIn, Directory
  <2>3. QED
    BY <1>3, <2>1, <2>2 DEF MoveIn
<1>4. CASE CheckMoved(p)
  BY <1>4, MoveType DEF CheckMoved, Attrs
<1>5. CASE Adopt(p)
  <2>1. ControlType'
    BY <1>5, MoveType DEF Adopt
  <2>2. staging' \in [Procs -> Directory]
    BY <1>5 DEF Adopt, Directory
  <2>3. pending' \in [Procs -> PendingArtifact]
    BY <1>5, PendingUpdate DEF Adopt
  <2>4. QED
    BY <1>5, <2>1, <2>2, <2>3 DEF Adopt
<1>6. CASE DropCheck(p)
  BY <1>6, TestType DEF DropCheck
<1>7. CASE DropUnlink(p)
  BY <1>7, MoveType DEF DropUnlink
<1>8. CASE DropInherited(p)
  <2>1. ControlType'
    BY <1>8, MoveType DEF DropInherited
  <2>2. staging' \in [Procs -> Directory]
    BY <1>8 DEF DropInherited, Directory
  <2>3. QED
    BY <1>8, <2>1, <2>2 DEF DropInherited
<1>9. QED
  BY <1>1, <1>2, <1>3, <1>4, <1>5, <1>6, <1>7, <1>8 DEF InheritStep

\* A chunk more on standard output.
LEMMA StreamType ==
  ASSUME TypeOK, NEW p \in Procs, Stream(p), streamed[p] < Chunks
  PROVE  TypeOK'
<1>1. streamed' \in [Procs -> 0 .. Chunks]
  BY ChunksAssumption DEF Stream, TypeOK
<1>2. QED
  BY <1>1 DEF Stream, TypeOK, control, target, given

\* ... while the artifact is written, to a file or to standard output.
LEMMA WriteType ==
  ASSUME TypeOK, NEW p \in Procs, WriteStep(p) \/ StdoutStep(p)
  PROVE  TypeOK'
<1> USE DEF Steps, BodySteps
<1>1. CASE Prepare(p)
  BY <1>1, TestType DEF Prepare
<1>2. CASE WriteChunk(p)
  <2>1. data' \in [Procs -> 0 .. Chunks]
    BY <1>2, ChunksAssumption DEF WriteChunk, Append1, TypeOK
  <2>2. QED
    BY <1>2, <2>1 DEF WriteChunk, Append1, TypeOK, control, target, given
<1>3. CASE CloseWriter(p)
  BY <1>3, TestType DEF CloseWriter
<1>4. CASE VerifyWritten(p)
  <2>1. AfterWritten(p) \in Steps /\ Verified(p) \in BOOLEAN
    BY DEF AfterWritten, Verified
  <2>2. QED
    BY <1>4, <2>1, TestType DEF VerifyWritten
<1>5. CASE CopyDone(p)
  BY <1>5, TestType DEF CopyDone
<1>6. CASE Ingest(p)
  <2>1. [outcome[p] EXCEPT !.ingested = (data[p] = Chunks)] \in Outcome
    BY OutcomeUpdate DEF TypeOK
  <2>2. QED
    BY <1>6, <2>1 DEF Ingest, Goto, TypeOK, dataVars, target, given, contents
<1>7. CASE CtxAfterUpload(p)
  BY <1>7, TestType DEF CtxAfterUpload, TypeOK
<1>8. CASE CloseFile(p)
  BY <1>8, TestType DEF CloseFile
<1>9. CASE VerifyClosed(p)
  BY <1>9, TestType DEF VerifyClosed, Verified
<1>10. CASE CtxBeforeCommit(p)
  <2>1. CASE Named(p)
    BY <1>10, <2>1, TestType DEF CtxBeforeCommit
  <2>2. CASE ~Named(p) /\ Upload(p)
    BY <1>10, <2>2, TestType DEF CtxBeforeCommit
  <2>3. CASE ~Named(p) /\ ~Upload(p)
    BY <1>10, <2>3, TestType DEF CtxBeforeCommit, CleanupSteps
  <2>4. QED
    BY <2>1, <2>2, <2>3
<1>11. CASE StreamChunk(p)
  BY <1>11, StreamType DEF StreamChunk
<1>12. CASE CopyChunk(p)
  <2>1. streamed[p] < Chunks
    BY <1>12, ChunksAssumption DEF CopyChunk, TypeOK
  <2>2. QED
    BY <1>12, <2>1, StreamType DEF CopyChunk
<1>13. CASE PrintKey(p)
  <2>1. [[outcome[p] EXCEPT !.key = TRUE] EXCEPT !.committed = TRUE] \in Outcome
    BY OutcomeUpdate DEF TypeOK
  <2>2. QED
    BY <1>13, <2>1 DEF PrintKey, Goto, TypeOK, dataVars, target, given, contents, CleanupSteps
<1>14. QED
  BY <1>1, <1>2, <1>3, <1>4, <1>5, <1>6, <1>7, <1>8, <1>9, <1>10, <1>11, <1>12, <1>13
  DEF WriteStep, StdoutStep

\* ... by the steps of commit.
LEMMA CommitType ==
  ASSUME TypeOK, NEW p \in Procs, CommitStep(p)
  PROVE  TypeOK'
<1> USE DEF Steps, BodySteps
<1>1. CASE CommitVerify(p)
  BY <1>1, TestType DEF CommitVerify, Verified
<1>2. CASE CommitStat(p)
  BY <1>2, TestType DEF CommitStat, RegularOrAbsent
<1>3. CASE CommitCtx(p)
  BY <1>3, TestType DEF CommitCtx, TypeOK
<1>4. CASE Rename(p)
  <2>1. [[outcome[p] EXCEPT !.published = TRUE] EXCEPT !.committed = TRUE] \in Outcome
    BY OutcomeUpdate DEF TypeOK
  <2>2. ControlType'
    BY <1>4, <2>1 DEF Rename, Goto, TypeOK, ControlType, CleanupSteps
  <2>3. staging' \in [Procs -> Directory] /\ out' \in Object /\ outAttr' \in Attrs
    BY <1>4, Objects DEF Rename, TypeOK, Directory
  <2>4. QED
    BY <1>4, <2>2, <2>3 DEF Rename, TypeOK, ControlType, given, contents
<1>5. QED
  BY <1>1, <1>2, <1>3, <1>4 DEF CommitStep

\* ... by the removals, and by the report.
LEMMA CleanupType ==
  ASSUME TypeOK, NEW p \in Procs, CleanupStep(p)
  PROVE  TypeOK'
<1> USE DEF Steps, CleanupSteps
<1>1. CASE UnlinkImage(p)
  <2>1. ControlType'
    BY <1>1, MoveType DEF UnlinkImage, AfterUnlink, TypeOK, ControlType
  <2>2. staging' \in [Procs -> Directory]
    <3>1. [staging[p] EXCEPT !.image = Absent] \in Directory /\ staging[p] \in Directory
      BY Objects DEF TypeOK, Directory
    <3>2. CASE pending[p].dir /\ pending[p].owned
      BY <1>1, <3>1, <3>2 DEF UnlinkImage, TypeOK
    <3>3. CASE ~(pending[p].dir /\ pending[p].owned)
      <4>1. staging' = [staging EXCEPT ![p].image = staging[p].image]
        BY <1>1, <3>3 DEF UnlinkImage, TypeOK
      <4>2. QED
        BY <4>1 DEF TypeOK, Directory
    <3>4. QED
      BY <3>2, <3>3
  <2>3. QED
    BY <1>1, <2>1, <2>2 DEF UnlinkImage, TypeOK, ControlType, target, given, contents
<1>2. CASE StatDir(p)
  BY <1>2, TestType DEF StatDir
<1>3. CASE Rmdir(p)
  BY <1>3, MoveType, Objects
  DEF Rmdir, RemoveStage, TypeOK, ControlType, target, given, contents
<1>4. CASE Report(p)
  <2>1. PICK x \in {"ok", "error"} : outcome' = [outcome EXCEPT ![p].result = x]
    BY <1>4 DEF Report, Exit
  <2>2. [outcome[p] EXCEPT !.result = x] \in Outcome
    BY OutcomeUpdate DEF TypeOK
  <2>3. QED
    BY <1>4, <2>1, <2>2 DEF Report, Exit, Goto, TypeOK, dataVars, target, given, contents
<1>5. QED
  BY <1>1, <1>2, <1>3, <1>4 DEF CleanupStep

\* ... by errors, signals and death.
LEMMA FailureType ==
  ASSUME TypeOK, NEW p \in Procs, FailureStep(p)
  PROVE  TypeOK'
<1>1. CASE StepFails(p)
  <2>1. ErrorExit(pc[p]) \in Steps
    BY DEF ErrorExit, Steps, CleanupSteps
  <2>2. [outcome[p] EXCEPT !.err = TRUE, !.unread = @ \/ At(p, "reserveInfo")] \in Outcome
    BY OutcomeUpdate DEF TypeOK
  <2>3. ControlType'
    BY <1>1, <2>1, <2>2 DEF StepFails, Goto, TypeOK, ControlType
  <2>4. QED
    BY <1>1, <2>3 DEF StepFails, TypeOK, ControlType, dataVars, target, given, contents
<1>2. CASE CleanupFails(p)
  <2>1. PICK l \in Steps : Goto(p, l)
    <3>1. AfterUnlink(p) \in Steps
      BY DEF AfterUnlink, Steps, CleanupSteps
    <3>2. "report" \in Steps /\ "unlinkImage" \in Steps
      BY DEF Steps, CleanupSteps
    <3>3. CASE At(p, "unlinkImage")
      <4>1. Goto(p, AfterUnlink(p))
        BY <1>2, <3>3 DEF CleanupFails, At
      <4>2. QED
        BY <3>1, <4>1
    <3>4. CASE ~At(p, "unlinkImage") /\ (At(p, "statDir") \/ At(p, "rmdir"))
      <4>1. Goto(p, "report")
        BY <1>2, <3>4 DEF CleanupFails
      <4>2. QED
        BY <3>2, <4>1
    <3>5. CASE ~At(p, "unlinkImage") /\ ~(At(p, "statDir") \/ At(p, "rmdir"))
      <4>1. Goto(p, "unlinkImage")
        BY <1>2, <3>5 DEF CleanupFails
      <4>2. QED
        BY <3>2, <4>1
    <3>6. QED
      BY <3>3, <3>4, <3>5
  <2>2. [outcome[p] EXCEPT !.cleanErr = @ \/ ~At(p, "dropCheck"),
                           !.unread = @ \/ At(p, "dropCheck")] \in Outcome
    BY OutcomeUpdate DEF TypeOK
  <2>3. QED
    BY <1>2, <2>1, <2>2 DEF CleanupFails, Goto, TypeOK, dataVars, target, given, contents
<1>3. CASE Cancel(p) \/ RestoreSignals(p)
  BY <1>3 DEF Cancel, RestoreSignals, Restoring, TypeOK, control, target, contents
<1>4. CASE SecondSignal(p) \/ Crash(p)
  BY <1>4 DEF SecondSignal, Crash, Die, Goto, TypeOK, dataVars, target, given, contents, Steps
<1>5. QED
  BY <1>1, <1>2, <1>3, <1>4 DEF FailureStep, SignalStep

\* ... by other processes in the directory.
LEMMA OthersType ==
  ASSUME TypeOK, (\E p \in Procs : OthersStep(p)) \/ OthersChangeOutput
  PROVE  TypeOK'
<1> USE Objects, MeddleAssumption DEF Meddle, MeddleWith, TypeOK, target, control, contents
<1>1. CASE OthersChangeOutput
  BY <1>1 DEF OthersChangeOutput, Attrs
<1>2. ASSUME NEW p \in Procs, OthersTakeStage(p)
      PROVE  TypeOK'
  BY <1>2 DEF OthersTakeStage
<1>3. ASSUME NEW p \in Procs, OthersTakeReserve(p)
      PROVE  TypeOK'
  <2>1. reserve' \in [Procs -> Object] /\ linked' \in [Procs -> BOOLEAN]
    <3>1. CASE UNCHANGED linked
      <4>1. CASE UNCHANGED reserve
        BY <3>1, <4>1
      <4>2. CASE \E o \in {Absent} \cup Foreign : reserve' = [reserve EXCEPT ![p] = o]
        BY <3>1, <4>2
      <4>3. QED
        BY <1>3, <4>1, <4>2 DEF OthersTakeReserve
    <3>2. CASE linked' = [linked EXCEPT ![p] = TRUE] /\ UNCHANGED reserve
      BY <3>2
    <3>3. QED
      BY <1>3, <3>1, <3>2 DEF OthersTakeReserve
  <2>2. QED
    BY <1>3, <2>1 DEF OthersTakeReserve
<1>4. ASSUME NEW p \in Procs, OthersTakeImage(p)
      PROVE  TypeOK'
  <2>1. staging' \in [Procs -> Directory]
    BY <1>4 DEF OthersTakeImage, Directory
  <2>2. QED
    BY <1>4, <2>1 DEF OthersTakeImage
<1>5. QED
  BY <1>1, <1>2, <1>3, <1>4 DEF OthersStep

\* Types are kept by every step.
LEMMA NextType == TypeOK /\ [Next]_vars => TypeOK'
<1> SUFFICES ASSUME TypeOK, [Next]_vars PROVE TypeOK'
  OBVIOUS
<1>1. CASE UNCHANGED vars
  BY <1>1 DEF TypeOK, vars, dataVars, control, target, given, contents
<1>2. ASSUME NEW p \in Procs, Export(p) \/ FailureStep(p)
      PROVE  TypeOK'
  BY <1>2, ReserveType, InheritType, WriteType, CommitType, CleanupType, FailureType
  DEF Export, Progress
<1>3. CASE (\E p \in Procs : OthersStep(p)) \/ OthersChangeOutput
  BY <1>3, OthersType
<1>4. QED
  BY <1>1, <1>2, <1>3 DEF Next

\* Every variable keeps its type, whatever fails and whoever meddles.
THEOREM TypeCorrect == Spec => []TypeOK
  BY InitType, NextType, PTL DEF Spec

-----------------------------------------------------------------------------
(***************************************************************************)
(* PublicationInv is inductive relative to TypeOK.  A step of one export   *)
(* other than Rename leaves the destination alone and touches nothing of   *)
(* another export, so it is enough to look at that export's own part.      *)
(***************************************************************************)
Own(p) == /\ WrittenIsComplete(p) /\ CommitIsNamed(p) /\ CommitIsVerified(p)
          /\ NeverHidden(p) /\ PublishedIsFinished(p) /\ ShownIsPublished(p)

LeavesOthers(p) ==
    /\ req' = req
    /\ \A q \in Procs \ {p} :
          /\ pc'[q] = pc[q] /\ pending'[q] = pending[q] /\ data'[q] = data[q]
          /\ fileAttr'[q] = fileAttr[q] /\ staging'[q] = staging[q] /\ outcome'[q] = outcome[q]

\* What an export knows is about its own part of the state and the destination.
LEMMA OwnFrame ==
  ASSUME NEW q \in Procs, Own(q), req' = req, out' = out,
         pc'[q] = pc[q], pending'[q] = pending[q], data'[q] = data[q],
         fileAttr'[q] = fileAttr[q], staging'[q] = staging[q], outcome'[q] = outcome[q]
  PROVE  Own(q)'
  BY DEF Own, WrittenIsComplete, CommitIsNamed, CommitIsVerified, NeverHidden,
         PublishedIsFinished, ShownIsPublished, HasPending, Named, Upload, InCommit, OwnFile

\* A step of one export that leaves the destination and the others alone keeps
\* the invariant if it keeps the part of that export.
LEMMA LocalStep ==
  ASSUME PublicationInv, NEW p \in Procs, UNCHANGED target, LeavesOthers(p), Own(p)'
  PROVE  PublicationInv'
<1>1. ASSUME NEW q \in Procs PROVE Own(q)'
  <2>1. CASE q = p
    BY <2>1
  <2>2. CASE q # p
    <3>1. Own(q)
      BY DEF PublicationInv, Own
    <3>2. QED
      BY <2>2, <3>1, OwnFrame DEF LeavesOthers, target
  <2>3. QED
    BY <2>1, <2>2
<1>2. QED
  BY <1>1 DEF PublicationInv, Own, target

(***************************************************************************)
(* A step that changes no data goes to l: what l may rely on must hold.    *)
(***************************************************************************)
LEMMA JumpStep ==
  ASSUME TypeOK, PublicationInv, NEW p \in Procs, NEW l, Goto(p, l), UNCHANGED dataVars,
         \A q \in Procs \ {p} : outcome'[q] = outcome[q],
         outcome'[p].published = outcome[p].published,
         l \in WrittenSteps /\ HasPending(p) => data[p] = Chunks,
         l \in CommitSteps => Named(p),
         l \in {"commitStat", "commitCtx", "rename"} => staging[p].image = OwnFile(p),
         l \in VisibleSteps => fileAttr[p] # "hidden",
         outcome[p].published => l \in EndSteps
  PROVE  PublicationInv'
<1>1. pc'[p] = l /\ \A q \in Procs \ {p} : pc'[q] = pc[q]
  BY DEF Goto, TypeOK
<1>2. LeavesOthers(p) /\ UNCHANGED target
  BY <1>1 DEF LeavesOthers, dataVars, target, given, contents
<1>3. Own(p)
  BY DEF PublicationInv, Own
<1>4. Own(p)'
  BY <1>1, <1>3
  DEF Own, WrittenIsComplete, CommitIsNamed, CommitIsVerified, NeverHidden, PublishedIsFinished,
      ShownIsPublished, HasPending, Named, Upload, InCommit, OwnFile, dataVars, target, given,
      contents
<1>5. QED
  BY <1>2, <1>4, LocalStep

\* Going to the removals keeps the invariant.
LEMMA AbortStep ==
  ASSUME TypeOK, PublicationInv, NEW p \in Procs, NEW l \in CleanupSteps, Goto(p, l),
         UNCHANGED dataVars,
         \A q \in Procs \ {p} : outcome'[q] = outcome[q],
         outcome'[p].published = outcome[p].published,
         outcome[p].published => l \in EndSteps
  PROVE  PublicationInv'
<1>1. l \notin VisibleSteps /\ l \notin WrittenSteps /\ l \notin CommitSteps
  BY DEF CleanupSteps, VisibleSteps, WrittenSteps, CommitSteps
<1>2. l \notin {"commitStat", "commitCtx", "rename"}
  BY <1>1 DEF CommitSteps
<1>3. QED
  BY <1>1, <1>2, JumpStep

\* A test keeps the invariant if it shows what the step behind it supposes.
LEMMA TestStep ==
  ASSUME TypeOK, PublicationInv, NEW p \in Procs, NEW l, NEW ok \in BOOLEAN, NEW next,
         Test(p, l, ok, next), l \notin EndSteps,
         ok => /\ next \in WrittenSteps /\ HasPending(p) => data[p] = Chunks
               /\ next \in CommitSteps => Named(p)
               /\ next \in {"commitStat", "commitCtx", "rename"} => staging[p].image = OwnFile(p)
               /\ next \in VisibleSteps => fileAttr[p] # "hidden"
  PROVE  PublicationInv'
<1>1. ~outcome[p].published
  BY DEF PublicationInv, PublishedIsFinished, Test, Check, At
<1>2. CASE ok
  BY <1>1, <1>2, JumpStep DEF Test, Check
<1>3. CASE ~ok
  <2>1. Abort(p, "unlinkImage") /\ UNCHANGED dataVars
    BY <1>3 DEF Test, Check
  <2>2. /\ outcome'[p].published = outcome[p].published
        /\ \A q \in Procs \ {p} : outcome'[q] = outcome[q]
    BY <2>1 DEF Abort, TypeOK, Outcome
  <2>3. QED
    BY <2>1, <2>2, AbortStep DEF Abort, CleanupSteps, EndSteps
<1>4. QED
  BY <1>2, <1>3

\* Where a check leads to, and that it publishes nothing.
LEMMA CheckFacts ==
  ASSUME TypeOK, NEW p \in Procs, NEW l, NEW ok \in BOOLEAN, NEW next, Check(p, l, ok, next)
  PROVE  /\ pc[p] = l /\ pc'[p] \in {next, "unlinkImage"}
         /\ outcome'[p].published = outcome[p].published
  BY DEF Check, At, Goto, Abort, TypeOK, Outcome

\* Nothing is written or shown while staging is made.
LEMMA ReserveSafe ==
  ASSUME TypeOK, PublicationInv, NEW p \in Procs, ReserveStep(p)
  PROVE  PublicationInv'
<1> USE DEF WrittenSteps, CommitSteps, VisibleSteps, EndSteps
<1>a. Own(p)
  BY DEF PublicationInv, Own
<1>1. CASE Start(p)
  <2>1. fileAttr[p] # "hidden"
    BY <1>1, <1>a DEF Start, Test, Check, At, Own, NeverHidden
  <2>2. QED
    BY <1>1, <2>1, TestStep DEF Start
<1>2. CASE ReserveParent(p)
  <2>1. LeavesOthers(p) /\ UNCHANGED target
    BY <1>2 DEF ReserveParent, Check, At, Goto, Abort, TypeOK, LeavesOthers, given, contents
  <2>2. pc'[p] \in {"replaceable", "mkdir", "unlinkImage"} /\ ~outcome'[p].published
    <3> DEFINE next == IF Named(p) /\ IsRegular(out) THEN "replaceable" ELSE "mkdir"
    <3>1. Check(p, "reserve", Named(p) => RegularOrAbsent(out), next)
      BY <1>2 DEF ReserveParent
    <3>2. next \in {"replaceable", "mkdir"}
      OBVIOUS
    <3> HIDE DEF next
    <3>3. /\ pc[p] = "reserve" /\ pc'[p] \in {next, "unlinkImage"}
          /\ outcome'[p].published = outcome[p].published
      BY <3>1, CheckFacts
    <3>4. QED
      BY <3>2, <3>3, <1>a DEF Own, PublishedIsFinished
  <2>3. pending'[p].attr # "hidden"
    BY <1>2 DEF ReserveParent, TypeOK, PendingArtifact, PublicationInv
  <2>4. out.owner # p
    BY <1>2, <1>a DEF ReserveParent, Check, At, Own, ShownIsPublished, PublishedIsFinished
  <2>5. QED
    BY <2>1, <2>2, <2>3, <2>4, LocalStep
    DEF Own, WrittenIsComplete, CommitIsNamed, CommitIsVerified, NeverHidden,
        PublishedIsFinished, ShownIsPublished, InCommit, target
<1>3. CASE CheckReplaceable(p)
  BY <1>3, TestStep DEF CheckReplaceable
<1>4. CASE MakeStage(p)
  <2>1. LeavesOthers(p) /\ UNCHANGED target
    BY <1>4 DEF MakeStage, Move, Goto, TypeOK, LeavesOthers, given, contents
  <2>2. QED
    BY <1>4, <1>a, <2>1, LocalStep
    DEF MakeStage, Move, At, Goto, TypeOK, Own, WrittenIsComplete, CommitIsNamed,
        CommitIsVerified, NeverHidden, PublishedIsFinished, ShownIsPublished, InCommit, target
<1>5. CASE StatStage(p)
  <2>1. LeavesOthers(p) /\ UNCHANGED target
    BY <1>5 DEF StatStage, Check, At, Goto, Abort, TypeOK, LeavesOthers, given, contents
  <2>2. pc'[p] \in {"openStage", "unlinkImage"} /\ ~outcome'[p].published
    BY <1>5, <1>a DEF StatStage, Check, At, Goto, Abort, TypeOK, Outcome, Own, PublishedIsFinished
  <2>3. pending'[p].attr = pending[p].attr
    BY <1>5 DEF StatStage, TypeOK, PendingArtifact
  <2>4. out.owner # p
    BY <1>5, <1>a DEF StatStage, Check, At, Own, ShownIsPublished, PublishedIsFinished
  <2>5. QED
    BY <1>a, <2>1, <2>2, <2>3, <2>4, LocalStep
    DEF Own, WrittenIsComplete, CommitIsNamed, CommitIsVerified, NeverHidden,
        PublishedIsFinished, ShownIsPublished, InCommit, target
<1>6. CASE OpenStage(p)
  <2>1. LeavesOthers(p) /\ UNCHANGED target
    BY <1>6 DEF OpenStage, Check, At, Goto, Abort, TypeOK, LeavesOthers, given, contents
  <2>2. pc'[p] \in {"createImage", "unlinkImage"} /\ ~outcome'[p].published
    BY <1>6, <1>a DEF OpenStage, Check, At, Goto, Abort, TypeOK, Outcome, Own, PublishedIsFinished
  <2>3. pending'[p].attr = pending[p].attr
    BY <1>6 DEF OpenStage, TypeOK, PendingArtifact
  <2>4. out.owner # p
    BY <1>6, <1>a DEF OpenStage, Check, At, Own, ShownIsPublished, PublishedIsFinished
  <2>5. QED
    BY <1>a, <2>1, <2>2, <2>3, <2>4, LocalStep
    DEF Own, WrittenIsComplete, CommitIsNamed, CommitIsVerified, NeverHidden,
        PublishedIsFinished, ShownIsPublished, InCommit, target
<1>7. CASE CreateImage(p)
  <2>1. LeavesOthers(p) /\ UNCHANGED target
    BY <1>7 DEF CreateImage, Move, Goto, TypeOK, LeavesOthers, given
  <2>2. pc'[p] \in {"reserveName", "restore"} /\ ~outcome'[p].published
    BY <1>7, <1>a DEF CreateImage, Move, At, Goto, TypeOK, Own, PublishedIsFinished
  <2>3. pending'[p].attr = pending[p].attr /\ fileAttr'[p] = "default"
    BY <1>7 DEF CreateImage, TypeOK, PendingArtifact
  <2>4. out.owner # p
    BY <1>7, <1>a DEF CreateImage, Move, At, Own, ShownIsPublished, PublishedIsFinished
  <2>5. QED
    BY <1>a, <2>1, <2>2, <2>3, <2>4, LocalStep
    DEF Own, WrittenIsComplete, CommitIsNamed, CommitIsVerified, NeverHidden,
        PublishedIsFinished, ShownIsPublished, InCommit, target
<1>8. CASE RestoreAttrs(p)
  <2>1. LeavesOthers(p) /\ UNCHANGED target
    BY <1>8 DEF RestoreAttrs, Restore, Move, Goto, TypeOK, LeavesOthers, given
  <2>2. pc[p] = "restore" /\ pc'[p] = "prepare" /\ UNCHANGED <<pending, data, staging, outcome>>
    BY <1>8 DEF RestoreAttrs, Restore, Move, At, Goto, TypeOK
  <2>3. fileAttr'[p] # "hidden"
    BY <1>8, <1>a DEF RestoreAttrs, Restore, Move, At, TypeOK, Own, NeverHidden
  <2>4. QED
    BY <1>a, <2>1, <2>2, <2>3, LocalStep
    DEF Own, WrittenIsComplete, CommitIsNamed, CommitIsVerified, NeverHidden,
        PublishedIsFinished, ShownIsPublished, InCommit, target
<1>9. QED
  BY <1>1, <1>2, <1>3, <1>4, <1>5, <1>6, <1>7, <1>8 DEF ReserveStep

\* Nothing is written or shown while the group and the ACL are taken over.
LEMMA InheritSafe ==
  ASSUME TypeOK, PublicationInv, NEW p \in Procs, InheritStep(p)
  PROVE  PublicationInv'
<1> USE DEF WrittenSteps, CommitSteps, VisibleSteps, EndSteps
<1>a. Own(p)
  BY DEF PublicationInv, Own
<1>1. CASE ReserveName(p)
  <2>1. LeavesOthers(p) /\ UNCHANGED target
    BY <1>1 DEF ReserveName, Move, Goto, TypeOK, LeavesOthers, given
  <2>2. pc[p] = "reserveName" /\ pc'[p] = "reserveInfo" /\ UNCHANGED <<pending, staging, outcome>>
    BY <1>1 DEF ReserveName, Move, At, Goto, TypeOK
  <2>3. QED
    BY <1>a, <2>1, <2>2, LocalStep
    DEF Own, WrittenIsComplete, CommitIsNamed, CommitIsVerified, NeverHidden,
        PublishedIsFinished, ShownIsPublished, InCommit, target
<1>2. CASE ReserveInfo(p)
  BY <1>2, TestStep DEF ReserveInfo
<1>3. CASE MoveIn(p)
  <2>1. LeavesOthers(p) /\ UNCHANGED target
    BY <1>3 DEF MoveIn, Move, Goto, TypeOK, LeavesOthers, given, contents
  <2>2. pc[p] = "moveIn" /\ pc'[p] = "checkMoved" /\ UNCHANGED <<pending, outcome>>
    BY <1>3 DEF MoveIn, Move, At, Goto, TypeOK
  <2>3. QED
    BY <1>a, <2>1, <2>2, LocalStep
    DEF Own, WrittenIsComplete, CommitIsNamed, CommitIsVerified, NeverHidden,
        PublishedIsFinished, ShownIsPublished, InCommit, target
<1>4. CASE CheckMoved(p)
  <2>1. LeavesOthers(p) /\ UNCHANGED target
    BY <1>4 DEF CheckMoved, Move, Goto, TypeOK, LeavesOthers, given
  <2>2. /\ pc[p] = "checkMoved" /\ pc'[p] = "adopt" /\ fileAttr'[p] = "default"
        /\ UNCHANGED <<pending, outcome>>
    BY <1>4 DEF CheckMoved, Move, At, Goto, TypeOK
  <2>3. QED
    BY <1>a, <2>1, <2>2, LocalStep
    DEF Own, WrittenIsComplete, CommitIsNamed, CommitIsVerified, NeverHidden,
        PublishedIsFinished, ShownIsPublished, InCommit, target
<1>5. CASE Adopt(p)
  <2>1. LeavesOthers(p) /\ UNCHANGED target
    BY <1>5 DEF Adopt, Move, Goto, TypeOK, LeavesOthers, given, contents
  <2>2. /\ pc[p] = "adopt" /\ pc'[p] = "restore" /\ UNCHANGED <<fileAttr, outcome>>
        /\ pending'[p].attr = pending[p].attr
    BY <1>5 DEF Adopt, Move, At, Goto, TypeOK, PendingArtifact, contents
  <2>3. QED
    BY <1>a, <2>1, <2>2, LocalStep
    DEF Own, WrittenIsComplete, CommitIsNamed, CommitIsVerified, NeverHidden,
        PublishedIsFinished, ShownIsPublished, InCommit, target
<1>6. CASE DropCheck(p)
  BY <1>6, TestStep DEF DropCheck
<1>7. CASE DropUnlink(p) \/ DropInherited(p)
  <2>1. LeavesOthers(p) /\ UNCHANGED target
    BY <1>7 DEF DropUnlink, DropInherited, Move, Goto, TypeOK, LeavesOthers, given, contents
  <2>2. /\ pc[p] \in {"dropUnlink", "dropInherited"} /\ pc'[p] = "unlinkImage"
        /\ UNCHANGED <<pending, outcome>>
    BY <1>7 DEF DropUnlink, DropInherited, Move, At, Goto, TypeOK
  <2>3. QED
    BY <1>a, <2>1, <2>2, LocalStep
    DEF Own, WrittenIsComplete, CommitIsNamed, CommitIsVerified, NeverHidden,
        PublishedIsFinished, ShownIsPublished, InCommit, target
<1>8. QED
  BY <1>1, <1>2, <1>3, <1>4, <1>5, <1>6, <1>7 DEF InheritStep

\* Past the last chunk the file is complete, and has its final attributes.
LEMMA WriteSafe ==
  ASSUME TypeOK, PublicationInv, NEW p \in Procs, WriteStep(p) \/ StdoutStep(p)
  PROVE  PublicationInv'
<1> USE DEF WrittenSteps, CommitSteps, VisibleSteps, EndSteps
<1>a. Own(p)
  BY DEF PublicationInv, Own
<1>b. pc[p] \in VisibleSteps => fileAttr[p] # "hidden"
  BY <1>a DEF Own, NeverHidden
<1>c. pc[p] \in WrittenSteps /\ HasPending(p) => data[p] = Chunks
  BY <1>a DEF Own, WrittenIsComplete
<1>1. CASE Prepare(p)
  BY <1>1, <1>b, TestStep DEF Prepare, Test, Check, At
<1>2. CASE WriteChunk(p)
  <2>1. LeavesOthers(p) /\ UNCHANGED target
    BY <1>2 DEF WriteChunk, Append1, TypeOK, LeavesOthers, given, control
  <2>2. pc[p] = "write" /\ UNCHANGED <<pc, pending, staging, fileAttr, outcome>>
    BY <1>2 DEF WriteChunk, Append1, At, control
  <2>3. QED
    BY <1>a, <2>1, <2>2, LocalStep
    DEF Own, WrittenIsComplete, CommitIsNamed, CommitIsVerified, NeverHidden,
        PublishedIsFinished, ShownIsPublished, InCommit, target
<1>3. CASE CloseWriter(p)
  <2>1. HasPending(p) => data[p] = Chunks
    BY <1>3 DEF CloseWriter
  <2>2. fileAttr[p] # "hidden"
    BY <1>3, <1>b DEF CloseWriter, Test, Check, At
  <2>3. QED
    BY <1>3, <2>1, <2>2, TestStep DEF CloseWriter
<1>4. CASE VerifyWritten(p)
  <2>1. AfterWritten(p) \in {"copyOut", "ctxAfterUpload", "ingest"} /\ Verified(p) \in BOOLEAN
    BY DEF AfterWritten, Verified
  <2>2. QED
    BY <1>4, <2>1, <1>b, <1>c, TestStep DEF VerifyWritten, Test, Check, At
<1>5. CASE CopyDone(p)
  BY <1>5, <1>b, <1>c, TestStep DEF CopyDone, Test, Check, At
<1>6. CASE Ingest(p)
  <2>1. /\ outcome'[p].published = outcome[p].published
        /\ \A q \in Procs \ {p} : outcome'[q] = outcome[q]
    BY <1>6 DEF Ingest, TypeOK, Outcome
  <2>2. ~outcome[p].published
    BY <1>6, <1>a DEF Ingest, At, Own, PublishedIsFinished
  <2>3. QED
    BY <1>6, <2>1, <2>2, <1>b, <1>c, JumpStep DEF Ingest, At
<1>7. CASE CtxAfterUpload(p)
  BY <1>7, <1>b, <1>c, TestStep DEF CtxAfterUpload, Test, Check, At, TypeOK
<1>8. CASE CloseFile(p)
  BY <1>8, <1>b, <1>c, TestStep DEF CloseFile, Test, Check, At
<1>9. CASE VerifyClosed(p)
  BY <1>9, <1>b, <1>c, TestStep DEF VerifyClosed, Verified, Test, Check, At
<1>10. CASE CtxBeforeCommit(p)
  <2>1. fileAttr[p] # "hidden" /\ (HasPending(p) => data[p] = Chunks)
    BY <1>10, <1>b, <1>c DEF CtxBeforeCommit, Test, Check, At
  <2>2. CASE Named(p)
    BY <1>10, <2>1, <2>2, TestStep DEF CtxBeforeCommit, TypeOK
  <2>3. CASE ~Named(p) /\ Upload(p)
    BY <1>10, <2>1, <2>3, TestStep DEF CtxBeforeCommit, TypeOK
  <2>4. CASE ~Named(p) /\ ~Upload(p)
    BY <1>10, <2>1, <2>4, TestStep DEF CtxBeforeCommit, TypeOK
  <2>5. QED
    BY <2>2, <2>3, <2>4
<1>11. CASE StreamChunk(p) \/ CopyChunk(p)
  <2>1. LeavesOthers(p) /\ UNCHANGED target
    BY <1>11 DEF StreamChunk, CopyChunk, Stream, LeavesOthers, given, control
  <2>2. out' = out /\ req' = req /\ UNCHANGED <<pc, pending, data, fileAttr, staging, outcome>>
    BY <1>11 DEF StreamChunk, CopyChunk, Stream, control, target, given
  <2>3. Own(p)'
    BY <1>a, <2>2, OwnFrame
  <2>4. QED
    BY <2>1, <2>3, LocalStep
<1>12. CASE PrintKey(p)
  <2>1. /\ outcome'[p].published = outcome[p].published
        /\ \A q \in Procs \ {p} : outcome'[q] = outcome[q]
    BY <1>12 DEF PrintKey, TypeOK, Outcome
  <2>2. QED
    BY <1>12, <2>1, JumpStep DEF PrintKey, At
<1>13. QED
  BY <1>1, <1>2, <1>3, <1>4, <1>5, <1>6, <1>7, <1>8, <1>9, <1>10, <1>11, <1>12
  DEF WriteStep, StdoutStep

\* The one step that changes the destination shows the finished file.
LEMMA RenameSafe ==
  ASSUME TypeOK, PublicationInv, NEW p \in Procs, Rename(p)
  PROVE  PublicationInv'
<1> USE DEF WrittenSteps, CommitSteps, VisibleSteps, EndSteps
<1>a. Own(p)
  BY DEF PublicationInv, Own
<1>1. /\ pc[p] = "rename" /\ pc'[p] \in {"printKey", "unlinkImage"}
      /\ out' = staging[p].image /\ outAttr' = fileAttr[p]
      /\ outcome'[p].published
      /\ UNCHANGED <<pending, data, fileAttr, req>>
  BY DEF Rename, At, Goto, TypeOK, Outcome, contents, given
<1>2. fileAttr[p] # "hidden" /\ data[p] = Chunks /\ staging[p].image = OwnFile(p)
  BY <1>a, <1>1
  DEF Own, NeverHidden, WrittenIsComplete, CommitIsNamed, CommitIsVerified, HasPending, InCommit
<1>3. Own(p)'
  BY <1>a, <1>1, <1>2
  DEF Own, WrittenIsComplete, CommitIsNamed, CommitIsVerified, NeverHidden,
      PublishedIsFinished, ShownIsPublished, InCommit, OwnFile
<1>4. LeavesOthers(p)
  BY DEF Rename, Goto, TypeOK, LeavesOthers, given, contents
<1>5. ASSUME NEW q \in Procs \ {p} PROVE Own(q)'
  <2>1. Own(q)
    BY DEF PublicationInv, Own
  <2>2. out'.owner # q
    BY <1>1, <1>2 DEF OwnFile, Inherited, ImageFile
  <2>3. QED
    BY <2>1, <2>2, <1>4
    DEF LeavesOthers, Own, WrittenIsComplete, CommitIsNamed, CommitIsVerified, NeverHidden,
        PublishedIsFinished, ShownIsPublished, InCommit, OwnFile, HasPending, Named, Upload
<1>6. QED
  BY <1>1, <1>2, <1>3, <1>5 DEF PublicationInv, Own

\* The rename shows the export's own file, as it was verified.
LEMMA CommitSafe ==
  ASSUME TypeOK, PublicationInv, NEW p \in Procs, CommitStep(p)
  PROVE  PublicationInv'
<1> USE DEF WrittenSteps, CommitSteps, VisibleSteps, EndSteps
<1>a. Own(p)
  BY DEF PublicationInv, Own
<1>b. pc[p] \in CommitSteps => /\ fileAttr[p] # "hidden" /\ Named(p)
                               /\ HasPending(p) => data[p] = Chunks
  BY <1>a DEF Own, NeverHidden, WrittenIsComplete, CommitIsNamed
<1>c. InCommit(p) => staging[p].image = OwnFile(p)
  BY <1>a DEF Own, CommitIsVerified
<1>1. CASE CommitVerify(p)
  BY <1>1, <1>b, TestStep DEF CommitVerify, Verified, Test, Check, At
<1>2. CASE CommitStat(p)
  BY <1>2, <1>b, <1>c, TestStep DEF CommitStat, RegularOrAbsent, InCommit, Test, Check, At
<1>3. CASE CommitCtx(p)
  BY <1>3, <1>b, <1>c, TestStep DEF CommitCtx, InCommit, Test, Check, At, TypeOK
<1>4. CASE Rename(p)
  BY <1>4, RenameSafe
<1>5. QED
  BY <1>1, <1>2, <1>3, <1>4 DEF CommitStep

\* The removals leave what is published alone.
LEMMA CleanupSafe ==
  ASSUME TypeOK, PublicationInv, NEW p \in Procs, CleanupStep(p)
  PROVE  PublicationInv'
<1> USE DEF WrittenSteps, CommitSteps, VisibleSteps, EndSteps
<1>a. Own(p)
  BY DEF PublicationInv, Own
<1>1. CASE UnlinkImage(p)
  <2>1. LeavesOthers(p) /\ UNCHANGED target
    BY <1>1 DEF UnlinkImage, Move, Goto, TypeOK, LeavesOthers, given, contents
  <2>2. /\ pc[p] = "unlinkImage" /\ pc'[p] \in {"statDir", "report"}
        /\ UNCHANGED <<pending, data, fileAttr, outcome>>
    BY <1>1 DEF UnlinkImage, AfterUnlink, Move, At, Goto, TypeOK, contents
  <2>3. QED
    BY <1>a, <2>1, <2>2, LocalStep
    DEF Own, WrittenIsComplete, CommitIsNamed, CommitIsVerified, NeverHidden,
        PublishedIsFinished, ShownIsPublished, InCommit, OwnFile, target
<1>2. CASE StatDir(p)
  <2>1. PICK l \in {"rmdir", "report"} : Goto(p, l) /\ UNCHANGED <<outcome, dataVars>>
    BY <1>2 DEF StatDir, Test, Check
  <2>2. QED
    BY <2>1, JumpStep
<1>3. CASE Rmdir(p)
  <2>1. LeavesOthers(p) /\ UNCHANGED target
    BY <1>3 DEF Rmdir, RemoveStage, Move, Goto, TypeOK, LeavesOthers, given, contents
  <2>2. /\ pc[p] = "rmdir" /\ pc'[p] = "report"
        /\ UNCHANGED <<pending, data, fileAttr, staging, outcome>>
    BY <1>3 DEF Rmdir, RemoveStage, Move, At, Goto, TypeOK, contents
  <2>3. QED
    BY <1>a, <2>1, <2>2, LocalStep
    DEF Own, WrittenIsComplete, CommitIsNamed, CommitIsVerified, NeverHidden,
        PublishedIsFinished, ShownIsPublished, InCommit, OwnFile, target
<1>4. CASE Report(p)
  <2>1. /\ outcome'[p].published = outcome[p].published
        /\ \A q \in Procs \ {p} : outcome'[q] = outcome[q]
    BY <1>4 DEF Report, Exit, TypeOK, Outcome
  <2>2. QED
    BY <1>4, <2>1, JumpStep DEF Report, Exit
<1>5. QED
  BY <1>1, <1>2, <1>3, <1>4 DEF CleanupStep

\* Errors, signals and death publish nothing.
LEMMA FailureSafe ==
  ASSUME TypeOK, PublicationInv, NEW p \in Procs, FailureStep(p)
  PROVE  PublicationInv'
<1>a. Own(p)
  BY DEF PublicationInv, Own
<1>1. CASE StepFails(p)
  <2>1. /\ outcome'[p].published = outcome[p].published
        /\ \A q \in Procs \ {p} : outcome'[q] = outcome[q]
    BY <1>1 DEF StepFails, TypeOK, Outcome
  <2>2. outcome[p].published => pc[p] = "printKey"
    BY <1>1, <1>a DEF StepFails, BodySteps, Own, PublishedIsFinished, EndSteps
  <2>3. /\ ErrorExit(pc[p]) \in CleanupSteps
        /\ outcome[p].published => ErrorExit(pc[p]) \in EndSteps
    BY <2>2 DEF ErrorExit, CleanupSteps, EndSteps
  <2>4. QED
    BY <1>1, <2>1, <2>3, AbortStep DEF StepFails
<1>2. CASE CleanupFails(p)
  <2>1. /\ outcome'[p].published = outcome[p].published
        /\ \A q \in Procs \ {p} : outcome'[q] = outcome[q]
    BY <1>2 DEF CleanupFails, TypeOK, Outcome
  <2>2. PICK l \in {"unlinkImage", "statDir", "report"} : Goto(p, l)
    BY <1>2 DEF CleanupFails, AfterUnlink
  <2>3. l \in CleanupSteps /\ l \in EndSteps
    BY DEF CleanupSteps, EndSteps
  <2>4. QED
    BY <1>2, <2>1, <2>2, <2>3, AbortStep DEF CleanupFails
<1>3. CASE Cancel(p) \/ RestoreSignals(p)
  <2>0. UNCHANGED <<control, target, staging, req, pending, contents>>
    BY <1>3 DEF Cancel, RestoreSignals, Restoring
  <2>1. LeavesOthers(p) /\ UNCHANGED target
    BY <2>0 DEF LeavesOthers, control, contents
  <2>2. Own(p)'
    BY <2>0, <1>a, OwnFrame DEF control, contents, target
  <2>3. QED
    BY <2>1, <2>2, LocalStep
<1>4. CASE SecondSignal(p) \/ Crash(p)
  <2>1. Goto(p, "killed") /\ UNCHANGED <<outcome, dataVars>>
    BY <1>4 DEF SecondSignal, Crash, Die
  <2>2. QED
    BY <2>1, JumpStep DEF WrittenSteps, CommitSteps, VisibleSteps, EndSteps
<1>5. QED
  BY <1>1, <1>2, <1>3, <1>4 DEF FailureStep, SignalStep

\* Others may take the destination, but do not give it an export's file.
LEMMA OthersSafe ==
  ASSUME TypeOK, PublicationInv, (\E p \in Procs : OthersStep(p)) \/ OthersChangeOutput
  PROVE  PublicationInv'
<1>a. \A q \in Procs : Own(q)
  BY DEF PublicationInv, Own
<1>1. CASE OthersChangeOutput
  <2>1. out' = out \/ out'.owner = Others
    BY <1>1 DEF OthersChangeOutput, Absent, Foreign
  <2>2. outAttr' # "hidden"
    BY <1>1 DEF OthersChangeOutput
  <2>3. ASSUME NEW q \in Procs PROVE Own(q)'
    BY <1>a, <1>1, <2>1, OthersAssumption
    DEF OthersChangeOutput, Meddle, control, contents, Own, WrittenIsComplete, CommitIsNamed,
        CommitIsVerified, NeverHidden, PublishedIsFinished, ShownIsPublished, InCommit, OwnFile,
        HasPending, Named, Upload
  <2>4. QED
    BY <2>2, <2>3 DEF PublicationInv, Own
<1>2. ASSUME NEW p \in Procs, OthersStep(p)
      PROVE  PublicationInv'
  <2>1. /\ UNCHANGED <<target, control, req, pending, contents>>
        /\ \A q \in Procs : InCommit(q) => staging'[q].image = staging[q].image
    <3>1. CASE OthersTakeStage(p) \/ OthersTakeReserve(p)
      BY <3>1 DEF OthersTakeStage, OthersTakeReserve, Meddle, MeddleWith
    <3>2. CASE OthersTakeImage(p)
      BY <3>2 DEF OthersTakeImage, Meddle, MeddleWith, TypeOK
    <3>3. QED
      BY <1>2, <3>1, <3>2 DEF OthersStep
  <2>2. ASSUME NEW q \in Procs PROVE Own(q)'
    BY <1>a, <2>1
    DEF target, control, contents, Own, WrittenIsComplete, CommitIsNamed, CommitIsVerified,
        NeverHidden, PublishedIsFinished, ShownIsPublished, InCommit, OwnFile, HasPending,
        Named, Upload
  <2>3. QED
    BY <2>1, <2>2 DEF PublicationInv, Own, target
<1>3. QED
  BY <1>1, <1>2

\* Nothing is published at first.
LEMMA InitSafe == Init => PublicationInv
  BY OthersAssumption
  DEF Init, PublicationInv, WrittenIsComplete, CommitIsNamed, CommitIsVerified, NeverHidden,
      PublishedIsFinished, ShownIsPublished, InCommit, Absent, WrittenSteps, CommitSteps

\* PublicationInv is inductive, given the types.
LEMMA NextSafe == TypeOK /\ PublicationInv /\ [Next]_vars => PublicationInv'
<1> SUFFICES ASSUME TypeOK, PublicationInv, [Next]_vars PROVE PublicationInv'
  OBVIOUS
<1>1. CASE UNCHANGED vars
  <2>1. ASSUME NEW q \in Procs PROVE Own(q)'
    BY <1>1, OwnFrame DEF PublicationInv, Own, vars, dataVars, control, target, given, contents
  <2>2. QED
    BY <1>1, <2>1 DEF PublicationInv, Own, vars, dataVars, target
<1>2. ASSUME NEW p \in Procs, Export(p) \/ FailureStep(p)
      PROVE  PublicationInv'
  BY <1>2, ReserveSafe, InheritSafe, WriteSafe, CommitSafe, CleanupSafe, FailureSafe
  DEF Export, Progress
<1>3. CASE (\E p \in Procs : OthersStep(p)) \/ OthersChangeOutput
  BY <1>3, OthersSafe
<1>4. QED
  BY <1>1, <1>2, <1>3 DEF Next

\* What each part of the program relies on holds in every reachable state.
THEOREM PublicationSafe == Spec => []PublicationInv
  BY TypeCorrect, InitSafe, NextSafe, PTL DEF Spec

\* A destination never shows a partial, replaced or hidden artifact, however
\* many exports share it and wherever they fail or die.
THEOREM NoPartialOutputCorrect == Spec => []NoPartialOutput
<1>1. PublicationInv => NoPartialOutput
  BY DEF PublicationInv, NoPartialOutput, PublishedIsFinished, ShownIsPublished
<1>2. QED
  BY <1>1, PublicationSafe, PTL

-----------------------------------------------------------------------------
(***************************************************************************)
(* The inductive invariant: what each part of the program has done for the *)
(* report that ends it.                                                    *)
(***************************************************************************)
EarlySteps     == {"start", "reserve", "replaceable", "mkdir", "statStage", "openStage",
                   "createImage", "reserveName", "reserveInfo", "moveIn", "checkMoved", "adopt",
                   "restore", "prepare", "write"}
PendingSteps   == {"verifyWritten", "copyOut", "ingest"}
UploadedSteps  == {"ctxAfterUpload", "closeFile", "verifyClosed", "ctxBeforeCommit",
                   "commitVerify", "commitStat", "commitCtx", "rename", "printKey"}
RemovalSteps   == {"unlinkImage", "statDir", "rmdir", "report"}
DropSteps      == {"dropCheck", "dropUnlink", "dropInherited"}

Streamed(p)  == req[p].dest = "stdout" => streamed[p] = Chunks
Delivered(p) == Streamed(p) /\ (Upload(p) => outcome[p].ingested)
Shows(p)     == Named(p) => outcome[p].published
Success(p)   == Delivered(p) /\ Shows(p) /\ (Upload(p) => outcome[p].key)

KeyAndResultLast(p)     == /\ outcome[p].key => pc[p] \in EndSteps
                           /\ outcome[p].result # "none" => pc[p] = "done"
UploadIsComplete(p)     == /\ pc[p] \in PendingSteps => HasPending(p)
                           /\ pc[p] = "ingest" => Streamed(p)
                           /\ pc[p] \in UploadedSteps => Delivered(p)
KeyIsDue(p)             == /\ pc[p] = "printKey" => Upload(p) /\ Shows(p)
                           /\ outcome[p].key => Upload(p) /\ Delivered(p) /\ Shows(p)
PublishedIsAsked(p)     == outcome[p].published => /\ Named(p) /\ outcome[p].committed
                                                   /\ Upload(p) => outcome[p].ingested
                                                   /\ outcome[p].err => Upload(p)
NoErrorIsSuccess(p)     == /\ pc[p] \in RemovalSteps /\ ~outcome[p].err => Success(p)
                           /\ pc[p] \in DropSteps => outcome[p].err
                           /\ pc[p] \in BodySteps => ~outcome[p].err
ResultIsTrue(p)         == /\ outcome[p].result = "ok" => Success(p)
                           /\ outcome[p].result = "error" /\ ~Upload(p) => ~outcome[p].published

Reported(p) == /\ KeyAndResultLast(p) /\ UploadIsComplete(p) /\ KeyIsDue(p)
               /\ PublishedIsAsked(p) /\ NoErrorIsSuccess(p) /\ ResultIsTrue(p)

ReportInv == \A p \in Procs : Reported(p)

\* A step of p that AtomicOutput does not see.
Quiet(p) == /\ out' = out /\ req' = req
            /\ ~Terminated(p) /\ pc'[p] \notin {"done", "killed"}
            /\ outcome'[p].published = outcome[p].published
            /\ \A q \in Procs \ {p} : pc'[q] = pc[q] /\ outcome'[q] = outcome[q]

\* Before it starts an export has nothing to report.
LEMMA InitReport == Init => ReportInv
<1> SUFFICES ASSUME Init, NEW p \in Procs PROVE Reported(p)
  BY DEF ReportInv
<1>1. /\ pc[p] = "start" /\ ~outcome[p].key /\ ~outcome[p].published /\ ~outcome[p].err
      /\ outcome[p].result = "none"
  BY DEF Init
<1>2. QED
  BY <1>1 DEF Reported, KeyAndResultLast, UploadIsComplete, KeyIsDue, PublishedIsAsked,
              NoErrorIsSuccess, ResultIsTrue, PendingSteps, UploadedSteps, RemovalSteps, DropSteps

\* Which sets of steps overlap.
LEMMA StepsApart ==
    /\ EarlySteps \cup PendingSteps \subseteq BodySteps
    /\ UploadedSteps \subseteq BodySteps
    /\ RemovalSteps \cup DropSteps \subseteq CleanupSteps
    /\ BodySteps \cap CleanupSteps = {}
    /\ (EarlySteps \cup PendingSteps) \cap EndSteps = {}
    /\ EarlySteps \cap (PendingSteps \cup UploadedSteps) = {}
    /\ PendingSteps \cap UploadedSteps = {}
    /\ BodySteps \cap EndSteps = {"printKey"}
    /\ {"done", "killed"} \cap (BodySteps \cup CleanupSteps) = {}
  BY DEF EarlySteps, PendingSteps, UploadedSteps, RemovalSteps, DropSteps, BodySteps,
         CleanupSteps, EndSteps

\* What a process reports depends on its own part of these variables.
LEMMA ReportFrame ==
  ASSUME ReportInv, NEW p \in Procs, Reported(p)', req' = req,
         \A q \in Procs \ {p} : /\ pc'[q] = pc[q] /\ outcome'[q] = outcome[q]
                                /\ streamed'[q] = streamed[q]
  PROVE  ReportInv'
<1>1. ASSUME NEW q \in Procs \ {p} PROVE Reported(q)'
  <2>1. Reported(q)
    BY DEF ReportInv
  <2>2. QED
    BY <2>1 DEF Reported, KeyAndResultLast, UploadIsComplete, KeyIsDue, PublishedIsAsked,
                NoErrorIsSuccess, ResultIsTrue, Success, Delivered, Streamed, Shows, Named,
                Upload, HasPending
<1>2. QED
  BY <1>1 DEF ReportInv

(***************************************************************************)
(* The forms a step takes before anything was published.                   *)
(***************************************************************************)
LEMMA Unreported ==
  ASSUME PublicationInv, ReportInv, NEW p \in Procs, pc[p] \in BodySteps \ {"printKey"}
  PROVE  /\ ~outcome[p].key /\ ~outcome[p].published /\ ~outcome[p].err
         /\ outcome[p].result = "none"
<1>1. pc[p] \notin EndSteps /\ pc[p] # "done"
  BY StepsApart
<1>2. KeyAndResultLast(p) /\ NoErrorIsSuccess(p) /\ PublishedIsFinished(p)
  BY DEF ReportInv, Reported, PublicationInv
<1>3. QED
  BY <1>1, <1>2 DEF KeyAndResultLast, NoErrorIsSuccess, PublishedIsFinished

\* A step on to another one.
LEMMA GotoReport ==
  ASSUME TypeOK, PublicationInv, ReportInv, NEW p \in Procs, NEW to, Goto(p, to),
         pc[p] \in BodySteps \ {"printKey"}, UNCHANGED <<out, outcome, req, streamed>>,
         \/ to \in EarlySteps
         \/ to \in PendingSteps /\ HasPending(p) /\ (to = "ingest" => Streamed(p))
         \/ to \in UploadedSteps \ {"printKey"} /\ Delivered(p)
         \/ to = "printKey" /\ Delivered(p) /\ ~Named(p) /\ Upload(p)
         \/ to = "unlinkImage" /\ Delivered(p) /\ ~Named(p) /\ ~Upload(p)
  PROVE  ReportInv' /\ Quiet(p)
<1>1. /\ ~outcome[p].key /\ ~outcome[p].published /\ ~outcome[p].err
      /\ outcome[p].result = "none"
  BY Unreported
<1>2. /\ pc'[p] = to
      /\ \A q \in Procs \ {p} : pc'[q] = pc[q] /\ outcome'[q] = outcome[q]
                                                /\ streamed'[q] = streamed[q]
  BY DEF Goto, TypeOK
<1>3. Reported(p)'
  BY <1>1, <1>2
  DEF Reported, KeyAndResultLast, UploadIsComplete, KeyIsDue, PublishedIsAsked, NoErrorIsSuccess,
      ResultIsTrue, Success, Delivered, Streamed, Shows, Named, Upload, HasPending,
      EarlySteps, PendingSteps, UploadedSteps, RemovalSteps, DropSteps
<1>4. to \notin {"done", "killed"}
  BY StepsApart DEF CleanupSteps
<1>5. QED
  BY <1>2, <1>3, <1>4, ReportFrame, StepsApart DEF Quiet, Terminated

\* The error is all that the report will tell of a step.
ErrorOnly(p) == /\ outcome'[p].err /\ outcome'[p].key = outcome[p].key
                /\ outcome'[p].published = outcome[p].published
                /\ outcome'[p].ingested = outcome[p].ingested
                /\ outcome'[p].committed = outcome[p].committed
                /\ outcome'[p].result = outcome[p].result

\* An error return.
LEMMA AbortReport ==
  ASSUME TypeOK, PublicationInv, ReportInv, NEW p \in Procs, Goto(p, ErrorExit(pc[p])),
         ErrorOnly(p), \A q \in Procs \ {p} : outcome'[q] = outcome[q],
         pc[p] \in BodySteps, UNCHANGED <<out, req, streamed>>
  PROVE  ReportInv' /\ Quiet(p)
<1>1. /\ ErrorExit(pc[p]) \in {"unlinkImage", "dropCheck", "dropInherited"}
      /\ pc[p] = "printKey" => ErrorExit(pc[p]) = "unlinkImage"
  BY DEF ErrorExit
<1>2. /\ pc[p] = "printKey" => pc'[p] = "unlinkImage"
      /\ pc'[p] \in {"unlinkImage", "dropCheck", "dropInherited"}
      /\ \A q \in Procs \ {p} : pc'[q] = pc[q] /\ outcome'[q] = outcome[q]
  BY <1>1 DEF Goto, TypeOK
<1>3. /\ outcome'[p].err /\ outcome'[p].key = outcome[p].key
      /\ outcome'[p].published = outcome[p].published
      /\ outcome'[p].ingested = outcome[p].ingested
      /\ outcome'[p].committed = outcome[p].committed
      /\ outcome'[p].result = outcome[p].result
  BY DEF ErrorOnly
<1>4. Reported(p) /\ PublishedIsFinished(p)
  BY DEF ReportInv, PublicationInv
<1>a. pc'[p] \notin BodySteps
  BY <1>2, StepsApart DEF CleanupSteps
<1>5. CASE pc[p] = "printKey"
  <2>1. Upload(p) /\ outcome[p].result = "none"
    BY <1>4, <1>5 DEF Reported, KeyIsDue, KeyAndResultLast
  <2>2. Reported(p)'
    BY <1>2, <1>3, <1>4, <1>a, <1>5, <2>1
    DEF Reported, KeyAndResultLast, UploadIsComplete, KeyIsDue, PublishedIsAsked,
        NoErrorIsSuccess, ResultIsTrue, Delivered, Streamed, Shows, Named, Upload,
        PendingSteps, UploadedSteps, EndSteps
  <2>3. QED
    BY <1>2, <1>3, <1>5, <2>2, ReportFrame, StepsApart DEF Quiet, Terminated
<1>6. CASE pc[p] # "printKey"
  <2>1. ~outcome[p].key /\ ~outcome[p].published /\ outcome[p].result = "none"
    BY <1>6, Unreported
  <2>2. Reported(p)'
    BY <1>2, <1>3, <1>a, <2>1
    DEF Reported, KeyAndResultLast, UploadIsComplete, KeyIsDue, PublishedIsAsked,
        NoErrorIsSuccess, ResultIsTrue, PendingSteps, UploadedSteps
  <2>3. QED
    BY <1>2, <1>3, <1>6, <2>2, ReportFrame, StepsApart DEF Quiet, Terminated
<1>7. QED
  BY <1>5, <1>6

\* The same of a check, whose refusal is an error return.
LEMMA CheckReport ==
  ASSUME TypeOK, PublicationInv, ReportInv, NEW p \in Procs, NEW l \in BodySteps \ {"printKey"},
         NEW ok \in BOOLEAN, NEW to, Check(p, l, ok, to), UNCHANGED <<out, req, streamed>>,
         l \notin {"moveIn", "checkMoved", "adopt"},
         ok => \/ to \in EarlySteps
               \/ to \in PendingSteps /\ HasPending(p) /\ (to = "ingest" => Streamed(p))
               \/ to \in UploadedSteps \ {"printKey"} /\ Delivered(p)
               \/ to = "printKey" /\ Delivered(p) /\ ~Named(p) /\ Upload(p)
               \/ to = "unlinkImage" /\ Delivered(p) /\ ~Named(p) /\ ~Upload(p)
  PROVE  ReportInv' /\ Quiet(p)
<1>1. pc[p] = l
  BY DEF Check, At
<1>2. CASE ok
  BY <1>1, <1>2, GotoReport DEF Check
<1>3. CASE ~ok
  <2>1. Goto(p, ErrorExit(pc[p]))
    BY <1>1, <1>3 DEF Check, Abort, ErrorExit
  <2>2. ErrorOnly(p) /\ \A q \in Procs \ {p} : outcome'[q] = outcome[q]
    BY <1>3 DEF Check, Abort, ErrorOnly, TypeOK, Outcome
  <2>3. QED
    BY <1>1, <2>1, <2>2, AbortReport
<1>4. QED
  BY <1>2, <1>3

\* Cleanup goes on from step to step, whatever its calls return.
LEMMA CleanReport ==
  ASSUME TypeOK, ReportInv, NEW p \in Procs, NEW to, Goto(p, to),
         pc[p] \in RemovalSteps \cup DropSteps, UNCHANGED <<out, req, streamed>>,
         \/ to \in RemovalSteps
         \/ to \in DropSteps /\ pc[p] \in DropSteps,
         \/ outcome'[p] = outcome[p]
         \/ \E b, u \in BOOLEAN : outcome'[p] = [outcome[p] EXCEPT !.cleanErr = b, !.unread = u],
         \A q \in Procs \ {p} : outcome'[q] = outcome[q]
  PROVE  ReportInv' /\ Quiet(p)
<1>1. /\ pc'[p] = to
      /\ \A q \in Procs \ {p} : pc'[q] = pc[q] /\ outcome'[q] = outcome[q]
                                                /\ streamed'[q] = streamed[q]
  BY DEF Goto, TypeOK
<1>2. /\ outcome'[p].err = outcome[p].err /\ outcome'[p].key = outcome[p].key
      /\ outcome'[p].published = outcome[p].published
      /\ outcome'[p].ingested = outcome[p].ingested
      /\ outcome'[p].committed = outcome[p].committed
      /\ outcome'[p].result = outcome[p].result
  BY DEF TypeOK, Outcome
<1>3. Reported(p)
  BY DEF ReportInv
<1>4. outcome[p].key => pc[p] \notin DropSteps
  BY <1>3 DEF Reported, KeyAndResultLast, EndSteps, DropSteps
<1>5. outcome[p].result = "none"
  BY <1>3, StepsApart DEF Reported, KeyAndResultLast, TypeOK, Outcome
<1>a. to \notin BodySteps
  BY StepsApart
<1>6. Reported(p)'
  BY <1>1, <1>2, <1>3, <1>4, <1>5, <1>a
  DEF Reported, KeyAndResultLast, UploadIsComplete, KeyIsDue, PublishedIsAsked, NoErrorIsSuccess,
      ResultIsTrue, Success, Delivered, Streamed, Shows, Named, Upload, HasPending,
      PendingSteps, UploadedSteps, RemovalSteps, DropSteps, EndSteps
<1>7. to \notin {"done", "killed"}
  BY StepsApart
<1>8. QED
  BY <1>1, <1>2, <1>6, <1>7, ReportFrame, StepsApart DEF Quiet, Terminated

(***************************************************************************)
(* One lemma for each group of actions.                                    *)
(***************************************************************************)
LEMMA ReserveReport ==
  ASSUME TypeOK, PublicationInv, ReportInv, NEW p \in Procs, ReserveStep(p)
  PROVE  ReportInv' /\ Quiet(p)
<1> USE DEF EarlySteps, BodySteps, target, given, contents, dataVars
<1>1. CASE Start(p)
  BY <1>1, CheckReport DEF Start, Test
<1>2. CASE ReserveParent(p)
  BY <1>2, CheckReport DEF ReserveParent
<1>3. CASE CheckReplaceable(p)
  BY <1>3, CheckReport DEF CheckReplaceable, Test
<1>4. CASE MakeStage(p)
  BY <1>4, GotoReport DEF MakeStage, Move, At
<1>5. CASE StatStage(p)
  BY <1>5, CheckReport DEF StatStage
<1>6. CASE OpenStage(p)
  BY <1>6, CheckReport DEF OpenStage
<1>7. CASE CreateImage(p)
  BY <1>7, GotoReport DEF CreateImage, Move, At
<1>8. CASE RestoreAttrs(p)
  BY <1>8, GotoReport DEF RestoreAttrs, Restore, Move, At
<1>9. QED
  BY <1>1, <1>2, <1>3, <1>4, <1>5, <1>6, <1>7, <1>8 DEF ReserveStep

\* The public reservation.
LEMMA InheritReport ==
  ASSUME TypeOK, PublicationInv, ReportInv, NEW p \in Procs, InheritStep(p)
  PROVE  ReportInv' /\ Quiet(p)
<1> USE DEF EarlySteps, BodySteps, DropSteps, RemovalSteps, target, given, contents, dataVars
<1>1. CASE ReserveName(p)
  BY <1>1, GotoReport DEF ReserveName, Move, At
<1>2. CASE ReserveInfo(p)
  BY <1>2, CheckReport DEF ReserveInfo, Test
<1>3. CASE MoveIn(p)
  BY <1>3, GotoReport DEF MoveIn, Move, At
<1>4. CASE CheckMoved(p)
  BY <1>4, GotoReport DEF CheckMoved, Move, At
<1>5. CASE Adopt(p)
  BY <1>5, GotoReport DEF Adopt, Move, At
<1>6. CASE DropCheck(p)
  BY <1>6, CleanReport DEF DropCheck, Test, Check, At
<1>7. CASE DropUnlink(p)
  BY <1>7, CleanReport DEF DropUnlink, Move, At
<1>8. CASE DropInherited(p)
  BY <1>8, CleanReport DEF DropInherited, Move, At
<1>9. QED
  BY <1>1, <1>2, <1>3, <1>4, <1>5, <1>6, <1>7, <1>8 DEF InheritStep

\* Chunks on standard output are written before anything is reported.
LEMMA StreamReport ==
  ASSUME TypeOK, PublicationInv, ReportInv, NEW p \in Procs, Stream(p),
         pc[p] \in {"write", "copyOut"}
  PROVE  ReportInv' /\ Quiet(p)
<1>1. pc[p] \in BodySteps \ {"printKey"}
  BY DEF BodySteps
<1>2. /\ ~outcome[p].key /\ ~outcome[p].published /\ ~outcome[p].err
      /\ outcome[p].result = "none"
  BY <1>1, Unreported
<1>3. /\ UNCHANGED <<pc, outcome, req, out>>
      /\ \A q \in Procs \ {p} : streamed'[q] = streamed[q]
  BY DEF Stream, control, given, target, TypeOK
<1>4. Reported(p)
  BY DEF ReportInv
<1>5. Reported(p)'
  BY <1>2, <1>3, <1>4
  DEF Reported, KeyAndResultLast, UploadIsComplete, KeyIsDue, PublishedIsAsked, NoErrorIsSuccess,
      ResultIsTrue, HasPending, Named, Upload, UploadedSteps, RemovalSteps, DropSteps
<1>6. QED
  BY <1>1, <1>3, <1>5, ReportFrame, StepsApart DEF Quiet, Terminated

\* Writing and uploading.
LEMMA WriteReport ==
  ASSUME TypeOK, PublicationInv, ReportInv, NEW p \in Procs, WriteStep(p)
  PROVE  ReportInv' /\ Quiet(p)
<1> USE DEF EarlySteps, PendingSteps, UploadedSteps, BodySteps, target, given, contents, dataVars
<1>a. UploadIsComplete(p) /\ WrittenIsComplete(p)
  BY DEF ReportInv, Reported, PublicationInv
<1>b. req[p].dest \in {"named", "stdout", "none"} /\ Upload(p) \in BOOLEAN
      /\ (Upload(p) \/ req[p].dest # "none")
  BY RequestsAssumption DEF TypeOK, Upload
<1>1. CASE Prepare(p)
  BY <1>1, CheckReport DEF Prepare, Test
<1>2. CASE WriteChunk(p)
  <2>1. /\ pc[p] = "write" /\ UNCHANGED <<pc, outcome, req, streamed, out>>
    BY <1>2 DEF WriteChunk, Append1, At, control
  <2>2. ReportInv'
    BY <2>1, ReportFrame
    DEF ReportInv, Reported, KeyAndResultLast, UploadIsComplete, KeyIsDue, PublishedIsAsked,
        NoErrorIsSuccess, ResultIsTrue, Success, Delivered, Streamed, Shows, Named, Upload,
        HasPending
  <2>3. QED
    BY <2>1, <2>2 DEF Quiet, Terminated
<1>3. CASE CloseWriter(p)
  <2>1. pc[p] = "write" /\ UNCHANGED <<outcome, req, streamed, out>>
    BY <1>3 DEF CloseWriter, Test, Check, At
  <2>2. CASE HasPending(p)
    BY <1>3, <2>1, <2>2, GotoReport DEF CloseWriter, Test, Check
  <2>3. CASE ~HasPending(p)
    <3>1. Delivered(p) /\ Goto(p, "ctxAfterUpload")
      BY <1>3, <2>3 DEF CloseWriter, Test, Check, Delivered, Streamed, HasPending
    <3>2. QED
      BY <2>1, <3>1, GotoReport
  <2>4. QED
    BY <2>2, <2>3
<1>4. CASE VerifyWritten(p)
  <2>1. HasPending(p)
    BY <1>4, <1>a DEF VerifyWritten, Test, Check, At, UploadIsComplete
  <2>2. \/ AfterWritten(p) = "copyOut"
        \/ AfterWritten(p) = "ingest" /\ Streamed(p)
        \/ AfterWritten(p) = "ctxAfterUpload" /\ Delivered(p)
    BY <1>b DEF AfterWritten, Streamed, Delivered, Named
  <2>3. QED
    BY <1>4, <2>1, <2>2, CheckReport DEF VerifyWritten, Test, Verified
<1>5. CASE CopyDone(p)
  <2>1. pc[p] = "copyOut" /\ Goto(p, "ingest") /\ UNCHANGED <<outcome, req, streamed, out>>
    BY <1>5 DEF CopyDone, Test, Check, At
  <2>2. HasPending(p) /\ data[p] = Chunks
    BY <1>a, <2>1 DEF UploadIsComplete, WrittenIsComplete, WrittenSteps
  <2>3. Streamed(p)
    BY <1>5, <2>2 DEF CopyDone, Streamed
  <2>4. QED
    BY <2>1, <2>2, <2>3, GotoReport
<1>6. CASE Ingest(p)
  <2>1. /\ pc[p] = "ingest" /\ pc'[p] = "ctxAfterUpload" /\ UNCHANGED <<req, streamed, out>>
        /\ \A q \in Procs \ {p} : pc'[q] = pc[q] /\ outcome'[q] = outcome[q]
    BY <1>6 DEF Ingest, At, Goto, TypeOK
  <2>2. HasPending(p) /\ Streamed(p) /\ data[p] = Chunks
    BY <1>a, <2>1 DEF UploadIsComplete, WrittenIsComplete, WrittenSteps
  <2>3. /\ outcome'[p].ingested /\ outcome'[p].key = outcome[p].key
        /\ outcome'[p].published = outcome[p].published
        /\ outcome'[p].err = outcome[p].err /\ outcome'[p].result = outcome[p].result
    <3>1. (data[p] = Chunks) = TRUE
      BY <2>2
    <3>2. outcome' = [outcome EXCEPT ![p].ingested = TRUE]
      BY <1>6, <3>1 DEF Ingest
    <3>3. QED
      BY <3>2 DEF TypeOK, Outcome
  <2>4. /\ ~outcome[p].key /\ ~outcome[p].published /\ ~outcome[p].err
        /\ outcome[p].result = "none"
    BY <2>1, Unreported
  <2>5. Reported(p)'
    BY <2>1, <2>2, <2>3, <2>4
    DEF Reported, KeyAndResultLast, UploadIsComplete, KeyIsDue, PublishedIsAsked,
        NoErrorIsSuccess, ResultIsTrue, Delivered, Streamed, RemovalSteps, DropSteps
  <2>6. QED
    BY <2>1, <2>3, <2>5, ReportFrame DEF Quiet, Terminated
<1>7. CASE CtxAfterUpload(p)
  <2>1. Delivered(p)
    BY <1>7, <1>a DEF CtxAfterUpload, Test, Check, At, UploadIsComplete
  <2>2. QED
    BY <1>7, <2>1, CheckReport DEF CtxAfterUpload, Test, TypeOK
<1>8. CASE CloseFile(p)
  <2>1. Delivered(p)
    BY <1>8, <1>a DEF CloseFile, Test, Check, At, UploadIsComplete
  <2>2. QED
    BY <1>8, <2>1, CheckReport DEF CloseFile, Test
<1>9. CASE VerifyClosed(p)
  <2>1. Delivered(p)
    BY <1>9, <1>a DEF VerifyClosed, Test, Check, At, UploadIsComplete
  <2>2. QED
    BY <1>9, <2>1, CheckReport DEF VerifyClosed, Test, Verified
<1>10. CASE CtxBeforeCommit(p)
  <2>1. Delivered(p)
    BY <1>10, <1>a DEF CtxBeforeCommit, Test, Check, At, UploadIsComplete
  <2>2. CASE Named(p)
    BY <1>10, <2>1, <2>2, CheckReport DEF CtxBeforeCommit, Test, TypeOK
  <2>3. CASE ~Named(p) /\ Upload(p)
    BY <1>10, <2>1, <2>3, CheckReport DEF CtxBeforeCommit, Test, TypeOK
  <2>4. CASE ~Named(p) /\ ~Upload(p)
    BY <1>10, <2>1, <2>4, CheckReport DEF CtxBeforeCommit, Test, TypeOK
  <2>5. QED
    BY <2>2, <2>3, <2>4
<1>11. QED
  BY <1>1, <1>2, <1>3, <1>4, <1>5, <1>6, <1>7, <1>8, <1>9, <1>10 DEF WriteStep

\* Writing to standard output.
LEMMA StdoutReport ==
  ASSUME TypeOK, PublicationInv, ReportInv, NEW p \in Procs, StdoutStep(p)
  PROVE  ReportInv' /\ Quiet(p)
<1>1. CASE StreamChunk(p) \/ CopyChunk(p)
  BY <1>1, StreamReport DEF StreamChunk, CopyChunk, At
<1>2. CASE PrintKey(p)
  <2>1. /\ pc[p] = "printKey" /\ pc'[p] = "unlinkImage" /\ UNCHANGED <<req, streamed, out>>
        /\ \A q \in Procs \ {p} : pc'[q] = pc[q] /\ outcome'[q] = outcome[q]
    BY <1>2 DEF PrintKey, At, Goto, TypeOK, dataVars, given, contents, target
  <2>2. /\ outcome'[p].key /\ outcome'[p].committed
        /\ outcome'[p].published = outcome[p].published
        /\ outcome'[p].ingested = outcome[p].ingested
        /\ outcome'[p].err = outcome[p].err
        /\ outcome'[p].result = outcome[p].result
    BY <1>2 DEF PrintKey, TypeOK, Outcome
  <2>3. Reported(p)
    BY DEF ReportInv
  <2>4. Upload(p) /\ Shows(p) /\ Delivered(p) /\ outcome[p].result = "none"
    BY <2>1, <2>3 DEF Reported, KeyIsDue, UploadIsComplete, KeyAndResultLast, UploadedSteps
  <2>5. Reported(p)'
    BY <2>1, <2>2, <2>3, <2>4
    DEF Reported, KeyAndResultLast, UploadIsComplete, KeyIsDue, PublishedIsAsked,
        NoErrorIsSuccess, ResultIsTrue, Success, Delivered, Streamed, Shows, Named, Upload,
        PendingSteps, UploadedSteps, DropSteps, EndSteps, BodySteps
  <2>6. QED
    BY <2>1, <2>2, <2>5, ReportFrame DEF Quiet, Terminated
<1>3. QED
  BY <1>1, <1>2 DEF StdoutStep

\* The destination is replaced once, by an export that was asked to, which
\* has uploaded what it was asked to.
LEMMA RenameReport ==
  ASSUME TypeOK, PublicationInv, ReportInv, NEW p \in Procs, Rename(p)
  PROVE  ReportInv' /\ ~outcome[p].published /\ Named(p)
<1>1. /\ pc[p] = "rename" /\ UNCHANGED <<req, streamed>>
      /\ pc'[p] = IF Upload(p) THEN "printKey" ELSE "unlinkImage"
      /\ \A q \in Procs \ {p} : pc'[q] = pc[q] /\ outcome'[q] = outcome[q]
  BY DEF Rename, At, Goto, TypeOK, given, contents
<1>2. /\ outcome'[p].published /\ outcome'[p].committed
      /\ outcome'[p].ingested = outcome[p].ingested
      /\ outcome'[p].key = outcome[p].key
      /\ outcome'[p].err = outcome[p].err
      /\ outcome'[p].result = outcome[p].result
  BY DEF Rename, TypeOK, Outcome
<1>3. /\ ~outcome[p].key /\ ~outcome[p].published /\ ~outcome[p].err
      /\ outcome[p].result = "none"
  BY <1>1, Unreported DEF BodySteps
<1>4. Named(p) /\ Delivered(p)
  BY <1>1 DEF PublicationInv, CommitIsNamed, CommitSteps, ReportInv, Reported, UploadIsComplete,
              UploadedSteps
<1>5. Reported(p)'
  <2>1. /\ Named(p)' /\ Delivered(p)' /\ Shows(p)' /\ (Upload(p)' <=> Upload(p))
    BY <1>1, <1>2, <1>4 DEF Named, Delivered, Streamed, Shows, Upload
  <2>2. KeyAndResultLast(p)' /\ KeyIsDue(p)' /\ PublishedIsAsked(p)' /\ ResultIsTrue(p)'
    BY <1>1, <1>2, <1>3, <2>1
    DEF KeyAndResultLast, KeyIsDue, PublishedIsAsked, ResultIsTrue, Delivered
  <2>3. UploadIsComplete(p)' /\ NoErrorIsSuccess(p)'
    BY <1>1, <1>2, <1>3, <2>1
    DEF UploadIsComplete, NoErrorIsSuccess, Success, PendingSteps, RemovalSteps, DropSteps
  <2>4. QED
    BY <2>2, <2>3 DEF Reported
<1>6. QED
  BY <1>1, <1>3, <1>4, <1>5, ReportFrame

\* The first steps of commit.
LEMMA CommitReport ==
  ASSUME TypeOK, PublicationInv, ReportInv, NEW p \in Procs,
         CommitVerify(p) \/ CommitStat(p) \/ CommitCtx(p)
  PROVE  ReportInv' /\ Quiet(p)
<1> USE DEF EarlySteps, PendingSteps, UploadedSteps, BodySteps, target, given, contents, dataVars
<1>a. UploadIsComplete(p)
  BY DEF ReportInv, Reported
<1>b. Delivered(p)
  BY <1>a DEF CommitVerify, CommitStat, CommitCtx, Test, Check, At, UploadIsComplete
<1>1. CASE CommitVerify(p)
  BY <1>1, <1>b, CheckReport DEF CommitVerify, Test, Verified
<1>2. CASE CommitStat(p)
  BY <1>2, <1>b, CheckReport DEF CommitStat, Test, RegularOrAbsent
<1>3. CASE CommitCtx(p)
  BY <1>3, <1>b, CheckReport DEF CommitCtx, Test, TypeOK
<1>4. QED
  BY <1>1, <1>2, <1>3

\* Removing the staging directory.
LEMMA RemovalReport ==
  ASSUME TypeOK, ReportInv, NEW p \in Procs, UnlinkImage(p) \/ StatDir(p) \/ Rmdir(p)
  PROVE  ReportInv' /\ Quiet(p)
<1> USE DEF RemovalSteps, target, given, contents, dataVars
<1>1. CASE UnlinkImage(p)
  BY <1>1, CleanReport DEF UnlinkImage, AfterUnlink, Move, At
<1>2. CASE StatDir(p)
  BY <1>2, CleanReport DEF StatDir, Test, Check, At
<1>3. CASE Rmdir(p)
  BY <1>3, CleanReport DEF Rmdir, RemoveStage, Move, At
<1>4. QED
  BY <1>1, <1>2, <1>3

\* The exit status: a failure after publication is one of the upload's key.
LEMMA ExitReport ==
  ASSUME TypeOK, ReportInv, NEW p \in Procs, Report(p)
  PROVE  /\ ReportInv'
         /\ ~Terminated(p) /\ pc'[p] = "done" /\ out' = out /\ req' = req
         /\ outcome'[p].published = outcome[p].published
         /\ \A q \in Procs \ {p} : pc'[q] = pc[q] /\ outcome'[q] = outcome[q]
         /\ \/ outcome'[p].result = "ok" /\ (Named(p) => outcome[p].published)
            \/ outcome'[p].result = "error" /\ (outcome[p].published => Upload(p))
<1>1. /\ pc[p] = "report" /\ pc'[p] = "done" /\ UNCHANGED <<out, req, streamed>>
      /\ \A q \in Procs \ {p} : pc'[q] = pc[q] /\ outcome'[q] = outcome[q]
  BY DEF Report, Exit, At, Goto, TypeOK, dataVars, target, given, contents
<1>2. /\ outcome'[p].key = outcome[p].key
      /\ outcome'[p].published = outcome[p].published
      /\ outcome'[p].ingested = outcome[p].ingested
      /\ outcome'[p].committed = outcome[p].committed
      /\ outcome'[p].err = outcome[p].err
      /\ outcome'[p].result =
            IF outcome[p].err \/ (outcome[p].cleanErr /\ ~outcome[p].committed)
            THEN "error" ELSE "ok"
  BY DEF Report, Exit, TypeOK, Outcome
<1>3. Reported(p)
  BY DEF ReportInv
<1>4. CASE outcome'[p].result = "ok"
  <2>1. Success(p)
    BY <1>1, <1>2, <1>3, <1>4 DEF Reported, NoErrorIsSuccess, RemovalSteps
  <2>2. Success(p)'
    BY <1>1, <1>2, <2>1 DEF Success, Delivered, Streamed, Shows, Named, Upload
  <2>3. Reported(p)'
    BY <1>1, <1>2, <1>3, <1>4, <2>2
    DEF Reported, KeyAndResultLast, UploadIsComplete, KeyIsDue, PublishedIsAsked,
        NoErrorIsSuccess, ResultIsTrue, Delivered, Streamed, Shows, Named, Upload, PendingSteps,
        UploadedSteps, RemovalSteps, DropSteps, EndSteps, BodySteps
  <2>4. QED
    BY <1>1, <1>2, <1>4, <2>1, <2>3, ReportFrame DEF Success, Shows, Terminated
<1>5. CASE outcome'[p].result = "error"
  <2>1. outcome[p].published => Upload(p)
    BY <1>2, <1>3, <1>5 DEF Reported, PublishedIsAsked
  <2>2. Reported(p)'
    BY <1>1, <1>2, <1>3, <1>5, <2>1
    DEF Reported, KeyAndResultLast, UploadIsComplete, KeyIsDue, PublishedIsAsked,
        NoErrorIsSuccess, ResultIsTrue, Delivered, Streamed, Shows, Named, Upload, PendingSteps,
        UploadedSteps, RemovalSteps, DropSteps, EndSteps, BodySteps
  <2>3. QED
    BY <1>1, <1>2, <1>5, <2>1, <2>2, ReportFrame DEF Terminated
<1>6. QED
  BY <1>2, <1>4, <1>5

\* A process that died reports nothing.
LEMMA DieReport ==
  ASSUME TypeOK, ReportInv, NEW p \in Procs, Die(p)
  PROVE  /\ ReportInv'
         /\ ~Terminated(p) /\ pc'[p] = "killed" /\ UNCHANGED <<out, req, outcome>>
         /\ \A q \in Procs \ {p} : pc'[q] = pc[q]
<1>1. /\ ~Terminated(p) /\ pc'[p] = "killed" /\ UNCHANGED <<out, req, outcome, streamed>>
      /\ \A q \in Procs \ {p} : pc'[q] = pc[q]
  BY DEF Die, Goto, TypeOK, dataVars, target, given, contents
<1>2. Reported(p)
  BY DEF ReportInv
<1>3. Reported(p)'
  BY <1>1, <1>2
  DEF Reported, KeyAndResultLast, UploadIsComplete, KeyIsDue, PublishedIsAsked, NoErrorIsSuccess,
      ResultIsTrue, Success, Delivered, Streamed, Shows, Named, Upload, Terminated, PendingSteps,
      UploadedSteps, RemovalSteps, DropSteps, EndSteps, BodySteps
<1>4. QED
  BY <1>1, <1>3, ReportFrame

\* A failing call.
LEMMA FailureReport ==
  ASSUME TypeOK, PublicationInv, ReportInv, NEW p \in Procs, StepFails(p) \/ CleanupFails(p)
  PROVE  ReportInv' /\ Quiet(p)
<1> USE DEF target, given, contents, dataVars
<1>1. CASE StepFails(p)
  <2>1. ErrorOnly(p) /\ \A q \in Procs \ {p} : outcome'[q] = outcome[q]
    BY <1>1 DEF StepFails, ErrorOnly, TypeOK, Outcome
  <2>2. QED
    BY <1>1, <2>1, AbortReport DEF StepFails
<1>2. CASE CleanupFails(p)
  <2>1. /\ \E b, u \in BOOLEAN : outcome'[p] = [outcome[p] EXCEPT !.cleanErr = b, !.unread = u]
        /\ \A q \in Procs \ {p} : outcome'[q] = outcome[q]
        /\ UNCHANGED <<out, req, streamed>>
    BY <1>2 DEF CleanupFails, TypeOK, Outcome
  <2>2. PICK to \in RemovalSteps : Goto(p, to)
    BY <1>2 DEF CleanupFails, AfterUnlink, RemovalSteps
  <2>3. pc[p] \in RemovalSteps \cup DropSteps
    BY <1>2 DEF CleanupFails, CleanupSteps, RemovalSteps, DropSteps
  <2>4. QED
    BY <2>1, <2>2, <2>3, CleanReport
<1>3. QED
  BY <1>1, <1>2

\* A step that changes nothing the report is about.
LEMMA SameReport ==
  ASSUME ReportInv, UNCHANGED <<pc, outcome, req, streamed>>
  PROVE  ReportInv'
  BY DEF ReportInv, Reported, KeyAndResultLast, UploadIsComplete, KeyIsDue, PublishedIsAsked,
         NoErrorIsSuccess, ResultIsTrue, Success, Delivered, Streamed, Shows, Named, Upload,
         HasPending

\* A signal, or a step of another process.
Aside == \/ \E p \in Procs : Cancel(p) \/ RestoreSignals(p) \/ OthersStep(p)
         \/ OthersChangeOutput

\* A signal or a step of another process.
LEMMA AsideReport ==
  ASSUME ReportInv, Aside
  PROVE  /\ ReportInv' /\ UNCHANGED <<pc, outcome, req>>
         /\ out' = out \/ out'.owner = Others
<1>1. CASE OthersChangeOutput
  <2>1. out' = out \/ out'.owner = Others
    BY <1>1 DEF OthersChangeOutput, Absent, Foreign
  <2>2. UNCHANGED <<pc, outcome, req, streamed>>
    BY <1>1 DEF OthersChangeOutput, Meddle, control, contents
  <2>3. QED
    BY <2>1, <2>2, SameReport
<1>2. ASSUME NEW p \in Procs, Cancel(p) \/ RestoreSignals(p) \/ OthersStep(p)
      PROVE  UNCHANGED <<pc, outcome, req, streamed, out>>
  BY <1>2 DEF Cancel, RestoreSignals, Restoring, OthersStep, OthersTakeStage, OthersTakeReserve, OthersTakeImage, Meddle,
              MeddleWith, control, contents, target
<1>3. QED
  BY <1>1, <1>2, SameReport DEF Aside

\* Every step is one of these.
LEMMA StepCases ==
  ASSUME [Next]_vars
  PROVE  \/ UNCHANGED vars
         \/ Aside
         \/ \E p \in Procs : \/ Rename(p) \/ Report(p) \/ Die(p)
                            \/ ReserveStep(p) \/ InheritStep(p) \/ WriteStep(p) \/ StdoutStep(p)
                            \/ CommitVerify(p) \/ CommitStat(p) \/ CommitCtx(p)
                            \/ UnlinkImage(p) \/ StatDir(p) \/ Rmdir(p)
                            \/ StepFails(p) \/ CleanupFails(p)
  BY DEF Next, Export, Progress, CommitStep, CleanupStep, FailureStep, SignalStep, SecondSignal,
         Crash, Aside

\* Every step of an export that AtomicOutput does not see.
LEMMA QuietReport ==
  ASSUME TypeOK, PublicationInv, ReportInv, NEW p \in Procs,
         \/ ReserveStep(p) \/ InheritStep(p) \/ WriteStep(p) \/ StdoutStep(p)
         \/ CommitVerify(p) \/ CommitStat(p) \/ CommitCtx(p)
         \/ UnlinkImage(p) \/ StatDir(p) \/ Rmdir(p)
         \/ StepFails(p) \/ CleanupFails(p)
  PROVE  ReportInv' /\ Quiet(p)
  BY ReserveReport, InheritReport, WriteReport, StdoutReport, CommitReport, RemovalReport,
     FailureReport

\* ReportInv is inductive relative to TypeOK and PublicationInv.
LEMMA NextReport == TypeOK /\ PublicationInv /\ ReportInv /\ [Next]_vars => ReportInv'
<1> SUFFICES ASSUME TypeOK, PublicationInv, ReportInv, [Next]_vars PROVE ReportInv'
  OBVIOUS
<1>1. CASE UNCHANGED vars
  BY <1>1, SameReport DEF vars, dataVars, control, given, contents
<1>2. CASE Aside
  BY <1>2, AsideReport
<1>3. ASSUME NEW p \in Procs, Rename(p) \/ Report(p) \/ Die(p)
      PROVE  ReportInv'
  BY <1>3, RenameReport, ExitReport, DieReport
<1>4. QED
  BY <1>1, <1>2, <1>3, StepCases, QuietReport

\* What each part of the program has done for the report holds in every
\* reachable state.
THEOREM ReportSafe == Spec => []ReportInv
  BY TypeCorrect, PublicationSafe, InitReport, NextReport, PTL DEF Spec

\* The exit status tells the truth: success means that all that was asked for
\* was done, and an error without an upload that the destination was never
\* touched, for any number of exports and any failures.
THEOREM ReportCorrect == Spec => []ReportMatchesOutcome
<1>1. ReportInv => ReportMatchesOutcome
  BY DEF ReportInv, Reported, ResultIsTrue, Success, Delivered, Streamed, Shows,
         ReportMatchesOutcome
<1>2. QED
  BY <1>1, ReportSafe, PTL

\* A key on standard output is one of an image in the store, and of a
\* destination and an output that are complete.
THEOREM KeyCorrect == Spec => []KeyIsLast
<1>1. ReportInv => KeyIsLast
  BY DEF ReportInv, Reported, KeyIsDue, PublishedIsAsked, Delivered, Streamed, Shows, KeyIsLast
<1>2. QED
  BY <1>1, ReportSafe, PTL

-----------------------------------------------------------------------------
(***************************************************************************)
(* The exports implement AtomicOutput.                                     *)
(***************************************************************************)
LEMMA ShownIsOwner == TypeOK /\ PublicationInv => Shown = out.owner
<1> SUFFICES ASSUME TypeOK, PublicationInv, out.owner # Others PROVE Shown = out.owner
  BY DEF Shown
<1>1. out.owner \in Procs
  BY DEF TypeOK, Object
<1>2. PublishedIsFinished(out.owner) /\ ShownIsPublished(out.owner)
  BY <1>1 DEF PublicationInv
<1>3. QED
  BY <1>1, <1>2 DEF PublishedIsFinished, ShownIsPublished, Shown

\* An initial state of the exports is one of AtomicOutput.
LEMMA InitAbstract == TypeOK /\ PublicationInv /\ Init => Abstract!Init
<1> SUFFICES ASSUME TypeOK, PublicationInv, Init PROVE Abstract!Init
  OBVIOUS
<1>1. Shown = Others
  BY ShownIsOwner DEF Init, Absent
<1>2. \A p \in Procs : Status(p) = "working"
  BY DEF Init, Status, At, Terminated
<1>3. QED
  BY <1>1, <1>2 DEF Abstract!Init

\* The status of an export that runs.
LEMMA StatusOf ==
  ASSUME NEW p \in Procs, ~Terminated(p)
  PROVE  Status(p) = IF outcome[p].published THEN "published" ELSE "working"
  BY DEF Status, Terminated, At

\* A step AtomicOutput does not see leaves its variables alone.
LEMMA QuietStutters ==
  ASSUME NEW p \in Procs, Quiet(p), Shown = out.owner, Shown' = out'.owner
  PROVE  UNCHANGED Abstract!vars
<1>1. Status(p)' = Status(p)
  BY DEF Quiet, Status, Terminated, At
<1>2. ASSUME NEW q \in Procs \ {p} PROVE Status(q)' = Status(q)
  BY DEF Quiet, Status, Terminated, At
<1>3. \A q \in Procs : Named(q)' = Named(q) /\ Upload(q)' = Upload(q)
  BY DEF Quiet, Named, Upload
<1>4. Shown' = Shown
  BY DEF Quiet
<1>5. [q \in Procs |-> Status(q)]' = [q \in Procs |-> Status(q)]
  BY <1>1, <1>2
<1>6. {q \in Procs : Named(q)}' = {q \in Procs : Named(q)}
  BY <1>3
<1>7. {q \in Procs : Upload(q)}' = {q \in Procs : Upload(q)}
  BY <1>3
<1>8. QED
  BY <1>4, <1>5, <1>6, <1>7 DEF Abstract!vars

\* A step of p from one status to another is a Move of AtomicOutput.
LEMMA StatusMoves ==
  ASSUME NEW p \in Procs, req' = req, NEW from, NEW to, Status(p) = from, Status(p)' = to,
         \A q \in Procs \ {p} : pc'[q] = pc[q] /\ outcome'[q] = outcome[q]
  PROVE  Abstract!Move(p, from, to)
<1>1. ASSUME NEW q \in Procs \ {p} PROVE Status(q)' = Status(q)
  BY DEF Status, Terminated, At
<1>2. [q \in Procs |-> Status(q)]' = [[q \in Procs |-> Status(q)] EXCEPT ![p] = to]
  BY <1>1
<1>3. {q \in Procs : Named(q)}' = {q \in Procs : Named(q)}
  BY DEF Named
<1>4. {q \in Procs : Upload(q)}' = {q \in Procs : Upload(q)}
  BY DEF Upload
<1>5. QED
  BY <1>2, <1>3, <1>4 DEF Abstract!Move

\* Every step of the exports is a step or a stutter of AtomicOutput.
LEMMA NextAbstract ==
  ASSUME TypeOK, PublicationInv, PublicationInv', TypeOK', ReportInv, [Next]_vars
  PROVE  [Abstract!Next]_(Abstract!vars)
<1>a. Shown = out.owner
  BY ShownIsOwner
<1>b. Shown' = out'.owner
  <2>1. (TypeOK /\ PublicationInv => Shown = out.owner)'
    BY ShownIsOwner, PTL
  <2>2. QED
    BY <2>1
<1>1. CASE UNCHANGED vars
  BY <1>1 DEF vars, dataVars, control, target, given, contents, Abstract!vars, Shown, Status, Named,
              Upload, OwnFile, Terminated, At
<1>2. CASE Aside
  <2>1. UNCHANGED <<pc, outcome, req>> /\ (out' = out \/ out'.owner = Others)
    BY <1>2, AsideReport
  <2>2. UNCHANGED <<[q \in Procs |-> Status(q)], {q \in Procs : Named(q)},
                    {q \in Procs : Upload(q)}>>
    BY <2>1 DEF Status, Terminated, At, Named, Upload
  <2>3. CASE out' = out
    BY <1>a, <1>b, <2>2, <2>3 DEF Abstract!vars
  <2>4. CASE out'.owner = Others
    BY <1>b, <2>2, <2>4 DEF Abstract!Next, Abstract!OthersWrite
  <2>5. QED
    BY <2>1, <2>3, <2>4
<1>3. ASSUME NEW p \in Procs, Rename(p)
      PROVE  Abstract!Publish(p)
  <2>1. ~outcome[p].published /\ Named(p)
    BY <1>3, RenameReport
  <2>2. /\ pc[p] = "rename" /\ pc'[p] \in {"printKey", "unlinkImage"} /\ outcome'[p].published
        /\ req' = req /\ out' = staging[p].image
        /\ \A q \in Procs \ {p} : pc'[q] = pc[q] /\ outcome'[q] = outcome[q]
    BY <1>3 DEF Rename, At, Goto, TypeOK, Outcome, given
  <2>3. Status(p) = "working" /\ Status(p)' = "published"
    BY <2>1, <2>2 DEF Status, Terminated, At
  <2>4. Abstract!Move(p, "working", "published")
    BY <2>2, <2>3, StatusMoves
  <2>5. staging[p].image = OwnFile(p)
    BY <2>2 DEF PublicationInv, CommitIsVerified, InCommit
  <2>6. Shown' = p
    BY <1>b, <2>2, <2>5 DEF OwnFile, Inherited, ImageFile
  <2>7. QED
    BY <2>1, <2>4, <2>6 DEF Abstract!Publish
<1>4. ASSUME NEW p \in Procs, Report(p)
      PROVE  Abstract!Succeed(p) \/ Abstract!Fail(p)
  <2>1. /\ ~Terminated(p) /\ pc'[p] = "done" /\ out' = out /\ req' = req
        /\ \A q \in Procs \ {p} : pc'[q] = pc[q] /\ outcome'[q] = outcome[q]
        /\ \/ outcome'[p].result = "ok" /\ (Named(p) => outcome[p].published)
           \/ outcome'[p].result = "error" /\ (outcome[p].published => Upload(p))
    BY <1>4, ExitReport
  <2>2. Status(p) = IF outcome[p].published THEN "published" ELSE "working"
    BY <2>1, StatusOf
  <2>3. Shown' = Shown
    BY <1>a, <1>b, <2>1
  <2>4. outcome[p].published => Named(p)
    BY DEF ReportInv, Reported, PublishedIsAsked
  <2>5. CASE outcome'[p].result = "ok"
    <3>1. Status(p)' = "ok"
      BY <2>1, <2>5 DEF Status, Terminated, At
    <3>2. Abstract!Move(p, Status(p), "ok")
      BY <2>1, <3>1, StatusMoves
    <3>3. CASE Named(p)
      <4>1. Abstract!Move(p, "published", "ok") /\ p \in {q \in Procs : Named(q)}
        BY <2>1, <2>2, <2>5, <3>2, <3>3
      <4>2. QED
        BY <2>3, <4>1 DEF Abstract!Succeed
    <3>4. CASE ~Named(p)
      <4>1. Abstract!Move(p, "working", "ok") /\ p \notin {q \in Procs : Named(q)}
        BY <2>2, <2>4, <3>2, <3>4
      <4>2. QED
        BY <2>3, <4>1 DEF Abstract!Succeed
    <3>5. QED
      BY <3>3, <3>4
  <2>6. CASE outcome'[p].result = "error"
    <3>1. Status(p)' = "failed"
      BY <2>1, <2>6 DEF Status, Terminated, At
    <3>2. Abstract!Move(p, Status(p), "failed")
      BY <2>1, <3>1, StatusMoves
    <3>3. CASE outcome[p].published
      <4>1. Abstract!Move(p, "published", "failed") /\ p \in {q \in Procs : Upload(q)}
        BY <2>1, <2>2, <2>6, <3>2, <3>3
      <4>2. QED
        BY <2>3, <4>1 DEF Abstract!Fail
    <3>4. CASE ~outcome[p].published
      <4>1. Abstract!Move(p, "working", "failed")
        BY <2>2, <3>2, <3>4
      <4>2. QED
        BY <2>3, <4>1 DEF Abstract!Fail
    <3>5. QED
      BY <3>3, <3>4
  <2>7. QED
    BY <2>1, <2>5, <2>6
<1>5. ASSUME NEW p \in Procs, Die(p)
      PROVE  Abstract!Vanish(p)
  <2>1. /\ ~Terminated(p) /\ pc'[p] = "killed" /\ UNCHANGED <<out, req, outcome>>
        /\ \A q \in Procs \ {p} : pc'[q] = pc[q]
    BY <1>5, DieReport
  <2>2. Status(p) \in {"published", "working"} /\ Status(p)' = "dead"
    BY <2>1, StatusOf DEF Status, Terminated, At
  <2>3. Abstract!Move(p, Status(p), "dead")
    BY <2>1, <2>2, StatusMoves
  <2>4. Shown' = Shown
    BY <1>a, <1>b, <2>1
  <2>5. QED
    BY <2>2, <2>3, <2>4 DEF Abstract!Vanish
<1>6. ASSUME NEW p \in Procs,
             \/ ReserveStep(p) \/ InheritStep(p) \/ WriteStep(p) \/ StdoutStep(p)
             \/ CommitVerify(p) \/ CommitStat(p) \/ CommitCtx(p)
             \/ UnlinkImage(p) \/ StatDir(p) \/ Rmdir(p)
             \/ StepFails(p) \/ CleanupFails(p)
      PROVE  UNCHANGED Abstract!vars
  <2>1. Quiet(p)
    BY <1>6, QuietReport
  <2>2. QED
    BY <1>a, <1>b, <2>1, QuietStutters
<1>7. QED
  BY <1>1, <1>2, <1>3, <1>4, <1>5, <1>6, StepCases DEF Abstract!Next

\* However many exports share a destination, and wherever they fail, are
\* cancelled or die, each replaces it at most once, in one step, by its
\* finished file, before it reports; and others only put in their own.
THEOREM AtomicCorrect == Spec => Atomic
  BY TypeCorrect, PublicationSafe, ReportSafe, InitType, InitSafe, InitAbstract, NextAbstract, PTL
  DEF Spec, Atomic, Abstract!Spec

-----------------------------------------------------------------------------
(***************************************************************************)
(* What an export leaves in the directories.  The inductive invariant says *)
(* what it holds at its names at each step: at every one of them as long   *)
(* as it has not used them, and, while nobody touched them and no cleanup  *)
(* call failed, from then on.                                              *)
(***************************************************************************)
FirstSteps  == {"start", "reserve", "replaceable", "mkdir"}
StagedSteps == {"openStage", "createImage", "reserveName", "reserveInfo", "moveIn", "checkMoved",
                "adopt", "restore", "dropCheck", "dropUnlink", "dropInherited", "statDir", "rmdir"}
LaterSteps  == WrittenSteps \cup {"prepare", "write", "printKey"}

\* The random names are unused until the process creates an entry there.
NothingYet(p) ==
    /\ pc[p] \in FirstSteps => stage[p] = Absent
    /\ pc[p] \in FirstSteps \cup {"statStage", "openStage", "createImage", "reserveName"}
         => reserve[p] = Absent
    /\ pc[p] \in FirstSteps \cup {"statStage", "openStage", "createImage", "reserveName",
                                  "reserveInfo", "moveIn"}
         => staging[p].inherited = Absent
    /\ pc[p] = "adopt" => staging[p].inherited = Inherited(p)

\* A finished file has the attributes of the destination, if there was one.
AttrsRestored(p) ==
    /\ pc[p] = "start" => pending[p].attr = "none"
    /\ pc[p] \in LaterSteps \ {"printKey"} => pending[p].attr \in {"none", fileAttr[p]}

ErrorIsResult(p) == pc[p] = "done" /\ outcome[p].err => outcome[p].result = "error"

Alone(p) == ~meddled[p] /\ ~outcome[p].cleanErr

\* The staging directory; only one that was verified private is removed.
StageOrAbsent(p) == stage[p] = IF pending[p].created THEN StageDir(p) ELSE Absent
StageKnown(p) ==
    /\ pc[p] \in FirstSteps => ~pending[p].created
    /\ pc[p] = "statStage" => ~pending[p].created /\ stage[p] = StageDir(p)
    /\ pc[p] \in StagedSteps => pending[p].created /\ stage[p] = StageDir(p)
    /\ pc[p] \in LaterSteps => StageOrAbsent(p)
    /\ pc[p] = "unlinkImage" => \/ StageOrAbsent(p)
                                \/ ~pending[p].created /\ outcome[p].err
    /\ pc[p] \in {"report", "done"} => \/ stage[p] = Absent
                                       \/ ~pending[p].created /\ outcome[p].err

\* The public reservation; only one that could not be identified is left there.
ReserveKnown(p) ==
    /\ pc[p] \in {"reserveInfo", "moveIn"} => reserve[p] = Inherited(p) /\ fileAttr[p] = "hidden"
    /\ pc[p] \in {"dropCheck", "dropUnlink"} => reserve[p] = Inherited(p) /\ outcome[p].err
    /\ pc[p] \in LaterSteps \cup {"checkMoved", "adopt", "restore", "dropInherited"}
         => reserve[p] = Absent
    /\ pc[p] \in {"unlinkImage", "statDir", "rmdir", "report", "done"}
         => \/ reserve[p] = Absent
            \/ pending[p].created /\ outcome[p].err /\ outcome[p].unread

\* The staging directory is empty when it is time to remove it.
ContentsKnown(p) ==
    /\ staging[p].image # Absent => pending[p].dir /\ pending[p].owned
    /\ pc[p] \in {"createImage", "reserveName", "reserveInfo", "moveIn", "checkMoved", "adopt"}
         => pending[p].dir
    /\ pc[p] \in {"reserveName", "reserveInfo", "moveIn", "checkMoved", "adopt"}
         => pending[p].owned
    /\ pc[p] \in {"checkMoved", "dropInherited"} => staging[p].inherited = Inherited(p)
    /\ pc[p] \in LaterSteps \cup {"dropCheck", "dropUnlink", "restore", "unlinkImage", "statDir",
                                  "rmdir"}
         => staging[p].inherited = Absent
    /\ pc[p] \in {"statDir", "rmdir"} => staging[p].image = Absent

Entries(p) == /\ NothingYet(p) /\ AttrsRestored(p) /\ ErrorIsResult(p)
              /\ Alone(p) => StageKnown(p) /\ ReserveKnown(p) /\ ContentsKnown(p)

EntryInv == \A p \in Procs : Entries(p)

\* What Entries of a process depends on, but for its control and outcome.
SameEntries(q) == /\ stage'[q] = stage[q] /\ reserve'[q] = reserve[q]
                  /\ staging'[q] = staging[q] /\ meddled'[q] = meddled[q]
                  /\ pending'[q] = pending[q] /\ fileAttr'[q] = fileAttr[q]

LeavesEntries(p) == \A q \in Procs \ {p} : /\ SameEntries(q)
                                           /\ pc'[q] = pc[q] /\ outcome'[q] = outcome[q]

\* Before it starts an export has nothing anywhere.
LEMMA InitEntries == Init => EntryInv
<1> SUFFICES ASSUME Init, NEW p \in Procs PROVE Entries(p)
  BY DEF EntryInv
<1>1. /\ pc[p] = "start" /\ stage[p] = Absent /\ reserve[p] = Absent
      /\ staging[p].image = Absent /\ staging[p].inherited = Absent
      /\ ~pending[p].created /\ pending[p].attr = "none"
  BY DEF Init
<1>2. QED
  BY <1>1
     DEF Entries, NothingYet, AttrsRestored, ErrorIsResult, Alone, StageKnown, StageOrAbsent,
         ReserveKnown, ContentsKnown, FirstSteps, StagedSteps, LaterSteps, WrittenSteps,
         CommitSteps

\* The entries of the other exports stay what they are.
LEMMA EntryFrame ==
  ASSUME EntryInv, NEW p \in Procs, Entries(p)', LeavesEntries(p)
  PROVE  EntryInv'
<1>1. ASSUME NEW q \in Procs \ {p} PROVE Entries(q)'
  <2>1. Entries(q)
    BY DEF EntryInv
  <2>2. QED
    BY <2>1
       DEF LeavesEntries, SameEntries, Entries, NothingYet, AttrsRestored, ErrorIsResult, Alone,
           StageKnown, StageOrAbsent, ReserveKnown, ContentsKnown
<1>2. QED
  BY <1>1 DEF EntryInv


\* A step that tests something changes its own control only.
LEMMA TestEntries ==
  ASSUME TypeOK, NEW p \in Procs, NEW l, NEW ok \in BOOLEAN, NEW next, Test(p, l, ok, next)
  PROVE  /\ pc[p] = l /\ SameEntries(p) /\ LeavesEntries(p)
         /\ outcome'[p].cleanErr = outcome[p].cleanErr /\ outcome'[p].unread = outcome[p].unread
         /\ outcome'[p].result = outcome[p].result
         /\ IF ok THEN pc'[p] = next /\ outcome'[p].err = outcome[p].err
                  ELSE pc'[p] = "unlinkImage" /\ outcome'[p].err
<1>1. UNCHANGED <<stage, reserve, staging, meddled, pending, fileAttr>>
  BY DEF Test, dataVars, given, contents
<1>2. /\ pc[p] = l /\ outcome'[p].cleanErr = outcome[p].cleanErr
      /\ outcome'[p].unread = outcome[p].unread
      /\ outcome'[p].result = outcome[p].result
      /\ IF ok THEN pc'[p] = next /\ outcome'[p].err = outcome[p].err
               ELSE pc'[p] = "unlinkImage" /\ outcome'[p].err
      /\ \A q \in Procs \ {p} : pc'[q] = pc[q] /\ outcome'[q] = outcome[q]
  BY DEF Test, Check, At, Goto, Abort, TypeOK, Outcome
<1>3. QED
  BY <1>1, <1>2 DEF SameEntries, LeavesEntries

\* Once everything is reserved nothing changes until the export ends.
LEMMA LaterEntries ==
  ASSUME EntryInv, NEW p \in Procs, SameEntries(p), LeavesEntries(p),
         pc[p] \in LaterSteps, pc'[p] \in LaterSteps \cup {"unlinkImage"},
         pc[p] = "printKey" => pc'[p] = "unlinkImage",
         outcome'[p].cleanErr = outcome[p].cleanErr
  PROVE  EntryInv'
<1>1. Entries(p)
  BY DEF EntryInv
<1>2. Entries(p)'
  BY <1>1
     DEF SameEntries, Entries, NothingYet, AttrsRestored, ErrorIsResult, Alone, StageKnown,
         StageOrAbsent, ReserveKnown, ContentsKnown, FirstSteps, StagedSteps, LaterSteps,
         WrittenSteps, CommitSteps
<1>3. QED
  BY <1>2, EntryFrame

\* The same of a test between those steps.
LEMMA LaterTest ==
  ASSUME TypeOK, EntryInv, NEW p \in Procs, NEW l \in LaterSteps \ {"printKey"}, NEW ok \in BOOLEAN,
         NEW next \in LaterSteps \cup {"unlinkImage"}, Test(p, l, ok, next)
  PROVE  EntryInv'
  BY TestEntries, LaterEntries

\* Writing, verifying, uploading and the first steps of commit.
LEMMA WriteEntries ==
  ASSUME TypeOK, EntryInv, NEW p \in Procs,
         WriteStep(p) \/ StdoutStep(p) \/ CommitVerify(p) \/ CommitStat(p) \/ CommitCtx(p)
  PROVE  EntryInv'
<1> USE DEF LaterSteps, WrittenSteps, CommitSteps
<1>1. CASE Prepare(p)
  BY <1>1, LaterTest DEF Prepare
<1>2. CASE WriteChunk(p)
  <2>1. /\ pc[p] = "write" /\ UNCHANGED <<pc, outcome>>
        /\ UNCHANGED <<stage, reserve, staging, meddled, pending, fileAttr>>
    BY <1>2 DEF WriteChunk, Append1, At, control, given
  <2>2. QED
    BY <2>1, LaterEntries DEF SameEntries, LeavesEntries
<1>3. CASE StreamChunk(p) \/ CopyChunk(p)
  <2>1. /\ pc[p] \in {"write", "copyOut"}
        /\ UNCHANGED <<pc, outcome, stage, reserve, staging, meddled, pending, fileAttr>>
    BY <1>3 DEF StreamChunk, CopyChunk, Stream, At, control, given
  <2>2. QED
    BY <2>1, LaterEntries DEF SameEntries, LeavesEntries
<1>4. CASE CloseWriter(p)
  BY <1>4, LaterTest DEF CloseWriter
<1>5. CASE VerifyWritten(p)
  <2>1. AfterWritten(p) \in {"copyOut", "ctxAfterUpload", "ingest"} /\ Verified(p) \in BOOLEAN
    BY DEF AfterWritten, Verified
  <2>2. QED
    BY <1>5, <2>1, LaterTest DEF VerifyWritten
<1>6. CASE CopyDone(p)
  BY <1>6, LaterTest DEF CopyDone
<1>7. CASE Ingest(p) \/ PrintKey(p)
  <2>1. UNCHANGED <<stage, reserve, staging, meddled, pending, fileAttr>>
    BY <1>7 DEF Ingest, PrintKey, dataVars, given, contents
  <2>2. /\ \/ pc[p] = "ingest" /\ pc'[p] = "ctxAfterUpload"
           \/ pc[p] = "printKey" /\ pc'[p] = "unlinkImage"
        /\ outcome'[p].cleanErr = outcome[p].cleanErr
        /\ \A q \in Procs \ {p} : pc'[q] = pc[q] /\ outcome'[q] = outcome[q]
    BY <1>7 DEF Ingest, PrintKey, At, Goto, TypeOK, Outcome
  <2>3. QED
    BY <2>1, <2>2, LaterEntries DEF SameEntries, LeavesEntries
<1>8. CASE CtxAfterUpload(p)
  BY <1>8, LaterTest DEF CtxAfterUpload, TypeOK
<1>9. CASE CloseFile(p)
  BY <1>9, LaterTest DEF CloseFile
<1>10. CASE VerifyClosed(p)
  BY <1>10, LaterTest DEF VerifyClosed, Verified
<1>11. CASE CtxBeforeCommit(p)
  <2> DEFINE next == CASE Named(p)               -> "commitVerify"
                       [] ~Named(p) /\ Upload(p) -> "printKey"
                       [] OTHER                  -> "unlinkImage"
  <2>1. next \in {"commitVerify", "printKey", "unlinkImage"}
    OBVIOUS
  <2>2. Test(p, "ctxBeforeCommit", ~cancelled[p], next)
    BY <1>11 DEF CtxBeforeCommit
  <2> HIDE DEF next
  <2>3. QED
    BY <2>1, <2>2, LaterTest DEF TypeOK
<1>12. CASE CommitVerify(p)
  BY <1>12, LaterTest DEF CommitVerify, Verified
<1>13. CASE CommitStat(p)
  BY <1>13, LaterTest DEF CommitStat, RegularOrAbsent
<1>14. CASE CommitCtx(p)
  BY <1>14, LaterTest DEF CommitCtx, TypeOK
<1>15. QED
  BY <1>1, <1>2, <1>3, <1>4, <1>5, <1>6, <1>7, <1>8, <1>9, <1>10, <1>11, <1>12, <1>13, <1>14
     DEF WriteStep, StdoutStep

\* Reserving: the directory, then the file in it.
LEMMA ReserveEntries ==
  ASSUME TypeOK, EntryInv, NEW p \in Procs, ReserveStep(p)
  PROVE  EntryInv'
<1>a. Entries(p)
  BY DEF EntryInv
<1> USE DEF LeavesEntries, SameEntries, given, contents
<1>1. CASE Start(p)
  <2> DEFINE ok == Named(p) => RegularOrAbsent(out)
             next == IF HasPending(p) THEN "reserve" ELSE "prepare"
  <2>1. Test(p, "start", ok, next) /\ ok \in BOOLEAN /\ next \in {"reserve", "prepare"}
    BY <1>1 DEF Start
  <2> HIDE DEF ok, next
  <2>2. /\ pc[p] = "start" /\ SameEntries(p) /\ LeavesEntries(p)
        /\ outcome'[p].cleanErr = outcome[p].cleanErr
        /\ \/ pc'[p] \in {"reserve", "prepare"}
           \/ pc'[p] = "unlinkImage" /\ outcome'[p].err
    BY <2>1, TestEntries
  <2>3. Entries(p)'
    BY <1>a, <2>2
       DEF Entries, NothingYet, AttrsRestored, ErrorIsResult, Alone, StageKnown, StageOrAbsent,
           ReserveKnown, ContentsKnown, FirstSteps, StagedSteps, LaterSteps, WrittenSteps,
           CommitSteps
  <2>4. QED
    BY <2>2, <2>3, EntryFrame
<1>2. CASE ReserveParent(p)
  <2>1. LeavesEntries(p)
    BY <1>2 DEF ReserveParent, Check, At, Goto, Abort, TypeOK
  <2>2. /\ pc[p] = "reserve"
        /\ \/ pc'[p] \in {"replaceable", "mkdir"}
           \/ pc'[p] = "unlinkImage" /\ outcome'[p].err
        /\ outcome'[p].cleanErr = outcome[p].cleanErr
    BY <1>2 DEF ReserveParent, Check, At, Goto, Abort, TypeOK, Outcome
  <2>3. /\ UNCHANGED <<stage, reserve, staging, meddled, fileAttr>>
        /\ pending'[p].created = pending[p].created
        /\ pending'[p].dir = pending[p].dir /\ pending'[p].owned = pending[p].owned
    BY <1>2 DEF ReserveParent, TypeOK, PendingArtifact
  <2>4. Entries(p)'
    BY <1>a, <2>2, <2>3
       DEF Entries, NothingYet, AttrsRestored, ErrorIsResult, Alone, StageKnown, StageOrAbsent,
           ReserveKnown, ContentsKnown, FirstSteps, StagedSteps, LaterSteps, WrittenSteps,
           CommitSteps
  <2>5. QED
    BY <2>1, <2>4, EntryFrame
<1>3. CASE CheckReplaceable(p)
  <2>1. /\ pc[p] = "replaceable" /\ pc'[p] = "mkdir" /\ SameEntries(p) /\ LeavesEntries(p)
        /\ outcome'[p].cleanErr = outcome[p].cleanErr
    BY <1>3, TestEntries DEF CheckReplaceable
  <2>2. Entries(p)'
    BY <1>a, <2>1
       DEF Entries, NothingYet, AttrsRestored, ErrorIsResult, Alone, StageKnown, StageOrAbsent,
           ReserveKnown, ContentsKnown, FirstSteps, StagedSteps, LaterSteps, WrittenSteps,
           CommitSteps
  <2>3. QED
    BY <2>1, <2>2, EntryFrame
<1>4. CASE MakeStage(p)
  <2>1. LeavesEntries(p)
    BY <1>4 DEF MakeStage, Move, Goto, TypeOK
  <2>2. /\ pc[p] = "mkdir" /\ pc'[p] = "statStage" /\ stage'[p] = StageDir(p)
        /\ UNCHANGED <<outcome, reserve, staging, meddled, pending, fileAttr>>
    BY <1>4 DEF MakeStage, Move, At, Goto, TypeOK
  <2>3. Entries(p)'
    BY <1>a, <2>2
       DEF Entries, NothingYet, AttrsRestored, ErrorIsResult, Alone, StageKnown, StageOrAbsent,
           ReserveKnown, ContentsKnown, FirstSteps, StagedSteps, LaterSteps, WrittenSteps,
           CommitSteps
  <2>4. QED
    BY <2>1, <2>3, EntryFrame
<1>5. CASE StatStage(p)
  <2>1. LeavesEntries(p)
    BY <1>5 DEF StatStage, Check, At, Goto, Abort, TypeOK
  <2>2. /\ pc[p] = "statStage"
        /\ IF stage[p] = StageDir(p) THEN pc'[p] = "openStage"
                                     ELSE pc'[p] = "unlinkImage" /\ outcome'[p].err
        /\ outcome'[p].cleanErr = outcome[p].cleanErr
    BY <1>5 DEF StatStage, Check, At, Goto, Abort, TypeOK, Outcome
  <2>3. /\ UNCHANGED <<stage, reserve, staging, meddled, fileAttr>>
        /\ pending'[p].created = (stage[p] = StageDir(p))
        /\ pending'[p].dir = pending[p].dir /\ pending'[p].owned = pending[p].owned
    BY <1>5 DEF StatStage, TypeOK, PendingArtifact
  <2>4. Entries(p)'
    BY <1>a, <2>2, <2>3
       DEF Entries, NothingYet, AttrsRestored, ErrorIsResult, Alone, StageKnown, StageOrAbsent,
           ReserveKnown, ContentsKnown, FirstSteps, StagedSteps, LaterSteps, WrittenSteps,
           CommitSteps
  <2>5. QED
    BY <2>1, <2>4, EntryFrame
<1>6. CASE OpenStage(p)
  <2>1. LeavesEntries(p)
    BY <1>6 DEF OpenStage, Check, At, Goto, Abort, TypeOK
  <2>2. /\ pc[p] = "openStage"
        /\ IF stage[p] = StageDir(p) THEN pc'[p] = "createImage"
                                     ELSE pc'[p] = "unlinkImage" /\ outcome'[p].err
        /\ outcome'[p].cleanErr = outcome[p].cleanErr
    BY <1>6 DEF OpenStage, Check, At, Goto, Abort, TypeOK, Outcome
  <2>3. /\ UNCHANGED <<stage, reserve, staging, meddled, fileAttr>>
        /\ pending'[p].created = pending[p].created
        /\ pending'[p].dir = IsDir(stage[p]) /\ pending'[p].owned = pending[p].owned
    BY <1>6 DEF OpenStage, TypeOK, PendingArtifact
  <2>4. stage[p] = StageDir(p) => IsDir(stage[p])
    BY DEF StageDir, IsDir
  <2>5. Alone(p) => staging[p].image = Absent \/ pending'[p].dir
    BY <1>a, <2>2, <2>3, <2>4 DEF Entries, StageKnown, StagedSteps
  <2>6. Entries(p)'
    BY <1>a, <2>2, <2>3, <2>4, <2>5
       DEF Entries, NothingYet, AttrsRestored, ErrorIsResult, Alone, StageKnown, StageOrAbsent,
           ReserveKnown, ContentsKnown, FirstSteps, StagedSteps, LaterSteps, WrittenSteps,
           CommitSteps
  <2>7. QED
    BY <2>1, <2>6, EntryFrame
<1>7. CASE CreateImage(p)
  <2>1. LeavesEntries(p)
    BY <1>7 DEF CreateImage, Move, Goto, TypeOK
  <2>2. /\ pc[p] = "createImage" /\ pc'[p] \in {"reserveName", "restore"}
        /\ UNCHANGED <<outcome, stage, reserve, meddled>>
    BY <1>7 DEF CreateImage, Move, At, Goto, TypeOK
  <2>3. /\ staging'[p].inherited = staging[p].inherited
        /\ pending'[p].created = pending[p].created
        /\ pending'[p].dir = pending[p].dir /\ pending'[p].owned
    BY <1>7 DEF CreateImage, TypeOK, PendingArtifact, Directory
  <2>4. Entries(p)'
    BY <1>a, <2>2, <2>3
       DEF Entries, NothingYet, AttrsRestored, ErrorIsResult, Alone, StageKnown, StageOrAbsent,
           ReserveKnown, ContentsKnown, FirstSteps, StagedSteps, LaterSteps, WrittenSteps,
           CommitSteps
  <2>5. QED
    BY <2>1, <2>4, EntryFrame
<1>8. CASE RestoreAttrs(p)
  <2>1. LeavesEntries(p)
    BY <1>8 DEF RestoreAttrs, Restore, Move, Goto, TypeOK
  <2>2. /\ pc[p] = "restore" /\ pc'[p] = "prepare"
        /\ UNCHANGED <<outcome, stage, reserve, staging, meddled, pending>>
    BY <1>8 DEF RestoreAttrs, Restore, Move, At, Goto, TypeOK
  <2>3. pending[p].attr \in {"none", fileAttr'[p]}
    BY <1>8 DEF RestoreAttrs, Restore, TypeOK
  <2>4. Entries(p)'
    BY <1>a, <2>2, <2>3
       DEF Entries, NothingYet, AttrsRestored, ErrorIsResult, Alone, StageKnown, StageOrAbsent,
           ReserveKnown, ContentsKnown, FirstSteps, StagedSteps, LaterSteps, WrittenSteps,
           CommitSteps
  <2>5. QED
    BY <2>1, <2>4, EntryFrame
<1>9. QED
  BY <1>1, <1>2, <1>3, <1>4, <1>5, <1>6, <1>7, <1>8 DEF ReserveStep

\* The public reservation and its move into the staging directory.
LEMMA InheritEntries ==
  ASSUME TypeOK, EntryInv, NEW p \in Procs, InheritStep(p)
  PROVE  EntryInv'
<1>a. Entries(p)
  BY DEF EntryInv
<1>b. Absent # Inherited(p) /\ ~IsDir(Inherited(p))
  BY DEF Absent, Inherited, IsDir
<1> USE DEF LeavesEntries, SameEntries, given, contents
<1>1. CASE ReserveName(p)
  <2>1. LeavesEntries(p)
    BY <1>1 DEF ReserveName, Move, Goto, TypeOK
  <2>2. /\ pc[p] = "reserveName" /\ pc'[p] = "reserveInfo"
        /\ reserve'[p] = Inherited(p) /\ fileAttr'[p] = "hidden"
        /\ UNCHANGED <<outcome, stage, staging, meddled, pending>>
    BY <1>1 DEF ReserveName, Move, At, Goto, TypeOK
  <2>3. Entries(p)'
    BY <1>a, <2>2
       DEF Entries, NothingYet, AttrsRestored, ErrorIsResult, Alone, StageKnown, StageOrAbsent,
           ReserveKnown, ContentsKnown, FirstSteps, StagedSteps, LaterSteps, WrittenSteps,
           CommitSteps
  <2>4. QED
    BY <2>1, <2>3, EntryFrame
<1>2. CASE ReserveInfo(p)
  <2>1. /\ pc[p] = "reserveInfo" /\ pc'[p] = "moveIn" /\ SameEntries(p) /\ LeavesEntries(p)
        /\ outcome'[p].cleanErr = outcome[p].cleanErr
    BY <1>2, TestEntries DEF ReserveInfo
  <2>2. Entries(p)'
    BY <1>a, <2>1
       DEF Entries, NothingYet, AttrsRestored, ErrorIsResult, Alone, StageKnown, StageOrAbsent,
           ReserveKnown, ContentsKnown, FirstSteps, StagedSteps, LaterSteps, WrittenSteps,
           CommitSteps
  <2>3. QED
    BY <2>1, <2>2, EntryFrame
<1>3. CASE MoveIn(p)
  <2>1. LeavesEntries(p)
    BY <1>3 DEF MoveIn, Move, Goto, TypeOK
  <2>2. /\ pc[p] = "moveIn" /\ pc'[p] = "checkMoved" /\ reserve'[p] = Absent
        /\ UNCHANGED <<outcome, stage, meddled, pending, fileAttr>>
    BY <1>3 DEF MoveIn, Move, At, Goto, TypeOK
  <2>3. staging'[p].image = staging[p].image /\ staging'[p].inherited = reserve[p]
    BY <1>3 DEF MoveIn, TypeOK, Directory
  <2>4. Entries(p)'
    BY <1>a, <2>2, <2>3
       DEF Entries, NothingYet, AttrsRestored, ErrorIsResult, Alone, StageKnown, StageOrAbsent,
           ReserveKnown, ContentsKnown, FirstSteps, StagedSteps, LaterSteps, WrittenSteps,
           CommitSteps
  <2>5. QED
    BY <2>1, <2>4, EntryFrame
<1>4. CASE CheckMoved(p)
  <2>1. LeavesEntries(p)
    BY <1>4 DEF CheckMoved, Move, Goto, TypeOK
  <2>2. /\ pc[p] = "checkMoved" /\ pc'[p] = "adopt" /\ staging[p].inherited = Inherited(p)
        /\ UNCHANGED <<outcome, stage, reserve, staging, meddled, pending>>
    BY <1>4 DEF CheckMoved, Move, At, Goto, TypeOK
  <2>3. Entries(p)'
    BY <1>a, <2>2
       DEF Entries, NothingYet, AttrsRestored, ErrorIsResult, Alone, StageKnown, StageOrAbsent,
           ReserveKnown, ContentsKnown, FirstSteps, StagedSteps, LaterSteps, WrittenSteps,
           CommitSteps
  <2>4. QED
    BY <2>1, <2>3, EntryFrame
<1>5. CASE Adopt(p)
  <2>1. LeavesEntries(p)
    BY <1>5 DEF Adopt, Move, Goto, TypeOK
  <2>2. /\ pc[p] = "adopt" /\ pc'[p] = "restore"
        /\ UNCHANGED <<outcome, stage, reserve, meddled, fileAttr>>
    BY <1>5 DEF Adopt, Move, At, Goto, TypeOK
  <2>3. /\ staging'[p].inherited = Absent
        /\ pending'[p].created = pending[p].created
        /\ pending'[p].dir = pending[p].dir /\ pending'[p].owned = pending[p].owned
    BY <1>5 DEF Adopt, TypeOK, Directory, PendingArtifact
  <2>4. Entries(p)'
    BY <1>a, <2>2, <2>3
       DEF Entries, NothingYet, AttrsRestored, ErrorIsResult, Alone, StageKnown, StageOrAbsent,
           ReserveKnown, ContentsKnown, FirstSteps, StagedSteps, LaterSteps, WrittenSteps,
           CommitSteps
  <2>5. QED
    BY <2>1, <2>4, EntryFrame
<1>6. CASE DropCheck(p)
  <2> DEFINE next == IF reserve[p] = Inherited(p) THEN "dropUnlink" ELSE "unlinkImage"
  <2>1. Test(p, "dropCheck", TRUE, next)
    BY <1>6 DEF DropCheck
  <2>0. next = IF reserve[p] = Inherited(p) THEN "dropUnlink" ELSE "unlinkImage"
    OBVIOUS
  <2> HIDE DEF next
  <2>2. /\ pc[p] = "dropCheck" /\ pc'[p] = next /\ SameEntries(p) /\ LeavesEntries(p)
        /\ outcome'[p].cleanErr = outcome[p].cleanErr /\ outcome'[p].err = outcome[p].err
    BY <2>1, TestEntries
  <2>3. Entries(p)'
    BY <1>a, <2>0, <2>2
       DEF Entries, NothingYet, AttrsRestored, ErrorIsResult, Alone, StageKnown, StageOrAbsent,
           ReserveKnown, ContentsKnown, FirstSteps, StagedSteps, LaterSteps, WrittenSteps,
           CommitSteps
  <2>4. QED
    BY <2>2, <2>3, EntryFrame
<1>7. CASE DropUnlink(p)
  <2>1. LeavesEntries(p)
    BY <1>7 DEF DropUnlink, Move, Goto, TypeOK
  <2>2. /\ pc[p] = "dropUnlink" /\ pc'[p] = "unlinkImage"
        /\ reserve'[p] = IF IsDir(reserve[p]) THEN reserve[p] ELSE Absent
        /\ UNCHANGED <<outcome, stage, staging, meddled, pending, fileAttr>>
    BY <1>7 DEF DropUnlink, Move, At, Goto, TypeOK
  <2>3. Entries(p)'
    BY <1>a, <1>b, <2>2
       DEF Entries, NothingYet, AttrsRestored, ErrorIsResult, Alone, StageKnown, StageOrAbsent,
           ReserveKnown, ContentsKnown, FirstSteps, StagedSteps, LaterSteps, WrittenSteps,
           CommitSteps
  <2>4. QED
    BY <2>1, <2>3, EntryFrame
<1>8. CASE DropInherited(p)
  <2>1. LeavesEntries(p)
    BY <1>8 DEF DropInherited, Move, Goto, TypeOK
  <2>2. /\ pc[p] = "dropInherited" /\ pc'[p] = "unlinkImage"
        /\ UNCHANGED <<outcome, stage, reserve, meddled, pending, fileAttr>>
    BY <1>8 DEF DropInherited, Move, At, Goto, TypeOK
  <2>3. /\ staging'[p].image = staging[p].image
        /\ staging'[p].inherited =
             IF IsDir(staging[p].inherited) THEN staging[p].inherited ELSE Absent
    BY <1>8 DEF DropInherited, TypeOK, Directory
  <2>4. Entries(p)'
    BY <1>a, <1>b, <2>2, <2>3
       DEF Entries, NothingYet, AttrsRestored, ErrorIsResult, Alone, StageKnown, StageOrAbsent,
           ReserveKnown, ContentsKnown, FirstSteps, StagedSteps, LaterSteps, WrittenSteps,
           CommitSteps
  <2>5. QED
    BY <2>1, <2>4, EntryFrame
<1>9. QED
  BY <1>1, <1>2, <1>3, <1>4, <1>5, <1>6, <1>7, <1>8 DEF InheritStep


\* The file leaves the staging directory by the rename.
LEMMA RenameEntries ==
  ASSUME TypeOK, EntryInv, NEW p \in Procs, Rename(p)
  PROVE  EntryInv'
<1>1. Entries(p)
  BY DEF EntryInv
<1>2. LeavesEntries(p)
  BY DEF Rename, Goto, TypeOK, LeavesEntries, SameEntries, given, contents
<1>3. /\ pc[p] = "rename" /\ pc'[p] \in {"printKey", "unlinkImage"}
      /\ outcome'[p].cleanErr = outcome[p].cleanErr
      /\ UNCHANGED <<stage, reserve, meddled, pending, fileAttr>>
  BY DEF Rename, At, Goto, TypeOK, Outcome, given, contents
<1>4. staging'[p].image = Absent /\ staging'[p].inherited = staging[p].inherited
  BY DEF Rename, TypeOK, Directory
<1>5. Entries(p)'
  BY <1>1, <1>3, <1>4
     DEF Entries, NothingYet, AttrsRestored, ErrorIsResult, Alone, StageKnown, StageOrAbsent,
         ReserveKnown, ContentsKnown, FirstSteps, StagedSteps, LaterSteps, WrittenSteps,
         CommitSteps
<1>6. QED
  BY <1>2, <1>5, EntryFrame

\* Cleanup: the file, the identity of the directory, the directory, the report.
LEMMA CleanupEntries ==
  ASSUME TypeOK, EntryInv, NEW p \in Procs, CleanupStep(p)
  PROVE  EntryInv'
<1>a. Entries(p)
  BY DEF EntryInv
<1> USE DEF LeavesEntries, SameEntries, given, contents
<1>1. CASE UnlinkImage(p)
  <2>1. LeavesEntries(p)
    BY <1>1 DEF UnlinkImage, Move, Goto, TypeOK
  <2>2. /\ pc[p] = "unlinkImage"
        /\ pc'[p] = IF pending[p].created THEN "statDir" ELSE "report"
        /\ UNCHANGED <<outcome, stage, reserve, meddled, pending, fileAttr>>
    BY <1>1 DEF UnlinkImage, AfterUnlink, Move, At, Goto, TypeOK
  <2>3. /\ staging'[p].inherited = staging[p].inherited
        /\ staging'[p].image =
             IF pending[p].dir /\ pending[p].owned THEN Absent ELSE staging[p].image
    BY <1>1 DEF UnlinkImage, TypeOK, Directory
  <2>4. pending[p].created \in BOOLEAN
    BY DEF TypeOK, PendingArtifact
  <2>5. Entries(p)'
    BY <1>a, <2>2, <2>3, <2>4
       DEF Entries, NothingYet, AttrsRestored, ErrorIsResult, Alone, StageKnown, StageOrAbsent,
           ReserveKnown, ContentsKnown, FirstSteps, StagedSteps, LaterSteps, WrittenSteps,
           CommitSteps
  <2>6. QED
    BY <2>1, <2>5, EntryFrame
<1>2. CASE StatDir(p)
  <2> DEFINE next == IF stage[p] = StageDir(p) THEN "rmdir" ELSE "report"
  <2>1. Test(p, "statDir", TRUE, next)
    BY <1>2 DEF StatDir
  <2>2. next = IF stage[p] = StageDir(p) THEN "rmdir" ELSE "report"
    OBVIOUS
  <2> HIDE DEF next
  <2>3. /\ pc[p] = "statDir" /\ pc'[p] = next /\ SameEntries(p) /\ LeavesEntries(p)
        /\ outcome'[p].cleanErr = outcome[p].cleanErr /\ outcome'[p].err = outcome[p].err
        /\ outcome'[p].unread = outcome[p].unread
    BY <2>1, TestEntries
  <2>4. Entries(p)'
    BY <1>a, <2>2, <2>3
       DEF Entries, NothingYet, AttrsRestored, ErrorIsResult, Alone, StageKnown, StageOrAbsent,
           ReserveKnown, ContentsKnown, FirstSteps, StagedSteps, LaterSteps, WrittenSteps,
           CommitSteps
  <2>5. QED
    BY <2>3, <2>4, EntryFrame
<1>3. CASE Rmdir(p)
  <2>1. LeavesEntries(p)
    BY <1>3 DEF Rmdir, RemoveStage, Move, Goto, TypeOK
  <2>2. /\ pc[p] = "rmdir" /\ pc'[p] = "report" /\ stage'[p] = Absent
        /\ UNCHANGED <<outcome, reserve, staging, meddled, pending, fileAttr>>
    BY <1>3 DEF Rmdir, RemoveStage, Move, At, Goto, TypeOK
  <2>3. Entries(p)'
    BY <1>a, <2>2
       DEF Entries, NothingYet, AttrsRestored, ErrorIsResult, Alone, StageKnown, StageOrAbsent,
           ReserveKnown, ContentsKnown, FirstSteps, StagedSteps, LaterSteps, WrittenSteps,
           CommitSteps
  <2>4. QED
    BY <2>1, <2>3, EntryFrame
<1>4. CASE Report(p)
  <2>1. /\ pc[p] = "report" /\ pc'[p] = "done"
        /\ \A q \in Procs \ {p} : pc'[q] = pc[q] /\ outcome'[q] = outcome[q]
        /\ UNCHANGED <<stage, reserve, staging, meddled, pending, fileAttr>>
    BY <1>4 DEF Report, Exit, At, Goto, TypeOK, dataVars
  <2>2. /\ outcome'[p].err = outcome[p].err /\ outcome'[p].cleanErr = outcome[p].cleanErr
        /\ outcome'[p].unread = outcome[p].unread
        /\ outcome[p].err => outcome'[p].result = "error"
    BY <1>4 DEF Report, Exit, TypeOK, Outcome
  <2>3. Entries(p)'
    BY <1>a, <2>1, <2>2
       DEF Entries, NothingYet, AttrsRestored, ErrorIsResult, Alone, StageKnown, StageOrAbsent,
           ReserveKnown, ContentsKnown, FirstSteps, StagedSteps, LaterSteps, WrittenSteps,
           CommitSteps
  <2>4. QED
    BY <2>1, <2>3, EntryFrame
<1>5. QED
  BY <1>1, <1>2, <1>3, <1>4 DEF CleanupStep

\* An error return leaves what its deferred cleanup is to remove.
LEMMA FailEntries ==
  ASSUME TypeOK, EntryInv, NEW p \in Procs, StepFails(p)
  PROVE  EntryInv'
<1>1. Entries(p)
  BY DEF EntryInv
<1>2. /\ UNCHANGED <<stage, reserve, staging, meddled, pending, fileAttr>>
      /\ pc[p] \in BodySteps /\ pc'[p] = ErrorExit(pc[p])
      /\ outcome'[p].err /\ outcome'[p].cleanErr = outcome[p].cleanErr
      /\ outcome'[p].unread = (outcome[p].unread \/ pc[p] = "reserveInfo")
      /\ \A q \in Procs \ {p} : pc'[q] = pc[q] /\ outcome'[q] = outcome[q]
  BY DEF StepFails, At, Goto, TypeOK, Outcome, dataVars, given, contents
<1>3. CASE pc[p] = "moveIn"
  <2>1. pc'[p] = "dropCheck"
    BY <1>2, <1>3 DEF ErrorExit
  <2>2. Entries(p)'
    BY <1>1, <1>2, <1>3, <2>1
       DEF Entries, NothingYet, AttrsRestored, ErrorIsResult, Alone, StageKnown, StageOrAbsent,
           ReserveKnown, ContentsKnown, FirstSteps, StagedSteps, LaterSteps, WrittenSteps,
           CommitSteps
  <2>3. QED
    BY <1>2, <2>2, EntryFrame DEF LeavesEntries, SameEntries
<1>4. CASE pc[p] \in {"checkMoved", "adopt"}
  <2>1. pc'[p] = "dropInherited"
    BY <1>2, <1>4 DEF ErrorExit
  <2>2. Entries(p)'
    BY <1>1, <1>2, <1>4, <2>1
       DEF Entries, NothingYet, AttrsRestored, ErrorIsResult, Alone, StageKnown, StageOrAbsent,
           ReserveKnown, ContentsKnown, FirstSteps, StagedSteps, LaterSteps, WrittenSteps,
           CommitSteps
  <2>3. QED
    BY <1>2, <2>2, EntryFrame DEF LeavesEntries, SameEntries
<1>5. CASE pc[p] \notin {"moveIn", "checkMoved", "adopt"}
  <2>1. pc'[p] = "unlinkImage"
    BY <1>2, <1>5 DEF ErrorExit
  <2>2. pc[p] \in FirstSteps \cup LaterSteps \cup {"statStage", "openStage", "createImage",
                                                  "reserveName", "reserveInfo", "restore"}
    BY <1>2, <1>5 DEF BodySteps, FirstSteps, StagedSteps, LaterSteps, WrittenSteps, CommitSteps
  <2>3. NothingYet(p)' /\ AttrsRestored(p)' /\ ErrorIsResult(p)'
    BY <2>1
       DEF NothingYet, AttrsRestored, ErrorIsResult, FirstSteps, StagedSteps, LaterSteps,
           WrittenSteps, CommitSteps
  <2>4. Alone(p)' => StageKnown(p)' /\ ReserveKnown(p)' /\ ContentsKnown(p)'
    BY <1>1, <1>2, <2>1, <2>2
       DEF Entries, NothingYet, AttrsRestored, ErrorIsResult, Alone, StageKnown, StageOrAbsent,
           ReserveKnown, ContentsKnown, FirstSteps, StagedSteps, LaterSteps, WrittenSteps,
           CommitSteps
  <2>5. QED
    BY <1>2, <2>3, <2>4, EntryFrame DEF LeavesEntries, SameEntries, Entries
<1>6. QED
  BY <1>3, <1>4, <1>5

\* After a cleanup call failed, or somebody meddled, no more is claimed than
\* that the process creates nothing where others are; and when the name of the
\* reservation could not be read, that this is known.
LEMMA CleanFailEntries ==
  ASSUME TypeOK, EntryInv, NEW p \in Procs, CleanupFails(p)
  PROVE  EntryInv'
<1>a. Entries(p)
  BY DEF EntryInv
<1>1. /\ UNCHANGED <<stage, reserve, staging, meddled, pending, fileAttr>>
      /\ \A q \in Procs \ {p} : pc'[q] = pc[q] /\ outcome'[q] = outcome[q]
  BY DEF CleanupFails, Goto, TypeOK, dataVars, given, contents
<1>2. CASE pc[p] # "dropCheck"
  <2>1. /\ pc'[p] \in {"unlinkImage", "statDir", "report"}
        /\ outcome'[p].cleanErr
    BY <1>2 DEF CleanupFails, AfterUnlink, At, Goto, TypeOK, Outcome
  <2>2. Entries(p)'
    BY <2>1
       DEF Entries, NothingYet, AttrsRestored, ErrorIsResult, Alone, FirstSteps, StagedSteps,
           LaterSteps, WrittenSteps, CommitSteps
  <2>3. QED
    BY <1>1, <2>2, EntryFrame DEF LeavesEntries, SameEntries
<1>3. CASE pc[p] = "dropCheck"
  <2>1. /\ pc'[p] = "unlinkImage" /\ outcome'[p].unread
        /\ outcome'[p].cleanErr = outcome[p].cleanErr /\ outcome'[p].err = outcome[p].err
    BY <1>3 DEF CleanupFails, At, Goto, TypeOK, Outcome
  <2>2. Entries(p)'
    BY <1>a, <1>1, <1>3, <2>1
       DEF Entries, NothingYet, AttrsRestored, ErrorIsResult, Alone, StageKnown, StageOrAbsent,
           ReserveKnown, ContentsKnown, FirstSteps, StagedSteps, LaterSteps, WrittenSteps,
           CommitSteps
  <2>3. QED
    BY <1>1, <2>2, EntryFrame DEF LeavesEntries, SameEntries
<1>4. QED
  BY <1>2, <1>3

\* Of a process that died nothing is claimed.
LEMMA DieEntries ==
  ASSUME TypeOK, EntryInv, NEW p \in Procs, Die(p)
  PROVE  EntryInv'
<1>1. Entries(p)
  BY DEF EntryInv
<1>2. /\ UNCHANGED <<stage, reserve, staging, meddled, pending, fileAttr, outcome>>
      /\ pc'[p] = "killed"
      /\ \A q \in Procs \ {p} : pc'[q] = pc[q]
  BY DEF Die, Goto, TypeOK, dataVars, given, contents
<1>3. Entries(p)'
  BY <1>1, <1>2
     DEF Entries, NothingYet, AttrsRestored, ErrorIsResult, Alone, StageKnown, StageOrAbsent,
         ReserveKnown, ContentsKnown, FirstSteps, StagedSteps, LaterSteps, WrittenSteps,
         CommitSteps
<1>4. QED
  BY <1>2, <1>3, EntryFrame DEF LeavesEntries, SameEntries

\* Nobody can take an entry that is not there.
LEMMA AsideEntries ==
  ASSUME TypeOK, EntryInv, Aside
  PROVE  EntryInv'
<1>1. CASE OthersChangeOutput
  <2>1. UNCHANGED <<pc, outcome, stage, reserve, staging, meddled, pending, fileAttr>>
    BY <1>1 DEF OthersChangeOutput, Meddle, control, contents
  <2>2. QED
    BY <2>1
       DEF EntryInv, Entries, NothingYet, AttrsRestored, ErrorIsResult, Alone, StageKnown,
           StageOrAbsent, ReserveKnown, ContentsKnown
<1>2. ASSUME NEW p \in Procs, Cancel(p) \/ RestoreSignals(p) PROVE EntryInv'
  <2>1. UNCHANGED <<pc, outcome, stage, reserve, staging, meddled, pending, fileAttr>>
    BY <1>2 DEF Cancel, RestoreSignals, Restoring, control, contents
  <2>2. QED
    BY <2>1
       DEF EntryInv, Entries, NothingYet, AttrsRestored, ErrorIsResult, Alone, StageKnown,
           StageOrAbsent, ReserveKnown, ContentsKnown
<1>3. ASSUME NEW p \in Procs, OthersStep(p) PROVE EntryInv'
  <2>a. Entries(p)
    BY DEF EntryInv
  <2>1. /\ UNCHANGED <<pc, outcome, pending, fileAttr>> /\ meddled'[p]
        /\ \A q \in Procs \ {p} : meddled'[q] = meddled[q]
    BY <1>3 DEF OthersStep, OthersTakeStage, OthersTakeReserve, OthersTakeImage, MeddleWith, Meddle,
                control, contents, TypeOK
  <2>2. /\ stage[p] = Absent => stage'[p] = Absent
        /\ reserve[p] = Absent => reserve'[p] = Absent
        /\ staging'[p].inherited = staging[p].inherited
        /\ \A q \in Procs \ {p} :
             stage'[q] = stage[q] /\ reserve'[q] = reserve[q] /\ staging'[q] = staging[q]
    <3>1. CASE OthersTakeStage(p)
      BY <3>1 DEF OthersTakeStage, MeddleWith, TypeOK
    <3>2. CASE OthersTakeReserve(p)
      BY <3>2 DEF OthersTakeReserve, MeddleWith, TypeOK
    <3>3. CASE OthersTakeImage(p)
      BY <3>3 DEF OthersTakeImage, MeddleWith, TypeOK, Directory
    <3>4. QED
      BY <1>3, <3>1, <3>2, <3>3 DEF OthersStep
  <2>3. Entries(p)'
    BY <2>a, <2>1, <2>2
       DEF Entries, NothingYet, AttrsRestored, ErrorIsResult, Alone
  <2>4. LeavesEntries(p)
    BY <2>1, <2>2 DEF LeavesEntries, SameEntries
  <2>5. QED
    BY <2>3, <2>4, EntryFrame
<1>4. QED
  BY <1>1, <1>2, <1>3 DEF Aside

\* EntryInv is inductive relative to TypeOK.
LEMMA NextEntries == TypeOK /\ EntryInv /\ [Next]_vars => EntryInv'
<1> SUFFICES ASSUME TypeOK, EntryInv, [Next]_vars PROVE EntryInv'
  OBVIOUS
<1>1. CASE UNCHANGED vars
  <2>1. UNCHANGED <<pc, outcome, stage, reserve, staging, meddled, pending, fileAttr>>
    BY <1>1 DEF vars, dataVars, control, given, contents
  <2>2. QED
    BY <2>1
       DEF EntryInv, Entries, NothingYet, AttrsRestored, ErrorIsResult, Alone, StageKnown,
           StageOrAbsent, ReserveKnown, ContentsKnown
<1>2. CASE Aside
  BY <1>2, AsideEntries
<1>3. ASSUME NEW p \in Procs,
             \/ Rename(p) \/ Report(p) \/ Die(p)
             \/ ReserveStep(p) \/ InheritStep(p) \/ WriteStep(p) \/ StdoutStep(p)
             \/ CommitVerify(p) \/ CommitStat(p) \/ CommitCtx(p)
             \/ UnlinkImage(p) \/ StatDir(p) \/ Rmdir(p)
             \/ StepFails(p) \/ CleanupFails(p)
      PROVE  EntryInv'
  BY <1>3, RenameEntries, DieEntries, ReserveEntries, InheritEntries, WriteEntries,
     CleanupEntries, FailEntries, CleanFailEntries DEF CleanupStep
<1>4. QED
  BY <1>1, <1>2, <1>3, StepCases

\* What an export holds at its names is known at each of its steps.
THEOREM EntriesKnown == Spec => []EntryInv
  BY TypeCorrect, InitEntries, NextEntries, PTL DEF Spec

\* An export that reported, whose cleanup calls worked and whose names nobody
\* touched, left nothing in the parent, but for a staging directory it could
\* not verify, or a reservation whose Stat failed or whose name could not be
\* read; then it reported an error.
THEOREM ResidueCorrect == Spec => []NoResidue
<1>1. TypeOK /\ EntryInv => NoResidue
  <2> SUFFICES ASSUME TypeOK, EntryInv, NEW p \in Procs,
                      At(p, "done"), ~meddled[p], ~outcome[p].cleanErr
               PROVE  /\ stage[p] # Absent   => ~pending[p].created /\ outcome[p].result = "error"
                      /\ reserve[p] # Absent => outcome[p].unread /\ outcome[p].result = "error"
    BY DEF NoResidue
  <2>1. pc[p] = "done" /\ ErrorIsResult(p) /\ StageKnown(p) /\ ReserveKnown(p)
    BY DEF EntryInv, Entries, Alone, At
  <2>2. QED
    BY <2>1 DEF ErrorIsResult, StageKnown, ReserveKnown
<1>2. QED
  BY <1>1, TypeCorrect, EntriesKnown, PTL

(***************************************************************************)
(* What others have at the names of an export.                             *)
(***************************************************************************)
KeepsStage(p) ==
    stage[p].owner = Others /\ stage'[p] # stage[p] => stage[p].kind \in {"none", "emptydir"}
KeepsReserve(p) ==
    reserve[p].owner = Others /\ reserve[p] # Absent /\ reserve'[p] # reserve[p] =>
        ~IsDir(reserve[p]) \/ staging'[p].inherited = reserve[p]
KeepsInherited(p) ==
    staging[p].inherited.kind = "fulldir" => staging'[p].inherited = staging[p].inherited

\* Only these steps of an export change an entry at its names.
LEMMA EntrySteps ==
  ASSUME TypeOK, NEW p \in Procs, Export(p) \/ StepFails(p) \/ CleanupFails(p)
  PROVE  \/ MakeStage(p) \/ ReserveName(p) \/ MoveIn(p) \/ Adopt(p) \/ DropUnlink(p)
         \/ DropInherited(p) \/ Rmdir(p)
         \/ /\ stage'[p] = stage[p] /\ reserve'[p] = reserve[p]
            /\ staging'[p].inherited = staging[p].inherited
<1> DEFINE Kept == /\ stage'[p] = stage[p] /\ reserve'[p] = reserve[p]
                   /\ staging'[p].inherited = staging[p].inherited
<1>0. UNCHANGED dataVars => Kept
  BY DEF dataVars
<1> HIDE DEF Kept
<1>1. CASE ReserveStep(p)
  <2>1. CASE Start(p) \/ CheckReplaceable(p)
    BY <1>0, <2>1 DEF Start, CheckReplaceable, Test, Kept
  <2>2. CASE ReserveParent(p) \/ StatStage(p) \/ OpenStage(p) \/ RestoreAttrs(p)
    BY <2>2 DEF ReserveParent, StatStage, OpenStage, RestoreAttrs, Restore, Kept
  <2>3. CASE CreateImage(p)
    BY <2>3 DEF CreateImage, TypeOK, Directory, Kept
  <2>4. QED
    BY <1>1, <2>1, <2>2, <2>3 DEF ReserveStep, Kept
<1>2. CASE InheritStep(p)
  <2>1. CASE ReserveInfo(p) \/ DropCheck(p)
    BY <1>0, <2>1 DEF ReserveInfo, DropCheck, Test, Kept
  <2>2. CASE CheckMoved(p)
    BY <2>2 DEF CheckMoved, Kept
  <2>3. QED
    BY <1>2, <2>1, <2>2 DEF InheritStep, Kept
<1>3. CASE WriteStep(p) \/ StdoutStep(p)
  <2>1. CASE WriteChunk(p) \/ StreamChunk(p) \/ CopyChunk(p)
    BY <2>1 DEF WriteChunk, Append1, StreamChunk, CopyChunk, Stream, Kept
  <2>2. CASE ~(WriteChunk(p) \/ StreamChunk(p) \/ CopyChunk(p))
    BY <1>0, <1>3, <2>2
       DEF WriteStep, StdoutStep, Prepare, CloseWriter, VerifyWritten, CopyDone, Ingest,
           CtxAfterUpload, CloseFile, VerifyClosed, CtxBeforeCommit, PrintKey, Test, Kept
  <2>3. QED
    BY <2>1, <2>2 DEF Kept
<1>4. CASE CommitStep(p)
  <2>1. CASE Rename(p)
    BY <2>1 DEF Rename, TypeOK, Directory, Kept
  <2>2. QED
    BY <1>0, <1>4, <2>1 DEF CommitStep, CommitVerify, CommitStat, CommitCtx, Test, Kept
<1>5. CASE CleanupStep(p)
  <2>1. CASE UnlinkImage(p)
    BY <2>1 DEF UnlinkImage, TypeOK, Directory, Kept
  <2>2. QED
    BY <1>0, <1>5, <2>1 DEF CleanupStep, StatDir, Report, Exit, Test, Kept
<1>6. CASE StepFails(p) \/ CleanupFails(p)
  BY <1>0, <1>6 DEF StepFails, CleanupFails, Kept
<1>7. QED
  BY <1>1, <1>2, <1>3, <1>4, <1>5, <1>6 DEF Export, Progress

\* A step of an export spares what others have at its names.
LEMMA ForeignStep ==
  ASSUME TypeOK, EntryInv, NEW p \in Procs, Export(p) \/ StepFails(p) \/ CleanupFails(p)
  PROVE  KeepsStage(p) /\ KeepsReserve(p) /\ KeepsInherited(p)
<1>a. NothingYet(p)
  BY DEF EntryInv, Entries
<1> USE DEF KeepsStage, KeepsReserve, KeepsInherited
<1>1. CASE MakeStage(p)
  <2>1. pc[p] = "mkdir" /\ UNCHANGED <<reserve, staging>> /\ stage[p] = Absent
    BY <1>1, <1>a DEF MakeStage, Move, At, NothingYet, FirstSteps
  <2>2. QED
    BY <2>1 DEF Absent
<1>2. CASE ReserveName(p)
  <2>1. pc[p] = "reserveName" /\ UNCHANGED <<stage, staging>> /\ reserve[p] = Absent
    BY <1>2, <1>a DEF ReserveName, Move, At, NothingYet
  <2>2. QED
    BY <2>1
<1>3. CASE MoveIn(p)
  <2>1. /\ UNCHANGED stage /\ staging'[p].inherited = reserve[p]
        /\ staging[p].inherited = Absent
    BY <1>3, <1>a DEF MoveIn, Move, At, NothingYet, TypeOK, Directory
  <2>2. QED
    BY <2>1 DEF Absent
<1>4. CASE Adopt(p)
  <2>1. UNCHANGED <<stage, reserve>> /\ staging[p].inherited = Inherited(p)
    BY <1>4, <1>a DEF Adopt, Move, At, NothingYet
  <2>2. QED
    BY <2>1 DEF Inherited
<1>5. CASE DropUnlink(p)
  <2>1. /\ UNCHANGED <<stage, staging>>
        /\ reserve'[p] = IF IsDir(reserve[p]) THEN reserve[p] ELSE Absent
    BY <1>5 DEF DropUnlink, TypeOK
  <2>2. QED
    BY <2>1
<1>6. CASE DropInherited(p)
  <2>1. /\ UNCHANGED <<stage, reserve>>
        /\ staging'[p].inherited =
             IF IsDir(staging[p].inherited) THEN staging[p].inherited ELSE Absent
    BY <1>6 DEF DropInherited, TypeOK, Directory
  <2>2. QED
    BY <2>1 DEF IsDir
<1>7. CASE Rmdir(p)
  <2>1. UNCHANGED <<reserve, staging>> /\ (stage[p].kind = "emptydir" \/ stage[p] = StageDir(p))
    BY <1>7 DEF Rmdir, RemoveStage
  <2>2. stage[p] = StageDir(p) => stage[p].owner # Others
    BY OthersAssumption DEF StageDir
  <2>3. QED
    BY <2>1, <2>2
<1>8. CASE /\ stage'[p] = stage[p] /\ reserve'[p] = reserve[p]
           /\ staging'[p].inherited = staging[p].inherited
  BY <1>8
<1>9. QED
  BY <1>1, <1>2, <1>3, <1>4, <1>5, <1>6, <1>7, <1>8, EntrySteps

\* The only step that publishes, and what it does to the attributes.
LEMMA PublishStep ==
  ASSUME TypeOK, PublicationInv, ReportInv, [Next]_vars, NEW p \in Procs,
         ~outcome[p].published, outcome'[p].published
  PROVE  Rename(p)
<1>1. CASE UNCHANGED vars
  BY <1>1 DEF vars, control
<1>2. CASE Aside
  BY <1>2, AsideReport
<1>3. ASSUME NEW q \in Procs, Rename(q) PROVE q = p
  BY <1>3 DEF Rename, TypeOK, Outcome
<1>4. ASSUME NEW q \in Procs, Report(q) \/ Die(q) PROVE FALSE
  BY <1>4, ExitReport, DieReport
<1>5. ASSUME NEW q \in Procs, Quiet(q) PROVE FALSE
  BY <1>5 DEF Quiet
<1>6. QED
  BY <1>1, <1>2, <1>3, <1>4, <1>5, StepCases, QuietReport

\* It shows the verified file, with the attributes of the one it replaces.
LEMMA RenameKeeps ==
  ASSUME TypeOK, PublicationInv, EntryInv, NEW p \in Procs, Rename(p), outAttr = pending[p].attr
  PROVE  out' = OwnFile(p) /\ (outAttr # "none" => outAttr' = outAttr)
<1>1. pc[p] = "rename" /\ out' = staging[p].image /\ outAttr' = fileAttr[p]
  BY DEF Rename, At
<1>2. staging[p].image = OwnFile(p)
  BY <1>1 DEF PublicationInv, CommitIsVerified, InCommit
<1>3. pending[p].attr \in {"none", fileAttr[p]}
  BY <1>1 DEF EntryInv, Entries, AttrsRestored, LaterSteps, WrittenSteps, CommitSteps
<1>4. QED
  BY <1>1, <1>2, <1>3

\* No export, whatever fails, removes what another process put at its names,
\* but for an empty directory or a file in the windows it cannot close; and a
\* destination it replaces keeps the attributes the export saw.
THEOREM OthersKept == Spec => KeepsOthers
<1>1. TypeOK /\ EntryInv /\ [Next]_vars =>
        [\A p \in Procs : (Export(p) \/ StepFails(p) \/ CleanupFails(p)) =>
          /\ stage[p].owner = Others /\ stage'[p] # stage[p] =>
                 stage[p].kind \in {"none", "emptydir"}
          /\ reserve[p].owner = Others /\ reserve[p] # Absent /\ reserve'[p] # reserve[p] =>
                 \/ ~IsDir(reserve[p])
                 \/ staging'[p].inherited = reserve[p]
          /\ staging[p].inherited.kind = "fulldir" =>
                 staging'[p].inherited = staging[p].inherited]_vars
  BY ForeignStep DEF KeepsStage, KeepsReserve, KeepsInherited
<1>2. TypeOK /\ PublicationInv /\ ReportInv /\ EntryInv /\ [Next]_vars =>
        [\A p \in Procs :
          ~outcome[p].published /\ outcome'[p].published /\ outAttr = pending[p].attr
            => out' = OwnFile(p) /\ (outAttr # "none" => outAttr' = outAttr)]_vars
  BY PublishStep, RenameKeeps
<1>3. Spec => KeepsForeign
  BY <1>1, TypeCorrect, EntriesKnown, PTL DEF Spec, KeepsForeign
<1>4. Spec => KeepsSeenAttributes
  BY <1>2, TypeCorrect, PublicationSafe, ReportSafe, EntriesKnown, PTL DEF Spec, KeepsSeenAttributes
<1>5. QED
  BY <1>3, <1>4 DEF KeepsOthers

(***************************************************************************)
(* Cancellation.                                                           *)
(***************************************************************************)
CancelledInTime(p) == cancelled[p] /\ ~outcome[p].published /\ ~At(p, "rename")

\* No step of an export changes the context or its command line.
LEMMA GivenKept ==
  ASSUME NEW p \in Procs, Export(p) \/ StepFails(p) \/ CleanupFails(p) \/ Die(p)
  PROVE  UNCHANGED given
<1>1. CASE ReserveStep(p)
  BY <1>1 DEF ReserveStep, Start, ReserveParent, CheckReplaceable, MakeStage, StatStage, OpenStage,
              CreateImage, RestoreAttrs, Restore, Test, dataVars
<1>2. CASE InheritStep(p)
  BY <1>2 DEF InheritStep, ReserveName, ReserveInfo, MoveIn, CheckMoved, Adopt, DropCheck,
              DropUnlink, DropInherited, Test, dataVars
<1>3. CASE WriteStep(p) \/ StdoutStep(p)
  BY <1>3 DEF WriteStep, StdoutStep, Prepare, WriteChunk, Append1, CloseWriter, VerifyWritten,
              CopyDone, Ingest, CtxAfterUpload, CloseFile, VerifyClosed, CtxBeforeCommit,
              StreamChunk, CopyChunk, Stream, PrintKey, Test, dataVars
<1>4. CASE CommitStep(p)
  BY <1>4 DEF CommitStep, CommitVerify, CommitStat, CommitCtx, Rename, Test, dataVars
<1>5. CASE CleanupStep(p)
  BY <1>5 DEF CleanupStep, UnlinkImage, StatDir, Rmdir, RemoveStage, Report, Exit, Test, dataVars
<1>6. CASE StepFails(p) \/ CleanupFails(p) \/ Die(p)
  BY <1>6 DEF StepFails, CleanupFails, Die, dataVars
<1>7. QED
  BY <1>1, <1>2, <1>3, <1>4, <1>5, <1>6 DEF Export, Progress

\* A process reaches renameat only from the last test of the context.
LEMMA ToRename ==
  ASSUME NEW p \in Procs,
         Export(p) \/ StepFails(p) \/ CleanupFails(p) \/ Die(p), ~CommitCtx(p)
  PROVE  UNCHANGED pc \/ \E l : Goto(p, l) /\ l # "rename"
<1> USE DEF Move, Test, Check, Abort
<1>1. CASE ReserveStep(p)
  BY <1>1 DEF ReserveStep, Start, ReserveParent, CheckReplaceable, MakeStage, StatStage, OpenStage,
              CreateImage, RestoreAttrs, Restore
<1>2. CASE InheritStep(p)
  BY <1>2 DEF InheritStep, ReserveName, ReserveInfo, MoveIn, CheckMoved, Adopt, DropCheck,
              DropUnlink, DropInherited
<1>3. CASE WriteStep(p) \/ StdoutStep(p)
  <2>1. CASE WriteChunk(p) \/ StreamChunk(p) \/ CopyChunk(p)
    BY <2>1 DEF WriteChunk, Append1, StreamChunk, CopyChunk, Stream, control
  <2>2. CASE VerifyWritten(p)
    BY <2>2 DEF VerifyWritten, AfterWritten
  <2>3. CASE CtxBeforeCommit(p)
    BY <2>3 DEF CtxBeforeCommit
  <2>4. QED
    BY <1>3, <2>1, <2>2, <2>3
       DEF WriteStep, StdoutStep, Prepare, CloseWriter, CopyDone, Ingest, CtxAfterUpload,
           CloseFile, VerifyClosed, PrintKey
<1>4. CASE CommitStep(p)
  BY <1>4 DEF CommitStep, CommitVerify, CommitStat, Rename
<1>5. CASE CleanupStep(p)
  BY <1>5 DEF CleanupStep, UnlinkImage, AfterUnlink, StatDir, Rmdir, RemoveStage, Report, Exit
<1>6. CASE StepFails(p)
  BY <1>6 DEF StepFails, ErrorExit
<1>7. CASE CleanupFails(p)
  BY <1>7 DEF CleanupFails, AfterUnlink
<1>8. CASE Die(p)
  BY <1>8 DEF Die
<1>9. QED
  BY <1>1, <1>2, <1>3, <1>4, <1>5, <1>6, <1>7, <1>8 DEF Export, Progress

\* Nothing takes a cancellation back, and the last test of the context sees it.
LEMMA CancelSticks ==
  ASSUME TypeOK, PublicationInv, ReportInv, [Next]_vars, NEW p \in Procs, CancelledInTime(p)
  PROVE  CancelledInTime(p)'
<1>1. ~outcome'[p].published
  <2>1. ~Rename(p)
    BY DEF CancelledInTime, Rename
  <2>2. QED
    BY <2>1, PublishStep DEF CancelledInTime
<1>2. CASE UNCHANGED <<cancelled, pc>>
  BY <1>1, <1>2 DEF CancelledInTime, At
<1>3. ASSUME NEW q \in Procs, Cancel(q) \/ RestoreSignals(q) PROVE CancelledInTime(p)'
  BY <1>1, <1>3 DEF Cancel, RestoreSignals, Restoring, CancelledInTime, control, At, TypeOK
<1>4. ASSUME NEW q \in Procs, OthersStep(q) \/ OthersChangeOutput PROVE UNCHANGED <<cancelled, pc>>
  BY <1>4 DEF OthersStep, OthersTakeStage, OthersTakeReserve, OthersTakeImage, OthersChangeOutput,
              MeddleWith, Meddle, control
<1>5. ASSUME NEW q \in Procs, Export(q) \/ StepFails(q) \/ CleanupFails(q) \/ Die(q)
      PROVE  CancelledInTime(p)'
  <2>1. cancelled' = cancelled
    BY <1>5, GivenKept DEF given
  <2>2. CASE CommitCtx(q)
    <3>1. pc'[p] # "rename"
      BY <2>2 DEF CommitCtx, Test, Check, CancelledInTime, At, Goto, Abort, TypeOK
    <3>2. QED
      BY <1>1, <2>1, <3>1 DEF CancelledInTime, At
  <2>3. CASE ~CommitCtx(q)
    <3>1. UNCHANGED pc \/ \E l : Goto(q, l) /\ l # "rename"
      BY <1>5, <2>3, ToRename
    <3>2. ~At(p, "rename")'
      BY <3>1 DEF CancelledInTime, At, Goto, TypeOK
    <3>3. QED
      BY <1>1, <2>1, <3>2 DEF CancelledInTime
  <2>4. QED
    BY <2>2, <2>3
<1>6. QED
  BY <1>2, <1>3, <1>4, <1>5
  DEF Next, FailureStep, SignalStep, SecondSignal, Crash, vars, dataVars, given, control

\* Cancelled before the last test of the context, an export never replaces the
\* destination, whatever other processes do and wherever it fails.
THEOREM CancelledCorrect == Spec => CancelledStaysUnpublished
<1>1. ASSUME NEW p \in Procs
      PROVE  Spec => [](cancelled[p] /\ ~outcome[p].published /\ ~At(p, "rename")
                          => [](~outcome[p].published))
  <2>1. TypeOK /\ PublicationInv /\ ReportInv /\ [Next]_vars /\ CancelledInTime(p)
          => CancelledInTime(p)'
    BY CancelSticks
  <2>2. CancelledInTime(p) <=> (cancelled[p] /\ ~outcome[p].published /\ ~At(p, "rename"))
    BY DEF CancelledInTime
  <2>3. QED
    BY <2>1, <2>2, TypeCorrect, PublicationSafe, ReportSafe, PTL DEF Spec
<1>2. QED
  BY <1>1 DEF CancelledStaysUnpublished
=============================================================================
