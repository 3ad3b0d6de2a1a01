-------------------------- MODULE SourceCache_proofs --------------------------
(***************************************************************************)
(* Proofs about SourceCache: for any number of builds that run one at a    *)
(* time, any size of the tarball and any number of failures and kills.     *)
(***************************************************************************)
EXTENDS SourceCache, FiniteSetTheorems, TLAPS

\* At most one build is under way.
Solo == \A b, c \in Builds : pc[b] # "idle" /\ pc[c] # "idle" => b = c

\* What the tree is while a build is between its removal and its use.
TreeAt(b) ==
    /\ pc[b] \in {"untar", "move"} => tree = NoTree
    /\ pc[b] = "moving" => tree = [NoTree EXCEPT !.at = "part"]
    /\ pc[b] = "mark" => tree = [NoTree EXCEPT !.at = "direct"]
    /\ pc[b] = "compile" => tree.at = "direct"

TreeStages == MarkerMeansWhole /\ BuiltFromWhole /\ \A b \in Builds : TreeAt(b)

\* What the cache entry and its temporary are while a build fills them.
FileAt(b) ==
    /\ pc[b] = "write" => fd[b] # NoFile /\ fd[b] = Target /\ bytes[fd[b]] = 1..at[b]
    /\ pc[b] # "write" => fd[b] = NoFile /\ at[b] = 0
    /\ pc[b] = "open" => cache = NoFile
    /\ pc[b] \in {"write", "promote"} /\ spec.origin = "url" => cache = NoFile
    /\ pc[b] = "promote" => spec.origin = "url" /\ Whole(tmp)
    /\ pc[b] \in {"marker", "remove", "untar"} /\ spec.pinned => Whole(cache)

FileStages ==
    /\ CacheIsWhole
    /\ spec.origin = "local" => tmp = NoFile
    /\ \A b \in Builds : FileAt(b)

IInv == TypeOK /\ Solo /\ TreeStages /\ FileStages

-----------------------------------------------------------------------------
\* There is an inode to begin with, and NoFile is none.
LEMMA InodeExists == 1 \in Inodes /\ NoFile \notin Inodes /\ Inodes \subseteq Nat
<1>1. Cardinality(Builds) \in Nat
  BY BuildsAssumption, FS_CardinalityType
<1>2. QED
  BY <1>1 DEF Inodes, NoFile

\* The trees and the cache that the first build may find.
LEMMA InitInv == Init => IInv
<1> SUFFICES ASSUME Init PROVE IInv
  OBVIOUS
<1>1. TypeOK
  BY BoundsAssumption DEF Init, TypeOK, Specs, NoTree, Labels
<1>2. Solo /\ TreeStages
  BY DEF Init, Solo, TreeStages, TreeAt, MarkerMeansWhole, BuiltFromWhole, NoTree
<1>3. FileStages
  BY DEF Init, FileStages, FileAt, CacheIsWhole
<1>4. QED
  BY <1>1, <1>2, <1>3 DEF IInv

-----------------------------------------------------------------------------
(* The inode a build opens is one of the inodes.                           *)
LEMMA OpenedInode ==
  ASSUME IInv, NEW b \in Builds, At(b, "open")
  PROVE  (IF Target = NoFile THEN FreshInode ELSE Target) \in Inodes
<1>1. CASE Target # NoFile
  BY <1>1 DEF IInv, TypeOK, Target
<1>2. CASE Target = NoFile
  <2>1. cache = NoFile
    BY DEF IInv, FileStages, FileAt, At
  <2>2. tmp = NoFile
    BY <1>2 DEF IInv, TypeOK, Specs, FileStages, Target
  <2>3. \A c \in Builds : fd[c] = NoFile
    BY DEF IInv, Solo, FileStages, FileAt, At
  <2>4. InUse \subseteq {NoFile}
    BY <2>1, <2>2, <2>3 DEF InUse
  <2>5. 1 \in Inodes /\ 1 \notin InUse
    BY <2>4, InodeExists DEF NoFile
  <2>6. FreshInode \in Inodes
    BY <2>5 DEF FreshInode
  <2>7. QED
    BY <1>2, <2>6
<1>3. QED
  BY <1>1, <1>2

\* What the proofs use of the bounds.
LEMMA Bounds == MaxFaults \in Nat /\ Chunks \in Nat /\ Chunks # 0 /\ 0 \in 0..Chunks
<1>1. MaxFaults \in Nat /\ Chunks \in Nat /\ Chunks # 0
  BY BoundsAssumption
<1>2. QED
  BY <1>1

\* Counting on below a bound.
LEMMA Successor ==
  ASSUME NEW m \in Nat, NEW n \in 0..m, n < m
  PROVE  n + 1 \in 0..m /\ n + 1 \in 1..m
  OBVIOUS

\* A fault more.
LEMMA FaultType ==
  ASSUME TypeOK, Fault
  PROVE  faults' \in 0..MaxFaults
<1>1. faults \in 0..MaxFaults /\ faults < MaxFaults /\ faults' = faults + 1
  BY DEF TypeOK, Fault
<1>2. QED
  BY <1>1, Bounds, Successor

\* A build that closes its file.
LEMMA CloseType ==
  ASSUME TypeOK, NEW b \in Builds, CloseFile(b)
  PROVE  fd' \in [Builds -> Inodes \cup {NoFile}] /\ at' \in [Builds -> 0..Chunks]
<1>1. 0 \in 0..Chunks
  BY Bounds
<1>2. QED
  BY <1>1 DEF TypeOK, CloseFile

\* Types are kept by every step.
LEMMA StepType ==
  ASSUME IInv, [Next]_vars
  PROVE  TypeOK'
<1> USE DEF IInv, TypeOK
<1>1. ASSUME NEW b \in Builds, Start(b) PROVE TypeOK'
  BY <1>1 DEF Start, At, Labels, files, writer
<1>2. ASSUME NEW b \in Builds, CacheCheck(b) PROVE TypeOK'
  BY <1>2 DEF CacheCheck, Goto, Labels, files, writer
<1>3. ASSUME NEW b \in Builds, OpenTarget(b) PROVE TypeOK'
  <2> DEFINE i == IF Target = NoFile THEN FreshInode ELSE Target
  <2>1. i \in Inodes
    BY <1>3, OpenedInode DEF OpenTarget
  <2> HIDE DEF i
  <2>2. /\ bytes' = [bytes EXCEPT ![i] = {}]
        /\ fd' = [fd EXCEPT ![b] = i]
        /\ tmp' = IF spec.origin = "url" THEN i ELSE tmp
        /\ cache' = IF spec.origin = "url" THEN cache ELSE i
    BY <1>3 DEF OpenTarget, i
  <2>3. bytes' \in [Inodes -> SUBSET (1..Chunks)] /\ fd' \in [Builds -> Inodes \cup {NoFile}]
    BY <2>1, <2>2
  <2>4. QED
    BY <1>3, <2>1, <2>2, <2>3 DEF OpenTarget, Goto, Labels
<1>4. ASSUME NEW b \in Builds, WriteChunk(b) PROVE TypeOK'
  <2>0. at[b] \in 0..Chunks /\ at[b] < Chunks
    BY <1>4 DEF WriteChunk
  <2>1. at[b] + 1 \in 0..Chunks /\ at[b] + 1 \in 1..Chunks
    BY <2>0, Bounds, Successor
  <2>2. bytes' \in [Inodes -> SUBSET (1..Chunks)]
    BY <1>4, <2>1 DEF WriteChunk
  <2>3. QED
    BY <1>4, <2>1, <2>2 DEF WriteChunk
<1>5. ASSUME NEW b \in Builds, Retry(b) PROVE TypeOK'
  <2>1. faults' \in 0..MaxFaults /\ 0 \in 0..Chunks
    BY <1>5, FaultType, Bounds DEF Retry
  <2>2. QED
    BY <1>5, <2>1 DEF Retry
<1>6. ASSUME NEW b \in Builds, Transferred(b) PROVE TypeOK'
  BY <1>6, CloseType DEF Transferred, Goto, Labels, files
<1>7. ASSUME NEW b \in Builds, TransferFails(b) PROVE TypeOK'
  <2>1. faults' \in 0..MaxFaults
    BY <1>7, FaultType DEF TransferFails
  <2>2. QED
    BY <1>7, <2>1, CloseType DEF TransferFails, Goto, End, Labels, files
<1>8. ASSUME NEW b \in Builds, Promote(b) PROVE TypeOK'
  BY <1>8 DEF Promote, Goto, Labels, writer
<1>9. ASSUME NEW b \in Builds, PromoteFails(b) PROVE TypeOK'
  <2>1. faults' \in 0..MaxFaults
    BY <1>9, FaultType DEF PromoteFails
  <2>2. QED
    BY <1>9, <2>1 DEF PromoteFails, Goto, Labels, files, writer
<1>10. ASSUME NEW b \in Builds, Verify(b) \/ MarkerCheck(b) PROVE TypeOK'
  BY <1>10 DEF Verify, MarkerCheck, Goto, End, Labels, files, writer
<1>11. ASSUME NEW b \in Builds, RemoveTree(b) \/ Untar(b) PROVE TypeOK'
  <2>1. CASE RemoveTree(b)
    BY <2>1 DEF RemoveTree, NoTree, Goto, Labels, files, writer
  <2>2. CASE Untar(b)
    BY <2>2 DEF Untar, Goto, End, Labels, files, writer
  <2>3. QED
    BY <1>11, <2>1, <2>2
<1>12. ASSUME NEW b \in Builds, MoveTree(b) \/ TreeMoved(b) \/ WriteMarker(b) PROVE TypeOK'
  BY <1>12 DEF MoveTree, TreeMoved, WriteMarker, Goto, End, Labels, files, writer
<1>13. ASSUME NEW b \in Builds, Compile(b) PROVE TypeOK'
  BY <1>13 DEF Compile, End, Labels, files, writer
<1>14. ASSUME NEW b \in Builds, Dies(b) PROVE TypeOK'
  <2>1. faults' \in 0..MaxFaults
    BY <1>14, FaultType DEF Dies
  <2>2. QED
    BY <1>14, <2>1, CloseType DEF Dies, End, Labels, files
<1>15. CASE UNCHANGED vars
  BY <1>15 DEF vars
<1>16. QED
  BY <1>1, <1>2, <1>3, <1>4, <1>5, <1>6, <1>7, <1>8, <1>9, <1>10, <1>11, <1>12, <1>13,
     <1>14, <1>15 DEF Next, Step

-----------------------------------------------------------------------------
(* Every step but a start is the one of the build under way, and moves no  *)
(* other build.                                                            *)
LEMMA StepMoves ==
  ASSUME IInv, NEW b \in Builds,
         Step(b) \/ Retry(b) \/ TransferFails(b) \/ PromoteFails(b) \/ Dies(b)
  PROVE  /\ pc[b] # "idle"
         /\ \E l : pc' = [pc EXCEPT ![b] = l]
<1>1. \A l : Goto(b, l) => \E m : pc' = [pc EXCEPT ![b] = m]
  BY DEF Goto
<1>2. \A o : End(b, o) => \E m : pc' = [pc EXCEPT ![b] = m]
  BY DEF End
<1>3. pc' = pc => \E m : pc' = [pc EXCEPT ![b] = m]
  BY DEF IInv, TypeOK
<1>4. CASE CacheCheck(b) \/ OpenTarget(b) \/ WriteChunk(b) \/ Transferred(b) \/ Promote(b)
  BY <1>1, <1>3, <1>4 DEF CacheCheck, OpenTarget, WriteChunk, Transferred, Promote, At
<1>5. CASE Verify(b) \/ MarkerCheck(b) \/ RemoveTree(b) \/ Untar(b) \/ MoveTree(b)
  BY <1>1, <1>2, <1>5 DEF Verify, MarkerCheck, RemoveTree, Untar, MoveTree, At
<1>6. CASE TreeMoved(b) \/ WriteMarker(b) \/ Compile(b)
  BY <1>1, <1>2, <1>6 DEF TreeMoved, WriteMarker, Compile, At
<1>7. CASE Retry(b) \/ TransferFails(b) \/ PromoteFails(b) \/ Dies(b)
  BY <1>1, <1>2, <1>3, <1>7 DEF Retry, TransferFails, PromoteFails, Dies, At
<1>8. QED
  BY <1>4, <1>5, <1>6, <1>7 DEF Step

\* Where builds take turns, at most one is at work after every step.
LEMMA StepSolo ==
  ASSUME ~Concurrent, IInv, [Next]_vars
  PROVE  Solo'
<1> USE DEF IInv, Solo
<1>1. ASSUME NEW b \in Builds, Start(b) PROVE Solo'
  BY <1>1 DEF Start, At, TypeOK
<1>2. ASSUME NEW b \in Builds,
             Step(b) \/ Retry(b) \/ TransferFails(b) \/ PromoteFails(b) \/ Dies(b)
      PROVE Solo'
  <2>1. pc[b] # "idle" /\ \E l : pc' = [pc EXCEPT ![b] = l]
    BY <1>2, StepMoves
  <2>2. QED
    BY <2>1 DEF TypeOK
<1>3. CASE UNCHANGED vars
  BY <1>3 DEF vars
<1>4. QED
  BY <1>1, <1>2, <1>3 DEF Next

\* While a build makes a step the others are idle, before and after it.
LEMMA OthersIdle ==
  ASSUME IInv, NEW b \in Builds,
         Step(b) \/ Retry(b) \/ TransferFails(b) \/ PromoteFails(b) \/ Dies(b)
  PROVE  \A c \in Builds \ {b} : pc[c] = "idle" /\ pc'[c] = "idle"
  BY StepMoves DEF IInv, Solo, TypeOK

-----------------------------------------------------------------------------
(* The tree: what holds of the build that steps holds of the others, which *)
(* are idle.                                                               *)
TreeFacts(b) == /\ tree \in [at : {"none", "part", "direct"}, nested : BOOLEAN, marker : BOOLEAN]
                /\ pc \in [Builds -> Labels]
                /\ bin \in [Builds -> {"none", "whole", "partial"}]
                /\ MarkerMeansWhole /\ BuiltFromWhole /\ TreeAt(b)

\* What each build is at says what the source tree holds.
LEMMA StepTree ==
  ASSUME ~Concurrent, IInv, [Next]_vars
  PROVE  TreeStages'
<1>1. ASSUME NEW b \in Builds, Start(b) PROVE TreeStages'
  BY <1>1 DEF TreeStages, TreeAt, MarkerMeansWhole, BuiltFromWhole, IInv, TypeOK, Start, At
<1>2. ASSUME NEW b \in Builds,
             Step(b) \/ Retry(b) \/ TransferFails(b) \/ PromoteFails(b) \/ Dies(b)
      PROVE TreeStages'
  <2>1. \A c \in Builds \ {b} : pc'[c] = "idle"
    BY <1>2, OthersIdle
  <2>2. TreeFacts(b)
    BY DEF TreeFacts, IInv, TypeOK, TreeStages
  <2>3. MarkerMeansWhole' /\ BuiltFromWhole' /\ TreeAt(b)'
    <3> USE DEF TreeFacts, TreeAt, MarkerMeansWhole, BuiltFromWhole
    <3>1. CASE \/ CacheCheck(b) \/ OpenTarget(b) \/ WriteChunk(b) \/ Transferred(b)
               \/ Promote(b) \/ Verify(b)
      <4>1. tree' = tree /\ bin' = bin
        BY <3>1 DEF CacheCheck, OpenTarget, WriteChunk, Transferred, Promote, Verify
      <4>2. pc'[b] \notin {"untar", "move", "moving", "mark", "compile"}
        BY <2>2, <3>1 DEF CacheCheck, OpenTarget, WriteChunk, Transferred, Promote, Verify,
                          At, Goto, End
      <4>3. QED
        BY <2>2, <4>1, <4>2
    <3>2. CASE Retry(b) \/ TransferFails(b) \/ PromoteFails(b) \/ Dies(b)
      <4>1. tree' = tree /\ bin' = bin
        BY <3>2 DEF Retry, TransferFails, PromoteFails, Dies
      <4>2. pc'[b] \notin {"untar", "move", "moving", "mark", "compile"}
        BY <2>2, <3>2 DEF Retry, TransferFails, PromoteFails, Dies, At, Goto, End
      <4>3. QED
        BY <2>2, <4>1, <4>2
    <3>3. CASE MarkerCheck(b)
      BY <2>2, <3>3 DEF MarkerCheck, At, Goto
    <3>4. CASE RemoveTree(b)
      BY <2>2, <3>4 DEF RemoveTree, NoTree, At, Goto
    <3>5. CASE Untar(b)
      BY <2>2, <3>5 DEF Untar, At, Goto, End
    <3>6. CASE MoveTree(b)
      <4>1. tree = NoTree /\ bin' = bin
        BY <2>2, <3>6 DEF MoveTree, At
      <4>2. tree' = [NoTree EXCEPT !.at = "part"] /\ pc'[b] = "moving"
        BY <2>2, <3>6, <4>1 DEF MoveTree, NoTree, Goto
      <4>3. ~tree'.marker
        BY <4>2 DEF NoTree
      <4>4. QED
        BY <2>2, <4>1, <4>2, <4>3
    <3>7. CASE TreeMoved(b)
      BY <2>2, <3>7 DEF TreeMoved, NoTree, At, Goto, End
    <3>8. CASE WriteMarker(b)
      BY <2>2, <3>8 DEF WriteMarker, NoTree, At, Goto, End
    <3>9. CASE Compile(b)
      <4>1. tree.at = "direct" /\ tree' = tree /\ pc'[b] = "idle"
        BY <2>2, <3>9 DEF Compile, At, End
      <4>2. bin' = [bin EXCEPT ![b] = "whole"]
        BY <3>9, <4>1 DEF Compile
      <4>3. QED
        BY <2>2, <4>1, <4>2
    <3>10. QED
      BY <1>2, <3>1, <3>2, <3>3, <3>4, <3>5, <3>6, <3>7, <3>8, <3>9 DEF Step
  <2>4. QED
    BY <2>1, <2>3 DEF TreeStages, TreeAt
<1>3. CASE UNCHANGED vars
  BY <1>3 DEF TreeStages, TreeAt, MarkerMeansWhole, BuiltFromWhole, IInv, vars
<1>4. QED
  BY <1>1, <1>2, <1>3 DEF Next

-----------------------------------------------------------------------------
(* The cache entry and its temporary, in the same way.                     *)
FileFacts(b) == /\ spec \in Specs /\ pc \in [Builds -> Labels]
                /\ bytes \in [Inodes -> SUBSET (1..Chunks)]
                /\ cache \in Inodes \cup {NoFile} /\ tmp \in Inodes \cup {NoFile}
                /\ fd \in [Builds -> Inodes \cup {NoFile}] /\ at \in [Builds -> 0..Chunks]
                /\ CacheIsWhole /\ (spec.origin = "local" => tmp = NoFile) /\ FileAt(b)

\* One more chunk behind the first n.
LEMMA NextChunk ==
  ASSUME NEW n \in Nat
  PROVE  (1..n) \cup {n + 1} = 1..(n + 1)
  OBVIOUS

\* What each build is at says what its temporary file and the cache hold.
LEMMA StepFile ==
  ASSUME ~Concurrent, IInv, [Next]_vars
  PROVE  FileStages'
<1>1. ASSUME NEW b \in Builds, Start(b) PROVE FileStages'
  BY <1>1 DEF FileStages, FileAt, CacheIsWhole, Whole, Target, IInv, TypeOK, Start, At,
              files, writer
<1>2. ASSUME NEW b \in Builds,
             Step(b) \/ Retry(b) \/ TransferFails(b) \/ PromoteFails(b) \/ Dies(b)
      PROVE FileStages'
  <2>1. \A c \in Builds \ {b} : pc[c] = "idle" /\ pc'[c] = "idle"
    BY <1>2, OthersIdle
  <2>2. FileFacts(b) /\ \A c \in Builds \ {b} : fd[c] = NoFile /\ at[c] = 0
    BY <2>1 DEF FileFacts, IInv, TypeOK, FileStages, FileAt
  <2>3. spec' = spec /\ \A c \in Builds \ {b} : fd'[c] = fd[c] /\ at'[c] = at[c]
    <3> USE <2>2 DEF FileFacts, writer
    <3>1. CASE CacheCheck(b) \/ OpenTarget(b) \/ WriteChunk(b) \/ Transferred(b) \/ Promote(b)
      BY <3>1 DEF CacheCheck, OpenTarget, WriteChunk, Transferred, Promote, CloseFile
    <3>2. CASE Verify(b) \/ MarkerCheck(b) \/ RemoveTree(b) \/ Untar(b) \/ MoveTree(b)
      BY <3>2 DEF Verify, MarkerCheck, RemoveTree, Untar, MoveTree
    <3>3. CASE TreeMoved(b) \/ WriteMarker(b) \/ Compile(b)
      BY <3>3 DEF TreeMoved, WriteMarker, Compile
    <3>4. CASE Retry(b) \/ TransferFails(b) \/ PromoteFails(b) \/ Dies(b)
      BY <3>4 DEF Retry, TransferFails, PromoteFails, Dies, CloseFile
    <3>5. QED
      BY <1>2, <3>1, <3>2, <3>3, <3>4 DEF Step
  <2>4. CacheIsWhole' /\ (spec'.origin = "local" => tmp' = NoFile) /\ FileAt(b)'
    <3> USE DEF FileFacts, FileAt, CacheIsWhole, Whole, Target
    <3>1. CASE CacheCheck(b)
      BY <2>2, <3>1 DEF CacheCheck, At, Goto, files, writer
    <3>2. CASE OpenTarget(b)
      <4> DEFINE i == IF Target = NoFile THEN FreshInode ELSE Target
      <4>1. i \in Inodes /\ i # NoFile
        BY <3>2, OpenedInode, InodeExists DEF OpenTarget
      <4>2. /\ bytes' = [bytes EXCEPT ![i] = {}]
            /\ fd' = [fd EXCEPT ![b] = i]
            /\ tmp' = IF spec.origin = "url" THEN i ELSE tmp
            /\ cache' = IF spec.origin = "url" THEN cache ELSE i
            /\ pc' = [pc EXCEPT ![b] = "write"]
            /\ cache = NoFile /\ at[b] = 0 /\ spec' = spec /\ at' = at
        BY <2>2, <3>2 DEF OpenTarget, At, Goto
      <4> HIDE DEF i
      <4>3. 1..0 = {}
        OBVIOUS
      <4>4. QED
        BY <2>2, <4>1, <4>2, <4>3 DEF Specs
    <3>3. CASE WriteChunk(b)
      <4>1. at[b] \in Nat
        BY <2>2, Bounds
      <4>2. (1..at[b]) \cup {at[b] + 1} = 1..(at[b] + 1)
        BY <4>1, NextChunk
      <4>3. fd[b] \in Inodes /\ bytes'[fd[b]] = 1..(at[b] + 1) /\ at'[b] = at[b] + 1
        BY <2>2, <3>3, <4>2 DEF WriteChunk, At
      <4>4. QED
        BY <2>2, <3>3, <4>3 DEF WriteChunk, At
    <3>4. CASE Retry(b)
      <4>1. 1..0 = {}
        OBVIOUS
      <4>2. QED
        BY <2>2, <3>4, <4>1 DEF Retry, At
    <3>5. CASE Transferred(b)
      BY <2>2, <3>5 DEF Specs, Transferred, CloseFile, At, Goto, files
    <3>6. CASE TransferFails(b)
      BY <2>2, <3>6 DEF Specs, TransferFails, CloseFile, Goto, End, files
    <3>7. CASE Promote(b)
      BY <2>2, <3>7 DEF Promote, At, Goto, writer
    <3>8. CASE PromoteFails(b)
      BY <2>2, <3>8 DEF PromoteFails, At, Goto, files, writer
    <3>9. CASE Verify(b)
      BY <2>2, <3>9 DEF Verify, At, Goto, End, files, writer
    <3>10. CASE MarkerCheck(b) \/ RemoveTree(b) \/ Untar(b)
      BY <2>2, <3>10 DEF MarkerCheck, RemoveTree, Untar, At, Goto, End, files, writer
    <3>11. CASE MoveTree(b) \/ TreeMoved(b) \/ WriteMarker(b) \/ Compile(b)
      BY <2>2, <3>11 DEF MoveTree, TreeMoved, WriteMarker, Compile, At, Goto, End, files, writer
    <3>12. CASE Dies(b)
      BY <2>2, <3>12 DEF Dies, CloseFile, At, End, files
    <3>13. QED
      BY <1>2, <3>1, <3>2, <3>3, <3>4, <3>5, <3>6, <3>7, <3>8, <3>9, <3>10, <3>11, <3>12
         DEF Step
  <2>5. \A c \in Builds \ {b} : FileAt(c)'
    BY <2>1, <2>2, <2>3 DEF FileAt
  <2>6. QED
    BY <2>4, <2>5 DEF FileStages
<1>3. CASE UNCHANGED vars
  BY <1>3 DEF FileStages, FileAt, CacheIsWhole, Whole, Target, IInv, vars
<1>4. QED
  BY <1>1, <1>2, <1>3 DEF Next

-----------------------------------------------------------------------------
\* The inductive invariant of builds that take turns.
LEMMA SerialInv == ASSUME ~Concurrent PROVE Spec => []IInv
<1>1. IInv /\ [Next]_vars => IInv'
  BY StepType, StepSolo, StepTree, StepFile DEF IInv
<1>2. QED
  BY <1>1, InitInv, PTL DEF Spec

\* Every variable keeps its type while builds take turns.
THEOREM SerialType == ASSUME ~Concurrent PROVE Spec => []TypeOK
<1>1. IInv => TypeOK
  BY DEF IInv
<1>2. QED
  BY <1>1, SerialInv, PTL

\* A marker is only found in a tree that holds all of the source directly,
\* whatever failed or was killed while extract_tarball made it.
THEOREM SerialMarker == ASSUME ~Concurrent PROVE Spec => []MarkerMeansWhole
<1>1. IInv => MarkerMeansWhole
  BY DEF IInv, TreeStages
<1>2. QED
  BY <1>1, SerialInv, PTL

\* No binary is compiled from a tree that a killed run left half moved.
THEOREM SerialBuilt == ASSUME ~Concurrent PROVE Spec => []BuiltFromWhole
<1>1. IInv => BuiltFromWhole
  BY DEF IInv, TreeStages
<1>2. QED
  BY <1>1, SerialInv, PTL

\* A cache entry that resolve_tarball downloaded is a complete tarball.
THEOREM SerialCache == ASSUME ~Concurrent PROVE Spec => []CacheIsWhole
<1>1. IInv => CacheIsWhole
  BY DEF IInv, FileStages
<1>2. QED
  BY <1>1, SerialInv, PTL

\* Nothing that a given digest does not match is extracted.
THEOREM SerialPinned == ASSUME ~Concurrent PROVE Spec => []PinnedIsVerified
<1>1. IInv => PinnedIsVerified
  BY DEF IInv, FileStages, FileAt, PinnedIsVerified
<1>2. QED
  BY <1>1, SerialInv, PTL
=============================================================================
