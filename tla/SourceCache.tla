----------------------------- MODULE SourceCache -----------------------------
(***************************************************************************)
(* native-deps/deps/common.sh as build-envd.sh and build-versitygw.sh use  *)
(* it: resolve_tarball fills one cache entry of build/tarball, and         *)
(* extract_tarball one tree of build/src.  Entry and tree are shared by    *)
(* the builds of all architectures; only the binary is one's own.          *)
(*                                                                         *)
(* A tarball is a number of chunks.  A name stands for an inode, because a *)
(* second curl truncates the file a first one is still writing.            *)
(***************************************************************************)
EXTENDS Naturals, FiniteSets

CONSTANTS Builds,       \* the architectures' builds of one artifact
          Chunks,       \* chunks of the tarball
          MaxFaults,    \* bound on failing commands and kills
          Concurrent    \* may two builds run at a time?

ASSUME BuildsAssumption == IsFiniteSet(Builds) /\ Builds # {}
ASSUME BoundsAssumption == Chunks \in Nat \ {0} /\ MaxFaults \in Nat
ASSUME ConcurrentAssumption == Concurrent \in BOOLEAN

VARIABLES
    spec,     \* *_TARBALL and *_TARBALL_SHA256: [origin, pinned]
    bytes,    \* [Inodes -> chunks written so far]
    cache,    \* inode of $TARBALL_CACHE/$filename
    tmp,      \* inode of $cache.tmp
    tree,     \* $ENVD_SRC: [at, nested, marker]
    bin,      \* [Builds -> what the binary was compiled from]
    pc,       \* next command of each build
    fd,       \* inode that curl or cp writes
    at,       \* chunks it has written
    outcome,  \* how each build's last run ended
    faults

vars == <<spec, bytes, cache, tmp, tree, bin, pc, fd, at, outcome, faults>>

NoFile == 0
Inodes == 1..(Cardinality(Builds) + 1)
Whole(i) == i # NoFile /\ bytes[i] = 1..Chunks

Specs == [origin : {"url", "local"}, pinned : BOOLEAN]
NoTree == [at |-> "none", nested |-> FALSE, marker |-> FALSE]
Labels == {"idle", "cache", "open", "write", "promote", "verify", "marker",
           "remove", "untar", "move", "moving", "mark", "compile"}

TypeOK ==
    /\ spec \in Specs
    /\ bytes \in [Inodes -> SUBSET (1..Chunks)]
    /\ cache \in Inodes \cup {NoFile}
    /\ tmp \in Inodes \cup {NoFile}
    /\ tree \in [at : {"none", "part", "direct"}, nested : BOOLEAN, marker : BOOLEAN]
    /\ bin \in [Builds -> {"none", "whole", "partial"}]
    /\ pc \in [Builds -> Labels]
    /\ fd \in [Builds -> Inodes \cup {NoFile}]
    /\ at \in [Builds -> 0..Chunks]
    /\ outcome \in [Builds -> {"none", "ok", "failed", "download failed"}]
    /\ faults \in 0..MaxFaults

Init ==
    /\ spec \in Specs
    /\ bytes = [i \in Inodes |-> {}]
    /\ cache = NoFile /\ tmp = NoFile
    /\ tree = NoTree
    /\ bin = [b \in Builds |-> "none"]
    /\ pc = [b \in Builds |-> "idle"]
    /\ fd = [b \in Builds |-> NoFile]
    /\ at = [b \in Builds |-> 0]
    /\ outcome = [b \in Builds |-> "none"]
    /\ faults = 0

-----------------------------------------------------------------------------
files  == <<bytes, cache, tmp>>
writer == <<fd, at>>

At(b, l)   == pc[b] = l
Goto(b, l) == pc' = [pc EXCEPT ![b] = l] /\ UNCHANGED outcome
End(b, o)  == pc' = [pc EXCEPT ![b] = "idle"] /\ outcome' = [outcome EXCEPT ![b] = o]
Fault      == faults < MaxFaults /\ faults' = faults + 1
CloseFile(b) == fd' = [fd EXCEPT ![b] = NoFile] /\ at' = [at EXCEPT ![b] = 0]

\* make: the binary is missing, so its script runs; run again after a failure.
Start(b) ==
    /\ At(b, "idle") /\ bin[b] = "none"
    /\ Concurrent \/ \A c \in Builds : At(c, "idle")
    /\ pc' = [pc EXCEPT ![b] = "cache"]
    /\ outcome' = [outcome EXCEPT ![b] = "none"]
    /\ UNCHANGED <<spec, files, tree, bin, writer, faults>>

\* Faulty variant: an entry found in the cache was verified when it was made.
CacheCheckTrusted(b) ==
    /\ At(b, "cache")
    /\ Goto(b, IF cache # NoFile THEN "marker" ELSE "open")
    /\ UNCHANGED <<spec, files, tree, bin, writer, faults>>

CacheCheck(b) ==
    /\ At(b, "cache")
    /\ Goto(b, IF cache # NoFile THEN "verify" ELSE "open")
    /\ UNCHANGED <<spec, files, tree, bin, writer, faults>>

-----------------------------------------------------------------------------
(* curl -o "$cache.tmp", or cp to "$cache" itself.                         *)
InUse == {cache, tmp} \cup {fd[b] : b \in Builds}
FreshInode == CHOOSE i \in Inodes : i \notin InUse
Target == IF spec.origin = "url" THEN tmp ELSE cache

\* The name is created, or the file it has is truncated.
OpenTarget(b) ==
    /\ At(b, "open")
    /\ LET i == IF Target = NoFile THEN FreshInode ELSE Target
       IN  /\ bytes' = [bytes EXCEPT ![i] = {}]
           /\ fd' = [fd EXCEPT ![b] = i]
           /\ tmp' = IF spec.origin = "url" THEN i ELSE tmp
           /\ cache' = IF spec.origin = "url" THEN cache ELSE i
    /\ Goto(b, "write")
    /\ UNCHANGED <<spec, tree, bin, at, faults>>

WriteChunk(b) ==
    /\ At(b, "write") /\ at[b] < Chunks
    /\ at' = [at EXCEPT ![b] = @ + 1]
    /\ bytes' = [bytes EXCEPT ![fd[b]] = @ \cup {at[b] + 1}]
    /\ UNCHANGED <<spec, cache, tmp, tree, bin, pc, fd, outcome, faults>>

\* curl --retry: a transient error starts the transfer over.
Retry(b) ==
    /\ At(b, "write") /\ spec.origin = "url" /\ Fault
    /\ at' = [at EXCEPT ![b] = 0]
    /\ bytes' = [bytes EXCEPT ![fd[b]] = {}]
    /\ UNCHANGED <<spec, cache, tmp, tree, bin, pc, fd, outcome>>

Transferred(b) ==
    /\ At(b, "write") /\ at[b] = Chunks
    /\ Goto(b, IF spec.origin = "url" THEN "promote" ELSE "verify")
    /\ CloseFile(b)
    /\ UNCHANGED <<spec, files, tree, bin, faults>>

\* Faulty variant: the status of curl is not looked at either.
TransferFailsIgnored(b) ==
    /\ pc[b] \in {"open", "write"} /\ Fault
    /\ CloseFile(b)
    /\ Goto(b, IF spec.origin = "url" THEN "promote" ELSE "verify")
    /\ UNCHANGED <<spec, files, tree, bin>>

\* curl || die; but errexit is off inside $(resolve_tarball ...): a cp that
\* failed is followed by the verification.
TransferFails(b) ==
    /\ pc[b] \in {"open", "write"} /\ Fault
    /\ CloseFile(b)
    /\ IF spec.origin = "url" THEN End(b, "download failed") ELSE Goto(b, "verify")
    /\ UNCHANGED <<spec, files, tree, bin>>

\* mv "$cache.tmp" "$cache"; its status is not looked at.
Promote(b) ==
    /\ At(b, "promote")
    /\ cache' = IF tmp # NoFile THEN tmp ELSE cache
    /\ tmp' = NoFile
    /\ Goto(b, "verify")
    /\ UNCHANGED <<spec, bytes, tree, bin, writer, faults>>

PromoteFails(b) ==
    /\ At(b, "promote") /\ Fault
    /\ Goto(b, "verify")
    /\ UNCHANGED <<spec, files, tree, bin, writer>>

\* sha256sum -c || die, when a digest is given.
Verify(b) ==
    /\ At(b, "verify")
    /\ IF spec.pinned /\ ~Whole(cache) THEN End(b, "failed") ELSE Goto(b, "marker")
    /\ UNCHANGED <<spec, files, tree, bin, writer, faults>>

-----------------------------------------------------------------------------
(* extract_tarball; errexit is on again.                                   *)

MarkerCheck(b) ==
    /\ At(b, "marker")
    /\ Goto(b, IF tree.marker THEN "compile" ELSE "remove")
    /\ UNCHANGED <<spec, files, tree, bin, writer, faults>>

\* Faulty variant: what an earlier run left is kept.
RemoveTreeKept(b) ==
    /\ At(b, "remove")
    /\ Goto(b, "untar")
    /\ UNCHANGED <<spec, files, tree, bin, writer, faults>>

RemoveTree(b) ==
    /\ At(b, "remove")
    /\ tree' = NoTree
    /\ Goto(b, "untar")
    /\ UNCHANGED <<spec, files, bin, writer, faults>>

\* tar into a private mktemp -d; it fails on a truncated archive.
Untar(b) ==
    /\ At(b, "untar")
    /\ IF Whole(cache) THEN Goto(b, "move") ELSE End(b, "failed")
    /\ UNCHANGED <<spec, files, tree, bin, writer, faults>>

\* mv from /tmp copies when build/ is another file system.  Where a directory
\* exists by then, the source goes inside it.
MoveTree(b) ==
    /\ At(b, "move")
    /\ IF tree.at = "none"
       THEN tree' = [tree EXCEPT !.at = "part"] /\ Goto(b, "moving")
       ELSE tree' = [tree EXCEPT !.nested = TRUE] /\ Goto(b, "mark")
    /\ UNCHANGED <<spec, files, bin, writer, faults>>

TreeMoved(b) ==
    /\ At(b, "moving")
    /\ IF tree.at = "none"
       THEN End(b, "failed") /\ UNCHANGED tree
       ELSE tree' = [tree EXCEPT !.at = "direct"] /\ Goto(b, "mark")
    /\ UNCHANGED <<spec, files, bin, writer, faults>>

\* : > "$marker" fails where the directory is gone.
WriteMarker(b) ==
    /\ At(b, "mark")
    /\ IF tree.at = "none"
       THEN End(b, "failed") /\ UNCHANGED tree
       ELSE tree' = [tree EXCEPT !.marker = TRUE] /\ Goto(b, "compile")
    /\ UNCHANGED <<spec, files, bin, writer, faults>>

\* main.go must be there; a tree with files missing may still compile.
Compile(b) ==
    /\ At(b, "compile")
    /\ \E r \in IF tree.at = "direct" THEN {"whole"} ELSE {"none", "partial"} :
          /\ bin' = [bin EXCEPT ![b] = r]
          /\ End(b, IF r = "none" THEN "failed" ELSE "ok")
    /\ UNCHANGED <<spec, files, tree, writer, faults>>

\* A kill anywhere, or a command that fails under errexit.
Dies(b) ==
    /\ ~At(b, "idle") /\ Fault
    /\ CloseFile(b)
    /\ End(b, "failed")
    /\ UNCHANGED <<spec, files, tree, bin>>

Step(b) ==
    \/ CacheCheck(b) \/ OpenTarget(b) \/ WriteChunk(b) \/ Transferred(b)
    \/ Promote(b) \/ Verify(b)
    \/ MarkerCheck(b) \/ RemoveTree(b) \/ Untar(b) \/ MoveTree(b) \/ TreeMoved(b)
    \/ WriteMarker(b) \/ Compile(b)

Next == \E b \in Builds :
    \/ Start(b) \/ Step(b)
    \/ Retry(b) \/ TransferFails(b) \/ PromoteFails(b) \/ Dies(b)

Spec == Init /\ [][Next]_vars

\* Commands run on; who wants the binary runs make again.
FairSpec == Spec /\ \A b \in Builds : WF_vars(Step(b)) /\ WF_vars(Start(b))

-----------------------------------------------------------------------------
(* One build at a time.                                                    *)

\* A downloaded cache entry is a complete tarball, whatever failed or was
\* killed and however often it was tried: it is a hit for every later run,
\* and without a digest nothing looks at it again.
CacheIsWhole == spec.origin = "url" /\ cache # NoFile => Whole(cache)

\* What is extracted for a pinned digest has been compared with it, also
\* where a failed cp left half an entry that later runs hit.
PinnedIsVerified ==
    \A b \in Builds : spec.pinned /\ pc[b] \in {"marker", "remove", "untar"} => Whole(cache)

\* The marker, which every later build takes for the whole extraction, is
\* only found in a tree that holds all of the source, and holds it directly.
MarkerMeansWhole == tree.marker => tree.at = "direct" /\ ~tree.nested

\* No binary is made from a tree that a killed run left half moved.
BuiltFromWhole == \A b \in Builds : bin[b] # "partial"

\* Nothing that fails or is killed on the way leaves a state running make
\* again does not get out of.  (A local tarball is different: half a copy is
\* a cache hit for ever.)
RerunBuilds == spec.origin = "url" => \A b \in Builds : <>(bin[b] = "whole")

(* Two builds at a time.                                                   *)

\* common.sh, when a download fails: "temporary bytes were not promoted into
\* the cache".
TemporaryNotPromoted ==
    [][\A b \in Builds :
         outcome[b] # "download failed" /\ outcome'[b] = "download failed"
            => ~(fd[b] # NoFile /\ fd[b] = cache /\ ~Whole(cache))]_vars
=============================================================================
