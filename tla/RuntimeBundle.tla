----------------------------- MODULE RuntimeBundle -----------------------------
(***************************************************************************)
(* The Runtime bundle: EROFS, padding and an empty ZIP marker that names   *)
(* their digest.  internal/runtimebundle/bundle.go builds it while its     *)
(* input may be written and builders race for the output;                  *)
(* scripts/release-runtime-payloads.py verifies a bundle and reads the     *)
(* payloads out of it with tools that may fail or stop early; and          *)
(* scripts/ci-check-runtime-abi.py looks at what they need of libc.        *)
(***************************************************************************)
EXTENDS Integers, Sequences

CONSTANTS Images,       \* what an input may hold, halves of two included
          SizeOf,       \* [Images -> bytes]
          IsErofs,      \* [Images -> BOOLEAN]: the magic at byte 1024
          FsckPasses,        \* [Images -> BOOLEAN]: fsck.erofs finds no fault
          Holds,        \* [Images -> [Labels -> payload]], see below
          LocalSize, CentralSize,   \* bytes of the marker's entry and directory
          Builders, Readers,
          MaxChanges    \* bound on writes to the input and damage

pmemAlignment == 2097152    \* 2 MiB
EndSize       == 22         \* end of central directory, without a comment

ASSUME SizeAssumption   == SizeOf \in [Images -> Nat]
ASSUME MarkerAssumption == LocalSize \in 30 .. 512 /\ CentralSize \in 46 .. 512
ASSUME NeedsAssumption  == \A i \in Images : \A l \in DOMAIN Holds[i] :
                              Holds[i][l].needs \subseteq Seq(Nat)
ASSUME ChangeAssumption == MaxChanges \in Nat

(* A payload: whether it is a regular file, root's with mode 0755, its size, *)
(* whether it is dynamic, and the GLIBC versions it needs.                   *)
Labels   == <<"init", "envd", "mkfs.erofs", "flatten-ctl">>
LabelSet == {Labels[i] : i \in 1 .. 4}

(* A bundle: an image of so many bytes, padding, and what its marker names. *)
Named(i, s, p) == [image |-> i, size |-> s, padding |-> p]
File(i, s, p)  == [prefix |-> Named(i, s, p), digest |-> Named(i, s, p), markers |-> 1, comment |-> 0]
NoFile == [File("none", 0, 0) EXCEPT !.markers = 0]

VARIABLES input,      \* the image at inputPath
          opened,     \* the input as each builder found it
          statSize,   \* its size then
          taken,     \* what the builder has taken of it
          bpc,        \* next step of each builder
          output,     \* the bundle at outputPath
          received,   \* the copy of it each reader has
          rpc,        \* next step of each reader
          contract,   \* whether it reads a Runtime without mkfs
          label,      \* payload it is at
          got,        \* [Readers -> [labels -> bytes read]], -1 for no file
          changes

buildVars   == <<input, opened, statSize, taken, bpc, output>>
readVars    == <<received, rpc, contract, label, got>>
runtimeVars == <<buildVars, readVars, changes>>
Nothing     == [l \in LabelSet |-> -1]

RuntimeInit ==
    /\ input \in Images
    /\ opened = [b \in Builders |-> input] /\ taken = [b \in Builders |-> input]
    /\ statSize = [b \in Builders |-> SizeOf[input]]
    /\ bpc = [b \in Builders |-> "open"]
    /\ output = NoFile
    /\ received = [r \in Readers |-> NoFile] /\ rpc = [r \in Readers |-> "idle"]
    /\ contract = [r \in Readers |-> FALSE] /\ label = [r \in Readers |-> 1]
    /\ got = [r \in Readers |-> Nothing] /\ changes = 0

-----------------------------------------------------------------------------
(* Build                                                                   *)

zipSize == LocalSize + CentralSize + EndSize

alignUp(n, alignment) == ((n + alignment - 1) \div alignment) * alignment

prefixSize(size)  == alignUp(size + zipSize, pmemAlignment) - zipSize
paddingSize(size) == prefixSize(size) - size

Open(b) ==
    /\ bpc[b] = "open" /\ bpc' = [bpc EXCEPT ![b] = "copy"]
    /\ opened' = [opened EXCEPT ![b] = input]
    /\ statSize' = [statSize EXCEPT ![b] = SizeOf[input]]
    /\ UNCHANGED <<input, taken, output, readVars, changes>>

\* To the end of the file, wherever that is by now.
Copy(b) ==
    /\ bpc[b] = "copy" /\ bpc' = [bpc EXCEPT ![b] = "finish"]
    /\ \E i \in IF input = opened[b] THEN {input} ELSE Images : taken' = [taken EXCEPT ![b] = i]
    /\ UNCHANGED <<input, opened, statSize, output, readVars, changes>>

Built(b) == File(taken[b], SizeOf[taken[b]], paddingSize(statSize[b]))

FileSize(f) == f.prefix.size + f.prefix.padding + zipSize + f.comment

\* Faulty variant: the final size is not looked at.
FinishUnaligned(b) ==
    /\ bpc[b] = "finish" /\ bpc' = [bpc EXCEPT ![b] = "open"]
    /\ output' = Built(b)
    /\ UNCHANGED <<input, opened, statSize, taken, readVars, changes>>

\* The padding follows from the size at first, the digest from what was
\* written; an odd total is refused, else the file takes its name.
Finish(b) ==
    /\ bpc[b] = "finish" /\ bpc' = [bpc EXCEPT ![b] = "open"]
    /\ output' = IF FileSize(Built(b)) % pmemAlignment = 0 THEN Built(b) ELSE output
    /\ UNCHANGED <<input, opened, statSize, taken, readVars, changes>>

\* What a killed builder leaves has a name of its own.
KillBuilder(b) ==
    /\ bpc[b] # "open" /\ bpc' = [bpc EXCEPT ![b] = "open"]
    /\ UNCHANGED <<input, opened, statSize, taken, output, readVars, changes>>

-----------------------------------------------------------------------------
(* verify_bundle                                                           *)

verify_bundle(f) ==
    LET size   == FileSize(f)
        prefix == size - EndSize - CentralSize - LocalSize
    IN  /\ f # NoFile
        /\ 0 < size /\ size % pmemAlignment = 0
        /\ IsErofs[f.prefix.image]
        /\ f.markers = 1 /\ f.comment = 0
        /\ 46 <= CentralSize /\ CentralSize <= 512 /\ 30 <= LocalSize /\ LocalSize <= 512
        /\ prefix > 1028 /\ prefix = f.prefix.size + f.prefix.padding
        /\ f.digest = f.prefix

(* read_payloads                                                           *)

GoTo(r, from, ok, to) == rpc[r] = from /\ rpc' = [rpc EXCEPT ![r] = IF ok THEN to ELSE "failed"]

\* The bundle that the release archive holds.
Receive(r) ==
    /\ output # NoFile /\ GoTo(r, "idle", TRUE, "verify")
    /\ received' = [received EXCEPT ![r] = output]
    /\ \E w \in BOOLEAN : contract' = [contract EXCEPT ![r] = w]
    /\ UNCHANGED <<buildVars, label, got, changes>>

Verify(r) ==
    /\ GoTo(r, "verify", verify_bundle(received[r]), "extract")
    /\ UNCHANGED <<buildVars, received, contract, label, got, changes>>

PayloadsOf(r) == Holds[received[r].prefix.image]

\* Every file is readable; without mkfs the directory must not have it.
Extract(r) ==
    /\ rpc[r] = "extract"
    /\ GoTo(r, "extract", /\ FsckPasses[received[r].prefix.image]
                          /\ contract[r] => /\ "mkfs.erofs" \notin DOMAIN PayloadsOf(r)
                                            /\ {"envd", "flatten-ctl"} \subseteq DOMAIN PayloadsOf(r),
            "payload")
    /\ UNCHANGED <<buildVars, received, contract, label, got, changes>>

Wanted(r) == LabelSet \ (IF contract[r] THEN {"mkfs.erofs"} ELSE {})
AtLast(r)   == label[r] = 4

SkipPayload(r) ==
    /\ Labels[label[r]] \notin Wanted(r) /\ GoTo(r, "payload", TRUE, "payload")
    /\ label' = [label EXCEPT ![r] = @ + 1]
    /\ UNCHANGED <<buildVars, received, contract, got, changes>>

Regular(p) == p.regular /\ p.private /\ p.size > 0

\* Faulty variant: the size read is not compared.
CatUnmeasured(r) ==
    LET l == Labels[label[r]] IN
    /\ rpc[r] = "payload" /\ l \in Wanted(r)
    /\ GoTo(r, "payload", l \in DOMAIN PayloadsOf(r) /\ Regular(PayloadsOf(r)[l]),
            IF AtLast(r) THEN "abi" ELSE "payload")
    /\ \E n \in IF l \in DOMAIN PayloadsOf(r) THEN {PayloadsOf(r)[l].size, 0} ELSE {0} :
          got' = [got EXCEPT ![r][l] = n]
    /\ label' = [label EXCEPT ![r] = IF AtLast(r) THEN @ ELSE @ + 1]
    /\ UNCHANGED <<buildVars, received, contract, changes>>

\* Metadata first, then the content, which the tool may cut short.
Cat(r) ==
    LET l == Labels[label[r]] IN
    /\ rpc[r] = "payload" /\ l \in Wanted(r)
    /\ \E n \in IF l \in DOMAIN PayloadsOf(r) THEN {PayloadsOf(r)[l].size, 0} ELSE {0} :
          /\ GoTo(r, "payload", /\ l \in DOMAIN PayloadsOf(r) /\ Regular(PayloadsOf(r)[l])
                                /\ n = PayloadsOf(r)[l].size,
                  IF AtLast(r) THEN "abi" ELSE "payload")
          /\ got' = [got EXCEPT ![r][l] = n]
    /\ label' = [label EXCEPT ![r] = IF AtLast(r) THEN @ ELSE @ + 1]
    /\ UNCHANGED <<buildVars, received, contract, changes>>

-----------------------------------------------------------------------------
(* The ABI check                                                           *)

\* A version without a third part has 0 there; tuples compare part by part.
Part(v, i)  == IF i \in DOMAIN v THEN v[i] ELSE 0
Baseline    == <<2, 38, 0>>
Exceeds(v)  == \E i \in 1 .. 3 : /\ Part(v, i) > Baseline[i]
                                 /\ \A k \in 1 .. i - 1 : Part(v, k) = Baseline[k]

Static == {"flatten-ctl", "envd"}
Fits(p, l) == /\ l \in Static => ~p.dynamic
              /\ \A v \in p.needs : ~Exceeds(v)

CheckAbi(r) ==
    /\ rpc[r] = "abi"
    /\ GoTo(r, "abi", \A l \in Static \cup {"init"} : Fits(PayloadsOf(r)[l], l), "accepted")
    /\ UNCHANGED <<buildVars, received, contract, label, got, changes>>

-----------------------------------------------------------------------------
(* Others                                                                  *)

ToolFails(r) ==
    /\ rpc[r] \in {"verify", "extract", "payload", "abi"} /\ GoTo(r, rpc[r], FALSE, "failed")
    /\ UNCHANGED <<buildVars, received, contract, label, got, changes>>

\* In a fresh work directory.
ReadAgain(r) ==
    /\ rpc[r] \in {"failed", "accepted"} /\ rpc' = [rpc EXCEPT ![r] = "idle"]
    /\ received' = [received EXCEPT ![r] = NoFile] /\ contract' = [contract EXCEPT ![r] = FALSE]
    /\ label' = [label EXCEPT ![r] = 1] /\ got' = [got EXCEPT ![r] = Nothing]
    /\ UNCHANGED <<buildVars, changes>>

WriteInput ==
    /\ changes < MaxChanges /\ changes' = changes + 1
    /\ input' \in Images
    /\ UNCHANGED <<opened, statSize, taken, bpc, output, readVars>>

\* A byte of the prefix, a second marker, a comment, or a cut.
DamageReceived(r) ==
    /\ changes < MaxChanges /\ changes' = changes + 1 /\ rpc[r] = "verify"
    /\ \E f \in {[received[r] EXCEPT !.prefix.image = i] : i \in Images}
                 \cup {[received[r] EXCEPT !.markers = 2], [received[r] EXCEPT !.markers = 0],
                       [received[r] EXCEPT !.comment = pmemAlignment],
                       [received[r] EXCEPT !.prefix.padding = 0]} :
          received' = [received EXCEPT ![r] = f]
    /\ UNCHANGED <<buildVars, rpc, contract, label, got>>

Builder(b) == Open(b) \/ Copy(b) \/ Finish(b) \/ KillBuilder(b)
Reader(r)  == \/ Receive(r) \/ Verify(r) \/ Extract(r) \/ SkipPayload(r) \/ Cat(r)
              \/ CheckAbi(r) \/ ToolFails(r) \/ ReadAgain(r)

RuntimeNext == \/ \E b \in Builders : Builder(b)
               \/ \E r \in Readers : Reader(r) \/ DamageReceived(r)
               \/ WriteInput

RuntimeSpec == RuntimeInit /\ [][RuntimeNext]_runtimeVars

-----------------------------------------------------------------------------
\* Every bundle that gets the output's name passes verify_bundle if its input
\* was EROFS, of whatever size: even if the input grew, shrank or changed
\* during the copy, a builder was killed, or two of them raced.
BuiltVerifies == output # NoFile /\ IsErofs[output.prefix.image] => verify_bundle(output)

\* glibc 2.38 or an older one.
Released(v) == \/ Part(v, 1) < 2
               \/ Part(v, 1) = 2 /\ Part(v, 2) < 38
               \/ Part(v, 1) = 2 /\ Part(v, 2) = 38 /\ Part(v, 3) = 0

\* Payloads are accepted only out of an undamaged bundle, whole, each a private
\* regular executable, none newer than glibc 2.38, and a Runtime without mkfs
\* has none; whatever tool failed or stopped early.
AcceptedIsWhole ==
    \A r \in Readers : rpc[r] = "accepted" =>
        LET f == received[r] IN
        /\ f = File(f.prefix.image, f.prefix.size, f.prefix.padding)
        /\ IsErofs[f.prefix.image] /\ FsckPasses[f.prefix.image]
        /\ contract[r] <=> "mkfs.erofs" \notin DOMAIN PayloadsOf(r)
        /\ \A l \in Wanted(r) : LET p == PayloadsOf(r)[l] IN
              /\ p.regular /\ p.private /\ got[r][l] = p.size
              /\ l # "mkfs.erofs" => \A v \in p.needs : Released(v)
===============================================================================
