---------------------------- MODULE MCReleaseInputs ----------------------------
(***************************************************************************)
(* Instances for TLC of what a release run goes through before and while   *)
(* it publishes: the admission of a Preview, the preparation of the        *)
(* sandbox-init and of the crypto catalog, the Runtime bundle, and the     *)
(* assembly and upload of the release bundle.  The workflow takes them one *)
(* after another on files of their own, so that each behaviour here is one *)
(* of them, from its own initial state.                                    *)
(***************************************************************************)
EXTENDS SelectedInit, CryptoCatalog, ReleaseBundle, PreviewLine, RuntimeBundle, TLC

VARIABLE part

inputVars == <<part, initVars, catalogVars, bundleVars, lineVars, runtimeVars>>

\* One initial state of every part that does not run.
FirstImage   == "plain"
FirstId      == "b1"
FirstRequest == CHOOSE r \in Requests : r.arch = "all"

Init ==
    /\ part \in {"init", "catalog", "bundle", "line", "runtime"}
    /\ InitInit /\ CatalogInit /\ BundleInit /\ LineInit /\ RuntimeInit
    /\ part # "init"    => published.archive = CHOOSE u \in Uploads : Sound(u)
    /\ part # "catalog" => buildId = FirstId
    /\ part # "bundle"  => request = FirstRequest
    /\ part # "runtime" => input = FirstImage

SelectedInitTurn  == part = "init" /\ InitNext
                     /\ UNCHANGED <<part, catalogVars, bundleVars, lineVars, runtimeVars>>
CryptoCatalogTurn == part = "catalog" /\ CatalogNext
                     /\ UNCHANGED <<part, initVars, bundleVars, lineVars, runtimeVars>>
ReleaseBundleTurn == part = "bundle" /\ BundleNext
                     /\ UNCHANGED <<part, initVars, catalogVars, lineVars, runtimeVars>>
PreviewLineTurn   == part = "line" /\ LineNext
                     /\ UNCHANGED <<part, initVars, catalogVars, bundleVars, runtimeVars>>
RuntimeBundleTurn == part = "runtime" /\ RuntimeNext
                     /\ UNCHANGED <<part, initVars, catalogVars, bundleVars, lineVars>>

Next == \/ SelectedInitTurn \/ CryptoCatalogTurn \/ ReleaseBundleTurn
        \/ PreviewLineTurn \/ RuntimeBundleTurn

Spec == Init /\ [][Next]_inputVars

-----------------------------------------------------------------------------
(* SelectedInit: archives that differ in one respect each.                 *)

Member(path, kind, mode) == [path |-> path, kind |-> kind, mode |-> mode, owned |-> TRUE]
Notice(tc) == Member(Append(NoticesRoot, tc) \o <<"LICENSE">>, "file", "0644")
Binary     == Member(Init_, "file", "0755")
Archive(ms, machine, tc) == [members |-> ms, machine |-> machine, tc |-> tc]

Attached ==
    {Archive(<<Binary, Notice("go1.24")>>, "x86_64", "go1.24"),
     Archive(<<Binary, Notice("go1.25")>>, "x86_64", "go1.25"),
     Archive(<<Binary, Notice("go1.25")>>, "x86_64", "go1.24"),
     Archive(<<Binary, Notice("go1.24"), Member(<<"..", "x">>, "file", "0644")>>, "x86_64", "go1.24"),
     Archive(<<Binary, Binary, Notice("go1.24")>>, "x86_64", "go1.24"),
     Archive(<<Binary, Notice("go1.24"), Member(<<"bin">>, "file", "0644")>>, "x86_64", "go1.24"),
     Archive(<<Binary, Notice("go1.24")>>, "aarch64", "go1.24")}

(* CryptoCatalog: two builds of the pinned sources, and one that lists less. *)

TwoLibs == <<"libgpg-error", "libgcrypt">>
TwoPins == [i \in 1 .. 2 |-> [srpm |-> <<"srpm", TwoLibs[i]>>, members |-> {"spec", "tar"},
                              notices |-> {"COPYING"}]]
SrpmMembers == [s \in {TwoPins[i].srpm : i \in 1 .. 2} |->
                  <<[name |-> "spec", kind |-> "file", notices |-> <<>>],
                    [name |-> "tar", kind |-> "file", notices |-> <<"COPYING">>]>>]
BuildOf(id, ar) == [f \in Places |->
   CASE f[1] = "MATERIALS.sha256" -> <<id>>
     [] f[1] = "SOURCES.tsv"      -> <<ar, ar>>
     [] f[1] = "BUILD.json"       -> <<"/w", "in /w", "gcc">>
     [] f[1] = "toolchain.json"   -> <<"gcc">>
     [] f[1] = "recipe"           -> <<"pinned">>
     [] f[1] = "srpm"             -> TwoPins[f[2]].srpm
     [] f[1] = "sources"          -> <<"spec", "tar">>
     [] f[1] = "licenses"         -> <<"COPYING">>
     [] f[1] = "lib"              -> <<ar>>
     [] f[1] = "build"            -> <<"log">>
     [] f[1] = "unlisted"         -> Missing]
Builds == [b \in {"b1", "b2", "odd"} |->
   CASE b = "b1"  -> BuildOf("b1", "a1")
     [] b = "b2"  -> BuildOf("b2", "a2")
     [] b = "odd" -> [BuildOf("odd", "a2") EXCEPT ![<<"sources", 1>>] = <<"spec">>]]

(* ReleaseBundle: both units, one or two architectures, and three misfits.  *)

Ask(owner, unit, kind, arch) == [owner |-> owner, unit |-> unit, kind |-> kind, arch |-> arch]
Asked == {Ask("guest-runtime", "runtime", "runtime", "all"),
          Ask("guest-runtime", "vmlinux", "vmlinux", "x86_64"),
          Ask("guest-runtime", "runtime", "vmlinux", "all"),
          Ask("guest-runtime", "none", "unset", "x86_64"),
          Ask("sandboxer", "none", "unset", "aarch64")}

(* PreviewLine: main and a line branched off it; main's third manifest     *)
(* goes back to the aggregate that the first one names.                    *)

Preview(d) == [preview |-> TRUE, date |-> d]
Asks(unit, d, sha) == [unit |-> unit, tag |-> Preview(d), sha |-> sha,
                       aggregate |-> [line |-> "v1.2.x", date |-> d]]
RunInputs == "r1" :> Asks("runtime", "d1", "m2") @@ "r2" :> Asks("vmlinux", "d2", "l2")
             @@ "r3" :> Asks("runtime", "d2", "m2")
Branching == "main" :> <<"m1", "m2", "m3">> @@ "v1.2.x" :> <<"m2", "l2">>
Text(d, p, units) == [whole |-> TRUE, line |-> "v1.2.x", date |-> d,
                      tags |-> [u \in units |-> Preview(d)], producer |-> p]
Manifests == "m1" :> Text("d1", FALSE, {"runtime"})
             @@ "m2" :> Text("d2", TRUE, {"runtime", "vmlinux"})
             @@ "m3" :> Text("d1", TRUE, {"runtime", "vmlinux"})
             @@ "l2" :> Text("d2", TRUE, {"vmlinux"})

(* RuntimeBundle: sizes at and around a boundary, a half of two inputs, no  *)
(* EROFS, a payload too new and one that is dynamic.                        *)

Program(dynamic, needs) == [regular |-> TRUE, private |-> TRUE, size |-> 7,
                            dynamic |-> dynamic, needs |-> needs]
Plain == [l \in {"envd", "flatten-ctl"} |-> Program(FALSE, {})]
         @@ "init" :> Program(TRUE, {<<2, 34>>, <<2, 38>>})
Stored == "plain" :> Plain @@ "half" :> Plain @@ "other" :> Plain
          @@ "mkfs" :> (Plain @@ "mkfs.erofs" :> Program(TRUE, {<<3, 0>>}))
          @@ "new" :> [Plain EXCEPT !["init"].needs = {<<2, 34>>, <<2, 38, 1>>}]
          @@ "dyn" :> [Plain EXCEPT !["envd"].dynamic = TRUE]
ImageSize == "plain" :> 4096 @@ "half" :> 4096 + pmemAlignment @@ "other" :> 5000
             @@ "mkfs" :> pmemAlignment @@ "new" :> pmemAlignment - 290
             @@ "dyn" :> pmemAlignment - 289
HasMagic  == [i \in DOMAIN Stored |-> i # "other"]
FsckFine  == [i \in DOMAIN Stored |-> i # "half"]
===============================================================================
