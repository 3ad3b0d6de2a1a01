----------------------------- MODULE CryptoCatalog -----------------------------
(***************************************************************************)
(* scripts/static-crypto-catalog.py: a catalog holds the sources, notices, *)
(* recipe and archives of one static build of the two crypto libraries and *)
(* is named by the digest of its list of materials.  The tool validates a  *)
(* catalog against pins of its own, finds the installed one, collects it   *)
(* beside a release, and validates what the release claims of it.  The     *)
(* builder reinstalls meanwhile, files are damaged, and collections are    *)
(* killed, repeated and run side by side.                                  *)
(*                                                                         *)
(* A file's content is a sequence of words; equal digests mean equal       *)
(* contents, so an id stands for the list of materials it is the digest of. *)
(***************************************************************************)
EXTENDS Naturals, Sequences, FiniteSets, SequencesExt

CONSTANTS Pins,         \* one [srpm, members, notices] for each library: digests of
                        \* its source RPM and of the members, notices of its tarball
          Unpacked,     \* [srpm -> <<[name, kind, notices]>>]: what is in it
          CatalogIds,
          Made,         \* [CatalogIds -> [Paths -> content]]: the list each id is of
          Collectors,
          MaxDamage     \* bound on reinstallations and damage

Libs == DOMAIN Pins        \* PINS is gone through in the order it is written in

\* The five files of the whole build, then five of each library.
Global  == <<"BUILD.json", "MATERIALS.sha256", "SOURCES.tsv", "recipe", "toolchain.json">>
PerLib  == <<"build", "lib", "licenses", "sources", "srpm">>
PathSeq == [k \in 1 .. 5 + 5 * Len(Pins) |->
               IF k <= 5 THEN <<Global[k], 0>> ELSE <<PerLib[((k - 1) % 5) + 1], (k - 1) \div 5>>]
Paths   == ToSet(PathSeq)
Unlisted == <<"unlisted", 0>>
Places == Paths \cup {Unlisted}

Missing == <<>>
Link   == <<"link">>       \* a symbolic or hard link, or no regular file
Other  == <<"other">>
NoCatalog == [f \in Places |-> Missing]

ASSUME CatalogAssumption == /\ MaxDamage \in Nat
                            /\ Len(Pins) \in Nat /\ DOMAIN Pins = 1 .. Len(Pins)
                            /\ \A b \in CatalogIds : Made[b] = [f \in Places |-> Made[b][f]]

VARIABLES linked,       \* [Libs -> content]: usr/lib64/*.a
          buildId,      \* usr/lib64/.kuasar-crypto-build-id
          catalog,      \* [CatalogIds -> catalog]: usr/share/kuasar-ci/native-crypto/<id>
          destination,  \* [CatalogIds -> catalog]: the release's native-crypto/<id>
          made,         \* ids whose destination directory exists
          cpc, cid,     \* next step of each collector, and the id it collects
          copied,       \* files it has copied
          reported,     \* ids that a collection has printed
          claims,       \* rows of the release's SOURCES.tsv: [id, lib, archive, notices]
          accepted,     \* the claims that validate_release last accepted
          damage

builderVars   == <<linked, buildId, catalog>>
collectorVars == <<cpc, cid, copied>>
catalogVars == <<builderVars, destination, made, collectorVars, reported, claims, accepted, damage>>

LibsOf(c) == [i \in Libs |-> c[<<"lib", i>>]]

CatalogInit ==
    /\ buildId \in CatalogIds
    /\ linked = LibsOf(Made[buildId])
    /\ catalog = [b \in CatalogIds |-> IF b = buildId THEN Made[b] ELSE NoCatalog]
    /\ destination = [b \in CatalogIds |-> NoCatalog] /\ made = {}
    /\ cpc = [p \in Collectors |-> "idle"] /\ cid = [p \in Collectors |-> buildId]
    /\ copied = [p \in Collectors |-> 0]
    /\ reported = {} /\ claims = {} /\ accepted = {} /\ damage = 0

-----------------------------------------------------------------------------
(* validate                                                                *)

\* Regular files of their own, and nothing else in the directory.
Inventory(c) == \A f \in Places : c[f] # Link

\* The files are those listed, with the digests listed.
Listed(c) == \E b \in CatalogIds : /\ c[<<"MATERIALS.sha256", 0>>] = <<b>>
                                   /\ \A f \in Places : c[f] = Made[b][f]

\* The options of configure follow from the directory the build ran in.
ConfigureOptions(work) == "in " \o work

\* BUILD.json: the work directory, the options used, the digest of toolchain.json.
BuildRecord(c) == LET build == c[<<"BUILD.json", 0>>] IN
    /\ Len(build) = 3
    /\ build[2] = ConfigureOptions(build[1])
    /\ <<build[3]>> = c[<<"toolchain.json", 0>>]

\* Plain members only, each once: the reader of the pinned source RPMs.
RpmSources(srpm) ==
    LET ms == IF srpm \in DOMAIN Unpacked THEN Unpacked[srpm] ELSE <<>> IN
    [ok    |-> /\ ms # <<>>
               /\ \A m \in ToSet(ms) : m.kind = "file"
               /\ \A i, j \in DOMAIN ms : ms[i].name = ms[j].name => i = j,
     names |-> {m.name : m \in ToSet(ms)}]

\* The notices in the source tarball, each of which must be there.
SourceTar(srpm) == FlattenSeq([k \in DOMAIN Unpacked[srpm] |-> Unpacked[srpm][k].notices])

VerifiedSources(i, srpm) == /\ srpm = Pins[i].srpm
                            /\ RpmSources(srpm).ok /\ RpmSources(srpm).names = Pins[i].members

\* The source RPM, what was unpacked of it, its notices, the archive, the logs.
Library(c, i) ==
    LET srpm == c[<<"srpm", i>>] IN
    /\ VerifiedSources(i, srpm)
    /\ ToSet(c[<<"sources", i>>]) = RpmSources(srpm).names
    /\ c[<<"licenses", i>>] = SourceTar(srpm) /\ ToSet(SourceTar(srpm)) = Pins[i].notices
    /\ c[<<"lib", i>>] # Missing /\ c[<<"build", i>>] # Missing

\* A row per library, with the digest of the archive that is there.
SourceTable(c) == FlattenSeq([i \in Libs |-> c[<<"lib", i>>]])

Valid(c, b) ==
    /\ Inventory(c) /\ c[<<"MATERIALS.sha256", 0>>] = <<b>> /\ Listed(c)
    /\ c[<<"recipe", 0>>] = <<"pinned">> /\ BuildRecord(c)
    /\ \A i \in Libs : Library(c, i)
    /\ \A f \in Places : c[f] # Missing <=> f \in Paths
    /\ c[<<"SOURCES.tsv", 0>>] = SourceTable(c)

\* With --libraries: and the archives are those linked.
ValidLinked(c, b) == Valid(c, b) /\ LibsOf(c) = linked

-----------------------------------------------------------------------------
(* installed and collect                                                   *)

StepTo(p, from, to) == cpc[p] = from /\ cpc' = [cpc EXCEPT ![p] = to]
GiveUp(p)        == cpc' = [cpc EXCEPT ![p] = "idle"]

\* The id installed, if its catalog is the one of the installed archives.
FindInstalled(p) ==
    /\ cpc[p] = "idle"
    /\ IF ValidLinked(catalog[buildId], buildId)
       THEN StepTo(p, "idle", "found") /\ cid' = [cid EXCEPT ![p] = buildId]
       ELSE UNCHANGED <<cpc, cid>>
    /\ UNCHANGED <<builderVars, destination, made, copied, reported, claims, accepted, damage>>

\* Validated again, then the destination is looked at.
CheckCatalog(p) ==
    /\ cpc[p] = "found"
    /\ IF ~ValidLinked(catalog[cid[p]], cid[p]) THEN GiveUp(p)
       ELSE StepTo(p, "found", IF cid[p] \in made THEN "recheck" ELSE "make")
    /\ UNCHANGED <<builderVars, destination, made, cid, copied, reported, claims, accepted, damage>>

\* copytree begins by making the directory, which may not exist.
MakeDestination(p) ==
    /\ cpc[p] = "make"
    /\ IF cid[p] \in made THEN GiveUp(p) /\ UNCHANGED <<made, copied>>
       ELSE /\ StepTo(p, "make", "copy") /\ made' = made \cup {cid[p]}
            /\ copied' = [copied EXCEPT ![p] = 0]
    /\ UNCHANGED <<builderVars, destination, cid, reported, claims, accepted, damage>>

\* copytree lists what is there first, then copies one file after another and
\* follows links.
CopyOrder == <<Unlisted>> \o PathSeq
CopyOf(b, f) == IF catalog[b][f] = Link THEN {Made[b][f], Other} ELSE {catalog[b][f]}

CopyFile(p) ==
    /\ cpc[p] = "copy" /\ copied[p] < Len(CopyOrder)
    /\ LET f == CopyOrder[copied[p] + 1]
       IN  \E v \in CopyOf(cid[p], f) : destination' = [destination EXCEPT ![cid[p]][f] = v]
    /\ copied' = [copied EXCEPT ![p] = @ + 1]
    /\ UNCHANGED <<builderVars, made, cpc, cid, reported, claims, accepted, damage>>

CopyEnds(p) ==
    /\ copied[p] = Len(CopyOrder) /\ StepTo(p, "copy", "recheck")
    /\ UNCHANGED <<builderVars, destination, made, cid, copied, reported, claims, accepted, damage>>

\* Faulty variant: a destination that exists is taken as it is.
RecheckNothing(p) ==
    /\ StepTo(p, "recheck", "idle") /\ reported' = reported \cup {cid[p]}
    /\ UNCHANGED <<builderVars, destination, made, cid, copied, claims, accepted, damage>>

\* The destination is validated, whoever made it.
Recheck(p) ==
    /\ StepTo(p, "recheck", "idle")
    /\ reported' = IF ValidLinked(destination[cid[p]], cid[p]) THEN reported \cup {cid[p]} ELSE reported
    /\ UNCHANGED <<builderVars, destination, made, cid, copied, claims, accepted, damage>>

KillCollector(p) ==
    /\ cpc[p] # "idle" /\ GiveUp(p)
    /\ UNCHANGED <<builderVars, destination, made, cid, copied, reported, claims, accepted, damage>>

-----------------------------------------------------------------------------
(* The release                                                             *)

\* The packager writes a row, for a library it links.
Claim ==
    /\ \E b \in reported, i \in Libs :
          \E a \in {Made[b][<<"lib", i>>], linked[i]} :
             claims' = claims \cup {[id |-> b, lib |-> i, archive |-> a,
                                     notices |-> Made[b][<<"licenses", i>>]]}
    /\ UNCHANGED <<builderVars, destination, made, collectorVars, reported, accepted, damage>>

\* What a row claims is what the catalog it names says.
Backed(row) == LET c == destination[row.id] IN
    /\ Valid(c, row.id)
    /\ row.archive = c[<<"lib", row.lib>>] /\ row.notices = c[<<"licenses", row.lib>>]

\* validate_release: no row without its catalog, no catalog without its rows,
\* and both libraries of each.
ValidateRelease ==
    /\ \A row \in claims : Backed(row)
    /\ made = {row.id : row \in claims}
    /\ \A b \in made : {row.lib : row \in {r \in claims : r.id = b}} = Libs
    /\ accepted' = claims
    /\ UNCHANGED <<builderVars, destination, made, collectorVars, reported, claims, damage>>

-----------------------------------------------------------------------------
(* The builder's package, installed file by file; and damage                *)

Damage == damage < MaxDamage /\ damage' = damage + 1

Install ==
    /\ Damage
    /\ \E b \in CatalogIds :
          \/ buildId' = b /\ UNCHANGED <<linked, catalog>>
          \/ linked' = LibsOf(Made[b]) /\ UNCHANGED <<buildId, catalog>>
          \/ catalog' = [catalog EXCEPT ![b] = Made[b]] /\ UNCHANGED <<buildId, linked>>
    /\ UNCHANGED <<destination, made, collectorVars, reported, claims, accepted>>

DamageFile ==
    /\ Damage
    /\ \E f \in Places, v \in {Missing, Link, Other} :
          catalog' = [catalog EXCEPT ![buildId][f] = v]
    /\ UNCHANGED <<linked, buildId, destination, made, collectorVars, reported, claims, accepted>>

Collector(p) == \/ FindInstalled(p) \/ CheckCatalog(p) \/ MakeDestination(p) \/ CopyFile(p)
                \/ CopyEnds(p) \/ Recheck(p) \/ KillCollector(p)

CatalogNext == \/ \E p \in Collectors : Collector(p)
               \/ Claim \/ ValidateRelease \/ Install \/ DamageFile

CatalogSpec == CatalogInit /\ [][CatalogNext]_catalogVars

-----------------------------------------------------------------------------
CONSTANT Genuine      \* the ids of builds of the pinned sources by the pinned recipe

PinnedBuild(c) ==
    /\ c[<<"recipe", 0>>] = <<"pinned">>
    /\ \A i \in Libs : /\ c[<<"srpm", i>>] = Pins[i].srpm
                       /\ ToSet(c[<<"sources", i>>]) = Pins[i].members
                       /\ ToSet(c[<<"licenses", i>>]) = Pins[i].notices

ASSUME GenuineAssumption == Genuine = {b \in CatalogIds : PinnedBuild(Made[b])}

IsGenuine(b) == b \in Genuine /\ destination[b] = Made[b]

\* "No catalog-supplied program, path, URL or checksum is a trust anchor": a
\* collection reports only a build of the pinned sources, and all of it,
\* whatever was reinstalled or damaged during the copy, and whatever a killed
\* or a concurrent collection has left at the destination; and a release is
\* accepted only with the archives and notices of such builds, of both
\* libraries, their catalogs beside it.
CatalogsAreGenuine ==
    /\ \A b \in reported : IsGenuine(b)
    /\ \A row \in accepted :
         /\ IsGenuine(row.id) /\ row.archive = Made[row.id][<<"lib", row.lib>>]
         /\ \A i \in Libs : \E r \in accepted : r.id = row.id /\ r.lib = i
===============================================================================
