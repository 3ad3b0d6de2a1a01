----------------------------- MODULE SelectedInit -----------------------------
(***************************************************************************)
(* scripts/prepare-sandbox-init.py --fetch: it reads the Release of the    *)
(* selected sandboxer version, downloads one archive by its asset id,      *)
(* checks it, and installs its sandbox-init and Go notices into the build  *)
(* tree.  People replace assets of the Release meanwhile, downloads are    *)
(* cut short, and preparations are killed, rerun, and run side by side.    *)
(***************************************************************************)
EXTENDS Naturals, Sequences, FiniteSets, SequencesExt

CONSTANTS Preparers,
          Uploads,      \* archives people attach under the name of the architecture:
                        \* [members, machine, tc], members a sequence of
                        \* [path, kind, mode, owned], tc the compiler of its init
          Machine,      \* the architecture asked for
          InitEdits     \* bound on what people change

Torn    == [members |-> <<>>, machine |-> "none", tc |-> "none"]
NoFiles == [from |-> Torn, whole |-> FALSE]     \* nothing, or half of it

ASSUME UploadAssumption == /\ InitEdits \in Nat /\ Torn \notin Uploads
                           /\ \A u \in Uploads : u.members # <<>>

VARIABLES published,   \* the Release: [public, names, id, archive], the last two of its
                       \* archive for Machine; names are the architectures, or "other"
          step,        \* next step of each preparer
          row,         \* the Release as each has read it
          payload,     \* what each has downloaded
          private,     \* its notices directory beside the public one
          notices,     \* release-inputs/sandboxer-go
          installed,   \* release-inputs/sandbox-init: the archive it is of
          met,         \* history: others wrote there since a preparer cleared the notices
          initEdits

initVars  == <<published, step, row, payload, private, notices, installed, met, initEdits>>
treeVars  == <<notices, installed, met>>
Native    == "x86_64"
Releases  == [public : BOOLEAN, names : SUBSET {Native, "aarch64", "other"},
              id : Nat, archive : Uploads \cup {Torn}]
NoRow     == [public |-> FALSE, names |-> {}, id |-> 0, archive |-> Torn]

InitInit ==
    /\ published \in [public : {TRUE}, names : {{Native, Machine}}, id : {1}, archive : Uploads]
    /\ step = [p \in Preparers |-> "idle"]
    /\ row = [p \in Preparers |-> NoRow] /\ payload = [p \in Preparers |-> Torn]
    /\ private = [p \in Preparers |-> NoFiles]
    /\ notices = NoFiles /\ installed = Torn /\ met = [p \in Preparers |-> FALSE]
    /\ initEdits = 0

-----------------------------------------------------------------------------
(* The checks of an archive                                                *)

Init_       == <<"bin", "sandbox-init">>
NoticesRoot == <<"share", "licenses", "sandboxer", "go-toolchain">>
Members(u)  == {u.members[i] : i \in DOMAIN u.members}

\* No member outside the directory, twice, of an odd kind or mode, or below a file.
SafeMembers(u) ==
    /\ \A m \in Members(u) : /\ m.path # <<>> /\ ".." \notin ToSet(m.path)
                             /\ m.kind \in {"dir", "file"} /\ m.owned
    /\ \A i, j \in DOMAIN u.members : u.members[i].path = u.members[j].path => i = j
    /\ \A m, n \in Members(u) : IsStrictPrefix(m.path, n.path) => m.kind = "dir"

\* One regular executable bin/sandbox-init of the architecture.
HasInit(u) == /\ \E m \in Members(u) : m.path = Init_ /\ m.kind = "file" /\ m.mode = "0755"
              /\ u.machine = Machine

\* The notices of the compiler that the binary itself names.
GoToolchain(u) == u.tc
NoticeDir(u)   == Append(NoticesRoot, GoToolchain(u))
NoticesOf(u)   == {m \in Members(u) : IsStrictPrefix(NoticeDir(u), m.path)}
HasNotices(u)  == /\ \A m \in NoticesOf(u) : m.mode = IF m.kind = "dir" THEN "0755" ELSE "0644"
                  /\ \E m \in NoticesOf(u) : m.path = Append(NoticeDir(u), "LICENSE")
                                             /\ m.kind = "file"

-----------------------------------------------------------------------------
(* One preparation                                                         *)

Go(p, from, to) == step[p] = from /\ step' = [step EXCEPT ![p] = to]
Fail(p)         == /\ step' = [step EXCEPT ![p] = "idle"]
                   /\ private' = [private EXCEPT ![p] = NoFiles]
Wrote(p)        == met' = [q \in Preparers |-> IF q = p THEN met[q] ELSE TRUE]

\* One asset of the name must be there; this one response is what counts.
ReadRelease(p) ==
    /\ Machine \in published.names /\ Go(p, "idle", "listed")
    /\ row' = [row EXCEPT ![p] = published]
    /\ UNCHANGED <<published, payload, private, treeVars, initEdits>>

\* By id: an asset that was replaced is gone; the bytes may end early.
Download(p) ==
    /\ step[p] = "listed"
    /\ IF published.id = row[p].id
       THEN /\ Go(p, "listed", "downloaded") /\ UNCHANGED private
            /\ \E u \in {published.archive, Torn} : payload' = [payload EXCEPT ![p] = u]
       ELSE Fail(p) /\ UNCHANGED payload
    /\ UNCHANGED <<published, row, treeVars, initEdits>>

\* Public, with the archive of one or of both architectures and nothing else.
Expected(r) == r.public /\ r.names \in {{Native}, {Native, "aarch64"}} /\ Machine \in r.names

Sound(u) == u # Torn /\ SafeMembers(u) /\ HasInit(u) /\ HasNotices(u)

\* Faulty variant: an archive of the right digest is taken as it is.
AdmitDigestOnly(p) ==
    /\ step[p] = "downloaded"
    /\ IF Expected(row[p]) /\ payload[p] = row[p].archive
       THEN Go(p, "downloaded", "admitted") /\ UNCHANGED private ELSE Fail(p)
    /\ UNCHANGED <<published, row, payload, treeVars, initEdits>>

\* Size and digest are the row's.
Admit(p) ==
    /\ step[p] = "downloaded"
    /\ IF Expected(row[p]) /\ payload[p] = row[p].archive /\ Sound(payload[p])
       THEN Go(p, "downloaded", "admitted") /\ UNCHANGED private ELSE Fail(p)
    /\ UNCHANGED <<published, row, payload, treeVars, initEdits>>

\* The notices are complete in a directory of its own first.
MakePrivate(p) ==
    /\ Go(p, "admitted", "private")
    /\ private' = [private EXCEPT ![p] = [from |-> payload[p], whole |-> TRUE]]
    /\ UNCHANGED <<published, row, payload, treeVars, initEdits>>

\* rmtree of what is there.
ClearNotices(p) ==
    /\ Go(p, "private", "cleared") /\ notices' = NoFiles
    /\ met' = [q \in Preparers |-> q # p]
    /\ UNCHANGED <<published, row, payload, private, installed, initEdits>>

\* A directory does not replace one that somebody else has put there.
PutNotices(p) ==
    /\ step[p] = "cleared"
    /\ IF notices = NoFiles
       THEN /\ Go(p, "cleared", "putInit") /\ notices' = private[p] /\ Wrote(p)
            /\ private' = [private EXCEPT ![p] = NoFiles]
       ELSE Fail(p) /\ UNCHANGED <<notices, met>>
    /\ UNCHANGED <<published, row, payload, installed, initEdits>>

\* A temporary file replaces the binary.
PutInit(p) ==
    /\ Go(p, "putInit", "done") /\ installed' = payload[p] /\ Wrote(p)
    /\ UNCHANGED <<published, row, payload, private, notices, initEdits>>

\* Killed: half of the old notices may be gone.
KillPreparer(p) ==
    /\ step[p] \notin {"idle", "done"} /\ Fail(p)
    /\ IF step[p] = "private" THEN notices' = [notices EXCEPT !.whole = FALSE] /\ Wrote(p)
       ELSE UNCHANGED <<notices, met>>
    /\ UNCHANGED <<published, row, payload, installed, initEdits>>

\* The build tree is prepared once more.
PrepareAgain(p) ==
    /\ Go(p, "done", "idle")
    /\ UNCHANGED <<published, row, payload, private, treeVars, initEdits>>

-----------------------------------------------------------------------------
\* People attach another archive, or an asset of a name nobody expects, or
\* take the Release back to a draft.
EditRelease ==
    /\ initEdits < InitEdits /\ initEdits' = initEdits + 1
    /\ \/ \E u \in Uploads :
             published' = [published EXCEPT !.id = initEdits + 2, !.archive = u]
       \/ published' = [published EXCEPT !.names = @ \cup {"other"}]
       \/ published' = [published EXCEPT !.public = FALSE]
    /\ UNCHANGED <<step, row, payload, private, treeVars>>

Preparer(p) == \/ ReadRelease(p) \/ Download(p) \/ Admit(p) \/ MakePrivate(p) \/ ClearNotices(p)
               \/ PutNotices(p) \/ PutInit(p) \/ KillPreparer(p) \/ PrepareAgain(p)

InitNext == (\E p \in Preparers : Preparer(p)) \/ EditRelease

InitSpec == InitInit /\ [][InitNext]_initVars

-----------------------------------------------------------------------------
\* "Install the exact sandbox-init from the selected release": whatever people
\* attach, downloads lose and kills leave, the installed binary is at all times
\* that of one sound archive; and a preparation that ends with nobody else
\* writing there meanwhile leaves the binary and the notices of the archive
\* that its one reading of the Release named.
PreparedIsSelected ==
    /\ installed # Torn => Sound(installed)
    /\ \A p \in Preparers : step[p] = "done" /\ ~met[p] =>
          /\ installed = row[p].archive
          /\ notices = [from |-> row[p].archive, whole |-> TRUE]
===============================================================================
