------------------------------ MODULE PreviewLine ------------------------------
(***************************************************************************)
(* scripts/validate-preview-line.sh: a component Preview is built only if  *)
(* a commit of the platform repository selects it.  The API gives a file   *)
(* by branch, not by commit, so the branch is read before and after it.    *)
(* The publisher runs the script again, twice, on the evidence of the      *)
(* first run.  scripts/ci-test-workflows.py takes its platform checkout in *)
(* the same way.  Branches advance, Stables are published and evidence is  *)
(* mixed up meanwhile.                                                     *)
(***************************************************************************)
EXTENDS Naturals, Sequences, SequencesExt

CONSTANTS Runs,
          Inputs,       \* [Runs -> [unit, tag, aggregate, sha]]: tag is [preview, date],
                        \* aggregate is [line, date], a date of "odd" is malformed
          History,      \* [branch -> sequence of commits it goes through]: "main", lines
          Manifest,     \* [commit -> [whole, line, date, tags, producer]]: whole if each
                        \* key is there once, tags [unit -> tag], producer whether
                        \* release/producer-inputs.py is there
          MaxMoves      \* bound on what others do

Branches == DOMAIN History
NoText   == [whole |-> FALSE, line |-> "none", date |-> "none", tags |-> <<>>, producer |-> FALSE]
NoEvidence == <<>>

(* A branch that only advances never comes back to a commit it was at.     *)
ASSUME HistoryAssumption ==
    /\ "main" \in Branches /\ MaxMoves \in Nat /\ "none" \notin DOMAIN Manifest
    /\ History["main"] # <<>>
    /\ \A b \in Branches : History[b] \in Seq(DOMAIN Manifest) /\ IsInjective(History[b])

VARIABLES head,       \* [Branches -> position in its history], 0 for no branch
          closed,     \* lines whose Stable is published
          at,         \* next step of each run
          looking,    \* branch it looks at
          text,       \* manifest it has read
          evidence,   \* preview evidence of each run, kept between its jobs
          digest,     \* its digest: the evidence itself, as a trusted job output
          platform,   \* checkout of the workflow tests: [step, observed, fetched]
          moves

lineVars == <<head, closed, at, looking, text, evidence, digest, platform, moves>>
runVars  == <<text, evidence, digest>>

InputOf(r) == Inputs[r]
SelectedLine(r) == InputOf(r).aggregate.line
HeadOf(b) == IF head[b] = 0 THEN "none" ELSE History[b][head[b]]

LineInit ==
    /\ head = [b \in Branches |-> IF b = "main" THEN 1 ELSE 0]
    /\ closed = {}
    /\ at = [r \in Runs |-> "start"] /\ looking = [r \in Runs |-> "main"]
    /\ text = [r \in Runs |-> NoText]
    /\ evidence = [r \in Runs |-> NoEvidence] /\ digest = [r \in Runs |-> NoEvidence]
    /\ platform = [step |-> "observe", observed |-> "none", fetched |-> "none"]
    /\ moves = 0

-----------------------------------------------------------------------------
Turn(r, from, ok, to) == /\ at[r] = from
                         /\ at' = [at EXCEPT ![r] = IF ok THEN to ELSE "failed"]

\* Preview, with the aggregate's date, and a full commit; anything else passes by.
WellFormed(r) == LET i == InputOf(r) IN
    /\ i.aggregate.date # "odd" /\ i.sha \in DOMAIN Manifest
    /\ i.tag.date = i.aggregate.date

Arguments(r) ==
    /\ IF InputOf(r).tag.preview THEN Turn(r, "start", WellFormed(r), "look")
       ELSE Turn(r, "start", TRUE, "passed")
    /\ looking' = [looking EXCEPT ![r] = "main"]
    /\ UNCHANGED <<head, closed, runVars, platform, moves>>

\* The first trusted branch at the commit; a branch that is not there is no error.
Look(r) ==
    LET b == looking[r] IN
    /\ at[r] = "look"
    /\ IF HeadOf(b) = InputOf(r).sha THEN Turn(r, "look", TRUE, "read") /\ UNCHANGED looking
       ELSE /\ Turn(r, "look", b = "main" /\ SelectedLine(r) \in Branches, "look")
            /\ looking' = [looking EXCEPT ![r] = SelectedLine(r)]
    /\ UNCHANGED <<head, closed, runVars, platform, moves>>

\* By branch: the file as it is at the head by now.
ReadManifest(r) ==
    /\ Turn(r, "read", TRUE, "again")
    /\ text' = [text EXCEPT ![r] = Manifest[HeadOf(looking[r])]]
    /\ UNCHANGED <<head, closed, looking, evidence, digest, platform, moves>>

\* Faulty variant: the branch is not read again.
HeadOnce(r) == /\ Turn(r, "again", TRUE, "select")
               /\ UNCHANGED <<head, closed, looking, runVars, platform, moves>>

HeadAgain(r) ==
    /\ at[r] = "again"
    /\ Turn(r, "again", HeadOf(looking[r]) = InputOf(r).sha, "select")
    /\ UNCHANGED <<head, closed, looking, runVars, platform, moves>>

\* The manifest names the aggregate, and the tag for the unit.
Selects(m, i) == /\ m.whole /\ m.line = i.aggregate.line /\ m.date = i.aggregate.date
                 /\ i.unit \in DOMAIN m.tags /\ m.tags[i.unit] = i.tag

Select(r) ==
    /\ Turn(r, "select", Selects(text[r], InputOf(r)), "stable")
    /\ UNCHANGED <<head, closed, looking, runVars, platform, moves>>

\* The first time there is evidence to be written; the publisher's runs go on.
CheckStable(r) ==
    /\ Turn(r, "stable", SelectedLine(r) \notin closed,
            CASE digest[r] = NoEvidence -> "write" [] looking[r] = "evidence" -> "once"
              [] OTHER -> "passed")
    /\ looking' = [looking EXCEPT ![r] = IF @ = "evidence" THEN "evidence again" ELSE @]
    /\ UNCHANGED <<head, closed, runVars, platform, moves>>

\* A new file, and its digest.
WriteEvidence(r) ==
    /\ Turn(r, "write", evidence[r] = NoEvidence, "staged")
    /\ evidence' = [evidence EXCEPT ![r] = <<InputOf(r), text[r]>>]
    /\ digest'   = [digest EXCEPT ![r] = <<InputOf(r), text[r]>>]
    /\ UNCHANGED <<head, closed, looking, text, platform, moves>>

\* revalidate_preview, before the upload and before the publication.
Revalidate(r) ==
    /\ at[r] \in {"staged", "once"}
    /\ evidence[r] # NoEvidence
    /\ Turn(r, at[r], evidence[r] = digest[r] /\ evidence[r][1] = InputOf(r), "select")
    /\ looking' = [looking EXCEPT ![r] = IF at[r] = "staged" THEN "evidence" ELSE @]
    /\ text' = [text EXCEPT ![r] = IF evidence[r] = digest[r] THEN evidence[r][2] ELSE @]
    /\ UNCHANGED <<head, closed, evidence, digest, platform, moves>>

\* An unreadable answer, or the runner is lost.
RunFails(r) ==
    /\ at[r] \notin {"failed", "passed"} /\ at' = [at EXCEPT ![r] = "failed"]
    /\ UNCHANGED <<head, closed, looking, runVars, platform, moves>>

-----------------------------------------------------------------------------
(* platform_fixture of the workflow tests                                  *)

Observe ==
    /\ platform.step = "observe"
    /\ platform' = [step |-> "fetch", observed |-> HeadOf("main"), fetched |-> "none"]
    /\ UNCHANGED <<head, closed, at, looking, runVars, moves>>

Fetch ==
    /\ platform.step = "fetch"
    /\ platform' = [platform EXCEPT !.step = "compare", !.fetched = HeadOf("main")]
    /\ UNCHANGED <<head, closed, at, looking, runVars, moves>>

\* Not the commit observed, or no producer-inputs.py in it: from the start.
Compare ==
    /\ platform.step = "compare"
    /\ platform' = [platform EXCEPT !.step =
           IF platform.fetched = platform.observed /\ Manifest[platform.fetched].producer
           THEN "yield" ELSE "observe"]
    /\ UNCHANGED <<head, closed, at, looking, runVars, moves>>

-----------------------------------------------------------------------------
(* Others                                                                  *)

Move == moves < MaxMoves /\ moves' = moves + 1 /\ UNCHANGED <<at, looking, text, digest, platform>>

\* Branches only advance; a line starts at a commit of main.
Push(b) ==
    /\ Move /\ head[b] < Len(History[b])
    /\ head[b] = 0 => \E i \in 1 .. head["main"] : History["main"][i] = History[b][1]
    /\ head' = [head EXCEPT ![b] = @ + 1]
    /\ UNCHANGED <<closed, evidence>>

CloseLine == /\ Move /\ \E b \in Branches \ {"main"} : closed' = closed \cup {b}
             /\ UNCHANGED <<head, evidence>>

\* The stage of another run, or an edited file.
MixUp(r) ==
    /\ Move /\ evidence[r] # NoEvidence
    /\ \E e \in {evidence[q] : q \in Runs} \cup {<<InputOf(r), m>> : m \in ToSet(
                   [i \in DOMAIN History["main"] |-> Manifest[History["main"][i]]])} :
          evidence' = [evidence EXCEPT ![r] = e]
    /\ UNCHANGED <<head, closed>>

LineRun(r) == \/ Arguments(r) \/ Look(r) \/ ReadManifest(r) \/ HeadAgain(r) \/ Select(r)
              \/ CheckStable(r) \/ WriteEvidence(r) \/ Revalidate(r) \/ RunFails(r)

LineNext == \/ \E r \in Runs : LineRun(r) \/ MixUp(r)
            \/ Observe \/ Fetch \/ Compare
            \/ \E b \in Branches : Push(b)
            \/ CloseLine

LineSpec == LineInit /\ [][LineNext]_lineVars

-----------------------------------------------------------------------------
\* "Reject movement around the manifest read": a Preview passes only if the
\* manifest of the very commit that was asked for selects it, wherever the
\* branches went meanwhile and whatever became of the evidence; and the
\* workflow tests run on the commit they observed.
PassedIsSelected ==
    /\ \A r \in Runs : at[r] = "passed" /\ InputOf(r).tag.preview =>
          Selects(Manifest[InputOf(r).sha], InputOf(r))
    /\ platform.step = "yield" => platform.fetched = platform.observed
===============================================================================
