-------------------------- MODULE GuestInspect_proofs --------------------------
(***************************************************************************)
(* Proofs about GuestInspect, for any guest, any boots and any interrupts, *)
(* kills and reruns: what its output file and its last line say; and that  *)
(* a sample is true, which needs sums over sets of CPUs, the search for    *)
(* the blocks of the name table, and the four address translations.        *)
(***************************************************************************)
EXTENDS GuestInspect, SequenceTheorems, FiniteSetTheorems, WellFoundedInduction, TLAPS

Documents == [run : Nat, samples : Nat, whole : BOOLEAN]

CountTypes ==
    /\ pc \in Steps
    /\ run \in Nat /\ snaps \in Nat /\ beats \in Nat
    /\ watch \in BOOLEAN /\ raised \in BOOLEAN
    /\ tmp \in Documents /\ out \in Documents
    /\ reported \in [run : Nat, samples : Nat]

Sampling == {"names", "probe", "offset", "events"}
Flushing == {"flush", "write", "replace", "beat"}

\* A sample is taken after the heartbeat of the one before, and flushed before
\* its own.
CountsMatch ==
    /\ pc \in {"parse", "open"} => snaps = 0 /\ beats = 0
    /\ pc \in Sampling => snaps = beats
    /\ pc \in Flushing => snaps = beats + 1
    /\ beats <= snaps
    /\ pc # "idle" => run > 0

\* What the temporary file holds when it becomes the output.
FilesMatch ==
    /\ out.whole
    /\ pc \in {"replace", "lastReplace"} => tmp = Document(run, snaps, TRUE)
    /\ pc \in {"beat", "report"} => out = Document(run, snaps, TRUE)
    /\ beats > 0 => out.run = run /\ out.samples >= beats

\* A run reports as the last thing it does.
ReportLast ==
    /\ reported.run <= run
    /\ reported.run = run /\ run > 0
         => pc = "idle" /\ out = Document(run, reported.samples, TRUE)

FileInv == CountTypes /\ CountsMatch /\ FilesMatch /\ ReportLast

watched == <<pc, run, watch, raised, snaps, beats, tmp, out, reported>>

\* A document has the fields it was made of.
LEMMA DocumentFields ==
  ASSUME NEW r, NEW n, NEW w
  PROVE  /\ Document(r, n, w).run = r /\ Document(r, n, w).samples = n
         /\ Document(r, n, w).whole = w
         /\ r \in Nat /\ n \in Nat /\ w \in BOOLEAN => Document(r, n, w) \in Documents
  BY DEF Document, Documents

\* The placeholder of a file that is not there.
LEMMA NoDocumentFields ==
  NoDocument \in Documents /\ NoDocument.whole /\ NoDocument.run = 0 /\ NoDocument.samples = 0
  BY DEF NoDocument, Document, Documents

\* Before the first run there is neither a file nor a report.
LEMMA InitFiles == Init => FileInv
<1> SUFFICES ASSUME Init PROVE FileInv
  OBVIOUS
<1>1. CountTypes
  BY NoDocumentFields DEF Init, CountTypes, Steps, NoReport
<1>2. CountsMatch /\ FilesMatch /\ ReportLast
  BY NoDocumentFields
     DEF Init, CountsMatch, FilesMatch, ReportLast, NoReport, Sampling, Flushing
<1>3. QED
  BY <1>1, <1>2 DEF FileInv

\* The counters and the files are those of the inspector.
LEMMA SameFiles == ASSUME FileInv, UNCHANGED watched PROVE FileInv'
  BY DEF FileInv, CountTypes, CountsMatch, FilesMatch, ReportLast, watched

\* A step of the inspector that only goes on, or into finally.
LEMMA GoFiles ==
  ASSUME FileInv, UNCHANGED <<run, watch, snaps, beats, tmp, out, reported>>, raised' \in BOOLEAN,
         \/ pc \in {"parse", "open"} /\ pc' \in {"parse", "open", "names"}
         \/ pc \in Sampling /\ pc' \in Sampling
         \/ pc \in Sampling \cup Flushing /\ pc' = "finally"
         \/ pc = "finally" /\ pc' = "lastFlush"
  PROVE  FileInv'
  BY DEF FileInv, CountTypes, CountsMatch, FilesMatch, ReportLast, Sampling, Flushing, Steps,
         Guarded, Ending

\* A run that ends without a report leaves the output as it is.
LEMMA EndFiles ==
  ASSUME FileInv, End, pc # "idle", UNCHANGED <<snaps, beats, tmp, out, reported>>
  PROVE  FileInv'
  BY DEF End, Go, FileInv, CountTypes, CountsMatch, FilesMatch, ReportLast, Sampling, Flushing,
         Steps

\* Reading the log and opening the memory of CH.
LEMMA SetupFiles == ASSUME FileInv, Start \/ ParseLine \/ ParseEnd \/ Open PROVE FileInv'
<1>1. CASE Start
  <2>1. /\ run' = run + 1 /\ watch' \in BOOLEAN /\ snaps' = 0 /\ beats' = 0 /\ pc' = "parse"
        /\ UNCHANGED <<raised, tmp, out, reported>>
    BY <1>1 DEF Start, Go, fileVars
  <2>2. CountTypes'
    BY <2>1 DEF FileInv, CountTypes, Steps
  <2>3. run \in Nat /\ reported.run \in Nat /\ reported.run <= run
    BY DEF FileInv, CountTypes, ReportLast
  <2>4. CountsMatch' /\ FilesMatch' /\ ReportLast'
    BY <2>1, <2>3 DEF FileInv, CountsMatch, FilesMatch, ReportLast, Sampling, Flushing
  <2>5. QED
    BY <2>2, <2>4 DEF FileInv
<1>2. CASE ParseLine
  BY <1>2, SameFiles DEF ParseLine, watched, countVars, userVars, fileVars
<1>3. CASE ParseEnd
  <2>1. pc = "parse" /\ UNCHANGED <<snaps, beats, tmp, out, reported>>
    BY <1>3 DEF ParseEnd, At, countVars, fileVars
  <2>2. \/ pc' = "open" /\ UNCHANGED <<run, watch, raised>>
        \/ End
    BY <1>3 DEF ParseEnd, Go, userVars
  <2>3. raised \in BOOLEAN
    BY DEF FileInv, CountTypes
  <2>4. QED
    BY <2>1, <2>2, <2>3, GoFiles, EndFiles
<1>4. CASE Open
  <2>1. pc = "open" /\ UNCHANGED <<snaps, beats, tmp, out, reported>>
    BY <1>4 DEF Open, At, countVars, fileVars
  <2>2. \/ pc' = "names" /\ UNCHANGED <<run, watch, raised>>
        \/ End
    BY <1>4 DEF Open, Go, userVars
  <2>3. raised \in BOOLEAN
    BY DEF FileInv, CountTypes
  <2>4. QED
    BY <2>1, <2>2, <2>3, GoFiles, EndFiles
<1>5. QED
  BY <1>1, <1>2, <1>3, <1>4

\* A sample counts when it is complete; a read that fails keeps the others.
LEMMA SampleFiles == ASSUME FileInv, Sample PROVE FileInv'
<1>a. raised \in BOOLEAN
  BY DEF FileInv, CountTypes
<1>1. CASE ReadNames \/ Probe \/ ReadOffset \/ ReadEvents
  <2>1. pc \in Sampling /\ UNCHANGED <<snaps, beats, tmp, out, reported>>
    BY <1>1 DEF ReadNames, Probe, ReadOffset, ReadEvents, At, Sampling, countVars, fileVars
  <2>2. \/ pc' \in Sampling /\ UNCHANGED <<run, watch, raised>>
        \/ pc' = "finally" /\ raised' = TRUE /\ UNCHANGED <<run, watch>>
    BY <1>1 DEF ReadNames, Probe, ReadOffset, ReadEvents, Go, Raise, Sampling, userVars
  <2>3. QED
    BY <1>a, <2>1, <2>2, GoFiles
<1>2. CASE Take
  <2>1. /\ pc = "offset" /\ pc' = "flush" /\ snaps' = snaps + 1
        /\ UNCHANGED <<run, watch, raised, beats, tmp, out, reported>>
    BY <1>2 DEF Take, At, Go, userVars, fileVars
  <2>2. QED
    BY <2>1 DEF FileInv, CountTypes, CountsMatch, FilesMatch, ReportLast, Sampling, Flushing,
                Steps, Guarded
<1>3. QED
  BY <1>1, <1>2 DEF Sample

\* The three steps of a flush, in the loop and at the end.
LEMMA FlushFiles == ASSUME FileInv, Flush PROVE FileInv'
<1>1. CASE OpenTmp("flush", "write")
  <2>1. /\ pc = "flush" /\ pc' = "write" /\ tmp' = Document(run, 0, FALSE)
        /\ UNCHANGED <<run, watch, raised, snaps, beats, out, reported>>
    BY <1>1 DEF OpenTmp, At, Go, fileStep, userVars, countVars
  <2>2. tmp' \in Documents
    BY <2>1, DocumentFields DEF FileInv, CountTypes
  <2>3. QED
    BY <2>1, <2>2
       DEF FileInv, CountTypes, CountsMatch, FilesMatch, ReportLast, Sampling, Flushing, Steps,
           Guarded
<1>2. CASE WriteTmp("write", "replace")
  <2>1. pc = "write" /\ UNCHANGED <<snaps, beats, out, reported>>
    BY <1>2 DEF WriteTmp, At, countVars
  <2>2. CASE End /\ UNCHANGED tmp
    BY <2>1, <2>2, EndFiles
  <2>3. CASE /\ tmp' = Document(run, snaps, TRUE) /\ pc' = "replace"
             /\ UNCHANGED <<run, watch, raised>>
    <3>1. tmp' \in Documents
      BY <2>3, DocumentFields DEF FileInv, CountTypes
    <3>2. tmp' = Document(run', snaps', TRUE)
      BY <2>1, <2>3
    <3>3. QED
      BY <2>1, <2>3, <3>1, <3>2
         DEF FileInv, CountTypes, CountsMatch, FilesMatch, ReportLast, Sampling, Flushing, Steps,
             Guarded
  <2>4. QED
    BY <1>2, <2>2, <2>3 DEF WriteTmp, Go, userVars
<1>3. CASE Replace("replace", AfterFlush)
  <2>1. /\ pc = "replace" /\ pc' \in {"beat", "finally"} /\ out' = tmp /\ tmp' = NoDocument
        /\ UNCHANGED <<run, watch, raised, snaps, beats, reported>>
    BY <1>3 DEF Replace, AfterFlush, At, Go, fileStep, userVars, countVars
  <2>2. tmp = Document(run, snaps, TRUE) /\ snaps = beats + 1
    BY <2>1 DEF FileInv, FilesMatch, CountsMatch, Flushing
  <2>3. /\ out' = Document(run', snaps', TRUE) /\ out'.run = run /\ out'.samples = snaps
        /\ out'.whole /\ out' \in Documents /\ tmp' \in Documents
    <3>1. run \in Nat /\ snaps \in Nat
      BY DEF FileInv, CountTypes
    <3>2. out' = Document(run, snaps, TRUE) /\ tmp' = NoDocument
      BY <2>1, <2>2
    <3>3. Document(run, snaps, TRUE) = Document(run', snaps', TRUE)
      BY <2>1
    <3>4. QED
      <4>1. Document(run, snaps, TRUE).run = run /\ Document(run, snaps, TRUE).samples = snaps
            /\ Document(run, snaps, TRUE).whole /\ Document(run, snaps, TRUE) \in Documents
        BY <3>1 DEF Document, Documents
      <4>2. QED
        BY <3>2, <3>3, <4>1, NoDocumentFields
  <2>4. QED
    BY <2>1, <2>2, <2>3
       DEF FileInv, CountTypes, CountsMatch, FilesMatch, ReportLast, Sampling, Flushing, Steps,
           Guarded, Ending
<1>4. QED
  BY <1>1, <1>2, <1>3 DEF Flush

\* The same three steps at the end, after the descriptor is closed.
LEMMA LastFlushFiles == ASSUME FileInv, LastFlush PROVE FileInv'
<1>1. CASE OpenTmp("lastFlush", "lastWrite")
  <2>1. /\ pc = "lastFlush" /\ pc' = "lastWrite" /\ tmp' = Document(run, 0, FALSE)
        /\ UNCHANGED <<run, watch, raised, snaps, beats, out, reported>>
    BY <1>1 DEF OpenTmp, At, Go, fileStep, userVars, countVars
  <2>2. tmp' \in Documents
    BY <2>1, DocumentFields DEF FileInv, CountTypes
  <2>3. QED
    BY <2>1, <2>2
       DEF FileInv, CountTypes, CountsMatch, FilesMatch, ReportLast, Sampling, Flushing, Steps,
           Ending
<1>2. CASE WriteTmp("lastWrite", "lastReplace")
  <2>1. pc = "lastWrite" /\ UNCHANGED <<snaps, beats, out, reported>>
    BY <1>2 DEF WriteTmp, At, countVars
  <2>2. CASE End /\ UNCHANGED tmp
    BY <2>1, <2>2, EndFiles
  <2>3. CASE /\ tmp' = Document(run, snaps, TRUE) /\ pc' = "lastReplace"
             /\ UNCHANGED <<run, watch, raised>>
    <3>1. tmp' \in Documents
      BY <2>3, DocumentFields DEF FileInv, CountTypes
    <3>2. tmp' = Document(run', snaps', TRUE)
      BY <2>1, <2>3
    <3>3. QED
      BY <2>1, <2>3, <3>1, <3>2
         DEF FileInv, CountTypes, CountsMatch, FilesMatch, ReportLast, Sampling, Flushing, Steps,
             Ending
  <2>4. QED
    BY <1>2, <2>2, <2>3 DEF WriteTmp, Go, userVars
<1>3. CASE Replace("lastReplace", "report")
  <2>1. /\ pc = "lastReplace" /\ pc' = "report" /\ out' = tmp /\ tmp' = NoDocument
        /\ UNCHANGED <<run, watch, raised, snaps, beats, reported>>
    BY <1>3 DEF Replace, At, Go, fileStep, userVars, countVars
  <2>2. tmp = Document(run, snaps, TRUE) /\ beats <= snaps
    BY <2>1 DEF FileInv, FilesMatch, CountsMatch
  <2>3. /\ out' = Document(run', snaps', TRUE) /\ out'.run = run /\ out'.samples = snaps
        /\ out'.whole /\ out' \in Documents /\ tmp' \in Documents
    <3>1. run \in Nat /\ snaps \in Nat
      BY DEF FileInv, CountTypes
    <3>2. out' = Document(run, snaps, TRUE) /\ tmp' = NoDocument
      BY <2>1, <2>2
    <3>3. Document(run, snaps, TRUE) = Document(run', snaps', TRUE)
      BY <2>1
    <3>4. QED
      <4>1. Document(run, snaps, TRUE).run = run /\ Document(run, snaps, TRUE).samples = snaps
            /\ Document(run, snaps, TRUE).whole /\ Document(run, snaps, TRUE) \in Documents
        BY <3>1 DEF Document, Documents
      <4>2. QED
        BY <3>2, <3>3, <4>1, NoDocumentFields
  <2>4. QED
    BY <2>1, <2>2, <2>3
       DEF FileInv, CountTypes, CountsMatch, FilesMatch, ReportLast, Sampling, Flushing, Steps,
           Ending
<1>4. QED
  BY <1>1, <1>2, <1>3 DEF LastFlush

\* Heartbeat, finally and the last line.
LEMMA LoopFiles == ASSUME FileInv, Heartbeat \/ Finally \/ EndReport PROVE FileInv'
<1>1. CASE Heartbeat
  <2>1. /\ pc = "beat" /\ pc' = "names" /\ beats' = beats + 1
        /\ UNCHANGED <<run, watch, raised, snaps, tmp, out, reported>>
    BY <1>1 DEF Heartbeat, At, Go, userVars, fileVars
  <2>2. out = Document(run, snaps, TRUE) /\ snaps = beats + 1
    BY <2>1 DEF FileInv, FilesMatch, CountsMatch, Flushing
  <2>3. out.run = run /\ out.samples = snaps
    BY <2>2 DEF Document
  <2>4. CountTypes'
    BY <2>1 DEF FileInv, CountTypes, Steps, Guarded
  <2>5. snaps \in Nat /\ beats \in Nat
    BY DEF FileInv, CountTypes
  <2>6. CountsMatch'
    BY <2>1, <2>2, <2>5 DEF FileInv, CountsMatch, Sampling, Flushing
  <2>7. out'.run = run' /\ out'.samples >= beats'
    <3>1. out' = out /\ run' = run /\ beats' = beats + 1
      BY <2>1
    <3>2. out'.run = run' /\ out'.samples = snaps
      BY <2>3, <3>1
    <3>3. snaps >= beats'
      BY <2>2, <2>5, <3>1
    <3>4. QED
      BY <3>2, <3>3
  <2>8. FilesMatch'
    BY <2>1, <2>7 DEF FileInv, FilesMatch
  <2>9. ReportLast'
    BY <2>1 DEF FileInv, ReportLast
  <2>10. QED
    BY <2>4, <2>6, <2>8, <2>9 DEF FileInv
<1>2. CASE Finally
  <2>1. /\ pc = "finally" /\ pc' = "lastFlush"
        /\ UNCHANGED <<run, watch, raised, snaps, beats, tmp, out, reported>>
    BY <1>2 DEF Finally, At, Go, countVars, userVars, fileVars
  <2>2. raised \in BOOLEAN
    BY DEF FileInv, CountTypes
  <2>3. QED
    BY <2>1, <2>2, GoFiles
<1>3. CASE EndReport
  <2>1. /\ pc = "report" /\ pc' = "idle" /\ run' = run /\ watch' = FALSE /\ raised' = FALSE
        /\ UNCHANGED <<snaps, beats, tmp, out>>
        /\ \/ reported' = reported
           \/ reported' = [run |-> run, samples |-> snaps]
    BY <1>3 DEF EndReport, End, At, Go, countVars
  <2>2. out = Document(run, snaps, TRUE)
    BY <2>1 DEF FileInv, FilesMatch
  <2>3. /\ reported' \in [run : Nat, samples : Nat]
        /\ reported'.run <= run
        /\ reported'.run = run => out = Document(run, reported'.samples, TRUE)
    <3>1. run > 0 /\ run \in Nat /\ snaps \in Nat
      BY <2>1 DEF FileInv, CountsMatch, CountTypes
    <3>2. CASE reported' = reported
      BY <2>1, <3>1, <3>2 DEF FileInv, ReportLast, CountTypes
    <3>3. CASE reported' = [run |-> run, samples |-> snaps]
      BY <2>2, <3>1, <3>3
    <3>4. QED
      BY <2>1, <3>2, <3>3
  <2>4. ReportLast'
    BY <2>1, <2>3 DEF ReportLast
  <2>5. CountTypes' /\ CountsMatch' /\ FilesMatch'
    BY <2>1, <2>3 DEF FileInv, CountTypes, CountsMatch, FilesMatch, Sampling, Flushing, Steps
  <2>6. QED
    BY <2>4, <2>5 DEF FileInv
<1>4. QED
  BY <1>1, <1>2, <1>3

\* The user stops the inspector anywhere.
LEMMA StopFiles == ASSUME FileInv, Interrupt \/ Kill PROVE FileInv'
<1>1. pc # "idle" /\ UNCHANGED <<snaps, beats, tmp, out, reported>>
  BY DEF Interrupt, Kill, At, countVars, fileVars
<1>2. \/ End
      \/ pc \in Guarded /\ pc' = "finally" /\ UNCHANGED <<run, watch, raised>>
  BY DEF Interrupt, Kill, Go, userVars
<1>3. Guarded = Sampling \cup Flushing /\ raised \in BOOLEAN
  BY DEF Guarded, Sampling, Flushing, FileInv, CountTypes
<1>4. QED
  BY <1>1, <1>2, <1>3, EndFiles, GoFiles

\* FileInv is inductive.
LEMMA NextFiles == FileInv /\ [Next]_vars => FileInv'
<1> SUFFICES ASSUME FileInv, [Next]_vars PROVE FileInv'
  OBVIOUS
<1>1. CASE Guest \/ UNCHANGED vars
  <2>1. UNCHANGED watched
    BY <1>1 DEF Guest, vars, watched, countVars, userVars, fileVars
  <2>2. QED
    BY <2>1, SameFiles
<1>2. CASE Inspector
  BY <1>2, SetupFiles, SampleFiles, FlushFiles, LastFlushFiles, LoopFiles DEF Inspector
<1>3. CASE Interrupt \/ Kill
  BY <1>3, StopFiles
<1>4. QED
  BY <1>1, <1>2, <1>3 DEF Next

\* What the files and the counters of a run have to do with each other holds
\* in every reachable state.
THEOREM FilesCorrect == Spec => []FileInv
  BY InitFiles, NextFiles, PTL DEF Spec

\* A sample announced by a heartbeat is in the output of its run and stays
\* there, however that run is interrupted or killed; and the output is whole at
\* all times.
THEOREM HeartbeatCorrect == Spec => []HeartbeatIsDurable
<1>1. FileInv => HeartbeatIsDurable
  BY DEF FileInv, FilesMatch, HeartbeatIsDurable
<1>2. QED
  BY <1>1, FilesCorrect, PTL

\* A run that says how many samples it wrote left these in the output.
THEOREM ReportTrue == Spec => []ReportMatchesFile
<1>1. FileInv => ReportMatchesFile
  BY DEF FileInv, ReportLast, ReportMatchesFile
<1>2. QED
  BY <1>1, FilesCorrect, PTL

-----------------------------------------------------------------------------
(* Sums over sets of CPUs                                                  *)

\* What holds of zero and is handed on by each number holds of all: the least
\* number without it would have a predecessor.
LEMMA NumberInduction ==
  ASSUME NEW Q \in SUBSET Nat, 0 \in Q, \A n \in Q : n + 1 \in Q
  PROVE  Q = Nat
<1>1. SUFFICES ASSUME Nat \ Q # {} PROVE FALSE
  OBVIOUS
<1>2. IsWellFoundedOn(OpToRel(<, Nat), Nat)
  BY Zenon, NatLessThanWellFounded
<1>3. PICK n \in Nat \ Q : \A m \in Nat \ Q : ~ (<<m, n>> \in OpToRel(<, Nat))
  <2>1. Nat \ Q \subseteq Nat
    OBVIOUS
  <2>2. QED
    BY <1>1, <1>2, <2>1, WFMin
<1>4. \A m \in Nat \ Q : ~(m < n)
  BY <1>3 DEF OpToRel
<1>5. n # 0 /\ n \in Nat /\ n \notin Q
  OBVIOUS
<1>6. n - 1 \in Nat /\ n - 1 < n /\ (n - 1) + 1 = n
  BY <1>5
<1>7. n - 1 \in Q
  BY <1>4, <1>6
<1>8. (n - 1) + 1 \in Q
  BY <1>7
<1>9. QED
  BY <1>5, <1>6, <1>8

\* The same for the subsets of a finite set.
LEMMA SubsetInduction ==
  ASSUME NEW S, IsFiniteSet(S), NEW Q \in SUBSET (SUBSET S),
         \A T \in SUBSET S : (\A U \in SUBSET T : U # T => U \in Q) => T \in Q
  PROVE  Q = SUBSET S
<1>1. SUFFICES ASSUME (SUBSET S) \ Q # {} PROVE FALSE
  OBVIOUS
<1>2. IsWellFoundedOn(StrictSubsetOrdering(S), SUBSET S)
  BY FS_StrictSubsetOrderingWellFounded, FS_FiniteSubsetsOfFinite
<1>3. PICK T \in (SUBSET S) \ Q : \A U \in (SUBSET S) \ Q : ~ (<<U, T>> \in StrictSubsetOrdering(S))
  <2> DEFINE R == StrictSubsetOrdering(S)
             W == SUBSET S
             D == W \ Q
  <2>1. IsWellFoundedOn(R, W) /\ D \subseteq W /\ D # {}
    BY <1>1, <1>2
  <2> HIDE DEF R, W, D
  <2>2. \E T \in D : \A U \in D : ~ (<<U, T>> \in R)
    BY <2>1, WFMin
  <2>3. QED
    BY <2>2 DEF R, W, D
<1>4. ASSUME NEW U \in SUBSET T, U # T PROVE U \in Q
  <2>1. U \in SUBSET S /\ <<U, T>> \in StrictSubsetOrdering(S)
    BY <1>4 DEF StrictSubsetOrdering
  <2>2. QED
    BY <1>3, <2>1
<1>5. T \in SUBSET S /\ T \notin Q
  OBVIOUS
<1>6. QED
  BY <1>4, <1>5

\* What MapThenSumSet sums over S, as a recursive function on its subsets.
SumStep(counts, e, g, s) ==
    IF s = {} THEN 0 ELSE LET x == CHOOSE x \in s : TRUE IN counts[x][e] + g[s \ {x}]
SumsOf(counts, e, S, g) == g = [s \in SUBSET S |-> SumStep(counts, e, g, s)]
SumOver(counts, e, S) == MapThenSumSet(LAMBDA c : counts[c][e], S)

\* MapThenSumSet sums by the recursive function that it chooses.
LEMMA SumIsChoice ==
  ASSUME NEW counts, NEW e, NEW S
  PROVE  SumOver(counts, e, S) = (CHOOSE g : SumsOf(counts, e, S, g))[S]
  BY Zenon DEF SumOver, MapThenSumSet, MapThenFoldSet, SumsOf, SumStep

\* Such a function exists: one on the subsets of at most n elements extends to
\* those of n + 1, as it is asked only about smaller ones.
LEMMA SumExists ==
  ASSUME NEW counts, NEW e, NEW S, IsFiniteSet(S)
  PROVE  \E g : SumsOf(counts, e, S, g)
<1> DEFINE Small(n) == {s \in SUBSET S : Cardinality(s) <= n}
           Good(n)  == \E g : g = [s \in Small(n) |-> SumStep(counts, e, g, s)]
           Q        == {n \in Nat : Good(n)}
<1>0. \A s \in SUBSET S : IsFiniteSet(s) /\ Cardinality(s) \in Nat
                          /\ (Cardinality(s) = 0 <=> s = {})
  BY FS_Subset, FS_CardinalityType, FS_EmptySet
<1>1. 0 \in Q
  <2> DEFINE g == [s \in Small(0) |-> 0]
  <2>1. Small(0) = {{}}
    BY <1>0, FS_EmptySet
  <2>2. g = [s \in Small(0) |-> SumStep(counts, e, g, s)]
    BY <2>1 DEF SumStep
  <2>3. QED
    BY <2>2
<1>2. ASSUME NEW n \in Q PROVE n + 1 \in Q
  <2>1. PICK g : g = [s \in Small(n) |-> SumStep(counts, e, g, s)]
    OBVIOUS
  <2> DEFINE h == [s \in Small(n + 1) |-> SumStep(counts, e, g, s)]
  <2>2. \A s \in Small(n) : s \in Small(n + 1) /\ g[s] = h[s]
    <3>1. n \in Nat
      OBVIOUS
    <3>2. \A s \in Small(n) : s \in Small(n + 1)
      BY <1>0, <3>1
    <3>3. \A s \in Small(n) : g[s] = SumStep(counts, e, g, s)
      BY <2>1
    <3>4. QED
      BY <3>2, <3>3
  <2>3. ASSUME NEW s \in Small(n + 1)
        PROVE  SumStep(counts, e, g, s) = SumStep(counts, e, h, s)
    <3>1. CASE s = {}
      BY <3>1 DEF SumStep
    <3>2. CASE s # {}
      <4> DEFINE x == CHOOSE x \in s : TRUE
      <4>1. x \in s
        BY <3>2
      <4>2. s \in SUBSET S /\ Cardinality(s) <= n + 1 /\ n \in Nat
        OBVIOUS
      <4>3. Cardinality(s \ {x}) = Cardinality(s) - 1
        BY <1>0, <4>1, <4>2, FS_RemoveElement
      <4>4. s \ {x} \in Small(n)
        <5>1. Cardinality(s) \in Nat
          BY <1>0, <4>2
        <5>2. Cardinality(s) - 1 <= n
          BY <4>2, <5>1
        <5>3. QED
          BY <4>2, <4>3, <5>2
      <4>5. g[s \ {x}] = h[s \ {x}]
        BY <2>2, <4>4
      <4>6. QED
        BY <3>2, <4>5 DEF SumStep
    <3>3. QED
      BY <3>1, <3>2
  <2>4. h = [s \in Small(n + 1) |-> SumStep(counts, e, h, s)]
    BY <2>3
  <2>5. n + 1 \in Nat
    OBVIOUS
  <2> HIDE DEF h
  <2>6. Good(n + 1)
    BY <2>4, Zenon
  <2> HIDE DEF Good
  <2>7. QED
    BY <2>5, <2>6
<1>3. Q = Nat
  <2> HIDE DEF Good
  <2>1. Q \in SUBSET Nat
    OBVIOUS
  <2> HIDE DEF Q
  <2>2. QED
    BY <1>1, <1>2, <2>1, NumberInduction
<1>4. Cardinality(S) \in Nat /\ Small(Cardinality(S)) = SUBSET S
  BY FS_CardinalityType, FS_Subset
<1>5. Good(Cardinality(S))
  BY <1>3, <1>4
<1>6. QED
  BY <1>4, <1>5 DEF SumsOf

\* On every subset they agree, whatever the sets they are defined on.
LEMMA SumUnique ==
  ASSUME NEW counts, NEW e, NEW S, IsFiniteSet(S), NEW T \in SUBSET S,
         NEW g, SumsOf(counts, e, S, g), NEW h, SumsOf(counts, e, T, h)
  PROVE  g[T] = h[T]
<1> DEFINE Q == {s \in SUBSET T : g[s] = h[s]}
<1>1. ASSUME NEW s \in SUBSET T, \A u \in SUBSET s : u # s => u \in Q
      PROVE  s \in Q
  <2>1. s \in SUBSET S /\ g[s] = SumStep(counts, e, g, s) /\ h[s] = SumStep(counts, e, h, s)
    BY DEF SumsOf
  <2>2. CASE s = {}
    BY <2>1, <2>2 DEF SumStep
  <2>3. CASE s # {}
    <3> DEFINE x == CHOOSE x \in s : TRUE
    <3>1. x \in s
      BY <2>3
    <3>2. s \ {x} \in SUBSET s /\ s \ {x} # s
      BY <3>1
    <3>3. s \ {x} \in Q
      BY <1>1, <3>2
    <3>4. g[s \ {x}] = h[s \ {x}]
      BY <3>3
    <3>5. SumStep(counts, e, g, s) = SumStep(counts, e, h, s)
      BY <2>3, <3>4 DEF SumStep
    <3>6. QED
      BY <2>1, <3>5
  <2>4. QED
    BY <2>2, <2>3
<1>2. IsFiniteSet(T)
  BY FS_Subset
<1>3. Q = SUBSET T
  <2>1. Q \in SUBSET (SUBSET T)
    OBVIOUS
  <2> HIDE DEF Q
  <2>2. QED
    BY <1>1, <1>2, <2>1, SubsetInduction
<1>4. T \in Q
  BY <1>3
<1>5. QED
  BY <1>4

\* A sum is that of one element and the rest.
LEMMA SumUnfold ==
  ASSUME NEW counts, NEW e, NEW S, IsFiniteSet(S)
  PROVE  /\ S = {} => SumOver(counts, e, S) = 0
         /\ S # {} => LET x == CHOOSE x \in S : TRUE
                      IN  SumOver(counts, e, S) = counts[x][e] + SumOver(counts, e, S \ {x})
<1> DEFINE x == CHOOSE x \in S : TRUE
           T == S \ {x}
           g == CHOOSE g : SumsOf(counts, e, S, g)
           h == CHOOSE h : SumsOf(counts, e, T, h)
<1>1. IsFiniteSet(T) /\ T \in SUBSET S
  BY FS_Subset
<1>2. SumsOf(counts, e, S, g) /\ SumOver(counts, e, S) = g[S]
  BY SumExists, SumIsChoice
<1>3. SumsOf(counts, e, T, h) /\ SumOver(counts, e, T) = h[T]
  BY <1>1, SumExists, SumIsChoice
<1> HIDE DEF g, h
<1>4. g[S] = SumStep(counts, e, g, S)
  BY <1>2 DEF SumsOf
<1>5. g[T] = h[T]
  BY <1>1, <1>2, <1>3, SumUnique
<1>6. CASE S = {}
  BY <1>2, <1>4, <1>6 DEF SumStep
<1>7. CASE S # {}
  BY <1>2, <1>3, <1>4, <1>5, <1>7 DEF SumStep
<1>8. QED
  BY <1>6, <1>7

\* Counts are natural numbers.
Counts(counts, e, S) == \A c \in S : counts[c][e] \in Nat

\* A sum of counts is a number.
LEMMA SumNat ==
  ASSUME NEW counts, NEW e, NEW S, IsFiniteSet(S), Counts(counts, e, S)
  PROVE  SumOver(counts, e, S) \in Nat
<1> DEFINE Q == {T \in SUBSET S : SumOver(counts, e, T) \in Nat}
<1>1. ASSUME NEW T \in SUBSET S, \A U \in SUBSET T : U # T => U \in Q
      PROVE  T \in Q
  <2> DEFINE x == CHOOSE x \in T : TRUE
  <2>1. IsFiniteSet(T)
    BY FS_Subset
  <2>2. CASE T = {}
    <3>1. SumOver(counts, e, T) = 0
      BY <2>1, <2>2, SumUnfold
    <3>2. QED
      BY <3>1
  <2>3. CASE T # {}
    <3>1. x \in T /\ counts[x][e] \in Nat
      BY <2>3 DEF Counts
    <3>2. T \ {x} \in Q
      BY <1>1, <3>1
    <3>3. SumOver(counts, e, T) = counts[x][e] + SumOver(counts, e, T \ {x})
      BY <2>1, <2>3, SumUnfold
    <3>4. QED
      BY <3>1, <3>2, <3>3
  <2>4. QED
    BY <2>2, <2>3
<1>2. Q = SUBSET S
  <2>1. Q \in SUBSET (SUBSET S)
    OBVIOUS
  <2> HIDE DEF Q
  <2>2. QED
    BY <1>1, <2>1, SubsetInduction
<1>3. S \in Q
  BY <1>2
<1>4. QED
  BY <1>3

\* Whichever element it is that is taken out.
LEMMA SumRemove ==
  ASSUME NEW counts, NEW e, NEW S, IsFiniteSet(S), Counts(counts, e, S), NEW y \in S
  PROVE  SumOver(counts, e, S) = counts[y][e] + SumOver(counts, e, S \ {y})
<1> DEFINE Splits(T) == \A z \in T : SumOver(counts, e, T)
                                       = counts[z][e] + SumOver(counts, e, T \ {z})
           Q == {T \in SUBSET S : Splits(T)}
<1>1. ASSUME NEW T \in SUBSET S, \A U \in SUBSET T : U # T => U \in Q
      PROVE  T \in Q
  <2> SUFFICES ASSUME NEW z \in T
               PROVE  SumOver(counts, e, T) = counts[z][e] + SumOver(counts, e, T \ {z})
    OBVIOUS
  <2> DEFINE x == CHOOSE x \in T : TRUE
  <2>1. x \in T /\ IsFiniteSet(T)
    BY FS_Subset
  <2>2. SumOver(counts, e, T) = counts[x][e] + SumOver(counts, e, T \ {x})
    BY <2>1, SumUnfold
  <2> HIDE DEF x
  <2>3. CASE z = x
    BY <2>2, <2>3
  <2>4. CASE z # x
    <3> DEFINE rest == (T \ {x}) \ {z}
    <3>1. T \ {x} \in Q /\ T \ {z} \in Q
      BY <1>1, <2>1
    <3>2. SumOver(counts, e, T \ {x}) = counts[z][e] + SumOver(counts, e, rest)
      BY <3>1, <2>4
    <3>3. (T \ {z}) \ {x} = rest /\ x \in T \ {z}
      BY <2>1, <2>4
    <3>4. SumOver(counts, e, T \ {z}) = counts[x][e] + SumOver(counts, e, rest)
      BY <3>1, <3>3
    <3>5. /\ SumOver(counts, e, rest) \in Nat
          /\ counts[x][e] \in Nat /\ counts[z][e] \in Nat
      <4>1. IsFiniteSet(rest) /\ Counts(counts, e, rest)
        BY FS_Subset DEF Counts
      <4>2. QED
        BY <4>1, <2>1, SumNat DEF Counts
    <3> HIDE DEF rest
    <3>6. QED
      BY <2>2, <3>2, <3>4, <3>5
  <2>5. QED
    BY <2>3, <2>4
<1>2. Q = SUBSET S
  <2>1. Q \in SUBSET (SUBSET S)
    OBVIOUS
  <2> HIDE DEF Q
  <2>2. QED
    BY <1>1, <2>1, SubsetInduction
<1>3. S \in Q
  BY <1>2
<1>4. QED
  BY <1>3

\* A CPU more adds its count.
LEMMA SumAdd ==
  ASSUME NEW counts, NEW e, NEW S, IsFiniteSet(S), NEW y, y \notin S,
         Counts(counts, e, S \cup {y})
  PROVE  SumOver(counts, e, S \cup {y}) = SumOver(counts, e, S) + counts[y][e]
<1>1. IsFiniteSet(S \cup {y}) /\ y \in S \cup {y} /\ (S \cup {y}) \ {y} = S
  BY FS_AddElement
<1>2. SumOver(counts, e, S \cup {y}) = counts[y][e] + SumOver(counts, e, S)
  BY <1>1, SumRemove
<1>3. SumOver(counts, e, S) \in Nat /\ counts[y][e] \in Nat
  BY SumNat DEF Counts
<1>4. QED
  BY <1>2, <1>3

\* Where each count is no less, so is the sum.
LEMMA SumGrows ==
  ASSUME NEW S, IsFiniteSet(S), NEW e, NEW old, Counts(old, e, S), NEW new, Counts(new, e, S),
         \A c \in S : old[c][e] <= new[c][e]
  PROVE  SumOver(old, e, S) <= SumOver(new, e, S)
<1> DEFINE Q == {T \in SUBSET S : SumOver(old, e, T) <= SumOver(new, e, T)}
<1>1. ASSUME NEW T \in SUBSET S, \A U \in SUBSET T : U # T => U \in Q
      PROVE  T \in Q
  <2> DEFINE x == CHOOSE x \in T : TRUE
  <2>1. IsFiniteSet(T)
    BY FS_Subset
  <2>2. CASE T = {}
    <3>1. SumOver(old, e, T) = 0 /\ SumOver(new, e, T) = 0
      BY <2>1, <2>2, SumUnfold
    <3>2. QED
      BY <3>1
  <2>3. CASE T # {}
    <3>1. /\ x \in T /\ old[x][e] \in Nat /\ new[x][e] \in Nat
          /\ old[x][e] <= new[x][e]
      BY <2>3 DEF Counts
    <3>2. SumOver(old, e, T \ {x}) <= SumOver(new, e, T \ {x})
      BY <1>1, <3>1
    <3>3. /\ SumOver(old, e, T) = old[x][e] + SumOver(old, e, T \ {x})
          /\ SumOver(new, e, T) = new[x][e] + SumOver(new, e, T \ {x})
      BY <2>1, <2>3, SumUnfold
    <3>4. IsFiniteSet(T \ {x}) /\ Counts(old, e, T \ {x}) /\ Counts(new, e, T \ {x})
      BY FS_Subset DEF Counts
    <3>5. SumOver(old, e, T \ {x}) \in Nat /\ SumOver(new, e, T \ {x}) \in Nat
      BY <3>4, SumNat
    <3> HIDE DEF x
    <3>6. SumOver(old, e, T) <= SumOver(new, e, T)
      BY <3>1, <3>2, <3>3, <3>5
    <3>7. QED
      BY <3>6
  <2>4. QED
    BY <2>2, <2>3
<1>2. Q = SUBSET S
  <2>1. Q \in SUBSET (SUBSET S)
    OBVIOUS
  <2> HIDE DEF Q
  <2>2. QED
    BY <1>1, <2>1, SubsetInduction
<1>3. S \in Q
  BY <1>2
<1>4. QED
  BY <1>3

-----------------------------------------------------------------------------
(* The table of names                                                      *)

\* The least element of a set is the one below all others.
LEMMA MinIs ==
  ASSUME NEW S \in SUBSET Int, NEW x \in S, \A y \in S : x <= y
  PROVE  Min(S) = x
<1> DEFINE z == CHOOSE z \in S : \A y \in S : z <= y
<1>1. \A w \in S : (\A y \in S : w <= y) => w = x
  OBVIOUS
<1>2. z \in S /\ \A y \in S : z <= y
  OBVIOUS
<1> HIDE DEF z
<1>3. z = x
  BY <1>1, <1>2
<1>4. QED
  BY <1>3 DEF Min, z

\* The greatest is the one above.
LEMMA MaxIs ==
  ASSUME NEW S \in SUBSET Int, NEW x \in S, \A y \in S : x >= y
  PROVE  Max(S) = x
<1> DEFINE z == CHOOSE z \in S : \A y \in S : z >= y
<1>1. \A w \in S : (\A y \in S : w >= y) => w = x
  OBVIOUS
<1>2. z \in S /\ \A y \in S : z >= y
  OBVIOUS
<1> HIDE DEF z
<1>3. z = x
  BY <1>1, <1>2
<1>4. QED
  BY <1>3 DEF Max, z

\* A set of numbers up to a bound has a greatest: one that leaves no room above
\* it, or the least of those that bound it would not be the least.
LEMMA MaxExists ==
  ASSUME NEW n \in Nat, NEW S \in SUBSET (1 .. n), S # {}
  PROVE  Max(S) \in S /\ \A y \in S : Max(S) >= y
<1> DEFINE Q == {m \in Nat : (\E x \in S : x <= m) => \E x \in S : \A y \in S : y <= m => y <= x}
<1>1. 0 \in Q
  OBVIOUS
<1>2. ASSUME NEW m \in Q PROVE m + 1 \in Q
  <2>1. CASE m + 1 \in S
    BY <2>1
  <2>2. CASE m + 1 \notin S
    <3>1. \A y \in S : y <= m + 1 => y <= m
      BY <2>2
    <3>2. QED
      BY <3>1
  <2>3. QED
    BY <2>1, <2>2
<1>3. n \in Q
  <2> HIDE DEF Q
  <2>1. Q \in SUBSET Nat
    BY DEF Q
  <2>2. QED
    BY <1>1, <1>2, <2>1, NumberInduction
<1>4. PICK x \in S : \A y \in S : y <= x
  <2>1. \A y \in S : y <= n
    OBVIOUS
  <2>2. QED
    BY <1>3, <2>1
<1>5. Max(S) = x
  BY <1>4, MaxIs
<1>6. QED
  BY <1>4, <1>5

\* w is s and then u.
Joins(A, s, u, w) ==
    /\ w \in Seq(A) /\ Len(w) = Len(s) + Len(u) /\ Len(s) \in Nat /\ Len(u) \in Nat
    /\ \A i \in 1 .. Len(s) : w[i] = s[i]
    /\ \A i \in 1 .. Len(u) : w[Len(s) + i] = u[i]

\* A concatenation is the one, then the other.
LEMMA Concat == ASSUME NEW A, NEW s \in Seq(A), NEW u \in Seq(A) PROVE Joins(A, s, u, s \o u)
<1>1. Len(s) \in Nat /\ Len(u) \in Nat
  BY LenProperties
<1>2. \A i \in 1 .. Len(s) + Len(u) : (s \o u)[i] = IF i <= Len(s) THEN s[i] ELSE u[i - Len(s)]
  BY ConcatProperties
<1>3. \A i \in 1 .. Len(u) : (s \o u)[Len(s) + i] = u[i]
  <2> SUFFICES ASSUME NEW i \in 1 .. Len(u) PROVE (s \o u)[Len(s) + i] = u[i]
    OBVIOUS
  <2>1. Len(s) + i \in 1 .. Len(s) + Len(u) /\ ~(Len(s) + i <= Len(s)) /\ (Len(s) + i) - Len(s) = i
    BY <1>1
  <2>2. (s \o u)[Len(s) + i] = u[(Len(s) + i) - Len(s)]
    BY <1>2, <2>1
  <2>3. QED
    BY <2>1, <2>2
<1>4. \A i \in 1 .. Len(s) : (s \o u)[i] = s[i]
  BY <1>1, <1>2
<1>5. QED
  BY <1>1, <1>3, <1>4, ConcatProperties DEF Joins

\* What a table is made of: the names, and the two that mark the writeback block.
Texts == STRING \cup {Writeback[1], Writeback[2]}

\* The writeback names and every block are sequences of texts.
LEMMA TextSequences ==
  /\ Writeback \in Seq(Texts) /\ Len(Writeback) = 2
  /\ \A s \in Seq(STRING) : s \in Seq(Texts)
<1>1. \A i \in 1 .. 2 : Writeback[i] \in Texts
  BY DEF Texts
<1>2. Writeback = [i \in 1 .. 2 |-> Writeback[i]] /\ Len(Writeback) = 2
  BY DEF Writeback
<1>3. Writeback \in [1 .. 2 -> Texts]
  BY <1>1, <1>2
<1>4. STRING \subseteq Texts
  BY DEF Texts
<1>5. QED
  <2> HIDE DEF Texts
  <2>1. Writeback \in Seq(Texts)
    BY <1>3, SeqDef
  <2>2. Seq(STRING) \subseteq Seq(Texts)
    BY <1>4, SeqMonotonic
  <2>3. QED
    BY <1>2, <2>1, <2>2

\* Reading the table: each block where VmstatText puts it.
LEMMA TextBlocks ==
  ASSUME NEW k \in Kernels
  PROVE  LET Z == Len(k.zone)  N == Len(k.numa)  D == Len(k.node)
             P == Len(BeforeEvents(k))  t == VmstatText(k)
         IN  /\ Z \in Nat /\ N \in Nat /\ D \in Nat /\ P = Z + N + D + 2
             /\ Len(k.event) \in Nat /\ Len(k.tail) \in Nat
             /\ Len(t) = P + Len(k.event) + Len(k.tail) /\ t \in Seq(Texts)
             /\ \A i \in 1 .. Z : t[i] = k.zone[i]
             /\ \A i \in 1 .. N : t[Z + i] = k.numa[i]
             /\ \A i \in 1 .. D : t[Z + N + i] = k.node[i]
             /\ t[P - 1] = Writeback[1]
             /\ \A i \in 1 .. Len(k.event) : t[P + i] = k.event[i]
             /\ \A i \in 1 .. Len(k.tail) : t[P + Len(k.event) + i] = k.tail[i]
<1> DEFINE z == k.zone
           n == k.numa
           m == k.node
           v == k.event
           r == k.tail
           q == Writeback
           a == z \o n
           b == a \o m
           c == b \o q
           d == c \o v
           t == d \o r
<1>1. /\ z \in Seq(Texts) /\ n \in Seq(Texts) /\ m \in Seq(Texts) /\ v \in Seq(Texts)
      /\ r \in Seq(Texts)
  BY KernelAssumption, TextSequences
<1>2. q \in Seq(Texts) /\ Len(q) = 2
  BY TextSequences
<1>3. c = BeforeEvents(k) /\ t = VmstatText(k)
  BY DEF BeforeEvents, VmstatText
<1> HIDE DEF z, n, m, v, r, q, a, b, c, d, t
<1>4. Joins(Texts, z, n, a)
  BY <1>1, Concat DEF a
<1>a. a \in Seq(Texts)
  BY <1>4 DEF Joins
<1>5. Joins(Texts, a, m, b)
  BY <1>1, <1>a, Concat DEF b
<1>b. b \in Seq(Texts)
  BY <1>5 DEF Joins
<1>6. Joins(Texts, b, q, c)
  BY <1>2, <1>b, Concat DEF c
<1>c. c \in Seq(Texts)
  BY <1>6 DEF Joins
<1>7. Joins(Texts, c, v, d)
  BY <1>1, <1>c, Concat DEF d
<1>d. d \in Seq(Texts)
  BY <1>7 DEF Joins
<1>8. Joins(Texts, d, r, t)
  BY <1>1, <1>d, Concat DEF t
<1>e. \A i \in 1 .. Len(c) : t[i] = c[i]
  BY <1>7, <1>8 DEF Joins
<1>f. \A i \in 1 .. Len(b) : t[i] = b[i]
  BY <1>e, <1>6 DEF Joins
<1>g. \A i \in 1 .. Len(a) : t[i] = a[i]
  BY <1>f, <1>5 DEF Joins
<1>9. \A i \in 1 .. Len(z) : t[i] = z[i]
  BY <1>g, <1>4 DEF Joins
<1>10. \A i \in 1 .. Len(n) : t[Len(z) + i] = n[i]
  BY <1>g, <1>4 DEF Joins
<1>11. \A i \in 1 .. Len(m) : t[Len(z) + Len(n) + i] = m[i]
  BY <1>f, <1>4, <1>5 DEF Joins
<1>12. t[Len(c) - 1] = q[1]
  <2>1. c[Len(b) + 1] = q[1] /\ Len(b) + 1 = Len(c) - 1 /\ Len(b) + 1 \in 1 .. Len(c)
    BY <1>2, <1>6 DEF Joins
  <2>2. QED
    BY <2>1, <1>e
<1>13. \A i \in 1 .. Len(v) : t[Len(c) + i] = v[i]
  BY <1>6, <1>7, <1>8 DEF Joins
<1>14. \A i \in 1 .. Len(r) : t[Len(c) + Len(v) + i] = r[i]
  BY <1>7, <1>8 DEF Joins
<1>15. /\ Len(z) \in Nat /\ Len(n) \in Nat /\ Len(m) \in Nat /\ Len(v) \in Nat /\ Len(r) \in Nat
       /\ t \in Seq(Texts)
       /\ Len(c) = Len(z) + Len(n) + Len(m) + 2
       /\ Len(t) = Len(c) + Len(v) + Len(r)
  BY <1>2, <1>4, <1>5, <1>6, <1>7, <1>8 DEF Joins
<1>16. QED
  BY <1>3, <1>9, <1>10, <1>11, <1>12, <1>13, <1>14, <1>15 DEF z, n, m, v, r, q

\* What dump takes for the table is its beginning, and holds all of its names
\* that were asked for.
LEMMA NamesPrefix ==
  ASSUME kernel \in Kernels
  PROVE  LET t == VmstatText(kernel)
         IN  /\ Names \in Seq(Texts) /\ Len(Names) \in 0 .. Len(t)
             /\ \A i \in 1 .. Len(Names) : Names[i] = t[i]
             /\ \A i \in 1 .. Len(t) : i <= Entries /\ t[i] # Null => i <= Len(Names)
<1> DEFINE t == VmstatText(kernel)
           n == Min({Entries, Len(t)})
           read == SubSeq(t, 1, n)
           named == {i \in DOMAIN read : read[i] # Null}
           m == IF named = {} THEN 0 ELSE Max(named)
<1>1. t \in Seq(Texts) /\ Len(t) \in Nat /\ Entries \in Nat
  BY TextBlocks, LenProperties, LayoutAssumption
<1>2. n \in Nat /\ n <= Len(t) /\ n <= Entries /\ (n = Len(t) \/ n = Entries)
  <2>1. CASE Entries <= Len(t)
    <3>1. n = Entries
      BY <1>1, <2>1, MinIs
    <3>2. QED
      BY <1>1, <2>1, <3>1
  <2>2. CASE Len(t) <= Entries
    <3>1. /\ {Entries, Len(t)} \in SUBSET Int /\ Len(t) \in {Entries, Len(t)}
          /\ \A y \in {Entries, Len(t)} : Len(t) <= y
      BY <1>1, <2>2
    <3>2. n = Len(t)
      BY <3>1, MinIs
    <3>3. QED
      BY <1>1, <2>2, <3>2
  <2>3. QED
    BY <1>1, <2>1, <2>2
<1>a. Names = SubSeq(read, 1, m)
  BY DEF Names
<1> HIDE DEF t, n
<1>3. /\ read \in Seq(Texts) /\ Len(read) = n
      /\ \A i \in 1 .. n : read[i] = t[i]
  <2>1. \A i \in 1 .. n : t[i] \in Texts
    BY <1>1, <1>2, ElementOfSeq
  <2>2. /\ read \in Seq(Texts)
        /\ Len(read) = IF 1 <= n THEN n - 1 + 1 ELSE 0
        /\ \A i \in 1 .. n - 1 + 1 : read[i] = t[1 + i - 1]
    BY <1>2, <2>1, SubSeqProperties
  <2>3. QED
    BY <1>2, <2>2
<1> HIDE DEF read
<1>4. DOMAIN read = 1 .. n
  BY <1>3, LenProperties
<1>5. m \in 0 .. n /\ \A i \in 1 .. n : t[i] # Null => i <= m
  <2>1. named \in SUBSET (1 .. n)
    BY <1>4
  <2>2. CASE named = {}
    BY <1>2, <1>3, <1>4, <2>2
  <2>3. CASE named # {}
    <3>1. Max(named) \in named /\ \A i \in named : Max(named) >= i
      BY <1>2, <2>1, <2>3, MaxExists
    <3>2. QED
      BY <1>2, <1>3, <1>4, <2>1, <2>3, <3>1
  <2>4. QED
    BY <2>2, <2>3
<1> HIDE DEF m
<1>6. /\ Names \in Seq(Texts) /\ Len(Names) = m
      /\ \A i \in 1 .. m : Names[i] = read[i]
  <2>1. \A i \in 1 .. m : read[i] \in Texts
    BY <1>2, <1>3, <1>5, ElementOfSeq
  <2>2. /\ Names \in Seq(Texts)
        /\ Len(Names) = IF 1 <= m THEN m - 1 + 1 ELSE 0
        /\ \A i \in 1 .. m - 1 + 1 : Names[i] = read[1 + i - 1]
    BY <1>2, <1>5, <1>a, <2>1, SubSeqProperties
  <2>3. QED
    BY <1>5, <1>2, <2>2
<1>7. QED
  BY <1>1, <1>2, <1>3, <1>5, <1>6 DEF t

\* The markers stand where label_layout expects them: NUMA names in their block
\* only, the first node name at the beginning of its block, and the first of
\* writeback not before its own.
LEMMA Markers ==
  ASSUME NEW k \in Kernels
  PROVE  LET Z == Len(k.zone)  N == Len(k.numa)  D == Len(k.node)  t == VmstatText(k)
         IN  /\ D > 0
             /\ \A i \in 1 .. Z + N + D : t[i] # Writeback[1]
             /\ \A i \in 1 .. Z + N + D : IsNuma(t[i]) <=> i \in Z + 1 .. Z + N
             /\ \A i \in 1 .. Z : t[i] # "nr_inactive_anon"
             /\ t[Z + N + 1] = "nr_inactive_anon"
<1> DEFINE Z == Len(k.zone)
           N == Len(k.numa)
           D == Len(k.node)
           t == VmstatText(k)
<1>1. /\ Z \in Nat /\ N \in Nat /\ D \in Nat
      /\ \A i \in 1 .. Z : t[i] = k.zone[i]
      /\ \A i \in 1 .. N : t[Z + i] = k.numa[i]
      /\ \A i \in 1 .. D : t[Z + N + i] = k.node[i]
  BY TextBlocks
<1>2. /\ DOMAIN k.zone = 1 .. Z /\ DOMAIN k.numa = 1 .. N /\ DOMAIN k.node = 1 .. D
      /\ D > 0
  <2>1. k.zone \in Seq(STRING) /\ k.numa \in Seq(STRING) /\ k.node \in Seq(STRING) /\ k.node # <<>>
    BY KernelAssumption
  <2>2. QED
    BY <2>1, LenProperties, EmptySeq
<1>3. /\ \A i \in 1 .. Z : k.zone[i] # Writeback[1] /\ ~IsNuma(k.zone[i])
                           /\ k.zone[i] # "nr_inactive_anon"
      /\ \A i \in 1 .. N : IsNuma(k.numa[i])
      /\ \A i \in 1 .. D : k.node[i] # Writeback[1] /\ ~IsNuma(k.node[i])
      /\ k.node[1] = "nr_inactive_anon"
  <2>1. /\ \A i \in 1 .. Z : k.zone[i] \in Range(k.zone)
        /\ \A i \in 1 .. N : k.numa[i] \in Range(k.numa)
        /\ \A i \in 1 .. D : k.node[i] \in Range(k.node)
    BY <1>2 DEF Range
  <2> HIDE DEF Z, N, D
  <2>2. QED
    BY <2>1, KernelAssumption
<1>4. \A x : IsNuma(x) => x # Writeback[1]
  BY DEF IsNuma, Writeback
<1> HIDE DEF Z, N, D, t
<1>5. \A i \in 1 .. Z + N + D :
         \/ i \in 1 .. Z
         \/ i - Z \in 1 .. N /\ i = Z + (i - Z)
         \/ i - Z - N \in 1 .. D /\ i = Z + N + (i - Z - N)
  BY <1>1
<1>6. ASSUME NEW i \in 1 .. Z + N + D
      PROVE  t[i] # Writeback[1] /\ (IsNuma(t[i]) <=> i \in Z + 1 .. Z + N)
  <2>1. CASE i \in 1 .. Z
    BY <1>1, <1>3, <2>1
  <2>2. CASE i - Z \in 1 .. N /\ i = Z + (i - Z)
    <3>1. t[i] = k.numa[i - Z]
      BY <1>1, <2>2
    <3>2. IsNuma(t[i])
      BY <1>3, <2>2, <3>1
    <3>3. i \in Z + 1 .. Z + N
      BY <1>1, <2>2
    <3>4. QED
      BY <1>4, <3>2, <3>3
  <2>3. CASE i - Z - N \in 1 .. D /\ i = Z + N + (i - Z - N)
    <3>1. t[i] = k.node[i - Z - N]
      BY <1>1, <2>3
    <3>2. i \notin Z + 1 .. Z + N
      BY <1>1, <2>3
    <3>3. QED
      BY <1>3, <2>3, <3>1, <3>2
  <2>4. QED
    BY <1>5, <2>1, <2>2, <2>3
<1>7. t[Z + N + 1] = "nr_inactive_anon"
  BY <1>1, <1>2, <1>3
<1>8. \A i \in 1 .. Z : t[i] # "nr_inactive_anon"
  BY <1>1, <1>3
<1>9. QED
  BY <1>2, <1>6, <1>7, <1>8 DEF Z, N, D, t

\* A part of a sequence that agrees with another sequence is that sequence.
LEMMA PartIs ==
  ASSUME NEW A, NEW s \in Seq(A), NEW u \in Seq(A), NEW i \in Nat \ {0}, NEW j \in Nat,
         j <= Len(s), Len(u) = j - i + 1, \A n \in 1 .. Len(u) : s[i + n - 1] = u[n]
  PROVE  SubSeq(s, i, j) = u
<1>1. \A n \in i .. j : s[n] \in A
  BY LenProperties, ElementOfSeq
<1>2. Len(u) \in Nat
  BY LenProperties
<1>3. /\ SubSeq(s, i, j) \in Seq(A)
      /\ Len(SubSeq(s, i, j)) = Len(u)
      /\ \A n \in 1 .. Len(u) : SubSeq(s, i, j)[n] = s[i + n - 1]
  BY <1>1, <1>2, SubSeqProperties
<1>4. QED
  BY <1>3, SeqEqual

\* label_layout on the beginning of a table finds the blocks of that table.
LEMMA LayoutParts ==
  ASSUME NEW k \in Kernels, NEW s \in Seq(Texts), Len(s) <= Len(VmstatText(k)),
         \A i \in 1 .. Len(s) : s[i] = VmstatText(k)[i], LabelLayout(s).ok
  PROVE  LET P == Len(BeforeEvents(k))
         IN  /\ LabelLayout(s).zone = k.zone /\ LabelLayout(s).node = k.node
             /\ P - 1 <= Len(s) /\ LabelLayout(s).event = SubSeq(s, P + 1, Len(s))
<1> DEFINE t == VmstatText(k)
           Z == Len(k.zone)
           N == Len(k.numa)
           D == Len(k.node)
           m == Len(s)
           w == Z + N + D + 1
           wbs   == {i \in DOMAIN s : s[i] = Writeback[1]}
           wb    == First(wbs)
           numa  == {i \in 1 .. wb - 1 : IsNuma(s[i])}
           anons == {i \in 1 .. wb - 1 : s[i] = "nr_inactive_anon"}
           anon  == First(anons)
           until == IF numa # {} THEN Min(numa) ELSE anon
           from  == IF numa # {} THEN Max(numa) + 1 ELSE anon
<1>1. Z \in Nat /\ N \in Nat /\ D \in Nat /\ Len(BeforeEvents(k)) = w + 1
  <2>1. Z \in Nat /\ N \in Nat /\ D \in Nat /\ Len(BeforeEvents(k)) = Z + N + D + 2
    BY TextBlocks
  <2> HIDE DEF Z, N, D
  <2>2. Z + N + D + 2 = w + 1
    BY <2>1
  <2>3. QED
    BY <2>1, <2>2 DEF Z, N, D
<1>2. m \in Nat /\ DOMAIN s = 1 .. m /\ m <= Len(t) /\ Len(t) \in Nat /\ w <= Len(t)
  <2>1. /\ Len(t) = Len(BeforeEvents(k)) + Len(k.event) + Len(k.tail)
        /\ Len(k.event) \in Nat /\ Len(k.tail) \in Nat
    BY TextBlocks
  <2>2. m \in Nat /\ DOMAIN s = 1 .. m
    BY LenProperties
  <2> HIDE DEF t, Z, N, D, m
  <2>3. Len(t) \in Nat /\ w <= Len(t)
    <3> DEFINE P == Len(BeforeEvents(k))
               E == Len(k.event)
               T == Len(k.tail)
    <3>1. Len(t) = P + E + T /\ E \in Nat /\ T \in Nat /\ P = w + 1
      BY <1>1, <2>1
    <3> HIDE DEF P, E, T
    <3>2. QED
      BY <1>1, <3>1
  <2>4. QED
    BY <2>2, <2>3 DEF t, m
<1>3. \A i \in 1 .. m : s[i] = t[i]
  OBVIOUS
<1>4. t[w] = Writeback[1]
  <2>1. t[Len(BeforeEvents(k)) - 1] = Writeback[1]
    BY TextBlocks
  <2> HIDE DEF t, Z, N, D
  <2>2. Len(BeforeEvents(k)) - 1 = w
    BY <1>1
  <2>3. QED
    BY <2>1, <2>2
<1>5. /\ D > 0
      /\ \A i \in 1 .. Z + N + D : t[i] # Writeback[1]
      /\ \A i \in 1 .. Z + N + D : IsNuma(t[i]) <=> i \in Z + 1 .. Z + N
      /\ \A i \in 1 .. Z : t[i] # "nr_inactive_anon"
      /\ t[Z + N + 1] = "nr_inactive_anon"
  BY Markers
<1>6. /\ wb # 0
      /\ LabelLayout(s).zone = SubSeq(s, 1, until - 1)
      /\ LabelLayout(s).node = SubSeq(s, from, wb - 1)
      /\ LabelLayout(s).event = SubSeq(s, wb + 2, m)
  BY DEF LabelLayout
<1>7. /\ k.zone \in Seq(Texts) /\ k.node \in Seq(Texts)
      /\ \A i \in 1 .. Z : t[i] = k.zone[i]
      /\ \A i \in 1 .. D : t[Z + N + i] = k.node[i]
  BY KernelAssumption, TextSequences, TextBlocks
<1> HIDE DEF t, Z, N, D, m
<1>8. wb = w /\ w <= m
  <2>1. wbs # {} /\ wbs \in SUBSET (1 .. m)
    BY <1>2, <1>6 DEF First
  <2>2. \A i \in wbs : i \in 1 .. m /\ t[i] = Writeback[1]
    BY <1>2, <1>3
  <2> HIDE DEF wbs
  <2>3. \A i \in wbs : w <= i
    BY <1>1, <1>2, <1>5, <2>2
  <2>4. w \in 1 .. m
    BY <1>1, <1>2, <2>1, <2>2, <2>3
  <2>5. w \in wbs
    BY <1>2, <1>3, <1>4, <2>4 DEF wbs
  <2>6. wbs \in SUBSET Int
    BY <1>2, <2>1
  <2>7. Min(wbs) = w
    BY <2>3, <2>5, <2>6, MinIs
  <2>8. wb = w
    BY <2>5, <2>7 DEF First
  <2>9. QED
    BY <1>2, <2>4, <2>8
<1> HIDE DEF wb
<1>9. wb - 1 = Z + N + D /\ \A i \in 1 .. Z + N + D : i \in 1 .. m /\ s[i] = t[i]
  BY <1>1, <1>2, <1>3, <1>8
<1>10. numa = Z + 1 .. Z + N
  BY <1>1, <1>5, <1>9
<1>11. until = Z + 1 /\ from = Z + N + 1
  <2>1. CASE N > 0
    <3>1. /\ numa # {} /\ numa \in SUBSET Int /\ Z + 1 \in numa /\ Z + N \in numa
          /\ \A i \in numa : Z + 1 <= i /\ Z + N >= i
      BY <1>1, <1>10, <2>1
    <3> HIDE DEF numa
    <3>2. Min(numa) = Z + 1 /\ Max(numa) = Z + N
      BY <3>1, MinIs, MaxIs
    <3>3. QED
      BY <3>1, <3>2
  <2>2. CASE N = 0
    <3>1. numa = {}
      BY <1>1, <1>10, <2>2
    <3>2. /\ anons \in SUBSET Int /\ Z + 1 \in anons
          /\ \A i \in anons : Z + 1 <= i
      BY <1>1, <1>5, <1>9, <2>2
    <3> HIDE DEF anons, numa
    <3>3. anons # {} /\ Min(anons) = Z + 1
      BY <3>2, MinIs
    <3>4. anon = Z + 1
      BY <3>3 DEF First
    <3> HIDE DEF anon
    <3>5. QED
      BY <1>1, <2>2, <3>1, <3>4
  <2>3. QED
    BY <1>1, <2>1, <2>2
<1> HIDE DEF until, from
<1>12. SubSeq(s, 1, Z) = k.zone
  <2>1. \A n \in 1 .. Z : s[1 + n - 1] = k.zone[n]
    BY <1>1, <1>7, <1>9
  <2>2. Z <= m /\ Z = Z - 1 + 1
    BY <1>1, <1>2, <1>8
  <2>3. /\ s \in Seq(Texts) /\ k.zone \in Seq(Texts) /\ 1 \in Nat \ {0} /\ Z \in Nat
        /\ Z <= Len(s) /\ Len(k.zone) = Z - 1 + 1
        /\ \A n \in 1 .. Len(k.zone) : s[1 + n - 1] = k.zone[n]
    BY <1>1, <1>7, <2>1, <2>2 DEF Z, m
  <2>4. QED
    BY <2>3, PartIs
<1>13. SubSeq(s, Z + N + 1, Z + N + D) = k.node
  <2>1. \A n \in 1 .. D : s[(Z + N + 1) + n - 1] = k.node[n]
    <3> SUFFICES ASSUME NEW n \in 1 .. D PROVE s[(Z + N + 1) + n - 1] = k.node[n]
      OBVIOUS
    <3>1. (Z + N + 1) + n - 1 = Z + N + n /\ Z + N + n \in 1 .. Z + N + D
      BY <1>1
    <3>2. QED
      BY <1>7, <1>9, <3>1
  <2>2. /\ Z + N + D <= m /\ D = (Z + N + D) - (Z + N + 1) + 1
        /\ Z + N + 1 \in Nat \ {0} /\ Z + N + D \in Nat
    BY <1>1, <1>2, <1>8
  <2> DEFINE i == Z + N + 1
             j == Z + N + D
  <2>3. /\ s \in Seq(Texts) /\ k.node \in Seq(Texts) /\ i \in Nat \ {0} /\ j \in Nat
        /\ j <= Len(s) /\ Len(k.node) = j - i + 1
        /\ \A n \in 1 .. Len(k.node) : s[i + n - 1] = k.node[n]
    BY <1>7, <2>1, <2>2 DEF D, m
  <2> HIDE DEF i, j
  <2>4. SubSeq(s, i, j) = k.node
    BY <2>3, PartIs
  <2>5. QED
    BY <2>4 DEF i, j
<1>14. until - 1 = Z /\ wb - 1 = Z + N + D /\ wb + 2 = w + 2
  BY <1>1, <1>8, <1>11
<1>15. QED
  <2>1. Len(BeforeEvents(k)) - 1 = w /\ Len(BeforeEvents(k)) + 1 = w + 2
    BY <1>1
  <2>2. QED
    BY <1>6, <1>8, <1>11, <1>12, <1>13, <1>14, <2>1 DEF m

\* What label_layout makes of what dump read is true: the blocks of zone and
\* node names are the kernel's, and each event asked for is found at the one
\* place its counter has.
THEOREM LayoutTrue ==
  ASSUME kernel \in Kernels, Layout.ok
  PROVE  /\ Layout.zone = kernel.zone /\ Layout.node = kernel.node /\ NEvent \in Nat
         /\ \A e \in DOMAIN kernel.event : Asked(e) =>
              e \in 1 .. NEvent /\ \A i \in 1 .. NEvent : Layout.event[i] = kernel.event[e] <=> i = e
<1> DEFINE s == Names
           t == VmstatText(kernel)
           m == Len(Names)
           P == Len(BeforeEvents(kernel))
           v == kernel.event
           r == kernel.tail
           E == Len(kernel.event)
           T == Len(kernel.tail)
           L == Layout.event
<1>1. /\ s \in Seq(Texts) /\ m \in 0 .. Len(t)
      /\ \A i \in 1 .. m : s[i] = t[i]
      /\ \A i \in 1 .. Len(t) : i <= Entries /\ t[i] # Null => i <= m
  BY NamesPrefix
<1>2. E \in Nat /\ T \in Nat /\ P \in Nat /\ Len(t) = P + E + T
  <2>1. E \in Nat /\ T \in Nat /\ Len(t) = P + E + T
    BY TextBlocks
  <2>2. P = Len(kernel.zone) + Len(kernel.numa) + Len(kernel.node) + 2
    BY TextBlocks
  <2>3. Len(kernel.zone) \in Nat /\ Len(kernel.numa) \in Nat /\ Len(kernel.node) \in Nat
    BY TextBlocks
  <2> DEFINE Z == Len(kernel.zone)
             N == Len(kernel.numa)
             D == Len(kernel.node)
  <2>4. Z \in Nat /\ N \in Nat /\ D \in Nat /\ P = Z + N + D + 2
    BY <2>2, <2>3
  <2> HIDE DEF Z, N, D, P
  <2>5. P \in Nat
    BY <2>4
  <2>6. QED
    BY <2>1, <2>5 DEF P
<1>3. /\ \A i \in 1 .. E : t[P + i] = v[i]
      /\ \A i \in 1 .. T : t[P + E + i] = r[i]
  BY TextBlocks
<1>4. /\ Layout.zone = kernel.zone /\ Layout.node = kernel.node
      /\ P - 1 <= m /\ L = SubSeq(s, P + 1, m)
  BY <1>1, LayoutParts DEF Layout
<1>5. DOMAIN v = 1 .. E /\ DOMAIN r = 1 .. T
  <2>1. v \in Seq(STRING) /\ r \in Seq(STRING)
    BY KernelAssumption
  <2>2. QED
    BY <2>1, LenProperties
<1>6. /\ \A i \in 1 .. E : v[i] # Null
      /\ \A i, j \in 1 .. E : v[i] = v[j] => i = j
      /\ \A i \in 1 .. E, j \in 1 .. T : v[i] # r[j]
  <2>1. \A i \in 1 .. E : v[i] \in Range(v)
    BY <1>5 DEF Range
  <2>2. \A j \in 1 .. T : r[j] \in Range(r)
    BY <1>5 DEF Range
  <2>3. Null \notin Range(v) /\ IsInjective(v) /\ Range(v) \cap Range(r) = {}
    BY KernelAssumption
  <2>4. \A i, j \in 1 .. E : v[i] = v[j] => i = j
    BY <1>5, <2>3 DEF IsInjective
  <2>5. QED
    BY <2>1, <2>2, <2>3, <2>4
<1>7. NEvent = Len(L)
  BY DEF NEvent
<1> HIDE DEF s, t, m, P, v, r, E, T, L
<1>8. /\ Len(L) = (IF P + 1 <= m THEN m - P ELSE 0)
      /\ \A i \in 1 .. m - P : L[i] = s[P + i]
  <2>1. \A i \in P + 1 .. m : s[i] \in Texts
    <3>1. \A i \in 1 .. m : s[i] \in Texts
      BY <1>1, ElementOfSeq DEF m, s
    <3>2. QED
      BY <1>1, <1>2, <3>1
  <2>2. /\ Len(SubSeq(s, P + 1, m)) = IF P + 1 <= m THEN m - (P + 1) + 1 ELSE 0
        /\ \A i \in 1 .. m - (P + 1) + 1 : SubSeq(s, P + 1, m)[i] = s[(P + 1) + i - 1]
    <3>1. P + 1 \in Int /\ m \in Int
      BY <1>1, <1>2
    <3> DEFINE a == P + 1
    <3>2. a \in Int /\ \A i \in a .. m : s[i] \in Texts
      BY <2>1, <3>1
    <3> HIDE DEF a
    <3>3. /\ Len(SubSeq(s, a, m)) = IF a <= m THEN m - a + 1 ELSE 0
          /\ \A i \in 1 .. m - a + 1 : SubSeq(s, a, m)[i] = s[a + i - 1]
      BY <3>1, <3>2, SubSeqProperties
    <3>4. QED
      BY <3>3 DEF a
  <2>3. m - (P + 1) + 1 = m - P /\ \A i \in Int : (P + 1) + i - 1 = P + i
    BY <1>1, <1>2
  <2>4. \A i \in 1 .. m - P : i \in Int
    OBVIOUS
  <2>5. \A i \in 1 .. m - P : L[i] = s[P + i]
    <3> SUFFICES ASSUME NEW i \in 1 .. m - P PROVE L[i] = s[P + i]
      OBVIOUS
    <3>1. L[i] = s[(P + 1) + i - 1]
      BY <1>4, <2>2, <2>3
    <3>2. (P + 1) + i - 1 = P + i
      BY <2>3, <2>4
    <3>3. QED
      BY <3>1, <3>2
  <2>6. QED
    BY <1>4, <2>2, <2>3, <2>5
<1>9. NEvent \in Nat /\ \A i \in 1 .. NEvent : P + i \in 1 .. m /\ L[i] = t[P + i]
  BY <1>1, <1>2, <1>7, <1>8
<1>10. ASSUME NEW e \in 1 .. E, P + e <= Entries
       PROVE  e \in 1 .. NEvent /\ \A i \in 1 .. NEvent : L[i] = v[e] <=> i = e
  <2>1. P + e \in 1 .. Len(t) /\ t[P + e] # Null
    BY <1>2, <1>3, <1>6
  <2>2. P + e <= m
    BY <1>1, <1>10, <2>1
  <2>3. e \in 1 .. NEvent
    BY <1>1, <1>2, <1>7, <1>8, <2>2
  <2>4. L[e] = v[e]
    BY <1>3, <1>9, <2>3
  <2>5. ASSUME NEW i \in 1 .. NEvent, L[i] = v[e] PROVE i = e
    <3>1. CASE i <= E
      <4>1. i \in 1 .. E /\ t[P + i] = v[i]
        BY <1>3, <1>2, <1>9, <3>1
      <4>2. QED
        BY <1>6, <1>9, <2>5, <4>1
    <3>2. CASE i > E
      <4>0. P + i <= P + E + T /\ i \in Nat
        <5>1. i \in Nat /\ P + i <= m
          BY <1>2, <1>9
        <5>2. m <= Len(t) /\ Len(t) = P + E + T
          BY <1>1, <1>2
        <5>3. m \in Nat
          BY <1>1, <1>2
        <5>4. QED
          BY <1>2, <5>1, <5>2, <5>3
      <4>1. i - E \in 1 .. T /\ P + E + (i - E) = P + i
        BY <1>2, <3>2, <4>0
      <4>2. t[P + i] = r[i - E]
        BY <1>3, <4>1
      <4>3. QED
        BY <1>6, <1>9, <2>5, <4>1, <4>2
    <3>3. QED
      BY <1>2, <1>9, <3>1, <3>2
  <2>6. QED
    BY <2>3, <2>4, <2>5
<1>11. \A e \in DOMAIN v : e \in 1 .. E /\ (Asked(e) => P + e <= Entries)
  BY <1>5 DEF Asked, P
<1>12. QED
  BY <1>4, <1>9, <1>10, <1>11 DEF L, v

-----------------------------------------------------------------------------
(* Addresses                                                               *)

\* A CPU's counters are found behind its entry of __per_cpu_offset, if they can
\* be read at all: the four translations lead from its area back to its area,
\* and to no other CPU's.
THEOREM ReadsOwnCounters ==
  ASSUME fd \in Boots, up[fd] \in 0 .. NrCpus,
         \A r \in parse.regions : r.boot = fd /\ r.idx \in Regions,
         NEW c \in 0 .. up[fd] - 1, Pread(PerCpuOffset(c)) # Nowhere
  PROVE  \A e : EventsAt(Pread(PerCpuOffset(c)), e) =
                  IF e \in DOMAIN kernel.event THEN events[fd][c][e] ELSE 0
<1> DEFINE phys == PerCpu[c]
           virt == PageOffset + phys
<1>1. /\ NrCpus \in Nat /\ up[fd] \in Nat /\ c \in Cpus /\ \A d \in 0 .. up[fd] - 1 : d \in Cpus
      /\ phys \in Nat /\ PageOffset \in Nat /\ DirectMapEnd \in Nat /\ ImageBase \in Nat
      /\ virt < DirectMapEnd /\ DirectMapEnd <= ImageBase /\ c < up[fd]
  <2>1. /\ NrCpus \in Nat /\ Cpus = 0 .. NrCpus - 1
        /\ PageOffset \in Nat /\ DirectMapEnd \in Nat /\ ImageBase \in Nat
        /\ DirectMapEnd <= ImageBase
    BY LayoutAssumption
  <2>2. up[fd] \in Nat /\ c < up[fd] /\ c \in Cpus /\ \A d \in 0 .. up[fd] - 1 : d \in Cpus
    BY <2>1
  <2>3. phys \in Nat /\ virt < DirectMapEnd
    BY <2>2, RegionAssumption
  <2>4. QED
    BY <2>1, <2>2, <2>3
<1>2. /\ RegionOff \in [Regions -> Nat] /\ RegionSize \in [Regions -> Nat]
      /\ RegionPhys \in [Regions -> Nat] /\ Va[fd] \in [Regions -> Nat]
  BY RegionAssumption
<1>3. \A i, j \in Regions : i # j => /\ Span(RegionOff, i) \cap Span(RegionOff, j) = {}
                                     /\ Span(Va[fd], i) \cap Span(Va[fd], j) = {}
  BY RegionAssumption
<1>4. PICK i \in Regions : phys \in Span(RegionPhys, i)
  BY <1>1, RegionAssumption
<1> DEFINE o == RegionOff[i] + (phys - RegionPhys[i])
           va == Va[fd][i] + (o - RegionOff[i])
<1>5. PhysToMemfdOff(phys) = o
  BY <1>4, RegionAssumption
<1>6. /\ RegionOff[i] \in Nat /\ RegionSize[i] \in Nat /\ RegionPhys[i] \in Nat /\ Va[fd][i] \in Nat
      /\ RegionPhys[i] <= phys /\ phys <= RegionPhys[i] + RegionSize[i] - 1
  BY <1>1, <1>2, <1>4 DEF Span
<1>a. PerCpuOffset(c) = virt
  BY <1>1 DEF PerCpuOffset
<1> HIDE DEF phys
<1>7. o \in Int /\ o \in Span(RegionOff, i) /\ va \in Int /\ va \in Span(Va[fd], i)
  BY <1>1, <1>6 DEF Span
<1>8. phys = RegionPhys[i] + (o - RegionOff[i]) /\ RegionOff[i] + (va - Va[fd][i]) = o
  BY <1>1, <1>6
<1>b. ~(virt >= ImageBase) /\ virt \in PageOffset .. DirectMapEnd - 1 /\ virt - PageOffset = phys
  BY <1>1
<1> HIDE DEF o, va, virt
<1>9. VirtToChVa(virt) = MemfdOffToChVa(o)
  BY <1>5, <1>b DEF VirtToChVa
<1>10. Pread(virt) = Mapped(fd, MemfdOffToChVa(o)) /\ Pread(virt) # Nowhere
  BY <1>9, <1>a DEF Pread
<1> DEFINE holding == {r \in parse.regions : o \in Span(RegionOff, r.idx)}
           chosen  == CHOOSE r \in holding : TRUE
<1>11. MemfdOffToChVa(o) = IF holding = {} THEN Nowhere
                           ELSE Va[chosen.boot][chosen.idx] + (o - RegionOff[chosen.idx])
  BY DEF MemfdOffToChVa
<1>12. holding # {}
  <2>1. \A j \in Regions : Nowhere \notin Span(Va[fd], j)
    BY <1>2 DEF Span, Nowhere
  <2>2. Mapped(fd, Nowhere) = Nowhere
    BY <2>1 DEF Mapped
  <2>3. QED
    BY <1>10, <1>11, <2>2
<1>13. chosen.boot = fd /\ chosen.idx = i
  <2>1. chosen \in holding
    BY <1>12
  <2>2. chosen \in parse.regions /\ o \in Span(RegionOff, chosen.idx)
    BY <2>1
  <2>3. QED
    BY <1>3, <1>7, <2>2
<1>14. MemfdOffToChVa(o) = va
  BY <1>11, <1>12, <1>13 DEF va
<1> HIDE DEF holding, chosen
<1>15. Mapped(fd, va) = o
  <2> DEFINE at == {j \in Regions : va \in Span(Va[fd], j)}
  <2>1. at = {i}
    BY <1>3, <1>7
  <2>2. (CHOOSE j \in at : TRUE) = i
    BY <2>1
  <2>3. Mapped(fd, va) = IF at = {} THEN Nowhere
                         ELSE RegionOff[CHOOSE j \in at : TRUE] + (va - Va[fd][CHOOSE j \in at : TRUE])
    BY DEF Mapped
  <2> HIDE DEF at
  <2>4. QED
    BY <1>8, <2>1, <2>2, <2>3
<1>16. Pread(PerCpuOffset(c)) = o
  BY <1>10, <1>14, <1>15, <1>a
<1>17. ASSUME NEW e
       PROVE  EventsAt(o, e) = IF e \in DOMAIN kernel.event THEN events[fd][c][e] ELSE 0
  <2> DEFINE owner == {d \in 0 .. up[fd] - 1 : \E j \in Regions :
                         /\ o \in Span(RegionOff, j)
                         /\ PerCpu[d] = RegionPhys[j] + (o - RegionOff[j])}
  <2>1. EventsAt(o, e) = IF owner # {} /\ e \in DOMAIN kernel.event
                         THEN events[fd][CHOOSE d \in owner : TRUE][e] ELSE 0
    BY DEF EventsAt
  <2>2. c \in owner
    BY <1>7, <1>8 DEF phys
  <2>3. ASSUME NEW d \in owner PROVE d = c
    <3>1. d \in Cpus /\ PerCpu[d] = phys
      <4>1. PICK j \in Regions : /\ o \in Span(RegionOff, j)
                                 /\ PerCpu[d] = RegionPhys[j] + (o - RegionOff[j])
        OBVIOUS
      <4>2. j = i
        BY <1>3, <1>7, <4>1
      <4>3. QED
        BY <1>1, <1>8, <4>1, <4>2
    <3>2. PerCpu[d] = PerCpu[c] /\ DOMAIN PerCpu = Cpus
      BY <3>1 DEF phys, Cpus
    <3>3. QED
      BY <1>1, <3>1, <3>2, RegionAssumption DEF IsInjective
  <2> HIDE DEF owner
  <2>4. (CHOOSE d \in owner : TRUE) = c
    BY <2>2, <2>3
  <2>5. QED
    BY <2>1, <2>2, <2>4
<1>18. QED
  BY <1>16, <1>17

\* discover_nr_cpus stops at the first CPU that is not set up, whatever its slot
\* holds, and not before.
THEOREM DiscoversCpusUp ==
  ASSUME fd \in Boots, up[fd] \in 0 .. NrCpus
  PROVE  DiscoverNrCpus(Limit) = up[fd]
<1> DEFINE n == up[fd]
           Pointer(d) == LET v == PerCpuOffset(d)
                         IN  v # 0 /\ (v \in PageOffset .. DirectMapEnd - 1 \/ v >= ImageBase)
<1>1. /\ NrCpus \in Nat /\ n \in Nat /\ n <= NrCpus /\ \A d \in 0 .. n - 1 : d \in Cpus
      /\ PageOffset \in Nat /\ DirectMapEnd \in Nat /\ ImageBase \in Nat /\ Unset \in Nat
      /\ 0 < PageOffset
  BY LayoutAssumption
<1>2. ASSUME NEW d \in 0 .. n - 1 PROVE Pointer(d)
  <2>1. PerCpuOffset(d) = PageOffset + PerCpu[d]
    BY <1>1 DEF PerCpuOffset
  <2>2. PerCpu[d] \in Nat /\ PageOffset + PerCpu[d] < DirectMapEnd
    BY <1>1, RegionAssumption
  <2>3. QED
    BY <1>1, <2>1, <2>2
<1>3. ~Pointer(n)
  <2>1. PerCpuOffset(n) = Unset
    BY <1>1 DEF PerCpuOffset
  <2>2. QED
    BY <1>1, <2>1, LayoutAssumption
<1>a. Limit = NrCpus
  <2>1. NrCpus \in Nat /\ 1 <= NrCpus /\ NrCpus <= Cap /\ Cap \in Nat
    BY LayoutAssumption DEF Cap
  <2> DEFINE c == NrCpus
             S == {c, 1}
             T == {Cap, c}
  <2>2. S \in SUBSET Int /\ c \in S /\ (\A y \in S : c >= y)
        /\ T \in SUBSET Int /\ c \in T /\ (\A y \in T : c <= y)
    BY <2>1
  <2>3. Max(S) = c /\ Min(T) = c
    <3> HIDE DEF S, T, c
    <3>1. QED
      BY <2>2, MaxIs, MinIs
  <2>4. QED
    BY <2>3 DEF Limit
<1>4. DiscoverNrCpus(Limit) = Cardinality({c \in 0 .. NrCpus - 1 : \A d \in 0 .. c : Pointer(d)})
  BY <1>a DEF DiscoverNrCpus
<1> HIDE DEF n, Pointer
<1>5. {c \in 0 .. NrCpus - 1 : \A d \in 0 .. c : Pointer(d)} = 0 .. n - 1
  <2>1. ASSUME NEW c \in 0 .. NrCpus - 1, \A d \in 0 .. c : Pointer(d) PROVE c \in 0 .. n - 1
    <3>1. n \notin 0 .. c
      BY <1>3, <2>1
    <3>2. QED
      BY <1>1, <3>1
  <2>2. ASSUME NEW c \in 0 .. n - 1
        PROVE  c \in 0 .. NrCpus - 1 /\ \A d \in 0 .. c : Pointer(d)
    <3>1. c \in 0 .. NrCpus - 1 /\ \A d \in 0 .. c : d \in 0 .. n - 1
      BY <1>1
    <3>2. QED
      BY <1>2, <3>1
  <2>3. QED
    BY <2>1, <2>2
<1>6. Cardinality(0 .. n - 1) = n
  <2>1. /\ 0 \in Int /\ n - 1 \in Int
        /\ (IF 0 > n - 1 THEN 0 ELSE (n - 1) - 0 + 1) = n
    BY <1>1
  <2> DEFINE b == n - 1
  <2> HIDE DEF b
  <2>2. Cardinality(0 .. b) = IF 0 > b THEN 0 ELSE b - 0 + 1
    BY <2>1, FS_Interval DEF b
  <2>3. QED
    BY <2>1, <2>2 DEF b
<1>7. QED
  BY <1>4, <1>5, <1>6 DEF n

-----------------------------------------------------------------------------
(* What a sample holds                                                     *)

EventIndices == DOMAIN kernel.event
Counters     == [Cpus -> [EventIndices -> Nat]]

GuestTypes ==
    /\ kernel \in Kernels
    /\ alive \in Boots \cup {NoBoot}
    /\ up \in [Boots -> 0 .. NrCpus]
    /\ events \in [Boots -> Counters]

\* The regions of a boot follow its first line, without a line of another boot
\* between them.
LogInv ==
    /\ log \in Seq([kind : {"ch", "va"}, boot : Boots, idx : Regions \cup {0}])
    /\ \A i \in 1 .. Len(log) : log[i].kind = "va" =>
          i > 1 /\ log[i - 1].boot = log[i].boot /\ log[i].idx \in Regions
    /\ alive # NoBoot => log # <<>> /\ log[Len(log)].boot = alive

\* What parse_log has so far: the pid of the last line it read, and regions of
\* that process only.
ParseInv ==
    /\ parse \in [pos : Nat \ {0}, chPid : Boots \cup {NoBoot},
                  regions : SUBSET [boot : Boots, idx : Regions]]
    /\ parse.pos <= Len(log) + 1
    /\ parse.chPid = IF parse.pos = 1 THEN NoBoot ELSE log[parse.pos - 1].boot
    /\ \A r \in parse.regions : r.boot = parse.chPid

\* The memory that is open is that of the process the regions are of.
MemoryInv ==
    /\ pc \in Steps
    /\ pc \in {"open"} \cup Guarded => parse.chPid # NoBoot
    /\ pc \in Guarded => fd = parse.chPid

Reading == {"probe", "offset", "events"}
Summing == {"offset", "events"}

DumpTypes ==
    dump \in [probed : Nat, cpu : Nat, sums : {<<>>} \cup [1 .. NEvent -> Nat], ok : SUBSET Cpus,
              before : [up : Nat, events : Counters]]

\* Since it began, the guest has only counted on.
BeforeInv ==
    /\ Layout.ok /\ DumpTypes /\ dump.before.up <= up[fd]
    /\ \A c \in Cpus, e \in EventIndices : dump.before.events[c][e] <= events[fd][c][e]

\* The sums are those of the CPUs read so far, each of which was up.
SumsInv ==
    /\ dump.sums \in [1 .. NEvent -> Nat]
    /\ dump.before.up <= dump.probed /\ dump.probed <= up[fd] /\ dump.cpu <= dump.probed
    /\ dump.ok \subseteq 0 .. dump.cpu - 1
    /\ \A e \in EventIndices : Asked(e) =>
          /\ SumOver(dump.before.events, e, dump.ok) <= dump.sums[e]
          /\ dump.sums[e] <= SumOver(events[fd], e, dump.ok)

DumpInv ==
    /\ pc \in Reading => BeforeInv
    /\ pc = "probe" => dump.cpu = 0 /\ dump.ok = {}
    /\ pc \in Summing => SumsInv
    /\ pc = "events" => dump.cpu < dump.probed

SampleInv == GuestTypes /\ LogInv /\ ParseInv /\ MemoryInv /\ DumpInv

\* The layout of the names is fixed by the kernel.
LEMMA LayoutSame ==
  ASSUME kernel' = kernel
  PROVE  /\ Layout' = Layout /\ NEvent' = NEvent /\ EventIndices' = EventIndices
         /\ Counters' = Counters /\ \A e : Asked(e)' <=> Asked(e)
<1>1. Layout' = Layout
  BY DEF Layout, Names
<1>2. NEvent' = NEvent
  BY <1>1 DEF NEvent
<1>3. EventIndices' = EventIndices
  BY DEF EventIndices
<1>4. Counters' = Counters
  BY <1>3 DEF Counters
<1>5. \A e : Asked(e)' <=> Asked(e)
  BY DEF Asked
<1>6. QED
  BY <1>1, <1>2, <1>3, <1>4, <1>5

\* There are finitely many CPUs.
LEMMA CpusFinite == /\ NrCpus \in Nat /\ Cpus = 0 .. NrCpus - 1
                    /\ \A S \in SUBSET Cpus : IsFiniteSet(S)
<1>1. NrCpus \in Nat /\ Cpus = 0 .. NrCpus - 1
  BY LayoutAssumption
<1>2. IsFiniteSet(Cpus)
  <2> DEFINE b == NrCpus - 1
  <2>1. 0 \in Int /\ b \in Int /\ Cpus = 0 .. b
    BY <1>1
  <2> HIDE DEF b
  <2>2. IsFiniteSet(0 .. b)
    BY <2>1, FS_Interval
  <2>3. QED
    BY <2>1, <2>2
<1>3. QED
  BY <1>1, <1>2, FS_Subset

\* The counts of every CPU are numbers.
LEMMA CountersCount ==
  ASSUME NEW counts \in Counters, NEW S \in SUBSET Cpus, NEW e \in EventIndices
  PROVE  Counts(counts, e, S) /\ SumOver(counts, e, S) \in Nat
<1>1. Counts(counts, e, S)
  BY DEF Counters, Counts
<1>2. QED
  BY <1>1, CpusFinite, SumNat

\* The event a name was asked for has a place among the sums.
LEMMA AskedPlace ==
  ASSUME kernel \in Kernels, Layout.ok, NEW e \in EventIndices, Asked(e)
  PROVE  NEvent \in Nat /\ e \in 1 .. NEvent
  BY LayoutTrue DEF EventIndices

\* What the inspector has of a sample stays true while the guest only sets up
\* CPUs and counts on.
LEMMA GuestGrows ==
  ASSUME SampleInv, GuestTypes', UNCHANGED <<kernel, pc, fd, parse, dump>>,
         \A b \in Boots : up[b] <= up'[b],
         \A b \in Boots, c \in Cpus, e \in EventIndices : events[b][c][e] <= events'[b][c][e]
  PROVE  DumpInv'
<1>1. CASE pc \notin Reading
  BY <1>1 DEF DumpInv, Reading, Summing
<1>2. CASE pc \in Reading
  <2>1. fd \in Boots /\ fd' = fd
    <3>1. pc \in Guarded
      BY <1>2 DEF Reading, Guarded
    <3>2. fd = parse.chPid /\ parse.chPid # NoBoot /\ parse.chPid \in Boots \cup {NoBoot}
      BY <3>1 DEF SampleInv, MemoryInv, ParseInv
    <3>3. QED
      BY <3>2
  <2>2. BeforeInv
    BY <1>2 DEF SampleInv, DumpInv
  <2>3. /\ up[fd] \in Nat /\ up'[fd] \in Nat /\ up[fd] <= up'[fd]
        /\ events[fd] \in Counters /\ events'[fd] \in Counters
        /\ dump.before.up \in Nat /\ dump.before.events \in Counters
        /\ dump.probed \in Nat /\ dump.ok \in SUBSET Cpus
    <3>1. NrCpus \in Nat /\ up[fd] \in 0 .. NrCpus /\ events[fd] \in Counters
      BY <2>1, CpusFinite DEF SampleInv, GuestTypes
    <3>2. up'[fd] \in 0 .. NrCpus /\ events'[fd] \in Counters
      BY <2>1, LayoutSame DEF GuestTypes
    <3>3. DumpTypes
      BY <2>2 DEF BeforeInv
    <3>4. QED
      BY <2>1, <3>1, <3>2, <3>3 DEF DumpTypes
  <2>4. BeforeInv'
    <3>1. Layout.ok'
      BY <2>2, LayoutSame DEF BeforeInv
    <3>2. DumpTypes'
      BY <2>2, LayoutSame DEF BeforeInv, DumpTypes
    <3>3. dump.before.up <= up'[fd]
      BY <2>2, <2>3 DEF BeforeInv
    <3>4. ASSUME NEW c \in Cpus, NEW e \in EventIndices
          PROVE  dump.before.events[c][e] <= events'[fd][c][e]
      <4>1. /\ dump.before.events[c][e] \in Nat /\ events[fd][c][e] \in Nat
            /\ events'[fd][c][e] \in Nat
        BY <2>3 DEF Counters
      <4>2. dump.before.events[c][e] <= events[fd][c][e] /\ events[fd][c][e] <= events'[fd][c][e]
        BY <2>1, <2>2 DEF BeforeInv
      <4>3. QED
        BY <4>1, <4>2
    <3>5. QED
      BY <2>1, <3>1, <3>2, <3>3, <3>4, LayoutSame DEF BeforeInv
  <2>5. ASSUME SumsInv PROVE SumsInv'
    <3>1. /\ dump.sums \in [1 .. NEvent -> Nat]
          /\ dump.before.up <= dump.probed /\ dump.probed <= up[fd] /\ dump.cpu <= dump.probed
          /\ dump.ok \subseteq 0 .. dump.cpu - 1
      BY <2>5 DEF SumsInv
    <3>2. dump.probed <= up'[fd]
      BY <2>3, <3>1
    <3>3. ASSUME NEW e \in EventIndices, Asked(e)
          PROVE  /\ SumOver(dump.before.events, e, dump.ok) <= dump.sums[e]
                 /\ dump.sums[e] <= SumOver(events'[fd], e, dump.ok)
      <4>1. /\ SumOver(dump.before.events, e, dump.ok) <= dump.sums[e]
            /\ dump.sums[e] <= SumOver(events[fd], e, dump.ok)
        BY <2>5, <3>3 DEF SumsInv
      <4>2. dump.sums[e] \in Nat
        BY <2>2, <3>1, <3>3, AskedPlace DEF BeforeInv, SampleInv, GuestTypes
      <4>3. /\ IsFiniteSet(dump.ok)
            /\ Counts(events[fd], e, dump.ok) /\ SumOver(events[fd], e, dump.ok) \in Nat
            /\ Counts(events'[fd], e, dump.ok) /\ SumOver(events'[fd], e, dump.ok) \in Nat
        BY <2>3, CpusFinite, CountersCount
      <4>4. \A c \in dump.ok : events[fd][c][e] <= events'[fd][c][e]
        BY <2>1, <2>3
      <4>5. SumOver(events[fd], e, dump.ok) <= SumOver(events'[fd], e, dump.ok)
        BY <4>3, <4>4, SumGrows
      <4>6. QED
        BY <4>1, <4>2, <4>3, <4>5
    <3>4. QED
      BY <2>1, <3>1, <3>2, <3>3, LayoutSame DEF SumsInv
  <2>6. QED
    BY <2>4, <2>5 DEF SampleInv, DumpInv, Summing
<1>3. QED
  BY <1>1, <1>2

\* Nothing is read before the first run.
LEMMA InitSample == Init => SampleInv
<1> SUFFICES ASSUME Init PROVE SampleInv
  OBVIOUS
<1>1. NrCpus \in Nat
  BY LayoutAssumption
<1>2. GuestTypes
  <2>1. 0 \in 0 .. NrCpus /\ up \in [Boots -> 0 .. NrCpus]
    BY <1>1 DEF Init
  <2>2. events \in [Boots -> Counters]
    BY DEF Init, Counters, EventIndices
  <2>3. QED
    BY <2>1, <2>2 DEF Init, GuestTypes
<1>3. LogInv
  BY EmptySeq DEF Init, LogInv
<1>4. ParseInv
  BY EmptySeq DEF Init, ParseInv, NoParse
<1>5. MemoryInv /\ DumpInv
  BY DEF Init, MemoryInv, DumpInv, Guarded, Steps, Reading, Summing
<1>6. QED
  BY <1>2, <1>3, <1>4, <1>5 DEF SampleInv

\* A line more in the log leaves those that were read.
LEMMA LogGrows ==
  ASSUME SampleInv, NEW line \in [kind : {"ch", "va"}, boot : Boots, idx : Regions \cup {0}],
         log' = Append(log, line), UNCHANGED parse, alive' = line.boot,
         line.kind = "va" => alive = line.boot /\ line.idx \in Regions
  PROVE  LogInv' /\ ParseInv'
<1> DEFINE Entry == [kind : {"ch", "va"}, boot : Boots, idx : Regions \cup {0}]
<1>1. /\ log \in Seq(Entry) /\ Len(log) \in Nat
      /\ \A i \in 1 .. Len(log) : log[i].kind = "va" =>
            i > 1 /\ log[i - 1].boot = log[i].boot /\ log[i].idx \in Regions
      /\ alive # NoBoot => log # <<>> /\ log[Len(log)].boot = alive
  BY LenProperties DEF SampleInv, LogInv
<1>2. line \in Entry /\ line.boot \in Boots /\ line.boot # NoBoot
  BY BootAssumption
<1> HIDE DEF Entry
<1>3. /\ log' \in Seq(Entry) /\ Len(log') = Len(log) + 1
      /\ \A i \in 1 .. Len(log) : log'[i] = log[i]
      /\ log'[Len(log) + 1] = line
  BY <1>1, <1>2, AppendProperties
<1>4. ASSUME NEW i \in 1 .. Len(log'), log'[i].kind = "va"
      PROVE  i > 1 /\ log'[i - 1].boot = log'[i].boot /\ log'[i].idx \in Regions
  <2>1. CASE i \in 1 .. Len(log)
    <3>1. i > 1 /\ log[i - 1].boot = log[i].boot /\ log[i].idx \in Regions
      BY <1>1, <1>3, <1>4, <2>1
    <3>2. i - 1 \in 1 .. Len(log)
      BY <1>1, <2>1, <3>1
    <3>3. QED
      BY <1>3, <2>1, <3>1, <3>2
  <2>2. CASE i = Len(log) + 1
    <3>1. log'[i] = line /\ line.kind = "va"
      BY <1>3, <1>4, <2>2
    <3>2. log # <<>> /\ log[Len(log)].boot = line.boot
      BY <1>1, <1>2, <3>1
    <3>3. Len(log) \in 1 .. Len(log) /\ i - 1 = Len(log) /\ i > 1
      BY <1>1, <2>2, <3>2, EmptySeq
    <3>4. QED
      BY <1>3, <3>1, <3>2, <3>3
  <2>3. QED
    BY <1>1, <1>3, <2>1, <2>2
<1>5. log' # <<>> /\ log'[Len(log')].boot = alive'
  BY <1>1, <1>3, EmptySeq
<1>6. LogInv'
  BY <1>3, <1>4, <1>5 DEF LogInv, Entry
<1>7. ParseInv'
  <2>1. parse.pos \in Nat \ {0} /\ parse.pos <= Len(log) + 1
        /\ parse.chPid = IF parse.pos = 1 THEN NoBoot ELSE log[parse.pos - 1].boot
    BY DEF SampleInv, ParseInv
  <2>2. parse.pos <= Len(log') + 1
    BY <1>1, <1>3, <2>1
  <2>3. parse.pos # 1 => parse.pos - 1 \in 1 .. Len(log)
    BY <1>1, <2>1
  <2>4. parse.chPid = IF parse.pos = 1 THEN NoBoot ELSE log'[parse.pos - 1].boot
    BY <1>3, <2>1, <2>3
  <2>5. QED
    BY <2>2, <2>4 DEF SampleInv, ParseInv
<1>8. QED
  BY <1>6, <1>7

\* The guest and CH go on.
LEMMA GuestSample == ASSUME SampleInv, Guest PROVE SampleInv'
<1>1. UNCHANGED <<pc, parse, fd, dump>>
  BY DEF Guest
<1>2. MemoryInv'
  BY <1>1 DEF SampleInv, MemoryInv
<1>3. GuestTypes
  BY DEF SampleInv
<1>4. NrCpus \in Nat /\ Cpus = 0 .. NrCpus - 1
  BY CpusFinite
<1>5. CASE Boot \/ AcceptRegion \/ Exit
  <2>1. UNCHANGED <<kernel, up, events>>
    BY <1>5 DEF Boot, AcceptRegion, Exit
  <2>2. alive' \in Boots \cup {NoBoot}
    BY <1>3, <1>5 DEF Boot, AcceptRegion, Exit, GuestTypes
  <2>3. GuestTypes'
    BY <1>3, <2>1, <2>2, LayoutSame DEF GuestTypes
  <2>4. LogInv' /\ ParseInv'
    <3>1. CASE Boot
      <4>1. PICK b \in Boots : /\ alive' = b
                               /\ log' = Append(log, [kind |-> "ch", boot |-> b, idx |-> 0])
        BY <3>1 DEF Boot
      <4>2. QED
        BY <1>1, <4>1, LogGrows
    <3>2. CASE AcceptRegion
      <4>1. PICK i \in Regions : log' = Append(log, [kind |-> "va", boot |-> alive, idx |-> i])
        BY <3>2 DEF AcceptRegion
      <4>2. alive' = alive /\ alive \in Boots
        BY <1>3, <3>2 DEF AcceptRegion, GuestTypes
      <4>3. QED
        BY <1>1, <4>1, <4>2, LogGrows
    <3>3. CASE Exit
      BY <1>1, <3>3 DEF Exit, SampleInv, LogInv, ParseInv
    <3>4. QED
      BY <1>5, <3>1, <3>2, <3>3
  <2>5. \A b \in Boots : up[b] <= up'[b]
    BY <1>3, <1>4, <2>1 DEF GuestTypes
  <2>6. \A b \in Boots, c \in Cpus, e \in EventIndices : events[b][c][e] <= events'[b][c][e]
    BY <1>3, <2>1 DEF GuestTypes, Counters
  <2>7. DumpInv'
    BY <1>1, <2>1, <2>3, <2>5, <2>6, GuestGrows
  <2>8. QED
    BY <1>2, <2>3, <2>4, <2>7 DEF SampleInv
<1>6. CASE CpuUp \/ Count
  <2>1. UNCHANGED <<kernel, log, alive>> /\ alive \in Boots
    BY <1>3, <1>6 DEF CpuUp, Count, GuestTypes
  <2>2. LogInv' /\ ParseInv'
    BY <1>1, <2>1 DEF SampleInv, LogInv, ParseInv
  <2>3. /\ GuestTypes'
        /\ \A b \in Boots : up[b] <= up'[b]
        /\ \A b \in Boots, c \in Cpus, e \in EventIndices : events[b][c][e] <= events'[b][c][e]
    <3>1. CASE CpuUp
      <4>1. up[alive] < NrCpus /\ up' = [up EXCEPT ![alive] = @ + 1] /\ events' = events
        BY <3>1 DEF CpuUp
      <4>2. up' \in [Boots -> 0 .. NrCpus] /\ \A b \in Boots : up[b] <= up'[b]
        BY <1>3, <1>4, <2>1, <4>1 DEF GuestTypes
      <4>3. \A b \in Boots, c \in Cpus, e \in EventIndices : events[b][c][e] <= events'[b][c][e]
        BY <1>3, <4>1 DEF GuestTypes, Counters
      <4>4. QED
        BY <1>3, <2>1, <4>1, <4>2, <4>3, LayoutSame DEF GuestTypes
    <3>2. CASE Count
      <4>1. PICK d \in Cpus, f \in EventIndices : events' = [events EXCEPT ![alive][d][f] = @ + 1]
        BY <3>2 DEF Count, EventIndices
      <4>2. up' = up
        BY <3>2 DEF Count
      <4>3. events \in [Boots -> [Cpus -> [EventIndices -> Nat]]]
        BY <1>3 DEF GuestTypes, Counters
      <4>4. events' \in [Boots -> [Cpus -> [EventIndices -> Nat]]]
        BY <2>1, <4>1, <4>3
      <4>5. ASSUME NEW b \in Boots, NEW c \in Cpus, NEW e \in EventIndices
            PROVE  events[b][c][e] <= events'[b][c][e]
        BY <2>1, <4>1, <4>3
      <4>6. \A b \in Boots : up[b] <= up'[b]
        BY <1>3, <1>4, <4>2 DEF GuestTypes
      <4>7. GuestTypes'
        BY <1>3, <2>1, <4>2, <4>4, LayoutSame DEF GuestTypes, Counters
      <4>8. QED
        BY <4>5, <4>6, <4>7
    <3>3. QED
      BY <1>6, <3>1, <3>2
  <2>4. DumpInv'
    BY <1>1, <2>1, <2>3, GuestGrows
  <2>5. QED
    BY <1>2, <2>2, <2>3, <2>4 DEF SampleInv
<1>7. QED
  BY <1>5, <1>6 DEF Guest

\* Nothing the inspector does changes the guest or the log.
LEMMA GuestSame == ASSUME SampleInv, UNCHANGED guestVars PROVE GuestTypes' /\ LogInv'
<1>1. UNCHANGED <<kernel, log, alive, up, events>>
  BY DEF guestVars
<1>2. GuestTypes'
  BY <1>1, LayoutSame DEF SampleInv, GuestTypes
<1>3. QED
  BY <1>1, <1>2 DEF SampleInv, LogInv

\* Leaving a sample, and steps outside of one.
LEMMA GoSample ==
  ASSUME SampleInv, UNCHANGED <<guestVars, parse>>, pc' \in Steps, pc' \notin Reading,
         pc' = "open" => parse.chPid # NoBoot,
         pc' \in Guarded => pc \in Guarded /\ fd' = fd
  PROVE  SampleInv'
<1>1. GuestTypes' /\ LogInv'
  BY GuestSame
<1>2. ParseInv'
  BY DEF SampleInv, ParseInv, guestVars
<1>3. MemoryInv'
  BY DEF SampleInv, MemoryInv
<1>4. DumpInv'
  BY DEF DumpInv, Reading, Summing
<1>5. QED
  BY <1>1, <1>2, <1>3, <1>4 DEF SampleInv

\* The end of the process.
LEMMA EndSample == ASSUME SampleInv, UNCHANGED guestVars, End PROVE SampleInv'
<1>1. GuestTypes' /\ LogInv'
  BY GuestSame
<1>2. pc' = "idle" /\ parse' = NoParse
  BY DEF End, Go
<1>3. Len(log) \in Nat /\ log' = log
  BY LenProperties DEF SampleInv, LogInv, guestVars
<1>4. ParseInv'
  BY <1>2, <1>3 DEF ParseInv, NoParse
<1>5. MemoryInv' /\ DumpInv'
  BY <1>2 DEF MemoryInv, DumpInv, Guarded, Steps, Reading, Summing
<1>6. QED
  BY <1>1, <1>4, <1>5 DEF SampleInv

\* parse_log: a line names a process, or a region of the process named last.
LEMMA ParseSample == ASSUME SampleInv, ParseLine PROVE SampleInv'
<1>1. GuestTypes' /\ LogInv'
  BY GuestSame DEF ParseLine
<1>2. /\ pc = "parse" /\ pc' = "parse" /\ parse.pos <= Len(log) /\ log' = log
      /\ parse' = Parsed(log[parse.pos])
  BY DEF ParseLine, At, guestVars
<1>3. MemoryInv' /\ DumpInv'
  BY <1>2 DEF MemoryInv, DumpInv, Guarded, Steps, Reading, Summing
<1> DEFINE p == parse.pos
           line == log[parse.pos]
<1>4. /\ parse \in [pos : Nat \ {0}, chPid : Boots \cup {NoBoot},
                    regions : SUBSET [boot : Boots, idx : Regions]]
      /\ parse.chPid = IF p = 1 THEN NoBoot ELSE log[p - 1].boot
      /\ \A r \in parse.regions : r.boot = parse.chPid
  BY DEF SampleInv, ParseInv
<1>5. p \in 1 .. Len(log) /\ Len(log) \in Nat
  BY <1>2, <1>4, LenProperties DEF SampleInv, LogInv
<1>6. /\ line \in [kind : {"ch", "va"}, boot : Boots, idx : Regions \cup {0}]
      /\ line.kind = "va" => p > 1 /\ log[p - 1].boot = line.boot /\ line.idx \in Regions
  BY <1>5, ElementOfSeq DEF SampleInv, LogInv
<1> HIDE DEF p, line
<1>7. /\ parse' \in [pos : Nat \ {0}, chPid : Boots \cup {NoBoot},
                     regions : SUBSET [boot : Boots, idx : Regions]]
      /\ parse'.pos = p + 1 /\ parse'.chPid = line.boot
      /\ \A r \in parse'.regions : r.boot = line.boot
  <2>1. CASE line.kind = "ch"
    <3>1. parse' = [parse EXCEPT !.pos = @ + 1, !.chPid = line.boot, !.regions = {}]
      BY <1>2, <2>1 DEF Parsed, line
    <3>2. parse' = [pos |-> parse.pos + 1, chPid |-> line.boot, regions |-> {}]
      BY <1>4, <3>1
    <3>3. line.boot \in Boots /\ parse.pos + 1 \in Nat \ {0}
      BY <1>4, <1>6
    <3>4. QED
      BY <3>2, <3>3 DEF p
  <2>2. CASE line.kind # "ch"
    <3>1. parse' = [parse EXCEPT !.pos = @ + 1,
                                 !.regions = @ \cup {[boot |-> line.boot, idx |-> line.idx]}]
      BY <1>2, <2>2 DEF Parsed, line
    <3>2. parse.chPid = line.boot /\ line.boot \in Boots /\ line.idx \in Regions
      BY <1>4, <1>5, <1>6, <2>2
    <3> DEFINE r == [boot |-> line.boot, idx |-> line.idx]
               R == parse.regions \cup {r}
    <3>3. r \in [boot : Boots, idx : Regions] /\ r.boot = line.boot
      BY <3>2
    <3>4. R \in SUBSET [boot : Boots, idx : Regions] /\ \A x \in R : x.boot = line.boot
      BY <1>4, <3>2, <3>3
    <3> HIDE DEF r
    <3>5. parse' = [pos |-> parse.pos + 1, chPid |-> parse.chPid, regions |-> R]
      BY <1>4, <3>1 DEF r
    <3>6. parse.pos + 1 \in Nat \ {0}
      BY <1>4
    <3> HIDE DEF R
    <3>7. QED
      BY <1>4, <3>2, <3>4, <3>5, <3>6 DEF p
  <2>3. QED
    BY <2>1, <2>2
<1>8. ParseInv'
  <2>1. parse'.pos <= Len(log') + 1
    BY <1>2, <1>5, <1>7
  <2>2. p + 1 # 1 /\ (p + 1) - 1 = p
    BY <1>5
  <2>3. parse'.chPid = IF parse'.pos = 1 THEN NoBoot ELSE log'[parse'.pos - 1].boot
    BY <1>2, <1>7, <2>2 DEF p, line
  <2>4. QED
    BY <1>7, <2>1, <2>3 DEF ParseInv
<1>9. QED
  BY <1>1, <1>3, <1>8 DEF SampleInv

\* Before the memory is read.
LEMMA SetupSample == ASSUME SampleInv, Start \/ ParseLine \/ ParseEnd \/ Open PROVE SampleInv'
<1>1. CASE Start
  <2>1. UNCHANGED <<guestVars, parse>> /\ pc' = "parse"
    BY <1>1 DEF Start, Go
  <2>2. QED
    BY <2>1, GoSample DEF Steps, Guarded, Reading
<1>2. CASE ParseLine
  BY <1>2, ParseSample
<1>3. CASE ParseEnd
  <2>1. \/ UNCHANGED <<guestVars, parse>> /\ pc' = "open" /\ parse.chPid # NoBoot
        \/ End /\ UNCHANGED guestVars
    BY <1>3 DEF ParseEnd, Go
  <2>2. QED
    BY <2>1, GoSample, EndSample DEF Steps, Guarded, Reading
<1>4. CASE Open
  <2>1. \/ /\ UNCHANGED <<guestVars, parse>> /\ pc = "open" /\ pc' = "names"
           /\ alive = parse.chPid /\ fd' = alive
        \/ End /\ UNCHANGED guestVars
    BY <1>4 DEF Open, At, Go
  <2>2. CASE /\ UNCHANGED <<guestVars, parse>> /\ pc = "open" /\ pc' = "names"
             /\ alive = parse.chPid /\ fd' = alive
    <3>1. GuestTypes' /\ LogInv'
      BY <2>2, GuestSame
    <3>2. ParseInv'
      BY <2>2 DEF SampleInv, ParseInv, guestVars
    <3>3. MemoryInv' /\ DumpInv'
      BY <2>2 DEF SampleInv, MemoryInv, DumpInv, Guarded, Steps, Reading, Summing
    <3>4. QED
      BY <3>1, <3>2, <3>3 DEF SampleInv
  <2>3. QED
    BY <2>1, <2>2, EndSample
<1>5. QED
  BY <1>1, <1>2, <1>3, <1>4

\* After a sample, and when the user stops it.
LEMMA LoopSample ==
  ASSUME SampleInv,
         Take \/ Flush \/ Heartbeat \/ Finally \/ LastFlush \/ EndReport \/ Interrupt \/ Kill
  PROVE  SampleInv'
<1>1. CASE End /\ UNCHANGED guestVars
  BY <1>1, EndSample
<1>2. CASE /\ UNCHANGED <<guestVars, parse, fd>> /\ pc \in Guarded
           /\ pc' \in {"flush", "write", "replace", "beat", "names", "finally"}
  BY <1>2, GoSample DEF Steps, Guarded, Ending, Reading
<1>3. CASE UNCHANGED <<guestVars, parse>> /\ pc' \in Ending
  BY <1>3, GoSample DEF Steps, Guarded, Ending, Reading
<1>4. CASE Take \/ Heartbeat
  <2>1. /\ UNCHANGED <<guestVars, parse, fd>> /\ pc \in {"offset", "beat"}
        /\ pc' \in {"flush", "names"}
    BY <1>4 DEF Take, Heartbeat, At, Go
  <2>2. QED
    BY <1>2, <2>1 DEF Guarded
<1>5. CASE Flush
  <2>1. CASE OpenTmp("flush", "write") \/ Replace("replace", AfterFlush)
    <3>1. /\ UNCHANGED <<guestVars, parse, fd>> /\ pc \in {"flush", "replace"}
          /\ pc' \in {"write", "beat", "finally"}
      BY <2>1 DEF OpenTmp, Replace, AfterFlush, At, Go, fileStep
    <3>2. QED
      BY <1>2, <3>1 DEF Guarded
  <2>2. CASE WriteTmp("write", "replace")
    <3>1. \/ UNCHANGED <<guestVars, parse, fd>> /\ pc = "write" /\ pc' = "replace"
          \/ End /\ UNCHANGED guestVars
      BY <2>2 DEF WriteTmp, At, Go
    <3>2. QED
      BY <1>1, <1>2, <3>1 DEF Guarded
  <2>3. QED
    BY <1>5, <2>1, <2>2 DEF Flush
<1>6. CASE Finally \/ LastFlush
  <2>1. CASE Finally \/ OpenTmp("lastFlush", "lastWrite") \/ Replace("lastReplace", "report")
    <3>1. UNCHANGED <<guestVars, parse>> /\ pc' \in Ending
      BY <2>1 DEF Finally, OpenTmp, Replace, Go, fileStep, Ending
    <3>2. QED
      BY <1>3, <3>1
  <2>2. CASE WriteTmp("lastWrite", "lastReplace")
    <3>1. \/ UNCHANGED <<guestVars, parse>> /\ pc' = "lastReplace"
          \/ End /\ UNCHANGED guestVars
      BY <2>2 DEF WriteTmp, Go
    <3>2. QED
      BY <1>1, <1>3, <3>1 DEF Ending
  <2>3. QED
    BY <1>6, <2>1, <2>2 DEF LastFlush
<1>7. CASE EndReport \/ Kill
  BY <1>1, <1>7 DEF EndReport, Kill
<1>8. CASE Interrupt
  <2>1. \/ UNCHANGED <<guestVars, parse>> /\ pc' = "finally"
        \/ End /\ UNCHANGED guestVars
    BY <1>8 DEF Interrupt, Go
  <2>2. QED
    BY <1>1, <1>3, <2>1 DEF Ending
<1>9. QED
  BY <1>4, <1>5, <1>6, <1>7, <1>8

\* What a read finds: the memory of the process whose regions were parsed.
LEMMA OpenMemory ==
  ASSUME SampleInv, pc \in Guarded
  PROVE  /\ fd \in Boots /\ \A r \in parse.regions : r.boot = fd /\ r.idx \in Regions
         /\ NrCpus \in Nat /\ up[fd] \in 0 .. NrCpus /\ events[fd] \in Counters
         /\ kernel \in Kernels
<1>1. /\ parse.chPid \in Boots \cup {NoBoot} /\ fd = parse.chPid /\ parse.chPid # NoBoot
      /\ parse.regions \in SUBSET [boot : Boots, idx : Regions]
      /\ \A r \in parse.regions : r.boot = parse.chPid
  BY DEF SampleInv, ParseInv, MemoryInv
<1>2. fd \in Boots /\ \A r \in parse.regions : r.boot = fd /\ r.idx \in Regions
  BY <1>1
<1>3. QED
  BY <1>2, CpusFinite DEF SampleInv, GuestTypes

\* A read changes no more than the sample.
LEMMA ReadSample ==
  ASSUME SampleInv, UNCHANGED <<guestVars, parse, fd>>, pc \in Guarded, pc' \in Guarded, DumpInv'
  PROVE  SampleInv'
<1>1. GuestTypes' /\ LogInv'
  BY GuestSame
<1>2. ParseInv'
  BY DEF SampleInv, ParseInv, guestVars
<1>3. MemoryInv'
  BY DEF SampleInv, MemoryInv, Steps
<1>4. QED
  BY <1>1, <1>2, <1>3 DEF SampleInv

\* A sample begins with the counters as they are.
LEMMA NamesSample == ASSUME SampleInv, ReadNames PROVE SampleInv'
<1>1. /\ pc = "names" /\ pc \in Guarded /\ UNCHANGED <<guestVars, parse, fd>>
      /\ UNCHANGED <<kernel, up, events>>
  BY DEF ReadNames, At, Guarded, guestVars
<1>2. CASE Raise
  <2>1. pc' = "finally"
    BY <1>2 DEF Raise, Go
  <2>2. QED
    BY <1>1, <2>1, GoSample DEF Steps, Ending, Guarded, Reading
<1>3. CASE /\ Layout.ok /\ pc' = "probe"
           /\ dump' = [NoDump EXCEPT !.before = [up |-> up[fd], events |-> events[fd]]]
  <2>1. /\ fd \in Boots /\ up[fd] \in Nat /\ events[fd] \in Counters
    BY <1>1, OpenMemory
  <2> DEFINE before == [up |-> up[fd], events |-> events[fd]]
  <2>2. before \in [up : Nat, events : Counters] /\ before.up = up[fd] /\ before.events = events[fd]
    BY <2>1
  <2> HIDE DEF before
  <2>3. dump' = [probed |-> 0, cpu |-> 0, sums |-> <<>>, ok |-> {}, before |-> before]
    BY <1>3 DEF NoDump, before
  <2> DEFINE Sums == {<<>>} \cup [1 .. NEvent -> Nat]
  <2>4. <<>> \in Sums
    OBVIOUS
  <2> HIDE DEF Sums
  <2>5. /\ dump' \in [probed : Nat, cpu : Nat, sums : Sums, ok : SUBSET Cpus,
                      before : [up : Nat, events : Counters]]
        /\ dump'.cpu = 0 /\ dump'.ok = {} /\ dump'.before = before
    BY <2>2, <2>3, <2>4
  <2>6. DumpTypes'
    BY <1>1, <2>5, LayoutSame DEF DumpTypes, Sums
  <2>7. \A c \in Cpus, e \in EventIndices : before.events[c][e] <= events[fd][c][e]
    BY <2>1, <2>2 DEF Counters
  <2>8. before.up <= up[fd]
    BY <2>1, <2>2
  <2>9. BeforeInv'
    BY <1>1, <1>3, <2>5, <2>6, <2>7, <2>8, LayoutSame DEF BeforeInv
  <2>10. DumpInv'
    BY <1>3, <2>5, <2>9 DEF DumpInv, Summing
  <2>11. QED
    BY <1>1, <1>3, <2>10, ReadSample DEF Guarded
<1>4. QED
  BY <1>2, <1>3 DEF ReadNames, Go

\* The sums begin at zero, for the CPUs that are up by then.
LEMMA ProbeSample == ASSUME SampleInv, Probe PROVE SampleInv'
<1>1. /\ pc = "probe" /\ pc \in Guarded /\ UNCHANGED <<guestVars, parse, fd>>
      /\ UNCHANGED <<kernel, up, events>>
  BY DEF Probe, At, Guarded, guestVars
<1>2. CASE Raise
  <2>1. pc' = "finally"
    BY <1>2 DEF Raise, Go
  <2>2. QED
    BY <1>1, <2>1, GoSample DEF Steps, Ending, Guarded, Reading
<1>3. CASE /\ pc' = "offset"
           /\ dump' = [dump EXCEPT !.probed = DiscoverNrCpus(Limit),
                                   !.sums = [i \in 1 .. NEvent |-> 0]]
  <2>1. fd \in Boots /\ up[fd] \in Nat /\ DiscoverNrCpus(Limit) = up[fd] /\ kernel \in Kernels
        /\ events[fd] \in Counters
    BY <1>1, OpenMemory, DiscoversCpusUp
  <2>2. BeforeInv /\ dump.cpu = 0 /\ dump.ok = {}
    BY <1>1 DEF SampleInv, DumpInv, Reading
  <2> DEFINE zero == [i \in 1 .. NEvent |-> 0]
             Sums == {<<>>} \cup [1 .. NEvent -> Nat]
  <2>3. zero \in [1 .. NEvent -> Nat] /\ zero \in Sums /\ \A i \in 1 .. NEvent : zero[i] = 0
    OBVIOUS
  <2> HIDE DEF zero
  <2>4. dump \in [probed : Nat, cpu : Nat, sums : Sums, ok : SUBSET Cpus,
                  before : [up : Nat, events : Counters]]
    BY <2>2 DEF BeforeInv, DumpTypes
  <2>5. dump' = [dump EXCEPT !.probed = up[fd], !.sums = zero]
    BY <1>3, <2>1 DEF zero
  <2> HIDE DEF Sums
  <2>6. /\ dump' \in [probed : Nat, cpu : Nat, sums : Sums, ok : SUBSET Cpus,
                      before : [up : Nat, events : Counters]]
        /\ dump'.cpu = 0 /\ dump'.ok = {} /\ dump'.before = dump.before /\ dump'.probed = up[fd]
        /\ dump'.sums = zero
    BY <2>1, <2>2, <2>3, <2>4, <2>5
  <2>7. BeforeInv'
    <3>1. DumpTypes'
      BY <1>1, <2>6, LayoutSame DEF DumpTypes, Sums
    <3>2. QED
      BY <1>1, <2>2, <2>6, <3>1, LayoutSame DEF BeforeInv
  <2>8. SumsInv'
    <3>1. ASSUME NEW e \in EventIndices, Asked(e)
          PROVE  /\ SumOver(dump.before.events, e, {}) <= zero[e]
                 /\ zero[e] <= SumOver(events[fd], e, {})
      <4>1. e \in 1 .. NEvent
        BY <2>1, <2>2, <3>1, AskedPlace DEF BeforeInv
      <4>2. \A counts : SumOver(counts, e, {}) = 0
        BY FS_EmptySet, SumUnfold
      <4>3. QED
        BY <2>3, <4>1, <4>2
    <3>2. dump.before.up <= up[fd] /\ up[fd] <= up[fd] /\ 0 <= up[fd]
      BY <2>1, <2>2 DEF BeforeInv
    <3>3. QED
      BY <1>1, <2>3, <2>6, <3>1, <3>2, LayoutSame DEF SumsInv
  <2>9. DumpInv'
    BY <1>3, <2>7, <2>8 DEF DumpInv
  <2>10. QED
    BY <1>1, <1>3, <2>9, ReadSample DEF Guarded
<1>4. QED
  BY <1>2, <1>3 DEF Probe, Go

\* The next CPU.
LEMMA OffsetSample == ASSUME SampleInv, ReadOffset PROVE SampleInv'
<1>1. /\ pc = "offset" /\ pc \in Guarded /\ UNCHANGED <<guestVars, parse, fd>>
      /\ UNCHANGED <<kernel, up, events>> /\ dump.cpu < dump.probed
  BY DEF ReadOffset, At, Guarded, guestVars
<1>2. CASE Raise
  <2>1. pc' = "finally"
    BY <1>2 DEF Raise, Go
  <2>2. QED
    BY <1>1, <2>1, GoSample DEF Steps, Ending, Guarded, Reading
<1>3. CASE pc' = "events" /\ dump' = dump
  <2>1. BeforeInv /\ SumsInv
    BY <1>1 DEF SampleInv, DumpInv, Reading, Summing
  <2>2. BeforeInv'
    BY <1>1, <1>3, <2>1, LayoutSame DEF BeforeInv, DumpTypes
  <2>3. SumsInv'
    BY <1>1, <1>3, <2>1, LayoutSame DEF SumsInv
  <2>4. DumpInv'
    BY <1>1, <1>3, <2>2, <2>3 DEF DumpInv
  <2>5. QED
    BY <1>1, <1>3, <2>4, ReadSample DEF Guarded
<1>4. QED
  BY <1>2, <1>3 DEF ReadOffset, Go

\* A CPU that was read adds what it had counted; one that could not be read is
\* neither summed nor listed.
LEMMA EventsSample == ASSUME SampleInv, ReadEvents PROVE SampleInv'
<1> DEFINE off == Pread(PerCpuOffset(dump.cpu))
           c == dump.cpu
           added == [i \in 1 .. NEvent |-> dump.sums[i] + EventsAt(off, i)]
<1>1. /\ pc = "events" /\ pc \in Guarded /\ pc' = "offset" /\ UNCHANGED <<guestVars, parse, fd>>
      /\ UNCHANGED <<kernel, up, events>>
  BY DEF ReadEvents, At, Go, Guarded, guestVars
<1>2. /\ fd \in Boots /\ \A r \in parse.regions : r.boot = fd /\ r.idx \in Regions
      /\ NrCpus \in Nat /\ up[fd] \in 0 .. NrCpus /\ events[fd] \in Counters /\ kernel \in Kernels
  BY <1>1, OpenMemory
<1>3. BeforeInv /\ SumsInv /\ c < dump.probed
  BY <1>1 DEF SampleInv, DumpInv, Reading, Summing
<1> DEFINE Sums == {<<>>} \cup [1 .. NEvent -> Nat]
<1>4. dump \in [probed : Nat, cpu : Nat, sums : Sums, ok : SUBSET Cpus,
                before : [up : Nat, events : Counters]]
  BY <1>3 DEF BeforeInv, DumpTypes
<1>5. /\ dump.sums \in [1 .. NEvent -> Nat] /\ dump.before.up <= dump.probed
      /\ dump.probed <= up[fd] /\ dump.ok \subseteq 0 .. c - 1
      /\ \A e \in EventIndices : Asked(e) =>
            /\ SumOver(dump.before.events, e, dump.ok) <= dump.sums[e]
            /\ dump.sums[e] <= SumOver(events[fd], e, dump.ok)
  BY <1>3 DEF SumsInv
<1>6. /\ c \in Nat /\ c + 1 <= dump.probed /\ c \in 0 .. up[fd] - 1 /\ c \in Cpus
      /\ c \notin dump.ok /\ dump.ok \in SUBSET Cpus /\ dump.before.events \in Counters
      /\ dump.ok \subseteq 0 .. c /\ c \in 0 .. c
  <2>1. c \in Nat /\ dump.probed \in Nat /\ up[fd] \in Nat /\ up[fd] <= NrCpus
    BY <1>2, <1>4
  <2>2. c + 1 <= dump.probed /\ c \in 0 .. up[fd] - 1
    BY <1>3, <1>5, <2>1
  <2>3. c \in Cpus
    BY <1>2, <2>1, <2>2, CpusFinite
  <2>4. c \notin dump.ok /\ dump.ok \subseteq 0 .. c /\ c \in 0 .. c
    BY <1>5, <2>1
  <2>5. QED
    BY <1>4, <2>1, <2>2, <2>3, <2>4
<1>7. \/ off = Nowhere /\ dump' = [dump EXCEPT !.cpu = @ + 1]
      \/ /\ off # Nowhere
         /\ dump' = [dump EXCEPT !.cpu = @ + 1, !.sums = added, !.ok = @ \cup {c}]
  <2>1. dump' = IF off = Nowhere THEN [dump EXCEPT !.cpu = @ + 1]
                ELSE [dump EXCEPT !.cpu  = @ + 1,
                                  !.sums = [i \in 1 .. NEvent |-> @[i] + EventsAt(off, i)],
                                  !.ok   = @ \cup {dump.cpu}]
    BY DEF ReadEvents
  <2> HIDE DEF off
  <2>2. [dump EXCEPT !.cpu  = @ + 1,
                     !.sums = [i \in 1 .. NEvent |-> @[i] + EventsAt(off, i)],
                     !.ok   = @ \cup {dump.cpu}]
        = [dump EXCEPT !.cpu = @ + 1, !.sums = added, !.ok = @ \cup {c}]
    OBVIOUS
  <2>3. QED
    BY <2>1, <2>2
<1>8. ASSUME NEW sums \in [1 .. NEvent -> Nat], NEW ok \in SUBSET Cpus, ok \subseteq 0 .. c,
             dump' = [dump EXCEPT !.cpu = @ + 1, !.sums = sums, !.ok = ok],
             \A e \in EventIndices : Asked(e) =>
                /\ SumOver(dump.before.events, e, ok) <= sums[e]
                /\ sums[e] <= SumOver(events[fd], e, ok)
      PROVE  SampleInv'
  <2>1. sums \in Sums
    OBVIOUS
  <2> HIDE DEF Sums, added, off, c
  <2>2. /\ dump' \in [probed : Nat, cpu : Nat, sums : Sums, ok : SUBSET Cpus,
                      before : [up : Nat, events : Counters]]
        /\ dump'.cpu = dump.cpu + 1 /\ dump'.ok = ok /\ dump'.before = dump.before
        /\ dump'.probed = dump.probed /\ dump'.sums = sums
    <3>1. dump' = [probed |-> dump.probed, cpu |-> dump.cpu + 1, sums |-> sums, ok |-> ok,
                   before |-> dump.before]
      BY <1>4, <1>8
    <3>2. /\ dump.probed \in Nat /\ dump.cpu + 1 \in Nat
          /\ dump.before \in [up : Nat, events : Counters]
      BY <1>4
    <3>3. QED
      BY <2>1, <3>1, <3>2
  <2>3. BeforeInv'
    <3>1. DumpTypes'
      BY <1>1, <2>2, LayoutSame DEF DumpTypes, Sums
    <3>2. QED
      BY <1>1, <1>3, <2>2, <3>1, LayoutSame DEF BeforeInv
  <2>4. SumsInv'
    <3>1. c + 1 = dump'.cpu /\ c = dump'.cpu - 1
      BY <1>6, <2>2 DEF c
    <3>2. ok \subseteq 0 .. dump'.cpu - 1 /\ dump'.cpu <= dump'.probed
      <4>1. dump'.cpu <= dump'.probed
        BY <1>6, <2>2, <3>1
      <4>2. QED
        BY <1>8, <3>1, <4>1
    <3>3. QED
      BY <1>1, <1>5, <1>8, <2>2, <3>2, LayoutSame DEF SumsInv
  <2>5. DumpInv'
    BY <1>1, <2>3, <2>4 DEF DumpInv
  <2>6. QED
    BY <1>1, <2>5, ReadSample DEF Guarded
<1>9. CASE off = Nowhere /\ dump' = [dump EXCEPT !.cpu = @ + 1]
  <2>1. dump' = [dump EXCEPT !.cpu = @ + 1, !.sums = dump.sums, !.ok = dump.ok]
    BY <1>4, <1>9
  <2>2. QED
    BY <1>5, <1>6, <1>8, <2>1
<1>10. CASE /\ off # Nowhere
            /\ dump' = [dump EXCEPT !.cpu = @ + 1, !.sums = added, !.ok = @ \cup {c}]
  <2>1. \A e : EventsAt(off, e) = IF e \in DOMAIN kernel.event THEN events[fd][c][e] ELSE 0
    BY <1>2, <1>6, <1>10, ReadsOwnCounters
  <2>2. \A e \in EventIndices : EventsAt(off, e) = events[fd][c][e]
    BY <2>1 DEF EventIndices
  <2>3. \A e : EventsAt(off, e) \in Nat
    BY <1>2, <1>6, <2>1 DEF Counters, EventIndices
  <2> HIDE DEF off
  <2>4. /\ added \in [1 .. NEvent -> Nat]
        /\ \A i \in 1 .. NEvent : added[i] = dump.sums[i] + EventsAt(off, i)
    <3>1. \A i \in 1 .. NEvent : dump.sums[i] + EventsAt(off, i) \in Nat
      <4> SUFFICES ASSUME NEW i \in 1 .. NEvent PROVE dump.sums[i] + EventsAt(off, i) \in Nat
        OBVIOUS
      <4>1. dump.sums[i] \in Nat
        BY <1>5
      <4>2. EventsAt(off, i) \in Nat
        BY <2>3
      <4>3. QED
        BY <4>1, <4>2
    <3>2. QED
      BY <3>1
  <2> HIDE DEF added
  <2> DEFINE ok == dump.ok \cup {c}
  <2>5. ok \in SUBSET Cpus /\ ok \subseteq 0 .. c /\ IsFiniteSet(dump.ok)
    BY <1>6, CpusFinite
  <2>6. ASSUME NEW e \in EventIndices, Asked(e)
        PROVE  /\ SumOver(dump.before.events, e, ok) <= added[e]
               /\ added[e] <= SumOver(events[fd], e, ok)
    <3>1. e \in 1 .. NEvent
      BY <1>2, <1>3, <2>6, AskedPlace DEF BeforeInv
    <3>2. added[e] = dump.sums[e] + events[fd][c][e] /\ dump.sums[e] \in Nat
      BY <1>5, <2>2, <2>4, <3>1
    <3>3. /\ Counts(dump.before.events, e, ok) /\ Counts(events[fd], e, ok)
          /\ SumOver(dump.before.events, e, dump.ok) \in Nat
          /\ SumOver(events[fd], e, dump.ok) \in Nat
      BY <1>2, <1>6, <2>5, CountersCount
    <3>4. /\ SumOver(dump.before.events, e, ok)
                = SumOver(dump.before.events, e, dump.ok) + dump.before.events[c][e]
          /\ SumOver(events[fd], e, ok) = SumOver(events[fd], e, dump.ok) + events[fd][c][e]
      BY <1>6, <2>5, <3>3, SumAdd
    <3>5. /\ dump.before.events[c][e] \in Nat /\ events[fd][c][e] \in Nat
          /\ dump.before.events[c][e] <= events[fd][c][e]
      BY <1>2, <1>3, <1>6 DEF Counters, BeforeInv
    <3>6. /\ SumOver(dump.before.events, e, dump.ok) <= dump.sums[e]
          /\ dump.sums[e] <= SumOver(events[fd], e, dump.ok)
      BY <1>5, <2>6
    <3> HIDE DEF ok
    <3>7. QED
      BY <3>2, <3>3, <3>4, <3>5, <3>6
  <2>7. dump' = [dump EXCEPT !.cpu = @ + 1, !.sums = added, !.ok = ok]
    BY <1>10
  <2> HIDE DEF ok
  <2>8. QED
    BY <1>8, <2>4, <2>5, <2>6, <2>7
<1>11. QED
  BY <1>7, <1>9, <1>10

\* SampleInv is inductive.
LEMMA NextSample == SampleInv /\ [Next]_vars => SampleInv'
<1> SUFFICES ASSUME SampleInv, [Next]_vars PROVE SampleInv'
  OBVIOUS
<1>1. CASE UNCHANGED vars
  <2>1. UNCHANGED <<guestVars, kernel, up, events, pc, parse, fd, dump, log>>
    BY <1>1 DEF vars, guestVars
  <2>2. GuestTypes' /\ LogInv'
    BY <2>1, GuestSame
  <2>3. ParseInv' /\ MemoryInv'
    BY <2>1 DEF SampleInv, ParseInv, MemoryInv
  <2>4. BeforeInv => BeforeInv'
    BY <2>1, LayoutSame DEF BeforeInv, DumpTypes
  <2>5. SumsInv => SumsInv'
    BY <2>1, LayoutSame DEF SumsInv
  <2>6. DumpInv'
    BY <2>1, <2>4, <2>5 DEF SampleInv, DumpInv
  <2>7. QED
    BY <2>2, <2>3, <2>6 DEF SampleInv
<1>2. CASE Guest
  BY <1>2, GuestSample
<1>3. CASE Inspector
  BY <1>3, SetupSample, NamesSample, ProbeSample, OffsetSample, EventsSample, LoopSample
     DEF Inspector, Sample
<1>4. CASE Interrupt \/ Kill
  BY <1>4, LoopSample
<1>5. QED
  BY <1>1, <1>2, <1>3, <1>4 DEF Next

\* The process whose regions the inspector uses, and what it has of a sample,
\* are right in every reachable state, for any guest, log and interruption.
THEOREM SamplingCorrect == Spec => []SampleInv
  BY InitSample, NextSample, PTL DEF Spec

\* The value under a name asked for is the one of its place.
LEMMA ReportedIs ==
  ASSUME kernel \in Kernels, Layout.ok, NEW e \in EventIndices, Asked(e),
         dump.sums \in [1 .. NEvent -> Nat]
  PROVE  ReportedSum(e) = dump.sums[e]
<1> DEFINE S == {i \in DOMAIN dump.sums : Layout.event[i] = kernel.event[e]}
<1>1. e \in 1 .. NEvent /\ \A i \in 1 .. NEvent : Layout.event[i] = kernel.event[e] <=> i = e
  BY LayoutTrue DEF EventIndices
<1>2. DOMAIN dump.sums = 1 .. NEvent
  OBVIOUS
<1>3. S = {e} /\ e \in Int
  BY <1>1, <1>2
<1>4. Max(S) = e
  <2>1. {e} \in SUBSET Int /\ e \in {e} /\ \A y \in {e} : e >= y
    BY <1>3
  <2>2. Max({e}) = e
    BY <2>1, MaxIs
  <2>3. QED
    BY <1>3, <2>2
<1>5. QED
  BY <1>4 DEF ReportedSum

\* A sample is true: under every name asked for it holds what the CPUs it lists
\* as read had counted when it was taken, it misses none that was up when it
\* began, and its zone and node names are the kernel's.
THEOREM SampleCorrect == Spec => []SampleIsTrue
<1>1. ASSUME SampleInv, pc = "offset", dump.cpu = dump.probed
      PROVE  /\ Layout.zone = kernel.zone /\ Layout.node = kernel.node
             /\ dump.before.up <= dump.probed
             /\ \A e \in DOMAIN kernel.event : Asked(e) =>
                  /\ Total(dump.before.events, e) <= ReportedSum(e)
                  /\ ReportedSum(e) <= Total(events[fd], e)
  <2>1. BeforeInv /\ SumsInv /\ kernel \in Kernels
    BY <1>1 DEF SampleInv, DumpInv, GuestTypes, Reading, Summing
  <2>2. Layout.ok /\ dump.sums \in [1 .. NEvent -> Nat] /\ dump.before.up <= dump.probed
    BY <2>1 DEF BeforeInv, SumsInv
  <2>3. ASSUME NEW e \in EventIndices, Asked(e)
        PROVE  /\ Total(dump.before.events, e) <= ReportedSum(e)
               /\ ReportedSum(e) <= Total(events[fd], e)
    <3>1. ReportedSum(e) = dump.sums[e]
      BY <2>1, <2>2, <2>3, ReportedIs
    <3>2. \A counts : Total(counts, e) = SumOver(counts, e, dump.ok)
      BY DEF Total, SumOver
    <3>3. /\ SumOver(dump.before.events, e, dump.ok) <= dump.sums[e]
          /\ dump.sums[e] <= SumOver(events[fd], e, dump.ok)
      BY <2>1, <2>3 DEF SumsInv
    <3>4. QED
      BY <3>1, <3>2, <3>3
  <2>4. Layout.zone = kernel.zone /\ Layout.node = kernel.node
    BY <2>1, <2>2, LayoutTrue
  <2>5. QED
    BY <2>2, <2>3, <2>4 DEF EventIndices
<1>2. SampleInv => SampleIsTrue
  BY <1>1 DEF SampleIsTrue, At
<1>3. QED
  BY <1>2, SamplingCorrect, PTL
===============================================================================
