-------------------------- MODULE Supervisor_proofs --------------------------
(***************************************************************************)
(* Proofs about Supervisor, for any number of processes, however they fork *)
(* and end.                                                                *)
(***************************************************************************)
EXTENDS Supervisor, TLAPS

\* What the list was read with still holds: its processes that were children
\* of the supervisor are, and exist.
ListedStay ==
    pc \in {"scan", "signal"} =>
        \A p \in direct : parent[p] = Self /\ state[p] \in {"run", "zombie"}

SInv == TypeOK /\ ListedStay

\* An exited process is forgotten, and nothing else changes.
LEMMA ReapedTyped ==
    ASSUME NEW p \in Procs, TypeOK, Reaped(p)
    PROVE  /\ state' \in [Procs -> {"new", "run", "zombie", "gone"}]
           /\ parent' \in [Procs -> Procs \cup {Self, Init1}]
           /\ \A q \in Procs \ {p} : state'[q] = state[q] /\ parent'[q] = parent[q]
  BY DEF Reaped, TypeOK

\* The command's status is known when it has been waited for.
LEMMA PollChildTyped ==
    ASSUME TypeOK, PollChild
    PROVE  /\ state' \in [Procs -> {"new", "run", "zombie", "gone"}]
           /\ parent' \in [Procs -> Procs \cup {Self, Init1}]
           /\ status' \in {"none", "ok", "failed"}
           /\ Exited => status' # "none"
  BY ReapedTyped, CommandAssumption DEF PollChild, TypeOK

\* The initial states have the types, and nothing is listed.
LEMMA InitHolds == Init => SInv
  BY DEF Init, SInv, TypeOK, ListedStay

\* A step of the supervisor.
LEMMA StepTyped == SInv /\ Step => TypeOK'
<1> SUFFICES ASSUME SInv, Step PROVE TypeOK'
  OBVIOUS
<1>0. TypeOK
  BY DEF SInv
<1> USE <1>0 DEF TypeOK, Goto, Scan
<1>1. CASE Prctl
  BY <1>1 DEF Prctl, AfterSetup, procs
<1>2. CASE CheckParent
  BY <1>2 DEF CheckParent, AfterSetup, procs
<1>3. CASE Spawn
  BY <1>3, CommandAssumption DEF Spawn, procs
<1>4. CASE Poll
  BY <1>4, PollChildTyped DEF Poll
<1>5. CASE Decide
  BY <1>5 DEF Decide, Outcome, procs
<1>6. CASE Signalled
  BY <1>6, PollChildTyped DEF Signalled
<1>7. CASE NothingToReap
  BY <1>7 DEF NothingToReap, Again, procs
<1>8. CASE Final
  BY <1>8 DEF Final
<1>9. CASE \E q \in Procs \cup {Self} : ReadChildren(q)
  BY <1>9 DEF ReadChildren, ChildrenOf, procs
<1>10. ASSUME NEW p \in Procs, Signal(p) PROVE TypeOK'
  BY <1>10 DEF Signal
<1>11. ASSUME NEW p \in Procs, ReapOne(p) PROVE TypeOK'
  BY <1>11, ReapedTyped DEF ReapOne, super
<1> QED
  BY <1>1, <1>2, <1>3, <1>4, <1>5, <1>6, <1>7, <1>8, <1>9, <1>10, <1>11 DEF Step

\* A step of the processes, of those who signal the supervisor, or of time.
LEMMA OthersTyped ==
    ASSUME SInv,
           PrctlFails \/ Stop \/ ShellEnds \/ Expire
             \/ \E p \in Procs : Ends(p) \/ \E q \in Procs : Fork(p, q) \/ WaitsFor(p, q)
    PROVE  TypeOK'
<1>0. TypeOK
  BY DEF SInv
<1> USE <1>0 DEF TypeOK, procs
<1>1. CASE PrctlFails
  BY <1>1 DEF PrctlFails, Goto
<1>2. CASE Stop
  BY <1>2 DEF Stop
<1>3. CASE ShellEnds
  BY <1>3 DEF ShellEnds
<1>4. CASE Expire
  BY <1>4 DEF Expire, super
<1>5. ASSUME NEW p \in Procs, Ends(p) PROVE TypeOK'
  BY <1>5 DEF Ends, Remains, Adopter, super
<1>6. ASSUME NEW p \in Procs, NEW q \in Procs, Fork(p, q) PROVE TypeOK'
  BY <1>6 DEF Fork, super
<1>7. ASSUME NEW p \in Procs, NEW q \in Procs, WaitsFor(p, q) PROVE TypeOK'
  BY <1>7, ReapedTyped DEF WaitsFor, super
<1> QED
  BY <1>1, <1>2, <1>3, <1>4, <1>5, <1>6, <1>7

\* The supervisor waits for nobody while it reads and signals.
LEMMA StepKeeps == SInv /\ Step => ListedStay'
<1> SUFFICES ASSUME SInv, Step PROVE ListedStay'
  OBVIOUS
<1> USE DEF SInv, ListedStay, Goto, Scan
<1>1. CASE Prctl \/ CheckParent
  BY <1>1 DEF Prctl, CheckParent, AfterSetup
<1>2. CASE Spawn \/ Decide
  BY <1>2 DEF Spawn, Decide
<1>3. CASE Poll
  BY <1>3 DEF Poll
<1>4. CASE Signalled \/ Final
  BY <1>4 DEF Signalled, Final
<1>5. CASE NothingToReap
  BY <1>5 DEF NothingToReap, Again
<1>6. ASSUME NEW q \in Procs \cup {Self}, ReadChildren(q) PROVE ListedStay'
  BY <1>6 DEF ReadChildren, ChildrenOf, procs
<1>7. ASSUME NEW p \in Procs, Signal(p) PROVE ListedStay'
  BY <1>7 DEF Signal
<1>8. ASSUME NEW p \in Procs, ReapOne(p) PROVE ListedStay'
  BY <1>8 DEF ReapOne, super
<1> QED
  BY <1>1, <1>2, <1>3, <1>4, <1>5, <1>6, <1>7, <1>8 DEF Step

\* And a process is waited for by its parent alone.
LEMMA OthersKeep ==
    ASSUME SInv,
           PrctlFails \/ Stop \/ ShellEnds \/ Expire
             \/ \E p \in Procs : Ends(p) \/ \E q \in Procs : Fork(p, q) \/ WaitsFor(p, q)
    PROVE  ListedStay'
<1> USE DEF SInv, ListedStay, procs
<1>1. CASE PrctlFails \/ Stop \/ ShellEnds \/ Expire
  BY <1>1 DEF PrctlFails, Stop, ShellEnds, Expire, Goto, super
<1>2. ASSUME NEW p \in Procs, Ends(p) PROVE ListedStay'
  BY <1>2, CommandAssumption DEF Ends, Remains, ChildrenOf, super, TypeOK
<1>3. ASSUME NEW p \in Procs, NEW q \in Procs, Fork(p, q) PROVE ListedStay'
  BY <1>3 DEF Fork, super, TypeOK
<1>4. ASSUME NEW p \in Procs, NEW q \in Procs, WaitsFor(p, q) PROVE ListedStay'
  <2>1. parent[q] # Self
    BY <1>4, CommandAssumption DEF WaitsFor, ChildrenOf
  <2> QED
    BY <1>4, <2>1, ReapedTyped DEF WaitsFor, super, TypeOK
<1> QED
  BY <1>1, <1>2, <1>3, <1>4

\* SInv holds in every reachable state.
LEMMA SupervisorInductive == Spec => []SInv
<1>1. SInv /\ [Next]_vars => SInv'
  <2> SUFFICES ASSUME SInv, [Next]_vars PROVE SInv'
    OBVIOUS
  <2>1. CASE Step
    BY <2>1, StepTyped, StepKeeps DEF SInv
  <2>2. CASE PrctlFails \/ Stop \/ ShellEnds \/ Expire
               \/ \E p \in Procs : Ends(p) \/ \E q \in Procs : Fork(p, q) \/ WaitsFor(p, q)
    BY <2>2, OthersTyped, OthersKeep DEF SInv
  <2>3. CASE UNCHANGED vars
    BY <2>3 DEF vars, super, procs, SInv, TypeOK, ListedStay
  <2> QED
    BY <2>1, <2>2, <2>3 DEF Next
<1> QED
  BY <1>1, InitHolds, PTL DEF Spec

\* TypeOK holds for any processes, however they fork and end.
THEOREM TypeCorrect == Spec => []TypeOK
  BY SupervisorInductive, PTL DEF SInv

\* A child of the supervisor that is on the list of processes to signal has
\* not been waited for, so its number belongs to it.
THEOREM NumbersCorrect == Spec => []OwnNumbersStay
<1>1. SInv => OwnNumbersStay
  BY DEF SInv, ListedStay, OwnNumbersStay
<1> QED
  BY <1>1, SupervisorInductive, PTL

-----------------------------------------------------------------------------
(***************************************************************************)
(* Nobody survives                                                         *)
(***************************************************************************)
Live == {p \in Procs : state[p] \in {"run", "zombie"}}

\* Whoever is left has a running parent, or the supervisor; no processes are
\* each other's ancestors; so all descend from the supervisor.
Adopted ==
    \A p \in Live : parent[p] = Self \/ (parent[p] \in Procs /\ state[parent[p]] = "run")
Grounded == \A S \in SUBSET Live : (\A p \in S : parent[p] \in S) => S = {}

\* The supervisor adopts before there is anybody to adopt, and stops looking
\* when nobody is left or its time is up.
Phases ==
    /\ pc \in {"subreaper", "deathsig", "ppid", "spawn"} =>
        Live = {} /\ result = "none" /\ parent[command] = Self
    /\ pc \notin {"subreaper", "exited"} => subreaper
    /\ pc = "final" /\ ~late => Live = {}
    /\ pc = "exited" /\ (result = "ok" \/ ~late) => Live = {}

TreeInv == SInv /\ Phases /\ (pc # "exited" => Adopted /\ Grounded)

\* A supervisor without children is the last: an ancestor of every process that
\* is left would be one.
LEMMA NobodyLeft ==
    ASSUME TreeInv, pc # "exited", ChildrenOf(Self) = {}
    PROVE  Live = {}
<1>1. \A p \in Live : parent[p] \in Live
  BY DEF TreeInv, Adopted, Live, ChildrenOf
<1> QED
  BY <1>1 DEF TreeInv, Grounded

\* The tree stays grounded when a process is waited for, ends or is born.
LEMMA ReapedKeeps ==
    ASSUME TypeOK, Adopted, Grounded, NEW p \in Procs, state[p] = "zombie", Reaped(p)
    PROVE  Adopted' /\ Grounded' /\ Live' \subseteq Live
<1>1. \A q \in Procs \ {p} : state'[q] = state[q] /\ parent'[q] = parent[q]
  BY ReapedTyped
<1>2. Live' = Live \ {p}
  BY <1>1 DEF Reaped, TypeOK, Live
<1>3. Adopted'
  BY <1>1, <1>2 DEF Adopted, Live
<1>4. Grounded'
  <2> SUFFICES ASSUME NEW S \in SUBSET Live', \A q \in S : parent'[q] \in S PROVE S = {}
    BY DEF Grounded
  <2> QED
    BY <1>1, <1>2 DEF Grounded, Live
<1> QED
  BY <1>2, <1>3, <1>4

\* A process that ends leaves its children to the supervisor.
LEMMA EndsKeeps ==
    ASSUME TypeOK, Adopted, Grounded, subreaper, pc # "exited", NEW p \in Procs, Ends(p)
    PROVE  Adopted' /\ Grounded' /\ Live' = Live
<1>1. /\ \A q \in Procs : state'[q] = IF q = p THEN "zombie" ELSE state[q]
      /\ \A q \in Procs : parent'[q] = IF q \in ChildrenOf(p) THEN Self ELSE parent[q]
      /\ state[p] = "run"
  BY DEF Ends, Remains, Adopter, TypeOK
<1>2. Live' = Live
  BY <1>1 DEF Live
<1>3. Adopted'
  BY <1>1, <1>2 DEF Adopted, Live, ChildrenOf
<1>4. Grounded'
  <2> SUFFICES ASSUME NEW S \in SUBSET Live', \A q \in S : parent'[q] \in S PROVE S = {}
    BY DEF Grounded
  <2>1. \A q \in S : parent'[q] = parent[q]
    BY <1>1, CommandAssumption DEF Live
  <2> QED
    BY <1>2, <2>1 DEF Grounded
<1> QED
  BY <1>2, <1>3, <1>4

\* A child has its parent above it.
LEMMA ForkKeeps ==
    ASSUME TypeOK, Adopted, Grounded, NEW p \in Procs, NEW q \in Procs, Fork(q, p)
    PROVE  Adopted' /\ Grounded'
<1>1. /\ \A r \in Procs \ {p} : state'[r] = state[r] /\ parent'[r] = parent[r]
      /\ state'[p] = "run" /\ parent'[p] = q /\ state[p] = "new" /\ state[q] = "run"
  BY DEF Fork, TypeOK
<1>2. Live' = Live \cup {p} /\ p \notin Live /\ q # p
  BY <1>1 DEF Live
<1>3. Adopted'
  BY <1>1, <1>2 DEF Adopted, Live
<1>4. Grounded'
  <2> SUFFICES ASSUME NEW S \in SUBSET Live', \A r \in S : parent'[r] \in S PROVE S = {}
    BY DEF Grounded
  <2>1. \A r \in Live : parent[r] # p
    BY <1>1, CommandAssumption DEF Adopted
  <2>2. S \ {p} = {}
    <3>1. S \ {p} \in SUBSET Live
      BY <1>2
    <3>2. \A r \in S \ {p} : parent[r] \in S \ {p}
      BY <1>1, <2>1, <3>1 DEF Live
    <3> QED
      BY <3>1, <3>2 DEF Grounded
  <2>3. p \notin S
    BY <1>1, <1>2, <2>2
  <2> QED
    BY <2>2, <2>3
<1> QED
  BY <1>3, <1>4

\* The command is born a child of the supervisor.
LEMMA SpawnKeeps == TreeInv /\ Spawn => TreeInv'
<1> SUFFICES ASSUME TreeInv, Spawn PROVE TreeInv'
  OBVIOUS
<1>1. SInv'
  BY StepTyped, StepKeeps DEF TreeInv, SInv, Step
<1>2. Live = {} /\ result = "none" /\ subreaper /\ parent[command] = Self /\ subreaper'
  BY DEF TreeInv, Phases, Spawn
<1>3. CASE pc' = "scan" /\ UNCHANGED procs
  <2>1. Live' = {}
    BY <1>2, <1>3 DEF Live, procs
  <2> QED
    BY <1>1, <1>2, <1>3, <2>1 DEF TreeInv, Phases, Adopted, Grounded
<1>4. CASE pc' = "poll" /\ state' = [state EXCEPT ![command] = "run"] /\ parent' = parent
  <2>1. Live' = {command}
    BY <1>2, <1>4, CommandAssumption DEF Live, TreeInv, SInv, TypeOK
  <2>2. Adopted'
    BY <1>2, <1>4, <2>1 DEF Adopted
  <2>3. Grounded'
    BY <1>2, <1>4, <2>1, CommandAssumption DEF Grounded
  <2> QED
    BY <1>1, <1>2, <1>4, <2>2, <2>3 DEF TreeInv, Phases
<1> QED
  BY <1>3, <1>4 DEF Spawn, Scan, Goto

\* Steps that leave the processes alone.
LEMMA SameTree ==
    ASSUME state' = state, parent' = parent
    PROVE  Live' = Live /\ Adopted' = Adopted /\ Grounded' = Grounded
                /\ ChildrenOf(Self)' = ChildrenOf(Self)
  BY DEF Live, Adopted, Grounded, ChildrenOf

\* What precedes the start of the command leaves the process tree alone.
LEMMA SetupKeeps == TreeInv /\ (Prctl \/ CheckParent) => TreeInv'
<1> SUFFICES ASSUME TreeInv, Prctl \/ CheckParent PROVE TreeInv'
  OBVIOUS
<1>1. SInv'
  BY StepTyped, StepKeeps DEF TreeInv, SInv, Step
<1>2. state' = state /\ parent' = parent
  BY DEF Prctl, CheckParent, procs
<1>3. Phases'
  BY <1>2, SameTree DEF TreeInv, Phases, Prctl, CheckParent, AfterSetup, Goto
<1> QED
  BY <1>1, <1>2, <1>3, SameTree DEF TreeInv, Prctl, CheckParent

\* The supervisor reads, signals and waits; it stops when nobody is left.
LEMMA LoopKeeps ==
    ASSUME TreeInv,
           Poll \/ Decide \/ Signalled \/ NothingToReap
             \/ (\E q \in Procs \cup {Self} : ReadChildren(q))
             \/ \E p \in Procs : Signal(p) \/ ReapOne(p)
    PROVE  TreeInv'
<1>1. SInv'
  BY StepTyped, StepKeeps DEF TreeInv, SInv, Step
<1>0. TypeOK /\ (pc # "exited" => Adopted /\ Grounded) /\ Phases
  BY DEF TreeInv, SInv
<1>2. CASE Poll \/ Signalled
  <2>1. PollChild /\ pc \in {"poll", "signal"} /\ pc' \in {"poll", "decide", "reap"}
          /\ subreaper' = subreaper
    BY <1>2 DEF Poll, Signalled, Goto
  <2>2. Adopted' /\ Grounded'
    BY <1>0, <2>1, ReapedKeeps, SameTree, CommandAssumption DEF PollChild, Exited
  <2> QED
    BY <1>0, <1>1, <2>1, <2>2 DEF TreeInv, Phases
<1>3. CASE Decide \/ \E q \in Procs \cup {Self} : ReadChildren(q)
  <2>1. pc \in {"decide", "scan"} /\ pc' \in {"scan", "signal"} /\ subreaper' = subreaper
          /\ state' = state /\ parent' = parent
    BY <1>3 DEF Decide, ReadChildren, Scan, Goto, procs
  <2> QED
    BY <1>0, <1>1, <2>1, SameTree DEF TreeInv, Phases
<1>4. CASE NothingToReap
  <2>1. /\ pc = "reap" /\ pc' \in {"scan", "final"} /\ subreaper' = subreaper
        /\ state' = state /\ parent' = parent
        /\ pc' = "final" => late' = late /\ (ChildrenOf(Self) = {} \/ late)
    BY <1>4 DEF NothingToReap, Scan, Again, Goto, procs
  <2>2. ChildrenOf(Self) = {} => Live = {}
    BY <2>1, NobodyLeft
  <2>3. Phases'
    BY <1>0, <2>1, <2>2, SameTree DEF Phases
  <2> QED
    BY <1>0, <1>1, <2>1, <2>3, SameTree DEF TreeInv
<1>5. ASSUME NEW p \in Procs, Signal(p) PROVE TreeInv'
  <2>1. pc = "signal" /\ pc' = "signal" /\ subreaper' = subreaper
          /\ state' = state /\ parent' = parent
    BY <1>5 DEF Signal
  <2> QED
    BY <1>0, <1>1, <2>1, SameTree DEF TreeInv, Phases
<1>6. ASSUME NEW p \in Procs, ReapOne(p) PROVE TreeInv'
  <2>1. pc = "reap" /\ pc' = "reap" /\ subreaper' = subreaper
          /\ Reaped(p) /\ state[p] = "zombie"
    BY <1>6 DEF ReapOne, super
  <2>2. Adopted' /\ Grounded'
    BY <1>0, <2>1, ReapedKeeps
  <2> QED
    BY <1>0, <1>1, <2>1, <2>2 DEF TreeInv, Phases
<1> QED
  BY <1>2, <1>3, <1>4, <1>5, <1>6

\* The last look decides what is reported.
LEMMA FinalKeeps == TreeInv /\ Final => TreeInv'
<1> SUFFICES ASSUME TreeInv, Final PROVE TreeInv'
  OBVIOUS
<1>1. SInv'
  BY StepTyped, StepKeeps DEF TreeInv, SInv, Step
<1>2. pc = "final" /\ pc' = "exited" /\ late' = late /\ state' = state
  BY DEF Final, Goto
<1>3. result' = "ok" => ChildrenOf(Self) = {}
  BY DEF Final
<1>4. result' = "ok" \/ ~late' => Live = {}
  BY <1>2, <1>3, NobodyLeft DEF TreeInv, Phases
<1>5. Live' = Live
  BY <1>2 DEF Live
<1> QED
  BY <1>1, <1>2, <1>4, <1>5 DEF TreeInv, Phases

\* Orphans come to the supervisor until it exits, and where nobody is left
\* nobody is forked.
LEMMA OthersKeepTree ==
    ASSUME TreeInv,
           PrctlFails \/ Stop \/ ShellEnds \/ Expire
             \/ \E p \in Procs : Ends(p) \/ \E q \in Procs : Fork(p, q) \/ WaitsFor(p, q)
    PROVE  TreeInv'
<1>1. SInv'
  BY OthersTyped, OthersKeep DEF TreeInv, SInv
<1>0. TypeOK /\ (pc # "exited" => Adopted /\ Grounded) /\ Phases
  BY DEF TreeInv, SInv
<1>2. CASE PrctlFails
  <2>1. state' = state /\ parent' = parent /\ pc' = "exited" /\ Live = {}
    BY <1>0, <1>2 DEF PrctlFails, Goto, procs, Phases
  <2> QED
    BY <1>1, <2>1, SameTree DEF TreeInv, Phases
<1>3. CASE Stop \/ ShellEnds \/ Expire
  <2>1. /\ state' = state /\ parent' = parent /\ pc' = pc /\ result' = result
        /\ subreaper' = subreaper /\ (pc \in {"final", "exited"} => late' = late)
    BY <1>3 DEF Stop, ShellEnds, Expire, procs, super
  <2>2. Phases'
    BY <1>0, <2>1, SameTree DEF Phases
  <2> QED
    BY <1>0, <1>1, <2>1, <2>2, SameTree DEF TreeInv
<1>4. ASSUME NEW p \in Procs, Ends(p) \/ \E q \in Procs : Fork(p, q) \/ WaitsFor(p, q)
      PROVE  TreeInv'
  <2>1. p \in Live /\ UNCHANGED <<super, late>>
    BY <1>4 DEF Ends, Fork, WaitsFor, Live
  <2>2. Phases'
    BY <1>0, <2>1 DEF Phases, super
  <2>3. CASE pc = "exited"
    BY <1>1, <2>1, <2>2, <2>3 DEF TreeInv, super
  <2>4. CASE pc # "exited"
    <3>1. subreaper
      BY <1>0, <2>1, <2>4 DEF Phases
    <3>2. Adopted' /\ Grounded'
      BY <1>0, <1>4, <2>4, <3>1, EndsKeeps, ForkKeeps, ReapedKeeps DEF WaitsFor
    <3> QED
      BY <1>1, <2>2, <3>2 DEF TreeInv
  <2> QED
    BY <2>3, <2>4
<1> QED
  BY <1>2, <1>3, <1>4

\* When the supervisor reports success, or has not run out of time, nothing is
\* left of the command, whatever it forked and whoever was orphaned.
THEOREM SurvivorsCorrect == Spec => []NothingSurvives
<1>1. Init => TreeInv
  <2> SUFFICES ASSUME Init PROVE TreeInv
    OBVIOUS
  <2>1. Live = {}
    BY DEF Init, Live
  <2> QED
    BY <2>1, InitHolds, CommandAssumption DEF Init, TreeInv, Phases, Adopted, Grounded
<1>2. TreeInv /\ [Next]_vars => TreeInv'
  <2> SUFFICES ASSUME TreeInv, [Next]_vars PROVE TreeInv'
    OBVIOUS
  <2>1. CASE Step
    BY <2>1, SpawnKeeps, SetupKeeps, LoopKeeps, FinalKeeps DEF Step
  <2>2. CASE PrctlFails \/ Stop \/ ShellEnds \/ Expire
               \/ \E p \in Procs : Ends(p) \/ \E q \in Procs : Fork(p, q) \/ WaitsFor(p, q)
    BY <2>2, OthersKeepTree
  <2>3. CASE UNCHANGED vars
    BY <2>3, SameTree DEF vars, super, procs, TreeInv, SInv, TypeOK, ListedStay, Phases
  <2> QED
    BY <2>1, <2>2, <2>3 DEF Next
<1>3. TreeInv => NothingSurvives
  BY DEF TreeInv, SInv, TypeOK, Phases, Live, NothingSurvives
<1> QED
  BY <1>1, <1>2, <1>3, PTL DEF Spec
=============================================================================
