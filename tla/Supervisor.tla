------------------------------ MODULE Supervisor ------------------------------
(***************************************************************************)
(* test/e2e/lib/process.py runs one command of the end-to-end tests and    *)
(* stops the whole process tree of it, whatever ends first: the command,   *)
(* its time limit, a signal, or the shell that asked for it.               *)
(*                                                                         *)
(* The supervisor reads the tree of processes one children file at a time  *)
(* and signals them one by one, while they fork, exit, leave orphans to be *)
(* adopted and wait for children of their own.                             *)
(***************************************************************************)
EXTENDS FiniteSets

CONSTANTS Procs,     \* every process of the command there can be: bounds forks
          command    \* the one that is started

Self == "supervisor"
Init1 == "init"      \* process 1

ASSUME CommandAssumption == command \in Procs /\ Self \notin Procs /\ Init1 \notin Procs

VARIABLES
    pc, sig,         \* where supervise is; the signal of the loop it is in
    stopped,         \* the handlers of SIGINT and SIGTERM have run
    subreaper, deathsig,  \* the two prctl settings
    status,          \* child.returncode: none, ok, failed
    result,          \* exit status: ok, failed, timeout, stopped, orphaned
    todo, found,     \* descendants: whose children are still to be read; the list
    direct,          \* those of found that were children of the supervisor
    late,            \* the deadline in force has passed
    shell,           \* the process that started the supervisor runs
    state, parent,   \* of each process: new, run, zombie, gone; its parent
    stubborn,        \* processes that ignore SIGTERM
    doomed           \* processes a signal is about to end

super == <<pc, sig, stopped, subreaper, deathsig, status, result, todo, found, direct>>
procs == <<state, parent, stubborn, doomed>>
vars  == <<super, procs, late, shell>>

ChildrenOf(q) == {p \in Procs : state[p] \in {"run", "zombie"} /\ parent[p] = q}

Init ==
    /\ pc = "subreaper" /\ sig = "TERM" /\ stopped = FALSE
    /\ subreaper = FALSE /\ deathsig = FALSE
    /\ status = "none" /\ result = "none"
    /\ todo = {} /\ found = {} /\ direct = {}
    /\ late = FALSE /\ shell = TRUE
    /\ state = [p \in Procs |-> "new"] /\ parent = [p \in Procs |-> Self]
    /\ stubborn = {} /\ doomed = {}

-----------------------------------------------------------------------------
(* The supervisor                                                          *)

Goto(l) == pc' = l

\* Faulty variant: the parent is looked at before its death is watched.
AfterSetupEarly(l) ==
    CASE l = "subreaper" -> "ppid" [] l = "ppid" -> "deathsig" [] l = "deathsig" -> "spawn"
AfterSetup(l) ==
    CASE l = "subreaper" -> "deathsig" [] l = "deathsig" -> "ppid" [] l = "ppid" -> "spawn"

\* prctl(PR_SET_CHILD_SUBREAPER) and prctl(PR_SET_PDEATHSIG, SIGTERM).
Prctl ==
    /\ \/ pc = "subreaper" /\ subreaper' = TRUE /\ UNCHANGED deathsig
       \/ pc = "deathsig" /\ deathsig' = TRUE /\ UNCHANGED subreaper
    /\ Goto(AfterSetup(pc))
    /\ UNCHANGED <<sig, stopped, status, result, todo, found, direct,
                   procs, late, shell>>

PrctlFails ==
    /\ pc \in {"subreaper", "deathsig"} /\ Goto("exited") /\ result' = "failed"
    /\ UNCHANGED <<sig, stopped, subreaper, deathsig, status, todo, found, direct,
                   procs, late, shell>>

CheckParent ==
    /\ pc = "ppid"
    /\ IF ~shell
       THEN Goto("exited") /\ result' = "orphaned"
       ELSE Goto(AfterSetup(pc)) /\ UNCHANGED result
    /\ UNCHANGED <<sig, stopped, subreaper, deathsig, status, todo, found, direct,
                   procs, late, shell>>

\* The finally clause: first SIGTERM, then SIGKILL, each with its own grace.
Scan(s) == Goto("scan") /\ sig' = s /\ todo' = {Self} /\ found' = {} /\ direct' = {}

Spawn ==
    /\ pc = "spawn"
    /\ \/ /\ stopped
          /\ Scan("TERM") /\ result' = "stopped" /\ UNCHANGED procs
       \/ /\ ~stopped                   \* Popen raises
          /\ Scan("TERM") /\ result' = "failed" /\ UNCHANGED procs
       \/ /\ ~stopped
          /\ Goto("poll") /\ state' = [state EXCEPT ![command] = "run"]
          /\ stubborn' \in {{}, {command}}
          /\ UNCHANGED <<parent, doomed, sig, todo, found, direct, result>>
    /\ UNCHANGED <<stopped, subreaper, deathsig, status, late, shell>>

Exited == state[command] = "zombie"
Reaped(p) == state' = [state EXCEPT ![p] = "gone"] /\ parent' = [parent EXCEPT ![p] = Self]

\* The command's exit status is taken when poll finds it ended.
PollChild ==
    IF Exited THEN Reaped(command) /\ status' \in {"ok", "failed"}
              ELSE UNCHANGED <<state, parent, status>>

Poll ==
    /\ pc = "poll" /\ PollChild
    /\ IF Exited \/ stopped \/ late THEN Goto("decide") ELSE UNCHANGED pc
    /\ UNCHANGED <<sig, stopped, subreaper, deathsig, result, todo, found, direct,
                   stubborn, doomed, late, shell>>

Outcome ==
    IF stopped THEN "stopped" ELSE IF status = "none" THEN "timeout" ELSE status

Decide ==
    /\ pc = "decide" /\ Scan("TERM")
    /\ result' = Outcome /\ late' = FALSE
    /\ UNCHANGED <<stopped, subreaper, deathsig, status, procs, shell>>

\* descendants: a process that has gone has no children file any more.
ReadChildren(q) ==
    /\ pc = "scan" /\ q \in todo
    /\ todo' = (todo \ {q}) \cup ChildrenOf(q)
    /\ found' = found \cup ChildrenOf(q)
    /\ direct' = IF q = Self THEN ChildrenOf(q) ELSE direct
    /\ IF todo' = {} THEN Goto("signal") ELSE UNCHANGED pc
    /\ UNCHANGED <<sig, stopped, subreaper, deathsig, status, result, procs, late, shell>>

Ending(p) == state[p] = "run" /\ (sig = "KILL" \/ p \notin stubborn)

\* os.kill: one that has gone is passed over, all others may be signalled.
Signal(p) ==
    /\ pc = "signal" /\ p \in found
    /\ found' = found \ {p} /\ direct' = direct \ {p}
    /\ doomed' = IF Ending(p) THEN doomed \cup {p} ELSE doomed
    /\ UNCHANGED <<pc, sig, stopped, subreaper, deathsig, status, result, todo, state, parent,
                   stubborn, late, shell>>

Signalled ==
    /\ pc = "signal" /\ found = {} /\ Goto("reap") /\ PollChild
    /\ UNCHANGED <<sig, stopped, subreaper, deathsig, result, todo, found, direct,
                   stubborn, doomed, late, shell>>

ReapOne(p) ==
    /\ pc = "reap" /\ p \in ChildrenOf(Self) /\ state[p] = "zombie"
    /\ Reaped(p)
    /\ UNCHANGED <<super, stubborn, doomed, late, shell>>

\* Nobody left, or out of time: the next signal; otherwise once more.
Again(s) == Scan(s)

NothingToReap ==
    /\ pc = "reap" /\ \A p \in ChildrenOf(Self) : state[p] # "zombie"
    /\ IF ChildrenOf(Self) = {} \/ late
       THEN /\ late' = IF sig = "TERM" THEN FALSE ELSE late
            /\ IF sig = "TERM" THEN Scan("KILL")
               ELSE Goto("final") /\ UNCHANGED <<sig, todo, found, direct>>
       ELSE Again(sig) /\ UNCHANGED late
    /\ UNCHANGED <<stopped, subreaper, deathsig, status, result, procs, shell>>

\* descendants(os.getpid()) is empty when the first file it reads is.
Final ==
    /\ pc = "final" /\ Goto("exited")
    /\ result' = IF ChildrenOf(Self) # {} /\ result = "ok" THEN "failed" ELSE result
    /\ parent' = [p \in Procs |-> IF p \in ChildrenOf(Self) THEN Init1 ELSE parent[p]]
    /\ UNCHANGED <<sig, stopped, subreaper, deathsig, status, todo, found, direct, state,
                   stubborn, doomed, late, shell>>

-----------------------------------------------------------------------------
(* Processes, signals and time                                             *)

\* Faulty variant: nobody adopts orphans but process 1.
AdopterOne == Init1
Adopter == IF subreaper /\ pc # "exited" THEN Self ELSE Init1

\* A process exits, or ends by a signal; its children are adopted.
\* Faulty variant: SIGCHLD is ignored, so children of the supervisor vanish.
RemainsNothing(p) == IF parent[p] = Self THEN "gone" ELSE "zombie"
Remains(p) == "zombie"
Ends(p) ==
    /\ state[p] = "run" /\ state' = [state EXCEPT ![p] = Remains(p)]
    /\ parent' = [q \in Procs |-> IF q \in ChildrenOf(p) THEN Adopter ELSE parent[q]]
    /\ doomed' = doomed \ {p} /\ stubborn' = stubborn \ {p}
    /\ UNCHANGED <<super, late, shell>>

Fork(q, p) ==
    /\ state[q] = "run" /\ q \notin doomed /\ state[p] = "new" /\ p # command
    /\ state' = [state EXCEPT ![p] = "run"] /\ parent' = [parent EXCEPT ![p] = q]
    /\ stubborn' \in {stubborn, stubborn \cup {p}}
    /\ UNCHANGED <<super, doomed, late, shell>>

WaitsFor(q, p) ==
    /\ state[q] = "run" /\ p \in ChildrenOf(q) /\ state[p] = "zombie" /\ Reaped(p)
    /\ UNCHANGED <<super, stubborn, doomed, late, shell>>

\* Somebody signals the supervisor.
Stop ==
    /\ pc # "exited" /\ ~stopped /\ stopped' = TRUE
    /\ UNCHANGED <<pc, sig, subreaper, deathsig, status, result, todo, found, direct,
                   procs, late, shell>>

\* The shell ends, and with PR_SET_PDEATHSIG the supervisor is told; one that
\* is stopping already learns nothing from it.
ShellEnds ==
    /\ shell /\ ~stopped /\ pc # "exited"
    /\ shell' = FALSE /\ stopped' = deathsig
    /\ UNCHANGED <<pc, sig, subreaper, deathsig, status, result, todo, found, direct, procs, late>>

Expire ==
    /\ ~late /\ late' = TRUE
    /\ pc \in {"poll", "scan", "signal", "reap"}
    /\ UNCHANGED <<super, procs, shell>>

Step == \/ Prctl \/ CheckParent \/ Spawn \/ Poll \/ Decide \/ Signalled \/ NothingToReap \/ Final
        \/ \E q \in Procs \cup {Self} : ReadChildren(q)
        \/ \E p \in Procs : Signal(p) \/ ReapOne(p)

Next == \/ Step \/ PrctlFails \/ Stop \/ ShellEnds \/ Expire
        \/ \E p \in Procs : Ends(p) \/ \E q \in Procs : Fork(p, q) \/ WaitsFor(p, q)

Spec == Init /\ [][Next]_vars

\* The supervisor is scheduled, a process that a signal ends does end, and
\* time passes.  That it does while SIGKILL is sent is not assumed: the loop
\* is to end by killing everybody, not by giving up.
Fairness ==
    /\ WF_vars(Step) /\ WF_vars(Expire /\ pc # "poll" /\ sig = "TERM")
    /\ \A p \in Procs : WF_vars(p \in doomed /\ Ends(p))

FairSpec == Spec /\ Fairness

-----------------------------------------------------------------------------
(***************************************************************************)
(* Properties                                                              *)
(***************************************************************************)
\* Every variable has its type, and cleanup begins with an exit status.
TypeOK ==
    /\ pc \in {"subreaper", "deathsig", "ppid", "spawn", "poll", "decide", "scan", "signal",
               "reap", "final", "exited"}
    /\ sig \in {"TERM", "KILL"}
    /\ {stopped, subreaper, deathsig, late, shell} \subseteq BOOLEAN
    /\ status \in {"none", "ok", "failed"}
    /\ result \in {"none", "ok", "failed", "timeout", "stopped", "orphaned"}
    /\ pc \in {"scan", "signal", "reap", "final", "exited"} => result # "none"
    /\ todo \subseteq Procs \cup {Self} /\ found \subseteq Procs /\ direct \subseteq Procs
    /\ state \in [Procs -> {"new", "run", "zombie", "gone"}]
    /\ parent \in [Procs -> Procs \cup {Self, Init1}]
    /\ stubborn \subseteq Procs /\ doomed \subseteq Procs

\* "Reap its entire Linux process tree on every exit": nobody is left of the
\* command when the supervisor reports success, nor on any other exit unless
\* the grace after SIGKILL ran out.
NothingSurvives ==
    pc = "exited" /\ (result = "ok" \/ ~late) =>
        \A p \in Procs : state[p] \in {"new", "gone"}

\* A process is signalled by the number the tree was read with.  Those of the
\* supervisor's own children stay taken until it has reaped them, which it
\* never does between reading and signalling.
OwnNumbersStay ==
    pc \in {"scan", "signal"} => \A p \in direct : state[p] # "gone"

\* A signal, and the end of the shell given by --parent at any time, end the
\* run, even if the command would never end.
StopEnds == stopped \/ ~shell ~> pc = "exited"

\* SIGKILL reaches processes forked behind the supervisor's back, and the
\* orphans of those it has killed: the loop ends before any deadline.
KillEnds == sig = "KILL" ~> pc = "exited"

\* Whatever calls for the end of the run, it comes.
EveryStopEnds == StopEnds /\ KillEnds
=============================================================================
