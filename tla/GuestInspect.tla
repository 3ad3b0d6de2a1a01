----------------------------- MODULE GuestInspect -----------------------------
(***************************************************************************)
(* scripts/guest-inspect.py: it takes the pid and the memory regions of    *)
(* the last cloud-hypervisor (CH) boot from a log that sandbox-ctl is      *)
(* still appending to, then samples the running guest's counters through   *)
(* /proc/<pid>/mem and keeps the samples in a file.  CH may exit and boot  *)
(* again, CPUs come up and count, and the user interrupts, kills and       *)
(* reruns the inspector, between any two of its reads.                     *)
(*                                                                         *)
(* Addresses are small numbers with the shape of the real ones: a direct   *)
(* map and a kernel image in virtual memory; low RAM, a hole and high RAM  *)
(* in physical memory; a memfd without the hole behind both.               *)
(***************************************************************************)
EXTENDS Integers, Sequences, FiniteSets, FiniteSetsExt

CONSTANTS Boots,        \* 1 .. n: CH processes, in order; no pid is used twice
          Kernels,      \* [zone, numa, node, event, tail]: the blocks of vmstat_text
          Entries,      \* --vmstat-entries
          LowRamEnd, HighRamBase,
          PageOffset, DirectMapEnd, ImageBase,
          RegionOff, RegionSize,   \* [Regions -> Nat]: memfd_off and size of each region
          RegionPhys,   \* [Regions -> Nat]: where CH puts it in guest physical memory
          Va,           \* [Boots -> [Regions -> Nat]]: its address in each CH process
          PerCpu,       \* [Cpus -> Nat]: physical address of its vm_event_states
          Unset,        \* __per_cpu_offset of a CPU not set up yet: 0 or garbage
          Runs, MaxSamples, MaxTicks    \* bounds

Cpus    == DOMAIN PerCpu
NrCpus  == Cardinality(Cpus)
Cap     == 512          \* CPUs the script looks at, at most
Regions == DOMAIN RegionOff
NoBoot  == 0

ASSUME BootAssumption   == /\ Boots \subseteq Nat \ {NoBoot}
                           /\ {Runs, MaxSamples, MaxTicks} \subseteq Nat
ASSUME LayoutAssumption ==
    /\ {LowRamEnd, HighRamBase, PageOffset, DirectMapEnd, ImageBase, Entries, Unset} \subseteq Nat
    /\ LowRamEnd <= HighRamBase /\ 0 < PageOffset
    /\ PageOffset < DirectMapEnd /\ DirectMapEnd <= ImageBase
    /\ NrCpus \in Nat /\ 1 <= NrCpus /\ NrCpus <= Cap /\ Cpus = 0 .. NrCpus - 1
    /\ Unset \notin PageOffset .. DirectMapEnd - 1 /\ Unset < ImageBase

VARIABLES kernel,     \* the guest kernel, the same in every boot
          log,        \* lines of the sandbox-ctl log
          alive,      \* the CH process that runs
          up,         \* [Boots -> Nat]: CPUs whose per-CPU area is set up
          events,     \* vm_event_states: [Boots -> [Cpus -> [event -> Nat]]]
          ticks,
          pc, run, watch,
          parse,      \* parse_log: [pos, chPid, regions]
          fd,         \* the process whose memory is open
          dump,       \* one sample: [probed, cpu, sums, ok, before]; the last is a
                      \* ghost, the counters when it began
          snaps,      \* samples taken
          beats,      \* heartbeats printed
          tmp, out,   \* <out>.tmp and <out>: [run, samples, whole]
          reported,   \* "wrote <out> (n sample(s))": [run, samples]
          raised      \* an exception other than KeyboardInterrupt is under way

guestVars == <<kernel, log, alive, up, events, ticks>>
userVars  == <<run, watch, raised>>
countVars == <<snaps, beats>>
fileVars  == <<tmp, out, reported>>
vars == <<guestVars, pc, parse, fd, dump, countVars, userVars, fileVars>>

Document(r, n, w) == [run |-> r, samples |-> n, whole |-> w]
NoDocument        == Document(0, 0, TRUE)
NoReport          == [run |-> 0, samples |-> 0]
NoParse           == [pos |-> 1, chPid |-> NoBoot, regions |-> {}]
NoDump            == [probed |-> 0, cpu |-> 0, sums |-> <<>>, ok |-> {},
                      before |-> [up |-> 0, events |-> <<>>]]

Init ==
    /\ kernel \in Kernels
    /\ log = <<>> /\ alive = NoBoot /\ ticks = 0
    /\ up = [b \in Boots |-> 0]
    /\ events = [b \in Boots |-> [c \in Cpus |-> [e \in DOMAIN kernel.event |-> 0]]]
    /\ pc = "idle" /\ run = 0 /\ watch = FALSE /\ raised = FALSE
    /\ parse = NoParse /\ fd = NoBoot /\ dump = NoDump
    /\ snaps = 0 /\ beats = 0
    /\ tmp = NoDocument /\ out = NoDocument /\ reported = NoReport

-----------------------------------------------------------------------------
(* The guest, CH and its log                                               *)

Lines(b) == {log[i] : i \in {j \in DOMAIN log : log[j].boot = b}}

\* sandbox-ctl starts CH and logs its pid.
Boot ==
    /\ alive = NoBoot
    /\ \E b \in Boots :
         /\ \A c \in Boots : Lines(c) # {} <=> c < b
         /\ alive' = b
         /\ log' = Append(log, [kind |-> "ch", boot |-> b, idx |-> 0])
    /\ UNCHANGED <<kernel, up, events, ticks>>

\* CH's regions are accepted in order.
AcceptRegion ==
    /\ alive # NoBoot
    /\ \E i \in Regions :
         /\ i = Cardinality(Lines(alive))
         /\ log' = Append(log, [kind |-> "va", boot |-> alive, idx |-> i])
    /\ UNCHANGED <<kernel, alive, up, events, ticks>>

\* The guest runs on memory that is mapped.
CpuUp ==
    /\ alive # NoBoot /\ up[alive] < NrCpus
    /\ Cardinality(Lines(alive)) = 1 + Cardinality(Regions)
    /\ up' = [up EXCEPT ![alive] = @ + 1]
    /\ UNCHANGED <<kernel, log, alive, events, ticks>>

Count ==
    /\ alive # NoBoot /\ ticks < MaxTicks
    /\ \E c \in Cpus, e \in DOMAIN kernel.event :
         /\ c < up[alive]
         /\ events' = [events EXCEPT ![alive][c][e] = @ + 1]
    /\ ticks' = ticks + 1
    /\ UNCHANGED <<kernel, log, alive, up>>

Exit ==
    /\ alive # NoBoot /\ alive' = NoBoot
    /\ UNCHANGED <<kernel, log, up, events, ticks>>

Guest == /\ Boot \/ AcceptRegion \/ CpuUp \/ Count \/ Exit
         /\ UNCHANGED <<pc, parse, fd, dump, countVars, userVars, fileVars>>

-----------------------------------------------------------------------------
(* Memory: virt -> guest phys -> memfd offset -> CH process VA -> pread    *)

Nowhere == -1

PhysToMemfdOff(phys) ==
    IF phys < LowRamEnd THEN phys
    ELSE IF phys >= HighRamBase THEN phys - HighRamBase + LowRamEnd ELSE Nowhere

\* The addresses of region i, from what start gives it.
Span(start, i) == start[i] .. start[i] + RegionSize[i] - 1

\* Regions lie apart, in the memfd and in each CH process; guest RAM has the
\* hole the script knows of; every CPU has an area of its own in it.
ASSUME RegionAssumption ==
    /\ {RegionOff, RegionSize, RegionPhys} \subseteq [Regions -> Nat]
    /\ Va \in [Boots -> [Regions -> Nat]]
    /\ \A i, j \in Regions : i # j => /\ Span(RegionOff, i) \cap Span(RegionOff, j) = {}
                                    /\ \A b \in Boots : Span(Va[b], i) \cap Span(Va[b], j) = {}
    /\ \A i \in Regions : \A phys \in Span(RegionPhys, i) :
          PhysToMemfdOff(phys) = RegionOff[i] + (phys - RegionPhys[i])
    /\ PerCpu \in [Cpus -> Nat] /\ IsInjective(PerCpu)
    /\ \A c \in Cpus : /\ PageOffset + PerCpu[c] < DirectMapEnd
                      /\ \E i \in Regions : PerCpu[c] \in Span(RegionPhys, i)

\* regions are those parsed: each holds offsets of the memfd.
MemfdOffToChVa(off) ==
    LET holding == {r \in parse.regions : off \in Span(RegionOff, r.idx)}
    IN  IF holding = {} THEN Nowhere
        ELSE LET r == CHOOSE r \in holding : TRUE
             IN  Va[r.boot][r.idx] + (off - RegionOff[r.idx])

VirtToChVa(virt) ==
    IF virt >= ImageBase THEN MemfdOffToChVa(PhysToMemfdOff(virt - ImageBase))
    ELSE IF virt \in PageOffset .. DirectMapEnd - 1
         THEN MemfdOffToChVa(PhysToMemfdOff(virt - PageOffset)) ELSE Nowhere

\* The offset of its memfd that CH process b has mapped at va.
Mapped(b, va) ==
    LET at == {i \in Regions : va \in Span(Va[b], i)}
    IN  IF at = {} THEN Nowhere
        ELSE LET i == CHOOSE i \in at : TRUE IN RegionOff[i] + (va - Va[b][i])

\* What pread of virt reads.  The memory of a process that has exited reads as
\* end of file, which nobody can unpack; an unmapped address is an error.
Pread(virt) == IF fd = alive THEN Mapped(fd, VirtToChVa(virt)) ELSE Nowhere

\* The symbols of vmlinux are in the image, at physical address 0.
ImageReadable == Pread(ImageBase) = 0

\* __per_cpu_offset, plus the symbol vm_event_states.
PerCpuOffset(c) == IF c < up[fd] THEN PageOffset + PerCpu[c] ELSE Unset

\* The event counters found at an offset of the memfd: those of the CPU that
\* has its area there, or other memory.
EventsAt(off, e) ==
    LET owner == {c \in 0 .. up[fd] - 1 : \E i \in Regions :
                      /\ off \in Span(RegionOff, i)
                      /\ PerCpu[c] = RegionPhys[i] + (off - RegionOff[i])}
    IN  IF owner # {} /\ e \in DOMAIN kernel.event
        THEN events[fd][CHOOSE c \in owner : TRUE][e] ELSE 0

-----------------------------------------------------------------------------
(* label_layout                                                            *)

Null      == "NULL"
Writeback == <<"nr_dirty_threshold", "nr_dirty_background_threshold">>
\* The names that begin with numa_, as far as they stand before the events.
IsNuma(n) == n \in {"numa_hit", "numa_miss", "numa_foreign", "numa_interleave",
                    "numa_local", "numa_other"}

\* vmstat_text, and what follows it in the image.
BeforeEvents(k) == k.zone \o k.numa \o k.node \o Writeback
VmstatText(k)   == BeforeEvents(k) \o k.event \o k.tail

\* The names the markers stand for: numa_* are those of the NUMA block, the
\* node block begins with nr_inactive_anon, and no name of an event follows the
\* table in the image.
ASSUME KernelAssumption ==
    /\ Kernels \subseteq [zone : Seq(STRING), numa : Seq(STRING), node : Seq(STRING),
                          event : Seq(STRING), tail : Seq(STRING)]
    /\ \A k \in Kernels :
         /\ \A n \in Range(k.zone) \cup Range(k.node) : n \notin {Null, Writeback[1]} /\ ~IsNuma(n)
         /\ \A n \in Range(k.numa) : IsNuma(n)
         /\ "nr_inactive_anon" \notin Range(k.zone)
         /\ k.node # <<>> /\ k.node[1] = "nr_inactive_anon"
         /\ Null \notin Range(k.event) /\ IsInjective(k.event)
         /\ Range(k.event) \cap Range(k.tail) = {}

\* The table is read up to --vmstat-entries; trailing null pointers are trimmed.
Names ==
    LET text  == VmstatText(kernel)
        read  == SubSeq(text, 1, Min({Entries, Len(text)}))
        named == {i \in DOMAIN read : read[i] # Null}
    IN  SubSeq(read, 1, IF named = {} THEN 0 ELSE Max(named))

First(S) == IF S = {} THEN 0 ELSE Min(S)

\* The four blocks of names, found by their markers.
LabelLayout(names) ==
    LET wb   == First({i \in DOMAIN names : names[i] = Writeback[1]})
        numa == {i \in 1 .. wb - 1 : IsNuma(names[i])}
        anon == First({i \in 1 .. wb - 1 : names[i] = "nr_inactive_anon"})
    IN  [ok    |-> /\ wb # 0 /\ (numa # {} \/ anon # 0)
                   /\ \A i \in 1 .. wb - 1 : names[i] # Null,
         zone  |-> SubSeq(names, 1, (IF numa # {} THEN Min(numa) ELSE anon) - 1),
         node  |-> SubSeq(names, IF numa # {} THEN Max(numa) + 1 ELSE anon, wb - 1),
         event |-> SubSeq(names, wb + 2, Len(names))]

Layout == LabelLayout(Names)
NEvent == Len(Layout.event)

-----------------------------------------------------------------------------
(* main: parse_log, load_syms, open                                        *)

At(l) == pc = l
Go(l) == pc' = l

\* The process ends, and its memory with it.
End == /\ Go("idle") /\ parse' = NoParse /\ fd' = NoBoot /\ dump' = NoDump
       /\ watch' = FALSE /\ raised' = FALSE /\ run' = run

\* A read that fails raises: dump is left for finally.
Raise == /\ Go("finally") /\ raised' = TRUE /\ dump' = NoDump
         /\ UNCHANGED <<run, watch>>

Start ==
    /\ At("idle") /\ run < Runs
    /\ run' = run + 1 /\ watch' \in BOOLEAN
    /\ snaps' = 0 /\ beats' = 0 /\ Go("parse")
    /\ UNCHANGED <<guestVars, parse, fd, dump, raised, fileVars>>

\* Faulty variant: the regions of earlier boots are kept.
ParsedKeeps(line) ==
    IF line.kind = "ch" THEN [parse EXCEPT !.pos = @ + 1, !.chPid = line.boot]
    ELSE [parse EXCEPT !.pos = @ + 1, !.regions = @ \cup {[boot |-> line.boot, idx |-> line.idx]}]

\* What one line of the log adds to chPid and regions.
Parsed(line) ==
    IF line.kind = "ch" THEN [parse EXCEPT !.pos = @ + 1, !.chPid = line.boot, !.regions = {}]
    ELSE [parse EXCEPT !.pos = @ + 1, !.regions = @ \cup {[boot |-> line.boot, idx |-> line.idx]}]

ParseLine ==
    /\ At("parse") /\ parse.pos <= Len(log)
    /\ parse' = Parsed(log[parse.pos])
    /\ UNCHANGED <<guestVars, pc, fd, dump, countVars, userVars, fileVars>>

\* End of file: a pid and two regions must have been found.
ParseEnd ==
    /\ At("parse") /\ parse.pos > Len(log)
    /\ IF parse.chPid # NoBoot /\ Cardinality(parse.regions) >= 2
       THEN Go("open") /\ UNCHANGED <<parse, fd, dump, userVars>> ELSE End
    /\ UNCHANGED <<guestVars, countVars, fileVars>>

\* load_syms and open("/proc/<pid>/mem"): either fails before the try block.
Open ==
    /\ At("open")
    /\ \/ /\ alive = parse.chPid /\ fd' = alive /\ Go("names")
          /\ UNCHANGED <<parse, dump, userVars>>
       \/ End
    /\ UNCHANGED <<guestVars, countVars, fileVars>>

-----------------------------------------------------------------------------
(* dump, one read after the other                                          *)

ReadNames ==
    /\ At("names")
    /\ IF ImageReadable /\ Layout.ok
       THEN /\ Go("probe") /\ UNCHANGED userVars
            /\ dump' = [NoDump EXCEPT !.before = [up |-> up[fd], events |-> events[fd]]]
       ELSE Raise
    /\ UNCHANGED <<guestVars, parse, fd, countVars, fileVars>>

\* nr_cpu_ids, capped.
Limit == Min({Cap, Max({NrCpus, 1})})

\* The CPUs before the first slot that holds no pointer.
DiscoverNrCpus(limit) ==
    Cardinality({c \in 0 .. limit - 1 : \A d \in 0 .. c :
        LET v == PerCpuOffset(d)
        IN  v # 0 /\ (v \in PageOffset .. DirectMapEnd - 1 \/ v >= ImageBase)})

Probe ==
    /\ At("probe")
    /\ IF ImageReadable
       THEN /\ Go("offset") /\ UNCHANGED userVars
            /\ dump' = [dump EXCEPT !.probed = DiscoverNrCpus(Limit),
                                    !.sums = [i \in 1 .. NEvent |-> 0]]
       ELSE Raise
    /\ UNCHANGED <<guestVars, parse, fd, countVars, fileVars>>

\* The CPU's offset is read outside the inner try block.
ReadOffset ==
    /\ At("offset") /\ dump.cpu < dump.probed
    /\ IF ImageReadable THEN Go("events") /\ UNCHANGED <<dump, userVars>> ELSE Raise
    /\ UNCHANGED <<guestVars, parse, fd, countVars, fileVars>>

\* A CPU whose counters cannot be read is reported as skipped.  They lie in one
\* region, so one pread gives all of them or none, and adding them is local.
ReadEvents ==
    LET off == Pread(PerCpuOffset(dump.cpu)) IN
    /\ At("events") /\ Go("offset")
    /\ dump' = IF off = Nowhere THEN [dump EXCEPT !.cpu = @ + 1]
               ELSE [dump EXCEPT !.cpu  = @ + 1,
                                 !.sums = [i \in 1 .. NEvent |-> @[i] + EventsAt(off, i)],
                                 !.ok   = @ \cup {dump.cpu}]
    /\ UNCHANGED <<guestVars, parse, fd, countVars, userVars, fileVars>>

\* Faulty variant: a watch leaves the samples to the last flush.
TakeUnflushed ==
    /\ At("offset") /\ dump.cpu = dump.probed /\ Go(IF watch THEN "beat" ELSE "flush")
    /\ snaps' = snaps + 1 /\ dump' = NoDump
    /\ UNCHANGED <<guestVars, parse, fd, beats, userVars, fileVars>>

\* dump returns: snaps.append(s)
Take ==
    /\ At("offset") /\ dump.cpu = dump.probed /\ Go("flush")
    /\ snaps' = snaps + 1 /\ dump' = NoDump
    /\ UNCHANGED <<guestVars, parse, fd, beats, userVars, fileVars>>

-----------------------------------------------------------------------------
(* flush, heartbeat and the end of main                                    *)

fileStep == <<guestVars, parse, fd, dump, countVars>>

\* open(tmp, "w") truncates what an earlier run left.
OpenTmp(from, to) ==
    /\ At(from) /\ Go(to)
    /\ tmp' = Document(run, 0, FALSE)
    /\ UNCHANGED <<fileStep, userVars, out, reported>>

\* snaps[0] of no samples raises; the empty .tmp stays.
WriteTmp(from, to) ==
    /\ At(from)
    /\ IF watch \/ snaps > 0
       THEN tmp' = Document(run, snaps, TRUE) /\ Go(to) /\ UNCHANGED <<parse, fd, dump, userVars>>
       ELSE UNCHANGED tmp /\ End
    /\ UNCHANGED <<guestVars, countVars, out, reported>>

Replace(from, to) ==
    /\ At(from) /\ Go(to)
    /\ out' = tmp /\ tmp' = NoDocument
    /\ UNCHANGED <<fileStep, userVars, reported>>

\* The watch prints a heartbeat, sleeps and samples again.
Heartbeat ==
    /\ At("beat") /\ snaps < MaxSamples /\ Go("names")
    /\ beats' = beats + 1
    /\ UNCHANGED <<guestVars, parse, fd, dump, snaps, userVars, fileVars>>

\* Faulty variant: what was sampled last is not flushed.
FinallyCloseOnly ==
    /\ At("finally") /\ Go("report") /\ fd' = NoBoot
    /\ UNCHANGED <<guestVars, parse, dump, countVars, userVars, fileVars>>

Finally ==
    /\ At("finally") /\ Go("lastFlush") /\ fd' = NoBoot
    /\ UNCHANGED <<guestVars, parse, dump, countVars, userVars, fileVars>>

\* "wrote <out> (n sample(s))", unless the exception goes on.
EndReport ==
    /\ At("report") /\ End
    /\ reported' = IF raised THEN reported ELSE [run |-> run, samples |-> snaps]
    /\ UNCHANGED <<guestVars, countVars, tmp, out>>

Guarded == {"names", "probe", "offset", "events", "flush", "write", "replace", "beat"}
Ending  == {"finally", "lastFlush", "lastWrite", "lastReplace", "report"}
Steps   == {"idle", "parse", "open"} \cup Guarded \cup Ending

AfterFlush == IF watch THEN "beat" ELSE "finally"
Flush      == OpenTmp("flush", "write") \/ WriteTmp("write", "replace") \/ Replace("replace", AfterFlush)
LastFlush  == \/ OpenTmp("lastFlush", "lastWrite") \/ WriteTmp("lastWrite", "lastReplace")
              \/ Replace("lastReplace", "report")
Sample     == ReadNames \/ Probe \/ ReadOffset \/ ReadEvents \/ Take
Inspector  == \/ Start \/ ParseLine \/ ParseEnd \/ Open \/ Sample
              \/ Flush \/ Heartbeat \/ Finally \/ LastFlush \/ EndReport

\* Ctrl-C ends the loop through finally, and the program anywhere else.
Interrupt ==
    /\ ~At("idle")
    /\ IF pc \in Guarded
       THEN Go("finally") /\ dump' = NoDump /\ UNCHANGED <<parse, fd, userVars>>
       ELSE End
    /\ UNCHANGED <<guestVars, countVars, fileVars>>

Kill == /\ ~At("idle") /\ End
        /\ UNCHANGED <<guestVars, countVars, fileVars>>

Next == Guest \/ Inspector \/ Interrupt \/ Kill

Spec == Init /\ [][Next]_vars

-----------------------------------------------------------------------------
(***************************************************************************)
(* Properties                                                              *)
(***************************************************************************)
\* "Incremental: survives crash": a sample announced by a heartbeat is in the
\* output of its run and stays there, however the run is interrupted or killed,
\* until a later run announces samples of its own in that output; and a reader
\* never sees a half-written file.
HeartbeatIsDurable == /\ out.whole
                      /\ beats > 0 => out.run = run /\ out.samples >= beats

\* A run that says it wrote n samples left exactly these n in the output.
ReportMatchesFile ==
    reported.run = run /\ run > 0 => out = Document(run, reported.samples, TRUE)

Total(counts, e) == MapThenSumSet(LAMBDA c : counts[c][e], dump.ok)

\* The value the sample gives for the event of the kernel's e-th name.
ReportedSum(e) == dump.sums[Max({i \in DOMAIN dump.sums : Layout.event[i] = kernel.event[e]})]

\* --vmstat-entries is enough for the name of the e-th event.
Asked(e) == Len(BeforeEvents(kernel)) + e <= Entries

\* A sample is true: under every name asked for it holds what the CPUs it lists
\* as read had counted, no less than when it began and no more than when it
\* ended; it misses no CPU that was up; and the blocks of zone and node names are the
\* kernel's.  Neither the log's earlier boots, nor the hole in guest memory,
\* nor CPUs not yet set up, nor a CH that exits meanwhile, mix into it.
SampleIsTrue ==
    At("offset") /\ dump.cpu = dump.probed =>
        /\ Layout.zone = kernel.zone /\ Layout.node = kernel.node
        /\ dump.before.up <= dump.probed
        /\ \A e \in DOMAIN kernel.event : Asked(e) =>
             /\ Total(dump.before.events, e) <= ReportedSum(e)
             /\ ReportedSum(e) <= Total(events[fd], e)
===============================================================================
