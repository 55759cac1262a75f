# podtrace in TLA+

podtrace traces one Kubernetes pod with eBPF: it resolves the pod to a cgroup,
attaches small BPF programs to kernel functions, to `getaddrinfo` and to the
scheduler, reads what they report from a ring buffer, keeps the events of the
pod, and prints a diagnosis every five seconds (normal mode) or once after a
given time (diagnose mode), optionally with Prometheus metrics.

This directory holds TLA+ models of it, the TLC runs that check them on small
instances and proofs that TLAPS checks for all instances.
`PROJECT.json` lists every run, the mutant that shows each property can fail,
the source lines each definition models, the hazards of the code and the
theorems.

    tlc -workers 2 -config MCCallProbes_calls.cfg MCCallProbes     # one run
    tlapm CallProbesProofs.tla                                     # the proofs of one module

## 1. The system

Paths are relative to the repository. "Hard" says what tests hardly reach.

| Component | State | Operations | Hard | Correct means |
|---|---|---|---|---|
| **BPF call probes** `bpf/podtrace.bpf.c` | maps `start_times`, `dns_targets` (1024 entries each), ring buffer | one entry and one return program for each of 7 kernel functions and for `getaddrinfo` | one slot per thread for calls that nest; attach window; kretprobe instances; killed threads; full maps; arguments read at return | a latency is that of the call it is reported for; nothing is left behind; a target is the call's own |
| **BPF scheduling probe** same file | shares `start_times` | the `sched_switch` program | migration, switches that were missed, the shared map | the value reported has one meaning; entries do not pile up |
| **Tracer: start and stop** `internal/ebpf/tracer.go`, `loader.go`, `cmd/podtrace/main.go` | memlock limit, collection, links, reader | `NewTracer`, `attachProbes`, `Stop` | each step may fail | what was acquired is given back, in order |
| **Event reader** `tracer.go` `Start` | the record in hand, `eventChan` (100) | read, parse, name, filter, send | back pressure, two receivers, shutdown under way | nothing lost, doubled or reordered in user space; never stuck |
| **Event filter and names** `tracer.go`, `diagnose.go` | two process name caches | `isPIDInCgroup`, `getProcessNameQuick`, `getProcessName` | `/proc` is asked after the event: exec, exit, move, reuse of the pid; the container restarts | only the pod's events and all of them; stable names |
| **Main loop** `cmd/podtrace/main.go` | select loop, ticker or timer, interrupt goroutines | `runNormalMode`, `runDiagnoseMode`, `interruptChan`, `WaitForInterrupt` | a new waiter per turn, random choice, busy channel | the program ends when it should; reports keep coming |
| **Metrics exporter** `internal/metricsexporter` | gauges and histograms | `HandleEvents`, `ExportRTTMetric`, ..., `StartServer` | takes events from the report; scrape between two updates of one event; series shared by several event types | every event counted once, pages complete and true |
| **Diagnostician** `internal/diagnose` | all events, start and end time | `AddEvent`, `Finish`, `GenerateReport` with its sections, the CPU table (a share of the events), the time analysis and the issues | clock of the events against the wall clock, empty and tiny inputs, window edges, tables sorted apart, rates computed twice | sections add up; tables and issues agree with each other; percentiles, peaks and buckets agree with the events |
| **Pod resolver** `internal/kubernetes/pod.go` | none kept | `ResolvePod` (ask the API server, then walk the cgroup tree), `findCgroupPath` | restart between or after the two, ambiguous paths | the cgroup found is the container's |
| **Event formatting** `internal/events` | none | `FormatMessage`, `FormatRealtimeMessage` | - | wording only |

How they interact:

    threads of all pods                   main goroutine            exporter goroutine
      |  call, return, switch               select loop                HandleEvents
      v                                    ^     |  AddEvent              ^
    BPF programs --> ring buffer --> reader goroutine --> eventChan ------+
      start_times       drops when full   name, cgroup     blocks when full

The BPF programs run on all CPUs for **all** processes; filtering is done in user
space, from `/proc`, when the event is read. `eventChan` has **two** receivers.
Interrupts reach the main loop through a goroutine that is started anew in
every turn of the loop.

## 2. The modules

| Module | Models | Composes |
|---|---|---|
| `BpfMaps` | hash maps that fail silently when full, the ring buffer that drops silently, `get_key`, `calc_latency` (operators only) | |
| `CallProbes` | the 16 entry and return programs, the threads that run them, attaching | `BpfMaps` |
| `SchedProbe` | the `sched_switch` program on several CPUs, with call probes using the same map | `BpfMaps` |
| `Dispatch` | abstract: what the receivers of the event channel are promised | |
| `Pipeline` | ring buffer, reader goroutine, channel, exporter, main loop and shutdown; implements `Dispatch` | `Dispatch` |
| `CgroupSearch` | `findCgroupPath`: the walk of the cgroup tree (operators only) | |
| `EventFilter` | resolving the pod, process name, cgroup check and report names while processes change and the container restarts | `CgroupSearch` |
| `MainLoop` | the two select loops, timers and interrupts | |
| `Startup` | resolve, memlock, load, attach, reader, each failing, and `Stop` | |
| `Exporter` | the two updates of each event, the server, a scrape in between | |
| `Statistics` | the sections of the report, percentiles, rankings, CPU table, issues (operators only) | |
| `Windows` | timeline, bursts and patterns (operators only) | `Statistics` |
| `Diagnostician` | collecting events and making reports, with the two clocks | `Windows` |
| `CallProbesProofs`, `SchedProbeProofs`, `StartupProofs`, `PipelineProofs`, `EventFilterProofs`, `ExporterProofs`, `MainLoopProofs`, `DiagnosticianProofs` | the theorems about the module each is named after | that module, TLAPS |
| `MC*` | small instances of the above for TLC | |

### CallProbes

`stack[t]` is what thread `t` is doing: the probed functions it is in, outermost
first. `Enter` runs a function's entry program, `Return` its return program.
Which functions call which is the constant `Nests`: a `vfs_write` on a socket calls
`tcp_sendmsg`, `getaddrinfo` reads `/etc/hosts` and sends and receives.
`attached` grows one program at a time (`Attach`); a call remembers whether its
entry program ran (`probed`) and whether its return was hooked (`armed`), which the
kernel decides at entry: the return program must be attached by then and a
kretprobe instance free (`MaxActive`). A thread killed in `getaddrinfo` vanishes
without a return (`Kill`); its ids may come back.

Abstractions: one run of a BPF program is one step, because it touches only its own
thread's keys and the kernel updates each map atomically; its two readings of the
clock are one. The key is `pid * Word + tid` for `pid << 32 | tid`. Host names and
addresses are members of `Names`, `""` is no name: the text of an address, the
error code and the truncation of names are left out. `PT_REGS_PARM2` in a return
program is any address or none, since the calling convention lets the function
overwrite the register.

`mismatched` and `killed` are history variables. A thread is mismatched once it was
in a call of which only one of the two programs ran; the properties say nothing of
it from then on, because the code cannot tell: an entry without a return leaves a
start that a later, unrelated return takes for its own.

### SchedProbe

`oncpu` is what each CPU runs; `SchedSwitch` is the program's whole run, first for the
thread switched out, then for the one switched in. The call probes are reduced to what
they do to the map that is shared. `ran` and `waited` in an event are history: how long the
thread was on the CPU up to the switch, and how long off it before that.

### Pipeline

Events are numbered in the order of their production. `reader` and `pc` are the
program counters of the reader goroutine and of main; `Export` is the exporter
goroutine. `pc` passes through the three closing steps of `Stop` while the goroutines
go on. The cgroup check is a free choice here; `EventFilter` has its details. Read
errors other than "closed" are left out: the code retries them at once.

### EventFilter

`procs` is what `/proc` shows. A process may exec, move, exit and its pid be given to
another one between the event (`Emit`), the name (`ReadEvent`), the check
(`CheckCgroup`) and the report. cgroup v2 only: for v1 the code takes one line of
the file, an input of the same kind. The ways to obtain a name (cmdline, stat, comm)
are one, their common outcome being the name or none. The two caches ask in different orders
(the reader the command line first, `tracer.go:356`, the report stat and comm first,
`diagnose.go:587`) and may so give one process two names; no property compares the answers
the two give, only whether each keeps to its answers.

What is compared with is found first, in two steps as in `ResolvePod`: `GetPod` takes the
container's id from the API server, `FindCgroup` looks for it in the cgroups that exist by
then. `Restart` gives the container a new id and scope at any time and ends the
processes of the old one; nothing looks again. `FilterAssumption` says what the code
relies on without checking: the runtime names a scope after the id, no cgroup outside the
scope contains the id, and scopes do not lie in one another. A runtime that puts a
second scope with the id in its name next to the container's (CRI-O's
`crio-conmon-<id>.scope`) is outside the assumption, and there the first in the order of
the walk is taken. The comparison of the check works in both directions
(`tracer.go:126`), so processes of an **ancestor** of the scope, up to the root cgroup with
all kernel threads, pass; `ForeignDropped` speaks of the other branches of the tree only.

### Exporter

Each call on a metric is a step: `WithLabelValues` creates the series, `Observe` and `Set`
give it a value. `pending` is what is left of the Export function in progress. A scrape
reads the metrics one by one in any order between those steps. `serving` is whether
`ListenAndServe` got its port, which nobody looks at. `taken` and `before` are history.
Histograms are a count and a sum; buckets and the text of the page are left out.

### Diagnostician

The state runs in uptime, which the events carry (`bpf_ktime_get_ns`), and the wall clock
shows `boot + uptime`. `boot = 0` is the node whose wall clock counts from its boot (no
real-time clock), the only one where the two agree; the unit tests feed events that
agree, too. Events come in the order of their times. `GenerateReport` is `Finish` and the
whole report: `Report` is a record of what each section prints, kept for that one step.
The events of a section are a function from their positions among all events, as nothing
depends on their order; `Sorted` says what sorting their latencies gives, not how. The
order of a Go map and of an unstable sort is a free choice among the rankings
(`Rankings`), made anew for each table (`Usages`, `Tops`): `Reports` is the set of all
reports on the same events and period. A nanosecond of the model is a larger piece of time: `Second` is
their number in a second. The thresholds in the code (percentages, counts of rows,
events of a burst) are constants, scaled down in the run with the number of events so
that each is met, just missed and exceeded.

### MainLoop

`waiter` is the goroutine of the **newest** `interruptChan()`, `lateWaiter` stands for
older ones that have not registered yet; the other older ones only matter in that
they keep the signal from killing the process (`notified`).

### Startup

`rlimit` with the setrlimit rules: the hard limit can be raised only with
`CAP_SYS_RESOURCE`, which `scripts/setup-capabilities.sh:19` grants.

## 3. What TLC checks

Every property has a mutant: a changed definition standing next to the original in
its module (comment "Mutant of ..."), under which the run finds the property violated.
Deadlock is not checked: every model ends by itself, because the program exits or
because a bound on events, time or processes is reached.

| Run | Properties | Instance, and why it is enough |
|---|---|---|
| `calls` | `TypeOK` `OwnLatency` `InnermostOnly` `NoStrandedStart` `NamedLookupTarget` | Two threads, `getaddrinfo` that calls `vfs_read`, of two names or of none; the four programs are attached in any order between the threads' steps, and threads are killed in a lookup. ONE entry in each map, so each thread finds them full and names are left behind, one place in the ring, one kretprobe instance, so the second caller is not hooked; the clock to 1 with "slow" from 1, so fast and slow latencies occur. Names are symmetric, as they are only compared. Bound `OneMatched`: the run goes no further once both threads are mismatched, as the properties speak of neither then and never will again. |
| `slices` | `TypeOK` `SliceLatency` `EntriesOfRunning` | Two CPUs, two threads (migration, idle), two entries for up to four keys, a program attached in mid-run. |
| `flow` | `TypeOK` `Conservation` `InOrder` `ImplementsDispatch` `EveryEventMovesOn` | Six events over a ring and a channel of two with one in hand: all stages fill up and drop, in the loop, in reports and during shutdown. |
| `names` | `TypeOK` `ForeignDropped` `OneNamePerPid` `OwnKept` `ReportNameStable` | One pid, two processes one after the other, two programs, five cgroups (the container before and after a restart, one inside it, another pod's, the common parent), two container ids, three events. Different pids do not interact: caches are per pid. |
| `loops` | `TypeOK` `DiagnoseEnds` `ReportsKeepComing` | Both modes, a channel of two (empty, between, full), unbounded traffic and any number of interrupts; the state space is finite as it stands. |
| `failures` | `TypeOK` `NothingLeft` `Nested` `LimitNotLowered` | Three required probes and the optional ones, each step failing, every pair of limits below, at and above the need. |
| `metrics` | `TypeOK` `Settled` `ScrapeFresh` `ScrapeComplete` | Three events of six kinds, two pairs of which share a series and one of which has none, and a scrape that reads six metrics: every place of it between the steps of an event. |
| `diagnosis` | `TypeOK` `SectionsAddUp` `PercentilesRanked` `TopIsTop` `TablesAgree` `IssuesAgree` `BurstsAreFew` `PeakNotMissed` `BurstyIfPeaked` `TimelineWithOneClock` | Up to five of eleven kinds of event: of every section, failing or not, before, at and after the start and on the borders of windows; periods of 11, 42 and 80 with a second of 20 (less than a second, two and a part, a whole number); three pod and two kernel processes against a list of three rows and CPU tables of two and of one, so cuts and ties occur and the tables end at different places. |
| `blocked` | `BlockedLatency`, violated | as `slices`, with slices up to four long |
| `interrupt` | `CtrlCStops`, violated | as `loops` |
| `report` | `ReportComplete`, violated | as `flow` |
| `clock` | `TimelineTrue`, violated | as `diagnosis`, two events, a wall clock ahead of the uptime |

What the passing runs show, in words:

- **Nesting is safe but not complete.** One slot per thread serves calls that nest:
  the inner call overwrites the outer one's start and its return deletes it, so the
  outer call is not reported at all rather than with a wrong latency. This is exactly
  what `OwnLatency` and `InnermostOnly` say together. The price: a lookup
  inside which any probed call happened is never reported (README.md:19 of the repository promises
  DNS tracking), nor is a socket read that reached `tcp_recvmsg`.
- **Names of lookups.** With a host name given, a lookup is never shown under another
  one, even if names of dead or lost lookups are in the map (`NamedLookupTarget`). A
  lookup with a null name is not covered: it takes a name left behind (lines 497, 513, 532).
- **Targets of connections.** The address is read from the argument register at return
  (`podtrace.bpf.c:186`, `229`), which the function may have overwritten. In the model it
  is any address or none (`Targets`), and nothing is claimed about it.
- **Scheduling.** What a `SCHED_SWITCH` event reports is, for certain, the time slice **on**
  the CPU that ends with the switch (`SliceLatency`). That is not what the program, the report and the
  metrics call it: see the violation `BlockedLatency`. Its pid is a thread id, where the other
  programs report the process.
- **Pipeline.** User space loses nothing, doubles nothing and keeps the order; only a
  full ring buffer and the filter drop events. As the exporter goroutine receives
  whatever main does, a long report does not block the reader.
- **Names and cgroups.** An event of another container passes only if the pid was
  reused or the process moved meanwhile. An event whose process is in the resolved
  container, or in a cgroup inside it, is always kept (`OwnKept`), however the search
  raced with a restart: the first path that contains the id is the scope and no cgroup
  below it. After a later restart all events are dropped without a word. Names shown are
  stable, at the price of being those at the time of the first event that was read.
- **Main loop.** Diagnose mode ends and normal mode reports, under any traffic.
- **Start.** No failing step leaves a probe, a map or the reader behind, and the memlock
  limit is never lowered. The fallback for a failed setrlimit repeats the call
  that failed (the hard limit it reads was overwritten before), so it never succeeds;
  the model keeps it as the code has it.
- **Metrics.** Every event the exporter takes, but for reads, which have a type and no metric,
  is accounted for exactly once (`Settled`); a page never shows a value its series did not have
  during the scrape and never lacks a series that should be there. `Settled` leaves open which types of
  events share a series, because the code and its documents disagree. The code gives sends and
  receives one series labelled "NET", writes and fsyncs another labelled "FS", and the latency
  metrics connections only; `promexporter.go:53` lists the types
  as "write/fsync", `README.md:86` and `112` of the repository promise metrics per event type, and
  `README.md:117` calls the latency that of TCP sends and receives. A reader of a dashboard cannot
  tell a write from an fsync, and the gauge shows whichever came last.
- **Reports.** The sections add up. The two tables of processes, sorted apart, agree as far as both
  go (`TablesAgree`), and the issues, computed by a second pass over the events, agree with the
  breakdown of failed connections and with the maximum and the percentiles of the round trips
  (`IssuesAgree`); errors of sends and receives are counted in their section but never raise an issue.
  Percentiles are those of the truncated index (`PercentilesRanked`). Where a single
  clock is used no window counts an event twice, and peaks miss only what is on a
  border or in the truncated part of a second (`PeakNotMissed`); "bursty" compares the
  variance with the mean, and still no peak far above the mean is missed
  (`BurstyIfPeaked`).
- **CPU usage is not measured.** `README.md:20` and `65` of the repository promise "CPU consumption by
  process", and `cpu_profiling.go:97` prints "Idle time" in seconds. The numbers are shares of
  the **events**: a process's is its part of all events collected, whatever they cost, and the
  idle time is the part of the processes that were cut from the tables, none when all are shown. The model has it so
  (`generateCPUUsageReport`); the properties claim no more of it than that no event is in two rows
  and that the rows are the largest of their kind, as nothing in the model stands for CPU time.

The four violations are disagreements between the code and what it says of itself:

1. `BlockedLatency`: the scheduling program takes the time from switching a thread in to
   switching it out, which is how long it ran, and calls it `block_time` ("Only track blocks >
   1ms", `podtrace.bpf.c:463`); so do the report and the metrics (`README.md:64`, `123` of the
   repository).
2. `CtrlCStops`: a Ctrl+C that arrives while an event is being added or a report
   printed goes to waiters nobody listens to; the next one may do better (`main.go:116`).
3. `ReportComplete`: each event goes either to the metrics or to the report, never to
   both (`main.go:73`).
4. `TimelineTrue`: event times count from boot and are taken for wall clock times
   (`diagnose.go:661`), so all events are in the first fifth of the timeline, and in no
   window of the bursts and patterns (`710`, `746`, `821`).

### Fairness

- `Pipeline`: weak fairness of the start and of the steps of the reader and of the
  exporter goroutine. The Go scheduler runs a goroutine that can run. Nothing is assumed
  of main once it has started them: `EveryEventMovesOn` holds even if a report never ends.
- `MainLoop`: weak fairness of main's own steps, of the waiter goroutines, of the ticker
  and of the timer (the runtime fires them); strong fairness of each case of the select.
  `select` picks among the ready cases at random, so a case that is ready again and
  again is picked with probability one. Sending, receiving by the exporter and pressing
  Ctrl+C have no fairness.
- The other specifications have none and only safety properties.

## 4. What is proved

Each theorem holds for every value of the constants the module's assumptions allow, and
for behaviours of any length. No proof uses fairness.

| Module | Theorems | Assumptions on the constants |
|---|---|---|
| `CallProbesProofs` | `TypeCorrect` `OwnLatencyCorrect` `InnermostOnlyCorrect` `NoStrandedStartCorrect` `NamedLookupTargetCorrect` and, with everything attached from the start, `LoadedTypeCorrect` `LoadedCorrect` `LoadedNamedLookupTarget` | `BpfAssumption`, `CallAssumption`: types; thread and process ids are below `Word` |
| `SchedProbeProofs` | `TypeCorrect` `SliceLatencyCorrect` `EntriesOfRunningCorrect` | `BpfAssumption`, `SchedAssumption`: the same |
| `StartupProofs` | `TypeCorrect` `NothingLeftCorrect` `NestedCorrect` `LimitNotLoweredCorrect` | `StartupAssumption`: types |
| `PipelineProofs` | `TypeCorrect` `ConservationCorrect` `InOrderCorrect` `DispatchImplemented` | `PipelineAssumption`: types |
| `EventFilterProofs` | `TypeCorrect` `ForeignDroppedCorrect` `OwnKeptCorrect` `OneNamePerPidCorrect` `ReportNameStableCorrect` | `FilterAssumption`: see above |
| `ExporterProofs` | `TypeCorrect` `SettledCorrect` `ScrapeFreshCorrect` `ScrapeCompleteCorrect` | `ExporterAssumption`: types |
| `MainLoopProofs` | `TypeCorrect` | `ChanAssumption`: types |
| `DiagnosticianProofs` | `Invariant` `TypeCorrect` `SectionsCorrect` `PercentilesCorrect` `TopCorrect` `TablesCorrect` `IssuesCorrect` `BurstsCorrect` `PeakCorrect` `BurstyCorrect` `TimelineCorrect`; of the arithmetic: `BucketInRange` `BucketExact` `PercentileExists` | `DiagnosticianAssumption`, `WindowsAssumption`, `StatisticsAssumption`: types; a second has 10 nanoseconds or more, and no report comes within 5 of the start (where the code would divide by zero) |

The arguments:

- **Call probes.** The properties speak of events in the ring buffer, which says nothing of
  the slots the next events come from. The inductive invariant `IInv` adds, for each thread
  that is not mismatched: of each call in progress both programs run or neither
  (`Paired`); a filled slot holds the start of the innermost call whose entry program
  ran, inside which no probed call was made, and (unless the thread was killed in a
  lookup) there is such a call (`Owned`); no call starts in the future, so the latency is
  a true difference (`PastInv`); the events in the ring buffer tell the truth
  (`EventInv`). `get_key` is injective because ids are below `Word` (`KeyInjective`), so
  the programs of a thread cannot touch another's slot (`OtherSlots`). The delicate case
  is an update that fails because the map is full: an entry that is there can always be
  overwritten, so after an entry program the slot holds the new start or nothing at all
  (`UpdateOwn`).
- **Names of lookups.** `Owned` is not enough: `dns_targets` is not emptied by a return
  that finds no start. `Outermost` says that a lookup is not called by another probed
  function, and `OwnName` that while a lookup with a name and with its entry program run is on the
  stack, what `dns_targets` holds for its thread is that name or none.
- **Scheduling.** An entry belongs to a thread that is running and holds the time it got
  its CPU (`Timed`); no thread runs on two CPUs (`OneCpu`). That the two kinds of key
  never collide (`KeysApart`) is arithmetic on `Word`.
- **Start.** `IInv` says for each place in `runPodtrace` what is acquired there.
- **Pipeline.** `TypeInv` adds that the goroutine holds exactly one record between read
  and send (`HoldsOne`). `FlowInv`: every event produced is somewhere (`NoneLost`), a
  dropped one nowhere else (`DroppedApart`), and all stages are in order; `Counted` adds
  that the places do not overlap, by counting them. The refinement maps each step to one
  of `Dispatch` or to a stutter (`AbstractInit`, `AbstractStep`).
- **Event filter.** `FoundScope`: the search finds the container's scope itself or
  nothing. It needs that the first of a set of paths exists, by well-founded
  induction on their order, and `FilterAssumption`. `OriginInv` relates each event under way to the
  process of its pid: it is the one of the event unless the pid was reused or moved.
  `NameInv` says a cached name is one the pid has had, `ReportInv` that the report's cache
  agrees with what was shown.
- **Exporter.** `ProgressInv` reads from the steps left of an Export function which of
  its series exist; with `BeforeInv` (the scrape starts after the events it must
  show) `ScrapeComplete` becomes inductive. `ValuesInv` says what every metric holds at
  every place inside an update: the value that all events taken come to if the step of this
  metric is done, that of all but the newest if it is not (`ObservedNext`, `LatestNext`:
  what one more event changes). `Settled` is the case where nothing is left to do, with the
  series of the code as the division that is claimed to exist, and
  `ScrapeFresh` is kept because what a scrape reads is such a value. Sums are stated as a
  number of units of time, of which a new event adds its latency to those before.
- **Diagnostician.** The inductive invariant is short: a report shown is one of `Reports`
  for the events collected and the period from start to end, since a step that changes
  either shows no report. What is left are facts about `Reports`, for every collection of
  events:
  - *Counting.* Each event is in exactly one section, one process, one bucket, so what is
    counted value by value adds up to all (`CountsAddUp`). A ranking has each process once
    (`RankingIs`) and its rows are the first of it (`RowsAre`), so a row has at least
    the count of a process that was cut (`KindIs`), and no event is in two rows (`TotalIs`,
    `UsageIs`).
  - *Tables.* Two choices of the k largest of a kind may differ in the processes, but the least count
    in both is the same: otherwise one would be contained in the other less an element
    (`CutBelow`). The first rows of the list that are of a kind, and the first rows of that kind's
    table, are such choices (`KthOfKind`).
  - *Percentiles.* `SortedIs`: the k-th of the sorted latencies has k events that do not
    exceed it and fewer below; the rest is the truncation of the index.
  - *Issues.* Failed connections are counted once by code and once at all (`BreakdownIs`).
    Round trips over a limit are disjoint from those up to a percentile that is not over it, and
    with those below one that is they make up all (`PercentileOver`): the rank of the
    percentile bounds their number.
  - *Windows.* `WindowExact`: an event is strictly inside the window its time divided
    by the length says, or on a border and in none. So no event is in two windows
    (`WithinIs`, `WindowsAddUp`), from which `BurstsAreFew` and the peaks' bound by the
    average follow (`PeakIs`); `TenthsCover` counts the windows of connections, of which
    there may be eleven and the last may pass the end.
  - *Patterns.* `PeakIsBursty` is Chebyshev's inequality: the variance the code compares
    with the mean is at least what the highest window alone contributes (`SumOfSquares`).
- **Sums.** `SumFunctionOnSet` is a fold over a set in an order that is not determined.
  The first part of `DiagnosticianProofs` shows that the recursion it is defined by has one solution, and the sum
  that of adding the elements in any order (`RecursionExists`, `RecursionUnique`, `SumRemove`). The
  inductions are over the set of numbers, or of subsets, for which a fact holds
  (`NatSetInduction`, `SubsetInduction`), a set in place of the operator that the library's
  induction theorems take.

TLC finds no violation of the inductive invariants on the instances above (for `Exporter`
and `Diagnostician` with one event less). All invariants that a passing run checks are also proved, and so are the action
property and the refinement. Left to TLC: liveness (`EveryEventMovesOn`, `DiagnoseEnds`,
`ReportsKeepComing`), which is out of the prover's reach, and of course the four
violations; that the models mean the code is a matter of reading.

## 5. What is not modelled

- `NewPodResolver`'s choice of a kubeconfig, and reading the object file beyond its
  failure: no state follows from either.
- `internal/events` (`FormatMessage`, `FormatRealtimeMessage`): wording, and nothing
  calls them. Layout, wording and logging of everything else.
- cgroup v1; buckets of histograms and the text of the metrics page; read errors other
  than "closed" (retried at once, for ever); the truncation and the text of addresses,
  names and error codes.
- Code that no run of the program reaches: `generateCPUUsageFromProc`, as the CPU table
  is only made when there are events; targets of file events, which the BPF programs
  leave empty.
- Memory and run time: the `Diagnostician` keeps all events of a run.
- Build files, scripts and manifests.

## 6. Plan

What would add most, in this order:

1. `CallReports`: the abstract specification of the call probes (a call is reported with
   its own latency or not at all), refined by `CallProbes`.
2. `Probes`, call and scheduling programs over one map in full, and `Podtrace`, from the
   ring buffer to the report.
