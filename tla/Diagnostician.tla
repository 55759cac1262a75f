--------------------------- MODULE Diagnostician ---------------------------
(***************************************************************************)
(* The Diagnostician (internal/diagnose/diagnose.go): it collects events   *)
(* while the program runs and now and then, every 5 seconds or once at the *)
(* end, makes a report of all of them.  One goroutine does both.           *)
(*                                                                         *)
(* Two clocks meet here.  An event carries bpf_ktime_get_ns(), the time    *)
(* since the node was booted; startTime and endTime are the wall clock.    *)
(* The state below runs in uptime; the wall clock shows boot + uptime.     *)
(***************************************************************************)
EXTENDS Windows

CONSTANTS
  Inputs,     \* events that may be collected, their timestamps in uptime
  Boots,      \* when the node may have been booted, by the wall clock
  Start,      \* the uptime at which tracing starts
  Times,      \* bound: the uptimes at which something happens later
  MaxEvents   \* bound on the events collected

EventTypes == {"DNS", "CONNECT", "TCP_SEND", "TCP_RECV", "WRITE", "READ", "FSYNC", "SCHED_SWITCH"}

(* The first report comes 5 nanoseconds after the start or later: the timeline *)
(* divides by a fifth of the period, which the code does not check.            *)
ASSUME DiagnosticianAssumption ==
  /\ \A e \in Inputs :
       /\ e.type \in EventTypes
       /\ e.timestamp \in Nat /\ e.latency \in Nat /\ e.error \in Int
  /\ Start \in Nat /\ Boots \subseteq Nat
  /\ \A t \in Times : t \in Nat /\ t >= Start + 5
  /\ MaxEvents \in Nat

VARIABLES
  boot,       \* the wall clock of the boot
  uptime,     \* the time since then
  startTime,  \* by the wall clock
  endTime,    \* by the wall clock, of the last report
  events,     \* all events collected so far
  report      \* what the last step returned, if it made a report

vars == <<boot, uptime, startTime, endTime, events, report>>

None == [total |-> 0]

Init ==
  /\ boot \in Boots
  /\ uptime = Start
  /\ startTime = boot + Start
  /\ endTime = 0
  /\ events = <<>>
  /\ report = None

Pass ==
  /\ \E t \in Times : t > uptime /\ uptime' = t
  /\ report' = None
  /\ UNCHANGED <<boot, startTime, endTime, events>>

(* Events come in the order of the ring buffer, which is that of their times up *)
(* to the skew of CPUs; the first may be older than the Diagnostician.          *)
AddEvent(e) ==
  /\ e.timestamp <= uptime
  /\ \A i \in DOMAIN events : events[i].timestamp <= e.timestamp
  /\ Len(events) < MaxEvents
  /\ events' = Append(events, e)
  /\ report' = None
  /\ UNCHANGED <<boot, uptime, startTime, endTime>>

Section(evs, Analyze(_)) == IF DOMAIN evs = {} THEN [count |-> 0] ELSE Analyze(evs)

NoTarget == {"", "?", "unknown", "file"}
Tops(counts) == {Rows(keys, TopRows) : keys \in Rankings(counts)}
(* Mutant of Usages: the table is sorted the other way. *)
UsagesAscending(counts) ==
  {generateCPUUsageReport(counts, Reverse(rankings.pods), Reverse(rankings.kernel)) :
     rankings \in [pods : Rankings(RestrictDomain(counts, LAMBDA p : ~isKernelThread(p))),
                   kernel : Rankings(RestrictDomain(counts, isKernelThread))]}
Usages(counts) ==
  {generateCPUUsageReport(counts, rankings.pods, rankings.kernel) :
     rankings \in [pods : Rankings(RestrictDomain(counts, LAMBDA p : ~isKernelThread(p))),
                   kernel : Rankings(RestrictDomain(counts, isKernelThread))]}

(* A report on those events: the sections, the CPU table, the processes, the time *)
(* analysis and the issues.                                                      *)
Report(evs, start, duration, rankings) ==
  LET dns == filterEvents(evs, "DNS")
      tcp == TcpEvents(evs)
      connects == filterEvents(evs, "CONNECT")
  IN [total |-> Len(evs),
      dns |-> Section(dns, analyzeDNS),
      tcp |-> Section(tcp, analyzeTCP),
      connect |-> Section(connects, analyzeConnections),
      fs |-> Section(FsEvents(evs), analyzeFS),
      cpu |-> Section(filterEvents(evs, "SCHED_SWITCH"), analyzeCPU),
      usage |-> rankings.usage, top |-> rankings.top, dnsTop |-> rankings.dns,
      connectTop |-> rankings.connect, fsTop |-> rankings.fs,
      processes |-> Cardinality(DOMAIN ProcessActivity(evs)),
      timeline |-> analyzeTimeline(evs, start, duration),
      bursts |-> detectBursts(evs, start, duration),
      pattern |-> Section(connects, LAMBDA c : analyzeConnectionPattern(c, start, duration)),
      io |-> Section(tcp, LAMBDA t : analyzeIOPattern(t, start, duration)),
      issues |-> detectIssues(evs)]

(* Each ranking is sorted by itself. *)
Reports(evs, start, duration) ==
  {Report(evs, start, duration, rankings) :
     rankings \in
       [usage : Usages(ProcessActivity(evs)), top : Tops(ProcessActivity(evs)),
        dns : Tops(TargetCounts(filterEvents(evs, "DNS"), {"", "?"})),
        connect : Tops(TargetCounts(filterEvents(evs, "CONNECT"), NoTarget)),
        fs : Tops(TargetCounts(FsEvents(evs), NoTarget))]}

(* Mutant of Finish: the wrong clock. *)
FinishUptime == endTime' = uptime
Finish == endTime' = boot + uptime

(* Finish and GenerateReport; time has passed since the start and the last report. *)
GenerateReport ==
  /\ boot + uptime > Max({startTime, endTime})
  /\ Finish
  /\ report' \in IF events = <<>> THEN {None} ELSE Reports(events, startTime, endTime' - startTime)
  /\ UNCHANGED <<boot, uptime, startTime, events>>

Next ==
  \/ Pass
  \/ \E e \in Inputs : AddEvent(e)
  \/ GenerateReport

Spec == Init /\ [][Next]_vars
-----------------------------------------------------------------------------
Made == report # None
Collected == DOMAIN events
Period == endTime - startTime
Seconds == Max({Period \div Second, 1})
Tenth == Max({Period \div 10, Second \div 10})
Tenths == (Period + Tenth - 1) \div Tenth

(* The types of the variables; a report is made of what it was made for. *)
TypeOK ==
  /\ boot \in Boots
  /\ uptime \in Times \cup {Start}
  /\ startTime = boot + Start
  /\ endTime \in {0} \cup {boot + t : t \in Times}
  /\ events \in Seq(Inputs) /\ Len(events) <= MaxEvents
  /\ report.total \in {0, Len(events)}

(* Each event is in one section and in one bucket of the timeline, none is in two  *)
(* rows of the CPU table (whose percentages never pass 100), and the breakdown of  *)
(* the failed connections has each of them once.                                   *)
SectionsAddUp ==
  Made =>
    /\ report.total = report.dns.count + report.tcp.count + report.connect.count
                        + report.fs.count + report.cpu.count
    /\ report.total = SumFunction(report.timeline)
    /\ report.usage.used <= report.total
    /\ report.connect.count > 0 => report.connect.errors = SumFunction(report.connect.breakdown)

(* Of a section's events more than p% of those that are not the percentile     *)
(* itself are no slower than it, and no more than p% of them are faster; the   *)
(* percentiles and the maximum come in that order.  Truncation never takes     *)
(* them further down, however few the samples.                                 *)
PercentileRight(evs, value, p) ==
  /\ Quantify(DOMAIN evs, LAMBDA i : evs[i].latency <= value) * 100 > p * (Cardinality(DOMAIN evs) - 1)
  /\ Quantify(DOMAIN evs, LAMBDA i : evs[i].latency < value) * 100 <= p * (Cardinality(DOMAIN evs) - 1)

SectionTypes ==
  [dns |-> {"DNS"}, connect |-> {"CONNECT"}, tcp |-> {"TCP_SEND", "TCP_RECV"},
   fs |-> {"WRITE", "READ", "FSYNC"}, cpu |-> {"SCHED_SWITCH"}]

PercentilesRanked ==
  Made =>
    \A s \in DOMAIN SectionTypes : report[s].count > 0 =>
      LET evs == RestrictValues(events, LAMBDA e : e.type \in SectionTypes[s])
          latency == report[s].latency
      IN /\ PercentileRight(evs, latency.p50, 50)
         /\ PercentileRight(evs, latency.p95, 95)
         /\ PercentileRight(evs, latency.p99, 99)
         /\ latency.p99 <= latency.max
         /\ latency.total <= latency.max * report[s].count

(* Nothing that a ranking leaves out has more events than what it shows. *)
EventsOf(pid) == Quantify(Collected, LAMBDA i : events[i].pid = pid)
TopIsTop ==
  Made =>
    /\ \A i \in Collected, p \in ToSet(report.top) :
         events[i].pid \in ToSet(report.top) \/ EventsOf(events[i].pid) <= EventsOf(p)
    /\ \A i \in Collected, p \in ToSet(report.usage.pods) :
         \/ events[i].pid \in ToSet(report.usage.pods) \cup KernelPids
         \/ EventsOf(events[i].pid) <= EventsOf(p)

(* The CPU table and the list of active processes, sorted apart and each without    *)
(* order among equals, agree as far as both go: the k-th pod process of the list has *)
(* as many events as row k of the table (it may be another process), and so with the *)
(* kernel processes.                                                                 *)
TablesAgree ==
  Made =>
    \A i \in DOMAIN report.top :
      LET kernel == isKernelThread(report.top[i])
          table == IF kernel THEN report.usage.kernel ELSE report.usage.pods
          k == Quantify(1 .. i, LAMBDA j : isKernelThread(report.top[j]) = kernel)
      IN IF k \in DOMAIN table THEN EventsOf(table[k]) = EventsOf(report.top[i])
         ELSE Len(table) = IF kernel THEN KernelRows ELSE PodRows

(* The issues of the last lines, computed by going over the events once more, agree  *)
(* with what the sections print: with the breakdown of the failed connections, and   *)
(* with the percentiles of the round trips.  A percentile above the spike limit with *)
(* as many round trips over it as are an issue is one; and where there is the issue, *)
(* the maximum and each percentile so high that no more may be over it are above the *)
(* limit.                                                                            *)
Percentiles == [p50 |-> 50, p95 |-> 95, p99 |-> 99]
IssuesAgree ==
  Made =>
    /\ "connection failures" \in report.issues
         <=> /\ report.connect.count > 0
             /\ SumFunction(report.connect.breakdown) * 100 > FailurePct * report.connect.count
    /\ "RTT spikes" \in report.issues =>
         /\ report.tcp.count > 0
         /\ report.tcp.latency.max > SpikeMs
         /\ \A p \in DOMAIN Percentiles :
              Percentiles[p] * (report.tcp.count - 1) >= (100 - SpikePct) * report.tcp.count
                => report.tcp.latency[p] > SpikeMs
    /\ report.tcp.count > 0 =>
         \A p \in DOMAIN Percentiles :
           Percentiles[p] + SpikePct <= 100 /\ report.tcp.latency[p] > SpikeMs
             => "RTT spikes" \in report.issues

(* Fewer than half of the seconds are bursts: no event is counted in two of     *)
(* them, although an event on their common border is in neither.                *)
BurstsAreFew ==
  Made => report.bursts = {} \/ 2 * Cardinality(report.bursts) * Second < Period

(* The events of those types inside the first windows of that length, on no *)
(* border of them; uptimes, so where the wall clock counts from the boot.    *)
Inside(types, length, windows) ==
  Quantify(Collected, LAMBDA i :
    LET after == events[i].timestamp - Start
    IN events[i].type \in types /\ after \in 0 .. windows * length /\ after % length # 0)

(* Where timestamps are wall clock times, as cpu_profiling_test.go has them, no *)
(* TCP activity and no connection escapes the peaks but that on a border or in  *)
(* the last part of a second: a peak is at least the average over the windows.  *)
PeakNotMissed ==
  Made /\ boot = 0 =>
    /\ report.tcp.count > 0 =>
         report.io.peak * Seconds >= Inside({"TCP_SEND", "TCP_RECV"}, Second, Seconds)
    /\ report.connect.count > 0 =>
         report.pattern.peak * Tenths >= Inside({"CONNECT"}, Tenth, Tenths)

(* Connections are not called steady or sporadic when a window is far above the *)
(* mean: by more than the root of half the connections counted (Chebyshev).     *)
BurstyIfPeaked ==
  Made /\ boot = 0 /\ report.connect.count > 0 =>
    LET counted == Inside({"CONNECT"}, Tenth, Tenths)
        excess == Tenths * report.pattern.peak - counted
    IN 2 * excess * excess > counted * Tenths * Tenths => report.pattern.pattern = "bursty"

(* The timeline counts an event in the fifth of the period in which it happened, *)
(* an earlier one in the first and one of the last instants in the last.         *)
TimelineTrue ==
  Made =>
    LET width == Period \div 5
        HappenedAfter(b) ==
          Quantify(Collected, LAMBDA i : boot + events[i].timestamp >= startTime + b * width)
    IN \A b \in 1 .. 4 :
         SumFunctionOnSet(report.timeline, b .. 4) = HappenedAfter(b)

(* The same where the wall clock counts from the boot. *)
TimelineWithOneClock == boot = 0 => TimelineTrue
=============================================================================
