----------------------------- MODULE Statistics -----------------------------
(***************************************************************************)
(* The sums of the diagnostic report: what internal/diagnose/diagnose.go   *)
(* and cpu_profiling.go compute from the collected events without looking  *)
(* at their times.  Latencies are whole milliseconds; an average is a      *)
(* total and a count, a percentage a count of the events.                  *)
(*                                                                         *)
(* Rankings are the exception to "compute": Go ranges over a map and then  *)
(* sorts unstably, so keys with equal counts come in any order, and in     *)
(* another one each time.                                                  *)
(***************************************************************************)
EXTENDS Integers, Sequences, FiniteSets, SequencesExt

CONSTANTS
  SpikeMs,     \* RTTs above it are spikes (100)
  SlowMs,      \* file operations above it are slow (10)
  FailurePct,  \* percentage of failed connections that is an issue (10)
  SpikePct,    \* percentage of spikes that is an issue (5)
  TopRows,     \* rows of a ranking that are printed (5)
  PodRows,     \* rows of pod processes in the CPU table (10)
  KernelRows,  \* rows of kernel processes in the CPU table (5)
  KernelPids   \* the processes whose name looks like a kernel thread's

ASSUME StatisticsAssumption ==
  {SpikeMs, SlowMs, FailurePct, SpikePct, TopRows, PodRows, KernelRows} \subseteq Nat

(* The events of a section are a function from their positions among all events: *)
(* their order there matters to nothing that is computed from them.              *)
Count(evs, P(_)) == Quantify(DOMAIN evs, LAMBDA i : P(evs[i]))
Number(evs) == Cardinality(DOMAIN evs)

(* Mutant of filterEvents: resets of connections are left out. *)
filterEventsOk(evs, type) == RestrictValues(evs, LAMBDA e : e.type = type /\ e.error # -104)
filterEvents(evs, type) == RestrictValues(evs, LAMBDA e : e.type = type)

(* append(filterEvents(...), filterEvents(...)...) *)
OfTypes(evs, types) == Restrict(evs, UNION {DOMAIN filterEvents(evs, t) : t \in types})
TcpEvents(evs) == OfTypes(evs, {"TCP_SEND", "TCP_RECV"})
FsEvents(evs) == OfTypes(evs, {"WRITE", "READ", "FSYNC"})

(* sort.Float64s of the latencies: the k-th is the least that k of them do not exceed. *)
Latencies(evs) == {evs[i].latency : i \in DOMAIN evs}
Sorted(evs) ==
  [k \in 1 .. Number(evs) |->
     Min({v \in Latencies(evs) : Count(evs, LAMBDA e : e.latency <= v) >= k})]

(* Mutant of percentile: rounded up. *)
percentileUp(sorted, p) ==
  sorted[((Len(sorted) - 1) * p + 99) \div 100 + 1]
percentile(sorted, p) == sorted[((Len(sorted) - 1) * p) \div 100 + 1]

(* The part all sections share, for at least one event. *)
Latency(evs) ==
  LET sorted == Sorted(evs)
  IN [total |-> SumFunction([i \in DOMAIN evs |-> evs[i].latency]),
      max |-> Max(Latencies(evs) \cup {0}),
      p50 |-> percentile(sorted, 50), p95 |-> percentile(sorted, 95),
      p99 |-> percentile(sorted, 99)]

analyzeDNS(evs) ==
  [count |-> Number(evs), latency |-> Latency(evs),
   errors |-> Count(evs, LAMBDA e : e.error # 0)]

(* EAGAIN (-11) is no error of a send or a receive, nor is a byte count. *)
analyzeTCP(evs) ==
  [count |-> Number(evs), latency |-> Latency(evs),
   spikes |-> Count(evs, LAMBDA e : e.latency > SpikeMs),
   errors |-> Count(evs, LAMBDA e : e.error < 0 /\ e.error # -11)]

analyzeConnections(evs) ==
  [count |-> Number(evs), latency |-> Latency(evs),
   errors |-> Count(evs, LAMBDA e : e.error # 0),
   breakdown |-> [c \in {e.error : e \in Range(evs)} \ {0} |->
                    Count(evs, LAMBDA e : e.error = c)]]

analyzeFS(evs) ==
  [count |-> Number(evs), latency |-> Latency(evs),
   slow |-> Count(evs, LAMBDA e : e.latency > SlowMs)]

analyzeCPU(evs) == [count |-> Number(evs), latency |-> Latency(evs)]

(* How many events name each target; some names stand for none. *)
TargetCounts(evs, none) ==
  [t \in {e.target : e \in Range(evs)} \ none |-> Count(evs, LAMBDA e : e.target = t)]

(* The keys by falling count, equal ones in any order. *)
Rankings(counts) ==
  {keys \in SetToSeqs(DOMAIN counts) :
     \A i, j \in DOMAIN keys : i < j => counts[keys[i]] >= counts[keys[j]]}

(* Mutant of Rows: one row too many is cut. *)
RowsCut(keys, n) == SubSeq(keys, 2, Min({n, Len(keys)}))
Rows(keys, n) == SubSeq(keys, 1, Min({n, Len(keys)}))

(* Mutant of SpikeRateHigh: the rate is that of the sends. *)
SpikeRateHighOfSends(evs) ==
  LET tcp == filterEvents(evs, "TCP_SEND")
  IN Count(tcp, LAMBDA e : e.latency > SpikeMs) * 100 > SpikePct * Number(tcp)
(* detectIssues goes over all events again, with tests of its own: it uses nothing *)
(* of what the sections have counted.                                             *)
SpikeRateHigh(evs) ==
  LET tcp == OfTypes(evs, {"TCP_SEND", "TCP_RECV"})
  IN Count(tcp, LAMBDA e : e.latency > SpikeMs) * 100 > SpikePct * Number(tcp)
FailureRateHigh(evs) ==
  LET connects == filterEvents(evs, "CONNECT")
  IN Count(connects, LAMBDA e : e.error # 0) * 100 > FailurePct * Number(connects)

detectIssues(evs) ==
  (IF FailureRateHigh(evs) THEN {"connection failures"} ELSE {})
    \cup (IF SpikeRateHigh(evs) THEN {"RTT spikes"} ELSE {})

(* analyzeProcessActivity: the events of each process. *)
ProcessActivity(evs) ==
  [p \in {e.pid : e \in Range(evs)} |-> Count(evs, LAMBDA e : e.pid = p)]

isKernelThread(pid) == pid \in KernelPids

Total(keys, counts) == SumFunction([i \in DOMAIN keys |-> counts[keys[i]]])

Used(pods, kernel, counts) == Total(pods, counts) + Total(kernel, counts)

(* The "CPU" table: a process's share of the CPU is its share of the EVENTS, *)
(* the idle time what the shown rows leave of all events.  Splitting a       *)
(* ranking in two leaves a ranking of each kind, in any of their orders.     *)
generateCPUUsageReport(counts, podProcesses, kernelProcesses) ==
  LET pods == Rows(podProcesses, PodRows)
      kernel == Rows(kernelProcesses, KernelRows)
      used == Used(pods, kernel, counts)
  IN [pods |-> pods, kernel |-> kernel, more |-> Len(kernelProcesses) - Len(kernel),
      used |-> used, idle |-> SumFunction(counts) - used]
=============================================================================
