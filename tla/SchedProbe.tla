----------------------------- MODULE SchedProbe -----------------------------
(***************************************************************************)
(* The sched_switch tracepoint program (bpf/podtrace.bpf.c): CPUs switch   *)
(* between threads, and the program times each thread in the start_times   *)
(* map it shares with the call probes, under the key (tid, 0).             *)
(***************************************************************************)
EXTENDS BpfMaps

CONSTANTS
  CPUs,
  Threads,   \* thread ids; 0 is the idle task of a CPU
  Tgid,      \* the process (thread group) of each thread
  SlowNs,    \* the 1 ms a block must exceed to be reported
  MaxTime    \* bound on the clock

ASSUME SchedAssumption ==
  /\ Threads \subseteq 1 .. Word - 1
  /\ Tgid \in [Threads -> 1 .. Word - 1]
  /\ SlowNs \in Nat
  /\ MaxTime \in Nat

VARIABLES
  attached,    \* is the tracepoint program attached
  now,         \* bpf_ktime_get_ns()
  start_times, \* BPF map: key -> time
  events,      \* the ring buffer
  oncpu,       \* the thread each CPU runs, 0 for idle
  switched,    \* history: when each thread last got or lost a CPU
  waited       \* history: how long each thread was off the CPU before it last got one

vars == <<attached, now, start_times, events, oncpu, switched, waited>>

Running == {oncpu[c] : c \in CPUs} \ {0}
(* Mutant of SchedKey: the thread id in both halves. *)
SchedKeyTwice(t) == get_key(t, t)
SchedKey(t) == get_key(t, 0)
CallKey(t) == get_key(Tgid[t], t)

(* Threads may be running when tracing starts. *)
Init ==
  /\ attached = FALSE
  /\ now = 0
  /\ start_times = <<>>
  /\ events = <<>>
  /\ oncpu \in [CPUs -> Threads \cup {0}]
  /\ \A c, d \in CPUs : c # d /\ oncpu[c] = oncpu[d] => oncpu[c] = 0
  /\ switched = [t \in Threads |-> 0]
  /\ waited = [t \in Threads |-> 0]

(* attachProbes attaches the tracepoint; without permission it goes on without. *)
Attach ==
  /\ ~attached
  /\ attached' = TRUE
  /\ UNCHANGED <<now, start_times, events, oncpu, switched, waited>>

(* The event about the thread that leaves the CPU: prev_pid is a thread id. *)
Event(prev) ==
  [type |-> "SCHED_SWITCH", pid |-> prev, timestamp |-> now,
   latency_ns |-> calc_latency(start_times[SchedKey(prev)], now),
   ran |-> now - switched[prev], waited |-> waited[prev]]

(* Mutant of SwitchedOut: an entry is removed only when it is reported. *)
SwitchedOutKeepsShort(prev) ==
  IF prev # 0 /\ SchedKey(prev) \in DOMAIN start_times
       /\ calc_latency(start_times[SchedKey(prev)], now) > SlowNs
  THEN [map |-> DeleteElem(start_times, SchedKey(prev)), ring |-> RingOutput(events, Event(prev))]
  ELSE [map |-> start_times, ring |-> events]

(* The first half of the program: the thread switched out, unless it is idle. *)
SwitchedOut(prev) ==
  IF prev = 0 \/ SchedKey(prev) \notin DOMAIN start_times
  THEN [map |-> start_times, ring |-> events]
  ELSE [map |-> DeleteElem(start_times, SchedKey(prev)),
        ring |-> IF calc_latency(start_times[SchedKey(prev)], now) > SlowNs
                 THEN RingOutput(events, Event(prev)) ELSE events]

(* Mutant of SwitchedIn: the idle task is timed as well. *)
SwitchedInIdleToo(map, next) == UpdateElem(map, SchedKey(next), now)

(* The second half: the thread switched in, unless it is idle. *)
SwitchedIn(map, next) ==
  IF next = 0 THEN map ELSE UpdateElem(map, SchedKey(next), now)

(* CPU c switches to thread next; the program runs in the switch if attached. *)
SchedSwitch(c, next) ==
  LET prev == oncpu[c]
      out == SwitchedOut(prev)
  IN /\ next # prev
     /\ next \notin Running
     /\ oncpu' = [oncpu EXCEPT ![c] = next]
     /\ switched' = [t \in Threads |-> IF t \in {prev, next} THEN now ELSE switched[t]]
     /\ waited' = [t \in Threads |-> IF t = next THEN now - switched[t] ELSE waited[t]]
     /\ IF attached
        THEN start_times' = SwitchedIn(out.map, next) /\ events' = out.ring
        ELSE UNCHANGED <<start_times, events>>
     /\ UNCHANGED <<attached, now>>

(* What the call probes of a running thread do to the shared map (CallProbes). *)
CallEntry(t) ==
  /\ t \in Running
  /\ start_times' = UpdateElem(start_times, CallKey(t), now)
  /\ UNCHANGED <<attached, now, events, oncpu, switched, waited>>

CallReturn(t) ==
  /\ t \in Running
  /\ CallKey(t) \in DOMAIN start_times
  /\ start_times' = DeleteElem(start_times, CallKey(t))
  /\ UNCHANGED <<attached, now, events, oncpu, switched, waited>>

(* The user-space reader takes the oldest event. *)
Consume ==
  /\ events # <<>>
  /\ events' = Tail(events)
  /\ UNCHANGED <<attached, now, start_times, oncpu, switched, waited>>

Tick ==
  /\ now < MaxTime
  /\ now' = now + 1
  /\ UNCHANGED <<attached, start_times, events, oncpu, switched, waited>>

Next ==
  \/ Attach
  \/ \E c \in CPUs, next \in Threads \cup {0} : SchedSwitch(c, next)
  \/ \E t \in Threads : CallEntry(t)
  \/ \E t \in Threads : CallReturn(t)
  \/ Consume
  \/ Tick

Spec == Init /\ [][Next]_vars
-----------------------------------------------------------------------------
Events == [type : {"SCHED_SWITCH"}, pid : Threads, timestamp : Nat,
           latency_ns : Nat, ran : Nat, waited : Nat]

(* The types of the variables. *)
TypeOK ==
  /\ attached \in BOOLEAN
  /\ now \in Nat
  /\ DOMAIN start_times \subseteq {SchedKey(t) : t \in Threads} \cup {CallKey(t) : t \in Threads}
  /\ \A k \in DOMAIN start_times : start_times[k] \in Nat
  /\ events \in Seq(Events)
  /\ oncpu \in [CPUs -> Threads \cup {0}]
  /\ switched \in [Threads -> Nat]
  /\ waited \in [Threads -> Nat]

Reported == {events[i] : i \in DOMAIN events}

(* What the latency of a scheduling event is: the time slice ON the CPU that     *)
(* ends with the switch, whatever CPUs the thread moved over, whichever switches *)
(* the program missed before it was attached or lost to a full map.  The program *)
(* and the report call it something else: see BlockedLatency.                    *)
SliceLatency == \A e \in Reported : e.latency_ns = e.ran /\ e.ran > SlowNs

(* What the latency is called (block_time and "Only track blocks > 1ms" in the   *)
(* program, "Average block time" in the report, podtrace_cpu_block_seconds in    *)
(* the metrics): how long the thread was blocked, off the CPU, before it ran.    *)
BlockedLatency == \A e \in Reported : e.latency_ns = e.waited

(* Scheduling entries never outlive the time slice: the program occupies at    *)
(* most one map slot per CPU and cannot crowd out the call probes.             *)
EntriesOfRunning == \A t \in Threads : SchedKey(t) \in DOMAIN start_times => t \in Running
=============================================================================
