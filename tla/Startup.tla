------------------------------ MODULE Startup ------------------------------
(***************************************************************************)
(* From the command line to the first event and back: runPodtrace          *)
(* (cmd/podtrace/main.go) resolves the pod and calls NewTracer             *)
(* (internal/ebpf/tracer.go), which raises the memlock limit, loads the    *)
(* BPF collection, attaches the probes and opens the ring buffer reader.   *)
(* Every step may fail; what was acquired before must be given back.       *)
(*                                                                         *)
(* CallProbes models what the programs do while they are being attached,   *)
(* Pipeline what the goroutines do while they are being stopped.           *)
(***************************************************************************)
EXTENDS Naturals

CONSTANTS
  KernelProbes,  \* the kprobes and kretprobes: each is required
  MemlockNeed,   \* the 512 MB of locked memory NewTracer asks for
  MaxLimit       \* RLIM_INFINITY

ASSUME StartupAssumption ==
  /\ MemlockNeed \in Nat
  /\ MaxLimit \in Nat
  /\ MemlockNeed <= MaxLimit

VARIABLES
  pc,          \* where runPodtrace is
  privileged,  \* the process has CAP_SYS_RESOURCE
  rlimit,      \* RLIMIT_MEMLOCK: soft and hard limit
  collection,  \* the BPF programs and maps: "none", "open" or "closed"
  attempted,   \* the probes attachProbes has tried
  links,       \* the probes that are attached
  reader,      \* the ring buffer reader: "none", "open" or "closed"
  initial      \* history: the limits the process was started with

resources == <<collection, links, reader>>
vars == <<pc, privileged, rlimit, initial, attempted, resources>>

(* After the kernel probes: each is attached if it can be, in this order. *)
OptionalProbes == {"tracepoint_sched_switch", "uprobe_getaddrinfo", "uretprobe_getaddrinfo"}
Later(p, q) ==
  <<p, q>> \in {<<"tracepoint_sched_switch", "uprobe_getaddrinfo">>,
                <<"tracepoint_sched_switch", "uretprobe_getaddrinfo">>,
                <<"uprobe_getaddrinfo", "uretprobe_getaddrinfo">>}

Limits == {l \in [cur : 0 .. MaxLimit, max : 0 .. MaxLimit] : l.cur <= l.max}

Init ==
  /\ pc = "resolve"
  /\ privileged \in BOOLEAN
  /\ rlimit \in Limits
  /\ initial = rlimit
  /\ collection = "none"
  /\ attempted = {}
  /\ links = {}
  /\ reader = "none"

(* NewPodResolver and ResolvePod: no cluster, no pod, no container, no cgroup. *)
Resolve ==
  /\ pc = "resolve"
  /\ pc' \in {"memlock", "failed"}
  /\ UNCHANGED <<privileged, rlimit, initial, attempted, resources>>

(* setrlimit: the hard limit can be raised only with the privilege. *)
CanSet(l) == l.cur <= l.max /\ (l.max <= rlimit.max \/ privileged)

(* Mutant of Asked: the hard limit is set to what is needed as well. *)
AskedExactly == [cur |-> MemlockNeed, max |-> MemlockNeed]

(* The limits NewTracer asks for: in the fallback for a failed call the hard *)
(* limit it reads is the one it has just raised in the same structure.       *)
Asked == [cur |-> MemlockNeed,
          max |-> IF rlimit.max < MemlockNeed THEN MemlockNeed ELSE rlimit.max]
Fallback == [Asked EXCEPT !.cur = Asked.max]

(* Mutant of RemoveMemlock: the soft limit alone is lifted. *)
RemoveSoftLimit(l) == {l} \cup (IF privileged THEN {[l EXCEPT !.cur = MaxLimit]} ELSE {})

(* rlimit.RemoveMemlock: no limit at all, if it is allowed; nothing on newer kernels. *)
Unlimited == [cur |-> MaxLimit, max |-> MaxLimit]
RemoveMemlock(l) == {l} \cup (IF privileged THEN {Unlimited} ELSE {})

(* The memlock limit; failures are warnings.  If the limits cannot be read only *)
(* RemoveMemlock is tried.                                                      *)
RaiseMemlock ==
  /\ pc = "memlock"
  /\ \/ rlimit' \in RemoveMemlock(rlimit)
     \/ /\ rlimit.cur >= MemlockNeed
        /\ UNCHANGED rlimit
     \/ /\ rlimit.cur < MemlockNeed
        /\ IF CanSet(Asked) THEN rlimit' = Asked
           ELSE IF CanSet(Fallback) THEN rlimit' = Fallback
           ELSE rlimit' \in RemoveMemlock(rlimit)
  /\ pc' = "load"
  /\ UNCHANGED <<privileged, initial, attempted, resources>>

(* loadPodtrace and NewCollection. *)
Load ==
  /\ pc = "load"
  /\ \/ pc' = "attach" /\ collection' = "open"
     \/ pc' = "failed" /\ UNCHANGED collection
  /\ UNCHANGED <<privileged, rlimit, initial, attempted, links, reader>>

(* Mutant of AttachKernel: a kernel probe that fails is skipped like an optional one. *)
AttachKernelOrSkip(p) ==
  /\ pc = "attach" /\ p \notin attempted
  /\ attempted' = attempted \cup {p}
  /\ links' \in {links, links \cup {p}}
  /\ UNCHANGED <<pc, privileged, rlimit, initial, collection, reader>>

(* attachProbes: the kernel probes in any order; one failure ends it. *)
AttachKernel(p) ==
  /\ pc = "attach" /\ p \notin attempted
  /\ attempted' = attempted \cup {p}
  /\ \/ links' = links \cup {p} /\ UNCHANGED pc
     \/ pc' = "undoAttach" /\ UNCHANGED links
  /\ UNCHANGED <<privileged, rlimit, initial, collection, reader>>

(* The tracepoint and the uprobes are left out with a note if they fail. *)
AttachOptional(p) ==
  /\ pc = "attach" /\ KernelProbes \subseteq attempted
  /\ p \notin attempted /\ \A q \in attempted : ~Later(p, q)
  /\ attempted' = attempted \cup {p}
  /\ links' \in {links, links \cup {p}}
  /\ UNCHANGED <<pc, privileged, rlimit, initial, collection, reader>>

(* Mutant of OpenReader: a failure is returned without undoing anything. *)
OpenReaderNoUndo ==
  /\ pc = "attach" /\ KernelProbes \cup {"tracepoint_sched_switch"} \subseteq attempted
  /\ \/ pc' = "tracing" /\ reader' = "open"
     \/ pc' = "failed" /\ UNCHANGED reader
  /\ UNCHANGED <<privileged, rlimit, initial, attempted, collection, links>>

(* ringbuf.NewReader; the uprobes may have been skipped for want of a libc. *)
OpenReader ==
  /\ pc = "attach" /\ KernelProbes \cup {"tracepoint_sched_switch"} \subseteq attempted
  /\ \/ pc' = "tracing" /\ reader' = "open"
     \/ pc' = "undoReader" /\ UNCHANGED reader
  /\ UNCHANGED <<privileged, rlimit, initial, attempted, collection, links>>

(* The run ends: report printed, Ctrl+C, or a duration that does not parse. *)
EndRun ==
  /\ pc = "tracing"
  /\ pc' = "stop"
  /\ UNCHANGED <<privileged, rlimit, initial, attempted, resources>>

(* Tracer.Stop closes the reader first. *)
CloseReader ==
  /\ pc = "stop"
  /\ reader' = "closed"
  /\ pc' = "stopLinks"
  /\ UNCHANGED <<privileged, rlimit, initial, attempted, collection, links>>

(* Links are closed one after the other: by Stop, by attachProbes after a failed *)
(* probe and by NewTracer after a failed reader.                                 *)
Unlinking == {"stopLinks", "undoAttach", "undoReader"}

CloseLink(p) ==
  /\ pc \in Unlinking /\ p \in links
  /\ links' = links \ {p}
  /\ UNCHANGED <<pc, privileged, rlimit, initial, attempted, collection, reader>>

CloseCollection ==
  /\ pc \in Unlinking /\ links = {}
  /\ collection' = "closed"
  /\ pc' = IF pc = "stopLinks" THEN "exited" ELSE "failed"
  /\ UNCHANGED <<privileged, rlimit, initial, attempted, links, reader>>

Next ==
  \/ Resolve \/ RaiseMemlock \/ Load
  \/ \E p \in KernelProbes : AttachKernel(p)
  \/ \E p \in OptionalProbes : AttachOptional(p)
  \/ OpenReader \/ EndRun \/ CloseReader
  \/ \E p \in KernelProbes \cup OptionalProbes : CloseLink(p)
  \/ CloseCollection

Spec == Init /\ [][Next]_vars
-----------------------------------------------------------------------------
(* The types of the variables. *)
TypeOK ==
  /\ pc \in {"resolve", "memlock", "load", "attach", "tracing", "stop", "failed", "exited"}
            \cup Unlinking
  /\ privileged \in BOOLEAN
  /\ rlimit \in Limits /\ initial \in Limits
  /\ collection \in {"none", "open", "closed"}
  /\ attempted \subseteq KernelProbes \cup OptionalProbes
  /\ links \subseteq attempted
  /\ reader \in {"none", "open", "closed"}

(* Whichever step fails, and after a regular end, nothing stays acquired: no     *)
(* probe attached, no program or map loaded, no reader open.                     *)
NothingLeft ==
  pc \in {"failed", "exited"} => links = {} /\ collection # "open" /\ reader # "open"

(* Resources nest: probes are attached and the reader is open only while the     *)
(* collection is, and the reader is closed before the first probe is detached.   *)
Nested ==
  /\ links # {} \/ reader = "open" => collection = "open"
  /\ reader = "open" => KernelProbes \subseteq links

(* NewTracer never lowers the memlock limit the process was started with.        *)
LimitNotLowered == rlimit.cur >= initial.cur /\ rlimit.max >= initial.max
=============================================================================
