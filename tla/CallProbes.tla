----------------------------- MODULE CallProbes -----------------------------
(***************************************************************************)
(* The entry and return programs podtrace attaches to seven kernel         *)
(* functions and to libc's getaddrinfo (bpf/podtrace.bpf.c), the threads   *)
(* that call those functions, and the window in which attachProbes         *)
(* (internal/ebpf/tracer.go) attaches the programs one after the other.    *)
(*                                                                         *)
(* An entry program stores the time in start_times under the calling       *)
(* thread's key; the return program looks it up, reports the difference    *)
(* and deletes it.  All functions share that ONE slot per thread although  *)
(* they nest: a write on a socket calls tcp_sendmsg, a getaddrinfo call    *)
(* connects, sends, receives and reads files.                              *)
(*                                                                         *)
(* One BPF program run is one step: it reads and writes only entries under *)
(* its own thread's key, so two runs meet only in the capacity of the maps *)
(* and of the ring buffer, each of which the kernel updates atomically.    *)
(***************************************************************************)
EXTENDS BpfMaps

CONSTANTS
  Threads,    \* thread ids (tids)
  Tgid,       \* the process (thread group) of each thread
  Funcs,      \* the probed functions in play, a subset of AllFuncs
  Nests,      \* <<f, g>>: the kernel or libc calls g inside f
  Names,      \* host names and addresses passed to the calls
  NULL,       \* a null pointer argument
  MaxActive,  \* return instances the kernel keeps per kretprobe
  SlowNs,     \* the 1 ms below which file operations are not reported
  MaxTime     \* bound on the clock

(* "getaddrinfo" is probed in user space (uprobes), the others are kernel functions. *)
ConnectFuncs == {"tcp_v4_connect", "tcp_v6_connect"}
FileFuncs == {"vfs_write", "vfs_read", "vfs_fsync"}
KernelFuncs == ConnectFuncs \cup FileFuncs \cup {"tcp_sendmsg", "tcp_recvmsg"}
AllFuncs == KernelFuncs \cup {"getaddrinfo"}

ASSUME CallAssumption ==
  /\ Threads \subseteq 1 .. Word - 1
  /\ Tgid \in [Threads -> 1 .. Word - 1]
  /\ Funcs \subseteq AllFuncs
  /\ Nests \subseteq Funcs \X (Funcs \ {"getaddrinfo"})
  /\ NULL \notin Names
  /\ MaxActive \in Nat
  /\ SlowNs \in Nat
  /\ MaxTime \in Nat

VARIABLES
  attached,     \* the programs attached so far
  now,          \* bpf_ktime_get_ns()
  start_times,  \* BPF map: thread key -> time of entry
  dns_targets,  \* BPF map: thread key -> host being looked up
  events,       \* the ring buffer
  stack,        \* the calls each thread is in, outermost first
  mismatched,   \* history: threads that entered a call of which only one program ran
  killed        \* history: threads that died inside getaddrinfo

maps == <<start_times, dns_targets>>
vars == <<attached, now, start_times, dns_targets, events, stack, mismatched, killed>>

Programs == Funcs \X {"entry", "return"}
KernelPrograms == (Funcs \cap KernelFuncs) \X {"entry", "return"}

(* The event type a function's return program writes. *)
EventType(f) ==
  CASE f \in ConnectFuncs    -> "CONNECT"
    [] f = "tcp_sendmsg"     -> "TCP_SEND"
    [] f = "tcp_recvmsg"     -> "TCP_RECV"
    [] f = "vfs_write"       -> "WRITE"
    [] f = "vfs_read"        -> "READ"
    [] f = "vfs_fsync"       -> "FSYNC"
    [] OTHER                 -> "DNS"

Key(t) == get_key(Tgid[t], t)

(* The pointer arguments a caller passes that a program reads. *)
Args(f) == IF f = "getaddrinfo" THEN Names \cup {NULL}
           ELSE IF f \in ConnectFuncs THEN Names ELSE {NULL}

Top(t) == stack[t][Len(stack[t])]

(* The kretprobe instances of f in use: calls of f whose return is hooked. *)
Hooked(f) ==
  UNION {{<<t, i>> : i \in {j \in DOMAIN stack[t] : stack[t][j].func = f /\ stack[t][j].armed}}
         : t \in Threads}

(* A call's return is hooked at its entry, if the return program is attached *)
(* by then and, for a kernel function, an instance is free.                  *)
CanHook(f) ==
  /\ <<f, "return">> \in attached
  /\ f \in KernelFuncs => Cardinality(Hooked(f)) < MaxActive
-----------------------------------------------------------------------------
Init ==
  /\ attached = {}
  /\ now = 0
  /\ start_times = <<>>
  /\ dns_targets = <<>>
  /\ events = <<>>
  /\ stack = [t \in Threads |-> <<>>]
  /\ mismatched = {}
  /\ killed = {}

(* attachProbes: the kernel programs in any order (the range is over a Go map) *)
(* and then the two uprobes, entry first.  A uprobe that cannot be attached is *)
(* skipped with a note, so the return uprobe may be alone.                     *)
Attach(p) ==
  /\ p \notin attached
  /\ p \notin KernelPrograms => KernelPrograms \subseteq attached
  /\ p = <<"getaddrinfo", "entry">> => <<"getaddrinfo", "return">> \notin attached
  /\ attached' = attached \cup {p}
  /\ UNCHANGED <<now, maps, events, stack, mismatched, killed>>

(* Mutants of EntryProgram: an entry that is there is kept (BPF_NOEXIST), in      *)
(* start_times or in dns_targets; the name of a null pointer is stored.           *)
EntryProgramKeepsTime(t, f, arg) ==
  /\ start_times' = IF Key(t) \in DOMAIN start_times THEN start_times
                    ELSE UpdateElem(start_times, Key(t), now)
  /\ UNCHANGED dns_targets
EntryProgramKeepsName(t, f, arg) ==
  /\ start_times' = UpdateElem(start_times, Key(t), now)
  /\ IF f = "getaddrinfo" /\ arg # NULL /\ Key(t) \notin DOMAIN dns_targets
     THEN \E name \in {arg, ""} : dns_targets' = UpdateElem(dns_targets, Key(t), name)
     ELSE UNCHANGED dns_targets
EntryProgramNoNullCheck(t, f, arg) ==
  /\ start_times' = UpdateElem(start_times, Key(t), now)
  /\ IF f = "getaddrinfo"
     THEN \E name \in {arg, ""} : dns_targets' = UpdateElem(dns_targets, Key(t), name)
     ELSE UNCHANGED dns_targets

(* The entry program of f: every one stores the time; getaddrinfo's also stores *)
(* the name it reads from user memory, empty if the page is not resident.       *)
EntryProgram(t, f, arg) ==
  /\ start_times' = UpdateElem(start_times, Key(t), now)
  /\ IF f = "getaddrinfo" /\ arg # NULL
     THEN \E name \in {arg, ""} : dns_targets' = UpdateElem(dns_targets, Key(t), name)
     ELSE UNCHANGED dns_targets

(* The call that starts when f is entered: when, and which programs run for it. *)
NewCall(f, arg) ==
  [func |-> f, at |-> now, probed |-> <<f, "entry">> \in attached,
   armed |-> CanHook(f), inner |-> FALSE, arg |-> arg]

(* The calls around a nested one remember (history) that its entry program ran. *)
Around(calls, ran) == [i \in DOMAIN calls |-> [calls[i] EXCEPT !.inner = @ \/ ran]]

(* Thread t enters f, outermost or inside a call that nests it. *)
Enter(t, f, arg) ==
  LET call == NewCall(f, arg)
  IN /\ stack[t] # <<>> => <<Top(t).func, f>> \in Nests
     /\ stack' = [stack EXCEPT ![t] = Append(Around(@, call.probed), call)]
     /\ IF call.probed THEN EntryProgram(t, f, arg) ELSE UNCHANGED maps
     /\ mismatched' = IF call.probed = call.armed THEN mismatched ELSE mismatched \cup {t}
     /\ UNCHANGED <<attached, now, events, killed>>

(* What the event names.  A connect program reads its address through the       *)
(* second-argument register as it is at RETURN, which the calling convention    *)
(* does not preserve: any address or none.  getaddrinfo's takes the stored name. *)
Targets(t, f) ==
  IF f \in ConnectFuncs THEN Names \cup {""}
  ELSE IF f = "getaddrinfo" /\ Key(t) \in DOMAIN dns_targets
       THEN {dns_targets[Key(t)]} ELSE {""}

(* The event: five fields of struct event, and the call it came from (history). *)
Event(t, call, target) ==
  [type |-> EventType(call.func), pid |-> Tgid[t], timestamp |-> now,
   latency_ns |-> calc_latency(start_times[Key(t)], now), target |-> target,
   thread |-> t, call |-> call]

(* Mutants of ReturnProgram: the entry of a fast file operation, or of a reported *)
(* call, stays in start_times.                                                    *)
ReturnProgramKeepsFast(t, call) ==
  LET found == Key(t) \in DOMAIN start_times
      fast == /\ call.func \in FileFuncs
              /\ calc_latency(start_times[Key(t)], now) < SlowNs
  IN IF found /\ ~fast
     THEN /\ \E target \in Targets(t, call.func) :
               events' = RingOutput(events, Event(t, call, target))
          /\ start_times' = DeleteElem(start_times, Key(t))
          /\ dns_targets' = IF call.func = "getaddrinfo"
                            THEN DeleteElem(dns_targets, Key(t)) ELSE dns_targets
     ELSE UNCHANGED <<maps, events>>
ReturnProgramKeepsReported(t, call) ==
  /\ IF Key(t) \in DOMAIN start_times
     THEN \E target \in Targets(t, call.func) :
            events' = RingOutput(events, Event(t, call, target))
     ELSE UNCHANGED events
  /\ UNCHANGED maps

(* The return program of the call: nothing without an entry; a file operation *)
(* faster than 1 ms is forgotten; anything else is reported.                  *)
ReturnProgram(t, call) ==
  LET found == Key(t) \in DOMAIN start_times
      fast == /\ call.func \in FileFuncs
              /\ calc_latency(start_times[Key(t)], now) < SlowNs
  IN \/ /\ ~found
        /\ UNCHANGED <<maps, events>>
     \/ /\ found /\ fast
        /\ start_times' = DeleteElem(start_times, Key(t))
        /\ UNCHANGED <<dns_targets, events>>
     \/ /\ found /\ ~fast
        /\ \E target \in Targets(t, call.func) :
             events' = RingOutput(events, Event(t, call, target))
        /\ start_times' = DeleteElem(start_times, Key(t))
        /\ dns_targets' = IF call.func = "getaddrinfo"
                          THEN DeleteElem(dns_targets, Key(t)) ELSE dns_targets

(* Thread t returns from its innermost call. *)
Return(t) ==
  /\ stack[t] # <<>>
  /\ stack' = [stack EXCEPT ![t] = SubSeq(@, 1, Len(@) - 1)]
  /\ IF Top(t).armed THEN ReturnProgram(t, Top(t)) ELSE UNCHANGED <<maps, events>>
  /\ UNCHANGED <<attached, now, mismatched, killed>>

(* Thread t is killed.  A kernel function returns first, so it dies in user *)
(* code: inside getaddrinfo no return program runs.  Its tid may be reused. *)
Kill(t) ==
  /\ stack[t] # <<>> /\ Top(t).func = "getaddrinfo"
  /\ stack' = [stack EXCEPT ![t] = <<>>]
  /\ killed' = killed \cup {t}
  /\ UNCHANGED <<attached, now, maps, events, mismatched>>

(* The user-space reader takes the oldest event. *)
Consume ==
  /\ events # <<>>
  /\ events' = Tail(events)
  /\ UNCHANGED <<attached, now, maps, stack, mismatched, killed>>

Tick ==
  /\ now < MaxTime
  /\ now' = now + 1
  /\ UNCHANGED <<attached, maps, events, stack, mismatched, killed>>

Next ==
  \/ \E p \in Programs : Attach(p)
  \/ \E t \in Threads, f \in Funcs : \E arg \in Args(f) : Enter(t, f, arg)
  \/ \E t \in Threads : Return(t)
  \/ \E t \in Threads : Kill(t)
  \/ Consume
  \/ Tick

Spec == Init /\ [][Next]_vars

(* The steady state: attachProbes has attached everything before the first call. *)
LoadedInit ==
  /\ attached = Programs
  /\ now = 0
  /\ start_times = <<>>
  /\ dns_targets = <<>>
  /\ events = <<>>
  /\ stack = [t \in Threads |-> <<>>]
  /\ mismatched = {}
  /\ killed = {}

LoadedSpec == LoadedInit /\ [][Next]_vars
-----------------------------------------------------------------------------
Calls == [func : Funcs, at : Nat, probed : BOOLEAN, armed : BOOLEAN,
          inner : BOOLEAN, arg : Names \cup {NULL}]
EventTypes == {"DNS", "CONNECT", "TCP_SEND", "TCP_RECV", "WRITE", "READ", "FSYNC"}
Events == [type : EventTypes, pid : Nat, timestamp : Nat, latency_ns : Nat,
           target : Names \cup {""}, thread : Threads, call : Calls]
Keys == {Key(t) : t \in Threads}

(* The types of the variables: keys are those of traced threads. *)
TypeOK ==
  /\ attached \subseteq Programs
  /\ now \in Nat
  /\ DOMAIN start_times \subseteq Keys
  /\ \A k \in DOMAIN start_times : start_times[k] \in Nat
  /\ DOMAIN dns_targets \subseteq Keys
  /\ \A k \in DOMAIN dns_targets : dns_targets[k] \in Names \cup {""}
  /\ events \in Seq(Events)
  /\ stack \in [Threads -> Seq(Calls)]
  /\ mismatched \subseteq Threads
  /\ killed \subseteq Threads

Reported == {events[i] : i \in DOMAIN events}

(* The latency an event reports is the duration of the very call that returned, *)
(* although nested calls overwrite the one start_times slot of the thread.  The *)
(* exception is a thread that was in a call of which only one of the two        *)
(* programs ran (attach window, exhausted kretprobe instances).                 *)
OwnLatency ==
  \A e \in Reported : e.thread \notin mismatched => e.latency_ns = e.timestamp - e.call.at

(* Only innermost calls are reported: a call inside which another probed call   *)
(* was made has lost its slot, so no event ever spans other reported work.      *)
InnermostOnly ==
  \A e \in Reported : e.thread \notin mismatched => ~e.call.inner

(* A thread's start_times entry does not outlive its calls, so finished threads *)
(* do not fill the 1024 entries: unless the thread died inside getaddrinfo or   *)
(* one of two programs did not run, some call in progress wrote the entry.      *)
NoStrandedStart ==
  \A t \in Threads \ (mismatched \cup killed) :
    Key(t) \in DOMAIN start_times => \E i \in DOMAIN stack[t] : stack[t][i].probed

(* A lookup that passes a host name is reported under that name or under none,  *)
(* however many names earlier lookups of the thread left in dns_targets.        *)
NamedLookupTarget ==
  \A e \in Reported :
    e.type = "DNS" /\ e.thread \notin mismatched /\ e.call.arg # NULL
      => e.target \in {e.call.arg, ""}
=============================================================================
