---------------------------- MODULE EventFilter ----------------------------
(***************************************************************************)
(* How an event gets its process name and is judged to be of the pod or    *)
(* not (internal/ebpf/tracer.go): the BPF programs report the events of    *)
(* ALL processes by pid; the reader goroutine takes them later and asks    *)
(* /proc, when the process may have exec'ed, moved to another cgroup or    *)
(* ended, or its pid may belong to another one.  Names are cached for      *)
(* ever, the missing ones too, and the report keeps a second such cache    *)
(* (internal/diagnose/diagnose.go).                                        *)
(*                                                                         *)
(* The cgroup to compare with is looked up once, before tracing starts     *)
(* (internal/kubernetes/pod.go), in two steps: the API server is asked for *)
(* the container's id, then the cgroup tree is searched for that id.  The  *)
(* container may restart at any time, under a new id and in a new scope.   *)
(*                                                                         *)
(* A cgroup path is the sequence of its segments: cgroup v2, where         *)
(* /proc/<pid>/cgroup has the one line "0::<path>".                        *)
(***************************************************************************)
EXTENDS CgroupSearch

CONSTANTS
  Pids,
  Commands,   \* names of programs
  Groups,     \* the cgroups of the node
  Ids,        \* the ids the pod's container has, one after the other
  Scope,      \* the cgroup of the container under each id
  MaxProcs,   \* bound on the processes started
  MaxEvents   \* bound on the events reported

(* The container runtime names a container's scope after its id and nothing *)
(* else outside of it, and scopes are not nested.                           *)
ASSUME FilterAssumption ==
  /\ 1 \in Ids /\ Ids \subseteq Nat \ {0}
  /\ Groups \subseteq Seq(DOMAIN Rank) /\ NotFound \notin Groups
  /\ Rank \in [DOMAIN Rank -> Nat]
  /\ Scope \in [Ids -> Groups]
  /\ \A g \in Groups, id \in Ids : Mentions(g, id) <=> IsPrefix(Scope[id], g)
  /\ \A id \in Ids : Scope[id] # <<>> /\ Scope[id][1] \in Range(Slices)
  /\ \A i, j \in Ids : IsPrefix(Scope[i], Scope[j]) => i = j
  /\ "" \notin Commands
  /\ MaxProcs \in Nat
  /\ MaxEvents \in Nat

VARIABLES
  container,   \* the present id of the container
  resolver,    \* the resolution: "get", "find", "done" or "failed"
  containerID, \* the id the API server answered
  cgroupPath,  \* what was found for it
  procs,       \* the live processes, by pid
  starts,      \* how often each pid has been given to a process
  moved,       \* history: pids of which a process changed its cgroup
  held,        \* history: the names each pid has had
  queue,       \* events not yet read, with the cgroup their process was in (history)
  emitted,     \* number of events so far
  reader,      \* "read" or "check"
  current,     \* the event the reader holds, with the name it was given
  nameCache,   \* processNameCache of the tracer
  delivered,   \* the events sent to eventChan, in order
  reportCache, \* processNameCache of the report
  report       \* the name the last report shows for each pid

resolution == <<resolver, containerID, cgroupPath>>
world == <<container, procs, starts, moved, held>>
reading == <<reader, current, nameCache>>
reporting == <<reportCache, report>>
vars == <<resolution, world, queue, emitted, reading, delivered, reporting>>

None == [pid |-> 0, group |-> <<>>]

Init ==
  /\ container = 1
  /\ resolver = "get"
  /\ containerID = 0
  /\ cgroupPath = <<>>
  /\ procs = <<>>
  /\ starts = [p \in Pids |-> 0]
  /\ moved = {}
  /\ held = [p \in Pids |-> {}]
  /\ queue = <<>>
  /\ emitted = 0
  /\ reader = "read"
  /\ current = [event |-> None, name |-> ""]
  /\ nameCache = <<>>
  /\ delivered = <<>>
  /\ reportCache = <<>>
  /\ report = <<>>

(* f with f[x] = v. *)
Put(f, x, v) == [y \in DOMAIN f \cup {x} |-> IF y = x THEN v ELSE f[y]]
-----------------------------------------------------------------------------
(* ResolvePod. *)

(* The cgroups there are: of the container, those under its present id. *)
Tree == {g \in Groups : \A id \in Ids \ {container} : ~IsPrefix(Scope[id], g)}

GetPod ==
  /\ resolver = "get"
  /\ containerID' = container
  /\ resolver' = "find"
  /\ UNCHANGED <<cgroupPath, world, queue, emitted, reading, delivered, reporting>>

(* Without a cgroup the program ends before it traces anything. *)
FindCgroup ==
  /\ resolver = "find"
  /\ cgroupPath' = findCgroupPath(Tree, containerID)
  /\ resolver' = IF cgroupPath' = NotFound THEN "failed" ELSE "done"
  /\ UNCHANGED <<containerID, world, queue, emitted, reading, delivered, reporting>>

(* The container ends with all its processes and starts again under a new id. *)
Restart ==
  /\ container + 1 \in Ids
  /\ container' = container + 1
  /\ procs' = [p \in {q \in DOMAIN procs : ~IsPrefix(Scope[container], procs[q].group)} |-> procs[p]]
  /\ UNCHANGED <<resolution, starts, moved, held, queue, emitted, reading, delivered, reporting>>
-----------------------------------------------------------------------------
(* The processes of the node. *)

StartProcess(pid, command, group) ==
  /\ group \in Tree /\ pid \notin DOMAIN procs
  /\ starts[pid] < MaxProcs
  /\ procs' = Put(procs, pid, [command |-> command, group |-> group])
  /\ starts' = [starts EXCEPT ![pid] = @ + 1]
  /\ held' = [held EXCEPT ![pid] = @ \cup {command}]
  /\ UNCHANGED <<resolution, container, moved, queue, emitted, reading, delivered, reporting>>

Exec(pid, command) ==
  /\ pid \in DOMAIN procs
  /\ procs' = [procs EXCEPT ![pid].command = command]
  /\ held' = [held EXCEPT ![pid] = @ \cup {command}]
  /\ UNCHANGED <<resolution, container, starts, moved, queue, emitted, reading, delivered, reporting>>

(* A container runtime starts a process in its own cgroup and then moves it. *)
Move(pid, group) ==
  /\ group \in Tree /\ pid \in DOMAIN procs /\ group # procs[pid].group
  /\ procs' = [procs EXCEPT ![pid].group = group]
  /\ moved' = moved \cup {pid}
  /\ UNCHANGED <<resolution, container, starts, held, queue, emitted, reading, delivered, reporting>>

Exit(pid) ==
  /\ pid \in DOMAIN procs
  /\ procs' = [p \in DOMAIN procs \ {pid} |-> procs[p]]
  /\ UNCHANGED <<resolution, container, starts, moved, held, queue, emitted, reading, delivered, reporting>>

(* A BPF program reports an event of a process, whatever its cgroup. *)
Emit(pid) ==
  /\ resolver = "done"
  /\ pid \in DOMAIN procs /\ emitted < MaxEvents
  /\ emitted' = emitted + 1
  /\ queue' = Append(queue, [pid |-> pid, group |-> procs[pid].group])
  /\ UNCHANGED <<resolution, world, reading, delivered, reporting>>
-----------------------------------------------------------------------------
(* The reader goroutine. *)

(* What /proc says: the name of the process that has the pid now, if any.  *)
ProcName(pid) == IF pid \in DOMAIN procs THEN procs[pid].command ELSE ""

(* Mutant of CacheName: only names that were found are cached. *)
CacheFound(pid, name) == IF name = "" THEN nameCache ELSE Put(nameCache, pid, name)
(* Mutants of getProcessNameQuick: no cache; a placeholder for a process that is gone. *)
NameUncached(pid) == ProcName(pid)
NameOrUnknown(pid) == IF pid \in DOMAIN procs THEN procs[pid].command ELSE "unknown"
(* getProcessNameQuick: the cached name, otherwise /proc; the answer is cached *)
(* even if it is empty.                                                        *)
getProcessNameQuick(pid) == IF pid \in DOMAIN nameCache THEN nameCache[pid] ELSE ProcName(pid)
CacheName(pid, name) == Put(nameCache, pid, name)

ReadEvent ==
  /\ reader = "read" /\ queue # <<>>
  /\ LET e == Head(queue)
         name == getProcessNameQuick(e.pid)
     IN /\ current' = [event |-> e, name |-> name]
        /\ nameCache' = CacheName(e.pid, name)
  /\ queue' = Tail(queue)
  /\ reader' = "check"
  /\ UNCHANGED <<resolution, world, emitted, delivered, reporting>>

(* Mutants of Related: the parents are compared; a cgroup in the target is not in it. *)
RelatedParent(group) == IsPrefix(Front(cgroupPath), group) \/ IsPrefix(group, cgroupPath)
RelatedEqual(group) == group = cgroupPath

(* The comparison of isPIDInCgroup: equal, below the target, or above it. *)
Related(group) == IsPrefix(cgroupPath, group) \/ IsPrefix(group, cgroupPath)

(* isPIDInCgroup: not if /proc has no such process any more. *)
isPIDInCgroup(pid) == pid \in DOMAIN procs /\ Related(procs[pid].group)

CheckCgroup ==
  /\ reader = "check"
  /\ delivered' = IF isPIDInCgroup(current.event.pid) THEN Append(delivered, current) ELSE delivered
  /\ current' = [event |-> None, name |-> ""]
  /\ reader' = "read"
  /\ UNCHANGED <<resolution, world, queue, emitted, nameCache, reporting>>
-----------------------------------------------------------------------------
(* The report: analyzeProcessActivity names each pid after the first of its     *)
(* events that has a name; otherwise getProcessName asks its own cache or /proc. *)
Active == {delivered[i].event.pid : i \in DOMAIN delivered}

Named(pid) == {i \in DOMAIN delivered : delivered[i].event.pid = pid /\ delivered[i].name # ""}

getProcessName(pid) == IF pid \in DOMAIN reportCache THEN reportCache[pid] ELSE ProcName(pid)

Report ==
  /\ delivered # <<>>
  /\ LET asked == {p \in Active : Named(p) = {}}
         shown(p) == IF p \in asked THEN getProcessName(p) ELSE delivered[Min(Named(p))].name
     IN /\ report' = [p \in Active |-> IF shown(p) = "" THEN "unknown" ELSE shown(p)]
        /\ reportCache' = [p \in DOMAIN reportCache \cup asked |-> getProcessName(p)]
  /\ UNCHANGED <<resolution, world, queue, emitted, reading, delivered>>

Next ==
  \/ GetPod
  \/ FindCgroup
  \/ Restart
  \/ \E p \in Pids, c \in Commands, g \in Groups : StartProcess(p, c, g)
  \/ \E p \in Pids, c \in Commands : Exec(p, c)
  \/ \E p \in Pids, g \in Groups : Move(p, g)
  \/ \E p \in Pids : Exit(p)
  \/ \E p \in Pids : Emit(p)
  \/ ReadEvent
  \/ CheckCgroup
  \/ Report

Spec == Init /\ [][Next]_vars
-----------------------------------------------------------------------------
Processes == [command : Commands, group : Groups]
EventRecords == [pid : Pids, group : Groups]
Labels == Commands \cup {""}
Deliveries == [event : EventRecords, name : Labels]

(* The types of the variables. *)
TypeOK ==
  /\ container \in Ids
  /\ resolver \in {"get", "find", "done", "failed"}
  /\ containerID \in {0} \cup 1 .. container
  /\ cgroupPath \in Groups \cup {<<>>, NotFound}
  /\ DOMAIN procs \subseteq Pids /\ \A p \in DOMAIN procs : procs[p] \in Processes
  /\ starts \in [Pids -> 0 .. MaxProcs]
  /\ moved \subseteq Pids
  /\ held \in [Pids -> SUBSET Commands]
  /\ queue \in Seq(EventRecords)
  /\ emitted \in 0 .. MaxEvents
  /\ reader \in {"read", "check"}
  /\ current \in [event : EventRecords \cup {None}, name : Labels]
  /\ DOMAIN nameCache \subseteq Pids /\ \A p \in DOMAIN nameCache : nameCache[p] \in Labels
  /\ delivered \in Seq(Deliveries)
  /\ DOMAIN reportCache \subseteq Pids /\ \A p \in DOMAIN reportCache : reportCache[p] \in Labels
  /\ DOMAIN report \subseteq Pids /\ \A p \in DOMAIN report : report[p] \in Labels \cup {"unknown"}

Kept == {delivered[i] : i \in DOMAIN delivered}

(* The scope of the container that was resolved, and what is on another branch *)
(* of the tree, its path parting from the scope's.                             *)
Own == Scope[containerID]
OtherBranch(group) == \E i \in DOMAIN group \cap DOMAIN Own : group[i] # Own[i]

(* An event of another pod, or of the container after a restart, reaches the   *)
(* user only if, between the event and the check, its pid went to another      *)
(* process or its process changed its cgroup.                                  *)
ForeignDropped ==
  \A d \in Kept :
    OtherBranch(d.event.group) => starts[d.event.pid] > 1 \/ d.event.pid \in moved

(* No event is lost for the way the cgroup was found: if a process of the       *)
(* resolved container, or of a cgroup inside it, is there to be looked up, the  *)
(* event is kept.                                                               *)
OwnKept ==
  [][reader = "check" /\ reader' = "read" =>
       LET pid == current.event.pid
       IN pid \in DOMAIN procs /\ IsPrefix(Own, procs[pid].group)
            => delivered' = Append(delivered, current)]_vars

(* All events of a pid carry one name, so its metrics stay one series and its  *)
(* row of the report one process; and a name is one the pid really has had.    *)
OneNamePerPid ==
  /\ \A d, e \in Kept : d.event.pid = e.event.pid => d.name = e.name
  /\ \A d \in Kept : d.name \in held[d.event.pid] \cup {""}

(* The report is repeated every 5 seconds: a pid keeps its name from one report *)
(* to the next, although names come from two caches that are filled at          *)
(* different times and the process may be gone or another by then.              *)
ReportNameStable ==
  [][\A p \in DOMAIN report \cap DOMAIN report' : report'[p] = report[p]]_vars
=============================================================================
