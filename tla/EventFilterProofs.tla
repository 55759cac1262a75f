------------------------- MODULE EventFilterProofs -------------------------
(***************************************************************************)
(* Proofs about EventFilter, for any processes, names, cgroups, restarts   *)
(* of the container and any number of events, under the naming of scopes   *)
(* that FilterAssumption states.                                           *)
(***************************************************************************)
EXTENDS EventFilter, WellFoundedInduction, TLAPS
-----------------------------------------------------------------------------
(* Prefixes. *)

(* A prefix agrees with the sequence as far as it goes. *)
LEMMA PrefixAgrees ==
  ASSUME NEW S, NEW s \in Seq(S), NEW t \in Seq(S)
  PROVE  IsPrefix(s, t) <=> Len(s) <= Len(t) /\ \A i \in 1 .. Len(s) : s[i] = t[i]
<1>1. /\ Len(s) \in Nat /\ Len(t) \in Nat
      /\ SubSeq(s, 1, Len(s)) \in Seq(S)
      /\ Len(SubSeq(s, 1, Len(s))) = Len(s)
      /\ \A i \in 1 .. Len(s) : SubSeq(s, 1, Len(s))[i] = s[i]
  OBVIOUS
<1>2. ASSUME Len(s) <= Len(t)
      PROVE  /\ SubSeq(t, 1, Len(s)) \in Seq(S)
             /\ Len(SubSeq(t, 1, Len(s))) = Len(s)
             /\ \A i \in 1 .. Len(s) : SubSeq(t, 1, Len(s))[i] = t[i]
  BY <1>2, <1>1
<1>3. ASSUME Len(s) <= Len(t), \A i \in 1 .. Len(s) : s[i] = t[i]
      PROVE  SubSeq(s, 1, Len(s)) = SubSeq(t, 1, Len(s))
  BY <1>1, <1>2, <1>3
<1>4. ASSUME Len(s) <= Len(t), SubSeq(s, 1, Len(s)) = SubSeq(t, 1, Len(s))
      PROVE  \A i \in 1 .. Len(s) : s[i] = t[i]
  BY <1>1, <1>2, <1>4
<1> QED BY <1>3, <1>4 DEF IsPrefix

(* Two prefixes of each other are equal. *)
LEMMA PrefixAntisymmetric ==
  ASSUME NEW S, NEW s \in Seq(S), NEW t \in Seq(S), IsPrefix(s, t), IsPrefix(t, s)
  PROVE  s = t
<1>1. /\ Len(s) \in Nat /\ Len(t) \in Nat
      /\ Len(s) <= Len(t) /\ Len(t) <= Len(s)
      /\ \A i \in 1 .. Len(s) : s[i] = t[i]
  BY PrefixAgrees
<1> QED BY <1>1
-----------------------------------------------------------------------------
(* The search for the container's cgroup. *)

(* The cgroups of a container are those in its scope. *)
LEMMA FoundInScope ==
  ASSUME NEW tree \in SUBSET Groups, NEW id \in Ids, NEW slice
  PROVE  Found(tree, slice, id) =
           {p \in tree : slice = Scope[id][1] /\ IsPrefix(Scope[id], p)}
<1> SUFFICES ASSUME NEW p \in tree
             PROVE  (p # <<>> /\ p[1] = slice /\ Mentions(p, id))
                      <=> slice = Scope[id][1] /\ IsPrefix(Scope[id], p)
  BY DEF Found
<1>1. p \in Groups /\ Groups \subseteq Seq(DOMAIN Rank) /\ Scope[id] \in Groups
  BY FilterAssumption
<1>2. Mentions(p, id) <=> IsPrefix(Scope[id], p)
  BY <1>1, FilterAssumption
<1>3. ASSUME IsPrefix(Scope[id], p)
      PROVE  p # <<>> /\ p[1] = Scope[id][1]
  <2>1. Scope[id] \in Seq(DOMAIN Rank) /\ p \in Seq(DOMAIN Rank) /\ Scope[id] # <<>>
    BY <1>1, FilterAssumption
  <2>2. Len(Scope[id]) <= Len(p) /\ \A i \in 1 .. Len(Scope[id]) : Scope[id][i] = p[i]
    BY <2>1, <1>3, PrefixAgrees
  <2>3. Len(Scope[id]) \in Nat /\ Len(Scope[id]) >= 1 /\ Len(p) \in Nat
    BY <2>1
  <2>4. Len(p) >= 1 /\ 1 \in 1 .. Len(Scope[id])
    BY <2>2, <2>3
  <2> QED BY <2>1, <2>2, <2>4
<1> QED BY <1>2, <1>3

(* Of the cgroups in a scope, the walk meets the scope first. *)
LEMMA ScopeFirst ==
  ASSUME NEW paths \in SUBSET Groups, NEW s \in paths, \A p \in paths : IsPrefix(s, p)
  PROVE  FirstOf(paths) = s
<1>1. paths \subseteq Seq(DOMAIN Rank) /\ Rank \in [DOMAIN Rank -> Nat]
  BY FilterAssumption
<1>2. \A q \in paths : s = q \/ Precedes(s, q)
  BY DEF Precedes, IsStrictPrefix
<1>3. ASSUME NEW p \in paths, \A q \in paths : p = q \/ Precedes(p, q)
      PROVE  p = s
  <2> SUFFICES ASSUME Precedes(p, s) PROVE p = s
    BY <1>3
  <2>1. IsPrefix(s, p) /\ s \in Seq(DOMAIN Rank) /\ p \in Seq(DOMAIN Rank)
    BY <1>1
  <2>2. CASE IsStrictPrefix(p, s)
    BY <2>1, <2>2, PrefixAntisymmetric DEF IsStrictPrefix
  <2>3. ASSUME NEW i \in DOMAIN p \cap DOMAIN s, Rank[p[i]] < Rank[s[i]]
        PROVE  FALSE
    <3>1. i \in 1 .. Len(s) /\ s[i] = p[i]
      BY <2>1, PrefixAgrees
    <3>2. Rank[s[i]] \in Nat
      BY <3>1, <2>1, <1>1
    <3> QED BY <3>1, <3>2, <2>3
  <2> QED BY <2>2, <2>3 DEF Precedes
<1> QED BY <1>2, <1>3 DEF FirstOf

(* The search finds the container's own scope, and nothing once the container *)
(* has restarted.                                                             *)
LEMMA FoundScope ==
  ASSUME container \in Ids, NEW id \in Ids
  PROVE  findCgroupPath(Tree, id) = IF id = container THEN Scope[id] ELSE NotFound
<1> DEFINE hits == {i \in DOMAIN Slices : Found(Tree, Slices[i], id) # {}}
<1>1. Tree \in SUBSET Groups /\ Scope[id] \in Groups
  BY FilterAssumption DEF Tree
<1>2. \A slice : Found(Tree, slice, id) =
                   {p \in Tree : slice = Scope[id][1] /\ IsPrefix(Scope[id], p)}
  BY <1>1, FoundInScope
<1>3. CASE id # container
  <2>1. \A p \in Tree : ~IsPrefix(Scope[id], p)
    BY <1>3 DEF Tree
  <2>2. hits = {}
    BY <2>1, <1>2
  <2> QED BY <2>2, <1>3 DEF findCgroupPath
<1>4. CASE id = container
  <2>1. Scope[id] \in Tree
    BY <1>1, <1>4, FilterAssumption DEF Tree
  <2>2. IsPrefix(Scope[id], Scope[id])
    BY DEF IsPrefix
  <2>3. PICK n \in DOMAIN Slices : Slices[n] = Scope[id][1]
    BY FilterAssumption DEF Range
  <2>4. \A i \in DOMAIN Slices : Slices[i] = Slices[n] => i = n
    BY DEF Slices
  <2>5. hits = {n}
    <3>1. n \in hits
      BY <1>2, <2>1, <2>2, <2>3
    <3>2. \A i \in hits : i = n
      BY <1>2, <2>3, <2>4
    <3> QED BY <3>1, <3>2
  <2>6. Min(hits) = n
    <3>1. n \in Int
      BY DEF Slices
    <3> HIDE DEF hits
    <3> QED BY <3>1, <2>5 DEF Min
  <2>7. FirstOf(Found(Tree, Slices[n], id)) = Scope[id]
    <3>1. /\ Found(Tree, Slices[n], id) \in SUBSET Groups
          /\ Scope[id] \in Found(Tree, Slices[n], id)
          /\ \A p \in Found(Tree, Slices[n], id) : IsPrefix(Scope[id], p)
      BY <1>1, <1>2, <2>1, <2>2, <2>3
    <3> QED BY <3>1, ScopeFirst
  <2>8. findCgroupPath(Tree, id) =
          IF hits = {} THEN NotFound ELSE FirstOf(Found(Tree, Slices[Min(hits)], id))
    BY DEF findCgroupPath
  <2> HIDE DEF hits
  <2> QED BY <2>5, <2>6, <2>7, <2>8, <1>4
<1> QED BY <1>3, <1>4
-----------------------------------------------------------------------------
(* Maps and queues. *)

(* An update keeps the types of a map. *)
LEMMA PutType ==
  ASSUME NEW K, NEW V, NEW f, NEW x \in K, NEW v \in V,
         DOMAIN f \subseteq K, \A y \in DOMAIN f : f[y] \in V
  PROVE  /\ DOMAIN Put(f, x, v) \subseteq K
         /\ \A y \in DOMAIN Put(f, x, v) : Put(f, x, v)[y] \in V
BY DEF Put

(* A non-empty set of numbers has a least one. *)
LEMMA MinIn ==
  ASSUME NEW T \in SUBSET Nat, T # {}
  PROVE  Min(T) \in T
<1>1. \E x \in T : \A y \in T : ~(<<y, x>> \in OpToRel(<, Nat))
  BY NatLessThanWellFounded, WFMin
<1>2. PICK x \in T : \A y \in T : ~(<<y, x>> \in OpToRel(<, Nat))
  BY <1>1
<1>3. \A y \in T : ~(y < x)
  BY <1>2 DEF OpToRel
<1>4. \A y \in T : x <= y
  BY <1>3
<1> QED BY <1>4 DEF Min
-----------------------------------------------------------------------------
(* TypeOK is inductive with what the steps of the resolution and of the reader *)
(* leave behind.                                                               *)
TypeInv ==
  /\ TypeOK
  /\ resolver # "get" => containerID \in Ids
  /\ reader = "check" => current.event \in EventRecords

(* The initial state satisfies the type invariant. *)
LEMMA TypeInit == Init => TypeInv
<1> SUFFICES ASSUME Init PROVE TypeInv
  OBVIOUS
<1>1. /\ container \in Ids /\ MaxProcs \in Nat /\ MaxEvents \in Nat
  BY FilterAssumption DEF Init
<1>e. /\ procs = <<>> /\ nameCache = <<>> /\ reportCache = <<>> /\ report = <<>>
      /\ queue = <<>> /\ delivered = <<>> /\ moved = {} /\ emitted = 0
  BY DEF Init
<1>2. /\ DOMAIN procs = {} /\ DOMAIN nameCache = {}
      /\ DOMAIN reportCache = {} /\ DOMAIN report = {}
  BY <1>e
<1>3. current \in [event : EventRecords \cup {None}, name : Labels]
  BY DEF Init, Labels
<1>4. queue \in Seq(EventRecords) /\ delivered \in Seq(Deliveries)
  BY <1>e
<1>5. /\ starts \in [Pids -> 0 .. MaxProcs] /\ held \in [Pids -> SUBSET Commands]
      /\ moved \subseteq Pids /\ emitted \in 0 .. MaxEvents
  <2>1. starts = [p \in Pids |-> 0] /\ held = [p \in Pids |-> {}]
    BY DEF Init
  <2> QED BY <1>e, <1>1, <2>1
<1>6. /\ resolver = "get" /\ containerID = 0 /\ cgroupPath = <<>> /\ reader = "read"
  BY DEF Init
<1> QED BY <1>1, <1>2, <1>3, <1>4, <1>5, <1>6 DEF TypeInv, TypeOK

(* The steps of the resolution keep the types. *)
LEMMA TypeResolve == TypeInv /\ (GetPod \/ FindCgroup \/ Restart) => TypeInv'
<1> SUFFICES ASSUME TypeInv, GetPod \/ FindCgroup \/ Restart PROVE TypeInv'
  OBVIOUS
<1> USE DEF TypeInv, TypeOK, world, reading, reporting, resolution
<1>i. Ids \subseteq Nat \ {0} /\ container \in Ids
  BY FilterAssumption
<1>1. CASE GetPod
  BY <1>1, <1>i DEF GetPod
<1>2. CASE FindCgroup
  <2>1. containerID \in Ids
    BY <1>2 DEF FindCgroup
  <2>2. cgroupPath' \in Groups \cup {NotFound}
    <3>1. cgroupPath' = IF containerID = container THEN Scope[containerID] ELSE NotFound
      BY <1>2, <1>i, <2>1, FoundScope DEF FindCgroup
    <3> QED BY <3>1, <2>1, FilterAssumption
  <2>3. resolver' \in {"done", "failed"}
    BY <1>2 DEF FindCgroup
  <2> QED BY <1>2, <2>1, <2>2, <2>3 DEF FindCgroup
<1>3. CASE Restart
  <2>1. container' = container + 1 /\ container' \in Ids
    BY <1>3 DEF Restart
  <2>2. containerID \in {0} \cup 1 .. container'
    BY <2>1, <1>i
  <2>3. /\ DOMAIN procs' \subseteq DOMAIN procs
        /\ \A p \in DOMAIN procs' : procs'[p] = procs[p]
    BY <1>3 DEF Restart
  <2>4. DOMAIN procs' \subseteq Pids /\ \A p \in DOMAIN procs' : procs'[p] \in Processes
    BY <2>3
  <2> QED BY <1>3, <2>1, <2>2, <2>4 DEF Restart
<1> QED BY <1>1, <1>2, <1>3

(* The steps of the processes keep the types. *)
LEMMA TypeProcesses ==
  TypeInv
    /\ (\/ \E p \in Pids, c \in Commands, g \in Groups : StartProcess(p, c, g)
        \/ \E p \in Pids, c \in Commands : Exec(p, c)
        \/ \E p \in Pids, g \in Groups : Move(p, g)
        \/ \E p \in Pids : Exit(p)
        \/ \E p \in Pids : Emit(p))
    => TypeInv'
<1> SUFFICES ASSUME TypeInv,
                    \/ \E p \in Pids, c \in Commands, g \in Groups : StartProcess(p, c, g)
                    \/ \E p \in Pids, c \in Commands : Exec(p, c)
                    \/ \E p \in Pids, g \in Groups : Move(p, g)
                    \/ \E p \in Pids : Exit(p)
                    \/ \E p \in Pids : Emit(p)
             PROVE  TypeInv'
  OBVIOUS
<1> USE DEF TypeInv, TypeOK, world, reading, reporting, resolution
<1>n. MaxProcs \in Nat /\ MaxEvents \in Nat
  BY FilterAssumption
<1>1. ASSUME NEW p \in Pids, NEW c \in Commands, NEW g \in Groups, StartProcess(p, c, g)
      PROVE  TypeInv'
  <2>1. [command |-> c, group |-> g] \in Processes
    BY DEF Processes
  <2>2. DOMAIN procs' \subseteq Pids /\ \A q \in DOMAIN procs' : procs'[q] \in Processes
    <3>1. procs' = Put(procs, p, [command |-> c, group |-> g])
      BY <1>1 DEF StartProcess
    <3>2. DOMAIN procs \subseteq Pids /\ \A q \in DOMAIN procs : procs[q] \in Processes
      OBVIOUS
    <3> HIDE DEF TypeInv, TypeOK
    <3> QED BY <2>1, <3>1, <3>2, PutType
  <2>3. starts' \in [Pids -> 0 .. MaxProcs]
    BY <1>1, <1>n DEF StartProcess
  <2>4. held' \in [Pids -> SUBSET Commands]
    BY <1>1 DEF StartProcess
  <2> QED BY <1>1, <2>2, <2>3, <2>4 DEF StartProcess
<1>2. ASSUME NEW p \in Pids, NEW c \in Commands, Exec(p, c)
      PROVE  TypeInv'
  <2>1. procs' = [procs EXCEPT ![p].command = c] /\ p \in DOMAIN procs
    BY <1>2 DEF Exec
  <2>2. DOMAIN procs' \subseteq Pids /\ \A q \in DOMAIN procs' : procs'[q] \in Processes
    <3>1. DOMAIN procs' = DOMAIN procs
      BY <2>1
    <3>2. procs'[p] = [procs[p] EXCEPT !.command = c] /\ procs[p] \in Processes
      BY <2>1
    <3>3. procs'[p] \in Processes
      BY <3>2 DEF Processes
    <3>4. \A q \in DOMAIN procs : q # p => procs'[q] = procs[q]
      BY <2>1
    <3> QED BY <3>1, <3>3, <3>4
  <2>3. held' \in [Pids -> SUBSET Commands]
    BY <1>2 DEF Exec
  <2> QED BY <1>2, <2>2, <2>3 DEF Exec
<1>3. ASSUME NEW p \in Pids, NEW g \in Groups, Move(p, g)
      PROVE  TypeInv'
  <2>1. procs' = [procs EXCEPT ![p].group = g] /\ p \in DOMAIN procs
    BY <1>3 DEF Move
  <2>2. DOMAIN procs' \subseteq Pids /\ \A q \in DOMAIN procs' : procs'[q] \in Processes
    <3>1. DOMAIN procs' = DOMAIN procs
      BY <2>1
    <3>2. procs'[p] = [procs[p] EXCEPT !.group = g] /\ procs[p] \in Processes
      BY <2>1
    <3>3. procs'[p] \in Processes
      BY <3>2 DEF Processes
    <3>4. \A q \in DOMAIN procs : q # p => procs'[q] = procs[q]
      BY <2>1
    <3> QED BY <3>1, <3>3, <3>4
  <2> QED BY <1>3, <2>2 DEF Move
<1>4. ASSUME NEW p \in Pids, Exit(p)
      PROVE  TypeInv'
  <2>1. DOMAIN procs' \subseteq Pids /\ \A q \in DOMAIN procs' : procs'[q] \in Processes
    BY <1>4 DEF Exit
  <2> QED BY <1>4, <2>1 DEF Exit
<1>5. ASSUME NEW p \in Pids, Emit(p)
      PROVE  TypeInv'
  <2>1. [pid |-> p, group |-> procs[p].group] \in EventRecords
    BY <1>5 DEF Emit, Processes, EventRecords
  <2>2. queue' \in Seq(EventRecords)
    BY <1>5, <2>1 DEF Emit
  <2>3. emitted' \in 0 .. MaxEvents
    BY <1>5, <1>n DEF Emit
  <2> QED BY <1>5, <2>2, <2>3 DEF Emit
<1> QED BY <1>1, <1>2, <1>3, <1>4, <1>5

(* Every name comes from a process or is empty. *)
LEMMA NameTypes ==
  ASSUME TypeInv, NEW p \in Pids
  PROVE  /\ ProcName(p) \in Labels
         /\ getProcessNameQuick(p) \in Labels
         /\ getProcessName(p) \in Labels
BY DEF TypeInv, TypeOK, ProcName, getProcessNameQuick, getProcessName, Labels, Processes

(* The steps of the reader and of the report keep the types. *)
LEMMA TypeUser == TypeInv /\ (ReadEvent \/ CheckCgroup \/ Report \/ UNCHANGED vars) => TypeInv'
<1> SUFFICES ASSUME TypeInv, ReadEvent \/ CheckCgroup \/ Report \/ UNCHANGED vars
             PROVE  TypeInv'
  OBVIOUS
<1> USE DEF TypeInv, TypeOK, world, reading, reporting, resolution
<1>1. CASE ReadEvent
  <2> DEFINE e == Head(queue)
             name == getProcessNameQuick(e.pid)
  <2>1. /\ queue # <<>> /\ current' = [event |-> e, name |-> name]
        /\ nameCache' = Put(nameCache, e.pid, name) /\ queue' = Tail(queue)
        /\ reader' = "check"
    BY <1>1 DEF ReadEvent, CacheName
  <2>2. e \in EventRecords /\ queue' \in Seq(EventRecords)
    BY <2>1
  <2>3. e.pid \in Pids /\ name \in Labels
    BY <2>2, NameTypes DEF EventRecords
  <2>4. /\ DOMAIN nameCache' \subseteq Pids
        /\ \A p \in DOMAIN nameCache' : nameCache'[p] \in Labels
    <3> HIDE DEF e, name
    <3>1. nameCache' = Put(nameCache, e.pid, name)
      BY <2>1
    <3>2. DOMAIN nameCache \subseteq Pids /\ \A p \in DOMAIN nameCache : nameCache[p] \in Labels
      OBVIOUS
    <3> HIDE DEF TypeInv, TypeOK
    <3> QED BY <2>3, <3>1, <3>2, PutType
  <2>5. /\ current' \in [event : EventRecords \cup {None}, name : Labels]
        /\ current'.event \in EventRecords
    <3> HIDE DEF e, name
    <3> QED BY <2>1, <2>2, <2>3
  <2> QED BY <1>1, <2>1, <2>2, <2>4, <2>5 DEF ReadEvent
<1>2. CASE CheckCgroup
  <2>1. current \in Deliveries
    BY <1>2 DEF CheckCgroup, Deliveries
  <2>2. delivered' \in Seq(Deliveries)
    <3>1. delivered' = delivered \/ delivered' = Append(delivered, current)
      BY <1>2 DEF CheckCgroup
    <3>2. delivered \in Seq(Deliveries)
      OBVIOUS
    <3> HIDE DEF TypeInv, TypeOK
    <3> QED BY <2>1, <3>1, <3>2
  <2>3. current' \in [event : EventRecords \cup {None}, name : Labels]
    BY <1>2 DEF CheckCgroup, Labels
  <2> QED BY <1>2, <2>2, <2>3 DEF CheckCgroup
<1>3. CASE Report
  <2> DEFINE asked == {p \in Active : Named(p) = {}}
             shown(p) == IF p \in asked THEN getProcessName(p)
                         ELSE delivered[Min(Named(p))].name
  <2>d. \A i \in DOMAIN delivered :
          i \in Nat /\ delivered[i].event.pid \in Pids /\ delivered[i].name \in Labels
    <3>1. \A i \in DOMAIN delivered :
            i \in Nat /\ delivered[i] \in Deliveries
      OBVIOUS
    <3> QED BY <3>1 DEF EventRecords, Deliveries
  <2>1. Active \subseteq Pids
    BY <2>d DEF Active
  <2>2. \A p \in DOMAIN reportCache \cup asked : p \in Pids /\ getProcessName(p) \in Labels
    BY <2>1, NameTypes
  <2>3. ASSUME NEW p \in Active
        PROVE  shown(p) \in Labels
    <3>1. CASE p \in asked
      BY <3>1, <2>2
    <3>2. CASE p \notin asked
      <4>1. Named(p) \in SUBSET Nat /\ Named(p) # {} /\ Named(p) \subseteq DOMAIN delivered
        BY <3>2, <2>d DEF Named
      <4>2. Min(Named(p)) \in DOMAIN delivered
        BY <4>1, MinIn
      <4> QED BY <3>2, <4>2, <2>d
    <3> QED BY <3>1, <3>2
  <2>4. /\ report' = [p \in Active |-> IF shown(p) = "" THEN "unknown" ELSE shown(p)]
        /\ reportCache' = [p \in DOMAIN reportCache \cup asked |-> getProcessName(p)]
    BY <1>3 DEF Report
  <2>5. /\ DOMAIN reportCache' \subseteq Pids
        /\ \A p \in DOMAIN reportCache' : reportCache'[p] \in Labels
    BY <2>4, <2>2
  <2>6. /\ DOMAIN report' \subseteq Pids
        /\ \A p \in DOMAIN report' : report'[p] \in Labels \cup {"unknown"}
    <3> HIDE DEF shown
    <3> QED BY <2>1, <2>3, <2>4
  <2> QED BY <1>3, <2>5, <2>6 DEF Report
<1>4. CASE UNCHANGED vars
  BY <1>4 DEF vars
<1> QED BY <1>1, <1>2, <1>3, <1>4

(* Every step keeps the types. *)
LEMMA TypeStep == TypeInv /\ [Next]_vars => TypeInv'
BY TypeResolve, TypeProcesses, TypeUser DEF Next

(* The variables keep their types for any processes and any restarts; above all, *)
(* what the reader checks is an event and what a report shows is a name.          *)
THEOREM TypeCorrect == Spec => []TypeOK
<1>1. Spec => []TypeInv
  BY TypeInit, TypeStep, PTL DEF Spec
<1>2. TypeInv => TypeOK
  BY DEF TypeInv
<1> QED BY <1>1, <1>2, PTL
-----------------------------------------------------------------------------
(* Where an event comes from: unless its pid has gone to another process or its *)
(* process has moved, the process that has the pid is in the event's cgroup.    *)
Traced(e, times, changed, ps) ==
  /\ times[e.pid] >= 1
  /\ times[e.pid] = 1 /\ e.pid \notin changed /\ e.pid \in DOMAIN ps
       => ps[e.pid].group = e.group

(* ForeignDropped is inductive with the origin of the events that are still to  *)
(* be checked, and with what the resolution found before the first of them.     *)
OriginInv ==
  /\ \A p \in DOMAIN procs : starts[p] >= 1
  /\ \A i \in DOMAIN queue : Traced(queue[i], starts, moved, procs)
  /\ reader = "check" => Traced(current.event, starts, moved, procs)
  /\ resolver # "done" => queue = <<>> /\ reader = "read" /\ delivered = <<>>
  /\ resolver = "done" => cgroupPath = Own
  /\ ForeignDropped

(* Nothing has been reported in the initial state. *)
LEMMA OriginInit == Init => OriginInv
<1> SUFFICES ASSUME Init PROVE OriginInv
  OBVIOUS
<1>1. /\ procs = <<>> /\ queue = <<>> /\ delivered = <<>> /\ reader = "read" /\ resolver = "get"
  BY DEF Init
<1>2. DOMAIN procs = {} /\ DOMAIN queue = {} /\ DOMAIN delivered = {}
  BY <1>1
<1> QED BY <1>1, <1>2 DEF OriginInv, ForeignDropped, Kept

(* ForeignDropped changes with the deliveries, the target and the history only. *)
LEMMA ForeignMonotonic ==
  ASSUME TypeOK, ForeignDropped, delivered' = delivered, containerID' = containerID,
         \A p \in Pids : starts[p] <= starts'[p], moved \subseteq moved',
         starts' \in [Pids -> 0 .. MaxProcs]
  PROVE  ForeignDropped'
<1> SUFFICES ASSUME NEW d \in Kept, OtherBranch(d.event.group)
             PROVE  starts'[d.event.pid] > 1 \/ d.event.pid \in moved'
  BY DEF ForeignDropped, Kept, OtherBranch, Own
<1>1. starts[d.event.pid] > 1 \/ d.event.pid \in moved
  BY DEF ForeignDropped
<1>2. d.event.pid \in Pids
  <2>1. PICK i \in DOMAIN delivered : d = delivered[i]
    BY DEF Kept
  <2>2. delivered \in Seq(Deliveries)
    BY DEF TypeOK
  <2>3. d \in Deliveries
    BY <2>1, <2>2
  <2> QED BY <2>3 DEF Deliveries, EventRecords
<1>3. /\ MaxProcs \in Nat /\ starts[d.event.pid] \in Nat /\ starts'[d.event.pid] \in Nat
      /\ starts[d.event.pid] <= starts'[d.event.pid]
  <2>1. MaxProcs \in Nat
    BY FilterAssumption
  <2>2. starts[d.event.pid] \in 0 .. MaxProcs /\ starts'[d.event.pid] \in 0 .. MaxProcs
    BY <1>2 DEF TypeOK
  <2> QED BY <1>2, <2>1, <2>2
<1> QED BY <1>1, <1>3

(* The steps of the resolution keep the origin of events. *)
LEMMA OriginResolve ==
  TypeInv /\ OriginInv /\ (GetPod \/ FindCgroup \/ Restart) => OriginInv'
<1> SUFFICES ASSUME TypeInv, OriginInv, GetPod \/ FindCgroup \/ Restart PROVE OriginInv'
  OBVIOUS
<1>1. CASE GetPod
  <2>1. /\ resolver = "get" /\ resolver' = "find"
        /\ UNCHANGED <<procs, starts, moved, queue, reader, current, delivered>>
    BY <1>1 DEF GetPod, world, reading
  <2>2. queue' = <<>> /\ reader' = "read" /\ delivered' = <<>>
    BY <2>1 DEF OriginInv
  <2>3. DOMAIN queue' = {} /\ DOMAIN delivered' = {}
    BY <2>2
  <2>4. ForeignDropped'
    BY <2>3 DEF ForeignDropped, Kept
  <2> QED BY <2>1, <2>2, <2>3, <2>4 DEF OriginInv
<1>2. CASE FindCgroup
  <2>1. /\ resolver = "find" /\ containerID' = containerID
        /\ cgroupPath' = findCgroupPath(Tree, containerID)
        /\ resolver' = IF cgroupPath' = NotFound THEN "failed" ELSE "done"
        /\ UNCHANGED <<procs, starts, moved, queue, reader, current, delivered>>
    BY <1>2 DEF FindCgroup, world, reading
  <2>2. queue' = <<>> /\ reader' = "read" /\ delivered' = <<>>
    BY <2>1 DEF OriginInv
  <2>3. DOMAIN queue' = {} /\ DOMAIN delivered' = {}
    BY <2>2
  <2>4. ForeignDropped'
    BY <2>3 DEF ForeignDropped, Kept
  <2>5. containerID \in Ids /\ container \in Ids
    BY <2>1 DEF TypeInv, TypeOK
  <2>6. resolver' = "done" => cgroupPath' = Own'
    <3>1. cgroupPath' = IF containerID = container THEN Scope[containerID] ELSE NotFound
      BY <2>1, <2>5, FoundScope
    <3> QED BY <3>1, <2>1 DEF Own
  <2> QED BY <2>1, <2>2, <2>3, <2>4, <2>6 DEF OriginInv
<1>3. CASE Restart
  <2>1. /\ DOMAIN procs' \subseteq DOMAIN procs
        /\ \A p \in DOMAIN procs' : procs'[p] = procs[p]
    BY <1>3 DEF Restart
  <2>2. UNCHANGED <<resolver, containerID, cgroupPath, starts, moved, queue, reader, current,
                    delivered>>
    BY <1>3 DEF Restart, resolution, reading
  <2>3. \A e : Traced(e, starts, moved, procs) => Traced(e, starts', moved', procs')
    BY <2>1, <2>2 DEF Traced
  <2>4. ForeignDropped'
    BY <2>2 DEF OriginInv, ForeignDropped, Kept, OtherBranch, Own
  <2>5. /\ \A p \in DOMAIN procs' : starts'[p] >= 1
        /\ \A i \in DOMAIN queue' : Traced(queue'[i], starts', moved', procs')
        /\ reader' = "check" => Traced(current'.event, starts', moved', procs')
    BY <2>1, <2>2, <2>3 DEF OriginInv
  <2> QED BY <2>2, <2>4, <2>5 DEF OriginInv, Own
<1> QED BY <1>1, <1>2, <1>3

(* A step that only keeps what Traced says of every event keeps the origin. *)
LEMMA OriginKept ==
  ASSUME TypeInv, OriginInv,
         UNCHANGED <<resolver, containerID, cgroupPath, queue, reader, current, delivered>>,
         \A e \in EventRecords :
           Traced(e, starts, moved, procs) => Traced(e, starts', moved', procs'),
         \A p \in DOMAIN procs' : starts'[p] >= 1,
         \A p \in Pids : starts[p] <= starts'[p], moved \subseteq moved',
         starts' \in [Pids -> 0 .. MaxProcs]
  PROVE  OriginInv'
<1>1. queue \in Seq(EventRecords) /\ (reader = "check" => current.event \in EventRecords)
  BY DEF TypeInv, TypeOK
<1>2. \A i \in DOMAIN queue : queue[i] \in EventRecords
  BY <1>1
<1>3. /\ \A i \in DOMAIN queue' : Traced(queue'[i], starts', moved', procs')
      /\ reader' = "check" => Traced(current'.event, starts', moved', procs')
  BY <1>1, <1>2 DEF OriginInv
<1>4. ForeignDropped'
  BY ForeignMonotonic DEF OriginInv, TypeInv
<1> QED BY <1>3, <1>4 DEF OriginInv, Own

(* The steps of the processes keep the origin of events. *)
LEMMA OriginProcesses ==
  TypeInv /\ OriginInv
    /\ (\/ \E p \in Pids, c \in Commands, g \in Groups : StartProcess(p, c, g)
        \/ \E p \in Pids, c \in Commands : Exec(p, c)
        \/ \E p \in Pids, g \in Groups : Move(p, g)
        \/ \E p \in Pids : Exit(p)
        \/ \E p \in Pids : Emit(p))
    => OriginInv'
<1> SUFFICES ASSUME TypeInv, OriginInv,
                    \/ \E p \in Pids, c \in Commands, g \in Groups : StartProcess(p, c, g)
                    \/ \E p \in Pids, c \in Commands : Exec(p, c)
                    \/ \E p \in Pids, g \in Groups : Move(p, g)
                    \/ \E p \in Pids : Exit(p)
                    \/ \E p \in Pids : Emit(p)
             PROVE  OriginInv'
  OBVIOUS
<1>t. /\ starts \in [Pids -> 0 .. MaxProcs] /\ MaxProcs \in Nat
      /\ DOMAIN procs \subseteq Pids /\ \A q \in DOMAIN procs : procs[q] \in Processes
      /\ queue \in Seq(EventRecords)
  BY FilterAssumption DEF TypeInv, TypeOK
<1>p. \A q \in DOMAIN procs : starts[q] >= 1
  BY DEF OriginInv
<1>e. \A e \in EventRecords : e.pid \in Pids
  BY DEF EventRecords
<1>n. \A q \in Pids : starts[q] \in Nat
  BY <1>t
<1>1. ASSUME NEW p \in Pids, NEW c \in Commands, NEW g \in Groups, StartProcess(p, c, g)
      PROVE  OriginInv'
  <2>1. /\ p \notin DOMAIN procs /\ starts[p] < MaxProcs /\ moved' = moved
        /\ procs' = Put(procs, p, [command |-> c, group |-> g])
        /\ starts' = [starts EXCEPT ![p] = @ + 1]
        /\ UNCHANGED <<resolver, containerID, cgroupPath, queue, reader, current, delivered>>
    BY <1>1 DEF StartProcess, resolution, reading
  <2>2. /\ DOMAIN procs' = DOMAIN procs \cup {p}
        /\ \A q \in DOMAIN procs : procs'[q] = procs[q]
    BY <2>1 DEF Put
  <2>3. /\ starts'[p] = starts[p] + 1 /\ \A q \in Pids : q # p => starts'[q] = starts[q]
        /\ starts' \in [Pids -> 0 .. MaxProcs]
    BY <2>1, <1>t
  <2>4. \A q \in Pids : starts[q] <= starts'[q]
    BY <2>3, <1>n
  <2>5. \A q \in DOMAIN procs' : starts'[q] >= 1
    BY <2>2, <2>3, <1>t, <1>p, <1>n
  <2>6. ASSUME NEW e \in EventRecords, Traced(e, starts, moved, procs)
        PROVE  Traced(e, starts', moved', procs')
    <3>1. CASE e.pid = p
      <4>1. starts'[e.pid] \in Nat /\ starts'[e.pid] >= 2
        BY <3>1, <2>3, <2>6, <1>n DEF Traced
      <4> QED BY <4>1 DEF Traced
    <3>2. CASE e.pid # p
      BY <3>2, <2>1, <2>2, <2>3, <2>6, <1>e DEF Traced
    <3> QED BY <3>1, <3>2
  <2> QED BY <2>1, <2>3, <2>4, <2>5, <2>6, OriginKept
<1>2. ASSUME NEW p \in Pids, NEW c \in Commands, Exec(p, c)
      PROVE  OriginInv'
  <2>1. /\ procs' = [procs EXCEPT ![p].command = c] /\ starts' = starts /\ moved' = moved
        /\ UNCHANGED <<resolver, containerID, cgroupPath, queue, reader, current, delivered>>
    BY <1>2 DEF Exec, resolution, reading
  <2>2. DOMAIN procs' = DOMAIN procs /\ \A q \in DOMAIN procs : procs'[q].group = procs[q].group
    <3>1. DOMAIN procs' = DOMAIN procs /\ \A q \in DOMAIN procs : q # p => procs'[q] = procs[q]
      BY <2>1
    <3>2. ASSUME p \in DOMAIN procs
          PROVE  procs'[p].group = procs[p].group
      <4>1. procs'[p] = [procs[p] EXCEPT !.command = c] /\ procs[p] \in Processes
        BY <2>1, <1>t, <3>2
      <4> QED BY <4>1 DEF Processes
    <3> QED BY <3>1, <3>2
  <2>3. \A e \in EventRecords :
          Traced(e, starts, moved, procs) => Traced(e, starts', moved', procs')
    BY <2>1, <2>2 DEF Traced
  <2>4. \A q \in Pids : starts[q] <= starts'[q]
    BY <2>1, <1>n
  <2> QED BY <2>1, <2>2, <2>3, <2>4, <1>t, <1>p, OriginKept
<1>3. ASSUME NEW p \in Pids, NEW g \in Groups, Move(p, g)
      PROVE  OriginInv'
  <2>1. /\ procs' = [procs EXCEPT ![p].group = g] /\ starts' = starts /\ moved' = moved \cup {p}
        /\ UNCHANGED <<resolver, containerID, cgroupPath, queue, reader, current, delivered>>
    BY <1>3 DEF Move, resolution, reading
  <2>2. DOMAIN procs' = DOMAIN procs /\ \A q \in DOMAIN procs : q # p => procs'[q] = procs[q]
    BY <2>1
  <2>3. \A e \in EventRecords :
          Traced(e, starts, moved, procs) => Traced(e, starts', moved', procs')
    BY <2>1, <2>2 DEF Traced
  <2>4. \A q \in Pids : starts[q] <= starts'[q]
    BY <2>1, <1>n
  <2> QED BY <2>1, <2>2, <2>3, <2>4, <1>t, <1>p, OriginKept
<1>4. ASSUME NEW p \in Pids, Exit(p)
      PROVE  OriginInv'
  <2>1. /\ starts' = starts /\ moved' = moved
        /\ UNCHANGED <<resolver, containerID, cgroupPath, queue, reader, current, delivered>>
    BY <1>4 DEF Exit, resolution, reading
  <2>2. DOMAIN procs' \subseteq DOMAIN procs /\ \A q \in DOMAIN procs' : procs'[q] = procs[q]
    BY <1>4 DEF Exit
  <2>3. \A e \in EventRecords :
          Traced(e, starts, moved, procs) => Traced(e, starts', moved', procs')
    BY <2>1, <2>2 DEF Traced
  <2>4. \A q \in Pids : starts[q] <= starts'[q]
    BY <2>1, <1>n
  <2> QED BY <2>1, <2>2, <2>3, <2>4, <1>t, <1>p, OriginKept
<1>5. ASSUME NEW p \in Pids, Emit(p)
      PROVE  OriginInv'
  <2> DEFINE e == [pid |-> p, group |-> procs[p].group]
  <2>1. /\ resolver = "done" /\ p \in DOMAIN procs /\ queue' = Append(queue, e)
        /\ UNCHANGED <<procs, starts, moved>>
        /\ UNCHANGED <<resolver, containerID, cgroupPath, reader, current, delivered>>
    BY <1>5 DEF Emit, resolution, reading, world
  <2>2. e \in EventRecords /\ Traced(e, starts, moved, procs)
    BY <2>1, <1>t, <1>p DEF EventRecords, Traced, Processes
  <2> HIDE DEF e
  <2>3. \A i \in DOMAIN queue' : queue'[i] = e \/ \E j \in DOMAIN queue : queue'[i] = queue[j]
    <3>1. /\ Len(queue) \in Nat /\ DOMAIN queue = 1 .. Len(queue)
          /\ DOMAIN queue' = 1 .. Len(queue) + 1 /\ queue'[Len(queue) + 1] = e
          /\ \A i \in 1 .. Len(queue) : queue'[i] = queue[i]
      BY <2>1, <2>2, <1>t
    <3> QED BY <3>1
  <2>4. \A i \in DOMAIN queue' : Traced(queue'[i], starts', moved', procs')
    BY <2>1, <2>2, <2>3 DEF OriginInv
  <2>5. ForeignDropped'
    BY <2>1 DEF OriginInv, ForeignDropped, Kept, OtherBranch, Own
  <2> QED BY <2>1, <2>4, <2>5 DEF OriginInv, Own
<1> QED BY <1>1, <1>2, <1>3, <1>4, <1>5

(* A check delivers an event of another pod only if its pid or process changed. *)
LEMMA OriginUser ==
  TypeInv /\ OriginInv /\ (ReadEvent \/ CheckCgroup \/ Report \/ UNCHANGED vars) => OriginInv'
<1> SUFFICES ASSUME TypeInv, OriginInv, ReadEvent \/ CheckCgroup \/ Report \/ UNCHANGED vars
             PROVE  OriginInv'
  OBVIOUS
<1>t. queue \in Seq(EventRecords) /\ delivered \in Seq(Deliveries)
  BY DEF TypeInv, TypeOK
<1>1. CASE ReadEvent
  <2>1. /\ reader = "read" /\ reader' = "check" /\ queue # <<>> /\ queue' = Tail(queue)
        /\ current'.event = Head(queue)
        /\ UNCHANGED <<procs, starts, moved, resolver, containerID, cgroupPath, delivered>>
    BY <1>1 DEF ReadEvent, resolution, world
  <2>2. /\ Head(queue) = queue[1] /\ 1 \in DOMAIN queue
        /\ \A i \in DOMAIN queue' : i + 1 \in DOMAIN queue /\ queue'[i] = queue[i + 1]
    BY <2>1, <1>t
  <2>3. /\ \A i \in DOMAIN queue' : Traced(queue'[i], starts', moved', procs')
        /\ Traced(current'.event, starts', moved', procs')
    BY <2>1, <2>2 DEF OriginInv
  <2>4. ForeignDropped'
    BY <2>1 DEF OriginInv, ForeignDropped, Kept, OtherBranch, Own
  <2>5. resolver = "done"
    BY <2>1 DEF OriginInv
  <2> QED BY <2>1, <2>3, <2>4, <2>5 DEF OriginInv, Own
<1>2. CASE CheckCgroup
  <2>1. /\ reader = "check" /\ reader' = "read"
        /\ UNCHANGED <<procs, starts, moved, resolver, containerID, cgroupPath, queue>>
    BY <1>2 DEF CheckCgroup, resolution, world
  <2>2. resolver = "done" /\ cgroupPath = Own
    BY <2>1 DEF OriginInv
  <2>3. /\ current.event \in EventRecords /\ current \in Deliveries
        /\ Traced(current.event, starts, moved, procs)
    BY <2>1 DEF TypeInv, TypeOK, OriginInv, Deliveries
  <2>4. ASSUME isPIDInCgroup(current.event.pid), OtherBranch(current.event.group)
        PROVE  starts[current.event.pid] > 1 \/ current.event.pid \in moved
    <3> DEFINE p == current.event.pid
    <3>1. p \in DOMAIN procs /\ Related(procs[p].group)
      BY <2>4 DEF isPIDInCgroup
    <3> SUFFICES ASSUME starts[p] = 1, p \notin moved PROVE FALSE
      <4>1. starts[p] >= 1 /\ starts[p] \in Nat
        <5>1. starts \in [Pids -> 0 .. MaxProcs] /\ MaxProcs \in Nat /\ p \in Pids
          BY <2>3, FilterAssumption DEF TypeInv, TypeOK, EventRecords
        <5> QED BY <5>1, <2>3 DEF Traced
      <4> QED BY <4>1
    <3>2. procs[p].group = current.event.group
      BY <3>1, <2>3 DEF Traced
    <3>3. containerID \in Ids
      BY <2>2 DEF TypeInv
    <3>4. Own \in Seq(DOMAIN Rank) /\ current.event.group \in Seq(DOMAIN Rank)
      BY <3>3, <2>3, FilterAssumption DEF Own, EventRecords
    <3>5. PICK i \in DOMAIN current.event.group \cap DOMAIN Own : current.event.group[i] # Own[i]
      BY <2>4 DEF OtherBranch
    <3>6. i \in 1 .. Len(Own) /\ i \in 1 .. Len(current.event.group)
      BY <3>4, <3>5
    <3>7. ~IsPrefix(Own, current.event.group) /\ ~IsPrefix(current.event.group, Own)
      BY <3>4, <3>5, <3>6, PrefixAgrees
    <3> QED BY <3>1, <3>2, <3>7, <2>2 DEF Related
  <2>5. CASE delivered' = delivered
    <3>1. ForeignDropped'
      BY <2>1, <2>5 DEF OriginInv, ForeignDropped, Kept, OtherBranch, Own
    <3> QED BY <2>1, <2>2, <2>5, <3>1 DEF OriginInv, Own
  <2>6. CASE isPIDInCgroup(current.event.pid) /\ delivered' = Append(delivered, current)
    <3>1. \A i \in DOMAIN delivered' :
            delivered'[i] = current \/ \E j \in DOMAIN delivered : delivered'[i] = delivered[j]
      <4>1. /\ Len(delivered) \in Nat /\ DOMAIN delivered = 1 .. Len(delivered)
            /\ DOMAIN delivered' = 1 .. Len(delivered) + 1
            /\ delivered'[Len(delivered) + 1] = current
            /\ \A i \in 1 .. Len(delivered) : delivered'[i] = delivered[i]
        BY <2>6, <2>3, <1>t
      <4> QED BY <4>1
    <3>2. \A d \in Kept' : d = current \/ d \in Kept
      BY <3>1 DEF Kept
    <3>3. ForeignDropped'
      BY <3>2, <2>1, <2>4, <2>6 DEF OriginInv, ForeignDropped, OtherBranch, Own
    <3> QED BY <2>1, <2>2, <3>3 DEF OriginInv, Own
  <2> QED BY <1>2, <2>5, <2>6 DEF CheckCgroup
<1>3. CASE Report \/ UNCHANGED vars
  <2>1. UNCHANGED <<procs, starts, moved, resolver, containerID, cgroupPath, queue, reader,
                    current, delivered>>
    BY <1>3 DEF Report, vars, resolution, world, reading
  <2>2. ForeignDropped'
    BY <2>1 DEF OriginInv, ForeignDropped, Kept, OtherBranch, Own
  <2>3. /\ \A i \in DOMAIN queue' : Traced(queue'[i], starts', moved', procs')
        /\ reader' = "check" => Traced(current'.event, starts', moved', procs')
    BY <2>1 DEF OriginInv
  <2> QED BY <2>1, <2>2, <2>3 DEF OriginInv, Own
<1> QED BY <1>1, <1>2, <1>3

(* Every step keeps the origin of events. *)
LEMMA OriginStep == TypeInv /\ OriginInv /\ [Next]_vars => OriginInv'
BY OriginResolve, OriginProcesses, OriginUser DEF Next

(* An event of another pod is delivered only if its pid went to another process  *)
(* or its process moved between the event and the check: for any processes, any  *)
(* cgroup tree whose scopes bear the ids of their containers, and any restarts.  *)
THEOREM ForeignDroppedCorrect == Spec => []ForeignDropped
<1>1. Init => TypeInv /\ OriginInv
  BY TypeInit, OriginInit
<1>2. TypeInv /\ OriginInv /\ [Next]_vars => (TypeInv /\ OriginInv)'
  BY TypeStep, OriginStep
<1>3. TypeInv /\ OriginInv => ForeignDropped
  BY DEF OriginInv
<1> QED BY <1>1, <1>2, <1>3, PTL DEF Spec

(* A process that is in the resolved container, or in a cgroup of it, when the   *)
(* event is checked is never taken for a stranger.                               *)
THEOREM OwnKeptCorrect == Spec => OwnKept
<1> DEFINE Step == reader = "check" /\ reader' = "read" =>
                     LET pid == current.event.pid
                     IN pid \in DOMAIN procs /\ IsPrefix(Own, procs[pid].group)
                          => delivered' = Append(delivered, current)
<1>1. Init => TypeInv /\ OriginInv
  BY TypeInit, OriginInit
<1>2. TypeInv /\ OriginInv /\ [Next]_vars => (TypeInv /\ OriginInv)'
  BY TypeStep, OriginStep
<1>3. TypeInv /\ OriginInv /\ [Next]_vars => [Step]_vars
  <2> SUFFICES ASSUME OriginInv, [Next]_vars, reader = "check", reader' = "read",
                      current.event.pid \in DOMAIN procs,
                      IsPrefix(Own, procs[current.event.pid].group)
               PROVE  delivered' = Append(delivered, current)
    OBVIOUS
  <2>1. CheckCgroup
    BY DEF Next, vars, reading, GetPod, FindCgroup, Restart, StartProcess, Exec, Move, Exit, Emit,
           ReadEvent, Report
  <2>2. cgroupPath = Own
    BY DEF OriginInv
  <2> QED BY <2>1, <2>2 DEF CheckCgroup, isPIDInCgroup, Related
<1> QED BY <1>1, <1>2, <1>3, PTL DEF Spec, OwnKept
-----------------------------------------------------------------------------
(* A name that is cached is the one every event of its pid has and will have,  *)
(* and one the pid has had.                                                     *)
CachedAs(d) ==
  /\ d.event.pid \in DOMAIN nameCache
  /\ d.name = nameCache[d.event.pid]

NameInv ==
  /\ \A p \in DOMAIN procs : procs[p].command \in held[p]
  /\ \A p \in DOMAIN nameCache : nameCache[p] \in held[p] \cup {""}
  /\ reader = "check" => CachedAs(current)
  /\ \A d \in Kept : CachedAs(d)

(* Nothing has a name in the initial state. *)
LEMMA NameInit == Init => NameInv
<1> SUFFICES ASSUME Init PROVE NameInv
  OBVIOUS
<1>1. procs = <<>> /\ nameCache = <<>> /\ delivered = <<>> /\ reader = "read"
  BY DEF Init
<1>2. DOMAIN procs = {} /\ DOMAIN nameCache = {} /\ DOMAIN delivered = {}
  BY <1>1
<1> QED BY <1>1, <1>2 DEF NameInv, Kept

(* Names that the processes get later are of no consequence. *)
LEMMA NameKept ==
  ASSUME NameInv, UNCHANGED <<nameCache, reader, current, delivered>>,
         \A p \in DOMAIN nameCache : held[p] \subseteq held'[p],
         \A p \in DOMAIN procs' : procs'[p].command \in held'[p]
  PROVE  NameInv'
BY DEF NameInv, CachedAs, Kept

(* Every step keeps the names. *)
LEMMA NameStep == TypeInv /\ NameInv /\ [Next]_vars => NameInv'
<1> SUFFICES ASSUME TypeInv, NameInv, [Next]_vars PROVE NameInv'
  OBVIOUS
<1>t. /\ DOMAIN procs \subseteq Pids /\ \A q \in DOMAIN procs : procs[q] \in Processes
      /\ held \in [Pids -> SUBSET Commands] /\ DOMAIN nameCache \subseteq Pids
      /\ delivered \in Seq(Deliveries) /\ queue \in Seq(EventRecords)
  BY DEF TypeInv, TypeOK
<1>p. \A q \in DOMAIN procs : procs[q].command \in held[q]
  BY DEF NameInv
<1>1. CASE GetPod \/ FindCgroup \/ Report \/ UNCHANGED vars \/ \E p \in Pids : Emit(p)
  <2>1. UNCHANGED <<nameCache, reader, current, delivered, held, procs>>
    BY <1>1 DEF GetPod, FindCgroup, Report, Emit, vars, world, reading
  <2> QED BY <2>1, <1>p, NameKept
<1>2. CASE Restart \/ \E p \in Pids : Exit(p)
  <2>1. UNCHANGED <<nameCache, reader, current, delivered, held>>
    BY <1>2 DEF Restart, Exit, reading
  <2>2. DOMAIN procs' \subseteq DOMAIN procs /\ \A q \in DOMAIN procs' : procs'[q] = procs[q]
    BY <1>2 DEF Restart, Exit
  <2> QED BY <2>1, <2>2, <1>p, NameKept
<1>3. ASSUME NEW p \in Pids, NEW c \in Commands, NEW g \in Groups, StartProcess(p, c, g)
      PROVE  NameInv'
  <2>1. /\ UNCHANGED <<nameCache, reader, current, delivered>>
        /\ held' = [held EXCEPT ![p] = @ \cup {c}]
        /\ procs' = Put(procs, p, [command |-> c, group |-> g])
    BY <1>3 DEF StartProcess, reading
  <2>2. /\ held'[p] = held[p] \cup {c}
        /\ \A q \in Pids : held[q] \subseteq held'[q]
    BY <2>1, <1>t
  <2>3. \A q \in DOMAIN procs' : procs'[q].command \in held'[q]
    <3>1. /\ DOMAIN procs' = DOMAIN procs \cup {p} /\ procs'[p].command = c
          /\ \A q \in DOMAIN procs : q # p => procs'[q] = procs[q]
      BY <2>1 DEF Put
    <3> QED BY <3>1, <2>2, <1>t, <1>p
  <2> QED BY <2>1, <2>2, <2>3, <1>t, NameKept
<1>4. ASSUME NEW p \in Pids, NEW c \in Commands, Exec(p, c)
      PROVE  NameInv'
  <2>1. /\ UNCHANGED <<nameCache, reader, current, delivered>>
        /\ held' = [held EXCEPT ![p] = @ \cup {c}]
        /\ p \in DOMAIN procs /\ procs' = [procs EXCEPT ![p].command = c]
    BY <1>4 DEF Exec, reading
  <2>2. /\ held'[p] = held[p] \cup {c}
        /\ \A q \in Pids : held[q] \subseteq held'[q]
    BY <2>1, <1>t
  <2>3. \A q \in DOMAIN procs' : procs'[q].command \in held'[q]
    <3>1. /\ DOMAIN procs' = DOMAIN procs
          /\ procs'[p] = [procs[p] EXCEPT !.command = c] /\ procs[p] \in Processes
          /\ \A q \in DOMAIN procs : q # p => procs'[q] = procs[q]
      BY <2>1, <1>t
    <3>2. procs'[p].command = c
      BY <3>1 DEF Processes
    <3> QED BY <3>1, <3>2, <2>2, <1>t, <1>p
  <2> QED BY <2>1, <2>2, <2>3, <1>t, NameKept
<1>5. ASSUME NEW p \in Pids, NEW g \in Groups, Move(p, g)
      PROVE  NameInv'
  <2>1. /\ UNCHANGED <<nameCache, reader, current, delivered, held>>
        /\ p \in DOMAIN procs /\ procs' = [procs EXCEPT ![p].group = g]
    BY <1>5 DEF Move, reading
  <2>2. \A q \in DOMAIN procs' : procs'[q].command \in held'[q]
    <3>1. /\ DOMAIN procs' = DOMAIN procs
          /\ procs'[p] = [procs[p] EXCEPT !.group = g] /\ procs[p] \in Processes
          /\ \A q \in DOMAIN procs : q # p => procs'[q] = procs[q]
      BY <2>1, <1>t
    <3>2. procs'[p].command = procs[p].command
      BY <3>1 DEF Processes
    <3> QED BY <3>1, <3>2, <2>1, <1>p
  <2> QED BY <2>1, <2>2, NameKept
<1>6. CASE ReadEvent
  <2> DEFINE p == Head(queue).pid
             name == getProcessNameQuick(p)
  <2>1. /\ reader = "read" /\ queue # <<>>
        /\ current'.event.pid = p /\ current'.name = name
        /\ nameCache' = Put(nameCache, p, name)
        /\ UNCHANGED <<procs, held, delivered>>
    BY <1>6 DEF ReadEvent, CacheName, world
  <2>2. name \in held[p] \cup {""} /\ (p \in DOMAIN nameCache => name = nameCache[p])
    BY <1>p DEF NameInv, getProcessNameQuick, ProcName
  <2> HIDE DEF p, name
  <2>3. /\ DOMAIN nameCache' = DOMAIN nameCache \cup {p} /\ nameCache'[p] = name
        /\ \A q \in DOMAIN nameCache : nameCache'[q] = nameCache[q]
    BY <2>1, <2>2 DEF Put
  <2>4. \A q \in DOMAIN nameCache' : nameCache'[q] \in held'[q] \cup {""}
    BY <2>1, <2>2, <2>3 DEF NameInv
  <2>5. \A d \in Kept' : d.event.pid \in DOMAIN nameCache' /\ d.name = nameCache'[d.event.pid]
    BY <2>1, <2>3 DEF NameInv, Kept, CachedAs
  <2> QED BY <2>1, <2>3, <2>4, <2>5, <1>p DEF NameInv, CachedAs
<1>7. CASE CheckCgroup
  <2>1. /\ reader = "check" /\ reader' = "read" /\ UNCHANGED <<procs, held, nameCache>>
        /\ delivered' \in {delivered, Append(delivered, current)}
    BY <1>7 DEF CheckCgroup, world
  <2>2. current \in Deliveries /\ CachedAs(current)
    BY <2>1 DEF TypeInv, TypeOK, NameInv, Deliveries
  <2>3. \A i \in DOMAIN delivered' :
          delivered'[i] = current \/ \E j \in DOMAIN delivered : delivered'[i] = delivered[j]
    <3>1. CASE delivered' = delivered
      BY <3>1
    <3>2. CASE delivered' = Append(delivered, current)
      <4>1. /\ Len(delivered) \in Nat /\ DOMAIN delivered = 1 .. Len(delivered)
            /\ DOMAIN delivered' = 1 .. Len(delivered) + 1
            /\ delivered'[Len(delivered) + 1] = current
            /\ \A i \in 1 .. Len(delivered) : delivered'[i] = delivered[i]
        BY <3>2, <2>2, <1>t
      <4> QED BY <4>1
    <3> QED BY <2>1, <3>1, <3>2
  <2>4. \A d \in Kept' : d = current \/ d \in Kept
    BY <2>3 DEF Kept
  <2>5. \A d \in Kept' : d.event.pid \in DOMAIN nameCache' /\ d.name = nameCache'[d.event.pid]
    BY <2>1, <2>2, <2>4 DEF NameInv, CachedAs
  <2> QED BY <2>1, <2>5 DEF NameInv, CachedAs
<1> QED BY <1>1, <1>2, <1>3, <1>4, <1>5, <1>6, <1>7 DEF Next

(* All events of a pid carry one name and it is one the pid has had, although a  *)
(* name is asked for at any time after the event and the pid may change hands.   *)
THEOREM OneNamePerPidCorrect == Spec => []OneNamePerPid
<1>1. Init => TypeInv /\ NameInv
  BY TypeInit, NameInit
<1>2. TypeInv /\ NameInv /\ [Next]_vars => (TypeInv /\ NameInv)'
  BY TypeStep, NameStep
<1>3. TypeInv /\ NameInv => OneNamePerPid
  BY DEF NameInv, CachedAs, OneNamePerPid
<1> QED BY <1>1, <1>2, <1>3, PTL DEF Spec
-----------------------------------------------------------------------------
(* What a report shows for a pid: the name its events carry or, if they carry  *)
(* none, what the report's own cache has for it.                                *)
ShownAs(p) ==
  IF nameCache[p] # "" THEN nameCache[p]
  ELSE IF reportCache[p] # "" THEN reportCache[p] ELSE "unknown"

ReportInv ==
  \A p \in DOMAIN report :
    /\ p \in DOMAIN nameCache
    /\ nameCache[p] = "" => p \in DOMAIN reportCache
    /\ report[p] = ShownAs(p)

(* A report shows every pid as ShownAs says. *)
LEMMA ReportShows == TypeInv /\ NameInv /\ ReportInv /\ Report => ReportInv'
<1> SUFFICES ASSUME TypeInv, NameInv, ReportInv, Report PROVE ReportInv'
  OBVIOUS
<1> DEFINE asked == {p \in Active : Named(p) = {}}
           shown(p) == IF p \in asked THEN getProcessName(p) ELSE delivered[Min(Named(p))].name
<1>1. /\ report' = [p \in Active |-> IF shown(p) = "" THEN "unknown" ELSE shown(p)]
      /\ reportCache' = [p \in DOMAIN reportCache \cup asked |-> getProcessName(p)]
      /\ nameCache' = nameCache
  BY DEF Report, reading
<1>2. \A i \in DOMAIN delivered :
        /\ i \in Nat
        /\ delivered[i].event.pid \in DOMAIN nameCache
        /\ delivered[i].name = nameCache[delivered[i].event.pid]
  <2>1. delivered \in Seq(Deliveries)
    BY DEF TypeInv, TypeOK
  <2>2. DOMAIN delivered \subseteq Nat
    BY <2>1
  <2> QED BY <2>2 DEF NameInv, CachedAs, Kept
<1>3. ASSUME NEW p \in Active
      PROVE  /\ p \in DOMAIN nameCache
             /\ p \in asked => nameCache[p] = "" /\ p \in DOMAIN reportCache'
                               /\ shown(p) = reportCache'[p]
             /\ p \notin asked => nameCache[p] # "" /\ shown(p) = nameCache[p]
  <2>1. PICK i \in DOMAIN delivered : delivered[i].event.pid = p
    BY DEF Active
  <2>2. p \in DOMAIN nameCache
    BY <2>1, <1>2
  <2>3. CASE p \in asked
    <3>1. delivered[i].name = ""
      BY <2>1, <2>3 DEF Named
    <3> QED BY <3>1, <2>1, <2>2, <2>3, <1>1, <1>2
  <2>4. CASE p \notin asked
    <3>1. Named(p) # {} /\ Named(p) \in SUBSET Nat
      BY <2>4, <1>2 DEF Named
    <3>2. Min(Named(p)) \in Named(p)
      BY <3>1, MinIn
    <3>3. /\ delivered[Min(Named(p))].name = nameCache[p]
          /\ delivered[Min(Named(p))].name # ""
      BY <3>2, <1>2 DEF Named
    <3> QED BY <2>2, <2>4, <3>3
  <2> QED BY <2>3, <2>4, <2>2
<1> HIDE DEF asked, shown
<1>4. /\ DOMAIN report' = Active
      /\ \A p \in Active : report'[p] = IF shown(p) = "" THEN "unknown" ELSE shown(p)
  BY <1>1
<1> QED BY <1>1, <1>3, <1>4 DEF ReportInv, ShownAs

(* Every step keeps what the last report shows true. *)
LEMMA ReportStep == TypeInv /\ NameInv /\ ReportInv /\ [Next]_vars => ReportInv'
<1> SUFFICES ASSUME TypeInv, NameInv, ReportInv, [Next]_vars PROVE ReportInv'
  OBVIOUS
<1>1. CASE Report
  BY <1>1, ReportShows
<1>2. CASE ReadEvent
  <2> DEFINE p == Head(queue).pid
             name == getProcessNameQuick(p)
  <2>1. nameCache' = Put(nameCache, p, name) /\ UNCHANGED <<report, reportCache>>
    BY <1>2 DEF ReadEvent, CacheName, reporting
  <2>2. p \in DOMAIN nameCache => name = nameCache[p]
    BY DEF getProcessNameQuick
  <2> HIDE DEF p, name
  <2>3. /\ DOMAIN nameCache \subseteq DOMAIN nameCache'
        /\ \A q \in DOMAIN nameCache : nameCache'[q] = nameCache[q]
    BY <2>1, <2>2 DEF Put
  <2> QED BY <2>1, <2>3 DEF ReportInv, ShownAs
<1>3. CASE UNCHANGED <<nameCache, report, reportCache>>
  BY <1>3 DEF ReportInv, ShownAs
<1>4. Report \/ ReadEvent \/ UNCHANGED <<nameCache, report, reportCache>>
  BY DEF Next, vars, reading, reporting, GetPod, FindCgroup, Restart, StartProcess, Exec, Move,
         Exit, Emit, CheckCgroup
<1> QED BY <1>1, <1>2, <1>3, <1>4

(* Two reports agree: the cache of the report only grows, and answers itself. *)
LEMMA ReportAgrees ==
  TypeInv /\ NameInv /\ ReportInv /\ [Next]_vars =>
    \A p \in DOMAIN report \cap DOMAIN report' : report'[p] = report[p]
<1> SUFFICES ASSUME TypeInv, NameInv, ReportInv, [Next]_vars,
                    NEW p \in DOMAIN report \cap DOMAIN report'
             PROVE  report'[p] = report[p]
  OBVIOUS
<1>1. CASE Report
  <2>1. ReportInv'
    BY <1>1, ReportShows
  <2>2. /\ nameCache' = nameCache
        /\ p \in DOMAIN reportCache => p \in DOMAIN reportCache' /\ reportCache'[p] = reportCache[p]
    BY <1>1 DEF Report, reading, getProcessName
  <2>3. /\ report[p] = ShownAs(p) /\ (nameCache[p] = "" => p \in DOMAIN reportCache)
        /\ report'[p] = IF nameCache'[p] # "" THEN nameCache'[p]
                        ELSE IF reportCache'[p] # "" THEN reportCache'[p] ELSE "unknown"
    BY <2>1 DEF ReportInv, ShownAs
  <2> QED BY <2>2, <2>3 DEF ShownAs
<1>2. CASE ~Report
  <2>1. report' = report
    BY <1>2 DEF Next, vars, reporting, GetPod, FindCgroup, Restart, StartProcess, Exec, Move,
                Exit, Emit, ReadEvent, CheckCgroup
  <2> QED BY <2>1
<1> QED BY <1>1, <1>2

(* A pid keeps its name from one report to the next, for any number of reports.  *)
THEOREM ReportNameStableCorrect == Spec => ReportNameStable
<1>1. Init => TypeInv /\ NameInv /\ ReportInv
  <2>1. Init => ReportInv
    <3> SUFFICES ASSUME Init PROVE ReportInv
      OBVIOUS
    <3>1. report = <<>>
      BY DEF Init
    <3>2. DOMAIN report = {}
      BY <3>1
    <3> QED BY <3>2 DEF ReportInv
  <2> QED BY <2>1, TypeInit, NameInit
<1>2. TypeInv /\ NameInv /\ ReportInv /\ [Next]_vars => (TypeInv /\ NameInv /\ ReportInv)'
  BY TypeStep, NameStep, ReportStep
<1>3. TypeInv /\ NameInv /\ ReportInv /\ [Next]_vars =>
        [\A p \in DOMAIN report \cap DOMAIN report' : report'[p] = report[p]]_vars
  BY ReportAgrees
<1> QED BY <1>1, <1>2, <1>3, PTL DEF Spec, ReportNameStable
=============================================================================
