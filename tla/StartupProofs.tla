--------------------------- MODULE StartupProofs ---------------------------
(***************************************************************************)
(* Theorems about Startup, for any set of kernel probes, any need and any  *)
(* limits.                                                                 *)
(*                                                                         *)
(* NothingLeft and Nested speak of the ends and of the reader; the         *)
(* inductive invariant IInv says for every place of runPodtrace what is    *)
(* acquired there.  The limit is a matter of RaiseMemlock alone.           *)
(***************************************************************************)
EXTENDS Startup, TLAPS

(* The probes are known by their names, none is both required and optional. *)
IInv ==
  /\ TypeOK
  /\ pc \in {"resolve", "memlock", "load"} =>
       collection = "none" /\ attempted = {} /\ reader = "none"
  /\ pc \in {"attach", "undoAttach", "undoReader"} => collection = "open" /\ reader = "none"
  /\ pc \in {"attach", "tracing", "stop"} => attempted \cap KernelProbes \subseteq links
  /\ pc \in {"tracing", "stop"} =>
       collection = "open" /\ reader = "open" /\ KernelProbes \subseteq attempted
  /\ pc = "stopLinks" => collection = "open" /\ reader = "closed"
  /\ pc \in {"failed", "exited"} => links = {} /\ collection # "open" /\ reader # "open"
  /\ rlimit.cur >= initial.cur /\ rlimit.max >= initial.max

(* The initial states satisfy the invariant: nothing is acquired yet. *)
LEMMA InitInv == Init => IInv
<1> SUFFICES ASSUME Init PROVE IInv
  OBVIOUS
<1>1. rlimit.cur \in Nat /\ rlimit.max \in Nat
  BY StartupAssumption DEF Init, Limits
<1> QED
  BY <1>1 DEF Init, IInv, TypeOK, Unlinking

(* Raising the memlock limit keeps the limits well-formed and lowers neither:   *)
(* what is asked for is at least what is there, and no limit is more than any.  *)
LEMMA RaiseKeeps ==
  ASSUME TypeOK, RaiseMemlock,
         rlimit.cur >= initial.cur /\ rlimit.max >= initial.max
  PROVE  /\ rlimit' \in Limits
         /\ rlimit'.cur >= initial.cur /\ rlimit'.max >= initial.max
<1>1. /\ rlimit \in Limits /\ initial \in Limits
      /\ MemlockNeed \in Nat /\ MaxLimit \in Nat /\ MemlockNeed <= MaxLimit
  BY StartupAssumption DEF TypeOK
<1>2. /\ rlimit.cur \in 0 .. MaxLimit /\ rlimit.max \in 0 .. MaxLimit /\ rlimit.cur <= rlimit.max
      /\ initial.cur \in 0 .. MaxLimit /\ initial.max \in 0 .. MaxLimit
  BY <1>1 DEF Limits
<1>3. CASE rlimit' \in RemoveMemlock(rlimit)
  BY <1>1, <1>2, <1>3 DEF RemoveMemlock, Unlimited, Limits
<1>4. CASE UNCHANGED rlimit
  BY <1>1, <1>4
<1>5. CASE rlimit.cur < MemlockNeed /\ rlimit' = Asked
  BY <1>1, <1>2, <1>5 DEF Asked, Limits
<1>6. CASE rlimit.cur < MemlockNeed /\ rlimit' = Fallback
  <2>1. Asked \in Limits /\ Asked.max >= rlimit.max /\ Asked.max >= MemlockNeed
    BY <1>1, <1>2 DEF Asked, Limits
  <2>2. Fallback = [cur |-> Asked.max, max |-> Asked.max]
    BY DEF Fallback, Asked
  <2> QED
    BY <1>1, <1>2, <1>6, <2>1, <2>2 DEF Limits
<1> QED
  BY <1>3, <1>4, <1>5, <1>6 DEF RaiseMemlock

(* Every step keeps the invariant. *)
LEMMA NextInv == IInv /\ [Next]_vars => IInv'
<1> SUFFICES ASSUME IInv, [Next]_vars PROVE IInv'
  OBVIOUS
<1> USE DEF IInv, TypeOK, Unlinking, resources
<1>1. CASE Resolve
  BY <1>1 DEF Resolve
<1>2. CASE RaiseMemlock
  <2>1. /\ rlimit' \in Limits
        /\ rlimit'.cur >= initial.cur /\ rlimit'.max >= initial.max
    BY <1>2, RaiseKeeps
  <2> QED
    BY <1>2, <2>1 DEF RaiseMemlock
<1>3. CASE Load
  BY <1>3 DEF Load
<1>4. ASSUME NEW p \in KernelProbes, AttachKernel(p) PROVE IInv'
  BY <1>4 DEF AttachKernel
<1>5. ASSUME NEW p \in OptionalProbes, AttachOptional(p) PROVE IInv'
  BY <1>5 DEF AttachOptional
<1>6. CASE OpenReader
  BY <1>6 DEF OpenReader
<1>7. CASE EndRun
  BY <1>7 DEF EndRun
<1>8. CASE CloseReader
  BY <1>8 DEF CloseReader
<1>9. ASSUME NEW p \in KernelProbes \cup OptionalProbes, CloseLink(p) PROVE IInv'
  BY <1>9 DEF CloseLink
<1>10. CASE CloseCollection
  BY <1>10 DEF CloseCollection
<1>11. CASE UNCHANGED vars
  BY <1>11 DEF vars
<1> QED
  BY <1>1, <1>2, <1>3, <1>4, <1>5, <1>6, <1>7, <1>8, <1>9, <1>10, <1>11 DEF Next

(* The invariant holds in every state of every behaviour. *)
LEMMA Invariance == Spec => []IInv
BY InitInv, NextInv, PTL DEF Spec

(* TypeOK: the variables of the start keep their types, for any set of probes. *)
THEOREM TypeCorrect == Spec => []TypeOK
<1>1. IInv => TypeOK
  BY DEF IInv
<1> QED
  BY <1>1, Invariance, PTL

(* NothingLeft: whichever step of the start fails, and after a regular end, no  *)
(* probe stays attached, no collection loaded and no reader open.               *)
THEOREM NothingLeftCorrect == Spec => []NothingLeft
<1>1. IInv => NothingLeft
  BY DEF IInv, NothingLeft
<1> QED
  BY <1>1, Invariance, PTL

(* Nested: probes and the reader live inside the collection, the reader inside  *)
(* the time in which all required probes are attached.                          *)
THEOREM NestedCorrect == Spec => []Nested
<1>1. IInv => Nested
  <2> SUFFICES ASSUME IInv PROVE Nested
    OBVIOUS
  <2>1. CASE pc \in {"resolve", "memlock", "load", "failed", "exited"}
    BY <2>1 DEF IInv, TypeOK, Nested
  <2>2. CASE pc \in {"attach", "tracing", "stop"} \cup Unlinking
    BY <2>2 DEF IInv, TypeOK, Nested, Unlinking
  <2> QED
    BY <2>1, <2>2 DEF IInv, TypeOK
<1> QED
  BY <1>1, Invariance, PTL

(* LimitNotLowered: neither memlock limit ever falls below that of the start.   *)
THEOREM LimitNotLoweredCorrect == Spec => []LimitNotLowered
<1>1. IInv => LimitNotLowered
  BY DEF IInv, LimitNotLowered
<1> QED
  BY <1>1, Invariance, PTL
=============================================================================
