------------------------------ MODULE BpfMaps ------------------------------
(***************************************************************************)
(* The kernel objects the BPF programs of bpf/podtrace.bpf.c share: the    *)
(* hash maps start_times and dns_targets, the ring buffer events, and the  *)
(* two small helpers every program calls.  Pure operators only: the state  *)
(* belongs to CallProbes and SchedProbe.                                   *)
(*                                                                         *)
(* A hash map is a function whose domain is the set of keys it holds.      *)
(***************************************************************************)
EXTENDS Naturals, Sequences, FiniteSets

CONSTANTS Word,        \* 2^32 in the code: the number of u32 values
          MaxEntries,  \* max_entries of the two hash maps (1024)
          RingCap      \* events that fit in the ring buffer (256 KB)

ASSUME BpfAssumption ==
  /\ Word \in Nat \ {0}
  /\ MaxEntries \in Nat
  /\ RingCap \in Nat

(* The u64 map key: the process id in the high half, the thread in the low. *)
get_key(pid, tid) == pid * Word + tid

(* Nanoseconds since start, 0 if the clock reads less than start. *)
calc_latency(start, now) == IF now > start THEN now - start ELSE 0

(* bpf_map_update_elem(.., BPF_ANY): overwrites a key that is there, adds   *)
(* one that is not unless the map is full.  The programs ignore the error.  *)
UpdateElem(map, key, val) ==
  IF key \in DOMAIN map \/ Cardinality(DOMAIN map) < MaxEntries
  THEN [k \in DOMAIN map \cup {key} |-> IF k = key THEN val ELSE map[k]]
  ELSE map

(* bpf_map_delete_elem: no effect on a key that is not there. *)
DeleteElem(map, key) == [k \in DOMAIN map \ {key} |-> map[k]]

(* bpf_ringbuf_output: the event is lost, silently, when there is no room.  *)
RingOutput(ring, e) == IF Len(ring) < RingCap THEN Append(ring, e) ELSE ring
=============================================================================
