---------------------------- MODULE CgroupSearch ----------------------------
(***************************************************************************)
(* How the container's cgroup is found (internal/kubernetes/pod.go): the   *)
(* trees of three slices are walked, one after the other, and the first    *)
(* path in which the container id, or its first 12 characters, occurs      *)
(* anywhere is taken.  A path is the sequence of its segments.             *)
(***************************************************************************)
EXTENDS Naturals, Sequences, SequencesExt

CONSTANTS
  Rank,       \* the place of each segment in the lexical order of names
  MentionedIn \* the container ids each segment contains, or the first 12 characters of

Slices == <<"kubepods.slice", "system.slice", "user.slice">>

NotFound == <<"not found">>

Mentions(path, id) == \E i \in DOMAIN path : id \in MentionedIn[path[i]]

Found(tree, slice, id) == {p \in tree : p # <<>> /\ p[1] = slice /\ Mentions(p, id)}

(* filepath.Walk: a directory before what is in it, that by name. *)
Precedes(p, q) ==
  \/ IsStrictPrefix(p, q)
  \/ \E i \in DOMAIN p \cap DOMAIN q :
       /\ \A j \in 1 .. i - 1 : p[j] = q[j]
       /\ Rank[p[i]] < Rank[q[i]]

FirstOf(paths) == CHOOSE p \in paths : \A q \in paths : p = q \/ Precedes(p, q)

findCgroupPath(tree, id) ==
  LET hits == {i \in DOMAIN Slices : Found(tree, Slices[i], id) # {}}
  IN IF hits = {} THEN NotFound ELSE FirstOf(Found(tree, Slices[Min(hits)], id))
=============================================================================
