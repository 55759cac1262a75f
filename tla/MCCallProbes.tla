---------------------------- MODULE MCCallProbes ----------------------------
(* A small instance of CallProbes for TLC. *)
EXTENDS CallProbes, TLC

(* All threads belong to process 1; a key is process * 4 + thread. *)
MCTgid == [t \in Threads |-> 1]

(* Which probed functions call which: a lookup reads /etc/hosts. *)
MCNests == {<<"getaddrinfo", "vfs_read">>}

(* Names are only compared. *)
NameSymmetry == Permutations(Names)

(* Bound: the run goes no further once no thread is left of which the properties *)
(* speak; that every one is mismatched never changes again.                      *)
OneMatched == mismatched # Threads
=============================================================================
