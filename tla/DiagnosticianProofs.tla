------------------------ MODULE DiagnosticianProofs ------------------------
(***************************************************************************)
(* Proofs about the diagnostic report, for any events, any times and any   *)
(* thresholds: first facts about sums and counts over finite sets          *)
(* (SumFunctionOnSet), then the arithmetic of the report (Windows and      *)
(* Statistics), and then what each part of a report says of the events     *)
(* collected.                                                              *)
(***************************************************************************)
EXTENDS Diagnostician, FiniteSetTheorems, WellFoundedInduction, SequenceTheorems, TLAPS
-----------------------------------------------------------------------------
(* Induction over the naturals, by the set of numbers for which a fact holds. *)
LEMMA NatSetInduction ==
  ASSUME NEW G, 0 \in G, \A n \in Nat : n \in G => n + 1 \in G
  PROVE  Nat \subseteq G
<1> DEFINE T == Nat \ G
           R == OpToRel(<, Nat)
<1> SUFFICES ASSUME T # {} PROVE FALSE
  OBVIOUS
<1> HIDE DEF R
<1>1. \E x \in T : \A y \in T : <<y, x>> \notin R
  <2>1. T \subseteq Nat
    OBVIOUS
  <2> HIDE DEF T
  <2> QED BY <2>1, NatLessThanWellFounded, WFMin DEF R
<1>2. PICK x \in T : \A y \in T : <<y, x>> \notin R
  BY <1>1
<1>3. x # 0 /\ x - 1 \in Nat /\ (x - 1) + 1 = x
  OBVIOUS
<1>4. x - 1 \in T
  BY <1>3
<1>5. <<x - 1, x>> \in R
  BY <1>3 DEF OpToRel, R
<1> QED BY <1>2, <1>4, <1>5

(* Induction over the subsets of a finite set. *)
LEMMA SubsetInduction ==
  ASSUME NEW S, IsFiniteSet(S), NEW G,
         \A T \in SUBSET S : (\A x \in T : T \ {x} \in G) => T \in G
  PROVE  \A T \in SUBSET S : T \in G
<1> DEFINE H == {n \in Nat : \A T \in SUBSET S : Cardinality(T) = n => T \in G}
<1>1. \A T \in SUBSET S : IsFiniteSet(T) /\ Cardinality(T) \in Nat
  BY FS_Subset, FS_CardinalityType
<1>2. 0 \in H
  <2>1. \A T \in SUBSET S : Cardinality(T) = 0 => T = {}
    BY <1>1, FS_EmptySet
  <2> QED BY <2>1
<1>3. \A n \in Nat : n \in H => n + 1 \in H
  <2> SUFFICES ASSUME NEW n \in H, NEW T \in SUBSET S, Cardinality(T) = n + 1
               PROVE  T \in G
    OBVIOUS
  <2>1. \A x \in T : Cardinality(T \ {x}) = n
    BY <1>1, FS_RemoveElement
  <2> QED BY <2>1
<1>4. Nat \subseteq H
  <2> HIDE DEF H
  <2> QED BY <1>2, <1>3, NatSetInduction
<1> QED BY <1>1, <1>4
-----------------------------------------------------------------------------
(* The recursion a sum is defined by. *)
Chosen(s) == CHOOSE x \in s : TRUE
RecursionOn(g, f, D) ==
  g = [s \in D |-> IF s = {} THEN 0 ELSE f[Chosen(s)] + g[s \ {Chosen(s)}]]
Recursion(g, f, S) == RecursionOn(g, f, SUBSET S)

(* A sum is the value of a function with that recursion. *)
LEMMA SumIs ==
  ASSUME NEW f, NEW S
  PROVE  SumFunctionOnSet(f, S) = (CHOOSE g : Recursion(g, f, S))[S]
BY DEF RecursionOn, SumFunctionOnSet, FoldFunctionOnSet, MapThenFoldSet, Recursion, Chosen

(* There is a function with that recursion. *)
LEMMA RecursionExists ==
  ASSUME NEW f, NEW S, IsFiniteSet(S)
  PROVE  \E g : Recursion(g, f, S)
<1> DEFINE Small(n) == {s \in SUBSET S : Cardinality(s) <= n}
           H == {n \in Nat : \E g : RecursionOn(g, f, Small(n))}
<1>1. \A s \in SUBSET S : IsFiniteSet(s) /\ Cardinality(s) \in Nat
  BY FS_Subset, FS_CardinalityType
<1>2. \A s \in SUBSET S : s # {} => Chosen(s) \in s
  BY DEF Chosen
<1>3. 0 \in H
  <2>1. Small(0) = {{}}
    BY <1>1, FS_EmptySet
  <2>2. RecursionOn([s \in Small(0) |-> 0], f, Small(0))
    BY <2>1 DEF RecursionOn
  <2> QED BY <2>2
<1>4. \A n \in Nat : n \in H => n + 1 \in H
  <2> SUFFICES ASSUME NEW n \in H PROVE n + 1 \in H
    OBVIOUS
  <2> n \in Nat
    OBVIOUS
  <2>1. PICK g : RecursionOn(g, f, Small(n))
    OBVIOUS
  <2> DEFINE h == [s \in Small(n + 1) |-> IF s = {} THEN 0 ELSE f[Chosen(s)] + g[s \ {Chosen(s)}]]
  <2>2. \A s \in Small(n + 1) : s # {} => s \ {Chosen(s)} \in Small(n)
    BY <1>1, <1>2, FS_RemoveElement
  <2>3. Small(n) \subseteq Small(n + 1)
    BY <1>1
  <2> HIDE DEF Small, H
  <2>4. \A s \in Small(n) : h[s] = g[s]
    BY <2>1, <2>3 DEF RecursionOn
  <2>5. RecursionOn(h, f, Small(n + 1))
    BY <2>2, <2>4 DEF RecursionOn
  <2> QED BY <2>5 DEF H
<1>5. Nat \subseteq H
  <2> HIDE DEF H
  <2> QED BY <1>3, <1>4, NatSetInduction
<1>6. Cardinality(S) \in H
  BY <1>1, <1>5
<1>7. Small(Cardinality(S)) = SUBSET S
  BY <1>1, FS_Subset
<1> QED BY <1>6, <1>7 DEF Recursion

(* All such functions agree. *)
LEMMA RecursionUnique ==
  ASSUME NEW f, NEW S, IsFiniteSet(S), NEW T, T \subseteq S,
         NEW g, Recursion(g, f, S), NEW h, Recursion(h, f, T)
  PROVE  g[T] = h[T]
<1> DEFINE G == {s \in SUBSET T : g[s] = h[s]}
<1>1. IsFiniteSet(T)
  BY FS_Subset
<1>2. \A s \in SUBSET T : (\A x \in s : s \ {x} \in G) => s \in G
  <2> SUFFICES ASSUME NEW s \in SUBSET T, \A x \in s : s \ {x} \in G PROVE s \in G
    OBVIOUS
  <2>1. s \in SUBSET S
    OBVIOUS
  <2>2. CASE s = {}
    BY <2>1, <2>2 DEF Recursion, RecursionOn
  <2>3. CASE s # {}
    <3>1. Chosen(s) \in s
      BY <2>3 DEF Chosen
    <3>2. g[s \ {Chosen(s)}] = h[s \ {Chosen(s)}]
      BY <3>1
    <3>3. /\ g[s] = f[Chosen(s)] + g[s \ {Chosen(s)}]
          /\ h[s] = f[Chosen(s)] + h[s \ {Chosen(s)}]
      BY <2>1, <2>3 DEF Recursion, RecursionOn
    <3> QED BY <3>2, <3>3
  <2> QED BY <2>2, <2>3
<1>3. \A s \in SUBSET T : s \in G
  <2> HIDE DEF G
  <2> QED BY <1>1, <1>2, SubsetInduction
<1> QED BY <1>3

(* The recursion of a sum. *)
LEMMA SumEmpty == \A f : SumFunctionOnSet(f, {}) = 0
<1> TAKE f
<1>1. \E g : Recursion(g, f, {})
  BY FS_EmptySet, RecursionExists
<1> QED BY <1>1, SumIs DEF Recursion, RecursionOn

(* A sum is the chosen addend and the sum of the others. *)
LEMMA SumChosen ==
  ASSUME NEW f, NEW S, IsFiniteSet(S), S # {}
  PROVE  SumFunctionOnSet(f, S) = f[Chosen(S)] + SumFunctionOnSet(f, S \ {Chosen(S)})
<1>1. PICK T \in SUBSET S : T = S \ {Chosen(S)}
  OBVIOUS
<1>2. IsFiniteSet(T)
  BY FS_Subset
<1>3. PICK g : g = (CHOOSE r : Recursion(r, f, S)) /\ Recursion(g, f, S)
  BY RecursionExists
<1>4. PICK h : h = (CHOOSE r : Recursion(r, f, T)) /\ Recursion(h, f, T)
  BY <1>2, RecursionExists
<1>5. SumFunctionOnSet(f, S) = g[S] /\ SumFunctionOnSet(f, T) = h[T]
  BY <1>3, <1>4, SumIs
<1>6. g[S] = f[Chosen(S)] + g[T]
  BY <1>1, <1>3 DEF Recursion, RecursionOn
<1>7. g[T] = h[T]
  <2>1. Recursion(g, f, S) /\ Recursion(h, f, T)
    BY <1>3, <1>4
  <2> QED BY <2>1, RecursionUnique
<1> QED BY <1>1, <1>5, <1>6, <1>7
-----------------------------------------------------------------------------
(* A sum of integers is one. *)
LEMMA SumType ==
  ASSUME NEW f, NEW S, IsFiniteSet(S), \A x \in S : f[x] \in Int
  PROVE  SumFunctionOnSet(f, S) \in Int
<1> DEFINE G == {s \in SUBSET S : SumFunctionOnSet(f, s) \in Int}
<1>1. \A s \in SUBSET S : IsFiniteSet(s)
  BY FS_Subset
<1>2. \A s \in SUBSET S : (\A x \in s : s \ {x} \in G) => s \in G
  <2> SUFFICES ASSUME NEW s \in SUBSET S, \A x \in s : s \ {x} \in G,  s # {}
               PROVE  s \in G
    BY SumEmpty
  <2>1. Chosen(s) \in s
    BY DEF Chosen
  <2>2. SumFunctionOnSet(f, s) = f[Chosen(s)] + SumFunctionOnSet(f, s \ {Chosen(s)})
    BY <1>1, SumChosen
  <2> QED BY <2>1, <2>2
<1>3. \A s \in SUBSET S : s \in G
  <2> HIDE DEF G
  <2> QED BY <1>2, SubsetInduction
<1> QED BY <1>3

(* Any element may be taken out of a sum first. *)
LEMMA SumRemove ==
  ASSUME NEW f, NEW S, IsFiniteSet(S), \A x \in S : f[x] \in Int, NEW x \in S
  PROVE  SumFunctionOnSet(f, S) = f[x] + SumFunctionOnSet(f, S \ {x})
<1> DEFINE Sum(s) == SumFunctionOnSet(f, s)
           G == {s \in SUBSET S : \A y \in s : Sum(s) = f[y] + Sum(s \ {y})}
<1>1. \A s \in SUBSET S : IsFiniteSet(s) /\ Sum(s) \in Int
  <2> TAKE s \in SUBSET S
  <2>1. IsFiniteSet(s)
    BY FS_Subset
  <2> QED BY <2>1, SumType
<1>2. \A s \in SUBSET S : (\A y \in s : s \ {y} \in G) => s \in G
  <2> SUFFICES ASSUME NEW s \in SUBSET S, \A y \in s : s \ {y} \in G, NEW y \in s
               PROVE  Sum(s) = f[y] + Sum(s \ {y})
    OBVIOUS
  <2> DEFINE c == Chosen(s)
  <2>1. c \in s
    BY DEF Chosen
  <2>2. Sum(s) = f[c] + Sum(s \ {c})
    BY <1>1, SumChosen
  <2>3. CASE y = c
    BY <2>2, <2>3
  <2>4. CASE y # c
    <3> HIDE DEF c
    <3>1. Sum(s \ {c}) = f[y] + Sum((s \ {c}) \ {y})
      BY <2>1, <2>4
    <3>2. Sum(s \ {y}) = f[c] + Sum((s \ {y}) \ {c})
      BY <2>1, <2>4
    <3>3. (s \ {c}) \ {y} = (s \ {y}) \ {c}
      OBVIOUS
    <3>4. PICK v \in Int : v = Sum((s \ {c}) \ {y})
      BY <1>1
    <3>5. Sum(s) = f[c] + (f[y] + v)
      BY <2>2, <3>1, <3>4
    <3>6. Sum(s \ {y}) = f[c] + v
      BY <3>2, <3>3, <3>4
    <3>7. f[c] \in Int /\ f[y] \in Int
      BY <2>1
    <3>8. f[c] + (f[y] + v) = f[y] + (f[c] + v)
      BY <3>4, <3>7
    <3> QED BY <3>5, <3>6, <3>8
  <2> QED BY <2>3, <2>4
<1>3. \A s \in SUBSET S : s \in G
  <2> HIDE DEF G
  <2> QED BY <1>2, SubsetInduction
<1> QED BY <1>3

(* An element that is not there yet may be added to a sum. *)
LEMMA SumAdd ==
  ASSUME NEW f, NEW S, IsFiniteSet(S), NEW x, x \notin S, \A y \in S \cup {x} : f[y] \in Int
  PROVE  SumFunctionOnSet(f, S \cup {x}) = f[x] + SumFunctionOnSet(f, S)
<1>1. PICK T : T = S \cup {x}
  OBVIOUS
<1>2. IsFiniteSet(T) /\ x \in T /\ T \ {x} = S /\ \A y \in T : f[y] \in Int
  BY <1>1, FS_AddElement
<1>3. SumFunctionOnSet(f, T) = f[x] + SumFunctionOnSet(f, T \ {x})
  BY <1>2, SumRemove
<1> QED BY <1>1, <1>2, <1>3

(* Functions that agree on a set have the same sum there. *)
LEMMA SumSame ==
  ASSUME NEW f, NEW g, NEW S, IsFiniteSet(S), \A x \in S : f[x] = g[x]
  PROVE  SumFunctionOnSet(f, S) = SumFunctionOnSet(g, S)
<1> DEFINE G == {s \in SUBSET S : SumFunctionOnSet(f, s) = SumFunctionOnSet(g, s)}
<1>1. \A s \in SUBSET S : IsFiniteSet(s)
  BY FS_Subset
<1>2. \A s \in SUBSET S : (\A x \in s : s \ {x} \in G) => s \in G
  <2> SUFFICES ASSUME NEW s \in SUBSET S, \A x \in s : s \ {x} \in G, s # {}
               PROVE  s \in G
    BY SumEmpty
  <2>1. Chosen(s) \in s
    BY DEF Chosen
  <2>2. /\ SumFunctionOnSet(f, s) = f[Chosen(s)] + SumFunctionOnSet(f, s \ {Chosen(s)})
        /\ SumFunctionOnSet(g, s) = g[Chosen(s)] + SumFunctionOnSet(g, s \ {Chosen(s)})
    BY <1>1, SumChosen
  <2> QED BY <2>1, <2>2
<1>3. \A s \in SUBSET S : s \in G
  <2> HIDE DEF G
  <2> QED BY <1>2, SubsetInduction
<1> QED BY <1>3

(* The step of an induction over the size of a sum. *)
LEMMA SumStep ==
  ASSUME NEW f, NEW S, IsFiniteSet(S), \A x \in S : f[x] \in Int, S # {}
  PROVE  \E x \in S :
           /\ SumFunctionOnSet(f, S) = f[x] + SumFunctionOnSet(f, S \ {x})
           /\ SumFunctionOnSet(f, S \ {x}) \in Int
           /\ Cardinality(S \ {x}) \in Nat
           /\ Cardinality(S) = Cardinality(S \ {x}) + 1
<1>1. PICK x \in S : TRUE
  OBVIOUS
<1>2. PICK T : T = S \ {x}
  OBVIOUS
<1>3. IsFiniteSet(T) /\ \A y \in T : f[y] \in Int
  BY <1>2, FS_Subset
<1>4. SumFunctionOnSet(f, T) \in Int
  BY <1>3, SumType
<1>5. SumFunctionOnSet(f, S) = f[x] + SumFunctionOnSet(f, T)
  BY <1>2, SumRemove
<1>6. Cardinality(T) = Cardinality(S) - 1 /\ Cardinality(S) \in Nat /\ Cardinality(T) \in Nat
  BY <1>2, <1>3, FS_RemoveElement, FS_CardinalityType
<1>7. /\ SumFunctionOnSet(f, S) = f[x] + SumFunctionOnSet(f, S \ {x})
      /\ SumFunctionOnSet(f, S \ {x}) \in Int
      /\ Cardinality(S \ {x}) \in Nat
      /\ Cardinality(S) = Cardinality(S \ {x}) + 1
  <2> HIDE <1>1
  <2> QED BY <1>2, <1>4, <1>5, <1>6
<1> QED BY <1>7

(* If every addend times d is at least m, so is their average. *)
LEMMA SumAtLeast ==
  ASSUME NEW f, NEW S, IsFiniteSet(S), NEW d \in Int, NEW m \in Int,
         \A x \in S : f[x] \in Int /\ f[x] * d >= m
  PROVE  SumFunctionOnSet(f, S) * d >= Cardinality(S) * m
<1> DEFINE G == {s \in SUBSET S : SumFunctionOnSet(f, s) * d >= Cardinality(s) * m}
<1>1. \A s \in SUBSET S : IsFiniteSet(s) /\ \A x \in s : f[x] \in Int
  BY FS_Subset
<1>2. \A s \in SUBSET S : (\A x \in s : s \ {x} \in G) => s \in G
  <2> SUFFICES ASSUME NEW s \in SUBSET S, \A x \in s : s \ {x} \in G
               PROVE  SumFunctionOnSet(f, s) * d >= Cardinality(s) * m
    OBVIOUS
  <2>1. CASE s = {}
    <3>1. SumFunctionOnSet(f, s) = 0 /\ Cardinality(s) = 0
      BY <2>1, SumEmpty, FS_EmptySet
    <3> QED BY <3>1
  <2>2. CASE s # {}
    <3>1. PICK x \in s : /\ SumFunctionOnSet(f, s) = f[x] + SumFunctionOnSet(f, s \ {x})
                         /\ SumFunctionOnSet(f, s \ {x}) \in Int
                         /\ Cardinality(s \ {x}) \in Nat
                         /\ Cardinality(s) = Cardinality(s \ {x}) + 1
      BY <1>1, <2>2, SumStep
    <3>2. PICK r \in Int : r = SumFunctionOnSet(f, s \ {x})
      BY <3>1
    <3>3. PICK n \in Nat : n = Cardinality(s \ {x})
      BY <3>1
    <3>4. PICK v \in Int : v = f[x]
      BY <1>1
    <3>5. r * d >= n * m
      BY <3>2, <3>3
    <3>6. v * d >= m
      BY <3>4
    <3>7. (v + r) * d = v * d + r * d /\ (n + 1) * m = n * m + m
      OBVIOUS
    <3>8. v * d \in Int /\ r * d \in Int /\ n * m \in Int
      OBVIOUS
    <3>9. (v + r) * d >= (n + 1) * m
      BY <3>5, <3>6, <3>7, <3>8
    <3> QED BY <3>1, <3>2, <3>3, <3>4, <3>9
  <2> QED BY <2>1, <2>2
<1>3. \A s \in SUBSET S : s \in G
  <2> HIDE DEF G
  <2> QED BY <1>2, SubsetInduction
<1> QED BY <1>3

(* If no addend is more than m, neither is their average. *)
LEMMA SumAtMost ==
  ASSUME NEW f, NEW S, IsFiniteSet(S), NEW m \in Int,
         \A x \in S : f[x] \in Int /\ f[x] <= m
  PROVE  SumFunctionOnSet(f, S) <= m * Cardinality(S)
<1>1. PICK d \in Int : d = -1
  OBVIOUS
<1>2. PICK l \in Int : l = -m
  OBVIOUS
<1>3. \A x \in S : f[x] \in Int /\ f[x] * d >= l
  BY <1>1, <1>2
<1>4. SumFunctionOnSet(f, S) * d >= Cardinality(S) * l
  BY <1>3, SumAtLeast
<1>5. PICK r \in Int : r = SumFunctionOnSet(f, S)
  BY SumType
<1>6. PICK n \in Nat : n = Cardinality(S)
  BY FS_CardinalityType
<1>7. r * d = -r /\ n * l = -(m * n) /\ m * n \in Int
  BY <1>1, <1>2
<1> QED BY <1>4, <1>5, <1>6, <1>7

(* Of addends that are not negative none is more than the sum. *)
LEMMA SumCovers ==
  ASSUME NEW f, NEW S, IsFiniteSet(S), \A x \in S : f[x] \in Nat, NEW x \in S
  PROVE  f[x] <= SumFunctionOnSet(f, S)
<1>1. PICK T : T = S \ {x}
  OBVIOUS
<1>2. IsFiniteSet(T) /\ \A y \in T : f[y] \in Int /\ f[y] * 1 >= 0
  BY <1>1, FS_Subset
<1>3. SumFunctionOnSet(f, T) * 1 >= Cardinality(T) * 0
  BY <1>2, SumAtLeast
<1>4. SumFunctionOnSet(f, T) \in Int /\ Cardinality(T) \in Nat
  BY <1>2, SumType, FS_CardinalityType
<1>5. SumFunctionOnSet(f, S) = f[x] + SumFunctionOnSet(f, T)
  BY <1>1, SumRemove
<1> QED BY <1>3, <1>4, <1>5
-----------------------------------------------------------------------------
(* Counting by a value: those of each value of a set add up to those of any. *)
LEMMA CountByValue ==
  ASSUME NEW D, IsFiniteSet(D), NEW h, NEW K, IsFiniteSet(K)
  PROVE  SumFunctionOnSet([k \in K |-> Cardinality({i \in D : h[i] = k})], K)
           = Cardinality({i \in D : h[i] \in K})
<1> DEFINE f == [k \in K |-> Cardinality({i \in D : h[i] = k})]
           In(T) == {i \in D : h[i] \in T}
           G == {T \in SUBSET K : SumFunctionOnSet(f, T) = Cardinality(In(T))}
<1>1. \A T \in SUBSET K : (\A x \in T : T \ {x} \in G) => T \in G
  <2> SUFFICES ASSUME NEW T \in SUBSET K, \A x \in T : T \ {x} \in G
               PROVE  SumFunctionOnSet(f, T) = Cardinality(In(T))
    OBVIOUS
  <2>1. IsFiniteSet(T)
    BY FS_Subset
  <2>2. CASE T = {}
    <3>1. In(T) = {}
      BY <2>2
    <3> QED BY <2>2, <3>1, SumEmpty, FS_EmptySet
  <2>3. CASE T # {}
    <3>1. \A x \in T : f[x] \in Int
      <4> TAKE x \in T
      <4>1. IsFiniteSet({i \in D : h[i] = x})
        BY FS_Subset
      <4>2. Cardinality({i \in D : h[i] = x}) \in Nat
        BY <4>1, FS_CardinalityType
      <4>3. f[x] = Cardinality({i \in D : h[i] = x})
        OBVIOUS
      <4> HIDE DEF f
      <4> QED BY <4>2, <4>3
    <3>2. PICK x \in T : SumFunctionOnSet(f, T) = f[x] + SumFunctionOnSet(f, T \ {x})
      <4> HIDE DEF f, G
      <4> QED BY <2>1, <2>3, <3>1, SumStep
    <3>3. PICK A : A = {i \in D : h[i] = x}
      OBVIOUS
    <3>4. PICK B : B = In(T \ {x})
      OBVIOUS
    <3>5. SumFunctionOnSet(f, T \ {x}) = Cardinality(B)
      BY <3>4
    <3>6. f[x] = Cardinality(A)
      BY <3>3
    <3>7. In(T) = A \cup B /\ A \cap B = {} /\ A \subseteq D /\ B \subseteq D
      BY <3>3, <3>4
    <3> HIDE DEF f, In, G
    <3>8. IsFiniteSet(A) /\ IsFiniteSet(B)
      BY <3>7, FS_Subset
    <3>9. Cardinality(A \cup B) = Cardinality(A) + Cardinality(B) - Cardinality({})
      BY <3>7, <3>8, FS_Union
    <3>10. Cardinality(A) \in Nat /\ Cardinality(B) \in Nat /\ Cardinality({}) = 0
      BY <3>8, FS_CardinalityType, FS_EmptySet
    <3> QED BY <3>2, <3>5, <3>6, <3>7, <3>9, <3>10
  <2> QED BY <2>2, <2>3
<1>2. \A T \in SUBSET K : T \in G
  <2> HIDE DEF G
  <2> QED BY <1>1, SubsetInduction
<1> QED BY <1>2

At(D, h, k) == {i \in D : h[i] = k}
Where(D, h, K) == {i \in D : h[i] \in K}

(* The same of any function that gives those numbers. *)
LEMMA CountsAddUp ==
  ASSUME NEW D, IsFiniteSet(D), NEW h, NEW K, IsFiniteSet(K),
         NEW f, \A k \in K : f[k] = Cardinality(At(D, h, k))
  PROVE  SumFunctionOnSet(f, K) = Cardinality(Where(D, h, K))
<1> DEFINE g == [k \in K |-> Cardinality({i \in D : h[i] = k})]
<1>1. SumFunctionOnSet(g, K) = Cardinality({i \in D : h[i] \in K})
  BY CountByValue
<1>2. \A k \in K : f[k] = g[k]
  BY DEF At
<1> HIDE DEF g
<1>3. SumFunctionOnSet(f, K) = SumFunctionOnSet(g, K)
  BY <1>2, SumSame
<1> QED BY <1>1, <1>3 DEF Where

(* The squares of the differences from a value, added up (as for a variance). *)
LEMMA SumOfSquares ==
  ASSUME NEW c, NEW S, IsFiniteSet(S), \A x \in S : c[x] \in Int, NEW a \in Int, NEW b \in Int
  PROVE  SumFunctionOnSet([x \in S |-> (a * c[x] - b) * (a * c[x] - b)], S)
           = a * a * SumFunctionOnSet([x \in S |-> c[x] * c[x]], S)
               - 2 * a * b * SumFunctionOnSet(c, S) + Cardinality(S) * b * b
<1> DEFINE f == [x \in S |-> (a * c[x] - b) * (a * c[x] - b)]
           q == [x \in S |-> c[x] * c[x]]
           Sum(g, T) == SumFunctionOnSet(g, T)
           G == {T \in SUBSET S : Sum(f, T) = a * a * Sum(q, T) - 2 * a * b * Sum(c, T)
                                                + Cardinality(T) * b * b}
<1>1. \A x \in S : /\ f[x] = (a * c[x] - b) * (a * c[x] - b) /\ f[x] \in Int
                   /\ q[x] = c[x] * c[x] /\ q[x] \in Int
  OBVIOUS
<1>2. \A T \in SUBSET S : IsFiniteSet(T)
  BY FS_Subset
<1>3. \A T \in SUBSET S : (\A x \in T : T \ {x} \in G) => T \in G
  <2> SUFFICES ASSUME NEW T \in SUBSET S, \A x \in T : T \ {x} \in G
               PROVE  Sum(f, T) = a * a * Sum(q, T) - 2 * a * b * Sum(c, T)
                                    + Cardinality(T) * b * b
    OBVIOUS
  <2> HIDE DEF f, q
  <2>1. CASE T = {}
    <3>1. Sum(f, T) = 0 /\ Sum(q, T) = 0 /\ Sum(c, T) = 0 /\ Cardinality(T) = 0
      BY <2>1, SumEmpty, FS_EmptySet
    <3> HIDE DEF Sum
    <3> QED BY <3>1
  <2>2. CASE T # {}
    <3> HIDE DEF G
    <3>0. \A x \in T : f[x] \in Int /\ q[x] \in Int /\ c[x] \in Int
      BY <1>1
    <3>1. PICK x \in T : /\ Sum(f, T) = f[x] + Sum(f, T \ {x})
                         /\ Sum(f, T \ {x}) \in Int
                         /\ Cardinality(T \ {x}) \in Nat
                         /\ Cardinality(T) = Cardinality(T \ {x}) + 1
      BY <1>2, <2>2, <3>0, SumStep
    <3>2. PICK U : U = T \ {x}
      OBVIOUS
    <3>3. IsFiniteSet(U) /\ U \subseteq S /\ x \in S /\ U \in G
      BY <1>2, <3>2
    <3>4. Sum(q, T) = q[x] + Sum(q, U) /\ Sum(c, T) = c[x] + Sum(c, U)
      BY <1>2, <3>0, <3>2, SumRemove
    <3>5. Sum(q, U) \in Int /\ Sum(c, U) \in Int
      BY <1>1, <3>3, SumType
    <3>6. Sum(f, U) = a * a * Sum(q, U) - 2 * a * b * Sum(c, U) + Cardinality(U) * b * b
      BY <3>3 DEF G
    <3> HIDE DEF Sum
    <3>7. PICK u \in Int : u = Sum(q, U)
      BY <3>5
    <3>8. PICK w \in Int : w = Sum(c, U)
      BY <3>5
    <3>9. PICK n \in Int : n = Cardinality(U)
      BY <3>1, <3>2
    <3>10. PICK v \in Int : v = c[x]
      BY <3>3
    <3>11. (a * v - b) * (a * v - b) + (a * a * u - 2 * a * b * w + n * b * b)
             = a * a * (v * v + u) - 2 * a * b * (v + w) + (n + 1) * b * b
      OBVIOUS
    <3> QED BY <1>1, <3>1, <3>2, <3>3, <3>4, <3>6, <3>7, <3>8, <3>9, <3>10, <3>11
  <2> QED BY <2>1, <2>2
<1>4. \A T \in SUBSET S : T \in G
  <2> HIDE DEF G
  <2> QED BY <1>3, SubsetInduction
<1> QED BY <1>4
-----------------------------------------------------------------------------
(* The values of a function on a finite set. *)
LEMMA ImageFinite ==
  ASSUME NEW f, NEW S, IsFiniteSet(S)
  PROVE  IsFiniteSet({f[x] : x \in S})
<1> DEFINE Image(T) == {f[x] : x \in T}
           G == {T \in SUBSET S : IsFiniteSet(Image(T))}
<1>1. \A T \in SUBSET S : (\A x \in T : T \ {x} \in G) => T \in G
  <2> SUFFICES ASSUME NEW T \in SUBSET S, \A x \in T : T \ {x} \in G
               PROVE  IsFiniteSet(Image(T))
    OBVIOUS
  <2>1. CASE T = {}
    <3>1. Image(T) = {}
      BY <2>1
    <3> QED BY <3>1, FS_EmptySet
  <2>2. CASE T # {}
    <3>1. PICK x \in T : TRUE
      BY <2>2
    <3>2. PICK I : I = Image(T \ {x})
      OBVIOUS
    <3>3. Image(T) = I \cup {f[x]} /\ IsFiniteSet(I)
      BY <3>2
    <3> HIDE DEF Image
    <3> QED BY <3>3, FS_AddElement
  <2> QED BY <2>1, <2>2
<1>2. \A T \in SUBSET S : T \in G
  <2> HIDE DEF G
  <2> QED BY <1>1, SubsetInduction
<1> QED BY <1>2

(* A finite set of integers has a greatest element. *)
LEMMA MaxExists ==
  ASSUME NEW S, IsFiniteSet(S), S \subseteq Int, S # {}
  PROVE  \E m \in S : \A x \in S : m >= x
<1> DEFINE G == {T \in SUBSET S : T # {} => \E m \in T : \A x \in T : m >= x}
<1>1. \A T \in SUBSET S : (\A x \in T : T \ {x} \in G) => T \in G
  <2> SUFFICES ASSUME NEW T \in SUBSET S, \A x \in T : T \ {x} \in G, T # {}
               PROVE  \E m \in T : \A x \in T : m >= x
    OBVIOUS
  <2>1. PICK x \in T : TRUE
    OBVIOUS
  <2>2. CASE T \ {x} = {}
    <3>1. \A y \in T : y = x
      BY <2>2
    <3> QED BY <3>1
  <2>3. CASE T \ {x} # {}
    <3>1. PICK m \in T \ {x} : \A y \in T \ {x} : m >= y
      BY <2>3
    <3>2. m \in Int /\ x \in Int
      OBVIOUS
    <3>3. CASE m >= x
      BY <3>1, <3>3
    <3>4. CASE x >= m
      BY <3>1, <3>4
    <3> QED BY <3>2, <3>3, <3>4
  <2> QED BY <2>2, <2>3
<1>2. \A T \in SUBSET S : T \in G
  <2> HIDE DEF G
  <2> QED BY <1>1, SubsetInduction
<1> QED BY <1>2

(* It has a least one, too. *)
LEMMA MinExists ==
  ASSUME NEW S, IsFiniteSet(S), S \subseteq Int, S # {}
  PROVE  \E m \in S : \A x \in S : m <= x
<1> DEFINE N == {-x : x \in S}
<1>1. IsFiniteSet(N)
  <2>1. N = {[x \in S |-> -x][y] : y \in S}
    OBVIOUS
  <2> QED BY <2>1, ImageFinite
<1>2. N # {} /\ N \subseteq Int
  <2>1. PICK x \in S : TRUE
    OBVIOUS
  <2>2. -x \in N
    OBVIOUS
  <2>3. \A y \in S : -y \in Int
    OBVIOUS
  <2> QED BY <2>2, <2>3
<1>3. \E m \in N : \A x \in N : m >= x
  <2> HIDE DEF N
  <2> QED BY <1>1, <1>2, MaxExists
<1>4. PICK y \in S : \A x \in N : -y >= x
  BY <1>3
<1>5. \A x \in S : -y >= -x
  BY <1>4
<1> QED BY <1>5
-----------------------------------------------------------------------------
(* The choice of the bucket, with Min and Max of pairs written out. *)
LEMMA BucketIs ==
  ASSUME NEW elapsed \in Int, NEW width \in Nat \ {0}
  PROVE  Bucket(elapsed, width) =
           IF elapsed \div width > 4 THEN 4
           ELSE IF elapsed \div width < 0 THEN 0 ELSE elapsed \div width
<1> DEFINE b == elapsed \div width
<1>1. b \in Int
  OBVIOUS
<1> HIDE DEF b
<1>2. Min({b, 4}) = IF b > 4 THEN 4 ELSE b
  BY <1>1 DEF Min
<1>3. \A m \in Int : Max({m, 0}) = IF m < 0 THEN 0 ELSE m
  BY DEF Max
<1> QED BY <1>1, <1>2, <1>3 DEF Bucket, b

(* Every event falls into one of the five buckets, whenever it happened: before *)
(* the start, after the end or by another clock.                                *)
THEOREM BucketInRange ==
  ASSUME NEW elapsed \in Int, NEW width \in Nat \ {0}
  PROVE  Bucket(elapsed, width) \in Buckets
<1> DEFINE d == elapsed \div width
<1>1. d \in Int
  OBVIOUS
<1>2. Bucket(elapsed, width) = IF d > 4 THEN 4 ELSE IF d < 0 THEN 0 ELSE d
  BY BucketIs
<1> HIDE DEF d
<1> QED BY <1>1, <1>2 DEF Buckets

(* An event is in bucket b or a later one exactly if b widths had passed, so a  *)
(* later event is never in an earlier bucket.                                   *)
THEOREM BucketExact ==
  ASSUME NEW elapsed \in Int, NEW width \in Nat \ {0}, NEW b \in 1 .. 4
  PROVE  Bucket(elapsed, width) >= b <=> elapsed >= b * width
<1> DEFINE d == elapsed \div width
<1>1. d \in Int /\ d * width <= elapsed /\ elapsed < (d + 1) * width
  OBVIOUS
<1>2. Bucket(elapsed, width) = IF d > 4 THEN 4 ELSE IF d < 0 THEN 0 ELSE d
  BY BucketIs
<1> HIDE DEF d
<1>3. Bucket(elapsed, width) >= b <=> d >= b
  BY <1>1, <1>2
<1>4. d >= b <=> elapsed >= b * width
  <2>1. CASE d >= b
    <3>1. PICK k \in Nat : d = b + k
      <4>1. d - b \in Nat /\ d = b + (d - b)
        BY <1>1, <2>1
      <4> QED BY <4>1
    <3>2. d * width = b * width + k * width /\ k * width \in Nat /\ b * width \in Nat
      BY <3>1
    <3> QED BY <1>1, <2>1, <3>2
  <2>2. CASE d < b
    <3>1. PICK k \in Nat : b = d + 1 + k
      <4>1. b - d - 1 \in Nat /\ b = d + 1 + (b - d - 1)
        BY <1>1, <2>2
      <4> QED BY <4>1
    <3>2. b * width = (d + 1) * width + k * width /\ k * width \in Nat /\ (d + 1) * width \in Int
      BY <1>1, <3>1
    <3> QED BY <1>1, <2>2, <3>2
  <2> QED BY <1>1, <2>1, <2>2
<1> QED BY <1>3, <1>4

(* The position of a percentile is never past the last sample, and it is the    *)
(* last one only if there is no other.                                          *)
LEMMA PercentilePosition ==
  ASSUME NEW n \in Nat \ {0}, NEW p \in 0 .. 99
  PROVE  /\ ((n - 1) * p) \div 100 + 1 \in 1 .. n
         /\ n > 1 => ((n - 1) * p) \div 100 + 1 < n
<1> DEFINE m == n - 1
           d == (m * p) \div 100
<1>1. m \in Nat /\ m * p \in Nat
  OBVIOUS
<1>2. m * p <= m * 99
  <2>1. PICK k \in Nat : 99 = p + k
    <3>1. 99 - p \in Nat /\ 99 = p + (99 - p)
      OBVIOUS
    <3> QED BY <3>1
  <2>2. m * 99 = m * p + m * k /\ m * k \in Nat
    BY <1>1, <2>1
  <2> QED BY <1>1, <2>2
<1>3. d \in Nat /\ 100 * d <= m * p
  BY <1>1
<1> HIDE DEF m, d
<1>4. 100 * d <= 99 * m
  BY <1>1, <1>2, <1>3
<1>5. d <= m /\ (m > 0 => d < m)
  BY <1>1, <1>3, <1>4
<1> QED BY <1>1, <1>3, <1>5 DEF m, d

(* A percentile is one of the samples, however few there are: the index in the  *)
(* code is never out of range.  Of two samples or more it is never the last, so *)
(* the slowest event is no P99.                                                 *)
THEOREM PercentileExists ==
  ASSUME NEW S, NEW sorted \in Seq(S), sorted # <<>>, NEW p \in 0 .. 99
  PROVE  \E i \in 1 .. Len(sorted) :
           /\ percentile(sorted, p) = sorted[i]
           /\ Len(sorted) > 1 => i < Len(sorted)
<1> DEFINE n == Len(sorted)
           i == ((n - 1) * p) \div 100 + 1
<1>1. n \in Nat \ {0}
  OBVIOUS
<1>2. i \in 1 .. n /\ (n > 1 => i < n)
  BY <1>1, PercentilePosition
<1>3. percentile(sorted, p) = sorted[i]
  BY DEF percentile
<1> HIDE DEF i
<1> QED BY <1>2, <1>3

-----------------------------------------------------------------------------
(* The inductive invariant: the report is one of those of the events collected, *)
(* over a period that has its five parts.                                       *)
Current ==
  /\ events # <<>>
  /\ startTime \in Nat /\ Period \in Nat /\ Period >= 5
  /\ report \in Reports(events, startTime, Period)

IInv ==
  /\ boot \in Boots
  /\ uptime \in Times \cup {Start}
  /\ startTime = boot + Start
  /\ endTime \in {0} \cup {boot + t : t \in Times}
  /\ events \in Seq(Inputs) /\ Len(events) <= MaxEvents
  /\ report = None \/ Current

(* There is no report at first. *)
LEMMA InitInv == Init => IInv
<1> SUFFICES ASSUME Init PROVE IInv
  OBVIOUS
<1>1. <<>> \in Seq(Inputs) /\ Len(<<>>) = 0
  OBVIOUS
<1> QED BY <1>1, DiagnosticianAssumption DEF Init, IInv

(* A report is made over the time since the start, which is long enough, and no *)
(* later step leaves it beside other events or another period.                  *)
LEMMA InvNext == IInv /\ [Next]_vars => IInv'
<1> SUFFICES ASSUME IInv, [Next]_vars PROVE IInv'
  OBVIOUS
<1>1. CASE Pass
  BY <1>1 DEF Pass, IInv
<1>2. ASSUME NEW e \in Inputs, AddEvent(e) PROVE IInv'
  <2>1. Len(events) \in Nat /\ Append(events, e) \in Seq(Inputs)
        /\ Len(Append(events, e)) = Len(events) + 1
    BY DEF IInv
  <2> QED BY <1>2, <2>1, DiagnosticianAssumption DEF AddEvent, IInv
<1>3. CASE GenerateReport
  <2>1. /\ boot \in Nat /\ Start \in Nat /\ uptime \in Nat /\ startTime \in Nat /\ endTime \in Nat
        /\ uptime \in Times => uptime >= Start + 5
    BY DiagnosticianAssumption DEF IInv
  <2>2. Max({startTime, endTime}) >= startTime
    BY <2>1 DEF Max
  <2>3. Max({startTime, endTime}) \in {startTime, endTime}
    BY <2>1 DEF Max
  <2>4. boot + uptime > startTime
    BY <1>3, <2>1, <2>2, <2>3 DEF GenerateReport
  <2>5. uptime \in Times
    BY <2>1, <2>4 DEF IInv
  <2>6. endTime' = boot + uptime /\ UNCHANGED <<boot, uptime, startTime, events>>
    BY <1>3 DEF GenerateReport, Finish
  <2>7. Period' = endTime' - startTime /\ Period' \in Nat /\ Period' >= 5
    BY <2>1, <2>5, <2>6 DEF Period, IInv
  <2>8. report' = None \/ (events # <<>> /\ report' \in Reports(events, startTime, endTime' - startTime))
    BY <1>3 DEF GenerateReport
  <2>9. Reports(events, startTime, Period)' = Reports(events, startTime, endTime' - startTime)
    BY <2>6 DEF Period
  <2>10. report' = None \/ Current'
    BY <2>1, <2>6, <2>7, <2>8, <2>9 DEF Current
  <2> QED BY <2>5, <2>6, <2>10 DEF IInv
<1>4. CASE UNCHANGED vars
  BY <1>4 DEF vars, IInv, Current, Period
<1> QED BY <1>1, <1>2, <1>3, <1>4 DEF Next

(* The report belongs to the events collected and to the time since the start. *)
THEOREM Invariant == Spec => []IInv
BY InitInv, InvNext, PTL DEF Spec

-----------------------------------------------------------------------------
(* The parts of a report. *)
LEMMA ReportIs ==
  ASSUME NEW evs, NEW start, NEW duration, NEW r \in Reports(evs, start, duration)
  PROVE  LET dns == filterEvents(evs, "DNS")
             tcp == TcpEvents(evs)
             connects == filterEvents(evs, "CONNECT")
             fs == FsEvents(evs)
             cpu == filterEvents(evs, "SCHED_SWITCH")
             none == [count |-> 0]
         IN /\ r.total = Len(evs)
            /\ r.dns = IF DOMAIN dns = {} THEN none ELSE analyzeDNS(dns)
            /\ r.tcp = IF DOMAIN tcp = {} THEN none ELSE analyzeTCP(tcp)
            /\ r.connect = IF DOMAIN connects = {} THEN none ELSE analyzeConnections(connects)
            /\ r.fs = IF DOMAIN fs = {} THEN none ELSE analyzeFS(fs)
            /\ r.cpu = IF DOMAIN cpu = {} THEN none ELSE analyzeCPU(cpu)
            /\ r.usage \in Usages(ProcessActivity(evs))
            /\ r.top \in Tops(ProcessActivity(evs))
            /\ r.timeline = analyzeTimeline(evs, start, duration)
            /\ r.bursts = detectBursts(evs, start, duration)
            /\ r.pattern = IF DOMAIN connects = {} THEN none
                           ELSE analyzeConnectionPattern(connects, start, duration)
            /\ r.io = IF DOMAIN tcp = {} THEN none ELSE analyzeIOPattern(tcp, start, duration)
            /\ r.issues = detectIssues(evs)
<1>1. PICK rankings :
        /\ rankings.usage \in Usages(ProcessActivity(evs))
        /\ rankings.top \in Tops(ProcessActivity(evs))
        /\ r = Report(evs, start, duration, rankings)
  BY DEF Reports
<1> QED BY <1>1 DEF Report, Section

(* The variables keep their types. *)
THEOREM TypeCorrect == Spec => []TypeOK
<1>1. IInv => TypeOK
  <2> SUFFICES ASSUME IInv PROVE TypeOK
    OBVIOUS
  <2>1. report = None => report.total = 0
    BY DEF None
  <2>2. Current => report.total = Len(events)
    BY ReportIs DEF Current
  <2> QED BY <2>1, <2>2 DEF IInv, TypeOK
<1> QED BY <1>1, Invariant, PTL
-----------------------------------------------------------------------------
(* The events of some types, as a function from their positions. *)
Typed(evs, types) == RestrictValues(evs, LAMBDA e : e.type \in types)

(* Such a function has the events of those types and no other. *)
LEMMA TypedIs ==
  ASSUME NEW evs, NEW types
  PROVE  /\ DOMAIN Typed(evs, types) = {i \in DOMAIN evs : evs[i].type \in types}
         /\ \A i \in DOMAIN Typed(evs, types) : Typed(evs, types)[i] = evs[i]
BY DEF Typed, RestrictValues, Restrict

(* The sections are those of SectionTypes. *)
LEMMA SectionsAre ==
  ASSUME NEW evs
  PROVE  /\ \A t : filterEvents(evs, t) = Typed(evs, {t})
         /\ TcpEvents(evs) = Typed(evs, {"TCP_SEND", "TCP_RECV"})
         /\ FsEvents(evs) = Typed(evs, {"WRITE", "READ", "FSYNC"})
<1>1. \A t : filterEvents(evs, t) = Typed(evs, {t})
  BY DEF filterEvents, Typed, RestrictValues, Restrict
<1>2. \A types : OfTypes(evs, types) = Typed(evs, types)
  <2> TAKE types
  <2>1. \A t : DOMAIN filterEvents(evs, t) = {i \in DOMAIN evs : evs[i].type = t}
    BY DEF filterEvents, RestrictValues, Restrict
  <2>2. UNION {DOMAIN filterEvents(evs, t) : t \in types}
          = {i \in DOMAIN evs : evs[i].type \in types}
    <3>1. \A i : i \in UNION {DOMAIN filterEvents(evs, t) : t \in types}
                  <=> \E t \in types : i \in DOMAIN filterEvents(evs, t)
      OBVIOUS
    <3>2. \A i : i \in UNION {DOMAIN filterEvents(evs, t) : t \in types}
                  <=> i \in {j \in DOMAIN evs : evs[j].type \in types}
      BY <2>1, <3>1
    <3> QED BY <3>2
  <2> QED BY <2>2 DEF OfTypes, Typed, RestrictValues, Restrict
<1> QED BY <1>1, <1>2 DEF TcpEvents, FsEvents

(* A section counts all of its events, and describes their latencies. *)
LEMMA SectionIs ==
  ASSUME NEW evs, NEW start, NEW duration, NEW r \in Reports(evs, start, duration),
         IsFiniteSet(DOMAIN evs), NEW s \in DOMAIN SectionTypes
  PROVE  LET own == Typed(evs, SectionTypes[s])
         IN /\ r[s].count = Cardinality(DOMAIN own)
            /\ IsFiniteSet(DOMAIN own)
            /\ r[s].count > 0 <=> DOMAIN own # {}
            /\ DOMAIN own # {} => r[s].latency = Latency(own)
<1> DEFINE own == Typed(evs, SectionTypes[s])
<1>1. IsFiniteSet(DOMAIN own)
  BY TypedIs, FS_Subset
<1>2. Cardinality(DOMAIN own) \in Nat /\ (Cardinality(DOMAIN own) = 0 <=> DOMAIN own = {})
  BY <1>1, FS_CardinalityType, FS_EmptySet
<1>3. s \in {"dns", "connect", "tcp", "fs", "cpu"}
  BY DEF SectionTypes
<1>4. \/ DOMAIN own = {} /\ r[s] = [count |-> 0]
      \/ DOMAIN own # {} /\ r[s].count = Number(own) /\ r[s].latency = Latency(own)
  <2>1. CASE s = "dns"
    <3>1. own = filterEvents(evs, "DNS")
      BY <2>1, SectionsAre DEF SectionTypes
    <3>2. r.dns = IF DOMAIN own = {} THEN [count |-> 0] ELSE analyzeDNS(own)
      BY <3>1, ReportIs
    <3> HIDE DEF own
    <3>3. r[s] = IF DOMAIN own = {} THEN [count |-> 0] ELSE analyzeDNS(own)
      BY <2>1, <3>2
    <3>4. analyzeDNS(own).count = Number(own) /\ analyzeDNS(own).latency = Latency(own)
      BY DEF analyzeDNS, Count
    <3> QED BY <3>3, <3>4
  <2>2. CASE s = "connect"
    <3>1. own = filterEvents(evs, "CONNECT")
      BY <2>2, SectionsAre DEF SectionTypes
    <3>2. r.connect = IF DOMAIN own = {} THEN [count |-> 0] ELSE analyzeConnections(own)
      BY <3>1, ReportIs
    <3> HIDE DEF own
    <3>3. r[s] = IF DOMAIN own = {} THEN [count |-> 0] ELSE analyzeConnections(own)
      BY <2>2, <3>2
    <3>4. analyzeConnections(own).count = Number(own) /\ analyzeConnections(own).latency = Latency(own)
      BY DEF analyzeConnections, Count
    <3> QED BY <3>3, <3>4
  <2>3. CASE s = "tcp"
    <3>1. own = TcpEvents(evs)
      BY <2>3, SectionsAre DEF SectionTypes
    <3>2. r.tcp = IF DOMAIN own = {} THEN [count |-> 0] ELSE analyzeTCP(own)
      BY <3>1, ReportIs
    <3> HIDE DEF own
    <3>3. r[s] = IF DOMAIN own = {} THEN [count |-> 0] ELSE analyzeTCP(own)
      BY <2>3, <3>2
    <3>4. analyzeTCP(own).count = Number(own) /\ analyzeTCP(own).latency = Latency(own)
      BY DEF analyzeTCP, Count
    <3> QED BY <3>3, <3>4
  <2>4. CASE s = "fs"
    <3>1. own = FsEvents(evs)
      BY <2>4, SectionsAre DEF SectionTypes
    <3>2. r.fs = IF DOMAIN own = {} THEN [count |-> 0] ELSE analyzeFS(own)
      BY <3>1, ReportIs
    <3> HIDE DEF own
    <3>3. r[s] = IF DOMAIN own = {} THEN [count |-> 0] ELSE analyzeFS(own)
      BY <2>4, <3>2
    <3>4. analyzeFS(own).count = Number(own) /\ analyzeFS(own).latency = Latency(own)
      BY DEF analyzeFS, Count
    <3> QED BY <3>3, <3>4
  <2>5. CASE s = "cpu"
    <3>1. own = filterEvents(evs, "SCHED_SWITCH")
      BY <2>5, SectionsAre DEF SectionTypes
    <3>2. r.cpu = IF DOMAIN own = {} THEN [count |-> 0] ELSE analyzeCPU(own)
      BY <3>1, ReportIs
    <3> HIDE DEF own
    <3>3. r[s] = IF DOMAIN own = {} THEN [count |-> 0] ELSE analyzeCPU(own)
      BY <2>5, <3>2
    <3>4. analyzeCPU(own).count = Number(own) /\ analyzeCPU(own).latency = Latency(own)
      BY DEF analyzeCPU, Count
    <3> QED BY <3>3, <3>4
  <2> QED BY <1>3, <2>1, <2>2, <2>3, <2>4, <2>5
<1> HIDE DEF own
<1>5. r[s].count = Cardinality(DOMAIN own)
  BY <1>2, <1>4 DEF Number
<1> QED BY <1>1, <1>2, <1>4, <1>5 DEF own

-----------------------------------------------------------------------------
(* What is known of the events collected. *)
LEMMA EventsAre ==
  ASSUME NEW evs \in Seq(Inputs)
  PROVE  /\ DOMAIN evs = 1 .. Len(evs)
         /\ IsFiniteSet(DOMAIN evs)
         /\ Len(evs) \in Nat /\ Cardinality(DOMAIN evs) = Len(evs)
         /\ \A i \in DOMAIN evs :
              /\ evs[i].type \in EventTypes
              /\ evs[i].timestamp \in Nat /\ evs[i].latency \in Nat /\ evs[i].error \in Int
<1>1. DOMAIN evs = 1 .. Len(evs) /\ Len(evs) \in Nat
  OBVIOUS
<1>2. IsFiniteSet(1 .. Len(evs)) /\ Cardinality(1 .. Len(evs)) = Len(evs)
  <2>1. \A n \in Nat : IsFiniteSet(1 .. n) /\ Cardinality(1 .. n) = n
    BY FS_Interval
  <2> QED BY <1>1, <2>1
<1>3. \A i \in DOMAIN evs : evs[i] \in Inputs
  OBVIOUS
<1> QED BY <1>1, <1>2, <1>3, DiagnosticianAssumption

(* A report that was made is one of those events. *)
LEMMA MadeCurrent == IInv /\ Made => Current /\ events \in Seq(Inputs)
BY DEF IInv, Made

(* The parts of a set without common elements. *)
LEMMA DisjointCount ==
  ASSUME NEW S, IsFiniteSet(S), NEW T, IsFiniteSet(T), S \cap T = {}
  PROVE  /\ IsFiniteSet(S \cup T)
         /\ Cardinality(S \cup T) = Cardinality(S) + Cardinality(T)
         /\ Cardinality(S) \in Nat /\ Cardinality(T) \in Nat
<1>1. PICK N : N = S \cap T
  OBVIOUS
<1>2. IsFiniteSet(S \cup T) /\ Cardinality(S \cup T) = Cardinality(S) + Cardinality(T) - Cardinality(S \cap T)
  BY FS_Union
<1>3. Cardinality(S \cap T) = 0
  BY FS_EmptySet
<1> QED BY <1>2, <1>3, FS_CardinalityType

(* Each event is in one section. *)
LEMMA SectionCounts ==
  ASSUME NEW evs \in Seq(Inputs), NEW start, NEW duration, NEW r \in Reports(evs, start, duration)
  PROVE  r.total = r.dns.count + r.tcp.count + r.connect.count + r.fs.count + r.cpu.count
<1> DEFINE Of(s) == DOMAIN Typed(evs, SectionTypes[s])
<1>1. IsFiniteSet(DOMAIN evs) /\ Cardinality(DOMAIN evs) = Len(evs)
  BY EventsAre
<1>2. DOMAIN SectionTypes = {"dns", "connect", "tcp", "fs", "cpu"}
  BY DEF SectionTypes
<1>3. \A s \in DOMAIN SectionTypes : r[s].count = Cardinality(Of(s)) /\ IsFiniteSet(Of(s))
  BY <1>1, SectionIs
<1>4. \A s \in DOMAIN SectionTypes : Of(s) = {i \in DOMAIN evs : evs[i].type \in SectionTypes[s]}
  BY DEF Typed, RestrictValues, Restrict
<1>5. PICK A, B, C, D, E : /\ A = Of("dns") /\ B = Of("tcp") /\ C = Of("connect")
                           /\ D = Of("fs") /\ E = Of("cpu")
  OBVIOUS
<1>6. /\ A = {i \in DOMAIN evs : evs[i].type = "DNS"}
      /\ B = {i \in DOMAIN evs : evs[i].type \in {"TCP_SEND", "TCP_RECV"}}
      /\ C = {i \in DOMAIN evs : evs[i].type = "CONNECT"}
      /\ D = {i \in DOMAIN evs : evs[i].type \in {"WRITE", "READ", "FSYNC"}}
      /\ E = {i \in DOMAIN evs : evs[i].type = "SCHED_SWITCH"}
  BY <1>2, <1>4, <1>5 DEF SectionTypes
<1>7. IsFiniteSet(A) /\ IsFiniteSet(B) /\ IsFiniteSet(C) /\ IsFiniteSet(D) /\ IsFiniteSet(E)
  BY <1>2, <1>3, <1>5
<1>8. /\ r["dns"].count = Cardinality(A) /\ r["tcp"].count = Cardinality(B)
      /\ r["connect"].count = Cardinality(C) /\ r["fs"].count = Cardinality(D)
      /\ r["cpu"].count = Cardinality(E)
  BY <1>2, <1>3, <1>5
<1> HIDE DEF Of
<1>9. /\ A \cap B = {} /\ (A \cup B) \cap C = {} /\ (A \cup B \cup C) \cap D = {}
      /\ (A \cup B \cup C \cup D) \cap E = {}
  BY <1>6
<1>10. \A i \in DOMAIN evs : i \in A \/ i \in B \/ i \in C \/ i \in D \/ i \in E
  BY <1>6, EventsAre DEF EventTypes
<1>11. A \cup B \cup C \cup D \cup E = DOMAIN evs
  BY <1>6, <1>10
<1>12. IsFiniteSet(A \cup B) /\ Cardinality(A \cup B) = Cardinality(A) + Cardinality(B)
  BY <1>7, <1>9, DisjointCount
<1>13. /\ IsFiniteSet(A \cup B \cup C)
       /\ Cardinality(A \cup B \cup C) = Cardinality(A \cup B) + Cardinality(C)
  BY <1>7, <1>9, <1>12, DisjointCount
<1>14. /\ IsFiniteSet(A \cup B \cup C \cup D)
       /\ Cardinality(A \cup B \cup C \cup D) = Cardinality(A \cup B \cup C) + Cardinality(D)
  BY <1>7, <1>9, <1>13, DisjointCount
<1>15. Cardinality(A \cup B \cup C \cup D \cup E) = Cardinality(A \cup B \cup C \cup D) + Cardinality(E)
  BY <1>7, <1>9, <1>14, DisjointCount
<1>16. r.total = Len(evs)
  BY ReportIs
<1>17. Len(evs) = Cardinality(A) + Cardinality(B) + Cardinality(C) + Cardinality(D) + Cardinality(E)
  BY <1>1, <1>11, <1>12, <1>13, <1>14, <1>15
<1> QED BY <1>8, <1>16, <1>17

BucketOf(evs, start, duration) ==
  [i \in DOMAIN evs |-> Bucket(evs[i].timestamp - start, duration \div 5)]
Span(start, duration) == start \in Nat /\ duration \in Nat /\ duration >= 5

(* The timeline counts the events of each bucket. *)
LEMMA TimelineIs ==
  ASSUME NEW evs, NEW start, NEW duration
  PROVE  /\ DOMAIN analyzeTimeline(evs, start, duration) = Buckets
         /\ \A b \in Buckets :
              analyzeTimeline(evs, start, duration)[b]
                = Cardinality(At(DOMAIN evs, BucketOf(evs, start, duration), b))
<1>1. \A b : {i \in DOMAIN evs : Bucket(evs[i].timestamp - start, duration \div 5) = b}
               = At(DOMAIN evs, BucketOf(evs, start, duration), b)
  BY DEF At, BucketOf
<1> QED BY <1>1 DEF analyzeTimeline, Count, Quantify

(* Each event is in one bucket of the timeline. *)
LEMMA TimelineCounts ==
  ASSUME NEW evs \in Seq(Inputs), NEW start, NEW duration, Span(start, duration)
  PROVE  Len(evs) = SumFunction(analyzeTimeline(evs, start, duration))
<1> DEFINE f == analyzeTimeline(evs, start, duration)
           h == BucketOf(evs, start, duration)
<1>1. start \in Nat /\ duration \in Nat /\ duration >= 5
  BY DEF Span
<1>2. PICK D : D = DOMAIN evs
  OBVIOUS
<1>3. PICK K : K = Buckets
  OBVIOUS
<1>4. IsFiniteSet(K)
  <2>1. \A n \in Nat : IsFiniteSet(0 .. n)
    BY FS_Interval
  <2>2. IsFiniteSet(0 .. 4)
    BY <2>1
  <2> QED BY <1>3, <2>2 DEF Buckets
<1>5. IsFiniteSet(D) /\ Cardinality(D) = Len(evs)
  BY <1>2, EventsAre
<1>7. \A i \in D : h[i] \in K
  <2>1. PICK width : width = duration \div 5
    OBVIOUS
  <2>2. width \in Nat \ {0}
    BY <1>1, <2>1
  <2>3. ASSUME NEW i \in D PROVE h[i] \in Buckets
    <3>1. PICK e \in Int : e = evs[i].timestamp - start
      BY <1>1, <1>2, EventsAre
    <3>2. h[i] = Bucket(e, width)
      BY <1>2, <2>1, <3>1 DEF BucketOf
    <3> QED BY <2>2, <3>2, BucketInRange
  <2> QED BY <1>3, <2>3
<1>9. DOMAIN f = K /\ \A b \in K : f[b] = Cardinality(At(D, h, b))
  BY <1>2, <1>3, TimelineIs
<1> HIDE DEF f, h
<1>10. SumFunctionOnSet(f, K) = Cardinality(Where(D, h, K))
  BY <1>4, <1>5, <1>9, CountsAddUp
<1>11. Where(D, h, K) = D
  BY <1>7 DEF Where
<1> QED BY <1>5, <1>9, <1>10, <1>11 DEF SumFunction, f

-----------------------------------------------------------------------------
(* A ranking has each key once, and the rows are its first ones. *)
LEMMA RankingIs ==
  ASSUME NEW counts, IsFiniteSet(DOMAIN counts), NEW keys \in Rankings(counts)
  PROVE  /\ keys \in Seq(DOMAIN counts)
         /\ \A i, j \in DOMAIN keys : i # j => keys[i] # keys[j]
         /\ \A x \in DOMAIN counts : \E i \in DOMAIN keys : keys[i] = x
         /\ \A i, j \in DOMAIN keys : i < j => counts[keys[i]] >= counts[keys[j]]
<1> DEFINE n == Cardinality(DOMAIN counts)
<1>1. n \in Nat
  BY FS_CardinalityType
<1>2. PICK S : S = 1 .. n
  OBVIOUS
<1>3. IsFiniteSet(S) /\ Cardinality(S) = n
  BY <1>1, <1>2, FS_Interval
<1>4. PICK T : T = DOMAIN counts
  OBVIOUS
<1>5. keys \in [S -> T] /\ \A i, j \in S : i # j => keys[i] # keys[j]
  BY <1>2, <1>4 DEF Rankings, SetToSeqs
<1>6. \A i, j \in DOMAIN keys : i < j => counts[keys[i]] >= counts[keys[j]]
  BY DEF Rankings
<1>7. keys \in Injection(S, T)
  BY <1>5 DEF Injection, IsInjective
<1>8. Cardinality(S) = Cardinality(T)
  BY <1>3, <1>4
<1>9. keys \in Surjection(S, T)
  BY <1>4, <1>7, <1>8, FS_Injection
<1>10. \A x \in T : \E i \in S : keys[i] = x
  BY <1>9 DEF Surjection
<1> QED BY <1>1, <1>2, <1>4, <1>5, <1>6, <1>10

(* The rows of a table are the first keys of its ranking. *)
LEMMA RowsAre ==
  ASSUME NEW S, NEW keys \in Seq(S), NEW n \in Nat
  PROVE  /\ Rows(keys, n) \in Seq(S)
         /\ Len(Rows(keys, n)) = IF n <= Len(keys) THEN n ELSE Len(keys)
         /\ \A i \in 1 .. Len(Rows(keys, n)) : Rows(keys, n)[i] = keys[i]
<1> DEFINE m == Min({n, Len(keys)})
<1>1. m = IF n <= Len(keys) THEN n ELSE Len(keys)
  BY DEF Min
<1>2. m \in Nat /\ m <= Len(keys)
  BY <1>1
<1> HIDE DEF m
<1>3. Rows(keys, n) = SubSeq(keys, 1, m)
  BY DEF Rows, m
<1>4. /\ SubSeq(keys, 1, m) \in Seq(S)
      /\ Len(SubSeq(keys, 1, m)) = m
      /\ \A i \in 1 .. m : SubSeq(keys, 1, m)[i] = keys[i]
  BY <1>2
<1> QED BY <1>1, <1>3, <1>4

(* The events of each process: every event is of one. *)
LEMMA ActivityIs ==
  ASSUME NEW evs \in Seq(Inputs)
  PROVE  /\ DOMAIN ProcessActivity(evs) = {evs[i].pid : i \in DOMAIN evs}
         /\ IsFiniteSet(DOMAIN ProcessActivity(evs))
         /\ \A p \in DOMAIN ProcessActivity(evs) :
              /\ ProcessActivity(evs)[p] = Cardinality({i \in DOMAIN evs : evs[i].pid = p})
              /\ ProcessActivity(evs)[p] \in Nat
         /\ SumFunction(ProcessActivity(evs)) = Len(evs)
<1> DEFINE D == DOMAIN evs
           f == ProcessActivity(evs)
           h == [i \in D |-> evs[i].pid]
<1>1. IsFiniteSet(D) /\ Cardinality(D) = Len(evs)
  BY EventsAre
<1>2. PICK K : K = {h[i] : i \in D}
  OBVIOUS
<1>3. IsFiniteSet(K)
  <2> HIDE DEF h, D
  <2> QED BY <1>1, <1>2, ImageFinite
<1>4. K = {evs[i].pid : i \in D}
  BY <1>2
<1>5. \A p : p \in {e.pid : e \in Range(evs)} <=> p \in {evs[i].pid : i \in D}
  BY DEF Range
<1>6. DOMAIN f = K
  BY <1>4, <1>5 DEF ProcessActivity
<1>7. \A p \in K : f[p] = Cardinality({i \in D : evs[i].pid = p})
  BY <1>4, <1>5 DEF ProcessActivity, Count, Quantify
<1>8. \A p : {i \in D : evs[i].pid = p} = At(D, h, p)
  BY DEF At
<1>9. ASSUME NEW p \in K PROVE f[p] = Cardinality(At(D, h, p)) /\ f[p] \in Nat
  <2>1. f[p] = Cardinality(At(D, h, p))
    BY <1>7, <1>8
  <2>2. At(D, h, p) \in SUBSET D
    BY DEF At
  <2> HIDE DEF f, D, h
  <2>3. Cardinality(At(D, h, p)) \in Nat
    BY <1>1, <2>2, FS_Subset, FS_CardinalityType
  <2> QED BY <2>1, <2>3
<1>10. Where(D, h, K) = D
  BY <1>2 DEF Where
<1>11. SumFunctionOnSet(f, K) = Cardinality(Where(D, h, K))
  <2> HIDE DEF f, D, h
  <2> QED BY <1>1, <1>3, <1>9, CountsAddUp
<1>12. SumFunction(f) = Len(evs)
  BY <1>1, <1>6, <1>10, <1>11 DEF SumFunction
<1>13. \A p \in K : f[p] = Cardinality({i \in D : evs[i].pid = p}) /\ f[p] \in Nat
  BY <1>7, <1>9
<1> HIDE DEF f
<1>14. DOMAIN f = {evs[i].pid : i \in D} /\ IsFiniteSet(DOMAIN f)
  BY <1>3, <1>4, <1>6
<1>15. \A p \in DOMAIN f : f[p] = Cardinality({i \in D : evs[i].pid = p}) /\ f[p] \in Nat
  BY <1>6, <1>13
<1> QED BY <1>12, <1>14, <1>15 DEF f

(* The total of some rows: the events of their processes. *)
LEMMA TotalIs ==
  ASSUME NEW evs \in Seq(Inputs), NEW keys \in Seq(DOMAIN ProcessActivity(evs)),
         \A i, j \in DOMAIN keys : i # j => keys[i] # keys[j]
  PROVE  Total(keys, ProcessActivity(evs))
           = Cardinality({j \in DOMAIN evs : evs[j].pid \in ToSet(keys)})
<1> DEFINE D == DOMAIN evs
           counts == ProcessActivity(evs)
           h == [j \in D |-> IF evs[j].pid \in ToSet(keys)
                               THEN CHOOSE i \in DOMAIN keys : keys[i] = evs[j].pid ELSE 0]
           f == [i \in DOMAIN keys |-> counts[keys[i]]]
<1>1. IsFiniteSet(D)
  BY EventsAre
<1>2. DOMAIN keys = 1 .. Len(keys) /\ Len(keys) \in Nat
  OBVIOUS
<1>3. PICK K : K = DOMAIN keys
  OBVIOUS
<1>4. IsFiniteSet(K) /\ 0 \notin K
  BY <1>2, <1>3, FS_Interval
<1>5. ASSUME NEW j \in D, NEW i \in K PROVE h[j] = i <=> evs[j].pid = keys[i]
  <2>1. keys[i] \in ToSet(keys)
    BY <1>3 DEF ToSet
  <2>2. CASE evs[j].pid \in ToSet(keys)
    <3>1. PICK k \in DOMAIN keys : keys[k] = evs[j].pid
      BY <2>2 DEF ToSet
    <3>2. h[j] \in DOMAIN keys /\ keys[h[j]] = evs[j].pid
      BY <2>2, <3>1
    <3> QED BY <1>3, <3>2
  <2>3. CASE evs[j].pid \notin ToSet(keys)
    BY <1>4, <2>1, <2>3
  <2> QED BY <2>2, <2>3
<1>6. \A j \in D : h[j] \in K <=> evs[j].pid \in ToSet(keys)
  <2> TAKE j \in D
  <2>1. CASE evs[j].pid \in ToSet(keys)
    <3>1. PICK k \in DOMAIN keys : keys[k] = evs[j].pid
      BY <2>1 DEF ToSet
    <3> QED BY <1>3, <1>5, <2>1, <3>1
  <2>2. CASE evs[j].pid \notin ToSet(keys)
    BY <1>4, <2>2
  <2> QED BY <2>1, <2>2
<1>7. ASSUME NEW i \in K PROVE f[i] = Cardinality(At(D, h, i))
  <2>1. keys[i] \in DOMAIN counts
    BY <1>3
  <2>2. counts[keys[i]] = Cardinality({j \in D : evs[j].pid = keys[i]})
    BY <2>1, ActivityIs
  <2>3. {j \in D : evs[j].pid = keys[i]} = At(D, h, i)
    BY <1>5 DEF At
  <2>4. f[i] = counts[keys[i]]
    BY <1>3
  <2> HIDE DEF f, counts, h, D
  <2> QED BY <2>2, <2>3, <2>4
<1>8. Where(D, h, K) = {j \in D : evs[j].pid \in ToSet(keys)}
  BY <1>6 DEF Where
<1>9. SumFunctionOnSet(f, K) = Cardinality(Where(D, h, K))
  <2> HIDE DEF f, D, h
  <2> QED BY <1>1, <1>4, <1>7, CountsAddUp
<1>10. Total(keys, ProcessActivity(evs)) = SumFunctionOnSet(f, K)
  BY <1>3 DEF Total, SumFunction
<1> HIDE DEF f, h
<1> QED BY <1>8, <1>9, <1>10

(* The processes of one kind, in the order of a ranking of their own. *)
LEMMA KindIs ==
  ASSUME NEW evs \in Seq(Inputs), NEW T, T \subseteq DOMAIN ProcessActivity(evs),
         NEW keys \in Rankings(Restrict(ProcessActivity(evs), T)), NEW n \in Nat
  PROVE  LET rows == Rows(keys, n)
         IN /\ rows \in Seq(T)
            /\ ToSet(rows) \subseteq T
            /\ \A i, j \in DOMAIN rows : i # j => rows[i] # rows[j]
            /\ \A p \in ToSet(rows), q \in T :
                 q \in ToSet(rows) \/ ProcessActivity(evs)[q] <= ProcessActivity(evs)[p]
<1> DEFINE counts == ProcessActivity(evs)
           own == Restrict(counts, T)
           rows == Rows(keys, n)
<1>1. DOMAIN own = T /\ \A p \in T : own[p] = counts[p]
  BY DEF Restrict
<1>2. IsFiniteSet(DOMAIN counts) /\ \A p \in DOMAIN counts : counts[p] \in Nat
  BY ActivityIs
<1>3. IsFiniteSet(T)
  BY <1>2, FS_Subset
<1> HIDE DEF own, counts
<1>4. /\ keys \in Seq(T)
      /\ \A i, j \in DOMAIN keys : i # j => keys[i] # keys[j]
      /\ \A x \in T : \E i \in DOMAIN keys : keys[i] = x
      /\ \A i, j \in DOMAIN keys : i < j => own[keys[i]] >= own[keys[j]]
  <2>1. IsFiniteSet(DOMAIN own) /\ keys \in Rankings(own)
    BY <1>1, <1>3 DEF own, counts
  <2> QED BY <1>1, <2>1, RankingIs
<1>5. /\ rows \in Seq(T)
      /\ Len(rows) = IF n <= Len(keys) THEN n ELSE Len(keys)
      /\ \A i \in 1 .. Len(rows) : rows[i] = keys[i]
  BY <1>4, RowsAre
<1> HIDE DEF rows
<1>6. DOMAIN rows = 1 .. Len(rows) /\ DOMAIN keys = 1 .. Len(keys) /\ Len(keys) \in Nat /\ Len(rows) \in Nat
      /\ Len(rows) <= Len(keys)
  BY <1>4, <1>5
<1>7. ToSet(rows) \subseteq T
  BY <1>5 DEF ToSet
<1>8. \A i, j \in DOMAIN rows : i # j => rows[i] # rows[j]
  BY <1>4, <1>5, <1>6
<1>9. ASSUME NEW p \in ToSet(rows), NEW q \in T, q \notin ToSet(rows)
      PROVE  counts[q] <= counts[p]
  <2>1. PICK i \in DOMAIN rows : rows[i] = p
    BY DEF ToSet
  <2>2. PICK j \in DOMAIN keys : keys[j] = q
    BY <1>4
  <2>3. j \notin DOMAIN rows
    <3>1. j \in DOMAIN rows => rows[j] = q
      BY <1>5, <1>6, <2>2
    <3> QED BY <1>9, <3>1 DEF ToSet
  <2>4. i < j /\ keys[i] = p /\ i \in DOMAIN keys
    BY <1>5, <1>6, <2>1, <2>3
  <2>5. own[p] >= own[q]
    BY <1>4, <2>2, <2>4
  <2>6. p \in T
    BY <1>7
  <2>7. counts[p] \in Nat /\ counts[q] \in Nat
    BY <1>2, <2>6 DEF counts
  <2> QED BY <1>1, <2>5, <2>6, <2>7
<1> QED BY <1>5, <1>7, <1>8, <1>9 DEF rows, counts

(* The CPU table: its rows are processes of their kind, and the used events those *)
(* of its rows, each of them once.                                                *)
LEMMA UsageIs ==
  ASSUME NEW evs \in Seq(Inputs), NEW usage \in Usages(ProcessActivity(evs))
  PROVE  LET D == DOMAIN evs
             shown == ToSet(usage.pods) \cup ToSet(usage.kernel)
         IN /\ usage.used = Cardinality({i \in D : evs[i].pid \in shown})
            /\ usage.used <= Len(evs)
            /\ ToSet(usage.pods) \subseteq DOMAIN ProcessActivity(evs)
            /\ \A p \in ToSet(usage.pods), q \in DOMAIN ProcessActivity(evs) :
                 \/ q \in ToSet(usage.pods) \cup KernelPids
                 \/ ProcessActivity(evs)[q] <= ProcessActivity(evs)[p]
<1> DEFINE counts == ProcessActivity(evs)
           P == {p \in DOMAIN counts : ~isKernelThread(p)}
           Q == {p \in DOMAIN counts : isKernelThread(p)}
<1>1. PICK podProcesses, kernelProcesses :
        /\ podProcesses \in Rankings(Restrict(counts, P))
        /\ kernelProcesses \in Rankings(Restrict(counts, Q))
        /\ usage = generateCPUUsageReport(counts, podProcesses, kernelProcesses)
  BY DEF Usages, RestrictDomain
<1>2. PICK pods, kernel : pods = Rows(podProcesses, PodRows) /\ kernel = Rows(kernelProcesses, KernelRows)
  OBVIOUS
<1>3. /\ usage.pods = pods /\ usage.kernel = kernel
      /\ usage.used = Total(pods, counts) + Total(kernel, counts)
  BY <1>1, <1>2 DEF generateCPUUsageReport, Used
<1>4. PodRows \in Nat /\ KernelRows \in Nat
  BY StatisticsAssumption
<1>5. /\ pods \in Seq(P) /\ ToSet(pods) \subseteq P
      /\ \A i, j \in DOMAIN pods : i # j => pods[i] # pods[j]
      /\ \A p \in ToSet(pods), q \in P : q \in ToSet(pods) \/ counts[q] <= counts[p]
  <2>1. PICK T : T = P
    OBVIOUS
  <2>2. T \subseteq DOMAIN counts /\ podProcesses \in Rankings(Restrict(counts, T))
    BY <1>1, <2>1
  <2> HIDE DEF P
  <2>3. /\ pods \in Seq(T) /\ ToSet(pods) \subseteq T
        /\ \A i, j \in DOMAIN pods : i # j => pods[i] # pods[j]
        /\ \A p \in ToSet(pods), q \in T : q \in ToSet(pods) \/ counts[q] <= counts[p]
    BY <1>2, <1>4, <2>2, KindIs
  <2> QED BY <2>1, <2>3
<1>6. /\ kernel \in Seq(Q) /\ ToSet(kernel) \subseteq Q
      /\ \A i, j \in DOMAIN kernel : i # j => kernel[i] # kernel[j]
  <2>1. PICK T : T = Q
    OBVIOUS
  <2>2. T \subseteq DOMAIN counts /\ kernelProcesses \in Rankings(Restrict(counts, T))
    BY <1>1, <2>1
  <2> HIDE DEF Q
  <2>3. /\ kernel \in Seq(T) /\ ToSet(kernel) \subseteq T
        /\ \A i, j \in DOMAIN kernel : i # j => kernel[i] # kernel[j]
    BY <1>2, <1>4, <2>2, KindIs
  <2> QED BY <2>1, <2>3
<1>7. pods \in Seq(DOMAIN counts) /\ kernel \in Seq(DOMAIN counts)
  <2>1. \A s \in Seq(P) \cup Seq(Q) : s \in Seq(DOMAIN counts)
    OBVIOUS
  <2> QED BY <1>5, <1>6, <2>1
<1>8. PICK D : D = DOMAIN evs
  OBVIOUS
<1>9. IsFiniteSet(D) /\ Cardinality(D) = Len(evs)
  BY <1>8, EventsAre
<1>10. PICK A, B : /\ A = {j \in D : evs[j].pid \in ToSet(pods)}
                   /\ B = {j \in D : evs[j].pid \in ToSet(kernel)}
  OBVIOUS
<1>11. Total(pods, counts) = Cardinality(A) /\ Total(kernel, counts) = Cardinality(B)
  BY <1>5, <1>6, <1>7, <1>8, <1>10, TotalIs
<1>12. ToSet(pods) \cap ToSet(kernel) = {}
  BY <1>5, <1>6
<1>13. A \cap B = {} /\ A \in SUBSET D /\ B \in SUBSET D /\ A \cup B \in SUBSET D
  BY <1>10, <1>12
<1> HIDE DEF counts, P, Q
<1>14. IsFiniteSet(A) /\ IsFiniteSet(B)
  BY <1>9, <1>13, FS_Subset
<1>15. Cardinality(A \cup B) = Cardinality(A) + Cardinality(B)
  BY <1>13, <1>14, DisjointCount
<1>16. Cardinality(A \cup B) <= Cardinality(D)
  BY <1>9, <1>13, FS_Subset
<1>17. usage.used = Cardinality(A \cup B) /\ usage.used <= Len(evs)
  BY <1>3, <1>9, <1>11, <1>15, <1>16
<1>18. A \cup B = {i \in DOMAIN evs : evs[i].pid \in ToSet(usage.pods) \cup ToSet(usage.kernel)}
  BY <1>3, <1>8, <1>10
<1>20. ToSet(pods) \subseteq DOMAIN counts
  BY <1>5 DEF P
<1>21. \A p \in ToSet(pods), q \in DOMAIN counts :
         q \in ToSet(pods) \cup KernelPids \/ counts[q] <= counts[p]
  BY <1>5 DEF P, isKernelThread
<1> QED BY <1>3, <1>17, <1>18, <1>20, <1>21 DEF counts

(* The breakdown of the failed connections has each of them under its code. *)
LEMMA BreakdownIs ==
  ASSUME NEW evs, IsFiniteSet(DOMAIN evs)
  PROVE  SumFunction(analyzeConnections(evs).breakdown)
           = Cardinality({i \in DOMAIN evs : evs[i].error # 0})
<1> DEFINE D == DOMAIN evs
           h == [i \in D |-> evs[i].error]
           f == analyzeConnections(evs).breakdown
<1>1. PICK I : I = {h[i] : i \in D}
  OBVIOUS
<1>2. PICK K : K = I \ {0}
  OBVIOUS
<1>3. IsFiniteSet(K)
  <2> HIDE DEF h, D
  <2>1. IsFiniteSet(I)
    BY <1>1, ImageFinite DEF D
  <2> QED BY <1>2, <2>1, FS_Subset
<1>4. {e.error : e \in Range(evs)} \ {0} = K
  BY <1>1, <1>2 DEF Range
<1>5. DOMAIN f = K /\ \A c \in K : f[c] = Cardinality({i \in D : evs[i].error = c})
  BY <1>4 DEF analyzeConnections, Count, Quantify
<1>6. \A c : {i \in D : evs[i].error = c} = At(D, h, c)
  BY DEF At
<1>7. Where(D, h, K) = {i \in D : evs[i].error # 0}
  BY <1>1, <1>2 DEF Where
<1>8. SumFunctionOnSet(f, K) = Cardinality(Where(D, h, K))
  <2>1. \A c \in K : f[c] = Cardinality(At(D, h, c))
    BY <1>5, <1>6
  <2>2. IsFiniteSet(D)
    OBVIOUS
  <2> HIDE DEF f, D, h
  <2> QED BY <1>3, <2>1, <2>2, CountsAddUp
<1> HIDE DEF f
<1> QED BY <1>5, <1>7, <1>8 DEF SumFunction, f

ConnectionsOf(r, own) ==
  /\ IsFiniteSet(DOMAIN own)
  /\ r.connect.count = Cardinality(DOMAIN own)
  /\ r.connect.count > 0 =>
       /\ r.connect.errors = Cardinality({i \in DOMAIN own : own[i].error # 0})
       /\ SumFunction(r.connect.breakdown) = r.connect.errors

(* The connections of a report: all of them, and the failed ones by their codes. *)
LEMMA ConnectIs ==
  ASSUME NEW evs \in Seq(Inputs), NEW start, NEW duration, NEW r \in Reports(evs, start, duration),
         NEW own, own = filterEvents(evs, "CONNECT")
  PROVE  ConnectionsOf(r, own)
<1>1. PICK s \in DOMAIN SectionTypes : s = "connect"
  BY DEF SectionTypes
<1>2. own = Typed(evs, SectionTypes[s]) /\ IsFiniteSet(DOMAIN evs)
  BY <1>1, SectionsAre, EventsAre DEF SectionTypes
<1>3. /\ r.connect.count = Cardinality(DOMAIN own) /\ IsFiniteSet(DOMAIN own)
      /\ r.connect.count > 0 <=> DOMAIN own # {}
  <2>1. /\ r[s].count = Cardinality(DOMAIN own) /\ IsFiniteSet(DOMAIN own)
        /\ r[s].count > 0 <=> DOMAIN own # {}
    BY <1>2, SectionIs
  <2> QED BY <1>1, <2>1
<1>4. r.connect = IF DOMAIN own = {} THEN [count |-> 0] ELSE analyzeConnections(own)
  BY ReportIs
<1>5. ASSUME r.connect.count > 0
      PROVE  /\ r.connect.errors = Cardinality({i \in DOMAIN own : own[i].error # 0})
             /\ SumFunction(r.connect.breakdown) = r.connect.errors
  <2>1. r.connect = analyzeConnections(own)
    BY <1>3, <1>4, <1>5
  <2>2. analyzeConnections(own).errors = Cardinality({i \in DOMAIN own : own[i].error # 0})
    BY DEF analyzeConnections, Count, Quantify
  <2>3. SumFunction(analyzeConnections(own).breakdown)
          = Cardinality({i \in DOMAIN own : own[i].error # 0})
    BY <1>3, BreakdownIs
  <2> QED BY <2>1, <2>2, <2>3
<1> QED BY <1>3, <1>5 DEF ConnectionsOf

(* Each event is in one section and in one bucket of the timeline, none is in two *)
(* rows of the CPU table, and the breakdown has each failed connection once.      *)
THEOREM SectionsCorrect == Spec => []SectionsAddUp
<1>1. IInv => SectionsAddUp
  <2> SUFFICES ASSUME IInv, Made PROVE SectionsAddUp
    BY DEF SectionsAddUp
  <2>1. Current /\ events \in Seq(Inputs)
    BY MadeCurrent
  <2>2. report.total = report.dns.count + report.tcp.count + report.connect.count
                         + report.fs.count + report.cpu.count
    BY <2>1, SectionCounts DEF Current
  <2>3. report.total = Len(events) /\ report.usage \in Usages(ProcessActivity(events))
        /\ report.timeline = analyzeTimeline(events, startTime, Period)
    BY <2>1, ReportIs DEF Current
  <2>4. report.total = SumFunction(report.timeline)
    BY <2>1, <2>3, TimelineCounts DEF Current, Span
  <2>5. report.usage.used <= Len(events)
    BY <2>1, <2>3, UsageIs
  <2>6. report.connect.count > 0 => report.connect.errors = SumFunction(report.connect.breakdown)
    <3>1. report \in Reports(events, startTime, Period)
      BY <2>1 DEF Current
    <3>2. PICK own : own = filterEvents(events, "CONNECT")
      OBVIOUS
    <3>3. ConnectionsOf(report, own)
      BY <2>1, <3>1, <3>2, ConnectIs
    <3> QED BY <3>3 DEF ConnectionsOf
  <2> QED BY <2>2, <2>3, <2>4, <2>5, <2>6 DEF SectionsAddUp
<1> QED BY <1>1, Invariant, PTL

(* Nothing that a ranking leaves out has more events than what it shows. *)
THEOREM TopCorrect == Spec => []TopIsTop
<1>1. IInv => TopIsTop
  <2> SUFFICES ASSUME IInv, Made PROVE TopIsTop
    BY DEF TopIsTop
  <2> DEFINE counts == ProcessActivity(events)
  <2>1. Current /\ events \in Seq(Inputs)
    BY MadeCurrent
  <2>2. report.usage \in Usages(counts) /\ report.top \in Tops(counts)
    BY <2>1, ReportIs DEF Current
  <2>3. \A i \in Collected : events[i].pid \in DOMAIN counts
    BY <2>1, ActivityIs DEF Collected
  <2>4. \A p \in DOMAIN counts : EventsOf(p) = counts[p]
    BY <2>1, ActivityIs DEF EventsOf, Quantify, Collected
  <2>5. /\ ToSet(report.usage.pods) \subseteq DOMAIN counts
        /\ \A p \in ToSet(report.usage.pods), q \in DOMAIN counts :
             q \in ToSet(report.usage.pods) \cup KernelPids \/ counts[q] <= counts[p]
    BY <2>1, <2>2, UsageIs
  <2>6. /\ ToSet(report.top) \subseteq DOMAIN counts
        /\ \A p \in ToSet(report.top), q \in DOMAIN counts :
             q \in ToSet(report.top) \/ counts[q] <= counts[p]
    <3>1. PICK keys \in Rankings(counts) : report.top = Rows(keys, TopRows)
      BY <2>2 DEF Tops
    <3>2. PICK T : T = DOMAIN counts
      OBVIOUS
    <3>3. counts = Restrict(counts, T)
      BY <3>2 DEF Restrict, ProcessActivity
    <3>4. TopRows \in Nat
      BY StatisticsAssumption
    <3>5. keys \in Rankings(Restrict(counts, T))
      BY <3>1, <3>3
    <3> QED BY <2>1, <3>1, <3>2, <3>4, <3>5, KindIs
  <2> HIDE DEF counts
  <2> QED BY <2>3, <2>4, <2>5, <2>6 DEF TopIsTop
<1> QED BY <1>1, Invariant, PTL

(* Two choices of as many of the largest elements of a set: the least of the one *)
(* is no larger than the least of the other.                                     *)
LEMMA CutBelow ==
  ASSUME NEW T, IsFiniteSet(T), NEW c, \A x \in T : c[x] \in Int,
         NEW P \in SUBSET T, NEW Q \in SUBSET T, Cardinality(P) = Cardinality(Q),
         NEW p \in P, NEW q \in Q,
         \A x \in P : c[x] >= c[p], \A x \in T \ Q : c[x] <= c[q]
  PROVE  c[p] <= c[q]
<1> SUFFICES ASSUME c[p] > c[q] PROVE FALSE
  <2>1. c[p] \in Int /\ c[q] \in Int
    OBVIOUS
  <2> QED BY <2>1
<1>1. \A x \in P : x \in Q /\ x # q
  <2> TAKE x \in P
  <2>1. c[x] \in Int /\ c[p] \in Int /\ c[q] \in Int /\ c[x] >= c[p]
    OBVIOUS
  <2>2. x \notin T \ Q
    BY <2>1
  <2>3. x # q
    BY <2>1
  <2> QED BY <2>2, <2>3
<1>2. PICK R : R = Q \ {q}
  OBVIOUS
<1>3. IsFiniteSet(Q) /\ Cardinality(Q) \in Nat
  BY FS_Subset, FS_CardinalityType
<1>4. IsFiniteSet(R) /\ Cardinality(R) = Cardinality(Q) - 1
  BY <1>2, <1>3, FS_RemoveElement
<1>5. P \in SUBSET R
  BY <1>1, <1>2
<1>6. Cardinality(P) <= Cardinality(R)
  BY <1>4, <1>5, FS_Subset
<1> QED BY <1>3, <1>4, <1>6

(* A function without repetitions has as many values as arguments. *)
LEMMA ImageCount ==
  ASSUME NEW S, IsFiniteSet(S), NEW f, \A x, y \in S : x # y => f[x] # f[y]
  PROVE  Cardinality({f[x] : x \in S}) = Cardinality(S)
<1> DEFINE g == [x \in S |-> f[x]]
<1>1. PICK I : I = {f[x] : x \in S}
  OBVIOUS
<1>2. g \in Surjection(S, I)
  BY <1>1 DEF Surjection
<1>3. g \in Injection(S, I)
  BY <1>1 DEF Injection, IsInjective
<1> HIDE DEF g
<1> QED BY <1>1, <1>2, <1>3, FS_Surjection

(* The processes of one kind in a ranking of all, and in one of their own: the k-th *)
(* of both have as many events, if both tables are so long.                         *)
LEMMA KthOfKind ==
  ASSUME NEW counts, IsFiniteSet(DOMAIN counts), \A p \in DOMAIN counts : counts[p] \in Nat,
         NEW T \in SUBSET DOMAIN counts,
         NEW keys \in Rankings(counts), NEW own \in Rankings(Restrict(counts, T)),
         NEW n \in Nat, NEW i \in DOMAIN keys, keys[i] \in T,
         NEW k, k = Cardinality({j \in 1 .. i : keys[j] \in T})
  PROVE  IF k \in DOMAIN Rows(own, n) THEN counts[Rows(own, n)[k]] = counts[keys[i]]
         ELSE Len(Rows(own, n)) = n
<1>1. IsFiniteSet(T)
  BY FS_Subset
<1>2. /\ keys \in Seq(DOMAIN counts)
      /\ \A j, l \in DOMAIN keys : j # l => keys[j] # keys[l]
      /\ \A x \in DOMAIN counts : \E j \in DOMAIN keys : keys[j] = x
      /\ \A j, l \in DOMAIN keys : j < l => counts[keys[j]] >= counts[keys[l]]
  BY RankingIs
<1>3. /\ own \in Seq(T)
      /\ \A j, l \in DOMAIN own : j # l => own[j] # own[l]
      /\ \A x \in T : \E j \in DOMAIN own : own[j] = x
      /\ \A j, l \in DOMAIN own : j < l => counts[own[j]] >= counts[own[l]]
  <2> DEFINE r == Restrict(counts, T)
  <2>1. DOMAIN r = T /\ \A p \in T : r[p] = counts[p]
    BY DEF Restrict
  <2>2. IsFiniteSet(DOMAIN r) /\ own \in Rankings(r)
    BY <1>1, <2>1
  <2> HIDE DEF r
  <2>3. /\ own \in Seq(T)
        /\ \A j, l \in DOMAIN own : j # l => own[j] # own[l]
        /\ \A x \in T : \E j \in DOMAIN own : own[j] = x
        /\ \A j, l \in DOMAIN own : j < l => r[own[j]] >= r[own[l]]
    <3>1. /\ own \in Seq(DOMAIN r)
          /\ \A j, l \in DOMAIN own : j # l => own[j] # own[l]
          /\ \A x \in DOMAIN r : \E j \in DOMAIN own : own[j] = x
          /\ \A j, l \in DOMAIN own : j < l => r[own[j]] >= r[own[l]]
      BY <2>2, RankingIs
    <3> QED BY <2>1, <3>1
  <2>4. \A j \in DOMAIN own : own[j] \in T
    BY <2>3
  <2> QED BY <2>1, <2>3, <2>4
<1>4. /\ DOMAIN keys = 1 .. Len(keys) /\ Len(keys) \in Nat /\ i \in 1 .. Len(keys)
      /\ DOMAIN own = 1 .. Len(own) /\ Len(own) \in Nat
  <2>1. DOMAIN keys = 1 .. Len(keys) /\ Len(keys) \in Nat
    <3>1. keys \in Seq(DOMAIN counts)
      BY <1>2
    <3> QED BY <3>1
  <2>2. DOMAIN own = 1 .. Len(own) /\ Len(own) \in Nat
    <3>1. own \in Seq(T)
      BY <1>3
    <3> QED BY <3>1
  <2> QED BY <2>1, <2>2
<1>21. \A m \in Nat : IsFiniteSet(1 .. m) /\ Cardinality(1 .. m) = m
  BY FS_Interval
<1>5. PICK J : J = {j \in 1 .. i : keys[j] \in T}
  OBVIOUS
<1>6. /\ J \in SUBSET (1 .. i) /\ i \in J /\ i \in Nat /\ J \subseteq DOMAIN keys
      /\ \A j \in DOMAIN keys : keys[j] \in T => j \in J \/ i < j
  BY <1>4, <1>5
<1>7. IsFiniteSet(J) /\ Cardinality(J) = k /\ k \in Nat \ {0}
  <2>2. IsFiniteSet(1 .. i)
    BY <1>6, <1>21
  <2>3. IsFiniteSet(J)
    BY <1>6, <2>2, FS_Subset
  <2> QED BY <1>5, <1>6, <2>3, FS_CardinalityType, FS_EmptySet
<1>8. PICK P : P = {keys[j] : j \in J}
  OBVIOUS
<1>9. Cardinality(P) = k /\ P \in SUBSET T /\ keys[i] \in P
  <2>1. Cardinality(P) = Cardinality(J)
    <3>1. \A j, l \in J : j # l => keys[j] # keys[l]
      BY <1>2, <1>6
    <3> QED BY <1>7, <1>8, <3>1, ImageCount
  <2> QED BY <1>5, <1>6, <1>7, <1>8, <2>1
<1>10. k <= Len(own)
  <2>1. PICK S : S = 1 .. Len(own)
    OBVIOUS
  <2>2. IsFiniteSet(S) /\ Cardinality(S) = Len(own)
    BY <1>4, <1>21, <2>1
  <2>3. {own[j] : j \in S} = T
    BY <1>3, <1>4, <2>1
  <2>4. \A j, l \in S : j # l => own[j] # own[l]
    BY <1>3, <1>4, <2>1
  <2>6. Cardinality({own[j] : j \in S}) = Cardinality(S)
    BY <2>2, <2>4, ImageCount
  <2>5. Cardinality(P) <= Cardinality(T)
    BY <1>1, <1>9, FS_Subset
  <2> QED BY <1>9, <2>2, <2>3, <2>5, <2>6
<1>11. PICK Q : Q = {own[j] : j \in 1 .. k}
  OBVIOUS
<1>12. Cardinality(Q) = k /\ Q \in SUBSET T /\ own[k] \in Q
  <2>0. PICK S : S = 1 .. k
    OBVIOUS
  <2>1. IsFiniteSet(S) /\ Cardinality(S) = k
    BY <1>7, <1>21, <2>0
  <2>2. (\A j \in S : j \in DOMAIN own) /\ k \in S
    <3>1. k \in Nat /\ k >= 1 /\ k <= Len(own) /\ Len(own) \in Nat
      BY <1>4, <1>7, <1>10
    <3>2. \A j \in 1 .. k : j \in 1 .. Len(own)
      BY <3>1
    <3>3. k \in 1 .. k
      BY <3>1
    <3> QED BY <1>4, <2>0, <3>2, <3>3
  <2>3. \A j, l \in S : j # l => own[j] # own[l]
    BY <1>3, <2>2
  <2>4. Cardinality({own[j] : j \in S}) = Cardinality(S)
    BY <2>1, <2>3, ImageCount
  <2>5. \A j \in S : own[j] \in T
    BY <1>3, <2>2
  <2>6. Q = {own[j] : j \in S}
    BY <1>11, <2>0
  <2> QED BY <2>1, <2>2, <2>4, <2>5, <2>6
<1>13. \A x \in T : counts[x] \in Int
  OBVIOUS
<1>14. /\ \A x \in P : counts[x] >= counts[keys[i]]
       /\ \A x \in T \ P : counts[x] <= counts[keys[i]]
  <2>1. ASSUME NEW x \in P PROVE counts[x] >= counts[keys[i]]
    <3>1. PICK j \in J : x = keys[j]
      BY <1>8
    <3>2. j \in DOMAIN keys /\ (j = i \/ j < i) /\ counts[keys[i]] \in Int
      BY <1>6, <1>13
    <3> QED BY <1>2, <3>1, <3>2
  <2>2. ASSUME NEW x \in T \ P PROVE counts[x] <= counts[keys[i]]
    <3>1. PICK j \in DOMAIN keys : x = keys[j]
      BY <1>2
    <3>2. j \notin J
      BY <1>8, <3>1
    <3>3. i < j
      BY <1>6, <3>1, <3>2
    <3>4. counts[keys[i]] >= counts[keys[j]]
      BY <1>2, <3>3
    <3>5. counts[keys[i]] \in Int /\ counts[x] \in Int
      BY <1>13
    <3> QED BY <3>1, <3>4, <3>5
  <2> QED BY <2>1, <2>2
<1>15. /\ \A x \in Q : counts[x] >= counts[own[k]]
       /\ \A x \in T \ Q : counts[x] <= counts[own[k]]
  <2>0. k \in DOMAIN own /\ own[k] \in T
    BY <1>4, <1>7, <1>10, <1>12
  <2>1. ASSUME NEW x \in Q PROVE counts[x] >= counts[own[k]]
    <3>1. PICK j \in 1 .. k : x = own[j]
      BY <1>11
    <3>2. j \in DOMAIN own /\ (j = k \/ j < k) /\ counts[own[k]] \in Int
      BY <1>4, <1>7, <1>10, <1>13, <2>0
    <3> QED BY <1>3, <2>0, <3>1, <3>2
  <2>2. ASSUME NEW x \in T \ Q PROVE counts[x] <= counts[own[k]]
    <3>1. PICK j \in DOMAIN own : x = own[j]
      BY <1>3
    <3>2. j \notin 1 .. k
      BY <1>11, <3>1
    <3>3. k < j
      BY <1>4, <1>7, <3>2
    <3>4. counts[own[k]] >= counts[own[j]]
      BY <1>3, <2>0, <3>3
    <3>5. counts[own[k]] \in Int /\ counts[x] \in Int
      BY <1>13, <2>0
    <3> QED BY <3>1, <3>4, <3>5
  <2> QED BY <2>1, <2>2
<1>16. counts[own[k]] = counts[keys[i]]
  <2>1. Cardinality(P) = Cardinality(Q)
    BY <1>9, <1>12
  <2>2. PICK p \in P, q \in Q : p = keys[i] /\ q = own[k]
    BY <1>9, <1>12
  <2>3. P \in SUBSET T /\ Q \in SUBSET T
    BY <1>9, <1>12
  <2>4. counts[p] <= counts[q]
    BY <1>1, <1>13, <1>14, <1>15, <2>1, <2>2, <2>3, CutBelow
  <2>5. counts[q] <= counts[p]
    BY <1>1, <1>13, <1>14, <1>15, <2>1, <2>2, <2>3, CutBelow
  <2>6. counts[p] \in Int /\ counts[q] \in Int
    BY <1>13, <2>3
  <2> QED BY <2>2, <2>4, <2>5, <2>6
<1>17. /\ Rows(own, n) \in Seq(T)
       /\ Len(Rows(own, n)) = IF n <= Len(own) THEN n ELSE Len(own)
       /\ \A j \in 1 .. Len(Rows(own, n)) : Rows(own, n)[j] = own[j]
  BY <1>3, RowsAre
<1>18. DOMAIN Rows(own, n) = 1 .. Len(Rows(own, n))
  BY <1>17
<1>19. CASE k \in DOMAIN Rows(own, n)
  BY <1>16, <1>17, <1>18, <1>19
<1>20. CASE k \notin DOMAIN Rows(own, n)
  <2>1. PICK l : l = Len(Rows(own, n))
    OBVIOUS
  <2>2. l = (IF n <= Len(own) THEN n ELSE Len(own)) /\ k \notin 1 .. l
    BY <1>17, <1>18, <1>20, <2>1
  <2>3. k \in Nat /\ k >= 1 /\ k <= Len(own) /\ Len(own) \in Nat
    BY <1>4, <1>7, <1>10
  <2>4. l = n
    BY <2>2, <2>3
  <2> QED BY <1>20, <2>1, <2>4
<1> QED BY <1>19, <1>20

(* The CPU table and the list of active processes agree as far as both go. *)
THEOREM TablesCorrect == Spec => []TablesAgree
<1>1. IInv => TablesAgree
  <2> SUFFICES ASSUME IInv, Made, NEW i \in DOMAIN report.top
               PROVE  LET kernel == isKernelThread(report.top[i])
                          table == IF kernel THEN report.usage.kernel ELSE report.usage.pods
                          k == Quantify(1 .. i, LAMBDA j : isKernelThread(report.top[j]) = kernel)
                      IN IF k \in DOMAIN table THEN EventsOf(table[k]) = EventsOf(report.top[i])
                         ELSE Len(table) = IF kernel THEN KernelRows ELSE PodRows
    BY DEF TablesAgree
  <2> DEFINE counts == ProcessActivity(events)
             P == {p \in DOMAIN counts : ~isKernelThread(p)}
             Q == {p \in DOMAIN counts : isKernelThread(p)}
  <2>1. Current /\ events \in Seq(Inputs)
    BY MadeCurrent
  <2>2. report.usage \in Usages(counts) /\ report.top \in Tops(counts)
    BY <2>1, ReportIs DEF Current
  <2>3. PICK podProcesses, kernelProcesses :
          /\ podProcesses \in Rankings(Restrict(counts, P))
          /\ kernelProcesses \in Rankings(Restrict(counts, Q))
          /\ report.usage = generateCPUUsageReport(counts, podProcesses, kernelProcesses)
    BY <2>2 DEF Usages, RestrictDomain
  <2>4. /\ report.usage.pods = Rows(podProcesses, PodRows)
        /\ report.usage.kernel = Rows(kernelProcesses, KernelRows)
    BY <2>3 DEF generateCPUUsageReport
  <2>5. PICK keys \in Rankings(counts) : report.top = Rows(keys, TopRows)
    BY <2>2 DEF Tops
  <2>6. TopRows \in Nat /\ PodRows \in Nat /\ KernelRows \in Nat
    BY StatisticsAssumption
  <2>7. IsFiniteSet(DOMAIN counts) /\ \A p \in DOMAIN counts : counts[p] \in Nat
    BY <2>1, ActivityIs
  <2>8. \A p \in DOMAIN counts : EventsOf(p) = counts[p]
    BY <2>1, ActivityIs DEF EventsOf, Quantify, Collected
  <2>9. PICK T, own, n : IF isKernelThread(report.top[i])
                           THEN T = Q /\ own = kernelProcesses /\ n = KernelRows
                           ELSE T = P /\ own = podProcesses /\ n = PodRows
    BY Zenon
  <2>10. /\ T \in SUBSET DOMAIN counts /\ own \in Rankings(Restrict(counts, T)) /\ n \in Nat
         /\ \A p \in DOMAIN counts : p \in T <=> isKernelThread(p) = isKernelThread(report.top[i])
    BY <2>3, <2>6, <2>9 DEF isKernelThread
  <2> HIDE DEF counts, P, Q
  <2>11. keys \in Seq(DOMAIN counts)
    BY <2>5, <2>7, RankingIs
  <2>12. /\ Len(report.top) <= Len(keys) /\ Len(report.top) \in Nat
         /\ DOMAIN report.top = 1 .. Len(report.top)
         /\ \A j \in DOMAIN report.top : report.top[j] = keys[j]
    <3>1. /\ report.top \in Seq(DOMAIN counts)
          /\ Len(report.top) = IF TopRows <= Len(keys) THEN TopRows ELSE Len(keys)
          /\ \A j \in 1 .. Len(report.top) : report.top[j] = keys[j]
      BY <2>5, <2>6, <2>11, RowsAre
    <3> QED BY <2>6, <2>11, <3>1
  <2>13. /\ i \in DOMAIN keys /\ i \in DOMAIN report.top /\ i \in Nat
         /\ \A j \in 1 .. i : j \in DOMAIN report.top /\ keys[j] \in DOMAIN counts
    BY <2>11, <2>12
  <2>14. keys[i] \in T /\ report.top[i] = keys[i]
    BY <2>10, <2>11, <2>12, <2>13
  <2>15. PICK k : k = Cardinality({j \in 1 .. i : keys[j] \in T})
    OBVIOUS
  <2>16. IF k \in DOMAIN Rows(own, n) THEN counts[Rows(own, n)[k]] = counts[keys[i]]
         ELSE Len(Rows(own, n)) = n
    BY <2>5, <2>7, <2>10, <2>13, <2>14, <2>15, KthOfKind
  <2>17. Rows(own, n) = (IF isKernelThread(report.top[i]) THEN report.usage.kernel ELSE report.usage.pods)
         /\ n = (IF isKernelThread(report.top[i]) THEN KernelRows ELSE PodRows)
    BY <2>4, <2>9
  <2>18. {j \in 1 .. i : keys[j] \in T}
           = {j \in 1 .. i : isKernelThread(report.top[j]) = isKernelThread(report.top[i])}
    BY <2>10, <2>12, <2>13
  <2>19. k = Quantify(1 .. i, LAMBDA j : isKernelThread(report.top[j]) = isKernelThread(report.top[i]))
    BY <2>15, <2>18 DEF Quantify
  <2>20. \A j \in DOMAIN Rows(own, n) : Rows(own, n)[j] \in DOMAIN counts
    <3>1. IsFiniteSet(T) /\ IsFiniteSet(DOMAIN Restrict(counts, T))
      BY <2>7, <2>10, FS_Subset DEF Restrict
    <3>2. own \in Seq(DOMAIN Restrict(counts, T))
      BY <2>10, <3>1, RankingIs
    <3>3. own \in Seq(T)
      BY <3>2 DEF Restrict
    <3>4. Rows(own, n) \in Seq(T)
      BY <2>10, <3>3, RowsAre
    <3> QED BY <2>10, <3>4
  <2>21. IF k \in DOMAIN Rows(own, n) THEN EventsOf(Rows(own, n)[k]) = EventsOf(report.top[i])
         ELSE Len(Rows(own, n)) = n
    <3>1. report.top[i] \in DOMAIN counts /\ keys[i] = report.top[i]
      BY <2>10, <2>14
    <3>2. CASE k \in DOMAIN Rows(own, n)
      BY <2>8, <2>16, <2>20, <3>1, <3>2
    <3>3. CASE k \notin DOMAIN Rows(own, n)
      BY <2>16, <3>3
    <3> QED BY <3>2, <3>3
  <2> QED BY <2>17, <2>19, <2>21
<1> QED BY <1>1, Invariant, PTL

-----------------------------------------------------------------------------
(* Events with latencies, at least one: what the statistics of a section need. *)
Timed(evs) ==
  /\ IsFiniteSet(DOMAIN evs) /\ DOMAIN evs # {}
  /\ \A i \in DOMAIN evs : evs[i].latency \in Nat

AtMost(evs, v) == {i \in DOMAIN evs : evs[i].latency <= v}
Below(evs, v) == {i \in DOMAIN evs : evs[i].latency < v}

(* The counts and the latencies of such events. *)
LEMMA TimedCounts ==
  ASSUME NEW evs, Timed(evs)
  PROVE  /\ Number(evs) \in Nat \ {0}
         /\ \A v : Cardinality(AtMost(evs, v)) \in Nat /\ Cardinality(Below(evs, v)) \in Nat
         /\ Latencies(evs) \subseteq Nat /\ Latencies(evs) # {} /\ IsFiniteSet(Latencies(evs))
<1> DEFINE D == DOMAIN evs
           f == [i \in D |-> evs[i].latency]
<1>1. IsFiniteSet(D) /\ D # {}
  BY DEF Timed
<1>2. \A v : AtMost(evs, v) \in SUBSET D /\ Below(evs, v) \in SUBSET D
  BY DEF AtMost, Below
<1>3. IsFiniteSet({f[i] : i \in D})
  <2> HIDE DEF D, f
  <2> QED BY <1>1, ImageFinite
<1>4. {f[i] : i \in D} = Latencies(evs)
  BY DEF Latencies
<1>5. Latencies(evs) \subseteq Nat /\ Latencies(evs) # {}
  BY DEF Latencies, Timed
<1>6. Cardinality(D) \in Nat \ {0}
  BY <1>1, FS_CardinalityType, FS_EmptySet
<1> HIDE DEF D, f
<1>7. \A v : Cardinality(AtMost(evs, v)) \in Nat /\ Cardinality(Below(evs, v)) \in Nat
  BY <1>1, <1>2, FS_Subset, FS_CardinalityType
<1>8. IsFiniteSet(Latencies(evs))
  BY <1>3, <1>4
<1> QED BY <1>5, <1>6, <1>7, <1>8 DEF Number, D

(* The k-th of the sorted latencies: k events do not exceed it, fewer are below. *)
LEMMA SortedIs ==
  ASSUME NEW evs, Timed(evs), NEW k \in 1 .. Number(evs)
  PROVE  /\ Sorted(evs)[k] \in Latencies(evs)
         /\ Cardinality(AtMost(evs, Sorted(evs)[k])) >= k
         /\ Cardinality(Below(evs, Sorted(evs)[k])) < k
<1> DEFINE L == Latencies(evs)
<1>1. PICK W : W = {v \in L : Cardinality(AtMost(evs, v)) >= k}
  OBVIOUS
<1>0. W \in SUBSET L
  BY <1>1
<1>2. Sorted(evs)[k] = Min(W)
  <2>1. \A v : {i \in DOMAIN evs : evs[i].latency <= v} = AtMost(evs, v)
    BY DEF AtMost
  <2>2. Sorted(evs)[k] = Min({v \in L : Cardinality({i \in DOMAIN evs : evs[i].latency <= v}) >= k})
    BY DEF Sorted, Count, Quantify
  <2>3. {v \in L : Cardinality({i \in DOMAIN evs : evs[i].latency <= v}) >= k} = W
    BY <1>1, <2>1
  <2> QED BY <2>2, <2>3
<1>3. /\ Number(evs) \in Nat \ {0} /\ L \subseteq Nat /\ L # {} /\ IsFiniteSet(L)
      /\ \A v : Cardinality(AtMost(evs, v)) \in Nat /\ Cardinality(Below(evs, v)) \in Nat
  BY TimedCounts
<1>4. \A i \in DOMAIN evs : evs[i].latency \in L
  BY DEF Latencies
<1> HIDE DEF L
<1>12. L \subseteq Int /\ W \subseteq Int /\ IsFiniteSet(W)
  <2>1. L \subseteq Nat /\ IsFiniteSet(L)
    BY <1>3
  <2>2. \A x \in L : x \in Int
    BY <2>1
  <2>3. IsFiniteSet(W)
    BY <1>0, <2>1, FS_Subset
  <2> QED BY <1>0, <2>2, <2>3
<1>5. PICK m \in L : \A x \in L : m >= x
  BY <1>3, <1>12, MaxExists
<1>6. AtMost(evs, m) = DOMAIN evs
  BY <1>4, <1>5 DEF AtMost
<1>7. m \in W
  BY <1>1, <1>3, <1>6 DEF Number
<1>8. PICK w \in W : \A x \in W : w <= x
  <2> QED BY <1>7, <1>12, MinExists
<1>9. Min(W) = w
  <2>1. \A x \in W : (\A y \in W : x <= y) => x = w
    BY <1>8, <1>12
  <2> QED BY <1>8, <2>1 DEF Min
<1>10. w \in L /\ Cardinality(AtMost(evs, w)) >= k
  BY <1>1
<1>11. Cardinality(Below(evs, w)) < k
  <2>1. CASE \A x \in L : x >= w
    <3>1. \A i \in DOMAIN evs : ~(evs[i].latency < w)
      <4>1. \A x \in L : x \in Int
        BY <1>12
      <4>2. w \in L
        BY <1>10
      <4>3. \A x \in L : ~(x < w)
        BY <2>1, <4>1, <4>2
      <4> QED BY <1>4, <4>3
    <3>2. Below(evs, w) = {}
      BY <3>1 DEF Below
    <3> QED BY <3>2, FS_EmptySet
  <2>2. CASE \E x \in L : ~(x >= w)
    <3>1. PICK U : U = {x \in L : x < w}
      OBVIOUS
    <3>7. U \in SUBSET L /\ IsFiniteSet(L)
      BY <1>3, <3>1
    <3>8. IsFiniteSet(U)
      BY <3>7, FS_Subset
    <3>9. U # {}
      BY <1>10, <1>12, <2>2, <3>1
    <3>2. U # {} /\ U \subseteq Int /\ IsFiniteSet(U)
      BY <1>12, <3>7, <3>8, <3>9
    <3>3. PICK u \in U : \A x \in U : u >= x
      BY <3>2, MaxExists
    <3>4. u \in L /\ u < w /\ \A x \in L : x < w <=> x <= u
      BY <1>3, <1>10, <3>1, <3>3
    <3>5. Below(evs, w) = AtMost(evs, u)
      BY <1>4, <3>4 DEF Below, AtMost
    <3>6. u \notin W
      BY <1>3, <1>8, <1>10, <3>4
    <3> QED BY <1>1, <1>3, <3>4, <3>5, <3>6
  <2> QED BY <2>1, <2>2
<1> QED BY <1>2, <1>9, <1>10, <1>11 DEF L

(* A percentile of the latencies is one of them, and has its rank. *)
LEMMA PercentileIs ==
  ASSUME NEW evs, Timed(evs), NEW p \in 0 .. 99
  PROVE  /\ percentile(Sorted(evs), p) \in Latencies(evs)
         /\ PercentileRight(evs, percentile(Sorted(evs), p), p)
<1> DEFINE n == Number(evs)
           m == n - 1
           d == (m * p) \div 100
           v == percentile(Sorted(evs), p)
<1>1. n \in Nat \ {0} /\ \A x : Cardinality(AtMost(evs, x)) \in Nat /\ Cardinality(Below(evs, x)) \in Nat
  BY TimedCounts
<1>2. Len(Sorted(evs)) = n
  <2> HIDE DEF n
  <2>1. DOMAIN Sorted(evs) = 1 .. n
    BY DEF Sorted, n
  <2>2. \A k \in 1 .. n : Sorted(evs)[k] \in Nat
    BY SortedIs, TimedCounts DEF n
  <2>3. Sorted(evs) \in [1 .. n -> Nat]
    <3>1. Sorted(evs) = [k \in 1 .. n |-> Sorted(evs)[k]]
      BY DEF Sorted, n
    <3> QED BY <2>2, <3>1
  <2> QED BY <1>1, <2>1, <2>3
<1>3. d + 1 \in 1 .. n
  BY <1>1, PercentilePosition
<1>4. v = Sorted(evs)[d + 1]
  BY <1>2 DEF percentile
<1>5. m \in Nat /\ m * p \in Nat
  BY <1>1
<1>6. d \in Nat /\ 100 * d <= m * p /\ m * p < 100 * d + 100
  BY <1>5
<1>7. /\ v \in Latencies(evs)
      /\ Cardinality(AtMost(evs, v)) >= d + 1
      /\ Cardinality(Below(evs, v)) < d + 1
  <2> HIDE DEF n, d, v
  <2> QED BY <1>3, <1>4, SortedIs DEF n
<1> HIDE DEF d, v
<1>8. Cardinality(AtMost(evs, v)) * 100 > m * p /\ Cardinality(Below(evs, v)) * 100 <= m * p
  BY <1>1, <1>5, <1>6, <1>7
<1>9. m * p = p * (Cardinality(DOMAIN evs) - 1)
  BY <1>1 DEF Number
<1>10. PercentileRight(evs, v, p)
  BY <1>8, <1>9 DEF PercentileRight, Quantify, AtMost, Below
<1> QED BY <1>7, <1>10 DEF v

(* The latencies of a section. *)
LEMMA LatencyIs ==
  ASSUME NEW evs, Timed(evs)
  PROVE  /\ PercentileRight(evs, Latency(evs).p50, 50)
         /\ PercentileRight(evs, Latency(evs).p95, 95)
         /\ PercentileRight(evs, Latency(evs).p99, 99)
         /\ Latency(evs).p99 <= Latency(evs).max
         /\ Latency(evs).total <= Latency(evs).max * Number(evs)
         /\ Latency(evs).max \in Nat
         /\ \A i \in DOMAIN evs : evs[i].latency <= Latency(evs).max
<1>1. /\ Latency(evs).p50 = percentile(Sorted(evs), 50)
      /\ Latency(evs).p95 = percentile(Sorted(evs), 95)
      /\ Latency(evs).p99 = percentile(Sorted(evs), 99)
      /\ Latency(evs).max = Max(Latencies(evs) \cup {0})
      /\ Latency(evs).total = SumFunction([i \in DOMAIN evs |-> evs[i].latency])
  BY DEF Latency
<1>2. 50 \in 0 .. 99 /\ 95 \in 0 .. 99 /\ 99 \in 0 .. 99
  OBVIOUS
<1>3. PICK M : M = Latencies(evs) \cup {0}
  OBVIOUS
<1>4. Latencies(evs) \subseteq Nat /\ IsFiniteSet(Latencies(evs))
  BY TimedCounts
<1>5. M \subseteq Int /\ IsFiniteSet(M) /\ M # {}
  BY <1>3, <1>4, FS_AddElement
<1>6. PICK m \in M : \A x \in M : m >= x
  BY <1>5, MaxExists
<1>7. Max(M) = m
  <2>1. \A x \in M : (\A y \in M : x >= y) => x = m
    BY <1>5, <1>6
  <2> QED BY <1>6, <2>1 DEF Max
<1>10. \A i \in DOMAIN evs : evs[i].latency <= Latency(evs).max
  <2>1. \A i \in DOMAIN evs : evs[i].latency \in M
    BY <1>3 DEF Latencies
  <2> QED BY <1>1, <1>3, <1>6, <1>7, <2>1
<1>11. Latency(evs).max \in Nat
  BY <1>1, <1>3, <1>4, <1>6, <1>7
<1>8. Latency(evs).p99 <= Latency(evs).max
  BY <1>1, <1>2, <1>3, <1>6, <1>7, PercentileIs
<1>9. Latency(evs).total <= Latency(evs).max * Number(evs)
  <2> DEFINE f == [i \in DOMAIN evs |-> evs[i].latency]
  <2>1. PICK D : D = DOMAIN evs
    OBVIOUS
  <2>2. \A i \in D : f[i] \in Int /\ f[i] <= m
    BY <1>3, <1>4, <1>6, <2>1 DEF Latencies
  <2>3. IsFiniteSet(D) /\ m \in Int
    BY <1>5, <2>1 DEF Timed
  <2>4. DOMAIN f = D
    BY <2>1
  <2> HIDE DEF f
  <2>5. SumFunctionOnSet(f, D) <= m * Cardinality(D)
    BY <2>2, <2>3, SumAtMost
  <2>6. Latency(evs).total = SumFunctionOnSet(f, D)
    BY <1>1, <2>4 DEF SumFunction, f
  <2> QED BY <1>1, <1>3, <1>7, <2>1, <2>5, <2>6 DEF Number
<1>12. /\ PercentileRight(evs, Latency(evs).p50, 50)
       /\ PercentileRight(evs, Latency(evs).p95, 95)
       /\ PercentileRight(evs, Latency(evs).p99, 99)
  BY <1>1, <1>2, PercentileIs
<1> QED BY <1>8, <1>9, <1>10, <1>11, <1>12

(* The percentiles of every section have their rank among its events. *)
THEOREM PercentilesCorrect == Spec => []PercentilesRanked
<1>1. IInv => PercentilesRanked
  <2> SUFFICES ASSUME IInv, Made, NEW s \in DOMAIN SectionTypes, report[s].count > 0
               PROVE  LET evs == Typed(events, SectionTypes[s])
                          latency == report[s].latency
                      IN /\ PercentileRight(evs, latency.p50, 50)
                         /\ PercentileRight(evs, latency.p95, 95)
                         /\ PercentileRight(evs, latency.p99, 99)
                         /\ latency.p99 <= latency.max
                         /\ latency.total <= latency.max * report[s].count
    BY DEF PercentilesRanked, Typed
  <2>1. Current /\ events \in Seq(Inputs)
    BY MadeCurrent
  <2>2. PICK evs : evs = Typed(events, SectionTypes[s])
    OBVIOUS
  <2>3. IsFiniteSet(DOMAIN events)
    BY <2>1, EventsAre
  <2>4. /\ report[s].count = Cardinality(DOMAIN evs) /\ IsFiniteSet(DOMAIN evs)
        /\ DOMAIN evs # {} /\ report[s].latency = Latency(evs)
    BY <2>1, <2>2, <2>3, SectionIs DEF Current
  <2>5. \A i \in DOMAIN evs : i \in DOMAIN events /\ evs[i] = events[i]
    <3>1. PICK types : types = SectionTypes[s]
      OBVIOUS
    <3>2. evs = Typed(events, types)
      BY <2>2, <3>1
    <3> QED BY <3>2 DEF Typed, RestrictValues, Restrict
  <2>6. Timed(evs)
    BY <2>1, <2>4, <2>5, EventsAre DEF Timed
  <2> QED BY <2>2, <2>4, <2>6, LatencyIs DEF Number
<1> QED BY <1>1, Invariant, PTL

-----------------------------------------------------------------------------
Stamped(evs) == IsFiniteSet(DOMAIN evs) /\ \A i \in DOMAIN evs : evs[i].timestamp \in Nat

(* Collected events have timestamps, and so have those of some types. *)
LEMMA EventsStamped ==
  ASSUME NEW evs \in Seq(Inputs)
  PROVE  Stamped(evs) /\ \A types : Stamped(Typed(evs, types))
<1>1. Stamped(evs)
  BY EventsAre DEF Stamped
<1>2. \A types : Stamped(Typed(evs, types))
  <2> TAKE types
  <2>1. PICK own : own = Typed(evs, types)
    OBVIOUS
  <2>2. DOMAIN own \in SUBSET DOMAIN evs /\ \A i \in DOMAIN own : own[i] = evs[i]
    BY <2>1 DEF Typed, RestrictValues, Restrict
  <2>3. IsFiniteSet(DOMAIN own)
    BY <1>1, <2>2, FS_Subset DEF Stamped
  <2> QED BY <1>1, <2>1, <2>2, <2>3 DEF Stamped
<1> QED BY <1>1, <1>2

Over(evs, limit) == {i \in DOMAIN evs : evs[i].latency > limit}

(* A percentile and the number of latencies over a limit.  If it is not over the   *)
(* limit, no more are than those above its rank; if it is, then all from its rank. *)
LEMMA PercentileOver ==
  ASSUME NEW evs, Timed(evs), NEW p \in 1 .. 99, NEW limit \in Nat, NEW pct \in Nat,
         NEW n, n = Cardinality(DOMAIN evs),
         NEW v, v = percentile(Sorted(evs), p)
  PROVE  /\ p * (n - 1) >= (100 - pct) * n /\ Cardinality(Over(evs, limit)) * 100 > pct * n
              => v > limit
         /\ p + pct <= 100 /\ v > limit => Cardinality(Over(evs, limit)) * 100 > pct * n
<1>1. p \in 0 .. 99
  OBVIOUS
<1>2. v \in Latencies(evs) /\ PercentileRight(evs, v, p)
  BY <1>1, PercentileIs
<1>3. v \in Nat /\ n \in Nat \ {0}
  BY <1>2, TimedCounts DEF Number
<1>4. PICK A, B, S : A = AtMost(evs, v) /\ B = Below(evs, v) /\ S = Over(evs, limit)
  OBVIOUS
<1>5. PICK D : D = DOMAIN evs
  OBVIOUS
<1>6. /\ IsFiniteSet(D) /\ Cardinality(D) = n
      /\ A \in SUBSET D /\ B \in SUBSET D /\ S \in SUBSET D
  BY <1>4, <1>5 DEF Timed, AtMost, Below, Over
<1>7. /\ IsFiniteSet(A) /\ Cardinality(A) \in Nat
      /\ IsFiniteSet(B) /\ Cardinality(B) \in Nat
      /\ IsFiniteSet(S) /\ Cardinality(S) \in Nat
  BY <1>6, FS_Subset, FS_CardinalityType
<1>8. Cardinality(A) * 100 > p * (n - 1) /\ Cardinality(B) * 100 <= p * (n - 1)
  BY <1>2, <1>4, <1>6, <1>5 DEF PercentileRight, Quantify, AtMost, Below
<1>9. pct * n \in Nat /\ p * n \in Nat
  BY <1>3
<1>10. p * (n - 1) = p * n - p /\ (100 - pct) * n = 100 * n - pct * n
  BY <1>3
<1>11. ASSUME p * (n - 1) >= (100 - pct) * n, Cardinality(S) * 100 > pct * n, ~(v > limit)
       PROVE  FALSE
  <2>1. A \cap S = {}
    <3>1. \A i \in D : evs[i].latency \in Nat
      BY <1>5 DEF Timed
    <3>2. \A i \in D : ~(evs[i].latency <= v /\ evs[i].latency > limit)
      BY <1>3, <1>11, <3>1
    <3> QED BY <1>4, <1>5, <3>2 DEF AtMost, Over
  <2>2. Cardinality(A \cup S) = Cardinality(A) + Cardinality(S)
    BY <1>7, <2>1, DisjointCount
  <2>3. A \cup S \in SUBSET D
    BY <1>6
  <2>4. Cardinality(A \cup S) <= n
    BY <1>6, <2>3, FS_Subset
  <2>5. PICK a, b, x, y : /\ a = Cardinality(A) /\ b = Cardinality(S)
                          /\ x = p * (n - 1) /\ y = pct * n
    OBVIOUS
  <2>6. /\ a \in Nat /\ b \in Nat /\ x \in Int /\ y \in Int /\ n \in Nat
        /\ a + b <= n /\ a * 100 > x /\ x >= 100 * n - y /\ b * 100 > y
    BY <1>3, <1>7, <1>8, <1>9, <1>10, <1>11, <2>2, <2>4, <2>5
  <2> QED BY <2>6
<1>12. ASSUME p + pct <= 100, v > limit
       PROVE  Cardinality(S) * 100 > pct * n
  <2>1. B \cup S = D
    <3>1. \A i \in D : evs[i].latency \in Nat
      BY <1>5 DEF Timed
    <3>2. \A i \in D : evs[i].latency < v \/ evs[i].latency > limit
      BY <1>3, <1>12, <3>1
    <3> QED BY <1>4, <1>5, <3>2 DEF Below, Over
  <2>2. n <= Cardinality(B) + Cardinality(S)
    <3>1. PICK T : T = S \ B
      OBVIOUS
    <3>2. T \in SUBSET S /\ B \cap T = {} /\ B \cup T = D
      BY <2>1, <3>1
    <3>3. IsFiniteSet(T) /\ Cardinality(T) <= Cardinality(S) /\ Cardinality(T) \in Nat
      BY <1>7, <3>2, FS_Subset, FS_CardinalityType
    <3>4. Cardinality(B \cup T) = Cardinality(B) + Cardinality(T)
      BY <1>7, <3>2, <3>3, DisjointCount
    <3>5. n = Cardinality(B) + Cardinality(T)
      BY <1>6, <3>2, <3>4
    <3> QED BY <1>7, <3>3, <3>5
  <2>3. (p + pct) * n <= 100 * n
    <3>1. p + pct \in Nat /\ (100 - (p + pct)) * n \in Nat
      BY <1>3, <1>12
    <3>2. (100 - (p + pct)) * n = 100 * n - (p + pct) * n
      BY <1>3
    <3> QED BY <1>3, <3>1, <3>2
  <2>4. (p + pct) * n = p * n + pct * n
    BY <1>3
  <2>5. PICK b, c, x, y : /\ b = Cardinality(B) /\ c = Cardinality(S)
                          /\ x = p * n /\ y = pct * n
    OBVIOUS
  <2>6. /\ b \in Nat /\ c \in Nat /\ x \in Int /\ y \in Int /\ n \in Nat
        /\ n <= b + c /\ b * 100 <= x - p /\ x + y <= 100 * n
    BY <1>3, <1>7, <1>8, <1>9, <1>10, <2>2, <2>3, <2>4, <2>5
  <2>7. c * 100 > y
    BY <2>6
  <2> QED BY <2>5, <2>7
<1> QED BY <1>4, <1>11, <1>12

TcpIs(r, own) ==
  /\ IsFiniteSet(DOMAIN own)
  /\ r.tcp.count = Cardinality(DOMAIN own)
  /\ r.tcp.count > 0 => Timed(own) /\ r.tcp.latency = Latency(own)
  /\ "RTT spikes" \in r.issues
       <=> Cardinality(Over(own, SpikeMs)) * 100 > SpikePct * Cardinality(DOMAIN own)

(* The TCP section of a report, with the limit of the issue. *)
LEMMA SpikesAre ==
  ASSUME NEW evs \in Seq(Inputs), NEW start, NEW duration, NEW r \in Reports(evs, start, duration),
         NEW own, own = TcpEvents(evs)
  PROVE  TcpIs(r, own)
<1>1. PICK s \in DOMAIN SectionTypes : s = "tcp"
  BY DEF SectionTypes
<1>2. own = Typed(evs, SectionTypes[s]) /\ IsFiniteSet(DOMAIN evs)
  BY <1>1, SectionsAre, EventsAre DEF SectionTypes
<1>3. /\ IsFiniteSet(DOMAIN own) /\ r.tcp.count = Cardinality(DOMAIN own)
      /\ r.tcp.count > 0 <=> DOMAIN own # {}
      /\ DOMAIN own # {} => r.tcp.latency = Latency(own)
  <2>1. /\ IsFiniteSet(DOMAIN own) /\ r[s].count = Cardinality(DOMAIN own)
        /\ r[s].count > 0 <=> DOMAIN own # {}
        /\ DOMAIN own # {} => r[s].latency = Latency(own)
    BY <1>2, SectionIs
  <2> QED BY <1>1, <2>1
<1>4. \A i \in DOMAIN own : own[i].latency \in Nat
  <2>1. PICK types : types = SectionTypes[s]
    OBVIOUS
  <2>2. \A i \in DOMAIN own : i \in DOMAIN evs /\ own[i] = evs[i]
    BY <1>2, <2>1 DEF Typed, RestrictValues, Restrict
  <2> QED BY <2>2, EventsAre
<1>5. DOMAIN own # {} => Timed(own)
  BY <1>3, <1>4 DEF Timed
<1>6. r.issues = detectIssues(evs)
  BY ReportIs
<1>7. "RTT spikes" \in r.issues <=> SpikeRateHigh(evs)
  BY <1>6 DEF detectIssues
<1>8. SpikeRateHigh(evs)
        <=> Cardinality(Over(own, SpikeMs)) * 100 > SpikePct * Cardinality(DOMAIN own)
  BY DEF SpikeRateHigh, Count, Quantify, Number, Over, TcpEvents
<1> QED BY <1>3, <1>5, <1>7, <1>8 DEF TcpIs

(* The issues of a report agree with its sections. *)
LEMMA IssuesAre ==
  ASSUME NEW evs \in Seq(Inputs), NEW start, NEW duration, NEW r \in Reports(evs, start, duration)
  PROVE  /\ "connection failures" \in r.issues
              <=> /\ r.connect.count > 0
                  /\ SumFunction(r.connect.breakdown) * 100 > FailurePct * r.connect.count
         /\ "RTT spikes" \in r.issues =>
              /\ r.tcp.count > 0
              /\ r.tcp.latency.max > SpikeMs
              /\ \A p \in DOMAIN Percentiles :
                   Percentiles[p] * (r.tcp.count - 1) >= (100 - SpikePct) * r.tcp.count
                     => r.tcp.latency[p] > SpikeMs
         /\ r.tcp.count > 0 =>
              \A p \in DOMAIN Percentiles :
                Percentiles[p] + SpikePct <= 100 /\ r.tcp.latency[p] > SpikeMs
                  => "RTT spikes" \in r.issues
<1>1. FailurePct \in Nat /\ SpikePct \in Nat /\ SpikeMs \in Nat
  BY StatisticsAssumption
<1>2. "connection failures" \in r.issues
        <=> /\ r.connect.count > 0
            /\ SumFunction(r.connect.breakdown) * 100 > FailurePct * r.connect.count
  <2>1. PICK own : own = filterEvents(evs, "CONNECT")
    OBVIOUS
  <2>2. PICK F, n : F = {i \in DOMAIN own : own[i].error # 0} /\ n = Cardinality(DOMAIN own)
    OBVIOUS
  <2>3. /\ IsFiniteSet(DOMAIN own) /\ r.connect.count = n
        /\ r.connect.count > 0 => SumFunction(r.connect.breakdown) = Cardinality(F)
    <3>1. ConnectionsOf(r, own)
      BY <2>1, ConnectIs
    <3> QED BY <2>2, <3>1 DEF ConnectionsOf
  <2>4. r.issues = detectIssues(evs)
    BY ReportIs
  <2>5. "connection failures" \in r.issues <=> FailureRateHigh(evs)
    BY <2>4 DEF detectIssues
  <2>6. FailureRateHigh(evs) <=> Cardinality(F) * 100 > FailurePct * n
    BY <2>1, <2>2 DEF FailureRateHigh, Count, Quantify, Number
  <2>7. n \in Nat /\ F \in SUBSET DOMAIN own /\ Cardinality(F) <= n /\ Cardinality(F) \in Nat
    BY <2>2, <2>3, FS_Subset, FS_CardinalityType
  <2>8. CASE n = 0
    <3>1. Cardinality(F) = 0 /\ FailurePct * 0 = 0
      BY <1>1, <2>7, <2>8
    <3>2. ~(Cardinality(F) * 100 > FailurePct * n) /\ ~(r.connect.count > 0)
      BY <2>3, <2>8, <3>1
    <3> QED BY <2>5, <2>6, <3>2
  <2>9. CASE n # 0
    <3>1. r.connect.count > 0
      BY <2>3, <2>7, <2>9
    <3>2. SumFunction(r.connect.breakdown) = Cardinality(F)
      BY <2>3, <3>1
    <3> QED BY <2>3, <2>5, <2>6, <3>1, <3>2
  <2> QED BY <2>8, <2>9
<1>3. PICK own : own = TcpEvents(evs)
  OBVIOUS
<1>4. PICK n, S : n = Cardinality(DOMAIN own) /\ S = Over(own, SpikeMs)
  OBVIOUS
<1>5. /\ IsFiniteSet(DOMAIN own) /\ r.tcp.count = n
      /\ r.tcp.count > 0 => Timed(own) /\ r.tcp.latency = Latency(own)
      /\ "RTT spikes" \in r.issues <=> Cardinality(S) * 100 > SpikePct * n
  <2>1. TcpIs(r, own)
    BY <1>3, SpikesAre
  <2> QED BY <1>4, <2>1 DEF TcpIs
<1>6. /\ n \in Nat /\ Cardinality(S) \in Nat /\ Cardinality(S) <= n
      /\ Cardinality(S) = 0 <=> S = {}
  <2>1. S \in SUBSET DOMAIN own
    BY <1>4 DEF Over
  <2>4. IsFiniteSet(DOMAIN own)
    BY <1>5
  <2>2. IsFiniteSet(S) /\ Cardinality(S) <= n
    BY <1>4, <2>1, <2>4, FS_Subset
  <2>3. n \in Nat
    BY <1>4, <2>4, FS_CardinalityType
  <2> QED BY <2>2, <2>3, FS_CardinalityType, FS_EmptySet
<1>7. ASSUME r.tcp.count > 0, NEW p \in DOMAIN Percentiles
      PROVE  /\ Percentiles[p] \in 1 .. 99
             /\ r.tcp.latency[p] = percentile(Sorted(own), Percentiles[p])
  <2>1. r.tcp.latency = Latency(own)
    BY <1>5, <1>7
  <2>2. p = "p50" \/ p = "p95" \/ p = "p99"
    BY DEF Percentiles
  <2> QED BY <2>1, <2>2 DEF Percentiles, Latency
<1>8. ASSUME r.tcp.count > 0, NEW p \in DOMAIN Percentiles
      PROVE  /\ "RTT spikes" \in r.issues =>
                  (Percentiles[p] * (r.tcp.count - 1) >= (100 - SpikePct) * r.tcp.count
                     => r.tcp.latency[p] > SpikeMs)
             /\ Percentiles[p] + SpikePct <= 100 /\ r.tcp.latency[p] > SpikeMs
                  => "RTT spikes" \in r.issues
  <2>1. PICK k, v : k = Percentiles[p] /\ v = r.tcp.latency[p]
    OBVIOUS
  <2>2. k \in 1 .. 99 /\ v = percentile(Sorted(own), k) /\ Timed(own)
    BY <1>5, <1>7, <1>8, <2>1
  <2>3. /\ k * (n - 1) >= (100 - SpikePct) * n /\ Cardinality(S) * 100 > SpikePct * n
             => v > SpikeMs
        /\ k + SpikePct <= 100 /\ v > SpikeMs => Cardinality(S) * 100 > SpikePct * n
    BY <1>1, <1>4, <2>2, PercentileOver
  <2>4. "RTT spikes" \in r.issues <=> Cardinality(S) * 100 > SpikePct * n
    BY <1>5
  <2>5. r.tcp.count = n
    BY <1>5
  <2>6. ASSUME Percentiles[p] * (r.tcp.count - 1) >= (100 - SpikePct) * r.tcp.count,
               "RTT spikes" \in r.issues
        PROVE  r.tcp.latency[p] > SpikeMs
    <3>1. k * (n - 1) >= (100 - SpikePct) * n
      BY <2>1, <2>5, <2>6
    <3> QED BY <2>1, <2>3, <2>4, <2>6, <3>1
  <2>7. ASSUME Percentiles[p] + SpikePct <= 100, r.tcp.latency[p] > SpikeMs
        PROVE  "RTT spikes" \in r.issues
    <3>1. k + SpikePct <= 100 /\ v > SpikeMs
      BY <2>1, <2>7
    <3> QED BY <2>3, <2>4, <3>1
  <2> QED BY <2>6, <2>7
<1>9. ASSUME "RTT spikes" \in r.issues
      PROVE  r.tcp.count > 0 /\ r.tcp.latency.max > SpikeMs
  <2>0. Cardinality(S) * 100 > SpikePct * n
    BY <1>5, <1>9
  <2>1. Cardinality(S) * 100 > SpikePct * n /\ SpikePct * n \in Nat
    BY <1>1, <1>6, <2>0
  <2>2. Cardinality(S) > 0 /\ n > 0
    BY <1>6, <2>1
  <2>3. PICK i \in S : TRUE
    BY <1>6, <2>2
  <2>4. r.tcp.count > 0 /\ Timed(own) /\ r.tcp.latency = Latency(own)
    BY <1>5, <2>2
  <2>5. i \in DOMAIN own /\ own[i].latency > SpikeMs
    BY <1>4, <2>3 DEF Over
  <2>6. own[i].latency \in Nat /\ own[i].latency <= Latency(own).max /\ Latency(own).max \in Nat
    BY <2>4, <2>5, LatencyIs DEF Timed
  <2> QED BY <1>1, <2>4, <2>5, <2>6
<1> QED BY <1>2, <1>8, <1>9

(* The issues of the last lines agree with the breakdown, the maximum and the *)
(* percentiles of the sections above them.                                    *)
THEOREM IssuesCorrect == Spec => []IssuesAgree
<1>1. IInv => IssuesAgree
  <2> SUFFICES ASSUME IInv, Made PROVE IssuesAgree
    BY DEF IssuesAgree
  <2>1. Current /\ events \in Seq(Inputs)
    BY MadeCurrent
  <2> QED BY <2>1, IssuesAre DEF IssuesAgree, Current
<1> QED BY <1>1, Invariant, PTL

-----------------------------------------------------------------------------
Later(b) == b .. 4
BucketStart(b, start, duration) == start + b * (duration \div 5)
Since(evs, t) == {i \in DOMAIN evs : evs[i].timestamp >= t}

(* The timeline counts an event in the fifth of the period in which it happened. *)
LEMMA TimelineSuffix ==
  ASSUME NEW evs \in Seq(Inputs), NEW start, NEW duration, Span(start, duration), NEW b \in 1 .. 4
  PROVE  SumFunctionOnSet(analyzeTimeline(evs, start, duration), Later(b))
           = Cardinality(Since(evs, BucketStart(b, start, duration)))
<1> DEFINE f == analyzeTimeline(evs, start, duration)
           h == BucketOf(evs, start, duration)
<1>1. start \in Nat /\ duration \in Nat /\ duration >= 5
  BY DEF Span
<1>2. PICK D, K : D = DOMAIN evs /\ K = b .. 4
  OBVIOUS
<1>3. IsFiniteSet(D) /\ IsFiniteSet(K)
  <2>1. IsFiniteSet(D)
    BY <1>2, EventsAre
  <2>2. \A n \in Nat : IsFiniteSet(b .. n)
    BY FS_Interval
  <2> QED BY <1>2, <2>1, <2>2
<1>4. PICK width : width = duration \div 5
  OBVIOUS
<1>5. width \in Nat \ {0}
  BY <1>1, <1>4
<1>6. ASSUME NEW i \in D
      PROVE  h[i] \in K <=> evs[i].timestamp >= start + b * width
  <2>1. evs[i].timestamp \in Nat
    BY <1>2, EventsAre
  <2>2. PICK e : e = evs[i].timestamp - start
    OBVIOUS
  <2>3. e \in Int
    BY <1>1, <2>1, <2>2
  <2>4. h[i] = Bucket(e, width)
    BY <1>2, <1>4, <2>2 DEF BucketOf
  <2>5. Bucket(e, width) \in 0 .. 4 /\ (Bucket(e, width) >= b <=> e >= b * width)
    BY <1>5, <2>3, BucketInRange, BucketExact DEF Buckets
  <2>6. h[i] \in K <=> e >= b * width
    BY <1>2, <2>4, <2>5
  <2>7. b * width \in Int
    BY <1>5
  <2> QED BY <1>1, <2>1, <2>2, <2>6, <2>7
<1>7. \A c \in K : f[c] = Cardinality(At(D, h, c))
  <2>1. \A c \in K : c \in Buckets
    BY <1>2 DEF Buckets
  <2> QED BY <1>2, <2>1, TimelineIs
<1>9. Where(D, h, K) = Since(evs, start + b * width)
  BY <1>2, <1>6 DEF Where, Since
<1> HIDE DEF f, h
<1>8. SumFunctionOnSet(f, K) = Cardinality(Where(D, h, K))
  BY <1>3, <1>7, CountsAddUp
<1> QED BY <1>2, <1>4, <1>8, <1>9 DEF f, BucketStart, Later

(* Where the wall clock counts from the boot, the timeline is true. *)
THEOREM TimelineCorrect == Spec => []TimelineWithOneClock
<1>1. IInv => TimelineWithOneClock
  <2> SUFFICES ASSUME IInv, Made, boot = 0, NEW b \in 1 .. 4
               PROVE  SumFunctionOnSet(report.timeline, b .. 4)
                        = Cardinality({i \in Collected :
                            boot + events[i].timestamp >= startTime + b * (Period \div 5)})
    BY DEF TimelineWithOneClock, TimelineTrue, Quantify
  <2>1. Current /\ events \in Seq(Inputs)
    BY MadeCurrent
  <2>2. report.timeline = analyzeTimeline(events, startTime, Period)
    BY <2>1, ReportIs DEF Current
  <2>3. SumFunctionOnSet(report.timeline, b .. 4)
          = Cardinality(Since(events, BucketStart(b, startTime, Period)))
    <3>1. Span(startTime, Period)
      BY <2>1 DEF Current, Span
    <3>2. PICK start, duration : start = startTime /\ duration = Period
      OBVIOUS
    <3>3. Span(start, duration)
      BY <3>1, <3>2
    <3>4. SumFunctionOnSet(analyzeTimeline(events, start, duration), Later(b))
            = Cardinality(Since(events, BucketStart(b, start, duration)))
      BY <2>1, <3>3, TimelineSuffix
    <3> QED BY <2>2, <3>2, <3>4 DEF Later
  <2>4. \A i \in DOMAIN events : boot + events[i].timestamp = events[i].timestamp
    BY <2>1, EventsAre
  <2> QED BY <2>3, <2>4 DEF Collected, Since, BucketStart
<1> QED BY <1>1, Invariant, PTL

-----------------------------------------------------------------------------
(* Division with a remainder. *)
LEMMA DivMod ==
  ASSUME NEW a \in Int, NEW L \in Nat \ {0}
  PROVE  a = L * (a \div L) + (a % L)
OBVIOUS

(* Between two borders there is one window: that of the quotient. *)
LEMMA WindowExact ==
  ASSUME NEW a \in Int, NEW L \in Nat \ {0}, NEW i \in Int
  PROVE  i * L < a /\ a < i * L + L <=> a % L # 0 /\ a \div L = i
<1>1. PICK d, r : d = a \div L /\ r = a % L
  OBVIOUS
<1>2. d \in Int /\ r \in 0 .. L - 1 /\ a = d * L + r
  <2>1. a \div L \in Int /\ a % L \in 0 .. L - 1
    OBVIOUS
  <2>2. a = L * (a \div L) + (a % L)
    BY DivMod
  <2> QED BY <1>1, <2>1, <2>2
<1>3. CASE i = d
  BY <1>1, <1>2, <1>3
<1>4. CASE i < d
  <2>1. PICK k \in Nat : d = i + 1 + k
    <3>1. d - i - 1 \in Nat /\ d = i + 1 + (d - i - 1)
      BY <1>2, <1>4
    <3> QED BY <3>1
  <2>2. d * L = i * L + L + k * L /\ k * L \in Nat /\ i * L \in Int
    BY <2>1
  <2> QED BY <1>1, <1>2, <1>4, <2>2
<1>5. CASE i > d
  <2>1. PICK k \in Nat : i = d + 1 + k
    <3>1. i - d - 1 \in Nat /\ i = d + 1 + (i - d - 1)
      BY <1>2, <1>5
    <3> QED BY <3>1
  <2>2. i * L = d * L + L + k * L /\ k * L \in Nat /\ d * L \in Int
    BY <1>2, <2>1
  <2> QED BY <1>1, <1>2, <1>5, <2>2
<1> QED BY <1>2, <1>3, <1>4, <1>5

(* The windows of a length from a start, an event on a border being in none. *)
WindowOf(evs, start, L) ==
  [j \in DOMAIN evs |->
     IF (evs[j].timestamp - start) % L # 0 THEN (evs[j].timestamp - start) \div L ELSE -1]

(* What is counted in a window is its events, so none is counted in two. *)
LEMMA WithinIs ==
  ASSUME NEW evs, Stamped(evs), NEW start \in Nat, NEW L \in Nat \ {0}, NEW k \in Nat
  PROVE  /\ Within(evs, start + k * L, L) = Cardinality(At(DOMAIN evs, WindowOf(evs, start, L), k))
         /\ Within(evs, start + k * L, L) \in Nat
<1> DEFINE h == WindowOf(evs, start, L)
           D == DOMAIN evs
           from == start + k * L
<1>1. k * L \in Nat
  OBVIOUS
<1>2. ASSUME NEW j \in D
      PROVE  from < evs[j].timestamp /\ evs[j].timestamp < from + L <=> h[j] = k
  <2>1. evs[j].timestamp \in Nat
    BY DEF Stamped
  <2>2. PICK a : a = evs[j].timestamp - start
    OBVIOUS
  <2>3. a \in Int
    BY <2>1, <2>2
  <2>4. k * L < a /\ a < k * L + L <=> a % L # 0 /\ a \div L = k
    BY <2>3, WindowExact
  <2>5. h[j] = IF a % L # 0 THEN a \div L ELSE -1
    BY <2>2 DEF WindowOf
  <2>6. h[j] = k <=> a % L # 0 /\ a \div L = k
    BY <2>5
  <2>7. from < evs[j].timestamp /\ evs[j].timestamp < from + L <=> k * L < a /\ a < k * L + L
    BY <1>1, <2>1, <2>2
  <2> QED BY <2>4, <2>6, <2>7
<1> HIDE DEF h
<1>3. At(D, h, k) = {j \in D : from < evs[j].timestamp /\ evs[j].timestamp < from + L}
  BY <1>2 DEF At
<1>4. Within(evs, from, L) = Cardinality({j \in D : from < evs[j].timestamp /\ evs[j].timestamp < from + L})
  BY DEF Within, Count, Quantify
<1>5. Within(evs, from, L) = Cardinality(At(D, h, k))
  BY <1>3, <1>4
<1>6. At(D, h, k) \in SUBSET D /\ IsFiniteSet(D)
  BY DEF At, Stamped
<1>7. Cardinality(At(D, h, k)) \in Nat
  <2> HIDE DEF D
  <2> QED BY <1>6, FS_Subset, FS_CardinalityType
<1> QED BY <1>5, <1>7 DEF h

InWindows(evs, start, L, K) == Where(DOMAIN evs, WindowOf(evs, start, L), K)
Windowed(f, K, evs, start, L) ==
  /\ Stamped(evs) /\ start \in Nat /\ L \in Nat \ {0}
  /\ IsFiniteSet(K) /\ K \subseteq Nat
  /\ \A k \in K : f[k] = Within(evs, start + k * L, L)

(* The counts of the windows add up to the events in them. *)
LEMMA WindowsAddUp ==
  ASSUME NEW evs, NEW start, NEW L, NEW K, NEW f, Windowed(f, K, evs, start, L)
  PROVE  /\ \A k \in K : f[k] \in Nat
         /\ SumFunctionOnSet(f, K) = Cardinality(InWindows(evs, start, L, K))
<1>0. /\ Stamped(evs) /\ start \in Nat /\ L \in Nat \ {0} /\ IsFiniteSet(K)
      /\ \A k \in K : k \in Nat /\ f[k] = Within(evs, start + k * L, L)
  BY DEF Windowed
<1>1. PICK D, h : D = DOMAIN evs /\ h = WindowOf(evs, start, L)
  OBVIOUS
<1>2. IsFiniteSet(D)
  BY <1>0, <1>1 DEF Stamped
<1>3. ASSUME NEW k \in K PROVE f[k] = Cardinality(At(D, h, k)) /\ f[k] \in Nat
  <2>1. k \in Nat /\ f[k] = Within(evs, start + k * L, L)
    BY <1>0
  <2>2. /\ Within(evs, start + k * L, L) = Cardinality(At(DOMAIN evs, WindowOf(evs, start, L), k))
        /\ Within(evs, start + k * L, L) \in Nat
    BY <1>0, <2>1, WithinIs, Zenon
  <2> QED BY <1>1, <2>1, <2>2
<1>4. SumFunctionOnSet(f, K) = Cardinality(Where(D, h, K))
  BY <1>0, <1>2, <1>3, CountsAddUp
<1> QED BY <1>1, <1>3, <1>4 DEF InWindows

(* Fewer than half of the seconds are bursts. *)
LEMMA BurstsAre ==
  ASSUME NEW evs, Stamped(evs), DOMAIN evs # {}, NEW start \in Nat, NEW duration \in Nat
  PROVE  LET bursts == detectBursts(evs, start, duration)
         IN bursts = {} \/ 2 * Cardinality(bursts) * Second < duration
<1>1. PICK B : B = detectBursts(evs, start, duration)
  OBVIOUS
<1> SUFFICES ASSUME B # {} PROVE 2 * Cardinality(B) * Second < duration
  BY <1>1
<1>2. Second \in Nat \ {0}
  BY WindowsAssumption
<1>3. PICK n : n = Number(evs)
  OBVIOUS
<1>4. n \in Nat \ {0}
  BY <1>3, FS_CardinalityType, FS_EmptySet DEF Number, Stamped
<1>5. PICK W : W = 0 .. duration \div Second - 1
  OBVIOUS
<1>6. IsFiniteSet(W) /\ W \subseteq Nat
  <2>1. duration \div Second \in Nat
    BY <1>2
  <2>2. PICK z \in Int : z = duration \div Second - 1
    BY <2>1
  <2>3. IsFiniteSet(0 .. z)
    BY FS_Interval
  <2>4. W = 0 .. z
    BY <1>5, <2>2
  <2> QED BY <2>3, <2>4
<1>7. B = {i \in W : IsBurst(Within(evs, start + i * Second, Second), n, duration)}
  BY <1>1, <1>3, <1>5 DEF detectBursts
<1>8. B \in SUBSET W
  BY <1>7
<1>9. IsFiniteSet(B) /\ B \subseteq Nat
  BY <1>6, <1>8, FS_Subset
<1>10. PICK f : f = [i \in B |-> Within(evs, start + i * Second, Second)]
  OBVIOUS
<1>11. Windowed(f, B, evs, start, Second)
  BY <1>2, <1>9, <1>10 DEF Windowed
<1>12. PICK D, h : D = DOMAIN evs /\ h = WindowOf(evs, start, Second)
  OBVIOUS
<1>13. /\ \A i \in B : f[i] \in Nat
       /\ SumFunctionOnSet(f, B) = Cardinality(Where(D, h, B))
  BY <1>11, <1>12, WindowsAddUp DEF InWindows
<1>14. PICK m : m = 2 * n * Second + 1
  OBVIOUS
<1>15. m \in Nat /\ 2 * n * Second \in Nat
  BY <1>2, <1>4, <1>14
<1>16. ASSUME NEW i \in B PROVE f[i] \in Int /\ f[i] * duration >= m
  <2>1. f[i] * duration > 2 * n * Second
    BY <1>7, <1>11 DEF IsBurst, Windowed
  <2>2. f[i] \in Nat /\ f[i] * duration \in Nat
    BY <1>13
  <2> QED BY <1>14, <1>15, <2>1, <2>2
<1>17. SumFunctionOnSet(f, B) * duration >= Cardinality(B) * m
  <2>1. IsFiniteSet(B) /\ duration \in Int /\ m \in Int
    BY <1>9, <1>15
  <2> QED BY <1>16, <2>1, SumAtLeast, Zenon
<1>18. Where(D, h, B) \in SUBSET D /\ IsFiniteSet(D) /\ Cardinality(D) = n
  BY <1>3, <1>12 DEF Where, Stamped, Number
<1>19. PICK s : s = SumFunctionOnSet(f, B)
  OBVIOUS
<1>20. s \in Nat /\ s <= n
  BY <1>13, <1>18, <1>19, FS_Subset, FS_CardinalityType
<1>21. PICK c : c = Cardinality(B)
  OBVIOUS
<1>22. c \in Nat \ {0}
  BY <1>9, <1>21, FS_CardinalityType, FS_EmptySet
<1>23. n * duration >= c * m
  <2>1. PICK k \in Nat : n = s + k
    <3>1. n - s \in Nat /\ n = s + (n - s)
      BY <1>4, <1>20
    <3> QED BY <3>1
  <2>2. n * duration = s * duration + k * duration /\ k * duration \in Nat /\ s * duration \in Nat
    BY <1>20, <2>1
  <2>3. s * duration >= c * m /\ c * m \in Nat
    BY <1>15, <1>17, <1>19, <1>21, <1>22
  <2> QED BY <2>2, <2>3
<1>24. c * m = n * (2 * c * Second) + c
  BY <1>2, <1>4, <1>14, <1>22
<1>25. PICK x : x = 2 * c * Second
  OBVIOUS
<1>26. x \in Nat /\ n * duration > n * x
  <2>1. x \in Nat
    BY <1>2, <1>22, <1>25
  <2>2. n * duration >= n * x + c /\ n * x \in Nat
    BY <1>4, <1>23, <1>24, <1>25, <2>1
  <2> QED BY <1>4, <1>22, <2>1, <2>2
<1>27. x < duration
  <2> SUFFICES ASSUME x >= duration PROVE FALSE
    BY <1>26
  <2>1. PICK k \in Nat : x = duration + k
    <3>1. x - duration \in Nat /\ x = duration + (x - duration)
      BY <1>26
    <3> QED BY <3>1
  <2>2. n * x = n * duration + n * k /\ n * k \in Nat /\ n * duration \in Nat
    BY <1>4, <2>1
  <2> QED BY <1>26, <2>2
<1> QED BY <1>21, <1>25, <1>27

(* Fewer than half of the seconds of a report are bursts. *)
THEOREM BurstsCorrect == Spec => []BurstsAreFew
<1>1. IInv => BurstsAreFew
  <2> SUFFICES ASSUME IInv, Made PROVE BurstsAreFew
    BY DEF BurstsAreFew
  <2>1. Current /\ events \in Seq(Inputs)
    BY MadeCurrent
  <2>2. report.bursts = detectBursts(events, startTime, Period)
    BY <2>1, ReportIs DEF Current
  <2>3. Stamped(events) /\ DOMAIN events # {}
    BY <2>1, EventsStamped DEF Current
  <2> QED BY <2>1, <2>2, <2>3, BurstsAre DEF BurstsAreFew, Current
<1> QED BY <1>1, Invariant, PTL

-----------------------------------------------------------------------------
Peak(f, K) == Max({f[i] : i \in K})

(* A peak is one of the counts, and at least their average. *)
LEMMA PeakIs ==
  ASSUME NEW evs, NEW start, NEW L, NEW K, NEW f, Windowed(f, K, evs, start, L), K # {}
  PROVE  /\ Peak(f, K) \in Nat
         /\ \E i \in K : f[i] = Peak(f, K)
         /\ Cardinality(InWindows(evs, start, L, K)) <= Peak(f, K) * Cardinality(K)
<1>1. /\ \A i \in K : f[i] \in Nat
      /\ SumFunctionOnSet(f, K) = Cardinality(InWindows(evs, start, L, K))
  BY WindowsAddUp
<1>2. IsFiniteSet(K)
  BY DEF Windowed
<1>3. PICK V : V = {f[i] : i \in K}
  OBVIOUS
<1>4. IsFiniteSet(V)
  BY <1>2, <1>3, ImageFinite
<1>5. V # {} /\ V \subseteq Int /\ \A i \in K : f[i] \in V
  BY <1>1, <1>3
<1>6. PICK m \in V : \A x \in V : m >= x
  BY <1>4, <1>5, MaxExists
<1>7. Max(V) = m
  <2>1. \A x \in V : (\A y \in V : x >= y) => x = m
    BY <1>5, <1>6
  <2> QED BY <1>6, <2>1 DEF Max
<1>8. PICK i \in K : f[i] = m
  BY <1>3
<1>9. \A k \in K : f[k] \in Int /\ f[k] <= m
  BY <1>1, <1>5, <1>6
<1>10. m \in Int /\ m \in Nat
  BY <1>1, <1>8
<1>11. SumFunctionOnSet(f, K) <= m * Cardinality(K)
  BY <1>2, <1>9, <1>10, SumAtMost
<1>12. Peak(f, K) = m
  BY <1>3, <1>7 DEF Peak
<1> QED BY <1>1, <1>8, <1>10, <1>11, <1>12

(* The events strictly inside the first windows, those on borders left out. *)
LEMMA InsideIs ==
  ASSUME events \in Seq(Inputs), NEW types, NEW L \in Nat \ {0}, NEW w \in Nat
  PROVE  Inside(types, L, w) = Cardinality(InWindows(Typed(events, types), Start, L, 0 .. w - 1))
<1>1. PICK own : own = Typed(events, types)
  OBVIOUS
<1>2. /\ DOMAIN own = {i \in DOMAIN events : events[i].type \in types}
      /\ \A i \in DOMAIN own : own[i] = events[i]
  BY <1>1 DEF Typed, RestrictValues, Restrict
<1>3. ASSUME NEW i \in DOMAIN own
      PROVE  WindowOf(own, Start, L)[i] \in 0 .. w - 1
               <=> events[i].timestamp - Start \in 0 .. w * L /\ (events[i].timestamp - Start) % L # 0
  <2>1. PICK a : a = events[i].timestamp - Start
    OBVIOUS
  <2>2. a \in Int
    BY <1>2, <2>1, EventsAre, DiagnosticianAssumption
  <2>3. WindowOf(own, Start, L)[i] = IF a % L # 0 THEN a \div L ELSE -1
    BY <1>2, <2>1 DEF WindowOf
  <2>4. PICK d, r : d = a \div L /\ r = a % L
    OBVIOUS
  <2>5. d \in Int /\ r \in 0 .. L - 1 /\ a = L * d + r
    <3>1. a \div L \in Int /\ a % L \in 0 .. L - 1
      BY <2>2
    <3> QED BY <2>2, <2>4, <3>1, DivMod
  <2>6. ASSUME r # 0 PROVE d \in 0 .. w - 1 <=> a \in 0 .. w * L
    <3>1. CASE d < 0
      <4>1. PICK k \in Nat : d = -1 - k
        <5>1. -1 - d \in Nat /\ d = -1 - (-1 - d)
          BY <2>5, <3>1
        <5> QED BY <5>1
      <4>2. L * d = -L - L * k /\ L * k \in Nat
        BY <4>1
      <4>3. a < 0
        BY <2>5, <4>2
      <4> QED BY <2>2, <2>5, <3>1, <4>3
    <3>2. CASE d >= 0 /\ d < w
      <4>1. PICK k \in Nat : w = d + 1 + k
        <5>1. w - d - 1 \in Nat /\ w = d + 1 + (w - d - 1)
          BY <2>5, <3>2
        <5> QED BY <5>1
      <4>2. d \in Nat /\ w * L = L * d + L + L * k /\ L * k \in Nat /\ L * d \in Nat
        BY <2>5, <3>2, <4>1
      <4>3. a \in Nat /\ a <= w * L
        BY <2>5, <4>2
      <4> QED BY <2>5, <3>2, <4>2, <4>3
    <3>3. CASE d >= w
      <4>1. PICK k \in Nat : d = w + k
        <5>1. d - w \in Nat /\ d = w + (d - w)
          BY <2>5, <3>3
        <5> QED BY <5>1
      <4>2. L * d = w * L + L * k /\ L * k \in Nat /\ w * L \in Nat
        BY <4>1
      <4>3. a > w * L
        BY <2>5, <2>6, <4>2
      <4> QED BY <2>2, <2>5, <3>3, <4>2, <4>3
    <3> QED BY <2>5, <3>1, <3>2, <3>3
  <2>7. CASE r = 0
    BY <2>1, <2>3, <2>4, <2>7
  <2>8. CASE r # 0
    BY <2>1, <2>3, <2>4, <2>6, <2>8
  <2> QED BY <2>7, <2>8
<1>4. InWindows(own, Start, L, 0 .. w - 1)
        = {i \in DOMAIN events : /\ events[i].type \in types
                                 /\ events[i].timestamp - Start \in 0 .. w * L
                                 /\ (events[i].timestamp - Start) % L # 0}
  <2>1. \A i : i \in InWindows(own, Start, L, 0 .. w - 1)
               <=> i \in DOMAIN own /\ WindowOf(own, Start, L)[i] \in 0 .. w - 1
    BY DEF InWindows, Where
  <2> QED BY <1>2, <1>3, <2>1
<1> QED BY <1>1, <1>4 DEF Inside, Quantify, Collected

(* The peak of TCP operations is that of the whole seconds. *)
LEMMA OperationsPeak ==
  ASSUME NEW evs, Stamped(evs), NEW start \in Nat, NEW duration \in Nat
  PROVE  LET w == Max({duration \div Second, 1})
         IN /\ w \in Nat \ {0}
            /\ analyzeIOPattern(evs, start, duration).peak \in Nat
            /\ Cardinality(InWindows(evs, start, Second, 0 .. w - 1))
                 <= analyzeIOPattern(evs, start, duration).peak * w
<1>1. PICK w : w = Max({duration \div Second, 1})
  OBVIOUS
<1>2. Second \in Nat \ {0}
  BY WindowsAssumption
<1>3. w \in Nat \ {0}
  <2>1. PICK d : d = duration \div Second
    OBVIOUS
  <2>2. d \in Nat
    BY <1>2, <2>1
  <2>3. Max({d, 1}) = IF d > 1 THEN d ELSE 1
    BY <2>2 DEF Max
  <2> QED BY <1>1, <2>1, <2>2, <2>3
<1>4. PICK K : K = 0 .. w - 1
  OBVIOUS
<1>5. IsFiniteSet(K) /\ Cardinality(K) = w /\ K \subseteq Nat /\ K # {}
  <2>1. PICK z \in Nat : z = w - 1
    BY <1>3
  <2>2. IsFiniteSet(0 .. z) /\ Cardinality(0 .. z) = z + 1
    BY FS_Interval
  <2> QED BY <1>3, <1>4, <2>1, <2>2
<1>6. PICK f : f = [i \in K |-> Within(evs, start + i * Second, Second)]
  OBVIOUS
<1>7. Windowed(f, K, evs, start, Second)
  BY <1>2, <1>5, <1>6 DEF Windowed
<1>8. analyzeIOPattern(evs, start, duration).peak = Max({f[i] : i \in K})
  <2>1. {Within(evs, start + i * Second, Second) : i \in K} = {f[i] : i \in K}
    BY <1>6
  <2>2. analyzeIOPattern(evs, start, duration).peak
          = Max({Within(evs, start + i * Second, Second) : i \in K})
    BY <1>1, <1>4 DEF analyzeIOPattern
  <2> QED BY <2>1, <2>2
<1>9. /\ Peak(f, K) \in Nat
      /\ Cardinality(InWindows(evs, start, Second, K)) <= Peak(f, K) * Cardinality(K)
  BY <1>5, <1>7, PeakIs
<1> QED BY <1>1, <1>3, <1>4, <1>5, <1>8, <1>9 DEF Peak

(* The windows of connections cover the period, the last one past its end. *)
LEMMA TenthsCover ==
  ASSUME NEW duration \in Nat \ {0}, NEW L \in Nat \ {0}
  PROVE  LET w == (duration + L - 1) \div L
         IN w \in Nat \ {0} /\ {i \in 0 .. duration : i * L < duration} = 0 .. w - 1
<1>1. PICK w, r : w = (duration + L - 1) \div L /\ r = (duration + L - 1) % L
  OBVIOUS
<1>2. PICK a \in Nat : a = duration + L - 1
  OBVIOUS
<1>3. w \in Int /\ r \in 0 .. L - 1 /\ a = L * w + r
  <2>1. a \div L \in Int /\ a % L \in 0 .. L - 1
    OBVIOUS
  <2> QED BY <1>1, <1>2, <2>1, DivMod
<1>4. w >= 1
  <2> SUFFICES ASSUME w < 1 PROVE FALSE
    BY <1>3
  <2>1. PICK k \in Nat : w = -k
    <3>1. -w \in Nat /\ w = -(-w)
      BY <1>3
    <3> QED BY <3>1
  <2>2. L * w = -(L * k) /\ L * k \in Nat
    BY <2>1
  <2> QED BY <1>2, <1>3, <2>2
<1>5. ASSUME NEW i \in Nat PROVE i * L < duration <=> i < w
  <2>1. CASE i < w
    <3>1. PICK k \in Nat : w = i + 1 + k
      <4>1. w - i - 1 \in Nat /\ w = i + 1 + (w - i - 1)
        BY <1>3, <2>1
      <4> QED BY <4>1
    <3>2. L * w = i * L + L + L * k /\ L * k \in Nat /\ i * L \in Nat
      BY <3>1
    <3> QED BY <1>2, <1>3, <2>1, <3>2
  <2>2. CASE i >= w
    <3>1. PICK k \in Nat : i = w + k
      <4>1. i - w \in Nat /\ i = w + (i - w)
        BY <1>3, <2>2
      <4> QED BY <4>1
    <3>2. i * L = L * w + L * k /\ L * k \in Nat /\ L * w \in Int
      BY <1>3, <3>1
    <3> QED BY <1>2, <1>3, <2>2, <3>2
  <2> QED BY <1>3, <2>1, <2>2
<1>6. ASSUME NEW i \in Nat, i * L < duration PROVE i \in 0 .. duration
  <2>1. PICK l \in Nat : L = 1 + l
    <3>1. L - 1 \in Nat /\ L = 1 + (L - 1)
      OBVIOUS
    <3> QED BY <3>1
  <2>2. i * L = i + i * l /\ i * l \in Nat
    BY <2>1
  <2> QED BY <1>6, <2>2
<1>7. \A i : i \in {j \in 0 .. duration : j * L < duration} <=> i \in 0 .. w - 1
  BY <1>3, <1>4, <1>5, <1>6
<1> QED BY <1>1, <1>3, <1>4, <1>7

(* What is said of connections is of the counts of those windows: their peak and  *)
(* the comparison of their variance with their mean.                              *)
TenthOf(duration) == Max({duration \div 10, Second \div 10})
TenthsOf(duration) == (duration + TenthOf(duration) - 1) \div TenthOf(duration)

PatternOf(r, L, w, evs, start) ==
  LET K == 0 .. w - 1
  IN /\ L \in Nat \ {0} /\ w \in Nat \ {0}
     /\ IsFiniteSet(K) /\ Cardinality(K) = w /\ K # {}
     /\ \E f : /\ Windowed(f, K, evs, start, L)
               /\ r.peak = Peak(f, K)
               /\ r.pattern = Pattern(w, SumFunctionOnSet(f, K),
                                     SumFunctionOnSet([i \in K |-> f[i] * f[i]], K))

(* The code's windows of connections are those. *)
LEMMA ConnectionsAre ==
  ASSUME NEW evs, Stamped(evs), NEW start \in Nat, NEW duration \in Nat \ {0}
  PROVE  PatternOf(analyzeConnectionPattern(evs, start, duration),
                   TenthOf(duration), TenthsOf(duration), evs, start)
<1>1. PICK L : L = Max({duration \div 10, Second \div 10})
  OBVIOUS
<1>2. L \in Nat \ {0}
  <2>1. PICK x, y : x = duration \div 10 /\ y = Second \div 10
    OBVIOUS
  <2>2. x \in Nat /\ y \in Nat \ {0}
    BY <2>1, WindowsAssumption
  <2>3. Max({x, y}) = IF x > y THEN x ELSE y
    BY <2>2 DEF Max
  <2> QED BY <1>1, <2>1, <2>2, <2>3
<1>3. PICK w : w = (duration + L - 1) \div L
  OBVIOUS
<1>4. PICK K : K = 0 .. w - 1
  OBVIOUS
<1>5. w \in Nat \ {0} /\ {i \in 0 .. duration : i * L < duration} = K
  BY <1>2, <1>3, <1>4, TenthsCover
<1>6. IsFiniteSet(K) /\ Cardinality(K) = w /\ K \subseteq Nat /\ K # {}
  <2>1. PICK z \in Nat : z = w - 1
    BY <1>5
  <2>2. IsFiniteSet(0 .. z) /\ Cardinality(0 .. z) = z + 1
    BY FS_Interval
  <2>3. K = 0 .. z /\ z + 1 = w
    BY <1>4, <1>5, <2>1
  <2>4. 0 .. z \subseteq Nat /\ 0 \in 0 .. z
    OBVIOUS
  <2> QED BY <2>2, <2>3, <2>4
<1>7. PICK f : f = [i \in K |-> Within(evs, start + i * L, L)]
  OBVIOUS
<1>8. Windowed(f, K, evs, start, L)
  BY <1>2, <1>6, <1>7 DEF Windowed
<1>9. DOMAIN f = K /\ Range(f) = {f[i] : i \in K}
  BY <1>7 DEF Range
<1>10. analyzeConnectionPattern(evs, start, duration).peak = Max(Range(f))
       /\ analyzeConnectionPattern(evs, start, duration).pattern
            = Pattern(Cardinality(K), SumFunction(f), SumFunction([i \in K |-> f[i] * f[i]]))
  BY <1>1, <1>5, <1>7 DEF analyzeConnectionPattern
<1>11. SumFunction(f) = SumFunctionOnSet(f, K)
       /\ SumFunction([i \in K |-> f[i] * f[i]]) = SumFunctionOnSet([i \in K |-> f[i] * f[i]], K)
  BY <1>9 DEF SumFunction
<1>12. /\ analyzeConnectionPattern(evs, start, duration).peak = Peak(f, K)
       /\ analyzeConnectionPattern(evs, start, duration).pattern
            = Pattern(w, SumFunctionOnSet(f, K), SumFunctionOnSet([i \in K |-> f[i] * f[i]], K))
  BY <1>6, <1>9, <1>10, <1>11 DEF Peak
<1> QED BY <1>1, <1>2, <1>3, <1>4, <1>5, <1>6, <1>8, <1>12 DEF PatternOf, TenthOf, TenthsOf

(* Chebyshev's inequality for the windows: if one of them is above the mean by    *)
(* more than the root of half the sum, the variance is more than half the mean.   *)
LEMMA PeakIsBursty ==
  ASSUME NEW f, NEW K, IsFiniteSet(K), \A i \in K : f[i] \in Nat, NEW x \in K,
         NEW m \in Nat \ {0}, Cardinality(K) = m,
         NEW s, s = SumFunctionOnSet(f, K),
         2 * (m * f[x] - s) * (m * f[x] - s) > s * m * m
  PROVE  Pattern(m, s, SumFunctionOnSet([i \in K |-> f[i] * f[i]], K)) = "bursty"
<1> DEFINE Q == [i \in K |-> f[i] * f[i]]
           g == [i \in K |-> (m * f[i] - s) * (m * f[i] - s)]
<1>1. \A i \in K : f[i] \in Int
  OBVIOUS
<1>2. s \in Int
  BY <1>1, SumType
<1>3. ASSUME NEW i \in K PROVE g[i] \in Nat /\ Q[i] \in Int
  <2>1. PICK v \in Int : v = m * f[i] - s
    BY <1>2
  <2>2. v * v \in Nat
    OBVIOUS
  <2>3. f[i] * f[i] \in Int
    OBVIOUS
  <2> QED BY <2>1, <2>2, <2>3
<1>4. PICK q : q = SumFunctionOnSet(Q, K)
  OBVIOUS
<1>5. q \in Int
  <2> HIDE DEF Q
  <2> QED BY <1>3, <1>4, SumType
<1>6. PICK t : t = SumFunctionOnSet(g, K)
  OBVIOUS
<1>7. t = m * m * q - 2 * m * s * s + m * s * s
  BY <1>1, <1>2, <1>4, <1>6, SumOfSquares
<1>8. g[x] <= t
  <2> HIDE DEF g
  <2> QED BY <1>3, <1>6, SumCovers
<1>9. PICK e \in Int : e = m * f[x] - s
  BY <1>2
<1>10. e * e <= t /\ 2 * e * e > s * m * m
  BY <1>8, <1>9
<1>11. PICK v \in Int : v = m * q - s * s
  BY <1>2, <1>5
<1>12. t = m * v
  BY <1>2, <1>5, <1>7, <1>11
<1>13. m * (2 * v) > m * (s * m)
  BY <1>2, <1>10, <1>12
<1>14. 2 * v > s * m
  <2>1. PICK y \in Int : y = s * m
    BY <1>2
  <2> SUFFICES ASSUME 2 * v <= y PROVE FALSE
    BY <2>1
  <2>2. PICK k \in Nat : y = 2 * v + k
    <3>1. y - 2 * v \in Nat /\ y = 2 * v + (y - 2 * v)
      OBVIOUS
    <3> QED BY <3>1
  <2>3. m * y = m * (2 * v) + m * k /\ m * k \in Nat /\ m * (2 * v) \in Int
    BY <2>2
  <2> QED BY <1>13, <2>1, <2>3
<1>15. Pattern(m, s, q) = "bursty"
  BY <1>11, <1>14 DEF Pattern
<1> QED BY <1>4, <1>15

(* A report of connections or of TCP operations is one of at least one of them. *)
LEMMA TypedReport ==
  ASSUME IInv, Made, boot = 0
  PROVE  /\ startTime = Start /\ Start \in Nat /\ Period \in Nat \ {0}
         /\ Stamped(Typed(events, {"TCP_SEND", "TCP_RECV"})) /\ Stamped(Typed(events, {"CONNECT"}))
         /\ report.tcp.count > 0 =>
              report.io = analyzeIOPattern(Typed(events, {"TCP_SEND", "TCP_RECV"}), Start, Period)
         /\ report.connect.count > 0 =>
              report.pattern = analyzeConnectionPattern(Typed(events, {"CONNECT"}), Start, Period)
<1>1. Current /\ events \in Seq(Inputs)
  BY MadeCurrent
<1>2. startTime = Start /\ Start \in Nat /\ Period \in Nat \ {0}
  BY <1>1, DiagnosticianAssumption DEF IInv, Current
<1>3. TcpEvents(events) = Typed(events, {"TCP_SEND", "TCP_RECV"})
      /\ filterEvents(events, "CONNECT") = Typed(events, {"CONNECT"})
  BY SectionsAre
<1>4. PICK tcp, connects : tcp = TcpEvents(events) /\ connects = filterEvents(events, "CONNECT")
  OBVIOUS
<1>5. /\ report.tcp = IF DOMAIN tcp = {} THEN [count |-> 0] ELSE analyzeTCP(tcp)
      /\ report.connect = IF DOMAIN connects = {} THEN [count |-> 0] ELSE analyzeConnections(connects)
      /\ report.pattern = IF DOMAIN connects = {} THEN [count |-> 0]
                          ELSE analyzeConnectionPattern(connects, startTime, Period)
      /\ report.io = IF DOMAIN tcp = {} THEN [count |-> 0] ELSE analyzeIOPattern(tcp, startTime, Period)
  BY <1>1, <1>4, ReportIs DEF Current
<1>6. report.tcp.count > 0 => DOMAIN tcp # {}
  <2>1. DOMAIN tcp = {} => report.tcp.count = 0
    BY <1>5
  <2>2. 0 > 0 <=> FALSE
    OBVIOUS
  <2> QED BY <2>1, <2>2
<1>7. report.connect.count > 0 => DOMAIN connects # {}
  <2>1. DOMAIN connects = {} => report.connect.count = 0
    BY <1>5
  <2>2. 0 > 0 <=> FALSE
    OBVIOUS
  <2> QED BY <2>1, <2>2
<1>8. Stamped(tcp) /\ Stamped(connects)
  BY <1>1, <1>3, <1>4, EventsStamped
<1> QED BY <1>2, <1>3, <1>4, <1>5, <1>6, <1>7, <1>8

(* Where the wall clock counts from the boot, a peak is at least the average of   *)
(* the windows, without what is on a border.                                      *)
THEOREM PeakCorrect == Spec => []PeakNotMissed
<1>1. IInv => PeakNotMissed
  <2> SUFFICES ASSUME IInv, Made, boot = 0
               PROVE  /\ report.tcp.count > 0 =>
                           report.io.peak * Seconds >= Inside({"TCP_SEND", "TCP_RECV"}, Second, Seconds)
                      /\ report.connect.count > 0 =>
                           report.pattern.peak * Tenths >= Inside({"CONNECT"}, Tenth, Tenths)
    BY DEF PeakNotMissed
  <2>1. events \in Seq(Inputs)
    BY MadeCurrent
  <2>2. PICK tcp, connects : /\ tcp = Typed(events, {"TCP_SEND", "TCP_RECV"})
                             /\ connects = Typed(events, {"CONNECT"})
    OBVIOUS
  <2>3. /\ Start \in Nat /\ Period \in Nat \ {0} /\ Stamped(tcp) /\ Stamped(connects)
        /\ report.tcp.count > 0 => report.io = analyzeIOPattern(tcp, Start, Period)
        /\ report.connect.count > 0 => report.pattern = analyzeConnectionPattern(connects, Start, Period)
    BY <2>2, TypedReport
  <2>4. Second \in Nat \ {0}
    BY WindowsAssumption
  <2>5. ASSUME report.tcp.count > 0
        PROVE  report.io.peak * Seconds >= Inside({"TCP_SEND", "TCP_RECV"}, Second, Seconds)
    <3>1. PICK w : w = Seconds
      OBVIOUS
    <3>2. /\ w \in Nat \ {0} /\ report.io.peak \in Nat
          /\ Cardinality(InWindows(tcp, Start, Second, 0 .. w - 1)) <= report.io.peak * w
      BY <2>3, <2>5, <3>1, OperationsPeak DEF Seconds
    <3>3. PICK types : types = {"TCP_SEND", "TCP_RECV"}
      OBVIOUS
    <3>4. Inside(types, Second, w) = Cardinality(InWindows(tcp, Start, Second, 0 .. w - 1))
      BY <2>1, <2>2, <2>4, <3>2, <3>3, InsideIs
    <3>5. IsFiniteSet(DOMAIN tcp) /\ InWindows(tcp, Start, Second, 0 .. w - 1) \in SUBSET DOMAIN tcp
      BY <2>3 DEF Stamped, InWindows, Where
    <3>6. Cardinality(InWindows(tcp, Start, Second, 0 .. w - 1)) \in Nat
      BY <3>5, FS_Subset, FS_CardinalityType
    <3> QED BY <3>1, <3>2, <3>3, <3>4, <3>6
  <2>6. ASSUME report.connect.count > 0
        PROVE  report.pattern.peak * Tenths >= Inside({"CONNECT"}, Tenth, Tenths)
    <3>1. PICK w, L, K : w = Tenths /\ L = Tenth /\ K = 0 .. w - 1
      OBVIOUS
    <3>8. L = TenthOf(Period) /\ w = TenthsOf(Period)
      BY <3>1 DEF Tenth, Tenths, TenthOf, TenthsOf
    <3>9. PatternOf(report.pattern, L, w, connects, Start)
      BY <2>3, <2>6, <3>8, ConnectionsAre
    <3>2. PICK f : /\ L \in Nat \ {0} /\ w \in Nat \ {0}
                   /\ Cardinality(K) = w /\ K # {}
                   /\ Windowed(f, K, connects, Start, L)
                   /\ report.pattern.peak = Peak(f, K)
      BY <3>1, <3>9 DEF PatternOf
    <3>3. Peak(f, K) \in Nat /\ Cardinality(InWindows(connects, Start, L, K)) <= Peak(f, K) * w
      BY <3>2, PeakIs
    <3>4. PICK types : types = {"CONNECT"}
      OBVIOUS
    <3>5. Inside(types, L, w) = Cardinality(InWindows(connects, Start, L, K))
      BY <2>1, <2>2, <3>1, <3>2, <3>4, InsideIs
    <3>6. IsFiniteSet(DOMAIN connects) /\ InWindows(connects, Start, L, K) \in SUBSET DOMAIN connects
      BY <2>3 DEF Stamped, InWindows, Where
    <3>7. Cardinality(InWindows(connects, Start, L, K)) \in Nat
      BY <3>6, FS_Subset, FS_CardinalityType
    <3> QED BY <3>1, <3>2, <3>3, <3>4, <3>5, <3>7
  <2> QED BY <2>5, <2>6
<1> QED BY <1>1, Invariant, PTL

(* There too, connections with a window far above the mean are called bursty. *)
THEOREM BurstyCorrect == Spec => []BurstyIfPeaked
<1>1. IInv => BurstyIfPeaked
  <2> SUFFICES ASSUME IInv, Made, boot = 0, report.connect.count > 0,
                      NEW s, s = Inside({"CONNECT"}, Tenth, Tenths),
                      NEW e, e = Tenths * report.pattern.peak - s,
                      2 * e * e > s * Tenths * Tenths
               PROVE  report.pattern.pattern = "bursty"
    BY DEF BurstyIfPeaked
  <2>1. events \in Seq(Inputs)
    BY MadeCurrent
  <2>2. PICK connects, types : types = {"CONNECT"} /\ connects = Typed(events, types)
    OBVIOUS
  <2>3. /\ Start \in Nat /\ Period \in Nat \ {0} /\ Stamped(connects)
        /\ report.pattern = analyzeConnectionPattern(connects, Start, Period)
    BY <2>2, TypedReport
  <2>4. PICK w, L, K : w = Tenths /\ L = Tenth /\ K = 0 .. w - 1
    OBVIOUS
  <2>12. L = TenthOf(Period) /\ w = TenthsOf(Period)
    BY <2>4 DEF Tenth, Tenths, TenthOf, TenthsOf
  <2>13. PatternOf(report.pattern, L, w, connects, Start)
    BY <2>3, <2>12, ConnectionsAre
  <2>5. PICK f : /\ L \in Nat \ {0} /\ w \in Nat \ {0}
                 /\ IsFiniteSet(K) /\ Cardinality(K) = w /\ K # {}
                 /\ Windowed(f, K, connects, Start, L)
                 /\ report.pattern.peak = Peak(f, K)
                 /\ report.pattern.pattern
                      = Pattern(w, SumFunctionOnSet(f, K), SumFunctionOnSet([i \in K |-> f[i] * f[i]], K))
    BY <2>4, <2>13 DEF PatternOf
  <2>6. PICK x \in K : f[x] = Peak(f, K)
    BY <2>5, PeakIs
  <2>7. /\ \A i \in K : f[i] \in Nat
        /\ SumFunctionOnSet(f, K) = Cardinality(InWindows(connects, Start, L, K))
    BY <2>5, WindowsAddUp
  <2>8. Inside(types, L, w) = Cardinality(InWindows(connects, Start, L, K))
    BY <2>1, <2>2, <2>4, <2>5, InsideIs
  <2>9. s = SumFunctionOnSet(f, K)
    BY <2>2, <2>4, <2>7, <2>8
  <2>10. 2 * (w * f[x] - s) * (w * f[x] - s) > s * w * w
    BY <2>4, <2>5, <2>6
  <2>11. Pattern(w, s, SumFunctionOnSet([i \in K |-> f[i] * f[i]], K)) = "bursty"
    BY <2>5, <2>7, <2>9, <2>10, PeakIsBursty, Zenon
  <2> QED BY <2>5, <2>9, <2>11
<1> QED BY <1>1, Invariant, PTL
=============================================================================
