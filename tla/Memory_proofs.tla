--------------------------- MODULE Memory_proofs ---------------------------
(***************************************************************************)
(* What holds of the memory filesystem at any time: the table of nodes is  *)
(* a tree, every node counts its names, and the bytes that are charged are *)
(* those of the nodes that have one.  A filesystem of which this is true   *)
(* is a good one (Goods); every operation of MemoryFS answers with a good  *)
(* filesystem when it is called on one, and so does every call of a mount. *)
(* What is written to a good filesystem is read from it.                   *)
(***************************************************************************)
EXTENDS CopyMount, Lemmas, FiniteSetTheorems

-----------------------------------------------------------------------------
(* Sums over sets.                                                         *)

\* The bytes of the nodes in T.
Total(node, T) == Sets!FoldSet(LAMBDA i, sum : sum + node[i].size, 0, T)

\* f sums up the sizes of every subset of T, as a fold does.
Pick(s) == CHOOSE x \in s : TRUE
SumStep(f, node, T) ==
  [s \in SUBSET T |-> IF s = {} THEN 0 ELSE f[s \ {Pick(s)}] + node[Pick(s)].size]

\* A fold starts with the whole set.
LEMMA TotalIs ==
  ASSUME NEW node, NEW T
  PROVE  Total(node, T) = (CHOOSE f : f = SumStep(f, node, T))[T]
  BY DEF Total, Sets!FoldSet, Sets!MapThenFoldSet, SumStep, Pick

Sized(node, T) == \A i \in T : node[i].size \in Nat

\* A set with an element has the one that is picked.
LEMMA PickIn == ASSUME NEW s, s # {} PROVE Pick(s) \in s
  BY DEF Pick

\* Fewer elements are left without one of them.
LEMMA Without ==
  ASSUME NEW T, IsFiniteSet(T), NEW s \in SUBSET T, NEW x \in s
  PROVE  /\ s \ {x} \in SUBSET T /\ Cardinality(s) \in Nat /\ Cardinality(s) > 0
         /\ Cardinality(s \ {x}) = Cardinality(s) - 1
<1>1. IsFiniteSet(s)
  BY FS_Subset
<1>2. Cardinality(s) \in Nat
  BY <1>1, FS_CardinalityType
<1>3. Cardinality(s \ {x}) = Cardinality(s) - 1 /\ IsFiniteSet(s \ {x})
  BY <1>1, FS_RemoveElement
<1>4. Cardinality(s \ {x}) \in Nat
  BY <1>3, FS_CardinalityType
<1> QED BY <1>2, <1>3, <1>4

\* There is a function that a fold may choose.
LEMMA SumsExist ==
  ASSUME NEW node, NEW T, IsFiniteSet(T), Sized(node, T)
  PROVE  \E f : f = SumStep(f, node, T)
<1> DEFINE S == [SUBSET T -> Nat]
           n == Cardinality(T)
           step == [f \in S |-> SumStep(f, node, T)]
           F == [i \in 1 .. n |-> step]
           zero == [s \in SUBSET T |-> 0]
<1>1. n \in Nat
  BY FS_CardinalityType
<1>2. zero \in S
  OBVIOUS
<1>3. ASSUME NEW f \in S PROVE SumStep(f, node, T) \in S
  <2>1. ASSUME NEW s \in SUBSET T, s # {} PROVE f[s \ {Pick(s)}] + node[Pick(s)].size \in Nat
    <3>1. Pick(s) \in T /\ s \ {Pick(s)} \in SUBSET T
      BY <2>1, PickIn
    <3>2. f[s \ {Pick(s)}] \in Nat /\ node[Pick(s)].size \in Nat
      BY <3>1 DEF Sized
    <3> QED BY <3>2
  <2> QED BY <2>1 DEF SumStep
<1>4. step \in [S -> S]
  BY <1>3
<1>5. StepsOn(F, S, n)
  <2> HIDE DEF step, S, n
  <2> QED BY <1>4 DEF StepsOn
<1>6. PICK g : Follows(g, F, S, zero, n)
  <2> HIDE DEF F, S, n, zero
  <2> QED BY <1>1, <1>2, <1>5, StepsReach
<1>7. g \in [0 .. n -> S] /\ \A i \in 1 .. n : g[i] = SumStep(g[i - 1], node, T)
  <2>1. g \in [0 .. n -> S] /\ \A i \in 1 .. n : g[i] = F[i][g[i - 1]]
    BY <1>6 DEF Follows
  <2>2. ASSUME NEW i \in 1 .. n PROVE g[i] = SumStep(g[i - 1], node, T)
    <3>1. i - 1 \in 0 .. n
      BY <1>1
    <3>2. g[i - 1] \in S
      <4> HIDE DEF S, n
      <4> QED BY <2>1, <3>1
    <3>3. F[i] = step
      OBVIOUS
    <3> HIDE DEF F, n
    <3>4. step[g[i - 1]] = SumStep(g[i - 1], node, T)
      <4> HIDE DEF S
      <4> QED BY <3>2
    <3> HIDE DEF step
    <3> QED BY <2>1, <3>3, <3>4
  <2> HIDE DEF F, S, n
  <2> QED BY <2>1, <2>2
<1> HIDE DEF n, S, F, step, zero
\* After k steps the sums over up to k elements are there to stay.
<1> DEFINE Stable(k) == \A s \in SUBSET T : Cardinality(s) <= k => SumStep(g[k], node, T)[s] = g[k][s]
           K == {k \in 0 .. n : Stable(k)}
<1>8. 0 \in K
  <2>1. ASSUME NEW s \in SUBSET T, Cardinality(s) <= 0 PROVE s = {}
    <3>1. IsFiniteSet(s) /\ Cardinality(s) \in Nat
      BY FS_Subset, FS_CardinalityType
    <3> QED BY <2>1, <3>1, FS_EmptySet
  <2>2. g[0] = zero
    BY <1>6 DEF Follows
  <2>3. SumStep(g[0], node, T)[{}] = g[0][{}]
    BY <2>2 DEF SumStep, zero
  <2>4. 0 \in 0 .. n
    BY <1>1
  <2> QED BY <2>1, <2>3, <2>4
<1>9. ASSUME NEW k \in 0 .. n - 1, k \in K PROVE k + 1 \in K
  <2>1. k + 1 \in 1 .. n /\ k + 1 \in 0 .. n /\ (k + 1) - 1 = k
    BY <1>1
  <2>2. g[k + 1] = SumStep(g[k], node, T)
    BY <1>7, <2>1
  <2>3. ASSUME NEW s \in SUBSET T, Cardinality(s) <= k + 1
        PROVE SumStep(g[k + 1], node, T)[s] = g[k + 1][s]
    <3>1. CASE s = {}
      BY <2>2, <3>1 DEF SumStep
    <3>2. CASE s # {}
      <4> DEFINE x == Pick(s)
                 r == s \ {x}
      <4>1. x \in s
        BY <3>2, PickIn
      <4>2. r \in SUBSET T /\ Cardinality(s) \in Nat /\ Cardinality(r) = Cardinality(s) - 1
        <5> HIDE DEF x
        <5> QED BY <4>1, Without
      <4>3. Cardinality(r) <= k
        BY <2>3, <4>2
      <4>4. g[k + 1][r] = g[k][r]
        BY <1>9, <2>2, <4>2, <4>3
      <4>5. /\ SumStep(g[k + 1], node, T)[s] = g[k + 1][r] + node[x].size
            /\ SumStep(g[k], node, T)[s] = g[k][r] + node[x].size
        BY <3>2 DEF SumStep
      <4> QED BY <2>2, <4>4, <4>5
    <3> QED BY <3>1, <3>2
  <2> QED BY <2>1, <2>3
<1>10. n \in K
  <2>1. 0 .. n \subseteq K
    <3>1. \A k \in 0 .. n - 1 : k \in K => k + 1 \in K
      BY <1>9
    <3> HIDE DEF K
    <3> QED BY <1>1, <1>8, <3>1, InductTo
  <2> QED BY <1>1, <2>1
<1>11. SumStep(g[n], node, T) = g[n]
  <2>1. ASSUME NEW s \in SUBSET T PROVE Cardinality(s) <= n
    BY FS_Subset DEF n
  <2>2. \A s \in SUBSET T : SumStep(g[n], node, T)[s] = g[n][s]
    BY <1>10, <2>1
  <2>3. g[n] \in S
    BY <1>1, <1>7
  <2>4. g[n] \in [SUBSET T -> Nat]
    BY <2>3 DEF S
  <2>5. DOMAIN SumStep(g[n], node, T) = SUBSET T /\ SumStep(g[n], node, T) = [s \in SUBSET T |-> SumStep(g[n], node, T)[s]]
    BY DEF SumStep
  <2>6. g[n] = [s \in SUBSET T |-> g[n][s]]
    BY <2>4
  <2> HIDE DEF SumStep
  <2> QED BY <2>2, <2>5, <2>6
<1> QED BY <1>11

\* The sums that folds give over the subsets of one set.
LEMMA SumsAre ==
  ASSUME NEW node, NEW T, IsFiniteSet(T), Sized(node, T)
  PROVE  \E f : /\ \A s \in SUBSET T : f[s] \in Nat /\ f[s] = Total(node, s)
                /\ \A s \in SUBSET T : f[s] = IF s = {} THEN 0 ELSE f[s \ {Pick(s)}] + node[Pick(s)].size
<1> DEFINE f == CHOOSE h : h = SumStep(h, node, T)
<1>1. f = SumStep(f, node, T)
  BY SumsExist
<1> HIDE DEF f
<1>2. ASSUME NEW s \in SUBSET T PROVE f[s] = IF s = {} THEN 0 ELSE f[s \ {Pick(s)}] + node[Pick(s)].size
  BY <1>1 DEF SumStep
\* Sums over one set do not depend on what larger set it is taken from.
<1> DEFINE Same(s) == f[s] \in Nat /\ \A U \in SUBSET T : \A h :
                         s \subseteq U /\ h = SumStep(h, node, U) => h[s] = f[s]
           K == {k \in Nat : \A s \in SUBSET T : Cardinality(s) = k => Same(s)}
<1>3. 0 \in K
  <2>1. ASSUME NEW s \in SUBSET T, Cardinality(s) = 0 PROVE Same(s)
    <3>1. s = {}
      BY <2>1, FS_Subset, FS_EmptySet
    <3>2. f[s] = 0
      BY <1>2, <3>1
    <3>3. ASSUME NEW U \in SUBSET T, NEW h, s \subseteq U, h = SumStep(h, node, U) PROVE h[s] = 0
      BY <3>1, <3>3 DEF SumStep
    <3> QED BY <3>2, <3>3
  <2> QED BY <2>1
<1>4. ASSUME NEW k \in Nat, k \in K PROVE k + 1 \in K
  <2>1. ASSUME NEW s \in SUBSET T, Cardinality(s) = k + 1 PROVE Same(s)
    <3> DEFINE x == Pick(s)
               r == s \ {x}
    <3>1. s # {}
      BY <2>1, FS_EmptySet
    <3>2. x \in s
      BY <3>1, PickIn
    <3>3. r \in SUBSET T /\ Cardinality(r) = k
      <4>1. r \in SUBSET T /\ Cardinality(r) = Cardinality(s) - 1
        <5> HIDE DEF x
        <5> QED BY <3>2, Without
      <4> QED BY <2>1, <4>1
    <3>4. Same(r)
      BY <1>4, <3>3
    <3>5. f[s] = f[r] + node[x].size
      BY <1>2, <3>1
    <3>6. node[x].size \in Nat
      BY <3>2 DEF Sized
    <3>7. ASSUME NEW U \in SUBSET T, NEW h, s \subseteq U, h = SumStep(h, node, U) PROVE h[s] = f[s]
      <4>1. s \in SUBSET U /\ r \subseteq U
        BY <3>7
      <4>2. h[s] = h[r] + node[x].size
        <5>1. SumStep(h, node, U)[s] = h[r] + node[x].size
          BY <3>1, <4>1 DEF SumStep
        <5> QED BY <3>7, <5>1
      <4>3. h[r] = f[r]
        BY <3>4, <3>7, <4>1
      <4> QED BY <3>5, <4>2, <4>3
    <3> HIDE DEF x, r
    <3> QED BY <3>4, <3>5, <3>6, <3>7
  <2> QED BY <2>1
<1>5. Nat \subseteq K
  <2>1. \A k \in Nat : k \in K => k + 1 \in K
    BY <1>4
  <2> HIDE DEF K
  <2> QED BY <1>3, <2>1, Induct
<1>6. ASSUME NEW s \in SUBSET T PROVE f[s] \in Nat /\ f[s] = Total(node, s)
  <2>1. IsFiniteSet(s) /\ Cardinality(s) \in Nat
    BY FS_Subset, FS_CardinalityType
  <2>2. Same(s)
    BY <1>5, <2>1
  <2>3. Sized(node, s)
    BY DEF Sized
  <2>4. \E h : h = SumStep(h, node, s)
    BY <2>1, <2>3, SumsExist
  <2> DEFINE h == CHOOSE g : g = SumStep(g, node, s)
  <2>5. h = SumStep(h, node, s)
    BY <2>4
  <2>6. Total(node, s) = h[s]
    BY TotalIs
  <2> HIDE DEF h
  <2> QED BY <2>2, <2>5, <2>6
<1> HIDE DEF Same, K
<1> QED BY <1>2, <1>6

\* A sum is a number.
LEMMA TotalType ==
  ASSUME NEW node, NEW T, IsFiniteSet(T), Sized(node, T)
  PROVE  Total(node, T) \in Nat /\ Total(node, {}) = 0
<1>1. PICK f : /\ \A s \in SUBSET T : f[s] \in Nat /\ f[s] = Total(node, s)
               /\ \A s \in SUBSET T : f[s] = IF s = {} THEN 0 ELSE f[s \ {Pick(s)}] + node[Pick(s)].size
  BY SumsAre
<1> QED BY <1>1

\* Any element may be taken out of a sum, not only the one that a fold picks.
LEMMA TotalWithout ==
  ASSUME NEW node, NEW T, IsFiniteSet(T), Sized(node, T), NEW a \in T
  PROVE  Total(node, T) = Total(node, T \ {a}) + node[a].size
<1>1. PICK f : /\ \A s \in SUBSET T : f[s] \in Nat /\ f[s] = Total(node, s)
               /\ \A s \in SUBSET T : f[s] = IF s = {} THEN 0 ELSE f[s \ {Pick(s)}] + node[Pick(s)].size
  BY SumsAre
<1> DEFINE Any(s) == \A x \in s : f[s] = f[s \ {x}] + node[x].size
           K == {k \in Nat : \A s \in SUBSET T : Cardinality(s) = k => Any(s)}
<1>2. 0 \in K
  <2>1. ASSUME NEW s \in SUBSET T, Cardinality(s) = 0 PROVE s = {}
    BY <2>1, FS_Subset, FS_EmptySet
  <2> QED BY <2>1
<1>3. ASSUME NEW k \in Nat, k \in K PROVE k + 1 \in K
  <2>1. ASSUME NEW s \in SUBSET T, Cardinality(s) = k + 1, NEW x \in s
        PROVE f[s] = f[s \ {x}] + node[x].size
    <3> DEFINE c == Pick(s)
    <3>1. c \in s
      BY PickIn
    <3>2. f[s] = f[s \ {c}] + node[c].size
      BY <1>1, <3>1
    <3>3. CASE c = x
      BY <3>2, <3>3
    <3>4. CASE c # x
      <4> HIDE DEF c
      <4>1. /\ s \ {x} \in SUBSET T /\ Cardinality(s \ {x}) = k
            /\ s \ {c} \in SUBSET T /\ Cardinality(s \ {c}) = k
        <5>1. s \ {x} \in SUBSET T /\ Cardinality(s \ {x}) = Cardinality(s) - 1
          BY Without
        <5>2. s \ {c} \in SUBSET T /\ Cardinality(s \ {c}) = Cardinality(s) - 1
          BY <3>1, Without
        <5> QED BY <2>1, <5>1, <5>2
      <4>2. Any(s \ {x}) /\ Any(s \ {c})
        BY <1>3, <4>1
      <4>3. c \in s \ {x} /\ x \in s \ {c} /\ (s \ {x}) \ {c} = (s \ {c}) \ {x}
        BY <3>1, <3>4
      <4> DEFINE rest == (s \ {c}) \ {x}
      <4>4. f[s \ {x}] = f[rest] + node[c].size
        BY <4>2, <4>3
      <4>5. f[s \ {c}] = f[rest] + node[x].size
        BY <4>2, <4>3
      <4>6. rest \in SUBSET T
        OBVIOUS
      <4> HIDE DEF rest
      <4>7. f[rest] \in Nat /\ node[c].size \in Nat /\ node[x].size \in Nat
        BY <1>1, <3>1, <4>6 DEF Sized
      <4> QED BY <3>2, <4>4, <4>5, <4>7
    <3> QED BY <3>3, <3>4
  <2> QED BY <2>1
<1>4. Nat \subseteq K
  <2>1. \A k \in Nat : k \in K => k + 1 \in K
    BY <1>3
  <2> HIDE DEF K
  <2> QED BY <1>2, <2>1, Induct
<1>5. Cardinality(T) \in Nat
  BY FS_CardinalityType
<1>6. Any(T)
  BY <1>4, <1>5
<1>7. T \ {a} \in SUBSET T
  OBVIOUS
<1> HIDE DEF K
<1> QED BY <1>1, <1>6, <1>7

\* A sum depends on the sizes of its elements only, and those of size 0 do not count.
LEMMA TotalSame ==
  ASSUME NEW node, NEW other, NEW T, IsFiniteSet(T), Sized(node, T), Sized(other, T), NEW U \in SUBSET T,
         \A i \in U : other[i].size = node[i].size, \A i \in T \ U : node[i].size = 0
  PROVE  Total(node, T) = Total(other, U)
<1> DEFINE K == {k \in Nat : \A s \in SUBSET T : Cardinality(s) = k => Total(node, s) = Total(other, s \cap U)}
<1>1. 0 \in K
  <2>1. ASSUME NEW s \in SUBSET T, Cardinality(s) = 0 PROVE s = {} /\ s \cap U = {}
    BY <2>1, FS_Subset, FS_EmptySet
  <2>2. Total(node, {}) = 0 /\ Total(other, {}) = 0
    BY TotalType
  <2> QED BY <2>1, <2>2
<1>2. ASSUME NEW k \in Nat, k \in K PROVE k + 1 \in K
  <2>1. ASSUME NEW s \in SUBSET T, Cardinality(s) = k + 1 PROVE Total(node, s) = Total(other, s \cap U)
    <3>1. s # {}
      BY <2>1, FS_EmptySet
    <3>2. PICK x \in s : TRUE
      BY <3>1
    <3>3. s \ {x} \in SUBSET T /\ Cardinality(s \ {x}) = k
      <4>1. s \ {x} \in SUBSET T /\ Cardinality(s \ {x}) = Cardinality(s) - 1
        BY Without
      <4> QED BY <2>1, <4>1
    <3>4. Total(node, s \ {x}) = Total(other, (s \ {x}) \cap U)
      BY <1>2, <3>3
    <3>5. IsFiniteSet(s) /\ IsFiniteSet(s \cap U) /\ Sized(node, s) /\ Sized(other, s \cap U) /\ Sized(other, s)
      BY FS_Subset DEF Sized
    <3>6. Total(node, s) = Total(node, s \ {x}) + node[x].size
      BY <3>5, TotalWithout
    <3>7. CASE x \in U
      <4>1. x \in s \cap U /\ (s \cap U) \ {x} = (s \ {x}) \cap U
        BY <3>7
      <4>2. Total(other, s \cap U) = Total(other, (s \cap U) \ {x}) + other[x].size
        BY <3>5, <4>1, TotalWithout
      <4> QED BY <3>4, <3>6, <3>7, <4>1, <4>2
    <3>8. CASE x \notin U
      <4>1. (s \ {x}) \cap U = s \cap U
        BY <3>8
      <4>2. node[x].size = 0
        BY <3>8
      <4>3. Total(other, s \cap U) \in Nat
        BY <3>5, TotalType
      <4>4. Total(node, s \ {x}) = Total(other, s \cap U)
        BY <3>4, <4>1
      <4> QED BY <3>6, <4>2, <4>3, <4>4
    <3> QED BY <3>7, <3>8
  <2> QED BY <2>1
<1>3. Nat \subseteq K
  <2>1. \A k \in Nat : k \in K => k + 1 \in K
    BY <1>2
  <2> HIDE DEF K
  <2> QED BY <1>1, <2>1, Induct
<1>4. Cardinality(T) \in Nat /\ T \cap U = U /\ T \in SUBSET T
  BY FS_CardinalityType
<1> QED BY <1>3, <1>4

\* When one size changes the sum changes by as much.
LEMMA TotalChange ==
  ASSUME NEW node, NEW other, NEW T, IsFiniteSet(T), Sized(node, T), Sized(other, T), NEW a \in T,
         \A i \in T \ {a} : other[i].size = node[i].size
  PROVE  Total(other, T) = Total(node, T) - node[a].size + other[a].size
<1>1. Total(node, T) = Total(node, T \ {a}) + node[a].size
  BY TotalWithout
<1>2. Total(other, T) = Total(other, T \ {a}) + other[a].size
  BY TotalWithout
<1>3. IsFiniteSet(T \ {a}) /\ Sized(node, T \ {a}) /\ Sized(other, T \ {a})
  BY FS_RemoveElement DEF Sized
<1>4. Total(node, T \ {a}) = Total(other, T \ {a})
  <2> DEFINE R == T \ {a}
  <2>1. R \in SUBSET R /\ (\A i \in R : other[i].size = node[i].size) /\ \A i \in R \ R : node[i].size = 0
    OBVIOUS
  <2>2. IsFiniteSet(R) /\ Sized(node, R) /\ Sized(other, R)
    BY <1>3
  <2> HIDE DEF R
  <2>3. Total(node, R) = Total(other, R)
    BY <2>1, <2>2, TotalSame
  <2> QED BY <2>3 DEF R
<1>5. Total(node, T \ {a}) \in Nat /\ node[a].size \in Nat /\ other[a].size \in Nat
  BY <1>3, TotalType DEF Sized
<1> QED BY <1>1, <1>2, <1>4, <1>5

-----------------------------------------------------------------------------
(* Looking up.                                                             *)

Node == [kind : {"none", "file", "dir", "link"}, size : Nat, links : Nat, target : LinkTargets]
Memories == [at : [Places -> Ids \cup {0}], node : [Ids -> Node], used : Nat]

\* Names are clean, and the root is none of the paths.
LEMMA PlacesAre ==
  /\ Root \in Places /\ Paths \subseteq Places /\ Places \subseteq Clean /\ Root \in Clean
  /\ IsFiniteSet(Places) /\ IsFiniteSet(Ids) /\ 0 \notin Ids /\ Ids \subseteq Nat
  /\ \A p \in Paths : p # Root /\ parent(p) \in Places
  /\ \A p \in Places : p # Root => p \in Paths
<1>1. Root \in Clean
  BY EmptySeq DEF Root, Clean
<1>2. IsFiniteSet(Paths \cup {Root})
  BY MemoryAssumption, FS_AddElement
<1> QED BY <1>1, <1>2, MemoryAssumption DEF Places

\* A name that leaves the root is not clean.
LEMMA OutsideIs == Outside \notin Clean
<1> SUFFICES ASSUME Outside \in Clean PROVE FALSE
  OBVIOUS
<1>1. 1 \in 1 .. Len(Outside)
  BY DEF Outside
<1>2. Outside[1] \in Components
  BY <1>1, ElementOfSeq DEF Clean
<1> QED BY <1>2 DEF Outside, Components

\* What is at a name.
LEMMA NodeAt ==
  ASSUME NEW m \in Memories, NEW p
  PROVE  /\ nodeAt(m, p) \in Node
         /\ nodeAt(m, p).kind # "none" => p \in Places /\ m.at[p] \in Ids /\ nodeAt(m, p) = m.node[m.at[p]]
<1>1. Nothing \in Node /\ Nothing.kind = "none"
  <2>1. Root \in Clean
    BY PlacesAre
  <2>2. NoTarget \in LinkTargets
    BY <2>1 DEF NoTarget, Absolute, LinkTargets
  <2> HIDE DEF NoTarget
  <2> QED BY <2>2 DEF Nothing, Node
<1>2. CASE p \in Places /\ m.at[p] # 0
  <2>1. m.at[p] \in Ids
    BY <1>2 DEF Memories
  <2> QED BY <1>2, <2>1 DEF nodeAt, Memories
<1>3. CASE ~(p \in Places /\ m.at[p] # 0)
  BY <1>1, <1>3 DEF nodeAt
<1> QED BY <1>2, <1>3

\* A link leads to a clean name, or out.
LEMMA FollowType ==
  ASSUME NEW d \in Clean, NEW t \in LinkTargets
  PROVE  Follow(d, t) \in Clean \cup {Outside}
<1>1. t.to \in Clean /\ t.up \in Nat \cup {-1}
  BY DEF LinkTargets
<1>2. CASE t.up # -1 /\ ~(t.up > Len(d))
  <2>1. Len(d) - t.up \in 0 .. Len(d)
    BY <1>1, <1>2 DEF Clean
  <2>2. SubSeq(d, 1, Len(d) - t.up) \in Clean
    BY <2>1, BeginningIs DEF Clean
  <2>3. SubSeq(d, 1, Len(d) - t.up) \o t.to \in Clean
    BY <1>1, <2>2 DEF Clean
  <2> QED BY <1>2, <2>3 DEF Follow
<1>3. CASE t.up = -1 \/ t.up > Len(d)
  BY <1>1, <1>3 DEF Follow
<1> QED BY <1>2, <1>3

\* A set of positions has a first.
LEMMA FirstIs ==
  ASSUME NEW n \in Nat, NEW T, T \subseteq 1 .. n, T # {}
  PROVE  Sets!Min(T) \in T /\ \A i \in T : Sets!Min(T) <= i
<1>1. T \subseteq Nat
  OBVIOUS
<1>2. \E x \in T : \A y \in T : x <= y
  BY <1>1, MinimumExists
<1> QED BY <1>2 DEF Sets!Min

\* The kind of what is at a beginning of the name.
KindAt(m, name, i) == nodeAt(m, SubSeq(name, 1, i)).kind
Ended(err, name) == [err |-> err, at |-> name]
Led(m, name, k) ==
  LET next == Follow(parent(SubSeq(name, 1, k)), nodeAt(m, SubSeq(name, 1, k)).target)
  IN  IF next = Outside THEN Outside ELSE next \o SubSeq(name, k + 1, Len(name))

\* Where a walk stops is given by the kinds on its way.
LEMMA StopsAre ==
  ASSUME NEW m, NEW name, NEW final
  PROVE  Stops(m, name, final) =
           {i \in 1 .. Len(name) : \/ KindAt(m, name, i) = "none"
                                   \/ KindAt(m, name, i) = "link" /\ (final \/ i < Len(name))
                                   \/ KindAt(m, name, i) = "file" /\ i < Len(name)}
  BY DEF Stops, KindAt

\* A walk to its end.
LEMMA WalkToEnd ==
  ASSUME NEW m, NEW name \in Clean, NEW final, Stops(m, name, final) = {}
  PROVE  WalkTo(m, name, final) = Ended("ok", name)
  BY OutsideIs DEF WalkTo, Then, Ended

\* A walk that stops before.
LEMMA WalkToStop ==
  ASSUME NEW m \in Memories, NEW name \in Clean, NEW final, Stops(m, name, final) # {},
         NEW k, k = Sets!Min(Stops(m, name, final))
  PROVE  /\ k \in Stops(m, name, final) /\ k \in 1 .. Len(name)
         /\ \A i \in Stops(m, name, final) : k <= i
         /\ KindAt(m, name, k) = "none" => WalkTo(m, name, final) = Ended("notexist", SubSeq(name, 1, k))
         /\ KindAt(m, name, k) = "file" => WalkTo(m, name, final) = Ended("notdir", SubSeq(name, 1, k))
         /\ KindAt(m, name, k) = "link" => WalkTo(m, name, final) = Ended("follow", Led(m, name, k))
         /\ KindAt(m, name, k) \in {"none", "file", "link"}
<1>1. Stops(m, name, final) \subseteq 1 .. Len(name) /\ Len(name) \in Nat
  BY StopsAre DEF Clean
<1>2. k \in Stops(m, name, final) /\ \A i \in Stops(m, name, final) : k <= i
  BY <1>1, FirstIs
<1>3. KindAt(m, name, k) \in {"none", "file", "link"}
  BY <1>2, StopsAre
<1>4. Len(SubSeq(name, 1, k)) = k
  <2>1. k \in 0 .. Len(name)
    BY <1>1, <1>2
  <2> QED BY <2>1, BeginningIs DEF Clean
<1>5. name # Outside
  BY OutsideIs
<1>6. KindAt(m, name, k) = "none" => WalkTo(m, name, final) = Ended("notexist", SubSeq(name, 1, k))
  BY <1>5 DEF WalkTo, Then, KindAt, Ended
<1>7. KindAt(m, name, k) = "file" => WalkTo(m, name, final) = Ended("notdir", SubSeq(name, 1, k))
  BY <1>5 DEF WalkTo, Then, KindAt, Ended
<1>8. ASSUME KindAt(m, name, k) = "link" PROVE WalkTo(m, name, final) = Ended("follow", Led(m, name, k))
  <2> DEFINE here == SubSeq(name, 1, k)
             next == Follow(parent(here), nodeAt(m, here).target)
  <2>1. WalkTo(m, name, final) =
          [err |-> "follow", at |-> IF next = Outside THEN Outside
                                    ELSE next \o SubSeq(name, Len(here) + 1, Len(name))]
    BY <1>5, <1>8 DEF WalkTo, Then, KindAt
  <2> QED BY <1>4, <2>1 DEF Ended, Led
<1> QED BY <1>1, <1>2, <1>3, <1>6, <1>7, <1>8

Walks == [err : Outcomes, at : Clean \cup {Outside}]

\* A walk ends at its name, with an error, or leads to a clean name or out.
LEMMA WalkToType ==
  ASSUME NEW m \in Memories, NEW name \in Clean, NEW final \in BOOLEAN, NEW w, w = WalkTo(m, name, final)
  PROVE  /\ w \in Walks
         /\ w.err = "ok" => w.at = name /\ Stops(m, name, final) = {}
         /\ w.err = "follow" => w.at = Outside \/ w.at \in Clean
         /\ w.err = "follow" /\ ~final => w.at # Root
<1>1. CASE Stops(m, name, final) = {}
  <2>1. w = Ended("ok", name)
    BY <1>1, WalkToEnd
  <2> QED BY <1>1, <2>1 DEF Ended, Walks, Outcomes
<1>2. CASE Stops(m, name, final) # {}
  <2> DEFINE k == Sets!Min(Stops(m, name, final))
             here == SubSeq(name, 1, k)
  <2>1. /\ k \in Stops(m, name, final) /\ k \in 1 .. Len(name)
        /\ KindAt(m, name, k) = "none" => w = Ended("notexist", here)
        /\ KindAt(m, name, k) = "file" => w = Ended("notdir", here)
        /\ KindAt(m, name, k) = "link" => w = Ended("follow", Led(m, name, k))
        /\ KindAt(m, name, k) \in {"none", "file", "link"}
    <3> HIDE DEF k
    <3>1. k = Sets!Min(Stops(m, name, final))
      BY DEF k
    <3> QED BY <1>2, <3>1, WalkToStop
  <2> HIDE DEF k
  <2>2. Len(name) \in Nat /\ k \in 0 .. Len(name) /\ k - 1 \in 0 .. Len(name)
    BY <2>1 DEF Clean
  <2>3. here \in Clean /\ Len(here) = k
    BY <2>2, BeginningIs DEF Clean
  <2>4. CASE KindAt(m, name, k) # "link"
    <3> HIDE DEF here
    <3> QED BY <2>1, <2>3, <2>4 DEF Ended, Walks, Outcomes
  <2>5. CASE KindAt(m, name, k) = "link"
    <3> DEFINE next == Follow(parent(here), nodeAt(m, here).target)
               rest == SubSeq(name, k + 1, Len(name))
    <3>1. parent(here) \in Clean
      <4>1. here # <<>> 
        BY <2>1, <2>3
      <4>2. Up(here) \in Clean
        BY <2>3, <4>1, UpIs DEF Clean
      <4> QED BY <2>3, <4>1, <4>2 DEF parent, Up, Root
    <3>2. nodeAt(m, here).target \in LinkTargets
      BY NodeAt DEF Node
    <3>3. next \in Clean \cup {Outside}
      <4> HIDE DEF here
      <4> QED BY <3>1, <3>2, FollowType
    <3>4. rest \in Clean /\ Len(rest) = Len(name) - k
      <4>1. \A i \in k + 1 .. Len(name) : name[i] \in Components
        <5>1. \A i \in k + 1 .. Len(name) : i \in 1 .. Len(name)
          BY <2>2
        <5> QED BY <5>1, ElementOfSeq DEF Clean
      <4>2. k + 1 \in 1 .. Len(name) + 1 /\ Len(name) \in Nat
        BY <2>1, <2>2
      <4>3. /\ rest \in Seq(Components)
            /\ Len(rest) = IF k + 1 <= Len(name) THEN Len(name) - (k + 1) + 1 ELSE 0
        BY <4>1, <4>2, SubSeqProperties
      <4> HIDE DEF rest
      <4> QED BY <2>1, <2>2, <4>3 DEF Clean
    <3>5. w = Ended("follow", IF next = Outside THEN Outside ELSE next \o rest)
      BY <2>1, <2>5 DEF Led
    <3> HIDE DEF next, rest
    <3>6. w.err = "follow" /\ (w.at = Outside \/ (w.at = next \o rest /\ next \in Clean /\ w.at \in Clean))
      BY <3>3, <3>4, <3>5 DEF Ended, Clean
    <3>7. w \in Walks
      BY <3>5, <3>6 DEF Ended, Walks, Outcomes
    <3>8. ASSUME ~final PROVE w.at # Root
      <4>1. k < Len(name)
        BY <2>1, <2>5, <3>8, StopsAre
      <4>2. Len(rest) > 0
        BY <2>2, <3>4, <4>1
      <4>3. Outside # Root
        BY DEF Outside, Root
      <4>4. next \in Clean => Len(next \o rest) > 0
        <5> SUFFICES ASSUME next \in Clean PROVE Len(next \o rest) > 0
          OBVIOUS
        <5>1. Len(next \o rest) = Len(next) + Len(rest) /\ Len(next) \in Nat
          BY <3>4 DEF Clean
        <5> QED BY <4>2, <5>1, <2>2, <3>4
      <4>5. Len(Root) = 0
        BY DEF Root
      <4> QED BY <3>6, <4>3, <4>4, <4>5
    <3> QED BY <3>6, <3>7, <3>8
  <2> QED BY <2>4, <2>5
<1> QED BY <1>1, <1>2

\* What a walk to any name gives.
LEMMA WalksAre ==
  ASSUME NEW m \in Memories, NEW name \in Clean \cup {Outside}, NEW final \in BOOLEAN
  PROVE  WalkTo(m, name, final) \in Walks
<1>1. CASE name = Outside
  <2>1. WalkTo(m, name, final) = [err |-> "invalid", at |-> name]
    BY <1>1 DEF WalkTo
  <2> QED BY <2>1 DEF Walks, Outcomes
<1>2. CASE name \in Clean
  BY <1>2, WalkToType
<1> QED BY <1>1, <1>2

HopStep(w, m, final) ==
  [r \in Walks |-> IF r.err # "follow" THEN r ELSE w[WalkTo(m, r.at, final)]]
LastHop == [r \in Walks |-> IF r.err # "follow" THEN r ELSE [r EXCEPT !.err = "loop"]]

\* W follows links, up to LinkHops of them.
Hops(W, m, final) ==
  W = [h \in 0 .. LinkHops |->
         [r \in Walks |-> IF r.err # "follow" THEN r
                          ELSE IF h = 0 THEN [r EXCEPT !.err = "loop"]
                          ELSE W[h - 1][WalkTo(m, r.at, final)]]]

\* A lookup is what such a W makes of the first walk.
LEMMA ResolveIs ==
  ASSUME NEW m, NEW start, NEW final
  PROVE  resolveLocked(m, start, final) = (CHOOSE W : Hops(W, m, final))[LinkHops][WalkTo(m, start, final)]
  BY DEF resolveLocked, Hops, Walks

\* There is such a function.
LEMMA HopsExist ==
  ASSUME NEW m \in Memories, NEW final \in BOOLEAN
  PROVE  \E W : Hops(W, m, final)
<1> DEFINE S == [Walks -> Walks]
           step == [w \in S |-> HopStep(w, m, final)]
           F == [i \in 1 .. LinkHops |-> step]
<1>0. LinkHops \in Nat
  BY DEF LinkHops
<1>1. LastHop \in S
  BY DEF LastHop, Walks, Outcomes
<1>2. ASSUME NEW w \in S PROVE HopStep(w, m, final) \in S
  <2>1. ASSUME NEW r \in Walks PROVE WalkTo(m, r.at, final) \in Walks
    <3>1. r.at \in Clean \cup {Outside}
      BY DEF Walks
    <3> QED BY <3>1, WalksAre
  <2>2. \A r \in Walks : r.err # "follow" \/ w[WalkTo(m, r.at, final)] \in Walks
    BY <2>1
  <2> QED BY <2>2 DEF HopStep
<1>3. StepsOn(F, S, LinkHops)
  <2>1. step \in [S -> S]
    BY <1>2
  <2> HIDE DEF step, S
  <2> QED BY <2>1 DEF StepsOn
<1>4. PICK g : Follows(g, F, S, LastHop, LinkHops)
  <2> HIDE DEF F, S
  <2> QED BY <1>0, <1>1, <1>3, StepsReach
<1>5. g \in [0 .. LinkHops -> S] /\ g[0] = LastHop
  BY <1>4 DEF Follows
<1>6. ASSUME NEW i \in 1 .. LinkHops PROVE g[i] = HopStep(g[i - 1], m, final)
  <2>1. g[i] = F[i][g[i - 1]]
    <3> HIDE DEF F, S
    <3> QED BY <1>4 DEF Follows
  <2>2. i - 1 \in 0 .. LinkHops
    BY <1>0
  <2>3. g[i - 1] \in S
    <3> HIDE DEF S
    <3> QED BY <1>5, <2>2
  <2>4. step[g[i - 1]] = HopStep(g[i - 1], m, final)
    <3> HIDE DEF S
    <3> QED BY <2>3
  <2>5. F[i] = step
    <3> HIDE DEF step
    <3> QED OBVIOUS
  <2> HIDE DEF F, step, S
  <2> QED BY <2>1, <2>4, <2>5
<1> DEFINE G == [h \in 0 .. LinkHops |->
                   [r \in Walks |-> IF r.err # "follow" THEN r
                                    ELSE IF h = 0 THEN [r EXCEPT !.err = "loop"]
                                    ELSE g[h - 1][WalkTo(m, r.at, final)]]]
<1>7. ASSUME NEW h \in 0 .. LinkHops PROVE g[h] = G[h]
  <2>1. CASE h = 0
    BY <1>5, <2>1 DEF LastHop
  <2>2. CASE h # 0
    <3>1. h \in 1 .. LinkHops
      BY <1>0, <2>2
    <3>2. g[h] = HopStep(g[h - 1], m, final)
      BY <1>6, <3>1
    <3> QED BY <2>2, <3>2 DEF HopStep
  <2> QED BY <2>1, <2>2
<1>8. g = G
  <2>1. g = [h \in 0 .. LinkHops |-> g[h]]
    <3> HIDE DEF S
    <3> QED BY <1>5
  <2>2. G = [h \in 0 .. LinkHops |-> G[h]]
    OBVIOUS
  <2> HIDE DEF G
  <2> QED BY <1>7, <2>1, <2>2
<1>9. Hops(g, m, final)
  BY <1>8 DEF Hops
<1> QED BY <1>9

\* Looking up a name is following links from its walk.
LEMMA Resolved ==
  ASSUME NEW m \in Memories, NEW final \in BOOLEAN
  PROVE  \E W : /\ \A start : resolveLocked(m, start, final) = W[LinkHops][WalkTo(m, start, final)]
                /\ \A h \in 0 .. LinkHops, r \in Walks :
                     /\ r.err # "follow" => W[h][r] = r
                     /\ r.err = "follow" /\ h = 0 => W[h][r] = Ended("loop", r.at)
                     /\ r.err = "follow" /\ h # 0 => W[h][r] = W[h - 1][WalkTo(m, r.at, final)]
<1> DEFINE W == CHOOSE V : Hops(V, m, final)
<1>1. Hops(W, m, final)
  BY HopsExist
<1>2. \A start : resolveLocked(m, start, final) = W[LinkHops][WalkTo(m, start, final)]
  BY ResolveIs
<1> HIDE DEF W
<1>3. ASSUME NEW h \in 0 .. LinkHops, NEW r \in Walks
      PROVE  /\ r.err # "follow" => W[h][r] = r
             /\ r.err = "follow" /\ h = 0 => W[h][r] = Ended("loop", r.at)
             /\ r.err = "follow" /\ h # 0 => W[h][r] = W[h - 1][WalkTo(m, r.at, final)]
  <2>1. W[h] = [x \in Walks |-> IF x.err # "follow" THEN x
                                ELSE IF h = 0 THEN [x EXCEPT !.err = "loop"]
                                ELSE W[h - 1][WalkTo(m, x.at, final)]]
    BY <1>1 DEF Hops
  <2>2. W[h][r] = IF r.err # "follow" THEN r
                  ELSE IF h = 0 THEN [r EXCEPT !.err = "loop"]
                  ELSE W[h - 1][WalkTo(m, r.at, final)]
    BY <2>1
  <2>3. [r EXCEPT !.err = "loop"] = Ended("loop", r.at)
    BY DEF Ended, Walks
  <2> QED BY <2>2, <2>3
<1> QED BY <1>2, <1>3

\* A lookup ends with the walk to a name that links lead to, or after too many.
LEMMA ResolveReaches ==
  ASSUME NEW m \in Memories, NEW final \in BOOLEAN, NEW Q \in SUBSET Clean, NEW start \in Q,
         \A n \in Q : WalkTo(m, n, final).err = "follow" => WalkTo(m, n, final).at \in Q \cup {Outside},
         NEW r, r = resolveLocked(m, start, final)
  PROVE  /\ r \in Walks /\ r.err # "follow"
         /\ r.err \in {"ok", "notexist", "notdir"} => \E n \in Q : r = WalkTo(m, n, final)
<1> DEFINE End(x) == /\ x \in Walks /\ x.err # "follow"
                     /\ x.err \in {"ok", "notexist", "notdir"} => \E n \in Q : x = WalkTo(m, n, final)
<1>1. PICK W : /\ \A s : resolveLocked(m, s, final) = W[LinkHops][WalkTo(m, s, final)]
               /\ \A h \in 0 .. LinkHops, x \in Walks :
                    /\ x.err # "follow" => W[h][x] = x
                    /\ x.err = "follow" /\ h = 0 => W[h][x] = Ended("loop", x.at)
                    /\ x.err = "follow" /\ h # 0 => W[h][x] = W[h - 1][WalkTo(m, x.at, final)]
  BY Resolved
<1> DEFINE T == {h \in 0 .. LinkHops : \A n \in Q : End(W[h][WalkTo(m, n, final)])}
<1>2. LinkHops \in Nat
  BY DEF LinkHops
<1>3. ASSUME NEW n \in Q PROVE WalkTo(m, n, final) \in Walks
  BY WalksAre
<1>4. ASSUME NEW n \in Q, NEW h \in 0 .. LinkHops, WalkTo(m, n, final).err # "follow"
      PROVE End(W[h][WalkTo(m, n, final)])
  <2>1. W[h][WalkTo(m, n, final)] = WalkTo(m, n, final)
    BY <1>1, <1>3, <1>4
  <2> QED BY <1>3, <1>4, <2>1
<1>5. 0 \in T
  <2>1. ASSUME NEW n \in Q, WalkTo(m, n, final).err = "follow" PROVE End(W[0][WalkTo(m, n, final)])
    <3>1. 0 \in 0 .. LinkHops
      BY <1>2
    <3>2. W[0][WalkTo(m, n, final)] = Ended("loop", WalkTo(m, n, final).at)
      BY <1>1, <1>3, <2>1, <3>1
    <3>3. Ended("loop", WalkTo(m, n, final).at) \in Walks
      BY <1>3 DEF Ended, Walks, Outcomes
    <3>4. Ended("loop", WalkTo(m, n, final).at).err = "loop"
      BY DEF Ended
    <3> QED BY <3>2, <3>3, <3>4
  <2> QED BY <1>2, <1>4, <2>1
<1>6. ASSUME NEW h \in 0 .. LinkHops - 1, h \in T PROVE h + 1 \in T
  <2>1. h + 1 \in 0 .. LinkHops /\ h + 1 # 0 /\ (h + 1) - 1 = h /\ h \in 0 .. LinkHops
    BY <1>2
  <2>2. ASSUME NEW n \in Q, WalkTo(m, n, final).err = "follow" PROVE End(W[h + 1][WalkTo(m, n, final)])
    <3> DEFINE x == WalkTo(m, n, final)
    <3>1. W[h + 1][x] = W[h][WalkTo(m, x.at, final)]
      <4>0. x \in Walks /\ x.err = "follow"
        BY <1>3, <2>2
      <4> HIDE DEF x
      <4>1. W[h + 1][x] = W[(h + 1) - 1][WalkTo(m, x.at, final)]
        BY <1>1, <2>1, <4>0
      <4> QED BY <2>1, <4>1
    <3>2. CASE x.at \in Q
      <4>1. End(W[h][WalkTo(m, x.at, final)])
        BY <1>6, <3>2
      <4> HIDE DEF End
      <4> QED BY <3>1, <4>1
    <3>3. CASE x.at = Outside
      <4>1. WalkTo(m, x.at, final) = Ended("invalid", Outside)
        BY <3>3 DEF WalkTo, Ended
      <4>2. Ended("invalid", Outside) \in Walks /\ Ended("invalid", Outside).err = "invalid"
        BY DEF Ended, Walks, Outcomes
      <4>3. W[h][Ended("invalid", Outside)] = Ended("invalid", Outside)
        BY <1>1, <2>1, <4>2
      <4> QED BY <3>1, <4>1, <4>2, <4>3
    <3> QED BY <2>2, <3>2, <3>3
  <2> HIDE DEF End
  <2> QED BY <1>4, <2>1, <2>2
<1>7. LinkHops \in T
  <2>1. \A h \in 0 .. LinkHops - 1 : h \in T => h + 1 \in T
    BY <1>6
  <2>2. 0 .. LinkHops \subseteq T
    <3> HIDE DEF T
    <3> QED BY <1>2, <1>5, <2>1, InductTo
  <2> HIDE DEF T
  <2> QED BY <1>2, <2>2
<1>8. End(r)
  <2> HIDE DEF End
  <2> QED BY <1>1, <1>7
<1> QED BY <1>8

RootStands(m) == nodeAt(m, Root).kind = "dir"

\* A walk that gets to its end passes directories, and there is something there.
LEMMA WalkedThrough ==
  ASSUME NEW m \in Memories, RootStands(m), NEW name \in Clean, NEW final \in BOOLEAN,
         Stops(m, name, final) = {}
  PROVE  /\ nodeAt(m, name).kind \in {"file", "dir", "link"}
         /\ final => nodeAt(m, name).kind # "link"
         /\ \A i \in 1 .. Len(name) - 1 : KindAt(m, name, i) = "dir"
<1>1. Len(name) \in Nat
  BY DEF Clean
<1>2. ASSUME NEW i \in 1 .. Len(name)
      PROVE  /\ KindAt(m, name, i) # "none" /\ (final \/ i < Len(name) => KindAt(m, name, i) # "link")
             /\ (i < Len(name) => KindAt(m, name, i) # "file")
  BY StopsAre
<1>3. \A i \in 1 .. Len(name) : KindAt(m, name, i) \in {"none", "file", "dir", "link"}
  BY NodeAt DEF KindAt, Node
<1>4. ASSUME NEW i \in 1 .. Len(name) - 1 PROVE KindAt(m, name, i) = "dir"
  <2>1. i \in 1 .. Len(name) /\ i < Len(name)
    BY <1>1
  <2> QED BY <1>2, <1>3, <2>1
<1>5. CASE name = Root
  BY <1>4, <1>5 DEF RootStands
<1>6. CASE name # Root
  <2>1. Len(name) \in 1 .. Len(name)
    BY <1>1, <1>6, EmptySeq DEF Clean, Root
  <2>2. SubSeq(name, 1, Len(name)) = name
    BY SubSeqFull DEF Clean
  <2>3. KindAt(m, name, Len(name)) = nodeAt(m, name).kind
    BY <2>2 DEF KindAt
  <2> QED BY <1>2, <1>3, <1>4, <2>1, <2>3
<1> QED BY <1>5, <1>6

\* What a lookup finds is there, at a place.
LEMMA Lookup ==
  ASSUME NEW m \in Memories, RootStands(m), NEW name \in Clean, NEW final \in BOOLEAN,
         NEW r, r = resolveLocked(m, name, final)
  PROVE  /\ r \in Walks /\ r.err # "follow"
         /\ r.err = "ok" =>
              /\ r.at \in Places /\ m.at[r.at] \in Ids /\ nodeAt(m, r.at) = m.node[m.at[r.at]]
              /\ nodeAt(m, r.at).kind \in {"file", "dir", "link"}
              /\ final => nodeAt(m, r.at).kind # "link"
              /\ \A i \in 1 .. Len(r.at) - 1 : KindAt(m, r.at, i) = "dir"
              /\ ~final /\ name # Root => r.at # Root
<1> DEFINE Q == {n \in Clean : ~final /\ name # Root => n # Root}
<1>1. Q \in SUBSET Clean /\ name \in Q
  OBVIOUS
<1>2. ASSUME NEW n \in Q, WalkTo(m, n, final).err = "follow" PROVE WalkTo(m, n, final).at \in Q \cup {Outside}
  <2> DEFINE w == WalkTo(m, n, final)
  <2>1. n \in Clean
    OBVIOUS
  <2>2. (w.at = Outside \/ w.at \in Clean) /\ (~final => w.at # Root)
    <3>1. w = WalkTo(m, n, final) /\ w.err = "follow"
      BY <1>2
    <3> HIDE DEF w
    <3> QED BY <2>1, <3>1, WalkToType
  <2> QED BY <2>2
<1>3. /\ r \in Walks /\ r.err # "follow"
      /\ r.err \in {"ok", "notexist", "notdir"} => \E n \in Q : r = WalkTo(m, n, final)
  <2> HIDE DEF Q
  <2> QED BY <1>1, <1>2, ResolveReaches
<1>4. ASSUME r.err = "ok"
      PROVE  /\ r.at \in Places /\ m.at[r.at] \in Ids /\ nodeAt(m, r.at) = m.node[m.at[r.at]]
             /\ nodeAt(m, r.at).kind \in {"file", "dir", "link"}
             /\ final => nodeAt(m, r.at).kind # "link"
             /\ \A i \in 1 .. Len(r.at) - 1 : KindAt(m, r.at, i) = "dir"
             /\ ~final /\ name # Root => r.at # Root
  <2>1. PICK n \in Q : r = WalkTo(m, n, final)
    BY <1>3, <1>4
  <2>2. n \in Clean /\ (~final /\ name # Root => n # Root)
    OBVIOUS
  <2>3. r.at = n /\ Stops(m, n, final) = {}
    BY <1>4, <2>1, <2>2, WalkToType
  <2>4. /\ nodeAt(m, n).kind \in {"file", "dir", "link"}
        /\ final => nodeAt(m, n).kind # "link"
        /\ \A i \in 1 .. Len(n) - 1 : KindAt(m, n, i) = "dir"
    BY <2>2, <2>3, WalkedThrough
  <2>5. n \in Places /\ m.at[n] \in Ids /\ nodeAt(m, n) = m.node[m.at[n]]
    BY <2>4, NodeAt
  <2> QED BY <2>2, <2>3, <2>4, <2>5
<1> QED BY <1>3, <1>4

\* A name is what it is in, and its last component.
LEMMA NameIs ==
  ASSUME NEW name \in Clean, name # Root
  PROVE  /\ parent(name) \in Clean /\ Len(name) \in Nat \ {0} /\ Len(parent(name)) = Len(name) - 1
         /\ name[Len(name)] \in Components /\ name = Append(parent(name), name[Len(name)])
         /\ \A i \in 1 .. Len(name) - 1 : SubSeq(parent(name), 1, i) = SubSeq(name, 1, i)
         /\ \A i \in 1 .. Len(name) - 1 : parent(name)[i] = name[i]
<1> DEFINE p == Up(name)
<1>1. Len(name) \in Nat \ {0} /\ p \in Clean /\ Len(p) = Len(name) - 1 /\ \A i \in 1 .. Len(name) - 1 : p[i] = name[i]
  BY UpIs DEF Clean, Root
<1>2. parent(name) = p
  BY DEF parent, Up
<1>3. name[Len(name)] \in Components
  BY <1>1, ElementOfSeq DEF Clean
<1> HIDE DEF p
<1>4. name = Append(p, name[Len(name)])
  <2> DEFINE a == Append(p, name[Len(name)])
  <2>1. a \in Seq(Components) /\ Len(a) = Len(p) + 1 /\ a[Len(p) + 1] = name[Len(name)]
        /\ \A i \in 1 .. Len(p) : a[i] = p[i]
    BY <1>1, <1>3 DEF Clean
  <2>2. Len(a) = Len(name)
    BY <1>1, <2>1
  <2>3. ASSUME NEW i \in 1 .. Len(name) PROVE name[i] = a[i]
    <3>1. CASE i = Len(name)
      <4>1. i = Len(p) + 1
        BY <1>1, <3>1
      <4> HIDE DEF a
      <4> QED BY <2>1, <3>1, <4>1
    <3>2. CASE i # Len(name)
      <4>1. i \in 1 .. Len(p) /\ i \in 1 .. Len(name) - 1
        BY <1>1, <3>2
      <4> HIDE DEF a
      <4> QED BY <1>1, <2>1, <4>1
    <3> QED BY <3>1, <3>2
  <2> HIDE DEF a
  <2> QED BY <2>1, <2>2, <2>3, SeqEqual DEF Clean, a
<1>5. ASSUME NEW i \in 1 .. Len(name) - 1 PROVE SubSeq(p, 1, i) = SubSeq(name, 1, i)
  <2> DEFINE s == SubSeq(p, 1, i)
             t == SubSeq(name, 1, i)
  <2>1. i \in 0 .. Len(p) /\ i \in 0 .. Len(name)
    BY <1>1
  <2>2. s \in Clean /\ Len(s) = i /\ \A j \in 1 .. i : s[j] = p[j]
    BY <1>1, <2>1, BeginningIs DEF Clean
  <2>3. t \in Clean /\ Len(t) = i /\ \A j \in 1 .. i : t[j] = name[j]
    BY <2>1, BeginningIs DEF Clean
  <2>4. \A j \in 1 .. i : j \in 1 .. Len(name) - 1
    OBVIOUS
  <2> HIDE DEF s, t
  <2>5. \A j \in 1 .. Len(s) : s[j] = t[j]
    BY <1>1, <2>2, <2>3, <2>4
  <2> QED BY <2>2, <2>3, <2>5, SeqEqual DEF Clean
<1> QED BY <1>1, <1>2, <1>3, <1>4, <1>5

\* One component more.
LEMMA AppendIs ==
  ASSUME NEW d \in Clean, NEW c \in Components
  PROVE  LET n == Append(d, c) IN
         /\ n \in Clean /\ n # Root /\ Len(n) = Len(d) + 1 /\ Len(d) \in Nat /\ n[Len(n)] = c
         /\ parent(n) = d /\ \A i \in 1 .. Len(d) : n[i] = d[i]
<1> DEFINE n == Append(d, c)
<1>1. n \in Clean /\ Len(n) = Len(d) + 1 /\ Len(d) \in Nat /\ n[Len(n)] = c /\ \A i \in 1 .. Len(d) : n[i] = d[i]
  BY DEF Clean
<1>2. n # Root
  BY <1>1 DEF Root
<1> HIDE DEF n
<1>3. parent(n) \in Clean /\ Len(parent(n)) = Len(d) /\ \A i \in 1 .. Len(d) : parent(n)[i] = n[i]
  <2>1. /\ parent(n) \in Clean /\ Len(parent(n)) = Len(n) - 1
        /\ \A i \in 1 .. Len(n) - 1 : parent(n)[i] = n[i]
    BY <1>1, <1>2, NameIs
  <2>2. Len(n) - 1 = Len(d)
    BY <1>1
  <2> QED BY <2>1, <2>2
<1>4. parent(n) = d
  <2> DEFINE p == parent(n)
  <2> HIDE DEF p
  <2>1. p \in Clean /\ Len(p) = Len(d) /\ \A i \in 1 .. Len(d) : p[i] = d[i]
    BY <1>1, <1>3 DEF p
  <2>2. p = d
    BY <2>1, SeqEqual DEF Clean
  <2> QED BY <2>2 DEF p
<1> QED BY <1>1, <1>2, <1>4 DEF n

\* A walk to the directory of a name stops where the walk to the name does, but
\* for a file at its end.
LEMMA ParentStops ==
  ASSUME NEW m, NEW name \in Clean, name # Root, NEW final
  PROVE  /\ \A i \in Stops(m, parent(name), TRUE) : i \in Stops(m, name, final)
         /\ \A i \in Stops(m, name, final) : i < Len(name) - 1 => i \in Stops(m, parent(name), TRUE)
<1> DEFINE p == parent(name)
<1>1. Len(name) \in Nat \ {0} /\ Len(p) = Len(name) - 1
      /\ \A i \in 1 .. Len(name) - 1 : SubSeq(p, 1, i) = SubSeq(name, 1, i)
  BY NameIs
<1> HIDE DEF p
<1>2. \A i \in 1 .. Len(p) : KindAt(m, p, i) = KindAt(m, name, i)
  BY <1>1 DEF KindAt
<1>3. \A i \in 1 .. Len(p) : i \in 1 .. Len(name) /\ i < Len(name)
  BY <1>1
<1>4. ASSUME NEW i \in Stops(m, p, TRUE) PROVE i \in Stops(m, name, final)
  BY <1>2, <1>3, <1>4, StopsAre
<1>5. ASSUME NEW i \in Stops(m, name, final), i < Len(p) PROVE i \in Stops(m, p, TRUE)
  <2>1. i \in 1 .. Len(name) /\ i \in 1 .. Len(p)
    BY <1>1, <1>5, StopsAre
  <2> QED BY <1>2, <1>3, <1>5, <2>1, StopsAre
<1>6. \A i \in Stops(m, name, final) : i < Len(p) => i \in Stops(m, p, TRUE)
  BY <1>5
<1> QED BY <1>1, <1>4, <1>6 DEF p

\* Where a walk to the directory of a name follows a link, the walk to the name
\* does, and the last component stays.
LEMMA ParentFollows ==
  ASSUME NEW m \in Memories, NEW name \in Clean, name # Root, NEW final \in BOOLEAN,
         WalkTo(m, parent(name), TRUE).err = "follow"
  PROVE  LET w == WalkTo(m, parent(name), TRUE)
             v == WalkTo(m, name, final)
         IN  /\ v.err = "follow"
             /\ w.at = Outside => v.at = Outside
             /\ w.at # Outside => w.at \in Clean /\ v.at = Append(w.at, name[Len(name)])
<1> DEFINE w == WalkTo(m, parent(name), TRUE)
           v == WalkTo(m, name, final)
           p == parent(name)
           c == name[Len(name)]
           k == Sets!Min(Stops(m, p, TRUE))
           j == Sets!Min(Stops(m, name, final))
<1>1. p \in Clean /\ Len(name) \in Nat \ {0} /\ Len(p) = Len(name) - 1 /\ c \in Components
      /\ (\A i \in 1 .. Len(name) - 1 : SubSeq(p, 1, i) = SubSeq(name, 1, i))
      /\ \A i \in 1 .. Len(name) - 1 : p[i] = name[i]
  BY NameIs
<1>2. /\ \A i \in Stops(m, p, TRUE) : i \in Stops(m, name, final)
      /\ \A i \in Stops(m, name, final) : i < Len(name) - 1 => i \in Stops(m, p, TRUE)
  BY ParentStops
<1>3. w = WalkTo(m, p, TRUE) /\ w.err = "follow" /\ v = WalkTo(m, name, final)
  OBVIOUS
<1> HIDE DEF p, c, w, v
<1>4. Stops(m, p, TRUE) # {}
  <2> SUFFICES ASSUME Stops(m, p, TRUE) = {} PROVE FALSE
    OBVIOUS
  <2>1. w = Ended("ok", p)
    BY <1>1, <1>3, WalkToEnd
  <2>2. w.err = "follow"
    BY <1>3
  <2>3. Ended("ok", p).err = "ok"
    BY DEF Ended
  <2> QED BY <2>1, <2>2, <2>3
<1>5. /\ k \in Stops(m, p, TRUE) /\ k \in 1 .. Len(p)
      /\ \A i \in Stops(m, p, TRUE) : k <= i
      /\ KindAt(m, p, k) = "none" => w = Ended("notexist", SubSeq(p, 1, k))
      /\ KindAt(m, p, k) = "file" => w = Ended("notdir", SubSeq(p, 1, k))
      /\ KindAt(m, p, k) = "link" => w = Ended("follow", Led(m, p, k))
      /\ KindAt(m, p, k) \in {"none", "file", "link"}
  <2> HIDE DEF k
  <2>1. k = Sets!Min(Stops(m, p, TRUE))
    BY DEF k
  <2> QED BY <1>1, <1>3, <1>4, <2>1, WalkToStop
<1>6. Stops(m, name, final) # {}
  BY <1>2, <1>4
<1>7. /\ j \in Stops(m, name, final) /\ j \in 1 .. Len(name)
      /\ \A i \in Stops(m, name, final) : j <= i
      /\ KindAt(m, name, j) = "link" => v = Ended("follow", Led(m, name, j))
  <2> HIDE DEF j
  <2>1. j = Sets!Min(Stops(m, name, final))
    BY DEF j
  <2> QED BY <1>3, <1>6, <2>1, WalkToStop
<1> HIDE DEF k, j
<1>8. j = k
  <2>1. j <= k
    BY <1>2, <1>5, <1>7
  <2>2. j < Len(name) - 1 => k <= j
    BY <1>2, <1>5, <1>7
  <2>3. k <= Len(name) - 1 /\ j \in Nat /\ k \in Nat
    BY <1>1, <1>5, <1>7
  <2> QED BY <1>1, <2>1, <2>2, <2>3
<1>9. KindAt(m, p, k) = "link" /\ w = Ended("follow", Led(m, p, k))
  <2>1. w.err = "follow"
    BY <1>3
  <2>2. Ended("notexist", SubSeq(p, 1, k)).err = "notexist" /\ Ended("notdir", SubSeq(p, 1, k)).err = "notdir"
    BY DEF Ended
  <2> QED BY <1>5, <2>1, <2>2
<1>10. SubSeq(p, 1, k) = SubSeq(name, 1, k)
  BY <1>1, <1>5
<1>11. v = Ended("follow", Led(m, name, k))
  BY <1>7, <1>8, <1>9, <1>10 DEF KindAt
<1> DEFINE next == Follow(parent(SubSeq(name, 1, k)), nodeAt(m, SubSeq(name, 1, k)).target)
           r == SubSeq(p, k + 1, Len(p))
           s == SubSeq(name, k + 1, Len(name))
<1>12. /\ w.at = IF next = Outside THEN Outside ELSE next \o r
       /\ v.at = IF next = Outside THEN Outside ELSE next \o s
  <2>1. w.at = Led(m, p, k) /\ v.at = Led(m, name, k)
    <3>1. Ended("follow", Led(m, p, k)).at = Led(m, p, k) /\ Ended("follow", Led(m, name, k)).at = Led(m, name, k)
      BY DEF Ended
    <3> QED BY <1>9, <1>11, <3>1
  <2>2. Led(m, p, k) = IF next = Outside THEN Outside ELSE next \o r
    BY <1>10 DEF Led
  <2>3. Led(m, name, k) = IF next = Outside THEN Outside ELSE next \o s
    BY DEF Led
  <2> QED BY <2>1, <2>2, <2>3
<1>13. next \in Clean \cup {Outside}
  <2> DEFINE here == SubSeq(name, 1, k)
  <2>1. k \in 0 .. Len(name) /\ k # 0
    BY <1>1, <1>5
  <2>2. here \in Clean /\ Len(here) = k
    BY <2>1, BeginningIs DEF Clean
  <2>3. here # Root
    BY <2>1, <2>2 DEF Root
  <2> HIDE DEF here
  <2>4. parent(here) \in Clean
    BY <2>2, <2>3, NameIs
  <2>5. nodeAt(m, here).target \in LinkTargets
    BY NodeAt DEF Node
  <2>6. Follow(parent(here), nodeAt(m, here).target) \in Clean \cup {Outside}
    BY <2>4, <2>5, FollowType
  <2> QED BY <2>6 DEF here
<1>14. /\ r \in Clean /\ Len(r) = Len(p) - k /\ \A i \in 1 .. Len(p) - k : r[i] = p[k + i]
       /\ s \in Clean /\ Len(s) = Len(name) - k /\ \A i \in 1 .. Len(name) - k : s[i] = name[k + i]
  <2>1. k + 1 \in 1 .. Len(p) + 1 /\ k + 1 \in 1 .. Len(name) + 1 /\ Len(p) \in Nat /\ k \in Nat /\ k <= Len(p)
    BY <1>1, <1>5
  <2>2. (\A i \in k + 1 .. Len(p) : p[i] \in Components) /\ \A i \in k + 1 .. Len(name) : name[i] \in Components
    <3>1. (\A i \in k + 1 .. Len(p) : i \in 1 .. Len(p)) /\ \A i \in k + 1 .. Len(name) : i \in 1 .. Len(name)
      BY <2>1
    <3> QED BY <1>1, <3>1, ElementOfSeq DEF Clean
  <2>3. /\ r \in Seq(Components)
        /\ Len(r) = IF k + 1 <= Len(p) THEN Len(p) - (k + 1) + 1 ELSE 0
        /\ \A i \in 1 .. Len(p) - (k + 1) + 1 : r[i] = p[k + 1 + i - 1]
    BY <2>1, <2>2, SubSeqProperties
  <2>4. /\ s \in Seq(Components)
        /\ Len(s) = IF k + 1 <= Len(name) THEN Len(name) - (k + 1) + 1 ELSE 0
        /\ \A i \in 1 .. Len(name) - (k + 1) + 1 : s[i] = name[k + 1 + i - 1]
    BY <1>1, <2>1, <2>2, SubSeqProperties
  <2> HIDE DEF r, s
  <2>5. Len(p) - (k + 1) + 1 = Len(p) - k /\ Len(name) - (k + 1) + 1 = Len(name) - k
        /\ \A i \in Nat : k + 1 + i - 1 = k + i
    BY <1>1, <2>1
  <2>6. \A i \in 1 .. Len(p) - k : r[i] = p[k + i]
    <3>1. ASSUME NEW i \in 1 .. Len(p) - k PROVE r[i] = p[k + i]
      <4>1. i \in 1 .. Len(p) - (k + 1) + 1 /\ i \in Nat
        BY <2>1
      <4>2. r[i] = p[k + 1 + i - 1]
        BY <2>3, <4>1
      <4> QED BY <2>5, <4>1, <4>2
    <3> QED BY <3>1
  <2>7. \A i \in 1 .. Len(name) - k : s[i] = name[k + i]
    BY <1>1, <2>1, <2>4, <2>5
  <2> QED BY <1>1, <2>1, <2>3, <2>4, <2>5, <2>6, <2>7 DEF Clean
<1>15. s = Append(r, c)
  <2>1. Len(p) - k \in Nat /\ Len(name) - k = Len(p) - k + 1
    BY <1>1, <1>5
  <2> DEFINE a == Append(r, c)
  <2> HIDE DEF r, s
  <2>2. a \in Clean /\ Len(a) = Len(r) + 1 /\ a[Len(a)] = c /\ \A i \in 1 .. Len(r) : a[i] = r[i]
    <3>2. r \in Clean /\ c \in Components
      BY <1>1, <1>14
    <3> QED BY <3>2, AppendIs
  <2> HIDE DEF a
  <2>0. k \in Nat /\ Len(p) \in Nat /\ Len(name) = Len(p) + 1 /\ Len(r) = Len(p) - k /\ Len(s) = Len(p) - k + 1
        /\ Len(a) = Len(p) - k + 1 /\ Len(name) - k = Len(p) - k + 1 /\ Len(p) - k \in Nat
    BY <1>1, <1>5, <1>14, <2>1, <2>2
  <2>3. ASSUME NEW i \in 1 .. Len(s) PROVE s[i] = a[i]
    <3>1. CASE i = Len(s)
      <4>1. s[i] = name[k + i] /\ k + i = Len(name) /\ i = Len(a)
        <5>1. i = Len(p) - k + 1 /\ i \in 1 .. Len(name) - k
          BY <2>0, <3>1
        <5>2. k + i = Len(name) /\ i = Len(a)
          BY <2>0, <5>1
        <5>3. s[i] = name[k + i]
          BY <1>14, <5>1
        <5> QED BY <5>2, <5>3
      <4> QED BY <2>2, <4>1 DEF c
    <3>2. CASE i # Len(s)
      <4>1. i \in 1 .. Len(p) - k /\ i \in 1 .. Len(name) - k /\ k + i \in 1 .. Len(name) - 1
        <5>1. i \in 1 .. Len(p) - k + 1 /\ i # Len(p) - k + 1
          BY <2>0, <3>2
        <5> QED BY <2>0, <5>1
      <4> QED BY <1>1, <1>14, <2>2, <4>1
    <3> QED BY <3>1, <3>2
  <2>4. s = a
    BY <1>14, <2>1, <2>2, <2>3, SeqEqual DEF Clean
  <2> QED BY <2>4 DEF a
<1> HIDE DEF next, r, s
<1>16. next \in Clean => next \o r \in Clean /\ next \o s = Append(next \o r, c)
  BY <1>1, <1>14, <1>15 DEF Clean
<1>17. v.err = "follow"
  BY <1>11 DEF Ended
<1> QED BY <1>12, <1>13, <1>16, <1>17, OutsideIs DEF c, w, v

\* Where the directory of a name is found, and something is in it under the last
\* component, the name is found.
LEMMA FoundBelow ==
  ASSUME NEW m \in Memories, RootStands(m), NEW name \in Clean, name # Root, NEW final \in BOOLEAN,
         NEW up, up = Open(m, parent(name)), up.err = "ok", nodeAt(m, up.at).kind = "dir",
         LET kind == nodeAt(m, Append(up.at, name[Len(name)])).kind
         IN  kind \in {"file", "dir"} \/ (kind = "link" /\ ~final)
  PROVE  resolveLocked(m, name, final).err = "ok"
<1> DEFINE There(q) == LET kind == nodeAt(m, q).kind IN kind \in {"file", "dir"} \/ (kind = "link" /\ ~final)
<1>1. PICK W : /\ \A s : resolveLocked(m, s, final) = W[LinkHops][WalkTo(m, s, final)]
               /\ \A h \in 0 .. LinkHops, x \in Walks :
                    /\ x.err # "follow" => W[h][x] = x
                    /\ x.err = "follow" /\ h = 0 => W[h][x] = Ended("loop", x.at)
                    /\ x.err = "follow" /\ h # 0 => W[h][x] = W[h - 1][WalkTo(m, x.at, final)]
  BY Resolved
<1>2. PICK V : /\ \A s : resolveLocked(m, s, TRUE) = V[LinkHops][WalkTo(m, s, TRUE)]
               /\ \A h \in 0 .. LinkHops, x \in Walks :
                    /\ x.err # "follow" => V[h][x] = x
                    /\ x.err = "follow" /\ h = 0 => V[h][x] = Ended("loop", x.at)
                    /\ x.err = "follow" /\ h # 0 => V[h][x] = V[h - 1][WalkTo(m, x.at, TRUE)]
  BY Resolved
<1> DEFINE Finds(h, n) ==
             LET u == V[h][WalkTo(m, parent(n), TRUE)]
             IN  u.err = "ok" /\ nodeAt(m, u.at).kind = "dir" /\ There(Append(u.at, n[Len(n)]))
                   => W[h][WalkTo(m, n, final)].err = "ok"
           T == {h \in 0 .. LinkHops : \A n \in Clean : n # Root => Finds(h, n)}
<1>3. LinkHops \in Nat
  BY DEF LinkHops
\* Where no link is followed the two walks are one and a step.
<1>4. ASSUME NEW h \in 0 .. LinkHops, NEW n \in Clean, n # Root, WalkTo(m, parent(n), TRUE).err # "follow"
      PROVE  Finds(h, n)
  <2> DEFINE p == parent(n)
             x == WalkTo(m, p, TRUE)
             c == n[Len(n)]
  <2>1. p \in Clean /\ n = Append(p, c) /\ Len(n) \in Nat \ {0} /\ Len(p) = Len(n) - 1
        /\ \A i \in 1 .. Len(n) - 1 : SubSeq(p, 1, i) = SubSeq(n, 1, i)
    BY <1>4, NameIs
  <2> HIDE DEF c, p
  <2>2. x \in Walks
    BY <2>1, WalksAre
  <2>3. V[h][x] = x
    <3> HIDE DEF x
    <3>1. x.err # "follow"
      BY <1>4 DEF x, p
    <3> QED BY <1>2, <2>2, <3>1
  <2> SUFFICES ASSUME x.err = "ok", nodeAt(m, x.at).kind = "dir", There(Append(x.at, c))
      PROVE  W[h][WalkTo(m, n, final)].err = "ok"
    <3>1. Finds(h, n) <=> (V[h][x].err = "ok" /\ nodeAt(m, V[h][x].at).kind = "dir" /\ There(Append(V[h][x].at, c))
                              => W[h][WalkTo(m, n, final)].err = "ok")
      BY DEF p, c
    <3> HIDE DEF There, Finds, x
    <3> QED BY <2>3, <3>1
  <2>4. x.at = p /\ Stops(m, p, TRUE) = {}
    <3>1. x = WalkTo(m, p, TRUE)
      OBVIOUS
    <3> HIDE DEF x
    <3> QED BY <2>1, <3>1, WalkToType
  <2>5. nodeAt(m, p).kind = "dir" /\ There(n)
    BY <2>1, <2>4
  <2>6. \A i \in 1 .. Len(p) - 1 : KindAt(m, p, i) = "dir"
    BY <2>1, <2>4, WalkedThrough
  <2>7. ASSUME NEW i \in 1 .. Len(n) - 1 PROVE KindAt(m, n, i) = "dir"
    <3>1. SubSeq(p, 1, i) = SubSeq(n, 1, i)
      BY <2>1
    <3>2. KindAt(m, n, i) = KindAt(m, p, i)
      BY <3>1 DEF KindAt
    <3>3. CASE i = Len(p)
      <4>1. SubSeq(p, 1, Len(p)) = p
        BY <2>1, SubSeqFull DEF Clean
      <4>2. KindAt(m, p, i) = nodeAt(m, p).kind
        BY <3>3, <4>1 DEF KindAt
      <4> QED BY <2>5, <3>2, <4>2
    <3>4. CASE i # Len(p)
      <4>1. i \in 1 .. Len(p) - 1
        BY <2>1, <3>4
      <4> QED BY <2>6, <3>2, <4>1
    <3> QED BY <3>3, <3>4
  <2>8. KindAt(m, n, Len(n)) = nodeAt(m, n).kind
    <3>1. SubSeq(n, 1, Len(n)) = n
      BY SubSeqFull DEF Clean
    <3> QED BY <3>1 DEF KindAt
  <2>9. Stops(m, n, final) = {}
    <3> SUFFICES ASSUME NEW i \in Stops(m, n, final) PROVE FALSE
      OBVIOUS
    <3>1. i \in 1 .. Len(n)
      BY StopsAre
    <3>2. CASE i < Len(n)
      <4>1. KindAt(m, n, i) = "dir"
        BY <2>1, <2>7, <3>1, <3>2
      <4> QED BY <4>1, StopsAre
    <3>3. CASE ~(i < Len(n))
      <4>1. i = Len(n)
        BY <2>1, <3>1, <3>3
      <4> QED BY <2>5, <2>8, <3>3, <4>1, StopsAre
    <3> QED BY <3>2, <3>3
  <2>10. WalkTo(m, n, final) = Ended("ok", n)
    BY <2>9, WalkToEnd
  <2>11. Ended("ok", n) \in Walks /\ Ended("ok", n).err = "ok"
    BY DEF Ended, Walks, Outcomes
  <2>12. W[h][Ended("ok", n)] = Ended("ok", n)
    BY <1>1, <2>11
  <2> QED BY <2>10, <2>11, <2>12
<1>5. 0 \in T
  <2>1. 0 \in 0 .. LinkHops
    BY <1>3
  <2>2. ASSUME NEW n \in Clean, n # Root, WalkTo(m, parent(n), TRUE).err = "follow" PROVE Finds(0, n)
    <3> DEFINE x == WalkTo(m, parent(n), TRUE)
    <3>1. x \in Walks
      <4>1. parent(n) \in Clean
        BY <2>2, NameIs
      <4> QED BY <4>1, WalksAre
    <3>2. V[0][x] = Ended("loop", x.at)
      <4> HIDE DEF x
      <4>1. x.err = "follow"
        BY <2>2 DEF x
      <4> QED BY <1>2, <2>1, <3>1, <4>1
    <3>3. V[0][x].err # "ok"
      BY <3>2 DEF Ended
    <3> QED BY <3>3
  <2> HIDE DEF Finds
  <2> QED BY <1>4, <2>1, <2>2
<1>6. ASSUME NEW h \in 0 .. LinkHops - 1, h \in T PROVE h + 1 \in T
  <2>1. h + 1 \in 0 .. LinkHops /\ h + 1 # 0 /\ (h + 1) - 1 = h /\ h \in 0 .. LinkHops
    BY <1>3
  <2>2. ASSUME NEW n \in Clean, n # Root, WalkTo(m, parent(n), TRUE).err = "follow" PROVE Finds(h + 1, n)
    <3> DEFINE x == WalkTo(m, parent(n), TRUE)
               y == WalkTo(m, n, final)
               c == n[Len(n)]
    <3>1. x \in Walks /\ y \in Walks /\ c \in Components
      BY <2>2, NameIs, WalksAre
    <3>2. /\ y.err = "follow"
          /\ x.at = Outside => y.at = Outside
          /\ x.at # Outside => x.at \in Clean /\ y.at = Append(x.at, c)
      BY <2>2, ParentFollows
    <3>3. x.err = "follow"
      BY <2>2
    <3>4. Finds(h + 1, n) <=>
            (V[h + 1][x].err = "ok" /\ nodeAt(m, V[h + 1][x].at).kind = "dir" /\ There(Append(V[h + 1][x].at, c))
               => W[h + 1][y].err = "ok")
      OBVIOUS
    <3> HIDE DEF x, y, c
    <3>5. V[h + 1][x] = V[h][WalkTo(m, x.at, TRUE)] /\ W[h + 1][y] = W[h][WalkTo(m, y.at, final)]
      <4>1. V[h + 1][x] = V[(h + 1) - 1][WalkTo(m, x.at, TRUE)]
        BY <1>2, <2>1, <3>1, <3>3
      <4>2. W[h + 1][y] = W[(h + 1) - 1][WalkTo(m, y.at, final)]
        BY <1>1, <2>1, <3>1, <3>2
      <4> QED BY <2>1, <4>1, <4>2
    <3>6. CASE x.at = Outside
      <4>1. WalkTo(m, x.at, TRUE) = Ended("invalid", Outside)
        BY <3>6 DEF WalkTo, Ended
      <4>2. Ended("invalid", Outside) \in Walks /\ Ended("invalid", Outside).err = "invalid"
        BY DEF Ended, Walks, Outcomes
      <4>3. V[h][Ended("invalid", Outside)] = Ended("invalid", Outside)
        BY <1>2, <2>1, <4>2
      <4>4. V[h + 1][x].err # "ok"
        BY <3>5, <4>1, <4>2, <4>3
      <4> HIDE DEF Finds
      <4> QED BY <3>4, <4>4
    <3>7. CASE x.at # Outside
      <4> DEFINE z == Append(x.at, c)
      <4>1. z \in Clean /\ z # Root /\ parent(z) = x.at /\ z[Len(z)] = c /\ y.at = z
        <5>1. x.at \in Clean /\ y.at = z
          BY <3>2, <3>7
        <5> QED BY <3>1, <5>1, AppendIs
      <4> HIDE DEF z
      <4>2. Finds(h, z)
        <5> HIDE DEF Finds
        <5> QED BY <1>6, <4>1
      <4>3. Finds(h, z) <=>
              (V[h][WalkTo(m, x.at, TRUE)].err = "ok" /\ nodeAt(m, V[h][WalkTo(m, x.at, TRUE)].at).kind = "dir"
                 /\ There(Append(V[h][WalkTo(m, x.at, TRUE)].at, c))
                 => W[h][WalkTo(m, y.at, final)].err = "ok")
        <5> HIDE DEF There
        <5> QED BY <4>1
      <4> HIDE DEF Finds, There
      <4> QED BY <3>4, <3>5, <4>2, <4>3
    <3> QED BY <3>6, <3>7
  <2> HIDE DEF Finds
  <2> QED BY <1>4, <2>1, <2>2
<1>7. LinkHops \in T
  <2>1. \A h \in 0 .. LinkHops - 1 : h \in T => h + 1 \in T
    BY <1>6
  <2>2. 0 .. LinkHops \subseteq T
    <3> HIDE DEF T
    <3> QED BY <1>3, <1>5, <2>1, InductTo
  <2> HIDE DEF T
  <2> QED BY <1>3, <2>2
<1>8. Finds(LinkHops, name)
  <2> HIDE DEF Finds
  <2> QED BY <1>7
<1>9. up = V[LinkHops][WalkTo(m, parent(name), TRUE)]
  BY <1>2 DEF Open
<1>10. There(Append(up.at, name[Len(name)]))
  OBVIOUS
<1>11. W[LinkHops][WalkTo(m, name, final)].err = "ok"
  <2> HIDE DEF There
  <2> QED BY <1>8, <1>9, <1>10
<1> QED BY <1>1, <1>11

\* Sums of sizes that are no larger are no larger.
LEMMA TotalAtMost ==
  ASSUME NEW node, NEW other, NEW T, IsFiniteSet(T), Sized(node, T), Sized(other, T),
         \A i \in T : other[i].size <= node[i].size
  PROVE  Total(other, T) <= Total(node, T)
<1> DEFINE K == {k \in Nat : \A s \in SUBSET T : Cardinality(s) = k => Total(other, s) <= Total(node, s)}
<1>1. 0 \in K
  <2>1. ASSUME NEW s \in SUBSET T, Cardinality(s) = 0 PROVE s = {}
    BY <2>1, FS_Subset, FS_EmptySet
  <2>2. Total(node, {}) = 0 /\ Total(other, {}) = 0
    BY TotalType
  <2> QED BY <2>1, <2>2
<1>2. ASSUME NEW k \in Nat, k \in K PROVE k + 1 \in K
  <2>1. ASSUME NEW s \in SUBSET T, Cardinality(s) = k + 1 PROVE Total(other, s) <= Total(node, s)
    <3>1. s # {}
      BY <2>1, FS_EmptySet
    <3>2. PICK x \in s : TRUE
      BY <3>1
    <3>3. s \ {x} \in SUBSET T /\ Cardinality(s \ {x}) = k
      <4>1. s \ {x} \in SUBSET T /\ Cardinality(s \ {x}) = Cardinality(s) - 1
        BY Without
      <4> QED BY <2>1, <4>1
    <3>4. Total(other, s \ {x}) <= Total(node, s \ {x})
      BY <1>2, <3>3
    <3>5. IsFiniteSet(s) /\ IsFiniteSet(s \ {x}) /\ Sized(node, s) /\ Sized(other, s)
          /\ Sized(node, s \ {x}) /\ Sized(other, s \ {x})
      BY FS_Subset DEF Sized
    <3>6. Total(node, s) = Total(node, s \ {x}) + node[x].size /\ Total(other, s) = Total(other, s \ {x}) + other[x].size
      BY <3>5, TotalWithout
    <3>7. Total(node, s \ {x}) \in Nat /\ Total(other, s \ {x}) \in Nat /\ node[x].size \in Nat /\ other[x].size \in Nat
          /\ other[x].size <= node[x].size
      BY <3>5, TotalType DEF Sized
    <3> QED BY <3>4, <3>6, <3>7
  <2> QED BY <2>1
<1>3. Nat \subseteq K
  <2>1. \A k \in Nat : k \in K => k + 1 \in K
    BY <1>2
  <2> HIDE DEF K
  <2> QED BY <1>1, <2>1, Induct
<1>4. Cardinality(T) \in Nat /\ T \in SUBSET T
  BY FS_CardinalityType
<1> QED BY <1>3, <1>4

-----------------------------------------------------------------------------
(* What holds of the filesystem between two calls.                         *)

Sound(n) == \/ n = Nothing
            \/ n.kind = "file" /\ n.links # 0
            \/ n.kind \in {"dir", "link"} /\ n.links = 1 /\ n.size = 0

Counted(m) == \A i \in Ids : Sound(m.node[i]) /\ m.node[i].links = Cardinality(Names(m, i))
Charged(m) == m.used = Total(m.node, Ids) /\ (Limit > 0 => m.used <= Limit)
Treed(m) == RootStands(m) /\ \A p \in Paths : m.at[p] # 0 => nodeAt(m, parent(p)).kind = "dir"

Tables == {m \in Memories : Counted(m) /\ Charged(m)}
Goods == {m \in Tables : Treed(m)}

\* Nothing is a node of its own kind, with no names and no bytes, and no other sound node is.
LEMMA NothingIs ==
  /\ Nothing \in Node /\ Nothing.kind = "none" /\ Nothing.links = 0 /\ Nothing.size = 0
  /\ \A n : Sound(n) /\ (n.kind = "none" \/ n.links = 0) => n = Nothing
<1>1. Root \in Clean
  BY PlacesAre
<1>2. NoTarget \in LinkTargets
  BY <1>1 DEF NoTarget, Absolute, LinkTargets
<1> HIDE DEF NoTarget
<1>3. /\ Nothing \in Node /\ Nothing.kind = "none" /\ Nothing.links = 0 /\ Nothing.size = 0
  BY <1>2 DEF Nothing, Node
<1> QED BY <1>3 DEF Sound

\* The names of a node are a finite set.
LEMMA NamesAre ==
  ASSUME NEW m, NEW i
  PROVE  /\ Names(m, i) \subseteq Places /\ IsFiniteSet(Names(m, i)) /\ Cardinality(Names(m, i)) \in Nat
         /\ Cardinality(Names(m, i)) = 0 <=> Names(m, i) = {}
         /\ \A p \in Places : p \in Names(m, i) <=> m.at[p] = i
<1>1. Names(m, i) \subseteq Places /\ \A p \in Places : p \in Names(m, i) <=> m.at[p] = i
  BY DEF Names
<1>2. IsFiniteSet(Names(m, i))
  BY <1>1, PlacesAre, FS_Subset
<1> QED BY <1>1, <1>2, FS_CardinalityType, FS_EmptySet

\* What has a name is something.
LEMMA NamedIs ==
  ASSUME NEW m \in Memories, Counted(m), NEW p \in Places
  PROVE  /\ m.at[p] # 0 => /\ m.at[p] \in Ids /\ nodeAt(m, p) = m.node[m.at[p]]
                           /\ m.node[m.at[p]].links # 0
                           /\ nodeAt(m, p).kind \in {"file", "dir", "link"}
         /\ m.at[p] = 0 => nodeAt(m, p) = Nothing
<1>1. CASE m.at[p] # 0
  <2>1. m.at[p] \in Ids /\ nodeAt(m, p) = m.node[m.at[p]]
    BY <1>1 DEF Memories, nodeAt
  <2>2. Sound(m.node[m.at[p]]) /\ m.node[m.at[p]].links # 0
    BY <2>1, NamesAre DEF Counted
  <2> QED BY <1>1, <2>1, <2>2, NothingIs DEF Sound
<1>2. CASE m.at[p] = 0
  BY <1>2 DEF nodeAt
<1> QED BY <1>1, <1>2

\* Directories and links have one name.
LEMMA OnlyName ==
  ASSUME NEW m \in Memories, Counted(m), NEW p \in Places, nodeAt(m, p).kind \in {"dir", "link"}
  PROVE  Names(m, m.at[p]) = {p} /\ nodeAt(m, p).size = 0
<1>1. m.at[p] \in Ids /\ nodeAt(m, p) = m.node[m.at[p]]
  BY NodeAt
<1>2. m.node[m.at[p]].links = 1 /\ m.node[m.at[p]].size = 0
  BY <1>1, NothingIs DEF Counted, Sound
<1>3. Cardinality(Names(m, m.at[p])) = 1 /\ IsFiniteSet(Names(m, m.at[p])) /\ p \in Names(m, m.at[p])
  BY <1>1, <1>2, NamesAre DEF Counted
<1>4. \E x : Names(m, m.at[p]) = {x}
  BY <1>3, FS_Singleton
<1> QED BY <1>1, <1>2, <1>3, <1>4

\* A node's size, as the sums need it.
LEMMA SizesAre ==
  ASSUME NEW m \in Memories
  PROVE  Sized(m.node, Ids) /\ IsFiniteSet(Ids) /\ \A i \in Ids : m.node[i] \in Node
<1>1. \A i \in Ids : m.node[i] \in Node
  BY DEF Memories
<1>2. \A n \in Node : n.size \in Nat
  BY DEF Node
<1> QED BY <1>1, <1>2, PlacesAre DEF Sized

-----------------------------------------------------------------------------
(* Names that go.                                                          *)

\* The nodes when the names in s are gone.
Linked(n, c) == [n EXCEPT !.links = c]
GoneNodes(m, s) ==
  [i \in Ids |-> IF Names(m, i) \ s = {} THEN Nothing
                 ELSE [m.node[i] EXCEPT !.links = Cardinality(Names(m, i) \ s)]]
Gone(m, s) ==
  [at |-> [p \in Places |-> IF p \in s THEN 0 ELSE m.at[p]], node |-> GoneNodes(m, s),
   used |-> Total(GoneNodes(m, s), Ids)]

\* What is left of the names of a node.
LEMMA RestIs ==
  ASSUME NEW m, NEW i, NEW s
  PROVE  /\ IsFiniteSet(Names(m, i) \ s) /\ Cardinality(Names(m, i) \ s) \in Nat
         /\ Cardinality(Names(m, i) \ s) = 0 <=> Names(m, i) \ s = {}
         /\ Cardinality(Names(m, i) \ s) <= Cardinality(Names(m, i))
<1>1. IsFiniteSet(Names(m, i)) /\ Names(m, i) \ s \in SUBSET Names(m, i)
  BY NamesAre
<1>2. IsFiniteSet(Names(m, i) \ s) /\ Cardinality(Names(m, i) \ s) <= Cardinality(Names(m, i))
  BY <1>1, FS_Subset
<1> QED BY <1>2, FS_CardinalityType, FS_EmptySet

\* A node of which a name is left is as it was, with fewer names.
LEMMA LeftNode ==
  ASSUME NEW m \in Tables, NEW s, NEW i \in Ids, Names(m, i) \ s # {}
  PROVE  /\ GoneNodes(m, s)[i] = Linked(m.node[i], Cardinality(Names(m, i) \ s))
         /\ GoneNodes(m, s)[i].kind = m.node[i].kind /\ GoneNodes(m, s)[i].size = m.node[i].size
         /\ GoneNodes(m, s)[i].links = Cardinality(Names(m, i) \ s)
<1>1. GoneNodes(m, s)[i] = [m.node[i] EXCEPT !.links = Cardinality(Names(m, i) \ s)]
  BY DEF GoneNodes
<1>2. m.node[i] \in Node
  BY SizesAre DEF Tables
<1> QED BY <1>1, <1>2 DEF Node, Linked

\* One of which none is left is nothing.
LEMMA LostNode ==
  ASSUME NEW m, NEW s, NEW i \in Ids, Names(m, i) \ s = {}
  PROVE  GoneNodes(m, s)[i] = Nothing
  BY DEF GoneNodes

\* Either is sound, and no larger than it was.
LEMMA GoneNode ==
  ASSUME NEW m \in Tables, NEW s, NEW i \in Ids
  PROVE  /\ GoneNodes(m, s)[i] \in Node /\ Sound(GoneNodes(m, s)[i])
         /\ GoneNodes(m, s)[i].links = Cardinality(Names(m, i) \ s)
         /\ GoneNodes(m, s)[i].size <= m.node[i].size
<1> DEFINE n == GoneNodes(m, s)[i]
           c == Cardinality(Names(m, i) \ s)
<1>1. m.node[i] \in Node /\ Sound(m.node[i]) /\ m.node[i].links = Cardinality(Names(m, i))
  BY SizesAre DEF Tables, Counted
<1>2. c \in Nat /\ (c = 0 <=> Names(m, i) \ s = {}) /\ c <= Cardinality(Names(m, i))
  BY RestIs
<1>3. m.node[i].size \in Nat
  BY <1>1 DEF Node
<1>4. CASE Names(m, i) \ s = {}
  <2>1. n = Nothing
    BY <1>4, LostNode
  <2> HIDE DEF n
  <2>2. n \in Node /\ Sound(n) /\ n.links = c /\ n.size <= m.node[i].size
    BY <1>2, <1>3, <1>4, <2>1, NothingIs DEF Sound
  <2> QED BY <2>2 DEF n
<1>5. CASE Names(m, i) \ s # {}
  <2>1. n = Linked(m.node[i], c) /\ n.kind = m.node[i].kind /\ n.size = m.node[i].size /\ n.links = c
    BY <1>5, LeftNode
  <2> HIDE DEF n, c
  <2>2. n \in Node
    BY <1>1, <1>2, <2>1 DEF Node, Linked
  <2>3. m.node[i].links # 0 /\ c # 0
    <3>1. Names(m, i) # {}
      BY <1>5
    <3> QED BY <1>1, <1>2, <1>5, <3>1, NamesAre
  <2>4. Sound(n)
    <3>1. m.node[i] # Nothing
      BY <2>3, NothingIs
    <3>2. CASE m.node[i].kind = "file"
      BY <2>1, <2>3, <3>2 DEF Sound
    <3>3. CASE m.node[i].kind \in {"dir", "link"} /\ m.node[i].links = 1 /\ m.node[i].size = 0
      <4>1. c = 1
        BY <1>1, <1>2, <2>3, <3>3
      <4> QED BY <2>1, <3>3, <4>1 DEF Sound
    <3> QED BY <1>1, <3>1, <3>2, <3>3 DEF Sound
  <2>5. n.size <= m.node[i].size
    BY <1>3, <2>1
  <2> QED BY <2>1, <2>2, <2>4, <2>5 DEF n, c
<1> QED BY <1>4, <1>5

\* Without some of the names the table is sound, and what keeps a name is what it was.
LEMMA GoneIs ==
  ASSUME NEW m \in Tables, NEW s \in SUBSET Places
  PROVE  /\ Gone(m, s) \in Tables
         /\ \A p \in Places : Gone(m, s).at[p] = IF p \in s THEN 0 ELSE m.at[p]
         /\ \A p \in Places : p \notin s => nodeAt(Gone(m, s), p).kind = nodeAt(m, p).kind
         /\ \A i \in Ids : Names(Gone(m, s), i) = Names(m, i) \ s
<1> DEFINE g == Gone(m, s)
           node == GoneNodes(m, s)
<1>1. m \in Memories /\ Counted(m) /\ Charged(m)
  BY DEF Tables
<1>2. g.at = [p \in Places |-> IF p \in s THEN 0 ELSE m.at[p]] /\ g.node = node /\ g.used = Total(node, Ids)
      /\ g = [at |-> g.at, node |-> g.node, used |-> g.used]
  BY DEF Gone
<1>3. \A i \in Ids : node[i] \in Node /\ Sound(node[i]) /\ node[i].links = Cardinality(Names(m, i) \ s)
                     /\ node[i].size <= m.node[i].size
  BY GoneNode
<1>4. node \in [Ids -> Node]
  <2>1. node = [i \in Ids |-> node[i]]
    BY DEF GoneNodes
  <2> HIDE DEF node
  <2> QED BY <1>3, <2>1
<1>5. Sized(node, Ids)
  <2>1. \A n \in Node : n.size \in Nat
    BY DEF Node
  <2> HIDE DEF node
  <2> QED BY <1>3, <2>1 DEF Sized
<1> HIDE DEF node, g
<1>6. Total(node, Ids) \in Nat /\ Total(node, Ids) <= Total(m.node, Ids) /\ Total(m.node, Ids) \in Nat
  BY <1>1, <1>3, <1>5, SizesAre, TotalType, TotalAtMost
<1>7. g.at \in [Places -> Ids \cup {0}]
  <2>1. \A p \in Places : m.at[p] \in Ids \cup {0}
    BY <1>1 DEF Memories
  <2> QED BY <1>2, <2>1
<1>8. g \in Memories
  <2> DEFINE a == g.at
             u == g.used
  <2>1. a \in [Places -> Ids \cup {0}] /\ node \in [Ids -> Node] /\ u \in Nat /\ g = [at |-> a, node |-> node, used |-> u]
    BY <1>2, <1>4, <1>6, <1>7
  <2> HIDE DEF a, u
  <2> QED BY <2>1 DEF Memories
<1>9. \A p \in Places : g.at[p] = IF p \in s THEN 0 ELSE m.at[p]
  BY <1>2
<1>10. ASSUME NEW i \in Ids PROVE Names(g, i) = Names(m, i) \ s
  <2>1. i # 0
    BY PlacesAre
  <2> QED BY <1>9, <2>1 DEF Names
<1>11. Counted(g)
  BY <1>2, <1>3, <1>10 DEF Counted
<1>12. Charged(g)
  <2>1. Limit > 0 => m.used <= Limit
    BY <1>1 DEF Charged
  <2>2. m.used = Total(m.node, Ids)
    BY <1>1 DEF Charged
  <2>3. Limit > 0 => Total(node, Ids) <= Limit
    BY <1>6, <2>1, <2>2, MemoryAssumption
  <2> QED BY <1>2, <2>3 DEF Charged
<1>13. ASSUME NEW p \in Places, p \notin s PROVE nodeAt(g, p).kind = nodeAt(m, p).kind
  <2>1. g.at[p] = m.at[p]
    BY <1>9, <1>13
  <2>2. CASE m.at[p] = 0
    BY <2>1, <2>2 DEF nodeAt
  <2>3. CASE m.at[p] # 0
    <3>1. m.at[p] \in Ids /\ nodeAt(m, p) = m.node[m.at[p]]
      BY <1>1, <2>3, NamedIs
    <3>2. nodeAt(g, p) = node[m.at[p]]
      BY <1>2, <2>1, <2>3 DEF nodeAt
    <3>3. p \in Names(m, m.at[p]) \ s
      BY <1>13, NamesAre
    <3>4. Names(m, m.at[p]) \ s # {}
      BY <3>3
    <3>5. GoneNodes(m, s)[m.at[p]].kind = m.node[m.at[p]].kind
      <4> DEFINE i == m.at[p]
      <4>1. i \in Ids /\ Names(m, i) \ s # {}
        BY <3>1, <3>4
      <4> HIDE DEF i
      <4>2. GoneNodes(m, s)[i].kind = m.node[i].kind
        BY <4>1, LeftNode
      <4> QED BY <4>2 DEF i
    <3>6. node[m.at[p]].kind = m.node[m.at[p]].kind
      BY <3>5 DEF node
    <3> QED BY <3>1, <3>2, <3>6
  <2> QED BY <2>2, <2>3
<1>14. g \in Tables
  BY <1>8, <1>11, <1>12 DEF Tables
<1> QED BY <1>9, <1>10, <1>13, <1>14 DEF g

\* Two filesystems with the same tables are the same.
LEMMA SameMemory ==
  ASSUME NEW m \in Memories, NEW n \in Memories, m.at = n.at, m.node = n.node, m.used = n.used
  PROVE  m = n
  BY DEF Memories

\* Nothing is gone without names that go.
LEMMA GoneNone ==
  ASSUME NEW m \in Tables
  PROVE  Gone(m, {}) = m
<1>1. m \in Memories /\ Counted(m) /\ Charged(m)
  BY DEF Tables
<1>2. m.at \in [Places -> Ids \cup {0}] /\ m.node \in [Ids -> Node]
  BY <1>1 DEF Memories
<1>3. Gone(m, {}).at = m.at
  BY <1>2 DEF Gone
<1>4. ASSUME NEW i \in Ids PROVE GoneNodes(m, {})[i] = m.node[i]
  <2>1. m.node[i] \in Node /\ Sound(m.node[i]) /\ m.node[i].links = Cardinality(Names(m, i)) /\ Names(m, i) \ {} = Names(m, i)
    BY <1>1, <1>2 DEF Counted
  <2>2. CASE Names(m, i) = {}
    <3>0. m.node[i].links = 0
      BY <2>1, <2>2, NamesAre
    <3>1. m.node[i] = Nothing
      BY <2>1, <3>0, NothingIs
    <3> QED BY <2>1, <2>2, <3>1 DEF GoneNodes
  <2>3. CASE Names(m, i) # {}
    <3>1. GoneNodes(m, {})[i] = [m.node[i] EXCEPT !.links = m.node[i].links]
      BY <2>1, <2>3 DEF GoneNodes
    <3>2. [m.node[i] EXCEPT !.links = m.node[i].links] = m.node[i]
      BY <2>1 DEF Node
    <3> QED BY <3>1, <3>2
  <2> QED BY <2>2, <2>3
<1>5. GoneNodes(m, {}) = m.node
  <2>1. GoneNodes(m, {}) = [i \in Ids |-> GoneNodes(m, {})[i]]
    BY DEF GoneNodes
  <2>2. m.node = [i \in Ids |-> m.node[i]]
    BY <1>2
  <2> QED BY <1>4, <2>1, <2>2
<1>6. Gone(m, {}).node = m.node /\ Gone(m, {}).used = m.used
  BY <1>1, <1>5 DEF Gone, Charged
<1>7. Gone(m, {}) \in Memories
  <2>1. {} \in SUBSET Places
    OBVIOUS
  <2> QED BY <2>1, GoneIs DEF Tables
<1> QED BY <1>1, <1>3, <1>6, <1>7, SameMemory

\* Dropping a name after others is dropping it with them.
LEMMA DropIs ==
  ASSUME NEW m \in Tables, NEW s \in SUBSET Places, NEW x \in Places, x \notin s, m.at[x] # 0
  PROVE  Drop(Gone(m, s), x) = Gone(m, s \cup {x})
<1> DEFINE g == Gone(m, s)
           h == Gone(m, s \cup {x})
           i == m.at[x]
           d == Drop(g, x)
<1>1. m \in Memories /\ Counted(m) /\ Charged(m)
  BY DEF Tables
<1>2. i \in Ids
  BY <1>1, NamedIs
<1>3. /\ g \in Memories /\ Charged(g) /\ h \in Memories /\ Charged(h)
      /\ \A p \in Places : g.at[p] = IF p \in s THEN 0 ELSE m.at[p]
      /\ \A p \in Places : h.at[p] = IF p \in s \cup {x} THEN 0 ELSE m.at[p]
  <2>1. s \cup {x} \in SUBSET Places
    OBVIOUS
  <2> QED BY <2>1, GoneIs DEF Tables
<1>4. g.node = GoneNodes(m, s) /\ h.node = GoneNodes(m, s \cup {x})
  BY DEF Gone
<1>5. g.at[x] = i
  BY <1>3
<1>6. d = IF g.node[i].links = 1
          THEN [at |-> [g.at EXCEPT ![x] = 0], node |-> [g.node EXCEPT ![i] = Nothing], used |-> g.used - g.node[i].size]
          ELSE [g EXCEPT !.at[x] = 0, !.node[i].links = @ - 1]
  <2> HIDE DEF g, i
  <2> QED BY <1>5 DEF Drop, Then
<1> DEFINE rest == Names(m, i) \ s
           less == Names(m, i) \ (s \cup {x})
<1>7. /\ g.node[i] \in Node /\ g.node[i].links = Cardinality(rest)
      /\ rest # {} => g.node[i] = [m.node[i] EXCEPT !.links = Cardinality(rest)]
      /\ less # {} => h.node[i] = [m.node[i] EXCEPT !.links = Cardinality(less)]
      /\ less = {} => h.node[i] = Nothing
  <2>1. /\ GoneNodes(m, s)[i] \in Node /\ GoneNodes(m, s)[i].links = Cardinality(rest)
        /\ rest # {} => GoneNodes(m, s)[i] = Linked(m.node[i], Cardinality(rest))
    <3> HIDE DEF i
    <3> QED BY <1>2, GoneNode, LeftNode
  <2>2. /\ less # {} => GoneNodes(m, s \cup {x})[i] = Linked(m.node[i], Cardinality(less))
        /\ less = {} => GoneNodes(m, s \cup {x})[i] = Nothing
    <3> DEFINE t == s \cup {x}
    <3> HIDE DEF i, t
    <3>1. /\ Names(m, i) \ t # {} => GoneNodes(m, t)[i] = Linked(m.node[i], Cardinality(Names(m, i) \ t))
          /\ Names(m, i) \ t = {} => GoneNodes(m, t)[i] = Nothing
      BY <1>2, LeftNode, LostNode
    <3> QED BY <3>1 DEF t
  <2> HIDE DEF g, h, rest, less, i
  <2> QED BY <1>4, <2>1, <2>2 DEF Linked
<1>8. x \in rest /\ less = rest \ {x} /\ IsFiniteSet(rest) /\ Cardinality(rest) \in Nat
      /\ Cardinality(less) = Cardinality(rest) - 1 /\ (Cardinality(less) = 0 <=> less = {})
  <2>1. x \in rest /\ less = rest \ {x}
    BY NamesAre
  <2>2. IsFiniteSet(rest) /\ Cardinality(rest) \in Nat /\ (Cardinality(less) = 0 <=> less = {})
    BY RestIs
  <2> HIDE DEF rest, less
  <2>3. Cardinality(less) = Cardinality(rest) - 1
    BY <2>1, <2>2, FS_RemoveElement
  <2> QED BY <2>1, <2>2, <2>3
<1>9. ASSUME NEW j \in Ids, j # i PROVE h.node[j] = g.node[j]
  <2>1. Names(m, j) \ s = Names(m, j) \ (s \cup {x})
    BY <1>9, NamesAre
  <2> QED BY <1>4, <2>1 DEF GoneNodes
<1> HIDE DEF g, h, rest, less, d, i
<1>10. g.at \in [Places -> Ids \cup {0}] /\ h.at \in [Places -> Ids \cup {0}] /\ g.node \in [Ids -> Node] /\ h.node \in [Ids -> Node]
       /\ g.used \in Nat
  BY <1>3 DEF Memories
<1>a. h.node = [j \in Ids |-> h.node[j]]
  BY <1>10
<1>11. [g.at EXCEPT ![x] = 0] = h.at
  <2>1. \A p \in Places : [g.at EXCEPT ![x] = 0][p] = h.at[p]
    BY <1>3, <1>10
  <2> QED BY <1>10, <2>1
<1>12. m.node[i] \in Node
  BY <1>1, <1>2, SizesAre
<1>14. h.used = g.used - g.node[i].size + h.node[i].size
  <2>1. h.used = Total(h.node, Ids) /\ g.used = Total(g.node, Ids)
    BY <1>3 DEF Charged
  <2>2. Sized(g.node, Ids) /\ Sized(h.node, Ids) /\ IsFiniteSet(Ids)
    BY <1>3, SizesAre
  <2>3. \A j \in Ids \ {i} : h.node[j].size = g.node[j].size
    BY <1>9
  <2> QED BY <1>2, <2>1, <2>2, <2>3, TotalChange
<1>15. ASSUME g.node[i].links = 1 PROVE d = h
  <2>1. less = {}
    BY <1>7, <1>8, <1>15
  <2>2. h.node[i] = Nothing /\ Nothing.size = 0
    BY <1>7, <2>1, NothingIs
  <2>3. [g.node EXCEPT ![i] = Nothing] = h.node
    <3> DEFINE n == [g.node EXCEPT ![i] = Nothing]
    <3>1. n = [j \in Ids |-> n[j]] /\ \A j \in Ids : n[j] = h.node[j]
      BY <1>2, <1>9, <1>10, <2>2
    <3> HIDE DEF n
    <3>2. n = h.node
      BY <1>a, <3>1
    <3> QED BY <3>2 DEF n
  <2>4. g.node[i].size \in Nat
    BY <1>7 DEF Node
  <2>5. h.used = g.used - g.node[i].size
    BY <1>10, <1>14, <2>2, <2>4
  <2>6. d = [at |-> h.at, node |-> h.node, used |-> h.used]
    BY <1>6, <1>11, <1>15, <2>3, <2>5
  <2> QED BY <1>3, <2>6 DEF Memories
<1>16. ASSUME g.node[i].links # 1 PROVE d = h
  <2>1. less # {}
    BY <1>7, <1>8, <1>16
  <2>2. h.node[i] = [g.node[i] EXCEPT !.links = @ - 1]
    <3>1. rest # {}
      BY <1>8
    <3>2. g.node[i] = [m.node[i] EXCEPT !.links = Cardinality(rest)] /\ h.node[i] = [m.node[i] EXCEPT !.links = Cardinality(rest) - 1]
      BY <1>7, <1>8, <2>1, <3>1
    <3> QED BY <1>12, <3>2 DEF Node
  <2>3. [g.node EXCEPT ![i].links = @ - 1] = h.node
    <3> DEFINE n == [g.node EXCEPT ![i].links = @ - 1]
    <3>1. n = [j \in Ids |-> n[j]] /\ \A j \in Ids : n[j] = h.node[j]
      BY <1>2, <1>9, <1>10, <2>2
    <3> HIDE DEF n
    <3>2. n = h.node
      BY <1>a, <3>1
    <3> QED BY <3>2 DEF n
  <2>4. h.node[i].size = g.node[i].size /\ g.node[i].size \in Nat
    BY <1>7, <2>2 DEF Node
  <2>5. h.used = g.used
    BY <1>10, <1>14, <2>4
  <2>6. d = [g EXCEPT !.at[x] = 0, !.node[i].links = @ - 1]
    BY <1>6, <1>16
  <2>7. d = [at |-> [g.at EXCEPT ![x] = 0], node |-> [g.node EXCEPT ![i].links = @ - 1], used |-> g.used]
    BY <1>3, <2>6 DEF Memories
  <2> QED BY <1>3, <1>11, <2>3, <2>5, <2>7 DEF Memories
<1>17. d = h
  BY <1>15, <1>16
<1> QED BY <1>17 DEF d, g, h

\* Dropping one name.
LEMMA DropOne ==
  ASSUME NEW m \in Tables, NEW x \in Places, m.at[x] # 0
  PROVE  Drop(m, x) = Gone(m, {x})
<1>1. {} \in SUBSET Places /\ x \notin {} /\ {} \cup {x} = {x}
  OBVIOUS
<1>2. Drop(Gone(m, {}), x) = Gone(m, {} \cup {x})
  BY <1>1, DropIs
<1> QED BY <1>1, <1>2, GoneNone

\* What is below something that is there is below directories that have entries.
LEMMA Ancestors ==
  ASSUME NEW m \in Goods, NEW p \in Paths, m.at[p] # 0, NEW q \in Clean, Prefix(q, p), q # p
  PROVE  q \in Places /\ nodeAt(m, q).kind = "dir" /\ Entries(m, q) # {}
<1> DEFINE Below(a) == \A b \in Clean : Prefix(b, a) /\ b # a =>
                         b \in Places /\ nodeAt(m, b).kind = "dir" /\ Entries(m, b) # {}
           K == {k \in Nat : \A a \in Paths : m.at[a] # 0 /\ Len(a) = k => Below(a)}
<1>1. Treed(m)
  BY DEF Goods
<1>2. ASSUME NEW a \in Paths
      PROVE  a \in Clean /\ a # Root /\ parent(a) \in Places /\ parent(a) \in Clean /\ parent(a) = Up(a)
             /\ Len(a) \in Nat \ {0} /\ Len(parent(a)) = Len(a) - 1
             /\ \A b \in Clean : Prefix(b, a) /\ b # a => Prefix(b, parent(a))
  <2>1. a \in Clean /\ a # Root /\ parent(a) \in Places
    BY PlacesAre
  <2>2. parent(a) = Up(a)
    BY <2>1 DEF parent, Up
  <2>3. a # <<>> /\ a \in Seq(Components)
    BY <2>1 DEF Root, Clean
  <2>4. Len(a) \in Nat \ {0} /\ Up(a) \in Clean /\ Len(Up(a)) = Len(a) - 1
        /\ \A b \in Seq(Components) : Prefix(b, a) /\ b # a => Prefix(b, Up(a))
    BY <2>3, UpIs DEF Clean
  <2> QED BY <2>1, <2>2, <2>4 DEF Clean
<1>3. 0 \in K
  BY <1>2
<1>4. ASSUME NEW k \in Nat, k \in K PROVE k + 1 \in K
  <2>1. ASSUME NEW a \in Paths, m.at[a] # 0, Len(a) = k + 1 PROVE Below(a)
    <3> DEFINE u == parent(a)
    <3>1. u \in Places /\ u \in Clean /\ Len(u) = k /\ nodeAt(m, u).kind = "dir" /\ m.at[u] # 0
          /\ \A b \in Clean : Prefix(b, a) /\ b # a => Prefix(b, u)
      <4>1. nodeAt(m, u).kind = "dir"
        BY <1>1, <2>1 DEF Treed
      <4>2. m.at[u] # 0
        BY <4>1, NothingIs DEF nodeAt
      <4> QED BY <1>2, <2>1, <4>1, <4>2
    <3>2. Entries(m, u) # {}
      BY <2>1 DEF Entries
    <3> HIDE DEF u
    <3>3. ASSUME NEW b \in Clean, Prefix(b, u), b # u
          PROVE  b \in Places /\ nodeAt(m, b).kind = "dir" /\ Entries(m, b) # {}
      <4>1. u # Root
        BY <3>3, PrefixOrder DEF Root, Clean
      <4>2. u \in Paths
        BY <3>1, <4>1, PlacesAre
      <4>3. Below(u)
        BY <1>4, <3>1, <4>2
      <4> QED BY <3>3, <4>3
    <3> QED BY <3>1, <3>2, <3>3
  <2> QED BY <2>1
<1>5. Nat \subseteq K
  <2>1. \A k \in Nat : k \in K => k + 1 \in K
    BY <1>4
  <2> HIDE DEF K
  <2> QED BY <1>3, <2>1, Induct
<1>6. Len(p) \in Nat
  BY <1>2
<1>7. Below(p)
  BY <1>5, <1>6
<1> QED BY <1>7

-----------------------------------------------------------------------------
(* What calls answer.                                                      *)

Words == Outcomes \cup {"exist", "isdir", "quota", "root", "notempty", "bound", "self", "notregular"}
Replies == [fs : Goods, err : Words]

\* A call that changes nothing answers with a good filesystem.
LEMMA Replied ==
  ASSUME NEW m \in Goods, NEW e \in Words
  PROVE  Answer(m, e) \in Replies
  BY DEF Answer, Replies

\* What is known of a good filesystem.
LEMMA GoodsAre ==
  ASSUME NEW m \in Goods
  PROVE  m \in Memories /\ m \in Tables /\ Counted(m) /\ Charged(m) /\ Treed(m) /\ RootStands(m)
         /\ m.at[Root] # 0
<1>1. m \in Memories /\ m \in Tables /\ Counted(m) /\ Charged(m) /\ Treed(m) /\ RootStands(m)
  BY DEF Goods, Tables, Treed
<1>2. m.at[Root] # 0
  BY <1>1, NothingIs DEF RootStands, nodeAt
<1> QED BY <1>1, <1>2

\* What a lookup finds.
LEMMA Found ==
  ASSUME NEW m \in Goods, NEW name \in Clean, NEW final \in BOOLEAN
  PROVE  LET r == resolveLocked(m, name, final) IN
         /\ r.err \in Words
         /\ r.err = "ok" =>
              /\ r.at \in Places /\ m.at[r.at] \in Ids /\ nodeAt(m, r.at) = m.node[m.at[r.at]] /\ m.at[r.at] # 0
              /\ nodeAt(m, r.at).kind \in {"file", "dir", "link"}
              /\ final => nodeAt(m, r.at).kind # "link"
              /\ ~final /\ name # Root => r.at \in Paths
<1> DEFINE r == resolveLocked(m, name, final)
<1>1. r = resolveLocked(m, name, final)
  OBVIOUS
<1> HIDE DEF r
<1>2. m \in Memories /\ RootStands(m)
  BY GoodsAre
<1>3. /\ r \in Walks
      /\ r.err = "ok" =>
           /\ r.at \in Places /\ m.at[r.at] \in Ids /\ nodeAt(m, r.at) = m.node[m.at[r.at]]
           /\ nodeAt(m, r.at).kind \in {"file", "dir", "link"}
           /\ final => nodeAt(m, r.at).kind # "link"
           /\ ~final /\ name # Root => r.at # Root
  BY <1>1, <1>2, Lookup
<1>4. r.err \in Words
  BY <1>3 DEF Walks, Words
<1> QED BY <1>3, <1>4, PlacesAre DEF r

\* A tree stays one when what is taken away takes along what is in it.
LEMMA GoneGood ==
  ASSUME NEW m \in Goods, NEW s \in SUBSET Paths, \A p \in Paths : m.at[p] # 0 /\ parent(p) \in s => p \in s
  PROVE  Gone(m, s) \in Goods
<1> DEFINE g == Gone(m, s)
<1>1. /\ g \in Tables
      /\ \A p \in Places : g.at[p] = IF p \in s THEN 0 ELSE m.at[p]
      /\ \A p \in Places : p \notin s => nodeAt(g, p).kind = nodeAt(m, p).kind
  <2>1. s \in SUBSET Places /\ m \in Tables
    BY PlacesAre, GoodsAre
  <2> QED BY <2>1, GoneIs
<1> HIDE DEF g
<1>2. Root \notin s /\ Root \in Places /\ RootStands(m) /\ Treed(m)
  BY PlacesAre, GoodsAre
<1>3. RootStands(g)
  BY <1>1, <1>2 DEF RootStands
<1>4. ASSUME NEW p \in Paths, g.at[p] # 0 PROVE nodeAt(g, parent(p)).kind = "dir"
  <2>1. p \in Places /\ parent(p) \in Places
    BY PlacesAre
  <2>2. p \notin s /\ m.at[p] # 0
    BY <1>1, <1>4, <2>1
  <2>3. parent(p) \notin s /\ nodeAt(m, parent(p)).kind = "dir"
    BY <1>2, <2>2 DEF Treed
  <2> QED BY <1>1, <2>1, <2>3
<1>5. g \in Goods
  BY <1>1, <1>3, <1>4 DEF Goods, Treed
<1> QED BY <1>5 DEF g

\* What has no entries has nothing below it.
LEMMA DropGood ==
  ASSUME NEW m \in Goods, NEW x \in Paths, m.at[x] # 0, Entries(m, x) = {}
  PROVE  Drop(m, x) \in Goods /\ Drop(m, x) = Gone(m, {x})
<1>1. m \in Tables /\ x \in Places
  BY GoodsAre, PlacesAre
<1>2. Drop(m, x) = Gone(m, {x})
  BY <1>1, DropOne
<1>3. {x} \in SUBSET Paths /\ \A p \in Paths : m.at[p] # 0 /\ parent(p) \in {x} => p \in {x}
  BY DEF Entries
<1>4. Gone(m, {x}) \in Goods
  BY <1>3, GoneGood
<1> QED BY <1>2, <1>4

\* Only directories have entries.
LEMMA EntriesAre ==
  ASSUME NEW m \in Goods, NEW x, nodeAt(m, x).kind # "dir"
  PROVE  Entries(m, x) = {}
  BY GoodsAre DEF Entries, Treed

\* Remove keeps the filesystem good.
LEMMA RemoveGood ==
  ASSUME NEW m \in Goods, NEW name \in Clean
  PROVE  remove(m, name) \in Replies
<1> DEFINE found == Lstat(m, name)
<1>0. /\ found.err \in Words
      /\ found.err = "ok" =>
              /\ found.at \in Places /\ m.at[found.at] # 0
              /\ name # Root => found.at \in Paths
  BY Found DEF Lstat
<1> HIDE DEF found
<1>1. CASE name = Root
  <2>1. remove(m, name) = Answer(m, "root")
    BY <1>1 DEF remove, Then
  <2> QED BY <2>1, Replied DEF Words
<1>2. CASE name # Root /\ found.err # "ok"
  <2>1. remove(m, name) = Answer(m, found.err)
    BY <1>2 DEF remove, Then, found
  <2> QED BY <1>0, <2>1, Replied
<1>3. CASE name # Root /\ found.err = "ok" /\ nodeAt(m, found.at).kind = "dir" /\ Entries(m, found.at) # {}
  <2>1. remove(m, name) = Answer(m, "notempty")
    BY <1>3 DEF remove, Then, found
  <2> QED BY <2>1, Replied DEF Words
<1>4. CASE name # Root /\ found.err = "ok" /\ ~(nodeAt(m, found.at).kind = "dir" /\ Entries(m, found.at) # {})
  <2>1. remove(m, name) = Answer(Drop(m, found.at), "ok")
    BY <1>4 DEF remove, Then, found
  <2>2. Entries(m, found.at) = {}
    BY <1>4, EntriesAre
  <2>3. Drop(m, found.at) \in Goods
    BY <1>0, <1>4, <2>2, DropGood
  <2> QED BY <2>1, <2>3, Replied DEF Words, Outcomes
<1> QED BY <1>1, <1>2, <1>3, <1>4

\* The names in T go one after the other.
Drops(m, T) == Sets!FoldSet(LAMBDA p, f : Drop(f, p), m, T)
DropStep(f, m, T) == [s \in SUBSET T |-> IF s = {} THEN m ELSE Drop(f[s \ {Pick(s)}], Pick(s))]

\* A fold starts with the whole set.
LEMMA DropsIs ==
  ASSUME NEW m, NEW T
  PROVE  Drops(m, T) = (CHOOSE f : f = DropStep(f, m, T))[T]
  BY DEF Drops, Sets!FoldSet, Sets!MapThenFoldSet, DropStep, Pick

\* They are gone, in whatever order.
LEMMA DropsGone ==
  ASSUME NEW m \in Tables, NEW T \in SUBSET Places, \A p \in T : m.at[p] # 0
  PROVE  Drops(m, T) = Gone(m, T)
<1> DEFINE h == [s \in SUBSET T |-> Gone(m, s)]
           f == CHOOSE g : g = DropStep(g, m, T)
\* Dropping the one that is picked after the others.
<1>1. ASSUME NEW s \in SUBSET T, s # {}
      PROVE  s \ {Pick(s)} \in SUBSET T /\ Pick(s) \in s /\ Drop(Gone(m, s \ {Pick(s)}), Pick(s)) = Gone(m, s)
  <2> DEFINE x == Pick(s)
             r == s \ {x}
  <2>1. x \in s
    BY <1>1, PickIn
  <2> HIDE DEF x
  <2>2. r \in SUBSET Places /\ x \in Places /\ x \notin r /\ m.at[x] # 0 /\ r \cup {x} = s /\ r \in SUBSET T
    BY <2>1
  <2> HIDE DEF r
  <2>3. Drop(Gone(m, r), x) = Gone(m, r \cup {x})
    BY <2>2, DropIs
  <2> QED BY <2>1, <2>2, <2>3 DEF r, x
<1>2. h = DropStep(h, m, T)
  <2>1. ASSUME NEW s \in SUBSET T PROVE h[s] = DropStep(h, m, T)[s]
    <3>1. CASE s = {}
      <4>1. DropStep(h, m, T)[s] = m
        BY <3>1 DEF DropStep
      <4> QED BY <3>1, <4>1, GoneNone
    <3>2. CASE s # {}
      <4>1. DropStep(h, m, T)[s] = Drop(h[s \ {Pick(s)}], Pick(s))
        BY <3>2 DEF DropStep
      <4>2. h[s \ {Pick(s)}] = Gone(m, s \ {Pick(s)}) /\ h[s] = Gone(m, s)
        BY <1>1, <3>2
      <4> QED BY <1>1, <3>2, <4>1, <4>2
    <3> QED BY <3>1, <3>2
  <2>2. h = [s \in SUBSET T |-> h[s]] /\ DropStep(h, m, T) = [s \in SUBSET T |-> DropStep(h, m, T)[s]]
    BY DEF DropStep
  <2> HIDE DEF h
  <2> QED BY <2>1, <2>2
<1>3. f = DropStep(f, m, T)
  <2> HIDE DEF h
  <2> QED BY <1>2
<1> HIDE DEF f, h
<1> DEFINE K == {k \in Nat : \A s \in SUBSET T : Cardinality(s) = k => f[s] = Gone(m, s)}
<1>4. IsFiniteSet(T)
  BY PlacesAre, FS_Subset
<1>5. ASSUME NEW s \in SUBSET T PROVE f[s] = IF s = {} THEN m ELSE Drop(f[s \ {Pick(s)}], Pick(s))
  BY <1>3 DEF DropStep
<1>6. 0 \in K
  <2>1. ASSUME NEW s \in SUBSET T, Cardinality(s) = 0 PROVE f[s] = Gone(m, s)
    <3>1. s = {}
      BY <1>4, <2>1, FS_Subset, FS_EmptySet
    <3> QED BY <1>5, <3>1, GoneNone
  <2> QED BY <2>1
<1>7. ASSUME NEW k \in Nat, k \in K PROVE k + 1 \in K
  <2>1. ASSUME NEW s \in SUBSET T, Cardinality(s) = k + 1 PROVE f[s] = Gone(m, s)
    <3>1. s # {}
      BY <2>1, FS_EmptySet
    <3> DEFINE x == Pick(s)
               r == s \ {x}
    <3>2. x \in s /\ r \in SUBSET T /\ Drop(Gone(m, r), x) = Gone(m, s)
      BY <1>1, <3>1
    <3>3. f[s] = Drop(f[r], x)
      BY <1>5, <3>1
    <3>4. Cardinality(r) = k
      <4> HIDE DEF x
      <4>1. Cardinality(s \ {x}) = Cardinality(s) - 1
        BY <1>4, <3>2, Without
      <4> QED BY <2>1, <4>1
    <3> HIDE DEF r, x
    <3>5. f[r] = Gone(m, r)
      BY <1>7, <3>2, <3>4
    <3> QED BY <3>2, <3>3, <3>5
  <2> QED BY <2>1
<1>8. Nat \subseteq K
  <2>1. \A k \in Nat : k \in K => k + 1 \in K
    BY <1>7
  <2> HIDE DEF K
  <2> QED BY <1>6, <2>1, Induct
<1>9. Cardinality(T) \in Nat /\ T \in SUBSET T
  BY <1>4, FS_CardinalityType
<1>10. f[T] = Gone(m, T)
  BY <1>8, <1>9
<1> QED BY <1>10, DropsIs DEF f

\* RemoveAll drops a tree with all that is in it.
LEMMA RemoveAllGood ==
  ASSUME NEW m \in Goods, NEW name \in Clean
  PROVE  removeAll(m, name) \in Replies
<1> DEFINE found == Lstat(m, name)
           T == {p \in Paths : Within(found.at, p) /\ m.at[p] # 0}
<1>0. /\ found.err \in Words
      /\ found.err = "ok" => found.at \in Places
  BY Found DEF Lstat
<1>1. CASE name = Root
  <2>1. removeAll(m, name) = Answer(m, "root")
    BY <1>1 DEF removeAll, Then
  <2> QED BY <2>1, Replied DEF Words
<1>2. CASE name # Root /\ found.err = "notexist"
  <2>1. removeAll(m, name) = Answer(m, "ok")
    BY <1>2 DEF removeAll, Then
  <2> QED BY <2>1, Replied DEF Words, Outcomes
<1>3. CASE name # Root /\ found.err \notin {"ok", "notexist"}
  <2>1. removeAll(m, name) = Answer(m, found.err)
    BY <1>3 DEF removeAll, Then
  <2> HIDE DEF found
  <2> QED BY <1>0, <2>1, Replied
<1>4. CASE name # Root /\ found.err = "ok"
  <2>1. removeAll(m, name) = Answer(Drops(m, T), "ok")
    <3>1. removeAll(m, name) =
            Then(Lstat(m, name), LAMBDA there :
              IF name = Root THEN Answer(m, "root")
              ELSE IF there.err = "notexist" THEN Answer(m, "ok")
              ELSE IF there.err # "ok" THEN Answer(m, there.err)
              ELSE Answer(Drops(m, {p \in Paths : Within(there.at, p) /\ m.at[p] # 0}), "ok"))
      BY Zenon DEF removeAll, Drops
    <3> QED BY <1>4, <3>1 DEF Then
  <2>2. found.at \in Clean
    <3> HIDE DEF found
    <3> QED BY <1>0, <1>4, PlacesAre
  <2> HIDE DEF found
  <2>3. T \in SUBSET Paths /\ T \in SUBSET Places /\ \A p \in T : m.at[p] # 0
    BY PlacesAre
  <2>4. Drops(m, T) = Gone(m, T)
    <3> HIDE DEF T
    <3> QED BY <2>3, DropsGone, GoodsAre
  <2>5. ASSUME NEW p \in Paths, m.at[p] # 0, parent(p) \in T PROVE p \in T
    <3> DEFINE top == found.at
    <3>1. p \in Clean /\ p # Root /\ top \in Clean /\ parent(p) \in Clean
      BY <2>2, PlacesAre
    <3>2. Prefix(top, parent(p))
      BY <2>5 DEF Within, Prefix
    <3> HIDE DEF top
    <3>3. parent(p) = Up(p) /\ p # <<>>
      BY <3>1 DEF parent, Up, Root
    <3>4. Prefix(Up(p), p)
      BY <3>1, <3>3, UpIs DEF Clean
    <3>5. Prefix(top, p)
      BY <3>1, <3>2, <3>3, <3>4, PrefixTransitive DEF Clean
    <3> QED BY <2>5, <3>5 DEF Within, Prefix, top
  <2>6. Gone(m, T) \in Goods
    <3>1. \A p \in Paths : m.at[p] # 0 /\ parent(p) \in T => p \in T
      BY <2>5
    <3> HIDE DEF T
    <3> QED BY <2>3, <3>1, GoneGood
  <2> HIDE DEF T
  <2> QED BY <2>1, <2>4, <2>6, Replied DEF Words, Outcomes
<1> QED BY <1>1, <1>2, <1>3, <1>4

\* Where a new entry goes is in a directory.  Where the name was not found there
\* is nothing in its place, or a link that does not lead to anything.
LEMMA SlotIs ==
  ASSUME NEW m \in Goods, NEW name \in Clean, name # Root
  PROVE  LET s == Slot(m, name) IN
         /\ s.err \in Words
         /\ s.err = "ok" =>
              /\ s.at \in Clean /\ s.at # Root /\ nodeAt(m, parent(s.at)).kind = "dir"
              /\ Open(m, name).err # "ok" => nodeAt(m, s.at).kind \in {"none", "link"}
              /\ Lstat(m, name).err # "ok" => nodeAt(m, s.at).kind = "none"
<1> DEFINE s == Slot(m, name)
           up == Open(m, parent(name))
           c == name[Len(name)]
<1>1. parent(name) \in Clean /\ c \in Components
  BY NameIs
<1>2. up.err \in Words /\ (up.err = "ok" => up.at \in Places)
  BY <1>1, Found DEF Open
<1>3. up = Open(m, parent(name))
  OBVIOUS
<1>4. CASE up.err # "ok"
  <2>1. s = up
    BY <1>4 DEF Slot, Then
  <2> HIDE DEF s, up
  <2> QED BY <1>2, <1>4, <2>1 DEF s
<1>5. CASE up.err = "ok" /\ nodeAt(m, up.at).kind # "dir"
  <2>1. s = [err |-> "notdir", at |-> up.at]
    BY <1>5 DEF Slot, Then
  <2>2. s.err = "notdir"
    BY <2>1
  <2> HIDE DEF s
  <2> QED BY <2>2 DEF s, Words, Outcomes
<1>6. CASE up.err = "ok" /\ nodeAt(m, up.at).kind = "dir"
  <2>1. s = [err |-> "ok", at |-> Append(up.at, c)]
    BY <1>6 DEF Slot, Then
  <2>2. s.err = "ok" /\ s.at = Append(up.at, c)
    BY <2>1
  <2> HIDE DEF s, up
  <2>3. up.at \in Clean
    BY <1>2, <1>6, PlacesAre
  <2>4. s.at \in Clean /\ s.at # Root /\ parent(s.at) = up.at
    BY <1>1, <2>2, <2>3, AppendIs
  <2> DEFINE kind == nodeAt(m, s.at).kind
  <2>5. kind \in {"none", "file", "dir", "link"}
    BY NodeAt, GoodsAre DEF Node
  <2>6. ASSUME NEW final \in BOOLEAN, kind \in {"file", "dir"} \/ (kind = "link" /\ ~final)
        PROVE  resolveLocked(m, name, final).err = "ok"
    <3>1. m \in Memories /\ RootStands(m)
      BY GoodsAre
    <3>2. LET k == nodeAt(m, Append(up.at, name[Len(name)])).kind IN k \in {"file", "dir"} \/ (k = "link" /\ ~final)
      BY <2>2, <2>6
    <3> QED BY <1>3, <1>6, <3>1, <3>2, FoundBelow
  <2>7. Open(m, name).err # "ok" => kind \in {"none", "link"}
    <3> HIDE DEF kind
    <3>1. kind \in {"file", "dir"} => resolveLocked(m, name, TRUE).err = "ok"
      BY <2>6
    <3> QED BY <2>5, <3>1 DEF Open
  <2>8. Lstat(m, name).err # "ok" => kind = "none"
    <3> HIDE DEF kind
    <3>1. kind \in {"file", "dir", "link"} => resolveLocked(m, name, FALSE).err = "ok"
      BY <2>6
    <3> QED BY <2>5, <3>1 DEF Lstat
  <2>9. s.err \in Words
    BY <2>2 DEF Words, Outcomes
  <2> QED BY <1>6, <2>4, <2>7, <2>8, <2>9 DEF s
<1> QED BY <1>4, <1>5, <1>6

\* The nodes that calls add.
LEMMA NewNodes ==
  /\ \A n \in Nat : Regular(n) \in Node /\ Sound(Regular(n)) /\ Regular(n).links = 1 /\ Regular(n).size = n
                    /\ Regular(n).kind = "file"
  /\ Directory \in Node /\ Sound(Directory) /\ Directory.links = 1 /\ Directory.size = 0
  /\ \A t \in LinkTargets : Symbolic(t) \in Node /\ Sound(Symbolic(t)) /\ Symbolic(t).links = 1 /\ Symbolic(t).size = 0
<1>1. NoTarget \in LinkTargets
  <2>1. Root \in Clean
    BY PlacesAre
  <2> QED BY <2>1 DEF NoTarget, Absolute, LinkTargets
<1> HIDE DEF NoTarget
<1>2. ASSUME NEW n \in Nat
      PROVE  Regular(n) \in Node /\ Sound(Regular(n)) /\ Regular(n).links = 1 /\ Regular(n).size = n
             /\ Regular(n).kind = "file"
  <2> DEFINE r == Regular(n)
  <2>1. r = [Nothing EXCEPT !.kind = "file", !.size = n, !.links = 1]
    BY DEF Regular
  <2> HIDE DEF r
  <2>2. r \in Node /\ r.links = 1 /\ r.size = n /\ r.kind = "file"
    BY <2>1, NothingIs DEF Node
  <2>3. Sound(r)
    BY <2>2 DEF Sound
  <2> QED BY <2>2, <2>3 DEF r
<1>3. Directory \in Node /\ Sound(Directory) /\ Directory.links = 1 /\ Directory.size = 0
  BY <1>1 DEF Directory, Nothing, Node, Sound
<1>4. ASSUME NEW t \in LinkTargets
      PROVE  Symbolic(t) \in Node /\ Sound(Symbolic(t)) /\ Symbolic(t).links = 1 /\ Symbolic(t).size = 0
  BY <1>4 DEF Symbolic, Nothing, Node, Sound
<1> QED BY <1>2, <1>3, <1>4

\* A new entry in a directory, in the place of nothing or of a link.
LEMMA InsertGood ==
  ASSUME NEW m \in Goods, NEW p \in Clean, p # Root, nodeAt(m, parent(p)).kind = "dir",
         nodeAt(m, p).kind \in {"none", "link"},
         NEW n \in Node, Sound(n), n.links = 1, Limit > 0 => m.used + n.size <= Limit
  PROVE  LET r == Insert(m, p, n) IN
         r \in Replies /\ (r.err = "ok" => nodeAt(r.fs, p) = n)
<1> DEFINE r == Insert(m, p, n)
<1>1. CASE p \notin Places \/ Fresh(m) = {}
  <2>1. r = Answer(m, "bound")
    BY <1>1 DEF Insert
  <2>2. r.err # "ok"
    BY <2>1 DEF Answer
  <2> QED BY <2>1, <2>2, Replied DEF Words
<1>2. CASE p \in Places /\ Fresh(m) # {}
  <2> DEFINE i == Sets!Min(Fresh(m))
             o == m.at[p]
             k == [at   |-> [m.at EXCEPT ![p] = i],
                   node |-> [j \in Ids |-> IF j = i THEN n ELSE IF j = o THEN Nothing ELSE m.node[j]],
                   used |-> m.used + n.size]
  <2>1. r = Answer(k, "ok")
    BY <1>2 DEF Insert, Then
  <2>2. i \in Ids /\ Names(m, i) = {}
    <3>1. Fresh(m) \subseteq Nat
      BY PlacesAre DEF Fresh
    <3>2. i \in Fresh(m)
      <4>1. \E x \in Fresh(m) : \A y \in Fresh(m) : x <= y
        BY <1>2, <3>1, MinimumExists
      <4> QED BY <4>1 DEF Sets!Min
    <3> QED BY <3>2 DEF Fresh
  <2>3. m \in Memories /\ Counted(m) /\ Charged(m) /\ Treed(m) /\ RootStands(m)
    BY GoodsAre
  <2>4. m.at \in [Places -> Ids \cup {0}] /\ m.node \in [Ids -> Node] /\ m.used \in Nat
    BY <2>3 DEF Memories
  <2>5. /\ k.at = [m.at EXCEPT ![p] = i] /\ k.used = m.used + n.size
        /\ k.node = [j \in Ids |-> IF j = i THEN n ELSE IF j = o THEN Nothing ELSE m.node[j]]
        /\ k = [at |-> k.at, node |-> k.node, used |-> k.used]
    OBVIOUS
  <2> HIDE DEF r, k, i
  <2>6. n.size \in Nat /\ Nothing \in Node /\ Nothing.size = 0 /\ Nothing.links = 0
    BY NothingIs DEF Node
  \* What was there had one name and no bytes.
  <2>7. o # 0 => o \in Ids /\ Names(m, o) = {p} /\ m.node[o].size = 0
    <3> SUFFICES ASSUME o # 0 PROVE o \in Ids /\ Names(m, o) = {p} /\ m.node[o].size = 0
      OBVIOUS
    <3>1. o \in Ids /\ nodeAt(m, p) = m.node[o] /\ nodeAt(m, p).kind \in {"file", "dir", "link"}
      BY <1>2, <2>3, NamedIs
    <3> QED BY <1>2, <2>3, <3>1, OnlyName
  <2>8. i # o /\ i # 0 /\ m.node[i] = Nothing
    <3>1. p \in Names(m, o)
      BY <1>2, NamesAre
    <3>2. m.node[i].links = 0 /\ Sound(m.node[i])
      BY <2>2, <2>3, NamesAre DEF Counted
    <3> QED BY <2>2, <3>1, <3>2, PlacesAre, NothingIs
  <2>9. /\ \A q \in Places : k.at[q] = IF q = p THEN i ELSE m.at[q]
        /\ \A j \in Ids : k.node[j] = IF j = i THEN n ELSE IF j = o THEN Nothing ELSE m.node[j]
    BY <1>2, <2>4, <2>5
  <2>10. k \in Memories
    <3>1. k.at \in [Places -> Ids \cup {0}]
      BY <1>2, <2>2, <2>4, <2>5
    <3>2. k.node \in [Ids -> Node]
      BY <2>4, <2>5, <2>6
    <3>3. k.used \in Nat
      BY <2>4, <2>5, <2>6
    <3> DEFINE a == k.at
               b == k.node
               u == k.used
    <3>4. a \in [Places -> Ids \cup {0}] /\ b \in [Ids -> Node] /\ u \in Nat /\ k = [at |-> a, node |-> b, used |-> u]
      BY <2>5, <3>1, <3>2, <3>3
    <3> HIDE DEF a, b, u
    <3> QED BY <3>4 DEF Memories
  <2>11. ASSUME NEW j \in Ids PROVE Sound(k.node[j]) /\ k.node[j].links = Cardinality(Names(k, j))
    <3>1. CASE j = i
      <4>1. Names(k, j) = {p}
        BY <1>2, <2>2, <2>9, <3>1 DEF Names
      <4>2. Cardinality(Names(k, j)) = 1
        BY <4>1, FS_Singleton
      <4> QED BY <2>9, <3>1, <4>2
    <3>2. CASE j # i /\ j = o
      <4>0. o # 0
        BY <3>2, PlacesAre
      <4>1. Names(k, j) = {}
        BY <2>7, <2>9, <3>2, <4>0 DEF Names
      <4>2. k.node[j] = Nothing
        BY <2>9, <3>2
      <4>3. Cardinality(Names(k, j)) = 0
        BY <4>1, FS_EmptySet
      <4> QED BY <2>6, <4>2, <4>3 DEF Sound
    <3>3. CASE j # i /\ j # o
      <4>1. Names(k, j) = Names(m, j)
        BY <1>2, <2>9, <3>3 DEF Names
      <4>2. k.node[j] = m.node[j]
        BY <2>9, <3>3
      <4> QED BY <2>3, <4>1, <4>2 DEF Counted
    <3> QED BY <3>1, <3>2, <3>3
  <2>12. Charged(k)
    <3>1. Sized(m.node, Ids) /\ Sized(k.node, Ids) /\ IsFiniteSet(Ids)
      BY <2>3, <2>10, SizesAre
    <3>2. ASSUME NEW j \in Ids \ {i} PROVE k.node[j].size = m.node[j].size
      <4>1. j \in Ids /\ j # 0
        BY PlacesAre
      <4> QED BY <2>6, <2>7, <2>9, <4>1
    <3>3. Total(k.node, Ids) = Total(m.node, Ids) - m.node[i].size + k.node[i].size
      BY <2>2, <3>1, <3>2, TotalChange
    <3>4. m.node[i].size = 0 /\ k.node[i].size = n.size /\ m.used = Total(m.node, Ids)
      BY <2>2, <2>3, <2>6, <2>8, <2>9 DEF Charged
    <3>5. k.used = Total(k.node, Ids)
      BY <2>4, <2>5, <2>6, <3>3, <3>4
    <3> QED BY <2>5, <3>5 DEF Charged
  <2>13. ASSUME NEW q \in Places, q # p PROVE nodeAt(k, q) = nodeAt(m, q)
    <3>1. k.at[q] = m.at[q]
      BY <2>9, <2>13
    <3>2. CASE m.at[q] = 0
      BY <3>1, <3>2 DEF nodeAt
    <3>3. CASE m.at[q] # 0
      <4>1. m.at[q] \in Ids
        BY <2>4, <3>3
      <4>2. q \in Names(m, m.at[q])
        BY NamesAre
      <4>3. m.at[q] # i /\ m.at[q] # o
        BY <2>2, <2>7, <2>13, <3>3, <4>2
      <4>4. k.node[m.at[q]] = m.node[m.at[q]]
        BY <2>9, <4>1, <4>3
      <4> QED BY <3>1, <4>4 DEF nodeAt
    <3> QED BY <3>2, <3>3
  <2>14. RootStands(k)
    BY <2>3, <2>13, PlacesAre DEF RootStands
  <2>15. ASSUME NEW q \in Paths, k.at[q] # 0 PROVE nodeAt(k, parent(q)).kind = "dir"
    <3>1. q \in Places /\ parent(q) \in Places
      BY PlacesAre
    <3>2. nodeAt(m, parent(q)).kind = "dir"
      BY <2>3, <2>9, <2>15, <3>1 DEF Treed
    <3>3. parent(q) # p
      BY <3>2
    <3> QED BY <2>13, <3>1, <3>2, <3>3
  <2>16. k \in Goods
    BY <2>10, <2>11, <2>12, <2>14, <2>15 DEF Goods, Tables, Treed, Counted
  <2>17. nodeAt(k, p) = n
    BY <1>2, <2>2, <2>8, <2>9 DEF nodeAt
  <2>18. r.fs = k
    BY <2>1 DEF Answer
  <2>19. r \in Replies
    BY <2>1, <2>16, Replied DEF Words, Outcomes
  <2> QED BY <2>17, <2>18, <2>19 DEF r
<1> QED BY <1>1, <1>2

\* A node to add: it has one name, and its bytes are within the limit.
Fits(m, n) == n \in Node /\ Sound(n) /\ n.links = 1 /\ (Limit > 0 => m.used + n.size <= Limit)

\* They fit, the file where the quota was looked at.
LEMMA NewFits ==
  ASSUME NEW m \in Goods
  PROVE  /\ Fits(m, Regular(0)) /\ Fits(m, Directory) /\ \A t \in LinkTargets : Fits(m, Symbolic(t))
         /\ \A n \in Nat : ~ReachesQuota(m, n) => Fits(m, Regular(n))
<1>1. m.used \in Nat /\ (Limit > 0 => m.used <= Limit) /\ m.used + 0 = m.used
  BY GoodsAre DEF Memories, Charged
<1>2. Fits(m, Regular(0)) /\ Fits(m, Directory) /\ \A t \in LinkTargets : Fits(m, Symbolic(t))
  BY <1>1, NewNodes DEF Fits
<1>3. ASSUME NEW n \in Nat, ~ReachesQuota(m, n) PROVE Fits(m, Regular(n))
  <2>1. Limit > 0 => m.used + n <= Limit
    BY <1>1, <1>3, MemoryAssumption DEF ReachesQuota
  <2> QED BY <2>1, NewNodes DEF Fits
<1> QED BY <1>2, <1>3

\* A node is added where the name has its slot, in place of nothing or of a link.
LEMMA InsertAtGood ==
  ASSUME NEW m \in Goods, NEW name \in Clean, name # Root, NEW n, Fits(m, n),
         Slot(m, name).err = "ok" => nodeAt(m, Slot(m, name).at).kind \in {"none", "link"}
  PROVE  /\ InsertAt(m, Slot(m, name), n) \in Replies
         /\ InsertAt(m, Slot(m, name), n).err = "ok" => nodeAt(InsertAt(m, Slot(m, name), n).fs, Slot(m, name).at) = n
<1> DEFINE s == Slot(m, name)
           r == InsertAt(m, s, n)
<1>1. /\ s.err \in Words
      /\ s.err = "ok" => s.at \in Clean /\ s.at # Root /\ nodeAt(m, parent(s.at)).kind = "dir"
  BY SlotIs
<1>2. s.err = "ok" => nodeAt(m, s.at).kind \in {"none", "link"}
  OBVIOUS
<1> HIDE DEF s
<1>3. CASE s.err # "ok"
  <2>1. r = Answer(m, s.err)
    BY <1>3 DEF InsertAt
  <2>2. r.err # "ok"
    BY <1>3, <2>1 DEF Answer
  <2>3. r \in Replies
    BY <1>1, <2>1, Replied
  <2> QED BY <2>2, <2>3 DEF s
<1>4. CASE s.err = "ok"
  <2>1. r = Insert(m, s.at, n)
    BY <1>4 DEF InsertAt
  <2> DEFINE a == s.at
  <2>2. a \in Clean /\ a # Root /\ nodeAt(m, parent(a)).kind = "dir" /\ nodeAt(m, a).kind \in {"none", "link"}
    BY <1>1, <1>2, <1>4
  <2>3. n \in Node /\ Sound(n) /\ n.links = 1 /\ (Limit > 0 => m.used + n.size <= Limit)
    BY DEF Fits
  <2> HIDE DEF a
  <2>4. Insert(m, a, n) \in Replies /\ (Insert(m, a, n).err = "ok" => nodeAt(Insert(m, a, n).fs, a) = n)
    BY <2>2, <2>3, InsertGood
  <2> QED BY <2>1, <2>4 DEF a, s
<1> QED BY <1>3, <1>4

\* The same where nothing may be in the way.
LEMMA InsertNewGood ==
  ASSUME NEW m \in Goods, NEW name \in Clean, name # Root, NEW n, Fits(m, n)
  PROVE  InsertNew(m, Slot(m, name), n) \in Replies
<1>1. CASE Slot(m, name).err = "ok" /\ nodeAt(m, Slot(m, name).at).kind # "none"
  <2>1. InsertNew(m, Slot(m, name), n) = Answer(m, "exist")
    BY <1>1 DEF InsertNew
  <2> QED BY <2>1, Replied DEF Words
<1>2. CASE ~(Slot(m, name).err = "ok" /\ nodeAt(m, Slot(m, name).at).kind # "none")
  <2>1. InsertNew(m, Slot(m, name), n) = InsertAt(m, Slot(m, name), n)
    BY <1>2 DEF InsertNew
  <2> QED BY <1>2, <2>1, InsertAtGood
<1> QED BY <1>1, <1>2

-----------------------------------------------------------------------------
(* Changes of a file.                                                      *)

\* A filesystem with some of its parts exchanged.
LEMMA PartsAre ==
  ASSUME NEW m \in Memories, NEW a, NEW b, NEW u
  PROVE  /\ [m EXCEPT !.node = b, !.used = u] = [at |-> m.at, node |-> b, used |-> u]
         /\ [m EXCEPT !.at = a, !.node = b] = [at |-> a, node |-> b, used |-> m.used]
         /\ [m EXCEPT !.at = a] = [at |-> a, node |-> m.node, used |-> m.used]
<1>1. m = [at |-> m.at, node |-> m.node, used |-> m.used]
  BY DEF Memories
<1> DEFINE n == [at |-> m.at, node |-> m.node, used |-> m.used]
<1>2. /\ [n EXCEPT !.node = b] = [at |-> m.at, node |-> b, used |-> m.used]
      /\ [n EXCEPT !.at = a] = [at |-> a, node |-> m.node, used |-> m.used]
  OBVIOUS
<1>3. /\ [m EXCEPT !.node = b, !.used = u] = [[m EXCEPT !.node = b] EXCEPT !.used = u]
      /\ [m EXCEPT !.at = a, !.node = b] = [[m EXCEPT !.at = a] EXCEPT !.node = b]
  OBVIOUS
<1>4. /\ [[at |-> m.at, node |-> b, used |-> m.used] EXCEPT !.used = u] = [at |-> m.at, node |-> b, used |-> u]
      /\ [[at |-> a, node |-> m.node, used |-> m.used] EXCEPT !.node = b] = [at |-> a, node |-> b, used |-> m.used]
  OBVIOUS
<1> HIDE DEF n
<1>5. m = n
  BY <1>1 DEF n
<1> QED BY <1>2, <1>3, <1>4, <1>5

\* The size of a file changes with the bytes that are charged.
LEMMA OverwriteGood ==
  ASSUME NEW m \in Goods, NEW i \in Ids, m.node[i].kind = "file", NEW n \in Nat,
         Limit > 0 => m.used + (n - m.node[i].size) <= Limit
  PROVE  overwrite(m, i, n) \in Goods
<1> DEFINE k == overwrite(m, i, n)
<1>1. m \in Memories /\ Counted(m) /\ Charged(m) /\ Treed(m) /\ RootStands(m)
  BY GoodsAre
<1>2. m.at \in [Places -> Ids \cup {0}] /\ m.node \in [Ids -> Node] /\ m.used \in Nat
  BY <1>1 DEF Memories
<1>3. m.node[i] \in Node /\ m.node[i].size \in Nat
  BY <1>2 DEF Node
<1>4. k = [at |-> m.at, node |-> [m.node EXCEPT ![i].size = n], used |-> m.used + n - m.node[i].size]
  <2>1. k = [m EXCEPT !.node[i].size = n, !.used = @ + n - m.node[i].size]
    BY DEF overwrite
  <2> HIDE DEF k
  <2> DEFINE b == [m.node EXCEPT ![i].size = n]
             u == m.used + n - m.node[i].size
  <2>2. k = [m EXCEPT !.node = b, !.used = u]
    BY <2>1
  <2> HIDE DEF b, u
  <2>3. k = [at |-> m.at, node |-> b, used |-> u]
    BY <1>1, <2>2, PartsAre
  <2> QED BY <2>3 DEF b, u
<1>5. k.at = m.at /\ k.node = [m.node EXCEPT ![i].size = n] /\ k.used = m.used + n - m.node[i].size
      /\ k = [at |-> k.at, node |-> k.node, used |-> k.used]
  BY <1>4
<1> HIDE DEF k
<1>6. /\ k.node \in [Ids -> Node] /\ k.node[i].size = n /\ k.node[i].kind = m.node[i].kind
      /\ k.node[i].links = m.node[i].links
      /\ \A j \in Ids \ {i} : k.node[j] = m.node[j]
  BY <1>2, <1>3, <1>5 DEF Node
<1>7. Sized(m.node, Ids) /\ Sized(k.node, Ids) /\ IsFiniteSet(Ids)
  <2>1. \A x \in Node : x.size \in Nat
    BY DEF Node
  <2> QED BY <1>2, <1>6, <2>1, PlacesAre DEF Sized
<1>8. Total(k.node, Ids) = Total(m.node, Ids) - m.node[i].size + k.node[i].size /\ Total(k.node, Ids) \in Nat
  <2>1. \A j \in Ids \ {i} : k.node[j].size = m.node[j].size
    BY <1>6
  <2> QED BY <1>7, <2>1, TotalChange, TotalType
<1>9. k.used = Total(k.node, Ids)
  BY <1>1, <1>2, <1>3, <1>5, <1>6, <1>8 DEF Charged
<1>10. Charged(k)
  <2>1. m.used + n - m.node[i].size = m.used + (n - m.node[i].size)
    BY <1>2, <1>3
  <2> QED BY <1>5, <1>9, <2>1 DEF Charged
<1>11. k \in Memories
  <2> DEFINE a == k.at
             b == k.node
             u == k.used
  <2>1. a \in [Places -> Ids \cup {0}] /\ b \in [Ids -> Node] /\ u \in Nat /\ k = [at |-> a, node |-> b, used |-> u]
    BY <1>2, <1>5, <1>6, <1>8, <1>9
  <2> HIDE DEF a, b, u
  <2> QED BY <2>1 DEF Memories
<1>12. Counted(k)
  <2>1. ASSUME NEW j \in Ids PROVE Sound(k.node[j]) /\ k.node[j].links = Cardinality(Names(k, j))
    <3>1. Names(k, j) = Names(m, j)
      BY <1>5 DEF Names
    <3>2. Sound(m.node[j]) /\ m.node[j].links = Cardinality(Names(m, j))
      BY <1>1 DEF Counted
    <3>3. CASE j # i
      BY <1>6, <3>1, <3>2, <3>3
    <3>4. CASE j = i
      <4>1. m.node[i].links # 0
        BY <3>2, <3>4, NothingIs DEF Sound
      <4> QED BY <1>6, <3>1, <3>2, <3>4, <4>1 DEF Sound
    <3> QED BY <3>3, <3>4
  <2> QED BY <2>1 DEF Counted
<1>13. ASSUME NEW q PROVE nodeAt(k, q).kind = nodeAt(m, q).kind
  <2>1. CASE q \in Places /\ m.at[q] # 0
    <3>1. m.at[q] \in Ids
      BY <1>2, <2>1
    <3>2. k.node[m.at[q]].kind = m.node[m.at[q]].kind
      BY <1>6, <3>1
    <3> QED BY <1>5, <2>1, <3>2 DEF nodeAt
  <2>2. CASE ~(q \in Places /\ m.at[q] # 0)
    BY <1>5, <2>2 DEF nodeAt
  <2> QED BY <2>1, <2>2
<1>14. Treed(k)
  BY <1>1, <1>5, <1>13 DEF Treed, RootStands
<1> QED BY <1>10, <1>11, <1>12, <1>14 DEF Goods, Tables, k

\* The same within the quota.
LEMMA ResizedGood ==
  ASSUME NEW m \in Goods, NEW i \in Ids, m.node[i].kind = "file", NEW n \in Nat
  PROVE  resized(m, i, n) \in Replies
<1>1. m.used \in Nat /\ m.node[i].size \in Nat
  BY GoodsAre, SizesAre DEF Memories, Node
<1>2. CASE ReachesQuota(m, n - m.node[i].size)
  <2>1. resized(m, i, n) = Answer(m, "quota")
    BY <1>2 DEF resized
  <2> QED BY <2>1, Replied DEF Words
<1>3. CASE ~ReachesQuota(m, n - m.node[i].size)
  <2>1. resized(m, i, n) = Answer(overwrite(m, i, n), "ok")
    BY <1>3 DEF resized
  <2>2. Limit > 0 => m.used + (n - m.node[i].size) <= Limit
    BY <1>1, <1>3, MemoryAssumption DEF ReachesQuota
  <2>3. overwrite(m, i, n) \in Goods
    BY <2>2, OverwriteGood
  <2> QED BY <2>1, <2>3, Replied DEF Words, Outcomes
<1> QED BY <1>2, <1>3

\* A file grows within the quota.
LEMMA GrowGood ==
  ASSUME NEW m \in Goods, NEW p, NEW n \in Nat
  PROVE  Grow(m, p, n) \in Replies
<1>1. CASE nodeAt(m, p).kind # "file"
  <2>1. Grow(m, p, n) = Answer(m, "isdir")
    BY <1>1 DEF Grow, Then
  <2> QED BY <2>1, Replied DEF Words
<1>2. CASE nodeAt(m, p).kind = "file"
  <2>1. Grow(m, p, n) = resized(m, m.at[p], nodeAt(m, p).size + n)
    BY <1>2 DEF Grow, Then
  <2>2. m.at[p] \in Ids /\ nodeAt(m, p) = m.node[m.at[p]] /\ nodeAt(m, p).size \in Nat
    BY <1>2, GoodsAre, NodeAt DEF Node
  <2> DEFINE i == m.at[p]
             size == nodeAt(m, p).size + n
  <2>3. i \in Ids /\ m.node[i].kind = "file" /\ size \in Nat
    BY <1>2, <2>2
  <2> HIDE DEF i, size
  <2>4. resized(m, i, size) \in Replies
    BY <2>3, ResizedGood
  <2> QED BY <2>1, <2>4 DEF i, size
<1> QED BY <1>1, <1>2

-----------------------------------------------------------------------------
(* Operations.                                                             *)

\* CreateFile keeps the filesystem good.
LEMMA CreateFileGood ==
  ASSUME NEW m \in Goods, NEW name \in Clean, name # Root, NEW n \in Nat
  PROVE  createFile(m, name, n) \in Replies
<1> DEFINE found == Lstat(m, name)
           slot == Slot(m, name)
<1>0. found.err \in Words /\ slot.err \in Words
  BY Found, SlotIs DEF Lstat
<1> HIDE DEF found, slot
<1>1. CASE found.err = "ok"
  <2>1. createFile(m, name, n) = Answer(m, "exist")
    BY <1>1 DEF createFile, Then, found
  <2> QED BY <2>1, Replied DEF Words
<1>2. CASE found.err = "notexist" /\ slot.err = "ok" /\ ReachesQuota(m, n)
  <2>1. createFile(m, name, n) = Answer(m, "quota")
    BY <1>2 DEF createFile, Then, found, slot
  <2> QED BY <2>1, Replied DEF Words
<1>3. CASE found.err = "notexist" /\ ~(slot.err = "ok" /\ ReachesQuota(m, n))
  <2>1. createFile(m, name, n) = InsertNew(m, slot, Regular(n))
    BY <1>3 DEF createFile, Then, found, slot
  <2>2. CASE slot.err = "ok"
    <3>1. Fits(m, Regular(n))
      BY <1>3, <2>2, NewFits
    <3> QED BY <2>1, <3>1, InsertNewGood DEF slot
  <2>3. CASE slot.err # "ok"
    <3>1. InsertNew(m, slot, Regular(n)) = Answer(m, slot.err)
      BY <2>3 DEF InsertNew, InsertAt
    <3> QED BY <1>0, <2>1, <3>1, Replied
  <2> QED BY <2>2, <2>3
<1>4. CASE found.err \notin {"ok", "notexist"}
  <2>1. createFile(m, name, n) = Answer(m, found.err)
    BY <1>4 DEF createFile, Then, found
  <2> QED BY <1>0, <2>1, Replied
<1> QED BY <1>1, <1>2, <1>3, <1>4

\* So does WriteFile,
LEMMA WriteFileGood ==
  ASSUME NEW m \in Goods, NEW name \in Clean, name # Root, NEW n \in Nat
  PROVE  writeFile(m, name, n) \in Replies
<1> DEFINE found == Open(m, name)
           slot == Slot(m, name)
<1>0. /\ found.err \in Words /\ slot.err \in Words
      /\ found.err = "ok" => /\ m.at[found.at] \in Ids /\ nodeAt(m, found.at) = m.node[m.at[found.at]]
                             /\ nodeAt(m, found.at).kind \in {"file", "dir"}
      /\ slot.err = "ok" /\ found.err # "ok" => nodeAt(m, slot.at).kind \in {"none", "link"}
  BY Found, SlotIs DEF Open
<1> HIDE DEF found, slot
<1>1. CASE found.err = "ok" /\ nodeAt(m, found.at).kind = "dir"
  <2>1. writeFile(m, name, n) = Answer(m, "isdir")
    BY <1>1 DEF writeFile, Then, found
  <2> QED BY <2>1, Replied DEF Words
<1>2. CASE found.err = "ok" /\ nodeAt(m, found.at).kind # "dir"
  <2> DEFINE i == m.at[found.at]
  <2>1. writeFile(m, name, n) = resized(m, i, n)
    BY <1>2 DEF writeFile, Then, found
  <2>2. i \in Ids /\ m.node[i].kind = "file"
    BY <1>0, <1>2
  <2> HIDE DEF i
  <2> QED BY <2>1, <2>2, ResizedGood
<1>3. CASE found.err = "notexist" /\ slot.err = "ok" /\ ReachesQuota(m, n)
  <2>1. writeFile(m, name, n) = Answer(m, "quota")
    BY <1>3 DEF writeFile, Then, found, slot
  <2> QED BY <2>1, Replied DEF Words
<1>4. CASE found.err = "notexist" /\ ~(slot.err = "ok" /\ ReachesQuota(m, n))
  <2>1. writeFile(m, name, n) = InsertAt(m, slot, Regular(n))
    BY <1>4 DEF writeFile, Then, found, slot
  <2>2. CASE slot.err = "ok"
    <3>1. Fits(m, Regular(n)) /\ nodeAt(m, slot.at).kind \in {"none", "link"}
      BY <1>0, <1>4, <2>2, NewFits
    <3> QED BY <2>1, <3>1, InsertAtGood DEF slot
  <2>3. CASE slot.err # "ok"
    <3>1. InsertAt(m, slot, Regular(n)) = Answer(m, slot.err)
      BY <2>3 DEF InsertAt
    <3> QED BY <1>0, <2>1, <3>1, Replied
  <2> QED BY <2>2, <2>3
<1>5. CASE found.err \notin {"ok", "notexist"}
  <2>1. writeFile(m, name, n) = Answer(m, found.err)
    BY <1>5 DEF writeFile, Then, found
  <2> QED BY <1>0, <2>1, Replied
<1> QED BY <1>1, <1>2, <1>3, <1>4, <1>5

\* AppendFile, which adds an empty file before it looks at the quota,
LEMMA AppendFileGood ==
  ASSUME NEW m \in Goods, NEW name \in Clean, name # Root, NEW n \in Nat
  PROVE  appendFile(m, name, n) \in Replies
<1> DEFINE found == Open(m, name)
           slot == Slot(m, name)
           made == InsertAt(m, slot, Regular(0))
<1>0. /\ found.err \in Words
      /\ slot.err = "ok" /\ found.err # "ok" => nodeAt(m, slot.at).kind \in {"none", "link"}
  BY Found, SlotIs DEF Open
<1>1. CASE found.err = "ok"
  <2>1. appendFile(m, name, n) = Grow(m, found.at, n)
    BY <1>1 DEF appendFile, Then
  <2> QED BY <2>1, GrowGood
<1>2. CASE found.err = "notexist"
  <2>1. Fits(m, Regular(0))
    BY NewFits
  <2>2. made \in Replies
    <3>1. slot.err = "ok" => nodeAt(m, slot.at).kind \in {"none", "link"}
      BY <1>0, <1>2
    <3> QED BY <2>1, <3>1, InsertAtGood
  <2>3. CASE made.err # "ok"
    <3>1. appendFile(m, name, n) = made
      BY <1>2, <2>3 DEF appendFile, Then
    <3> QED BY <2>2, <3>1
  <2>4. CASE made.err = "ok"
    <3>1. appendFile(m, name, n) = Grow(made.fs, slot.at, n)
      BY <1>2, <2>4 DEF appendFile, Then
    <3> HIDE DEF made
    <3>2. made.fs \in Goods
      BY <2>2 DEF Replies
    <3> QED BY <3>1, <3>2, GrowGood
  <2> QED BY <2>3, <2>4
<1>3. CASE found.err \notin {"ok", "notexist"}
  <2>1. appendFile(m, name, n) = Answer(m, found.err)
    BY <1>3 DEF appendFile, Then
  <2> HIDE DEF found
  <2> QED BY <1>0, <2>1, Replied
<1> QED BY <1>1, <1>2, <1>3

\* Mkdir,
LEMMA MkdirGood ==
  ASSUME NEW m \in Goods, NEW name \in Clean, name # Root
  PROVE  mkdir(m, name) \in Replies
<1> DEFINE found == Open(m, name)
<1>0. found.err \in Words
  BY Found DEF Open
<1>1. CASE found.err = "ok"
  <2>1. mkdir(m, name) = Answer(m, "exist")
    BY <1>1 DEF mkdir, Then
  <2> QED BY <2>1, Replied DEF Words
<1>2. CASE found.err = "notexist"
  <2>1. mkdir(m, name) = InsertNew(m, Slot(m, name), Directory)
    BY <1>2 DEF mkdir, Then
  <2> QED BY <2>1, NewFits, InsertNewGood
<1>3. CASE found.err \notin {"ok", "notexist"}
  <2>1. mkdir(m, name) = Answer(m, found.err)
    BY <1>3 DEF mkdir, Then
  <2> HIDE DEF found
  <2> QED BY <1>0, <2>1, Replied
<1> QED BY <1>1, <1>2, <1>3

\* each turn of MkdirAll,
LEMMA MkdirStepGood ==
  ASSUME NEW m \in Goods, NEW name \in Clean, name # Root
  PROVE  mkdirStep(m, name) \in Replies
<1>1. mkdirStep(m, name) = IF mkdir(m, name).err = "exist" THEN Answer(m, "ok") ELSE mkdir(m, name)
  BY DEF mkdirStep, Then
<1>2. Answer(m, "ok") \in Replies
  BY Replied DEF Words, Outcomes
<1> QED BY <1>1, <1>2, MkdirGood

\* and Symlink.
LEMMA SymlinkGood ==
  ASSUME NEW m \in Goods, NEW name \in Clean, name # Root, NEW t \in LinkTargets
  PROVE  symlink(m, t, name) \in Replies
<1> DEFINE found == Lstat(m, name)
           slot == Slot(m, name)
<1>0. found.err \in Words /\ (slot.err = "ok" /\ found.err # "ok" => nodeAt(m, slot.at).kind = "none")
  BY Found, SlotIs DEF Lstat
<1>1. CASE found.err = "ok"
  <2>1. symlink(m, t, name) = Answer(m, "exist")
    BY <1>1 DEF symlink, Then
  <2> QED BY <2>1, Replied DEF Words
<1>2. CASE found.err = "notexist"
  <2>1. symlink(m, t, name) = InsertAt(m, slot, Symbolic(t))
    BY <1>2 DEF symlink, Then
  <2>2. Fits(m, Symbolic(t)) /\ (slot.err = "ok" => nodeAt(m, slot.at).kind \in {"none", "link"})
    BY <1>0, <1>2, NewFits
  <2> QED BY <2>1, <2>2, InsertAtGood
<1>3. CASE found.err \notin {"ok", "notexist"}
  <2>1. symlink(m, t, name) = Answer(m, found.err)
    BY <1>3 DEF symlink, Then
  <2> HIDE DEF found
  <2> QED BY <1>0, <2>1, Replied
<1> QED BY <1>1, <1>2, <1>3

\* Sets between whose elements there is a map that is one to one have as many.
LEMMA AsMany ==
  ASSUME NEW S, NEW T, NEW f \in [S -> T], \A x, y \in S : f[x] = f[y] => x = y,
         \A t \in T : \E s \in S : f[s] = t, IsFiniteSet(S)
  PROVE  Cardinality(T) = Cardinality(S)
<1>1. f \in Bijection(S, T)
  BY DEF Bijection, Injection, Surjection, IsInjective
<1>2. ExistsBijection(S, T)
  BY <1>1 DEF ExistsBijection
<1> QED BY <1>2, FS_Bijection

\* A second name for a file.
LEMMA LinkGood ==
  ASSUME NEW m \in Goods, NEW oldName \in Clean, NEW newName
  PROVE  link(m, oldName, newName) \in Replies
<1> DEFINE found == Open(m, oldName)
           j == m.at[found.at]
           k == [m EXCEPT !.at[newName] = j, !.node[j].links = @ + 1]
<1>0. /\ found.err \in Words
      /\ found.err = "ok" => j \in Ids /\ nodeAt(m, found.at) = m.node[j]
  BY Found DEF Open
<1>1. CASE found.err # "ok"
  <2>1. link(m, oldName, newName) = Answer(m, found.err)
    BY <1>1 DEF link, Then
  <2> HIDE DEF found
  <2> QED BY <1>0, <2>1, Replied
<1>2. ASSUME found.err = "ok", nodeAt(m, found.at).kind = "file", newName \in Places, m.at[newName] = 0,
             nodeAt(m, parent(newName)).kind = "dir"
      PROVE  k \in Goods
  <2>1. m \in Memories /\ Counted(m) /\ Charged(m) /\ Treed(m) /\ RootStands(m) /\ m.at[Root] # 0
    BY GoodsAre
  <2>2. m.at \in [Places -> Ids \cup {0}] /\ m.node \in [Ids -> Node] /\ m.used \in Nat
    BY <2>1 DEF Memories
  <2>3. j \in Ids /\ m.node[j].kind = "file" /\ m.node[j] \in Node
    BY <1>0, <1>2, <2>2
  <2> DEFINE a == [m.at EXCEPT ![newName] = j]
             b == [m.node EXCEPT ![j].links = @ + 1]
  <2>4. k = [at |-> a, node |-> b, used |-> m.used]
    <3>1. k = [m EXCEPT !.at = a, !.node = b]
      OBVIOUS
    <3> HIDE DEF k, a, b
    <3> QED BY <2>1, <3>1, PartsAre
  <2>5. k.at = a /\ k.node = b /\ k.used = m.used /\ k = [at |-> k.at, node |-> k.node, used |-> k.used]
    <3> HIDE DEF k, a, b
    <3> QED BY <2>4
  <2> HIDE DEF found, j, k
  <2>6. /\ a \in [Places -> Ids \cup {0}] /\ b \in [Ids -> Node]
        /\ b[j].kind = m.node[j].kind /\ b[j].size = m.node[j].size /\ b[j].links = m.node[j].links + 1
        /\ \A i \in Ids : i # j => b[i] = m.node[i]
        /\ \A p \in Places : a[p] = IF p = newName THEN j ELSE m.at[p]
    BY <1>2, <2>2, <2>3 DEF Node
  <2> HIDE DEF a, b
  <2>7. k \in Memories
    BY <2>2, <2>4, <2>6 DEF Memories
  <2>8. ASSUME NEW i \in Ids PROVE Sound(b[i]) /\ b[i].links = Cardinality(Names(k, i))
    <3>0. Sound(m.node[i]) /\ m.node[i].links = Cardinality(Names(m, i)) /\ m.node[i].links \in Nat
      BY <2>1, <2>2 DEF Counted, Node
    <3>1. CASE i = j
      <4>1. Names(k, i) = Names(m, i) \cup {newName} /\ newName \notin Names(m, i)
        BY <1>2, <2>3, <2>5, <2>6, <3>1, PlacesAre DEF Names
      <4>2. Cardinality(Names(k, i)) = Cardinality(Names(m, i)) + 1
        BY <4>1, NamesAre, FS_AddElement
      <4>3. b[i].links = m.node[i].links + 1 /\ b[i].kind = "file"
        BY <2>3, <2>6, <3>1
      <4>4. b[i].links # 0
        BY <3>0, <4>3
      <4> QED BY <3>0, <4>2, <4>3, <4>4 DEF Sound
    <3>2. CASE i # j
      <4>1. Names(k, i) = Names(m, i)
        BY <1>2, <2>5, <2>6, <3>2, PlacesAre DEF Names
      <4> QED BY <2>6, <3>0, <3>2, <4>1
    <3> QED BY <3>1, <3>2
  <2>9. Charged(k)
    <3>1. Sized(m.node, Ids) /\ Sized(b, Ids) /\ IsFiniteSet(Ids)
      BY <2>1, <2>5, <2>7, SizesAre
    <3>2. Ids \in SUBSET Ids /\ (\A i \in Ids : b[i].size = m.node[i].size) /\ \A i \in Ids \ Ids : m.node[i].size = 0
      BY <2>6
    <3>3. Total(m.node, Ids) = Total(b, Ids)
      BY <3>1, <3>2, TotalSame
    <3> QED BY <2>1, <2>5, <3>3 DEF Charged
  <2>10. ASSUME NEW q \in Places, q # newName PROVE nodeAt(k, q).kind = nodeAt(m, q).kind
    <3>1. a[q] = m.at[q]
      BY <2>6, <2>10
    <3>2. CASE m.at[q] = 0
      BY <2>5, <3>1, <3>2 DEF nodeAt
    <3>3. CASE m.at[q] # 0
      <4>1. m.at[q] \in Ids
        BY <2>2, <3>3
      <4>2. b[m.at[q]].kind = m.node[m.at[q]].kind
        BY <2>6, <4>1
      <4> QED BY <2>5, <3>1, <3>3, <4>2 DEF nodeAt
    <3> QED BY <3>2, <3>3
  <2>11. RootStands(k)
    BY <1>2, <2>1, <2>10, PlacesAre DEF RootStands
  <2>12. ASSUME NEW q \in Paths, k.at[q] # 0 PROVE nodeAt(k, parent(q)).kind = "dir"
    <3>1. q \in Places /\ parent(q) \in Places
      BY PlacesAre
    <3>2. nodeAt(m, parent(q)).kind = "dir"
      BY <1>2, <2>1, <2>5, <2>6, <2>12, <3>1 DEF Treed
    <3>3. parent(q) # newName
      BY <1>2, <3>2, NothingIs DEF nodeAt
    <3> QED BY <2>10, <3>1, <3>2, <3>3
  <2> QED BY <2>5, <2>7, <2>8, <2>9, <2>11, <2>12 DEF Goods, Tables, Treed, Counted
<1>3. CASE found.err = "ok" /\ nodeAt(m, found.at).kind = "file" /\ newName \in Places /\ m.at[newName] = 0
           /\ nodeAt(m, parent(newName)).kind = "dir"
  <2>1. link(m, oldName, newName) = Answer(k, "ok")
    BY <1>3 DEF link, Then
  <2>2. k \in Goods
    BY <1>2, <1>3
  <2> HIDE DEF k
  <2> QED BY <2>1, <2>2, Replied DEF Words, Outcomes
<1>4. CASE found.err = "ok" /\ ~(nodeAt(m, found.at).kind = "file" /\ newName \in Places /\ m.at[newName] = 0
           /\ nodeAt(m, parent(newName)).kind = "dir")
  <2>1. link(m, oldName, newName) \in {Answer(m, e) : e \in {"notregular", "bound", "exist", "notexist", "notdir"}}
    BY <1>4 DEF link, Then
  <2>2. PICK e \in {"notregular", "bound", "exist", "notexist", "notdir"} : link(m, oldName, newName) = Answer(m, e)
    BY <2>1
  <2> QED BY <2>2, Replied DEF Words, Outcomes
<1> QED BY <1>1, <1>3, <1>4

-----------------------------------------------------------------------------
(* Renames.                                                                *)

\* What a name lies in.
LEMMA UpOf ==
  ASSUME NEW p \in Clean, p # Root
  PROVE  /\ parent(p) = Up(p) /\ p # <<>> /\ parent(p) \in Clean
         /\ Prefix(parent(p), p) /\ parent(p) # p
         /\ \A q \in Clean : /\ Prefix(q, parent(p)) => Prefix(q, p)
                             /\ Prefix(q, p) /\ q # p => Prefix(q, parent(p))
<1>1. parent(p) = Up(p) /\ p # <<>> /\ p \in Seq(Components)
  BY DEF parent, Up, Root, Clean
<1>2. /\ Up(p) \in Seq(Components) /\ Prefix(Up(p), p) /\ Up(p) # p
      /\ \A q \in Seq(Components) : Prefix(q, p) /\ q # p => Prefix(q, Up(p))
  BY <1>1, UpIs
<1>3. \A q \in Seq(Components) : Prefix(q, Up(p)) => Prefix(q, p)
  BY <1>1, <1>2, PrefixTransitive
<1> QED BY <1>1, <1>2, <1>3 DEF Clean

\* What a rename of old takes along, and what it leads to.
Taken(c, old) == {p \in Places : c.at[p] # 0 /\ Prefix(old, p)}
ShiftedAt(c, old, new) ==
  [r \in Places |-> IF Prefix(new, r) /\ Shift(r, new, old) \in Taken(c, old) THEN c.at[Shift(r, new, old)]
                    ELSE IF r \in Taken(c, old) THEN 0 ELSE c.at[r]]
Shifted(c, old, new) == [at |-> ShiftedAt(c, old, new), node |-> c.node, used |-> c.used]

\* There is a place for all that a rename takes along, and nothing is there yet.
Shifts(c, old, new) ==
  /\ old \in Paths /\ new \in Paths /\ ~Prefix(old, new)
  /\ \A r \in Places : Prefix(new, r) => c.at[r] = 0
  /\ \A p \in Taken(c, old) : Shift(p, old, new) \in Places

\* What is taken along is at its new place, what is not is where it was.
LEMMA ShiftedIs ==
  ASSUME NEW c \in Memories, NEW old, NEW new, Shifts(c, old, new)
  PROVE  LET T == Taken(c, old)
             at == ShiftedAt(c, old, new)
         IN  /\ \A p \in T : /\ Shift(p, old, new) \in Places /\ Prefix(new, Shift(p, old, new))
                             /\ Shift(Shift(p, old, new), new, old) = p
                             /\ at[Shift(p, old, new)] = c.at[p]
             /\ \A r \in Places : ~Prefix(new, r) => at[r] = IF r \in T THEN 0 ELSE c.at[r]
             /\ \A r \in Places : Prefix(new, r) => /\ r \notin T
                                                    /\ at[r] # 0 => \E p \in T : r = Shift(p, old, new)
<1> DEFINE T == Taken(c, old)
           at == ShiftedAt(c, old, new)
<1>1. /\ old \in Clean /\ new \in Clean /\ Places \subseteq Clean /\ Clean = Seq(Components)
  BY PlacesAre DEF Shifts, Clean
<1>2. \A r \in Places : at[r] = IF Prefix(new, r) /\ Shift(r, new, old) \in T THEN c.at[Shift(r, new, old)]
                                ELSE IF r \in T THEN 0 ELSE c.at[r]
  BY DEF ShiftedAt
<1>3. \A r \in Places : Prefix(new, r) => c.at[r] = 0
  BY DEF Shifts
<1>4. \A p : p \in T <=> p \in Places /\ c.at[p] # 0 /\ Prefix(old, p)
  BY DEF Taken
<1>a. \A p \in T : Shift(p, old, new) \in Places
  BY DEF Shifts
<1> HIDE DEF T, at
<1>5. ASSUME NEW p \in T
      PROVE  /\ Shift(p, old, new) \in Places /\ Prefix(new, Shift(p, old, new))
             /\ Shift(Shift(p, old, new), new, old) = p /\ at[Shift(p, old, new)] = c.at[p]
  <2>1. p \in Clean /\ Prefix(old, p)
    BY <1>1, <1>4
  <2>2. Prefix(new, Shift(p, old, new))
    BY <1>1, <2>1, ShiftIs
  <2>3. Shift(Shift(p, old, new), new, old) = p
    BY <1>1, <2>1, ShiftBack
  <2> DEFINE r == Shift(p, old, new)
  <2>4. r \in Places /\ Prefix(new, r) /\ Shift(r, new, old) = p
    BY <1>a, <2>2, <2>3
  <2> HIDE DEF r
  <2>5. at[r] = c.at[p]
    BY <1>2, <2>4
  <2> QED BY <2>4, <2>5 DEF r
<1>6. ASSUME NEW r \in Places, Prefix(new, r)
      PROVE  r \notin T /\ (at[r] # 0 => \E p \in T : r = Shift(p, old, new))
  <2>1. r \notin T /\ c.at[r] = 0
    BY <1>3, <1>4, <1>6
  <2>2. ASSUME at[r] # 0 PROVE Shift(r, new, old) \in T
    BY <1>2, <2>1, <2>2
  <2>3. Shift(Shift(r, new, old), old, new) = r
    BY <1>1, <1>6, ShiftBack
  <2> QED BY <2>1, <2>2, <2>3
<1>7. \A r \in Places : ~Prefix(new, r) => at[r] = IF r \in T THEN 0 ELSE c.at[r]
  BY <1>2
<1> QED BY <1>5, <1>6, <1>7 DEF T, at

\* No node gains or loses a name.
LEMMA ShiftedNames ==
  ASSUME NEW c \in Memories, NEW old, NEW new, Shifts(c, old, new), NEW i \in Ids
  PROVE  Cardinality(Names(Shifted(c, old, new), i)) = Cardinality(Names(c, i))
<1> DEFINE T == Taken(c, old)
           at == ShiftedAt(c, old, new)
           S == Names(c, i)
           U == Names(Shifted(c, old, new), i)
           to(s) == IF s \in T THEN Shift(s, old, new) ELSE s
           f == [s \in S |-> to(s)]
<1>1. /\ \A p \in T : /\ Shift(p, old, new) \in Places /\ Prefix(new, Shift(p, old, new))
                      /\ Shift(Shift(p, old, new), new, old) = p
                      /\ at[Shift(p, old, new)] = c.at[p]
      /\ \A r \in Places : ~Prefix(new, r) => at[r] = IF r \in T THEN 0 ELSE c.at[r]
      /\ \A r \in Places : Prefix(new, r) => /\ r \notin T
                                             /\ at[r] # 0 => \E p \in T : r = Shift(p, old, new)
  BY ShiftedIs
<1>2. \A p : p \in T <=> p \in Places /\ c.at[p] # 0 /\ Prefix(old, p)
  BY DEF Taken
<1>3. (\A p : p \in S <=> p \in Places /\ c.at[p] = i) /\ (\A p : p \in U <=> p \in Places /\ at[p] = i) /\ i # 0
  BY PlacesAre DEF Names, Shifted
<1>4. \A r \in Places : Prefix(new, r) => c.at[r] = 0
  BY DEF Shifts
<1>5. IsFiniteSet(S)
  BY NamesAre
<1> HIDE DEF T, at, S, U
<1>6. ASSUME NEW s \in S PROVE to(s) \in U /\ (s \notin T => ~Prefix(new, s))
  BY <1>1, <1>2, <1>3, <1>4
<1>7. f \in [S -> U]
  BY <1>6
<1>8. ASSUME NEW x \in S, NEW y \in S, f[x] = f[y] PROVE x = y
  <2>1. to(x) = to(y)
    BY <1>8
  <2>2. \A s \in S : s \in T <=> Prefix(new, to(s))
    BY <1>1, <1>6
  <2>3. \A s \in S : s \in T => Shift(to(s), new, old) = s
    BY <1>1
  <2> QED BY <2>1, <2>2, <2>3
<1>9. ASSUME NEW t \in U PROVE \E s \in S : f[s] = t
  <2>1. t \in Places /\ at[t] = i /\ i # 0
    BY <1>3
  <2>2. CASE Prefix(new, t)
    <3>1. PICK p \in T : t = Shift(p, old, new)
      BY <1>1, <2>1, <2>2
    <3>2. p \in S
      BY <1>1, <1>2, <1>3, <2>1, <3>1
    <3> QED BY <3>1, <3>2
  <2>3. CASE ~Prefix(new, t)
    <3>1. t \notin T /\ t \in S
      BY <1>1, <1>3, <2>1, <2>3
    <3> QED BY <3>1
  <2> QED BY <2>2, <2>3
<1> HIDE DEF f
<1>10. Cardinality(U) = Cardinality(S)
  BY <1>5, <1>7, <1>8, <1>9, AsMany
<1> QED BY <1>10 DEF S, U

\* The tree that is taken along stays one in its new place.
LEMMA ShiftedGood ==
  ASSUME NEW c \in Goods, NEW old, NEW new, Shifts(c, old, new), nodeAt(c, parent(new)).kind = "dir"
  PROVE  Shifted(c, old, new) \in Goods
<1> DEFINE T == Taken(c, old)
           at == ShiftedAt(c, old, new)
           k == Shifted(c, old, new)
<1>1. c \in Memories /\ Counted(c) /\ Charged(c) /\ Treed(c) /\ RootStands(c) /\ c.at[Root] # 0
  BY GoodsAre
<1>2. /\ \A p \in T : /\ Shift(p, old, new) \in Places /\ Prefix(new, Shift(p, old, new))
                      /\ Shift(Shift(p, old, new), new, old) = p
                      /\ at[Shift(p, old, new)] = c.at[p]
      /\ \A r \in Places : ~Prefix(new, r) => at[r] = IF r \in T THEN 0 ELSE c.at[r]
      /\ \A r \in Places : Prefix(new, r) => /\ r \notin T
                                             /\ at[r] # 0 => \E p \in T : r = Shift(p, old, new)
  BY <1>1, ShiftedIs
<1>3. \A p : p \in T <=> p \in Places /\ c.at[p] # 0 /\ Prefix(old, p)
  BY DEF Taken
<1>4. (\A r \in Places : Prefix(new, r) => c.at[r] = 0) /\ old \in Paths /\ new \in Paths /\ ~Prefix(old, new)
  BY DEF Shifts
<1>5. old \in Clean /\ new \in Clean /\ old # Root /\ new # Root /\ Places \subseteq Clean /\ Clean = Seq(Components)
      /\ Root = <<>>
  BY <1>4, PlacesAre DEF Clean, Root
<1>6. k.at = at /\ k.node = c.node /\ k.used = c.used /\ k = [at |-> at, node |-> c.node, used |-> c.used]
  BY DEF Shifted
<1>7. \A i \in Ids : Cardinality(Names(k, i)) = Cardinality(Names(c, i))
  BY <1>1, ShiftedNames
<1>8. c.at \in [Places -> Ids \cup {0}] /\ c.node \in [Ids -> Node] /\ c.used \in Nat
  BY <1>1 DEF Memories
<1>9. at = [r \in Places |-> at[r]]
  BY DEF ShiftedAt
<1> HIDE DEF T, at, k
<1>10. at \in [Places -> Ids \cup {0}]
  <2>1. ASSUME NEW r \in Places PROVE at[r] \in Ids \cup {0}
    <3>1. CASE Prefix(new, r) /\ at[r] # 0
      BY <1>2, <1>3, <1>8, <3>1
    <3>2. CASE ~(Prefix(new, r) /\ at[r] # 0)
      BY <1>2, <1>8, <3>2
    <3> QED BY <3>1, <3>2
  <2> QED BY <1>9, <2>1
<1>11. k \in Memories
  BY <1>6, <1>8, <1>10 DEF Memories
<1>12. Counted(k) /\ Charged(k)
  BY <1>1, <1>6, <1>7 DEF Counted, Charged
<1>13. ASSUME NEW p \in T PROVE nodeAt(k, Shift(p, old, new)) = nodeAt(c, p)
  BY <1>2, <1>3, <1>6 DEF nodeAt
<1>14. ASSUME NEW r \in Places, r \notin T, ~Prefix(new, r) PROVE nodeAt(k, r) = nodeAt(c, r)
  BY <1>2, <1>6, <1>14 DEF nodeAt
<1>15. Root \notin T /\ ~Prefix(new, Root)
  BY <1>3, <1>5, PrefixOrder
<1>16. RootStands(k)
  BY <1>1, <1>14, <1>15, PlacesAre DEF RootStands
<1>17. ASSUME NEW q, nodeAt(c, q).kind = "dir" PROVE q \in Places /\ c.at[q] # 0
  BY <1>17, NothingIs DEF nodeAt
<1>18. ASSUME NEW q \in Paths, k.at[q] # 0 PROVE nodeAt(k, parent(q)).kind = "dir"
  <2>0. q \in Places /\ at[q] # 0 /\ q \in Clean /\ q # Root
    BY <1>6, <1>18, PlacesAre
  <2>1. CASE Prefix(new, q)
    <3>1. PICK p \in T : q = Shift(p, old, new)
      BY <1>2, <2>0, <2>1
    <3>2. p \in Places /\ p \in Clean /\ Prefix(old, p) /\ c.at[p] # 0
      BY <1>3, <1>5
    <3>3. CASE p = old
      <4>1. q = new
        BY <1>5, <3>1, <3>2, <3>3, ShiftBack
      <4> DEFINE u == parent(new)
      <4>2. u \in Places /\ nodeAt(c, u).kind = "dir" /\ u \in Clean
        BY <1>5, <1>17
      <4>3. Prefix(u, new) /\ u # new /\ (Prefix(old, u) => Prefix(old, new))
        BY <1>5, UpOf
      <4> HIDE DEF u
      <4>4. ~Prefix(new, u)
        BY <1>5, <4>2, <4>3, PrefixOrder
      <4>5. u \notin T
        BY <1>3, <1>4, <4>3
      <4>6. nodeAt(k, u).kind = "dir"
        BY <1>14, <4>2, <4>4, <4>5
      <4> QED BY <4>1, <4>6 DEF u
    <3>4. CASE p # old
      <4>1. Prefix(old, Up(p)) /\ Up(Shift(p, old, new)) = Shift(Up(p), old, new) /\ p # Root
        BY <1>5, <3>2, <3>4, ShiftUp
      <4>2. p \in Paths
        BY <3>2, <4>1, PlacesAre
      <4>3. parent(p) = Up(p) /\ parent(q) = Up(q)
        BY <2>0, <3>2, <4>1, UpOf
      <4>4. nodeAt(c, parent(p)).kind = "dir"
        BY <1>1, <3>2, <4>2 DEF Treed
      <4>5. parent(p) \in T
        BY <1>3, <1>17, <4>1, <4>3, <4>4
      <4>6. parent(q) = Shift(parent(p), old, new)
        BY <3>1, <4>1, <4>3
      <4> QED BY <1>13, <4>4, <4>5, <4>6
    <3> QED BY <3>3, <3>4
  <2>2. CASE ~Prefix(new, q)
    <3>1. q \notin T /\ c.at[q] # 0
      BY <1>2, <2>0, <2>2
    <3> DEFINE u == parent(q)
    <3>2. nodeAt(c, u).kind = "dir"
      BY <1>1, <3>1 DEF Treed
    <3>3. u \in Places
      BY <1>17, <3>2
    <3>4. (Prefix(old, u) => Prefix(old, q)) /\ (Prefix(new, u) => Prefix(new, q))
      BY <1>5, <2>0, UpOf
    <3> HIDE DEF u
    <3>5. u \notin T /\ ~Prefix(new, u)
      BY <1>3, <2>0, <2>2, <3>1, <3>4
    <3>6. nodeAt(k, u).kind = "dir"
      BY <1>14, <3>2, <3>3, <3>5
    <3> QED BY <3>6 DEF u
  <2> QED BY <2>1, <2>2
<1>19. k \in Goods
  BY <1>11, <1>12, <1>16, <1>18 DEF Goods, Tables, Treed
<1> QED BY <1>19 DEF k

\* A rename takes along what is at and below its source.
LEMMA MovingIs ==
  ASSUME NEW m \in Memories, NEW old \in Paths
  PROVE  Moving(m, old) = Taken(m, old)
<1>1. old \in Clean /\ old # Root /\ Clean = Seq(Components)
  BY PlacesAre DEF Clean
<1>2. \A p : Within(old, p) <=> Prefix(old, p)
  BY DEF Within, Prefix
<1>3. Prefix(old, old)
  BY <1>1, PrefixOrder
<1> QED BY <1>1, <1>2, <1>3 DEF Moving, Taken

\* The relocation, once nothing is at the new name.
LEMMA RelocatedGood ==
  ASSUME NEW m \in Goods, NEW c \in Goods, NEW old \in Paths, NEW new \in Clean, new # Root,
         m.at[old] # 0, ~Prefix(old, new), nodeAt(c, parent(new)).kind = "dir",
         \A p \in Places : c.at[p] = IF p = new THEN 0 ELSE m.at[p]
  PROVE  Relocated(m, c, old, new) \in Replies
<1> DEFINE T == Moving(m, old)
           X == [r \in Places |-> IF Within(new, r) /\ Moved(r, new, old) \in T THEN m.at[Moved(r, new, old)]
                                  ELSE IF r \in T THEN 0 ELSE c.at[r]]
           result == Answer([c EXCEPT !.at = X], "ok")
<1>1. Relocated(m, c, old, new) = IF \E p \in T : Moved(p, old, new) \notin Places THEN Answer(m, "bound") ELSE result
  BY DEF Relocated, Then
<1>2. m \in Memories /\ c \in Memories /\ Treed(c) /\ RootStands(c)
  BY GoodsAre
<1>3. T = Taken(m, old)
  BY <1>2, MovingIs
<1>4. Taken(m, old) = Taken(c, old)
  BY DEF Taken
<1>5. (\A p \in T : c.at[p] = m.at[p]) /\ old \in T
  <2>1. old \in Clean /\ Prefix(old, old) /\ old \in Places
    BY PlacesAre, PrefixOrder DEF Clean
  <2> QED BY <1>3, <1>4, <2>1 DEF Taken
<1>6. \A p, q, r : (Within(p, q) <=> Prefix(p, q)) /\ Moved(r, p, q) = Shift(r, p, q)
  BY DEF Within, Prefix, Moved, Shift
<1>7. X = ShiftedAt(c, old, new)
  <2>1. T = Taken(c, old)
    BY <1>3, <1>4
  <2> HIDE DEF T
  <2>2. \A r \in Places : (IF Within(new, r) /\ Moved(r, new, old) \in T THEN m.at[Moved(r, new, old)]
                           ELSE IF r \in T THEN 0 ELSE c.at[r])
                        = (IF Prefix(new, r) /\ Shift(r, new, old) \in T THEN c.at[Shift(r, new, old)]
                           ELSE IF r \in T THEN 0 ELSE c.at[r])
    BY <1>5, <1>6
  <2>3. ShiftedAt(c, old, new) = [r \in Places |-> IF Prefix(new, r) /\ Shift(r, new, old) \in T THEN c.at[Shift(r, new, old)]
                           ELSE IF r \in T THEN 0 ELSE c.at[r]]
    BY <2>1 DEF ShiftedAt
  <2> QED BY <2>2, <2>3
<1> HIDE DEF T, X
<1>8. [c EXCEPT !.at = X] = Shifted(c, old, new)
  <2>1. [c EXCEPT !.at = X] = [at |-> X, node |-> c.node, used |-> c.used]
    BY <1>2, PartsAre
  <2> QED BY <1>7, <2>1 DEF Shifted
<1>9. CASE \E p \in T : Moved(p, old, new) \notin Places
  BY <1>1, <1>9, Replied DEF Words
<1>10. CASE \A p \in T : Moved(p, old, new) \in Places
  <2>1. \A p \in T : Shift(p, old, new) \in Places
    BY <1>6, <1>10
  <2>2. Shift(old, old, new) = new
    <3>1. old \in Clean /\ Prefix(old, old)
      BY PlacesAre, PrefixOrder DEF Clean
    <3> QED BY <3>1, ShiftBack DEF Clean
  <2>3. new \in Paths /\ new \in Places
    BY <1>5, <2>1, <2>2, PlacesAre
  <2>4. ASSUME NEW r \in Places, Prefix(new, r) PROVE c.at[r] = 0
    <3>1. CASE r = new
      BY <2>3, <3>1
    <3>2. CASE r # new
      <4>1. nodeAt(c, new) = Nothing
        BY <2>3 DEF nodeAt
      <4>2. r \in Paths
        <5>1. r # Root
          BY <2>4, PrefixOrder DEF Clean, Root
        <5> QED BY <5>1, PlacesAre
      <4> QED BY <2>4, <3>2, <4>1, <4>2, Ancestors, NothingIs
    <3> QED BY <3>1, <3>2
  <2>5. Shifts(c, old, new)
    BY <1>3, <1>4, <2>1, <2>3, <2>4 DEF Shifts
  <2>6. Shifted(c, old, new) \in Goods
    BY <2>5, ShiftedGood
  <2>7. Relocated(m, c, old, new) = Answer(Shifted(c, old, new), "ok")
    BY <1>1, <1>8, <1>10
  <2> QED BY <2>6, <2>7, Replied DEF Words, Outcomes
<1> QED BY <1>9, <1>10

\* What is at the new name goes before the relocation.
LEMMA MoveToGood ==
  ASSUME NEW m \in Goods, NEW old \in Paths, m.at[old] # 0, NEW new \in Clean, new # Root,
         nodeAt(m, parent(new)).kind = "dir"
  PROVE  MoveTo(m, old, new) \in Replies
<1> DEFINE source == nodeAt(m, old).kind
           target == nodeAt(m, new).kind
           cleared == IF target = "none" THEN m ELSE Drop(m, new)
<1>0. /\ old # Root /\ old \in Clean
      /\ \A p, q : Within(p, q) <=> Prefix(p, q)
  BY PlacesAre DEF Within, Prefix
<1>1. MoveTo(m, old, new) =
        IF old = new \/ (old # Root /\ Within(old, new)) THEN Answer(m, "self")
        ELSE IF target = "dir" /\ source # "dir" THEN Answer(m, "isdir")
        ELSE IF target \notin {"dir", "none"} /\ source = "dir" THEN Answer(m, "notdir")
        ELSE IF target = "dir" /\ (new = Root \/ Entries(m, new) # {}) THEN Answer(m, "notempty")
        ELSE Relocated(m, cleared, old, new)
  BY DEF MoveTo, Then
<1>2. ASSUME ~Prefix(old, new), target = "dir" => Entries(m, new) = {}
      PROVE  Relocated(m, cleared, old, new) \in Replies
  <2>0. m \in Memories /\ m \in Tables
    BY GoodsAre
  <2>1. nodeAt(m, parent(new)).kind # "none" => parent(new) \in Places
    BY <2>0, NodeAt
  <2>2. parent(new) \in Places /\ parent(new) # new
    BY <2>1, UpOf
  <2>3. CASE target = "none"
    <3>1. cleared = m
      BY <2>3
    <3>2. \A p \in Places : m.at[p] = IF p = new THEN 0 ELSE m.at[p]
      <4>1. new \in Places => m.at[new] = 0
        BY <2>0, <2>3, GoodsAre, NamedIs
      <4> QED BY <4>1
    <3> HIDE DEF cleared
    <3> QED BY <1>2, <3>1, <3>2, RelocatedGood
  <2>4. CASE target # "none"
    <3>1. cleared = Drop(m, new)
      BY <2>4
    <3>2. new \in Paths /\ new \in Places /\ m.at[new] # 0
      BY <2>4, NothingIs, PlacesAre DEF nodeAt
    <3>3. Entries(m, new) = {}
      BY <1>2, EntriesAre
    <3>4. Drop(m, new) \in Goods /\ Drop(m, new) = Gone(m, {new})
      BY <3>2, <3>3, DropGood
    <3>5. /\ \A p \in Places : Gone(m, {new}).at[p] = IF p \in {new} THEN 0 ELSE m.at[p]
          /\ \A p \in Places : p \notin {new} => nodeAt(Gone(m, {new}), p).kind = nodeAt(m, p).kind
      <4>1. {new} \in SUBSET Places
        BY <3>2
      <4> QED BY <2>0, <4>1, GoneIs
    <3> DEFINE c == Gone(m, {new})
    <3>6. c \in Goods /\ cleared = c /\ nodeAt(c, parent(new)).kind = "dir"
          /\ \A p \in Places : c.at[p] = IF p = new THEN 0 ELSE m.at[p]
      BY <2>2, <3>1, <3>4, <3>5
    <3> HIDE DEF c, cleared
    <3>7. Relocated(m, c, old, new) \in Replies
      BY <1>2, <3>6, RelocatedGood
    <3> QED BY <3>6, <3>7
  <2> QED BY <2>3, <2>4
<1> HIDE DEF source, target, cleared
<1>3. \A e \in {"self", "isdir", "notdir", "notempty"} : Answer(m, e) \in Replies
  <2>1. \A e \in {"self", "isdir", "notdir", "notempty"} : e \in Words
    BY DEF Words, Outcomes
  <2> QED BY <2>1, Replied
<1> QED BY <1>0, <1>1, <1>2, <1>3

\* From a name other than the root.
LEMMA RenameGood ==
  ASSUME NEW m \in Goods, NEW oldName \in Clean, oldName # Root, NEW newName \in Clean, newName # Root
  PROVE  rename(m, oldName, newName) \in Replies
<1> DEFINE found == Lstat(m, oldName)
           up == Open(m, parent(newName))
           new == Append(up.at, newName[Len(newName)])
<1>1. /\ found.err \in Words
      /\ found.err = "ok" => found.at \in Paths /\ m.at[found.at] # 0
  BY Found DEF Lstat
<1>2. parent(newName) \in Clean /\ newName[Len(newName)] \in Components
  BY NameIs
<1>3. /\ up.err \in Words
      /\ up.err = "ok" => up.at \in Places
  BY <1>2, Found DEF Open
<1>4. rename(m, oldName, newName) =
        IF found.err # "ok" THEN Answer(m, found.err)
        ELSE IF up.err # "ok" THEN Answer(m, up.err)
        ELSE IF nodeAt(m, up.at).kind # "dir" THEN Answer(m, "notdir")
        ELSE MoveTo(m, found.at, new)
  BY DEF rename, Then
<1> HIDE DEF found, up
<1>5. ASSUME found.err = "ok", up.err = "ok", nodeAt(m, up.at).kind = "dir"
      PROVE  MoveTo(m, found.at, new) \in Replies
  <2>1. up.at \in Clean
    BY <1>3, <1>5, PlacesAre
  <2>2. new \in Clean /\ new # Root /\ parent(new) = up.at
    BY <1>2, <2>1, AppendIs
  <2> DEFINE old == found.at
  <2>3. old \in Paths /\ m.at[old] # 0 /\ nodeAt(m, parent(new)).kind = "dir"
    BY <1>1, <1>5, <2>2
  <2> HIDE DEF new, old
  <2>4. MoveTo(m, old, new) \in Replies
    BY <2>2, <2>3, MoveToGood
  <2> QED BY <2>4 DEF old
<1>6. Answer(m, "notdir") \in Replies
  BY Replied DEF Words, Outcomes
<1> HIDE DEF new
<1> QED BY <1>1, <1>3, <1>4, <1>5, <1>6, Replied

-----------------------------------------------------------------------------
(* Steps.                                                                  *)

\* A new filesystem has its root and nothing else.
LEMMA NewMemoryGood == NewMemory \in Goods
<1> DEFINE root == CHOOSE i \in Ids : TRUE
           at == [p \in Places |-> IF p = Root THEN root ELSE 0]
           node == [i \in Ids |-> IF i = root THEN Directory ELSE Nothing]
           m == [at |-> at, node |-> node, used |-> 0]
<1>1. NewMemory = m
  BY DEF NewMemory
<1>2. root \in Ids
  BY MemoryAssumption
<1>3. /\ Directory \in Node /\ Sound(Directory) /\ Directory.links = 1 /\ Directory.size = 0 /\ Directory.kind = "dir"
      /\ Nothing \in Node /\ Sound(Nothing) /\ Nothing.links = 0 /\ Nothing.size = 0
  <2>1. Directory.kind = "dir"
    BY DEF Directory, Nothing
  <2> QED BY <2>1, NewNodes, NothingIs DEF Sound
<1> HIDE DEF root
<1>4. /\ at \in [Places -> Ids \cup {0}] /\ node \in [Ids -> Node]
      /\ \A p \in Places : at[p] = IF p = Root THEN root ELSE 0
      /\ \A i \in Ids : node[i] = IF i = root THEN Directory ELSE Nothing
  BY <1>2, <1>3
<1>5. m \in Memories /\ m.at = at /\ m.node = node /\ m.used = 0
  <2> HIDE DEF at, node
  <2> QED BY <1>4 DEF Memories
<1> HIDE DEF at, node, m
<1>6. ASSUME NEW i \in Ids PROVE Sound(node[i]) /\ node[i].links = Cardinality(Names(m, i))
  <2>1. i # 0 /\ Root \in Places
    BY PlacesAre
  <2>2. CASE i = root
    <3>1. Names(m, i) = {Root}
      BY <1>4, <1>5, <2>1, <2>2 DEF Names
    <3>2. Cardinality({Root}) = 1
      BY FS_Singleton
    <3> QED BY <1>3, <1>4, <2>2, <3>1, <3>2
  <2>3. CASE i # root
    <3>1. Names(m, i) = {}
      BY <1>4, <1>5, <2>1, <2>3 DEF Names
    <3> QED BY <1>3, <1>4, <2>3, <3>1, FS_EmptySet
  <2> QED BY <2>2, <2>3
<1>7. Total(node, Ids) = 0
  <2>1. Sized(node, Ids) /\ IsFiniteSet(Ids) /\ {} \in SUBSET Ids
    BY <1>5, SizesAre
  <2>2. \A i \in Ids \ {} : node[i].size = 0
    BY <1>3, <1>4
  <2>3. \A i \in {} : node[i].size = node[i].size
    OBVIOUS
  <2>4. Total(node, Ids) = Total(node, {})
    BY <2>1, <2>2, <2>3, TotalSame
  <2> QED BY <2>1, <2>4, TotalType
<1>8. Counted(m) /\ Charged(m)
  BY <1>5, <1>6, <1>7, MemoryAssumption DEF Counted, Charged
<1>9. RootStands(m)
  BY <1>2, <1>3, <1>4, <1>5, PlacesAre DEF RootStands, nodeAt
<1>10. \A p \in Paths : m.at[p] = 0
  BY <1>4, <1>5, PlacesAre
<1>11. m \in Goods
  BY <1>5, <1>8, <1>9, <1>10 DEF Goods, Tables, Treed
<1> QED BY <1>1, <1>11 DEF m

\* The names that are still to be made are names below the root.
Below == Clean \ {Root}
MemoryInv == fs \in Goods /\ making \in Seq(Below)

\* The invariant holds of a new filesystem.
LEMMA MemoryInit == Init => MemoryInv
  BY NewMemoryGood DEF Init, MemoryInv

\* A call that answers with a good filesystem leaves one.
LEMMA ReturnsGood ==
  ASSUME NEW r \in Replies, Returns(r)
  PROVE  fs' \in Goods
  BY DEF Returns, Replies

\* A call that changes nothing else keeps the invariant.
LEMMA CallGood ==
  ASSUME MemoryInv, NEW r \in Replies, Call(r)
  PROVE  MemoryInv'
<1>1. Returns(r) /\ making' = making
  BY DEF Call
<1> QED BY <1>1, ReturnsGood DEF MemoryInv

\* The beginnings of a path are names below the root.
LEMMA BeginningsBelow ==
  ASSUME NEW p \in Clean
  PROVE  \A i \in 1 .. Len(p) : SubSeq(p, 1, i) \in Below
<1>1. p \in Seq(Components) /\ Len(p) \in Nat
  BY DEF Clean
<1>2. ASSUME NEW i \in 1 .. Len(p) PROVE SubSeq(p, 1, i) \in Below
  <2>1. i \in 0 .. Len(p) /\ i # 0
    BY <1>1
  <2>2. SubSeq(p, 1, i) \in Clean /\ Len(SubSeq(p, 1, i)) = i
    BY <1>1, <2>1, BeginningIs DEF Clean
  <2>3. Len(Root) = 0
    BY DEF Root
  <2> QED BY <2>1, <2>2, <2>3 DEF Below
<1> QED BY <1>2

\* Each call keeps the invariant.
LEMMA MemoryStep ==
  ASSUME MemoryInv, [Next]_vars, MovesRoot = FALSE
  PROVE  MemoryInv'
<1>0. fs \in Goods /\ making \in Seq(Below) /\ Paths \subseteq Below /\ Paths \subseteq Clean /\ Places \subseteq Clean
      /\ Root \in Clean
  BY PlacesAre DEF MemoryInv, Below
<1>a. \A p \in Paths : p \in Clean /\ p # Root
  BY <1>0 DEF Below
<1>1. ASSUME NEW p \in Paths, CreateFile(p) PROVE MemoryInv'
  <2>1. PICK n \in Written : Call(createFile(fs, p, n))
    BY <1>1 DEF CreateFile
  <2>2. createFile(fs, p, n) \in Replies
    BY <1>0, <1>a, MemoryAssumption, CreateFileGood
  <2> QED BY <2>1, <2>2, CallGood
<1>2. ASSUME NEW p \in Paths, WriteFile(p) PROVE MemoryInv'
  <2>1. PICK n \in Written : Call(writeFile(fs, p, n))
    BY <1>2 DEF WriteFile
  <2>2. writeFile(fs, p, n) \in Replies
    BY <1>0, <1>a, MemoryAssumption, WriteFileGood
  <2> QED BY <2>1, <2>2, CallGood
<1>3. ASSUME NEW p \in Paths, AppendFile(p) PROVE MemoryInv'
  <2>1. PICK n \in Written : Call(appendFile(fs, p, n))
    BY <1>3 DEF AppendFile
  <2>2. appendFile(fs, p, n) \in Replies
    BY <1>0, <1>a, MemoryAssumption, AppendFileGood
  <2> QED BY <2>1, <2>2, CallGood
<1>4. ASSUME NEW p \in Paths, Mkdir(p) PROVE MemoryInv'
  <2>1. mkdir(fs, p) \in Replies
    BY <1>0, <1>a, MkdirGood
  <2> QED BY <1>4, <2>1, CallGood DEF Mkdir
<1>5. ASSUME NEW p \in Paths, Remove(p) PROVE MemoryInv'
  <2>1. remove(fs, p) \in Replies
    BY <1>0, <1>a, RemoveGood
  <2> QED BY <1>5, <2>1, CallGood DEF Remove
<1>6. ASSUME NEW p \in Paths, RemoveAll(p) PROVE MemoryInv'
  <2>1. removeAll(fs, p) \in Replies
    BY <1>0, <1>a, RemoveAllGood
  <2> QED BY <1>6, <2>1, CallGood DEF RemoveAll
<1>7. ASSUME NEW p \in Paths, Symlink(p) PROVE MemoryInv'
  <2>1. PICK t \in Targets : Call(symlink(fs, t, p))
    BY <1>7 DEF Symlink
  <2>2. symlink(fs, t, p) \in Replies
    BY <1>0, <1>a, MemoryAssumption, SymlinkGood
  <2> QED BY <2>1, <2>2, CallGood
<1>8. ASSUME NEW p \in Paths, MkdirAll(p) PROVE MemoryInv'
  <2>1. fs' = fs /\ making' = [i \in 1 .. Len(p) |-> SubSeq(p, 1, i)]
    BY <1>8 DEF MkdirAll
  <2>2. \A i \in 1 .. Len(p) : SubSeq(p, 1, i) \in Below
    BY <1>a, BeginningsBelow
  <2>3. Len(p) \in Nat
    BY <1>a DEF Clean
  <2>4. making' \in Seq(Below)
    BY <2>1, <2>2, <2>3
  <2> QED BY <1>0, <2>1, <2>4 DEF MemoryInv
<1>9. ASSUME MkdirNext PROVE MemoryInv'
  <2> DEFINE r == mkdirStep(fs, Head(making))
  <2>1. making # <<>> /\ Returns(r) /\ making' \in {Tail(making), <<>>}
    BY <1>9 DEF MkdirNext
  <2>a. Head(making) \in Below /\ Tail(making) \in Seq(Below) /\ <<>> \in Seq(Below)
    <3>1. making \in Seq(Below) /\ making # <<>>
      BY <1>0, <2>1
    <3> HIDE DEF r
    <3> QED BY <3>1
  <2>2. Head(making) \in Clean /\ Head(making) # Root /\ making' \in Seq(Below)
    <3> HIDE DEF r
    <3> QED BY <2>1, <2>a DEF Below
  <2>3. r \in Replies
    BY <1>0, <2>2, MkdirStepGood
  <2> HIDE DEF r
  <2>4. fs' \in Goods
    BY <2>1, <2>3, ReturnsGood
  <2> QED BY <2>2, <2>4 DEF MemoryInv
<1>10. ASSUME NEW p \in Places, NEW q \in Paths, Link(p, q) PROVE MemoryInv'
  <2>1. link(fs, p, q) \in Replies
    BY <1>0, LinkGood
  <2> QED BY <1>10, <2>1, CallGood DEF Link
<1>11. ASSUME NEW p \in Places, NEW q \in Paths, Rename(p, q) PROVE MemoryInv'
  <2>1. p # Root /\ Call(rename(fs, p, q))
    BY <1>11 DEF Rename
  <2>2. rename(fs, p, q) \in Replies
    BY <1>0, <1>a, <2>1, RenameGood
  <2> QED BY <2>1, <2>2, CallGood
<1>12. CASE UNCHANGED vars
  BY <1>12 DEF vars, MemoryInv
<1> QED BY <1>1, <1>2, <1>3, <1>4, <1>5, <1>6, <1>7, <1>8, <1>9, <1>10, <1>11, <1>12 DEF Next

\* What a good filesystem is says what the two properties ask for.
LEMMA GoodIsTree == ASSUME fs \in Goods PROVE TableIsTree
<1>1. fs \in Memories /\ Treed(fs)
  BY GoodsAre
<1>2. LinkTargets \subseteq [up : Int, to : Seq(STRING)]
  <2>1. ASSUME NEW s \in Clean PROVE s \in Seq(STRING)
    <3>1. s \in Seq(Components) /\ \A c \in Components : c \in STRING
      BY DEF Clean, Components
    <3> HIDE DEF Components
    <3>2. Len(s) \in Nat /\ s = [i \in 1 .. Len(s) |-> s[i]] /\ \A i \in 1 .. Len(s) : s[i] \in Components
      BY <3>1, SeqDef
    <3>3. s \in [1 .. Len(s) -> STRING]
      BY <3>1, <3>2, Zenon
    <3> QED BY <3>2, <3>3, SeqDef
  <2>2. Nat \cup {-1} \subseteq Int
    OBVIOUS
  <2> QED BY <2>1, <2>2 DEF LinkTargets
<1>3. Node \subseteq [kind : {"none", "file", "dir", "link"}, size : Nat, links : Nat,
                      target : [up : Int, to : Seq(STRING)]]
  BY <1>2 DEF Node
<1>4. /\ fs.at \in [Places -> Ids \cup {0}] /\ fs.node \in [Ids -> Node] /\ fs.used \in Nat
  BY <1>1 DEF Memories
<1>5. fs.node \in [Ids -> [kind : {"none", "file", "dir", "link"}, size : Nat, links : Nat,
                           target : [up : Int, to : Seq(STRING)]]]
  BY <1>3, <1>4
<1> QED BY <1>1, <1>4, <1>5 DEF TableIsTree, Treed

\* The nodes without a name have no bytes, so those with one have all that are charged.
LEMMA GoodIsAccounted == ASSUME fs \in Goods PROVE UsedIsReachable
<1>1. fs \in Memories /\ Counted(fs) /\ Charged(fs)
  BY GoodsAre
<1> DEFINE U == {i \in Ids : Names(fs, i) # {}}
<1>2. ASSUME NEW i \in Ids \ U PROVE fs.node[i].size = 0
  <2>1. Names(fs, i) = {} /\ Cardinality(Names(fs, i)) = 0
    BY FS_EmptySet
  <2>2. fs.node[i].links = 0 /\ Sound(fs.node[i])
    BY <1>1, <2>1 DEF Counted
  <2> QED BY <2>2, NothingIs
<1>3. U \in SUBSET Ids /\ \A i \in U : fs.node[i].size = fs.node[i].size
  OBVIOUS
<1> HIDE DEF U
<1>4. Sized(fs.node, Ids) /\ IsFiniteSet(Ids)
  BY <1>1, SizesAre
<1>5. Total(fs.node, Ids) = Total(fs.node, U)
  BY <1>2, <1>3, <1>4, TotalSame
<1>6. fs.used = Total(fs.node, U)
  BY <1>1, <1>5 DEF Charged
<1>7. fs.used = Sets!FoldSet(LAMBDA i, sum : sum + fs.node[i].size, 0, {i \in Ids : Names(fs, i) # {}})
  BY Zenon, <1>6 DEF Total, U
<1> QED BY <1>1, <1>7 DEF UsedIsReachable, Charged, Counted

-----------------------------------------------------------------------------
(* Mounts.                                                                 *)

\* The calls a mount may make: none of them takes away the root or puts something else in its place.
Calls == {c \in [op : {"mkdir", "write", "removeAll", "symlink"}, name : Clean, node : Node] :
            c.op # "removeAll" => c.name # Root}

\* The calls that make the directories on the way to a name.
LEMMA MkdirAllCallsAre ==
  ASSUME NEW name \in Clean
  PROVE  MkdirAllCalls(name) \in Seq(Calls)
<1>1. Directory \in Node
  BY NewNodes
<1>2. \A i \in 1 .. Len(name) : SubSeq(name, 1, i) \in Clean /\ SubSeq(name, 1, i) # Root
  BY BeginningsBelow DEF Below
<1>3. Len(name) \in Nat
  BY DEF Clean
<1> DEFINE call(i) == [op |-> "mkdir", name |-> SubSeq(name, 1, i), node |-> Directory]
<1>4. ASSUME NEW i \in 1 .. Len(name) PROVE call(i) \in Calls
  <2> DEFINE s == SubSeq(name, 1, i)
  <2>1. s \in Clean /\ s # Root
    BY <1>2
  <2> HIDE DEF s
  <2>2. [op |-> "mkdir", name |-> s, node |-> Directory] \in Calls
    BY <1>1, <2>1 DEF Calls
  <2> QED BY <2>2 DEF s
<1>5. MkdirAllCalls(name) = [i \in 1 .. Len(name) |-> call(i)]
  BY DEF MkdirAllCalls
<1> HIDE DEF call
<1> QED BY <1>3, <1>4, <1>5

\* A name below the target.
LEMMA BelowTarget ==
  ASSUME NEW target \in Clean, NEW p \in Paths
  PROVE  target \o p \in Clean /\ target \o p # Root
<1>1. p \in Clean /\ p # Root
  BY PlacesAre
<1>2. p \in Seq(Components) /\ target \in Seq(Components) /\ p # <<>>
  BY <1>1 DEF Clean, Root
<1>3. Len(p) \in Nat \ {0} /\ Len(target) \in Nat
  BY <1>2, EmptySeq
<1>4. target \o p \in Seq(Components) /\ Len(target \o p) = Len(target) + Len(p)
  BY <1>2
<1>5. Len(<<>>) = 0
  OBVIOUS
<1> QED BY <1>3, <1>4, <1>5 DEF Clean, Root

\* The calls that copy an entry of a source.
LEMMA EntryCallsAre ==
  ASSUME NEW target \in Clean, NEW p \in Paths, NEW n \in Node
  PROVE  EntryCalls(target, p, n) \in Seq(Calls)
<1> DEFINE name == target \o p
           t == Rebased(n.target, target)
<1>1. name \in Clean /\ name # Root
  BY BelowTarget
<1>2. /\ n.kind \in {"none", "file", "dir", "link"} /\ n.target \in LinkTargets
      /\ n.target.up \in Nat \cup {-1} /\ n.target.to \in Clean
  BY DEF Node, LinkTargets
<1>3. t \in LinkTargets
  <2>1. target \o n.target.to \in Clean
    BY <1>2 DEF Clean
  <2> QED BY <1>2, <2>1 DEF Rebased, Absolute, LinkTargets
<1>4. EntryCalls(target, p, n) =
        CASE n.kind = "dir"  -> MkdirAllCalls(name)
          [] n.kind = "file" -> <<[op |-> "write", name |-> name, node |-> n]>>
          [] n.kind = "link" -> LinkCalls(name, t)
          [] n.kind = "none" -> <<>>
  BY DEF EntryCalls, Then
<1> HIDE DEF name, t
<1>5. Symbolic(t) \in Node /\ Nothing \in Node
  BY <1>3, NewNodes, NothingIs
<1>6. MkdirAllCalls(name) \in Seq(Calls)
  BY <1>1, MkdirAllCallsAre
<1>7. [op |-> "write", name |-> name, node |-> n] \in Calls
  BY <1>1 DEF Calls
<1>8. /\ [op |-> "removeAll", name |-> name, node |-> Nothing] \in Calls
      /\ [op |-> "symlink", name |-> name, node |-> Symbolic(t)] \in Calls
  BY <1>1, <1>5 DEF Calls
<1>9. LinkCalls(name, t) \in Seq(Calls)
  BY <1>8 DEF LinkCalls
<1>10. <<[op |-> "write", name |-> name, node |-> n]>> \in Seq(Calls) /\ <<>> \in Seq(Calls)
  BY <1>7
<1> QED BY <1>2, <1>4, <1>6, <1>9, <1>10

\* f has the sequences one after the other, up to each of them.
Flattens(f, s) == f = [i \in 1 .. Len(s) |-> IF i = 1 THEN s[i] ELSE f[i - 1] \o s[i]]

\* What follows one another is a sequence of the same things.
LEMMA FlattenIs ==
  ASSUME NEW S, NEW s \in Seq(Seq(S))
  PROVE  Seqs!FlattenSeq(s) \in Seq(S)
<1> DEFINE n == Len(s)
           f == CHOOSE h : Flattens(h, s)
<1>1. n \in Nat /\ \A i \in 1 .. n : s[i] \in Seq(S)
  OBVIOUS
<1>2. CASE n = 0
  <2>1. s = <<>>
    BY <1>2, EmptySeq
  <2>2. Seqs!FlattenSeq(s) = s
    BY <1>2 DEF Seqs!FlattenSeq
  <2>3. <<>> \in Seq(S)
    OBVIOUS
  <2> HIDE DEF n
  <2> QED BY <2>1, <2>2, <2>3, Zenon
<1>3. CASE n # 0
  <2>1. Seqs!FlattenSeq(s) = f[n]
    BY <1>3, Zenon DEF Seqs!FlattenSeq, Flattens
  <2>2. \E h : Flattens(h, s)
    <3> DEFINE Q == Seq(S)
               F == [i \in 1 .. n |-> [q \in Q |-> q \o s[i]]]
    <3>1. StepsOn(F, Q, n) /\ <<>> \in Q
      BY <1>1 DEF StepsOn
    <3>2. \A i \in 1 .. n : \A q \in Q : F[i][q] = q \o s[i]
      OBVIOUS
    <3>3. \A i \in 1 .. n : <<>> \o s[i] = s[i]
      BY <1>1
    <3> HIDE DEF Q, F
    <3>4. PICK g : Follows(g, F, Q, <<>>, n)
      BY <1>1, <3>1, StepsReach
    <3> DEFINE h == [i \in 1 .. n |-> g[i]]
    <3>5. ASSUME NEW i \in 1 .. n PROVE h[i] = IF i = 1 THEN s[i] ELSE h[i - 1] \o s[i]
      <4>a. g \in [0 .. n -> Q] /\ g[0] = <<>> /\ \A j \in 1 .. n : g[j] = F[j][g[j - 1]]
        BY <3>4 DEF Follows
      <4>b. i - 1 \in 0 .. n /\ (i = 1 => i - 1 = 0)
        BY <1>1
      <4>c. g[i - 1] \in Q /\ (i = 1 => g[i - 1] = <<>>)
        BY <4>a, <4>b
      <4>1. i - 1 \in 0 .. n /\ g[i - 1] \in Q /\ g[i] = g[i - 1] \o s[i] /\ (i = 1 => g[i - 1] = <<>>)
        BY <3>2, <4>a, <4>b, <4>c, Zenon
      <4>2. i # 1 => i - 1 \in 1 .. n /\ h[i - 1] = g[i - 1]
        BY <1>1
      <4> QED BY <3>3, <4>1, <4>2
    <3>6. h = [i \in 1 .. n |-> h[i]]
      OBVIOUS
    <3> HIDE DEF h
    <3>7. Flattens(h, s)
      BY <3>5, <3>6 DEF Flattens
    <3> QED BY <3>7
  <2>3. Flattens(f, s)
    BY <2>2
  <2> HIDE DEF f
  <2>4. \A i \in 1 .. n : f[i] = IF i = 1 THEN s[i] ELSE f[i - 1] \o s[i]
    BY <2>3 DEF Flattens
  <2> DEFINE T == {i \in 0 .. n : i # 0 => f[i] \in Seq(S)}
  <2>5. 0 \in T
    BY <1>1
  <2>6. ASSUME NEW i \in 0 .. n - 1, i \in T PROVE i + 1 \in T
    <3>1. i + 1 \in 1 .. n /\ i + 1 - 1 = i /\ (i + 1 = 1 <=> i = 0) /\ i + 1 \in 0 .. n
      BY <1>1
    <3>2. f[i + 1] = IF i = 0 THEN s[i + 1] ELSE f[i] \o s[i + 1]
      BY <2>4, <3>1
    <3>3. s[i + 1] \in Seq(S) /\ (i # 0 => f[i] \in Seq(S))
      BY <1>1, <2>6, <3>1
    <3>4. \A a, b \in Seq(S) : a \o b \in Seq(S)
      OBVIOUS
    <3>5. f[i + 1] \in Seq(S)
      BY <3>2, <3>3, <3>4, Zenon
    <3> QED BY <3>1, <3>5
  <2>7. 0 .. n \subseteq T
    <3>1. \A i \in 0 .. n - 1 : i \in T => i + 1 \in T
      BY <2>6
    <3> HIDE DEF T
    <3> QED BY <1>1, <2>5, <3>1, InductTo
  <2>8. n \in T
    BY <1>1, <2>7
  <2> QED BY <1>3, <2>1, <2>8
<1> QED BY <1>2, <1>3

\* The elements of a finite set, one after the other.
LEMMA ListedIs ==
  ASSUME NEW T, IsFiniteSet(T)
  PROVE  Seqs!SetToSeq(T) \in Seq(T)
<1> DEFINE n == Cardinality(T)
<1>1. n \in Nat /\ ExistsBijection(1 .. n, T)
  BY FS_CardinalityType
<1>2. PICK f : f \in Bijection(1 .. n, T)
  BY <1>1 DEF ExistsBijection
<1>3. f \in [1 .. n -> T] /\ Seqs!IsInjective(f)
  BY <1>2 DEF Bijection, Injection, IsInjective, Seqs!IsInjective
<1>a. Seqs!Cardinality(T) = n
  BY DEF Seqs!Cardinality, Cardinality
<1> HIDE DEF n
<1>4. Seqs!SetToSeq(T) \in [1 .. n -> T]
  BY <1>3, <1>a, Zenon DEF Seqs!SetToSeq
<1> HIDE DEF n
<1> QED BY <1>1, <1>4

\* What a mount does first under the replacing policy.
LEMMA ClearCallsAre ==
  ASSUME NEW m, NEW target \in Clean
  PROVE  clearCalls(m, target) \in Seq(Calls)
<1> DEFINE Clear(p) == [op |-> "removeAll", name |-> p, node |-> Nothing]
           T == {Clear(p) : p \in ReadDir(m, Root)}
<1>1. \A p \in Clean : Clear(p) \in Calls
  BY NothingIs DEF Calls
<1>2. CASE target # Root
  <2>1. clearCalls(m, target) = <<Clear(target)>>
    BY <1>2 DEF clearCalls
  <2>2. Clear(target) \in Calls
    BY <1>1
  <2> HIDE DEF Clear
  <2> QED BY <2>1, <2>2
<1>3. CASE target = Root
  <2>1. clearCalls(m, target) = Seqs!SetToSeq(T)
    BY <1>3 DEF clearCalls
  <2>2. ReadDir(m, Root) \subseteq Paths
    BY DEF ReadDir, Then, Entries
  <2>3. IsFiniteSet(ReadDir(m, Root))
    BY <2>2, MemoryAssumption, FS_Subset
  <2>4. IsFiniteSet(T)
    <3> DEFINE R == ReadDir(m, Root)
               f == [p \in R |-> Clear(p)]
    <3>1. f \in [R -> T] /\ \A t \in T : \E p \in R : f[p] = t
      OBVIOUS
    <3>2. f \in Surjection(R, T)
      <4> HIDE DEF f, R, T
      <4> QED BY <3>1 DEF Surjection
    <3> HIDE DEF f, R, T
    <3> QED BY <2>3, <3>2, FS_Surjection DEF R
  <2>5. T \subseteq Calls
    BY <1>1, <2>2, PlacesAre
  <2> HIDE DEF T
  <2>6. Seqs!SetToSeq(T) \in Seq(T)
    BY <2>4, ListedIs
  <2>7. Seqs!SetToSeq(T) \in Seq(Calls)
    BY <2>5, <2>6
  <2> QED BY <2>1, <2>7
<1> QED BY <1>2, <1>3

\* The copy itself.
LEMMA CopyCallsAre ==
  ASSUME NEW target \in Clean, NEW source \in Sources
  PROVE  CopyCalls(target, source) \in Seq(Calls)
<1> DEFINE entries == [i \in 1 .. Len(Walk) |-> EntryCalls(target, Walk[i], source[Walk[i]])]
<1>1. Len(Walk) \in Nat /\ \A i \in 1 .. Len(Walk) : Walk[i] \in Paths
  <2>1. Len(Walk) = Cardinality(Paths) /\ IsFiniteSet(Paths) /\ Seqs!ToSet(Walk) = Paths
    BY CopyAssumption, MemoryAssumption
  <2>2. Len(Walk) \in Nat
    BY <2>1, FS_CardinalityType
  <2> QED BY <2>1, <2>2 DEF Seqs!ToSet
<1>2. \A p \in Paths : source[p] \in Node
  BY CopyAssumption DEF Node
<1>3. \A i \in 1 .. Len(Walk) : EntryCalls(target, Walk[i], source[Walk[i]]) \in Seq(Calls)
  BY <1>1, <1>2, EntryCallsAre
<1>4. entries \in Seq(Seq(Calls))
  BY <1>1, <1>3
<1> HIDE DEF entries
<1>5. Seqs!FlattenSeq(entries) \in Seq(Calls)
  BY <1>4, FlattenIs
<1>6. MkdirAllCalls(target) \in Seq(Calls)
  BY MkdirAllCallsAre
<1>7. CopyCalls(target, source) = MkdirAllCalls(target) \o Seqs!FlattenSeq(entries)
  BY DEF CopyCalls, entries
<1> QED BY <1>5, <1>6, <1>7

\* Each call of a mount.
LEMMA ApplyGood ==
  ASSUME NEW m \in Goods, NEW c \in Calls
  PROVE  Apply(m, c) \in Replies
<1>1. /\ c.op \in {"mkdir", "write", "removeAll", "symlink"} /\ c.name \in Clean
      /\ c.op # "removeAll" => c.name # Root
      /\ c.node.size \in Nat /\ c.node.target \in LinkTargets
  BY DEF Calls, Node
<1>2. Apply(m, c) = CASE c.op = "mkdir"     -> mkdirStep(m, c.name)
                      [] c.op = "write"     -> writeFile(m, c.name, c.node.size)
                      [] c.op = "removeAll" -> removeAll(m, c.name)
                      [] c.op = "symlink"   -> symlink(m, c.node.target, c.name)
  BY DEF Apply
<1>3. c.op = "mkdir" => mkdirStep(m, c.name) \in Replies
  BY <1>1, MkdirStepGood
<1>4. c.op = "write" => writeFile(m, c.name, c.node.size) \in Replies
  BY <1>1, WriteFileGood
<1>5. c.op = "removeAll" => removeAll(m, c.name) \in Replies
  BY <1>1, RemoveAllGood
<1>6. c.op = "symlink" => symlink(m, c.node.target, c.name) \in Replies
  BY <1>1, SymlinkGood
<1> QED BY <1>1, <1>2, <1>3, <1>4, <1>5, <1>6

\* f has the answers to the calls, each made on what the one before left.
Runs(f, m, calls) ==
  f = [k \in 0 .. Len(calls) |->
         IF k = 0 THEN Answer(m, "ok")
         ELSE Then(f[k - 1], LAMBDA before :
                IF before.err # "ok" THEN before ELSE Apply(before.fs, calls[k]))]

\* Every answer on the way is one of a kind that the calls keep.
LEMMA AnswersIn ==
  ASSUME NEW m, NEW calls, Len(calls) \in Nat, NEW R, Answer(m, "ok") \in R,
         \A k \in 1 .. Len(calls) : \A r \in R : r.err = "ok" => Apply(r.fs, calls[k]) \in R
  PROVE  /\ Answers(m, calls) = [k \in 1 .. Len(calls) |-> Answers(m, calls)[k]]
         /\ \A k \in 1 .. Len(calls) : Answers(m, calls)[k] \in R
<1> DEFINE n == Len(calls)
           f == CHOOSE h : Runs(h, m, calls)
<1>1. n \in Nat
  OBVIOUS
<1>2. Answers(m, calls) = [k \in 1 .. n |-> f[k]]
  BY Zenon DEF Answers, Runs
<1>3. Answer(m, "ok") \in R
  OBVIOUS
<1> DEFINE go(r, k) == IF r.err # "ok" THEN r ELSE Apply(r.fs, calls[k])
<1>4. \A k \in 1 .. n : \A r \in R : go(r, k) \in R
  OBVIOUS
<1>5. \A h, k : Then(h[k - 1], LAMBDA before : IF before.err # "ok" THEN before ELSE Apply(before.fs, calls[k])) = go(h[k - 1], k)
  BY DEF Then
<1>6. \A h : Runs(h, m, calls) <=> h = [k \in 0 .. n |-> IF k = 0 THEN Answer(m, "ok") ELSE go(h[k - 1], k)]
  BY <1>5 DEF Runs
<1> HIDE DEF go, n
<1>7. \E h : Runs(h, m, calls)
  <2> DEFINE G == [k \in 1 .. n |-> [r \in R |-> go(r, k)]]
  <2>1. StepsOn(G, R, n) /\ \A k \in 1 .. n : \A r \in R : G[k][r] = go(r, k)
    BY <1>4 DEF StepsOn
  <2> HIDE DEF G
  <2>2. PICK g : Follows(g, G, R, Answer(m, "ok"), n)
    BY <1>1, <1>3, <2>1, StepsReach
  <2>3. g \in [0 .. n -> R] /\ g[0] = Answer(m, "ok") /\ \A k \in 1 .. n : g[k] = G[k][g[k - 1]]
    BY <2>2 DEF Follows
  <2>4. ASSUME NEW k \in 0 .. n PROVE g[k] = IF k = 0 THEN Answer(m, "ok") ELSE go(g[k - 1], k)
    <3>1. CASE k = 0
      BY <2>3, <3>1
    <3>2. CASE k # 0
      <4>1. k \in 1 .. n /\ k - 1 \in 0 .. n
        BY <1>1, <3>2
      <4>2. g[k - 1] \in R
        BY <2>3, <4>1
      <4> QED BY <2>1, <2>3, <3>2, <4>1, <4>2
    <3> QED BY <3>1, <3>2
  <2>5. g = [k \in 0 .. n |-> g[k]]
    BY <2>3
  <2>6. g = [k \in 0 .. n |-> IF k = 0 THEN Answer(m, "ok") ELSE go(g[k - 1], k)]
    BY <2>4, <2>5
  <2> QED BY <1>6, <2>6
<1>8. f = [k \in 0 .. n |-> IF k = 0 THEN Answer(m, "ok") ELSE go(f[k - 1], k)]
  <2>1. Runs(f, m, calls)
    BY <1>7
  <2> HIDE DEF f
  <2> QED BY <1>6, <2>1
<1> HIDE DEF f
<1>9. \A k \in 0 .. n : f[k] = IF k = 0 THEN Answer(m, "ok") ELSE go(f[k - 1], k)
  BY <1>8
<1> DEFINE T == {k \in 0 .. n : f[k] \in R}
<1>10. 0 \in T
  BY <1>1, <1>3, <1>9
<1>11. ASSUME NEW k \in 0 .. n - 1, k \in T PROVE k + 1 \in T
  <2>1. k + 1 \in 1 .. n /\ k + 1 - 1 = k /\ k + 1 \in 0 .. n /\ k + 1 # 0
    BY <1>1
  <2>2. f[k + 1] = go(f[k], k + 1)
    BY <1>9, <2>1
  <2> QED BY <1>4, <1>11, <2>1, <2>2
<1>12. 0 .. n \subseteq T
  <2>1. \A k \in 0 .. n - 1 : k \in T => k + 1 \in T
    BY <1>11
  <2> HIDE DEF T
  <2> QED BY <1>1, <1>10, <2>1, InductTo
<1>13. \A k \in 1 .. n : f[k] \in R
  BY <1>1, <1>12
<1> QED BY <1>1, <1>2, <1>13 DEF n

\* Every answer on the way is good.
LEMMA AnswersAre ==
  ASSUME NEW m \in Goods, NEW calls \in Seq(Calls)
  PROVE  /\ Len(Answers(m, calls)) = Len(calls) /\ Len(calls) \in Nat
         /\ \A k \in 1 .. Len(calls) : Answers(m, calls)[k] \in Replies
<1> DEFINE n == Len(calls)
           a == Answers(m, calls)
<1>1. n \in Nat /\ \A k \in 1 .. n : calls[k] \in Calls
  OBVIOUS
<1>2. Answer(m, "ok") \in Replies
  BY Replied DEF Words, Outcomes
<1>3. \A k \in 1 .. n : \A r \in Replies : Apply(r.fs, calls[k]) \in Replies
  BY <1>1, ApplyGood DEF Replies
<1>4. a = [k \in 1 .. n |-> a[k]] /\ \A k \in 1 .. n : a[k] \in Replies
  BY <1>1, <1>2, <1>3, AnswersIn
<1> HIDE DEF n, a
<1>5. Len(a) = n
  BY <1>1, <1>4
<1> QED BY <1>1, <1>4, <1>5 DEF n, a

\* Whatever the mount does, each of its answers is good.
LEMMA ApplyMountGood ==
  ASSUME NEW m \in Goods, NEW target \in Clean, NEW source \in Sources, NEW policy,
         NEW k \in 1 .. Len(ApplyMount(m, target, source, policy))
  PROVE  ApplyMount(m, target, source, policy)[k] \in Replies
<1> DEFINE err == Lstat(m, target).err
           clear == IF policy = "replace" /\ hasContent(m, target) THEN clearCalls(m, target) ELSE <<>>
           calls == clear \o CopyCalls(target, source)
           run == ApplyMount(m, target, source, policy)
<1>1. run = IF err \notin {"ok", "notexist"} THEN <<Answer(m, err)>>
            ELSE IF Skipped(m, target, policy) THEN <<Answer(m, "ok")>>
            ELSE Answers(m, calls)
  BY DEF ApplyMount, Then
<1>2. err \in Words
  BY Found DEF Lstat
<1>3. calls \in Seq(Calls)
  <2>1. clearCalls(m, target) \in Seq(Calls) /\ CopyCalls(target, source) \in Seq(Calls)
    BY ClearCallsAre, CopyCallsAre
  <2>2. clear \in Seq(Calls)
    BY <2>1
  <2> HIDE DEF clear
  <2> QED BY <2>1, <2>2
<1>4. \A e \in Words : Answer(m, e) \in Replies
  BY Replied
<1>5. "ok" \in Words
  BY DEF Words, Outcomes
<1> HIDE DEF err, calls
<1>6. k \in 1 .. Len(run)
  OBVIOUS
<1> HIDE DEF run
<1>7. ASSUME NEW e \in Words, run = <<Answer(m, e)>> PROVE run[k] \in Replies
  <2>1. k = 1
    BY <1>6, <1>7
  <2> QED BY <1>4, <1>7, <2>1
<1>8. ASSUME run = Answers(m, calls) PROVE run[k] \in Replies
  BY <1>3, <1>6, <1>8, AnswersAre
<1>9. run[k] \in Replies
  BY <1>1, <1>2, <1>5, <1>7, <1>8
<1> QED BY <1>9 DEF run

\* A mount, torn after any of its calls, keeps the invariant.
LEMMA MountStep ==
  ASSUME MemoryInv, Mount
  PROVE  MemoryInv'
<1>1. PICK target \in Points, source \in Sources, policy \in Policies :
        \E k \in 1 .. Len(ApplyMount(fs, target, source, policy)) : Returns(ApplyMount(fs, target, source, policy)[k])
  BY DEF Mount
<1> DEFINE run == ApplyMount(fs, target, source, policy)
<1>2. PICK k \in 1 .. Len(run) : Returns(run[k])
  BY <1>1
<1>3. target \in Clean /\ fs \in Goods
  BY CopyAssumption, PlacesAre DEF MemoryInv
<1>4. run[k] \in Replies
  BY <1>3, ApplyMountGood
<1> HIDE DEF run
<1>5. fs' \in Goods
  BY <1>2, <1>4, ReturnsGood
<1> QED BY <1>5 DEF Mount, MemoryInv

-----------------------------------------------------------------------------
(* Lookups that follow the last link, by the number of links left to       *)
(* follow, and what a filesystem gives back of what was written to it.     *)

From(m, h, n) == (CHOOSE W : Hops(W, m, TRUE))[h][WalkTo(m, n, TRUE)]
Clear == Clean \cup {Outside}

\* A lookup goes from walk to walk, with one link less to follow each time.
LEMMA FromIs ==
  ASSUME NEW m \in Memories, NEW n \in Clear, NEW h \in 0 .. LinkHops
  PROVE  /\ From(m, LinkHops, n) = Open(m, n)
         /\ WalkTo(m, n, TRUE).err # "follow" => From(m, h, n) = WalkTo(m, n, TRUE)
         /\ WalkTo(m, n, TRUE).err = "follow" =>
              /\ WalkTo(m, n, TRUE).at \in Clear
              /\ h = 0 => From(m, h, n).err = "loop"
              /\ h # 0 => h - 1 \in 0 .. LinkHops /\ From(m, h, n) = From(m, h - 1, WalkTo(m, n, TRUE).at)
<1> DEFINE W == CHOOSE V : Hops(V, m, TRUE)
           w == WalkTo(m, n, TRUE)
<1>1. Hops(W, m, TRUE)
  BY HopsExist
<1>2. W[h] = [r \in Walks |-> IF r.err # "follow" THEN r
                             ELSE IF h = 0 THEN [r EXCEPT !.err = "loop"]
                             ELSE W[h - 1][WalkTo(m, r.at, TRUE)]]
  <2> HIDE DEF W
  <2> QED BY <1>1 DEF Hops
<1>3. Open(m, n) = W[LinkHops][w]
  BY ResolveIs DEF Open
<1>4. w \in Walks
  BY WalksAre DEF Clear
<1>5. \A i : From(m, i, n) = W[i][w]
  BY DEF From
<1>6. \A i, x : From(m, i, x) = W[i][WalkTo(m, x, TRUE)]
  BY DEF From
<1> HIDE DEF W, w
<1>7. W[h][w] = IF w.err # "follow" THEN w
                ELSE IF h = 0 THEN [w EXCEPT !.err = "loop"]
                ELSE W[h - 1][WalkTo(m, w.at, TRUE)]
  BY <1>2, <1>4
<1>8. w.at \in Clear /\ [w EXCEPT !.err = "loop"].err = "loop"
  BY <1>4 DEF Walks, Clear
<1>9. h # 0 => h - 1 \in 0 .. LinkHops
  BY DEF LinkHops
<1> QED BY <1>3, <1>5, <1>6, <1>7, <1>8, <1>9 DEF w

\* What leaves the root is not found.
LEMMA NotOutside ==
  ASSUME NEW m \in Memories, NEW h \in 0 .. LinkHops
  PROVE  From(m, h, Outside).err # "ok"
<1>1. WalkTo(m, Outside, TRUE).err = "invalid"
  BY DEF WalkTo
<1>2. Outside \in Clear
  BY DEF Clear
<1> QED BY <1>1, <1>2, FromIs

\* With another number of links to follow, what is found is the same or too far.
LEMMA FromOther ==
  ASSUME NEW m \in Memories, NEW n \in Clear, NEW h \in 0 .. LinkHops, From(m, h, n).err = "ok", NEW g \in 0 .. LinkHops
  PROVE  From(m, g, n).err \in {"ok", "loop"}
<1> DEFINE T == {i \in 0 .. LinkHops : \A x \in Clear, j \in 0 .. LinkHops :
                   From(m, j, x).err = "ok" => From(m, i, x).err \in {"ok", "loop"}}
<1>1. LinkHops \in Nat
  BY DEF LinkHops
<1>2. 0 \in T
  <2>1. ASSUME NEW x \in Clear, NEW j \in 0 .. LinkHops, From(m, j, x).err = "ok"
        PROVE  From(m, 0, x).err \in {"ok", "loop"}
    <3>1. 0 \in 0 .. LinkHops
      BY <1>1
    <3> QED BY <2>1, <3>1, FromIs
  <2> QED BY <1>1, <2>1
<1>3. ASSUME NEW i \in 0 .. LinkHops - 1, i \in T PROVE i + 1 \in T
  <2>1. i + 1 \in 0 .. LinkHops /\ i + 1 # 0 /\ i + 1 - 1 = i /\ i \in 0 .. LinkHops
    BY <1>1
  <2>2. ASSUME NEW x \in Clear, NEW j \in 0 .. LinkHops, From(m, j, x).err = "ok"
        PROVE  From(m, i + 1, x).err \in {"ok", "loop"}
    <3> DEFINE w == WalkTo(m, x, TRUE)
    <3>1. CASE w.err # "follow"
      <4> DEFINE k == i + 1
      <4>1. k \in 0 .. LinkHops
        BY <2>1
      <4> HIDE DEF k
      <4>2. From(m, k, x) = w /\ From(m, j, x) = w
        BY <3>1, <4>1, FromIs
      <4> QED BY <2>2, <4>2 DEF k
    <3>2. CASE w.err = "follow"
      <4>1. /\ w.at \in Clear /\ j # 0 /\ j - 1 \in 0 .. LinkHops /\ From(m, j, x) = From(m, j - 1, w.at)
        BY <2>2, <3>2, FromIs
      <4>2. From(m, i + 1, x) = From(m, i, w.at)
        <5> DEFINE k == i + 1
        <5>1. k \in 0 .. LinkHops /\ k # 0 /\ k - 1 = i
          BY <2>1
        <5> HIDE DEF k
        <5>2. From(m, k, x) = From(m, i, w.at)
          BY <3>2, <5>1, FromIs
        <5> QED BY <5>2 DEF k
      <4> HIDE DEF w
      <4>3. From(m, i, w.at).err \in {"ok", "loop"}
        BY <1>3, <2>2, <4>1
      <4> QED BY <4>2, <4>3
    <3> QED BY <3>1, <3>2
  <2> HIDE DEF T
  <2>3. i + 1 \in 0 .. LinkHops /\ \A x \in Clear, j \in 0 .. LinkHops :
                   From(m, j, x).err = "ok" => From(m, i + 1, x).err \in {"ok", "loop"}
    BY <2>1, <2>2
  <2> QED BY <2>3 DEF T
<1>4. 0 .. LinkHops \subseteq T
  <2>1. \A i \in 0 .. LinkHops - 1 : i \in T => i + 1 \in T
    BY <1>3
  <2> HIDE DEF T
  <2> QED BY <1>1, <1>2, <2>1, InductTo
<1>5. g \in T
  BY <1>4
<1> QED BY <1>5

\* An outcome with a name.
LEMMA EndedIs == \A e, x : Ended(e, x).err = e /\ Ended(e, x).at = x
  BY DEF Ended

\* A walk that fails before the last component fails there.
LEMMA ParentFails ==
  ASSUME NEW m \in Memories, NEW n \in Clean, n # Root,
         WalkTo(m, parent(n), TRUE).err \notin {"ok", "follow"}
  PROVE  WalkTo(m, n, TRUE).err \notin {"ok", "follow"}
<1> DEFINE p == parent(n)
           S == Stops(m, p, TRUE)
           R == Stops(m, n, TRUE)
           k == Sets!Min(S)
           j == Sets!Min(R)
           l == Len(n)
           w == WalkTo(m, p, TRUE)
           v == WalkTo(m, n, TRUE)
<1>1. p \in Clean /\ l \in Nat \ {0} /\ Len(p) = l - 1
      /\ \A i \in 1 .. l - 1 : SubSeq(p, 1, i) = SubSeq(n, 1, i)
  BY NameIs
<1>2. S # {}
  <2> SUFFICES ASSUME S = {} PROVE FALSE
    OBVIOUS
  <2>1. w = Ended("ok", p)
    BY <1>1, WalkToEnd
  <2>2. w.err = "ok"
    BY <2>1, EndedIs
  <2> QED BY <2>2
<1>3. /\ k \in S /\ k \in 1 .. Len(p) /\ \A i \in S : k <= i
      /\ KindAt(m, p, k) = "link" => w = Ended("follow", Led(m, p, k))
      /\ KindAt(m, p, k) \in {"none", "file", "link"}
  BY <1>1, <1>2, WalkToStop
<1>4. (\A i \in S : i \in R) /\ \A i \in R : i < l - 1 => i \in S
  BY ParentStops
<1>5. /\ j \in R /\ j \in 1 .. l /\ \A i \in R : j <= i
      /\ KindAt(m, n, j) = "none" => v = Ended("notexist", SubSeq(n, 1, j))
      /\ KindAt(m, n, j) = "file" => v = Ended("notdir", SubSeq(n, 1, j))
  <2>1. R # {}
    BY <1>3, <1>4
  <2> HIDE DEF v
  <2> QED BY <2>1, WalkToStop DEF v
<1>6. w.err \notin {"ok", "follow"}
  OBVIOUS
<1> HIDE DEF S, R, p, k, j, l, w, v
<1>7. KindAt(m, p, k) \in {"none", "file"}
  <2>1. KindAt(m, p, k) = "link" => w.err = "follow"
    BY <1>3, EndedIs
  <2> QED BY <1>3, <1>6, <2>1
<1>8. j = k
  <2>1. j <= k
    BY <1>3, <1>4, <1>5
  <2>2. j < k => j < l - 1
    BY <1>1, <1>3, <1>5
  <2>3. j < k => k <= j
    BY <1>3, <1>4, <1>5, <2>2
  <2> QED BY <1>1, <1>3, <1>5, <2>1, <2>3
<1>9. KindAt(m, n, j) = KindAt(m, p, k)
  BY <1>1, <1>3, <1>8 DEF KindAt
<1>10. v.err \in {"notexist", "notdir"}
  BY <1>5, <1>7, <1>9, EndedIs
<1> QED BY <1>10 DEF v

\* Where a name is found, so is what it lies in.
LEMMA FromParent ==
  ASSUME NEW m \in Memories, NEW n \in Clean, n # Root, NEW h \in 0 .. LinkHops, From(m, h, n).err = "ok"
  PROVE  From(m, h, parent(n)).err = "ok"
<1> DEFINE T == {i \in 0 .. LinkHops : \A x \in Clean : x # Root /\ From(m, i, x).err = "ok"
                                         => From(m, i, parent(x)).err = "ok"}
<1>1. LinkHops \in Nat
  BY DEF LinkHops
\* One step, whatever is left to follow.
<1>2. ASSUME NEW i \in 0 .. LinkHops, NEW x \in Clean, x # Root, From(m, i, x).err = "ok",
             WalkTo(m, parent(x), TRUE).err # "follow"
      PROVE  From(m, i, parent(x)).err = "ok"
  <2> DEFINE w == WalkTo(m, parent(x), TRUE)
  <2>1. parent(x) \in Clear /\ x \in Clear
    BY <1>2, NameIs DEF Clear
  <2>2. From(m, i, parent(x)) = w
    BY <1>2, <2>1, FromIs
  <2>3. w.err # "ok" => WalkTo(m, x, TRUE).err \notin {"ok", "follow"}
    BY <1>2, ParentFails
  <2>4. WalkTo(m, x, TRUE).err # "follow" => From(m, i, x) = WalkTo(m, x, TRUE)
    BY <2>1, FromIs
  <2> HIDE DEF w
  <2> QED BY <1>2, <2>2, <2>3, <2>4
<1>3. 0 \in T
  <2>1. ASSUME NEW x \in Clean, x # Root, From(m, 0, x).err = "ok" PROVE From(m, 0, parent(x)).err = "ok"
    <3>1. 0 \in 0 .. LinkHops
      BY <1>1
    <3>2. CASE WalkTo(m, parent(x), TRUE).err # "follow"
      BY <1>2, <2>1, <3>1, <3>2
    <3>3. CASE WalkTo(m, parent(x), TRUE).err = "follow"
      <4>1. WalkTo(m, x, TRUE).err = "follow"
        BY <2>1, <3>3, ParentFollows
      <4>2. From(m, 0, x).err = "loop"
        BY <3>1, <4>1, FromIs DEF Clear
      <4> QED BY <2>1, <4>2
    <3> QED BY <3>2, <3>3
  <2> QED BY <1>1, <2>1
<1>4. ASSUME NEW j \in 0 .. LinkHops - 1, j \in T PROVE j + 1 \in T
  <2> DEFINE i == j + 1
  <2>1. i \in 0 .. LinkHops /\ i # 0 /\ i - 1 = j /\ j \in 0 .. LinkHops
    BY <1>1
  <2> HIDE DEF i
  <2>2. ASSUME NEW x \in Clean, x # Root, From(m, i, x).err = "ok" PROVE From(m, i, parent(x)).err = "ok"
    <3>1. CASE WalkTo(m, parent(x), TRUE).err # "follow"
      BY <1>2, <2>1, <2>2, <3>1
    <3>2. CASE WalkTo(m, parent(x), TRUE).err = "follow"
      <4> DEFINE w == WalkTo(m, parent(x), TRUE)
                 v == WalkTo(m, x, TRUE)
                 c == x[Len(x)]
      <4>1. /\ v.err = "follow" /\ (w.at = Outside => v.at = Outside)
            /\ w.at # Outside => w.at \in Clean /\ v.at = Append(w.at, c)
        BY <2>2, <3>2, ParentFollows
      <4>2. parent(x) \in Clear /\ x \in Clear /\ c \in Components
        BY <2>2, NameIs DEF Clear
      <4>3. From(m, i, x) = From(m, j, v.at) /\ From(m, i, parent(x)) = From(m, j, w.at)
        BY <2>1, <3>2, <4>1, <4>2, FromIs
      <4> HIDE DEF w, v, c
      <4>4. w.at # Outside
        <5>1. From(m, j, Outside).err # "ok"
          BY <2>1, NotOutside
        <5> QED BY <2>2, <4>1, <4>3, <5>1
      <4>5. v.at \in Clean /\ v.at # Root /\ parent(v.at) = w.at
        <5> DEFINE d == w.at
        <5>1. d \in Clean /\ v.at = Append(d, c)
          BY <4>1, <4>4
        <5> HIDE DEF d
        <5>2. v.at \in Clean /\ v.at # Root /\ parent(v.at) = d
          BY <4>2, <5>1, AppendIs
        <5> QED BY <5>2 DEF d
      <4>6. From(m, j, parent(v.at)).err = "ok"
        BY <1>4, <2>2, <4>3, <4>5
      <4> QED BY <4>3, <4>5, <4>6
    <3> QED BY <3>1, <3>2
  <2>3. i \in T
    BY <2>1, <2>2
  <2> HIDE DEF T
  <2> QED BY <2>3 DEF i
<1>5. 0 .. LinkHops \subseteq T
  <2>1. \A i \in 0 .. LinkHops - 1 : i \in T => i + 1 \in T
    BY <1>4
  <2> HIDE DEF T
  <2> QED BY <1>1, <1>3, <2>1, InductTo
<1>6. h \in T
  BY <1>5
<1> QED BY <1>6

\* So is every beginning of the name.
LEMMA FromPrefix ==
  ASSUME NEW m \in Memories, NEW n \in Clean, NEW h \in 0 .. LinkHops, From(m, h, n).err = "ok",
         NEW q \in Clean, Prefix(q, n)
  PROVE  From(m, h, q).err = "ok"
<1> DEFINE K == {k \in Nat : \A x \in Clean : Len(x) = k /\ Prefix(q, x) /\ From(m, h, x).err = "ok"
                                => From(m, h, q).err = "ok"}
<1>1. ASSUME NEW x \in Clean, Prefix(q, x), From(m, h, x).err = "ok", q # x
      PROVE  /\ x # Root /\ Len(x) \in Nat \ {0} /\ Len(parent(x)) = Len(x) - 1 /\ parent(x) \in Clean
             /\ Prefix(q, parent(x)) /\ From(m, h, parent(x)).err = "ok"
  <2>1. x # Root
    BY <1>1, PrefixOrder DEF Clean, Root
  <2>2. Len(x) \in Nat \ {0} /\ Len(parent(x)) = Len(x) - 1
    BY <2>1, NameIs
  <2>3. Prefix(q, parent(x)) /\ parent(x) \in Clean
    BY <1>1, <2>1, UpOf
  <2>4. From(m, h, parent(x)).err = "ok"
    BY <1>1, <2>1, FromParent
  <2> QED BY <2>1, <2>2, <2>3, <2>4
<1>2. 0 \in K
  <2>1. ASSUME NEW x \in Clean, Len(x) = 0, Prefix(q, x), From(m, h, x).err = "ok"
        PROVE  From(m, h, q).err = "ok"
    <3>1. q = x
      BY <1>1, <2>1
    <3> QED BY <2>1, <3>1
  <2> QED BY <2>1
<1>3. ASSUME NEW k \in Nat, k \in K PROVE k + 1 \in K
  <2>1. ASSUME NEW x \in Clean, Len(x) = k + 1, Prefix(q, x), From(m, h, x).err = "ok"
        PROVE  From(m, h, q).err = "ok"
    <3>1. CASE q = x
      BY <2>1, <3>1
    <3>2. CASE q # x
      <4> DEFINE y == parent(x)
      <4>1. y \in Clean /\ Len(y) = Len(x) - 1 /\ Prefix(q, y) /\ From(m, h, y).err = "ok"
        BY <1>1, <2>1, <3>2
      <4> HIDE DEF y
      <4>2. Len(y) = k
        BY <2>1, <4>1
      <4> QED BY <1>3, <4>1, <4>2
    <3> QED BY <3>1, <3>2
  <2> QED BY <2>1
<1>4. Nat \subseteq K
  <2>1. \A k \in Nat : k \in K => k + 1 \in K
    BY <1>3
  <2> HIDE DEF K
  <2> QED BY <1>2, <2>1, Induct
<1>5. Len(n) \in Nat
  BY DEF Clean
<1> QED BY <1>4, <1>5

\* Where the directory is found, the lookup goes on with the last component in it.
LEMMA FromBelow ==
  ASSUME NEW m \in Memories, NEW n \in Clean, n # Root, NEW h \in 0 .. LinkHops, From(m, h, parent(n)).err = "ok"
  PROVE  LET d == From(m, h, parent(n)).at
         IN  d \in Clean /\ \E g \in 0 .. LinkHops : From(m, h, n) = From(m, g, Append(d, n[Len(n)]))
<1> DEFINE Goes(i, x) == LET d == From(m, i, parent(x)).at
                         IN  d \in Clean /\ \E g \in 0 .. LinkHops : From(m, i, x) = From(m, g, Append(d, x[Len(x)]))
           T == {i \in 0 .. LinkHops : \A x \in Clean : x # Root /\ From(m, i, parent(x)).err = "ok" => Goes(i, x)}
<1>1. LinkHops \in Nat
  BY DEF LinkHops
<1>2. ASSUME NEW i \in 0 .. LinkHops, NEW x \in Clean, x # Root, From(m, i, parent(x)).err = "ok",
             WalkTo(m, parent(x), TRUE).err # "follow"
      PROVE  Goes(i, x)
  <2> DEFINE w == WalkTo(m, parent(x), TRUE)
  <2>1. parent(x) \in Clean /\ x = Append(parent(x), x[Len(x)])
    BY <1>2, NameIs
  <2>2. From(m, i, parent(x)) = w
    BY <1>2, <2>1, FromIs DEF Clear
  <2>3. w.err = "ok" => w.at = parent(x)
    BY <2>1, WalkToType
  <2> HIDE DEF w
  <2>4. From(m, i, parent(x)).at = parent(x)
    BY <1>2, <2>2, <2>3
  <2> QED BY <2>1, <2>4
<1>3. 0 \in T
  <2>1. ASSUME NEW x \in Clean, x # Root, From(m, 0, parent(x)).err = "ok" PROVE Goes(0, x)
    <3>1. 0 \in 0 .. LinkHops
      BY <1>1
    <3>2. CASE WalkTo(m, parent(x), TRUE).err # "follow"
      BY <1>2, <2>1, <3>1, <3>2
    <3>3. CASE WalkTo(m, parent(x), TRUE).err = "follow"
      <4>1. parent(x) \in Clear
        BY <2>1, NameIs DEF Clear
      <4>2. From(m, 0, parent(x)).err = "loop"
        BY <3>1, <3>3, <4>1, FromIs
      <4> QED BY <2>1, <4>2
    <3> QED BY <3>2, <3>3
  <2> HIDE DEF Goes
  <2> QED BY <1>1, <2>1
<1>4. ASSUME NEW j \in 0 .. LinkHops - 1, j \in T PROVE j + 1 \in T
  <2> DEFINE i == j + 1
  <2>1. i \in 0 .. LinkHops /\ i # 0 /\ i - 1 = j /\ j \in 0 .. LinkHops
    BY <1>1
  <2> HIDE DEF i
  <2>2. ASSUME NEW x \in Clean, x # Root, From(m, i, parent(x)).err = "ok" PROVE Goes(i, x)
    <3>1. CASE WalkTo(m, parent(x), TRUE).err # "follow"
      BY <1>2, <2>1, <2>2, <3>1
    <3>2. CASE WalkTo(m, parent(x), TRUE).err = "follow"
      <4> DEFINE w == WalkTo(m, parent(x), TRUE)
                 v == WalkTo(m, x, TRUE)
                 c == x[Len(x)]
      <4>1. /\ v.err = "follow" /\ (w.at = Outside => v.at = Outside)
            /\ w.at # Outside => w.at \in Clean /\ v.at = Append(w.at, c)
        BY <2>2, <3>2, ParentFollows
      <4>2. parent(x) \in Clear /\ x \in Clear /\ c \in Components
        BY <2>2, NameIs DEF Clear
      <4>3. From(m, i, x) = From(m, j, v.at) /\ From(m, i, parent(x)) = From(m, j, w.at)
        BY <2>1, <3>2, <4>1, <4>2, FromIs
      <4> HIDE DEF w, v, c
      <4>4. w.at # Outside
        <5>1. From(m, j, Outside).err # "ok"
          BY <2>1, NotOutside
        <5> QED BY <2>2, <4>3, <5>1
      <4> DEFINE y == v.at
      <4>5. y \in Clean /\ y # Root /\ parent(y) = w.at /\ y[Len(y)] = c
        <5> DEFINE d == w.at
        <5>1. d \in Clean /\ y = Append(d, c)
          BY <4>1, <4>4
        <5> HIDE DEF d, y
        <5>2. y \in Clean /\ y # Root /\ parent(y) = d /\ y[Len(y)] = c
          BY <4>2, <5>1, AppendIs
        <5> QED BY <5>2 DEF d
      <4> HIDE DEF y
      <4>6. From(m, j, parent(y)).err = "ok"
        BY <2>2, <4>3, <4>5
      <4>7. Goes(j, y)
        BY <1>4, <4>5, <4>6
      <4> QED BY <4>3, <4>5, <4>7 DEF y, c
    <3> QED BY <3>1, <3>2
  <2>3. i \in T
    <3> HIDE DEF Goes
    <3> QED BY <2>1, <2>2
  <2> HIDE DEF T
  <2> QED BY <2>3 DEF i
<1>5. 0 .. LinkHops \subseteq T
  <2>1. \A i \in 0 .. LinkHops - 1 : i \in T => i + 1 \in T
    BY <1>4
  <2> HIDE DEF T
  <2> QED BY <1>1, <1>3, <2>1, InductTo
<1>6. Goes(h, n)
  <2>1. h \in T
    BY <1>5
  <2> HIDE DEF Goes
  <2> QED BY <2>1
<1> QED BY <1>6

\* What stands at a name, as a walk sees it.
SeenAlike(a, b, q) == nodeAt(a, q).kind = nodeAt(b, q).kind /\ nodeAt(a, q).target = nodeAt(b, q).target

\* A walk along names at which the same stands goes the same way.
LEMMA WalkKept ==
  ASSUME NEW a \in Memories, NEW b \in Memories, NEW n \in Clean,
         \A i \in 1 .. Len(n) : SeenAlike(a, b, SubSeq(n, 1, i))
  PROVE  WalkTo(b, n, TRUE) = WalkTo(a, n, TRUE)
<1>1. \A i \in 1 .. Len(n) : KindAt(a, n, i) = KindAt(b, n, i) /\ Led(a, n, i) = Led(b, n, i)
  BY DEF SeenAlike, KindAt, Led
<1>2. Stops(a, n, TRUE) = Stops(b, n, TRUE)
  BY <1>1, StopsAre
<1> DEFINE S == Stops(a, n, TRUE)
           k == Sets!Min(S)
           v == WalkTo(a, n, TRUE)
           w == WalkTo(b, n, TRUE)
<1>3. CASE S = {}
  BY <1>2, <1>3, WalkToEnd
<1>4. CASE S # {}
  <2>1. /\ k \in 1 .. Len(n)
        /\ KindAt(a, n, k) = "none" => v = Ended("notexist", SubSeq(n, 1, k))
        /\ KindAt(a, n, k) = "file" => v = Ended("notdir", SubSeq(n, 1, k))
        /\ KindAt(a, n, k) = "link" => v = Ended("follow", Led(a, n, k))
        /\ KindAt(a, n, k) \in {"none", "file", "link"}
    BY <1>4, WalkToStop
  <2>2. /\ KindAt(b, n, k) = "none" => w = Ended("notexist", SubSeq(n, 1, k))
        /\ KindAt(b, n, k) = "file" => w = Ended("notdir", SubSeq(n, 1, k))
        /\ KindAt(b, n, k) = "link" => w = Ended("follow", Led(b, n, k))
    <3> DEFINE R == Stops(b, n, TRUE)
               r == Sets!Min(R)
    <3>1. R # {}
      BY <1>2, <1>4
    <3>2. /\ KindAt(b, n, r) = "none" => w = Ended("notexist", SubSeq(n, 1, r))
          /\ KindAt(b, n, r) = "file" => w = Ended("notdir", SubSeq(n, 1, r))
          /\ KindAt(b, n, r) = "link" => w = Ended("follow", Led(b, n, r))
      BY <3>1, WalkToStop
    <3>3. r = k
      BY <1>2
    <3> HIDE DEF r, k, w
    <3> QED BY <3>2, <3>3
  <2> HIDE DEF S, k, v, w
  <2>3. v = w
    BY <1>1, <2>1, <2>2
  <2> QED BY <2>3 DEF v, w
<1> QED BY <1>3, <1>4

\* Where a name is found does not change with what stands at names that cannot be found.
LEMMA FromKept ==
  ASSUME NEW a \in Memories, NEW b \in Memories, NEW X,
         \A q \in Clean \ X : SeenAlike(a, b, q),
         \A q \in X \cap Clean, i \in 0 .. LinkHops : From(a, i, q).err # "ok",
         NEW n \in Clean, NEW h \in 0 .. LinkHops, From(a, h, n).err = "ok"
  PROVE  From(b, h, n) = From(a, h, n)
<1> DEFINE T == {i \in 0 .. LinkHops : \A x \in Clean : From(a, i, x).err = "ok" => From(b, i, x) = From(a, i, x)}
<1>1. LinkHops \in Nat
  BY DEF LinkHops
\* The walk of such a name.
<1>2. ASSUME NEW i \in 0 .. LinkHops, NEW x \in Clean, From(a, i, x).err = "ok"
      PROVE  WalkTo(b, x, TRUE) = WalkTo(a, x, TRUE)
  <2>1. ASSUME NEW k \in 1 .. Len(x) PROVE SeenAlike(a, b, SubSeq(x, 1, k))
    <3> DEFINE q == SubSeq(x, 1, k)
    <3>1. k \in 0 .. Len(x) /\ Len(x) \in Nat
      BY DEF Clean
    <3>2. q \in Clean /\ Len(q) = k
      BY <3>1, BeginningIs DEF Clean
    <3>3. Prefix(q, x)
      BY <3>1, <3>2 DEF Prefix
    <3> HIDE DEF q
    <3>4. From(a, i, q).err = "ok"
      BY <1>2, <3>2, <3>3, FromPrefix
    <3>5. q \notin X
      BY <3>2, <3>4
    <3> QED BY <3>2, <3>5 DEF q
  <2> QED BY <2>1, WalkKept
\* One that does not end at a link.
<1>3. ASSUME NEW i \in 0 .. LinkHops, NEW x \in Clean, From(a, i, x).err = "ok", WalkTo(a, x, TRUE).err # "follow"
      PROVE  From(b, i, x) = From(a, i, x)
  <2>1. x \in Clear
    BY DEF Clear
  <2>2. WalkTo(b, x, TRUE) = WalkTo(a, x, TRUE)
    BY <1>2, <1>3
  <2>3. From(a, i, x) = WalkTo(a, x, TRUE)
    BY <1>3, <2>1, FromIs
  <2>4. WalkTo(b, x, TRUE).err # "follow" => From(b, i, x) = WalkTo(b, x, TRUE)
    BY <2>1, FromIs
  <2> QED BY <1>3, <2>2, <2>3, <2>4
<1>4. 0 \in T
  <2>1. ASSUME NEW x \in Clean, From(a, 0, x).err = "ok" PROVE From(b, 0, x) = From(a, 0, x)
    <3>1. 0 \in 0 .. LinkHops /\ x \in Clear
      BY <1>1 DEF Clear
    <3>2. WalkTo(a, x, TRUE).err # "follow"
      BY <2>1, <3>1, FromIs
    <3> QED BY <1>3, <2>1, <3>1, <3>2
  <2> QED BY <1>1, <2>1
<1>5. ASSUME NEW j \in 0 .. LinkHops - 1, j \in T PROVE j + 1 \in T
  <2> DEFINE i == j + 1
  <2>1. i \in 0 .. LinkHops /\ i # 0 /\ i - 1 = j /\ j \in 0 .. LinkHops
    BY <1>1
  <2> HIDE DEF i
  <2>2. ASSUME NEW x \in Clean, From(a, i, x).err = "ok" PROVE From(b, i, x) = From(a, i, x)
    <3>1. CASE WalkTo(a, x, TRUE).err # "follow"
      BY <1>3, <2>1, <2>2, <3>1
    <3>2. CASE WalkTo(a, x, TRUE).err = "follow"
      <4> DEFINE y == WalkTo(a, x, TRUE).at
      <4>1. x \in Clear
        BY DEF Clear
      <4>2. y \in Clear /\ From(a, i, x) = From(a, j, y)
        BY <2>1, <3>2, <4>1, FromIs
      <4>3. WalkTo(b, x, TRUE) = WalkTo(a, x, TRUE)
        BY <1>2, <2>1, <2>2
      <4>4. From(b, i, x) = From(b, j, y)
        <5> DEFINE z == WalkTo(b, x, TRUE)
        <5>1. z.err = "follow" /\ z.at = y
          BY <3>2, <4>3
        <5>2. From(b, i, x) = From(b, i - 1, z.at)
          BY <2>1, <4>1, <5>1, FromIs
        <5> HIDE DEF z, y
        <5> QED BY <2>1, <5>1, <5>2
      <4> HIDE DEF y
      <4>5. y # Outside
        BY <2>1, <2>2, <4>2, NotOutside
      <4>6. y \in Clean
        BY <4>2, <4>5 DEF Clear
      <4>7. From(b, j, y) = From(a, j, y)
        BY <1>5, <2>2, <4>2, <4>6
      <4> QED BY <4>2, <4>4, <4>7
    <3> QED BY <3>1, <3>2
  <2>3. i \in T
    BY <2>1, <2>2
  <2> HIDE DEF T
  <2> QED BY <2>3 DEF i
<1>6. 0 .. LinkHops \subseteq T
  <2>1. \A i \in 0 .. LinkHops - 1 : i \in T => i + 1 \in T
    BY <1>5
  <2> HIDE DEF T
  <2> QED BY <1>1, <1>4, <2>1, InductTo
<1>7. h \in T
  BY <1>6
<1> QED BY <1>7

\* A name in a directory is looked up in it.
LEMMA WalkThere ==
  ASSUME NEW m \in Goods, NEW n \in Clean, n # Root, nodeAt(m, parent(n)).kind = "dir"
  PROVE  /\ nodeAt(m, n).kind = "none" => WalkTo(m, n, TRUE).err = "notexist"
         /\ nodeAt(m, n).kind \in {"file", "dir"} => WalkTo(m, n, TRUE) = Ended("ok", n)
<1> DEFINE p == parent(n)
           l == Len(n)
           S == Stops(m, n, TRUE)
           k == Sets!Min(S)
           v == WalkTo(m, n, TRUE)
<1>1. p \in Clean /\ l \in Nat \ {0} /\ Len(p) = l - 1
      /\ \A i \in 1 .. l - 1 : SubSeq(p, 1, i) = SubSeq(n, 1, i)
  BY NameIs
<1>2. SubSeq(n, 1, l) = n
  BY DEF Clean
<1>3. m \in Memories /\ m \in Tables /\ Treed(m)
  BY GoodsAre
<1>4. \A i \in 1 .. l - 1 : KindAt(m, n, i) = "dir"
  <2> SUFFICES ASSUME NEW i \in 1 .. l - 1 PROVE nodeAt(m, SubSeq(n, 1, i)).kind = "dir"
    BY DEF KindAt
  <2> DEFINE q == SubSeq(p, 1, i)
  <2>1. i \in 0 .. Len(p) /\ i <= Len(p) /\ i # 0
    BY <1>1
  <2>2. q \in Clean /\ Len(q) = i
    BY <1>1, <2>1, BeginningIs DEF Clean
  <2>3. Prefix(q, p)
    BY <2>1, <2>2 DEF Prefix
  <2>4. q = SubSeq(n, 1, i)
    BY <1>1
  <2>5. p \in Places /\ m.at[p] # 0 /\ nodeAt(m, p).kind = "dir"
    <3>1. nodeAt(m, p).kind # "none"
      OBVIOUS
    <3>2. p \in Places /\ m.at[p] \in Ids
      BY <1>3, <3>1, NodeAt
    <3> QED BY <3>2, PlacesAre
  <2> HIDE DEF p, q
  <2>6. p # Root
    BY <1>1, <2>1 DEF Root
  <2>7. p \in Paths
    BY <2>5, <2>6, PlacesAre
  <2>8. nodeAt(m, q).kind = "dir"
    BY <2>2, <2>3, <2>5, <2>7, Ancestors
  <2> QED BY <2>4, <2>8
<1>5. KindAt(m, n, l) = nodeAt(m, n).kind
  BY <1>2 DEF KindAt
<1>6. S \subseteq {l} /\ (nodeAt(m, n).kind = "none" => l \in S)
      /\ (nodeAt(m, n).kind \in {"file", "dir"} => S = {})
  <2> HIDE DEF S, l
  <2>1. S = {i \in 1 .. l : \/ KindAt(m, n, i) = "none"
                            \/ KindAt(m, n, i) = "link"
                            \/ KindAt(m, n, i) = "file" /\ i < l}
    BY StopsAre DEF S, l
  <2>2. \A i \in S : i = l
    <3> SUFFICES ASSUME NEW i \in S, i # l PROVE FALSE
      OBVIOUS
    <3>1. i \in 1 .. l - 1
      BY <1>1, <2>1
    <3> QED BY <1>4, <2>1, <3>1
  <2>3. l \in S <=> KindAt(m, n, l) \in {"none", "link"}
    BY <1>1, <2>1
  <2> QED BY <1>5, <2>2, <2>3
<1>7. nodeAt(m, n).kind \in {"file", "dir"} => v = Ended("ok", n)
  BY <1>6, WalkToEnd
<1>8. nodeAt(m, n).kind = "none" => v.err = "notexist"
  <2> SUFFICES ASSUME nodeAt(m, n).kind = "none" PROVE v.err = "notexist"
    OBVIOUS
  <2>1. S # {}
    BY <1>6
  <2>2. k \in S /\ (KindAt(m, n, k) = "none" => v = Ended("notexist", SubSeq(n, 1, k)))
    BY <1>3, <2>1, WalkToStop
  <2> HIDE DEF S, k, v, l
  <2>3. k = l
    BY <1>6, <2>2
  <2> QED BY <1>5, <2>2, <2>3, EndedIs
<1> QED BY <1>7, <1>8

\* A file of another size: nothing moves, and the size is that of every name of the file.
LEMMA OverwriteIs ==
  ASSUME NEW m \in Goods, NEW x \in Places, nodeAt(m, x).kind = "file", NEW n \in Nat,
         Limit > 0 => m.used + (n - nodeAt(m, x).size) <= Limit
  PROVE  LET k == overwrite(m, m.at[x], n) IN
         /\ k \in Goods /\ k.at = m.at
         /\ \A q : SeenAlike(m, k, q)
         /\ \A q : nodeAt(k, q).size = IF q \in Places /\ m.at[q] = m.at[x] THEN n ELSE nodeAt(m, q).size
         /\ \A q \in Places : m.at[q] # m.at[x] => nodeAt(k, q) = nodeAt(m, q)
<1> DEFINE i == m.at[x]
           k == overwrite(m, i, n)
           b == [m.node EXCEPT ![i].size = n]
           u == m.used + n - m.node[i].size
<1>1. m \in Memories /\ m.at \in [Places -> Ids \cup {0}] /\ m.node \in [Ids -> Node] /\ 0 \notin Ids
  BY GoodsAre, PlacesAre DEF Memories
<1>2. i \in Ids /\ nodeAt(m, x) = m.node[i]
  <2>1. nodeAt(m, x).kind # "none"
    OBVIOUS
  <2> QED BY <1>1, <2>1, NodeAt
<1>3. k.at = m.at /\ k.node = b
  <2>1. k = [m EXCEPT !.node = b, !.used = u]
    BY DEF overwrite
  <2> HIDE DEF k, b, u
  <2>2. k = [at |-> m.at, node |-> b, used |-> u]
    BY <1>1, <2>1, PartsAre
  <2> QED BY <2>2
<1>4. k \in Goods
  <2> HIDE DEF i
  <2> QED BY <1>2, OverwriteGood
<1>5. /\ b[i].size = n /\ b[i].kind = m.node[i].kind /\ b[i].target = m.node[i].target
      /\ \A j \in Ids : j # i => b[j] = m.node[j]
  <2>1. m.node[i] \in Node
    BY <1>1, <1>2
  <2> HIDE DEF i
  <2> QED BY <1>1, <1>2, <2>1 DEF Node
<1> HIDE DEF k, b, i
<1>6. ASSUME NEW q
      PROVE  /\ SeenAlike(m, k, q)
             /\ nodeAt(k, q).size = IF q \in Places /\ m.at[q] = i THEN n ELSE nodeAt(m, q).size
             /\ q \in Places /\ m.at[q] # i => nodeAt(k, q) = nodeAt(m, q)
  <2>1. CASE q \in Places /\ m.at[q] # 0
    <3>1. m.at[q] \in Ids
      BY <1>1, <2>1
    <3>2. nodeAt(m, q) = m.node[m.at[q]] /\ nodeAt(k, q) = b[m.at[q]]
      BY <1>3, <2>1 DEF nodeAt
    <3> QED BY <1>5, <2>1, <3>1, <3>2 DEF SeenAlike
  <2>2. CASE ~(q \in Places /\ m.at[q] # 0)
    <3>1. nodeAt(m, q) = Nothing /\ nodeAt(k, q) = Nothing
      BY <1>3, <2>2 DEF nodeAt
    <3>2. ~(q \in Places /\ m.at[q] = i)
      BY <1>1, <1>2, <2>2
    <3> QED BY <3>1, <3>2 DEF SeenAlike
  <2> QED BY <2>1, <2>2
<1> QED BY <1>3, <1>4, <1>6 DEF k, i

\* A new entry: nothing else changes.
LEMMA InsertIs ==
  ASSUME NEW m \in Goods, NEW p \in Clean, p # Root, nodeAt(m, parent(p)).kind = "dir",
         nodeAt(m, p).kind \in {"none", "link"},
         NEW n \in Node, Sound(n), n.links = 1, Limit > 0 => m.used + n.size <= Limit,
         NEW r, r = Insert(m, p, n), r.err = "ok"
  PROVE  /\ r.fs \in Goods /\ p \in Places /\ nodeAt(r.fs, p) = n
         /\ \A q : q # p => nodeAt(r.fs, q) = nodeAt(m, q)
         /\ \A q \in Places : q # p => r.fs.at[q] = m.at[q] /\ m.at[q] # r.fs.at[p]
         /\ r.fs.at[p] # 0
<1>1. r \in Replies /\ nodeAt(r.fs, p) = n
  BY InsertGood
<1>2. r.fs \in Goods
  BY <1>1 DEF Replies
<1>3. p \in Places /\ Fresh(m) # {}
  <2> SUFFICES ASSUME p \notin Places \/ Fresh(m) = {} PROVE FALSE
    OBVIOUS
  <2>1. r = Answer(m, "bound")
    BY DEF Insert
  <2>2. r.err = "bound"
    BY <2>1 DEF Answer
  <2> QED BY <2>2
<1> DEFINE i == Sets!Min(Fresh(m))
           o == m.at[p]
           k == [at   |-> [m.at EXCEPT ![p] = i],
                 node |-> [j \in Ids |-> IF j = i THEN n ELSE IF j = o THEN Nothing ELSE m.node[j]],
                 used |-> m.used + n.size]
<1>4. r = Answer(k, "ok")
  BY <1>3 DEF Insert, Then
<1>5. i \in Ids /\ Names(m, i) = {}
  <2>1. Fresh(m) \subseteq Nat
    BY PlacesAre DEF Fresh
  <2>2. i \in Fresh(m)
    <3>1. \E x \in Fresh(m) : \A y \in Fresh(m) : x <= y
      BY <1>3, <2>1, MinimumExists
    <3> QED BY <3>1 DEF Sets!Min
  <2> QED BY <2>2 DEF Fresh
<1>6. /\ m \in Memories /\ Counted(m) /\ 0 \notin Ids
      /\ m.at \in [Places -> Ids \cup {0}] /\ m.node \in [Ids -> Node]
  BY GoodsAre, PlacesAre DEF Memories
<1>7. /\ r.fs.at = [m.at EXCEPT ![p] = i]
      /\ r.fs.node = [j \in Ids |-> IF j = i THEN n ELSE IF j = o THEN Nothing ELSE m.node[j]]
  <2>1. r.fs = k
    BY <1>4 DEF Answer
  <2>2. /\ k.at = [m.at EXCEPT ![p] = i]
        /\ k.node = [j \in Ids |-> IF j = i THEN n ELSE IF j = o THEN Nothing ELSE m.node[j]]
    OBVIOUS
  <2> HIDE DEF k
  <2> QED BY <2>1, <2>2
<1> HIDE DEF k, i
<1>8. ASSUME NEW q, q # p PROVE nodeAt(r.fs, q) = nodeAt(m, q)
  <2>1. q \in Places => r.fs.at[q] = m.at[q]
    BY <1>3, <1>6, <1>7, <1>8
  <2>2. CASE q \in Places /\ m.at[q] # 0
    <3>1. m.at[q] \in Ids /\ m.at[q] # i
      BY <1>5, <1>6, <2>2 DEF Names
    <3>2. m.at[q] # o
      <4> SUFFICES ASSUME m.at[q] = o PROVE FALSE
        OBVIOUS
      <4>1. o # 0 /\ nodeAt(m, p).kind \in {"file", "dir", "link"}
        BY <1>3, <1>6, <2>2, NamedIs
      <4>2. nodeAt(m, p).kind = "link"
        BY <4>1
      <4>3. Names(m, o) = {p}
        BY <1>3, <1>6, <4>2, OnlyName
      <4>4. q \in Names(m, o)
        BY <2>2 DEF Names
      <4> QED BY <1>8, <4>3, <4>4
    <3>3. r.fs.node[m.at[q]] = m.node[m.at[q]]
      BY <1>7, <3>1, <3>2
    <3> QED BY <2>1, <2>2, <3>3 DEF nodeAt
  <2>3. CASE ~(q \in Places /\ m.at[q] # 0)
    BY <2>1, <2>3 DEF nodeAt
  <2> QED BY <2>2, <2>3
<1>9. /\ r.fs.at[p] = i /\ i # 0
      /\ \A q \in Places : q # p => r.fs.at[q] = m.at[q] /\ m.at[q] # i
  BY <1>3, <1>5, <1>6, <1>7 DEF Names
<1> QED BY <1>1, <1>2, <1>3, <1>8, <1>9

\* A second name, where there was nothing.
LEMMA LinkIs ==
  ASSUME NEW m \in Goods, NEW oldName \in Clean, NEW newName \in Paths,
         NEW l, l = link(m, oldName, newName), l.err = "ok"
  PROVE  /\ l.fs \in Goods /\ Open(m, oldName).err = "ok" /\ nodeAt(m, Open(m, oldName).at).kind = "file"
         /\ m.at[newName] = 0 /\ nodeAt(m, parent(newName)).kind = "dir"
         /\ \A q \in Places : l.fs.at[q] = IF q = newName THEN m.at[Open(m, oldName).at] ELSE m.at[q]
         /\ \A q : q # newName => SeenAlike(m, l.fs, q)
<1> DEFINE found == Open(m, oldName)
           j == m.at[found.at]
           k == [m EXCEPT !.at[newName] = j, !.node[j].links = @ + 1]
<1>1. l \in Replies
  BY LinkGood
<1>2. l.fs \in Goods
  BY <1>1 DEF Replies
<1>3. newName \in Places
  BY PlacesAre
<1>4. /\ found.err = "ok" /\ nodeAt(m, found.at).kind = "file" /\ m.at[newName] = 0
      /\ nodeAt(m, parent(newName)).kind = "dir" /\ l = Answer(k, "ok")
  <2>1. l = IF found.err # "ok" THEN Answer(m, found.err)
            ELSE IF nodeAt(m, found.at).kind # "file" THEN Answer(m, "notregular")
            ELSE IF m.at[newName] # 0 THEN Answer(m, "exist")
            ELSE IF nodeAt(m, parent(newName)).kind = "none" THEN Answer(m, "notexist")
            ELSE IF nodeAt(m, parent(newName)).kind # "dir" THEN Answer(m, "notdir")
            ELSE Answer(k, "ok")
    BY <1>3 DEF link, Then
  <2>2. \A e : Answer(m, e).err = e
    BY DEF Answer
  <2> HIDE DEF found, j, k
  <2> QED BY <2>1, <2>2
<1>5. /\ m \in Memories /\ 0 \notin Ids /\ m.at \in [Places -> Ids \cup {0}] /\ m.node \in [Ids -> Node]
  BY GoodsAre, PlacesAre DEF Memories
<1>6. j \in Ids
  BY <1>4, Found DEF Open
<1> DEFINE a == [m.at EXCEPT ![newName] = j]
           b == [m.node EXCEPT ![j].links = @ + 1]
<1>7. l.fs.at = a /\ l.fs.node = b
  <2>1. k = [at |-> a, node |-> b, used |-> m.used]
    <3>1. k = [m EXCEPT !.at = a, !.node = b]
      OBVIOUS
    <3> HIDE DEF k, a, b
    <3> QED BY <1>5, <3>1, PartsAre
  <2>2. l.fs = k
    <3> HIDE DEF k
    <3> QED BY <1>4 DEF Answer
  <2> HIDE DEF k, a, b
  <2> QED BY <2>1, <2>2
<1>8. m.node[j] \in Node
  BY <1>5, <1>6
<1> HIDE DEF found, j
<1>9. /\ \A p \in Places : a[p] = IF p = newName THEN j ELSE m.at[p]
      /\ b[j].kind = m.node[j].kind /\ b[j].target = m.node[j].target
      /\ \A i \in Ids : i # j => b[i] = m.node[i]
  BY <1>3, <1>5, <1>6, <1>8 DEF Node
<1> HIDE DEF a, b
<1>10. ASSUME NEW q, q # newName PROVE SeenAlike(m, l.fs, q)
  <2>1. q \in Places => l.fs.at[q] = m.at[q]
    BY <1>7, <1>9, <1>10
  <2>2. CASE q \in Places /\ m.at[q] # 0
    <3>1. m.at[q] \in Ids
      BY <1>5, <2>2
    <3>2. nodeAt(m, q) = m.node[m.at[q]] /\ nodeAt(l.fs, q) = b[m.at[q]]
      BY <1>7, <2>1, <2>2 DEF nodeAt
    <3> QED BY <1>9, <3>1, <3>2 DEF SeenAlike
  <2>3. CASE ~(q \in Places /\ m.at[q] # 0)
    BY <2>1, <2>3 DEF nodeAt, SeenAlike
  <2> QED BY <2>2, <2>3
<1> QED BY <1>2, <1>4, <1>7, <1>9, <1>10 DEF found, j

\* What opens a name starts with all the links to follow.
LEMMA OpenIs ==
  ASSUME NEW m \in Memories, NEW n \in Clean
  PROVE  LinkHops \in 0 .. LinkHops /\ From(m, LinkHops, n) = Open(m, n)
<1>1. LinkHops \in 0 .. LinkHops
  BY DEF LinkHops
<1> QED BY <1>1, FromIs DEF Clear

\* Names are found where they were when kinds and targets are what they were.
LEMMA OpenKept ==
  ASSUME NEW m \in Memories, NEW k \in Memories, \A q : SeenAlike(m, k, q),
         NEW n \in Clean, Open(m, n).err = "ok"
  PROVE  Open(k, n) = Open(m, n)
<1>1. LinkHops \in 0 .. LinkHops /\ From(m, LinkHops, n) = Open(m, n) /\ From(k, LinkHops, n) = Open(k, n)
  BY OpenIs
<1>2. \A q \in Clean \ {} : SeenAlike(m, k, q)
  OBVIOUS
<1>3. \A q \in {} \cap Clean, i \in 0 .. LinkHops : From(m, i, q).err # "ok"
  OBVIOUS
<1>4. From(k, LinkHops, n) = From(m, LinkHops, n)
  BY <1>1, <1>2, <1>3, FromKept
<1> QED BY <1>1, <1>4

\* The place of a new entry is below what its parent leads to.
LEMMA SlotBelow ==
  ASSUME NEW m \in Goods, NEW n \in Clean, n # Root, Slot(m, n).err = "ok"
  PROVE  LET up == Open(m, parent(n)) IN
         /\ up.err = "ok" /\ nodeAt(m, up.at).kind = "dir" /\ up.at \in Clean
         /\ Slot(m, n).at = Append(up.at, n[Len(n)])
<1> DEFINE up == Open(m, parent(n))
           s == Slot(m, n)
           at == Append(up.at, n[Len(n)])
<1>1. s = IF up.err # "ok" THEN up
          ELSE IF nodeAt(m, up.at).kind # "dir" THEN Ended("notdir", up.at)
          ELSE Ended("ok", at)
  BY DEF Slot, Then, Ended
<1>2. parent(n) \in Clean
  BY NameIs
<1>3. up.err = "ok" => up.at \in Clean
  BY <1>2, Found, PlacesAre DEF Open
<1> HIDE DEF up, s, at
<1>4. s.err = "ok"
  BY DEF s
<1>5. up.err = "ok" /\ nodeAt(m, up.at).kind = "dir" /\ s.at = at
  BY <1>1, <1>4, EndedIs
<1> QED BY <1>3, <1>5 DEF up, s, at

\* A file written where there was none is found where it was put.
LEMMA WriteNew ==
  ASSUME NEW m \in Goods, NEW p \in Clean, p # Root, NEW n \in Nat, Open(m, p).err # "ok",
         NEW w, w = writeFile(m, p, n), w.err = "ok"
  PROVE  /\ w.fs \in Goods
         /\ Open(w.fs, p).err = "ok" /\ nodeAt(w.fs, Open(w.fs, p).at) = Regular(n)
         /\ \A q : nodeAt(m, q).kind = "file" => nodeAt(w.fs, q) = nodeAt(m, q)
<1> DEFINE found == Open(m, p)
           slot == Slot(m, p)
           up == Open(m, parent(p))
           c == p[Len(p)]
           s == slot.at
           k == w.fs
<1>1. \A e : Answer(m, e).err = e
  BY DEF Answer
<1>2. found.err = "notexist"
  <2> SUFFICES ASSUME found.err # "notexist" PROVE FALSE
    OBVIOUS
  <2>1. w = Answer(m, found.err)
    <3> HIDE DEF found
    <3>1. found.err \notin {"ok", "notexist"}
      BY DEF found
    <3> QED BY <3>1 DEF writeFile, Then, found
  <2> HIDE DEF found
  <2> QED BY <1>1, <2>1 DEF found
<1>3. w = IF slot.err = "ok" /\ ReachesQuota(m, n) THEN Answer(m, "quota") ELSE InsertAt(m, slot, Regular(n))
  <2> HIDE DEF found, slot
  <2> QED BY <1>2 DEF writeFile, Then, found, slot
<1>4. slot.err = "ok" /\ ~ReachesQuota(m, n) /\ w = Insert(m, s, Regular(n))
  <2> HIDE DEF slot
  <2>1. ~(slot.err = "ok" /\ ReachesQuota(m, n))
    BY <1>1, <1>3
  <2>2. w = InsertAt(m, slot, Regular(n))
    BY <1>3, <2>1
  <2>3. slot.err = "ok"
    BY <1>1, <2>2 DEF InsertAt
  <2> QED BY <2>1, <2>2, <2>3 DEF InsertAt
<1>5. /\ up.err = "ok" /\ nodeAt(m, up.at).kind = "dir" /\ up.at \in Clean /\ s = Append(up.at, c)
  BY <1>4, SlotBelow
<1>6. parent(p) \in Clean /\ c \in Components
  BY NameIs
<1>7. s \in Clean /\ s # Root /\ parent(s) = up.at
  <2> DEFINE d == up.at
  <2>1. d \in Clean /\ s = Append(d, c)
    BY <1>5
  <2> HIDE DEF d, c, s
  <2>2. s \in Clean /\ s # Root /\ parent(s) = d
    BY <1>6, <2>1, AppendIs
  <2> QED BY <2>2 DEF d
<1>8. nodeAt(m, s).kind \in {"none", "link"}
  BY <1>4, SlotIs
<1>9. /\ k \in Goods /\ nodeAt(k, s) = Regular(n)
      /\ \A q : q # s => nodeAt(k, q) = nodeAt(m, q)
  <2> DEFINE f == Regular(n)
  <2>1. f \in Node /\ Sound(f) /\ f.links = 1 /\ (Limit > 0 => m.used + f.size <= Limit)
    BY <1>4, NewFits DEF Fits
  <2>2. nodeAt(m, parent(s)).kind = "dir"
    BY <1>5, <1>7
  <2> HIDE DEF f, s
  <2>3. w = Insert(m, s, f)
    BY <1>4 DEF f
  <2>4. k \in Goods /\ nodeAt(k, s) = f /\ \A q : q # s => nodeAt(k, q) = nodeAt(m, q)
    BY <1>7, <1>8, <2>1, <2>2, <2>3, InsertIs
  <2> QED BY <2>4 DEF f
<1>10. m \in Memories /\ k \in Memories
  BY <1>9, GoodsAre
<1>11. /\ LinkHops \in 0 .. LinkHops
       /\ From(m, LinkHops, p) = found /\ From(k, LinkHops, p) = Open(k, p)
       /\ From(m, LinkHops, parent(p)) = up
  BY <1>6, <1>10, OpenIs
<1> HIDE DEF found, slot, up, c, s, k
\* The place could not be found before.
<1>12. \A i \in 0 .. LinkHops : From(m, i, s).err # "ok"
  <2>1. From(m, LinkHops, parent(p)).err = "ok"
    BY <1>5, <1>11
  <2>2. PICK g \in 0 .. LinkHops :
          From(m, LinkHops, p) = From(m, g, Append(From(m, LinkHops, parent(p)).at, p[Len(p)]))
    BY <1>10, <1>11, <2>1, FromBelow
  <2>3. From(m, g, s).err = "notexist"
    BY <1>2, <1>5, <1>11, <2>2 DEF c
  <2>4. s \in Clear
    BY <1>7 DEF Clear
  <2> SUFFICES ASSUME NEW i \in 0 .. LinkHops, From(m, i, s).err = "ok" PROVE FALSE
    OBVIOUS
  <2>5. From(m, g, s).err \in {"ok", "loop"}
    BY <1>10, <2>4, FromOther
  <2> QED BY <2>3, <2>5
<1>13. From(k, LinkHops, parent(p)) = up
  <2>1. \A q \in Clean \ {s} : SeenAlike(m, k, q)
    BY <1>9 DEF SeenAlike
  <2>2. \A q \in {s} \cap Clean, i \in 0 .. LinkHops : From(m, i, q).err # "ok"
    BY <1>12
  <2>3. From(m, LinkHops, parent(p)).err = "ok"
    BY <1>5, <1>11
  <2>4. From(k, LinkHops, parent(p)) = From(m, LinkHops, parent(p))
    BY <1>6, <1>10, <1>11, <2>1, <2>2, <2>3, FromKept
  <2> QED BY <1>11, <2>4
<1>14. PICK h \in 0 .. LinkHops : From(k, LinkHops, p) = From(k, h, s)
  <2>1. From(k, LinkHops, parent(p)).err = "ok"
    BY <1>5, <1>13
  <2>2. PICK g \in 0 .. LinkHops :
          From(k, LinkHops, p) = From(k, g, Append(From(k, LinkHops, parent(p)).at, p[Len(p)]))
    BY <1>10, <1>11, <2>1, FromBelow
  <2>3. From(k, LinkHops, p) = From(k, g, s)
    BY <1>5, <1>13, <2>2 DEF c
  <2> QED BY <2>3
<1>15. nodeAt(k, s).kind = "file"
  BY <1>9, NewNodes
<1>16. nodeAt(k, parent(s)).kind = "dir"
  <2>1. parent(s) # s
    BY <1>7, UpOf
  <2> QED BY <1>5, <1>7, <1>9, <2>1
<1>17. WalkTo(k, s, TRUE) = Ended("ok", s)
  BY <1>7, <1>9, <1>15, <1>16, WalkThere
<1>18. Open(k, p) = Ended("ok", s)
  <2>1. s \in Clear
    BY <1>7 DEF Clear
  <2>2. WalkTo(k, s, TRUE).err # "follow"
    BY <1>17, EndedIs
  <2>3. From(k, h, s) = WalkTo(k, s, TRUE)
    BY <1>10, <2>1, <2>2, FromIs
  <2> QED BY <1>11, <1>14, <1>17, <2>3
<1>19. \A q : nodeAt(m, q).kind = "file" => q # s
  BY <1>8
<1> QED BY <1>9, <1>18, <1>19, EndedIs DEF k

\* One that was found is written in place, under all its names.
LEMMA WriteOver ==
  ASSUME NEW m \in Goods, NEW p \in Clean, NEW n \in Nat, Open(m, p).err = "ok",
         NEW w, w = writeFile(m, p, n), w.err = "ok"
  PROVE  LET x == Open(m, p).at IN
         /\ w.fs \in Goods /\ w.fs.at = m.at /\ x \in Places
         /\ Open(w.fs, p) = Open(m, p) /\ nodeAt(m, x).kind = "file" /\ nodeAt(w.fs, x).kind = "file"
         /\ \A y \in Clean : Open(m, y).err = "ok" => Open(w.fs, y) = Open(m, y)
         /\ \A q : nodeAt(w.fs, q).size = IF q \in Places /\ m.at[q] = m.at[x] THEN n ELSE nodeAt(m, q).size
<1> DEFINE found == Open(m, p)
           x == found.at
           i == m.at[x]
<1>1. x \in Places /\ i \in Ids /\ nodeAt(m, x) = m.node[i] /\ nodeAt(m, x).kind \in {"file", "dir"}
  BY Found DEF Open
<1>2. \A k, e : Answer(k, e).err = e /\ Answer(k, e).fs = k
  BY DEF Answer
<1> HIDE DEF found
<1>3. w = IF nodeAt(m, x).kind = "dir" THEN Answer(m, "isdir") ELSE resized(m, i, n)
  BY DEF writeFile, Then, found
<1>4. nodeAt(m, x).kind = "file" /\ w = resized(m, i, n)
  BY <1>1, <1>2, <1>3
<1>5. ~ReachesQuota(m, n - m.node[i].size) /\ w = Answer(overwrite(m, i, n), "ok")
  <2> HIDE DEF i
  <2> QED BY <1>2, <1>4 DEF resized
<1>6. Limit > 0 => m.used + (n - nodeAt(m, x).size) <= Limit
  <2>1. m.used \in Nat /\ nodeAt(m, x).size \in Nat
    BY GoodsAre, NodeAt DEF Memories, Node
  <2>2. Limit \in Nat
    BY MemoryAssumption
  <2> QED BY <1>1, <1>5, <2>1, <2>2 DEF ReachesQuota
<1>7. /\ w.fs \in Goods /\ w.fs.at = m.at /\ \A q : SeenAlike(m, w.fs, q)
      /\ \A q : nodeAt(w.fs, q).size = IF q \in Places /\ m.at[q] = i THEN n ELSE nodeAt(m, q).size
  <2>1. w.fs = overwrite(m, i, n)
    BY <1>2, <1>5
  <2> HIDE DEF x
  <2>2. LET k == overwrite(m, m.at[x], n) IN
        /\ k \in Goods /\ k.at = m.at
        /\ \A q : SeenAlike(m, k, q)
        /\ \A q : nodeAt(k, q).size = IF q \in Places /\ m.at[q] = m.at[x] THEN n ELSE nodeAt(m, q).size
    BY <1>1, <1>4, <1>6, OverwriteIs
  <2> QED BY <2>1, <2>2
<1>8. m \in Memories /\ w.fs \in Memories
  BY <1>7, GoodsAre
<1>9. \A y \in Clean : Open(m, y).err = "ok" => Open(w.fs, y) = Open(m, y)
  BY <1>7, <1>8, OpenKept
<1>10. nodeAt(w.fs, x).kind = "file"
  BY <1>4, <1>7 DEF SeenAlike
<1> QED BY <1>1, <1>4, <1>7, <1>9, <1>10 DEF found

\* What a name leads to.
LEMMA SeenIs ==
  ASSUME NEW m, NEW p, Open(m, p).err = "ok"
  PROVE  Seen(m, p) = nodeAt(m, Open(m, p).at)
  BY DEF Seen, Then

\* What is written under the new name of a file is read under the old one.
LEMMA WrittenThroughLink ==
  ASSUME NEW m \in Goods, NEW p \in Clean, NEW q \in Paths, NEW l, l = link(m, p, q), l.err = "ok"
  PROVE  Seen(writeFile(l.fs, q, 0).fs, p).size = 0
<1> DEFINE r == Open(m, p)
           k == l.fs
           w == writeFile(k, q, 0)
<1>1. /\ k \in Goods /\ r.err = "ok" /\ nodeAt(m, r.at).kind = "file" /\ m.at[q] = 0
      /\ nodeAt(m, parent(q)).kind = "dir"
      /\ \A x \in Places : k.at[x] = IF x = q THEN m.at[r.at] ELSE m.at[x]
      /\ \A x : x # q => SeenAlike(m, k, x)
  <2>1. /\ k \in Goods /\ Open(m, p).err = "ok" /\ nodeAt(m, Open(m, p).at).kind = "file" /\ m.at[q] = 0
        /\ nodeAt(m, parent(q)).kind = "dir"
    BY LinkIs
  <2>2. \A x \in Places : k.at[x] = IF x = q THEN m.at[Open(m, p).at] ELSE m.at[x]
    BY LinkIs
  <2>3. \A x : x # q => SeenAlike(m, k, x)
    BY LinkIs
  <2> HIDE DEF k
  <2> QED BY <2>1, <2>2, <2>3
<1>2. r.at \in Places /\ m.at[r.at] # 0
  BY <1>1, Found DEF Open
<1>3. q \in Places /\ q \in Clean /\ q # Root
  BY PlacesAre
<1>4. m \in Memories /\ k \in Memories /\ m \in Tables /\ k \in Tables
  BY <1>1, GoodsAre
<1>5. LinkHops \in 0 .. LinkHops /\ From(m, LinkHops, p) = r /\ From(k, LinkHops, p) = Open(k, p)
      /\ From(k, LinkHops, q) = Open(k, q)
  BY <1>3, <1>4, OpenIs
<1> HIDE DEF r, k
\* The old name leads where it led, as the new one was not there.
<1>6. \A i \in 0 .. LinkHops : From(m, i, q).err # "ok"
  <2>1. nodeAt(m, q).kind = "none"
    BY <1>1, NothingIs DEF nodeAt
  <2>2. WalkTo(m, q, TRUE).err = "notexist"
    BY <1>1, <1>3, <2>1, WalkThere
  <2>3. q \in Clear
    BY <1>3 DEF Clear
  <2>4. \A i \in 0 .. LinkHops : From(m, i, q) = WalkTo(m, q, TRUE)
    BY <1>4, <2>2, <2>3, FromIs
  <2> QED BY <2>2, <2>4
<1>7. Open(k, p) = r
  <2>1. \A x \in Clean \ {q} : SeenAlike(m, k, x)
    BY <1>1
  <2>2. \A x \in {q} \cap Clean, i \in 0 .. LinkHops : From(m, i, x).err # "ok"
    BY <1>6
  <2>3. From(m, LinkHops, p).err = "ok"
    BY <1>1, <1>5
  <2>4. From(k, LinkHops, p) = From(m, LinkHops, p)
    BY <1>4, <1>5, <2>1, <2>2, <2>3, FromKept
  <2> QED BY <1>5, <2>4
\* The new name leads to the file.
<1>8. nodeAt(k, r.at).kind = "file" /\ nodeAt(k, q).kind = "file" /\ k.at[q] = k.at[r.at]
  <2>1. r.at # q
    BY <1>1, <1>2
  <2>2. nodeAt(k, r.at).kind = "file"
    BY <1>1, <2>1 DEF SeenAlike
  <2>3. k.at[q] = k.at[r.at] /\ k.at[q] # 0
    BY <1>1, <1>2, <1>3, <2>1
  <2>4. nodeAt(k, q) = nodeAt(k, r.at)
    BY <1>2, <1>3, <2>3 DEF nodeAt
  <2> QED BY <2>2, <2>3, <2>4
<1>9. Open(k, q) = Ended("ok", q)
  <2>1. parent(q) # q
    BY <1>3, UpOf
  <2>2. nodeAt(k, parent(q)).kind = "dir"
    BY <1>1, <2>1 DEF SeenAlike
  <2>3. WalkTo(k, q, TRUE) = Ended("ok", q)
    BY <1>1, <1>3, <1>8, <2>2, WalkThere
  <2>4. WalkTo(k, q, TRUE).err # "follow"
    BY <2>3, EndedIs
  <2>5. From(k, LinkHops, q) = WalkTo(k, q, TRUE)
    BY <1>3, <1>4, <1>5, <2>4, FromIs DEF Clear
  <2> QED BY <1>5, <2>3, <2>5
\* A file of no bytes is within the quota.
<1>10. w.err = "ok"
  <2> DEFINE i == k.at[q]
             found == Open(k, q)
             d == 0 - k.node[i].size
  <2>1. found.err = "ok" /\ found.at = q
    BY <1>9, EndedIs
  <2>2. nodeAt(k, found.at).kind # "dir" /\ k.at[found.at] = i
    BY <1>8, <2>1
  <2> HIDE DEF found, i
  <2>3. w = resized(k, i, 0)
    BY <2>1, <2>2 DEF writeFile, Then, found
  <2>4. i \in Ids
    <3>1. nodeAt(k, q).kind # "none"
      BY <1>8
    <3> QED BY <1>4, <3>1, NodeAt DEF i
  <2>5. k.node[i].size \in Nat /\ k.used \in Nat /\ Limit \in Nat /\ (Limit > 0 => k.used <= Limit)
    BY <1>4, <2>4, MemoryAssumption DEF Memories, Node, Tables, Charged
  <2>6. ~ReachesQuota(k, d)
    BY <2>5 DEF ReachesQuota
  <2>7. w = Answer(overwrite(k, i, 0), "ok")
    BY <2>3, <2>6 DEF resized
  <2> HIDE DEF w
  <2> QED BY <2>7 DEF Answer
<1>11. /\ \A y \in Clean : Open(k, y).err = "ok" => Open(w.fs, y) = Open(k, y)
       /\ \A x : nodeAt(w.fs, x).size = IF x \in Places /\ k.at[x] = k.at[q] THEN 0 ELSE nodeAt(k, x).size
  <2>1. Open(k, q).err = "ok" /\ Open(k, q).at = q
    BY <1>9, EndedIs
  <2>2. LET x == Open(k, q).at IN
        /\ \A y \in Clean : Open(k, y).err = "ok" => Open(w.fs, y) = Open(k, y)
        /\ \A z : nodeAt(w.fs, z).size = IF z \in Places /\ k.at[z] = k.at[x] THEN 0 ELSE nodeAt(k, z).size
    BY <1>1, <1>3, <1>10, <2>1, WriteOver
  <2> HIDE DEF w
  <2> QED BY <2>1, <2>2
<1> HIDE DEF w
<1>12. Open(w.fs, p) = r
  BY <1>1, <1>7, <1>11
<1>13. nodeAt(w.fs, r.at).size = 0
  BY <1>2, <1>8, <1>11
<1>14. Seen(w.fs, p) = nodeAt(w.fs, r.at)
  BY <1>1, <1>12, SeenIs
<1> QED BY <1>13, <1>14 DEF w, k

\* What a good filesystem gives back is what was written.
LEMMA GoodIsRead == ASSUME fs \in Goods PROVE WriteIsRead
<1> SUFFICES ASSUME NEW p \in Paths, NEW n \in Written, NEW w, w = writeFile(fs, p, n), w.err = "ok"
    PROVE  /\ Seen(w.fs, p).kind = "file" /\ Seen(w.fs, p).size = n
           /\ \A q \in Paths : nodeAt(fs, q).kind = "file" =>
                nodeAt(w.fs, q).size = IF Open(fs, p).err = "ok" /\ fs.at[q] = fs.at[Open(fs, p).at]
                                       THEN n ELSE nodeAt(fs, q).size
           /\ \A q \in Paths : link(w.fs, p, q).err = "ok" =>
                Seen(writeFile(link(w.fs, p, q).fs, q, 0).fs, p).size = 0
  BY DEF WriteIsRead
<1>1. p \in Clean /\ p # Root /\ n \in Nat /\ Paths \subseteq Places
  BY PlacesAre, MemoryAssumption
<1>2. CASE Open(fs, p).err = "ok"
  <2> DEFINE x == Open(fs, p).at
  <2>1. /\ w.fs \in Goods /\ w.fs.at = fs.at /\ x \in Places
        /\ Open(w.fs, p) = Open(fs, p) /\ nodeAt(w.fs, x).kind = "file"
        /\ \A q : nodeAt(w.fs, q).size = IF q \in Places /\ fs.at[q] = fs.at[x] THEN n ELSE nodeAt(fs, q).size
    BY <1>1, <1>2, WriteOver
  <2>2. Seen(w.fs, p) = nodeAt(w.fs, x)
    BY <1>2, <2>1, SeenIs
  <2>3. \A q \in Paths : link(w.fs, p, q).err = "ok" => Seen(writeFile(link(w.fs, p, q).fs, q, 0).fs, p).size = 0
    BY <1>1, <2>1, WrittenThroughLink
  <2> QED BY <1>1, <1>2, <2>1, <2>2, <2>3
<1>3. CASE Open(fs, p).err # "ok"
  <2>1. /\ w.fs \in Goods
        /\ Open(w.fs, p).err = "ok" /\ nodeAt(w.fs, Open(w.fs, p).at) = Regular(n)
        /\ \A q : nodeAt(fs, q).kind = "file" => nodeAt(w.fs, q) = nodeAt(fs, q)
    BY <1>1, <1>3, WriteNew
  <2>2. Seen(w.fs, p).kind = "file" /\ Seen(w.fs, p).size = n
    BY <1>1, <2>1, SeenIs, NewNodes
  <2>3. \A q \in Paths : link(w.fs, p, q).err = "ok" => Seen(writeFile(link(w.fs, p, q).fs, q, 0).fs, p).size = 0
    BY <1>1, <2>1, WrittenThroughLink
  <2> QED BY <1>3, <2>1, <2>2, <2>3
<1> QED BY <1>2, <1>3

-----------------------------------------------------------------------------
(* Theorems                                                                *)

\* Whatever calls the commands of an execution make on the filesystem, in
\* whatever order those of its jobs come, and wherever a copy mount stops, the
\* table of nodes is a tree that counts the names of each node and the bytes of
\* all (memory.go): the inductive invariant of the theorems below.  The one
\* call left out is a rename of the root, which memory.go accepts.
THEOREM MemoryInvariant == MovesRoot = FALSE => (MountSpec => []MemoryInv)
<1> SUFFICES ASSUME MovesRoot = FALSE PROVE MountSpec => []MemoryInv
  OBVIOUS
<1>1. Init => MemoryInv
  BY MemoryInit
<1>2. MemoryInv /\ [MountNext]_vars => MemoryInv'
  BY MemoryStep, MountStep DEF MountNext
<1> QED BY <1>1, <1>2, PTL DEF MountSpec

\* What has a name is in a directory (Memory.nodes of memory.go).
THEOREM MemoryIsTree == MovesRoot = FALSE => (MountSpec => []TableIsTree)
<1>1. MemoryInv => TableIsTree
  BY GoodIsTree DEF MemoryInv
<1> QED BY <1>1, MemoryInvariant, PTL

\* What Memory.used says is what a walk over the names would find, within the
\* limit, and links is the number of a node's names.
THEOREM MemoryIsAccounted == MovesRoot = FALSE => (MountSpec => []UsedIsReachable)
<1>1. MemoryInv => UsedIsReachable
  BY GoodIsAccounted DEF MemoryInv
<1> QED BY <1>1, MemoryInvariant, PTL

\* Whatever calls came before, what a WriteFile that succeeds wrote is read under
\* every name of the file and under no other, and a Link that succeeds adds a name.
THEOREM MemoryWritesAreRead == MovesRoot = FALSE => (MountSpec => []WriteIsRead)
<1>1. MemoryInv => WriteIsRead
  BY GoodIsRead DEF MemoryInv
<1> QED BY <1>1, MemoryInvariant, PTL

=============================================================================
