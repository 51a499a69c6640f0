--------------------------- MODULE Overlay_proofs ---------------------------
(***************************************************************************)
(* Proofs about Overlay, for every set of paths, every contents and every  *)
(* lower filesystem.                                                       *)
(*                                                                         *)
(* A run only ever adds copies of what is seen (Lifted) and then makes the *)
(* change the operation is for.  Copies change nothing that is seen, so    *)
(* what a torn run shows is what was there before, but for the few calls   *)
(* after the change.  The invariant is that the upper layer is a tree with *)
(* its markers in directories, and, where listings are to agree with       *)
(* lookups, that a directory never lies over a lower file in plain sight.  *)
(***************************************************************************)
EXTENDS Overlay, Lemmas, TLAPS

-----------------------------------------------------------------------------
(* Paths and trees.                                                        *)

IsTree(t) ==
  /\ t \in [Places -> Nodes] /\ t[Root] = "dir"
  /\ \A p \in Paths : t[p] # "absent" => t[parentName(p)] = "dir"

\* The root and the paths, and what lies directly in what.
LEMMA PlacesAre ==
  /\ Root \in Places /\ Paths \subseteq Places /\ Places \subseteq Seq(Components)
  /\ \A p \in Paths : p # Root /\ parentName(p) \in Places
  /\ \A p \in Places : p # Root => p \in Paths
<1>1. Root \in Seq(Components)
  BY EmptySeq DEF Root
<1> QED BY <1>1, OverlayAssumption DEF Places

\* Lying within is an order, and what is above one place is in a line.
LEMMA WithinOrder ==
  ASSUME NEW p \in Places, NEW q \in Places
  PROVE  /\ Within(p, p) /\ Within(Root, p) /\ (Within(p, Root) => p = Root)
         /\ Within(p, q) /\ Within(q, p) => p = q
         /\ \A s \in Places : /\ Within(p, q) /\ Within(q, s) => Within(p, s)
                              /\ Within(p, s) /\ Within(q, s) => Within(p, q) \/ Within(q, p)
<1>1. p \in Seq(Components) /\ q \in Seq(Components) /\ \A s \in Places : s \in Seq(Components)
  BY PlacesAre
<1>2. \A x, y : Within(x, y) <=> Prefix(x, y)
  BY DEF Within, Prefix
<1>3. Within(p, p) /\ Within(Root, p) /\ (Within(p, Root) => p = Root)
      /\ (Within(p, q) /\ Within(q, p) => p = q)
  BY <1>1, <1>2, PrefixOrder DEF Root
<1>4. ASSUME NEW s \in Places
      PROVE  /\ Within(p, q) /\ Within(q, s) => Within(p, s)
             /\ Within(p, s) /\ Within(q, s) => Within(p, q) \/ Within(q, p)
  BY <1>1, <1>2, PrefixTransitive, PrefixTotal
<1> QED BY <1>3, <1>4

\* A path lies in its parent, and whatever else it lies in, its parent does too.
LEMMA ParentIs ==
  ASSUME NEW p \in Paths
  PROVE  /\ p \in Places /\ parentName(p) \in Places /\ Within(parentName(p), p) /\ parentName(p) # p
         /\ ~Within(p, parentName(p))
         /\ \A q \in Places : Within(q, p) /\ q # p => Within(q, parentName(p))
<1>1. p \in Seq(Components) /\ p # <<>> /\ p \in Places /\ parentName(p) \in Places
      /\ \A s \in Places : s \in Seq(Components)
  BY PlacesAre DEF Root
<1>2. \A x, y : Within(x, y) <=> Prefix(x, y)
  BY DEF Within, Prefix
<1>3. parentName(p) = Up(p)
  BY DEF parentName, Up
<1>4. Within(parentName(p), p) /\ parentName(p) # p
      /\ \A q \in Places : Within(q, p) /\ q # p => Within(q, parentName(p))
  BY <1>1, <1>2, <1>3, UpIs
<1>5. ~Within(p, parentName(p))
  BY <1>1, <1>4, WithinOrder
<1> QED BY <1>1, <1>4, <1>5

\* A beginning of a place is a place.
LEMMA BeginningIsPlace ==
  ASSUME NEW p \in Places, NEW n \in 0 .. Len(p)
  PROVE  /\ Len(p) \in Nat
         /\ SubSeq(p, 1, n) \in Places /\ Len(SubSeq(p, 1, n)) = n /\ Within(SubSeq(p, 1, n), p)
         /\ n > 0 => SubSeq(p, 1, n) \in Paths /\ parentName(SubSeq(p, 1, n)) = SubSeq(p, 1, n - 1)
<1>1. p \in Seq(Components) /\ Len(p) \in Nat
  BY PlacesAre
<1> DEFINE T == {k \in 0 .. Len(p) : SubSeq(p, 1, Len(p) - k) \in Places}
<1>2. 0 \in T
  <2>1. SubSeq(p, 1, Len(p)) = p /\ Len(p) - 0 = Len(p) /\ 0 \in 0 .. Len(p)
    BY <1>1, SubSeqFull
  <2>2. SubSeq(p, 1, Len(p) - 0) \in Places
    BY <2>1
  <2> QED BY <2>1, <2>2
<1>3. ASSUME NEW m \in 1 .. Len(p)
      PROVE  parentName(SubSeq(p, 1, m)) = SubSeq(p, 1, m - 1) /\ Len(SubSeq(p, 1, m)) = m
  <2> DEFINE s == SubSeq(p, 1, m)
             t == SubSeq(p, 1, m - 1)
  <2>1. m \in 0 .. Len(p) /\ m - 1 \in 0 .. Len(p)
    BY <1>1
  <2>2. /\ s \in Seq(Components) /\ Len(s) = m /\ \A i \in 1 .. m : s[i] = p[i]
        /\ t \in Seq(Components) /\ Len(t) = m - 1 /\ \A i \in 1 .. m - 1 : t[i] = p[i]
    BY <1>1, <2>1, BeginningIs
  <2> HIDE DEF s, t
  <2>3. m - 1 \in 0 .. Len(s)
    BY <2>1, <2>2
  <2>4. /\ SubSeq(s, 1, m - 1) \in Seq(Components) /\ Len(SubSeq(s, 1, m - 1)) = m - 1
        /\ \A i \in 1 .. m - 1 : SubSeq(s, 1, m - 1)[i] = s[i]
    BY <2>2, <2>3, BeginningIs
  <2>5. \A i \in 1 .. m - 1 : i \in 1 .. m
    BY <2>1
  <2>6. SubSeq(s, 1, m - 1) = t
    BY <2>2, <2>4, <2>5, SeqEqual
  <2> QED BY <2>2, <2>6 DEF parentName, s, t
<1>4. \A k \in 0 .. Len(p) - 1 : k \in T => k + 1 \in T
  <2> SUFFICES ASSUME NEW k \in 0 .. Len(p) - 1, SubSeq(p, 1, Len(p) - k) \in Places
      PROVE  SubSeq(p, 1, Len(p) - (k + 1)) \in Places
    BY <1>1
  <2> DEFINE m == Len(p) - k
             s == SubSeq(p, 1, m)
  <2>1. m \in 1 .. Len(p) /\ m - 1 = Len(p) - (k + 1)
    BY <1>1
  <2>2. parentName(s) = SubSeq(p, 1, m - 1) /\ Len(s) = m
    <3> HIDE DEF m
    <3> QED BY <2>1, <1>3
  <2>3. s # Root
    <3>1. Len(s) # 0
      <4> HIDE DEF s, m
      <4> QED BY <2>1, <2>2
    <3> HIDE DEF s
    <3> QED BY <3>1, EmptySeq DEF Root
  <2>4. s \in Paths
    BY <2>3, PlacesAre
  <2> QED BY <2>1, <2>2, <2>4, PlacesAre
<1>5. Len(p) - n \in T
  <2>1. 0 .. Len(p) \subseteq T
    <3> HIDE DEF T
    <3> QED BY <1>1, <1>2, <1>4, InductTo
  <2>2. Len(p) - n \in 0 .. Len(p)
    BY <1>1
  <2> HIDE DEF T
  <2> QED BY <2>1, <2>2
<1>6. SubSeq(p, 1, n) \in Places
  <2>1. Len(p) - (Len(p) - n) = n
    BY <1>1
  <2> QED BY <1>5, <2>1
<1>7. SubSeq(p, 1, n) \in Seq(Components) /\ Len(SubSeq(p, 1, n)) = n /\ \A i \in 1 .. n : SubSeq(p, 1, n)[i] = p[i]
  BY <1>1, BeginningIs
<1>8. Within(SubSeq(p, 1, n), p)
  BY <1>7 DEF Within
<1>9. n > 0 => SubSeq(p, 1, n) \in Paths /\ parentName(SubSeq(p, 1, n)) = SubSeq(p, 1, n - 1)
  <2> SUFFICES ASSUME n > 0
      PROVE SubSeq(p, 1, n) \in Paths /\ parentName(SubSeq(p, 1, n)) = SubSeq(p, 1, n - 1)
    OBVIOUS
  <2>1. n \in 1 .. Len(p)
    OBVIOUS
  <2>2. SubSeq(p, 1, n) # Root
    BY <1>7, EmptySeq DEF Root
  <2> QED BY <1>3, <1>6, <2>1, <2>2, PlacesAre
<1> QED BY <1>1, <1>6, <1>7, <1>8, <1>9

\* What is on the way to p.
LEMMA WayIs ==
  ASSUME NEW p \in Places
  PROVE  LET way == Way(p) IN
         /\ Len(way) = Len(p) /\ Len(p) \in Nat /\ way \in Seq(Paths)
         /\ \A i \in 1 .. Len(p) :
              /\ way[i] \in Paths /\ Within(way[i], p)
              /\ parentName(way[i]) = IF i = 1 THEN Root ELSE way[i - 1]
         /\ Len(p) > 0 => way[Len(p)] = p
         /\ \A q \in Paths : Within(q, p) => \E i \in 1 .. Len(p) : way[i] = q
<1> DEFINE way == Way(p)
<1>1. Len(p) \in Nat /\ p \in Seq(Components)
  BY PlacesAre
<1>2. way = [i \in 1 .. Len(p) |-> SubSeq(p, 1, i)]
  BY DEF Way
<1> HIDE DEF way
<1>3. ASSUME NEW i \in 1 .. Len(p)
      PROVE  /\ way[i] = SubSeq(p, 1, i) /\ way[i] \in Paths /\ Within(way[i], p)
             /\ parentName(way[i]) = IF i = 1 THEN Root ELSE way[i - 1]
  <2>1. i \in 0 .. Len(p) /\ i > 0
    BY <1>1
  <2>2. way[i] = SubSeq(p, 1, i) /\ SubSeq(p, 1, i) \in Paths /\ Within(SubSeq(p, 1, i), p)
        /\ parentName(SubSeq(p, 1, i)) = SubSeq(p, 1, i - 1)
    BY <1>2, <2>1, BeginningIsPlace
  <2>3. CASE i = 1
    <3>1. SubSeq(p, 1, i - 1) = Root
      BY <2>3, SubSeqEmpty DEF Root
    <3> QED BY <2>2, <2>3, <3>1
  <2>4. CASE i # 1
    <3>1. i - 1 \in 1 .. Len(p)
      BY <2>1, <2>4
    <3> QED BY <1>2, <2>2, <2>4, <3>1
  <2> QED BY <2>3, <2>4
<1>4. Len(way) = Len(p) /\ way \in Seq(Paths)
  <2>1. way \in [1 .. Len(p) -> Paths]
    BY <1>2, <1>3
  <2> QED BY <1>1, <2>1, SeqDef
<1>5. Len(p) > 0 => way[Len(p)] = p
  <2>1. Len(p) > 0 => Len(p) \in 1 .. Len(p)
    BY <1>1
  <2> QED BY <1>1, <1>3, <2>1, SubSeqFull
<1>6. ASSUME NEW q \in Paths, Within(q, p) PROVE \E i \in 1 .. Len(p) : way[i] = q
  <2>1. q \in Seq(Components) /\ q # <<>>
    BY PlacesAre DEF Root
  <2>2. Len(q) \in 1 .. Len(p) /\ SubSeq(p, 1, Len(q)) = q
    BY <1>1, <1>6, <2>1, EmptySeq DEF Within
  <2> QED BY <1>3, <2>2
<1> QED BY <1>1, <1>3, <1>4, <1>5, <1>6 DEF way

\* In a tree, what something lies in is a directory.
LEMMA AboveIsDir ==
  ASSUME NEW t, IsTree(t), NEW p \in Places, t[p] # "absent"
  PROVE  /\ \A q \in Places : Within(q, p) /\ q # p => t[q] = "dir"
<1>1. p \in Seq(Components) /\ Len(p) \in Nat
  BY PlacesAre
<1> DEFINE at(k) == SubSeq(p, 1, Len(p) - k)
           T == {k \in 0 .. Len(p) : t[at(k)] # "absent"}
<1>2. at(0) = p
  BY <1>1, SubSeqFull
<1>3. 0 \in T
  <2>1. t[at(0)] # "absent" /\ 0 \in 0 .. Len(p)
    <3> HIDE DEF at
    <3> QED BY <1>1, <1>2
  <2> HIDE DEF at
  <2> QED BY <2>1
<1>4. ASSUME NEW k \in 0 .. Len(p) - 1, t[at(k)] # "absent"
      PROVE  t[at(k + 1)] = "dir"
  <2>1. Len(p) - k \in 0 .. Len(p) /\ Len(p) - k > 0 /\ (Len(p) - k) - 1 = Len(p) - (k + 1)
    BY <1>1
  <2>2. at(k) \in Paths /\ parentName(at(k)) = SubSeq(p, 1, (Len(p) - k) - 1)
    BY <2>1, BeginningIsPlace
  <2>3. parentName(at(k)) = at(k + 1)
    BY <2>1, <2>2
  <2> HIDE DEF at
  <2> QED BY <1>4, <2>2, <2>3 DEF IsTree
<1>5. \A k \in 0 .. Len(p) - 1 : k \in T => k + 1 \in T
  <2> SUFFICES ASSUME NEW k \in 0 .. Len(p) - 1, k \in T PROVE k + 1 \in T
    OBVIOUS
  <2>1. t[at(k + 1)] = "dir"
    BY <1>4
  <2>2. k + 1 \in 0 .. Len(p)
    BY <1>1
  <2> HIDE DEF at
  <2> QED BY <2>1, <2>2
<1>6. 0 .. Len(p) \subseteq T
  <2> HIDE DEF T
  <2> QED BY <1>1, <1>3, <1>5, InductTo
<1>7. ASSUME NEW q \in Places, Within(q, p), q # p PROVE t[q] = "dir"
  <2>1. q \in Seq(Components) /\ Len(q) \in Nat /\ Len(q) <= Len(p) /\ SubSeq(p, 1, Len(q)) = q
    BY <1>7, PlacesAre DEF Within
  <2>2. Len(q) # Len(p)
    BY <1>1, <1>7, <2>1, SubSeqFull
  <2> DEFINE k == Len(p) - Len(q) - 1
  <2>3. k \in 0 .. Len(p) - 1 /\ Len(p) - (k + 1) = Len(q)
    BY <1>1, <2>1, <2>2
  <2>4. t[at(k)] # "absent"
    <3>1. k \in 0 .. Len(p)
      BY <1>1, <2>3
    <3>2. k \in T
      <4> HIDE DEF T, k
      <4> QED BY <1>6, <3>1
    <3> HIDE DEF at, k
    <3> QED BY <3>2
  <2>5. t[at(k + 1)] = "dir"
    <3> HIDE DEF k, at
    <3> QED BY <1>4, <2>3, <2>4
  <2> QED BY <2>1, <2>3, <2>5
<1> QED BY <1>7

-----------------------------------------------------------------------------
(* Upper layers, and what comes of them by copy-ups.                       *)

Uppers == [node : [Places -> Nodes], marks : SUBSET Paths]

\* The upper layer is a tree, and each marker is in a directory of it.
Upright(u) ==
  /\ u \in Uppers /\ IsTree(u.node)
  /\ \A p \in u.marks : u.node[parentName(p)] = "dir"

\* A directory where the lower layer has a file is marked.
Hides(u) == \A p \in Places : u.node[p] = "dir" /\ lower[p] \in Contents => whitedOut(u, p)

Strict == Early = {} /\ DirTargets = FALSE
Good(u) == Upright(u) /\ (Strict => Hides(u))

\* What comes of u when entries of the lower layer are copied up.
Lifted(u) ==
  {v \in Uppers :
     /\ Upright(v) /\ v.marks = u.marks
     /\ \A p \in Places : v.node[p] # u.node[p] => u.node[p] = "absent" /\ v.node[p] = Seen(u, p)}

\* The shape of an upper layer that is a tree.
LEMMA UprightIs ==
  ASSUME NEW u, Upright(u)
  PROVE  /\ u \in Uppers /\ u = [node |-> u.node, marks |-> u.marks]
         /\ u.node \in [Places -> Nodes] /\ u.marks \in SUBSET Paths /\ IsTree(u.node)
  BY DEF Upright, Uppers

\* What the lower layer may be (OverlayAssumption) is a tree.
LEMMA LowerIsTree == ASSUME lower \in Lowers PROVE IsTree(lower)
  BY OverlayAssumption DEF IsTree

\* No file reads like a directory or like nothing.
LEMMA NodesDiffer == "dir" \notin Contents /\ "absent" \notin Contents
  BY OverlayAssumption

\* Nothing is in the way to what is there, or to what is in a directory.
LEMMA NothingBlocks ==
  ASSUME NEW u, Upright(u), NEW p \in Places
  PROVE  /\ u.node[p] # "absent" => ~Blocked(u, p)
         /\ p \in Paths /\ u.node[parentName(p)] = "dir" => ~Blocked(u, p)
<1>1. IsTree(u.node)
  BY UprightIs
<1>2. u.node[p] # "absent" => ~Blocked(u, p)
  <2>1. u.node[p] # "absent" => \A q \in Paths : Within(q, p) /\ q # p => u.node[q] = "dir"
    BY <1>1, AboveIsDir, PlacesAre
  <2> QED BY <2>1, NodesDiffer DEF Blocked
<1>3. ASSUME p \in Paths, u.node[parentName(p)] = "dir" PROVE ~Blocked(u, p)
  <2>1. parentName(p) \in Places /\ \A q \in Places : Within(q, p) /\ q # p => Within(q, parentName(p))
    BY <1>3, ParentIs
  <2>2. \A q \in Places : Within(q, parentName(p)) /\ q # parentName(p) => u.node[q] = "dir"
    BY <1>1, <1>3, <2>1, AboveIsDir
  <2>3. \A q \in Places : Within(q, p) /\ q # p => u.node[q] = "dir"
    BY <1>3, <2>1, <2>2
  <2> QED BY <2>3, NodesDiffer, PlacesAre DEF Blocked
<1> QED BY <1>2, <1>3

\* Stat and ReadFile: the upper entry first, then the lower one unless a marker or a file is above it.
LEMMA SeenIs ==
  ASSUME NEW u, Upright(u), NEW p \in Places
  PROVE  /\ u.node[p] # "absent" => Seen(u, p) = u.node[p]
         /\ u.node[p] = "absent" /\ Seen(u, p) # "absent" =>
              ~Blocked(u, p) /\ ~whitedOut(u, p) /\ Seen(u, p) = lower[p] /\ lower[p] # "absent"
         /\ u.node[p] = "absent" /\ ~Blocked(u, p) =>
              Seen(u, p) = IF whitedOut(u, p) THEN "absent" ELSE lower[p]
  BY NothingBlocks DEF Seen

\* The overlay shows a file, a directory or nothing, and the root is a directory.
LEMMA SeenIsNode ==
  ASSUME NEW u, Upright(u), lower \in Lowers, NEW p \in Places
  PROVE  Seen(u, p) \in Nodes /\ Seen(u, Root) = "dir"
<1>1. IsTree(lower) /\ IsTree(u.node)
  BY LowerIsTree, UprightIs
<1>2. lower[p] \in Nodes /\ u.node[p] \in Nodes /\ u.node[Root] = "dir" /\ Root \in Places
  BY <1>1, PlacesAre DEF IsTree
<1> QED BY <1>2, SeenIs DEF Seen, Nodes

\* A marker hides what lies below it too.
LEMMA MarkHidesBelow ==
  ASSUME NEW u, Upright(u), NEW p \in Places, NEW q \in Places, Within(p, q), whitedOut(u, p)
  PROVE  whitedOut(u, q)
<1>1. PICK m \in u.marks : Within(m, p)
  BY DEF whitedOut
<1>2. m \in Places
  BY UprightIs, PlacesAre
<1> QED BY <1>1, <1>2, WithinOrder DEF whitedOut

\* What is seen through the overlay is a tree.
LEMMA SeenIsTree ==
  ASSUME NEW u, Upright(u), lower \in Lowers, NEW p \in Paths, Seen(u, p) # "absent"
  PROVE  Seen(u, parentName(p)) = "dir"
<1>1. /\ p \in Places /\ parentName(p) \in Places /\ Within(parentName(p), p) /\ parentName(p) # p
      /\ ~Within(p, parentName(p))
  BY ParentIs
<1>2. IsTree(u.node) /\ IsTree(lower)
  BY UprightIs, LowerIsTree
<1>3. CASE u.node[p] # "absent"
  <2>1. u.node[parentName(p)] = "dir"
    BY <1>2, <1>3 DEF IsTree
  <2> QED BY <1>1, <2>1, SeenIs
<1>4. CASE u.node[p] = "absent"
  <2>1. ~Blocked(u, p) /\ ~whitedOut(u, p) /\ lower[p] # "absent"
    BY <1>1, <1>4, SeenIs
  <2>2. lower[parentName(p)] = "dir"
    BY <1>2, <2>1 DEF IsTree
  <2>3. ~Blocked(u, parentName(p))
    <3>1. \A q \in Paths : Within(q, parentName(p)) /\ q # parentName(p) => Within(q, p) /\ q # p
      BY <1>1, WithinOrder, PlacesAre
    <3> QED BY <2>1, <3>1 DEF Blocked
  <2>4. ~whitedOut(u, parentName(p))
    BY <1>1, <2>1, MarkHidesBelow
  <2>5. u.node[parentName(p)] \notin Contents
    <3>1. CASE parentName(p) = Root
      BY <1>2, <3>1, NodesDiffer DEF IsTree
    <3>2. CASE parentName(p) # Root
      BY <1>1, <2>1, <3>2, PlacesAre DEF Blocked
    <3> QED BY <3>1, <3>2
  <2>6. u.node[parentName(p)] \in {"dir", "absent"}
    BY <1>1, <1>2, <2>5 DEF IsTree, Nodes
  <2> QED BY <1>1, <2>2, <2>3, <2>4, <2>6, SeenIs
<1> QED BY <1>3, <1>4

\* Copying up changes nothing that is seen.
LEMMA LiftedSees ==
  ASSUME NEW u, Upright(u), lower \in Lowers, NEW v \in Lifted(u), NEW p \in Places
  PROVE  Seen(v, p) = Seen(u, p)
<1>1. /\ Upright(v) /\ v.marks = u.marks
      /\ \A q \in Places : v.node[q] # u.node[q] => u.node[q] = "absent" /\ v.node[q] = Seen(u, q)
  BY DEF Lifted
<1>2. whitedOut(v, p) <=> whitedOut(u, p)
  BY <1>1 DEF whitedOut
<1>3. CASE v.node[p] # "absent"
  BY <1>1, <1>3, SeenIs
<1>4. CASE v.node[p] = "absent" /\ Blocked(u, p)
  <2>1. u.node[p] = "absent"
    BY <1>1, <1>4
  <2>2. Blocked(v, p)
    BY <1>1, <1>4, NodesDiffer, PlacesAre DEF Blocked
  <2> QED BY <1>4, <2>1, <2>2 DEF Seen
<1>5. CASE v.node[p] = "absent" /\ Blocked(v, p) /\ ~Blocked(u, p)
  <2>1. u.node[p] = "absent"
    BY <1>1, <1>5
  <2>2. PICK q \in Paths : Within(q, p) /\ q # p /\ v.node[q] \in Contents
    BY <1>5 DEF Blocked
  <2>3. u.node[q] \notin Contents /\ q \in Places
    BY <1>5, <2>2, PlacesAre DEF Blocked
  <2>4. u.node[q] = "absent" /\ Seen(u, q) \in Contents
    BY <1>1, <2>2, <2>3
  <2>5. lower[q] \in Contents
    BY <2>3, <2>4, SeenIs, NodesDiffer
  <2>6. lower[p] = "absent"
    BY <2>2, <2>3, <2>5, AboveIsDir, LowerIsTree, NodesDiffer
  <2>7. Seen(v, p) = "absent"
    BY <1>5 DEF Seen
  <2>8. Seen(u, p) = "absent"
    BY <2>1, <2>6, SeenIs
  <2> QED BY <2>7, <2>8
<1>6. CASE v.node[p] = "absent" /\ ~Blocked(v, p) /\ ~Blocked(u, p)
  <2>1. u.node[p] = "absent"
    BY <1>1, <1>6
  <2> QED BY <1>1, <1>2, <1>6, <2>1, SeenIs
<1> QED BY <1>3, <1>4, <1>5, <1>6

\* Copying nothing up is a copy-up.
LEMMA LiftedIsSelf == ASSUME NEW u, Upright(u) PROVE u \in Lifted(u)
  BY UprightIs DEF Lifted

\* Copy-ups after copy-ups are copy-ups.
LEMMA LiftedTwice ==
  ASSUME NEW u, Upright(u), lower \in Lowers, NEW v \in Lifted(u), NEW w \in Lifted(v)
  PROVE  w \in Lifted(u)
<1>1. Upright(v) /\ v.marks = u.marks /\ w \in Uppers /\ Upright(w) /\ w.marks = v.marks
  BY DEF Lifted
<1>2. ASSUME NEW p \in Places, w.node[p] # u.node[p] PROVE u.node[p] = "absent" /\ w.node[p] = Seen(u, p)
  <2>1. v.node[p] # u.node[p] => u.node[p] = "absent" /\ v.node[p] = Seen(u, p)
    BY DEF Lifted
  <2>2. w.node[p] # v.node[p] => v.node[p] = "absent" /\ w.node[p] = Seen(v, p)
    BY DEF Lifted
  <2>3. Seen(v, p) = Seen(u, p)
    BY LiftedSees
  <2> QED BY <1>2, <2>1, <2>2, <2>3
<1> QED BY <1>1, <1>2 DEF Lifted

\* Entries and markers of the lifted layer.
LEMMA LiftedIs ==
  ASSUME NEW u, Upright(u), lower \in Lowers, NEW v \in Lifted(u)
  PROVE  /\ Upright(v) /\ v.marks = u.marks
         /\ \A p \in Places : u.node[p] # "absent" => v.node[p] = u.node[p]
         /\ \A p \in Places : v.node[p] # "absent" => v.node[p] = Seen(u, p)
  BY SeenIs DEF Lifted

\* A copy-up never puts a directory over a lower file that no marker hides.
LEMMA LiftedHides ==
  ASSUME NEW u, Upright(u), lower \in Lowers, Hides(u), NEW v \in Lifted(u)
  PROVE  Hides(v)
<1> SUFFICES ASSUME NEW p \in Places, v.node[p] = "dir", lower[p] \in Contents PROVE whitedOut(v, p)
  BY DEF Hides
<1>1. v.marks = u.marks /\ (v.node[p] # u.node[p] => u.node[p] = "absent" /\ v.node[p] = Seen(u, p))
  BY DEF Lifted
<1>2. u.node[p] = "dir"
  BY <1>1, SeenIs, NodesDiffer
<1> QED BY <1>1, <1>2 DEF Hides, whitedOut

\* Copy-ups keep the upper layer good.
LEMMA LiftedGood == ASSUME NEW u, Good(u), lower \in Lowers, NEW v \in Lifted(u) PROVE Good(v)
  BY LiftedHides, LiftedIs DEF Good

\* One entry of the upper layer is replaced.
LEMMA PutIs ==
  ASSUME NEW u \in Uppers, NEW p \in Places, NEW c \in Nodes
  PROVE  /\ Put(u, p, c) \in Uppers /\ Put(u, p, c).marks = u.marks /\ Put(u, p, c).node[p] = c
         /\ \A q \in Places : q # p => Put(u, p, c).node[q] = u.node[q]
  BY DEF Put, Uppers

\* An entry put into a directory leaves a tree, unless it is a file in the place of a directory.
LEMMA PutUpright ==
  ASSUME NEW u, Upright(u), NEW p \in Paths, u.node[parentName(p)] = "dir",
         NEW c \in Nodes \ {"absent"}, u.node[p] = "dir" => c = "dir"
  PROVE  Upright(Put(u, p, c))
<1> DEFINE v == Put(u, p, c)
<1>1. /\ v \in Uppers /\ v.marks = u.marks /\ v.node[p] = c
      /\ \A q \in Places : q # p => v.node[q] = u.node[q]
  BY PutIs, UprightIs, PlacesAre
<1> HIDE DEF v
<1>2. v.node \in [Places -> Nodes] /\ v.node[Root] = "dir"
  BY <1>1, UprightIs, PlacesAre DEF IsTree, Uppers
<1>3. ASSUME NEW q \in Paths, v.node[q] # "absent" PROVE v.node[parentName(q)] = "dir"
  <2>1. q \in Places /\ parentName(q) \in Places
    BY PlacesAre
  <2>2. u.node[parentName(q)] = "dir"
    BY <1>1, <1>3, <2>1, UprightIs DEF IsTree
  <2> QED BY <1>1, <2>1, <2>2
<1>4. ASSUME NEW m \in v.marks PROVE v.node[parentName(m)] = "dir"
  <2>1. m \in Paths /\ parentName(m) \in Places /\ u.node[parentName(m)] = "dir"
    BY <1>1, UprightIs, PlacesAre DEF Upright
  <2> QED BY <1>1, <2>1
<1> QED BY <1>1, <1>2, <1>3, <1>4 DEF Upright, IsTree, v

\* What is seen at p may be put there, once its directory is in the upper layer.
LEMMA PutLifts ==
  ASSUME NEW u, Upright(u), lower \in Lowers, NEW p \in Paths, u.node[parentName(p)] = "dir",
         Seen(u, p) # "absent"
  PROVE  Put(u, p, Seen(u, p)) \in Lifted(u)
<1>1. p \in Places /\ Seen(u, p) \in Nodes
  BY SeenIsNode, PlacesAre
<1>2. u.node[p] # "absent" => Seen(u, p) = u.node[p]
  BY <1>1, SeenIs
<1>3. Upright(Put(u, p, Seen(u, p)))
  BY <1>1, <1>2, PutUpright
<1>4. /\ Put(u, p, Seen(u, p)) \in Uppers /\ Put(u, p, Seen(u, p)).marks = u.marks
      /\ Put(u, p, Seen(u, p)).node[p] = Seen(u, p)
      /\ \A q \in Places : q # p => Put(u, p, Seen(u, p)).node[q] = u.node[q]
  BY <1>1, PutIs, UprightIs
<1> QED BY <1>1, <1>2, <1>3, <1>4 DEF Lifted

-----------------------------------------------------------------------------
(* Runs.                                                                   *)

Runs == [now : Uppers, past : SUBSET Uppers, ok : BOOLEAN]

\* m goes on from r with copy-ups alone.
Lifts(r, m) ==
  /\ m \in Runs /\ m.now \in Lifted(r.now) /\ m.past \subseteq r.past \cup Lifted(r.now)
  /\ m.ok => r.ok
  /\ ~r.ok => m = r

\* A call on the upper layer takes place unless the run failed before.
LEMMA DoIs ==
  ASSUME NEW r \in Runs, NEW u \in Uppers
  PROVE  /\ Do(r, u) \in Runs /\ Do(r, u).ok = r.ok
         /\ r.ok => Do(r, u).now = u
         /\ ~r.ok => Do(r, u) = r
         /\ Do(r, u).past \subseteq r.past \cup {r.now}
         /\ r.past \subseteq Do(r, u).past
  BY DEF Do, Runs

\* A condition that does not hold fails the run and changes nothing else.
LEMMA RequireIs ==
  ASSUME NEW r \in Runs, NEW c
  PROVE  /\ Require(r, c) \in Runs
         /\ Require(r, c).now = r.now /\ Require(r, c).past = r.past
         /\ Require(r, c).ok => r.ok /\ c
         /\ r.ok /\ c => Require(r, c).ok
         /\ ~r.ok => Require(r, c) = r
  BY DEF Require, Fail, Runs

\* A run that fails stays where it is.
LEMMA FailIs ==
  ASSUME NEW r \in Runs
  PROVE  /\ Fail(r) \in Runs /\ Fail(r).now = r.now /\ Fail(r).past = r.past /\ Fail(r).ok = FALSE
         /\ ~r.ok => Fail(r) = r
  BY DEF Fail, Runs

\* Doing nothing goes on with copy-ups alone.
LEMMA LiftsSelf ==
  ASSUME NEW r \in Runs, Upright(r.now)
  PROVE  Lifts(r, r)
  BY LiftedIsSelf DEF Lifts

\* So do two parts of a run that each do.
LEMMA LiftsTwice ==
  ASSUME NEW r \in Runs, Upright(r.now), lower \in Lowers, NEW m, Lifts(r, m), NEW w, Lifts(m, w)
  PROVE  Lifts(r, w)
<1>1. \A v \in Lifted(m.now) : v \in Lifted(r.now)
  BY LiftedTwice DEF Lifts
<1> QED BY <1>1 DEF Lifts

\* A condition copies nothing.
LEMMA LiftsRequire ==
  ASSUME NEW r \in Runs, Upright(r.now), NEW c
  PROVE  Lifts(r, Require(r, c))
  BY LiftedIsSelf, RequireIs DEF Lifts

\* Nor does a failure.
LEMMA LiftsFail ==
  ASSUME NEW r \in Runs, Upright(r.now)
  PROVE  Lifts(r, Fail(r))
  BY LiftedIsSelf, FailIs DEF Lifts

\* One copy-up goes on with copy-ups alone.
LEMMA LiftsDo ==
  ASSUME NEW r \in Runs, Upright(r.now), NEW v \in Uppers, r.ok => v \in Lifted(r.now)
  PROVE  Lifts(r, Do(r, v))
<1>1. r.now \in Lifted(r.now)
  BY LiftedIsSelf
<1> QED BY <1>1, DoIs DEF Lifts

\* Copy-ups leave the markers and all that is seen.
LEMMA LiftsIs ==
  ASSUME NEW r \in Runs, Upright(r.now), lower \in Lowers, NEW m, Lifts(r, m)
  PROVE  /\ m \in Runs /\ Upright(m.now) /\ m.now.marks = r.now.marks
         /\ \A p \in Places : Seen(m.now, p) = Seen(r.now, p)
         /\ \A p \in Places : r.now.node[p] # "absent" => m.now.node[p] = r.now.node[p]
         /\ \A p \in Places : m.now.node[p] # "absent" => m.now.node[p] = Seen(r.now, p)
  BY LiftedSees, LiftedIs DEF Lifts

\* One step of materializeParents or materializeDirs gives a run.
LEMMA MadeIs ==
  ASSUME NEW r \in Runs, NEW q \in Paths, NEW create
  PROVE  Made(r, q, create) \in Runs
<1>1. r.now \in Uppers /\ q \in Places /\ "dir" \in Nodes
  BY PlacesAre DEF Runs, Nodes
<1>2. Put(r.now, q, "dir") \in Uppers
  BY <1>1, PutIs
<1> QED BY <1>2, DoIs, FailIs DEF Made

\* The walk down to p.
LEMMA WalkIs ==
  ASSUME NEW r \in Runs, NEW p \in Places, NEW create \in BOOLEAN
  PROVE  \E g \in [0 .. Len(p) -> Runs] :
            /\ g[0] = r
            /\ \A i \in 1 .. Len(p) : g[i] = Made(g[i - 1], Way(p)[i], create)
            /\ ~create => \A q \in Paths : p = parentName(q) => materializeParents(r, q) = g[Len(p)]
            /\ create => materializeDirs(r, p) = g[Len(p)]
<1> DEFINE n == Len(p)
           way == Way(p)
           F == [i \in 1 .. n |-> [x \in Runs |-> Made(x, way[i], create)]]
           Is(h) == h = [i \in 0 .. n |-> IF i = 0 THEN r ELSE Made(h[i - 1], way[i], create)]
           G == CHOOSE h : Is(h)
<1>1. n \in Nat /\ Len(way) = n /\ \A i \in 1 .. n : way[i] \in Paths
  BY WayIs
<1> HIDE DEF way, n
<1>2. F \in [1 .. n -> [Runs -> Runs]]
  BY <1>1, MadeIs
<1>3. PICK h \in [0 .. n -> Runs] : h[0] = r /\ \A i \in 1 .. n : h[i] = F[i][h[i - 1]]
  <2> HIDE DEF F
  <2>1. StepsOn(F, Runs, n)
    BY <1>2 DEF StepsOn
  <2>2. PICK h : Follows(h, F, Runs, r, n)
    BY <1>1, <2>1, StepsReach
  <2> QED BY <2>2 DEF Follows
<1>4. ASSUME NEW i \in 1 .. n PROVE h[i] = Made(h[i - 1], way[i], create)
  <2>1. i - 1 \in 0 .. n
    BY <1>1
  <2>2. h[i - 1] \in Runs
    BY <2>1
  <2> QED BY <1>3, <2>2
<1>5. Is(h)
  <2>1. ASSUME NEW i \in 0 .. n PROVE h[i] = IF i = 0 THEN r ELSE Made(h[i - 1], way[i], create)
    <3>1. i # 0 => i \in 1 .. n
      BY <1>1
    <3> QED BY <1>3, <1>4, <3>1
  <2> QED BY <2>1
<1>6. Is(G)
  <2> HIDE DEF Is
  <2> QED BY <1>5
<1> HIDE DEF G
<1>7. DOMAIN G = 0 .. n /\ \A i \in 0 .. n : G[i] = IF i = 0 THEN r ELSE Made(G[i - 1], way[i], create)
  BY <1>6
<1>8. G[0] = r
  <2>1. 0 \in 0 .. n
    BY <1>1
  <2> QED BY <1>7, <2>1
<1>9. ASSUME NEW i \in 1 .. n PROVE G[i] = Made(G[i - 1], way[i], create)
  <2>1. i \in 0 .. n /\ i # 0
    BY <1>1
  <2> QED BY <1>7, <2>1
<1>10. \A i \in 0 .. n : G[i] \in Runs
  <2> DEFINE T == {i \in 0 .. n : G[i] \in Runs}
  <2>1. 0 \in T
    BY <1>1, <1>8
  <2>2. ASSUME NEW i \in 0 .. n - 1, i \in T PROVE i + 1 \in T
    <3>1. i + 1 \in 1 .. n /\ i + 1 \in 0 .. n /\ (i + 1) - 1 = i
      BY <1>1
    <3>2. G[i + 1] = Made(G[i], way[i + 1], create)
      BY <1>9, <3>1
    <3>3. G[i + 1] \in Runs
      BY <1>1, <2>2, <3>1, <3>2, MadeIs
    <3> QED BY <3>1, <3>3
  <2>3. \A i \in 0 .. n - 1 : i \in T => i + 1 \in T
    BY <2>2
  <2>4. 0 .. n \subseteq T
    <3> HIDE DEF T
    <3> QED BY <1>1, <2>1, <2>3, InductTo
  <2> QED BY <2>4
<1>11. G \in [0 .. n -> Runs]
  <2>1. G = [i \in 0 .. n |-> IF i = 0 THEN r ELSE Made(G[i - 1], way[i], create)]
    BY <1>6
  <2> HIDE DEF Is
  <2> QED BY <1>7, <1>10, <2>1
<1>12. ASSUME ~create, NEW q \in Paths, p = parentName(q) PROVE materializeParents(r, q) = G[n]
  <2>1. create = FALSE
    BY <1>12
  <2> QED BY <1>1, <1>12, <2>1 DEF materializeParents, InTurn, G, Is, way
<1>13. ASSUME create PROVE materializeDirs(r, p) = G[n]
  <2>1. create = TRUE
    BY <1>13
  <2> QED BY <1>1, <1>13, <2>1 DEF materializeDirs, InTurn, G, Is, way
<1> QED BY <1>8, <1>9, <1>11, <1>12, <1>13 DEF way, n

-----------------------------------------------------------------------------
(* materializeParents, copyUp and the walks.                               *)

\* materializeParents copies up one directory of the way, or fails.
LEMMA MadeLifts ==
  ASSUME NEW r \in Runs, Upright(r.now), lower \in Lowers, NEW q \in Paths,
         r.ok => r.now.node[parentName(q)] = "dir"
  PROVE  /\ Lifts(r, Made(r, q, FALSE))
         /\ Made(r, q, FALSE).ok => Made(r, q, FALSE).now.node[q] = "dir"
<1>1. q \in Places /\ "dir" \in Nodes /\ r.now \in Uppers
  BY PlacesAre DEF Nodes, Runs
<1>2. CASE Seen(r.now, q) = "dir"
  <2> DEFINE v == Put(r.now, q, "dir")
             d == Do(r, v)
  <2>1. Made(r, q, FALSE) = d
    BY <1>2 DEF Made
  <2>2. v \in Uppers /\ v.node[q] = "dir"
    BY <1>1, PutIs
  <2>3. r.ok => v \in Lifted(r.now)
    BY <1>2, PutLifts
  <2> HIDE DEF v
  <2>4. Lifts(r, d) /\ d.ok = r.ok /\ (r.ok => d.now = v)
    BY <2>2, <2>3, LiftsDo, DoIs
  <2> HIDE DEF d
  <2>5. d.ok => d.now.node[q] = "dir"
    BY <2>2, <2>4
  <2> QED BY <2>1, <2>4, <2>5
<1>3. CASE Seen(r.now, q) # "dir"
  <2>1. Made(r, q, FALSE) = Fail(r)
    BY <1>3 DEF Made
  <2>2. Lifts(r, Fail(r)) /\ Fail(r).ok = FALSE
    BY LiftsFail, FailIs
  <2> HIDE DEF Made
  <2> QED BY <2>1, <2>2
<1> QED BY <1>2, <1>3

\* The directories above p are copied up, or the run fails.
LEMMA ParentsLift ==
  ASSUME NEW r \in Runs, Upright(r.now), lower \in Lowers, NEW p \in Paths
  PROVE  /\ Lifts(r, materializeParents(r, p))
         /\ materializeParents(r, p).ok => materializeParents(r, p).now.node[parentName(p)] = "dir"
<1> DEFINE s == parentName(p)
           n == Len(s)
           way == Way(s)
           at(i) == IF i = 0 THEN Root ELSE way[i]
<1>1. s \in Places
  BY PlacesAre
<1>2. PICK g \in [0 .. n -> Runs] :
        /\ g[0] = r
        /\ \A i \in 1 .. n : g[i] = Made(g[i - 1], way[i], FALSE)
        /\ materializeParents(r, p) = g[n]
  BY <1>1, WalkIs
<1>3. /\ n \in Nat /\ \A i \in 1 .. n : way[i] \in Paths /\ parentName(way[i]) = IF i = 1 THEN Root ELSE way[i - 1]
      /\ n > 0 => way[n] = s
  BY <1>1, WayIs
<1>4. n = 0 => s = Root
  BY <1>1, PlacesAre, EmptySeq DEF Root
<1> HIDE DEF s, n, way
<1> DEFINE T == {i \in 0 .. n : Lifts(r, g[i]) /\ (g[i].ok => g[i].now.node[at(i)] = "dir")}
<1>5. 0 \in T
  <2>1. 0 \in 0 .. n /\ at(0) = Root
    BY <1>3
  <2>2. r.now.node[Root] = "dir"
    BY UprightIs DEF IsTree
  <2> HIDE DEF at
  <2> QED BY <1>2, <2>1, <2>2, LiftsSelf
<1>6. ASSUME NEW i \in 0 .. n - 1, i \in T PROVE i + 1 \in T
  <2>1. i + 1 \in 1 .. n /\ i + 1 \in 0 .. n /\ (i + 1) - 1 = i /\ at(i + 1) = way[i + 1] /\ i \in 0 .. n
    BY <1>3
  <2>2. parentName(way[i + 1]) = at(i)
    <3>1. i + 1 = 1 <=> i = 0
      BY <1>3
    <3> QED BY <1>3, <2>1, <3>1
  <2> HIDE DEF at
  <2>3. g[i] \in Runs /\ Lifts(r, g[i]) /\ (g[i].ok => g[i].now.node[at(i)] = "dir")
    BY <1>6, <2>1
  <2>4. g[i + 1] = Made(g[i], way[i + 1], FALSE) /\ way[i + 1] \in Paths
    BY <1>2, <1>3, <2>1
  <2>5. Upright(g[i].now)
    BY <2>3, LiftsIs
  <2>6. Lifts(g[i], g[i + 1]) /\ (g[i + 1].ok => g[i + 1].now.node[way[i + 1]] = "dir")
    BY <2>2, <2>3, <2>4, <2>5, MadeLifts
  <2>7. Lifts(r, g[i + 1])
    BY <2>3, <2>6, LiftsTwice
  <2> QED BY <2>1, <2>6, <2>7
<1>7. n \in T
  <2>1. \A i \in 0 .. n - 1 : i \in T => i + 1 \in T
    BY <1>6
  <2>2. 0 .. n \subseteq T
    <3> HIDE DEF T
    <3> QED BY <1>3, <1>5, <2>1, InductTo
  <2>3. n \in 0 .. n
    BY <1>3
  <2> HIDE DEF T
  <2> QED BY <2>2, <2>3
<1>8. at(n) = s
  BY <1>3, <1>4
<1> HIDE DEF at
<1> QED BY <1>2, <1>7, <1>8 DEF s

\* materializeParents gives a run.
LEMMA ParentsRun ==
  ASSUME NEW r \in Runs, NEW p \in Paths
  PROVE  materializeParents(r, p) \in Runs
<1> DEFINE s == parentName(p)
<1>1. s \in Places /\ Len(s) \in Nat
  BY PlacesAre
<1>2. PICK g \in [0 .. Len(s) -> Runs] : materializeParents(r, p) = g[Len(s)]
  BY <1>1, WalkIs
<1>3. Len(s) \in 0 .. Len(s)
  BY <1>1
<1> HIDE DEF s
<1> QED BY <1>2, <1>3

\* copyUp copies the entry that can be seen, with the directories above it, or fails.
LEMMA CopyUpLifts ==
  ASSUME NEW r \in Runs, Upright(r.now), lower \in Lowers, NEW p \in Paths
  PROVE  /\ Lifts(r, copyUp(r, p))
         /\ copyUp(r, p).ok /\ Seen(r.now, p) # "absent" => copyUp(r, p).now.node[p] # "absent"
<1> DEFINE m == materializeParents(r, p)
<1>1. p \in Places /\ lower[p] \in Nodes
  BY PlacesAre, LowerIsTree DEF IsTree
<1>2. CASE r.now.node[p] # "absent"
  BY <1>2, LiftsSelf DEF copyUp
<1>3. CASE r.now.node[p] = "absent" /\ Seen(r.now, p) = "absent"
  <2>1. copyUp(r, p) = Require(r, ~Blocked(r.now, p))
    BY <1>3 DEF copyUp
  <2> QED BY <1>3, <2>1, LiftsRequire
<1>4. CASE r.now.node[p] = "absent" /\ Seen(r.now, p) # "absent"
  <2>1. copyUp(r, p) = Do(m, Put(m.now, p, lower[p]))
    BY <1>4 DEF copyUp
  <2>2. Lifts(r, m) /\ (m.ok => m.now.node[parentName(p)] = "dir")
    BY ParentsLift
  <2> HIDE DEF m
  <2>3. m \in Runs /\ Upright(m.now) /\ Seen(m.now, p) = Seen(r.now, p) /\ m.now \in Uppers
    BY <1>1, <2>2, LiftsIs, UprightIs
  <2>4. lower[p] = Seen(m.now, p) /\ lower[p] # "absent"
    BY <1>1, <1>4, <2>3, SeenIs
  <2>5. Put(m.now, p, lower[p]) \in Uppers /\ Put(m.now, p, lower[p]).node[p] = lower[p]
    BY <1>1, <2>3, PutIs
  <2>6. m.ok => Put(m.now, p, lower[p]) \in Lifted(m.now)
    BY <2>2, <2>3, <2>4, PutLifts
  <2>7. Lifts(m, Do(m, Put(m.now, p, lower[p])))
    BY <2>3, <2>5, <2>6, LiftsDo
  <2>8. Lifts(r, copyUp(r, p))
    BY <2>1, <2>2, <2>7, LiftsTwice
  <2> QED BY <2>1, <2>3, <2>4, <2>5, <2>8, DoIs
<1> QED BY <1>2, <1>3, <1>4

\* copyUp gives a run, with or without the listing that follows.
LEMMA CopyUpRun ==
  ASSUME NEW r \in Runs, lower \in Lowers, NEW p \in Paths
  PROVE  copyUp(r, p) \in Runs /\ CopiedUp(r, p) \in Runs
<1> DEFINE m == materializeParents(r, p)
<1>1. p \in Places /\ lower[p] \in Nodes
  BY PlacesAre, LowerIsTree DEF IsTree
<1>2. m \in Runs
  BY ParentsRun
<1>3. copyUp(r, p) \in Runs
  <2>1. copyUp(r, p) \in {r, Require(r, ~Blocked(r.now, p)), Do(m, Put(m.now, p, lower[p]))}
    BY DEF copyUp
  <2> HIDE DEF m
  <2>2. m.now \in Uppers
    BY <1>2 DEF Runs
  <2>3. Put(m.now, p, lower[p]) \in Uppers
    BY <1>1, <2>2, PutIs
  <2>4. Do(m, Put(m.now, p, lower[p])) \in Runs /\ Require(r, ~Blocked(r.now, p)) \in Runs
    BY <1>2, <2>3, DoIs, RequireIs
  <2> QED BY <2>1, <2>4
<1>4. CopiedUp(r, p) \in Runs
  <2> DEFINE c == copyUp(r, p)
  <2>1. CopiedUp(r, p) = Require(c, Seen(c.now, p) = "dir" => ~ReadDirFails(c.now, p))
    BY DEF CopiedUp
  <2> HIDE DEF c
  <2> QED BY <1>3, <2>1, RequireIs DEF c
<1> QED BY <1>3, <1>4

\* So does one visit of copyUpTree.
LEMMA CopiedUpLifts ==
  ASSUME NEW r \in Runs, Upright(r.now), lower \in Lowers, NEW p \in Paths
  PROVE  /\ Lifts(r, CopiedUp(r, p))
         /\ CopiedUp(r, p).ok /\ Seen(r.now, p) # "absent" => CopiedUp(r, p).now.node[p] # "absent"
<1> DEFINE c == copyUp(r, p)
           d == Seen(c.now, p) = "dir" => ~ReadDirFails(c.now, p)
<1>1. CopiedUp(r, p) = Require(c, d)
  BY DEF CopiedUp
<1>2. Lifts(r, c) /\ (c.ok /\ Seen(r.now, p) # "absent" => c.now.node[p] # "absent")
  BY CopyUpLifts
<1> HIDE DEF c, d
<1>3. c \in Runs /\ Upright(c.now)
  BY <1>2, LiftsIs
<1>4. Lifts(c, Require(c, d)) /\ (Require(c, d).ok => c.ok) /\ Require(c, d).now = c.now
  BY <1>3, LiftsRequire, RequireIs
<1>5. Lifts(r, Require(c, d))
  BY <1>2, <1>4, LiftsTwice
<1> QED BY <1>1, <1>2, <1>4, <1>5

\* The walk of the tree that is copied up.
LEMMA TreeWalkIs ==
  ASSUME NEW r \in Runs, lower \in Lowers, NEW p \in Paths
  PROVE  \E g \in [0 .. Len(Order) -> Runs] :
            /\ g[0] = r
            /\ \A i \in 1 .. Len(Order) : g[i] = IF Order[i] \in Listed(r.now, p) THEN CopiedUp(g[i - 1], Order[i]) ELSE g[i - 1]
            /\ copyUpTree(r, p) = g[Len(Order)]
<1> DEFINE n == Len(Order)
           F == [i \in 1 .. n |-> [x \in Runs |-> IF Order[i] \in Listed(r.now, p) THEN CopiedUp(x, Order[i]) ELSE x]]
           Is(h) == h = [i \in 0 .. n |-> IF i = 0 THEN r ELSE IF Order[i] \in Listed(r.now, p) THEN CopiedUp(h[i - 1], Order[i]) ELSE h[i - 1]]
           G == CHOOSE h : Is(h)
<1>1. n \in Nat /\ \A i \in 1 .. n : Order[i] \in Paths
  BY OverlayAssumption
<1> HIDE DEF n
<1>a. \A x \in Runs, q \in Paths : (IF q \in Listed(r.now, p) THEN CopiedUp(x, q) ELSE x) \in Runs
  BY CopyUpRun
<1>2. F \in [1 .. n -> [Runs -> Runs]]
  BY <1>1, <1>a
<1>3. PICK h \in [0 .. n -> Runs] : h[0] = r /\ \A i \in 1 .. n : h[i] = F[i][h[i - 1]]
  <2> HIDE DEF F, Is, G
  <2>1. StepsOn(F, Runs, n)
    BY <1>2 DEF StepsOn
  <2>2. PICK h : Follows(h, F, Runs, r, n)
    BY <1>1, <2>1, StepsReach
  <2> QED BY <2>2 DEF Follows
<1>4. ASSUME NEW i \in 1 .. n PROVE h[i] = IF Order[i] \in Listed(r.now, p) THEN CopiedUp(h[i - 1], Order[i]) ELSE h[i - 1]
  <2>1. i - 1 \in 0 .. n
    BY <1>1
  <2>2. h[i - 1] \in Runs
    BY <2>1
  <2> QED BY <1>3, <2>2
<1>5. Is(h)
  <2>1. ASSUME NEW i \in 0 .. n PROVE h[i] = IF i = 0 THEN r ELSE IF Order[i] \in Listed(r.now, p) THEN CopiedUp(h[i - 1], Order[i]) ELSE h[i - 1]
    <3>1. i # 0 => i \in 1 .. n
      BY <1>1
    <3> QED BY <1>3, <1>4, <3>1
  <2> QED BY <2>1
<1>6. Is(G)
  <2> HIDE DEF Is
  <2> QED BY <1>5
<1> HIDE DEF G
<1>7. DOMAIN G = 0 .. n /\ \A i \in 0 .. n : G[i] = IF i = 0 THEN r ELSE IF Order[i] \in Listed(r.now, p) THEN CopiedUp(G[i - 1], Order[i]) ELSE G[i - 1]
  BY <1>6
<1>8. G[0] = r
  <2>1. 0 \in 0 .. n
    BY <1>1
  <2> QED BY <1>7, <2>1
<1>9. ASSUME NEW i \in 1 .. n PROVE G[i] = IF Order[i] \in Listed(r.now, p) THEN CopiedUp(G[i - 1], Order[i]) ELSE G[i - 1]
  <2>1. i \in 0 .. n /\ i # 0
    BY <1>1
  <2> QED BY <1>7, <2>1
<1>10. \A i \in 0 .. n : G[i] \in Runs
  <2> DEFINE T == {i \in 0 .. n : G[i] \in Runs}
  <2>1. 0 \in T
    BY <1>1, <1>8
  <2>2. ASSUME NEW i \in 0 .. n - 1, i \in T PROVE i + 1 \in T
    <3>1. i + 1 \in 1 .. n /\ i + 1 \in 0 .. n /\ (i + 1) - 1 = i
      BY <1>1
    <3>2. G[i + 1] = IF Order[i + 1] \in Listed(r.now, p) THEN CopiedUp(G[i], Order[i + 1]) ELSE G[i]
      BY <1>9, <3>1
    <3>3. Order[i + 1] \in Paths /\ G[i] \in Runs
      BY <1>1, <2>2, <3>1
    <3>4. (IF Order[i + 1] \in Listed(r.now, p) THEN CopiedUp(G[i], Order[i + 1]) ELSE G[i]) \in Runs
      BY <1>a, <3>3
    <3>5. G[i + 1] \in Runs
      BY <3>2, <3>4
    <3> QED BY <3>1, <3>5
  <2>3. \A i \in 0 .. n - 1 : i \in T => i + 1 \in T
    BY <2>2
  <2>4. 0 .. n \subseteq T
    <3> HIDE DEF T
    <3> QED BY <1>1, <2>1, <2>3, InductTo
  <2> QED BY <2>4
<1>11. G \in [0 .. n -> Runs]
  <2>1. G = [i \in 0 .. n |-> IF i = 0 THEN r ELSE IF Order[i] \in Listed(r.now, p) THEN CopiedUp(G[i - 1], Order[i]) ELSE G[i - 1]]
    BY <1>6
  <2> HIDE DEF Is
  <2> QED BY <1>7, <1>10, <2>1
<1>12. copyUpTree(r, p) = G[n]
  BY DEF copyUpTree, InTurn, G, n
<1> QED BY <1>8, <1>9, <1>11, <1>12 DEF n

\* clearWhiteout drops one marker.
LEMMA ClearIs ==
  ASSUME NEW r \in Runs, NEW p \in Paths
  PROVE  /\ clearWhiteout(r, p) \in Runs /\ clearWhiteout(r, p).ok = r.ok
         /\ ~r.ok => clearWhiteout(r, p) = r
         /\ r.ok => clearWhiteout(r, p).now = [node |-> r.now.node, marks |-> r.now.marks \ {p}]
         /\ clearWhiteout(r, p).past \subseteq r.past \cup {r.now}
         /\ r.past \subseteq clearWhiteout(r, p).past
<1> DEFINE u == [r.now EXCEPT !.marks = @ \ {p}]
<1>1. u \in Uppers /\ u = [node |-> r.now.node, marks |-> r.now.marks \ {p}]
  <2>1. r.now \in Uppers
    BY DEF Runs
  <2>2. r.now.marks \ {p} \in SUBSET Paths
    BY <2>1 DEF Uppers
  <2> QED BY <2>1, <2>2 DEF Uppers
<1>2. clearWhiteout(r, p) = Do(r, u)
  BY DEF clearWhiteout
<1> HIDE DEF u
<1>3. /\ Do(r, u) \in Runs /\ Do(r, u).ok = r.ok /\ (~r.ok => Do(r, u) = r) /\ (r.ok => Do(r, u).now = u)
      /\ Do(r, u).past \subseteq r.past \cup {r.now} /\ r.past \subseteq Do(r, u).past
  BY <1>1, DoIs
<1> QED BY <1>1, <1>2, <1>3

\* The walk of the markers that go.
LEMMA MarkersWalkIs ==
  ASSUME NEW r \in Runs, NEW p \in Paths
  PROVE  \E g \in [0 .. Len(Order) -> Runs] :
            /\ g[0] = r
            /\ \A i \in 1 .. Len(Order) : g[i] = IF Order[i] \in Children(p) THEN clearWhiteout(g[i - 1], Order[i]) ELSE g[i - 1]
            /\ clearMarkers(r, p) = g[Len(Order)]
<1> DEFINE n == Len(Order)
           F == [i \in 1 .. n |-> [x \in Runs |-> IF Order[i] \in Children(p) THEN clearWhiteout(x, Order[i]) ELSE x]]
           Is(h) == h = [i \in 0 .. n |-> IF i = 0 THEN r ELSE IF Order[i] \in Children(p) THEN clearWhiteout(h[i - 1], Order[i]) ELSE h[i - 1]]
           G == CHOOSE h : Is(h)
<1>1. n \in Nat /\ \A i \in 1 .. n : Order[i] \in Paths
  BY OverlayAssumption
<1> HIDE DEF n
<1>a. \A x \in Runs, q \in Paths : (IF q \in Children(p) THEN clearWhiteout(x, q) ELSE x) \in Runs
  BY ClearIs
<1>2. F \in [1 .. n -> [Runs -> Runs]]
  BY <1>1, <1>a
<1>3. PICK h \in [0 .. n -> Runs] : h[0] = r /\ \A i \in 1 .. n : h[i] = F[i][h[i - 1]]
  <2> HIDE DEF F, Is, G
  <2>1. StepsOn(F, Runs, n)
    BY <1>2 DEF StepsOn
  <2>2. PICK h : Follows(h, F, Runs, r, n)
    BY <1>1, <2>1, StepsReach
  <2> QED BY <2>2 DEF Follows
<1>4. ASSUME NEW i \in 1 .. n PROVE h[i] = IF Order[i] \in Children(p) THEN clearWhiteout(h[i - 1], Order[i]) ELSE h[i - 1]
  <2>1. i - 1 \in 0 .. n
    BY <1>1
  <2>2. h[i - 1] \in Runs
    BY <2>1
  <2> QED BY <1>3, <2>2
<1>5. Is(h)
  <2>1. ASSUME NEW i \in 0 .. n PROVE h[i] = IF i = 0 THEN r ELSE IF Order[i] \in Children(p) THEN clearWhiteout(h[i - 1], Order[i]) ELSE h[i - 1]
    <3>1. i # 0 => i \in 1 .. n
      BY <1>1
    <3> QED BY <1>3, <1>4, <3>1
  <2> QED BY <2>1
<1>6. Is(G)
  <2> HIDE DEF Is
  <2> QED BY <1>5
<1> HIDE DEF G
<1>7. DOMAIN G = 0 .. n /\ \A i \in 0 .. n : G[i] = IF i = 0 THEN r ELSE IF Order[i] \in Children(p) THEN clearWhiteout(G[i - 1], Order[i]) ELSE G[i - 1]
  BY <1>6
<1>8. G[0] = r
  <2>1. 0 \in 0 .. n
    BY <1>1
  <2> QED BY <1>7, <2>1
<1>9. ASSUME NEW i \in 1 .. n PROVE G[i] = IF Order[i] \in Children(p) THEN clearWhiteout(G[i - 1], Order[i]) ELSE G[i - 1]
  <2>1. i \in 0 .. n /\ i # 0
    BY <1>1
  <2> QED BY <1>7, <2>1
<1>10. \A i \in 0 .. n : G[i] \in Runs
  <2> DEFINE T == {i \in 0 .. n : G[i] \in Runs}
  <2>1. 0 \in T
    BY <1>1, <1>8
  <2>2. ASSUME NEW i \in 0 .. n - 1, i \in T PROVE i + 1 \in T
    <3>1. i + 1 \in 1 .. n /\ i + 1 \in 0 .. n /\ (i + 1) - 1 = i
      BY <1>1
    <3>2. G[i + 1] = IF Order[i + 1] \in Children(p) THEN clearWhiteout(G[i], Order[i + 1]) ELSE G[i]
      BY <1>9, <3>1
    <3>3. Order[i + 1] \in Paths /\ G[i] \in Runs
      BY <1>1, <2>2, <3>1
    <3>4. (IF Order[i + 1] \in Children(p) THEN clearWhiteout(G[i], Order[i + 1]) ELSE G[i]) \in Runs
      BY <1>a, <3>3
    <3>5. G[i + 1] \in Runs
      BY <3>2, <3>4
    <3> QED BY <3>1, <3>5
  <2>3. \A i \in 0 .. n - 1 : i \in T => i + 1 \in T
    BY <2>2
  <2>4. 0 .. n \subseteq T
    <3> HIDE DEF T
    <3> QED BY <1>1, <2>1, <2>3, InductTo
  <2> QED BY <2>4
<1>11. G \in [0 .. n -> Runs]
  <2>1. G = [i \in 0 .. n |-> IF i = 0 THEN r ELSE IF Order[i] \in Children(p) THEN clearWhiteout(G[i - 1], Order[i]) ELSE G[i - 1]]
    BY <1>6
  <2> HIDE DEF Is
  <2> QED BY <1>7, <1>10, <2>1
<1>12. clearMarkers(r, p) = G[n]
  BY DEF clearMarkers, InTurn, G, n
<1> QED BY <1>8, <1>9, <1>11, <1>12 DEF n

\* The entries that a walk lists are in the upper layer once it ends well.
LEMMA CopyTreeLifts ==
  ASSUME NEW r \in Runs, Upright(r.now), lower \in Lowers, NEW p \in Paths
  PROVE  /\ Lifts(r, copyUpTree(r, p))
         /\ copyUpTree(r, p).ok =>
              \A q \in Listed(r.now, p) : Seen(r.now, q) # "absent" => copyUpTree(r, p).now.node[q] # "absent"
<1> DEFINE L == {q \in Listed(r.now, p) : Seen(r.now, q) # "absent"}
           n == Len(Order)
<1>1. PICK g \in [0 .. n -> Runs] :
        /\ g[0] = r
        /\ \A i \in 1 .. n : g[i] = IF Order[i] \in Listed(r.now, p) THEN CopiedUp(g[i - 1], Order[i]) ELSE g[i - 1]
        /\ copyUpTree(r, p) = g[n]
  BY TreeWalkIs
<1>2. n \in Nat /\ (\A i \in 1 .. n : Order[i] \in Paths) /\ \A q \in Paths : \E i \in 1 .. n : Order[i] = q
  BY OverlayAssumption
<1>3. L \subseteq Paths
  BY DEF Listed
<1> DEFINE In(i) == g[i].ok => \A j \in 1 .. i : Order[j] \in L => g[i].now.node[Order[j]] # "absent"
           T == {i \in 0 .. n : Lifts(r, g[i]) /\ In(i)}
<1>4. 0 \in T
  <2>1. 0 \in 0 .. n /\ In(0)
    BY <1>2
  <2> HIDE DEF In
  <2> QED BY <1>1, <2>1, LiftsSelf
<1>5. ASSUME NEW i \in 0 .. n - 1, i \in T PROVE i + 1 \in T
  <2>1. i + 1 \in 1 .. n /\ i + 1 \in 0 .. n /\ (i + 1) - 1 = i /\ i \in 0 .. n
    BY <1>2
  <2>2. Lifts(r, g[i]) /\ In(i)
    <3> HIDE DEF In
    <3> QED BY <1>5
  <2>3. g[i] \in Runs /\ Upright(g[i].now) /\ Order[i + 1] \in Paths /\ Order[i + 1] \in Places
        /\ Seen(g[i].now, Order[i + 1]) = Seen(r.now, Order[i + 1])
    BY <1>2, <2>1, <2>2, LiftsIs, PlacesAre
  <2>4. g[i + 1] = IF Order[i + 1] \in Listed(r.now, p) THEN CopiedUp(g[i], Order[i + 1]) ELSE g[i]
    BY <1>1, <2>1
  <2>5. Lifts(g[i], g[i + 1]) /\ (g[i + 1].ok /\ Order[i + 1] \in L => g[i + 1].now.node[Order[i + 1]] # "absent")
    <3>1. CASE Order[i + 1] \in Listed(r.now, p)
      BY <2>3, <2>4, <3>1, CopiedUpLifts
    <3>2. CASE Order[i + 1] \notin Listed(r.now, p)
      BY <2>3, <2>4, <3>2, LiftsSelf
    <3> QED BY <3>1, <3>2
  <2>6. Lifts(r, g[i + 1])
    BY <2>2, <2>5, LiftsTwice
  <2>7. ASSUME g[i + 1].ok, NEW j \in 1 .. i + 1, Order[j] \in L PROVE g[i + 1].now.node[Order[j]] # "absent"
    <3>1. CASE j = i + 1
      BY <2>5, <2>7, <3>1
    <3>2. CASE j # i + 1
      <4>1. j \in 1 .. i
        BY <2>1, <3>2
      <4>2. g[i].ok /\ Order[j] \in Places
        BY <1>3, <2>5, <2>7, PlacesAre DEF Lifts
      <4>3. g[i].now.node[Order[j]] # "absent"
        BY <2>2, <2>7, <4>1, <4>2
      <4> QED BY <2>3, <2>5, <4>2, <4>3, LiftsIs
    <3> QED BY <3>1, <3>2
  <2>8. In(i + 1)
    BY <2>7
  <2> HIDE DEF In
  <2> QED BY <2>1, <2>6, <2>8
<1>6. n \in T
  <2>1. \A i \in 0 .. n - 1 : i \in T => i + 1 \in T
    BY <1>5
  <2>2. 0 .. n \subseteq T
    <3> HIDE DEF T
    <3> QED BY <1>2, <1>4, <2>1, InductTo
  <2>3. n \in 0 .. n
    BY <1>2
  <2> HIDE DEF T
  <2> QED BY <2>2, <2>3
<1>7. Lifts(r, g[n]) /\ In(n)
  <2> HIDE DEF In
  <2> QED BY <1>6
<1>8. ASSUME g[n].ok, NEW q \in Listed(r.now, p), Seen(r.now, q) # "absent" PROVE g[n].now.node[q] # "absent"
  <2>1. q \in L /\ q \in Paths
    BY <1>3, <1>8
  <2>2. PICK j \in 1 .. n : Order[j] = q
    BY <1>2, <2>1
  <2> HIDE DEF L
  <2> QED BY <1>7, <1>8, <2>1, <2>2
<1> QED BY <1>1, <1>7, <1>8

\* v is u without some of the markers of what is in p.
Clears(u, v, p) ==
  v \in Uppers /\ v.node = u.node /\ v.marks \subseteq u.marks /\ u.marks \ v.marks \subseteq Children(p)

Cleared(r, m, p) ==
  /\ m \in Runs /\ Clears(r.now, m.now, p)
  /\ \A v \in m.past : v \in r.past \/ Clears(r.now, v, p)
  /\ m.ok = r.ok /\ (~r.ok => m = r)

\* clearMarkers drops markers of children of p, and nothing else.
LEMMA MarkersClear ==
  ASSUME NEW r \in Runs, NEW p \in Paths
  PROVE  Cleared(r, clearMarkers(r, p), p)
<1> DEFINE n == Len(Order)
<1>1. PICK g \in [0 .. n -> Runs] :
        /\ g[0] = r
        /\ \A i \in 1 .. n : g[i] = IF Order[i] \in Children(p) THEN clearWhiteout(g[i - 1], Order[i]) ELSE g[i - 1]
        /\ clearMarkers(r, p) = g[n]
  BY MarkersWalkIs
<1>2. n \in Nat /\ \A i \in 1 .. n : Order[i] \in Paths
  BY OverlayAssumption
<1> DEFINE T == {i \in 0 .. n : Cleared(r, g[i], p)}
<1>3. 0 \in T
  <2>1. 0 \in 0 .. n
    BY <1>2
  <2>2. Cleared(r, r, p)
    BY DEF Cleared, Clears, Runs
  <2> QED BY <1>1, <2>1, <2>2
<1>4. ASSUME NEW i \in 0 .. n - 1, i \in T PROVE i + 1 \in T
  <2>1. i + 1 \in 1 .. n /\ i + 1 \in 0 .. n /\ (i + 1) - 1 = i /\ i \in 0 .. n
    BY <1>2
  <2> DEFINE x == g[i]
             q == Order[i + 1]
             y == g[i + 1]
  <2>2. x \in Runs /\ Cleared(r, x, p) /\ q \in Paths
    BY <1>2, <1>4, <2>1
  <2>3. y = IF q \in Children(p) THEN clearWhiteout(x, q) ELSE x
    BY <1>1, <2>1
  <2> HIDE DEF x, q, y
  <2>4. CASE q \in Children(p) /\ x.ok
    <3>1. /\ y \in Runs /\ y.ok = x.ok /\ y.now = [node |-> x.now.node, marks |-> x.now.marks \ {q}]
          /\ y.past \subseteq x.past \cup {x.now}
      BY <2>2, <2>3, <2>4, ClearIs
    <3>2. Clears(r.now, y.now, p)
      <4>1. y.now \in Uppers
        BY <3>1 DEF Runs
      <4> QED BY <2>2, <2>4, <3>1, <4>1 DEF Cleared, Clears
    <3>3. Clears(r.now, x.now, p) /\ \A v \in x.past : v \in r.past \/ Clears(r.now, v, p)
      BY <2>2 DEF Cleared
    <3>4. r.ok
      BY <2>2, <2>4 DEF Cleared
    <3> QED BY <2>2, <2>4, <3>1, <3>2, <3>3, <3>4, <2>1 DEF Cleared, y
  <2>5. CASE ~(q \in Children(p) /\ x.ok)
    <3>1. y = x
      BY <2>2, <2>3, <2>5, ClearIs
    <3> QED BY <2>1, <2>2, <3>1 DEF y
  <2> QED BY <2>4, <2>5
<1>5. n \in T
  <2>1. \A i \in 0 .. n - 1 : i \in T => i + 1 \in T
    BY <1>4
  <2>2. 0 .. n \subseteq T
    <3> HIDE DEF T
    <3> QED BY <1>2, <1>3, <2>1, InductTo
  <2>3. n \in 0 .. n
    BY <1>2
  <2> HIDE DEF T
  <2> QED BY <2>2, <2>3
<1> QED BY <1>1, <1>5

Marked(u, p) == [node |-> u.node, marks |-> u.marks \cup {p}]
Unmarked(u, p) == [node |-> u.node, marks |-> u.marks \ {p}]

\* setWhiteout makes the directory above p and puts the marker in it.
LEMMA WhiteoutIs ==
  ASSUME NEW r \in Runs, NEW p \in Paths
  PROVE  setWhiteout(r, p) = Do(materializeParents(r, p), Marked(materializeParents(r, p).now, p))
<1>1. materializeParents(r, p) \in Runs
  BY ParentsRun
<1> QED BY <1>1 DEF setWhiteout, Marked, Runs, Uppers

\* A marker in a directory of the upper layer keeps it good.
LEMMA MarkedGood ==
  ASSUME NEW u, Good(u), NEW p \in Paths, u.node[parentName(p)] = "dir"
  PROVE  Marked(u, p) \in Uppers /\ Good(Marked(u, p))
<1> DEFINE v == Marked(u, p)
<1>1. v.node = u.node /\ v.marks = u.marks \cup {p} /\ v \in Uppers
  BY UprightIs DEF Marked, Uppers, Good
<1> HIDE DEF v
<1>2. Upright(v)
  BY <1>1 DEF Upright, Good
<1>3. Hides(u) => Hides(v)
  BY <1>1 DEF Hides, whitedOut
<1> QED BY <1>1, <1>2, <1>3 DEF Good, v

\* Markers may go that are not the last to hide what is below a directory.
LEMMA UnmarkedGood ==
  ASSUME NEW u, Good(u), NEW v \in Uppers, v.node = u.node, v.marks \subseteq u.marks,
         Strict => \A m \in u.marks \ v.marks : u.node[m] # "dir"
  PROVE  Good(v)
<1>1. Upright(v)
  BY DEF Upright, Good
<1>2. ASSUME Strict PROVE Hides(v)
  <2> SUFFICES ASSUME NEW p \in Places, v.node[p] = "dir", lower[p] \in Contents PROVE whitedOut(v, p)
    BY DEF Hides
  <2>1. PICK m \in u.marks : Within(m, p)
    BY <1>2 DEF Good, Hides, whitedOut
  <2>2. m \in Places /\ IsTree(u.node)
    BY UprightIs, PlacesAre DEF Good
  <2>3. u.node[m] = "dir"
    BY <2>1, <2>2, AboveIsDir
  <2>4. m \in v.marks
    BY <1>2, <2>1, <2>3
  <2> QED BY <2>1, <2>4 DEF whitedOut
<1> QED BY <1>1, <1>2 DEF Good

\* So does a file, where no directory is in the upper layer.
LEMMA PutFileGood ==
  ASSUME NEW u, Good(u), NEW p \in Paths, u.node[parentName(p)] = "dir", u.node[p] # "dir", NEW c \in Contents
  PROVE  Good(Put(u, p, c))
<1>1. p \in Places /\ c \in Nodes \ {"absent"} /\ c # "dir" /\ Upright(u) /\ u \in Uppers
  BY NodesDiffer, PlacesAre DEF Nodes, Good, Upright
<1>2. Upright(Put(u, p, c))
  BY <1>1, PutUpright
<1>3. Hides(u) => Hides(Put(u, p, c))
  <2> DEFINE v == Put(u, p, c)
  <2>1. v.marks = u.marks /\ v.node[p] = c /\ \A q \in Places : q # p => v.node[q] = u.node[q]
    BY <1>1, PutIs
  <2> HIDE DEF v
  <2>2. Hides(u) => Hides(v)
    BY <1>1, <2>1 DEF Hides, whitedOut
  <2> QED BY <2>2 DEF v
<1> QED BY <1>2, <1>3 DEF Good

\* So does a directory where nothing is seen: over a lower file there is a marker.
LEMMA PutDirGood ==
  ASSUME NEW u, Good(u), lower \in Lowers, NEW p \in Paths, u.node[parentName(p)] = "dir", Seen(u, p) = "absent"
  PROVE  Good(Put(u, p, "dir"))
<1>1. p \in Places /\ "dir" \in Nodes \ {"absent"} /\ Upright(u) /\ u \in Uppers
  BY PlacesAre DEF Nodes, Good, Upright
<1>2. Upright(Put(u, p, "dir"))
  BY <1>1, PutUpright
<1>3. u.node[p] = "absent" /\ ~Blocked(u, p)
  BY <1>1, SeenIs, NothingBlocks
<1>4. lower[p] \in Contents => whitedOut(u, p)
  BY <1>1, <1>3, SeenIs, NodesDiffer
<1>5. Hides(u) => Hides(Put(u, p, "dir"))
  <2> DEFINE v == Put(u, p, "dir")
  <2>1. v.marks = u.marks /\ \A q \in Places : q # p => v.node[q] = u.node[q]
    BY <1>1, PutIs
  <2> HIDE DEF v
  <2>2. Hides(u) => Hides(v)
    BY <1>4, <2>1 DEF Hides, whitedOut
  <2> QED BY <2>2 DEF v
<1> QED BY <1>2, <1>5 DEF Good

-----------------------------------------------------------------------------
(* Every operation keeps the upper layer good, at each of its calls.       *)

GoodRun(r) == r \in Runs /\ Good(r.now) /\ \A v \in r.past : Good(v)

\* A run begins with the upper layer as it is.
LEMMA GoodBegin == ASSUME Good(upper) PROVE GoodRun(Begin) /\ Begin.now = upper /\ Begin.ok /\ Begin.past = {}
  BY UprightIs DEF GoodRun, Begin, Runs, Good

\* Copy-ups keep every state of a run good.
LEMMA GoodLifts ==
  ASSUME NEW r, GoodRun(r), lower \in Lowers, NEW m, Lifts(r, m)
  PROVE  GoodRun(m)
  BY LiftedGood DEF GoodRun, Lifts

\* So does a call that leaves the upper layer good.
LEMMA GoodDo ==
  ASSUME NEW r, GoodRun(r), NEW v \in Uppers, r.ok => Good(v)
  PROVE  GoodRun(Do(r, v))
<1>1. r \in Runs
  BY DEF GoodRun
<1> QED BY <1>1, DoIs DEF GoodRun

\* So does a condition.
LEMMA GoodRequire == ASSUME NEW r, GoodRun(r), NEW c PROVE GoodRun(Require(r, c))
  BY RequireIs DEF GoodRun

\* So does a failure.
LEMMA GoodFail == ASSUME NEW r, GoodRun(r) PROVE GoodRun(Fail(r))
  BY FailIs DEF GoodRun

\* So does materializeParents, which ends with the parent in the upper layer.
LEMMA GoodParents ==
  ASSUME NEW r, GoodRun(r), lower \in Lowers, NEW p \in Paths
  PROVE  /\ GoodRun(materializeParents(r, p)) /\ Lifts(r, materializeParents(r, p))
         /\ materializeParents(r, p).ok => materializeParents(r, p).now.node[parentName(p)] = "dir"
<1>1. r \in Runs /\ Upright(r.now)
  BY DEF GoodRun, Good
<1> QED BY <1>1, ParentsLift, GoodLifts

\* So does clearWhiteout, unless a directory is there.
LEMMA GoodClear ==
  ASSUME NEW r, GoodRun(r), NEW p \in Paths, r.ok => r.now.node[p] # "dir"
  PROVE  GoodRun(clearWhiteout(r, p))
<1>1. r \in Runs /\ r.now \in Uppers
  BY DEF GoodRun, Runs
<1>2. CASE r.ok
  <2> DEFINE c == clearWhiteout(r, p)
  <2>1. c \in Runs /\ c.now = [node |-> r.now.node, marks |-> r.now.marks \ {p}] /\ c.past \subseteq r.past \cup {r.now}
    BY <1>1, <1>2, ClearIs
  <2> HIDE DEF c
  <2>2. c.now \in Uppers /\ c.now.node = r.now.node /\ c.now.marks \subseteq r.now.marks
        /\ r.now.marks \ c.now.marks \subseteq {p}
    BY <2>1 DEF Runs
  <2>3. Good(c.now)
    BY <1>2, <2>2, UnmarkedGood DEF GoodRun
  <2>4. GoodRun(c)
    BY <2>1, <2>3 DEF GoodRun
  <2> QED BY <2>4 DEF c
<1>3. CASE ~r.ok
  BY <1>1, <1>3, ClearIs
<1> QED BY <1>2, <1>3

\* A file is written and its marker cleared.
LEMMA GoodWritten ==
  ASSUME NEW w, GoodRun(w), NEW p \in Paths, NEW c \in Contents,
         w.ok => w.now.node[parentName(p)] = "dir" /\ w.now.node[p] # "dir"
  PROVE  GoodRun(clearWhiteout(Do(w, Put(w.now, p, c)), p))
<1> DEFINE v == Put(w.now, p, c)
           d == Do(w, v)
<1>1. w \in Runs /\ w.now \in Uppers /\ p \in Places /\ c \in Nodes /\ c # "dir"
  BY NodesDiffer, PlacesAre DEF GoodRun, Runs, Nodes
<1>2. v \in Uppers /\ v.node[p] = c
  BY <1>1, PutIs
<1>3. w.ok => Good(v)
  BY PutFileGood DEF GoodRun
<1> HIDE DEF v
<1>4. GoodRun(d)
  BY <1>2, <1>3, GoodDo
<1>5. d.ok => d.now.node[p] # "dir"
  BY <1>1, <1>2, DoIs
<1> HIDE DEF d
<1>6. GoodRun(clearWhiteout(d, p))
  BY <1>4, <1>5, GoodClear
<1> QED BY <1>6 DEF d, v

\* CreateFile.
LEMMA GoodCreateFile ==
  ASSUME Good(upper), lower \in Lowers, NEW p \in Paths, NEW c \in Written
  PROVE  GoodRun(CreateFileRun(p, c))
<1> DEFINE r == materializeParents(Begin, p)
           w == Require(r, Seen(r.now, p) = "absent")
<1>1. CreateFileRun(p, c) = clearWhiteout(Do(w, Put(w.now, p, c)), p)
  BY DEF CreateFileRun
<1>2. GoodRun(r) /\ (r.ok => r.now.node[parentName(p)] = "dir") /\ c \in Contents /\ p \in Places
  BY GoodBegin, GoodParents, OverlayAssumption, PlacesAre
<1> HIDE DEF r
<1>3. GoodRun(w)
  BY <1>2, GoodRequire
<1>4. w.now = r.now /\ (w.ok => r.ok /\ Seen(r.now, p) = "absent")
  BY <1>2, RequireIs DEF GoodRun
<1> HIDE DEF w
<1>5. w.ok => w.now.node[parentName(p)] = "dir" /\ w.now.node[p] # "dir"
  BY <1>2, <1>4, SeenIs DEF GoodRun, Good
<1> QED BY <1>1, <1>2, <1>3, <1>5, GoodWritten

\* WriteFile.
LEMMA GoodWriteFile ==
  ASSUME Good(upper), lower \in Lowers, NEW p \in Paths, NEW c \in Written
  PROVE  GoodRun(WriteFileRun(p, c))
<1> DEFINE r == materializeParents(Begin, p)
           free == r.now.node[p] # "dir"
           w == Require(r, free)
<1>1. WriteFileRun(p, c) = clearWhiteout(Do(w, Put(w.now, p, c)), p)
  BY DEF WriteFileRun
<1>2. GoodRun(r) /\ (r.ok => r.now.node[parentName(p)] = "dir") /\ c \in Contents
  BY GoodBegin, GoodParents, OverlayAssumption
<1> HIDE DEF r
<1>3. GoodRun(w)
  BY <1>2, GoodRequire
<1>4. w.ok => w.now.node[parentName(p)] = "dir" /\ w.now.node[p] # "dir"
  <2> HIDE DEF free
  <2>1. w.now = r.now /\ (w.ok => r.ok /\ free)
    BY <1>2, RequireIs DEF GoodRun
  <2> QED BY <1>2, <2>1 DEF free
<1> HIDE DEF w
<1> QED BY <1>1, <1>2, <1>3, <1>4, GoodWritten

\* copyUp after materializeParents, as AppendFile, Chmod and Chtimes begin.
LEMMA GoodCopyUp ==
  ASSUME Good(upper), lower \in Lowers, NEW p \in Paths
  PROVE  LET r == copyUp(materializeParents(Begin, p), p) IN
         /\ GoodRun(r) /\ Lifts(Begin, r)
         /\ r.ok => r.now.node[parentName(p)] = "dir"
         /\ r.ok /\ Seen(upper, p) # "absent" => r.now.node[p] # "absent"
<1> DEFINE m == materializeParents(Begin, p)
           r == copyUp(m, p)
<1>1. /\ GoodRun(m) /\ Lifts(Begin, m) /\ (m.ok => m.now.node[parentName(p)] = "dir")
      /\ Begin \in Runs /\ Upright(Begin.now) /\ Begin.now = upper
      /\ p \in Places /\ parentName(p) \in Places
  BY GoodBegin, GoodParents, PlacesAre DEF GoodRun, Good
<1> HIDE DEF m
<1>2. m \in Runs /\ Upright(m.now) /\ Seen(m.now, p) = Seen(upper, p)
  BY <1>1, LiftsIs
<1>3. Lifts(m, r) /\ (r.ok /\ Seen(m.now, p) # "absent" => r.now.node[p] # "absent")
  BY <1>2, CopyUpLifts
<1> HIDE DEF r
<1>4. GoodRun(r) /\ Lifts(Begin, r)
  BY <1>1, <1>3, GoodLifts, LiftsTwice
<1>5. r.ok => r.now.node[parentName(p)] = "dir"
  <2>1. r.ok => m.ok
    BY <1>3 DEF Lifts
  <2> QED BY <1>1, <1>2, <1>3, <2>1, LiftsIs
<1> QED BY <1>2, <1>3, <1>4, <1>5 DEF m, r

\* AppendFile.
LEMMA GoodAppendFile ==
  ASSUME Good(upper), lower \in Lowers, NEW p \in Paths
  PROVE  GoodRun(AppendFileRun(p))
<1> DEFINE r == copyUp(materializeParents(Begin, p), p)
           w == Require(r, r.now.node[p] # "dir")
           c == Longer[w.now.node[p]]
<1>1. AppendFileRun(p) = clearWhiteout(IF w.ok THEN Do(w, Put(w.now, p, c)) ELSE w, p)
  BY DEF AppendFileRun
<1>2. GoodRun(r) /\ (r.ok => r.now.node[parentName(p)] = "dir") /\ p \in Places
  BY GoodCopyUp, PlacesAre
<1> HIDE DEF r
<1>3. GoodRun(w) /\ w.now = r.now /\ (w.ok => r.ok /\ r.now.node[p] # "dir")
  BY <1>2, GoodRequire, RequireIs DEF GoodRun
<1> HIDE DEF w
<1>4. CASE w.ok
  <2>1. w.now.node[p] \in Nodes /\ w.now.node[p] # "dir"
    BY <1>2, <1>3, <1>4 DEF GoodRun, Runs, Uppers
  <2>2. c \in Contents
    BY <2>1, OverlayAssumption DEF Nodes
  <2> HIDE DEF c
  <2>3. GoodRun(clearWhiteout(Do(w, Put(w.now, p, c)), p))
    BY <1>2, <1>3, <2>2, GoodWritten
  <2> QED BY <1>1, <1>4, <2>3
<1>5. CASE ~w.ok
  <2>1. GoodRun(clearWhiteout(w, p))
    BY <1>3, <1>5, GoodClear
  <2> QED BY <1>1, <1>5, <2>1
<1> QED BY <1>4, <1>5

\* Mkdir.
LEMMA GoodMkdir ==
  ASSUME Good(upper), lower \in Lowers, NEW p \in Paths
  PROVE  GoodRun(MkdirRun(p))
<1> DEFINE r == materializeParents(Begin, p)
           w == Require(r, Seen(r.now, p) = "absent")
           v == Put(w.now, p, "dir")
<1>1. MkdirRun(p) = Do(w, v)
  BY DEF MkdirRun
<1>2. GoodRun(r) /\ (r.ok => r.now.node[parentName(p)] = "dir") /\ p \in Places /\ "dir" \in Nodes
  BY GoodBegin, GoodParents, PlacesAre DEF Nodes
<1> HIDE DEF r
<1>3. GoodRun(w) /\ w.now = r.now /\ (w.ok => r.ok /\ Seen(r.now, p) = "absent")
  BY <1>2, GoodRequire, RequireIs DEF GoodRun
<1> HIDE DEF w
<1>4. v \in Uppers
  BY <1>2, <1>3, PutIs DEF GoodRun, Runs
<1>5. w.ok => Good(v)
  BY <1>2, <1>3, PutDirGood DEF GoodRun
<1> HIDE DEF v
<1> QED BY <1>1, <1>3, <1>4, <1>5, GoodDo

\* One step of materializeDirs.
LEMMA GoodMade ==
  ASSUME NEW r, GoodRun(r), lower \in Lowers, NEW q \in Paths, r.ok => r.now.node[parentName(q)] = "dir"
  PROVE  /\ GoodRun(Made(r, q, TRUE))
         /\ Made(r, q, TRUE).ok => Made(r, q, TRUE).now.node[q] = "dir"
<1> DEFINE v == Put(r.now, q, "dir")
<1>1. r \in Runs /\ Good(r.now) /\ Upright(r.now) /\ q \in Places /\ "dir" \in Nodes /\ r.now \in Uppers
  BY PlacesAre DEF GoodRun, Good, Runs, Nodes
<1>2. v \in Uppers /\ v.node[q] = "dir"
  BY <1>1, PutIs
<1>3. CASE Seen(r.now, q) \in {"dir", "absent"}
  <2>1. Made(r, q, TRUE) = Do(r, v)
    BY <1>3 DEF Made
  <2>2. r.ok => Good(v)
    <3>1. CASE Seen(r.now, q) = "dir"
      <4>1. r.ok => v \in Lifted(r.now)
        BY <1>1, <3>1, PutLifts
      <4> QED BY <1>1, <4>1, LiftedGood
    <3>2. CASE Seen(r.now, q) = "absent"
      BY <1>1, <3>2, PutDirGood
    <3> QED BY <1>3, <3>1, <3>2
  <2> HIDE DEF v
  <2>3. GoodRun(Do(r, v)) /\ (Do(r, v).ok => Do(r, v).now.node[q] = "dir")
    BY <1>1, <1>2, <2>2, GoodDo, DoIs
  <2> QED BY <2>1, <2>3
<1>4. CASE Seen(r.now, q) \notin {"dir", "absent"}
  <2>1. Made(r, q, TRUE) = Fail(r)
    BY <1>4 DEF Made
  <2>2. GoodRun(Fail(r)) /\ Fail(r).ok = FALSE
    BY <1>1, GoodFail, FailIs
  <2> QED BY <2>1, <2>2
<1> QED BY <1>3, <1>4

\* MkdirAll.
LEMMA GoodMkdirAll ==
  ASSUME Good(upper), lower \in Lowers, NEW p \in Paths
  PROVE  GoodRun(MkdirAllRun(p))
<1> DEFINE n == Len(p)
           way == Way(p)
           at(i) == IF i = 0 THEN Root ELSE way[i]
<1>1. p \in Places /\ GoodRun(Begin) /\ Begin \in Runs /\ Begin.now = upper
  BY PlacesAre, GoodBegin DEF GoodRun
<1>2. PICK g \in [0 .. n -> Runs] :
        /\ g[0] = Begin
        /\ \A i \in 1 .. n : g[i] = Made(g[i - 1], way[i], TRUE)
        /\ MkdirAllRun(p) = g[n]
  BY <1>1, WalkIs DEF MkdirAllRun
<1>3. n \in Nat /\ \A i \in 1 .. n : way[i] \in Paths /\ parentName(way[i]) = IF i = 1 THEN Root ELSE way[i - 1]
  BY <1>1, WayIs
<1> HIDE DEF n, way
<1> DEFINE T == {i \in 0 .. n : GoodRun(g[i]) /\ (g[i].ok => g[i].now.node[at(i)] = "dir")}
<1>5. 0 \in T
  <2>1. 0 \in 0 .. n /\ at(0) = Root
    BY <1>3
  <2>2. Begin.now.node[Root] = "dir"
    BY <1>1, UprightIs DEF IsTree, Good
  <2> HIDE DEF at
  <2> QED BY <1>1, <1>2, <2>1, <2>2
<1>6. ASSUME NEW i \in 0 .. n - 1, i \in T PROVE i + 1 \in T
  <2>1. i + 1 \in 1 .. n /\ i + 1 \in 0 .. n /\ (i + 1) - 1 = i /\ at(i + 1) = way[i + 1] /\ i \in 0 .. n
    BY <1>3
  <2>2. parentName(way[i + 1]) = at(i)
    <3>1. i + 1 = 1 <=> i = 0
      BY <1>3
    <3> QED BY <1>3, <2>1, <3>1
  <2> HIDE DEF at
  <2>3. GoodRun(g[i]) /\ (g[i].ok => g[i].now.node[at(i)] = "dir")
    BY <1>6, <2>1
  <2>4. g[i + 1] = Made(g[i], way[i + 1], TRUE) /\ way[i + 1] \in Paths
    BY <1>2, <1>3, <2>1
  <2>5. GoodRun(g[i + 1]) /\ (g[i + 1].ok => g[i + 1].now.node[way[i + 1]] = "dir")
    BY <2>2, <2>3, <2>4, GoodMade
  <2> QED BY <2>1, <2>5
<1>7. n \in T
  <2>1. \A i \in 0 .. n - 1 : i \in T => i + 1 \in T
    BY <1>6
  <2>2. 0 .. n \subseteq T
    <3> HIDE DEF T
    <3> QED BY <1>3, <1>5, <2>1, InductTo
  <2>3. n \in 0 .. n
    BY <1>3
  <2> HIDE DEF T
  <2> QED BY <2>2, <2>3
<1> QED BY <1>2, <1>7

\* Chmod and Chtimes.
LEMMA GoodTouch ==
  ASSUME Good(upper), lower \in Lowers, NEW p \in Paths
  PROVE  GoodRun(TouchRun(p))
<1> DEFINE r == copyUp(materializeParents(Begin, p), p)
<1>1. TouchRun(p) = Require(r, r.now.node[p] # "absent")
  BY DEF TouchRun
<1>2. GoodRun(r)
  BY GoodCopyUp
<1> HIDE DEF r
<1> QED BY <1>1, <1>2, GoodRequire

\* setWhiteout and hideLower.
LEMMA GoodWhiteout ==
  ASSUME NEW r, GoodRun(r), lower \in Lowers, NEW p \in Paths
  PROVE  GoodRun(setWhiteout(r, p)) /\ GoodRun(hideLower(r, p))
<1> DEFINE m == materializeParents(r, p)
           v == Marked(m.now, p)
<1>1. setWhiteout(r, p) = Do(m, v)
  BY WhiteoutIs DEF GoodRun
<1>2. GoodRun(m) /\ (m.ok => m.now.node[parentName(p)] = "dir")
  BY GoodParents
<1> HIDE DEF m
<1>3. v \in Uppers
  BY <1>2 DEF GoodRun, Runs, Uppers, Marked
<1>4. m.ok => Good(v)
  BY <1>2, MarkedGood DEF GoodRun
<1> HIDE DEF v
<1>5. GoodRun(setWhiteout(r, p))
  BY <1>1, <1>2, <1>3, <1>4, GoodDo
<1> QED BY <1>5 DEF hideLower

\* A file or a bare directory goes.
LEMMA PutAbsentGood ==
  ASSUME NEW u, Good(u), NEW p \in Paths, Bare(u, p)
  PROVE  Put(u, p, "absent") \in Uppers /\ Good(Put(u, p, "absent"))
<1> DEFINE v == Put(u, p, "absent")
<1>1. p \in Places /\ "absent" \in Nodes /\ u \in Uppers /\ Upright(u) /\ IsTree(u.node) /\ p # Root
  BY UprightIs, PlacesAre DEF Good, Nodes
<1>2. v \in Uppers /\ v.marks = u.marks /\ v.node[p] = "absent" /\ \A q \in Places : q # p => v.node[q] = u.node[q]
  BY <1>1, PutIs
<1> HIDE DEF v
<1>3. v.node \in [Places -> Nodes] /\ v.node[Root] = "dir"
  BY <1>1, <1>2, PlacesAre DEF Uppers, IsTree
<1>4. ASSUME NEW q \in Paths, v.node[q] # "absent" PROVE v.node[parentName(q)] = "dir"
  <2>1. q # p /\ q \in Places /\ parentName(q) \in Places
    BY <1>2, <1>4, PlacesAre
  <2>2. u.node[q] # "absent"
    BY <1>2, <1>4, <2>1
  <2>3. parentName(q) # p
    BY <2>2 DEF Bare, Children
  <2> QED BY <1>1, <1>2, <2>1, <2>2, <2>3 DEF IsTree
<1>5. ASSUME NEW m \in v.marks PROVE v.node[parentName(m)] = "dir"
  <2>1. m \in u.marks /\ m \in Paths /\ parentName(m) \in Places
    BY <1>1, <1>2, PlacesAre DEF Uppers
  <2>2. parentName(m) # p
    BY <2>1 DEF Bare, Children
  <2> QED BY <1>1, <1>2, <2>1, <2>2 DEF Upright
<1>6. Upright(v)
  BY <1>2, <1>3, <1>4, <1>5 DEF Upright, IsTree
<1>7. Hides(u) => Hides(v)
  BY <1>2 DEF Hides, whitedOut
<1> QED BY <1>2, <1>6, <1>7 DEF Good, v

\* Remove.
LEMMA GoodRemove ==
  ASSUME Good(upper), lower \in Lowers, NEW p \in Paths
  PROVE  GoodRun(RemoveRun(p))
<1> DEFINE seen == Seen(upper, p)
           can == seen # "absent" /\ (seen = "dir" => ~ReadDirFails(upper, p) /\ ReadDir(upper, p) = {})
           asked == Require(Begin, can)
           cleared == IF upper.node[p] = "dir" THEN clearMarkers(asked, p) ELSE asked
           bare == Bare(cleared.now, p)
           ready == Require(cleared, bare)
           removed == Do(ready, Put(cleared.now, p, "absent"))
<1>1. RemoveRun(p) = hideLower(removed, p)
  BY DEF RemoveRun
<1>2. p \in Places /\ Upright(upper) /\ GoodRun(Begin) /\ Begin \in Runs /\ Begin.now = upper /\ Begin.past = {}
  BY GoodBegin, PlacesAre DEF GoodRun, Good
<1>3. GoodRun(asked) /\ asked \in Runs /\ asked.now = upper /\ asked.past = {} /\ (asked.ok => can)
  <2> HIDE DEF can
  <2> QED BY <1>2, GoodRequire, RequireIs DEF GoodRun
<1> HIDE DEF asked
<1>4. GoodRun(cleared)
  <2>1. CASE upper.node[p] = "dir" /\ asked.ok
    <3>1. ASSUME Strict, NEW q \in Children(p) PROVE upper.node[q] # "dir"
      <4>1. seen = "dir"
        BY <1>2, <2>1, SeenIs
      <4>2. ReadDir(upper, p) = {}
        BY <1>3, <2>1, <4>1
      <4>3. Early = {}
        BY <3>1 DEF Strict
      <4> QED BY <4>2, <4>3 DEF ReadDir
    <3>2. ASSUME NEW v, Clears(upper, v, p) PROVE Good(v)
      BY <3>1, <3>2, UnmarkedGood DEF Clears
    <3> DEFINE c == clearMarkers(asked, p)
    <3>3. Cleared(asked, c, p)
      BY <1>3, MarkersClear
    <3> HIDE DEF c
    <3>4. GoodRun(c)
      BY <1>3, <3>2, <3>3 DEF Cleared, GoodRun
    <3> QED BY <2>1, <3>4 DEF c
  <2>2. CASE ~(upper.node[p] = "dir" /\ asked.ok)
    <3>1. ~asked.ok => clearMarkers(asked, p) = asked
      BY <1>3, MarkersClear DEF Cleared
    <3> QED BY <1>3, <2>2, <3>1
  <2> QED BY <2>1, <2>2
<1> HIDE DEF cleared
<1>5. GoodRun(ready) /\ ready.now = cleared.now /\ (ready.ok => bare)
  <2> HIDE DEF bare
  <2> QED BY <1>4, GoodRequire, RequireIs DEF GoodRun
<1> HIDE DEF ready
<1>6. Put(cleared.now, p, "absent") \in Uppers /\ (ready.ok => Good(Put(cleared.now, p, "absent")))
  <2>1. "absent" \in Nodes /\ cleared.now \in Uppers
    BY <1>4 DEF Nodes, GoodRun, Runs
  <2>2. Put(cleared.now, p, "absent") \in Uppers
    BY <1>2, <2>1, PutIs
  <2>3. ASSUME ready.ok PROVE Good(Put(cleared.now, p, "absent"))
    BY <1>4, <1>5, <2>3, PutAbsentGood DEF GoodRun
  <2> QED BY <2>2, <2>3
<1>7. GoodRun(removed)
  BY <1>5, <1>6, GoodDo
<1> HIDE DEF removed
<1> QED BY <1>1, <1>7, GoodWhiteout

\* What is at or below p goes.
LEMMA CutGood ==
  ASSUME NEW u, Good(u), NEW p \in Paths
  PROVE  Cut(u, p) \in Uppers /\ Good(Cut(u, p))
<1> DEFINE v == Cut(u, p)
<1>1. u \in Uppers /\ Upright(u) /\ IsTree(u.node) /\ p \in Places /\ p # Root
  BY UprightIs, PlacesAre DEF Good
<1>2. /\ v.node = [q \in Places |-> IF Within(p, q) THEN "absent" ELSE u.node[q]]
      /\ v.marks = {q \in u.marks : ~(Within(p, q) /\ p # q)}
      /\ v = [node |-> v.node, marks |-> v.marks]
  BY DEF Cut
<1> HIDE DEF v
<1>3. v.node \in [Places -> Nodes] /\ v.marks \in SUBSET Paths /\ v \in Uppers
  <2>1. \A q \in Places : u.node[q] \in Nodes /\ "absent" \in Nodes
    BY <1>1 DEF Uppers, Nodes
  <2>2. v.node \in [Places -> Nodes]
    BY <1>2, <2>1
  <2>3. v.marks \in SUBSET Paths
    BY <1>1, <1>2 DEF Uppers
  <2> QED BY <1>2, <2>2, <2>3 DEF Uppers
<1>4. v.node[Root] = "dir"
  <2>1. ~Within(p, Root) /\ Root \in Places
    BY <1>1, WithinOrder, PlacesAre
  <2> QED BY <1>1, <1>2, <2>1 DEF IsTree
<1>5. \A q \in Paths : Within(p, parentName(q)) => Within(p, q) /\ q # p
  <2> SUFFICES ASSUME NEW q \in Paths, Within(p, parentName(q)) PROVE Within(p, q) /\ q # p
    OBVIOUS
  <2>1. q \in Places /\ parentName(q) \in Places /\ Within(parentName(q), q) /\ ~Within(q, parentName(q))
    BY ParentIs
  <2> QED BY <1>1, <2>1, WithinOrder
<1>6. ASSUME NEW q \in Paths, v.node[q] # "absent" PROVE v.node[parentName(q)] = "dir"
  <2>1. q \in Places /\ parentName(q) \in Places
    BY PlacesAre
  <2>2. ~Within(p, q) /\ u.node[q] # "absent"
    BY <1>2, <1>6, <2>1
  <2> QED BY <1>1, <1>2, <1>5, <2>1, <2>2 DEF IsTree
<1>7. ASSUME NEW m \in v.marks PROVE v.node[parentName(m)] = "dir"
  <2>1. m \in Paths /\ m \in u.marks /\ parentName(m) \in Places /\ ~(Within(p, m) /\ p # m)
    BY <1>2, <1>3, PlacesAre
  <2>2. u.node[parentName(m)] = "dir"
    BY <1>1, <2>1 DEF Upright
  <2> QED BY <1>2, <1>5, <2>1, <2>2
<1>8. ASSUME Hides(u) PROVE Hides(v)
  <2> SUFFICES ASSUME NEW q \in Places, v.node[q] = "dir", lower[q] \in Contents PROVE whitedOut(v, q)
    BY DEF Hides
  <2>1. ~Within(p, q) /\ u.node[q] = "dir"
    BY <1>2
  <2>2. PICK m \in u.marks : Within(m, q)
    BY <1>8, <2>1 DEF Hides, whitedOut
  <2>3. m \in Places
    BY <1>1, <2>2, PlacesAre DEF Uppers
  <2>4. m \in v.marks
    BY <1>1, <1>2, <2>1, <2>2, <2>3, WithinOrder
  <2> QED BY <2>2, <2>4 DEF whitedOut
<1> QED BY <1>3, <1>4, <1>6, <1>7, <1>8 DEF Good, Upright, IsTree, v

\* RemoveAll.
LEMMA GoodRemoveAll ==
  ASSUME Good(upper), lower \in Lowers, NEW p \in Paths
  PROVE  GoodRun(RemoveAllRun(p))
<1> DEFINE free == ~Blocked(upper, p)
           asked == Require(Begin, free)
           v == Cut(upper, p)
           removed == Do(asked, v)
<1>1. RemoveAllRun(p) = IF visibleInLower(upper, p) THEN setWhiteout(removed, p) ELSE removed
  BY DEF RemoveAllRun
<1>2. GoodRun(asked)
  <2> HIDE DEF free
  <2> QED BY GoodBegin, GoodRequire
<1>3. v \in Uppers /\ Good(v)
  BY CutGood
<1> HIDE DEF asked, v
<1>4. GoodRun(removed)
  BY <1>2, <1>3, GoodDo
<1> HIDE DEF removed
<1> QED BY <1>1, <1>4, GoodWhiteout

-----------------------------------------------------------------------------

\* A move of p to q takes what is below p to below q, and can be undone.
LEMMA MovedIs ==
  ASSUME NEW p \in Paths, NEW q \in Paths, NEW r \in Places, Within(p, r)
  PROVE  /\ Within(q, Moved(r, p, q)) /\ Moved(r, p, q) # Root
         /\ Moved(p, p, q) = q /\ Moved(Moved(r, p, q), q, p) = r
         /\ r # p => /\ r \in Paths /\ Within(p, parentName(r)) /\ Moved(r, p, q) # q
                     /\ parentName(Moved(r, p, q)) = Moved(parentName(r), p, q)
<1>1. p \in Seq(Components) /\ q \in Seq(Components) /\ r \in Seq(Components)
  BY PlacesAre
<1>2. \A a, b, c : /\ Within(a, b) <=> Prefix(a, b)
                   /\ Moved(a, b, c) = Shift(a, b, c)
                   /\ parentName(a) = Up(a)
  BY DEF Within, Prefix, Moved, Shift, parentName, Up
<1>3. Prefix(p, r)
  BY <1>2
<1>4. Shift(r, p, q) \in Seq(Components) /\ Prefix(q, Shift(r, p, q))
  BY <1>1, <1>3, ShiftIs
<1>5. Shift(Shift(r, p, q), q, p) = r /\ Shift(p, p, q) = q
  BY <1>1, <1>3, ShiftBack
<1>6. Shift(r, p, q) # Root
  <2>1. Prefix(q, <<>>) => q = <<>>
    BY <1>1, PrefixOrder
  <2> QED BY <1>4, <2>1, PlacesAre DEF Root
<1>7. ASSUME r # p
      PROVE  r \in Paths /\ Prefix(p, Up(r)) /\ Shift(r, p, q) # q /\ Up(Shift(r, p, q)) = Shift(Up(r), p, q)
  <2>1. r # <<>> /\ Prefix(p, Up(r)) /\ Shift(r, p, q) # q /\ Up(Shift(r, p, q)) = Shift(Up(r), p, q)
    BY <1>1, <1>3, <1>7, ShiftUp
  <2> QED BY <2>1, PlacesAre DEF Root
<1> QED BY <1>2, <1>4, <1>5, <1>6, <1>7

-----------------------------------------------------------------------------
(* Rename: the move.                                                       *)

\* What is where after p was moved to q.
LEMMA ShiftedIs ==
  ASSUME NEW u \in Uppers, NEW p \in Paths, NEW q \in Paths
  PROVE  /\ DOMAIN Shifted(u, p, q).node = Places
         /\ Shifted(u, p, q) = [node |-> Shifted(u, p, q).node, marks |-> Shifted(u, p, q).marks]
         /\ Shifted(u, p, q).marks = {r \in u.marks : ~(Within(p, r) /\ p # r)}
                                     \cup {Moved(r, p, q) : r \in {s \in u.marks : Within(p, s) /\ p # s}}
         /\ \A s \in Paths : Within(p, s) /\ Moved(s, p, q) \in Places =>
              Shifted(u, p, q).node[Moved(s, p, q)] = u.node[s]
         /\ \A r \in Places : ~Within(q, r) =>
              Shifted(u, p, q).node[r] = IF Within(p, r) THEN "absent" ELSE u.node[r]
         /\ \A r \in Places : Shifted(u, p, q).node[r] # "absent" =>
              \/ \E s \in Paths : Within(p, s) /\ r = Moved(s, p, q) /\ Shifted(u, p, q).node[r] = u.node[s]
              \/ ~Within(p, r) /\ Shifted(u, p, q).node[r] = u.node[r]
                 /\ \A s \in Paths : Within(p, s) => r # Moved(s, p, q)
<1> DEFINE w == Shifted(u, p, q)
           from(r) == CHOOSE s \in Paths : Within(p, s) /\ r = Moved(s, p, q)
           comes(r) == \E s \in Paths : Within(p, s) /\ r = Moved(s, p, q)
<1>1. /\ w.node = [r \in Places |-> IF comes(r) THEN u.node[from(r)] ELSE IF Within(p, r) THEN "absent" ELSE u.node[r]]
      /\ w.marks = {r \in u.marks : ~(Within(p, r) /\ p # r)}
                   \cup {Moved(r, p, q) : r \in {s \in u.marks : Within(p, s) /\ p # s}}
      /\ w = [node |-> w.node, marks |-> w.marks]
  BY DEF Shifted
<1> HIDE DEF w
<1>2. \A s, t \in Paths : Within(p, s) /\ Within(p, t) /\ Moved(s, p, q) = Moved(t, p, q) => s = t
  <2>1. \A s \in Paths : Within(p, s) => Moved(Moved(s, p, q), q, p) = s
    BY MovedIs, PlacesAre
  <2> QED BY <2>1
<1>3. ASSUME NEW s \in Paths, Within(p, s) PROVE comes(Moved(s, p, q)) /\ from(Moved(s, p, q)) = s
  <2>1. comes(Moved(s, p, q))
    BY <1>3
  <2>2. from(Moved(s, p, q)) \in Paths /\ Within(p, from(Moved(s, p, q)))
        /\ Moved(s, p, q) = Moved(from(Moved(s, p, q)), p, q)
    BY <1>3
  <2> HIDE DEF from
  <2> QED BY <1>2, <1>3, <2>1, <2>2
<1> HIDE DEF from
<1>4. ASSUME NEW r \in Places, comes(r) PROVE Within(q, r)
  BY <1>4, MovedIs, PlacesAre
<1>5. \A s \in Paths : Within(p, s) /\ Moved(s, p, q) \in Places => w.node[Moved(s, p, q)] = u.node[s]
  <2> HIDE DEF comes
  <2> QED BY <1>1, <1>3
<1>6. \A r \in Places : ~Within(q, r) => w.node[r] = IF Within(p, r) THEN "absent" ELSE u.node[r]
  <2> HIDE DEF comes
  <2> QED BY <1>1, <1>4
<1>7. ASSUME NEW r \in Places, w.node[r] # "absent"
      PROVE  \/ \E s \in Paths : Within(p, s) /\ r = Moved(s, p, q) /\ w.node[r] = u.node[s]
             \/ ~Within(p, r) /\ w.node[r] = u.node[r] /\ ~comes(r)
  <2>1. CASE comes(r)
    <3>1. PICK s \in Paths : Within(p, s) /\ r = Moved(s, p, q)
      BY <2>1
    <3>2. w.node[r] = u.node[s]
      BY <1>5, <3>1
    <3> QED BY <3>1, <3>2
  <2>2. CASE ~comes(r)
    <3> HIDE DEF comes
    <3>1. w.node[r] = IF Within(p, r) THEN "absent" ELSE u.node[r]
      BY <1>1, <2>2
    <3> QED BY <1>7, <2>2, <3>1
  <2> QED BY <2>1, <2>2
<1>8. DOMAIN w.node = Places
  BY <1>1
<1> QED BY <1>1, <1>5, <1>6, <1>7, <1>8 DEF w

\* The move the upper filesystem makes: of what is at u, where q can take it.
Movable(u, p, q) ==
  /\ u.node[p] # "absent" /\ u.node[parentName(q)] = "dir" /\ ~Within(p, q)
  /\ u.node[q] # "absent" => (u.node[q] = "dir") = (u.node[p] = "dir")
  /\ Bare(u, q)

\* Below a bare q there is nothing, neither entries nor markers.
LEMMA NothingBelow ==
  ASSUME NEW u, Upright(u), NEW q \in Paths, Bare(u, q)
  PROVE  /\ \A r \in Places : Within(q, r) /\ r # q => u.node[r] = "absent"
         /\ \A m \in u.marks : Within(q, m) => m = q
<1>1. IsTree(u.node) /\ q \in Places /\ Len(q) \in Nat /\ q \in Seq(Components)
  BY UprightIs, PlacesAre
<1>2. ASSUME NEW r \in Places, Within(q, r), r # q PROVE u.node[r] = "absent"
  <2> SUFFICES ASSUME u.node[r] # "absent" PROVE FALSE
    OBVIOUS
  <2> DEFINE c == SubSeq(r, 1, Len(q) + 1)
  <2>1. r \in Seq(Components) /\ Len(r) \in Nat /\ Len(q) <= Len(r) /\ SubSeq(r, 1, Len(q)) = q
    BY <1>2, PlacesAre DEF Within
  <2>2. Len(q) # Len(r)
    BY <1>2, <2>1, SubSeqFull
  <2>3. Len(q) + 1 \in 0 .. Len(r) /\ Len(q) + 1 > 0 /\ (Len(q) + 1) - 1 = Len(q)
    BY <1>1, <2>1, <2>2
  <2>4. c \in Paths /\ Within(c, r) /\ parentName(c) = SubSeq(r, 1, (Len(q) + 1) - 1)
    BY <2>3, BeginningIsPlace
  <2>5. parentName(c) = q
    BY <2>1, <2>3, <2>4
  <2> HIDE DEF c
  <2>6. u.node[c] # "absent"
    <3>1. c = r \/ u.node[c] = "dir"
      BY <1>1, <2>4, AboveIsDir, PlacesAre
    <3> QED BY <3>1
  <2> QED BY <2>4, <2>5, <2>6 DEF Bare, Children
<1>3. ASSUME NEW m \in u.marks, Within(q, m), m # q PROVE FALSE
  <2>1. m \in Paths /\ u.node[parentName(m)] = "dir"
    BY UprightIs DEF Upright
  <2>2. parentName(m) \in Places /\ Within(q, parentName(m))
    BY <1>1, <1>3, <2>1, ParentIs
  <2>3. parentName(m) = q
    BY <1>2, <2>1, <2>2
  <2> QED BY <2>1, <2>3 DEF Bare, Children
<1> QED BY <1>2, <1>3

\* The move leaves the upper layer a tree with every marker in a directory.
LEMMA ShiftedUpright ==
  ASSUME NEW u, Upright(u), NEW p \in Paths, NEW q \in Paths, Movable(u, p, q),
         \A s \in u.marks : Within(p, s) => Moved(s, p, q) \in Paths
  PROVE  Upright(Shifted(u, p, q))
<1> DEFINE w == Shifted(u, p, q)
           comes(r) == \E s \in Paths : Within(p, s) /\ r = Moved(s, p, q)
<1>1. /\ DOMAIN w.node = Places
      /\ w = [node |-> w.node, marks |-> w.marks]
      /\ w.marks = {r \in u.marks : ~(Within(p, r) /\ p # r)}
                   \cup {Moved(r, p, q) : r \in {s \in u.marks : Within(p, s) /\ p # s}}
      /\ \A s \in Paths : Within(p, s) /\ Moved(s, p, q) \in Places => w.node[Moved(s, p, q)] = u.node[s]
      /\ \A r \in Places : ~Within(q, r) => w.node[r] = IF Within(p, r) THEN "absent" ELSE u.node[r]
      /\ \A r \in Places : w.node[r] # "absent" =>
           \/ \E s \in Paths : Within(p, s) /\ r = Moved(s, p, q) /\ w.node[r] = u.node[s]
           \/ ~Within(p, r) /\ w.node[r] = u.node[r] /\ \A s \in Paths : Within(p, s) => r # Moved(s, p, q)
  BY UprightIs, ShiftedIs
<1> HIDE DEF w
<1>2. /\ p \in Places /\ q \in Places /\ parentName(q) \in Places /\ parentName(q) # q
      /\ Within(parentName(q), q) /\ ~Within(q, parentName(q)) /\ p # Root /\ q # Root
      /\ IsTree(u.node) /\ u \in Uppers
  BY ParentIs, PlacesAre, UprightIs
<1>3. \A r \in Places : u.node[r] \in Nodes /\ "absent" \in Nodes
  BY <1>2 DEF IsTree, Nodes
<1>4. w.node \in [Places -> Nodes]
  <2>1. \A r \in Places : w.node[r] \in Nodes
    BY <1>1, <1>3, PlacesAre
  <2>2. DOMAIN w.node = Places
    BY <1>1
  <2>3. w.node = [r \in Places |-> w.node[r]]
    BY <1>1 DEF Shifted, w
  <2> QED BY <2>1, <2>3
<1>5. w.marks \in SUBSET Paths
  <2>1. u.marks \in SUBSET Paths
    BY UprightIs
  <2> QED BY <1>1, <2>1
<1>6. w.node[Root] = "dir"
  <2>1. ~Within(q, Root) /\ ~Within(p, Root) /\ Root \in Places
    BY <1>2, WithinOrder, PlacesAre
  <2> QED BY <1>1, <1>2, <2>1 DEF IsTree
\* The directory q comes to lie in stays as it is.
<1>7. w.node[parentName(q)] = "dir"
  <2>1. ~Within(p, parentName(q))
    BY <1>2, WithinOrder DEF Movable
  <2> QED BY <1>1, <1>2, <2>1 DEF Movable
\* What is in a directory that moves moves with it.
<1>8. ASSUME NEW s \in Paths, Within(p, s), Moved(s, p, q) \in Paths, s # p, u.node[parentName(s)] = "dir"
      PROVE  w.node[parentName(Moved(s, p, q))] = "dir"
  <2>1. Within(p, parentName(s)) /\ parentName(Moved(s, p, q)) = Moved(parentName(s), p, q)
    BY <1>8, MovedIs, PlacesAre
  <2>2. parentName(Moved(s, p, q)) \in Places /\ parentName(s) \in Places
    BY <1>8, PlacesAre
  <2>3. parentName(s) # Root
    BY <1>2, <2>1, WithinOrder
  <2>4. parentName(s) \in Paths
    BY <2>2, <2>3, PlacesAre
  <2> QED BY <1>1, <1>8, <2>1, <2>2, <2>4
\* A directory above what stays, stays.
<1>9. ASSUME NEW r \in Paths, ~(Within(p, r) /\ p # r), u.node[parentName(r)] = "dir",
             ~(Within(q, r) /\ r # q)
      PROVE  w.node[parentName(r)] = "dir"
  <2>1. parentName(r) \in Places /\ r \in Places /\ Within(parentName(r), r) /\ parentName(r) # r
        /\ ~Within(r, parentName(r))
    BY ParentIs
  <2>2. ~Within(p, parentName(r))
    BY <1>2, <1>9, <2>1, WithinOrder
  <2>3. ~Within(q, parentName(r))
    BY <1>2, <1>9, <2>1, WithinOrder
  <2> QED BY <1>1, <1>9, <2>1, <2>2, <2>3
<1>10. ASSUME NEW r \in Paths, w.node[r] # "absent" PROVE w.node[parentName(r)] = "dir"
  <2>1. r \in Places
    BY PlacesAre
  <2>2. CASE \E s \in Paths : Within(p, s) /\ r = Moved(s, p, q) /\ w.node[r] = u.node[s]
    <3>1. PICK s \in Paths : Within(p, s) /\ r = Moved(s, p, q) /\ w.node[r] = u.node[s]
      BY <2>2
    <3>2. CASE s = p
      <4>1. r = q
        BY <1>2, <3>1, <3>2, MovedIs, WithinOrder
      <4> QED BY <1>7, <4>1
    <3>3. CASE s # p
      <4>1. u.node[parentName(s)] = "dir"
        BY <1>2, <1>10, <3>1 DEF IsTree
      <4> QED BY <1>8, <3>1, <3>3, <4>1
    <3> QED BY <3>2, <3>3
  <2>3. CASE ~Within(p, r) /\ w.node[r] = u.node[r] /\ \A s \in Paths : Within(p, s) => r # Moved(s, p, q)
    <3>1. u.node[parentName(r)] = "dir"
      BY <1>2, <1>10, <2>3 DEF IsTree
    <3>2. ~(Within(q, r) /\ r # q)
      BY <1>10, <2>1, <2>3, NothingBelow DEF Movable
    <3> QED BY <1>9, <2>3, <3>1, <3>2
  <2> QED BY <1>1, <1>10, <2>1, <2>2, <2>3
<1>11. ASSUME NEW m \in w.marks PROVE w.node[parentName(m)] = "dir"
  <2>1. \A s \in u.marks : s \in Paths /\ u.node[parentName(s)] = "dir"
    BY UprightIs DEF Upright
  <2>2. CASE m \in u.marks /\ ~(Within(p, m) /\ p # m)
    <3>1. ~(Within(q, m) /\ m # q)
      BY <2>2, NothingBelow DEF Movable
    <3> QED BY <1>9, <2>1, <2>2, <3>1
  <2>3. CASE \E s \in u.marks : Within(p, s) /\ p # s /\ m = Moved(s, p, q)
    <3>1. PICK s \in u.marks : Within(p, s) /\ p # s /\ m = Moved(s, p, q)
      BY <2>3
    <3>2. s \in Paths /\ u.node[parentName(s)] = "dir" /\ Moved(s, p, q) \in Paths
      BY <2>1, <3>1
    <3> QED BY <1>8, <3>1, <3>2
  <2> QED BY <1>1, <2>2, <2>3
<1>12. w \in Uppers
  BY <1>1, <1>4, <1>5 DEF Uppers
<1> QED BY <1>4, <1>6, <1>10, <1>11, <1>12 DEF Upright, IsTree, w

\* What the upper layer has of p and q once a rename is prepared.
LEMMA ShiftedHides ==
  ASSUME lower \in Lowers, Good(upper), Strict, NEW u \in Lifted(upper), NEW p \in Paths, NEW q \in Paths,
         Seen(upper, p) # "absent", Movable(u, p, q), RenameTarget(p, q)
  PROVE  Hides(Shifted(u, p, q))
<1> DEFINE w == Shifted(u, p, q)
<1>1. /\ Upright(upper) /\ Hides(upper) /\ Upright(u) /\ Hides(u) /\ u.marks = upper.marks
      /\ \A r \in Places : upper.node[r] # "absent" => u.node[r] = upper.node[r]
      /\ \A r \in Places : Seen(u, r) = Seen(upper, r)
      /\ \A r \in Places : u.node[r] # "absent" => Seen(upper, r) = u.node[r]
  BY LiftedIs, LiftedHides, LiftedSees, SeenIs DEF Good
<1>2. /\ w.marks = {r \in u.marks : ~(Within(p, r) /\ p # r)}
                   \cup {Moved(r, p, q) : r \in {s \in u.marks : Within(p, s) /\ p # s}}
      /\ \A r \in Places : w.node[r] # "absent" =>
           \/ \E s \in Paths : Within(p, s) /\ r = Moved(s, p, q) /\ w.node[r] = u.node[s]
           \/ ~Within(p, r) /\ w.node[r] = u.node[r] /\ \A s \in Paths : Within(p, s) => r # Moved(s, p, q)
  BY <1>1, UprightIs, ShiftedIs
<1> HIDE DEF w
<1>3. p \in Places /\ q \in Places /\ IsTree(u.node) /\ \A m \in u.marks : m \in Places
  BY <1>1, UprightIs, PlacesAre
<1>4. \A r \in Places : Within(q, r) /\ r # q => u.node[r] = "absent"
  BY <1>1, NothingBelow DEF Movable
<1> SUFFICES ASSUME NEW r \in Places, w.node[r] = "dir", lower[r] \in Contents PROVE whitedOut(w, r)
  BY DEF Hides, w
<1>5. CASE ~Within(p, r) /\ u.node[r] = "dir"
  <2>1. PICK m \in u.marks : Within(m, r)
    BY <1>1, <1>5 DEF Hides, whitedOut
  <2>2. ~(Within(p, m) /\ p # m)
    BY <1>3, <1>5, <2>1, WithinOrder
  <2>3. m \in w.marks
    BY <1>2, <2>1, <2>2
  <2> QED BY <2>1, <2>3 DEF whitedOut
<1>6. CASE \E s \in Paths : Within(p, s) /\ r = Moved(s, p, q) /\ w.node[r] = u.node[s]
  <2>1. PICK s \in Paths : Within(p, s) /\ r = Moved(s, p, q) /\ w.node[r] = u.node[s]
    BY <1>6
  <2>2. s \in Places /\ u.node[s] = "dir" /\ Within(q, r)
    BY <2>1, MovedIs, PlacesAre
  \* p is a directory, so nothing q stands for is in the lower layer alone.
  <2>3. u.node[p] = "dir"
    <3>1. s = p \/ u.node[p] = "dir"
      BY <1>3, <2>1, <2>2, AboveIsDir
    <3> QED BY <2>2, <3>1
  <2>4. \A t \in Paths : Within(q, t) => ~LowerOnly(t)
    <3>1. Seen(upper, p) = "dir"
      BY <1>1, <1>3, <2>3
    <3> QED BY <3>1 DEF RenameTarget, Strict
  <2>5. r \in Paths
    <3>1. r # Root
      BY <2>1, MovedIs, PlacesAre
    <3> QED BY <3>1, PlacesAre
  <2>6. upper.node[r] # "absent" \/ Seen(upper, r) = "absent"
    BY <2>2, <2>4, <2>5 DEF LowerOnly
  <2>7. whitedOut(upper, r)
    <3>1. CASE upper.node[r] # "absent"
      <4>1. u.node[r] # "absent"
        BY <1>1, <3>1
      <4>2. r = q
        BY <1>4, <2>2, <4>1
      <4>3. u.node[q] = "dir"
        BY <2>3, <4>1, <4>2 DEF Movable
      <4>4. upper.node[r] = "dir"
        BY <1>1, <1>3, <3>1, <4>2, <4>3
      <4> QED BY <1>1, <4>4 DEF Hides
    <3>2. CASE upper.node[r] = "absent" /\ Seen(upper, r) = "absent"
      <4>1. ~Blocked(upper, r)
        <5> SUFFICES ASSUME NEW t \in Paths, Within(t, r), t # r, upper.node[t] \in Contents PROVE FALSE
          BY DEF Blocked
        <5>1. t \in Places /\ u.node[t] = upper.node[t]
          BY <1>1, NodesDiffer, PlacesAre
        <5>2. Within(t, q)
          <6>1. Within(t, q) \/ Within(q, t)
            BY <1>3, <2>2, <5>1, WithinOrder
          <6>2. Within(q, t) => t = q
            BY <1>4, <5>1, NodesDiffer
          <6> QED BY <1>3, <6>1, <6>2, WithinOrder
        <5>3. t # q
          BY <2>3, <5>1, NodesDiffer DEF Movable
        <5>4. Within(t, parentName(q)) /\ parentName(q) \in Places
          BY <5>1, <5>2, <5>3, ParentIs
        <5>5. u.node[t] = "dir"
          <6>1. u.node[parentName(q)] = "dir"
            BY DEF Movable
          <6> QED BY <1>3, <5>1, <5>4, <6>1, AboveIsDir
        <5> QED BY <5>1, <5>5, NodesDiffer
      <4> QED BY <1>1, <3>2, <4>1, SeenIs, NodesDiffer
    <3> QED BY <2>6, <3>1, <3>2
  <2>8. PICK m \in u.marks : Within(m, r)
    BY <1>1, <2>7 DEF whitedOut
  <2>9. Within(m, q)
    <3>1. Within(m, q) \/ Within(q, m)
      BY <1>3, <2>2, <2>8, WithinOrder
    <3>2. Within(q, m) => m = q
      BY <1>1, <2>8, NothingBelow DEF Movable
    <3> QED BY <1>3, <3>1, <3>2, WithinOrder
  <2>10. ~Within(p, m)
    BY <1>3, <2>9, WithinOrder DEF Movable
  <2>11. m \in w.marks
    BY <1>2, <2>10
  <2> QED BY <2>8, <2>11 DEF whitedOut
<1>7. CASE ~Within(p, r) /\ w.node[r] = u.node[r]
  BY <1>5, <1>7
<1> QED BY <1>2, <1>6, <1>7

\* An upright upper layer is one.
LEMMA ShiftedIsUpper ==
  ASSUME NEW u \in Uppers, NEW p \in Paths, NEW q \in Paths, Upright(Shifted(u, p, q))
  PROVE  Shifted(u, p, q) \in Uppers
  BY DEF Upright

\* A rename up to the move.
RenameCopied(p, q) == materializeParents(copyUpTree(Require(Begin, Seen(upper, p) # "absent"), p), q)
RenameAllowed(p, q) ==
  Require(RenameCopied(p, q),
          /\ ~Within(p, q)
          /\ RenameCopied(p, q).now.node[q] # "absent"
               => (RenameCopied(p, q).now.node[q] = "dir") = (RenameCopied(p, q).now.node[p] = "dir")
          /\ Bare(RenameCopied(p, q).now, q))

\* What a rename may move is copied up before it.
LEMMA RenameIs ==
  ASSUME Good(upper), lower \in Lowers, NEW p \in Paths, NEW q \in Paths
  PROVE  /\ Begin \in Runs /\ Upright(Begin.now) /\ Begin.now = upper
         /\ GoodRun(RenameAllowed(p, q)) /\ Lifts(Begin, RenameAllowed(p, q))
         /\ RenameAllowed(p, q).ok =>
              /\ Seen(upper, p) # "absent"
              /\ Movable(RenameAllowed(p, q).now, p, q)
              /\ RenameAllowed(p, q).now \in Lifted(upper)
              /\ \A s \in Listed(upper, p) : Seen(upper, s) # "absent" => RenameAllowed(p, q).now.node[s] # "absent"
<1> DEFINE there == Seen(upper, p) # "absent"
           asked == Require(Begin, there)
           tree == copyUpTree(asked, p)
           copied == RenameCopied(p, q)
           fits == /\ ~Within(p, q)
                   /\ copied.now.node[q] # "absent" => (copied.now.node[q] = "dir") = (copied.now.node[p] = "dir")
                   /\ Bare(copied.now, q)
           allowed == RenameAllowed(p, q)
<1>1. /\ Begin \in Runs /\ Upright(Begin.now) /\ Begin.now = upper /\ GoodRun(Begin)
      /\ p \in Places /\ q \in Places
  BY GoodBegin, PlacesAre DEF GoodRun, Good
<1>2. copied = materializeParents(tree, q) /\ allowed = Require(copied, fits)
  BY DEF RenameCopied, RenameAllowed
<1> HIDE DEF copied, allowed
<1>3. asked \in Runs /\ Lifts(Begin, asked) /\ asked.now = upper /\ (asked.ok => there)
  <2> HIDE DEF there
  <2> QED BY <1>1, LiftsRequire, RequireIs
<1> HIDE DEF asked
<1>4. /\ Lifts(asked, tree)
      /\ tree.ok => \A s \in Listed(upper, p) : Seen(upper, s) # "absent" => tree.now.node[s] # "absent"
  BY <1>1, <1>3, CopyTreeLifts
<1> HIDE DEF tree
<1>5. Lifts(Begin, tree) /\ tree \in Runs /\ Upright(tree.now) /\ (tree.ok => asked.ok)
  BY <1>1, <1>3, <1>4, LiftsTwice, LiftsIs DEF Lifts
<1>6. Lifts(tree, copied) /\ (copied.ok => copied.now.node[parentName(q)] = "dir")
  BY <1>2, <1>5, ParentsLift
<1>7. Lifts(Begin, copied) /\ copied \in Runs /\ Upright(copied.now) /\ (copied.ok => tree.ok)
      /\ \A s \in Places : tree.now.node[s] # "absent" => copied.now.node[s] = tree.now.node[s]
  BY <1>1, <1>5, <1>6, LiftsTwice, LiftsIs DEF Lifts
<1>8. Lifts(copied, allowed) /\ allowed.now = copied.now /\ (allowed.ok => copied.ok /\ fits)
  <2> HIDE DEF fits
  <2> QED BY <1>2, <1>7, LiftsRequire, RequireIs
<1>9. Lifts(Begin, allowed)
  BY <1>1, <1>7, <1>8, LiftsTwice
<1>10. GoodRun(allowed)
  BY <1>1, <1>9, GoodLifts
<1>11. ASSUME allowed.ok, NEW s \in Listed(upper, p), Seen(upper, s) # "absent" PROVE allowed.now.node[s] # "absent"
  <2>1. tree.now.node[s] # "absent"
    BY <1>4, <1>7, <1>8, <1>11
  <2>2. s \in Places
    BY <1>11, PlacesAre DEF Listed
  <2> QED BY <1>7, <1>8, <2>1, <2>2
<1>12. ASSUME allowed.ok PROVE there /\ Movable(allowed.now, p, q) /\ allowed.now \in Lifted(upper)
  <2>1. there
    BY <1>3, <1>5, <1>7, <1>8, <1>12
  <2>2. p \in Listed(upper, p)
    <3>1. \A s \in Paths : Within(p, s) /\ Within(s, p) => p = s
      BY <1>1, WithinOrder, PlacesAre
    <3>2. Within(p, p)
      BY <1>1, WithinOrder
    <3> QED BY <3>1, <3>2 DEF Listed
  <2>3. allowed.now.node[p] # "absent"
    BY <1>11, <1>12, <2>1, <2>2
  <2>4. Movable(allowed.now, p, q)
    BY <1>6, <1>8, <1>12, <2>3 DEF Movable
  <2>5. allowed.now \in Lifted(upper)
    BY <1>1, <1>9 DEF Lifts
  <2> QED BY <2>1, <2>4, <2>5
<1> QED BY <1>1, <1>9, <1>10, <1>11, <1>12 DEF allowed

\* The move itself leaves the upper layer good.
LEMMA RenameMoves ==
  ASSUME Good(upper), lower \in Lowers, NEW p \in Paths, NEW q \in Paths, Fits(p, q), RenameTarget(p, q),
         RenameAllowed(p, q).ok
  PROVE  /\ Shifted(RenameAllowed(p, q).now, p, q) \in Uppers
         /\ Good(Shifted(RenameAllowed(p, q).now, p, q))
<1> DEFINE u == RenameAllowed(p, q).now
<1>1. u \in Lifted(upper) /\ Movable(u, p, q) /\ Seen(upper, p) # "absent" /\ Upright(upper)
  BY RenameIs DEF Good
<1> HIDE DEF u
<1>2. Upright(u) /\ u.marks = upper.marks /\ u \in Uppers
  BY <1>1, LiftedIs, UprightIs
<1>3. \A s \in u.marks : Within(p, s) => Moved(s, p, q) \in Paths
  BY <1>2 DEF Fits, Uppers
<1>4. Upright(Shifted(u, p, q))
  BY <1>1, <1>2, <1>3, ShiftedUpright
<1>5. Strict => Hides(Shifted(u, p, q))
  BY <1>1, ShiftedHides
<1> QED BY <1>2, <1>4, <1>5, ShiftedIsUpper DEF Good, u

\* Rename.
LEMMA GoodRename ==
  ASSUME Good(upper), lower \in Lowers, NEW p \in Paths, NEW q \in Paths, Fits(p, q), RenameTarget(p, q)
  PROVE  GoodRun(RenameRun(p, q))
<1> DEFINE allowed == RenameAllowed(p, q)
           v == Shifted(allowed.now, p, q)
           moved == IF allowed.ok THEN Do(allowed, v) ELSE allowed
           hidden == hideLower(moved, p)
<1>1. RenameRun(p, q) = IF hidden.now.node[q] \in Contents THEN clearWhiteout(hidden, q) ELSE hidden
  BY DEF RenameRun, RenameAllowed, RenameCopied
<1>2. GoodRun(allowed)
  BY RenameIs
<1>3. allowed.ok => v \in Uppers /\ Good(v)
  BY RenameMoves
<1> HIDE DEF allowed, v
<1>4. GoodRun(moved)
  BY <1>2, <1>3, GoodDo
<1> HIDE DEF moved
<1>5. GoodRun(hidden)
  BY <1>4, GoodWhiteout
<1> HIDE DEF hidden
<1>6. hidden.now.node[q] \in Contents => GoodRun(clearWhiteout(hidden, q))
  BY <1>5, GoodClear, NodesDiffer
<1> QED BY <1>1, <1>5, <1>6

-----------------------------------------------------------------------------
(* The invariant, and what follows from it.                                *)

\* The trees of FileTree are the trees of these proofs.
LEMMA TreesAre == Tree!Trees = {t \in [Places -> Nodes] : IsTree(t)}
<1>1. Tree!Places = Places /\ Tree!Nodes = Nodes /\ Tree!Root = Root /\ \A p : Tree!Parent(p) = parentName(p)
  BY DEF Tree!Places, Tree!Nodes, Tree!Root, Tree!Parent, Places, Nodes, Root, parentName
<1> QED BY <1>1 DEF Tree!Trees, IsTree

\* A listing names what can be seen.
LEMMA ListingIs ==
  ASSUME Strict, NEW u, Good(u), lower \in Lowers, NEW p \in Places, Seen(u, p) = "dir"
  PROVE  ~ReadDirFails(u, p) /\ ReadDir(u, p) = {q \in Children(p) : Seen(u, q) # "absent"}
<1>1. Upright(u) /\ Hides(u) /\ IsTree(u.node) /\ Early = {}
  BY UprightIs DEF Good, Strict
<1>2. ~Blocked(u, p) /\ u.node[p] \notin Contents
  BY <1>1, NodesDiffer, SeenIs DEF Seen
<1>3. ~whitedOut(u, p) => lower[p] \notin Contents
  <2>1. CASE u.node[p] = "dir"
    BY <1>1, <2>1 DEF Hides
  <2>2. CASE u.node[p] # "dir"
    BY <1>1, <2>2, NodesDiffer, SeenIs
  <2> QED BY <2>1, <2>2
<1>4. ASSUME NEW q \in Children(p) PROVE q \in ReadDir(u, p) <=> Seen(u, q) # "absent"
  <2>1. q \in Paths /\ q \in Places /\ parentName(q) = p
    BY PlacesAre DEF Children
  <2>2. ~Blocked(u, q)
    <3> SUFFICES ASSUME NEW s \in Paths, Within(s, q), s # q, u.node[s] \in Contents PROVE FALSE
      BY DEF Blocked
    <3>1. s \in Places /\ Within(s, p)
      BY <2>1, ParentIs, PlacesAre
    <3> QED BY <1>2, <3>1 DEF Blocked
  <2>3. q \in u.marks => whitedOut(u, q)
    BY <2>1, WithinOrder DEF whitedOut
  <2>4. u.node[q] = "absent" => Seen(u, q) = IF whitedOut(u, q) THEN "absent" ELSE lower[q]
    BY <1>1, <2>1, <2>2, SeenIs
  <2>5. u.node[q] # "absent" => Seen(u, q) = u.node[q]
    BY <1>1, <2>1, SeenIs
  <2> QED BY <1>1, <2>3, <2>4, <2>5 DEF ReadDir, visibleInLower
<1>5. ReadDir(u, p) \subseteq Children(p)
  BY DEF ReadDir
<1> QED BY <1>2, <1>3, <1>4, <1>5 DEF ReadDirFails

Ended == {"done", "failed", "torn"}

OverlayInv == lower \in Lowers /\ Good(upper) /\ outcome \in Ended

\* An empty upper layer is good.
LEMMA InitGood == ASSUME Init PROVE OverlayInv
<1>1. /\ lower \in Lowers /\ outcome \in Ended /\ upper.marks = {}
      /\ upper.node = [p \in Places |-> IF p = Root THEN "dir" ELSE "absent"]
      /\ upper = [node |-> upper.node, marks |-> upper.marks]
  BY DEF Init, Ended
<1>2. upper.node \in [Places -> Nodes]
  BY <1>1 DEF Nodes
<1>3. Root \in Places /\ \A p \in Paths : p \in Places /\ p # Root
  BY PlacesAre
<1>4. upper \in Uppers
  BY <1>1, <1>2 DEF Uppers
<1>5. upper.node[Root] = "dir" /\ \A p \in Paths : upper.node[p] = "absent"
  BY <1>1, <1>3
<1>6. Upright(upper)
  BY <1>1, <1>2, <1>4, <1>5 DEF Upright, IsTree
<1>7. Hides(upper)
  <2>1. \A p \in Places : upper.node[p] = "dir" => p = Root
    BY <1>1
  <2>2. lower[Root] = "dir"
    BY <1>1, LowerIsTree DEF IsTree
  <2> QED BY <2>1, <2>2, NodesDiffer DEF Hides
<1> QED BY <1>1, <1>6, <1>7 DEF OverlayInv, Good

\* A good run keeps the invariant, whether it is completed or torn.
LEMMA PerformGood ==
  ASSUME OverlayInv, NEW r, GoodRun(r), Perform(r)
  PROVE  OverlayInv'
<1>1. lower' = lower /\ outcome' \in Ended /\ upper' \in r.past \cup {r.now}
  BY DEF Perform, Ended
<1>2. \A u \in r.past \cup {r.now} : Upright(u) /\ (Strict => Hides(u))
  BY DEF GoodRun, Good
<1>3. Upright(upper')
  BY <1>1, <1>2
<1>4. Strict => Hides(upper')
  BY <1>1, <1>2
<1>5. Good(upper)'
  BY <1>1, <1>3, <1>4 DEF Good, Upright, Hides, IsTree, Uppers, whitedOut, Strict
<1> QED BY <1>1, <1>5 DEF OverlayInv

\* Every operation keeps the invariant.
LEMMA NextGood == ASSUME OverlayInv, Next PROVE OverlayInv'
<1>1. PICK p \in Paths :
        \/ CreateFile(p) \/ WriteFile(p) \/ AppendFile(p) \/ Mkdir(p) \/ MkdirAll(p)
        \/ Touch(p) \/ Remove(p) \/ RemoveAll(p)
        \/ \E q \in Paths : Rename(p, q)
  BY DEF Next
<1>2. Good(upper) /\ lower \in Lowers
  BY DEF OverlayInv
<1>3. CASE CreateFile(p)
  BY <1>2, <1>3, GoodCreateFile, PerformGood DEF CreateFile
<1>4. CASE WriteFile(p)
  BY <1>2, <1>4, GoodWriteFile, PerformGood DEF WriteFile
<1>5. CASE AppendFile(p)
  BY <1>2, <1>5, GoodAppendFile, PerformGood DEF AppendFile
<1>6. CASE Mkdir(p)
  BY <1>2, <1>6, GoodMkdir, PerformGood DEF Mkdir
<1>7. CASE MkdirAll(p)
  BY <1>2, <1>7, GoodMkdirAll, PerformGood DEF MkdirAll
<1>8. CASE Touch(p)
  BY <1>2, <1>8, GoodTouch, PerformGood DEF Touch
<1>9. CASE Remove(p)
  BY <1>2, <1>9, GoodRemove, PerformGood DEF Remove
<1>10. CASE RemoveAll(p)
  BY <1>2, <1>10, GoodRemoveAll, PerformGood DEF RemoveAll
<1>11. CASE \E q \in Paths : Rename(p, q)
  <2>1. PICK q \in Paths : Rename(p, q)
    BY <1>11
  <2> QED BY <1>2, <2>1, GoodRename, PerformGood DEF Rename
<1> QED BY <1>1, <1>3, <1>4, <1>5, <1>6, <1>7, <1>8, <1>9, <1>10, <1>11

\* Overlay.OverlayInvariant: whatever operations are done, failed or torn at any
\* call, the upper layer stays a tree with every marker in one of its
\* directories; and under the hypotheses of Strict a directory never comes to
\* lie over a lower file that no marker hides.
THEOREM OverlayInvariant == Spec => []OverlayInv
<1>1. Init => OverlayInv
  BY InitGood
<1>2. OverlayInv /\ [Next]_vars => OverlayInv'
  <2> SUFFICES ASSUME OverlayInv, [Next]_vars PROVE OverlayInv'
    OBVIOUS
  <2>1. CASE Next
    BY <2>1, NextGood
  <2>2. CASE UNCHANGED vars
    <3>1. lower' = lower /\ upper' = upper /\ outcome' = outcome
      BY <2>2 DEF vars
    <3> QED BY <3>1 DEF OverlayInv, Good, Upright, Hides, IsTree, Uppers, whitedOut, Strict
  <2> QED BY <2>1, <2>2
<1> QED BY <1>1, <1>2, PTL DEF Spec

\* What is seen over a good upper layer is a tree.
LEMMA ViewTree == ASSUME OverlayInv PROVE ViewIsTree
<1>1. Upright(upper) /\ lower \in Lowers /\ Root \in Places
  BY PlacesAre DEF OverlayInv, Good
<1>2. \A p \in Places : Seen(upper, p) \in Nodes
  BY <1>1, SeenIsNode
<1>3. Seen(upper, Root) = "dir"
  BY <1>1, SeenIsNode
<1>4. \A p \in Paths : p \in Places /\ parentName(p) \in Places
  BY PlacesAre
<1>5. \A p \in Paths : Seen(upper, p) # "absent" => Seen(upper, parentName(p)) = "dir"
  BY <1>1, SeenIsTree
<1>6. view \in [Places -> Nodes] /\ \A p \in Places : view[p] = Seen(upper, p)
  BY <1>2 DEF view
<1> HIDE DEF view
<1>7. IsTree(view)
  BY <1>1, <1>3, <1>4, <1>5, <1>6 DEF IsTree
<1> QED BY <1>6, <1>7, TreesAre DEF ViewIsTree

\* The upper layer is a tree of its own, so a persisted one can be opened again.
THEOREM OverlayTypeOK == Spec => []TypeOK
<1>1. OverlayInv => TypeOK
  BY UprightIs, TreesAre DEF OverlayInv, Good, Upright, Uppers, TypeOK, Ended
<1> QED BY <1>1, OverlayInvariant, PTL

\* What commands see is a tree: nothing shows below a file or a missing directory.
THEOREM OverlayViewIsTree == Spec => []ViewIsTree
  BY ViewTree, OverlayInvariant, PTL

\* Listings and lookups agree over a good upper layer.
LEMMA ViewListing == ASSUME Strict, OverlayInv PROVE ListingMatches
<1>1. ViewIsTree
  BY ViewTree
<1>2. Good(upper) /\ lower \in Lowers
  BY DEF OverlayInv
<1>3. \A p \in Places : view[p] = Seen(upper, p)
  BY DEF view
<1>4. \A q \in Paths : q \in Places
  BY PlacesAre
<1> HIDE DEF view
<1>5. ASSUME NEW p \in Places, view[p] = "dir"
      PROVE  ~ReadDirFails(upper, p) /\ ReadDir(upper, p) = {q \in Children(p) : view[q] # "absent"}
  <2>1. Seen(upper, p) = "dir"
    BY <1>3, <1>5
  <2>2. ~ReadDirFails(upper, p) /\ ReadDir(upper, p) = {q \in Children(p) : Seen(upper, q) # "absent"}
    BY <1>2, <2>1, ListingIs
  <2>3. \A q \in Children(p) : view[q] = Seen(upper, q)
    BY <1>3, <1>4 DEF Children
  <2> QED BY <2>2, <2>3
<1> QED BY <1>1, <1>5 DEF ListingMatches

\* Walking the listings (ReadDir) and looking up by name (Stat) show one and
\* the same tree, after any operations, torn ones included.
THEOREM OverlayListings ==
  ASSUME Early = {}, DirTargets = FALSE
  PROVE  Spec => []ListingMatches
<1>1. OverlayInv => ListingMatches
  BY ViewListing DEF Strict
<1> QED BY <1>1, OverlayInvariant, PTL

-----------------------------------------------------------------------------
(* What is seen while an operation runs, and after it.                     *)

Same(u, v) == \A s \in Places : Seen(u, s) = Seen(v, s)

\* What TornReadsOldNewOrLower says of one run, and what a run that fails promises.
Torn(r) == \A u \in r.past : \A s \in Paths : Seen(u, s) \in {Seen(upper, s), Seen(r.now, s), lower[s]}
Kept(r) == ~r.ok => Same(r.now, upper)

\* What is seen at s depends on what is on the way to s.
LEMMA SeenOnTheWay ==
  ASSUME NEW u, NEW v, NEW s \in Places, \A t \in Places : Within(t, s) => u.node[t] = v.node[t],
         whitedOut(u, s) <=> whitedOut(v, s)
  PROVE  Seen(u, s) = Seen(v, s)
<1>1. u.node[s] = v.node[s]
  BY WithinOrder
<1>2. Blocked(u, s) <=> Blocked(v, s)
  BY PlacesAre DEF Blocked
<1> QED BY <1>1, <1>2 DEF Seen

\* Putting an entry at p changes nothing outside of p.
LEMMA PutSeesElsewhere ==
  ASSUME NEW u \in Uppers, NEW p \in Paths, NEW c \in Nodes, NEW s \in Places, ~Within(p, s)
  PROVE  Seen(Put(u, p, c), s) = Seen(u, s)
<1> DEFINE v == Put(u, p, c)
<1>1. v.marks = u.marks /\ \A q \in Places : q # p => v.node[q] = u.node[q]
  BY PutIs, PlacesAre
<1> HIDE DEF v
<1>2. \A t \in Places : Within(t, s) => v.node[t] = u.node[t]
  BY <1>1
<1>3. whitedOut(v, s) <=> whitedOut(u, s)
  BY <1>1 DEF whitedOut
<1>4. Seen(v, s) = Seen(u, s)
  BY <1>2, <1>3, SeenOnTheWay
<1> QED BY <1>4 DEF v

\* Markers that are dropped show nothing outside of where they were.
LEMMA UnmarkedSeesElsewhere ==
  ASSUME NEW u, NEW v, v.node = u.node, v.marks \subseteq u.marks, NEW s \in Places,
         \A m \in u.marks \ v.marks : ~Within(m, s)
  PROVE  Seen(v, s) = Seen(u, s)
<1>1. whitedOut(v, s) <=> whitedOut(u, s)
  BY DEF whitedOut
<1> QED BY <1>1, SeenOnTheWay

\* A directory made where nothing was seen is all that changes.
LEMMA PutDirSees ==
  ASSUME NEW u, Upright(u), lower \in Lowers, NEW p \in Paths, u.node[parentName(p)] = "dir", Seen(u, p) = "absent",
         NEW s \in Places
  PROVE  Seen(Put(u, p, "dir"), s) = IF s = p THEN "dir" ELSE Seen(u, s)
<1> DEFINE v == Put(u, p, "dir")
<1>1. /\ p \in Places /\ "dir" \in Nodes /\ "dir" \in Nodes \ {"absent"} /\ u \in Uppers /\ ~Blocked(u, p)
      /\ u.node[p] = "absent"
  BY UprightIs, PlacesAre, SeenIs, NothingBlocks DEF Nodes
<1>2. v \in Uppers /\ v.marks = u.marks /\ v.node[p] = "dir" /\ \A q \in Places : q # p => v.node[q] = u.node[q]
  BY <1>1, PutIs
<1>3. Upright(v)
  BY <1>1, PutUpright
<1>4. ~Within(p, s) => Seen(v, s) = Seen(u, s)
  BY <1>1, PutSeesElsewhere
<1> HIDE DEF v
<1>5. CASE s = p
  <2>1. Seen(v, p) = "dir"
    BY <1>1, <1>2, <1>3, SeenIs
  <2> QED BY <1>5, <2>1 DEF v
<1>6. CASE Within(p, s) /\ s # p
  <2>1. v.node[s] = "absent" /\ u.node[s] = "absent"
    BY <1>1, <1>2, <1>6, AboveIsDir, UprightIs
  <2>2. whitedOut(u, p) \/ lower[p] = "absent"
    BY <1>1, SeenIs
  <2>3. whitedOut(u, s) \/ lower[s] = "absent"
    BY <1>1, <1>6, <2>2, MarkHidesBelow, AboveIsDir, LowerIsTree
  <2>4. whitedOut(v, s) \/ lower[s] = "absent"
    BY <1>2, <2>3 DEF whitedOut
  <2>5. Seen(v, s) = "absent" /\ Seen(u, s) = "absent"
    BY <2>1, <2>3, <2>4 DEF Seen
  <2> QED BY <1>6, <2>5 DEF v
<1>7. p = s => Within(p, s)
  BY <1>1, WithinOrder
<1> QED BY <1>4, <1>5, <1>6, <1>7 DEF v

\* A file put into a directory is seen, and nothing below it.
LEMMA PutFileSees ==
  ASSUME NEW u, Upright(u), lower \in Lowers, NEW p \in Paths, u.node[parentName(p)] = "dir", u.node[p] # "dir",
         NEW c \in Contents, NEW s \in Places
  PROVE  /\ Seen(Put(u, p, c), s) = IF s = p THEN c ELSE IF Within(p, s) THEN "absent" ELSE Seen(u, s)
         /\ Seen(Unmarked(Put(u, p, c), p), s) = Seen(Put(u, p, c), s)
<1> DEFINE v == Put(u, p, c)
           w == Unmarked(v, p)
<1>1. p \in Places /\ c \in Nodes /\ c \in Nodes \ {"absent"} /\ u \in Uppers
  BY UprightIs, PlacesAre, NodesDiffer DEF Nodes
<1>2. v \in Uppers /\ v.node[p] = c
  BY <1>1, PutIs
<1>3. Upright(v)
  BY <1>1, PutUpright
<1>4. ~Within(p, s) => Seen(v, s) = Seen(u, s)
  BY <1>1, PutSeesElsewhere
<1> HIDE DEF v
<1>5. w.node = v.node /\ w.marks = v.marks \ {p}
  BY DEF Unmarked
<1> HIDE DEF w
<1>6. ~Blocked(v, p) /\ Seen(v, p) = c
  BY <1>1, <1>2, <1>3, NodesDiffer, NothingBlocks, SeenIs
<1>7. CASE s = p
  <2>1. ~Blocked(w, p)
    BY <1>5, <1>6 DEF Blocked
  <2>2. Seen(w, p) = c
    BY <1>2, <1>5, <2>1, NodesDiffer DEF Seen
  <2> QED BY <1>6, <1>7, <2>2 DEF w, v
<1>8. CASE Within(p, s) /\ s # p
  <2>1. Blocked(v, s) /\ Blocked(w, s)
    BY <1>2, <1>5, <1>8 DEF Blocked
  <2>2. Seen(v, s) = "absent" /\ Seen(w, s) = "absent"
    BY <2>1 DEF Seen
  <2> QED BY <1>8, <2>2 DEF w, v
<1>9. CASE ~Within(p, s)
  <2>1. Seen(w, s) = Seen(v, s) /\ s # p
    <3>1. Seen(w, s) = Seen(v, s)
      BY <1>5, <1>9, UnmarkedSeesElsewhere
    <3>2. Within(p, p)
      BY <1>1, WithinOrder
    <3> QED BY <1>9, <3>1, <3>2
  <2> QED BY <1>4, <1>9, <2>1 DEF w, v
<1> QED BY <1>7, <1>8, <1>9

\* A run of copy-ups alone shows the same all the way.
LEMMA LiftsTorn ==
  ASSUME Good(upper), lower \in Lowers, NEW m, Lifts(Begin, m)
  PROVE  /\ Torn(m) /\ Kept(m) /\ Same(m.now, upper) /\ m \in Runs /\ Upright(m.now)
         /\ \A u \in m.past : Same(u, upper)
<1>1. Begin \in Runs /\ Upright(upper) /\ Upright(Begin.now) /\ Begin.now = upper /\ Begin.past = {}
  BY GoodBegin DEF GoodRun, Good
<1>2. m \in Runs /\ Upright(m.now) /\ Same(m.now, upper)
  BY <1>1, LiftsIs DEF Same
<1>3. \A u \in m.past : Same(u, upper)
  BY <1>1, LiftedSees DEF Same, Lifts
<1>4. Torn(m)
  BY <1>3, PlacesAre DEF Same, Torn
<1> QED BY <1>2, <1>3, <1>4 DEF Kept

\* A file is written once the way to it is there.
LEMMA WrittenSees ==
  ASSUME Good(upper), lower \in Lowers, NEW p \in Paths, NEW c \in Contents, NEW w, Lifts(Begin, w),
         w.ok => w.now.node[parentName(p)] = "dir" /\ w.now.node[p] # "dir",
         NEW d, d = clearWhiteout(Do(w, Put(w.now, p, c)), p)
  PROVE  /\ Torn(d) /\ Kept(d) /\ d.ok = w.ok
         /\ d.ok => \A s \in Places :
              Seen(d.now, s) = IF s = p THEN c ELSE IF Within(p, s) THEN "absent" ELSE Seen(upper, s)
<1> DEFINE v == Put(w.now, p, c)
           x == Do(w, v)
<1>1. /\ Torn(w) /\ Kept(w) /\ Same(w.now, upper) /\ w \in Runs /\ Upright(w.now)
      /\ \A u \in w.past : Same(u, upper)
  BY LiftsTorn
<1>2. w.now \in Uppers /\ p \in Places /\ c \in Nodes
  BY <1>1, PlacesAre DEF Runs, Nodes
<1>3. v \in Uppers
  BY <1>2, PutIs
<1>4. w.ok => \A s \in Places :
        /\ Seen(v, s) = IF s = p THEN c ELSE IF Within(p, s) THEN "absent" ELSE Seen(w.now, s)
        /\ Seen(Unmarked(v, p), s) = Seen(v, s)
  BY <1>1, PutFileSees
<1> HIDE DEF v
<1>5. /\ x \in Runs /\ x.ok = w.ok /\ (w.ok => x.now = v) /\ (~w.ok => x = w)
      /\ x.past \subseteq w.past \cup {w.now}
  BY <1>1, <1>3, DoIs
<1>6. d = clearWhiteout(x, p)
  BY DEF v
<1> HIDE DEF x
<1>7. /\ d.ok = x.ok /\ (~x.ok => d = x) /\ d.past \subseteq x.past \cup {x.now}
      /\ x.ok => d.now = [node |-> x.now.node, marks |-> x.now.marks \ {p}]
  BY <1>5, <1>6, ClearIs
<1>8. CASE ~w.ok
  <2>1. d = w
    BY <1>5, <1>7, <1>8
  <2> QED BY <1>1, <1>8, <2>1
<1>9. CASE w.ok
  <2>1. d.now = Unmarked(v, p) /\ d.ok = w.ok /\ d.past \subseteq w.past \cup {w.now, v}
    BY <1>5, <1>7, <1>9 DEF Unmarked
  <2>2. \A s \in Places : Seen(d.now, s) = IF s = p THEN c ELSE IF Within(p, s) THEN "absent" ELSE Seen(upper, s)
    BY <1>1, <1>4, <1>9, <2>1 DEF Same
  <2>3. \A u \in d.past : Same(u, upper) \/ Same(u, d.now)
    <3>1. Same(v, d.now)
      BY <1>4, <1>9, <2>1 DEF Same
    <3> QED BY <1>1, <2>1, <3>1
  <2>4. Torn(d)
    BY <2>3, PlacesAre DEF Torn, Same
  <2> QED BY <1>9, <2>1, <2>2, <2>4 DEF Kept
<1> QED BY <1>8, <1>9

View(u) == [p \in Places |-> Seen(u, p)]

\* What is seen over an upright upper layer is a tree.
LEMMA ViewIs == ASSUME NEW u, Upright(u), lower \in Lowers PROVE IsTree(View(u))
<1>1. \A p \in Places : Seen(u, p) \in Nodes
  BY SeenIsNode
<1>2. Seen(u, Root) = "dir" /\ Root \in Places
  BY SeenIsNode, PlacesAre
<1>3. \A p \in Paths : p \in Places /\ parentName(p) \in Places
  BY PlacesAre
<1>4. \A p \in Paths : Seen(u, p) # "absent" => Seen(u, parentName(p)) = "dir"
  BY SeenIsTree
<1> QED BY <1>1, <1>2, <1>3, <1>4 DEF IsTree, View

\* What is seen lies in directories that are seen.
LEMMA SeenAbove ==
  ASSUME NEW u, Upright(u), lower \in Lowers, NEW p \in Places, NEW s \in Places, Within(p, s), s # p,
         Seen(u, s) # "absent"
  PROVE  Seen(u, p) = "dir"
<1>1. IsTree(View(u)) /\ View(u)[s] = Seen(u, s) /\ View(u)[p] = Seen(u, p)
  BY ViewIs DEF View
<1>2. View(u)[s] # "absent"
  BY <1>1
<1>3. View(u)[p] = "dir"
  BY <1>1, <1>2, AboveIsDir
<1> QED BY <1>1, <1>3

\* A file was written at p, or nothing was.
FileWritten(r, p, c) ==
  /\ Torn(r) /\ Kept(r)
  /\ r.ok => /\ Seen(upper, parentName(p)) = "dir" /\ Seen(upper, p) # "dir"
             /\ \A s \in Places : Seen(r.now, s) = IF s = p THEN c ELSE Seen(upper, s)

\* A file is put where a file may be, and its marker dropped.
LEMMA WrittenIs ==
  ASSUME Good(upper), lower \in Lowers, NEW p \in Paths, NEW c \in Contents, NEW w, Lifts(Begin, w),
         w.ok => w.now.node[parentName(p)] = "dir" /\ w.now.node[p] # "dir",
         w.ok => Seen(upper, p) # "dir",
         NEW d, d = clearWhiteout(Do(w, Put(w.now, p, c)), p)
  PROVE  FileWritten(d, p, c)
<1>1. Torn(d) /\ Kept(d) /\ d.ok = w.ok
  BY WrittenSees
<1>2. d.ok => \A s \in Places :
        Seen(d.now, s) = IF s = p THEN c ELSE IF Within(p, s) THEN "absent" ELSE Seen(upper, s)
  BY WrittenSees
<1>3. Same(w.now, upper) /\ Upright(w.now) /\ Upright(upper)
  BY LiftsTorn DEF Good
<1>4. p \in Places /\ parentName(p) \in Places
  BY PlacesAre
<1>5. d.ok => Seen(upper, parentName(p)) = "dir"
  <2>1. d.ok => Seen(w.now, parentName(p)) = "dir"
    BY <1>1, <1>3, <1>4, SeenIs
  <2> QED BY <1>3, <1>4, <2>1 DEF Same
<1>6. ASSUME d.ok, NEW s \in Places PROVE Seen(d.now, s) = IF s = p THEN c ELSE Seen(upper, s)
  <2>1. Within(p, s) /\ s # p => Seen(upper, s) = "absent"
    BY <1>1, <1>3, <1>4, <1>6, SeenAbove
  <2> QED BY <1>2, <1>6, <2>1
<1> QED BY <1>1, <1>5, <1>6 DEF FileWritten

\* A run begins with nothing copied.
LEMMA BeginLifts ==
  ASSUME Good(upper)
  PROVE  Begin \in Runs /\ Upright(Begin.now) /\ Begin.now = upper /\ GoodRun(Begin) /\ Lifts(Begin, Begin)
  BY GoodBegin, LiftsSelf DEF GoodRun, Good

\* CreateFile writes one file of the tree, or changes nothing.
LEMMA CreateFileSees ==
  ASSUME Good(upper), lower \in Lowers, NEW p \in Paths, NEW c \in Written
  PROVE  FileWritten(CreateFileRun(p, c), p, c)
<1> DEFINE r == materializeParents(Begin, p)
           free == Seen(r.now, p) = "absent"
           w == Require(r, free)
           d == CreateFileRun(p, c)
<1>1. d = clearWhiteout(Do(w, Put(w.now, p, c)), p)
  BY DEF CreateFileRun
<1>2. Lifts(Begin, r) /\ (r.ok => r.now.node[parentName(p)] = "dir") /\ c \in Contents /\ p \in Places
  BY BeginLifts, GoodParents, OverlayAssumption, PlacesAre
<1> HIDE DEF r, d
<1>3. r \in Runs /\ Upright(r.now) /\ Same(r.now, upper)
  BY <1>2, LiftsTorn
<1>4. Lifts(r, w) /\ w.now = r.now /\ (w.ok => r.ok /\ free)
  <2> HIDE DEF free
  <2> QED BY <1>3, LiftsRequire, RequireIs
<1>5. Lifts(Begin, w)
  BY <1>2, <1>4, BeginLifts, LiftsTwice
<1> HIDE DEF w
<1>6. w.ok => /\ w.now.node[parentName(p)] = "dir" /\ w.now.node[p] # "dir"
              /\ Seen(upper, p) # "dir"
  <2>1. Seen(r.now, p) = Seen(upper, p)
    BY <1>2, <1>3 DEF Same
  <2> QED BY <1>2, <1>3, <1>4, <2>1, SeenIs
<1>7. FileWritten(d, p, c)
  BY <1>1, <1>2, <1>5, <1>6, WrittenIs
<1> QED BY <1>7 DEF d

\* WriteFile does, where no lower directory is the target.
LEMMA WriteFileSees ==
  ASSUME Good(upper), lower \in Lowers, Strict, NEW p \in Paths, WriteTarget(p), NEW c \in Written
  PROVE  FileWritten(WriteFileRun(p, c), p, c)
<1> DEFINE r == materializeParents(Begin, p)
           free == r.now.node[p] # "dir"
           w == Require(r, free)
           d == WriteFileRun(p, c)
<1>1. d = clearWhiteout(Do(w, Put(w.now, p, c)), p)
  BY DEF WriteFileRun
<1>2. Lifts(Begin, r) /\ (r.ok => r.now.node[parentName(p)] = "dir") /\ c \in Contents /\ p \in Places
  BY BeginLifts, GoodParents, OverlayAssumption, PlacesAre
<1> HIDE DEF r, d
<1>3. r \in Runs /\ Upright(r.now) /\ Same(r.now, upper)
  BY <1>2, LiftsTorn
<1>4. Lifts(r, w) /\ w.now = r.now /\ (w.ok => r.ok /\ free)
  <2> HIDE DEF free
  <2> QED BY <1>3, LiftsRequire, RequireIs
<1>5. Lifts(Begin, w)
  BY <1>2, <1>4, BeginLifts, LiftsTwice
<1> HIDE DEF w
<1>6. w.ok => w.now.node[parentName(p)] = "dir" /\ w.now.node[p] # "dir"
  BY <1>2, <1>4
<1>7. ASSUME w.ok PROVE Seen(upper, p) # "dir"
  <2> SUFFICES ASSUME Seen(upper, p) = "dir" PROVE FALSE
    OBVIOUS
  <2>1. Upright(upper)
    BY DEF Good
  <2>2. upper.node[p] # "dir"
    <3>1. upper.node[p] # "absent" => r.now.node[p] = upper.node[p]
      BY <1>2, BeginLifts, LiftsIs
    <3> QED BY <1>4, <1>7, <3>1
  <2>3. upper.node[p] = "absent" /\ lower[p] = "dir"
    BY <1>2, <2>1, <2>2, SeenIs
  <2> QED BY <2>3 DEF WriteTarget, LowerOnly, Strict
<1>8. FileWritten(d, p, c)
  BY <1>1, <1>2, <1>5, <1>6, <1>7, WrittenIs
<1> QED BY <1>8 DEF d

\* AppendFile does, and what it appends to is what was seen.
LEMMA AppendFileSees ==
  ASSUME Good(upper), lower \in Lowers, NEW p \in Paths
  PROVE  FileWritten(AppendFileRun(p), p, Longer[Seen(upper, p)])
<1> DEFINE r == copyUp(materializeParents(Begin, p), p)
           free == r.now.node[p] # "dir"
           w == Require(r, free)
           c == Longer[w.now.node[p]]
           d == AppendFileRun(p)
<1>1. d = clearWhiteout(IF w.ok THEN Do(w, Put(w.now, p, c)) ELSE w, p)
  BY DEF AppendFileRun
<1>2. /\ Lifts(Begin, r) /\ (r.ok => r.now.node[parentName(p)] = "dir") /\ p \in Places
      /\ r.ok /\ Seen(upper, p) # "absent" => r.now.node[p] # "absent"
  BY GoodCopyUp, PlacesAre
<1> HIDE DEF r, d
<1>3. r \in Runs /\ Upright(r.now) /\ Same(r.now, upper)
  BY <1>2, LiftsTorn
<1>4. Lifts(r, w) /\ w.now = r.now /\ (w.ok => r.ok /\ free) /\ w \in Runs
  <2> HIDE DEF free
  <2> QED BY <1>3, LiftsRequire, RequireIs
<1>5. Lifts(Begin, w)
  BY <1>2, <1>4, BeginLifts, LiftsTwice
<1> HIDE DEF w
<1>6. w.ok => w.now.node[p] = Seen(upper, p)
  <2>1. Seen(r.now, p) = Seen(upper, p)
    BY <1>2, <1>3 DEF Same
  <2> QED BY <1>2, <1>3, <1>4, <2>1, SeenIs
<1>7. CASE w.ok
  <2>1. w.now.node[p] \in Nodes /\ w.now.node[p] # "dir"
    BY <1>2, <1>3, <1>4, <1>7 DEF Runs, Uppers
  <2>2. c \in Contents
    BY <2>1, OverlayAssumption DEF Nodes
  <2>3. c = Longer[Seen(upper, p)]
    BY <1>6, <1>7
  <2> HIDE DEF c
  <2>4. d = clearWhiteout(Do(w, Put(w.now, p, c)), p)
    BY <1>1, <1>7
  <2>5. Seen(upper, p) # "dir"
    BY <1>6, <1>7, <2>1
  <2>6. FileWritten(d, p, c)
    BY <1>2, <1>4, <1>5, <2>1, <2>2, <2>4, <2>5, WrittenIs
  <2> QED BY <2>3, <2>6 DEF d
<1>8. CASE ~w.ok
  <2>1. d = w
    BY <1>1, <1>4, <1>8, ClearIs
  <2>2. Torn(w) /\ Kept(w)
    BY <1>5, LiftsTorn
  <2> QED BY <1>8, <2>1, <2>2 DEF FileWritten, d
<1> QED BY <1>7, <1>8

\* Mkdir makes one empty directory, or changes nothing.
LEMMA MkdirSees ==
  ASSUME Good(upper), lower \in Lowers, NEW p \in Paths
  PROVE  LET r == MkdirRun(p) IN
         /\ Torn(r) /\ Kept(r)
         /\ r.ok => /\ Seen(upper, parentName(p)) = "dir" /\ Seen(upper, p) = "absent"
                    /\ \A s \in Places : Seen(r.now, s) = IF s = p THEN "dir" ELSE Seen(upper, s)
<1> DEFINE r == materializeParents(Begin, p)
           free == Seen(r.now, p) = "absent"
           w == Require(r, free)
           v == Put(w.now, p, "dir")
           d == MkdirRun(p)
<1>1. d = Do(w, v)
  BY DEF MkdirRun
<1>2. Lifts(Begin, r) /\ (r.ok => r.now.node[parentName(p)] = "dir")
      /\ p \in Places /\ parentName(p) \in Places /\ "dir" \in Nodes
  BY BeginLifts, GoodParents, PlacesAre DEF Nodes
<1> HIDE DEF r, d
<1>3. r \in Runs /\ Upright(r.now) /\ Same(r.now, upper)
  BY <1>2, LiftsTorn
<1>4. Lifts(r, w) /\ w.now = r.now /\ (w.ok => r.ok /\ free)
  <2> HIDE DEF free
  <2> QED BY <1>3, LiftsRequire, RequireIs
<1>5. Lifts(Begin, w)
  BY <1>2, <1>4, BeginLifts, LiftsTwice
<1> HIDE DEF w
<1>6. w \in Runs /\ Torn(w) /\ Kept(w) /\ w.now \in Uppers /\ \A u \in w.past : Same(u, upper)
  BY <1>5, LiftsTorn DEF Runs
<1>7. v \in Uppers
  BY <1>2, <1>6, PutIs
<1>8. w.ok => \A s \in Places : Seen(v, s) = IF s = p THEN "dir" ELSE Seen(upper, s)
  <2>1. w.ok => \A s \in Places : Seen(v, s) = IF s = p THEN "dir" ELSE Seen(w.now, s)
    BY <1>2, <1>3, <1>4, PutDirSees
  <2> QED BY <1>3, <1>4, <2>1 DEF Same
<1> HIDE DEF v
<1>9. d.ok = w.ok /\ (w.ok => d.now = v) /\ (~w.ok => d = w) /\ d.past \subseteq w.past \cup {w.now}
  BY <1>1, <1>6, <1>7, DoIs
<1>10. \A u \in d.past : Same(u, upper)
  BY <1>3, <1>4, <1>6, <1>9
<1>11. Torn(d)
  BY <1>10, PlacesAre DEF Torn, Same
<1>12. Kept(d)
  BY <1>6, <1>9 DEF Kept
<1>13. d.ok => Seen(upper, parentName(p)) = "dir" /\ Seen(upper, p) = "absent"
  <2>1. Seen(r.now, p) = Seen(upper, p) /\ Seen(r.now, parentName(p)) = Seen(upper, parentName(p))
    BY <1>2, <1>3 DEF Same
  <2> QED BY <1>2, <1>3, <1>4, <1>9, <2>1, SeenIs
<1> QED BY <1>8, <1>9, <1>11, <1>12, <1>13 DEF d

\* Chmod and Chtimes change nothing that is modelled.
LEMMA TouchSees ==
  ASSUME Good(upper), lower \in Lowers, NEW p \in Paths
  PROVE  LET r == TouchRun(p) IN Torn(r) /\ Kept(r) /\ Same(r.now, upper)
<1> DEFINE r == copyUp(materializeParents(Begin, p), p)
           there == r.now.node[p] # "absent"
           w == Require(r, there)
<1>1. TouchRun(p) = w
  BY DEF TouchRun
<1>2. Lifts(Begin, r)
  BY GoodCopyUp
<1> HIDE DEF r, there
<1>3. r \in Runs /\ Upright(r.now)
  BY <1>2, LiftsTorn
<1>4. Lifts(Begin, w)
  BY <1>2, <1>3, BeginLifts, LiftsRequire, LiftsTwice
<1> QED BY <1>1, <1>4, LiftsTorn

\* The directories of W were made of what upper shows, along a run that reached r.
Making(r, W) ==
  /\ GoodRun(r)
  /\ r.ok => /\ \A s \in Places : Seen(r.now, s) = IF s \in W THEN "dir" ELSE Seen(upper, s)
             /\ \A s \in W : Seen(upper, s) \in {"dir", "absent"}
  /\ Kept(r)
  /\ \A u \in r.past, s \in Places : Seen(u, s) = Seen(upper, s) \/ (Seen(u, s) = "dir" /\ Seen(r.now, s) = "dir")

\* materializeDirs makes one more directory of the way.
LEMMA MadeSees ==
  ASSUME Good(upper), lower \in Lowers, NEW r, NEW W \in SUBSET Places, Making(r, W), NEW q \in Paths,
         r.ok => r.now.node[parentName(q)] = "dir",
         \A s \in W : Within(s, q) \/ Within(q, s)
  PROVE  Making(Made(r, q, TRUE), W \cup {q})
<1> DEFINE d == Made(r, q, TRUE)
           v == Put(r.now, q, "dir")
           z == W \cup {q}
<1>1. /\ r \in Runs /\ Good(r.now) /\ Upright(r.now) /\ q \in Places /\ "dir" \in Nodes /\ r.now \in Uppers
      /\ GoodRun(r) /\ Upright(upper)
  BY PlacesAre DEF Making, GoodRun, Good, Runs, Nodes
<1>2. GoodRun(d)
  BY <1>1, GoodMade
<1>3. v \in Uppers
  BY <1>1, PutIs
<1>4. CASE r.ok /\ Seen(r.now, q) \in {"dir", "absent"}
  <2>1. d = Do(r, v)
    BY <1>4 DEF Made
  <2>2. \A s \in Places : Seen(v, s) = IF s = q THEN "dir" ELSE Seen(r.now, s)
    <3>1. CASE Seen(r.now, q) = "dir"
      <4>1. v \in Lifted(r.now)
        BY <1>1, <1>4, <3>1, PutLifts
      <4> HIDE DEF v
      <4> QED BY <1>1, <3>1, <4>1, LiftedSees
    <3>2. CASE Seen(r.now, q) = "absent"
      BY <1>1, <1>4, <3>2, PutDirSees
    <3> QED BY <1>4, <3>1, <3>2
  <2> HIDE DEF v, d
  <2>3. d.now = v /\ d.ok = r.ok /\ d.past \subseteq r.past \cup {r.now}
    BY <1>1, <1>3, <1>4, <2>1, DoIs
  <2>4. \A s \in Places : Seen(d.now, s) = IF s \in z THEN "dir" ELSE Seen(upper, s)
    BY <1>4, <2>2, <2>3 DEF Making
  <2>5. Seen(upper, q) \in {"dir", "absent"}
    <3>1. CASE q \in W
      BY <1>4, <3>1 DEF Making
    <3>2. CASE q \notin W
      BY <1>1, <1>4, <3>2 DEF Making
    <3> QED BY <3>1, <3>2
  <2>6. \A s \in z : Seen(upper, s) \in {"dir", "absent"}
    BY <1>4, <2>5 DEF Making
  <2>7. ASSUME NEW u \in d.past, NEW s \in Places
        PROVE  Seen(u, s) = Seen(upper, s) \/ (Seen(u, s) = "dir" /\ Seen(d.now, s) = "dir")
    <3>1. Seen(r.now, s) = "dir" => Seen(d.now, s) = "dir"
      BY <2>2, <2>3
    <3>2. CASE u \in r.past
      BY <3>1, <3>2 DEF Making
    <3>3. CASE u = r.now
      <4>1. Seen(r.now, s) = "dir" \/ Seen(r.now, s) = Seen(upper, s)
        BY <1>4 DEF Making
      <4> QED BY <3>1, <3>3, <4>1
    <3> QED BY <2>3, <3>2, <3>3
  <2>8. Kept(d)
    BY <1>4, <2>3 DEF Kept
  <2> QED BY <1>2, <2>4, <2>6, <2>7, <2>8 DEF Making, d
<1>5. CASE r.ok /\ Seen(r.now, q) \notin {"dir", "absent"}
  <2>1. d = Fail(r)
    BY <1>5 DEF Made
  <2> HIDE DEF d
  <2>2. d.now = r.now /\ d.past = r.past /\ d.ok = FALSE
    BY <1>1, <2>1, FailIs
  \* Nothing was made yet: a file cannot be below what was not there.
  <2>3. ASSUME NEW s \in W PROVE Seen(upper, s) = "dir"
    <3> SUFFICES ASSUME Seen(upper, s) = "absent" PROVE FALSE
      BY <1>5 DEF Making
    <3>1. s \in Places /\ Seen(r.now, s) = "dir"
      BY <1>5 DEF Making
    <3>2. s # q
      BY <1>5, <3>1
    <3>3. Within(s, q)
      <4> SUFFICES ASSUME Within(q, s) PROVE FALSE
        BY <2>3
      <4>1. Seen(r.now, q) = "dir"
        BY <1>1, <3>1, <3>2, SeenAbove
      <4> QED BY <1>5, <4>1
    <3>4. Seen(upper, q) = "absent"
      BY <1>1, <3>1, <3>2, <3>3, SeenAbove
    <3>5. Seen(r.now, q) \in {"dir", "absent"}
      BY <1>1, <1>5, <3>4 DEF Making
    <3> QED BY <1>5, <3>5
  <2>4. Same(r.now, upper)
    BY <1>5, <2>3 DEF Making, Same
  <2> QED BY <1>2, <2>2, <2>4 DEF Making, Kept, d
<1>6. CASE ~r.ok
  <2>1. d = r
    <3>1. d \in {Do(r, v), Fail(r)}
      BY DEF Made
    <3> HIDE DEF d, v
    <3>2. Do(r, v) = r /\ Fail(r) = r
      BY <1>1, <1>3, <1>6, DoIs, FailIs
    <3> QED BY <3>1, <3>2
  <2> HIDE DEF d
  <2> QED BY <1>6, <2>1 DEF Making, d
<1> QED BY <1>4, <1>5, <1>6

\* MkdirAll makes all directories of the way, or changes nothing that can be seen.
LEMMA MkdirAllSees ==
  ASSUME Good(upper), lower \in Lowers, NEW p \in Paths
  PROVE  LET r == MkdirAllRun(p) IN
         /\ Torn(r) /\ Kept(r)
         /\ r.ok => /\ \A s \in Paths : Within(s, p) => Seen(upper, s) \in {"dir", "absent"}
                    /\ \A s \in Places : Seen(r.now, s) = IF Within(s, p) THEN "dir" ELSE Seen(upper, s)
<1> DEFINE n == Len(p)
           way == Way(p)
           at(i) == IF i = 0 THEN Root ELSE way[i]
           W(i) == {at(j) : j \in 0 .. i}
<1>1. p \in Places /\ GoodRun(Begin) /\ Begin \in Runs /\ Begin.now = upper /\ Begin.past = {} /\ Upright(upper)
  BY PlacesAre, GoodBegin DEF GoodRun, Good
<1>2. PICK g \in [0 .. n -> Runs] :
        /\ g[0] = Begin
        /\ \A i \in 1 .. n : g[i] = Made(g[i - 1], way[i], TRUE)
        /\ MkdirAllRun(p) = g[n]
  BY <1>1, WalkIs DEF MkdirAllRun
<1>3. /\ n \in Nat
      /\ \A i \in 1 .. n : way[i] \in Paths /\ Within(way[i], p) /\ parentName(way[i]) = IF i = 1 THEN Root ELSE way[i - 1]
      /\ \A q \in Paths : Within(q, p) => \E i \in 1 .. n : way[i] = q
  BY <1>1, WayIs
<1> HIDE DEF n, way
<1>4. \A i \in 0 .. n : at(i) \in Places /\ Within(at(i), p)
  <2> SUFFICES ASSUME NEW i \in 0 .. n PROVE at(i) \in Places /\ Within(at(i), p)
    OBVIOUS
  <2>1. i = 0 \/ i \in 1 .. n
    BY <1>3
  <2> QED BY <1>1, <1>3, <2>1, PlacesAre, WithinOrder
<1> DEFINE T == {i \in 0 .. n : Making(g[i], W(i)) /\ (g[i].ok => g[i].now.node[at(i)] = "dir")}
<1>5. 0 \in T
  <2>1. 0 \in 0 .. n /\ W(0) = {Root} /\ at(0) = Root
    BY <1>3
  <2>2. upper.node[Root] = "dir" /\ Seen(upper, Root) = "dir"
    BY <1>1, UprightIs, SeenIsNode, PlacesAre DEF IsTree
  <2>3. Making(Begin, {Root})
    BY <1>1, <2>2 DEF Making, Kept, Same
  <2> HIDE DEF at, W
  <2> QED BY <1>1, <1>2, <2>1, <2>2, <2>3
<1>6. ASSUME NEW i \in 0 .. n - 1, i \in T PROVE i + 1 \in T
  <2>1. i + 1 \in 1 .. n /\ i + 1 \in 0 .. n /\ (i + 1) - 1 = i /\ at(i + 1) = way[i + 1] /\ i \in 0 .. n
    BY <1>3
  <2>2. parentName(way[i + 1]) = at(i)
    <3>1. i + 1 = 1 <=> i = 0
      BY <1>3
    <3> QED BY <1>3, <2>1, <3>1
  <2>a. W(i + 1) = W(i) \cup {way[i + 1]}
    <3>1. 0 .. i + 1 = (0 .. i) \cup {i + 1}
      BY <2>1
    <3> HIDE DEF at
    <3> QED BY <2>1, <3>1
  <2>b. W(i) \in SUBSET Places /\ \A s \in W(i) : Within(s, p)
    <3>1. \A j \in 0 .. i : j \in 0 .. n
      BY <1>3
    <3> HIDE DEF at
    <3> QED BY <1>4, <3>1
  <2> HIDE DEF at, W
  <2>3. Making(g[i], W(i)) /\ (g[i].ok => g[i].now.node[at(i)] = "dir")
    BY <1>6, <2>1
  <2>4. g[i + 1] = Made(g[i], way[i + 1], TRUE) /\ way[i + 1] \in Paths /\ way[i + 1] \in Places /\ Within(way[i + 1], p)
    BY <1>2, <1>3, <2>1, PlacesAre
  <2>5. \A s \in W(i) : Within(s, way[i + 1]) \/ Within(way[i + 1], s)
    BY <1>1, <2>b, <2>4, WithinOrder
  <2> DEFINE x == g[i]
             q == way[i + 1]
             w == W(i)
  <2>6. Making(x, w) /\ q \in Paths /\ w \in SUBSET Places /\ (x.ok => x.now.node[parentName(q)] = "dir")
        /\ (\A s \in w : Within(s, q) \/ Within(q, s)) /\ GoodRun(x)
    BY <2>2, <2>3, <2>4, <2>5, <2>b DEF Making
  <2> HIDE DEF x, q, w
  <2>7. Making(Made(x, q, TRUE), w \cup {q}) /\ (Made(x, q, TRUE).ok => Made(x, q, TRUE).now.node[q] = "dir")
    BY <2>6, MadeSees, GoodMade
  <2> QED BY <2>1, <2>4, <2>7, <2>a DEF x, q, w
<1>7. n \in T
  <2>1. \A i \in 0 .. n - 1 : i \in T => i + 1 \in T
    BY <1>6
  <2>2. 0 .. n \subseteq T
    <3> HIDE DEF T
    <3> QED BY <1>3, <1>5, <2>1, InductTo
  <2>3. n \in 0 .. n
    BY <1>3
  <2> HIDE DEF T
  <2> QED BY <2>2, <2>3
<1>8. \A s \in Places : s \in W(n) <=> Within(s, p)
  <2>1. \A s \in W(n) : Within(s, p)
    <3> HIDE DEF at
    <3> QED BY <1>4
  <2>2. ASSUME NEW s \in Places, Within(s, p) PROVE \E j \in 0 .. n : s = at(j)
    <3>1. CASE s = Root
      <4>1. 0 \in 0 .. n /\ at(0) = Root
        BY <1>3
      <4> QED BY <3>1, <4>1
    <3>2. CASE s # Root
      <4>1. PICK j \in 1 .. n : way[j] = s
        BY <1>3, <2>2, <3>2, PlacesAre
      <4>2. j \in 0 .. n /\ at(j) = s
        BY <4>1
      <4> HIDE DEF at
      <4> QED BY <4>2
    <3> QED BY <3>1, <3>2
  <2> QED BY <2>1, <2>2
<1>9. Making(g[n], W(n))
  <2> HIDE DEF W
  <2> QED BY <1>7
<1> HIDE DEF W, T
<1>10. Torn(g[n])
  BY <1>9, PlacesAre DEF Making, Torn
<1> QED BY <1>2, <1>8, <1>9, <1>10, PlacesAre DEF Making

\* In a tree, nothing is below a place without children.
LEMMA NothingBelowChildless ==
  ASSUME NEW t, IsTree(t), NEW q \in Paths, \A c \in Children(q) : t[c] = "absent",
         NEW r \in Places, Within(q, r), r # q
  PROVE  t[r] = "absent"
<1> SUFFICES ASSUME t[r] # "absent" PROVE FALSE
  OBVIOUS
<1> DEFINE c == SubSeq(r, 1, Len(q) + 1)
<1>1. /\ r \in Seq(Components) /\ Len(r) \in Nat /\ q \in Seq(Components) /\ Len(q) \in Nat
      /\ Len(q) <= Len(r) /\ SubSeq(r, 1, Len(q)) = q
  BY PlacesAre DEF Within
<1>2. Len(q) # Len(r)
  BY <1>1, SubSeqFull
<1>3. Len(q) + 1 \in 0 .. Len(r) /\ Len(q) + 1 > 0 /\ (Len(q) + 1) - 1 = Len(q)
  BY <1>1, <1>2
<1>4. c \in Paths /\ Within(c, r) /\ parentName(c) = SubSeq(r, 1, (Len(q) + 1) - 1)
  BY <1>3, BeginningIsPlace
<1>5. parentName(c) = q
  BY <1>1, <1>3, <1>4
<1> HIDE DEF c
<1>6. t[c] # "absent"
  <2>1. c = r \/ t[c] = "dir"
    BY <1>4, AboveIsDir, PlacesAre
  <2> QED BY <2>1
<1> QED BY <1>4, <1>5, <1>6 DEF Children

\* The directories above p are all that is copied, and they are when they can be seen.
LEMMA ParentsTouch ==
  ASSUME NEW r \in Runs, Upright(r.now), lower \in Lowers, NEW p \in Paths
  PROVE  LET m == materializeParents(r, p) IN
         /\ \A s \in Places : ~Within(s, parentName(p)) => m.now.node[s] = r.now.node[s]
         /\ r.ok /\ Seen(r.now, parentName(p)) = "dir" => m.ok
<1> DEFINE b == parentName(p)
           n == Len(b)
           way == Way(b)
           at(i) == IF i = 0 THEN Root ELSE way[i]
<1>1. b \in Places
  BY PlacesAre
<1>2. PICK g \in [0 .. n -> Runs] :
        /\ g[0] = r
        /\ \A i \in 1 .. n : g[i] = Made(g[i - 1], way[i], FALSE)
        /\ materializeParents(r, p) = g[n]
  BY <1>1, WalkIs
<1>3. /\ n \in Nat
      /\ \A i \in 1 .. n : way[i] \in Paths /\ Within(way[i], b) /\ parentName(way[i]) = IF i = 1 THEN Root ELSE way[i - 1]
  BY <1>1, WayIs
<1> HIDE DEF b, n, way
<1> DEFINE Touches(m) == /\ \A s \in Places : ~Within(s, b) => m.now.node[s] = r.now.node[s]
                         /\ r.ok /\ Seen(r.now, b) = "dir" => m.ok
           T == {i \in 0 .. n : Lifts(r, g[i]) /\ (g[i].ok => g[i].now.node[at(i)] = "dir") /\ Touches(g[i])}
<1>4. 0 \in T
  <2>1. 0 \in 0 .. n /\ at(0) = Root
    BY <1>3
  <2>2. r.now.node[Root] = "dir"
    BY UprightIs DEF IsTree
  <2>3. Touches(r)
    OBVIOUS
  <2> HIDE DEF at, Touches
  <2> QED BY <1>2, <2>1, <2>2, <2>3, LiftsSelf
<1>5. ASSUME NEW i \in 0 .. n - 1, i \in T PROVE i + 1 \in T
  <2>1. i + 1 \in 1 .. n /\ i + 1 \in 0 .. n /\ (i + 1) - 1 = i /\ at(i + 1) = way[i + 1] /\ i \in 0 .. n
    BY <1>3
  <2>2. parentName(way[i + 1]) = at(i)
    <3>1. i + 1 = 1 <=> i = 0
      BY <1>3
    <3> QED BY <1>3, <2>1, <3>1
  <2> DEFINE x == g[i]
             q == way[i + 1]
             y == g[i + 1]
             a == at(i)
  <2> HIDE DEF at
  <2>3. x \in Runs /\ Lifts(r, x) /\ (x.ok => x.now.node[a] = "dir") /\ Touches(x)
    <3> HIDE DEF Touches
    <3> QED BY <1>5, <2>1
  <2>4. y = Made(x, q, FALSE) /\ q \in Paths /\ q \in Places /\ Within(q, b) /\ parentName(q) = a
    BY <1>2, <1>3, <2>1, <2>2, PlacesAre
  <2> HIDE DEF x, y, q, a
  <2>5. Upright(x.now) /\ x.now \in Uppers /\ Seen(x.now, q) = Seen(r.now, q)
    BY <2>3, <2>4, LiftsIs, UprightIs
  <2>6. Lifts(x, y) /\ (y.ok => y.now.node[q] = "dir")
    BY <2>3, <2>4, <2>5, MadeLifts
  <2>7. Lifts(r, y)
    BY <2>3, <2>6, LiftsTwice
  <2> DEFINE v == Put(x.now, q, "dir")
  <2>8. "dir" \in Nodes /\ v \in Uppers /\ \A s \in Places : s # q => v.node[s] = x.now.node[s]
    BY <2>4, <2>5, PutIs DEF Nodes
  <2>9. y = IF Seen(x.now, q) = "dir" THEN Do(x, v) ELSE Fail(x)
    BY <2>4 DEF Made
  <2> HIDE DEF v
  <2>10. y.now = x.now \/ y.now = v
    <3>1. Do(x, v).now \in {x.now, v} /\ Fail(x).now = x.now
      <4>1. x \in Runs /\ v \in Uppers
        BY <2>3, <2>8
      <4>2. (x.ok => Do(x, v).now = v) /\ (~x.ok => Do(x, v) = x)
        BY <4>1, DoIs
      <4>3. Fail(x).now = x.now
        BY <4>1, FailIs
      <4> QED BY <4>2, <4>3
    <3> QED BY <2>9, <3>1
  <2>11. \A s \in Places : ~Within(s, b) => y.now.node[s] = r.now.node[s]
    BY <2>3, <2>4, <2>8, <2>10
  <2>12. ASSUME r.ok, Seen(r.now, b) = "dir" PROVE y.ok
    <3>1. x.ok
      BY <2>3, <2>12
    <3>2. Seen(r.now, q) = "dir"
      BY <1>1, <2>4, <2>12, SeenAbove DEF b
    <3> QED BY <2>3, <2>5, <2>8, <2>9, <3>1, <3>2, DoIs
  <2>13. Touches(y)
    BY <2>11, <2>12
  <2> HIDE DEF Touches
  <2> QED BY <2>1, <2>6, <2>7, <2>13 DEF y, q
<1>6. n \in T
  <2>1. \A i \in 0 .. n - 1 : i \in T => i + 1 \in T
    BY <1>5
  <2>2. 0 .. n \subseteq T
    <3> HIDE DEF T
    <3> QED BY <1>3, <1>4, <2>1, InductTo
  <2>3. n \in 0 .. n
    BY <1>3
  <2> HIDE DEF T
  <2> QED BY <2>2, <2>3
<1>7. Touches(g[n])
  <2> HIDE DEF Touches
  <2> QED BY <1>6
<1> QED BY <1>2, <1>7 DEF b

\* A run that failed hides nothing.
LEMMA NotOkStays ==
  ASSUME NEW r \in Runs, Upright(r.now), ~r.ok, lower \in Lowers, NEW p \in Paths
  PROVE  setWhiteout(r, p) = r /\ hideLower(r, p) = r
<1>1. Lifts(r, materializeParents(r, p))
  BY ParentsLift
<1>2. materializeParents(r, p) = r
  BY <1>1 DEF Lifts
<1>3. Marked(r.now, p) \in Uppers
  BY DEF Marked, Runs, Uppers
<1>4. setWhiteout(r, p) = Do(r, Marked(r.now, p))
  BY <1>2, WhiteoutIs
<1>5. setWhiteout(r, p) = r
  BY <1>3, <1>4, DoIs
<1> QED BY <1>5 DEF hideLower

\* Once the upper layer holds nothing of p, p is hidden for good.
LEMMA HideSees ==
  ASSUME NEW r \in Runs, Upright(r.now), r.ok, lower \in Lowers, NEW p \in Paths,
         \A s \in Places : Within(p, s) => r.now.node[s] = "absent",
         visibleInLower(r.now, p) => Seen(r.now, parentName(p)) = "dir",
         NEW h, h = hideLower(r, p)
  PROVE  /\ h \in Runs /\ h.ok /\ h.past \subseteq r.past \cup Lifted(r.now)
         /\ \A s \in Places : Seen(h.now, s) = IF Within(p, s) THEN "absent" ELSE Seen(r.now, s)
         /\ \A s \in Places : r.now.node[s] # "absent" => h.now.node[s] = r.now.node[s]
         /\ \A s \in Places : Within(p, s) => h.now.node[s] = "absent"
         /\ r.now.marks \subseteq h.now.marks /\ h.now.marks \subseteq r.now.marks \cup {p}
<1>1. p \in Places
  BY PlacesAre
<1>2. CASE ~visibleInLower(r.now, p)
  <2>1. h = r
    BY <1>2 DEF hideLower
  <2>2. ASSUME NEW s \in Places, Within(p, s) PROVE Seen(r.now, s) = "absent"
    <3>1. whitedOut(r.now, p) \/ lower[p] = "absent"
      BY <1>2 DEF visibleInLower
    <3>2. whitedOut(r.now, s) \/ lower[s] = "absent"
      BY <1>1, <2>2, <3>1, MarkHidesBelow, AboveIsDir, LowerIsTree
    <3> QED BY <2>2, <3>2 DEF Seen
  <2>3. r.now \in Lifted(r.now)
    BY LiftedIsSelf
  <2> QED BY <2>1, <2>2, <2>3
<1>3. CASE visibleInLower(r.now, p)
  <2> DEFINE m == materializeParents(r, p)
             v == Marked(m.now, p)
  <2>1. h = Do(m, v)
    BY <1>3, WhiteoutIs DEF hideLower
  <2>2. Lifts(r, m) /\ m.ok /\ \A s \in Places : ~Within(s, parentName(p)) => m.now.node[s] = r.now.node[s]
    BY <1>3, ParentsLift, ParentsTouch
  <2> HIDE DEF m
  <2>3. /\ m \in Runs /\ m.now.marks = r.now.marks /\ m.now \in Uppers /\ m.now \in Lifted(r.now)
        /\ m.past \subseteq r.past \cup Lifted(r.now)
        /\ \A s \in Places : Seen(m.now, s) = Seen(r.now, s)
        /\ \A s \in Places : r.now.node[s] # "absent" => m.now.node[s] = r.now.node[s]
    BY <2>2, LiftsIs, UprightIs DEF Lifts
  <2>4. v \in Uppers /\ v.node = m.now.node /\ v.marks = m.now.marks \cup {p}
    BY <2>3 DEF Marked, Uppers
  <2> HIDE DEF v
  <2>5. h \in Runs /\ h.ok /\ h.now = v /\ h.past \subseteq m.past \cup {m.now}
    BY <2>1, <2>2, <2>3, <2>4, DoIs
  <2>6. ASSUME NEW s \in Places, Within(p, s) PROVE h.now.node[s] = "absent" /\ Seen(h.now, s) = "absent"
    <3>1. ~Within(s, parentName(p))
      <4>1. ~Within(p, parentName(p)) /\ parentName(p) \in Places
        BY ParentIs
      <4> QED BY <1>1, <2>6, <4>1, WithinOrder
    <3>2. h.now.node[s] = "absent"
      BY <2>2, <2>4, <2>5, <2>6, <3>1
    <3>3. whitedOut(h.now, s)
      BY <2>4, <2>5, <2>6 DEF whitedOut
    <3> QED BY <3>2, <3>3 DEF Seen
  <2>7. ASSUME NEW s \in Places, ~Within(p, s) PROVE Seen(h.now, s) = Seen(r.now, s)
    <3>1. whitedOut(h.now, s) <=> whitedOut(m.now, s)
      BY <2>4, <2>5, <2>7 DEF whitedOut
    <3>2. Seen(h.now, s) = Seen(m.now, s)
      BY <2>4, <2>5, <3>1, SeenOnTheWay
    <3> QED BY <2>3, <3>2
  <2> QED BY <2>3, <2>4, <2>5, <2>6, <2>7
<1> QED BY <1>2, <1>3

\* Every marker of what is in p goes.
LEMMA MarkersGone ==
  ASSUME NEW r \in Runs, NEW p \in Paths, r.ok
  PROVE  clearMarkers(r, p).now.marks \cap Children(p) = {}
<1> DEFINE n == Len(Order)
<1>1. PICK g \in [0 .. n -> Runs] :
        /\ g[0] = r
        /\ \A i \in 1 .. n : g[i] = IF Order[i] \in Children(p) THEN clearWhiteout(g[i - 1], Order[i]) ELSE g[i - 1]
        /\ clearMarkers(r, p) = g[n]
  BY MarkersWalkIs
<1>2. n \in Nat /\ (\A i \in 1 .. n : Order[i] \in Paths) /\ \A q \in Paths : \E i \in 1 .. n : Order[i] = q
  BY OverlayAssumption
<1> DEFINE Gone(i) == g[i].ok /\ \A j \in 1 .. i : Order[j] \in Children(p) => Order[j] \notin g[i].now.marks
           T == {i \in 0 .. n : Gone(i)}
<1>3. 0 \in T
  <2>1. 0 \in 0 .. n /\ Gone(0)
    BY <1>1, <1>2
  <2> HIDE DEF Gone
  <2> QED BY <2>1
<1>4. ASSUME NEW i \in 0 .. n - 1, i \in T PROVE i + 1 \in T
  <2>1. i + 1 \in 1 .. n /\ i + 1 \in 0 .. n /\ (i + 1) - 1 = i /\ i \in 0 .. n
    BY <1>2
  <2>2. Gone(i) /\ g[i] \in Runs /\ Order[i + 1] \in Paths
    <3> HIDE DEF Gone
    <3> QED BY <1>2, <1>4, <2>1
  <2>3. g[i + 1] = IF Order[i + 1] \in Children(p) THEN clearWhiteout(g[i], Order[i + 1]) ELSE g[i]
    BY <1>1, <2>1
  <2>4. g[i + 1].ok /\ g[i + 1].now.marks \subseteq g[i].now.marks
        /\ (Order[i + 1] \in Children(p) => Order[i + 1] \notin g[i + 1].now.marks)
    <3> DEFINE x == g[i]
               q == Order[i + 1]
               y == g[i + 1]
    <3>1. x \in Runs /\ q \in Paths /\ x.ok /\ y = IF q \in Children(p) THEN clearWhiteout(x, q) ELSE x
      BY <2>2, <2>3
    <3> HIDE DEF x, q, y
    <3>2. clearWhiteout(x, q).ok /\ clearWhiteout(x, q).now = [node |-> x.now.node, marks |-> x.now.marks \ {q}]
      BY <3>1, ClearIs
    <3>3. y.ok /\ y.now.marks \subseteq x.now.marks /\ (q \in Children(p) => q \notin y.now.marks)
      BY <3>1, <3>2
    <3> QED BY <3>3 DEF x, q, y
  <2>5. ASSUME NEW j \in 1 .. i + 1, Order[j] \in Children(p) PROVE Order[j] \notin g[i + 1].now.marks
    <3>1. CASE j = i + 1
      BY <2>4, <2>5, <3>1
    <3>2. CASE j # i + 1
      <4>1. j \in 1 .. i
        BY <2>1, <3>2
      <4> QED BY <2>2, <2>4, <2>5, <4>1
    <3> QED BY <3>1, <3>2
  <2>6. Gone(i + 1)
    BY <2>4, <2>5
  <2> HIDE DEF Gone
  <2> QED BY <2>1, <2>6
<1>5. n \in T
  <2>1. \A i \in 0 .. n - 1 : i \in T => i + 1 \in T
    BY <1>4
  <2>2. 0 .. n \subseteq T
    <3> HIDE DEF T
    <3> QED BY <1>2, <1>3, <2>1, InductTo
  <2>3. n \in 0 .. n
    BY <1>2
  <2> HIDE DEF T
  <2> QED BY <2>2, <2>3
<1>6. Gone(n)
  <2> HIDE DEF Gone
  <2> QED BY <1>5
<1>7. ASSUME NEW q \in Children(p) PROVE q \notin g[n].now.marks
  <2>1. PICK i \in 1 .. n : Order[i] = q
    BY <1>2 DEF Children
  <2> QED BY <1>6, <1>7, <2>1
<1> QED BY <1>1, <1>7

\* p and all below it went, or nothing did.
Gone(r, p) ==
  /\ Torn(r) /\ Kept(r)
  /\ r.ok => \A s \in Places : Seen(r.now, s) = IF Within(p, s) THEN "absent" ELSE Seen(upper, s)

\* The upper entries of p are gone from x, and then what the lower layer has of it is hidden.
LEMMA HiddenIsGone ==
  ASSUME Good(upper), lower \in Lowers, NEW p \in Paths, NEW x \in Runs, Upright(x.now), x.ok,
         \A s \in Places : Within(p, s) => x.now.node[s] = "absent",
         \A s \in Places : ~Within(p, s) => Seen(x.now, s) = Seen(upper, s),
         visibleInLower(x.now, p) => Seen(upper, parentName(p)) = "dir",
         \A u \in x.past : \A s \in Paths : Seen(u, s) \in {Seen(upper, s), lower[s]}
  PROVE  Gone(hideLower(x, p), p)
<1> DEFINE h == hideLower(x, p)
<1>1. p \in Places /\ parentName(p) \in Places /\ ~Within(p, parentName(p))
  BY ParentIs
<1>2. Seen(x.now, parentName(p)) = Seen(upper, parentName(p))
  BY <1>1
<1>3. /\ h \in Runs /\ h.ok /\ h.past \subseteq x.past \cup Lifted(x.now)
      /\ \A s \in Places : Seen(h.now, s) = IF Within(p, s) THEN "absent" ELSE Seen(x.now, s)
  BY <1>2, HideSees
<1> HIDE DEF h
<1>4. \A s \in Places : Seen(h.now, s) = IF Within(p, s) THEN "absent" ELSE Seen(upper, s)
  BY <1>3
<1>5. ASSUME NEW u \in h.past, NEW s \in Paths PROVE Seen(u, s) \in {Seen(upper, s), Seen(h.now, s), lower[s]}
  <2>1. s \in Places
    BY PlacesAre
  <2>2. CASE u \in x.past
    BY <2>2
  <2>3. CASE u \in Lifted(x.now)
    <3>1. Seen(u, s) = Seen(x.now, s)
      BY <2>1, <2>3, LiftedSees
    <3>2. Within(p, s) => Seen(x.now, s) \in {"absent", lower[s]}
      BY <2>1 DEF Seen
    <3>3. Within(p, s) => Seen(h.now, s) = "absent"
      BY <1>4, <2>1
    <3> QED BY <2>1, <3>1, <3>2, <3>3
  <2> QED BY <1>3, <2>2, <2>3
<1>6. Torn(h)
  BY <1>5 DEF Torn
<1> QED BY <1>3, <1>4, <1>6 DEF Gone, Kept, h

\* Remove takes a file or an empty directory away, or changes nothing.
LEMMA RemoveSees ==
  ASSUME Good(upper), lower \in Lowers, Strict, NEW p \in Paths
  PROVE  /\ Gone(RemoveRun(p), p)
         /\ RemoveRun(p).ok => Seen(upper, p) # "absent" /\ \A s \in Children(p) : Seen(upper, s) = "absent"
<1> DEFINE seen == Seen(upper, p)
           can == seen # "absent" /\ (seen = "dir" => ~ReadDirFails(upper, p) /\ ReadDir(upper, p) = {})
           asked == Require(Begin, can)
           cleared == IF upper.node[p] = "dir" THEN clearMarkers(asked, p) ELSE asked
           bare == Bare(cleared.now, p)
           ready == Require(cleared, bare)
           v == Put(cleared.now, p, "absent")
           removed == Do(ready, v)
           h == RemoveRun(p)
<1>1. h = hideLower(removed, p)
  BY DEF RemoveRun
<1> HIDE DEF h
<1>2. /\ p \in Places /\ parentName(p) \in Places /\ Upright(upper) /\ GoodRun(Begin) /\ Begin \in Runs
      /\ Begin.now = upper /\ Begin.past = {} /\ Begin.ok /\ Within(parentName(p), p) /\ parentName(p) # p
      /\ upper.node \in [Places -> Nodes]
  BY GoodBegin, ParentIs, UprightIs DEF GoodRun, Good
<1>3. asked \in Runs /\ asked.now = upper /\ asked.past = {} /\ (asked.ok => can) /\ (can => asked.ok)
  <2> HIDE DEF can
  <2> QED BY <1>2, RequireIs
<1> HIDE DEF asked
<1>4. CASE ~asked.ok
  <2>1. cleared = asked
    <3>1. clearMarkers(asked, p) = asked
      BY <1>3, <1>4, MarkersClear DEF Cleared
    <3> QED BY <3>1
  <2> HIDE DEF cleared, bare
  <2>2. ready = asked
    BY <1>3, <1>4, <2>1, RequireIs
  <2>3. v \in Uppers
    BY <1>2, <1>3, <2>1, PutIs DEF Runs, Nodes
  <2> HIDE DEF ready, v
  <2>4. removed = asked
    BY <1>3, <1>4, <2>2, <2>3, DoIs
  <2> HIDE DEF removed
  <2>5. h = asked
    BY <1>1, <1>2, <1>3, <1>4, <2>4, NotOkStays
  <2> QED BY <1>3, <1>4, <2>5 DEF Gone, Torn, Kept, Same, h
<1>5. CASE asked.ok
  <2>1. can
    BY <1>3, <1>5
  \* Nothing is seen below p, so the upper layer has nothing there.
  <2>2. \A s \in Children(p) : Seen(upper, s) = "absent"
    <3>1. CASE seen = "dir"
      <4>1. ReadDir(upper, p) = {q \in Children(p) : Seen(upper, q) # "absent"}
        BY <1>2, <3>1, ListingIs
      <4> QED BY <2>1, <3>1, <4>1
    <3>2. CASE seen # "dir"
      <4>1. \A s \in Children(p) : s \in Places /\ Within(p, s) /\ s # p
        BY ParentIs DEF Children
      <4> QED BY <1>2, <3>2, <4>1, SeenAbove
    <3> QED BY <3>1, <3>2
  <2>3. ASSUME NEW s \in Places, Within(p, s), s # p PROVE Seen(upper, s) = "absent" /\ upper.node[s] = "absent"
    <3>1. IsTree(View(upper)) /\ View(upper)[s] = Seen(upper, s)
      BY <1>2, ViewIs DEF View
    <3>2. \A c \in Children(p) : View(upper)[c] = "absent"
      BY <2>2, PlacesAre DEF View, Children
    <3>3. Seen(upper, s) = "absent"
      BY <2>3, <3>1, <3>2, NothingBelowChildless
    <3> QED BY <1>2, <3>3, SeenIs
  <2>4. Seen(upper, parentName(p)) = "dir"
    BY <1>2, <2>1, SeenAbove
  <2>5. /\ cleared \in Runs /\ cleared.ok /\ Clears(upper, cleared.now, p)
        /\ \A u \in cleared.past : Clears(upper, u, p)
        /\ cleared.now.marks \cap Children(p) = {}
    <3>1. CASE upper.node[p] = "dir"
      <4>1. Cleared(asked, clearMarkers(asked, p), p) /\ clearMarkers(asked, p).now.marks \cap Children(p) = {}
        BY <1>3, <1>5, MarkersClear, MarkersGone
      <4>2. cleared = clearMarkers(asked, p)
        BY <3>1
      <4> HIDE DEF cleared
      <4> QED BY <1>3, <1>5, <4>1, <4>2 DEF Cleared
    <3>2. CASE upper.node[p] # "dir"
      <4>1. upper.marks \cap Children(p) = {}
        BY <1>2, <3>2 DEF Upright, Children
      <4>2. Clears(upper, upper, p)
        BY <1>2, UprightIs DEF Clears
      <4> QED BY <1>3, <1>5, <3>2, <4>1, <4>2
    <3> QED BY <3>1, <3>2
  <2> HIDE DEF cleared
  <2>6. bare
    <3>1. \A s \in Children(p) : s \in Places /\ Within(p, s) /\ s # p
      BY ParentIs DEF Children
    <3> QED BY <2>3, <2>5, <3>1 DEF Bare, Clears
  <2>7. Good(cleared.now)
    <3>1. \A m \in Children(p) : m \in Places /\ Within(p, m) /\ m # p
      BY ParentIs DEF Children
    <3>2. \A m \in upper.marks \ cleared.now.marks : upper.node[m] # "dir"
      BY <2>3, <2>5, <3>1 DEF Clears
    <3> QED BY <2>5, <3>2, UnmarkedGood DEF Clears
  <2>8. v \in Uppers /\ Upright(v)
    BY <2>6, <2>7, PutAbsentGood DEF Good
  <2>9. ready \in Runs /\ ready.ok /\ ready.now = cleared.now /\ ready.past = cleared.past
    <3> HIDE DEF bare
    <3> QED BY <2>5, <2>6, RequireIs
  <2>10. cleared.now \in Uppers /\ "absent" \in Nodes
    BY <2>5 DEF Runs, Nodes
  <2>11. /\ v.node[p] = "absent" /\ v.marks = cleared.now.marks
         /\ \A q \in Places : q # p => v.node[q] = cleared.now.node[q]
         /\ \A s \in Places : ~Within(p, s) => Seen(v, s) = Seen(cleared.now, s)
    <3>1. \A s \in Places : ~Within(p, s) => Seen(v, s) = Seen(cleared.now, s)
      BY <1>2, <2>10, PutSeesElsewhere
    <3>2. v = [cleared.now EXCEPT !.node[p] = "absent"]
      BY DEF Put
    <3>3. /\ v.node[p] = "absent" /\ v.marks = cleared.now.marks
          /\ \A q \in Places : q # p => v.node[q] = cleared.now.node[q]
      <4> HIDE DEF v
      <4> QED BY <1>2, <2>10, <3>2 DEF Uppers
    <3> QED BY <3>1, <3>3
  <2> HIDE DEF v, ready
  <2>12. /\ removed \in Runs /\ removed.ok /\ removed.now = v
         /\ removed.past \subseteq cleared.past \cup {cleared.now}
    BY <2>8, <2>9, DoIs
  <2> HIDE DEF removed
  <2>13. ASSUME NEW u, Clears(upper, u, p), NEW s \in Places
         PROVE  IF Within(p, s) /\ s # p THEN u.node[s] = "absent" ELSE Seen(u, s) = Seen(upper, s)
    <3>1. CASE Within(p, s) /\ s # p
      BY <2>3, <2>13, <3>1 DEF Clears
    <3>2. CASE ~(Within(p, s) /\ s # p)
      <4>1. ASSUME NEW m \in upper.marks \ u.marks, Within(m, s) PROVE FALSE
        <5>1. m \in Paths /\ parentName(m) = p
          BY <2>13, <4>1 DEF Clears, Children
        <5>2. Within(p, m) /\ m # p /\ m \in Places /\ ~Within(m, p)
          BY <5>1, ParentIs
        <5> QED BY <1>2, <3>2, <4>1, <5>2, WithinOrder
      <4> QED BY <2>13, <3>2, <4>1, UnmarkedSeesElsewhere DEF Clears
    <3> QED BY <3>1, <3>2
  <2>14. \A s \in Places : Within(p, s) => v.node[s] = "absent"
    BY <2>3, <2>5, <2>11 DEF Clears
  <2>15. \A s \in Places : ~Within(p, s) => Seen(v, s) = Seen(upper, s)
    BY <2>5, <2>11, <2>13
  <2>16. ASSUME NEW u \in removed.past, NEW s \in Paths PROVE Seen(u, s) \in {Seen(upper, s), lower[s]}
    <3>1. Clears(upper, u, p) /\ s \in Places
      BY <2>5, <2>12, PlacesAre
    <3>2. CASE Within(p, s) /\ s # p
      <4>1. u.node[s] = "absent" /\ Seen(upper, s) = "absent"
        BY <2>3, <2>13, <3>1, <3>2
      <4> QED BY <4>1 DEF Seen
    <3>3. CASE ~(Within(p, s) /\ s # p)
      BY <2>13, <3>1, <3>3
    <3> QED BY <3>2, <3>3
  <2>17. Gone(h, p)
    BY <1>1, <2>4, <2>8, <2>12, <2>14, <2>15, <2>16, HiddenIsGone
  <2> QED BY <2>1, <2>2, <2>17 DEF h
<1> QED BY <1>4, <1>5

\* RemoveAll takes p and all below it away, or changes nothing.
LEMMA RemoveAllSees ==
  ASSUME Good(upper), lower \in Lowers, NEW p \in Paths
  PROVE  Gone(RemoveAllRun(p), p)
<1> DEFINE free == ~Blocked(upper, p)
           asked == Require(Begin, free)
           v == Cut(upper, p)
           removed == Do(asked, v)
           h == RemoveAllRun(p)
<1>1. h = IF visibleInLower(upper, p) THEN setWhiteout(removed, p) ELSE removed
  BY DEF RemoveAllRun
<1> HIDE DEF h
<1>2. /\ p \in Places /\ parentName(p) \in Places /\ Upright(upper) /\ Begin \in Runs /\ upper \in Uppers
      /\ Begin.now = upper /\ Begin.past = {} /\ Begin.ok /\ Within(parentName(p), p) /\ parentName(p) # p
  BY GoodBegin, ParentIs, UprightIs DEF GoodRun, Good
<1>3. asked \in Runs /\ asked.now = upper /\ asked.past = {} /\ (asked.ok => free) /\ (free => asked.ok)
  <2> HIDE DEF free
  <2> QED BY <1>2, RequireIs
<1>4. v \in Uppers /\ Upright(v)
  BY CutGood DEF Good
<1>5. /\ v.node = [q \in Places |-> IF Within(p, q) THEN "absent" ELSE upper.node[q]]
      /\ v.marks = {q \in upper.marks : ~(Within(p, q) /\ p # q)}
  BY DEF Cut
<1> HIDE DEF asked, v
<1>6. CASE ~asked.ok
  <2>1. removed = asked
    BY <1>3, <1>4, <1>6, DoIs
  <2> HIDE DEF removed
  <2>2. h = asked
    BY <1>1, <1>2, <1>3, <1>6, <2>1, NotOkStays
  <2> QED BY <1>3, <1>6, <2>2 DEF Gone, Torn, Kept, Same, h
<1>7. CASE asked.ok
  <2>1. removed \in Runs /\ removed.ok /\ removed.now = v /\ removed.past \subseteq {upper}
    BY <1>3, <1>4, <1>7, DoIs
  <2> HIDE DEF removed
  <2>2. \A m \in upper.marks : m \in Places
    BY <1>2, PlacesAre DEF Uppers
  <2>3. ASSUME NEW s \in Places, s = p \/ ~Within(p, s) PROVE whitedOut(v, s) <=> whitedOut(upper, s)
    <3>1. ASSUME NEW m \in upper.marks, Within(m, s) PROVE m \in v.marks
      BY <1>2, <1>5, <2>2, <2>3, <3>1, WithinOrder
    <3> QED BY <1>5, <3>1 DEF whitedOut
  <2>4. visibleInLower(v, p) <=> visibleInLower(upper, p)
    BY <1>2, <2>3 DEF visibleInLower
  <2>5. h = hideLower(removed, p)
    BY <1>1, <2>1, <2>4 DEF hideLower
  <2>6. \A s \in Places : Within(p, s) => v.node[s] = "absent"
    BY <1>5
  <2>7. ASSUME NEW s \in Places, ~Within(p, s) PROVE Seen(v, s) = Seen(upper, s)
    <3>1. \A t \in Places : Within(t, s) => v.node[t] = upper.node[t]
      BY <1>2, <1>5, <2>7, WithinOrder
    <3> QED BY <2>3, <2>7, <3>1, SeenOnTheWay
  <2>8. visibleInLower(v, p) => Seen(upper, parentName(p)) = "dir"
    <3> SUFFICES ASSUME ~whitedOut(upper, p), lower[p] # "absent" PROVE Seen(upper, parentName(p)) = "dir"
      BY <2>4 DEF visibleInLower
    <3>1. CASE Seen(upper, p) # "absent"
      BY <1>2, <3>1, SeenAbove
    <3>2. CASE Seen(upper, p) = "absent"
      BY <1>2, <1>3, <1>7, <3>2, SeenIs
    <3> QED BY <3>1, <3>2
  <2>9. \A u \in removed.past : \A s \in Paths : Seen(u, s) \in {Seen(upper, s), lower[s]}
    BY <2>1
  <2>10. Gone(h, p)
    BY <1>4, <2>1, <2>5, <2>6, <2>7, <2>8, <2>9, HiddenIsGone
  <2> QED BY <2>10 DEF h
<1> QED BY <1>6, <1>7

-----------------------------------------------------------------------------
(* What a rename shows.                                                    *)

\* All that is seen at p and below it was copied up, and q can take it.
Ready(u, p, q) ==
  /\ u \in Lifted(upper) /\ Movable(u, p, q) /\ Seen(upper, p) # "absent"
  /\ \A s \in Places : Within(p, s) => u.node[s] = Seen(upper, s)

\* A rename that is allowed has copied up all that is seen at p and below.
LEMMA RenameReady ==
  ASSUME Good(upper), lower \in Lowers, Strict, NEW p \in Paths, NEW q \in Paths, RenameAllowed(p, q).ok
  PROVE  Ready(RenameAllowed(p, q).now, p, q)
<1> DEFINE u == RenameAllowed(p, q).now
<1>1. /\ Movable(u, p, q) /\ u \in Lifted(upper) /\ Seen(upper, p) # "absent"
      /\ \A s \in Listed(upper, p) : Seen(upper, s) # "absent" => u.node[s] # "absent"
  BY RenameIs
<1> HIDE DEF u
<1>2. /\ Upright(upper) /\ p \in Places /\ p # Root
      /\ \A s \in Places : u.node[s] # "absent" => u.node[s] = Seen(upper, s)
  BY <1>1, LiftedIs, PlacesAre DEF Good
<1>3. ASSUME NEW s \in Places, Within(p, s), Seen(upper, s) # "absent" PROVE s \in Listed(upper, p)
  <2>1. s \in Paths
    BY <1>2, <1>3, WithinOrder, PlacesAre
  <2>2. ASSUME NEW t \in Paths, Within(p, t), p # t, Within(t, s) PROVE t \in ReadDir(upper, parentName(t))
    <3>1. t \in Places /\ parentName(t) \in Places
      BY ParentIs
    <3>2. Seen(upper, t) # "absent"
      BY <1>2, <1>3, <2>2, <3>1, SeenAbove
    <3>3. Seen(upper, parentName(t)) = "dir"
      BY <1>2, <3>2, SeenIsTree
    <3>4. ReadDir(upper, parentName(t)) = {r \in Children(parentName(t)) : Seen(upper, r) # "absent"}
      BY <3>1, <3>3, ListingIs
    <3>5. t \in Children(parentName(t))
      BY DEF Children
    <3> QED BY <3>2, <3>4, <3>5
  <2> QED BY <1>3, <2>1, <2>2 DEF Listed
<1>4. ASSUME NEW s \in Places, Within(p, s) PROVE u.node[s] = Seen(upper, s)
  BY <1>1, <1>2, <1>3, <1>4
<1> QED BY <1>1, <1>4 DEF Ready, u

\* What is seen at q fits what is seen at p.
LEMMA RenameFits ==
  ASSUME Good(upper), lower \in Lowers, Strict, NEW p \in Paths, NEW q \in Paths, RenameTarget(p, q),
         NEW u, Ready(u, p, q)
  PROVE  /\ ~Within(p, q) /\ ~Within(q, p) /\ Seen(upper, parentName(q)) = "dir"
         /\ Seen(upper, q) # "absent" => (Seen(upper, q) = "dir") = (Seen(upper, p) = "dir")
         /\ \A s \in Places : Within(q, s) /\ s # q => Seen(upper, s) = "absent"
<1>1. /\ Upright(upper) /\ u \in Lifted(upper) /\ Movable(u, p, q)
      /\ Seen(upper, p) # "absent" /\ u.node[p] = Seen(upper, p)
      /\ p \in Places /\ q \in Places /\ parentName(q) \in Places
  BY PlacesAre, ParentIs, WithinOrder DEF Good, Ready
<1>2. /\ Upright(u) /\ u.marks = upper.marks
      /\ \A s \in Places : upper.node[s] # "absent" => u.node[s] = upper.node[s]
      /\ \A s \in Places : u.node[s] # "absent" => u.node[s] = Seen(upper, s)
  BY <1>1, LiftedIs
<1>3. \A s \in Places : Within(q, s) /\ s # q => u.node[s] = "absent"
  BY <1>1, <1>2, NothingBelow DEF Movable
<1>4. ~Within(p, q)
  BY <1>1 DEF Movable
<1>5. ~Within(q, p)
  BY <1>1, <1>3, <1>4, WithinOrder
<1>6. Seen(upper, parentName(q)) = "dir"
  BY <1>1, <1>2 DEF Movable
<1>7. RenameTarget(p, q) =>
        "dir" \notin {Seen(upper, p), Seen(upper, q)} \/ \A s \in Paths : Within(q, s) => ~LowerOnly(s)
  BY DEF RenameTarget, Strict
<1>8. Seen(upper, q) # "absent" => (Seen(upper, q) = "dir") = (Seen(upper, p) = "dir")
  <2>1. CASE u.node[q] # "absent"
    BY <1>1, <1>2, <2>1 DEF Movable
  <2>2. CASE u.node[q] = "absent" /\ Seen(upper, q) # "absent"
    <3>1. LowerOnly(q) /\ Within(q, q)
      BY <1>1, <1>2, <2>2, WithinOrder DEF LowerOnly
    <3> QED BY <1>7, <3>1
  <2> QED BY <2>1, <2>2
<1>9. ASSUME NEW s \in Places, Within(q, s), s # q PROVE Seen(upper, s) = "absent"
  <2> SUFFICES ASSUME Seen(upper, s) # "absent" PROVE FALSE
    OBVIOUS
  <2>1. Seen(upper, q) = "dir"
    BY <1>1, <1>9, SeenAbove
  <2>2. s # Root
    BY <1>1, <1>9, WithinOrder
  <2>3. s \in Paths /\ LowerOnly(s)
    BY <1>2, <1>3, <1>9, <2>2, PlacesAre DEF LowerOnly
  <2> QED BY <1>7, <1>9, <2>1, <2>3
<1> QED BY <1>4, <1>5, <1>6, <1>8, <1>9

Comes(r, p, q) == \E s \in Paths : Within(p, s) /\ r = Moved(s, p, q)
\* What a rename of p to q leaves to be seen at r.
Renamed(p, q, r) ==
  IF Comes(r, p, q) THEN Seen(upper, CHOOSE s \in Paths : Within(p, s) /\ r = Moved(s, p, q))
  ELSE IF Within(p, r) THEN "absent"
  ELSE Seen(upper, r)

\* The tree a rename leaves, place by place.
LEMMA RenamedIs ==
  ASSUME NEW p \in Paths, NEW q \in Paths, NEW r
  PROVE  /\ \A s \in Paths : Within(p, s) /\ r = Moved(s, p, q) => Renamed(p, q, r) = Seen(upper, s)
         /\ Comes(r, p, q) => Within(q, r)
         /\ ~Comes(r, p, q) => Renamed(p, q, r) = IF Within(p, r) THEN "absent" ELSE Seen(upper, r)
<1> DEFINE from == CHOOSE s \in Paths : Within(p, s) /\ r = Moved(s, p, q)
<1>1. ASSUME NEW s \in Paths, Within(p, s), r = Moved(s, p, q) PROVE Renamed(p, q, r) = Seen(upper, s)
  <2>1. Comes(r, p, q)
    BY <1>1 DEF Comes
  <2>2. from \in Paths /\ Within(p, from) /\ r = Moved(from, p, q)
    BY <1>1
  <2>3. Renamed(p, q, r) = Seen(upper, from)
    BY <2>1 DEF Renamed
  <2> HIDE DEF from
  <2>4. \A t \in Paths : Within(p, t) => Moved(Moved(t, p, q), q, p) = t
    BY MovedIs, PlacesAre
  <2> QED BY <1>1, <2>2, <2>3, <2>4
<1>2. Comes(r, p, q) => Within(q, r)
  BY MovedIs, PlacesAre DEF Comes
<1>3. ~Comes(r, p, q) => Renamed(p, q, r) = IF Within(p, r) THEN "absent" ELSE Seen(upper, r)
  BY DEF Renamed
<1> QED BY <1>1, <1>2, <1>3

\* What the upper layer has after the move.
LEMMA ShiftedNodes ==
  ASSUME Good(upper), lower \in Lowers, Strict, NEW p \in Paths, NEW q \in Paths, RenameTarget(p, q),
         NEW u, Ready(u, p, q), NEW x, x = Shifted(u, p, q)
  PROVE  /\ \A r \in Places : Within(p, r) => x.node[r] = "absent"
         /\ \A r \in Places : Within(q, r) => x.node[r] = Renamed(p, q, r)
         /\ \A r \in Places : ~Within(p, r) /\ ~Within(q, r) => x.node[r] = u.node[r]
         /\ x.node[q] = Seen(upper, p)
         /\ \A m \in x.marks : m \in upper.marks \/ Within(q, m)
         /\ \A m \in upper.marks : ~Within(p, m) => m \in x.marks
<1>1. /\ Upright(upper) /\ u \in Lifted(upper) /\ Movable(u, p, q) /\ p \in Places /\ q \in Places
      /\ \A s \in Places : Within(p, s) => u.node[s] = Seen(upper, s)
  BY PlacesAre DEF Good, Ready
<1>2. Upright(u) /\ u \in Uppers /\ u.marks = upper.marks /\ u.marks \in SUBSET Paths
  BY <1>1, LiftedIs, UprightIs
<1>3. /\ ~Within(p, q) /\ ~Within(q, p)
      /\ \A s \in Places : Within(q, s) /\ s # q => Seen(upper, s) = "absent"
  BY RenameFits
<1>4. \A s \in Places : Within(q, s) /\ s # q => u.node[s] = "absent"
  BY <1>1, <1>2, NothingBelow DEF Movable
<1>5. /\ x.marks = {r \in u.marks : ~(Within(p, r) /\ p # r)}
                   \cup {Moved(r, p, q) : r \in {s \in u.marks : Within(p, s) /\ p # s}}
      /\ \A s \in Paths : Within(p, s) /\ Moved(s, p, q) \in Places => x.node[Moved(s, p, q)] = u.node[s]
      /\ \A r \in Places : ~Within(q, r) => x.node[r] = IF Within(p, r) THEN "absent" ELSE u.node[r]
  BY <1>2, ShiftedIs
<1>6. \A r \in Places : x.node[r] # "absent" =>
        \/ \E s \in Paths : Within(p, s) /\ r = Moved(s, p, q) /\ x.node[r] = u.node[s]
        \/ ~Within(p, r) /\ x.node[r] = u.node[r] /\ \A s \in Paths : Within(p, s) => r # Moved(s, p, q)
  BY <1>2, ShiftedIs
<1>7. ASSUME NEW r \in Places, Within(p, r) PROVE ~Within(q, r)
  BY <1>1, <1>3, <1>7, WithinOrder
<1>8. \A r \in Places : Within(p, r) => x.node[r] = "absent"
  BY <1>5, <1>7
<1>9. Moved(p, p, q) = q /\ Within(p, p)
  BY <1>1, MovedIs, WithinOrder
<1>10. ASSUME NEW r \in Places, Within(q, r) PROVE x.node[r] = Renamed(p, q, r)
  <2>1. CASE Comes(r, p, q)
    <3>1. PICK s \in Paths : Within(p, s) /\ r = Moved(s, p, q)
      BY <2>1 DEF Comes
    <3>2. Renamed(p, q, r) = Seen(upper, s)
      BY <3>1, RenamedIs
    <3>3. x.node[r] = u.node[s] /\ s \in Places
      BY <1>5, <3>1, PlacesAre
    <3> QED BY <1>1, <3>1, <3>2, <3>3
  <2>2. CASE ~Comes(r, p, q)
    <3>1. r # q
      BY <1>9, <2>2 DEF Comes
    <3>2. ~Within(p, r)
      BY <1>7, <1>10
    <3>3. Renamed(p, q, r) = "absent"
      BY <1>3, <1>10, <2>2, <3>1, <3>2, RenamedIs
    <3>4. u.node[r] = "absent"
      BY <1>4, <1>10, <3>1
    <3> QED BY <1>6, <2>2, <3>3, <3>4 DEF Comes
  <2> QED BY <2>1, <2>2
<1>11. x.node[q] = Seen(upper, p)
  BY <1>1, <1>5, <1>9
<1>12. ASSUME NEW m \in x.marks PROVE m \in upper.marks \/ Within(q, m)
  BY <1>2, <1>5, MovedIs, PlacesAre
<1>13. \A m \in upper.marks : ~Within(p, m) => m \in x.marks
  BY <1>2, <1>5
<1> QED BY <1>5, <1>8, <1>10, <1>11, <1>12, <1>13

\* Away from p the overlay shows the tree a rename leaves.
LEMMA ShiftedSees ==
  ASSUME Good(upper), lower \in Lowers, Strict, NEW p \in Paths, NEW q \in Paths, RenameTarget(p, q),
         NEW u, Ready(u, p, q), NEW x, x = Shifted(u, p, q), Upright(x), NEW r \in Places, ~Within(p, r)
  PROVE  Seen(x, r) = Renamed(p, q, r)
<1>1. /\ Upright(upper) /\ u \in Lifted(upper) /\ Movable(u, p, q) /\ p \in Places /\ q \in Places
      /\ Seen(upper, p) # "absent" /\ u.node[p] = Seen(upper, p)
      /\ parentName(q) \in Places /\ ~Within(p, q)
  BY PlacesAre, WithinOrder, ParentIs DEF Good, Ready, Movable
<1>2. /\ Upright(u) /\ IsTree(u.node) /\ u.marks = upper.marks /\ \A m \in u.marks : m \in Places
      /\ \A s \in Places : upper.node[s] # "absent" => u.node[s] = upper.node[s]
  BY <1>1, LiftedIs, UprightIs, PlacesAre
<1>3. /\ \A t \in Places : Within(q, t) => x.node[t] = Renamed(p, q, t)
      /\ \A t \in Places : ~Within(p, t) /\ ~Within(q, t) => x.node[t] = u.node[t]
      /\ x.node[q] = Seen(upper, p)
      /\ \A m \in x.marks : m \in upper.marks \/ Within(q, m)
      /\ \A m \in upper.marks : ~Within(p, m) => m \in x.marks
  BY ShiftedNodes
<1>4. ~Within(q, p) /\ \A s \in Places : Within(q, s) /\ s # q => Seen(upper, s) = "absent"
  BY RenameFits
<1>5. x.marks \in SUBSET Paths /\ \A m \in x.marks : m \in Places
  BY UprightIs, PlacesAre
<1>6. CASE ~Within(q, r)
  <2>1. \A t \in Places : Within(t, r) => x.node[t] = u.node[t]
    BY <1>1, <1>3, <1>6, WithinOrder
  <2>2. ASSUME NEW m \in x.marks, Within(m, r) PROVE m \in u.marks
    BY <1>1, <1>2, <1>3, <1>5, <1>6, <2>2, WithinOrder
  <2>3. ASSUME NEW m \in u.marks, Within(m, r) PROVE m \in x.marks
    BY <1>1, <1>2, <1>3, <2>3, WithinOrder
  <2>4. whitedOut(x, r) <=> whitedOut(u, r)
    BY <2>2, <2>3 DEF whitedOut
  <2>5. Seen(x, r) = Seen(u, r)
    BY <2>1, <2>4, SeenOnTheWay
  <2>6. Seen(u, r) = Seen(upper, r)
    BY <1>1, LiftedSees
  <2>7. Renamed(p, q, r) = Seen(upper, r)
    BY <1>6, RenamedIs
  <2> QED BY <2>5, <2>6, <2>7
<1>7. CASE Within(q, r) /\ x.node[r] # "absent"
  BY <1>3, <1>7, SeenIs
<1>8. CASE Within(q, r) /\ x.node[r] = "absent"
  <2> SUFFICES ASSUME Seen(x, r) # "absent" PROVE FALSE
    BY <1>3, <1>8
  <2>1. ~Blocked(x, r) /\ ~whitedOut(x, r) /\ Seen(x, r) = lower[r] /\ lower[r] # "absent"
    BY <1>8, SeenIs
  <2>2. r # q
    BY <1>1, <1>3, <1>8
  <2>3. Seen(upper, p) = "dir"
    <3>1. Seen(upper, p) \in Nodes
      BY <1>1, SeenIsNode
    <3>2. x.node[q] \notin Contents
      BY <1>8, <2>1, <2>2 DEF Blocked
    <3> QED BY <1>1, <1>3, <3>1, <3>2 DEF Nodes
  <2>4. \A s \in Places : Within(q, s) /\ s # q => u.node[s] = "absent"
    BY <1>1, <1>2, NothingBelow DEF Movable
  <2>5. upper.node[r] = "absent" /\ Seen(upper, r) = "absent"
    BY <1>2, <1>4, <1>8, <2>2, <2>4
  <2>6. ~Blocked(upper, r)
    <3> SUFFICES ASSUME NEW t \in Paths, Within(t, r), t # r, upper.node[t] \in Contents PROVE FALSE
      BY DEF Blocked
    <3>1. t \in Places /\ u.node[t] = upper.node[t] /\ u.node[t] \in Contents
      BY <1>2, NodesDiffer, PlacesAre
    <3>2. Within(t, q)
      <4>1. Within(t, q) \/ Within(q, t)
        BY <1>1, <1>8, <3>1, WithinOrder
      <4>2. Within(q, t) => t = q
        BY <2>4, <3>1, NodesDiffer
      <4> QED BY <1>1, <4>1, <4>2, WithinOrder
    <3>3. t # q
      BY <1>1, <2>3, <3>1, NodesDiffer DEF Movable
    <3>4. Within(t, parentName(q))
      BY <3>1, <3>2, <3>3, ParentIs
    <3>5. u.node[parentName(q)] = "dir"
      BY <1>1 DEF Movable
    <3>6. u.node[t] = "dir"
      <4>1. t = parentName(q) \/ u.node[t] = "dir"
        BY <1>1, <1>2, <3>1, <3>4, <3>5, AboveIsDir
      <4> QED BY <3>5, <4>1
    <3> QED BY <3>1, <3>6, NodesDiffer
  <2>7. whitedOut(upper, r)
    BY <1>1, <2>1, <2>5, <2>6, SeenIs
  <2>8. PICK m \in upper.marks : Within(m, r)
    BY <2>7 DEF whitedOut
  <2>9. Within(m, q)
    <3>1. Within(m, q) \/ Within(q, m)
      BY <1>1, <1>2, <1>8, <2>8, WithinOrder
    <3>2. Within(q, m) => m = q
      BY <1>1, <1>2, <2>8, NothingBelow DEF Movable
    <3> QED BY <1>1, <3>1, <3>2, WithinOrder
  <2>10. ~Within(p, m)
    BY <1>1, <1>2, <2>9, WithinOrder
  <2>11. m \in x.marks
    BY <1>3, <2>10
  <2> QED BY <2>1, <2>8, <2>11 DEF whitedOut
<1> QED BY <1>6, <1>7, <1>8

\* A file put on q hides what was below it, so no marker of q is needed.
LEMMA UnmarkedFileSees ==
  ASSUME NEW u, Upright(u), NEW q \in Paths, u.node[q] \in Contents, NEW s \in Places
  PROVE  Seen(Unmarked(u, q), s) = Seen(u, s)
<1> DEFINE v == Unmarked(u, q)
<1>1. /\ v.node = u.node /\ v.marks = u.marks \ {q} /\ q \in Places
      /\ \A t \in Places : Blocked(v, t) <=> Blocked(u, t)
  BY PlacesAre DEF Unmarked, Blocked
<1>2. u.node[q] # "absent" /\ ~Blocked(u, q)
  BY <1>1, NothingBlocks, NodesDiffer
<1> HIDE DEF v
<1> SUFFICES Seen(v, s) = Seen(u, s)
  BY DEF v
<1>3. CASE ~Within(q, s)
  BY <1>1, <1>3, UnmarkedSeesElsewhere
<1>4. CASE s = q
  BY <1>1, <1>2, <1>4 DEF Seen
<1>5. CASE Within(q, s) /\ s # q
  <2>1. Blocked(u, s) /\ Blocked(v, s)
    BY <1>1, <1>5 DEF Blocked
  <2> QED BY <2>1 DEF Seen
<1> QED BY <1>3, <1>4, <1>5

\* A rename is the rename of one tree, or changes nothing.
LEMMA RenameSees ==
  ASSUME Good(upper), lower \in Lowers, Strict, NEW p \in Paths, NEW q \in Paths, Fits(p, q), RenameTarget(p, q)
  PROVE  /\ Torn(RenameRun(p, q)) /\ Kept(RenameRun(p, q))
         /\ RenameRun(p, q).ok =>
              /\ Seen(upper, p) # "absent" /\ ~Within(p, q) /\ Seen(upper, parentName(q)) = "dir"
              /\ Seen(upper, q) # "absent" => (Seen(upper, q) = "dir") = (Seen(upper, p) = "dir")
              /\ \A s \in Places : Within(q, s) /\ s # q => Seen(upper, s) = "absent"
              /\ \A s \in Places : Seen(RenameRun(p, q).now, s) = Renamed(p, q, s)
<1> DEFINE allowed == RenameAllowed(p, q)
           u == allowed.now
           x == Shifted(u, p, q)
           moved == IF allowed.ok THEN Do(allowed, x) ELSE allowed
           hidden == hideLower(moved, p)
           r == RenameRun(p, q)
<1>1. r = IF hidden.now.node[q] \in Contents THEN clearWhiteout(hidden, q) ELSE hidden
  BY DEF RenameRun, RenameAllowed, RenameCopied
<1> HIDE DEF r
<1>2. Lifts(Begin, allowed) /\ p \in Places /\ q \in Places
  BY RenameIs, PlacesAre
<1>3. /\ Torn(allowed) /\ Kept(allowed) /\ Same(u, upper) /\ allowed \in Runs /\ Upright(u)
      /\ \A w \in allowed.past : Same(w, upper)
  BY <1>2, LiftsTorn
<1>4. allowed.ok => Ready(u, p, q) /\ x \in Uppers /\ Good(x)
  BY RenameReady, RenameMoves
<1> HIDE DEF allowed
<1>5. CASE ~allowed.ok
  <2>1. moved = allowed
    BY <1>5
  <2> HIDE DEF moved
  <2>2. hidden = allowed
    BY <1>3, <1>5, <2>1, NotOkStays
  <2>3. clearWhiteout(allowed, q) = allowed
    BY <1>3, <1>5, ClearIs
  <2> HIDE DEF hidden
  <2>4. r = allowed
    BY <1>1, <2>2, <2>3
  <2> QED BY <1>3, <1>5, <2>4 DEF r
<1>6. CASE allowed.ok
  <2>1. Ready(u, p, q) /\ x \in Uppers /\ Upright(x) /\ x = Shifted(u, p, q) /\ Upright(upper)
    BY <1>4, <1>6 DEF Good
  <2> HIDE DEF x
  <2>2. moved \in Runs /\ moved.ok /\ moved.now = x /\ moved.past \subseteq allowed.past \cup {u}
    BY <1>3, <1>6, <2>1, DoIs
  <2> HIDE DEF moved, u
  <2>3. /\ ~Within(p, q) /\ ~Within(q, p) /\ Seen(upper, parentName(q)) = "dir"
        /\ Seen(upper, q) # "absent" => (Seen(upper, q) = "dir") = (Seen(upper, p) = "dir")
        /\ \A s \in Places : Within(q, s) /\ s # q => Seen(upper, s) = "absent"
    BY <2>1, RenameFits
  <2>4. Seen(upper, p) # "absent"
    BY <2>1 DEF Ready
  <2>5. /\ \A s \in Places : Within(p, s) => x.node[s] = "absent"
        /\ x.node[q] = Seen(upper, p)
    BY <2>1, ShiftedNodes
  <2>6. \A s \in Places : ~Within(p, s) => Seen(x, s) = Renamed(p, q, s)
    BY <2>1, ShiftedSees
  <2>7. \A s \in Places : Within(p, s) => Renamed(p, q, s) = "absent"
    <3> TAKE s \in Places
    <3>1. Within(p, s) => ~Within(q, s)
      BY <1>2, <2>3, WithinOrder
    <3> QED BY <3>1, RenamedIs
  <2>8. Seen(x, parentName(p)) = "dir"
    <3>1. parentName(p) \in Places /\ ~Within(p, parentName(p)) /\ Within(parentName(p), p)
      BY ParentIs
    <3>2. ~Within(q, parentName(p))
      BY <1>2, <2>3, <3>1, WithinOrder
    <3>3. Renamed(p, q, parentName(p)) = Seen(upper, parentName(p))
      BY <3>1, <3>2, RenamedIs
    <3>4. Seen(upper, parentName(p)) = "dir"
      BY <2>1, <2>4, SeenIsTree
    <3> QED BY <2>6, <3>1, <3>3, <3>4
  <2>9. /\ hidden \in Runs /\ hidden.ok /\ hidden.past \subseteq moved.past \cup Lifted(x)
        /\ \A s \in Places : Seen(hidden.now, s) = IF Within(p, s) THEN "absent" ELSE Seen(x, s)
        /\ \A s \in Places : x.node[s] # "absent" => hidden.now.node[s] = x.node[s]
    BY <2>1, <2>2, <2>5, <2>8, HideSees
  <2>10. GoodRun(moved)
    <3>1. GoodRun(allowed)
      BY RenameIs DEF allowed
    <3>2. Good(x)
      BY <1>4, <1>6 DEF x, u
    <3> QED BY <2>1, <3>1, <3>2, GoodDo DEF moved, u
  <2>11. Upright(hidden.now)
    BY <2>10, GoodWhiteout DEF GoodRun, Good
  <2> HIDE DEF hidden
  <2>12. \A s \in Places : Seen(hidden.now, s) = Renamed(p, q, s)
    BY <2>6, <2>7, <2>9
  <2>13. /\ r.ok /\ \A s \in Places : Seen(r.now, s) = Renamed(p, q, s)
         /\ r.past \subseteq hidden.past \cup {hidden.now}
    <3>1. CASE hidden.now.node[q] \in Contents
      <4>1. /\ r.ok /\ r.past \subseteq hidden.past \cup {hidden.now}
            /\ r.now = Unmarked(hidden.now, q)
        BY <1>1, <2>9, <3>1, ClearIs DEF Unmarked
      <4>2. \A s \in Places : Seen(r.now, s) = Seen(hidden.now, s)
        BY <2>11, <3>1, <4>1, UnmarkedFileSees
      <4> QED BY <2>12, <4>1, <4>2
    <3>2. CASE hidden.now.node[q] \notin Contents
      BY <1>1, <2>9, <2>12, <3>2
    <3> QED BY <3>1, <3>2
  <2>14. ASSUME NEW w \in r.past, NEW s \in Paths PROVE Seen(w, s) \in {Seen(upper, s), Seen(r.now, s), lower[s]}
    <3>1. s \in Places
      BY PlacesAre
    <3>2. CASE w \in allowed.past \cup {u}
      <4>1. Same(w, upper)
        BY <1>3, <3>2 DEF u
      <4> QED BY <3>1, <4>1 DEF Same
    <3>3. CASE w \in Lifted(x)
      <4>1. Seen(w, s) = Seen(x, s)
        BY <2>1, <3>1, <3>3, LiftedSees
      <4>2. CASE Within(p, s)
        <5>1. Seen(x, s) \in {"absent", lower[s]}
          BY <2>5, <3>1, <4>2 DEF Seen
        <5> QED BY <2>7, <2>13, <3>1, <4>1, <4>2, <5>1
      <4>3. CASE ~Within(p, s)
        BY <2>6, <2>13, <3>1, <4>1, <4>3
      <4> QED BY <4>2, <4>3
    <3>4. CASE w = hidden.now
      BY <2>12, <2>13, <3>1, <3>4
    <3> QED BY <2>2, <2>9, <2>13, <2>14, <3>2, <3>3, <3>4
  <2>15. Torn(r) /\ Kept(r)
    BY <2>13, <2>14 DEF Torn, Kept
  <2> QED BY <2>3, <2>4, <2>13, <2>15 DEF r
<1> QED BY <1>5, <1>6

-----------------------------------------------------------------------------
(* The properties of the runs.                                             *)

\* Every run that may start is Torn.
LEMMA ViewTorn == ASSUME Strict, OverlayInv PROVE TornReadsOldNewOrLower
<1>1. Good(upper) /\ lower \in Lowers
  BY DEF OverlayInv
<1>2. ASSUME NEW r, Torn(r) PROVE \A u \in r.past : \A p \in Paths : Seen(u, p) \in {view[p], Seen(r.now, p), lower[p]}
  BY <1>2, PlacesAre DEF Torn, view
<1> DEFINE runs(p, c) == {CreateFileRun(p, c), WriteFileRun(p, c), AppendFileRun(p), MkdirRun(p), MkdirAllRun(p),
                          TouchRun(p), RemoveRun(p), RemoveAllRun(p)}
           targets == {s \in Paths : WriteTarget(s)}
           renames == {x \in Paths \X Paths : RenameTarget(x[1], x[2]) /\ Fits(x[1], x[2])}
           perPath == {runs(p, c) : p \in targets, c \in Written}
           moves == {RenameRun(s[1], s[2]) : s \in renames}
<1>3. Attempts = (UNION perPath) \cup moves
  BY DEF Attempts
<1>4. ASSUME NEW p \in targets, NEW c \in Written PROVE \A r \in runs(p, c) : Torn(r)
  <2>1. p \in Paths /\ WriteTarget(p)
    OBVIOUS
  <2>2. Torn(CreateFileRun(p, c)) /\ Torn(WriteFileRun(p, c)) /\ Torn(AppendFileRun(p))
    BY <1>1, <2>1, CreateFileSees, WriteFileSees, AppendFileSees DEF FileWritten
  <2>3. Torn(MkdirRun(p)) /\ Torn(MkdirAllRun(p)) /\ Torn(TouchRun(p))
    BY <1>1, <2>1, MkdirSees, MkdirAllSees, TouchSees
  <2>4. Torn(RemoveRun(p)) /\ Torn(RemoveAllRun(p))
    BY <1>1, <2>1, RemoveSees, RemoveAllSees DEF Gone
  <2> QED BY <2>2, <2>3, <2>4
<1>5. ASSUME NEW s \in renames PROVE Torn(RenameRun(s[1], s[2]))
  <2>1. s[1] \in Paths /\ s[2] \in Paths /\ RenameTarget(s[1], s[2]) /\ Fits(s[1], s[2])
    OBVIOUS
  <2> QED BY <1>1, <2>1, RenameSees
<1> HIDE DEF runs, targets, renames
<1>6. ASSUME NEW r \in Attempts PROVE Torn(r)
  <2>1. (\E S \in perPath : r \in S) \/ r \in moves
    <3> HIDE DEF perPath, moves
    <3> QED BY <1>3
  <2>2. CASE \E p \in targets, c \in Written : r \in runs(p, c)
    <3>1. PICK p \in targets, c \in Written : r \in runs(p, c)
      BY <2>2
    <3> QED BY <1>4, <3>1
  <2>3. CASE r \in moves
    <3>1. PICK s \in renames : r = RenameRun(s[1], s[2])
      BY <2>3
    <3> QED BY <1>5, <3>1
  <2>4. ASSUME NEW S \in perPath, r \in S
        PROVE  \E p \in targets, c \in Written : r \in runs(p, c)
    <3>1. PICK p \in targets, c \in Written : S = runs(p, c)
      BY <2>4
    <3> QED BY <2>4, <3>1
  <2> QED BY <2>1, <2>2, <2>3, <2>4
<1> QED BY <1>2, <1>6 DEF TornReadsOldNewOrLower

\* A torn operation loses no data but its own: at every call in between, each
\* entry reads as before, as after, or as the lower layer has it.
THEOREM OverlayTears ==
  ASSUME Early = {}, DirTargets = FALSE
  PROVE  Spec => []TornReadsOldNewOrLower
<1>1. Strict
  BY DEF Strict
<1>2. OverlayInv => TornReadsOldNewOrLower
  BY <1>1, ViewTorn
<1> QED BY <1>2, OverlayInvariant, PTL

-----------------------------------------------------------------------------
\* The operators of FileTree are those of Overlay.
LEMMA TreeNames ==
  /\ Tree!Places = Places
  /\ \A p : Tree!Parent(p) = parentName(p) /\ Tree!Children(p) = Children(p)
  /\ \A p, q : Tree!Within(p, q) = Within(p, q)
  /\ \A p, q, r : Tree!Moved(r, p, q) = Moved(r, p, q)
  BY DEF Tree!Places, Tree!Root, Tree!Parent, Tree!Children, Tree!Within, Tree!Moved,
         Places, Root, parentName, Children, Within, Moved

\* The lower layer never changes, so what is seen next depends on the next upper layer.
LEMMA ViewNext == ASSUME UNCHANGED lower PROVE view' = [p \in Places |-> Seen(upper', p)]
  BY DEF view, Seen, Blocked, whitedOut

\* An operation that is not torn shows the upper layer it ends with; one that fails shows what it began with.
LEMMA StepShows ==
  ASSUME NEW r, Kept(r), Perform(r)
  PROVE  /\ outcome' = "failed" => UNCHANGED view
         /\ outcome' = "done" => r.ok /\ view' = [p \in Places |-> Seen(r.now, p)]
<1>1. view' = [p \in Places |-> Seen(upper', p)]
  BY ViewNext DEF Perform
<1>2. view = [p \in Places |-> Seen(upper, p)]
  BY DEF view
<1>3. CASE upper' = r.now /\ outcome' = (IF r.ok THEN "done" ELSE "failed")
  <2>1. view' = [p \in Places |-> Seen(r.now, p)]
    BY <1>1, <1>3
  <2>2. ~r.ok => view' = view
    BY <1>2, <2>1 DEF Kept, Same
  <2> QED BY <1>3, <2>1, <2>2
<1>4. CASE outcome' = "torn"
  BY <1>4
<1> QED BY <1>3, <1>4 DEF Perform

\* A run that writes a file shows the tree with the file written.
LEMMA StepWritesFile ==
  ASSUME OverlayInv, NEW r, NEW p \in Paths, NEW c, FileWritten(r, p, c), Perform(r), outcome' = "done"
  PROVE  /\ view[Tree!Parent(p)] = "dir" /\ view[p] # "dir" /\ view[p] = Seen(upper, p)
         /\ view' = [view EXCEPT ![p] = c]
<1>1. /\ view' = [s \in Places |-> Seen(r.now, s)] /\ r.ok
  BY StepShows DEF FileWritten
<1>2. view = [s \in Places |-> Seen(upper, s)]
  BY DEF view
<1>3. p \in Places /\ parentName(p) \in Places
  BY ParentIs
<1>4. /\ Seen(upper, parentName(p)) = "dir" /\ Seen(upper, p) # "dir"
      /\ \A s \in Places : Seen(r.now, s) = IF s = p THEN c ELSE Seen(upper, s)
  BY <1>1 DEF FileWritten
<1> QED BY <1>1, <1>2, <1>3, <1>4, TreeNames

\* CreateFile is a write of the tree.
LEMMA StepCreateFile ==
  ASSUME OverlayInv, NEW p \in Paths, CreateFile(p)
  PROVE  /\ outcome' = "done" => Tree!WriteFile(p)
         /\ outcome' = "failed" => UNCHANGED view
<1>1. PICK c \in Written : Perform(CreateFileRun(p, c))
  BY DEF CreateFile
<1>2. FileWritten(CreateFileRun(p, c), p, c)
  BY CreateFileSees DEF OverlayInv
<1> QED BY <1>1, <1>2, StepWritesFile, StepShows DEF FileWritten, Tree!WriteFile

\* WriteFile is a write of the tree.
LEMMA StepWriteFile ==
  ASSUME OverlayInv, Strict, NEW p \in Paths, WriteFile(p)
  PROVE  /\ outcome' = "done" => Tree!WriteFile(p)
         /\ outcome' = "failed" => UNCHANGED view
<1>1. PICK c \in Written : Perform(WriteFileRun(p, c))
  BY DEF WriteFile
<1>2. FileWritten(WriteFileRun(p, c), p, c)
  BY WriteFileSees DEF OverlayInv, WriteFile
<1> QED BY <1>1, <1>2, StepWritesFile, StepShows DEF FileWritten, Tree!WriteFile

\* AppendFile is an append of the tree.
LEMMA StepAppendFile ==
  ASSUME OverlayInv, NEW p \in Paths, AppendFile(p)
  PROVE  /\ outcome' = "done" => Tree!AppendFile(p)
         /\ outcome' = "failed" => UNCHANGED view
<1>1. Perform(AppendFileRun(p))
  BY DEF AppendFile
<1>2. FileWritten(AppendFileRun(p), p, Longer[Seen(upper, p)])
  BY AppendFileSees DEF OverlayInv
<1> QED BY <1>1, <1>2, StepWritesFile, StepShows DEF FileWritten, Tree!AppendFile

\* Mkdir is a mkdir of the tree.
LEMMA StepMkdir ==
  ASSUME OverlayInv, NEW p \in Paths, Mkdir(p)
  PROVE  /\ outcome' = "done" => Tree!Mkdir(p)
         /\ outcome' = "failed" => UNCHANGED view
<1> DEFINE r == MkdirRun(p)
<1>1. /\ Kept(r) /\ Perform(r)
      /\ r.ok => /\ Seen(upper, parentName(p)) = "dir" /\ Seen(upper, p) = "absent"
                 /\ \A s \in Places : Seen(r.now, s) = IF s = p THEN "dir" ELSE Seen(upper, s)
  BY MkdirSees DEF OverlayInv, Mkdir
<1> HIDE DEF r
<1>2. /\ outcome' = "failed" => UNCHANGED view
      /\ outcome' = "done" => r.ok /\ view' = [s \in Places |-> Seen(r.now, s)]
  BY <1>1, StepShows
<1>3. view = [s \in Places |-> Seen(upper, s)]
  BY DEF view
<1>4. p \in Places /\ parentName(p) \in Places
  BY ParentIs
<1> QED BY <1>1, <1>2, <1>3, <1>4, TreeNames DEF Tree!Mkdir

\* MkdirAll is a mkdir -p of the tree.
LEMMA StepMkdirAll ==
  ASSUME OverlayInv, NEW p \in Paths, MkdirAll(p)
  PROVE  /\ outcome' = "done" => Tree!MkdirAll(p)
         /\ outcome' = "failed" => UNCHANGED view
<1> DEFINE r == MkdirAllRun(p)
<1>1. /\ Kept(r) /\ Perform(r)
      /\ r.ok => /\ \A s \in Paths : Within(s, p) => Seen(upper, s) \in {"dir", "absent"}
                 /\ \A s \in Places : Seen(r.now, s) = IF Within(s, p) THEN "dir" ELSE Seen(upper, s)
  BY MkdirAllSees DEF OverlayInv, MkdirAll
<1> HIDE DEF r
<1>2. /\ outcome' = "failed" => UNCHANGED view
      /\ outcome' = "done" => r.ok /\ view' = [s \in Places |-> Seen(r.now, s)]
  BY <1>1, StepShows
<1>3. \A s \in Places : view[s] = Seen(upper, s)
  BY DEF view
<1>4. Paths \subseteq Places
  BY PlacesAre
<1>5. ASSUME outcome' = "done" PROVE Tree!MkdirAll(p)
  <2>1. \A s \in Paths : Within(s, p) => view[s] \in {"dir", "absent"}
    BY <1>1, <1>2, <1>3, <1>4, <1>5
  <2>2. view' = [s \in Places |-> IF Within(s, p) THEN "dir" ELSE view[s]]
    BY <1>1, <1>2, <1>3, <1>5
  <2> QED BY <2>1, <2>2, TreeNames DEF Tree!MkdirAll
<1> QED BY <1>2, <1>5

\* Chmod and Chtimes are no step of the tree.
LEMMA StepTouch ==
  ASSUME OverlayInv, NEW p \in Paths, Touch(p)
  PROVE  outcome' \in {"done", "failed"} => UNCHANGED view
<1> DEFINE r == TouchRun(p)
<1>1. Kept(r) /\ Perform(r) /\ Same(r.now, upper)
  BY TouchSees DEF OverlayInv, Touch
<1> HIDE DEF r
<1>2. /\ outcome' = "failed" => UNCHANGED view
      /\ outcome' = "done" => view' = [s \in Places |-> Seen(r.now, s)]
  BY <1>1, StepShows
<1>3. view = [s \in Places |-> Seen(upper, s)]
  BY DEF view
<1> QED BY <1>1, <1>2, <1>3 DEF Same

\* Remove is a removal of the tree.
LEMMA StepRemove ==
  ASSUME OverlayInv, Strict, NEW p \in Paths, Remove(p)
  PROVE  /\ outcome' = "done" => Tree!Remove(p)
         /\ outcome' = "failed" => UNCHANGED view
<1> DEFINE r == RemoveRun(p)
<1>1. /\ Gone(r, p) /\ Perform(r)
      /\ r.ok => Seen(upper, p) # "absent" /\ \A s \in Children(p) : Seen(upper, s) = "absent"
  BY RemoveSees DEF OverlayInv, Remove
<1> HIDE DEF r
<1>2. /\ outcome' = "failed" => UNCHANGED view
      /\ outcome' = "done" => r.ok /\ view' = [s \in Places |-> Seen(r.now, s)]
  BY <1>1, StepShows DEF Gone
<1>3. view = View(upper) /\ IsTree(view) /\ \A s \in Places : view[s] = Seen(upper, s)
  BY ViewIs DEF view, View, OverlayInv, Good
<1>4. Children(p) \subseteq Places /\ p \in Places /\ Within(p, p)
  BY PlacesAre, WithinOrder DEF Children
<1>5. ASSUME outcome' = "done" PROVE Tree!Remove(p)
  <2>1. view[p] # "absent" /\ \A s \in Children(p) : view[s] = "absent"
    BY <1>1, <1>2, <1>3, <1>4, <1>5
  <2>2. \A s \in Places : Within(p, s) /\ s # p => view[s] = "absent"
    BY <1>3, <2>1, NothingBelowChildless
  <2>3. view' = [s \in Places |-> IF Within(p, s) THEN "absent" ELSE view[s]]
    BY <1>1, <1>2, <1>3, <1>5 DEF Gone
  <2>4. view' = [view EXCEPT ![p] = "absent"]
    <3>1. DOMAIN view = Places
      BY DEF view
    <3>2. view = [s \in Places |-> view[s]]
      BY <1>3 DEF IsTree
    <3> HIDE DEF view
    <3> QED BY <1>4, <2>2, <2>3, <3>2
  <2> QED BY <2>1, <2>4, TreeNames DEF Tree!Remove
<1> QED BY <1>2, <1>5

\* RemoveAll is a removal of the tree.
LEMMA StepRemoveAll ==
  ASSUME OverlayInv, NEW p \in Paths, RemoveAll(p)
  PROVE  /\ outcome' = "done" => Tree!RemoveAll(p)
         /\ outcome' = "failed" => UNCHANGED view
<1> DEFINE r == RemoveAllRun(p)
<1>1. Gone(r, p) /\ Perform(r)
  BY RemoveAllSees DEF OverlayInv, RemoveAll
<1> HIDE DEF r
<1>2. /\ outcome' = "failed" => UNCHANGED view
      /\ outcome' = "done" => r.ok /\ view' = [s \in Places |-> Seen(r.now, s)]
  BY <1>1, StepShows DEF Gone
<1>3. \A s \in Places : view[s] = Seen(upper, s)
  BY DEF view
<1>4. outcome' = "done" => view' = [s \in Places |-> IF Within(p, s) THEN "absent" ELSE view[s]]
  BY <1>1, <1>2, <1>3 DEF Gone
<1> QED BY <1>2, <1>4, TreeNames DEF Tree!RemoveAll

\* Rename is a rename of the tree.
LEMMA StepRename ==
  ASSUME OverlayInv, Strict, NEW p \in Paths, NEW q \in Paths, Rename(p, q)
  PROVE  /\ outcome' = "done" => Tree!Rename(p, q)
         /\ outcome' = "failed" => UNCHANGED view
<1> DEFINE r == RenameRun(p, q)
<1>1. Kept(r) /\ Perform(r)
  BY RenameSees DEF OverlayInv, Rename
<1>2. r.ok => /\ Seen(upper, p) # "absent" /\ ~Within(p, q) /\ Seen(upper, parentName(q)) = "dir"
              /\ Seen(upper, q) # "absent" => (Seen(upper, q) = "dir") = (Seen(upper, p) = "dir")
              /\ \A s \in Places : Within(q, s) /\ s # q => Seen(upper, s) = "absent"
              /\ \A s \in Places : Seen(r.now, s) = Renamed(p, q, s)
  BY RenameSees DEF OverlayInv, Rename
<1> HIDE DEF r
<1>3. /\ outcome' = "failed" => UNCHANGED view
      /\ outcome' = "done" => r.ok /\ view' = [s \in Places |-> Seen(r.now, s)]
  BY <1>1, StepShows
<1>4. \A s \in Places : view[s] = Seen(upper, s)
  BY DEF view
<1>5. p \in Places /\ q \in Places /\ parentName(q) \in Places /\ Paths \subseteq Places
  BY PlacesAre
<1> DEFINE from(s) == CHOOSE t \in Paths : Within(p, t) /\ s = Moved(t, p, q)
           after(s) == IF \E t \in Paths : Within(p, t) /\ s = Moved(t, p, q) THEN view[from(s)]
                       ELSE IF Within(p, s) THEN "absent" ELSE view[s]
<1>6. ASSUME NEW s \in Places PROVE Renamed(p, q, s) = after(s)
  <2>1. CASE \E t \in Paths : Within(p, t) /\ s = Moved(t, p, q)
    <3>1. from(s) \in Paths
      BY <2>1
    <3>2. Renamed(p, q, s) = Seen(upper, from(s))
      BY <2>1 DEF Renamed, Comes
    <3>3. after(s) = view[from(s)]
      BY <2>1
    <3> HIDE DEF from, after
    <3> QED BY <1>4, <1>5, <3>1, <3>2, <3>3
  <2>2. CASE ~\E t \in Paths : Within(p, t) /\ s = Moved(t, p, q)
    BY <1>4, <2>2 DEF Renamed, Comes
  <2> QED BY <2>1, <2>2
<1>7. ASSUME outcome' = "done" PROVE Tree!Rename(p, q)
  <2>1. /\ view[p] # "absent" /\ ~Within(p, q) /\ view[parentName(q)] = "dir"
        /\ view[q] # "absent" => (view[q] = "dir") = (view[p] = "dir")
    BY <1>2, <1>3, <1>4, <1>5, <1>7
  <2>2. \A s \in Children(q) : view[s] = "absent"
    <3>1. \A s \in Children(q) : s \in Places /\ Within(q, s) /\ s # q
      BY ParentIs DEF Children
    <3> QED BY <1>2, <1>3, <1>4, <1>7, <3>1
  <2>3. view' = [s \in Places |-> after(s)]
    <3> HIDE DEF after
    <3> QED BY <1>2, <1>3, <1>6, <1>7
  <2>4. Tree!Within(p, q) = Within(p, q) /\ Tree!Parent(q) = parentName(q) /\ Tree!Children(q) = Children(q)
        /\ Tree!Places = Places
    BY TreeNames
  <2>5. view' = [s \in Tree!Places |->
                   IF \E t \in Paths : Tree!Within(p, t) /\ s = Tree!Moved(t, p, q)
                     THEN view[CHOOSE t \in Paths : Tree!Within(p, t) /\ s = Tree!Moved(t, p, q)]
                   ELSE IF Tree!Within(p, s) THEN "absent"
                   ELSE view[s]]
    BY <2>3, <2>4 DEF Within, Moved, Tree!Within, Tree!Moved
  <2> QED BY <2>1, <2>2, <2>4, <2>5 DEF Tree!Rename
<1> QED BY <1>3, <1>7

\* Seen through the overlay, an operation that is not torn is one operation on one tree.
LEMMA NextImplements ==
  ASSUME OverlayInv, Strict, Next
  PROVE  /\ outcome' = "done" => Tree!Next \/ UNCHANGED view
         /\ outcome' = "failed" => UNCHANGED view
<1>1. PICK p \in Paths :
        \/ CreateFile(p) \/ WriteFile(p) \/ AppendFile(p) \/ Mkdir(p) \/ MkdirAll(p)
        \/ Touch(p) \/ Remove(p) \/ RemoveAll(p)
        \/ \E q \in Paths : Rename(p, q)
  BY DEF Next
<1>2. CASE \/ CreateFile(p) \/ WriteFile(p) \/ AppendFile(p) \/ Mkdir(p) \/ MkdirAll(p)
           \/ Remove(p) \/ RemoveAll(p)
  <2>1. /\ outcome' = "failed" => UNCHANGED view
        /\ outcome' = "done" => \/ Tree!WriteFile(p) \/ Tree!AppendFile(p) \/ Tree!Mkdir(p) \/ Tree!MkdirAll(p)
                                \/ Tree!Remove(p) \/ Tree!RemoveAll(p)
    BY <1>2, StepCreateFile, StepWriteFile, StepAppendFile, StepMkdir, StepMkdirAll, StepRemove, StepRemoveAll
  <2> QED BY <2>1 DEF Tree!Next
<1>3. CASE Touch(p)
  BY <1>3, StepTouch
<1>4. CASE \E q \in Paths : Rename(p, q)
  <2>1. PICK q \in Paths : Rename(p, q)
    BY <1>4
  <2>2. /\ outcome' = "failed" => UNCHANGED view
        /\ outcome' = "done" => Tree!Rename(p, q)
    BY <2>1, StepRename
  <2> QED BY <2>2 DEF Tree!Next
<1> QED BY <1>1, <1>2, <1>3, <1>4

\* Seen through the overlay, an operation that is done is one operation on one
\* writable tree, or changes nothing; one that fails changes nothing.
THEOREM OverlayImplementsTree ==
  ASSUME Early = {}, DirTargets = FALSE
  PROVE  Spec => ImplementsTree
<1>1. Strict
  BY DEF Strict
<1> DEFINE promise == /\ outcome' = "done" => Tree!Next \/ UNCHANGED view
                      /\ outcome' = "failed" => UNCHANGED view
<1>2. OverlayInv /\ [Next]_vars => [promise]_vars
  BY <1>1, NextImplements
<1>3. Spec => []OverlayInv
  BY OverlayInvariant
<1> QED BY <1>2, <1>3, PTL DEF Spec, ImplementsTree
=============================================================================
