--------------------------- MODULE CopyMount_proofs ---------------------------
(***************************************************************************)
(* What is proved of mounts: they leave alone what their policy leaves     *)
(* alone, at each of their calls, one that succeeds is complete, and one   *)
(* that stopped is finished by another that merges.  The invariant of the  *)
(* filesystem that they work on is that of Memory_proofs.                  *)
(***************************************************************************)
EXTENDS Memory_proofs

-----------------------------------------------------------------------------
(* What a mount leaves alone.                                              *)

\* The names of a copy: directories that are made, files that are written and
\* links that replace what is there.
Layout(D, F, L) ==
  /\ D \cup F \cup L \subseteq Below /\ L \cap (D \cup F) = {}
  /\ \A x \in D \cup F \cup L : parent(x) = Root \/ parent(x) \in D

\* No link leads directories and files elsewhere.
Straight(D, F, m) == \A x \in D \cup F : nodeAt(m, x).kind # "link"

\* What is at the names in P is what it was in b, and no file is one of them.
Leaves(b, P, F, m) ==
  \A p \in P : /\ m.at[p] = b.at[p] /\ Content(m, p) = Content(b, p)
               /\ \A x \in F \cap Places : m.at[x] # m.at[p]

\* Those names have nothing to do with the links.
Spared(b, P, L) == P \subseteq Places /\ \A p \in P : b.at[p] # 0 /\ \A x \in L : ~Prefix(x, p)

Kept(b, P, D, F) == {m \in Goods : Straight(D, F, m) /\ Leaves(b, P, F, m)}
Copies(D, F, L) == {c \in Calls : /\ c.op = "mkdir" => c.name \in D
                                  /\ c.op = "write" => c.name \in F
                                  /\ c.op \in {"removeAll", "symlink"} => c.name \in L}

\* A lookup that meets no link ends at its name.
LEMMA Plain ==
  ASSUME NEW m \in Memories, NEW n \in Clean, NEW final \in BOOLEAN,
         \A i \in 1 .. Len(n) : KindAt(m, n, i) = "link" => ~final /\ i = Len(n),
         resolveLocked(m, n, final).err = "ok"
  PROVE  resolveLocked(m, n, final).at = n
<1> DEFINE w == WalkTo(m, n, final)
           S == Stops(m, n, final)
           k == Sets!Min(S)
           r == resolveLocked(m, n, final)
<1>1. w \in Walks /\ (w.err = "ok" => w.at = n)
  BY WalkToType
<1>2. w.err # "follow"
  <2>1. CASE S = {}
    <3>1. w = Ended("ok", n)
      BY <2>1, WalkToEnd
    <3> HIDE DEF w
    <3> QED BY <3>1, EndedIs
  <2>2. CASE S # {}
    <3>1. /\ k \in S /\ k \in 1 .. Len(n)
          /\ KindAt(m, n, k) = "none" => w = Ended("notexist", SubSeq(n, 1, k))
          /\ KindAt(m, n, k) = "file" => w = Ended("notdir", SubSeq(n, 1, k))
          /\ KindAt(m, n, k) \in {"none", "file", "link"}
      BY <2>2, WalkToStop
    <3>2. KindAt(m, n, k) = "link" => final \/ k < Len(n)
      BY <3>1, StopsAre
    <3>3. KindAt(m, n, k) # "link"
      <4> HIDE DEF k, S
      <4>1. Len(n) \in Nat
        BY DEF Clean
      <4> QED BY <3>1, <3>2, <4>1
    <3> HIDE DEF k, w
    <3> QED BY <3>1, <3>3, EndedIs
  <2> QED BY <2>1, <2>2
<1>3. PICK W : /\ r = W[LinkHops][w]
               /\ \A h \in 0 .. LinkHops, x \in Walks : x.err # "follow" => W[h][x] = x
  BY Resolved
<1>4. LinkHops \in 0 .. LinkHops
  BY DEF LinkHops
<1>5. r.err = "ok"
  OBVIOUS
<1> HIDE DEF w, r
<1>6. r = w
  BY <1>1, <1>2, <1>3, <1>4
<1> QED BY <1>1, <1>5, <1>6 DEF r

\* What a name of the copy lies in is a directory of the copy.
LEMMA LayoutUp ==
  ASSUME NEW D, NEW F, NEW L, Layout(D, F, L), NEW n \in D \cup F \cup L
  PROVE  \A i \in 1 .. Len(n) - 1 : SubSeq(n, 1, i) \in D
<1> DEFINE N == D \cup F \cup L
           T == {l \in Nat : \A x \in N : Len(x) = l => \A i \in 1 .. l - 1 : SubSeq(x, 1, i) \in D}
<1>1. \A x \in N : x \in Clean /\ x # Root /\ (parent(x) = Root \/ parent(x) \in D)
  BY DEF Layout, Below
<1>2. 0 \in T
  OBVIOUS
<1>3. ASSUME NEW l \in Nat, l \in T PROVE l + 1 \in T
  <2>1. ASSUME NEW x \in N, Len(x) = l + 1, NEW i \in 1 .. l PROVE SubSeq(x, 1, i) \in D
    <3> DEFINE y == parent(x)
    <3>1. y \in Clean /\ Len(y) = l /\ \A j \in 1 .. l : SubSeq(y, 1, j) = SubSeq(x, 1, j)
      <4>1. parent(x) \in Clean /\ Len(parent(x)) = Len(x) - 1
            /\ \A j \in 1 .. Len(x) - 1 : SubSeq(parent(x), 1, j) = SubSeq(x, 1, j)
        BY <1>1, NameIs
      <4> QED BY <2>1, <4>1
    <3>2. y # Root
      <4>1. Len(Root) = 0
        BY DEF Root
      <4> QED BY <3>1, <4>1
    <3>3. y \in D
      BY <1>1, <2>1, <3>2
    <3> HIDE DEF y
    <3>4. CASE i = l
      <4>1. SubSeq(y, 1, l) = y
        BY <3>1 DEF Clean
      <4> QED BY <3>1, <3>3, <3>4, <4>1
    <3>5. CASE i # l
      <4>1. i \in 1 .. l - 1
        BY <2>1, <3>5
      <4>2. SubSeq(y, 1, i) \in D
        BY <1>3, <3>1, <3>3, <4>1
      <4> QED BY <2>1, <3>1, <4>2
    <3> QED BY <3>4, <3>5
  <2> HIDE DEF N
  <2>2. l + 1 - 1 = l
    OBVIOUS
  <2> QED BY <2>1, <2>2
<1>4. Nat \subseteq T
  <2>1. \A l \in Nat : l \in T => l + 1 \in T
    BY <1>3
  <2> HIDE DEF T
  <2> QED BY <1>2, <2>1, Induct
<1>5. Len(n) \in Nat /\ n \in N
  BY <1>1 DEF Clean
<1> QED BY <1>4, <1>5

\* A name of the copy is looked up at the name itself, links not followed at the end.
LEMMA FoundStraight ==
  ASSUME NEW D, NEW F, NEW L, Layout(D, F, L), NEW m \in Goods, Straight(D, F, m),
         NEW n, n \in D \cup F \cup L
  PROVE  /\ n \in D \cup F /\ Open(m, n).err = "ok" => Open(m, n).at = n
         /\ Lstat(m, n).err = "ok" => Lstat(m, n).at = n
<1>1. n \in Clean
  BY DEF Layout, Below
<1>2. Len(n) \in Nat /\ SubSeq(n, 1, Len(n)) = n
  BY <1>1 DEF Clean
<1>3. \A i \in 1 .. Len(n) - 1 : SubSeq(n, 1, i) \in D
  BY LayoutUp
<1>4. ASSUME NEW i \in 1 .. Len(n), KindAt(m, n, i) = "link" PROVE n \notin D \cup F /\ i = Len(n)
  <2>1. SubSeq(n, 1, i) \notin D \cup F
    BY <1>4 DEF Straight, KindAt
  <2>2. i = Len(n)
    <3> SUFFICES ASSUME i # Len(n) PROVE FALSE
      OBVIOUS
    <3>1. i \in 1 .. Len(n) - 1
      <4> DEFINE l == Len(n)
      <4>1. l \in Nat /\ i \in 1 .. l /\ i # l
        BY <1>2
      <4> HIDE DEF l
      <4>2. i \in 1 .. l - 1
        BY <4>1
      <4> QED BY <4>2 DEF l
    <3> QED BY <1>3, <2>1, <3>1
  <2> QED BY <1>2, <2>1, <2>2
<1>5. n \in D \cup F /\ Open(m, n).err = "ok" => Open(m, n).at = n
  BY <1>1, <1>4, Plain, GoodsAre DEF Open
<1>6. Lstat(m, n).err = "ok" => Lstat(m, n).at = n
  BY <1>1, <1>4, Plain, GoodsAre DEF Lstat
<1> QED BY <1>5, <1>6

\* Its slot is the name itself.
LEMMA SlotStraight ==
  ASSUME NEW D, NEW F, NEW L, Layout(D, F, L), NEW m \in Goods, Straight(D, F, m),
         NEW n \in D \cup F \cup L, Slot(m, n).err = "ok"
  PROVE  Slot(m, n).at = n
<1> DEFINE y == parent(n)
<1>1. n \in Clean /\ n # Root
  BY DEF Layout, Below
<1>2. /\ y \in Clean /\ Len(n) \in Nat \ {0} /\ Len(y) = Len(n) - 1 /\ n = Append(y, n[Len(n)])
      /\ \A i \in 1 .. Len(n) - 1 : SubSeq(y, 1, i) = SubSeq(n, 1, i)
  BY <1>1, NameIs
<1>3. Open(m, y).err = "ok" /\ Slot(m, n).at = Append(Open(m, y).at, n[Len(n)])
  BY <1>1, SlotBelow
<1> HIDE DEF y
<1>4. ASSUME NEW i \in 1 .. Len(y) PROVE KindAt(m, y, i) # "link"
  <2>1. i \in 1 .. Len(n) - 1
    BY <1>2
  <2>2. SubSeq(y, 1, i) \in D
    BY <1>2, <2>1, LayoutUp
  <2> QED BY <2>2 DEF Straight, KindAt
<1>5. Open(m, y).at = y
  BY <1>2, <1>3, <1>4, Plain, GoodsAre DEF Open
<1> QED BY <1>2, <1>3, <1>5

\* A new entry of the copy, where there was nothing.
LEMMA InsertKeeps ==
  ASSUME NEW b, NEW P, NEW D, NEW F, NEW L, Layout(D, F, L), Spared(b, P, L), NEW m \in Kept(b, P, D, F),
         NEW x \in Below, nodeAt(m, parent(x)).kind = "dir", nodeAt(m, x).kind = "none",
         NEW n, Fits(m, n), n.kind = "link" => x \notin D \cup F
  PROVE  Insert(m, x, n).fs \in Kept(b, P, D, F)
<1> DEFINE r == Insert(m, x, n)
           k == r.fs
<1>1. m \in Goods /\ Straight(D, F, m) /\ Leaves(b, P, F, m) /\ m \in Memories /\ Counted(m)
  BY GoodsAre DEF Kept
<1>2. CASE r.err # "ok"
  <2>1. x \notin Places \/ Fresh(m) = {}
    <3> SUFFICES ASSUME x \in Places, Fresh(m) # {} PROVE FALSE
      OBVIOUS
    <3>1. r = Then(Sets!Min(Fresh(m)), LAMBDA i :
                Answer([at   |-> [m.at EXCEPT ![x] = i],
                        node |-> [j \in Ids |-> IF j = i THEN n
                                                ELSE IF j = m.at[x] THEN Nothing
                                                ELSE m.node[j]],
                        used |-> m.used + n.size], "ok"))
      BY DEF Insert
    <3>2. \E h : r = Answer(h, "ok")
      BY <3>1 DEF Then
    <3> HIDE DEF r
    <3>3. r.err = "ok"
      BY <3>2 DEF Answer
    <3> QED BY <1>2, <3>3
  <2>2. r = Answer(m, "bound")
    BY <2>1 DEF Insert
  <2>3. k = m
    BY <2>2 DEF Answer
  <2> QED BY <2>3
<1>3. CASE r.err = "ok"
  <2>1. /\ k \in Goods /\ x \in Places /\ nodeAt(k, x) = n
        /\ \A q : q # x => nodeAt(k, q) = nodeAt(m, q)
        /\ \A q \in Places : q # x => k.at[q] = m.at[q] /\ m.at[q] # k.at[x]
    <3>1. /\ n \in Node /\ Sound(n) /\ n.links = 1 /\ (Limit > 0 => m.used + n.size <= Limit)
          /\ x \in Clean /\ x # Root /\ nodeAt(m, x).kind \in {"none", "link"} /\ r = Insert(m, x, n)
      BY DEF Fits, Below
    <3> HIDE DEF r
    <3> QED BY <1>1, <1>3, <3>1, InsertIs
  <2> HIDE DEF r, k
  <2>2. Straight(D, F, k)
    <3> SUFFICES ASSUME NEW y \in D \cup F PROVE nodeAt(k, y).kind # "link"
      BY DEF Straight
    <3>1. CASE y = x
      BY <2>1, <3>1
    <3>2. CASE y # x
      BY <1>1, <2>1, <3>2 DEF Straight
    <3> QED BY <3>1, <3>2
  <2>3. m.at[x] = 0
    <3> SUFFICES ASSUME m.at[x] # 0 PROVE FALSE
      OBVIOUS
    <3>1. nodeAt(m, x).kind \in {"file", "dir", "link"}
      BY <1>1, <2>1, NamedIs
    <3> QED BY <3>1
  <2>4. ASSUME NEW p \in P
        PROVE  /\ k.at[p] = b.at[p] /\ Content(k, p) = Content(b, p)
               /\ \A y \in F \cap Places : k.at[y] # k.at[p]
    <3>1. p \in Places /\ p # x
      BY <1>1, <2>3 DEF Spared, Leaves
    <3>2. k.at[p] = m.at[p] /\ nodeAt(k, p) = nodeAt(m, p) /\ m.at[p] # k.at[x]
      BY <2>1, <3>1
    <3>3. Content(k, p) = Content(m, p)
      BY <3>2 DEF Content
    <3>4. ASSUME NEW y \in F \cap Places PROVE k.at[y] # k.at[p]
      <4>1. CASE y = x
        BY <3>2, <4>1
      <4>2. CASE y # x
        BY <1>1, <2>1, <3>2, <4>2 DEF Leaves
      <4> QED BY <4>1, <4>2
    <3> QED BY <1>1, <3>2, <3>3, <3>4 DEF Leaves
  <2>5. Leaves(b, P, F, k)
    BY <2>4 DEF Leaves
  <2>6. k \in Kept(b, P, D, F)
    BY <2>1, <2>2, <2>5 DEF Kept
  <2> QED BY <2>6 DEF k, r
<1> QED BY <1>2, <1>3

\* The same in the slot of a name of the copy.
LEMMA InsertAtKeeps ==
  ASSUME NEW b, NEW P, NEW D, NEW F, NEW L, Layout(D, F, L), Spared(b, P, L), NEW m \in Kept(b, P, D, F),
         NEW x \in D \cup F \cup L, Slot(m, x).err = "ok" => nodeAt(m, x).kind = "none",
         NEW n, Fits(m, n), n.kind = "link" => x \in L
  PROVE  InsertAt(m, Slot(m, x), n).fs \in Kept(b, P, D, F)
<1> DEFINE s == Slot(m, x)
<1>1. m \in Goods /\ Straight(D, F, m)
  BY DEF Kept
<1>2. CASE s.err # "ok"
  <2>1. InsertAt(m, s, n) = Answer(m, s.err)
    BY <1>2 DEF InsertAt
  <2> HIDE DEF s
  <2>2. InsertAt(m, s, n).fs = m
    BY <2>1 DEF Answer
  <2> QED BY <2>2 DEF s
<1>3. CASE s.err = "ok"
  <2>1. s.at = x
    BY <1>1, <1>3, SlotStraight
  <2>2. x \in Below /\ x \in Clean /\ x # Root /\ (x \in L => x \notin D \cup F)
    BY DEF Layout, Below
  <2>3. nodeAt(m, parent(x)).kind = "dir"
    BY <1>1, <1>3, <2>1, <2>2, SlotIs
  <2>4. InsertAt(m, s, n) = Insert(m, x, n)
    BY <1>3, <2>1 DEF InsertAt
  <2> HIDE DEF s
  <2>5. nodeAt(m, x).kind = "none"
    BY <1>3 DEF s
  <2>6. Insert(m, x, n).fs \in Kept(b, P, D, F)
    BY <2>2, <2>3, <2>5, InsertKeeps
  <2> QED BY <2>4, <2>6 DEF s
<1> QED BY <1>2, <1>3

\* A call that answers without a change.
LEMMA AnswerIs == \A m, e : Answer(m, e).fs = m /\ Answer(m, e).err = e
  BY DEF Answer

\* A file of the copy is overwritten.
LEMMA OverwriteKeeps ==
  ASSUME NEW b, NEW P, NEW D, NEW F, NEW L, Layout(D, F, L), Spared(b, P, L), NEW m \in Kept(b, P, D, F),
         NEW x \in F, nodeAt(m, x).kind = "file", NEW n \in Nat
  PROVE  resized(m, m.at[x], n).fs \in Kept(b, P, D, F)
<1> DEFINE i == m.at[x]
           k == overwrite(m, i, n)
           r == resized(m, i, n)
<1>1. m \in Goods /\ Straight(D, F, m) /\ Leaves(b, P, F, m) /\ m \in Memories
  BY GoodsAre DEF Kept
<1>2. x \in Places /\ i \in Ids /\ nodeAt(m, x) = m.node[i]
  <2>1. nodeAt(m, x).kind # "none"
    OBVIOUS
  <2> QED BY <1>1, <2>1, NodeAt
<1>3. CASE ReachesQuota(m, n - m.node[i].size)
  <2>1. r = Answer(m, "quota")
    BY <1>3 DEF resized
  <2> HIDE DEF r
  <2> QED BY <2>1, AnswerIs DEF r, i
<1>4. CASE ~ReachesQuota(m, n - m.node[i].size)
  <2>1. r.fs = k
    <3>1. r = Answer(k, "ok")
      BY <1>4 DEF resized
    <3> HIDE DEF r, k
    <3> QED BY <3>1, AnswerIs
  <2>2. Limit > 0 => m.used + (n - nodeAt(m, x).size) <= Limit
    <3>1. m.used \in Nat /\ nodeAt(m, x).size \in Nat
      BY <1>1, NodeAt DEF Memories, Node
    <3>2. Limit \in Nat
      BY MemoryAssumption
    <3> QED BY <1>2, <1>4, <3>1, <3>2 DEF ReachesQuota
  <2>3. LET o == overwrite(m, m.at[x], n) IN
        /\ o \in Goods /\ o.at = m.at /\ (\A q : SeenAlike(m, o, q))
        /\ \A q \in Places : m.at[q] # m.at[x] => nodeAt(o, q) = nodeAt(m, q)
    BY <1>1, <1>2, <2>2, OverwriteIs
  <2>4. /\ k \in Goods /\ k.at = m.at /\ (\A q : SeenAlike(m, k, q))
        /\ \A q \in Places : m.at[q] # m.at[x] => nodeAt(k, q) = nodeAt(m, q)
    BY <2>3
  <2> HIDE DEF k, r, i
  <2>5. Straight(D, F, k)
    BY <1>1, <2>4 DEF Straight, SeenAlike
  <2>6. Leaves(b, P, F, k)
    <3> SUFFICES ASSUME NEW p \in P
        PROVE  /\ k.at[p] = b.at[p] /\ Content(k, p) = Content(b, p)
               /\ \A y \in F \cap Places : k.at[y] # k.at[p]
      BY DEF Leaves
    <3>1. p \in Places /\ m.at[p] # m.at[x]
      BY <1>1, <1>2 DEF Spared, Leaves
    <3>2. Content(k, p) = Content(m, p)
      BY <2>4, <3>1 DEF Content
    <3> QED BY <1>1, <2>4, <3>2 DEF Leaves
  <2> QED BY <2>1, <2>4, <2>5, <2>6 DEF Kept, r, i
<1> QED BY <1>3, <1>4

\* Writing a file of the copy.
LEMMA WriteKeeps ==
  ASSUME NEW b, NEW P, NEW D, NEW F, NEW L, Layout(D, F, L), Spared(b, P, L), NEW m \in Kept(b, P, D, F),
         NEW x \in F, NEW n \in Nat
  PROVE  writeFile(m, x, n).fs \in Kept(b, P, D, F)
<1> DEFINE found == Open(m, x)
           slot == Slot(m, x)
           w == writeFile(m, x, n)
<1>1. m \in Goods /\ Straight(D, F, m) /\ x \in Clean /\ x # Root
  BY DEF Kept, Layout, Below
<1>2. found.err = "ok" => found.at = x /\ nodeAt(m, x).kind \in {"file", "dir"}
  <2>1. found.err = "ok" => found.at = x
    <3>1. x \in D \cup F \cup L /\ x \in D \cup F
      OBVIOUS
    <3> QED BY <1>1, <3>1, FoundStraight
  <2>2. found.err = "ok" => nodeAt(m, found.at).kind \in {"file", "dir"}
    BY <1>1, Found DEF Open
  <2> HIDE DEF found
  <2> QED BY <2>1, <2>2
<1>3. slot.err = "ok" /\ found.err # "ok" => nodeAt(m, x).kind = "none"
  <2>1. slot.err = "ok" => slot.at = x
    BY <1>1, SlotStraight
  <2>2. slot.err = "ok" /\ found.err # "ok" => nodeAt(m, slot.at).kind \in {"none", "link"}
    BY <1>1, SlotIs
  <2>3. nodeAt(m, x).kind # "link"
    BY <1>1 DEF Straight
  <2> HIDE DEF found, slot
  <2> QED BY <2>1, <2>2, <2>3
<1> HIDE DEF found, slot, w
<1>4. CASE found.err = "ok" /\ nodeAt(m, found.at).kind = "dir"
  <2>1. w = Answer(m, "isdir")
    BY <1>4 DEF writeFile, Then, found, w
  <2> QED BY <2>1, AnswerIs DEF w
<1>5. CASE found.err = "ok" /\ nodeAt(m, found.at).kind # "dir"
  <2>1. w = resized(m, m.at[found.at], n)
    BY <1>5 DEF writeFile, Then, found, w
  <2>2. w = resized(m, m.at[x], n) /\ nodeAt(m, x).kind = "file"
    BY <1>2, <1>5, <2>1
  <2>3. resized(m, m.at[x], n).fs \in Kept(b, P, D, F)
    BY <2>2, OverwriteKeeps
  <2> QED BY <2>2, <2>3 DEF w
<1>6. CASE found.err = "notexist" /\ slot.err = "ok" /\ ReachesQuota(m, n)
  <2>1. w = Answer(m, "quota")
    BY <1>6 DEF writeFile, Then, found, slot, w
  <2> QED BY <2>1, AnswerIs DEF w
<1>7. CASE found.err = "notexist" /\ slot.err # "ok"
  <2>1. w = InsertAt(m, slot, Regular(n))
    BY <1>7 DEF writeFile, Then, found, slot, w
  <2>2. w = Answer(m, slot.err)
    BY <1>7, <2>1 DEF InsertAt
  <2> QED BY <2>2, AnswerIs DEF w
<1>8. CASE found.err = "notexist" /\ slot.err = "ok" /\ ~ReachesQuota(m, n)
  <2>1. w = InsertAt(m, slot, Regular(n))
    BY <1>8 DEF writeFile, Then, found, slot, w
  <2>2. Fits(m, Regular(n)) /\ Regular(n).kind # "link"
    BY <1>1, <1>8, NewFits, NewNodes
  <2>3. nodeAt(m, x).kind = "none"
    BY <1>3, <1>8
  <2>4. InsertAt(m, Slot(m, x), Regular(n)).fs \in Kept(b, P, D, F)
    <3> DEFINE f == Regular(n)
    <3>1. Fits(m, f) /\ f.kind # "link"
      BY <2>2
    <3> HIDE DEF f
    <3>2. InsertAt(m, Slot(m, x), f).fs \in Kept(b, P, D, F)
      BY <2>3, <3>1, InsertAtKeeps
    <3> QED BY <3>2 DEF f
  <2> QED BY <2>1, <2>4 DEF w, slot
<1>9. CASE found.err \notin {"ok", "notexist"}
  <2>1. w = Answer(m, found.err)
    BY <1>9 DEF writeFile, Then, found, w
  <2> QED BY <2>1, AnswerIs DEF w
<1> QED BY <1>4, <1>5, <1>6, <1>7, <1>8, <1>9

\* Making a directory of the copy.
LEMMA MkdirKeeps ==
  ASSUME NEW b, NEW P, NEW D, NEW F, NEW L, Layout(D, F, L), Spared(b, P, L), NEW m \in Kept(b, P, D, F),
         NEW x \in D
  PROVE  mkdirStep(m, x).fs \in Kept(b, P, D, F)
<1> DEFINE found == Open(m, x)
           slot == Slot(m, x)
           w == mkdir(m, x)
           s == mkdirStep(m, x)
<1>1. m \in Goods /\ Straight(D, F, m) /\ x \in Clean /\ x # Root
  BY DEF Kept, Layout, Below
<1>2. slot.err = "ok" => slot.at = x
  BY <1>1, SlotStraight
<1>3. s = IF w.err = "exist" THEN Answer(m, "ok") ELSE w
  BY DEF mkdirStep, Then
<1> HIDE DEF found, slot, w, s
<1>4. w.fs \in Kept(b, P, D, F)
  <2>1. CASE found.err # "notexist"
    <3>1. w = Answer(m, "exist") \/ w = Answer(m, found.err)
      <4>1. w = IF found.err = "ok" THEN Answer(m, "exist") ELSE Answer(m, found.err)
        BY <2>1 DEF mkdir, Then, found, w
      <4> QED BY <4>1
    <3> QED BY <3>1, AnswerIs
  <2>2. CASE found.err = "notexist"
    <3>1. w = InsertNew(m, slot, Directory)
      BY <2>2 DEF mkdir, Then, found, slot, w
    <3>2. CASE slot.err = "ok" /\ nodeAt(m, slot.at).kind # "none"
      <4>1. w = Answer(m, "exist")
        BY <3>1, <3>2 DEF InsertNew
      <4> QED BY <4>1, AnswerIs
    <3>3. CASE ~(slot.err = "ok" /\ nodeAt(m, slot.at).kind # "none")
      <4>1. w = InsertAt(m, slot, Directory)
        BY <3>1, <3>3 DEF InsertNew
      <4>2. Fits(m, Directory) /\ Directory.kind # "link"
        BY <1>1, NewFits DEF Directory, Nothing
      <4>3. slot.err = "ok" => nodeAt(m, x).kind = "none"
        BY <1>2, <3>3
      <4>4. InsertAt(m, Slot(m, x), Directory).fs \in Kept(b, P, D, F)
        <5>1. Slot(m, x).err = "ok" => nodeAt(m, x).kind = "none"
          BY <4>3 DEF slot
        <5> QED BY <4>2, <5>1, InsertAtKeeps
      <4> QED BY <4>1, <4>4 DEF slot
    <3> QED BY <3>2, <3>3
  <2> QED BY <2>1, <2>2
<1>5. s.fs \in Kept(b, P, D, F)
  <2>1. CASE w.err = "exist"
    <3>1. s = Answer(m, "ok")
      BY <1>3, <2>1
    <3> QED BY <3>1, AnswerIs
  <2>2. CASE w.err # "exist"
    BY <1>3, <1>4, <2>2
  <2> QED BY <2>1, <2>2
<1> QED BY <1>5 DEF s

\* Making a link of the copy.
LEMMA SymlinkKeeps ==
  ASSUME NEW b, NEW P, NEW D, NEW F, NEW L, Layout(D, F, L), Spared(b, P, L), NEW m \in Kept(b, P, D, F),
         NEW x \in L, NEW t \in LinkTargets
  PROVE  symlink(m, t, x).fs \in Kept(b, P, D, F)
<1> DEFINE found == Lstat(m, x)
           slot == Slot(m, x)
           w == symlink(m, t, x)
<1>1. m \in Goods /\ Straight(D, F, m) /\ x \in Clean /\ x # Root
  BY DEF Kept, Layout, Below
<1>2. slot.err = "ok" => slot.at = x
  BY <1>1, SlotStraight
<1>3. slot.err = "ok" /\ found.err # "ok" => nodeAt(m, slot.at).kind = "none"
  BY <1>1, SlotIs
<1> HIDE DEF found, slot, w
<1>4. CASE found.err # "notexist"
  <2>1. w = IF found.err = "ok" THEN Answer(m, "exist") ELSE Answer(m, found.err)
    BY <1>4 DEF symlink, Then, found, w
  <2> QED BY <2>1, AnswerIs DEF w
<1>5. CASE found.err = "notexist"
  <2>1. w = InsertAt(m, slot, Symbolic(t))
    BY <1>5 DEF symlink, Then, found, slot, w
  <2>2. Slot(m, x).err = "ok" => nodeAt(m, x).kind = "none"
    <3>1. slot.err = "ok" => nodeAt(m, x).kind = "none"
      BY <1>2, <1>3, <1>5
    <3> QED BY <3>1 DEF slot
  <2> DEFINE n == Symbolic(t)
  <2>3. Fits(m, n)
    BY <1>1, NewFits
  <2> HIDE DEF n
  <2>4. InsertAt(m, Slot(m, x), n).fs \in Kept(b, P, D, F)
    BY <2>2, <2>3, InsertAtKeeps
  <2> QED BY <2>1, <2>4 DEF w, slot, n
<1> QED BY <1>4, <1>5

\* What is left when names go is what it was.
LEMMA GoneKeeps ==
  ASSUME NEW b, NEW P, NEW D, NEW F, NEW L, Layout(D, F, L), Spared(b, P, L), NEW m \in Kept(b, P, D, F),
         NEW s \in SUBSET Places, \A p \in P : p \notin s, Gone(m, s) \in Goods
  PROVE  Gone(m, s) \in Kept(b, P, D, F)
<1> DEFINE k == Gone(m, s)
<1>1. /\ m \in Goods /\ m \in Tables /\ m \in Memories /\ Straight(D, F, m) /\ Leaves(b, P, F, m)
      /\ m.at \in [Places -> Ids \cup {0}] /\ Counted(m)
  BY GoodsAre DEF Kept, Memories
<1>2. /\ \A p \in Places : k.at[p] = IF p \in s THEN 0 ELSE m.at[p]
      /\ \A p \in Places : p \notin s => nodeAt(k, p).kind = nodeAt(m, p).kind
  BY <1>1, GoneIs
<1>3. k \in Goods /\ k.node = GoneNodes(m, s)
  BY DEF Gone
<1> HIDE DEF k
<1>4. Straight(D, F, k)
  <2> SUFFICES ASSUME NEW y \in D \cup F, nodeAt(k, y).kind = "link" PROVE FALSE
    BY DEF Straight
  <2>1. nodeAt(k, y).kind # "none"
    OBVIOUS
  <2>2. y \in Places /\ k.at[y] # 0
    BY <1>3, <2>1, NodeAt, GoodsAre, PlacesAre
  <2>3. y \notin s
    BY <1>2, <2>2
  <2> QED BY <1>1, <1>2, <2>2, <2>3 DEF Straight
<1>5. ASSUME NEW p \in P
      PROVE  /\ k.at[p] = b.at[p] /\ Content(k, p) = Content(b, p)
             /\ \A y \in F \cap Places : k.at[y] # k.at[p]
  <2>1. p \in Places /\ p \notin s /\ m.at[p] = b.at[p] /\ b.at[p] # 0
    BY <1>1 DEF Spared, Leaves
  <2>2. k.at[p] = m.at[p]
    BY <1>2, <2>1
  <2> DEFINE i == m.at[p]
             c == Cardinality(Names(m, i) \ s)
  <2>3. i \in Ids /\ nodeAt(m, p) = m.node[i] /\ m.node[i] \in Node
    BY <1>1, <2>1 DEF nodeAt, Memories
  <2>4. Names(m, i) \ s # {}
    BY <2>1 DEF Names
  <2>5. GoneNodes(m, s)[i] = Linked(m.node[i], c)
    <3> HIDE DEF i
    <3> QED BY <1>1, <2>3, <2>4, LeftNode
  <2>6. nodeAt(k, p) = GoneNodes(m, s)[i]
    BY <1>3, <2>1, <2>2 DEF nodeAt
  <2>7. Content(k, p) = Content(m, p)
    <3> DEFINE n == m.node[i]
    <3>1. nodeAt(k, p) = [n EXCEPT !.links = c] /\ nodeAt(m, p) = n
      BY <2>3, <2>5, <2>6 DEF Linked
    <3>2. n \in Node
      BY <2>3
    <3> HIDE DEF n, c
    <3>3. [[n EXCEPT !.links = c] EXCEPT !.links = 0] = [n EXCEPT !.links = 0]
      BY <3>2 DEF Node
    <3> QED BY <3>1, <3>3 DEF Content
  <2>8. ASSUME NEW y \in F \cap Places PROVE k.at[y] # k.at[p]
    <3>1. m.at[y] # m.at[p]
      BY <1>1 DEF Leaves
    <3> QED BY <1>2, <2>1, <2>2, <3>1
  <2> QED BY <1>1, <2>1, <2>2, <2>7, <2>8 DEF Leaves
<1>6. Leaves(b, P, F, k)
  BY <1>5 DEF Leaves
<1> QED BY <1>3, <1>4, <1>6 DEF Kept, k

\* Removing what is in the place of a link of the copy.
LEMMA RemoveAllKeeps ==
  ASSUME NEW b, NEW P, NEW D, NEW F, NEW L, Layout(D, F, L), Spared(b, P, L), NEW m \in Kept(b, P, D, F),
         NEW x \in L
  PROVE  removeAll(m, x).fs \in Kept(b, P, D, F)
<1> DEFINE found == Lstat(m, x)
           w == removeAll(m, x)
           s == {p \in Paths : Within(found.at, p) /\ m.at[p] # 0}
<1>1. m \in Goods /\ Straight(D, F, m) /\ x \in Clean /\ x # Root
  BY DEF Kept, Layout, Below
<1>2. found.err = "ok" => found.at = x
  <2>1. x \in D \cup F \cup L
    OBVIOUS
  <2> QED BY <1>1, <2>1, FoundStraight
<1>3. removeAll(m, x) \in Replies
  BY <1>1, RemoveAllGood
<1>a. w = Then(found, LAMBDA there :
            IF x = Root THEN Answer(m, "root")
            ELSE IF there.err = "notexist" THEN Answer(m, "ok")
            ELSE IF there.err # "ok" THEN Answer(m, there.err)
            ELSE Answer(Drops(m, {p \in Paths : Within(there.at, p) /\ m.at[p] # 0}), "ok"))
  BY Zenon DEF removeAll, Drops
<1> HIDE DEF found, w
<1>b. w = IF found.err = "notexist" THEN Answer(m, "ok")
          ELSE IF found.err # "ok" THEN Answer(m, found.err)
          ELSE Answer(Drops(m, s), "ok")
  BY <1>1, <1>a DEF Then
<1>4. CASE found.err # "ok"
  <2>1. w = IF found.err = "notexist" THEN Answer(m, "ok") ELSE Answer(m, found.err)
    BY <1>4, <1>b
  <2> QED BY <2>1, AnswerIs DEF w
<1>5. CASE found.err = "ok"
  <2>1. w = Answer(Drops(m, s), "ok")
    BY <1>5, <1>b
  <2>2. s \in SUBSET Places /\ (\A p \in s : m.at[p] # 0) /\ \A p \in s : Prefix(x, p)
    BY <1>2, <1>5, PlacesAre DEF Within, Prefix
  <2> HIDE DEF s
  <2>3. Drops(m, s) = Gone(m, s)
    BY <1>1, <2>2, DropsGone, GoodsAre
  <2>4. w.fs = Gone(m, s)
    BY <2>1, <2>3, AnswerIs
  <2>5. w.fs \in Goods
    BY <1>3 DEF Replies, w
  <2>6. \A p \in P : p \notin s
    BY <2>2 DEF Spared
  <2>7. Gone(m, s) \in Kept(b, P, D, F)
    BY <2>2, <2>4, <2>5, <2>6, GoneKeeps
  <2> QED BY <2>4, <2>7 DEF w
<1> QED BY <1>4, <1>5

\* Each call of a copy.
LEMMA ApplyKeeps ==
  ASSUME NEW b, NEW P, NEW D, NEW F, NEW L, Layout(D, F, L), Spared(b, P, L), NEW m \in Kept(b, P, D, F),
         NEW c \in Copies(D, F, L)
  PROVE  Apply(m, c).fs \in Kept(b, P, D, F)
<1>1. /\ c.op \in {"mkdir", "write", "removeAll", "symlink"}
      /\ c.node.size \in Nat /\ c.node.target \in LinkTargets
      /\ c.op = "mkdir" => c.name \in D
      /\ c.op = "write" => c.name \in F
      /\ c.op \in {"removeAll", "symlink"} => c.name \in L
  BY DEF Copies, Calls, Node
<1>2. Apply(m, c) = CASE c.op = "mkdir"     -> mkdirStep(m, c.name)
                      [] c.op = "write"     -> writeFile(m, c.name, c.node.size)
                      [] c.op = "removeAll" -> removeAll(m, c.name)
                      [] c.op = "symlink"   -> symlink(m, c.node.target, c.name)
  BY DEF Apply
<1> DEFINE x == c.name
           n == c.node.size
           t == c.node.target
           K == Kept(b, P, D, F)
<1> HIDE DEF x, n, t, K
<1>3. c.op = "mkdir" => mkdirStep(m, x).fs \in K
  BY <1>1, MkdirKeeps DEF x, K
<1>4. c.op = "write" => writeFile(m, x, n).fs \in K
  <2> SUFFICES ASSUME c.op = "write" PROVE writeFile(m, x, n).fs \in K
    OBVIOUS
  <2>1. x \in F /\ n \in Nat
    BY <1>1 DEF x, n
  <2> QED BY <2>1, WriteKeeps DEF K
<1>5. c.op = "removeAll" => removeAll(m, x).fs \in K
  BY <1>1, RemoveAllKeeps DEF x, K
<1>6. c.op = "symlink" => symlink(m, t, x).fs \in K
  <2> SUFFICES ASSUME c.op = "symlink" PROVE symlink(m, t, x).fs \in K
    OBVIOUS
  <2>1. x \in L /\ t \in LinkTargets
    BY <1>1 DEF x, t
  <2> QED BY <2>1, SymlinkKeeps DEF K
<1>7. Apply(m, c).fs \in K
  <2> DEFINE a == Apply(m, c)
  <2>1. a = CASE c.op = "mkdir"     -> mkdirStep(m, x)
              [] c.op = "write"     -> writeFile(m, x, n)
              [] c.op = "removeAll" -> removeAll(m, x)
              [] c.op = "symlink"   -> symlink(m, t, x)
    BY <1>2 DEF x, n, t
  <2> HIDE DEF a
  <2> QED BY <1>1, <1>3, <1>4, <1>5, <1>6, <2>1 DEF a
<1> QED BY <1>7 DEF K

\* The names of a mount.
Beginnings(t) == {SubSeq(t, 1, i) : i \in 1 .. Len(t)}
Held(target, source, kind) == {target \o q : q \in {p \in Paths : source[p].kind = kind}}
Dirs(target, source) == Beginnings(target) \cup Held(target, source, "dir")

\* A name below another.
LEMMA JoinIs ==
  ASSUME NEW t \in Clean, NEW q \in Clean, q # Root
  PROVE  /\ parent(t \o q) = t \o parent(q) /\ t \o q \in Clean /\ t \o q # Root
         /\ Len(t \o q) = Len(t) + Len(q) /\ Len(t) \in Nat /\ Len(q) \in Nat \ {0}
         /\ t \o Root = t
<1> DEFINE p == parent(q)
           c == q[Len(q)]
           d == t \o p
<1>1. p \in Clean /\ c \in Components /\ q = Append(p, c) /\ Len(q) \in Nat \ {0}
  BY NameIs
<1> HIDE DEF p, c
<1>2. p \in Seq(Components) /\ t \in Seq(Components)
  BY <1>1 DEF Clean
<1>3. d \in Clean /\ t \o q = Append(d, c)
  <2>1. t \o Append(p, c) = Append(t \o p, c)
    BY <1>1, <1>2
  <2>2. t \o p \in Seq(Components)
    BY <1>2
  <2> QED BY <1>1, <2>1, <2>2 DEF Clean
<1>4. Len(t \o q) = Len(t) + Len(q) /\ Len(t) \in Nat /\ t \o Root = t
  BY DEF Clean, Root
<1> HIDE DEF d
<1>5. parent(Append(d, c)) = d /\ Append(d, c) \in Clean /\ Append(d, c) # Root
  BY <1>1, <1>3, AppendIs
<1> QED BY <1>1, <1>3, <1>4, <1>5 DEF d, p

\* Different names lead to different names below a third.
LEMMA JoinedAre ==
  ASSUME NEW t \in Clean, NEW p \in Clean, NEW q \in Clean, t \o p = t \o q
  PROVE  p = q
<1>1. t \in Seq(Components) /\ p \in Seq(Components) /\ q \in Seq(Components)
  BY DEF Clean
<1>2. Len(t) \in Nat /\ Len(p) \in Nat /\ Len(q) \in Nat /\ Len(t \o p) = Len(t) + Len(p) /\ Len(t \o q) = Len(t) + Len(q)
  BY <1>1
<1>3. Len(p) = Len(q)
  BY <1>2
<1>4. ASSUME NEW i \in 1 .. Len(p) PROVE p[i] = q[i]
  <2>1. (t \o p)[Len(t) + i] = p[i]
    BY <1>1, <1>2
  <2>2. (t \o q)[Len(t) + i] = q[i]
    BY <1>1, <1>2, <1>3
  <2> QED BY <2>1, <2>2
<1> QED BY <1>1, <1>3, <1>4

\* What a mount copies are such names.
LEMMA MountLayout ==
  ASSUME NEW target \in Clean, NEW source \in Sources
  PROVE  Layout(Dirs(target, source), Held(target, source, "file"), Held(target, source, "link"))
<1> DEFINE D == Dirs(target, source)
           F == Held(target, source, "file")
           L == Held(target, source, "link")
<1>1. \A q \in Paths : q \in Clean /\ q # Root
  BY PlacesAre
<1>2. \A q \in Paths : source[q].kind # "none" /\ parent(q) # Root =>
        parent(q) \in Paths /\ source[parent(q)].kind = "dir"
  BY PlacesAre, CopyAssumption
<1>3. Beginnings(target) \subseteq Below
  BY BeginningsBelow DEF Beginnings
<1>4. \A kind : Held(target, source, kind) \subseteq Below
  BY BelowTarget DEF Held, Below
<1>5. D \cup F \cup L \subseteq Below
  BY <1>3, <1>4 DEF Dirs
<1>6. L \cap (D \cup F) = {}
  <2> SUFFICES ASSUME NEW x \in L, x \in D \cup F PROVE FALSE
    OBVIOUS
  <2>1. PICK q \in Paths : x = target \o q /\ source[q].kind = "link"
    BY DEF Held
  <2>2. CASE x \in Beginnings(target)
    <3>1. PICK i \in 1 .. Len(target) : x = SubSeq(target, 1, i)
      BY <2>2 DEF Beginnings
    <3>2. i \in 0 .. Len(target) /\ Len(target) \in Nat
      BY DEF Clean
    <3>3. Len(SubSeq(target, 1, i)) = i
      BY <3>2, BeginningIs DEF Clean
    <3>4. Len(target \o q) = Len(target) + Len(q) /\ Len(q) \in Nat \ {0}
      BY <1>1, JoinIs
    <3> QED BY <2>1, <3>1, <3>2, <3>3, <3>4
  <2>3. CASE x \notin Beginnings(target)
    <3>1. PICK r \in Paths : x = target \o r /\ source[r].kind \in {"dir", "file"}
      BY <2>3 DEF Dirs, Held
    <3>2. r = q
      BY <1>1, <2>1, <3>1, JoinedAre
    <3> QED BY <2>1, <3>1, <3>2
  <2> QED BY <2>2, <2>3
<1>7. ASSUME NEW x \in D \cup F \cup L PROVE parent(x) = Root \/ parent(x) \in D
  <2>0. target # Root => target \in Beginnings(target)
    <3> DEFINE l == Len(target)
    <3>1. l \in Nat /\ SubSeq(target, 1, l) = target
      BY DEF Clean
    <3>2. target # Root => l # 0
      BY EmptySeq DEF Clean, Root
    <3>3. target # Root => l \in 1 .. l
      BY <3>1, <3>2
    <3>4. Beginnings(target) = {SubSeq(target, 1, i) : i \in 1 .. l}
      BY DEF Beginnings
    <3> HIDE DEF l
    <3> QED BY <3>1, <3>3, <3>4
  <2>1. CASE x \in Beginnings(target)
    <3>1. PICK i \in 1 .. Len(target) : x = SubSeq(target, 1, i)
      BY <2>1 DEF Beginnings
    <3>2. i \in 0 .. Len(target) /\ Len(target) \in Nat /\ i - 1 \in 0 .. Len(target)
      BY DEF Clean
    <3>3. x \in Clean /\ Len(x) = i /\ \A j \in 1 .. i : x[j] = target[j]
      BY <3>1, <3>2, BeginningIs DEF Clean
    <3> DEFINE y == SubSeq(target, 1, i - 1)
    <3>4. y \in Clean /\ Len(y) = i - 1 /\ \A j \in 1 .. i - 1 : y[j] = target[j]
      BY <3>2, BeginningIs DEF Clean
    <3>5. x # Root
      BY <1>5, <1>7 DEF Below
    <3>6. parent(x) \in Clean /\ Len(parent(x)) = i - 1 /\ \A j \in 1 .. i - 1 : parent(x)[j] = x[j]
      BY <3>3, <3>5, NameIs
    <3> HIDE DEF y
    <3>7. parent(x) = y
      <4>1. parent(x) \in Seq(Components) /\ y \in Seq(Components) /\ Len(parent(x)) = Len(y)
        BY <3>4, <3>6 DEF Clean
      <4>2. \A j \in 1 .. Len(y) : parent(x)[j] = y[j]
        BY <3>2, <3>3, <3>4, <3>6
      <4> HIDE DEF y
      <4> QED BY <4>1, <4>2
    <3>8. CASE i = 1
      <4>1. Len(parent(x)) = 0
        BY <3>6, <3>8
      <4> QED BY <3>6, <4>1, EmptySeq DEF Root, Clean
    <3>9. CASE i # 1
      <4>1. i - 1 \in 1 .. Len(target)
        BY <3>2, <3>9
      <4> QED BY <3>7, <4>1 DEF y, Dirs, Beginnings
    <3> QED BY <3>8, <3>9
  <2>2. CASE x \notin Beginnings(target)
    <3>1. PICK q \in Paths : x = target \o q /\ source[q].kind \in {"dir", "file", "link"}
      BY <2>2 DEF Dirs, Held
    <3>2. parent(x) = target \o parent(q) /\ target \o Root = target
      BY <1>1, <3>1, JoinIs
    <3>3. CASE parent(q) = Root
      BY <2>0, <3>2, <3>3 DEF Dirs
    <3>4. CASE parent(q) # Root
      BY <1>2, <3>1, <3>2, <3>4 DEF Dirs, Held
    <3> QED BY <3>3, <3>4
  <2> QED BY <2>1, <2>2
<1> HIDE DEF D, F, L
<1>8. Layout(D, F, L)
  BY <1>5, <1>6, <1>7 DEF Layout
<1> QED BY <1>8 DEF D, F, L

\* The calls that make directories of the copy.
LEMMA MkdirAllCopies ==
  ASSUME NEW D, NEW F, NEW L, NEW name \in Clean, \A i \in 1 .. Len(name) : SubSeq(name, 1, i) \in D
  PROVE  MkdirAllCalls(name) \in Seq(Copies(D, F, L))
<1> DEFINE call(i) == [op |-> "mkdir", name |-> SubSeq(name, 1, i), node |-> Directory]
           s == MkdirAllCalls(name)
<1>1. s = [i \in 1 .. Len(name) |-> call(i)]
  BY DEF MkdirAllCalls
<1>2. Len(name) \in Nat
  BY DEF Clean
<1>3. s \in Seq(Calls)
  BY MkdirAllCallsAre
<1>4. ASSUME NEW i \in 1 .. Len(name) PROVE call(i) \in Copies(D, F, L)
  <2> DEFINE c == call(i)
  <2>1. c.op = "mkdir" /\ c.name = SubSeq(name, 1, i)
    OBVIOUS
  <2>2. c \in Calls
    <3>1. s[i] = c /\ Len(s) = Len(name)
      BY <1>1, <1>2
    <3> HIDE DEF s, c
    <3> QED BY <1>3, <3>1
  <2> HIDE DEF c
  <2>3. c \in Copies(D, F, L)
    BY <2>1, <2>2 DEF Copies
  <2> QED BY <2>3 DEF c
<1> HIDE DEF call
<1>5. s \in Seq(Copies(D, F, L))
  <2> HIDE DEF s
  <2> QED BY <1>1, <1>2, <1>4
<1> QED BY <1>5

\* The calls that copy an entry are calls of the copy.
LEMMA EntryCopies ==
  ASSUME NEW target \in Clean, NEW source \in Sources, NEW p \in Paths
  PROVE  EntryCalls(target, p, source[p])
           \in Seq(Copies(Dirs(target, source), Held(target, source, "file"), Held(target, source, "link")))
<1> DEFINE n == source[p]
           name == target \o p
           t == Rebased(n.target, target)
           D == Dirs(target, source)
           F == Held(target, source, "file")
           L == Held(target, source, "link")
           C == Copies(D, F, L)
           e == EntryCalls(target, p, n)
<1>1. n \in Node
  BY CopyAssumption DEF Node
<1>2. /\ n.kind = "dir" => name \in D
      /\ n.kind = "file" => name \in F
      /\ n.kind = "link" => name \in L
  BY DEF Dirs, Held
<1>3. Layout(D, F, L)
  BY MountLayout
<1>4. e \in Seq(Calls)
  <2> HIDE DEF n
  <2> QED BY <1>1, EntryCallsAre
<1>5. e = CASE n.kind = "dir"  -> MkdirAllCalls(name)
            [] n.kind = "file" -> <<[op |-> "write", name |-> name, node |-> n]>>
            [] n.kind = "link" -> LinkCalls(name, t)
            [] n.kind = "none" -> <<>>
  BY DEF EntryCalls, Then
<1>6. n.kind \in {"none", "file", "dir", "link"}
  BY <1>1 DEF Node
<1>7. name \in Clean
  BY BelowTarget
<1> HIDE DEF n, name, t, D, F, L, C, e
<1>8. CASE n.kind = "dir"
  <2>1. \A i \in 1 .. Len(name) : SubSeq(name, 1, i) \in D
    <3> DEFINE l == Len(name)
    <3>1. l \in Nat /\ SubSeq(name, 1, l) = name
      BY <1>7 DEF Clean
    <3>2. \A i \in 1 .. Len(name) - 1 : SubSeq(name, 1, i) \in D
      BY <1>2, <1>3, <1>8, LayoutUp
    <3>3. \A i \in 1 .. l - 1 : SubSeq(name, 1, i) \in D
      BY <3>2
    <3> HIDE DEF l
    <3>4. \A i \in 1 .. l : i = l \/ i \in 1 .. l - 1
      BY <3>1
    <3> QED BY <1>2, <1>8, <3>1, <3>3, <3>4 DEF l
  <2>2. MkdirAllCalls(name) \in Seq(C)
    BY <1>7, <2>1, MkdirAllCopies DEF C
  <2> QED BY <1>5, <1>8, <2>2 DEF C, D, F, L, e, n
<1>9. CASE n.kind = "file"
  <2> DEFINE c == [op |-> "write", name |-> name, node |-> n]
  <2>1. e = <<c>> /\ c.op = "write" /\ c.name = name
    BY <1>5, <1>9
  <2> HIDE DEF c
  <2>2. c \in Calls
    BY <1>4, <2>1
  <2>3. c \in C
    BY <1>2, <1>9, <2>1, <2>2 DEF C, Copies
  <2> QED BY <2>1, <2>3 DEF C, D, F, L, e, n
<1>10. CASE n.kind = "link"
  <2> DEFINE c == [op |-> "removeAll", name |-> name, node |-> Nothing]
             d == [op |-> "symlink", name |-> name, node |-> Symbolic(t)]
  <2>1. e = <<c, d>> /\ c.op = "removeAll" /\ c.name = name /\ d.op = "symlink" /\ d.name = name
    BY <1>5, <1>10 DEF LinkCalls
  <2> HIDE DEF c, d
  <2>2. c \in Calls /\ d \in Calls
    <3>1. Len(e) = 2 /\ e[1] = c /\ e[2] = d
      BY <2>1
    <3> QED BY <1>4, <3>1
  <2>3. c \in C /\ d \in C
    BY <1>2, <1>10, <2>1, <2>2 DEF C, Copies
  <2> QED BY <2>1, <2>3 DEF C, D, F, L, e, n
<1>11. CASE n.kind = "none"
  <2>1. e = <<>>
    BY <1>5, <1>11
  <2>2. <<>> \in Seq(C)
    OBVIOUS
  <2> QED BY <2>1, <2>2 DEF C, D, F, L, e, n
<1> QED BY <1>6, <1>8, <1>9, <1>10, <1>11

\* So are all the calls of a mount that does not clear its target.
LEMMA CallsAreCopies ==
  ASSUME NEW target \in Clean, NEW source \in Sources
  PROVE  CopyCalls(target, source)
           \in Seq(Copies(Dirs(target, source), Held(target, source, "file"), Held(target, source, "link")))
<1> DEFINE entries == [i \in 1 .. Len(Walk) |-> EntryCalls(target, Walk[i], source[Walk[i]])]
           C == Copies(Dirs(target, source), Held(target, source, "file"), Held(target, source, "link"))
<1>1. Len(Walk) \in Nat /\ \A i \in 1 .. Len(Walk) : Walk[i] \in Paths
  <2>1. Len(Walk) = Cardinality(Paths) /\ IsFiniteSet(Paths) /\ Seqs!ToSet(Walk) = Paths
    BY CopyAssumption, MemoryAssumption
  <2>2. Len(Walk) \in Nat
    BY <2>1, FS_CardinalityType
  <2> QED BY <2>1, <2>2 DEF Seqs!ToSet
<1>2. \A i \in 1 .. Len(Walk) : EntryCalls(target, Walk[i], source[Walk[i]]) \in Seq(C)
  BY <1>1, EntryCopies
<1>3. \A i \in 1 .. Len(target) : SubSeq(target, 1, i) \in Dirs(target, source)
  BY DEF Dirs, Beginnings
<1>4. MkdirAllCalls(target) \in Seq(C)
  BY <1>3, MkdirAllCopies
<1> HIDE DEF C
<1>5. entries \in Seq(Seq(C))
  BY <1>1, <1>2
<1> HIDE DEF entries
<1>6. Seqs!FlattenSeq(entries) \in Seq(C)
  BY <1>5, FlattenIs
<1>7. CopyCalls(target, source) = MkdirAllCalls(target) \o Seqs!FlattenSeq(entries)
  BY DEF CopyCalls, entries
<1>8. CopyCalls(target, source) \in Seq(C)
  BY <1>4, <1>6, <1>7
<1> QED BY <1>8 DEF C

\* A mount that merges leaves alone what has nothing to do with its files and links.
LEMMA MergeLeaves ==
  ASSUME NEW m \in Goods, NEW target \in Clean, NEW source \in Sources, ~MeetsLink(m, target, source),
         NEW p \in Places, m.at[p] # 0,
         \A q \in Provided(source) : LET name == target \o q IN
           /\ source[q].kind = "link" => ~Within(name, p)
           /\ name \in Places => m.at[p] # m.at[name],
         NEW k \in DOMAIN ApplyMount(m, target, source, "merge")
  PROVE  Content(ApplyMount(m, target, source, "merge")[k].fs, p) = Content(m, p)
<1> DEFINE D == Dirs(target, source)
           F == Held(target, source, "file")
           L == Held(target, source, "link")
           K == Kept(m, {p}, D, F)
           R == {r \in Replies : r.fs \in K}
           calls == CopyCalls(target, source)
           err == Lstat(m, target).err
           run == ApplyMount(m, target, source, "merge")
<1>1. run = IF err \notin {"ok", "notexist"} THEN <<Answer(m, err)>> ELSE Answers(m, calls)
  <2>1. run = IF err \notin {"ok", "notexist"} THEN <<Answer(m, err)>>
              ELSE IF Skipped(m, target, "merge") THEN <<Answer(m, "ok")>>
              ELSE Then((IF "merge" = "replace" /\ hasContent(m, target) THEN clearCalls(m, target) ELSE <<>>)
                          \o calls, LAMBDA c : Answers(m, c))
    BY DEF ApplyMount, Then
  <2>2. ~Skipped(m, target, "merge")
    BY DEF Skipped
  <2>3. (IF "merge" = "replace" /\ hasContent(m, target) THEN clearCalls(m, target) ELSE <<>>) = <<>>
    OBVIOUS
  <2>4. <<>> \o calls = calls
    <3>1. calls \in Seq(Calls)
      BY CopyCallsAre
    <3> HIDE DEF calls
    <3> QED BY <3>1
  <2>5. Then(calls, LAMBDA c : Answers(m, c)) = Answers(m, calls)
    BY DEF Then
  <2> HIDE DEF run, calls, err
  <2> QED BY <2>1, <2>2, <2>3, <2>4, <2>5
<1>2. Layout(D, F, L)
  BY MountLayout
<1>3. Spared(m, {p}, L)
  <2> SUFFICES ASSUME NEW x \in L PROVE ~Prefix(x, p)
    BY DEF Spared
  <2>1. PICK q \in Paths : x = target \o q /\ source[q].kind = "link"
    BY DEF Held
  <2>2. q \in Provided(source)
    BY <2>1 DEF Provided
  <2> QED BY <2>1, <2>2 DEF Within, Prefix
<1>4. m \in K
  <2>1. Straight(D, F, m)
    <3> SUFFICES ASSUME NEW x \in D \cup F PROVE nodeAt(m, x).kind # "link"
      BY DEF Straight
    <3>1. CASE x \in Beginnings(target)
      BY <3>1 DEF Beginnings, MeetsLink
    <3>2. CASE x \notin Beginnings(target)
      <4>1. PICK q \in Paths : x = target \o q /\ source[q].kind \in {"dir", "file"}
        BY <3>2 DEF Dirs, Held
      <4>2. q \in Provided(source)
        BY <4>1 DEF Provided
      <4> QED BY <4>1, <4>2 DEF MeetsLink
    <3> QED BY <3>1, <3>2
  <2>2. Leaves(m, {p}, F, m)
    <3> SUFFICES ASSUME NEW x \in F \cap Places PROVE m.at[x] # m.at[p]
      BY DEF Leaves
    <3>1. PICK q \in Paths : x = target \o q /\ source[q].kind = "file"
      BY DEF Held
    <3>2. q \in Provided(source)
      BY <3>1 DEF Provided
    <3> QED BY <3>1, <3>2
  <2> QED BY <2>1, <2>2 DEF Kept
<1>5. calls \in Seq(Copies(D, F, L))
  BY CallsAreCopies
<1>6. Copies(D, F, L) \subseteq Calls /\ K \subseteq Goods
  BY DEF Copies, Kept
<1>7. err \in Words
  BY Found DEF Lstat
<1>8. "ok" \in Words
  BY DEF Words, Outcomes
<1>9. \A e \in Words : Answer(m, e) \in R
  BY <1>4, Replied, AnswerIs
<1>10. ASSUME NEW c \in Copies(D, F, L), NEW r \in R PROVE Apply(r.fs, c) \in R
  <2> DEFINE s == r.fs
  <2>1. s \in K /\ s \in Goods /\ c \in Calls
    BY <1>6
  <2> HIDE DEF s
  <2>2. Apply(s, c) \in Replies
    BY <2>1, ApplyGood
  <2>3. Apply(s, c).fs \in K
    <3> HIDE DEF D, F, L
    <3> QED BY <1>2, <1>3, <2>1, ApplyKeeps
  <2> QED BY <2>2, <2>3 DEF s
<1>11. k \in DOMAIN run
  OBVIOUS
<1> HIDE DEF run, err, calls, R, K, D, F, L
<1>12. run[k] \in R
  <2>1. CASE err \notin {"ok", "notexist"}
    <3>1. run = <<Answer(m, err)>>
      BY <1>1, <2>1
    <3>2. k = 1
      BY <1>11, <3>1
    <3> QED BY <1>7, <1>9, <3>1, <3>2
  <2>2. CASE err \in {"ok", "notexist"}
    <3> DEFINE n == Len(calls)
    <3>1. n \in Nat /\ \A i \in 1 .. n : calls[i] \in Copies(D, F, L)
      BY <1>5
    <3>2. \A i \in 1 .. n : \A r \in R : r.err = "ok" => Apply(r.fs, calls[i]) \in R
      BY <1>10, <3>1
    <3>3. Answer(m, "ok") \in R
      BY <1>8, <1>9
    <3>4. /\ Answers(m, calls) = [i \in 1 .. n |-> Answers(m, calls)[i]]
          /\ \A i \in 1 .. n : Answers(m, calls)[i] \in R
      BY <3>1, <3>2, <3>3, AnswersIn
    <3>5. run = Answers(m, calls)
      BY <1>1, <2>2
    <3> DEFINE a == Answers(m, calls)
    <3> HIDE DEF n, a
    <3>6. a = [i \in 1 .. n |-> a[i]] /\ (\A i \in 1 .. n : a[i] \in R) /\ run = a
      BY <3>4, <3>5 DEF n, a
    <3>7. DOMAIN a = 1 .. n
      BY <3>6
    <3> QED BY <1>11, <3>6, <3>7
  <2> QED BY <2>1, <2>2
<1>13. run[k].fs \in K
  BY <1>12 DEF R
<1>14. Content(run[k].fs, p) = Content(m, p)
  BY <1>13 DEF K, Kept, Leaves
<1> QED BY <1>14 DEF run

\* What a good filesystem has besides is left alone by a mount.
LEMMA GoodIsLeft == ASSUME fs \in Goods PROVE OthersAreLeftAlone
<1>1. \A target \in Points : target \in Clean
  BY CopyAssumption, PlacesAre
<1>2. ASSUME NEW target \in Points, NEW source \in Sources, hasContent(fs, target),
             NEW k \in DOMAIN ApplyMount(fs, target, source, "ifabsent")
      PROVE  ApplyMount(fs, target, source, "ifabsent")[k].fs = fs
  <2> DEFINE run == ApplyMount(fs, target, source, "ifabsent")
             err == Lstat(fs, target).err
             rest == Then((IF "ifabsent" = "replace" /\ hasContent(fs, target) THEN clearCalls(fs, target) ELSE <<>>)
                            \o CopyCalls(target, source), LAMBDA c : Answers(fs, c))
  <2>1. run = IF err \notin {"ok", "notexist"} THEN <<Answer(fs, err)>>
              ELSE IF Skipped(fs, target, "ifabsent") THEN <<Answer(fs, "ok")>> ELSE rest
    BY DEF ApplyMount, Then
  <2>2. Skipped(fs, target, "ifabsent")
    BY <1>2 DEF Skipped
  <2>3. k \in DOMAIN run
    BY <1>2
  <2> HIDE DEF run, err, rest
  <2>4. \E e : run = <<Answer(fs, e)>>
    BY <2>1, <2>2
  <2>5. PICK e : run = <<Answer(fs, e)>>
    BY <2>4
  <2>6. run[k] = Answer(fs, e)
    BY <2>3, <2>5
  <2> QED BY <2>6, AnswerIs DEF run
<1>3. ASSUME NEW target \in Points, NEW source \in Sources, ~MeetsLink(fs, target, source),
             NEW k \in DOMAIN ApplyMount(fs, target, source, "merge"), NEW p \in Places, fs.at[p] # 0,
             \A q \in Provided(source) : \A name \in {target \o q} :
                   /\ p # name
                   /\ source[q].kind = "link" => ~Within(name, p)
                   /\ name \in Places => fs.at[p] # fs.at[name]
      PROVE  Content(ApplyMount(fs, target, source, "merge")[k].fs, p) = Content(fs, p)
  <2>1. \A q \in Provided(source) : LET name == target \o q IN
           /\ source[q].kind = "link" => ~Within(name, p)
           /\ name \in Places => fs.at[p] # fs.at[name]
    BY <1>3
  <2> QED BY <1>1, <1>3, <2>1, MergeLeaves
<1> QED BY <1>2, <1>3 DEF OthersAreLeftAlone

-----------------------------------------------------------------------------
(* A mount that succeeds is complete: CopyIsComplete                       *)

\* The sequences one after the other, up to each of them.
LEMMA FlattensTo ==
  ASSUME NEW S, NEW s \in Seq(Seq(S)), Len(s) # 0
  PROVE  \E f : /\ Seqs!FlattenSeq(s) = f[Len(s)]
                /\ \A i \in 1 .. Len(s) : f[i] \in Seq(S) /\ f[i] = IF i = 1 THEN s[i] ELSE f[i - 1] \o s[i]
<1> DEFINE n == Len(s)
           f == CHOOSE h : Flattens(h, s)
<1>1. n \in Nat /\ \A i \in 1 .. n : s[i] \in Seq(S)
  OBVIOUS
<1>3. n # 0
  OBVIOUS
  <1>a1. Seqs!FlattenSeq(s) = f[n]
    BY <1>3, Zenon DEF Seqs!FlattenSeq, Flattens
  <1>a2. \E h : Flattens(h, s)
    <3> DEFINE Q == Seq(S)
               F == [i \in 1 .. n |-> [q \in Q |-> q \o s[i]]]
    <3>1. StepsOn(F, Q, n) /\ <<>> \in Q
      BY <1>1 DEF StepsOn
    <3>2. \A i \in 1 .. n : \A q \in Q : F[i][q] = q \o s[i]
      OBVIOUS
    <3>3. \A i \in 1 .. n : <<>> \o s[i] = s[i]
      BY <1>1
    <3> HIDE DEF Q, F
    <3>4. PICK g : Follows(g, F, Q, <<>>, n)
      BY <1>1, <3>1, StepsReach
    <3> DEFINE h == [i \in 1 .. n |-> g[i]]
    <3>5. ASSUME NEW i \in 1 .. n PROVE h[i] = IF i = 1 THEN s[i] ELSE h[i - 1] \o s[i]
      <4>a. g \in [0 .. n -> Q] /\ g[0] = <<>> /\ \A j \in 1 .. n : g[j] = F[j][g[j - 1]]
        BY <3>4 DEF Follows
      <4>b. i - 1 \in 0 .. n /\ (i = 1 => i - 1 = 0)
        BY <1>1
      <4>c. g[i - 1] \in Q /\ (i = 1 => g[i - 1] = <<>>)
        BY <4>a, <4>b
      <4>1. i - 1 \in 0 .. n /\ g[i - 1] \in Q /\ g[i] = g[i - 1] \o s[i] /\ (i = 1 => g[i - 1] = <<>>)
        BY <3>2, <4>a, <4>b, <4>c, Zenon
      <4>2. i # 1 => i - 1 \in 1 .. n /\ h[i - 1] = g[i - 1]
        BY <1>1
      <4> QED BY <3>3, <4>1, <4>2
    <3>6. h = [i \in 1 .. n |-> h[i]]
      OBVIOUS
    <3> HIDE DEF h
    <3>7. Flattens(h, s)
      BY <3>5, <3>6 DEF Flattens
    <3> QED BY <3>7
  <1>a3. Flattens(f, s)
    BY <1>a2
  <1> HIDE DEF f
  <1>a4. \A i \in 1 .. n : f[i] = IF i = 1 THEN s[i] ELSE f[i - 1] \o s[i]
    BY <1>a3 DEF Flattens
  <1> DEFINE T == {i \in 0 .. n : i # 0 => f[i] \in Seq(S)}
  <1>a5. 0 \in T
    BY <1>1
  <1>a6. ASSUME NEW i \in 0 .. n - 1, i \in T PROVE i + 1 \in T
    <3>1. i + 1 \in 1 .. n /\ i + 1 - 1 = i /\ (i + 1 = 1 <=> i = 0) /\ i + 1 \in 0 .. n
      BY <1>1
    <3>2. f[i + 1] = IF i = 0 THEN s[i + 1] ELSE f[i] \o s[i + 1]
      BY <1>a4, <3>1
    <3>3. s[i + 1] \in Seq(S) /\ (i # 0 => f[i] \in Seq(S))
      BY <1>1, <1>a6, <3>1
    <3>4. \A a, b \in Seq(S) : a \o b \in Seq(S)
      OBVIOUS
    <3>5. f[i + 1] \in Seq(S)
      BY <3>2, <3>3, <3>4, Zenon
    <3> QED BY <3>1, <3>5
  <1>a7. 0 .. n \subseteq T
    <3>1. \A i \in 0 .. n - 1 : i \in T => i + 1 \in T
      BY <1>a6
    <3> HIDE DEF T
    <3> QED BY <1>1, <1>a5, <3>1, InductTo
  <1>a8. ASSUME NEW i \in 1 .. n PROVE f[i] \in Seq(S)
    <3>1. i \in 0 .. n /\ i # 0
      BY <1>1
    <3>2. i \in T
      BY <1>a7, <3>1
    <3> QED BY <3>1, <3>2
<1> QED BY <1>a1, <1>a4, <1>a8

\* Where each of them begins, less one.
Begins(f) == [i \in Nat \ {0} |-> IF i = 1 THEN 0 ELSE Len(f[i - 1])]

\* off says where each part of the whole begins, less one.
Parts(off, s, whole) ==
  /\ \A i \in 1 .. Len(s) : /\ off[i] \in Nat
                            /\ \A a \in 1 .. Len(s[i]) : off[i] + a \in 1 .. Len(whole) /\ whole[off[i] + a] = s[i][a]
  /\ \A j \in 1 .. Len(whole) : \E i \in 1 .. Len(s) : \E a \in 1 .. Len(s[i]) : j = off[i] + a

\* The elements of one sequence and another.
LEMMA JoinedElements ==
  ASSUME NEW S, NEW a \in Seq(S), NEW b \in Seq(S)
  PROVE  /\ a \o b \in Seq(S) /\ Len(a) \in Nat /\ Len(b) \in Nat /\ Len(a \o b) = Len(a) + Len(b)
         /\ \A i \in 1 .. Len(a) : (a \o b)[i] = a[i]
         /\ \A i \in 1 .. Len(b) : (a \o b)[Len(a) + i] = b[i]
OBVIOUS

\* The elements of what follows one another are those of the parts.
LEMMA FlattenParts ==
  ASSUME NEW S, NEW s \in Seq(Seq(S))
  PROVE  \E off : Parts(off, s, Seqs!FlattenSeq(s))
<1> DEFINE n == Len(s)
<1>1. n \in Nat /\ \A i \in 1 .. n : s[i] \in Seq(S)
  OBVIOUS
<1>2. CASE n = 0
  <2>1. s = <<>> /\ Seqs!FlattenSeq(s) = s
    BY <1>2, EmptySeq DEF Seqs!FlattenSeq
  <2>2. Parts(<<>>, <<>>, <<>>)
    BY DEF Parts
  <2> QED BY <2>1, <2>2
<1>3. CASE n # 0
  <2>1. PICK f : /\ Seqs!FlattenSeq(s) = f[n]
                 /\ \A i \in 1 .. n : f[i] \in Seq(S) /\ f[i] = IF i = 1 THEN s[i] ELSE f[i - 1] \o s[i]
    BY <1>3, FlattensTo
  <2> HIDE DEF n
  <2> DEFINE off == Begins(f)
             P(k) == /\ \A i \in 1 .. k : /\ off[i] \in Nat
                                          /\ \A a \in 1 .. Len(s[i]) : off[i] + a \in 1 .. Len(f[k]) /\ f[k][off[i] + a] = s[i][a]
                     /\ \A j \in 1 .. Len(f[k]) : \E i \in 1 .. k : \E a \in 1 .. Len(s[i]) : j = off[i] + a
             T == {k \in 0 .. n : k # 0 => P(k)}
  <2>2. \A i \in 1 .. n : Len(f[i]) \in Nat /\ Len(s[i]) \in Nat
    BY <1>1, <2>1
  <2>3. 0 \in T
    BY <1>1
  <2>4. ASSUME NEW k \in 0 .. n - 1, k \in T PROVE k + 1 \in T
    <3>1. k + 1 \in 1 .. n /\ k + 1 - 1 = k /\ k + 1 \in Nat \ {0} /\ (k # 0 => k \in 1 .. n)
      BY <1>1
    <3>2. CASE k = 0
      <4>1. f[1] = s[1] /\ off[1] = 0 /\ Len(f[1]) \in Nat /\ k + 1 = 1
        BY <2>1, <2>2, <3>1, <3>2 DEF Begins
      <4> HIDE DEF off
      <4>2. P(1)
        BY <4>1
      <4>3. P(k + 1)
        BY <4>1, <4>2
      <4> HIDE DEF P
      <4> QED BY <3>1, <4>3
    <3>3. CASE k # 0
      <4>0. k + 1 # 1 /\ k \in 1 .. n
        BY <1>1, <3>3
      <4>1. f[k + 1] = f[k] \o s[k + 1] /\ off[k + 1] = Len(f[k])
        <5>1. f[k + 1] = IF k + 1 = 1 THEN s[k + 1] ELSE f[k + 1 - 1] \o s[k + 1]
          BY <2>1, <3>1
        <5>2. off[k + 1] = IF k + 1 = 1 THEN 0 ELSE Len(f[k + 1 - 1])
          BY <3>1 DEF Begins
        <5> HIDE DEF off
        <5> QED BY <3>1, <4>0, <5>1, <5>2
      <4>2. P(k)
        BY <2>4, <3>3
      <4> HIDE DEF off
      <4>3. f[k] \in Seq(S) /\ s[k + 1] \in Seq(S) /\ Len(f[k]) \in Nat /\ Len(s[k + 1]) \in Nat
        BY <1>1, <2>1, <2>2, <3>1, <3>3
      <4>4. /\ Len(f[k + 1]) = Len(f[k]) + Len(s[k + 1])
            /\ \A j \in 1 .. Len(f[k]) : f[k + 1][j] = f[k][j]
            /\ \A a \in 1 .. Len(s[k + 1]) : f[k + 1][Len(f[k]) + a] = s[k + 1][a]
        <5> DEFINE u == f[k]
                   v == s[k + 1]
        <5>1. u \in Seq(S) /\ v \in Seq(S) /\ f[k + 1] = u \o v
          BY <4>1, <4>3
        <5>2. ASSUME NEW a \in Seq(S), NEW b \in Seq(S), NEW w, w = a \o b
              PROVE  /\ Len(w) = Len(a) + Len(b)
                     /\ \A j \in 1 .. Len(a) : w[j] = a[j]
                     /\ \A j \in 1 .. Len(b) : w[Len(a) + j] = b[j]
          BY <5>2, JoinedElements
        <5> HIDE DEF u, v
        <5>3. /\ Len(f[k + 1]) = Len(u) + Len(v)
              /\ \A j \in 1 .. Len(u) : f[k + 1][j] = u[j]
              /\ \A a \in 1 .. Len(v) : f[k + 1][Len(u) + a] = v[a]
          BY <5>1, <5>2
        <5> QED BY <5>3 DEF u, v
      <4>5. ASSUME NEW i \in 1 .. k + 1
            PROVE  /\ off[i] \in Nat
                   /\ \A a \in 1 .. Len(s[i]) : off[i] + a \in 1 .. Len(f[k + 1]) /\ f[k + 1][off[i] + a] = s[i][a]
        <5> DEFINE u == Len(f[k])
                   v == Len(s[k + 1])
                   w == Len(f[k + 1])
        <5>0. u \in Nat /\ v \in Nat /\ w = u + v
          BY <4>3, <4>4
        <5>1. CASE i = k + 1
          <6>1. off[i] = u /\ s[i] = s[k + 1]
            BY <4>1, <5>1
          <6>2. \A a \in 1 .. v : f[k + 1][u + a] = s[k + 1][a]
            BY <4>4
          <6>3. \A a \in 1 .. v : u + a \in 1 .. w
            <7> HIDE DEF u, v, w
            <7> QED BY <5>0
          <6> QED BY <5>0, <6>1, <6>2, <6>3
        <5>2. CASE i # k + 1
          <6>1. i \in 1 .. k
            BY <1>1, <5>2
          <6>2. /\ off[i] \in Nat
                /\ \A a \in 1 .. Len(s[i]) : off[i] + a \in 1 .. Len(f[k]) /\ f[k][off[i] + a] = s[i][a]
            BY <4>2, <6>1
          <6>3. \A j \in 1 .. u : f[k + 1][j] = f[k][j] /\ j \in 1 .. w
            <7>1. \A j \in 1 .. u : f[k + 1][j] = f[k][j]
              BY <4>4
            <7> HIDE DEF u, v, w
            <7> QED BY <5>0, <7>1
          <6>4. \A a \in 1 .. Len(s[i]) : off[i] + a \in 1 .. u /\ f[k][off[i] + a] = s[i][a]
            BY <6>2
          <6> HIDE DEF u, v, w
          <6>5. \A a \in 1 .. Len(s[i]) : off[i] + a \in 1 .. w /\ f[k + 1][off[i] + a] = s[i][a]
            BY <6>3, <6>4
          <6> QED BY <6>2, <6>5 DEF w
        <5> QED BY <5>1, <5>2
      <4>6. ASSUME NEW j \in 1 .. Len(f[k + 1])
            PROVE  \E i \in 1 .. k + 1 : \E a \in 1 .. Len(s[i]) : j = off[i] + a
        <5>1. CASE j \in 1 .. Len(f[k])
          BY <1>1, <4>2, <5>1
        <5>2. CASE j \notin 1 .. Len(f[k])
          <6>1. j - Len(f[k]) \in 1 .. Len(s[k + 1]) /\ j = Len(f[k]) + (j - Len(f[k]))
            <7> DEFINE u == Len(f[k])
                       v == Len(s[k + 1])
                       w == Len(f[k + 1])
            <7>1. u \in Nat /\ v \in Nat /\ w = u + v /\ j \in 1 .. w /\ j \notin 1 .. u
              BY <4>3, <4>4, <5>2
            <7> HIDE DEF u, v, w
            <7>2. j - u \in 1 .. v /\ j = u + (j - u)
              BY <7>1
            <7> QED BY <7>2 DEF u, v
          <6>2. k + 1 \in 1 .. k + 1
            BY <1>1
          <6> QED BY <4>1, <6>1, <6>2
        <5> QED BY <5>1, <5>2
      <4>7. P(k + 1)
        BY <4>5, <4>6
      <4> HIDE DEF P
      <4> QED BY <3>1, <4>7
    <3> QED BY <3>2, <3>3
  <2>5. 0 .. n \subseteq T
    <3>1. \A k \in 0 .. n - 1 : k \in T => k + 1 \in T
      BY <2>4
    <3> HIDE DEF T
    <3> QED BY <1>1, <2>3, <3>1, InductTo
  <2>6. P(n)
    <3>1. n \in 0 .. n /\ n # 0
      BY <1>1, <1>3
    <3>2. n \in T
      BY <2>5, <3>1
    <3> HIDE DEF P
    <3> QED BY <3>1, <3>2
  <2> HIDE DEF off
  <2>7. Parts(off, s, f[n])
    BY <2>6 DEF Parts, n
  <2> QED BY <2>1, <2>7
<1> QED BY <1>2, <1>3

\* The filesystems a series of calls goes through when none of them is refused.
Through(s, m, calls) ==
  /\ s[0] = m /\ \A k \in 0 .. Len(calls) : s[k] \in Goods
  /\ \A k \in 1 .. Len(calls) : Apply(s[k - 1], calls[k]) = Answer(s[k], "ok")

\* The answers as a function that goes on from what was answered before.
LEMMA AnswersRun ==
  ASSUME NEW m \in Goods, NEW calls \in Seq(Calls)
  PROVE  \E f : /\ f[0] = Answer(m, "ok") /\ \A k \in 0 .. Len(calls) : f[k] \in Replies
                /\ \A k \in 1 .. Len(calls) :
                     f[k] = IF f[k - 1].err # "ok" THEN f[k - 1] ELSE Apply(f[k - 1].fs, calls[k])
                /\ Answers(m, calls) = [k \in 1 .. Len(calls) |-> f[k]]
<1> DEFINE n == Len(calls)
           f == CHOOSE h : Runs(h, m, calls)
<1>1. n \in Nat /\ \A k \in 1 .. n : calls[k] \in Calls
  OBVIOUS
<1>2. Answers(m, calls) = [k \in 1 .. n |-> f[k]]
  BY Zenon DEF Answers, Runs
<1>3. Answer(m, "ok") \in Replies
  BY Replied DEF Words, Outcomes
<1> DEFINE go(r, k) == IF r.err # "ok" THEN r ELSE Apply(r.fs, calls[k])
<1>4. \A k \in 1 .. n : \A r \in Replies : go(r, k) \in Replies
  BY <1>1, ApplyGood DEF Replies
<1>5. \A h, k : Then(h[k - 1], LAMBDA before : IF before.err # "ok" THEN before ELSE Apply(before.fs, calls[k])) = go(h[k - 1], k)
  BY DEF Then
<1>6. \A h : Runs(h, m, calls) <=> h = [k \in 0 .. n |-> IF k = 0 THEN Answer(m, "ok") ELSE go(h[k - 1], k)]
  BY <1>5 DEF Runs
<1> HIDE DEF go, n
<1>7. \E h : Runs(h, m, calls)
  <2> DEFINE G == [k \in 1 .. n |-> [r \in Replies |-> go(r, k)]]
  <2>1. StepsOn(G, Replies, n) /\ \A k \in 1 .. n : \A r \in Replies : G[k][r] = go(r, k)
    BY <1>4 DEF StepsOn
  <2> HIDE DEF G
  <2>2. PICK g : Follows(g, G, Replies, Answer(m, "ok"), n)
    BY <1>1, <1>3, <2>1, StepsReach
  <2>3. g \in [0 .. n -> Replies] /\ g[0] = Answer(m, "ok") /\ \A k \in 1 .. n : g[k] = G[k][g[k - 1]]
    BY <2>2 DEF Follows
  <2>4. ASSUME NEW k \in 0 .. n PROVE g[k] = IF k = 0 THEN Answer(m, "ok") ELSE go(g[k - 1], k)
    <3>1. CASE k = 0
      BY <2>3, <3>1
    <3>2. CASE k # 0
      <4>1. k \in 1 .. n /\ k - 1 \in 0 .. n
        BY <1>1, <3>2
      <4>2. g[k - 1] \in Replies
        BY <2>3, <4>1
      <4> QED BY <2>1, <2>3, <3>2, <4>1, <4>2
    <3> QED BY <3>1, <3>2
  <2>5. g = [k \in 0 .. n |-> g[k]]
    BY <2>3
  <2>6. g = [k \in 0 .. n |-> IF k = 0 THEN Answer(m, "ok") ELSE go(g[k - 1], k)]
    BY <2>4, <2>5
  <2> QED BY <1>6, <2>6
<1>8. f = [k \in 0 .. n |-> IF k = 0 THEN Answer(m, "ok") ELSE go(f[k - 1], k)]
  <2>1. Runs(f, m, calls)
    BY <1>7
  <2> HIDE DEF f
  <2> QED BY <1>6, <2>1
<1> HIDE DEF f
<1>9. \A k \in 0 .. n : f[k] = IF k = 0 THEN Answer(m, "ok") ELSE go(f[k - 1], k)
  BY <1>8
<1> DEFINE T == {k \in 0 .. n : f[k] \in Replies}
<1>10. 0 \in T
  BY <1>1, <1>3, <1>9
<1>11. ASSUME NEW k \in 0 .. n - 1, k \in T PROVE k + 1 \in T
  <2>1. k + 1 \in 1 .. n /\ k + 1 - 1 = k /\ k + 1 \in 0 .. n /\ k + 1 # 0
    BY <1>1
  <2>2. f[k + 1] = go(f[k], k + 1)
    BY <1>9, <2>1
  <2> QED BY <1>4, <1>11, <2>1, <2>2
<1>12. 0 .. n \subseteq T
  <2>1. \A k \in 0 .. n - 1 : k \in T => k + 1 \in T
    BY <1>11
  <2> HIDE DEF T
  <2> QED BY <1>1, <1>10, <2>1, InductTo
<1>13. f[0] = Answer(m, "ok") /\ \A k \in 1 .. n : f[k] = go(f[k - 1], k)
  BY <1>1, <1>9
<1>14. \A k \in 0 .. n : f[k] \in Replies
  BY <1>12
<1> QED BY <1>2, <1>13, <1>14 DEF n, go

\* What a mount that is done went through.
LEMMA DoneThrough ==
  ASSUME NEW m \in Goods, NEW calls \in Seq(Calls), NEW run, run = Answers(m, calls), Done(run)
  PROVE  \E s : /\ Through(s, m, calls) /\ Result(m, run) = s[Len(calls)] /\ Len(run) = Len(calls)
                /\ \A k \in 1 .. Len(calls) : run[k].fs = s[k]
<1> DEFINE n == Len(calls)
<1>1. PICK f : /\ f[0] = Answer(m, "ok") /\ \A k \in 0 .. n : f[k] \in Replies
               /\ \A k \in 1 .. n : f[k] = IF f[k - 1].err # "ok" THEN f[k - 1] ELSE Apply(f[k - 1].fs, calls[k])
               /\ run = [k \in 1 .. n |-> f[k]]
  BY AnswersRun
<1>2. n \in Nat
  OBVIOUS
<1> HIDE DEF n
<1>3. Len(run) = n /\ \A k \in 1 .. n : run[k] = f[k]
  BY <1>1, <1>2
<1>4. n # 0 => Seqs!Last(run) = f[n] /\ run # <<>>
  BY <1>2, <1>3 DEF Seqs!Last
<1>5. n = 0 => run = <<>>
  BY <1>1, <1>2
<1>6. f[n].err = "ok"
  BY <1>1, <1>4, <1>5, AnswerIs DEF Done
<1> DEFINE T == {j \in 0 .. n : f[n - j].err = "ok"}
<1>7. 0 \in T
  BY <1>2, <1>6
<1>8. ASSUME NEW j \in 0 .. n - 1, j \in T PROVE j + 1 \in T
  <2>1. n - j \in 1 .. n /\ n - (j + 1) = (n - j) - 1 /\ j + 1 \in 0 .. n
    BY <1>2
  <2>2. f[n - j].err = "ok"
    BY <1>8
  <2>3. f[(n - j) - 1].err = "ok"
    BY <1>1, <2>1, <2>2
  <2> QED BY <2>1, <2>3
<1>9. 0 .. n \subseteq T
  <2>1. \A k \in 0 .. n - 1 : k \in T => k + 1 \in T
    BY <1>8
  <2> HIDE DEF T
  <2> QED BY <1>2, <1>7, <2>1, InductTo
<1>10. ASSUME NEW k \in 0 .. n PROVE f[k].err = "ok"
  <2>1. n - k \in 0 .. n /\ n - (n - k) = k
    BY <1>2
  <2>2. n - k \in T
    BY <1>9, <2>1
  <2> QED BY <2>1, <2>2
<1> HIDE DEF T
<1> DEFINE s == [k \in 0 .. n |-> f[k].fs]
<1>11. \A k \in 0 .. n : s[k] = f[k].fs /\ f[k] = Answer(s[k], "ok") /\ s[k] \in Goods
  BY <1>1, <1>10 DEF Replies, Answer
<1> HIDE DEF s
<1>12. 0 \in 0 .. n /\ n \in 0 .. n
  BY <1>2
<1>13. s[0] = m
  BY <1>1, <1>11, <1>12, AnswerIs
<1>14. ASSUME NEW k \in 1 .. n PROVE Apply(s[k - 1], calls[k]) = Answer(s[k], "ok")
  <2>1. k \in 0 .. n /\ k - 1 \in 0 .. n
    BY <1>2
  <2>2. f[k] = Apply(f[k - 1].fs, calls[k])
    BY <1>1, <1>10, <2>1
  <2> QED BY <1>11, <2>1, <2>2
<1>15. Result(m, run) = s[n]
  <2>1. CASE n = 0
    BY <1>5, <1>13, <2>1 DEF Result
  <2>2. CASE n # 0
    BY <1>4, <1>11, <1>12, <2>2 DEF Result
  <2> QED BY <2>1, <2>2
<1>16. \A k \in 1 .. n : run[k].fs = s[k]
  BY <1>2, <1>3, <1>11
<1> QED BY <1>3, <1>11, <1>13, <1>14, <1>15, <1>16 DEF Through, n

\* When none of the calls is refused, what they go through are the answers.
LEMMA ThroughDone ==
  ASSUME NEW m \in Goods, NEW calls \in Seq(Calls), NEW s, Through(s, m, calls), NEW run, run = Answers(m, calls)
  PROVE  Done(run) /\ Result(m, run) = s[Len(calls)]
<1> DEFINE n == Len(calls)
<1>1. PICK f : /\ f[0] = Answer(m, "ok") /\ \A k \in 0 .. n : f[k] \in Replies
               /\ \A k \in 1 .. n : f[k] = IF f[k - 1].err # "ok" THEN f[k - 1] ELSE Apply(f[k - 1].fs, calls[k])
               /\ run = [k \in 1 .. n |-> f[k]]
  BY AnswersRun
<1>2. n \in Nat
  OBVIOUS
<1>3. s[0] = m /\ \A k \in 1 .. n : Apply(s[k - 1], calls[k]) = Answer(s[k], "ok")
  BY DEF Through
<1> HIDE DEF n
<1> DEFINE T == {k \in 0 .. n : f[k] = Answer(s[k], "ok")}
<1>4. 0 \in T
  BY <1>1, <1>2, <1>3
<1>5. ASSUME NEW k \in 0 .. n - 1, k \in T PROVE k + 1 \in T
  <2>1. k + 1 \in 1 .. n /\ k + 1 - 1 = k /\ k + 1 \in 0 .. n
    BY <1>2
  <2>2. f[k] = Answer(s[k], "ok")
    BY <1>5
  <2>3. f[k + 1] = Apply(s[k], calls[k + 1])
    BY <1>1, <2>1, <2>2, AnswerIs
  <2> QED BY <1>3, <2>1, <2>3
<1>6. 0 .. n \subseteq T
  <2>1. \A k \in 0 .. n - 1 : k \in T => k + 1 \in T
    BY <1>5
  <2> HIDE DEF T
  <2> QED BY <1>2, <1>4, <2>1, InductTo
<1>7. f[n] = Answer(s[n], "ok")
  BY <1>2, <1>6
<1>8. n # 0 => Seqs!Last(run) = f[n] /\ run # <<>>
  BY <1>1, <1>2 DEF Seqs!Last
<1>9. n = 0 => run = <<>> /\ s[n] = m
  BY <1>1, <1>2, <1>3
<1> QED BY <1>7, <1>8, <1>9, AnswerIs DEF Done, Result, n

\* A walk to a name, the last link not followed, and one to what the name is in.
LEMMA WalkBelow ==
  ASSUME NEW m \in Goods, NEW n \in Clean, n # Root,
         NEW w, w = WalkTo(m, parent(n), TRUE), NEW v, v = WalkTo(m, n, FALSE)
  PROVE  /\ w.err \notin {"ok", "follow"} => v.err \notin {"ok", "follow"}
         /\ w.err = "ok" /\ nodeAt(m, parent(n)).kind # "dir" => v.err \notin {"ok", "follow"}
         /\ w.err = "ok" /\ nodeAt(m, parent(n)).kind = "dir" /\ nodeAt(m, n).kind = "none" => v.err = "notexist"
         /\ w.err = "ok" /\ nodeAt(m, parent(n)).kind = "dir" /\ nodeAt(m, n).kind # "none" => v = Ended("ok", n)
<1> DEFINE p == parent(n)
           l == Len(n)
           S == Stops(m, p, TRUE)
           R == Stops(m, n, FALSE)
           k == Sets!Min(S)
           j == Sets!Min(R)
<1>1. p \in Clean /\ l \in Nat \ {0} /\ Len(p) = l - 1
      /\ \A i \in 1 .. l - 1 : SubSeq(p, 1, i) = SubSeq(n, 1, i)
  BY NameIs
<1>2. SubSeq(n, 1, l) = n /\ SubSeq(p, 1, l - 1) = p
  BY <1>1 DEF Clean
<1>3. m \in Memories /\ RootStands(m)
  BY GoodsAre
<1>4. (\A i \in S : i \in R) /\ \A i \in R : i < l - 1 => i \in S
  BY ParentStops
<1>5. R # {} => /\ j \in R /\ j \in 1 .. l /\ \A i \in R : j <= i
                /\ KindAt(m, n, j) = "none" => v = Ended("notexist", SubSeq(n, 1, j))
                /\ KindAt(m, n, j) = "file" => v = Ended("notdir", SubSeq(n, 1, j))
                /\ KindAt(m, n, j) \in {"none", "file", "link"}
  <2> HIDE DEF p, S
  <2> SUFFICES ASSUME R # {}
               PROVE  /\ j \in R /\ j \in 1 .. l /\ \A i \in R : j <= i
                      /\ KindAt(m, n, j) = "none" => v = Ended("notexist", SubSeq(n, 1, j))
                      /\ KindAt(m, n, j) = "file" => v = Ended("notdir", SubSeq(n, 1, j))
                      /\ KindAt(m, n, j) \in {"none", "file", "link"}
    OBVIOUS
  <2>1. WalkTo(m, n, FALSE) = v
    OBVIOUS
  <2> QED BY <1>3, <2>1, WalkToStop
<1>6. R = {i \in 1 .. l : \/ KindAt(m, n, i) = "none"
                          \/ KindAt(m, n, i) = "link" /\ i < l
                          \/ KindAt(m, n, i) = "file" /\ i < l}
  BY StopsAre
<1>7. S # {} => /\ k \in S /\ k \in 1 .. Len(p) /\ \A i \in S : k <= i
                /\ KindAt(m, p, k) = "link" => w = Ended("follow", Led(m, p, k))
                /\ KindAt(m, p, k) \in {"none", "file", "link"}
  <2> HIDE DEF R
  <2> SUFFICES ASSUME S # {}
               PROVE  /\ k \in S /\ k \in 1 .. Len(p) /\ \A i \in S : k <= i
                      /\ KindAt(m, p, k) = "link" => w = Ended("follow", Led(m, p, k))
                      /\ KindAt(m, p, k) \in {"none", "file", "link"}
    OBVIOUS
  <2>1. WalkTo(m, p, TRUE) = w
    OBVIOUS
  <2> HIDE DEF p
  <2> QED BY <1>1, <1>3, <2>1, WalkToStop
<1>8. S = {} => w = Ended("ok", p)
  BY <1>1, WalkToEnd
<1>9. R = {} => v = Ended("ok", n)
  BY WalkToEnd
<1>10. w.err = "ok" => S = {}
  <2>1. w = WalkTo(m, p, TRUE)
    OBVIOUS
  <2> HIDE DEF p, S
  <2> QED BY <1>1, <1>3, <2>1, WalkToType DEF S
<1>11. KindAt(m, n, l) = nodeAt(m, n).kind /\ KindAt(m, p, l - 1) = nodeAt(m, p).kind
       /\ \A i \in 1 .. l - 1 : KindAt(m, n, i) = KindAt(m, p, i)
  BY <1>1, <1>2 DEF KindAt
<1>12. S = {} => /\ nodeAt(m, p).kind \in {"file", "dir"}
                 /\ \A i \in 1 .. l - 2 : KindAt(m, n, i) = "dir"
  <2>1. S = {} => /\ nodeAt(m, p).kind \in {"file", "dir", "link"} /\ nodeAt(m, p).kind # "link"
                  /\ \A i \in 1 .. Len(p) - 1 : KindAt(m, p, i) = "dir"
    <3> HIDE DEF p
    <3> QED BY <1>1, <1>3, WalkedThrough
  <2> HIDE DEF p, S, l
  <2> QED BY <1>1, <1>11, <2>1
<1>13. l = 1 => nodeAt(m, p).kind = "dir"
  <2>1. l = 1 => p = Root
    BY <1>1, EmptySeq DEF Clean, Root
  <2> HIDE DEF l, p
  <2> QED BY <1>3, <2>1 DEF RootStands
<1>w. w = WalkTo(m, p, TRUE)
  OBVIOUS
<1> HIDE DEF p, l, S, R, k, j
<1>14. ASSUME w.err \notin {"ok", "follow"} PROVE v.err \notin {"ok", "follow"}
  <2>1. S # {}
    BY <1>8, <1>14, EndedIs
  <2>2. KindAt(m, p, k) \in {"none", "file"}
    BY <1>7, <1>14, <2>1, EndedIs
  <2>3. R # {} /\ k \in R
    BY <1>4, <1>7, <2>1
  <2>4. j = k /\ k \in 1 .. l - 1
    <3>1. j <= k /\ j \in R /\ j \in 1 .. l
      BY <1>5, <2>3
    <3>2. k \in 1 .. l - 1 /\ \A i \in S : k <= i
      BY <1>1, <1>7, <2>1
    <3>3. l \in Nat
      BY <1>1
    <3>4. j < k => j < l - 1
      BY <3>1, <3>2, <3>3
    <3>5. j < k => k <= j
      BY <1>4, <3>1, <3>2, <3>4
    <3> QED BY <3>1, <3>2, <3>3, <3>5
  <2>5. KindAt(m, n, j) = KindAt(m, p, k)
    BY <1>11, <2>4
  <2>6. v = Ended("notexist", SubSeq(n, 1, j)) \/ v = Ended("notdir", SubSeq(n, 1, j))
    BY <1>5, <2>2, <2>3, <2>5
  <2>7. v.err \in {"notexist", "notdir"}
    <3>1. \A x : Ended("notexist", x).err = "notexist" /\ Ended("notdir", x).err = "notdir"
      BY EndedIs
    <3> HIDE DEF k
    <3>2. v.err = "notexist" \/ v.err = "notdir"
      BY <2>6, <3>1, Zenon
    <3> QED BY <3>2
  <2> QED BY <2>7
<1>15. ASSUME w.err = "ok", nodeAt(m, p).kind # "dir" PROVE v.err \notin {"ok", "follow"}
  <2>1. S = {} /\ nodeAt(m, p).kind = "file"
    BY <1>10, <1>12, <1>15
  <2>2. l - 1 \in 1 .. l - 1 /\ l - 1 < l /\ l - 1 \in 1 .. l
    BY <1>1, <1>13, <1>15
  <2>3. l - 1 \in R
    BY <1>6, <1>11, <2>1, <2>2
  <2>4. j = l - 1
    <3>1. j <= l - 1 /\ j \in 1 .. l
      BY <1>5, <2>3
    <3>2. j # l - 1 => j \in 1 .. l - 2
      BY <1>1, <3>1
    <3>3. j \in R
      BY <1>5, <2>3
    <3> QED BY <1>6, <1>12, <2>1, <3>2, <3>3
  <2>5. KindAt(m, n, j) = "file"
    BY <1>11, <2>1, <2>2, <2>4
  <2>6. v = Ended("notdir", SubSeq(n, 1, j))
    BY <1>5, <2>3, <2>5
  <2>7. v.err = "notdir"
    <3>1. \A x : Ended("notdir", x).err = "notdir"
      BY EndedIs
    <3> QED BY <2>6, <3>1, Zenon
  <2> QED BY <2>7
<1>16. ASSUME w.err = "ok", nodeAt(m, p).kind = "dir"
       PROVE  /\ nodeAt(m, n).kind = "none" => v.err = "notexist"
              /\ nodeAt(m, n).kind # "none" => v = Ended("ok", n)
  <2>1. \A i \in 1 .. l - 1 : KindAt(m, n, i) = "dir"
    <3> SUFFICES ASSUME NEW i \in 1 .. l - 1 PROVE KindAt(m, n, i) = "dir"
      OBVIOUS
    <3>1. i = l - 1 \/ i \in 1 .. l - 2
      BY <1>1
    <3> QED BY <1>10, <1>11, <1>12, <1>16, <3>1
  <2>2. \A i \in R : i = l
    <3> SUFFICES ASSUME NEW i \in R, i # l PROVE FALSE
      OBVIOUS
    <3>1. i \in 1 .. l - 1
      BY <1>1, <1>6
    <3> QED BY <1>6, <2>1, <3>1
  <2>3. l \in R <=> nodeAt(m, n).kind = "none"
    BY <1>1, <1>6, <1>11
  <2>4. ASSUME nodeAt(m, n).kind = "none" PROVE v.err = "notexist"
    BY <1>5, <1>11, <2>2, <2>3, <2>4, EndedIs
  <2>5. ASSUME nodeAt(m, n).kind # "none" PROVE v = Ended("ok", n)
    <3>1. R = {}
      BY <2>2, <2>3, <2>5
    <3> QED BY <1>9, <3>1
  <2> QED BY <2>4, <2>5
<1> QED BY <1>14, <1>15, <1>16 DEF p

\* What a lookup that does not follow the last link finds is in what the parent leads to.
LEMMA LstatThere ==
  ASSUME NEW m \in Goods, NEW n \in Clean, n # Root,
         NEW up, up = Open(m, parent(n)), NEW found, found = Lstat(m, n)
  PROVE  /\ up.err # "ok" => found.err # "ok"
         /\ up.err = "ok" =>
              /\ nodeAt(m, up.at).kind # "dir" => found.err # "ok"
              /\ nodeAt(m, up.at).kind = "dir" =>
                   /\ nodeAt(m, Append(up.at, n[Len(n)])).kind = "none" => found.err = "notexist"
                   /\ nodeAt(m, Append(up.at, n[Len(n)])).kind # "none" =>
                        found = Ended("ok", Append(up.at, n[Len(n)]))
<1> DEFINE Fine(u, v, c) ==
             /\ u.err # "ok" => v.err # "ok"
             /\ u.err = "ok" =>
                  /\ nodeAt(m, u.at).kind # "dir" => v.err # "ok"
                  /\ nodeAt(m, u.at).kind = "dir" =>
                       /\ nodeAt(m, Append(u.at, c)).kind = "none" => v.err = "notexist"
                       /\ nodeAt(m, Append(u.at, c)).kind # "none" => v = Ended("ok", Append(u.at, c))
<1>1. m \in Memories
  BY GoodsAre
<1>2. PICK V : /\ \A start : resolveLocked(m, start, FALSE) = V[LinkHops][WalkTo(m, start, FALSE)]
               /\ \A h \in 0 .. LinkHops, r \in Walks :
                    /\ r.err # "follow" => V[h][r] = r
                    /\ r.err = "follow" /\ h = 0 => V[h][r] = Ended("loop", r.at)
                    /\ r.err = "follow" /\ h # 0 => V[h][r] = V[h - 1][WalkTo(m, r.at, FALSE)]
  BY <1>1, Resolved
<1>3. LinkHops \in Nat /\ LinkHops \in 0 .. LinkHops
  BY DEF LinkHops
<1> DEFINE T == {h \in 0 .. LinkHops :
                   \A x \in Clean : x # Root => Fine(From(m, h, parent(x)), V[h][WalkTo(m, x, FALSE)], x[Len(x)])}
\* A walk that does not follow a link on the way to the parent.
<1>4. ASSUME NEW h \in 0 .. LinkHops, NEW x \in Clean, x # Root, WalkTo(m, parent(x), TRUE).err # "follow"
      PROVE  Fine(From(m, h, parent(x)), V[h][WalkTo(m, x, FALSE)], x[Len(x)])
  <2> DEFINE w == WalkTo(m, parent(x), TRUE)
             v == WalkTo(m, x, FALSE)
             c == x[Len(x)]
             p == parent(x)
  <2>1. p \in Clean /\ x = Append(p, c)
    BY <1>4, NameIs
  <2>2. From(m, h, p) = w
    <3>1. p \in Clear
      BY <2>1 DEF Clear
    <3> QED BY <1>1, <1>4, <3>1, FromIs
  <2>3. /\ w.err \notin {"ok", "follow"} => v.err \notin {"ok", "follow"}
        /\ w.err = "ok" /\ nodeAt(m, p).kind # "dir" => v.err \notin {"ok", "follow"}
        /\ w.err = "ok" /\ nodeAt(m, p).kind = "dir" /\ nodeAt(m, x).kind = "none" => v.err = "notexist"
        /\ w.err = "ok" /\ nodeAt(m, p).kind = "dir" /\ nodeAt(m, x).kind # "none" => v = Ended("ok", x)
    <3>1. x # Root /\ w = WalkTo(m, parent(x), TRUE) /\ v = WalkTo(m, x, FALSE)
      BY <1>4
    <3> HIDE DEF w, v
    <3>2. \A a \in Clean : a # Root => LET ww == WalkTo(m, parent(a), TRUE)
                                          vv == WalkTo(m, a, FALSE) IN
            /\ ww.err \notin {"ok", "follow"} => vv.err \notin {"ok", "follow"}
            /\ ww.err = "ok" /\ nodeAt(m, parent(a)).kind # "dir" => vv.err \notin {"ok", "follow"}
            /\ ww.err = "ok" /\ nodeAt(m, parent(a)).kind = "dir" /\ nodeAt(m, a).kind = "none" => vv.err = "notexist"
            /\ ww.err = "ok" /\ nodeAt(m, parent(a)).kind = "dir" /\ nodeAt(m, a).kind # "none" => vv = Ended("ok", a)
      BY WalkBelow
    <3> QED BY <3>1, <3>2, Zenon DEF p
  <2>4. w.err = "ok" => w.at = p
    BY <1>1, <2>1, WalkToType
  <2>5. v \in Walks
    BY <1>1, WalkToType
  <2>6. v.err # "follow"
    BY <1>4, <2>3, EndedIs
  <2>7. V[h][v] = v
    BY <1>2, <2>5, <2>6
  <2>8. w.err # "follow"
    BY <1>4
  <2> HIDE DEF w, v, c, p
  <2>9. Fine(w, v, c)
    BY <2>1, <2>3, <2>4, <2>8
  <2>10. Fine(From(m, h, p), V[h][v], c)
    BY <2>2, <2>7, <2>9
  <2> QED BY <2>10 DEF v, c, p
\* One that does.
<1>5. ASSUME NEW h \in 0 .. LinkHops, NEW x \in Clean, x # Root, WalkTo(m, parent(x), TRUE).err = "follow",
             h # 0 => h - 1 \in T
      PROVE  Fine(From(m, h, parent(x)), V[h][WalkTo(m, x, FALSE)], x[Len(x)])
  <2> DEFINE w == WalkTo(m, parent(x), TRUE)
             v == WalkTo(m, x, FALSE)
             c == x[Len(x)]
             p == parent(x)
  <2>1. /\ v.err = "follow" /\ (w.at = Outside => v.at = Outside)
        /\ w.at # Outside => w.at \in Clean /\ v.at = Append(w.at, c)
    BY <1>1, <1>5, ParentFollows
  <2>2. p \in Clean /\ c \in Components
    BY <1>5, NameIs
  <2>3. v \in Walks /\ w.err = "follow"
    BY <1>1, <1>5, WalkToType
  <2>4. /\ h = 0 => From(m, h, p).err = "loop"
        /\ h # 0 => From(m, h, p) = From(m, h - 1, w.at)
    <3>1. p \in Clear
      BY <2>2 DEF Clear
    <3> QED BY <1>1, <1>5, <3>1, FromIs
  <2>5. /\ h = 0 => V[h][v] = Ended("loop", v.at)
        /\ h # 0 => V[h][v] = V[h - 1][WalkTo(m, v.at, FALSE)]
    BY <1>2, <2>1, <2>3
  <2> HIDE DEF w, v, c, p
  <2>6. CASE h = 0
    <3>1. From(m, h, p).err # "ok" /\ V[h][v].err # "ok"
      BY <2>4, <2>5, <2>6, EndedIs
    <3> QED BY <3>1 DEF v, c, p
  <2>7. CASE h # 0
    <3>1. h - 1 \in T /\ h - 1 \in 0 .. LinkHops
      BY <1>5, <2>7
    <3>2. CASE w.at = Outside
      <4>1. From(m, h, p).err # "ok"
        BY <1>1, <2>4, <2>7, <3>1, <3>2, NotOutside
      <4>2. WalkTo(m, Outside, FALSE).err = "invalid" /\ WalkTo(m, Outside, FALSE) \in Walks
        <5>1. WalkTo(m, Outside, FALSE) = Ended("invalid", Outside)
          BY DEF WalkTo, Ended
        <5>2. Ended("invalid", Outside) \in Walks
          BY DEF Walks, Ended, Outcomes
        <5> QED BY <5>1, <5>2, EndedIs
      <4>3. V[h - 1][WalkTo(m, Outside, FALSE)] = WalkTo(m, Outside, FALSE)
        BY <1>2, <3>1, <4>2
      <4>4. V[h][v].err # "ok"
        BY <2>1, <2>5, <2>7, <3>2, <4>2, <4>3
      <4> QED BY <4>1, <4>4 DEF v, c, p
    <3>3. CASE w.at # Outside
      <4> DEFINE d == w.at
                 y == Append(d, c)
      <4>1. d \in Clean /\ v.at = y
        BY <2>1, <3>3
      <4> HIDE DEF d
      <4>2. y \in Clean /\ y # Root /\ parent(y) = d /\ y[Len(y)] = c
        BY <2>2, <4>1, AppendIs
      <4> HIDE DEF y
      <4>3. Fine(From(m, h - 1, parent(y)), V[h - 1][WalkTo(m, y, FALSE)], y[Len(y)])
        BY <3>1, <4>2
      <4>4. From(m, h, p) = From(m, h - 1, d) /\ V[h][v] = V[h - 1][WalkTo(m, y, FALSE)]
        BY <2>4, <2>5, <2>7, <4>1 DEF d
      <4>5. Fine(From(m, h, p), V[h][v], c)
        <5>1. parent(y) = d /\ y[Len(y)] = c
          BY <4>2
        <5> HIDE DEF Fine
        <5> QED BY <4>3, <4>4, <5>1
      <4> QED BY <4>5 DEF v, c, p
    <3> QED BY <3>2, <3>3
  <2> QED BY <2>6, <2>7
<1> HIDE DEF Fine
<1>6. 0 \in T
  <2>0. 0 \in 0 .. LinkHops
    BY <1>3
  <2>1. \A x \in Clean : x # Root => Fine(From(m, 0, parent(x)), V[0][WalkTo(m, x, FALSE)], x[Len(x)])
    <3> DEFINE h == 0
    <3>1. h \in 0 .. LinkHops /\ (h # 0 => h - 1 \in T)
      BY <2>0
    <3> HIDE DEF h, T
    <3>2. \A x \in Clean : x # Root => Fine(From(m, h, parent(x)), V[h][WalkTo(m, x, FALSE)], x[Len(x)])
      BY <1>4, <1>5, <3>1
    <3> QED BY <3>2 DEF h
  <2> QED BY <2>0, <2>1
<1>7. ASSUME NEW j \in 0 .. LinkHops - 1, j \in T PROVE j + 1 \in T
  <2> DEFINE h == j + 1
  <2>1. h \in 0 .. LinkHops /\ h # 0 /\ h - 1 = j
    BY <1>3
  <2> HIDE DEF h
  <2>2. \A x \in Clean : x # Root => Fine(From(m, h, parent(x)), V[h][WalkTo(m, x, FALSE)], x[Len(x)])
    BY <1>4, <1>5, <1>7, <2>1
  <2> QED BY <2>1, <2>2 DEF h
<1>8. 0 .. LinkHops \subseteq T
  <2>1. \A i \in 0 .. LinkHops - 1 : i \in T => i + 1 \in T
    BY <1>7
  <2> HIDE DEF T
  <2> QED BY <1>3, <1>6, <2>1, InductTo
<1>9. Fine(From(m, LinkHops, parent(n)), V[LinkHops][WalkTo(m, n, FALSE)], n[Len(n)])
  BY <1>3, <1>8
<1>10. From(m, LinkHops, parent(n)) = up /\ V[LinkHops][WalkTo(m, n, FALSE)] = found
  <2>1. parent(n) \in Clean
    BY NameIs
  <2> QED BY <1>1, <1>2, <2>1, OpenIs DEF Lstat
<1>11. Fine(up, found, n[Len(n)])
  BY <1>9, <1>10
<1> QED BY <1>11 DEF Fine

\* No link on the way to a name, nor at it.
Direct(m, n) == \A i \in 1 .. Len(n) : KindAt(m, n, i) # "link"

\* What a name leads to.
Leads(m, n, x) == Open(m, n) = Ended("ok", x)

\* A walk that meets no link follows none.
LEMMA NoneFollowed ==
  ASSUME NEW m \in Memories, NEW n \in Clean, Direct(m, n)
  PROVE  WalkTo(m, n, TRUE).err # "follow"
<1> DEFINE w == WalkTo(m, n, TRUE)
           S == Stops(m, n, TRUE)
           k == Sets!Min(S)
<1>1. CASE S = {}
  <2>1. w = Ended("ok", n)
    BY <1>1, WalkToEnd
  <2> HIDE DEF w
  <2>2. w.err = "ok"
    BY <2>1, EndedIs
  <2> QED BY <2>2 DEF w
<1>2. CASE S # {}
  <2>1. /\ k \in 1 .. Len(n)
        /\ KindAt(m, n, k) = "none" => w = Ended("notexist", SubSeq(n, 1, k))
        /\ KindAt(m, n, k) = "file" => w = Ended("notdir", SubSeq(n, 1, k))
        /\ KindAt(m, n, k) \in {"none", "file", "link"}
    BY <1>2, WalkToStop
  <2> HIDE DEF w, k
  <2>2. KindAt(m, n, k) # "link"
    BY <2>1 DEF Direct
  <2>3. w.err \in {"notexist", "notdir"}
    BY <2>1, <2>2, EndedIs
  <2> QED BY <2>3 DEF w
<1> QED BY <1>1, <1>2

\* What is in something that is not there is not there.
LEMMA ParentStands ==
  ASSUME NEW m \in Goods, NEW n \in Clean, n # Root, nodeAt(m, n).kind # "none"
  PROVE  nodeAt(m, parent(n)).kind = "dir" /\ n \in Paths /\ m.at[n] # 0
<1>1. n \in Places /\ m.at[n] \in Ids
  BY NodeAt, GoodsAre
<1>2. n \in Paths /\ m.at[n] # 0
  BY <1>1, PlacesAre
<1> QED BY <1>2, GoodsAre DEF Treed

\* A name that leads somewhere leads to something, below directories.
LEMMA LeadsTo ==
  ASSUME NEW m \in Goods, NEW t \in Clean, NEW x, Leads(m, t, x)
  PROVE  /\ x \in Places /\ x \in Clean /\ m.at[x] \in Ids /\ nodeAt(m, x).kind \in {"file", "dir"}
         /\ Direct(m, x)
<1> DEFINE r == Open(m, t)
<1>1. r.err = "ok" /\ r.at = x
  BY EndedIs DEF Leads
<1>2. /\ r.err = "ok" =>
           /\ r.at \in Places /\ m.at[r.at] \in Ids
           /\ nodeAt(m, r.at).kind \in {"file", "dir", "link"} /\ nodeAt(m, r.at).kind # "link"
           /\ \A i \in 1 .. Len(r.at) - 1 : KindAt(m, r.at, i) = "dir"
  BY Lookup, GoodsAre DEF Open
<1> HIDE DEF r
<1>3. x \in Clean /\ Len(x) \in Nat /\ SubSeq(x, 1, Len(x)) = x
  BY <1>1, <1>2, PlacesAre DEF Clean
<1>4. ASSUME NEW i \in 1 .. Len(x) PROVE KindAt(m, x, i) # "link"
  <2>1. i = Len(x) \/ i \in 1 .. Len(x) - 1
    <3> DEFINE l == Len(x)
    <3>1. l \in Nat /\ i \in 1 .. l
      BY <1>3
    <3> HIDE DEF l
    <3>2. i = l \/ i \in 1 .. l - 1
      BY <3>1
    <3> QED BY <3>2 DEF l
  <2>2. KindAt(m, x, Len(x)) = nodeAt(m, x).kind
    BY <1>3 DEF KindAt
  <2> QED BY <1>1, <1>2, <2>1, <2>2
<1> QED BY <1>1, <1>2, <1>3, <1>4 DEF Direct

\* No link is met on the way to what a name is in.
LEMMA DirectParent ==
  ASSUME NEW m, NEW n \in Clean, n # Root, Direct(m, n)
  PROVE  Direct(m, parent(n))
<1> DEFINE l == Len(n)
           p == parent(n)
<1>1. l \in Nat \ {0} /\ Len(p) = l - 1 /\ \A i \in 1 .. l - 1 : SubSeq(p, 1, i) = SubSeq(n, 1, i)
  BY NameIs
<1>2. \A i \in 1 .. l : KindAt(m, n, i) # "link"
  BY DEF Direct
<1> HIDE DEF l, p
<1>3. \A i \in 1 .. l - 1 : i \in 1 .. l
  BY <1>1
<1>4. \A i \in 1 .. l - 1 : KindAt(m, p, i) = KindAt(m, n, i)
  BY <1>1 DEF KindAt
<1>5. \A i \in 1 .. l - 1 : KindAt(m, p, i) # "link"
  BY <1>2, <1>3, <1>4
<1> QED BY <1>1, <1>5 DEF Direct, p

\* Below a name that leads somewhere, names without links lead on from there.
LEMMA OpenBelow ==
  ASSUME NEW m \in Goods, NEW t \in Clean, NEW x, Leads(m, t, x), NEW q \in Clean, Direct(m, x \o q)
  PROVE  /\ nodeAt(m, x \o q).kind # "none" => Leads(m, t \o q, x \o q)
         /\ nodeAt(m, x \o q).kind = "none" => Open(m, t \o q).err # "ok"
         /\ q # Root /\ nodeAt(m, x \o q).kind = "none" /\ nodeAt(m, x \o parent(q)).kind = "dir" =>
              Open(m, t \o q).err = "notexist"
<1> DEFINE Fine(r) ==
             Direct(m, x \o r) =>
               /\ nodeAt(m, x \o r).kind # "none" => Leads(m, t \o r, x \o r)
               /\ nodeAt(m, x \o r).kind = "none" => Open(m, t \o r).err # "ok"
               /\ r # Root /\ nodeAt(m, x \o r).kind = "none" /\ nodeAt(m, x \o parent(r)).kind = "dir" =>
                    Open(m, t \o r).err = "notexist"
           T == {l \in Nat : \A r \in Clean : Len(r) = l => Fine(r)}
<1>1. /\ x \in Clean /\ nodeAt(m, x).kind \in {"file", "dir"} /\ m \in Memories /\ RootStands(m)
  BY LeadsTo, GoodsAre
<1>2. 0 \in T
  <2> SUFFICES ASSUME NEW r \in Clean, Len(r) = 0 PROVE Fine(r)
    OBVIOUS
  <2>1. r = Root
    BY EmptySeq DEF Clean, Root
  <2>2. x \o r = x /\ t \o r = t
    BY <1>1, <2>1 DEF Clean, Root
  <2>3. nodeAt(m, x).kind # "none"
    BY <1>1
  <2> QED BY <2>1, <2>2, <2>3
<1>3. ASSUME NEW l \in Nat, l \in T PROVE l + 1 \in T
  <2> SUFFICES ASSUME NEW r \in Clean, Len(r) = l + 1, Direct(m, x \o r)
               PROVE  /\ nodeAt(m, x \o r).kind # "none" => Leads(m, t \o r, x \o r)
                      /\ nodeAt(m, x \o r).kind = "none" => Open(m, t \o r).err # "ok"
                      /\ r # Root /\ nodeAt(m, x \o r).kind = "none" /\ nodeAt(m, x \o parent(r)).kind = "dir" =>
                           Open(m, t \o r).err = "notexist"
    OBVIOUS
  <2> DEFINE y == parent(r)
             c == r[Len(r)]
             n == t \o r
             z == x \o r
  <2>1. r # Root
    BY DEF Root
  <2>2. y \in Clean /\ Len(y) = l /\ c \in Components /\ r = Append(y, c)
    BY <2>1, NameIs
  <2>3. n \in Clean /\ n # Root /\ parent(n) = t \o y
    BY <2>1, JoinIs
  <2>4. z \in Clean /\ z # Root /\ parent(z) = x \o y
    BY <1>1, <2>1, JoinIs
  <2>5. z = Append(x \o y, c) /\ n[Len(n)] = c
    <3>1. x \o Append(y, c) = Append(x \o y, c) /\ t \o Append(y, c) = Append(t \o y, c)
      BY <1>1, <2>2 DEF Clean
    <3>2. t \o y \in Clean
      BY <2>3, NameIs
    <3> HIDE DEF y, c
    <3>3. Append(t \o y, c)[Len(Append(t \o y, c))] = c
      BY <2>2, <3>2, AppendIs
    <3> QED BY <2>2, <3>1, <3>3
  <2>6. Direct(m, z)
    OBVIOUS
  <2> HIDE DEF y, c, n, z
  <2>7. Direct(m, x \o y)
    BY <2>4, <2>6, DirectParent
  <2>8. Fine(y)
    BY <1>3, <2>2
  <2>9. From(m, LinkHops, n) = Open(m, n) /\ From(m, LinkHops, parent(n)) = Open(m, parent(n)) /\ LinkHops \in 0 .. LinkHops
    <3>1. parent(n) \in Clean
      BY <2>3, NameIs
    <3> QED BY <1>1, <2>3, <3>1, OpenIs
  <2>10. CASE nodeAt(m, x \o y).kind = "none"
    <3>1. Open(m, parent(n)).err # "ok"
      BY <2>3, <2>7, <2>8, <2>10
    <3>2. Open(m, n).err # "ok"
      BY <1>1, <2>3, <2>9, <3>1, FromParent
    <3>3. nodeAt(m, z).kind = "none"
      <4> SUFFICES ASSUME nodeAt(m, z).kind # "none" PROVE FALSE
        OBVIOUS
      <4>1. nodeAt(m, parent(z)).kind = "dir"
        BY <2>4, ParentStands
      <4> QED BY <2>4, <2>10, <4>1
    <3> QED BY <2>10, <3>2, <3>3 DEF n, z, y
  <2>11. CASE nodeAt(m, x \o y).kind # "none"
    <3>1. Open(m, parent(n)).err = "ok" /\ Open(m, parent(n)).at = x \o y
      <4>1. Open(m, parent(n)) = Ended("ok", x \o y)
        BY <2>3, <2>7, <2>8, <2>11 DEF Leads
      <4> QED BY <4>1, EndedIs
    <3>2. PICK g \in 0 .. LinkHops : Open(m, n) = From(m, g, z)
      <4>1. LET d == From(m, LinkHops, parent(n)).at
            IN  d \in Clean /\ \E g \in 0 .. LinkHops : From(m, LinkHops, n) = From(m, g, Append(d, n[Len(n)]))
        BY <1>1, <2>3, <2>9, <3>1, FromBelow
      <4>2. Append(From(m, LinkHops, parent(n)).at, n[Len(n)]) = z
        BY <2>5, <2>9, <3>1
      <4> QED BY <2>9, <4>1, <4>2
    <3>3. WalkTo(m, z, TRUE).err # "follow"
      BY <1>1, <2>4, <2>6, NoneFollowed
    <3>4. Open(m, n) = WalkTo(m, z, TRUE)
      <4>1. z \in Clear
        BY <2>4 DEF Clear
      <4> QED BY <1>1, <3>2, <3>3, <4>1, FromIs
    <3>5. ASSUME nodeAt(m, z).kind # "none" PROVE Leads(m, n, z)
      <4>1. nodeAt(m, parent(z)).kind = "dir"
        BY <2>4, <3>5, ParentStands
      <4>2. nodeAt(m, z).kind # "link"
        <5> DEFINE k == Len(z)
        <5>1. k \in Nat \ {0} /\ SubSeq(z, 1, k) = z
          BY <2>4, NameIs DEF Clean
        <5>2. \A i \in 1 .. k : KindAt(m, z, i) # "link"
          BY <2>6 DEF Direct
        <5> HIDE DEF k
        <5>3. KindAt(m, z, k) # "link"
          BY <5>1, <5>2
        <5> QED BY <5>1, <5>3 DEF KindAt
      <4>3. nodeAt(m, z).kind \in {"file", "dir"}
        <5>1. nodeAt(m, z) \in Node
          BY <1>1, NodeAt
        <5> QED BY <3>5, <4>2, <5>1 DEF Node
      <4>4. WalkTo(m, z, TRUE) = Ended("ok", z)
        BY <2>4, <4>1, <4>3, WalkThere
      <4> QED BY <3>4, <4>4 DEF Leads
    <3>6. ASSUME nodeAt(m, z).kind = "none" PROVE Open(m, n).err # "ok"
      <4> SUFFICES ASSUME WalkTo(m, z, TRUE).err = "ok" PROVE FALSE
        BY <3>4
      <4>1. WalkTo(m, z, TRUE).err = "ok" => Stops(m, z, TRUE) = {}
        BY <1>1, <2>4, WalkToType
      <4>2. nodeAt(m, z).kind \in {"file", "dir", "link"}
        BY <1>1, <2>4, <4>1, WalkedThrough
      <4> QED BY <3>6, <4>2
    <3>7. ASSUME nodeAt(m, z).kind = "none", nodeAt(m, x \o y).kind = "dir" PROVE Open(m, n).err = "notexist"
      BY <2>4, <3>4, <3>7, WalkThere
    <3> QED BY <3>5, <3>6, <3>7 DEF n, z, y
  <2> QED BY <2>10, <2>11
<1>4. Nat \subseteq T
  <2>1. \A l \in Nat : l \in T => l + 1 \in T
    BY <1>3
  <2> HIDE DEF T
  <2> QED BY <1>2, <2>1, Induct
<1>5. Fine(q)
  <2>1. Len(q) \in Nat
    BY DEF Clean
  <2> QED BY <1>4, <2>1
<1> QED BY <1>5

\* The place of a new entry, with what its parent leads to given.
LEMMA SlotOf ==
  ASSUME NEW m, NEW n, NEW up, up = Open(m, parent(n))
  PROVE  Slot(m, n) = IF up.err # "ok" THEN up
                      ELSE IF nodeAt(m, up.at).kind # "dir" THEN [err |-> "notdir", at |-> up.at]
                      ELSE [err |-> "ok", at |-> Append(up.at, n[Len(n)])]
  BY DEF Slot, Then

\* What is known of a name below one that leads to x, when no link is on the way
\* to what it is in.
LEMMA Beneath ==
  ASSUME NEW m \in Goods, NEW t \in Clean, NEW x, Leads(m, t, x), NEW q \in Clean, q # Root,
         Direct(m, x \o parent(q))
  PROVE  /\ t \o q \in Clean /\ t \o q # Root /\ x \o q \in Clean /\ x \o q # Root
         /\ parent(x \o q) = x \o parent(q)
         /\ Slot(m, t \o q).err \in Outcomes
         /\ nodeAt(m, parent(x \o q)).kind = "dir" =>
              /\ Slot(m, t \o q).err = "ok" /\ Slot(m, t \o q).at = x \o q
              /\ nodeAt(m, x \o q).kind = "none" => Lstat(m, t \o q).err = "notexist"
              /\ nodeAt(m, x \o q).kind # "none" => Lstat(m, t \o q) = Ended("ok", x \o q)
         /\ nodeAt(m, parent(x \o q)).kind # "dir" => Slot(m, t \o q).err # "ok" /\ Lstat(m, t \o q).err # "ok"
<1> DEFINE n == t \o q
           z == x \o q
<1>n. n = t \o q /\ z = x \o q
  OBVIOUS
<1> HIDE DEF n, z
<1> SUFFICES /\ n \in Clean /\ n # Root /\ z \in Clean /\ z # Root /\ parent(z) = x \o parent(q)
             /\ Slot(m, n).err \in Outcomes
             /\ nodeAt(m, parent(z)).kind = "dir" =>
                  /\ Slot(m, n).err = "ok" /\ Slot(m, n).at = z
                  /\ nodeAt(m, z).kind = "none" => Lstat(m, n).err = "notexist"
                  /\ nodeAt(m, z).kind # "none" => Lstat(m, n) = Ended("ok", z)
             /\ nodeAt(m, parent(z)).kind # "dir" => Slot(m, n).err # "ok" /\ Lstat(m, n).err # "ok"
  BY DEF n, z
<1> DEFINE y == parent(q)
           c == q[Len(q)]
           up == Open(m, parent(n))
<1>1. x \in Clean
  BY LeadsTo
<1>2. y \in Clean /\ c \in Components /\ q = Append(y, c)
  BY NameIs
<1>3. n \in Clean /\ n # Root /\ parent(n) = t \o y /\ z \in Clean /\ z # Root /\ parent(z) = x \o y
  BY <1>n, <1>1, JoinIs
<1>4. z = Append(x \o y, c) /\ n[Len(n)] = c
  <2>1. x \o Append(y, c) = Append(x \o y, c) /\ t \o Append(y, c) = Append(t \o y, c)
    BY <1>1, <1>2 DEF Clean
  <2>2. t \o y \in Clean
    BY <1>3, NameIs
  <2> HIDE DEF y, c
  <2>3. Append(t \o y, c)[Len(Append(t \o y, c))] = c
    BY <1>2, <2>2, AppendIs
  <2> QED BY <1>n, <1>2, <2>1, <2>3
<1>5. /\ nodeAt(m, x \o y).kind # "none" => up.err = "ok" /\ up.at = x \o y
      /\ nodeAt(m, x \o y).kind = "none" => up.err # "ok"
  <2>1. /\ nodeAt(m, x \o y).kind # "none" => Leads(m, t \o y, x \o y)
        /\ nodeAt(m, x \o y).kind = "none" => Open(m, t \o y).err # "ok"
    BY <1>2, OpenBelow
  <2>2. \A w : w = Ended("ok", x \o y) => w.err = "ok" /\ w.at = x \o y
    BY EndedIs
  <2>3. up = Open(m, t \o y)
    BY <1>3
  <2> HIDE DEF y, up
  <2> QED BY <2>1, <2>2, <2>3 DEF Leads
<1>6. Slot(m, n) = IF up.err # "ok" THEN up
                   ELSE IF nodeAt(m, up.at).kind # "dir" THEN [err |-> "notdir", at |-> up.at]
                   ELSE [err |-> "ok", at |-> Append(up.at, n[Len(n)])]
  <2>1. up = Open(m, parent(n))
    OBVIOUS
  <2> HIDE DEF up
  <2> QED BY <2>1, SlotOf
<1>7. up.err \in Outcomes
  <2>1. parent(n) \in Clean
    BY <1>3, NameIs
  <2>2. up \in Walks
    BY <2>1, Lookup, GoodsAre DEF Open
  <2> QED BY <2>2 DEF Walks
<1>8. /\ up.err # "ok" => Lstat(m, n).err # "ok"
      /\ up.err = "ok" =>
           /\ nodeAt(m, up.at).kind # "dir" => Lstat(m, n).err # "ok"
           /\ nodeAt(m, up.at).kind = "dir" =>
                /\ nodeAt(m, Append(up.at, n[Len(n)])).kind = "none" => Lstat(m, n).err = "notexist"
                /\ nodeAt(m, Append(up.at, n[Len(n)])).kind # "none" => Lstat(m, n) = Ended("ok", Append(up.at, n[Len(n)]))
  <2>1. up = Open(m, parent(n))
    OBVIOUS
  <2> HIDE DEF up
  <2> DEFINE found == Lstat(m, n)
  <2>2. found = Lstat(m, n)
    OBVIOUS
  <2> HIDE DEF found
  <2>3. /\ up.err # "ok" => found.err # "ok"
        /\ up.err = "ok" =>
             /\ nodeAt(m, up.at).kind # "dir" => found.err # "ok"
             /\ nodeAt(m, up.at).kind = "dir" =>
                  /\ nodeAt(m, Append(up.at, n[Len(n)])).kind = "none" => found.err = "notexist"
                  /\ nodeAt(m, Append(up.at, n[Len(n)])).kind # "none" => found = Ended("ok", Append(up.at, n[Len(n)]))
    <3>1. n \in Clean /\ n # Root
      BY <1>3
    <3> QED BY <3>1, <2>1, <2>2, LstatThere
  <2> QED BY <2>3 DEF found
<1>u. nodeAt(m, x \o y).kind # "none" \/ nodeAt(m, x \o y).kind = "none"
  OBVIOUS
<1> HIDE DEF up, y, c
<1>9. Slot(m, n).err \in Outcomes
  BY <1>6, <1>7 DEF Outcomes
<1>10. CASE nodeAt(m, x \o y).kind = "dir"
  <2>1. up.err = "ok" /\ up.at = x \o y /\ nodeAt(m, up.at).kind = "dir" /\ Append(up.at, n[Len(n)]) = z
    BY <1>4, <1>5, <1>10
  <2>2. Slot(m, n) = [err |-> "ok", at |-> z]
    BY <1>6, <2>1
  <2>3. /\ nodeAt(m, z).kind = "none" => Lstat(m, n).err = "notexist"
        /\ nodeAt(m, z).kind # "none" => Lstat(m, n) = Ended("ok", z)
    BY <1>8, <2>1
  <2> QED BY <1>3, <1>9, <1>10, <2>2, <2>3 DEF y
<1>11. CASE nodeAt(m, x \o y).kind # "dir"
  <2>0. up.err = "ok" => nodeAt(m, up.at).kind # "dir"
    BY <1>5, <1>11
  <2>1. Slot(m, n).err # "ok"
    BY <1>6, <2>0
  <2>2. Lstat(m, n).err # "ok"
    BY <1>8, <2>0
  <2> QED BY <1>3, <1>9, <1>11, <2>1, <2>2 DEF y
<1> QED BY <1>10, <1>11

\* q is a name below one that leads to b, and no link is on the way there from b.
Reached(m, t, b, q) == t \in Clean /\ Leads(m, t, b) /\ q \in Below /\ Direct(m, b \o parent(q))

\* What is known of it.
LEMMA ReachedIs ==
  ASSUME NEW m \in Goods, NEW t, NEW b, NEW q, Reached(m, t, b, q)
  PROVE  /\ t \o q \in Clean /\ t \o q # Root /\ b \o q \in Clean /\ b \o q # Root /\ b \o q \in Below /\ parent(b \o q) = b \o parent(q)
         /\ Slot(m, t \o q).err \in Outcomes
         /\ nodeAt(m, parent(b \o q)).kind = "dir" =>
              /\ Slot(m, t \o q).err = "ok" /\ Slot(m, t \o q).at = b \o q
              /\ nodeAt(m, b \o q).kind = "none" => Lstat(m, t \o q).err = "notexist"
              /\ nodeAt(m, b \o q).kind # "none" => Lstat(m, t \o q).err = "ok" /\ Lstat(m, t \o q).at = b \o q
         /\ nodeAt(m, parent(b \o q)).kind # "dir" => Slot(m, t \o q).err # "ok" /\ Lstat(m, t \o q).err # "ok" /\ nodeAt(m, b \o q).kind = "none"
<1> DEFINE n == t \o q
           z == b \o q
<1>1. t \in Clean /\ Leads(m, t, b) /\ q \in Clean /\ q # Root /\ Direct(m, b \o parent(q))
  BY DEF Reached, Below
<1>0. n = t \o q /\ z = b \o q
  OBVIOUS
<1> HIDE DEF n, z
<1>2. /\ n \in Clean /\ n # Root /\ z \in Clean /\ z # Root /\ parent(z) = b \o parent(q)
      /\ Slot(m, n).err \in Outcomes
      /\ nodeAt(m, parent(z)).kind = "dir" =>
           /\ Slot(m, n).err = "ok" /\ Slot(m, n).at = z
           /\ nodeAt(m, z).kind = "none" => Lstat(m, n).err = "notexist"
           /\ nodeAt(m, z).kind # "none" => Lstat(m, n) = Ended("ok", z)
      /\ nodeAt(m, parent(z)).kind # "dir" => Slot(m, n).err # "ok" /\ Lstat(m, n).err # "ok"
  BY <1>1, Beneath DEF n, z
<1>3. nodeAt(m, z).kind # "none" => nodeAt(m, parent(z)).kind = "dir"
  BY <1>2, ParentStands
<1>4. \A w : w = Ended("ok", z) => w.err = "ok" /\ w.at = z
  BY EndedIs
<1>5. z \in Below
  BY <1>2 DEF Below
<1> QED BY <1>2, <1>3, <1>4, <1>5 DEF n, z

\* The same when the name itself is no link.
LEMMA ReachedOpens ==
  ASSUME NEW m \in Goods, NEW t, NEW b, NEW q, Reached(m, t, b, q), Direct(m, b \o q)
  PROVE  /\ nodeAt(m, b \o q).kind # "none" => /\ Open(m, t \o q).err = "ok" /\ Open(m, t \o q).at = b \o q
                                          /\ nodeAt(m, b \o q).kind \in {"file", "dir"} /\ m.at[b \o q] \in Ids /\ b \o q \in Places
         /\ nodeAt(m, b \o q).kind = "none" => Open(m, t \o q).err # "ok"
<1> DEFINE n == t \o q
           z == b \o q
<1>1. t \in Clean /\ Leads(m, t, b) /\ q \in Clean
  BY DEF Reached, Below
<1>2. /\ nodeAt(m, z).kind # "none" => Leads(m, n, z)
      /\ nodeAt(m, z).kind = "none" => Open(m, n).err # "ok"
  BY <1>1, OpenBelow
<1>3. \A w : w = Ended("ok", z) => w.err = "ok" /\ w.at = z
  BY EndedIs
<1>4. n \in Clean
  BY ReachedIs
<1> HIDE DEF n, z
<1>5. Leads(m, n, z) => nodeAt(m, z).kind \in {"file", "dir"} /\ m.at[z] \in Ids /\ z \in Places
  BY <1>4, LeadsTo
<1> QED BY <1>2, <1>3, <1>5 DEF Leads, n, z

\* Making a directory there.
LEMMA MkdirDoes ==
  ASSUME NEW m \in Goods, NEW t, NEW b, NEW q, Reached(m, t, b, q), Direct(m, b \o q),
         NEW r, r = mkdirStep(m, t \o q)
  PROVE  /\ nodeAt(m, b \o q).kind # "none" => r = Answer(m, "ok")
         /\ nodeAt(m, b \o q).kind = "none" /\ r.err = "ok" =>
              nodeAt(m, parent(b \o q)).kind = "dir" /\ r = Insert(m, b \o q, Directory)
<1> DEFINE n == t \o q
           z == b \o q
           found == Open(m, n)
           slot == Slot(m, n)
           w == mkdir(m, n)
<1>1. /\ Slot(m, n).err \in Outcomes
      /\ nodeAt(m, parent(z)).kind = "dir" => Slot(m, n).err = "ok" /\ Slot(m, n).at = z
      /\ nodeAt(m, parent(z)).kind # "dir" => Slot(m, n).err # "ok"
  BY ReachedIs
<1>2. /\ nodeAt(m, z).kind # "none" => found.err = "ok"
      /\ nodeAt(m, z).kind = "none" => found.err # "ok"
  BY ReachedOpens
<1>3. r = IF w.err = "exist" THEN Answer(m, "ok") ELSE w
  BY DEF mkdirStep, Then
<1> HIDE DEF n, z, found, slot, w
<1>4. ASSUME nodeAt(m, z).kind # "none" PROVE r = Answer(m, "ok")
  <2>1. found.err = "ok"
    BY <1>2, <1>4
  <2>2. w = Answer(m, "exist")
    BY <2>1 DEF mkdir, Then, found, w
  <2> QED BY <1>3, <2>2, AnswerIs
<1>5. ASSUME nodeAt(m, z).kind = "none", r.err = "ok"
      PROVE  nodeAt(m, parent(z)).kind = "dir" /\ r = Insert(m, z, Directory)
  <2>1. found.err # "ok"
    BY <1>2, <1>5
  <2>2. found.err = "notexist"
    <3> SUFFICES ASSUME found.err # "notexist" PROVE FALSE
      OBVIOUS
    <3>1. w = Answer(m, found.err)
      BY <2>1 DEF mkdir, Then, found, w
    <3>2. found.err # "exist"
      <4>1. n \in Clean
        BY ReachedIs DEF n
      <4>2. found \in Walks
        BY <4>1, Lookup, GoodsAre DEF found, Open
      <4> QED BY <4>2 DEF Walks, Outcomes
    <3> QED BY <1>3, <1>5, <2>1, <3>1, <3>2, AnswerIs
  <2>3. w = InsertNew(m, slot, Directory)
    BY <2>2 DEF mkdir, Then, found, slot, w
  <2>4. CASE nodeAt(m, parent(z)).kind = "dir"
    <3>1. slot.err = "ok" /\ slot.at = z
      BY <1>1, <2>4 DEF slot
    <3>2. w = Insert(m, z, Directory)
      BY <1>5, <2>3, <3>1 DEF InsertNew, InsertAt
    <3>3. w.err # "exist"
      <4> SUFFICES ASSUME w.err = "exist" PROVE FALSE
        OBVIOUS
      <4>1. z \notin Places \/ Fresh(m) = {}
        <5> SUFFICES ASSUME z \in Places, Fresh(m) # {} PROVE FALSE
          OBVIOUS
        <5>1. \E h : w = Answer(h, "ok")
          BY <3>2 DEF Insert, Then
        <5> QED BY <5>1, AnswerIs
      <4>2. w = Answer(m, "bound")
        BY <3>2, <4>1 DEF Insert
      <4> QED BY <4>2, AnswerIs
    <3> QED BY <1>3, <2>4, <3>2, <3>3
  <2>5. CASE nodeAt(m, parent(z)).kind # "dir"
    <3>1. slot.err # "ok" /\ slot.err \in Outcomes
      BY <1>1, <2>5 DEF slot
    <3>2. w = Answer(m, slot.err)
      BY <2>3, <3>1 DEF InsertNew, InsertAt
    <3>3. w.err # "exist" /\ w.err # "ok"
      BY <3>1, <3>2, AnswerIs DEF Outcomes
    <3> QED BY <1>3, <1>5, <3>3
  <2> QED BY <2>4, <2>5
<1> QED BY <1>4, <1>5 DEF z

\* Writing a file there.
LEMMA WriteDoes ==
  ASSUME NEW m \in Goods, NEW t, NEW b, NEW q, Reached(m, t, b, q), Direct(m, b \o q),
         NEW size, NEW r, r = writeFile(m, t \o q, size)
  PROVE  /\ nodeAt(m, b \o q).kind = "file" => r = resized(m, m.at[b \o q], size)
         /\ nodeAt(m, b \o q).kind # "none" /\ r.err = "ok" => nodeAt(m, b \o q).kind = "file"
         /\ nodeAt(m, b \o q).kind = "none" /\ r.err = "ok" =>
              nodeAt(m, parent(b \o q)).kind = "dir" /\ ~ReachesQuota(m, size) /\ r = Insert(m, b \o q, Regular(size))
<1> DEFINE n == t \o q
           z == b \o q
           found == Open(m, n)
           slot == Slot(m, n)
<1>1. /\ nodeAt(m, parent(z)).kind = "dir" => Slot(m, n).err = "ok" /\ Slot(m, n).at = z
      /\ nodeAt(m, parent(z)).kind # "dir" => Slot(m, n).err # "ok"
  BY ReachedIs
<1>2. /\ nodeAt(m, z).kind # "none" => found.err = "ok" /\ found.at = z /\ nodeAt(m, z).kind \in {"file", "dir"}
      /\ nodeAt(m, z).kind = "none" => found.err # "ok"
  BY ReachedOpens
<1>3. r = writeFile(m, n, size)
  OBVIOUS
<1> HIDE DEF n, z, found, slot
<1>4. ASSUME nodeAt(m, z).kind = "file" PROVE r = resized(m, m.at[z], size)
  <2>1. found.err = "ok" /\ nodeAt(m, found.at).kind # "dir" /\ found.at = z
    BY <1>2, <1>4
  <2>2. r = resized(m, m.at[found.at], size)
    BY <1>3, <2>1 DEF writeFile, Then, found
  <2> QED BY <2>1, <2>2
<1>5. ASSUME nodeAt(m, z).kind # "none", nodeAt(m, z).kind # "file" PROVE r.err # "ok"
  <2>1. found.err = "ok" /\ nodeAt(m, found.at).kind = "dir"
    BY <1>2, <1>5
  <2>2. r = Answer(m, "isdir")
    BY <1>3, <2>1 DEF writeFile, Then, found
  <2> QED BY <2>2, AnswerIs
<1>6. ASSUME nodeAt(m, z).kind = "none", r.err = "ok"
      PROVE  nodeAt(m, parent(z)).kind = "dir" /\ ~ReachesQuota(m, size) /\ r = Insert(m, z, Regular(size))
  <2>1. found.err # "ok"
    BY <1>2, <1>6
  <2>2. found.err = "notexist"
    <3> SUFFICES ASSUME found.err # "notexist" PROVE FALSE
      OBVIOUS
    <3>1. r = Answer(m, found.err)
      BY <1>3, <2>1 DEF writeFile, Then, found
    <3> QED BY <1>6, <2>1, <3>1, AnswerIs
  <2>3. r = IF slot.err = "ok" /\ ReachesQuota(m, size) THEN Answer(m, "quota") ELSE InsertAt(m, slot, Regular(size))
    BY <1>3, <2>2 DEF writeFile, Then, found, slot
  <2>4. slot.err = "ok"
    <3> SUFFICES ASSUME slot.err # "ok" PROVE FALSE
      OBVIOUS
    <3>1. r = Answer(m, slot.err)
      BY <2>3 DEF InsertAt
    <3> QED BY <1>6, <3>1, AnswerIs
  <2>5. ~ReachesQuota(m, size)
    BY <1>6, <2>3, <2>4, AnswerIs
  <2>6. nodeAt(m, parent(z)).kind = "dir" /\ slot.at = z
    BY <1>1, <2>4 DEF slot
  <2>7. r = Insert(m, z, Regular(size))
    BY <2>3, <2>4, <2>5, <2>6 DEF InsertAt
  <2> QED BY <2>5, <2>6, <2>7
<1> QED BY <1>4, <1>5, <1>6 DEF z

\* What is at a name and below it.
Under(m, z) == {p \in Paths : Within(z, p) /\ m.at[p] # 0}

\* Removing what is there.
LEMMA RemoveAllDoes ==
  ASSUME NEW m \in Goods, NEW t, NEW b, NEW q, Reached(m, t, b, q),
         NEW r, r = removeAll(m, t \o q)
  PROVE  /\ nodeAt(m, b \o q).kind # "none" => r = Answer(Gone(m, Under(m, b \o q)), "ok")
         /\ nodeAt(m, b \o q).kind = "none" /\ r.err = "ok" => r = Answer(m, "ok")
         /\ nodeAt(m, b \o q).kind = "none" /\ nodeAt(m, parent(b \o q)).kind = "dir" => r = Answer(m, "ok")
<1> DEFINE n == t \o q
           z == b \o q
           found == Lstat(m, n)
<1>1. /\ n # Root
      /\ nodeAt(m, parent(z)).kind = "dir" =>
           /\ nodeAt(m, z).kind = "none" => found.err = "notexist"
           /\ nodeAt(m, z).kind # "none" => found.err = "ok" /\ found.at = z
      /\ nodeAt(m, parent(z)).kind # "dir" => found.err # "ok" /\ nodeAt(m, z).kind = "none"
  BY ReachedIs
<1>2. r = Then(found, LAMBDA there :
            IF n = Root THEN Answer(m, "root")
            ELSE IF there.err = "notexist" THEN Answer(m, "ok")
            ELSE IF there.err # "ok" THEN Answer(m, there.err)
            ELSE Answer(Drops(m, {p \in Paths : Within(there.at, p) /\ m.at[p] # 0}), "ok"))
  BY Zenon DEF removeAll, Drops
<1> HIDE DEF n, z, found
<1>3. r = IF found.err = "notexist" THEN Answer(m, "ok")
          ELSE IF found.err # "ok" THEN Answer(m, found.err)
          ELSE Answer(Drops(m, Under(m, found.at)), "ok")
  BY <1>1, <1>2 DEF Then, Under
<1>4. Drops(m, Under(m, z)) = Gone(m, Under(m, z))
  <2> DEFINE s == Under(m, z)
  <2>1. s \in SUBSET Places /\ \A p \in s : m.at[p] # 0
    BY PlacesAre DEF Under
  <2> HIDE DEF s
  <2>2. Drops(m, s) = Gone(m, s)
    BY <2>1, DropsGone, GoodsAre
  <2> QED BY <2>2 DEF s
<1>5. ASSUME nodeAt(m, z).kind # "none" PROVE r = Answer(Gone(m, Under(m, z)), "ok")
  <2>1. found.err = "ok" /\ found.at = z
    BY <1>1, <1>5
  <2> QED BY <1>3, <1>4, <2>1
<1>6. ASSUME nodeAt(m, z).kind = "none", r.err = "ok" PROVE r = Answer(m, "ok")
  <2>1. found.err # "ok"
    BY <1>1, <1>6
  <2> QED BY <1>3, <1>6, <2>1, AnswerIs
<1>7. ASSUME nodeAt(m, z).kind = "none", nodeAt(m, parent(z)).kind = "dir" PROVE r = Answer(m, "ok")
  BY <1>1, <1>3, <1>7
<1> QED BY <1>5, <1>6, <1>7 DEF z

\* Making a link there.
LEMMA SymlinkDoes ==
  ASSUME NEW m \in Goods, NEW t, NEW b, NEW q, Reached(m, t, b, q),
         NEW to, NEW r, r = symlink(m, to, t \o q)
  PROVE  /\ r.err = "ok" => nodeAt(m, b \o q).kind = "none" /\ nodeAt(m, parent(b \o q)).kind = "dir"
         /\ nodeAt(m, b \o q).kind = "none" /\ nodeAt(m, parent(b \o q)).kind = "dir" => r = Insert(m, b \o q, Symbolic(to))
<1> DEFINE n == t \o q
           z == b \o q
           found == Lstat(m, n)
           slot == Slot(m, n)
<1>1. /\ nodeAt(m, parent(z)).kind = "dir" =>
           /\ Slot(m, n).err = "ok" /\ Slot(m, n).at = z
           /\ nodeAt(m, z).kind = "none" => found.err = "notexist"
           /\ nodeAt(m, z).kind # "none" => found.err = "ok"
      /\ nodeAt(m, parent(z)).kind # "dir" => Slot(m, n).err # "ok" /\ found.err # "ok"
  BY ReachedIs
<1>2. r = symlink(m, to, n)
  OBVIOUS
<1> HIDE DEF n, z, found, slot
<1>3. ASSUME nodeAt(m, z).kind = "none", nodeAt(m, parent(z)).kind = "dir" PROVE r = Insert(m, z, Symbolic(to))
  <2>1. found.err = "notexist" /\ slot.err = "ok" /\ slot.at = z
    BY <1>1, <1>3 DEF slot
  <2>2. r = InsertAt(m, slot, Symbolic(to))
    BY <1>2, <2>1 DEF symlink, Then, found, slot
  <2> QED BY <2>1, <2>2 DEF InsertAt
<1>4. ASSUME r.err = "ok" PROVE nodeAt(m, z).kind = "none" /\ nodeAt(m, parent(z)).kind = "dir"
  <2>1. found.err = "notexist"
    <3> SUFFICES ASSUME found.err # "notexist" PROVE FALSE
      OBVIOUS
    <3>1. r = IF found.err = "ok" THEN Answer(m, "exist") ELSE Answer(m, found.err)
      BY <1>2 DEF symlink, Then, found
    <3> QED BY <1>4, <3>1, AnswerIs
  <2>2. r = InsertAt(m, slot, Symbolic(to))
    BY <1>2, <2>1 DEF symlink, Then, found, slot
  <2>3. slot.err = "ok"
    <3> SUFFICES ASSUME slot.err # "ok" PROVE FALSE
      OBVIOUS
    <3>1. r = Answer(m, slot.err)
      BY <2>2 DEF InsertAt
    <3> QED BY <1>4, <3>1, AnswerIs
  <2> QED BY <1>1, <2>1, <2>3 DEF slot
<1> QED BY <1>3, <1>4 DEF z

\* The root leads to itself.
LEMMA RootLeads ==
  ASSUME NEW m \in Goods
  PROVE  Leads(m, Root, Root) /\ Root \in Clean /\ \A q \in Clean : Root \o q = q
<1>1. Root \in Clean /\ Stops(m, Root, TRUE) = {}
  BY PlacesAre DEF Stops, Root
<1>2. WalkTo(m, Root, TRUE) = Ended("ok", Root)
  BY <1>1, WalkToEnd
<1>3. WalkTo(m, Root, TRUE).err # "follow"
  <2>1. \A w : w = Ended("ok", Root) => w.err # "follow"
    BY EndedIs
  <2> QED BY <1>2, <2>1, Zenon
<1>4. m \in Memories /\ LinkHops \in 0 .. LinkHops /\ Root \in Clear
  BY <1>1, GoodsAre, OpenIs DEF Clear
<1>5. From(m, LinkHops, Root) = WalkTo(m, Root, TRUE) /\ From(m, LinkHops, Root) = Open(m, Root)
  BY <1>3, <1>4, FromIs
<1>6. \A q \in Clean : Root \o q = q
  BY DEF Clean, Root
<1> QED BY <1>1, <1>2, <1>5, <1>6 DEF Leads

\* A name of a copy is reached from the root when no link leads it elsewhere.
LEMMA StraightReached ==
  ASSUME NEW D, NEW F, NEW L, Layout(D, F, L), NEW m \in Goods, Straight(D, F, m), NEW x \in D \cup F \cup L
  PROVE  /\ Reached(m, Root, Root, x) /\ Root \o x = x /\ Root \o parent(x) = parent(x)
         /\ x \in D \cup F => Direct(m, Root \o x)
<1>1. x \in Below /\ x \in Clean /\ x # Root
  BY DEF Layout, Below
<1>2. parent(x) \in Clean /\ Len(x) \in Nat \ {0} /\ Len(parent(x)) = Len(x) - 1
      /\ \A i \in 1 .. Len(x) - 1 : SubSeq(parent(x), 1, i) = SubSeq(x, 1, i)
  BY <1>1, NameIs
<1>3. Root \o x = x /\ Root \o parent(x) = parent(x) /\ Leads(m, Root, Root) /\ Root \in Clean
  BY <1>1, <1>2, RootLeads
<1>4. \A i \in 1 .. Len(x) - 1 : SubSeq(x, 1, i) \in D
  BY LayoutUp
<1>5. Direct(m, parent(x))
  <2> SUFFICES ASSUME NEW i \in 1 .. Len(parent(x)) PROVE KindAt(m, parent(x), i) # "link"
    BY DEF Direct
  <2>1. i \in 1 .. Len(x) - 1
    BY <1>2
  <2>2. SubSeq(parent(x), 1, i) \in D
    BY <1>2, <1>4, <2>1
  <2> QED BY <2>2 DEF Straight, KindAt
<1>6. ASSUME x \in D \cup F PROVE Direct(m, x)
  <2> SUFFICES ASSUME NEW i \in 1 .. Len(x) PROVE KindAt(m, x, i) # "link"
    BY DEF Direct
  <2>1. i = Len(x) \/ i \in 1 .. Len(x) - 1
    <3> DEFINE l == Len(x)
    <3>1. l \in Nat \ {0} /\ i \in 1 .. l
      BY <1>2
    <3> HIDE DEF l
    <3>2. i = l \/ i \in 1 .. l - 1
      BY <3>1
    <3> QED BY <3>2 DEF l
  <2>2. SubSeq(x, 1, Len(x)) = x
    BY <1>1 DEF Clean
  <2>3. SubSeq(x, 1, i) \in D \cup F
    BY <1>4, <1>6, <2>1, <2>2
  <2> QED BY <2>3 DEF Straight, KindAt
<1> QED BY <1>1, <1>3, <1>5, <1>6 DEF Reached

\* No two files of a copy are one.
Unshared(F, m) ==
  \A x, y \in F : nodeAt(m, x).kind = "file" /\ nodeAt(m, y).kind = "file" /\ m.at[x] = m.at[y] => x = y

\* A filesystem that a copy can be made to, and keeps so.
Ready(D, F) == {m \in Goods : Straight(D, F, m) /\ Unshared(F, m)}

\* What a call of a copy is there for.
Settled(c, m) ==
  /\ c.op = "mkdir" => nodeAt(m, c.name).kind # "none"
  /\ c.op = "write" => nodeAt(m, c.name).kind = "file" /\ nodeAt(m, c.name).size = c.node.size
  /\ c.op = "symlink" => /\ nodeAt(m, c.name).kind = "link" /\ nodeAt(m, c.name).size = 0
                         /\ nodeAt(m, c.name).target = c.node.target

\* The same but for the number of names.
Alike(m, k, x) ==
  /\ nodeAt(k, x).kind = nodeAt(m, x).kind /\ nodeAt(k, x).size = nodeAt(m, x).size
  /\ nodeAt(k, x).target = nodeAt(m, x).target

\* What is settled is so wherever its name is as it was.
LEMMA StaysSettled ==
  ASSUME NEW m, NEW k, NEW d, Settled(d, m), d.op # "removeAll" => Alike(m, k, d.name)
  PROVE  Settled(d, k)
  BY DEF Settled, Alike

\* A new entry of a copy.
LEMMA InsertReady ==
  ASSUME NEW D, NEW F, NEW m \in Ready(D, F), NEW x \in Below, nodeAt(m, parent(x)).kind = "dir",
         nodeAt(m, x).kind = "none", NEW n, Fits(m, n), n.kind = "link" => x \notin D \cup F,
         NEW k, Insert(m, x, n).err = "ok", k = Insert(m, x, n).fs
  PROVE  k \in Ready(D, F) /\ nodeAt(k, x) = n /\ \A y : y # x => Alike(m, k, y)
<1> DEFINE r == Insert(m, x, n)
<1>1. m \in Goods /\ m \in Memories /\ Straight(D, F, m) /\ Unshared(F, m)
  BY GoodsAre DEF Ready
<1>2. /\ r.fs \in Goods /\ x \in Places /\ nodeAt(r.fs, x) = n
      /\ \A q : q # x => nodeAt(r.fs, q) = nodeAt(m, q)
      /\ \A q \in Places : q # x => r.fs.at[q] = m.at[q] /\ m.at[q] # r.fs.at[x]
  <2>1. /\ n \in Node /\ Sound(n) /\ n.links = 1 /\ (Limit > 0 => m.used + n.size <= Limit)
        /\ x \in Clean /\ x # Root /\ nodeAt(m, x).kind \in {"none", "link"} /\ r = Insert(m, x, n) /\ r.err = "ok"
    BY DEF Fits, Below
  <2> HIDE DEF r
  <2> QED BY <1>1, <2>1, InsertIs
<1>3. /\ k \in Goods /\ x \in Places /\ nodeAt(k, x) = n
      /\ \A q : q # x => nodeAt(k, q) = nodeAt(m, q)
      /\ \A q \in Places : q # x => k.at[q] = m.at[q] /\ m.at[q] # k.at[x]
  BY <1>2
<1> HIDE DEF r
<1>4. Straight(D, F, k)
  <2> SUFFICES ASSUME NEW y \in D \cup F PROVE nodeAt(k, y).kind # "link"
    BY DEF Straight
  <2>1. CASE y = x
    BY <1>3, <2>1
  <2>2. CASE y # x
    BY <1>1, <1>3, <2>2 DEF Straight
  <2> QED BY <2>1, <2>2
<1>5. Unshared(F, k)
  <2> SUFFICES ASSUME NEW y \in F, NEW z \in F, nodeAt(k, y).kind = "file", nodeAt(k, z).kind = "file",
                      k.at[y] = k.at[z], y # z
               PROVE  FALSE
    BY DEF Unshared
  <2>1. k \in Memories
    BY <1>3, GoodsAre
  <2>2. y \in Places /\ z \in Places
    BY <2>1, NodeAt
  <2>3. y # x /\ z # x
    BY <1>3, <2>2
  <2>4. nodeAt(m, y).kind = "file" /\ nodeAt(m, z).kind = "file" /\ m.at[y] = m.at[z]
    BY <1>3, <2>2, <2>3
  <2> QED BY <1>1, <2>4 DEF Unshared
<1> QED BY <1>3, <1>4, <1>5 DEF Ready, Alike

\* A file of a copy gets its bytes.
LEMMA ResizeReady ==
  ASSUME NEW D, NEW F, NEW m \in Ready(D, F), NEW x \in F, nodeAt(m, x).kind = "file", NEW n \in Nat,
         NEW k, resized(m, m.at[x], n).err = "ok", k = resized(m, m.at[x], n).fs
  PROVE  /\ k \in Ready(D, F) /\ nodeAt(k, x).kind = "file" /\ nodeAt(k, x).size = n
         /\ \A y : nodeAt(k, y).kind = nodeAt(m, y).kind
         /\ \A y \in F : y # x => Alike(m, k, y)
         /\ \A y : nodeAt(m, y).kind # "file" => Alike(m, k, y)
<1> DEFINE i == m.at[x]
           o == overwrite(m, i, n)
           r == resized(m, i, n)
<1>1. m \in Goods /\ m \in Memories /\ Straight(D, F, m) /\ Unshared(F, m)
  BY GoodsAre DEF Ready
<1>2. x \in Places /\ i \in Ids /\ nodeAt(m, x) = m.node[i]
  <2>1. nodeAt(m, x).kind # "none"
    OBVIOUS
  <2> QED BY <1>1, <2>1, NodeAt
<1>3. ~ReachesQuota(m, n - m.node[i].size)
  <2> SUFFICES ASSUME ReachesQuota(m, n - m.node[i].size) PROVE FALSE
    OBVIOUS
  <2>1. r = Answer(m, "quota") /\ r.err = "ok"
    BY DEF resized
  <2> HIDE DEF r
  <2> QED BY <2>1, AnswerIs
<1>4. k = o
  <2>1. r = Answer(o, "ok") /\ k = r.fs
    BY <1>3 DEF resized
  <2> HIDE DEF r, o
  <2> QED BY <2>1, AnswerIs
<1>5. Limit > 0 => m.used + (n - nodeAt(m, x).size) <= Limit
  <2>1. m.used \in Nat /\ nodeAt(m, x).size \in Nat
    BY <1>1, NodeAt DEF Memories, Node
  <2>2. Limit \in Nat
    BY MemoryAssumption
  <2> QED BY <1>2, <1>3, <2>1, <2>2 DEF ReachesQuota
<1>6. LET v == overwrite(m, m.at[x], n) IN
      /\ v \in Goods /\ v.at = m.at /\ (\A q : SeenAlike(m, v, q))
      /\ \A q : nodeAt(v, q).size = IF q \in Places /\ m.at[q] = m.at[x] THEN n ELSE nodeAt(m, q).size
  BY <1>1, <1>2, <1>5, OverwriteIs
<1>7. /\ k \in Goods /\ k.at = m.at /\ (\A q : SeenAlike(m, k, q))
      /\ \A q : nodeAt(k, q).size = IF q \in Places /\ m.at[q] = m.at[x] THEN n ELSE nodeAt(m, q).size
  BY <1>4, <1>6
<1> HIDE DEF i, o, r
<1>8. \A y : nodeAt(k, y).kind = nodeAt(m, y).kind /\ nodeAt(k, y).target = nodeAt(m, y).target
  BY <1>7 DEF SeenAlike
<1>9. nodeAt(k, x).kind = "file" /\ nodeAt(k, x).size = n
  BY <1>2, <1>7, <1>8
<1>10. Straight(D, F, k) /\ Unshared(F, k)
  BY <1>1, <1>7, <1>8 DEF Straight, Unshared
<1>11. ASSUME NEW y, nodeAt(m, y).kind # "file" PROVE nodeAt(k, y).size = nodeAt(m, y).size
  <2> SUFFICES ASSUME y \in Places, m.at[y] = m.at[x] PROVE FALSE
    BY <1>7
  <2>1. m.at[y] # 0 /\ m.at[y] \in Ids
    BY <1>2, PlacesAre DEF i
  <2>2. nodeAt(m, y) = nodeAt(m, x)
    BY <1>2, <2>1, PlacesAre DEF nodeAt, i
  <2> QED BY <1>11, <2>2
<1>12. ASSUME NEW y \in F, y # x PROVE nodeAt(k, y).size = nodeAt(m, y).size
  <2>1. CASE nodeAt(m, y).kind = "file"
    <3>1. m.at[y] # m.at[x]
      BY <1>1, <1>12, <2>1 DEF Unshared
    <3> QED BY <1>7, <3>1
  <2>2. CASE nodeAt(m, y).kind # "file"
    BY <1>11, <2>2
  <2> QED BY <2>1, <2>2
<1> QED BY <1>7, <1>8, <1>9, <1>10, <1>11, <1>12 DEF Ready, Alike

\* What is left when names go.
LEMMA GoneAlike ==
  ASSUME NEW m \in Tables, NEW s \in SUBSET Places, NEW y \in Places, y \notin s
  PROVE  Alike(m, Gone(m, s), y)
<1> DEFINE k == Gone(m, s)
           i == m.at[y]
           c == Cardinality(Names(m, i) \ s)
<1>1. m \in Memories /\ m.at \in [Places -> Ids \cup {0}] /\ m.node \in [Ids -> Node]
  BY DEF Tables, Memories
<1>2. k.at[y] = i /\ k.node = GoneNodes(m, s)
  <2>1. k.at[y] = i
    BY GoneIs
  <2> QED BY <2>1 DEF Gone
<1> HIDE DEF k
<1>3. CASE i = 0
  BY <1>2, <1>3 DEF nodeAt, Alike, k
<1>4. CASE i # 0
  <2>1. i \in Ids /\ nodeAt(m, y) = m.node[i] /\ m.node[i] \in Node
    BY <1>1, <1>4 DEF nodeAt
  <2>2. Names(m, i) \ s # {}
    BY DEF Names
  <2> HIDE DEF i
  <2>3. GoneNodes(m, s)[i] = Linked(m.node[i], c)
    BY <2>1, <2>2, LeftNode
  <2>4. nodeAt(k, y) = GoneNodes(m, s)[i]
    BY <1>2, <1>4 DEF nodeAt
  <2> DEFINE n == m.node[i]
  <2>5. nodeAt(k, y) = [n EXCEPT !.links = c] /\ nodeAt(m, y) = n /\ n \in Node
    BY <2>1, <2>3, <2>4 DEF Linked
  <2> HIDE DEF n, c
  <2>6. LET h == [n EXCEPT !.links = c] IN h.kind = n.kind /\ h.size = n.size /\ h.target = n.target
    BY <2>5 DEF Node
  <2>7. nodeAt(k, y).kind = n.kind /\ nodeAt(k, y).size = n.size /\ nodeAt(k, y).target = n.target
    BY <2>5, <2>6
  <2> QED BY <2>5, <2>7 DEF Alike, k
<1> QED BY <1>3, <1>4

\* Names of a copy stay ready when others go.
LEMMA GoneReady ==
  ASSUME NEW D, NEW F, NEW m \in Ready(D, F), NEW s \in SUBSET Places, NEW k \in Goods, k = Gone(m, s)
  PROVE  k \in Ready(D, F) /\ \A y : y \notin s => Alike(m, k, y)
<1>1. m \in Goods /\ m \in Tables /\ Straight(D, F, m) /\ Unshared(F, m) /\ k \in Memories
  BY GoodsAre DEF Ready
<1>2. /\ \A p \in Places : k.at[p] = IF p \in s THEN 0 ELSE m.at[p]
      /\ \A p \in Places : p \notin s => nodeAt(k, p).kind = nodeAt(m, p).kind
  BY <1>1, GoneIs
<1>3. ASSUME NEW y, nodeAt(k, y).kind # "none" PROVE y \in Places /\ y \notin s /\ nodeAt(m, y).kind = nodeAt(k, y).kind
  <2>1. y \in Places /\ k.at[y] \in Ids
    BY <1>1, <1>3, NodeAt
  <2>2. y \notin s
    BY <1>2, <2>1, PlacesAre
  <2> QED BY <1>2, <2>1, <2>2
<1>4. Straight(D, F, k)
  BY <1>1, <1>3 DEF Straight
<1>5. Unshared(F, k)
  <2> SUFFICES ASSUME NEW y \in F, NEW z \in F, nodeAt(k, y).kind = "file", nodeAt(k, z).kind = "file",
                      k.at[y] = k.at[z]
               PROVE  y = z
    BY DEF Unshared
  <2>1. /\ y \in Places /\ y \notin s /\ nodeAt(m, y).kind = "file"
        /\ z \in Places /\ z \notin s /\ nodeAt(m, z).kind = "file"
    BY <1>3
  <2>2. m.at[y] = m.at[z]
    BY <1>2, <2>1
  <2> QED BY <1>1, <2>1, <2>2 DEF Unshared
<1>6. ASSUME NEW y, y \notin s PROVE Alike(m, k, y)
  <2>1. CASE y \in Places
    BY <1>1, <1>6, <2>1, GoneAlike
  <2>2. CASE y \notin Places
    BY <2>2 DEF Alike, nodeAt
  <2> QED BY <2>1, <2>2
<1> QED BY <1>4, <1>5, <1>6 DEF Ready

\* What a new entry leaves as it was.
LEMMA InsertAlike ==
  ASSUME NEW m \in Goods, NEW x \in Below, nodeAt(m, parent(x)).kind = "dir", nodeAt(m, x).kind = "none",
         NEW n, Fits(m, n), NEW y, y # x, Insert(m, x, n).err = "ok"
  PROVE  Alike(m, Insert(m, x, n).fs, y)
<1> DEFINE r == Insert(m, x, n)
<1>1. /\ n \in Node /\ Sound(n) /\ n.links = 1 /\ (Limit > 0 => m.used + n.size <= Limit)
      /\ x \in Clean /\ x # Root /\ nodeAt(m, x).kind \in {"none", "link"} /\ r = Insert(m, x, n) /\ r.err = "ok"
  BY DEF Fits, Below
<1> HIDE DEF r
<1>2. \A q : q # x => nodeAt(r.fs, q) = nodeAt(m, q)
  BY <1>1, InsertIs
<1> QED BY <1>2 DEF Alike, r

\* A copy makes a directory.
LEMMA CopyMkdir ==
  ASSUME NEW D, NEW F, NEW L, Layout(D, F, L), NEW m \in Ready(D, F), NEW x \in D,
         NEW r, r = mkdirStep(m, x), r.err = "ok"
  PROVE  /\ r.fs \in Ready(D, F) /\ nodeAt(r.fs, x).kind # "none"
         /\ \A y : nodeAt(m, y).kind # "none" => Alike(m, r.fs, y)
<1>1. m \in Goods /\ Straight(D, F, m)
  BY DEF Ready
<1>2. Reached(m, Root, Root, x) /\ Root \o x = x /\ Direct(m, Root \o x) /\ x \in Below
  <2>1. x \in D \cup F \cup L
    OBVIOUS
  <2>2. Reached(m, Root, Root, x) /\ Root \o x = x /\ (x \in D \cup F => Direct(m, Root \o x))
    BY <1>1, <2>1, StraightReached
  <2> QED BY <2>2 DEF Layout
<1>3. \A s : s = mkdirStep(m, Root \o x) =>
        /\ nodeAt(m, Root \o x).kind # "none" => s = Answer(m, "ok")
        /\ nodeAt(m, Root \o x).kind = "none" /\ s.err = "ok" =>
             nodeAt(m, parent(Root \o x)).kind = "dir" /\ s = Insert(m, Root \o x, Directory)
  <2>1. m \in Goods /\ Reached(m, Root, Root, x) /\ Direct(m, Root \o x)
    BY <1>1, <1>2
  <2> QED BY <2>1, MkdirDoes
<1>4. /\ nodeAt(m, x).kind # "none" => r = Answer(m, "ok")
      /\ nodeAt(m, x).kind = "none" => nodeAt(m, parent(x)).kind = "dir" /\ r = Insert(m, x, Directory)
  <2>1. r = mkdirStep(m, Root \o x)
    BY <1>2
  <2> QED BY <1>2, <1>3, <2>1
<1>5. CASE nodeAt(m, x).kind # "none"
  <2>1. r.fs = m
    BY <1>4, <1>5, AnswerIs
  <2> QED BY <1>5, <2>1 DEF Alike
<1>6. CASE nodeAt(m, x).kind = "none"
  <2>1. Fits(m, Directory) /\ Directory.kind = "dir"
    BY <1>1, NewFits DEF Directory, Nothing
  <2>2. Insert(m, x, Directory).err = "ok" /\ r.fs = Insert(m, x, Directory).fs /\ nodeAt(m, parent(x)).kind = "dir"
    BY <1>4, <1>6
  <2>3. r.fs \in Ready(D, F) /\ nodeAt(r.fs, x) = Directory /\ \A y : y # x => Alike(m, r.fs, y)
    BY <1>2, <1>6, <2>1, <2>2, InsertReady
  <2> QED BY <1>6, <2>1, <2>3
<1> QED BY <1>5, <1>6

\* A copy writes a file.
LEMMA CopyWrite ==
  ASSUME NEW D, NEW F, NEW L, Layout(D, F, L), NEW m \in Ready(D, F), NEW x \in F, NEW n \in Nat,
         NEW r, r = writeFile(m, x, n), r.err = "ok"
  PROVE  /\ r.fs \in Ready(D, F) /\ nodeAt(r.fs, x).kind = "file" /\ nodeAt(r.fs, x).size = n
         /\ \A y : nodeAt(m, y).kind # "none" => nodeAt(r.fs, y).kind = nodeAt(m, y).kind
         /\ \A y \in F : y # x => Alike(m, r.fs, y)
         /\ \A y : nodeAt(m, y).kind \notin {"none", "file"} => Alike(m, r.fs, y)
<1>1. m \in Goods /\ Straight(D, F, m)
  BY DEF Ready
<1>2. Reached(m, Root, Root, x) /\ Root \o x = x /\ Direct(m, Root \o x) /\ x \in Below
  <2>1. x \in D \cup F \cup L
    OBVIOUS
  <2>2. Reached(m, Root, Root, x) /\ Root \o x = x /\ (x \in D \cup F => Direct(m, Root \o x))
    BY <1>1, <2>1, StraightReached
  <2> QED BY <2>2 DEF Layout
<1>3. \A s : s = writeFile(m, Root \o x, n) =>
        /\ nodeAt(m, Root \o x).kind = "file" => s = resized(m, m.at[Root \o x], n)
        /\ nodeAt(m, Root \o x).kind # "none" /\ s.err = "ok" => nodeAt(m, Root \o x).kind = "file"
        /\ nodeAt(m, Root \o x).kind = "none" /\ s.err = "ok" =>
             nodeAt(m, parent(Root \o x)).kind = "dir" /\ ~ReachesQuota(m, n) /\ s = Insert(m, Root \o x, Regular(n))
  <2>1. m \in Goods /\ Reached(m, Root, Root, x) /\ Direct(m, Root \o x)
    BY <1>1, <1>2
  <2> QED BY <2>1, WriteDoes
<1>4. /\ nodeAt(m, x).kind # "none" => nodeAt(m, x).kind = "file" /\ r = resized(m, m.at[x], n)
      /\ nodeAt(m, x).kind = "none" =>
           nodeAt(m, parent(x)).kind = "dir" /\ ~ReachesQuota(m, n) /\ r = Insert(m, x, Regular(n))
  <2>1. r = writeFile(m, Root \o x, n)
    BY <1>2
  <2> QED BY <1>2, <1>3, <2>1
<1>5. CASE nodeAt(m, x).kind # "none"
  <2>1. nodeAt(m, x).kind = "file" /\ resized(m, m.at[x], n).err = "ok" /\ r.fs = resized(m, m.at[x], n).fs
    BY <1>4, <1>5
  <2>2. /\ r.fs \in Ready(D, F) /\ nodeAt(r.fs, x).kind = "file" /\ nodeAt(r.fs, x).size = n
        /\ \A y : nodeAt(r.fs, y).kind = nodeAt(m, y).kind
        /\ \A y \in F : y # x => Alike(m, r.fs, y)
        /\ \A y : nodeAt(m, y).kind # "file" => Alike(m, r.fs, y)
    BY <2>1, ResizeReady
  <2> QED BY <2>2
<1>6. CASE nodeAt(m, x).kind = "none"
  <2>1. Fits(m, Regular(n)) /\ Regular(n).kind = "file" /\ Regular(n).size = n
    BY <1>1, <1>4, <1>6, NewFits, NewNodes
  <2>2. Insert(m, x, Regular(n)).err = "ok" /\ r.fs = Insert(m, x, Regular(n)).fs /\ nodeAt(m, parent(x)).kind = "dir"
    BY <1>4, <1>6
  <2>3. Regular(n).kind = "link" => x \notin D \cup F
    BY <2>1
  <2> HIDE DEF Fits
  <2>4. r.fs \in Ready(D, F) /\ nodeAt(r.fs, x) = Regular(n) /\ \A y : y # x => Alike(m, r.fs, y)
    <3> DEFINE g == Regular(n)
    <3> HIDE DEF g
    <3>1. Fits(m, g) /\ (g.kind = "link" => x \notin D \cup F) /\ Insert(m, x, g).err = "ok" /\ r.fs = Insert(m, x, g).fs
      BY <2>1, <2>2, <2>3 DEF g
    <3>2. r.fs \in Ready(D, F) /\ nodeAt(r.fs, x) = g /\ \A y : y # x => Alike(m, r.fs, y)
      BY <1>2, <1>6, <2>2, <3>1, InsertReady
    <3> QED BY <3>2 DEF g
  <2>5. nodeAt(r.fs, x).kind = "file" /\ nodeAt(r.fs, x).size = n
    BY <2>1, <2>4
  <2> QED BY <1>6, <2>4, <2>5 DEF Alike
<1> QED BY <1>5, <1>6

\* A copy removes what is in the place of a link.
LEMMA CopyRemoveAll ==
  ASSUME NEW D, NEW F, NEW L, Layout(D, F, L), NEW m \in Ready(D, F), NEW x \in L,
         NEW r, r = removeAll(m, x), r.err = "ok"
  PROVE  /\ r.fs \in Ready(D, F)
         /\ \A y \in D \cup F \cup L : y # x => Alike(m, r.fs, y)
<1>1. m \in Goods /\ Straight(D, F, m)
  BY DEF Ready
<1>2. Reached(m, Root, Root, x) /\ Root \o x = x /\ x \in Below /\ x \in Clean
  <2>1. x \in D \cup F \cup L
    OBVIOUS
  <2>2. Reached(m, Root, Root, x) /\ Root \o x = x
    BY <1>1, <2>1, StraightReached
  <2> QED BY <2>2 DEF Layout, Below
<1>3. \A s : s = removeAll(m, Root \o x) =>
        /\ nodeAt(m, Root \o x).kind # "none" => s = Answer(Gone(m, Under(m, Root \o x)), "ok")
        /\ nodeAt(m, Root \o x).kind = "none" /\ s.err = "ok" => s = Answer(m, "ok")
  <2>1. m \in Goods /\ Reached(m, Root, Root, x)
    BY <1>1, <1>2
  <2> QED BY <2>1, RemoveAllDoes
<1>4. /\ nodeAt(m, x).kind # "none" => r = Answer(Gone(m, Under(m, x)), "ok")
      /\ nodeAt(m, x).kind = "none" => r = Answer(m, "ok")
  <2>1. r = removeAll(m, Root \o x)
    BY <1>2
  <2> QED BY <1>2, <1>3, <2>1
<1>5. CASE nodeAt(m, x).kind = "none"
  <2>1. r.fs = m
    BY <1>4, <1>5, AnswerIs
  <2> QED BY <1>5, <2>1 DEF Alike
<1>6. CASE nodeAt(m, x).kind # "none"
  <2>1. r.fs = Gone(m, Under(m, x))
    BY <1>4, <1>6, AnswerIs
  <2>2. r.fs \in Goods
    <3>1. removeAll(m, x) \in Replies
      BY <1>1, <1>2, RemoveAllGood
    <3> QED BY <3>1 DEF Replies
  <2>3. Under(m, x) \in SUBSET Places
    BY DEF Under, Places
  <2>4. r.fs \in Ready(D, F) /\ \A y : y \notin Under(m, x) => Alike(m, r.fs, y)
    BY <2>1, <2>2, <2>3, GoneReady
  <2>5. ASSUME NEW y \in D \cup F \cup L, y # x PROVE y \notin Under(m, x)
    <3> SUFFICES ASSUME Within(x, y) PROVE FALSE
      BY DEF Under
    <3>1. y \in Clean /\ Len(x) <= Len(y) /\ SubSeq(y, 1, Len(x)) = x /\ Len(x) \in Nat /\ Len(y) \in Nat /\ x # <<>>
      BY <1>2 DEF Within, Layout, Below, Clean, Root
    <3>2. Len(x) # Len(y)
      <4> SUFFICES ASSUME Len(x) = Len(y) PROVE FALSE
        OBVIOUS
      <4>1. SubSeq(y, 1, Len(y)) = y
        BY <3>1 DEF Clean
      <4> QED BY <2>5, <3>1, <4>1
    <3>3. Len(x) # 0
      BY <1>2, <3>1, EmptySeq DEF Clean
    <3>4. Len(x) \in 1 .. Len(y) - 1
      <4> DEFINE a == Len(x)
                 b == Len(y)
      <4>1. a \in Nat /\ b \in Nat /\ a <= b /\ a # b /\ a # 0
        BY <3>1, <3>2, <3>3
      <4> HIDE DEF a, b
      <4>2. a \in 1 .. b - 1
        BY <4>1
      <4> QED BY <4>2 DEF a, b
    <3>5. x \in D
      BY <2>5, <3>1, <3>4, LayoutUp
    <3> QED BY <3>5 DEF Layout
  <2> QED BY <2>4, <2>5
<1> QED BY <1>5, <1>6

\* A copy makes a link.
LEMMA CopySymlink ==
  ASSUME NEW D, NEW F, NEW L, Layout(D, F, L), NEW m \in Ready(D, F), NEW x \in L, NEW to \in LinkTargets,
         NEW r, r = symlink(m, to, x), r.err = "ok"
  PROVE  /\ r.fs \in Ready(D, F) /\ nodeAt(r.fs, x) = Symbolic(to)
         /\ \A y : nodeAt(m, y).kind # "none" => Alike(m, r.fs, y)
<1>1. m \in Goods /\ Straight(D, F, m)
  BY DEF Ready
<1>2. Reached(m, Root, Root, x) /\ Root \o x = x /\ x \in Below /\ x \notin D \cup F
  <2>1. x \in D \cup F \cup L
    OBVIOUS
  <2>2. Reached(m, Root, Root, x) /\ Root \o x = x
    BY <1>1, <2>1, StraightReached
  <2> QED BY <2>2 DEF Layout
<1>3. \A s : s = symlink(m, to, Root \o x) =>
        /\ s.err = "ok" => nodeAt(m, Root \o x).kind = "none" /\ nodeAt(m, parent(Root \o x)).kind = "dir"
        /\ nodeAt(m, Root \o x).kind = "none" /\ nodeAt(m, parent(Root \o x)).kind = "dir" => s = Insert(m, Root \o x, Symbolic(to))
  <2>1. m \in Goods /\ Reached(m, Root, Root, x)
    BY <1>1, <1>2
  <2> QED BY <2>1, SymlinkDoes
<1>4. nodeAt(m, x).kind = "none" /\ nodeAt(m, parent(x)).kind = "dir" /\ r = Insert(m, x, Symbolic(to))
  <2>1. r = symlink(m, to, Root \o x)
    BY <1>2
  <2> QED BY <1>2, <1>3, <2>1
<1> DEFINE g == Symbolic(to)
<1>5. Fits(m, g)
  BY <1>1, NewFits
<1> HIDE DEF g
<1>6. /\ Insert(m, x, g).err = "ok" /\ r.fs = Insert(m, x, g).fs /\ (g.kind = "link" => x \notin D \cup F)
      /\ nodeAt(m, parent(x)).kind = "dir" /\ nodeAt(m, x).kind = "none" /\ x \in Below
  BY <1>2, <1>4 DEF g
<1>7. r.fs \in Ready(D, F) /\ nodeAt(r.fs, x) = g /\ \A y : y # x => Alike(m, r.fs, y)
  <2>1. r.fs \in Ready(D, F)
    BY <1>5, <1>6, InsertReady
  <2>2. nodeAt(r.fs, x) = g
    BY <1>5, <1>6, InsertReady
  <2>3. ASSUME NEW y, y # x PROVE Alike(m, r.fs, y)
    BY <1>1, <1>5, <1>6, <2>3, InsertAlike
  <2> QED BY <2>1, <2>2, <2>3
<1> QED BY <1>4, <1>7 DEF g

\* Each call of a copy that is not refused does what it is there for, and nothing
\* is undone but what was at the place of a link.
LEMMA CopyStep ==
  ASSUME NEW D, NEW F, NEW L, Layout(D, F, L), NEW m \in Ready(D, F), NEW c \in Copies(D, F, L),
         NEW k, Apply(m, c) = Answer(k, "ok")
  PROVE  /\ k \in Ready(D, F) /\ Settled(c, k)
         /\ \A d \in Copies(D, F, L) :
              /\ Settled(d, m)
              /\ c.op = "write" /\ d.op = "write" /\ c.name = d.name => c.node.size = d.node.size
              => Settled(d, k) \/ (c.op = "removeAll" /\ d.name = c.name)
<1> DEFINE r == Apply(m, c)
           x == c.name
           n == c.node.size
           t == c.node.target
<1>1. /\ c.op \in {"mkdir", "write", "removeAll", "symlink"} /\ n \in Nat /\ t \in LinkTargets
      /\ c.op = "mkdir" => x \in D
      /\ c.op = "write" => x \in F
      /\ c.op \in {"removeAll", "symlink"} => x \in L
  BY DEF Copies, Calls, Node
<1>2. r = CASE c.op = "mkdir"     -> mkdirStep(m, x)
            [] c.op = "write"     -> writeFile(m, x, n)
            [] c.op = "removeAll" -> removeAll(m, x)
            [] c.op = "symlink"   -> symlink(m, t, x)
  BY DEF Apply
<1>3. r.err = "ok" /\ r.fs = k
  BY AnswerIs
<1> HIDE DEF r
<1>4. ASSUME NEW d \in Copies(D, F, L)
      PROVE  /\ d.op \in {"mkdir", "write", "removeAll", "symlink"} /\ (d.name \in D \cup F \cup L \/ d.op = "removeAll")
             /\ d.op = "write" => d.name \in F
  BY DEF Copies, Calls
<1>5. \A d : Settled(d, m) /\ d.op \in {"mkdir", "write", "symlink"} => nodeAt(m, d.name).kind # "none"
  BY DEF Settled
<1>6. CASE c.op = "mkdir"
  <2>1. r = mkdirStep(m, x) /\ x \in D
    BY <1>1, <1>2, <1>6
  <2>2. /\ r.fs \in Ready(D, F) /\ nodeAt(r.fs, x).kind # "none"
        /\ \A y : nodeAt(m, y).kind # "none" => Alike(m, r.fs, y)
    BY <1>3, <2>1, CopyMkdir
  <2>3. Settled(c, k)
    BY <1>3, <1>6, <2>2 DEF Settled
  <2>4. ASSUME NEW d \in Copies(D, F, L), Settled(d, m) PROVE Settled(d, k)
    <3>1. d.op # "removeAll" => Alike(m, k, d.name)
      BY <1>3, <1>4, <1>5, <2>2, <2>4
    <3> QED BY <2>4, <3>1, StaysSettled
  <2> QED BY <1>3, <2>2, <2>3, <2>4
<1>7. CASE c.op = "symlink"
  <2>1. r = symlink(m, t, x) /\ x \in L
    BY <1>1, <1>2, <1>7
  <2>2. /\ r.fs \in Ready(D, F) /\ nodeAt(r.fs, x) = Symbolic(t)
        /\ \A y : nodeAt(m, y).kind # "none" => Alike(m, r.fs, y)
    <3> HIDE DEF x, t
    <3> QED BY <1>1, <1>3, <2>1, CopySymlink
  <2>3. Settled(c, k)
    <3>1. Symbolic(t).kind = "link" /\ Symbolic(t).size = 0 /\ Symbolic(t).target = t
      BY DEF Symbolic, Nothing
    <3> QED BY <1>3, <1>7, <2>2, <3>1 DEF Settled
  <2>4. ASSUME NEW d \in Copies(D, F, L), Settled(d, m) PROVE Settled(d, k)
    <3>1. d.op # "removeAll" => Alike(m, k, d.name)
      BY <1>3, <1>4, <1>5, <2>2, <2>4
    <3> QED BY <2>4, <3>1, StaysSettled
  <2> QED BY <1>3, <2>2, <2>3, <2>4
<1>8. CASE c.op = "removeAll"
  <2>1. r = removeAll(m, x) /\ x \in L
    BY <1>1, <1>2, <1>8
  <2>2. /\ r.fs \in Ready(D, F)
        /\ \A y \in D \cup F \cup L : y # x => Alike(m, r.fs, y)
    BY <1>3, <2>1, CopyRemoveAll
  <2>3. Settled(c, k)
    BY <1>8 DEF Settled
  <2>4. ASSUME NEW d \in Copies(D, F, L), Settled(d, m), d.name # x PROVE Settled(d, k)
    <3>1. d.op # "removeAll" => Alike(m, k, d.name)
      BY <1>3, <1>4, <2>2, <2>4
    <3> QED BY <2>4, <3>1, StaysSettled
  <2> QED BY <1>3, <1>8, <2>2, <2>3, <2>4
<1>9. CASE c.op = "write"
  <2>1. r = writeFile(m, x, n) /\ x \in F
    BY <1>1, <1>2, <1>9
  <2>2. /\ r.fs \in Ready(D, F) /\ nodeAt(r.fs, x).kind = "file" /\ nodeAt(r.fs, x).size = n
        /\ \A y : nodeAt(m, y).kind # "none" => nodeAt(r.fs, y).kind = nodeAt(m, y).kind
        /\ \A y \in F : y # x => Alike(m, r.fs, y)
        /\ \A y : nodeAt(m, y).kind \notin {"none", "file"} => Alike(m, r.fs, y)
    <3> HIDE DEF x, n
    <3> QED BY <1>1, <1>3, <2>1, CopyWrite
  <2>3. Settled(c, k)
    BY <1>3, <1>9, <2>2 DEF Settled
  <2>4. ASSUME NEW d \in Copies(D, F, L), Settled(d, m), d.op = "write" /\ x = d.name => n = d.node.size
        PROVE  Settled(d, k)
    <3>1. CASE d.op = "mkdir"
      BY <1>3, <2>2, <2>4, <3>1 DEF Settled
    <3>2. CASE d.op = "removeAll"
      BY <3>2 DEF Settled
    <3>3. CASE d.op = "symlink"
      <4>1. nodeAt(m, d.name).kind = "link"
        BY <2>4, <3>3 DEF Settled
      <4>2. Alike(m, k, d.name)
        BY <1>3, <2>2, <4>1
      <4> QED BY <2>4, <4>2, StaysSettled
    <3>4. CASE d.op = "write" /\ d.name = x
      BY <1>3, <2>2, <2>4, <3>4 DEF Settled
    <3>5. CASE d.op = "write" /\ d.name # x
      <4>1. Alike(m, k, d.name)
        BY <1>3, <1>4, <2>2, <3>5
      <4> QED BY <2>4, <4>1, StaysSettled
    <3> QED BY <1>4, <3>1, <3>2, <3>3, <3>4, <3>5
  <2> QED BY <1>3, <1>9, <2>2, <2>3, <2>4
<1> QED BY <1>1, <1>6, <1>7, <1>8, <1>9

\* The calls that a mount of a source makes.
Making(name) == [op |-> "mkdir", name |-> name, node |-> Directory]
Writing(name, n) == [op |-> "write", name |-> name, node |-> n]
Clearing(name) == [op |-> "removeAll", name |-> name, node |-> Nothing]
Linking(name, t) == [op |-> "symlink", name |-> name, node |-> Symbolic(t)]

\* What each of them is for.
Told(target, source, c) ==
  /\ c.op = "write" => \E p \in Paths : source[p].kind = "file" /\ c = Writing(target \o p, source[p])
  /\ c.op = "symlink" => \E p \in Paths : source[p].kind = "link" /\ c = Linking(target \o p, Rebased(source[p].target, target))

\* A link is made right after what was in its place is removed.
ThenLinks(s) ==
  \A a \in 1 .. Len(s) : s[a].op = "removeAll" =>
    a + 1 \in 1 .. Len(s) /\ s[a + 1].op = "symlink" /\ s[a + 1].name = s[a].name

\* The call that there is for an entry.
CallFor(target, source, p) ==
  CASE source[p].kind = "file" -> Writing(target \o p, source[p])
    [] source[p].kind = "dir" -> Making(target \o p)
    [] source[p].kind = "link" -> Linking(target \o p, Rebased(source[p].target, target))
    [] OTHER -> Clearing(target \o p)

\* The parts of a call.
LEMMA CallsHave ==
  /\ \A x : Making(x).op = "mkdir" /\ Making(x).name = x /\ Making(x).node = Directory
  /\ \A x, n : Writing(x, n).op = "write" /\ Writing(x, n).name = x /\ Writing(x, n).node = n
  /\ \A x : Clearing(x).op = "removeAll" /\ Clearing(x).name = x
  /\ \A x, t : Linking(x, t).op = "symlink" /\ Linking(x, t).name = x /\ Linking(x, t).node = Symbolic(t)
  BY DEF Making, Writing, Clearing, Linking

\* The calls that make the directories on the way to a name.
LEMMA MkdirAllIs ==
  ASSUME NEW name \in Clean
  PROVE  /\ Len(MkdirAllCalls(name)) = Len(name) /\ Len(name) \in Nat
         /\ \A i \in 1 .. Len(name) : MkdirAllCalls(name)[i] = Making(SubSeq(name, 1, i))
         /\ name # Root => Len(name) \in 1 .. Len(name) /\ MkdirAllCalls(name)[Len(name)] = Making(name)
<1>1. Len(name) \in Nat /\ SubSeq(name, 1, Len(name)) = name
  BY DEF Clean
<1>2. MkdirAllCalls(name) = [i \in 1 .. Len(name) |-> Making(SubSeq(name, 1, i))]
  BY DEF MkdirAllCalls, Making
<1>3. Len(MkdirAllCalls(name)) = Len(name)
  BY <1>1, <1>2
<1>4. \A i \in 1 .. Len(name) : MkdirAllCalls(name)[i] = Making(SubSeq(name, 1, i))
  BY <1>2
<1>5. name # Root => Len(name) \in 1 .. Len(name)
  <2> DEFINE l == Len(name)
  <2>1. name # Root => l # 0
    BY EmptySeq DEF Clean, Root
  <2>2. l \in Nat
    BY <1>1
  <2> HIDE DEF l
  <2>3. name # Root => l \in 1 .. l
    BY <2>1, <2>2
  <2> QED BY <2>3 DEF l
<1>6. name # Root => MkdirAllCalls(name)[Len(name)] = Making(name)
  BY <1>1, <1>4, <1>5
<1> QED BY <1>1, <1>3, <1>4, <1>5, <1>6

\* What the calls for one entry are.
LEMMA EntryIs ==
  ASSUME NEW target \in Clean, NEW source \in Sources, NEW p \in Paths,
         NEW e, e = EntryCalls(target, p, source[p])
  PROVE  /\ e \in Seq(Calls)
         /\ \A a \in 1 .. Len(e) : Told(target, source, e[a])
         /\ ThenLinks(e)
         /\ source[p].kind # "none" => \E a \in 1 .. Len(e) : e[a] = CallFor(target, source, p)
<1> DEFINE n == source[p]
           name == target \o p
           t == Rebased(n.target, target)
<1>1. n \in Node
  BY CopyAssumption DEF Node
<1>2. e \in Seq(Calls)
  <2> HIDE DEF n
  <2> QED BY <1>1, EntryCallsAre DEF n
<1>3. e = CASE n.kind = "dir"  -> MkdirAllCalls(name)
            [] n.kind = "file" -> <<Writing(name, n)>>
            [] n.kind = "link" -> <<Clearing(name), Linking(name, t)>>
            [] n.kind = "none" -> <<>>
  BY DEF EntryCalls, Then, LinkCalls, Writing, Clearing, Linking
<1>4. n.kind \in {"none", "file", "dir", "link"}
  BY <1>1 DEF Node
<1>5. name \in Clean /\ name # Root
  BY BelowTarget
<1>6. CallFor(target, source, p) = CASE n.kind = "file" -> Writing(name, n)
                                     [] n.kind = "dir" -> Making(name)
                                     [] n.kind = "link" -> Linking(name, t)
                                     [] OTHER -> Clearing(name)
  BY DEF CallFor
<1>7. \A c : c = Writing(name, n) /\ n.kind = "file" => Told(target, source, c)
  BY CallsHave DEF Told
<1>8. \A c : c = Linking(name, t) /\ n.kind = "link" => Told(target, source, c)
  BY CallsHave DEF Told
<1>9. \A c : c.op \in {"mkdir", "removeAll"} => Told(target, source, c)
  BY DEF Told
<1> HIDE DEF n, name, t
<1>10. CASE n.kind = "dir"
  <2>1. e = MkdirAllCalls(name) /\ CallFor(target, source, p) = Making(name)
    BY <1>3, <1>6, <1>10
  <2>2. Len(e) = Len(name) /\ Len(name) \in 1 .. Len(name) /\ e[Len(name)] = Making(name)
        /\ \A a \in 1 .. Len(name) : e[a] = Making(SubSeq(name, 1, a))
    BY <1>5, <2>1, MkdirAllIs
  <2>3. \A a \in 1 .. Len(e) : e[a].op = "mkdir"
    BY <2>2, CallsHave
  <2>4. \E a \in 1 .. Len(e) : e[a] = CallFor(target, source, p)
    BY <2>1, <2>2
  <2> QED BY <1>2, <1>9, <2>3, <2>4 DEF ThenLinks
<1>11. CASE n.kind = "file"
  <2>1. e = <<Writing(name, n)>> /\ CallFor(target, source, p) = Writing(name, n)
    BY <1>3, <1>6, <1>11
  <2>2. Len(e) = 1 /\ e[1] = Writing(name, n)
    BY <2>1
  <2>3. \A a \in 1 .. Len(e) : e[a] = Writing(name, n)
    BY <2>2
  <2>4. 1 \in 1 .. Len(e)
    BY <2>2
  <2>5. \A a \in 1 .. Len(e) : Told(target, source, e[a]) /\ e[a].op = "write"
    BY <1>7, <1>11, <2>3, CallsHave
  <2> QED BY <1>2, <2>1, <2>2, <2>4, <2>5 DEF ThenLinks
<1>12. CASE n.kind = "link"
  <2>1. e = <<Clearing(name), Linking(name, t)>> /\ CallFor(target, source, p) = Linking(name, t)
    BY <1>3, <1>6, <1>12
  <2>2. Len(e) = 2 /\ e[1] = Clearing(name) /\ e[2] = Linking(name, t)
    BY <2>1
  <2>3. \A a \in 1 .. Len(e) : a = 1 \/ a = 2
    BY <2>2
  <2>4. 1 + 1 \in 1 .. Len(e) /\ 1 + 1 = 2
    BY <2>2
  <2>5. /\ e[1].op = "removeAll" /\ e[1].name = name /\ Told(target, source, e[1])
        /\ e[2].op = "symlink" /\ e[2].name = name /\ Told(target, source, e[2])
    BY <1>8, <1>9, <1>12, <2>2, CallsHave
  <2>6. \A a \in 1 .. Len(e) : Told(target, source, e[a])
    BY <2>3, <2>5
  <2>7. ThenLinks(e)
    BY <2>3, <2>4, <2>5 DEF ThenLinks
  <2>8. \E a \in 1 .. Len(e) : e[a] = CallFor(target, source, p)
    BY <2>1, <2>2, <2>4
  <2> QED BY <1>2, <2>6, <2>7, <2>8
<1>13. CASE n.kind = "none"
  <2>1. Len(e) = 0
    BY <1>3, <1>13
  <2> QED BY <1>2, <1>13, <2>1 DEF ThenLinks, n
<1> QED BY <1>4, <1>10, <1>11, <1>12, <1>13

\* What the calls of a mount that does not clear its target are.
LEMMA CopyIs ==
  ASSUME NEW target \in Clean, NEW source \in Sources, NEW calls, calls = CopyCalls(target, source)
  PROVE  /\ calls \in Seq(Calls) /\ Len(calls) \in Nat
         /\ \A j \in 1 .. Len(calls) : Told(target, source, calls[j])
         /\ ThenLinks(calls)
         /\ \A p \in Provided(source) : \E j \in 1 .. Len(calls) : calls[j] = CallFor(target, source, p)
<1> DEFINE head == MkdirAllCalls(target)
           parts == [i \in 1 .. Len(Walk) |-> EntryCalls(target, Walk[i], source[Walk[i]])]
           flat == Seqs!FlattenSeq(parts)
           h == Len(head)
<1>1. Len(Walk) \in Nat /\ (\A i \in 1 .. Len(Walk) : Walk[i] \in Paths) /\ \A p \in Paths : \E i \in 1 .. Len(Walk) : Walk[i] = p
  <2>1. Len(Walk) = Cardinality(Paths) /\ IsFiniteSet(Paths) /\ Seqs!ToSet(Walk) = Paths
    BY CopyAssumption, MemoryAssumption
  <2>2. Len(Walk) \in Nat
    BY <2>1, FS_CardinalityType
  <2> QED BY <2>1, <2>2 DEF Seqs!ToSet
<1>2. \A i \in 1 .. Len(Walk) :
        /\ parts[i] \in Seq(Calls)
        /\ \A a \in 1 .. Len(parts[i]) : Told(target, source, parts[i][a])
        /\ ThenLinks(parts[i])
        /\ source[Walk[i]].kind # "none" => \E a \in 1 .. Len(parts[i]) : parts[i][a] = CallFor(target, source, Walk[i])
  <2> SUFFICES ASSUME NEW i \in 1 .. Len(Walk)
               PROVE  /\ parts[i] \in Seq(Calls)
                      /\ \A a \in 1 .. Len(parts[i]) : Told(target, source, parts[i][a])
                      /\ ThenLinks(parts[i])
                      /\ source[Walk[i]].kind # "none" =>
                           \E a \in 1 .. Len(parts[i]) : parts[i][a] = CallFor(target, source, Walk[i])
    OBVIOUS
  <2>1. Walk[i] \in Paths /\ parts[i] = EntryCalls(target, Walk[i], source[Walk[i]])
    BY <1>1
  <2> DEFINE e == parts[i]
             p == Walk[i]
  <2> HIDE DEF e, p
  <2>2. /\ e \in Seq(Calls)
        /\ \A a \in 1 .. Len(e) : Told(target, source, e[a])
        /\ ThenLinks(e)
        /\ source[p].kind # "none" => \E a \in 1 .. Len(e) : e[a] = CallFor(target, source, p)
    <3>1. e = EntryCalls(target, p, source[p]) /\ p \in Paths
      BY <2>1 DEF e, p
    <3> QED BY <3>1, EntryIs
  <2> QED BY <2>2 DEF e, p
<1>3. Len(parts) = Len(Walk)
  BY <1>1
<1>4. parts \in Seq(Seq(Calls))
  BY <1>1, <1>2
<1>5. head \in Seq(Calls) /\ (\A i \in 1 .. Len(head) : head[i].op = "mkdir")
  BY MkdirAllCallsAre, MkdirAllIs, CallsHave
<1>6. calls = head \o flat
  BY DEF CopyCalls
<1> HIDE DEF head, parts
<1>7. flat \in Seq(Calls)
  BY <1>4, FlattenIs
<1>8. PICK off : Parts(off, parts, flat)
  BY <1>4, FlattenParts
<1> HIDE DEF flat
<1>9. /\ calls \in Seq(Calls) /\ h \in Nat /\ Len(flat) \in Nat /\ Len(calls) = h + Len(flat)
      /\ \A i \in 1 .. h : calls[i] = head[i]
      /\ \A i \in 1 .. Len(flat) : calls[h + i] = flat[i]
  BY <1>5, <1>6, <1>7, JoinedElements
<1> HIDE DEF h
<1>10. ASSUME NEW j \in 1 .. Len(calls)
       PROVE  \/ j \in 1 .. h /\ calls[j].op = "mkdir"
              \/ \E i \in 1 .. Len(parts) : \E a \in 1 .. Len(parts[i]) : j = h + (off[i] + a) /\ calls[j] = parts[i][a]
  <2>1. CASE j <= h
    <3>1. j \in 1 .. h
      BY <1>9, <2>1
    <3> QED BY <1>5, <1>9, <3>1 DEF h
  <2>2. CASE j > h
    <3>1. j - h \in 1 .. Len(flat) /\ j = h + (j - h)
      BY <1>9, <2>2
    <3>2. PICK i \in 1 .. Len(parts) : \E a \in 1 .. Len(parts[i]) : j - h = off[i] + a
      BY <1>8, <3>1 DEF Parts
    <3>3. PICK a \in 1 .. Len(parts[i]) : j - h = off[i] + a
      BY <3>2
    <3>4. flat[off[i] + a] = parts[i][a] /\ off[i] + a \in 1 .. Len(flat)
      BY <1>8 DEF Parts
    <3>5. calls[j] = parts[i][a]
      BY <1>9, <3>1, <3>3, <3>4
    <3> QED BY <3>1, <3>3, <3>5
  <2> QED BY <1>9, <2>1, <2>2
<1>11. ASSUME NEW i \in 1 .. Len(parts), NEW a \in 1 .. Len(parts[i])
       PROVE  h + (off[i] + a) \in 1 .. Len(calls) /\ calls[h + (off[i] + a)] = parts[i][a] /\ off[i] \in Nat
  <2>1. off[i] + a \in 1 .. Len(flat) /\ flat[off[i] + a] = parts[i][a] /\ off[i] \in Nat
    BY <1>8 DEF Parts
  <2> DEFINE x == off[i] + a
             n == Len(flat)
  <2>2. x \in 1 .. n /\ n \in Nat /\ Len(calls) = h + n /\ h \in Nat
    BY <1>9, <2>1
  <2> HIDE DEF x, n
  <2>3. h + x \in 1 .. Len(calls)
    BY <2>2
  <2>4. calls[h + x] = flat[x]
    BY <1>9, <2>2 DEF n
  <2> QED BY <2>1, <2>3, <2>4 DEF x
<1>12. \A j \in 1 .. Len(calls) : Told(target, source, calls[j])
  <2> SUFFICES ASSUME NEW j \in 1 .. Len(calls) PROVE Told(target, source, calls[j])
    OBVIOUS
  <2>1. CASE calls[j].op = "mkdir"
    BY <2>1 DEF Told
  <2>2. CASE calls[j].op # "mkdir"
    <3>1. PICK i \in 1 .. Len(parts) : \E a \in 1 .. Len(parts[i]) : calls[j] = parts[i][a]
      BY <1>10, <2>2
    <3> QED BY <1>2, <1>3, <3>1
  <2> QED BY <2>1, <2>2
<1>13. ThenLinks(calls)
  <2> SUFFICES ASSUME NEW j \in 1 .. Len(calls), calls[j].op = "removeAll"
               PROVE  j + 1 \in 1 .. Len(calls) /\ calls[j + 1].op = "symlink" /\ calls[j + 1].name = calls[j].name
    BY DEF ThenLinks
  <2>1. PICK i \in 1 .. Len(parts) : \E a \in 1 .. Len(parts[i]) : j = h + (off[i] + a) /\ calls[j] = parts[i][a]
    BY <1>10
  <2>2. PICK a \in 1 .. Len(parts[i]) : j = h + (off[i] + a) /\ calls[j] = parts[i][a]
    BY <2>1
  <2>3. a + 1 \in 1 .. Len(parts[i]) /\ parts[i][a + 1].op = "symlink" /\ parts[i][a + 1].name = parts[i][a].name
    BY <1>2, <1>3, <2>2 DEF ThenLinks
  <2>4. h + (off[i] + (a + 1)) \in 1 .. Len(calls) /\ calls[h + (off[i] + (a + 1))] = parts[i][a + 1] /\ off[i] \in Nat
    BY <1>11, <2>3
  <2>5. h + (off[i] + (a + 1)) = j + 1
    <3> DEFINE o == off[i]
    <3>1. o \in Nat /\ h \in Nat /\ j = h + (o + a) /\ a \in Int
      BY <1>9, <2>2, <2>4
    <3> HIDE DEF o
    <3>2. h + (o + (a + 1)) = j + 1
      BY <3>1
    <3> QED BY <3>2 DEF o
  <2> QED BY <2>2, <2>3, <2>4, <2>5
<1>14. ASSUME NEW p \in Provided(source) PROVE \E j \in 1 .. Len(calls) : calls[j] = CallFor(target, source, p)
  <2>1. p \in Paths /\ source[p].kind # "none"
    BY DEF Provided
  <2>2. PICK i \in 1 .. Len(parts) : Walk[i] = p
    BY <1>1, <1>3, <2>1
  <2>3. PICK a \in 1 .. Len(parts[i]) : parts[i][a] = CallFor(target, source, p)
    BY <1>2, <1>3, <2>1, <2>2
  <2> QED BY <1>11, <2>3
<1> QED BY <1>9, <1>12, <1>13, <1>14

\* Calls for the same name ask for the same.
LEMMA ToldOnce ==
  ASSUME NEW target \in Clean, NEW source \in Sources, NEW c, NEW d,
         Told(target, source, c), Told(target, source, d), c.name = d.name, c.op = d.op, c.op \in {"write", "symlink"}
  PROVE  c = d
<1>1. CASE c.op = "write"
  <2>1. PICK p \in Paths : c = Writing(target \o p, source[p])
    BY <1>1 DEF Told
  <2>2. PICK q \in Paths : d = Writing(target \o q, source[q])
    BY <1>1 DEF Told
  <2>3. c.name = target \o p /\ d.name = target \o q
    BY <2>1, <2>2, CallsHave
  <2>4. p = q
    <3>1. target \o p = target \o q /\ p \in Clean /\ q \in Clean
      BY <2>3, PlacesAre
    <3> QED BY <3>1, JoinedAre
  <2> QED BY <2>1, <2>2, <2>4
<1>2. CASE c.op = "symlink"
  <2>1. PICK p \in Paths : c = Linking(target \o p, Rebased(source[p].target, target))
    BY <1>2 DEF Told
  <2>2. PICK q \in Paths : d = Linking(target \o q, Rebased(source[q].target, target))
    BY <1>2 DEF Told
  <2>3. c.name = target \o p /\ d.name = target \o q
    <3>1. \A x, t, v : v = Linking(x, t) => v.name = x
      BY CallsHave
    <3> QED BY <2>1, <2>2, <3>1, Zenon
  <2>4. p = q
    <3>1. target \o p = target \o q /\ p \in Clean /\ q \in Clean
      BY <2>3, PlacesAre
    <3> QED BY <3>1, JoinedAre
  <2> QED BY <2>1, <2>2, <2>4
<1> QED BY <1>1, <1>2

\* When none of the calls of a copy is refused, all are settled at the end.
LEMMA CopySettles ==
  ASSUME NEW target \in Clean, NEW source \in Sources, NEW calls, calls = CopyCalls(target, source),
         NEW D, D = Dirs(target, source), NEW F, F = Held(target, source, "file"),
         NEW m \in Ready(D, F), NEW s, Through(s, m, calls)
  PROVE  /\ s[Len(calls)] \in Ready(D, F)
         /\ \A j \in 1 .. Len(calls) : Settled(calls[j], s[Len(calls)])
<1> DEFINE L == Held(target, source, "link")
           n == Len(calls)
           Fine(k) == /\ s[k] \in Ready(D, F)
                      /\ \A j \in 1 .. k : \/ Settled(calls[j], s[k])
                                           \/ k # 0 /\ calls[k].op = "removeAll" /\ calls[k].name = calls[j].name
           T == {k \in 0 .. n : Fine(k)}
<1>1. Layout(D, F, L)
  BY MountLayout
<1>2. /\ n \in Nat /\ calls \in Seq(Calls)
      /\ \A j \in 1 .. n : Told(target, source, calls[j])
      /\ ThenLinks(calls)
  BY CopyIs
<1>3. calls \in Seq(Copies(D, F, L))
  BY CallsAreCopies
<1>4. \A j \in 1 .. n : calls[j] \in Copies(D, F, L)
  <2> HIDE DEF L
  <2> QED BY <1>3
<1> HIDE DEF n, L
<1>5. s[0] = m /\ \A k \in 1 .. n : Apply(s[k - 1], calls[k]) = Answer(s[k], "ok")
  BY DEF Through, n
<1>6. 0 \in T
  <2>1. \A j \in 1 .. 0 : FALSE
    OBVIOUS
  <2> QED BY <1>2, <1>5, <2>1
<1>7. ASSUME NEW k \in 0 .. n - 1, k \in T PROVE k + 1 \in T
  <2> DEFINE c == calls[k + 1]
             a == s[k]
             b == s[k + 1]
  <2>1. k \in Nat /\ k + 1 \in 1 .. n /\ (k + 1) - 1 = k /\ k + 1 \in 0 .. n /\ k + 1 # 0
    BY <1>2
  <2>2. Fine(k)
    BY <1>7
  <2>3. a \in Ready(D, F) /\ c \in Copies(D, F, L) /\ Told(target, source, c)
    BY <1>2, <1>4, <2>1, <2>2
  <2>4. Apply(a, c) = Answer(b, "ok")
    BY <1>5, <2>1
  <2> HIDE DEF a, b, c
  <2>5. /\ b \in Ready(D, F) /\ Settled(c, b)
        /\ \A d \in Copies(D, F, L) :
              /\ Settled(d, a)
              /\ c.op = "write" /\ d.op = "write" /\ c.name = d.name => c.node.size = d.node.size
              => Settled(d, b) \/ (c.op = "removeAll" /\ d.name = c.name)
    BY <1>1, <2>3, <2>4, CopyStep
  <2>6. ASSUME NEW j \in 1 .. k + 1
        PROVE  Settled(calls[j], b) \/ (c.op = "removeAll" /\ c.name = calls[j].name)
    <3>1. CASE j = k + 1
      BY <2>5, <3>1 DEF c
    <3>2. CASE j # k + 1
      <4>1. j \in 1 .. k /\ j \in 1 .. n
        <5>1. n \in Nat /\ k \in Nat /\ k <= n - 1 /\ j \in 1 .. k + 1 /\ j # k + 1
          BY <1>2, <2>1, <3>2
        <5> QED BY <5>1
      <4> DEFINE d == calls[j]
      <4>2. d \in Copies(D, F, L) /\ Told(target, source, d)
        BY <1>2, <1>4, <4>1
      <4>3. Settled(d, a) \/ (k # 0 /\ calls[k].op = "removeAll" /\ calls[k].name = d.name)
        BY <2>2, <4>1 DEF a
      <4> HIDE DEF d
      <4>4. CASE Settled(d, a)
        <5>1. c.op = "write" /\ d.op = "write" /\ c.name = d.name => c.node.size = d.node.size
          <6>1. c.op = "write" /\ d.op = "write" /\ c.name = d.name => c = d
            BY <2>3, <4>2, ToldOnce
          <6> QED BY <6>1
        <5> QED BY <2>5, <4>2, <4>4, <5>1 DEF d
      <4>5. CASE ~Settled(d, a)
        <5>1. k # 0 /\ calls[k].op = "removeAll" /\ calls[k].name = d.name
          BY <4>3, <4>5
        <5>2. k \in 1 .. n
          <6>1. n \in Nat /\ k \in Nat /\ k <= n - 1 /\ k # 0
            BY <1>2, <2>1, <5>1
          <6> QED BY <6>1
        <5>3. c.op = "symlink" /\ c.name = d.name
          BY <5>1, <5>2, <1>2 DEF ThenLinks, c, n
        <5>4. d.op \in {"mkdir", "write", "removeAll", "symlink"} /\ c.name \in L
              /\ (d.op = "mkdir" => d.name \in D) /\ (d.op = "write" => d.name \in F)
          BY <2>3, <4>2, <5>3 DEF Copies, Calls
        <5>5. d.op \notin {"mkdir", "write"}
          BY <1>1, <5>3, <5>4 DEF Layout
        <5>6. d.op # "removeAll"
          BY <4>5 DEF Settled
        <5>7. d.op = c.op
          BY <5>3, <5>4, <5>5, <5>6
        <5>8. c = d
          BY <2>3, <4>2, <5>3, <5>7, ToldOnce
        <5> QED BY <2>5, <5>8 DEF d
      <4> QED BY <4>4, <4>5
    <3> QED BY <3>1, <3>2
  <2>7. Fine(k + 1)
    BY <2>1, <2>5, <2>6 DEF b, c
  <2> QED BY <2>1, <2>7
<1>8. n \in T
  <2> HIDE DEF T
  <2>1. 0 .. n \subseteq T
    BY <1>2, <1>6, <1>7, InductTo
  <2> QED BY <1>2, <2>1
<1>9. Fine(n)
  BY <1>8
<1>10. ASSUME n # 0 PROVE calls[n].op # "removeAll"
  <2>1. n \in 1 .. n
    BY <1>2, <1>10
  <2>2. n + 1 \notin 1 .. n
    BY <1>2
  <2> QED BY <1>2, <2>1, <2>2 DEF ThenLinks, n
<1> QED BY <1>9, <1>10 DEF n

\* Then every entry of the source is there.
LEMMA CopyThere ==
  ASSUME NEW target \in Clean, NEW source \in Sources, NEW calls, calls = CopyCalls(target, source),
         NEW D, D = Dirs(target, source), NEW F, F = Held(target, source, "file"),
         NEW m \in Ready(D, F), NEW s, Through(s, m, calls), NEW p \in Provided(source), NEW k, k = s[Len(calls)]
  PROVE  /\ k \in Ready(D, F)
         /\ source[p].kind = "dir" => nodeAt(k, target \o p).kind # "none"
         /\ source[p].kind = "file" => nodeAt(k, target \o p).kind = "file" /\ nodeAt(k, target \o p).size = source[p].size
         /\ source[p].kind = "link" => nodeAt(k, target \o p).kind = "link"
                                       /\ nodeAt(k, target \o p).target = Rebased(source[p].target, target)
<1>1. k \in Ready(D, F) /\ \A j \in 1 .. Len(calls) : Settled(calls[j], k)
  BY CopySettles
<1>2. Settled(CallFor(target, source, p), k)
  <2>1. \E j \in 1 .. Len(calls) : calls[j] = CallFor(target, source, p)
    BY CopyIs
  <2> QED BY <1>1, <2>1
<1>3. CASE source[p].kind = "dir"
  <2>1. CallFor(target, source, p) = Making(target \o p)
    BY <1>3 DEF CallFor
  <2> QED BY <1>1, <1>2, <1>3, <2>1, CallsHave DEF Settled
<1>4. CASE source[p].kind = "file"
  <2>1. CallFor(target, source, p) = Writing(target \o p, source[p])
    BY <1>4 DEF CallFor
  <2> QED BY <1>1, <1>2, <1>4, <2>1, CallsHave DEF Settled
<1>5. CASE source[p].kind = "link"
  <2> DEFINE t == Rebased(source[p].target, target)
  <2>1. CallFor(target, source, p) = Linking(target \o p, t)
    BY <1>5 DEF CallFor
  <2>2. Symbolic(t).target = t
    BY DEF Symbolic, Nothing
  <2> HIDE DEF t
  <2>3. nodeAt(k, target \o p).kind = "link" /\ nodeAt(k, target \o p).target = t
    BY <1>2, <2>1, <2>2, CallsHave DEF Settled
  <2> QED BY <1>1, <1>5, <2>3 DEF t
<1> QED BY <1>1, <1>3, <1>4, <1>5

\* A walk to a link goes on where the link leads.
LEMMA WalkAtLink ==
  ASSUME NEW m \in Goods, NEW n \in Clean, n # Root, nodeAt(m, n).kind = "link",
         NEW f \in Clean, f = Follow(parent(n), nodeAt(m, n).target)
  PROVE  WalkTo(m, n, TRUE) = Ended("follow", f)
<1> DEFINE l == Len(n)
           S == Stops(m, n, TRUE)
           k == Sets!Min(S)
<1>1. l \in Nat \ {0} /\ SubSeq(n, 1, l) = n
  <2>1. Len(n) \in Nat \ {0}
    BY NameIs
  <2> QED BY <2>1 DEF Clean
<1>2. m \in Memories /\ n \in Places /\ m.at[n] # 0 /\ n \in Paths
  <2>1. m \in Memories /\ n \in Places /\ m.at[n] \in Ids
    BY GoodsAre, NodeAt
  <2> QED BY <2>1, PlacesAre
<1>3. \A i \in 1 .. l - 1 : KindAt(m, n, i) = "dir"
  <2> SUFFICES ASSUME NEW i \in 1 .. l - 1 PROVE nodeAt(m, SubSeq(n, 1, i)).kind = "dir"
    BY DEF KindAt
  <2> DEFINE q == SubSeq(n, 1, i)
  <2>1. i \in 0 .. Len(n) /\ i <= Len(n) /\ i # Len(n)
    <3>1. i \in 1 .. l - 1 /\ l \in Nat
      BY <1>1
    <3> HIDE DEF l
    <3>2. i \in 0 .. l /\ i <= l /\ i # l
      BY <3>1
    <3> QED BY <3>2 DEF l
  <2>2. q \in Clean /\ Len(q) = i
    BY <2>1, BeginningIs DEF Clean
  <2>3. Prefix(q, n)
    BY <2>1, <2>2 DEF Prefix
  <2> HIDE DEF q
  <2>4. q # n
    BY <2>1, <2>2
  <2>5. nodeAt(m, q).kind = "dir"
    BY <1>2, <2>2, <2>3, <2>4, Ancestors
  <2> QED BY <2>5 DEF q
<1>4. KindAt(m, n, l) = "link"
  BY <1>1 DEF KindAt
<1>5. S = {i \in 1 .. Len(n) : \/ KindAt(m, n, i) = "none"
                               \/ KindAt(m, n, i) = "link" /\ (TRUE \/ i < Len(n))
                               \/ KindAt(m, n, i) = "file" /\ i < Len(n)}
  BY StopsAre
<1>6. l \in S /\ \A i \in S : i = l
  <2> DEFINE K(i) == KindAt(m, n, i)
  <2>1. S = {i \in 1 .. l : K(i) = "none" \/ K(i) = "link" \/ (K(i) = "file" /\ i < l)}
    BY <1>5
  <2>2. (\A i \in 1 .. l - 1 : K(i) = "dir") /\ K(l) = "link"
    BY <1>3, <1>4
  <2> HIDE DEF K, l, S
  <2>3. \A i \in 1 .. l : i = l \/ i \in 1 .. l - 1
    BY <1>1
  <2>4. l \in 1 .. l
    BY <1>1
  <2> QED BY <2>1, <2>2, <2>3, <2>4
<1>7. S # {}
  BY <1>6
<1>8. k \in S /\ (KindAt(m, n, k) = "link" => WalkTo(m, n, TRUE) = Ended("follow", Led(m, n, k)))
  BY <1>2, <1>7, WalkToStop
<1>9. k = l
  BY <1>6, <1>8
<1>10. Led(m, n, l) = f
  <2>1. f # Outside
    BY OutsideIs
  <2>2. Led(m, n, l) = LET next == Follow(parent(SubSeq(n, 1, l)), nodeAt(m, SubSeq(n, 1, l)).target)
                       IN  IF next = Outside THEN Outside ELSE next \o SubSeq(n, l + 1, Len(n))
    BY DEF Led
  <2>3. Led(m, n, l) = f \o SubSeq(n, l + 1, Len(n))
    BY <1>1, <2>1, <2>2
  <2>4. SubSeq(n, l + 1, Len(n)) = <<>>
    <3>1. n \in Seq(Components) /\ Len(n) \in Nat /\ Len(n) + 1 > Len(n)
      BY <1>1 DEF Clean
    <3> QED BY <3>1
  <2>5. f \o <<>> = f
    BY DEF Clean
  <2> QED BY <2>3, <2>4, <2>5
<1> HIDE DEF k, l, S
<1> QED BY <1>4, <1>8, <1>9, <1>10

\* One link leads to what is where it leads.
LEMMA OneHop ==
  ASSUME NEW m \in Goods, NEW n \in Clean, n # Root, nodeAt(m, n).kind = "link",
         NEW f \in Clean, f = Follow(parent(n), nodeAt(m, n).target), f # Root, nodeAt(m, f).kind \in {"file", "dir"}
  PROVE  Open(m, n) = Ended("ok", f)
<1> DEFINE w == WalkTo(m, n, TRUE)
           v == WalkTo(m, f, TRUE)
<1>1. m \in Memories /\ n \in Clear /\ f \in Clear
  BY GoodsAre DEF Clear
<1>2. w = Ended("follow", f)
  BY WalkAtLink
<1>3. v = Ended("ok", f)
  <2>1. nodeAt(m, f).kind # "none"
    OBVIOUS
  <2>2. nodeAt(m, parent(f)).kind = "dir"
    BY <2>1, ParentStands
  <2> QED BY <2>2, WalkThere
<1> HIDE DEF w, v
<1>4. w.err = "follow" /\ w.at = f /\ v.err # "follow"
  <2>1. \A u : u = Ended("follow", f) => u.err = "follow" /\ u.at = f
    BY EndedIs
  <2>2. \A u : u = Ended("ok", f) => u.err # "follow"
    BY EndedIs
  <2> QED BY <1>2, <1>3, <2>1, <2>2, Zenon
<1>5. LinkHops \in 0 .. LinkHops /\ From(m, LinkHops, n) = Open(m, n) /\ LinkHops # 0
  BY <1>1, OpenIs DEF LinkHops
<1>6. LinkHops - 1 \in 0 .. LinkHops /\ From(m, LinkHops, n) = From(m, LinkHops - 1, w.at)
  BY <1>1, <1>4, <1>5, FromIs DEF w
<1>7. From(m, LinkHops - 1, f) = v
  BY <1>1, <1>4, <1>6, FromIs DEF v
<1> QED BY <1>3, <1>4, <1>5, <1>6, <1>7

\* Below a target, a link of the source leads to where it led, below the target.
LEMMA RebasedLeads ==
  ASSUME NEW t \in Clean, NEW p \in Clean, p # Root, NEW to \in LinkTargets, NEW q \in Clean, q = Follow(parent(p), to)
  PROVE  Follow(parent(t \o p), Rebased(to, t)) = t \o q
<1> DEFINE d == parent(p)
           u == to.up
           e == Rebased(to, t)
<1>1. d \in Clean /\ parent(t \o p) = t \o d
  BY NameIs, JoinIs
<1>2. u \in Nat \cup {-1} /\ to.to \in Clean
  BY DEF LinkTargets
<1>3. CASE u = -1
  <2>1. e = Absolute(t \o to.to) /\ q = to.to
    BY <1>3 DEF Rebased, Follow
  <2>2. e.up = -1 /\ e.to = t \o to.to
    <3> HIDE DEF e
    <3> QED BY <2>1 DEF Absolute
  <2> HIDE DEF e
  <2> QED BY <2>1, <2>2 DEF Follow, e
<1>4. CASE u # -1
  <2>1. e = to /\ u \in Nat
    BY <1>2, <1>4 DEF Rebased
  <2> HIDE DEF d
  <2>2. q = IF u > Len(d) THEN Outside ELSE SubSeq(d, 1, Len(d) - u) \o to.to
    BY <1>4 DEF Follow, d
  <2>3. u <= Len(d) /\ q = SubSeq(d, 1, Len(d) - u) \o to.to
    <3>1. ~(u > Len(d))
      BY <2>2, OutsideIs
    <3>2. Len(d) \in Nat
      BY <1>1 DEF Clean
    <3> DEFINE l == Len(d)
    <3>3. l \in Nat /\ u \in Nat /\ ~(u > l)
      BY <2>1, <3>1, <3>2
    <3> HIDE DEF l, u
    <3>4. u <= l
      BY <3>3
    <3> QED BY <2>2, <3>1, <3>4 DEF l
  <2>4. Follow(t \o d, to) = IF u > Len(t \o d) THEN Outside ELSE SubSeq(t \o d, 1, Len(t \o d) - u) \o to.to
    BY <1>4 DEF Follow
  <2>5. Len(t \o d) = Len(t) + Len(d) /\ Len(t) \in Nat /\ Len(d) \in Nat
    BY <1>1 DEF Clean
  <2>6. ~(u > Len(t \o d))
    BY <2>1, <2>3, <2>5
  <2> DEFINE k == Len(d) - u
  <2>7. k \in 0 .. Len(d) /\ Len(t \o d) - u = Len(t) + k
    <3> DEFINE l == Len(d)
               h == Len(t)
    <3>1. u \in Nat /\ u <= l /\ l \in Nat /\ h \in Nat /\ Len(t \o d) = h + l /\ k = l - u
      BY <2>1, <2>3, <2>5
    <3> HIDE DEF l, h, k, u
    <3>2. k \in 0 .. l /\ (h + l) - u = h + k
      BY <3>1
    <3> QED BY <3>1, <3>2 DEF l, h, u
  <2> HIDE DEF k
  <2>8. SubSeq(t \o d, 1, Len(t) + k) = t \o SubSeq(d, 1, k)
    <3> DEFINE a == SubSeq(t \o d, 1, Len(t) + k)
               b == t \o SubSeq(d, 1, k)
    <3>1. t \in Seq(Components) /\ d \in Seq(Components) /\ t \o d \in Seq(Components) /\ Len(t) + k \in 0 .. Len(t \o d) /\ k \in Nat
      BY <1>1, <2>5, <2>7 DEF Clean
    <3>2. a \in Seq(Components) /\ Len(a) = Len(t) + k /\ \A i \in 1 .. Len(t) + k : a[i] = (t \o d)[i]
      BY <3>1, BeginningIs
    <3>3. SubSeq(d, 1, k) \in Seq(Components) /\ Len(SubSeq(d, 1, k)) = k /\ \A i \in 1 .. k : SubSeq(d, 1, k)[i] = d[i]
      BY <2>7, <3>1, BeginningIs
    <3>4. b \in Seq(Components) /\ Len(b) = Len(t) + k
          /\ (\A i \in 1 .. Len(t) : b[i] = t[i]) /\ (\A i \in 1 .. k : b[Len(t) + i] = SubSeq(d, 1, k)[i])
      BY <3>1, <3>3, JoinedElements
    <3>5. (\A i \in 1 .. Len(t) : (t \o d)[i] = t[i]) /\ (\A i \in 1 .. Len(d) : (t \o d)[Len(t) + i] = d[i])
      BY <3>1, JoinedElements
    <3> HIDE DEF a, b
    <3>6. ASSUME NEW i \in 1 .. Len(a) PROVE a[i] = b[i]
      <4>1. CASE i <= Len(t)
        <5>1. i \in 1 .. Len(t) /\ i \in 1 .. Len(t) + k
          BY <2>5, <3>1, <3>2, <4>1
        <5> QED BY <3>2, <3>4, <3>5, <5>1
      <4>2. CASE i > Len(t)
        <5>1. i - Len(t) \in 1 .. k /\ i - Len(t) \in 1 .. Len(d) /\ i = Len(t) + (i - Len(t)) /\ i \in 1 .. Len(t) + k
          BY <2>5, <2>7, <3>1, <3>2, <4>2
        <5> DEFINE j == i - Len(t)
        <5>2. j \in 1 .. k /\ j \in 1 .. Len(d) /\ i = Len(t) + j
          BY <5>1
        <5> HIDE DEF j
        <5>3. a[i] = d[j] /\ b[i] = d[j]
          BY <3>2, <3>3, <3>4, <3>5, <5>1, <5>2
        <5> QED BY <5>3
      <4> QED BY <2>5, <3>2, <4>1, <4>2
    <3>7. Len(a) = Len(b)
      BY <3>2, <3>4
    <3>8. a = b
      BY <3>2, <3>4, <3>6, <3>7
    <3> QED BY <3>8 DEF a, b
  <2>9. (t \o SubSeq(d, 1, k)) \o to.to = t \o (SubSeq(d, 1, k) \o to.to)
    <3>1. SubSeq(d, 1, k) \in Seq(Components)
      BY <1>1, <2>7, BeginningIs DEF Clean
    <3> DEFINE g == SubSeq(d, 1, k)
    <3>2. g \in Seq(Components) /\ t \in Seq(Components) /\ to.to \in Seq(Components)
      BY <1>2, <3>1 DEF Clean
    <3> HIDE DEF g
    <3>3. (t \o g) \o to.to = t \o (g \o to.to)
      <4> DEFINE z == to.to
      <4> HIDE DEF z
      <4>1. \A a, b, c \in Seq(Components) : (a \o b) \o c = a \o (b \o c)
        BY ConcatAssociative
      <4>2. (t \o g) \o z = t \o (g \o z)
        BY <3>2, <4>1, Zenon DEF z
      <4> QED BY <4>2 DEF z
    <3> QED BY <3>3 DEF g
  <2>10. Follow(t \o d, to) = t \o q
    BY <2>3, <2>4, <2>6, <2>7, <2>8, <2>9 DEF k
  <2> QED BY <1>1, <2>1, <2>10 DEF e, d
<1> QED BY <1>3, <1>4

\* Every element of a finite set is listed.
LEMMA ListedAll ==
  ASSUME NEW T, IsFiniteSet(T), NEW x \in T
  PROVE  \E j \in 1 .. Len(Seqs!SetToSeq(T)) : Seqs!SetToSeq(T)[j] = x
<1> DEFINE n == Cardinality(T)
           g == Seqs!SetToSeq(T)
<1>1. n \in Nat /\ ExistsBijection(1 .. n, T)
  BY FS_CardinalityType
<1>2. PICK f : f \in Bijection(1 .. n, T)
  BY <1>1 DEF ExistsBijection
<1>3. f \in [1 .. n -> T] /\ Seqs!IsInjective(f)
  BY <1>2 DEF Bijection, Injection, IsInjective, Seqs!IsInjective
<1>a. Seqs!Cardinality(T) = n
  BY DEF Seqs!Cardinality, Cardinality
<1> HIDE DEF n
<1>4. g \in [1 .. n -> T] /\ Seqs!IsInjective(g)
  BY <1>3, <1>a, Zenon DEF Seqs!SetToSeq
<1> HIDE DEF g
<1>5. g \in Injection(1 .. n, T)
  BY <1>4 DEF Injection, IsInjective, Seqs!IsInjective
<1>6. Cardinality(1 .. n) = Cardinality(T)
  <2>1. Cardinality(1 .. n) = n
    BY <1>1, FS_Interval
  <2> QED BY <2>1 DEF n
<1>7. g \in Surjection(1 .. n, T)
  BY <1>5, <1>6, FS_Injection
<1>8. \E j \in 1 .. n : g[j] = x
  BY <1>7 DEF Surjection
<1>9. Len(g) = n
  BY <1>1, <1>4
<1> QED BY <1>8, <1>9 DEF g

\* A target that meets no links and whose files are different is ready.
LEMMA MeetsReady ==
  ASSUME NEW m \in Goods, NEW target \in Clean, NEW source \in Sources,
         ~MeetsLink(m, target, source), ~SharesFiles(m, target, source)
  PROVE  m \in Ready(Dirs(target, source), Held(target, source, "file"))
<1> DEFINE D == Dirs(target, source)
           F == Held(target, source, "file")
<1>1. Straight(D, F, m)
  <2> SUFFICES ASSUME NEW x \in D \cup F PROVE nodeAt(m, x).kind # "link"
    BY DEF Straight
  <2>1. CASE x \in Beginnings(target)
    BY <2>1 DEF Beginnings, MeetsLink
  <2>2. CASE x \notin Beginnings(target)
    <3>1. PICK q \in Paths : x = target \o q /\ source[q].kind \in {"dir", "file"}
      BY <2>2 DEF Dirs, Held
    <3>2. q \in Provided(source)
      BY <3>1 DEF Provided
    <3> QED BY <3>1, <3>2 DEF MeetsLink
  <2> QED BY <2>1, <2>2
<1>2. Unshared(F, m)
  <2> SUFFICES ASSUME NEW x \in F, NEW y \in F, nodeAt(m, x).kind = "file", nodeAt(m, y).kind = "file",
                      m.at[x] = m.at[y]
               PROVE  x = y
    BY DEF Unshared
  <2>1. PICK p \in Paths : x = target \o p /\ source[p].kind = "file"
    BY DEF Held
  <2>2. PICK q \in Paths : y = target \o q /\ source[q].kind = "file"
    BY DEF Held
  <2>3. p \in Provided(source) /\ q \in Provided(source)
    BY <2>1, <2>2 DEF Provided
  <2>4. p = q
    BY <2>1, <2>2, <2>3 DEF SharesFiles
  <2> QED BY <2>1, <2>2, <2>4
<1> QED BY <1>1, <1>2 DEF Ready

\* Nothing below a name, which no link is on the way to.
Bare(m, t) == /\ \A p \in Paths : Prefix(t, p) /\ p # t => m.at[p] = 0
              /\ Direct(m, t)

\* A name and one below it.
LEMMA JoinBegins ==
  ASSUME NEW t \in Clean, NEW q \in Clean, q # Root
  PROVE  Prefix(t, t \o q) /\ t \o q # t /\ t \o q \in Clean /\ t \o q # Root
<1>1. t \in Seq(Components) /\ q \in Seq(Components)
  BY DEF Clean
<1>2. /\ t \o q \in Seq(Components) /\ Len(t) \in Nat /\ Len(q) \in Nat /\ Len(t \o q) = Len(t) + Len(q)
      /\ \A i \in 1 .. Len(t) : (t \o q)[i] = t[i]
  BY <1>1, JoinedElements
<1>3. Len(q) \in Nat \ {0}
  BY NameIs
<1>4. Len(t) <= Len(t \o q) /\ Len(t) # Len(t \o q)
  BY <1>2, <1>3
<1>5. Prefix(t, t \o q)
  BY <1>1, <1>2, <1>4, PrefixIs
<1> QED BY <1>4, <1>5, JoinIs

\* A bare target is ready for every source.
LEMMA BareReady ==
  ASSUME NEW m \in Goods, NEW target \in Clean, NEW source \in Sources, Bare(m, target)
  PROVE  m \in Ready(Dirs(target, source), Held(target, source, "file"))
<1> DEFINE D == Dirs(target, source)
           F == Held(target, source, "file")
<1>1. ASSUME NEW q \in Paths PROVE nodeAt(m, target \o q).kind = "none"
  <2>1. Prefix(target, target \o q) /\ target \o q # target /\ target \o q # Root
    BY PlacesAre, JoinBegins
  <2>2. CASE target \o q \in Places
    <3>1. target \o q \in Paths
      BY <2>1, <2>2, PlacesAre
    <3>2. m.at[target \o q] = 0
      BY <2>1, <3>1 DEF Bare
    <3> QED BY <3>2 DEF nodeAt, Nothing
  <2>3. CASE target \o q \notin Places
    BY <2>3 DEF nodeAt, Nothing
  <2> QED BY <2>2, <2>3
<1>2. Straight(D, F, m)
  <2> SUFFICES ASSUME NEW x \in D \cup F PROVE nodeAt(m, x).kind # "link"
    BY DEF Straight
  <2>1. CASE x \in Beginnings(target)
    BY <2>1 DEF Beginnings, Bare, Direct, KindAt
  <2>2. CASE x \notin Beginnings(target)
    <3>1. PICK q \in Paths : x = target \o q
      BY <2>2 DEF Dirs, Held
    <3> QED BY <1>1, <3>1
  <2> QED BY <2>1, <2>2
<1>3. Unshared(F, m)
  <2> SUFFICES ASSUME NEW x \in F PROVE nodeAt(m, x).kind # "file"
    BY DEF Unshared
  <2>1. PICK q \in Paths : x = target \o q
    BY DEF Held
  <2> QED BY <1>1, <2>1
<1> QED BY <1>2, <1>3 DEF Ready

\* The calls of a mount, of which those that come first are a series of their own.
LEMMA ThroughTail ==
  ASSUME NEW a \in Seq(Calls), NEW b \in Seq(Calls), NEW m, NEW s, Through(s, m, a \o b)
  PROVE  /\ Through(s, m, a)
         /\ Through([k \in 0 .. Len(b) |-> s[Len(a) + k]], s[Len(a)], b)
         /\ [k \in 0 .. Len(b) |-> s[Len(a) + k]][Len(b)] = s[Len(a \o b)]
<1> DEFINE x == Len(a)
           y == Len(b)
           c == a \o b
           r == [k \in 0 .. y |-> s[x + k]]
<1>1. /\ x \in Nat /\ y \in Nat /\ Len(c) = x + y
      /\ \A i \in 1 .. x : c[i] = a[i]
      /\ \A i \in 1 .. y : c[x + i] = b[i]
  BY JoinedElements
<1>2. s[0] = m /\ (\A k \in 0 .. Len(c) : s[k] \in Goods) /\ \A k \in 1 .. Len(c) : Apply(s[k - 1], c[k]) = Answer(s[k], "ok")
  BY DEF Through
<1> HIDE DEF c
<1>3. Through(s, m, a)
  <2> HIDE DEF x, y
  <2>1. \A k \in 0 .. x : k \in 0 .. Len(c)
    BY <1>1
  <2>2. \A k \in 1 .. x : k \in 1 .. Len(c)
    BY <1>1
  <2>3. s[0] = m /\ (\A k \in 0 .. x : s[k] \in Goods) /\ \A k \in 1 .. x : Apply(s[k - 1], a[k]) = Answer(s[k], "ok")
    BY <1>1, <1>2, <2>1, <2>2
  <2> QED BY <2>3 DEF Through, x
<1>4. Through(r, s[x], b)
  <2>1. r[0] = s[x]
    BY <1>1
  <2>2. ASSUME NEW k \in 0 .. y PROVE r[k] \in Goods
    <3>1. x + k \in 0 .. Len(c) /\ r[k] = s[x + k]
      BY <1>1
    <3> QED BY <1>2, <3>1
  <2>3. ASSUME NEW k \in 1 .. y PROVE Apply(r[k - 1], b[k]) = Answer(r[k], "ok")
    <3>1. x + k \in 1 .. Len(c) /\ k \in 0 .. y /\ k - 1 \in 0 .. y /\ x + (k - 1) = (x + k) - 1
      BY <1>1
    <3>2. r[k] = s[x + k] /\ r[k - 1] = s[(x + k) - 1]
      BY <3>1
    <3> HIDE DEF r
    <3> QED BY <1>1, <1>2, <3>1, <3>2
  <2> HIDE DEF r, x
  <2> QED BY <2>1, <2>2, <2>3 DEF Through
<1>5. r[y] = s[Len(c)]
  BY <1>1
<1> QED BY <1>3, <1>4, <1>5 DEF c

\* A name is reached from the root when no link is on the way to what it is in.
LEMMA DirectReached ==
  ASSUME NEW m \in Goods, NEW n \in Clean, n # Root, Direct(m, parent(n))
  PROVE  Reached(m, Root, Root, n) /\ Root \o n = n
<1>1. Leads(m, Root, Root) /\ Root \in Clean /\ \A q \in Clean : Root \o q = q
  BY RootLeads
<1>2. parent(n) \in Clean
  BY NameIs
<1>3. Root \o parent(n) = parent(n) /\ Root \o n = n
  BY <1>1, <1>2
<1>4. Direct(m, Root \o parent(n))
  BY <1>3
<1> QED BY <1>1, <1>3, <1>4 DEF Reached, Below

\* No link is on the way to a target that is not led away, nor to one that is no link.
LEMMA DirectDown ==
  ASSUME NEW m, NEW n \in Clean, n # Root
  PROVE  /\ ~LedAway(m, n) => Direct(m, parent(n))
         /\ Direct(m, parent(n)) /\ nodeAt(m, n).kind # "link" => Direct(m, n)
<1> DEFINE d == parent(n)
           l == Len(n)
<1>1. d \in Clean /\ l \in Nat \ {0} /\ Len(d) = l - 1 /\ \A i \in 1 .. l - 1 : SubSeq(d, 1, i) = SubSeq(n, 1, i)
  BY NameIs
<1>2. SubSeq(n, 1, l) = n
  BY DEF Clean
<1>3. LedAway(m, n) <=> \E i \in 1 .. l - 1 : nodeAt(m, SubSeq(n, 1, i)).kind = "link"
  BY DEF LedAway
<1>4. Direct(m, d) <=> \A i \in 1 .. l - 1 : nodeAt(m, SubSeq(d, 1, i)).kind # "link"
  BY <1>1 DEF Direct, KindAt
<1>5. Direct(m, n) <=> \A i \in 1 .. l : nodeAt(m, SubSeq(n, 1, i)).kind # "link"
  BY DEF Direct, KindAt
<1> HIDE DEF d, l
<1>6. \A i \in 1 .. l : i = l \/ i \in 1 .. l - 1
  BY <1>1
<1>7. ~LedAway(m, n) => Direct(m, d)
  BY <1>1, <1>3, <1>4
<1>8. Direct(m, d) /\ nodeAt(m, n).kind # "link" => Direct(m, n)
  BY <1>1, <1>2, <1>4, <1>5, <1>6
<1> QED BY <1>7, <1>8 DEF d

\* The root, found without following a link at the end.
LEMMA RootFound ==
  ASSUME NEW m \in Goods, NEW r, r = Lstat(m, Root), r.err \in {"ok", "notexist"}
  PROVE  r.err = "ok" /\ r.at = Root
<1>1. m \in Memories
  BY GoodsAre
<1>2. Root \in Clean /\ Stops(m, Root, FALSE) = {}
  BY PlacesAre DEF Stops, Root
<1>3. WalkTo(m, Root, FALSE) = Ended("ok", Root)
  BY <1>2, WalkToEnd
<1> DEFINE w == WalkTo(m, Root, FALSE)
<1>4. w.err = "ok" /\ w.at = Root
  <2>1. \A u : u = Ended("ok", Root) => u.err = "ok" /\ u.at = Root
    BY EndedIs
  <2> QED BY <1>3, <2>1, Zenon
<1>5. \A n \in {Root} : WalkTo(m, n, FALSE).err # "follow"
  BY <1>4
<1>6. r = resolveLocked(m, Root, FALSE)
  BY DEF Lstat
<1>7. \E n \in {Root} : r = WalkTo(m, n, FALSE)
  <2>1. {Root} \in SUBSET Clean /\ Root \in {Root} /\ FALSE \in BOOLEAN
    BY <1>2
  <2> HIDE DEF w
  <2>2. r.err \in {"ok", "notexist", "notdir"}
    OBVIOUS
  <2> QED BY <1>1, <1>5, <1>6, <2>1, <2>2, ResolveReaches
<1> QED BY <1>4, <1>7

\* What a name lists when it leads to itself.
LEMMA ReadDirIs ==
  ASSUME NEW m, NEW n, Open(m, n).err = "ok"
  PROVE  ReadDir(m, n) = Entries(m, Open(m, n).at)
  BY DEF ReadDir, Then

\* A target without content, to which no link leads, is bare.
LEMMA FreeBare ==
  ASSUME NEW m \in Goods, NEW target \in Clean, ~LedAway(m, target), ~hasContent(m, target),
         NEW found, found = Lstat(m, target), found.err \in {"ok", "notexist"}
  PROVE  Bare(m, target)
<1>1. found.err = "ok" => nodeAt(m, found.at).kind = "dir" /\ ReadDir(m, target) = {}
  BY DEF hasContent, Then
<1>2. ASSUME NEW p \in Paths, Prefix(target, p), p # target, m.at[p] # 0
      PROVE  nodeAt(m, target).kind = "dir" /\ Entries(m, target) # {}
  BY <1>2, Ancestors
<1>3. CASE target = Root
  <2>1. found.err = "ok" /\ found.at = Root
    BY <1>3, RootFound
  <2>2. ReadDir(m, Root) = Entries(m, Root)
    <3>1. Open(m, Root) = Ended("ok", Root)
      BY RootLeads DEF Leads
    <3>2. \A u : u = Ended("ok", Root) => u.err = "ok" /\ u.at = Root
      BY EndedIs
    <3>3. Open(m, Root).err = "ok" /\ Open(m, Root).at = Root
      BY <3>1, <3>2, Zenon
    <3> QED BY <3>3, ReadDirIs
  <2>3. Entries(m, target) = {}
    BY <1>1, <1>3, <2>1, <2>2
  <2>4. Direct(m, target)
    BY <1>3 DEF Direct, Root
  <2> QED BY <1>2, <2>3, <2>4 DEF Bare
<1>4. CASE target # Root
  <2>1. Direct(m, parent(target))
    BY <1>4, DirectDown
  <2>2. Reached(m, Root, Root, target) /\ Root \o target = target
    BY <1>4, <2>1, DirectReached
  <2>3. /\ nodeAt(m, parent(Root \o target)).kind = "dir" =>
             /\ nodeAt(m, Root \o target).kind = "none" => Lstat(m, Root \o target).err = "notexist"
             /\ nodeAt(m, Root \o target).kind # "none" =>
                  Lstat(m, Root \o target).err = "ok" /\ Lstat(m, Root \o target).at = Root \o target
        /\ nodeAt(m, parent(Root \o target)).kind # "dir" =>
             Lstat(m, Root \o target).err # "ok" /\ nodeAt(m, Root \o target).kind = "none"
    <3>1. Reached(m, Root, Root, target)
      BY <2>2
    <3> QED BY <3>1, ReachedIs
  <2>4. /\ found.err = "ok" => nodeAt(m, target).kind # "none" /\ found.at = target
        /\ found.err = "notexist" => nodeAt(m, target).kind = "none"
    BY <2>2, <2>3
  <2>5. CASE found.err = "notexist"
    <3>1. nodeAt(m, target).kind = "none"
      BY <2>4, <2>5
    <3>2. Direct(m, target)
      BY <1>4, <2>1, <3>1, DirectDown
    <3> QED BY <1>2, <3>1, <3>2 DEF Bare
  <2>6. CASE found.err = "ok"
    <3>1. nodeAt(m, target).kind = "dir" /\ ReadDir(m, target) = {}
      BY <1>1, <2>4, <2>6
    <3>2. Direct(m, target)
      BY <1>4, <2>1, <3>1, DirectDown
    <3>3. Open(m, target).err = "ok" /\ Open(m, target).at = target
      <4>1. Reached(m, Root, Root, target) /\ Direct(m, Root \o target) /\ nodeAt(m, Root \o target).kind # "none"
        BY <2>2, <3>1, <3>2
      <4>2. Open(m, Root \o target).err = "ok" /\ Open(m, Root \o target).at = Root \o target
        BY <4>1, ReachedOpens
      <4> QED BY <2>2, <4>2
    <3>4. Entries(m, target) = {}
      BY <3>1, <3>3, ReadDirIs
    <3> QED BY <1>2, <3>2, <3>4 DEF Bare
  <2> QED BY <2>5, <2>6
<1> QED BY <1>3, <1>4

\* What a removal that succeeds leaves.
LEMMA Cleared ==
  ASSUME NEW m \in Goods, NEW n \in Clean, n # Root, Direct(m, parent(n)), NEW r, r = removeAll(m, n), r.err = "ok"
  PROVE  /\ r.fs \in Goods
         /\ \A p \in Paths : Prefix(n, p) => r.fs.at[p] = 0
         /\ \A p \in Places : m.at[p] = 0 => r.fs.at[p] = 0
         /\ \A y : nodeAt(r.fs, y).kind \in {"none", nodeAt(m, y).kind}
         /\ nodeAt(r.fs, n).kind = "none"
<1>1. Reached(m, Root, Root, n) /\ Root \o n = n
  BY DirectReached
<1>2. \A s : s = removeAll(m, Root \o n) =>
        /\ nodeAt(m, Root \o n).kind # "none" => s = Answer(Gone(m, Under(m, Root \o n)), "ok")
        /\ nodeAt(m, Root \o n).kind = "none" /\ s.err = "ok" => s = Answer(m, "ok")
  <2>1. Reached(m, Root, Root, n)
    BY <1>1
  <2> QED BY <2>1, RemoveAllDoes
<1>3. /\ nodeAt(m, n).kind # "none" => r.fs = Gone(m, Under(m, n))
      /\ nodeAt(m, n).kind = "none" => r.fs = m
  <2>1. r = removeAll(m, Root \o n)
    BY <1>1
  <2>2. /\ nodeAt(m, n).kind # "none" => r = Answer(Gone(m, Under(m, n)), "ok")
        /\ nodeAt(m, n).kind = "none" => r = Answer(m, "ok")
    BY <1>1, <1>2, <2>1
  <2>3. \A k : r = Answer(k, "ok") => r.fs = k
    BY AnswerIs
  <2> QED BY <2>2, <2>3
<1>4. r.fs \in Goods
  <2>1. removeAll(m, n) \in Replies
    BY RemoveAllGood
  <2> QED BY <2>1 DEF Replies
<1>5. m \in Tables /\ m \in Memories /\ Counted(m)
  BY GoodsAre
<1>6. CASE nodeAt(m, n).kind = "none"
  <2>1. r.fs = m
    BY <1>3, <1>6
  <2>2. ASSUME NEW p \in Paths, Prefix(n, p) PROVE m.at[p] = 0
    <3> SUFFICES ASSUME m.at[p] # 0 PROVE FALSE
      OBVIOUS
    <3>1. CASE p = n
      <4>1. nodeAt(m, p).kind \in {"file", "dir", "link"}
        BY <1>5, PlacesAre, NamedIs
      <4> QED BY <1>6, <3>1, <4>1
    <3>2. CASE p # n
      <4>1. nodeAt(m, n).kind = "dir"
        BY <2>2, <3>2, Ancestors
      <4> QED BY <1>6, <4>1
    <3> QED BY <3>1, <3>2
  <2> QED BY <1>4, <1>6, <2>1, <2>2
<1>7. CASE nodeAt(m, n).kind # "none"
  <2> DEFINE s == Under(m, n)
             k == r.fs
  <2>1. k = Gone(m, s) /\ s \in SUBSET Places
    BY <1>3, <1>7 DEF Under, Places
  <2>2. \A p \in Paths : p \in s <=> Prefix(n, p) /\ m.at[p] # 0
    BY DEF Under, Within, Prefix
  <2>3. n \in Paths /\ Prefix(n, n)
    <3>1. n \in Places
      BY <1>5, <1>7, NodeAt
    <3>2. Prefix(n, n)
      BY PrefixOrder DEF Clean
    <3> QED BY <3>1, <3>2, PlacesAre
  <2> HIDE DEF s, k
  <2>4. /\ \A p \in Places : k.at[p] = IF p \in s THEN 0 ELSE m.at[p]
        /\ \A p \in Places : p \notin s => nodeAt(k, p).kind = nodeAt(m, p).kind
    BY <1>5, <2>1, GoneIs
  <2>5. \A p \in Paths : Prefix(n, p) => k.at[p] = 0
    BY <2>2, <2>4, PlacesAre
  <2>6. \A p \in Places : m.at[p] = 0 => k.at[p] = 0
    BY <2>4
  <2>7. Nothing.kind = "none"
    BY NothingIs
  <2>8. \A y : (y \in Places => k.at[y] = 0) => nodeAt(k, y).kind = "none"
    BY <2>7 DEF nodeAt
  <2>9. \A y : nodeAt(k, y).kind \in {"none", nodeAt(m, y).kind}
    BY <2>4, <2>8
  <2>10. nodeAt(k, n).kind = "none"
    BY <2>3, <2>5, <2>8
  <2> QED BY <1>4, <2>5, <2>6, <2>9, <2>10 DEF k
<1> QED BY <1>6, <1>7

\* A target that is cleared is bare.
LEMMA ClearedBare ==
  ASSUME NEW m \in Goods, NEW target \in Clean, target # Root, ~LedAway(m, target),
         NEW r, r = removeAll(m, target), r.err = "ok"
  PROVE  r.fs \in Goods /\ Bare(r.fs, target)
<1>1. Direct(m, parent(target))
  BY DirectDown
<1>2. /\ r.fs \in Goods
      /\ \A p \in Paths : Prefix(target, p) => r.fs.at[p] = 0
      /\ \A y : nodeAt(r.fs, y).kind \in {"none", nodeAt(m, y).kind}
      /\ nodeAt(r.fs, target).kind = "none"
  BY <1>1, Cleared
<1> DEFINE k == r.fs
<1> HIDE DEF k
<1>3. Direct(k, parent(target))
  BY <1>1, <1>2 DEF Direct, KindAt, k
<1>4. Direct(k, target)
  BY <1>2, <1>3, DirectDown DEF k
<1> QED BY <1>2, <1>4 DEF Bare, k

\* What the root lists.
LEMMA RootLists ==
  ASSUME NEW m \in Goods
  PROVE  ReadDir(m, Root) = Entries(m, Root)
<1>1. Open(m, Root) = Ended("ok", Root)
  BY RootLeads DEF Leads
<1>2. \A u : u = Ended("ok", Root) => u.err = "ok" /\ u.at = Root
  BY EndedIs
<1>3. Open(m, Root).err = "ok" /\ Open(m, Root).at = Root
  BY <1>1, <1>2, Zenon
<1> QED BY <1>3, ReadDirIs

\* Without what the root lists there is nothing below it.
LEMMA EmptyBare ==
  ASSUME NEW m \in Goods, Entries(m, Root) = {}
  PROVE  Bare(m, Root)
<1>1. ASSUME NEW p \in Paths, m.at[p] # 0 PROVE FALSE
  <2>1. p \in Clean /\ p # Root
    BY PlacesAre
  <2>2. Root \in Clean /\ Prefix(Root, p)
    <3>1. Prefix(<<>>, p)
      BY <2>1, PrefixOrder DEF Clean
    <3> QED BY <3>1, PlacesAre DEF Root
  <2>3. Entries(m, Root) # {}
    BY <1>1, <2>1, <2>2, Ancestors
  <2> QED BY <2>3
<1>2. Direct(m, Root)
  BY DEF Direct, Root
<1> QED BY <1>1, <1>2 DEF Bare

\* A root that is cleared is bare.
LEMMA RootCleared ==
  ASSUME NEW m \in Goods, NEW calls, calls = clearCalls(m, Root), NEW s, Through(s, m, calls)
  PROVE  s[Len(calls)] \in Goods /\ Bare(s[Len(calls)], Root)
<1> DEFINE n == Len(calls)
           T == {Clearing(p) : p \in Entries(m, Root)}
           Fine(k) == /\ s[k] \in Goods
                      /\ \A p \in Places : m.at[p] = 0 => s[k].at[p] = 0
                      /\ \A j \in 1 .. k : s[k].at[calls[j].name] = 0
           K == {k \in 0 .. n : Fine(k)}
<1>1. calls = Seqs!SetToSeq(T)
  <2>1. calls = Seqs!SetToSeq({[op |-> "removeAll", name |-> p, node |-> Nothing] : p \in ReadDir(m, Root)})
    BY DEF clearCalls
  <2> QED BY <2>1, RootLists DEF Clearing
<1>2. IsFiniteSet(T)
  <2> DEFINE R == Entries(m, Root)
             f == [p \in R |-> Clearing(p)]
  <2>1. R \subseteq Paths /\ IsFiniteSet(Paths)
    BY MemoryAssumption DEF Entries
  <2>2. IsFiniteSet(R)
    BY <2>1, FS_Subset
  <2>3. f \in [R -> T] /\ \A t \in T : \E p \in R : f[p] = t
    OBVIOUS
  <2>4. f \in Surjection(R, T)
    <3> HIDE DEF f, R, T
    <3> QED BY <2>3 DEF Surjection
  <2> HIDE DEF f, R, T
  <2> QED BY <2>2, <2>4, FS_Surjection
<1>3. calls \in Seq(T)
  <2> HIDE DEF T
  <2> QED BY <1>1, <1>2, ListedIs
<1>4. n \in Nat /\ \A j \in 1 .. n : calls[j] \in T
  <2> HIDE DEF T
  <2> QED BY <1>3
<1>5. \A p \in Entries(m, Root) : \E j \in 1 .. n : calls[j] = Clearing(p)
  <2> SUFFICES ASSUME NEW p \in Entries(m, Root) PROVE \E j \in 1 .. n : calls[j] = Clearing(p)
    OBVIOUS
  <2>1. Clearing(p) \in T
    OBVIOUS
  <2> HIDE DEF T
  <2> QED BY <1>1, <1>2, <2>1, ListedAll
<1>6. \A j \in 1 .. n : calls[j].op = "removeAll" /\ calls[j].name \in Paths /\ parent(calls[j].name) = Root
  <2> SUFFICES ASSUME NEW j \in 1 .. n
               PROVE  calls[j].op = "removeAll" /\ calls[j].name \in Paths /\ parent(calls[j].name) = Root
    OBVIOUS
  <2>1. PICK p \in Entries(m, Root) : calls[j] = Clearing(p)
    BY <1>4
  <2>2. calls[j].op = "removeAll" /\ calls[j].name = p
    BY <2>1, CallsHave
  <2> QED BY <2>2 DEF Entries
<1>7. s[0] = m /\ \A k \in 1 .. n : Apply(s[k - 1], calls[k]) = Answer(s[k], "ok")
  BY DEF Through
<1> HIDE DEF n, T
<1>8. 0 \in K
  <2>1. \A j \in 1 .. 0 : FALSE
    OBVIOUS
  <2> QED BY <1>4, <1>7, <2>1
<1>9. ASSUME NEW k \in 0 .. n - 1, k \in K PROVE k + 1 \in K
  <2> DEFINE a == s[k]
             b == s[k + 1]
             x == calls[k + 1].name
             r == removeAll(a, x)
  <2>1. k \in Nat /\ k + 1 \in 1 .. n /\ (k + 1) - 1 = k /\ k + 1 \in 0 .. n
    BY <1>4
  <2>2. Fine(k)
    BY <1>9
  <2>3. x \in Clean /\ x # Root /\ x \in Paths /\ parent(x) = Root /\ calls[k + 1].op = "removeAll"
    BY <1>6, <2>1, PlacesAre
  <2>4. r = Answer(b, "ok")
    <3>1. Apply(a, calls[k + 1]) = Answer(b, "ok")
      BY <1>7, <2>1
    <3>2. Apply(a, calls[k + 1]) = removeAll(a, x)
      BY <2>3 DEF Apply
    <3> QED BY <3>1, <3>2
  <2> HIDE DEF a, b, x, r
  <2>5. r.err = "ok" /\ r.fs = b
    BY <2>4, AnswerIs
  <2>6. a \in Goods /\ Direct(a, parent(x))
    <3>1. Direct(a, Root)
      BY DEF Direct, Root
    <3> QED BY <2>2, <2>3, <3>1 DEF a
  <2>7. /\ b \in Goods /\ (\A p \in Paths : Prefix(x, p) => b.at[p] = 0)
        /\ \A p \in Places : a.at[p] = 0 => b.at[p] = 0
    BY <2>3, <2>5, <2>6, Cleared DEF r
  <2>8. b.at[x] = 0
    <3>1. Prefix(x, x)
      BY <2>3, PrefixOrder DEF Clean
    <3> QED BY <2>3, <2>7, <3>1
  <2>9. ASSUME NEW j \in 1 .. k + 1 PROVE b.at[calls[j].name] = 0
    <3>1. CASE j = k + 1
      BY <2>8, <3>1 DEF x
    <3>2. CASE j # k + 1
      <4>1. n \in Nat /\ k <= n - 1 /\ j \in 1 .. k + 1
        BY <1>4, <2>1
      <4>2. j \in 1 .. k /\ j \in 1 .. n
        BY <2>1, <3>2, <4>1
      <4>3. a.at[calls[j].name] = 0 /\ calls[j].name \in Places
        BY <1>6, <2>2, <4>2, PlacesAre DEF a
      <4> QED BY <2>7, <4>3
    <3> QED BY <3>1, <3>2
  <2>10. Fine(k + 1)
    BY <2>1, <2>2, <2>7, <2>9 DEF a, b
  <2> QED BY <2>1, <2>10
<1>10. Fine(n)
  <2> HIDE DEF K
  <2>1. 0 .. n \subseteq K
    BY <1>4, <1>8, <1>9, InductTo
  <2>2. n \in K
    BY <1>4, <2>1
  <2> QED BY <2>2 DEF K
<1> DEFINE e == s[n]
<1> HIDE DEF K
<1>11. Entries(e, Root) = {}
  <2> SUFFICES ASSUME NEW p \in Entries(e, Root) PROVE FALSE
    OBVIOUS
  <2>1. p \in Paths /\ parent(p) = Root /\ e.at[p] # 0 /\ p \in Places
    BY PlacesAre DEF Entries
  <2>2. m.at[p] # 0
    BY <1>10, <2>1
  <2>3. p \in Entries(m, Root)
    BY <2>1, <2>2 DEF Entries
  <2>4. PICK j \in 1 .. n : calls[j] = Clearing(p)
    BY <1>5, <2>3
  <2>5. calls[j].name = p
    BY <2>4, CallsHave
  <2> QED BY <1>10, <2>1, <2>5
<1>12. e \in Goods /\ Bare(e, Root)
  BY <1>10, <1>11, EmptyBare
<1> QED BY <1>12 DEF e, n

\* A copy that succeeds on a filesystem that is ready for it has every file and link of the source.
LEMMA CopyComplete ==
  ASSUME NEW target \in Clean, NEW source \in Sources, NEW m,
         m \in Ready(Dirs(target, source), Held(target, source, "file")),
         NEW calls, calls = CopyCalls(target, source), NEW s, Through(s, m, calls), NEW k, k = s[Len(calls)],
         NEW p \in Provided(source), source[p].kind # "dir"
  PROVE  /\ nodeAt(k, target \o p).kind = source[p].kind
         /\ source[p].kind = "file" => nodeAt(k, target \o p).size = source[p].size
         /\ source[p].kind = "link" =>
              \A q \in {Follow(parent(p), source[p].target)} :
                q \in Provided(source) /\ source[q].kind # "link" => Open(k, target \o p).at = target \o q
<1> DEFINE D == Dirs(target, source)
           F == Held(target, source, "file")
<1>1. \A q \in Provided(source) :
         /\ k \in Ready(D, F)
         /\ source[q].kind = "dir" => nodeAt(k, target \o q).kind # "none"
         /\ source[q].kind = "file" => nodeAt(k, target \o q).kind = "file" /\ nodeAt(k, target \o q).size = source[q].size
         /\ source[q].kind = "link" => nodeAt(k, target \o q).kind = "link"
                                       /\ nodeAt(k, target \o q).target = Rebased(source[q].target, target)
  BY CopyThere
<1>2. source[p].kind \in {"file", "link"} /\ p \in Paths /\ source[p].target \in LinkTargets
  BY CopyAssumption DEF Provided
<1>3. ASSUME source[p].kind = "link", NEW q \in {Follow(parent(p), source[p].target)},
             q \in Provided(source), source[q].kind # "link"
      PROVE  Open(k, target \o p).at = target \o q
  <2>1. k \in Goods /\ k \in Memories /\ Straight(D, F, k)
    BY <1>1, GoodsAre DEF Ready
  <2>2. p \in Clean /\ p # Root /\ q \in Clean /\ q # Root /\ q \in Paths
    BY <1>2, <1>3, PlacesAre DEF Provided
  <2> DEFINE x == target \o p
             f == target \o q
  <2>3. x \in Clean /\ x # Root /\ f \in Clean /\ f # Root
    BY <2>2, JoinIs
  <2>4. nodeAt(k, x).kind = "link" /\ nodeAt(k, x).target = Rebased(source[p].target, target)
    BY <1>1, <1>3
  <2>5. source[q].kind \in {"file", "dir"}
    BY <1>3, CopyAssumption DEF Provided
  <2>6. nodeAt(k, f).kind # "none"
    BY <1>1, <1>3, <2>5
  <2>7. f \in D \cup F
    BY <2>2, <2>5 DEF Dirs, Held
  <2>8. nodeAt(k, f).kind \in {"file", "dir"}
    <3>1. nodeAt(k, f) \in Node
      BY <2>1, NodeAt
    <3>2. nodeAt(k, f).kind # "link"
      BY <2>1, <2>7 DEF Straight
    <3> QED BY <2>6, <3>1, <3>2 DEF Node
  <2>9. f = Follow(parent(x), nodeAt(k, x).target)
    BY <1>2, <1>3, <2>2, <2>4, RebasedLeads
  <2> HIDE DEF x, f
  <2>10. Open(k, x) = Ended("ok", f)
    BY <2>1, <2>3, <2>4, <2>8, <2>9, OneHop
  <2>11. \A u : u = Ended("ok", f) => u.at = f
    BY EndedIs
  <2>12. Open(k, x).at = f
    BY <2>10, <2>11, Zenon
  <2> QED BY <2>12 DEF x, f
<1> QED BY <1>1, <1>2, <1>3

\* The calls of a mount that goes ahead.
LEMMA MountRuns ==
  ASSUME NEW m, NEW target \in Clean, NEW source \in Sources, NEW policy \in Policies,
         NEW run, run = ApplyMount(m, target, source, policy), Done(run), ~Skipped(m, target, policy)
  PROVE  /\ Lstat(m, target).err \in {"ok", "notexist"}
         /\ policy = "replace" /\ hasContent(m, target) =>
              run = Answers(m, clearCalls(m, target) \o CopyCalls(target, source))
         /\ ~(policy = "replace" /\ hasContent(m, target)) => run = Answers(m, CopyCalls(target, source))
<1> DEFINE err == Lstat(m, target).err
           copy == CopyCalls(target, source)
           clear == IF policy = "replace" /\ hasContent(m, target) THEN clearCalls(m, target) ELSE <<>>
<1>1. run = IF err \notin {"ok", "notexist"} THEN <<Answer(m, err)>>
            ELSE IF Skipped(m, target, policy) THEN <<Answer(m, "ok")>>
            ELSE Then(clear \o copy, LAMBDA c : Answers(m, c))
  BY DEF ApplyMount, Then
<1>2. Then(clear \o copy, LAMBDA c : Answers(m, c)) = Answers(m, clear \o copy)
  BY DEF Then
<1>3. <<>> \o copy = copy
  <2>1. copy \in Seq(Calls)
    BY CopyCallsAre
  <2> HIDE DEF copy
  <2> QED BY <2>1
<1> HIDE DEF err, copy
<1>4. err \in {"ok", "notexist"}
  <2> SUFFICES ASSUME err \notin {"ok", "notexist"} PROVE FALSE
    OBVIOUS
  <2> DEFINE a == Answer(m, err)
  <2>1. run = <<a>>
    BY <1>1
  <2>2. a.err = err
    BY AnswerIs
  <2> HIDE DEF a
  <2>3. run # <<>> /\ Seqs!Last(run) = a
    BY <2>1 DEF Seqs!Last
  <2> QED BY <2>2, <2>3 DEF Done
<1>5. run = Answers(m, clear \o copy)
  <2> HIDE DEF clear
  <2> QED BY <1>1, <1>2, <1>4
<1> QED BY <1>3, <1>4, <1>5 DEF err, copy

\* A target that a mount has cleared is bare.
LEMMA ClearsBare ==
  ASSUME NEW m \in Goods, NEW target \in Clean, ~LedAway(m, target),
         NEW calls, calls = clearCalls(m, target), NEW s, Through(s, m, calls)
  PROVE  s[Len(calls)] \in Goods /\ Bare(s[Len(calls)], target)
<1>1. CASE target = Root
  BY <1>1, RootCleared
<1>2. CASE target # Root
  <2> DEFINE c == Clearing(target)
             r == removeAll(m, target)
  <2>1. calls = <<c>>
    BY <1>2 DEF clearCalls, Clearing
  <2>2. c.op = "removeAll" /\ c.name = target
    BY CallsHave
  <2> HIDE DEF c
  <2>3. Len(calls) = 1 /\ calls[1] = c
    BY <2>1
  <2>4. s[0] = m /\ Apply(s[0], c) = Answer(s[1], "ok")
    BY <2>3 DEF Through
  <2>5. Apply(m, c) = r
    BY <2>2 DEF Apply
  <2>6. r = Answer(s[1], "ok")
    BY <2>4, <2>5
  <2> HIDE DEF r
  <2>7. r.err = "ok" /\ r.fs = s[1]
    BY <2>6, AnswerIs
  <2>8. r.fs \in Goods /\ Bare(r.fs, target)
    BY <1>2, <2>7, ClearedBare DEF r
  <2> QED BY <2>3, <2>7, <2>8
<1> QED BY <1>1, <1>2

\* What a mount that succeeds goes through in the end: the copy, from a filesystem that is ready for it.
LEMMA MountCopiesFrom ==
  ASSUME NEW m \in Goods, NEW target \in Clean, NEW source \in Sources, NEW policy \in Policies,
         NEW run, run = ApplyMount(m, target, source, policy), Done(run), ~Skipped(m, target, policy),
         IF policy = "replace" THEN ~LedAway(m, target)
         ELSE ~MeetsLink(m, target, source) /\ ~SharesFiles(m, target, source)
  PROVE  \E from \in Ready(Dirs(target, source), Held(target, source, "file")) : \E s :
           Through(s, from, CopyCalls(target, source)) /\ Result(m, run) = s[Len(CopyCalls(target, source))]
<1> DEFINE copy == CopyCalls(target, source)
           clear == clearCalls(m, target)
           R == Ready(Dirs(target, source), Held(target, source, "file"))
<1>1. copy \in Seq(Calls) /\ clear \in Seq(Calls)
  BY CopyCallsAre, ClearCallsAre
<1>2. CASE policy = "replace" /\ hasContent(m, target)
  <2> DEFINE all == clear \o copy
  <2>1. run = Answers(m, all)
    BY <1>2, MountRuns
  <2> HIDE DEF copy, clear
  <2>2. all \in Seq(Calls)
    BY <1>1
  <2>3. PICK s : Through(s, m, all) /\ Result(m, run) = s[Len(all)]
    <3> HIDE DEF all
    <3> QED BY <2>1, <2>2, DoneThrough
  <2> DEFINE from == s[Len(clear)]
             rest == [k \in 0 .. Len(copy) |-> s[Len(clear) + k]]
  <2>4. /\ Through(s, m, clear) /\ Through(rest, from, copy)
        /\ rest[Len(copy)] = s[Len(all)]
    BY <1>1, <2>3, ThroughTail
  <2> HIDE DEF from, rest, all
  <2>5. from \in Goods /\ Bare(from, target)
    BY <1>2, <2>4, ClearsBare DEF from, clear
  <2>6. from \in R
    BY <2>5, BareReady
  <2> QED BY <2>3, <2>4, <2>6 DEF copy
<1>3. CASE ~(policy = "replace" /\ hasContent(m, target))
  <2>1. run = Answers(m, copy) /\ Lstat(m, target).err \in {"ok", "notexist"}
    BY <1>3, MountRuns
  <2>2. m \in R
    <3>1. CASE policy = "replace"
      <4>1. Bare(m, target)
        BY <1>3, <2>1, <3>1, FreeBare
      <4> QED BY <4>1, BareReady
    <3>2. CASE policy # "replace"
      BY <3>2, MeetsReady
    <3> QED BY <3>1, <3>2
  <2> HIDE DEF copy, R
  <2>3. PICK s : Through(s, m, copy) /\ Result(m, run) = s[Len(copy)]
    BY <1>1, <2>1, DoneThrough
  <2> QED BY <2>2, <2>3 DEF copy, R
<1> QED BY <1>2, <1>3

\* What a good filesystem mounts is complete when the mount succeeds.
LEMMA GoodIsComplete == ASSUME fs \in Goods PROVE CopyIsComplete
<1> DEFINE Complete(source, target, result, p, copy) ==
             /\ copy.kind = source[p].kind
             /\ source[p].kind = "file" => copy.size = source[p].size
             /\ source[p].kind = "link" =>
                  \A q \in {Follow(parent(p), source[p].target)} :
                    q \in Provided(source) /\ source[q].kind # "link" =>
                      Open(result, target \o p).at = target \o q
<1>1. ASSUME NEW target \in Points, NEW source \in Sources, NEW policy \in Policies,
             NEW run \in {ApplyMount(fs, target, source, policy)}, NEW result \in {Result(fs, run)},
             Done(run), ~Skipped(fs, target, policy),
             IF policy = "replace" THEN ~LedAway(fs, target)
             ELSE ~MeetsLink(fs, target, source) /\ ~SharesFiles(fs, target, source),
             NEW p \in Provided(source), NEW copy \in {nodeAt(result, target \o p)}, source[p].kind # "dir"
      PROVE  Complete(source, target, result, p, copy)
  <2>1. target \in Clean
    BY CopyAssumption, PlacesAre
  <2>2. PICK from \in Ready(Dirs(target, source), Held(target, source, "file")) :
          \E s : Through(s, from, CopyCalls(target, source)) /\ result = s[Len(CopyCalls(target, source))]
    BY <1>1, <2>1, MountCopiesFrom
  <2>a. PICK s : Through(s, from, CopyCalls(target, source)) /\ result = s[Len(CopyCalls(target, source))]
    BY <2>2
  <2>3. Complete(source, target, result, p, nodeAt(result, target \o p))
    <3>1. p \in Provided(source) /\ source[p].kind # "dir"
      BY <1>1
    <3>2. \A calls, k : calls = CopyCalls(target, source) /\ Through(s, from, calls) /\ k = s[Len(calls)] =>
            Complete(source, target, k, p, nodeAt(k, target \o p))
      BY <2>1, <3>1, CopyComplete
    <3> HIDE DEF Complete
    <3> QED BY <2>a, <3>2
  <2> HIDE DEF Complete
  <2> QED BY <2>3
<1>2. CopyIsComplete <=>
        \A target \in Points, source \in Sources, policy \in Policies :
          \A run \in {ApplyMount(fs, target, source, policy)} : \A result \in {Result(fs, run)} :
            /\ Done(run) /\ Bounded(run)
            /\ ~Skipped(fs, target, policy)
            /\ IF policy = "replace" THEN ~LedAway(fs, target)
               ELSE ~MeetsLink(fs, target, source) /\ ~SharesFiles(fs, target, source)
            => \A p \in Provided(source) : \A copy \in {nodeAt(result, target \o p)} :
                 source[p].kind # "dir" => Complete(source, target, result, p, copy)
  BY DEF CopyIsComplete
<1> HIDE DEF Complete
<1> QED BY <1>1, <1>2

-----------------------------------------------------------------------------
(* A mount that stops, and one that merges after it: MergeFinishes         *)

\* What was there is there, and as it was.
Grown(a, b) == \A p \in Places : a.at[p] # 0 => b.at[p] = a.at[p] /\ nodeAt(b, p) = nodeAt(a, p)

\* The same of every name.
LEMMA GrownIs ==
  ASSUME NEW a \in Goods, NEW b \in Goods, Grown(a, b)
  PROVE  \A x : nodeAt(a, x).kind # "none" => nodeAt(b, x) = nodeAt(a, x)
<1> SUFFICES ASSUME NEW x, nodeAt(a, x).kind # "none" PROVE nodeAt(b, x) = nodeAt(a, x)
  OBVIOUS
<1>1. x \in Places /\ a.at[x] \in Ids
  BY GoodsAre, NodeAt
<1>2. a.at[x] # 0
  BY <1>1, PlacesAre
<1> QED BY <1>1, <1>2 DEF Grown

\* Growth goes on from growth.
LEMMA GrownOn ==
  /\ \A a : Grown(a, a)
  /\ \A a, b, c : Grown(a, b) /\ Grown(b, c) => Grown(a, c)
<1>1. \A a : Grown(a, a)
  BY DEF Grown
<1>2. ASSUME NEW a, NEW b, NEW c, Grown(a, b), Grown(b, c) PROVE Grown(a, c)
  <2> SUFFICES ASSUME NEW p \in Places, a.at[p] # 0 PROVE c.at[p] = a.at[p] /\ nodeAt(c, p) = nodeAt(a, p)
    BY DEF Grown
  <2>1. b.at[p] = a.at[p] /\ nodeAt(b, p) = nodeAt(a, p)
    BY <1>2 DEF Grown
  <2>2. c.at[p] = b.at[p] /\ nodeAt(c, p) = nodeAt(b, p)
    BY <1>2, <2>1 DEF Grown
  <2> QED BY <2>1, <2>2
<1> QED BY <1>1, <1>2

\* A new entry is growth.
LEMMA InsertGrows ==
  ASSUME NEW m \in Goods, NEW x \in Below, nodeAt(m, parent(x)).kind = "dir", nodeAt(m, x).kind = "none",
         NEW n, Fits(m, n), NEW r, r = Insert(m, x, n), r.err = "ok"
  PROVE  /\ r.fs \in Goods /\ Grown(m, r.fs) /\ nodeAt(r.fs, x) = n
         /\ \A y : y # x => nodeAt(r.fs, y) = nodeAt(m, y)
<1>1. x \in Clean /\ x # Root /\ n \in Node /\ Sound(n) /\ n.links = 1 /\ (Limit > 0 => m.used + n.size <= Limit)
  BY DEF Below, Fits
<1>2. /\ r.fs \in Goods /\ x \in Places /\ nodeAt(r.fs, x) = n
      /\ \A q : q # x => nodeAt(r.fs, q) = nodeAt(m, q)
      /\ \A q \in Places : q # x => r.fs.at[q] = m.at[q] /\ m.at[q] # r.fs.at[x]
  BY <1>1, InsertIs
<1>3. m.at[x] = 0
  BY <1>2, GoodsAre, NamedIs
<1> QED BY <1>2, <1>3 DEF Grown

\* A walk that does not miss anything goes the same way when more is there.
LEMMA WalkGrown ==
  ASSUME NEW a \in Goods, NEW b \in Goods, Grown(a, b), NEW n \in Clean \cup {Outside}, NEW final \in BOOLEAN,
         NEW w, w = WalkTo(a, n, final), w.err # "notexist"
  PROVE  WalkTo(b, n, final) = w
<1>1. CASE n = Outside
  BY <1>1 DEF WalkTo
<1>2. CASE n # Outside /\ Stops(a, n, final) = {}
  <2>1. a \in Memories /\ RootStands(a) /\ n \in Clean /\ Len(n) \in Nat /\ SubSeq(n, 1, Len(n)) = n
    BY <1>2, GoodsAre DEF Clean
  <2>2. /\ nodeAt(a, n).kind \in {"file", "dir", "link"}
        /\ \A i \in 1 .. Len(n) - 1 : KindAt(a, n, i) = "dir"
    BY <1>2, <2>1, WalkedThrough
  <2>3. \A i \in 1 .. Len(n) : KindAt(a, n, i) # "none"
    <3> SUFFICES ASSUME NEW i \in 1 .. Len(n) PROVE KindAt(a, n, i) # "none"
      OBVIOUS
    <3>1. i \in 1 .. Len(n) - 1 \/ i = Len(n)
      <4> DEFINE l == Len(n)
      <4>1. l \in Nat /\ i \in 1 .. l
        BY <2>1
      <4> HIDE DEF l
      <4>2. i \in 1 .. l - 1 \/ i = l
        BY <4>1
      <4> QED BY <4>2 DEF l
    <3>2. i = Len(n) => KindAt(a, n, i) = nodeAt(a, n).kind
      BY <2>1 DEF KindAt
    <3> QED BY <2>2, <3>1, <3>2
  <2>4. \A i \in 1 .. Len(n) : KindAt(b, n, i) = KindAt(a, n, i)
    BY <2>3, GrownIs DEF KindAt
  <2>5. Stops(b, n, final) = Stops(a, n, final)
    BY <2>4, StopsAre
  <2> QED BY <1>2, <2>1, <2>5, WalkToEnd
<1>3. CASE n # Outside /\ Stops(a, n, final) # {}
  <2> DEFINE S == Stops(a, n, final)
             R == Stops(b, n, final)
             k == Sets!Min(S)
             j == Sets!Min(R)
             v == WalkTo(b, n, final)
  <2>1. a \in Memories /\ b \in Memories /\ n \in Clean /\ Len(n) \in Nat
    BY <1>3, GoodsAre DEF Clean
  <2>2. /\ k \in S /\ k \in 1 .. Len(n) /\ \A i \in S : k <= i
        /\ KindAt(a, n, k) = "none" => w = Ended("notexist", SubSeq(n, 1, k))
        /\ KindAt(a, n, k) = "file" => w = Ended("notdir", SubSeq(n, 1, k))
        /\ KindAt(a, n, k) = "link" => w = Ended("follow", Led(a, n, k))
        /\ KindAt(a, n, k) \in {"none", "file", "link"}
    BY <1>3, <2>1, WalkToStop
  <2>3. KindAt(a, n, k) # "none"
    BY <2>2, EndedIs
  <2>4. \A i \in 1 .. Len(n) : i <= k => KindAt(a, n, i) # "none"
    <3> SUFFICES ASSUME NEW i \in 1 .. Len(n), i <= k, KindAt(a, n, i) = "none" PROVE FALSE
      OBVIOUS
    <3>1. i \in S
      BY StopsAre
    <3> HIDE DEF k, S
    <3>2. i = k
      BY <2>1, <2>2, <3>1
    <3> QED BY <2>3, <3>2
  <2>5. \A i \in 1 .. Len(n) : i <= k => KindAt(b, n, i) = KindAt(a, n, i)
    BY <2>4, GrownIs DEF KindAt
  <2>6. k \in R
    <3>1. k <= k
      BY <2>1, <2>2
    <3>2. KindAt(b, n, k) = KindAt(a, n, k)
      BY <2>2, <2>5, <3>1
    <3> HIDE DEF k
    <3> QED BY <2>2, <3>2, StopsAre
  <2>7. /\ j \in R /\ j \in 1 .. Len(n) /\ \A i \in R : j <= i
        /\ KindAt(b, n, j) = "file" => v = Ended("notdir", SubSeq(n, 1, j))
        /\ KindAt(b, n, j) = "link" => v = Ended("follow", Led(b, n, j))
    BY <2>1, <2>6, WalkToStop
  <2>8. j = k
    <3>1. j <= k
      BY <2>6, <2>7
    <3> HIDE DEF j, k
    <3>2. KindAt(b, n, j) = KindAt(a, n, j)
      BY <2>5, <2>7, <3>1
    <3>3. j \in S
      BY <2>7, <3>2, StopsAre
    <3>4. k <= j
      BY <2>2, <3>3
    <3> QED BY <2>1, <2>2, <2>7, <3>1, <3>4
  <2>9. nodeAt(b, SubSeq(n, 1, k)) = nodeAt(a, SubSeq(n, 1, k)) /\ KindAt(b, n, k) = KindAt(a, n, k)
    BY <2>3, GrownIs DEF KindAt
  <2>10. Led(b, n, k) = Led(a, n, k)
    BY <2>9 DEF Led
  <2> HIDE DEF j, k, v, S, R
  <2> QED BY <2>2, <2>3, <2>7, <2>8, <2>9, <2>10 DEF v
<1> QED BY <1>1, <1>2, <1>3

\* A walk that misses something comes at most further when more directories are there.
LEMMA WalkFurther ==
  ASSUME NEW a \in Goods, NEW b \in Goods, Grown(a, b),
         \A x : nodeAt(a, x).kind = "none" => nodeAt(b, x).kind \in {"none", "dir"},
         NEW n \in Clean, NEW final \in BOOLEAN, WalkTo(a, n, final).err = "notexist"
  PROVE  WalkTo(b, n, final).err \in {"ok", "notexist"}
<1> DEFINE S == Stops(a, n, final)
           R == Stops(b, n, final)
           k == Sets!Min(S)
           j == Sets!Min(R)
           l == Len(n)
<1>1. a \in Memories /\ b \in Memories /\ l \in Nat
  BY GoodsAre DEF Clean
<1>2. S # {}
  BY <1>1, WalkToEnd, EndedIs
<1>3. /\ k \in S /\ k \in 1 .. Len(n) /\ \A i \in S : k <= i
      /\ KindAt(a, n, k) = "file" => WalkTo(a, n, final) = Ended("notdir", SubSeq(n, 1, k))
      /\ KindAt(a, n, k) = "link" => WalkTo(a, n, final) = Ended("follow", Led(a, n, k))
      /\ KindAt(a, n, k) \in {"none", "file", "link"}
  BY <1>1, <1>2, WalkToStop
<1>4. KindAt(a, n, k) = "none"
  BY <1>3, EndedIs
<1>5. \A i \in 1 .. Len(n) : KindAt(a, n, i) \in {"none", "dir"}
  <2> SUFFICES ASSUME NEW i \in 1 .. Len(n) PROVE KindAt(a, n, i) \in {"none", "dir"}
    OBVIOUS
  <2> DEFINE p == SubSeq(n, 1, k)
             q == SubSeq(n, 1, i)
  <2>1. k \in Nat /\ i \in Nat /\ i <= l /\ k <= l /\ k \in 0 .. l /\ i \in 0 .. l
    <3> HIDE DEF k
    <3>1. k \in 1 .. l /\ i \in 1 .. l
      BY <1>3
    <3> HIDE DEF l
    <3> QED BY <1>1, <3>1
  <2>2. KindAt(a, n, i) \in {"none", "dir", "file", "link"}
    BY <1>1, NodeAt DEF KindAt, Node
  <2>3. CASE i < k
    <3>1. i \notin S
      <4> HIDE DEF S, k
      <4> QED BY <1>3, <2>1, <2>3
    <3>2. i < Len(n)
      <4> HIDE DEF k
      <4> QED BY <2>1, <2>3
    <3> QED BY <2>2, <3>1, <3>2, StopsAre
  <2>4. CASE k <= i
    <3>1. p \in Clean /\ q \in Clean /\ Prefix(p, q)
      <4> HIDE DEF k
      <4>1. n \in Seq(Components)
        BY DEF Clean
      <4>2. p \in Clean /\ Len(p) = k /\ \A h \in 1 .. k : p[h] = n[h]
        BY <2>1, <4>1, BeginningIs DEF Clean
      <4>3. q \in Clean /\ Len(q) = i /\ \A h \in 1 .. i : q[h] = n[h]
        BY <2>1, <4>1, BeginningIs DEF Clean
      <4> HIDE DEF p, q
      <4>4. \A h \in 1 .. k : q[h] = p[h]
        <5>1. \A h \in 1 .. k : h \in 1 .. i
          BY <2>1, <2>4
        <5> QED BY <4>2, <4>3, <5>1
      <4>5. Prefix(p, q)
        BY <2>4, <4>2, <4>3, <4>4, PrefixIs DEF Clean
      <4> QED BY <4>2, <4>3, <4>5
    <3>2. nodeAt(a, p).kind = "none"
      BY <1>4 DEF KindAt
    <3> HIDE DEF p
    <3>3. nodeAt(a, q).kind = "none"
      <4> HIDE DEF q
      <4> SUFFICES ASSUME nodeAt(a, q).kind # "none" PROVE FALSE
        OBVIOUS
      <4>1. q # p
        BY <3>2
      <4>2. q # Root
        <5>1. q = Root => p = Root
          BY <3>1, PrefixOrder DEF Clean, Root
        <5> QED BY <4>1, <5>1
      <4>3. q \in Paths /\ a.at[q] # 0
        BY <3>1, <4>2, ParentStands
      <4>4. nodeAt(a, p).kind = "dir"
        BY <3>1, <4>1, <4>3, Ancestors
      <4> QED BY <3>2, <4>4
    <3> QED BY <3>3 DEF KindAt
  <2> QED BY <2>1, <2>3, <2>4
<1>6. \A i \in 1 .. Len(n) : KindAt(b, n, i) \in {"none", "dir"}
  <2> SUFFICES ASSUME NEW i \in 1 .. Len(n) PROVE KindAt(b, n, i) \in {"none", "dir"}
    OBVIOUS
  <2>1. KindAt(a, n, i) \in {"none", "dir"}
    BY <1>5
  <2> QED BY <2>1, GrownIs DEF KindAt
<1>7. CASE R = {}
  BY <1>7, WalkToEnd, EndedIs
<1>8. CASE R # {}
  <2>1. /\ j \in 1 .. Len(n) /\ KindAt(b, n, j) = "none" => WalkTo(b, n, final) = Ended("notexist", SubSeq(n, 1, j))
        /\ KindAt(b, n, j) \in {"none", "file", "link"} /\ j \in 1 .. Len(n)
    BY <1>1, <1>8, WalkToStop
  <2>2. KindAt(b, n, j) \in {"none", "dir"}
    BY <1>6, <2>1
  <2>3. KindAt(b, n, j) = "none"
    BY <2>1, <2>2
  <2> QED BY <2>1, <2>3, EndedIs
<1> QED BY <1>7, <1>8

\* What is found stays found, and what was missing is found or missing when only
\* directories came.
LEMMA FoundGrown ==
  ASSUME NEW a \in Goods, NEW b \in Goods, Grown(a, b), NEW final \in BOOLEAN, NEW n \in Clean,
         NEW found, found = resolveLocked(a, n, final)
  PROVE  /\ found.err = "ok" => resolveLocked(b, n, final) = found
         /\ /\ found.err = "notexist"
            /\ \A x : nodeAt(a, x).kind = "none" => nodeAt(b, x).kind \in {"none", "dir"}
            => resolveLocked(b, n, final).err \in {"ok", "notexist"}
<1> DEFINE Dirs1 == \A x : nodeAt(a, x).kind = "none" => nodeAt(b, x).kind \in {"none", "dir"}
           A(x) == WalkTo(a, x, final)
           B(x) == WalkTo(b, x, final)
<1>1. a \in Memories /\ b \in Memories /\ LinkHops \in Nat
  BY GoodsAre DEF LinkHops
<1>2. PICK W : /\ \A s : resolveLocked(a, s, final) = W[LinkHops][WalkTo(a, s, final)]
               /\ \A h \in 0 .. LinkHops, x \in Walks :
                    /\ x.err # "follow" => W[h][x] = x
                    /\ x.err = "follow" /\ h = 0 => W[h][x] = Ended("loop", x.at)
                    /\ x.err = "follow" /\ h # 0 => W[h][x] = W[h - 1][WalkTo(a, x.at, final)]
  BY <1>1, Resolved
<1>3. PICK V : /\ \A s : resolveLocked(b, s, final) = V[LinkHops][WalkTo(b, s, final)]
               /\ \A h \in 0 .. LinkHops, x \in Walks :
                    /\ x.err # "follow" => V[h][x] = x
                    /\ x.err = "follow" /\ h = 0 => V[h][x] = Ended("loop", x.at)
                    /\ x.err = "follow" /\ h # 0 => V[h][x] = V[h - 1][WalkTo(b, x.at, final)]
  BY <1>1, Resolved
<1>4. \A x \in Clean \cup {Outside} : A(x) \in Walks /\ B(x) \in Walks
  BY <1>1, WalksAre
<1>5. \A x \in Clean \cup {Outside} : A(x).err # "notexist" => B(x) = A(x)
  BY WalkGrown
<1>6. \A x \in Clean \cup {Outside} : Dirs1 /\ A(x).err = "notexist" => B(x).err \in {"ok", "notexist"}
  <2> SUFFICES ASSUME NEW x \in Clean \cup {Outside}, Dirs1, A(x).err = "notexist" PROVE B(x).err \in {"ok", "notexist"}
    OBVIOUS
  <2>1. x # Outside
    BY DEF WalkTo
  <2> QED BY <2>1, WalkFurther
<1> DEFINE Same(h, x) == /\ W[h][A(x)].err = "ok" => V[h][B(x)] = W[h][A(x)]
                         /\ Dirs1 /\ W[h][A(x)].err = "notexist" => V[h][B(x)].err \in {"ok", "notexist"}
           T == {h \in 0 .. LinkHops : \A x \in Clean \cup {Outside} : Same(h, x)}
<1> HIDE DEF Dirs1, A, B
<1>7. \A h \in 0 .. LinkHops, x \in Clean \cup {Outside} : A(x).err # "follow" => Same(h, x)
  <2> SUFFICES ASSUME NEW h \in 0 .. LinkHops, NEW x \in Clean \cup {Outside}, A(x).err # "follow" PROVE Same(h, x)
    OBVIOUS
  <2>1. W[h][A(x)] = A(x)
    BY <1>2, <1>4
  <2>2. CASE A(x).err # "notexist"
    <3>1. V[h][B(x)] = A(x)
      BY <1>3, <1>4, <1>5, <2>2
    <3> QED BY <2>1, <2>2, <3>1
  <2>3. CASE A(x).err = "notexist"
    <3>1. Dirs1 => V[h][B(x)] = B(x)
      BY <1>3, <1>4, <1>6, <2>3
    <3> QED BY <1>6, <2>1, <2>3, <3>1
  <2> QED BY <2>2, <2>3
<1>8. 0 \in T
  <2> SUFFICES ASSUME NEW x \in Clean \cup {Outside}, A(x).err = "follow" PROVE Same(0, x)
    BY <1>1, <1>7
  <2>1. W[0][A(x)] = Ended("loop", A(x).at)
    BY <1>1, <1>2, <1>4
  <2> QED BY <2>1, EndedIs
<1>9. ASSUME NEW h \in 0 .. LinkHops - 1, h \in T PROVE h + 1 \in T
  <2>1. h + 1 \in 0 .. LinkHops /\ h + 1 # 0 /\ (h + 1) - 1 = h /\ h \in 0 .. LinkHops
    BY <1>1
  <2> SUFFICES ASSUME NEW x \in Clean \cup {Outside}, A(x).err = "follow" PROVE Same(h + 1, x)
    BY <1>7, <2>1
  <2>2. B(x) = A(x) /\ A(x) \in Walks /\ A(x).at \in Clean \cup {Outside}
    BY <1>4, <1>5 DEF Walks
  <2>3. W[h + 1][A(x)] = W[h][A(A(x).at)]
    <3>1. W[h + 1][A(x)] = W[(h + 1) - 1][A(A(x).at)]
      BY <1>2, <2>1, <2>2 DEF A
    <3> QED BY <2>1, <3>1
  <2>4. V[h + 1][B(x)] = V[h][B(A(x).at)]
    <3>1. V[h + 1][A(x)] = V[(h + 1) - 1][B(A(x).at)]
      BY <1>3, <2>1, <2>2 DEF B
    <3> QED BY <2>1, <2>2, <3>1
  <2>5. Same(h, A(x).at)
    BY <1>9, <2>2
  <2> QED BY <2>3, <2>4, <2>5
<1>10. Same(LinkHops, n)
  <2> HIDE DEF T
  <2>1. 0 .. LinkHops \subseteq T
    BY <1>1, <1>8, <1>9, InductTo
  <2>2. LinkHops \in T
    BY <1>1, <2>1
  <2> QED BY <2>2 DEF T
<1>11. found = W[LinkHops][A(n)] /\ resolveLocked(b, n, final) = V[LinkHops][B(n)]
  BY <1>2, <1>3 DEF A, B
<1> QED BY <1>10, <1>11 DEF Dirs1

\* Nothing is below x.
Vacant(m, x) == \A p \in Paths : Prefix(x, p) /\ p # x => m.at[p] = 0

\* The last component of a name, below another.
LEMMA LastIs ==
  ASSUME NEW n \in Clean, n # Root, NEW d \in Clean
  PROVE  LET c == n[Len(n)] IN
         /\ c \in Components /\ <<c>> \in Clean /\ <<c>> # Root /\ parent(<<c>>) = Root /\ parent(n) \in Clean
         /\ d \o <<c>> = Append(d, c) /\ d \o Root = d /\ parent(n) \o <<c>> = n
         /\ Append(d, c) \in Clean /\ Append(d, c) # Root /\ parent(Append(d, c)) = d
<1> DEFINE c == n[Len(n)]
<1>1. parent(n) \in Clean /\ c \in Components /\ n = Append(parent(n), c)
  BY NameIs
<1> HIDE DEF c
<1>2. Append(d, c) \in Clean /\ Append(d, c) # Root /\ parent(Append(d, c)) = d
  BY <1>1, AppendIs
<1>3. d \o <<c>> = Append(d, c) /\ d \o <<>> = d
  BY <1>1 DEF Clean
<1>4. parent(n) \o <<c>> = n
  <2> DEFINE u == parent(n)
  <2>1. u \in Seq(Components) /\ c \in Components /\ n = Append(u, c)
    BY <1>1 DEF Clean
  <2> HIDE DEF u
  <2>2. u \o <<c>> = Append(u, c)
    BY <2>1
  <2> QED BY <2>1, <2>2 DEF u
<1>5. <<c>> \in Clean /\ <<c>> # Root /\ parent(<<c>>) = Root
  <2>1. <<>> \in Clean
    BY DEF Clean
  <2>2. Append(<<>>, c) \in Clean /\ Append(<<>>, c) # Root /\ parent(Append(<<>>, c)) = <<>>
    BY <1>1, <2>1, AppendIs
  <2>3. Append(<<>>, c) = <<c>>
    OBVIOUS
  <2> QED BY <2>2, <2>3 DEF Root
<1> QED BY <1>1, <1>2, <1>3, <1>4, <1>5 DEF Root, c

\* A lookup that succeeds leads somewhere.
LEMMA OpenLeads ==
  ASSUME NEW m \in Goods, NEW n \in Clean, NEW r, r = Open(m, n)
  PROVE  /\ r.err = "ok" => Leads(m, n, r.at)
         /\ r.err \in Outcomes
<1>1. r \in Walks
  BY GoodsAre, Lookup DEF Open
<1>2. r.err = "ok" => r = Ended("ok", r.at)
  BY <1>1 DEF Walks, Ended
<1> QED BY <1>1, <1>2 DEF Leads, Walks

\* What a name that leads somewhere is in leads to a directory, with something there.
LEMMA OpenUp ==
  ASSUME NEW m \in Goods, NEW n \in Clean, n # Root, Open(m, n).err = "ok",
         NEW up, up = Open(m, parent(n)), NEW c, c = n[Len(n)]
  PROVE  /\ up.err = "ok" /\ up.at \in Clean /\ Leads(m, parent(n), up.at) /\ nodeAt(m, up.at).kind = "dir"
         /\ nodeAt(m, Append(up.at, c)).kind # "none"
<1>1. m \in Memories /\ parent(n) \in Clean
  BY NameIs, GoodsAre
<1>2. up.err = "ok"
  <2>1. LinkHops \in 0 .. LinkHops /\ From(m, LinkHops, n) = Open(m, n) /\ From(m, LinkHops, parent(n)) = up
    BY <1>1, OpenIs
  <2> QED BY <1>1, <2>1, FromParent
<1>3. Leads(m, parent(n), up.at)
  BY <1>1, <1>2, OpenLeads
<1>4. up.at \in Clean /\ nodeAt(m, up.at).kind \in {"file", "dir"} /\ Direct(m, up.at)
  BY <1>1, <1>3, LeadsTo
<1> DEFINE x == Append(up.at, c)
<1>5. <<c>> \in Clean /\ up.at \o <<c>> = x /\ parent(n) \o <<c>> = n /\ parent(x) = up.at /\ x \in Clean /\ x # Root
  <2> DEFINE d == up.at
  <2>1. d \in Clean
    BY <1>4
  <2> HIDE DEF d
  <2>2. /\ <<c>> \in Clean /\ d \o <<c>> = Append(d, c) /\ parent(n) \o <<c>> = n
        /\ parent(Append(d, c)) = d /\ Append(d, c) \in Clean /\ Append(d, c) # Root
    BY <2>1, LastIs
  <2> QED BY <2>2 DEF d
<1>6. Reached(m, parent(n), up.at, <<c>>)
  <2>1. parent(<<c>>) = Root /\ up.at \o Root = up.at /\ <<c>> \in Below
    BY <1>4, LastIs DEF Below
  <2>2. Direct(m, up.at \o parent(<<c>>))
    BY <1>4, <2>1
  <2> QED BY <1>1, <1>3, <2>1, <2>2 DEF Reached
<1>7. nodeAt(m, x).kind # "none"
  <2> SUFFICES ASSUME nodeAt(m, x).kind = "none" PROVE FALSE
    OBVIOUS
  <2>1. Direct(m, x)
    BY <1>4, <1>5, DirectDown
  <2>2. Open(m, parent(n) \o <<c>>).err # "ok"
    <3>1. Direct(m, up.at \o <<c>>) /\ nodeAt(m, up.at \o <<c>>).kind = "none"
      BY <1>5, <2>1
    <3> HIDE DEF x
    <3> QED BY <1>6, <3>1, ReachedOpens
  <2> QED BY <1>5, <2>2
<1>8. nodeAt(m, up.at).kind = "dir"
  <2>1. x \in Clean /\ x # Root /\ parent(x) = up.at
    BY <1>5
  <2> HIDE DEF x
  <2>2. nodeAt(m, parent(x)).kind = "dir"
    BY <1>7, <2>1, ParentStands
  <2> QED BY <2>1, <2>2
<1> QED BY <1>2, <1>3, <1>4, <1>7, <1>8

\* A step of MkdirAll that succeeds finds something, a link that leads nowhere, or nothing.
LEMMA MkdirFrom ==
  ASSUME NEW m \in Goods, NEW n \in Clean, n # Root, NEW r, r = mkdirStep(m, n), r.err = "ok",
         NEW up, up = Open(m, parent(n)), NEW c, c = n[Len(n)]
  PROVE  /\ up.err = "ok" /\ up.at \in Clean /\ Leads(m, parent(n), up.at) /\ nodeAt(m, up.at).kind = "dir"
         /\ \/ Open(m, n).err = "ok" /\ r = Answer(m, "ok")
            \/ nodeAt(m, Append(up.at, c)).kind = "link" /\ r = Answer(m, "ok")
            \/ nodeAt(m, Append(up.at, c)).kind = "none" /\ r = Insert(m, Append(up.at, c), Directory)
<1> DEFINE found == Open(m, n)
           slot == Slot(m, n)
           w == mkdir(m, n)
           x == Append(up.at, c)
<1>1. r = IF w.err = "exist" THEN Answer(m, "ok") ELSE w
  BY DEF mkdirStep, Then
<1>2. parent(n) \in Clean /\ found.err \in Outcomes /\ up.err \in Outcomes
  BY NameIs, OpenLeads
<1>3. CASE found.err = "ok"
  <2>1. w = Answer(m, "exist")
    BY <1>3 DEF mkdir, Then
  <2>2. r = Answer(m, "ok")
    <3> HIDE DEF w
    <3> QED BY <1>1, <2>1, AnswerIs
  <2>3. up.err = "ok" /\ up.at \in Clean /\ Leads(m, parent(n), up.at) /\ nodeAt(m, up.at).kind = "dir"
    BY <1>3, OpenUp
  <2> QED BY <1>3, <2>2, <2>3
<1>4. CASE found.err # "ok"
  <2>1. found.err = "notexist"
    <3> SUFFICES ASSUME found.err # "notexist" PROVE FALSE
      OBVIOUS
    <3>1. w = Answer(m, found.err)
      BY <1>4 DEF mkdir, Then
    <3> HIDE DEF w, found
    <3>2. w.err = found.err
      BY <3>1, AnswerIs
    <3> QED BY <1>1, <1>2, <1>4, <3>2 DEF Outcomes
  <2>2. w = InsertNew(m, slot, Directory)
    BY <2>1 DEF mkdir, Then
  <2>3. slot = IF up.err # "ok" THEN up
               ELSE IF nodeAt(m, up.at).kind # "dir" THEN [err |-> "notdir", at |-> up.at]
               ELSE [err |-> "ok", at |-> x]
    BY SlotOf
  <2> HIDE DEF w, slot, found, x
  <2>4. slot.err = "ok"
    <3> SUFFICES ASSUME slot.err # "ok" PROVE FALSE
      OBVIOUS
    <3>1. w = Answer(m, slot.err)
      BY <2>2 DEF InsertNew, InsertAt
    <3>2. slot.err \in Outcomes
      BY <1>2, <2>3 DEF Outcomes
    <3>3. w.err = slot.err
      BY <3>1, AnswerIs
    <3> QED BY <1>1, <3>2, <3>3 DEF Outcomes
  <2>5. up.err = "ok" /\ nodeAt(m, up.at).kind = "dir" /\ slot.at = x
    BY <2>3, <2>4
  <2>6. Leads(m, parent(n), up.at) /\ up.at \in Clean
    BY <1>2, <2>5, OpenLeads, LeadsTo
  <2>7. CASE nodeAt(m, x).kind = "none"
    <3>1. w = Insert(m, x, Directory)
      BY <2>2, <2>4, <2>5, <2>7 DEF InsertNew, InsertAt
    <3>2. w.err # "exist"
      <4>1. w.err \in {"ok", "bound"}
        BY <3>1, AnswerIs DEF Insert, Then
      <4> QED BY <4>1
    <3> QED BY <1>1, <2>5, <2>6, <2>7, <3>1, <3>2 DEF x
  <2>8. CASE nodeAt(m, x).kind # "none"
    <3>1. w = Answer(m, "exist")
      BY <2>2, <2>4, <2>5, <2>8 DEF InsertNew
    <3>2. r = Answer(m, "ok")
      BY <1>1, <3>1, AnswerIs
    <3>3. nodeAt(m, x).kind = "link"
      <4>1. nodeAt(m, x).kind \in {"none", "file", "dir", "link"}
        BY GoodsAre, NodeAt DEF Node
      <4>2. nodeAt(m, x).kind \notin {"file", "dir"}
        BY <1>4, <2>5, GoodsAre, FoundBelow DEF Open, found, x
      <4> QED BY <2>8, <4>1, <4>2
    <3> QED BY <2>5, <2>6, <3>2, <3>3 DEF x
  <2> QED BY <2>7, <2>8
<1> QED BY <1>3, <1>4

\* A directory that is new is where its name leads, and has nothing below it.
LEMMA NewDirectory ==
  ASSUME NEW m \in Goods, NEW n \in Clean, n # Root, NEW d \in Clean, Leads(m, parent(n), d), nodeAt(m, d).kind = "dir",
         NEW x, x = Append(d, n[Len(n)]), nodeAt(m, x).kind = "none",
         NEW r, r = Insert(m, x, Directory), r.err = "ok"
  PROVE  /\ r.fs \in Goods /\ Grown(m, r.fs) /\ nodeAt(r.fs, x) = Directory
         /\ \A y : nodeAt(m, y).kind = "none" => nodeAt(r.fs, y).kind \in {"none", "dir"}
         /\ Leads(r.fs, n, x) /\ Vacant(r.fs, x)
<1> DEFINE c == n[Len(n)]
           k == r.fs
<1>1. /\ <<c>> \in Clean /\ <<c>> # Root /\ parent(<<c>>) = Root /\ parent(n) \in Clean
      /\ d \o <<c>> = x /\ d \o Root = d /\ parent(n) \o <<c>> = n /\ x \in Clean /\ x # Root /\ parent(x) = d
  BY LastIs
<1> HIDE DEF c
<1>2. Fits(m, Directory) /\ x \in Below
  BY <1>1, NewFits DEF Below
<1>3. /\ k \in Goods /\ Grown(m, k) /\ nodeAt(k, x) = Directory
      /\ \A y : y # x => nodeAt(k, y) = nodeAt(m, y)
  <2>1. nodeAt(m, parent(x)).kind = "dir"
    BY <1>1
  <2>2. x \in Below /\ Fits(m, Directory)
    BY <1>2
  <2>3. \A y \in Below : \A q : /\ q = Insert(m, y, Directory) /\ q.err = "ok" /\ Fits(m, Directory)
                           /\ nodeAt(m, parent(y)).kind = "dir" /\ nodeAt(m, y).kind = "none"
                           => /\ q.fs \in Goods /\ Grown(m, q.fs) /\ nodeAt(q.fs, y) = Directory
                              /\ \A z : z # y => nodeAt(q.fs, z) = nodeAt(m, z)
    BY InsertGrows
  <2> QED BY <2>1, <2>2, <2>3
<1>4. Directory.kind = "dir"
  BY DEF Directory, Nothing
<1>5. Leads(k, n, x)
  <2>1. Open(m, parent(n)) = Ended("ok", d) /\ Open(m, parent(n)).err = "ok"
    BY EndedIs DEF Leads
  <2>2. Leads(k, parent(n), d)
    <3> HIDE DEF k
    <3>1. \A t \in Clean : \A f : f = resolveLocked(m, t, TRUE) /\ f.err = "ok" => resolveLocked(k, t, TRUE) = f
      BY <1>3, FoundGrown
    <3>2. parent(n) \in Clean
      BY <1>1
    <3>3. Open(k, parent(n)) = Open(m, parent(n))
      BY <2>1, <3>1, <3>2 DEF Open
    <3> QED BY <2>1, <3>3 DEF Leads
  <2>3. Direct(k, d)
    BY <1>1, <1>3, <2>2, LeadsTo
  <2>4. Direct(k, d \o <<c>>)
    BY <1>1, <1>3, <1>4, <2>3, DirectDown
  <2>5. nodeAt(k, d \o <<c>>).kind # "none"
    BY <1>1, <1>3, <1>4
  <2>6. Leads(k, parent(n) \o <<c>>, d \o <<c>>)
    <3> HIDE DEF k
    <3>1. \A q \in {<<c>>} : Leads(k, parent(n) \o q, d \o q)
      BY <1>1, <1>3, <2>2, <2>4, <2>5, OpenBelow
    <3> QED BY <3>1
  <2> QED BY <1>1, <2>6
<1>6. Vacant(k, x)
  <2> SUFFICES ASSUME NEW p \in Paths, Prefix(x, p), p # x PROVE k.at[p] = 0
    BY DEF Vacant
  <2>1. m.at[p] = 0
    BY <1>1, Ancestors
  <2>2. nodeAt(m, p).kind = "none"
    BY <2>1 DEF nodeAt, Nothing
  <2>3. nodeAt(k, p).kind = "none"
    BY <1>3, <2>2
  <2>4. p \in Places
    BY PlacesAre
  <2>5. k \in Memories /\ Counted(k)
    BY <1>3, GoodsAre
  <2> QED BY <2>3, <2>4, <2>5, NamedIs
<1>7. \A y : nodeAt(m, y).kind = "none" => nodeAt(k, y).kind \in {"none", "dir"}
  BY <1>3, <1>4
<1> QED BY <1>3, <1>5, <1>6, <1>7

\* The calls for the i-th name of the walk.
PartOf(t, source, i) == EntryCalls(t, Walk[i], source[Walk[i]])

\* pos says where the calls for each name of the walk begin, less one.
Placed(pos, t, source, calls) ==
  /\ \A i \in 1 .. Len(Walk) : \A a \in 1 .. Len(PartOf(t, source, i)) :
       /\ pos[i] \in Nat /\ pos[i] >= Len(t) /\ pos[i] + a \in 1 .. Len(calls)
       /\ calls[pos[i] + a] = PartOf(t, source, i)[a]
  /\ \A j \in 1 .. Len(calls) :
       \/ j \in 1 .. Len(t)
       \/ \E i \in 1 .. Len(Walk) : \E a \in 1 .. Len(PartOf(t, source, i)) : j = pos[i] + a

\* A copy first makes the directories of its target, and then its entries.
LEMMA CopyPlaced ==
  ASSUME NEW target \in Clean, NEW source \in Sources, NEW calls, calls = CopyCalls(target, source)
  PROVE  /\ Len(target) \in Nat /\ Len(target) <= Len(calls) /\ Len(calls) \in Nat
         /\ \A j \in 1 .. Len(target) : calls[j] = Making(SubSeq(target, 1, j))
         /\ \E pos : Placed(pos, target, source, calls)
<1> DEFINE head == MkdirAllCalls(target)
           parts == [i \in 1 .. Len(Walk) |-> EntryCalls(target, Walk[i], source[Walk[i]])]
           flat == Seqs!FlattenSeq(parts)
           h == Len(target)
<1>1. Len(Walk) \in Nat /\ (\A i \in 1 .. Len(Walk) : Walk[i] \in Paths)
  <2>1. Len(Walk) = Cardinality(Paths) /\ IsFiniteSet(Paths) /\ Seqs!ToSet(Walk) = Paths
    BY CopyAssumption, MemoryAssumption
  <2>2. Len(Walk) \in Nat
    BY <2>1, FS_CardinalityType
  <2> QED BY <2>1, <2>2 DEF Seqs!ToSet
<1>2. Len(parts) = Len(Walk) /\ \A i \in 1 .. Len(Walk) : parts[i] = PartOf(target, source, i)
  BY <1>1 DEF PartOf
<1>3. \A i \in 1 .. Len(Walk) : parts[i] \in Seq(Calls)
  <2> SUFFICES ASSUME NEW i \in 1 .. Len(Walk) PROVE parts[i] \in Seq(Calls)
    OBVIOUS
  <2> DEFINE p == Walk[i]
  <2>1. p \in Paths /\ parts[i] = EntryCalls(target, p, source[p])
    BY <1>1
  <2> HIDE DEF p, parts
  <2> QED BY <2>1, EntryIs
<1>4. parts \in Seq(Seq(Calls))
  BY <1>1, <1>3
<1>5. head \in Seq(Calls) /\ Len(head) = h /\ h \in Nat /\ \A i \in 1 .. h : head[i] = Making(SubSeq(target, 1, i))
  BY MkdirAllCallsAre, MkdirAllIs
<1>6. calls = head \o flat
  BY DEF CopyCalls
<1> HIDE DEF head, parts
<1>7. flat \in Seq(Calls)
  BY <1>4, FlattenIs
<1>8. PICK off : Parts(off, parts, flat)
  BY <1>4, FlattenParts
<1> HIDE DEF flat, h
<1>9. /\ calls \in Seq(Calls) /\ h \in Nat /\ Len(flat) \in Nat /\ Len(calls) = h + Len(flat)
      /\ \A i \in 1 .. h : calls[i] = head[i]
      /\ \A i \in 1 .. Len(flat) : calls[h + i] = flat[i]
  <2>1. /\ head \o flat \in Seq(Calls) /\ Len(head) \in Nat /\ Len(flat) \in Nat /\ Len(head \o flat) = Len(head) + Len(flat)
        /\ \A i \in 1 .. Len(head) : (head \o flat)[i] = head[i]
        /\ \A i \in 1 .. Len(flat) : (head \o flat)[Len(head) + i] = flat[i]
    <3>1. head \in Seq(Calls) /\ flat \in Seq(Calls)
      BY <1>5, <1>7
    <3>2. \A S, a, b : a \in Seq(S) /\ b \in Seq(S) =>
            /\ a \o b \in Seq(S) /\ Len(a) \in Nat /\ Len(b) \in Nat /\ Len(a \o b) = Len(a) + Len(b)
            /\ \A i \in 1 .. Len(a) : (a \o b)[i] = a[i]
            /\ \A i \in 1 .. Len(b) : (a \o b)[Len(a) + i] = b[i]
      BY JoinedElements
    <3> QED BY <3>1, <3>2
  <2> QED BY <1>5, <1>6, <2>1
<1> DEFINE pos == [i \in 1 .. Len(Walk) |-> h + off[i]]
           n == Len(flat)
<1>10. ASSUME NEW i \in 1 .. Len(Walk), NEW a \in 1 .. Len(PartOf(target, source, i))
       PROVE  /\ pos[i] \in Nat /\ pos[i] >= h /\ pos[i] + a \in 1 .. Len(calls)
              /\ calls[pos[i] + a] = PartOf(target, source, i)[a]
  <2> DEFINE o == off[i]
             x == o + a
             e == PartOf(target, source, i)
  <2>1. e = parts[i] /\ i \in 1 .. Len(parts)
    BY <1>2
  <2> HIDE DEF e
  <2>2. a \in 1 .. Len(parts[i])
    BY <2>1, <1>10 DEF e
  <2>3. x \in 1 .. n /\ flat[x] = parts[i][a] /\ o \in Nat
    BY <1>8, <2>1, <2>2 DEF Parts
  <2>4. pos[i] = h + o
    OBVIOUS
  <2>5. n \in Nat /\ h \in Nat /\ Len(calls) = h + n /\ a \in Nat
    <3>1. a \in Nat
      <4> DEFINE l == Len(PartOf(target, source, i))
      <4>1. a \in 1 .. l
        BY <1>10
      <4> HIDE DEF l
      <4> QED BY <4>1
    <3> QED BY <1>9, <3>1
  <2> HIDE DEF o, n, pos
  <2>6. pos[i] \in Nat /\ pos[i] >= h /\ pos[i] + a = h + x
    BY <2>3, <2>4, <2>5
  <2> HIDE DEF x
  <2>7. h + x \in 1 .. Len(calls)
    BY <2>3, <2>5
  <2>8. calls[h + x] = flat[x]
    BY <1>9, <2>3 DEF n
  <2> QED BY <2>1, <2>3, <2>6, <2>7, <2>8 DEF e
<1>11. ASSUME NEW j \in 1 .. Len(calls), j \notin 1 .. h
       PROVE  \E i \in 1 .. Len(Walk) : \E a \in 1 .. Len(PartOf(target, source, i)) : j = pos[i] + a
  <2>1. j - h \in 1 .. n /\ j = h + (j - h) /\ j \in Nat /\ n \in Nat /\ h \in Nat
    <3>1. n \in Nat /\ h \in Nat /\ Len(calls) = h + n
      BY <1>9
    <3> HIDE DEF n
    <3>2. j \in 1 .. h + n /\ j \notin 1 .. h
      BY <1>11, <3>1
    <3> QED BY <3>1, <3>2
  <2>2. PICK i \in 1 .. Len(parts) : \E a \in 1 .. Len(parts[i]) : j - h = off[i] + a
    BY <1>8, <2>1 DEF Parts
  <2>3. PICK a \in 1 .. Len(parts[i]) : j - h = off[i] + a
    BY <2>2
  <2>4. off[i] \in Nat
    BY <1>8, <2>2 DEF Parts
  <2>5. i \in 1 .. Len(Walk) /\ parts[i] = PartOf(target, source, i)
    BY <1>2, <2>2
  <2>6. a \in 1 .. Len(PartOf(target, source, i)) /\ a \in Int
    <3> DEFINE l == Len(parts[i])
    <3>1. a \in 1 .. l
      BY <2>3
    <3> HIDE DEF l
    <3> QED BY <2>3, <2>5, <3>1
  <2>7. j = pos[i] + a
    <3> DEFINE o == off[i]
    <3>1. pos[i] = h + o
      BY <2>5
    <3>2. j - h = o + a /\ o \in Nat /\ a \in Int
      BY <2>3, <2>4, <2>6
    <3> HIDE DEF pos, o
    <3> QED BY <2>1, <3>1, <3>2
  <2> QED BY <2>5, <2>6, <2>7
<1>12. Placed(pos, target, source, calls)
  <2> HIDE DEF pos
  <2> QED BY <1>10, <1>11 DEF Placed, h
<1>13. Len(calls) \in Nat /\ h <= Len(calls)
  BY <1>9
<1>14. \A j \in 1 .. h : calls[j] = Making(SubSeq(target, 1, j))
  BY <1>5, <1>9
<1> HIDE DEF pos
<1> QED BY <1>5, <1>12, <1>13, <1>14 DEF h

\* No name is walked twice.
LEMMA WalkOnce ==
  /\ Len(Walk) \in Nat /\ \A i \in 1 .. Len(Walk) : Walk[i] \in Paths
  /\ \A i, j \in 1 .. Len(Walk) : Walk[i] = Walk[j] => i = j
<1> DEFINE n == Len(Walk)
<1>1. n = Cardinality(Paths) /\ IsFiniteSet(Paths) /\ n \in Nat /\ Paths = {Walk[i] : i \in 1 .. n}
  <2>1. Len(Walk) = Cardinality(Paths) /\ IsFiniteSet(Paths) /\ Seqs!ToSet(Walk) = Paths
    BY CopyAssumption, MemoryAssumption
  <2>2. Len(Walk) \in Nat
    BY <2>1, FS_CardinalityType
  <2> QED BY <2>1, <2>2 DEF Seqs!ToSet
<1> HIDE DEF n
<1>2. ASSUME NEW i \in 1 .. n, NEW j \in 1 .. n, Walk[i] = Walk[j], i # j PROVE FALSE
  <2> DEFINE S == (1 .. n) \ {i}
             f == [k \in S |-> Walk[k]]
  <2>1. IsFiniteSet(1 .. n) /\ Cardinality(1 .. n) = n
    <3>1. 1 \in Int /\ n \in Int /\ (1 > n => n = 0)
      BY <1>1
    <3>2. \A a, b \in Int : IsFiniteSet(a .. b) /\ Cardinality(a .. b) = IF a > b THEN 0 ELSE b - a + 1
      BY FS_Interval
    <3> QED BY <1>1, <3>1, <3>2
  <2>2. IsFiniteSet(S) /\ Cardinality(S) = n - 1
    <3>1. IsFiniteSet((1 .. n) \ {i}) /\ Cardinality((1 .. n) \ {i}) = Cardinality(1 .. n) - 1
      BY <1>2, <2>1, FS_RemoveElement
    <3> QED BY <2>1, <3>1
  <2>3. f \in Surjection(S, Paths)
    <3>1. f \in [S -> Paths]
      BY <1>1
    <3>2. ASSUME NEW p \in Paths PROVE \E k \in S : f[k] = p
      <4>1. PICK k \in 1 .. n : Walk[k] = p
        BY <1>1
      <4>2. CASE k = i
        <5>1. j \in S /\ f[j] = p
          BY <1>2, <4>1, <4>2
        <5> QED BY <5>1
      <4>3. CASE k # i
        BY <4>1, <4>3
      <4> QED BY <4>2, <4>3
    <3> QED BY <3>1, <3>2 DEF Surjection
  <2> HIDE DEF S, f
  <2>4. Cardinality(Paths) <= Cardinality(S)
    BY <2>2, <2>3, FS_Surjection
  <2> DEFINE u == Cardinality(S)
             v == Cardinality(Paths)
  <2>5. v = n /\ u = n - 1 /\ v <= u /\ n \in Nat
    BY <1>1, <2>2, <2>4
  <2> HIDE DEF u, v
  <2> QED BY <2>5
<1> QED BY <1>1, <1>2 DEF n

\* The calls for an entry, one after the other.
LEMMA EntryShape ==
  ASSUME NEW target \in Clean, NEW source \in Sources, NEW p \in Paths, NEW e, e = EntryCalls(target, p, source[p])
  PROVE  /\ source[p].kind \in {"none", "file", "dir", "link"}
         /\ source[p].kind = "none" => Len(e) = 0
         /\ source[p].kind = "file" => Len(e) = 1 /\ e[1] = Writing(target \o p, source[p])
         /\ source[p].kind = "dir" => \A a \in 1 .. Len(e) : e[a] = Making(SubSeq(target \o p, 1, a)) /\ a \in 1 .. Len(target \o p)
         /\ source[p].kind = "link" => /\ Len(e) = 2 /\ e[1] = Clearing(target \o p)
                                       /\ e[2] = Linking(target \o p, Rebased(source[p].target, target))
<1> DEFINE n == source[p]
           name == target \o p
           t == Rebased(n.target, target)
<1>1. n \in Node
  BY CopyAssumption DEF Node
<1>2. e = CASE n.kind = "dir"  -> MkdirAllCalls(name)
            [] n.kind = "file" -> <<Writing(name, n)>>
            [] n.kind = "link" -> <<Clearing(name), Linking(name, t)>>
            [] n.kind = "none" -> <<>>
  BY DEF EntryCalls, Then, LinkCalls, Writing, Clearing, Linking
<1>3. n.kind \in {"none", "file", "dir", "link"}
  BY <1>1 DEF Node
<1>4. name \in Clean /\ name # Root
  BY BelowTarget
<1>5. Len(MkdirAllCalls(name)) = Len(name) /\ \A a \in 1 .. Len(name) : MkdirAllCalls(name)[a] = Making(SubSeq(name, 1, a))
  BY <1>4, MkdirAllIs
<1> HIDE DEF n, name, t
<1>6. n.kind = "dir" => \A a \in 1 .. Len(e) : e[a] = Making(SubSeq(name, 1, a)) /\ a \in 1 .. Len(name)
  BY <1>2, <1>5
<1>7. n.kind = "file" => Len(e) = 1 /\ e[1] = Writing(name, n)
  BY <1>2
<1>8. n.kind = "link" => Len(e) = 2 /\ e[1] = Clearing(name) /\ e[2] = Linking(name, t)
  BY <1>2
<1>9. n.kind = "none" => Len(e) = 0
  BY <1>2
<1> QED BY <1>3, <1>6, <1>7, <1>8, <1>9 DEF n, name, t

\* What a call that comes after the directories of the target is for.
Enters(t, source, calls, j) ==
  \/ \E x \in Dirs(t, source) : calls[j] = Making(x)
  \/ \E p \in Provided(source) : source[p].kind = "file" /\ calls[j] = Writing(t \o p, source[p])
  \/ \E p \in Provided(source) :
       /\ source[p].kind = "link" /\ calls[j] = Clearing(t \o p)
       /\ j + 1 \in 1 .. Len(calls) /\ calls[j + 1] = Linking(t \o p, Rebased(source[p].target, t))
  \/ \E p \in Provided(source) :
       /\ source[p].kind = "link" /\ calls[j] = Linking(t \o p, Rebased(source[p].target, t))
       /\ j - 1 > Len(t) /\ calls[j - 1] = Clearing(t \o p)

\* Every such call enters something, and no link is made twice.
LEMMA CopyOrder ==
  ASSUME NEW target \in Clean, NEW source \in Sources, NEW calls, calls = CopyCalls(target, source)
  PROVE  /\ \A j \in 1 .. Len(calls) : j > Len(target) => Enters(target, source, calls, j)
         /\ \A i, j \in 1 .. Len(calls) : calls[i].op = "symlink" /\ calls[j].op = "symlink" /\ calls[i].name = calls[j].name => i = j
<1>1. PICK pos : Placed(pos, target, source, calls)
  BY CopyPlaced
<1>2. /\ Len(target) \in Nat /\ Len(target) <= Len(calls) /\ Len(calls) \in Nat
      /\ \A j \in 1 .. Len(target) : calls[j] = Making(SubSeq(target, 1, j))
  BY CopyPlaced
<1> DEFINE h == Len(target)
           n == Len(calls)
<1>3. ASSUME NEW j \in 1 .. n, j > h
      PROVE  /\ Enters(target, source, calls, j)
             /\ calls[j].op = "symlink" =>
                  \E i \in 1 .. Len(Walk) : j = pos[i] + 2 /\ calls[j].name = target \o Walk[i]
  <2>1. j \notin 1 .. h /\ j \in Nat
    <3>1. h \in Nat
      BY <1>2
    <3> HIDE DEF h, n
    <3> QED BY <1>3, <3>1
  <2>2. PICK i \in 1 .. Len(Walk) : \E a \in 1 .. Len(PartOf(target, source, i)) : j = pos[i] + a
    BY <1>1, <2>1 DEF Placed
  <2> DEFINE e == PartOf(target, source, i)
             p == Walk[i]
             o == pos[i]
  <2>3. PICK a \in 1 .. Len(e) : j = o + a
    BY <2>2
  <2>4. \A b \in 1 .. Len(e) : o \in Nat /\ o >= h /\ o + b \in 1 .. n /\ calls[o + b] = e[b]
    BY <1>1 DEF Placed
  <2>5. p \in Paths /\ e = EntryCalls(target, p, source[p])
    BY WalkOnce DEF PartOf
  <2> HIDE DEF e, p, o, h, n
  <2>6. /\ source[p].kind \in {"none", "file", "dir", "link"}
        /\ source[p].kind = "none" => Len(e) = 0
        /\ source[p].kind = "file" => Len(e) = 1 /\ e[1] = Writing(target \o p, source[p])
        /\ source[p].kind = "dir" => \A b \in 1 .. Len(e) : e[b] = Making(SubSeq(target \o p, 1, b)) /\ b \in 1 .. Len(target \o p)
        /\ source[p].kind = "link" => /\ Len(e) = 2 /\ e[1] = Clearing(target \o p)
                                      /\ e[2] = Linking(target \o p, Rebased(source[p].target, target))
    BY <2>5, EntryShape
  <2>7. calls[j] = e[a] /\ o \in Nat /\ o >= h /\ h \in Nat /\ n \in Nat
    BY <1>2, <2>3, <2>4 DEF h, n
  <2>8. source[p].kind # "none" => p \in Provided(source)
    BY <2>5 DEF Provided
  <2>9. CASE source[p].kind = "none"
    BY <2>3, <2>6, <2>9
  <2>10. CASE source[p].kind = "file"
    <3>1. a = 1
      <4>1. Len(e) = 1
        BY <2>6, <2>10
      <4>2. a \in 1 .. 1
        BY <2>3, <4>1
      <4> QED BY <4>2
    <3>2. calls[j] = Writing(target \o p, source[p])
      BY <2>6, <2>7, <2>10, <3>1
    <3>3. calls[j].op = "write"
      BY <3>2, CallsHave
    <3> QED BY <2>8, <2>10, <3>2, <3>3 DEF Enters
  <2>11. CASE source[p].kind = "dir"
    <3> DEFINE x == SubSeq(target \o p, 1, a)
               N == target \o p
    <3>1. calls[j] = Making(x) /\ a \in 1 .. Len(N)
      BY <2>3, <2>6, <2>7, <2>11
    <3>2. N \in Held(target, source, "dir") /\ N \in Clean /\ N # Root
      BY <2>5, <2>11, BelowTarget DEF Held
    <3>3. x \in Dirs(target, source)
      <4> DEFINE D == Dirs(target, source)
                 F == Held(target, source, "file")
                 L == Held(target, source, "link")
      <4>1. Layout(D, F, L) /\ N \in D \cup F \cup L /\ N \in D
        BY <3>2, MountLayout DEF Dirs
      <4>2. Len(N) \in Nat /\ SubSeq(N, 1, Len(N)) = N
        BY <3>2 DEF Clean
      <4> HIDE DEF D, F, L, N
      <4>3. \A i2 \in 1 .. Len(N) - 1 : SubSeq(N, 1, i2) \in D
        BY <4>1, LayoutUp
      <4>4. a \in 1 .. Len(N) - 1 \/ a = Len(N)
        <5> DEFINE l == Len(N)
        <5>1. a \in 1 .. l /\ l \in Nat
          BY <3>1, <4>2 DEF N
        <5> HIDE DEF l
        <5>2. a \in 1 .. l - 1 \/ a = l
          BY <5>1
        <5> QED BY <5>2 DEF l
      <4>5. SubSeq(N, 1, a) \in D
        BY <4>1, <4>2, <4>3, <4>4
      <4> QED BY <4>5 DEF D, N
    <3>4. calls[j].op = "mkdir"
      BY <3>1, CallsHave
    <3> QED BY <3>1, <3>3, <3>4 DEF Enters
  <2>12. CASE source[p].kind = "link"
    <3> DEFINE N == target \o p
               l == Linking(N, Rebased(source[p].target, target))
    <3>1. /\ Len(e) = 2 /\ e[1] = Clearing(N) /\ e[2] = l
      BY <2>6, <2>12
    <3> HIDE DEF N, l
    <3>2. a = 1 \/ a = 2
      BY <2>3, <3>1
    <3>3. /\ o + 1 \in 1 .. n /\ calls[o + 1] = Clearing(N)
          /\ o + 2 \in 1 .. n /\ calls[o + 2] = l
      <4>1. 1 \in 1 .. Len(e) /\ 2 \in 1 .. Len(e)
        BY <3>1
      <4> QED BY <2>4, <3>1, <4>1
    <3>4. CASE a = 1
      <4>1. calls[j] = Clearing(N) /\ j + 1 \in 1 .. n /\ calls[j + 1] = l
        <5>1. j + 1 = o + 2
          BY <2>3, <2>7, <3>4
        <5> QED BY <2>3, <3>3, <3>4, <5>1
      <4>2. calls[j].op = "removeAll"
        BY <4>1, CallsHave
      <4>3. Enters(target, source, calls, j)
        BY <2>8, <2>12, <4>1 DEF Enters, N, l, n
      <4> QED BY <4>2, <4>3
    <3>5. CASE a = 2
      <4>1. calls[j] = l /\ calls[j - 1] = Clearing(N) /\ j - 1 > h
        <5>1. j - 1 = o + 1 /\ j - 1 > h
          BY <2>3, <2>7, <3>5
        <5> QED BY <2>3, <3>3, <3>5, <5>1
      <4>2. calls[j].name = N
        BY <4>1, CallsHave DEF l
      <4>3. Enters(target, source, calls, j)
        BY <2>8, <2>12, <4>1 DEF Enters, N, l, h
      <4>4. j = pos[i] + 2 /\ calls[j].name = target \o Walk[i]
        BY <2>3, <3>5, <4>2 DEF N, o, p
      <4> QED BY <4>3, <4>4
    <3> QED BY <3>2, <3>4, <3>5
  <2> QED BY <2>6, <2>9, <2>10, <2>11, <2>12
<1>4. \A j \in 1 .. n : calls[j].op = "symlink" => j > h
  <2> SUFFICES ASSUME NEW j \in 1 .. n, calls[j].op = "symlink", ~(j > h) PROVE FALSE
    OBVIOUS
  <2>1. j \in 1 .. h
    <3>1. h \in Nat
      BY <1>2
    <3> HIDE DEF h, n
    <3> QED BY <3>1
  <2>2. calls[j].op = "mkdir"
    BY <1>2, <2>1, CallsHave
  <2> QED BY <2>2
<1>5. ASSUME NEW i \in 1 .. n, NEW j \in 1 .. n, calls[i].op = "symlink", calls[j].op = "symlink", calls[i].name = calls[j].name
      PROVE  i = j
  <2>1. PICK k \in 1 .. Len(Walk) : i = pos[k] + 2 /\ calls[i].name = target \o Walk[k]
    BY <1>3, <1>4, <1>5
  <2>2. PICK l \in 1 .. Len(Walk) : j = pos[l] + 2 /\ calls[j].name = target \o Walk[l]
    BY <1>3, <1>4, <1>5
  <2>3. Walk[k] \in Clean /\ Walk[l] \in Clean /\ target \o Walk[k] = target \o Walk[l]
    BY <1>5, <2>1, <2>2, WalkOnce, PlacesAre
  <2>4. Walk[k] = Walk[l]
    BY <2>3, JoinedAre
  <2>5. k = l
    BY <2>4, WalkOnce
  <2> QED BY <2>1, <2>2, <2>5
<1> QED BY <1>3, <1>5

\* What came are directories.
OnlyDirs(a, b) == \A x : nodeAt(a, x).kind = "none" => nodeAt(b, x).kind \in {"none", "dir"}

\* A name leads to a directory with nothing in it.
EmptyAt(m, n, d) == d \in Clean /\ Leads(m, n, d) /\ Vacant(m, d) /\ nodeAt(m, d).kind = "dir"

\* Nothing that is there is below a directory with nothing in it.
LEMMA NoneBelow ==
  ASSUME NEW m \in Goods, NEW d \in Clean, Vacant(m, d), NEW c \in Components
  PROVE  nodeAt(m, Append(d, c)).kind = "none"
<1> DEFINE x == Append(d, c)
<1> SUFFICES ASSUME nodeAt(m, x).kind # "none" PROVE FALSE
  OBVIOUS
<1>1. x \in Clean /\ x # Root /\ parent(x) = d
  BY AppendIs
<1> HIDE DEF x
<1>2. x \in Paths /\ m.at[x] # 0
  BY <1>1, ParentStands
<1>3. Prefix(d, x) /\ d # x
  BY <1>1, UpOf
<1> QED BY <1>2, <1>3 DEF Vacant

\* A directory without entries has nothing below it.
LEMMA EmptyVacant ==
  ASSUME NEW m \in Goods, NEW d \in Clean, Entries(m, d) = {}
  PROVE  Vacant(m, d)
<1> SUFFICES ASSUME NEW p \in Paths, Prefix(d, p), p # d, m.at[p] # 0 PROVE FALSE
  BY DEF Vacant
<1> QED BY Ancestors

\* What a directory that is new leaves.
LEMMA MadeIn ==
  ASSUME NEW m \in Goods, NEW n \in Clean, n # Root, NEW d \in Clean, Leads(m, parent(n), d), nodeAt(m, d).kind = "dir",
         nodeAt(m, Append(d, n[Len(n)])).kind = "none", Insert(m, Append(d, n[Len(n)]), Directory).err = "ok"
  PROVE  LET x == Append(d, n[Len(n)])
             k == Insert(m, x, Directory).fs
         IN  /\ k \in Goods /\ Grown(m, k) /\ nodeAt(k, x) = Directory /\ OnlyDirs(m, k)
             /\ Leads(k, n, x) /\ Vacant(k, x)
<1> DEFINE x == Append(d, n[Len(n)])
           r == Insert(m, x, Directory)
<1>1. /\ r.fs \in Goods /\ Grown(m, r.fs) /\ nodeAt(r.fs, x) = Directory
      /\ \A y : nodeAt(m, y).kind = "none" => nodeAt(r.fs, y).kind \in {"none", "dir"}
      /\ Leads(r.fs, n, x) /\ Vacant(r.fs, x)
  BY NewDirectory
<1> QED BY <1>1 DEF OnlyDirs

\* A step of MkdirAll adds at most a directory.  It finds or leaves one with
\* nothing in it where it added one, and where its parent was one.
LEMMA MkdirAdds ==
  ASSUME NEW m \in Goods, NEW n \in Clean, n # Root, NEW r, r = mkdirStep(m, n), r.err = "ok"
  PROVE  /\ r.fs \in Goods /\ Open(m, parent(n)).err = "ok" /\ Grown(m, r.fs) /\ OnlyDirs(m, r.fs)
         /\ r.fs = m \/ \E d : EmptyAt(r.fs, n, d)
         /\ (\E d : EmptyAt(m, parent(n), d)) => \E d : EmptyAt(r.fs, n, d)
<1> DEFINE up == Open(m, parent(n))
           c == n[Len(n)]
           x == Append(up.at, c)
           k == r.fs
<1>1. /\ up.err = "ok" /\ up.at \in Clean /\ Leads(m, parent(n), up.at) /\ nodeAt(m, up.at).kind = "dir"
      /\ \/ Open(m, n).err = "ok" /\ r = Answer(m, "ok")
         \/ nodeAt(m, x).kind = "link" /\ r = Answer(m, "ok")
         \/ nodeAt(m, x).kind = "none" /\ r = Insert(m, x, Directory)
  BY MkdirFrom
<1>2. c \in Components
  BY NameIs
<1>3. Open(m, n).err = "ok" => nodeAt(m, x).kind # "none"
  BY OpenUp
<1>4. CASE nodeAt(m, x).kind = "none"
  <2>1. r = Insert(m, x, Directory)
    BY <1>1, <1>3, <1>4
  <2>2. /\ k \in Goods /\ Grown(m, k) /\ nodeAt(k, x) = Directory /\ OnlyDirs(m, k)
        /\ Leads(k, n, x) /\ Vacant(k, x)
    <3>1. r.fs = Insert(m, x, Directory).fs /\ Insert(m, x, Directory).err = "ok"
      BY <2>1
    <3> QED BY <1>1, <1>4, <3>1, MadeIn
  <2>3. Directory.kind = "dir"
    BY DEF Directory, Nothing
  <2>4. x \in Clean
    BY <1>1, <1>2, AppendIs
  <2>5. EmptyAt(k, n, x)
    BY <2>2, <2>3, <2>4 DEF EmptyAt
  <2> HIDE DEF x, k
  <2> QED BY <1>1, <2>2, <2>5 DEF k
<1>5. CASE nodeAt(m, x).kind # "none"
  <2>1. k = m
    BY <1>1, <1>5, AnswerIs
  <2>2. Grown(m, m) /\ OnlyDirs(m, m)
    BY GrownOn DEF OnlyDirs
  <2>3. ASSUME NEW d, EmptyAt(m, parent(n), d) PROVE FALSE
    <3>1. up.at = d
      BY <2>3, EndedIs DEF EmptyAt, Leads
    <3> QED BY <1>2, <1>5, <2>3, <3>1, NoneBelow DEF EmptyAt
  <2> HIDE DEF x, k
  <2> QED BY <1>1, <2>1, <2>2, <2>3 DEF k
<1> QED BY <1>4, <1>5

\* The last step of it, for a target without content, leaves a directory with nothing in it.
LEMMA MkdirEmpty ==
  ASSUME NEW m \in Goods, NEW n \in Clean, n # Root, NEW r, r = mkdirStep(m, n), r.err = "ok",
         ~hasContent(m, n)
  PROVE  \E d : EmptyAt(r.fs, n, d)
<1> DEFINE up == Open(m, parent(n))
           c == n[Len(n)]
           x == Append(up.at, c)
           found == Lstat(m, n)
<1>1. /\ up.err = "ok" /\ up.at \in Clean /\ Leads(m, parent(n), up.at) /\ nodeAt(m, up.at).kind = "dir"
      /\ \/ Open(m, n).err = "ok" /\ r = Answer(m, "ok")
         \/ nodeAt(m, x).kind = "link" /\ r = Answer(m, "ok")
         \/ nodeAt(m, x).kind = "none" /\ r = Insert(m, x, Directory)
  BY MkdirFrom
<1>2. r.fs = m \/ \E d : EmptyAt(r.fs, n, d)
  BY MkdirAdds
<1>3. Open(m, n).err = "ok" => nodeAt(m, x).kind # "none"
  BY OpenUp
<1>4. CASE nodeAt(m, x).kind = "none"
  <2>1. r = Insert(m, x, Directory)
    BY <1>1, <1>3, <1>4
  <2>2. nodeAt(r.fs, x) = Directory
    <3>1. r.fs = Insert(m, x, Directory).fs /\ Insert(m, x, Directory).err = "ok"
      BY <2>1
    <3> QED BY <1>1, <1>4, <3>1, MadeIn
  <2>3. Directory.kind = "dir"
    BY DEF Directory, Nothing
  <2> HIDE DEF x
  <2> QED BY <1>2, <1>4, <2>2, <2>3
<1>5. CASE nodeAt(m, x).kind # "none"
  <2>1. r.fs = m
    BY <1>1, <1>5, AnswerIs
  <2>2. found = Ended("ok", x)
    BY <1>1, <1>5, LstatThere
  <2>3. found.err = "ok" /\ found.at = x
    BY <2>2, EndedIs
  <2>4. nodeAt(m, x).kind = "dir" /\ ReadDir(m, n) = {}
    <3> HIDE DEF x
    <3>1. ~(nodeAt(m, found.at).kind = "dir" => ReadDir(m, n) # {})
      <4> HIDE DEF found
      <4>1. hasContent(m, n) = (found.err = "ok" /\ (nodeAt(m, found.at).kind = "dir" => ReadDir(m, n) # {}))
        BY DEF hasContent, Then, found
      <4> QED BY <2>3, <4>1
    <3> QED BY <2>3, <3>1
  <2>5. Leads(m, n, x)
    <3>1. /\ <<c>> \in Clean /\ parent(<<c>>) = Root /\ up.at \o <<c>> = x /\ parent(n) \o <<c>> = n /\ x \in Clean /\ x # Root /\ parent(x) = up.at
          /\ parent(n) \in Clean
      <4>1. \A d \in Clean : LET b == n[Len(n)] IN
              /\ <<b>> \in Clean /\ parent(<<b>>) = Root /\ parent(n) \in Clean
              /\ d \o <<b>> = Append(d, b) /\ parent(n) \o <<b>> = n
              /\ Append(d, b) \in Clean /\ Append(d, b) # Root /\ parent(Append(d, b)) = d
        BY LastIs
      <4> QED BY <1>1, <4>1
    <3>2. Direct(m, up.at)
      BY <1>1, <3>1, LeadsTo
    <3>3. Direct(m, x)
      <4> HIDE DEF x, up
      <4> QED BY <2>4, <3>1, <3>2, DirectDown
    <3>4. \A q \in Clean : Direct(m, up.at \o q) /\ nodeAt(m, up.at \o q).kind # "none" => Leads(m, parent(n) \o q, up.at \o q)
      BY <1>1, <3>1, OpenBelow
    <3>5. Direct(m, up.at \o <<c>>) /\ nodeAt(m, up.at \o <<c>>).kind # "none" /\ <<c>> \in Clean
      BY <1>5, <3>1, <3>3
    <3>6. Leads(m, parent(n) \o <<c>>, up.at \o <<c>>)
      <4> HIDE DEF up, c, x
      <4> QED BY <3>4, <3>5
    <3> QED BY <3>1, <3>6
  <2>6. Entries(m, x) = {}
    <3> HIDE DEF x
    <3>1. Open(m, n).err = "ok" /\ Open(m, n).at = x
      BY <2>5, EndedIs DEF Leads
    <3> QED BY <2>4, <3>1, ReadDirIs
  <2>7. x \in Clean
    BY <1>1, NameIs, AppendIs
  <2>8. EmptyAt(m, n, x)
    <3> HIDE DEF x
    <3> QED BY <2>4, <2>5, <2>6, <2>7, EmptyVacant DEF EmptyAt
  <2> HIDE DEF x
  <2> QED BY <2>1, <2>8
<1> QED BY <1>4, <1>5

\* The beginnings of a name, one in the other.
LEMMA Beginning ==
  ASSUME NEW t \in Clean
  PROVE  /\ Len(t) \in Nat /\ SubSeq(t, 1, 0) = Root /\ SubSeq(t, 1, Len(t)) = t
         /\ \A i \in 0 .. Len(t) - 1 :
              /\ SubSeq(t, 1, i + 1) \in Clean /\ SubSeq(t, 1, i + 1) # Root /\ parent(SubSeq(t, 1, i + 1)) = SubSeq(t, 1, i)
<1>1. Len(t) \in Nat /\ SubSeq(t, 1, 0) = Root /\ SubSeq(t, 1, Len(t)) = t
  BY DEF Clean, Root
<1>2. ASSUME NEW i \in 0 .. Len(t) - 1
      PROVE  SubSeq(t, 1, i + 1) \in Clean /\ SubSeq(t, 1, i + 1) # Root /\ parent(SubSeq(t, 1, i + 1)) = SubSeq(t, 1, i)
  <2> DEFINE x == SubSeq(t, 1, i + 1)
             l == Len(t)
  <2>1. i \in Nat /\ i + 1 \in 1 .. l /\ l \in Nat
    BY <1>1
  <2>2. x \in Clean /\ Len(x) = i + 1 /\ \A a \in 1 .. i + 1 : x[a] = t[a]
    BY <2>1 DEF Clean
  <2>3. SubSeq(x, 1, i) = SubSeq(t, 1, i)
    <3>1. i <= Len(x) /\ i <= l
      BY <2>1, <2>2
    <3>2. SubSeq(x, 1, i) \in Seq(Components) /\ Len(SubSeq(x, 1, i)) = i /\ \A a \in 1 .. i : SubSeq(x, 1, i)[a] = x[a]
      BY <2>1, <2>2, <3>1 DEF Clean
    <3>3. SubSeq(t, 1, i) \in Seq(Components) /\ Len(SubSeq(t, 1, i)) = i /\ \A a \in 1 .. i : SubSeq(t, 1, i)[a] = t[a]
      BY <2>1, <3>1 DEF Clean
    <3>4. \A a \in 1 .. i : x[a] = t[a]
      BY <2>1, <2>2
    <3> DEFINE u == SubSeq(x, 1, i)
               v == SubSeq(t, 1, i)
    <3>5. \A a \in 1 .. i : u[a] = v[a]
      BY <3>2, <3>3, <3>4
    <3> HIDE DEF u, v, x
    <3>6. u \in Seq(Components) /\ v \in Seq(Components) /\ Len(u) = i /\ Len(v) = i
      BY <3>2, <3>3 DEF u, v
    <3>7. u = v
      BY <3>5, <3>6
    <3> QED BY <3>7 DEF u, v
  <2>4. x # Root
    <3> HIDE DEF x
    <3>1. Len(x) # 0
      BY <2>1, <2>2
    <3> QED BY <3>1 DEF Root
  <2>5. parent(x) = SubSeq(x, 1, i)
    <3>1. Len(x) - 1 = i
      BY <2>1, <2>2
    <3> HIDE DEF x
    <3> QED BY <2>4, <3>1 DEF parent
  <2> QED BY <2>2, <2>3, <2>4, <2>5
<1> QED BY <1>1, <1>2

\* What came are directories, and then more of them.
LEMMA OnlyDirsOn ==
  /\ \A a : OnlyDirs(a, a)
  /\ \A a, c \in Goods : \A b \in Goods : OnlyDirs(a, b) /\ OnlyDirs(b, c) /\ Grown(b, c) => OnlyDirs(a, c)
<1>1. \A a : OnlyDirs(a, a)
  BY DEF OnlyDirs
<1>2. ASSUME NEW a \in Goods, NEW b \in Goods, NEW c \in Goods, OnlyDirs(a, b), OnlyDirs(b, c), Grown(b, c),
             NEW x, nodeAt(a, x).kind = "none"
      PROVE  nodeAt(c, x).kind \in {"none", "dir"}
  <2>1. nodeAt(b, x).kind \in {"none", "dir"}
    BY <1>2 DEF OnlyDirs
  <2>2. CASE nodeAt(b, x).kind = "none"
    BY <1>2, <2>2 DEF OnlyDirs
  <2>3. CASE nodeAt(b, x).kind = "dir"
    <3>1. nodeAt(c, x) = nodeAt(b, x)
      BY <1>2, <2>3, GrownIs
    <3> QED BY <2>3, <3>1
  <2> QED BY <2>1, <2>2, <2>3
<1> QED BY <1>1, <1>2 DEF OnlyDirs

\* The first calls of a copy to a target without content make a directory with nothing in it.
LEMMA TargetMade ==
  ASSUME NEW m \in Goods, NEW target \in Clean, NEW source \in Sources, NEW calls, calls = CopyCalls(target, source),
         NEW s, Through(s, m, calls), ~hasContent(m, target), Lstat(m, target).err \in {"ok", "notexist"}
  PROVE  /\ \E d : EmptyAt(s[Len(target)], target, d)
         /\ \A i \in 0 .. Len(target) : s[i] \in Goods /\ Grown(m, s[i]) /\ OnlyDirs(m, s[i])
         /\ \A i \in 0 .. Len(target) - 1 : Grown(s[i], s[i + 1])
         /\ \A i \in 1 .. Len(target) : Open(s[i], SubSeq(target, 1, i)).err = "ok"
<1> DEFINE l == Len(target)
           pre(i) == SubSeq(target, 1, i)
           Made(i) == \E d : EmptyAt(s[i], pre(i), d)
           Fine(i) == (s[i] = m \/ Made(i)) /\ Grown(m, s[i]) /\ OnlyDirs(m, s[i])
           T == {i \in 0 .. l : Fine(i)}
<1>1. /\ l \in Nat /\ pre(0) = Root /\ pre(l) = target
      /\ \A i \in 0 .. l - 1 : pre(i + 1) \in Clean /\ pre(i + 1) # Root /\ parent(pre(i + 1)) = pre(i)
  BY Beginning
<1>2. l <= Len(calls) /\ Len(calls) \in Nat /\ \A j \in 1 .. l : calls[j] = Making(pre(j))
  BY CopyPlaced
<1>3. s[0] = m /\ \A k \in 0 .. l : s[k] \in Goods
  BY <1>1, <1>2 DEF Through
<1> HIDE DEF l
<1>4. ASSUME NEW i \in 0 .. l - 1
      PROVE  LET a == s[i]
                 b == s[i + 1]
             IN  /\ Open(a, pre(i)).err = "ok" /\ Grown(a, b) /\ OnlyDirs(a, b) /\ a \in Goods /\ b \in Goods
                 /\ b = a \/ Made(i + 1)
                 /\ Made(i) => Made(i + 1)
                 /\ mkdirStep(a, pre(i + 1)).err = "ok" /\ mkdirStep(a, pre(i + 1)).fs = b
  <2> DEFINE a == s[i]
             b == s[i + 1]
             n == pre(i + 1)
             r == mkdirStep(a, n)
  <2>1. i \in 0 .. l /\ i + 1 \in 1 .. l /\ i + 1 \in 1 .. Len(calls) /\ (i + 1) - 1 = i /\ i + 1 \in 0 .. l
    <3> DEFINE k == Len(calls)
    <3>1. l \in Nat /\ k \in Nat /\ l <= k
      BY <1>1, <1>2
    <3> HIDE DEF k
    <3>2. i \in 0 .. l /\ i + 1 \in 1 .. l /\ i + 1 \in 1 .. k /\ (i + 1) - 1 = i /\ i + 1 \in 0 .. l
      BY <3>1
    <3> QED BY <3>2 DEF k
  <2>2. Apply(a, calls[i + 1]) = Answer(b, "ok")
    <3>1. \A k \in 1 .. Len(calls) : Apply(s[k - 1], calls[k]) = Answer(s[k], "ok")
      BY DEF Through
    <3> QED BY <2>1, <3>1
  <2>3. a \in Goods /\ b \in Goods /\ n \in Clean /\ n # Root /\ parent(n) = pre(i)
    BY <1>1, <1>3, <2>1
  <2>4. Apply(a, Making(n)) = mkdirStep(a, n)
    <3> HIDE DEF a, n
    <3> QED BY CallsHave DEF Apply
  <2>5. r = Answer(b, "ok")
    BY <1>2, <2>1, <2>2, <2>4
  <2>6. r.err = "ok" /\ r.fs = b
    <3> HIDE DEF a, b, n
    <3> QED BY <2>5, AnswerIs
  <2> HIDE DEF a, b, n, pre
  <2>7. /\ Open(a, parent(n)).err = "ok" /\ Grown(a, b) /\ OnlyDirs(a, b)
        /\ b = a \/ \E d : EmptyAt(b, n, d)
        /\ (\E d : EmptyAt(a, parent(n), d)) => \E d : EmptyAt(b, n, d)
    BY <2>3, <2>6, MkdirAdds
  <2> QED BY <2>3, <2>6, <2>7 DEF a, b, n
<1>5. 0 \in T
  BY <1>1, <1>3, GrownOn, OnlyDirsOn
<1>6. ASSUME NEW i \in 0 .. l - 1, i \in T PROVE i + 1 \in T
  <2>1. Fine(i) /\ i + 1 \in 0 .. l
    BY <1>1, <1>6
  <2> DEFINE a == s[i]
             b == s[i + 1]
  <2>2. Grown(a, b) /\ OnlyDirs(a, b) /\ a \in Goods /\ b \in Goods /\ (b = a \/ Made(i + 1)) /\ (Made(i) => Made(i + 1))
    BY <1>4
  <2> HIDE DEF Made, a, b
  <2>3. a = m \/ Made(i)
    BY <2>1 DEF a
  <2>4. b = m \/ Made(i + 1)
    BY <2>2, <2>3
  <2>5. Grown(m, b) /\ OnlyDirs(m, b)
    <3>1. Grown(m, a) /\ OnlyDirs(m, a)
      BY <2>1 DEF a
    <3> QED BY <2>2, <3>1, GrownOn, OnlyDirsOn
  <2> QED BY <2>1, <2>4, <2>5 DEF b
<1>7. \A i \in 0 .. l : Fine(i)
  <2> HIDE DEF T
  <2>1. 0 .. l \subseteq T
    BY <1>1, <1>5, <1>6, InductTo
  <2> QED BY <2>1 DEF T
<1>8. \A i \in 0 .. l - 1 : Grown(s[i], s[i + 1])
  BY <1>4
<1>9. \E d : EmptyAt(s[l], target, d)
  <2>1. CASE l = 0
    <3>1. target = Root /\ s[l] = m
      BY <1>1, <1>3, <2>1
    <3> DEFINE found == Lstat(m, Root)
    <3>2. found.err = "ok" /\ found.at = Root
      BY <3>1, RootFound
    <3>3. ReadDir(m, Root) = {}
      <4> HIDE DEF found
      <4>1. hasContent(m, Root) = (found.err = "ok" /\ (nodeAt(m, found.at).kind = "dir" => ReadDir(m, Root) # {}))
        BY DEF hasContent, Then, found
      <4> QED BY <3>1, <3>2, <4>1
    <3>4. Entries(m, Root) = {}
      BY <3>3, RootLists
    <3>5. Leads(m, Root, Root) /\ Root \in Clean
      BY RootLeads
    <3>6. nodeAt(m, Root).kind = "dir"
      BY GoodsAre DEF RootStands
    <3>7. EmptyAt(m, Root, Root)
      BY <3>4, <3>5, <3>6, EmptyVacant DEF EmptyAt
    <3> QED BY <3>1, <3>7
  <2>2. CASE l # 0
    <3> DEFINE i == l - 1
    <3>1. i \in 0 .. l - 1 /\ i + 1 = l /\ i \in 0 .. l
      BY <1>1, <2>2
    <3> HIDE DEF i
    <3>2. /\ s[i] = m \/ Made(i)
          /\ Made(i) => Made(l)
          /\ mkdirStep(s[i], pre(l)).err = "ok" /\ mkdirStep(s[i], pre(l)).fs = s[l]
          /\ pre(l) # Root
      BY <1>1, <1>4, <1>7, <3>1
    <3>3. CASE Made(i)
      BY <1>1, <3>2, <3>3
    <3>4. CASE s[i] = m
      <4>1. mkdirStep(m, target).err = "ok" /\ mkdirStep(m, target).fs = s[l] /\ target # Root
        BY <1>1, <3>2, <3>4
      <4> QED BY <4>1, MkdirEmpty
    <3> QED BY <3>2, <3>3, <3>4
  <2> QED BY <2>1, <2>2
<1>10. ASSUME NEW i \in 1 .. l PROVE Open(s[i], pre(i)).err = "ok"
  <2>1. CASE i = l
    <3>1. PICK d : EmptyAt(s[l], target, d)
      BY <1>9
    <3> QED BY <1>1, <2>1, <3>1, EndedIs DEF EmptyAt, Leads
  <2>2. CASE i # l
    <3>1. i \in 0 .. l - 1
      BY <1>1, <2>2
    <3> QED BY <1>4, <3>1
  <2> QED BY <2>1, <2>2
<1> QED BY <1>3, <1>7, <1>8, <1>9, <1>10 DEF l

\* What a copy puts at a name.
EntryOf(t, source, q) ==
  CASE source[q].kind = "file" -> Regular(source[q].size)
    [] source[q].kind = "dir" -> Directory
    [] OTHER -> Symbolic(Rebased(source[q].target, t))

\* What a copy that was torn has left in z, where the target led to the directory
\* d of b with nothing in it: entries of the source, and links whose identities
\* are the first that were free.
Torn(b, t, d, source, z) ==
  /\ b \in Goods /\ z \in Goods /\ EmptyAt(b, t, d) /\ Grown(b, z)
  /\ \A q \in Below : nodeAt(z, d \o q).kind # "none" => q \in Provided(source) /\ nodeAt(z, d \o q) = EntryOf(t, source, q)
  /\ \A q \in Below : nodeAt(z, d \o q).kind = "link" => \A i \in Ids : i < z.at[d \o q] => Names(z, i) # {}

\* A name of the source is in directories of the source.
LEMMA SourceUp ==
  ASSUME NEW source \in Sources, NEW p \in Provided(source)
  PROVE  /\ p \in Below /\ p \in Paths
         /\ \A i \in 1 .. Len(p) - 1 : SubSeq(p, 1, i) \in Paths /\ source[SubSeq(p, 1, i)].kind = "dir"
<1> DEFINE D == Dirs(Root, source)
           F == Held(Root, source, "file")
           L == Held(Root, source, "link")
<1>1. p \in Paths /\ p \in Clean /\ p # Root /\ source[p].kind \in {"file", "dir", "link"}
  <2>1. p \in Paths /\ source[p].kind # "none"
    BY DEF Provided
  <2>2. source[p].kind \in {"none", "file", "dir", "link"}
    BY <2>1, CopyAssumption
  <2> QED BY <2>1, <2>2, PlacesAre
<1>2. \A q \in Paths : Root \o q = q
  BY PlacesAre DEF Root, Clean
<1>3. \A kind : Held(Root, source, kind) = {q \in Paths : source[q].kind = kind}
  BY <1>2 DEF Held
<1>4. D = {q \in Paths : source[q].kind = "dir"}
  <2>1. Beginnings(Root) = {}
    BY DEF Beginnings, Root
  <2> QED BY <1>3, <2>1 DEF Dirs
<1>5. p \in D \cup F \cup L
  BY <1>1, <1>3, <1>4
<1>6. Layout(D, F, L)
  <2>1. Root \in Clean
    BY PlacesAre
  <2> QED BY <2>1, MountLayout
<1>7. \A i \in 1 .. Len(p) - 1 : SubSeq(p, 1, i) \in D
  <2> HIDE DEF D, F, L
  <2> QED BY <1>5, <1>6, LayoutUp
<1> QED BY <1>1, <1>4, <1>7 DEF Below

\* The beginnings of a name below another.
LEMMA JoinedBeginnings ==
  ASSUME NEW d \in Clean, NEW q \in Clean
  PROVE  \A i \in 1 .. Len(d \o q) : \/ i \in 1 .. Len(d) /\ SubSeq(d \o q, 1, i) = SubSeq(d, 1, i)
                                     \/ i - Len(d) \in 1 .. Len(q) /\ SubSeq(d \o q, 1, i) = d \o SubSeq(q, 1, i - Len(d))
<1> DEFINE l == Len(d)
           n == Len(q)
<1>1. l \in Nat /\ n \in Nat /\ Len(d \o q) = l + n /\ d \in Seq(Components) /\ q \in Seq(Components)
  BY DEF Clean
<1>2. \A j \in 1 .. l : (d \o q)[j] = d[j]
  BY <1>1
<1>3. \A j \in 1 .. n : (d \o q)[l + j] = q[j]
  BY <1>1
<1> SUFFICES ASSUME NEW i \in 1 .. l + n
             PROVE  \/ i \in 1 .. l /\ SubSeq(d \o q, 1, i) = SubSeq(d, 1, i)
                    \/ i - l \in 1 .. n /\ SubSeq(d \o q, 1, i) = d \o SubSeq(q, 1, i - l)
  BY <1>1
<1>4. CASE i <= l
  <2>1. i \in 1 .. l
    BY <1>1, <1>4
  <2> DEFINE u == SubSeq(d \o q, 1, i)
             v == SubSeq(d, 1, i)
  <2>2. u \in Seq(Components) /\ Len(u) = i /\ \A j \in 1 .. i : u[j] = (d \o q)[j]
    BY <1>1, <2>1
  <2>3. v \in Seq(Components) /\ Len(v) = i /\ \A j \in 1 .. i : v[j] = d[j]
    BY <1>1, <2>1
  <2>4. \A j \in 1 .. i : u[j] = v[j]
    BY <1>2, <2>1, <2>2, <2>3
  <2> HIDE DEF u, v
  <2>5. u = v
    BY <2>2, <2>3, <2>4
  <2> QED BY <2>1, <2>5 DEF u, v
<1>5. CASE i > l
  <2>1. i - l \in 1 .. n
    BY <1>1, <1>5
  <2> DEFINE u == SubSeq(d \o q, 1, i)
             w == SubSeq(q, 1, i - l)
             v == d \o w
  <2>2. u \in Seq(Components) /\ Len(u) = i /\ \A j \in 1 .. i : u[j] = (d \o q)[j]
    BY <1>1, <2>1
  <2>3. w \in Seq(Components) /\ Len(w) = i - l /\ \A j \in 1 .. i - l : w[j] = q[j]
    BY <1>1, <2>1
  <2> HIDE DEF u, w
  <2>4. v \in Seq(Components) /\ Len(v) = i /\ (\A j \in 1 .. l : v[j] = d[j]) /\ \A j \in 1 .. i - l : v[l + j] = w[j]
    BY <1>1, <2>1, <2>3
  <2> HIDE DEF v, l, n
  <2>5. ASSUME NEW j \in 1 .. i PROVE u[j] = v[j]
    <3>1. CASE j <= l
      <4>1. j \in 1 .. l
        BY <1>1, <3>1
      <4> QED BY <1>2, <2>2, <2>4, <4>1
    <3>2. CASE j > l
      <4>1. j - l \in 1 .. i - l /\ j - l \in 1 .. n /\ l + (j - l) = j
        BY <1>1, <2>1, <3>2
      <4>2. v[l + (j - l)] = w[j - l] /\ w[j - l] = q[j - l] /\ (d \o q)[l + (j - l)] = q[j - l]
        BY <1>3, <2>3, <2>4, <4>1
      <4> QED BY <2>2, <4>1, <4>2
    <3> QED BY <1>1, <3>1, <3>2
  <2>6. u = v
    BY <2>2, <2>4, <2>5
  <2> QED BY <2>1, <2>6 DEF u, v, w
<1> QED BY <1>1, <1>4, <1>5

\* The entries of a source are new nodes of their kinds.
LEMMA EntryKinds ==
  ASSUME NEW t \in Clean, NEW source \in Sources, NEW q \in Provided(source)
  PROVE  LET n == EntryOf(t, source, q) IN
         /\ source[q].kind \in {"file", "dir", "link"} /\ n.kind = source[q].kind /\ source[q].size \in Nat
         /\ n.kind = "file" => n = Regular(source[q].size) /\ n.size = source[q].size
         /\ n.kind = "dir" => n = Directory
         /\ n.kind = "link" => n = Symbolic(Rebased(source[q].target, t))
         /\ Rebased(source[q].target, t) \in LinkTargets
<1>1. source[q].kind \in {"file", "dir", "link"} /\ source[q].size \in Nat /\ source[q].target \in LinkTargets
  <2>1. q \in Paths /\ source[q].kind # "none"
    BY DEF Provided
  <2>2. source[q] \in [kind : {"none", "file", "dir", "link"}, size : Nat, links : Nat, target : LinkTargets]
    BY <2>1, CopyAssumption
  <2> QED BY <2>1, <2>2
<1>2. Rebased(source[q].target, t) \in LinkTargets
  <2> DEFINE u == source[q].target
  <2>1. u \in LinkTargets
    BY <1>1
  <2> HIDE DEF u
  <2>2. u.to \in Clean
    BY <2>1 DEF LinkTargets
  <2>3. t \o u.to \in Clean
    BY <2>2 DEF Clean
  <2>4. Absolute(t \o u.to) \in LinkTargets
    BY <2>3 DEF Absolute, LinkTargets
  <2> QED BY <2>1, <2>4 DEF Rebased, u
<1>3. \A n : /\ Regular(n).kind = "file" /\ Regular(n).size = n
             /\ Symbolic(n).kind = "link"
             /\ Directory.kind = "dir"
  BY DEF Regular, Symbolic, Directory, Nothing
<1>4. EntryOf(t, source, q) = CASE source[q].kind = "file" -> Regular(source[q].size)
                                [] source[q].kind = "dir" -> Directory
                                [] OTHER -> Symbolic(Rebased(source[q].target, t))
  BY DEF EntryOf
<1>5. CASE source[q].kind = "file"
  <2>1. EntryOf(t, source, q) = Regular(source[q].size)
    BY <1>4, <1>5
  <2> QED BY <1>1, <1>2, <1>3, <1>5, <2>1
<1>6. CASE source[q].kind = "dir"
  <2>1. EntryOf(t, source, q) = Directory
    BY <1>4, <1>6
  <2> QED BY <1>1, <1>2, <1>3, <1>6, <2>1
<1>7. CASE source[q].kind = "link"
  <2>1. EntryOf(t, source, q) = Symbolic(Rebased(source[q].target, t))
    BY <1>4, <1>7
  <2> QED BY <1>1, <1>2, <1>3, <1>7, <2>1
<1> QED BY <1>1, <1>5, <1>6, <1>7

\* What a name leads to, it leads to when more is there.
LEMMA LeadsGrown ==
  ASSUME NEW a \in Goods, NEW b \in Goods, Grown(a, b), NEW n \in Clean
  PROVE  /\ Open(a, n).err = "ok" => Open(b, n) = Open(a, n)
         /\ \A x : Leads(a, n, x) => Leads(b, n, x)
<1>1. Open(a, n).err = "ok" => Open(b, n) = Open(a, n)
  BY FoundGrown DEF Open
<1>2. ASSUME NEW x, Leads(a, n, x) PROVE Leads(b, n, x)
  <2>1. Open(a, n).err = "ok"
    BY <1>2, EndedIs DEF Leads
  <2> QED BY <1>1, <1>2, <2>1 DEF Leads
<1> QED BY <1>1, <1>2

\* The target of a torn copy leads where it led, and no link of it is on the way to an entry.
LEMMA TornReached ==
  ASSUME NEW b, NEW t \in Clean, NEW d, NEW source \in Sources, NEW z, Torn(b, t, d, source, z),
         NEW q \in Provided(source)
  PROVE  /\ z \in Goods /\ Leads(z, t, d) /\ d \in Clean
         /\ q \in Below /\ d \o q \in Below /\ d \o q \in Clean
         /\ Reached(z, t, d, q)
         /\ source[q].kind # "link" => Direct(z, d \o q)
<1>1. z \in Goods /\ Leads(z, t, d) /\ d \in Clean
  BY LeadsGrown DEF Torn, EmptyAt
<1>2. q \in Below /\ \A i \in 1 .. Len(q) - 1 : SubSeq(q, 1, i) \in Paths /\ source[SubSeq(q, 1, i)].kind = "dir"
  BY SourceUp
<1>3. q \in Clean /\ q # Root
  BY <1>2 DEF Below
<1>4. d \o q \in Clean /\ d \o q # Root /\ Len(q) \in Nat \ {0} /\ Len(d) \in Nat /\ Len(d \o q) = Len(d) + Len(q)
      /\ parent(d \o q) = d \o parent(q)
  BY <1>1, <1>3, JoinIs
<1>5. Direct(z, d)
  BY <1>1, LeadsTo
<1> DEFINE x == d \o q
           l == Len(d)
           n == Len(q)
<1>6. ASSUME NEW i \in 1 .. Len(x), i < Len(x) \/ source[q].kind # "link"
      PROVE  KindAt(z, x, i) # "link"
  <2>1. \/ i \in 1 .. l /\ SubSeq(x, 1, i) = SubSeq(d, 1, i)
        \/ i - l \in 1 .. n /\ SubSeq(x, 1, i) = d \o SubSeq(q, 1, i - l)
    BY <1>1, <1>3, JoinedBeginnings
  <2>2. CASE i \in 1 .. l /\ SubSeq(x, 1, i) = SubSeq(d, 1, i)
    BY <1>5, <2>2 DEF Direct, KindAt
  <2>3. CASE i - l \in 1 .. n /\ SubSeq(x, 1, i) = d \o SubSeq(q, 1, i - l)
    <3> DEFINE j == i - l
               y == SubSeq(q, 1, j)
    <3>1. y \in Provided(source) /\ source[y].kind # "link" /\ y \in Below
      <4>1. j \in 1 .. n - 1 \/ j = n
        <5>1. n \in Nat /\ l \in Nat /\ j \in 1 .. n
          BY <1>4, <2>3
        <5> HIDE DEF j, n
        <5> QED BY <5>1
      <4>2. CASE j \in 1 .. n - 1
        <5> HIDE DEF j
        <5>1. y \in Paths /\ source[y].kind = "dir"
          BY <1>2, <4>2
        <5>2. y \in Clean /\ y # Root
          BY <5>1, PlacesAre
        <5> QED BY <5>1, <5>2 DEF Provided, Below
      <4>3. CASE j = n
        <5>1. y = q
          BY <1>3, <4>3 DEF Clean
        <5>2. i = Len(x)
          <6>1. i - l = n /\ Len(x) = l + n /\ l \in Nat /\ n \in Nat /\ i \in Int
            BY <1>4, <4>3
          <6> HIDE DEF l, n, x
          <6> QED BY <6>1
        <5>3. source[q].kind # "link"
          BY <1>6, <5>2
        <5> QED BY <1>2, <5>1, <5>3
      <4> QED BY <4>1, <4>2, <4>3
    <3>2. SubSeq(x, 1, i) = d \o y
      BY <2>3
    <3> HIDE DEF y, x
    <3>3. KindAt(z, x, i) = nodeAt(z, d \o y).kind
      BY <3>2 DEF KindAt
    <3>4. nodeAt(z, d \o y).kind # "none" => nodeAt(z, d \o y) = EntryOf(t, source, y)
      BY <3>1 DEF Torn
    <3>5. EntryOf(t, source, y).kind = source[y].kind
      BY <3>1, EntryKinds
    <3> QED BY <3>1, <3>3, <3>4, <3>5
  <2> QED BY <2>1, <2>2, <2>3
<1>7. source[q].kind # "link" => Direct(z, x)
  BY <1>6 DEF Direct
<1>8. Direct(z, d \o parent(q))
  <2>1. parent(x) = d \o parent(q) /\ x \in Clean /\ x # Root
    BY <1>4
  <2> HIDE DEF x
  <2>2. Len(parent(x)) = Len(x) - 1 /\ \A i \in 1 .. Len(x) - 1 : SubSeq(parent(x), 1, i) = SubSeq(x, 1, i)
    BY <2>1, NameIs
  <2>3. \A i \in 1 .. Len(parent(x)) : KindAt(z, parent(x), i) # "link"
    <3> SUFFICES ASSUME NEW i \in 1 .. Len(parent(x)) PROVE KindAt(z, parent(x), i) # "link"
      OBVIOUS
    <3>1. i \in 1 .. Len(x) - 1 /\ i \in 1 .. Len(x) /\ i < Len(x)
      <4> DEFINE k == Len(x)
      <4>1. k \in Nat /\ i \in 1 .. k - 1
        BY <2>1, <2>2, NameIs
      <4> HIDE DEF k
      <4>2. i \in 1 .. k - 1 /\ i \in 1 .. k /\ i < k
        BY <4>1
      <4> QED BY <4>2 DEF k
    <3>2. KindAt(z, parent(x), i) = KindAt(z, x, i)
      BY <2>2, <3>1 DEF KindAt
    <3> QED BY <1>6, <3>1, <3>2
  <2> QED BY <2>1, <2>3 DEF Direct
<1>9. Reached(z, t, d, q)
  BY <1>1, <1>2, <1>8 DEF Reached
<1> HIDE DEF x
<1> QED BY <1>1, <1>2, <1>4, <1>7, <1>9 DEF x, Below

\* A copy that has not put anything into the directory yet.
LEMMA TornStart ==
  ASSUME NEW b \in Goods, NEW t \in Clean, NEW d, EmptyAt(b, t, d), NEW source \in Sources
  PROVE  Torn(b, t, d, source, b)
<1>1. \A q \in Below : nodeAt(b, d \o q).kind = "none"
  <2> SUFFICES ASSUME NEW q \in Below, nodeAt(b, d \o q).kind # "none" PROVE FALSE
    OBVIOUS
  <2>1. d \in Clean /\ q \in Clean /\ q # Root
    BY DEF EmptyAt, Below
  <2>2. Prefix(d, d \o q) /\ d \o q # d /\ d \o q \in Clean /\ d \o q # Root
    BY <2>1, JoinBegins
  <2> DEFINE x == d \o q
  <2> HIDE DEF x
  <2>3. x \in Paths /\ b.at[x] # 0
    BY <2>2, ParentStands DEF x
  <2> QED BY <2>2, <2>3 DEF EmptyAt, Vacant, x
<1>2. Grown(b, b)
  BY GrownOn
<1> QED BY <1>1, <1>2 DEF Torn

\* A new entry needs a place and an identity.
LEMMA InsertNeeds ==
  ASSUME NEW m, NEW x, NEW n, Insert(m, x, n).err = "ok"
  PROVE  x \in Places /\ Fresh(m) # {}
<1> SUFFICES ASSUME x \notin Places \/ Fresh(m) = {} PROVE FALSE
  OBVIOUS
<1>1. Insert(m, x, n) = Answer(m, "bound")
  BY DEF Insert
<1>2. Answer(m, "bound").err = "bound"
  BY AnswerIs
<1> QED BY <1>1, <1>2

\* A new entry gets the first identity that is free.
LEMMA InsertFirst ==
  ASSUME NEW m \in Goods, NEW x, NEW n
  PROVE  x \in Places /\ Fresh(m) # {} =>
              LET i == Sets!Min(Fresh(m)) IN
              /\ i \in Fresh(m) /\ i \in Ids /\ Names(m, i) = {} /\ \A j \in Fresh(m) : i <= j
              /\ Insert(m, x, n).err = "ok"
              /\ Insert(m, x, n).fs.at = [m.at EXCEPT ![x] = i]
              /\ Insert(m, x, n).fs.node = [j \in Ids |-> IF j = i THEN n ELSE IF j = m.at[x] THEN Nothing ELSE m.node[j]]
              /\ Insert(m, x, n) = Answer(Insert(m, x, n).fs, "ok")
<1> DEFINE i == Sets!Min(Fresh(m))
           o == m.at[x]
           k == [at   |-> [m.at EXCEPT ![x] = i],
                 node |-> [j \in Ids |-> IF j = i THEN n ELSE IF j = o THEN Nothing ELSE m.node[j]],
                 used |-> m.used + n.size]
           r == Insert(m, x, n)
<1>1. x \in Places /\ Fresh(m) # {} => r = Answer(k, "ok")
  BY DEF Insert, Then
<1>3. Fresh(m) # {} => i \in Fresh(m) /\ \A j \in Fresh(m) : i <= j
  <2>1. Fresh(m) \subseteq Nat
    BY PlacesAre DEF Fresh
  <2>2. Fresh(m) # {} => \E a \in Fresh(m) : \A y \in Fresh(m) : a <= y
    BY <2>1, MinimumExists
  <2> QED BY <2>2 DEF Sets!Min
<1>4. i \in Fresh(m) => i \in Ids /\ Names(m, i) = {}
  BY DEF Fresh
<1>5. /\ k.at = [m.at EXCEPT ![x] = i]
      /\ k.node = [j \in Ids |-> IF j = i THEN n ELSE IF j = o THEN Nothing ELSE m.node[j]]
  OBVIOUS
<1> HIDE DEF i, r, k
<1>6. r = Answer(k, "ok") => r.fs = k /\ r.err = "ok"
  BY AnswerIs
<1> QED BY <1>1, <1>3, <1>4, <1>5, <1>6 DEF i, r

\* An identity that has names has them when more is there.
LEMMA NamesGrown ==
  ASSUME NEW a, NEW b, Grown(a, b), NEW i \in Ids
  PROVE  Names(a, i) # {} => Names(b, i) # {}
<1> SUFFICES ASSUME NEW p \in Places, a.at[p] = i PROVE \E q \in Places : b.at[q] = i
  BY DEF Names
<1>1. a.at[p] # 0
  BY PlacesAre
<1> QED BY <1>1 DEF Grown

\* k is what a torn copy leaves when the entry q is put into z.
Put(b, t, d, source, z, q, k) ==
  /\ Torn(b, t, d, source, k) /\ Grown(z, k) /\ nodeAt(k, d \o q) = EntryOf(t, source, q)
  /\ \A y : y # d \o q => nodeAt(k, y) = nodeAt(z, y)

\* A torn copy gets another entry where there was nothing.
LEMMA TornInsert ==
  ASSUME NEW b, NEW t \in Clean, NEW d, NEW source \in Sources, NEW z, Torn(b, t, d, source, z),
         NEW q \in Provided(source), nodeAt(z, d \o q).kind = "none", nodeAt(z, parent(d \o q)).kind = "dir",
         Fits(z, EntryOf(t, source, q)), NEW r, r = Insert(z, d \o q, EntryOf(t, source, q)), r.err = "ok"
  PROVE  Put(b, t, d, source, z, q, r.fs)
<1> DEFINE x == d \o q
           n == EntryOf(t, source, q)
           k == r.fs
<1>1. z \in Goods /\ d \in Clean /\ q \in Below /\ x \in Below /\ q \in Clean
  BY TornReached, SourceUp DEF Below
<1>2. k \in Goods /\ Grown(z, k) /\ nodeAt(k, x) = n /\ \A y : y # x => nodeAt(k, y) = nodeAt(z, y)
  <2> HIDE DEF x, n
  <2>1. Fits(z, n) /\ nodeAt(z, x).kind = "none" /\ nodeAt(z, parent(x)).kind = "dir" /\ r = Insert(z, x, n) /\ z \in Goods /\ x \in Below
    BY <1>1 DEF x, n
  <2> QED BY <2>1, InsertGrows
<1>3. b \in Goods /\ EmptyAt(b, t, d) /\ Grown(b, z)
  BY DEF Torn
<1>4. Grown(b, k)
  BY <1>2, <1>3, GrownOn
<1>5. ASSUME NEW p \in Below, nodeAt(k, d \o p).kind # "none"
      PROVE  p \in Provided(source) /\ nodeAt(k, d \o p) = EntryOf(t, source, p)
  <2>1. p \in Clean
    BY DEF Below
  <2>2. CASE d \o p = x
    <3>1. p = q
      BY <1>1, <2>1, <2>2, JoinedAre
    <3> QED BY <1>2, <3>1
  <2>3. CASE d \o p # x
    <3>1. nodeAt(k, d \o p) = nodeAt(z, d \o p)
      BY <1>2, <2>3
    <3> QED BY <1>5, <3>1 DEF Torn
  <2> QED BY <2>2, <2>3
<1>6. ASSUME NEW p \in Below, nodeAt(k, d \o p).kind = "link", NEW i \in Ids, i < k.at[d \o p]
      PROVE  Names(k, i) # {}
  <2>1. Names(z, i) # {} => Names(k, i) # {}
    BY <1>2, NamesGrown
  <2>2. CASE d \o p = x
    <3>1. x \in Places /\ Fresh(z) # {}
      <4> HIDE DEF x, n
      <4>1. Insert(z, x, n).err = "ok"
        BY DEF x, n
      <4> QED BY <4>1, InsertNeeds
    <3> DEFINE f == Sets!Min(Fresh(z))
    <3>2. (\A j \in Fresh(z) : f <= j) /\ k.at = [z.at EXCEPT ![x] = f] /\ f \in Ids
      BY <1>1, <3>1, InsertFirst
    <3> HIDE DEF f, k
    <3>3. z.at \in [Places -> Ids \cup {0}]
      BY <1>1, GoodsAre DEF Memories
    <3>4. k.at[x] = f
      BY <3>1, <3>2, <3>3
    <3>5. i < f /\ i \in Nat /\ f \in Nat
      BY <1>6, <2>2, <3>2, <3>4, PlacesAre
    <3>6. i \notin Fresh(z)
      BY <3>2, <3>5
    <3>7. Names(z, i) # {}
      BY <3>6 DEF Fresh
    <3> QED BY <2>1, <3>7
  <2>3. CASE d \o p # x
    <3>1. nodeAt(z, d \o p).kind = "link"
      BY <1>2, <1>6, <2>3
    <3>2. d \o p \in Places /\ z.at[d \o p] # 0
      <4>1. d \o p \in Clean /\ d \o p # Root
        <5>1. p \in Clean /\ p # Root
          BY DEF Below
        <5> QED BY <1>1, <5>1, JoinIs
      <4> QED BY <1>1, <3>1, <4>1, ParentStands, PlacesAre
    <3>3. k.at[d \o p] = z.at[d \o p]
      BY <1>2, <3>2 DEF Grown
    <3>4. Names(z, i) # {}
      <4> HIDE DEF k
      <4>1. i < z.at[d \o p]
        BY <1>6, <3>3
      <4> QED BY <3>1, <4>1 DEF Torn
    <3> QED BY <2>1, <3>4
  <2> QED BY <2>2, <2>3
<1>7. Torn(b, t, d, source, k)
  <2> HIDE DEF k
  <2> QED BY <1>2, <1>3, <1>4, <1>5, <1>6 DEF Torn
<1> HIDE DEF k
<1>8. Put(b, t, d, source, z, q, k)
  BY <1>2, <1>7 DEF Put
<1> QED BY <1>8 DEF k

\* A link goes, and nothing else.
LEMMA LinkGone ==
  ASSUME NEW m \in Goods, NEW x \in Below, nodeAt(m, x).kind = "link"
  PROVE  LET g == Gone(m, {x})
             i == m.at[x]
         IN  /\ Under(m, x) = {x} /\ g \in Goods /\ x \in Places /\ i \in Ids /\ Names(m, i) = {x} /\ Names(g, i) = {}
             /\ g.at[x] = 0 /\ \A p \in Places : p # x => g.at[p] = m.at[p] /\ m.at[p] # i
             /\ \A j \in Ids : j # i => g.node[j] = m.node[j] /\ Names(g, j) = Names(m, j)
             /\ m.node[i] = nodeAt(m, x)
             /\ \A y : y # x => nodeAt(g, y) = nodeAt(m, y)
             /\ nodeAt(g, x).kind = "none"
<1> DEFINE g == Gone(m, {x})
           i == m.at[x]
<1>1. x \in Clean /\ x # Root /\ m \in Memories /\ m \in Tables /\ Counted(m)
  BY GoodsAre DEF Below
<1>2. x \in Paths /\ m.at[x] # 0 /\ x \in Places
  BY <1>1, ParentStands, PlacesAre
<1>3. Names(m, i) = {x} /\ i \in Ids /\ nodeAt(m, x) = m.node[i]
  BY <1>1, <1>2, OnlyName, NamedIs
<1>4. ASSUME NEW p \in Paths, m.at[p] # 0, Prefix(x, p) PROVE p = x
  <2> SUFFICES ASSUME p # x PROVE FALSE
    OBVIOUS
  <2>1. nodeAt(m, x).kind = "dir"
    BY <1>1, <1>4, Ancestors
  <2> QED BY <2>1
<1>5. Under(m, x) = {x}
  <2>1. \A p : Within(x, p) <=> Prefix(x, p)
    BY DEF Within, Prefix
  <2>2. Prefix(x, x)
    BY <1>1 DEF Prefix, Clean
  <2> QED BY <1>2, <1>4, <2>1, <2>2 DEF Under
<1>6. g \in Goods
  <2>1. ASSUME NEW p \in Paths, m.at[p] # 0, parent(p) \in {x} PROVE p \in {x}
    <3>1. nodeAt(m, parent(p)).kind = "dir"
      BY <1>1, <2>1, GoodsAre DEF Treed
    <3> QED BY <2>1, <3>1
  <2>2. {x} \in SUBSET Paths
    BY <1>2
  <2> DEFINE s == {x}
  <2>3. s \in SUBSET Paths /\ \A p \in Paths : m.at[p] # 0 /\ parent(p) \in s => p \in s
    BY <2>1, <2>2
  <2> HIDE DEF s
  <2>4. Gone(m, s) \in Goods
    BY <2>3, GoneGood
  <2> QED BY <2>4 DEF s
<1>7. /\ \A p \in Places : g.at[p] = IF p \in {x} THEN 0 ELSE m.at[p]
      /\ \A j \in Ids : Names(g, j) = Names(m, j) \ {x}
  <2>1. {x} \in SUBSET Places
    BY <1>2
  <2> QED BY <1>1, <2>1, GoneIs
<1>8. \A p \in Places : p # x => m.at[p] # i
  BY <1>3, NamesAre
<1>9. ASSUME NEW j \in Ids, j # i PROVE g.node[j] = m.node[j] /\ Names(g, j) = Names(m, j)
  <2>1. x \notin Names(m, j)
    BY <1>9 DEF Names
  <2>2. Names(m, j) \ {x} = Names(m, j)
    BY <2>1
  <2>3. g.node[j] = GoneNodes(m, {x})[j]
    BY DEF Gone
  <2>4. Sound(m.node[j]) /\ m.node[j].links = Cardinality(Names(m, j)) /\ m.node[j] \in Node
    BY <1>1, SizesAre DEF Counted
  <2>5. CASE Names(m, j) = {}
    <3>1. GoneNodes(m, {x})[j] = Nothing
      BY <2>2, <2>5, LostNode
    <3>2. m.node[j].links = 0
      BY <2>4, <2>5, NamesAre
    <3>3. m.node[j] = Nothing
      BY <2>4, <3>2, NothingIs
    <3> QED BY <1>7, <2>2, <2>3, <3>1, <3>3
  <2>6. CASE Names(m, j) # {}
    <3>1. GoneNodes(m, {x})[j] = Linked(m.node[j], Cardinality(Names(m, j)))
      <4> DEFINE s == {x}
      <4>1. Names(m, j) \ s # {} /\ Names(m, j) \ s = Names(m, j) /\ m \in Tables
        BY <1>1, <2>2, <2>6
      <4> HIDE DEF s
      <4>2. GoneNodes(m, s)[j] = Linked(m.node[j], Cardinality(Names(m, j) \ s))
        BY <4>1, LeftNode
      <4>3. GoneNodes(m, s)[j] = Linked(m.node[j], Cardinality(Names(m, j)))
        BY <4>1, <4>2
      <4> QED BY <4>3 DEF s
    <3> DEFINE n == m.node[j]
    <3>2. n \in Node /\ n.links = Cardinality(Names(m, j))
      BY <2>4
    <3> HIDE DEF n
    <3>3. Linked(n, n.links) = n
      BY <3>2 DEF Linked, Node
    <3>4. GoneNodes(m, {x})[j] = n
      BY <3>1, <3>2, <3>3 DEF n
    <3> QED BY <1>7, <2>2, <2>3, <3>4 DEF n
  <2> QED BY <2>5, <2>6
<1>10. g.at[x] = 0 /\ Names(g, i) = {} /\ \A p \in Places : p # x => g.at[p] = m.at[p]
  BY <1>2, <1>3, <1>7
<1> HIDE DEF g, i
<1>11. \A y : y # x => nodeAt(g, y) = nodeAt(m, y)
  <2> SUFFICES ASSUME NEW y, y # x PROVE nodeAt(g, y) = nodeAt(m, y)
    OBVIOUS
  <2>1. y \in Places => g.at[y] = m.at[y] /\ m.at[y] # i
    BY <1>8, <1>10
  <2>2. y \in Places => m.at[y] \in Ids \cup {0}
    BY <1>1 DEF Memories
  <2>3. y \in Places /\ m.at[y] # 0 => g.node[m.at[y]] = m.node[m.at[y]]
    BY <1>9, <2>1, <2>2
  <2> QED BY <2>1, <2>3 DEF nodeAt
<1>12. nodeAt(g, x).kind = "none"
  BY <1>10, NothingIs DEF nodeAt
<1> QED BY <1>2, <1>3, <1>5, <1>6, <1>8, <1>9, <1>10, <1>11, <1>12 DEF g, i

\* The same link again, which gets the identity it had, is as if nothing was done.
LEMMA LinkBack ==
  ASSUME NEW m \in Goods, NEW x \in Below, NEW to \in LinkTargets, nodeAt(m, x) = Symbolic(to),
         \A j \in Ids : j < m.at[x] => Names(m, j) # {}
  PROVE  Insert(Gone(m, {x}), x, Symbolic(to)) = Answer(m, "ok")
<1> DEFINE g == Gone(m, {x})
           i == m.at[x]
           n == Symbolic(to)
           r == Insert(g, x, n)
           k == r.fs
           f == Sets!Min(Fresh(g))
<1>1. nodeAt(m, x).kind = "link"
  BY DEF Symbolic, Nothing
<1>2. /\ g \in Goods /\ x \in Places /\ i \in Ids /\ Names(g, i) = {}
      /\ g.at[x] = 0 /\ \A p \in Places : p # x => g.at[p] = m.at[p]
      /\ \A j \in Ids : j # i => g.node[j] = m.node[j] /\ Names(g, j) = Names(m, j)
      /\ m.node[i] = n
      /\ \A y : y # x => nodeAt(g, y) = nodeAt(m, y)
      /\ nodeAt(g, x).kind = "none"
  <2>1. g \in Goods /\ x \in Places /\ i \in Ids /\ Names(g, i) = {} /\ g.at[x] = 0
    BY <1>1, LinkGone
  <2>3. \A p \in Places : p # x => g.at[p] = m.at[p] /\ m.at[p] # i
    BY Zenon, <1>1, LinkGone
  <2>4. \A j \in Ids : j # i => g.node[j] = m.node[j] /\ Names(g, j) = Names(m, j)
    BY <1>1, LinkGone
  <2>2. /\ m.node[i] = nodeAt(m, x)
        /\ \A y : y # x => nodeAt(g, y) = nodeAt(m, y)
        /\ nodeAt(g, x).kind = "none"
    BY <1>1, LinkGone
  <2> HIDE DEF g, i
  <2> QED BY <2>1, <2>2, <2>3, <2>4
<1> HIDE DEF g
<1>3. i \in Fresh(g)
  BY <1>2 DEF Fresh
<1>4. /\ f \in Fresh(g) /\ f \in Ids /\ Names(g, f) = {} /\ f <= i
      /\ r.err = "ok" /\ r = Answer(k, "ok")
      /\ k.at = [g.at EXCEPT ![x] = f]
      /\ k.node = [j \in Ids |-> IF j = f THEN n ELSE IF j = g.at[x] THEN Nothing ELSE g.node[j]]
  <2> HIDE DEF n, i, f
  <2>1. Fresh(g) # {} /\ x \in Places
    BY <1>2, <1>3
  <2> QED BY <1>2, <1>3, <2>1, InsertFirst DEF f
<1>5. f = i
  <2> SUFFICES ASSUME f # i PROVE FALSE
    OBVIOUS
  <2> HIDE DEF f, r
  <2>1. f \in Nat /\ i \in Nat
    BY <1>2, <1>4, PlacesAre
  <2>2. f < i
    <3> HIDE DEF i
    <3> QED BY <1>4, <2>1
  <2>3. Names(m, f) # {}
    BY <1>4, <2>2
  <2>4. Names(g, f) = Names(m, f)
    BY <1>2, <1>4
  <2> QED BY <1>4, <2>3, <2>4
<1>6. k \in Goods
  <2> HIDE DEF k, f
  <2>1. Fits(g, n)
    BY <1>2, NewFits
  <2>2. nodeAt(g, parent(x)).kind = "dir"
    <3>1. x \in Clean /\ x # Root
      BY DEF Below
    <3>2. nodeAt(m, parent(x)).kind = "dir"
      BY <1>1, <3>1, ParentStands
    <3>3. parent(x) # x
      BY <3>1, UpOf
    <3> QED BY <1>2, <3>2, <3>3
  <2> HIDE DEF n
  <2>3. Insert(g, x, n).err = "ok"
    BY <1>4
  <2>4. Insert(g, x, n).fs \in Goods
    BY <1>2, <2>1, <2>2, <2>3, InsertGrows
  <2> QED BY <2>4 DEF k
<1> HIDE DEF n, f, r, k
<1>7. m \in Memories /\ k \in Memories /\ g \in Memories /\ Charged(m) /\ Charged(k)
  BY <1>2, <1>6, GoodsAre
<1>8. k.at = m.at
  <2>1. k.at = [p \in Places |-> IF p = x THEN i ELSE g.at[p]]
    BY <1>2, <1>4, <1>5, <1>7 DEF Memories
  <2>2. m.at = [p \in Places |-> m.at[p]]
    BY <1>7 DEF Memories
  <2>3. \A p \in Places : (IF p = x THEN i ELSE g.at[p]) = m.at[p]
    BY <1>2
  <2> QED BY <2>1, <2>2, <2>3
<1>9. k.node = m.node
  <2>1. m.node = [j \in Ids |-> m.node[j]]
    BY <1>7 DEF Memories
  <2>2. \A j \in Ids : (IF j = f THEN n ELSE IF j = g.at[x] THEN Nothing ELSE g.node[j]) = m.node[j]
    BY <1>2, <1>5, PlacesAre
  <2> QED BY <1>4, <2>1, <2>2
<1>10. k = m
  <2>1. k.used = m.used
    BY <1>7, <1>9 DEF Charged
  <2> QED BY <1>7, <1>8, <1>9, <2>1, SameMemory
<1> QED BY <1>4, <1>10 DEF r, g, n

\* A link that a torn copy made is made again as if nothing was done.
LEMMA RelinkSame ==
  ASSUME NEW b, NEW t \in Clean, NEW d, NEW source \in Sources, NEW z, Torn(b, t, d, source, z),
         NEW q \in Provided(source), source[q].kind = "link", nodeAt(z, d \o q).kind # "none"
  PROVE  \E g \in Goods : /\ removeAll(z, t \o q) = Answer(g, "ok")
                          /\ symlink(g, Rebased(source[q].target, t), t \o q) = Answer(z, "ok")
<1> DEFINE x == d \o q
           to == Rebased(source[q].target, t)
           g == Gone(z, {x})
<1>1. /\ z \in Goods /\ Leads(z, t, d) /\ d \in Clean /\ q \in Below /\ x \in Below /\ Reached(z, t, d, q)
  BY TornReached
<1>2. EntryOf(t, source, q).kind = "link" /\ EntryOf(t, source, q) = Symbolic(to) /\ to \in LinkTargets
  BY EntryKinds
<1>3. nodeAt(z, x) = Symbolic(to) /\ nodeAt(z, x).kind = "link" /\ \A j \in Ids : j < z.at[x] => Names(z, j) # {}
  <2>1. nodeAt(z, x) = EntryOf(t, source, q)
    BY <1>1 DEF Torn
  <2>2. nodeAt(z, x).kind = "link"
    BY <1>2, <2>1
  <2>3. \A j \in Ids : j < z.at[x] => Names(z, j) # {}
    BY <1>1, <2>2 DEF Torn
  <2> HIDE DEF x, to
  <2> QED BY <1>2, <2>1, <2>2, <2>3
<1> HIDE DEF to
<1>4. Insert(g, x, Symbolic(to)) = Answer(z, "ok")
  <2> HIDE DEF x
  <2> QED BY <1>1, <1>2, <1>3, LinkBack
<1>5. Under(z, x) = {x} /\ g \in Goods /\ g.at[x] = 0 /\ nodeAt(g, x).kind = "none"
  BY <1>1, <1>3, LinkGone
<1>6. \A y : y # x => nodeAt(g, y) = nodeAt(z, y)
  BY <1>1, <1>3, LinkGone
<1>7. \A p \in Places : p # x => g.at[p] = z.at[p] /\ z.at[p] # z.at[x]
  <2> HIDE DEF x
  <2> QED BY Zenon, <1>1, <1>3, LinkGone
<1>8. removeAll(z, t \o q) = Answer(g, "ok")
  BY <1>1, <1>3, <1>5, RemoveAllDoes
<1> HIDE DEF g
<1>9. b \in Goods /\ EmptyAt(b, t, d) /\ Grown(b, z)
  BY DEF Torn
<1>10. x \in Clean /\ x # Root /\ x \in Paths /\ parent(x) = d \o parent(q) /\ b.at[x] = 0
  <2>1. q \in Clean /\ q # Root /\ x \in Clean /\ x # Root
    BY <1>1 DEF Below
  <2>2. parent(x) = d \o parent(q)
    BY <1>1, <2>1, JoinIs
  <2>3. Prefix(d, x) /\ x # d
    BY <1>1, <2>1, JoinBegins
  <2> HIDE DEF x
  <2>4. x \in Paths
    BY <1>1, <1>3, <2>1, ParentStands
  <2> QED BY <1>9, <2>1, <2>2, <2>3, <2>4 DEF EmptyAt, Vacant
<1>11. Grown(b, g)
  <2> SUFFICES ASSUME NEW p \in Places, b.at[p] # 0 PROVE g.at[p] = b.at[p] /\ nodeAt(g, p) = nodeAt(b, p)
    BY DEF Grown
  <2>1. z.at[p] = b.at[p] /\ nodeAt(z, p) = nodeAt(b, p)
    BY <1>9 DEF Grown
  <2>2. p # x
    BY <1>10
  <2> QED BY <1>6, <1>7, <2>1, <2>2
<1>12. Leads(g, t, d)
  <2>1. Leads(b, t, d)
    BY <1>9 DEF EmptyAt
  <2> QED BY <1>5, <1>9, <1>11, <2>1, LeadsGrown
<1>13. Reached(g, t, d, q)
  <2>1. Direct(z, d \o parent(q))
    BY <1>1 DEF Reached
  <2> DEFINE u == d \o parent(q)
  <2>2. ASSUME NEW i \in 1 .. Len(u) PROVE KindAt(g, u, i) # "link"
    <3> DEFINE y == SubSeq(u, 1, i)
    <3>1. nodeAt(z, y).kind # "link"
      BY <2>1 DEF Direct, KindAt
    <3> HIDE DEF y
    <3>2. nodeAt(g, y).kind # "link"
      BY <1>5, <1>6, <3>1
    <3> QED BY <3>2 DEF KindAt, y
  <2>3. Direct(g, u)
    BY <2>2 DEF Direct
  <2> QED BY <1>1, <1>12, <2>3 DEF Reached
<1>14. nodeAt(g, parent(x)).kind = "dir"
  <2> HIDE DEF x
  <2>1. nodeAt(z, parent(x)).kind = "dir" /\ parent(x) # x
    BY <1>1, <1>3, <1>10, ParentStands, UpOf
  <2> QED BY <1>6, <2>1
<1>15. symlink(g, to, t \o q) = Insert(g, x, Symbolic(to))
  BY <1>5, <1>13, <1>14, SymlinkDoes
<1> QED BY <1>4, <1>5, <1>8, <1>15 DEF to

\* Where there is nothing, nothing is removed.
LEMMA RemoveNone ==
  ASSUME NEW b, NEW t \in Clean, NEW d, NEW source \in Sources, NEW z, Torn(b, t, d, source, z),
         NEW q \in Provided(source), nodeAt(z, d \o q).kind = "none", NEW k, removeAll(z, t \o q) = Answer(k, "ok")
  PROVE  k = z
<1> DEFINE r == removeAll(z, t \o q)
<1>1. z \in Goods /\ Reached(z, t, d, q)
  BY TornReached
<1>2. r.err = "ok" /\ r.fs = k
  BY AnswerIs
<1>3. r = Answer(z, "ok")
  BY <1>1, <1>2, RemoveAllDoes
<1> HIDE DEF r
<1> QED BY <1>2, <1>3, AnswerIs

\* A link is made.
LEMMA TornLinks ==
  ASSUME NEW b, NEW t \in Clean, NEW d, NEW source \in Sources, NEW z, Torn(b, t, d, source, z),
         NEW q \in Provided(source), source[q].kind = "link",
         NEW k, symlink(z, Rebased(source[q].target, t), t \o q) = Answer(k, "ok")
  PROVE  Put(b, t, d, source, z, q, k)
<1> DEFINE to == Rebased(source[q].target, t)
           r == symlink(z, to, t \o q)
           n == EntryOf(t, source, q)
<1>1. z \in Goods /\ Reached(z, t, d, q)
  BY TornReached
<1>2. n.kind = "link" /\ n = Symbolic(to) /\ to \in LinkTargets
  BY EntryKinds
<1>3. r.err = "ok" /\ r.fs = k
  BY AnswerIs
<1> HIDE DEF to, n
<1>4. nodeAt(z, d \o q).kind = "none" /\ nodeAt(z, parent(d \o q)).kind = "dir" /\ r = Insert(z, d \o q, Symbolic(to))
  BY <1>1, <1>3, SymlinkDoes
<1>5. Fits(z, n) /\ r = Insert(z, d \o q, n)
  BY <1>1, <1>2, <1>4, NewFits
<1> HIDE DEF r
<1>6. Fits(z, EntryOf(t, source, q)) /\ r = Insert(z, d \o q, EntryOf(t, source, q))
  BY <1>5 DEF n
<1>7. Put(b, t, d, source, z, q, r.fs)
  BY <1>3, <1>4, <1>6, TornInsert
<1> QED BY <1>3, <1>7

\* A file that gets the size it has is as if nothing was done.
LEMMA ResizedSame ==
  ASSUME NEW m \in Goods, NEW x, nodeAt(m, x).kind = "file", NEW size \in Nat, nodeAt(m, x).size = size
  PROVE  resized(m, m.at[x], size) = Answer(m, "ok")
<1> DEFINE i == m.at[x]
           w == overwrite(m, i, size)
<1>1. x \in Places /\ i \in Ids /\ nodeAt(m, x) = m.node[i] /\ m \in Memories /\ Charged(m)
  BY GoodsAre, NodeAt
<1>2. m.node[i].size = size /\ m \in [at : [Places -> Ids \cup {0}], node : [Ids -> Node], used : Nat]
  BY <1>1 DEF Memories
<1> HIDE DEF i
<1>3. w = m
  <2>1. w = [m EXCEPT !.node = [m.node EXCEPT ![i] = [m.node[i] EXCEPT !.size = size]], !.used = m.used + size - m.node[i].size]
    BY DEF overwrite
  <2>2. [m.node[i] EXCEPT !.size = size] = m.node[i]
    <3> DEFINE e == m.node[i]
    <3>1. e \in Node /\ e.size = size
      BY <1>1, <1>2
    <3> HIDE DEF e
    <3>2. [e EXCEPT !.size = size] = e
      BY <3>1 DEF Node
    <3> QED BY <3>2 DEF e
  <2>3. [m.node EXCEPT ![i] = m.node[i]] = m.node
    BY <1>1, <1>2
  <2>4. m.used + size - m.node[i].size = m.used
    BY <1>2
  <2>5. [m EXCEPT !.node = m.node, !.used = m.used] = m
    BY <1>2
  <2> QED BY <2>1, <2>2, <2>3, <2>4, <2>5
<1>4. ~ReachesQuota(m, size - m.node[i].size)
  <2>1. m.used \in Nat /\ (Limit > 0 => m.used <= Limit)
    BY <1>1, <1>2 DEF Charged
  <2>2. size - m.node[i].size = 0 /\ m.used + 0 = m.used
    BY <1>2, <2>1
  <2> QED BY <2>1, <2>2, MemoryAssumption DEF ReachesQuota
<1>5. resized(m, i, size) = Answer(w, "ok")
  BY <1>4 DEF resized
<1> QED BY <1>3, <1>5 DEF i

\* A file is written.
LEMMA TornWrites ==
  ASSUME NEW b, NEW t \in Clean, NEW d, NEW source \in Sources, NEW z, Torn(b, t, d, source, z),
         NEW q \in Provided(source), source[q].kind = "file",
         NEW k, writeFile(z, t \o q, source[q].size) = Answer(k, "ok")
  PROVE  Put(b, t, d, source, z, q, k)
<1> DEFINE size == source[q].size
           r == writeFile(z, t \o q, size)
           n == EntryOf(t, source, q)
           x == d \o q
<1>1. z \in Goods /\ Reached(z, t, d, q) /\ Direct(z, x) /\ q \in Below
  BY TornReached
<1>2. n.kind = "file" /\ n = Regular(size) /\ n.size = size /\ size \in Nat
  BY EntryKinds
<1>3. r.err = "ok" /\ r.fs = k
  BY AnswerIs
<1> HIDE DEF n, size
<1>4. CASE nodeAt(z, x).kind = "none"
  <2>1. nodeAt(z, parent(x)).kind = "dir" /\ ~ReachesQuota(z, size) /\ r = Insert(z, x, Regular(size))
    BY <1>1, <1>3, <1>4, WriteDoes
  <2>2. Fits(z, n) /\ r = Insert(z, x, n)
    BY <1>1, <1>2, <2>1, NewFits
  <2> HIDE DEF r
  <2>3. Fits(z, EntryOf(t, source, q)) /\ r = Insert(z, d \o q, EntryOf(t, source, q))
    BY <2>2 DEF n
  <2>4. Put(b, t, d, source, z, q, r.fs)
    BY <1>3, <1>4, <2>1, <2>3, TornInsert
  <2> QED BY <1>3, <2>4
<1>5. CASE nodeAt(z, x).kind # "none"
  <2>1. nodeAt(z, x) = n
    BY <1>1, <1>5 DEF Torn, n
  <2>2. r = resized(z, z.at[x], size)
    BY <1>1, <1>2, <2>1, WriteDoes
  <2>3. nodeAt(z, x).kind = "file" /\ nodeAt(z, x).size = size
    BY <1>2, <2>1
  <2> HIDE DEF x
  <2>4. resized(z, z.at[x], size) = Answer(z, "ok")
    BY <1>1, <1>2, <2>3, ResizedSame
  <2>5. k = z
    <3> HIDE DEF r
    <3>1. r.fs = z
      BY <2>2, <2>4, AnswerIs
    <3> QED BY <1>3, <3>1
  <2>6. Grown(z, z)
    BY GrownOn
  <2>7. Put(b, t, d, source, z, q, z)
    BY <2>1, <2>6 DEF Put, n, x
  <2> QED BY <2>5, <2>7
<1> QED BY <1>4, <1>5

\* A directory that is there is not made.
LEMMA MkdirFound ==
  ASSUME NEW m, NEW n, Open(m, n).err = "ok"
  PROVE  mkdirStep(m, n) = Answer(m, "ok")
<1> DEFINE w == mkdir(m, n)
<1>1. mkdirStep(m, n) = IF w.err = "exist" THEN Answer(m, "ok") ELSE w
  BY DEF mkdirStep, Then
<1>2. w = Answer(m, "exist")
  BY DEF mkdir, Then
<1> HIDE DEF w
<1> QED BY <1>1, <1>2, AnswerIs

\* A file that has its size is not changed.
LEMMA WriteFound ==
  ASSUME NEW m \in Goods, NEW n, Open(m, n).err = "ok", NEW size \in Nat,
         nodeAt(m, Open(m, n).at).kind = "file", nodeAt(m, Open(m, n).at).size = size
  PROVE  writeFile(m, n, size) = Answer(m, "ok")
<1> DEFINE found == Open(m, n)
<1>1. writeFile(m, n, size) = resized(m, m.at[found.at], size)
  BY DEF writeFile, Then
<1>2. resized(m, m.at[found.at], size) = Answer(m, "ok")
  <2> HIDE DEF found
  <2> DEFINE x == found.at
  <2>1. nodeAt(m, x).kind = "file" /\ nodeAt(m, x).size = size
    BY DEF found
  <2> HIDE DEF x
  <2>2. resized(m, m.at[x], size) = Answer(m, "ok")
    BY <2>1, ResizedSame
  <2> QED BY <2>2 DEF x
<1> QED BY <1>1, <1>2

\* A directory is made.
LEMMA TornMakes ==
  ASSUME NEW b, NEW t \in Clean, NEW d, NEW source \in Sources, NEW z, Torn(b, t, d, source, z),
         NEW x \in Dirs(t, source), x \in Beginnings(t) => Open(z, x).err = "ok",
         NEW k, mkdirStep(z, x) = Answer(k, "ok")
  PROVE  /\ Torn(b, t, d, source, k) /\ Grown(z, k) /\ Open(k, x).err = "ok"
         /\ \A y : nodeAt(k, y).kind = "link" => nodeAt(z, y).kind = "link"
<1>1. CASE Open(z, x).err = "ok"
  <2>1. mkdirStep(z, x) = Answer(z, "ok")
    BY <1>1, MkdirFound
  <2>2. k = z
    BY <2>1, AnswerIs
  <2> QED BY <1>1, <2>2, GrownOn
<1>2. CASE Open(z, x).err # "ok"
  <2>1. PICK q \in Paths : x = t \o q /\ source[q].kind = "dir"
    BY <1>2 DEF Dirs, Held
  <2>2. q \in Provided(source)
    BY <2>1 DEF Provided
  <2> DEFINE y == d \o q
             r == mkdirStep(z, t \o q)
             n == EntryOf(t, source, q)
  <2>3. z \in Goods /\ Reached(z, t, d, q) /\ Direct(z, y)
    BY <2>1, <2>2, TornReached
  <2>4. n.kind = "dir" /\ n = Directory
    BY <2>1, <2>2, EntryKinds
  <2>5. r.err = "ok" /\ r.fs = k
    BY <2>1, AnswerIs
  <2> HIDE DEF n
  <2>6. nodeAt(z, y).kind = "none"
    <3>1. nodeAt(z, y).kind # "none" => Open(z, t \o q).err = "ok"
      BY <2>3, ReachedOpens
    <3> QED BY <1>2, <2>1, <3>1
  <2>7. nodeAt(z, parent(y)).kind = "dir" /\ r = Insert(z, y, Directory)
    BY <2>3, <2>5, <2>6, MkdirDoes
  <2>8. Fits(z, n) /\ r = Insert(z, y, n)
    BY <2>3, <2>4, <2>7, NewFits
  <2> HIDE DEF r
  <2>9. Put(b, t, d, source, z, q, r.fs)
    <3>1. Fits(z, EntryOf(t, source, q)) /\ r = Insert(z, d \o q, EntryOf(t, source, q))
      BY <2>8 DEF n
    <3> QED BY <2>2, <2>5, <2>6, <2>7, <3>1, TornInsert
  <2>10. Torn(b, t, d, source, k) /\ Grown(z, k) /\ nodeAt(k, y).kind = "dir" /\ \A u : u # y => nodeAt(k, u) = nodeAt(z, u)
    BY <2>4, <2>5, <2>9 DEF Put, n
  <2>11. k \in Goods /\ Reached(k, t, d, q) /\ Direct(k, y)
    BY <2>1, <2>2, <2>10, TornReached
  <2>12. Open(k, t \o q).err = "ok"
    BY <2>10, <2>11, ReachedOpens
  <2> HIDE DEF y
  <2>13. \A u : nodeAt(k, u).kind = "link" => nodeAt(z, u).kind = "link"
    BY <2>10
  <2> QED BY <2>1, <2>10, <2>12, <2>13
<1> QED BY <1>1, <1>2

\* What a call of a copy made is there.
Stands(k, t, d, c) ==
  /\ c.op \in {"mkdir", "write"} => Open(k, c.name).err = "ok"
  /\ c.op = "write" => nodeAt(k, Open(k, c.name).at).kind = "file" /\ nodeAt(k, Open(k, c.name).at).size = c.node.size
  /\ c.op = "symlink" => \A q \in Below : c.name = t \o q => nodeAt(k, d \o q).kind # "none"

\* One of the first j calls makes a link of that name.
LinkedBy(calls, name, j) == \E i \in 1 .. Len(calls) : i <= j /\ calls[i].op = "symlink" /\ calls[i].name = name

\* The links below d are made by the first j calls.
LinksBy(k, t, d, calls, j) == \A q \in Below : nodeAt(k, d \o q).kind = "link" => LinkedBy(calls, t \o q, j)

\* What stands goes on to stand when more comes.
LEMMA StandsOn ==
  ASSUME NEW a \in Goods, NEW b \in Goods, Grown(a, b), NEW t, NEW d, NEW c, c.name \in Clean, Stands(a, t, d, c)
  PROVE  Stands(b, t, d, c)
<1> DEFINE n == c.name
           x == Open(a, n).at
<1>1. ASSUME c.op \in {"mkdir", "write"} PROVE Open(a, n).err = "ok" /\ Open(b, n) = Open(a, n)
  <2>1. Open(a, n).err = "ok"
    BY <1>1 DEF Stands
  <2> QED BY <2>1, LeadsGrown
<1>2. ASSUME c.op = "write" PROVE nodeAt(b, x).kind = "file" /\ nodeAt(b, x).size = c.node.size
  <2>1. nodeAt(a, x).kind = "file" /\ nodeAt(a, x).size = c.node.size
    BY <1>2 DEF Stands
  <2> HIDE DEF x
  <2>2. nodeAt(b, x) = nodeAt(a, x)
    BY <2>1, GrownIs
  <2> QED BY <2>1, <2>2
<1>3. ASSUME c.op = "symlink", NEW q \in Below, n = t \o q PROVE nodeAt(b, d \o q).kind # "none"
  <2>1. nodeAt(a, d \o q).kind # "none"
    BY <1>3 DEF Stands
  <2>2. nodeAt(b, d \o q) = nodeAt(a, d \o q)
    BY <2>1, GrownIs
  <2> QED BY <2>1, <2>2
<1> QED BY <1>1, <1>2, <1>3 DEF Stands

\* What stands is not changed when it is asked for again.
LEMMA StandsAgain ==
  ASSUME NEW m \in Goods, NEW t, NEW d, NEW c, Stands(m, t, d, c), c.op \in {"mkdir", "write"},
         c.op = "write" => c.node.size \in Nat
  PROVE  Apply(m, c) = Answer(m, "ok")
<1>1. CASE c.op = "mkdir"
  <2>1. Apply(m, c) = mkdirStep(m, c.name)
    BY <1>1 DEF Apply
  <2>2. Open(m, c.name).err = "ok"
    BY DEF Stands
  <2> QED BY <2>1, <2>2, MkdirFound
<1>2. CASE c.op = "write"
  <2>1. Apply(m, c) = writeFile(m, c.name, c.node.size)
    BY <1>2 DEF Apply
  <2> DEFINE n == c.name
             size == c.node.size
  <2>2. Open(m, n).err = "ok" /\ nodeAt(m, Open(m, n).at).kind = "file" /\ nodeAt(m, Open(m, n).at).size = size /\ size \in Nat
    BY <1>2 DEF Stands
  <2>3. writeFile(m, n, size) = Answer(m, "ok")
    <3> HIDE DEF n, size
    <3> QED BY <2>2, WriteFound
  <2> QED BY <2>1, <2>3
<1> QED BY <1>1, <1>2

\* What the j-th call of a copy does to z, and leaves in k.
Stepped(b, t, d, source, calls, z, k, j) ==
  /\ Torn(b, t, d, source, k) /\ Grown(z, k) /\ Stands(k, t, d, calls[j]) /\ LinksBy(k, t, d, calls, j)
  /\ calls[j].op = "removeAll" => k = z

\* Calls that make no link.
LEMMA LinksOn ==
  ASSUME NEW z, NEW k, NEW t, NEW d, NEW calls, NEW j \in 1 .. Len(calls), LinksBy(z, t, d, calls, j - 1),
         Len(calls) \in Nat, \A y : nodeAt(k, y).kind = "link" => nodeAt(z, y).kind = "link"
  PROVE  LinksBy(k, t, d, calls, j)
<1> SUFFICES ASSUME NEW q \in Below, nodeAt(k, d \o q).kind = "link" PROVE LinkedBy(calls, t \o q, j)
  BY DEF LinksBy
<1>1. LinkedBy(calls, t \o q, j - 1)
  BY DEF LinksBy
<1>2. PICK i \in 1 .. Len(calls) : i <= j - 1 /\ calls[i].op = "symlink" /\ calls[i].name = t \o q
  BY <1>1 DEF LinkedBy
<1> DEFINE l == Len(calls)
<1>3. l \in Nat /\ i \in 1 .. l /\ j \in 1 .. l /\ i <= j - 1
  BY <1>2
<1> HIDE DEF l
<1>4. i <= j
  BY <1>3
<1> QED BY <1>2, <1>4 DEF LinkedBy

\* Each call of a copy that comes after the directories of its target.
LEMMA TornStep ==
  ASSUME NEW b, NEW t \in Clean, NEW d, NEW source \in Sources, NEW z, Torn(b, t, d, source, z),
         NEW calls, calls = CopyCalls(t, source), \A x \in Beginnings(t) : Open(b, x).err = "ok",
         NEW j \in 1 .. Len(calls), j > Len(t), LinksBy(z, t, d, calls, j - 1),
         NEW k, Apply(z, calls[j]) = Answer(k, "ok")
  PROVE  Stepped(b, t, d, source, calls, z, k, j)
<1> DEFINE c == calls[j]
<1>1. /\ \A i \in 1 .. Len(calls) : i > Len(t) => Enters(t, source, calls, i)
      /\ \A i, h \in 1 .. Len(calls) : calls[i].op = "symlink" /\ calls[h].op = "symlink" /\ calls[i].name = calls[h].name => i = h
  BY CopyOrder
<1>2. Len(calls) \in Nat
  BY CopyPlaced
<1>3. Enters(t, source, calls, j)
  BY <1>1
<1>4. b \in Goods /\ z \in Goods /\ Grown(b, z)
  BY DEF Torn
<1>5. ASSUME NEW x \in Dirs(t, source), c = Making(x)
      PROVE  Stepped(b, t, d, source, calls, z, k, j)
  <2>1. c.op = "mkdir" /\ c.name = x
    BY <1>5, CallsHave
  <2>2. mkdirStep(z, x) = Answer(k, "ok")
    <3>1. Apply(z, c) = mkdirStep(z, c.name)
      BY <2>1 DEF Apply
    <3> QED BY <2>1, <3>1
  <2>3. x \in Beginnings(t) => Open(z, x).err = "ok"
    <3>1. SUFFICES ASSUME x \in Beginnings(t) PROVE Open(z, x).err = "ok"
      OBVIOUS
    <3>2. x \in Clean
      BY MountLayout DEF Layout, Below
    <3>3. Open(b, x).err = "ok"
      BY <3>1
    <3> QED BY <1>4, <3>2, <3>3, LeadsGrown
  <2> HIDE DEF c
  <2>4. /\ Torn(b, t, d, source, k) /\ Grown(z, k) /\ Open(k, x).err = "ok"
        /\ \A y : nodeAt(k, y).kind = "link" => nodeAt(z, y).kind = "link"
    BY <2>2, <2>3, TornMakes
  <2>5. LinksBy(k, t, d, calls, j)
    BY <1>2, <2>4, LinksOn
  <2>6. Stands(k, t, d, c)
    BY <2>1, <2>4 DEF Stands
  <2> QED BY <2>1, <2>4, <2>5, <2>6 DEF Stepped, c
<1>6. ASSUME NEW p \in Provided(source), source[p].kind = "file", c = Writing(t \o p, source[p])
      PROVE  Stepped(b, t, d, source, calls, z, k, j)
  <2> DEFINE x == t \o p
             n == source[p]
             y == d \o p
  <2>1. c.op = "write" /\ c.name = x /\ c.node = n
    <3>1. c = Writing(x, n)
      BY <1>6
    <3> HIDE DEF c, x, n
    <3> QED BY <3>1, CallsHave
  <2>2. writeFile(z, x, n.size) = Answer(k, "ok")
    <3>1. Apply(z, c) = writeFile(z, c.name, c.node.size)
      BY <2>1 DEF Apply
    <3> QED BY <2>1, <3>1
  <2> HIDE DEF c
  <2>3. /\ Torn(b, t, d, source, k) /\ Grown(z, k) /\ nodeAt(k, y) = Regular(n.size)
        /\ \A u : u # y => nodeAt(k, u) = nodeAt(z, u)
    <3>1. Put(b, t, d, source, z, p, k)
      BY <1>6, <2>2, TornWrites
    <3>2. EntryOf(t, source, p) = Regular(n.size)
      BY <1>6 DEF EntryOf
    <3> QED BY <3>1, <3>2 DEF Put
  <2>4. Regular(n.size).kind = "file" /\ Regular(n.size).size = n.size
    BY EntryKinds, <1>6 DEF Regular, EntryOf
  <2>5. LinksBy(k, t, d, calls, j)
    <3> HIDE DEF y
    <3>1. \A u : nodeAt(k, u).kind = "link" => nodeAt(z, u).kind = "link"
      BY <2>3, <2>4
    <3> QED BY <1>2, <3>1, LinksOn
  <2>6. Stands(k, t, d, c)
    <3>1. k \in Goods /\ Reached(k, t, d, p) /\ Direct(k, y)
      BY <1>6, <2>3, TornReached
    <3>2. Open(k, x).err = "ok" /\ Open(k, x).at = y
      BY <2>3, <2>4, <3>1, ReachedOpens
    <3> QED BY <2>1, <2>3, <2>4, <3>2 DEF Stands
  <2> QED BY <2>1, <2>3, <2>5, <2>6 DEF Stepped, c
<1>7. ASSUME NEW p \in Provided(source), source[p].kind = "link", c = Clearing(t \o p),
             j + 1 \in 1 .. Len(calls), calls[j + 1] = Linking(t \o p, Rebased(source[p].target, t))
      PROVE  Stepped(b, t, d, source, calls, z, k, j)
  <2> DEFINE x == t \o p
             y == d \o p
  <2>1. c.op = "removeAll" /\ c.name = x /\ calls[j + 1].op = "symlink" /\ calls[j + 1].name = x
    <3> DEFINE e == calls[j + 1]
               to == Rebased(source[p].target, t)
    <3>1. c = Clearing(x) /\ e = Linking(x, to)
      BY <1>7
    <3> HIDE DEF c, e, x, to
    <3>2. c.op = "removeAll" /\ c.name = x /\ e.op = "symlink" /\ e.name = x
      BY <3>1, CallsHave
    <3> QED BY <3>2 DEF e
  <2>2. removeAll(z, x) = Answer(k, "ok")
    <3>1. Apply(z, c) = removeAll(z, c.name)
      BY <2>1 DEF Apply
    <3> QED BY <2>1, <3>1
  <2> HIDE DEF c
  <2>3. p \in Below
    BY TornReached
  <2>4. nodeAt(z, y).kind = "none"
    <3> SUFFICES ASSUME nodeAt(z, y).kind # "none" PROVE FALSE
      OBVIOUS
    <3>1. nodeAt(z, y) = EntryOf(t, source, p)
      BY <2>3 DEF Torn
    <3>2. EntryOf(t, source, p).kind = "link"
      BY <1>7, EntryKinds
    <3>3. nodeAt(z, y).kind = "link"
      BY <3>1, <3>2
    <3>4. LinkedBy(calls, x, j - 1)
      BY <2>3, <3>3 DEF LinksBy
    <3>5. PICK i \in 1 .. Len(calls) : i <= j - 1 /\ calls[i].op = "symlink" /\ calls[i].name = x
      BY <3>4 DEF LinkedBy
    <3>6. i = j + 1
      BY <1>1, <1>7, <2>1, <3>5
    <3> DEFINE l == Len(calls)
    <3>7. l \in Nat /\ i \in 1 .. l /\ j \in 1 .. l /\ i <= j - 1 /\ i = j + 1
      BY <1>2, <3>5, <3>6
    <3> HIDE DEF l
    <3> QED BY <3>7
  <2>5. k = z
    BY <2>2, <2>4, RemoveNone
  <2>6. LinksBy(k, t, d, calls, j)
    BY <1>2, <2>5, LinksOn
  <2>7. Stands(k, t, d, c)
    BY <2>1 DEF Stands
  <2>8. Grown(z, k)
    BY <2>5, GrownOn
  <2> QED BY <2>5, <2>6, <2>7, <2>8 DEF Stepped, c
<1>8. ASSUME NEW p \in Provided(source), source[p].kind = "link", c = Linking(t \o p, Rebased(source[p].target, t))
      PROVE  Stepped(b, t, d, source, calls, z, k, j)
  <2> DEFINE x == t \o p
             y == d \o p
             to == Rebased(source[p].target, t)
  <2>1. c.op = "symlink" /\ c.name = x /\ c.node = Symbolic(to)
    <3>1. c = Linking(x, to)
      BY <1>8
    <3> HIDE DEF c, x, to
    <3> QED BY <3>1, CallsHave
  <2>2. symlink(z, to, x) = Answer(k, "ok")
    <3>1. Apply(z, c) = symlink(z, c.node.target, c.name)
      BY <2>1 DEF Apply
    <3>2. Symbolic(to).target = to
      BY DEF Symbolic
    <3> QED BY <2>1, <3>1, <3>2
  <2>3. p \in Below /\ p \in Clean
    BY TornReached DEF Below
  <2>4. /\ Torn(b, t, d, source, k) /\ Grown(z, k) /\ nodeAt(k, y).kind = "link"
        /\ \A u : u # y => nodeAt(k, u) = nodeAt(z, u)
    <3> HIDE DEF c
    <3>1. Put(b, t, d, source, z, p, k)
      BY <1>8, <2>2, TornLinks
    <3>2. EntryOf(t, source, p).kind = "link"
      BY <1>8, EntryKinds
    <3> QED BY <3>1, <3>2 DEF Put
  <2> HIDE DEF to
  <2>5. LinksBy(k, t, d, calls, j)
    <3> SUFFICES ASSUME NEW q \in Below, nodeAt(k, d \o q).kind = "link" PROVE LinkedBy(calls, t \o q, j)
      BY DEF LinksBy
    <3>1. CASE d \o q = y
      <4>1. q = p
        BY <2>3, <3>1, TornReached, JoinedAre DEF Below
      <4>2. j <= j
        BY <1>2
      <4> QED BY <2>1, <4>1, <4>2 DEF LinkedBy
    <3>2. CASE d \o q # y
      <4>1. nodeAt(z, d \o q).kind = "link"
        BY <2>4, <3>2
      <4>2. LinkedBy(calls, t \o q, j - 1)
        BY <4>1 DEF LinksBy
      <4>3. PICK i \in 1 .. Len(calls) : i <= j - 1 /\ calls[i].op = "symlink" /\ calls[i].name = t \o q
        BY <4>2 DEF LinkedBy
      <4> DEFINE l == Len(calls)
      <4>4. l \in Nat /\ i \in 1 .. l /\ j \in 1 .. l /\ i <= j - 1
        BY <1>2, <4>3
      <4> HIDE DEF l
      <4>5. i <= j
        BY <4>4
      <4> QED BY <4>3, <4>5 DEF LinkedBy
    <3> QED BY <3>1, <3>2
  <2>6. Stands(k, t, d, c)
    <3>1. ASSUME NEW q \in Below, x = t \o q PROVE nodeAt(k, d \o q).kind # "none"
      <4>1. q = p
        BY <2>3, <3>1, JoinedAre DEF Below
      <4> QED BY <2>4, <4>1
    <3> HIDE DEF c, x
    <3> QED BY <2>1, <3>1 DEF Stands
  <2> HIDE DEF c
  <2> QED BY <2>1, <2>4, <2>5, <2>6 DEF Stepped, c
<1> HIDE DEF c
<1> QED BY <1>3, <1>5, <1>6, <1>7, <1>8 DEF Enters, c

\* What grows at each step grows along all of them.
LEMMA GrownAlong ==
  ASSUME NEW n \in Nat, NEW s, \A i \in 1 .. n : Grown(s[i - 1], s[i])
  PROVE  \A i, j \in 0 .. n : i <= j => Grown(s[i], s[j])
<1> SUFFICES ASSUME NEW i \in 0 .. n PROVE \A j \in 0 .. n : i <= j => Grown(s[i], s[j])
  OBVIOUS
<1> DEFINE T == {j \in 0 .. n : i <= j => Grown(s[i], s[j])}
<1>1. 0 \in T
  <2>1. i <= 0 => i = 0
    OBVIOUS
  <2> QED BY <2>1, GrownOn
<1>2. ASSUME NEW j \in 0 .. n - 1, j \in T PROVE j + 1 \in T
  <2>1. j + 1 \in 1 .. n /\ j + 1 \in 0 .. n /\ (j + 1) - 1 = j
    OBVIOUS
  <2>2. Grown(s[j], s[j + 1])
    <3>1. Grown(s[(j + 1) - 1], s[j + 1])
      BY <2>1
    <3> QED BY <2>1, <3>1
  <2>3. CASE i <= j
    BY <1>2, <2>1, <2>2, <2>3, GrownOn
  <2>4. CASE i = j + 1
    BY <2>1, <2>4, GrownOn
  <2>5. CASE i > j + 1
    BY <2>1, <2>5
  <2> QED BY <2>3, <2>4, <2>5
<1>3. 0 .. n \subseteq T
  <2> HIDE DEF T
  <2> QED BY <1>1, <1>2, InductTo
<1> QED BY <1>3

\* Where a directory with nothing in it is, nothing has been made.
LEMMA NothingYet ==
  ASSUME NEW b \in Goods, NEW t \in Clean, NEW d, EmptyAt(b, t, d), NEW q \in Below
  PROVE  nodeAt(b, d \o q).kind = "none"
<1> DEFINE x == d \o q
<1> SUFFICES ASSUME nodeAt(b, x).kind # "none" PROVE FALSE
  OBVIOUS
<1>1. d \in Clean /\ q \in Clean /\ q # Root
  BY DEF EmptyAt, Below
<1>2. x \in Clean /\ x # Root
  BY <1>1, JoinIs
<1>3. Prefix(d, x) /\ x # d
  BY <1>1, JoinBegins
<1> HIDE DEF x
<1>4. x \in Paths /\ b.at[x] # 0
  BY <1>2, ParentStands
<1> QED BY <1>3, <1>4 DEF EmptyAt, Vacant

\* A copy to a target without content, from the directories of the target on.
Went(b, t, d, source, calls, s) ==
  /\ b = s[Len(t)] /\ b \in Goods /\ \A x \in Beginnings(t) : Open(b, x).err = "ok"
  /\ \A i \in Len(t) .. Len(calls) : Torn(b, t, d, source, s[i])
  /\ \A i \in 1 .. Len(calls) : /\ Grown(s[i - 1], s[i]) /\ Stands(s[i], t, d, calls[i])
                                /\ calls[i].op = "removeAll" => s[i] = s[i - 1]

\* What a copy goes through when nothing refuses it.
LEMMA TornRun ==
  ASSUME NEW m \in Goods, NEW t \in Clean, NEW source \in Sources, NEW calls, calls = CopyCalls(t, source),
         NEW s, Through(s, m, calls), ~hasContent(m, t), Lstat(m, t).err \in {"ok", "notexist"}
  PROVE  \E d : Went(s[Len(t)], t, d, source, calls, s)
<1> DEFINE l == Len(t)
           n == Len(calls)
           b == s[l]
<1>1. /\ l \in Nat /\ n \in Nat /\ l <= n
      /\ \A j \in 1 .. l : calls[j] = Making(SubSeq(t, 1, j))
  BY CopyPlaced
<1>2. \A i \in 0 .. n : s[i] \in Goods
  BY DEF Through
<1>3. \A i \in 1 .. n : Apply(s[i - 1], calls[i]) = Answer(s[i], "ok")
  BY DEF Through
<1>4. PICK d : EmptyAt(b, t, d)
  BY TargetMade
<1>5. \A i \in 0 .. l - 1 : Grown(s[i], s[i + 1])
  BY TargetMade
<1>6. \A i \in 1 .. l : Open(s[i], SubSeq(t, 1, i)).err = "ok" /\ SubSeq(t, 1, i) \in Clean
  <2>1. \A i \in 1 .. l : Open(s[i], SubSeq(t, 1, i)).err = "ok"
    BY TargetMade
  <2>2. \A i \in 0 .. l - 1 : SubSeq(t, 1, i + 1) \in Clean
    BY Beginning
  <2> HIDE DEF l
  <2>3. ASSUME NEW i \in 1 .. l PROVE SubSeq(t, 1, i) \in Clean
    <3>1. i - 1 \in 0 .. l - 1 /\ (i - 1) + 1 = i
      BY <1>1
    <3>2. SubSeq(t, 1, (i - 1) + 1) \in Clean
      BY <2>2, <3>1
    <3> QED BY <3>1, <3>2
  <2> QED BY <2>1, <2>3
<1> HIDE DEF l, n
<1>7. \A i \in 1 .. l : Grown(s[i - 1], s[i])
  <2> SUFFICES ASSUME NEW i \in 1 .. l PROVE Grown(s[i - 1], s[i])
    OBVIOUS
  <2>1. i - 1 \in 0 .. l - 1 /\ (i - 1) + 1 = i
    BY <1>1
  <2>2. Grown(s[i - 1], s[(i - 1) + 1])
    BY <1>5, <2>1
  <2> QED BY <2>1, <2>2
<1>8. \A i, j \in 0 .. l : i <= j => Grown(s[i], s[j])
  BY <1>1, <1>7, GrownAlong
<1>9. b \in Goods
  <2>1. l \in 0 .. n
    BY <1>1
  <2> QED BY <1>2, <2>1
<1>10. ASSUME NEW x \in Beginnings(t) PROVE Open(b, x).err = "ok"
  <2>1. PICK i \in 1 .. l : x = SubSeq(t, 1, i)
    BY DEF Beginnings, l
  <2>2. i \in 0 .. l /\ l \in 0 .. l /\ i <= l /\ i \in 0 .. n
    BY <1>1
  <2>3. Grown(s[i], b) /\ s[i] \in Goods
    BY <1>2, <1>8, <2>2
  <2>4. Open(s[i], x).err = "ok" /\ x \in Clean
    BY <1>6, <2>1
  <2> HIDE DEF b
  <2> QED BY <1>9, <2>3, <2>4, LeadsGrown
<1> HIDE DEF b
<1> DEFINE Now(j) == Torn(b, t, d, source, s[j]) /\ LinksBy(s[j], t, d, calls, j)
           Step(j) == Stepped(b, t, d, source, calls, s[j - 1], s[j], j)
           T == {j \in 0 .. n : j >= l => Now(j)}
<1>11. Now(l)
  <2>1. Torn(b, t, d, source, b)
    BY <1>4, <1>9, TornStart
  <2>2. \A q \in Below : nodeAt(b, d \o q).kind = "none"
    BY <1>4, <1>9, NothingYet
  <2>3. LinksBy(b, t, d, calls, l)
    BY <2>2 DEF LinksBy
  <2> QED BY <2>1, <2>3 DEF b
<1>12. ASSUME NEW j \in 1 .. n, j > l, Now(j - 1) PROVE Step(j)
  <2> DEFINE z == s[j - 1]
             k == s[j]
  <2>1. Apply(z, calls[j]) = Answer(k, "ok")
    BY <1>3
  <2>2. Torn(b, t, d, source, z) /\ LinksBy(z, t, d, calls, j - 1)
    BY <1>12
  <2>3. j \in 1 .. Len(calls) /\ j > Len(t)
    BY <1>12 DEF l, n
  <2> HIDE DEF z, k
  <2>4. Stepped(b, t, d, source, calls, z, k, j)
    BY <1>10, <2>1, <2>2, <2>3, TornStep
  <2> QED BY <2>4 DEF z, k
<1>13. 0 \in T
  <2>1. 0 >= l => l = 0
    BY <1>1
  <2>2. 0 \in 0 .. n
    BY <1>1
  <2> HIDE DEF Now
  <2> QED BY <1>11, <2>1, <2>2
<1>14. ASSUME NEW j \in 0 .. n - 1, j \in T PROVE j + 1 \in T
  <2>1. j + 1 \in 1 .. n /\ (j + 1) - 1 = j /\ j + 1 \in 0 .. n
    BY <1>1
  <2>2. CASE j + 1 <= l
    <3>1. j + 1 >= l => j + 1 = l
      BY <1>1, <2>2
    <3> HIDE DEF Now
    <3> QED BY <1>11, <2>1, <3>1
  <2>3. CASE j + 1 > l
    <3>1. j >= l
      BY <1>1, <2>3
    <3>2. Now(j)
      BY <1>14, <3>1
    <3>3. Step(j + 1)
      <4>1. Now((j + 1) - 1)
        BY <2>1, <3>2
      <4> HIDE DEF Now, Step
      <4> QED BY <1>12, <2>1, <2>3, <4>1
    <3>4. Now(j + 1)
      BY <3>3 DEF Stepped
    <3> HIDE DEF Now
    <3> QED BY <2>1, <3>4
  <2> HIDE DEF T
  <2>4. j + 1 <= l \/ j + 1 > l
    BY <1>1
  <2> QED BY <2>2, <2>3, <2>4
<1>15. \A j \in 0 .. n : j >= l => Now(j)
  <2>1. 0 .. n \subseteq T
    <3> HIDE DEF T
    <3> QED BY <1>1, <1>13, <1>14, InductTo
  <2> HIDE DEF Now
  <2> QED BY <2>1
<1>16. ASSUME NEW i \in l .. n PROVE Torn(b, t, d, source, s[i])
  <2>1. i \in 0 .. n /\ i >= l
    BY <1>1
  <2> QED BY <1>15, <2>1
<1>17. ASSUME NEW i \in 1 .. n
       PROVE  /\ Grown(s[i - 1], s[i]) /\ Stands(s[i], t, d, calls[i])
              /\ calls[i].op = "removeAll" => s[i] = s[i - 1]
  <2>1. CASE i <= l
    <3>1. i \in 1 .. l
      BY <1>1, <2>1
    <3> DEFINE x == SubSeq(t, 1, i)
               c == calls[i]
    <3>2. c = Making(x) /\ Open(s[i], x).err = "ok"
      BY <1>1, <1>6, <3>1
    <3> HIDE DEF x, c
    <3>3. c.op = "mkdir" /\ c.name = x
      BY <3>2, CallsHave
    <3>4. Stands(s[i], t, d, c) /\ c.op # "removeAll"
      BY <3>2, <3>3 DEF Stands
    <3> QED BY <1>7, <3>1, <3>4 DEF c
  <2>2. CASE i > l
    <3>1. i - 1 \in 0 .. n /\ i - 1 >= l
      BY <1>1, <2>2
    <3>2. Now(i - 1)
      BY <1>15, <3>1
    <3>3. Step(i)
      <4> HIDE DEF Now, Step
      <4> QED BY <1>12, <2>2, <3>2
    <3> QED BY <3>3 DEF Stepped
  <2>3. i <= l \/ i > l
    BY <1>1
  <2> QED BY <2>1, <2>2, <2>3
<1> QED BY <1>9, <1>10, <1>16, <1>17 DEF Went, b, l, n

\* What the calls of a copy can be.
LEMMA CopyKinds ==
  ASSUME NEW t \in Clean, NEW source \in Sources, NEW calls, calls = CopyCalls(t, source), NEW j \in 1 .. Len(calls)
  PROVE  LET c == calls[j] IN
         /\ c.op \in {"mkdir", "write", "removeAll", "symlink"} /\ (c.op = "write" => c.node.size \in Nat)
         /\ c.op = "symlink" => j - 1 \in 1 .. Len(calls) /\ calls[j - 1].op = "removeAll"
         /\ c.op = "removeAll" => /\ j > Len(t) /\ j + 1 \in 1 .. Len(calls)
                                  /\ \E p \in Provided(source) : /\ source[p].kind = "link" /\ c = Clearing(t \o p)
                                                                /\ calls[j + 1] = Linking(t \o p, Rebased(source[p].target, t))
<1> DEFINE c == calls[j]
           l == Len(t)
           n == Len(calls)
<1>1. /\ l \in Nat /\ n \in Nat /\ l <= n
      /\ \A i \in 1 .. l : calls[i] = Making(SubSeq(t, 1, i))
  BY CopyPlaced
<1>2. j > l => Enters(t, source, calls, j)
  BY CopyOrder
<1>3. j \in 1 .. n
  OBVIOUS
<1> HIDE DEF l, n
<1>4. CASE j <= l
  <2> DEFINE x == SubSeq(t, 1, j)
  <2>1. c = Making(x)
    BY <1>1, <1>3, <1>4
  <2> HIDE DEF c, x
  <2>2. c.op = "mkdir"
    BY <2>1, CallsHave
  <2> QED BY <2>2 DEF c
<1>5. CASE j > l
  <2>1. ASSUME NEW x, c = Making(x) PROVE c.op = "mkdir"
    <3> HIDE DEF c
    <3> QED BY <2>1, CallsHave
  <2>2. ASSUME NEW p \in Provided(source), source[p].kind = "file", c = Writing(t \o p, source[p])
        PROVE  c.op = "write" /\ c.node.size \in Nat
    <3> DEFINE x == t \o p
               e == source[p]
    <3>1. c = Writing(x, e) /\ e.size \in Nat
      BY <2>2, EntryKinds
    <3> HIDE DEF c, x, e
    <3> QED BY <3>1, CallsHave
  <2>3. ASSUME NEW x, c = Clearing(x) PROVE c.op = "removeAll"
    <3> HIDE DEF c
    <3> QED BY <2>3, CallsHave
  <2>4. ASSUME NEW x, NEW to, c = Linking(x, to) PROVE c.op = "symlink"
    <3> HIDE DEF c
    <3> QED BY <2>4, CallsHave
  <2>5. ASSUME NEW x, j - 1 > l, calls[j - 1] = Clearing(x) PROVE j - 1 \in 1 .. n /\ calls[j - 1].op = "removeAll"
    <3> DEFINE e == calls[j - 1]
    <3>1. e = Clearing(x)
      BY <2>5
    <3> HIDE DEF e
    <3>2. e.op = "removeAll"
      BY <3>1, CallsHave
    <3> QED BY <1>1, <1>3, <2>5, <3>2 DEF e
  <2>6. CASE \E x \in Dirs(t, source) : c = Making(x)
    <3>1. c.op = "mkdir"
      BY <2>1, <2>6
    <3> HIDE DEF c
    <3> QED BY <3>1 DEF c
  <2>7. CASE \E p \in Provided(source) : source[p].kind = "file" /\ c = Writing(t \o p, source[p])
    <3>1. c.op = "write" /\ c.node.size \in Nat
      BY <2>2, <2>7
    <3> QED BY <3>1
  <2>8. CASE \E p \in Provided(source) :
               /\ source[p].kind = "link" /\ c = Clearing(t \o p)
               /\ j + 1 \in 1 .. Len(calls) /\ calls[j + 1] = Linking(t \o p, Rebased(source[p].target, t))
    <3>1. c.op = "removeAll"
      BY <2>3, <2>8
    <3>2. j > Len(t)
      BY <1>5 DEF l
    <3> QED BY <2>8, <3>1, <3>2
  <2>9. CASE \E p \in Provided(source) :
               /\ source[p].kind = "link" /\ c = Linking(t \o p, Rebased(source[p].target, t))
               /\ j - 1 > Len(t) /\ calls[j - 1] = Clearing(t \o p)
    <3>1. c.op = "symlink"
      BY <2>4, <2>9
    <3>2. j - 1 \in 1 .. n /\ calls[j - 1].op = "removeAll"
      BY <2>5, <2>9 DEF l
    <3> QED BY <3>1, <3>2 DEF n
  <2> QED BY <1>2, <1>5, <2>6, <2>7, <2>8, <2>9 DEF Enters
<1>6. j <= l \/ j > l
  BY <1>1, <1>3
<1> QED BY <1>4, <1>5, <1>6

\* A copy that goes over what it left goes on where it stopped.
LEMMA GoesOn ==
  ASSUME NEW m \in Goods, NEW t \in Clean, NEW source \in Sources, NEW calls, calls = CopyCalls(t, source),
         NEW s, Through(s, m, calls), NEW d, Went(s[Len(t)], t, d, source, calls, s), NEW k \in 1 .. Len(calls)
  PROVE  \E r : Through(r, s[k], calls) /\ r[Len(calls)] = s[Len(calls)]
<1> DEFINE l == Len(t)
           n == Len(calls)
           b == s[l]
           z == s[k]
           Undone(j) == j \in 1 .. n /\ j < k /\ calls[j].op = "removeAll"
           r == [j \in 0 .. n |-> IF j > k THEN s[j]
                                  ELSE IF Undone(j) THEN removeAll(z, calls[j].name).fs ELSE z]
<1>1. l \in Nat /\ n \in Nat /\ l <= n
  BY CopyPlaced
<1>2. /\ \A i \in 0 .. n : s[i] \in Goods
      /\ \A i \in 1 .. n : Apply(s[i - 1], calls[i]) = Answer(s[i], "ok")
  BY DEF Through
<1>3. /\ \A i \in l .. n : Torn(b, t, d, source, s[i])
      /\ \A i \in 1 .. n : /\ Grown(s[i - 1], s[i]) /\ Stands(s[i], t, d, calls[i])
                           /\ calls[i].op = "removeAll" => s[i] = s[i - 1]
  BY DEF Went
<1>4. /\ \A j \in 1 .. n : /\ calls[j].op \in {"mkdir", "write", "removeAll", "symlink"} /\ (calls[j].op = "write" => calls[j].node.size \in Nat)
                           /\ calls[j].op = "symlink" => j - 1 \in 1 .. n /\ calls[j - 1].op = "removeAll"
  BY CopyKinds
<1>5. \A j \in 1 .. n : calls[j].op = "removeAll" =>
        /\ j > l /\ j + 1 \in 1 .. n
        /\ \E p \in Provided(source) : /\ source[p].kind = "link" /\ calls[j] = Clearing(t \o p)
                                       /\ calls[j + 1] = Linking(t \o p, Rebased(source[p].target, t))
  BY CopyKinds
<1>6. calls \in Seq(Calls)
  BY CopyCallsAre
<1>7. \A j \in 1 .. n : calls[j].name \in Clean
  BY <1>6 DEF Calls
<1>8. k \in 1 .. n
  OBVIOUS
<1> HIDE DEF l, n, b
<1>9. \A i, j \in 0 .. n : i <= j => Grown(s[i], s[j])
  BY <1>1, <1>3, GrownAlong
<1>10. ASSUME NEW j \in 1 .. n, j <= k PROVE z \in Goods /\ Stands(z, t, d, calls[j])
  <2>1. j \in 0 .. n /\ k \in 0 .. n
    BY <1>1, <1>8
  <2>2. Grown(s[j], z) /\ s[j] \in Goods /\ z \in Goods /\ Stands(s[j], t, d, calls[j]) /\ calls[j].name \in Clean
    BY <1>2, <1>3, <1>7, <1>9, <1>10, <2>1
  <2> HIDE DEF z
  <2> QED BY <2>2, StandsOn
<1>11. ASSUME NEW j, Undone(j)
       PROVE  LET g == removeAll(z, calls[j].name).fs IN
              /\ g \in Goods /\ Apply(z, calls[j]) = Answer(g, "ok")
              /\ Apply(g, calls[j + 1]) = Answer(z, "ok") /\ calls[j + 1].op = "symlink"
  <2>1. j \in 1 .. n /\ j < k /\ calls[j].op = "removeAll" /\ j > l /\ j + 1 \in 1 .. n /\ j + 1 <= k
    BY <1>1, <1>5, <1>8, <1>11
  <2>2. PICK p \in Provided(source) : /\ source[p].kind = "link" /\ calls[j] = Clearing(t \o p)
                                      /\ calls[j + 1] = Linking(t \o p, Rebased(source[p].target, t))
    BY <1>5, <2>1
  <2> DEFINE c == calls[j]
             e == calls[j + 1]
             x == t \o p
             to == Rebased(source[p].target, t)
  <2>3. c.op = "removeAll" /\ c.name = x /\ e.op = "symlink" /\ e.name = x /\ e.node = Symbolic(to)
    <3>1. c = Clearing(x) /\ e = Linking(x, to)
      BY <2>2
    <3> HIDE DEF c, e, x, to
    <3> QED BY <3>1, CallsHave
  <2>4. Torn(b, t, d, source, z)
    <3>1. k \in l .. n
      BY <1>1, <1>8, <2>1
    <3> QED BY <1>3, <3>1
  <2>5. p \in Below
    BY SourceUp
  <2>6. nodeAt(z, d \o p).kind # "none"
    <3>1. Stands(z, t, d, e)
      BY <1>10, <2>1
    <3> HIDE DEF z, e
    <3> QED BY <2>3, <2>5, <3>1 DEF Stands
  <2> HIDE DEF z
  <2>7. PICK g \in Goods : removeAll(z, x) = Answer(g, "ok") /\ symlink(g, to, x) = Answer(z, "ok")
    BY <2>2, <2>4, <2>6, RelinkSame
  <2> HIDE DEF c, e, x, to
  <2>8. Apply(z, c) = removeAll(z, x)
    BY <2>3 DEF Apply
  <2>9. Apply(g, e) = symlink(g, to, x)
    <3>1. Apply(g, e) = symlink(g, e.node.target, e.name)
      BY <2>3 DEF Apply
    <3>2. Symbolic(to).target = to
      BY DEF Symbolic
    <3> QED BY <2>3, <3>1, <3>2
  <2>10. removeAll(z, c.name).fs = g
    BY <2>3, <2>7, AnswerIs
  <2> QED BY <2>3, <2>7, <2>8, <2>9, <2>10 DEF c, e
<1>12. ~Undone(0) /\ ~Undone(k)
  BY <1>1, <1>8
<1>13. \A j \in 0 .. n : /\ j > k => r[j] = s[j]
                         /\ ~(j > k) /\ Undone(j) => r[j] = removeAll(z, calls[j].name).fs
                         /\ ~(j > k) /\ ~Undone(j) => r[j] = z
  OBVIOUS
<1>14. z \in Goods
  BY <1>1, <1>2, <1>8
<1> HIDE DEF r, z, Undone
<1>15. r[0] = z /\ r[k] = z
  BY <1>1, <1>8, <1>12, <1>13
<1>16. ASSUME NEW j \in 0 .. n PROVE r[j] \in Goods
  BY <1>2, <1>11, <1>13, <1>14
<1>17. ASSUME NEW j \in 1 .. n PROVE Apply(r[j - 1], calls[j]) = Answer(r[j], "ok")
  <2>1. j \in 0 .. n /\ j - 1 \in 0 .. n /\ (j - 1) + 1 = j
    BY <1>1
  <2>2. CASE j > k
    <3>1. r[j] = s[j]
      BY <1>13, <2>1, <2>2
    <3>2. r[j - 1] = s[j - 1]
      <4>1. CASE j - 1 > k
        BY <1>13, <2>1, <4>1
      <4>2. CASE j - 1 = k
        BY <1>15, <4>2 DEF z
      <4>3. j - 1 > k \/ j - 1 = k
        BY <1>1, <1>8, <2>2
      <4> QED BY <4>1, <4>2, <4>3
    <3> QED BY <1>2, <3>1, <3>2
  <2>3. CASE j <= k /\ Undone(j - 1)
    <3>1. /\ r[j - 1] = removeAll(z, calls[j - 1].name).fs
          /\ Apply(removeAll(z, calls[j - 1].name).fs, calls[(j - 1) + 1]) = Answer(z, "ok") /\ calls[(j - 1) + 1].op = "symlink"
      <4>1. ~(j - 1 > k)
        BY <1>1, <1>8, <2>3
      <4> QED BY <1>11, <1>13, <2>1, <2>3, <4>1
    <3>2. r[j] = z
      <4>1. ~Undone(j)
        BY <2>1, <3>1 DEF Undone
      <4>2. ~(j > k)
        BY <1>1, <1>8, <2>3
      <4> QED BY <1>13, <2>1, <4>1, <4>2
    <3> QED BY <2>1, <3>1, <3>2
  <2>4. CASE j <= k /\ ~Undone(j - 1)
    <3>1. r[j - 1] = z
      <4>1. ~(j - 1 > k)
        BY <1>1, <1>8, <2>4
      <4> QED BY <1>13, <2>1, <2>4, <4>1
    <3>2. ~(j > k)
      BY <1>1, <1>8, <2>4
    <3>3. CASE calls[j].op \in {"mkdir", "write"}
      <4>1. r[j] = z
        <5>1. ~Undone(j)
          BY <3>3 DEF Undone
        <5> QED BY <1>13, <2>1, <3>2, <5>1
      <4>2. Stands(z, t, d, calls[j])
        BY <1>10, <2>4
      <4>3. Apply(z, calls[j]) = Answer(z, "ok")
        <5> DEFINE c == calls[j]
        <5>1. c.op \in {"mkdir", "write"} /\ (c.op = "write" => c.node.size \in Nat) /\ Stands(z, t, d, c)
          BY <1>4, <3>3, <4>2
        <5> HIDE DEF c
        <5>2. Apply(z, c) = Answer(z, "ok")
          BY <1>14, <5>1, StandsAgain
        <5> QED BY <5>2 DEF c
      <4> QED BY <3>1, <4>1, <4>3
    <3>4. CASE calls[j].op = "removeAll" /\ j < k
      <4>1. Undone(j)
        BY <3>4 DEF Undone
      <4> QED BY <1>11, <1>13, <2>1, <3>1, <3>2, <4>1
    <3>5. CASE calls[j].op = "removeAll" /\ j = k
      <4>1. s[j] = s[j - 1] /\ s[j] = z
        BY <1>3, <3>5 DEF z
      <4>2. r[j] = z
        BY <1>15, <3>5
      <4>3. Apply(s[j - 1], calls[j]) = Answer(s[j], "ok")
        BY <1>2
      <4> QED BY <3>1, <4>1, <4>2, <4>3
    <3>6. CASE calls[j].op = "symlink"
      <4>1. j - 1 \in 1 .. n /\ calls[j - 1].op = "removeAll"
        BY <1>4, <3>6
      <4>2. j - 1 < k
        BY <1>1, <1>8, <2>4
      <4>3. Undone(j - 1)
        BY <4>1, <4>2 DEF Undone
      <4> QED BY <2>4, <4>3
    <3>7. j < k \/ j = k
      BY <1>1, <1>8, <2>4
    <3> QED BY <1>4, <3>3, <3>4, <3>5, <3>6, <3>7
  <2>5. j > k \/ j <= k
    BY <1>1, <1>8
  <2> QED BY <2>2, <2>3, <2>4, <2>5
<1>18. r[n] = s[n]
  <2>1. CASE n > k
    BY <1>1, <1>13, <2>1
  <2>2. CASE n = k
    BY <1>15, <2>2 DEF z
  <2>3. n > k \/ n = k
    BY <1>1, <1>8
  <2> QED BY <2>1, <2>2, <2>3
<1>19. Through(r, z, calls)
  BY <1>15, <1>16, <1>17 DEF Through, n
<1> QED BY <1>18, <1>19 DEF z, n

\* Wherever a copy stops, its target is found or is not there.
LEMMA TargetStays ==
  ASSUME NEW m \in Goods, NEW t \in Clean, NEW source \in Sources, NEW calls, calls = CopyCalls(t, source),
         NEW s, Through(s, m, calls), ~hasContent(m, t), Lstat(m, t).err \in {"ok", "notexist"},
         NEW d, Went(s[Len(t)], t, d, source, calls, s), NEW k \in 0 .. Len(calls)
  PROVE  Lstat(s[k], t).err \in {"ok", "notexist"}
<1> DEFINE l == Len(t)
           n == Len(calls)
           z == s[k]
           b == s[l]
<1>1. l \in Nat /\ n \in Nat /\ l <= n
  BY CopyPlaced
<1>2. s[0] = m /\ \A i \in 0 .. n : s[i] \in Goods
  BY DEF Through
<1>3. \A i \in 1 .. n : Grown(s[i - 1], s[i])
  BY DEF Went
<1>4. k \in 0 .. n
  OBVIOUS
<1>5. \A i \in l .. n : Torn(b, t, d, source, s[i])
  BY DEF Went
<1>6. \A i \in 0 .. l : OnlyDirs(m, s[i])
  BY TargetMade
<1> HIDE DEF l, n
<1>7. \A i, j \in 0 .. n : i <= j => Grown(s[i], s[j])
  BY <1>1, <1>3, GrownAlong
<1>8. z \in Goods /\ Grown(m, z)
  <2>1. 0 \in 0 .. n /\ 0 <= k
    BY <1>1, <1>4
  <2> QED BY <1>2, <1>4, <1>7, <2>1
<1>9. CASE Lstat(m, t).err = "ok"
  <2> DEFINE found == Lstat(m, t)
  <2>1. found = resolveLocked(m, t, FALSE) /\ found.err = "ok" /\ FALSE \in BOOLEAN
    BY <1>9 DEF Lstat
  <2> HIDE DEF z, found
  <2>2. resolveLocked(z, t, FALSE) = found
    BY <1>8, <2>1, FoundGrown
  <2> QED BY <2>1, <2>2 DEF Lstat, z
<1>10. CASE Lstat(m, t).err = "notexist" /\ k <= l
  <2>1. OnlyDirs(m, z)
    <3>1. k \in 0 .. l
      BY <1>1, <1>4, <1>10
    <3> QED BY <1>6, <3>1
  <2>2. resolveLocked(m, t, FALSE).err = "notexist"
    BY <1>10 DEF Lstat
  <2> HIDE DEF z
  <2>3. \A x : nodeAt(m, x).kind = "none" => nodeAt(z, x).kind \in {"none", "dir"}
    BY <2>1 DEF OnlyDirs
  <2>4. resolveLocked(z, t, FALSE).err \in {"ok", "notexist"}
    BY <1>8, <2>2, <2>3, FoundGrown
  <2> QED BY <2>4 DEF Lstat, z
<1>11. CASE Lstat(m, t).err = "notexist" /\ k > l
  <2>1. k \in l .. n
    BY <1>1, <1>4, <1>11
  <2>2. Torn(b, t, d, source, z)
    BY <1>5, <2>1
  <2> HIDE DEF z, b
  <2>3. b \in Goods /\ Grown(b, z) /\ Leads(b, t, d)
    BY <2>2 DEF Torn, EmptyAt
  <2>4. Leads(z, t, d)
    BY <1>8, <2>3, LeadsGrown
  <2>5. Open(z, t).err = "ok"
    <3>1. \A r : r = Ended("ok", d) => r.err = "ok"
      BY EndedIs
    <3> QED BY <2>4, <3>1, Zenon DEF Leads
  <2>6. t # Root
    BY <1>11, RootFound
  <2> DEFINE up == Open(z, parent(t))
             c == t[Len(t)]
             x == Append(up.at, c)
  <2>7. up.err = "ok" /\ nodeAt(z, up.at).kind = "dir" /\ nodeAt(z, x).kind # "none"
    BY <1>8, <2>5, <2>6, OpenUp
  <2>8. Lstat(z, t) = Ended("ok", x)
    BY <1>8, <2>6, <2>7, LstatThere
  <2>9. Lstat(z, t).err = "ok"
    <3> HIDE DEF x
    <3>1. \A r : r = Ended("ok", x) => r.err = "ok"
      BY EndedIs
    <3> QED BY <2>8, <3>1, Zenon
  <2> QED BY <2>9 DEF z
<1>12. k <= l \/ k > l
  BY <1>1, <1>4
<1> QED BY <1>9, <1>10, <1>11, <1>12

\* A mount that merges into a target that is found or is not there goes through the copy.
LEMMA MergeRuns ==
  ASSUME NEW m, NEW target \in Clean, NEW source \in Sources, Lstat(m, target).err \in {"ok", "notexist"}
  PROVE  ApplyMount(m, target, source, "merge") = Answers(m, CopyCalls(target, source))
<1> DEFINE copy == CopyCalls(target, source)
           run == ApplyMount(m, target, source, "merge")
           err == Lstat(m, target).err
<1>1. run = IF err \notin {"ok", "notexist"} THEN <<Answer(m, err)>>
            ELSE IF Skipped(m, target, "merge") THEN <<Answer(m, "ok")>>
            ELSE Then(<<>> \o copy, LAMBDA c : Answers(m, c))
  BY DEF ApplyMount, Then
<1>2. Then(<<>> \o copy, LAMBDA c : Answers(m, c)) = Answers(m, <<>> \o copy)
  BY DEF Then
<1>3. <<>> \o copy = copy
  <2>1. copy \in Seq(Calls)
    BY CopyCallsAre
  <2> HIDE DEF copy
  <2> QED BY <2>1
<1>4. ~Skipped(m, target, "merge")
  BY DEF Skipped
<1> HIDE DEF copy, run, err
<1>5. err \in {"ok", "notexist"}
  BY DEF err
<1>6. run = Answers(m, copy)
  BY <1>1, <1>2, <1>3, <1>4, <1>5
<1> QED BY <1>6 DEF run, copy

\* Wherever a mount that would have succeeded stops, one that merges goes on to where it would have come.
LEMMA MergeGoesOn ==
  ASSUME NEW m \in Goods, NEW target \in Clean, NEW source \in Sources,
         NEW run, run = ApplyMount(m, target, source, "ifabsent"), ~hasContent(m, target), Done(run),
         NEW k \in DOMAIN run, NEW again, again = ApplyMount(run[k].fs, target, source, "merge")
  PROVE  Done(again) /\ Result(m, again) = Result(m, run)
<1> DEFINE calls == CopyCalls(target, source)
           n == Len(calls)
<1>1. calls \in Seq(Calls) /\ n \in Nat
  BY CopyCallsAre
<1>2. Lstat(m, target).err \in {"ok", "notexist"} /\ run = Answers(m, calls)
  <2>1. "ifabsent" \in Policies /\ ~Skipped(m, target, "ifabsent") /\ "ifabsent" # "replace"
    BY DEF Policies, Skipped
  <2> HIDE DEF calls
  <2>2. Lstat(m, target).err \in {"ok", "notexist"} /\ run = Answers(m, CopyCalls(target, source))
    BY <2>1, MountRuns
  <2> QED BY <2>2 DEF calls
<1> HIDE DEF calls
<1>3. PICK s : /\ Through(s, m, calls) /\ Result(m, run) = s[n] /\ Len(run) = n
               /\ \A i \in 1 .. n : run[i].fs = s[i]
  BY <1>1, <1>2, DoneThrough
<1>4. DOMAIN run = 1 .. n
  BY <1>2 DEF Answers
<1>5. run[k].fs = s[k] /\ k \in 1 .. n /\ k \in 0 .. n
  BY <1>1, <1>3, <1>4
<1>6. PICK d : Went(s[Len(target)], target, d, source, calls, s)
  BY <1>2, <1>3, TornRun DEF calls
<1>7. PICK r : Through(r, s[k], calls) /\ r[n] = s[n]
  BY <1>3, <1>5, <1>6, GoesOn DEF calls
<1> DEFINE z == s[k]
<1>8. z \in Goods
  BY <1>3, <1>5 DEF Through
<1>9. Lstat(z, target).err \in {"ok", "notexist"}
  BY <1>2, <1>3, <1>5, <1>6, TargetStays DEF calls
<1> HIDE DEF z
<1>10. again = Answers(z, calls)
  <2>1. ApplyMount(z, target, source, "merge") = Answers(z, calls)
    BY <1>9, MergeRuns DEF calls
  <2> QED BY <1>5, <2>1 DEF z
<1>11. Through(r, z, calls)
  BY <1>7 DEF z
<1> HIDE DEF n
<1>12. Done(again) /\ Result(z, again) = r[n]
  BY <1>1, <1>8, <1>10, <1>11, ThroughDone DEF n
<1>13. again # <<>>
  <2>1. DOMAIN again = 1 .. n
    BY <1>10 DEF Answers, n
  <2>2. k \in DOMAIN again
    BY <1>5, <2>1
  <2> QED BY <2>2
<1>14. Result(m, again) = Result(z, again)
  BY <1>13 DEF Result
<1> QED BY <1>3, <1>7, <1>12, <1>14

\* A good filesystem lets a torn mount be finished.
LEMMA GoodIsFinished == ASSUME fs \in Goods PROVE MergeFinishes
<1>1. ASSUME NEW target \in Points, NEW source \in Sources, NEW run \in {ApplyMount(fs, target, source, "ifabsent")},
             ~hasContent(fs, target), Done(run), NEW k \in DOMAIN run,
             NEW again \in {ApplyMount(run[k].fs, target, source, "merge")}
      PROVE  /\ Done(again)
             /\ \A whole \in {Result(fs, run)}, finished \in {Result(fs, again)} :
                  \A p \in Places : Content(finished, p) = Content(whole, p)
  <2>1. target \in Clean
    BY CopyAssumption, PlacesAre
  <2>2. run = ApplyMount(fs, target, source, "ifabsent") /\ again = ApplyMount(run[k].fs, target, source, "merge")
    OBVIOUS
  <2>3. Done(again) /\ Result(fs, again) = Result(fs, run)
    BY <1>1, <2>1, <2>2, MergeGoesOn
  <2> QED BY <2>3
<1> QED BY <1>1 DEF MergeFinishes

-----------------------------------------------------------------------------
(* Theorems                                                                *)

\* A mount leaves alone what its policy leaves alone, whatever calls came before
\* and wherever it stops (copy.go:24).
THEOREM MountLeavesOthers == MovesRoot = FALSE => (MountSpec => []OthersAreLeftAlone)
<1>1. MemoryInv => OthersAreLeftAlone
  BY GoodIsLeft DEF MemoryInv
<1> QED BY <1>1, MemoryInvariant, PTL

\* A mount that succeeds has copied every file of the source and every link, to
\* the copy of what it led to, under every policy, whatever calls came before and
\* whatever is in the target, but for links on the way of its writes (copy.go:54).
THEOREM MountCopies == MovesRoot = FALSE => (MountSpec => []CopyIsComplete)
<1>1. MemoryInv => CopyIsComplete
  BY GoodIsComplete DEF MemoryInv
<1> QED BY <1>1, MemoryInvariant, PTL

\* Wherever a mount on a target without content stops, a later one that merges
\* reaches what the whole mount would have, whatever calls came before (copy.go:24).
THEOREM MountFinishes == MovesRoot = FALSE => (MountSpec => []MergeFinishes)
<1>1. MemoryInv => MergeFinishes
  BY GoodIsFinished DEF MemoryInv
<1> QED BY <1>1, MemoryInvariant, PTL

=============================================================================
