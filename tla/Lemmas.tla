------------------------------- MODULE Lemmas -------------------------------
(***************************************************************************)
(* Least and greatest elements of sets of naturals, and induction over a   *)
(* set instead of a predicate: what is to hold of every number is that it  *)
(* is in the set. Then prefixes of sequences, as the paths of files are.   *)
(***************************************************************************)
EXTENDS Integers, WellFoundedInduction, SequenceTheorems, TLAPS

\* A set of naturals that has an element has a least one.
LEMMA MinimumExists ==
  ASSUME NEW T, T \subseteq Nat, T # {}
  PROVE  \E x \in T : \A y \in T : x <= y
<1> DEFINE R == OpToRel(<, Nat)
<1>1. \A x, y \in Nat : x < y => <<x, y>> \in R
  BY DEF OpToRel
<1>2. PICK x \in T : \A y \in T : ~(<<y, x>> \in R)
  <2>1. IsWellFoundedOn(R, Nat)
    BY NatLessThanWellFounded
  <2> HIDE DEF R
  <2> QED BY <2>1, WFMin, Zenon
<1>3. ASSUME NEW y \in T PROVE x <= y
  <2>1. x \in Nat /\ y \in Nat
    OBVIOUS
  <2>2. ~(y < x)
    <3> HIDE DEF R
    <3> QED BY <1>1, <1>2, <2>1
  <2> QED BY <2>1, <2>2
<1> QED BY <1>3

\* A set of naturals below a bound that has an element has a greatest one.
LEMMA MaximumExists ==
  ASSUME NEW n \in Nat, NEW T, T \subseteq 1 .. n, T # {}
  PROVE  \E x \in T : \A y \in T : y <= x
<1> DEFINE D == {n - x : x \in T}
<1>1. D \subseteq Nat
  OBVIOUS
<1>2. D # {}
  <2>1. PICK x \in T : TRUE
    OBVIOUS
  <2>2. n - x \in D
    BY <2>1
  <2> QED BY <2>2
<1>3. PICK d \in D : \A e \in D : d <= e
  <2> HIDE DEF D
  <2> QED BY <1>1, <1>2, MinimumExists
<1>4. PICK x \in T : d = n - x
  OBVIOUS
<1>5. ASSUME NEW y \in T PROVE y <= x
  <2>1. x \in 1 .. n /\ y \in 1 .. n
    OBVIOUS
  <2>2. n - y \in D
    OBVIOUS
  <2>3. d <= n - y
    <3> HIDE DEF D
    <3> QED BY <1>3, <2>2
  <2> QED BY <2>1, <2>3, <1>4
<1> QED BY <1>5

\* A set that has zero and with each natural the next one has all of them.
LEMMA Induct ==
  ASSUME NEW T, 0 \in T, \A n \in Nat : n \in T => n + 1 \in T
  PROVE  Nat \subseteq T
<1> SUFFICES ASSUME Nat \ T # {} PROVE FALSE
  OBVIOUS
<1>1. PICK x \in Nat \ T : \A y \in Nat \ T : x <= y
  BY MinimumExists
<1>2. x # 0 /\ x - 1 \in Nat
  OBVIOUS
<1>3. x - 1 \in T
  BY <1>1, <1>2
<1> QED BY <1>2, <1>3

\* The same up to a bound.
LEMMA InductTo ==
  ASSUME NEW m \in Nat, NEW T, 0 \in T, \A n \in 0 .. m - 1 : n \in T => n + 1 \in T
  PROVE  0 .. m \subseteq T
<1> DEFINE U == {n \in Nat : n <= m => n \in T}
<1>1. 0 \in U
  OBVIOUS
<1>2. \A n \in Nat : n \in U => n + 1 \in U
  OBVIOUS
<1>3. Nat \subseteq U
  <2> HIDE DEF U
  <2> QED BY <1>1, <1>2, Induct
<1> QED BY <1>3

\* F has a step on S for each of 1 .. n; g is where they lead from r.
StepsOn(F, S, n) == F \in [1 .. n -> [S -> S]]
Follows(g, F, S, r, n) == g \in [0 .. n -> S] /\ g[0] = r /\ \A i \in 1 .. n : g[i] = F[i][g[i - 1]]

\* A function on 0 .. n may be given by where it starts and by its steps on a set.
LEMMA StepsReach ==
  ASSUME NEW S, NEW r \in S, NEW n \in Nat, NEW F, StepsOn(F, S, n)
  PROVE  \E g : Follows(g, F, S, r, n)
<1>0. F \in [1 .. n -> [S -> S]]
  BY DEF StepsOn
<1> DEFINE Good(k, g) == g \in [0 .. n -> S] /\ g[0] = r /\ \A i \in 1 .. k : g[i] = F[i][g[i - 1]]
           T == {k \in 0 .. n : \E g \in [0 .. n -> S] : Good(k, g)}
<1>1. 0 \in T
  <2>1. [i \in 0 .. n |-> r] \in [0 .. n -> S] /\ Good(0, [i \in 0 .. n |-> r])
    OBVIOUS
  <2> HIDE DEF Good
  <2> QED BY <2>1
<1>2. ASSUME NEW k \in 0 .. n - 1, k \in T PROVE k + 1 \in T
  <2>1. PICK g \in [0 .. n -> S] : Good(k, g)
    <3> HIDE DEF Good
    <3> QED BY <1>2
  <2> DEFINE j == k + 1
             x == F[j][g[k]]
             h == [g EXCEPT ![j] = x]
  <2>2. j \in 1 .. n /\ j \in 0 .. n /\ k \in 0 .. n /\ j # 0 /\ k \in Nat
    OBVIOUS
  <2>3. x \in S
    <3> HIDE DEF j
    <3> QED BY <1>0, <2>1, <2>2
  <2> HIDE DEF x
  <2>4. h \in [0 .. n -> S] /\ h[j] = x /\ h[0] = r /\ \A i \in 0 .. n : i # j => h[i] = g[i]
    <3> HIDE DEF j
    <3> QED BY <2>1, <2>2, <2>3
  <2> HIDE DEF h
  <2>5. ASSUME NEW i \in 1 .. j PROVE h[i] = F[i][h[i - 1]]
    <3>1. i \in 0 .. n /\ i - 1 \in 0 .. n /\ i - 1 # j /\ (i = j => i - 1 = k) /\ (i # j => i \in 1 .. k)
      OBVIOUS
    <3>2. h[i - 1] = g[i - 1]
      BY <2>4, <3>1
    <3>3. CASE i = j
      BY <2>4, <3>1, <3>2, <3>3 DEF x
    <3>4. CASE i # j
      BY <2>1, <2>4, <3>1, <3>2, <3>4
    <3> QED BY <3>3, <3>4
  <2>6. Good(k + 1, h)
    BY <2>4, <2>5
  <2>7. k + 1 \in 0 .. n
    OBVIOUS
  <2> HIDE DEF Good
  <2> QED BY <2>4, <2>6, <2>7
<1>3. n \in T
  <2>1. \A k \in 0 .. n - 1 : k \in T => k + 1 \in T
    BY <1>2
  <2>2. 0 .. n \subseteq T
    <3> HIDE DEF T
    <3> QED BY <1>1, <2>1, InductTo
  <2> HIDE DEF T
  <2> QED BY <2>2
<1>4. PICK g : Good(n, g)
  <2> HIDE DEF Good
  <2> QED BY <1>3
<1> QED BY <1>4 DEF Follows

\* p is a prefix of q; what p lies in; where r goes when p becomes q.
Prefix(p, q) == Len(p) <= Len(q) /\ SubSeq(q, 1, Len(p)) = p
Up(p) == SubSeq(p, 1, Len(p) - 1)
Shift(r, p, q) == q \o SubSeq(r, Len(p) + 1, Len(r))

\* The first n elements of a sequence.
LEMMA BeginningIs ==
  ASSUME NEW S, NEW q \in Seq(S), NEW n \in 0 .. Len(q)
  PROVE  /\ SubSeq(q, 1, n) \in Seq(S) /\ Len(SubSeq(q, 1, n)) = n
         /\ \A i \in 1 .. n : SubSeq(q, 1, n)[i] = q[i]
<1>1. n \in Nat /\ Len(q) \in Nat /\ n <= Len(q)
  OBVIOUS
<1>2. \A i \in 1 .. n : q[i] \in S
  <2>1. \A i \in 1 .. n : i \in 1 .. Len(q)
    BY <1>1
  <2> QED BY <2>1, ElementOfSeq
<1>3. /\ SubSeq(q, 1, n) \in Seq(S)
      /\ Len(SubSeq(q, 1, n)) = IF 1 <= n THEN n - 1 + 1 ELSE 0
      /\ \A i \in 1 .. n - 1 + 1 : SubSeq(q, 1, n)[i] = q[1 + i - 1]
  BY <1>1, <1>2, SubSeqProperties
<1>4. Len(SubSeq(q, 1, n)) = n
  BY <1>1, <1>3
<1>5. ASSUME NEW i \in 1 .. n PROVE SubSeq(q, 1, n)[i] = q[i]
  <2>1. i \in 1 .. n - 1 + 1 /\ 1 + i - 1 = i
    BY <1>1
  <2> QED BY <1>3, <2>1
<1> QED BY <1>3, <1>4, <1>5

\* A prefix agrees with the sequence wherever it has an element.
LEMMA PrefixIs ==
  ASSUME NEW S, NEW p \in Seq(S), NEW q \in Seq(S)
  PROVE  Prefix(p, q) <=> Len(p) <= Len(q) /\ \A i \in 1 .. Len(p) : q[i] = p[i]
<1> SUFFICES ASSUME Len(p) <= Len(q)
    PROVE SubSeq(q, 1, Len(p)) = p <=> \A i \in 1 .. Len(p) : q[i] = p[i]
  BY DEF Prefix
<1> DEFINE n == Len(p)
           s == SubSeq(q, 1, n)
<1>1. n \in 0 .. Len(q)
  OBVIOUS
<1>2. s \in Seq(S) /\ Len(s) = n /\ \A i \in 1 .. n : s[i] = q[i]
  BY <1>1, BeginningIs
<1> HIDE DEF s
<1>3. ASSUME \A i \in 1 .. n : q[i] = p[i] PROVE s = p
  <2>1. \A i \in 1 .. Len(s) : s[i] = p[i]
    BY <1>2, <1>3
  <2> QED BY <1>2, <2>1, SeqEqual
<1> QED BY <1>2, <1>3 DEF s

\* Being a prefix is reflexive and antisymmetric, and the empty sequence is a prefix of all.
LEMMA PrefixOrder ==
  ASSUME NEW S, NEW p \in Seq(S), NEW q \in Seq(S)
  PROVE  /\ Prefix(p, p)
         /\ Prefix(p, q) /\ Prefix(q, p) => p = q
         /\ Prefix(<<>>, p) /\ (Prefix(p, <<>>) => p = <<>>)
<1>1. Prefix(p, p)
  BY PrefixIs
<1>2. Prefix(p, q) /\ Prefix(q, p) => p = q
  BY PrefixIs, SeqEqual
<1>3. <<>> \in Seq(S) /\ Len(<<>>) = 0
  BY EmptySeq
<1>4. Prefix(<<>>, p)
  <2>1. Len(<<>>) <= Len(p) /\ \A i \in 1 .. Len(<<>>) : p[i] = <<>>[i]
    BY <1>3
  <2> QED BY <1>3, <2>1, PrefixIs
<1>5. Prefix(p, <<>>) => p = <<>>
  <2>1. Prefix(p, <<>>) => Len(p) <= 0
    BY <1>3 DEF Prefix
  <2> QED BY <2>1, EmptySeq
<1> QED BY <1>1, <1>2, <1>4, <1>5

\* A prefix of a prefix is a prefix.
LEMMA PrefixTransitive ==
  ASSUME NEW S, NEW p \in Seq(S), NEW q \in Seq(S), NEW r \in Seq(S), Prefix(p, q), Prefix(q, r)
  PROVE  Prefix(p, r)
<1>1. Len(p) <= Len(q) /\ Len(q) <= Len(r) /\ Len(p) \in Nat /\ Len(q) \in Nat /\ Len(r) \in Nat
      /\ (\A i \in 1 .. Len(p) : q[i] = p[i]) /\ \A i \in 1 .. Len(q) : r[i] = q[i]
  BY PrefixIs
<1>2. \A i \in 1 .. Len(p) : i \in 1 .. Len(q)
  BY <1>1
<1>3. \A i \in 1 .. Len(p) : r[i] = p[i]
  BY <1>1, <1>2
<1>4. Len(p) <= Len(r)
  BY <1>1
<1> QED BY <1>3, <1>4, PrefixIs

\* Two prefixes of one sequence are prefixes of each other.
LEMMA PrefixTotal ==
  ASSUME NEW S, NEW p \in Seq(S), NEW q \in Seq(S), NEW r \in Seq(S), Prefix(p, r), Prefix(q, r)
  PROVE  /\ Len(p) <= Len(q) => Prefix(p, q)
         /\ Prefix(p, q) \/ Prefix(q, p)
<1>1. ASSUME NEW a \in Seq(S), NEW b \in Seq(S), Prefix(a, r), Prefix(b, r), Len(a) <= Len(b)
      PROVE Prefix(a, b)
  <2>1. (\A i \in 1 .. Len(a) : r[i] = a[i]) /\ \A i \in 1 .. Len(b) : r[i] = b[i]
    BY <1>1, PrefixIs
  <2>2. \A i \in 1 .. Len(a) : i \in 1 .. Len(b)
    BY <1>1
  <2> QED BY <1>1, <2>1, <2>2, PrefixIs
<1>2. Len(p) <= Len(q) \/ Len(q) <= Len(p)
  OBVIOUS
<1> QED BY <1>1, <1>2

\* Leaving the last element out gives the longest prefix but the sequence itself.
LEMMA UpIs ==
  ASSUME NEW S, NEW p \in Seq(S), p # <<>>
  PROVE  /\ Len(p) \in Nat \ {0} /\ Up(p) \in Seq(S) /\ Len(Up(p)) = Len(p) - 1
         /\ \A i \in 1 .. Len(p) - 1 : Up(p)[i] = p[i]
         /\ Prefix(Up(p), p) /\ Up(p) # p
         /\ \A q \in Seq(S) : Prefix(q, p) /\ q # p => Prefix(q, Up(p))
<1>1. Len(p) \in Nat \ {0}
  BY EmptySeq
<1>2. Up(p) \in Seq(S) /\ Len(Up(p)) = Len(p) - 1 /\ \A i \in 1 .. Len(p) - 1 : Up(p)[i] = p[i]
  <2>1. Len(p) - 1 \in 0 .. Len(p)
    BY <1>1
  <2> QED BY <2>1, BeginningIs DEF Up
<1>3. Prefix(Up(p), p) /\ Up(p) # p
  BY <1>1, <1>2, PrefixIs
<1>4. ASSUME NEW q \in Seq(S), Prefix(q, p), q # p PROVE Prefix(q, Up(p))
  <2>1. Len(q) # Len(p)
    BY <1>4, PrefixIs, SeqEqual
  <2>2. Len(q) <= Len(Up(p))
    <3>1. Len(q) \in Nat /\ Len(q) <= Len(p)
      BY <1>4 DEF Prefix
    <3> QED BY <1>1, <1>2, <2>1, <3>1
  <2> QED BY <1>2, <1>3, <1>4, <2>2, PrefixTotal
<1> QED BY <1>1, <1>2, <1>3, <1>4

\* s is r with p replaced by q.
Replaces(s, r, p, q) ==
  /\ Len(s) = Len(q) + Len(r) - Len(p)
  /\ \A i \in 1 .. Len(q) : s[i] = q[i]
  /\ \A i \in Len(p) + 1 .. Len(r) : s[Len(q) + i - Len(p)] = r[i]

\* What a move of p to q makes of a sequence that begins with p, element by element.
LEMMA ShiftIs ==
  ASSUME NEW S, NEW r \in Seq(S), NEW p \in Seq(S), NEW q \in Seq(S), Prefix(p, r)
  PROVE  /\ Shift(r, p, q) \in Seq(S) /\ Prefix(q, Shift(r, p, q))
         /\ Replaces(Shift(r, p, q), r, p, q)
<1> DEFINE t == SubSeq(r, Len(p) + 1, Len(r))
<1>1. Len(p) \in Nat /\ Len(q) \in Nat /\ Len(r) \in Nat /\ Len(p) <= Len(r)
  BY DEF Prefix
<1>2. /\ t \in Seq(S) /\ Len(t) = Len(r) - Len(p)
      /\ \A i \in 1 .. Len(r) - Len(p) : t[i] = r[Len(p) + i]
  <2> DEFINE m == Len(p) + 1
             n == Len(r)
  <2>1. \A i \in m .. n : r[i] \in S
    <3>1. \A i \in m .. n : i \in 1 .. Len(r)
      BY <1>1
    <3> QED BY <3>1, ElementOfSeq
  <2>2. m \in Int /\ n \in Int /\ m = Len(p) + 1 /\ n = Len(r)
    BY <1>1
  <2> HIDE DEF m, n
  <2>3. /\ SubSeq(r, m, n) \in Seq(S) /\ Len(SubSeq(r, m, n)) = IF m <= n THEN n - m + 1 ELSE 0
        /\ \A i \in 1 .. n - m + 1 : SubSeq(r, m, n)[i] = r[m + i - 1]
    BY <2>1, <2>2, SubSeqProperties
  <2>4. Len(t) = Len(r) - Len(p)
    BY <1>1, <2>2, <2>3
  <2>5. ASSUME NEW i \in 1 .. Len(r) - Len(p) PROVE t[i] = r[Len(p) + i]
    <3>1. i \in 1 .. n - m + 1 /\ m + i - 1 = Len(p) + i
      BY <1>1, <2>2
    <3> QED BY <2>2, <2>3, <3>1
  <2> QED BY <2>2, <2>3, <2>4, <2>5
<1> HIDE DEF t
<1>3. /\ q \o t \in Seq(S) /\ Len(q \o t) = Len(q) + Len(t)
      /\ \A i \in 1 .. Len(q) + Len(t) : (q \o t)[i] = IF i <= Len(q) THEN q[i] ELSE t[i - Len(q)]
  BY <1>2, ConcatProperties
<1>4. Len(q \o t) = Len(q) + Len(r) - Len(p)
  BY <1>1, <1>2, <1>3
<1>5. \A i \in 1 .. Len(q) : (q \o t)[i] = q[i]
  BY <1>1, <1>2, <1>3
<1>6. ASSUME NEW i \in Len(p) + 1 .. Len(r) PROVE (q \o t)[Len(q) + i - Len(p)] = r[i]
  <2>1. Len(q) + i - Len(p) \in 1 .. Len(q) + Len(t) /\ ~(Len(q) + i - Len(p) <= Len(q))
        /\ Len(q) + i - Len(p) - Len(q) = i - Len(p)
        /\ i - Len(p) \in 1 .. Len(r) - Len(p) /\ Len(p) + (i - Len(p)) = i
    BY <1>1, <1>2
  <2>2. (q \o t)[Len(q) + i - Len(p)] = t[i - Len(p)]
    BY <1>3, <2>1
  <2> QED BY <1>2, <2>1, <2>2
<1>7. Len(q) <= Len(q \o t)
  BY <1>1, <1>4
<1>8. Prefix(q, q \o t)
  BY <1>3, <1>5, <1>7, PrefixIs
<1> QED BY <1>3, <1>4, <1>5, <1>6, <1>8 DEF Shift, t, Replaces

\* A move of p to q can be undone, keeps what lies in what, and moves p itself to q.
LEMMA ShiftBack ==
  ASSUME NEW S, NEW r \in Seq(S), NEW p \in Seq(S), NEW q \in Seq(S), Prefix(p, r)
  PROVE  Shift(Shift(r, p, q), q, p) = r /\ Shift(p, p, q) = q
<1> DEFINE s == Shift(r, p, q)
           t == Shift(s, q, p)
<1>a. s \in Seq(S) /\ Prefix(q, s) /\ Replaces(s, r, p, q)
  BY ShiftIs
<1> HIDE DEF s
<1>b. t \in Seq(S) /\ Replaces(t, s, q, p)
  BY <1>a, ShiftIs
<1> HIDE DEF t
<1>1. /\ Len(s) = Len(q) + Len(r) - Len(p)
      /\ \A i \in Len(p) + 1 .. Len(r) : s[Len(q) + i - Len(p)] = r[i]
  BY <1>a DEF Replaces
<1>2. /\ t \in Seq(S) /\ Len(t) = Len(p) + Len(s) - Len(q)
      /\ \A i \in 1 .. Len(p) : t[i] = p[i]
      /\ \A i \in Len(q) + 1 .. Len(s) : t[Len(p) + i - Len(q)] = s[i]
  BY <1>b DEF Replaces
<1>3. Len(p) \in Nat /\ Len(q) \in Nat /\ Len(r) \in Nat /\ Len(p) <= Len(r)
  BY DEF Prefix
<1>4. ASSUME NEW i \in 1 .. Len(r) PROVE t[i] = r[i]
  <2>1. CASE i <= Len(p)
    <3>1. i \in 1 .. Len(p)
      BY <2>1, <1>3
    <3> QED BY <1>2, <3>1, PrefixIs
  <2>2. CASE ~(i <= Len(p))
    <3> DEFINE j == Len(q) + i - Len(p)
    <3>1. i \in Len(p) + 1 .. Len(r) /\ j \in Len(q) + 1 .. Len(s) /\ Len(p) + j - Len(q) = i
      BY <1>1, <1>3, <2>2
    <3>2. s[j] = r[i]
      BY <1>1, <3>1
    <3> HIDE DEF j
    <3>3. t[Len(p) + j - Len(q)] = s[j]
      BY <1>2, <3>1
    <3> QED BY <3>1, <3>2, <3>3
  <2> QED BY <2>1, <2>2
<1>5. Len(t) = Len(r)
  BY <1>1, <1>2, <1>3
<1>6. t = r
  BY <1>2, <1>4, <1>5, SeqEqual
<1>7. Shift(p, p, q) = q
  <2> DEFINE u == Shift(p, p, q)
  <2>1. Prefix(p, p)
    BY PrefixOrder
  <2>2. u \in Seq(S) /\ Replaces(u, p, p, q)
    BY <2>1, ShiftIs
  <2> HIDE DEF u
  <2>3. Len(u) = Len(q) /\ \A i \in 1 .. Len(u) : u[i] = q[i]
    BY <1>3, <2>2 DEF Replaces
  <2>4. u = q
    BY <2>2, <2>3, SeqEqual
  <2> QED BY <2>4 DEF u
<1> QED BY <1>6, <1>7 DEF t, s

\* What began with another sequence before the move still does after it.
LEMMA ShiftKeepsPrefix ==
  ASSUME NEW S, NEW r \in Seq(S), NEW s \in Seq(S), NEW p \in Seq(S), NEW q \in Seq(S),
         Prefix(p, r), Prefix(r, s)
  PROVE  Prefix(Shift(r, p, q), Shift(s, p, q))
<1> DEFINE a == Shift(r, p, q)
           b == Shift(s, p, q)
<1>1. Prefix(p, s)
  BY PrefixTransitive
<1>a. a \in Seq(S) /\ Replaces(a, r, p, q) /\ b \in Seq(S) /\ Replaces(b, s, p, q)
  BY <1>1, ShiftIs
<1> HIDE DEF a, b
<1>2. /\ a \in Seq(S) /\ Len(a) = Len(q) + Len(r) - Len(p)
      /\ \A i \in 1 .. Len(q) : a[i] = q[i]
      /\ \A i \in Len(p) + 1 .. Len(r) : a[Len(q) + i - Len(p)] = r[i]
  BY <1>a DEF Replaces
<1>3. /\ b \in Seq(S) /\ Len(b) = Len(q) + Len(s) - Len(p)
      /\ \A i \in 1 .. Len(q) : b[i] = q[i]
      /\ \A i \in Len(p) + 1 .. Len(s) : b[Len(q) + i - Len(p)] = s[i]
  BY <1>a DEF Replaces
<1>4. Len(p) \in Nat /\ Len(q) \in Nat /\ Len(r) \in Nat /\ Len(s) \in Nat /\ Len(p) <= Len(r) /\ Len(r) <= Len(s)
  BY DEF Prefix
<1>5. Len(a) <= Len(b)
  BY <1>2, <1>3, <1>4
<1>6. ASSUME NEW i \in 1 .. Len(a) PROVE b[i] = a[i]
  <2>1. CASE i <= Len(q)
    <3>1. i \in 1 .. Len(q)
      BY <2>1, <1>4
    <3> QED BY <1>2, <1>3, <3>1
  <2>2. CASE ~(i <= Len(q))
    <3> DEFINE j == i - Len(q) + Len(p)
    <3>1. j \in Len(p) + 1 .. Len(r) /\ j \in Len(p) + 1 .. Len(s) /\ j \in 1 .. Len(r) /\ Len(q) + j - Len(p) = i
      BY <1>2, <1>4, <2>2
    <3> HIDE DEF j
    <3>2. a[i] = r[j]
      BY <1>2, <3>1
    <3>3. b[i] = s[j]
      BY <1>3, <3>1
    <3> QED BY <3>1, <3>2, <3>3, PrefixIs
  <2> QED BY <2>1, <2>2
<1> QED BY <1>2, <1>3, <1>5, <1>6, PrefixIs DEF a, b

\* What a sequence lies in moves with it.
LEMMA ShiftUp ==
  ASSUME NEW S, NEW r \in Seq(S), NEW p \in Seq(S), NEW q \in Seq(S), Prefix(p, r), r # p
  PROVE  r # <<>> /\ Prefix(p, Up(r)) /\ Shift(r, p, q) # <<>> /\ Shift(r, p, q) # q
         /\ Up(Shift(r, p, q)) = Shift(Up(r), p, q)
<1>1. r # <<>>
  BY PrefixOrder
<1>2. /\ Len(r) \in Nat \ {0} /\ Up(r) \in Seq(S) /\ Len(Up(r)) = Len(r) - 1
      /\ Prefix(Up(r), r) /\ Prefix(p, Up(r))
  BY <1>1, UpIs
<1> DEFINE a == Shift(r, p, q)
           b == Shift(Up(r), p, q)
<1>3. a \in Seq(S) /\ b \in Seq(S) /\ Len(a) = Len(q) + Len(r) - Len(p)
      /\ Len(b) = Len(q) + (Len(r) - 1) - Len(p)
  <2>1. a \in Seq(S) /\ b \in Seq(S) /\ Replaces(a, r, p, q) /\ Replaces(b, Up(r), p, q)
    BY <1>2, ShiftIs
  <2> QED BY <1>2, <2>1 DEF Replaces
<1>4. Prefix(b, a)
  BY <1>2, ShiftKeepsPrefix
<1> HIDE DEF a, b
<1>5. Len(p) \in Nat /\ Len(q) \in Nat /\ Len(p) <= Len(r) - 1
  BY <1>2 DEF Prefix
<1>6. Len(a) > 0 /\ Len(a) # Len(q) /\ Len(b) = Len(a) - 1
  BY <1>2, <1>3, <1>5
<1>7. a # <<>>
  BY <1>6, EmptySeq
<1>8. Up(a) \in Seq(S) /\ Len(Up(a)) = Len(a) - 1 /\ Prefix(Up(a), a)
  BY <1>3, <1>7, UpIs
<1>9. Prefix(b, Up(a))
  BY <1>3, <1>4, <1>6, <1>8, PrefixTotal
<1>10. \A i \in 1 .. Len(b) : b[i] = Up(a)[i]
  BY <1>3, <1>8, <1>9, PrefixIs
<1>11. Up(a) = b
  BY <1>3, <1>6, <1>8, <1>10, SeqEqual
<1> QED BY <1>1, <1>2, <1>6, <1>7, <1>11 DEF a, b
=============================================================================
